SPECIFICATION Spec
CONSTANTS
    View = {x1, x2}
    Job = {j1, j2, j3}
    Page = {home}
    Css = {plain, fancy}
    Css0 = plain
    SavesOverlap = FALSE
    MayFail = TRUE
SYMMETRY Alike
CHECK_DEADLOCK FALSE
INVARIANTS
    TypeOK
    PagesCarryTheirGeneration
    ServedIsNotOlder
    SettledIsCurrent
