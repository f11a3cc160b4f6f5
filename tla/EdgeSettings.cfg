SPECIFICATION Spec
CONSTANTS
    View = {x1, x2}
    Job = {j1}
    Page = {home}
    Css = {plain, fancy}
    Css0 = plain
    SavesOverlap = FALSE
    MayFail = FALSE
SYMMETRY Alike
CHECK_DEADLOCK FALSE
INVARIANTS
    SettingsFresh
