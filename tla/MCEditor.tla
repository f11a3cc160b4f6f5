------------------------------ MODULE MCEditor ------------------------------
EXTENDS Editor

CONSTANTS t1, t2, alice, bob, r1, r2

On(p1, p2) == t1 :> p1 @@ t2 :> p2
Mix(page, redirect, uses, relays, e, c) ==
    [page |-> page, redirect |-> redirect, uses |-> uses, relays |-> relays,
     edits |-> e, clicks |-> c]

MCMixes ==
    { Mix(On("new", "none"), TRUE, {"type", "draft", "reload"}, {}, 3, 3),
      Mix(On("new", "new"), TRUE, {"type"}, {}, 2, 3),
      Mix(On("new", "profile"), TRUE, {"type"}, {r1}, 2, 2),
      Mix(On("new", "login"), TRUE, {"type"}, {}, 1, 3),
      Mix(On("edit", "none"), TRUE, {"type", "draft", "reload"}, {}, 2, 2),
      Mix(On("new", "login"), FALSE, {"type"}, {}, 1, 3),
      Mix(On("edit", "none"), FALSE, {"upload", "reload"}, {}, 0, 1),
      Mix(On("new", "edit"), TRUE, {"type"}, {}, 1, 3),
      Mix(On("edit", "none"), FALSE, {"type", "draft", "reload"}, {}, 2, 2),
      Mix(On("profile", "none"), FALSE, {"type"}, {r1, r2}, 1, 1) }
=============================================================================
