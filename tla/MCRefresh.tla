----------------------------- MODULE MCRefresh ------------------------------
\* Posts, two of them versions of one, a forgery, and a post dated far ahead of
\* the clock, on two relays.
EXTENDS Refresh, TLC

CONSTANTS r1, r2, a1, b2, a4, c5, forged, far

AllTimes == a1 :> 1 @@ b2 :> 2 @@ forged :> 3 @@ a4 :> 4 @@ c5 :> 5 @@ far :> 9
Times == [e \in Event |-> AllTimes[e]]

Slots == [e \in Event |-> IF e = a4 THEN a1 ELSE e]
\* One relay holds a forgery and a post dated far ahead, with or without the rest;
\* the other one is small, and may have the first post.
SmallSecond ==
    {b \in [Relay -> SUBSET Event] : {forged, far} \subseteq b[r1] /\ b[r2] \subseteq {a1}}

Spread == [Relay -> SUBSET Event]
=============================================================================
