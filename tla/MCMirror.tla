------------------------------ MODULE MCMirror ------------------------------
\* A small world for Mirror: one blog with three versions of a post (two of
\* them tied on created_at), two kind 0 events that tie, a delete by address, a
\* later delete by id, and a second author whose post shares the rowid sequence.
EXTENDS MirrorStore, TLC

CONSTANTS alice, bob, t, none, v1, v2, v2b, d1, d2, k1, k2, b1, b2

MCEvent == {v1, v2, v2b, d1, d2, k1, k2, b1, b2}
MCPubkey == {alice, bob}
MCTag == {t, none}

MCAuthor == [e \in MCEvent |-> IF e \in {b1, b2} THEN bob ELSE alice]
MCKind == [e \in MCEvent |-> IF e \in {d1, d2} THEN "delete"
                             ELSE IF e \in {k1, k2} THEN "profile"
                             ELSE "post"]
\* k2 carries a stray d tag.
MCDTag == [e \in MCEvent |-> IF e \in {k1, d1, d2} THEN none ELSE t]
MCCreatedAt == v1 :> 1 @@ v2 :> 2 @@ v2b :> 2 @@ d1 :> 1 @@ d2 :> 3
               @@ k1 :> 1 @@ k2 :> 1 @@ b1 :> 1 @@ b2 :> 2
MCIdRank == v1 :> 1 @@ v2 :> 2 @@ v2b :> 3 @@ d1 :> 4 @@ d2 :> 5
            @@ k1 :> 6 @@ k2 :> 7 @@ b1 :> 8 @@ b2 :> 9
MCETags == [e \in MCEvent |-> IF e = d2 THEN {v1, v2b, b1} ELSE {}]
\* d1 also names an address of bob's, which it has no say over.
MCATags == [e \in MCEvent |->
              IF e = d1 THEN {<<"post", alice, t>>, <<"post", bob, t>>} ELSE {}]

Given(events) == [ev : events, genuine : {TRUE}, bump : {TRUE}]
Forged == [ev : {v2}, genuine : {FALSE}, bump : {TRUE}]
Session == [ev : {v2}, genuine : {TRUE}, bump : {FALSE}]

AllMessages == Given(MCEvent)
RaceMessages == Given({v1, v2, d1, d2, k1, k2, b1}) \cup Forged \cup Session

Calls == Permutations(Request)
=============================================================================
