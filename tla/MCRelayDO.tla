----------------------------- MODULE MCRelayDO ------------------------------
\* Two authors; one address of alice's with two versions of a post and a delete
\* that covers the first of them.
EXTENDS RelayDO, TLC

CONSTANTS alice, bob, p1, p2, d1, b1, s1, s2, everything, deletes, slotP, slotD, slotB

MCAuthor == [e \in Event |-> IF e = b1 THEN bob ELSE alice]
MCCreatedAt == [e \in Event |-> IF e = p2 THEN 2 ELSE 1]
MCIsPost(e) == e # d1
MCIsDelete(e) == e = d1
MCSlot(e) == IF e = d1 THEN slotD ELSE IF e = b1 THEN slotB ELSE slotP
\* No two events of one slot tie here.
MCLoses(current, incoming) ==
    current # NoEvent /\ MCCreatedAt[current] >= MCCreatedAt[incoming]
MCErases(d, e) == d = d1 /\ e = p1
MCCovers(d) == {slotP}
MCId == p1 :> 1 @@ p2 :> 2 @@ d1 :> 3
\* Two filters of limit 1 in one REQ, and one whose tag condition the query does not
\* test: in both a newer post can leave d1 behind.
MCClauses ==
    everything :> << [sql |-> {p1, p2}, match |-> {p1, p2}, limit |-> 1],
                     [sql |-> {d1}, match |-> {d1}, limit |-> 1] >>
    @@ deletes :> << [sql |-> Event, match |-> {d1}, limit |-> 1] >>
MCNoHorizon == -1

Auth(keys) == [type : {"auth"}, key : keys]
Publish(events) == [type : {"event"}, ev : events]
Req(names, filters) == [type : {"req"}, sub : names, filter : filters]
Close(names) == [type : {"close"}, sub : names]
Junk == [type |-> "junk"]

TableMessages == Auth({alice, bob}) \cup Publish({p1, d1}) \cup Close({s1}) \cup {Junk}
                    \cup Req({s1, s2}, {everything, deletes})

\* One socket whose handlers meet blocks, claims, time, evictions and D1 errors;
\* two sockets, one of them publishing; and one client that waits for its answers.
\* bob never claimed a handle.
Blocks ==
    [start |-> 0, sockets |-> 1, allowed |-> {alice}, moderated |-> {alice}, events |-> {p1},
     messages |-> Auth({alice, bob, NoKey}) \cup Publish({p1}),
     inTurn |-> FALSE, mayFail |-> TRUE]
Feed ==
    [start |-> 2, sockets |-> 2, allowed |-> {alice}, moderated |-> {}, events |-> {p1},
     messages |-> Auth({alice}) \cup Publish({p1}) \cup Req({s1}, {everything}),
     inTurn |-> FALSE, mayFail |-> FALSE]
Table ==
    [start |-> 2, sockets |-> 1, allowed |-> {alice, bob}, moderated |-> {}, events |-> Event,
     messages |-> TableMessages, inTurn |-> TRUE, mayFail |-> FALSE]

MCMixes == {Blocks, Feed, Table}

\* The same client, not waiting.
ReauthMixes ==
    { [start |-> 2, sockets |-> 1, allowed |-> {alice, bob}, moderated |-> {}, events |-> {p1},
       messages |-> TableMessages, inTurn |-> FALSE, mayFail |-> FALSE] }

MCMessage == Auth({alice, bob, NoKey}) \cup TableMessages

Alike == Permutations(Request) \cup Permutations(Conn)
=============================================================================
