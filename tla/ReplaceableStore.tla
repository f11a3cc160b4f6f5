-------------------------- MODULE ReplaceableStore --------------------------
(***************************************************************************)
(* What mirrorEvent promises its callers (docs/phases/CONTRACTS.md,        *)
(* "Module contracts" and the NIP-09 delete horizon), with no SQL, rowids, *)
(* index or round trips: one winner per replaceable slot, a hidden flag    *)
(* per stored event and one delete horizon per address, each delivery a    *)
(* single step.                                                            *)
(***************************************************************************)
EXTENDS Integers

CONSTANTS Event, Address, NoEvent, NoHorizon,
          IsPost(_),          \* kind 30023, the kind a horizon tombstones
          IsDelete(_),        \* kind 5
          Slot(_),            \* the address an event competes for
          Loses(_, _),        \* the first keeps the slot against the second
          CreatedAt,
          Erases(_, _),       \* the first, a delete, hides the second, a winner
          Covers(_)           \* addresses whose horizon a delete raises

VARIABLES winner,    \* [Address -> Event \cup {NoEvent}]
          hidden,    \* winners that readers do not see
          horizon    \* [Address -> Int]

store == <<winner, hidden, horizon>>

Open ==
    /\ winner = [a \in Address |-> NoEvent]
    /\ hidden = {}
    /\ horizon = [a \in Address |-> NoHorizon]

Wins(e) == winner[Slot(e)] = NoEvent \/ ~Loses(winner[Slot(e)], e)

Winners == {winner[a] : a \in Address} \ {NoEvent}

\* A post or profile takes its slot; a post under a horizon arrives hidden.
Put(e) ==
    /\ ~IsDelete(e)
    /\ Wins(e)
    /\ winner' = [winner EXCEPT ![Slot(e)] = e]
    /\ hidden' = (hidden \ {winner[Slot(e)]})
                    \cup (IF IsPost(e) /\ horizon[Slot(e)] >= CreatedAt[e]
                          THEN {e} ELSE {})
    /\ UNCHANGED horizon

\* A delete raises its horizons and hides its targets whether or not it is the
\* newest delete; only the newest is kept as the author's kind 5.
Erase(d) ==
    /\ IsDelete(d)
    /\ winner' = IF Wins(d) THEN [winner EXCEPT ![Slot(d)] = d] ELSE winner
    /\ hidden' = hidden \cup {e \in Winners : Erases(d, e)}
    /\ horizon' = [a \in Address |->
                     IF a \in Covers(d) /\ horizon[a] < CreatedAt[d]
                     THEN CreatedAt[d] ELSE horizon[a]]

Serve == \E e \in Event : Put(e) \/ Erase(e)

StoreSpec == Open /\ [][Serve]_store
=============================================================================
