---------------------------- MODULE MirrorStore -----------------------------
(***************************************************************************)
(* mirrorEvent implements ReplaceableStore as long as the calls for one    *)
(* author do not overlap: the store's step is the D1 batch, every other    *)
(* await is a stutter.                                                     *)
(***************************************************************************)
EXTENDS Mirror

Winner ==
    [a \in Address |-> IF Holders(a) = {} THEN NoEvent
                       ELSE CHOOSE e \in Holders(a) : TRUE]

IsPostKind(e) == Kind[e] = "post"
IsDeleteKind(e) == Kind[e] = "delete"
ErasesRow(d, e) ==
    /\ Author[e] = Author[d]
    /\ Kind[e] # "delete"
    /\ \/ e \in ETags[d]
       \/ Slot(e) \in OwnAddresses(d) /\ CreatedAt[e] <= CreatedAt[d]

Store == INSTANCE ReplaceableStore
            WITH winner <- Winner,
                 hidden <- deleted,
                 IsPost <- IsPostKind,
                 IsDelete <- IsDeleteKind,
                 Loses <- LosesToCurrent,
                 Erases <- ErasesRow,
                 Covers <- OwnAddresses

\* Every step of an isolated call is a step of the store or leaves it alone:
\* the reads of mirrorEvent and applyDelete are still true when their batch
\* commits, and the batch does all that was promised.
ImplementsStore == Store!StoreSpec
=============================================================================
