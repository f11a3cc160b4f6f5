---------------------------- MODULE MirrorProofs ----------------------------
(***************************************************************************)
(* Proofs about Mirror for every set of events, authors and calls, without *)
(* any bound on how many calls overlap.                                    *)
(*                                                                         *)
(* The argument.  A batch deletes by a rowid read in an earlier round      *)
(* trip, and SQLite reuses rowids, so FtsCoupled needs to know whose row   *)
(* that rowid can name by then.  It can only be a row of the same slot:    *)
(* the top rowid never has a gap right below it (NoGapAtTop), hence a      *)
(* replacement never lowers the top, hence a rowid that was in use and is  *)
(* handed out again was the top one and went to the slot that gave it up.  *)
(***************************************************************************)
EXTENDS MirrorStore, TLAPS

\* Two stored events never share a rowid.
RowidsUnique == \A e, f \in Stored : rowid[e] = rowid[f] => e = f

\* UNIQUE(pubkey, kind, d_tag).
SlotsUnique == \A e, f \in Stored : Slot(e) = Slot(f) => e = f

DeletedStored == deleted \subseteq Stored

\* Below the top rowid, if it is not 1, there is no gap.
NoGapAtTop ==
    \A e \in Stored : rowid[e] > 1 =>
       \E f \in Stored : f # e /\ rowid[f] >= rowid[e] - 1

\* Some row is at or above k, so k will not be handed out afresh.
Topped(k) == \E f \in Stored : rowid[f] >= k

\* Only a row of slot s can have rowid k.
Owned(k, s) == \A f \in Stored : rowid[f] = k => Slot(f) = s

\* What a call may rely on between its slot read and its batch.
ReadsOwned ==
    \A r \in Request : pc[r] = "commit" /\ slotRid[r] # 0 =>
       Topped(slotRid[r]) /\ Owned(slotRid[r], Slot(Ev(r)))

RowsOK == RowidsUnique /\ SlotsUnique /\ NoGapAtTop /\ ReadsOwned

\* A batch is retried from its first attempt only.
RetriedOnce == \A r \in Request : pc[r] = "recheck" => attempt[r] = 0

IInv == TypeOK /\ RetriedOnce /\ RowsOK /\ DeletedStored /\ FtsCoupled

-----------------------------------------------------------------------------
\* An event's slot is an address.
LEMMA SlotIsAddress == \A e \in Event : Slot(e) \in Address
BY EventAssumption DEF Slot, SlotDTag, Address, Kinds

\* The type invariant is inductive.
LEMMA TypeInit == Init => TypeOK /\ RetriedOnce
BY EventAssumption DEF Init, TypeOK, Typed, OnlyProfiles, RetriedOnce, Address, NoHorizon, Steps, Results

LEMMA TypeStep == TypeOK /\ RetriedOnce /\ [Next]_vars => TypeOK'
<1> SUFFICES ASSUME TypeOK, RetriedOnce, [Next]_vars PROVE TypeOK'
  OBVIOUS
<1>m. \A r \in Request : Ev(r) \in Event
  BY EventAssumption DEF TypeOK, Typed, Ev, Delivery
<1>a. \A r \in Request, s \in Steps : Await(r, s) =>
         pc' \in [Request -> Steps] /\ result' \in [Request -> Results]
  BY DEF TypeOK, Typed, Await
<1>b. \A r \in Request, v \in Results : Resolve(r, v) =>
         pc' \in [Request -> Steps] /\ result' \in [Request -> Results]
  BY DEF TypeOK, Typed, Resolve, Steps
<1>s. /\ {"horizon", "slot", "commit", "recheck", "profile", "bump"} \subseteq Steps
      /\ {"stored", "stale", "invalid", "error", "failed"} \subseteq Results
  BY DEF Steps, Results
<1>c. \A r \in Request : AfterCommit(r) =>
         pc' \in [Request -> Steps] /\ result' \in [Request -> Results]
  BY <1>a, <1>b, <1>s DEF AfterCommit
<1>i. ASSUME NEW r \in Request, NEW n \in {1} \cup {rowid[e] + 1 : e \in Remaining(r)},
             InsertRow(r, n)
      PROVE  rowid' \in [Event -> Nat]
  BY <1>i DEF TypeOK, Typed, InsertRow, Remaining, Stored
<1>1. ASSUME NEW r \in Request, CheckPrior(r) PROVE Typed'
  BY <1>1, <1>a, <1>b, <1>s DEF CheckPrior, TypeOK, Typed, tables, locals
<1>2. ASSUME NEW r \in Request, ReadHorizon(r) PROVE Typed'
  BY <1>2, <1>a, <1>s DEF ReadHorizon, TypeOK, Typed, tables
<1>3. ASSUME NEW r \in Request, ReadSlot(r) PROVE Typed'
  BY <1>3, <1>a, <1>b, <1>s DEF ReadSlot, TypeOK, Typed, tables, Holders, Stored
<1>4. ASSUME NEW r \in Request, ReadMarkerSlot(r) PROVE Typed'
  BY <1>4, <1>a, <1>s DEF ReadMarkerSlot, TypeOK, Typed, tables, Holders, Stored
<1>5. ASSUME NEW r \in Request, CommitEvent(r) PROVE Typed'
  <2>1. rowid' \in [Event -> Nat]
    BY <1>5, <1>i DEF CommitEvent, Unindexed
  <2>2. fts' \subseteq Nat
    <3>1. \A e \in Event : rowid[e] + 1 \in Nat
      BY DEF TypeOK, Typed
    <3>2. PICK n \in {1} \cup {rowid[e] + 1 : e \in Remaining(r)} :
             fts' = (fts \ {slotRid[r]}) \cup {n} \/ fts' = fts \ {slotRid[r]}
      BY <1>5 DEF CommitEvent, Unindexed
    <3>3. n \in Nat
      BY <3>1 DEF Remaining, Stored
    <3>4. QED
      BY <3>2, <3>3 DEF TypeOK, Typed
  <2>3. deleted' \subseteq Event /\ unbumped' \subseteq Pubkey
    BY <1>5, <1>m, EventAssumption DEF CommitEvent, Unindexed, TypeOK, Typed
  <2>4. QED
    BY <1>5, <2>1, <2>2, <2>3, <1>c DEF CommitEvent, Unindexed, TypeOK, Typed, locals
<1>6. ASSUME NEW r \in Request, CommitDelete(r) PROVE Typed'
  <2>1. rowid' \in [Event -> Nat]
    BY <1>6, <1>i DEF CommitDelete, HiddenWith, TypeOK, Typed
  <2>2. fts' \subseteq Nat
    BY <1>6 DEF CommitDelete, HiddenWith, TypeOK, Typed
  <2>3. deleted' \subseteq Event
    BY <1>6 DEF CommitDelete, HiddenWith, TypeOK, Typed, Targets, Stored
  <2>4. unbumped' \subseteq Pubkey
    BY <1>6, <1>m, EventAssumption DEF CommitDelete, HiddenWith, TypeOK, Typed
  <2>5. horizon' \in [Address -> Nat \cup {NoHorizon}]
    BY <1>6, <1>m, EventAssumption DEF CommitDelete, RaiseHorizons, TypeOK, Typed
  <2>6. QED
    BY <1>6, <2>1, <2>2, <2>3, <2>4, <2>5, <1>c DEF CommitDelete, HiddenWith, TypeOK, Typed, locals
<1>7. ASSUME NEW r \in Request, CommitConflict(r) PROVE Typed'
  BY <1>7, <1>a, <1>b, <1>s DEF CommitConflict, TypeOK, Typed, tables, locals
<1>8. ASSUME NEW r \in Request, Recheck(r) PROVE Typed'
  <2>1. attempt' \in [Request -> 0..1]
    BY <1>8 DEF Recheck, TypeOK, Typed, RetriedOnce
  <2>2. QED
    BY <1>8, <1>a, <1>b, <1>s, <2>1 DEF Recheck, TypeOK, Typed, tables
<1>9. ASSUME NEW r \in Request, UpsertProfile(r) PROVE Typed'
  BY <1>9, <1>a, <1>b, <1>s, <1>m DEF UpsertProfile, TypeOK, Typed, locals
<1>10. ASSUME NEW r \in Request, BumpGen(r) PROVE Typed'
  BY <1>10, <1>b, <1>s DEF BumpGen, TypeOK, Typed, tables, locals
<1>11. ASSUME NEW r \in Request, Fail(r) PROVE Typed'
  BY <1>11, <1>b, <1>s DEF Fail, TypeOK, Typed, tables, locals
<1>12. ASSUME UNCHANGED vars PROVE Typed'
  BY <1>12 DEF vars, tables, locals, TypeOK, Typed
<1>13. OnlyProfiles'
  <2>1. msg' = msg
    BY DEF Next, Step, Handle, CheckPrior, ReadHorizon, ReadSlot, ReadMarkerSlot, CommitEvent,
       CommitDelete, CommitConflict, Recheck, UpsertProfile, BumpGen, Fail, vars
  <2>2. ASSUME NEW r \in Request, AfterCommit(r), NEW q \in Request, pc'[q] = "profile"
        PROVE  pc[q] = "profile" \/ Kind[Ev(q)] = "profile"
    BY <2>2 DEF AfterCommit, Await, Resolve, TypeOK, Typed
  <2>3. ASSUME NEW r \in Request, Step(r), NEW q \in Request, pc'[q] = "profile"
        PROVE  pc[q] = "profile" \/ Kind[Ev(q)] = "profile"
    <3>1. CASE CommitEvent(r) \/ CommitDelete(r)
      BY <2>2, <2>3, <3>1 DEF CommitEvent, CommitDelete
    <3>2. CASE ~CommitEvent(r) /\ ~CommitDelete(r)
      BY <2>3, <3>2 DEF Step, Handle, CheckPrior, ReadHorizon, ReadSlot, ReadMarkerSlot,
         CommitConflict, Recheck, UpsertProfile, BumpGen, Fail, Await, Resolve, TypeOK, Typed
    <3>3. QED
      BY <3>1, <3>2
  <2>4. QED
    BY <2>1, <2>3 DEF Next, vars, TypeOK, OnlyProfiles, Ev
<1>14. Typed'
  BY <1>1, <1>2, <1>3, <1>4, <1>5, <1>6, <1>7, <1>8, <1>9, <1>10, <1>11, <1>12
     DEF Next, Step, Handle
<1>15. QED
  BY <1>13, <1>14 DEF TypeOK

LEMMA RetriedStep == TypeOK /\ RetriedOnce /\ [Next]_vars => RetriedOnce'
<1> SUFFICES ASSUME TypeOK, RetriedOnce, [Next]_vars PROVE RetriedOnce'
  OBVIOUS
<1>1. ASSUME NEW r \in Request, CommitConflict(r) PROVE RetriedOnce'
  BY <1>1 DEF CommitConflict, RetriedOnce, TypeOK, Typed, Await, Resolve, locals
<1>2. ASSUME NEW r \in Request, Recheck(r) PROVE RetriedOnce'
  BY <1>2 DEF Recheck, RetriedOnce, TypeOK, Typed, Await, Resolve
<1>3. ASSUME NEW r \in Request, Step(r), ~CommitConflict(r), ~Recheck(r)
      PROVE  RetriedOnce'
  <2>1. UNCHANGED attempt
    BY <1>3 DEF Step, Handle, CheckPrior, ReadHorizon, ReadSlot, ReadMarkerSlot, CommitEvent,
       CommitDelete, UpsertProfile, BumpGen, Fail, locals
  <2>2. \A q \in Request : pc'[q] = "recheck" => pc[q] = "recheck"
    BY <1>3 DEF Step, Handle, CheckPrior, ReadHorizon, ReadSlot, ReadMarkerSlot, CommitEvent,
       CommitDelete, UpsertProfile, BumpGen, Fail, AfterCommit, Await, Resolve, TypeOK, Typed
  <2>3. QED
    BY <2>1, <2>2 DEF RetriedOnce
<1>4. QED
  BY <1>1, <1>2, <1>3 DEF Next, vars, locals, RetriedOnce

\* Every variable of an ingest keeps its type, however the calls interleave.
THEOREM TypeCorrect == Spec => []TypeOK
BY TypeInit, TypeStep, RetriedStep, PTL DEF Spec

-----------------------------------------------------------------------------
\* What an insertion by a committing batch does to the table: the new row n, and
\* the old rows that are not at the rowid the batch deletes.
LEMMA InsertKeepsRows ==
    ASSUME TypeOK, RowsOK, NEW r \in Request, pc[r] = "commit", ~Collides(r),
           NEW n \in Nat, FreshRowid(n, Remaining(r)), InsertRow(r, n)
    PROVE  /\ Stored' = Remaining(r) \cup {Ev(r)}
           /\ rowid'[Ev(r)] = n
           /\ Ev(r) \notin Remaining(r)
           /\ \A e \in Remaining(r) : rowid'[e] = rowid[e]
           /\ RowidsUnique' /\ SlotsUnique' /\ NoGapAtTop'
           /\ \A k \in Nat \ {0}, s \in Address :
                 Topped(k) /\ Owned(k, s) => Topped(k)' /\ Owned(k, s)'
<1> DEFINE e0 == Ev(r)
           left == Remaining(r)
<1>1. e0 \in Event
  BY EventAssumption DEF TypeOK, Typed, Ev, Delivery
<1>2. left \subseteq Stored /\ Stored \subseteq Event
  BY DEF Remaining, Stored
<1>3. \A e \in Event : rowid[e] \in Nat
  BY DEF TypeOK, Typed
<1>4. e0 \notin left
  BY DEF Collides
<1>5. n # 0 /\ \A e \in left : rowid[e] < n
  BY <1>2, <1>3 DEF FreshRowid
<1>6. /\ rowid'[e0] = n
      /\ \A e \in left : rowid'[e] = rowid[e]
      /\ \A e \in Event : e # e0 /\ e \notin left => rowid'[e] = 0
  BY <1>1, <1>2, <1>4 DEF InsertRow
<1>7. Stored' = left \cup {e0}
  BY <1>1, <1>2, <1>5, <1>6 DEF Stored
<1>8. RowidsUnique'
  BY <1>2, <1>3, <1>5, <1>6, <1>7 DEF RowidsUnique, RowsOK
<1>9. SlotsUnique'
  <2>1. \A e \in left : Slot(e) # Slot(e0)
    BY DEF Collides
  <2>2. QED
    BY <1>2, <1>7, <2>1 DEF SlotsUnique, RowsOK, Slot, SlotDTag
<1>10. (n = 1 /\ left = {}) \/ (\E f \in left : rowid[f] = n - 1)
  BY <1>2, <1>3 DEF FreshRowid, Remaining, Stored
<1>11. NoGapAtTop'
  <2> SUFFICES ASSUME NEW e \in Stored', rowid'[e] > 1
               PROVE  \E f \in Stored' : f # e /\ rowid'[f] >= rowid'[e] - 1
    BY DEF NoGapAtTop
  <2>1. CASE e = e0
    BY <2>1, <1>3, <1>2, <1>4, <1>6, <1>7, <1>10
  <2>2. CASE e \in left
    BY <2>2, <1>2, <1>3, <1>4, <1>5, <1>6, <1>7
  <2>3. QED
    BY <1>7, <2>1, <2>2
<1>12. \A w \in Stored : w \notin left =>
          /\ rowid[w] = slotRid[r]
          /\ Slot(w) = Slot(e0)
          /\ rowid[w] <= n
  <2> SUFFICES ASSUME NEW w \in Stored, w \notin left
               PROVE  /\ rowid[w] = slotRid[r]
                      /\ Slot(w) = Slot(e0)
                      /\ rowid[w] <= n
    OBVIOUS
  <2>1. rowid[w] = slotRid[r] /\ rowid[w] # 0
    BY DEF Remaining, Stored
  <2>2. Slot(w) = Slot(e0)
    BY <2>1 DEF RowsOK, ReadsOwned, Owned
  <2>3. CASE rowid[w] > 1
    <3>1. PICK f \in Stored : f # w /\ rowid[f] >= rowid[w] - 1
      BY <2>3 DEF RowsOK, NoGapAtTop
    <3>2. rowid[f] # rowid[w]
      BY <3>1 DEF RowsOK, RowidsUnique
    <3>3. f \in left
      BY <2>1, <3>2 DEF Remaining
    <3>4. QED
      BY <1>2, <1>3, <1>5, <2>1, <2>2, <3>1, <3>3
  <2>4. CASE ~(rowid[w] > 1)
    BY <1>2, <1>3, <1>5, <2>1, <2>2, <2>4
  <2>5. QED
    BY <2>3, <2>4
<1>13. ASSUME NEW k \in Nat \ {0}, NEW s \in Address, Topped(k), Owned(k, s)
       PROVE  Topped(k)' /\ Owned(k, s)'
  <2>1. PICK w \in Stored : rowid[w] >= k
    BY <1>13 DEF Topped
  <2>2. n >= k \/ (w \in left /\ rowid'[w] >= k)
    BY <1>12, <1>2, <1>3, <1>6, <2>1
  <2>3. Topped(k)'
    BY <1>6, <1>7, <2>2 DEF Topped
  <2>4. ASSUME n = k PROVE Slot(e0) = s
    <3>1. w \notin left
      BY <1>2, <1>3, <1>5, <2>1, <2>4
    <3>2. rowid[w] = k
      BY <1>2, <1>3, <1>12, <2>1, <2>4, <3>1
    <3>3. QED
      BY <1>12, <1>13, <3>1, <3>2 DEF Owned
  <2>5. ASSUME NEW f \in Stored', rowid'[f] = k PROVE Slot(f) = s
    BY <1>6, <1>7, <1>2, <1>13, <2>4, <2>5 DEF Owned
  <2>6. Owned(k, s)'
    BY <2>5 DEF Owned, Slot, SlotDTag
  <2>7. QED
    BY <2>3, <2>6
<1>14. QED
  BY <1>4, <1>6, <1>7, <1>8, <1>9, <1>11, <1>13

\* A step that leaves the table alone and does not enter "commit" with a new
\* rowid keeps what the row invariants say.
LEMMA RowsFramed ==
    ASSUME TypeOK, RowsOK, UNCHANGED <<rowid, msg>>,
           \A r \in Request : pc'[r] = "commit" /\ slotRid'[r] # 0 =>
              Topped(slotRid'[r]) /\ Owned(slotRid'[r], Slot(Ev(r)))
    PROVE  RowsOK'
<1>1. Stored' = Stored
  BY DEF Stored
<1>2. RowidsUnique' /\ SlotsUnique' /\ NoGapAtTop'
  BY <1>1 DEF RowsOK, RowidsUnique, SlotsUnique, NoGapAtTop, Slot, SlotDTag
<1>3. ReadsOwned'
  BY <1>1 DEF RowsOK, ReadsOwned, Topped, Owned, Ev, Slot, SlotDTag
<1>4. QED
  BY <1>2, <1>3 DEF RowsOK

\* Steps that touch neither the table nor the index nor a slot read.
LEMMA Framed ==
    ASSUME IInv, UNCHANGED <<rowid, deleted, fts, msg, slotRid>>,
           \A r \in Request : pc'[r] = "commit" => pc[r] = "commit"
    PROVE  RowsOK' /\ DeletedStored' /\ FtsCoupled'
<1>1. RowsOK'
  BY RowsFramed DEF IInv, RowsOK, ReadsOwned
<1>2. DeletedStored' /\ FtsCoupled'
  BY DEF IInv, DeletedStored, FtsCoupled, Visible, Stored
<1>3. QED
  BY <1>1, <1>2

-----------------------------------------------------------------------------
\* A slot read returns a rowid that belongs to the slot it was asked about.
LEMMA SlotReadKeeps ==
    ASSUME IInv, NEW r \in Request, ReadSlot(r) \/ ReadMarkerSlot(r)
    PROVE  RowsOK' /\ DeletedStored' /\ FtsCoupled'
<1>1. UNCHANGED <<rowid, deleted, fts, msg>>
  BY DEF ReadSlot, ReadMarkerSlot, tables
<1>2. \A q \in Request : q # r => pc'[q] = pc[q] /\ slotRid'[q] = slotRid[q]
  BY DEF ReadSlot, ReadMarkerSlot, Await, Resolve, IInv, TypeOK, Typed
<1>3. pc'[r] = "commit" /\ slotRid'[r] # 0 =>
         \E current \in Holders(Slot(Ev(r))) : slotRid'[r] = rowid[current]
  BY DEF ReadSlot, ReadMarkerSlot, Await, Resolve, IInv, TypeOK, Typed
<1>4. ASSUME NEW current \in Holders(Slot(Ev(r)))
      PROVE  Topped(rowid[current]) /\ Owned(rowid[current], Slot(Ev(r)))
  <2>1. current \in Stored /\ Slot(current) = Slot(Ev(r))
    BY DEF Holders
  <2>2. Topped(rowid[current])
    BY <2>1 DEF Topped, IInv, TypeOK, Typed, Stored
  <2>3. Owned(rowid[current], Slot(Ev(r)))
    BY <2>1 DEF Owned, IInv, RowsOK, RowidsUnique
  <2>4. QED
    BY <2>2, <2>3
<1>5. ASSUME NEW q \in Request, pc'[q] = "commit", slotRid'[q] # 0
      PROVE  Topped(slotRid'[q]) /\ Owned(slotRid'[q], Slot(Ev(q)))
  <2>1. CASE q = r
    BY <2>1, <1>3, <1>4, <1>5
  <2>2. CASE q # r
    BY <2>2, <1>2, <1>5 DEF IInv, RowsOK, ReadsOwned
  <2>3. QED
    BY <2>1, <2>2
<1>6. RowsOK'
  BY <1>1, <1>5, RowsFramed DEF IInv
<1>7. DeletedStored' /\ FtsCoupled'
  BY <1>1 DEF IInv, DeletedStored, FtsCoupled, Visible, Stored
<1>8. QED
  BY <1>6, <1>7

\* After an insertion every call still waiting to commit owns its rowid.
LEMMA InsertKeepsReads ==
    ASSUME TypeOK, RowsOK, NEW r \in Request, pc[r] = "commit", ~Collides(r),
           NEW n \in Nat, FreshRowid(n, Remaining(r)), InsertRow(r, n),
           UNCHANGED <<msg, slotRid>>,
           \A q \in Request : pc'[q] = "commit" => pc[q] = "commit"
    PROVE  RowsOK'
<1>1. ASSUME NEW q \in Request, pc'[q] = "commit", slotRid[q] # 0
      PROVE  /\ \E f \in Stored' : rowid'[f] >= slotRid[q]
             /\ \A f \in Stored' : rowid'[f] = slotRid[q] => Slot(f) = Slot(Ev(q))
  <2>1. Topped(slotRid[q]) /\ Owned(slotRid[q], Slot(Ev(q)))
    BY <1>1 DEF RowsOK, ReadsOwned
  <2>2. slotRid[q] \in Nat \ {0} /\ Slot(Ev(q)) \in Address
    BY <1>1, SlotIsAddress, EventAssumption DEF TypeOK, Typed, Ev, Delivery
  <2>3. \A k \in Nat \ {0}, s \in Address :
           Topped(k) /\ Owned(k, s) =>
              /\ \E f \in Stored' : rowid'[f] >= k
              /\ \A f \in Stored' : rowid'[f] = k => Slot(f) = s
    BY InsertKeepsRows DEF Topped, Owned, Slot, SlotDTag
  <2>4. QED
    BY <2>1, <2>2, <2>3
<1>2. ReadsOwned'
  BY <1>1 DEF ReadsOwned, Topped, Owned, Ev, Slot, SlotDTag
<1>3. QED
  BY <1>2, InsertKeepsRows DEF RowsOK

-----------------------------------------------------------------------------
\* After AfterCommit no other call has started waiting to commit.
LEMMA AfterCommitKeepsWaiting ==
    ASSUME TypeOK, NEW r \in Request, AfterCommit(r)
    PROVE  \A q \in Request : pc'[q] = "commit" => pc[q] = "commit"
BY DEF AfterCommit, Await, Resolve, TypeOK, Typed

\* The batch of mirrorEvent keeps the index in step with the table.
LEMMA CommitEventKeeps ==
    ASSUME IInv, NEW r \in Request, CommitEvent(r)
    PROVE  RowsOK' /\ DeletedStored' /\ FtsCoupled'
<1> DEFINE e0 == Ev(r)
           left == Remaining(r)
<1>1. PICK n \in {1} \cup {rowid[e] + 1 : e \in Remaining(r)} :
         /\ FreshRowid(n, Remaining(r))
         /\ InsertRow(r, n)
         /\ IF Kind[Ev(r)] = "post" /\ r \notin tombstoned
            THEN fts' = (fts \ {slotRid[r]}) \cup {n}
            ELSE fts' = fts \ {slotRid[r]}
  BY DEF CommitEvent, Unindexed
<1>2. /\ pc[r] = "commit" /\ ~Collides(r)
      /\ UNCHANGED <<msg, slotRid, tombstoned>>
      /\ deleted' = ((deleted \cap left) \ {e0})
                       \cup (IF r \in tombstoned THEN {e0} ELSE {})
      /\ AfterCommit(r)
  BY DEF CommitEvent, locals
<1>3. n \in Nat
  <2>1. \A e \in Event : rowid[e] + 1 \in Nat
    BY DEF IInv, TypeOK, Typed
  <2>2. QED
    BY <2>1 DEF Remaining, Stored
<1>4. RowsOK'
  BY <1>1, <1>2, <1>3, InsertKeepsReads, AfterCommitKeepsWaiting DEF IInv
<1>5. /\ Stored' = left \cup {e0}
      /\ rowid'[e0] = n
      /\ e0 \notin left
      /\ \A e \in left : rowid'[e] = rowid[e]
  BY <1>1, <1>2, <1>3, InsertKeepsRows DEF IInv
<1>6. DeletedStored'
  BY <1>2, <1>5 DEF DeletedStored
<1>7. {rowid[e] : e \in {x \in left : x \notin deleted /\ Kind[x] = "post"}}
         = fts \ {slotRid[r]}
  BY DEF IInv, FtsCoupled, Visible, Remaining
<1>8. CASE Kind[e0] = "post" /\ r \notin tombstoned
  <2>1. Visible' = {x \in left : x \notin deleted /\ Kind[x] = "post"} \cup {e0}
    BY <1>8, <1>2, <1>5 DEF Visible
  <2>2. fts' = (fts \ {slotRid[r]}) \cup {n}
    BY <1>1, <1>8
  <2>3. QED
    BY <1>4, <1>5, <1>6, <1>7, <2>1, <2>2 DEF FtsCoupled
<1>9. CASE ~(Kind[e0] = "post" /\ r \notin tombstoned)
  <2>1. Visible' = {x \in left : x \notin deleted /\ Kind[x] = "post"}
    BY <1>9, <1>2, <1>5 DEF Visible
  <2>2. fts' = fts \ {slotRid[r]}
    BY <1>1, <1>9
  <2>3. QED
    BY <1>4, <1>5, <1>6, <1>7, <2>1, <2>2 DEF FtsCoupled
<1>10. QED
  BY <1>8, <1>9

\* So does the batch of applyDelete, whether or not it stores its marker.
LEMMA CommitDeleteKeeps ==
    ASSUME IInv, NEW r \in Request, CommitDelete(r)
    PROVE  RowsOK' /\ DeletedStored' /\ FtsCoupled'
<1> DEFINE d == Ev(r)
           hidden == HiddenWith(d)
           left == Remaining(r)
           gone == {rowid[e] : e \in {x \in hidden : Author[x] = Author[d]}}
<1>1. /\ pc[r] = "commit" /\ Kind[d] = "delete"
      /\ UNCHANGED <<msg, slotRid>>
      /\ fts' = fts \ gone
      /\ AfterCommit(r)
  BY DEF CommitDelete, locals
<1>2. hidden \subseteq Stored /\ \A e \in Targets(d) : Author[e] = Author[d]
  BY DEF IInv, DeletedStored, HiddenWith, Targets
<1>3. fts' = {rowid[e] : e \in Visible \ hidden}
  <2>1. \A e \in Visible, x \in hidden : rowid[e] = rowid[x] => e = x
    BY <1>2 DEF IInv, RowsOK, RowidsUnique, Visible
  <2>2. \A e \in Visible : e \notin hidden => rowid[e] \notin gone
    BY <2>1
  <2>3. \A e \in Visible : e \in hidden => rowid[e] \in gone
    BY <1>2 DEF Visible, HiddenWith
  <2>4. QED
    BY <1>1, <2>2, <2>3 DEF IInv, FtsCoupled
<1>4. CASE r \in marking
  <2>1. PICK n \in {1} \cup {rowid[e] + 1 : e \in Remaining(r)} :
           FreshRowid(n, Remaining(r)) /\ InsertRow(r, n)
    BY <1>4 DEF CommitDelete
  <2>2. ~Collides(r) /\ deleted' = (hidden \cap left) \ {d}
    BY <1>4 DEF CommitDelete
  <2>3. n \in Nat
    <3>1. \A e \in Event : rowid[e] + 1 \in Nat
      BY DEF IInv, TypeOK, Typed
    <3>2. QED
      BY <3>1 DEF Remaining, Stored
  <2>4. RowsOK'
    BY <1>1, <2>1, <2>2, <2>3, InsertKeepsReads, AfterCommitKeepsWaiting DEF IInv
  <2>5. /\ Stored' = left \cup {d}
        /\ \A e \in left : rowid'[e] = rowid[e]
    BY <1>1, <2>1, <2>2, <2>3, InsertKeepsRows DEF IInv
  <2>6. \A e \in Stored : e \notin left => Kind[e] = "delete"
    <3>1. \A e \in Stored : e \notin left => rowid[e] = slotRid[r] /\ slotRid[r] # 0
      BY DEF Remaining, Stored
    <3>2. \A e \in Stored : e \notin left => Slot(e) = Slot(d)
      BY <1>1, <3>1 DEF IInv, RowsOK, ReadsOwned, Owned
    <3>3. QED
      BY <1>1, <3>2 DEF Slot
  <2>7. Visible' = Visible \ hidden
    BY <1>1, <2>2, <2>5, <2>6 DEF Visible, Remaining, HiddenWith
  <2>8. \A e \in Visible \ hidden : rowid'[e] = rowid[e]
    BY <1>1, <2>5, <2>6 DEF Visible
  <2>9. FtsCoupled'
    BY <1>3, <2>7, <2>8 DEF FtsCoupled
  <2>10. DeletedStored'
    BY <2>2, <2>5 DEF DeletedStored
  <2>11. QED
    BY <2>4, <2>9, <2>10
<1>5. CASE r \notin marking
  <2>1. UNCHANGED rowid /\ deleted' = hidden
    BY <1>5 DEF CommitDelete
  <2>2. Stored' = Stored
    BY <2>1 DEF Stored
  <2>3. Visible' = Visible \ hidden
    BY <2>1, <2>2 DEF Visible, HiddenWith
  <2>4. FtsCoupled' /\ DeletedStored'
    BY <1>2, <1>3, <2>1, <2>2, <2>3 DEF FtsCoupled, DeletedStored
  <2>5. RowsOK'
    BY <1>1, <2>1, RowsFramed, AfterCommitKeepsWaiting DEF IInv, RowsOK, ReadsOwned
  <2>6. QED
    BY <2>4, <2>5
<1>6. QED
  BY <1>4, <1>5

-----------------------------------------------------------------------------
LEMMA InvInit == Init => IInv
<1> SUFFICES ASSUME Init PROVE IInv
  OBVIOUS
<1>1. Stored = {}
  BY DEF Init, Stored
<1>2. RowsOK
  BY <1>1 DEF Init, RowsOK, RowidsUnique, SlotsUnique, NoGapAtTop, ReadsOwned
<1>3. DeletedStored /\ FtsCoupled
  BY <1>1 DEF Init, DeletedStored, FtsCoupled, Visible
<1>4. QED
  BY <1>2, <1>3, TypeInit DEF IInv

LEMMA InvStep == IInv /\ [Next]_vars => IInv'
<1> SUFFICES ASSUME IInv, [Next]_vars PROVE RowsOK' /\ DeletedStored' /\ FtsCoupled'
  BY TypeStep, RetriedStep DEF IInv
<1>1. ASSUME NEW r \in Request,
             \/ CheckPrior(r) \/ ReadHorizon(r) \/ CommitConflict(r) \/ Recheck(r)
             \/ UpsertProfile(r) \/ BumpGen(r) \/ Fail(r)
      PROVE  RowsOK' /\ DeletedStored' /\ FtsCoupled'
  <2>1. UNCHANGED <<rowid, deleted, fts, msg, slotRid>>
    BY <1>1 DEF CheckPrior, ReadHorizon, CommitConflict, Recheck, UpsertProfile,
                BumpGen, Fail, tables, locals
  <2>2. \A q \in Request : pc'[q] = "commit" => pc[q] = "commit"
    BY <1>1 DEF CheckPrior, ReadHorizon, CommitConflict, Recheck, UpsertProfile,
                BumpGen, Fail, Await, Resolve, IInv, TypeOK, Typed
  <2>3. QED
    BY <2>1, <2>2, Framed
<1>2. CASE UNCHANGED vars
  BY <1>2, Framed DEF vars, tables, locals
<1>3. QED
  BY <1>1, <1>2, SlotReadKeeps, CommitEventKeeps, CommitDeleteKeeps
     DEF Next, Step, Handle

\* The inductive invariant holds of every behaviour.
THEOREM Invariance == Spec => []IInv
BY InvInit, InvStep, PTL DEF Spec

\* posts_fts and the visible posts never drift apart, for any number of calls
\* interleaved in any way, with or without failures.
THEOREM IndexCoupled == Spec => []FtsCoupled
<1>1. IInv => FtsCoupled
  BY DEF IInv
<1>2. QED
  BY <1>1, Invariance, PTL

\* No call ever deletes the row of a slot it was not replacing.
THEOREM SlotsNeverEmptied == Spec => SlotsStayFilled
<1> DEFINE Kept == \A e \in Event : rowid[e] # 0 =>
                      \E f \in Event : rowid'[f] # 0 /\ Slot(f) = Slot(e)
<1>1. ASSUME IInv, [Next]_vars PROVE [Kept]_vars
  <2>1. ASSUME UNCHANGED rowid PROVE Kept
    BY <2>1
  <2>2. ASSUME NEW r \in Request, pc[r] = "commit", ~Collides(r),
               NEW n \in {1} \cup {rowid[e] + 1 : e \in Remaining(r)},
               FreshRowid(n, Remaining(r)), InsertRow(r, n)
        PROVE  Kept
    <3>1. n \in Nat
      <4>1. \A e \in Event : rowid[e] + 1 \in Nat
        BY <1>1 DEF IInv, TypeOK, Typed
      <4>2. QED
        BY <4>1 DEF Remaining, Stored
    <3>2. /\ Stored' = Remaining(r) \cup {Ev(r)}
          /\ \A e \in Remaining(r) : rowid'[e] = rowid[e]
      BY <1>1, <2>2, <3>1, InsertKeepsRows DEF IInv
    <3>3. \A e \in Stored : e \notin Remaining(r) => Slot(e) = Slot(Ev(r))
      BY <1>1, <2>2 DEF IInv, RowsOK, ReadsOwned, Owned, Remaining, Stored
    <3>4. QED
      BY <3>2, <3>3 DEF Stored
  <2>3. ASSUME NEW r \in Request, CommitEvent(r) PROVE Kept
    BY <2>2, <2>3 DEF CommitEvent, Unindexed
  <2>4. ASSUME NEW r \in Request, CommitDelete(r) PROVE Kept
    BY <2>1, <2>2, <2>4 DEF CommitDelete
  <2>5. ASSUME NEW r \in Request, Step(r), ~CommitEvent(r), ~CommitDelete(r) PROVE Kept
    BY <2>1, <2>5 DEF Step, Handle, CheckPrior, ReadHorizon, ReadSlot, ReadMarkerSlot,
       CommitConflict, Recheck, UpsertProfile, BumpGen, Fail, tables
  <2>6. QED
    BY <1>1, <2>3, <2>4, <2>5 DEF Next
<1>2. QED
  BY <1>1, Invariance, PTL DEF Spec, SlotsStayFilled

-----------------------------------------------------------------------------
\* Horizons cover the delete e.
Covered(e) == \A a \in OwnAddresses(e) : horizon[a] >= CreatedAt[e]

\* The call's batch, or a twin's, has been applied.
Applied(r) == pc[r] \in {"profile", "bump"} \/ result[r] = "stored"

HorizonsKept ==
    /\ \A e \in Stored : Kind[e] = "delete" => Covered(e)
    /\ \A r \in Request : Kind[Ev(r)] = "delete" /\ Applied(r) => Covered(Ev(r))

\* Horizons only rise, whichever handler steps.
LEMMA HorizonsRise ==
    ASSUME TypeOK, RetriedOnce, [Next]_vars
    PROVE  /\ \A a \in Address : horizon'[a] >= horizon[a]
           /\ \A e \in Event : Covered(e) => Covered(e)'
           /\ msg' = msg
<1>1. \A a \in Address : horizon[a] \in Int
  BY DEF TypeOK, Typed, NoHorizon
<1>2. ASSUME NEW r \in Request, CommitDelete(r)
      PROVE  \A a \in Address : horizon'[a] >= horizon[a]
  <2>1. CreatedAt[Ev(r)] \in Int
    BY EventAssumption DEF TypeOK, Typed, Ev, Delivery
  <2>2. QED
    BY <1>1, <1>2, <2>1 DEF CommitDelete, RaiseHorizons
<1>3. ASSUME NEW r \in Request, CommitEvent(r) PROVE UNCHANGED horizon
  BY <1>3 DEF CommitEvent, Unindexed
<1>4. ASSUME NEW r \in Request, Step(r), ~CommitEvent(r), ~CommitDelete(r)
      PROVE  UNCHANGED horizon
  BY <1>4 DEF Step, Handle, CheckPrior, ReadHorizon, ReadSlot, ReadMarkerSlot,
     CommitConflict, Recheck, UpsertProfile, BumpGen, Fail, tables
<1>5. \A a \in Address : horizon'[a] >= horizon[a]
  <2>1. CASE UNCHANGED horizon
    BY <2>1, <1>1
  <2>2. QED
    BY <1>2, <1>3, <1>4, <2>1 DEF Next, vars, tables
<1>6. msg' = msg
  BY DEF Next, Step, Handle, CheckPrior, ReadHorizon, ReadSlot, ReadMarkerSlot, CommitEvent,
     CommitDelete, CommitConflict, Recheck, UpsertProfile, BumpGen, Fail, vars
<1>7. \A a \in Address : horizon'[a] \in Int
  BY TypeStep DEF TypeOK, Typed, NoHorizon
<1>8. ASSUME NEW e \in Event, Covered(e) PROVE Covered(e)'
  <2>1. OwnAddresses(e) \subseteq Address /\ CreatedAt[e] \in Int
    BY EventAssumption DEF OwnAddresses
  <2>2. \A a \in OwnAddresses(e) : horizon'[a] >= CreatedAt[e]
    BY <1>1, <1>5, <1>7, <1>8, <2>1 DEF Covered
  <2>3. QED
    BY <2>2 DEF Covered, OwnAddresses
<1>9. QED
  BY <1>5, <1>6, <1>8

LEMMA HorizonsStep ==
    ASSUME TypeOK, RetriedOnce, HorizonsKept, [Next]_vars
    PROVE  HorizonsKept'
<1>m. \A r \in Request : Ev(r) \in Event
  BY EventAssumption DEF TypeOK, Typed, Ev, Delivery
<1>e. \A r \in Request : Ev(r)' = Ev(r)
  BY HorizonsRise DEF Ev
\* The batch of a delete covers it.
<1>1. ASSUME NEW r \in Request, CommitDelete(r) PROVE Covered(Ev(r))'
  <2>1. /\ OwnAddresses(Ev(r)) \subseteq Address
        /\ CreatedAt[Ev(r)] \in Int
        /\ \A a \in Address : horizon[a] \in Int
    BY <1>m, EventAssumption DEF OwnAddresses, TypeOK, Typed, NoHorizon
  <2>2. \A a \in OwnAddresses(Ev(r)) : horizon'[a] >= CreatedAt[Ev(r)]
    BY <1>1, <2>1 DEF CommitDelete, RaiseHorizons
  <2>3. QED
    BY <2>2, <1>e DEF Covered, OwnAddresses
\* A row appears only in the batch of the call that carries it.
<1>2. ASSUME NEW e \in Stored', e \notin Stored, Kind[e] = "delete" PROVE Covered(e)'
  <2>1. PICK r \in Request : CommitDelete(r) \/ CommitEvent(r)
    BY <1>2 DEF Next, Step, Handle, CheckPrior, ReadHorizon, ReadSlot, ReadMarkerSlot,
       CommitConflict, Recheck, UpsertProfile, BumpGen, Fail, tables, vars, Stored
  <2>2. e = Ev(r)
    BY <1>2, <2>1 DEF CommitDelete, CommitEvent, InsertRow, Remaining, Stored
  <2>3. CommitDelete(r)
    BY <1>2, <2>1, <2>2 DEF CommitEvent, Unindexed
  <2>4. Covered(Ev(r))'
    BY <1>1, <2>3
  <2>5. QED
    BY <2>2, <2>4, <1>e DEF Covered, OwnAddresses
<1>3. ASSUME NEW e \in Stored', Kind[e] = "delete" PROVE Covered(e)'
  BY <1>2, <1>3, HorizonsRise DEF HorizonsKept, Stored
\* A call that becomes applied either ran its batch or found its id stored.
<1>4. ASSUME NEW r \in Request, Kind[Ev(r)] = "delete", Applied(r)', ~Applied(r)
      PROVE  Covered(Ev(r))'
  <2>1. CommitDelete(r) \/ Ev(r) \in Stored
    <3>1. ASSUME NEW q \in Request, q # r, Step(q) PROVE pc'[r] = pc[r] /\ result'[r] = result[r]
      BY <3>1 DEF Step, Handle, CheckPrior, ReadHorizon, ReadSlot, ReadMarkerSlot,
         CommitEvent, CommitDelete, CommitConflict, Recheck, UpsertProfile, BumpGen, Fail,
         AfterCommit, Await, Resolve, TypeOK, Typed
    <3>2. Step(r)
      BY <1>4, <3>1 DEF Next, vars, Applied
    <3>3. CASE CheckPrior(r) \/ Recheck(r)
      BY <1>4, <3>3 DEF CheckPrior, Recheck, Applied, Await, Resolve, TypeOK, Typed
    <3>4. CASE ReadHorizon(r) \/ ReadSlot(r) \/ ReadMarkerSlot(r) \/ CommitConflict(r) \/ Fail(r)
      BY <1>4, <3>4 DEF ReadHorizon, ReadSlot, ReadMarkerSlot, CommitConflict, Fail,
         Applied, Await, Resolve, TypeOK, Typed
    <3>5. CASE CommitEvent(r)
      BY <1>4, <3>5 DEF CommitEvent, Unindexed
    <3>6. CASE UpsertProfile(r) \/ BumpGen(r)
      BY <1>4, <3>6 DEF UpsertProfile, BumpGen, Applied
    <3>7. QED
      BY <3>2, <3>3, <3>4, <3>5, <3>6 DEF Step, Handle
  <2>2. CASE Ev(r) \in Stored
    BY <1>4, <1>m, <2>2, HorizonsRise, <1>e DEF HorizonsKept, Covered, OwnAddresses
  <2>3. QED
    BY <1>1, <2>1, <2>2
<1>5. ASSUME NEW r \in Request, Kind[Ev(r)] = "delete", Applied(r)' PROVE Covered(Ev(r))'
  <2>1. CASE Applied(r)
    BY <1>5, <1>m, <2>1, HorizonsRise, <1>e DEF HorizonsKept, Covered, OwnAddresses
  <2>2. QED
    BY <1>4, <1>5, <2>1
<1>6. QED
  BY <1>3, <1>5, <1>e DEF HorizonsKept

\* Every delete a caller was told is stored keeps its horizon for good, however
\* many later deletes replace its row.
THEOREM DeletesAcknowledged == Spec => []DeleteAcknowledged
<1>1. Init => HorizonsKept
  BY DEF Init, HorizonsKept, Stored, Applied
<1>2. IInv /\ HorizonsKept /\ [Next]_vars => HorizonsKept'
  BY HorizonsStep DEF IInv
<1>3. HorizonsKept => DeleteAcknowledged
  BY DEF HorizonsKept, DeleteAcknowledged, Covered, Applied
<1>4. QED
  BY <1>1, <1>2, <1>3, Invariance, PTL DEF Spec

-----------------------------------------------------------------------------
(***************************************************************************)
(* Calls of one author one at a time (SpecIsolated).  What such a call has *)
(* read is still true when its batch commits: other authors' batches touch *)
(* none of its author's rows, flags and horizons, though they share the    *)
(* rowids.                                                                 *)
(***************************************************************************)
Apart ==
    \A p, q \in Request :
        p # q /\ Author[Ev(p)] = Author[Ev(q)] /\ Active(p) => ~Active(q)

\* An id found missing is still missing, and a horizon and a slot are as read.
IdCurrent(r) == pc[r] \in {"horizon", "slot", "commit"} => Ev(r) \notin Stored

HorizonCurrent(r) ==
    pc[r] \in {"slot", "commit"} /\ Kind[Ev(r)] = "post" =>
        (r \in tombstoned <=> horizon[Slot(Ev(r))] >= CreatedAt[Ev(r)])

Replaces(r) == Kind[Ev(r)] # "delete" \/ r \in marking

SlotCurrent(r) ==
    pc[r] = "commit" =>
        /\ Replaces(r) => \A f \in Holders(Slot(Ev(r))) :
                             rowid[f] = slotRid[r] /\ ~LosesToCurrent(f, Ev(r))
        /\ ~Replaces(r) => \E f \in Holders(Slot(Ev(r))) : LosesToCurrent(f, Ev(r))

ReadsCurrent(r) ==
    /\ IdCurrent(r) /\ HorizonCurrent(r) /\ SlotCurrent(r)
    /\ pc[r] # "recheck"
    /\ pc[r] = "horizon" \/ r \in tombstoned => Kind[Ev(r)] = "post"
    /\ pc[r] \in {"prior", "horizon"} => r \notin tombstoned

IsoInv ==
    /\ Apart
    /\ \A r \in Request : ReadsCurrent(r)
    /\ \A e \in deleted : Kind[e] # "delete"

LEMMA SlotFields ==
    \A e \in Event : /\ Slot(e)[2] = Author[e]
                     /\ \A f \in Event : Slot(f) = Slot(e) => Author[f] = Author[e]
                                                             /\ Kind[f] = Kind[e]
BY DEF Slot

LEMMA EvIsEvent == ASSUME TypeOK, NEW r \in Request PROVE Ev(r) \in Event
BY EventAssumption DEF TypeOK, Typed, Ev, Delivery

\* What a batch that inserts its event does, with the rowid it deletes current or not.
LEMMA BatchInserts ==
    ASSUME IInv, NEW r \in Request, CommitEvent(r) \/ (CommitDelete(r) /\ r \in marking)
    PROVE  /\ Stored' = Remaining(r) \cup {Ev(r)}
           /\ Ev(r) \notin Remaining(r)
           /\ \A e \in Remaining(r) : rowid'[e] = rowid[e]
           /\ \A e \in Stored : e \notin Remaining(r) => Slot(e) = Slot(Ev(r))
<1>1. PICK n \in {1} \cup {rowid[e] + 1 : e \in Remaining(r)} :
         FreshRowid(n, Remaining(r)) /\ InsertRow(r, n)
  BY DEF CommitEvent, CommitDelete
<1>2. pc[r] = "commit" /\ ~Collides(r)
  BY DEF CommitEvent, CommitDelete
<1>3. n \in Nat
  <2>1. \A e \in Event : rowid[e] + 1 \in Nat
    BY DEF IInv, TypeOK, Typed
  <2> QED
    BY <2>1 DEF Remaining, Stored
<1>4. \A e \in Stored : e \notin Remaining(r) => rowid[e] = slotRid[r] /\ slotRid[r] # 0
  BY DEF Remaining, Stored
<1>5. \A e \in Stored : e \notin Remaining(r) => Slot(e) = Slot(Ev(r))
  BY <1>2, <1>4 DEF IInv, RowsOK, ReadsOwned, Owned
<1> QED
  BY <1>1, <1>2, <1>3, <1>5, InsertKeepsRows DEF IInv

\* A step of a call leaves other calls where they are.
LEMMA OthersWait ==
    ASSUME TypeOK, NEW r \in Request, Step(r)
    PROVE  /\ msg' = msg
           /\ \A q \in Request \ {r} :
                 /\ pc'[q] = pc[q] /\ slotRid'[q] = slotRid[q] /\ result'[q] = result[q]
                 /\ q \in tombstoned' <=> q \in tombstoned
                 /\ q \in marking' <=> q \in marking
<1>1. CASE CommitEvent(r) \/ CommitDelete(r)
  BY <1>1 DEF CommitEvent, CommitDelete, AfterCommit, Await, Resolve, TypeOK, Typed, locals
<1>2. CASE ReadSlot(r) \/ ReadMarkerSlot(r)
  BY <1>2 DEF ReadSlot, ReadMarkerSlot, Await, Resolve, TypeOK, Typed, locals
<1>3. CASE CheckPrior(r) \/ ReadHorizon(r) \/ CommitConflict(r) \/ Recheck(r)
              \/ UpsertProfile(r) \/ BumpGen(r) \/ Fail(r)
  BY <1>3 DEF CheckPrior, ReadHorizon, CommitConflict, Recheck, UpsertProfile, BumpGen, Fail,
     Await, Resolve, TypeOK, Typed, locals
<1> QED
  BY <1>1, <1>2, <1>3 DEF Step, Handle

\* Nor does it touch what belongs to another author.
LEMMA OthersRows ==
    ASSUME IInv, NEW r \in Request, Step(r)
    PROVE  /\ \A e \in Event : Author[e] # Author[Ev(r)] =>
                 /\ rowid'[e] = rowid[e]
                 /\ e \in deleted' <=> e \in deleted
           /\ \A a \in Address : a[2] # Author[Ev(r)] => horizon'[a] = horizon[a]
           /\ \A p \in Pubkey : p # Author[Ev(r)] => profile'[p] = profile[p]
<1>t. TypeOK /\ Ev(r) \in Event
  BY EvIsEvent DEF IInv
<1>1. CASE CommitEvent(r) \/ (CommitDelete(r) /\ r \in marking)
  <2>1. /\ Stored' = Remaining(r) \cup {Ev(r)}
        /\ \A e \in Remaining(r) : rowid'[e] = rowid[e]
        /\ \A e \in Stored : e \notin Remaining(r) => Slot(e) = Slot(Ev(r))
    BY <1>1, BatchInserts
  <2>2. \A e \in Event : Author[e] # Author[Ev(r)] => (e \in Stored <=> e \in Remaining(r))
    BY <1>t, <2>1, SlotFields DEF Remaining
  <2>3. ASSUME NEW e \in Event, Author[e] # Author[Ev(r)]
        PROVE  rowid'[e] = rowid[e]
    <3>1. CASE e \in Stored
      BY <2>1, <2>2, <2>3, <3>1
    <3>2. CASE e \notin Stored
      BY <2>1, <2>2, <2>3, <3>2 DEF Stored
    <3> QED
      BY <3>1, <3>2
  <2>4. ASSUME NEW e \in Event, Author[e] # Author[Ev(r)]
        PROVE  e \in deleted' <=> e \in deleted
    <3>1. e # Ev(r) /\ e \notin Targets(Ev(r)) /\ (e \in deleted => e \in Remaining(r))
      BY <2>2, <2>4 DEF Targets, IInv, DeletedStored
    <3>2. CASE CommitEvent(r)
      BY <3>1, <3>2 DEF CommitEvent
    <3>3. CASE CommitDelete(r) /\ r \in marking
      BY <3>1, <3>3 DEF CommitDelete, HiddenWith
    <3> QED
      BY <1>1, <3>2, <3>3
  <2>5. /\ \A a \in Address : a[2] # Author[Ev(r)] => horizon'[a] = horizon[a]
        /\ profile' = profile
    BY <1>1, <1>t DEF CommitEvent, CommitDelete, RaiseHorizons, OwnAddresses
  <2> QED
    BY <2>3, <2>4, <2>5
<1>2. CASE CommitDelete(r) /\ r \notin marking
  <2>1. /\ rowid' = rowid /\ deleted' = deleted \cup Targets(Ev(r)) /\ profile' = profile
        /\ RaiseHorizons(Ev(r))
    BY <1>2 DEF CommitDelete, HiddenWith
  <2> QED
    BY <2>1 DEF RaiseHorizons, OwnAddresses, Targets
<1>3. CASE UpsertProfile(r)
  <2>1. UNCHANGED <<rowid, deleted, horizon>>
    BY <1>3 DEF UpsertProfile
  <2>2. \A p \in Pubkey : p # Author[Ev(r)] => profile'[p] = profile[p]
    BY <1>3, <1>t DEF UpsertProfile, TypeOK, Typed
  <2> QED
    BY <2>1, <2>2
<1>4. CASE CheckPrior(r) \/ ReadHorizon(r) \/ ReadSlot(r) \/ ReadMarkerSlot(r)
              \/ CommitConflict(r) \/ Recheck(r) \/ BumpGen(r) \/ Fail(r)
  <2>1. UNCHANGED tables
    BY <1>4 DEF CheckPrior, ReadHorizon, ReadSlot, ReadMarkerSlot, CommitConflict, Recheck,
       BumpGen, Fail
  <2> QED
    BY <2>1 DEF tables
<1> QED
  BY <1>1, <1>2, <1>3, <1>4 DEF Step, Handle

\* So no batch of an isolated call is refused.
LEMMA NoConflict ==
    ASSUME IInv, NEW r \in Request, ReadsCurrent(r), pc[r] = "commit", Replaces(r)
    PROVE  ~Collides(r) /\ ~FtsClash(r)
<1>1. \A f \in Holders(Slot(Ev(r))) : rowid[f] = slotRid[r]
  BY DEF ReadsCurrent, SlotCurrent
<1>2. ~Collides(r)
  BY <1>1 DEF Collides, Remaining, Holders
<1>3. ASSUME NEW n \in fts, n # slotRid[r], FreshRowid(n, Remaining(r)) PROVE FALSE
  <2>1. PICK e \in Visible : rowid[e] = n
    BY DEF IInv, FtsCoupled
  <2>2. e \in Remaining(r) /\ rowid[e] \in Nat
    BY <1>3, <2>1 DEF Visible, Remaining, Stored, IInv, TypeOK, Typed
  <2>3. rowid[e] < n
    BY <1>3, <2>2 DEF FreshRowid
  <2> QED
    BY <2>1, <2>2, <2>3
<1> QED
  BY <1>2, <1>3 DEF FtsClash, Unindexed

\* Its own step keeps what a call has read true until its batch.
LEMMA OwnReads ==
    ASSUME IInv, NEW r \in Request, ReadsCurrent(r), Step(r)
    PROVE  ReadsCurrent(r)'
<1>t. TypeOK /\ Ev(r) \in Event
  BY EvIsEvent DEF IInv
<1>m. msg' = msg /\ Ev(r)' = Ev(r)
  BY <1>t, OthersWait DEF Ev
<1>1. CASE CheckPrior(r)
  <2>1. /\ UNCHANGED <<rowid, horizon, tombstoned, marking, slotRid>>
        /\ pc[r] = "prior"
    BY <1>1 DEF CheckPrior, tables, locals
  <2>2. /\ pc'[r] \in {"horizon", "slot"} => Ev(r) \notin Stored
        /\ pc'[r] \in {"horizon", "slot", "done"}
        /\ pc'[r] = "horizon" <=> (pc'[r] # "done" /\ Kind[Ev(r)] = "post")
    BY <1>1, <1>t DEF CheckPrior, Await, Resolve, TypeOK, Typed
  <2> QED
    BY <1>m, <2>1, <2>2 DEF ReadsCurrent, IdCurrent, HorizonCurrent, SlotCurrent, Stored, Replaces
<1>2. CASE ReadHorizon(r)
  <2>1. /\ UNCHANGED <<rowid, horizon>>
        /\ pc[r] = "horizon" /\ pc'[r] = "slot"
    BY <1>2, <1>t DEF ReadHorizon, tables, Await, TypeOK, Typed
  <2>2. r \in tombstoned' <=> horizon[Slot(Ev(r))] >= CreatedAt[Ev(r)]
    BY <1>2, <2>1 DEF ReadHorizon, ReadsCurrent
  <2> QED
    BY <1>m, <2>1, <2>2 DEF ReadsCurrent, IdCurrent, HorizonCurrent, SlotCurrent, Stored, Slot, SlotDTag
<1>3. CASE ReadSlot(r) \/ ReadMarkerSlot(r)
  <2>1. /\ UNCHANGED <<rowid, horizon, tombstoned>>
        /\ pc[r] = "slot" /\ pc'[r] \in {"commit", "done"}
    BY <1>3, <1>t DEF ReadSlot, ReadMarkerSlot, tables, Await, Resolve, TypeOK, Typed
  <2>2. Stored' = Stored /\ Holders(Slot(Ev(r)))' = Holders(Slot(Ev(r)))
    BY <1>m, <2>1 DEF Stored, Holders, Slot, SlotDTag
  <2>h. \A f, g \in Holders(Slot(Ev(r))) : f = g
    BY DEF Holders, IInv, RowsOK, SlotsUnique
  <2>3. ASSUME pc'[r] = "commit", Replaces(r)', NEW f \in Holders(Slot(Ev(r)))
        PROVE  rowid[f] = slotRid'[r] /\ ~LosesToCurrent(f, Ev(r))
    <3>1. CASE ReadSlot(r)
      BY <1>t, <2>3, <2>h, <3>1 DEF ReadSlot, Resolve, TypeOK, Typed
    <3>2. CASE ReadMarkerSlot(r)
      <4>1. r \in marking'
        BY <1>m, <2>3, <3>2 DEF ReadMarkerSlot, Replaces
      <4> QED
        BY <1>t, <2>3, <2>h, <3>2, <4>1 DEF ReadMarkerSlot, TypeOK, Typed
    <3> QED
      BY <1>3, <3>1, <3>2
  <2>4. ASSUME pc'[r] = "commit", ~Replaces(r)'
        PROVE  \E f \in Holders(Slot(Ev(r))) : LosesToCurrent(f, Ev(r))
    BY <1>3, <1>m, <2>4 DEF ReadSlot, ReadMarkerSlot, Replaces
  <2>5. SlotCurrent(r)'
    BY <1>m, <2>1, <2>2, <2>3, <2>4 DEF SlotCurrent, LosesToCurrent
  <2> QED
    BY <1>m, <2>1, <2>2, <2>5 DEF ReadsCurrent, IdCurrent, HorizonCurrent, Slot, SlotDTag
<1>4. CASE CommitEvent(r) \/ CommitDelete(r)
  <2>1. /\ pc'[r] \in {"profile", "bump", "done"}
        /\ UNCHANGED tombstoned
    BY <1>4, <1>t DEF CommitEvent, CommitDelete, AfterCommit, Await, Resolve, TypeOK, Typed, locals
  <2> QED
    BY <1>m, <2>1 DEF ReadsCurrent, IdCurrent, HorizonCurrent, SlotCurrent
<1>5. CASE UpsertProfile(r) \/ BumpGen(r) \/ Fail(r)
  <2>1. /\ pc'[r] \in {"bump", "done"}
        /\ UNCHANGED tombstoned
    BY <1>5, <1>t DEF UpsertProfile, BumpGen, Fail, Await, Resolve, TypeOK, Typed, locals
  <2> QED
    BY <1>m, <2>1 DEF ReadsCurrent, IdCurrent, HorizonCurrent, SlotCurrent
<1>6. ~CommitConflict(r) /\ ~Recheck(r)
  BY NoConflict DEF CommitConflict, Recheck, ReadsCurrent, Replaces
<1> QED
  BY <1>1, <1>2, <1>3, <1>4, <1>5, <1>6 DEF Step, Handle

\* Nor do the steps of other authors' calls make it stale.
LEMMA OthersReads ==
    ASSUME IInv, NEW r \in Request, Step(r), Alone(r),
           NEW q \in Request \ {r}, ReadsCurrent(q)
    PROVE  ReadsCurrent(q)'
<1>t. TypeOK /\ Ev(r) \in Event /\ Ev(q) \in Event
  BY EvIsEvent DEF IInv
<1>m. /\ Ev(q)' = Ev(q)
      /\ pc'[q] = pc[q] /\ slotRid'[q] = slotRid[q]
      /\ q \in tombstoned' <=> q \in tombstoned
      /\ q \in marking' <=> q \in marking
  BY <1>t, OthersWait DEF Ev
<1>1. CASE Author[Ev(q)] = Author[Ev(r)]
  <2>1. pc[q] \in {"prior", "done"}
    BY <1>1 DEF Alone, Active
  <2> QED
    BY <1>m, <2>1 DEF ReadsCurrent, IdCurrent, HorizonCurrent, SlotCurrent
<1>2. CASE Author[Ev(q)] # Author[Ev(r)]
  <2>1. rowid'[Ev(q)] = rowid[Ev(q)]
    BY <1>t, <1>2, OthersRows
  <2>2. horizon'[Slot(Ev(q))] = horizon[Slot(Ev(q))]
    BY <1>t, <1>2, OthersRows, SlotIsAddress, SlotFields
  <2>3. \A f \in Event : Slot(f) = Slot(Ev(q)) => rowid'[f] = rowid[f]
    BY <1>t, <1>2, OthersRows, SlotFields
  <2>4. Holders(Slot(Ev(q)))' = Holders(Slot(Ev(q)))
    BY <1>m, <2>3 DEF Holders, Stored, Slot, SlotDTag
  <2>5. IdCurrent(q)'
    BY <1>t, <1>m, <2>1 DEF ReadsCurrent, IdCurrent, Stored
  <2>6. HorizonCurrent(q)'
    BY <1>m, <2>2 DEF ReadsCurrent, HorizonCurrent, Slot, SlotDTag
  <2>7. Replaces(q)' <=> Replaces(q)
    BY <1>m DEF Replaces
  <2>8. \A f \in Holders(Slot(Ev(q))) : rowid'[f] = rowid[f]
    BY <2>3 DEF Holders, Stored
  <2>9. SlotCurrent(q)'
    BY <1>m, <2>4, <2>7, <2>8 DEF ReadsCurrent, SlotCurrent, LosesToCurrent
  <2> QED
    BY <1>m, <2>5, <2>6, <2>9 DEF ReadsCurrent
<1> QED
  BY <1>1, <1>2

LEMMA IsoStep ==
    ASSUME IInv, IsoInv, NEW r \in Request, Alone(r), Step(r)
    PROVE  IsoInv'
<1>t. TypeOK /\ Ev(r) \in Event
  BY EvIsEvent DEF IInv
<1>m. /\ \A q \in Request : Ev(q)' = Ev(q)
      /\ \A q \in Request \ {r} : pc'[q] = pc[q]
  BY <1>t, OthersWait DEF Ev
<1>1. Apart'
  <2>1. \A q \in Request \ {r} : Active(q)' = Active(q)
    BY <1>m DEF Active
  <2>2. ASSUME NEW p \in Request, NEW q \in Request, p # q, Author[Ev(p)] = Author[Ev(q)],
               Active(p)', Active(q)'
        PROVE  FALSE
    <3>1. CASE p = r \/ q = r
      BY <2>1, <2>2, <3>1 DEF Alone
    <3>2. CASE p # r /\ q # r
      BY <2>1, <2>2, <3>2 DEF IsoInv, Apart
    <3> QED
      BY <3>1, <3>2
  <2> QED
    BY <1>m, <2>2 DEF Apart
<1>2. \A q \in Request : ReadsCurrent(q)'
  BY OwnReads, OthersReads DEF IsoInv
<1>3. \A e \in deleted' : Kind[e] # "delete"
  <2>1. CASE CommitEvent(r)
    BY <2>1 DEF CommitEvent, IsoInv, ReadsCurrent
  <2>2. CASE CommitDelete(r)
    BY <2>2 DEF CommitDelete, HiddenWith, Targets, IsoInv
  <2>3. CASE ~CommitEvent(r) /\ ~CommitDelete(r)
    <3>1. deleted' = deleted
      BY <2>3 DEF Step, Handle, CheckPrior, ReadHorizon, ReadSlot, ReadMarkerSlot, CommitConflict,
         Recheck, UpsertProfile, BumpGen, Fail, tables
    <3> QED
      BY <3>1 DEF IsoInv
  <2> QED
    BY <2>1, <2>2, <2>3
<1> QED
  BY <1>1, <1>2, <1>3 DEF IsoInv

LEMMA IsolatedIsNext == [NextIsolated]_vars => [Next]_vars
BY DEF NextIsolated, Next

\* What an isolated call has read stays true until its batch has run.
THEOREM IsolatedReads == SpecIsolated => [](IInv /\ IsoInv)
<1>1. Init => IInv /\ IsoInv
  <2>1. ASSUME Init PROVE IsoInv
    BY <2>1 DEF Init, IsoInv, Apart, Active, ReadsCurrent, IdCurrent, HorizonCurrent, SlotCurrent
  <2> QED
    BY <2>1, InvInit
<1>2. IInv /\ IsoInv /\ [NextIsolated]_vars => IInv' /\ IsoInv'
  <2>1. ASSUME IInv, IsoInv, UNCHANGED vars PROVE IsoInv'
    <3>1. /\ UNCHANGED <<rowid, deleted, horizon, msg, pc, slotRid, tombstoned, marking>>
          /\ \A r \in Request : Ev(r)' = Ev(r)
      BY <2>1 DEF vars, tables, locals, Ev
    <3> QED
      BY <2>1, <3>1 DEF IsoInv, Apart, Active, ReadsCurrent, IdCurrent, HorizonCurrent, SlotCurrent,
         Replaces, Stored, Holders, Slot, SlotDTag, LosesToCurrent
  <2> QED
    BY <2>1, InvStep, IsoStep, IsolatedIsNext DEF NextIsolated
<1> QED
  BY <1>1, <1>2, PTL DEF SpecIsolated

-----------------------------------------------------------------------------
(***************************************************************************)
(* mirrorEvent implements ReplaceableStore.                                *)
(***************************************************************************)
WinnerHolds ==
    /\ \A e \in Stored : Winner[Slot(e)] = e
    /\ \A a \in Address : Holders(a) = {} => Winner[a] = NoEvent

LEMMA WinnerIs == IInv => WinnerHolds
<1> SUFFICES ASSUME IInv PROVE WinnerHolds
  OBVIOUS
<1>1. ASSUME NEW e \in Stored PROVE Winner[Slot(e)] = e
  <2>1. Holders(Slot(e)) = {e} /\ Slot(e) \in Address
    BY <1>1, SlotIsAddress DEF Holders, IInv, RowsOK, SlotsUnique, Stored
  <2>2. Winner[Slot(e)] = CHOOSE f \in {e} : TRUE
    BY <2>1 DEF Winner
  <2> QED
    BY <2>2
<1>2. ASSUME NEW a \in Address, Holders(a) = {} PROVE Winner[a] = NoEvent
  BY <1>2 DEF Winner
<1> QED
  BY <1>1, <1>2 DEF WinnerHolds

\* Inserting the event of a call replaces the winner of its slot only.
LEMMA InsertsWinner ==
    ASSUME IInv, IInv', NEW r \in Request, CommitEvent(r) \/ (CommitDelete(r) /\ r \in marking)
    PROVE  Winner' = [Winner EXCEPT ![Slot(Ev(r))] = Ev(r)]
<1>t. TypeOK /\ Ev(r) \in Event /\ Slot(Ev(r)) \in Address
  BY EvIsEvent, SlotIsAddress DEF IInv
<1>w. WinnerHolds /\ WinnerHolds'
  BY WinnerIs, PTL
<1>1. /\ Stored' = Remaining(r) \cup {Ev(r)}
      /\ \A e \in Stored : e \notin Remaining(r) => Slot(e) = Slot(Ev(r))
  BY BatchInserts
<1>2. Winner'[Slot(Ev(r))] = Ev(r)
  BY <1>1, <1>w DEF WinnerHolds, Slot, SlotDTag
<1>3. ASSUME NEW a \in Address, a # Slot(Ev(r)) PROVE Winner'[a] = Winner[a]
  <2>1. \A e \in Event : Slot(e) = a => (e \in Stored' <=> e \in Stored)
    BY <1>1, <1>3 DEF Remaining
  <2>2. Holders(a)' = Holders(a)
    BY <2>1 DEF Holders, Stored, Slot, SlotDTag
  <2>3. CASE Holders(a) = {}
    BY <1>w, <2>2, <2>3 DEF WinnerHolds
  <2>4. CASE Holders(a) # {}
    <3>1. PICK e \in Stored : Slot(e) = a
      BY <2>4 DEF Holders
    <3>2. e \in Stored'
      BY <2>1, <3>1 DEF Stored
    <3> QED
      BY <1>w, <3>1, <3>2 DEF WinnerHolds, Slot, SlotDTag
  <2> QED
    BY <2>3, <2>4
<1>4. Winner' = [a \in Address |-> Winner'[a]] /\ Winner = [a \in Address |-> Winner[a]]
  BY DEF Winner
<1> QED
  BY <1>t, <1>2, <1>3, <1>4

\* The batch of mirrorEvent is the store's Put.
LEMMA CommitIsPut ==
    ASSUME IInv, IInv', NEW r \in Request, ReadsCurrent(r), CommitEvent(r)
    PROVE  Store!Put(Ev(r))
<1> DEFINE e == Ev(r)
<1>t. TypeOK /\ e \in Event /\ Slot(e) \in Address
  BY EvIsEvent, SlotIsAddress DEF IInv
<1>w. WinnerHolds
  BY WinnerIs
<1>1. /\ pc[r] = "commit" /\ Kind[e] # "delete" /\ e \notin Stored
      /\ \A f \in Holders(Slot(e)) : rowid[f] = slotRid[r] /\ ~LosesToCurrent(f, e)
      /\ r \in tombstoned <=> Kind[e] = "post" /\ horizon[Slot(e)] >= CreatedAt[e]
      /\ UNCHANGED horizon
      /\ deleted' = ((deleted \cap Remaining(r)) \ {e})
                       \cup (IF r \in tombstoned THEN {e} ELSE {})
  BY DEF CommitEvent, ReadsCurrent, IdCurrent, SlotCurrent, HorizonCurrent, Replaces
<1>2. Store!Wins(e)
  <2>1. CASE Holders(Slot(e)) = {}
    BY <1>t, <1>w, <2>1 DEF WinnerHolds, Store!Wins
  <2>2. CASE Holders(Slot(e)) # {}
    <3>1. PICK f \in Stored : Slot(f) = Slot(e)
      BY <2>2 DEF Holders
    <3>2. Winner[Slot(e)] = f /\ f \in Holders(Slot(e))
      BY <1>w, <3>1 DEF WinnerHolds, Holders
    <3> QED
      BY <1>1, <3>2 DEF Store!Wins
  <2> QED
    BY <2>1, <2>2
<1>3. \A x \in Stored : x \in Remaining(r) <=> x # Winner[Slot(e)]
  <2>1. \A x \in Stored : x \notin Remaining(r) => Slot(x) = Slot(e)
    BY BatchInserts
  <2>2. ASSUME NEW x \in Stored, x = Winner[Slot(e)] PROVE x \notin Remaining(r)
    <3>1. Holders(Slot(e)) # {}
      BY <1>t, <1>w, <2>2, EventAssumption DEF WinnerHolds, Stored
    <3>2. PICK f \in Stored : Slot(f) = Slot(e)
      BY <3>1 DEF Holders
    <3>3. x = f /\ f \in Holders(Slot(e))
      BY <1>w, <2>2, <3>2 DEF WinnerHolds, Holders
    <3> QED
      BY <1>1, <3>3 DEF Remaining
  <2> QED
    BY <1>w, <2>1, <2>2 DEF WinnerHolds
<1>4. (deleted \cap Remaining(r)) \ {e} = deleted \ {Winner[Slot(e)]}
  BY <1>1, <1>3 DEF IInv, DeletedStored
<1>5. Winner' = [Winner EXCEPT ![Slot(e)] = e]
  BY InsertsWinner
<1> QED
  BY <1>1, <1>2, <1>4, <1>5 DEF Store!Put, IsPostKind, IsDeleteKind

\* The batch of applyDelete is the store's Erase.
LEMMA CommitIsErase ==
    ASSUME IInv, IInv', IsoInv, NEW r \in Request, CommitDelete(r)
    PROVE  Store!Erase(Ev(r))
<1> DEFINE d == Ev(r)
<1>t. TypeOK /\ d \in Event /\ Slot(d) \in Address
  BY EvIsEvent, SlotIsAddress DEF IInv
<1>w. WinnerHolds
  BY WinnerIs
<1>1. /\ pc[r] = "commit" /\ Kind[d] = "delete" /\ d \notin Stored
      /\ r \in marking => \A f \in Holders(Slot(d)) : ~LosesToCurrent(f, d)
      /\ r \notin marking => \E f \in Holders(Slot(d)) : LosesToCurrent(f, d)
  BY DEF CommitDelete, IsoInv, ReadsCurrent, IdCurrent, SlotCurrent, Replaces
<1>2. Store!Wins(d) <=> r \in marking
  <2>1. CASE Holders(Slot(d)) = {}
    BY <1>t, <1>w, <1>1, <2>1 DEF WinnerHolds, Store!Wins
  <2>2. CASE Holders(Slot(d)) # {}
    <3>1. PICK f \in Stored : Slot(f) = Slot(d)
      BY <2>2 DEF Holders
    <3>2. Winner[Slot(d)] = f /\ Holders(Slot(d)) = {f} /\ f # NoEvent
      BY <1>w, <3>1, EventAssumption DEF WinnerHolds, Holders, Stored
    <3> QED
      BY <1>1, <3>2 DEF Store!Wins
  <2> QED
    BY <2>1, <2>2
<1>3. Winner' = IF Store!Wins(d) THEN [Winner EXCEPT ![Slot(d)] = d] ELSE Winner
  <2>1. CASE r \in marking
    BY <1>2, <2>1, InsertsWinner
  <2>2. CASE r \notin marking
    <3>1. UNCHANGED rowid
      BY <2>2 DEF CommitDelete
    <3>2. UNCHANGED Winner
      BY <3>1 DEF Winner, Holders, Stored, Slot, SlotDTag
    <3> QED
      BY <1>2, <2>2, <3>2
  <2> QED
    BY <2>1, <2>2
<1>4. Store!Winners = Stored
  <2>1. \A e \in Stored : e \in Store!Winners
    BY <1>w, SlotIsAddress, EventAssumption DEF WinnerHolds, Store!Winners, Stored
  <2>2. ASSUME NEW a \in Address, Winner[a] # NoEvent PROVE Winner[a] \in Stored
    <3>1. PICK f \in Stored : Slot(f) = a
      BY <1>w, <2>2 DEF WinnerHolds, Holders
    <3> QED
      BY <1>w, <3>1 DEF WinnerHolds
  <2> QED
    BY <2>1, <2>2 DEF Store!Winners
<1>5. HiddenWith(d) = deleted \cup {e \in Store!Winners : ErasesRow(d, e)}
  BY <1>4 DEF HiddenWith, Targets, ErasesRow
<1>6. deleted' = HiddenWith(d)
  <2>1. CASE r \in marking
    <3>1. deleted' = (HiddenWith(d) \cap Remaining(r)) \ {d}
      BY <2>1 DEF CommitDelete
    <3>2. \A e \in Stored : e \notin Remaining(r) => Kind[e] = "delete"
      BY <1>1, <1>t, <2>1, BatchInserts, SlotFields DEF Stored
    <3>3. HiddenWith(d) \subseteq Stored /\ \A e \in HiddenWith(d) : Kind[e] # "delete"
      BY DEF HiddenWith, Targets, IInv, DeletedStored, IsoInv
    <3> QED
      BY <1>1, <3>1, <3>2, <3>3
  <2>2. CASE r \notin marking
    BY <2>2 DEF CommitDelete
  <2> QED
    BY <2>1, <2>2
<1>7. RaiseHorizons(d)
  BY DEF CommitDelete
<1> QED
  BY <1>1, <1>3, <1>5, <1>6, <1>7 DEF Store!Erase, IsDeleteKind, RaiseHorizons

\* Read checks, slot reads and commits interleaved with other authors' calls
\* amount to one atomic step of the store per accepted event (docs/phases/
\* CONTRACTS.md), for any events and any number of calls.
THEOREM IsolatedImplements == SpecIsolated => ImplementsStore
<1>1. Init => Store!Open
  BY DEF Init, Store!Open, Winner, Holders, Stored
<1>2. ASSUME IInv, IInv', IsoInv, [NextIsolated]_vars
      PROVE  [Store!Serve]_(Store!store)
  <2>1. CASE UNCHANGED <<rowid, deleted, horizon>>
    BY <2>1 DEF Store!store, Winner, Holders, Stored, Slot, SlotDTag
  <2>2. CASE ~UNCHANGED <<rowid, deleted, horizon>>
    <3>1. PICK r \in Request : Step(r)
      BY <1>2, <2>2 DEF NextIsolated, vars, tables
    <3>2. CommitEvent(r) \/ CommitDelete(r)
      BY <2>2, <3>1 DEF Step, Handle, CheckPrior, ReadHorizon, ReadSlot, ReadMarkerSlot,
         CommitConflict, Recheck, UpsertProfile, BumpGen, Fail, tables
    <3>3. Store!Put(Ev(r)) \/ Store!Erase(Ev(r))
      BY <1>2, <3>2, CommitIsPut, CommitIsErase DEF IsoInv
    <3> QED
      BY <1>2, <3>3, EvIsEvent DEF Store!Serve, IInv
  <2> QED
    BY <2>1, <2>2
<1> QED
  BY <1>1, <1>2, IsolatedReads, PTL DEF SpecIsolated, ImplementsStore, Store!StoreSpec

-----------------------------------------------------------------------------
(***************************************************************************)
(* Without failures, isolated calls leave the same tables whatever the     *)
(* order of the deliveries.                                                *)
(***************************************************************************)
\* The call's event counts as offered.
Settled(r) == pc[r] \in {"profile", "bump"} \/ result[r] \in {"stored", "stale"}

ResultsFinal ==
    \A r \in Request :
       /\ result[r] # "none" => pc[r] = "done"
       /\ result[r] = "stale" => Kind[Ev(r)] # "delete"

\* The slot of e holds e or an event that beats it.
Met(e) == \E f \in Stored : Slot(f) = Slot(e) /\ (f = e \/ Beats(f, e))

OffersMet == \A r \in Request : Settled(r) => Met(Ev(r))

StoredOffered == \A e \in Stored : \E r \in Request : Settled(r) /\ e = Ev(r)

\* A horizon comes from a delete that was offered.
HorizonsEarned ==
    \A a \in Address : horizon[a] # NoHorizon =>
       \E r \in Request : /\ Settled(r) /\ Kind[Ev(r)] = "delete"
                          /\ a \in OwnAddresses(Ev(r))
                          /\ horizon[a] = CreatedAt[Ev(r)]

Buried(e) == horizon[Slot(e)] >= CreatedAt[e]

BuriedDeleted == \A e \in Stored : Kind[e] = "post" /\ Buried(e) => e \in deleted

DeletedEarned ==
    \A e \in deleted : Kind[e] = "post" =>
       Buried(e) \/ \E r \in Request : Settled(r) /\ e \in ETags[Ev(r)]

OrderInv ==
    ResultsFinal /\ OffersMet /\ StoredOffered /\ HorizonsEarned
       /\ BuriedDeleted /\ DeletedEarned

LEMMA BeatsTransitive ==
    \A e, f, g \in Event : Beats(g, f) /\ (f = e \/ Beats(f, e)) => Beats(g, e)
<1>1. \A e \in Event : CreatedAt[e] \in Nat /\ IdRank[e] \in Nat
  BY EventAssumption
<1> QED
  BY <1>1 DEF Beats

LEMMA LoserBeaten ==
    \A e, f \in Event :
       /\ LosesToCurrent(f, e) => f = e \/ Beats(f, e)
       /\ ~LosesToCurrent(f, e) => Beats(e, f)
<1>1. \A e \in Event : CreatedAt[e] \in Nat /\ IdRank[e] \in Nat
  BY EventAssumption
<1>2. \A e, f \in Event : IdRank[e] = IdRank[f] => e = f
  BY EventAssumption
<1> QED
  BY <1>1, <1>2 DEF Beats, LosesToCurrent

\* What was offered stays offered.
LEMMA OffersStay ==
    ASSUME IInv, ResultsFinal, ~MayFail, NEW r \in Request, Step(r)
    PROVE  /\ \A q \in Request : Ev(q)' = Ev(q)
           /\ \A q \in Request : Settled(q) => Settled(q)'
           /\ \A q \in Request \ {r} : Settled(q)' => Settled(q)
<1>t. TypeOK
  BY DEF IInv
<1>1. \A q \in Request : Ev(q)' = Ev(q)
  BY <1>t, OthersWait DEF Ev
<1>2. \A q \in Request \ {r} : Settled(q)' <=> Settled(q)
  BY <1>t, OthersWait DEF Settled
<1>3. ASSUME Settled(r) PROVE Settled(r)'
  <2>1. pc[r] # "done"
    BY DEF Step, Handle, CheckPrior, ReadHorizon, ReadSlot, ReadMarkerSlot, CommitEvent,
       CommitDelete, CommitConflict, Recheck, UpsertProfile, BumpGen, Fail
  <2>2. pc[r] \in {"profile", "bump"}
    BY <1>3, <2>1 DEF Settled, ResultsFinal
  <2>3. UpsertProfile(r) \/ BumpGen(r)
    BY <2>2 DEF Step, Handle, CheckPrior, ReadHorizon, ReadSlot, ReadMarkerSlot, CommitEvent,
       CommitDelete, CommitConflict, Recheck, Fail
  <2> QED
    BY <1>t, <2>3 DEF UpsertProfile, BumpGen, Await, Resolve, Settled, TypeOK, Typed
<1> QED
  BY <1>1, <1>2, <1>3

LEMMA ResultsStep ==
    ASSUME IInv, IsoInv, ResultsFinal, ~MayFail, NEW r \in Request, Step(r)
    PROVE  ResultsFinal'
<1>t. TypeOK
  BY DEF IInv
<1>1. /\ result'[r] # "none" => pc'[r] = "done"
      /\ result'[r] = "stale" => Kind[Ev(r)] # "delete"
  <2>1. pc[r] # "done" /\ result[r] = "none"
    BY DEF ResultsFinal, Step, Handle, CheckPrior, ReadHorizon, ReadSlot, ReadMarkerSlot, CommitEvent,
       CommitDelete, CommitConflict, Recheck, UpsertProfile, BumpGen, Fail
  <2>2. CASE CommitEvent(r) \/ CommitDelete(r)
    BY <1>t, <2>1, <2>2 DEF CommitEvent, CommitDelete, AfterCommit, Await, Resolve, TypeOK, Typed
  <2>3. CASE ReadSlot(r)
    BY <1>t, <2>1, <2>3 DEF ReadSlot, Await, Resolve, TypeOK, Typed
  <2>4. CASE ~CommitEvent(r) /\ ~CommitDelete(r) /\ ~ReadSlot(r)
    BY <1>t, <2>1, <2>4 DEF Step, Handle, CheckPrior, ReadHorizon, ReadMarkerSlot, CommitConflict,
       Recheck, UpsertProfile, BumpGen, Fail, Await, Resolve, TypeOK, Typed
  <2> QED
    BY <2>2, <2>3, <2>4
<1>2. \A q \in Request : Ev(q)' = Ev(q)
  BY OffersStay
<1> QED
  BY <1>t, <1>1, <1>2, OthersWait DEF ResultsFinal

\* A batch that inserts its event replaces the holder it has beaten, if any.
LEMMA BatchReplaces ==
    ASSUME IInv, NEW r \in Request, ReadsCurrent(r),
           CommitEvent(r) \/ (CommitDelete(r) /\ r \in marking)
    PROVE  /\ Ev(r) \in Stored'
           /\ \A e \in Stored : e \notin Stored' => Slot(e) = Slot(Ev(r)) /\ Beats(Ev(r), e)
           /\ \A e \in Stored' : e # Ev(r) => e \in Stored
<1>t. Ev(r) \in Event
  BY EvIsEvent DEF IInv
<1>1. /\ Stored' = Remaining(r) \cup {Ev(r)}
      /\ \A e \in Stored : e \notin Remaining(r) => Slot(e) = Slot(Ev(r))
  BY BatchInserts
<1>2. \A f \in Holders(Slot(Ev(r))) : ~LosesToCurrent(f, Ev(r))
  BY DEF CommitEvent, CommitDelete, ReadsCurrent, SlotCurrent, Replaces
<1>3. ASSUME NEW e \in Stored, e \notin Stored' PROVE Beats(Ev(r), e)
  BY <1>t, <1>1, <1>2, <1>3, LoserBeaten DEF Holders, Stored
<1> QED
  BY <1>1, <1>3 DEF Remaining

\* What was met by its slot stays met.
LEMMA MetStays ==
    ASSUME IInv, NEW r \in Request, ReadsCurrent(r), Step(r), NEW e \in Event, Met(e)
    PROVE  Met(e)'
<1>t. Ev(r) \in Event
  BY EvIsEvent DEF IInv
<1>1. PICK f \in Stored : Slot(f) = Slot(e) /\ (f = e \/ Beats(f, e))
  BY DEF Met
<1>2. CASE f \in Stored'
  BY <1>1, <1>2 DEF Met, Slot, SlotDTag, Beats
<1>3. CASE f \notin Stored'
  <2>1. ~UNCHANGED rowid
    BY <1>3 DEF Stored
  <2>2. CommitEvent(r) \/ (CommitDelete(r) /\ r \in marking)
    BY <2>1 DEF Step, Handle, CheckPrior, ReadHorizon, ReadSlot, ReadMarkerSlot, CommitDelete,
       CommitConflict, Recheck, UpsertProfile, BumpGen, Fail, tables
  <2>3. Ev(r) \in Stored' /\ Slot(Ev(r)) = Slot(f) /\ Beats(Ev(r), f)
    BY <1>3, <2>2, BatchReplaces
  <2>4. Beats(Ev(r), e)
    BY <1>t, <1>1, <2>3, BeatsTransitive DEF Stored
  <2> QED
    BY <1>1, <2>3, <2>4 DEF Met, Slot, SlotDTag, Beats
<1> QED
  BY <1>2, <1>3

\* An answer "stored" or "stale" is given to an event whose slot meets it.
LEMMA MetWhenSettled ==
    ASSUME IInv, NEW r \in Request, ReadsCurrent(r), ~MayFail, Step(r), Settled(r)', ~Settled(r)
    PROVE  Met(Ev(r)) \/ Ev(r) \in Stored'
<1>t. TypeOK /\ Ev(r) \in Event
  BY EvIsEvent DEF IInv
<1>1. CASE CheckPrior(r)
  <2>1. Ev(r) \in Stored
    BY <1>1, <1>t DEF CheckPrior, Await, Resolve, Settled, TypeOK, Typed
  <2> QED
    BY <2>1 DEF Met
<1>2. CASE ReadSlot(r)
  <2>1. \E current \in Holders(Slot(Ev(r))) : LosesToCurrent(current, Ev(r))
    BY <1>2, <1>t DEF ReadSlot, Await, Resolve, Settled, TypeOK, Typed
  <2> QED
    BY <1>t, <2>1, LoserBeaten DEF Met, Holders, Stored
<1>3. CASE CommitEvent(r) \/ (CommitDelete(r) /\ r \in marking)
  BY <1>3, BatchReplaces
<1>4. CASE CommitDelete(r) /\ r \notin marking
  <2>1. \E f \in Holders(Slot(Ev(r))) : LosesToCurrent(f, Ev(r))
    BY <1>4 DEF CommitDelete, ReadsCurrent, SlotCurrent, Replaces
  <2> QED
    BY <1>t, <2>1, LoserBeaten DEF Met, Holders, Stored
<1>5. CASE ReadHorizon(r) \/ ReadMarkerSlot(r) \/ CommitConflict(r) \/ UpsertProfile(r)
              \/ BumpGen(r) \/ Recheck(r) \/ Fail(r)
  BY <1>5, <1>t DEF ReadHorizon, ReadMarkerSlot, CommitConflict, UpsertProfile, BumpGen, Recheck,
     Fail, ReadsCurrent, Settled, Await, Resolve, TypeOK, Typed
<1> QED
  BY <1>1, <1>2, <1>3, <1>4, <1>5 DEF Step, Handle

LEMMA OffersMetStep ==
    ASSUME IInv, IsoInv, ResultsFinal, OffersMet, ~MayFail, NEW r \in Request, Step(r)
    PROVE  OffersMet'
<1>1. ASSUME NEW q \in Request, Settled(q)' PROVE Met(Ev(q))'
  <2>e. Ev(q) \in Event /\ Ev(q)' = Ev(q)
    BY EvIsEvent, OffersStay DEF IInv
  <2>1. CASE Settled(q)
    <3>1. Met(Ev(q))
      BY <2>1 DEF OffersMet
    <3>2. \A e \in Event : Met(e) => Met(e)'
      BY MetStays DEF IsoInv
    <3> QED
      BY <2>e, <3>1, <3>2 DEF Met, Slot, SlotDTag, Beats
  <2>2. CASE ~Settled(q)
    <3>1. q = r
      BY <1>1, <2>2, OffersStay
    <3>2. Met(Ev(q)) \/ Ev(q) \in Stored'
      BY <1>1, <2>2, <3>1, MetWhenSettled DEF IsoInv
    <3>3. \A e \in Event : Met(e) => Met(e)'
      BY MetStays DEF IsoInv
    <3> QED
      BY <2>e, <3>2, <3>3 DEF Met, Slot, SlotDTag, Beats
  <2> QED
    BY <2>1, <2>2
<1> QED
  BY <1>1 DEF OffersMet

\* A batch settles its call.
LEMMA CommitSettles ==
    ASSUME IInv, NEW r \in Request, CommitEvent(r) \/ CommitDelete(r)
    PROVE  Settled(r)'
BY DEF CommitEvent, CommitDelete, AfterCommit, Await, Resolve, Settled, IInv, TypeOK, Typed

LEMMA StoredOfferedStep ==
    ASSUME IInv, ResultsFinal, StoredOffered, ~MayFail, NEW r \in Request, Step(r)
    PROVE  StoredOffered'
<1>1. ASSUME NEW e \in Stored', e \notin Stored PROVE e = Ev(r) /\ Settled(r)'
  <2>1. ~UNCHANGED rowid
    BY <1>1 DEF Stored
  <2>2. CommitEvent(r) \/ (CommitDelete(r) /\ r \in marking)
    BY <2>1 DEF Step, Handle, CheckPrior, ReadHorizon, ReadSlot, ReadMarkerSlot, CommitDelete,
       CommitConflict, Recheck, UpsertProfile, BumpGen, Fail, tables
  <2> QED
    BY <1>1, <2>2, BatchInserts, CommitSettles DEF Remaining
<1> QED
  BY <1>1, OffersStay DEF StoredOffered

LEMMA HorizonsEarnedStep ==
    ASSUME IInv, ResultsFinal, HorizonsEarned, ~MayFail, NEW r \in Request, Step(r)
    PROVE  HorizonsEarned'
<1>1. ASSUME NEW a \in Address, horizon'[a] # NoHorizon
      PROVE  \E q \in Request : /\ Settled(q)' /\ Kind[Ev(q)] = "delete"
                                /\ a \in OwnAddresses(Ev(q))
                                /\ horizon'[a] = CreatedAt[Ev(q)]
  <2>1. CASE horizon'[a] = horizon[a]
    BY <1>1, <2>1, OffersStay DEF HorizonsEarned
  <2>2. CASE horizon'[a] # horizon[a]
    <3>1. CommitDelete(r)
      BY <2>2 DEF Step, Handle, CheckPrior, ReadHorizon, ReadSlot, ReadMarkerSlot, CommitEvent,
         CommitConflict, Recheck, UpsertProfile, BumpGen, Fail, tables
    <3>2. a \in OwnAddresses(Ev(r)) /\ horizon'[a] = CreatedAt[Ev(r)] /\ Kind[Ev(r)] = "delete"
      BY <2>2, <3>1 DEF CommitDelete, RaiseHorizons
    <3> QED
      BY <3>1, <3>2, CommitSettles
  <2> QED
    BY <2>1, <2>2
<1> QED
  BY <1>1, OffersStay DEF HorizonsEarned, OwnAddresses

LEMMA BuriedDeletedStep ==
    ASSUME IInv, IsoInv, BuriedDeleted, NEW r \in Request, Step(r)
    PROVE  BuriedDeleted'
<1>t. TypeOK /\ Ev(r) \in Event
  BY EvIsEvent DEF IInv
<1>n. /\ \A a \in Address : horizon[a] \in Int
      /\ \A e \in Event : CreatedAt[e] \in Int /\ Slot(e) \in Address
  BY <1>t, EventAssumption, SlotIsAddress DEF TypeOK, Typed, NoHorizon
<1> SUFFICES ASSUME NEW e \in Stored', Kind[e] = "post", horizon'[Slot(e)] >= CreatedAt[e]
             PROVE  e \in deleted'
  BY DEF BuriedDeleted, Buried, Slot, SlotDTag
<1>e. e \in Event
  BY DEF Stored
<1>1. CASE CommitEvent(r)
  <2>1. /\ deleted' = ((deleted \cap Remaining(r)) \ {Ev(r)})
                         \cup (IF r \in tombstoned THEN {Ev(r)} ELSE {})
        /\ horizon' = horizon
        /\ Kind[Ev(r)] = "post" =>
              (r \in tombstoned <=> horizon[Slot(Ev(r))] >= CreatedAt[Ev(r)])
    BY <1>1 DEF CommitEvent, IsoInv, ReadsCurrent, HorizonCurrent
  <2>2. Stored' = Remaining(r) \cup {Ev(r)}
    BY <1>1, BatchInserts
  <2>3. CASE e = Ev(r)
    BY <2>1, <2>3
  <2>4. CASE e # Ev(r)
    <3>1. e \in Remaining(r) /\ e \in Stored
      BY <2>2, <2>4 DEF Remaining
    <3>2. e \in deleted
      BY <2>1, <3>1 DEF BuriedDeleted, Buried
    <3> QED
      BY <2>1, <2>4, <3>1, <3>2
  <2> QED
    BY <2>3, <2>4
<1>2. CASE CommitDelete(r)
  <2>1. e \in Stored /\ e # Ev(r) /\ (r \in marking => e \in Remaining(r))
    <3>1. CASE r \in marking
      BY <1>2, <3>1, BatchInserts DEF CommitDelete, Remaining
    <3>2. CASE r \notin marking
      BY <1>2, <3>2 DEF CommitDelete, Stored
    <3> QED
      BY <3>1, <3>2
  <2>2. e \in HiddenWith(Ev(r))
    <3>1. CASE horizon[Slot(e)] >= CreatedAt[e]
      BY <2>1, <3>1 DEF BuriedDeleted, Buried, HiddenWith
    <3>2. CASE ~(horizon[Slot(e)] >= CreatedAt[e])
      <4>1. horizon'[Slot(e)] # horizon[Slot(e)]
        BY <3>2
      <4>2. Slot(e) \in OwnAddresses(Ev(r)) /\ horizon'[Slot(e)] = CreatedAt[Ev(r)]
        BY <1>2, <1>n, <1>e, <4>1 DEF CommitDelete, RaiseHorizons
      <4>3. Author[e] = Author[Ev(r)]
        BY <1>e, <4>2, SlotFields DEF OwnAddresses
      <4>4. CreatedAt[e] <= CreatedAt[Ev(r)]
        BY <1>n, <1>e, <1>t, <4>2
      <4> QED
        BY <2>1, <4>2, <4>3, <4>4 DEF HiddenWith, Targets
    <3> QED
      BY <3>1, <3>2
  <2>3. deleted' = HiddenWith(Ev(r)) \/ deleted' = (HiddenWith(Ev(r)) \cap Remaining(r)) \ {Ev(r)}
    BY <1>2 DEF CommitDelete
  <2>4. r \notin marking => deleted' = HiddenWith(Ev(r))
    BY <1>2 DEF CommitDelete
  <2> QED
    BY <2>1, <2>2, <2>3, <2>4
<1>3. CASE ~CommitEvent(r) /\ ~CommitDelete(r)
  <2>1. UNCHANGED <<rowid, deleted, horizon>>
    BY <1>3 DEF Step, Handle, CheckPrior, ReadHorizon, ReadSlot, ReadMarkerSlot, CommitConflict,
       Recheck, UpsertProfile, BumpGen, Fail, tables
  <2> QED
    BY <2>1 DEF BuriedDeleted, Buried, Stored
<1> QED
  BY <1>1, <1>2, <1>3

LEMMA DeletedEarnedStep ==
    ASSUME IInv, ResultsFinal, IsoInv, DeletedEarned, ~MayFail, NEW r \in Request, Step(r)
    PROVE  DeletedEarned'
<1>t. TypeOK /\ Ev(r) \in Event
  BY EvIsEvent DEF IInv
<1>n. /\ \A a \in Address : horizon[a] \in Int /\ horizon'[a] \in Int
      /\ \A e \in Event : CreatedAt[e] \in Int /\ Slot(e) \in Address
  BY <1>t, EventAssumption, SlotIsAddress, TypeStep DEF TypeOK, Typed, NoHorizon, IInv, Next
<1>h. \A a \in Address : horizon'[a] >= horizon[a]
  BY HorizonsRise DEF IInv, Next
<1>b. \A e \in Event : Buried(e) => Buried(e)'
  <2>1. ASSUME NEW e \in Event, horizon[Slot(e)] >= CreatedAt[e]
        PROVE  horizon'[Slot(e)] >= CreatedAt[e]
    <3>1. Slot(e) \in Address /\ CreatedAt[e] \in Int
      BY <1>n
    <3>2. horizon'[Slot(e)] >= horizon[Slot(e)]
      BY <1>h, <3>1
    <3> QED
      BY <1>n, <2>1, <3>1, <3>2
  <2> QED
    BY <2>1 DEF Buried, Slot, SlotDTag
<1> SUFFICES ASSUME NEW e \in deleted', Kind[e] = "post", ~Buried(e)'
             PROVE  \E q \in Request : Settled(q)' /\ e \in ETags[Ev(q)]
  BY OffersStay DEF DeletedEarned
<1>1. CASE e \in deleted
  <2>1. e \in Event
    BY <1>1, <1>t DEF TypeOK, Typed
  <2> QED
    BY <1>1, <1>b, <2>1, OffersStay DEF DeletedEarned
<1>2. CASE e \notin deleted
  <2>1. ~UNCHANGED deleted
    BY <1>2
  <2>2. CommitEvent(r) \/ CommitDelete(r)
    BY <2>1 DEF Step, Handle, CheckPrior, ReadHorizon, ReadSlot, ReadMarkerSlot, CommitConflict,
       Recheck, UpsertProfile, BumpGen, Fail, tables
  <2>3. CASE CommitEvent(r)
    <3>1. e = Ev(r) /\ r \in tombstoned /\ UNCHANGED horizon
      BY <1>2, <2>3 DEF CommitEvent
    <3>2. horizon[Slot(e)] >= CreatedAt[e]
      BY <2>3, <3>1 DEF CommitEvent, IsoInv, ReadsCurrent, HorizonCurrent
    <3> QED
      BY <1>t, <1>b, <3>1, <3>2 DEF Buried
  <2>4. CASE CommitDelete(r)
    <3>1. e \in Targets(Ev(r))
      BY <1>2, <2>4 DEF CommitDelete, HiddenWith
    <3>2. CASE e \in ETags[Ev(r)]
      BY <2>4, <3>2, CommitSettles
    <3>3. CASE Slot(e) \in OwnAddresses(Ev(r)) /\ CreatedAt[e] <= CreatedAt[Ev(r)]
      <4>1. e \in Event /\ Slot(e) \in Address
        BY <1>n, <3>1 DEF Targets, Stored
      <4>2. horizon'[Slot(e)] >= CreatedAt[Ev(r)]
        BY <1>n, <1>t, <2>4, <3>3, <4>1 DEF CommitDelete, RaiseHorizons
      <4>3. horizon'[Slot(e)] >= CreatedAt[e]
        <5>1. CreatedAt[e] \in Int /\ CreatedAt[Ev(r)] \in Int /\ horizon'[Slot(e)] \in Int
          BY <1>n, <1>t, <4>1
        <5> QED
          BY <3>3, <4>2, <5>1
      <4> QED
        BY <4>3 DEF Buried, Slot, SlotDTag
    <3> QED
      BY <3>1, <3>2, <3>3 DEF Targets
  <2> QED
    BY <2>2, <2>3, <2>4
<1> QED
  BY <1>1, <1>2

LEMMA OrderedByInvariant ==
    ASSUME IInv, HorizonsKept, OrderInv PROVE OrderIndependent
<1>t. TypeOK /\ \A r \in Request : Ev(r) \in Event
  BY EvIsEvent DEF IInv
<1>o. \A e : e \in Offered <=> \E r \in Request : Settled(r) /\ e = Ev(r)
  BY DEF Offered, Settled
<1>1. \A e \in Offered : \E f \in Holders(Slot(e)) : f = e \/ Beats(f, e)
  BY <1>o DEF OrderInv, OffersMet, Met, Holders
<1>2. \A e \in Stored : e \in Offered
  BY <1>o DEF OrderInv, StoredOffered
<1>3. ASSUME NEW e \in Stored, Kind[e] = "post", \A d \in Offered : e \notin ETags[d]
      PROVE  e \in deleted <=> \E d \in Offered : /\ Kind[d] = "delete"
                                                  /\ Slot(e) \in OwnAddresses(d)
                                                  /\ CreatedAt[d] >= CreatedAt[e]
  <2>n. /\ e \in Event /\ Slot(e) \in Address /\ horizon[Slot(e)] \in Int
        /\ CreatedAt[e] \in Nat
    BY <1>t, EventAssumption, SlotIsAddress DEF Stored, TypeOK, Typed, NoHorizon
  <2>1. ASSUME e \in deleted
        PROVE  \E d \in Offered : /\ Kind[d] = "delete"
                                  /\ Slot(e) \in OwnAddresses(d)
                                  /\ CreatedAt[d] >= CreatedAt[e]
    <3>1. horizon[Slot(e)] >= CreatedAt[e]
      BY <1>o, <1>3, <2>1 DEF OrderInv, DeletedEarned, Buried
    <3>2. horizon[Slot(e)] # NoHorizon
      BY <2>n, <3>1 DEF NoHorizon
    <3> QED
      BY <1>o, <2>n, <3>1, <3>2 DEF OrderInv, HorizonsEarned
  <2>2. ASSUME NEW d \in Offered, Kind[d] = "delete", Slot(e) \in OwnAddresses(d),
               CreatedAt[d] >= CreatedAt[e]
        PROVE  e \in deleted
    <3>1. PICK r \in Request : Settled(r) /\ d = Ev(r)
      BY <1>o
    <3>2. Applied(r)
      BY <2>2, <3>1 DEF OrderInv, ResultsFinal, Settled, Applied
    <3>3. horizon[Slot(e)] >= CreatedAt[d]
      BY <2>2, <3>1, <3>2 DEF HorizonsKept, Covered
    <3>4. horizon[Slot(e)] >= CreatedAt[e]
      <4>1. CreatedAt[d] \in Int
        BY <1>t, <3>1, EventAssumption
      <4> QED
        BY <2>n, <2>2, <3>3, <4>1
    <3> QED
      BY <1>3, <3>4 DEF OrderInv, BuriedDeleted, Buried
  <2> QED
    BY <2>1, <2>2
<1> QED
  BY <1>1, <1>2, <1>3 DEF OrderIndependent

\* Whatever the order of delivery, each slot ends with the best event offered
\* to it and a post is hidden exactly when an offered delete covers it.
THEOREM OrderNeverMatters ==
    ASSUME ~MayFail
    PROVE  SpecIsolated => []OrderIndependent
<1>1. Init => OrderInv /\ HorizonsKept
  <2>1. ASSUME Init PROVE OrderInv /\ HorizonsKept
    <3>1. Stored = {}
      BY <2>1 DEF Init, Stored
    <3>2. HorizonsEarned /\ BuriedDeleted /\ DeletedEarned
      BY <2>1, <3>1 DEF Init, HorizonsEarned, BuriedDeleted, DeletedEarned
    <3>3. ResultsFinal /\ OffersMet /\ StoredOffered /\ HorizonsKept
      BY <2>1, <3>1 DEF Init, ResultsFinal, OffersMet, StoredOffered, HorizonsKept, Settled, Applied
    <3> QED
      BY <3>2, <3>3 DEF OrderInv
  <2> QED
    BY <2>1
<1>2. ASSUME IInv, IsoInv, OrderInv, HorizonsKept, [NextIsolated]_vars
      PROVE  OrderInv' /\ HorizonsKept'
  <2>1. HorizonsKept'
    BY <1>2, HorizonsStep, IsolatedIsNext DEF IInv
  <2>2. CASE UNCHANGED vars
    <3>1. /\ UNCHANGED <<rowid, deleted, horizon, msg, pc, result>>
          /\ \A r \in Request : Ev(r)' = Ev(r) /\ Settled(r)' = Settled(r)
          /\ Stored' = Stored
      BY <2>2 DEF vars, tables, Ev, Settled, Stored
    <3>2. ResultsFinal' /\ StoredOffered' /\ HorizonsEarned'
      BY <1>2, <3>1 DEF OrderInv, ResultsFinal, StoredOffered, HorizonsEarned, OwnAddresses
    <3>3. OffersMet' /\ BuriedDeleted' /\ DeletedEarned'
      BY <1>2, <3>1 DEF OrderInv, OffersMet, BuriedDeleted, DeletedEarned, Met, Buried, Slot, SlotDTag,
         Beats
    <3> QED
      BY <2>1, <3>2, <3>3 DEF OrderInv
  <2>3. CASE ~UNCHANGED vars
    <3>1. PICK r \in Request : Step(r)
      BY <1>2, <2>3 DEF NextIsolated
    <3>2. ResultsFinal' /\ OffersMet' /\ StoredOffered' /\ HorizonsEarned'
      BY <1>2, <3>1, ResultsStep, OffersMetStep, StoredOfferedStep, HorizonsEarnedStep DEF OrderInv
    <3>3. BuriedDeleted' /\ DeletedEarned'
      BY <1>2, <3>1, BuriedDeletedStep, DeletedEarnedStep DEF OrderInv
    <3> QED
      BY <2>1, <3>2, <3>3 DEF OrderInv
  <2> QED
    BY <2>2, <2>3
<1>3. IInv /\ HorizonsKept /\ OrderInv => OrderIndependent
  BY OrderedByInvariant
<1> QED
  BY <1>1, <1>2, <1>3, IsolatedReads, PTL DEF SpecIsolated

-----------------------------------------------------------------------------
(***************************************************************************)
(* The profiles row follows the kind 0 slot.                               *)
(***************************************************************************)
\* upsertProfile will accept the stored event it was called with.
Upserting ==
    \A r \in Request : pc[r] = "profile" =>
       LET p == Author[Ev(r)]
       IN  /\ Ev(r) \in Stored
           /\ profile[p] = NoEvent \/ CreatedAt[profile[p]] <= CreatedAt[Ev(r)]

Awaited(p) == \E r \in Request : Author[Ev(r)] = p /\ pc[r] = "profile"

Upserted ==
    \A e \in Stored : Kind[e] = "profile" /\ ~Awaited(Author[e]) => profile[Author[e]] = e

\* A profiles row is no newer than the slot it came from.
ProfileBehind ==
    \A p \in Pubkey : profile[p] # NoEvent =>
       /\ Kind[profile[p]] = "profile" /\ Author[profile[p]] = p
       /\ \E f \in Stored : Slot(f) = Slot(profile[p]) /\ CreatedAt[f] >= CreatedAt[profile[p]]

ProfileInv == Upserting /\ Upserted /\ ProfileBehind

LEMMA EventFields == \A e \in Event : CreatedAt[e] \in Nat /\ Author[e] \in Pubkey
<1>1. \A e \in Event : CreatedAt[e] \in Nat
  BY EventAssumption
<1>2. \A e \in Event : Author[e] \in Pubkey
  BY EventAssumption
<1> QED
  BY <1>1, <1>2

LEMMA ProfileSlot ==
    \A e, f \in Event : Kind[e] = "profile" /\ Kind[f] = "profile" =>
       (Slot(e) = Slot(f) <=> Author[e] = Author[f])
BY DEF Slot, SlotDTag

\* Steps that touch neither the profiles nor a kind 0 row.
LEMMA ProfileFramed ==
    ASSUME IInv, ProfileInv, NEW r \in Request, Step(r), profile' = profile,
           pc[r] # "profile", pc'[r] # "profile",
           \A e \in Event : Kind[e] = "profile" => (e \in Stored' <=> e \in Stored)
    PROVE  ProfileInv'
<1>t. TypeOK /\ \A q \in Request : Ev(q) \in Event
  BY EvIsEvent DEF IInv
<1>m. /\ \A q \in Request : Ev(q)' = Ev(q)
      /\ \A q \in Request : pc'[q] = "profile" <=> pc[q] = "profile"
  BY <1>t, OthersWait DEF Ev
<1>1. Upserting'
  <2>1. \A q \in Request : pc[q] = "profile" => Kind[Ev(q)] = "profile"
    BY <1>t DEF TypeOK, OnlyProfiles
  <2> QED
    BY <1>t, <1>m, <2>1 DEF ProfileInv, Upserting
<1>2. Upserted'
  <2>1. \A p : Awaited(p)' <=> Awaited(p)
    BY <1>m DEF Awaited
  <2> QED
    BY <2>1 DEF ProfileInv, Upserted, Stored
<1>3. ProfileBehind'
  <2>1. ASSUME NEW p \in Pubkey, profile[p] # NoEvent
        PROVE  \E f \in Stored' : Slot(f) = Slot(profile[p]) /\ CreatedAt[f] >= CreatedAt[profile[p]]
    <3>1. PICK f \in Stored : Slot(f) = Slot(profile[p]) /\ CreatedAt[f] >= CreatedAt[profile[p]]
      BY <2>1 DEF ProfileInv, ProfileBehind
    <3>2. f \in Event /\ profile[p] \in Event /\ Kind[f] = "profile"
      BY <1>t, <2>1, <3>1, SlotFields DEF Stored, TypeOK, Typed, ProfileInv, ProfileBehind
    <3> QED
      BY <3>1, <3>2
  <2> QED
    BY <2>1 DEF ProfileInv, ProfileBehind, Slot, SlotDTag
<1> QED
  BY <1>1, <1>2, <1>3 DEF ProfileInv

LEMMA CommitProfileStep ==
    ASSUME IInv, IsoInv, ProfileInv, NEW r \in Request, Alone(r), CommitEvent(r),
           Kind[Ev(r)] = "profile"
    PROVE  ProfileInv'
<1> DEFINE e0 == Ev(r)
           p0 == Author[e0]
<1>t. TypeOK /\ \A q \in Request : Ev(q) \in Event
  BY EvIsEvent DEF IInv
<1>s. Step(r)
  BY DEF Step, Handle
<1>m. /\ \A q \in Request : Ev(q)' = Ev(q)
      /\ \A q \in Request \ {r} : pc'[q] = pc[q]
  BY <1>t, <1>s, OthersWait DEF Ev
<1>c. profile' = profile /\ pc'[r] = "profile" /\ pc[r] = "commit"
  BY <1>t DEF CommitEvent, AfterCommit, Await, TypeOK, Typed
<1>n. \A e \in Event : CreatedAt[e] \in Nat /\ Author[e] \in Pubkey
  BY EventFields
<1>a. ASSUME NEW q \in Request \ {r}, pc[q] = "profile" PROVE Author[Ev(q)] # p0
  BY <1>a DEF Alone, Active
<1>o. \A e \in Event : Author[e] # p0 => (e \in Stored' <=> e \in Stored)
  BY <1>s, OthersRows DEF Stored
<1>b. /\ e0 \in Stored'
      /\ \A e \in Stored : e \notin Stored' => Slot(e) = Slot(e0) /\ Beats(e0, e)
  BY BatchReplaces DEF IsoInv
<1>p. profile[p0] # NoEvent => CreatedAt[profile[p0]] <= CreatedAt[e0]
  <2> SUFFICES ASSUME profile[p0] # NoEvent PROVE CreatedAt[profile[p0]] <= CreatedAt[e0]
    OBVIOUS
  <2>1. PICK f \in Stored : Slot(f) = Slot(profile[p0]) /\ CreatedAt[f] >= CreatedAt[profile[p0]]
    BY <1>t, <1>n DEF ProfileInv, ProfileBehind
  <2>2. f \in Holders(Slot(e0)) /\ f \in Event /\ profile[p0] \in Event
    BY <1>t, <1>n, <2>1, ProfileSlot DEF Holders, Stored, TypeOK, Typed, ProfileInv, ProfileBehind
  <2>3. ~LosesToCurrent(f, e0)
    BY <1>c, <2>2 DEF IsoInv, ReadsCurrent, SlotCurrent, Replaces
  <2>4. CreatedAt[f] <= CreatedAt[e0]
    BY <1>t, <1>n, <2>2, <2>3 DEF LosesToCurrent
  <2>5. CreatedAt[f] \in Int /\ CreatedAt[e0] \in Int /\ CreatedAt[profile[p0]] \in Int
    BY <1>t, <1>n, <2>2
  <2> QED
    BY <2>1, <2>4, <2>5
<1>1. Upserting'
  <2>1. ASSUME NEW q \in Request, pc'[q] = "profile"
        PROVE  /\ Ev(q) \in Stored'
               /\ \/ profile[Author[Ev(q)]] = NoEvent
                  \/ CreatedAt[profile[Author[Ev(q)]]] <= CreatedAt[Ev(q)]
    <3>1. CASE q = r
      BY <1>b, <1>p, <3>1
    <3>2. CASE q # r
      BY <1>t, <1>m, <1>a, <1>o, <2>1, <3>2 DEF ProfileInv, Upserting
    <3> QED
      BY <3>1, <3>2
  <2> QED
    BY <1>m, <1>c, <2>1 DEF Upserting
<1>2. Upserted'
  <2>1. \A p : Awaited(p)' <=> (Awaited(p) \/ p = p0)
    BY <1>m, <1>c DEF Awaited
  <2> QED
    BY <1>c, <1>o, <2>1 DEF ProfileInv, Upserted, Stored
<1>3. ProfileBehind'
  <2>1. ASSUME NEW p \in Pubkey, profile[p] # NoEvent
        PROVE  \E f \in Stored' : Slot(f) = Slot(profile[p]) /\ CreatedAt[f] >= CreatedAt[profile[p]]
    <3>e. profile[p] \in Event /\ Kind[profile[p]] = "profile" /\ Author[profile[p]] = p
      BY <1>t, <2>1 DEF TypeOK, Typed, ProfileInv, ProfileBehind
    <3>1. CASE p = p0
      <4>1. Slot(e0) = Slot(profile[p])
        BY <1>t, <3>e, <3>1, ProfileSlot
      <4>2. CreatedAt[e0] >= CreatedAt[profile[p]]
        BY <1>t, <1>n, <1>p, <2>1, <3>e, <3>1
      <4> QED
        BY <1>b, <4>1, <4>2
    <3>2. CASE p # p0
      <4>1. PICK f \in Stored : Slot(f) = Slot(profile[p]) /\ CreatedAt[f] >= CreatedAt[profile[p]]
        BY <2>1 DEF ProfileInv, ProfileBehind
      <4>2. f \in Event /\ Author[f] = p
        BY <3>e, <4>1, SlotFields DEF Stored
      <4> QED
        BY <1>o, <3>2, <4>1, <4>2
    <3> QED
      BY <3>1, <3>2
  <2> QED
    BY <1>c, <2>1 DEF ProfileInv, ProfileBehind, Slot, SlotDTag
<1> QED
  BY <1>1, <1>2, <1>3 DEF ProfileInv

LEMMA UpsertStep ==
    ASSUME IInv, ProfileInv, NEW r \in Request, Alone(r), UpsertProfile(r)
    PROVE  ProfileInv'
<1> DEFINE e0 == Ev(r)
           p0 == Author[e0]
<1>t. TypeOK /\ \A q \in Request : Ev(q) \in Event
  BY EvIsEvent DEF IInv
<1>s. Step(r)
  BY DEF Step, Handle
<1>m. /\ \A q \in Request : Ev(q)' = Ev(q)
      /\ \A q \in Request \ {r} : pc'[q] = pc[q]
  BY <1>t, <1>s, OthersWait DEF Ev
<1>n. \A e \in Event : CreatedAt[e] \in Nat /\ Author[e] \in Pubkey
  BY EventFields
<1>c. /\ Stored' = Stored /\ pc[r] = "profile" /\ pc'[r] # "profile"
      /\ Kind[e0] = "profile" /\ e0 \in Stored
  BY <1>t DEF UpsertProfile, Await, Resolve, Stored, TypeOK, Typed, OnlyProfiles, ProfileInv, Upserting
<1>p. profile' = [profile EXCEPT ![p0] = e0]
  <2>1. \/ profile[p0] = NoEvent
        \/ /\ profile[p0] \in Event
           /\ CreatedAt[profile[p0]] <= CreatedAt[e0]
    BY <1>t, <1>c, <1>n DEF ProfileInv, Upserting, TypeOK, Typed
  <2>2. profile[p0] = NoEvent \/ CreatedAt[e0] >= CreatedAt[profile[p0]]
    BY <1>t, <1>n, <2>1
  <2> QED
    BY <2>2 DEF UpsertProfile
<1>q. profile'[p0] = e0 /\ \A p \in Pubkey : p # p0 => profile'[p] = profile[p]
  BY <1>t, <1>n, <1>p DEF TypeOK, Typed
<1>a. ASSUME NEW q \in Request, pc'[q] = "profile"
      PROVE  pc[q] = "profile" /\ Author[Ev(q)] # p0
  BY <1>a, <1>c, <1>m DEF Alone, Active
<1>1. Upserting'
  <2>1. ASSUME NEW q \in Request, pc'[q] = "profile"
        PROVE  /\ Ev(q) \in Stored'
               /\ \/ profile'[Author[Ev(q)]] = NoEvent
                  \/ CreatedAt[profile'[Author[Ev(q)]]] <= CreatedAt[Ev(q)]
    <3>1. profile'[Author[Ev(q)]] = profile[Author[Ev(q)]]
      BY <1>t, <1>n, <1>q, <1>a, <2>1
    <3> QED
      BY <1>a, <1>c, <2>1, <3>1 DEF ProfileInv, Upserting
  <2> QED
    BY <1>m, <2>1 DEF Upserting
<1>2. Upserted'
  <2>1. ASSUME NEW e \in Stored, Kind[e] = "profile", ~Awaited(Author[e])'
        PROVE  profile'[Author[e]] = e
    <3>e. e \in Event
      BY DEF Stored
    <3>1. CASE Author[e] = p0
      <4>1. e = e0
        BY <1>t, <1>c, <2>1, <3>e, <3>1, ProfileSlot DEF IInv, RowsOK, SlotsUnique
      <4> QED
        BY <1>q, <4>1
    <3>2. CASE Author[e] # p0
      <4>1. ~Awaited(Author[e])
        BY <1>m, <2>1, <3>2 DEF Awaited
      <4>2. profile[Author[e]] = e
        BY <2>1, <4>1 DEF ProfileInv, Upserted
      <4> QED
        BY <1>n, <1>q, <3>e, <3>2, <4>2
    <3> QED
      BY <3>1, <3>2
  <2> QED
    BY <1>c, <2>1 DEF Upserted
<1>3. ProfileBehind'
  <2>1. ASSUME NEW p \in Pubkey, profile'[p] # NoEvent
        PROVE  /\ Kind[profile'[p]] = "profile" /\ Author[profile'[p]] = p
               /\ \E f \in Stored : /\ Slot(f) = Slot(profile'[p])
                                    /\ CreatedAt[f] >= CreatedAt[profile'[p]]
    <3>1. CASE p = p0
      BY <1>t, <1>n, <1>c, <1>q, <3>1
    <3>2. CASE p # p0
      BY <1>q, <2>1, <3>2 DEF ProfileInv, ProfileBehind
    <3> QED
      BY <3>1, <3>2
  <2> QED
    BY <1>c, <2>1 DEF ProfileBehind, Slot, SlotDTag
<1> QED
  BY <1>1, <1>2, <1>3 DEF ProfileInv

\* Once the calls of isolated authors have returned, each profiles row is the
\* stored kind 0 event, however deliveries, ties and replacements fell.
THEOREM ProfileFollowsSlot ==
    ASSUME ~MayFail
    PROVE  SpecIsolated => []ProfileMatchesSlot
<1>1. Init => ProfileInv
  BY DEF Init, ProfileInv, Upserting, Upserted, ProfileBehind, Stored
<1>2. ASSUME IInv, IsoInv, ProfileInv, [NextIsolated]_vars PROVE ProfileInv'
  <2>1. CASE UNCHANGED vars
    <3>1. /\ UNCHANGED <<rowid, profile, msg, pc>> /\ Stored' = Stored
          /\ \A r \in Request : Ev(r)' = Ev(r)
      BY <2>1 DEF vars, tables, Ev, Stored
    <3> QED
      BY <1>2, <3>1 DEF ProfileInv, Upserting, Upserted, ProfileBehind, Awaited, Slot, SlotDTag
  <2>2. CASE ~UNCHANGED vars
    <3>1. PICK r \in Request : Alone(r) /\ Step(r)
      BY <1>2, <2>2 DEF NextIsolated
    <3>t. TypeOK /\ Ev(r) \in Event
      BY <1>2, EvIsEvent DEF IInv
    <3>2. CASE CommitEvent(r) /\ Kind[Ev(r)] = "profile"
      BY <1>2, <3>1, <3>2, CommitProfileStep
    <3>3. CASE UpsertProfile(r)
      BY <1>2, <3>1, <3>3, UpsertStep
    <3>4. CASE ~(CommitEvent(r) /\ Kind[Ev(r)] = "profile") /\ ~UpsertProfile(r)
      <4>1. CASE CommitEvent(r) \/ CommitDelete(r)
        <5>1. /\ profile' = profile /\ pc[r] # "profile" /\ pc'[r] # "profile"
              /\ Kind[Ev(r)] # "profile"
          BY <3>t, <3>4, <4>1 DEF CommitEvent, CommitDelete, AfterCommit, Await, Resolve, TypeOK, Typed
        <5>2. \A e \in Event : Kind[e] = "profile" => (e \in Stored' <=> e \in Stored)
          <6>1. CASE CommitDelete(r) /\ r \notin marking
            BY <6>1 DEF CommitDelete, Stored
          <6>2. CASE CommitEvent(r) \/ (CommitDelete(r) /\ r \in marking)
            BY <1>2, <3>t, <5>1, <6>2, BatchInserts, SlotFields DEF Remaining
          <6> QED
            BY <4>1, <6>1, <6>2
        <5> QED
          BY <1>2, <3>1, <5>1, <5>2, ProfileFramed
      <4>2. CASE ~CommitEvent(r) /\ ~CommitDelete(r)
        <5>1. profile' = profile /\ rowid' = rowid /\ pc[r] # "profile" /\ pc'[r] # "profile"
          BY <3>t, <3>1, <3>4, <4>2 DEF Step, Handle, CheckPrior, ReadHorizon, ReadSlot,
             ReadMarkerSlot, CommitConflict, Recheck, BumpGen, Fail, tables, Await, Resolve,
             TypeOK, Typed
        <5> QED
          BY <1>2, <3>1, <5>1, ProfileFramed DEF Stored
      <4> QED
        BY <4>1, <4>2
    <3> QED
      BY <3>2, <3>3, <3>4
  <2> QED
    BY <2>1, <2>2
<1>3. ProfileInv => ProfileMatchesSlot
  BY DEF ProfileInv, Upserted, Awaited, ProfileMatchesSlot, Active
<1> QED
  BY <1>1, <1>2, <1>3, IsolatedReads, PTL DEF SpecIsolated
=============================================================================
