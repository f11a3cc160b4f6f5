------------------------------- MODULE Mirror -------------------------------
(***************************************************************************)
(* Ingest of Nostr events into D1: mirrorEvent and applyDelete of          *)
(* src/src/services/mirror.ts, with upsertProfile and bumpGen which they   *)
(* await last.  A request is one call of mirrorEvent (from POST            *)
(* /api/mirror, the relay, the cron refresh or an npub page view).  Every  *)
(* `await` on D1 or KV is one action, so calls interleave exactly where    *)
(* the Worker lets them; a D1 batch is one transaction, hence one action.  *)
(*                                                                         *)
(* An event is named by its id, so two deliveries of one id carry the same *)
(* content.  What a signature check would say of a delivery is its field   *)
(* `genuine`: a stored row was verified, so a delivery whose signature     *)
(* equals the stored one is genuine and the signature itself is not kept.  *)
(*                                                                         *)
(* A definition named X_bug is X with a plausible bug.  No action uses it: *)
(* it shows that a property fails when the code has that bug.              *)
(***************************************************************************)
EXTENDS Integers

CONSTANTS
    Event,      \* event ids
    Pubkey,     \* authors
    Tag,        \* values of a `d` tag
    EmptyTag,   \* the d_tag '' of kinds that are not parameterized-replaceable
    Author,     \* [Event -> Pubkey]
    Kind,       \* [Event -> {"profile", "post", "delete"}]: kinds 0, 30023, 5
    DTag,       \* [Event -> Tag]: the first d tag, stray ones included
    CreatedAt,  \* [Event -> Nat]
    IdRank,     \* [Event -> Nat]: lexicographic rank of the id
    ETags,      \* [Event -> SUBSET Event]: ids its e tags name
    ATags,      \* [Event -> SUBSET Address]: addresses its a tags name
    NoEvent,    \* no profile row
    Request,    \* calls of mirrorEvent
    Message,    \* what a call may be given, a subset of Delivery
    MayFail     \* TRUE when D1 or KV errors and evicted isolates are modelled

Kinds == {"profile", "post", "delete"}

\* "kind:pubkey:d_tag", the key of a replaceable slot and of a delete horizon.
Address == Kinds \X Pubkey \X Tag

Delivery == [ev : Event, genuine : BOOLEAN, bump : BOOLEAN]

ASSUME EventAssumption ==
    /\ EmptyTag \in Tag
    /\ NoEvent \notin Event
    /\ Author \in [Event -> Pubkey]
    /\ Kind \in [Event -> Kinds]
    /\ DTag \in [Event -> Tag]
    /\ CreatedAt \in [Event -> Nat]
    /\ IdRank \in [Event -> Nat]
    /\ \A e, f \in Event : IdRank[e] = IdRank[f] => e = f
    /\ ETags \in [Event -> SUBSET Event]
    /\ ATags \in [Event -> SUBSET Address]
    /\ Message \subseteq Delivery
    /\ MayFail \in BOOLEAN

\* deleted_at of an address without a row in delete_horizons: below every time.
NoHorizon == -1

SlotDTag(e) == IF Kind[e] = "post" THEN DTag[e] ELSE EmptyTag

Slot(e) == <<Kind[e], Author[e], SlotDTag(e)>>

\* NIP-01 order, with the stored event first.
LosesToCurrent(current, incoming) ==
    IF CreatedAt[current] # CreatedAt[incoming]
    THEN CreatedAt[current] > CreatedAt[incoming]
    ELSE IdRank[current] <= IdRank[incoming]

\* The a tags a delete may act on: those that embed its own author.
OwnAddresses(d) == {a \in ATags[d] : a[2] = Author[d]}

-----------------------------------------------------------------------------
VARIABLES
    rowid,       \* [Event -> Nat]: rowid in the events table, 0 when not stored
    deleted,     \* stored events whose deleted column is 1
    fts,         \* rowids present in posts_fts
    horizon,     \* [Address -> Nat \cup {NoHorizon}]: delete_horizons
    profile,     \* [Pubkey -> Event \cup {NoEvent}]: kind 0 behind the profiles row
    unbumped,    \* authors whose rows changed after the last gen:<pubkey> write
    msg,         \* [Request -> Message]: the arguments of the call
    pc,          \* [Request -> STRING]: what the call awaits next
    tombstoned,  \* requests that found their post under a delete horizon
    slotRid,     \* [Request -> Nat]: rowid the slot read returned, 0 for null
    marking,     \* delete requests whose batch stores the kind 5 row
    attempt,     \* [Request -> 0..1]: the loop counter
    result       \* [Request -> STRING]: what the call resolved to

tables == <<rowid, deleted, fts, horizon, profile>>
locals == <<tombstoned, slotRid, marking, attempt>>
vars == <<tables, unbumped, msg, pc, locals, result>>

Stored == {e \in Event : rowid[e] # 0}
Visible == {e \in Stored \ deleted : Kind[e] = "post"}

\* The slot read forgets the kind.
Holders_bug(s) == {e \in Stored : Author[e] = s[2] /\ SlotDTag(e) = s[3]}

Holders(s) == {e \in Stored : Slot(e) = s}

Ev(r) == msg[r].ev

Steps == {"prior", "horizon", "slot", "commit", "recheck", "profile", "bump", "done"}
Results == {"none", "stored", "stale", "invalid", "error", "failed"}
Active(r) == pc[r] \notin {"prior", "done"}

Init ==
    /\ rowid = [e \in Event |-> 0]
    /\ deleted = {}
    /\ fts = {}
    /\ horizon = [a \in Address |-> NoHorizon]
    /\ profile = [p \in Pubkey |-> NoEvent]
    /\ unbumped = {}
    /\ msg \in [Request -> Message]
    /\ pc = [r \in Request |-> "prior"]
    /\ tombstoned = {}
    /\ slotRid = [r \in Request |-> 0]
    /\ marking = {}
    /\ attempt = [r \in Request |-> 0]
    /\ result = [r \in Request |-> "none"]

-----------------------------------------------------------------------------
Await(r, step) ==
    /\ pc' = [pc EXCEPT ![r] = step]
    /\ UNCHANGED result

Resolve(r, value) ==
    /\ pc' = [pc EXCEPT ![r] = "done"]
    /\ result' = [result EXCEPT ![r] = value]

\* SELECT sig FROM events WHERE id = ?, then verifyEvent where it is needed.
CheckPrior(r) ==
    /\ pc[r] = "prior"
    /\ IF ~msg[r].genuine THEN Resolve(r, "invalid")
       ELSE IF Ev(r) \in Stored THEN Resolve(r, "stored")
       ELSE Await(r, IF Kind[Ev(r)] = "post" THEN "horizon" ELSE "slot")
    /\ UNCHANGED <<tables, unbumped, msg, locals>>

\* coveredByDeleteHorizon: read once, before the retry loop.
ReadHorizon(r) ==
    /\ pc[r] = "horizon"
    /\ tombstoned' = IF horizon[Slot(Ev(r))] >= CreatedAt[Ev(r)]
                     THEN tombstoned \cup {r}
                     ELSE tombstoned
    /\ Await(r, "slot")
    /\ UNCHANGED <<tables, unbumped, msg, slotRid, marking, attempt>>

\* currentSlot and losesToCurrent of mirrorEvent.
ReadSlot(r) ==
    /\ pc[r] = "slot"
    /\ Kind[Ev(r)] # "delete"
    /\ \/ /\ Holders(Slot(Ev(r))) = {}
          /\ slotRid' = [slotRid EXCEPT ![r] = 0]
          /\ Await(r, "commit")
       \/ \E current \in Holders(Slot(Ev(r))) :
             IF LosesToCurrent(current, Ev(r))
             THEN Resolve(r, "stale") /\ UNCHANGED slotRid
             ELSE /\ slotRid' = [slotRid EXCEPT ![r] = rowid[current]]
                  /\ Await(r, "commit")
    /\ UNCHANGED <<tables, unbumped, msg, tombstoned, marking, attempt>>

\* currentSlot of applyDelete: losing only means the marker is not stored.
ReadMarkerSlot(r) ==
    /\ pc[r] = "slot"
    /\ Kind[Ev(r)] = "delete"
    /\ \/ /\ Holders(Slot(Ev(r))) = {}
          /\ slotRid' = [slotRid EXCEPT ![r] = 0]
          /\ marking' = marking \cup {r}
       \/ \E current \in Holders(Slot(Ev(r))) :
             IF LosesToCurrent(current, Ev(r))
             THEN /\ slotRid' = [slotRid EXCEPT ![r] = 0]
                  /\ marking' = marking \ {r}
             ELSE /\ slotRid' = [slotRid EXCEPT ![r] = rowid[current]]
                  /\ marking' = marking \cup {r}
    /\ Await(r, "commit")
    /\ UNCHANGED <<tables, unbumped, msg, tombstoned, attempt>>

-----------------------------------------------------------------------------
\* The batch.  DELETE ... WHERE rowid = slotRid removes whatever row now has
\* that rowid, or nothing.  (No row has rowid 0.)
Remaining(r) == {e \in Stored : rowid[e] # slotRid[r]}

\* SQLite's choice for a table without AUTOINCREMENT: one above the largest
\* rowid in use, so the top rowid is handed out again once its row is deleted.
FreshRowid(n, rows) ==
    /\ n \in {1} \cup {rowid[e] + 1 : e \in rows}
    /\ \A e \in rows : rowid[e] < n

\* UNIQUE(pubkey, kind, d_tag), and with it the primary key: an id fixes its
\* slot.
Collides(r) == \E e \in Remaining(r) : Slot(e) = Slot(Ev(r))

InsertRow(r, n) ==
    rowid' = [e \in Event |-> IF e = Ev(r) THEN n
                              ELSE IF e \in Remaining(r) THEN rowid[e]
                              ELSE 0]

\* Every kind refreshes the profile.
AfterCommit_bug3(r) == Await(r, "profile")

AfterCommit(r) ==
    IF Kind[Ev(r)] = "profile" THEN Await(r, "profile")
    ELSE IF msg[r].bump THEN Await(r, "bump")
    ELSE Resolve(r, "stored")

\* The index keeps the row of the event that is replaced.
Unindexed_bug(r) == fts

\* DELETE FROM posts_fts WHERE rowid = slotRid
Unindexed(r) == fts \ {slotRid[r]}

CommitEvent(r) ==
    /\ pc[r] = "commit"
    /\ Kind[Ev(r)] # "delete"
    /\ ~Collides(r)
    /\ \E n \in {1} \cup {rowid[e] + 1 : e \in Remaining(r)} :
          /\ FreshRowid(n, Remaining(r))
          /\ InsertRow(r, n)
          /\ IF Kind[Ev(r)] = "post" /\ r \notin tombstoned
             THEN n \notin Unindexed(r) /\ fts' = Unindexed(r) \cup {n}
             ELSE fts' = Unindexed(r)
    /\ deleted' = ((deleted \cap Remaining(r)) \ {Ev(r)})
                     \cup (IF r \in tombstoned THEN {Ev(r)} ELSE {})
    /\ unbumped' = unbumped \cup {Author[Ev(r)]}
    /\ AfterCommit(r)
    /\ UNCHANGED <<horizon, profile, msg, locals>>

\* A delete hides only what is strictly older.
Targets_bug(d) ==
    {e \in Stored :
        /\ Author[e] = Author[d]
        /\ Kind[e] # "delete"
        /\ \/ e \in ETags[d]
           \/ Slot(e) \in OwnAddresses(d) /\ CreatedAt[e] < CreatedAt[d]}

\* UPDATE events SET deleted = 1, by id and by address.
Targets(d) ==
    {e \in Stored :
        /\ Author[e] = Author[d]
        /\ Kind[e] # "delete"
        /\ \/ e \in ETags[d]
           \/ Slot(e) \in OwnAddresses(d) /\ CreatedAt[e] <= CreatedAt[d]}

HiddenWith(d) == deleted \cup Targets(d)

\* A horizon is kept only for addresses that hold a row.
RaiseHorizons_bug(d) ==
    horizon' = [a \in Address |->
                  IF /\ a \in OwnAddresses(d) /\ horizon[a] < CreatedAt[d]
                     /\ Holders(a) # {}
                  THEN CreatedAt[d]
                  ELSE horizon[a]]

RaiseHorizons(d) ==
    horizon' = [a \in Address |->
                  IF a \in OwnAddresses(d) /\ horizon[a] < CreatedAt[d]
                  THEN CreatedAt[d]
                  ELSE horizon[a]]

CommitDelete(r) ==
    LET d == Ev(r)
        hidden == HiddenWith(d)
    IN  /\ pc[r] = "commit"
        /\ Kind[d] = "delete"
        /\ RaiseHorizons(d)
        /\ fts' = fts \ {rowid[e] : e \in {x \in hidden : Author[x] = Author[d]}}
        /\ IF r \in marking
           THEN /\ ~Collides(r)
                /\ \E n \in {1} \cup {rowid[e] + 1 : e \in Remaining(r)} :
                      FreshRowid(n, Remaining(r)) /\ InsertRow(r, n)
                /\ deleted' = (hidden \cap Remaining(r)) \ {d}
           ELSE /\ UNCHANGED rowid
                /\ deleted' = hidden
        /\ unbumped' = unbumped \cup {Author[d]}
        /\ AfterCommit(r)
        /\ UNCHANGED <<profile, msg, locals>>

\* The batch trips a constraint and rolls back: recheck once, then throw.
\* posts_fts refuses a rowid it already holds with the same kind of error.
FtsClash(r) ==
    /\ Kind[Ev(r)] = "post"
    /\ r \notin tombstoned
    /\ \E n \in Unindexed(r) : FreshRowid(n, Remaining(r))

CommitConflict(r) ==
    /\ pc[r] = "commit"
    /\ Kind[Ev(r)] # "delete" \/ r \in marking
    /\ Collides(r) \/ FtsClash(r)
    /\ IF attempt[r] > 0 THEN Resolve(r, "error") ELSE Await(r, "recheck")
    /\ UNCHANGED <<tables, unbumped, msg, locals>>

\* The stale batch is tried again, and the attempt not counted.
Recheck_bug(r) ==
    /\ pc[r] = "recheck"
    /\ IF Ev(r) \notin Stored THEN Await(r, "commit") ELSE Resolve(r, "stored")
    /\ UNCHANGED <<tables, unbumped, msg, locals>>

\* SELECT 1 FROM events WHERE id = ?: a twin of this call may have won.
Recheck(r) ==
    /\ pc[r] = "recheck"
    /\ IF Ev(r) \notin Stored
       THEN attempt' = [attempt EXCEPT ![r] = @ + 1] /\ Await(r, "slot")
       ELSE /\ UNCHANGED attempt
            /\ IF Kind[Ev(r)] = "delete" /\ msg[r].bump
               THEN Await(r, "bump")
               ELSE Resolve(r, "stored")
    /\ UNCHANGED <<tables, unbumped, msg, tombstoned, slotRid, marking>>

\* A tie keeps the row.
UpsertProfile_bug(r) ==
    LET e == Ev(r)
        p == Author[e]
    IN  /\ pc[r] = "profile"
        /\ profile' = IF profile[p] = NoEvent \/ CreatedAt[e] > CreatedAt[profile[p]]
                      THEN [profile EXCEPT ![p] = e]
                      ELSE profile
        /\ IF msg[r].bump THEN Await(r, "bump") ELSE Resolve(r, "stored")
        /\ UNCHANGED <<rowid, deleted, fts, horizon, unbumped, msg, locals>>

\* INSERT ... ON CONFLICT DO UPDATE WHERE excluded.updated_at >= updated_at.
UpsertProfile(r) ==
    LET e == Ev(r)
        p == Author[e]
    IN  /\ pc[r] = "profile"
        /\ profile' = IF profile[p] = NoEvent \/ CreatedAt[e] >= CreatedAt[profile[p]]
                      THEN [profile EXCEPT ![p] = e]
                      ELSE profile
        /\ IF msg[r].bump THEN Await(r, "bump") ELSE Resolve(r, "stored")
        /\ UNCHANGED <<rowid, deleted, fts, horizon, unbumped, msg, locals>>

\* bumpGen: a fresh opaque value, so every page cached before it is orphaned.
BumpGen(r) ==
    /\ pc[r] = "bump"
    /\ unbumped' = unbumped \ {Author[Ev(r)]}
    /\ Resolve(r, "stored")
    /\ UNCHANGED <<tables, msg, locals>>

\* An awaited call rejects, or the isolate is evicted: what was committed stays.
Fail(r) ==
    /\ MayFail
    /\ Active(r)
    /\ Resolve(r, "failed")
    /\ UNCHANGED <<tables, unbumped, msg, locals>>

-----------------------------------------------------------------------------
Handle(r) ==
    \/ CheckPrior(r)
    \/ ReadHorizon(r)
    \/ ReadSlot(r)
    \/ ReadMarkerSlot(r)
    \/ CommitEvent(r)
    \/ CommitDelete(r)
    \/ CommitConflict(r)
    \/ Recheck(r)
    \/ UpsertProfile(r)
    \/ BumpGen(r)

Step(r) == Handle(r) \/ Fail(r)

Next == \E r \in Request : Step(r)

Spec == Init /\ [][Next]_vars

\* A call runs on until it awaits nothing: the runtime resolves each promise.
FairSpec == Spec /\ \A r \in Request : WF_vars(Handle(r))

\* The same handlers when no two calls for one author overlap (a single writer
\* per blog); calls for different authors still interleave and share the rowids.
Alone(r) ==
    \A q \in Request \ {r} : Author[Ev(q)] = Author[Ev(r)] => ~Active(q)

NextIsolated == \E r \in Request : Alone(r) /\ Step(r)

SpecIsolated == Init /\ [][NextIsolated]_vars

-----------------------------------------------------------------------------
(***************************************************************************)
(* Properties.                                                             *)
(***************************************************************************)
Typed ==
    /\ rowid \in [Event -> Nat]
    /\ deleted \subseteq Event
    /\ fts \subseteq Nat
    /\ horizon \in [Address -> Nat \cup {NoHorizon}]
    /\ profile \in [Pubkey -> Event \cup {NoEvent}]
    /\ unbumped \subseteq Pubkey
    /\ msg \in [Request -> Message]
    /\ pc \in [Request -> Steps]
    /\ tombstoned \subseteq Request
    /\ slotRid \in [Request -> Nat]
    /\ marking \subseteq Request
    /\ attempt \in [Request -> 0..1]
    /\ result \in [Request -> Results]

\* Only a kind 0 is on its way to upsertProfile.
OnlyProfiles == \A r \in Request : pc[r] = "profile" => Kind[Ev(r)] = "profile"

\* The variables of mirrorEvent have their types, and the profiles table is
\* written from kind 0 events only.
TypeOK == Typed /\ OnlyProfiles

\* Whatever the interleaving, the search index holds exactly the rowids of the
\* visible posts ("rowid = events.rowid" of mirrorEvent, "Hidden posts leave the
\* search index" of applyDelete), though each batch deletes by a rowid read in
\* an earlier round trip and SQLite hands rowids out again.
FtsCoupled == fts = {rowid[e] : e \in Visible}

\* No interleaving of handlers empties a slot: a stored event leaves the table
\* only in a batch that puts another event, or itself, into the same slot.  It
\* fails if a rowid read by one call could come to name a row of another slot.
SlotsStayFilled ==
    [][\A e \in Event : rowid[e] # 0 =>
          \E f \in Event : rowid'[f] # 0 /\ Slot(f) = Slot(e)]_vars

\* A delete that reported "stored" to its caller has left its horizon on every
\* address it names, on every path to that answer: its own batch, the batch of
\* a twin that won the race, or a marker stored before; and marker rows that
\* are overwritten later never take a horizon back.
DeleteAcknowledged ==
    \A r \in Request :
       result[r] = "stored" /\ Kind[Ev(r)] = "delete" =>
          \A a \in OwnAddresses(Ev(r)) : horizon[a] >= CreatedAt[Ev(r)]

\* A call of the author failed, or was told not to bump (its session bumps).
Excused(p) ==
    \E r \in Request : Author[Ev(r)] = p /\ (result[r] = "failed" \/ ~msg[r].bump)

\* Every call resolves in the end (the retry loop cannot spin), and every committed
\* change of an author is then followed by a write of its cache generation, so no page
\* cached before the change is served on.
CallsResolve ==
    <>[](/\ \A r \in Request : pc[r] = "done"
         /\ \A p \in unbumped : Excused(p))

\* NIP-01: the greater created_at, then the lexicographically lower id.
Beats(f, e) ==
    \/ CreatedAt[f] > CreatedAt[e]
    \/ CreatedAt[f] = CreatedAt[e] /\ IdRank[f] < IdRank[e]

\* Replaceable order (NIP-01, losesToCurrent): the event in a slot is only ever
\* replaced by one that beats it.
NewestWins ==
    [][\A e, f \in Event :
          /\ rowid[e] # 0 /\ rowid'[e] = 0
          /\ rowid'[f] # 0 /\ Slot(f) = Slot(e)
          => Beats(f, e)]_vars

\* NIP-09 horizon: a post is visible only if it is newer than every delete that
\* ever addressed it.
NoResurrection == \A e \in Visible : horizon[Slot(e)] < CreatedAt[e]

\* The outcome depends on which events were accepted, never on the order they
\* arrived in: each slot holds the best event offered to it, and a stored post is
\* hidden exactly when some accepted delete addresses it and is no older than it
\* (posts named by an e tag aside: an e tag leaves no horizon behind).
Offered ==
    {Ev(r) : r \in {q \in Request : \/ pc[q] \in {"profile", "bump"}
                                    \/ result[q] \in {"stored", "stale"}}}

OrderIndependent ==
    /\ \A e \in Offered : \E f \in Holders(Slot(e)) : f = e \/ Beats(f, e)
    /\ \A e \in Stored : e \in Offered
    /\ \A e \in Stored :
          Kind[e] = "post" /\ (\A d \in Offered : e \notin ETags[d]) =>
             (e \in deleted <=> \E d \in Offered : /\ Kind[d] = "delete"
                                                   /\ Slot(e) \in OwnAddresses(d)
                                                   /\ CreatedAt[d] >= CreatedAt[e])

\* Once every call has returned, the profiles row is the stored kind 0.
ProfileMatchesSlot ==
    (\A r \in Request : ~Active(r)) =>
       \A e \in Stored : Kind[e] = "profile" => profile[Author[e]] = e
=============================================================================
