------------------------------- MODULE Refresh -------------------------------
(***************************************************************************)
(* The scheduled refresh of one claimed user (src/src/cron/refresh.ts) over *)
(* the relay pool client (src/src/nostr/relay.ts): page backward through   *)
(* what the relays hold since the watermark users.settings.$.sync.since,   *)
(* mirror it oldest first under a verification cap, bump the generation    *)
(* once, and move the watermark if the window was closed.                  *)
(*                                                                         *)
(* A relay is a set of events and answers a REQ with the newest Limit      *)
(* matches.  mirrorEvent is one step here; module Mirror opens it up.      *)
(* Several refreshes may run at once: a cron tick does not wait for the    *)
(* one before it.                                                          *)
(*                                                                         *)
(* A definition named X_bug is X with a plausible bug, used by no action.  *)
(***************************************************************************)
EXTENDS Integers, FiniteSets

CONSTANTS
    Cron,        \* refreshes of the user that may overlap
    Relay,       \* configured relays and service defaults
    Event,       \* events with the user's pubkey, kinds 0, 5 and 30023
    Genuine,     \* those the user signed; the signature of the rest fails
    At,          \* [Event -> Nat]: created_at
    SlotOf,      \* [Event -> slot]: events of a slot replace each other
    Backlogs,    \* what the relays may hold before the first refresh
    Limit,       \* REFRESH_FETCH_LIMIT
    MaxPages,    \* REFRESH_MAX_PAGES
    VerifyCap,   \* REFRESH_VERIFY_CAP
    Skew,        \* MAX_FUTURE_SKEW_SECONDS
    Start,       \* the clock at the start
    End,         \* bound on the clock
    Delay,       \* seconds a post may take to reach a relay
    MaxFaults    \* bound on D1 and KV calls and relays that fail

ASSUME RefreshAssumption ==
    /\ IsFiniteSet(Event) /\ Genuine \subseteq Event
    /\ At \in [Event -> Nat \ {0}]
    /\ \A e, f \in Event : e # f /\ SlotOf[e] = SlotOf[f] => At[e] # At[f]
    /\ Backlogs \subseteq [Relay -> SUBSET Event]
    /\ {Limit, MaxPages, VerifyCap} \subseteq Nat \ {0}
    /\ {Skew, Start, End, Delay, MaxFaults} \subseteq Nat
    /\ Start <= End

VARIABLES
    now,       \* Date.now() in seconds
    held,      \* [Relay -> SUBSET Event]
    rows,      \* ids in the events table
    since,     \* users.settings.$.sync.since
    run,       \* [Cron -> state of a refresh]
    unbumped,  \* rows stored and not announced by a gen bump
    handled,   \* events mirrorEvent has verified (history)
    dropped,   \* rows whose refresh failed before its bump (history)
    cut,       \* [Cron -> events a relay's limit cut off this page] (history)
    lost,      \* [Cron -> events the run cannot have met] (history)
    skipped,   \* lost ones that the watermark has passed (history)
    faults

history == <<cut, lost, skipped>>

vars == <<now, held, rows, since, run, unbumped, handled, dropped, history, faults>>

NoUntil == 0

Idle == [step |-> "idle", from |-> 0, until |-> NoUntil, page |-> 0,
         asked |-> {}, batch |-> {}, got |-> {}, closed |-> FALSE,
         known |-> {}, horizon |-> 0, credits |-> 0, mark |-> 0,
         fresh |-> {}]

SameSlot(e) == {f \in Event : SlotOf[f] = SlotOf[e]}

\* One event per slot, the newest.
Newest1(S) == {e \in S : \A f \in S \cap SameSlot(e) : At[f] <= At[e]}

\* A user starts with a backlog spread over the relays, which check no
\* signature and no date.
Init ==
    /\ now = Start
    /\ \E backlog \in Backlogs :
          held = [r \in Relay |-> Newest1(backlog[r])]
    /\ rows = {}
    /\ since = 0
    /\ run = [w \in Cron |-> Idle]
    /\ unbumped = {}
    /\ handled = {}
    /\ dropped = {}
    /\ cut = [w \in Cron |-> {}]
    /\ lost = [w \in Cron |-> {}]
    /\ skipped = {}
    /\ faults = 0

-----------------------------------------------------------------------------
(***************************************************************************)
(* collectBacklog and fetchEvents.                                         *)
(***************************************************************************)
Set(w, state) == run' = [run EXCEPT ![w] = state]

\* The row of users is read once, when the tick starts.
Begin(w) ==
    /\ run[w].step = "idle"
    /\ Set(w, [Idle EXCEPT !.step = "paging", !.from = since, !.page = 1,
                           !.asked = Relay])
    /\ UNCHANGED <<now, held, rows, since, unbumped, handled, dropped, history, faults>>

Matching(w, r) ==
    {e \in held[r] : /\ At[e] >= run[w].from
                     /\ run[w].until # NoUntil => At[e] <= run[w].until}

\* What NIP-01 makes of a limit: the newest matches, ties broken at will.
Answers(w, r) ==
    LET M == Matching(w, r) IN
    {S \in SUBSET M :
        /\ Cardinality(S) = IF Cardinality(M) < Limit THEN Cardinality(M)
                                                      ELSE Limit
        /\ \A e \in S, f \in M \ S : At[e] >= At[f]}

Streamed(w, r, S) ==
    Set(w, [run[w] EXCEPT !.asked = @ \ {r}, !.batch = @ \cup S])

\* One relay streams its EVENTs and its EOSE; byId dedupes across relays.
Answer(w, r) ==
    /\ run[w].step = "paging"
    /\ r \in run[w].asked
    /\ \E S \in Answers(w, r) :
          /\ Streamed(w, r, S)
          /\ cut' = [cut EXCEPT ![w] = @ \cup (Matching(w, r) \ S)]
    /\ UNCHANGED <<now, held, rows, since, unbumped, handled, dropped, lost, skipped,
                   faults>>

\* A relay that is dead, closes, or is still streaming at the deadline leaves a
\* part of its answer; fetchEvents does not tell.
BreakOff(w, r) ==
    /\ run[w].step = "paging"
    /\ r \in run[w].asked
    /\ faults < MaxFaults
    /\ faults' = faults + 1
    /\ \E A \in Answers(w, r) : \E S \in (SUBSET A) \ {A} :
          /\ Streamed(w, r, S)
          /\ lost' = [lost EXCEPT ![w] = @ \cup (Matching(w, r) \ S)]
    /\ UNCHANGED <<now, held, rows, since, unbumped, handled, dropped, cut, skipped>>

Oldest(S) == CHOOSE t \in {At[e] : e \in S} : \A e \in S : t <= At[e]

\* Off by one.
ClosesWindow_bug(w) == Cardinality(run[w].batch) <= Limit

\* Fewer events than the limit: no relay cut its answer off.
ClosesWindow(w) == Cardinality(run[w].batch) < Limit

\* Paging goes on as long as it makes progress.
NextPage_bug(w) == run[w].until # NoUntil => Oldest(run[w].batch) < run[w].until

\* A full page goes on from its oldest event, unless that is no progress.
NextPage(w) ==
    /\ run[w].page < MaxPages
    /\ run[w].until # NoUntil => Oldest(run[w].batch) < run[w].until

\* No later page asks for what comes after the oldest event of this one.
Overtaken(w) == {e \in cut[w] : At[e] > Oldest(run[w].batch)}

\* The page after the last relay has answered.  No event at all ends the run.
EndPage(w) ==
    LET R == run[w]
        got == R.got \cup R.batch
    IN
    /\ R.step = "paging"
    /\ R.asked = {}
    /\ cut' = [cut EXCEPT ![w] = {}]
    /\ IF ~ ClosesWindow(w) /\ NextPage(w)
       THEN /\ Set(w, [R EXCEPT !.asked = Relay, !.batch = {}, !.got = got,
                                !.until = Oldest(R.batch), !.page = @ + 1])
            /\ lost' = [lost EXCEPT ![w] = @ \cup Overtaken(w)]
       ELSE IF got = {}
       THEN /\ Set(w, Idle)
            /\ lost' = [lost EXCEPT ![w] = {}]
       ELSE /\ Set(w, [R EXCEPT !.step = "lookup", !.got = got, !.batch = {},
                                !.until = NoUntil, !.page = 0,
                                !.closed = ClosesWindow(w)])
            /\ lost' = [lost EXCEPT ![w] = @ \ got]
    /\ UNCHANGED <<now, held, rows, since, unbumped, handled, dropped, skipped, faults>>

-----------------------------------------------------------------------------
(***************************************************************************)
(* refreshUser.                                                            *)
(***************************************************************************)
\* storedEventIds, once for the whole run.
Lookup(w) ==
    /\ run[w].step = "lookup"
    /\ Set(w, [run[w] EXCEPT !.step = "mirror",
                             !.known = rows \cap run[w].got,
                             !.horizon = now + Skew,
                             !.credits = VerifyCap,
                             !.mark = run[w].from])
    /\ UNCHANGED <<now, held, rows, since, unbumped, handled, dropped, history, faults>>

\* Oldest first; ids break a tie, and a hash may be any order.
Turn(w) == {e \in run[w].got : At[e] = Oldest(run[w].got)}

Later(t, u) == IF t < u THEN u ELSE t

Skipped(R, e) == [R EXCEPT !.got = @ \ {e}]

Advanced(R, e) == [Skipped(R, e) EXCEPT !.mark = Later(@, At[e])]

\* A created_at ahead of the clock costs no credit and moves nothing.
SkipFuture(w) ==
    /\ run[w].step = "mirror"
    /\ \E e \in Turn(w) : /\ At[e] > run[w].horizon
                          /\ Set(w, Skipped(run[w], e))
    /\ UNCHANGED <<now, held, rows, since, unbumped, handled, dropped, history, faults>>

\* Verified when it was stored.
PassStored(w) ==
    /\ run[w].step = "mirror"
    /\ \E e \in Turn(w) : /\ At[e] <= run[w].horizon
                          /\ e \in run[w].known
                          /\ Set(w, Advanced(run[w], e))
    /\ UNCHANGED <<now, held, rows, since, unbumped, handled, dropped, history, faults>>

Superseded(e) == \E f \in rows \cap SameSlot(e) : At[f] >= At[e]

\* mirrorEvent of a genuine event.
Store(e) == rows' = IF Superseded(e) THEN rows
                                     ELSE (rows \ SameSlot(e)) \cup {e}

\* A forgery moves the watermark.
Refused_bug(R, e) == Advanced(R, e)

\* A forgery ends the run.
Refused_bug2(R, e) == [R EXCEPT !.got = {}]

\* "invalid": the watermark stays.
Refused(R, e) == Skipped(R, e)

\* mirrorEvent with bumpGen false, for a credit; "stored" if the row is there after.
MirrorNext(w) ==
    /\ run[w].step = "mirror"
    /\ run[w].credits > 0
    /\ \E e \in Turn(w) :
          LET R == [run[w] EXCEPT !.credits = @ - 1] IN
          /\ At[e] <= run[w].horizon
          /\ e \notin run[w].known
          /\ \/ /\ e \notin Genuine
                /\ Set(w, Refused(R, e))
                /\ UNCHANGED <<rows, unbumped, handled>>
             \/ /\ e \in Genuine
                /\ Store(e)
                /\ handled' = handled \cup {e}
                /\ unbumped' = unbumped \cup (rows' \ rows)
                /\ Set(w, [Advanced(R, e) EXCEPT !.fresh = @ \cup ({e} \cap rows')])
    /\ UNCHANGED <<now, held, since, dropped, history, faults>>

\* Nothing is left, or the cap is reached and the next event needs a credit.
LoopEnds(w) ==
    \/ run[w].got = {}
    \/ /\ run[w].credits = 0
       /\ \E e \in Turn(w) : /\ At[e] <= run[w].horizon
                             /\ e \notin run[w].known

\* storedAny.
AfterLoop(w) == IF run[w].fresh = {} THEN "write" ELSE "bump"

EndLoop(w) ==
    /\ run[w].step = "mirror"
    /\ LoopEnds(w)
    /\ Set(w, [run[w] EXCEPT !.got = {}, !.known = {}, !.credits = 0,
                             !.step = AfterLoop(w)])
    /\ UNCHANGED <<now, held, rows, since, unbumped, handled, dropped, history, faults>>

\* One bump for the run; it announces every row stored so far.
Bump(w) ==
    /\ run[w].step = "bump"
    /\ unbumped' = {}
    /\ Set(w, [run[w] EXCEPT !.step = "write", !.fresh = {}])
    /\ UNCHANGED <<now, held, rows, since, handled, dropped, history, faults>>

Moves(w) == run[w].closed

Clamped(w) == IF run[w].mark < run[w].horizon THEN run[w].mark
                                              ELSE run[w].horizon

WriteSince(w) ==
    /\ run[w].step = "write"
    /\ IF Moves(w) /\ Clamped(w) # run[w].from
       THEN /\ since' = Clamped(w)
            /\ skipped' = skipped \cup {e \in lost[w] : At[e] < Clamped(w)}
       ELSE UNCHANGED <<since, skipped>>
    /\ Set(w, Idle)
    /\ lost' = [lost EXCEPT ![w] = {}]
    /\ UNCHANGED <<now, held, rows, unbumped, handled, dropped, cut, faults>>

\* D1 or KV rejects: runRefresh logs it and goes on to the next user.
Fail(w) ==
    /\ run[w].step \in {"lookup", "mirror", "bump", "write"}
    /\ faults < MaxFaults
    /\ faults' = faults + 1
    /\ dropped' = dropped \cup (run[w].fresh \cap unbumped)
    /\ Set(w, Idle)
    /\ lost' = [lost EXCEPT ![w] = {}]
    /\ UNCHANGED <<now, held, rows, since, unbumped, handled, cut, skipped>>

RunStep(w) ==
    \/ Begin(w)
    \/ \E r \in Relay : Answer(w, r)
    \/ EndPage(w)
    \/ Lookup(w)
    \/ SkipFuture(w)
    \/ PassStored(w)
    \/ MirrorNext(w)
    \/ EndLoop(w)
    \/ Bump(w)
    \/ WriteSince(w)

-----------------------------------------------------------------------------
(***************************************************************************)
(* The user, other clients, and the clock.                                 *)
(***************************************************************************)
Tick ==
    /\ now < End
    /\ now' = now + 1
    /\ UNCHANGED <<held, rows, since, run, unbumped, handled, dropped, history, faults>>

\* A post reaches relays, while runs are under way or after the watermark passed it.
Publish(e) ==
    /\ e \in Genuine
    /\ now - Delay <= At[e] /\ At[e] <= now
    /\ \E S \in SUBSET Relay :
          /\ S # {}
          /\ held' = [r \in Relay |-> IF r \in S THEN Newest1(held[r] \cup {e})
                                                 ELSE held[r]]
          /\ held' # held
    /\ lost' = [w \in Cron |->
                  IF run[w].step = "idle" \/ e \in run[w].got \cup run[w].batch
                  THEN lost[w] ELSE lost[w] \cup {e}]
    /\ skipped' = IF At[e] < since THEN skipped \cup {e} ELSE skipped
    /\ UNCHANGED <<now, rows, since, run, unbumped, handled, dropped, cut, faults>>

\* The editor or the first-party relay mirrors the event and bumps.
MirrorElsewhere(e) ==
    /\ e \in Genuine \ rows
    /\ At[e] <= now
    /\ Store(e)
    /\ handled' = handled \cup {e}
    /\ unbumped' = {}
    /\ UNCHANGED <<now, held, since, run, dropped, history, faults>>

Next ==
    \/ \E w \in Cron : RunStep(w) \/ Fail(w) \/ \E r \in Relay : BreakOff(w, r)
    \/ Tick
    \/ \E e \in Event : Publish(e) \/ MirrorElsewhere(e)

Spec == Init /\ [][Next]_vars

\* The cron keeps firing, relays answer or close, and the runtime settles
\* every await; faults are finite.
FairSpec == Spec /\ \A w \in Cron : WF_vars(RunStep(w))

-----------------------------------------------------------------------------
(***************************************************************************)
(* Properties.                                                             *)
(***************************************************************************)
RunState ==
    [step : {"idle", "paging", "lookup", "mirror", "bump", "write"},
     from : Nat, until : Nat, page : 0..MaxPages, asked : SUBSET Relay,
     batch : SUBSET Event, got : SUBSET Event, closed : BOOLEAN,
     known : SUBSET Event, horizon : Nat, credits : 0..VerifyCap,
     mark : Nat, fresh : SUBSET Event]

StateOK ==
    /\ now \in Start..End
    /\ held \in [Relay -> SUBSET Event]
    /\ rows \subseteq Genuine
    /\ since \in Nat
    /\ run \in [Cron -> RunState]
    /\ unbumped \subseteq Genuine
    /\ handled \subseteq Genuine
    /\ dropped \subseteq Genuine
    /\ faults \in 0..MaxFaults

HistoryOK ==
    /\ cut \in [Cron -> SUBSET Event]
    /\ lost \in [Cron -> SUBSET Event]
    /\ skipped \subseteq Event

\* The shape of the state: run counters stay within REFRESH_MAX_PAGES and
\* REFRESH_VERIFY_CAP (refresh.ts:36, 27) and stored rows are genuine.
TypeOK == StateOK /\ HistoryOK

\* e needs no refresh any more: it, or a newer version, has been mirrored.
Settled(e) == \E f \in handled \cap SameSlot(e) : At[f] >= At[e]

OnRelays == UNION {held[r] : r \in Relay}

\* A later `since` filter passes over what is below the watermark for good.  Of the
\* posts the relays hold, it passes only those that no run could have met: a relay
\* broke off before it sent them; its limit cut them off and another relay's events
\* made the next page start further back; or they reached the relays during the
\* run, or dated below the watermark.  Never one that the cap left for the next tick,
\* that MaxPages left unasked, that a failed run or an overlapping one had in hand
\* (refresh.ts:103-113, 155-160, 222-227).
NothingElseStranded ==
    \A e \in Genuine \cap OnRelays : At[e] < since => Settled(e) \/ e \in skipped

\* The watermark never passes a post the relays hold and nbread has not
\* mirrored: a later `since` filter would skip it for good (refresh.ts:13-16).
NothingStranded ==
    \A e \in Genuine \cap OnRelays : At[e] < since => Settled(e)

\* "Only VERIFIED events advance it" (refresh.ts:10-12), and none that is ahead of
\* the clock by more than the skew: a watermark is the time of an event
\* mirrorEvent has verified, whichever refresh wrote it.
WatermarkVerified ==
    /\ since <= now + Skew
    /\ since # 0 => \E e \in handled : At[e] = since

\* What MaxPages pages can hold and still end in one that is not full, when no
\* two events share a second: every page but the first repeats its boundary.  What
\* moves no watermark must not fill a relay's answer or take every credit.
WorkFits ==
    /\ Cardinality({e \in OnRelays : At[e] >= since}) <= MaxPages * (Limit - 1)
    /\ Cardinality({e \in OnRelays : e \notin Genuine \/ At[e] > now + Skew}) < Limit
    /\ Cardinality(OnRelays \ Genuine) < VerifyCap

\* Cap and watermark together work off a backlog that fits the pages: in the end
\* every genuine post a relay holds is mirrored or superseded
\* (refresh.ts:155-160, "the rest is refetched next tick"), or the watermark has
\* passed it for a reason NothingElseStranded names; and what was mirrored with
\* bumpGen false is announced by the bump at the end of its run, unless that
\* run failed in between (refresh.ts:210-216).
BacklogDrains ==
    <>[](/\ WorkFits => \A e \in Genuine \cap OnRelays :
                          At[e] <= now => Settled(e) \/ e \in skipped
         /\ unbumped \subseteq dropped)
=============================================================================
