----------------------------- MODULE RefreshProofs ----------------------------
(***************************************************************************)
(* Theorems about Refresh, for any number of relays, events, pages and     *)
(* overlapping refreshes, and whatever relays leave out of their answers.  *)
(* A watermark is verified not only once it is written: so is the one a    *)
(* refresh carries through its loop and the one it started from, which an  *)
(* overlapping refresh may have overtaken.                                 *)
(***************************************************************************)
EXTENDS Refresh, FiniteSetTheorems, WellFoundedInduction, TLAPS

\* t is the time of an event in h.
Verified(t, h) == t = 0 \/ \E e \in h : At[e] = t

\* What is true of a refresh when h has been verified and the clock shows n.
Sound(R, h, n) ==
    /\ R \in RunState
    /\ R.known \subseteq h
    /\ Verified(R.from, h)
    /\ R.from <= n + Skew
    /\ R.step \in {"mirror", "bump", "write"} =>
          /\ Verified(R.mark, h)
          /\ R.mark <= R.horizon
          /\ R.horizon <= n + Skew

RunsSound == \A w \in Cron : Sound(run[w], handled, now)

IInv ==
    /\ StateOK
    /\ rows \subseteq handled
    /\ WatermarkVerified
    /\ RunsSound

-----------------------------------------------------------------------------
\* Oldest is the time of an event.
LEMMA OldestOf ==
  ASSUME NEW S \in SUBSET Event, S # {}
  PROVE  /\ Oldest(S) \in Nat
         /\ \E e \in S : At[e] = Oldest(S)
  <1> DEFINE T == {At[e] : e \in S}
  <1>1. T \subseteq Nat /\ T # {}
    BY RefreshAssumption
  <1>2. \E t \in T : \A u \in T : t <= u
    <2> DEFINE Less == OpToRel(<, Nat)
    <2>1. IsWellFoundedOn(Less, Nat)
      BY NatLessThanWellFounded
    <2>2. \E t \in T : \A u \in T : ~ (<<u, t>> \in Less)
      <3> HIDE DEF Less, T
      <3>1. QED
        BY <1>1, <2>1, WFMin
    <2>3. \A t, u \in T : u < t => <<u, t>> \in Less
      BY <1>1 DEF OpToRel
    <2> HIDE DEF Less, T
    <2>4. PICK t \in T : \A u \in T : ~ (<<u, t>> \in Less)
      BY <2>2
    <2>5. \A u \in T : ~ (u < t)
      BY <2>3, <2>4
    <2>6. \A u \in T : t <= u
      BY <1>1, <2>5
    <2>7. QED
      BY <2>6
  <1>3. \E t \in T : \A e \in S : t <= At[e]
    BY <1>2
  <1>4. Oldest(S) \in T
    BY <1>3 DEF Oldest
  <1>5. QED
    BY <1>1, <1>4

\* What was sound stays so as more is verified and the clock moves on.
LEMMA SoundGrows ==
  ASSUME NEW R, NEW h, NEW g, h \subseteq g,
         NEW n \in Nat, NEW m \in Nat, n <= m,
         Sound(R, h, n)
  PROVE  Sound(R, g, m)
  <1>1. R.from \in Nat /\ R.horizon \in Nat /\ Skew \in Nat
    BY RefreshAssumption DEF Sound, RunState
  <1>2. QED
    BY <1>1 DEF Sound, Verified

\* An idle refresh is sound.
LEMMA IdleSound ==
  ASSUME NEW h, NEW n \in Nat
  PROVE  Sound(Idle, h, n)
  BY RefreshAssumption DEF Sound, Idle, RunState, NoUntil, Verified

\* A step that moves one refresh to a sound state keeps them all sound.
LEMMA OneRunMoves ==
  ASSUME IInv, now' = now, handled \subseteq handled',
         NEW w \in Cron, NEW S, Set(w, S), Sound(S, handled', now)
  PROVE  RunsSound' /\ run' \in [Cron -> RunState]
  <1>1. now \in Nat
    BY RefreshAssumption DEF IInv, StateOK
  <1>2. ASSUME NEW v \in Cron PROVE Sound(run'[v], handled', now)
    <2>1. CASE v = w
      BY <2>1 DEF IInv, StateOK, Set
    <2>2. CASE v # w
      <3>1. run'[v] = run[v]
        BY <2>2 DEF IInv, StateOK, Set
      <3>2. QED
        BY <1>1, <3>1, SoundGrows DEF IInv, RunsSound
    <2>3. QED
      BY <2>1, <2>2
  <1>3. QED
    BY <1>2 DEF RunsSound, Set, IInv, StateOK, Sound

-----------------------------------------------------------------------------
\* The steps of a refresh that leave the store alone.
Quiet ==
    /\ UNCHANGED <<now, held, rows, since, unbumped, handled, dropped>>
    /\ faults' = faults \/ (faults < MaxFaults /\ faults' = faults + 1)

LEMMA QuietMove ==
  ASSUME IInv, Quiet, NEW w \in Cron, NEW S, Set(w, S), Sound(S, handled, now)
  PROVE  IInv'
  <1>1. RunsSound' /\ run' \in [Cron -> RunState]
    BY OneRunMoves DEF Quiet
  <1>2. StateOK' /\ rows' \subseteq handled'
    <2>1. faults' \in 0..MaxFaults
      BY RefreshAssumption DEF IInv, StateOK, Quiet
    <2>2. QED
      BY <1>1, <2>1 DEF IInv, StateOK, Quiet
  <1>3. WatermarkVerified'
    BY DEF IInv, WatermarkVerified, Quiet
  <1>4. QED
    BY <1>1, <1>2, <1>3 DEF IInv

LEMMA BeginStep ==
  ASSUME IInv, NEW w \in Cron, Begin(w)
  PROVE  IInv'
  <1> DEFINE S == [Idle EXCEPT !.step = "paging", !.from = since, !.page = 1,
                               !.asked = Relay]
  <1>1. S.from = since /\ S.known = {} /\ S.step = "paging"
    BY DEF Idle
  <1>2. S \in RunState
    <2>1. Idle \in RunState
      BY IdleSound, RefreshAssumption DEF IInv, StateOK, Sound
    <2>2. since \in Nat /\ 1 \in 0..MaxPages /\ 0 \in 0..VerifyCap
      BY RefreshAssumption DEF IInv, StateOK
    <2>3. QED
      BY <2>1, <2>2 DEF RunState
  <1>3. Sound(S, handled, now)
    BY <1>1, <1>2 DEF IInv, WatermarkVerified, Sound, Verified
  <1>4. QED
    BY <1>3, QuietMove DEF Begin, Quiet

LEMMA AnswerStep ==
  ASSUME IInv, NEW w \in Cron, NEW r \in Relay, Answer(w, r) \/ BreakOff(w, r)
  PROVE  IInv'
  <1>1. Matching(w, r) \subseteq Event
    BY DEF IInv, StateOK, Matching
  <1>2. PICK A \in SUBSET Event : Streamed(w, r, A)
    BY <1>1 DEF Answer, BreakOff, Answers
  <1> DEFINE S == [run[w] EXCEPT !.asked = @ \ {r}, !.batch = @ \cup A]
  <1>3. Sound(run[w], handled, now) /\ run[w].step = "paging"
    BY DEF IInv, RunsSound, Answer, BreakOff
  <1>4. Sound(S, handled, now)
    BY <1>3 DEF Sound, RunState
  <1>5. Set(w, S) /\ Quiet
    BY <1>2 DEF Streamed, Answer, BreakOff, Quiet
  <1> HIDE DEF S
  <1>6. QED
    BY <1>4, <1>5, QuietMove

LEMMA EndPageStep ==
  ASSUME IInv, NEW w \in Cron, EndPage(w)
  PROVE  IInv'
  <1> DEFINE R == run[w]
             got == R.got \cup R.batch
             N == [R EXCEPT !.asked = Relay, !.batch = {}, !.got = got,
                            !.until = Oldest(R.batch), !.page = @ + 1]
  <1>1. Sound(R, handled, now) /\ R \in RunState
    BY DEF IInv, RunsSound, Sound
  <1>2. got \in SUBSET Event
    BY <1>1 DEF RunState
  <1>3. CASE ~ ClosesWindow(w) /\ NextPage(w)
    <2>1. R.batch # {}
      <3>1. Limit \in Nat /\ 0 < Limit
        BY RefreshAssumption
      <3>2. QED
        BY <1>3, <3>1, FS_EmptySet DEF ClosesWindow
    <2>2. Oldest(R.batch) \in Nat
      BY <1>1, <2>1, OldestOf DEF RunState
    <2>3. R.page + 1 \in 0..MaxPages
      BY <1>1, <1>3, RefreshAssumption DEF NextPage, RunState
    <2>4. N \in RunState
      BY <1>1, <1>2, <2>2, <2>3 DEF RunState
    <2>5. Sound(N, handled, now)
      BY <1>1, <2>4 DEF Sound, EndPage, RunState
    <2>6. QED
      BY <1>3, <2>5, QuietMove DEF EndPage, Quiet
  <1>4. CASE ~ (~ ClosesWindow(w) /\ NextPage(w)) /\ got = {}
    <2>1. Sound(Idle, handled, now)
      BY IdleSound, RefreshAssumption DEF IInv, StateOK
    <2>2. QED
      BY <1>4, <2>1, QuietMove DEF EndPage, Quiet
  <1>5. CASE ~ (~ ClosesWindow(w) /\ NextPage(w)) /\ got # {}
    <2>1. PICK c \in BOOLEAN : c = ClosesWindow(w)
      <3>1. ClosesWindow(w) \in BOOLEAN
        BY DEF ClosesWindow
      <3>2. QED
        BY <3>1, Zenon
    <2> DEFINE L == [R EXCEPT !.step = "lookup", !.got = got, !.batch = {},
                              !.until = NoUntil, !.page = 0, !.closed = c]
    <2>2. L \in RunState
      <3>1. 0 \in 0..MaxPages
        BY RefreshAssumption
      <3>2. QED
        BY <1>1, <1>2, <2>1, <3>1 DEF RunState, NoUntil
    <2>3. Sound(L, handled, now)
      BY <1>1, <2>2 DEF Sound, RunState
    <2>4. Set(w, L)
      BY <1>5, <2>1 DEF EndPage
    <2>5. QED
      BY <2>3, <2>4, QuietMove DEF EndPage, Quiet
  <1>6. QED
    BY <1>3, <1>4, <1>5

-----------------------------------------------------------------------------
\* The steps of refreshUser.
LEMMA LookupStep ==
  ASSUME IInv, NEW w \in Cron, Lookup(w)
  PROVE  IInv'
  <1> DEFINE S == [run[w] EXCEPT !.step = "mirror",
                                 !.known = rows \cap run[w].got,
                                 !.horizon = now + Skew,
                                 !.credits = VerifyCap,
                                 !.mark = run[w].from]
  <1>1. Sound(run[w], handled, now)
    BY DEF IInv, RunsSound
  <1>2. now + Skew \in Nat /\ VerifyCap \in 0..VerifyCap
    BY RefreshAssumption DEF IInv, StateOK
  <1>3. S \in RunState
    BY <1>1, <1>2 DEF Sound, RunState
  <1>4. /\ S.known \subseteq handled
        /\ S.mark = run[w].from
        /\ S.from = run[w].from
        /\ S.horizon = now + Skew
    BY <1>1 DEF Sound, RunState, IInv
  <1>5. Sound(S, handled, now)
    BY <1>1, <1>2, <1>3, <1>4 DEF Sound
  <1>6. QED
    BY <1>5, QuietMove DEF Lookup, Quiet

LEMMA SkipFutureStep ==
  ASSUME IInv, NEW w \in Cron, SkipFuture(w)
  PROVE  IInv'
  <1>1. PICK e \in Turn(w) : Set(w, Skipped(run[w], e))
    BY DEF SkipFuture
  <1>2. Sound(run[w], handled, now)
    BY DEF IInv, RunsSound
  <1>3. Sound(Skipped(run[w], e), handled, now)
    BY <1>2 DEF Sound, RunState, Skipped
  <1>4. QED
    BY <1>1, <1>3, QuietMove DEF SkipFuture, Quiet

\* The loop may move its watermark to a verified event within its horizon.
LEMMA AdvancedSound ==
  ASSUME NEW R, NEW h, NEW n \in Nat, NEW e \in h, e \in Event,
         Sound(R, h, n), R.step = "mirror", At[e] <= R.horizon
  PROVE  Sound(Advanced(R, e), h, n)
  <1> DEFINE S == Advanced(R, e)
  <1>1. R \in RunState /\ At[e] \in Nat
    BY RefreshAssumption DEF Sound
  <1>2. Later(R.mark, At[e]) \in {R.mark, At[e]}
    BY DEF Later
  <1>3. /\ S.mark = Later(R.mark, At[e])
        /\ S.known = R.known
        /\ S.from = R.from
        /\ S.horizon = R.horizon
    BY <1>1 DEF Advanced, Skipped, RunState
  <1>4. S \in RunState
    BY <1>1, <1>2 DEF Advanced, Skipped, RunState
  <1>5. Verified(S.mark, h) /\ S.mark <= S.horizon
    BY <1>2, <1>3 DEF Sound, Verified
  <1>6. QED
    BY <1>3, <1>4, <1>5 DEF Sound

LEMMA PassStoredStep ==
  ASSUME IInv, NEW w \in Cron, PassStored(w)
  PROVE  IInv'
  <1>1. PICK e \in Turn(w) : /\ At[e] <= run[w].horizon
                             /\ e \in run[w].known
                             /\ Set(w, Advanced(run[w], e))
    BY DEF PassStored
  <1>2. Sound(run[w], handled, now) /\ now \in Nat
    BY RefreshAssumption DEF IInv, RunsSound, StateOK
  <1>3. e \in handled /\ e \in Event
    BY <1>1, <1>2 DEF Sound, RunState
  <1>4. Sound(Advanced(run[w], e), handled, now)
    BY <1>1, <1>2, <1>3, AdvancedSound DEF PassStored
  <1>5. QED
    BY <1>1, <1>4, QuietMove DEF PassStored, Quiet

LEMMA EndLoopStep ==
  ASSUME IInv, NEW w \in Cron, EndLoop(w)
  PROVE  IInv'
  <1> DEFINE S == [run[w] EXCEPT !.got = {}, !.known = {}, !.credits = 0,
                                 !.step = AfterLoop(w)]
  <1>1. Sound(run[w], handled, now)
    BY DEF IInv, RunsSound
  <1>2. AfterLoop(w) \in {"bump", "write"} /\ 0 \in 0..VerifyCap
    BY RefreshAssumption DEF AfterLoop
  <1>3. S \in RunState
    BY <1>1, <1>2 DEF Sound, RunState
  <1>4. Sound(S, handled, now)
    BY <1>1, <1>2, <1>3 DEF Sound, RunState, EndLoop
  <1>5. QED
    BY <1>4, QuietMove DEF EndLoop, Quiet

-----------------------------------------------------------------------------
\* Storing an event keeps the rows verified.
LEMMA StoreKeeps ==
  ASSUME IInv, NEW e \in Genuine, Store(e), handled' = handled \cup {e}
  PROVE  /\ rows' \subseteq Genuine
         /\ rows' \subseteq handled'
         /\ handled' \subseteq Genuine
  BY DEF IInv, StateOK, Store

\* A bound over the clock holds when the clock moves on.
LEMMA ClockMoves ==
  ASSUME NEW n \in Nat, NEW m \in Nat, NEW j \in Nat, NEW k \in Nat,
         n <= m, j <= n + k
  PROVE  j <= m + k
  OBVIOUS

\* What verified the watermark verifies it after a step that adds to handled.
LEMMA WatermarkKept ==
  ASSUME IInv, handled \subseteq handled', since' = since,
         now' \in Nat, now <= now'
  PROVE  WatermarkVerified'
  <1>1. since \in Nat /\ now \in Nat /\ Skew \in Nat
    BY RefreshAssumption DEF IInv, StateOK
  <1>2. since' <= now' + Skew
    <2>1. since <= now + Skew
      BY DEF IInv, WatermarkVerified
    <2>2. now <= now' /\ now' \in Nat
      OBVIOUS
    <2>3. since <= now' + Skew
      BY <1>1, <2>1, <2>2, ClockMoves
    <2>4. QED
      BY <2>3
  <1>3. since # 0 => \E e \in handled' : At[e] = since
    BY DEF IInv, WatermarkVerified
  <1>4. QED
    BY <1>2, <1>3 DEF WatermarkVerified

LEMMA MirrorNextStep ==
  ASSUME IInv, NEW w \in Cron, MirrorNext(w)
  PROVE  IInv'
  <1> DEFINE R == [run[w] EXCEPT !.credits = @ - 1]
  <1>1. PICK e \in Turn(w) :
          /\ At[e] <= run[w].horizon
          /\ e \notin run[w].known
          /\ \/ /\ e \notin Genuine
                /\ Set(w, Refused(R, e))
                /\ UNCHANGED <<rows, unbumped, handled>>
             \/ /\ e \in Genuine
                /\ Store(e)
                /\ handled' = handled \cup {e}
                /\ unbumped' = unbumped \cup (rows' \ rows)
                /\ Set(w, [Advanced(R, e) EXCEPT !.fresh = @ \cup ({e} \cap rows')])
    BY DEF MirrorNext
  <1>2. Sound(run[w], handled, now) /\ now \in Nat /\ run[w] \in RunState
    BY RefreshAssumption DEF IInv, RunsSound, StateOK, Sound
  <1>3. e \in Event
    BY <1>2 DEF Turn, RunState
  <1>4. run[w].credits - 1 \in 0..VerifyCap
    BY <1>2, RefreshAssumption DEF MirrorNext, RunState
  <1>5. R \in RunState
    BY <1>2, <1>4 DEF RunState
  <1>6. Sound(R, handled, now) /\ R.step = "mirror" /\ R.horizon = run[w].horizon
    BY <1>2, <1>5 DEF Sound, RunState, MirrorNext
  <1>7. CASE e \notin Genuine
    <2>1. Sound(Refused(R, e), handled, now)
      BY <1>6 DEF Sound, RunState, Refused, Skipped
    <2>2. Set(w, Refused(R, e)) /\ Quiet
      BY <1>1, <1>7 DEF MirrorNext, Quiet
    <2>3. QED
      BY <2>1, <2>2, QuietMove
  <1>8. CASE e \in Genuine
    <2> DEFINE A == Advanced(R, e)
               S == [A EXCEPT !.fresh = @ \cup ({e} \cap rows')]
    <2>1. /\ Store(e)
          /\ handled' = handled \cup {e}
          /\ unbumped' = unbumped \cup (rows' \ rows)
          /\ Set(w, S)
      BY <1>1, <1>8
    <2>2. /\ rows' \subseteq Genuine
          /\ rows' \subseteq handled'
          /\ handled' \subseteq Genuine
      BY <1>8, <2>1, StoreKeeps
    <2>3. Sound(R, handled', now)
      BY <1>2, <1>6, <2>1, SoundGrows
    <2>4. Sound(A, handled', now)
      BY <1>1, <1>2, <1>3, <1>6, <2>1, <2>3, AdvancedSound
    <2>5. Sound(S, handled', now)
      <3>1. {e} \cap rows' \subseteq Event
        BY <1>3
      <3> HIDE DEF A
      <3>2. QED
        BY <2>4, <3>1 DEF Sound, RunState
    <2>6. RunsSound' /\ run' \in [Cron -> RunState]
      <3>1. now' = now /\ handled \subseteq handled'
        BY <2>1 DEF MirrorNext
      <3> HIDE DEF S
      <3>2. QED
        BY <2>1, <2>5, <3>1, OneRunMoves
    <2>7. StateOK'
      BY <2>1, <2>2, <2>6 DEF IInv, StateOK, MirrorNext
    <2>8. WatermarkVerified'
      BY <1>2, <2>1, WatermarkKept DEF MirrorNext
    <2>9. QED
      BY <2>2, <2>6, <2>7, <2>8 DEF IInv
  <1>9. QED
    BY <1>7, <1>8

LEMMA BumpStep ==
  ASSUME IInv, NEW w \in Cron, Bump(w)
  PROVE  IInv'
  <1> DEFINE S == [run[w] EXCEPT !.step = "write", !.fresh = {}]
  <1>1. Sound(run[w], handled, now) /\ now \in Nat
    BY RefreshAssumption DEF IInv, RunsSound, StateOK
  <1>2. Sound(S, handled', now)
    BY <1>1 DEF Sound, RunState, Bump
  <1>3. RunsSound' /\ run' \in [Cron -> RunState]
    BY <1>2, OneRunMoves DEF Bump
  <1>4. StateOK' /\ rows' \subseteq handled'
    BY <1>3 DEF IInv, StateOK, Bump
  <1>5. WatermarkVerified'
    BY <1>1, WatermarkKept DEF Bump
  <1>6. QED
    BY <1>3, <1>4, <1>5 DEF IInv

\* Leaving a refresh, done or failed, keeps the rest sound.
LEMMA IdleKeeps ==
  ASSUME IInv, NEW w \in Cron, Set(w, Idle), now' = now, handled' = handled
  PROVE  RunsSound' /\ run' \in [Cron -> RunState]
  <1>1. Sound(Idle, handled', now)
    BY IdleSound, RefreshAssumption DEF IInv, StateOK
  <1>2. QED
    BY <1>1, OneRunMoves

LEMMA WriteSinceStep ==
  ASSUME IInv, NEW w \in Cron, WriteSince(w)
  PROVE  IInv'
  <1>1. Sound(run[w], handled, now) /\ now \in Nat /\ Skew \in Nat
    BY RefreshAssumption DEF IInv, RunsSound, StateOK
  <1>2. run[w].mark \in Nat /\ run[w].horizon \in Nat
    BY <1>1 DEF Sound, RunState
  <1>3. /\ Verified(run[w].mark, handled)
        /\ run[w].mark <= run[w].horizon
        /\ run[w].horizon <= now + Skew
    BY <1>1 DEF Sound, WriteSince
  <1>4. Clamped(w) = run[w].mark
    BY <1>2, <1>3 DEF Clamped
  <1>5. since' = since \/ since' = run[w].mark
    BY <1>4 DEF WriteSince
  <1>6. since' \in Nat /\ WatermarkVerified'
    <2>1. CASE since' = since
      BY <2>1, <1>1, WatermarkKept DEF IInv, StateOK, WriteSince
    <2>2. CASE since' = run[w].mark
      BY <2>2, <1>1, <1>2, <1>3 DEF Verified, WatermarkVerified, WriteSince
    <2>3. QED
      BY <1>5, <2>1, <2>2
  <1>7. RunsSound' /\ run' \in [Cron -> RunState]
    BY IdleKeeps DEF WriteSince
  <1>8. QED
    BY <1>6, <1>7 DEF IInv, StateOK, WriteSince

LEMMA FailStep ==
  ASSUME IInv, NEW w \in Cron, Fail(w)
  PROVE  IInv'
  <1>1. RunsSound' /\ run' \in [Cron -> RunState]
    BY IdleKeeps DEF Fail
  <1>2. WatermarkVerified'
    BY WatermarkKept, RefreshAssumption DEF IInv, StateOK, Fail
  <1>3. faults' \in 0..MaxFaults
    BY RefreshAssumption DEF IInv, StateOK, Fail
  <1>4. QED
    BY <1>1, <1>2, <1>3 DEF IInv, StateOK, Fail

-----------------------------------------------------------------------------
\* Steps of the rest of the world, which leave every refresh where it is.
LEMMA OthersKeep ==
  ASSUME IInv, run' = run, handled \subseteq handled', since' = since,
         now' \in Nat, now <= now'
  PROVE  RunsSound' /\ WatermarkVerified'
  <1>1. now \in Nat
    BY RefreshAssumption DEF IInv, StateOK
  <1>2. \A w \in Cron : Sound(run[w], handled', now')
    BY <1>1, SoundGrows DEF IInv, RunsSound
  <1>3. QED
    BY <1>2, WatermarkKept DEF RunsSound

LEMMA TickStep == IInv /\ Tick => IInv'
  <1> SUFFICES ASSUME IInv, Tick PROVE IInv'
    OBVIOUS
  <1>1. now' \in Start..End /\ now <= now' /\ now' \in Nat
    BY RefreshAssumption DEF IInv, StateOK, Tick
  <1>2. RunsSound' /\ WatermarkVerified'
    BY <1>1, OthersKeep DEF Tick
  <1>3. QED
    BY <1>1, <1>2 DEF IInv, StateOK, Tick

LEMMA PublishStep ==
  ASSUME IInv, NEW e \in Event, Publish(e)
  PROVE  IInv'
  <1>1. now' = now /\ now \in Nat
    BY RefreshAssumption DEF IInv, StateOK, Publish
  <1>2. RunsSound' /\ WatermarkVerified'
    BY <1>1, OthersKeep DEF Publish
  <1>3. held' \in [Relay -> SUBSET Event]
    BY DEF IInv, StateOK, Publish, Newest1
  <1>4. QED
    BY <1>2, <1>3 DEF IInv, StateOK, Publish

LEMMA MirrorElsewhereStep ==
  ASSUME IInv, NEW e \in Event, MirrorElsewhere(e)
  PROVE  IInv'
  <1>1. now' = now /\ now \in Nat
    BY RefreshAssumption DEF IInv, StateOK, MirrorElsewhere
  <1>2. RunsSound' /\ WatermarkVerified'
    BY <1>1, OthersKeep DEF MirrorElsewhere
  <1>3. /\ rows' \subseteq Genuine
        /\ rows' \subseteq handled'
        /\ handled' \subseteq Genuine
    BY StoreKeeps DEF MirrorElsewhere
  <1>4. QED
    BY <1>2, <1>3 DEF IInv, StateOK, MirrorElsewhere

LEMMA InvInit == Init => IInv
  <1> SUFFICES ASSUME Init PROVE IInv
    OBVIOUS
  <1>1. Sound(Idle, handled, now) /\ Idle \in RunState
    BY IdleSound, RefreshAssumption DEF Init, Sound
  <1>2. RunsSound
    BY <1>1 DEF Init, RunsSound
  <1>3. held \in [Relay -> SUBSET Event]
    BY RefreshAssumption DEF Init, Newest1
  <1>4. StateOK
    BY <1>1, <1>3, RefreshAssumption DEF Init, StateOK
  <1>5. WatermarkVerified
    BY RefreshAssumption DEF Init, WatermarkVerified
  <1>6. QED
    BY <1>2, <1>4, <1>5 DEF IInv, Init

\* The inductive invariant holds of every behaviour.
THEOREM RefreshInvariance == Spec => []IInv
  <1>1. IInv /\ [Next]_vars => IInv'
    <2> SUFFICES ASSUME IInv, [Next]_vars PROVE IInv'
      OBVIOUS
    <2>1. ASSUME NEW w \in Cron, RunStep(w) PROVE IInv'
      BY <2>1, BeginStep, AnswerStep, EndPageStep, LookupStep, SkipFutureStep,
         PassStoredStep, MirrorNextStep, EndLoopStep, BumpStep, WriteSinceStep
         DEF RunStep
    <2>2. ASSUME NEW w \in Cron, Fail(w) \/ \E r \in Relay : BreakOff(w, r) PROVE IInv'
      BY <2>2, FailStep, AnswerStep
    <2>3. CASE Tick
      BY <2>3, TickStep
    <2>4. ASSUME NEW e \in Event, Publish(e) \/ MirrorElsewhere(e) PROVE IInv'
      BY <2>4, PublishStep, MirrorElsewhereStep
    <2>5. CASE UNCHANGED vars
      <3>1. RunsSound' /\ WatermarkVerified'
        BY <2>5, OthersKeep, RefreshAssumption DEF IInv, StateOK, vars
      <3>2. QED
        BY <2>5, <3>1 DEF IInv, StateOK, vars
    <2>6. QED
      BY <2>1, <2>2, <2>3, <2>4, <2>5 DEF Next
  <1>2. QED
    BY InvInit, <1>1, PTL DEF Spec

\* Whatever relays send or withhold and however refreshes overlap, the watermark
\* is the time of an event whose signature was checked, and never further ahead
\* of the clock than the skew.
THEOREM OnlyVerifiedMovesWatermark == Spec => []WatermarkVerified
  <1>1. IInv => WatermarkVerified
    BY DEF IInv
  <1>2. QED
    BY RefreshInvariance, <1>1, PTL

-----------------------------------------------------------------------------
(***************************************************************************)
(* The watermark and what the relays hold.  A post on a relay is always    *)
(* accounted for: by the run (in a page, cut off from this one, or lost),  *)
(* by the store, or by an earlier pass of the watermark.  Oldest first,    *)
(* the run has mirrored what it met before its watermark passes it.        *)
(***************************************************************************)
Upstream(H) == {e \in Genuine : \E r \in Relay : e \in H[r]}

SettledBy(e, D) == \E f \in D \cap SameSlot(e) : At[f] >= At[e]

\* Met by an earlier page.
Above(R, e) == R.until # NoUntil /\ At[e] > R.until

\* The parts of a refresh that hold something only at some of its steps.
Emptied(R, C) ==
    /\ R.step # "paging" => R.batch = {} /\ C = {}
    /\ R.step \in {"bump", "write"} => R.got = {}
    /\ R.step # "idle" => \A g \in R.got \cup R.batch : At[g] >= R.from
    /\ R.step = "mirror" => \A g \in R.got : At[g] >= R.mark

\* What is below the watermark a refresh started from is not its business.
FromCovers(R, L, H, D, K) ==
    R.step # "idle" =>
        \A e \in Upstream(H) : At[e] < R.from => SettledBy(e, D) \/ e \in K \cup L

PageCovers(R, C, L, H) ==
    R.step = "paging" =>
        /\ C # {} => Cardinality(R.batch) >= Limit
        /\ \A e \in Upstream(H) : At[e] >= R.from =>
              /\ Above(R, e) => e \in R.got \cup R.batch \cup L
              /\ \A r \in Relay \ R.asked :
                    e \in H[r] => e \in R.got \cup R.batch \cup L \cup C

WindowCovers(R, L, H) ==
    R.step = "lookup" /\ R.closed =>
        \A e \in Upstream(H) : At[e] >= R.from => e \in R.got \cup L

LoopCovers(R, L, H, D, K) ==
    R.step \in {"mirror", "bump", "write"} /\ R.closed =>
        \A e \in Upstream(H) : \/ SettledBy(e, D) \/ e \in K \cup L
                               \/ At[e] >= R.mark /\ R.step # "mirror"
                               \/ At[e] > R.horizon /\ R.horizon >= R.mark
                               \/ e \in R.got

\* A refresh whose histories are C and L, when the relays hold H, D has been
\* mirrored and K was skipped.
Covers(R, C, L, H, D, K) ==
    /\ Emptied(R, C)
    /\ FromCovers(R, L, H, D, K)
    /\ PageCovers(R, C, L, H)
    /\ WindowCovers(R, L, H)
    /\ LoopCovers(R, L, H, D, K)

Accounted(H, D, K, t) ==
    \A e \in Upstream(H) : At[e] < t => SettledBy(e, D) \/ e \in K

StrandInv ==
    /\ HistoryOK
    /\ Accounted(held, handled, skipped, since)
    /\ \A w \in Cron : Covers(run[w], cut[w], lost[w], held, handled, skipped)

LEMMA EventTimes ==
    /\ \A e \in Event : At[e] \in Nat \ {0}
    /\ Skew \in Nat /\ Limit \in Nat \ {0}
    /\ Genuine \subseteq Event
    /\ \A S \in SUBSET Event : IsFiniteSet(S) /\ Cardinality(S) \in Nat
<1>1. \A S \in SUBSET Event : IsFiniteSet(S) /\ Cardinality(S) \in Nat
  BY RefreshAssumption, FS_Subset, FS_CardinalityType
<1> QED
  BY <1>1, RefreshAssumption

\* What the relays get, the run under way has lost or has in hand.
LEMMA CoversGrows ==
    ASSUME NEW R \in RunState, NEW C, NEW L, NEW M, L \subseteq M,
           NEW H, NEW G, NEW D, NEW F, D \subseteq F, NEW K, NEW J, K \subseteq J,
           \A r \in Relay : \A e \in G[r] \cap Genuine :
              e \in H[r] \/ R.step = "idle" \/ e \in M \cup R.got \cup R.batch,
           Covers(R, C, L, H, D, K)
    PROVE  Covers(R, C, M, G, F, J)
<1>1. \A e : SettledBy(e, D) => SettledBy(e, F)
  BY DEF SettledBy
<1>2. \A e \in Upstream(G) : \/ e \in Upstream(H)
                             \/ R.step = "idle"
                             \/ e \in M \cup R.got \cup R.batch
  BY DEF Upstream
<1>3. Emptied(R, C)
  BY DEF Covers
<1>4. \A g \in Event : At[g] \in Nat
  BY EventTimes
<1>5. R.from \in Nat /\ R.mark \in Nat /\ R.got \subseteq Event /\ R.batch \subseteq Event
  BY DEF RunState
<1>6. FromCovers(R, M, G, F, J)
  <2> SUFFICES ASSUME R.step # "idle", NEW e \in Upstream(G), At[e] < R.from
               PROVE  SettledBy(e, F) \/ e \in J \cup M
    BY DEF FromCovers
  <2>1. e \notin R.got \cup R.batch
    BY <1>3, <1>4, <1>5 DEF Emptied
  <2> QED
    BY <1>1, <1>2, <2>1 DEF Covers, FromCovers
<1>7. PageCovers(R, C, M, G)
  <2> SUFFICES ASSUME R.step = "paging"
               PROVE  PageCovers(R, C, M, G)
    BY DEF PageCovers
  <2>1. C # {} => Cardinality(R.batch) >= Limit
    BY DEF Covers, PageCovers
  <2>2. ASSUME NEW e \in Upstream(G), At[e] >= R.from, Above(R, e)
        PROVE  e \in R.got \cup R.batch \cup M
    BY <1>2, <2>2 DEF Covers, PageCovers
  <2>3. ASSUME NEW e \in Upstream(G), At[e] >= R.from, NEW r \in Relay \ R.asked, e \in G[r]
        PROVE  e \in R.got \cup R.batch \cup M \cup C
    <3>1. e \in Genuine
      BY DEF Upstream
    <3>2. CASE e \in H[r]
      <4>1. e \in Upstream(H)
        BY <3>1, <3>2 DEF Upstream
      <4> QED
        BY <2>3, <3>2, <4>1 DEF Covers, PageCovers
    <3>3. CASE e \notin H[r]
      BY <2>3, <3>1, <3>3
    <3> QED
      BY <3>2, <3>3
  <2> QED
    BY <2>1, <2>2, <2>3 DEF PageCovers
<1>8. WindowCovers(R, M, G)
  BY <1>2, <1>3 DEF Covers, WindowCovers, Emptied
<1>9. LoopCovers(R, M, G, F, J)
  <2> SUFFICES ASSUME R.step \in {"mirror", "bump", "write"}, R.closed,
                      NEW e \in Upstream(G)
               PROVE  \/ SettledBy(e, F) \/ e \in J \cup M
                      \/ At[e] >= R.mark /\ R.step # "mirror"
                      \/ At[e] > R.horizon /\ R.horizon >= R.mark
                      \/ e \in R.got
    BY DEF LoopCovers
  <2>1. R.batch = {}
    BY <1>3 DEF Emptied
  <2>2. e \in Upstream(H) \/ e \in M \cup R.got
    BY <1>2, <2>1
  <2> QED
    BY <1>1, <2>2 DEF Covers, LoopCovers
<1> QED
  BY <1>3, <1>6, <1>7, <1>8, <1>9 DEF Covers

LEMMA IdleCovers ==
    ASSUME NEW H, NEW D, NEW K, NEW L
    PROVE  Covers(Idle, {}, L, H, D, K)
<1>1. Idle.step = "idle" /\ Idle.batch = {} /\ Idle.got = {}
  BY DEF Idle
<1> HIDE DEF Idle
<1> QED
  BY <1>1 DEF Covers, Emptied, FromCovers, PageCovers, WindowCovers, LoopCovers

\* One refresh goes on, and the others keep their histories.
Only(w, S, C, L) ==
    /\ Set(w, S)
    /\ cut' = [cut EXCEPT ![w] = C]
    /\ lost' = [lost EXCEPT ![w] = L]

LEMMA OneRunCovers ==
    ASSUME IInv, StrandInv, NEW w \in Cron, NEW S, NEW C \in SUBSET Event,
           NEW L \in SUBSET Event, Only(w, S, C, L),
           held' = held, handled \subseteq handled', skipped \subseteq skipped',
           skipped' \subseteq Event,
           Covers(S, C, L, held, handled', skipped'),
           Accounted(held, handled', skipped', since')
    PROVE  StrandInv'
<1>1. run \in [Cron -> RunState] /\ cut \in [Cron -> SUBSET Event]
        /\ lost \in [Cron -> SUBSET Event]
  BY DEF IInv, StateOK, StrandInv, HistoryOK
<1>2. HistoryOK'
  BY <1>1 DEF HistoryOK, Only
<1>3. ASSUME NEW v \in Cron
      PROVE  Covers(run'[v], cut'[v], lost'[v], held, handled', skipped')
  <2>1. CASE v = w
    <3>1. run'[v] = S /\ cut'[v] = C /\ lost'[v] = L
      BY <1>1, <2>1 DEF Only, Set
    <3> QED
      BY <3>1
  <2>2. CASE v # w
    <3>1. run'[v] = run[v] /\ cut'[v] = cut[v] /\ lost'[v] = lost[v]
      BY <1>1, <2>2 DEF Only, Set
    <3>2. run[v] \in RunState /\ Covers(run[v], cut[v], lost[v], held, handled, skipped)
      BY <1>1 DEF StrandInv
    <3>3. Covers(run[v], cut[v], lost[v], held, handled', skipped')
      BY <3>2, CoversGrows
    <3> QED
      BY <3>1, <3>3
  <2> QED
    BY <2>1, <2>2
<1> QED
  BY <1>2, <1>3 DEF StrandInv

\* The watermark stays, and so does what it has passed.
LEMMA QuietRunCovers ==
    ASSUME IInv, StrandInv, NEW w \in Cron, NEW S, NEW C \in SUBSET Event,
           NEW L \in SUBSET Event, Only(w, S, C, L),
           UNCHANGED <<held, since, skipped>>, handled \subseteq handled',
           Covers(S, C, L, held, handled', skipped)
    PROVE  StrandInv'
<1>1. Accounted(held, handled', skipped', since')
  <2>1. \A e : SettledBy(e, handled) => SettledBy(e, handled')
    BY DEF SettledBy
  <2> QED
    BY <2>1 DEF StrandInv, Accounted
<1>2. skipped' \subseteq Event /\ skipped \subseteq skipped'
  BY DEF StrandInv, HistoryOK
<1> QED
  BY <1>1, <1>2, OneRunCovers

\* A refresh whose histories stay.
LEMMA SameHistory ==
    ASSUME IInv, StrandInv, NEW w \in Cron, NEW S, Set(w, S), UNCHANGED <<cut, lost>>
    PROVE  /\ Only(w, S, cut[w], lost[w])
           /\ cut[w] \in SUBSET Event /\ lost[w] \in SUBSET Event
BY DEF StrandInv, HistoryOK, Only

\* Where a refresh is.
LEMMA RunIs ==
    ASSUME IInv, StrandInv, NEW w \in Cron
    PROVE  /\ run[w] \in RunState
           /\ Covers(run[w], cut[w], lost[w], held, handled, skipped)
           /\ cut[w] \in SUBSET Event /\ lost[w] \in SUBSET Event
           /\ handled \in SUBSET Event /\ skipped \in SUBSET Event
           /\ now \in Nat /\ since \in Nat
           /\ held \in [Relay -> SUBSET Event]
           /\ Upstream(held) \subseteq Event
<1>1. run[w] \in RunState /\ handled \in SUBSET Event /\ now \in Nat /\ since \in Nat
        /\ held \in [Relay -> SUBSET Event] /\ Upstream(held) \subseteq Event
  BY RefreshAssumption DEF IInv, StateOK, Upstream
<1> QED
  BY <1>1 DEF StrandInv, HistoryOK

-----------------------------------------------------------------------------
LEMMA BeginCovers ==
    ASSUME IInv, StrandInv, NEW w \in Cron, Begin(w)
    PROVE  StrandInv'
<1> DEFINE S == [Idle EXCEPT !.step = "paging", !.from = since, !.page = 1, !.asked = Relay]
<1>1. /\ S.step = "paging" /\ S.from = since /\ S.asked = Relay
      /\ S.got = {} /\ S.batch = {} /\ S.until = NoUntil
  BY DEF Idle
<1>2. Set(w, S) /\ UNCHANGED <<held, since, handled, cut, lost, skipped>>
  BY DEF Begin, history
<1> HIDE DEF S
<1>3. cut[w] = {}
  BY DEF Begin, StrandInv, Covers, Emptied
<1>4. Emptied(S, {})
  BY <1>1 DEF Emptied
<1>5. FromCovers(S, lost[w], held, handled, skipped)
  BY <1>1 DEF StrandInv, Accounted, FromCovers
<1>6. PageCovers(S, {}, lost[w], held)
  BY <1>1 DEF PageCovers, Above
<1>7. Covers(S, cut[w], lost[w], held, handled', skipped)
  BY <1>1, <1>2, <1>3, <1>4, <1>5, <1>6 DEF Covers, WindowCovers, LoopCovers
<1> QED
  BY <1>2, <1>7, SameHistory, QuietRunCovers

\* What relay r leaves out of a page is cut off by its limit, or lost.
PageStep(w, r, A, C, L) ==
    /\ run[w].step = "paging"
    /\ A \subseteq Matching(w, r) /\ Streamed(w, r, A)
    /\ cut' = [cut EXCEPT ![w] = C] /\ lost' = [lost EXCEPT ![w] = L]
    /\ cut[w] \subseteq C /\ lost[w] \subseteq L
    /\ Matching(w, r) \ A \subseteq C \cup L
    /\ C # {} => cut[w] # {} \/ Cardinality(A) >= Limit
    /\ UNCHANGED <<held, since, handled, skipped>>

LEMMA PageGoesOn ==
    ASSUME IInv, StrandInv, NEW w \in Cron, NEW r \in Relay, NEW A \in SUBSET Event,
           NEW C \in SUBSET Event, NEW L \in SUBSET Event, PageStep(w, r, A, C, L)
    PROVE  StrandInv'
<1> DEFINE R == run[w]
           S == [R EXCEPT !.asked = @ \ {r}, !.batch = @ \cup A]
<1>0. /\ R.step = "paging" /\ A \subseteq Matching(w, r)
      /\ cut[w] \subseteq C /\ lost[w] \subseteq L
      /\ Matching(w, r) \ A \subseteq C \cup L
      /\ C # {} => cut[w] # {} \/ Cardinality(A) >= Limit
      /\ UNCHANGED <<held, since, handled, skipped>>
  BY DEF PageStep
<1>1. /\ R \in RunState /\ Covers(R, cut[w], lost[w], held, handled, skipped)
      /\ Upstream(held) \subseteq Event
  BY RunIs
<1>2. /\ S.step = "paging" /\ S.from = R.from /\ S.got = R.got /\ S.until = R.until
      /\ S.asked = R.asked \ {r} /\ S.batch = R.batch \cup A
  BY <1>0, <1>1 DEF RunState
<1>3. Only(w, S, C, L)
  BY DEF PageStep, Streamed, Only
<1>4. \A e \in held[r] : At[e] >= R.from => e \in Matching(w, r) \/ Above(R, e)
  <2>1. \A e \in held[r] : At[e] \in Nat
    BY EventTimes DEF IInv, StateOK
  <2>2. R.until \in Nat
    BY <1>1 DEF RunState
  <2> QED
    BY <2>1, <2>2 DEF Matching, Above
<1>5. \A e \in A : At[e] >= R.from
  BY <1>0 DEF Matching
<1>6. R.batch \subseteq Event
  BY <1>1 DEF RunState
<1> HIDE DEF R, S
<1>7. Emptied(S, C)
  BY <1>0, <1>1, <1>2, <1>5 DEF Covers, Emptied, R
<1>8. FromCovers(S, L, held, handled, skipped)
  BY <1>0, <1>1, <1>2 DEF Covers, FromCovers, R
<1>9. PageCovers(S, C, L, held)
  <2>1. ASSUME C # {}
        PROVE  Cardinality(S.batch) >= Limit
    <3>1. IsFiniteSet(S.batch) /\ R.batch \subseteq S.batch /\ A \subseteq S.batch
            /\ S.batch \subseteq Event
      BY <1>2, <1>6, EventTimes
    <3>2. Cardinality(R.batch) <= Cardinality(S.batch) /\ Cardinality(A) <= Cardinality(S.batch)
      BY <3>1, FS_Subset
    <3>3. Cardinality(R.batch) >= Limit \/ Cardinality(A) >= Limit
      BY <1>0, <1>1, <2>1 DEF Covers, PageCovers, R
    <3>4. Cardinality(R.batch) \in Nat /\ Cardinality(A) \in Nat
            /\ Cardinality(S.batch) \in Nat /\ Limit \in Nat
      BY <1>6, <3>1, EventTimes
    <3> QED
      BY <3>2, <3>3, <3>4
  <2>2. ASSUME NEW e \in Upstream(held), At[e] >= R.from, Above(R, e)
        PROVE  e \in S.got \cup S.batch \cup L
    BY <1>0, <1>1, <1>2, <2>2 DEF Covers, PageCovers, R
  <2>3. ASSUME NEW e \in Upstream(held), At[e] >= R.from, NEW q \in Relay \ S.asked, e \in held[q]
        PROVE  e \in S.got \cup S.batch \cup L \cup C
    <3>1. CASE q # r
      BY <1>0, <1>1, <1>2, <2>3, <3>1 DEF Covers, PageCovers, R
    <3>2. CASE q = r
      BY <1>0, <1>2, <1>4, <2>2, <2>3, <3>2
    <3> QED
      BY <3>1, <3>2
  <2>4. \A e : Above(S, e) = Above(R, e)
    BY <1>2 DEF Above
  <2> QED
    BY <1>2, <2>1, <2>2, <2>3, <2>4 DEF PageCovers
<1>10. Covers(S, C, L, held, handled', skipped)
  BY <1>0, <1>2, <1>7, <1>8, <1>9 DEF Covers, WindowCovers, LoopCovers
<1> QED
  BY <1>0, <1>3, <1>10, QuietRunCovers

LEMMA AnswerCovers ==
    ASSUME IInv, StrandInv, NEW w \in Cron, NEW r \in Relay, Answer(w, r)
    PROVE  StrandInv'
<1>1. PICK A \in Answers(w, r) :
         /\ Streamed(w, r, A)
         /\ cut' = [cut EXCEPT ![w] = @ \cup (Matching(w, r) \ A)]
  BY DEF Answer
<1> DEFINE M == Matching(w, r)
           C == cut[w] \cup (M \ A)
           L == lost[w]
<1>2. M \in SUBSET Event
  BY DEF IInv, StateOK, Matching
<1>3. /\ A \in SUBSET M
      /\ Cardinality(A) = IF Cardinality(M) < Limit THEN Cardinality(M) ELSE Limit
  BY DEF Answers
<1>4. /\ run[w].step = "paging" /\ UNCHANGED <<held, since, handled, skipped, lost>>
      /\ cut' = [cut EXCEPT ![w] = C]
  BY <1>1, RunIs DEF Answer, StrandInv, HistoryOK
<1>5. lost' = [lost EXCEPT ![w] = L]
  BY <1>4 DEF StrandInv, HistoryOK
<1>6. cut[w] \in SUBSET Event /\ L \in SUBSET Event /\ lost[w] \subseteq L
  BY RunIs
<1>7. ASSUME M \ A # {}
      PROVE  Cardinality(A) >= Limit
  <2> HIDE DEF M
  <2>1. IsFiniteSet(M) /\ Cardinality(M) \in Nat /\ Limit \in Nat
    BY <1>2, EventTimes
  <2>2. Cardinality(A) # Cardinality(M)
    BY <1>3, <1>7, <2>1, FS_Subset
  <2> QED
    BY <1>3, <2>1, <2>2
<1>8. A \in SUBSET Event /\ C \in SUBSET Event
  BY <1>2, <1>3, <1>6
<1>9. C # {} => cut[w] # {} \/ Cardinality(A) >= Limit
  BY <1>7
<1>10. cut[w] \subseteq C /\ Matching(w, r) \ A \subseteq C \cup L /\ A \subseteq Matching(w, r)
  BY <1>3
<1>11. Matching(w, r) \ A \subseteq C \cup L
  BY <1>10
<1> HIDE DEF C, L, M
<1>12. PageStep(w, r, A, C, L)
  BY <1>1, <1>4, <1>5, <1>6, <1>9, <1>10, <1>11 DEF PageStep
<1> QED
  BY <1>6, <1>8, <1>12, PageGoesOn

LEMMA BreakOffCovers ==
    ASSUME IInv, StrandInv, NEW w \in Cron, NEW r \in Relay, BreakOff(w, r)
    PROVE  StrandInv'
<1> DEFINE M == Matching(w, r)
<1>1. PICK S \in SUBSET M :
         /\ Streamed(w, r, S)
         /\ lost' = [lost EXCEPT ![w] = @ \cup (M \ S)]
  BY DEF BreakOff, Answers
<1> DEFINE L == lost[w] \cup (M \ S)
<1>2. M \in SUBSET Event
  BY DEF IInv, StateOK, Matching
<1>3. /\ run[w].step = "paging" /\ UNCHANGED <<held, since, handled, skipped, cut>>
      /\ lost' = [lost EXCEPT ![w] = L]
  BY <1>1 DEF BreakOff, StrandInv, HistoryOK
<1>4. cut' = [cut EXCEPT ![w] = cut[w]]
  BY <1>3 DEF StrandInv, HistoryOK
<1>5. cut[w] \in SUBSET Event /\ L \in SUBSET Event /\ S \in SUBSET Event
  BY <1>2, RunIs
<1>6. lost[w] \subseteq L /\ Matching(w, r) \ S \subseteq cut[w] \cup L /\ S \subseteq Matching(w, r)
  OBVIOUS
<1> DEFINE C == cut[w]
<1> HIDE DEF L, M, C
<1>7. PageStep(w, r, S, C, L)
  BY <1>1, <1>3, <1>4, <1>6 DEF PageStep, C
<1>8. C \in SUBSET Event
  BY <1>5 DEF C
<1> QED
  BY <1>5, <1>7, <1>8, PageGoesOn

\* The oldest event of a set.
LEMMA OldestFirst ==
    ASSUME NEW S \in SUBSET Event, S # {}
    PROVE  /\ Oldest(S) \in Nat \ {0}
           /\ \A e \in S : Oldest(S) <= At[e]
<1>1. PICK e \in S : At[e] = Oldest(S)
  BY OldestOf
<1> DEFINE T == {At[d] : d \in S}
<1>2. T \in SUBSET Nat /\ T # {}
  BY EventTimes
<1>3. \E t \in T : \A u \in T : t <= u
  <2> DEFINE Less == OpToRel(<, Nat)
  <2> HIDE DEF T
  <2>1. PICK t \in T : \A u \in T : ~(<<u, t>> \in Less)
    <3> HIDE DEF Less
    <3> QED
      BY <1>2, NatLessThanWellFounded, WFMin DEF Less
  <2>2. \A u \in T : ~(u < t)
    BY <1>2, <2>1 DEF OpToRel
  <2>3. \A u \in T : t <= u
    BY <1>2, <2>2
  <2> QED
    BY <2>3
<1>4. \E t \in T : \A d \in S : t <= At[d]
  BY <1>3
<1>5. \A d \in S : Oldest(S) <= At[d]
  BY <1>4 DEF Oldest
<1> QED
  BY <1>1, <1>5, EventTimes

\* Every relay has answered: what it holds was met, lost, or cut off from a full page.
LEMMA PageEnds ==
    ASSUME IInv, StrandInv, NEW w \in Cron, run[w].step = "paging", run[w].asked = {},
           NEW e \in Upstream(held), At[e] >= run[w].from
    PROVE  e \in run[w].got \cup run[w].batch \cup lost[w] \cup cut[w]
<1>1. PageCovers(run[w], cut[w], lost[w], held)
  BY RunIs DEF Covers
<1>2. PICK r \in Relay : e \in held[r]
  BY DEF Upstream
<1> QED
  BY <1>1, <1>2 DEF PageCovers

LEMMA EndPageCovers ==
    ASSUME IInv, StrandInv, NEW w \in Cron, EndPage(w)
    PROVE  StrandInv'
<1> DEFINE R == run[w]
           got == R.got \cup R.batch
           N == [R EXCEPT !.asked = Relay, !.batch = {}, !.got = got,
                          !.until = Oldest(R.batch), !.page = @ + 1]
           L == lost[w] \cup Overtaken(w)
<1>1. /\ R \in RunState /\ R.step = "paging" /\ R.asked = {}
      /\ Covers(R, cut[w], lost[w], held, handled, skipped)
      /\ UNCHANGED <<held, since, handled, skipped>>
      /\ cut' = [cut EXCEPT ![w] = {}]
  BY RunIs DEF EndPage
<1>2. /\ R.batch \in SUBSET Event /\ got \in SUBSET Event /\ R.from \in Nat
      /\ cut[w] \in SUBSET Event /\ lost[w] \in SUBSET Event
      /\ Upstream(held) \subseteq Event
  BY <1>1, RunIs DEF RunState
<1>3. /\ \A g \in got : At[g] >= R.from
      /\ \A e \in Upstream(held) : At[e] < R.from =>
            SettledBy(e, handled) \/ e \in skipped \cup lost[w]
  BY <1>1 DEF Covers, Emptied, FromCovers
<1>4. \A e \in Upstream(held) : At[e] >= R.from => e \in got \cup lost[w] \cup cut[w]
  BY <1>1, PageEnds
<1>5. CASE ~ClosesWindow(w) /\ NextPage(w)
  <2>1. /\ N.step = "paging" /\ N.from = R.from /\ N.got = got /\ N.batch = {}
        /\ N.asked = Relay /\ N.until = Oldest(R.batch)
    BY <1>1 DEF RunState
  <2>2. Only(w, N, {}, L)
    BY <1>1, <1>5 DEF EndPage, StrandInv, HistoryOK, Only
  <2>3. L \in SUBSET Event
    BY <1>2 DEF Overtaken
  <2> HIDE DEF N, R
  <2>4. Emptied(N, {})
    BY <1>3, <2>1 DEF Emptied
  <2>5. FromCovers(N, L, held, handled, skipped)
    BY <1>3, <2>1 DEF FromCovers
  <2>6. ASSUME NEW e \in Upstream(held), At[e] >= N.from, Above(N, e)
        PROVE  e \in N.got \cup N.batch \cup L
    <3>1. e \in cut[w] => e \in Overtaken(w)
      BY <2>1, <2>6 DEF Above, Overtaken, R
    <3> QED
      BY <1>4, <2>1, <2>6, <3>1
  <2>7. PageCovers(N, {}, L, held)
    BY <2>1, <2>6 DEF PageCovers
  <2>8. Covers(N, {}, L, held, handled', skipped)
    BY <1>1, <2>1, <2>4, <2>5, <2>7 DEF Covers, WindowCovers, LoopCovers
  <2> QED
    BY <1>1, <2>2, <2>3, <2>8, QuietRunCovers
<1>6. CASE ~(~ClosesWindow(w) /\ NextPage(w)) /\ got = {}
  <2>1. Only(w, Idle, {}, {})
    BY <1>1, <1>6 DEF EndPage, Only
  <2>2. Covers(Idle, {}, {}, held, handled', skipped)
    BY IdleCovers
  <2> QED
    BY <1>1, <2>1, <2>2, QuietRunCovers
<1>7. CASE ~(~ClosesWindow(w) /\ NextPage(w)) /\ got # {}
  <2> DEFINE P == [R EXCEPT !.step = "lookup", !.got = got, !.batch = {},
                            !.until = NoUntil, !.page = 0, !.closed = ClosesWindow(w)]
             K == lost[w] \ got
  <2>1. /\ P.step = "lookup" /\ P.from = R.from /\ P.got = got /\ P.batch = {}
        /\ P.closed = ClosesWindow(w)
    BY <1>1 DEF RunState
  <2>2. Only(w, P, {}, K)
    BY <1>1, <1>7 DEF EndPage, StrandInv, HistoryOK, Only
  <2>3. K \in SUBSET Event
    BY <1>2
  <2> HIDE DEF P
  <2>4. ClosesWindow(w) => cut[w] = {}
    <3>1. Cardinality(R.batch) \in Nat /\ Limit \in Nat
      BY <1>2, EventTimes
    <3>2. cut[w] # {} => Cardinality(R.batch) >= Limit
      BY <1>1 DEF Covers, PageCovers
    <3> QED
      BY <3>1, <3>2 DEF ClosesWindow
  <2> HIDE DEF R, got
  <2>5. Emptied(P, {})
    BY <1>3, <2>1 DEF Emptied
  <2>6. FromCovers(P, K, held, handled, skipped)
    <3>1. \A e \in got : e \in Event => ~(At[e] < R.from)
      BY <1>2, <1>3, EventTimes
    <3> QED
      BY <1>2, <1>3, <2>1, <3>1 DEF FromCovers
  <2>7. WindowCovers(P, K, held)
    BY <1>4, <2>1, <2>4 DEF WindowCovers
  <2>8. Covers(P, {}, K, held, handled', skipped)
    BY <1>1, <2>1, <2>5, <2>6, <2>7 DEF Covers, PageCovers, LoopCovers
  <2> QED
    BY <1>1, <2>2, <2>3, <2>8, QuietRunCovers
<1> QED
  BY <1>5, <1>6, <1>7

-----------------------------------------------------------------------------
\* The loop starts at the watermark, below which nothing is its business.
LEMMA LookupCovers ==
    ASSUME IInv, StrandInv, NEW w \in Cron, Lookup(w)
    PROVE  StrandInv'
<1> DEFINE R == run[w]
           S == [R EXCEPT !.step = "mirror", !.known = rows \cap R.got,
                          !.horizon = now + Skew, !.credits = VerifyCap, !.mark = R.from]
<1>1. /\ R \in RunState /\ R.step = "lookup" /\ Set(w, S)
      /\ Covers(R, cut[w], lost[w], held, handled, skipped)
      /\ UNCHANGED <<held, since, handled, skipped, cut, lost>>
  BY RunIs DEF Lookup, history
<1>2. /\ S.step = "mirror" /\ S.from = R.from /\ S.mark = R.from /\ S.got = R.got
      /\ S.batch = R.batch /\ S.closed = R.closed
  BY <1>1 DEF RunState
<1>3. R.from \in Nat /\ \A e \in Upstream(held) : At[e] \in Nat
  BY <1>1, RunIs, EventTimes DEF RunState
<1> HIDE DEF R, S
<1>4. Emptied(S, cut[w]) /\ FromCovers(S, lost[w], held, handled, skipped)
  BY <1>1, <1>2 DEF Covers, Emptied, FromCovers
<1>5. LoopCovers(S, lost[w], held, handled, skipped)
  <2> SUFFICES ASSUME S.closed, NEW e \in Upstream(held)
               PROVE  SettledBy(e, handled) \/ e \in skipped \cup lost[w] \/ e \in S.got
    BY DEF LoopCovers
  <2>1. At[e] >= R.from \/ At[e] < R.from
    BY <1>3
  <2> QED
    BY <1>1, <1>2, <2>1 DEF Covers, WindowCovers, FromCovers
<1>6. Covers(S, cut[w], lost[w], held, handled', skipped)
  BY <1>1, <1>2, <1>4, <1>5 DEF Covers, PageCovers, WindowCovers
<1> QED
  BY <1>1, <1>6, SameHistory, QuietRunCovers

\* The oldest event of the loop is left behind: mirrored, refused, or too far ahead.
LEMMA TurnCovers ==
    ASSUME NEW R \in RunState, R.step = "mirror", NEW C, NEW L, NEW H, NEW K,
           NEW D, NEW F, D \subseteq F,
           Covers(R, C, L, H, D, K), R.mark <= R.horizon,
           NEW e \in R.got, At[e] = Oldest(R.got),
           NEW S \in RunState, S.step = "mirror",
           S.from = R.from, S.horizon = R.horizon, S.batch = R.batch,
           S.closed = R.closed, S.got = R.got \ {e},
           \/ S.mark = R.mark
           \/ S.mark = Later(R.mark, At[e]) /\ At[e] <= R.horizon,
           \/ e \notin Genuine
           \/ At[e] > R.horizon
           \/ e \in F
    PROVE  Covers(S, C, L, H, F, K)
<1>1. /\ R.got \in SUBSET Event /\ R.mark \in Nat /\ R.horizon \in Nat
      /\ e \in Event /\ S.mark \in Nat
      /\ \A g \in Event : At[g] \in Nat
  BY EventTimes DEF RunState
<1>2. \A g \in R.got : At[e] <= At[g]
  BY <1>1, OldestFirst
<1>3. SettledBy(e, F) \/ e \notin Genuine \/ At[e] > R.horizon
  BY <1>1 DEF SettledBy, SameSlot
<1>4. \A d : SettledBy(d, D) => SettledBy(d, F)
  BY DEF SettledBy
<1>5. S.mark <= S.horizon
  BY <1>1 DEF Later
<1>6. Emptied(S, C)
  <2>1. Emptied(R, C)
    BY DEF Covers
  <2>2. \A g \in S.got : At[g] >= S.mark
    BY <1>1, <1>2, <2>1 DEF Emptied, Later
  <2> QED
    BY <2>1, <2>2 DEF Emptied
<1>7. FromCovers(S, L, H, F, K)
  BY <1>4 DEF Covers, FromCovers
<1>8. LoopCovers(S, L, H, F, K)
  <2> SUFFICES ASSUME S.closed, NEW d \in Upstream(H)
               PROVE  \/ SettledBy(d, F) \/ d \in K \cup L
                      \/ At[d] > S.horizon /\ S.horizon >= S.mark
                      \/ d \in S.got
    BY DEF LoopCovers
  <2>1. \/ SettledBy(d, F) \/ d \in K \cup L
        \/ At[d] > R.horizon
        \/ d \in R.got
    BY <1>4 DEF Covers, LoopCovers
  <2>2. S.horizon >= S.mark
    BY <1>1, <1>5
  <2>3. d \in Genuine
    BY DEF Upstream
  <2> QED
    BY <1>3, <2>1, <2>2, <2>3
<1> QED
  BY <1>6, <1>7, <1>8 DEF Covers, PageCovers, WindowCovers

LEMMA SkippedIs ==
    ASSUME NEW R \in RunState, NEW e \in Event
    PROVE  /\ Skipped(R, e) \in RunState
           /\ Skipped(R, e).step = R.step /\ Skipped(R, e).from = R.from
           /\ Skipped(R, e).horizon = R.horizon
           /\ Skipped(R, e).batch = R.batch /\ Skipped(R, e).closed = R.closed
           /\ Skipped(R, e).got = R.got \ {e} /\ Skipped(R, e).mark = R.mark
BY DEF Skipped, RunState

LEMMA AdvancedIs ==
    ASSUME NEW R \in RunState, NEW e \in Event
    PROVE  /\ Advanced(R, e) \in RunState
           /\ Advanced(R, e).step = R.step /\ Advanced(R, e).from = R.from
           /\ Advanced(R, e).horizon = R.horizon
           /\ Advanced(R, e).batch = R.batch /\ Advanced(R, e).closed = R.closed
           /\ Advanced(R, e).got = R.got \ {e}
           /\ Advanced(R, e).mark = Later(R.mark, At[e])
<1>1. Later(R.mark, At[e]) \in Nat
  BY EventTimes DEF Later, RunState
<1> DEFINE S == Skipped(R, e)
<1>2. /\ S \in RunState
      /\ S.step = R.step /\ S.from = R.from
      /\ S.horizon = R.horizon /\ S.batch = R.batch /\ S.closed = R.closed
      /\ S.got = R.got \ {e} /\ S.mark = R.mark
  BY SkippedIs
<1>3. Advanced(R, e) = [S EXCEPT !.mark = Later(S.mark, At[e])]
  BY DEF Advanced
<1> HIDE DEF S
<1> QED
  BY <1>1, <1>2, <1>3 DEF RunState

LEMMA TurnIs ==
    ASSUME IInv, StrandInv, NEW w \in Cron, run[w].step = "mirror", NEW e \in Turn(w)
    PROVE  /\ run[w] \in RunState /\ run[w].mark <= run[w].horizon
           /\ Covers(run[w], cut[w], lost[w], held, handled, skipped)
           /\ e \in run[w].got /\ At[e] = Oldest(run[w].got) /\ e \in Event
<1>1. /\ run[w] \in RunState
      /\ Covers(run[w], cut[w], lost[w], held, handled, skipped)
  BY RunIs
<1>2. run[w].mark <= run[w].horizon
  BY DEF IInv, RunsSound, Sound
<1>3. e \in run[w].got /\ At[e] = Oldest(run[w].got)
  BY DEF Turn
<1> QED
  BY <1>1, <1>2, <1>3 DEF RunState

LEMMA SkipFutureCovers ==
    ASSUME IInv, StrandInv, NEW w \in Cron, SkipFuture(w)
    PROVE  StrandInv'
<1>1. PICK e \in Turn(w) : At[e] > run[w].horizon /\ Set(w, Skipped(run[w], e))
  BY DEF SkipFuture
<1> DEFINE R == run[w]
           S == Skipped(R, e)
<1>2. /\ R \in RunState /\ R.step = "mirror" /\ R.mark <= R.horizon
      /\ Covers(R, cut[w], lost[w], held, handled, skipped)
      /\ e \in R.got /\ At[e] = Oldest(R.got) /\ e \in Event
  BY <1>1, TurnIs DEF SkipFuture
<1>3. /\ S \in RunState /\ S.step = R.step /\ S.from = R.from
      /\ S.horizon = R.horizon /\ S.batch = R.batch /\ S.closed = R.closed
      /\ S.got = R.got \ {e} /\ S.mark = R.mark
  BY <1>2, SkippedIs
<1>4. UNCHANGED <<held, since, handled, skipped, cut, lost>>
  BY DEF SkipFuture, history
<1> HIDE DEF S
<1>5. Covers(S, cut[w], lost[w], held, handled, skipped)
  BY <1>1, <1>2, <1>3, TurnCovers
<1>6. Set(w, S)
  BY <1>1 DEF S
<1> QED
  BY <1>4, <1>5, <1>6, SameHistory, QuietRunCovers

LEMMA PassStoredCovers ==
    ASSUME IInv, StrandInv, NEW w \in Cron, PassStored(w)
    PROVE  StrandInv'
<1>1. PICK e \in Turn(w) : /\ At[e] <= run[w].horizon /\ e \in run[w].known
                           /\ Set(w, Advanced(run[w], e))
  BY DEF PassStored
<1> DEFINE R == run[w]
           S == Advanced(R, e)
<1>2. /\ R \in RunState /\ R.step = "mirror" /\ R.mark <= R.horizon
      /\ Covers(R, cut[w], lost[w], held, handled, skipped)
      /\ e \in R.got /\ At[e] = Oldest(R.got) /\ e \in Event
  BY <1>1, TurnIs DEF PassStored
<1>3. e \in handled
  BY <1>1 DEF IInv, RunsSound, Sound
<1>4. /\ S \in RunState /\ S.step = R.step /\ S.from = R.from
      /\ S.horizon = R.horizon /\ S.batch = R.batch /\ S.closed = R.closed
      /\ S.got = R.got \ {e} /\ S.mark = Later(R.mark, At[e])
  BY <1>2, AdvancedIs
<1>5. UNCHANGED <<held, since, handled, skipped, cut, lost>>
  BY DEF PassStored, history
<1> HIDE DEF S
<1>6. Covers(S, cut[w], lost[w], held, handled, skipped)
  BY <1>1, <1>2, <1>3, <1>4, TurnCovers
<1>7. Set(w, S)
  BY <1>1 DEF S
<1> QED
  BY <1>5, <1>6, <1>7, SameHistory, QuietRunCovers

LEMMA MirrorNextCovers ==
    ASSUME IInv, StrandInv, NEW w \in Cron, MirrorNext(w)
    PROVE  StrandInv'
<1> DEFINE B == run[w]
           R == [B EXCEPT !.credits = @ - 1]
<1>1. PICK e \in Turn(w) :
        /\ At[e] <= B.horizon
        /\ \/ /\ e \notin Genuine
              /\ Set(w, Refused(R, e))
              /\ UNCHANGED handled
           \/ /\ e \in Genuine
              /\ handled' = handled \cup {e}
              /\ Set(w, [Advanced(R, e) EXCEPT !.fresh = @ \cup ({e} \cap rows')])
  BY DEF MirrorNext
<1>2. /\ B \in RunState /\ B.step = "mirror" /\ B.credits > 0 /\ B.mark <= B.horizon
      /\ Covers(B, cut[w], lost[w], held, handled, skipped)
      /\ e \in B.got /\ At[e] = Oldest(B.got) /\ e \in Event
  BY <1>1, TurnIs DEF MirrorNext
<1>3. UNCHANGED <<held, since, skipped, cut, lost>>
  BY DEF MirrorNext, history
<1>4. /\ R \in RunState /\ R.step = "mirror" /\ R.from = B.from
      /\ R.horizon = B.horizon /\ R.batch = B.batch /\ R.closed = B.closed
      /\ R.got = B.got /\ R.mark = B.mark
  <2>1. B.credits - 1 \in 0..VerifyCap
    BY <1>2, RefreshAssumption DEF RunState
  <2> QED
    BY <1>2, <2>1 DEF RunState
<1> HIDE DEF B, R
<1>5. CASE e \notin Genuine
  <2> DEFINE S == Skipped(R, e)
  <2>1. /\ S \in RunState /\ S.step = R.step /\ S.from = R.from
        /\ S.horizon = R.horizon /\ S.batch = R.batch /\ S.closed = R.closed
        /\ S.got = R.got \ {e} /\ S.mark = R.mark
    BY <1>2, <1>4, SkippedIs
  <2>2. Set(w, S) /\ handled' = handled
    BY <1>1, <1>5 DEF Refused
  <2> HIDE DEF S
  <2>3. Covers(S, cut[w], lost[w], held, handled, skipped)
    BY <1>2, <1>4, <1>5, <2>1, TurnCovers
  <2> QED
    BY <1>3, <2>2, <2>3, SameHistory, QuietRunCovers
<1>6. CASE e \in Genuine
  <2> DEFINE A == Advanced(R, e)
             S == [A EXCEPT !.fresh = @ \cup ({e} \cap rows')]
  <2>1. /\ A \in RunState /\ A.step = R.step /\ A.from = R.from
        /\ A.horizon = R.horizon /\ A.batch = R.batch /\ A.closed = R.closed
        /\ A.got = R.got \ {e} /\ A.mark = Later(R.mark, At[e])
    BY <1>2, <1>4, AdvancedIs
  <2>2. Set(w, S) /\ handled' = handled \cup {e}
    BY <1>1, <1>6
  <2> HIDE DEF A
  <2>3. /\ S \in RunState /\ S.step = A.step /\ S.from = A.from
        /\ S.horizon = A.horizon /\ S.batch = A.batch /\ S.closed = A.closed
        /\ S.got = A.got /\ S.mark = A.mark
    <3>1. {e} \cap rows' \subseteq Event
      BY <1>2
    <3> QED
      BY <2>1, <3>1 DEF RunState
  <2> HIDE DEF S
  <2>4. handled \subseteq handled' /\ e \in handled'
    BY <2>2
  <2>5. Covers(S, cut[w], lost[w], held, handled', skipped)
    BY <1>1, <1>2, <1>4, <2>1, <2>3, <2>4, TurnCovers
  <2> QED
    BY <1>3, <2>2, <2>4, <2>5, SameHistory, QuietRunCovers
<1> QED
  BY <1>5, <1>6

\* The loop ends, and with it what was still to be mirrored is left to the next run.
LEMMA EndLoopCovers ==
    ASSUME IInv, StrandInv, NEW w \in Cron, EndLoop(w) \/ Bump(w)
    PROVE  StrandInv'
<1> DEFINE R == run[w]
<1>1. R \in RunState /\ Covers(R, cut[w], lost[w], held, handled, skipped)
        /\ Upstream(held) \subseteq Event
  BY RunIs
<1>2. PICK S : /\ Set(w, S) /\ S.step \in {"bump", "write"} /\ S.closed = R.closed
               /\ S.from = R.from /\ S.mark = R.mark /\ S.horizon = R.horizon
               /\ S.batch = R.batch /\ S.got = {}
  <2>1. CASE EndLoop(w)
    <3> DEFINE S == [R EXCEPT !.got = {}, !.known = {}, !.credits = 0, !.step = AfterLoop(w)]
    <3>1. Set(w, S) /\ AfterLoop(w) \in {"bump", "write"}
      BY <2>1 DEF EndLoop, AfterLoop
    <3>2. /\ S.step \in {"bump", "write"} /\ S.closed = R.closed
          /\ S.from = R.from /\ S.mark = R.mark /\ S.horizon = R.horizon
          /\ S.batch = R.batch /\ S.got = {}
      BY <1>1, <3>1 DEF RunState
    <3> QED
      BY <3>1, <3>2
  <2>2. CASE Bump(w)
    <3> DEFINE S == [R EXCEPT !.step = "write", !.fresh = {}]
    <3>1. Set(w, S) /\ R.step = "bump"
      BY <2>2 DEF Bump
    <3>2. /\ S.step \in {"bump", "write"} /\ S.closed = R.closed
          /\ S.from = R.from /\ S.mark = R.mark /\ S.horizon = R.horizon
          /\ S.batch = R.batch /\ S.got = R.got
      BY <1>1 DEF RunState
    <3>3. R.got = {}
      BY <1>1, <3>1 DEF Covers, Emptied
    <3> QED
      BY <3>1, <3>2, <3>3
  <2> QED
    BY <2>1, <2>2
<1>3. UNCHANGED <<held, since, handled, skipped, cut, lost>> /\ R.step \in {"mirror", "bump"}
  BY DEF EndLoop, Bump, history
<1>4. /\ \A e \in Upstream(held) : At[e] \in Nat
      /\ R.mark \in Nat /\ R.horizon \in Nat /\ R.got \subseteq Event
  BY <1>1, EventTimes DEF RunState
<1> HIDE DEF R
<1>5. Emptied(S, cut[w]) /\ FromCovers(S, lost[w], held, handled, skipped)
  BY <1>1, <1>2, <1>3 DEF Covers, Emptied, FromCovers
<1>6. LoopCovers(S, lost[w], held, handled, skipped)
  <2> SUFFICES ASSUME R.closed, NEW e \in Upstream(held)
               PROVE  \/ SettledBy(e, handled) \/ e \in skipped \cup lost[w]
                      \/ At[e] >= R.mark
    BY <1>2 DEF LoopCovers
  <2>1. \/ SettledBy(e, handled) \/ e \in skipped \cup lost[w]
        \/ At[e] >= R.mark
        \/ At[e] > R.horizon /\ R.horizon >= R.mark
        \/ e \in R.got
    BY <1>1, <1>3 DEF Covers, LoopCovers
  <2>2. e \in R.got => R.step = "mirror" /\ At[e] >= R.mark
    BY <1>1, <1>3 DEF Covers, Emptied
  <2>3. At[e] > R.horizon /\ R.horizon >= R.mark => At[e] >= R.mark
    BY <1>4
  <2> QED
    BY <2>1, <2>2, <2>3
<1>7. Covers(S, cut[w], lost[w], held, handled', skipped)
  BY <1>2, <1>3, <1>5, <1>6 DEF Covers, PageCovers, WindowCovers
<1> QED
  BY <1>2, <1>3, <1>7, SameHistory, QuietRunCovers

LEMMA WriteSinceCovers ==
    ASSUME IInv, StrandInv, NEW w \in Cron, WriteSince(w)
    PROVE  StrandInv'
<1> DEFINE R == run[w]
<1>1. /\ R \in RunState /\ R.step = "write" /\ UNCHANGED <<held, handled, cut>>
      /\ Covers(R, cut[w], lost[w], held, handled, skipped)
      /\ Upstream(held) \subseteq Event /\ lost[w] \subseteq Event
  BY RunIs DEF WriteSince
<1>2. Only(w, Idle, {}, {})
  <2>1. cut[w] = {}
    BY <1>1 DEF Covers, Emptied
  <2> QED
    BY <1>1, <2>1 DEF WriteSince, Only, StrandInv, HistoryOK
<1>3. /\ \A e \in Upstream(held) : At[e] \in Nat
      /\ R.mark \in Nat /\ R.horizon \in Nat
  BY <1>1, EventTimes DEF RunState
<1>4. Clamped(w) \in Nat /\ Clamped(w) <= R.mark
  BY <1>3 DEF Clamped
<1>5. \/ since' = since /\ skipped' = skipped
      \/ /\ R.closed
         /\ since' = Clamped(w)
         /\ skipped' = skipped \cup {e \in lost[w] : At[e] < Clamped(w)}
  BY DEF WriteSince, Moves
<1>6. skipped \subseteq skipped' /\ skipped' \subseteq Event
  BY <1>1, <1>5 DEF StrandInv, HistoryOK
<1>7. Accounted(held, handled', skipped', since')
  <2>1. CASE since' = since
    BY <1>1, <1>6, <2>1 DEF StrandInv, Accounted
  <2>2. CASE /\ R.closed
             /\ since' = Clamped(w)
             /\ skipped' = skipped \cup {e \in lost[w] : At[e] < Clamped(w)}
    <3> SUFFICES ASSUME NEW e \in Upstream(held), At[e] < Clamped(w)
                 PROVE  SettledBy(e, handled) \/ e \in skipped'
      BY <1>1, <2>2 DEF Accounted
    <3>1. ~(At[e] >= R.mark) /\ ~(At[e] > R.horizon /\ R.horizon >= R.mark)
      BY <1>3, <1>4
    <3>2. e \notin R.got
      BY <1>1 DEF Covers, Emptied
    <3>3. SettledBy(e, handled) \/ e \in skipped \cup lost[w]
      BY <1>1, <2>2, <3>1, <3>2 DEF Covers, LoopCovers
    <3> QED
      BY <2>2, <3>3
  <2> QED
    BY <1>5, <2>1, <2>2
<1>8. Covers(Idle, {}, {}, held, handled', skipped')
  BY IdleCovers
<1> QED
  BY <1>1, <1>2, <1>6, <1>7, <1>8, OneRunCovers

LEMMA FailCovers ==
    ASSUME IInv, StrandInv, NEW w \in Cron, Fail(w)
    PROVE  StrandInv'
<1>1. cut[w] = {} /\ UNCHANGED <<held, since, handled, skipped, cut>>
  BY DEF Fail, StrandInv, Covers, Emptied
<1>2. Only(w, Idle, {}, {})
  BY <1>1 DEF Fail, Only, StrandInv, HistoryOK
<1>3. Covers(Idle, {}, {}, held, handled', skipped)
  BY IdleCovers
<1> QED
  BY <1>1, <1>2, <1>3, QuietRunCovers

\* The clock, the user and other clients.
LEMMA WorldCovers ==
    ASSUME IInv, StrandInv, UNCHANGED <<held, run, since, cut, lost, skipped>>,
           handled \subseteq handled'
    PROVE  StrandInv'
<1>1. \A e : SettledBy(e, handled) => SettledBy(e, handled')
  BY DEF SettledBy
<1>2. Accounted(held, handled', skipped, since)
  BY <1>1 DEF StrandInv, Accounted
<1>3. ASSUME NEW w \in Cron
      PROVE  Covers(run[w], cut[w], lost[w], held, handled', skipped)
  BY RunIs, CoversGrows
<1> QED
  BY <1>2, <1>3 DEF StrandInv, HistoryOK

LEMMA PublishCovers ==
    ASSUME IInv, StrandInv, NEW e \in Event, Publish(e)
    PROVE  StrandInv'
<1>1. /\ e \in Genuine /\ UNCHANGED <<run, since, handled, cut>>
      /\ skipped' = IF At[e] < since THEN skipped \cup {e} ELSE skipped
      /\ lost' = [w \in Cron |->
                    IF run[w].step = "idle" \/ e \in run[w].got \cup run[w].batch
                    THEN lost[w] ELSE lost[w] \cup {e}]
      /\ \A r \in Relay : held'[r] \subseteq held[r] \cup {e}
  BY DEF Publish, Newest1
<1>2. HistoryOK'
  BY <1>1 DEF StrandInv, HistoryOK
<1>3. Accounted(held', handled, skipped', since)
  <2> SUFFICES ASSUME NEW d \in Upstream(held'), At[d] < since
               PROVE  SettledBy(d, handled) \/ d \in skipped'
    BY DEF Accounted
  <2>1. d \in Upstream(held) \/ d = e
    BY <1>1 DEF Upstream
  <2>2. skipped \subseteq skipped' /\ (At[e] < since => e \in skipped')
    BY <1>1
  <2> QED
    BY <2>1, <2>2 DEF StrandInv, Accounted
<1>4. ASSUME NEW w \in Cron
      PROVE  Covers(run[w], cut[w], lost'[w], held', handled, skipped')
  <2>1. /\ lost[w] \subseteq lost'[w]
        /\ run[w].step = "idle" \/ e \in lost'[w] \cup run[w].got \cup run[w].batch
    BY <1>1
  <2>2. skipped \subseteq skipped'
    BY <1>1
  <2> DEFINE G == held'
             M == lost'[w]
             J == skipped'
  <2>3. \A r \in Relay : \A d \in G[r] \cap Genuine :
           d \in held[r] \/ run[w].step = "idle" \/ d \in M \cup run[w].got \cup run[w].batch
    BY <1>1, <2>1
  <2>4. lost[w] \subseteq M /\ skipped \subseteq J
    BY <2>1, <2>2
  <2> HIDE DEF G, M, J
  <2>5. Covers(run[w], cut[w], M, G, handled, J)
    BY <2>3, <2>4, RunIs, CoversGrows
  <2> QED
    BY <2>5 DEF G, M, J
<1> QED
  BY <1>1, <1>2, <1>3, <1>4 DEF StrandInv

LEMMA StrandStep ==
    ASSUME IInv, StrandInv, [Next]_vars
    PROVE  StrandInv'
<1>1. ASSUME NEW w \in Cron, RunStep(w) \/ Fail(w) \/ \E r \in Relay : BreakOff(w, r)
      PROVE  StrandInv'
  BY <1>1, BeginCovers, AnswerCovers, EndPageCovers, LookupCovers, SkipFutureCovers,
     PassStoredCovers, MirrorNextCovers, EndLoopCovers, WriteSinceCovers, FailCovers,
     BreakOffCovers DEF RunStep
<1>2. CASE Tick
  BY <1>2, WorldCovers DEF Tick, history
<1>3. ASSUME NEW e \in Event, Publish(e)
      PROVE  StrandInv'
  BY <1>3, PublishCovers
<1>4. ASSUME NEW e \in Event, MirrorElsewhere(e)
      PROVE  StrandInv'
  BY <1>4, WorldCovers DEF MirrorElsewhere, history
<1>5. CASE UNCHANGED vars
  BY <1>5, WorldCovers DEF vars, history
<1> QED
  BY <1>1, <1>2, <1>3, <1>4, <1>5 DEF Next

LEMMA StrandInit ==
    ASSUME Init
    PROVE  StrandInv
<1>1. /\ since = 0 /\ run = [w \in Cron |-> Idle] /\ skipped = {}
      /\ cut = [w \in Cron |-> {}] /\ lost = [w \in Cron |-> {}]
  BY DEF Init
<1>2. Accounted(held, handled, skipped, since)
  <2>1. \A e \in Genuine : ~(At[e] < 0)
    BY EventTimes
  <2> QED
    BY <1>1, <2>1 DEF Accounted, Upstream
<1>3. \A w \in Cron : Covers(run[w], cut[w], lost[w], held, handled, skipped)
  BY <1>1, IdleCovers
<1> QED
  BY <1>1, <1>2, <1>3 DEF StrandInv, HistoryOK

LEMMA StrandInvariance == Spec => [](IInv /\ StrandInv)
<1>1. Init => StrandInv
  BY StrandInit
<1>2. IInv /\ StrandInv /\ [Next]_vars => StrandInv'
  BY StrandStep
<1> QED
  BY <1>1, <1>2, RefreshInvariance, PTL DEF Spec

\* A refresh never asks for more than REFRESH_MAX_PAGES pages or verifies more
\* than REFRESH_VERIFY_CAP new events, and only genuine events are stored.
THEOREM RefreshTypes == Spec => []TypeOK
<1>1. IInv /\ StrandInv => TypeOK
  BY DEF IInv, StrandInv, TypeOK
<1> QED
  BY StrandInvariance, <1>1, PTL

\* Of any number of relays that truncate, break off, forge and fill up while refreshes
\* overlap and fail, the watermark passes unmirrored only posts that no run could have
\* met: cut off by one relay's limit while another's events took the next page further
\* back, in the rest of an answer that broke off, or new on the relays during the run
\* or below the watermark.
THEOREM WatermarkStrandsNothingElse == Spec => []NothingElseStranded
<1>1. StrandInv => NothingElseStranded
  <2>1. Genuine \cap OnRelays = Upstream(held)
    BY DEF Upstream, OnRelays
  <2> QED
    BY <2>1 DEF StrandInv, Accounted, NothingElseStranded, Settled, SettledBy
<1> QED
  BY StrandInvariance, <1>1, PTL
=============================================================================
