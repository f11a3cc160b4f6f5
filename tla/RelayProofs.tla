---------------------------- MODULE RelayProofs -----------------------------
(***************************************************************************)
(* RelayDO for any number of sockets, handlers, authors and messages: the  *)
(* types, and what the cached allowlist verdict can let through.  The      *)
(* argument is that every attachment and every copy of one that a running  *)
(* handler holds carries a bounded verdict, so writing a stale copy back   *)
(* (which does lose a re-authentication) never widens who may publish.     *)
(***************************************************************************)
EXTENDS RelayDO, TLAPS

\* A verdict lasts AllowFor from now at most, and from the block of its key.
Bounded(a) ==
    a.until > 0 =>
        /\ a.key \in Key
        /\ a.until <= now + AllowFor
        /\ a.key \in allowed \/ a.until <= barred[a.key] + AllowFor

\* The steps of handleEvent after the allowlist.
Past == {"limit", "mirror", "servable", "fanout"}

HandlerOK(r) ==
    Active(r) =>
        /\ Bounded(run[r].copy)
        /\ run[r].began <= now
        /\ run[r].step = "lookup" => run[r].copy.key \in Key
        /\ run[r].step \in Past \cup {"lookup"} => run[r].copy.key = Author[Ev(r)]
        /\ run[r].step \in Past => run[r].began < run[r].copy.until

VerdictInv ==
    /\ \A k \in Key : barred[k] <= now
    /\ \A c \in Conn : Bounded(att[c])
    /\ \A r \in Request : HandlerOK(r)

\* The frame in hand is of the type the step is for; a query has a filter to read.
FramesFit ==
    \A r \in Request :
        /\ run[r].step \in {"query", "put"} => Msg(r).type = "req"
        /\ run[r].step = "query" => run[r].next \in DOMAIN Clauses[Msg(r).filter]

IInv == TypeOK /\ FramesFit /\ VerdictInv

-----------------------------------------------------------------------------
LEMMA MessageTypes ==
    ASSUME NEW m \in Message
    PROVE  /\ m.type = "event" => m.ev \in Event
           /\ m.type = "req" => m.sub \in SubId /\ m.filter \in Filter
           /\ m.type = "close" => m.sub \in SubId
           /\ m.type = "auth" => m.key \in Key \cup {NoKey}
<1>1. m \in Messages
  BY RelayAssumption
<1>2. QED
  BY <1>1 DEF Messages

LEMMA ClauseTypes ==
    ASSUME NEW f \in Filter
    PROVE  /\ Len(Clauses[f]) \in Nat \ {0}
           /\ DOMAIN Clauses[f] = 1..Len(Clauses[f])
           /\ \A i \in DOMAIN Clauses[f] : Clauses[f][i].match \in SUBSET Event
<1>1. Clauses[f] \in Seq(Clause) \ {<< >>}
  BY FilterAssumption
<1>2. Len(Clauses[f]) \in Nat \ {0} /\ DOMAIN Clauses[f] = 1..Len(Clauses[f])
  BY <1>1
<1>3. \A i \in DOMAIN Clauses[f] : Clauses[f][i] \in Clause
  BY <1>1, <1>2
<1> QED
  BY <1>2, <1>3 DEF Clause

LEMMA NewestAmong == \A events, n : Newest(events, n) \subseteq events
BY DEF Newest

LEMMA MixFields ==
    ASSUME mix \in Mixes
    PROVE  /\ mix.start \in 0..MaxTime
           /\ mix.allowed \in SUBSET Key /\ mix.moderated \in SUBSET Key
           /\ mix.messages \in SUBSET Message
<1>1. mix \in MixType
  BY RelayAssumption
<1>2. QED
  BY <1>1 DEF MixType

LEMMA InitOK == Init => IInv
<1> SUFFICES ASSUME Init PROVE IInv
  OBVIOUS
<1>m. mix.start \in 0..MaxTime /\ mix.allowed \in SUBSET Key
  BY MixFields DEF Init
<1>1. TypeOK
  BY <1>m, RelayAssumption DEF Init, TypeOK, Anonymous, Attachment
<1>2. VerdictInv
  BY <1>m, RelayAssumption DEF Init, VerdictInv, Bounded, HandlerOK, Active, Idle, Anonymous
<1>3. FramesFit
  BY DEF Init, FramesFit, Idle
<1>4. QED
  BY <1>1, <1>2, <1>3 DEF IInv

-----------------------------------------------------------------------------
(***************************************************************************)
(* Types, one lemma per piece that several actions share.                  *)
(***************************************************************************)
HandlerSteps == {"lookup", "limit", "mirror", "servable", "fanout", "flush", "query", "put"}

LEMMA LoseTypes ==
    ASSUME TypeOK, NEW cs \in SUBSET Conn, Lose(cs)
    PROVE  /\ state' \in [Conn -> {"new", "open", "gone"}]
           /\ att' \in [Conn -> Attachment]
           /\ believed' \in [Conn -> Key \cup {NoKey}]
           /\ asked' \subseteq Row
BY DEF TypeOK, Lose, Anonymous, Attachment

LEMMA DropTypes ==
    ASSUME TypeOK, NEW c \in Conn, DropConn(c)
    PROVE  /\ subs' \subseteq Row
           /\ window' \in [Conn -> [start : Nat, count : 0..MaxMessages]]
           /\ attempts' \in [Conn -> 0..MaxAuthAttempts]
BY RelayAssumption DEF TypeOK, DropConn

LEMMA ForgetTypes ==
    /\ [c \in Conn |-> [start |-> 0, count |-> 0]]
          \in [Conn -> [start : Nat, count : 0..MaxMessages]]
    /\ [c \in Conn |-> 0] \in [Conn -> 0..MaxAuthAttempts]
    /\ [r \in Request |-> Idle] \in [Request -> {Idle}]
BY RelayAssumption

LEMMA AdmitTypes ==
    ASSUME TypeOK, NEW c \in Conn, NEW m, Admit(c, m)
    PROVE  /\ m \in Message
           /\ window' \in [Conn -> [start : Nat, count : 0..MaxMessages]]
<1>1. Counted(c) \in [start : Nat, count : Nat]
  BY RelayAssumption DEF TypeOK, Counted
<1>2. Counted(c) \in [start : Nat, count : 0..MaxMessages]
  BY <1>1, RelayAssumption DEF Admit
<1>3. QED
  BY <1>2, MixFields DEF TypeOK, Admit, Arrive

LEMMA BeginTypes ==
    ASSUME TypeOK, NEW r \in Request, NEW c \in Conn, NEW m \in Message,
           NEW s \in HandlerSteps, Begin(r, c, m, s)
    PROVE  run' \in [Request -> Handler \cup {Idle}]
<1>1. [step |-> s, frame |-> [conn |-> c, msg |-> m], copy |-> att[c], updated |-> FALSE,
       began |-> now, next |-> 1, rows |-> {}] \in Handler
  BY RelayAssumption DEF TypeOK, Handler, HandlerSteps, Frame
<1>2. QED
  BY <1>1 DEF Begin, TypeOK

LEMMA StepTypes ==
    ASSUME TypeOK, NEW r \in Request, NEW s \in HandlerSteps, Active(r), Step(r, s)
    PROVE  run' \in [Request -> Handler \cup {Idle}]
<1>1. run[r] \in Handler
  BY DEF TypeOK, Active, Idle
<1>2. [run[r] EXCEPT !.step = s] \in Handler
  BY <1>1 DEF Handler, HandlerSteps
<1>3. QED
  BY <1>2 DEF Step, TypeOK

LEMMA FinishTypes ==
    ASSUME TypeOK, NEW r \in Request, Finish(r)
    PROVE  run' \in [Request -> Handler \cup {Idle}]
BY DEF Finish, TypeOK

\* A running handler's parts.
LEMMA HandlerTypes ==
    ASSUME TypeOK, NEW r \in Request, Active(r)
    PROVE  /\ run[r] \in Handler
           /\ run[r].copy \in Attachment
           /\ run[r].began \in Nat
           /\ Sender(r) \in Conn
           /\ Msg(r) \in Message
<1>1. run[r] \in Handler
  BY DEF TypeOK, Active, Idle
<1>2. QED
  BY <1>1 DEF Handler, Frame, Sender, Msg

LEMMA FlushTypes ==
    ASSUME TypeOK, NEW r \in Request, Active(r), Flush(r)
    PROVE  att' \in [Conn -> Attachment]
BY HandlerTypes DEF Flush, TypeOK

\* The type invariant is inductive: a frame arrives.
LEMMA ReceiveTypes ==
    ASSUME TypeOK, NEW c \in Conn, NEW m \in Message, Receive(c, m)
    PROVE  TypeOK'
<1>s. {"lookup", "limit", "query"} \subseteq HandlerSteps
  BY DEF HandlerSteps
<1>1. CASE TooMany(c, m)
  BY <1>1, LoseTypes, DropTypes DEF TooMany, TypeOK, clock
<1>2. CASE TakeJunk(c, m)
  BY <1>2, AdmitTypes DEF TakeJunk, TypeOK, clock, history
<1>3. CASE TakeClose(c, m)
  BY <1>3, AdmitTypes DEF TakeClose, TypeOK, clock, Named
<1>4. CASE TooManyAuths(c, m)
  BY <1>4, LoseTypes, DropTypes DEF TooManyAuths, TypeOK, clock
<1>5. CASE FailAuth(c, m)
  <2>1. attempts' \in [Conn -> 0..MaxAuthAttempts]
    BY <1>5, RelayAssumption DEF FailAuth, TypeOK
  <2>2. QED
    BY <1>5, <2>1, AdmitTypes DEF FailAuth, TypeOK, clock, history
<1>6. CASE TakeAuth(c, m)
  <2>1. attempts' \in [Conn -> 0..MaxAuthAttempts]
    BY <1>6, RelayAssumption DEF TakeAuth, TypeOK
  <2>2. m.key \in Key \cup {NoKey}
    BY <1>6, MessageTypes DEF TakeAuth
  <2>3. att' \in [Conn -> Attachment] /\ believed' \in [Conn -> Key \cup {NoKey}]
    BY <1>6, <2>2 DEF TakeAuth, TypeOK, Reauthed, Attachment
  <2>4. QED
    BY <1>6, <2>1, <2>3, AdmitTypes DEF TakeAuth, TypeOK, clock
<1>8. CASE RefuseReq(c, m)
  BY <1>8, AdmitTypes DEF RefuseReq, TypeOK, clock, history
<1>9. CASE RefuseEvent(c, m)
  BY <1>9, AdmitTypes DEF RefuseEvent, TypeOK, clock, history
<1>10. ASSUME NEW r \in Request, TakeReq(r, c, m) PROVE TypeOK'
  <2>1. run' \in [Request -> Handler \cup {Idle}]
    BY <1>10, <1>s, BeginTypes DEF TakeReq
  <2>2. m.sub \in SubId /\ m.filter \in Filter
    BY <1>10, MessageTypes DEF TakeReq
  <2>3. asked' \subseteq Row
    BY <1>10, <2>2 DEF TakeReq, TypeOK, Named, Row
  <2>4. QED
    BY <1>10, <2>1, <2>3, AdmitTypes DEF TakeReq, TypeOK, clock
<1>11. ASSUME NEW r \in Request, TakeEvent(r, c, m) PROVE TypeOK'
  <2>1. run' \in [Request -> Handler \cup {Idle}]
    BY <1>11, <1>s, BeginTypes DEF TakeEvent
  <2>2. QED
    BY <1>11, <2>1, AdmitTypes DEF TakeEvent, TypeOK, clock, history
<1>12. QED
  BY <1>1, <1>2, <1>3, <1>4, <1>5, <1>6, <1>8, <1>9, <1>10, <1>11 DEF Receive

\* A handler goes on after an await.
LEMMA ResumeTypes ==
    ASSUME TypeOK, FramesFit, NEW r \in Request, Resume(r)
    PROVE  TypeOK'
<1>s. {"limit", "mirror", "servable", "fanout", "flush", "put"} \subseteq HandlerSteps
  BY Zenon DEF HandlerSteps
<1>a. Active(r)
  BY DEF Resume, LookUp, Limit, Mirror, Refuse, ReadServable, FanOut, Return, QueryStored,
     PutSub, Fail, Active
<1>h. /\ run[r] \in Handler /\ Sender(r) \in Conn /\ Msg(r) \in Message
      /\ run[r].began \in Nat
  BY <1>a, HandlerTypes
<1>1. CASE LookUp(r)
  <2>1. Granted(r) \in Handler
    <3>1. /\ run[r].copy.key \in Key \cup {NoKey}
          /\ run[r].began + AllowFor \in Nat
      BY <1>h, RelayAssumption DEF Handler, Attachment
    <3>2. [key |-> run[r].copy.key, until |-> run[r].began + AllowFor] \in Attachment
      BY <3>1 DEF Attachment
    <3>3. QED
      BY <1>h, <3>2 DEF Granted, Handler
  <2>2. run' \in [Request -> Handler \cup {Idle}]
    BY <1>1, <2>1, FinishTypes DEF LookUp, TypeOK
  <2>3. QED
    BY <1>1, <2>2 DEF LookUp, TypeOK, clock, memory, history
<1>2. CASE Limit(r)
  BY <1>2, <1>s, <1>a, StepTypes DEF Limit, TypeOK, clock, memory, history
<1>3. CASE Mirror(r)
  BY <1>3, <1>s, <1>a, StepTypes DEF Mirror, TypeOK, clock, memory
<1>4. CASE Refuse(r)
  BY <1>4, <1>s, <1>a, StepTypes DEF Refuse, TypeOK, clock, memory, history
<1>5. CASE ReadServable(r)
  BY <1>5, <1>s, <1>a, StepTypes DEF ReadServable, TypeOK, clock, memory, history
<1>6. CASE FanOut(r)
  BY <1>6, <1>a, FlushTypes, FinishTypes DEF FanOut, TypeOK, clock, memory
<1>7. CASE Return(r)
  BY <1>7, <1>a, FlushTypes, FinishTypes DEF Return, TypeOK, clock, memory, history
<1>8. CASE QueryStored(r)
  <2> DEFINE clauses == Clauses[Msg(r).filter]
             clause == clauses[run[r].next]
             merged == run[r].rows \cup Read(clause)
             last == run[r].next = Len(clauses)
             rows == IF last THEN Newest(merged, Max({clauses[i].limit : i \in DOMAIN clauses}))
                     ELSE merged
             step == IF last THEN "put" ELSE "query"
  <2>1. run' = [run EXCEPT ![r].step = step, ![r].next = @ + 1, ![r].rows = rows]
    BY <1>8 DEF QueryStored
  <2>2. Msg(r).filter \in Filter /\ run[r].next \in DOMAIN clauses
    BY <1>8, <1>h, MessageTypes DEF QueryStored, FramesFit
  <2>3. clause.match \subseteq Event
    BY <2>2, ClauseTypes
  <2>4. Read(clause) \subseteq Event /\ run[r].rows \subseteq Event /\ run[r].next \in Nat
    BY <1>h, <2>3 DEF Read, Handler
  <2> HIDE DEF clause
  <2>5. merged \subseteq Event
    BY <2>4
  <2> HIDE DEF merged
  <2>6. rows \subseteq Event /\ step \in {"put", "query"}
    BY <2>5, NewestAmong
  <2> HIDE DEF rows, step, last
  <2>7. [run[r] EXCEPT !.step = step, !.next = @ + 1, !.rows = rows] \in Handler
    <3>1. run[r].next + 1 \in Nat
      BY <2>4
    <3> QED
      BY <1>h, <2>6, <3>1 DEF Handler
  <2>8. run' \in [Request -> Handler \cup {Idle}]
    BY <2>1, <2>7 DEF TypeOK
  <2>9. QED
    BY <1>8, <2>8 DEF QueryStored, TypeOK, clock, memory
<1>9. CASE PutSub(r)
  <2>1. Msg(r).sub \in SubId /\ Msg(r).filter \in Filter
    BY <1>9, <1>h, MessageTypes DEF PutSub, FramesFit
  <2>2. subs' \subseteq Row
    BY <1>9, <1>h, <2>1 DEF PutSub, TypeOK, Row, Named
  <2>3. QED
    BY <1>9, <2>2, FinishTypes DEF PutSub, TypeOK, clock, memory
<1>10. CASE Fail(r)
  BY <1>10, <1>s, <1>a, StepTypes, FinishTypes DEF Fail, TypeOK, clock, memory, history
<1>11. QED
  BY <1>1, <1>2, <1>3, <1>4, <1>5, <1>6, <1>7, <1>8, <1>9, <1>10 DEF Resume

LEMMA TypeStep ==
    ASSUME TypeOK, FramesFit, [Next]_vars
    PROVE  TypeOK'
<1>1. ASSUME NEW c \in Conn, NEW m \in Message, Receive(c, m) PROVE TypeOK'
  BY <1>1, ReceiveTypes
<1>2. ASSUME NEW r \in Request, Resume(r) PROVE TypeOK'
  BY <1>2, ResumeTypes
<1>3. ASSUME NEW c \in Conn, Upgrade(c) PROVE TypeOK'
  BY <1>3 DEF Upgrade, TypeOK, Anonymous, Attachment, clock, memory, history
<1>4. ASSUME NEW c \in Conn, CloseSocket(c) PROVE TypeOK'
  BY <1>4, LoseTypes, DropTypes DEF CloseSocket, TypeOK, clock
<1>5. CASE Hibernate
  BY <1>5, ForgetTypes DEF Hibernate, TypeOK, clock, history
<1>6. CASE Evict
  <2>1. Live \in SUBSET Conn
    BY DEF Live
  <2>2. QED
    BY <1>6, <2>1, LoseTypes, ForgetTypes DEF Evict, TypeOK, clock
<1>7. CASE MirrorElsewhere
  BY <1>7 DEF MirrorElsewhere, TypeOK, clock, memory
<1>8. CASE Claim
  BY <1>8, MixFields DEF Claim, TypeOK, memory, history
<1>9. CASE Block
  BY <1>9 DEF Block, TypeOK, memory, history
<1>10. CASE Tick
  BY <1>10, RelayAssumption DEF Tick, TypeOK, memory, history
<1>11. CASE UNCHANGED vars
  BY <1>11 DEF vars, TypeOK, clock, memory, history
<1>12. QED
  BY <1>1, <1>2, <1>3, <1>4, <1>5, <1>6, <1>7, <1>8, <1>9, <1>10, <1>11
     DEF Next, Work, Sockets, Elsewhere

-----------------------------------------------------------------------------
(***************************************************************************)
(* Which handlers a step changes, and how.                                 *)
(***************************************************************************)

\* A step leaves a handler alone, ends it, starts it with the attachment of its
\* socket, moves it on with its frame, copy and start, or looks its author up.
Kept(q) == run'[q] = run[q]
Ended(q) == run'[q] = Idle

Moved(q, s) ==
    /\ Active(q)
    /\ run'[q].step = s
    /\ run'[q].frame = run[q].frame
    /\ run'[q].copy = run[q].copy
    /\ run'[q].began = run[q].began

LEMMA StepMoves ==
    ASSUME TypeOK, NEW r \in Request, NEW s, Active(r), Step(r, s), NEW q \in Request
    PROVE  IF q = r THEN Moved(q, s) ELSE Kept(q)
<1>1. run[r] \in Handler
  BY HandlerTypes
<1>2. QED
  BY <1>1 DEF Step, TypeOK, Moved, Kept, Handler

LEMMA FinishEnds ==
    ASSUME TypeOK, NEW r \in Request, Finish(r), NEW q \in Request
    PROVE  IF q = r THEN Ended(q) ELSE Kept(q)
BY DEF Finish, TypeOK, Ended, Kept

\* The read of one filter.
LEMMA QueryMoves ==
    ASSUME TypeOK, NEW r \in Request, QueryStored(r)
    PROVE  /\ Active(r) /\ run[r].step = "query"
           /\ \E s \in {"query", "put"} : Moved(r, s)
           /\ run'[r].next = run[r].next + 1
           /\ (run'[r].step = "put") = (run[r].next = Len(Clauses[Msg(r).filter]))
           /\ run'[r].rows \subseteq run[r].rows \cup Read(Clauses[Msg(r).filter][run[r].next])
           /\ lacks' = [lacks EXCEPT ![r] = @
                \cup ((Visible \cap Clauses[Msg(r).filter][run[r].next].match)
                         \ Read(Clauses[Msg(r).filter][run[r].next]))
                \cup ((run[r].rows \cup Read(Clauses[Msg(r).filter][run[r].next])) \ run'[r].rows)]
<1> DEFINE clauses == Clauses[Msg(r).filter]
           clause == clauses[run[r].next]
           merged == run[r].rows \cup Read(clause)
           last == run[r].next = Len(clauses)
           rows == IF last THEN Newest(merged, Max({clauses[i].limit : i \in DOMAIN clauses}))
                   ELSE merged
           step == IF last THEN "put" ELSE "query"
<1>1. /\ run' = [run EXCEPT ![r].step = step, ![r].next = @ + 1, ![r].rows = rows]
      /\ lacks' = [lacks EXCEPT ![r] = @ \cup ((Visible \cap clause.match) \ Read(clause))
                                         \cup (merged \ rows)]
      /\ run[r].step = "query"
  BY DEF QueryStored
<1>2. rows \subseteq merged /\ step \in {"put", "query"} /\ (step = "put") = last
  BY NewestAmong
<1> HIDE DEF rows, step
<1>3. Active(r) /\ run[r] \in Handler
  BY <1>1, HandlerTypes DEF Active
<1>4. /\ run'[r].step = step /\ run'[r].next = run[r].next + 1 /\ run'[r].rows = rows
      /\ run'[r].frame = run[r].frame /\ run'[r].copy = run[r].copy
      /\ run'[r].began = run[r].began
  BY <1>1, <1>3, Zenon DEF TypeOK, Handler
<1> QED
  BY <1>1, <1>2, <1>3, <1>4 DEF Moved

\* A step of another handler, or of none, keeps handler q.
LEMMA OthersKept ==
    ASSUME TypeOK, NEW r \in Request, Resume(r), NEW q \in Request, q # r
    PROVE  Kept(q)
BY DEF Resume, LookUp, Limit, Mirror, Refuse, ReadServable, FanOut, Return, QueryStored,
   PutSub, Fail, Step, Finish, TypeOK, Kept

LEMMA FramesStep ==
    ASSUME TypeOK, FramesFit, [Next]_vars
    PROVE  FramesFit'
<1> DEFINE Fits(q) ==
        /\ run'[q].step \in {"query", "put"} => run'[q].frame.msg.type = "req"
        /\ run'[q].step = "query" => run'[q].next \in DOMAIN Clauses[run'[q].frame.msg.filter]
<1>k. ASSUME NEW q \in Request, Kept(q) \/ Ended(q) PROVE Fits(q)
  BY <1>k DEF Kept, Ended, FramesFit, Idle, Msg
<1>1. ASSUME NEW c \in Conn, NEW m \in Message, Receive(c, m), NEW q \in Request
      PROVE  Fits(q)
  <2>1. ASSUME NEW r \in Request, TakeReq(r, c, m) \/ TakeEvent(r, c, m) PROVE Fits(q)
    <3>1. CASE q = r /\ TakeReq(r, c, m)
      <4>1. /\ run'[q].step = "query" /\ run'[q].next = 1 /\ run'[q].frame.msg = m
            /\ m.type = "req"
        BY <3>1 DEF TakeReq, Begin, TypeOK
      <4>2. 1 \in DOMAIN Clauses[m.filter]
        BY <4>1, MessageTypes, ClauseTypes
      <4> QED
        BY <4>1, <4>2
    <3>2. CASE q # r
      BY <2>1, <3>2, <1>k DEF TakeReq, TakeEvent, Begin, TypeOK, Kept
    <3>3. CASE q = r /\ TakeEvent(r, c, m)
      BY <3>3 DEF TakeEvent, Begin, TypeOK
    <3> QED
      BY <2>1, <3>1, <3>2, <3>3
  <2>2. CASE UNCHANGED run
    BY <2>2, <1>k DEF Kept
  <2>3. QED
    BY <1>1, <2>1, <2>2 DEF Receive, TooMany, TakeJunk, TakeClose, TooManyAuths, FailAuth,
       TakeAuth, RefuseReq, RefuseEvent
<1>2. ASSUME NEW r \in Request, Resume(r), NEW q \in Request PROVE Fits(q)
  <2>a. Active(r) /\ run[r] \in Handler
    BY <1>2, HandlerTypes DEF Resume, LookUp, Limit, Mirror, Refuse, ReadServable, FanOut,
       Return, QueryStored, PutSub, Fail, Active
  <2>1. CASE q # r
    BY <1>2, <2>1, <1>k, OthersKept
  <2>2. CASE q = r /\ QueryStored(r)
    <3>1. /\ run[r].step = "query" /\ run'[r].frame = run[r].frame
          /\ run'[r].next = run[r].next + 1 /\ Msg(r) \in Message
          /\ (run'[r].step = "put") = (run[r].next = Len(Clauses[Msg(r).filter]))
      BY <2>2, <2>a, QueryMoves, HandlerTypes DEF Moved
    <3>2. Msg(r).type = "req" /\ run[r].next \in DOMAIN Clauses[Msg(r).filter]
      BY <3>1 DEF FramesFit
    <3>3. run'[r].step # "put" => run'[r].next \in DOMAIN Clauses[Msg(r).filter]
      BY <3>1, <3>2, MessageTypes, ClauseTypes
    <3> QED
      BY <2>2, <3>1, <3>2, <3>3 DEF Msg
  <2>3. CASE q = r /\ ~QueryStored(r)
    <3>1. CASE LookUp(r)
      <4>1. CASE run' = [run EXCEPT ![r] = Granted(r)]
        <5>1. Granted(r).step \in {"flush", "limit"}
          BY <2>a DEF Granted, Handler
        <5>2. QED
          BY <2>3, <4>1, <5>1 DEF TypeOK
      <4>2. QED
        BY <2>3, <3>1, <4>1, <1>k, FinishEnds DEF LookUp
    <3>2. CASE FanOut(r) \/ Return(r) \/ PutSub(r)
      BY <2>3, <3>2, <1>k, FinishEnds DEF FanOut, Return, PutSub
    <3>3. CASE Limit(r) \/ Mirror(r) \/ Refuse(r) \/ ReadServable(r)
      <4>1. PICK s \in {"mirror", "servable", "fanout", "flush"} : Step(r, s)
        BY <3>3 DEF Limit, Mirror, Refuse, ReadServable
      <4>2. QED
        BY <2>a, <2>3, <4>1 DEF Step, TypeOK, Handler
    <3>4. CASE Fail(r)
      <4>1. CASE Finish(r)
        BY <2>3, <4>1, <1>k, FinishEnds
      <4>2. CASE Step(r, "flush")
        BY <2>a, <2>3, <4>2 DEF Step, TypeOK, Handler
      <4>3. QED
        BY <3>4, <4>1, <4>2 DEF Fail
    <3>5. QED
      BY <1>2, <2>3, <3>1, <3>2, <3>3, <3>4 DEF Resume
  <2>4. QED
    BY <2>1, <2>2, <2>3, Zenon
<1>3. ASSUME Sockets \/ Elsewhere \/ UNCHANGED vars, NEW q \in Request PROVE Fits(q)
  <2>1. Kept(q) \/ Ended(q)
    BY <1>3 DEF Sockets, Upgrade, CloseSocket, Hibernate, Evict, Elsewhere, MirrorElsewhere,
       Claim, Block, Tick, vars, Kept, Ended
  <2>2. QED
    BY <2>1, <1>k
<1>4. QED
  BY <1>1, <1>2, <1>3 DEF Next, Work, FramesFit, Msg

-----------------------------------------------------------------------------
(***************************************************************************)
(* Verdicts.                                                               *)
(***************************************************************************)

\* What stays of a bounded verdict when time passes and keys come and go.
Later ==
    /\ now' \in Int /\ now' >= now
    /\ \A k \in Key : /\ barred'[k] \in Int /\ barred'[k] >= barred[k]
                      /\ k \in allowed => k \in allowed' \/ barred'[k] = now
                      /\ barred'[k] <= now'

LEMMA ClockStep ==
    ASSUME TypeOK, VerdictInv, [Next]_vars
    PROVE  Later
<1>t. /\ now \in Int /\ \A k \in Key : barred[k] \in Int /\ barred[k] <= now
  BY RelayAssumption DEF TypeOK, VerdictInv
<1>1. ASSUME UNCHANGED clock PROVE Later
  BY <1>1, <1>t DEF Later, clock
<1>2. ASSUME NEW c \in Conn, NEW m \in Message, Receive(c, m) PROVE UNCHANGED clock
  BY <1>2 DEF Receive, TooMany, TakeJunk, TakeClose, TooManyAuths, FailAuth,
     TakeAuth, RefuseReq, RefuseEvent, TakeReq, TakeEvent
<1>3. ASSUME NEW r \in Request, Resume(r) PROVE UNCHANGED clock
  BY <1>3 DEF Resume, LookUp, Limit, Mirror, Refuse, ReadServable, FanOut, Return,
     QueryStored, PutSub, Fail
<1>4. ASSUME Sockets \/ MirrorElsewhere \/ UNCHANGED vars PROVE UNCHANGED clock
  BY <1>4 DEF Sockets, Upgrade, CloseSocket, Hibernate, Evict, MirrorElsewhere, vars
<1>5. ASSUME Claim \/ Tick PROVE Later
  BY <1>5, <1>t DEF Claim, Tick, Later
<1>6. ASSUME Block PROVE Later
  BY <1>6, <1>t DEF Block, Later, TypeOK
<1>7. QED
  BY <1>1, <1>2, <1>3, <1>4, <1>5, <1>6 DEF Next, Work, Elsewhere

\* Bounded after the step, of a verdict as it is.
BoundedAfter(a) ==
    a.until > 0 =>
        /\ a.key \in Key
        /\ a.until <= now' + AllowFor
        /\ a.key \in allowed' \/ a.until <= barred'[a.key] + AllowFor

\* A bounded verdict stays bounded.
LEMMA BoundedStays ==
    ASSUME TypeOK, Later
    PROVE  \A a \in Attachment : Bounded(a) => BoundedAfter(a)
<1>1. SUFFICES ASSUME NEW a \in Attachment, Bounded(a), a.until > 0
               PROVE  /\ a.key \in Key
                      /\ a.until <= now' + AllowFor
                      /\ a.key \in allowed' \/ a.until <= barred'[a.key] + AllowFor
  BY DEF BoundedAfter
<1>2. /\ a.key \in Key /\ a.until <= now + AllowFor
      /\ a.key \in allowed \/ a.until <= barred[a.key] + AllowFor
  BY <1>1 DEF Bounded
<1>3. now \in Int /\ barred[a.key] \in Int /\ a.until \in Int /\ AllowFor \in Int
  BY <1>2, RelayAssumption DEF TypeOK, Attachment
<1>4. QED
  BY <1>2, <1>3, RelayAssumption DEF Later

\* So a handler that is kept, ended or moved within the ladder stays sound.
LEMMA HandlerStays ==
    ASSUME TypeOK, VerdictInv, Later, NEW q \in Request,
           Kept(q) \/ Ended(q) \/ \E s \in HandlerSteps \ {"lookup"} :
                 Moved(q, s) /\ (s \in Past => run[q].step \in Past)
    PROVE  HandlerOK(q)'
<1>1. CASE Ended(q)
  BY <1>1 DEF Ended, HandlerOK, Active, Idle
<1>2. ASSUME Active(q), run'[q].copy = run[q].copy, run'[q].began = run[q].began,
             run'[q].frame = run[q].frame,
             run'[q].step \in Past => run[q].step \in Past,
             run'[q].step = "lookup" => run[q].step = "lookup"
      PROVE  HandlerOK(q)'
  <2>1. HandlerOK(q) /\ run[q].copy \in Attachment /\ run[q].began \in Int
    BY <1>2, HandlerTypes DEF VerdictInv
  <2>2. BoundedAfter(run[q].copy)
    BY <1>2, <2>1, BoundedStays DEF HandlerOK
  <2>3. run'[q].began <= now'
    BY <1>2, <2>1 DEF HandlerOK, Later, TypeOK
  <2>4. QED
    BY <1>2, <2>1, <2>2, <2>3 DEF HandlerOK, Ev, Msg, Bounded, BoundedAfter
<1>3. CASE Kept(q) /\ ~Active(q)
  BY <1>3 DEF Kept, HandlerOK, Active
<1>4. CASE Kept(q) /\ Active(q)
  BY <1>2, <1>4 DEF Kept
<1>5. ASSUME NEW s \in HandlerSteps \ {"lookup"}, Moved(q, s), s \in Past => run[q].step \in Past
      PROVE  HandlerOK(q)'
  BY <1>2, <1>5 DEF Moved
<1>6. QED
  BY <1>1, <1>3, <1>4, <1>5

\* Attachments: a step either keeps one, resets it, re-authenticates it without
\* a verdict, or stores the copy of a handler, bounded like the rest.
LEMMA AttachmentStep ==
    ASSUME TypeOK, VerdictInv, Later, [Next]_vars, NEW d \in Conn
    PROVE  BoundedAfter(att'[d])
<1>a. ASSUME att'[d] = att[d] PROVE BoundedAfter(att'[d])
  BY <1>a, BoundedStays DEF VerdictInv, TypeOK
<1>z. ASSUME att'[d].until = 0 PROVE BoundedAfter(att'[d])
  BY <1>z DEF BoundedAfter
<1>1. ASSUME NEW c \in Conn, NEW m \in Message, Receive(c, m) PROVE BoundedAfter(att'[d])
  <2>1. att'[d] = att[d] \/ att'[d].until = 0
    BY <1>1 DEF Receive, TooMany, TakeJunk, TakeClose, TooManyAuths, FailAuth, Reauthed,
       TakeAuth, RefuseReq, RefuseEvent, TakeReq, TakeEvent, Lose, Anonymous, TypeOK
  <2>2. QED
    BY <2>1, <1>a, <1>z
<1>2. ASSUME NEW r \in Request, Resume(r) PROVE BoundedAfter(att'[d])
  <2>a. Active(r) /\ run[r].copy \in Attachment
    BY <1>2, HandlerTypes, Zenon DEF Resume, LookUp, Limit, Mirror, Refuse, ReadServable, FanOut,
       Return, QueryStored, PutSub, Fail, Active
  <2>1. att'[d] = att[d] \/ att'[d] = run[r].copy
    BY <1>2 DEF Resume, LookUp, Limit, Mirror, Refuse, ReadServable, FanOut, Return, Flush,
       QueryStored, PutSub, Fail, TypeOK
  <2>2. BoundedAfter(run[r].copy)
    BY <2>a, BoundedStays DEF VerdictInv, HandlerOK
  <2>3. QED
    BY <2>1, <2>2, <1>a, Zenon
<1>3. ASSUME Sockets \/ Elsewhere \/ UNCHANGED vars PROVE BoundedAfter(att'[d])
  <2>1. att'[d] = att[d] \/ att'[d].until = 0
    <3>1. ASSUME Sockets PROVE att'[d] = att[d] \/ att'[d].until = 0
      <4>1. ASSUME NEW e \in Conn, Upgrade(e) PROVE att'[d] = att[d] \/ att'[d].until = 0
        BY <4>1 DEF Upgrade, Anonymous, TypeOK
      <4>2. ASSUME NEW cs, Lose(cs) PROVE att'[d] = att[d] \/ att'[d].until = 0
        BY <4>2 DEF Lose, Anonymous
      <4>3. CASE Hibernate
        BY <4>3 DEF Hibernate
      <4>4. QED
        BY <3>1, <4>1, <4>2, <4>3 DEF Sockets, CloseSocket, Evict
    <3>2. ASSUME Elsewhere \/ UNCHANGED vars PROVE att' = att
      BY <3>2 DEF Elsewhere, MirrorElsewhere, Claim, Block, Tick, vars
    <3>3. QED
      BY <1>3, <3>1, <3>2
  <2>2. QED
    BY <2>1, <1>a, <1>z
<1>4. QED
  BY <1>1, <1>2, <1>3 DEF Next, Work

\* A handler that starts takes over the verdict of its socket.
LEMMA HandlerStarts ==
    ASSUME TypeOK, VerdictInv, NEW r \in Request, NEW c \in Conn, NEW m \in Message,
           TakeReq(r, c, m) \/ TakeEvent(r, c, m)
    PROVE  HandlerOK(r)'
<1>1. UNCHANGED clock
  BY DEF TakeReq, TakeEvent
<1>2. PICK s \in {"query", "lookup", "limit"} :
        /\ run'[r].step = s /\ run'[r].copy = att[c] /\ run'[r].began = now
        /\ run'[r].frame.msg = m
        /\ s \in {"lookup", "limit"} => m.type = "event" /\ att[c].key = Author[m.ev]
        /\ s = "limit" => now < att[c].until
  <2>1. CASE TakeReq(r, c, m)
    BY <2>1 DEF TakeReq, Begin, TypeOK
  <2>2. CASE TakeEvent(r, c, m)
    BY <2>2 DEF TakeEvent, Begin, TypeOK
  <2>3. QED
    BY <2>1, <2>2
<1>3. Bounded(att[c])
  BY DEF VerdictInv
<1>4. s \in {"lookup", "limit"} => att[c].key \in Key
  BY <1>2, MessageTypes, RelayAssumption
<1>5. now' = now /\ allowed' = allowed /\ barred' = barred /\ now \in Int
  BY <1>1, RelayAssumption DEF clock, TypeOK
<1>6. QED
  BY <1>2, <1>3, <1>4, <1>5 DEF HandlerOK, Bounded, Ev, Msg, Past

\* A verdict D1 grants starts at the arrival of the frame.
LEMMA HandlerGranted ==
    ASSUME TypeOK, VerdictInv, NEW r \in Request, LookUp(r),
           run' = [run EXCEPT ![r] = Granted(r)], run[r].copy.key \in allowed
    PROVE  HandlerOK(r)'
<1>1. Active(r) /\ run[r] \in Handler /\ run[r].began \in Nat
  BY HandlerTypes DEF LookUp, Active
<1>2. run'[r] = Granted(r)
  BY DEF TypeOK
<1>3. /\ Granted(r).step \in {"flush", "limit"}
      /\ Granted(r).copy = [key |-> run[r].copy.key, until |-> run[r].began + AllowFor]
      /\ Granted(r).began = run[r].began
      /\ Granted(r).frame = run[r].frame
  BY <1>1 DEF Granted, Handler
<1>4. /\ run[r].began <= now
      /\ run[r].copy.key \in Key
      /\ run[r].copy.key = Author[Ev(r)]
  BY <1>1 DEF VerdictInv, HandlerOK, LookUp
<1>5. now' = now /\ allowed' = allowed /\ barred' = barred /\ now \in Int
  BY RelayAssumption DEF LookUp, clock, TypeOK
<1>6. /\ run[r].began + AllowFor <= now + AllowFor
      /\ run[r].began < run[r].began + AllowFor
  BY <1>1, <1>4, <1>5, RelayAssumption
<1>7. Bounded(run[r].copy)'
  BY <1>2, <1>3, <1>4, <1>5, <1>6 DEF Bounded
<1>8. QED
  BY <1>2, <1>3, <1>4, <1>5, <1>6, <1>7 DEF HandlerOK, Ev, Msg, Past

LEMMA HandlersStep ==
    ASSUME TypeOK, VerdictInv, Later, [Next]_vars, NEW q \in Request
    PROVE  HandlerOK(q)'
<1>1. ASSUME NEW c \in Conn, NEW m \in Message, Receive(c, m) PROVE HandlerOK(q)'
  <2>1. ASSUME NEW r \in Request, TakeReq(r, c, m) \/ TakeEvent(r, c, m) PROVE HandlerOK(q)'
    <3>1. CASE q = r
      BY <2>1, <3>1, HandlerStarts
    <3>2. CASE q # r
      <4>1. Kept(q)
        BY <2>1, <3>2 DEF TakeReq, TakeEvent, Begin, TypeOK, Kept
      <4>2. QED
        BY <4>1, HandlerStays
    <3>3. QED
      BY <3>1, <3>2
  <2>2. CASE UNCHANGED run
    BY <2>2, HandlerStays DEF Kept
  <2>3. QED
    BY <1>1, <2>1, <2>2 DEF Receive, TooMany, TakeJunk, TakeClose, TooManyAuths, FailAuth,
       TakeAuth, RefuseReq, RefuseEvent
<1>2. ASSUME NEW r \in Request, Resume(r) PROVE HandlerOK(q)'
  <2>a. Active(r) /\ run[r] \in Handler
    BY <1>2, HandlerTypes DEF Resume, LookUp, Limit, Mirror, Refuse, ReadServable, FanOut,
       Return, QueryStored, PutSub, Fail, Active
  <2>1. CASE q # r
    BY <1>2, <2>1, OthersKept, HandlerStays
  <2>2. ASSUME q = r, Finish(r) PROVE HandlerOK(q)'
    BY <2>2, FinishEnds, HandlerStays
  <2>3. ASSUME q = r, NEW s \in {"mirror", "servable", "fanout", "flush"}, Step(r, s),
               s \in Past => run[r].step \in Past
        PROVE  HandlerOK(q)'
    <3>1. Moved(q, s) /\ s \in HandlerSteps \ {"lookup"}
      BY <2>a, <2>3, StepMoves DEF HandlerSteps
    <3>2. QED
      BY <2>3, <3>1, HandlerStays
  <2>4. CASE q = r /\ LookUp(r)
    BY <2>2, <2>4, HandlerGranted DEF LookUp
  <2>5. CASE q = r /\ (Limit(r) \/ Mirror(r) \/ Refuse(r) \/ ReadServable(r))
    <3>1. PICK s \in {"mirror", "servable", "fanout", "flush"} : Step(r, s)
      BY <2>5 DEF Limit, Mirror, Refuse, ReadServable
    <3>2. run[r].step \in Past
      BY <2>5 DEF Limit, Mirror, Refuse, ReadServable, Past
    <3>3. QED
      BY <2>3, <2>5, <3>1, <3>2
  <2>6. CASE q = r /\ (FanOut(r) \/ Return(r) \/ PutSub(r))
    BY <2>2, <2>6 DEF FanOut, Return, PutSub
  <2>7. CASE q = r /\ QueryStored(r)
    <3>1. PICK s \in {"query", "put"} : Moved(q, s)
      BY <2>7, QueryMoves
    <3>2. QED
      BY <3>1, HandlerStays DEF HandlerSteps, Past
  <2>8. CASE q = r /\ Fail(r)
    BY <2>2, <2>3, <2>8 DEF Fail, Past
  <2>9. QED
    BY <1>2, <2>1, <2>4, <2>5, <2>6, <2>7, <2>8, Zenon DEF Resume
<1>3. ASSUME Sockets \/ Elsewhere \/ UNCHANGED vars PROVE HandlerOK(q)'
  <2>1. Kept(q) \/ Ended(q)
    BY <1>3 DEF Sockets, Upgrade, CloseSocket, Hibernate, Evict, Elsewhere, MirrorElsewhere,
       Claim, Block, Tick, vars, Kept, Ended
  <2>2. QED
    BY <2>1, HandlerStays
<1>4. QED
  BY <1>1, <1>2, <1>3 DEF Next, Work

LEMMA VerdictStep == IInv /\ [Next]_vars => VerdictInv'
<1> SUFFICES ASSUME TypeOK, VerdictInv, [Next]_vars PROVE VerdictInv'
  BY DEF IInv
<1>1. Later
  BY ClockStep
<1>2. \A c \in Conn : Bounded(att[c])'
  BY <1>1, AttachmentStep DEF Bounded, BoundedAfter
<1>3. \A r \in Request : HandlerOK(r)'
  BY <1>1, HandlersStep
<1>4. QED
  BY <1>1, <1>2, <1>3 DEF VerdictInv, Later

-----------------------------------------------------------------------------
\* The inductive invariant of the relay object.
THEOREM RelayInvariance == Spec => []IInv
<1>1. Init => IInv
  BY InitOK
<1>2. IInv /\ [Next]_vars => IInv'
  BY TypeStep, FramesStep, VerdictStep DEF IInv
<1>3. QED
  BY <1>1, <1>2, PTL DEF Spec

\* The tables, attachments and counters of the object keep their types.
THEOREM RelayTypes == Spec => []TypeOK
<1>1. IInv => TypeOK
  BY DEF IInv
<1>2. QED
  BY <1>1, RelayInvariance, PTL

\* No interleaving of AUTH and EVENT handlers makes a cached verdict outlive a
\* block by more than the cache time, or pass to another key.
THEOREM VerdictsBounded == Spec => []VerdictBounded
<1>1. IInv => VerdictBounded
  BY RelayAssumption DEF IInv, VerdictInv, Bounded, VerdictBounded
<1>2. QED
  BY <1>1, RelayInvariance, PTL

\* No event of a blocked author is accepted that arrived after the cache time.
THEOREM AcceptedAllowed == Spec => []AcceptedWasAllowed
<1>1. ASSUME IInv, NEW r \in Request, run[r].step \in Past
      PROVE  \/ Author[Ev(r)] \in allowed
             \/ run[r].began < barred[Author[Ev(r)]] + AllowFor
  <2>1. Active(r) /\ run[r].copy \in Attachment /\ run[r].began \in Nat
    BY <1>1, HandlerTypes DEF IInv, Active, Past
  <2>2. /\ Bounded(run[r].copy)
        /\ run[r].copy.key = Author[Ev(r)]
        /\ run[r].began < run[r].copy.until
    BY <1>1, <2>1 DEF IInv, VerdictInv, HandlerOK
  <2>3. run[r].copy.until \in Nat
    BY <2>1 DEF Attachment
  <2>4. /\ Author[Ev(r)] \in Key
        /\ \/ Author[Ev(r)] \in allowed
           \/ run[r].copy.until <= barred[Author[Ev(r)]] + AllowFor
    BY <2>1, <2>2, <2>3 DEF Bounded
  <2>5. barred[Author[Ev(r)]] \in Int /\ AllowFor \in Int
    BY <1>1, <2>4, RelayAssumption DEF IInv, TypeOK
  <2>6. QED
    BY <2>1, <2>2, <2>3, <2>4, <2>5
<1>2. IInv => AcceptedWasAllowed
  BY <1>1 DEF AcceptedWasAllowed, Past
<1>3. QED
  BY <1>2, RelayInvariance, PTL

-----------------------------------------------------------------------------
(***************************************************************************)
(* The feed.  An event that lost its slot, or was hidden in it, is not      *)
(* visible again; so a REQ misses nothing of what was fanned out before its *)
(* D1 read.                                                                *)
(***************************************************************************)
StoreOK ==
    /\ winner \in [Address -> Event \cup {NoEvent}]
    /\ \A a \in Address : winner[a] # NoEvent => Slot(winner[a]) = a

\* The store has had the event, or a newer one of its address.
Passed(e) == winner[Slot(e)] # NoEvent /\ Loses(winner[Slot(e)], e)

LEMMA PutForward ==
    ASSUME StoreOK, NEW x \in Event, Put(x)
    PROVE  /\ StoreOK'
           /\ Passed(x)'
           /\ \A e \in Event : Passed(e) => Passed(e)' /\ (e \in Visible' => e \in Visible)
<1> DEFINE s == Slot(x)
<1>1. /\ s \in Address /\ winner' = [winner EXCEPT ![s] = x] /\ Wins(x)
      /\ hidden \ {winner[s]} \subseteq hidden'
  BY StoreAssumption DEF Put
<1>2. StoreOK'
  BY <1>1 DEF StoreOK
<1>3. winner'[s] = x /\ \A a \in Address \ {s} : winner'[a] = winner[a]
  BY <1>1 DEF StoreOK
<1>4. Passed(x)'
  BY <1>3, StoreAssumption DEF Passed
<1>5. ASSUME NEW e \in Event, Passed(e)
      PROVE  Passed(e)' /\ (e \in Visible' => e \in Visible)
  <2>1. CASE Slot(e) # s
    <3>1. Slot(e) \in Address /\ winner'[Slot(e)] = winner[Slot(e)]
      BY <1>3, <2>1, StoreAssumption
    <3>2. ASSUME e \in Visible'
          PROVE  e \in Visible
      <4>1. PICK a \in Address : winner'[a] = e
        BY <3>2 DEF Visible, Winners
      <4>2. a = Slot(e) /\ winner[Slot(e)] = e
        BY <1>2, <3>1, <4>1, StoreAssumption DEF StoreOK
      <4>3. e # winner[s]
        BY <1>1, <2>1, StoreAssumption DEF StoreOK
      <4>4. e \in Winners /\ e \notin hidden
        BY <1>1, <3>1, <3>2, <4>2, <4>3, StoreAssumption DEF Visible, Winners
      <4> QED
        BY <4>4 DEF Visible
    <3> QED
      BY <1>5, <3>1, <3>2 DEF Passed
  <2>2. CASE Slot(e) = s
    <3>1. winner[s] \in Event /\ Loses(winner[s], e)
      BY <1>1, <1>5, <2>2 DEF Passed, StoreOK
    <3>2. ~Loses(winner[s], x)
      BY <1>1, <3>1, StoreAssumption DEF Wins
    <3>3. Loses(x, e)
      BY <3>1, <3>2, StoreAssumption
    <3>4. e # x
      BY <3>1, <3>2
    <3>5. e \notin Visible'
      BY <1>2, <1>3, <2>2, <3>4, StoreAssumption DEF Visible, Winners, StoreOK
    <3>6. Passed(e)'
      BY <1>3, <2>2, <3>3, StoreAssumption DEF Passed
    <3> QED
      BY <3>5, <3>6
  <2> QED
    BY <2>1, <2>2
<1> QED
  BY <1>2, <1>4, <1>5

LEMMA EraseForward ==
    ASSUME StoreOK, NEW x \in Event, Erase(x)
    PROVE  /\ StoreOK'
           /\ Passed(x)'
           /\ \A e \in Event : Passed(e) => Passed(e)' /\ (e \in Visible' => e \in Visible)
<1> DEFINE s == Slot(x)
<1>1. /\ s \in Address /\ hidden \subseteq hidden'
      /\ \/ Wins(x) /\ winner' = [winner EXCEPT ![s] = x]
         \/ ~Wins(x) /\ winner' = winner
  BY StoreAssumption DEF Erase
<1>2. StoreOK'
  BY <1>1 DEF StoreOK
<1>3. ~Wins(x) => Passed(x)
  BY DEF Wins, Passed
<1>4. Wins(x) => /\ winner'[s] = x
                 /\ \A a \in Address \ {s} : winner'[a] = winner[a]
  BY <1>1 DEF StoreOK
<1>5. Passed(x)'
  BY <1>1, <1>3, <1>4, StoreAssumption DEF Passed
<1>6. ASSUME NEW e \in Event, Passed(e)
      PROVE  Passed(e)' /\ (e \in Visible' => e \in Visible)
  <2>1. CASE winner' = winner
    BY <1>1, <1>6, <2>1 DEF Passed, Visible, Winners
  <2>2. CASE Wins(x) /\ Slot(e) # s
    <3>1. Slot(e) \in Address /\ winner'[Slot(e)] = winner[Slot(e)]
      BY <1>4, <2>2, StoreAssumption
    <3>2. ASSUME e \in Visible'
          PROVE  e \in Visible
      <4>1. PICK a \in Address : winner'[a] = e
        BY <3>2 DEF Visible, Winners
      <4>2. a = Slot(e) /\ winner[Slot(e)] = e
        BY <1>2, <3>1, <4>1, StoreAssumption DEF StoreOK
      <4>3. e \in Winners /\ e \notin hidden
        BY <1>1, <3>1, <3>2, <4>2, StoreAssumption DEF Visible, Winners
      <4> QED
        BY <4>3 DEF Visible
    <3> QED
      BY <1>6, <3>1, <3>2 DEF Passed
  <2>3. CASE Wins(x) /\ Slot(e) = s
    <3>1. winner[s] \in Event /\ Loses(winner[s], e)
      BY <1>1, <1>6, <2>3 DEF Passed, StoreOK
    <3>2. ~Loses(winner[s], x)
      BY <2>3, <3>1, StoreAssumption DEF Wins
    <3>3. Loses(x, e) /\ e # x
      BY <3>1, <3>2, StoreAssumption
    <3>4. e \notin Visible'
      BY <1>2, <1>4, <2>3, <3>3, StoreAssumption DEF Visible, Winners, StoreOK
    <3>5. Passed(e)'
      BY <1>4, <2>3, <3>3, StoreAssumption DEF Passed
    <3> QED
      BY <3>4, <3>5
  <2> QED
    BY <1>1, <2>1, <2>2, <2>3
<1> QED
  BY <1>2, <1>5, <1>6

\* What no step takes back.
Forward ==
    /\ StoreOK'
    /\ \A e \in Event : Passed(e) => Passed(e)' /\ (e \in Visible' => e \in Visible)
    /\ shown \subseteq shown' /\ Visible' \subseteq shown'

\* Of the filters read so far, what the relay has fanned out is among the rows, or it is
\* among what the subscription will lack.
ReadSoFar(q) ==
    \A i \in DOMAIN Clauses[Msg(q).filter] : i < run[q].next =>
        \A e \in relayed \cap Visible \cap Clauses[Msg(q).filter][i].match :
            e \in run[q].rows \cup lacks[q]

\* What a running handler holds is right for its step.
HandlerFits(q) ==
    Active(q) =>
        /\ state[Sender(q)] # "new"
        /\ run[q].step \in Past \cup {"lookup"} => Msg(q).type = "event"
        /\ run[q].step \in {"servable", "fanout"} => Passed(Ev(q))
        /\ run[q].step = "fanout" /\ IsPost(Ev(q)) => Ev(q) \in shown
        /\ run[q].step \in {"query", "put"} => run[q].rows \subseteq shown /\ ReadSoFar(q)
        /\ run[q].step = "put" => run[q].next > Len(Clauses[Msg(q).filter])

FeedInv ==
    /\ StoreOK
    /\ lacks = [q \in Request |-> lacks[q]]
    /\ Visible \subseteq shown
    /\ \A e \in relayed : e \in Event /\ Passed(e)
    /\ \A q \in Request : HandlerFits(q)
    /\ TombstonesUnsent
    /\ NothingElseMissed

LEMMA HeldEvent ==
    ASSUME TypeOK, FeedInv, NEW r \in Request, run[r].step \in Past \cup {"lookup"}
    PROVE  Ev(r) \in Event /\ Active(r)
<1>1. Active(r) /\ Msg(r) \in Message
  BY HandlerTypes DEF Active, Past
<1> QED
  BY <1>1, MessageTypes DEF FeedInv, HandlerFits, Ev

LEMMA StoreStep ==
    ASSUME TypeOK, FeedInv, [Next]_vars
    PROVE  Forward
<1>1. CASE UNCHANGED <<store, shown>>
  BY <1>1 DEF Forward, FeedInv, StoreOK, Passed, Visible, Winners, store
<1>2. ASSUME NEW x \in Event, Put(x) \/ Erase(x), shown' = shown \cup Visible'
      PROVE  Forward
  BY <1>2, PutForward, EraseForward DEF Forward, FeedInv
<1>3. CASE UNCHANGED store /\ shown' = shown \cup Visible'
  BY <1>3 DEF Forward, FeedInv, StoreOK, Passed, Visible, Winners, store
<1>4. ASSUME NEW c \in Conn, NEW m \in Message, Receive(c, m)
      PROVE  UNCHANGED <<store, shown>>
  BY <1>4, Zenon DEF Receive, TooMany, TakeJunk, TakeClose, TooManyAuths, FailAuth, TakeAuth,
     RefuseReq, RefuseEvent, TakeReq, TakeEvent, Lose, history
<1>5. ASSUME NEW r \in Request, Resume(r), ~Mirror(r)
      PROVE  UNCHANGED <<store, shown>>
  BY <1>5 DEF Resume, LookUp, Limit, Refuse, ReadServable, FanOut, Return, QueryStored,
     PutSub, Fail, history
<1>6. ASSUME NEW r \in Request, Mirror(r)
      PROVE  Forward
  <2>1. Ev(r) \in Event
    BY <1>6, HeldEvent DEF Mirror, Past
  <2>2. /\ UNCHANGED store \/ Put(Ev(r)) \/ Erase(Ev(r))
        /\ shown' = shown \cup Visible'
    BY <1>6 DEF Mirror
  <2> QED
    BY <1>2, <1>3, <2>1, <2>2
<1>7. CASE MirrorElsewhere
  <2>1. mix.events \subseteq Event
    BY RelayAssumption DEF TypeOK, MixType
  <2>2. PICK e \in mix.events : Put(e) \/ Erase(e)
    BY <1>7 DEF MirrorElsewhere
  <2>3. shown' = shown \cup Visible'
    BY <1>7 DEF MirrorElsewhere
  <2> QED
    BY <1>2, <2>1, <2>2, <2>3
<1>8. CASE Sockets \/ Claim \/ Block \/ Tick \/ UNCHANGED vars
  <2>1. UNCHANGED <<store, shown>>
    BY <1>8 DEF Sockets, Upgrade, CloseSocket, Hibernate, Evict, Claim, Block, Tick, vars,
       Lose, history
  <2> QED
    BY <1>1, <2>1
<1> QED
  BY <1>1, <1>4, <1>5, <1>6, <1>7, <1>8 DEF Next, Work, Elsewhere

-----------------------------------------------------------------------------
\* Sockets open once, and what is fanned out while a REQ reads is noted as lacking.
Onward ==
    /\ \A c \in Conn : state'[c] = "new" => state[c] = "new"
    /\ \A c \in Live' : c \in Live \/ state[c] = "new"
    /\ \A e \in relayed' \ relayed :
          /\ e \in Event /\ Passed(e)
          /\ \A q \in Request : Reading(q) => e \in lacks'[q]

LEMMA OnwardStep ==
    ASSUME TypeOK, FeedInv, [Next]_vars
    PROVE  Onward
<1>1. CASE UNCHANGED <<state, relayed>>
  BY <1>1 DEF Onward, Live
<1>2. ASSUME NEW cs \in SUBSET Live, Lose(cs)
      PROVE  Onward
  <2>1. \A c \in Conn : state'[c] = IF c \in cs THEN "gone" ELSE state[c]
    BY <1>2 DEF Lose
  <2>2. relayed' = relayed
    BY <1>2 DEF Lose
  <2>3. \A c \in Live' : c \in Live /\ c \notin cs
    BY <2>1 DEF Live
  <2> QED
    BY <2>1, <2>2, <2>3 DEF Onward
<1>3. ASSUME NEW c \in Conn, NEW m \in Message, Receive(c, m)
      PROVE  Onward
  <2>1. CASE TooMany(c, m) \/ TooManyAuths(c, m)
    BY <1>2, <2>1 DEF TooMany, TooManyAuths, Arrive
  <2>2. CASE ~TooMany(c, m) /\ ~TooManyAuths(c, m)
    <3>1. UNCHANGED <<state, relayed>>
      BY <1>3, <2>2 DEF Receive, TakeJunk, TakeClose, FailAuth, TakeAuth, RefuseReq,
         RefuseEvent, TakeReq, TakeEvent, history
    <3> QED
      BY <1>1, <3>1
  <2> QED
    BY <2>1, <2>2
<1>4. ASSUME NEW r \in Request, Resume(r)
      PROVE  Onward
  <2>1. CASE FanOut(r)
    <3>1. /\ UNCHANGED state /\ run[r].step = "fanout"
          /\ relayed' = relayed \cup {Ev(r)}
          /\ \A q \in Request : Reading(q) => Ev(r) \in lacks'[q]
      BY <2>1 DEF FanOut
    <3>2. Ev(r) \in Event /\ Passed(Ev(r))
      BY <3>1, HeldEvent DEF Past, FeedInv, HandlerFits
    <3> QED
      BY <3>1, <3>2 DEF Onward, Live
  <2>2. CASE ~FanOut(r)
    <3>1. UNCHANGED <<state, relayed>>
      BY <1>4, <2>2 DEF Resume, LookUp, Limit, Mirror, Refuse, ReadServable, Return,
         QueryStored, PutSub, Fail, history
    <3> QED
      BY <1>1, <3>1, Zenon
  <2> QED
    BY <2>1, <2>2
<1>5. ASSUME NEW c \in Conn, Upgrade(c)
      PROVE  Onward
  BY <1>5 DEF Upgrade, Onward, Live, TypeOK, history
<1>6. ASSUME NEW c \in Conn, CloseSocket(c)
      PROVE  Onward
  BY <1>2, <1>6 DEF CloseSocket
<1>7. CASE Evict
  BY <1>2, <1>7 DEF Evict
<1>8. CASE Hibernate \/ Elsewhere \/ UNCHANGED vars
  <2>1. UNCHANGED <<state, relayed>>
    BY <1>8 DEF Hibernate, Elsewhere, MirrorElsewhere, Claim, Block, Tick, vars, history
  <2> QED
    BY <1>1, <2>1
<1> QED
  BY <1>3, <1>4, <1>5, <1>6, <1>7, <1>8 DEF Next, Work, Sockets

\* A handler that is left alone still fits.
LEMMA KeptFits ==
    ASSUME TypeOK, FramesFit, FeedInv, Forward, Onward, NEW q \in Request, Kept(q), lacks[q] \subseteq lacks'[q]
    PROVE  HandlerFits(q)'
<1> SUFFICES ASSUME Active(q)
             PROVE  HandlerFits(q)'
  BY DEF HandlerFits, Active, Kept
<1>1. /\ Sender(q) \in Conn /\ Sender(q)' = Sender(q) /\ Msg(q)' = Msg(q) /\ Ev(q)' = Ev(q)
      /\ run'[q] = run[q] /\ run[q].next \in Nat /\ Msg(q) \in Message
  BY HandlerTypes DEF Kept, Sender, Msg, Ev, Handler
<1>2. HandlerFits(q)
  BY DEF FeedInv
<1>3. state'[Sender(q)] # "new"
  BY <1>1, <1>2 DEF HandlerFits, Onward
<1>4. ASSUME run[q].step \in {"servable", "fanout"}
      PROVE  (Passed(Ev(q)))'
  BY <1>1, <1>2, <1>4, HeldEvent DEF HandlerFits, Forward, Past
<1>5. ASSUME run[q].step \in {"query", "put"}
      PROVE  /\ run[q].rows \subseteq shown'
             /\ ReadSoFar(q)'
  <2>1. run[q].rows \subseteq shown' /\ ReadSoFar(q)
    BY <1>2, <1>5 DEF HandlerFits, Forward
  <2>2. Msg(q).filter \in Filter
    BY <1>1, <1>5, MessageTypes DEF FramesFit
  <2> DEFINE clauses == Clauses[Msg(q).filter]
  <2>3. ASSUME NEW i \in DOMAIN clauses, i < run[q].next,
               NEW e \in relayed' \cap Visible' \cap clauses[i].match
        PROVE  e \in run[q].rows \cup lacks'[q]
    <3>1. Reading(q)
      <4>1. i \in Nat \ {0}
        BY <2>2, <2>3, ClauseTypes
      <4> QED
        BY <1>1, <1>5, <2>3, <4>1 DEF Reading
    <3>2. CASE e \in relayed
      <4>1. e \in Visible
        BY <2>3, <3>2 DEF FeedInv, Forward
      <4>2. e \in run[q].rows \cup lacks[q]
        BY <2>1, <2>3, <3>2, <4>1 DEF ReadSoFar
      <4> QED
        BY <4>2
    <3>3. CASE e \notin relayed
      BY <2>3, <3>1, <3>3 DEF Onward
    <3> QED
      BY <3>2, <3>3
  <2> QED
    BY <1>1, <2>1, <2>3 DEF ReadSoFar
<1> QED
  BY <1>1, <1>2, <1>3, <1>4, <1>5 DEF HandlerFits, Forward

LEMMA EndedFits ==
    ASSUME NEW q \in Request, Ended(q)
    PROVE  HandlerFits(q)'
BY DEF HandlerFits, Ended, Active, Idle

\* A handler that goes on with its frame, with what its new step needs.
LEMMA MovedFits ==
    ASSUME TypeOK, FeedInv, Forward, Onward, NEW q \in Request, Active(q), NEW s,
           run'[q].step = s, run'[q].frame = run[q].frame,
           s \in Past \cup {"lookup"} => run[q].step \in Past \cup {"lookup"},
           s \in {"servable", "fanout"} => (Passed(Ev(q)))',
           s = "fanout" /\ IsPost(Ev(q)) => Ev(q) \in shown,
           s \notin {"query", "put"}
    PROVE  HandlerFits(q)'
<1>1. /\ Sender(q) \in Conn /\ Sender(q)' = Sender(q) /\ Msg(q)' = Msg(q) /\ Ev(q)' = Ev(q)
  BY HandlerTypes DEF Sender, Msg, Ev
<1>2. HandlerFits(q)
  BY DEF FeedInv
<1>3. state'[Sender(q)] # "new"
  BY <1>1, <1>2 DEF HandlerFits, Onward
<1> QED
  BY <1>1, <1>2, <1>3 DEF HandlerFits, Forward

LEMMA ResumeFits ==
    ASSUME TypeOK, FramesFit, FeedInv, Forward, Onward, NEW q \in Request, Resume(q)
    PROVE  HandlerFits(q)'
<1>a. Active(q) /\ run[q] \in Handler
  BY HandlerTypes DEF Resume, LookUp, Limit, Mirror, Refuse, ReadServable, FanOut,
     Return, QueryStored, PutSub, Fail, Active
<1>e. CASE Finish(q)
  BY <1>e, FinishEnds, EndedFits
<1>s. ASSUME NEW s, Step(q, s)
      PROVE  run'[q].step = s /\ run'[q].frame = run[q].frame
  BY <1>a, <1>s, StepMoves DEF Moved
<1>1. CASE LookUp(q) /\ ~Finish(q)
  <2>1. /\ run'[q].step \in {"flush", "limit"} /\ run'[q].frame = run[q].frame
        /\ run[q].step = "lookup"
    <3>1. Granted(q).step \in {"flush", "limit"} /\ Granted(q).frame = run[q].frame
      BY <1>a DEF Granted, Handler
    <3>2. run'[q] = Granted(q) /\ run[q].step = "lookup"
      BY <1>1 DEF LookUp, TypeOK
    <3> QED
      BY <3>1, <3>2
  <2> QED
    BY <1>a, <2>1, MovedFits DEF Past
<1>2. CASE Limit(q)
  BY <1>a, <1>s, <1>2, MovedFits DEF Limit, Past
<1>3. CASE Mirror(q)
  <2>1. Ev(q) \in Event
    BY <1>3, HeldEvent DEF Mirror, Past
  <2>2. (Passed(Ev(q)))'
    <3>1. ASSUME NEW e \in Event, Known(e), UNCHANGED store
          PROVE  Passed(e)'
      BY <3>1, StoreAssumption DEF Known, Passed, store
    <3>2. ASSUME NEW e \in Event, Put(e) \/ Erase(e)
          PROVE  Passed(e)'
      BY <3>2, PutForward, EraseForward DEF FeedInv
    <3>3. /\ (Known(Ev(q)) /\ UNCHANGED store) \/ Put(Ev(q)) \/ Erase(Ev(q))
          /\ Step(q, "servable") \/ Step(q, "fanout")
      BY <1>3 DEF Mirror
    <3>4. Ev(q)' = Ev(q)
      BY <1>s, <3>3 DEF Ev, Msg
    <3>5. ASSUME NEW e \in Event, (Known(e) /\ UNCHANGED store) \/ Put(e) \/ Erase(e)
          PROVE  Passed(e)'
      BY <3>1, <3>2, <3>5
    <3> QED
      BY <2>1, <3>3, <3>4, <3>5 DEF Passed
  <2>3. PICK s : Step(q, s) /\ s = IF IsPost(Ev(q)) THEN "servable" ELSE "fanout"
    BY <1>3 DEF Mirror
  <2> QED
    BY <1>a, <1>s, <1>3, <2>2, <2>3, MovedFits DEF Mirror, Past
<1>4. CASE Refuse(q)
  BY <1>a, <1>s, <1>4, MovedFits DEF Refuse, Past
<1>5. CASE ReadServable(q)
  <2>1. run[q].step = "servable" /\ UNCHANGED store
    BY <1>5 DEF ReadServable
  <2>2. PICK s : Step(q, s) /\ s = IF Ev(q) \in Visible THEN "fanout" ELSE "flush"
    BY <1>5 DEF ReadServable
  <2>3. Ev(q)' = Ev(q)
    BY <1>s, <2>2 DEF Ev, Msg
  <2>4. Passed(Ev(q))
    BY <2>1, <1>a DEF FeedInv, HandlerFits
  <2>5. (Passed(Ev(q)))'
    BY <2>1, <2>3, <2>4 DEF Passed, store
  <2> QED
    BY <1>a, <1>s, <2>1, <2>2, <2>5, MovedFits DEF Past, FeedInv
<1>6. CASE FanOut(q) \/ Return(q) \/ PutSub(q)
  BY <1>e, <1>6 DEF FanOut, Return, PutSub
<1>7. CASE QueryStored(q)
  <2>1. HandlerFits(q) /\ run[q].step = "query" /\ UNCHANGED <<store, state, relayed, shown>>
    BY <1>7 DEF FeedInv, QueryStored
  <2>2. PICK s \in {"query", "put"} : Moved(q, s)
    BY <1>7, QueryMoves
  <2>3. /\ Sender(q)' = Sender(q) /\ Msg(q)' = Msg(q) /\ Visible' = Visible
        /\ run'[q].step = s
    BY <2>1, <2>2 DEF Moved, Sender, Msg, Visible, Winners, store
  <2>4. Msg(q).filter \in Filter /\ run[q].next \in DOMAIN Clauses[Msg(q).filter]
    BY <1>a, <2>1, HandlerTypes, MessageTypes DEF FramesFit
  <2> DEFINE clauses == Clauses[Msg(q).filter]
             clause == clauses[run[q].next]
  <2>5. /\ run'[q].next = run[q].next + 1
        /\ s = "put" => run[q].next = Len(clauses)
        /\ run'[q].rows \subseteq run[q].rows \cup Read(clause)
        /\ lacks' = [lacks EXCEPT ![q] = @ \cup ((Visible \cap clause.match) \ Read(clause))
                                   \cup ((run[q].rows \cup Read(clause)) \ run'[q].rows)]
    BY <1>7, <2>3, QueryMoves
  <2>6. lacks'[q] = lacks[q] \cup ((Visible \cap clause.match) \ Read(clause))
                      \cup ((run[q].rows \cup Read(clause)) \ run'[q].rows)
    <3>1. lacks = [r \in Request |-> lacks[r]]
      BY DEF FeedInv
    <3> HIDE DEF clause
    <3> QED
      BY <2>5, <3>1
  <2>7. run'[q].rows \subseteq shown'
    <3>1. Read(clause) \subseteq Visible
      BY NewestAmong DEF Read
    <3> QED
      BY <1>a, <2>1, <2>5, <3>1 DEF HandlerFits, FeedInv
  <2>8. ASSUME NEW i \in DOMAIN clauses, i < run[q].next + 1,
               NEW e \in relayed \cap Visible \cap clauses[i].match
        PROVE  e \in run'[q].rows \cup lacks'[q]
    <3>1. i < run[q].next \/ i = run[q].next
      <4>1. i \in Int /\ run[q].next \in Int
        BY <2>4, <2>8, ClauseTypes
      <4> QED
        BY <2>8, <4>1
    <3>2. CASE i < run[q].next
      <4>1. e \in run[q].rows \cup lacks[q]
        BY <1>a, <2>1, <2>8, <3>2 DEF HandlerFits, ReadSoFar
      <4> HIDE DEF clause
      <4> QED
        BY <2>6, <4>1
    <3>3. CASE i = run[q].next
      <4>1. e \in Visible \cap clause.match
        BY <2>8, <3>3
      <4> HIDE DEF clause
      <4> QED
        BY <2>6, <4>1
    <3> QED
      BY <3>1, <3>2, <3>3
  <2>9. ReadSoFar(q)'
    BY <2>1, <2>3, <2>5, <2>8 DEF ReadSoFar
  <2>10. s = "put" => run'[q].next > Len(clauses)
    BY <2>4, <2>5, ClauseTypes
  <2>11. state[Sender(q)] # "new"
    BY <1>a, <2>1 DEF HandlerFits
  <2> QED
    BY <2>1, <2>2, <2>3, <2>7, <2>9, <2>10, <2>11 DEF HandlerFits, Past
<1>8. CASE Fail(q) /\ ~Finish(q)
  BY <1>a, <1>s, <1>8, MovedFits DEF Fail, Past
<1> QED
  BY <1>e, <1>1, <1>2, <1>3, <1>4, <1>5, <1>6, <1>7, <1>8, Zenon DEF Resume

LEMMA HandlersFit ==
    ASSUME TypeOK, FramesFit, FeedInv, [Next]_vars, NEW q \in Request
    PROVE  HandlerFits(q)'
<1>1. Forward /\ Onward
  BY StoreStep, OnwardStep
<1>2. CASE (Kept(q) /\ lacks[q] \subseteq lacks'[q]) \/ Ended(q)
  BY <1>1, <1>2, KeptFits, EndedFits
<1>l. lacks = [r \in Request |-> lacks[r]]
  BY DEF FeedInv
<1>3. ASSUME NEW r \in Request, Resume(r)
      PROVE  HandlerFits(q)'
  <2>1. CASE q = r
    BY <1>1, <1>3, <2>1, ResumeFits
  <2>2. CASE q # r
    <3>1. lacks[q] \subseteq lacks'[q]
      <4>1. CASE FanOut(r)
        BY <4>1 DEF FanOut
      <4>2. CASE QueryStored(r)
        BY <1>l, <2>2, <4>2, QueryMoves
      <4>3. CASE ~FanOut(r) /\ ~QueryStored(r) /\ ~PutSub(r)
        BY <1>3, <4>3 DEF Resume, LookUp, Limit, Mirror, Refuse, ReadServable, Return, Fail,
           history
      <4>4. CASE PutSub(r)
        BY <1>l, <2>2, <4>4 DEF PutSub
      <4> QED
        BY <4>1, <4>2, <4>3, <4>4
    <3> QED
      BY <1>2, <1>3, <2>2, <3>1, OthersKept
  <2> QED
    BY <2>1, <2>2
<1>4. ASSUME NEW c \in Conn, NEW m \in Message, Receive(c, m)
      PROVE  HandlerFits(q)'
  <2>1. ASSUME NEW r \in Request, TakeReq(r, c, m) \/ TakeEvent(r, c, m)
        PROVE  HandlerFits(q)'
    <3>1. CASE q # r
      <4>1. Kept(q)
        BY <2>1, <3>1 DEF TakeReq, TakeEvent, Begin, TypeOK, Kept
      <4>2. lacks'[q] = lacks[q]
        BY <1>l, <2>1, <3>1 DEF TakeReq, TakeEvent, history
      <4> QED
        BY <1>2, <4>1, <4>2
    <3>2. CASE q = r
      <4>1. /\ state' = state /\ state[c] = "open"
            /\ run'[q].next = 1 /\ run'[q].rows = {}
            /\ run'[q].frame = [conn |-> c, msg |-> m]
            /\ run'[q].step \in {"query", "lookup", "limit"}
            /\ run'[q].step \in {"lookup", "limit"} => m.type = "event"
            /\ run'[q].step = "query" => m.type = "req"
        <5>1. CASE TakeReq(r, c, m)
          BY <3>2, <5>1 DEF TakeReq, Begin, Admit, Arrive, Live, TypeOK
        <5>2. CASE TakeEvent(r, c, m)
          BY <3>2, <5>2 DEF TakeEvent, Begin, Admit, Arrive, Live, TypeOK
        <5> QED
          BY <2>1, <5>1, <5>2
      <4>2. Sender(q)' = c /\ Msg(q)' = m
        BY <4>1 DEF Sender, Msg
      <4>3. run'[q].step = "query" => ReadSoFar(q)'
        <5> SUFFICES ASSUME m.type = "req"
                     PROVE  ReadSoFar(q)'
          BY <4>1
        <5>1. \A i \in DOMAIN Clauses[m.filter] : i \in Nat \ {0}
          BY MessageTypes, ClauseTypes
        <5>2. \A i \in DOMAIN Clauses[m.filter] : ~(i < 1)
          BY <5>1
        <5> QED
          BY <4>1, <4>2, <5>2 DEF ReadSoFar
      <4> QED
        BY <4>1, <4>2, <4>3 DEF HandlerFits, Past
    <3> QED
      BY <3>1, <3>2
  <2>2. CASE UNCHANGED <<run, lacks>>
    BY <1>2, <2>2 DEF Kept
  <2> QED
    BY <1>4, <2>1, <2>2 DEF Receive, TooMany, TakeJunk, TakeClose, TooManyAuths, FailAuth,
       TakeAuth, RefuseReq, RefuseEvent, Lose, history
<1>5. CASE Sockets \/ Elsewhere \/ UNCHANGED vars
  <2>1. (Kept(q) /\ lacks' = lacks) \/ Ended(q)
    BY <1>5 DEF Sockets, Upgrade, CloseSocket, Hibernate, Evict, Elsewhere, MirrorElsewhere,
       Claim, Block, Tick, vars, Kept, Ended, Lose, history
  <2> QED
    BY <1>2, <2>1
<1> QED
  BY <1>3, <1>4, <1>5 DEF Next, Work

-----------------------------------------------------------------------------
\* What was sent or missed on a socket stays so while it is open.
SeenStays ==
    /\ seen' \subseteq seen
    /\ \A t \in seen : t[1] \in Live' => t \in seen'
    /\ \A t \in missed : t[1] \in Live' => t \in missed'

\* A step with nothing fanned out and no subscription put.
LEMMA QuietFeed ==
    ASSUME TypeOK, FeedInv, Forward, Onward, SeenStays, relayed' = relayed,
           \A row \in subs' : row.conn \in Live' => row \in subs /\ row.conn \in Live
    PROVE  NothingElseMissed' /\ TombstonesUnsent'
<1>1. ASSUME NEW row \in subs', NEW e \in relayed', row.conn \in Live', e \in Visible',
             e \in Matches(row.filter)
      PROVE  <<row.conn, row.sub, e>> \in seen' \cup missed'
  <2>1. row \in subs /\ row.conn \in Live /\ e \in relayed /\ e \in Visible
    BY <1>1 DEF FeedInv, Forward
  <2>2. <<row.conn, row.sub, e>> \in seen \cup missed
    BY <1>1, <2>1 DEF FeedInv, NothingElseMissed
  <2> QED
    BY <1>1, <2>2 DEF SeenStays
<1>2. TombstonesUnsent'
  BY DEF FeedInv, TombstonesUnsent, SeenStays, Forward
<1> QED
  BY <1>1, <1>2 DEF NothingElseMissed

LEMMA FanOutFeed ==
    ASSUME TypeOK, FeedInv, Forward, Onward, NEW r \in Request, FanOut(r)
    PROVE  NothingElseMissed' /\ TombstonesUnsent'
<1> DEFINE x == Ev(r)
<1>1. /\ run[r].step = "fanout" /\ UNCHANGED <<store, state, subs, shown>>
      /\ seen' = seen \cup {<<row.conn, row.sub, x>> : row \in Reached(r)}
      /\ relayed' = relayed \cup {x} /\ missed' = missed
  BY DEF FanOut
<1>2. Live' = Live /\ Visible' = Visible
  BY <1>1 DEF Live, Visible, Winners, store
<1>3. Active(r) /\ (IsPost(x) => x \in shown)
  BY <1>1 DEF FeedInv, HandlerFits, Active
<1> HIDE DEF x
<1>4. TombstonesUnsent'
  <2>1. \A t \in seen' : t \in seen \/ t[3] = x
    BY <1>1
  <2> QED
    BY <1>1, <1>3, <2>1 DEF TombstonesUnsent, FeedInv
<1>5. ASSUME NEW row \in subs', NEW e \in relayed', row.conn \in Live', e \in Visible',
             e \in Matches(row.filter)
      PROVE  <<row.conn, row.sub, e>> \in seen' \cup missed'
  <2>1. CASE e = x
    <3>1. row \in Reached(r)
      BY <1>1, <1>2, <1>5, <2>1 DEF Reached, x
    <3> QED
      BY <1>1, <2>1, <3>1
  <2>2. CASE e \in relayed
    <3>1. <<row.conn, row.sub, e>> \in seen \cup missed
      BY <1>1, <1>2, <1>5, <2>2 DEF FeedInv, NothingElseMissed
    <3> QED
      BY <1>1, <3>1
  <2> QED
    BY <1>1, <1>5, <2>1, <2>2
<1> QED
  BY <1>4, <1>5 DEF NothingElseMissed

LEMMA PutSubFeed ==
    ASSUME TypeOK, FramesFit, FeedInv, Forward, Onward, NEW r \in Request, PutSub(r)
    PROVE  NothingElseMissed' /\ TombstonesUnsent'
<1> DEFINE c == Sender(r)
           s == Msg(r).sub
           f == Msg(r).filter
           Others(sent) == {t \in sent : ~(t[1] = c /\ t[2] = s)}
           new == [conn |-> c, sub |-> s, filter |-> f]
<1>1. /\ run[r].step = "put" /\ UNCHANGED <<store, state, relayed, shown>>
      /\ subs' = (subs \ Named(subs, c, s)) \cup {new}
      /\ seen' = Others(seen) \cup Of(r, run[r].rows)
      /\ missed' = Others(missed) \cup Of(r, lacks[r] \ run[r].rows)
  BY DEF PutSub
<1>2. Live' = Live /\ Visible' = Visible
  BY <1>1 DEF Live, Visible, Winners, store
<1>3. Active(r) /\ HandlerFits(r) /\ Msg(r) \in Message /\ f \in Filter /\ run[r].next \in Nat
  BY <1>1, HandlerTypes, MessageTypes DEF FeedInv, Active, FramesFit, Handler
<1>4. run[r].rows \subseteq shown
  BY <1>1, <1>3 DEF HandlerFits
<1>5. \A e \in relayed \cap Visible \cap Matches(f) : e \in run[r].rows \cup lacks[r]
  <2> SUFFICES ASSUME NEW e \in relayed \cap Visible, NEW i \in DOMAIN Clauses[f],
                      e \in Clauses[f][i].match
               PROVE  e \in run[r].rows \cup lacks[r]
    BY DEF Matches
  <2>1. ReadSoFar(r) /\ run[r].next > Len(Clauses[f])
    BY <1>1, <1>3 DEF HandlerFits
  <2>2. i < run[r].next
    BY <1>3, <2>1, ClauseTypes
  <2> QED
    BY <2>1, <2>2 DEF ReadSoFar
<1>6. new.conn = c /\ new.sub = s /\ new.filter = f
  OBVIOUS
<1>7. \A events : Of(r, events) = IF c \in Live THEN {<<c, s, e>> : e \in events} ELSE {}
  BY DEF Of
<1> HIDE DEF c, s, f, new
<1>8. TombstonesUnsent'
  <2>1. \A t \in seen' : t \in seen \/ t[3] \in run[r].rows
    BY <1>1, <1>7
  <2> QED
    BY <1>1, <1>4, <2>1 DEF TombstonesUnsent, FeedInv
<1>9. ASSUME NEW row \in subs', NEW e \in relayed', row.conn \in Live', e \in Visible',
             e \in Matches(row.filter)
      PROVE  <<row.conn, row.sub, e>> \in seen' \cup missed'
  <2>1. CASE row = new
    <3>1. e \in run[r].rows \cup lacks[r] /\ c \in Live
      BY <1>1, <1>2, <1>5, <1>6, <1>9, <2>1
    <3>2. <<c, s, e>> \in Of(r, run[r].rows) \cup Of(r, lacks[r] \ run[r].rows)
      BY <1>7, <3>1
    <3> QED
      BY <1>1, <1>6, <2>1, <3>2
  <2>2. CASE row # new
    <3>1. row \in subs /\ ~(row.conn = c /\ row.sub = s)
      BY <1>1, <1>9, <2>2 DEF Named
    <3>2. <<row.conn, row.sub, e>> \in seen \cup missed
      BY <1>1, <1>2, <1>9, <3>1 DEF FeedInv, NothingElseMissed
    <3>3. <<row.conn, row.sub, e>> \in Others(seen) \cup Others(missed)
      BY <3>1, <3>2
    <3> HIDE DEF Others
    <3> QED
      BY <1>1, <3>3
  <2> QED
    BY <2>1, <2>2
<1> QED
  BY <1>8, <1>9 DEF NothingElseMissed

LEMMA FeedStep ==
    ASSUME TypeOK, FramesFit, FeedInv, [Next]_vars
    PROVE  FeedInv'
<1>1. Forward /\ Onward
  BY StoreStep, OnwardStep
<1>2. ASSUME NEW cs, Lose(cs)
      PROVE  SeenStays /\ relayed' = relayed
  <2>1. \A d \in Live' : d \notin cs
    BY <1>2 DEF Lose, Live
  <2> QED
    BY <1>2, <2>1 DEF Lose, SeenStays
<1>3. ASSUME UNCHANGED <<seen, missed, relayed>>
      PROVE  SeenStays /\ relayed' = relayed
  BY <1>3 DEF SeenStays
<1>4. ASSUME SeenStays, relayed' = relayed, subs' \subseteq subs, Live' \subseteq Live
      PROVE  NothingElseMissed' /\ TombstonesUnsent'
  BY <1>1, <1>4, QuietFeed
<1>5. ASSUME NEW c \in Conn, NEW m \in Message, Receive(c, m)
      PROVE  NothingElseMissed' /\ TombstonesUnsent'
  <2>1. CASE TooMany(c, m) \/ TooManyAuths(c, m)
    <3>1. Lose({c}) /\ subs' \subseteq subs
      BY <2>1 DEF TooMany, TooManyAuths, DropConn
    <3>2. Live' \subseteq Live
      BY <3>1 DEF Lose, Live
    <3> QED
      BY <1>2, <1>4, <3>1, <3>2
  <2>2. CASE ~TooMany(c, m) /\ ~TooManyAuths(c, m)
    <3>1. UNCHANGED <<state, seen, missed, relayed>> /\ subs' \subseteq subs
      BY <1>5, <2>2 DEF Receive, TakeJunk, TakeClose, FailAuth, TakeAuth, RefuseReq,
         RefuseEvent, TakeReq, TakeEvent, history
    <3> QED
      BY <1>3, <1>4, <3>1 DEF Live
  <2> QED
    BY <2>1, <2>2
<1>6. ASSUME NEW r \in Request, Resume(r)
      PROVE  NothingElseMissed' /\ TombstonesUnsent'
  <2>1. CASE ~FanOut(r) /\ ~PutSub(r)
    <3>1. UNCHANGED <<state, seen, missed, relayed, subs>>
      BY <1>6, <2>1 DEF Resume, LookUp, Limit, Mirror, Refuse, ReadServable, Return,
         QueryStored, Fail, history
    <3> QED
      BY <1>3, <1>4, <3>1, Zenon DEF Live
  <2> QED
    BY <1>1, <2>1, FanOutFeed, PutSubFeed
<1>7. ASSUME NEW c \in Conn, Upgrade(c)
      PROVE  NothingElseMissed' /\ TombstonesUnsent'
  <2>1. /\ UNCHANGED <<seen, missed, relayed>>
        /\ subs' = {row \in subs : row.conn \in Live}
    BY <1>7 DEF Upgrade, history
  <2>2. \A row \in subs' : row.conn \in Live' => row \in subs /\ row.conn \in Live
    BY <2>1
  <2> QED
    BY <1>1, <1>3, <2>1, <2>2, QuietFeed
<1>8. ASSUME NEW c \in Conn, CloseSocket(c)
      PROVE  NothingElseMissed' /\ TombstonesUnsent'
  <2>1. Lose({c}) /\ subs' \subseteq subs
    BY <1>8 DEF CloseSocket, DropConn
  <2>2. Live' \subseteq Live
    BY <2>1 DEF Lose, Live
  <2> QED
    BY <1>2, <1>4, <2>1, <2>2
<1>9. ASSUME Evict
      PROVE  NothingElseMissed' /\ TombstonesUnsent'
  <2>1. Lose(Live) /\ subs' = subs
    BY <1>9 DEF Evict
  <2>2. Live' \subseteq Live
    BY <2>1 DEF Lose, Live
  <2> QED
    BY <1>2, <1>4, <2>1, <2>2
<1>10. ASSUME Hibernate \/ Elsewhere \/ UNCHANGED vars
       PROVE  NothingElseMissed' /\ TombstonesUnsent'
  <2>1. UNCHANGED <<state, seen, missed, relayed, subs>>
    BY <1>10 DEF Hibernate, Elsewhere, MirrorElsewhere, Claim, Block, Tick, vars, history
  <2> QED
    BY <1>3, <1>4, <2>1 DEF Live
<1>11. NothingElseMissed' /\ TombstonesUnsent'
  BY <1>5, <1>6, <1>7, <1>8, <1>9, <1>10 DEF Next, Work, Sockets
<1>12. \A e \in relayed' : e \in Event /\ Passed(e)'
  <2>1. \A e \in relayed' : e \in Event /\ Passed(e)
    BY <1>1 DEF FeedInv, Onward
  <2> QED
    BY <1>1, <2>1 DEF Forward
<1>13. (\A e \in relayed : e \in Event /\ Passed(e))'
  BY <1>12
<1>14. (\A q \in Request : HandlerFits(q))'
  BY HandlersFit
<1>15. (lacks = [q \in Request |-> lacks[q]])'
  <2>l. lacks = [q \in Request |-> lacks[q]]
    BY DEF FeedInv
  <2>k. CASE lacks' = lacks
    BY <2>l, <2>k
  <2>e. ASSUME NEW r \in Request, NEW x, lacks' = [lacks EXCEPT ![r] = x]
        PROVE  lacks' = [q \in Request |-> lacks'[q]]
    BY <2>l, <2>e
  <2>1. ASSUME NEW c \in Conn, NEW m \in Message, Receive(c, m)
        PROVE  lacks' = [q \in Request |-> lacks'[q]]
    <3>1. ASSUME NEW r \in Request, TakeReq(r, c, m)
          PROVE  lacks' = [q \in Request |-> lacks'[q]]
      BY <2>e, <3>1 DEF TakeReq
    <3> QED
      BY <2>1, <2>k, <3>1 DEF Receive, TooMany, TakeJunk, TakeClose, TooManyAuths, FailAuth,
         TakeAuth, RefuseReq, RefuseEvent, TakeEvent, Lose, history
  <2>2. ASSUME NEW r \in Request, Resume(r)
        PROVE  lacks' = [q \in Request |-> lacks'[q]]
    <3>1. CASE FanOut(r)
      BY <3>1 DEF FanOut
    <3>2. CASE QueryStored(r)
      BY <2>e, <3>2, QueryMoves
    <3>3. CASE PutSub(r)
      BY <2>e, <3>3 DEF PutSub
    <3>4. CASE ~FanOut(r) /\ ~QueryStored(r) /\ ~PutSub(r)
      BY <2>2, <2>k, <3>4 DEF Resume, LookUp, Limit, Mirror, Refuse, ReadServable, Return, Fail,
         history
    <3> QED
      BY <3>1, <3>2, <3>3, <3>4
  <2>3. CASE Sockets \/ Elsewhere \/ UNCHANGED vars
    BY <2>3, <2>k DEF Sockets, Upgrade, CloseSocket, Hibernate, Evict, Elsewhere,
       MirrorElsewhere, Claim, Block, Tick, vars, Lose, history
  <2> QED
    BY <2>1, <2>2, <2>3 DEF Next, Work
<1> QED
  BY <1>1, <1>11, <1>13, <1>14, <1>15 DEF FeedInv, Forward

THEOREM FeedInvariance == Spec => []FeedInv
<1>1. Init => FeedInv
  BY StoreAssumption DEF Init, Open, FeedInv, StoreOK, Visible, Winners, HandlerFits, Active,
     Idle, TombstonesUnsent, NothingElseMissed
<1>2. IInv => TypeOK /\ FramesFit
  BY DEF IInv
<1> QED
  BY <1>1, <1>2, FeedStep, RelayInvariance, PTL DEF Spec

\* A post the store never showed, tombstoned when it was ingested, is never sent on a
\* subscription; and a handler takes a post in hand to send only at a moment when it is
\* visible, so that a deleted post is sent by none but a handler that had read it
\* before the delete.
THEOREM TombstonesNeverSent == Spec => []TombstonesUnsent /\ [][OnlyVisibleTaken]_vars
<1>1. FeedInv => TombstonesUnsent
  BY DEF FeedInv
<1>2. IInv /\ [Next]_vars => [OnlyVisibleTaken]_vars
  <2> SUFFICES ASSUME TypeOK, FramesFit, [Next]_vars, NEW q \in Request
               PROVE  /\ run'[q].rows \subseteq run[q].rows \cup Visible
                      /\ run[q].step # "fanout" /\ run'[q].step = "fanout" =>
                            (IsPost(Ev(q)) => Ev(q) \in Visible)
    BY DEF IInv, OnlyVisibleTaken
  <2> DEFINE Taken == /\ run'[q].rows \subseteq run[q].rows \cup Visible
                      /\ run[q].step # "fanout" /\ run'[q].step = "fanout" =>
                            (IsPost(Ev(q)) => Ev(q) \in Visible)
  <2>k. ASSUME Kept(q) \/ Ended(q) PROVE Taken
    BY <2>k DEF Kept, Ended, Idle
  <2>1. ASSUME NEW c \in Conn, NEW m \in Message, Receive(c, m) PROVE Taken
    <3>1. ASSUME NEW r \in Request, TakeReq(r, c, m) \/ TakeEvent(r, c, m) PROVE Taken
      <4>1. CASE q = r
        BY <3>1, <4>1 DEF TakeReq, TakeEvent, Begin, TypeOK
      <4>2. CASE q # r
        BY <2>k, <3>1, <4>2 DEF TakeReq, TakeEvent, Begin, TypeOK, Kept
      <4> QED
        BY <4>1, <4>2
    <3>2. CASE UNCHANGED run
      BY <2>k, <3>2 DEF Kept
    <3> QED
      BY <2>1, <3>1, <3>2 DEF Receive, TooMany, TakeJunk, TakeClose, TooManyAuths, FailAuth,
         TakeAuth, RefuseReq, RefuseEvent
  <2>2. ASSUME NEW r \in Request, Resume(r) PROVE Taken
    <3>a. Active(r) /\ run[r] \in Handler
      BY <2>2, HandlerTypes DEF Resume, LookUp, Limit, Mirror, Refuse, ReadServable, FanOut,
         Return, QueryStored, PutSub, Fail, Active
    <3>1. CASE q # r
      BY <2>2, <2>k, <3>1, OthersKept
    <3>f. CASE q = r /\ Finish(r)
      BY <2>k, <3>f, FinishEnds
    <3>s. ASSUME q = r, NEW s, Step(r, s)
          PROVE  run'[q].step = s /\ run'[q].rows = run[q].rows
      BY <3>a, <3>s DEF Step, TypeOK, Handler
    <3>2. CASE q = r /\ LookUp(r) /\ ~Finish(r)
      <4>1. Granted(r).step \in {"flush", "limit"} /\ Granted(r).rows = run[r].rows
        BY <3>a DEF Granted, Handler
      <4>2. run'[r] = Granted(r)
        BY <3>2 DEF LookUp, TypeOK
      <4> QED
        BY <3>2, <4>1, <4>2
    <3>3. CASE q = r /\ (Limit(r) \/ Refuse(r) \/ (Fail(r) /\ ~Finish(r)))
      <4>1. PICK s \in {"mirror", "flush"} : Step(r, s)
        BY <3>3 DEF Limit, Refuse, Fail
      <4> QED
        BY <3>3, <3>s, <4>1
    <3>4. CASE q = r /\ Mirror(r)
      <4>1. PICK s : Step(r, s) /\ s = IF IsPost(Ev(r)) THEN "servable" ELSE "fanout"
        BY <3>4 DEF Mirror
      <4> QED
        BY <3>4, <3>s, <4>1
    <3>5. CASE q = r /\ ReadServable(r)
      <4>1. PICK s : Step(r, s) /\ s = IF Ev(r) \in Visible THEN "fanout" ELSE "flush"
        BY <3>5 DEF ReadServable
      <4> QED
        BY <3>5, <3>s, <4>1
    <3>6. CASE q = r /\ (FanOut(r) \/ Return(r) \/ PutSub(r))
      BY <3>f, <3>6 DEF FanOut, Return, PutSub
    <3>7. CASE q = r /\ QueryStored(r)
      <4>1. \A clause : Read(clause) \subseteq Visible
        BY NewestAmong DEF Read
      <4> QED
        BY <3>7, <4>1, QueryMoves DEF Moved
    <3> QED
      BY <2>2, <3>1, <3>f, <3>2, <3>3, <3>4, <3>5, <3>6, <3>7, Zenon DEF Resume
  <2>3. CASE Sockets \/ Elsewhere \/ UNCHANGED vars
    <3>1. Kept(q) \/ Ended(q)
      BY <2>3 DEF Sockets, Upgrade, CloseSocket, Hibernate, Evict, Elsewhere, MirrorElsewhere,
         Claim, Block, Tick, vars, Kept, Ended
    <3> QED
      BY <2>k, <3>1
  <2> QED
    BY <2>1, <2>2, <2>3 DEF Next, Work
<1> QED
  BY <1>1, <1>2, FeedInvariance, RelayInvariance, PTL DEF Spec

\* Of the visible events the relay fanned out, a live subscription misses only those its
\* own REQ left behind a LIMIT and those fanned out between the REQ's first read and the
\* put of its row; every other one reached it, if it matches.
THEOREM OnlyTheReadMisses == Spec => []NothingElseMissed
<1>1. FeedInv => NothingElseMissed
  BY DEF FeedInv
<1> QED
  BY <1>1, FeedInvariance, PTL

-----------------------------------------------------------------------------
(***************************************************************************)
(* Subscriptions of a client that waits for its answers.                   *)
(***************************************************************************)
AskedOf(c) == {row \in asked : row.conn = c}

\* Handlers of a REQ, and the row each is about to put.
Asking(q) == run[q].step \in {"query", "put"}
Awaited(q) == [conn |-> Sender(q), sub |-> Msg(q).sub, filter |-> Msg(q).filter]

\* What the socket's rows are once q has put its own.
AfterPut(q) ==
    (RowsOf(Sender(q)) \ Named(subs, Sender(q), Msg(q).sub)) \cup {Awaited(q)}

\* One handler at a time; until it has put the row, a REQ is asked and not answered.
InStep(c) ==
    /\ \A p, q \in Request :
          Active(p) /\ Sender(p) = c /\ Active(q) /\ Sender(q) = c => p = q
    /\ \A q \in Request : Asking(q) /\ Sender(q) = c => AskedOf(c) = AfterPut(q)
    /\ (\A q \in Request : Asking(q) => Sender(q) # c) => AskedOf(c) = RowsOf(c)

SubsInv ==
    /\ \A q \in Request : Active(q) => state[Sender(q)] # "new"
    /\ \A row \in asked : row.conn \in Live
    /\ mix.inTurn => \A c \in Live : InStep(c)

LEMMA SubsImply ==
    ASSUME TypeOK, SubsInv
    PROVE  SubsAsAsked
<1> SUFFICES ASSUME mix.inTurn, NEW c \in Live, Answered(c)
             PROVE  RowsOf(c) = AskedOf(c)
  BY DEF SubsAsAsked, AskedOf
<1>1. \A q \in Request : Asking(q) => Sender(q) # c
  BY DEF Answered, Asking, Active
<1> QED
  BY <1>1 DEF SubsInv, InStep

\* Another socket's step.
LEMMA InStepStays ==
    ASSUME TypeOK, NEW c \in Conn, InStep(c),
           AskedOf(c)' = AskedOf(c), RowsOf(c)' = RowsOf(c),
           \A q \in Request :
               \/ run'[q] = run[q]
               \/ run'[q].step \in HandlerSteps /\ run'[q].frame = run[q].frame
                     /\ Active(q) /\ Asking(q)' = Asking(q)
               \/ run'[q] = Idle /\ (Asking(q) => Sender(q) # c)
               \/ Sender(q)' # c /\ (Active(q) => Sender(q) # c)
    PROVE  InStep(c)'
<1>1. \A s : Named(subs', c, s) = Named(subs, c, s)
  BY DEF Named, RowsOf
<1>2. ASSUME NEW q \in Request
      PROVE  /\ (Active(q) /\ Sender(q) = c)' => Active(q) /\ Sender(q) = c
             /\ (Asking(q) /\ Sender(q) = c)' =>
                    /\ Asking(q) /\ Sender(q) = c
                    /\ Msg(q)' = Msg(q) /\ Awaited(q)' = Awaited(q)
             /\ Asking(q) /\ Sender(q) = c => (Asking(q) /\ Sender(q) = c)'
  <2>1. CASE run'[q] = run[q]
    BY <2>1 DEF Active, Sender, Asking, Msg, Awaited
  <2>2. CASE run'[q].step \in HandlerSteps /\ run'[q].frame = run[q].frame
               /\ Active(q) /\ Asking(q)' = Asking(q)
    BY <2>2 DEF Active, Sender, Asking, Msg, Awaited
  <2>3. CASE run'[q] = Idle /\ (Asking(q) => Sender(q) # c)
    BY <2>3 DEF Active, Asking, Idle
  <2>4. CASE Sender(q)' # c /\ (Active(q) => Sender(q) # c)
    BY <2>4 DEF Active, Asking
  <2> QED
    BY <2>1, <2>2, <2>3, <2>4
<1>3. ASSUME NEW q \in Request, Asking(q)', Sender(q)' = c
      PROVE  AskedOf(c)' = AfterPut(q)'
  <2>1. /\ Asking(q) /\ Sender(q) = c /\ Msg(q)' = Msg(q) /\ Awaited(q)' = Awaited(q)
    BY <1>2, <1>3
  <2>2. AfterPut(q)' = (RowsOf(c)' \ Named(subs', c, Msg(q)'.sub)) \cup {Awaited(q)'}
    BY <1>3 DEF AfterPut, RowsOf
  <2>3. AfterPut(q) = (RowsOf(c) \ Named(subs, c, Msg(q).sub)) \cup {Awaited(q)}
    BY <2>1 DEF AfterPut, RowsOf
  <2>4. AfterPut(q)' = AfterPut(q)
    BY <1>1, <2>1, <2>2, <2>3
  <2> QED
    BY <2>1, <2>4 DEF InStep
<1>4. ASSUME \A q \in Request : Asking(q)' => Sender(q)' # c
      PROVE  AskedOf(c)' = RowsOf(c)'
  BY <1>2, <1>4 DEF InStep
<1>5. ASSUME NEW p \in Request, NEW q \in Request, Active(p)', Sender(p)' = c,
             Active(q)', Sender(q)' = c
      PROVE  p = q
  BY <1>2, <1>5 DEF InStep
<1> QED
  BY <1>3, <1>4, <1>5 DEF InStep

\* A step that leaves the handlers, and what live sockets asked for and hold, alone.
LEMMA QuietSubs ==
    ASSUME TypeOK, SubsInv, mix' = mix, \A q \in Request : Kept(q),
           \A d \in Conn : state'[d] = "new" => state[d] = "new",
           \A row \in asked' : row \in asked /\ row.conn \in Live',
           \A d \in Live' : d \in Live /\ AskedOf(d)' = AskedOf(d) /\ RowsOf(d)' = RowsOf(d)
    PROVE  SubsInv'
<1>1. \A q \in Request : Active(q)' => state'[Sender(q)'] # "new"
  <2> SUFFICES ASSUME NEW q \in Request, Active(q)'
               PROVE  state'[Sender(q)'] # "new"
    OBVIOUS
  <2>1. Active(q) /\ Sender(q)' = Sender(q)
    BY DEF Kept, Active, Sender
  <2> QED
    BY <2>1, HandlerTypes DEF SubsInv
<1>2. ASSUME mix.inTurn, NEW d \in Live'
      PROVE  InStep(d)'
  <2>1. d \in Conn /\ InStep(d)
    BY <1>2 DEF SubsInv, Live
  <2> QED
    BY <1>2, <2>1, InStepStays DEF Kept
<1> QED
  BY <1>1, <1>2 DEF SubsInv

LEMMA LoseSubs ==
    ASSUME TypeOK, SubsInv, UNCHANGED <<mix, run>>, NEW cs \in SUBSET Live, Lose(cs),
           \A d \in Live \ cs : RowsOf(d)' = RowsOf(d)
    PROVE  SubsInv'
<1>1. /\ \A d \in Conn : state'[d] = IF d \in cs THEN "gone" ELSE state[d]
      /\ asked' = {row \in asked : row.conn \notin cs}
  BY DEF Lose
<1>2. Live' = Live \ cs
  BY <1>1 DEF Live
<1>3. \A row \in asked' : row \in asked /\ row.conn \in Live'
  BY <1>1, <1>2 DEF SubsInv
<1>4. ASSUME NEW d \in Live'
      PROVE  d \in Live /\ AskedOf(d)' = AskedOf(d) /\ RowsOf(d)' = RowsOf(d)
  BY <1>1, <1>2, <1>4 DEF AskedOf
<1>5. \A q \in Request : Kept(q)
  BY DEF Kept
<1> QED
  BY <1>1, <1>3, <1>4, <1>5, QuietSubs

LEMMA UpgradeSubs ==
    ASSUME TypeOK, SubsInv, NEW c \in Conn, Upgrade(c)
    PROVE  SubsInv'
<1>1. /\ state[c] = "new" /\ UNCHANGED <<mix, run, asked>>
      /\ subs' = {row \in subs : row.conn \in Live}
      /\ \A d \in Conn : state'[d] = IF d = c THEN "open" ELSE state[d]
  BY DEF Upgrade, clock, history, TypeOK
<1>2. Live' = Live \cup {c} /\ c \notin Live
  BY <1>1 DEF Live
<1>3. \A q \in Request : Active(q) => Sender(q) # c /\ Sender(q) \in Conn
  BY <1>1, HandlerTypes DEF SubsInv
<1>4. \A q \in Request : Active(q)' => state'[Sender(q)'] # "new"
  BY <1>1, <1>3 DEF SubsInv, Active, Sender
<1>5. \A d : AskedOf(d)' = AskedOf(d)
  BY <1>1 DEF AskedOf
<1>6. ASSUME mix.inTurn, NEW d \in Live
      PROVE  InStep(d)'
  <2>1. d \in Conn /\ InStep(d)
    BY <1>6 DEF SubsInv, Live
  <2>2. RowsOf(d)' = RowsOf(d)
    BY <1>1, <1>6 DEF RowsOf
  <2> QED
    BY <1>1, <1>5, <2>1, <2>2, InStepStays
<1>7. InStep(c)'
  <2>1. AskedOf(c)' = {} /\ RowsOf(c)' = {}
    BY <1>1, <1>2, <1>5 DEF SubsInv, AskedOf, RowsOf
  <2>2. \A q \in Request : Active(q)' => Sender(q)' # c
    BY <1>1, <1>3 DEF Active, Sender
  <2>3. \A q \in Request : Asking(q)' => Active(q)'
    BY DEF Asking, Active
  <2> QED
    BY <2>1, <2>2, <2>3 DEF InStep
<1>8. (\A row \in asked : row.conn \in Live)'
  BY <1>1, <1>2 DEF SubsInv
<1> QED
  BY <1>1, <1>2, <1>4, <1>6, <1>7, <1>8 DEF SubsInv

\* The frame of a socket none of whose handlers runs.
LEMMA TakeCloseSubs ==
    ASSUME TypeOK, SubsInv, NEW c \in Conn, NEW m \in Message, TakeClose(c, m)
    PROVE  SubsInv'
<1>1. /\ c \in Live /\ UNCHANGED <<mix, run, state>> /\ (mix.inTurn => Answered(c))
      /\ subs' = subs \ Named(subs, c, m.sub) /\ asked' = asked \ Named(asked, c, m.sub)
  BY DEF TakeClose, Admit, Arrive, clock
<1>2. Live' = Live
  BY <1>1 DEF Live
<1>3. \A q \in Request : Active(q)' => state'[Sender(q)'] # "new"
  BY <1>1 DEF SubsInv, Active, Sender
<1>4. (\A row \in asked : row.conn \in Live)'
  BY <1>1, <1>2 DEF SubsInv
<1>5. ASSUME mix.inTurn, NEW d \in Live, d # c
      PROVE  InStep(d)'
  <2>1. d \in Conn /\ InStep(d)
    BY <1>5 DEF SubsInv, Live
  <2>2. RowsOf(d)' = RowsOf(d) /\ AskedOf(d)' = AskedOf(d)
    BY <1>1, <1>5 DEF RowsOf, AskedOf, Named
  <2> QED
    BY <1>1, <2>1, <2>2, InStepStays
<1>6. ASSUME mix.inTurn
      PROVE  InStep(c)'
  <2>1. \A q \in Request : ~(Active(q) /\ Sender(q) = c) /\ ~(Asking(q) /\ Sender(q) = c)
    BY <1>1, <1>6 DEF Answered, Asking, Active
  <2>2. AskedOf(c) = RowsOf(c)
    BY <1>1, <1>6, <2>1 DEF SubsInv, InStep
  <2>3. AskedOf(c)' = {row \in AskedOf(c) : row.sub # m.sub}
    BY <1>1 DEF AskedOf, Named
  <2>4. RowsOf(c)' = {row \in RowsOf(c) : row.sub # m.sub}
    BY <1>1 DEF RowsOf, Named
  <2>5. AskedOf(c)' = RowsOf(c)'
    BY <2>2, <2>3, <2>4
  <2>6. \A q \in Request : (~(Active(q) /\ Sender(q) = c) /\ ~(Asking(q) /\ Sender(q) = c))'
    BY <1>1, <2>1 DEF Active, Asking, Sender
  <2> QED
    BY <2>5, <2>6 DEF InStep
<1> QED
  BY <1>1, <1>2, <1>3, <1>4, <1>5, <1>6 DEF SubsInv

LEMMA BeginSubs ==
    ASSUME TypeOK, SubsInv, NEW r \in Request, NEW c \in Conn, NEW m \in Message,
           ~Active(r), NEW s \in HandlerSteps, Begin(r, c, m, s), Arrive(c, m),
           UNCHANGED <<mix, state, subs>>,
           IF s = "query"
              THEN asked' = (asked \ Named(asked, c, m.sub))
                               \cup {[conn |-> c, sub |-> m.sub, filter |-> m.filter]}
              ELSE asked' = asked /\ s # "put"
    PROVE  SubsInv'
<1>1. /\ \A q \in Request : q # r => run'[q] = run[q]
      /\ run'[r].step = s /\ Sender(r)' = c /\ Msg(r)' = m
  BY DEF Begin, TypeOK, Sender, Msg
<1>2. Live' = Live /\ c \in Live /\ state[c] # "new" /\ (mix.inTurn => Answered(c))
  BY DEF Live, Arrive
<1>3. \A q \in Request : Active(q)' => state'[Sender(q)'] # "new"
  BY <1>1, <1>2 DEF SubsInv, Active, Sender
<1>4. (\A row \in asked : row.conn \in Live)'
  BY <1>2 DEF SubsInv
<1>5. ASSUME mix.inTurn, NEW d \in Live, d # c
      PROVE  InStep(d)'
  <2>1. d \in Conn /\ InStep(d)
    BY <1>5 DEF SubsInv, Live
  <2>2. RowsOf(d)' = RowsOf(d) /\ AskedOf(d)' = AskedOf(d)
    BY <1>5 DEF RowsOf, AskedOf, Named
  <2> QED
    BY <1>1, <1>5, <2>1, <2>2, InStepStays
<1>6. ASSUME mix.inTurn
      PROVE  InStep(c)'
  <2>1. \A q \in Request : ~(Active(q) /\ Sender(q) = c) /\ ~(Asking(q) /\ Sender(q) = c)
    BY <1>2, <1>6 DEF Answered, Asking, Active
  <2>2. AskedOf(c) = RowsOf(c)
    BY <1>2, <1>6, <2>1 DEF SubsInv, InStep
  <2>3. RowsOf(c)' = RowsOf(c)
    BY DEF RowsOf
  <2>4. \A q \in Request : q # r =>
           (~(Active(q) /\ Sender(q) = c) /\ ~(Asking(q) /\ Sender(q) = c))'
    BY <1>1, <2>1 DEF Active, Asking, Sender
  <2>5. CASE s = "query"
    <3>1. Awaited(r)' = [conn |-> c, sub |-> m.sub, filter |-> m.filter]
      BY <1>1 DEF Awaited
    <3>2. AskedOf(c)' = (AskedOf(c) \ Named(asked, c, m.sub)) \cup {Awaited(r)'}
      BY <2>5, <3>1 DEF AskedOf
    <3>3. AskedOf(c) \ Named(asked, c, m.sub) = RowsOf(c) \ Named(subs, c, m.sub)
      BY <2>2 DEF AskedOf, RowsOf, Named
    <3>4. AfterPut(r)' = (RowsOf(c)' \ Named(subs', c, m.sub)) \cup {Awaited(r)'}
      BY <1>1 DEF AfterPut, RowsOf
    <3>5. Named(subs', c, m.sub) = Named(subs, c, m.sub)
      BY DEF Named
    <3>6. AskedOf(c)' = AfterPut(r)'
      BY <2>3, <3>2, <3>3, <3>4, <3>5
    <3>7. Asking(r)'
      BY <1>1, <2>5 DEF Asking
    <3> QED
      BY <1>1, <2>4, <3>6, <3>7 DEF InStep
  <2>6. CASE s # "query"
    <3>1. ~Asking(r)' /\ AskedOf(c)' = AskedOf(c)
      BY <1>1, <2>6 DEF Asking, AskedOf
    <3> QED
      BY <2>2, <2>3, <2>4, <3>1 DEF InStep
  <2> QED
    BY <2>5, <2>6
<1> QED
  BY <1>2, <1>3, <1>4, <1>5, <1>6 DEF SubsInv

LEMMA ReceiveSubs ==
    ASSUME TypeOK, SubsInv, NEW c \in Conn, NEW m \in Message, Receive(c, m)
    PROVE  SubsInv'
<1>1. CASE TooMany(c, m) \/ TooManyAuths(c, m)
  <2>1. /\ c \in Live /\ Lose({c}) /\ subs' = subs \ RowsOf(c) /\ UNCHANGED <<mix, run>>
    BY <1>1 DEF TooMany, TooManyAuths, DropConn, Arrive, clock
  <2>2. \A d \in Live \ {c} : RowsOf(d)' = RowsOf(d)
    BY <2>1 DEF RowsOf
  <2> QED
    BY <2>1, <2>2, LoseSubs
<1>2. CASE UNCHANGED <<clock, state, subs, run, asked>>
  <2>1. Live' = Live
    BY <1>2 DEF Live
  <2> QED
    BY <1>2, <2>1, QuietSubs DEF clock, Kept, AskedOf, RowsOf, SubsInv
<1>3. CASE TakeClose(c, m)
  BY <1>3, TakeCloseSubs
<1>s. {"query", "lookup", "limit"} \subseteq HandlerSteps
  BY DEF HandlerSteps
<1>4. ASSUME NEW r \in Request, ~Active(r), TakeReq(r, c, m)
      PROVE  SubsInv'
  <2>1. /\ Begin(r, c, m, "query") /\ Arrive(c, m) /\ UNCHANGED <<mix, state, subs>>
        /\ asked' = (asked \ Named(asked, c, m.sub))
                       \cup {[conn |-> c, sub |-> m.sub, filter |-> m.filter]}
    BY <1>4 DEF TakeReq, Admit, clock
  <2> QED
    BY <1>4, <1>s, <2>1, BeginSubs
<1>5. ASSUME NEW r \in Request, ~Active(r), TakeEvent(r, c, m)
      PROVE  SubsInv'
  <2>1. /\ Begin(r, c, m, "lookup") \/ Begin(r, c, m, "limit")
        /\ Arrive(c, m) /\ UNCHANGED <<mix, state, subs, asked>>
    BY <1>5 DEF TakeEvent, Admit, clock, history
  <2>2. CASE Begin(r, c, m, "lookup")
    BY <1>5, <1>s, <2>1, <2>2, BeginSubs
  <2>3. CASE Begin(r, c, m, "limit")
    BY <1>5, <1>s, <2>1, <2>3, BeginSubs
  <2> QED
    BY <2>1, <2>2, <2>3
<1>6. CASE TakeJunk(c, m) \/ FailAuth(c, m) \/ TakeAuth(c, m) \/ RefuseReq(c, m)
              \/ RefuseEvent(c, m)
  <2>1. UNCHANGED <<clock, state, subs, run, asked>>
    BY <1>6 DEF TakeJunk, FailAuth, TakeAuth, RefuseReq, RefuseEvent, history
  <2> QED
    BY <1>2, <2>1
<1> QED
  BY <1>1, <1>3, <1>4, <1>5, <1>6 DEF Receive

\* The row of a REQ is put: what the socket holds is what it asked for.
LEMMA PutSubSubs ==
    ASSUME TypeOK, SubsInv, NEW r \in Request, PutSub(r), NEW c \in Conn, c = Sender(r),
           NEW s, s = Msg(r).sub
    PROVE  SubsInv'
<1>1. /\ Asking(r) /\ Active(r) /\ UNCHANGED <<mix, state, asked>>
      /\ subs' = (subs \ Named(subs, c, s)) \cup {Awaited(r)}
      /\ Finish(r)
  BY DEF PutSub, Asking, Active, Awaited, clock
<1>2. Live' = Live
  BY <1>1 DEF Live
<1>3. \A q \in Request : IF q = r THEN run'[q] = Idle ELSE run'[q] = run[q]
  BY <1>1, FinishEnds DEF Kept, Ended
<1>4. Awaited(r).conn = c
  BY DEF Awaited
<1>5. AfterPut(r) = (RowsOf(c) \ Named(subs, c, s)) \cup {Awaited(r)}
  BY DEF AfterPut
<1>6. \A q \in Request : Active(q)' => Active(q) /\ Sender(q)' = Sender(q)
  BY <1>3 DEF Active, Sender, Idle
<1>7. \A q \in Request : Active(q)' => state'[Sender(q)'] # "new"
  BY <1>1, <1>6 DEF SubsInv
<1>8. ASSUME mix.inTurn, NEW d \in Live, d # c
      PROVE  InStep(d)'
  <2>1. d \in Conn /\ InStep(d)
    BY <1>8 DEF SubsInv, Live
  <2>2. RowsOf(d)' = RowsOf(d) /\ AskedOf(d)' = AskedOf(d)
    BY <1>1, <1>4, <1>8 DEF RowsOf, AskedOf, Named
  <2> QED
    BY <1>3, <1>8, <2>1, <2>2, InStepStays
<1>9. ASSUME mix.inTurn, c \in Live
      PROVE  InStep(c)'
  <2>1. AskedOf(c) = AfterPut(r)
    BY <1>1, <1>9 DEF SubsInv, InStep
  <2>2. \A q \in Request : ~(Active(q) /\ Sender(q) = c)'
    BY <1>1, <1>3, <1>6, <1>9 DEF SubsInv, InStep, Active, Idle
  <2>3. RowsOf(c)' = AfterPut(r)
    BY <1>1, <1>4, <1>5 DEF RowsOf, Named
  <2>4. AskedOf(c)' = AskedOf(c)
    BY <1>1 DEF AskedOf
  <2>5. \A q \in Request : Asking(q)' => Active(q)'
    BY DEF Asking, Active
  <2> QED
    BY <2>1, <2>2, <2>3, <2>4, <2>5 DEF InStep
<1>10. (\A row \in asked : row.conn \in Live)'
  BY <1>1, <1>2 DEF SubsInv
<1> QED
  BY <1>1, <1>2, <1>7, <1>8, <1>9, <1>10 DEF SubsInv

\* A handler goes on, or ends with nothing left to put.
LEMMA ResumeSubs ==
    ASSUME TypeOK, SubsInv, mix.inTurn => ~mix.mayFail, NEW r \in Request, Resume(r)
    PROVE  SubsInv'
<1>a. Active(r) /\ run[r] \in Handler
  BY HandlerTypes DEF Resume, LookUp, Limit, Mirror, Refuse, ReadServable, FanOut,
     Return, QueryStored, PutSub, Fail, Active
<1>1. CASE ~PutSub(r)
  <2>1. UNCHANGED <<mix, state, subs, asked>>
    BY <1>1 DEF Resume, LookUp, Limit, Mirror, Refuse, ReadServable, FanOut, Return,
       QueryStored, Fail, history, clock
  <2>2. \/ run'[r] = Idle /\ (mix.inTurn => ~Asking(r))
        \/ run'[r].step \in HandlerSteps /\ run'[r].frame = run[r].frame
              /\ Asking(r)' = Asking(r)
    <3>s. ASSUME NEW s, Step(r, s)
          PROVE  run'[r].step = s /\ run'[r].frame = run[r].frame
      BY <1>a, <3>s, StepMoves DEF Moved
    <3>e. Finish(r) => run'[r] = Idle
      BY DEF Finish, TypeOK
    <3>1. CASE LookUp(r)
      <4>1. CASE Finish(r)
        BY <3>1, <3>e, <4>1 DEF LookUp, Asking
      <4>2. CASE ~Finish(r)
        <5>1. /\ Granted(r).step \in {"flush", "limit"}
              /\ Granted(r).frame = run[r].frame
          BY <1>a DEF Granted, Handler
        <5>2. run'[r] = Granted(r) /\ run[r].step = "lookup"
          BY <3>1, <4>2 DEF LookUp, TypeOK
        <5> QED
          BY <5>1, <5>2 DEF Asking, HandlerSteps
      <4> QED
        BY <4>1, <4>2
    <3>2. CASE Limit(r) \/ Mirror(r) \/ Refuse(r) \/ ReadServable(r)
      <4>1. PICK s \in {"mirror", "servable", "fanout", "flush"} : Step(r, s)
        BY <3>2 DEF Limit, Mirror, Refuse, ReadServable
      <4>2. run[r].step \in {"limit", "mirror", "servable"}
        BY <3>2 DEF Limit, Mirror, Refuse, ReadServable
      <4> QED
        BY <3>s, <4>1, <4>2 DEF Asking, HandlerSteps
    <3>3. CASE FanOut(r) \/ Return(r)
      BY <3>3, <3>e DEF FanOut, Return, Asking
    <3>4. CASE QueryStored(r)
      <4>1. /\ run'[r].step \in {"query", "put"} /\ run'[r].frame = run[r].frame
            /\ run[r].step = "query"
        BY <3>4, QueryMoves DEF Moved
      <4> QED
        BY <4>1 DEF Asking, HandlerSteps
    <3>5. CASE Fail(r)
      <4>1. ~mix.inTurn
        BY <3>5 DEF Fail
      <4>2. CASE Finish(r)
        BY <3>e, <4>1, <4>2
      <4>3. CASE Step(r, "flush") /\ ~Finish(r)
        <5>1. run[r].step \in {"mirror", "servable", "fanout"}
          BY <3>5, <4>3 DEF Fail
        <5> QED
          BY <3>s, <4>3, <5>1 DEF Asking, HandlerSteps
      <4> QED
        BY <3>5, <4>2, <4>3 DEF Fail
    <3> QED
      BY <1>1, <3>1, <3>2, <3>3, <3>4, <3>5 DEF Resume
  <2>3. \A q \in Request : q # r => run'[q] = run[q]
    BY OthersKept DEF Kept
  <2>4. Live' = Live /\ \A d : AskedOf(d)' = AskedOf(d) /\ RowsOf(d)' = RowsOf(d)
    BY <2>1 DEF Live, AskedOf, RowsOf
  <2>5. \A q \in Request : Active(q)' => Active(q) /\ Sender(q)' = Sender(q)
    BY <1>a, <2>2, <2>3 DEF Active, Sender, Idle
  <2>6. \A q \in Request : Active(q)' => state'[Sender(q)'] # "new"
    BY <2>1, <2>5 DEF SubsInv
  <2>7. (\A row \in asked : row.conn \in Live)'
    BY <2>1, <2>4 DEF SubsInv
  <2>8. ASSUME mix.inTurn, NEW d \in Live
        PROVE  InStep(d)'
    <3>1. d \in Conn /\ InStep(d) /\ AskedOf(d)' = AskedOf(d) /\ RowsOf(d)' = RowsOf(d)
      BY <2>4, <2>8 DEF SubsInv, Live
    <3> QED
      BY <1>a, <2>2, <2>3, <2>8, <3>1, InStepStays
  <2> QED
    BY <2>1, <2>4, <2>6, <2>7, <2>8, Zenon DEF SubsInv
<1> QED
  BY <1>1, <1>a, HandlerTypes, PutSubSubs, Zenon

LEMMA SubsStep ==
    ASSUME TypeOK, SubsInv, mix.inTurn => ~mix.mayFail, [Next]_vars
    PROVE  SubsInv'
<1>1. ASSUME NEW c \in Conn, CloseSocket(c)
      PROVE  SubsInv'
  <2>1. c \in Live /\ Lose({c}) /\ subs' = subs \ RowsOf(c) /\ UNCHANGED <<mix, run>>
    BY <1>1 DEF CloseSocket, DropConn, clock
  <2>2. \A d \in Live \ {c} : RowsOf(d)' = RowsOf(d)
    BY <2>1 DEF RowsOf
  <2> QED
    BY <2>1, <2>2, LoseSubs
<1>2. CASE Evict
  <2>1. /\ \A q \in Request : run'[q] = Idle
        /\ state' = [c \in Conn |-> IF c \in Live THEN "gone" ELSE state[c]]
        /\ asked' = {row \in asked : row.conn \notin Live}
    BY <1>2 DEF Evict, Lose
  <2>2. Live' = {} /\ asked' = {}
    BY <2>1 DEF Live, SubsInv
  <2> QED
    BY <2>1, <2>2 DEF SubsInv, Active, Idle
<1>3. CASE Hibernate \/ Elsewhere \/ UNCHANGED vars
  <2>1. UNCHANGED <<mix, state, subs, run, asked>>
    BY <1>3 DEF Hibernate, Elsewhere, MirrorElsewhere, Claim, Block, Tick, vars, history,
       clock
  <2>2. Live' = Live
    BY <2>1 DEF Live
  <2> QED
    BY <2>1, <2>2, QuietSubs DEF Kept, AskedOf, RowsOf, SubsInv
<1> QED
  BY <1>1, <1>2, <1>3, UpgradeSubs, ReceiveSubs, ResumeSubs DEF Next, Work, Sockets

\* When D1 answers and the object stays, a client that waits for each answer has the
\* subscriptions its frames ask for: the cap, replacements, closes, the sweep at each
\* upgrade and the other sockets' handlers leave its rows alone.
THEOREM SubscriptionsAsAsked ==
    ASSUME \A m \in Mixes : m.inTurn => ~m.mayFail
    PROVE  Spec => []SubsAsAsked
<1>1. Init => SubsInv
  BY DEF Init, SubsInv, InStep, Live, Active, Asking, AskedOf, RowsOf, Idle
<1>2. IInv /\ SubsInv /\ [Next]_vars => SubsInv'
  BY SubsStep DEF IInv, TypeOK
<1>3. IInv /\ SubsInv => SubsAsAsked
  BY SubsImply DEF IInv
<1> QED
  BY <1>1, <1>2, <1>3, RelayInvariance, PTL DEF Spec
=============================================================================
