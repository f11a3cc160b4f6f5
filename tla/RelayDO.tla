------------------------------ MODULE RelayDO -------------------------------
(***************************************************************************)
(* The relay's Durable Object: RelayCore and the RelayDO shell of          *)
(* src/src/relay/do.ts, with sanitizeFilters and queryEvents it calls, over *)
(* the store mirrorEvent keeps (ReplaceableStore, one step per ingest).    *)
(* A request is one inbound frame being handled.  It runs to its D1 await   *)
(* in one action, and frames of one socket are not queued behind each      *)
(* other, so handlers interleave at every D1 round trip.  Signature checks *)
(* do not await anything outside the isolate.                              *)
(*                                                                         *)
(* A definition named X_bug is X with a plausible bug, used by no action.  *)
(***************************************************************************)
EXTENDS ReplaceableStore, FiniteSetsExt, Sequences

CONSTANTS
    Author,         \* [Event -> Key]
    Conn,           \* socket ids, one per upgrade
    SubId,          \* subscription ids clients choose
    Id,             \* [Event -> Nat]: the order of the ids
    Filter,         \* sanitized filter lists
    Clauses,        \* [Filter -> Seq(Clause)]: the filters of each list
    Key, NoKey,     \* pubkeys; not authenticated
    Request,        \* handlers that can be running at once
    Message,        \* what clients may send
    NoFrame,        \* no frame in hand
    MaxConnections, MaxSubs, MaxMessages, MaxAuthAttempts,
    MessageWindow,  \* MESSAGE_WINDOW_SECONDS
    AllowFor,       \* ALLOWLIST_CACHE_SECONDS
    FutureLimit,    \* CREATED_AT_UPPER_LIMIT_SECONDS
    MaxTime,        \* bound on the clock
    Mixes           \* what the behaviours of this model are about: see MixType

\* A sanitized filter: the events its WHERE selects, those of them it matches
\* (tag conditions are tested after the query), and its limit (100 when it names
\* none, at most 500).
Clause == [sql : SUBSET Event, match : SUBSET Event, limit : Nat \ {0}]

\* matchesAnyFilter
Matches(filter) ==
    UNION {Clauses[filter][i].match : i \in DOMAIN Clauses[filter]}

\* AUTH by NoKey stands for one that does not validate, a junk frame for
\* everything answered at once with a NOTICE, an OK false or a CLOSED.
Messages ==
    [type : {"event"}, ev : Event]
        \cup [type : {"req"}, sub : SubId, filter : Filter]
        \cup [type : {"close"}, sub : SubId]
        \cup [type : {"auth"}, key : Key \cup {NoKey}]
        \cup [type : {"junk"}]

\* The first second, the sockets opened, the keys allowed at first and those that
\* claim a handle or are blocked meanwhile, the events mirrored elsewhere, what
\* clients send and whether they wait for each answer, and whether D1 calls fail
\* and the object is evicted.
MixType == [start : 0..MaxTime, sockets : Nat, allowed : SUBSET Key, moderated : SUBSET Key,
            events : SUBSET Event, messages : SUBSET Message, inTurn : BOOLEAN,
            mayFail : BOOLEAN]

ASSUME RelayAssumption ==
    /\ Author \in [Event -> Key]
    /\ CreatedAt \in [Event -> Nat]
    /\ NoKey \notin Key
    /\ Message \subseteq Messages
    /\ MaxConnections \in Nat /\ MaxSubs \in Nat /\ MaxMessages \in Nat
    /\ MaxAuthAttempts \in Nat /\ FutureLimit \in Nat /\ MaxTime \in Nat
    /\ MessageWindow \in Nat \ {0} /\ AllowFor \in Nat \ {0}
    /\ Mixes \subseteq MixType

\* A REQ has at least one filter; no two events have one id.
ASSUME FilterAssumption ==
    /\ Id \in [Event -> Nat] /\ IsInjective(Id)
    /\ Clauses \in [Filter -> Seq(Clause) \ {<< >>}]
    /\ \A f \in Filter : \A i \in DOMAIN Clauses[f] :
          Clauses[f][i].match \subseteq Clauses[f][i].sql

\* Against each other, events of an address are ordered: newest created_at first,
\* then lowest id.
ASSUME StoreAssumption ==
    /\ NoEvent \notin Event
    /\ \A e \in Event : Slot(e) \in Address /\ Loses(e, e)
    /\ \A a, b, c \in Event : ~Loses(a, b) /\ ~Loses(b, c) => ~Loses(a, c)

VARIABLES
    mix,        \* the element of Mixes this behaviour is about
    now,        \* the clock, in seconds
    allowed,    \* keys with a handle that are not blocked
    barred,     \* [Key -> Int]: when a key last stopped being allowed (history)
    state,      \* [Conn -> {"new", "open", "gone"}]
    att,        \* [Conn -> [key, until]]: the attachment, with allowedUntil
    window,     \* [Conn -> [start, count]]: msgWindows, in memory
    attempts,   \* [Conn -> Nat]: authAttempts, in memory
    subs,       \* rows of the subs table
    run,        \* [Request -> Handler \cup {Idle}]: running handlers
    believed,   \* [Conn -> Key or NoKey]: the last AUTH answered OK true (history)
    asked,      \* subs as the client's frames, in order, ask for them (history)
    seen,       \* <<conn, sub, event>> sent on a subscription since its last
                \* REQ was answered (history)
    relayed,    \* events fanned out (history)
    missed,     \* <<conn, sub, event>> a subscription lacks since its last REQ
                \* was answered (history)
    lacks,      \* [Request -> SUBSET Event]: matches of a REQ that a LIMIT cut, and
                \* events fanned out since its first read (history)
    shown       \* events that have been visible in the store (history)

clock == <<mix, now, allowed, barred>>
memory == <<window, attempts>>
history == <<believed, asked, seen, relayed, missed, lacks, shown>>
vars == <<clock, store, state, att, memory, subs, run, history>>

Attachment == [key : Key \cup {NoKey}, until : Nat]
Frame == [conn : Conn, msg : Message]
Row == [conn : Conn, sub : SubId, filter : Filter]

\* What a handler holds across its awaits: the frame, `conn` (a copy of the
\* attachment), whether out.updatedConn is set, `now`, the filter queryEvents reads
\* next and the rows so far.
Handler ==
    [step : {"lookup", "limit", "mirror", "servable", "fanout", "flush", "query", "put"},
     frame : Frame, copy : Attachment, updated : BOOLEAN, began : Nat,
     next : Nat, rows : SUBSET Event]

Anonymous == [key |-> NoKey, until |-> 0]
Idle == [step |-> "idle", frame |-> NoFrame, copy |-> Anonymous, updated |-> FALSE,
         began |-> 0, next |-> 1, rows |-> {}]

Active(r) == run[r].step # "idle"
Sender(r) == run[r].frame.conn
Msg(r) == run[r].frame.msg
Ev(r) == Msg(r).ev

Live == {c \in Conn : state[c] = "open"}
RowsOf(c) == {row \in subs : row.conn = c}
Named(table, c, s) == {row \in table : row.conn = c /\ row.sub = s}
Visible == {e \in Winners : e \notin hidden}

Init ==
    /\ Open
    /\ mix \in Mixes
    /\ now = mix.start
    /\ allowed = mix.allowed
    /\ barred = [k \in Key |-> 0 - AllowFor]
    /\ state = [c \in Conn |-> "new"]
    /\ att = [c \in Conn |-> Anonymous]
    /\ window = [c \in Conn |-> [start |-> 0, count |-> 0]]
    /\ attempts = [c \in Conn |-> 0]
    /\ subs = {}
    /\ run = [r \in Request |-> Idle]
    /\ believed = [c \in Conn |-> NoKey]
    /\ asked = {}
    /\ seen = {}
    /\ relayed = {}
    /\ missed = {}
    /\ lacks = [r \in Request |-> {}]
    /\ shown = {}

-----------------------------------------------------------------------------
(***************************************************************************)
(* Sockets.                                                                *)
(***************************************************************************)
NewWindow(c) == now - window[c].start >= MessageWindow \/ window[c].count = 0

\* allowMessage
Counted(c) == IF NewWindow(c) THEN [start |-> now, count |-> 1]
              ELSE [window[c] EXCEPT !.count = @ + 1]

\* fetch: the capacity check, the sweep of rows nobody owns, the attachment.
Upgrade(c) ==
    /\ state[c] = "new"
    /\ Cardinality({d \in Conn : state[d] # "new"}) < mix.sockets
    /\ Cardinality(Live) < MaxConnections
    /\ subs' = {row \in subs : row.conn \in Live}
    /\ state' = [state EXCEPT ![c] = "open"]
    /\ att' = [att EXCEPT ![c] = Anonymous]
    /\ UNCHANGED <<clock, store, memory, run, history>>

\* Sockets cs are gone, and with them their attachments and what was said on them.
Lose(cs) ==
    /\ state' = [c \in Conn |-> IF c \in cs THEN "gone" ELSE state[c]]
    /\ att' = [c \in Conn |-> IF c \in cs THEN Anonymous ELSE att[c]]
    /\ believed' = [c \in Conn |-> IF c \in cs THEN NoKey ELSE believed[c]]
    /\ asked' = {row \in asked : row.conn \notin cs}
    /\ seen' = {t \in seen : t[1] \notin cs}
    /\ missed' = {t \in missed : t[1] \notin cs}
    /\ UNCHANGED <<relayed, lacks, shown>>

\* dropConn
DropConn(c) ==
    /\ subs' = subs \ RowsOf(c)
    /\ window' = [window EXCEPT ![c] = [start |-> 0, count |-> 0]]
    /\ attempts' = [attempts EXCEPT ![c] = 0]

\* webSocketClose, webSocketError: handlers of the socket run on.
CloseSocket(c) ==
    /\ c \in Live
    /\ Lose({c})
    /\ DropConn(c)
    /\ UNCHANGED <<clock, store, run>>

\* Nothing in memory survives hibernation; attachments and subs do.
Hibernate ==
    /\ \A r \in Request : ~Active(r)
    /\ window' = [c \in Conn |-> [start |-> 0, count |-> 0]]
    /\ attempts' = [c \in Conn |-> 0]
    /\ memory' # memory
    /\ UNCHANGED <<clock, store, state, att, subs, run, history>>

\* The object is evicted: sockets and running handlers are lost, rows stay.
Evict ==
    /\ mix.mayFail
    /\ Live # {}
    /\ Lose(Live)
    /\ run' = [r \in Request |-> Idle]
    /\ window' = [c \in Conn |-> [start |-> 0, count |-> 0]]
    /\ attempts' = [c \in Conn |-> 0]
    /\ UNCHANGED <<clock, store, subs>>

-----------------------------------------------------------------------------
(***************************************************************************)
(* Frames, up to the first await.                                          *)
(***************************************************************************)
Step(r, step) == run' = [run EXCEPT ![r].step = step]
Finish(r) == run' = [run EXCEPT ![r] = Idle]

\* No handler of the socket is still running.
Answered(c) == \A r \in Request : Active(r) => Sender(r) # c

\* webSocketMessage hands the frame and a copy of the attachment to the core.
Arrive(c, m) == c \in Live /\ m \in mix.messages /\ (mix.inTurn => Answered(c))

Begin(r, c, m, step) ==
    run' = [run EXCEPT ![r] = [step |-> step, frame |-> [conn |-> c, msg |-> m],
                               copy |-> att[c], updated |-> FALSE, began |-> now,
                               next |-> 1, rows |-> {}]]

Admit(c, m) ==
    /\ Arrive(c, m)
    /\ Counted(c).count <= MaxMessages
    /\ window' = [window EXCEPT ![c] = Counted(c)]

TooMany(c, m) ==
    /\ Arrive(c, m)
    /\ Counted(c).count > MaxMessages
    /\ Lose({c})
    /\ DropConn(c)
    /\ UNCHANGED <<clock, store, run>>

TakeJunk(c, m) ==
    /\ Admit(c, m)
    /\ m.type = "junk"
    /\ UNCHANGED <<clock, store, state, att, attempts, subs, run, history>>

\* The row stays.
TakeClose_bug(c, m) ==
    /\ Admit(c, m)
    /\ m.type = "close"
    /\ asked' = asked \ Named(asked, c, m.sub)
    /\ UNCHANGED <<clock, store, state, att, attempts, subs, run, believed,
                   seen, relayed, missed, lacks, shown>>

TakeClose(c, m) ==
    /\ Admit(c, m)
    /\ m.type = "close"
    /\ subs' = subs \ Named(subs, c, m.sub)
    /\ asked' = asked \ Named(asked, c, m.sub)
    /\ UNCHANGED <<clock, store, state, att, attempts, run, believed, seen, relayed,
                   missed, lacks, shown>>

\* handleAuth runs without an outside await.
TooManyAuths(c, m) ==
    /\ Arrive(c, m)
    /\ Counted(c).count <= MaxMessages
    /\ m.type = "auth"
    /\ attempts[c] >= MaxAuthAttempts
    /\ Lose({c})
    /\ DropConn(c)
    /\ UNCHANGED <<clock, store, run>>

FailAuth(c, m) ==
    /\ Admit(c, m)
    /\ m.type = "auth"
    /\ attempts[c] < MaxAuthAttempts
    /\ m.key = NoKey
    /\ attempts' = [attempts EXCEPT ![c] = @ + 1]
    /\ UNCHANGED <<clock, store, state, att, subs, run, history>>

Reauthed_bug(c, k) == [att[c] EXCEPT !.key = k]

\* The verdict of the previous key is dropped.
Reauthed(c, k) == [key |-> k, until |-> 0]

\* The bound on AUTH frames is off by one.
TakeAuth_bug(c, m) ==
    /\ Admit(c, m)
    /\ m.type = "auth"
    /\ attempts[c] <= MaxAuthAttempts
    /\ m.key # NoKey
    /\ attempts' = [attempts EXCEPT ![c] = @ + 1]
    /\ att' = [att EXCEPT ![c] = Reauthed(c, m.key)]
    /\ believed' = [believed EXCEPT ![c] = m.key]
    /\ UNCHANGED <<clock, store, state, subs, run, asked, seen,
                   relayed, missed, lacks, shown>>

TakeAuth(c, m) ==
    /\ Admit(c, m)
    /\ m.type = "auth"
    /\ attempts[c] < MaxAuthAttempts
    /\ m.key # NoKey
    /\ attempts' = [attempts EXCEPT ![c] = @ + 1]
    /\ att' = [att EXCEPT ![c] = Reauthed(c, m.key)]
    /\ believed' = [believed EXCEPT ![c] = m.key]
    /\ UNCHANGED <<clock, store, state, subs, run, asked, seen,
                   relayed, missed, lacks, shown>>

\* countOther: a subscription does not count against its own replacement.
Full(c, s) == Cardinality(RowsOf(c) \ Named(subs, c, s)) >= MaxSubs

\* handleReq up to queryEvents: the cap is checked here, the row put later.
TakeReq(r, c, m) ==
    /\ Admit(c, m)
    /\ m.type = "req"
    /\ ~Full(c, m.sub)
    /\ Begin(r, c, m, "query")
    /\ asked' = (asked \ Named(asked, c, m.sub))
                   \cup {[conn |-> c, sub |-> m.sub, filter |-> m.filter]}
    /\ lacks' = [lacks EXCEPT ![r] = {}]
    /\ UNCHANGED <<clock, store, state, att, attempts, subs, believed, seen, relayed, missed, shown>>

RefuseReq(c, m) ==
    /\ Admit(c, m)
    /\ m.type = "req"
    /\ Full(c, m.sub)
    /\ UNCHANGED <<clock, store, state, att, attempts, subs, run, history>>

TooEarly(e, t) == CreatedAt[e] > t + FutureLimit

\* The cached verdict is used in the second it runs out.
TakeEvent_bug(r, c, m) ==
    /\ Admit(c, m)
    /\ m.type = "event"
    /\ att[c].key = Author[m.ev]
    /\ \/ now > att[c].until /\ Begin(r, c, m, "lookup")
       \/ now <= att[c].until /\ ~TooEarly(m.ev, now) /\ Begin(r, c, m, "limit")
    /\ UNCHANGED <<clock, store, state, att, attempts, subs, history>>

\* handleEvent up to its first await: auth, pubkey binding, cached verdict.
TakeEvent(r, c, m) ==
    /\ Admit(c, m)
    /\ m.type = "event"
    /\ att[c].key = Author[m.ev]
    /\ \/ now >= att[c].until /\ Begin(r, c, m, "lookup")
       \/ now < att[c].until /\ ~TooEarly(m.ev, now) /\ Begin(r, c, m, "limit")
    /\ UNCHANGED <<clock, store, state, att, attempts, subs, history>>

RefuseEvent(c, m) ==
    /\ Admit(c, m)
    /\ m.type = "event"
    /\ \/ att[c].key # Author[m.ev]
       \/ now < att[c].until /\ TooEarly(m.ev, now)
    /\ UNCHANGED <<clock, store, state, att, attempts, subs, run, history>>

Receive(c, m) ==
    \/ TooMany(c, m)
    \/ TakeJunk(c, m)
    \/ TakeClose(c, m)
    \/ TooManyAuths(c, m)
    \/ FailAuth(c, m)
    \/ TakeAuth(c, m)
    \/ RefuseReq(c, m)
    \/ RefuseEvent(c, m)
    \/ \E r \in Request : ~Active(r) /\ (TakeReq(r, c, m) \/ TakeEvent(r, c, m))

-----------------------------------------------------------------------------
(***************************************************************************)
(* Handlers, from one await to the next.                                   *)
(***************************************************************************)

\* A positive verdict goes into the handler's copy, for AllowFor from `now`.
Granted(r) ==
    [run[r] EXCEPT
       !.step = IF TooEarly(Ev(r), run[r].began) THEN "flush" ELSE "limit",
       !.copy = [key |-> run[r].copy.key, until |-> run[r].began + AllowFor],
       !.updated = TRUE]

\* getUserByPubkey answers.
LookUp(r) ==
    /\ run[r].step = "lookup"
    /\ IF run[r].copy.key \in allowed
       THEN run' = [run EXCEPT ![r] = Granted(r)]
       ELSE Finish(r)
    /\ UNCHANGED <<clock, store, state, att, memory, subs, history>>

\* The two rate limits: either may deny, and a D1 error denies.
Limit(r) ==
    /\ run[r].step = "limit"
    /\ Step(r, "mirror") \/ Step(r, "flush")
    /\ UNCHANGED <<clock, store, state, att, memory, subs, history>>

Known(e) == winner[Slot(e)] = e

\* mirrorEvent resolves to "stored".
Mirror(r) ==
    /\ run[r].step = "mirror"
    /\ \/ Known(Ev(r)) /\ UNCHANGED store
       \/ ~Known(Ev(r)) /\ (Put(Ev(r)) \/ Erase(Ev(r)))
    /\ Step(r, IF IsPost(Ev(r)) THEN "servable" ELSE "fanout")
    /\ shown' = shown \cup Visible'
    /\ UNCHANGED <<clock, state, att, memory, subs, believed, asked, seen, relayed, missed, lacks>>

\* It resolves to "stale" or "invalid".
Refuse(r) ==
    /\ run[r].step = "mirror"
    /\ ~IsDelete(Ev(r)) /\ ~Known(Ev(r)) /\ ~Wins(Ev(r))
    /\ Step(r, "flush")
    /\ UNCHANGED <<clock, store, state, att, memory, subs, history>>

\* A post is fanned out on the word of mirrorEvent alone.
ReadServable_bug(r) ==
    /\ run[r].step = "servable"
    /\ Step(r, "fanout")
    /\ UNCHANGED <<clock, store, state, att, memory, subs, history>>

\* SELECT deleted FROM events WHERE id = ?
ReadServable(r) ==
    /\ run[r].step = "servable"
    /\ Step(r, IF Ev(r) \in Visible THEN "fanout" ELSE "flush")
    /\ UNCHANGED <<clock, store, state, att, memory, subs, history>>

\* serializeAttachment of the handler's copy.
Flush(r) ==
    att' = IF run[r].updated /\ Sender(r) \in Live
           THEN [att EXCEPT ![Sender(r)] = run[r].copy]
           ELSE att

\* The sender's own subscriptions are skipped.
Reached_bug(r) ==
    {row \in subs : row.conn \in Live \ {Sender(r)} /\ Ev(r) \in Matches(row.filter)}

Reached(r) == {row \in subs : row.conn \in Live /\ Ev(r) \in Matches(row.filter)}

\* REQs between their first D1 read and their put.
Reading(q) == run[q].step \in {"query", "put"} /\ run[q].next > 1

\* subs.all(), then the sends of webSocketMessage, with no await between them.
FanOut(r) ==
    /\ run[r].step = "fanout"
    /\ Flush(r)
    /\ seen' = seen \cup {<<row.conn, row.sub, Ev(r)>> : row \in Reached(r)}
    /\ relayed' = relayed \cup {Ev(r)}
    /\ lacks' = [q \in Request |-> IF Reading(q) THEN lacks[q] \cup {Ev(r)} ELSE lacks[q]]
    /\ Finish(r)
    /\ UNCHANGED <<clock, store, state, memory, subs, believed, asked, missed, shown>>

\* A handler that returned early: its attachment is still persisted.
Return(r) ==
    /\ run[r].step = "flush"
    /\ Flush(r)
    /\ Finish(r)
    /\ UNCHANGED <<clock, store, state, memory, subs, history>>

\* ORDER BY created_at DESC, id ASC
Above(a, b) ==
    \/ CreatedAt[a] > CreatedAt[b]
    \/ (CreatedAt[a] = CreatedAt[b] /\ Id[a] < Id[b])

\* ... LIMIT n
Newest(events, n) == {e \in events : Cardinality({x \in events : Above(x, e)}) < n}

\* The rows of one filter's statement that pass its tag conditions.
Read(clause) == Newest(Visible \cap clause.sql, clause.limit) \cap clause.match

\* queryEvents: one statement per filter, each a D1 round trip; the merged rows are
\* capped at the largest of the limits.
QueryStored(r) ==
    LET clauses == Clauses[Msg(r).filter]
        clause == clauses[run[r].next]
        merged == run[r].rows \cup Read(clause)
        last == run[r].next = Len(clauses)
        cap == Max({clauses[i].limit : i \in DOMAIN clauses})
        rows == IF last THEN Newest(merged, cap) ELSE merged
    IN
    /\ run[r].step = "query"
    /\ run' = [run EXCEPT ![r].step = IF last THEN "put" ELSE "query",
                          ![r].next = @ + 1,
                          ![r].rows = rows]
    /\ lacks' = [lacks EXCEPT ![r] = @ \cup ((Visible \cap clause.match) \ Read(clause))
                                       \cup (merged \ rows)]
    /\ UNCHANGED <<clock, store, state, att, memory, subs, believed, asked, seen, relayed,
                   missed, shown>>

\* The rows of one subscription, of a connection that is still there.
Of(r, events) ==
    IF Sender(r) \in Live THEN {<<Sender(r), Msg(r).sub, e>> : e \in events} ELSE {}

\* The stored events, EOSE, and only now the subscription.
PutSub(r) ==
    LET c == Sender(r)
        s == Msg(r).sub
        Others(sent) == {t \in sent : ~(t[1] = c /\ t[2] = s)}
    IN  /\ run[r].step = "put"
        /\ subs' = (subs \ Named(subs, c, s))
                      \cup {[conn |-> c, sub |-> s, filter |-> Msg(r).filter]}
        /\ seen' = Others(seen) \cup Of(r, run[r].rows)
        /\ missed' = Others(missed) \cup Of(r, lacks[r] \ run[r].rows)
        /\ lacks' = [lacks EXCEPT ![r] = {}]
        /\ Finish(r)
        /\ UNCHANGED <<clock, store, state, att, memory, believed, asked, relayed, shown>>

\* A D1 call of the handler rejects: CLOSED, OK false, or no fan-out.
Fail(r) ==
    /\ mix.mayFail
    /\ \/ run[r].step \in {"lookup", "mirror", "servable", "query"}
       \/ run[r].step = "fanout" /\ ~IsPost(Ev(r))      \* the bump inside mirrorEvent
    /\ IF run[r].step \in {"lookup", "query"} THEN Finish(r) ELSE Step(r, "flush")
    /\ UNCHANGED <<clock, store, state, att, memory, subs, history>>

Resume(r) ==
    \/ LookUp(r)
    \/ Limit(r)
    \/ Mirror(r)
    \/ Refuse(r)
    \/ ReadServable(r)
    \/ FanOut(r)
    \/ Return(r)
    \/ QueryStored(r)
    \/ PutSub(r)
    \/ Fail(r)

-----------------------------------------------------------------------------
(***************************************************************************)
(* The rest of the site.                                                   *)
(***************************************************************************)

\* An event reaches the store by the dashboard or the cron refresh: no fan-out.
MirrorElsewhere ==
    /\ \E e \in mix.events : ~Known(e) /\ (Put(e) \/ Erase(e))
    /\ shown' = shown \cup Visible'
    /\ UNCHANGED <<clock, state, att, memory, subs, run, believed, asked,
                   seen, relayed, missed, lacks>>

\* claimHandle, or an admin's unblock.
Claim ==
    /\ \E k \in mix.moderated \ allowed : allowed' = allowed \cup {k}
    /\ UNCHANGED <<mix, now, barred, store, state, att, memory, subs, run, history>>

\* An admin blocks the author.
Block ==
    /\ \E k \in allowed \cap mix.moderated :
          /\ allowed' = allowed \ {k}
          /\ barred' = [barred EXCEPT ![k] = now]
    /\ UNCHANGED <<mix, now, store, state, att, memory, subs, run, history>>

Tick ==
    /\ now < MaxTime
    /\ now' = now + 1
    /\ UNCHANGED <<mix, allowed, barred, store, state, att, memory, subs, run,
                   history>>

Elsewhere == MirrorElsewhere \/ Claim \/ Block \/ Tick

Sockets ==
    \/ \E c \in Conn : Upgrade(c) \/ CloseSocket(c)
    \/ Hibernate
    \/ Evict

Work == (\E r \in Request : Resume(r)) \/ Sockets \/ Elsewhere

Next == (\E c \in Conn, m \in Message : Receive(c, m)) \/ Work

Spec == Init /\ [][Next]_vars

-----------------------------------------------------------------------------
(***************************************************************************)
(* Properties.                                                             *)
(***************************************************************************)
\* The object's tables, attachments and counters have their types; no counter
\* passes the limit that closes the socket.
TypeOK ==
    /\ mix \in Mixes
    /\ now \in 0..MaxTime
    /\ allowed \subseteq Key
    /\ barred \in [Key -> Int]
    /\ state \in [Conn -> {"new", "open", "gone"}]
    /\ att \in [Conn -> Attachment]
    /\ window \in [Conn -> [start : Nat, count : 0..MaxMessages]]
    /\ attempts \in [Conn -> 0..MaxAuthAttempts]
    /\ subs \subseteq Row
    /\ run \in [Request -> Handler \cup {Idle}]
    /\ believed \in [Conn -> Key \cup {NoKey}]
    /\ asked \subseteq Row

\* A cached allowlist verdict belongs to the key the connection is authenticated
\* as, and outlives that key's block by less than the cache time, however EVENT
\* handlers holding old copies of the attachment and AUTH frames interleave.
VerdictBounded ==
    \A c \in Conn : att[c].until > 0 =>
        /\ att[c].key # NoKey
        /\ \/ att[c].key \in allowed
           \/ att[c].until <= barred[att[c].key] + AllowFor

\* No EVENT passes the allowlist that arrived ALLOWLIST_CACHE_SECONDS or more
\* after its author was blocked.
AcceptedWasAllowed ==
    \A r \in Request : run[r].step \in {"limit", "mirror", "servable", "fanout"} =>
        LET k == Author[Ev(r)]
        IN  k \in allowed \/ run[r].began < barred[k] + AllowFor

\* Every live subscription has been sent every visible event it matches that the
\* relay has fanned out, with two exceptions: an event that its REQ's reads found and
\* left behind a filter's LIMIT or the cap of the merged rows, and an event fanned
\* out between the first D1 read of the REQ and the put of its row.
NothingElseMissed ==
    \A row \in subs, e \in relayed :
        row.conn \in Live /\ e \in Visible /\ e \in Matches(row.filter) =>
            <<row.conn, row.sub, e>> \in seen \cup missed

\* A post that was under a delete horizon when it was ingested is never sent,
\* live or from the store ("tombstone guard" of handleEvent).
TombstonesUnsent == \A t \in seen : IsPost(t[3]) => t[3] \in shown

\* A handler takes a post in hand to send, live or from the store, only while the post
\* is visible: what a fan-out that races a delete can still send is a post that was
\* visible at that handler's own read, and no other.
OnlyVisibleTaken ==
    \A r \in Request :
        /\ run'[r].rows \subseteq run[r].rows \cup Visible
        /\ run[r].step # "fanout" /\ run'[r].step = "fanout" =>
              (IsPost(Ev(r)) => Ev(r) \in Visible)

\* The key a client was last told it is authenticated as is the key the relay
\* holds for it ("auth state must not be lost while the client believes it holds",
\* do.ts:610-611).  It does not hold of a client that does not wait for its answers.
AuthKept == \A c \in Live : believed[c] = att[c].key

\* Once its frames are handled, a live connection that waits for each answer has the
\* subscriptions its REQ and CLOSE frames, in the order it sent them, ask for.
SubsAsAsked ==
    mix.inTurn =>
        \A c \in Live : Answered(c) => RowsOf(c) = {row \in asked : row.conn = c}
=============================================================================
