--------------------------- MODULE AccountsProofs ---------------------------
(***************************************************************************)
(* Theorems about Accounts, for any number of requests, keys, nonces,      *)
(* tokens and slots, any limits and any clock.                             *)
(***************************************************************************)
EXTENDS Accounts, FiniteSetTheorems, WellFoundedInduction, TLAPS

-----------------------------------------------------------------------------
(***************************************************************************)
(* Ends of sets of numbers.                                                *)
(***************************************************************************)
LEMMA LeastExists ==
    ASSUME NEW S \in SUBSET Nat, S # {}
    PROVE  \E e \in S : \A d \in S : e <= d
<1> DEFINE R == OpToRel(<, Nat)
<1>1. PICK e \in S : \A d \in S : <<d, e>> \notin R
  <2> HIDE DEF R
  <2> QED  BY NatLessThanWellFounded, WFMin DEF R
<1>2. \A d \in S : ~(d < e)
  BY <1>1 DEF OpToRel
<1> QED
  BY <1>2

LEMMA GreatestExists ==
    ASSUME NEW n \in Nat, NEW S \in SUBSET (1..n), S # {}
    PROVE  \E e \in S : \A d \in S : d <= e
<1> DEFINE T == {m \in 0..n : n - m \in S}
<1>1. T \in SUBSET Nat /\ T # {}
  <2>1. PICK e \in S : TRUE
    OBVIOUS
  <2>2. n - e \in 0..n /\ n - (n - e) = e
    BY <2>1
  <2>3. n - e \in T
    BY <2>1, <2>2
  <2>4. T \in SUBSET Nat
    OBVIOUS
  <2> QED
    BY <2>3, <2>4
<1>2. PICK m \in T : \A k \in T : m <= k
  BY <1>1, LeastExists
<1>3. n - m \in S /\ \A d \in S : n - d \in T
  OBVIOUS
<1> QED
  BY <1>2, <1>3

LEMMA OldestStored ==
    ASSUME mirrored \in SUBSET Nat, mirrored # {}
    PROVE  Oldest \in mirrored
BY LeastExists DEF Oldest

LEMMA ForemostIn ==
    ASSUME NEW n \in Nat, NEW S \in SUBSET (1..n), S # {}
    PROVE  Foremost(S) \in S
BY GreatestExists DEF Foremost

LEMMA WindowStartType ==
    ASSUME NEW t \in 0..End
    PROVE  WindowStart(t) \in 0..End
<1>1. Window \in Nat \ {0} /\ End \in Nat
  BY AccountsAssumption
<1>2. t % Window \in 0..t
  BY <1>1
<1> QED
  BY <1>1, <1>2 DEF WindowStart
-----------------------------------------------------------------------------
(***************************************************************************)
(* Types.  A request of a kind has the name and the key that kind needs;    *)
(* a visit has events the relays hold.                                     *)
(***************************************************************************)
World ==
    /\ mix \in Mixes
    /\ now \in 1..End
    /\ rate \in [Metered -> [count : 0..Max + 1, window : 0..End]]
    /\ granted \in [Metered -> [0..End -> Nat]]
    /\ back \in [Metered -> Nat]
    /\ nonces \in [Nonce -> 0..End + NonceTtl]
    /\ issued \subseteq Nonce
    /\ session \in [Token -> [is : {"unused"}, key : {NoOne}]
                              \cup [is : {"live", "ended", "gone"}, key : Key]]
    /\ opener \in [Token -> Nonce \cup {NoOne}]
    /\ handle \in [Key -> Handle \cup {NoOne}]
    /\ blocked \subseteq Key
    /\ post \in [Slot -> {"none", "live", "revived", "tomb"}]
    /\ cool \in BOOLEAN
    /\ relays \in 0..MaxEvent
    /\ mirrored \subseteq 1..relays

\* Tokens that are or were of a session.
Used(sessions) == {t \in Token : sessions[t].is # "unused"}

Suits(step, kind, key) ==
    /\ step \in {"consume", "open"} => kind = "login"
    /\ step = "end" => kind = "logout"
    /\ step = "gate" => kind \in {"publish", "claim"}
    /\ step \in {"slot", "count", "mirror"} => kind = "publish"
    /\ step = "upsert" => kind = "claim"
    /\ step = "open" => key \in Key

Proper(q, used) ==
    /\ q.kind \in Kind
    /\ Suits(q.step, q.kind, q.key)
    /\ q.kind = "login" => q.name \in Nonce
    /\ q.kind = "logout" => q.name \in used
    /\ q.kind = "publish" => q.name \in Slot
    /\ q.kind = "claim" => q.name \in Handle /\ q.key \in Key

Fits(q, used, held, stored) ==
    /\ q \in Request
    /\ q.page \subseteq 1..held
    /\ q.until \in 0..held
    /\ q.has => stored # {}
    /\ q.step # "idle" => Proper(q, used)

TypeInv ==
    /\ World
    /\ req \in [Req -> Request]
    /\ \A r \in Req : Fits(req[r], Used(session), relays, mirrored)

\* Nothing a request relies on goes away.
Kept ==
    /\ Used(session) \subseteq Used(session')
    /\ relays <= relays'
    /\ mirrored # {} => mirrored' # {}

Advances(r) ==
    /\ World'
    /\ Kept
    /\ req' = [req EXCEPT ![r] = req'[r]]
    /\ Fits(req'[r], Used(session'), relays', mirrored')

LEMMA FitsLater ==
    ASSUME World, World', Kept, NEW q, Fits(q, Used(session), relays, mirrored)
    PROVE  Fits(q, Used(session'), relays', mirrored')
<1>1. relays \in Nat /\ relays' \in Nat
  BY AccountsAssumption DEF World
<1>2. q.page \subseteq 1..relays' /\ q.until \in 0..relays'
  BY <1>1 DEF Kept, Fits
<1>3. q.step # "idle" => Proper(q, Used(session'))
  BY DEF Kept, Fits, Proper
<1> QED
  BY <1>2, <1>3 DEF Fits, Kept

LEMMA AdvanceTypes ==
    ASSUME TypeInv, NEW r \in Req, Advances(r)
    PROVE  TypeInv'
<1>1. req' \in [Req -> Request]
  BY DEF TypeInv, Advances, Fits
<1>2. ASSUME NEW x \in Req
      PROVE  Fits(req'[x], Used(session'), relays', mirrored')
  <2>1. CASE x = r
    BY <2>1 DEF Advances
  <2>2. CASE x # r
    <3>1. req'[x] = req[x]
      BY <2>2 DEF Advances, TypeInv
    <3> QED
      BY <3>1, FitsLater DEF Advances, TypeInv
  <2> QED
    BY <2>1, <2>2
<1> QED
  BY <1>1, <1>2 DEF TypeInv, Advances

LEMMA RestTypes ==
    ASSUME TypeInv, World', Kept, req' = req
    PROVE  TypeInv'
BY FitsLater DEF TypeInv

\* An action that changes its request only.
LEMMA OnlyRequest ==
    ASSUME World, UNCHANGED <<mix, now, limiter, login, handle, blocked, post, npub>>
    PROVE  World' /\ Kept
<1>1. relays \in Nat
  BY AccountsAssumption DEF World
<1> QED
  BY <1>1 DEF World, Kept, limiter, login, npub

LEMMA IdleFits ==
    ASSUME World
    PROVE  Fits(Idle, Used(session), relays, mirrored)
BY AccountsAssumption DEF World, Fits, Idle, Request

LEMMA AskAdvances ==
    ASSUME TypeInv, NEW r \in Req, NEW kind \in Kind, NEW q, q \in Request, q.page = {}, q.until = 0, ~q.has,
           Ask(r, kind, q), 
           kind = "login" => q.name \in Nonce,
           kind = "logout" => q.name \in Used(session),
           kind = "publish" => q.name \in Slot,
           kind = "claim" => q.name \in Handle /\ q.key \in Key
    PROVE  Advances(r)
<1> DEFINE new == [q EXCEPT !.kind = kind, !.step = "meter", !.at = now]
<1>1. World' /\ Kept
  BY OnlyRequest DEF TypeInv, Ask
<1>2. req' = [req EXCEPT ![r] = new]
  BY DEF Ask, Set
<1>3. req'[r] = new
  BY <1>2 DEF TypeInv
<1>4. new \in Request
  <2>1. kind \in Kind \cup {NoOne} /\ now \in 0..End
    BY AccountsAssumption DEF TypeInv, World
  <2> QED
    BY <2>1, ZenonT(60) DEF Request
<1>5. /\ new.kind = kind /\ new.step = "meter" /\ new.name = q.name /\ new.key = q.key
      /\ new.page = {} /\ new.until = 0 /\ ~new.has
  BY DEF Request
<1>6. session' = session /\ relays' \in Nat
  BY <1>1, AccountsAssumption DEF Ask, login, World
<1>7. Proper(new, Used(session'))
  <2> HIDE DEF new
  <2> QED
    BY <1>5, <1>6 DEF Proper, Suits, Used
<1>8. Fits(new, Used(session'), relays', mirrored')
  <2> HIDE DEF new
  <2> QED
    BY <1>4, <1>5, <1>6, <1>7 DEF Fits
<1> QED
  BY <1>1, <1>2, <1>3, <1>8 DEF Advances

LEMMA IdleRequest == Idle \in Request
BY AccountsAssumption DEF Idle, Request

LEMMA ArriveAdvances ==
    ASSUME TypeInv, NEW r \in Req, Arrive(r)
    PROVE  Advances(r)
<1>1. CASE AskChallenge(r)
  BY <1>1, IdleRequest, AskAdvances DEF AskChallenge, Idle, Kind
<1>2. CASE AskLogin(r)
  <2>1. PICK n \in issued, k \in Key \cup {NoOne} :
            Ask(r, "login", [Idle EXCEPT !.name = n, !.key = k])
    BY <1>2 DEF AskLogin
  <2> DEFINE q == [Idle EXCEPT !.name = n, !.key = k]
  <2>2. /\ q \in Request /\ q.page = {} /\ q.until = 0 /\ ~q.has /\ q.name \in Nonce
    BY IdleRequest DEF Idle, Request, TypeInv, World
  <2> HIDE DEF q
  <2> QED
    BY <2>1, <2>2, AskAdvances DEF q, Kind
<1>3. CASE AskLogout(r)
  <2>1. PICK t \in Token :
            /\ SignedIn(t)
            /\ Ask(r, "logout", [Idle EXCEPT !.name = t])
    BY <1>3 DEF AskLogout
  <2> DEFINE q == [Idle EXCEPT !.name = t]
  <2>2. t \in Used(session)
    BY <2>1 DEF SignedIn, Used
  <2>3. /\ q \in Request /\ q.page = {} /\ q.until = 0 /\ ~q.has /\ q.name = t
    BY IdleRequest DEF Idle, Request
  <2> HIDE DEF q
  <2> QED
    BY <2>1, <2>2, <2>3, AskAdvances DEF q, Kind
<1>4. CASE AskPublish(r)
  <2>1. PICK t \in Token, d \in Slot, erase \in BOOLEAN :
            Ask(r, "publish", [Idle EXCEPT !.key = Author, !.name = d, !.erase = erase])
    BY <1>4 DEF AskPublish
  <2> DEFINE q == [Idle EXCEPT !.key = Author, !.name = d, !.erase = erase]
  <2>2. /\ q \in Request /\ q.page = {} /\ q.until = 0 /\ ~q.has /\ q.name = d
    BY IdleRequest, AccountsAssumption DEF Idle, Request
  <2> HIDE DEF q
  <2> QED
    BY <2>1, <2>2, AskAdvances DEF q, Kind
<1>5. CASE AskClaim(r)
  <2>1. PICK t \in Token, h \in Handle :
            /\ SignedIn(t)
            /\ Ask(r, "claim", [Idle EXCEPT !.key = session[t].key, !.name = h])
    BY <1>5 DEF AskClaim
  <2> DEFINE q == [Idle EXCEPT !.key = session[t].key, !.name = h]
  <2>2. session[t].key \in Key
    BY <2>1 DEF TypeInv, World, SignedIn
  <2>3. /\ q \in Request /\ q.page = {} /\ q.until = 0 /\ ~q.has
        /\ q.name = h /\ q.key = session[t].key
    BY <2>2, IdleRequest DEF Idle, Request
  <2> HIDE DEF q
  <2> QED
    BY <2>1, <2>2, <2>3, AskAdvances DEF q, Kind
<1>6. CASE AskVisit(r)
  <2> DEFINE q == [Idle EXCEPT !.kind = "visit", !.key = Author, !.step = "look"]
  <2>1. World' /\ Kept
    BY <1>6, OnlyRequest DEF TypeInv, AskVisit
  <2>2. req' = [req EXCEPT ![r] = q] /\ req'[r] = q
    BY <1>6 DEF AskVisit, Set, TypeInv
  <2>3. /\ q \in Request /\ q.page = {} /\ q.until = 0 /\ ~q.has
        /\ q.kind = "visit" /\ q.step = "look"
    BY IdleRequest, AccountsAssumption DEF Idle, Request, Kind
  <2>4. relays' \in Nat
    BY <2>1, AccountsAssumption DEF World
  <2>5. Fits(q, Used(session'), relays', mirrored')
    <3> HIDE DEF q
    <3> QED
      BY <2>3, <2>4 DEF Fits, Proper, Suits, Kind
  <2> QED
    BY <2>1, <2>2, <2>5 DEF Advances
<1> QED
  BY <1>1, <1>2, <1>3, <1>4, <1>5, <1>6 DEF Arrive

-----------------------------------------------------------------------------
\* A request ends.
LEMMA EndAdvances ==
    ASSUME TypeInv, NEW r \in Req, World', Kept, Set(r, Idle)
    PROVE  Advances(r)
<1>1. Fits(Idle, Used(session'), relays', mirrored')
  <2>1. relays' \in Nat
    BY AccountsAssumption DEF World
  <2> QED
    BY <2>1, IdleRequest DEF Fits, Idle
<1> QED
  BY <1>1 DEF Set, TypeInv, Advances

\* A request goes on, with its kind, its name and its key.
LEMMA OnAdvances ==
    ASSUME TypeInv, NEW r \in Req, World', Kept, NEW new \in Request, Set(r, new),
           req[r].step # "idle",
           new.kind = req[r].kind, new.name = req[r].name, new.key = req[r].key,
           new.until = req[r].until, new.has = req[r].has, new.page \subseteq req[r].page,
           Suits(new.step, new.kind, new.key)
    PROVE  Advances(r)
<1>1. Fits(req[r], Used(session'), relays', mirrored')
  BY FitsLater DEF TypeInv
<1>2. Fits(new, Used(session'), relays', mirrored')
  BY <1>1 DEF Fits, Proper
<1> QED
  BY <1>2 DEF Set, TypeInv, Advances

LEMMA CountedType ==
    ASSUME NEW row \in [count : 0..Max + 1, window : 0..End], NEW start
    PROVE  Counted(row, start) \in 1..Max + 1
BY AccountsAssumption DEF Counted

LEMMA ProceedType ==
    ASSUME TypeInv, NEW r \in Req, req[r].step = "meter"
    PROVE  /\ Proceed(r) \in Request
           /\ Proceed(r).kind = req[r].kind /\ Proceed(r).name = req[r].name
           /\ Proceed(r).key = req[r].key /\ Proceed(r).until = req[r].until
           /\ Proceed(r).has = req[r].has /\ Proceed(r).page = req[r].page
           /\ Proceed(r).step = After(req[r].kind)
           /\ Suits(After(req[r].kind), req[r].kind, req[r].key)
<1>1. req[r] \in Request /\ req[r].kind \in Kind
  BY DEF TypeInv, Fits, Proper
<1>2. now \in 0..End /\ 0 \in 0..End
  BY AccountsAssumption DEF TypeInv, World
<1>3. /\ After(req[r].kind) \in {"issue", "consume", "end", "mark", "gate"}
      /\ Suits(After(req[r].kind), req[r].kind, req[r].key)
  BY <1>1 DEF After, Kind, Suits
<1> DEFINE s == After(req[r].kind)
           t == IF req[r].kind = "login" THEN now ELSE 0
<1>4. s \in {"issue", "consume", "end", "mark", "gate"} /\ t \in 0..End
  BY <1>2, <1>3
<1>5. Proceed(r) = [req[r] EXCEPT !.step = s, !.at = t]
  BY DEF Proceed
<1> HIDE DEF s, t
<1> QED
  BY <1>1, <1>3, <1>4, <1>5, ZenonT(60) DEF Request, s

LEMMA BumpType ==
    ASSUME NEW S, NEW f \in [S -> Nat], NEW s \in S
    PROVE  [f EXCEPT ![s] = @ + 1] \in [S -> Nat]
OBVIOUS

LEMMA MeterAdvances ==
    ASSUME TypeInv, NEW r \in Req, Meter(r)
    PROVE  Advances(r)
<1> DEFINE k == req[r].kind
           start == WindowStart(req[r].at)
           count == Counted(rate[k], start)
<1>1. k \in Metered /\ start \in 0..End /\ req[r].step = "meter"
  BY WindowStartType DEF Meter, TypeInv, Request
<1>2. count \in 1..Max + 1
  BY <1>1, CountedType DEF TypeInv, World
<1>3. /\ rate' = [rate EXCEPT ![k] = [count |-> count, window |-> start]]
      /\ back' = [back EXCEPT ![k] = IF start < rate[k].window THEN @ + 1 ELSE @]
      /\ \/ granted' = [granted EXCEPT ![k][start] = @ + 1] /\ Set(r, Proceed(r))
         \/ granted' = granted /\ Set(r, Idle)
      /\ UNCHANGED <<mix, now, login, handle, blocked, post, npub>>
  BY DEF Meter
<1> HIDE DEF k, start, count
<1>4. rate' \in [Metered -> [count : 0..Max + 1, window : 0..End]]
  <2>1. [count |-> count, window |-> start] \in [count : 0..Max + 1, window : 0..End]
    BY <1>1, <1>2, AccountsAssumption
  <2> QED
    BY <1>1, <1>3, <2>1 DEF TypeInv, World
<1>5. back' \in [Metered -> Nat]
  BY <1>1, <1>3 DEF TypeInv, World
<1>6. granted' \in [Metered -> [0..End -> Nat]]
  <2>1. granted[k] \in [0..End -> Nat]
    BY <1>1 DEF TypeInv, World
  <2>2. [granted[k] EXCEPT ![start] = @ + 1] \in [0..End -> Nat]
    BY <1>1, <2>1, BumpType
  <2> DEFINE f == [granted[k] EXCEPT ![start] = @ + 1]
  <2>3. granted' = [granted EXCEPT ![k] = f] \/ granted' = granted
    BY <1>3
  <2> HIDE DEF f
  <2> QED
    BY <2>2, <2>3 DEF TypeInv, World, f
<1>7. relays \in Nat
  BY AccountsAssumption DEF TypeInv, World
<1>8. World' /\ Kept
  BY <1>3, <1>4, <1>5, <1>6, <1>7 DEF TypeInv, World, Kept, login, npub
<1>9. CASE Set(r, Proceed(r))
  BY <1>1, <1>8, <1>9, ProceedType, OnAdvances
<1>10. CASE Set(r, Idle)
  BY <1>8, <1>10, EndAdvances
<1> QED
  BY <1>3, <1>9, <1>10

LEMMA PassAdvances ==
    ASSUME TypeInv, NEW r \in Req, Pass(r)
    PROVE  Advances(r)
<1>1. World' /\ Kept
  BY OnlyRequest DEF Pass, TypeInv
<1>2. req[r].step = "meter" /\ Set(r, Proceed(r))
  BY DEF Pass
<1> QED
  BY <1>1, <1>2, ProceedType, OnAdvances

LEMMA IssueAdvances ==
    ASSUME TypeInv, NEW r \in Req, Issue(r)
    PROVE  Advances(r)
<1>1. PICK n \in Nonce \ issued :
         /\ nonces' = [m \in Nonce |-> IF m = n THEN now + NonceTtl
                                       ELSE IF nonces[m] < now THEN 0
                                       ELSE nonces[m]]
         /\ issued' = issued \cup {n}
  BY DEF Issue
<1>2. now + NonceTtl \in 0..End + NonceTtl /\ 0 \in 0..End + NonceTtl /\ relays \in Nat
  BY AccountsAssumption DEF TypeInv, World
<1>3. nonces' \in [Nonce -> 0..End + NonceTtl]
  BY <1>1, <1>2 DEF TypeInv, World
<1>4. World' /\ Kept
  BY <1>1, <1>2, <1>3 DEF Issue, TypeInv, World, Kept, limiter, npub
<1> QED
  BY <1>4, EndAdvances DEF Issue

\* A request moves to another step.
LEMMA GotoAdvances ==
    ASSUME TypeInv, NEW r \in Req, World', Kept, NEW step, Goto(r, step),
           [req[r] EXCEPT !.step = step] \in Request,
           req[r].step # "idle", Suits(step, req[r].kind, req[r].key)
    PROVE  Advances(r)
<1> DEFINE new == [req[r] EXCEPT !.step = step]
<1>1. req[r] \in Request
  BY DEF TypeInv
<1>2. /\ new.kind = req[r].kind /\ new.name = req[r].name /\ new.key = req[r].key
      /\ new.until = req[r].until /\ new.has = req[r].has /\ new.page = req[r].page
      /\ new.step = step
  BY <1>1 DEF Request
<1>3. Set(r, new) /\ new \in Request
  BY DEF Goto
<1> HIDE DEF new
<1> QED
  BY <1>2, <1>3, OnAdvances

LEMMA ConsumeAdvances ==
    ASSUME TypeInv, NEW r \in Req, Consume(r)
    PROVE  Advances(r)
<1> DEFINE n == req[r].name
<1>1. /\ req[r] \in Request /\ req[r].kind = "login" /\ req[r].key \in Key \cup {NoOne}
      /\ req[r].step = "consume" /\ n \in Nonce
  BY DEF TypeInv, Fits, Proper, Suits, Consume, Request
<1>2. /\ nonces' = [nonces EXCEPT ![n] = 0] \/ nonces' = nonces
      /\ (Verified(r) /\ Goto(r, "open")) \/ Set(r, Idle)
      /\ UNCHANGED <<mix, now, limiter, issued, session, opener, handle, blocked, post, npub>>
  BY DEF Consume, Consumed
<1>3. relays \in Nat /\ 0 \in 0..End + NonceTtl
  BY AccountsAssumption DEF TypeInv, World
<1>4. nonces' \in [Nonce -> 0..End + NonceTtl]
  BY <1>2, <1>3 DEF TypeInv, World
<1>5. World' /\ Kept
  BY <1>2, <1>3, <1>4 DEF TypeInv, World, Kept, limiter, npub
<1>6. CASE Verified(r) /\ Goto(r, "open")
  <2>1. Suits("open", req[r].kind, req[r].key)
    BY <1>1, <1>6 DEF Suits, Verified
  <2>2. [req[r] EXCEPT !.step = "open"] \in Request
    BY <1>1 DEF Request
  <2> QED
    BY <1>1, <1>5, <1>6, <2>1, <2>2, GotoAdvances
<1>7. CASE Set(r, Idle)
  BY <1>5, <1>7, EndAdvances
<1> QED
  BY <1>2, <1>6, <1>7

LEMMA OpenAdvances ==
    ASSUME TypeInv, NEW r \in Req, Open(r)
    PROVE  Advances(r)
<1>1. req[r].key \in Key /\ req[r].name \in Nonce
  BY DEF TypeInv, Fits, Proper, Suits, Open
<1>2. PICK t \in Token :
          /\ session[t].is = "unused"
          /\ session' = [session EXCEPT ![t] = [is |-> "live", key |-> req[r].key]]
          /\ opener' = [opener EXCEPT ![t] = req[r].name]
  BY DEF Open
<1>3. session' \in [Token -> [is : {"unused"}, key : {NoOne}]
                              \cup [is : {"live", "ended", "gone"}, key : Key]]
  BY <1>1, <1>2 DEF TypeInv, World
<1>4. Used(session) \subseteq Used(session')
  BY <1>2 DEF Used, TypeInv, World
<1>5. relays \in Nat
  BY AccountsAssumption DEF TypeInv, World
<1>6. opener' \in [Token -> Nonce \cup {NoOne}]
  BY <1>1, <1>2 DEF TypeInv, World
<1>7. UNCHANGED <<mix, now, limiter, nonces, issued, handle, blocked, post, npub>>
  BY DEF Open
<1>8. World'
  BY <1>3, <1>6, <1>7 DEF TypeInv, World, limiter, npub
<1>9. Kept
  BY <1>4, <1>5, <1>7 DEF Kept, npub
<1> QED
  BY <1>8, <1>9, EndAdvances DEF Open

\* A session that was opened ends or is forgotten.
LEMMA SessionMoves ==
    ASSUME World, NEW t \in Used(session), NEW is \in {"ended", "gone"},
           session' = [session EXCEPT ![t].is = is],
           UNCHANGED <<mix, now, limiter, nonces, issued, opener, handle, blocked, post, npub>>
    PROVE  World' /\ Kept
<1>1. t \in Token /\ session[t] \in [is : {"live", "ended", "gone"}, key : Key]
  BY DEF Used, World
<1>2. [session[t] EXCEPT !.is = is] \in [is : {"live", "ended", "gone"}, key : Key]
  BY <1>1
<1>3. session' \in [Token -> [is : {"unused"}, key : {NoOne}]
                              \cup [is : {"live", "ended", "gone"}, key : Key]]
  BY <1>1, <1>2 DEF World
<1>4. Used(session) \subseteq Used(session')
  <2>1. session'[t].is # "unused"
    BY <1>1, <1>2 DEF World
  <2>2. \A s \in Token \ {t} : session'[s] = session[s]
    BY <1>1 DEF World
  <2> QED
    BY <2>1, <2>2 DEF Used
<1>5. World'
  BY <1>3 DEF World, limiter, npub
<1>6. relays \in Nat
  BY AccountsAssumption DEF World
<1>7. relays' = relays /\ mirrored' = mirrored
  BY DEF npub
<1>8. relays <= relays'
  BY <1>6, <1>7
<1> QED
  BY <1>4, <1>5, <1>7, <1>8 DEF Kept

LEMMA LogoutAdvances ==
    ASSUME TypeInv, NEW r \in Req, Logout(r)
    PROVE  Advances(r)
<1>1. req[r].name \in Used(session)
  BY DEF TypeInv, Fits, Proper, Suits, Logout
<1>2. World' /\ Kept
  BY <1>1, SessionMoves DEF Logout, TypeInv
<1> QED
  BY <1>2, EndAdvances DEF Logout

LEMMA GateAdvances ==
    ASSUME TypeInv, NEW r \in Req, Gate(r)
    PROVE  Advances(r)
<1> DEFINE step == IF req[r].kind = "claim" THEN "upsert"
                   ELSE IF req[r].erase THEN "mirror" ELSE "slot"
<1>1. World' /\ Kept
  BY OnlyRequest DEF Gate, TypeInv
<1>2. /\ req[r] \in Request /\ req[r].kind \in {"publish", "claim"}
      /\ req[r].step = "gate" /\ req[r].key \in Key \cup {NoOne}
  BY DEF TypeInv, Fits, Proper, Suits, Gate, Request
<1>3. step \in {"upsert", "mirror", "slot"} /\ Suits(step, req[r].kind, req[r].key)
  BY <1>2 DEF Suits
<1>4. Set(r, Idle) \/ Goto(r, step)
  BY DEF Gate
<1> HIDE DEF step
<1>5. [req[r] EXCEPT !.step = step] \in Request
  BY <1>2, <1>3 DEF Request
<1>6. CASE Goto(r, step)
  BY <1>1, <1>2, <1>3, <1>5, <1>6, GotoAdvances
<1> QED
  BY <1>1, <1>4, <1>6, EndAdvances

LEMMA ReadSlotAdvances ==
    ASSUME TypeInv, NEW r \in Req, ReadSlot(r)
    PROVE  Advances(r)
<1> DEFINE step == IF post[req[r].name] = "none" THEN "count" ELSE "mirror"
<1>1. World' /\ Kept
  BY OnlyRequest DEF ReadSlot, TypeInv
<1>2. req[r] \in Request /\ req[r].kind = "publish" /\ req[r].step = "slot"
  BY DEF TypeInv, Fits, Proper, Suits, ReadSlot
<1>3. step \in {"count", "mirror"} /\ Suits(step, req[r].kind, req[r].key)
  BY <1>2 DEF Suits
<1>4. Goto(r, step)
  BY DEF ReadSlot
<1> HIDE DEF step
<1>5. [req[r] EXCEPT !.step = step] \in Request
  BY <1>2, <1>3 DEF Request
<1> QED
  BY <1>1, <1>2, <1>3, <1>4, <1>5, GotoAdvances

LEMMA CountPostsAdvances ==
    ASSUME TypeInv, NEW r \in Req, CountPosts(r)
    PROVE  Advances(r)
<1> DEFINE new == [req[r] EXCEPT !.step = "mirror", !.fresh = TRUE]
<1>1. World' /\ Kept
  BY OnlyRequest DEF CountPosts, TypeInv
<1>2. req[r] \in Request /\ req[r].kind = "publish" /\ req[r].step = "count"
  BY DEF TypeInv, Fits, Proper, Suits, CountPosts
<1>3. /\ new \in Request /\ new.kind = req[r].kind /\ new.name = req[r].name
      /\ new.key = req[r].key /\ new.until = req[r].until /\ new.has = req[r].has
      /\ new.page = req[r].page /\ Suits(new.step, new.kind, new.key)
  BY <1>2 DEF Request, Suits
<1>4. Set(r, Idle) \/ Set(r, new)
  BY DEF CountPosts
<1> HIDE DEF new
<1>5. CASE Set(r, new)
  BY <1>1, <1>2, <1>3, <1>5, OnAdvances
<1> QED
  BY <1>1, <1>4, <1>5, EndAdvances

LEMMA MirrorEventAdvances ==
    ASSUME TypeInv, NEW r \in Req, MirrorEvent(r)
    PROVE  Advances(r)
<1>1. req[r].name \in Slot
  BY DEF TypeInv, Fits, Proper, Suits, MirrorEvent
<1>2. post' \in [Slot -> {"none", "live", "revived", "tomb"}]
  BY <1>1 DEF MirrorEvent, Mirrored, TypeInv, World
<1>3. UNCHANGED <<mix, now, limiter, login, handle, blocked, npub>>
  BY DEF MirrorEvent
<1>4. relays \in Nat
  BY AccountsAssumption DEF TypeInv, World
<1>5. World' /\ Kept
  BY <1>2, <1>3, <1>4 DEF TypeInv, World, Kept, limiter, login, npub
<1> QED
  BY <1>5, EndAdvances DEF MirrorEvent

LEMMA ClaimAdvances ==
    ASSUME TypeInv, NEW r \in Req, Claim(r)
    PROVE  Advances(r)
<1>1. req[r].name \in Handle /\ req[r].key \in Key
  BY DEF TypeInv, Fits, Proper, Suits, Claim
<1>2. handle' \in [Key -> Handle \cup {NoOne}]
  BY <1>1 DEF Claim, TypeInv, World
<1>3. UNCHANGED <<mix, now, limiter, login, blocked, post, npub>>
  BY DEF Claim
<1>4. relays \in Nat
  BY AccountsAssumption DEF TypeInv, World
<1>5. World' /\ Kept
  BY <1>2, <1>3, <1>4 DEF TypeInv, World, Kept, limiter, login, npub
<1> QED
  BY <1>5, EndAdvances DEF Claim

-----------------------------------------------------------------------------
\* The steps of a visit.
LEMMA VisitAdvances ==
    ASSUME TypeInv, NEW r \in Req, World', Kept, NEW new \in Request, Set(r, new),
           req[r].step # "idle",
           new.kind = req[r].kind, new.name = req[r].name, new.key = req[r].key,
           new.until \in 0..relays', new.page \subseteq 1..relays',
           new.has => mirrored' # {},
           new.step \in {"cool", "meter", "fetch", "lookup", "store"}
    PROVE  Advances(r)
<1>1. Fits(req[r], Used(session'), relays', mirrored')
  BY FitsLater DEF TypeInv
<1>2. Fits(new, Used(session'), relays', mirrored')
  BY <1>1 DEF Fits, Proper, Suits
<1> QED
  BY <1>2 DEF Set, TypeInv, Advances

LEMMA ReadDataAdvances ==
    ASSUME TypeInv, NEW r \in Req, ReadData(r)
    PROVE  Advances(r)
<1> DEFINE new == [req[r] EXCEPT !.step = "cool", !.has = mirrored # {}]
<1>1. World' /\ Kept /\ mirrored' = mirrored /\ relays' = relays
  BY OnlyRequest DEF ReadData, TypeInv, npub
<1>2. req[r] \in Request /\ req[r].step = "look"
  BY DEF TypeInv, ReadData
<1>3. req[r].page \subseteq 1..relays /\ req[r].until \in 0..relays
  BY DEF TypeInv, Fits
<1>4. /\ new \in Request /\ new.kind = req[r].kind /\ new.name = req[r].name
      /\ new.key = req[r].key /\ new.until = req[r].until /\ new.page = req[r].page
      /\ new.step = "cool" /\ new.has = (mirrored # {})
  BY <1>2, ZenonT(60) DEF Request
<1>5. Set(r, new)
  BY DEF ReadData
<1> HIDE DEF new
<1> QED
  BY <1>1, <1>2, <1>3, <1>4, <1>5, VisitAdvances

LEMMA CheckCooldownAdvances ==
    ASSUME TypeInv, NEW r \in Req, CheckCooldown(r)
    PROVE  Advances(r)
<1> DEFINE new == [req[r] EXCEPT !.step = "meter", !.at = now]
<1>1. World' /\ Kept /\ mirrored' = mirrored /\ relays' = relays
  BY OnlyRequest DEF CheckCooldown, TypeInv, npub
<1>2. req[r] \in Request /\ req[r].step = "cool" /\ now \in 0..End
  BY AccountsAssumption DEF TypeInv, World, CheckCooldown
<1>3. req[r].page \subseteq 1..relays /\ req[r].until \in 0..relays
      /\ (req[r].has => mirrored # {})
  BY DEF TypeInv, Fits
<1>4. /\ new \in Request /\ new.kind = req[r].kind /\ new.name = req[r].name
      /\ new.key = req[r].key /\ new.until = req[r].until /\ new.page = req[r].page
      /\ new.step = "meter" /\ new.has = req[r].has
  BY <1>2 DEF Request
<1>5. Set(r, Idle) \/ Set(r, new)
  BY DEF CheckCooldown
<1> HIDE DEF new
<1>6. CASE Set(r, new)
  BY <1>1, <1>2, <1>3, <1>4, <1>6, VisitAdvances
<1> QED
  BY <1>1, <1>5, <1>6, EndAdvances

LEMMA MarkCooldownAdvances ==
    ASSUME TypeInv, NEW r \in Req, MarkCooldown(r)
    PROVE  Advances(r)
<1> DEFINE new == [req[r] EXCEPT !.step = "fetch", !.credits = MirrorCap]
<1>1. req[r] \in Request /\ req[r].step = "mark" /\ MirrorCap \in Nat /\ relays \in Nat
  BY AccountsAssumption DEF TypeInv, World, MarkCooldown
<1>2. /\ cool' \in BOOLEAN
      /\ UNCHANGED <<mix, now, limiter, login, handle, blocked, post, relays, mirrored, excused>>
  BY DEF MarkCooldown, TypeInv, World
<1>3. World' /\ Kept
  BY <1>1, <1>2 DEF TypeInv, World, Kept, limiter, login
<1>4. req[r].page \subseteq 1..relays /\ req[r].until \in 0..relays
      /\ (req[r].has => mirrored # {})
  BY DEF TypeInv, Fits
<1>5. /\ new \in Request /\ new.kind = req[r].kind /\ new.name = req[r].name
      /\ new.key = req[r].key /\ new.until = req[r].until /\ new.page = req[r].page
      /\ new.step = "fetch" /\ new.has = req[r].has
  <2>1. MirrorCap \in 0..MirrorCap
    BY <1>1
  <2> QED
    BY <1>1, <2>1 DEF Request
<1>6. Set(r, new)
  BY DEF MarkCooldown
<1> HIDE DEF new
<1> QED
  BY <1>1, <1>2, <1>3, <1>4, <1>5, <1>6, VisitAdvances

LEMMA FetchPageAdvances ==
    ASSUME TypeInv, NEW r \in Req, FetchPage(r)
    PROVE  Advances(r)
<1>1. World' /\ Kept /\ mirrored' = mirrored /\ relays' = relays
  BY OnlyRequest DEF FetchPage, TypeInv, npub
<1>2. req[r] \in Request /\ req[r].step = "fetch" /\ relays \in 0..MaxEvent
  BY DEF TypeInv, World, FetchPage
<1>3. req[r].until \in 0..relays /\ (req[r].has => mirrored # {})
  BY DEF TypeInv, Fits
<1>4. PICK page \in SUBSET (1..relays) :
         Set(r, [req[r] EXCEPT !.step = "lookup", !.page = page])
  <2> DEFINE until == IF req[r].until = 0 THEN relays ELSE req[r].until
  <2>1. until \in 0..relays
    BY <1>2, <1>3, AccountsAssumption
  <2>2. \E page \in {Page(until), {}} :
           Set(r, [req[r] EXCEPT !.step = "lookup", !.page = page])
    BY DEF FetchPage
  <2> HIDE DEF until
  <2>3. Page(until) \in SUBSET (1..relays)
    BY <1>2, <2>1, AccountsAssumption DEF Page
  <2> QED
    BY <2>2, <2>3
<1> DEFINE new == [req[r] EXCEPT !.step = "lookup", !.page = page]
<1>5. page \in SUBSET (1..MaxEvent)
  BY <1>2, AccountsAssumption
<1>6. /\ new \in Request /\ new.kind = req[r].kind /\ new.name = req[r].name
      /\ new.key = req[r].key /\ new.until = req[r].until /\ new.page = page
      /\ new.step = "lookup" /\ new.has = req[r].has
  BY <1>2, <1>5 DEF Request
<1>7. Set(r, new)
  BY <1>4
<1> HIDE DEF new
<1> QED
  BY <1>1, <1>2, <1>3, <1>4, <1>6, <1>7, VisitAdvances

LEMMA LookUpAdvances ==
    ASSUME TypeInv, NEW r \in Req, LookUp(r)
    PROVE  Advances(r)
<1> DEFINE new == [req[r] EXCEPT !.step = "store", !.page = @ \ mirrored]
<1>1. World' /\ Kept
  BY OnlyRequest DEF LookUp, TypeInv
<1>2. req[r] \in Request /\ req[r].step = "lookup"
  BY DEF TypeInv, LookUp
<1>3. /\ new \in Request /\ new.kind = req[r].kind /\ new.name = req[r].name
      /\ new.key = req[r].key /\ new.until = req[r].until /\ new.has = req[r].has
      /\ new.page \subseteq req[r].page /\ Suits(new.step, new.kind, new.key)
  BY <1>2 DEF Request, Suits
<1>4. Set(r, new)
  BY DEF LookUp
<1> HIDE DEF new
<1> QED
  BY <1>1, <1>2, <1>3, <1>4, OnAdvances

LEMMA MirrorOneAdvances ==
    ASSUME TypeInv, NEW r \in Req, MirrorOne(r)
    PROVE  Advances(r)
<1> DEFINE e == Foremost(req[r].page)
           new == [req[r] EXCEPT !.page = @ \ {e}, !.credits = @ - 1]
<1>1. /\ req[r] \in Request /\ req[r].step = "store" /\ req[r].credits \in 1..MirrorCap
      /\ req[r].page # {} /\ req[r].page \in SUBSET (1..relays) /\ relays \in Nat
  BY AccountsAssumption DEF TypeInv, World, Fits, Request, MirrorOne
<1>2. e \in 1..relays
  BY <1>1, ForemostIn
<1>3. /\ mirrored' = mirrored \cup {e} /\ Set(r, new)
      /\ UNCHANGED <<mix, now, limiter, login, handle, blocked, post, cool, relays, excused>>
  BY DEF MirrorOne
<1>4. req[r].credits - 1 \in 0..MirrorCap
  BY <1>1, AccountsAssumption
<1> HIDE DEF e
<1>5. /\ new \in Request /\ new.kind = req[r].kind /\ new.name = req[r].name
      /\ new.key = req[r].key /\ new.until = req[r].until /\ new.has = req[r].has
      /\ new.page \subseteq req[r].page /\ Suits(new.step, new.kind, new.key)
  BY <1>1, <1>4 DEF Request, Suits
<1> HIDE DEF new
<1>6. World' /\ Kept
  BY <1>1, <1>2, <1>3 DEF TypeInv, World, Kept, limiter, login
<1> QED
  BY <1>1, <1>3, <1>5, <1>6, OnAdvances

LEMMA EndPageAdvances ==
    ASSUME TypeInv, NEW r \in Req, EndPage(r)
    PROVE  Advances(r)
<1> DEFINE new == [req[r] EXCEPT !.step = "fetch", !.until = Oldest]
<1>1. World' /\ Kept /\ mirrored' = mirrored /\ relays' = relays
  BY OnlyRequest DEF EndPage, TypeInv, npub
<1>2. /\ req[r] \in Request /\ req[r].step = "store" /\ relays \in 0..MaxEvent
      /\ mirrored \subseteq 1..relays /\ req[r].page \subseteq 1..relays
      /\ (req[r].has => mirrored # {})
  BY DEF TypeInv, World, Fits, EndPage
<1>3. Set(r, Idle) \/ (req[r].has /\ Set(r, new))
  BY DEF EndPage
<1>4. CASE req[r].has /\ Set(r, new)
  <2>1. Oldest \in 1..relays
    BY <1>2, <1>4, OldestStored
  <2>2. Oldest \in 0..MaxEvent /\ Oldest \in 0..relays
    BY <1>2, <2>1, AccountsAssumption
  <2>3. /\ new \in Request /\ new.kind = req[r].kind /\ new.name = req[r].name
        /\ new.key = req[r].key /\ new.until = Oldest /\ new.has = req[r].has
        /\ new.page = req[r].page /\ new.step = "fetch"
    BY <1>2, <2>2 DEF Request
  <2> HIDE DEF new
  <2> QED
    BY <1>1, <1>2, <1>4, <2>2, <2>3, VisitAdvances
<1> QED
  BY <1>1, <1>3, <1>4, EndAdvances

LEMMA FailAdvances ==
    ASSUME TypeInv, NEW r \in Req, Fail(r)
    PROVE  Advances(r)
<1>1. relays \in Nat
  BY AccountsAssumption DEF TypeInv, World
<1>2. World' /\ Kept
  BY <1>1 DEF Fail, TypeInv, World, Kept, limiter, login
<1> QED
  BY <1>2, EndAdvances DEF Fail

-----------------------------------------------------------------------------
LEMMA StepAdvances ==
    ASSUME TypeInv, NEW r \in Req, Arrive(r) \/ ReqStep(r)
    PROVE  Advances(r)
BY ArriveAdvances, MeterAdvances, PassAdvances, IssueAdvances, ConsumeAdvances,
   OpenAdvances, LogoutAdvances, GateAdvances, ReadSlotAdvances, CountPostsAdvances,
   MirrorEventAdvances, ClaimAdvances, ReadDataAdvances, CheckCooldownAdvances,
   MarkCooldownAdvances, FetchPageAdvances, LookUpAdvances, MirrorOneAdvances,
   EndPageAdvances, FailAdvances DEF ReqStep

\* What is not a request: blocking, KV, the author elsewhere, the marker, the clock.
Surroundings ==
    \/ \E k \in Key : Block(k) \/ Unblock(k)
    \/ \E t \in Token : Vanish(t)
    \/ Publish \/ Thaw \/ Tick

LEMMA SurroundingsKeep ==
    ASSUME TypeInv, Surroundings
    PROVE  World' /\ Kept /\ req' = req
<1>1. relays \in Nat /\ MaxEvent \in Nat /\ End \in Nat /\ now \in Nat
  BY AccountsAssumption DEF TypeInv, World
<1>2. ASSUME NEW k \in Key, Block(k) \/ Unblock(k)
      PROVE  World' /\ Kept /\ req' = req
  <2>1. blocked' \subseteq Key
    BY <1>2 DEF Block, Unblock, TypeInv, World
  <2>2. UNCHANGED <<mix, now, limiter, login, handle, post, npub, req>>
    BY <1>2 DEF Block, Unblock
  <2> QED
    BY <1>1, <2>1, <2>2 DEF TypeInv, World, Kept, limiter, login, npub
<1>3. ASSUME NEW t \in Token, Vanish(t)
      PROVE  World' /\ Kept /\ req' = req
  <2>1. t \in Used(session)
    BY <1>3 DEF Vanish, SignedIn, Used
  <2> QED
    BY <1>3, <2>1, SessionMoves DEF Vanish, TypeInv
<1>4. CASE Publish
  <2>1. relays' \in 0..MaxEvent /\ relays <= relays' /\ mirrored \subseteq 1..relays'
    BY <1>1, <1>4 DEF Publish, TypeInv, World
  <2> QED
    BY <1>4, <2>1 DEF Publish, TypeInv, World, Kept, limiter, login
<1>5. CASE Thaw
  <2>1. cool' = FALSE
        /\ UNCHANGED <<mix, now, limiter, login, handle, blocked, post, relays, mirrored,
                       excused, req>>
    BY <1>5 DEF Thaw
  <2>2. World'
    BY <2>1 DEF TypeInv, World, limiter, login
  <2>3. relays <= relays' /\ mirrored' = mirrored /\ session' = session
    BY <1>1, <2>1 DEF login
  <2> QED
    BY <2>1, <2>2, <2>3 DEF Kept, Used
<1>6. CASE Tick
  <2>1. now' \in 1..End
    BY <1>1, <1>6 DEF Tick, TypeInv, World
  <2> QED
    BY <1>1, <1>6, <2>1 DEF Tick, TypeInv, World, Kept, limiter, login, npub
<1> QED
  BY <1>2, <1>3, <1>4, <1>5, <1>6 DEF Surroundings

LEMMA NextCases ==
    ASSUME Next
    PROVE  Surroundings \/ \E r \in Req : Arrive(r) \/ ReqStep(r)
BY DEF Next, Surroundings

LEMMA InitTypes ==
    ASSUME Init
    PROVE  TypeInv
<1>1. World
  <2>1. session \in [Token -> [is : {"unused"}, key : {NoOne}]
                              \cup [is : {"live", "ended", "gone"}, key : Key]]
    BY AccountsAssumption DEF Init
  <2>2. relays \in 0..MaxEvent
    BY AccountsAssumption DEF Init
  <2>3. /\ now \in 1..End
        /\ rate \in [Metered -> [count : 0..Max + 1, window : 0..End]]
        /\ granted \in [Metered -> [0..End -> Nat]]
        /\ back \in [Metered -> Nat]
    BY AccountsAssumption DEF Init
  <2>4. /\ nonces \in [Nonce -> 0..End + NonceTtl]
        /\ opener \in [Token -> Nonce \cup {NoOne}]
        /\ handle \in [Key -> Handle \cup {NoOne}]
        /\ post \in [Slot -> {"none", "live", "revived", "tomb"}]
    BY AccountsAssumption DEF Init
  <2>5. mix \in Mixes /\ issued = {} /\ blocked = {} /\ cool = FALSE /\ mirrored = {}
    BY DEF Init
  <2> QED
    BY <2>1, <2>2, <2>3, <2>4, <2>5 DEF World
<1>2. Idle.step = "idle" /\ Idle.page = {} /\ Idle.until = 0 /\ ~Idle.has
  BY DEF Idle
<1>3. req = [r \in Req |-> Idle]
  BY DEF Init
<1>4. relays \in Nat
  BY <1>1, AccountsAssumption DEF World
<1> QED
  BY <1>1, <1>2, <1>3, <1>4, IdleRequest DEF TypeInv, Fits

LEMMA NextTypes ==
    ASSUME TypeInv, [Next]_vars
    PROVE  TypeInv'
<1>1. CASE Surroundings
  BY <1>1, SurroundingsKeep, RestTypes
<1>2. ASSUME NEW r \in Req, Arrive(r) \/ ReqStep(r)
      PROVE  TypeInv'
  BY <1>2, StepAdvances, AdvanceTypes
<1>3. CASE UNCHANGED vars
  <2>1. relays \in Nat
    BY AccountsAssumption DEF TypeInv, World
  <2>2. World' /\ Kept /\ req' = req
    BY <1>3, <2>1 DEF vars, TypeInv, World, Kept, limiter, login, npub
  <2> QED
    BY <2>2, RestTypes
<1> QED
  BY <1>1, <1>2, <1>3, NextCases

\* The state keeps its shape: a session that was opened has a key whose signature
\* opened it, a request has the name and the key its step works on.
THEOREM AccountsTypes == Spec => []TypeOK
<1>1. TypeInv => TypeOK
  BY DEF TypeInv, World, TypeOK
<1> QED
  BY <1>1, InitTypes, NextTypes, PTL DEF Spec

LEMMA TypesAlways == Spec => []TypeInv
BY InitTypes, NextTypes, PTL DEF Spec

-----------------------------------------------------------------------------
(***************************************************************************)
(* What a step leaves alone.                                               *)
(***************************************************************************)
LEMMA StepFrame ==
    ASSUME NEW r \in Req, Arrive(r) \/ ReqStep(r)
    PROVE  /\ UNCHANGED handle \/ Claim(r)
           /\ UNCHANGED post \/ MirrorEvent(r)
           /\ UNCHANGED limiter \/ Meter(r)
           /\ UNCHANGED <<nonces, issued>> \/ Issue(r) \/ Consume(r)
           /\ UNCHANGED opener \/ Open(r)
<1>1. CASE Arrive(r)
  BY <1>1 DEF Arrive, AskChallenge, AskLogin, AskLogout, AskPublish, AskClaim, AskVisit, Ask,
              login
<1>2. CASE \/ Meter(r) \/ Pass(r) \/ Gate(r) \/ ReadSlot(r) \/ CountPosts(r)
           \/ MirrorEvent(r) \/ Claim(r)
  BY <1>2 DEF Meter, Pass, Gate, ReadSlot, CountPosts, MirrorEvent, Claim, login
<1>3. CASE Issue(r) \/ Consume(r) \/ Open(r) \/ Logout(r)
  BY <1>3 DEF Issue, Consume, Open, Logout
<1>4. CASE \/ ReadData(r) \/ CheckCooldown(r) \/ MarkCooldown(r) \/ FetchPage(r)
           \/ LookUp(r) \/ MirrorOne(r) \/ EndPage(r) \/ Fail(r)
  BY <1>4 DEF ReadData, CheckCooldown, MarkCooldown, FetchPage, LookUp, MirrorOne,
              EndPage, Fail, login
<1> QED
  BY <1>1, <1>2, <1>3, <1>4, SMTT(60) DEF ReqStep

LEMMA Frame ==
    ASSUME [Next]_vars
    PROVE  /\ UNCHANGED handle \/ \E r \in Req : Claim(r)
           /\ UNCHANGED post \/ \E r \in Req : MirrorEvent(r)
           /\ UNCHANGED limiter \/ \E r \in Req : Meter(r)
<1>1. CASE Surroundings \/ UNCHANGED vars
  BY <1>1 DEF Surroundings, Block, Unblock, Vanish, Publish, Thaw, Tick, limiter, vars
<1>2. ASSUME NEW r \in Req, Arrive(r) \/ ReqStep(r)
      PROVE  /\ UNCHANGED handle \/ Claim(r)
             /\ UNCHANGED post \/ MirrorEvent(r)
             /\ UNCHANGED limiter \/ Meter(r)
  BY <1>2, StepFrame
<1> QED
  BY <1>1, <1>2, NextCases

\* A step of no session and no post: where its request stands after it.
LEMMA Landing ==
    ASSUME TypeInv, NEW r \in Req, Arrive(r) \/ ReqStep(r)
    PROVE  \/ Consume(r) \/ Gate(r) \/ ReadSlot(r) \/ CountPosts(r) \/ MirrorEvent(r)
           \/ /\ req'[r].step \notin {"open", "mirror"}
              /\ req'[r].fresh => req[r].fresh /\ req[r].step # "mirror"
<1> DEFINE Lands(new) == /\ new.step \notin {"open", "mirror"}
                         /\ new.fresh => req[r].fresh /\ req[r].step # "mirror"
<1>1. ASSUME NEW new, Set(r, new), Lands(new)
      PROVE  Lands(req'[r])
  BY <1>1 DEF Set, TypeInv
<1>2. req[r] \in Request
  BY DEF TypeInv
<1>3. Lands(Idle)
  BY DEF Idle
<1>4. CASE Arrive(r)
  <2>1. ASSUME NEW kind, NEW q, Ask(r, kind, q), q \in Request, ~q.fresh
        PROVE  Lands(req'[r])
    <3> DEFINE new == [q EXCEPT !.kind = kind, !.step = "meter", !.at = now]
    <3>1. new.step = "meter" /\ ~new.fresh /\ Set(r, new)
      BY <2>1 DEF Ask, Request
    <3> HIDE DEF new
    <3> QED
      BY <1>1, <3>1
  <2>2. CASE AskChallenge(r) \/ AskLogin(r) \/ AskLogout(r)
    <3>1. ASSUME NEW kind, NEW n \in Nonce \cup Token, NEW k \in Key \cup {NoOne},
                 Ask(r, kind, [Idle EXCEPT !.name = n, !.key = k])
          PROVE  Lands(req'[r])
      <4>1. [Idle EXCEPT !.name = n, !.key = k] \in Request
            /\ ~[Idle EXCEPT !.name = n, !.key = k].fresh
        BY IdleRequest DEF Request, Idle
      <4> QED
        BY <2>1, <3>1, <4>1
    <3>2. CASE AskChallenge(r)
      BY <2>1, <3>2, IdleRequest DEF AskChallenge, Idle
    <3>3. CASE AskLogin(r)
      BY <3>1, <3>3 DEF AskLogin, TypeInv, World
    <3>4. CASE AskLogout(r)
      <4>1. PICK t \in Token : Ask(r, "logout", [Idle EXCEPT !.name = t])
        BY <3>4 DEF AskLogout
      <4>2. [Idle EXCEPT !.name = t] \in Request /\ ~[Idle EXCEPT !.name = t].fresh
        BY IdleRequest DEF Request, Idle
      <4> QED
        BY <2>1, <4>1, <4>2
    <3> QED
      BY <2>2, <3>2, <3>3, <3>4
  <2>3. CASE AskPublish(r)
    <3>1. PICK d \in Slot, erase \in BOOLEAN :
             Ask(r, "publish", [Idle EXCEPT !.key = Author, !.name = d, !.erase = erase])
      BY <2>3 DEF AskPublish
    <3>2. [Idle EXCEPT !.key = Author, !.name = d, !.erase = erase] \in Request
          /\ ~[Idle EXCEPT !.key = Author, !.name = d, !.erase = erase].fresh
      BY IdleRequest, AccountsAssumption DEF Request, Idle
    <3> QED
      BY <2>1, <3>1, <3>2
  <2>4. CASE AskClaim(r)
    <3>1. PICK t \in Token, h \in Handle :
            /\ SignedIn(t)
            /\ Ask(r, "claim", [Idle EXCEPT !.key = session[t].key, !.name = h])
      BY <2>4 DEF AskClaim
    <3>2. session[t].key \in Key
      BY <3>1 DEF TypeInv, World, SignedIn
    <3>3. [Idle EXCEPT !.key = session[t].key, !.name = h] \in Request
          /\ ~[Idle EXCEPT !.key = session[t].key, !.name = h].fresh
      BY <3>2, IdleRequest DEF Request, Idle
    <3> QED
      BY <2>1, <3>1, <3>3
  <2>5. CASE AskVisit(r)
    <3> DEFINE new == [Idle EXCEPT !.kind = "visit", !.key = Author, !.step = "look"]
    <3>1. Set(r, new) /\ Lands(new)
      BY <2>5 DEF AskVisit, Idle
    <3> QED
      BY <1>1, <3>1
  <2> QED
    BY <1>4, <2>2, <2>3, <2>4, <2>5 DEF Arrive
<1>5. CASE Meter(r) \/ Pass(r)
  <2>1. Set(r, Idle) \/ Set(r, Proceed(r))
    BY <1>5 DEF Meter, Pass
  <2>2. req[r].step = "meter"
    BY <1>5 DEF Meter, Pass
  <2>3. After(req[r].kind) \notin {"open", "mirror"}
    BY <2>2, ProceedType, <1>2 DEF TypeInv, Fits, Proper, After, Kind
  <2>4. Proceed(r).step = After(req[r].kind) /\ Proceed(r).fresh = req[r].fresh
    BY <1>2 DEF Proceed, Request
  <2> QED
    BY <1>1, <1>3, <2>1, <2>2, <2>3, <2>4
<1>6. CASE Issue(r) \/ Open(r) \/ Logout(r) \/ Claim(r) \/ Fail(r)
  BY <1>1, <1>3, <1>6 DEF Issue, Open, Logout, Claim, Fail
<1>7. CASE ReadData(r)
  <2> DEFINE new == [req[r] EXCEPT !.step = "cool", !.has = mirrored # {}]
  <2>1. Set(r, new) /\ Lands(new)
    BY <1>2, <1>7 DEF ReadData, Request
  <2> QED
    BY <1>1, <2>1
<1>8. CASE CheckCooldown(r)
  <2> DEFINE new == [req[r] EXCEPT !.step = "meter", !.at = now]
  <2>1. Lands(new)
    BY <1>2, <1>8 DEF CheckCooldown, Request
  <2>2. Set(r, new) \/ Set(r, Idle)
    BY <1>8 DEF CheckCooldown
  <2> QED
    BY <1>1, <1>3, <2>1, <2>2
<1>9. CASE MarkCooldown(r)
  <2> DEFINE new == [req[r] EXCEPT !.step = "fetch", !.credits = MirrorCap]
  <2>1. Set(r, new) /\ Lands(new)
    BY <1>2, <1>9 DEF MarkCooldown, Request
  <2> QED
    BY <1>1, <2>1
<1>10. CASE FetchPage(r)
  <2>1. PICK page : Set(r, [req[r] EXCEPT !.step = "lookup", !.page = page])
    BY <1>10 DEF FetchPage
  <2> DEFINE new == [req[r] EXCEPT !.step = "lookup", !.page = page]
  <2>2. Lands(new)
    BY <1>2, <1>10 DEF FetchPage, Request
  <2> QED
    BY <1>1, <2>1, <2>2
<1>11. CASE LookUp(r)
  <2> DEFINE new == [req[r] EXCEPT !.step = "store", !.page = @ \ mirrored]
  <2>1. Set(r, new) /\ Lands(new)
    BY <1>2, <1>11 DEF LookUp, Request
  <2> QED
    BY <1>1, <2>1
<1>12. CASE MirrorOne(r)
  <2> DEFINE e == Foremost(req[r].page)
             new == [req[r] EXCEPT !.page = @ \ {e}, !.credits = @ - 1]
  <2>1. Set(r, new) /\ req[r].step = "store"
    BY <1>12 DEF MirrorOne
  <2>2. new.step = req[r].step /\ new.fresh = req[r].fresh
    BY <1>2 DEF Request
  <2> HIDE DEF new
  <2> QED
    BY <1>1, <2>1, <2>2
<1>13. CASE EndPage(r)
  <2> DEFINE new == [req[r] EXCEPT !.step = "fetch", !.until = Oldest]
  <2>1. Lands(new)
    BY <1>2, <1>13 DEF EndPage, Request
  <2>2. Set(r, new) \/ Set(r, Idle)
    BY <1>13 DEF EndPage
  <2> QED
    BY <1>1, <1>3, <2>1, <2>2
<1> HIDE DEF Lands
<1> QED
  BY <1>4, <1>5, <1>6, <1>7, <1>8, <1>9, <1>10, <1>11, <1>12, <1>13 DEF ReqStep

-----------------------------------------------------------------------------
(***************************************************************************)
(* Handles.                                                                *)
(***************************************************************************)
LEMMA NextClaims ==
    ASSUME TypeInv, [Next]_vars, NEW k \in Key, handle'[k] # handle[k]
    PROVE  /\ handle[k] = NoOne
           /\ \A j \in Key \ {k} : handle'[j] # handle'[k]
<1>1. PICK r \in Req : Claim(r)
  BY Frame
<1>2. req[r].key = k /\ MayClaim(k, req[r].name) /\ handle' = [handle EXCEPT ![k] = req[r].name]
  BY <1>1 DEF Claim, TypeInv, World
<1> QED
  BY <1>2 DEF MayClaim, TypeInv, World

\* A key keeps the first handle it claims, and no other key has it, whatever claims
\* overlap.
THEOREM HandlesFinal == Spec => ClaimsFinal
<1>1. TypeInv /\ [Next]_vars =>
         [\A k \in Key : handle'[k] # handle[k] =>
             /\ handle[k] = NoOne
             /\ \A j \in Key \ {k} : handle'[j] # handle'[k]]_vars
  BY NextClaims
<1> QED
  BY <1>1, TypesAlways, PTL DEF Spec, ClaimsFinal

-----------------------------------------------------------------------------
(***************************************************************************)
(* The limiter.                                                            *)
(***************************************************************************)
\* A window that is over has had its Max; the one the row is at, its count; a later
\* one, only what it had before the row went back.
Filled(row, s) == IF s > row.window THEN 0
                  ELSE IF s = row.window /\ row.count < Max THEN row.count ELSE Max

WithinLimit(k) == \A s \in 0..End : granted[k][s] <= Max * back[k] + Filled(rate[k], s)

LimitInv == \A k \in Metered : WithinLimit(k)

LEMMA MaxTimes ==
    ASSUME NEW b \in Nat
    PROVE  Max * b \in Nat /\ Max * (b + 1) = Max * b + Max
BY AccountsAssumption

LEMMA MeterLimits ==
    ASSUME TypeInv, LimitInv, NEW r \in Req, Meter(r)
    PROVE  LimitInv'
<1>0. PICK k \in Metered : k = req[r].kind
  BY DEF Meter
<1> DEFINE start == WindowStart(req[r].at)
           row == rate[k]
           count == Counted(row, start)
<1>1. start \in 0..End
  BY WindowStartType DEF TypeInv, Request
<1>2. row \in [count : 0..Max + 1, window : 0..End]
  BY <1>1 DEF TypeInv, World
<1>3. /\ rate' = [rate EXCEPT ![k] = [count |-> count, window |-> start]]
      /\ back' = [back EXCEPT ![k] = IF start < row.window THEN @ + 1 ELSE @]
      /\ \/ count <= Max /\ granted' = [granted EXCEPT ![k][start] = @ + 1]
         \/ ~(count <= Max) /\ granted' = granted
  BY <1>0 DEF Meter
<1>4. ASSUME NEW j \in Metered, j # k
      PROVE  WithinLimit(j)'
  <2>1. rate'[j] = rate[j] /\ back'[j] = back[j] /\ granted'[j] = granted[j]
    <3> HIDE DEF start, count
    <3> QED
      BY <1>1, <1>3, <1>4 DEF TypeInv, World
  <2>2. WithinLimit(j)
    BY DEF LimitInv
  <2> QED
    BY <2>1, <2>2 DEF WithinLimit
<1>5. WithinLimit(k)'
  <2> DEFINE b == back[k]
             P == Max * b
             old == granted[k]
             new == granted'[k]
  <2>1. /\ b \in Nat /\ old \in [0..End -> Nat]
        /\ \A s \in 0..End : old[s] <= P + Filled(row, s)
    BY <1>1 DEF TypeInv, World, LimitInv, WithinLimit
  <2>2. /\ rate'[k] = [count |-> count, window |-> start]
        /\ back'[k] = IF start < row.window THEN b + 1 ELSE b
        /\ \/ count <= Max /\ new = [old EXCEPT ![start] = @ + 1]
           \/ ~(count <= Max) /\ new = old
    <3> HIDE DEF start, count, row
    <3>1. k \in DOMAIN rate /\ k \in DOMAIN back /\ k \in DOMAIN granted
      BY <1>1 DEF TypeInv, World
    <3> QED
      BY <1>3, <3>1
  <2>3. P \in Nat /\ Max * (b + 1) = P + Max
    BY <2>1, MaxTimes
  <2>4. Max \in Nat /\ Max >= 1
    BY AccountsAssumption
  <2>5. count = IF row.window # start THEN 1
                ELSE IF row.count > Max THEN row.count ELSE row.count + 1
    BY DEF Counted
  <2> DEFINE Q == Max * back'[k]
  <2>6. Q = IF start < row.window THEN P + Max ELSE P
    BY <2>2, <2>3
  <2> HIDE DEF row, count, start, b, P, Q, old, new
  <2>7. ASSUME NEW s \in 0..End
        PROVE  new[s] <= Q + Filled(rate'[k], s)
    <3>1. /\ old[s] \in Nat /\ old[s] <= P + Filled(row, s)
          /\ old[start] \in Nat /\ old[start] <= P + Filled(row, start)
      BY <1>1, <2>1
    <3>2. Filled(rate'[k], s) = IF s > start THEN 0
                                ELSE IF s = start /\ count < Max THEN count ELSE Max
      BY <2>2 DEF Filled
    <3>3. CASE s = start
      <4>1. new[s] = IF count <= Max THEN old[s] + 1 ELSE old[s]
        BY <1>1, <2>1, <2>2, <3>3
      <4> QED
        BY <1>1, <1>2, <2>3, <2>4, <2>5, <2>6, <3>1, <3>2, <3>3, <4>1 DEF Filled
    <3>4. CASE s # start
      <4>1. new[s] = old[s]
        BY <1>1, <2>1, <2>2, <3>4
      <4> QED
        BY <1>1, <1>2, <2>3, <2>4, <2>5, <2>6, <3>1, <3>2, <3>4, <4>1 DEF Filled
    <3> QED
      BY <3>3, <3>4
  <2> QED
    BY <2>7 DEF WithinLimit, new, Q
<1> QED
  BY <1>4, <1>5 DEF LimitInv

LEMMA InitLimits ==
    ASSUME Init
    PROVE  LimitInv
<1>1. Max \in Nat /\ Max >= 1 /\ Max * 0 = 0
  BY AccountsAssumption
<1>2. ASSUME NEW k \in Metered, NEW s \in 0..End
      PROVE  granted[k][s] <= Max * back[k] + Filled(rate[k], s)
  <2>1. granted[k][s] = 0 /\ back[k] = 0 /\ rate[k] = [count |-> 0, window |-> 0]
    BY DEF Init
  <2> QED
    BY <1>1, <2>1 DEF Filled
<1> QED
  BY <1>2 DEF LimitInv, WithinLimit

LEMMA NextLimits ==
    ASSUME TypeInv, LimitInv, [Next]_vars
    PROVE  LimitInv'
<1>1. CASE UNCHANGED limiter
  BY <1>1 DEF LimitInv, WithinLimit, limiter
<1> QED
  BY <1>1, MeterLimits, Frame

LEMMA LimitInvBounds ==
    ASSUME TypeInv, LimitInv
    PROVE  LimitBounded
<1> SUFFICES ASSUME NEW k \in Metered, NEW s \in 0..End
             PROVE  granted[k][s] <= Max * (1 + back[k])
  BY DEF LimitBounded
<1>1. /\ back[k] \in Nat /\ granted[k][s] \in Nat
      /\ rate[k] \in [count : 0..Max + 1, window : 0..End]
  BY DEF TypeInv, World
<1>2. Filled(rate[k], s) \in 0..Max
  BY <1>1, AccountsAssumption DEF Filled
<1>3. granted[k][s] <= Max * back[k] + Filled(rate[k], s)
  BY DEF LimitInv, WithinLimit
<1>4. 1 + back[k] = back[k] + 1
  BY <1>1
<1>5. Max * back[k] \in Nat /\ Max * (1 + back[k]) = Max * back[k] + Max
  BY <1>1, <1>4, MaxTimes
<1> QED
  BY <1>1, <1>2, <1>3, <1>5, AccountsAssumption

\* A window lets at most Max requests through, and as many again for every time a
\* late request took its row back.
THEOREM LimitsBounded == Spec => []LimitBounded
BY TypesAlways, InitLimits, NextLimits, LimitInvBounds, PTL DEF Spec

-----------------------------------------------------------------------------
(***************************************************************************)
(* Nonces.                                                                 *)
(***************************************************************************)
\* A nonce whose row is gone after it was issued.
Spent(n) == n \in issued /\ nonces[n] = 0

IssuedOnly == \A n \in Nonce : nonces[n] # 0 => n \in issued

OpeningSpent ==
    \A r \in Req : req[r].step = "open" =>
        /\ Spent(req[r].name)
        /\ \A t \in Token : opener[t] # req[r].name

OpeningsDiffer ==
    \A r, q \in Req : r # q /\ req[r].step = "open" /\ req[q].step = "open" =>
        req[r].name # req[q].name

OpenersSpent == \A t \in Token : opener[t] # NoOne => Spent(opener[t])

NonceInv == IssuedOnly /\ OpeningSpent /\ OpeningsDiffer /\ OpenersSpent /\ NonceOpensOne

\* No request is about to open a session that was not before.
NoneOpening == \A r \in Req : req'[r].step = "open" => req'[r] = req[r]

LEMMA NonceStays ==
    ASSUME NonceInv, NoneOpening, UNCHANGED <<nonces, issued, opener>>
    PROVE  NonceInv'
BY DEF NonceInv, IssuedOnly, OpeningSpent, OpeningsDiffer, OpenersSpent, NoneOpening,
       Spent, NonceOpensOne

LEMMA IssueNonces ==
    ASSUME TypeInv, NonceInv, NoneOpening, NEW r \in Req, Issue(r)
    PROVE  NonceInv'
<1>1. PICK n \in Nonce \ issued :
         /\ nonces' = [m \in Nonce |-> IF m = n THEN now + NonceTtl
                                       ELSE IF nonces[m] < now THEN 0
                                       ELSE nonces[m]]
         /\ issued' = issued \cup {n}
  BY DEF Issue
<1>2. opener' = opener /\ issued \subseteq Nonce
  BY DEF Issue, TypeInv, World
<1>3. ASSUME NEW m, Spent(m)
      PROVE  m \in issued' /\ nonces'[m] = 0
  BY <1>1, <1>2, <1>3 DEF Spent
<1>4. \A m \in Nonce : nonces'[m] # 0 => m \in issued'
  BY <1>1 DEF NonceInv, IssuedOnly
<1>5. OpeningSpent' /\ OpeningsDiffer' /\ OpenersSpent'
  BY <1>2, <1>3 DEF NonceInv, OpeningSpent, OpeningsDiffer, OpenersSpent, NoneOpening, Spent
<1>6. NonceOpensOne'
  BY <1>2 DEF NonceInv, NonceOpensOne
<1> QED
  BY <1>4, <1>5, <1>6 DEF NonceInv, IssuedOnly

LEMMA ConsumeNonces ==
    ASSUME TypeInv, NonceInv, NEW r \in Req, Consume(r),
           \A q \in Req \ {r} : req'[q] = req[q]
    PROVE  NonceInv'
<1> DEFINE n == req[r].name
<1>1. opener' = opener /\ issued' = issued /\ n \in Nonce
  BY DEF Consume, TypeInv, Fits, Proper, Suits
<1>2. CASE nonces' = nonces /\ Set(r, Idle)
  <2>1. NoneOpening
    BY <1>2 DEF Set, TypeInv, NoneOpening, Idle
  <2> QED
    BY <1>1, <1>2, <2>1, NonceStays
<1>3. CASE nonces[n] > req[r].at /\ nonces' = [nonces EXCEPT ![n] = 0]
  <2>1. nonces[n] # 0 /\ n \in issued
    <3>1. nonces[n] > req[r].at /\ req[r].at \in Nat
      BY <1>3, AccountsAssumption DEF TypeInv, Request
    <3> QED
      BY <1>1, <3>1 DEF NonceInv, IssuedOnly
  <2>2. nonces'[n] = 0 /\ \A m \in Nonce \ {n} : nonces'[m] = nonces[m]
    BY <1>1, <1>3 DEF TypeInv, World
  <2>3. /\ \A t \in Token : opener[t] # n
        /\ \A q \in Req : req[q].step = "open" => req[q].name # n
    <3>1. n # NoOne
      BY <1>1, AccountsAssumption
    <3> HIDE DEF n
    <3> QED
      BY <2>1, <3>1 DEF NonceInv, OpeningSpent, OpenersSpent, Spent
  <2>4. req'[r].step = "open" => req'[r].name = n
    <3>1. Set(r, [req[r] EXCEPT !.step = "open"]) \/ Set(r, Idle)
      BY DEF Consume, Goto
    <3>2. req[r] \in Request
      BY DEF TypeInv
    <3> QED
      BY <3>1, <3>2 DEF Set, TypeInv, Idle, Request
  <2>5. \A m : m \in issued /\ (nonces[m] = 0 \/ m = n) => m \in issued' /\ nonces'[m] = 0
    BY <1>1, <2>2 DEF TypeInv, World
  <2> HIDE DEF n
  <2>6. IssuedOnly'
    BY <1>1, <2>2 DEF NonceInv, IssuedOnly
  <2>7. OpeningSpent'
    BY <1>1, <2>1, <2>3, <2>4, <2>5 DEF NonceInv, OpeningSpent, Spent
  <2>8. OpeningsDiffer'
    BY <2>3, <2>4 DEF NonceInv, OpeningsDiffer
  <2>9. OpenersSpent'
    BY <1>1, <2>5 DEF NonceInv, OpenersSpent, Spent
  <2> QED
    BY <1>1, <2>6, <2>7, <2>8, <2>9 DEF NonceInv, NonceOpensOne
<1> QED
  BY <1>2, <1>3 DEF Consume, Consumed

LEMMA OpenNonces ==
    ASSUME TypeInv, NonceInv, NoneOpening, NEW r \in Req, Open(r)
    PROVE  NonceInv'
<1> DEFINE n == req[r].name
<1>1. PICK t \in Token : opener' = [opener EXCEPT ![t] = n]
  BY DEF Open
<1>2. nonces' = nonces /\ issued' = issued /\ req[r].step = "open"
  BY DEF Open
<1>3. req'[r].step # "open"
  BY DEF Open, Set, TypeInv, Idle
<1>4. opener'[t] = n /\ \A s \in Token \ {t} : opener'[s] = opener[s]
  BY <1>1 DEF TypeInv, World
<1>5. Spent(n) /\ \A s \in Token : opener[s] # n
  BY <1>2 DEF NonceInv, OpeningSpent
<1>6. \A q \in Req : req'[q].step = "open" => req'[q] = req[q] /\ req[q].name # n
  BY <1>2, <1>3 DEF NonceInv, OpeningsDiffer, NoneOpening
<1> HIDE DEF n
<1>7. OpeningSpent'
  BY <1>2, <1>4, <1>6 DEF NonceInv, OpeningSpent, Spent
<1>8. OpeningsDiffer'
  BY <1>6 DEF NonceInv, OpeningsDiffer
<1>9. OpenersSpent'
  BY <1>2, <1>4, <1>5 DEF NonceInv, OpenersSpent, Spent
<1>10. NonceOpensOne'
  BY <1>4, <1>5 DEF NonceInv, NonceOpensOne
<1> QED
  BY <1>2, <1>7, <1>8, <1>9, <1>10 DEF NonceInv, IssuedOnly

LEMMA NextNonces ==
    ASSUME TypeInv, NonceInv, [Next]_vars
    PROVE  NonceInv'
<1>1. CASE Surroundings \/ UNCHANGED vars
  <2>1. req' = req /\ UNCHANGED <<nonces, issued, opener>>
    BY <1>1 DEF Surroundings, Block, Unblock, Vanish, Publish, Thaw, Tick, login, vars
  <2> QED
    BY <2>1, NonceStays DEF NoneOpening
<1>2. ASSUME NEW r \in Req, Arrive(r) \/ ReqStep(r)
      PROVE  NonceInv'
  <2>1. \A q \in Req \ {r} : req'[q] = req[q]
    BY <1>2, StepAdvances DEF Advances, TypeInv
  <2>2. CASE Consume(r)
    BY <2>1, <2>2, ConsumeNonces
  <2>3. CASE ~Consume(r)
    <3>1. req'[r].step # "open"
      <4>1. CASE \/ Gate(r) \/ ReadSlot(r) \/ CountPosts(r) \/ MirrorEvent(r)
        <5>1. req[r] \in Request
          BY DEF TypeInv
        <5>2. PICK new : Set(r, new) /\ new.step # "open"
          <6>1. CASE MirrorEvent(r)
            BY <6>1 DEF MirrorEvent, Idle
          <6>2. CASE Gate(r)
            BY <5>1, <6>2 DEF Gate, Goto, Request, Idle
          <6>3. CASE ReadSlot(r)
            BY <5>1, <6>3 DEF ReadSlot, Goto, Request
          <6>4. CASE CountPosts(r)
            <7> DEFINE new == [req[r] EXCEPT !.step = "mirror", !.fresh = TRUE]
            <7>1. new.step = "mirror" /\ Idle.step = "idle"
              BY <5>1 DEF Request, Idle
            <7>2. Set(r, new) \/ Set(r, Idle)
              BY <6>4 DEF CountPosts
            <7> HIDE DEF new
            <7> QED
              BY <7>1, <7>2
          <6> QED
            BY <4>1, <6>1, <6>2, <6>3, <6>4
        <5> QED
          BY <5>2 DEF Set, TypeInv
      <4> QED
        BY <1>2, <2>3, <4>1, Landing
    <3>2. NoneOpening
      BY <2>1, <3>1 DEF NoneOpening
    <3>3. CASE Issue(r)
      BY <3>2, <3>3, IssueNonces
    <3>4. CASE Open(r)
      BY <3>2, <3>4, OpenNonces
    <3>5. CASE ~Issue(r) /\ ~Open(r)
      <4>1. UNCHANGED <<nonces, issued, opener>>
        BY <1>2, <2>3, <3>5, StepFrame
      <4> QED
        BY <3>2, <4>1, NonceStays
    <3> QED
      BY <3>3, <3>4, <3>5
  <2> QED
    BY <2>2, <2>3
<1> QED
  BY <1>1, <1>2, NextCases

\* A login challenge opens one session at most, however often its event is posted.
THEOREM NoncesOpenOne == Spec => []NonceOpensOne
<1>1. Init => NonceInv
  BY DEF Init, Idle, NonceInv, IssuedOnly, OpeningSpent, OpeningsDiffer, OpenersSpent,
         NonceOpensOne
<1>2. NonceInv => NonceOpensOne
  BY DEF NonceInv
<1> QED
  BY <1>1, <1>2, TypesAlways, NextNonces, PTL DEF Spec

-----------------------------------------------------------------------------
(***************************************************************************)
(* Posts.                                                                  *)
(***************************************************************************)
Created == {d \in Slot : post[d] = "live"}

\* Only a request at its last step has found room for a new post; another that
\* is there deletes, or has a post to replace.
PostInv ==
    /\ \A r \in Req : req[r].fresh => req[r].step = "mirror"
    /\ \A r \in Req : req[r].step = "mirror" /\ ~req[r].fresh /\ ~req[r].erase =>
          post[req[r].name] # "none"
    /\ PostCapBounded

LEMMA Sizes ==
    /\ Cardinality(Created) \in Nat /\ Cardinality(Created') \in Nat
    /\ Cardinality(Admitted) \in Nat /\ Cardinality(Admitted') \in Nat
    /\ Cardinality(Req) \in Nat /\ Cap \in Nat
    /\ IsFiniteSet(Created) /\ IsFiniteSet(Created')
    /\ IsFiniteSet(Admitted) /\ IsFiniteSet(Admitted')
    /\ Cardinality(Admitted') <= Cardinality(Req)
<1>1. IsFiniteSet(Slot) /\ IsFiniteSet(Req) /\ Cap \in Nat
  BY AccountsAssumption
<1>2. Created \subseteq Slot /\ Created' \subseteq Slot
  BY DEF Created
<1>3. Admitted \subseteq Req /\ Admitted' \subseteq Req
  BY DEF Admitted
<1> QED
  BY <1>1, <1>2, <1>3, FS_Subset, FS_CardinalityType

\* No post is made, and none is about to be that was not.
LEMMA CapStays ==
    ASSUME PostCapBounded, Created' \subseteq Created, Admitted' \subseteq Admitted
    PROVE  PostCapBounded'
<1>1. /\ Cardinality(Created') <= Cardinality(Created)
      /\ Cardinality(Admitted') <= Cardinality(Admitted)
  BY Sizes, FS_Subset
<1> QED
  BY <1>1, Sizes DEF PostCapBounded, Created

LEMMA CountPostsPosts ==
    ASSUME TypeInv, PostInv, NEW r \in Req, CountPosts(r),
           \A q \in Req \ {r} : req'[q] = req[q]
    PROVE  PostInv'
<1> DEFINE new == [req[r] EXCEPT !.step = "mirror", !.fresh = TRUE]
<1>1. new.step = "mirror" /\ new.fresh /\ Idle.step = "idle" /\ ~Idle.fresh
  BY DEF TypeInv, Request, Idle
<1>2. /\ post' = post
      /\ \/ Full /\ req'[r] = Idle
         \/ ~Full /\ req'[r] = new
  BY DEF CountPosts, Set, TypeInv
<1> HIDE DEF new
<1>3. Created' = Created
  BY <1>2 DEF Created
<1>4. PostCapBounded'
  <2>1. CASE req'[r] = Idle
    <3>1. Admitted' \subseteq Admitted
      BY <1>1, <2>1 DEF Admitted
    <3> QED
      BY <1>3, <3>1, CapStays DEF PostInv
  <2>2. CASE ~Full
    <3>1. Created \subseteq Live /\ IsFiniteSet(Live)
      BY AccountsAssumption, FS_Subset DEF Created, Live
    <3>2. Cardinality(Live) \in Nat /\ Cardinality(Created) <= Cardinality(Live)
      BY <3>1, FS_Subset, FS_CardinalityType
    <3>3. Cardinality(Created') < Cap
      BY <1>3, <2>2, <3>2, Sizes DEF Full
    <3> QED
      BY <3>3, Sizes DEF PostCapBounded, Created
  <2> QED
    BY <1>2, <2>1, <2>2
<1> QED
  BY <1>1, <1>2, <1>4 DEF PostInv

LEMMA MirrorEventPosts ==
    ASSUME TypeInv, PostInv, NEW r \in Req, MirrorEvent(r),
           \A q \in Req \ {r} : req'[q] = req[q]
    PROVE  PostInv'
<1> DEFINE d == req[r].name
<1>1. d \in Slot /\ req[r].step = "mirror" /\ req[r] \in Request
  BY DEF TypeInv, Fits, Proper, Suits, MirrorEvent
<1>2. req'[r].step = "idle" /\ ~req'[r].fresh
  BY DEF MirrorEvent, Set, TypeInv, Idle
<1>3. /\ post'[d] = Mirrored(post[d], req[r].erase)
      /\ \A c \in Slot \ {d} : post'[c] = post[c]
  BY <1>1 DEF MirrorEvent, TypeInv, World
<1>4. post[d] \in {"none", "live", "revived", "tomb"} /\ req[r].erase \in BOOLEAN
  BY <1>1 DEF TypeInv, World, Request
<1>5. /\ post'[d] = "live" => post[d] = "live" \/ (post[d] = "none" /\ ~req[r].erase)
      /\ post[d] # "none" => post'[d] # "none"
  BY <1>3, <1>4 DEF Mirrored
<1>6. \A q \in Req : req[q].step = "mirror" => req[q].name \in Slot
  BY DEF TypeInv, Fits, Proper, Suits
<1> HIDE DEF d
<1>7. Admitted' = Admitted \ {r}
  BY <1>2 DEF Admitted
<1>8. PostCapBounded'
  <2>1. CASE req[r].fresh
    <3>1. r \in Admitted
      BY <1>1, <2>1 DEF Admitted
    <3>2. Cardinality(Admitted') = Cardinality(Admitted) - 1
      BY <1>7, <3>1, Sizes, FS_RemoveElement
    <3>3. Created' \subseteq Created \cup {d}
      BY <1>3 DEF Created
    <3>4. /\ IsFiniteSet(Created \cup {d})
          /\ Cardinality(Created \cup {d}) \in Nat
          /\ Cardinality(Created \cup {d}) <= Cardinality(Created) + 1
      <4>1. IsFiniteSet(Created) /\ Cardinality(Created) \in Nat
        BY Sizes
      <4>2. /\ IsFiniteSet(Created \cup {d})
            /\ Cardinality(Created \cup {d}) = IF d \in Created THEN Cardinality(Created)
                                               ELSE Cardinality(Created) + 1
        BY <4>1, FS_AddElement
      <4> QED
        BY <4>1, <4>2
    <3>5. Cardinality(Created') <= Cardinality(Created \cup {d})
      BY <3>3, <3>4, FS_Subset
    <3> QED
      BY <3>2, <3>4, <3>5, Sizes DEF PostInv, PostCapBounded, Created
  <2>2. CASE ~req[r].fresh
    <3>1. Created' \subseteq Created
      BY <1>1, <1>3, <1>5, <2>2 DEF Created, PostInv, d
    <3> QED
      BY <1>7, <3>1, CapStays DEF PostInv
  <2> QED
    BY <2>1, <2>2
<1>9. \A q \in Req : req'[q].step = "mirror" /\ ~req'[q].fresh /\ ~req'[q].erase =>
         post'[req'[q].name] # "none"
  BY <1>2, <1>3, <1>5, <1>6 DEF PostInv
<1> QED
  BY <1>2, <1>8, <1>9 DEF PostInv

\* A request comes to its last step by another way than the count, or leaves it.
LEMMA OtherPosts ==
    ASSUME TypeInv, PostInv, NEW r \in Req, post' = post,
           \A q \in Req \ {r} : req'[q] = req[q],
           ~req'[r].fresh,
           req'[r].step = "mirror" /\ ~req'[r].erase => post[req'[r].name] # "none"
    PROVE  PostInv'
<1>1. Admitted' \subseteq Admitted /\ Created' = Created
  BY DEF Admitted, Created
<1>2. PostCapBounded'
  BY <1>1, CapStays DEF PostInv
<1> QED
  BY <1>2 DEF PostInv

LEMMA NextPosts ==
    ASSUME TypeInv, PostInv, [Next]_vars
    PROVE  PostInv'
<1>1. CASE Surroundings \/ UNCHANGED vars
  <2>1. req' = req /\ post' = post
    BY <1>1 DEF Surroundings, Block, Unblock, Vanish, Publish, Thaw, Tick, vars
  <2> QED
    BY <2>1 DEF PostInv, PostCapBounded, Admitted
<1>2. ASSUME NEW r \in Req, Arrive(r) \/ ReqStep(r)
      PROVE  PostInv'
  <2>1. \A q \in Req \ {r} : req'[q] = req[q]
    BY <1>2, StepAdvances DEF Advances, TypeInv
  <2>2. CASE CountPosts(r)
    BY <2>1, <2>2, CountPostsPosts
  <2>3. CASE MirrorEvent(r)
    BY <2>1, <2>3, MirrorEventPosts
  <2>4. CASE Gate(r)
    <3>1. req[r] \in Request /\ ~req[r].fresh
      BY <2>4 DEF TypeInv, PostInv, Gate
    <3> DEFINE step == IF req[r].kind = "claim" THEN "upsert"
                       ELSE IF req[r].erase THEN "mirror" ELSE "slot"
               new == [req[r] EXCEPT !.step = step]
    <3>2. /\ new.step = "mirror" => new.erase
          /\ ~new.fresh /\ ~Idle.fresh /\ Idle.step = "idle"
      BY <3>1 DEF Request, Idle
    <3>3. post' = post /\ (req'[r] = new \/ req'[r] = Idle)
      BY <2>4 DEF Gate, Goto, Set, TypeInv
    <3> HIDE DEF new
    <3> QED
      BY <2>1, <3>2, <3>3, OtherPosts
  <2>5. CASE ReadSlot(r)
    <3>1. req[r] \in Request /\ ~req[r].fresh
      BY <2>5 DEF TypeInv, PostInv, ReadSlot
    <3> DEFINE step == IF post[req[r].name] = "none" THEN "count" ELSE "mirror"
               new == [req[r] EXCEPT !.step = step]
    <3>2. new.step = step /\ new.name = req[r].name /\ ~new.fresh
      BY <3>1 DEF Request
    <3>3. post' = post /\ req'[r] = new
      BY <2>5 DEF ReadSlot, Goto, Set, TypeInv
    <3> HIDE DEF new
    <3> QED
      BY <2>1, <3>2, <3>3, OtherPosts
  <2>6. CASE Consume(r)
    <3>1. req[r] \in Request /\ ~req[r].fresh
      BY <2>6 DEF TypeInv, PostInv, Consume
    <3> DEFINE new == [req[r] EXCEPT !.step = "open"]
    <3>2. new.step = "open" /\ ~new.fresh /\ ~Idle.fresh /\ Idle.step = "idle"
      BY <3>1 DEF Request, Idle
    <3>3. post' = post /\ (req'[r] = new \/ req'[r] = Idle)
      BY <2>6 DEF Consume, Goto, Set, TypeInv
    <3> HIDE DEF new
    <3> QED
      BY <2>1, <3>2, <3>3, OtherPosts
  <2>7. CASE ~CountPosts(r) /\ ~MirrorEvent(r) /\ ~Gate(r) /\ ~ReadSlot(r) /\ ~Consume(r)
    <3>1. req'[r].step # "mirror" /\ ~req'[r].fresh
      BY <1>2, <2>7, Landing DEF PostInv
    <3>2. post' = post
      BY <1>2, <2>7, StepFrame
    <3> QED
      BY <2>1, <3>1, <3>2, OtherPosts
  <2> QED
    BY <2>2, <2>3, <2>4, <2>5, <2>6, <2>7
<1> QED
  BY <1>1, <1>2, NextCases

\* Posts created through the API exceed the cap by the requests that can overlap,
\* less one, and by no more.
THEOREM PostCapsBounded == Spec => []PostCapBounded
<1>1. ASSUME Init
      PROVE  PostInv
  <2>1. Created = {} /\ Admitted = {}
    BY <1>1 DEF Init, Idle, Created, Admitted
  <2>2. Cardinality(Created) = 0 /\ Cardinality(Admitted) = 0
    BY <2>1, FS_EmptySet
  <2>3. PostCapBounded
    BY <2>2, Sizes, AccountsAssumption DEF PostCapBounded, Created
  <2> QED
    BY <1>1, <2>3 DEF Init, Idle, PostInv
<1>2. PostInv => PostCapBounded
  BY DEF PostInv
<1> QED
  BY <1>1, <1>2, TypesAlways, NextPosts, PTL DEF Spec

-----------------------------------------------------------------------------
(***************************************************************************)
(* The backfill of the npub pages.                                         *)
(***************************************************************************)
Paging(q) == q.step \in {"fetch", "lookup", "store"}

Resting(q) == ~Paging(q) /\ q.page = {} /\ q.until = 0

\* A first page is whole until it is stored: the credits last for it.
FirstPage(q) ==
    /\ q.until = 0
    /\ q.step = "fetch" => q.page = {} /\ q.credits = MirrorCap
    /\ q.step # "fetch" => Cardinality(q.page) <= q.credits

\* A later one lies below an event that is stored, without a gap.
LaterPage(q, stored) ==
    /\ q.until \in stored
    /\ q.step = "fetch" => q.page = {}
    /\ \A x \in q.page : x <= q.until /\ \A e \in x..q.until : e \in stored \cup q.page

Visiting(q, stored) ==
    Resting(q) \/ (Paging(q) /\ (FirstPage(q) \/ LaterPage(q, stored)))

\* The events stored, and those on first pages: they leave a page for the store only.
Part(q) == IF q.until = 0 THEN q.page ELSE {}

Fore == mirrored \cup UNION {Part(req[r]) : r \in Req}

Contiguous(S) == \A x, y \in S : \A e \in x..y : e \in S

\* The newest of them is on the page the next visit fetches.
Reaches(S) == S = {} \/ \E y \in S : y > relays - MirrorCap

GapInv ==
    /\ \A r \in Req : Visiting(req[r], mirrored)
    /\ ~excused => Contiguous(Fore) /\ Reaches(Fore)

LEMMA PageNumbers ==
    ASSUME TypeInv
    PROVE  /\ relays \in Nat /\ MirrorCap \in Nat \ {0}
           /\ mirrored \subseteq 1..relays /\ Fore \subseteq 1..relays
           /\ \A r \in Req : req[r].page \subseteq 1..relays /\ req[r] \in Request
<1>1. relays \in Nat /\ MirrorCap \in Nat \ {0} /\ mirrored \subseteq 1..relays
  BY AccountsAssumption DEF TypeInv, World
<1>2. \A r \in Req : req[r].page \subseteq 1..relays /\ req[r] \in Request
  BY DEF TypeInv, Fits
<1> QED
  BY <1>1, <1>2 DEF Fore, Part

LEMMA ForeChanges ==
    ASSUME NEW r \in Req, \A q \in Req \ {r} : req'[q] = req[q]
    PROVE  \E R : /\ Fore = mirrored \cup Part(req[r]) \cup R
                  /\ Fore' = mirrored' \cup Part(req'[r]) \cup R
<1> DEFINE R == UNION {Part(req[q]) : q \in Req \ {r}}
<1>1. UNION {Part(req[q]) : q \in Req} = Part(req[r]) \cup R
  OBVIOUS
<1>2. UNION {Part(req'[q]) : q \in Req} = Part(req'[r]) \cup R
  <2>1. \A q \in Req \ {r} : Part(req'[q]) = Part(req[q])
    OBVIOUS
  <2> QED
    BY <2>1
<1> QED
  BY <1>1, <1>2 DEF Fore, Part

LEMMA GapImplies ==
    ASSUME TypeInv, GapInv
    PROVE  NoGap
<1> SUFFICES ASSUME ~excused, mirrored # {}, NEW e \in (Oldest + 1)..relays,
                    e \notin mirrored, e \notin Page(relays)
             PROVE  \E r \in Req : e \in req[r].page
  BY DEF NoGap
<1>1. Oldest \in mirrored /\ Oldest \in Nat
  BY PageNumbers, OldestStored
<1>2. Oldest \in Fore /\ Contiguous(Fore) /\ Reaches(Fore)
  BY <1>1 DEF GapInv, Fore
<1>3. PICK y \in Fore : y > relays - MirrorCap
  BY <1>2 DEF Reaches
<1>4. e \in Nat /\ y \in Nat /\ e <= relays - MirrorCap
  BY <1>1, <1>3, PageNumbers DEF Page
<1>5. e \in Oldest..y
  BY <1>1, <1>3, <1>4, PageNumbers
<1>6. e \in Fore
  BY <1>2, <1>3, <1>5 DEF Contiguous
<1> QED
  BY <1>6 DEF Fore, Part

\* A request of which the others keep their pages.
LEMMA VisitingStays ==
    ASSUME NEW q, NEW s, NEW t, s \subseteq t, Visiting(q, s)
    PROVE  Visiting(q, t)
BY DEF Visiting, LaterPage

\* The foremost events are the same, or more was excused.
LEMMA SameFore ==
    ASSUME TypeInv, GapInv, NEW r \in Req, \A q \in Req \ {r} : req'[q] = req[q],
           mirrored \subseteq mirrored', Visiting(req'[r], mirrored'),
           relays' = relays, ~excused' => ~excused /\ Fore' = Fore
    PROVE  GapInv'
<1>1. \A q \in Req : Visiting(req'[q], mirrored')
  BY VisitingStays DEF GapInv
<1>2. ~excused' => Contiguous(Fore') /\ (Reaches(Fore))'
  BY DEF GapInv, Reaches
<1> QED
  BY <1>1, <1>2 DEF GapInv

-----------------------------------------------------------------------------
\* A request outside the pages, before and after.
LEMMA RestStep ==
    ASSUME TypeInv, GapInv, NEW r \in Req, Arrive(r) \/ ReqStep(r),
           Resting(req'[r]), req[r].page = {}, UNCHANGED <<relays, mirrored, excused>>
    PROVE  GapInv'
<1>1. \A q \in Req \ {r} : req'[q] = req[q]
  BY StepAdvances DEF Advances, TypeInv
<1>2. Part(req[r]) = {} /\ Part(req'[r]) = {}
  BY DEF Part, Resting
<1>3. Fore' = Fore
  BY <1>1, <1>2, ForeChanges
<1>4. Visiting(req'[r], mirrored')
  BY DEF Visiting
<1> QED
  BY <1>1, <1>3, <1>4, SameFore

LEMMA AskRests ==
    ASSUME TypeInv, NEW r \in Req, NEW kind, NEW q \in Request, Ask(r, kind, q),
           q.page = {}, q.until = 0
    PROVE  Resting(req'[r])
<1> DEFINE new == [q EXCEPT !.kind = kind, !.step = "meter", !.at = now]
<1>1. new.page = {} /\ new.until = 0 /\ new.step = "meter"
  BY DEF Request
<1>2. req'[r] = new
  BY DEF Ask, Set, TypeInv
<1> HIDE DEF new
<1> QED
  BY <1>1, <1>2 DEF Resting, Paging

LEMMA ArriveRests ==
    ASSUME TypeInv, NEW r \in Req, Arrive(r)
    PROVE  Resting(req'[r]) /\ UNCHANGED npub /\ req[r].step = "idle"
<1>1. UNCHANGED npub /\ req[r].step = "idle"
  BY DEF Arrive, AskChallenge, AskLogin, AskLogout, AskPublish, AskClaim, AskVisit, Ask
<1> SUFFICES Resting(req'[r])
  BY <1>1
<1>2. CASE AskChallenge(r)
  <2>1. Idle.page = {} /\ Idle.until = 0
    BY DEF Idle
  <2> QED
    BY <1>2, <2>1, IdleRequest, AskRests DEF AskChallenge
<1>3. CASE AskLogin(r)
  <2>1. PICK n \in issued, k \in Key \cup {NoOne} :
           Ask(r, "login", [Idle EXCEPT !.name = n, !.key = k])
    BY <1>3 DEF AskLogin
  <2> DEFINE q == [Idle EXCEPT !.name = n, !.key = k]
  <2>2. q \in Request /\ q.page = {} /\ q.until = 0
    BY IdleRequest DEF Idle, Request, TypeInv, World
  <2> HIDE DEF q
  <2> QED
    BY <2>1, <2>2, AskRests DEF q
<1>4. CASE AskLogout(r)
  <2>1. PICK t \in Token : Ask(r, "logout", [Idle EXCEPT !.name = t])
    BY <1>4 DEF AskLogout
  <2> DEFINE q == [Idle EXCEPT !.name = t]
  <2>2. q \in Request /\ q.page = {} /\ q.until = 0
    BY IdleRequest DEF Idle, Request
  <2> HIDE DEF q
  <2> QED
    BY <2>1, <2>2, AskRests DEF q
<1>5. CASE AskPublish(r)
  <2>1. PICK d \in Slot, erase \in BOOLEAN :
            Ask(r, "publish", [Idle EXCEPT !.key = Author, !.name = d, !.erase = erase])
    BY <1>5 DEF AskPublish
  <2> DEFINE q == [Idle EXCEPT !.key = Author, !.name = d, !.erase = erase]
  <2>2. q \in Request /\ q.page = {} /\ q.until = 0
    BY IdleRequest, AccountsAssumption DEF Idle, Request
  <2> HIDE DEF q
  <2> QED
    BY <2>1, <2>2, AskRests DEF q
<1>6. CASE AskClaim(r)
  <2>1. PICK t \in Token, h \in Handle :
            /\ SignedIn(t)
            /\ Ask(r, "claim", [Idle EXCEPT !.key = session[t].key, !.name = h])
    BY <1>6 DEF AskClaim
  <2> DEFINE q == [Idle EXCEPT !.key = session[t].key, !.name = h]
  <2>2. session[t].key \in Key
    BY <2>1 DEF TypeInv, World, SignedIn
  <2>3. q \in Request /\ q.page = {} /\ q.until = 0
    BY <2>2, IdleRequest DEF Idle, Request
  <2> HIDE DEF q
  <2> QED
    BY <2>1, <2>3, AskRests DEF q
<1>7. CASE AskVisit(r)
  <2> DEFINE new == [Idle EXCEPT !.kind = "visit", !.key = Author, !.step = "look"]
  <2>1. new.page = {} /\ new.until = 0 /\ new.step = "look"
    BY DEF Idle
  <2>2. req'[r] = new
    BY <1>7 DEF AskVisit, Set, TypeInv
  <2> HIDE DEF new
  <2> QED
    BY <2>1, <2>2 DEF Resting, Paging
<1> QED
  BY <1>2, <1>3, <1>4, <1>5, <1>6, <1>7 DEF Arrive

\* A request goes on outside the pages.
LEMMA StillRests ==
    ASSUME TypeInv, GapInv, NEW r \in Req, ~Paging(req[r]),
           NEW new, Set(r, new), ~Paging(new), new.page = req[r].page,
           new.until = req[r].until
    PROVE  Resting(req'[r])
<1>1. Resting(req[r])
  BY DEF GapInv, Visiting
<1>2. req'[r] = new
  BY DEF Set, TypeInv
<1> QED
  BY <1>1, <1>2 DEF Resting

LEMMA IdleRests ==
    ASSUME TypeInv, NEW r \in Req, Set(r, Idle)
    PROVE  Resting(req'[r])
BY DEF Set, TypeInv, Idle, Resting, Paging

\* The steps of the other requests, and those of a visit before its pages.
LEMMA OtherRests ==
    ASSUME TypeInv, GapInv, NEW r \in Req,
           \/ Meter(r) \/ Pass(r) \/ Issue(r) \/ Consume(r) \/ Open(r) \/ Logout(r)
           \/ Gate(r) \/ ReadSlot(r) \/ CountPosts(r) \/ MirrorEvent(r) \/ Claim(r)
           \/ ReadData(r) \/ CheckCooldown(r)
    PROVE  Resting(req'[r]) /\ UNCHANGED npub /\ ~Paging(req[r])
<1>1. UNCHANGED npub /\ ~Paging(req[r])
  <2>1. CASE \/ Meter(r) \/ Pass(r) \/ Issue(r) \/ Consume(r) \/ Open(r) \/ Logout(r)
    BY <2>1 DEF Meter, Pass, Issue, Consume, Open, Logout, Paging
  <2>2. CASE \/ Gate(r) \/ ReadSlot(r) \/ CountPosts(r) \/ MirrorEvent(r) \/ Claim(r)
             \/ ReadData(r) \/ CheckCooldown(r)
    BY <2>2 DEF Gate, ReadSlot, CountPosts, MirrorEvent, Claim, ReadData, CheckCooldown, Paging
  <2> QED
    BY <2>1, <2>2
<1> SUFFICES Resting(req'[r])
  BY <1>1
<1>2. req[r] \in Request
  BY DEF TypeInv
<1>3. ASSUME NEW step, step \notin {"fetch", "lookup", "store"},
             Set(r, [req[r] EXCEPT !.step = step])
      PROVE  Resting(req'[r])
  <2> DEFINE new == [req[r] EXCEPT !.step = step]
  <2>1. new.page = req[r].page /\ new.until = req[r].until /\ new.step = step
    BY <1>2 DEF Request
  <2> HIDE DEF new
  <2> QED
    BY <1>1, <1>3, <2>1, StillRests DEF new, Paging
<1>4. CASE Set(r, Idle)
  BY <1>4, IdleRests
<1>5. CASE (Meter(r) \/ Pass(r)) /\ Set(r, Proceed(r))
  <2>1. req[r].step = "meter"
    BY <1>5 DEF Meter, Pass
  <2>2. /\ Proceed(r).page = req[r].page /\ Proceed(r).until = req[r].until
        /\ Proceed(r).step = After(req[r].kind)
    BY <2>1, ProceedType
  <2>3. After(req[r].kind) \notin {"fetch", "lookup", "store"}
    BY <2>1 DEF TypeInv, Fits, Proper, After, Kind
  <2> QED
    BY <1>1, <1>5, <2>2, <2>3, StillRests DEF Paging
<1>6. CASE Consume(r)
  BY <1>3, <1>4, <1>6 DEF Consume, Goto
<1>7. CASE Gate(r)
  BY <1>3, <1>4, <1>7 DEF Gate, Goto
<1>8. CASE ReadSlot(r)
  BY <1>3, <1>8 DEF ReadSlot, Goto
<1>9. CASE CountPosts(r)
  <2> DEFINE new == [req[r] EXCEPT !.step = "mirror", !.fresh = TRUE]
  <2>1. new.page = req[r].page /\ new.until = req[r].until /\ new.step = "mirror"
    BY <1>2 DEF Request
  <2>2. Set(r, new) \/ Set(r, Idle)
    BY <1>9 DEF CountPosts
  <2> HIDE DEF new
  <2> QED
    BY <1>1, <1>4, <2>1, <2>2, StillRests DEF Paging
<1>10. CASE ReadData(r)
  <2> DEFINE new == [req[r] EXCEPT !.step = "cool", !.has = mirrored # {}]
  <2>1. new.page = req[r].page /\ new.until = req[r].until /\ new.step = "cool"
    BY <1>2 DEF Request
  <2>2. Set(r, new)
    BY <1>10 DEF ReadData
  <2> HIDE DEF new
  <2> QED
    BY <1>1, <2>1, <2>2, StillRests DEF Paging
<1>11. CASE CheckCooldown(r)
  <2> DEFINE new == [req[r] EXCEPT !.step = "meter", !.at = now]
  <2>1. new.page = req[r].page /\ new.until = req[r].until /\ new.step = "meter"
    BY <1>2 DEF Request
  <2>2. Set(r, new) \/ Set(r, Idle)
    BY <1>11 DEF CheckCooldown
  <2> HIDE DEF new
  <2> QED
    BY <1>1, <1>4, <2>1, <2>2, StillRests DEF Paging
<1>12. CASE (Meter(r) \/ Pass(r)) /\ ~Set(r, Proceed(r))
  BY <1>4, <1>12 DEF Meter, Pass
<1>13. CASE Issue(r) \/ Open(r) \/ Logout(r) \/ MirrorEvent(r) \/ Claim(r)
  BY <1>4, <1>13 DEF Issue, Open, Logout, MirrorEvent, Claim
<1> QED
  BY <1>5, <1>6, <1>7, <1>8, <1>9, <1>10, <1>11, <1>12, <1>13

-----------------------------------------------------------------------------
\* A visit steps among its pages.
LEMMA Steps ==
    ASSUME TypeInv, NEW r \in Req, Arrive(r) \/ ReqStep(r)
    PROVE  /\ \A q \in Req \ {r} : req'[q] = req[q]
           /\ \A new : Set(r, new) => req'[r] = new
BY StepAdvances DEF Advances, TypeInv, Set

LEMMA PageSize ==
    ASSUME NEW u \in Nat
    PROVE  /\ Page(u) \subseteq 1..u
           /\ IsFiniteSet(Page(u)) /\ Cardinality(Page(u)) <= MirrorCap
<1>1. MirrorCap \in Nat \ {0}
  BY AccountsAssumption
<1>2. Page(u) \subseteq 1..u /\ Page(u) \subseteq (u - MirrorCap + 1)..u
  BY <1>1 DEF Page
<1>3. /\ IsFiniteSet((u - MirrorCap + 1)..u)
      /\ Cardinality((u - MirrorCap + 1)..u) = MirrorCap
  BY <1>1, FS_Interval
<1> QED
  BY <1>2, <1>3, FS_Subset, ZenonT(60)

LEMMA MarkCooldownGap ==
    ASSUME TypeInv, GapInv, NEW r \in Req, MarkCooldown(r)
    PROVE  GapInv'
<1> DEFINE new == [req[r] EXCEPT !.step = "fetch", !.credits = MirrorCap]
<1>1. Set(r, new) /\ UNCHANGED <<relays, mirrored, excused>> /\ req[r].step = "mark"
  BY DEF MarkCooldown
<1>2. Resting(req[r])
  BY <1>1 DEF GapInv, Visiting, Paging
<1>3. new.step = "fetch" /\ new.credits = MirrorCap /\ new.page = {} /\ new.until = 0
  BY <1>2 DEF TypeInv, Request, Resting
<1> HIDE DEF new
<1>4. req'[r] = new /\ \A q \in Req \ {r} : req'[q] = req[q]
  BY <1>1, Steps DEF ReqStep
<1>5. Visiting(req'[r], mirrored')
  BY <1>3, <1>4 DEF Visiting, Paging, FirstPage
<1>6. Fore' = Fore
  <2>1. Part(req[r]) = {} /\ Part(req'[r]) = {}
    BY <1>2, <1>3, <1>4 DEF Part, Resting
  <2> QED
    BY <1>1, <1>4, <2>1, ForeChanges
<1> QED
  BY <1>1, <1>4, <1>5, <1>6, SameFore

\* A page from the top joins on to what reaches it.
LEMMA PageJoins ==
    ASSUME NEW n \in Nat, NEW S, S \subseteq 1..n, Contiguous(S),
           S = {} \/ \E y \in S : y > n - MirrorCap
    PROVE  /\ Contiguous(S \cup Page(n))
           /\ (S \cup Page(n) = {} \/ \E y \in S \cup Page(n) : y > n - MirrorCap)
<1>1. MirrorCap \in Nat \ {0}
  BY AccountsAssumption
<1>2. \A y \in Page(n) : y \in 1..n /\ y > n - MirrorCap
  BY DEF Page
<1>3. ASSUME NEW x \in S \cup Page(n), NEW y \in S \cup Page(n), NEW e \in x..y
      PROVE  e \in S \cup Page(n)
  <2>1. x \in 1..n /\ y \in 1..n /\ e \in 1..n
    BY <1>2, <1>3
  <2>2. CASE e > n - MirrorCap
    BY <2>1, <2>2 DEF Page
  <2>3. CASE e <= n - MirrorCap
    <3>1. x \in S
      BY <1>1, <1>2, <1>3, <2>1, <2>3
    <3>2. PICK z \in S : z > n - MirrorCap
      BY <3>1
    <3>3. e \in x..z
      BY <1>1, <1>3, <2>1, <2>3, <3>2
    <3> QED
      BY <3>1, <3>2, <3>3 DEF Contiguous
  <2> QED
    BY <1>1, <2>1, <2>2, <2>3
<1> QED
  BY <1>2, <1>3 DEF Contiguous

LEMMA FetchPageGap ==
    ASSUME TypeInv, GapInv, NEW r \in Req, FetchPage(r)
    PROVE  GapInv'
<1> DEFINE u == IF req[r].until = 0 THEN relays ELSE req[r].until
<1>1. /\ u \in Nat /\ u <= relays /\ relays \in Nat /\ MirrorCap \in Nat \ {0}
      /\ req[r] \in Request /\ Fore \subseteq 1..relays /\ req[r].until \in Nat
  BY PageNumbers, AccountsAssumption DEF TypeInv, Fits
<1>2. PICK page \in {Page(u), {}} : Set(r, [req[r] EXCEPT !.step = "lookup", !.page = page])
  BY DEF FetchPage
<1>3. req[r].step = "fetch" /\ UNCHANGED <<relays, mirrored, excused>>
  BY DEF FetchPage, npub
<1> DEFINE new == [req[r] EXCEPT !.step = "lookup", !.page = page]
<1>4. /\ new.step = "lookup" /\ new.page = page /\ new.until = req[r].until
      /\ new.credits = req[r].credits
  BY <1>1 DEF Request
<1> HIDE DEF new, u
<1>5. req'[r] = new /\ \A q \in Req \ {r} : req'[q] = req[q]
  BY <1>2, Steps DEF ReqStep, new
<1>6. Paging(req[r]) /\ req[r].page = {}
  BY <1>3 DEF GapInv, Visiting, Resting, Paging, FirstPage, LaterPage
<1>7. page \subseteq 1..u /\ IsFiniteSet(page) /\ Cardinality(page) <= MirrorCap
  <2>1. u \in Nat
    BY <1>1
  <2>2. Page(u) \subseteq 1..u /\ IsFiniteSet(Page(u)) /\ Cardinality(Page(u)) <= MirrorCap
    BY <2>1, PageSize
  <2>3. CASE page = Page(u)
    BY <2>2, <2>3
  <2>4. CASE page = {}
    <3>1. IsFiniteSet(page) /\ Cardinality(page) = 0
      BY <2>4, FS_EmptySet
    <3>2. 0 <= MirrorCap
      BY <1>1
    <3> QED
      BY <2>4, <3>1, <3>2
  <2> QED
    BY <1>2, <2>3, <2>4
<1>8. CASE req[r].until = 0
  <2>1. req[r].credits = MirrorCap
    BY <1>3, <1>6, <1>8, PageNumbers DEF GapInv, Visiting, Resting, FirstPage, LaterPage
  <2>2. Visiting(req'[r], mirrored')
    BY <1>4, <1>5, <1>7, <1>8, <2>1 DEF Visiting, FirstPage, Paging
  <2>3. \A q \in Req : Visiting(req'[q], mirrored')
    BY <1>3, <1>5, <2>2 DEF GapInv
  <2>4. Fore' = Fore \cup page
    <3>1. Part(req[r]) = {} /\ Part(req'[r]) = page
      BY <1>4, <1>5, <1>6, <1>8 DEF Part
    <3> QED
      BY <1>3, <1>5, <3>1, ForeChanges
  <2>5. CASE page = {}
    <3>1. Fore' = Fore
      BY <2>4, <2>5
    <3> QED
      BY <1>3, <1>5, <2>2, <3>1, SameFore
  <2>6. CASE page = Page(relays)
    <3>1. ASSUME ~excused
          PROVE  Contiguous(Fore') /\ (Reaches(Fore))'
      BY <1>1, <1>3, <2>4, <2>6, <3>1, PageJoins DEF GapInv, Reaches
    <3> QED
      BY <1>3, <2>3, <3>1 DEF GapInv
  <2> QED
    BY <1>2, <1>8, <2>5, <2>6 DEF u
<1>9. CASE req[r].until # 0
  <2>1. LaterPage(req[r], mirrored) /\ u = req[r].until
    BY <1>6, <1>9 DEF GapInv, Visiting, Resting, FirstPage, u
  <2>2. \A x \in page : x <= u /\ \A e \in x..u : e \in page
    BY <1>1, <1>2 DEF Page
  <2>3. LaterPage(new, mirrored)
    BY <1>4, <2>1, <2>2 DEF LaterPage
  <2>4. Visiting(req'[r], mirrored')
    BY <1>3, <1>4, <1>5, <2>3 DEF Visiting, Paging
  <2>5. Fore' = Fore
    <3>1. Part(req[r]) = {} /\ Part(req'[r]) = {}
      BY <1>4, <1>5, <1>9 DEF Part
    <3> QED
      BY <1>3, <1>5, <3>1, ForeChanges
  <2> QED
    BY <1>3, <1>5, <2>4, <2>5, SameFore
<1> QED
  BY <1>8, <1>9

LEMMA LookUpGap ==
    ASSUME TypeInv, GapInv, NEW r \in Req, LookUp(r)
    PROVE  GapInv'
<1> DEFINE new == [req[r] EXCEPT !.step = "store", !.page = @ \ mirrored]
<1>1. Set(r, new) /\ UNCHANGED <<relays, mirrored, excused>> /\ req[r].step = "lookup"
  BY DEF LookUp, npub
<1>2. /\ new.step = "store" /\ new.page = req[r].page \ mirrored
      /\ new.until = req[r].until /\ new.credits = req[r].credits /\ new.credits \in Nat
  BY AccountsAssumption DEF TypeInv, Request
<1> HIDE DEF new
<1>3. req'[r] = new /\ \A q \in Req \ {r} : req'[q] = req[q]
  BY <1>1, Steps DEF ReqStep
<1>4. FirstPage(req[r]) \/ LaterPage(req[r], mirrored)
  BY <1>1 DEF GapInv, Visiting, Resting, Paging
<1>5. IsFiniteSet(req[r].page)
  <2>1. req[r].page \subseteq 1..relays /\ relays \in Nat
    BY PageNumbers
  <2>2. IsFiniteSet(1..relays)
    BY <2>1, FS_Interval
  <2> QED
    BY <2>1, <2>2, FS_Subset
<1>6. FirstPage(req[r]) => FirstPage(new)
  <2>1. /\ Cardinality(new.page) <= Cardinality(req[r].page)
        /\ Cardinality(new.page) \in Nat /\ Cardinality(req[r].page) \in Nat
    BY <1>2, <1>5, FS_Subset, FS_CardinalityType
  <2> QED
    BY <1>1, <1>2, <2>1 DEF FirstPage
<1>7. LaterPage(req[r], mirrored) => LaterPage(new, mirrored)
  BY <1>1, <1>2 DEF LaterPage
<1>8. Visiting(req'[r], mirrored')
  BY <1>1, <1>2, <1>3, <1>4, <1>6, <1>7 DEF Visiting, Paging
<1>9. Fore' = Fore
  <2>1. Part(new) \cup mirrored = Part(req[r]) \cup mirrored
    BY <1>2 DEF Part
  <2> QED
    BY <1>1, <1>3, <2>1, ForeChanges
<1> QED
  BY <1>1, <1>3, <1>8, <1>9, SameFore

-----------------------------------------------------------------------------
LEMMA ForemostOf ==
    ASSUME NEW n \in Nat, NEW S \in SUBSET (1..n), S # {}
    PROVE  Foremost(S) \in S /\ \A d \in S : d <= Foremost(S)
BY GreatestExists DEF Foremost

\* What is put below, with nothing missing in between, joins on.
LEMMA BelowJoins ==
    ASSUME NEW n \in Nat, NEW S, S \subseteq 1..n, Contiguous(S),
           NEW u \in S, NEW e \in 1..n, e <= u, \A d \in e..u : d \in S \/ d = e
    PROVE  Contiguous(S \cup {e})
<1>1. ASSUME NEW x \in S \cup {e}, NEW y \in S \cup {e}, NEW d \in x..y
      PROVE  d \in S \cup {e}
  <2>1. x \in 1..n /\ y \in 1..n /\ d \in 1..n /\ u \in 1..n
    BY <1>1
  <2>2. CASE x \in S /\ y \in S
    BY <1>1, <2>2 DEF Contiguous
  <2>3. CASE x = e /\ y \in S
    <3>1. CASE d <= u
      BY <1>1, <2>1, <2>3, <3>1
    <3>2. CASE d > u
      <4>1. d \in u..y
        BY <1>1, <2>1, <3>2
      <4> QED
        BY <2>3, <4>1 DEF Contiguous
    <3> QED
      BY <2>1, <3>1, <3>2
  <2>4. CASE x \in S /\ y = e
    <3>1. d \in x..u
      BY <1>1, <2>1, <2>4
    <3> QED
      BY <2>4, <3>1 DEF Contiguous
  <2>5. CASE x = e /\ y = e
    BY <1>1, <2>1, <2>5
  <2> QED
    BY <2>2, <2>3, <2>4, <2>5
<1> QED
  BY <1>1 DEF Contiguous

LEMMA MirrorOneGap ==
    ASSUME TypeInv, GapInv, NEW r \in Req, MirrorOne(r)
    PROVE  GapInv'
<1> DEFINE p == req[r].page
           e == Foremost(p)
           new == [req[r] EXCEPT !.page = @ \ {e}, !.credits = @ - 1]
<1>1. /\ relays \in Nat /\ p \in SUBSET (1..relays) /\ req[r] \in Request
      /\ Fore \subseteq 1..relays /\ mirrored \subseteq 1..relays
  BY PageNumbers
<1>2. /\ Set(r, new) /\ req[r].step = "store" /\ p # {} /\ req[r].credits > 0
      /\ mirrored' = mirrored \cup {e} /\ UNCHANGED <<relays, excused>>
  BY DEF MirrorOne
<1>3. e \in p /\ \A d \in p : d <= e
  BY <1>1, <1>2, ForemostOf
<1> HIDE DEF e
<1>4. /\ new.step = "store" /\ new.page = p \ {e} /\ new.until = req[r].until
      /\ new.credits = req[r].credits - 1 /\ req[r].credits \in Nat
  BY <1>1, <1>2, AccountsAssumption DEF Request
<1> HIDE DEF new
<1>5. req'[r] = new /\ \A q \in Req \ {r} : req'[q] = req[q]
  BY <1>2, Steps DEF ReqStep
<1>6. FirstPage(req[r]) \/ LaterPage(req[r], mirrored)
  BY <1>2 DEF GapInv, Visiting, Resting, Paging
<1>7. Paging(new)
  BY <1>4 DEF Paging
<1>8. CASE FirstPage(req[r])
  <2>1. IsFiniteSet(p)
    <3>1. IsFiniteSet(1..relays)
      BY <1>1, FS_Interval
    <3> QED
      BY <1>1, <3>1, FS_Subset
  <2>2. /\ Cardinality(p \ {e}) = Cardinality(p) - 1 /\ Cardinality(p) \in Nat
        /\ Cardinality(p) <= req[r].credits
    BY <1>2, <1>3, <1>8, <2>1, FS_RemoveElement, FS_CardinalityType DEF FirstPage
  <2>3. FirstPage(new)
    BY <1>4, <1>8, <2>2 DEF FirstPage
  <2>4. Visiting(req'[r], mirrored')
    BY <1>5, <1>7, <2>3 DEF Visiting
  <2>5. Fore' = Fore
    <3>1. Part(req[r]) = p /\ Part(new) = p \ {e}
      BY <1>4, <1>8 DEF Part, FirstPage
    <3> HIDE DEF p
    <3> QED
      BY <1>2, <1>3, <1>5, <3>1, ForeChanges
  <2> QED
    BY <1>2, <1>5, <2>4, <2>5, SameFore
<1>9. CASE LaterPage(req[r], mirrored)
  <2>1. CASE req[r].until = 0
    BY <1>1, <1>9, <2>1 DEF LaterPage
  <2>2. CASE req[r].until # 0
    <3> DEFINE u == req[r].until
    <3>1. /\ u \in mirrored
          /\ \A x \in p : x <= u /\ \A d \in x..u : d \in mirrored \cup p
      BY <1>9 DEF LaterPage
    <3>2. LaterPage(new, mirrored')
      BY <1>2, <1>4, <3>1 DEF LaterPage
    <3>3. \A q \in Req : Visiting(req'[q], mirrored')
      BY <1>2, <1>5, <1>7, <3>2, VisitingStays DEF GapInv, Visiting
    <3>4. Fore' = Fore \cup {e}
      <4>1. Part(req[r]) = {} /\ Part(new) = {}
        BY <1>4, <2>2 DEF Part
      <4> HIDE DEF p
      <4> QED
        BY <1>2, <1>5, <4>1, ForeChanges
    <3>5. ASSUME ~excused
          PROVE  Contiguous(Fore') /\ (Reaches(Fore))'
      <4>1. Contiguous(Fore) /\ Reaches(Fore) /\ u \in Fore
        BY <3>1, <3>5 DEF GapInv, Fore
      <4>2. e \in 1..relays /\ e <= u
        BY <1>1, <1>3, <3>1
      <4>3. \A d \in e..u : d \in Fore \/ d = e
        <5>1. \A d \in e..u : d \in mirrored \/ (d \in p /\ d <= e /\ d >= e)
          BY <1>3, <3>1
        <5>2. \A d \in p : d \in Nat /\ e \in Nat
          BY <1>1, <1>3
        <5> QED
          BY <5>1, <5>2 DEF Fore
      <4>4. Contiguous(Fore \cup {e})
        BY <1>1, <4>1, <4>2, <4>3, BelowJoins
      <4>5. (Reaches(Fore))'
        BY <1>2, <3>4, <4>1 DEF Reaches
      <4> QED
        BY <3>4, <4>4, <4>5
    <3> QED
      BY <1>2, <3>3, <3>5 DEF GapInv
  <2> QED
    BY <2>1, <2>2
<1> QED
  BY <1>6, <1>8, <1>9

LEMMA EndPageGap ==
    ASSUME TypeInv, GapInv, NEW r \in Req, EndPage(r)
    PROVE  GapInv'
<1> DEFINE new == [req[r] EXCEPT !.step = "fetch", !.until = Oldest]
<1>1. /\ req[r].step = "store" /\ UNCHANGED <<relays, mirrored, excused>>
      /\ req[r].page = {} \/ req[r].credits = 0
      /\ \/ Set(r, Idle)
         \/ Set(r, new) /\ req[r].has /\ req[r].until = 0
  BY DEF EndPage, npub
<1>2. /\ new.step = "fetch" /\ new.page = req[r].page /\ new.until = Oldest
      /\ req[r] \in Request /\ req[r].page \subseteq 1..relays /\ relays \in Nat
      /\ mirrored \subseteq 1..relays
  BY PageNumbers DEF Request
<1> HIDE DEF new
<1>3. /\ \A q \in Req \ {r} : req'[q] = req[q]
      /\ \/ req'[r] = Idle
         \/ req'[r] = new /\ req[r].has /\ req[r].until = 0
  BY <1>1, Steps DEF ReqStep
<1>4. FirstPage(req[r]) \/ LaterPage(req[r], mirrored)
  BY <1>1 DEF GapInv, Visiting, Resting, Paging
<1>5. req[r].until = 0 => req[r].page = {}
  <2>1. SUFFICES ASSUME req[r].until = 0, req[r].credits = 0
                 PROVE  req[r].page = {}
    BY <1>1
  <2>2. Cardinality(req[r].page) <= 0
    BY <1>1, <1>2, <1>4, <2>1 DEF FirstPage, LaterPage
  <2>3. IsFiniteSet(req[r].page)
    <3>1. IsFiniteSet(1..relays)
      BY <1>2, FS_Interval
    <3> QED
      BY <1>2, <3>1, FS_Subset
  <2> QED
    BY <2>2, <2>3, FS_CardinalityType, FS_EmptySet
<1>6. Part(req[r]) = {}
  BY <1>5 DEF Part
<1>7. Visiting(req'[r], mirrored') /\ Part(req'[r]) = {}
  <2>1. CASE req'[r] = Idle
    BY <2>1 DEF Visiting, Resting, Paging, Part, Idle
  <2>2. CASE req'[r] = new /\ req[r].has /\ req[r].until = 0
    <3>1. Oldest \in mirrored
      BY <1>2, <2>2, OldestStored DEF TypeInv, Fits
    <3>2. LaterPage(new, mirrored) /\ Part(new) = {}
      BY <1>2, <1>5, <2>2, <3>1 DEF LaterPage, Part
    <3> QED
      BY <1>1, <1>2, <2>2, <3>2 DEF Visiting, Paging
  <2> QED
    BY <1>3, <2>1, <2>2
<1>8. Fore' = Fore
  BY <1>1, <1>3, <1>6, <1>7, ForeChanges
<1> QED
  BY <1>1, <1>3, <1>7, <1>8, SameFore

LEMMA FailGap ==
    ASSUME TypeInv, GapInv, NEW r \in Req, Fail(r)
    PROVE  GapInv'
<1>1. /\ UNCHANGED <<relays, mirrored>> /\ excused' = (excused \/ req[r].page # {})
      /\ \A q \in Req \ {r} : req'[q] = req[q]
      /\ req'[r] = Idle
  BY Steps DEF Fail, ReqStep
<1>2. Visiting(req'[r], mirrored') /\ Part(req'[r]) = {}
  BY <1>1 DEF Visiting, Resting, Paging, Part, Idle
<1>3. req[r].page = {} => Fore' = Fore
  BY <1>1, <1>2, ForeChanges DEF Part
<1> QED
  BY <1>1, <1>2, <1>3, SameFore

LEMMA PublishGap ==
    ASSUME TypeInv, GapInv, Publish
    PROVE  GapInv'
<1>1. /\ relays' = relays + 1 /\ UNCHANGED <<mirrored, req>>
      /\ excused' = (excused \/ (Known # {} /\ Known \cap Page(relays') = {}))
  BY DEF Publish
<1>2. relays \in Nat /\ MirrorCap \in Nat \ {0} /\ Fore \subseteq 1..relays
  BY PageNumbers
<1>3. Fore' = Fore /\ \A r \in Req : Visiting(req'[r], mirrored')
  BY <1>1 DEF Fore, GapInv
<1>4. ASSUME ~excused', Fore # {}
      PROVE  \E y \in Fore : y > relays' - MirrorCap
  <2>1. Fore \subseteq Known
    BY DEF Fore, Known, Part
  <2>2. PICK y \in Known : y \in Page(relays')
    BY <1>1, <1>4, <2>1
  <2>3. y > relays' - MirrorCap /\ y \in Nat
    BY <1>1, <1>2, <2>2 DEF Page
  <2>4. CASE y \in Fore
    BY <2>3, <2>4
  <2>5. CASE y \notin Fore
    <3>1. PICK r \in Req : y \in req[r].page
      BY <2>2, <2>5 DEF Known, Fore
    <3>2. req[r].until # 0
      BY <2>5, <3>1 DEF Fore, Part
    <3>3. LaterPage(req[r], mirrored)
      BY <3>1, <3>2 DEF GapInv, Visiting, Resting, FirstPage
    <3>4. req[r].until \in Fore /\ y <= req[r].until
      BY <3>1, <3>3 DEF LaterPage, Fore
    <3>5. req[r].until \in Nat /\ relays' - MirrorCap \in Int
      <4>1. relays' \in Nat
        BY <1>1, <1>2
      <4>2. req[r].until \in 1..relays
        BY <1>2, <3>4
      <4>3. relays' - MirrorCap \in Int
        BY <1>2, <4>1
      <4> QED
        BY <1>2, <4>2, <4>3
    <3>6. req[r].until > relays' - MirrorCap
      BY <2>3, <3>4, <3>5
    <3> QED
      BY <3>4, <3>6
  <2> QED
    BY <2>4, <2>5
<1> QED
  BY <1>1, <1>3, <1>4 DEF GapInv, Reaches

LEMMA NextGap ==
    ASSUME TypeInv, GapInv, [Next]_vars
    PROVE  GapInv'
<1>1. CASE Publish
  BY <1>1, PublishGap
<1>2. CASE (Surroundings /\ ~Publish) \/ UNCHANGED vars
  <2>1. UNCHANGED <<req, mirrored, relays, excused>>
    BY <1>2 DEF Surroundings, Block, Unblock, Vanish, Thaw, Tick, npub, vars
  <2> QED
    BY <2>1 DEF GapInv, Fore, Reaches
<1>3. ASSUME NEW r \in Req, Arrive(r)
      PROVE  GapInv'
  <2>1. Resting(req'[r]) /\ UNCHANGED npub /\ req[r].step = "idle"
    BY <1>3, ArriveRests
  <2>2. req[r].page = {}
    BY <2>1 DEF GapInv, Visiting, Paging, Resting
  <2> QED
    BY <1>3, <2>1, <2>2, RestStep DEF npub
<1>4. ASSUME NEW r \in Req, ReqStep(r)
      PROVE  GapInv'
  <2>1. CASE \/ Meter(r) \/ Pass(r) \/ Issue(r) \/ Consume(r) \/ Open(r) \/ Logout(r)
             \/ Gate(r) \/ ReadSlot(r) \/ CountPosts(r) \/ MirrorEvent(r) \/ Claim(r)
             \/ ReadData(r) \/ CheckCooldown(r)
    <3>1. Resting(req'[r]) /\ UNCHANGED npub /\ ~Paging(req[r])
      BY <2>1, OtherRests
    <3>2. req[r].page = {}
      BY <3>1 DEF GapInv, Visiting, Resting
    <3> QED
      BY <1>4, <3>1, <3>2, RestStep DEF npub
  <2> QED
    BY <1>4, <2>1, MarkCooldownGap, FetchPageGap, LookUpGap, MirrorOneGap, EndPageGap, FailGap
       DEF ReqStep
<1> QED
  BY <1>1, <1>2, <1>3, <1>4, NextCases

\* Visits leave no gap in what is stored of a key's posts, while the author publishes
\* no more than a page between two of them and none breaks off.
THEOREM BackfillLeavesNoGap == Spec => []NoGap
<1>1. Init => GapInv
  BY DEF Init, Idle, GapInv, Visiting, Resting, Paging, Fore, Part, Contiguous, Reaches
<1> QED
  BY <1>1, TypesAlways, NextGap, GapImplies, PTL DEF Spec
=============================================================================
