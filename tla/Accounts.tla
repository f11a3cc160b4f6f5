------------------------------ MODULE Accounts ------------------------------
(***************************************************************************)
(* The apex site's requests that change state: login and logout            *)
(* (src/src/routes/auth.ts, services/sessions.ts), publishing              *)
(* (routes/api.ts), claiming a handle (routes/dashboard.ts,                *)
(* services/users.ts), blocking (routes/admin.ts), all behind the          *)
(* fixed-window limiter of services/ratelimit.ts; and the npub pages       *)
(* (routes/main.ts), which mirror a key's posts from relays when visited.  *)
(*                                                                         *)
(* A request runs one D1 or KV call per step and may fail at each.         *)
(* mirrorEvent is one step (module Mirror opens it up), and generation      *)
(* bumps are in module EdgeCache.                                          *)
(*                                                                         *)
(* A definition named X_bug is X with a plausible bug, used by no action.  *)
(***************************************************************************)
EXTENDS Integers, FiniteSets

CONSTANTS
    Req,       \* requests in flight at once
    Mixes,     \* sets of kinds of request that clients send together
    Key,       \* public keys
    Author,    \* the key whose posts are modelled, and whose npub page is visited
    Visitor,   \* [Token -> key]: who is signed in where nobody logs in
    Nonce,     \* values of a login challenge
    Token,     \* session tokens
    Handle,    \* handles that are not reserved
    Slot,      \* d tags of posts
    NoOne,     \* no key, no handle, no nonce, no token, no slot
    Metered,   \* kinds of request whose limit can be reached here
    Max,       \* that limit
    Window,    \* its window, in seconds
    NonceTtl,  \* NONCE_TTL_SECONDS
    Cap,       \* MAX_POSTS_PER_PUBKEY
    MirrorCap, \* NPUB_MIRROR_CAP
    MaxEvent,  \* bound on the author's events on relays
    End        \* bound on the clock

Kind == {"challenge", "login", "logout", "publish", "claim", "visit"}

ASSUME AccountsAssumption ==
    /\ Mixes \subseteq SUBSET Kind
    /\ Author \in Key
    /\ Visitor \in [Token -> Key]
    /\ NoOne \notin Key \cup Nonce \cup Token \cup Handle \cup Slot
    /\ Metered \subseteq Kind
    /\ {Max, Window, NonceTtl, Cap, MirrorCap, MaxEvent, End} \subseteq Nat \ {0}
    /\ IsFiniteSet(Req) /\ IsFiniteSet(Slot)

VARIABLES
    mix,      \* the kinds of request of this behaviour
    now,      \* Date.now() in seconds
    rate,     \* the row of rate_limits of each kind, one client
    granted,  \* [kind -> [window start -> requests let through]] (history)
    back,     \* [kind -> times its row went back to an older window] (history)
    nonces,   \* login_nonces: [Nonce -> expires_at, 0 when there is no row]
    issued,   \* nonces handed out (history)
    session,  \* KV sess:<token>: [Token -> state and key]
    opener,   \* [Token -> nonce that was consumed for it] (history)
    handle,   \* users.handle: [Key -> Handle or NoOne]
    blocked,  \* users.blocked: keys
    post,     \* the author's rows of kind 30023: [Slot -> state]
    cool,     \* the npub-cooldown marker is in the Cache API
    relays,   \* what the relays hold: the author's events 1..relays, oldest first
    mirrored, \* those stored
    excused,  \* a visit broke off, or relays ran ahead of the visits (history)
    req       \* [Req -> state of a request]

npub == <<cool, relays, mirrored, excused>>
limiter == <<rate, granted, back>>
login == <<nonces, issued, session, opener>>
vars == <<mix, now, limiter, login, handle, blocked, post, npub, req>>

Idle == [kind |-> NoOne, step |-> "idle", at |-> 0, key |-> NoOne, name |-> NoOne,
         erase |-> FALSE, fresh |-> FALSE,
         has |-> FALSE, page |-> {}, credits |-> 0, until |-> 0]

Init ==
    /\ mix \in Mixes
    /\ now = 1
    /\ rate = [k \in Metered |-> [count |-> 0, window |-> 0]]
    /\ granted = [k \in Metered |-> [s \in 0..End |-> 0]]
    /\ back = [k \in Metered |-> 0]
    /\ nonces = [n \in Nonce |-> 0]
    /\ issued = {}
    /\ session = [t \in Token |-> IF mix \cap {"publish", "claim"} = {}
                                  THEN [is |-> "unused", key |-> NoOne]
                                  ELSE [is |-> "live", key |-> Visitor[t]]]
    /\ opener = [t \in Token |-> NoOne]
    /\ handle = [k \in Key |-> NoOne]
    /\ blocked = {}
    /\ post = [d \in Slot |-> "none"]
    /\ cool = FALSE
    /\ relays \in IF "visit" \in mix THEN 0..MaxEvent ELSE {0}
    /\ mirrored = {}
    /\ excused = FALSE
    /\ req = [r \in Req |-> Idle]

Set(r, state) == req' = [req EXCEPT ![r] = state]

Goto(r, step) == Set(r, [req[r] EXCEPT !.step = step])

-----------------------------------------------------------------------------
(***************************************************************************)
(* Requests arrive.  `now' is read before the first statement is sent.     *)
(***************************************************************************)
Ask(r, kind, request) ==
    /\ req[r].step = "idle"
    /\ kind \in mix
    /\ Set(r, [request EXCEPT !.kind = kind, !.step = "meter", !.at = now])
    /\ UNCHANGED <<mix, now, limiter, login, handle, blocked, post, npub>>

AskChallenge(r) == Ask(r, "challenge", Idle)

\* Anyone may post an event for a challenge, and post it again; key is the one
\* whose signature it bears, if any.
AskLogin(r) ==
    \E n \in issued, k \in Key \cup {NoOne} :
        Ask(r, "login", [Idle EXCEPT !.name = n, !.key = k])

\* The session middleware.  KV shows an ended session for a while.
SignedIn(t) == session[t].is \in {"live", "ended"}

AskLogout(r) ==
    \E t \in Token :
        /\ SignedIn(t)
        /\ Ask(r, "logout", [Idle EXCEPT !.name = t])

\* The key of the event is the key of the session, or the answer is 403.
AskPublish(r) ==
    \E t \in Token, d \in Slot, erase \in BOOLEAN :
        /\ SignedIn(t)
        /\ session[t].key = Author
        /\ Ask(r, "publish", [Idle EXCEPT !.key = Author, !.name = d,
                                          !.erase = erase])

AskClaim(r) ==
    \E t \in Token, h \in Handle :
        /\ SignedIn(t)
        /\ Ask(r, "claim", [Idle EXCEPT !.key = session[t].key, !.name = h])

-----------------------------------------------------------------------------
(***************************************************************************)
(* checkRateLimit: one upsert, with a window computed before it.           *)
(***************************************************************************)
After(kind) == CASE kind = "challenge" -> "issue"
                 [] kind = "login"     -> "consume"
                 [] kind = "logout"    -> "end"
                 [] kind = "visit"     -> "mark"
                 [] OTHER              -> "gate"

\* POST /login reads the clock again.
Proceed(r) == [req[r] EXCEPT !.step = After(req[r].kind),
                             !.at = IF req[r].kind = "login" THEN now ELSE 0]

WindowStart(t) == t - (t % Window)

\* A new window starts its count with the next request.
Counted_bug(row, start) ==
    IF row.window # start THEN 0
    ELSE IF row.count > Max THEN row.count ELSE row.count + 1

\* A count past the limit stays past it; counts above Max + 1 are not told apart.
Counted(row, start) ==
    IF row.window # start THEN 1
    ELSE IF row.count > Max THEN row.count ELSE row.count + 1

Meter(r) ==
    LET k == req[r].kind
        start == WindowStart(req[r].at)
        count == Counted(rate[k], start)
    IN
    /\ req[r].step = "meter"
    /\ k \in Metered
    /\ rate' = [rate EXCEPT ![k] = [count |-> count, window |-> start]]
    /\ back' = [back EXCEPT ![k] = IF start < rate[k].window THEN @ + 1 ELSE @]
    /\ IF count <= Max
       THEN /\ granted' = [granted EXCEPT ![k][start] = @ + 1]
            /\ Set(r, Proceed(r))
       ELSE /\ Set(r, Idle)
            /\ UNCHANGED granted
    /\ UNCHANGED <<mix, now, login, handle, blocked, post, npub>>

\* A limit that is out of reach here.
Pass(r) ==
    /\ req[r].step = "meter"
    /\ req[r].kind \notin Metered
    /\ Set(r, Proceed(r))
    /\ UNCHANGED <<mix, now, limiter, login, handle, blocked, post, npub>>

-----------------------------------------------------------------------------
(***************************************************************************)
(* GET /login/challenge, POST /login, POST /logout.                        *)
(***************************************************************************)
\* The batch: sweep what has expired, insert a nonce never seen before.
Issue(r) ==
    /\ req[r].step = "issue"
    /\ \E n \in Nonce \ issued :
          /\ nonces' = [m \in Nonce |-> IF m = n THEN now + NonceTtl
                                        ELSE IF nonces[m] < now THEN 0
                                        ELSE nonces[m]]
          /\ issued' = issued \cup {n}
    /\ Set(r, Idle)
    /\ UNCHANGED <<mix, now, limiter, session, opener, handle, blocked, post, npub>>

\* The row is looked up, and deleted by a later sweep.
Consumed_bug(n) == nonces

\* DELETE ... RETURNING.
Consumed(n) == [nonces EXCEPT ![n] = 0]

\* The pubkey field is taken at its word.
Verified_bug(r) == TRUE

\* verifyEvent, after the nonce is gone.
Verified(r) == req[r].key # NoOne

Consume(r) ==
    LET n == req[r].name IN
    /\ req[r].step = "consume"
    /\ IF nonces[n] > req[r].at
       THEN /\ nonces' = Consumed(n)
            /\ IF Verified(r) THEN Goto(r, "open") ELSE Set(r, Idle)
       ELSE /\ Set(r, Idle)
            /\ UNCHANGED nonces
    /\ UNCHANGED <<mix, now, limiter, issued, session, opener, handle, blocked, post, npub>>

\* createSession: a token never used before.
Open(r) ==
    /\ req[r].step = "open"
    /\ \E t \in Token :
          /\ session[t].is = "unused"
          /\ session' = [session EXCEPT ![t] = [is |-> "live", key |-> req[r].key]]
          /\ opener' = [opener EXCEPT ![t] = req[r].name]
    /\ Set(r, Idle)
    /\ UNCHANGED <<mix, now, limiter, nonces, issued, handle, blocked, post, npub>>

\* destroySession; the cookie goes too.
Logout(r) ==
    /\ req[r].step = "end"
    /\ session' = [session EXCEPT ![req[r].name].is = "ended"]
    /\ Set(r, Idle)
    /\ UNCHANGED <<mix, now, limiter, nonces, issued, opener, handle, blocked, post, npub>>

-----------------------------------------------------------------------------
(***************************************************************************)
(* POST /api/mirror and POST /dashboard/claim.                             *)
(***************************************************************************)
Refused(r) == req[r].key \in blocked

\* getUserByPubkey.
Gate(r) ==
    /\ req[r].step = "gate"
    /\ IF Refused(r) THEN Set(r, Idle)
       ELSE Goto(r, IF req[r].kind = "claim" THEN "upsert"
                    ELSE IF req[r].erase THEN "mirror" ELSE "slot")
    /\ UNCHANGED <<mix, now, limiter, login, handle, blocked, post, npub>>

\* Is the d tag there already, deleted or not?
ReadSlot(r) ==
    /\ req[r].step = "slot"
    /\ Goto(r, IF post[req[r].name] = "none" THEN "count" ELSE "mirror")
    /\ UNCHANGED <<mix, now, limiter, login, handle, blocked, post, npub>>

\* Rows that are not deleted.
Live == {d \in Slot : post[d] \in {"live", "revived"}}

\* Off by one.
Full_bug == Cardinality(Live) > Cap

Full == Cardinality(Live) >= Cap

CountPosts(r) ==
    /\ req[r].step = "count"
    /\ IF Full THEN Set(r, Idle)
               ELSE Set(r, [req[r] EXCEPT !.step = "mirror", !.fresh = TRUE])
    /\ UNCHANGED <<mix, now, limiter, login, handle, blocked, post, npub>>

\* What an event newer than the row makes of it; a tombstone comes back to life.
Mirrored(state, erase) ==
    CASE erase /\ state = "none"  -> "none"
      [] erase                    -> "tomb"
      [] ~ erase /\ state = "none" -> "live"
      [] ~ erase /\ state = "tomb" -> "revived"
      [] OTHER                    -> state

MirrorEvent(r) ==
    /\ req[r].step = "mirror"
    /\ post' = [post EXCEPT ![req[r].name] = Mirrored(@, req[r].erase)]
    /\ Set(r, Idle)
    /\ UNCHANGED <<mix, now, limiter, login, handle, blocked, npub>>

\* ON CONFLICT(pubkey) DO UPDATE without its WHERE.
MayClaim_bug(k, h) == \A j \in Key \ {k} : handle[j] # h

\* UNIQUE(handle), and WHERE users.handle IS NULL.
MayClaim(k, h) == handle[k] = NoOne /\ \A j \in Key : handle[j] # h

\* claimHandle: "taken" and "already_claimed" change nothing.
Claim(r) ==
    LET k == req[r].key
        h == req[r].name
    IN
    /\ req[r].step = "upsert"
    /\ handle' = IF MayClaim(k, h) THEN [handle EXCEPT ![k] = h] ELSE handle
    /\ Set(r, Idle)
    /\ UNCHANGED <<mix, now, limiter, login, blocked, post, npub>>

-----------------------------------------------------------------------------
(***************************************************************************)
(* GET /npub1...: the page of a key that need not have an account.  Once   *)
(* there are posts the mirroring goes on after the answer (waitUntil).     *)
(***************************************************************************)
\* A blocked key has no page, a claimed one has a subdomain.
HasNpubPage(k) == k \notin blocked /\ handle[k] = NoOne

AskVisit(r) ==
    /\ req[r].step = "idle"
    /\ "visit" \in mix
    /\ HasNpubPage(Author)
    /\ Set(r, [Idle EXCEPT !.kind = "visit", !.key = Author, !.step = "look"])
    /\ UNCHANGED <<mix, now, limiter, login, handle, blocked, post, npub>>

ReadData(r) ==
    /\ req[r].step = "look"
    /\ Set(r, [req[r] EXCEPT !.step = "cool", !.has = mirrored # {}])
    /\ UNCHANGED <<mix, now, limiter, login, handle, blocked, post, npub>>

\* inCooldown: the marker, or none when the Cache API fails.  The clock of the
\* mirror budget is read next.
CheckCooldown(r) ==
    /\ req[r].step = "cool"
    /\ \E seen \in {cool, FALSE} :
          Set(r, IF seen THEN Idle ELSE [req[r] EXCEPT !.step = "meter", !.at = now])
    /\ UNCHANGED <<mix, now, limiter, login, handle, blocked, post, npub>>

\* markCooldown: best effort.
MarkCooldown(r) ==
    /\ req[r].step = "mark"
    /\ cool' \in {TRUE, cool}
    /\ Set(r, [req[r] EXCEPT !.step = "fetch", !.credits = MirrorCap])
    /\ UNCHANGED <<mix, now, limiter, login, handle, blocked, post, relays, mirrored, excused>>

\* What NIP-01 makes of a limit, of the events up to a time.
Page(until) == {e \in 1..until : e > until - MirrorCap}

\* The relays answer, or are all dead.
FetchPage(r) ==
    LET until == IF req[r].until = 0 THEN relays ELSE req[r].until IN
    /\ req[r].step = "fetch"
    /\ \E page \in {Page(until), {}} :
          Set(r, [req[r] EXCEPT !.step = "lookup", !.page = page])
    /\ UNCHANGED <<mix, now, limiter, login, handle, blocked, post, npub>>

\* storedEventIds
LookUp(r) ==
    /\ req[r].step = "lookup"
    /\ Set(r, [req[r] EXCEPT !.step = "store", !.page = @ \ mirrored])
    /\ UNCHANGED <<mix, now, limiter, login, handle, blocked, post, npub>>

\* Oldest first, as the refresh goes.
Foremost_bug(S) == CHOOSE e \in S : \A d \in S : e <= d

\* mirrorNewest goes through a page newest first.
Foremost(S) == CHOOSE e \in S : \A d \in S : d <= e

MirrorOne(r) ==
    LET e == Foremost(req[r].page) IN
    /\ req[r].step = "store"
    /\ req[r].page # {}
    /\ req[r].credits > 0
    /\ mirrored' = mirrored \cup {e}
    /\ Set(r, [req[r] EXCEPT !.page = @ \ {e}, !.credits = @ - 1])
    /\ UNCHANGED <<mix, now, limiter, login, handle, blocked, post, cool, relays, excused>>

\* oldestCreatedAt
Oldest == CHOOSE e \in mirrored : \A d \in mirrored : e <= d

\* With credits left, a backfill goes on below the oldest event stored.
EndPage(r) ==
    /\ req[r].step = "store"
    /\ req[r].page = {} \/ req[r].credits = 0
    /\ Set(r, IF req[r].has /\ req[r].until = 0 /\ req[r].credits > 0
              THEN [req[r] EXCEPT !.step = "fetch", !.until = Oldest] ELSE Idle)
    /\ UNCHANGED <<mix, now, limiter, login, handle, blocked, post, npub>>

\* Events stored, or fetched by a visit that is not through.
Known == mirrored \cup UNION {req[r].page : r \in Req}

\* The author publishes elsewhere.
Publish ==
    /\ "visit" \in mix
    /\ relays < MaxEvent
    /\ relays' = relays + 1
    /\ excused' = (excused \/ (Known # {} /\ Known \cap Page(relays') = {}))
    /\ UNCHANGED <<mix, now, limiter, login, handle, blocked, post, cool, mirrored, req>>

\* The TTL of the marker, or an eviction.
Thaw ==
    /\ cool
    /\ cool' = FALSE
    /\ UNCHANGED <<mix, now, limiter, login, handle, blocked, post, relays, mirrored, excused,
                   req>>

-----------------------------------------------------------------------------
\* A D1 or KV call rejects, or the isolate goes: the limiter fails closed, the
\* rest answers 500.
Fail(r) ==
    /\ req[r].step # "idle"
    /\ Set(r, Idle)
    /\ excused' = (excused \/ req[r].page # {})
    /\ UNCHANGED <<mix, now, limiter, login, handle, blocked, post, cool, relays, mirrored>>

-----------------------------------------------------------------------------
(***************************************************************************)
(* POST /admin/block and /unblock, KV, and the clock.                      *)
(***************************************************************************)
\* The keys whose block the requests of this behaviour notice.
Concerned == IF "claim" \in mix THEN Key
             ELSE {k \in {Author} : mix \cap {"publish", "visit"} # {}}

Block(k) ==
    /\ k \in Concerned \ blocked
    /\ blocked' = blocked \cup {k}
    /\ UNCHANGED <<mix, now, limiter, login, handle, post, npub, req>>

Unblock(k) ==
    /\ k \in blocked
    /\ blocked' = blocked \ {k}
    /\ UNCHANGED <<mix, now, limiter, login, handle, post, npub, req>>

\* The delete reaches every location, or the TTL runs out.
Vanish(t) ==
    /\ SignedIn(t)
    /\ session' = [session EXCEPT ![t].is = "gone"]
    /\ UNCHANGED <<mix, now, limiter, nonces, issued, opener, handle, blocked, post, npub, req>>

\* Time matters to logins and to the limits that can be reached.
Tick ==
    /\ mix \cap (Metered \cup {"login"}) # {}
    /\ now < End
    /\ now' = now + 1
    /\ UNCHANGED <<mix, limiter, login, handle, blocked, post, npub, req>>

Arrive(r) ==
    \/ AskChallenge(r) \/ AskLogin(r) \/ AskLogout(r) \/ AskPublish(r)
    \/ AskClaim(r) \/ AskVisit(r)

ReqStep(r) ==
    \/ Meter(r) \/ Pass(r)
    \/ Issue(r) \/ Consume(r) \/ Open(r) \/ Logout(r)
    \/ Gate(r) \/ ReadSlot(r) \/ CountPosts(r) \/ MirrorEvent(r) \/ Claim(r)
    \/ ReadData(r) \/ CheckCooldown(r) \/ MarkCooldown(r)
    \/ FetchPage(r) \/ LookUp(r) \/ MirrorOne(r) \/ EndPage(r)
    \/ Fail(r)

Next ==
    \/ \E r \in Req : Arrive(r) \/ ReqStep(r)
    \/ \E k \in Key : Block(k) \/ Unblock(k)
    \/ \E t \in Token : Vanish(t)
    \/ Publish \/ Thaw \/ Tick

Spec == Init /\ [][Next]_vars

-----------------------------------------------------------------------------
(***************************************************************************)
(* Properties.                                                             *)
(***************************************************************************)
Request ==
    [kind : Kind \cup {NoOne},
     step : {"idle", "meter", "issue", "consume", "open", "end", "gate", "slot",
             "count", "mirror", "upsert", "look", "cool", "mark", "fetch",
             "lookup", "store"},
     at : 0..End, key : Key \cup {NoOne},
     name : Nonce \cup Token \cup Handle \cup Slot \cup {NoOne},
     erase : BOOLEAN, fresh : BOOLEAN,
     has : BOOLEAN, page : SUBSET (1..MaxEvent), credits : 0..MirrorCap, until : 0..MaxEvent]

\* The shape of the state: a session that was opened has the key whose signature
\* opened it.
TypeOK ==
    /\ mix \in Mixes
    /\ now \in 1..End
    /\ rate \in [Metered -> [count : 0..Max + 1, window : 0..End]]
    /\ granted \in [Metered -> [0..End -> Nat]]
    /\ back \in [Metered -> Nat]
    /\ nonces \in [Nonce -> 0..End + NonceTtl]
    /\ issued \subseteq Nonce
    /\ session \in [Token -> [is : {"unused"}, key : {NoOne}]
                              \cup [is : {"live", "ended", "gone"}, key : Key]]
    /\ opener \in [Token -> Nonce \cup {NoOne}]
    /\ handle \in [Key -> Handle \cup {NoOne}]
    /\ blocked \subseteq Key
    /\ post \in [Slot -> {"none", "live", "revived", "tomb"}]
    /\ cool \in BOOLEAN
    /\ relays \in 0..MaxEvent
    /\ mirrored \subseteq 1..relays
    /\ req \in [Req -> Request]

\* "Of N concurrent POSTs presenting the same signed event exactly ONE gets the row
\* back" (auth.ts:186-194): a nonce opens one session at most.
NonceOpensOne ==
    \A s, t \in Token : s # t /\ opener[s] # NoOne => opener[s] # opener[t]

\* A window lets at most Max requests through for every time the row was at it:
\* once, and once more for each late request that took the row back to an older
\* window (ratelimit.ts:20-36).
LimitBounded ==
    \A k \in Metered, s \in 0..End : granted[k][s] <= Max * (1 + back[k])

\* Requests that have found room for a new post.
Admitted == {r \in Req : req[r].step = "mirror" /\ req[r].fresh}

\* The posts created through the API and those about to be exceed the cap by the
\* requests that can overlap, less one; deleted posts that were published again
\* are not counted (api.ts:122-147).
PostCapBounded ==
    Cardinality({d \in Slot : post[d] = "live"}) + Cardinality(Admitted)
        <= Cap + Cardinality(Req) - 1

\* A key keeps the first handle it claims, and no other key has it, however claims
\* overlap (users.ts:132-143).
ClaimsFinal ==
    [][\A k \in Key : handle'[k] # handle[k] =>
          /\ handle[k] = NoOne
          /\ \A j \in Key \ {k} : handle'[j] # handle'[k]]_vars

\* "Later visits serve from D1 and progressively backfill older events" (main.ts:246-247):
\* while the author publishes no more than a page between two visits that reach the
\* relays, and none breaks off, an event newer than the oldest one stored is stored,
\* in the hands of a visit, or on the page the next one fetches.
NoGap ==
    ~excused /\ mirrored # {} =>
        \A e \in (Oldest + 1)..relays :
            \/ e \in mirrored
            \/ e \in Page(relays)
            \/ \E r \in Req : e \in req[r].page

\* "Absolute per-pubkey cap on the number of live kind-30023 slots one key may create
\* through the editor" (api.ts:29-30).
LivePostsCapped == Cardinality(Live) <= Cap
=============================================================================
