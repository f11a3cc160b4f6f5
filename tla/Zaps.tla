-------------------------------- MODULE Zaps --------------------------------
(***************************************************************************)
(* refreshZapsForUser (src/src/services/zaps.ts): the zap receipts of one   *)
(* author.  Resolve the key of the author's wallet through the lnurl_cache, *)
(* fetch one page of receipts since the watermark                          *)
(* users.settings.$.sync.zap_since, verify and count them oldest first      *)
(* under a cap, bump the generation, move the watermark.                    *)
(*                                                                         *)
(* `held' is what the author's relays hold between them.  A relay that is   *)
(* dead, slow, or receives a receipt just after it answered makes an answer *)
(* that lacks receipts; RelaysFail allows it.  Several runs may overlap: a  *)
(* cron tick does not wait for the one before it.                           *)
(*                                                                         *)
(* A definition named X_bug is X with a plausible bug, used by no action.  *)
(***************************************************************************)
EXTENDS Integers, FiniteSets, FiniteSetsExt

CONSTANTS
    Cron,        \* runs of refreshZapsForUser that may overlap
    Receipt,     \* kind 9735 events that name the author in a p tag
    Post,        \* addresses of the author's posts
    MaxKey,      \* keys of the wallet: 1..MaxKey, each replacing the last
    At,          \* [Receipt -> Nat]: created_at
    PostOf,      \* [Receipt -> Post]: the a tag
    KeyOf,       \* [Receipt -> key]: the pubkey field
    Amount,      \* [Receipt -> Nat]: msat of the invoice
    Parses,      \* receipts parseZapReceipt accepts
    Signed,      \* receipts with a valid signature
    Limit,       \* ZAP_FETCH_LIMIT
    VerifyCap,   \* ZAP_VERIFY_CAP
    Ttl,         \* LNURL_CACHE_TTL_SECONDS
    Skew,        \* ZAP_MAX_FUTURE_SKEW_SECONDS
    End,         \* bound on the clock
    RelaysFail,  \* TRUE when an answer may lack receipts
    MaxFaults    \* bound on LNURL, D1 and KV calls that fail

Key == 1..MaxKey

\* "no key": nostrPubkey null, and no hold.
None == 0

ASSUME ZapsAssumption ==
    /\ {MaxKey, Limit, VerifyCap, Ttl, End} \subseteq Nat \ {0}
    /\ {Skew, MaxFaults} \subseteq Nat
    /\ At \in [Receipt -> Nat \ {0}]
    /\ PostOf \in [Receipt -> Post]
    /\ KeyOf \in [Receipt -> Key]
    /\ Amount \in [Receipt -> Nat]
    /\ IsFiniteSet(Receipt)
    /\ Parses \subseteq Receipt /\ Signed \subseteq Receipt
    /\ RelaysFail \in BOOLEAN

VARIABLES
    now,        \* Date.now() in seconds
    wallet,     \* the key the LNURL endpoint advertises
    lnurlCache, \* the row of lnurl_cache
    held,       \* receipts on the author's relays
    posts,      \* posts stored and not deleted
    zaps,       \* receipt ids in the zaps table
    totals,     \* [Post -> the row of zap_totals]
    since,      \* users.settings.$.sync.zap_since
    unbumped,   \* receipts counted since the last bump
    run,        \* [Cron -> state of a run]
    faults

world == <<now, wallet, held, posts>>
vars == <<world, lnurlCache, zaps, totals, since, unbumped, run, faults>>

Idle == [step |-> "idle", from |-> 0, asked |-> 0, key |-> None, batch |-> {},
         known |-> {}, closed |-> FALSE, horizon |-> 0, credits |-> 0, mark |-> 0,
         hold |-> None, fresh |-> FALSE]

\* parseZapReceipt and bolt11Msat: the tags name a post of the author's, the
\* request inside agrees with them and with the amount of the invoice.
Countable(r) == r \in Parses

Junk == {r \in Receipt : ~Countable(r) \/ r \notin Signed}

\* Anybody may publish an event that names the author: relays hold some already.
Init ==
    /\ now = 1
    /\ wallet = 1
    /\ lnurlCache = [key |-> None, checkedAt |-> None]
    /\ held \in {{}, Junk}
    /\ posts \in SUBSET Post
    /\ zaps = {}
    /\ totals = [p \in Post |-> [msat |-> 0, count |-> 0]]
    /\ since = 0
    /\ unbumped = {}
    /\ run = [w \in Cron |-> Idle]
    /\ faults = 0

Set(w, state) == run' = [run EXCEPT ![w] = state]

-----------------------------------------------------------------------------
(***************************************************************************)
(* resolveNostrPubkey.  The row of users was read when the tick started.    *)
(***************************************************************************)
Begin(w) ==
    /\ run[w].step = "idle"
    /\ Set(w, [Idle EXCEPT !.step = "resolve", !.from = since])
    /\ UNCHANGED <<world, lnurlCache, zaps, totals, since, unbumped, faults>>

\* No key: nothing to bind a receipt to, the run is over.
Resolved(R, key) ==
    IF key = None THEN Idle ELSE [R EXCEPT !.step = "fetch", !.key = key]

Cached == lnurlCache.checkedAt # None /\ now - lnurlCache.checkedAt < Ttl

ReadCache(w) ==
    /\ run[w].step = "resolve"
    /\ LET R == [run[w] EXCEPT !.asked = now] IN
       Set(w, IF Cached THEN Resolved(R, lnurlCache.key)
                        ELSE [R EXCEPT !.step = "lnurl"])
    /\ UNCHANGED <<world, lnurlCache, zaps, totals, since, unbumped, faults>>

\* lnurlFetcher: any failure is "no key".
AskEndpoint(w) ==
    /\ run[w].step = "lnurl"
    /\ \/ /\ Set(w, [run[w] EXCEPT !.step = "save", !.key = wallet])
          /\ UNCHANGED faults
       \/ /\ faults < MaxFaults
          /\ faults' = faults + 1
          /\ Set(w, [run[w] EXCEPT !.step = "save"])
    /\ UNCHANGED <<world, lnurlCache, zaps, totals, since, unbumped>>

\* The row keeps the time from before the endpoint was asked.
SaveKey(w) ==
    /\ run[w].step = "save"
    /\ lnurlCache' = [key |-> run[w].key, checkedAt |-> run[w].asked]
    /\ Set(w, Resolved(run[w], run[w].key))
    /\ UNCHANGED <<world, zaps, totals, since, unbumped, faults>>

-----------------------------------------------------------------------------
(***************************************************************************)
(* The page of receipts.                                                   *)
(***************************************************************************)
Matching(w) == {r \in held : run[w].from > 0 => At[r] >= run[w].from}

\* What NIP-01 makes of a limit: the newest matches, ties broken at will.
Newest(M) ==
    {S \in SUBSET M :
        /\ Cardinality(S) = IF Cardinality(M) < Limit THEN Cardinality(M)
                                                      ELSE Limit
        /\ \A r \in S, q \in M \ S : At[r] >= At[q]}

Answers(M) == IF RelaysFail THEN UNION {SUBSET S : S \in Newest(M)}
                            ELSE Newest(M)

\* A full page may have dropped older receipts.
ClosesWindow(S) == Cardinality(S) < Limit

\* Only events with the wallet's key are candidates.
Fetch(w) ==
    /\ run[w].step = "fetch"
    /\ \E S \in Answers(Matching(w)) :
          Set(w, [run[w] EXCEPT !.step = "lookup",
                                !.batch = {r \in S : KeyOf[r] = run[w].key},
                                !.closed = ClosesWindow(S)])
    /\ UNCHANGED <<world, lnurlCache, zaps, totals, since, unbumped, faults>>

Latest(a, T) == CHOOSE t \in T \cup {a} : \A u \in T \cup {a} : u <= t

\* storedZapIds, once for the whole run.  What is ahead of the clock, or is not
\* stored and does not parse, is passed over.
Lookup(w) ==
    LET plausible == {r \in run[w].batch : At[r] <= now + Skew}
        known == plausible \cap zaps
    IN
    /\ run[w].step = "lookup"
    /\ Set(w, [run[w] EXCEPT !.step = "count",
                             !.batch = known \cup {r \in plausible : Countable(r)},
                             !.known = known,
                             !.horizon = now + Skew,
                             !.credits = VerifyCap,
                             !.mark = run[w].from])
    /\ UNCHANGED <<world, lnurlCache, zaps, totals, since, unbumped, faults>>

-----------------------------------------------------------------------------
(***************************************************************************)
(* The loop over the candidates, oldest first.  A hash breaks a tie, and    *)
(* may be any order.                                                       *)
(***************************************************************************)
Turn(w) == {r \in run[w].batch : \A q \in run[w].batch : At[r] <= At[q]}

\* verifyEvent.
Verified(r) == r \in Signed

\* A forgery ends the loop.
Forged_bug(R) == [R EXCEPT !.batch = {}]

\* A forgery has cost a credit and nothing else.
Forged(R) == R

\* A deferred receipt is passed over like a forged one.
Held_bug(R, r) == R

\* The oldest receipt passed over that may still count.
Held(R, r) ==
    [R EXCEPT !.hold = IF @ = None \/ At[r] < @ THEN At[r] ELSE @]

Rollup(S) == [msat  |-> MapThenSumSet(LAMBDA r : Amount[r], S),
              count |-> Cardinality(S)]

\* The receipt is added to the total instead.
StoreReceipt_bug(r) ==
    LET p == PostOf[r] IN
    /\ zaps' = zaps \cup {r}
    /\ totals' = [totals EXCEPT ![p] = [msat  |-> @.msat + Amount[r],
                                        count |-> @.count + 1]]

\* INSERT OR IGNORE and the rollup of its address from all rows, in one batch.
StoreReceipt(r) ==
    LET p == PostOf[r] IN
    /\ zaps' = zaps \cup {r}
    /\ totals' = [totals EXCEPT ![p] = Rollup({q \in zaps' : PostOf[q] = p})]

\* What storedZapIds found was verified when it was stored.
PassStored(w) ==
    /\ run[w].step = "count"
    /\ \E r \in Turn(w) \cap run[w].known :
          Set(w, [run[w] EXCEPT !.batch = @ \ {r}, !.mark = Latest(@, {At[r]})])
    /\ UNCHANGED <<world, lnurlCache, zaps, totals, since, unbumped, faults>>

\* Verification, the look at the post and the batch, for a credit.  That the
\* post may go between the look and the batch leaves what a later delete leaves.
CountNext(w) ==
    /\ run[w].step = "count"
    /\ run[w].credits > 0
    /\ \E r \in Turn(w) \ run[w].known :
          LET R == [run[w] EXCEPT !.credits = @ - 1, !.batch = @ \ {r}] IN
          \/ /\ ~ Verified(r)
             /\ Set(w, Forged(R))
             /\ UNCHANGED <<zaps, totals, unbumped>>
          \/ /\ Verified(r)
             /\ PostOf[r] \notin posts
             /\ Set(w, Held(R, r))
             /\ UNCHANGED <<zaps, totals, unbumped>>
          \/ /\ Verified(r)
             /\ PostOf[r] \in posts
             /\ StoreReceipt(r)
             /\ unbumped' = unbumped \cup (zaps' \ zaps)
             /\ Set(w, [R EXCEPT !.fresh = TRUE, !.mark = Latest(@, {At[r]})])
    /\ UNCHANGED <<world, lnurlCache, since, faults>>

\* The first of the candidates the cap leaves over holds the watermark.
Rest(w) == IF run[w].batch = {} THEN run[w]
           ELSE Held(run[w], CHOOSE r \in Turn(w) : TRUE)

EndLoop(w) ==
    /\ run[w].step = "count"
    /\ \/ run[w].batch = {}
       \/ run[w].credits = 0 /\ Turn(w) \ run[w].known # {}
    /\ Set(w, [Rest(w) EXCEPT !.step = IF run[w].fresh THEN "bump" ELSE "write",
                              !.batch = {}, !.known = {}, !.credits = 0])
    /\ UNCHANGED <<world, lnurlCache, zaps, totals, since, unbumped, faults>>

Bump(w) ==
    /\ run[w].step = "bump"
    /\ unbumped' = {}
    /\ Set(w, [run[w] EXCEPT !.step = "write", !.fresh = FALSE])
    /\ UNCHANGED <<world, lnurlCache, zaps, totals, since, faults>>

Lower(a, b) == IF a < b THEN a ELSE b

Watermark(R) ==
    Lower(R.horizon, IF R.hold = None THEN R.mark ELSE Lower(R.mark, R.hold - 1))

WriteSince(w) ==
    /\ run[w].step = "write"
    /\ since' = IF run[w].closed /\ Watermark(run[w]) > run[w].from
                THEN Watermark(run[w]) ELSE since
    /\ Set(w, Idle)
    /\ UNCHANGED <<world, lnurlCache, zaps, totals, unbumped, faults>>

\* D1 or KV rejects, or the isolate goes: the tick goes on to the next user.
Fail(w) ==
    /\ run[w].step \notin {"idle", "lnurl", "fetch"}
    /\ faults < MaxFaults
    /\ faults' = faults + 1
    /\ Set(w, Idle)
    /\ UNCHANGED <<world, lnurlCache, zaps, totals, since, unbumped>>

RunStep(w) ==
    \/ Begin(w) \/ ReadCache(w) \/ AskEndpoint(w) \/ SaveKey(w)
    \/ Fetch(w) \/ Lookup(w) \/ PassStored(w) \/ CountNext(w) \/ EndLoop(w)
    \/ Bump(w) \/ WriteSince(w)

-----------------------------------------------------------------------------
(***************************************************************************)
(* The wallet, the relays, the mirror and the clock.                       *)
(***************************************************************************)
tables == <<lnurlCache, zaps, totals, since, unbumped, run, faults>>

Tick ==
    /\ now < End
    /\ now' = now + 1
    /\ UNCHANGED <<tables, wallet, held, posts>>

\* A wallet signs with the key it advertises, and relays have the receipt in
\* the second it is signed.
Mint(r) ==
    /\ r \in Signed \cap Parses
    /\ KeyOf[r] = wallet
    /\ At[r] = now
    /\ held' = held \cup {r}
    /\ UNCHANGED <<tables, now, wallet, posts>>

Rotate ==
    /\ wallet < MaxKey
    /\ wallet' = wallet + 1
    /\ UNCHANGED <<tables, now, held, posts>>

\* refreshUser, the relay or the editor mirrors the post; a delete hides it.
Land(p) ==
    /\ posts' = posts \cup {p}
    /\ UNCHANGED <<tables, now, wallet, held>>

Remove(p) ==
    /\ posts' = posts \ {p}
    /\ UNCHANGED <<tables, now, wallet, held>>

Next ==
    \/ \E w \in Cron : RunStep(w) \/ Fail(w)
    \/ Tick
    \/ \E r \in Receipt : Mint(r)
    \/ Rotate
    \/ \E p \in Post : Land(p) \/ Remove(p)

Spec == Init /\ [][Next]_vars

\* The cron keeps firing and the runtime settles every await; faults are
\* finite.
FairSpec == Spec /\ \A w \in Cron : WF_vars(RunStep(w))

-----------------------------------------------------------------------------
(***************************************************************************)
(* Properties.                                                             *)
(***************************************************************************)
RunState ==
    [step : {"idle", "resolve", "lnurl", "save", "fetch", "lookup", "count",
             "bump", "write"},
     from : Nat, asked : 0..End, key : Key \cup {None}, batch : SUBSET Receipt,
     known : SUBSET Receipt, closed : BOOLEAN, horizon : Nat,
     credits : 0..VerifyCap, mark : Nat, hold : Nat, fresh : BOOLEAN]

\* "Totals are rebuilt idempotently per address so a crash between statements can
\* never leave drifted counts" (zaps.ts:15-16), nor can two runs that both found a
\* receipt missing before either stored it.
RollupExact ==
    \A p \in Post : totals[p] = Rollup({r \in zaps : PostOf[r] = p})

\* The state has its shape, receipts are counted only if they parse and their
\* signature was verified (zaps.ts:5-14), and the totals are exact.
TypeOK ==
    /\ now \in 1..End
    /\ wallet \in Key
    /\ lnurlCache \in [key : Key \cup {None}, checkedAt : 0..End]
    /\ held \subseteq Receipt
    /\ posts \subseteq Post
    /\ zaps \subseteq Signed \cap Parses
    /\ totals \in [Post -> [msat : Nat, count : Nat]]
    /\ since \in Nat
    /\ unbumped \subseteq zaps
    /\ run \in [Cron -> RunState]
    /\ faults \in 0..MaxFaults
    /\ RollupExact

\* The watermark never passes a receipt of the wallet's key that relays hold and
\* that is not counted: not one deferred until its post lands, not one over the
\* cap, not one cut off by the limit, and not one minted while runs still bound
\* receipts to the key before it (zaps.ts:430-448).
NothingSkipped ==
    \A r \in held \cap Signed \cap Parses :
        KeyOf[r] = wallet /\ At[r] < since => r \in zaps

\* Candidates older than r that take a credit in every run and are never counted.
Stuck(r) ==
    {q \in (held \cap Parses) \ zaps :
        /\ KeyOf[q] = KeyOf[r]
        /\ At[q] <= At[r]
        /\ (q \notin Signed \/ PostOf[q] \notin posts)}

\* Receipts at least as new as r.
Above(r) == {q \in held : At[q] >= At[r]}

\* r is among what one page and one cap can reach.
Reachable(r) ==
    /\ r \in held
    /\ PostOf[r] \in posts
    /\ lnurlCache.key = KeyOf[r]
    /\ Cardinality(Above(r)) <= Limit
    /\ Cardinality(Stuck(r)) < VerifyCap

\* A deferred receipt "still counts once the post lands via refresh" (zaps.ts:443),
\* and so does one the cap left over (zaps.ts:517-524): what stays within reach of
\* the page and of the cap is counted in the end.
ReachableAreCounted ==
    \A r \in Signed \cap Parses : <>[]Reachable(r) => <>(r \in zaps)
=============================================================================
