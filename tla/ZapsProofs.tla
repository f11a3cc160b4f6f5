----------------------------- MODULE ZapsProofs ------------------------------
(***************************************************************************)
(* Theorems about Zaps, for any runs, receipts, posts, keys and limits.     *)
(***************************************************************************)
EXTENDS Zaps, FiniteSetTheorems, WellFoundedInduction, TLAPS

-----------------------------------------------------------------------------
(***************************************************************************)
(* Ends of sets of numbers.                                                *)
(***************************************************************************)
LEMMA LeastExists ==
    ASSUME NEW S \in SUBSET Nat, S # {}
    PROVE  \E e \in S : \A d \in S : e <= d
<1> DEFINE R == OpToRel(<, Nat)
<1>1. PICK e \in S : \A d \in S : <<d, e>> \notin R
  <2> HIDE DEF R
  <2> QED  BY NatLessThanWellFounded, WFMin DEF R
<1>2. \A d \in S : ~(d < e)
  BY <1>1 DEF OpToRel
<1> QED
  BY <1>2

LEMMA GreatestExists ==
    ASSUME NEW n \in Nat, NEW S \in SUBSET (0..n), S # {}
    PROVE  \E e \in S : \A d \in S : d <= e
<1> DEFINE T == {m \in 0..n : n - m \in S}
<1>1. T \in SUBSET Nat /\ T # {}
  <2>1. PICK e \in S : TRUE
    OBVIOUS
  <2>2. n - e \in 0..n /\ n - (n - e) = e
    BY <2>1
  <2>3. n - e \in T
    BY <2>1, <2>2
  <2>4. T \in SUBSET Nat
    OBVIOUS
  <2> QED
    BY <2>3, <2>4
<1>2. PICK m \in T : \A k \in T : m <= k
  BY <1>1, LeastExists
<1>3. n - m \in S /\ \A d \in S : n - d \in T
  OBVIOUS
<1> QED
  BY <1>2, <1>3

-----------------------------------------------------------------------------
(***************************************************************************)
(* Sums.  The fold is a recursive function on the subsets of a set; that it *)
(* exists, and that its values are numbers, is shown for a least size at    *)
(* which it would fail.                                                    *)
(***************************************************************************)
Pick(s) == CHOOSE r \in s : TRUE

Sums(f, S) ==
    f = [s \in SUBSET S |-> IF s = {} THEN 0 ELSE Amount[Pick(s)] + f[s \ {Pick(s)}]]

\* The subsets of S with at most n elements.
Small(S, n) == {s \in SUBSET S : Cardinality(s) <= n}

SumsTo(f, S, n) ==
    /\ f \in [Small(S, n) -> Nat]
    /\ \A s \in Small(S, n) :
          f[s] = IF s = {} THEN 0 ELSE Amount[Pick(s)] + f[s \ {Pick(s)}]

LEMMA PickRest ==
    ASSUME NEW S \in SUBSET Receipt, NEW s \in SUBSET S, s # {}
    PROVE  /\ Pick(s) \in s /\ Amount[Pick(s)] \in Nat
           /\ s \ {Pick(s)} \in SUBSET S
           /\ Cardinality(s) \in Nat \ {0}
           /\ Cardinality(s \ {Pick(s)}) = Cardinality(s) - 1
<1>1. Pick(s) \in s
  BY DEF Pick
<1>2. IsFiniteSet(s)
  BY ZapsAssumption, FS_Subset
<1>3. Cardinality(s) \in Nat /\ Cardinality(s) # 0
  BY <1>2, FS_CardinalityType, FS_EmptySet
<1>4. Cardinality(s \ {Pick(s)}) = Cardinality(s) - 1
  BY <1>1, <1>2, FS_RemoveElement
<1> QED
  BY <1>1, <1>3, <1>4, ZapsAssumption

LEMMA SumsToNext ==
    ASSUME NEW S \in SUBSET Receipt, NEW n \in Nat, NEW f, SumsTo(f, S, n)
    PROVE  \E g : SumsTo(g, S, n + 1)
<1> DEFINE g == [s \in Small(S, n + 1) |->
                    IF s = {} THEN 0 ELSE Amount[Pick(s)] + f[s \ {Pick(s)}]]
<1>1. ASSUME NEW s \in Small(S, n + 1), s # {}
      PROVE  s \ {Pick(s)} \in Small(S, n) /\ Amount[Pick(s)] \in Nat
  BY <1>1, PickRest DEF Small
<1>2. \A s \in Small(S, n) : s \in Small(S, n + 1)
  <2>1. \A s \in Small(S, n) : Cardinality(s) \in Nat
    BY ZapsAssumption, FS_Subset, FS_CardinalityType DEF Small
  <2> QED
    BY <2>1 DEF Small
<1>3. g \in [Small(S, n + 1) -> Nat]
  BY <1>1 DEF SumsTo
<1>4. \A s \in Small(S, n) : g[s] = f[s]
  BY <1>2 DEF SumsTo
<1>5. \A s \in Small(S, n + 1) :
         g[s] = IF s = {} THEN 0 ELSE Amount[Pick(s)] + g[s \ {Pick(s)}]
  BY <1>1, <1>4
<1> QED
  BY <1>3, <1>5 DEF SumsTo

LEMMA SumsToAll ==
    ASSUME NEW S \in SUBSET Receipt
    PROVE  \A n \in Nat : \E f : SumsTo(f, S, n)
<1> DEFINE Bad == {n \in Nat : ~ \E f : SumsTo(f, S, n)}
<1>1. SUFFICES ASSUME Bad # {}
               PROVE  FALSE
  OBVIOUS
<1>2. PICK n \in Bad : \A k \in Bad : n <= k
  BY <1>1, LeastExists
<1>3. CASE n = 0
  <2> DEFINE f == [s \in Small(S, 0) |-> 0]
  <2>1. ASSUME NEW s \in Small(S, 0), s # {}
        PROVE  FALSE
    <3>1. s \in SUBSET S /\ Cardinality(s) <= 0
      BY DEF Small
    <3>2. Cardinality(s) \in Nat \ {0}
      BY <2>1, <3>1, PickRest
    <3> QED
      BY <3>1, <3>2
  <2>2. SumsTo(f, S, 0)
    BY <2>1 DEF SumsTo
  <2> QED
    BY <1>2, <1>3, <2>2
<1>4. CASE n # 0
  <2>1. n - 1 \in Nat /\ n - 1 \notin Bad /\ (n - 1) + 1 = n
    BY <1>2, <1>4
  <2>2. PICK f : SumsTo(f, S, n - 1)
    BY <2>1
  <2>3. \E g : SumsTo(g, S, (n - 1) + 1)
    BY <2>1, <2>2, SumsToNext
  <2> QED
    BY <1>2, <2>1, <2>3
<1> QED
  BY <1>3, <1>4

LEMMA SumsExists ==
    ASSUME NEW S \in SUBSET Receipt
    PROVE  \E f : Sums(f, S)
<1>1. IsFiniteSet(S) /\ Cardinality(S) \in Nat
  BY ZapsAssumption, FS_Subset, FS_CardinalityType
<1>2. Small(S, Cardinality(S)) = SUBSET S
  BY <1>1, FS_Subset DEF Small
<1>3. PICK f : SumsTo(f, S, Cardinality(S))
  BY <1>1, SumsToAll
<1> QED
  BY <1>2, <1>3 DEF SumsTo, Sums

LEMMA SumsNatural ==
    ASSUME NEW S \in SUBSET Receipt, NEW f, Sums(f, S)
    PROVE  \A s \in SUBSET S : f[s] \in Nat
<1> DEFINE Bad == {n \in Nat : \E s \in SUBSET S : Cardinality(s) = n /\ f[s] \notin Nat}
<1>1. SUFFICES ASSUME NEW s \in SUBSET S, f[s] \notin Nat
               PROVE  FALSE
  OBVIOUS
<1>2. Cardinality(s) \in Bad
  BY <1>1, ZapsAssumption, FS_Subset, FS_CardinalityType
<1>3. PICK n \in Bad : \A k \in Bad : n <= k
  BY <1>2, LeastExists
<1>4. PICK t \in SUBSET S : Cardinality(t) = n /\ f[t] \notin Nat
  BY <1>3
<1>5. f[t] = IF t = {} THEN 0 ELSE Amount[Pick(t)] + f[t \ {Pick(t)}]
  BY DEF Sums
<1>6. t # {}
  BY <1>4, <1>5
<1>7. /\ Amount[Pick(t)] \in Nat /\ t \ {Pick(t)} \in SUBSET S /\ n \in Nat \ {0}
      /\ Cardinality(t \ {Pick(t)}) = n - 1
  BY <1>4, <1>6, PickRest
<1>8. f[t \ {Pick(t)}] \notin Nat
  BY <1>4, <1>5, <1>6, <1>7
<1>9. n - 1 \in Bad
  BY <1>7, <1>8
<1> QED
  BY <1>3, <1>7, <1>9

LEMMA SumIsFold ==
    ASSUME NEW S
    PROVE  MapThenSumSet(LAMBDA r : Amount[r], S) = (CHOOSE f : Sums(f, S))[S]
BY DEF MapThenSumSet, MapThenFoldSet, Sums, Pick

\* A rollup row holds numbers, and that of no receipts holds zeros.
LEMMA RollupType ==
    ASSUME NEW S \in SUBSET Receipt
    PROVE  Rollup(S) \in [msat : Nat, count : Nat]
<1>1. MapThenSumSet(LAMBDA r : Amount[r], S) \in Nat
  <2>1. PICK f : f = CHOOSE g : Sums(g, S)
    OBVIOUS
  <2>2. Sums(f, S)
    BY <2>1, SumsExists
  <2>3. f[S] \in Nat
    BY <2>2, SumsNatural
  <2> QED
    BY <2>1, <2>3, SumIsFold
<1>2. Cardinality(S) \in Nat
  BY ZapsAssumption, FS_Subset, FS_CardinalityType
<1> QED
  BY <1>1, <1>2 DEF Rollup

LEMMA RollupOfNone == Rollup({}) = [msat |-> 0, count |-> 0]
<1>1. PICK f : f = CHOOSE g : Sums(g, {})
  OBVIOUS
<1>2. Sums(f, {})
  BY <1>1, SumsExists
<1>3. f[{}] = 0
  BY <1>2 DEF Sums
<1>4. MapThenSumSet(LAMBDA r : Amount[r], {}) = 0
  BY <1>1, <1>3, SumIsFold
<1> QED
  BY <1>4, FS_EmptySet DEF Rollup

-----------------------------------------------------------------------------
(***************************************************************************)
(* What each step of a run does.                                           *)
(***************************************************************************)
\* Only what parses is a candidate, and what a run found stored is stored.
CandidatesParse ==
    \A w \in Cron : run[w].step = "count" =>
        run[w].batch \subseteq Parses /\ run[w].known \subseteq zaps

TypeInv == TypeOK /\ CandidatesParse

\* The steps of a run that counts receipts, and those after its lookup.
Fetched == {"lookup", "count", "bump", "write"}

Others(w) == \A v \in Cron \ {w} : run'[v] = run[v]

LEMMA SetDoes ==
    ASSUME TypeInv, NEW w \in Cron, NEW new \in RunState, Set(w, new)
    PROVE  run' \in [Cron -> RunState] /\ run'[w] = new /\ Others(w)
BY DEF TypeInv, TypeOK, Set, Others

LEMMA Constants ==
    /\ MaxKey \in Nat \ {0} /\ Limit \in Nat \ {0} /\ VerifyCap \in Nat \ {0}
    /\ Ttl \in Nat \ {0} /\ End \in Nat \ {0} /\ Skew \in Nat /\ MaxFaults \in Nat
    /\ \A r \in Receipt : At[r] \in Nat \ {0} /\ KeyOf[r] \in Key /\ PostOf[r] \in Post
BY ZapsAssumption

LEMMA IdleType ==
    /\ Idle \in RunState /\ Idle.step = "idle" /\ Idle.from = 0 /\ Idle.key = None
    /\ Idle.batch = {} /\ ~Idle.closed
BY Constants DEF Idle, RunState, None

LEMMA RunType ==
    ASSUME TypeInv, NEW w \in Cron
    PROVE  run[w] \in RunState
BY DEF TypeInv, TypeOK

\* Latest is a maximum.
LEMMA LatestIs ==
    ASSUME NEW a \in Nat, NEW n \in Nat, NEW T \in SUBSET (0..n)
    PROVE  /\ Latest(a, T) \in Nat /\ a <= Latest(a, T)
           /\ Latest(a, T) = a \/ Latest(a, T) \in T
           /\ \A t \in T : t <= Latest(a, T)
<1> DEFINE m == IF a <= n THEN n ELSE a
           S == T \cup {a}
<1>1. m \in Nat /\ S \in SUBSET (0..m) /\ S # {}
  OBVIOUS
<1>2. \E t \in S : \A u \in S : u <= t
  BY <1>1, GreatestExists
<1>3. Latest(a, T) \in S /\ \A u \in S : u <= Latest(a, T)
  BY <1>2 DEF Latest
<1>4. Latest(a, T) \in Nat
  <2>1. \A u \in S : u \in Nat
    OBVIOUS
  <2> HIDE DEF S
  <2> QED
    BY <1>3, <2>1
<1>5. a <= Latest(a, T) /\ \A t \in T : t <= Latest(a, T)
  BY <1>3
<1>6. Latest(a, T) = a \/ Latest(a, T) \in T
  BY <1>3
<1> QED
  BY <1>4, <1>5, <1>6

LEMMA TurnTaken ==
    ASSUME TypeInv, NEW w \in Cron, run[w].batch # {}
    PROVE  \E r \in run[w].batch : r \in Turn(w)
<1> DEFINE S == {At[r] : r \in run[w].batch}
<1>1. run[w].batch \subseteq Receipt
  BY RunType DEF RunState
<1>2. S \in SUBSET Nat /\ S # {}
  BY <1>1, Constants
<1>3. PICK e \in S : \A d \in S : e <= d
  BY <1>2, LeastExists
<1>4. PICK r \in run[w].batch : At[r] = e
  OBVIOUS
<1>5. \A q \in run[w].batch : At[r] <= At[q]
  BY <1>3, <1>4
<1> QED
  BY <1>5 DEF Turn

LEMMA ResolvedType ==
    ASSUME NEW R \in RunState, NEW key \in Key \cup {None}
    PROVE  LET new == Resolved(R, key) IN
           /\ new \in RunState
           /\ new = Idle \/ (new.step = "fetch" /\ new.key = key /\ new.from = R.from)
<1> DEFINE new == [R EXCEPT !.step = "fetch", !.key = key]
<1>1. new \in RunState /\ new.step = "fetch" /\ new.key = key /\ new.from = R.from
  BY DEF RunState
<1> HIDE DEF new
<1>2. Resolved(R, key) = IF key = None THEN Idle ELSE new
  BY DEF Resolved, new
<1> QED
  BY <1>1, <1>2, IdleType

\* Before its page a run is bound to no receipts.
Unfetched(w) == run'[w] = Idle \/ run'[w].step \in {"resolve", "lnurl", "save", "fetch"}

LEMMA BeginDoes ==
    ASSUME TypeInv, NEW w \in Cron, Begin(w)
    PROVE  /\ run' \in [Cron -> RunState] /\ Others(w) /\ run'[w].step = "resolve"
           /\ run'[w].from = since /\ run'[w].key = None
           /\ UNCHANGED <<world, lnurlCache, zaps, totals, since, unbumped, faults>>
<1> DEFINE new == [Idle EXCEPT !.step = "resolve", !.from = since]
<1>1. /\ new \in RunState /\ new.step = "resolve" /\ new.from = since
      /\ new.key = None
  BY IdleType DEF RunState, TypeInv, TypeOK
<1>2. Set(w, new) /\ UNCHANGED <<world, lnurlCache, zaps, totals, since, unbumped, faults>>
  BY DEF Begin
<1> HIDE DEF new
<1> QED
  BY <1>1, <1>2, SetDoes

LEMMA ReadCacheDoes ==
    ASSUME TypeInv, NEW w \in Cron, ReadCache(w)
    PROVE  /\ run' \in [Cron -> RunState] /\ Others(w) /\ Unfetched(w)
           /\ run'[w] = Idle \/ run'[w].from = run[w].from
           /\ run'[w].key \in {run[w].key, lnurlCache.key, None}
           /\ UNCHANGED <<world, lnurlCache, zaps, totals, since, unbumped, faults>>
<1> DEFINE R == [run[w] EXCEPT !.asked = now]
           L == [R EXCEPT !.step = "lnurl"]
           new == IF Cached THEN Resolved(R, lnurlCache.key) ELSE L
<1>1. R \in RunState /\ R.from = run[w].from /\ R.key = run[w].key
  BY RunType DEF RunState, TypeInv, TypeOK
<1> HIDE DEF R
<1>2. L \in RunState /\ L.step = "lnurl" /\ L.from = run[w].from /\ L.key = run[w].key
  BY <1>1 DEF RunState
<1>3. lnurlCache.key \in Key \cup {None}
  BY DEF TypeInv, TypeOK
<1>4. Set(w, new) /\ UNCHANGED <<world, lnurlCache, zaps, totals, since, unbumped, faults>>
  BY DEF ReadCache, R
<1> HIDE DEF L
<1>5. /\ new \in RunState /\ (new = Idle \/ new.step \in {"lnurl", "fetch"})
      /\ new = Idle \/ new.from = run[w].from
      /\ new.key \in {run[w].key, lnurlCache.key, None}
  BY <1>1, <1>2, <1>3, ResolvedType, IdleType
<1> HIDE DEF new
<1> QED
  BY <1>4, <1>5, SetDoes DEF Unfetched

LEMMA AskEndpointDoes ==
    ASSUME TypeInv, NEW w \in Cron, AskEndpoint(w)
    PROVE  /\ run' \in [Cron -> RunState] /\ Others(w) /\ Unfetched(w)
           /\ run'[w].from = run[w].from
           /\ run'[w].key \in {run[w].key, wallet}
           /\ faults' \in 0..MaxFaults
           /\ UNCHANGED <<world, lnurlCache, zaps, totals, since, unbumped>>
<1> DEFINE A == [run[w] EXCEPT !.step = "save", !.key = wallet]
           B == [run[w] EXCEPT !.step = "save"]
<1>1. A \in RunState /\ A.step = "save" /\ A.from = run[w].from /\ A.key = wallet
  BY RunType, ZenonT(60) DEF RunState, TypeInv, TypeOK
<1>2. B \in RunState /\ B.step = "save" /\ B.from = run[w].from /\ B.key = run[w].key
  BY RunType DEF RunState, TypeInv, TypeOK
<1>3. /\ Set(w, A) \/ Set(w, B)
      /\ UNCHANGED <<world, lnurlCache, zaps, totals, since, unbumped>>
  BY DEF AskEndpoint
<1>4. faults' \in 0..MaxFaults
  BY Constants DEF AskEndpoint, TypeInv, TypeOK
<1> HIDE DEF A, B
<1> QED
  BY <1>1, <1>2, <1>3, <1>4, SetDoes DEF Unfetched

LEMMA SaveKeyDoes ==
    ASSUME TypeInv, NEW w \in Cron, SaveKey(w)
    PROVE  /\ run' \in [Cron -> RunState] /\ Others(w) /\ Unfetched(w)
           /\ run'[w] = Idle \/ run'[w].from = run[w].from
           /\ run'[w].key \in {run[w].key, None}
           /\ lnurlCache' = [key |-> run[w].key, checkedAt |-> run[w].asked]
           /\ UNCHANGED <<world, zaps, totals, since, unbumped, faults>>
<1> DEFINE new == Resolved(run[w], run[w].key)
<1>1. run[w] \in RunState /\ run[w].key \in Key \cup {None}
  BY RunType DEF RunState
<1>2. /\ Set(w, new) /\ lnurlCache' = [key |-> run[w].key, checkedAt |-> run[w].asked]
      /\ UNCHANGED <<world, zaps, totals, since, unbumped, faults>>
  BY DEF SaveKey
<1>3. /\ new \in RunState
      /\ new = Idle \/ (new.step = "fetch" /\ new.key = run[w].key /\ new.from = run[w].from)
  BY <1>1, ResolvedType
<1> HIDE DEF new
<1> QED
  BY <1>2, <1>3, SetDoes, IdleType DEF Unfetched

LEMMA AnswersFrom ==
    ASSUME NEW M \in SUBSET Receipt, NEW S \in Answers(M)
    PROVE  S \subseteq M /\ (~RelaysFail /\ ClosesWindow(S) => S = M)
<1>1. \A T \in Newest(M) : T \subseteq M
  BY DEF Newest
<1>2. S \subseteq M
  BY <1>1 DEF Answers
<1>3. ASSUME ~RelaysFail, ClosesWindow(S)
      PROVE  S = M
  <2>1. /\ Cardinality(S) < Limit
        /\ Cardinality(S) = IF Cardinality(M) < Limit THEN Cardinality(M) ELSE Limit
    BY <1>3 DEF Answers, Newest, ClosesWindow
  <2>2. Cardinality(S) = Cardinality(M)
    BY <2>1, Constants
  <2>3. IsFiniteSet(M)
    BY ZapsAssumption, FS_Subset
  <2> QED
    BY <1>2, <2>2, <2>3, FS_Subset
<1> QED
  BY <1>2, <1>3

LEMMA FetchDoes ==
    ASSUME TypeInv, NEW w \in Cron, Fetch(w)
    PROVE  /\ run' \in [Cron -> RunState] /\ Others(w) /\ run'[w].step = "lookup"
           /\ run'[w].from = run[w].from /\ run'[w].key = run[w].key
           /\ \A r \in run'[w].batch : r \in held /\ KeyOf[r] = run[w].key
           /\ ~RelaysFail /\ run'[w].closed =>
                \A r \in Matching(w) : KeyOf[r] = run[w].key => r \in run'[w].batch
           /\ UNCHANGED <<world, lnurlCache, zaps, totals, since, unbumped, faults>>
<1>1. PICK S \in Answers(Matching(w)) :
         Set(w, [run[w] EXCEPT !.step = "lookup",
                               !.batch = {r \in S : KeyOf[r] = run[w].key},
                               !.closed = ClosesWindow(S)])
  BY DEF Fetch
<1>2. UNCHANGED <<world, lnurlCache, zaps, totals, since, unbumped, faults>>
  BY DEF Fetch
<1>3. Matching(w) \in SUBSET Receipt /\ Matching(w) \subseteq held
  BY DEF Matching, TypeInv, TypeOK
<1>4. S \subseteq Matching(w) /\ (~RelaysFail /\ ClosesWindow(S) => S = Matching(w))
  BY <1>3, AnswersFrom
<1> DEFINE B == {r \in S : KeyOf[r] = run[w].key}
           shut == ClosesWindow(S)
           new == [run[w] EXCEPT !.step = "lookup", !.batch = B, !.closed = shut]
<1>5. B \in SUBSET Receipt /\ shut \in BOOLEAN
  BY <1>3, <1>4 DEF ClosesWindow
<1>6. /\ \A r \in B : r \in held /\ KeyOf[r] = run[w].key
      /\ ~RelaysFail /\ shut => \A r \in Matching(w) : KeyOf[r] = run[w].key => r \in B
  BY <1>3, <1>4
<1>7. Set(w, new)
  BY <1>1
<1> HIDE DEF B, shut
<1>8. /\ new \in RunState /\ new.step = "lookup" /\ new.from = run[w].from
      /\ new.key = run[w].key /\ new.batch = B /\ new.closed = shut
  BY <1>5, RunType DEF RunState
<1> HIDE DEF new
<1> QED
  BY <1>2, <1>6, <1>7, <1>8, SetDoes

LEMMA LookupDoes ==
    ASSUME TypeInv, NEW w \in Cron, Lookup(w)
    PROVE  /\ run[w].step = "lookup"
           /\ run' \in [Cron -> RunState] /\ Others(w) /\ run'[w].step = "count"
           /\ run'[w].from = run[w].from /\ run'[w].key = run[w].key
           /\ run'[w].closed = run[w].closed
           /\ run'[w].batch \subseteq run[w].batch \cap Parses
           /\ run'[w].known \subseteq zaps
           /\ \A r \in run[w].batch : At[r] <= now /\ r \in Parses => r \in run'[w].batch
           /\ run'[w].mark = run[w].from
           /\ UNCHANGED <<world, lnurlCache, zaps, totals, since, unbumped, faults>>
<1> DEFINE plausible == {r \in run[w].batch : At[r] <= now + Skew}
           known == plausible \cap zaps
           B == known \cup {r \in plausible : Countable(r)}
           h == now + Skew
           new == [run[w] EXCEPT !.step = "count", !.batch = B, !.known = known,
                                 !.horizon = h, !.credits = VerifyCap,
                                 !.mark = run[w].from]
<1>1. run[w] \in RunState /\ run[w].batch \subseteq Receipt /\ run[w].from \in Nat
  BY RunType DEF RunState
<1>2. h \in Nat /\ now \in Nat /\ h >= now
  BY Constants DEF TypeInv, TypeOK
<1>3. known \in SUBSET Receipt /\ known \subseteq zaps /\ known \subseteq Parses
  BY <1>1 DEF TypeInv, TypeOK
<1>4. /\ B \in SUBSET Receipt /\ B \subseteq run[w].batch \cap Parses
      /\ \A r \in run[w].batch : At[r] <= now /\ r \in Parses => r \in B
  BY <1>1, <1>2, <1>3, Constants DEF Countable
<1>5. /\ Set(w, new) /\ run[w].step = "lookup"
      /\ UNCHANGED <<world, lnurlCache, zaps, totals, since, unbumped, faults>>
  BY DEF Lookup
<1> HIDE DEF B, known, h
<1>6. VerifyCap \in 0..VerifyCap
  BY Constants
<1>7. /\ new \in RunState /\ new.step = "count" /\ new.from = run[w].from
      /\ new.key = run[w].key /\ new.closed = run[w].closed /\ new.batch = B
      /\ new.known = known /\ new.mark = run[w].from
  BY <1>1, <1>2, <1>3, <1>4, <1>6 DEF RunState
<1> HIDE DEF new
<1> QED
  BY <1>3, <1>4, <1>5, <1>7, SetDoes

\* A receipt passed over holds the watermark.
LEMMA HeldType ==
    ASSUME NEW R \in RunState, NEW r \in Receipt
    PROVE  LET new == Held(R, r) IN
           /\ new \in RunState
           /\ new.step = R.step /\ new.from = R.from /\ new.key = R.key
           /\ new.batch = R.batch /\ new.closed = R.closed /\ new.mark = R.mark
           /\ new.fresh = R.fresh /\ new.known = R.known
           /\ new.hold # None /\ new.hold <= At[r]
           /\ R.hold # None => new.hold <= R.hold
<1> DEFINE l == IF R.hold = None \/ At[r] < R.hold THEN At[r] ELSE R.hold
           new == [R EXCEPT !.hold = l]
<1>1. l \in Nat \ {0} /\ l <= At[r] /\ (R.hold # None => l <= R.hold)
  BY Constants DEF RunState, None
<1>2. Held(R, r) = new
  BY DEF Held
<1> HIDE DEF l
<1>3. /\ new \in RunState
      /\ new.step = R.step /\ new.from = R.from /\ new.key = R.key
      /\ new.batch = R.batch /\ new.closed = R.closed /\ new.mark = R.mark
      /\ new.fresh = R.fresh /\ new.known = R.known /\ new.hold = l
  BY <1>1 DEF RunState
<1> HIDE DEF new
<1> QED
  BY <1>1, <1>2, <1>3 DEF None

\* What the loop leaves as it was.
LoopKeeps(w) ==
    /\ run'[w].from = run[w].from /\ run'[w].key = run[w].key
    /\ run'[w].closed = run[w].closed

LEMMA StoreDoes ==
    ASSUME TypeInv, NEW r \in Receipt, r \in Parses, Verified(r), StoreReceipt(r)
    PROVE  /\ zaps' = zaps \cup {r} /\ zaps' \subseteq Signed \cap Parses
           /\ totals' \in [Post -> [msat : Nat, count : Nat]] /\ RollupExact'
<1> DEFINE p == PostOf[r]
           row(q) == Rollup({s \in zaps' : PostOf[s] = q})
<1>1. zaps' = zaps \cup {r} /\ totals' = [totals EXCEPT ![p] = row(p)] /\ p \in Post
  BY Constants DEF StoreReceipt
<1>2. zaps' \subseteq Signed \cap Parses /\ zaps' \subseteq Receipt
  BY <1>1, ZapsAssumption DEF Verified, TypeInv, TypeOK
<1>3. row(p) \in [msat : Nat, count : Nat]
  <2>1. {s \in zaps' : PostOf[s] = p} \in SUBSET Receipt
    BY <1>2
  <2> QED
    BY <2>1, RollupType
<1>4. ASSUME NEW q \in Post \ {p}
      PROVE  row(q) = Rollup({s \in zaps : PostOf[s] = q})
  <2>1. {s \in zaps' : PostOf[s] = q} = {s \in zaps : PostOf[s] = q}
    BY <1>1
  <2> QED
    BY <2>1
<1>5. \A q \in Post : totals[q] = Rollup({s \in zaps : PostOf[s] = q})
  BY DEF TypeInv, TypeOK, RollupExact
<1>6. totals \in [Post -> [msat : Nat, count : Nat]]
  BY DEF TypeInv, TypeOK
<1>7. \A q \in Post : totals'[q] = IF q = p THEN row(p) ELSE totals[q]
  BY <1>1, <1>6
<1>8. \A q \in Post : totals'[q] = row(q)
  BY <1>4, <1>5, <1>7
<1>9. totals' \in [Post -> [msat : Nat, count : Nat]]
  <2> HIDE DEF row, p
  <2> QED
    BY <1>1, <1>3, <1>6
<1> QED
  BY <1>1, <1>2, <1>8, <1>9 DEF RollupExact

LEMMA MarkMoves ==
    ASSUME TypeInv, NEW w \in Cron, NEW r \in Receipt
    PROVE  LET m == Latest(run[w].mark, {At[r]}) IN
           m \in Nat /\ (m = run[w].mark \/ m = At[r])
<1>1. /\ At[r] \in Nat /\ run[w].mark \in Nat
      /\ {At[r]} \in SUBSET (0..At[r])
  BY RunType, Constants DEF RunState
<1>2. \A n \in Nat : {At[r]} \in SUBSET (0..n) =>
         /\ Latest(run[w].mark, {At[r]}) \in Nat
         /\ \/ Latest(run[w].mark, {At[r]}) = run[w].mark
            \/ Latest(run[w].mark, {At[r]}) \in {At[r]}
  BY <1>1, LatestIs
<1> QED
  BY <1>1, <1>2

\* A candidate that was stored before leaves the batch.
LEMMA PassStoredDoes ==
    ASSUME TypeInv, NEW w \in Cron, PassStored(w)
    PROVE  \E r \in Turn(w) :
             /\ run[w].step = "count" /\ run'[w].step = "count" /\ r \in zaps
             /\ run' \in [Cron -> RunState] /\ Others(w) /\ LoopKeeps(w)
             /\ run'[w].batch = run[w].batch \ {r} /\ run'[w].known = run[w].known
             /\ run'[w].hold = run[w].hold
             /\ run'[w].mark = run[w].mark \/ run'[w].mark = At[r]
             /\ UNCHANGED <<world, lnurlCache, zaps, totals, since, unbumped, faults>>
<1>1. PICK r \in Turn(w) \cap run[w].known :
         Set(w, [run[w] EXCEPT !.batch = @ \ {r}, !.mark = Latest(@, {At[r]})])
  BY DEF PassStored
<1>2. /\ run[w].step = "count"
      /\ UNCHANGED <<world, lnurlCache, zaps, totals, since, unbumped, faults>>
  BY DEF PassStored
<1> DEFINE B == run[w].batch \ {r}
           m == Latest(run[w].mark, {At[r]})
           new == [run[w] EXCEPT !.batch = B, !.mark = m]
<1>3. r \in Receipt /\ r \in zaps /\ B \in SUBSET Receipt
  BY <1>1, <1>2, RunType DEF Turn, RunState, TypeInv, CandidatesParse
<1>4. m \in Nat /\ (m = run[w].mark \/ m = At[r])
  BY <1>3, MarkMoves
<1>5. Set(w, new)
  BY <1>1
<1> HIDE DEF B, m
<1>6. /\ new \in RunState /\ new.step = run[w].step /\ new.batch = B
      /\ new.known = run[w].known /\ new.from = run[w].from /\ new.key = run[w].key
      /\ new.closed = run[w].closed /\ new.mark = m /\ new.hold = run[w].hold
  BY <1>3, <1>4, RunType DEF RunState
<1> HIDE DEF new
<1> QED
  BY <1>1, <1>2, <1>3, <1>4, <1>5, <1>6, SetDoes DEF LoopKeeps, B

\* One candidate leaves the batch: forged, held, or counted.
LEMMA CountNextDoes ==
    ASSUME TypeInv, NEW w \in Cron, CountNext(w)
    PROVE  \E r \in Turn(w) :
             /\ run[w].step = "count" /\ run'[w].step = "count"
             /\ run' \in [Cron -> RunState] /\ Others(w) /\ LoopKeeps(w)
             /\ run'[w].batch = run[w].batch \ {r} /\ run'[w].known = run[w].known
             /\ \/ /\ r \notin Signed
                   /\ run'[w].hold = run[w].hold /\ run'[w].mark = run[w].mark
                   /\ UNCHANGED <<zaps, totals, unbumped>>
                \/ /\ run'[w].hold # None /\ run'[w].hold <= At[r]
                   /\ run[w].hold # None => run'[w].hold <= run[w].hold
                   /\ run'[w].mark = run[w].mark
                   /\ UNCHANGED <<zaps, totals, unbumped>>
                \/ /\ Verified(r) /\ StoreReceipt(r) /\ unbumped' = unbumped \cup (zaps' \ zaps)
                   /\ run'[w].hold = run[w].hold
                   /\ run'[w].mark = run[w].mark \/ run'[w].mark = At[r]
             /\ UNCHANGED <<world, lnurlCache, since, faults>>
<1> DEFINE R(r) == [run[w] EXCEPT !.credits = @ - 1, !.batch = @ \ {r}]
<1>1. PICK r \in Turn(w) :
         \/ /\ ~ Verified(r)
            /\ Set(w, Forged(R(r)))
            /\ UNCHANGED <<zaps, totals, unbumped>>
         \/ /\ Set(w, Held(R(r), r))
            /\ UNCHANGED <<zaps, totals, unbumped>>
         \/ /\ Verified(r)
            /\ StoreReceipt(r)
            /\ unbumped' = unbumped \cup (zaps' \ zaps)
            /\ Set(w, [R(r) EXCEPT !.fresh = TRUE, !.mark = Latest(@, {At[r]})])
  BY DEF CountNext
<1>2. /\ run[w].step = "count" /\ run[w].credits > 0
      /\ UNCHANGED <<world, lnurlCache, since, faults>>
  BY DEF CountNext
<1> DEFINE Q == R(r)
           m == Latest(run[w].mark, {At[r]})
           S == [Q EXCEPT !.fresh = TRUE, !.mark = m]
<1>3. r \in Receipt /\ At[r] \in Nat
  BY RunType, Constants DEF Turn, RunState
<1>4. /\ Q \in RunState /\ Q.step = "count" /\ Q.batch = run[w].batch \ {r}
      /\ Q.from = run[w].from /\ Q.key = run[w].key /\ Q.closed = run[w].closed
      /\ Q.mark = run[w].mark /\ Q.hold = run[w].hold /\ Q.fresh = run[w].fresh
      /\ Q.known = run[w].known
  <2>1. run[w].credits - 1 \in 0..VerifyCap /\ run[w].batch \ {r} \in SUBSET Receipt
    BY <1>2, RunType, Constants DEF RunState
  <2> QED
    BY <1>2, <2>1, RunType DEF RunState
<1>5. m \in Nat /\ (m = run[w].mark \/ m = At[r])
  BY <1>3, MarkMoves
<1>6. /\ [Q EXCEPT !.fresh = TRUE, !.mark = Latest(@, {At[r]})] = S
  BY <1>4
<1> DEFINE H == Held(Q, r)
<1>7. \/ ~Verified(r) /\ Set(w, Q) /\ UNCHANGED <<zaps, totals, unbumped>>
      \/ Set(w, H) /\ UNCHANGED <<zaps, totals, unbumped>>
      \/ /\ Verified(r) /\ StoreReceipt(r) /\ unbumped' = unbumped \cup (zaps' \ zaps)
         /\ Set(w, S)
  BY <1>1, <1>6 DEF Forged
<1> HIDE DEF Q, m
<1>8. /\ S \in RunState /\ S.step = "count" /\ S.batch = Q.batch
      /\ S.from = Q.from /\ S.key = Q.key /\ S.closed = Q.closed
      /\ S.mark = m /\ S.hold = Q.hold /\ S.known = Q.known
  BY <1>4, <1>5 DEF RunState
<1>9. /\ H \in RunState /\ H.step = "count" /\ H.batch = Q.batch
      /\ H.from = Q.from /\ H.key = Q.key /\ H.closed = Q.closed
      /\ H.mark = Q.mark /\ H.known = Q.known /\ H.hold # None /\ H.hold <= At[r]
      /\ Q.hold # None => H.hold <= Q.hold
  BY <1>3, <1>4, HeldType
<1> HIDE DEF S, H
<1>10. CASE ~Verified(r) /\ Set(w, Q) /\ UNCHANGED <<zaps, totals, unbumped>>
  BY <1>2, <1>4, <1>10, SetDoes DEF Verified, LoopKeeps
<1>11. CASE Set(w, H) /\ UNCHANGED <<zaps, totals, unbumped>>
  BY <1>2, <1>4, <1>9, <1>11, SetDoes DEF LoopKeeps
<1>12. CASE /\ Verified(r) /\ StoreReceipt(r) /\ unbumped' = unbumped \cup (zaps' \ zaps)
            /\ Set(w, S)
  BY <1>2, <1>4, <1>5, <1>8, <1>12, SetDoes DEF LoopKeeps
<1> QED
  BY <1>7, <1>10, <1>11, <1>12

LEMMA EndLoopDoes ==
    ASSUME TypeInv, NEW w \in Cron, EndLoop(w)
    PROVE  /\ run[w].step = "count" /\ run'[w].step \in {"bump", "write"}
           /\ run' \in [Cron -> RunState] /\ Others(w) /\ LoopKeeps(w)
           /\ run'[w].mark = run[w].mark
           /\ \A r \in run[w].batch : run'[w].hold # None /\ run'[w].hold <= At[r]
           /\ run[w].hold # None => run'[w].hold # None /\ run'[w].hold <= run[w].hold
           /\ UNCHANGED <<world, lnurlCache, zaps, totals, since, unbumped, faults>>
<1> DEFINE s == IF run[w].fresh THEN "bump" ELSE "write"
           Q == Rest(w)
           new == [Q EXCEPT !.step = s, !.batch = {}, !.known = {}, !.credits = 0]
<1>1. /\ run[w].step = "count" /\ Set(w, new)
      /\ UNCHANGED <<world, lnurlCache, zaps, totals, since, unbumped, faults>>
  BY DEF EndLoop
<1>2. /\ Q \in RunState /\ Q.from = run[w].from /\ Q.key = run[w].key
      /\ Q.closed = run[w].closed /\ Q.mark = run[w].mark
      /\ \A r \in run[w].batch : Q.hold # None /\ Q.hold <= At[r]
      /\ run[w].hold # None => Q.hold # None /\ Q.hold <= run[w].hold
  <2>1. run[w] \in RunState /\ run[w].batch \subseteq Receipt /\ run[w].hold \in Nat
    BY RunType DEF RunState
  <2>2. CASE run[w].batch = {}
    BY <2>1, <2>2 DEF Rest
  <2>3. CASE run[w].batch # {}
    <3>1. PICK r : r = CHOOSE q \in Turn(w) : TRUE
      OBVIOUS
    <3>2. r \in Turn(w)
      BY <2>3, <3>1, TurnTaken
    <3>3. Q = Held(run[w], r) /\ r \in Receipt
      BY <2>1, <2>3, <3>1, <3>2 DEF Rest, Turn
    <3>4. /\ Q \in RunState /\ Q.from = run[w].from /\ Q.key = run[w].key
          /\ Q.closed = run[w].closed /\ Q.mark = run[w].mark
          /\ Q.hold # None /\ Q.hold <= At[r]
          /\ run[w].hold # None => Q.hold <= run[w].hold
      BY <2>1, <3>3, HeldType
    <3>5. Q.hold \in Nat /\ \A q \in run[w].batch : At[r] \in Nat /\ At[q] \in Nat /\ At[r] <= At[q]
      BY <2>1, <3>2, <3>3, <3>4, Constants DEF Turn, RunState
    <3> HIDE DEF Q
    <3> QED
      BY <3>4, <3>5
  <2> QED
    BY <2>2, <2>3
<1>3. s \in {"bump", "write"} /\ 0 \in 0..VerifyCap /\ {} \in SUBSET Receipt
  BY Constants
<1> HIDE DEF Q, s
<1>4. /\ new \in RunState /\ new.step = s /\ new.from = Q.from /\ new.key = Q.key
      /\ new.closed = Q.closed /\ new.mark = Q.mark /\ new.hold = Q.hold
  BY <1>2, <1>3 DEF RunState
<1> HIDE DEF new
<1> QED
  BY <1>1, <1>2, <1>3, <1>4, SetDoes DEF LoopKeeps

LEMMA BumpDoes ==
    ASSUME TypeInv, NEW w \in Cron, Bump(w)
    PROVE  /\ run[w].step = "bump" /\ run'[w].step = "write"
           /\ run' \in [Cron -> RunState] /\ Others(w) /\ LoopKeeps(w)
           /\ run'[w].mark = run[w].mark /\ run'[w].hold = run[w].hold
           /\ unbumped' = {}
           /\ UNCHANGED <<world, lnurlCache, zaps, totals, since, faults>>
<1> DEFINE new == [run[w] EXCEPT !.step = "write", !.fresh = FALSE]
<1>1. /\ run[w].step = "bump" /\ Set(w, new) /\ unbumped' = {}
      /\ UNCHANGED <<world, lnurlCache, zaps, totals, since, faults>>
  BY DEF Bump
<1>2. /\ new \in RunState /\ new.step = "write" /\ new.from = run[w].from
      /\ new.key = run[w].key /\ new.closed = run[w].closed
      /\ new.mark = run[w].mark /\ new.hold = run[w].hold
  BY RunType DEF RunState
<1> HIDE DEF new
<1> QED
  BY <1>1, <1>2, SetDoes DEF LoopKeeps

LEMMA WriteSinceDoes ==
    ASSUME TypeInv, NEW w \in Cron, WriteSince(w)
    PROVE  /\ run[w].step = "write"
           /\ run' \in [Cron -> RunState] /\ Others(w) /\ run'[w] = Idle
           /\ \/ since' = since
              \/ /\ run[w].closed /\ since' \in Nat /\ since' <= run[w].mark
                 /\ run[w].hold # None => since' < run[w].hold
           /\ UNCHANGED <<world, lnurlCache, zaps, totals, unbumped, faults>>
<1>1. /\ run[w].step = "write" /\ Set(w, Idle)
      /\ since' = IF run[w].closed /\ Watermark(run[w]) > run[w].from
                  THEN Watermark(run[w]) ELSE since
      /\ UNCHANGED <<world, lnurlCache, zaps, totals, unbumped, faults>>
  BY DEF WriteSince
<1>2. /\ run[w].horizon \in Nat /\ run[w].mark \in Nat /\ run[w].hold \in Nat
      /\ run[w].from \in Nat
  BY RunType DEF RunState
<1>3. /\ Watermark(run[w]) \in Int /\ Watermark(run[w]) <= run[w].mark
      /\ run[w].hold # None => Watermark(run[w]) < run[w].hold
  BY <1>2 DEF Watermark, Lower
<1>4. Watermark(run[w]) > run[w].from => Watermark(run[w]) \in Nat
  BY <1>2, <1>3
<1> QED
  BY <1>1, <1>3, <1>4, SetDoes, IdleType

LEMMA FailDoes ==
    ASSUME TypeInv, NEW w \in Cron, Fail(w)
    PROVE  /\ run' \in [Cron -> RunState] /\ Others(w) /\ run'[w] = Idle
           /\ faults' \in 0..MaxFaults
           /\ UNCHANGED <<world, lnurlCache, zaps, totals, since, unbumped>>
BY SetDoes, IdleType, Constants DEF Fail, TypeInv, TypeOK

-----------------------------------------------------------------------------
(***************************************************************************)
(* Types.                                                                  *)
(***************************************************************************)
LEMMA InitTypes == Init => TypeInv
<1> SUFFICES ASSUME Init PROVE TypeInv
  OBVIOUS
<1>1. /\ now \in 1..End /\ wallet \in Key /\ faults \in 0..MaxFaults /\ since \in Nat
      /\ lnurlCache \in [key : Key \cup {None}, checkedAt : 0..End]
  BY Constants DEF Init, Key, None
<1>2. run \in [Cron -> RunState] /\ CandidatesParse
  BY IdleType DEF Init, CandidatesParse
<1>3. held \subseteq Receipt /\ posts \subseteq Post /\ zaps \subseteq Signed \cap Parses
      /\ unbumped \subseteq zaps
  BY DEF Init, Junk
<1>4. totals \in [Post -> [msat : Nat, count : Nat]] /\ RollupExact
  <2>1. [msat |-> 0, count |-> 0] \in [msat : Nat, count : Nat]
    OBVIOUS
  <2>2. \A p \in Post : Rollup({r \in zaps : PostOf[r] = p}) = Rollup({})
    <3>1. \A p \in Post : {r \in zaps : PostOf[r] = p} = {}
      BY DEF Init
    <3> QED
      BY <3>1
  <2>3. \A p \in Post : totals[p] = [msat |-> 0, count |-> 0]
    BY DEF Init
  <2>4. totals \in [Post -> [msat : Nat, count : Nat]]
    BY <2>1 DEF Init
  <2>5. RollupExact
    BY <2>2, <2>3, RollupOfNone DEF RollupExact
  <2> QED
    BY <2>4, <2>5
<1> QED
  BY <1>1, <1>2, <1>3, <1>4 DEF TypeInv, TypeOK

\* A step of a run that counts nothing.
LEMMA QuietTypes ==
    ASSUME TypeInv, NEW w \in Cron, run' \in [Cron -> RunState], Others(w),
           run'[w].step = "count" =>
              run'[w].batch \subseteq Parses /\ run'[w].known \subseteq zaps,
           lnurlCache' \in [key : Key \cup {None}, checkedAt : 0..End],
           since' \in Nat, unbumped' \subseteq zaps, faults' \in 0..MaxFaults,
           UNCHANGED <<world, zaps, totals>>
    PROVE  TypeInv'
<1>1. CandidatesParse'
  BY DEF TypeInv, CandidatesParse, Others
<1>2. TypeOK'
  BY DEF TypeInv, TypeOK, RollupExact, world
<1> QED
  BY <1>1, <1>2 DEF TypeInv

LEMMA RunStepTypes ==
    ASSUME TypeInv, NEW w \in Cron, RunStep(w)
    PROVE  TypeInv'
<1>0. /\ lnurlCache \in [key : Key \cup {None}, checkedAt : 0..End]
      /\ since \in Nat /\ unbumped \subseteq zaps /\ faults \in 0..MaxFaults
      /\ run[w] \in RunState
      /\ run[w].step = "count" => run[w].batch \subseteq Parses /\ run[w].known \subseteq zaps
  BY DEF TypeInv, TypeOK, CandidatesParse
<1>1. CASE Begin(w)
  BY <1>0, <1>1, BeginDoes, QuietTypes
<1>2. CASE ReadCache(w)
  <2>1. run'[w].step # "count"
    BY <1>2, ReadCacheDoes, IdleType DEF Unfetched
  <2> QED
    BY <1>0, <1>2, <2>1, ReadCacheDoes, QuietTypes
<1>3. CASE AskEndpoint(w)
  <2>1. run'[w].step # "count"
    BY <1>3, AskEndpointDoes, IdleType DEF Unfetched
  <2> QED
    BY <1>0, <1>3, <2>1, AskEndpointDoes, QuietTypes
<1>4. CASE SaveKey(w)
  <2>1. run'[w].step # "count"
    BY <1>4, SaveKeyDoes, IdleType DEF Unfetched
  <2>2. lnurlCache' \in [key : Key \cup {None}, checkedAt : 0..End]
    BY <1>0, <1>4, SaveKeyDoes DEF RunState
  <2> QED
    BY <1>0, <1>4, <2>1, <2>2, SaveKeyDoes, QuietTypes
<1>5. CASE Fetch(w)
  BY <1>0, <1>5, FetchDoes, QuietTypes
<1>6. CASE Lookup(w)
  <2>1. run'[w].batch \subseteq Parses /\ run'[w].known \subseteq zaps
    BY <1>6, LookupDoes
  <2> QED
    BY <1>0, <1>6, <2>1, LookupDoes, QuietTypes
<1>7. CASE CountNext(w)
  <2>1. PICK r \in Turn(w) :
          /\ run[w].step = "count" /\ run' \in [Cron -> RunState] /\ Others(w)
          /\ run'[w].batch = run[w].batch \ {r} /\ run'[w].known = run[w].known
          /\ \/ UNCHANGED <<zaps, totals, unbumped>>
             \/ Verified(r) /\ StoreReceipt(r) /\ unbumped' = unbumped \cup (zaps' \ zaps)
          /\ UNCHANGED <<world, lnurlCache, since, faults>>
    BY <1>7, CountNextDoes
  <2>2. /\ r \in Receipt /\ r \in Parses /\ run'[w].batch \subseteq Parses
        /\ run'[w].known \subseteq zaps
    BY <1>0, <2>1 DEF Turn, RunState
  <2>3. CASE UNCHANGED <<zaps, totals, unbumped>>
    BY <1>0, <2>1, <2>2, <2>3, QuietTypes
  <2>4. CASE Verified(r) /\ StoreReceipt(r) /\ unbumped' = unbumped \cup (zaps' \ zaps)
    <3>1. /\ zaps' = zaps \cup {r} /\ zaps' \subseteq Signed \cap Parses
          /\ totals' \in [Post -> [msat : Nat, count : Nat]] /\ RollupExact'
      BY <2>2, <2>4, StoreDoes
    <3>2. CandidatesParse'
      BY <2>1, <2>2, <3>1 DEF TypeInv, CandidatesParse, Others
    <3>3. unbumped' \subseteq zaps'
      BY <1>0, <2>4, <3>1
    <3>4. TypeOK'
      BY <2>1, <3>1, <3>3 DEF TypeInv, TypeOK, world
    <3> QED
      BY <3>2, <3>4 DEF TypeInv
  <2> QED
    BY <2>1, <2>3, <2>4
<1>11. CASE PassStored(w)
  <2>1. PICK r \in Turn(w) :
          /\ run[w].step = "count" /\ run' \in [Cron -> RunState] /\ Others(w)
          /\ run'[w].batch = run[w].batch \ {r} /\ run'[w].known = run[w].known
          /\ UNCHANGED <<world, lnurlCache, zaps, totals, since, unbumped, faults>>
    BY <1>11, PassStoredDoes
  <2> QED
    BY <1>0, <2>1, QuietTypes
<1>8. CASE EndLoop(w)
  <2>1. run'[w].step # "count"
    BY <1>8, EndLoopDoes
  <2> QED
    BY <1>0, <1>8, <2>1, EndLoopDoes, QuietTypes
<1>9. CASE Bump(w)
  BY <1>0, <1>9, BumpDoes, QuietTypes
<1>10. CASE WriteSince(w)
  <2>1. run'[w].step # "count" /\ since' \in Nat
    BY <1>0, <1>10, WriteSinceDoes, IdleType
  <2> QED
    BY <1>0, <1>10, <2>1, WriteSinceDoes, QuietTypes
<1> QED
  BY <1>1, <1>2, <1>3, <1>4, <1>5, <1>6, <1>7, <1>8, <1>9, <1>10, <1>11 DEF RunStep

LEMMA FailTypes ==
    ASSUME TypeInv, NEW w \in Cron, Fail(w)
    PROVE  TypeInv'
<1>0. /\ lnurlCache \in [key : Key \cup {None}, checkedAt : 0..End]
      /\ since \in Nat /\ unbumped \subseteq zaps
  BY DEF TypeInv, TypeOK
<1>1. run'[w].step # "count"
  BY FailDoes, IdleType
<1> QED
  BY <1>0, <1>1, FailDoes, QuietTypes

\* The wallet, the relays, the mirror and the clock.
Around ==
    \/ Tick
    \/ \E r \in Receipt : Mint(r)
    \/ Rotate
    \/ \E p \in Post : Land(p) \/ Remove(p)

LEMMA AroundTypes ==
    ASSUME TypeInv, Around
    PROVE  TypeInv'
<1>1. UNCHANGED <<lnurlCache, zaps, totals, since, unbumped, run, faults>>
  BY DEF Around, Tick, Mint, Rotate, Land, Remove, tables
<1>2. /\ now' \in 1..End /\ wallet' \in Key /\ held' \subseteq Receipt /\ posts' \subseteq Post
  BY Constants DEF Around, Tick, Mint, Rotate, Land, Remove, TypeInv, TypeOK, Key
<1> QED
  BY <1>1, <1>2 DEF TypeInv, TypeOK, RollupExact, CandidatesParse

LEMMA NextCases ==
    ASSUME Next
    PROVE  (\E w \in Cron : RunStep(w) \/ Fail(w)) \/ Around
BY DEF Next, Around

LEMMA NextTypes == TypeInv /\ [Next]_vars => TypeInv'
<1> SUFFICES ASSUME TypeInv, [Next]_vars PROVE TypeInv'
  OBVIOUS
<1>1. CASE UNCHANGED vars
  BY <1>1 DEF vars, world, TypeInv, TypeOK, RollupExact, CandidatesParse
<1>2. CASE Next
  BY <1>2, NextCases, RunStepTypes, FailTypes, AroundTypes
<1> QED
  BY <1>1, <1>2

\* Receipts are counted only if they parse and are signed, and the totals are
\* those of the stored receipts, whatever fails and however many runs overlap
\* (storeZapReceipt).
THEOREM ZapTypes == Spec => []TypeOK
<1>1. TypeInv => TypeOK
  BY DEF TypeInv
<1> QED
  BY <1>1, InitTypes, NextTypes, PTL DEF Spec

-----------------------------------------------------------------------------
(***************************************************************************)
(* Nothing is skipped, when relays answer with all they hold.              *)
(***************************************************************************)
\* The receipts a wallet signed, and those of its present key.
Good == held \cap Signed \cap Parses

Current == {r \in Good : KeyOf[r] = wallet}

\* A wallet signs in the second it names and never goes back to an old key, so
\* receipts of an older key are not newer than those of a later one.
WorldInv ==
    /\ \A r \in Good : At[r] <= now /\ KeyOf[r] <= wallet
    /\ \A q, r \in Good : KeyOf[q] < KeyOf[r] => At[q] <= At[r]
    /\ zaps \subseteq held
    /\ since <= now /\ lnurlCache.key <= wallet

\* Below what a run starts from, everything is counted.
FromSafe(w) ==
    /\ run[w].from <= now /\ run[w].key <= wallet
    /\ \A r \in Current : At[r] < run[w].from => r \in zaps

BatchBound(w) ==
    run[w].step \in {"lookup", "count"} =>
        \A q \in run[w].batch : q \in held /\ KeyOf[q] = run[w].key

MarkSafe(w) == run[w].step \in {"count", "bump", "write"} => run[w].mark <= now

\* Nothing good in the batch of w is newer than r.
Newer(w, r) == \A q \in run[w].batch \cap Good : At[q] <= At[r]

HeldBack(w, r) == run[w].hold # None /\ run[w].hold <= At[r]

\* Where a receipt of the present key can be while a run has the whole window:
\* counted, still to be counted, holding the watermark, or not below it.
Windowed(w) ==
    run[w].closed => \A r \in Current :
        /\ run[w].step = "lookup" =>
              r \in zaps \/ r \in run[w].batch \/ (run[w].from <= At[r] /\ Newer(w, r))
        /\ run[w].step = "count" =>
              \/ r \in zaps \/ r \in run[w].batch \/ HeldBack(w, r)
              \/ run[w].mark <= At[r] /\ Newer(w, r)
        /\ run[w].step \in {"bump", "write"} =>
              r \in zaps \/ HeldBack(w, r) \/ run[w].mark <= At[r]

RunSafe(w) == FromSafe(w) /\ BatchBound(w) /\ MarkSafe(w) /\ Windowed(w)

SkipInv == WorldInv /\ NothingSkipped /\ \A w \in Cron : RunSafe(w)

LEMMA GoodTypes ==
    ASSUME TypeInv
    PROVE  /\ now \in Nat /\ wallet \in Nat /\ since \in Nat
           /\ \A r \in Good : r \in Receipt /\ At[r] \in Nat \ {0} /\ KeyOf[r] \in Nat
           /\ \A w \in Cron : /\ run[w].from \in Nat /\ run[w].mark \in Nat
                              /\ run[w].hold \in Nat /\ run[w].batch \subseteq Receipt
                              /\ run[w].key \in Nat
BY RunType, Constants DEF TypeInv, TypeOK, Good, RunState, Key, None

LEMMA NothingSkippedIs ==
    NothingSkipped <=> \A r \in Current : At[r] < since => r \in zaps
BY DEF NothingSkipped, Current, Good

\* A run stays safe while others count and time passes.
LEMMA RunStays ==
    ASSUME TypeInv, TypeInv', NEW w \in Cron, RunSafe(w), run'[w] = run[w],
           now <= now', UNCHANGED <<wallet, held>>, zaps \subseteq zaps'
    PROVE  RunSafe(w)'
<1>1. Good' = Good /\ Current' = Current
  BY DEF Good, Current
<1>2. FromSafe(w)' /\ MarkSafe(w)'
  BY <1>1, GoodTypes DEF RunSafe, FromSafe, MarkSafe, TypeInv, TypeOK
<1>3. BatchBound(w)'
  BY DEF RunSafe, BatchBound
<1>4. Windowed(w)'
  BY <1>1 DEF RunSafe, Windowed, Newer, HeldBack
<1> QED
  BY <1>2, <1>3, <1>4 DEF RunSafe

LEMMA OthersStay ==
    ASSUME TypeInv, TypeInv', SkipInv, NEW w \in Cron, Others(w), RunSafe(w)',
           UNCHANGED <<now, wallet, held>>, zaps \subseteq zaps'
    PROVE  \A v \in Cron : RunSafe(v)'
<1> SUFFICES ASSUME NEW v \in Cron PROVE RunSafe(v)'
  OBVIOUS
<1>1. CASE v = w
  BY <1>1
<1>2. CASE v # w
  BY <1>2, RunStays, GoodTypes DEF Others, SkipInv
<1> QED
  BY <1>1, <1>2

\* A step of w that counts nothing and leaves the watermark.
LEMMA QuietSkips ==
    ASSUME TypeInv, TypeInv', SkipInv, NEW w \in Cron, Others(w), RunSafe(w)',
           lnurlCache'.key <= wallet,
           UNCHANGED <<world, zaps, since>>
    PROVE  SkipInv'
<1>1. Good' = Good /\ Current' = Current
  BY DEF Good, Current, world
<1>2. WorldInv'
  BY <1>1 DEF SkipInv, WorldInv, world
<1>3. NothingSkipped'
  BY DEF SkipInv, NothingSkipped, world
<1>4. \A v \in Cron : RunSafe(v)'
  BY OthersStay DEF world
<1> QED
  BY <1>2, <1>3, <1>4 DEF SkipInv

\* A run without a page.
LEMMA Unbound ==
    ASSUME TypeInv, SkipInv, NEW w \in Cron,
           run'[w] = Idle \/ run'[w].step \in {"resolve", "lnurl", "save", "fetch"},
           run'[w] = Idle \/ run'[w].from \in {run[w].from, since},
           run'[w] = Idle \/ run'[w].key \in {run[w].key, wallet, lnurlCache.key, None},
           UNCHANGED <<world, zaps>>
    PROVE  RunSafe(w)'
<1>1. Good' = Good /\ Current' = Current
  BY DEF Good, Current, world
<1>2. run'[w].step \notin Fetched
  BY IdleType DEF Fetched
<1>3. BatchBound(w)' /\ MarkSafe(w)' /\ Windowed(w)'
  BY <1>2 DEF Fetched, BatchBound, MarkSafe, Windowed
<1>4. FromSafe(w)'
  <2>1. CASE run'[w] = Idle
    BY <1>1, <2>1, IdleType, GoodTypes DEF FromSafe, world, Current, None
  <2>2. CASE run'[w] # Idle
    <3>1. run'[w].key <= wallet
      BY <2>2, GoodTypes DEF SkipInv, WorldInv, RunSafe, FromSafe, None
    <3>2. run'[w].from <= now /\ \A r \in Current : At[r] < run'[w].from => r \in zaps
      BY <2>2, NothingSkippedIs DEF SkipInv, WorldInv, RunSafe, FromSafe
    <3> QED
      BY <1>1, <3>1, <3>2 DEF FromSafe, world
  <2> QED
    BY <2>1, <2>2
<1> QED
  BY <1>3, <1>4 DEF RunSafe

LEMMA BeginSkips ==
    ASSUME TypeInv, TypeInv', SkipInv, NEW w \in Cron, Begin(w)
    PROVE  SkipInv'
<1>1. RunSafe(w)'
  BY BeginDoes, Unbound
<1> QED
  BY <1>1, BeginDoes, QuietSkips DEF SkipInv, WorldInv

LEMMA ResolveSkips ==
    ASSUME TypeInv, TypeInv', SkipInv, NEW w \in Cron,
           ReadCache(w) \/ AskEndpoint(w) \/ SaveKey(w) \/ Fail(w)
    PROVE  SkipInv'
<1>1. CASE ReadCache(w)
  <2>1. RunSafe(w)'
    BY <1>1, ReadCacheDoes, Unbound DEF Unfetched
  <2> QED
    BY <1>1, <2>1, ReadCacheDoes, QuietSkips DEF SkipInv, WorldInv
<1>2. CASE AskEndpoint(w)
  <2>1. RunSafe(w)'
    BY <1>2, AskEndpointDoes, Unbound DEF Unfetched
  <2> QED
    BY <1>2, <2>1, AskEndpointDoes, QuietSkips DEF SkipInv, WorldInv
<1>3. CASE SaveKey(w)
  <2>1. RunSafe(w)'
    BY <1>3, SaveKeyDoes, Unbound DEF Unfetched
  <2>2. lnurlCache'.key <= wallet
    BY <1>3, SaveKeyDoes DEF SkipInv, RunSafe, FromSafe
  <2> QED
    BY <1>3, <2>1, <2>2, SaveKeyDoes, QuietSkips
<1>4. CASE Fail(w)
  <2>1. RunSafe(w)'
    BY <1>4, FailDoes, Unbound
  <2> QED
    BY <1>4, <2>1, FailDoes, QuietSkips DEF SkipInv, WorldInv
<1> QED
  BY <1>1, <1>2, <1>3, <1>4

LEMMA FetchSkips ==
    ASSUME ~RelaysFail, TypeInv, TypeInv', SkipInv, NEW w \in Cron, Fetch(w)
    PROVE  SkipInv'
<1>1. /\ Others(w) /\ run'[w].step = "lookup"
      /\ run'[w].from = run[w].from /\ run'[w].key = run[w].key
      /\ \A r \in run'[w].batch : r \in held /\ KeyOf[r] = run[w].key
      /\ run'[w].closed =>
            \A r \in Matching(w) : KeyOf[r] = run[w].key => r \in run'[w].batch
      /\ UNCHANGED <<world, lnurlCache, zaps, since>>
  BY FetchDoes
<1>2. FromSafe(w) /\ WorldInv
  BY DEF SkipInv, RunSafe
<1>3. Good' = Good /\ Current' = Current
  BY <1>1 DEF Good, Current, world
<1>4. FromSafe(w)' /\ BatchBound(w)' /\ MarkSafe(w)'
  BY <1>1, <1>2, <1>3 DEF FromSafe, BatchBound, MarkSafe, world
<1>5. ASSUME run'[w].closed, NEW r \in Current
      PROVE  r \in zaps \/ r \in run'[w].batch \/ (run[w].from <= At[r] /\ Newer(w, r)')
  <2>1. r \in Good /\ r \in held /\ KeyOf[r] = wallet
    BY DEF Current, Good
  <2>2. CASE At[r] < run[w].from
    BY <1>2, <2>2 DEF FromSafe
  <2>3. CASE ~(At[r] < run[w].from) /\ run[w].key = wallet
    <3>1. r \in Matching(w)
      BY <2>1, <2>3, GoodTypes DEF Matching
    <3> QED
      BY <1>1, <1>5, <2>1, <2>3, <3>1
  <2>4. CASE ~(At[r] < run[w].from) /\ run[w].key # wallet
    <3>1. run[w].key < KeyOf[r]
      BY <1>2, <2>1, <2>4, GoodTypes DEF FromSafe
    <3>2. \A q \in run'[w].batch \cap Good : At[q] <= At[r]
      BY <1>1, <1>2, <2>1, <3>1 DEF WorldInv
    <3> QED
      BY <1>3, <2>1, <2>4, <3>2, GoodTypes DEF Newer
  <2> QED
    BY <2>2, <2>3, <2>4
<1>6. Windowed(w)'
  BY <1>1, <1>3, <1>5 DEF Windowed
<1>7. RunSafe(w)'
  BY <1>4, <1>6 DEF RunSafe
<1> QED
  BY <1>1, <1>2, <1>7, QuietSkips DEF WorldInv

LEMMA LookupSkips ==
    ASSUME TypeInv, TypeInv', SkipInv, NEW w \in Cron, Lookup(w)
    PROVE  SkipInv'
<1>1. /\ run[w].step = "lookup" /\ Others(w) /\ run'[w].step = "count"
      /\ run'[w].from = run[w].from /\ run'[w].key = run[w].key
      /\ run'[w].closed = run[w].closed
      /\ run'[w].batch \subseteq run[w].batch
      /\ \A r \in run[w].batch : At[r] <= now /\ r \in Parses => r \in run'[w].batch
      /\ run'[w].mark = run[w].from
      /\ UNCHANGED <<world, lnurlCache, zaps, since>>
  BY LookupDoes
<1>2. FromSafe(w) /\ BatchBound(w) /\ Windowed(w) /\ WorldInv
  BY DEF SkipInv, RunSafe
<1>3. Good' = Good /\ Current' = Current
  BY <1>1 DEF Good, Current, world
<1>5. run'[w].mark <= now
  BY <1>1, <1>2 DEF FromSafe
<1>6. FromSafe(w)' /\ BatchBound(w)' /\ MarkSafe(w)'
  BY <1>1, <1>2, <1>3, <1>5 DEF FromSafe, BatchBound, MarkSafe, world
<1>7. ASSUME run'[w].closed, NEW r \in Current
      PROVE  r \in zaps \/ r \in run'[w].batch \/ (run'[w].mark <= At[r] /\ Newer(w, r)')
  <2>1. r \in Parses /\ r \in Good /\ At[r] <= now
    BY <1>2 DEF Current, Good, WorldInv
  <2>2. r \in zaps \/ r \in run[w].batch \/ (run[w].from <= At[r] /\ Newer(w, r))
    BY <1>1, <1>2, <1>7 DEF Windowed
  <2>3. CASE r \in run[w].batch
    BY <1>1, <2>1, <2>3
  <2>4. CASE run[w].from <= At[r] /\ Newer(w, r)
    <3>1. Newer(w, r)'
      BY <1>1, <1>3, <2>4 DEF Newer
    <3> QED
      BY <1>1, <2>4, <3>1
  <2> QED
    BY <2>2, <2>3, <2>4
<1>8. Windowed(w)'
  BY <1>1, <1>3, <1>7 DEF Windowed
<1>9. RunSafe(w)'
  BY <1>6, <1>8 DEF RunSafe
<1> QED
  BY <1>1, <1>2, <1>9, QuietSkips DEF WorldInv

LEMMA CountNextSkips ==
    ASSUME TypeInv, TypeInv', SkipInv, NEW w \in Cron, CountNext(w) \/ PassStored(w)
    PROVE  SkipInv'
<1>1. PICK x \in Turn(w) :
        /\ run[w].step = "count" /\ run'[w].step = "count"
        /\ Others(w) /\ LoopKeeps(w)
        /\ run'[w].batch = run[w].batch \ {x}
        /\ \/ /\ x \notin Signed
              /\ run'[w].hold = run[w].hold /\ run'[w].mark = run[w].mark
              /\ zaps' = zaps
           \/ /\ run'[w].hold # None /\ run'[w].hold <= At[x]
              /\ run[w].hold # None => run'[w].hold <= run[w].hold
              /\ run'[w].mark = run[w].mark
              /\ zaps' = zaps
           \/ /\ x \in Signed /\ zaps' = zaps \cup {x}
              /\ run'[w].hold = run[w].hold
              /\ run'[w].mark = run[w].mark \/ run'[w].mark = At[x]
        /\ UNCHANGED <<world, lnurlCache, since, faults>>
  <2>1. CASE CountNext(w)
    BY <2>1, CountNextDoes DEF Verified, StoreReceipt
  <2>2. CASE PassStored(w)
    <3>1. zaps \subseteq Signed
      BY DEF TypeInv, TypeOK
    <3> QED
      BY <2>2, <3>1, PassStoredDoes
  <2> QED
    BY <2>1, <2>2
<1>2. FromSafe(w) /\ BatchBound(w) /\ MarkSafe(w) /\ Windowed(w) /\ WorldInv
  BY DEF SkipInv, RunSafe
<1>3. Good' = Good /\ Current' = Current
  BY <1>1 DEF Good, Current, world
<1>4. x \in run[w].batch /\ x \in Parses /\ x \in held /\ x \in Receipt
  BY <1>1, <1>2, GoodTypes DEF Turn, TypeInv, CandidatesParse, BatchBound
<1>5. x \in Signed => x \in Good /\ At[x] <= now
  BY <1>2, <1>4 DEF Good, WorldInv
<1>6. zaps \subseteq zaps' /\ (zaps' = zaps \/ (x \in Signed /\ zaps' = zaps \cup {x}))
  BY <1>1
<1>7. run'[w].mark <= now
  BY <1>1, <1>2, <1>5 DEF MarkSafe
<1>8. FromSafe(w)' /\ BatchBound(w)' /\ MarkSafe(w)'
  BY <1>1, <1>2, <1>3, <1>6, <1>7 DEF FromSafe, BatchBound, MarkSafe, LoopKeeps, world
<1>9. ASSUME run'[w].closed, NEW r \in Current
      PROVE  \/ r \in zaps' \/ r \in run'[w].batch \/ HeldBack(w, r)'
             \/ run'[w].mark <= At[r] /\ Newer(w, r)'
  <2>1. r \in Signed /\ r \in Good /\ At[r] \in Nat
    BY GoodTypes DEF Current, Good
  <2>2. \/ r \in zaps \/ r \in run[w].batch \/ HeldBack(w, r)
        \/ run[w].mark <= At[r] /\ Newer(w, r)
    BY <1>1, <1>2, <1>9 DEF Windowed, LoopKeeps
  <2>3. CASE r \in zaps
    BY <1>6, <2>3
  <2>4. CASE r \in run[w].batch
    <3>1. CASE r # x
      BY <1>1, <2>4, <3>1
    <3>2. CASE r = x
      BY <1>1, <2>1, <3>2 DEF HeldBack
    <3> QED
      BY <3>1, <3>2
  <2>5. CASE HeldBack(w, r)
    <3>1. run[w].hold \in Nat /\ run'[w].hold \in Nat
      BY RunType DEF RunState, TypeInv, TypeOK
    <3> QED
      BY <1>1, <2>1, <2>5, <3>1 DEF HeldBack
  <2>6. CASE run[w].mark <= At[r] /\ Newer(w, r)
    <3>1. Newer(w, r)'
      BY <1>1, <1>3, <2>6 DEF Newer
    <3>2. run'[w].mark <= At[r]
      BY <1>1, <1>4, <1>5, <2>6 DEF Newer
    <3> QED
      BY <3>1, <3>2
  <2> QED
    BY <2>2, <2>3, <2>4, <2>5, <2>6
<1>10. Windowed(w)'
  BY <1>1, <1>3, <1>9 DEF Windowed
<1>11. RunSafe(w)'
  BY <1>8, <1>10 DEF RunSafe
<1>12. WorldInv'
  BY <1>1, <1>2, <1>3, <1>4, <1>6 DEF WorldInv, world
<1>13. NothingSkipped'
  BY <1>1, <1>6 DEF SkipInv, NothingSkipped, world
<1>14. \A v \in Cron : RunSafe(v)'
  BY <1>1, <1>6, <1>11, OthersStay DEF world
<1> QED
  BY <1>12, <1>13, <1>14 DEF SkipInv

LEMMA EndLoopSkips ==
    ASSUME TypeInv, TypeInv', SkipInv, NEW w \in Cron, EndLoop(w) \/ Bump(w)
    PROVE  SkipInv'
<1>1. /\ run[w].step \in {"count", "bump"} /\ run'[w].step \in {"bump", "write"}
      /\ Others(w) /\ LoopKeeps(w) /\ run'[w].mark = run[w].mark
      /\ run[w].step = "count" =>
            \A r \in run[w].batch : run'[w].hold # None /\ run'[w].hold <= At[r]
      /\ run[w].hold # None => run'[w].hold # None /\ run'[w].hold <= run[w].hold
      /\ UNCHANGED <<world, lnurlCache, zaps, since>>
  <2>1. CASE EndLoop(w)
    BY <2>1, EndLoopDoes
  <2>2. CASE Bump(w)
    BY <2>2, BumpDoes, GoodTypes
  <2> QED
    BY <2>1, <2>2
<1>2. FromSafe(w) /\ BatchBound(w) /\ MarkSafe(w) /\ Windowed(w) /\ WorldInv
  BY DEF SkipInv, RunSafe
<1>3. Good' = Good /\ Current' = Current
  BY <1>1 DEF Good, Current, world
<1>4. FromSafe(w)' /\ BatchBound(w)' /\ MarkSafe(w)'
  BY <1>1, <1>2, <1>3 DEF FromSafe, BatchBound, MarkSafe, LoopKeeps, world
<1>5. ASSUME run'[w].closed, NEW r \in Current
      PROVE  r \in zaps \/ HeldBack(w, r)' \/ run'[w].mark <= At[r]
  <2>1. run[w].hold \in Nat /\ run'[w].hold \in Nat /\ At[r] \in Nat
    BY GoodTypes, RunType DEF RunState, TypeInv, TypeOK, Current
  <2>2. \/ r \in zaps \/ HeldBack(w, r) \/ run[w].mark <= At[r]
        \/ run[w].step = "count" /\ r \in run[w].batch
    BY <1>1, <1>2, <1>5 DEF Windowed, LoopKeeps
  <2> QED
    BY <1>1, <2>1, <2>2 DEF HeldBack
<1>6. Windowed(w)'
  BY <1>1, <1>3, <1>5 DEF Windowed
<1>7. RunSafe(w)'
  BY <1>4, <1>6 DEF RunSafe
<1> QED
  BY <1>1, <1>2, <1>7, QuietSkips DEF WorldInv

LEMMA WriteSinceSkips ==
    ASSUME TypeInv, TypeInv', SkipInv, NEW w \in Cron, WriteSince(w)
    PROVE  SkipInv'
<1>1. /\ run[w].step = "write" /\ Others(w) /\ run'[w] = Idle
      /\ \/ since' = since
         \/ /\ run[w].closed /\ since' \in Nat /\ since' <= run[w].mark
            /\ run[w].hold # None => since' < run[w].hold
      /\ UNCHANGED <<world, lnurlCache, zaps>>
  BY WriteSinceDoes
<1>2. MarkSafe(w) /\ Windowed(w) /\ WorldInv
  BY DEF SkipInv, RunSafe
<1>3. Good' = Good /\ Current' = Current
  BY <1>1 DEF Good, Current, world
<1>4. run[w].mark \in Nat /\ run[w].hold \in Nat /\ now \in Nat
  BY GoodTypes
<1>5. since' <= now
  BY <1>1, <1>2, <1>4 DEF MarkSafe, WorldInv
<1>6. WorldInv'
  BY <1>1, <1>2, <1>3, <1>5 DEF WorldInv, world
<1>7. \A r \in Current : At[r] < since' => r \in zaps
  <2>1. CASE since' = since
    BY <2>1, NothingSkippedIs DEF SkipInv
  <2>2. CASE /\ run[w].closed /\ since' \in Nat /\ since' <= run[w].mark
             /\ run[w].hold # None => since' < run[w].hold
    <3> SUFFICES ASSUME NEW r \in Current, At[r] < since'
                 PROVE  r \in zaps
      OBVIOUS
    <3>1. At[r] \in Nat
      BY GoodTypes DEF Current
    <3>2. r \in zaps \/ HeldBack(w, r) \/ run[w].mark <= At[r]
      BY <1>1, <1>2, <2>2 DEF Windowed
    <3> QED
      BY <1>4, <2>2, <3>1, <3>2 DEF HeldBack
  <2> QED
    BY <1>1, <2>1, <2>2
<1>8. NothingSkipped'
  BY <1>1, <1>7 DEF NothingSkipped, Current, Good, world
<1>9. RunSafe(w)'
  BY <1>1, Unbound
<1>10. \A v \in Cron : RunSafe(v)'
  BY <1>1, <1>9, OthersStay DEF world
<1> QED
  BY <1>6, <1>8, <1>10 DEF SkipInv

LEMMA TickSkips ==
    ASSUME TypeInv, TypeInv', SkipInv, UNCHANGED <<wallet, held, zaps, since, lnurlCache, run>>,
           now <= now'
    PROVE  SkipInv'
<1>1. Good' = Good /\ Current' = Current
  BY DEF Good, Current
<1>2. now \in Nat /\ now' \in Nat
  BY DEF TypeInv, TypeOK
<1>3. WorldInv'
  BY <1>1, <1>2, GoodTypes DEF SkipInv, WorldInv
<1>4. NothingSkipped'
  BY DEF SkipInv, NothingSkipped
<1>5. \A v \in Cron : RunSafe(v)'
  BY RunStays DEF SkipInv
<1> QED
  BY <1>3, <1>4, <1>5 DEF SkipInv

LEMMA MintSkips ==
    ASSUME TypeInv, TypeInv', SkipInv, NEW x \in Receipt, Mint(x)
    PROVE  SkipInv'
<1>1. /\ KeyOf[x] = wallet /\ At[x] = now /\ held' = held \cup {x}
      /\ UNCHANGED <<now, wallet, zaps, since, lnurlCache, run>>
      /\ x \in Signed \cap Parses
  BY DEF Mint, tables
<1>2. Good' = Good \cup {x} /\ Current' = Current \cup {x}
  BY <1>1 DEF Good, Current
<1>3. WorldInv
  BY DEF SkipInv
<1>4. WorldInv'
  <2>1. \A r \in Good' : At[r] <= now /\ KeyOf[r] <= wallet
    BY <1>1, <1>2, <1>3, GoodTypes DEF WorldInv
  <2>2. ASSUME NEW q \in Good', NEW r \in Good', KeyOf[q] < KeyOf[r]
        PROVE  At[q] <= At[r]
    <3>1. CASE q \in Good /\ r \in Good
      BY <1>3, <2>2, <3>1 DEF WorldInv
    <3>2. CASE r = x
      BY <1>1, <2>1, <3>2
    <3>3. CASE q = x /\ r \in Good
      BY <1>1, <1>3, <2>2, <3>3, GoodTypes DEF WorldInv
    <3> QED
      BY <1>2, <3>1, <3>2, <3>3
  <2> QED
    BY <1>1, <1>3, <2>1, <2>2 DEF WorldInv
<1>5. NothingSkipped'
  <2>1. \A r \in Current \cup {x} : At[r] < since => r \in zaps
    BY <1>1, <1>3, NothingSkippedIs, GoodTypes DEF SkipInv, WorldInv
  <2> QED
    BY <1>1, <2>1 DEF NothingSkipped, Current, Good
<1>6. ASSUME NEW w \in Cron
      PROVE  RunSafe(w)'
  <2>1. RunSafe(w) /\ run[w].from \in Nat /\ run[w].mark \in Nat
    BY GoodTypes DEF SkipInv
  <2>2. FromSafe(w)' /\ BatchBound(w)' /\ MarkSafe(w)'
    BY <1>1, <1>2, <2>1, GoodTypes DEF RunSafe, FromSafe, BatchBound, MarkSafe
  <2>3. \A q \in run[w].batch \cap Good' : At[q] <= now
    BY <1>1, <1>2, <1>3, GoodTypes DEF WorldInv
  <2>4. Newer(w, x)'
    BY <1>1, <2>3 DEF Newer
  <2>5. run[w].step \in {"lookup", "count"} => run[w].batch \cap Good' = run[w].batch \cap Good
    BY <1>1, <1>2, <2>1 DEF RunSafe, BatchBound, Good
  <2>6. Windowed(w)'
    <3> SUFFICES ASSUME run[w].closed, NEW r \in Current \cup {x}
                 PROVE  /\ run[w].step = "lookup" =>
                             \/ r \in zaps \/ r \in run[w].batch
                             \/ run[w].from <= At[r] /\ Newer(w, r)'
                        /\ run[w].step = "count" =>
                             \/ r \in zaps \/ r \in run[w].batch \/ HeldBack(w, r)
                             \/ run[w].mark <= At[r] /\ Newer(w, r)'
                        /\ run[w].step \in {"bump", "write"} =>
                             r \in zaps \/ HeldBack(w, r) \/ run[w].mark <= At[r]
      BY <1>1, <1>2 DEF Windowed, HeldBack
    <3>1. CASE r \in Current
      <4>1. run[w].step \in {"lookup", "count"} => (Newer(w, r) => Newer(w, r)')
        BY <1>1, <2>5 DEF Newer
      <4> QED
        BY <2>1, <3>1, <4>1 DEF RunSafe, Windowed
    <3>2. CASE r = x
      <4>1. run[w].from <= now /\ (run[w].step \in {"count", "bump", "write"} => run[w].mark <= now)
        BY <2>1 DEF RunSafe, FromSafe, MarkSafe
      <4> QED
        BY <1>1, <2>4, <3>2, <4>1
    <3> QED
      BY <3>1, <3>2
  <2> QED
    BY <2>2, <2>6 DEF RunSafe
<1> QED
  BY <1>4, <1>5, <1>6 DEF SkipInv

\* A new key has signed nothing yet.
LEMMA RotateSkips ==
    ASSUME TypeInv, TypeInv', SkipInv, Rotate
    PROVE  SkipInv'
<1>1. /\ wallet' = wallet + 1
      /\ UNCHANGED <<now, held, zaps, since, lnurlCache, run>>
  BY DEF Rotate, tables
<1>2. WorldInv
  BY DEF SkipInv
<1>3. Good' = Good /\ Current' = {}
  BY <1>1, <1>2, GoodTypes DEF Good, Current, WorldInv
<1>4. lnurlCache.key \in Nat
  BY Constants DEF TypeInv, TypeOK, Key, None
<1>5. WorldInv'
  BY <1>1, <1>2, <1>3, <1>4, GoodTypes DEF WorldInv
<1>6. NothingSkipped'
  BY <1>3 DEF NothingSkipped, Current, Good
<1>7. ASSUME NEW w \in Cron
      PROVE  RunSafe(w)'
  <2>1. RunSafe(w)
    BY DEF SkipInv
  <2>2. FromSafe(w)' /\ BatchBound(w)' /\ MarkSafe(w)' /\ Windowed(w)'
    BY <1>1, <1>3, <2>1, GoodTypes
       DEF RunSafe, FromSafe, BatchBound, MarkSafe, Windowed
  <2> QED
    BY <2>2 DEF RunSafe
<1> QED
  BY <1>5, <1>6, <1>7 DEF SkipInv

LEMMA AroundSkips ==
    ASSUME TypeInv, TypeInv', SkipInv, Around
    PROVE  SkipInv'
<1>1. CASE Tick \/ \E p \in Post : Land(p) \/ Remove(p)
  <2>1. UNCHANGED <<wallet, held, zaps, since, lnurlCache, run>> /\ (now' = now \/ now' = now + 1)
    BY <1>1 DEF Tick, Land, Remove, tables
  <2>2. now <= now'
    BY <2>1, GoodTypes
  <2> QED
    BY <2>1, <2>2, TickSkips
<1>2. CASE \E r \in Receipt : Mint(r)
  BY <1>2, MintSkips
<1>3. CASE Rotate
  BY <1>3, RotateSkips
<1> QED
  BY <1>1, <1>2, <1>3 DEF Around

LEMMA InitSkips == Init /\ TypeInv => SkipInv
<1> SUFFICES ASSUME Init, TypeInv PROVE SkipInv
  OBVIOUS
<1>1. Good = {} /\ Current = {}
  BY DEF Init, Junk, Countable, Good, Current
<1>2. WorldInv
  BY <1>1 DEF Init, WorldInv, None
<1>3. NothingSkipped
  BY <1>1, NothingSkippedIs
<1>4. ASSUME NEW w \in Cron
      PROVE  RunSafe(w)
  BY <1>1, IdleType DEF Init, RunSafe, FromSafe, BatchBound, MarkSafe, Windowed, None
<1> QED
  BY <1>2, <1>3, <1>4 DEF SkipInv

LEMMA NextSkips ==
    ASSUME ~RelaysFail
    PROVE  TypeInv /\ TypeInv' /\ SkipInv /\ [Next]_vars => SkipInv'
<1> SUFFICES ASSUME TypeInv, TypeInv', SkipInv, [Next]_vars PROVE SkipInv'
  OBVIOUS
<1>1. CASE UNCHANGED vars
  <2>1. now <= now'
    BY <1>1, GoodTypes DEF vars, world
  <2> QED
    BY <1>1, <2>1, TickSkips DEF vars, world
<1>2. ASSUME NEW w \in Cron, RunStep(w) \/ Fail(w)
      PROVE  SkipInv'
  BY <1>2, BeginSkips, ResolveSkips, FetchSkips, LookupSkips, CountNextSkips, EndLoopSkips,
     WriteSinceSkips DEF RunStep
<1>3. CASE Next
  BY <1>2, <1>3, NextCases, AroundSkips
<1> QED
  BY <1>1, <1>3

\* The watermark passes no receipt of the wallet's present key that relays hold
\* and that is not counted, as long as relays answer with the newest they hold:
\* however ticks overlap, keys rotate, posts come and go and calls fail
\* (refreshZapsForUser).
THEOREM WatermarkSkipsNothing ==
    ASSUME ~RelaysFail
    PROVE  Spec => []NothingSkipped
<1>1. TypeInv /\ SkipInv => NothingSkipped
  BY DEF SkipInv
<1>2. Init => TypeInv /\ SkipInv
  BY InitTypes, InitSkips
<1>3. TypeInv /\ SkipInv /\ [Next]_vars => TypeInv' /\ SkipInv'
  BY NextTypes, NextSkips
<1> QED
  BY <1>1, <1>2, <1>3, PTL DEF Spec
=============================================================================
