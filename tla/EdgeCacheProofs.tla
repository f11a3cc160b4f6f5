--------------------------- MODULE EdgeCacheProofs ---------------------------
(***************************************************************************)
(* Theorems about EdgeCache.  Both safety properties come from one idea:   *)
(* every value ever written to gen:<pubkey> certifies the rows committed   *)
(* before it (`bumps` records them), later values certify more, and a view *)
(* that holds a generation reads the rows after it read the generation.    *)
(***************************************************************************)
EXTENDS EdgeCache, TLAPS

\* Generations are numbered in the order they are written, and what a later
\* one certifies includes what an earlier one did.
BumpsOrdered ==
    /\ \A b \in bumps : b.gen <= gen /\ b.rows <= rows
    /\ \A a, b \in bumps : a.gen <= b.gen => a.rows <= b.rows
    /\ \E b \in bumps : b.gen = edgeGen

\* A generation held by a view, or naming a cache entry, was written.
KeysWritten ==
    /\ \A v \in View : vgen[v] <= gen
    /\ \A c \in cache : c.gen <= gen

\* What a view has rendered is at least what its generation certifies.
RenderedAfter ==
    \A v \in View : vpc[v] = "put" =>
        \A b \in bumps : b.gen = vgen[v] => vrows[v] >= b.rows

\* What a view will be sent certifies what was announced when it began.
AtLeast(v, g) == \E b \in bumps : b.gen = g /\ b.rows >= floor[v]

FloorKept ==
    \A v \in View :
        /\ floor[v] <= rows
        /\ vpc[v] # "done" => served[v] = -1
        /\ vpc[v] = "gen" => AtLeast(v, edgeGen)
        /\ vpc[v] = "match" => AtLeast(v, vgen[v])
        /\ vpc[v] = "put" => vrows[v] >= floor[v]

\* Only a view that read a generation looks up or fills the cache.
KeyHeld == \A v \in View : vpc[v] \in {"match", "put"} => vgen[v] # NoGen

\* Only a settings request saves.
SavesItsOwn == \A j \in Job : jpc[j] = "save" => task[j] \in Css

Typed == TypeOK /\ KeyHeld /\ SavesItsOwn

IInv ==
    /\ Typed
    /\ BumpsOrdered
    /\ KeysWritten
    /\ RenderedAfter
    /\ FloorKept
    /\ PagesCarryTheirGeneration
    /\ ServedIsNotOlder

-----------------------------------------------------------------------------
LEMMA TypedInit == Init => Typed
  <1> SUFFICES ASSUME Init PROVE Typed
    OBVIOUS
  <1>1. bumps \subseteq Bump
    BY CacheAssumption DEF Init, Bump
  <1>2. vgen \in [View -> Nat \cup {NoGen}] /\ served \in [View -> Nat \cup {-1}]
    BY DEF Init
  <1>3. TypeOK
    <2>1. /\ rows \in Nat /\ gen \in Nat /\ edgeGen \in Nat
          /\ blocked \in BOOLEAN /\ cache \subseteq Entry
      BY DEF Init
    <2>2. css \in Css /\ vcss \in [View -> Css] /\ prev \in [Job -> Css]
      BY CacheAssumption DEF Init
    <2>3. /\ path \in [View -> Page] /\ task \in [Job -> Task]
          /\ vrows \in [View -> Nat] /\ floor \in [View -> Nat]
      BY DEF Init
    <2>4. vpc \in [View -> {"start", "gen", "match", "render", "put", "done"}]
      BY DEF Init
    <2>5. jpc \in [Job -> {"start", "save", "bump", "done", "failed"}]
      BY DEF Init
    <2>6. QED
      BY <1>1, <1>2, <2>1, <2>2, <2>3, <2>4, <2>5 DEF TypeOK
  <1>4. KeyHeld
    BY DEF Init, KeyHeld
  <1>5. QED
    BY <1>3, <1>4 DEF Typed, SavesItsOwn, Init

LEMMA TypedStep == Typed /\ [Next]_vars => Typed'
  <1> SUFFICES ASSUME Typed, [Next]_vars PROVE Typed'
    OBVIOUS
  <1> USE DEF Typed, KeyHeld, SavesItsOwn, db, kv, viewVars, jobVars, GoTo, Answer, JobAt
  <1>1. ASSUME NEW v \in View, ResolveTenant(v) PROVE Typed'
    BY <1>1 DEF TypeOK, ResolveTenant, Bump
  <1>2. ASSUME NEW v \in View, ReadGen(v) PROVE Typed'
    BY <1>2 DEF TypeOK, ReadGen, NoGen
  <1>3. ASSUME NEW v \in View, MatchCache(v) PROVE Typed'
    BY <1>3 DEF TypeOK, MatchCache, Keyed, Entry
  <1>4. ASSUME NEW v \in View, Render(v) PROVE Typed'
    BY <1>4 DEF TypeOK, Render
  <1>5. ASSUME NEW v \in View, PutCache(v) PROVE Typed'
    BY <1>5 DEF TypeOK, PutCache, Keyed, Entry
  <1>6. ASSUME NEW j \in Job, JobStep(j) PROVE Typed'
    <2>1. CASE Publish(j)
      BY <2>1 DEF TypeOK, Publish
    <2>2. CASE ReadUser(j)
      BY <2>2 DEF TypeOK, ReadUser
    <2>3. CASE SaveSettings(j)
      BY <2>3 DEF TypeOK, SaveSettings
    <2>4. CASE Moderate(j)
      BY <2>4 DEF TypeOK, Moderate
    <2>5. CASE BumpGen(j)
      BY <2>5 DEF TypeOK, BumpGen, Bump
    <2>6. CASE LoseBump(j)
      BY <2>6 DEF TypeOK, LoseBump
    <2>7. QED
      BY <1>6, <2>1, <2>2, <2>3, <2>4, <2>5, <2>6 DEF JobStep
  <1>7. CASE Propagate
    BY <1>7 DEF TypeOK, Propagate, Bump
  <1>8. CASE Expire
    BY <1>8 DEF TypeOK, Expire
  <1>9. CASE UNCHANGED vars
    BY <1>9 DEF TypeOK, vars
  <1>10. QED
    BY <1>1, <1>2, <1>3, <1>4, <1>5, <1>6, <1>7, <1>8, <1>9
    DEF Next, ViewStep

-----------------------------------------------------------------------------
LEMMA InvInit == Init => IInv
  <1> SUFFICES ASSUME Init PROVE IInv
    OBVIOUS
  <1>1. Typed
    BY TypedInit
  <1>2. BumpsOrdered /\ KeysWritten
    BY DEF Init, BumpsOrdered, KeysWritten, NoGen
  <1>3. RenderedAfter /\ FloorKept
    BY DEF Init, RenderedAfter, FloorKept
  <1>4. PagesCarryTheirGeneration /\ ServedIsNotOlder
    BY DEF Init, PagesCarryTheirGeneration, ServedIsNotOlder
  <1>5. QED
    BY <1>1, <1>2, <1>3, <1>4 DEF IInv

\* The history of gen: every writer commits to D1 before it writes gen, so the
\* next value certifies at least what the last one did.
LEMMA BumpsOrderedStep == IInv /\ [Next]_vars => BumpsOrdered'
  <1> SUFFICES ASSUME IInv, [Next]_vars PROVE BumpsOrdered'
    OBVIOUS
  <1> USE DEF IInv, Typed, TypeOK, BumpsOrdered, Bump
  <1>1. CASE UNCHANGED kv /\ rows' \in Nat /\ rows' >= rows
    BY <1>1 DEF kv
  <1>2. ASSUME NEW j \in Job, BumpGen(j) PROVE BumpsOrdered'
    <2>1. /\ bumps' = bumps \cup {[gen |-> gen + 1, rows |-> rows, css |-> css]}
          /\ gen' = gen + 1 /\ rows' = rows /\ edgeGen' = edgeGen
      BY <1>2 DEF BumpGen, db
    <2>2. \A b \in bumps' : b.gen <= gen' /\ b.rows <= rows'
      BY <2>1
    <2>3. \A a, b \in bumps' : a.gen <= b.gen => a.rows <= b.rows
      BY <2>1
    <2>4. \E b \in bumps' : b.gen = edgeGen'
      BY <2>1
    <2>5. QED
      BY <2>2, <2>3, <2>4
  <1>3. CASE Propagate
    BY <1>3 DEF Propagate, db
  <1>4. ASSUME NEW v \in View, ViewStep(v)
        PROVE UNCHANGED kv /\ rows' \in Nat /\ rows' >= rows
    BY <1>4 DEF ViewStep, ResolveTenant, ReadGen, MatchCache, Render, PutCache, db
  <1>5. ASSUME NEW j \in Job, JobStep(j), ~BumpGen(j)
        PROVE UNCHANGED kv /\ rows' \in Nat /\ rows' >= rows
    BY <1>5 DEF JobStep, Publish, ReadUser, SaveSettings, Moderate, LoseBump, db
  <1>6. CASE Expire
    BY <1>1, <1>6 DEF Expire, db
  <1>7. CASE UNCHANGED vars
    BY <1>1, <1>7 DEF vars, db
  <1>8. QED
    BY <1>1, <1>2, <1>3, <1>4, <1>5, <1>6, <1>7 DEF Next
-----------------------------------------------------------------------------
Kept == KeysWritten /\ RenderedAfter /\ FloorKept
          /\ PagesCarryTheirGeneration /\ ServedIsNotOlder

\* What a writer does to D1, an expiry, or nothing at all disturbs no view.
LEMMA QuietKeeps ==
  ASSUME IInv, UNCHANGED <<kv, viewVars>>, rows' \in Nat, rows' >= rows,
         cache' \subseteq cache
  PROVE  Kept'
  BY DEF IInv, Typed, TypeOK, Kept, KeysWritten, RenderedAfter, FloorKept, AtLeast,
         PagesCarryTheirGeneration, ServedIsNotOlder, kv, viewVars

\* A new generation is larger than any a view holds or a page is cached under.
LEMMA BumpKeeps ==
  ASSUME IInv, NEW j \in Job, BumpGen(j)
  PROVE  Kept'
  <1>1. /\ bumps' = bumps \cup {[gen |-> gen + 1, rows |-> rows, css |-> css]}
        /\ gen' = gen + 1
        /\ UNCHANGED <<rows, edgeGen, cache, path, vpc, vcss, vgen, vrows, floor, served>>
    BY DEF BumpGen, db, viewVars
  <1> USE DEF IInv, Typed, TypeOK, BumpsOrdered
  <1>2. KeysWritten'
    BY <1>1 DEF KeysWritten, Entry, NoGen
  <1>3. RenderedAfter'
    BY <1>1 DEF RenderedAfter, KeysWritten, NoGen
  <1>4. FloorKept'
    BY <1>1 DEF FloorKept, AtLeast
  <1>5. PagesCarryTheirGeneration'
    BY <1>1 DEF PagesCarryTheirGeneration, KeysWritten, Entry
  <1>6. ServedIsNotOlder'
    BY <1>1 DEF ServedIsNotOlder
  <1>7. QED
    BY <1>2, <1>3, <1>4, <1>5, <1>6 DEF Kept

\* A later generation at the edge certifies what the earlier one did.
LEMMA PropagateKeeps ==
  ASSUME IInv, Propagate
  PROVE  Kept'
  <1>1. PICK b \in bumps : b.gen > edgeGen /\ edgeGen' = b.gen
    BY DEF Propagate
  <1>2. UNCHANGED <<rows, gen, bumps, cache, path, vpc, vcss, vgen, vrows, floor, served>>
    BY DEF Propagate, db, viewVars
  <1> USE DEF IInv, Typed, TypeOK, BumpsOrdered, Bump
  <1>3. ASSUME NEW v \in View, vpc[v] = "gen" PROVE AtLeast(v, edgeGen)'
    BY <1>1, <1>2, <1>3 DEF FloorKept, AtLeast
  <1>4. FloorKept'
    BY <1>2, <1>3 DEF FloorKept, AtLeast
  <1>5. QED
    BY <1>2, <1>4 DEF Kept, KeysWritten, RenderedAfter, PagesCarryTheirGeneration,
       ServedIsNotOlder

LEMMA ViewKeeps ==
  ASSUME IInv, NEW v \in View, ViewStep(v)
  PROVE  Kept'
  <1>1. UNCHANGED <<rows, gen, edgeGen, bumps>>
    BY DEF ViewStep, ResolveTenant, ReadGen, MatchCache, Render, PutCache, db, kv
  <1> USE <1>1 DEF IInv, Typed, TypeOK, BumpsOrdered, Kept, KeysWritten, RenderedAfter,
          FloorKept, AtLeast, PagesCarryTheirGeneration, ServedIsNotOlder, GoTo, Answer
  <1>2. CASE ResolveTenant(v)
    <2>1. UNCHANGED <<cache, vgen, vrows, served>>
      BY <1>2 DEF ResolveTenant
    <2>2. CASE vpc'[v] = "done"
      BY <1>2, <2>1, <2>2 DEF ResolveTenant
    <2>3. CASE vpc'[v] # "done"
      <3>1. PICK b \in bumps : b.gen = edgeGen /\ floor' = [floor EXCEPT ![v] = b.rows]
        BY <1>2, <2>3 DEF ResolveTenant
      <3>2. vpc' = [vpc EXCEPT ![v] = "gen"] /\ vpc[v] = "start"
        BY <1>2, <2>3 DEF ResolveTenant
      <3>3. b.rows <= rows
        OBVIOUS
      <3>4. FloorKept'
        BY <2>1, <3>1, <3>2, <3>3
      <3>5. ServedIsNotOlder'
        BY <2>1, <3>1, <3>2
      <3>6. QED
        BY <2>1, <3>2, <3>4, <3>5
    <2>4. QED
      BY <2>2, <2>3
  <1>3. CASE ReadGen(v)
    BY <1>3 DEF ReadGen
  <1>4. CASE MatchCache(v)
    <2>1. UNCHANGED <<rows, cache, vgen, vrows, floor>> /\ vpc[v] = "match"
      BY <1>4 DEF MatchCache, db
    <2>2. CASE GoTo(v, "render") /\ UNCHANGED served
      BY <2>1, <2>2
    <2>3. ASSUME NEW c \in Keyed(v), Answer(v, c.rows) PROVE Kept'
      <3>1. PICK b \in bumps : b.gen = vgen[v] /\ b.rows >= floor[v]
        BY <2>1
      <3>2. c \in cache /\ c.gen = vgen[v]
        BY <2>3 DEF Keyed
      <3>3. c.rows >= floor[v]
        BY <3>1, <3>2 DEF Entry, Bump
      <3>4. QED
        BY <2>1, <2>3, <3>3
    <2>4. QED
      BY <1>4, <2>2, <2>3 DEF MatchCache
  <1>5. CASE Render(v)
    BY <1>5 DEF Render
  <1>6. CASE PutCache(v)
    BY <1>6 DEF PutCache, Keyed
  <1>7. QED
    BY <1>2, <1>3, <1>4, <1>5, <1>6 DEF ViewStep
LEMMA KeptStep == IInv /\ [Next]_vars => Kept'
  <1> SUFFICES ASSUME IInv, [Next]_vars PROVE Kept'
    OBVIOUS
  <1> rows \in Nat
    BY DEF IInv, Typed, TypeOK
  <1>1. ASSUME NEW v \in View, ViewStep(v) PROVE Kept'
    BY <1>1, ViewKeeps
  <1>2. ASSUME NEW j \in Job, JobStep(j) PROVE Kept'
    <2>1. CASE BumpGen(j)
      BY <2>1, BumpKeeps
    <2>2. CASE ~BumpGen(j)
      <3>1. /\ UNCHANGED <<kv, viewVars, cache>>
            /\ rows' \in Nat /\ rows' >= rows
        BY <1>2, <2>2
        DEF JobStep, Publish, ReadUser, SaveSettings, Moderate, LoseBump, db
      <3>2. QED
        BY <3>1, QuietKeeps
    <2>3. QED
      BY <2>1, <2>2
  <1>3. CASE Propagate
    BY <1>3, PropagateKeeps
  <1>4. CASE Expire
    <2>1. UNCHANGED <<kv, viewVars>> /\ rows' = rows /\ cache' \subseteq cache
      BY <1>4 DEF Expire, db
    <2>2. QED
      BY <2>1, QuietKeeps
  <1>5. CASE UNCHANGED vars
    <2>1. UNCHANGED <<kv, viewVars>> /\ rows' = rows /\ cache' \subseteq cache
      BY <1>5 DEF vars, db
    <2>2. QED
      BY <2>1, QuietKeeps
  <1>6. QED
    BY <1>1, <1>2, <1>3, <1>4, <1>5 DEF Next

\* The inductive invariant holds of every behaviour, for any number of views,
\* writers, pages and failures.
THEOREM CacheInvariance == Spec => []IInv
  <1>1. IInv /\ [Next]_vars => IInv'
    <2> SUFFICES ASSUME IInv, [Next]_vars PROVE IInv'
      OBVIOUS
    <2>1. Typed'
      BY TypedStep DEF IInv
    <2>2. QED
      BY <2>1, BumpsOrderedStep, KeptStep DEF IInv, Kept
  <1>2. QED
    BY InvInit, <1>1, PTL DEF Spec

\* Every variable of the cache, the views and the writers keeps its type.
THEOREM CacheTypes == Spec => []TypeOK
  <1>1. IInv => TypeOK
    BY DEF IInv, Typed
  <1>2. QED
    BY CacheInvariance, <1>1, PTL

\* The middleware's read of gen before the render, and the writers' write of gen
\* after the commit, make every cached page carry what its key promises.
THEOREM CacheKeysHonest == Spec => []PagesCarryTheirGeneration
  <1>1. IInv => PagesCarryTheirGeneration
    BY DEF IInv
  <1>2. QED
    BY CacheInvariance, <1>1, PTL

\* No view is sent rows older than those announced at its edge when it began.
THEOREM ViewsNotOlder == Spec => []ServedIsNotOlder
  <1>1. IInv => ServedIsNotOlder
    BY DEF IInv
  <1>2. QED
    BY CacheInvariance, <1>1, PTL

-----------------------------------------------------------------------------
(***************************************************************************)
(* What is settled is current.                                             *)
(***************************************************************************)
\* The generation written last certifies r and s.
Certifies(r, s) ==
    /\ \A b \in bumps : b.gen = gen => b.rows = r
    /\ \E b \in bumps : b.gen = gen /\ b.css = s

\* A writer that has changed something, and has not bumped for it.
Owing == \E j \in Job : jpc[j] \in {"bump", "failed"}

\* Nothing was rendered that is not stored.
RenderedStored ==
    /\ \A v \in View : vpc[v] = "put" => vrows[v] <= rows
    /\ \A c \in cache : c.rows <= rows

\* One form at a time is between its read and its save, and what it read stands.
OneSave ==
    /\ \A j \in Job : jpc[j] = "save" => prev[j] = css
    /\ \A j, k \in Job : jpc[j] = "save" /\ jpc[k] = "save" => j = k

SettleInv ==
    /\ Owing \/ Certifies(rows, css)
    /\ RenderedStored
    /\ OneSave

LEMMA SettleImplies ==
    ASSUME IInv, SettleInv
    PROVE  SettledIsCurrent
<1> SUFFICES ASSUME Settled
             PROVE  /\ \A c \in cache : c.gen = gen => c.rows = rows
                    /\ \E b \in bumps : b.gen = gen /\ b.css = css
  BY DEF SettledIsCurrent
<1>1. Certifies(rows, css)
  BY DEF SettleInv, Settled, Owing
<1>2. PICK b \in bumps : b.gen = gen /\ b.css = css
  BY <1>1 DEF Certifies
<1>3. ASSUME NEW c \in cache, c.gen = gen
      PROVE  c.rows = rows
  <2>1. c.rows >= rows
    BY <1>1, <1>2, <1>3 DEF Certifies, IInv, PagesCarryTheirGeneration
  <2>2. c.rows <= rows /\ c.rows \in Nat /\ rows \in Nat
    BY DEF SettleInv, RenderedStored, IInv, Typed, TypeOK, Entry
  <2> QED
    BY <2>1, <2>2
<1> QED
  BY <1>2, <1>3

LEMMA ViewSettle ==
    ASSUME IInv, SettleInv, NEW v \in View, ViewStep(v)
    PROVE  SettleInv'
<1>1. UNCHANGED <<rows, css, gen, bumps, jobVars>>
  BY DEF ViewStep, ResolveTenant, ReadGen, MatchCache, Render, PutCache, db, kv
<1>2. (Owing \/ Certifies(rows, css))' /\ OneSave'
  BY <1>1 DEF SettleInv, Owing, Certifies, OneSave, jobVars
<1>3. /\ rows \in Nat /\ vrows \in [View -> Nat]
      /\ vpc \in [View -> {"start", "gen", "match", "render", "put", "done"}]
  BY DEF IInv, Typed, TypeOK
<1>4. RenderedStored'
  <2>1. CASE ResolveTenant(v) \/ ReadGen(v) \/ MatchCache(v)
    <3>1. /\ UNCHANGED <<cache, vrows, rows>>
          /\ \E s \in {"gen", "match", "render", "done"} : vpc' = [vpc EXCEPT ![v] = s]
      BY <2>1 DEF ResolveTenant, ReadGen, MatchCache, GoTo, Answer, db
    <3> QED
      BY <1>3, <3>1 DEF SettleInv, RenderedStored
  <2>2. CASE Render(v)
    <3>1. /\ UNCHANGED <<cache, rows>> /\ vrows' = [vrows EXCEPT ![v] = rows]
          /\ \E s \in {"put", "done"} : vpc' = [vpc EXCEPT ![v] = s]
      BY <2>2 DEF Render, GoTo, Answer, db
    <3> QED
      BY <1>3, <3>1 DEF SettleInv, RenderedStored
  <2>3. CASE PutCache(v)
    <3>1. /\ UNCHANGED <<vrows, rows>> /\ vpc[v] = "put"
          /\ vpc' = [vpc EXCEPT ![v] = "done"]
          /\ \A c \in cache' : c \in cache \/ c.rows = vrows[v]
      BY <2>3 DEF PutCache, GoTo, Answer, db
    <3> QED
      BY <1>3, <3>1 DEF SettleInv, RenderedStored
  <2> QED
    BY <2>1, <2>2, <2>3 DEF ViewStep
<1> QED
  BY <1>2, <1>4 DEF SettleInv

LEMMA JobSettle ==
    ASSUME ~SavesOverlap, IInv, SettleInv, NEW j \in Job, JobStep(j)
    PROVE  SettleInv'
<1>1. /\ UNCHANGED <<cache, vpc, vrows>>
      /\ jpc \in [Job -> {"start", "save", "bump", "done", "failed"}]
      /\ rows \in Nat /\ vrows \in [View -> Nat] /\ cache \subseteq Entry
      /\ bumps \subseteq Bump /\ gen \in Nat
  BY DEF JobStep, Publish, ReadUser, SaveSettings, Moderate, BumpGen, LoseBump, viewVars,
         IInv, Typed, TypeOK
<1>2. ASSUME rows' \in {rows, rows + 1}
      PROVE  RenderedStored'
  BY <1>1, <1>2 DEF SettleInv, RenderedStored, Entry
<1>3. CASE Publish(j)
  <2>1. rows' = rows + 1 /\ UNCHANGED <<css, prev>> /\ jpc' = [jpc EXCEPT ![j] = "bump"]
    BY <1>3 DEF Publish, JobAt
  <2>2. Owing' /\ OneSave'
    BY <1>1, <2>1 DEF Owing, OneSave, SettleInv
  <2> QED
    BY <1>2, <2>1, <2>2 DEF SettleInv
<1>4. CASE Moderate(j)
  <2>1. UNCHANGED <<rows, css, prev>> /\ jpc' = [jpc EXCEPT ![j] = "bump"]
    BY <1>4 DEF Moderate, JobAt
  <2>2. Owing' /\ OneSave'
    BY <1>1, <2>1 DEF Owing, OneSave, SettleInv
  <2> QED
    BY <1>2, <2>1, <2>2 DEF SettleInv
<1>5. CASE LoseBump(j)
  <2>1. UNCHANGED <<rows, css, prev>> /\ jpc' = [jpc EXCEPT ![j] = "failed"]
    BY <1>5 DEF LoseBump, JobAt, db
  <2>2. Owing' /\ OneSave'
    BY <1>1, <2>1 DEF Owing, OneSave, SettleInv
  <2> QED
    BY <1>2, <2>1, <2>2 DEF SettleInv
<1>6. CASE ReadUser(j)
  <2>1. /\ UNCHANGED <<rows, css, gen, bumps>> /\ jpc[j] = "start"
        /\ \A k \in Job : jpc[k] # "save"
        /\ \/ jpc' = [jpc EXCEPT ![j] = "done"] /\ UNCHANGED prev
           \/ jpc' = [jpc EXCEPT ![j] = "save"] /\ prev' = [prev EXCEPT ![j] = css]
    BY <1>6 DEF ReadUser, JobAt, db, kv
  <2>2. prev \in [Job -> Css]
    BY DEF IInv, Typed, TypeOK
  <2>3. OneSave'
    BY <1>1, <2>1, <2>2 DEF OneSave
  <2>4. (Owing \/ Certifies(rows, css))'
    BY <1>1, <2>1 DEF Owing, Certifies, SettleInv
  <2> QED
    BY <1>2, <2>1, <2>3, <2>4 DEF SettleInv
<1>7. CASE SaveSettings(j)
  <2>1. /\ UNCHANGED <<rows, gen, bumps, prev>> /\ jpc[j] = "save" /\ css' = task[j]
        /\ jpc' = [jpc EXCEPT ![j] = IF prev[j] # task[j] THEN "bump" ELSE "done"]
    BY <1>7 DEF SaveSettings, JobAt, kv
  <2>2. prev[j] = css
    BY <2>1 DEF SettleInv, OneSave
  <2>3. OneSave'
    BY <1>1, <2>1 DEF SettleInv, OneSave
  <2>4. CASE prev[j] # task[j]
    <3>1. Owing'
      BY <1>1, <2>1, <2>4 DEF Owing
    <3> QED
      BY <1>2, <2>1, <2>3, <3>1 DEF SettleInv
  <2>5. CASE prev[j] = task[j]
    <3>1. css' = css /\ jpc' = [jpc EXCEPT ![j] = "done"]
      BY <2>1, <2>2, <2>5
    <3>2. (Owing \/ Certifies(rows, css))'
      BY <1>1, <2>1, <3>1 DEF Owing, Certifies, SettleInv
    <3> QED
      BY <1>2, <2>1, <2>3, <3>2 DEF SettleInv
  <2> QED
    BY <2>4, <2>5
<1>8. CASE BumpGen(j)
  <2> DEFINE b == [gen |-> gen + 1, rows |-> rows, css |-> css]
  <2>1. /\ UNCHANGED <<rows, css, prev>> /\ gen' = gen + 1 /\ bumps' = bumps \cup {b}
        /\ jpc' = [jpc EXCEPT ![j] = "done"]
    BY <1>8 DEF BumpGen, JobAt, db
  <2>2. \A a \in bumps : a.gen # gen + 1
    BY <1>1 DEF IInv, BumpsOrdered, Bump
  <2>3. b.gen = gen + 1 /\ b.rows = rows /\ b.css = css
    OBVIOUS
  <2> HIDE DEF b
  <2>4. Certifies(rows, css)'
    BY <2>1, <2>2, <2>3 DEF Certifies
  <2>5. OneSave'
    BY <1>1, <2>1 DEF SettleInv, OneSave
  <2> QED
    BY <1>2, <2>1, <2>4, <2>5 DEF SettleInv
<1> QED
  BY <1>3, <1>4, <1>5, <1>6, <1>7, <1>8 DEF JobStep

LEMMA SettleStep ==
    ASSUME ~SavesOverlap, IInv, SettleInv, [Next]_vars
    PROVE  SettleInv'
<1>1. CASE Propagate \/ Expire \/ UNCHANGED vars
  <2>1. UNCHANGED <<rows, css, gen, bumps, jpc, prev, vpc, vrows>> /\ cache' \subseteq cache
    BY <1>1 DEF Propagate, Expire, vars, db, kv, viewVars, jobVars
  <2> QED
    BY <2>1 DEF SettleInv, Owing, Certifies, RenderedStored, OneSave
<1> QED
  BY <1>1, ViewSettle, JobSettle DEF Next

\* While the owner saves one form at a time, and with no change waiting for its bump
\* nor its bump lost, what is cached under the current generation shows the rows as
\* they are now, and that generation was written for the settings now stored.
THEOREM SettledPagesCurrent ==
    ASSUME ~SavesOverlap
    PROVE  Spec => []SettledIsCurrent
<1>1. Init => SettleInv
  BY DEF Init, SettleInv, Owing, Certifies, RenderedStored, OneSave
<1>2. SettleInv /\ IInv /\ [Next]_vars => SettleInv'
  BY SettleStep
<1> QED
  BY <1>1, <1>2, CacheInvariance, SettleImplies, PTL DEF Spec
=============================================================================
