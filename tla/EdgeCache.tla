----------------------------- MODULE EdgeCache ------------------------------
(***************************************************************************)
(* The edge cache of one blog: the tenant and cache middleware around the  *)
(* blog routes (src/src/middleware/tenant.ts, cache.ts, routes/tenant.ts)  *)
(* against everything that writes what a page shows and then bumps         *)
(* gen:<pubkey>: mirrorEvent, POST /dashboard/settings, POST /admin/block  *)
(* and /unblock.                                                           *)
(*                                                                         *)
(* A page is the pair (rows, css) it was rendered from: `rows` counts the  *)
(* commits to the blog's events, profile and zap tables, `css` stands for  *)
(* the settings a blog renders (css and about).  gen values are compared   *)
(* only for equality and are never reused; they are numbered here in the   *)
(* order they are written.  A page view or a writer is one request; each   *)
(* `await` on D1, KV or the Cache API is one action.                       *)
(*                                                                         *)
(* A definition named X_bug is X with a plausible bug, used by no action.  *)
(***************************************************************************)
EXTENDS Integers

CONSTANTS
    View,     \* page views
    Job,      \* requests that write
    Page,     \* paths of the blog
    Css,      \* settings an owner may save
    Css0,     \* the settings at the start
    SavesOverlap, \* FALSE when the owner saves one form at a time
    MayFail   \* TRUE when KV, the Cache API and writers may fail

\* A job publishes, moderates, or saves the settings it names.
Task == {"publish", "block", "unblock"} \cup Css

NoGen == -1

ASSUME CacheAssumption ==
    /\ Css0 \in Css
    /\ Css \cap {"publish", "block", "unblock"} = {}
    /\ MayFail \in BOOLEAN
    /\ SavesOverlap \in BOOLEAN

VARIABLES
    rows,      \* commits to the blog's tables
    css,       \* users.settings
    blocked,   \* users.blocked
    gen,       \* gen:<pubkey>, the value written last
    edgeGen,   \* the value a KV read returns at this edge location
    bumps,     \* what rows and css were at each write of gen (history)
    cache,     \* Cache API entries: [page, gen, rows, css]
    path,      \* [View -> Page]: the page a view asks for
    vpc,       \* [View -> STRING]: what the view awaits
    vcss,      \* settings in the row the tenant middleware resolved
    vgen,      \* generation in the view's cache key
    vrows,     \* rows the view rendered
    floor,     \* rows announced at this edge when the view began (history)
    served,    \* [View -> rows of the page sent, -1 for none]
    task,      \* [Job -> Task]
    jpc,       \* [Job -> STRING]
    prev       \* [Job -> Css]: settings in the row read before the save

db == <<rows, css, blocked>>
kv == <<gen, edgeGen, bumps>>
viewVars == <<path, vpc, vcss, vgen, vrows, floor, served>>
jobVars == <<task, jpc, prev>>
vars == <<db, kv, cache, viewVars, jobVars>>

Entry == [page : Page, gen : Nat, rows : Nat, css : Css]
Bump == [gen : Nat, rows : Nat, css : Css]

Init ==
    /\ rows = 0
    /\ css = Css0
    /\ blocked = FALSE
    /\ gen = 0
    /\ edgeGen = 0
    /\ bumps = {[gen |-> 0, rows |-> 0, css |-> Css0]}
    /\ cache = {}
    /\ path \in [View -> Page]
    /\ vpc = [v \in View |-> "start"]
    /\ vcss = [v \in View |-> Css0]
    /\ vgen = [v \in View |-> NoGen]
    /\ vrows = [v \in View |-> 0]
    /\ floor = [v \in View |-> 0]
    /\ served = [v \in View |-> -1]
    /\ task \in [Job -> Task]
    /\ jpc = [j \in Job |-> "start"]
    /\ prev = [j \in Job |-> Css0]

-----------------------------------------------------------------------------
(***************************************************************************)
(* A page view.                                                            *)
(***************************************************************************)
GoTo(v, step) == vpc' = [vpc EXCEPT ![v] = step]

Answer(v, n) ==
    /\ GoTo(v, "done")
    /\ served' = [served EXCEPT ![v] = n]

\* tenant: one row of users, which also carries the settings the page renders.
ResolveTenant(v) ==
    /\ vpc[v] = "start"
    /\ IF blocked
       THEN GoTo(v, "done") /\ UNCHANGED <<vcss, floor>>
       ELSE /\ GoTo(v, "gen")
            /\ vcss' = [vcss EXCEPT ![v] = css]
            /\ \E b \in bumps : /\ b.gen = edgeGen
                                /\ floor' = [floor EXCEPT ![v] = b.rows]
    /\ UNCHANGED <<db, kv, cache, path, vgen, vrows, served, jobVars>>

\* KV.get(gen:<pubkey>); a failed read serves uncached.
ReadGen(v) ==
    /\ vpc[v] = "gen"
    /\ \/ /\ vgen' = [vgen EXCEPT ![v] = edgeGen]
          /\ GoTo(v, "match")
       \/ /\ MayFail
          /\ GoTo(v, "render")
          /\ UNCHANGED vgen
    /\ UNCHANGED <<db, kv, cache, path, vcss, vrows, floor, served, jobVars>>

\* The key leaves the generation out.
Keyed_bug(v) == {c \in cache : c.page = path[v]}

Keyed(v) == {c \in cache : c.page = path[v] /\ c.gen = vgen[v]}

MatchCache(v) ==
    /\ vpc[v] = "match"
    /\ \/ \E c \in Keyed(v) : Answer(v, c.rows)
       \/ /\ Keyed(v) = {} \/ MayFail
          /\ GoTo(v, "render")
          /\ UNCHANGED served
    /\ UNCHANGED <<db, kv, cache, path, vcss, vgen, vrows, floor, jobVars>>

\* A view whose gen read failed fills the cache all the same.
Render_bug(v) ==
    /\ vpc[v] = "render"
    /\ vrows' = [vrows EXCEPT ![v] = rows]
    /\ GoTo(v, "put")
    /\ UNCHANGED <<db, kv, cache, path, vcss, vgen, floor, served, jobVars>>

\* The route handler reads D1 and renders.  Only a 200 goes on to the cache; a
\* view without a generation is past the cache middleware.
Render(v) ==
    /\ vpc[v] = "render"
    /\ vrows' = [vrows EXCEPT ![v] = rows]
    /\ \/ /\ vgen[v] # NoGen
          /\ GoTo(v, "put")
          /\ UNCHANGED served
       \/ /\ vgen[v] = NoGen
          /\ Answer(v, rows)
       \/ /\ GoTo(v, "done")      \* 404
          /\ UNCHANGED served
    /\ UNCHANGED <<db, kv, cache, path, vcss, vgen, floor, jobVars>>

\* The key is made from gen as it is after the render.
PutCache_bug(v) ==
    /\ vpc[v] = "put"
    /\ cache' = cache \cup {[page |-> path[v], gen |-> edgeGen,
                             rows |-> vrows[v], css |-> vcss[v]]}
    /\ Answer(v, vrows[v])
    /\ UNCHANGED <<db, kv, path, vcss, vgen, vrows, floor, jobVars>>

PutCache(v) ==
    /\ vpc[v] = "put"
    /\ \/ cache' = (cache \ Keyed(v))
                      \cup {[page |-> path[v], gen |-> vgen[v],
                             rows |-> vrows[v], css |-> vcss[v]]}
       \/ MayFail /\ UNCHANGED cache
    /\ Answer(v, vrows[v])
    /\ UNCHANGED <<db, kv, path, vcss, vgen, vrows, floor, jobVars>>

ViewStep(v) ==
    ResolveTenant(v) \/ ReadGen(v) \/ MatchCache(v) \/ Render(v) \/ PutCache(v)

-----------------------------------------------------------------------------
(***************************************************************************)
(* Writers.                                                                *)
(***************************************************************************)
JobAt(j, step) == jpc' = [jpc EXCEPT ![j] = step]

\* No bump.
Publish_bug(j) ==
    /\ jpc[j] = "start"
    /\ task[j] = "publish"
    /\ rows' = rows + 1
    /\ JobAt(j, "done")
    /\ UNCHANGED <<css, blocked, kv, cache, viewVars, task, prev>>

\* The D1 batch of mirrorEvent or applyDelete; the bump comes a round trip later.
Publish(j) ==
    /\ jpc[j] = "start"
    /\ task[j] = "publish"
    /\ rows' = rows + 1
    /\ JobAt(j, "bump")
    /\ UNCHANGED <<css, blocked, kv, cache, viewVars, task, prev>>

\* getUserByPubkey: the blocked gate, and the row the bump decision compares with.
ReadUser(j) ==
    /\ jpc[j] = "start"
    /\ task[j] \in Css
    /\ SavesOverlap \/ \A k \in Job : jpc[k] # "save"
    /\ IF blocked
       THEN JobAt(j, "done") /\ UNCHANGED prev
       ELSE JobAt(j, "save") /\ prev' = [prev EXCEPT ![j] = css]
    /\ UNCHANGED <<db, kv, cache, viewVars, task>>

\* updateBlogSettings, then prev.css !== css || prev.about !== about.
SaveSettings(j) ==
    /\ jpc[j] = "save"
    /\ css' = task[j]
    /\ JobAt(j, IF prev[j] # task[j] THEN "bump" ELSE "done")
    /\ UNCHANGED <<rows, blocked, kv, cache, viewVars, task, prev>>

Moderate(j) ==
    /\ jpc[j] = "start"
    /\ task[j] \in {"block", "unblock"}
    /\ blocked' = (task[j] = "block")
    /\ JobAt(j, "bump")
    /\ UNCHANGED <<rows, css, kv, cache, viewVars, task, prev>>

BumpGen(j) ==
    /\ jpc[j] = "bump"
    /\ gen' = gen + 1
    /\ bumps' = bumps \cup {[gen |-> gen + 1, rows |-> rows, css |-> css]}
    /\ JobAt(j, "done")
    /\ UNCHANGED <<db, edgeGen, cache, viewVars, task, prev>>

\* The KV write fails or the isolate dies between the D1 write and the bump.
LoseBump(j) ==
    /\ MayFail
    /\ jpc[j] = "bump"
    /\ JobAt(j, "failed")
    /\ UNCHANGED <<db, kv, cache, viewVars, task, prev>>

JobStep(j) ==
    \/ Publish(j)
    \/ ReadUser(j)
    \/ SaveSettings(j)
    \/ Moderate(j)
    \/ BumpGen(j)
    \/ LoseBump(j)

\* KV is eventually consistent: an edge location learns a write later, and may
\* skip some.
Propagate ==
    /\ \E b \in bumps : b.gen > edgeGen /\ edgeGen' = b.gen
    /\ UNCHANGED <<db, gen, bumps, cache, viewVars, jobVars>>

\* s-maxage passes, or the Cache API drops the entry.
Expire ==
    /\ \E c \in cache : cache' = cache \ {c}
    /\ UNCHANGED <<db, kv, viewVars, jobVars>>

Next ==
    \/ \E v \in View : ViewStep(v)
    \/ \E j \in Job : JobStep(j)
    \/ Propagate
    \/ Expire

Spec == Init /\ [][Next]_vars

-----------------------------------------------------------------------------
(***************************************************************************)
(* Properties.                                                             *)
(***************************************************************************)
\* The blog's tables, generations, cache entries, views and writers have their
\* types: a cached page always has a generation of its own.
TypeOK ==
    /\ rows \in Nat
    /\ css \in Css
    /\ blocked \in BOOLEAN
    /\ gen \in Nat
    /\ edgeGen \in Nat
    /\ bumps \subseteq Bump
    /\ cache \subseteq Entry
    /\ path \in [View -> Page]
    /\ vpc \in [View -> {"start", "gen", "match", "render", "put", "done"}]
    /\ vcss \in [View -> Css]
    /\ vgen \in [View -> Nat \cup {NoGen}]
    /\ vrows \in [View -> Nat]
    /\ floor \in [View -> Nat]
    /\ served \in [View -> Nat \cup {-1}]
    /\ task \in [Job -> Task]
    /\ jpc \in [Job -> {"start", "save", "bump", "done", "failed"}]
    /\ prev \in [Job -> Css]

\* A page cached under a generation shows every row change that generation was
\* written for: views read gen before D1, writers write D1 before gen, so no
\* slow render can plant an old page under a new key.
PagesCarryTheirGeneration ==
    \A c \in cache, b \in bumps : c.gen = b.gen => c.rows >= b.rows

\* A view that begins once a change's bump has reached its edge location is
\* never sent a page without that change, cached or not, though the KV value
\* may move while it runs.
ServedIsNotOlder == \A v \in View : served[v] # -1 => served[v] >= floor[v]

Settled == \A j \in Job : jpc[j] \in {"start", "done"}

\* With no writer between its D1 write and its bump and none lost, whatever is
\* cached under the current generation shows the rows as they are now, and that
\* generation was written for the settings now stored: a save that changed what
\* blogs render did bump.
SettledIsCurrent ==
    Settled =>
        /\ \A c \in cache : c.gen = gen => c.rows = rows
        /\ \E b \in bumps : b.gen = gen /\ b.css = css

\* With no writer under way, a page cached under the current generation wears
\* the stored settings.
SettingsFresh == Settled => \A c \in cache : c.gen = gen => c.css = css
=============================================================================
