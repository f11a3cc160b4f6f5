---------------------------- MODULE EditorProofs ----------------------------
(***************************************************************************)
(* Proofs about Editor for any number of tabs, keys and relays, and any    *)
(* bounds.  Nearly all that the properties need is a matter of one page    *)
(* and of what has been approved so far (PageOK); the tabs meet in the one *)
(* pending record, which PendingOK covers, and in the drafts.              *)
(***************************************************************************)
EXTENDS Editor, FiniteSetTheorems, SequenceTheorems, WellFoundedInduction, TLAPS

At == {"page", "signing", "posting", "answered", "casting", "away", "left", "404"}
Jobs == {"none", "fresh", "resumed", "retry"}
Frames == {"ok", "denied", "refused", "challenge", "welcome", "unwelcome"}
Upload == [at : {"none", "signing", "putting", "settled"}, server : Nat]
Attempt == [out : Seq({"EVENT", "AUTH"}), back : Seq(Frames), dared : BOOLEAN,
            tried : BOOLEAN, signing : BOOLEAN, known : BOOLEAN, resent : BOOLEAN,
            has : BOOLEAN, denied : BOOLEAN, over : {"no", "answered", "unwelcome", "cut"}]
PageState ==
    [at : At, key : Key, text : Text, served : Text, offer : Text \cup {NoText},
     off : BOOLEAN, due : BOOLEAN, stale : BOOLEAN, armed : Event \cup {NoEvent},
     job : Jobs, ev : Event \cup {NoEvent}, got : {"none", "stored", "stale", "lost"},
     up : [1..MaxUploads -> Upload], conn : [Relay -> Attempt]]

\* A page has an event in hand exactly while it signs or sends one, and one that
\* is sent was approved.  m is the mix, app what has been approved.
FlowOK(m, t, p, app) ==
    /\ m.page[t] = "none" => p.at = "page"
    /\ p.at \in {"posting", "answered", "casting"} <=> p.job # "none"
    /\ p.job # "none" \/ p.at = "signing" => p.ev # NoEvent
    /\ p.job # "none" => p.ev \in app
    /\ p.ev # NoEvent /\ m.page[t] # "login" => p.ev.kind # "auth"
    /\ p.at = "away" => m.redirect
    /\ p.armed # NoEvent =>
          /\ m.redirect /\ m.page[t] \in {"new", "profile"}
          /\ p.armed \in app /\ p.armed.kind # "auth"
    /\ p.off => p.at = "left"

\* Uploads are numbered in the order they start.
Numbered(up) ==
    \E k \in 0..MaxUploads : {n \in 1..MaxUploads : up[n].at # "none"} = 1..k

\* A placeholder is unique and that of an upload under way.
Live(marks, up) ==
    \A i \in 1..Len(marks) : marks[i] # 0 =>
       /\ up[marks[i]].at \in {"signing", "putting"}
       /\ \A j \in 1..Len(marks) : marks[j] = marks[i] => j = i

TokensOK(p) ==
    /\ Numbered(p.up)
    /\ ~p.stale => Live(p.text.marks, p.up)

\* A relay that welcomed the key refuses nothing any more.
AttemptOK(m, c) ==
    /\ c.over = "answered" => c.has \/ c.denied \/ m.redirect
    /\ \A i \in 1..Len(c.back) : /\ c.back[i] = "ok" => c.has
                                 /\ c.back[i] = "denied" => c.denied
                                 /\ c.back[i] = "welcome" => c.known
                                 /\ \A j \in 1..Len(c.back) :
                                       c.back[i] = "welcome" /\ c.back[j] = "refused" => j < i
    /\ c.resent => c.known /\ \A i \in 1..Len(c.back) : c.back[i] # "refused"

PageOK(m, t, p, app) ==
    /\ p \in PageState
    /\ FlowOK(m, t, p, app)
    /\ TokensOK(p)
    /\ \A r \in Relay : AttemptOK(m, p.conn[r])

PendingRecord == [kind : {"login", "publish", "delete"}, ev : Event \cup {NoEvent}, old : BOOLEAN]
PendingOK ==
    pending # NoRecord =>
       /\ pending \in PendingRecord
       /\ pending.ev # NoEvent => pending.kind = Bucket(pending.ev)
       /\ pending.ev = NoEvent => pending.kind = "login"

Held == [kind : EventKind, text : Text, at : Nat, by : Key] \cup {NoEvent}
Drafts == [Key \X {"new", "edit"} -> Text \cup {NoText}]

Shared ==
    /\ mix \in Mixes
    /\ signer \in Key \cup {NoKey}
    /\ session \in Key
    /\ draft \in Drafts
    /\ site \in [Key \X {"post", "profile"} -> Held]
    /\ edits \in 0..mix.edits
    /\ clicks \in 0..mix.clicks
    /\ PendingOK

Approvals ==
    /\ approved \subseteq Event
    /\ OnlyApproved

Pages ==
    /\ tab = [t \in Tab |-> tab[t]]
    /\ \A t \in Tab : PageOK(mix, t, tab[t], approved)

Inv == Shared /\ Approvals /\ Pages

-----------------------------------------------------------------------------
LEMMA MixFields ==
    ASSUME mix \in Mixes
    PROVE  /\ mix.page \in [Tab -> Page \cup {"none"}]
           /\ mix.redirect \in BOOLEAN /\ mix.relays \subseteq Relay
           /\ mix.edits \in Nat /\ mix.edits <= MaxEdits
           /\ mix.clicks \in Nat /\ mix.clicks <= MaxClicks
BY EditorAssumption DEF MixType

\* Where the draft of an editor page lies.
LEMMA DraftKeyOf ==
    ASSUME NEW k, NEW t
    PROVE  /\ DraftKey(k, t)[2] = mix.page[t]
           /\ k \in Key /\ IsEditor(t) => DraftKey(k, t) \in Key \X {"new", "edit"}
BY DEF DraftKey, IsEditor

LEMMA BlankText == Blank \in Text /\ Blank.marks = << >> /\ Blank.ver = 0
BY EditorAssumption DEF Blank, Text

LEMMA FreshConn ==
    /\ NoConn \in Attempt
    /\ \A m : AttemptOK(m, NoConn)
<1>1. NoConn \in Attempt
  BY DEF NoConn, Attempt, Frames
<1>2. NoConn.back = << >> /\ NoConn.over = "no" /\ ~NoConn.resent
  BY DEF NoConn
<1> QED
  BY <1>1, <1>2 DEF AttemptOK

\* The uploads of a page that was just loaded.
LEMMA FreshUploads ==
    /\ [n \in 1..MaxUploads |-> NoUpload] \in [1..MaxUploads -> Upload]
    /\ Numbered([n \in 1..MaxUploads |-> NoUpload])
<1> DEFINE up == [n \in 1..MaxUploads |-> NoUpload]
<1>1. NoUpload \in Upload /\ NoUpload.at = "none"
  BY DEF NoUpload, Upload
<1>2. {n \in 1..MaxUploads : up[n].at # "none"} = 1..0
  BY <1>1
<1>3. 0 \in 0..MaxUploads
  BY EditorAssumption
<1> QED
  BY <1>1, <1>2, <1>3 DEF Numbered

LEMMA ServedText ==
    ASSUME mix \in Mixes, session \in Key, NEW t \in Tab,
           NEW posts \in [Key \X {"post", "profile"} -> Held]
    PROVE  Served(t, posts) \in Text
<1>1. posts[<<session, "post">>] \in Held
  OBVIOUS
<1> QED
  BY <1>1, BlankText DEF Served, Held

LEMMA LoadedPage ==
    ASSUME mix \in Mixes, session \in Key, site \in [Key \X {"post", "profile"} -> Held],
           NEW drafts \in Drafts, NEW t \in Tab
    PROVE  /\ Loaded(t, drafts) \in PageState
           /\ Loaded(t, drafts).at \in {"page", "404"}
           /\ mix.page[t] # "edit" => Loaded(t, drafts).at = "page"
           /\ Loaded(t, drafts).job = "none" /\ Loaded(t, drafts).ev = NoEvent
           /\ Loaded(t, drafts).armed = NoEvent /\ ~Loaded(t, drafts).off
           /\ Loaded(t, drafts).text = Loaded(t, drafts).served
           /\ ~Loaded(t, drafts).stale => Loaded(t, drafts).text.marks = << >>
           /\ Loaded(t, drafts).up = [n \in 1..MaxUploads |-> NoUpload]
           /\ Loaded(t, drafts).conn = [r \in Relay |-> NoConn]
<1>1. Served(t, site) \in Text
  BY ServedText
<1>2. IsEditor(t) => drafts[DraftKey(session, t)] \in Text \cup {NoText}
  BY DraftKeyOf DEF Drafts
<1>3. [r \in Relay |-> NoConn] \in [Relay -> Attempt]
  BY FreshConn
<1>4. mix.page[t] # "edit" => Found(t, site)
  BY DEF Found
<1> QED
  BY <1>1, <1>2, <1>3, <1>4, FreshUploads DEF Loaded, PageState, At, Jobs

LEMMA LoadedOK ==
    ASSUME mix \in Mixes, session \in Key, site \in [Key \X {"post", "profile"} -> Held],
           NEW drafts \in Drafts, NEW t \in Tab, NEW app
    PROVE  PageOK(mix, t, Loaded(t, drafts), app)
<1> DEFINE p == Loaded(t, drafts)
<1>1. /\ p \in PageState
      /\ p.at \in {"page", "404"}
      /\ mix.page[t] # "edit" => p.at = "page"
      /\ p.job = "none" /\ p.ev = NoEvent /\ p.armed = NoEvent /\ ~p.off
      /\ ~p.stale => p.text.marks = << >>
      /\ p.up = [n \in 1..MaxUploads |-> NoUpload]
      /\ p.conn = [r \in Relay |-> NoConn]
  BY LoadedPage
<1> HIDE DEF p
<1>2. FlowOK(mix, t, p, app)
  BY <1>1 DEF FlowOK
<1>3. TokensOK(p)
  <2>1. Numbered(p.up)
    BY <1>1, FreshUploads
  <2>2. ~p.stale => Live(p.text.marks, p.up)
    BY <1>1 DEF Live
  <2> QED
    BY <2>1, <2>2 DEF TokensOK
<1>4. \A r \in Relay : AttemptOK(mix, p.conn[r])
  BY <1>1, FreshConn
<1> QED
  BY <1>1, <1>2, <1>3, <1>4 DEF PageOK, p

LEMMA SiftedDrafts ==
    ASSUME mix \in Mixes, session \in Key, NEW drafts \in Drafts, NEW t \in Tab
    PROVE  Sifted(t, drafts) \in Drafts
BY DEF Sifted, Drafts

LEMMA InvInit == Init => Inv
<1> SUFFICES ASSUME Init PROVE Inv
  OBVIOUS
<1>1. /\ mix \in Mixes /\ signer \in Key \cup {NoKey} /\ session \in Key
      /\ draft \in Drafts
  BY EditorAssumption DEF Init, Drafts
<1>2. edits \in 0..mix.edits /\ clicks \in 0..mix.clicks
  BY <1>1, MixFields DEF Init
<1>3. site \in [Key \X {"post", "profile"} -> Held]
  <2>1. [kind |-> "post", text |-> Blank, at |-> 0, by |-> Me] \in Held
    BY BlankText, EditorAssumption DEF Held, EventKind
  <2>2. NoEvent \in Held
    BY DEF Held
  <2> QED
    BY <2>1, <2>2 DEF Init
<1>4. Shared
  BY <1>1, <1>2, <1>3 DEF Shared, PendingOK, Init
<1>5. Approvals
  BY DEF Approvals, OnlyApproved, Init
<1>6. tab = [t \in Tab |-> Loaded(t, draft)]
  BY DEF Init
<1>7. Pages
  <2>1. \A t \in Tab : PageOK(mix, t, Loaded(t, draft), approved)
    BY <1>1, <1>3, LoadedOK
  <2>2. \A t \in Tab : tab[t] = Loaded(t, draft)
    BY <1>6
  <2>3. tab = [t \in Tab |-> tab[t]]
    BY <1>6
  <2> QED
    BY <2>1, <2>2, <2>3 DEF Pages
<1> QED
  BY <1>4, <1>5, <1>7 DEF Inv

-----------------------------------------------------------------------------
(***************************************************************************)
(* What a step has to show.                                                *)
(***************************************************************************)
LEMMA MoreApproved ==
    ASSUME NEW m, NEW t, NEW p, NEW app, NEW app2, app \subseteq app2, PageOK(m, t, p, app)
    PROVE  PageOK(m, t, p, app2)
BY DEF PageOK, FlowOK

LEMMA PageSet ==
    ASSUME Pages, NEW t \in Tab, NEW p, Set(t, p), mix' = mix, approved \subseteq approved',
           PageOK(mix, t, p, approved')
    PROVE  Pages'
<1>1. tab' = [u \in Tab |-> IF u = t THEN p ELSE tab[u]]
  BY DEF Set, Pages
<1>2. \A u \in Tab : PageOK(mix, u, tab'[u], approved')
  BY <1>1, MoreApproved DEF Pages
<1> QED
  BY <1>1, <1>2 DEF Pages

LEMMA SharedFrame ==
    ASSUME Shared, Approvals,
           UNCHANGED <<mix, session, site, edits, clicks, taken>>,
           signer' \in Key \cup {NoKey}, draft' \in Drafts, PendingOK',
           approved \subseteq approved', approved' \subseteq Event
    PROVE  Shared' /\ Approvals'
BY DEF Shared, Approvals, OnlyApproved

\* A step that leaves the images and the attempts of a page alone.
Alike(p, q) ==
    q.up = p.up /\ q.stale = p.stale /\ q.text.marks = p.text.marks /\ q.conn = p.conn

LEMMA Reworked ==
    ASSUME NEW m, NEW t, NEW p, NEW q, NEW app, NEW app2, PageOK(m, t, p, app),
           q \in PageState, Alike(p, q), FlowOK(m, t, q, app2)
    PROVE  PageOK(m, t, q, app2)
BY DEF PageOK, Alike, TokensOK

LEMMA WrittenDrafts ==
    ASSUME mix \in Mixes, NEW t \in Tab, NEW p \in PageState, NEW drafts \in Drafts
    PROVE  Written(t, p, drafts) \in Drafts
<1>1. p.text \in Text
  BY DEF PageState
<1> QED
  BY <1>1 DEF Written, Drafts

-----------------------------------------------------------------------------
LEMMA TypeKeeps ==
    ASSUME Inv, NEW t \in Tab, Type(t) PROVE Inv'
<1> DEFINE p == tab[t]
           q == [p EXCEPT !.text.ver = edits + 1, !.due = IsEditor(t)]
<1>0. /\ Shared /\ Approvals /\ Pages /\ PageOK(mix, t, p, approved) /\ p \in PageState
      /\ mix \in Mixes
  BY DEF Inv, Pages, PageOK, Shared
<1>1. edits + 1 \in 0..mix.edits /\ edits + 1 \in 0..MaxEdits
  <2>1. edits \in 0..mix.edits /\ edits < mix.edits
    BY <1>0 DEF Type, Shared
  <2>2. mix.edits \in Nat /\ mix.edits <= MaxEdits /\ MaxEdits \in Nat
    BY <1>0, MixFields, EditorAssumption
  <2> QED
    BY <2>1, <2>2
<1>2. /\ Set(t, q) /\ edits' = edits + 1
      /\ UNCHANGED <<mix, browser, session, site, clicks, approved, taken>>
  BY DEF Type
<1>3. q \in PageState /\ Alike(p, q) /\ q.at = p.at /\ q.job = p.job /\ q.ev = p.ev
      /\ q.armed = p.armed /\ q.off = p.off
  <2>1. IsEditor(t) \in BOOLEAN
    BY DEF IsEditor
  <2>2. p.text \in Text
    BY <1>0 DEF PageState
  <2>3. [p.text EXCEPT !.ver = edits + 1] \in Text
        /\ [p.text EXCEPT !.ver = edits + 1].marks = p.text.marks
    BY <1>1, <2>2 DEF Text
  <2> QED
    BY <1>0, <2>1, <2>2, <2>3 DEF PageState, Alike
<1> HIDE DEF q
<1>4. PageOK(mix, t, q, approved)
  <2>1. FlowOK(mix, t, q, approved)
    BY <1>0, <1>3 DEF PageOK, FlowOK
  <2> QED
    BY <1>0, <1>3, <2>1, Reworked
<1>5. Pages'
  BY <1>0, <1>2, <1>4, PageSet
<1>6. Shared' /\ Approvals'
  BY <1>0, <1>1, <1>2 DEF Shared, PendingOK, browser, Approvals, OnlyApproved
<1> QED
  BY <1>5, <1>6 DEF Inv

LEMMA DraftTimerKeeps ==
    ASSUME Inv, NEW t \in Tab, DraftTimer(t) PROVE Inv'
<1> DEFINE p == tab[t]
           q == [p EXCEPT !.due = FALSE]
<1>0. /\ Shared /\ Approvals /\ Pages /\ PageOK(mix, t, p, approved) /\ p \in PageState
      /\ mix \in Mixes /\ draft \in Drafts
  BY DEF Inv, Pages, PageOK, Shared
<1>1. /\ Set(t, q) /\ draft' = Written(t, p, draft)
      /\ UNCHANGED <<mix, signer, pending, session, site, edits, clicks, approved, taken>>
  BY DEF DraftTimer, WriteDraft, history
<1>2. q \in PageState /\ Alike(p, q) /\ q.at = p.at /\ q.job = p.job /\ q.ev = p.ev
      /\ q.armed = p.armed /\ q.off = p.off
  BY <1>0 DEF PageState, Alike
<1> HIDE DEF q
<1>3. PageOK(mix, t, q, approved)
  <2>1. FlowOK(mix, t, q, approved)
    BY <1>0, <1>2 DEF PageOK, FlowOK
  <2> QED
    BY <1>0, <1>2, <2>1, Reworked
<1>4. Pages'
  BY <1>0, <1>1, <1>3, PageSet
<1>5. draft' \in Drafts
  BY <1>0, <1>1, WrittenDrafts
<1>6. Shared' /\ Approvals'
  BY <1>0, <1>1, <1>5, SharedFrame DEF Shared, PendingOK, Approvals
<1> QED
  BY <1>4, <1>6 DEF Inv

LEMMA RestoreDraftKeeps ==
    ASSUME Inv, NEW t \in Tab, RestoreDraft(t) PROVE Inv'
<1> DEFINE p == tab[t]
           q == [p EXCEPT !.text = p.offer, !.offer = NoText, !.due = TRUE,
                          !.stale = @ \/ p.offer.marks # << >>]
<1>0. /\ Shared /\ Approvals /\ Pages /\ PageOK(mix, t, p, approved) /\ p \in PageState
      /\ draft \in Drafts
  BY DEF Inv, Pages, PageOK, Shared
<1>1. /\ Set(t, q) /\ p.offer # NoText
      /\ UNCHANGED <<mix, browser, session, site, edits, clicks, approved, taken>>
  BY DEF RestoreDraft, history
<1>2. /\ q \in PageState /\ q.at = p.at /\ q.job = p.job /\ q.ev = p.ev
      /\ q.armed = p.armed /\ q.off = p.off /\ q.up = p.up /\ q.conn = p.conn
      /\ ~q.stale => q.text.marks = << >>
  BY <1>0, <1>1 DEF PageState
<1> HIDE DEF q
<1>3. PageOK(mix, t, q, approved)
  <2>1. FlowOK(mix, t, q, approved)
    BY <1>0, <1>2 DEF PageOK, FlowOK
  <2>2. ~q.stale => Live(q.text.marks, q.up)
    BY <1>2 DEF Live
  <2> QED
    BY <1>0, <1>2, <2>1, <2>2 DEF PageOK, TokensOK
<1>4. Pages'
  BY <1>0, <1>1, <1>3, PageSet
<1>5. Shared' /\ Approvals'
  BY <1>0, <1>1, SharedFrame DEF Shared, PendingOK, Approvals, browser
<1> QED
  BY <1>4, <1>5 DEF Inv

LEMMA DiscardDraftKeeps ==
    ASSUME Inv, NEW t \in Tab, DiscardDraft(t) PROVE Inv'
<1> DEFINE p == tab[t]
           q == [p EXCEPT !.offer = NoText]
<1>0. /\ Shared /\ Approvals /\ Pages /\ PageOK(mix, t, p, approved) /\ p \in PageState
      /\ draft \in Drafts
  BY DEF Inv, Pages, PageOK, Shared
<1>1. /\ Set(t, q) /\ draft' = [draft EXCEPT ![DraftKey(p.key, t)] = NoText]
      /\ UNCHANGED <<mix, signer, pending, session, site, edits, clicks, approved, taken>>
  BY DEF DiscardDraft
<1>2. q \in PageState /\ Alike(p, q) /\ q.at = p.at /\ q.job = p.job /\ q.ev = p.ev
      /\ q.armed = p.armed /\ q.off = p.off
  BY <1>0 DEF PageState, Alike
<1> HIDE DEF q
<1>3. PageOK(mix, t, q, approved)
  <2>1. FlowOK(mix, t, q, approved)
    BY <1>0, <1>2 DEF PageOK, FlowOK
  <2> QED
    BY <1>0, <1>2, <2>1, Reworked
<1>4. Pages'
  BY <1>0, <1>1, <1>3, PageSet
<1>5. draft' \in Drafts
  BY <1>0, <1>1 DEF Drafts
<1>6. Shared' /\ Approvals'
  BY <1>0, <1>1, <1>5, SharedFrame DEF Shared, PendingOK, Approvals
<1> QED
  BY <1>4, <1>6 DEF Inv

LEMMA LoadKeeps ==
    ASSUME Inv, NEW t \in Tab, NEW drafts \in Drafts, Load(t, drafts),
           UNCHANGED <<mix, signer, pending, session, site, edits, clicks, approved, taken>>
    PROVE  Inv'
<1>0. /\ Shared /\ Approvals /\ Pages
      /\ mix \in Mixes /\ session \in Key /\ site \in [Key \X {"post", "profile"} -> Held]
  BY DEF Inv, Shared
<1>1. PageOK(mix, t, Loaded(t, drafts), approved)
  BY <1>0, LoadedOK
<1>2. Pages'
  BY <1>0, <1>1, PageSet DEF Load
<1>3. draft' \in Drafts
  BY <1>0, SiftedDrafts DEF Load
<1>4. Shared' /\ Approvals'
  BY <1>0, <1>3, SharedFrame DEF Shared, PendingOK, Approvals
<1> QED
  BY <1>2, <1>4 DEF Inv

LEMMA LoadsKeep ==
    ASSUME Inv, NEW t \in Tab, Reload(t) \/ Open(t) \/ GoBack(t) PROVE Inv'
<1>0. mix \in Mixes /\ draft \in Drafts /\ tab[t] \in PageState
  BY DEF Inv, Shared, Pages, PageOK
<1>1. WriteDraft(t) \in Drafts
  BY <1>0, WrittenDrafts DEF WriteDraft
<1> QED
  BY <1>0, <1>1, LoadKeeps DEF Reload, Open, GoBack, history

-----------------------------------------------------------------------------
(***************************************************************************)
(* The signing app and the one pending record.                             *)
(***************************************************************************)
\* What resumePending may tell a page.
LEMMA ResumedIs ==
    ASSUME NEW reply
    PROVE  /\ Resumed(reply).is = "signed" =>
                /\ pending # NoRecord /\ Resumed(reply).kind = pending.kind
                /\ reply.flow = "sign" /\ pending.ev # NoEvent
                /\ reply.sig = pending.ev /\ reply.by = pending.ev.by
           /\ Resumed(reply).is = "pubkey" => reply.flow = "pubkey"
BY DEF Resumed, Completes

\* A new event is one, and has a place among the clicks.
LEMMA Made ==
    ASSUME mix \in Mixes, clicks \in 0..mix.clicks, clicks < mix.clicks,
           NEW kind \in EventKind, NEW text \in Text, NEW k \in Key
    PROVE  /\ [kind |-> kind, at |-> clicks + 1, by |-> k, text |-> text] \in Event
           /\ [kind |-> kind, text |-> text, at |-> clicks + 1, by |-> k] \in Event
           /\ clicks + 1 \in 0..mix.clicks
<1>1. mix.clicks \in Nat /\ mix.clicks <= MaxClicks /\ MaxClicks \in Nat
  BY MixFields, EditorAssumption
<1>2. clicks + 1 \in 0..mix.clicks /\ clicks + 1 \in 1..MaxClicks
  BY <1>1
<1> QED
  BY <1>2 DEF Event

LEMMA AuthMade ==
    ASSUME mix \in Mixes, clicks \in 0..mix.clicks, clicks < mix.clicks, NEW k \in Key
    PROVE  /\ [AuthEvent EXCEPT !.by = k] \in Event
           /\ [AuthEvent EXCEPT !.by = k].kind = "auth"
           /\ clicks + 1 \in 0..mix.clicks
<1>1. [AuthEvent EXCEPT !.by = k] = [kind |-> "auth", text |-> Blank, at |-> clicks + 1, by |-> k]
  BY DEF AuthEvent
<1>2. "auth" \in EventKind
  BY DEF EventKind
<1> QED
  BY <1>1, <1>2, Made, BlankText

LEMMA RecordOK ==
    ASSUME NEW kind \in {"login", "publish", "delete"}, NEW ev \in Event \cup {NoEvent},
           ev # NoEvent => kind = Bucket(ev), ev = NoEvent => kind = "login",
           pending' = Record(kind, ev)
    PROVE  PendingOK'
<1>1. pending'.kind = kind /\ pending'.ev = ev /\ pending' \in PendingRecord
  BY DEF Record, PendingRecord
<1> QED
  BY <1>1 DEF PendingOK

LEMMA Buckets ==
    \A e \in Event : /\ Bucket(e) \in {"login", "publish", "delete"}
                     /\ Bucket(e) = "login" <=> e.kind = "auth"
BY DEF Bucket, Event, EventKind

\* A page that was loaded and goes on to send an approved event.
LEMMA SendingOK ==
    ASSUME NEW m, NEW t, NEW app, NEW p, PageOK(m, t, p, app), m.page[t] # "none",
           NEW e \in Event, e \in app, m.page[t] # "login" => e.kind # "auth",
           NEW job \in Jobs \ {"none"}, ~p.off
    PROVE  PageOK(m, t, Sending(p, e, job), app)
<1> DEFINE q == Sending(p, e, job)
<1>1. /\ q \in PageState /\ Alike(p, q) /\ q.at = "posting" /\ q.ev = e /\ q.job = job
      /\ q.armed = p.armed /\ q.off = p.off
  BY ZenonT(60) DEF PageOK, PageState, Sending, Alike, At, Jobs
<1> HIDE DEF q
<1>2. FlowOK(m, t, q, app)
  BY <1>1, EventAssumption DEF PageOK, FlowOK, Jobs
<1>3. PageOK(m, t, q, app)
  BY <1>1, <1>2, Reworked
<1> QED
  BY <1>3 DEF q

LEMMA CallbackKeeps ==
    ASSUME Inv, NEW t \in Tab, tab[t].at = "away", NEW reply, Callback(t, reply),
           UNCHANGED <<mix, session, site, edits, taken>>,
           approved \subseteq approved', approved' \subseteq Event,
           reply.flow = "sign" /\ reply.sig # NoEvent /\ reply.by = reply.sig.by =>
              reply.sig \in approved',
           reply.flow = "pubkey" => reply.by \in Key
    PROVE  Inv'
<1> DEFINE p == tab[t]
           page == Loaded(t, draft)
<1>0. /\ Shared /\ Approvals /\ Pages /\ PageOK(mix, t, p, approved) /\ p \in PageState
      /\ mix \in Mixes /\ draft \in Drafts /\ session \in Key /\ signer \in Key \cup {NoKey}
      /\ site \in [Key \X {"post", "profile"} -> Held] /\ clicks \in 0..mix.clicks
      /\ PendingOK
  BY DEF Inv, Pages, PageOK, Shared
<1>1. mix.redirect /\ mix.page[t] # "none" /\ p.job = "none" /\ ~p.off
  BY <1>0 DEF PageOK, FlowOK
<1>2. draft' \in Drafts
  BY <1>0, SiftedDrafts DEF Callback
<1>3. /\ PageOK(mix, t, page, approved')
      /\ page.armed = NoEvent /\ ~page.off /\ page \in PageState
      /\ mix.page[t] # "edit" => page.at = "page"
  BY <1>0, LoadedOK, LoadedPage
<1> HIDE DEF page
<1>r. Resumed(reply).is = "signed" =>
         /\ pending \in PendingRecord /\ pending.ev \in Event /\ pending.ev \in approved'
         /\ Resumed(reply).kind = Bucket(pending.ev)
  BY <1>0, ResumedIs DEF PendingOK, PendingRecord
\* Enough: a new page, and the shared state of the arm that was taken.
<1>e. ASSUME NEW q, Set(t, q), PageOK(mix, t, q, approved'), signer' \in Key \cup {NoKey},
             PendingOK', clicks' \in 0..mix.clicks
      PROVE  Inv'
  <2>1. Pages'
    BY <1>0, <1>e, PageSet
  <2>2. Shared' /\ Approvals'
    BY <1>0, <1>2, <1>e DEF Shared, Approvals, OnlyApproved
  <2> QED
    BY <2>1, <2>2 DEF Inv
<1>n. pending' = NoRecord => PendingOK'
  BY DEF PendingOK
<1>p. UNCHANGED pending => PendingOK'
  BY <1>0 DEF PendingOK
<1>4. CASE ~ComesBack(t)
  <2> DEFINE q == [p EXCEPT !.at = "404"]
  <2>1. Set(t, q) /\ UNCHANGED <<signer, clicks, pending>>
    BY <1>4 DEF Callback
  <2>2. /\ q \in PageState /\ Alike(p, q) /\ q.at = "404" /\ q.job = p.job /\ q.ev = p.ev
        /\ q.armed = p.armed /\ q.off = p.off
    BY <1>0 DEF PageState, Alike, At
  <2> HIDE DEF q
  <2>3. PageOK(mix, t, p, approved')
    BY <1>0, MoreApproved
  <2>4. FlowOK(mix, t, q, approved')
    BY <1>1, <2>2, <2>3 DEF PageOK, FlowOK
  <2>5. PageOK(mix, t, q, approved')
    BY <2>2, <2>3, <2>4, Reworked
  <2> QED
    BY <1>0, <1>e, <1>p, <2>1, <2>5
<1>5. CASE ComesBack(t) /\ mix.page[t] = "login"
  <2>1. ResumeLogin(t, page, reply)
    BY <1>5 DEF Callback, page
  <2>2. CASE Resumed(reply).kind = "login" /\ Resumed(reply).is = "signed"
    <3>1. /\ Set(t, Sending(page, pending.ev, "resumed"))
          /\ pending' = NoRecord /\ UNCHANGED <<signer, clicks>>
      BY <2>1, <2>2 DEF ResumeLogin
    <3>2. PageOK(mix, t, Sending(page, pending.ev, "resumed"), approved')
      BY <1>3, <1>5, <1>r, <2>2, SendingOK DEF Jobs
    <3> QED
      BY <1>0, <1>e, <1>n, <3>1, <3>2
  <2>3. CASE Resumed(reply).kind = "login" /\ Resumed(reply).is = "pubkey" /\ clicks < mix.clicks
    <3> DEFINE e == [AuthEvent EXCEPT !.by = reply.by]
               q == [page EXCEPT !.at = "away", !.ev = e]
    <3>1. /\ Set(t, q) /\ signer' = reply.by /\ clicks' = clicks + 1
          /\ pending' = Record("login", e)
      BY <2>1, <2>3 DEF ResumeLogin
    <3>2. /\ reply.by \in Key /\ e \in Event /\ e.kind = "auth"
          /\ clicks + 1 \in 0..mix.clicks
      BY <1>0, <2>3, ResumedIs, AuthMade
    <3> HIDE DEF e
    <3>3. /\ q \in PageState /\ Alike(page, q) /\ q.at = "away" /\ q.job = page.job /\ q.ev = e
          /\ q.armed = page.armed /\ q.off = page.off
      BY <1>3, <3>2 DEF PageState, Alike, At
    <3> HIDE DEF q
    <3>4. FlowOK(mix, t, q, approved')
      BY <1>1, <1>3, <1>5, <3>3 DEF PageOK, FlowOK
    <3>5. PageOK(mix, t, q, approved')
      BY <1>3, <3>3, <3>4, Reworked
    <3>6. PendingOK'
      BY <3>1, <3>2, EventAssumption, Buckets, RecordOK
    <3> QED
      BY <1>e, <3>1, <3>2, <3>5, <3>6
  <2>4. CASE /\ ~(Resumed(reply).kind = "login" /\ Resumed(reply).is = "signed")
             /\ ~(/\ Resumed(reply).kind = "login" /\ Resumed(reply).is = "pubkey"
                  /\ clicks < mix.clicks)
    <3>1. /\ Set(t, page) /\ pending' = NoRecord /\ UNCHANGED clicks
          /\ signer' = IF Resumed(reply).is = "pubkey" THEN reply.by ELSE signer
      BY <2>1, <2>4 DEF ResumeLogin
    <3>2. signer' \in Key \cup {NoKey}
      BY <1>0, <3>1, ResumedIs
    <3> QED
      BY <1>0, <1>3, <1>e, <1>n, <3>1, <3>2
  <2> QED
    BY <2>2, <2>3, <2>4
<1>6. CASE ComesBack(t) /\ mix.page[t] # "login"
  <2>1. ResumePublish(t, page, reply)
    BY <1>6 DEF Callback, page
  <2>2. pending' = NoRecord /\ UNCHANGED <<signer, clicks>>
    BY <2>1 DEF ResumePublish
  <2>3. CASE Set(t, page)
    BY <1>0, <1>3, <1>e, <1>n, <2>2, <2>3
  <2>4. CASE ~Set(t, page)
    <3> DEFINE e == pending.ev
               s == Sending(page, e, "resumed")
               q == [s EXCEPT !.armed = e]
    <3>1. /\ Set(t, q) /\ Resumed(reply).is = "signed"
          /\ Resumed(reply).kind \in {"publish", "delete"}
      BY <2>1, <2>4 DEF ResumePublish
    <3>2. e \in Event /\ e \in approved' /\ e.kind # "auth"
      BY <1>r, <3>1, Buckets
    <3>3. PageOK(mix, t, s, approved')
      BY <1>1, <1>3, <3>2, SendingOK DEF Jobs
    <3>4. s.off = page.off
      BY <1>3 DEF Sending, PageState
    <3>5. mix.page[t] \in {"new", "profile"}
      BY <1>0, <1>1, <1>6, MixFields DEF ComesBack, Page
    <3>6. s \in PageState
      BY <3>3 DEF PageOK
    <3> HIDE DEF s, e
    <3>7. /\ q \in PageState /\ Alike(s, q) /\ q.at = s.at /\ q.job = s.job /\ q.ev = s.ev
          /\ q.armed = e /\ q.off = s.off
      BY <3>2, <3>6 DEF PageState, Alike
    <3> HIDE DEF q
    <3>8. FlowOK(mix, t, q, approved')
      BY <1>1, <3>2, <3>3, <3>5, <3>7 DEF PageOK, FlowOK
    <3>9. PageOK(mix, t, q, approved')
      BY <3>3, <3>7, <3>8, Reworked
    <3> QED
      BY <1>0, <1>e, <1>n, <2>2, <3>1, <3>9
  <2> QED
    BY <2>3, <2>4
<1> QED
  BY <1>4, <1>5, <1>6

LEMMA AmberKeeps ==
    ASSUME Inv, NEW t \in Tab, Approve(t) \/ Cancel(t) PROVE Inv'
<1>0. tab[t] \in PageState /\ approved \subseteq Event
  BY DEF Inv, Pages, PageOK, Approvals
<1>1. CASE Approve(t)
  <2> DEFINE e == tab[t].ev
  <2>1. PICK k \in Key :
          /\ Callback(t, [flow |-> IF e = NoEvent THEN "pubkey" ELSE "sign", sig |-> e, by |-> k])
          /\ approved' = IF e # NoEvent /\ e.by = k THEN approved \cup {e} ELSE approved
    BY <1>1 DEF Approve
  <2>2. tab[t].at = "away" /\ UNCHANGED <<mix, session, site, edits, taken>>
    BY <1>1 DEF Approve
  <2>3. e \in Event \cup {NoEvent}
    BY <1>0 DEF PageState
  <2> DEFINE reply == [flow |-> IF e = NoEvent THEN "pubkey" ELSE "sign", sig |-> e, by |-> k]
  <2>4. reply.sig = e /\ reply.by = k /\ (reply.flow = "sign" => e # NoEvent)
    OBVIOUS
  <2>5. Callback(t, reply)
    BY <2>1
  <2> HIDE DEF reply
  <2> QED
    BY <1>0, <2>1, <2>2, <2>3, <2>4, <2>5, CallbackKeeps
<1>2. CASE Cancel(t)
  <2> DEFINE reply == [flow |-> "nothing", sig |-> NoEvent, by |-> NoKey]
  <2>1. reply.flow = "nothing"
    OBVIOUS
  <2>2. /\ Callback(t, reply) /\ tab[t].at = "away"
        /\ UNCHANGED <<mix, session, site, edits, taken, approved>>
    BY <1>2 DEF Cancel, history
  <2> HIDE DEF reply
  <2> QED
    BY <1>0, <2>1, <2>2, CallbackKeeps
<1> QED
  BY <1>1, <1>2

\* A page that goes away leaves its request in the pending record.
LEMMA HandOffKeeps ==
    ASSUME Inv, NEW t \in Tab, OnPage(t), tab[t].at = "page", mix.redirect,
           NEW kind \in {"login", "publish", "delete"}, NEW ev \in Event \cup {NoEvent},
           ev # NoEvent => kind = Bucket(ev) /\ (mix.page[t] # "login" => ev.kind # "auth"),
           ev = NoEvent => kind = "login",
           HandOff(t, kind, ev, tab[t]), clicks' \in 0..mix.clicks,
           UNCHANGED <<mix, signer, session, site, edits, approved, taken>>
    PROVE  Inv'
<1> DEFINE p == tab[t]
           q == [p EXCEPT !.at = "away", !.ev = ev]
<1>0. /\ Shared /\ Approvals /\ Pages /\ PageOK(mix, t, p, approved) /\ p \in PageState
      /\ mix \in Mixes /\ draft \in Drafts
  BY DEF Inv, Pages, PageOK, Shared
<1>1. Set(t, q) /\ draft' = Written(t, p, draft) /\ pending' = Record(kind, ev)
  BY DEF HandOff, WriteDraft
<1>2. /\ q \in PageState /\ Alike(p, q) /\ q.at = "away" /\ q.job = p.job /\ q.ev = ev
      /\ q.armed = p.armed /\ q.off = p.off
  BY <1>0 DEF PageState, Alike, At
<1> HIDE DEF q
<1>3. FlowOK(mix, t, q, approved)
  BY <1>0, <1>2 DEF PageOK, FlowOK, OnPage
<1>4. PageOK(mix, t, q, approved)
  BY <1>0, <1>2, <1>3, Reworked
<1>5. Pages'
  BY <1>0, <1>1, <1>4, PageSet
<1>6. PendingOK' /\ draft' \in Drafts
  BY <1>0, <1>1, RecordOK, WrittenDrafts
<1>7. Shared' /\ Approvals'
  BY <1>0, <1>6 DEF Shared, Approvals, OnlyApproved
<1> QED
  BY <1>5, <1>7 DEF Inv

LEMMA SignKeeps ==
    ASSUME Inv, NEW t \in Tab, NEW kind \in EventKind, OnPage(t), tab[t].at = "page",
           Offers(t, kind), Sign(t, kind)
    PROVE  Inv'
<1> DEFINE p == tab[t]
           e == [kind |-> kind, at |-> clicks + 1, by |-> signer,
                 text |-> IF kind \in {"post", "profile"} THEN p.text ELSE Blank]
<1>0. /\ Shared /\ Approvals /\ Pages /\ PageOK(mix, t, p, approved) /\ p \in PageState
      /\ mix \in Mixes /\ draft \in Drafts /\ clicks \in 0..mix.clicks
      /\ signer \in Key \cup {NoKey} /\ PendingOK
  BY DEF Inv, Pages, PageOK, Shared
<1>1. signer \in Key /\ clicks < mix.clicks /\ clicks' = clicks + 1
      /\ UNCHANGED <<mix, signer, session, site, edits, approved, taken>>
  BY <1>0 DEF Sign, MaySign
<1>2. /\ e \in Event /\ e # NoEvent /\ e.kind = kind /\ clicks' \in 0..mix.clicks
  <2>1. p.text \in Text
    BY <1>0 DEF PageState
  <2>2. (IF kind \in {"post", "profile"} THEN p.text ELSE Blank) \in Text
    BY <2>1, BlankText
  <2>3. e \in Event /\ clicks' \in 0..mix.clicks
    BY <1>0, <1>1, <2>2, Made
  <2> QED
    BY <2>3, EventAssumption
<1>3. mix.page[t] # "login" => kind # "auth"
  BY DEF Offers, EventKind
<1>4. CASE mix.redirect
  <2>1. HandOff(t, Bucket(e), e, tab[t])
    BY <1>4 DEF Sign
  <2>2. Bucket(e) \in {"login", "publish", "delete"}
    BY <1>2, Buckets
  <2> HIDE DEF e
  <2> QED
    BY <1>0, <1>1, <1>2, <1>3, <1>4, <2>1, <2>2, HandOffKeeps
<1>5. CASE ~mix.redirect
  <2> DEFINE q == [p EXCEPT !.at = "signing", !.ev = e]
  <2>1. Set(t, q) /\ UNCHANGED <<pending, draft>>
    BY <1>5 DEF Sign
  <2> HIDE DEF e
  <2>2. /\ q \in PageState /\ Alike(p, q) /\ q.at = "signing" /\ q.job = p.job /\ q.ev = e
        /\ q.armed = p.armed /\ q.off = p.off
    BY <1>0, <1>2 DEF PageState, Alike, At
  <2> HIDE DEF q
  <2>3. FlowOK(mix, t, q, approved)
    BY <1>0, <1>2, <1>3, <2>2 DEF PageOK, FlowOK, OnPage
  <2>4. PageOK(mix, t, q, approved)
    BY <1>0, <2>2, <2>3, Reworked
  <2>5. Pages'
    BY <1>0, <1>1, <2>1, <2>4, PageSet
  <2>6. Shared' /\ Approvals'
    BY <1>0, <1>1, <1>2, <2>1 DEF Shared, PendingOK, Approvals, OnlyApproved
  <2> QED
    BY <2>5, <2>6 DEF Inv
<1> QED
  BY <1>4, <1>5

LEMMA ClickKeeps ==
    ASSUME Inv, NEW t \in Tab, NEW kind \in EventKind, Click(t, kind) PROVE Inv'
<1> DEFINE p == tab[t]
<1>0. /\ Shared /\ Approvals /\ Pages /\ PageOK(mix, t, p, approved) /\ p \in PageState
      /\ mix \in Mixes /\ draft \in Drafts
  BY DEF Inv, Pages, PageOK, Shared
<1>1. OnPage(t) /\ p.at = "page" /\ Offers(t, kind)
  BY DEF Click
<1>2. CASE p.armed # NoEvent /\ Bucket(p.armed) = Bucket([kind |-> kind])
  <2>1. /\ Set(t, Sending(p, p.armed, "retry"))
        /\ UNCHANGED <<mix, browser, session, site, edits, clicks, approved, taken>>
    BY <1>2 DEF Click, history
  <2>2. /\ p.armed \in Event /\ p.armed \in approved /\ p.armed.kind # "auth" /\ ~p.off
        /\ mix.page[t] # "none"
    BY <1>0, <1>1, <1>2 DEF PageOK, FlowOK, PageState, OnPage
  <2>3. PageOK(mix, t, Sending(p, p.armed, "retry"), approved)
    BY <1>0, <2>2, SendingOK DEF Jobs
  <2>4. Pages'
    BY <1>0, <2>1, <2>3, PageSet
  <2>5. Shared' /\ Approvals'
    BY <1>0, <2>1, SharedFrame DEF Shared, PendingOK, Approvals, browser
  <2> QED
    BY <2>4, <2>5 DEF Inv
<1>3. CASE ~(p.armed # NoEvent /\ Bucket(p.armed) = Bucket([kind |-> kind]))
  <2>1. Sign(t, kind)
    BY <1>3 DEF Click
  <2> QED
    BY <1>1, <2>1, SignKeeps
<1> QED
  BY <1>2, <1>3

LEMMA ConnectAmberKeeps ==
    ASSUME Inv, NEW t \in Tab, ConnectAmber(t) PROVE Inv'
<1>1. /\ OnPage(t) /\ tab[t].at = "page" /\ mix.redirect /\ HandOff(t, "login", NoEvent, tab[t])
      /\ UNCHANGED <<mix, signer, session, site, edits, clicks, approved, taken>>
  BY DEF ConnectAmber, history
<1>2. clicks' \in 0..mix.clicks
  BY <1>1 DEF Inv, Shared
<1> QED
  BY <1>1, <1>2, HandOffKeeps

LEMMA ImportKeyKeeps ==
    ASSUME Inv, NEW t \in Tab, ImportKey(t) PROVE Inv'
<1> DEFINE p == tab[t]
<1>0. /\ Shared /\ Approvals /\ Pages /\ PageOK(mix, t, p, approved) /\ p \in PageState
      /\ mix \in Mixes /\ draft \in Drafts /\ clicks \in 0..mix.clicks
  BY DEF Inv, Pages, PageOK, Shared
<1>1. PICK k \in Key :
         /\ signer' = k
         /\ Set(t, [p EXCEPT !.at = "signing", !.ev = [AuthEvent EXCEPT !.by = k]])
  BY DEF ImportKey
<1> DEFINE e == [AuthEvent EXCEPT !.by = k]
           q == [p EXCEPT !.at = "signing", !.ev = e]
<1>2. /\ p.at = "page" /\ mix.page[t] = "login" /\ clicks < mix.clicks /\ clicks' = clicks + 1
      /\ UNCHANGED <<mix, pending, draft, session, site, edits, approved, taken>>
  BY DEF ImportKey, history
<1>3. e \in Event /\ e # NoEvent /\ clicks' \in 0..mix.clicks
  <2>1. e \in Event /\ clicks + 1 \in 0..mix.clicks
    BY <1>0, <1>2, AuthMade
  <2> QED
    BY <1>2, <2>1, EventAssumption
<1>s. Set(t, q)
  BY <1>1
<1> HIDE DEF e
<1>4. /\ q \in PageState /\ Alike(p, q) /\ q.at = "signing" /\ q.job = p.job /\ q.ev = e
      /\ q.armed = p.armed /\ q.off = p.off
  BY <1>0, <1>3 DEF PageState, Alike, At
<1> HIDE DEF q
<1>5. FlowOK(mix, t, q, approved)
  BY <1>0, <1>2, <1>3, <1>4 DEF PageOK, FlowOK
<1>6. PageOK(mix, t, q, approved)
  BY <1>0, <1>4, <1>5, Reworked
<1>7. Pages'
  BY <1>0, <1>2, <1>s, <1>6, PageSet
<1>8. Shared' /\ Approvals'
  BY <1>0, <1>1, <1>2, <1>3 DEF Shared, PendingOK, Approvals, OnlyApproved
<1> QED
  BY <1>7, <1>8 DEF Inv

LEMMA ForgetSignerKeeps ==
    ASSUME Inv, NEW t \in Tab, ForgetSigner(t) PROVE Inv'
<1>1. /\ signer' = NoKey /\ (pending' = NoRecord \/ pending' = pending)
      /\ UNCHANGED <<mix, draft, session, site, tab, edits, clicks, approved, taken>>
  BY DEF ForgetSigner, history
<1> QED
  BY <1>1 DEF Inv, Shared, PendingOK, Approvals, OnlyApproved, Pages

LEMMA SignInPageKeeps ==
    ASSUME Inv, NEW t \in Tab, SignInPage(t) PROVE Inv'
<1> DEFINE p == tab[t]
<1>0. /\ Shared /\ Approvals /\ Pages /\ PageOK(mix, t, p, approved) /\ p \in PageState
      /\ mix \in Mixes /\ draft \in Drafts
  BY DEF Inv, Pages, PageOK, Shared
<1>1. /\ p.at = "signing"
      /\ UNCHANGED <<mix, browser, session, site, edits, clicks, taken>>
  BY DEF SignInPage
<1>2. /\ p.ev \in Event /\ mix.page[t] # "none" /\ ~p.off
      /\ mix.page[t] # "login" => p.ev.kind # "auth"
  BY <1>0, <1>1 DEF PageOK, FlowOK, PageState
<1>3. CASE approved' = approved \cup {p.ev} /\ Set(t, Sending(p, p.ev, "fresh"))
  <2>1. PageOK(mix, t, p, approved')
    BY <1>0, <1>3, MoreApproved
  <2>2. PageOK(mix, t, Sending(p, p.ev, "fresh"), approved')
    BY <1>2, <1>3, <2>1, SendingOK DEF Jobs
  <2>3. Pages'
    BY <1>0, <1>1, <1>3, <2>2, PageSet
  <2>4. Shared' /\ Approvals'
    BY <1>0, <1>1, <1>2, <1>3, SharedFrame DEF Shared, PendingOK, Approvals, browser
  <2> QED
    BY <2>3, <2>4 DEF Inv
<1>4. CASE Set(t, [p EXCEPT !.at = "page", !.ev = NoEvent]) /\ UNCHANGED approved
  <2> DEFINE q == [p EXCEPT !.at = "page", !.ev = NoEvent]
  <2>1. /\ q \in PageState /\ Alike(p, q) /\ q.at = "page" /\ q.job = p.job /\ q.ev = NoEvent
        /\ q.armed = p.armed /\ q.off = p.off
    BY <1>0 DEF PageState, Alike, At
  <2>s. Set(t, q)
    BY <1>4
  <2> HIDE DEF q
  <2>2. FlowOK(mix, t, q, approved)
    BY <1>0, <1>1, <2>1 DEF PageOK, FlowOK
  <2>3. PageOK(mix, t, q, approved)
    BY <1>0, <2>1, <2>2, Reworked
  <2>4. Pages'
    BY <1>0, <1>1, <1>4, <2>s, <2>3, PageSet
  <2>5. Shared' /\ Approvals'
    BY <1>0, <1>1, <1>4, SharedFrame DEF Shared, PendingOK, Approvals, browser
  <2> QED
    BY <2>4, <2>5 DEF Inv
<1> QED
  BY <1>3, <1>4 DEF SignInPage

LEMMA AgeKeeps == ASSUME Inv, Age PROVE Inv'
<1>1. /\ pending # NoRecord /\ pending' = [pending EXCEPT !.old = TRUE]
      /\ UNCHANGED <<mix, signer, draft, session, site, tab, edits, clicks, approved, taken>>
  BY DEF Age, history
<1>2. PendingOK'
  <2>1. /\ pending' \in PendingRecord
        /\ pending'.kind = pending.kind /\ pending'.ev = pending.ev
    BY <1>1 DEF Inv, Shared, PendingOK, PendingRecord
  <2> QED
    BY <1>1, <2>1 DEF Inv, Shared, PendingOK
<1> QED
  BY <1>1, <1>2 DEF Inv, Shared, Approvals, OnlyApproved, Pages

-----------------------------------------------------------------------------
(***************************************************************************)
(* The server and the relays.                                              *)
(***************************************************************************)
LEMMA ServerTakesKeeps ==
    ASSUME Inv, NEW t \in Tab, ServerTakes(t) PROVE Inv'
<1> DEFINE p == tab[t]
           e == p.ev
           at == <<e.by, SlotOf(e)>>
<1>0. /\ Shared /\ Approvals /\ Pages /\ PageOK(mix, t, p, approved) /\ p \in PageState
      /\ mix \in Mixes /\ session \in Key /\ site \in [Key \X {"post", "profile"} -> Held]
      /\ approved \subseteq Event /\ OnlyApproved
  BY DEF Inv, Pages, PageOK, Shared, Approvals
<1>1. p.at = "posting" /\ UNCHANGED <<mix, browser, edits, clicks, approved>>
  BY DEF ServerTakes
<1>2. e \in Event /\ e \in approved
  BY <1>0, <1>1 DEF PageOK, FlowOK, PageState
<1>3. at \in Key \X {"post", "profile"} /\ e.by \in Key /\ e \in Held
  <2>1. e.by \in Key /\ SlotOf(e) \in {"post", "profile"}
    BY <1>2 DEF Event, SlotOf
  <2>2. e \in Held
    <3>1. e \in [kind : EventKind, text : Text, at : Nat, by : Key]
      BY <1>2 DEF Event
    <3> QED
      BY <3>1 DEF Held
  <2> QED
    BY <2>1, <2>2
<1>4. ASSUME NEW got \in {"stored", "stale", "lost"}, Set(t, [p EXCEPT !.at = "answered", !.got = got])
      PROVE  Pages'
  <2> DEFINE q == [p EXCEPT !.at = "answered", !.got = got]
  <2>1. /\ q \in PageState /\ Alike(p, q) /\ q.at = "answered" /\ q.job = p.job /\ q.ev = p.ev
        /\ q.armed = p.armed /\ q.off = p.off
    BY <1>0 DEF PageState, Alike, At
  <2>s. Set(t, q)
    BY <1>4
  <2> HIDE DEF q
  <2>2. FlowOK(mix, t, q, approved)
    BY <1>0, <1>1, <2>1 DEF PageOK, FlowOK
  <2>3. PageOK(mix, t, q, approved)
    BY <1>0, <2>1, <2>2, Reworked
  <2> QED
    BY <1>0, <1>1, <2>s, <2>3, PageSet
<1>5. CASE /\ taken' = IF Answer(e, site[at]) = "stored" THEN taken \cup {e} ELSE taken
           /\ site' = IF Outranked(e, site[at]) THEN site ELSE [site EXCEPT ![at] = e]
           /\ \E got \in {Answer(e, site[at]), "lost"} :
                 Set(t, [p EXCEPT !.at = "answered", !.got = got])
           /\ UNCHANGED session
  <2>1. Pages'
    BY <1>4, <1>5 DEF Answer
  <2>2. site' \in [Key \X {"post", "profile"} -> Held]
    BY <1>0, <1>3, <1>5
  <2>3. Shared' /\ Approvals'
    BY <1>0, <1>1, <1>2, <1>5, <2>2 DEF Shared, PendingOK, Approvals, OnlyApproved, browser
  <2> QED
    BY <2>1, <2>3 DEF Inv
<1>6. CASE /\ e.kind = "auth"
           /\ session' = e.by
           /\ Set(t, [p EXCEPT !.at = "answered", !.got = "stored"])
           /\ UNCHANGED <<site, taken>>
  <2>1. Pages'
    BY <1>4, <1>6
  <2>2. Shared' /\ Approvals'
    BY <1>0, <1>1, <1>2, <1>3, <1>6 DEF Shared, PendingOK, Approvals, OnlyApproved, browser
  <2> QED
    BY <2>1, <2>2 DEF Inv
<1>7. CASE /\ Set(t, [p EXCEPT !.at = "answered", !.got = "lost"])
           /\ UNCHANGED <<session, site, taken>>
  <2>1. Pages'
    BY <1>4, <1>7
  <2>2. Shared' /\ Approvals'
    BY <1>0, <1>1, <1>7 DEF Shared, PendingOK, Approvals, OnlyApproved, browser
  <2> QED
    BY <2>1, <2>2 DEF Inv
<1> QED
  BY <1>5, <1>6, <1>7 DEF ServerTakes

\* The page that leaves.
LEMMA GoneOK ==
    ASSUME NEW t \in Tab, NEW app, PageOK(mix, t, tab[t], app), mix.page[t] # "none"
    PROVE  PageOK(mix, t, Gone(t), app)
<1> DEFINE p == tab[t]
           q == Gone(t)
<1>1. [r \in Relay |-> NoConn] \in [Relay -> Attempt]
  BY FreshConn
<1>2. /\ q \in PageState /\ q.at = "left" /\ q.job = "none" /\ q.ev = NoEvent
      /\ q.armed = NoEvent /\ q.up = p.up /\ q.stale = p.stale /\ q.text = p.text
      /\ q.conn = [r \in Relay |-> NoConn]
  BY <1>1 DEF Gone, PageOK, PageState, At, Jobs
<1> HIDE DEF q
<1>3. FlowOK(mix, t, q, app)
  BY <1>2 DEF FlowOK
<1>4. TokensOK(q) /\ \A r \in Relay : AttemptOK(mix, q.conn[r])
  BY <1>2, FreshConn DEF PageOK, TokensOK
<1> QED
  BY <1>2, <1>3, <1>4 DEF PageOK, q

LEMMA AcceptedKeeps ==
    ASSUME Inv, NEW t \in Tab, Accepted(t) PROVE Inv'
<1> DEFINE p == tab[t]
           conns == [r \in Relay |-> IF r \in mix.relays THEN Dialled(r) ELSE NoConn]
           q == [p EXCEPT !.at = "casting", !.armed = NoEvent, !.got = "none", !.conn = conns]
<1>0. /\ Shared /\ Approvals /\ Pages /\ PageOK(mix, t, p, approved) /\ p \in PageState
      /\ mix \in Mixes
  BY DEF Inv, Pages, PageOK, Shared
<1>1. /\ Set(t, q) /\ p.at = "answered" /\ (pending' = pending \/ pending' = NoRecord)
      /\ UNCHANGED <<mix, signer, draft, session, site, edits, clicks, approved, taken>>
  BY DEF Accepted
<1>2. \A r \in Relay : conns[r] \in Attempt /\ AttemptOK(mix, conns[r])
  <2>1. ASSUME NEW r \in Relay PROVE Dialled(r) \in Attempt /\ AttemptOK(mix, Dialled(r))
    <3>1. /\ Dialled(r) \in Attempt /\ Dialled(r).back = << >> /\ Dialled(r).over = "no"
          /\ ~Dialled(r).resent
      <4> DEFINE first == <<"EVENT">>
      <4>1. first \in Seq({"EVENT", "AUTH"})
        OBVIOUS
      <4>2. Dialled(r) = [NoConn EXCEPT !.out = first]
        BY DEF Dialled
      <4> HIDE DEF first
      <4> QED
        BY <4>1, <4>2, FreshConn DEF NoConn, Attempt
    <3> QED
      BY <3>1 DEF AttemptOK
  <2> QED
    BY <2>1, FreshConn
<1>3. conns \in [Relay -> Attempt]
  BY <1>2
<1> HIDE DEF conns
<1>4. /\ q \in PageState /\ q.at = "casting" /\ q.job = p.job /\ q.ev = p.ev
      /\ q.armed = NoEvent /\ q.off = p.off /\ q.conn = conns
      /\ q.up = p.up /\ q.stale = p.stale /\ q.text = p.text
  BY <1>0, <1>3 DEF PageState, At
<1> HIDE DEF q
<1>5. PageOK(mix, t, q, approved)
  <2>1. FlowOK(mix, t, q, approved)
    BY <1>0, <1>1, <1>4 DEF PageOK, FlowOK
  <2> QED
    BY <1>0, <1>2, <1>4, <2>1 DEF PageOK, TokensOK
<1>6. Pages'
  BY <1>0, <1>1, <1>5, PageSet
<1>7. Shared' /\ Approvals'
  BY <1>0, <1>1 DEF Shared, PendingOK, Approvals, OnlyApproved
<1> QED
  BY <1>6, <1>7 DEF Inv

LEMMA SignedInKeeps ==
    ASSUME Inv, NEW t \in Tab, SignedIn(t) PROVE Inv'
<1>0. /\ Shared /\ Approvals /\ Pages /\ PageOK(mix, t, tab[t], approved)
  BY DEF Inv, Pages
<1>1. /\ Set(t, Gone(t)) /\ tab[t].at = "answered"
      /\ UNCHANGED <<mix, browser, session, site, edits, clicks, approved, taken>>
  BY DEF SignedIn, history
<1>2. mix.page[t] # "none"
  BY <1>0, <1>1 DEF PageOK, FlowOK
<1>3. Pages'
  BY <1>0, <1>1, <1>2, GoneOK, PageSet
<1>4. Shared' /\ Approvals'
  BY <1>0, <1>1 DEF Shared, PendingOK, Approvals, OnlyApproved, browser
<1> QED
  BY <1>3, <1>4 DEF Inv

LEMMA RejectedKeeps ==
    ASSUME Inv, NEW t \in Tab, Rejected(t) PROVE Inv'
<1> DEFINE p == tab[t]
           q == [p EXCEPT !.at = "page", !.ev = NoEvent, !.job = "none", !.got = "none",
                          !.armed = IF p.job = "retry" THEN NoEvent ELSE @]
<1>0. /\ Shared /\ Approvals /\ Pages /\ PageOK(mix, t, p, approved) /\ p \in PageState
      /\ PendingOK
  BY DEF Inv, Pages, PageOK, Shared
<1>1. /\ Set(t, q)
      /\ UNCHANGED <<mix, signer, draft, session, site, edits, clicks, approved, taken>>
  BY DEF Rejected, history
<1>2. \/ pending' = NoRecord
      \/ p.armed # NoEvent /\ pending' = Restashed(t)
      \/ pending' = pending
  BY DEF Rejected
<1>3. PendingOK'
  <2>1. CASE pending' = NoRecord \/ pending' = pending
    BY <1>0, <2>1 DEF PendingOK
  <2>2. CASE p.armed # NoEvent /\ pending' = Restashed(t)
    <3>1. p.armed \in Event
      BY <1>0, <2>2 DEF PageState
    <3> QED
      BY <2>2, <3>1, Buckets, RecordOK DEF Restashed
  <2> QED
    BY <1>2, <2>1, <2>2
<1>4. /\ q \in PageState /\ Alike(p, q) /\ q.at = "page" /\ q.job = "none" /\ q.ev = NoEvent
      /\ q.armed \in {NoEvent, p.armed} /\ q.off = p.off
  BY <1>0, ZenonT(60) DEF PageState, Alike, At, Jobs
<1> HIDE DEF q
<1>5. p.off => p.at = "left"
  BY <1>0 DEF PageOK, FlowOK
<1>6. p.at = "answered"
  BY DEF Rejected
<1>7. FlowOK(mix, t, q, approved)
  BY <1>0, <1>4, <1>5, <1>6 DEF PageOK, FlowOK
<1>8. Pages'
  <2>1. PageOK(mix, t, q, approved)
    BY <1>0, <1>4, <1>7, Reworked
  <2> QED
    BY <1>0, <1>1, <2>1, PageSet
<1>9. Shared' /\ Approvals'
  BY <1>0, <1>1, <1>3 DEF Shared, Approvals, OnlyApproved
<1> QED
  BY <1>8, <1>9 DEF Inv

LEMMA LeaveKeeps ==
    ASSUME Inv, NEW t \in Tab, Leave(t) PROVE Inv'
<1>0. /\ Shared /\ Approvals /\ Pages /\ PageOK(mix, t, tab[t], approved)
      /\ tab[t] \in PageState /\ mix \in Mixes /\ draft \in Drafts
  BY DEF Inv, Pages, PageOK, Shared
<1> DEFINE cleared == IF IsEditor(t) THEN [draft EXCEPT ![DraftKey(tab[t].key, t)] = NoText]
                                     ELSE draft
<1>1. /\ Set(t, Gone(t)) /\ tab[t].at = "casting"
      /\ draft' = Written(t, Cleared(t), cleared)
      /\ UNCHANGED <<mix, signer, pending, session, site, edits, clicks, approved, taken>>
  BY DEF Leave, history
<1>2. mix.page[t] # "none"
  BY <1>0, <1>1 DEF PageOK, FlowOK
<1>3. Pages'
  BY <1>0, <1>1, <1>2, GoneOK, PageSet
<1>4. draft' \in Drafts
  <2>1. Cleared(t) \in PageState
    BY <1>0 DEF Cleared, PageState
  <2>2. cleared \in Drafts
    BY <1>0 DEF Drafts
  <2> HIDE DEF cleared
  <2> QED
    BY <1>0, <1>1, <2>1, <2>2, WrittenDrafts
<1>5. Shared' /\ Approvals'
  BY <1>0, <1>1, <1>4, SharedFrame DEF Shared, PendingOK, Approvals
<1> QED
  BY <1>3, <1>5 DEF Inv

-----------------------------------------------------------------------------
(***************************************************************************)
(* The attempts at the relays.                                             *)
(***************************************************************************)
\* A relay says one thing more.
LEMMA Says ==
    ASSUME NEW m, NEW c \in Attempt, NEW d \in Attempt, NEW f \in Frames, AttemptOK(m, c),
           d.back = Append(c.back, f), d.over = c.over, d.resent = c.resent,
           c.has => d.has, c.denied => d.denied, c.known => d.known,
           f = "ok" => d.has, f = "denied" => d.denied, f = "welcome" => d.known, f = "refused" => ~c.known
    PROVE  AttemptOK(m, d)
<1>1. c.back \in Seq(Frames)
  BY DEF Attempt
<1>2. /\ Len(d.back) = Len(c.back) + 1 /\ d.back[Len(c.back) + 1] = f
      /\ \A i \in 1..Len(c.back) : d.back[i] = c.back[i]
      /\ Len(c.back) \in Nat
  BY <1>1
<1>3. \A i \in 1..Len(d.back) : i \in 1..Len(c.back) \/ i = Len(c.back) + 1
  BY <1>2
<1>4. \A i \in 1..Len(d.back) : /\ d.back[i] = "ok" => d.has
                                /\ d.back[i] = "denied" => d.denied
                                /\ d.back[i] = "welcome" => d.known
  BY <1>2, <1>3 DEF AttemptOK
<1>5. ASSUME NEW i \in 1..Len(d.back), NEW j \in 1..Len(d.back),
             d.back[i] = "welcome", d.back[j] = "refused"
      PROVE  j < i
  <2>1. CASE i \in 1..Len(c.back) /\ j \in 1..Len(c.back)
    BY <1>2, <1>5, <2>1 DEF AttemptOK
  <2>2. CASE i = Len(c.back) + 1
    BY <1>2, <1>3, <1>5, <2>2
  <2>3. CASE i \in 1..Len(c.back) /\ j = Len(c.back) + 1
    BY <1>2, <1>5, <2>3 DEF AttemptOK
  <2> QED
    BY <1>3, <2>1, <2>2, <2>3
<1>6. d.resent => d.known /\ \A i \in 1..Len(d.back) : d.back[i] # "refused"
  BY <1>2, <1>3 DEF AttemptOK
<1> QED
  BY <1>4, <1>5, <1>6 DEF AttemptOK

\* The page takes the next frame.
LEMMA Hears ==
    ASSUME NEW m, NEW c \in Attempt, NEW d \in Attempt, AttemptOK(m, c), c.back # << >>,
           d.back = Tail(c.back), d.has = c.has, d.denied = c.denied, d.known = c.known,
           d.over = "answered" => d.has \/ d.denied \/ m.redirect,
           d.resent => c.resent \/ Head(c.back) = "welcome"
    PROVE  AttemptOK(m, d)
<1>1. c.back \in Seq(Frames)
  BY DEF Attempt
<1>2. /\ Len(c.back) \in Nat \ {0} /\ Len(d.back) = Len(c.back) - 1
      /\ \A i \in 1..Len(d.back) : d.back[i] = c.back[i + 1] /\ i + 1 \in 1..Len(c.back)
      /\ c.back[1] = Head(c.back) /\ 1 \in 1..Len(c.back)
  BY <1>1
<1>3. \A i \in 1..Len(d.back) : /\ d.back[i] = "ok" => d.has
                                /\ d.back[i] = "denied" => d.denied
                                /\ d.back[i] = "welcome" => d.known
  BY <1>2 DEF AttemptOK
<1>4. ASSUME NEW i \in 1..Len(d.back), NEW j \in 1..Len(d.back),
             d.back[i] = "welcome", d.back[j] = "refused"
      PROVE  j < i
  <2>1. j + 1 < i + 1
    BY <1>2, <1>4 DEF AttemptOK
  <2> QED
    BY <2>1
<1>5. ASSUME d.resent
      PROVE  d.known /\ \A i \in 1..Len(d.back) : d.back[i] # "refused"
  <2>1. CASE c.resent
    BY <1>2, <2>1 DEF AttemptOK
  <2>2. CASE Head(c.back) = "welcome"
    <3>1. ASSUME NEW i \in 1..Len(d.back), d.back[i] = "refused" PROVE FALSE
      <4>1. i + 1 < 1
        BY <1>2, <2>2, <3>1 DEF AttemptOK
      <4> QED
        BY <4>1
    <3> QED
      BY <1>2, <2>2, <3>1 DEF AttemptOK
  <2> QED
    BY <1>5, <2>1, <2>2
<1> QED
  BY <1>3, <1>4, <1>5 DEF AttemptOK

LEMMA WireKeeps ==
    ASSUME Inv, NEW t \in Tab, NEW r \in Relay, NEW c \in Attempt, Wire(t, r, c), AttemptOK(mix, c),
           UNCHANGED <<mix, browser, session, site, edits, clicks, history>>
    PROVE  Inv'
<1> DEFINE p == tab[t]
           q == [p EXCEPT !.conn[r] = c]
<1>0. /\ Shared /\ Approvals /\ Pages /\ PageOK(mix, t, p, approved) /\ p \in PageState
  BY DEF Inv, Pages, PageOK, Shared
<1>1. Set(t, q)
  BY DEF Wire
<1>2. /\ q \in PageState /\ q.at = p.at /\ q.job = p.job /\ q.ev = p.ev
      /\ q.armed = p.armed /\ q.off = p.off /\ q.up = p.up /\ q.stale = p.stale /\ q.text = p.text
      /\ q.conn = [p.conn EXCEPT ![r] = c]
  <2> DEFINE conns == [p.conn EXCEPT ![r] = c]
  <2>1. conns \in [Relay -> Attempt]
    BY <1>0 DEF PageState
  <2>2. q = [p EXCEPT !.conn = conns]
    OBVIOUS
  <2> HIDE DEF conns
  <2>3. /\ q \in PageState /\ q.at = p.at /\ q.job = p.job /\ q.ev = p.ev
        /\ q.armed = p.armed /\ q.off = p.off /\ q.up = p.up /\ q.stale = p.stale /\ q.text = p.text
        /\ q.conn = conns
    BY <1>0, <2>1, <2>2 DEF PageState
  <2> QED
    BY <2>3 DEF conns
<1> HIDE DEF q
<1>3. \A s \in Relay : AttemptOK(mix, q.conn[s])
  <2>1. \A s \in Relay : q.conn[s] = IF s = r THEN c ELSE p.conn[s]
    BY <1>0, <1>2 DEF PageState
  <2> QED
    BY <1>0, <2>1 DEF PageOK
<1>4. PageOK(mix, t, q, approved)
  BY <1>0, <1>2, <1>3 DEF PageOK, FlowOK, TokensOK
<1>5. Pages'
  BY <1>0, <1>1, <1>4, PageSet DEF history
<1>6. Shared' /\ Approvals'
  BY <1>0 DEF Shared, PendingOK, Approvals, OnlyApproved, browser, history
<1> QED
  BY <1>5, <1>6 DEF Inv

LEMMA RelayTakesKeeps ==
    ASSUME Inv, NEW t \in Tab, NEW r \in Relay, RelayTakes(t, r) PROVE Inv'
<1> DEFINE c == Conn(t, r)
           rest == [c EXCEPT !.out = Tail(@)]
<1>0. c \in Attempt /\ AttemptOK(mix, c)
  BY DEF Inv, Pages, PageOK, PageState, Conn
<1>1. UNCHANGED <<mix, browser, session, site, edits, clicks, history>> /\ c.out # << >>
  BY DEF RelayTakes
<1>2. /\ rest \in Attempt /\ rest.back = c.back /\ rest.has = c.has
      /\ rest.denied = c.denied /\ rest.known = c.known
      /\ rest.over = c.over /\ rest.resent = c.resent
  <2>1. Tail(c.out) \in Seq({"EVENT", "AUTH"})
    BY <1>0, <1>1 DEF Attempt
  <2> QED
    BY <1>0, <2>1 DEF Attempt
<1> HIDE DEF rest
<1>3. AttemptOK(mix, rest)
  BY <1>0, <1>2 DEF AttemptOK
<1>a. \A s \in Seq(Frames), f \in Frames : Append(s, f) \in Seq(Frames)
  OBVIOUS
<1>b. rest.back \in Seq(Frames)
  BY <1>2 DEF Attempt
<1>f. Frames = {"ok", "denied", "refused", "challenge", "welcome", "unwelcome"}
  BY DEF Frames
<1>4. CASE Wire(t, r, [rest EXCEPT !.has = TRUE, !.back = Append(@, "ok")])
  <2> DEFINE d == [rest EXCEPT !.has = TRUE, !.back = Append(@, "ok")]
  <2>1. d \in Attempt /\ d.back = Append(rest.back, "ok") /\ d.has /\ d.known = rest.known
        /\ d.denied = rest.denied /\ d.over = rest.over /\ d.resent = rest.resent
    BY <1>2, <1>a, <1>b, <1>f DEF Attempt
  <2>2. AttemptOK(mix, d)
    BY <1>2, <1>3, <1>f, <2>1, Says
  <2> QED
    BY <1>1, <1>4, <2>1, <2>2, WireKeeps
<1>5. CASE ~c.known /\ \E said \in {<<"refused">>, <<"refused", "challenge">>, <<"challenge", "refused">>} :
              Wire(t, r, [rest EXCEPT !.dared = TRUE, !.back = @ \o said])
  <2>1. PICK said \in {<<"refused">>, <<"refused", "challenge">>, <<"challenge", "refused">>} :
           Wire(t, r, [rest EXCEPT !.dared = TRUE, !.back = @ \o said])
    BY <1>5
  <2> DEFINE Dared(s) == [rest EXCEPT !.dared = TRUE, !.back = s]
  <2>2. ASSUME NEW s \in Seq(Frames)
        PROVE  /\ Dared(s) \in Attempt /\ Dared(s).back = s /\ Dared(s).has = rest.has
               /\ Dared(s).denied = rest.denied /\ Dared(s).known = rest.known
               /\ Dared(s).over = rest.over /\ Dared(s).resent = rest.resent
    BY <1>2, <2>2 DEF Attempt
  <2>w. Wire(t, r, Dared(rest.back \o said))
    BY <2>1
  <2> HIDE DEF Dared
  <2>3. \A f \in {"refused", "challenge"} :
           Append(rest.back, f) \in Seq(Frames) /\ AttemptOK(mix, Dared(Append(rest.back, f)))
    <3> SUFFICES ASSUME NEW f \in {"refused", "challenge"}
                 PROVE  /\ Append(rest.back, f) \in Seq(Frames)
                        /\ AttemptOK(mix, Dared(Append(rest.back, f)))
      OBVIOUS
    <3>1. f \in Frames /\ f # "ok" /\ f # "denied" /\ f # "welcome"
      BY <1>f
    <3>2. Append(rest.back, f) \in Seq(Frames)
      BY <1>a, <1>b, <3>1
    <3> DEFINE d == Dared(Append(rest.back, f))
    <3>3. d \in Attempt /\ d.back = Append(rest.back, f) /\ d.has = rest.has
          /\ d.denied = rest.denied /\ d.known = rest.known
          /\ d.over = rest.over /\ d.resent = rest.resent
      BY <2>2, <3>2
    <3> HIDE DEF d
    <3>4. ~d.known
      BY <1>2, <1>5, <3>3
    <3>5. AttemptOK(mix, d)
      BY <1>2, <1>3, <3>1, <3>3, <3>4, Says
    <3> QED
      BY <3>2, <3>5 DEF d
  <2>4. \A f, g \in {"refused", "challenge"} :
           /\ Append(Append(rest.back, f), g) \in Seq(Frames)
           /\ AttemptOK(mix, Dared(Append(Append(rest.back, f), g)))
    <3> SUFFICES ASSUME NEW f \in {"refused", "challenge"}, NEW g \in {"refused", "challenge"}
                 PROVE  /\ Append(Append(rest.back, f), g) \in Seq(Frames)
                        /\ AttemptOK(mix, Dared(Append(Append(rest.back, f), g)))
      OBVIOUS
    <3>1. Append(rest.back, f) \in Seq(Frames) /\ AttemptOK(mix, Dared(Append(rest.back, f)))
      BY <2>3
    <3>2. Append(Append(rest.back, f), g) \in Seq(Frames)
      BY <1>a, <1>f, <3>1
    <3>3. ~Dared(Append(rest.back, f)).known
      BY <1>2, <1>5, <2>2, <3>1
    <3> QED
      BY <1>f, <2>2, <3>1, <3>2, <3>3, Says, ZenonT(60)
  <2>5. \E s \in Seq(Frames) : rest.back \o said = s /\ AttemptOK(mix, Dared(s))
    <3>1. CASE said = <<"refused">>
      <4>1. rest.back \o said = Append(rest.back, "refused")
        BY <1>b, <3>1
      <4> QED
        BY <2>3, <4>1
    <3>2. CASE said = <<"refused", "challenge">>
      <4>1. rest.back \o said = Append(Append(rest.back, "refused"), "challenge")
        BY <1>b, <3>2
      <4> QED
        BY <2>4, <4>1
    <3>3. CASE said = <<"challenge", "refused">>
      <4>1. rest.back \o said = Append(Append(rest.back, "challenge"), "refused")
        BY <1>b, <3>3
      <4> QED
        BY <2>4, <4>1
    <3> QED
      BY <3>1, <3>2, <3>3
  <2> QED
    BY <1>1, <2>w, <2>2, <2>5, WireKeeps
<1>6. CASE Wire(t, r, [rest EXCEPT !.known = TRUE, !.back = Append(@, "welcome")])
  <2> DEFINE d == [rest EXCEPT !.known = TRUE, !.back = Append(@, "welcome")]
  <2>1. d \in Attempt /\ d.back = Append(rest.back, "welcome") /\ d.has = rest.has /\ d.known
        /\ d.denied = rest.denied /\ d.over = rest.over /\ d.resent = rest.resent
    BY <1>2, <1>a, <1>b, <1>f DEF Attempt
  <2>2. AttemptOK(mix, d)
    BY <1>2, <1>3, <1>f, <2>1, Says
  <2> QED
    BY <1>1, <1>6, <2>1, <2>2, WireKeeps
<1>7. CASE Wire(t, r, [rest EXCEPT !.back = Append(@, "unwelcome")])
  <2> DEFINE d == [rest EXCEPT !.back = Append(@, "unwelcome")]
  <2>1. d \in Attempt /\ d.back = Append(rest.back, "unwelcome") /\ d.has = rest.has
        /\ d.denied = rest.denied /\ d.known = rest.known
        /\ d.over = rest.over /\ d.resent = rest.resent
    BY <1>2, <1>a, <1>b, <1>f DEF Attempt
  <2>2. AttemptOK(mix, d)
    BY <1>2, <1>3, <1>f, <2>1, Says
  <2> QED
    BY <1>1, <1>7, <2>1, <2>2, WireKeeps
<1>d. CASE Wire(t, r, [rest EXCEPT !.denied = TRUE, !.back = Append(@, "denied")])
  <2> DEFINE d == [rest EXCEPT !.denied = TRUE, !.back = Append(@, "denied")]
  <2>1. d \in Attempt /\ d.back = Append(rest.back, "denied") /\ d.denied /\ d.has = rest.has
        /\ d.known = rest.known /\ d.over = rest.over /\ d.resent = rest.resent
    BY <1>2, <1>a, <1>b, <1>f DEF Attempt
  <2>2. AttemptOK(mix, d)
    BY <1>2, <1>3, <1>f, <2>1, Says
  <2> QED
    BY <1>1, <1>d, <2>1, <2>2, WireKeeps
<1>8. \/ Wire(t, r, [rest EXCEPT !.has = TRUE, !.back = Append(@, "ok")])
      \/ /\ ~c.known
         /\ \E said \in {<<"refused">>, <<"refused", "challenge">>, <<"challenge", "refused">>} :
               Wire(t, r, [rest EXCEPT !.dared = TRUE, !.back = @ \o said])
      \/ Wire(t, r, [rest EXCEPT !.denied = TRUE, !.back = Append(@, "denied")])
      \/ Wire(t, r, [rest EXCEPT !.known = TRUE, !.back = Append(@, "welcome")])
      \/ Wire(t, r, [rest EXCEPT !.back = Append(@, "unwelcome")])
  BY Zenon DEF RelayTakes, rest
<1> QED
  BY <1>4, <1>5, <1>6, <1>7, <1>8, <1>d

LEMMA DareKeeps ==
    ASSUME Inv, NEW t \in Tab, NEW r \in Relay, Dare(t, r) PROVE Inv'
<1> DEFINE c == Conn(t, r)
           d == [c EXCEPT !.dared = TRUE, !.back = Append(@, "challenge")]
<1>0. c \in Attempt /\ AttemptOK(mix, c)
  BY DEF Inv, Pages, PageOK, PageState, Conn
<1>1. UNCHANGED <<mix, browser, session, site, edits, clicks, history>> /\ Wire(t, r, d)
  BY DEF Dare
<1>a. "challenge" \in Frames /\ Append(c.back, "challenge") \in Seq(Frames)
  BY <1>0 DEF Attempt, Frames
<1> HIDE DEF c
<1>2. d \in Attempt /\ d.back = Append(c.back, "challenge") /\ d.has = c.has
      /\ d.denied = c.denied /\ d.known = c.known /\ d.over = c.over /\ d.resent = c.resent
  BY <1>0, <1>a DEF Attempt
<1> HIDE DEF d
<1>3. AttemptOK(mix, d)
  BY <1>0, <1>a, <1>2, Says
<1> QED
  BY <1>1, <1>2, <1>3, WireKeeps

LEMMA FrameKeeps ==
    ASSUME Inv, NEW t \in Tab, NEW r \in Relay, Frame(t, r) PROVE Inv'
<1> DEFINE c == Conn(t, r)
           f == Head(c.back)
           rest == [c EXCEPT !.back = Tail(@)]
<1>0. c \in Attempt /\ AttemptOK(mix, c) /\ mix.redirect \in BOOLEAN
  BY MixFields DEF Inv, Shared, Pages, PageOK, PageState, Conn
<1>1. UNCHANGED <<mix, browser, session, site, edits, clicks, history>> /\ c.back # << >>
      /\ c.over = "no"
  BY DEF Frame, Trying
<1>2. /\ f \in Frames /\ Tail(c.back) \in Seq(Frames) /\ 1 \in 1..Len(c.back) /\ c.back[1] = f
  BY <1>0, <1>1 DEF Attempt
<1>3. /\ rest \in Attempt /\ rest.back = Tail(c.back) /\ rest.has = c.has /\ rest.known = c.known
      /\ rest.denied = c.denied /\ rest.over = "no" /\ rest.resent = c.resent /\ rest.out = c.out /\ rest.tried = c.tried
  BY <1>0, <1>1, <1>2 DEF Attempt
<1> HIDE DEF rest
<1>w. Wire(t, r,
         CASE Final(c, f) -> [rest EXCEPT !.over = "answered"]
           [] f = "refused" /\ ~Final(c, f) -> rest
           [] f = "welcome" -> [rest EXCEPT !.resent = TRUE, !.out = Append(@, "EVENT")]
           [] f = "unwelcome" -> [rest EXCEPT !.over = "unwelcome"]
           [] f = "challenge" ->
                [rest EXCEPT !.tried = TRUE, !.signing = ~c.tried /\ ~mix.redirect])
  BY DEF Frame, rest
<1> HIDE DEF c
<1>4. CASE Final(c, f)
  <2> DEFINE d == [rest EXCEPT !.over = "answered"]
  <2>1. Wire(t, r, d)
    BY <1>w, <1>4 DEF Final
  <2>2. d \in Attempt /\ d.back = Tail(c.back) /\ d.has = c.has /\ d.known = c.known
        /\ d.denied = c.denied
        /\ d.resent = c.resent
    BY <1>3 DEF Attempt
  <2> HIDE DEF d
  <2>3. d.has \/ d.denied \/ mix.redirect
    BY <1>0, <1>2, <1>4, <2>2 DEF Final, AttemptOK
  <2>4. AttemptOK(mix, d)
    BY <1>0, <1>1, <2>2, <2>3, Hears
  <2> QED
    BY <1>1, <2>1, <2>2, <2>4, WireKeeps
<1>r. AttemptOK(mix, rest)
  BY <1>0, <1>1, <1>3, Hears
<1>5. CASE f = "refused" /\ ~Final(c, f)
  <2>1. Wire(t, r, rest)
    BY <1>w, <1>5
  <2> QED
    BY <1>1, <1>3, <1>r, <2>1, WireKeeps
<1>6. CASE f = "welcome"
  <2> DEFINE d == [rest EXCEPT !.resent = TRUE, !.out = Append(@, "EVENT")]
  <2>1. Wire(t, r, d)
    BY <1>w, <1>6 DEF Final
  <2>a. Append(rest.out, "EVENT") \in Seq({"EVENT", "AUTH"})
    BY <1>3 DEF Attempt
  <2>2. d \in Attempt /\ d.back = Tail(c.back) /\ d.has = c.has /\ d.known = c.known
        /\ d.denied = c.denied
        /\ d.over = "no"
    BY <1>3, <2>a DEF Attempt
  <2> HIDE DEF d
  <2>3. AttemptOK(mix, d)
    BY <1>0, <1>1, <1>6, <2>2, Hears
  <2> QED
    BY <1>1, <2>1, <2>2, <2>3, WireKeeps
<1>7. CASE f = "unwelcome"
  <2> DEFINE d == [rest EXCEPT !.over = "unwelcome"]
  <2>1. Wire(t, r, d)
    BY <1>w, <1>7 DEF Final
  <2>2. d \in Attempt /\ d.back = Tail(c.back) /\ d.has = c.has /\ d.known = c.known
        /\ d.denied = c.denied
        /\ d.over = "unwelcome" /\ d.resent = c.resent
    BY <1>3 DEF Attempt
  <2> HIDE DEF d
  <2>3. AttemptOK(mix, d)
    BY <1>0, <1>1, <2>2, Hears
  <2> QED
    BY <1>1, <2>1, <2>2, <2>3, WireKeeps
<1>8. CASE f = "challenge"
  <2> DEFINE s == ~c.tried /\ ~mix.redirect
             d == [rest EXCEPT !.tried = TRUE, !.signing = s]
  <2>1. Wire(t, r, d)
    BY <1>w, <1>8 DEF Final
  <2>s. s \in BOOLEAN
    OBVIOUS
  <2> HIDE DEF s
  <2>2. d \in Attempt /\ d.back = Tail(c.back) /\ d.has = c.has /\ d.known = c.known
        /\ d.denied = c.denied
        /\ d.over = "no" /\ d.resent = c.resent
    BY <1>3, <2>s DEF Attempt
  <2> HIDE DEF d
  <2>3. AttemptOK(mix, d)
    BY <1>0, <1>1, <2>2, Hears
  <2> QED
    BY <1>1, <2>1, <2>2, <2>3, WireKeeps
<1> QED
  BY <1>2, <1>4, <1>5, <1>6, <1>7, <1>8 DEF Frames, Final

LEMMA SignChallengeKeeps ==
    ASSUME Inv, NEW t \in Tab, NEW r \in Relay, SignChallenge(t, r) \/ Deadline(t, r) PROVE Inv'
<1> DEFINE c == Conn(t, r)
<1>0. c \in Attempt /\ AttemptOK(mix, c)
  BY DEF Inv, Pages, PageOK, PageState, Conn
<1>1. UNCHANGED <<mix, browser, session, site, edits, clicks, history>>
  BY DEF SignChallenge, Deadline
<1>2. PICK d \in {[c EXCEPT !.signing = FALSE, !.out = Append(@, "AUTH")],
                  [c EXCEPT !.signing = FALSE], [c EXCEPT !.over = "cut"]} : Wire(t, r, d)
  BY DEF SignChallenge, Deadline
<1>a. Append(c.out, "AUTH") \in Seq({"EVENT", "AUTH"})
  BY <1>0 DEF Attempt
<1> HIDE DEF c
<1>3. /\ d \in Attempt /\ d.back = c.back /\ d.has = c.has /\ d.known = c.known
      /\ d.denied = c.denied
      /\ d.resent = c.resent /\ d.over \in {c.over, "cut"}
  BY <1>0, <1>2, <1>a DEF Attempt
<1>4. AttemptOK(mix, d)
  BY <1>0, <1>3 DEF AttemptOK
<1> QED
  BY <1>1, <1>2, <1>3, <1>4, WireKeeps

-----------------------------------------------------------------------------
(***************************************************************************)
(* The images.                                                             *)
(***************************************************************************)
LEMMA LeastExists ==
    ASSUME NEW S \in SUBSET Nat, S # {}
    PROVE  \E e \in S : \A d \in S : e <= d
<1> DEFINE R == OpToRel(<, Nat)
<1>1. PICK e \in S : \A d \in S : <<d, e>> \notin R
  <2> HIDE DEF R
  <2> QED
    BY NatLessThanWellFounded, WFMin DEF R
<1>2. \A d \in S : ~(d < e)
  BY <1>1 DEF OpToRel
<1> QED
  BY <1>2

\* The first place of a number in the marks, or 0.
LEMMA Place ==
    ASSUME NEW marks \in Seq(0..MaxUploads), NEW n
    PROVE  LET i == SelectInSeq(marks, LAMBDA m : m = n) IN
           \/ i = 0 /\ \A j \in 1..Len(marks) : marks[j] # n
           \/ i \in 1..Len(marks) /\ marks[i] = n
<1> DEFINE I == {j \in 1..Len(marks) : marks[j] = n}
           i == SelectInSeq(marks, LAMBDA m : m = n)
<1>1. i = IF I # {} THEN Min(I) ELSE 0
  BY DEF SelectInSeq
<1>2. CASE I = {}
  BY <1>1, <1>2
<1>3. CASE I # {}
  <2>1. I \in SUBSET Nat
    OBVIOUS
  <2>2. \E e \in I : \A d \in I : e <= d
    BY <1>3, <2>1, LeastExists
  <2>3. Min(I) \in I
    BY <2>2 DEF Min
  <2>4. i = Min(I)
    BY <1>1, <1>3
  <2>5. i \in I
    BY <2>3, <2>4
  <2> QED
    BY <2>5
<1> QED
  BY <1>2, <1>3

\* What stands in for a placeholder: nothing, or an image.
Images == {<< >>, <<0>>}

Cut(s, i, by) == SubSeq(s, 1, i - 1) \o by \o SubSeq(s, i + 1, Len(s))

\* Where a place of the new marks was among the old ones; 0 for the image.
Was(i, k, j) == IF j < i THEN j ELSE IF j < i + k THEN 0 ELSE j + 1 - k

LEMMA CutOut ==
    ASSUME NEW s \in Seq(0..MaxUploads), NEW i \in 1..Len(s), NEW by \in Images
    PROVE  /\ Cut(s, i, by) \in Seq(0..MaxUploads)
           /\ \A j \in 1..Len(Cut(s, i, by)) :
                 \/ Cut(s, i, by)[j] = 0
                 \/ /\ Was(i, Len(by), j) \in 1..Len(s) \ {i}
                    /\ Cut(s, i, by)[j] = s[Was(i, Len(by), j)]
           /\ \A j, l \in 1..Len(Cut(s, i, by)) :
                 Was(i, Len(by), j) = Was(i, Len(by), l) /\ Was(i, Len(by), j) # 0 => j = l
<1> DEFINE a == SubSeq(s, 1, i - 1)
           b == SubSeq(s, i + 1, Len(s))
           D == 0..MaxUploads
<1>1. Len(s) \in Nat /\ i \in Nat /\ i >= 1 /\ i <= Len(s) /\ 0 \in D
  BY EditorAssumption
<1>s. s \in Seq(D)
  OBVIOUS
<1> HIDE DEF D
<1>2. a \in Seq(D) /\ Len(a) = i - 1 /\ \A j \in 1..Len(a) : a[j] = s[j]
  <2>1. \A j \in 1..i-1 : s[j] \in D
    BY <1>1, <1>s
  <2>2. /\ a \in Seq(D) /\ Len(a) = IF 1 <= i - 1 THEN (i - 1) - 1 + 1 ELSE 0
        /\ \A j \in 1..(i - 1) - 1 + 1 : a[j] = s[1 + j - 1]
    BY <1>1, <2>1, SubSeqProperties
  <2> HIDE DEF a
  <2> QED
    BY <1>1, <2>2
<1>3. b \in Seq(D) /\ Len(b) = Len(s) - i /\ \A j \in 1..Len(b) : b[j] = s[j + i]
  <2>1. \A j \in i+1..Len(s) : s[j] \in D
    BY <1>1, <1>s
  <2>2. /\ b \in Seq(D) /\ Len(b) = IF i + 1 <= Len(s) THEN Len(s) - (i + 1) + 1 ELSE 0
        /\ \A j \in 1..Len(s) - (i + 1) + 1 : b[j] = s[i + 1 + j - 1]
    BY <1>1, <2>1, SubSeqProperties
  <2> HIDE DEF b
  <2>3. Len(b) = Len(s) - i
    BY <1>1, <2>2
  <2>4. \A j \in 1..Len(s) - i : b[j] = s[j + i]
    BY <1>1, <2>2
  <2> QED
    BY <2>2, <2>3, <2>4
<1> HIDE DEF a, b
<1>4. Cut(s, i, by) = a \o by \o b
  BY DEF Cut, a, b
<1>5. CASE by = << >>
  <2>1. Cut(s, i, by) = a \o b
    BY <1>2, <1>4, <1>5
  <2>c. Cut(s, i, by) \in Seq(D)
    BY <1>2, <1>3, <2>1
  <2>l. Len(Cut(s, i, by)) = Len(a) + Len(b)
    BY <1>2, <1>3, <2>1, ConcatProperties
  <2>2. Cut(s, i, by) \in Seq(D) /\ Len(by) = 0 /\ Len(Cut(s, i, by)) = Len(s) - 1
    BY <1>1, <1>2, <1>3, <1>5, <2>c, <2>l
  <2>3. \A j \in 1..Len(Cut(s, i, by)) : j < i => Cut(s, i, by)[j] = s[j]
    BY <1>1, <1>2, <1>3, <2>1, <2>2
  <2>4. \A j \in 1..Len(Cut(s, i, by)) : ~(j < i) => Cut(s, i, by)[j] = s[j + 1]
    <3> SUFFICES ASSUME NEW j \in 1..Len(Cut(s, i, by)), ~(j < i)
                 PROVE  Cut(s, i, by)[j] = s[j + 1]
      OBVIOUS
    <3>1. j - Len(a) \in 1..Len(b) /\ (j - Len(a)) + i = j + 1
      BY <1>1, <1>2, <1>3, <2>2
    <3>2. (a \o b)[j] = b[j - Len(a)]
      BY <1>1, <1>2, <1>3, <2>2, <2>1
    <3> QED
      BY <1>3, <2>1, <3>1, <3>2
  <2> QED
    BY <1>1, <2>2, <2>3, <2>4 DEF Was, D
<1>6. CASE by = <<0>>
  <2>1. Cut(s, i, by) = Append(a, 0) \o b
    BY <1>2, <1>4, <1>6
  <2>a. /\ Append(a, 0) \in Seq(D) /\ Len(Append(a, 0)) = i /\ Append(a, 0)[i] = 0
        /\ \A j \in 1..i-1 : Append(a, 0)[j] = s[j]
    BY <1>1, <1>2
  <2> DEFINE c == Append(a, 0)
  <2> HIDE DEF c
  <2>c. c \in Seq(D) /\ Len(c) = i /\ Cut(s, i, by) = c \o b
    BY <2>1, <2>a DEF c
  <2>d. Cut(s, i, by) \in Seq(D) /\ Len(Cut(s, i, by)) = Len(c) + Len(b)
    BY <1>3, <2>c, ConcatProperties
  <2>2. Cut(s, i, by) \in Seq(D) /\ Len(by) = 1 /\ Len(Cut(s, i, by)) = Len(s)
    <3>1. Len(by) = 1
      BY <1>6
    <3>2. Len(c) + Len(b) = Len(s)
      BY <1>1, <1>3, <2>c
    <3> QED
      BY <2>d, <3>1, <3>2
  <2>e. \A j \in 1..Len(c) + Len(b) : (c \o b)[j] = IF j <= Len(c) THEN c[j] ELSE b[j - Len(c)]
    BY <1>3, <2>c, ConcatProperties
  <2>3. \A j \in 1..Len(s) : j < i => Cut(s, i, by)[j] = s[j]
    <3> SUFFICES ASSUME NEW j \in 1..Len(s), j < i
                 PROVE  Cut(s, i, by)[j] = s[j]
      OBVIOUS
    <3>1. j \in 1..i-1 /\ j <= Len(c) /\ j \in 1..Len(c) + Len(b)
      BY <1>1, <1>3, <2>c
    <3>2. c[j] = s[j]
      BY <2>a, <3>1 DEF c
    <3> QED
      BY <2>c, <2>e, <3>1, <3>2
  <2>4. Cut(s, i, by)[i] = 0
    BY <1>1, <1>3, <2>c, <2>e, <2>a DEF c
  <2>5. \A j \in 1..Len(s) : j > i => Cut(s, i, by)[j] = s[j]
    <3> SUFFICES ASSUME NEW j \in 1..Len(s), j > i
                 PROVE  Cut(s, i, by)[j] = s[j]
      OBVIOUS
    <3>1. j - i \in 1..Len(b) /\ (j - i) + i = j
      BY <1>1, <1>3
    <3>2. (c \o b)[j] = b[j - i]
      BY <1>1, <1>3, <2>c, <2>e
    <3> QED
      BY <1>3, <2>c, <3>1, <3>2
  <2> QED
    BY <1>1, <2>2, <2>3, <2>4, <2>5 DEF Was, D
<1> QED
  BY <1>5, <1>6 DEF Images

LEMMA MarksAre ==
    ASSUME NEW text \in Text
    PROVE  \A j \in 1..Len(text.marks) : text.marks[j] \in 0..MaxUploads
<1> DEFINE D == 0..MaxUploads
<1>1. text.marks \in Seq(D)
  BY DEF Text
<1> HIDE DEF D
<1>2. \A j \in 1..Len(text.marks) : text.marks[j] \in D
  BY <1>1
<1> QED
  BY <1>2 DEF D

LEMMA PlacedText ==
    ASSUME NEW text \in Text, NEW n, NEW by \in Images
    PROVE  /\ Placed(text, n, by) \in Text
           /\ \/ /\ Placed(text, n, by) = text
                 /\ \A j \in 1..Len(text.marks) : text.marks[j] # n
              \/ \E i \in 1..Len(text.marks) :
                    /\ text.marks[i] = n
                    /\ Placed(text, n, by).marks = Cut(text.marks, i, by)
<1> DEFINE i == SelectInSeq(text.marks, LAMBDA m : m = n)
<1>1. text.marks \in Seq(0..MaxUploads)
  BY DEF Text
<1>2. \/ i = 0 /\ \A j \in 1..Len(text.marks) : text.marks[j] # n
      \/ i \in 1..Len(text.marks) /\ text.marks[i] = n
  BY <1>1, Place
<1>3. Placed(text, n, by) = IF i = 0 THEN text
                            ELSE [text EXCEPT !.marks = Cut(@, i, by)]
  BY DEF Placed, Cut
<1> HIDE DEF i
<1>4. CASE i = 0
  BY <1>1, <1>2, <1>3, <1>4
<1>5. CASE i # 0
  <2>1. i \in 1..Len(text.marks) /\ text.marks[i] = n
    BY <1>2, <1>5
  <2>2. Cut(text.marks, i, by) \in Seq(0..MaxUploads)
    BY <1>1, <2>1, CutOut
  <2>3. Placed(text, n, by) = [text EXCEPT !.marks = Cut(text.marks, i, by)]
    BY <1>3, <1>5
  <2>4. Placed(text, n, by) \in Text /\ Placed(text, n, by).marks = Cut(text.marks, i, by)
    BY <2>2, <2>3 DEF Text
  <2> QED
    BY <2>1, <2>4
<1> QED
  BY <1>4, <1>5

\* The placeholder of an upload that settles goes, and the others stay live.
LEMMA PlacedLive ==
    ASSUME NEW text \in Text, NEW n \in 1..MaxUploads, NEW by \in Images,
           NEW up, NEW up2, Live(text.marks, up),
           \A m \in 1..MaxUploads : m # n => up2[m] = up[m]
    PROVE  Live(Placed(text, n, by).marks, up2)
<1> DEFINE old == text.marks
           new == Placed(text, n, by).marks
<1>1. old \in Seq(0..MaxUploads)
  BY DEF Text
<1>2. \A j \in 1..Len(old) : old[j] \in 0..MaxUploads
  BY MarksAre
<1>3. CASE new = old /\ \A j \in 1..Len(old) : old[j] # n
  BY <1>2, <1>3 DEF Live
<1>4. CASE \E i \in 1..Len(old) : old[i] = n /\ new = Cut(old, i, by)
  <2>1. PICK i \in 1..Len(old) : old[i] = n /\ new = Cut(old, i, by)
    BY <1>4
  <2> DEFINE W(j) == Was(i, Len(by), j)
  <2>2. /\ \A j \in 1..Len(new) : new[j] = 0 \/ (W(j) \in 1..Len(old) \ {i} /\ new[j] = old[W(j)])
        /\ \A j, l \in 1..Len(new) : W(j) = W(l) /\ W(j) # 0 => j = l
    <3>1. /\ \A j \in 1..Len(Cut(old, i, by)) :
                \/ Cut(old, i, by)[j] = 0
                \/ /\ Was(i, Len(by), j) \in 1..Len(old) \ {i}
                   /\ Cut(old, i, by)[j] = old[Was(i, Len(by), j)]
          /\ \A j, l \in 1..Len(Cut(old, i, by)) :
                Was(i, Len(by), j) = Was(i, Len(by), l) /\ Was(i, Len(by), j) # 0 => j = l
      <4> HIDE DEF old, new
      <4> QED
        BY <1>1, <2>1, CutOut
    <3> QED
      BY <2>1, <3>1
  <2> HIDE DEF W, old, new
  <2> SUFFICES ASSUME NEW j \in 1..Len(new), new[j] # 0
               PROVE  /\ up2[new[j]].at \in {"signing", "putting"}
                      /\ \A l \in 1..Len(new) : new[l] = new[j] => l = j
    BY DEF Live, new
  <2>3. W(j) \in 1..Len(old) /\ W(j) # i /\ new[j] = old[W(j)]
    BY <2>2
  <2>4. /\ up[old[W(j)]].at \in {"signing", "putting"}
        /\ \A l \in 1..Len(old) : old[l] = old[W(j)] => l = W(j)
    BY <2>3 DEF Live, old
  <2>5. new[j] \in 1..MaxUploads /\ new[j] # n
    <3>1. old[i] # old[W(j)]
      BY <2>1, <2>3, <2>4
    <3>2. old[W(j)] \in 0..MaxUploads
      BY <1>2, <2>3 DEF old
    <3> QED
      BY <2>1, <2>3, <3>1, <3>2, EditorAssumption DEF old
  <2>6. ASSUME NEW l \in 1..Len(new), new[l] = new[j] PROVE l = j
    <3>1. W(l) \in 1..Len(old) /\ new[l] = old[W(l)]
      BY <2>2, <2>6
    <3>2. W(l) = W(j)
      BY <2>3, <2>4, <2>6, <3>1
    <3> QED
      BY <2>2, <2>3, <3>1, <3>2
  <2> QED
    BY <2>3, <2>4, <2>5, <2>6
<1> QED
  BY <1>3, <1>4, PlacedText

\* A step of an upload: the page goes on with other marks.
LEMMA UploadKeeps ==
    ASSUME Inv, NEW t \in Tab, NEW q \in PageState, Set(t, q), TokensOK(q),
           q.at = tab[t].at, q.job = tab[t].job, q.ev = tab[t].ev, q.armed = tab[t].armed,
           q.off = tab[t].off, q.conn = tab[t].conn,
           UNCHANGED <<mix, browser, session, site, edits, clicks, history>>
    PROVE  Inv'
<1>1. /\ Shared /\ Approvals /\ Pages /\ PageOK(mix, t, tab[t], approved)
      /\ UNCHANGED <<mix, signer, draft, pending, session, site, edits, clicks, approved, taken>>
  BY DEF Inv, Pages, browser, history
<1>2. PageOK(mix, t, q, approved)
  BY <1>1 DEF PageOK, FlowOK
<1>3. Pages'
  BY <1>1, <1>2, PageSet
<1>4. Shared' /\ Approvals'
  BY <1>1, SharedFrame DEF Shared, PendingOK, Approvals
<1> QED
  BY <1>3, <1>4 DEF Inv

\* An upload under way goes on: the same uploads have started, and the same are live.
LEMMA UploadGoesOn ==
    ASSUME Inv, NEW t \in Tab, NEW n \in 1..MaxUploads, NEW u \in Upload,
           tab[t].up[n].at \in {"signing", "putting"}, u.at \in {"signing", "putting"},
           Set(t, [tab[t] EXCEPT !.up = [@ EXCEPT ![n] = u]]),
           UNCHANGED <<mix, browser, session, site, edits, clicks, history>>
    PROVE  Inv'
<1> DEFINE p == tab[t]
           ups == [p.up EXCEPT ![n] = u]
           q == [p EXCEPT !.up = ups]
<1>1. p \in PageState /\ TokensOK(p) /\ p.up \in [1..MaxUploads -> Upload] /\ p.text \in Text
  BY DEF Inv, Pages, PageOK, PageState
<1>2. ups \in [1..MaxUploads -> Upload] /\ \A m \in 1..MaxUploads : ups[m] = IF m = n THEN u ELSE p.up[m]
  BY <1>1
<1>3. Set(t, q)
  OBVIOUS
<1> HIDE DEF ups
<1>4. /\ q \in PageState /\ q.up = ups /\ q.text = p.text /\ q.stale = p.stale
      /\ q.at = p.at /\ q.job = p.job /\ q.ev = p.ev /\ q.armed = p.armed /\ q.off = p.off
      /\ q.conn = p.conn
  BY <1>1, <1>2 DEF PageState
<1> HIDE DEF q
<1>5. {m \in 1..MaxUploads : ups[m].at # "none"} = {m \in 1..MaxUploads : p.up[m].at # "none"}
  BY <1>2
<1>6. Numbered(ups)
  BY <1>1, <1>5 DEF Numbered, TokensOK
<1>7. ASSUME Live(p.text.marks, p.up) PROVE Live(p.text.marks, ups)
  <2>1. \A i \in 1..Len(p.text.marks) : p.text.marks[i] \in 0..MaxUploads
    BY <1>1, MarksAre
  <2>2. \A i \in 1..Len(p.text.marks) : p.text.marks[i] # 0 => p.text.marks[i] \in 1..MaxUploads
    BY <2>1, EditorAssumption
  <2> QED
    BY <1>2, <1>7, <2>2 DEF Live
<1>8. TokensOK(q)
  BY <1>1, <1>4, <1>6, <1>7 DEF TokensOK
<1> QED
  BY <1>3, <1>4, <1>8, UploadKeeps

LEMMA SettledKeeps ==
    ASSUME Inv, NEW t \in Tab, NEW n \in 1..MaxUploads, NEW image \in Images,
           tab[t].up[n].at \in {"signing", "putting"}, Set(t, Settled(t, n, image)),
           UNCHANGED <<mix, browser, session, site, edits, clicks, history>>
    PROVE  Inv'
<1> DEFINE p == tab[t]
           u == [p.up[n] EXCEPT !.at = "settled"]
           ups == [p.up EXCEPT ![n] = u]
           text == Placed(p.text, n, image)
           q == [p EXCEPT !.up = ups, !.due = TRUE, !.text = text]
<1>1. p \in PageState /\ TokensOK(p) /\ p.up \in [1..MaxUploads -> Upload] /\ p.text \in Text
  BY DEF Inv, Pages, PageOK, PageState
<1>2. u \in Upload /\ u.at = "settled"
  BY <1>1 DEF Upload
<1>3. Settled(t, n, image) = q
  BY DEF Settled
<1> HIDE DEF u
<1>4. ups \in [1..MaxUploads -> Upload] /\ \A m \in 1..MaxUploads : ups[m] = IF m = n THEN u ELSE p.up[m]
  BY <1>1, <1>2
<1>5. text \in Text
  BY <1>1, PlacedText
<1>6. Live(p.text.marks, p.up) => Live(text.marks, ups)
  <2>1. \A m \in 1..MaxUploads : m # n => ups[m] = p.up[m]
    BY <1>4
  <2>2. ASSUME NEW up, NEW up2, Live(p.text.marks, up),
               \A m \in 1..MaxUploads : m # n => up2[m] = up[m]
        PROVE  Live(text.marks, up2)
    BY <1>1, <2>2, PlacedLive
  <2> HIDE DEF ups, text
  <2> QED
    BY <2>1, <2>2
<1> HIDE DEF ups, text
<1>7. /\ q \in PageState /\ q.up = ups /\ q.text = text /\ q.stale = p.stale
      /\ q.at = p.at /\ q.job = p.job /\ q.ev = p.ev /\ q.armed = p.armed /\ q.off = p.off
      /\ q.conn = p.conn
  BY <1>1, <1>4, <1>5 DEF PageState
<1> HIDE DEF q
<1>8. {m \in 1..MaxUploads : ups[m].at # "none"} = {m \in 1..MaxUploads : p.up[m].at # "none"}
  BY <1>2, <1>4
<1>9. TokensOK(q)
  BY <1>1, <1>6, <1>7, <1>8 DEF TokensOK, Numbered
<1> QED
  BY <1>3, <1>7, <1>9, UploadKeeps

LEMMA UploadsKeep ==
    ASSUME Inv, NEW t \in Tab, NEW n \in 1..MaxUploads, SignUpload(t, n) \/ PutAnswer(t, n)
    PROVE  Inv'
<1> DEFINE p == tab[t]
           s == p.up[n].server
<1>1. p.up \in [1..MaxUploads -> Upload] /\ p.up[n] \in Upload /\ p.up[n].server \in Nat
  BY DEF Inv, Pages, PageOK, PageState, Upload
<1>2. UNCHANGED <<mix, browser, session, site, edits, clicks, history>>
      /\ p.up[n].at \in {"signing", "putting"}
  BY DEF SignUpload, PutAnswer
<1>3. \/ Set(t, [p EXCEPT !.up[n].at = "putting"])
      \/ Set(t, [p EXCEPT !.up[n] = [at |-> "signing", server |-> s + 1]])
      \/ \E image \in Images : Set(t, Settled(t, n, image))
  BY DEF SignUpload, PutAnswer, Failed, Images
<1>4. CASE Set(t, [p EXCEPT !.up[n].at = "putting"])
  <2> DEFINE u == [p.up[n] EXCEPT !.at = "putting"]
  <2>1. u \in Upload /\ u.at = "putting"
    BY <1>1 DEF Upload
  <2>2. Set(t, [p EXCEPT !.up = [@ EXCEPT ![n] = u]])
    BY <1>4
  <2> HIDE DEF u
  <2> QED
    BY <1>2, <2>1, <2>2, UploadGoesOn
<1>5. CASE Set(t, [p EXCEPT !.up[n] = [at |-> "signing", server |-> s + 1]])
  <2> DEFINE u == [at |-> "signing", server |-> s + 1]
  <2>1. u \in Upload /\ u.at = "signing"
    BY <1>1 DEF Upload
  <2>2. Set(t, [p EXCEPT !.up = [@ EXCEPT ![n] = u]])
    BY <1>5
  <2> HIDE DEF u
  <2> QED
    BY <1>2, <2>1, <2>2, UploadGoesOn
<1>6. CASE \E image \in Images : Set(t, Settled(t, n, image))
  BY <1>2, <1>6, SettledKeeps
<1> QED
  BY <1>3, <1>4, <1>5, <1>6

\* with is s and n, which stands at i; what was at j - d is at j.
Joined(with, s, n, i, d) ==
    \A j \in 1..Len(with) : \/ j = i /\ with[j] = n
                            \/ j # i /\ j - d \in 1..Len(s) /\ with[j] = s[j - d]

\* A new placeholder stands before or after the marks there are.
LEMMA NewMark ==
    ASSUME NEW S, NEW s \in Seq(S), NEW n \in S, NEW with \in {<<n>> \o s, Append(s, n)}
    PROVE  /\ with \in Seq(S)
           /\ \E i, d \in Nat : Joined(with, s, n, i, d)
<1>0. Len(s) \in Nat
  OBVIOUS
<1>1. CASE with = Append(s, n)
  <2>1. with \in Seq(S) /\ Len(with) = Len(s) + 1
    BY <1>1
  <2>2. Joined(with, s, n, Len(s) + 1, 0)
    BY <1>0, <1>1, <2>1 DEF Joined
  <2> QED
    BY <1>0, <2>1, <2>2
<1>2. CASE with = <<n>> \o s
  <2>1. <<n>> \in Seq(S) /\ Len(<<n>>) = 1 /\ <<n>>[1] = n
    OBVIOUS
  <2> DEFINE h == <<n>>
  <2> HIDE DEF h
  <2>2. /\ h \o s \in Seq(S) /\ Len(h \o s) = 1 + Len(s)
        /\ \A j \in 1..1 + Len(s) : (h \o s)[j] = IF j <= 1 THEN h[j] ELSE s[j - 1]
    BY <2>1, ConcatProperties DEF h
  <2>3. Joined(h \o s, s, n, 1, 1)
    BY <1>0, <2>1, <2>2 DEF h, Joined
  <2>4. with = h \o s
    BY <1>2 DEF h
  <2> QED
    BY <2>2, <2>3, <2>4
<1> QED
  BY <1>1, <1>2

LEMMA DropImageKeeps ==
    ASSUME Inv, NEW t \in Tab, DropImage(t) PROVE Inv'
<1> DEFINE p == tab[t]
           marks == p.text.marks
           n == Cardinality(Uploads(t)) + 1
           u == [at |-> "signing", server |-> 1]
           ups == [p.up EXCEPT ![n] = u]
<1>1. p \in PageState /\ TokensOK(p) /\ p.up \in [1..MaxUploads -> Upload] /\ p.text \in Text
  BY DEF Inv, Pages, PageOK, PageState
<1>2. PICK k \in 0..MaxUploads : {m \in 1..MaxUploads : p.up[m].at # "none"} = 1..k
  BY <1>1 DEF TokensOK, Numbered
<1>3. n = k + 1
  <2>1. Uploads(t) = 1..k
    BY <1>2 DEF Uploads
  <2>2. Cardinality(1..k) = IF 1 > k THEN 0 ELSE k - 1 + 1
    BY <1>2, FS_Interval
  <2> QED
    BY <1>2, <2>1, <2>2
<1>4. PICK with \in {<<n>> \o marks, Append(marks, n)} :
         Set(t, [p EXCEPT !.text.marks = with, !.due = TRUE, !.up[n] = u])
  BY DEF DropImage
<1>5. n <= MaxUploads /\ UNCHANGED <<mix, browser, session, site, edits, clicks, history>>
  BY DEF DropImage
<1> HIDE DEF n
<1>6. n \in 1..MaxUploads /\ n \in 0..MaxUploads /\ n # 0 /\ p.up[n].at = "none"
  <2>1. n \in 1..MaxUploads
    BY <1>2, <1>3, <1>5, EditorAssumption
  <2>2. n \notin 1..k
    BY <1>2, <1>3
  <2> QED
    BY <1>2, <2>1, <2>2
<1>7. u \in Upload /\ u.at = "signing"
  BY DEF Upload
<1>8. ups \in [1..MaxUploads -> Upload] /\ \A m \in 1..MaxUploads : ups[m] = IF m = n THEN u ELSE p.up[m]
  BY <1>1, <1>6, <1>7
<1> HIDE DEF u
<1>9. /\ with \in Seq(0..MaxUploads)
      /\ \E i, d \in Nat : Joined(with, marks, n, i, d)
  <2> DEFINE D == 0..MaxUploads
  <2>1. marks \in Seq(D) /\ n \in D
    BY <1>1, <1>6 DEF Text
  <2>2. with \in {<<n>> \o marks, Append(marks, n)}
    OBVIOUS
  <2> HIDE DEF marks, D
  <2>3. with \in Seq(D) /\ \E i, d \in Nat : Joined(with, marks, n, i, d)
    BY <2>1, <2>2, NewMark
  <2> QED
    BY <2>3 DEF D
<1> DEFINE text == [p.text EXCEPT !.marks = with]
           q == [p EXCEPT !.text = text, !.due = TRUE, !.up = ups]
<1>10. Set(t, q)
  BY <1>4
<1>11. text \in Text /\ text.marks = with
  BY <1>1, <1>9 DEF Text
<1> HIDE DEF ups, text
<1>12. /\ q \in PageState /\ q.up = ups /\ q.text = text /\ q.stale = p.stale
       /\ q.at = p.at /\ q.job = p.job /\ q.ev = p.ev /\ q.armed = p.armed /\ q.off = p.off
       /\ q.conn = p.conn
  BY <1>1, <1>8, <1>11 DEF PageState
<1> HIDE DEF q
<1>13. Numbered(ups)
  <2>1. \A m \in 1..MaxUploads : ups[m].at # "none" <=> m \in 1..k \/ m = n
    BY <1>2, <1>7, <1>8
  <2>2. \A m : m \in 1..n <=> m \in 1..k \/ m = n
    BY <1>2, <1>3
  <2>3. \A m \in 1..n : m \in 1..MaxUploads
    BY <1>6, EditorAssumption
  <2>4. {m \in 1..MaxUploads : ups[m].at # "none"} = 1..n
    BY <2>1, <2>2, <2>3
  <2> QED
    BY <1>6, <2>4 DEF Numbered
<1>14. ASSUME Live(marks, p.up) PROVE Live(with, ups)
  <2>1. \A j \in 1..Len(marks) : marks[j] # 0 => marks[j] \in 1..MaxUploads /\ marks[j] # n
    <3>1. \A j \in 1..Len(marks) : marks[j] \in 0..MaxUploads
      BY <1>1, MarksAre
    <3>2. \A j \in 1..Len(marks) : marks[j] # 0 => marks[j] \in 1..MaxUploads
      BY <3>1, EditorAssumption
    <3> QED
      BY <1>6, <1>14, <3>2 DEF Live
  <2>2. PICK i \in Nat, d \in Nat : \A j \in 1..Len(with) :
            \/ j = i /\ with[j] = n
            \/ j # i /\ j - d \in 1..Len(marks) /\ with[j] = marks[j - d]
    BY <1>9 DEF Joined
  <2> HIDE DEF marks
  <2> SUFFICES ASSUME NEW j \in 1..Len(with), with[j] # 0
               PROVE  /\ ups[with[j]].at \in {"signing", "putting"}
                      /\ \A l \in 1..Len(with) : with[l] = with[j] => l = j
    BY DEF Live
  <2>3. CASE j = i /\ with[j] = n
    <3>1. \A l \in 1..Len(with) : with[l] = n => l = i
      BY <1>6, <2>1, <2>2
    <3> QED
      BY <1>6, <1>7, <1>8, <2>3, <3>1
  <2>4. CASE j # i /\ j - d \in 1..Len(marks) /\ with[j] = marks[j - d]
    <3>1. with[j] \in 1..MaxUploads /\ with[j] # n
      BY <2>1, <2>4
    <3>2. ups[with[j]].at \in {"signing", "putting"}
      BY <1>8, <1>14, <2>4, <3>1 DEF Live
    <3>3. ASSUME NEW l \in 1..Len(with), with[l] = with[j] PROVE l = j
      <4>1. l - d \in 1..Len(marks) /\ with[l] = marks[l - d]
        BY <2>2, <3>1, <3>3
      <4>2. l - d = j - d
        BY <1>14, <2>4, <3>3, <4>1 DEF Live
      <4> QED
        BY <2>2, <4>2
    <3> QED
      BY <3>2, <3>3
  <2> QED
    BY <2>2, <2>3, <2>4, Zenon
<1>15. TokensOK(q)
  BY <1>1, <1>11, <1>12, <1>13, <1>14 DEF TokensOK
<1> QED
  BY <1>5, <1>10, <1>12, <1>15, UploadKeeps

-----------------------------------------------------------------------------
(***************************************************************************)
(* The invariant, and what follows from it at once.                        *)
(***************************************************************************)
LEMMA InvStep == Inv /\ [Next]_vars => Inv'
<1> SUFFICES ASSUME Inv, [Next]_vars PROVE Inv'
  OBVIOUS
<1>1. CASE Age
  BY <1>1, AgeKeeps
<1>2. ASSUME NEW t \in Tab, Edit(t) PROVE Inv'
  <2>1. CASE \/ Type(t) \/ DraftTimer(t) \/ RestoreDraft(t) \/ DiscardDraft(t)
             \/ Reload(t) \/ Open(t) \/ DropImage(t)
    BY <2>1, TypeKeeps, DraftTimerKeeps, RestoreDraftKeeps, DiscardDraftKeeps, LoadsKeep,
       DropImageKeeps
  <2>2. CASE \E n \in 1..MaxUploads : SignUpload(t, n) \/ PutAnswer(t, n)
    BY <2>2, UploadsKeep
  <2> QED
    BY <1>2, <2>1, <2>2 DEF Edit
<1>3. ASSUME NEW t \in Tab, Amber(t) PROVE Inv'
  BY <1>3, AmberKeeps, LoadsKeep DEF Amber
<1>4. ASSUME NEW t \in Tab, Press(t) PROVE Inv'
  BY <1>4, ClickKeeps, ConnectAmberKeeps, ImportKeyKeeps, ForgetSignerKeeps, SignInPageKeeps
     DEF Press
<1>5. ASSUME NEW t \in Tab, Post(t) PROVE Inv'
  <2>1. CASE ServerTakes(t) \/ Accepted(t) \/ SignedIn(t) \/ Rejected(t) \/ Leave(t)
    BY <2>1, ServerTakesKeeps, AcceptedKeeps, SignedInKeeps, RejectedKeeps, LeaveKeeps
  <2>2. ASSUME NEW r \in Relay,
               \/ RelayTakes(t, r) \/ Dare(t, r) \/ Frame(t, r)
               \/ SignChallenge(t, r) \/ Deadline(t, r)
        PROVE  Inv'
    BY <2>2, RelayTakesKeeps, DareKeeps, FrameKeeps, SignChallengeKeeps
  <2> QED
    BY <1>5, <2>1, <2>2 DEF Post
<1>6. CASE UNCHANGED vars
  BY <1>6 DEF vars, browser, history, Inv, Shared, PendingOK, Approvals, OnlyApproved, Pages
<1> QED
  BY <1>1, <1>2, <1>3, <1>4, <1>5, <1>6 DEF Next

\* Pages, attempts, uploads and the pending record fit together in every state.
THEOREM Invariant == Spec => []Inv
BY InvInit, InvStep, PTL DEF Spec

\* The record in localStorage is of the kind its event belongs to, and a page has an
\* event in hand exactly while it sends one, and a resumed one only if it came back
\* from a redirect (resumePending, restashResumed).
THEOREM EditorTypes == Spec => []TypeOK
<1>1. Inv => TypeOK
  BY DEF Inv, Shared, PendingOK, PendingRecord, Pages, PageOK, PageState, FlowOK, At, Jobs, TypeOK
<1> QED
  BY <1>1, Invariant, PTL

\* However tabs cross in the one pending slot, the server takes only what somebody
\* approved, and a session other than the first has an approved login (Completes).
THEOREM OnlyApprovedTaken == Spec => []OnlyApproved
<1>1. Inv => OnlyApproved
  BY DEF Inv, Approvals
<1> QED
  BY <1>1, Invariant, PTL

\* No placeholder of a finished upload stays in the form (replacePlaceholder, and the
\* numbers uploadAndInsert gives out).
THEOREM NoTokenLeft == Spec => []NoBrokenToken
<1>1. ASSUME Inv PROVE NoBrokenToken
  <2> SUFFICES ASSUME NEW t \in Tab, ~tab[t].stale, NEW n \in ToSet(tab[t].text.marks) \ {0}
               PROVE  tab[t].up[n].at \in {"signing", "putting"}
    BY DEF NoBrokenToken
  <2>1. Live(tab[t].text.marks, tab[t].up)
    BY <1>1 DEF Inv, Pages, PageOK, TokensOK
  <2>2. PICK i \in 1..Len(tab[t].text.marks) : tab[t].text.marks[i] = n
    <3>1. PICK i \in DOMAIN tab[t].text.marks : tab[t].text.marks[i] = n
      BY DEF ToSet
    <3>2. tab[t].text.marks \in Seq(0..MaxUploads)
      BY <1>1 DEF Inv, Pages, PageOK, PageState, Text
    <3>3. DOMAIN tab[t].text.marks = 1..Len(tab[t].text.marks)
      BY <3>2
    <3> QED
      BY <3>1, <3>3
  <2> QED
    BY <2>1, <2>2 DEF Live
<1> QED
  BY <1>1, Invariant, PTL

\* An attempt that ended on an OK of the relay for the event has left the event there, or
\* the relay turned it down for good (handleFrame, with AUTH before or after the refusal),
\* unless the signer cannot sign in place.
THEOREM AnsweredIsVerdict == Spec => []AnsweredIsFinal
<1>1. ASSUME Inv PROVE AnsweredIsFinal
  <2>1. \A t \in Tab, r \in Relay : AttemptOK(mix, tab[t].conn[r])
    BY <1>1 DEF Inv, Pages, PageOK
  <2> QED
    BY <2>1 DEF AnsweredIsFinal, Conn, AttemptOK
<1> QED
  BY <1>1, Invariant, PTL

-----------------------------------------------------------------------------
(***************************************************************************)
(* Drafts.  Tabs share them by key and kind of page; what a page that was left *)
(* or unloaded has stored is changed by no other tab when no other has a   *)
(* page of that kind.                                                      *)
(***************************************************************************)
LEMMA PageNow ==
    ASSUME Pages, NEW t \in Tab, NEW q, Set(t, q)
    PROVE  tab'[t] = q /\ \A s \in Tab \ {t} : tab'[s] = tab[s]
BY DEF Pages, Set

\* A tab writes the draft of its own kind of page and changes no other tab.
LEMMA OwnDraftOnly ==
    ASSUME Inv, NEW u \in Tab, Edit(u) \/ Amber(u) \/ Press(u) \/ Post(u)
    PROVE  /\ mix' = mix
           /\ \A s \in Tab \ {u} : tab'[s] = tab[s]
           /\ \A at \in Key \X {"new", "edit"} : at[2] # mix.page[u] => draft'[at] = draft[at]
<1>0. Pages /\ draft \in Drafts /\ mix \in Mixes /\ tab[u] \in PageState
  BY DEF Inv, Shared, Pages, PageOK
<1>1. WriteDraft(u) \in Drafts
  BY <1>0, WrittenDrafts DEF WriteDraft
<1>a. \/ draft' = draft
      \/ draft' = WriteDraft(u)
      \/ \E k : draft' = [draft EXCEPT ![DraftKey(k, u)] = NoText]
      \/ draft' = Sifted(u, WriteDraft(u))
      \/ draft' = Sifted(u, draft)
      \/ \E p : draft' = Written(u, p, draft)
      \/ \E p, k : draft' = Written(u, p, [draft EXCEPT ![DraftKey(k, u)] = NoText])
  <2>1. CASE Edit(u)
    BY <2>1 DEF Edit, Type, DraftTimer, RestoreDraft, DiscardDraft, Reload, Open, Load,
       DropImage, SignUpload, PutAnswer, browser
  <2>2. CASE Amber(u)
    BY <2>2 DEF Amber, Approve, Cancel, GoBack, Callback, Load
  <2>3. CASE Press(u)
    BY <2>3 DEF Press, Click, Sign, HandOff, ConnectAmber, ImportKey, ForgetSigner, SignInPage,
       browser
  <2>4. CASE Post(u)
    <3>1. CASE Leave(u)
      BY <3>1 DEF Leave
    <3>2. CASE ~Leave(u)
      BY <2>4, <3>2 DEF Post, ServerTakes, Accepted, SignedIn, Rejected, RelayTakes, Dare, Frame,
         SignChallenge, Deadline, browser
    <3> QED
      BY <3>1, <3>2
  <2> QED
    BY <2>1, <2>2, <2>3, <2>4
<1>2. \A at \in Key \X {"new", "edit"} : at[2] # mix.page[u] => draft'[at] = draft[at]
  <2>1. \A k : [draft EXCEPT ![DraftKey(k, u)] = NoText] \in Drafts
    BY <1>0 DEF Drafts
  <2> SUFFICES ASSUME NEW at \in Key \X {"new", "edit"}, at[2] # mix.page[u]
               PROVE  draft'[at] = draft[at]
    OBVIOUS
  <2>0. \A k : at # DraftKey(k, u)
    BY DraftKeyOf
  <2>2. WriteDraft(u)[at] = draft[at]
    BY <1>0, <2>0 DEF WriteDraft, Written, Drafts
  <2>3. \A k : [draft EXCEPT ![DraftKey(k, u)] = NoText][at] = draft[at]
    BY <1>0, <2>0 DEF Drafts
  <2>4. Sifted(u, WriteDraft(u))[at] = draft[at] /\ Sifted(u, draft)[at] = draft[at]
    BY <1>0, <1>1, <2>0, <2>2 DEF Sifted, Drafts
  <2>5. \A p, k : /\ Written(u, p, draft)[at] = draft[at]
                  /\ Written(u, p, [draft EXCEPT ![DraftKey(k, u)] = NoText])[at] = draft[at]
    BY <1>0, <2>0, <2>1, <2>3 DEF Written, Drafts
  <2>6. CASE \E p : draft' = Written(u, p, draft)
    BY <2>5, <2>6
  <2>7. CASE \E p, k : draft' = Written(u, p, [draft EXCEPT ![DraftKey(k, u)] = NoText])
    <3>1. PICK p, k : draft' = Written(u, p, [draft EXCEPT ![DraftKey(k, u)] = NoText])
      BY <2>7
    <3> QED
      BY <2>5, <3>1
  <2>8. CASE \E k : draft' = [draft EXCEPT ![DraftKey(k, u)] = NoText]
    <3>1. PICK k : draft' = [draft EXCEPT ![DraftKey(k, u)] = NoText]
      BY <2>8
    <3> QED
      BY <2>3, <3>1
  <2> QED
    BY <1>a, <2>2, <2>4, <2>6, <2>7, <2>8
<1>3. mix' = mix /\ (tab' = tab \/ \E q : Set(u, q))
  <2>1. CASE Edit(u)
    BY <2>1 DEF Edit, Type, DraftTimer, RestoreDraft, DiscardDraft, Reload, Open, Load,
       DropImage, SignUpload, PutAnswer
  <2>2. CASE Amber(u)
    <3>1. CASE Approve(u) \/ Cancel(u)
      BY <3>1 DEF Approve, Cancel, Callback, ResumeLogin, ResumePublish
    <3>2. CASE GoBack(u)
      BY <3>2 DEF GoBack, Load
    <3> QED
      BY <2>2, <3>1, <3>2 DEF Amber
  <2>3. CASE Press(u)
    BY <2>3, ZenonT(60)
       DEF Press, Click, Sign, HandOff, ConnectAmber, ImportKey, ForgetSigner, SignInPage
  <2>4. CASE Post(u)
    BY <2>4 DEF Post, ServerTakes, Accepted, SignedIn, Rejected, Leave, RelayTakes, Dare, Frame,
         SignChallenge, Deadline, Wire
  <2> QED
    BY <2>1, <2>2, <2>3, <2>4, SMTT(60)
<1>4. \A s \in Tab \ {u} : tab'[s] = tab[s]
  BY <1>0, <1>3, PageNow
<1> QED
  BY <1>2, <1>3, <1>4

\* What an editor page that was unloaded or left has stored.
Kept(t, p, drafts) ==
    /\ p.at = "away" /\ p.text # p.served => drafts[DraftKey(p.key, t)] = p.text
    /\ p.at = "left" => drafts[DraftKey(p.key, t)] = NoText

\* A callback ends on the page, on a 404 or in a request to the server.
LEMMA CallbackOpens ==
    ASSUME Inv, NEW t \in Tab, IsEditor(t), NEW reply, Callback(t, reply)
    PROVE  tab'[t].at \in {"page", "posting", "404"}
<1> DEFINE p == tab[t]
           page == Loaded(t, draft)
<1>0. /\ Pages /\ mix \in Mixes /\ draft \in Drafts /\ session \in Key /\ p \in PageState
      /\ site \in [Key \X {"post", "profile"} -> Held] /\ mix.page[t] \in {"new", "edit"}
  BY DEF Inv, Shared, Pages, PageOK, IsEditor
<1>1. page \in PageState /\ page.at \in {"page", "404"}
  BY <1>0, LoadedPage
<1> HIDE DEF page
<1>2. CASE ~ComesBack(t)
  <2>1. Set(t, [p EXCEPT !.at = "404"])
    BY <1>2 DEF Callback
  <2>2. [p EXCEPT !.at = "404"].at = "404"
    BY <1>0 DEF PageState
  <2> QED
    BY <1>0, <2>1, <2>2, PageNow
<1>3. CASE ComesBack(t)
  <2>1. ResumePublish(t, page, reply)
    BY <1>0, <1>3 DEF Callback, page
  <2> DEFINE s == Sending(page, pending.ev, "resumed")
             q == [s EXCEPT !.armed = pending.ev]
  <2>2. Set(t, page) \/ Set(t, q)
    BY <2>1 DEF ResumePublish
  <2>3. q.at = "posting"
    BY <1>1 DEF Sending, PageState
  <2> HIDE DEF q
  <2> QED
    BY <1>0, <1>1, <2>2, <2>3, PageNow
<1> QED
  BY <1>2, <1>3

LEMMA EditKept ==
    ASSUME Inv, NEW t \in Tab, Edit(t) PROVE tab'[t].at \notin {"away", "left"}
<1> DEFINE p == tab[t]
<1>0. /\ Pages /\ mix \in Mixes /\ draft \in Drafts /\ session \in Key /\ p \in PageState
      /\ site \in [Key \X {"post", "profile"} -> Held]
  BY DEF Inv, Shared, Pages, PageOK
<1>1. CASE Reload(t) \/ Open(t)
  <2>1. WriteDraft(t) \in Drafts
    BY <1>0, WrittenDrafts DEF WriteDraft
  <2>2. \E drafts \in Drafts : Set(t, Loaded(t, drafts))
    BY <1>0, <1>1, <2>1 DEF Reload, Open, Load
  <2>3. \A drafts \in Drafts : Loaded(t, drafts).at \in {"page", "404"}
    BY <1>0, LoadedPage
  <2> QED
    BY <1>0, <2>2, <2>3, PageNow
<1>2. CASE \/ Type(t) \/ DraftTimer(t) \/ RestoreDraft(t) \/ DiscardDraft(t) \/ DropImage(t)
           \/ \E n \in 1..MaxUploads : SignUpload(t, n) \/ PutAnswer(t, n)
  <2>1. p.at \notin {"away", "left"}
    BY <1>2 DEF Type, DraftTimer, RestoreDraft, DiscardDraft, DropImage, SignUpload, PutAnswer, OnPage
  <2>2. \E q : Set(t, q) /\ q.at = p.at
    <3>1. CASE Type(t)
      <4> DEFINE q == [p EXCEPT !.text.ver = edits + 1, !.due = IsEditor(t)]
      <4>1. Set(t, q)
        BY <3>1 DEF Type
      <4>2. q.at = p.at
        BY <1>0 DEF PageState
      <4> HIDE DEF q
      <4> QED
        BY <4>1, <4>2
    <3>2. CASE DraftTimer(t) \/ RestoreDraft(t) \/ DiscardDraft(t)
      <4>1. PICK q \in {[p EXCEPT !.due = FALSE],
                        [p EXCEPT !.text = p.offer, !.offer = NoText, !.due = TRUE,
                                  !.stale = @ \/ p.offer.marks # << >>],
                        [p EXCEPT !.offer = NoText]} : Set(t, q)
        BY <3>2 DEF DraftTimer, RestoreDraft, DiscardDraft
      <4>2. q.at = p.at
        BY <1>0, <4>1 DEF PageState
      <4> QED
        BY <4>1, <4>2
    <3>3. CASE DropImage(t)
      <4>1. PICK with, n, u : Set(t, [p EXCEPT !.text.marks = with, !.due = TRUE, !.up[n] = u])
        BY <3>3 DEF DropImage
      <4> DEFINE q == [p EXCEPT !.text.marks = with, !.due = TRUE, !.up[n] = u]
      <4>2. Set(t, q)
        BY <4>1
      <4>3. q.at = p.at
        BY <1>0 DEF PageState
      <4> HIDE DEF q
      <4> QED
        BY <4>2, <4>3
    <3>4. CASE \E n \in 1..MaxUploads : SignUpload(t, n) \/ PutAnswer(t, n)
      <4>1. PICK n, u, image : \E q \in {[p EXCEPT !.up[n] = u], [p EXCEPT !.up[n].at = "putting"],
                                         Settled(t, n, image)} : Set(t, q)
        BY <3>4 DEF SignUpload, PutAnswer, Failed
      <4>2. PICK q \in {[p EXCEPT !.up[n] = u], [p EXCEPT !.up[n].at = "putting"],
                        Settled(t, n, image)} : Set(t, q)
        BY <4>1
      <4>3. q.at = p.at
        BY <1>0, <4>2 DEF PageState, Settled
      <4> QED
        BY <4>2, <4>3
    <3> QED
      BY <1>2, <3>1, <3>2, <3>3, <3>4
  <2> QED
    BY <1>0, <2>1, <2>2, PageNow
<1> QED
  BY <1>1, <1>2 DEF Edit

LEMMA AmberKept ==
    ASSUME Inv, NEW t \in Tab, IsEditor(t), Amber(t) PROVE tab'[t].at \notin {"away", "left"}
<1>0. /\ Pages /\ mix \in Mixes /\ draft \in Drafts /\ session \in Key
      /\ site \in [Key \X {"post", "profile"} -> Held]
  BY DEF Inv, Shared
<1>1. CASE Approve(t) \/ Cancel(t)
  <2>1. PICK reply : Callback(t, reply)
    BY <1>1 DEF Approve, Cancel
  <2> QED
    BY <2>1, CallbackOpens
<1>2. CASE GoBack(t)
  <2>1. Set(t, Loaded(t, draft))
    BY <1>2 DEF GoBack, Load
  <2>2. Loaded(t, draft).at \in {"page", "404"}
    BY <1>0, LoadedPage
  <2> QED
    BY <1>0, <2>1, <2>2, PageNow
<1> QED
  BY <1>1, <1>2 DEF Amber

LEMMA PressKept ==
    ASSUME Inv, NEW t \in Tab, IsEditor(t), Press(t) PROVE Kept(t, tab'[t], draft')
<1> DEFINE p == tab[t]
<1>0. Pages /\ draft \in Drafts /\ p \in PageState /\ FlowOK(mix, t, p, approved)
      /\ mix.page[t] \in {"new", "edit"}
  BY DEF Inv, Shared, Pages, PageOK, IsEditor
<1>k. DraftKey(p.key, t) \in Key \X {"new", "edit"}
  BY <1>0, DraftKeyOf DEF PageState
<1>1. CASE SignInPage(t)
  <2>1. PICK q \in {Sending(p, p.ev, "fresh"), [p EXCEPT !.at = "page", !.ev = NoEvent]} : Set(t, q)
    BY <1>1 DEF SignInPage
  <2>2. q.at \in {"posting", "page"}
    BY <1>0, <2>1 DEF Sending, PageState
  <2>3. tab'[t].at \in {"posting", "page"}
    BY <1>0, <2>1, <2>2, PageNow
  <2> QED
    BY <2>3 DEF Kept
<1>2. ASSUME NEW kind \in EventKind, Click(t, kind) PROVE Kept(t, tab'[t], draft')
  <2>0. p.at = "page" /\ ~p.off
    BY <1>0, <1>2 DEF Click, FlowOK
  <2>1. \/ Set(t, Sending(p, p.armed, "retry"))
        \/ \E e : Set(t, [p EXCEPT !.at = "signing", !.ev = e])
        \/ \E e, k : HandOff(t, k, e, p)
    BY <1>2 DEF Click, Sign
  <2>2. CASE Set(t, Sending(p, p.armed, "retry"))
    <3>1. Sending(p, p.armed, "retry").at = "posting"
      BY <1>0 DEF Sending, PageState
    <3>2. tab'[t].at = "posting"
      BY <1>0, <2>2, <3>1, PageNow
    <3> QED
      BY <3>2 DEF Kept
  <2>3. CASE \E e : Set(t, [p EXCEPT !.at = "signing", !.ev = e])
    <3>1. PICK e : Set(t, [p EXCEPT !.at = "signing", !.ev = e])
      BY <2>3
    <3>2. [p EXCEPT !.at = "signing", !.ev = e].at = "signing"
      BY <1>0 DEF PageState
    <3>3. tab'[t].at = "signing"
      BY <1>0, <3>1, <3>2, PageNow
    <3> QED
      BY <3>3 DEF Kept
  <2>4. CASE \E e, k : HandOff(t, k, e, p)
    <3>1. PICK e, k : HandOff(t, k, e, p)
      BY <2>4
    <3> DEFINE q == [p EXCEPT !.at = "away", !.ev = e]
    <3>2. q.at = "away" /\ q.text = p.text /\ q.served = p.served /\ q.key = p.key
      BY <1>0 DEF PageState
    <3>3. Set(t, q) /\ draft' = Written(t, p, draft)
      BY <3>1 DEF HandOff, WriteDraft
    <3> HIDE DEF q
    <3>4. tab'[t] = q
      BY <1>0, <3>3, PageNow
    <3>5. p.text # p.served => draft'[DraftKey(p.key, t)] = p.text
      BY <1>0, <1>k, <2>0, <3>3 DEF Written, Drafts
    <3> QED
      BY <3>2, <3>4, <3>5 DEF Kept
  <2> QED
    BY <2>1, <2>2, <2>3, <2>4
<1>3. ~ConnectAmber(t) /\ ~ImportKey(t) /\ ~ForgetSigner(t)
  BY <1>0 DEF ConnectAmber, ImportKey, ForgetSigner
<1> QED
  BY <1>1, <1>2, <1>3 DEF Press

LEMMA PostKept ==
    ASSUME Inv, NEW t \in Tab, IsEditor(t), Post(t) PROVE Kept(t, tab'[t], draft')
<1> DEFINE p == tab[t]
<1>0. Pages /\ draft \in Drafts /\ p \in PageState /\ FlowOK(mix, t, p, approved)
      /\ mix.page[t] \in {"new", "edit"}
  BY DEF Inv, Shared, Pages, PageOK, IsEditor
<1>1. CASE ServerTakes(t) \/ Accepted(t) \/ Rejected(t)
  <2> DEFINE After(got, conn, armed) ==
               {[p EXCEPT !.at = "answered", !.got = got],
                [p EXCEPT !.at = "casting", !.armed = NoEvent, !.got = "none", !.conn = conn],
                [p EXCEPT !.at = "page", !.ev = NoEvent, !.job = "none", !.got = "none",
                          !.armed = armed]}
  <2>1. PICK got, conn, armed : \E q \in After(got, conn, armed) : Set(t, q)
    BY <1>1 DEF ServerTakes, Accepted, Rejected
  <2>a. PICK q \in After(got, conn, armed) : Set(t, q)
    BY <2>1
  <2>b. q.at \in {"answered", "casting", "page"}
    BY <1>0, <2>a DEF PageState
  <2>2. tab'[t].at \in {"answered", "casting", "page"}
    BY <1>0, <2>a, <2>b, PageNow
  <2> QED
    BY <2>2, SMTT(60) DEF Kept
<1>2. CASE Leave(t)
  <2>1. Set(t, Gone(t)) /\ Gone(t).at = "left" /\ Gone(t).key = p.key
    BY <1>0, <1>2 DEF Leave, Gone, PageState
  <2>2. Cleared(t).off /\ DraftKey(p.key, t) \in Key \X {"new", "edit"}
    BY <1>0, DraftKeyOf DEF Cleared, PageState
  <2>3. draft' = [draft EXCEPT ![DraftKey(p.key, t)] = NoText]
    BY <1>2, <2>2 DEF Leave, Written
  <2>4. tab'[t].at = "left" /\ draft'[DraftKey(tab'[t].key, t)] = NoText
    BY <1>0, <2>1, <2>2, <2>3, PageNow DEF Drafts
  <2> QED
    BY <2>4 DEF Kept
<1>3. ASSUME NEW r \in Relay,
             \/ RelayTakes(t, r) \/ Dare(t, r) \/ Frame(t, r)
             \/ SignChallenge(t, r) \/ Deadline(t, r)
      PROVE  Kept(t, tab'[t], draft')
  <2>1. p.at = "casting" /\ \E c : Wire(t, r, c)
    BY <1>3 DEF RelayTakes, Dare, Frame, SignChallenge, Deadline, Trying
  <2>2. tab'[t].at = "casting"
    BY <1>0, <2>1, PageNow DEF Wire, PageState
  <2> QED
    BY <2>2 DEF Kept
<1>4. ~SignedIn(t)
  BY <1>0, EventAssumption DEF SignedIn, FlowOK
<1> QED
  BY <1>1, <1>2, <1>3, <1>4 DEF Post

\* What a lone editor page has stored, with the invariant that makes it inductive.
DraftKept == \A t \in Tab : Alone(t) => Kept(t, tab[t], draft)

LEMMA DraftKeptStep ==
    ASSUME Inv, DraftKept, [Next]_vars
    PROVE  DraftKept'
<1>1. CASE Age \/ UNCHANGED vars
  <2>1. UNCHANGED <<mix, tab, draft>>
    BY <1>1 DEF Age, vars, browser
  <2> QED
    BY <2>1 DEF DraftKept, Alone, IsEditor, Kept, DraftKey
<1>2. ASSUME NEW u \in Tab, Edit(u) \/ Amber(u) \/ Press(u) \/ Post(u)
      PROVE  DraftKept'
  <2>1. /\ mix' = mix
        /\ \A s \in Tab \ {u} : tab'[s] = tab[s]
        /\ \A at \in Key \X {"new", "edit"} : at[2] # mix.page[u] => draft'[at] = draft[at]
    BY <1>2, OwnDraftOnly
  <2>2. ASSUME NEW t \in Tab, Alone(t), t # u
        PROVE  Kept(t, tab'[t], draft')
    <3> DEFINE at == DraftKey(tab[t].key, t)
    <3>a. IsEditor(t) /\ mix.page[t] # mix.page[u] /\ tab[t].key \in Key
      BY <2>2 DEF Alone, Inv, Pages, PageOK, PageState
    <3>1. at \in Key \X {"new", "edit"} /\ at[2] # mix.page[u]
      BY <3>a, DraftKeyOf
    <3>2. tab'[t] = tab[t] /\ draft'[at] = draft[at]
      BY <2>1, <2>2, <3>1
    <3>3. Kept(t, tab[t], draft)
      BY <2>2 DEF DraftKept
    <3> QED
      BY <3>2, <3>3 DEF Kept
  <2>3. ASSUME Alone(u)
        PROVE  Kept(u, tab'[u], draft')
    <3>1. IsEditor(u)
      BY <2>3 DEF Alone
    <3>2. CASE Edit(u) \/ Amber(u)
      <4>1. tab'[u].at \notin {"away", "left"}
        BY <3>1, <3>2, EditKept, AmberKept
      <4> QED
        BY <4>1 DEF Kept
    <3>3. CASE Press(u) \/ Post(u)
      BY <3>1, <3>3, PressKept, PostKept
    <3> QED
      BY <1>2, <3>2, <3>3
  <2>4. \A t \in Tab : Alone(t) => Kept(t, tab'[t], draft')
    BY <2>2, <2>3
  <2> QED
    BY <2>1, <2>4 DEF DraftKept, Alone, IsEditor, Kept, DraftKey
<1> QED
  BY <1>1, <1>2 DEF Next

\* With one tab of its kind: the text an editor page went to the signing app with is the
\* stored draft, and a page that left after publishing has left none (stashPendingAndGo
\* and beforeunload flush, NbreadDraft.clear stops them).
THEOREM DraftsFollow == Spec => []DraftFollows
<1>1. Init => DraftKept
  <2> SUFFICES ASSUME Init, NEW t \in Tab PROVE Kept(t, tab[t], draft)
    BY DEF DraftKept
  <2>1. Inv
    BY InvInit
  <2>2. Loaded(t, draft).at \in {"page", "404"} /\ tab[t] = Loaded(t, draft)
    BY <2>1, LoadedPage DEF Inv, Shared, Init
  <2> QED
    BY <2>2 DEF Kept
<1>2. Inv /\ DraftKept /\ [Next]_vars => DraftKept'
  BY DraftKeptStep
<1>3. DraftKept => DraftFollows
  BY DEF DraftKept, Kept, DraftFollows
<1> QED
  BY <1>1, <1>2, <1>3, Invariant, PTL DEF Spec
=============================================================================
