------------------------------- MODULE Editor -------------------------------
(***************************************************************************)
(* The pages that sign: editor, profile and login tabs of one browser      *)
(* (public/js/editor.js, profile.js, login.js) over the signer of          *)
(* signer.js, the drafts and uploads of editor-toolbar.js and blossom.js,  *)
(* and the broadcast to relays.                                            *)
(*                                                                         *)
(* Tabs share localStorage: the signer, one slot for a pending NIP-55      *)
(* request, and the drafts.  A redirect signer (Amber, NIP-55) unloads the *)
(* page and comes back through a callback URL; the others sign in the      *)
(* page.  The modelled posts all have one slug.                            *)
(*                                                                         *)
(* A definition named X_bug is X with a plausible bug, used by no action.  *)
(***************************************************************************)
EXTENDS Integers, FiniteSets, SequencesExt

CONSTANTS
    Tab,        \* browser tabs
    Key,        \* public keys
    Me,         \* the key signed in at the start
    Mixes,      \* what the behaviours of this model are about: see MixType
    Relay,      \* the author's relays
    Guarded,    \* those that want NIP-42 AUTH
    MaxEdits,   \* bound on edits of the text, in any mix
    MaxClicks,  \* bound on events made, in any mix
    MaxUploads, \* bound on images dropped on one page
    MaxServers, \* length of BLOSSOM_SERVERS
    NoKey, NoText, NoEvent, NoRecord

Page == {"new", "edit", "profile", "login"}
Use  == {"type", "draft", "reload", "upload"}

\* The page of each tab, the signer, what the user does besides publishing, the
\* relays that are told, and the bounds on edits and on events made.
MixType == [page : [Tab -> Page \cup {"none"}], redirect : BOOLEAN,
            uses : SUBSET Use, relays : SUBSET Relay,
            edits : 0..MaxEdits, clicks : 1..MaxClicks]

ASSUME EditorAssumption ==
    /\ Me \in Key
    /\ NoKey \notin Key
    /\ Guarded \subseteq Relay
    /\ Mixes \subseteq MixType
    /\ {MaxEdits, MaxClicks, MaxUploads} \subseteq Nat
    /\ MaxServers \in Nat \ {0}

VARIABLES
    mix,       \* the element of Mixes this behaviour is about
    signer,    \* the key of the configured signer
    pending,   \* nbread:nip55:pending
    draft,     \* [key, kind of editor page -> stored draft]
    session,   \* the key the browser is signed in as
    site,      \* [key, slot -> the event the server holds]
    tab,       \* [Tab -> state of its page]
    edits,     \* edits so far
    clicks,    \* events made so far; also the clock of created_at
    approved,  \* events somebody approved in a signer (history)
    taken,     \* events the server took (history)
    unseen,    \* approved events that came back to a page that cannot go on (history)
    owed       \* [Tab -> a text handed to Amber and neither published nor given up] (history)

browser == <<signer, pending, draft>>
history == <<approved, taken, unseen, owed>>
vars == <<mix, browser, session, site, tab, edits, clicks, history>>

-----------------------------------------------------------------------------
\* A text: which edit it is, and its image marks: 0 for an image, n for the
\* placeholder "![uploading... #n]()".
Text == [ver : 0..MaxEdits, marks : Seq(0..MaxUploads)]
Blank == [ver |-> 0, marks |-> << >>]

EventKind == {"post", "delete", "profile", "auth"}
SlotOf(e) == IF e.kind = "profile" THEN "profile" ELSE "post"

Event == [kind : EventKind, text : Text, at : 1..MaxClicks, by : Key]

\* null is no event.
ASSUME EventAssumption == NoEvent \notin Event

NoUpload == [at |-> "none", server |-> 0]
NoConn == [out |-> << >>, back |-> << >>, dared |-> FALSE, tried |-> FALSE,
           signing |-> FALSE, known |-> FALSE, resent |-> FALSE, has |-> FALSE,
           denied |-> FALSE, over |-> "no"]

IsEditor(t) == mix.page[t] \in {"new", "edit"}

\* What the server puts in the form of a page.
Served(t, posts) ==
    IF mix.page[t] = "edit" /\ posts[<<session, "post">>] # NoEvent
    THEN posts[<<session, "post">>].text ELSE Blank

\* An edit page needs a post of the session's key.
Found(t, posts) ==
    mix.page[t] = "edit" =>
        posts[<<session, "post">>] # NoEvent /\ posts[<<session, "post">>].kind = "post"

\* storageKey, but for the slug, which is one for all posts.
DraftKey(key, t) == <<key, mix.page[t]>>

\* offerDraft: a stored draft that differs from the form is offered.
Loaded(t, drafts) ==
    LET form == Served(t, site) IN
    [at     |-> IF Found(t, site) THEN "page" ELSE "404",
     key    |-> session,
     text   |-> form,
     served |-> form,
     offer  |-> IF IsEditor(t) /\ drafts[DraftKey(session, t)] # form
                THEN drafts[DraftKey(session, t)] ELSE NoText,
     off    |-> FALSE,
     due    |-> FALSE,
     stale  |-> form.marks # << >>,
     armed  |-> NoEvent,
     job    |-> "none",
     ev     |-> NoEvent,
     got    |-> "none",
     up     |-> [n \in 1..MaxUploads |-> NoUpload],
     conn   |-> [r \in Relay |-> NoConn]]

\* offerDraft drops a stored draft that matches the form.
Sifted(t, drafts) ==
    IF IsEditor(t) /\ Found(t, site) /\ drafts[DraftKey(session, t)] = Served(t, site)
    THEN [drafts EXCEPT ![DraftKey(session, t)] = NoText] ELSE drafts

Init ==
    /\ mix \in Mixes
    /\ session = Me
    /\ signer = IF \E t \in Tab : mix.page[t] = "login" THEN NoKey ELSE Me
    /\ pending = NoRecord
    /\ draft = [at \in Key \X {"new", "edit"} |-> NoText]
    /\ site = [at \in Key \X {"post", "profile"} |->
                 IF at = <<Me, "post">> /\ \E t \in Tab : mix.page[t] = "edit"
                 THEN [kind |-> "post", text |-> Blank, at |-> 0, by |-> Me]
                 ELSE NoEvent]
    /\ tab = [t \in Tab |-> Loaded(t, draft)]
    /\ edits = 0
    /\ clicks = 0
    /\ approved = {}
    /\ taken = {}
    /\ unseen = {}
    /\ owed = [t \in Tab |-> NoText]

Set(t, state) == tab' = [tab EXCEPT ![t] = state]
OnPage(t) == mix.page[t] # "none" /\ tab[t].at \notin {"away", "left", "404"}
Does(use) == use \in mix.uses

-----------------------------------------------------------------------------
(***************************************************************************)
(* Typing and drafts.                                                      *)
(***************************************************************************)
\* writeDraft: a form that matches what the server sent is not a draft, and a
\* page whose draft was cleared writes none.
Written(t, page, drafts) ==
    IF ~IsEditor(t) \/ page.off THEN drafts
    ELSE [drafts EXCEPT ![DraftKey(page.key, t)] =
            IF page.text = page.served THEN NoText ELSE page.text]

\* A timer, or beforeunload.
WriteDraft(t) == Written(t, tab[t], draft)

Type(t) ==
    /\ Does("type")
    /\ OnPage(t)
    /\ mix.page[t] # "login"
    /\ edits < mix.edits
    /\ edits' = edits + 1
    /\ Set(t, [tab[t] EXCEPT !.text.ver = edits + 1, !.due = IsEditor(t)])
    /\ owed' = [owed EXCEPT ![t] = NoText]
    /\ UNCHANGED <<mix, browser, session, site, clicks, approved, taken, unseen>>

\* scheduleDraft: a second after the last input.
DraftTimer(t) ==
    /\ OnPage(t)
    /\ tab[t].due
    /\ draft' = WriteDraft(t)
    /\ Set(t, [tab[t] EXCEPT !.due = FALSE])
    /\ UNCHANGED <<mix, signer, pending, session, site, edits, clicks, history>>

RestoreDraft(t) ==
    /\ Does("draft")
    /\ OnPage(t)
    /\ tab[t].offer # NoText
    /\ Set(t, [tab[t] EXCEPT !.text = tab[t].offer, !.offer = NoText, !.due = TRUE,
                             !.stale = @ \/ tab[t].offer.marks # << >>])
    /\ UNCHANGED <<mix, browser, session, site, edits, clicks, history>>

DiscardDraft(t) ==
    /\ Does("draft")
    /\ OnPage(t)
    /\ tab[t].offer # NoText
    /\ draft' = [draft EXCEPT ![DraftKey(tab[t].key, t)] = NoText]
    /\ Set(t, [tab[t] EXCEPT !.offer = NoText])
    /\ owed' = [owed EXCEPT ![t] = NoText]
    /\ UNCHANGED <<mix, signer, pending, session, site, edits, clicks, approved, taken, unseen>>

\* A tab loads its page, the callback or not.
Load(t, drafts) ==
    /\ draft' = Sifted(t, drafts)
    /\ Set(t, Loaded(t, drafts))

\* beforeunload, then the same URL again.  The callback parameters are gone.
Reload(t) ==
    /\ Does("reload")
    /\ OnPage(t)
    /\ Load(t, WriteDraft(t))
    /\ UNCHANGED <<mix, signer, pending, session, site, edits, clicks, history>>

\* The user opens the page anew from the dashboard.
Open(t) ==
    /\ tab[t].at \in {"left", "404"}
    /\ Found(t, site)
    /\ Load(t, draft)
    /\ UNCHANGED <<mix, signer, pending, session, site, edits, clicks, history>>

-----------------------------------------------------------------------------
(***************************************************************************)
(* Images: uploadAndInsert, and uploadBlob over the servers in turn.       *)
(***************************************************************************)
\* replacePlaceholder: the first occurrence; nothing when there is none.
Placed(text, n, by) ==
    LET i == SelectInSeq(text.marks, LAMBDA m : m = n)
    IN  IF i = 0 THEN text
        ELSE [text EXCEPT !.marks = SubSeq(@, 1, i - 1) \o by \o SubSeq(@, i + 1, Len(@))]

Uploads(t) == {n \in 1..MaxUploads : tab[t].up[n].at # "none"}

\* The numbers start again on every load of the page.
DropImage(t) ==
    LET n == Cardinality(Uploads(t)) + 1
        marks == tab[t].text.marks
    IN
    /\ Does("upload")
    /\ OnPage(t)
    /\ mix.page[t] \in {"new", "edit"}
    /\ ~mix.redirect /\ signer # NoKey
    /\ n <= MaxUploads
    /\ Len(marks) < MaxUploads
    /\ \E with \in {<<n>> \o marks, Append(marks, n)} :
          Set(t, [tab[t] EXCEPT !.text.marks = with, !.due = TRUE,
                                !.up[n] = [at |-> "signing", server |-> 1]])
    /\ UNCHANGED <<mix, browser, session, site, edits, clicks, history>>

\* The promise of uploadBlob settles with an image, or with none.
Settled(t, n, image) ==
    [tab[t] EXCEPT !.up[n].at = "settled", !.due = TRUE,
                   !.text = Placed(@, n, image)]

\* The placeholder stays when the upload failed.
Failed_bug(t, n) == [tab[t] EXCEPT !.up[n].at = "settled"]

Failed(t, n) == Settled(t, n, << >>)

\* A fresh kind 24242 signature for each server; a refusal ends the upload.
SignUpload(t, n) ==
    /\ OnPage(t)
    /\ tab[t].up[n].at = "signing"
    /\ \/ Set(t, [tab[t] EXCEPT !.up[n].at = "putting"])
       \/ Set(t, Failed(t, n))
    /\ UNCHANGED <<mix, browser, session, site, edits, clicks, history>>

\* An https URL and no other hash, or anything else: an error, a timeout, an
\* unusable answer.
PutAnswer(t, n) ==
    LET s == tab[t].up[n].server IN
    /\ OnPage(t)
    /\ tab[t].up[n].at = "putting"
    /\ \/ Set(t, Settled(t, n, <<0>>))
       \/ IF s < MaxServers
          THEN Set(t, [tab[t] EXCEPT !.up[n] = [at |-> "signing", server |-> s + 1]])
          ELSE Set(t, Failed(t, n))
    /\ UNCHANGED <<mix, browser, session, site, edits, clicks, history>>

-----------------------------------------------------------------------------
(***************************************************************************)
(* The pending record and the hand-off to Amber.                           *)
(***************************************************************************)
Record(kind, ev) == [kind |-> kind, ev |-> ev, old |-> FALSE]

\* pendingKindFor
Bucket(e) == CASE e.kind = "auth" -> "login"
               [] e.kind = "delete" -> "delete"
               [] OTHER -> "publish"

\* stashPendingAndGo: the page unloads, and its draft is flushed.
HandOff(t, kind, ev, state) ==
    /\ pending' = Record(kind, ev)
    /\ draft' = WriteDraft(t)
    /\ Set(t, [state EXCEPT !.at = "away", !.ev = ev])

\* validatePending: ten minutes.
Age ==
    /\ pending # NoRecord
    /\ ~pending.old
    /\ pending' = [pending EXCEPT !.old = TRUE]
    /\ UNCHANGED <<mix, signer, draft, session, site, tab, edits, clicks, history>>

\* Any signature completes the stashed event.
Completes_bug(reply) == reply.flow = "sign" /\ pending.ev # NoEvent

\* The callback is of the flow that was stashed, and the signature is one of
\* the stashed event by its pubkey.
Completes(reply) ==
    /\ reply.flow = "sign"
    /\ pending.ev # NoEvent
    /\ reply.sig = pending.ev
    /\ reply.by = pending.ev.by

\* resumePending: what the page is told.  The record is gone in any case.
Resumed(reply) ==
    IF pending = NoRecord THEN [kind |-> "none", is |-> "error"]
    ELSE [kind |-> pending.kind,
          is   |-> IF pending.old \/ reply.flow = "nothing" THEN "error"
                   ELSE IF reply.flow = "pubkey" /\ pending.ev = NoEvent THEN "pubkey"
                   ELSE IF Completes(reply) THEN "signed"
                   ELSE "error"]

\* The callback URL is the path of the page without its query: an edit page
\* comes back with no slug, which is answered 404.
ComesBack(t) == mix.page[t] # "edit"

\* The event goes to the server.
Sending(state, ev, job) == [state EXCEPT !.at = "posting", !.ev = ev, !.job = job]

AuthEvent == [kind |-> "auth", text |-> Blank, at |-> clicks + 1, by |-> signer]

\* init of login.js
ResumeLogin(t, page, reply) ==
    LET told == Resumed(reply) IN
    CASE told.kind = "login" /\ told.is = "signed" ->
            /\ Set(t, Sending(page, pending.ev, "resumed"))
            /\ pending' = NoRecord
            /\ UNCHANGED <<signer, clicks>>
      [] told.kind = "login" /\ told.is = "pubkey" /\ clicks < mix.clicks ->
            \* configureNip55, and on to the signing round trip
            LET e == [AuthEvent EXCEPT !.by = reply.by] IN
            /\ signer' = reply.by
            /\ clicks' = clicks + 1
            /\ pending' = Record("login", e)
            /\ Set(t, [page EXCEPT !.at = "away", !.ev = e])
      [] OTHER ->
            /\ Set(t, page)
            /\ pending' = NoRecord
            /\ signer' = IF told.is = "pubkey" THEN reply.by ELSE signer
            /\ UNCHANGED clicks

\* resumeNip55 of editor.js and profile.js
ResumePublish(t, page, reply) ==
    LET told == Resumed(reply) IN
    /\ IF /\ told.is = "signed"
          /\ told.kind \in (IF IsEditor(t) THEN {"publish", "delete"} ELSE {"publish"})
          /\ mix.page[t] = "profile" => pending.ev.kind = "profile"
       THEN Set(t, [Sending(page, pending.ev, "resumed") EXCEPT !.armed = pending.ev])
       ELSE Set(t, page)
    /\ pending' = NoRecord
    /\ UNCHANGED <<signer, clicks>>

\* Amber opens the callback URL.
Callback(t, reply) ==
    /\ draft' = IF ComesBack(t) THEN Sifted(t, draft) ELSE draft
    /\ IF ~ComesBack(t)
       THEN /\ Set(t, [tab[t] EXCEPT !.at = "404"])
            /\ UNCHANGED <<signer, clicks, pending>>
       ELSE IF mix.page[t] = "login"
       THEN ResumeLogin(t, Loaded(t, draft), reply)
       ELSE ResumePublish(t, Loaded(t, draft), reply)

\* The user approves in Amber, with any account Amber holds.
Approve(t) ==
    /\ tab[t].at = "away"
    /\ \E k \in Key :
          LET e == tab[t].ev
              mine == e # NoEvent /\ e.by = k
          IN
          /\ Callback(t, [flow |-> IF e = NoEvent THEN "pubkey" ELSE "sign",
                          sig |-> e, by |-> k])
          /\ approved' = IF mine THEN approved \cup {e} ELSE approved
          /\ unseen' = IF mine /\ ~ComesBack(t) THEN unseen \cup {e} ELSE unseen
    /\ UNCHANGED <<mix, session, site, edits, taken, owed>>

\* The user refuses, and Amber returns nothing.
Cancel(t) ==
    /\ tab[t].at = "away"
    /\ Callback(t, [flow |-> "nothing", sig |-> NoEvent, by |-> NoKey])
    /\ UNCHANGED <<mix, session, site, edits, history>>

\* The user goes back to the page, which loads as it was.
GoBack(t) ==
    /\ tab[t].at = "away"
    /\ Load(t, draft)
    /\ UNCHANGED <<mix, signer, pending, session, site, edits, clicks, history>>

-----------------------------------------------------------------------------
(***************************************************************************)
(* The buttons.                                                            *)
(***************************************************************************)
Offers(t, kind) == CASE kind = "post"    -> mix.page[t] \in {"new", "edit"}
                     [] kind = "delete"  -> mix.page[t] = "edit"
                     [] kind = "profile" -> mix.page[t] = "profile"
                     [] kind = "auth"    -> mix.page[t] = "login"

\* ensureSigner: the signer is the identity this page is signed in as.
MaySign(t) == signer # NoKey /\ (mix.page[t] # "login" => signer = tab[t].key)

\* signMirrorBroadcast, signIn: the event is made from the form, and signed.
Sign(t, kind) ==
    LET e == [kind |-> kind, at |-> clicks + 1, by |-> signer,
              text |-> IF kind \in {"post", "profile"} THEN tab[t].text ELSE Blank]
    IN
    /\ MaySign(t)
    /\ clicks < mix.clicks
    /\ clicks' = clicks + 1
    /\ IF mix.redirect
       THEN /\ HandOff(t, Bucket(e), e, tab[t])
            /\ owed' = [owed EXCEPT ![t] = IF kind = "post" THEN tab[t].text ELSE @]
       ELSE /\ Set(t, [tab[t] EXCEPT !.at = "signing", !.ev = e])
            /\ UNCHANGED <<pending, draft, owed>>
    /\ UNCHANGED <<mix, signer, session, site, edits, approved, taken, unseen>>

\* A click on a button.  A resumed event that failed once is sent again as it is.
Click(t, kind) ==
    /\ OnPage(t)
    /\ tab[t].at = "page"
    /\ Offers(t, kind)
    /\ kind = "post" => tab[t].text # Blank
    /\ IF tab[t].armed # NoEvent /\ Bucket(tab[t].armed) = Bucket([kind |-> kind])
       THEN /\ Set(t, Sending(tab[t], tab[t].armed, "retry"))
            /\ UNCHANGED <<mix, browser, session, site, edits, clicks, history>>
       ELSE Sign(t, kind)

\* The first visit of the login page with Amber: get_public_key.
ConnectAmber(t) ==
    /\ OnPage(t)
    /\ mix.page[t] = "login" /\ mix.redirect
    /\ tab[t].at = "page"
    /\ signer = NoKey
    /\ HandOff(t, "login", NoEvent, tab[t])
    /\ UNCHANGED <<mix, signer, session, site, edits, clicks, history>>

\* A pasted key is configured and signs in.
ImportKey(t) ==
    /\ OnPage(t)
    /\ mix.page[t] = "login" /\ ~mix.redirect
    /\ tab[t].at = "page"
    /\ clicks < mix.clicks
    /\ \E k \in Key :
          /\ signer' = k
          /\ Set(t, [tab[t] EXCEPT !.at = "signing", !.ev = [AuthEvent EXCEPT !.by = k]])
    /\ clicks' = clicks + 1
    /\ UNCHANGED <<mix, pending, draft, session, site, edits, history>>

\* forget
ForgetSigner(t) ==
    /\ OnPage(t)
    /\ mix.page[t] = "login"
    /\ tab[t].at = "page"
    /\ signer # NoKey
    /\ signer' = NoKey
    /\ pending' = IF mix.redirect THEN NoRecord ELSE pending
    /\ UNCHANGED <<mix, draft, session, site, tab, edits, clicks, history>>

\* A signer in the page answers, by the key that was asked.
SignInPage(t) ==
    /\ tab[t].at = "signing"
    /\ \/ /\ approved' = approved \cup {tab[t].ev}
          /\ Set(t, Sending(tab[t], tab[t].ev, "fresh"))
       \/ /\ Set(t, [tab[t] EXCEPT !.at = "page", !.ev = NoEvent])
          /\ UNCHANGED approved
    /\ UNCHANGED <<mix, browser, session, site, edits, clicks, taken, unseen, owed>>

-----------------------------------------------------------------------------
(***************************************************************************)
(* POST /api/mirror and POST /login.                                       *)
(***************************************************************************)
\* mirrorEvent, for calls of one author that do not overlap: the rank of the
\* event in its slot, or under the horizon of a delete.
Outranked(e, current) ==
    current # NoEvent /\ current.at > e.at

Answer(e, current) ==
    IF Outranked(e, current) /\ e.kind # "delete" /\ current.kind # "delete"
    THEN "stale" ELSE "stored"

\* The server handles the request, or it gets lost or is refused on its way;
\* a lost answer looks the same.
ServerTakes(t) ==
    LET e == tab[t].ev
        at == <<e.by, SlotOf(e)>>
        mine == e.by = session
    IN
    /\ tab[t].at = "posting"
    /\ \/ /\ e.kind # "auth" /\ mine
          /\ taken' = IF Answer(e, site[at]) = "stored" THEN taken \cup {e} ELSE taken
          /\ site' = IF Outranked(e, site[at]) THEN site ELSE [site EXCEPT ![at] = e]
          /\ \E got \in {Answer(e, site[at]), "lost"} :
                Set(t, [tab[t] EXCEPT !.at = "answered", !.got = got])
          /\ UNCHANGED session
       \/ /\ e.kind = "auth"
          /\ session' = e.by
          /\ Set(t, [tab[t] EXCEPT !.at = "answered", !.got = "stored"])
          /\ UNCHANGED <<site, taken>>
       \/ /\ Set(t, [tab[t] EXCEPT !.at = "answered", !.got = "lost"])
          /\ UNCHANGED <<session, site, taken>>
    /\ UNCHANGED <<mix, browser, edits, clicks, approved, unseen, owed>>

\* EVENT goes out as soon as the socket is open; nbread's relay has sent its
\* challenge by then, others send one when they refuse.
Dialled(r) == [NoConn EXCEPT !.out = <<"EVENT">>]

\* The page leaves for the dashboard.
Gone(t) == [tab[t] EXCEPT !.at = "left", !.off = TRUE, !.due = FALSE, !.offer = NoText,
                          !.armed = NoEvent, !.job = "none", !.ev = NoEvent, !.got = "none",
                          !.conn = [r \in Relay |-> NoConn]]

\* Stored: on to the relays, the retry state and the pending record dropped.
Accepted(t) ==
    /\ tab[t].at = "answered"
    /\ tab[t].got = "stored"
    /\ tab[t].ev.kind # "auth"
    /\ Set(t, [tab[t] EXCEPT !.at = "casting", !.armed = NoEvent, !.got = "none",
                             !.conn = [r \in Relay |-> IF r \in mix.relays
                                                       THEN Dialled(r) ELSE NoConn]])
    /\ pending' = IF tab[t].job = "fresh" THEN pending ELSE NoRecord
    /\ owed' = [owed EXCEPT ![t] = IF @ = tab[t].ev.text THEN NoText ELSE @]
    /\ UNCHANGED <<mix, signer, draft, session, site, edits, clicks, approved, taken, unseen>>

\* Signed in: on to the dashboard.
SignedIn(t) ==
    /\ tab[t].at = "answered"
    /\ tab[t].got = "stored"
    /\ tab[t].ev.kind = "auth"
    /\ Set(t, Gone(t))
    /\ UNCHANGED <<mix, browser, session, site, edits, clicks, history>>

\* The record says what kind of event it is, not what the page is to do.
Restashed_bug(t) == Record(tab[t].ev.kind, tab[t].armed)

\* restashResumed
Restashed(t) == Record(Bucket(tab[t].armed), tab[t].armed)

\* A resumed event that fails is kept and stashed again; when it fails again it is
\* discarded.
Rejected(t) ==
    LET job == tab[t].job IN
    /\ tab[t].at = "answered"
    /\ tab[t].got # "stored"
    /\ Set(t, [tab[t] EXCEPT !.at = "page", !.ev = NoEvent, !.job = "none", !.got = "none",
                             !.armed = IF job = "retry" THEN NoEvent ELSE @])
    /\ pending' = CASE job = "retry" -> NoRecord
                    [] job = "resumed" /\ tab[t].armed # NoEvent -> Restashed(t)
                    [] OTHER -> pending
    /\ UNCHANGED <<mix, signer, draft, session, site, edits, clicks, history>>

-----------------------------------------------------------------------------
(***************************************************************************)
(* broadcast: one attempt per relay, each with a deadline.  The two        *)
(* directions of a socket keep their order.                                *)
(***************************************************************************)
Conn(t, r) == tab[t].conn[r]
Wire(t, r, conn) == Set(t, [tab[t] EXCEPT !.conn[r] = conn])
Trying(t, r) == tab[t].at = "casting" /\ r \in mix.relays /\ Conn(t, r).over = "no"

\* A guarded relay refuses an EVENT before AUTH, with a challenge before or after
\* the refusal if it has not sent one.  Any relay may turn it down for another
\* reason, or in spite of AUTH (OK false: blocked, restricted, rate-limited, invalid).
RelayTakes(t, r) ==
    LET c == Conn(t, r)
        rest == [c EXCEPT !.out = Tail(@)]
    IN
    /\ Trying(t, r)
    /\ c.out # << >>
    /\ \/ /\ Head(c.out) = "EVENT" /\ (r \notin Guarded \/ c.known)
          /\ Wire(t, r, [rest EXCEPT !.has = TRUE, !.back = Append(@, "ok")])
       \/ /\ Head(c.out) = "EVENT" /\ r \in Guarded /\ ~c.known
          /\ \E said \in IF c.dared THEN {<<"refused">>}
                         ELSE {<<"refused", "challenge">>, <<"challenge", "refused">>} :
                Wire(t, r, [rest EXCEPT !.dared = TRUE, !.back = @ \o said])
       \/ /\ Head(c.out) = "EVENT"
          /\ Wire(t, r, [rest EXCEPT !.denied = TRUE, !.back = Append(@, "denied")])
       \/ /\ Head(c.out) = "AUTH"
          /\ Wire(t, r, [rest EXCEPT !.known = TRUE, !.back = Append(@, "welcome")])
       \/ /\ Head(c.out) = "AUTH"
          /\ Wire(t, r, [rest EXCEPT !.back = Append(@, "unwelcome")])
    /\ UNCHANGED <<mix, browser, session, site, edits, clicks, history>>

\* The challenge of a relay that sends it when the socket opens.
Dare(t, r) ==
    /\ Trying(t, r)
    /\ r \in Guarded /\ ~Conn(t, r).dared
    /\ Wire(t, r, [Conn(t, r) EXCEPT !.dared = TRUE, !.back = Append(@, "challenge")])
    /\ UNCHANGED <<mix, browser, session, site, edits, clicks, history>>

\* Any OK for the event ends the attempt.
Final_bug(c, frame) == frame \in {"ok", "denied", "refused"}

\* An OK for the event ends the attempt, but not the refusal that AUTH can cure.
Final(c, frame) ==
    \/ frame \in {"ok", "denied"}
    \/ frame = "refused" /\ (c.resent \/ mix.redirect)

\* handleFrame
Frame(t, r) ==
    LET c == Conn(t, r)
        frame == Head(c.back)
        rest == [c EXCEPT !.back = Tail(@)]
    IN
    /\ Trying(t, r)
    /\ c.back # << >>
    /\ Wire(t, r,
         CASE Final(c, frame) -> [rest EXCEPT !.over = "answered"]
           [] frame = "refused" /\ ~Final(c, frame) -> rest
           [] frame = "welcome" -> [rest EXCEPT !.resent = TRUE, !.out = Append(@, "EVENT")]
           [] frame = "unwelcome" -> [rest EXCEPT !.over = "unwelcome"]
           [] frame = "challenge" ->
                [rest EXCEPT !.tried = TRUE, !.signing = ~c.tried /\ ~mix.redirect])
    /\ UNCHANGED <<mix, browser, session, site, edits, clicks, history>>

\* The signer signs the kind 22242 event for the relay, or does not.
SignChallenge(t, r) ==
    LET c == Conn(t, r) IN
    /\ Trying(t, r)
    /\ c.signing
    /\ \/ Wire(t, r, [c EXCEPT !.signing = FALSE, !.out = Append(@, "AUTH")])
       \/ Wire(t, r, [c EXCEPT !.signing = FALSE])
    /\ UNCHANGED <<mix, browser, session, site, edits, clicks, history>>

\* The deadline (3 seconds, 8 with AUTH), an error, or a close.
Deadline(t, r) ==
    /\ Trying(t, r)
    /\ Wire(t, r, [Conn(t, r) EXCEPT !.over = "cut"])
    /\ UNCHANGED <<mix, browser, session, site, edits, clicks, history>>

\* The draft is dropped, and written again by the unload.
Cleared_bug(t) == tab[t]

\* NbreadDraft.clear: no writes any more.
Cleared(t) == [tab[t] EXCEPT !.off = TRUE, !.due = FALSE]

\* All attempts have ended: the draft goes and the page leaves.
Leave(t) ==
    /\ tab[t].at = "casting"
    /\ \A r \in mix.relays : Conn(t, r).over # "no"
    /\ draft' = Written(t, Cleared(t),
                 IF IsEditor(t) THEN [draft EXCEPT ![DraftKey(tab[t].key, t)] = NoText]
                                ELSE draft)
    /\ Set(t, Gone(t))
    /\ UNCHANGED <<mix, signer, pending, session, site, edits, clicks, history>>

-----------------------------------------------------------------------------
Edit(t) ==
    \/ Type(t) \/ DraftTimer(t) \/ RestoreDraft(t) \/ DiscardDraft(t) \/ Reload(t) \/ Open(t)
    \/ DropImage(t)
    \/ \E n \in 1..MaxUploads : SignUpload(t, n) \/ PutAnswer(t, n)

Amber(t) == Approve(t) \/ Cancel(t) \/ GoBack(t)

Press(t) ==
    \/ \E kind \in EventKind : Click(t, kind)
    \/ ConnectAmber(t) \/ ImportKey(t) \/ ForgetSigner(t) \/ SignInPage(t)

Post(t) ==
    \/ ServerTakes(t) \/ Accepted(t) \/ SignedIn(t) \/ Rejected(t) \/ Leave(t)
    \/ \E r \in Relay : \/ RelayTakes(t, r) \/ Dare(t, r) \/ Frame(t, r)
                        \/ SignChallenge(t, r) \/ Deadline(t, r)

Next == Age \/ \E t \in Tab : Edit(t) \/ Amber(t) \/ Press(t) \/ Post(t)

Spec == Init /\ [][Next]_vars

-----------------------------------------------------------------------------
(***************************************************************************)
(* Properties.                                                             *)
(***************************************************************************)
\* The shape of the state: the pending record is of the kind its event belongs to, and
\* a page has an event in hand exactly while it sends one.
TypeOK ==
    /\ signer \in Key \cup {NoKey}
    /\ pending # NoRecord =>
         /\ pending.kind \in {"login", "publish", "delete"}
         /\ pending.ev # NoEvent => pending.kind = Bucket(pending.ev)
         /\ pending.ev = NoEvent => pending.kind = "login"
    /\ session \in Key
    /\ \A t \in Tab :
         /\ tab[t].at \in {"page", "signing", "posting", "answered", "casting",
                           "away", "left", "404"}
         /\ tab[t].job \in {"none", "fresh", "resumed", "retry"}
         /\ (tab[t].at \in {"posting", "answered", "casting"}) = (tab[t].job # "none")
         /\ tab[t].job # "none" => tab[t].ev # NoEvent
         /\ tab[t].armed # NoEvent => mix.redirect /\ mix.page[t] \in {"new", "profile"}

\* Whatever tabs cross their requests in the one pending slot, and whatever comes
\* back from Amber, the server takes only events that were approved, whole, with
\* the key they name; and only such a login changes the session.
OnlyApproved ==
    /\ taken \subseteq approved
    /\ session # Me => \E e \in approved : e.kind = "auth" /\ e.by = session

Alone(t) == IsEditor(t) /\ \A u \in Tab \ {t} : mix.page[u] # mix.page[t]

\* With one editor tab: the text that is in the signing app is the draft, and a page
\* that left after publishing has left no draft behind.
DraftFollows ==
    \A t \in Tab : Alone(t) =>
        /\ tab[t].at = "away" /\ tab[t].text # tab[t].served =>
              draft[DraftKey(tab[t].key, t)] = tab[t].text
        /\ tab[t].at = "left" => draft[DraftKey(tab[t].key, t)] = NoText

\* "so no broken token remains": a placeholder in the form is that of an upload
\* under way, but for those a restored draft or the server put there.
NoBrokenToken ==
    \A t \in Tab : OnPage(t) /\ ~tab[t].stale =>
        \A n \in ToSet(tab[t].text.marks) \ {0} :
            tab[t].up[n].at \in {"signing", "putting"}

\* "done either way" (editor.js:200): an attempt that ended with the relay's answer
\* for the event has left it there, or the relay turned it down for good.  The
\* refusal that AUTH cures is not that answer, whenever challenge and refusal come,
\* unless the signer cannot sign for it.
AnsweredIsFinal ==
    \A t \in Tab, r \in Relay :
        Conn(t, r).over = "answered" =>
            Conn(t, r).has \/ Conn(t, r).denied \/ mix.redirect

\* Every approved request comes back to a page that can go on with it.
CallbacksLand == unseen = {}

\* A text handed to the signing app is in the form, in the draft or on offer until
\* it is published, discarded or typed over.
DraftSurvives ==
    \A t \in Tab : Alone(t) /\ owed[t] # NoText =>
        owed[t] \in {draft[DraftKey(tab[t].key, t)], tab[t].text, tab[t].offer}
=============================================================================
