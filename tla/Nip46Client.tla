----------------------------- MODULE Nip46Client ----------------------------
(***************************************************************************)
(* The NIP-46 remote-signer client (public/js/signer-nip46.js): pairing by *)
(* bunker:// or nostrconnect:// and one signature per session, over relays *)
(* that open late, die, and deliver an answer once each, or once more.     *)
(*                                                                         *)
(* A client is one createClient with its transport: a pairing makes two    *)
(* requests one after the other, a session makes one.  Request ids are     *)
(* random in the code; here a request is named by its client and method.   *)
(* Encryption promises settle by themselves, so a handler and the          *)
(* continuation it resolves are one action.  Kind 24133 is ephemeral: a    *)
(* relay hands an answer to those subscribed when it arrives.              *)
(*                                                                         *)
(* A definition named X_bug is X with a plausible bug, used by no action.  *)
(***************************************************************************)
EXTENDS Naturals, FiniteSets

CONSTANTS
    Client,     \* createClient instances
    Tasks,      \* what they may be for: a set of functions [Client -> Task]
    Relay,
    Signer,     \* remote signers
    Reads,      \* [Signer -> SUBSET Dialect]: what a signer can decrypt
    Writes,     \* [Signer -> SUBSET Dialect]: what it may answer in
    NoSigner,
    NoPairing,
    MayFail     \* TRUE when localStorage may refuse a write

Dialect == {"nip44", "nip04"}

Task == [how : {"bunker", "nostrconnect", "sign"}, signer : Signer]

ASSUME SignerAssumption ==
    /\ Tasks \subseteq [Client -> Task]
    /\ Reads \in [Signer -> SUBSET Dialect]
    /\ \A s \in Signer : Writes[s] # {} /\ Writes[s] \subseteq Reads[s]
    /\ NoSigner \notin Signer
    /\ MayFail \in BOOLEAN

VARIABLES
    task,      \* [Client -> Task]
    pc,        \* [Client -> STRING]: the request it awaits, or how it ended
    remote,    \* remotePk: the signer a client trusts
    key,       \* the client key it subscribes with; sessions share the paired one
    legacy,    \* legacyNip04
    retried,   \* retriedNip04 of the pending connect
    timer,     \* TRUE while a timer is armed
    sock,      \* [Client -> [Relay -> STRING]]: readyState
    queue,     \* frames queued until a socket opens
    asked,     \* requests that reached a relay
    answered,  \* requests the signer has dealt with, and URIs pasted into it
    prompted,  \* requests it answered with auth_url
    wire,      \* answers under way to a client over a relay
    said,      \* answers a signer handed to relays (history, replayed from)
    outcome,   \* the answer a client returned (history)
    stored     \* localStorage nbread:signer:nip46

taskVars == <<task, key>>
callVars == <<pc, remote, legacy, retried, timer, outcome>>
socketVars == <<sock, queue>>
signerVars == <<answered, prompted>>
vars == <<taskVars, callVars, socketVars, asked, signerVars, wire, said, stored>>

Request == [client : Client, method : {"connect", "pubkey", "sign"}, dialect : Dialect]
Pairing == [key : Client \cup {NoSigner}, signer : Signer, legacy : BOOLEAN]

DialectOf(isLegacy) == IF isLegacy THEN "nip04" ELSE "nip44"

Waiting(c) == pc[c] \in {"ack", "connect", "pubkey", "sign"}

Init ==
    /\ task \in Tasks
    /\ pc = [c \in Client |-> "idle"]
    /\ remote = [c \in Client |-> NoSigner]
    /\ key = [c \in Client |-> c]
    /\ legacy = [c \in Client |-> FALSE]
    /\ retried = [c \in Client |-> FALSE]
    /\ timer = [c \in Client |-> FALSE]
    /\ sock = [c \in Client |-> [r \in Relay |-> "closed"]]
    /\ queue = [c \in Client |-> [r \in Relay |-> {}]]
    /\ asked = {}
    /\ answered = {}
    /\ prompted = {}
    /\ wire = {}
    /\ said = {}
    /\ outcome = [c \in Client |-> {}]
    /\ stored \in {NoPairing} \cup
         {p \in Pairing : p.key = NoSigner /\ DialectOf(p.legacy) \in Writes[p.signer]}

-----------------------------------------------------------------------------
\* publish: to open sockets at once, into the queue of those still connecting.
Publish(c, method, dialect) ==
    LET q == [client |-> c, method |-> method, dialect |-> dialect]
    IN  /\ asked' = IF \E r \in Relay : sock[c][r] = "open" THEN asked \cup {q} ELSE asked
        /\ queue' = [queue EXCEPT ![c] = [r \in Relay |->
                        IF sock[c][r] = "connecting" THEN @[r] \cup {q} ELSE @[r]]]

\* The timer is left running.
CloseWith_bug(c, result) ==
    /\ pc' = [pc EXCEPT ![c] = result]
    /\ UNCHANGED timer
    /\ sock' = [sock EXCEPT ![c] = [r \in Relay |-> "closed"]]
    /\ queue' = [queue EXCEPT ![c] = [r \in Relay |-> {}]]
    /\ wire' = {m \in wire : m.to # c}
    /\ UNCHANGED said

\* close: the handler goes, sockets close, the timer is cleared.
CloseWith(c, result) ==
    /\ pc' = [pc EXCEPT ![c] = result]
    /\ timer' = [timer EXCEPT ![c] = FALSE]
    /\ sock' = [sock EXCEPT ![c] = [r \in Relay |-> "closed"]]
    /\ queue' = [queue EXCEPT ![c] = [r \in Relay |-> {}]]
    /\ wire' = {m \in wire : m.to # c}
    /\ UNCHANGED said

\* openRealTransport, then the first request (or the wait for an ack): every
\* frame is queued behind the REQ until its socket opens.
Connecting(c, requests) ==
    /\ sock' = [sock EXCEPT ![c] = [r \in Relay |-> "connecting"]]
    /\ queue' = [queue EXCEPT ![c] = [r \in Relay |-> requests]]
    /\ timer' = [timer EXCEPT ![c] = TRUE]

ConfigureBunker(c) ==
    /\ pc[c] = "idle" /\ task[c].how = "bunker"
    /\ Connecting(c, {[client |-> c, method |-> "connect", dialect |-> "nip44"]})
    /\ pc' = [pc EXCEPT ![c] = "connect"]
    /\ remote' = [remote EXCEPT ![c] = task[c].signer]
    /\ UNCHANGED <<taskVars, legacy, retried, outcome, asked, signerVars, wire, said, stored>>

ConfigureNostrconnect(c) ==
    /\ pc[c] = "idle" /\ task[c].how = "nostrconnect"
    /\ Connecting(c, {})
    /\ pc' = [pc EXCEPT ![c] = "ack"]
    /\ UNCHANGED <<taskVars, remote, legacy, retried, outcome, asked, signerVars, wire, said, stored>>

\* signEvent: everything comes from the pairing stored at this moment.
SignEvent(c) ==
    /\ pc[c] = "idle" /\ task[c].how = "sign"
    /\ IF stored = NoPairing
       THEN /\ pc' = [pc EXCEPT ![c] = "failed"]
            /\ UNCHANGED <<key, remote, legacy, timer, socketVars>>
       ELSE /\ pc' = [pc EXCEPT ![c] = "sign"]
            /\ key' = [key EXCEPT ![c] = stored.key]
            /\ remote' = [remote EXCEPT ![c] = stored.signer]
            /\ legacy' = [legacy EXCEPT ![c] = stored.legacy]
            /\ Connecting(c, {[client |-> c, method |-> "sign",
                               dialect |-> DialectOf(stored.legacy)]})
    /\ UNCHANGED <<task, retried, outcome, asked, signerVars, wire, said, stored>>

SocketOpens(c, r) ==
    /\ sock[c][r] = "connecting"
    /\ sock' = [sock EXCEPT ![c][r] = "open"]
    /\ asked' = asked \cup queue[c][r]
    /\ queue' = [queue EXCEPT ![c][r] = {}]
    /\ UNCHANGED <<taskVars, callVars, signerVars, wire, said, stored>>

\* Nothing reopens a socket, and nothing tells the client.
SocketDies(c, r) ==
    /\ sock[c][r] \in {"connecting", "open"}
    /\ sock' = [sock EXCEPT ![c][r] = "closed"]
    /\ queue' = [queue EXCEPT ![c][r] = {}]
    /\ wire' = {m \in wire : ~(m.to = c /\ m.relay = r)}
    /\ UNCHANGED <<taskVars, callVars, asked, signerVars, said, stored>>

-----------------------------------------------------------------------------
\* An answer reaches every client that subscribed with the same key, once per
\* open socket.
Heard(c, answer) ==
    {[to |-> d, relay |-> r, answer |-> answer] :
        d \in {e \in Client : key[e] = key[c] /\ Waiting(e)}, r \in Relay}

Send(c, answer) ==
    /\ wire' = wire \cup {m \in Heard(c, answer) : sock[m.to][m.relay] = "open"}
    /\ said' = said \cup {answer}

\* What a signer may answer, apart from auth_url: the result, an error, or for a
\* key or a signature something the client must refuse.
Results(method) ==
    CASE method = "connect" -> {"result", "error"}
      [] method = "pubkey" -> {"result", "malformed", "error"}
      [] method = "sign" -> {"result", "other event", "other key", "error"}

Answers(q, body) ==
    {[client |-> q.client, method |-> q.method, body |-> body,
      from |-> remote[q.client], dialect |-> d] : d \in Writes[remote[q.client]]}

\* The signer takes up a request addressed to it; one it cannot decrypt gets a
\* signed blob.
SignerAnswers(q) ==
    /\ q \in asked \ answered
    /\ answered' = answered \cup {q}
    /\ \E body \in IF q.dialect \in Reads[remote[q.client]] THEN Results(q.method)
                                                             ELSE {"blob"} :
          \E answer \in Answers(q, body) : Send(q.client, answer)
    /\ UNCHANGED <<taskVars, callVars, socketVars, asked, prompted, stored>>

\* It wants the user's approval first.
SignerPrompts(q) ==
    /\ q \in asked \ (answered \cup prompted)
    /\ q.dialect \in Reads[remote[q.client]]
    /\ prompted' = prompted \cup {q}
    /\ \E answer \in Answers(q, "auth_url") : Send(q.client, answer)
    /\ UNCHANGED <<taskVars, callVars, socketVars, asked, answered, stored>>

Pasted(c) == [client |-> c, method |-> "ack"]

\* The user pastes the nostrconnect URI into a signer, which answers with the
\* secret; some answer a bare "ack".
SignerAcks(c) ==
    /\ pc[c] = "ack"
    /\ Pasted(c) \notin answered
    /\ answered' = answered \cup {Pasted(c)}
    /\ \E body \in {"secret", "bare ack"}, d \in Writes[task[c].signer] :
         Send(c, [client |-> c, method |-> "ack", body |-> body,
                  from |-> task[c].signer, dialect |-> d])
    /\ UNCHANGED <<taskVars, callVars, socketVars, asked, prompted, stored>>

\* What a relay may make of what it sees: an event that names a signer but is not
\* signed by it, one the signer wrote to somebody else, and one it wrote to the
\* client's key before.
Noise(c) ==
    {[client |-> c, method |-> "noise", body |-> "blob", from |-> s, dialect |-> "nip44"] :
        s \in {NoSigner, remote[c]}}
    \cup {a \in said : key[a.client] = key[c]}

\* A relay hands over an event no signer meant for this moment, once per client
\* (a bound).
RelayNoise(c, r) ==
    LET once == [client |-> c, method |-> "noise"] IN
    /\ sock[c][r] = "open"
    /\ once \notin answered
    /\ answered' = answered \cup {once}
    /\ \E a \in Noise(c) : wire' = wire \cup {[to |-> c, relay |-> r, answer |-> a]}
    /\ UNCHANGED <<taskVars, callVars, socketVars, asked, prompted, said, stored>>

-----------------------------------------------------------------------------
(***************************************************************************)
(* handleFrame.  Every action takes one answer off the wire.               *)
(***************************************************************************)
Taken(m) == wire' = wire \ {m} /\ UNCHANGED said

\* verifyEnvelope, and the paired signer.
Authentic(m) == m.answer.from = remote[m.to]

IsPending_bug(m) == m.answer.method = pc[m.to]

\* The pending entry an answer names.
IsPending(m) == m.answer.client = m.to /\ m.answer.method = pc[m.to]

\* waitForNostrconnectAck: only the secret makes a signer the trusted one.  The
\* client that follows starts in NIP-44 whatever the ack was written in.
TakeAck(m) ==
    LET c == m.to
    IN  /\ pc[c] = "ack"
        /\ IF m.answer.body = "secret"
           THEN /\ remote' = [remote EXCEPT ![c] = m.answer.from]
                /\ pc' = [pc EXCEPT ![c] = "pubkey"]
                /\ Publish(c, "pubkey", "nip44")
           ELSE UNCHANGED <<remote, pc, asked, queue>>
        /\ Taken(m)
        /\ UNCHANGED <<taskVars, legacy, retried, timer, outcome, sock, signerVars, stored>>

\* Not from the signer, or an answer to nothing pending.
TakeStray(m) ==
    LET c == m.to
    IN  /\ pc[c] # "ack"
        /\ \/ ~Authentic(m) /\ UNCHANGED legacy
           \/ /\ Authentic(m) /\ m.answer.body # "blob" /\ ~IsPending(m)
              /\ legacy' = [legacy EXCEPT ![c] = m.answer.dialect = "nip04"]
        /\ Taken(m)
        /\ UNCHANGED <<taskVars, pc, remote, retried, timer, outcome, socketVars, asked,
                       signerVars, stored>>

\* Only a connect is retried, and only while the session speaks NIP-44.
MayRetry(c) == pc[c] = "connect" /\ ~retried[c] /\ ~legacy[c]

\* The session goes on in NIP-04.
RetryConnect_bug(c) ==
    /\ retried' = [retried EXCEPT ![c] = TRUE]
    /\ legacy' = [legacy EXCEPT ![c] = TRUE]
    /\ Publish(c, "connect", "nip04")

\* retryConnectWithNip04: that one request again, and the session as it was.
RetryConnect(c) ==
    /\ retried' = [retried EXCEPT ![c] = TRUE]
    /\ UNCHANGED legacy
    /\ Publish(c, "connect", "nip04")

\* An event that is the signer's and does not decrypt.
TakeBlob(m) ==
    LET c == m.to
    IN  /\ pc[c] # "ack" /\ Authentic(m) /\ m.answer.body = "blob"
        /\ IF MayRetry(c) THEN RetryConnect(c)
                          ELSE UNCHANGED <<retried, legacy, asked, queue>>
        /\ Taken(m)
        /\ UNCHANGED <<taskVars, pc, remote, timer, outcome, sock, signerVars, stored>>

Settles(m) ==
    pc[m.to] # "ack" /\ Authentic(m) /\ m.answer.body # "blob" /\ IsPending(m)

Rearmed_bug(c) == timer' = [timer EXCEPT ![c] = FALSE]

\* auth_url: the entry stays, with a fresh timer.
Rearmed(c) == timer' = [timer EXCEPT ![c] = TRUE]

TakeAuthUrl(m) ==
    LET c == m.to
    IN  /\ Settles(m) /\ m.answer.body = "auth_url"
        /\ legacy' = [legacy EXCEPT ![c] = m.answer.dialect = "nip04"]
        /\ Rearmed(c)
        /\ Taken(m)
        /\ UNCHANGED <<taskVars, pc, remote, retried, outcome, socketVars, asked, signerVars,
                       stored>>

\* connect resolves: get_public_key follows in the dialect the answer was in.
TakeConnected(m) ==
    LET c == m.to
        spoken == m.answer.dialect = "nip04"
    IN  /\ Settles(m) /\ m.answer.method = "connect" /\ m.answer.body = "result"
        /\ legacy' = [legacy EXCEPT ![c] = spoken]
        /\ pc' = [pc EXCEPT ![c] = "pubkey"]
        /\ Publish(c, "pubkey", DialectOf(spoken))
        /\ Taken(m)
        /\ UNCHANGED <<taskVars, remote, retried, timer, outcome, sock, signerVars, stored>>

\* persistPairing: the signer, and the dialect it spoke last.
Paired(c, spoken) ==
    [key |-> key[c], signer |-> remote[c], legacy |-> spoken]

\* get_public_key resolves with a key: persist, close.
TakePubkey(m) ==
    LET c == m.to
        spoken == m.answer.dialect = "nip04"
    IN  /\ Settles(m) /\ m.answer.method = "pubkey" /\ m.answer.body = "result"
        /\ legacy' = [legacy EXCEPT ![c] = spoken]
        /\ \/ /\ stored' = Paired(c, spoken)
              /\ outcome' = [outcome EXCEPT ![c] = {m.answer}]
              /\ CloseWith(c, "done")
           \/ /\ MayFail
              /\ CloseWith(c, "failed")
              /\ UNCHANGED <<stored, outcome>>
        /\ UNCHANGED <<taskVars, remote, retried, asked, signerVars>>

\* verifySignedEvent, assertMatchesRequest and the paired key.
Accepted(m) == m.answer.body = "result"

TakeSignature(m) ==
    LET c == m.to
    IN  /\ Settles(m) /\ m.answer.method = "sign" /\ Accepted(m)
        /\ legacy' = [legacy EXCEPT ![c] = m.answer.dialect = "nip04"]
        /\ outcome' = [outcome EXCEPT ![c] = {m.answer}]
        /\ CloseWith(c, "done")
        /\ UNCHANGED <<taskVars, remote, retried, asked, signerVars, stored>>

\* An error, or a result that does not pass.
TakeRefusal(m) ==
    LET c == m.to
    IN  /\ Settles(m) /\ m.answer.body \notin {"result", "auth_url"}
        /\ ~(m.answer.method = "sign" /\ Accepted(m))
        /\ legacy' = [legacy EXCEPT ![c] = m.answer.dialect = "nip04"]
        /\ CloseWith(c, "failed")
        /\ UNCHANGED <<taskVars, remote, retried, outcome, asked, signerVars, stored>>

\* The timer of the pending request, of the approval, or of the pairing.
Timeout(c) ==
    /\ Waiting(c) /\ timer[c]
    /\ CloseWith(c, "failed")
    /\ UNCHANGED <<taskVars, remote, legacy, retried, outcome, asked, signerVars, stored>>

Begin(c) == ConfigureBunker(c) \/ ConfigureNostrconnect(c) \/ SignEvent(c)

Take(m) ==
    \/ TakeAck(m)
    \/ TakeStray(m)
    \/ TakeBlob(m)
    \/ TakeAuthUrl(m)
    \/ TakeConnected(m)
    \/ TakePubkey(m)
    \/ TakeSignature(m)
    \/ TakeRefusal(m)

Next ==
    \/ \E c \in Client : Begin(c) \/ Timeout(c) \/ SignerAcks(c)
    \/ \E c \in Client, r \in Relay : SocketOpens(c, r) \/ SocketDies(c, r) \/ RelayNoise(c, r)
    \/ \E q \in asked : SignerAnswers(q) \/ SignerPrompts(q)
    \/ \E m \in wire : Take(m)

Spec == Init /\ [][Next]_vars

\* Timers fire: the browser runs them while the page is open.
FairSpec == Spec /\ \A c \in Client : WF_vars(Timeout(c))

-----------------------------------------------------------------------------
(***************************************************************************)
(* Properties.                                                             *)
(***************************************************************************)
\* The client's and the signers' state have their types, and only a client that
\* waits has sockets, queued frames or a timer.
TypeOK ==
    /\ task \in [Client -> Task]
    /\ pc \in [Client -> {"idle", "ack", "connect", "pubkey", "sign", "done", "failed"}]
    /\ remote \in [Client -> Signer \cup {NoSigner}]
    /\ key \in [Client -> Client \cup {NoSigner}]
    /\ legacy \in [Client -> BOOLEAN]
    /\ retried \in [Client -> BOOLEAN]
    /\ timer \in [Client -> BOOLEAN]
    /\ sock \in [Client -> [Relay -> {"closed", "connecting", "open"}]]
    /\ queue \in [Client -> [Relay -> SUBSET Request]]
    /\ asked \subseteq Request
    /\ prompted \subseteq Request
    /\ stored \in Pairing \cup {NoPairing}
    /\ \A c \in Client : timer[c] <=> Waiting(c)
    /\ \A c \in Client, r \in Relay :
         /\ sock[c][r] # "closed" => Waiting(c)
         /\ queue[c][r] # {} => sock[c][r] = "connecting"
    /\ \A m \in wire : Waiting(m.to)

\* A call that returns returns the answer to its own request, by the signer it
\* was sent to, and for a signature the event it asked for: answers arrive late,
\* twice, in any order and on the subscription of another session of the pairing.
OwnAnswers ==
    \A c \in Client : \A a \in outcome[c] :
        /\ a.client = c
        /\ a.from = remote[c]
        /\ a.body = "result"

\* "Only a successfully DECRYPTED NIP-04 response" brings a session down to NIP-04
\* (signer-nip46.js:332-335): a client or a stored pairing is in legacy mode, and a
\* request goes out in NIP-04, only for a signer that answers in it.  What a relay
\* makes up, keeps back or plays again costs one connect repeated in NIP-04.
DowngradeEarned ==
    /\ \A q \in asked \cup UNION {queue[c][r] : c \in Client, r \in Relay} :
         q.dialect = "nip04" =>
            \/ "nip04" \in Writes[remote[q.client]]
            \/ q.method = "connect" /\ retried[q.client]
    /\ \A c \in Client : legacy[c] => "nip04" \in Writes[remote[c]]
    /\ stored # NoPairing => (stored.legacy => "nip04" \in Writes[stored.signer])

\* After the handshake the client speaks a dialect the signer reads, which is
\* what "the client falls back to NIP-04 for subsequent requests" says.
SpeaksItsDialect ==
    \A c \in Client : pc[c] = "pubkey" => DialectOf(legacy[c]) \in Reads[remote[c]]

\* Every pairing and every signature ends, though answers are lost, sockets die
\* and a signer asks for approval that never comes.
EveryCallSettles == \A c \in Client : Waiting(c) ~> ~Waiting(c)
=============================================================================
