---------------------------- MODULE Nip46Proofs -----------------------------
(***************************************************************************)
(* Theorems about Nip46Client, for any clients, tasks, relays and signers.  *)
(***************************************************************************)
EXTENDS Nip46Client, TLAPS

-----------------------------------------------------------------------------
(***************************************************************************)
(* The invariant.                                                          *)
(***************************************************************************)
Types ==
    /\ task \in [Client -> Task]
    /\ pc \in [Client -> {"idle", "ack", "connect", "pubkey", "sign", "done", "failed"}]
    /\ remote \in [Client -> Signer \cup {NoSigner}]
    /\ key \in [Client -> Client \cup {NoSigner}]
    /\ legacy \in [Client -> BOOLEAN]
    /\ retried \in [Client -> BOOLEAN]
    /\ timer \in [Client -> BOOLEAN]
    /\ sock \in [Client -> [Relay -> {"closed", "connecting", "open"}]]
    /\ queue \in [Client -> [Relay -> SUBSET Request]]
    /\ asked \subseteq Request
    /\ prompted \subseteq Request
    /\ DOMAIN outcome = Client
    /\ stored \in Pairing \cup {NoPairing}

TimersArmed == \A c \in Client : timer[c] <=> Waiting(c)

SocketsInUse ==
    \A c \in Client, r \in Relay :
        /\ sock[c][r] # "closed" => Waiting(c)
        /\ queue[c][r] # {} => sock[c][r] = "connecting"

\* An answer that decrypts is in a dialect its signer answers in, and only a
\* signer knows a secret.
Genuine(a) ==
    /\ a.from \in Signer \cup {NoSigner}
    /\ a.from \in Signer /\ a.body # "blob" => a.dialect \in Writes[a.from]
    /\ a.body = "secret" => a.from \in Signer

Delivered ==
    /\ \A m \in wire : m.to \in Client /\ Waiting(m.to) /\ Genuine(m.answer)
    /\ \A a \in said : Genuine(a)

\* A request is of a client that trusts a signer for good, and is in NIP-04 only
\* if that signer answers in it, or if it is the connect that was repeated.
Owned(q) ==
    /\ pc[q.client] \notin {"idle", "ack"}
    /\ remote[q.client] \in Signer
    /\ q.dialect = "nip04" =>
         "nip04" \in Writes[remote[q.client]] \/ (q.method = "connect" /\ retried[q.client])

RequestsOwned ==
    /\ \A q \in asked : Owned(q)
    /\ \A c \in Client, r \in Relay : \A q \in queue[c][r] : Owned(q)

\* Whom a client trusts, and in which dialect.
Trusts ==
    \A c \in Client :
        /\ pc[c] \in {"connect", "pubkey", "sign", "done"} => remote[c] \in Signer
        /\ pc[c] \in {"idle", "ack"} => ~legacy[c]
        /\ legacy[c] => remote[c] \in Signer /\ "nip04" \in Writes[remote[c]]
        /\ outcome[c] # {} => pc[c] = "done"

PairingEarned ==
    stored # NoPairing => (stored.legacy => "nip04" \in Writes[stored.signer])

Inv ==
    /\ Types /\ TimersArmed /\ SocketsInUse
    /\ Delivered /\ RequestsOwned /\ Trusts /\ PairingEarned
    /\ OwnAnswers

LEMMA InvImplies == Inv => TypeOK /\ OwnAnswers /\ DowngradeEarned
<1>1. Inv => TypeOK
  BY DEF Inv, Types, TimersArmed, SocketsInUse, Delivered, TypeOK
<1>2. Inv => DowngradeEarned
  BY DEF Inv, RequestsOwned, Owned, Trusts, PairingEarned, DowngradeEarned
<1> QED
  BY <1>1, <1>2 DEF Inv

-----------------------------------------------------------------------------
(***************************************************************************)
(* What the helpers of the actions do.                                     *)
(***************************************************************************)
\* A client that trusts a signer keeps it.
Onward ==
    \A c \in Client : pc[c] \notin {"idle", "ack"} =>
        /\ pc'[c] \notin {"idle", "ack"} /\ remote'[c] = remote[c]
        /\ retried[c] => retried'[c]

LEMMA OwnedStays ==
    ASSUME Onward, NEW q \in Request, Owned(q)
    PROVE  Owned(q)'
BY DEF Onward, Owned, Request

LEMMA OnwardSame ==
    ASSUME UNCHANGED <<pc, remote, retried>>
    PROVE  Onward
BY DEF Onward

LEMMA SendDelivers ==
    ASSUME Delivered, NEW c \in Client, NEW a, Genuine(a), Send(c, a), pc' = pc
    PROVE  Delivered'
<1>0. \A b \in said' : Genuine(b)
  BY DEF Delivered, Send
<1> SUFFICES ASSUME NEW m \in wire'
             PROVE  m.to \in Client /\ Waiting(m.to)' /\ Genuine(m.answer)
  BY <1>0 DEF Delivered, Genuine
<1>1. CASE m \in wire
  BY <1>1 DEF Delivered, Waiting
<1>2. CASE m \in Heard(c, a)
  BY <1>2 DEF Heard, Waiting
<1> QED
  BY <1>1, <1>2 DEF Send

\* Taking an answer off the wire.
LEMMA TakenDelivers ==
    ASSUME Delivered, NEW m, Taken(m), \A c \in Client : Waiting(c) => Waiting(c)'
    PROVE  Delivered'
BY DEF Delivered, Taken, Genuine

LEMMA PublishTypes ==
    ASSUME Types, SocketsInUse, NEW c \in Client, NEW method \in {"connect", "pubkey", "sign"},
           NEW dialect \in Dialect, Publish(c, method, dialect)
    PROVE  LET q == [client |-> c, method |-> method, dialect |-> dialect] IN
           /\ q \in Request
           /\ asked' \subseteq asked \cup {q}
           /\ queue' \in [Client -> [Relay -> SUBSET Request]]
           /\ \A d \in Client, r \in Relay :
                 /\ queue'[d][r] \subseteq queue[d][r] \cup {q}
                 /\ queue'[d][r] # {} => sock[d][r] = "connecting"
<1> DEFINE q == [client |-> c, method |-> method, dialect |-> dialect]
           f == [r \in Relay |-> IF sock[c][r] = "connecting" THEN queue[c][r] \cup {q}
                                 ELSE queue[c][r]]
<1>1. q \in Request
  BY DEF Request
<1>2. asked' \subseteq asked \cup {q} /\ queue' = [queue EXCEPT ![c] = f]
  BY DEF Publish
<1> HIDE DEF q
<1>3. f \in [Relay -> SUBSET Request]
  BY <1>1 DEF Types
<1>4. \A r \in Relay : /\ f[r] \subseteq queue[c][r] \cup {q}
                       /\ f[r] # {} => sock[c][r] = "connecting"
  BY DEF SocketsInUse
<1> HIDE DEF f
<1>5. queue' \in [Client -> [Relay -> SUBSET Request]]
  BY <1>2, <1>3 DEF Types
<1>6. ASSUME NEW d \in Client, NEW r \in Relay
      PROVE  /\ queue'[d][r] \subseteq queue[d][r] \cup {q}
             /\ queue'[d][r] # {} => sock[d][r] = "connecting"
  BY <1>2, <1>4 DEF Types, SocketsInUse
<1> QED
  BY <1>1, <1>2, <1>5, <1>6 DEF q

\* The call of c ends.
LEMMA CloseTypes ==
    ASSUME Types, TimersArmed, SocketsInUse, Delivered,
           NEW c \in Client, NEW result \in {"done", "failed"}, CloseWith(c, result)
    PROVE  /\ pc' \in [Client -> {"idle", "ack", "connect", "pubkey", "sign", "done", "failed"}]
           /\ pc'[c] = result /\ \A d \in Client \ {c} : pc'[d] = pc[d]
           /\ timer' \in [Client -> BOOLEAN]
           /\ sock' \in [Client -> [Relay -> {"closed", "connecting", "open"}]]
           /\ queue' \in [Client -> [Relay -> SUBSET Request]]
           /\ \A d \in Client, r \in Relay : queue'[d][r] \subseteq queue[d][r]
           /\ TimersArmed' /\ SocketsInUse' /\ Delivered'
<1>1. /\ pc' = [pc EXCEPT ![c] = result]
      /\ timer' = [timer EXCEPT ![c] = FALSE]
      /\ sock' = [sock EXCEPT ![c] = [r \in Relay |-> "closed"]]
      /\ queue' = [queue EXCEPT ![c] = [r \in Relay |-> {}]]
      /\ wire' = {m \in wire : m.to # c} /\ said' = said
  BY DEF CloseWith
<1>2. pc'[c] = result /\ \A d \in Client \ {c} : pc'[d] = pc[d]
  BY <1>1 DEF Types
<1>3. pc' \in [Client -> {"idle", "ack", "connect", "pubkey", "sign", "done", "failed"}]
  BY <1>1 DEF Types
<1>4. timer' \in [Client -> BOOLEAN] /\ TimersArmed'
  BY <1>1, <1>2 DEF Types, TimersArmed, Waiting
<1>5. /\ sock' \in [Client -> [Relay -> {"closed", "connecting", "open"}]]
      /\ queue' \in [Client -> [Relay -> SUBSET Request]]
  <2>1. [r \in Relay |-> {}] \in [Relay -> SUBSET Request]
        /\ [r \in Relay |-> "closed"] \in [Relay -> {"closed", "connecting", "open"}]
    OBVIOUS
  <2> QED
    BY <1>1, <2>1 DEF Types
<1>6. \A d \in Client, r \in Relay :
         /\ queue'[d][r] = IF d = c THEN {} ELSE queue[d][r]
         /\ sock'[d][r] = IF d = c THEN "closed" ELSE sock[d][r]
  BY <1>1 DEF Types
<1>7. SocketsInUse'
  BY <1>2, <1>6 DEF SocketsInUse, Waiting
<1>8. Delivered'
  BY <1>1, <1>2 DEF Delivered, Waiting, Genuine
<1> QED
  BY <1>2, <1>3, <1>4, <1>5, <1>6, <1>7, <1>8

ConnectingTypes ==
    /\ timer' \in [Client -> BOOLEAN]
    /\ sock' \in [Client -> [Relay -> {"closed", "connecting", "open"}]]
    /\ queue' \in [Client -> [Relay -> SUBSET Request]]

LEMMA ConnectingTyped ==
    ASSUME Types, NEW c \in Client, NEW requests \in SUBSET Request, Connecting(c, requests)
    PROVE  ConnectingTypes
<1>1. [r \in Relay |-> requests] \in [Relay -> SUBSET Request]
      /\ [r \in Relay |-> "connecting"] \in [Relay -> {"closed", "connecting", "open"}]
  OBVIOUS
<1> QED
  BY <1>1 DEF Types, Connecting, ConnectingTypes

-----------------------------------------------------------------------------
(***************************************************************************)
(* Sockets and signers.                                                    *)
(***************************************************************************)
LEMMA SocketOpensInv ==
    ASSUME Inv, NEW c \in Client, NEW r \in Relay, SocketOpens(c, r)
    PROVE  Inv'
<1>1. /\ sock[c][r] = "connecting"
      /\ sock' = [sock EXCEPT ![c][r] = "open"]
      /\ asked' = asked \cup queue[c][r]
      /\ queue' = [queue EXCEPT ![c][r] = {}]
      /\ UNCHANGED <<taskVars, callVars, signerVars, wire, said, stored>>
  BY DEF SocketOpens
<1>2. /\ sock' \in [Client -> [Relay -> {"closed", "connecting", "open"}]]
      /\ \A d \in Client, s \in Relay :
            sock'[d][s] = IF d = c /\ s = r THEN "open" ELSE sock[d][s]
  BY <1>1 DEF Inv, Types
<1>3. /\ queue' \in [Client -> [Relay -> SUBSET Request]]
      /\ \A d \in Client, s \in Relay :
            queue'[d][s] = IF d = c /\ s = r THEN {} ELSE queue[d][s]
  BY <1>1 DEF Inv, Types
<1>4. Types'
  BY <1>1, <1>2, <1>3 DEF Inv, Types, taskVars, callVars, signerVars
<1>5. SocketsInUse' /\ TimersArmed'
  BY <1>1, <1>2, <1>3 DEF Inv, SocketsInUse, TimersArmed, Waiting, callVars
<1>6. RequestsOwned'
  BY <1>1, <1>3 DEF Inv, RequestsOwned, Owned, callVars
<1> QED
  BY <1>1, <1>4, <1>5, <1>6
     DEF Inv, Delivered, Waiting, Genuine, Trusts, PairingEarned, OwnAnswers, callVars

LEMMA SocketDiesInv ==
    ASSUME Inv, NEW c \in Client, NEW r \in Relay, SocketDies(c, r)
    PROVE  Inv'
<1>1. /\ sock' = [sock EXCEPT ![c][r] = "closed"]
      /\ queue' = [queue EXCEPT ![c][r] = {}]
      /\ wire' \subseteq wire
      /\ UNCHANGED <<taskVars, callVars, asked, signerVars, said, stored>>
  BY DEF SocketDies
<1>2. /\ sock' \in [Client -> [Relay -> {"closed", "connecting", "open"}]]
      /\ \A d \in Client, s \in Relay :
            sock'[d][s] = IF d = c /\ s = r THEN "closed" ELSE sock[d][s]
  BY <1>1 DEF Inv, Types
<1>3. /\ queue' \in [Client -> [Relay -> SUBSET Request]]
      /\ \A d \in Client, s \in Relay :
            queue'[d][s] = IF d = c /\ s = r THEN {} ELSE queue[d][s]
  BY <1>1 DEF Inv, Types
<1>4. Types'
  BY <1>1, <1>2, <1>3 DEF Inv, Types, taskVars, callVars, signerVars
<1>5. SocketsInUse' /\ TimersArmed'
  BY <1>1, <1>2, <1>3 DEF Inv, SocketsInUse, TimersArmed, Waiting, callVars
<1>6. RequestsOwned'
  BY <1>1, <1>3 DEF Inv, RequestsOwned, Owned, callVars
<1> QED
  BY <1>1, <1>4, <1>5, <1>6
     DEF Inv, Delivered, Waiting, Genuine, Trusts, PairingEarned, OwnAnswers, callVars

\* Events arrive, and nothing else changes that a client sees.
LEMMA ArriveInv ==
    ASSUME Inv, Delivered', prompted' \subseteq Request,
           UNCHANGED <<taskVars, callVars, socketVars, asked, stored>>
    PROVE  Inv'
<1>2. Types'
  BY DEF Inv, Types, taskVars, callVars, socketVars
<1>3. SocketsInUse' /\ TimersArmed'
  BY DEF Inv, SocketsInUse, TimersArmed, Waiting, callVars, socketVars
<1>4. RequestsOwned'
  BY DEF Inv, RequestsOwned, Owned, callVars, socketVars
<1> QED
  BY <1>2, <1>3, <1>4 DEF Inv, Trusts, PairingEarned, OwnAnswers, callVars

\* An answer goes out.
LEMMA AnswerInv ==
    ASSUME Inv, NEW c \in Client, NEW a, Genuine(a), Send(c, a), prompted' \subseteq Request,
           UNCHANGED <<taskVars, callVars, socketVars, asked, stored>>
    PROVE  Inv'
<1>1. Delivered'
  BY SendDelivers DEF Inv, callVars
<1> QED
  BY <1>1, ArriveInv

LEMMA AnswersGenuine ==
    ASSUME NEW q \in Request, remote[q.client] \in Signer, NEW body, body # "secret",
           NEW answer \in Answers(q, body)
    PROVE  Genuine(answer)
BY DEF Genuine, Answers

LEMMA SignerAnswersInv ==
    ASSUME Inv, NEW q \in asked, SignerAnswers(q)
    PROVE  Inv'
<1>1. q \in Request /\ q.client \in Client /\ q.dialect \in Dialect /\ Owned(q)
  BY DEF Inv, Types, RequestsOwned, Request
<1>2. remote[q.client] \in Signer
  BY <1>1 DEF Owned
<1>3. /\ UNCHANGED <<taskVars, callVars, socketVars, asked, prompted, stored>>
      /\ \E body \in Results(q.method) \cup {"blob"} :
            \E answer \in Answers(q, body) : Send(q.client, answer)
  BY DEF SignerAnswers
<1>4. PICK body \in Results(q.method) \cup {"blob"} :
         \E answer \in Answers(q, body) : Send(q.client, answer)
  BY <1>3
<1>5. PICK answer \in Answers(q, body) : Send(q.client, answer)
  BY <1>4
<1>6. body # "secret"
  BY <1>1 DEF Results, Request
<1>7. Genuine(answer)
  BY <1>1, <1>2, <1>5, <1>6, AnswersGenuine
<1>8. prompted' \subseteq Request
  BY <1>3 DEF Inv, Types
<1> QED
  BY <1>1, <1>3, <1>5, <1>7, <1>8, AnswerInv

LEMMA SignerPromptsInv ==
    ASSUME Inv, NEW q \in asked, SignerPrompts(q)
    PROVE  Inv'
<1>1. q \in Request /\ q.client \in Client /\ remote[q.client] \in Signer
  BY DEF Inv, Types, RequestsOwned, Owned, Request
<1>2. PICK answer \in Answers(q, "auth_url") : Send(q.client, answer)
  BY DEF SignerPrompts
<1>3. Genuine(answer)
  BY <1>1, <1>2, AnswersGenuine
<1>4. /\ prompted' \subseteq Request
      /\ UNCHANGED <<taskVars, callVars, socketVars, asked, stored>>
  BY <1>1 DEF SignerPrompts, Inv, Types
<1> QED
  BY <1>1, <1>2, <1>3, <1>4, AnswerInv

LEMMA SignerAcksInv ==
    ASSUME Inv, NEW c \in Client, SignerAcks(c)
    PROVE  Inv'
<1>1. task[c].signer \in Signer
  BY DEF Inv, Types, Task
<1>2. PICK body \in {"secret", "bare ack"}, d \in Writes[task[c].signer] :
         Send(c, [client |-> c, method |-> "ack", body |-> body,
                  from |-> task[c].signer, dialect |-> d])
  BY DEF SignerAcks
<1> DEFINE a == [client |-> c, method |-> "ack", body |-> body,
                 from |-> task[c].signer, dialect |-> d]
<1>3. Genuine(a)
  BY <1>1 DEF Genuine
<1>4. prompted' \subseteq Request /\ UNCHANGED <<taskVars, callVars, socketVars, asked, stored>>
  BY DEF SignerAcks, Inv, Types
<1> HIDE DEF a
<1> QED
  BY <1>2, <1>3, <1>4, AnswerInv DEF a

LEMMA NoiseGenuine ==
    ASSUME Inv, NEW c \in Client, NEW a \in Noise(c)
    PROVE  Genuine(a)
<1>1. CASE a \in said
  BY <1>1 DEF Inv, Delivered
<1>2. CASE a \notin said
  <2>1. PICK s \in {NoSigner, remote[c]} :
           a = [client |-> c, method |-> "noise", body |-> "blob", from |-> s,
                dialect |-> "nip44"]
    BY <1>2 DEF Noise
  <2>2. s \in Signer \cup {NoSigner}
    BY <2>1 DEF Inv, Types
  <2> QED
    BY <2>1, <2>2 DEF Genuine
<1> QED
  BY <1>1, <1>2

\* Whatever the relay plays, only a client that waits has a socket to hear it on.
LEMMA RelayNoiseInv ==
    ASSUME Inv, NEW c \in Client, NEW r \in Relay, RelayNoise(c, r)
    PROVE  Inv'
<1>1. PICK a \in Noise(c) : wire' = wire \cup {[to |-> c, relay |-> r, answer |-> a]}
  BY DEF RelayNoise
<1>2. sock[c][r] = "open" /\ said' = said /\ prompted' \subseteq Request
      /\ UNCHANGED <<taskVars, callVars, socketVars, asked, stored>>
  BY DEF RelayNoise, Inv, Types
<1>3. Waiting(c) /\ Genuine(a)
  BY <1>1, <1>2, NoiseGenuine DEF Inv, SocketsInUse
<1>4. Delivered'
  BY <1>1, <1>2, <1>3 DEF Inv, Delivered, Waiting, Genuine, callVars
<1> QED
  BY <1>2, <1>4, ArriveInv

-----------------------------------------------------------------------------
(***************************************************************************)
(* The user starts a call.                                                 *)
(***************************************************************************)
\* A call that begins had no request before it.
\* The first requests of c suit the signer it is to trust.
Fit(c, requests) ==
    \A q \in requests :
        /\ q.client = c /\ pc'[c] \notin {"idle", "ack"} /\ remote'[c] \in Signer
        /\ q.dialect = "nip04" => "nip04" \in Writes[remote'[c]]

LEMMA BeginInv ==
    ASSUME Inv, NEW c \in Client, pc[c] = "idle",
           NEW requests \in SUBSET Request, NEW state \in {"ack", "connect", "sign"},
           Connecting(c, requests),
           pc' = [pc EXCEPT ![c] = state],
           Types', Trusts',
           \A d \in Client \ {c} : remote'[d] = remote[d],
           Fit(c, requests),
           UNCHANGED <<retried, outcome, asked, wire, said, stored>>
    PROVE  Inv'
<1>0. ASSUME NEW q \in requests PROVE Owned(q)'
  <2>1. q.client = c /\ pc'[c] \notin {"idle", "ack"} /\ remote'[c] \in Signer
    BY DEF Fit
  <2>2. q.dialect = "nip04" => "nip04" \in Writes[remote'[c]]
    BY DEF Fit
  <2> QED
    BY <2>1, <2>2 DEF Owned
<1>1. /\ sock' = [sock EXCEPT ![c] = [r \in Relay |-> "connecting"]]
      /\ queue' = [queue EXCEPT ![c] = [r \in Relay |-> requests]]
      /\ timer' = [timer EXCEPT ![c] = TRUE]
  BY DEF Connecting
<1>2. pc'[c] = state /\ \A d \in Client \ {c} : pc'[d] = pc[d]
  BY DEF Inv, Types
<1>3. \A d \in Client, r \in Relay :
         /\ queue'[d][r] = IF d = c THEN requests ELSE queue[d][r]
         /\ sock'[d][r] = IF d = c THEN "connecting" ELSE sock[d][r]
  BY <1>1 DEF Inv, Types
<1>4. TimersArmed'
  BY <1>1, <1>2 DEF Inv, Types, TimersArmed, Waiting
<1>5. SocketsInUse'
  BY <1>2, <1>3 DEF Inv, SocketsInUse, Waiting
<1>6. Delivered'
  BY <1>2 DEF Inv, Delivered, Waiting, Genuine
<1>7. Onward
  BY <1>2 DEF Onward
<1>8. RequestsOwned'
  <2>1. \A q \in asked : q \in Request /\ Owned(q)
    BY DEF Inv, RequestsOwned, Types
  <2>2. \A d \in Client, r \in Relay : \A q \in queue[d][r] : q \in Request /\ Owned(q)
    BY DEF Inv, RequestsOwned, Types
  <2> QED
    BY <1>0, <1>3, <1>7, <2>1, <2>2, OwnedStays DEF RequestsOwned
<1>9. PairingEarned' /\ OwnAnswers'
  <2>1. \A d \in Client : outcome[d] # {} => pc[d] = "done"
    BY DEF Inv, Trusts
  <2>2. outcome[c] = {}
    BY <2>1
  <2> QED
    BY <1>2, <2>2 DEF Inv, PairingEarned, OwnAnswers
<1> QED
  BY <1>4, <1>5, <1>6, <1>8, <1>9 DEF Inv

LEMMA ConfigureBunkerInv ==
    ASSUME Inv, NEW c \in Client, ConfigureBunker(c)
    PROVE  Inv'
<1> DEFINE q == [client |-> c, method |-> "connect", dialect |-> "nip44"]
<1>1. /\ pc[c] = "idle" /\ Connecting(c, {q})
      /\ pc' = [pc EXCEPT ![c] = "connect"]
      /\ remote' = [remote EXCEPT ![c] = task[c].signer]
      /\ UNCHANGED <<taskVars, legacy, retried, outcome, asked, signerVars, wire, said, stored>>
  BY DEF ConfigureBunker
<1>2. task[c].signer \in Signer
  BY DEF Inv, Types, Task
<1>3. q \in Request
  BY DEF Request, Dialect
<1>4. Fit(c, {q})
  BY <1>1, <1>2 DEF Fit, Inv, Types
<1> HIDE DEF q
<1>5. ConnectingTypes
  BY <1>1, <1>3, ConnectingTyped DEF Inv
<1>6. Types'
  BY <1>1, <1>2, <1>5 DEF Inv, Types, ConnectingTypes, taskVars, signerVars
<1>7. Trusts'
  BY <1>1, <1>2 DEF Inv, Types, Trusts
<1>8. \A d \in Client \ {c} : remote'[d] = remote[d]
  BY <1>1 DEF Inv, Types
<1>9. {q} \in SUBSET Request /\ UNCHANGED <<retried, outcome, asked, wire, said, stored>>
  BY <1>1, <1>3
<1> QED
  BY <1>1, <1>4, <1>6, <1>7, <1>8, <1>9, BeginInv

LEMMA ConfigureNostrconnectInv ==
    ASSUME Inv, NEW c \in Client, ConfigureNostrconnect(c)
    PROVE  Inv'
<1>1. /\ pc[c] = "idle" /\ Connecting(c, {})
      /\ pc' = [pc EXCEPT ![c] = "ack"]
      /\ UNCHANGED <<taskVars, remote, legacy, retried, outcome, asked, signerVars, wire, said, stored>>
  BY DEF ConfigureNostrconnect
<1>2. ConnectingTypes
  BY <1>1, ConnectingTyped DEF Inv
<1>3. Types'
  BY <1>1, <1>2 DEF Inv, Types, ConnectingTypes, taskVars, signerVars
<1>4. Trusts'
  BY <1>1 DEF Inv, Types, Trusts
<1>5. {} \in SUBSET Request /\ UNCHANGED <<retried, outcome, asked, wire, said, stored>>
  BY <1>1
<1>6. Fit(c, {}) /\ \A d \in Client \ {c} : remote'[d] = remote[d]
  BY <1>1 DEF Fit
<1> QED
  BY <1>1, <1>3, <1>4, <1>5, <1>6, BeginInv

LEMMA SignEventInv ==
    ASSUME Inv, NEW c \in Client, SignEvent(c)
    PROVE  Inv'
<1>1. CASE stored = NoPairing
  <2>1. /\ pc[c] = "idle" /\ pc' = [pc EXCEPT ![c] = "failed"]
        /\ UNCHANGED <<taskVars, remote, legacy, retried, timer, outcome, socketVars, asked,
                       signerVars, wire, said, stored>>
    BY <1>1 DEF SignEvent, taskVars
  <2>2. pc'[c] = "failed" /\ \A d \in Client \ {c} : pc'[d] = pc[d]
    BY <2>1 DEF Inv, Types
  <2>3. Types'
    BY <2>1 DEF Inv, Types, taskVars, socketVars, signerVars
  <2>4. SocketsInUse' /\ TimersArmed' /\ Delivered'
    BY <2>1, <2>2 DEF Inv, SocketsInUse, TimersArmed, Delivered, Genuine, Waiting, socketVars
  <2>5. RequestsOwned'
    BY <2>1, <2>2 DEF Inv, Types, RequestsOwned, Owned, Request, socketVars
  <2>6. Trusts' /\ PairingEarned' /\ OwnAnswers'
    BY <2>1, <2>2 DEF Inv, Trusts, PairingEarned, OwnAnswers
  <2> QED
    BY <2>3, <2>4, <2>5, <2>6 DEF Inv
<1>2. CASE stored # NoPairing
  <2> DEFINE q == [client |-> c, method |-> "sign", dialect |-> DialectOf(stored.legacy)]
  <2>1. /\ pc[c] = "idle" /\ Connecting(c, {q})
        /\ pc' = [pc EXCEPT ![c] = "sign"]
        /\ key' = [key EXCEPT ![c] = stored.key]
        /\ remote' = [remote EXCEPT ![c] = stored.signer]
        /\ legacy' = [legacy EXCEPT ![c] = stored.legacy]
        /\ UNCHANGED <<task, retried, outcome, asked, signerVars, wire, said, stored>>
    BY <1>2 DEF SignEvent
  <2>2. /\ stored.signer \in Signer /\ stored.legacy \in BOOLEAN
        /\ stored.key \in Client \cup {NoSigner}
        /\ stored.legacy => "nip04" \in Writes[stored.signer]
    BY <1>2 DEF Inv, Types, Pairing, PairingEarned
  <2>3. q \in Request /\ (q.dialect = "nip04" => stored.legacy)
    BY <2>2 DEF Request, Dialect, DialectOf
  <2>4. Fit(c, {q})
    BY <2>1, <2>2, <2>3 DEF Fit, Inv, Types
  <2> HIDE DEF q
  <2>5. ConnectingTypes
    BY <2>1, <2>3, ConnectingTyped DEF Inv
  <2>6. Types'
    BY <2>1, <2>2, <2>5 DEF Inv, Types, ConnectingTypes, signerVars
  <2>7. Trusts'
    BY <2>1, <2>2 DEF Inv, Types, Trusts
  <2>8. \A d \in Client \ {c} : remote'[d] = remote[d]
    BY <2>1 DEF Inv, Types
  <2>9. {q} \in SUBSET Request /\ UNCHANGED <<retried, outcome, asked, wire, said, stored>>
    BY <2>1, <2>3
  <2> QED
    BY <2>1, <2>4, <2>6, <2>7, <2>8, <2>9, BeginInv
<1> QED
  BY <1>1, <1>2

-----------------------------------------------------------------------------
(***************************************************************************)
(* The answers a client takes.                                             *)
(***************************************************************************)
LEMMA WireFacts ==
    ASSUME Inv, NEW m \in wire
    PROVE  /\ m.to \in Client /\ Waiting(m.to) /\ Genuine(m.answer)
           /\ pc[m.to] # "ack" => remote[m.to] \in Signer
           /\ pc[m.to] # "ack" /\ Authentic(m) /\ m.answer.body # "blob"
                => m.answer.dialect \in Writes[remote[m.to]]
<1>1. m.to \in Client /\ Waiting(m.to) /\ Genuine(m.answer)
  BY DEF Inv, Delivered
<1>2. pc[m.to] # "ack" => remote[m.to] \in Signer
  BY <1>1 DEF Inv, Trusts, Waiting
<1> QED
  BY <1>1, <1>2 DEF Genuine, Authentic

\* The dialect of c becomes that of the answer it takes.
Spoke(c) ==
    /\ legacy' \in [Client -> BOOLEAN]
    /\ \A d \in Client \ {c} : legacy'[d] = legacy[d]
    /\ legacy'[c] => remote[c] \in Signer /\ "nip04" \in Writes[remote[c]]

LEMMA SpokeTaken ==
    ASSUME Inv, NEW m \in wire, pc[m.to] # "ack", Authentic(m), m.answer.body # "blob",
           legacy' = [legacy EXCEPT ![m.to] = m.answer.dialect = "nip04"]
    PROVE  Spoke(m.to)
BY WireFacts DEF Spoke, Inv, Types

LEMMA SpokeSame ==
    ASSUME Inv, NEW c \in Client, UNCHANGED legacy
    PROVE  Spoke(c)
BY DEF Spoke, Inv, Types, Trusts

\* A request that waits for an answer goes on waiting, and asks for nothing new.
LEMMA HeardInv ==
    ASSUME Inv, NEW m \in wire, pc[m.to] # "ack" \/ UNCHANGED legacy, Spoke(m.to), Taken(m),
           timer' = timer,
           UNCHANGED <<taskVars, pc, remote, retried, outcome, socketVars, asked, prompted, stored>>
    PROVE  Inv'
<1>1. m.to \in Client /\ Waiting(m.to)
  BY WireFacts
<1>2. Delivered'
  BY TakenDelivers DEF Inv, Waiting
<1>3. Types'
  BY DEF Inv, Types, Spoke, taskVars, socketVars
<1>4. SocketsInUse' /\ TimersArmed'
  BY DEF Inv, SocketsInUse, TimersArmed, Waiting, socketVars
<1>5. RequestsOwned'
  BY DEF Inv, RequestsOwned, Owned, socketVars
<1>6. Trusts'
  BY <1>1 DEF Inv, Trusts, Spoke, Waiting
<1> QED
  BY <1>2, <1>3, <1>4, <1>5, <1>6 DEF Inv, PairingEarned, OwnAnswers

LEMMA TakeStrayInv ==
    ASSUME Inv, NEW m \in wire, TakeStray(m)
    PROVE  Inv'
<1>1. /\ pc[m.to] # "ack" /\ Taken(m) /\ timer' = timer
      /\ UNCHANGED <<taskVars, pc, remote, retried, outcome, socketVars, asked, prompted, stored>>
  BY DEF TakeStray, signerVars
<1>2. Spoke(m.to)
  BY <1>1, WireFacts, SpokeTaken, SpokeSame DEF TakeStray
<1> QED
  BY <1>1, <1>2, HeardInv

LEMMA TakeAuthUrlInv ==
    ASSUME Inv, NEW m \in wire, TakeAuthUrl(m)
    PROVE  Inv'
<1>1. /\ pc[m.to] # "ack" /\ Authentic(m) /\ m.answer.body # "blob" /\ Taken(m)
      /\ UNCHANGED <<taskVars, pc, remote, retried, outcome, socketVars, asked, prompted, stored>>
  BY DEF TakeAuthUrl, Settles, signerVars
<1>2. Spoke(m.to)
  BY <1>1, SpokeTaken DEF TakeAuthUrl
<1>3. timer[m.to] /\ timer' = [timer EXCEPT ![m.to] = TRUE]
  BY WireFacts DEF TakeAuthUrl, Rearmed, Inv, TimersArmed
<1>4. timer' = timer
  BY <1>3 DEF Inv, Types
<1> QED
  BY <1>1, <1>2, <1>4, HeardInv

\* A request goes out behind an answer.
LEMMA PublishInv ==
    ASSUME Inv, NEW m \in wire, NEW method \in {"connect", "pubkey", "sign"},
           NEW dialect \in Dialect, NEW state \in {"connect", "pubkey"},
           Publish(m.to, method, dialect), Taken(m),
           pc' = [pc EXCEPT ![m.to] = state],
           remote' \in [Client -> Signer \cup {NoSigner}],
           \A d \in Client \ {m.to} : remote'[d] = remote[d],
           pc[m.to] = "ack" \/ remote'[m.to] = remote[m.to],
           remote'[m.to] \in Signer,
           dialect = "nip04" =>
              "nip04" \in Writes[remote'[m.to]] \/ (method = "connect" /\ retried'[m.to]),
           legacy' \in [Client -> BOOLEAN],
           \A d \in Client \ {m.to} : legacy'[d] = legacy[d],
           legacy'[m.to] => "nip04" \in Writes[remote'[m.to]],
           retried' \in [Client -> BOOLEAN],
           \A d \in Client : retried[d] => retried'[d],
           UNCHANGED <<taskVars, timer, outcome, sock, prompted, stored>>
    PROVE  Inv'
<1> DEFINE c == m.to
           q == [client |-> c, method |-> method, dialect |-> dialect]
<1>1. c \in Client /\ Waiting(c)
  BY WireFacts
<1>2. /\ q \in Request /\ q.client = c /\ q.method = method /\ q.dialect = dialect
      /\ asked' \subseteq asked \cup {q}
      /\ queue' \in [Client -> [Relay -> SUBSET Request]]
      /\ \A d \in Client, r \in Relay :
            /\ queue'[d][r] \subseteq queue[d][r] \cup {q}
            /\ queue'[d][r] # {} => sock[d][r] = "connecting"
  BY <1>1, PublishTypes DEF Inv
<1> HIDE DEF q
<1>3. /\ pc' \in [Client -> {"idle", "ack", "connect", "pubkey", "sign", "done", "failed"}]
      /\ pc'[c] = state /\ \A d \in Client \ {c} : pc'[d] = pc[d]
  BY <1>1 DEF Inv, Types
<1>4. \A d \in Client : Waiting(d)' = Waiting(d)
  BY <1>1, <1>3 DEF Waiting
<1>5. Types'
  BY <1>2, <1>3 DEF Inv, Types, taskVars
<1>6. TimersArmed' /\ SocketsInUse' /\ Delivered'
  <2>1. Delivered'
    BY <1>4, TakenDelivers DEF Inv
  <2>2. TimersArmed'
    BY <1>4 DEF Inv, TimersArmed
  <2>3. SocketsInUse'
    BY <1>2, <1>4 DEF Inv, SocketsInUse
  <2> QED
    BY <2>1, <2>2, <2>3
<1>7. Onward
  BY <1>3 DEF Onward
<1>8. Owned(q)'
  BY <1>2, <1>3 DEF Owned
<1>9. RequestsOwned'
  <2>1. \A p \in asked : p \in Request /\ Owned(p)
    BY DEF Inv, RequestsOwned, Types
  <2>2. \A d \in Client, r \in Relay : \A p \in queue[d][r] : p \in Request /\ Owned(p)
    BY DEF Inv, RequestsOwned, Types
  <2>3. \A p \in asked' : Owned(p)'
    BY <1>2, <1>7, <1>8, <2>1, OwnedStays
  <2>4. \A d \in Client, r \in Relay : \A p \in queue'[d][r] : Owned(p)'
    BY <1>2, <1>7, <1>8, <2>2, OwnedStays
  <2> QED
    BY <2>3, <2>4 DEF RequestsOwned
<1>10. Trusts'
  BY <1>1, <1>3 DEF Inv, Trusts, Waiting
<1>11. PairingEarned' /\ OwnAnswers'
  <2>1. outcome[c] = {}
    BY <1>1 DEF Inv, Trusts, Waiting
  <2> QED
    BY <1>3, <2>1 DEF Inv, PairingEarned, OwnAnswers
<1> QED
  BY <1>5, <1>6, <1>9, <1>10, <1>11 DEF Inv

LEMMA TakeAckInv ==
    ASSUME Inv, NEW m \in wire, TakeAck(m)
    PROVE  Inv'
<1>1. m.to \in Client /\ pc[m.to] = "ack" /\ ~legacy[m.to]
  BY WireFacts DEF TakeAck, Inv, Trusts
<1>2. /\ Taken(m)
      /\ UNCHANGED <<taskVars, legacy, retried, timer, outcome, sock, prompted, stored>>
  BY DEF TakeAck, signerVars
<1>3. CASE m.answer.body = "secret"
  <2>1. /\ remote' = [remote EXCEPT ![m.to] = m.answer.from]
        /\ pc' = [pc EXCEPT ![m.to] = "pubkey"]
        /\ Publish(m.to, "pubkey", "nip44")
    BY <1>3 DEF TakeAck
  <2>2. m.answer.from \in Signer
    BY <1>3, WireFacts DEF Genuine
  <2>3. /\ remote' \in [Client -> Signer \cup {NoSigner}]
        /\ \A d \in Client \ {m.to} : remote'[d] = remote[d]
        /\ remote'[m.to] \in Signer
    BY <1>1, <2>1, <2>2 DEF Inv, Types
  <2>4. legacy' \in [Client -> BOOLEAN] /\ retried' \in [Client -> BOOLEAN]
        /\ \A d \in Client : retried[d] => retried'[d]
    BY <1>2 DEF Inv, Types
  <2>5. "nip44" \in Dialect
    BY DEF Dialect
  <2> QED
    BY <1>1, <1>2, <2>1, <2>3, <2>4, <2>5, PublishInv
<1>4. CASE m.answer.body # "secret"
  <2>1. UNCHANGED <<remote, pc, asked, queue>>
    BY <1>4 DEF TakeAck
  <2> QED
    BY <1>1, <1>2, <2>1, SpokeSame, HeardInv DEF socketVars
<1> QED
  BY <1>3, <1>4

\* The one connect that is repeated, with the session's dialect as it was.
LEMMA TakeBlobInv ==
    ASSUME Inv, NEW m \in wire, TakeBlob(m)
    PROVE  Inv'
<1>1. m.to \in Client /\ pc[m.to] # "ack" /\ remote[m.to] \in Signer
  BY WireFacts DEF TakeBlob
<1>2. /\ Taken(m)
      /\ UNCHANGED <<taskVars, pc, remote, legacy, timer, outcome, sock, prompted, stored>>
  BY DEF TakeBlob, RetryConnect, signerVars
<1>3. CASE MayRetry(m.to)
  <2>1. /\ pc[m.to] = "connect"
        /\ retried' = [retried EXCEPT ![m.to] = TRUE]
        /\ Publish(m.to, "connect", "nip04")
    BY <1>3 DEF TakeBlob, MayRetry, RetryConnect
  <2>2. pc' = [pc EXCEPT ![m.to] = "connect"]
    BY <1>2, <2>1 DEF Inv, Types
  <2>3. /\ legacy' \in [Client -> BOOLEAN] /\ retried' \in [Client -> BOOLEAN]
        /\ remote' \in [Client -> Signer \cup {NoSigner}] /\ "nip04" \in Dialect
    BY <1>2, <2>1 DEF Inv, Types, Dialect
  <2>4. retried'[m.to] /\ \A d \in Client : retried[d] => retried'[d]
    BY <1>1, <2>1 DEF Inv, Types
  <2>5. legacy'[m.to] => "nip04" \in Writes[remote'[m.to]]
    BY <1>1, <1>2 DEF Inv, Trusts
  <2> QED
    BY <1>1, <1>2, <2>1, <2>2, <2>3, <2>4, <2>5, PublishInv
<1>4. CASE ~MayRetry(m.to)
  <2>1. UNCHANGED <<retried, asked, queue>>
    BY <1>4 DEF TakeBlob
  <2> QED
    BY <1>1, <1>2, <2>1, SpokeSame, HeardInv DEF socketVars
<1> QED
  BY <1>3, <1>4

LEMMA TakeConnectedInv ==
    ASSUME Inv, NEW m \in wire, TakeConnected(m)
    PROVE  Inv'
<1> DEFINE spoken == m.answer.dialect = "nip04"
<1>1. /\ Taken(m) /\ Publish(m.to, "pubkey", DialectOf(spoken))
      /\ pc' = [pc EXCEPT ![m.to] = "pubkey"]
      /\ pc[m.to] # "ack" /\ Authentic(m) /\ m.answer.body # "blob"
      /\ UNCHANGED <<taskVars, remote, retried, timer, outcome, sock, prompted, stored>>
  BY DEF TakeConnected, Settles, signerVars
<1>2. m.to \in Client /\ remote[m.to] \in Signer
  BY <1>1, WireFacts
<1>3. Spoke(m.to)
  BY <1>1, SpokeTaken DEF TakeConnected
<1>4. DialectOf(spoken) \in Dialect /\ (DialectOf(spoken) = "nip04" => spoken)
  BY DEF Dialect, DialectOf
<1>5. spoken => "nip04" \in Writes[remote[m.to]]
  BY <1>1, WireFacts
<1>6. /\ retried' \in [Client -> BOOLEAN] /\ \A d \in Client : retried[d] => retried'[d]
      /\ remote' \in [Client -> Signer \cup {NoSigner}]
  BY <1>1 DEF Inv, Types
<1> HIDE DEF spoken
<1>7. /\ DialectOf(spoken) = "nip04" => "nip04" \in Writes[remote'[m.to]]
      /\ remote'[m.to] = remote[m.to] /\ remote'[m.to] \in Signer
  BY <1>1, <1>2, <1>4, <1>5
<1>8. /\ legacy' \in [Client -> BOOLEAN]
      /\ \A d \in Client \ {m.to} : legacy'[d] = legacy[d]
      /\ legacy'[m.to] => "nip04" \in Writes[remote'[m.to]]
  BY <1>1, <1>3 DEF Spoke
<1> QED
  BY <1>1, <1>2, <1>4, <1>6, <1>7, <1>8, PublishInv

\* A call ends, with an answer or without.
LEMMA EndInv ==
    ASSUME Inv, NEW c \in Client, Waiting(c), NEW result \in {"done", "failed"},
           CloseWith(c, result), pc[c] # "ack" \/ result = "failed", Spoke(c),
           stored' \in Pairing \cup {NoPairing}, PairingEarned',
           DOMAIN outcome' = Client,
           \A d \in Client \ {c} : outcome'[d] = outcome[d],
           outcome'[c] # {} => result = "done",
           \A a \in outcome'[c] : a.client = c /\ a.from = remote[c] /\ a.body = "result",
           UNCHANGED <<taskVars, remote, retried, asked, prompted>>
    PROVE  Inv'
<1>1. /\ pc' \in [Client -> {"idle", "ack", "connect", "pubkey", "sign", "done", "failed"}]
      /\ pc'[c] = result /\ \A d \in Client \ {c} : pc'[d] = pc[d]
      /\ timer' \in [Client -> BOOLEAN]
      /\ sock' \in [Client -> [Relay -> {"closed", "connecting", "open"}]]
      /\ queue' \in [Client -> [Relay -> SUBSET Request]]
      /\ \A d \in Client, r \in Relay : queue'[d][r] \subseteq queue[d][r]
      /\ TimersArmed' /\ SocketsInUse' /\ Delivered'
  BY CloseTypes DEF Inv
<1>2. Types'
  BY <1>1 DEF Inv, Types, Spoke, taskVars
<1>3. Onward
  BY <1>1 DEF Onward
<1>4. RequestsOwned'
  <2>1. \A p \in asked : p \in Request /\ Owned(p)
    BY DEF Inv, RequestsOwned, Types
  <2>2. \A d \in Client, r \in Relay : \A p \in queue[d][r] : p \in Request /\ Owned(p)
    BY DEF Inv, RequestsOwned, Types
  <2> QED
    BY <1>1, <1>3, <2>1, <2>2, OwnedStays DEF RequestsOwned
<1>5. Trusts'
  <2> DEFINE Trusting(d) ==
               /\ pc[d] \in {"connect", "pubkey", "sign", "done"} => remote[d] \in Signer
               /\ pc[d] \in {"idle", "ack"} => ~legacy[d]
               /\ legacy[d] => remote[d] \in Signer /\ "nip04" \in Writes[remote[d]]
               /\ outcome[d] # {} => pc[d] = "done"
  <2>1. \A d \in Client : Trusting(d)
    BY DEF Inv, Trusts
  <2>2. \A d \in Client \ {c} : Trusting(d)'
    BY <1>1, <2>1 DEF Spoke
  <2>3. Trusting(c)'
    BY <1>1, <2>1 DEF Spoke, Waiting
  <2> QED
    BY <2>2, <2>3 DEF Trusts
<1>6. OwnAnswers'
  BY DEF Inv, OwnAnswers
<1> QED
  BY <1>1, <1>2, <1>4, <1>5, <1>6 DEF Inv

LEMMA SettlesFacts ==
    ASSUME Inv, NEW m \in wire, Settles(m)
    PROVE  /\ m.to \in Client /\ Waiting(m.to) /\ pc[m.to] # "ack"
           /\ remote[m.to] \in Signer /\ Authentic(m) /\ m.answer.body # "blob"
           /\ m.answer.client = m.to /\ m.answer.from = remote[m.to]
           /\ m.answer.dialect \in Writes[remote[m.to]]
           /\ outcome[m.to] = {}
<1>1. m.to \in Client /\ Waiting(m.to) /\ outcome[m.to] = {}
  BY WireFacts DEF Inv, Trusts, Waiting
<1> QED
  BY <1>1, WireFacts DEF Settles, Authentic, IsPending

LEMMA TakePubkeyInv ==
    ASSUME Inv, NEW m \in wire, TakePubkey(m)
    PROVE  Inv'
<1> DEFINE c == m.to
           spoken == m.answer.dialect = "nip04"
<1>1. Settles(m) /\ m.answer.body = "result"
      /\ UNCHANGED <<taskVars, remote, retried, asked, prompted>>
  BY DEF TakePubkey, signerVars
<1>2. /\ c \in Client /\ Waiting(c) /\ pc[c] # "ack" /\ outcome[c] = {} /\ Authentic(m)
      /\ m.answer.body # "blob" /\ m.answer.client = c /\ m.answer.from = remote[c]
      /\ remote[c] \in Signer /\ m.answer.dialect \in Writes[remote[c]]
  BY <1>1, SettlesFacts
<1>3. Spoke(c)
  BY <1>2, SpokeTaken DEF TakePubkey
<1>4. CASE stored' = Paired(c, spoken) /\ outcome' = [outcome EXCEPT ![c] = {m.answer}]
           /\ CloseWith(c, "done")
  <2>1. Paired(c, spoken) \in Pairing
    BY <1>2 DEF Paired, Pairing, Inv, Types
  <2>2. stored'.legacy => "nip04" \in Writes[stored'.signer]
    BY <1>2, <1>4 DEF Paired
  <2>3. /\ DOMAIN outcome' = Client /\ outcome'[c] = {m.answer}
        /\ \A d \in Client \ {c} : outcome'[d] = outcome[d]
    BY <1>2, <1>4 DEF Inv, Types
  <2>4. stored' \in Pairing \cup {NoPairing} /\ PairingEarned'
    BY <1>4, <2>1, <2>2 DEF PairingEarned
  <2>5. CloseWith(c, "done")
    BY <1>4
  <2>6. \A a \in outcome'[c] : a.client = c /\ a.from = remote[c] /\ a.body = "result"
    BY <1>1, <1>2, <2>3
  <2> HIDE DEF c, spoken
  <2> QED
    BY <1>1, <1>2, <1>3, <2>3, <2>4, <2>5, <2>6, EndInv
<1>5. CASE CloseWith(c, "failed") /\ UNCHANGED <<stored, outcome>>
  <2>1. /\ stored' \in Pairing \cup {NoPairing} /\ PairingEarned'
        /\ DOMAIN outcome' = Client /\ outcome'[c] = {}
        /\ \A d \in Client \ {c} : outcome'[d] = outcome[d]
    BY <1>2, <1>5 DEF Inv, Types, PairingEarned
  <2>2. CloseWith(c, "failed")
    BY <1>5
  <2> HIDE DEF c, spoken
  <2> QED
    BY <1>1, <1>2, <1>3, <2>1, <2>2, EndInv
<1> QED
  BY <1>4, <1>5 DEF TakePubkey

LEMMA TakeSignatureInv ==
    ASSUME Inv, NEW m \in wire, TakeSignature(m)
    PROVE  Inv'
<1> DEFINE c == m.to
<1>1. Settles(m) /\ m.answer.body = "result" /\ CloseWith(c, "done")
      /\ outcome' = [outcome EXCEPT ![c] = {m.answer}]
      /\ UNCHANGED <<taskVars, remote, retried, asked, prompted, stored>>
  BY DEF TakeSignature, Accepted, signerVars
<1>2. /\ c \in Client /\ Waiting(c) /\ pc[c] # "ack" /\ Authentic(m)
      /\ m.answer.body # "blob" /\ m.answer.client = c /\ m.answer.from = remote[c]
  BY <1>1, SettlesFacts
<1>3. Spoke(c)
  BY <1>2, SpokeTaken DEF TakeSignature
<1>4. /\ DOMAIN outcome' = Client /\ outcome'[c] = {m.answer}
      /\ \A d \in Client \ {c} : outcome'[d] = outcome[d]
      /\ stored' \in Pairing \cup {NoPairing} /\ PairingEarned'
  BY <1>1, <1>2 DEF Inv, Types, PairingEarned
<1>5. \A a \in outcome'[c] : a.client = c /\ a.from = remote[c] /\ a.body = "result"
  BY <1>1, <1>2, <1>4
<1> HIDE DEF c
<1> QED
  BY <1>1, <1>2, <1>3, <1>4, <1>5, EndInv

\* A call ends without an answer.
LEMMA FailInv ==
    ASSUME Inv, NEW c \in Client, Waiting(c), CloseWith(c, "failed"), Spoke(c),
           UNCHANGED <<taskVars, remote, retried, outcome, asked, prompted, stored>>
    PROVE  Inv'
<1>1. /\ DOMAIN outcome' = Client /\ outcome'[c] = {}
      /\ \A d \in Client \ {c} : outcome'[d] = outcome[d]
      /\ stored' \in Pairing \cup {NoPairing} /\ PairingEarned'
  BY DEF Inv, Types, PairingEarned, Trusts, Waiting
<1> QED
  BY <1>1, EndInv

LEMMA TakeRefusalInv ==
    ASSUME Inv, NEW m \in wire, TakeRefusal(m)
    PROVE  Inv'
<1>1. Settles(m) /\ CloseWith(m.to, "failed")
      /\ UNCHANGED <<taskVars, remote, retried, outcome, asked, prompted, stored>>
  BY DEF TakeRefusal, signerVars
<1>2. /\ m.to \in Client /\ Waiting(m.to) /\ pc[m.to] # "ack" /\ Authentic(m)
      /\ m.answer.body # "blob"
  BY <1>1, SettlesFacts
<1>3. Spoke(m.to)
  BY <1>2, SpokeTaken DEF TakeRefusal
<1> QED
  BY <1>1, <1>2, <1>3, FailInv

LEMMA TimeoutInv ==
    ASSUME Inv, NEW c \in Client, Timeout(c)
    PROVE  Inv'
BY SpokeSame, FailInv DEF Timeout, signerVars

-----------------------------------------------------------------------------
(***************************************************************************)
(* The theorems.                                                           *)
(***************************************************************************)
LEMMA InitInv == Init => Inv
<1> SUFFICES ASSUME Init PROVE Inv
  OBVIOUS
<1>0. \/ stored = NoPairing
      \/ stored \in Pairing /\ (stored.legacy => "nip04" \in Writes[stored.signer])
  BY DEF Init, DialectOf
<1>1. Types
  <2>1. stored \in Pairing \cup {NoPairing}
    BY <1>0
  <2>2. task \in [Client -> Task]
    BY SignerAssumption DEF Init
  <2>3. /\ sock \in [Client -> [Relay -> {"closed", "connecting", "open"}]]
        /\ queue \in [Client -> [Relay -> SUBSET Request]]
    BY DEF Init
  <2> QED
    BY <2>1, <2>2, <2>3 DEF Init, Types
<1>2. TimersArmed /\ SocketsInUse
  BY DEF Init, TimersArmed, SocketsInUse, Waiting
<1>3. Delivered /\ RequestsOwned
  BY DEF Init, Delivered, RequestsOwned
<1>4. Trusts /\ OwnAnswers
  BY DEF Init, Trusts, OwnAnswers
<1>5. PairingEarned
  BY <1>0 DEF PairingEarned
<1> QED
  BY <1>1, <1>2, <1>3, <1>4, <1>5 DEF Inv

LEMMA NextInv == Inv /\ [Next]_vars => Inv'
<1> SUFFICES ASSUME Inv, [Next]_vars PROVE Inv'
  OBVIOUS
<1>1. CASE UNCHANGED vars
  <2>1. UNCHANGED <<taskVars, callVars, socketVars, asked, prompted, wire, said, stored>>
    BY <1>1 DEF vars, signerVars
  <2>2. Types' /\ TimersArmed' /\ SocketsInUse'
    BY <2>1 DEF Inv, Types, TimersArmed, SocketsInUse, Waiting, taskVars, callVars, socketVars
  <2>3. Delivered' /\ RequestsOwned'
    BY <2>1 DEF Inv, Delivered, Genuine, Waiting, RequestsOwned, Owned, callVars, socketVars
  <2>4. Trusts' /\ PairingEarned' /\ OwnAnswers'
    BY <2>1 DEF Inv, Trusts, PairingEarned, OwnAnswers, callVars
  <2> QED
    BY <2>2, <2>3, <2>4 DEF Inv
<1>2. ASSUME NEW c \in Client, Begin(c) \/ Timeout(c) \/ SignerAcks(c)
      PROVE  Inv'
  BY <1>2, ConfigureBunkerInv, ConfigureNostrconnectInv, SignEventInv, TimeoutInv,
     SignerAcksInv DEF Begin
<1>3. ASSUME NEW c \in Client, NEW r \in Relay,
             SocketOpens(c, r) \/ SocketDies(c, r) \/ RelayNoise(c, r)
      PROVE  Inv'
  BY <1>3, SocketOpensInv, SocketDiesInv, RelayNoiseInv
<1>4. ASSUME NEW q \in asked, SignerAnswers(q) \/ SignerPrompts(q)
      PROVE  Inv'
  BY <1>4, SignerAnswersInv, SignerPromptsInv
<1>5. ASSUME NEW m \in wire, Take(m)
      PROVE  Inv'
  BY <1>5, TakeAckInv, TakeStrayInv, TakeBlobInv, TakeAuthUrlInv, TakeConnectedInv,
     TakePubkeyInv, TakeSignatureInv, TakeRefusalInv DEF Take
<1> QED
  BY <1>1, <1>2, <1>3, <1>4, <1>5 DEF Next

\* The invariant holds in every state the remote-signer client reaches.
THEOREM Invariant == Spec => []Inv
BY InitInv, NextInv, PTL DEF Spec

\* The state of the remote-signer client has its types, and a session that has
\* ended holds no socket, no queued frame and no timer (transport close).
THEOREM ClientTypes == Spec => []TypeOK
BY Invariant, InvImplies, PTL

\* What configure or signEvent returns is the trusted signer's answer to that
\* very call, whatever the relays deliver late, twice, out of order or to the
\* other sessions of the pairing (verifyEnvelope and the pending table).
THEOREM ReturnsOwnAnswer == Spec => []OwnAnswers
BY Invariant, InvImplies, PTL

\* A session and a stored pairing speak NIP-04 only with a signer that answers in
\* it; whatever a relay makes up or plays again brings about one connect repeated in
\* NIP-04, and no more (retryConnectWithNip04, decryptContent, persistPairing).
THEOREM DowngradesAreEarned == Spec => []DowngradeEarned
BY Invariant, InvImplies, PTL
=============================================================================
