--------------------------- MODULE MCNip46Client ----------------------------
\* A signer that reads and writes NIP-44, and one that knows only NIP-04.
EXTENDS Nip46Client, TLC

CONSTANTS modern, old, c1, c2

MCReads == [s \in Signer |-> IF s = modern THEN {"nip44"} ELSE {"nip04"}]
MCWrites == MCReads

\* A pairing beside a signature, or two signatures with the stored pairing.
\* A session takes its signer from the pairing.
Session == [how |-> "sign", signer |-> modern]
MCTasks == {[c \in Client |-> IF c = c1 THEN t ELSE Session] :
              t \in [how : {"bunker", "nostrconnect"}, signer : Signer] \cup {Session}}
=============================================================================
