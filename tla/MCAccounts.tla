----------------------------- MODULE MCAccounts -----------------------------
\* Two requests at a time: logins, publishes of one signed-in author, claims of
\* two signed-in keys, or visits to an npub page.
EXTENDS Accounts, TLC

CONSTANTS k1, k2, t1

MCMixes == {{"challenge", "login", "logout"}, {"publish", "logout"}, {"claim"}, {"visit"}}

MCVisitor == [t \in Token |-> IF t = t1 THEN k1 ELSE k2]

Symmetry == Permutations(Req) \cup Permutations(Nonce) \cup Permutations(Slot)
              \cup Permutations(Handle)
=============================================================================
