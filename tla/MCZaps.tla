------------------------------- MODULE MCZaps -------------------------------
\* Two receipts for a post in successive seconds, one forged with the
\* wallet's key and dated ahead of the clock at first, and one that does not parse.
EXTENDS Zaps, TLC

CONSTANTS early, late, forged, junk

Times == [r \in Receipt |-> IF r = early THEN 1 ELSE 2]
Posts == [r \in Receipt |-> CHOOSE p \in Post : TRUE]
Keys  == [r \in Receipt |-> 1]
Msats == [r \in Receipt |-> IF r = late THEN 2 ELSE 3]
=============================================================================
