--------------------------- MODULE MCClientDivert --------------------------
EXTENDS ClientDivert
CONSTANTS v4, v6, x4, y4, x6, mine, others, hook, cleaner
\* Every actor of this instance marks its rules with the same comment.
MCMark == [p \in Proc |-> mine]
MCFamOf == [u \in Value |-> IF u = x6 THEN v6 ELSE v4]
=============================================================================
