----------------------------- MODULE MCSessions ----------------------------
(* The session table with two clients.  a1 rekeys (i1, i2); a2 may collide  *)
(* with a1's second index, and may send an initiation whose sender index is *)
(* 0, the index of sessions for which no initiation was seen.               *)
EXTENDS Sessions, FiniteSets, TLC

CONSTANTS a1, a2, i0, i1, i2

MCUses == {<<a1, i1>>, <<a1, i2>>, <<a2, i2>>, <<a2, i0>>}

\* Session identities are interchangeable.
SidSymmetry == Permutations(Sid)
=============================================================================
