--------------------------- MODULE MCServerDivert --------------------------
(* The server hooks after a run in client mode, which left rules of another *)
(* chain (srcnat stands for it) in both tables, the IPv6 one doubled, or    *)
(* after one with another network.                                          *)
EXTENDS ServerDivert
CONSTANTS v4, v6, old, new4, new6, mine, masked, others, dstnat, srcnat
MCMark == [p \in Proc |-> IF p \in Masq THEN masked ELSE mine]
MCTarget == [f \in Fam |-> IF f = v4 THEN new4 ELSE new6]
\* Values only differ or not: networks have no model values of their own.
MCNetOf == [a \in {"a", "b"} |-> IF a = "b" THEN old ELSE new4]
R(i, m, c, v) == [id |-> i, mark |-> m, chain |-> c, val |-> v]
Empty == [f \in Fam |-> <<>>]
AfterClient ==
  [f \in Fam |-> IF f = v4 THEN <<R(1, others, dstnat, new4), R(2, mine, srcnat, old)>>
                 ELSE <<R(3, mine, srcnat, old), R(4, others, dstnat, new6), R(5, mine, dstnat, old)>>]
AfterServer ==
  [f \in Fam |-> IF f = v4 THEN <<R(1, masked, srcnat, old), R(2, mine, dstnat, new4)>> ELSE <<>>]
Edited ==
  [f \in Fam |-> IF f = v4 THEN <<R(1, masked, dstnat, old), R(2, mine, srcnat, old), R(3, masked, srcnat, new4)>>
                 ELSE <<>>]
S(divert, has6, masq, tables, late, n) ==
  [cfg |-> [divert |-> divert, has6 |-> has6, masq |-> masq], tables |-> tables, late |-> late, fails |-> n]
MCScenarios ==
  {S(TRUE, has6, FALSE, t, {Cleanup}, 2) : has6 \in BOOLEAN, t \in {Empty, AfterClient}}
  \union {S(TRUE, FALSE, TRUE, t, {MasqCleanup}, 1) : t \in {AfterServer, Edited}}
  \union {S(FALSE, FALSE, TRUE, AfterServer, {Cleanup, MasqCleanup}, 1)}
=============================================================================
