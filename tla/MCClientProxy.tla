--------------------------- MODULE MCClientProxy ---------------------------
(* A small instance of ClientProxy: two servers, two peers in the router's   *)
(* table, plain WireGuard headers and two obfuscations whose prefix lengths  *)
(* are ordered either way.                                                   *)
EXTENDS ClientProxy, TLC

CONSTANTS t1, t2, t3, t4, h1, h2, h3, h4, x, e1, e2, k1, k2, r1, r2, p1, p2

MCWord   == {t1, t2, t3, t4, h1, h2, h3, h4, x}
MCKey    == {k1, k2, r1, r2}
MCMacAt  == (t1 :> 3) @@ (t2 :> 2)
MCOwnKey == (e1 :> k1) @@ (e2 :> k2)
Magic    == (t1 :> h1) @@ (t2 :> h2) @@ (t3 :> h3) @@ (t4 :> h4)
Plain    == [t \in Type |-> t]
MCParams == {[h |-> Plain, s |-> (t1 :> 0) @@ (t2 :> 0)],
             [h |-> Magic, s |-> (t1 :> 1) @@ (t2 :> 2)],
             [h |-> Magic, s |-> (t1 :> 2) @@ (t2 :> 1)]}
\* One marked peer: which server and which peer is all the same.
MCStart == {[pub |-> r1, peers |-> [q \in Peer |-> [marked |-> q = p1, key |-> k1, ep |-> e1]]]}
=============================================================================
