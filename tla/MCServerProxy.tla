--------------------------- MODULE MCServerProxy ---------------------------
(* Clients of the server-mode proxy: who sends from where, under which key. *)
EXTENDS ServerProxy, FiniteSets, TLC
CONSTANTS a1, a2, i0, i1, i2, k1, k2
\* Two clients take turns on one address.
SharedUses == {<<a1, i1>>, <<a1, i2>>}
SharedAuthor == (i0 :> k1) @@ (i1 :> k1) @@ (i2 :> k2)
\* One client with one handshake.
OneUse == {<<a1, i1>>}
OneAuthor == (i0 :> k1) @@ (i1 :> k1)
\* Session identities are interchangeable.
SidSymmetry == Permutations(Sid)
=============================================================================
