--------------------------- MODULE ReplyRouting ----------------------------
(***************************************************************************)
(* What the session table of the server-side proxy promises, with the     *)
(* table itself left out.  The WG server addresses its replies by the     *)
(* sender index a client chose in its handshake initiation; the proxy has *)
(* to turn that index back into the client's UDP address.                 *)
(*                                                                         *)
(* The promise: an index a client registered is routed to that client for *)
(* as long as the client keeps sending something at least once per TTL,   *)
(* through any number of later handshakes of the same client.  Of every   *)
(* other index the promise says only that it is routed to the address     *)
(* that registered it last or not at all.                                 *)
(***************************************************************************)
EXTENDS Naturals

CONSTANTS
  Addr,      \* UDP addresses of clients
  Index,     \* WireGuard session indices
  Zero,      \* the index 0, which no client chooses
  Uses,      \* the pairs <<a, i>> such that the client at a may choose i
  TTL,       \* session_ttl_sec, in ticks
  Nil

VARIABLES
  route,     \* index -> address the replies to that index are sent to
  live,      \* address -> indices it registered since it was last silent
  quiet      \* address -> ticks since its last packet, at most TTL + 1

vars == <<route, live, quiet>>

\* An index no other client can be using: 32 random bits make this the rule
\* for real clients; two clients on one index are not promised anything.
Private(i) ==
  /\ i # Zero
  /\ \A a, b \in Addr : <<a, i>> \in Uses /\ <<b, i>> \in Uses => a = b

Older(n) == IF n > TTL THEN n ELSE n + 1

Init ==
  /\ route = [i \in Index |-> Nil]
  /\ live  = [a \in Addr |-> {}]
  /\ quiet = [a \in Addr |-> TTL + 1]

\* A client starts a handshake under index i: replies to i are its own.
Register(a, i) ==
  /\ <<a, i>> \in Uses
  /\ route' = [route EXCEPT ![i] = a]
  /\ live'  = [live EXCEPT ![a] = @ \union {i}]
  /\ quiet' = [quiet EXCEPT ![a] = 0]

\* A client sends anything else that proves it is still there.
Traffic(a) ==
  /\ quiet' = [quiet EXCEPT ![a] = 0]
  /\ UNCHANGED <<route, live>>

\* Time passes; a client silent for more than TTL loses its claims.
Elapse ==
  /\ quiet' = [a \in Addr |-> Older(quiet[a])]
  /\ live'  = [a \in Addr |-> IF quiet'[a] > TTL THEN {} ELSE live[a]]
  /\ UNCHANGED route

\* Routes may be dropped at any time, those of active clients excepted.
Forget(F) ==
  /\ \A a \in Addr : \A i \in live[a] \intersect F : ~Private(i)
  /\ route' = [i \in Index |-> IF i \in F THEN Nil ELSE route[i]]
  /\ UNCHANGED <<live, quiet>>

Next ==
  \/ \E a \in Addr, i \in Index : Register(a, i)
  \/ \E a \in Addr : Traffic(a)
  \/ Elapse
  \/ \E F \in SUBSET Index : Forget(F)

Spec == Init /\ [][Next]_vars
=============================================================================
