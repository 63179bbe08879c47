---------------------------- MODULE RouterTables ---------------------------
(***************************************************************************)
(* The tables of RouterOS the web panel changes, as the code uses them:    *)
(* the key of the configured WireGuard interface (None if there is no such *)
(* interface), its rows of /ip/address in the router's order and its       *)
(* peers.  A row may be off (disabled).  Identifiers are never given out   *)
(* twice.                                                                  *)
(***************************************************************************)
EXTENDS Naturals, Sequences, SequencesExt

CONSTANTS
  Keys,       \* private keys
  Addrs,      \* addresses with a mask: [host, mask, six]
  Bodies,     \* fields of a peer in a command: text and, unless it was empty, num
  MaxId,      \* bound: identifiers
  None

ASSUME IdsAssumption == MaxId \in Nat

Ids == 1 .. MaxId

\* A command: print, add, set or remove on one of the three tables.
Command(op, tbl, id, val) == [op |-> op, tbl |-> tbl, id |-> id, val |-> val]
PrintOf(tbl) == Command("print", tbl, 0, None)
Cmd ==
  {PrintOf(t) : t \in {"iface", "addr", "peer"}}
  \union {Command("set", "iface", 0, k) : k \in Keys}
  \union {Command("add", "addr", 0, a) : a \in Addrs}
  \union {Command("set", "addr", i, a) : i \in Ids, a \in Addrs}
  \union {Command("add", "peer", 0, v) : v \in Bodies}
  \union {Command("set", "peer", i, v) : i \in Ids, v \in Bodies}
  \union {Command("remove", "peer", i, None) : i \in Ids}

\* A row; the fields a command leaves out have, or keep, another value.
Row(id, val, off) == [id |-> id, val |-> val, off |-> off]
NewRow(t) == IF t = "peer" THEN [num |-> 0] ELSE <<>>

Refused(T) == [ok |-> FALSE, tbl |-> T, row |-> <<>>]
Changed(T, row) == [ok |-> TRUE, tbl |-> T, row |-> row]
Rows(T, t) ==
  IF t # "iface" THEN T[t] ELSE IF T.key = None THEN <<>> ELSE <<T.key>>
Places(s, i) == {k \in DOMAIN s : s[k].id = i}
Has(s, i) == Places(s, i) # {}
Edited(s, i, v) ==
  [k \in DOMAIN s |-> IF s[k].id = i THEN [s[k] EXCEPT !.val = v @@ @] ELSE s[k]]

\* The tables as RouterOS keeps them: an identifier names one row.
WellFormed(T) ==
  /\ T = [key |-> T.key, addr |-> T.addr, peer |-> T.peer, next |-> T.next]
  /\ T.next \in 1 .. MaxId + 1
  /\ \A t \in {"addr", "peer"} :
       /\ T[t] = [k \in 1 .. Len(T[t]) |-> T[t][k]] /\ Len(T[t]) \in Nat
       /\ \A k \in DOMAIN T[t] : /\ T[t][k] = Row(T[t][k].id, T[t][k].val, T[t][k].off)
                               /\ T[t][k].id \in 1 .. T.next - 1
       /\ \A k, l \in DOMAIN T[t] : T[t][k].id = T[t][l].id => k = l

\* What may become of a command.  The router may refuse a value, for instance
\* one another row has; it refuses a row it does not have.
Effect(m, T) ==
  CASE m.op = "print" -> {[ok |-> TRUE, tbl |-> T, row |-> Rows(T, m.tbl)]}
    [] m.op = "add" ->
         {Refused(T)} \union
         IF T.next \in Ids
         THEN {Changed([T EXCEPT !.next = @ + 1, ![m.tbl] = Append(@, Row(T.next, m.val @@ NewRow(m.tbl), FALSE))],
                       <<T.next>>)}
         ELSE {}
    [] m.op = "set" /\ m.tbl = "iface" ->
         {Refused(T)} \union
         IF T.key # None THEN {Changed([T EXCEPT !.key = m.val], <<>>)} ELSE {}
    [] m.op = "set" /\ m.tbl # "iface" ->
         {Refused(T)} \union
         IF Has(T[m.tbl], m.id)
         THEN {Changed([T EXCEPT ![m.tbl] = Edited(@, m.id, m.val)], <<>>)}
         ELSE {}
    [] m.op = "remove" ->
         IF Has(T[m.tbl], m.id)
         THEN {Changed([T EXCEPT ![m.tbl] = RemoveAt(@, k)], <<>>) : k \in Places(T[m.tbl], m.id)}
         ELSE {Refused(T)}
=============================================================================
