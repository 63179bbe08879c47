----------------------------- MODULE PeerAdmin -----------------------------
(***************************************************************************)
(* The handlers of the web panel that read or change the router            *)
(* (api/server.go, router/peers.go, router/iface.go).  Each is a short     *)
(* program of calls to the Dialer; between two calls of one handler, calls *)
(* of others get in.  A job is one such request: its kind and what came in *)
(* its body.  A caller has one job, so its commands can be told apart.     *)
(***************************************************************************)
EXTENDS Dialer

VARIABLES
  job,      \* caller -> what it was asked for, None before that
  answer    \* caller -> [code, rows], code None while it is working

adminVars == <<dialerVars, job, answer>>

Job(kind, id, val, key) == [kind |-> kind, id |-> id, val |-> val, key |-> key]
Nothing == [code |-> None, rows |-> <<>>]

AdminInit ==
  /\ DialerInit
  /\ job = [c \in Caller |-> None]
  /\ answer = [c \in Caller |-> Nothing]

\* Mutant of NormalizeIfaceAddress: an address without a mask is left alone.
NormalizeIfaceAddressBare(a) ==
  IF a = None \/ a.six \/ a.mask # 32 THEN a ELSE [a EXCEPT !.mask = 24]

\* normalizeIfaceAddress: the host mask of wg-quick, or none (0), becomes /24;
\* other masks and IPv6 stay.
NormalizeIfaceAddress(a) ==
  IF a = None \/ a.six \/ a.mask \notin {0, 32} THEN a ELSE [a EXCEPT !.mask = 24]

ASSUME AddrsAssumption ==
  /\ None \notin Addrs /\ None \notin {"ok", "err"}
  /\ \A a \in Addrs : /\ a = [host |-> a.host, mask |-> a.mask, six |-> a.six] /\ a.six \in BOOLEAN
                      /\ NormalizeIfaceAddress(a) \in Addrs

\* body: all text fields, empty ones too, but no empty numeric field, which
\* RouterOS would refuse.
Body(p) == IF p.num = None THEN [text |-> p.text] ELSE p

-----------------------------------------------------------------------------
(* The handlers as programs: what follows when the call of m returned rows. *)

Give(code, rows) == [do |-> "answer", code |-> code, rows |-> rows, cmd |-> None]
Issue(m) == [do |-> "call", code |-> None, rows |-> <<>>, cmd |-> m]

First(j) ==
  CASE j.kind = "peers"      -> PrintOf("peer")
    [] j.kind = "addresses"  -> PrintOf("addr")
    [] j.kind = "interfaces" -> PrintOf("iface")
    [] j.kind = "import"     -> PrintOf("iface")
    [] j.kind = "add"        -> Command("add", "peer", 0, Body(j.val))
    [] j.kind = "update"     -> Command("set", "peer", j.id, Body(j.val))
    [] j.kind = "delete"     -> Command("remove", "peer", j.id, None)

\* The requests the handlers let through: their first command can be built.
Kinds == {"peers", "addresses", "interfaces", "import", "add", "update", "delete"}
Fits(j) ==
  /\ j # None /\ j = Job(j.kind, j.id, j.val, j.key) /\ j.kind \in Kinds
  /\ First(j) \in Cmd
  /\ j.kind = "import" => j.val \in Addrs \union {None} /\ j.key \in Keys \union {None}

Active(rows) == SelectSeq(rows, LAMBDA r : ~r.off)
FirstOf(rows) == IF rows = <<>> THEN <<>> ELSE <<Head(rows)>>

\* Mutant of SetInterface: the address first, then the key.
SetInterfaceBackwards(j, m, rows) ==
  LET a == NormalizeIfaceAddress(j.val)
      key == IF j.key = None THEN Give("ok", <<>>) ELSE Issue(Command("set", "iface", 0, j.key))
  IN CASE m = PrintOf("iface") -> IF rows = <<>> THEN Give("err", <<>>)
                                  ELSE IF a = None THEN key ELSE Issue(PrintOf("addr"))
       [] m = PrintOf("addr") -> Issue(IF rows = <<>> THEN Command("add", "addr", 0, a)
                                       ELSE Command("set", "addr", rows[1].id, a))
       [] m.op # "print" /\ m.tbl = "addr" -> key
       [] m.op # "print" /\ m.tbl = "iface" -> Give("ok", <<>>)

\* SetInterface: find the interface, set its key, then add its address or put
\* it in the place of the first one.  An empty part is left out.
SetInterface(j, m, rows) ==
  LET a == NormalizeIfaceAddress(j.val)
      address == IF a = None THEN Give("ok", <<>>) ELSE Issue(PrintOf("addr"))
  IN CASE m = PrintOf("iface") -> IF rows = <<>> THEN Give("err", <<>>)
                                  ELSE IF j.key = None THEN address
                                  ELSE Issue(Command("set", "iface", 0, j.key))
       [] m.op # "print" /\ m.tbl = "iface" -> address
       [] m = PrintOf("addr") -> Issue(IF rows = <<>> THEN Command("add", "addr", 0, a)
                                       ELSE Command("set", "addr", rows[1].id, a))
       [] m.op # "print" /\ m.tbl = "addr" -> Give("ok", <<>>)

\* ListInterfaces: the addresses are optional; the first active one is shown.
\* ListAddresses: active rows.  Add: without a row in the reply there is no id.
Following(j, m, rows) ==
  CASE j.kind = "import" -> SetInterface(j, m, rows)
    [] j.kind = "interfaces" /\ m = PrintOf("iface") -> Issue(PrintOf("addr"))
    [] j.kind = "interfaces" /\ m = PrintOf("addr") -> Give("ok", FirstOf(Active(rows)))
    [] j.kind = "addresses" -> Give("ok", Active(rows))
    [] j.kind = "add" -> Give(IF rows = <<>> THEN "err" ELSE "ok", <<>>)
    [] j.kind \in {"peers", "update", "delete"} -> Give("ok", rows)

\* What follows an error: only the addresses of ListInterfaces may be missing.
FollowingError(j, m) ==
  IF j.kind = "interfaces" /\ m = PrintOf("addr") THEN Give("ok", <<>>) ELSE Give("err", <<>>)

-----------------------------------------------------------------------------

Perform(c, s) ==
  /\ call' = [call EXCEPT ![c] = IF s.do = "call" THEN Calling(s.cmd) ELSE NoCall]
  /\ answer' = [answer EXCEPT ![c] = [code |-> s.code, rows |-> s.rows]]
  /\ did' = [did EXCEPT ![c] = {d \in @ : Changing(d)}]
  /\ UNCHANGED <<table, mu, conn, wire, replies, late, sockets>>

\* routerClient and the first call; without an address every call is an error.
Start(c, j, configured) ==
  /\ job[c] = None
  /\ job' = [job EXCEPT ![c] = j]
  /\ Perform(c, IF configured THEN Issue(First(j)) ELSE Give("err", <<>>))

\* A call has returned.
Resume(c) ==
  /\ call[c].pc \in {"ok", "err"}
  /\ Perform(c, IF call[c].pc = "ok" THEN Following(job[c], call[c].cmd, call[c].rows)
                ELSE FollowingError(job[c], call[c].cmd))
  /\ UNCHANGED job

Working(c) == job[c] # None /\ answer[c].code = None

AdminStep(c) == Resume(c) \/ (CallStep(c) /\ UNCHANGED <<job, answer>>)
RouterMoves == RouterStep /\ UNCHANGED <<job, answer>>

-----------------------------------------------------------------------------

Accepted(c, m) == \E d \in did[c] : d.cmd = m
AddressSet(c, a) == \E d \in did[c] : d.cmd.tbl = "addr" /\ d.cmd.op # "print" /\ d.cmd.val = a

\* "added", "updated", "deleted" and "applied" (server.go:354-478) are only said
\* when the router accepted every change the request asked for, while it was
\* under way; an address is never one with a host mask or none, which would
\* leave the neighbours without a route (iface.go:9-25); a peer that was
\* deleted is gone for good, whatever is executed late.
AnswerTruthful ==
  \A c \in Caller : answer[c].code = "ok" =>
    LET j == job[c] IN
      /\ j.kind \in {"add", "update", "delete"} => Accepted(c, First(j))
      /\ j.kind = "delete" => ~Has(table.peer, j.id)
      /\ j.kind = "import" =>
           /\ j.key # None => Accepted(c, Command("set", "iface", 0, j.key))
           /\ j.val # None => \E a \in Addrs : /\ AddressSet(c, a) /\ a.host = j.val.host
                                               /\ a.six \/ a.mask \notin {0, 32}

\* SetInterface stops at the first error (iface.go:47-79): the router does not
\* get an imported address whose key it has not accepted, not even late.
ImportInOrder ==
  \A w \in wire \union late :
    w.cmd.tbl = "addr" /\ w.cmd.op # "print" /\ job[w.by].key # None
      => Accepted(w.by, Command("set", "iface", 0, job[w.by].key))

\* Every request that is let through is answered, whatever the router does:
\* deadlines end each attempt and the mutex is given back (client.go:57-113).
RequestsAnswered == \A c \in Caller : Working(c) ~> ~Working(c)
=============================================================================
