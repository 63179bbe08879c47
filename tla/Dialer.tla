------------------------------- MODULE Dialer ------------------------------
(***************************************************************************)
(* The one connection to the router that all goroutines with the same      *)
(* credentials share (internal/router/binapi/client.go and conn.go, found  *)
(* through the cache in router/api.go).  A call holds the mutex while it   *)
(* dials, sends a command and reads sentences up to !done.  After any      *)
(* error, a refused command included, it drops the connection and tries    *)
(* once more on a new one.                                                 *)
(*                                                                         *)
(* The router is not told that an attempt was given up: it may still       *)
(* execute a command whose connection was dropped, at any later time.      *)
(* Only commands that change something are followed that far.              *)
(***************************************************************************)
EXTENDS RouterTables, FiniteSets

CONSTANTS
  Caller,       \* goroutines that call
  InitTables    \* what the router may hold at first

ASSUME TablesAssumption == \A T \in InitTables : WellFormed(T)

VARIABLES
  table,     \* the router's tables
  mu,        \* Dialer.mu: who holds it, at most one
  conn,      \* Dialer.conn: "none", "up", or "closed" by the router unnoticed
  wire,      \* the command sent on it and not executed, at most one
  replies,   \* sentences on their way back
  late,      \* commands on dropped connections that may still be executed
  call,      \* caller -> its call: pc, cmd, try (1 or 2), rows
  did,       \* history: caller -> [cmd, row] accepted while it was calling: all that
             \* changed something, and what its present call read
  sockets    \* history: connections opened and not closed

dialerVars == <<table, mu, conn, wire, replies, late, call, did, sockets>>

CallAt(pc, m, try, rows) == [pc |-> pc, cmd |-> m, try |-> try, rows |-> rows]
NoCall == CallAt("idle", None, 0, <<>>)
Calling(m) == CallAt("lock", m, 1, <<>>)
Sentence(reply, words) == [reply |-> reply, words |-> words]

DialerInit ==
  /\ table \in InitTables
  /\ mu = {} /\ conn = "none" /\ wire = {} /\ replies = <<>> /\ late = {}
  /\ call = [c \in Caller |-> NoCall]
  /\ did = [c \in Caller |-> {}]
  /\ sockets = 0

-----------------------------------------------------------------------------
(* Call.                                                                    *)

\* Lock, and what ensure finds.
Lock(c) ==
  /\ call[c].pc = "lock" /\ mu = {}
  /\ mu' = {c}
  /\ call' = [call EXCEPT ![c].pc = IF conn = "none" THEN "dial" ELSE "send"]
  /\ UNCHANGED <<table, conn, wire, replies, late, did, sockets>>

Changing(w) == w.cmd.op # "print"

\* drop: the connection is closed and forgotten.
Drop ==
  /\ conn' = "none"
  /\ sockets' = IF conn = "none" THEN sockets ELSE sockets - 1
  /\ late' = late \union {w \in wire : Changing(w)}
  /\ wire' = {} /\ replies' = <<>>

\* Mutant of Again: the second error leaves the mutex locked.
AgainLocked(c) ==
  /\ call' = [call EXCEPT ![c] = IF @.try = 1 THEN CallAt("dial", @.cmd, 2, <<>>)
                                 ELSE CallAt("err", @.cmd, @.try, <<>>)]
  /\ UNCHANGED mu

\* After a failed attempt: the second one, or unlock and return the error.
Again(c) ==
  /\ call' = [call EXCEPT ![c] = IF @.try = 1 THEN CallAt("dial", @.cmd, 2, <<>>)
                                 ELSE CallAt("err", @.cmd, @.try, <<>>)]
  /\ mu' = IF call[c].try = 1 THEN mu ELSE {}

\* Dial, first part: a TCP connection, or none.
Connect(c, ok) ==
  /\ call[c].pc = "dial"
  /\ IF ok THEN /\ call' = [call EXCEPT ![c].pc = "login"]
                /\ sockets' = sockets + 1
                /\ UNCHANGED mu
           ELSE Again(c) /\ UNCHANGED sockets
  /\ UNCHANGED <<table, conn, wire, replies, late, did>>

\* Mutant of Login: a connection that could not log in is left open.
LoginLeaks(c, ok) ==
  /\ call[c].pc = "login"
  /\ IF ok THEN /\ call' = [call EXCEPT ![c].pc = "send"]
                /\ conn' = "up"
                /\ UNCHANGED <<mu, sockets>>
           ELSE Again(c) /\ UNCHANGED <<conn, sockets>>
  /\ UNCHANGED <<table, wire, replies, late, did>>

\* Dial, second part: without a login the connection is closed again.
Login(c, ok) ==
  /\ call[c].pc = "login"
  /\ IF ok THEN /\ call' = [call EXCEPT ![c].pc = "send"]
                /\ conn' = "up"
                /\ UNCHANGED <<mu, sockets>>
           ELSE Again(c) /\ sockets' = sockets - 1 /\ UNCHANGED conn
  /\ UNCHANGED <<table, wire, replies, late, did>>

\* Send: a command on a connection the router has closed gets nowhere.
Send(c) ==
  /\ call[c].pc = "send"
  /\ wire' = IF conn = "up" THEN {[by |-> c, cmd |-> call[c].cmd, try |-> call[c].try]} ELSE {}
  /\ call' = [call EXCEPT ![c].pc = "recv"]
  /\ UNCHANGED <<table, mu, conn, replies, late, did, sockets>>

\* Mutant of Recv: after !trap the connection is kept for the second attempt.
RecvKeeps(c) ==
  /\ call[c].pc = "recv" /\ replies # <<>>
  /\ LET s == Head(replies)
         got == call[c].rows \o s.words
     IN CASE s.reply = "re" ->
               /\ call' = [call EXCEPT ![c].rows = got] /\ replies' = Tail(replies)
               /\ UNCHANGED <<mu, conn, wire, late, sockets>>
          [] s.reply = "done" ->
               /\ call' = [call EXCEPT ![c] = CallAt("ok", @.cmd, @.try, got)] /\ replies' = Tail(replies)
               /\ mu' = {}
               /\ UNCHANGED <<conn, wire, late, sockets>>
          [] s.reply = "trap" ->
               /\ call' = [call EXCEPT ![c].pc = IF call[c].try = 1 THEN "send" ELSE "err", ![c].try = 2]
               /\ mu' = IF call[c].try = 1 THEN mu ELSE {}
               /\ replies' = Tail(replies)
               /\ UNCHANGED <<conn, wire, late, sockets>>
  /\ UNCHANGED <<table, did>>

\* Recv: rows are collected up to !done, which may carry one itself; !trap is
\* an error like any other, and the !done behind it goes with the connection.
Recv(c) ==
  /\ call[c].pc = "recv" /\ replies # <<>>
  /\ LET s == Head(replies)
         got == call[c].rows \o s.words
     IN CASE s.reply = "re" ->
               /\ call' = [call EXCEPT ![c].rows = got] /\ replies' = Tail(replies)
               /\ UNCHANGED <<mu, conn, wire, late, sockets>>
          [] s.reply = "done" ->
               /\ call' = [call EXCEPT ![c] = CallAt("ok", @.cmd, @.try, got)] /\ replies' = Tail(replies)
               /\ mu' = {}
               /\ UNCHANGED <<conn, wire, late, sockets>>
          [] s.reply = "trap" -> Drop /\ Again(c)
  /\ UNCHANGED <<table, did>>

\* Send or Recv fails: the deadline has passed or the connection is gone.
Break(c) ==
  /\ call[c].pc \in {"send", "recv"}
  /\ Drop /\ Again(c)
  /\ UNCHANGED <<table, did>>

-----------------------------------------------------------------------------
(* The router.                                                              *)

\* What the router sends back: a row a sentence, the id of a new row with
\* !done, and !done after !trap as well.
Answer(m, o) ==
  IF ~o.ok THEN <<Sentence("trap", <<>>), Sentence("done", <<>>)>>
  ELSE IF m.op = "print"
       THEN [k \in DOMAIN o.row |-> Sentence("re", <<o.row[k]>>)] \o <<Sentence("done", <<>>)>>
       ELSE <<Sentence("done", o.row)>>

Noted(w, o) ==
  IF o.ok /\ call[w.by].pc \notin {"idle", "ok", "err"}
  THEN [did EXCEPT ![w.by] = @ \union {[cmd |-> w.cmd, row |-> o.row]}] ELSE did

\* The router executes the command it was sent.
Execute(w, o) ==
  /\ table' = o.tbl /\ did' = Noted(w, o)
  /\ wire' = {} /\ replies' = Answer(w.cmd, o)
  /\ UNCHANGED <<mu, conn, late, call, sockets>>

\* It executes one it was sent on a connection that was dropped since.
ExecuteLate(w, o) ==
  /\ table' = o.tbl /\ did' = Noted(w, o)
  /\ late' = late \ {w}
  /\ UNCHANGED <<mu, conn, wire, replies, call, sockets>>

\* It closes the connection: idle for too long, or restarted.
RouterCloses ==
  /\ conn = "up"
  /\ conn' = "closed" /\ wire' = {}
  /\ UNCHANGED <<table, mu, replies, late, call, did, sockets>>

RouterStep ==
  \/ \E w \in wire : \E o \in Effect(w.cmd, table) : Execute(w, o)
  \/ \E w \in late : \E o \in Effect(w.cmd, table) : ExecuteLate(w, o)
  \/ RouterCloses

CallStep(c) ==
  \/ Lock(c) \/ (\E ok \in BOOLEAN : Connect(c, ok) \/ Login(c, ok))
  \/ Send(c) \/ Recv(c) \/ Break(c)

-----------------------------------------------------------------------------

\* api.go:12-14: one connection for the credentials, whatever fails and whoever
\* calls; each one that is opened is the Dialer's, or closed (conn.go:41-73).
OneConnection ==
  sockets = IF conn # "none" \/ \E c \in Caller : call[c].pc = "login" THEN 1 ELSE 0

InCall(c) == call[c].pc \in {"lock", "dial", "login", "send", "recv"}

\* Attempts of c's call that were not sent yet.
Unsent(c) ==
  LET first == IF call[c].pc = "recv" THEN call[c].try + 1 ELSE call[c].try
  IN IF InCall(c) THEN {[by |-> c, cmd |-> call[c].cmd, try |-> n] : n \in first .. 2} ELSE {}

Calls == INSTANCE RouterCall WITH
  call <- [c \in Caller |->
             [st |-> IF InCall(c) THEN "called" ELSE call[c].pc,
              cmd |-> call[c].cmd,
              row |-> IF call[c].pc = "ok" THEN call[c].rows ELSE <<>>]],
  seen <- [c \in Caller |-> IF InCall(c) THEN {d.row : d \in {e \in did[c] : e.cmd = call[c].cmd}} ELSE {}],
  due <- late \union wire \union UNION {Unsent(c) : c \in Caller}

\* The dialer keeps what RouterCall promises: its Call (client.go:57-74) returns
\* without error only if the router accepted the command during the call, with
\* the answer to that command and no other, and a command is executed at most
\* twice, however attempts, deadlines and late executions interleave.
CallsKept == Calls!Spec
=============================================================================
