----------------------------- MODULE RouterCall ----------------------------
(***************************************************************************)
(* What a call of the router's API promises, with connections left out.    *)
(* A command is executed at most twice.  A call that returns with success  *)
(* was executed and accepted while it was under way, and its answer is     *)
(* that of one such execution.  A call that returns with an error promises *)
(* nothing: the command may have been executed or not, and up to two       *)
(* executions may still follow the return of the call.                     *)
(***************************************************************************)
EXTENDS Naturals

CONSTANTS
  Caller,         \* goroutines that call
  Cmd,            \* commands
  Effect(_, _),   \* command, tables -> set of outcomes [ok, tbl, row]
  InitTables,     \* tables the router may have at first
  None

VARIABLES
  table,     \* the router's tables
  call,      \* caller -> where its call stands ("idle", "called", "ok", "err"),
             \* the command and the answer
  seen,      \* caller -> answers of executions accepted during its call
  due        \* attempts the router may still execute

callVars == <<table, call, seen, due>>

Attempt(c, m, n) == [by |-> c, cmd |-> m, try |-> n]

Init ==
  /\ table \in InitTables
  /\ call = [c \in Caller |-> [st |-> "idle", cmd |-> None, row |-> <<>>]]
  /\ seen = [c \in Caller |-> {}]
  /\ due = {}

\* A caller that is free picks a command.
Begin(c) ==
  /\ call[c].st # "called" /\ call'[c].st = "called"
  /\ call'[c].cmd \in Cmd /\ call'[c].row = <<>>
  /\ call' = [call EXCEPT ![c] = call'[c]]
  /\ seen' = [seen EXCEPT ![c] = {}]
  /\ due' = due \union {Attempt(c, call'[c].cmd, n) : n \in 1 .. 2}
  /\ UNCHANGED table

\* The router executes an attempt; a refused one changes nothing.
Execute(a, o) ==
  /\ due' = due \ {a}
  /\ table' = o.tbl
  /\ seen' = IF o.ok /\ call[a.by].st = "called" /\ call[a.by].cmd = a.cmd
             THEN [seen EXCEPT ![a.by] = @ \union {o.row}] ELSE seen
  /\ UNCHANGED call

\* An attempt comes to nothing.
Lose(a) ==
  /\ due' = due \ {a}
  /\ UNCHANGED <<table, call, seen>>

\* The call returns; attempts not made by then may be given up.
Return(c, ok, row) ==
  /\ call[c].st = "called"
  /\ call' = [call EXCEPT ![c] = [st |-> IF ok THEN "ok" ELSE "err", cmd |-> @.cmd, row |-> row]]
  /\ seen' = [seen EXCEPT ![c] = {}]
  /\ due' \subseteq due /\ \A a \in due \ due' : a.by = c /\ a.cmd = call[c].cmd
  /\ UNCHANGED table

\* The caller turns to something else.
Leave(c) ==
  /\ call[c].st \in {"ok", "err"}
  /\ call' = [call EXCEPT ![c] = [st |-> "idle", cmd |-> None, row |-> <<>>]]
  /\ UNCHANGED <<table, seen, due>>

Next ==
  \/ \E a \in due \ due' : Lose(a) \/ \E o \in Effect(a.cmd, table) : Execute(a, o)
  \/ \E c \in Caller :
       \/ Begin(c)
       \/ Return(c, FALSE, <<>>) \/ \E row \in seen[c] : Return(c, TRUE, row)
       \/ Leave(c)

Spec == Init /\ [][Next]_callVars
=============================================================================
