---------------------------- MODULE ClientDivert ---------------------------
(***************************************************************************)
(* Client mode's divert (cmd/awgproxy/main.go, makeClientDivertHook): after*)
(* every successful poll of the router the hook moves one NAT rule to      *)
(* where the marked peer's endpoint is, in the table of the endpoint's     *)
(* address family, and takes it out of the other table when the family     *)
(* changed.  A cleanup goroutine of an earlier configuration               *)
(* (cleanupDivert, same marker) may still be running: reload does not wait *)
(* for it.  The operator moves the endpoint and edits the rules.           *)
(***************************************************************************)
EXTENDS NatReconciler

CONSTANTS
  Hook,       \* the actor that is the hook; the others are cleanup goroutines
  V4, V6,     \* the two tables
  FamOf,      \* endpoint -> table of its address family
  Output,     \* the chain of client mode
  MaxMoves,   \* bound: moves of the endpoint
  MaxEdits    \* bound: rules the operator changes by hand

ASSUME ClientDivertAssumption ==
  /\ Hook \in Proc
  /\ Fam = {V4, V6} /\ V4 # V6
  /\ FamOf \in [Value -> Fam] /\ Output \in Chain
  /\ \E m \in Markers : \A p \in Proc : m # Mark[p]
  /\ Value # {} /\ Nil \notin Value /\ MaxId > 1
  /\ MaxMoves \in Nat /\ MaxEdits \in Nat

VARIABLES
  has6,       \* container_addr6 is configured; fixed while the stack runs
  upstream,   \* the marked peer's endpoint, or Nil
  moves,      \* operator's moves so far
  edits,      \* rules the operator changed so far
  hpc,        \* where the hook is in its tick
  hsnap,      \* the snapshot's upstream the tick works from
  lastIs6,    \* family it last cleared the other table for, Nil if none
  left        \* cleanup goroutine -> tables it has yet to go through

hookVars == <<hpc, hsnap, lastIs6>>
operator == <<has6, upstream, moves, edits>>
vars == <<natVars, operator, hookVars, left>>

Other(f) == IF f = V4 THEN V6 ELSE V4
WantFor(u) == [chain |-> Output, val |-> u]

\* The tables an earlier run may have left: a rule of another instance, and
\* perhaps one of ours, of another mode or for another endpoint.
ForeignRule(i) == [id |-> i, mark |-> CHOOSE m \in Markers : \A p \in Proc : m # Mark[p],
                   chain |-> Output, val |-> CHOOSE v \in Value : TRUE]
OldRule(i, c, v) == [id |-> i, mark |-> Mark[Hook], chain |-> c, val |-> v]
OldTables == {[f \in Fam |-> IF f = V4 THEN <<ForeignRule(1)>> \o o ELSE <<>>] :
                o \in {<<>>} \union {<<OldRule(2, c, v)>> : c \in Chain, v \in Value}}
             \union {[f \in Fam |-> IF f = V4 THEN <<>> ELSE <<OldRule(2, c, v), ForeignRule(1)>>] :
                c \in Chain, v \in Value}

Init ==
  /\ nat \in OldTables
  /\ job = [p \in Proc |-> Idle(TRUE)]
  /\ faults = 0
  /\ has6 \in BOOLEAN
  /\ upstream \in Value \union {Nil}
  /\ moves = 0 /\ edits = 0
  /\ hpc = "wait" /\ hsnap = Nil /\ lastIs6 = Nil
  /\ left = [p \in Proc \ {Hook} |-> <<V4, V6>>]

-----------------------------------------------------------------------------
(* The hook.                                                                *)

\* Mutant of ApplyJob: a rule is installed although there is no address for it.
ApplyJobAlways(u) == Ensuring(FamOf[u], WantFor(u))

\* Where the tick goes once the other table needs no clearing: Ensure, or, for
\* an IPv6 endpoint without container_addr6, Remove.
ApplyJob(u) == IF FamOf[u] = V6 /\ ~has6 THEN Removing(V6)
               ELSE Ensuring(FamOf[u], WantFor(u))

\* Mutant of HookTick: without an upstream, rules are removed only if this run
\* has installed some.
HookTickForgets(u) ==
  /\ hpc = "wait"
  /\ u \in {upstream, Nil} /\ Answered(u = upstream, TRUE)
  /\ hsnap' = u
  /\ IF u = Nil
     THEN lastIs6 # Nil /\ hpc' = "none4" /\ job' = [job EXCEPT ![Hook] = Removing(V4)]
     ELSE IF lastIs6 # FamOf[u]
     THEN hpc' = "idle" /\ job' = [job EXCEPT ![Hook] = Removing(Other(FamOf[u]))]
     ELSE hpc' = "apply" /\ job' = [job EXCEPT ![Hook] = ApplyJob(u)]
  /\ UNCHANGED <<nat, operator, lastIs6, left>>

\* A successful poll, and the hook starts on its snapshot: the endpoint the
\* router has, or none if the endpoint is a name that did not resolve.
HookTick(u) ==
  /\ hpc = "wait"
  /\ u \in {upstream, Nil} /\ Answered(u = upstream, TRUE)
  /\ hsnap' = u
  /\ IF u = Nil
     THEN hpc' = "none4" /\ job' = [job EXCEPT ![Hook] = Removing(V4)]
     ELSE IF lastIs6 # FamOf[u]
     THEN hpc' = "idle" /\ job' = [job EXCEPT ![Hook] = Removing(Other(FamOf[u]))]
     ELSE hpc' = "apply" /\ job' = [job EXCEPT ![Hook] = ApplyJob(u)]
  /\ UNCHANGED <<nat, operator, lastIs6, left>>

\* No upstream: Remove from the other table too, whether or not it worked.
HookNone4 ==
  /\ hpc = "none4" /\ job[Hook].pc = "idle"
  /\ hpc' = "none6"
  /\ job' = [job EXCEPT ![Hook] = Removing(V6)]
  /\ UNCHANGED <<nat, faults, operator, hsnap, lastIs6, left>>

HookNone6 ==
  /\ hpc = "none6" /\ job[Hook].pc = "idle"
  /\ hpc' = "wait" /\ hsnap' = Nil /\ lastIs6' = Nil
  /\ UNCHANGED <<natVars, operator, left>>

\* Mutant of HookIdle: the other table counts as cleared even if the call failed.
HookIdleOnce ==
  /\ hpc = "idle" /\ job[Hook].pc = "idle"
  /\ lastIs6' = FamOf[hsnap]
  /\ hpc' = "apply"
  /\ job' = [job EXCEPT ![Hook] = ApplyJob(hsnap)]
  /\ UNCHANGED <<nat, faults, operator, hsnap, left>>

\* The other table was gone through; only success is remembered.
HookIdle ==
  /\ hpc = "idle" /\ job[Hook].pc = "idle"
  /\ lastIs6' = IF job[Hook].ok THEN FamOf[hsnap] ELSE lastIs6
  /\ hpc' = "apply"
  /\ job' = [job EXCEPT ![Hook] = ApplyJob(hsnap)]
  /\ UNCHANGED <<nat, faults, operator, hsnap, left>>

HookApply ==
  /\ hpc = "apply" /\ job[Hook].pc = "idle"
  /\ hpc' = "wait" /\ hsnap' = Nil
  /\ UNCHANGED <<natVars, operator, lastIs6, left>>

\* One call of an operation in progress, of the hook or of a cleanup.
Call(p) ==
  /\ Reconcile(p)
  /\ UNCHANGED <<operator, hookVars, left>>

HookStep == \/ \E u \in Value \union {Nil} : HookTick(u)
            \/ HookNone4 \/ HookNone6 \/ HookIdle \/ HookApply \/ Call(Hook)

\* cleanupDivert goes on to its next table, whatever became of the last.
CleanupNext(p) ==
  /\ job[p].pc = "idle" /\ left[p] # <<>>
  /\ job' = [job EXCEPT ![p] = Removing(Head(left[p]))]
  /\ left' = [left EXCEPT ![p] = Tail(@)]
  /\ UNCHANGED <<nat, faults, operator, hookVars>>

-----------------------------------------------------------------------------
(* The operator.                                                            *)

MoveEndpoint(u) ==
  /\ moves < MaxMoves /\ u # upstream
  /\ upstream' = u
  /\ moves' = moves + 1
  /\ UNCHANGED <<natVars, has6, edits, hookVars, left>>

\* A rule of ours is deleted, changed or duplicated by hand.
EditRule(f, k) ==
  /\ edits < MaxEdits
  /\ k \in DOMAIN nat[f] /\ nat[f][k].mark = Mark[Hook]
  /\ \/ nat' = [nat EXCEPT ![f] = RemoveAt(@, k)]
     \/ \E w \in Want : nat' = [nat EXCEPT ![f][k] = Changed(@, w)]
     \/ FreeIds # {} /\ nat' = [nat EXCEPT ![f] = Append(@, [@[k] EXCEPT !.id = OneOf(FreeIds)])]
  /\ edits' = edits + 1
  /\ UNCHANGED <<job, faults, has6, upstream, moves, hookVars, left>>

Next ==
  \/ HookStep
  \/ \E p \in Proc \ {Hook} : CleanupNext(p) \/ Call(p)
  \/ \E u \in Value \union {Nil} : MoveEndpoint(u)
  \/ \E f \in Fam, k \in 1 .. MaxId : EditRule(f, k)

Spec == Init /\ [][Next]_vars

\* The poller ticks for ever and the calls return; the budget of faults says
\* that the router is reachable in the end.
FairSpec == /\ Spec
            /\ WF_vars(HookStep)
            /\ \A p \in Proc \ {Hook} : WF_vars(CleanupNext(p) \/ Call(p))

-----------------------------------------------------------------------------

\* The values of the tables, of the calls under way and of the hook's memory;
\* a tick begins with nothing under way (main.go:219-285).
TypeOK ==
  /\ NatTypeOK
  /\ has6 \in BOOLEAN /\ upstream \in Value \union {Nil} /\ moves \in 0 .. MaxMoves /\ edits \in 0 .. MaxEdits
  /\ hpc \in {"wait", "none4", "none6", "idle", "apply"}
  /\ lastIs6 \in Fam \union {Nil}
  /\ hpc = "wait" => hsnap = Nil /\ job[Hook].pc = "idle"

\* The rules of ours in table f are exactly the one for u.
Installed(f, u) ==
  LET ours == Ours(Hook, nat[f]) IN
    Len(ours) = 1 /\ ours[1].chain = Output /\ ours[1].val = u

\* When the endpoint stays put, its table ends up with exactly the rule for it
\* (or none, without container_addr6), whatever was there before, whichever
\* calls failed or were doubled, whatever a late cleanup deleted and the
\* operator edited.
ActiveConverges ==
  \A u \in Value : <>[](upstream = u) =>
    <>[](IF FamOf[u] = V6 /\ ~has6 THEN Ours(Hook, nat[V6]) = <<>>
         ELSE Installed(FamOf[u], u))

\* When the operator takes the mark off the peer, all our rules go in the end.
NoneConverges ==
  <>[](upstream = Nil) => <>[](\A f \in Fam : Ours(Hook, nat[f]) = <<>>)

\* The first change of family clears the other table in the end, however often
\* the call fails, unless the operator copies rules by hand.
OtherTableClearedOnce ==
  [](moves <= 1 /\ edits = 0) =>
    \A u \in Value : <>[](upstream = u) => <>[](Ours(Hook, nat[Other(FamOf[u])]) = <<>>)

\* README.md:120: from the other table the rule is taken out.
OtherTableCleared ==
  \A u \in Value : <>[](upstream = u) => <>[](Ours(Hook, nat[Other(FamOf[u])]) = <<>>)

\* The hook alone is at the rules: no edit so far, no cleanup begun.
Undisturbed == edits = 0 /\ \A p \in Proc \ {Hook} : left[p] = <<V4, V6>>

\* A step of the hook does not interrupt the divert of an endpoint it keeps: as
\* long as the first of our rules, the one in force, is for the endpoint the
\* tick works from, it stays so while duplicates are removed, calls fail or are
\* doubled and the other table is cleared (nat.go:57-106, main.go:219-285).
NoInterruption ==
  [][Undisturbed /\ HookStep /\ hsnap # Nil /\ hsnap' = hsnap /\ (FamOf[hsnap] = V4 \/ has6) =>
       LET f == FamOf[hsnap]
           served(t) == LET ours == Ours(Hook, t[f]) IN
                          ours # <<>> /\ ours[1].chain = Output /\ ours[1].val = hsnap
       IN served(nat) => served(nat')]_vars
=============================================================================
