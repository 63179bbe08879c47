--------------------------- MODULE NatReconciler ---------------------------
(***************************************************************************)
(* The reconciler of the router's NAT rules (internal/router/nat.go): an   *)
(* actor that wants one rule in a table (Ensure) or none (Remove), working *)
(* over the router's API one call at a time.  Between two calls of an      *)
(* actor the operator and other actors may change the tables, so what the  *)
(* actor listed may be out of date.                                        *)
(*                                                                         *)
(* A call may fail before or after it took effect, and Dialer.Call repeats *)
(* a failed command once (binapi/client.go): an add may therefore take     *)
(* effect twice, and a remove that took effect may be reported as failed.  *)
(*                                                                         *)
(* The module describes the reconciler alone; the hooks that drive it      *)
(* extend the module.                                                      *)
(***************************************************************************)
EXTENDS Integers, FiniteSets, SequencesExt

CONSTANTS
  Proc,       \* actors: hooks and cleanup goroutines
  Mark,       \* actor -> comment marker of its rules (natComment, masqComment)
  Masq,       \* actors that are MasqueradeReconcilers; the others are NatReconcilers
  Markers,    \* all comments, the actors' markers among them
  Fam,        \* tables: /ip/firewall/nat and /ipv6/firewall/nat
  Chain,      \* NAT chains
  Value,      \* what is left of a rule: ports and addresses
  MaxId,      \* bound: rule identifiers in use at one time
  MaxFaults,  \* bound: calls of the router's API that fail
  Nil

ASSUME NatAssumption ==
  /\ Mark \in [Proc -> Markers] /\ Masq \subseteq Proc
  /\ MaxId \in Nat /\ MaxFaults \in Nat

Rule == [id : 1 .. MaxId, mark : Markers, chain : Chain, val : Value]
Want == [chain : Chain, val : Value]
\* What a table may hold: an identifier names one rule.
Table == {s \in Seq(Rule) : \A k, l \in DOMAIN s : s[k].id = s[l].id => k = l}

ASSUME NilAssumption == Nil \notin Fam /\ Nil \notin Want

VARIABLES
  nat,        \* the tables, in the order the router prints them
  job,        \* what each actor is doing
  faults      \* calls that failed so far

natVars == <<nat, job, faults>>

Doing(pc, f, w, cur, ok) == [pc |-> pc, fam |-> f, want |-> w, cur |-> cur, ok |-> ok]
\* An actor between two operations; ok is the outcome of the last one.
Idle(ok) == Doing("idle", Nil, Nil, <<>>, ok)

\* What stands in s at the places K, in its order.
Kept(s, K) ==
  LET upTo[n \in 0 .. Len(s)] ==
        IF n = 0 THEN <<>> ELSE IF n \in K THEN Append(upTo[n - 1], s[n]) ELSE upTo[n - 1]
  IN upTo[Len(s)]

\* The rules in s an actor takes for its own.
Ours(p, s) == Kept(s, {k \in DOMAIN s : s[k].mark = Mark[p]})
PlaceOf(s, id) == CHOOSE k \in DOMAIN s : s[k].id = id

\* Identifiers the router has not given out, or that nobody remembers.  While
\* there are too few, rules are not added.
FreeIds == (1 .. MaxId) \ ({r.id : r \in UNION {ToSet(nat[f]) : f \in Fam}}
                           \union {r.id : r \in UNION {ToSet(job[p].cur) : p \in Proc}})
OneOf(S) == CHOOSE i \in S : TRUE

-----------------------------------------------------------------------------
(* The router's API.  Each operator relates the actor's table to what it    *)
(* becomes, and tells whether the actor is told of success.                 *)

\* A call does or does not count against the budget of faults.
Answered(ok, clean) ==
  IF ok /\ clean THEN faults' = faults
  ELSE faults < MaxFaults /\ faults' = faults + 1

Changed(r, w) == [id |-> r.id, mark |-> r.mark, chain |-> w.chain, val |-> w.val]
NewRule(p, i, w) == [id |-> i, mark |-> Mark[p], chain |-> w.chain, val |-> w.val]

\* add, sent once or, after a failure, twice; n is how often it took effect.
CallAdd(p, f, w, n, ok) ==
  LET i == OneOf(FreeIds)
      j == OneOf(FreeIds \ {i})
  IN /\ n > 0 => FreeIds # {}
     /\ n > 1 => FreeIds \ {i} # {}
     /\ ok => n > 0
     /\ Answered(ok, n = 1)
     /\ nat' = [nat EXCEPT ![f] = @ \o SubSeq(<<NewRule(p, i, w), NewRule(p, j, w)>>, 1, n)]

\* remove; a rule that is gone, or that the first attempt took, is an error.
CallRemove(f, id, done, ok) ==
  LET there == \E r \in ToSet(nat[f]) : r.id = id
  IN /\ done => there
     /\ ok => done
     /\ IF there THEN Answered(ok, TRUE) ELSE UNCHANGED faults
     /\ nat' = IF done THEN [nat EXCEPT ![f] = RemoveAt(@, PlaceOf(@, id))] ELSE nat

\* set: idempotent, so the repeated call succeeds; no rule, no success.
CallSet(f, id, w, done, ok) ==
  LET there == \E r \in ToSet(nat[f]) : r.id = id
  IN /\ done => there
     /\ ok => done
     /\ IF there THEN Answered(ok, TRUE) ELSE UNCHANGED faults
     /\ nat' = IF done
               THEN [nat EXCEPT ![f][PlaceOf(nat[f], id)] = Changed(@, w)]
               ELSE nat

-----------------------------------------------------------------------------
(* The operations, call by call.                                            *)

\* What actor p's job becomes when Ensure(w) or Remove on table f is called.
Ensuring(f, w) == Doing("list", f, w, <<>>, FALSE)
Removing(f)    == Doing("list", f, Nil, <<>>, FALSE)
\* It goes on with the rules it has listed, or with what is left of them.
Goes(j, pc, cur) == Doing(pc, j.fam, j.want, cur, j.ok)

\* Mutant of List: every rule of the table is taken for ours.
ListAll(p, ok) ==
  /\ job[p].pc = "list"
  /\ Answered(ok, TRUE)
  /\ job' = [job EXCEPT ![p] =
               IF ~ok THEN Idle(FALSE)
               ELSE Goes(@, IF @.want = Nil THEN "remove" ELSE "ensure", nat[@.fam])]
  /\ UNCHANGED nat

\* list: print the table and keep our rules.
List(p, ok) ==
  /\ job[p].pc = "list"
  /\ Answered(ok, TRUE)
  /\ job' = [job EXCEPT ![p] =
               IF ~ok THEN Idle(FALSE)
               ELSE Goes(@, IF @.want = Nil THEN "remove" ELSE "ensure", Ours(p, nat[@.fam]))]
  /\ UNCHANGED nat

\* Ensure: a rule beyond the first goes; whether that worked is not looked at.
RemoveExtra(p, done, ok) ==
  /\ job[p].pc = "ensure" /\ Len(job[p].cur) > 1
  /\ CallRemove(job[p].fam, job[p].cur[2].id, done, ok)
  /\ job' = [job EXCEPT ![p] = Goes(@, "ensure", RemoveAt(@.cur, 2))]

\* Ensure: no rule of ours, add it.
AddMissing(p, n, ok) ==
  /\ job[p].pc = "ensure" /\ job[p].cur = <<>>
  /\ CallAdd(p, job[p].fam, job[p].want, n, ok)
  /\ job' = [job EXCEPT ![p] = Idle(ok)]

\* A rule in another chain is replaced by a NatReconciler, changed by the other.
MovesChain(p) == p \notin Masq /\ job[p].cur[1].chain # job[p].want.chain

\* Mutant of RemoveOtherChain: the rule is always deleted and created again.
RemoveAlways(p, done, ok) ==
  /\ job[p].pc = "ensure" /\ Len(job[p].cur) = 1
  /\ CallRemove(job[p].fam, job[p].cur[1].id, done, ok)
  /\ job' = [job EXCEPT ![p] = IF ok THEN Goes(@, "recreate", @.cur) ELSE Idle(FALSE)]

\* Ensure: our rule is in another chain; it is deleted...
RemoveOtherChain(p, done, ok) ==
  /\ job[p].pc = "ensure" /\ Len(job[p].cur) = 1
  /\ MovesChain(p)
  /\ CallRemove(job[p].fam, job[p].cur[1].id, done, ok)
  /\ job' = [job EXCEPT ![p] = IF ok THEN Goes(@, "recreate", @.cur) ELSE Idle(FALSE)]

\* ...and created again.
Recreate(p, n, ok) ==
  /\ job[p].pc = "recreate"
  /\ CallAdd(p, job[p].fam, job[p].want, n, ok)
  /\ job' = [job EXCEPT ![p] = Idle(ok)]

\* Mutant of SetDiff: a rule that need not be replaced passes for the right rule.
SetDiffNot(p, done, ok) ==
  /\ job[p].pc = "ensure" /\ Len(job[p].cur) = 1
  /\ ~MovesChain(p)
  /\ done /\ ok /\ UNCHANGED <<nat, faults>>
  /\ job' = [job EXCEPT ![p] = Idle(ok)]

\* Ensure: our rule stays; fields that differ are set.
SetDiff(p, done, ok) ==
  /\ job[p].pc = "ensure" /\ Len(job[p].cur) = 1
  /\ ~MovesChain(p)
  /\ IF job[p].cur[1].chain = job[p].want.chain /\ job[p].cur[1].val = job[p].want.val
     THEN done /\ ok /\ UNCHANGED <<nat, faults>>
     ELSE CallSet(job[p].fam, job[p].cur[1].id, job[p].want, done, ok)
  /\ job' = [job EXCEPT ![p] = Idle(ok)]

\* Remove: the next of the listed rules; the first failure ends it.
RemoveNext(p, done, ok) ==
  /\ job[p].pc = "remove" /\ job[p].cur # <<>>
  /\ CallRemove(job[p].fam, Head(job[p].cur).id, done, ok)
  /\ job' = [job EXCEPT ![p] = IF ok THEN Goes(@, "remove", Tail(@.cur)) ELSE Idle(FALSE)]

\* Remove: nothing is left of what was listed.
RemoveDone(p) ==
  /\ job[p].pc = "remove" /\ job[p].cur = <<>>
  /\ job' = [job EXCEPT ![p] = Idle(TRUE)]
  /\ UNCHANGED <<nat, faults>>

\* Any step of actor p's operation in progress.
Reconcile(p) ==
  \/ \E ok \in BOOLEAN : List(p, ok)
  \/ \E done, ok \in BOOLEAN : RemoveExtra(p, done, ok)
  \/ \E n \in 0 .. 2, ok \in BOOLEAN : AddMissing(p, n, ok)
  \/ \E done, ok \in BOOLEAN : RemoveOtherChain(p, done, ok)
  \/ \E n \in 0 .. 2, ok \in BOOLEAN : Recreate(p, n, ok)
  \/ \E done, ok \in BOOLEAN : SetDiff(p, done, ok)
  \/ \E done, ok \in BOOLEAN : RemoveNext(p, done, ok)
  \/ RemoveDone(p)

-----------------------------------------------------------------------------

\* The values the tables and the actors' progress take (nat.go:36-51, 195-209).
NatTypeOK ==
  /\ \A f \in Fam : ToSet(nat[f]) \subseteq Rule
  /\ \A p \in Proc :
       /\ job[p].pc \in {"idle", "list", "ensure", "recreate", "remove"}
       /\ job[p].want \in Want \union {Nil}
       /\ \A r \in ToSet(job[p].cur) : r \in Rule /\ r.mark = Mark[p]
  /\ faults \in 0 .. MaxFaults

\* Rules other than the actors' own.
Foreign(f) == Kept(nat[f], {k \in DOMAIN nat[f] : \A p \in Proc : nat[f][k].mark # Mark[p]})

\* Rules of other instances on the same router keep their place and content:
\* the markers keep the instances apart (nat.go:11-13).
ForeignUntouched == [][\A f \in Fam : Foreign(f)' = Foreign(f)]_natVars
=============================================================================
