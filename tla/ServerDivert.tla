---------------------------- MODULE ServerDivert ---------------------------
(***************************************************************************)
(* Server mode's NAT rules (cmd/awgproxy/main.go).  After every successful *)
(* poll the hooks run one after the other:                                 *)
(*  - makeServerDivertHook confirms the dstnat rule that publishes the     *)
(*    proxy, in the IPv4 table always, in the IPv6 table if                *)
(*    container_addr6 is set.  Without it the IPv6 table is cleared of our *)
(*    rules, once: cleaned6 remembers a success, so a failed attempt is    *)
(*    repeated on the next tick;                                           *)
(*  - makeMasqueradeHook asks for the address of the WireGuard interface   *)
(*    and confirms a srcnat rule for its network, under another marker in  *)
(*    the same IPv4 table.                                                 *)
(* Cleanup goroutines (cleanupDivert, cleanupMasquerade) of this or of an  *)
(* earlier configuration may be at work on the same markers, and the       *)
(* operator edits the IPv4 rules and changes the interface's address.      *)
(***************************************************************************)
EXTENDS NatReconciler

CONSTANTS
  Hook, Cleanup,           \* the actors with the marker of the divert rule
  MasqHook, MasqCleanup,   \* the actors with the marker of the masquerade rule
  V4, V6,                  \* the two tables
  Target,                  \* table -> what the divert rule there is to say
  NetOf, FirstAddress,     \* address of the interface -> its network in a rule; the address at first
  DstNat, SrcNat,          \* chains
  Scenarios,               \* configuration, tables an earlier run left behind, cleanups
                           \* still at work, bound on failed calls
  MaxEdits                 \* bound: what the operator changes by hand

\* Config: divert, container_addr6 is set, masquerade.
Config == [divert : BOOLEAN, has6 : BOOLEAN, masq : BOOLEAN]

ASSUME ServerDivertAssumption ==
  /\ Proc = {Hook, Cleanup, MasqHook, MasqCleanup} /\ Masq = {MasqHook, MasqCleanup}
  /\ Mark[Hook] = Mark[Cleanup] /\ Mark[MasqHook] = Mark[MasqCleanup] /\ Mark[Hook] # Mark[MasqHook]
  /\ Hook # Cleanup /\ MasqHook # MasqCleanup
  /\ Fam = {V4, V6} /\ V4 # V6
  /\ Target \in [Fam -> Value]
  /\ FirstAddress \in DOMAIN NetOf /\ \A a \in DOMAIN NetOf : NetOf[a] \in Value
  /\ \A s \in Scenarios : /\ s.cfg \in Config /\ s.late \subseteq {Cleanup, MasqCleanup}
                          /\ s.fails \in 0 .. MaxFaults /\ s.tables \in [Fam -> Table]
  /\ {DstNat, SrcNat} \subseteq Chain /\ Nil \notin DOMAIN NetOf
  /\ MaxEdits \in Nat

VARIABLES
  cfg,        \* the configuration; fixed while the stack runs
  ifaddr,     \* the first active address of the interface, Nil if there is none
  hpc,        \* where the hooks are in their tick
  cleaned6,   \* the divert hook's memory of having cleared the IPv6 table
  left,       \* cleanup goroutine -> tables it has yet to go through
  edits       \* what the operator changed so far

vars == <<natVars, cfg, ifaddr, hpc, cleaned6, left, edits>>

Wanted(f) == [chain |-> DstNat, val |-> Target[f]]
WantedMasq(a) == [chain |-> SrcNat, val |-> NetOf[a]]

Init ==
  /\ \E s \in Scenarios :
       /\ cfg = s.cfg /\ nat = s.tables /\ faults = MaxFaults - s.fails
       /\ left = [p \in {Cleanup, MasqCleanup} |->
                   IF p \notin s.late THEN <<>> ELSE IF p = Cleanup THEN <<V4, V6>> ELSE <<V4>>]
  /\ job = [p \in Proc |-> Idle(TRUE)]
  /\ ifaddr = FirstAddress
  /\ hpc = "wait" /\ cleaned6 = FALSE
  /\ edits = 0

-----------------------------------------------------------------------------
(* The hooks.                                                               *)

\* Where the tick goes after the divert hook.
AfterDivert == IF cfg.masq THEN "address" ELSE "wait"

\* A successful poll: the IPv4 divert rule first.
HookTick ==
  /\ hpc = "wait" /\ (cfg.divert \/ cfg.masq)
  /\ IF cfg.divert
     THEN hpc' = "table4" /\ job' = [job EXCEPT ![Hook] = Ensuring(V4, Wanted(V4))]
     ELSE hpc' = AfterDivert /\ UNCHANGED job
  /\ UNCHANGED <<nat, faults, cfg, ifaddr, cleaned6, left, edits>>

\* Whatever came of it, the IPv6 table: confirmed, or cleared if not yet done.
HookTable6 ==
  /\ hpc = "table4" /\ job[Hook].pc = "idle"
  /\ IF cfg.has6
     THEN hpc' = "table6" /\ job' = [job EXCEPT ![Hook] = Ensuring(V6, Wanted(V6))]
     ELSE IF ~cleaned6
     THEN hpc' = "clean6" /\ job' = [job EXCEPT ![Hook] = Removing(V6)]
     ELSE hpc' = AfterDivert /\ UNCHANGED job
  /\ UNCHANGED <<nat, faults, cfg, ifaddr, cleaned6, left, edits>>

\* Mutant of HookDone: the IPv6 table counts as cleared even if the call failed.
HookDoneOnce ==
  /\ hpc \in {"table6", "clean6"} /\ job[Hook].pc = "idle"
  /\ cleaned6' = TRUE
  /\ hpc' = AfterDivert
  /\ UNCHANGED <<natVars, cfg, ifaddr, left, edits>>

\* The divert hook ends; clearing the IPv6 table is remembered if it worked.
HookDone ==
  /\ hpc \in {"table6", "clean6"} /\ job[Hook].pc = "idle"
  /\ cleaned6' = (cleaned6 \/ (hpc = "clean6" /\ job[Hook].ok))
  /\ hpc' = AfterDivert
  /\ UNCHANGED <<natVars, cfg, ifaddr, left, edits>>

\* ListInterfaces, and with an address Ensure; a failed call of either kind,
\* or an interface without address, ends the tick.
MasqAddress(a) ==
  /\ hpc = "address"
  /\ a \in {ifaddr, Nil} /\ Answered(a = ifaddr, TRUE)
  /\ IF a = Nil
     THEN hpc' = "wait" /\ UNCHANGED job
     ELSE hpc' = "masq" /\ job' = [job EXCEPT ![MasqHook] = Ensuring(V4, WantedMasq(a))]
  /\ UNCHANGED <<nat, cfg, ifaddr, cleaned6, left, edits>>

MasqDone ==
  /\ hpc = "masq" /\ job[MasqHook].pc = "idle"
  /\ hpc' = "wait"
  /\ UNCHANGED <<natVars, cfg, ifaddr, cleaned6, left, edits>>

\* One call of an operation in progress, of a hook or of a cleanup.
Call(p) ==
  /\ Reconcile(p)
  /\ UNCHANGED <<cfg, ifaddr, hpc, cleaned6, left, edits>>

HookStep ==
  \/ HookTick \/ HookTable6 \/ HookDone \/ Call(Hook)
  \/ (\E a \in DOMAIN NetOf \union {Nil} : MasqAddress(a)) \/ MasqDone \/ Call(MasqHook)

\* cleanupDivert goes on to its next table, whatever became of the last;
\* cleanupMasquerade has one.
CleanupNext(p) ==
  /\ job[p].pc = "idle" /\ left[p] # <<>>
  /\ job' = [job EXCEPT ![p] = Removing(Head(left[p]))]
  /\ left' = [left EXCEPT ![p] = Tail(@)]
  /\ UNCHANGED <<nat, faults, cfg, ifaddr, hpc, cleaned6, edits>>

CleanupStep(p) == CleanupNext(p) \/ Call(p)

-----------------------------------------------------------------------------
(* The operator.                                                            *)

\* An IPv4 rule of ours is deleted, changed or duplicated.
EditRule(k) ==
  /\ edits < MaxEdits
  /\ k \in DOMAIN nat[V4] /\ nat[V4][k].mark \in {Mark[Hook], Mark[MasqHook]}
  /\ \/ nat' = [nat EXCEPT ![V4] = RemoveAt(@, k)]
     \/ \E w \in Want : nat' = [nat EXCEPT ![V4][k] = Changed(@, w)]
     \/ FreeIds # {} /\ nat' = [nat EXCEPT ![V4] = Append(@, [@[k] EXCEPT !.id = OneOf(FreeIds)])]
  /\ edits' = edits + 1
  /\ UNCHANGED <<job, faults, cfg, ifaddr, hpc, cleaned6, left>>

\* The interface gets another address, or loses it.
EditAddress(a) ==
  /\ edits < MaxEdits /\ cfg.masq
  /\ a # ifaddr /\ ifaddr' = a
  /\ edits' = edits + 1
  /\ UNCHANGED <<natVars, cfg, hpc, cleaned6, left>>

Next ==
  \/ HookStep
  \/ \E p \in {Cleanup, MasqCleanup} : CleanupStep(p)
  \/ \E k \in 1 .. MaxId : EditRule(k)
  \/ \E a \in DOMAIN NetOf \union {Nil} : EditAddress(a)

\* The poller ticks for ever and the calls return.
Spec == /\ Init /\ [][Next]_vars
        /\ WF_vars(HookStep)
        /\ \A p \in {Cleanup, MasqCleanup} : WF_vars(CleanupStep(p))

-----------------------------------------------------------------------------

\* The values of the hooks' state; a tick starts with nothing under way, and
\* the hooks take turns (main.go:178-186).
TypeOK ==
  /\ NatTypeOK
  /\ hpc \in {"wait", "table4", "table6", "clean6", "address", "masq"}
  /\ cfg \in Config /\ cleaned6 \in BOOLEAN /\ ifaddr \in DOMAIN NetOf \union {Nil}
  /\ left[Cleanup] \in {<<>>, <<V6>>, <<V4, V6>>} /\ edits \in 0 .. MaxEdits
  /\ hpc \in {"wait", "address", "masq"} => job[Hook].pc = "idle"
  /\ hpc # "masq" => job[MasqHook].pc = "idle"
  /\ cfg.has6 => ~cleaned6

\* The rules of p in table f are exactly the wanted one.
Installed(p, f, want) ==
  LET ours == Ours(p, nat[f]) IN
    Len(ours) = 1 /\ ours[1].chain = want.chain /\ ours[1].val = want.val

\* The published port ends up diverted by exactly one rule per served family,
\* whatever an earlier run left, a late cleanup deleted, a lost reply doubled
\* or the operator edited (main.go:287-293).
Published ==
  cfg.divert => <>[](/\ Installed(Hook, V4, Wanted(V4))
                     /\ cfg.has6 => Installed(Hook, V6, Wanted(V6)))

\* Without container_addr6 no rule of ours stays in the IPv6 table, even if
\* the first attempts to clear it fail (main.go:320-321).
Unpublished6 == cfg.divert /\ ~cfg.has6 => <>[](Ours(Hook, nat[V6]) = <<>>)

\* The masquerade rule ends up being exactly one, for the network the interface
\* has now and no restart in between (main.go:364-366), whatever the divert
\* hook and late cleanups do in the same table.
Masqueraded ==
  cfg.masq => <>[](ifaddr # Nil => Installed(MasqHook, V4, WantedMasq(ifaddr)))
=============================================================================
