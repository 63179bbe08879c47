------------------------- MODULE ServerDivertProofs -------------------------
(***************************************************************************)
(* The hooks of server mode (cmd/awgproxy/main.go, makeServerDivertHook,   *)
(* makeMasqueradeHook) with their cleanups and an operator at the same     *)
(* rules, for any tables, addresses, faults and edits: a tick starts with  *)
(* nothing under way, and rules of other instances are never touched.      *)
(***************************************************************************)
EXTENDS ServerDivert, NatProofs

\* The two hooks take turns, a cleanup goroutine has tables left in the order
\* of cleanupDivert (main.go:354-362), and the IPv6 table is cleared only
\* without container_addr6.
TurnsInv ==
  /\ hpc \in {"wait", "table4", "table6", "clean6", "address", "masq"}
  /\ cfg \in Config /\ cleaned6 \in BOOLEAN /\ ifaddr \in DOMAIN NetOf \union {Nil}
  /\ left = [p \in {Cleanup, MasqCleanup} |-> left[p]]
  /\ left[Cleanup] \in {<<>>, <<V6>>, <<V4, V6>>} /\ left[MasqCleanup] \in {<<>>, <<V4>>}
  /\ edits \in 0 .. MaxEdits
  /\ hpc \in {"wait", "address", "masq"} => job[Hook].pc = "idle"
  /\ hpc # "masq" => job[MasqHook].pc = "idle"
  /\ cfg.has6 => ~cleaned6
  /\ hpc = "clean6" => ~cfg.has6

ServerInv == NatInv /\ TurnsInv

\* The actors are four.
LEMMA Actors ==
  /\ {Hook, Cleanup, MasqHook, MasqCleanup} = Proc
  /\ Hook # Cleanup /\ Hook # MasqHook /\ Hook # MasqCleanup
  /\ MasqHook # Cleanup /\ MasqHook # MasqCleanup /\ Cleanup # MasqCleanup
  /\ V4 \in Fam /\ V6 \in Fam
BY ServerDivertAssumption

\* The hooks start on any tables earlier runs left, with nothing under way.
LEMMA ServerInit == Init => ServerInv
<1> SUFFICES ASSUME Init PROVE ServerInv
  OBVIOUS
<1>1. PICK s \in Scenarios :
        /\ cfg = s.cfg /\ nat = s.tables /\ faults = MaxFaults - s.fails
        /\ left = [p \in {Cleanup, MasqCleanup} |->
                    IF p \notin s.late THEN <<>> ELSE IF p = Cleanup THEN <<V4, V6>> ELSE <<V4>>]
  BY DEF Init
<1>2. s.cfg \in Config /\ s.fails \in 0 .. MaxFaults /\ s.tables \in [Fam -> Table]
  BY ServerDivertAssumption
<1>3. TablesOK(nat)
  BY <1>1, <1>2 DEF TablesOK
<1>4. faults \in 0 .. MaxFaults
  BY <1>1, <1>2, NatAssumption
<1>5. NatInv /\ \A p \in Proc : job[p].pc = "idle"
  BY <1>3, <1>4, AtRest DEF Init
<1>6. TurnsInv
  <2>1. /\ left = [p \in {Cleanup, MasqCleanup} |-> left[p]]
        /\ left[Cleanup] \in {<<>>, <<V6>>, <<V4, V6>>} /\ left[MasqCleanup] \in {<<>>, <<V4>>}
    BY <1>1, Actors
  <2>2. /\ hpc = "wait" /\ cleaned6 = FALSE /\ ifaddr \in DOMAIN NetOf \union {Nil}
        /\ cfg \in Config /\ edits \in 0 .. MaxEdits
    BY <1>1, <1>2, ServerDivertAssumption DEF Init
  <2>3. job[Hook].pc = "idle" /\ job[MasqHook].pc = "idle"
    BY <1>5, Actors
  <2> QED
    BY <2>1, <2>2, <2>3 DEF TurnsInv
<1> QED
  BY <1>5, <1>6 DEF ServerInv

\* Calls of Ensure and Remove, as they are made.
LEMMA ServerCall ==
  ASSUME ServerInv, NEW p \in Proc, NEW f \in Fam, NEW w \in Want \union {Nil}, NEW j,
         j = Doing("list", f, w, <<>>, FALSE), job' = [job EXCEPT ![p] = j], UNCHANGED nat,
         faults' \in 0 .. MaxFaults
  PROVE  NatInv' /\ \A q \in Proc : q # p => job'[q] = job[q]
<1>1. NatInv'
  BY CallStarts DEF ServerInv
<1>2. job = [q \in Proc |-> job[q]]
  BY DEF ServerInv, NatInv, JobsOK
<1> QED
  BY <1>1, <1>2

\* What the hooks want is something a rule can say.
LEMMA Wants ==
  /\ \A f \in Fam : Wanted(f) \in Want
  /\ \A a \in DOMAIN NetOf : WantedMasq(a) \in Want
BY ServerDivertAssumption DEF Want, Wanted, WantedMasq

\* A tick of the hooks (main.go:294-343, 364-396).
LEMMA HooksKeepInv ==
  ASSUME ServerInv, HookTick \/ HookTable6 \/ HookDone \/ MasqDone
                    \/ \E a \in DOMAIN NetOf \union {Nil} : MasqAddress(a)
  PROVE  ServerInv' /\ UNCHANGED nat
<1> USE DEF ServerInv
<1>1. NatInv /\ TurnsInv
  OBVIOUS
<1>2. cfg.has6 \in BOOLEAN /\ cfg.masq \in BOOLEAN /\ cfg.divert \in BOOLEAN
  BY <1>1 DEF TurnsInv, Config
<1>3. faults \in 0 .. MaxFaults /\ AfterDivert \in {"wait", "address"}
  BY DEF NatInv, AfterDivert
<1>4. CASE HookTick
  <2>1. CASE cfg.divert
    <3>1. job' = [job EXCEPT ![Hook] = Ensuring(V4, Wanted(V4))] /\ hpc' = "table4" /\ hpc = "wait"
      BY <1>4, <2>1 DEF HookTick
    <3>2. NatInv' /\ \A q \in Proc : q # Hook => job'[q] = job[q]
      BY <1>3, <1>4, <3>1, Actors, Wants, ServerCall DEF HookTick, Ensuring
    <3>3. TurnsInv'
      BY <1>1, <1>4, <3>1, <3>2, Actors DEF HookTick, TurnsInv
    <3> QED
      BY <1>4, <3>2, <3>3 DEF HookTick
  <2>2. CASE ~cfg.divert
    <3>1. UNCHANGED job /\ hpc' = AfterDivert /\ hpc = "wait"
      BY <1>4, <2>2 DEF HookTick
    <3>2. NatInv'
      BY <1>1, <1>3, <1>4, <3>1, NobodyCalls DEF HookTick
    <3>3. TurnsInv'
      BY <1>1, <1>3, <1>4, <3>1 DEF HookTick, TurnsInv
    <3> QED
      BY <1>4, <3>2, <3>3 DEF HookTick
  <2> QED
    BY <2>1, <2>2
<1>5. CASE HookTable6
  <2>1. CASE cfg.has6
    <3>1. job' = [job EXCEPT ![Hook] = Ensuring(V6, Wanted(V6))] /\ hpc' = "table6" /\ hpc = "table4"
      BY <1>5, <2>1 DEF HookTable6
    <3>2. NatInv' /\ \A q \in Proc : q # Hook => job'[q] = job[q]
      BY <1>3, <1>5, <3>1, Actors, Wants, ServerCall DEF HookTable6, Ensuring
    <3>3. TurnsInv'
      BY <1>1, <1>5, <3>1, <3>2, Actors DEF HookTable6, TurnsInv
    <3> QED
      BY <1>5, <3>2, <3>3 DEF HookTable6
  <2>2. CASE ~cfg.has6 /\ ~cleaned6
    <3>1. job' = [job EXCEPT ![Hook] = Removing(V6)] /\ hpc' = "clean6" /\ hpc = "table4"
      BY <1>5, <2>2 DEF HookTable6
    <3>2. NatInv' /\ \A q \in Proc : q # Hook => job'[q] = job[q]
      BY <1>3, <1>5, <3>1, Actors, ServerCall DEF HookTable6, Removing
    <3>3. TurnsInv'
      BY <1>1, <1>5, <2>2, <3>1, <3>2, Actors DEF HookTable6, TurnsInv
    <3> QED
      BY <1>5, <3>2, <3>3 DEF HookTable6
  <2>3. CASE ~cfg.has6 /\ cleaned6
    <3>1. UNCHANGED job /\ hpc' = AfterDivert /\ hpc = "table4" /\ job[Hook].pc = "idle"
      BY <1>5, <2>3 DEF HookTable6
    <3>2. NatInv'
      BY <1>1, <1>3, <1>5, <3>1, NobodyCalls DEF HookTable6
    <3>3. TurnsInv'
      BY <1>1, <1>3, <1>5, <3>1 DEF HookTable6, TurnsInv
    <3> QED
      BY <1>5, <3>2, <3>3 DEF HookTable6
  <2> QED
    BY <2>1, <2>2, <2>3
<1>6. CASE HookDone
  <2>1. NatInv' /\ UNCHANGED nat
    BY <1>1, <1>3, <1>6, NobodyCalls DEF HookDone, natVars
  <2>2. UNCHANGED <<job, cfg, ifaddr, left, edits>> /\ hpc \in {"table6", "clean6"} /\ job[Hook].pc = "idle"
    BY <1>6 DEF HookDone, natVars
  <2>3. cleaned6' \in BOOLEAN /\ (cfg.has6 => ~cleaned6')
    BY <1>1, <1>6 DEF HookDone, TurnsInv
  <2>4. TurnsInv'
    BY <1>1, <1>3, <1>6, <2>2, <2>3 DEF HookDone, TurnsInv
  <2> QED
    BY <2>1, <2>4
<1>7. CASE MasqDone
  <2>1. NatInv' /\ UNCHANGED nat
    BY <1>1, <1>3, <1>7, NobodyCalls DEF MasqDone, natVars
  <2>2. TurnsInv'
    BY <1>1, <1>7 DEF MasqDone, TurnsInv, natVars
  <2> QED
    BY <2>1, <2>2
<1>8. ASSUME NEW a \in DOMAIN NetOf \union {Nil}, MasqAddress(a) PROVE ServerInv' /\ UNCHANGED nat
  <2>1. faults' \in 0 .. MaxFaults
    BY <1>8, Counted DEF MasqAddress
  <2>2. CASE a = Nil
    <3>1. UNCHANGED job /\ UNCHANGED nat /\ hpc' = "wait" /\ hpc = "address"
      BY <1>8, <2>2 DEF MasqAddress
    <3>2. NatInv'
      BY <1>1, <2>1, <3>1, NobodyCalls
    <3>3. TurnsInv'
      BY <1>1, <1>8, <3>1 DEF MasqAddress, TurnsInv
    <3> QED
      BY <3>1, <3>2, <3>3
  <2>3. CASE a # Nil
    <3>1. /\ job' = [job EXCEPT ![MasqHook] = Ensuring(V4, WantedMasq(a))] /\ hpc' = "masq" /\ hpc = "address"
          /\ UNCHANGED nat /\ a \in DOMAIN NetOf
      BY <1>8, <2>3 DEF MasqAddress
    <3>2. NatInv' /\ \A q \in Proc : q # MasqHook => job'[q] = job[q]
      BY <2>1, <3>1, Actors, Wants, ServerCall DEF Ensuring
    <3>3. TurnsInv'
      BY <1>1, <1>8, <3>1, <3>2, Actors DEF MasqAddress, TurnsInv
    <3> QED
      BY <3>1, <3>2, <3>3
  <2> QED
    BY <2>2, <2>3
<1> QED
  BY <1>4, <1>5, <1>6, <1>7, <1>8

\* A call of any actor, a cleanup that goes on, and the operator.
LEMMA OthersKeepInv ==
  ASSUME ServerInv,
         \/ \E p \in Proc : Call(p)
         \/ \E p \in {Cleanup, MasqCleanup} : CleanupNext(p)
         \/ \E k \in 1 .. MaxId : EditRule(k)
         \/ \E a \in DOMAIN NetOf \union {Nil} : EditAddress(a)
  PROVE  ServerInv' /\ \A f \in Fam : Foreign(f)' = Foreign(f)
<1> USE DEF ServerInv
<1>1. NatInv /\ TurnsInv /\ faults \in 0 .. MaxFaults
  BY DEF NatInv
<1>2. ASSUME NEW p \in Proc, Call(p) PROVE ServerInv' /\ \A f \in Fam : Foreign(f)' = Foreign(f)
  <2>1. NatInv' /\ \A f \in Fam : Foreign(f)' = Foreign(f)
    BY <1>1, <1>2, ReconcileKeeps DEF Call
  <2>2. job[p].pc # "idle" /\ \A q \in Proc : q # p => job'[q] = job[q]
    BY <1>1, <1>2, OwnJobOnly DEF Call
  <2>3. UNCHANGED <<cfg, ifaddr, hpc, cleaned6, left, edits>>
    BY <1>2 DEF Call
  <2>4. hpc \in {"wait", "address", "masq"} => job'[Hook].pc = "idle"
    BY <1>1, <2>2, Actors DEF TurnsInv
  <2>5. hpc # "masq" => job'[MasqHook].pc = "idle"
    BY <1>1, <2>2, Actors DEF TurnsInv
  <2>6. TurnsInv'
    BY <1>1, <2>3, <2>4, <2>5 DEF TurnsInv
  <2> QED
    BY <2>1, <2>6
<1>3. ASSUME NEW p \in {Cleanup, MasqCleanup}, CleanupNext(p)
      PROVE  ServerInv' /\ \A f \in Fam : Foreign(f)' = Foreign(f)
  <2>1. Head(left[p]) \in Fam /\ Tail(left[p]) \in {<<>>, <<V6>>}
    <3>1. left[p] \in {<<V6>>, <<V4, V6>>, <<V4>>}
      BY <1>1, <1>3 DEF CleanupNext, TurnsInv
    <3>2. /\ \A f : Head(<<f>>) = f /\ Tail(<<f>>) = <<>>
          /\ Head(<<V4, V6>>) = V4 /\ Tail(<<V4, V6>>) = <<V6>>
      OBVIOUS
    <3> QED
      BY <3>1, <3>2, Actors
  <2>2. p = MasqCleanup => Tail(left[p]) = <<>>
    <3>1. p = MasqCleanup => left[p] = <<V4>>
      BY <1>1, <1>3 DEF CleanupNext, TurnsInv
    <3>2. Tail(<<V4>>) = <<>>
      OBVIOUS
    <3> QED
      BY <3>1, <3>2
  <2>3. PICK f \in Fam : f = Head(left[p])
    BY <2>1
  <2>4. job' = [job EXCEPT ![p] = Removing(f)] /\ UNCHANGED <<nat, faults, cfg, ifaddr, hpc, cleaned6, edits>>
    BY <1>3, <2>3 DEF CleanupNext
  <2>5. p \in Proc
    BY Actors
  <2>6. NatInv' /\ \A q \in Proc : q # p => job'[q] = job[q]
    BY <1>1, <2>4, <2>5, ServerCall DEF Removing
  <2>7. left' = [q \in {Cleanup, MasqCleanup} |-> IF q = p THEN Tail(left[p]) ELSE left[q]]
    BY <1>1, <1>3 DEF CleanupNext, TurnsInv
  <2>8. /\ left' = [q \in {Cleanup, MasqCleanup} |-> left'[q]]
        /\ left'[Cleanup] \in {<<>>, <<V6>>, <<V4, V6>>} /\ left'[MasqCleanup] \in {<<>>, <<V4>>}
    BY <1>1, <2>1, <2>2, <2>7, Actors DEF TurnsInv
  <2>9. job'[Hook] = job[Hook] /\ job'[MasqHook] = job[MasqHook]
    BY <2>5, <2>6, Actors
  <2>10. TurnsInv'
    BY <1>1, <2>4, <2>8, <2>9 DEF TurnsInv
  <2> QED
    BY <2>4, <2>6, <2>10 DEF Foreign
<1>4. ASSUME NEW k \in 1 .. MaxId, EditRule(k)
      PROVE  ServerInv' /\ \A f \in Fam : Foreign(f)' = Foreign(f)
  <2>1. V4 \in Fam /\ k \in DOMAIN nat[V4] /\ Own(nat[V4][k]) /\ UNCHANGED <<job, faults>>
    BY <1>4, Actors DEF EditRule, Own
  <2>2. \/ nat' = [nat EXCEPT ![V4] = RemoveAt(@, k)]
        \/ \E w \in Want : nat' = [nat EXCEPT ![V4][k] = Changed(@, w)]
        \/ FreeIds # {} /\ nat' = [nat EXCEPT ![V4] = Append(@, [@[k] EXCEPT !.id = OneOf(FreeIds)])]
    BY <1>4 DEF EditRule
  <2>3. NatInv' /\ \A g \in Fam : Foreign(g)' = Foreign(g)
    BY <1>1, <2>1, <2>2, EditKeeps
  <2>4. TurnsInv'
    BY <1>1, <1>4, ServerDivertAssumption DEF EditRule, TurnsInv
  <2> QED
    BY <2>3, <2>4
<1>5. ASSUME NEW a \in DOMAIN NetOf \union {Nil}, EditAddress(a)
      PROVE  ServerInv' /\ \A f \in Fam : Foreign(f)' = Foreign(f)
  <2>1. UNCHANGED <<nat, job, faults>> /\ edits' \in 0 .. MaxEdits
    BY <1>1, <1>5, ServerDivertAssumption DEF EditAddress, natVars, TurnsInv
  <2>2. NatInv'
    BY <1>1, <2>1, NobodyCalls
  <2>3. TurnsInv'
    BY <1>1, <1>5, <2>1 DEF EditAddress, TurnsInv
  <2> QED
    BY <2>1, <2>2, <2>3 DEF Foreign
<1> QED
  BY <1>2, <1>3, <1>4, <1>5

\* A step of the hooks, the cleanups or the operator.
LEMMA ServerStep ==
  ServerInv /\ [Next]_vars => ServerInv' /\ (\A f \in Fam : Foreign(f)' = Foreign(f))
<1> SUFFICES ASSUME ServerInv, [Next]_vars
             PROVE  ServerInv' /\ \A f \in Fam : Foreign(f)' = Foreign(f)
  OBVIOUS
<1>1. CASE HookTick \/ HookTable6 \/ HookDone \/ MasqDone
           \/ \E a \in DOMAIN NetOf \union {Nil} : MasqAddress(a)
  BY <1>1, HooksKeepInv DEF Foreign
<1>2. CASE \/ \E p \in Proc : Call(p)
           \/ \E p \in {Cleanup, MasqCleanup} : CleanupNext(p)
           \/ \E k \in 1 .. MaxId : EditRule(k)
           \/ \E a \in DOMAIN NetOf \union {Nil} : EditAddress(a)
  BY <1>2, OthersKeepInv
<1>3. CASE UNCHANGED vars
  <2>1. UNCHANGED <<nat, job, faults, cfg, ifaddr, hpc, cleaned6, left, edits>>
    BY <1>3 DEF vars, natVars
  <2>2. NatInv' /\ TurnsInv'
    BY <2>1 DEF ServerInv, NatInv, TurnsInv
  <2> QED
    BY <2>1, <2>2 DEF ServerInv, Foreign
<1>4. Next => <1>1!1 \/ <1>2!1
  BY Actors DEF Next, HookStep, CleanupStep
<1> QED
  BY <1>1, <1>2, <1>3, <1>4

\* ServerInv holds in every state the hooks reach.
LEMMA ServerInvariance == Spec => []ServerInv
<1>1. ServerInv /\ [Next]_vars => ServerInv'
  BY ServerStep
<1> QED
  BY <1>1, ServerInit, PTL DEF Spec

\* Types, and that a tick of the hooks starts with nothing under way
\* (main.go:172-186, 294-396).
THEOREM ServerDivertTypeCorrect == Spec => []TypeOK
<1>1. ServerInv => TypeOK
  BY NatTypes DEF ServerInv, TurnsInv, TypeOK
<1> QED
  BY <1>1, ServerInvariance, PTL

\* Rules of other instances keep place and content while divert, masquerade,
\* both cleanups and the operator are at work in the same tables.
THEOREM ServerLeavesForeign == Spec => ForeignUntouched
<1>1. ServerInv /\ [Next]_vars => [\A f \in Fam : Foreign(f)' = Foreign(f)]_natVars
  BY ServerStep
<1> QED
  BY <1>1, ServerInvariance, PTL DEF Spec, ForeignUntouched
=============================================================================
