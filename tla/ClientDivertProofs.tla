------------------------- MODULE ClientDivertProofs -------------------------
(***************************************************************************)
(* The hook of client mode (cmd/awgproxy/main.go, makeClientDivertHook)    *)
(* with late cleanups and an operator at the same rules, for any tables,   *)
(* endpoints, faults, moves and edits: rules of other instances are never  *)
(* touched, and a tick that keeps the endpoint keeps its rule in force.    *)
(***************************************************************************)
EXTENDS ClientDivert, NatProofs

\* The tick works from a snapshot between two polls, and from none while it
\* waits; what it last cleared the other table for is a table.
TickInv ==
  /\ hpc \in {"wait", "none4", "none6", "idle", "apply"}
  /\ has6 \in BOOLEAN /\ upstream \in Value \union {Nil}
  /\ moves \in 0 .. MaxMoves /\ edits \in 0 .. MaxEdits
  /\ lastIs6 \in Fam \union {Nil}
  /\ hpc = "wait" => job[Hook].pc = "idle"
  /\ hsnap \in IF hpc \in {"idle", "apply"} THEN Value ELSE {Nil}

\* A cleanup goroutine has tables left in the order of cleanupDivert
\* (main.go:354-362), and is at none of them before it takes the first.
LateInv ==
  /\ left = [p \in Proc \ {Hook} |-> left[p]]
  /\ \A p \in Proc \ {Hook} :
       /\ left[p] \in {<<>>, <<V6>>, <<V4, V6>>}
       /\ left[p] = <<V4, V6>> => job[p].pc = "idle"

\* What the hook has under way is what its place in the tick says: nothing in
\* the endpoint's table until the other one was gone through, then Ensure of the
\* rule for the snapshot's endpoint.
Aims(pc, u, j) ==
  j.pc # "idle" =>
    /\ pc = "idle" => j.fam = Other(FamOf[u])
    /\ pc = "apply" /\ (FamOf[u] = V4 \/ has6) => j.fam = FamOf[u] /\ j.want = WantFor(u)

\* While the hook is alone at the rules, what it listed is in step with its table.
InStep == Undisturbed => Synced(nat[job[Hook].fam], Hook, job[Hook])

ClientInv == NatInv /\ TickInv /\ LateInv /\ Aims(hpc, hsnap, job[Hook]) /\ InStep

\* The tables are two.
LEMMA TwoTables ==
  /\ Hook \in Proc /\ V4 \in Fam /\ V6 \in Fam /\ V4 # V6
  /\ \A f \in Fam : Other(f) \in Fam /\ Other(f) # f
  /\ \A u \in Value : FamOf[u] \in Fam /\ WantFor(u) \in Want /\ u # Nil
BY ClientDivertAssumption DEF Other, WantFor, Want

\* Short tables.
LEMMA ShortTables ==
  ASSUME NEW a \in Rule, NEW b \in Rule, a.id # b.id
  PROVE  /\ <<>> \in Table /\ <<a, b>> \in Table
         /\ <<a>> \o <<>> \in Table /\ <<a>> \o <<b>> \in Table
<1>1. PICK e, x, y : e = <<>> /\ x = <<a>> /\ y = <<a, b>>
  OBVIOUS
<1>2. e \in Seq(Rule) /\ DOMAIN e = {}
  BY <1>1
<1>3. x \in Seq(Rule) /\ DOMAIN x = {1}
  BY <1>1
<1>4. y \in Seq(Rule) /\ DOMAIN y = {1, 2} /\ y[1] = a /\ y[2] = b
  BY <1>1
<1>5. e \in Table /\ x \in Table /\ y \in Table
  BY <1>2, <1>3, <1>4 DEF Table
<1>6. x \o e = x
  BY <1>1, <1>3, ConcatEmptySeq
<1>7. x \o <<b>> \in Table
  <2>1. PICK z : z = Append(x, b)
    OBVIOUS
  <2>2. z = x \o <<b>>
    BY <1>3, <2>1, AppendIsConcat
  <2>3. Len(x) = 1 /\ x[1] = a
    BY <1>1
  <2>4. z \in Seq(Rule) /\ Len(z) = 2 /\ z[1] = a /\ z[2] = b
    <3>1. PICK n : n = Len(x)
      OBVIOUS
    <3>2. /\ z \in Seq(Rule) /\ Len(z) = n + 1
          /\ \A i \in 1 .. n : z[i] = x[i]
          /\ z[n + 1] = b
      BY <1>3, <2>1, <3>1, AppendProperties
    <3>3. n = 1
      BY <2>3, <3>1
    <3> QED
      BY <2>3, <3>2, <3>3
  <2>5. DOMAIN z = {1, 2}
    <3>1. DOMAIN z = 1 .. 2
      BY <2>4, LenProperties
    <3> QED
      BY <3>1
  <2>6. z \in Table
    BY <2>4, <2>5 DEF Table
  <2> QED
    BY <2>2, <2>6
<1> QED
  BY <1>1, <1>5, <1>6, <1>7

\* Tables an earlier run left are tables.
LEMMA OldOnes == OldTables \subseteq {T : T \in [Fam -> Table]}
<1>1. PICK a : a = ForeignRule(1)
  OBVIOUS
<1>2. (CHOOSE m \in Markers : \A p \in Proc : m # Mark[p]) \in Markers
  BY ClientDivertAssumption
<1>3. (CHOOSE v \in Value : TRUE) \in Value
  BY ClientDivertAssumption
<1>4. 1 \in 1 .. MaxId /\ 2 \in 1 .. MaxId
  BY ClientDivertAssumption, NatAssumption
<1>5. a \in Rule /\ a.id = 1
  BY <1>1, <1>2, <1>3, <1>4, ClientDivertAssumption DEF ForeignRule, Rule
<1>6. \A c \in Chain, v \in Value : OldRule(2, c, v) \in Rule /\ OldRule(2, c, v).id = 2
  BY <1>4, ClientDivertAssumption, NatAssumption DEF OldRule, Rule
<1>7. ASSUME NEW c \in Chain, NEW v \in Value
      PROVE  /\ <<a>> \o <<OldRule(2, c, v)>> \in Table /\ <<OldRule(2, c, v), a>> \in Table
             /\ <<>> \in Table /\ <<a>> \o <<>> \in Table
  <2>1. PICK b : b = OldRule(2, c, v)
    OBVIOUS
  <2>2. a \in Rule /\ b \in Rule /\ a.id # b.id
    BY <1>5, <1>6, <2>1
  <2>3. <<a>> \o <<b>> \in Table /\ <<>> \in Table /\ <<a>> \o <<>> \in Table
    BY <2>2, ShortTables
  <2>4. <<b, a>> \in Table
    BY <2>2, ShortTables
  <2> QED
    BY <2>1, <2>3, <2>4
<1>8. <<>> \in Table /\ <<a>> \o <<>> \in Table
  <2>1. \E c \in Chain, v \in Value : TRUE
    BY ClientDivertAssumption
  <2> QED
    BY <1>7, <2>1
<1>9. ASSUME NEW T \in OldTables PROVE T \in [Fam -> Table]
  <2>1. CASE \E o \in {<<>>} \union {<<OldRule(2, c, v)>> : c \in Chain, v \in Value} :
               T = [f \in Fam |-> IF f = V4 THEN <<a>> \o o ELSE <<>>]
    <3>1. PICK o : /\ o \in {<<>>} \union {<<OldRule(2, c, v)>> : c \in Chain, v \in Value}
                   /\ T = [f \in Fam |-> IF f = V4 THEN <<a>> \o o ELSE <<>>]
      BY <2>1
    <3>2. <<a>> \o o \in Table
      <4>1. CASE o = <<>>
        BY <1>8, <4>1
      <4>2. CASE o # <<>>
        <5>1. PICK c \in Chain, v \in Value : o = <<OldRule(2, c, v)>>
          BY <3>1, <4>2
        <5>2. PICK b : b = <<OldRule(2, c, v)>>
          OBVIOUS
        <5>3. <<a>> \o b \in Table
          BY <1>7, <5>2
        <5> QED
          BY <5>1, <5>2, <5>3
      <4> QED
        BY <4>1, <4>2
    <3> QED
      BY <1>8, <3>1, <3>2
  <2>2. CASE \E c \in Chain, v \in Value :
               T = [f \in Fam |-> IF f = V4 THEN <<>> ELSE <<OldRule(2, c, v), a>>]
    BY <1>7, <1>8, <2>2
  <2> QED
    BY <1>1, <2>1, <2>2 DEF OldTables
<1> QED
  BY <1>9

\* The stack starts with nothing under way.
LEMMA ClientInit == Init => ClientInv
<1> SUFFICES ASSUME Init PROVE ClientInv
  OBVIOUS
<1>1. nat \in [Fam -> Table]
  BY OldOnes DEF Init
<1>2. TablesOK(nat)
  BY <1>1 DEF TablesOK
<1>3. faults \in 0 .. MaxFaults
  BY NatAssumption DEF Init
<1>4. NatInv /\ \A p \in Proc : job[p].pc = "idle"
  BY <1>2, <1>3, AtRest DEF Init
<1>5. TickInv
  <2>1. /\ hpc = "wait" /\ hsnap = Nil /\ lastIs6 = Nil /\ moves = 0 /\ edits = 0
        /\ has6 \in BOOLEAN /\ upstream \in Value \union {Nil}
    BY DEF Init
  <2>2. moves \in 0 .. MaxMoves /\ edits \in 0 .. MaxEdits
    BY <2>1, ClientDivertAssumption
  <2>3. job[Hook].pc = "idle"
    BY <1>4, TwoTables
  <2> QED
    BY <2>1, <2>2, <2>3 DEF TickInv
<1>6. LateInv
  BY <1>4 DEF Init, LateInv
<1>7. Aims(hpc, hsnap, job[Hook]) /\ InStep
  BY <1>4, TwoTables DEF Aims, InStep, Synced
<1> QED
  BY <1>4, <1>5, <1>6, <1>7 DEF ClientInv

\* A tick calls Ensure or Remove.
LEMMA HookCalls ==
  ASSUME ClientInv, NEW f \in Fam, NEW w \in Want \union {Nil},
         job' = [job EXCEPT ![Hook] = Doing("list", f, w, <<>>, FALSE)], UNCHANGED nat,
         faults' \in 0 .. MaxFaults, UNCHANGED left
  PROVE  /\ NatInv' /\ LateInv' /\ InStep'
         /\ job'[Hook].pc = "list" /\ job'[Hook].fam = f /\ job'[Hook].want = w
<1>1. NatInv'
  BY CallStarts, TwoTables DEF ClientInv
<1>2. job = [q \in Proc |-> job[q]]
  BY DEF ClientInv, NatInv, JobsOK
<1>3. /\ job'[Hook] = Doing("list", f, w, <<>>, FALSE)
      /\ \A q \in Proc \ {Hook} : job'[q] = job[q]
  BY <1>2, TwoTables
<1>4. job'[Hook].pc = "list" /\ job'[Hook].fam = f /\ job'[Hook].want = w
  BY <1>3 DEF Doing
<1>5. LateInv'
  BY <1>3 DEF ClientInv, LateInv
<1>6. InStep'
  BY <1>3, <1>4 DEF InStep, Synced
<1> QED
  BY <1>1, <1>3, <1>4, <1>5, <1>6

\* Ensure of the snapshot's endpoint, or Remove for want of container_addr6.
LEMMA ApplyCalls ==
  ASSUME ClientInv, NEW u \in Value, job' = [job EXCEPT ![Hook] = ApplyJob(u)],
         UNCHANGED <<nat, left, has6>>, faults' \in 0 .. MaxFaults
  PROVE  NatInv' /\ LateInv' /\ InStep' /\ Aims("apply", u, job[Hook])'
<1>1. CASE FamOf[u] = V6 /\ ~has6
  <2>1. job' = [job EXCEPT ![Hook] = Doing("list", V6, Nil, <<>>, FALSE)]
    BY <1>1 DEF ApplyJob, Removing
  <2>2. NatInv' /\ LateInv' /\ InStep'
    BY <2>1, HookCalls, TwoTables
  <2>3. Aims("apply", u, job[Hook])'
    BY <1>1, TwoTables DEF Aims
  <2> QED
    BY <2>2, <2>3
<1>2. CASE ~(FamOf[u] = V6 /\ ~has6)
  <2>1. PICK f, w : f = FamOf[u] /\ w = WantFor(u)
    OBVIOUS
  <2>2. f \in Fam /\ w \in Want
    BY <2>1, TwoTables
  <2>3. job' = [job EXCEPT ![Hook] = Doing("list", f, w, <<>>, FALSE)]
    BY <1>2, <2>1 DEF ApplyJob, Ensuring
  <2>4. NatInv' /\ LateInv' /\ InStep' /\ job'[Hook].fam = f /\ job'[Hook].want = w
    BY <2>2, <2>3, HookCalls
  <2>5. Aims("apply", u, job[Hook])'
    BY <2>1, <2>4 DEF Aims
  <2> QED
    BY <2>4, <2>5
<1> QED
  BY <1>1, <1>2

\* A tick of the hook, between the calls of the router's API (main.go:219-285).
LEMMA TickKeepsInv ==
  ASSUME ClientInv,
         \/ \E u \in Value \union {Nil} : HookTick(u)
         \/ HookNone4 \/ HookNone6 \/ HookIdle \/ HookApply
  PROVE  ClientInv' /\ UNCHANGED nat
<1>1. NatInv /\ TickInv /\ LateInv /\ Aims(hpc, hsnap, job[Hook]) /\ InStep
  BY DEF ClientInv
<1>2. faults \in 0 .. MaxFaults
  BY <1>1 DEF NatInv
<1>3. ASSUME NEW u \in Value \union {Nil}, HookTick(u) PROVE ClientInv' /\ UNCHANGED nat
  <2>1. faults' \in 0 .. MaxFaults
    BY <1>1, <1>3, Counted DEF HookTick
  <2>2. /\ hpc = "wait" /\ hsnap' = u
        /\ UNCHANGED <<nat, has6, upstream, moves, edits, lastIs6, left>>
    BY <1>3 DEF HookTick, operator
  <2>3. CASE u = Nil
    <3>1. hpc' = "none4" /\ job' = [job EXCEPT ![Hook] = Doing("list", V4, Nil, <<>>, FALSE)]
      BY <1>3, <2>3 DEF HookTick, Removing
    <3>2. NatInv' /\ LateInv' /\ InStep'
      BY <2>1, <2>2, <3>1, HookCalls, TwoTables
    <3>3. TickInv'
      BY <1>1, <2>2, <2>3, <3>1 DEF TickInv
    <3>4. Aims(hpc, hsnap, job[Hook])'
      BY <3>1 DEF Aims
    <3> QED
      BY <2>2, <3>2, <3>3, <3>4 DEF ClientInv
  <2>4. CASE u \in Value /\ lastIs6 # FamOf[u]
    <3>1. PICK f : f = Other(FamOf[u])
      OBVIOUS
    <3>2. f \in Fam /\ u # Nil
      BY <2>4, <3>1, TwoTables
    <3>3. hpc' = "idle" /\ job' = [job EXCEPT ![Hook] = Doing("list", f, Nil, <<>>, FALSE)]
      BY <1>3, <2>4, <3>1, <3>2 DEF HookTick, Removing
    <3>4. NatInv' /\ LateInv' /\ InStep' /\ job'[Hook].fam = f
      BY <2>1, <2>2, <3>2, <3>3, HookCalls
    <3>5. TickInv'
      BY <1>1, <2>2, <2>4, <3>3 DEF TickInv
    <3>6. Aims(hpc, hsnap, job[Hook])'
      BY <2>2, <3>1, <3>3, <3>4 DEF Aims
    <3> QED
      BY <2>2, <3>4, <3>5, <3>6 DEF ClientInv
  <2>5. CASE u \in Value /\ lastIs6 = FamOf[u]
    <3>1. hpc' = "apply" /\ job' = [job EXCEPT ![Hook] = ApplyJob(u)]
      BY <1>3, <2>5, TwoTables DEF HookTick
    <3>2. NatInv' /\ LateInv' /\ InStep' /\ Aims("apply", u, job[Hook])'
      BY <2>1, <2>2, <2>5, <3>1, ApplyCalls
    <3>3. TickInv'
      BY <1>1, <2>2, <2>5, <3>1 DEF TickInv
    <3>4. Aims(hpc, hsnap, job[Hook])'
      BY <2>2, <3>1, <3>2 DEF Aims
    <3> QED
      BY <2>2, <3>2, <3>3, <3>4 DEF ClientInv
  <2> QED
    BY <2>3, <2>4, <2>5
<1>4. CASE HookNone4
  <2>1. /\ hpc = "none4" /\ hpc' = "none6" /\ job' = [job EXCEPT ![Hook] = Doing("list", V6, Nil, <<>>, FALSE)]
        /\ UNCHANGED <<nat, faults, has6, upstream, moves, edits, hsnap, lastIs6, left>>
    BY <1>4 DEF HookNone4, Removing, operator
  <2>2. NatInv' /\ LateInv' /\ InStep'
    BY <1>2, <2>1, HookCalls, TwoTables
  <2>3. TickInv'
    BY <1>1, <2>1 DEF TickInv
  <2>4. Aims(hpc, hsnap, job[Hook])'
    BY <2>1 DEF Aims
  <2> QED
    BY <2>1, <2>2, <2>3, <2>4 DEF ClientInv
<1>5. CASE HookIdle
  <2>1. /\ hpc = "idle" /\ hpc' = "apply" /\ job' = [job EXCEPT ![Hook] = ApplyJob(hsnap)]
        /\ lastIs6' \in {lastIs6, FamOf[hsnap]}
        /\ UNCHANGED <<nat, faults, has6, upstream, moves, edits, hsnap, left>>
    BY <1>5 DEF HookIdle, operator
  <2>2. hsnap \in Value /\ FamOf[hsnap] \in Fam
    BY <1>1, <2>1, TwoTables DEF TickInv
  <2>3. NatInv' /\ LateInv' /\ InStep' /\ Aims("apply", hsnap, job[Hook])'
    BY <1>2, <2>1, <2>2, ApplyCalls DEF Aims
  <2>4. TickInv'
    BY <1>1, <2>1, <2>2 DEF TickInv
  <2>5. Aims(hpc, hsnap, job[Hook])'
    BY <2>1, <2>3 DEF Aims
  <2> QED
    BY <2>1, <2>3, <2>4, <2>5 DEF ClientInv
<1>6. CASE HookNone6 \/ HookApply
  <2>1. /\ hpc' = "wait" /\ hsnap' = Nil /\ lastIs6' \in {lastIs6, Nil} /\ job[Hook].pc = "idle"
        /\ UNCHANGED <<nat, job, faults, has6, upstream, moves, edits, left>>
    BY <1>6 DEF HookNone6, HookApply, operator, natVars
  <2>2. NatInv'
    BY <1>1, <1>2, <2>1, NobodyCalls
  <2>3. LateInv'
    BY <1>1, <2>1 DEF LateInv
  <2>4. TickInv'
    BY <1>1, <2>1 DEF TickInv
  <2>5. Aims(hpc, hsnap, job[Hook])'
    BY <2>1 DEF Aims
  <2>6. InStep'
    BY <2>1 DEF InStep, Synced
  <2> QED
    BY <2>1, <2>2, <2>3, <2>4, <2>5, <2>6 DEF ClientInv
<1> QED
  BY <1>3, <1>4, <1>5, <1>6

\* A call of the hook.
LEMMA HookCallKeepsInv ==
  ASSUME ClientInv, Call(Hook)
  PROVE  ClientInv' /\ \A f \in Fam : Foreign(f)' = Foreign(f)
<1>1. NatInv /\ TickInv /\ LateInv /\ Aims(hpc, hsnap, job[Hook]) /\ InStep /\ Hook \in Proc
  BY TwoTables DEF ClientInv
<1>2. Reconcile(Hook) /\ UNCHANGED <<has6, upstream, moves, edits, hpc, hsnap, lastIs6, left>>
  BY DEF Call, operator, hookVars
<1>3. NatInv' /\ \A f \in Fam : Foreign(f)' = Foreign(f)
  BY <1>1, <1>2, ReconcileKeeps
<1>4. job[Hook].pc # "idle" /\ \A q \in Proc : q # Hook => job'[q] = job[q]
  BY <1>1, <1>2, OwnJobOnly
<1>5. TickInv'
  BY <1>1, <1>2, <1>4 DEF TickInv
<1>6. LateInv'
  BY <1>1, <1>2, <1>4 DEF LateInv
<1>7. Aims(hpc, hsnap, job[Hook])'
  <2>1. job'[Hook].pc # "idle" => job'[Hook].fam = job[Hook].fam /\ job'[Hook].want = job[Hook].want
    BY <1>1, <1>2, SameAim
  <2> QED
    BY <1>1, <1>2, <1>4, <2>1 DEF Aims
<1>8. InStep'
  <2>1. Undisturbed' => Undisturbed
    BY <1>2 DEF Undisturbed
  <2>2. Synced(nat[job[Hook].fam], Hook, job[Hook]) => Synced(nat'[job'[Hook].fam], Hook, job'[Hook])
    BY <1>1, <1>2, StaysSynced
  <2> QED
    BY <1>1, <2>1, <2>2 DEF InStep
<1> QED
  BY <1>3, <1>5, <1>6, <1>7, <1>8 DEF ClientInv

\* A cleanup goroutine that goes on to its next table, or has begun and calls.
LEMMA CleanupKeepsInv ==
  ASSUME ClientInv, NEW p \in Proc \ {Hook}, CleanupNext(p) \/ Call(p)
  PROVE  ClientInv' /\ \A f \in Fam : Foreign(f)' = Foreign(f)
<1>1. NatInv /\ TickInv /\ LateInv /\ Aims(hpc, hsnap, job[Hook]) /\ InStep
  BY DEF ClientInv
<1>2. job = [q \in Proc |-> job[q]] /\ faults \in 0 .. MaxFaults
  BY <1>1 DEF NatInv, JobsOK
<1>3. PICK b : b = <<V4, V6>>
  OBVIOUS
<1>4. b # <<>> /\ b # <<V6>> /\ Head(b) = V4 /\ Tail(b) = <<V6>>
  <2>1. Len(b) = 2 /\ Len(<<V6>>) = 1
    BY <1>3
  <2> QED
    BY <1>3, <2>1
<1>5. CASE CleanupNext(p)
  <2>1. left[p] \in {<<V6>>, b} /\ job[p].pc = "idle"
    BY <1>1, <1>3, <1>5 DEF CleanupNext, LateInv
  <2>2. Head(<<V6>>) = V6 /\ Tail(<<V6>>) = <<>>
    OBVIOUS
  <2>3. Head(left[p]) \in Fam /\ Tail(left[p]) \in {<<>>, <<V6>>}
    BY <1>4, <2>1, <2>2, TwoTables
  <2>4. PICK f \in Fam : f = Head(left[p])
    BY <2>3
  <2>5. /\ job' = [job EXCEPT ![p] = Doing("list", f, Nil, <<>>, FALSE)]
        /\ left' = [left EXCEPT ![p] = Tail(left[p])]
        /\ UNCHANGED <<nat, faults, has6, upstream, moves, edits, hpc, hsnap, lastIs6>>
    BY <1>5, <2>4 DEF CleanupNext, Removing, operator, hookVars
  <2>6. NatInv'
    BY <1>1, <1>2, <2>5, CallStarts
  <2>7. \A q \in Proc : q # p => job'[q] = job[q]
    BY <1>2, <2>5
  <2>8. left' = [q \in Proc \ {Hook} |-> IF q = p THEN Tail(left[p]) ELSE left[q]]
    BY <1>1, <2>5 DEF LateInv
  <2>9. left'[p] \in {<<>>, <<V6>>} /\ left'[p] # b
    BY <1>4, <2>3, <2>8
  <2>10. LateInv'
    <3>1. left' = [q \in Proc \ {Hook} |-> left'[q]]
      BY <2>8
    <3>2. ASSUME NEW q \in Proc \ {Hook}
          PROVE  left'[q] \in {<<>>, <<V6>>, <<V4, V6>>} /\ (left'[q] = <<V4, V6>> => job'[q].pc = "idle")
      <4>1. CASE q = p
        BY <1>3, <2>9, <4>1
      <4>2. CASE q # p
        <5>1. left'[q] = left[q] /\ job'[q] = job[q]
          BY <2>7, <2>8, <4>2
        <5> QED
          BY <1>1, <5>1 DEF LateInv
      <4> QED
        BY <4>1, <4>2
    <3> QED
      BY <3>1, <3>2 DEF LateInv
  <2>11. job'[Hook] = job[Hook]
    BY <2>7, TwoTables
  <2>12. TickInv' /\ Aims(hpc, hsnap, job[Hook])'
    BY <1>1, <2>5, <2>11 DEF TickInv, Aims
  <2>13. InStep'
    BY <1>3, <2>9 DEF InStep, Undisturbed
  <2> QED
    BY <2>5, <2>6, <2>10, <2>12, <2>13 DEF ClientInv, Foreign
<1>6. CASE Call(p)
  <2>1. Reconcile(p) /\ UNCHANGED <<has6, upstream, moves, edits, hpc, hsnap, lastIs6, left>>
    BY <1>6 DEF Call, operator, hookVars
  <2>2. NatInv' /\ \A f \in Fam : Foreign(f)' = Foreign(f)
    BY <1>1, <2>1, ReconcileKeeps
  <2>3. job[p].pc # "idle" /\ \A q \in Proc : q # p => job'[q] = job[q]
    BY <1>1, <2>1, OwnJobOnly
  <2>4. job'[Hook] = job[Hook]
    BY <2>3, TwoTables
  <2>5. TickInv' /\ Aims(hpc, hsnap, job[Hook])'
    BY <1>1, <2>1, <2>4 DEF TickInv, Aims
  <2>6. left[p] # <<V4, V6>>
    BY <1>1, <2>3 DEF LateInv
  <2>7. LateInv'
    BY <1>1, <2>1, <2>3, <2>6 DEF LateInv
  <2>8. InStep'
    BY <2>1, <2>6 DEF InStep, Undisturbed
  <2> QED
    BY <2>2, <2>5, <2>7, <2>8 DEF ClientInv
<1> QED
  BY <1>5, <1>6

\* The operator.
LEMMA OperatorKeepsInv ==
  ASSUME ClientInv,
         \/ \E u \in Value \union {Nil} : MoveEndpoint(u)
         \/ \E f \in Fam, k \in 1 .. MaxId : EditRule(f, k)
  PROVE  ClientInv' /\ \A f \in Fam : Foreign(f)' = Foreign(f)
<1>1. NatInv /\ TickInv /\ LateInv /\ Aims(hpc, hsnap, job[Hook]) /\ InStep /\ faults \in 0 .. MaxFaults
  BY DEF ClientInv, NatInv
<1>2. ASSUME NEW u \in Value \union {Nil}, MoveEndpoint(u)
      PROVE  ClientInv' /\ \A f \in Fam : Foreign(f)' = Foreign(f)
  <2>1. UNCHANGED <<nat, job, faults, has6, edits, hpc, hsnap, lastIs6, left>>
    BY <1>2 DEF MoveEndpoint, natVars, hookVars
  <2>2. upstream' = u /\ moves' \in 0 .. MaxMoves
    BY <1>1, <1>2, ClientDivertAssumption DEF MoveEndpoint, TickInv
  <2>3. NatInv'
    BY <1>1, <2>1, NobodyCalls
  <2>4. TickInv'
    BY <1>1, <2>1, <2>2 DEF TickInv
  <2>5. LateInv' /\ Aims(hpc, hsnap, job[Hook])'
    BY <1>1, <2>1 DEF LateInv, Aims
  <2>6. InStep'
    BY <1>1, <2>1 DEF InStep, Undisturbed
  <2> QED
    BY <2>1, <2>3, <2>4, <2>5, <2>6 DEF ClientInv, Foreign
<1>3. ASSUME NEW f \in Fam, NEW k \in 1 .. MaxId, EditRule(f, k)
      PROVE  ClientInv' /\ \A g \in Fam : Foreign(g)' = Foreign(g)
  <2>1. /\ k \in DOMAIN nat[f] /\ Own(nat[f][k]) /\ edits < MaxEdits /\ edits' = edits + 1
        /\ UNCHANGED <<job, faults, has6, upstream, moves, hpc, hsnap, lastIs6, left>>
    BY <1>3, TwoTables DEF EditRule, Own, hookVars
  <2>2. \/ nat' = [nat EXCEPT ![f] = RemoveAt(@, k)]
        \/ \E w \in Want : nat' = [nat EXCEPT ![f][k] = Changed(@, w)]
        \/ FreeIds # {} /\ nat' = [nat EXCEPT ![f] = Append(@, [@[k] EXCEPT !.id = OneOf(FreeIds)])]
    BY <1>3 DEF EditRule
  <2>3. NatInv' /\ \A g \in Fam : Foreign(g)' = Foreign(g)
    BY <1>1, <2>1, <2>2, EditKeeps
  <2>4. edits' \in 0 .. MaxEdits /\ edits' # 0
    BY <1>1, <2>1, ClientDivertAssumption DEF TickInv
  <2>5. TickInv' /\ LateInv' /\ Aims(hpc, hsnap, job[Hook])'
    BY <1>1, <2>1, <2>4 DEF TickInv, LateInv, Aims
  <2>6. InStep'
    BY <2>4 DEF InStep, Undisturbed
  <2> QED
    BY <2>3, <2>5, <2>6 DEF ClientInv
<1> QED
  BY <1>2, <1>3

\* Any step.
LEMMA ClientStep ==
  ClientInv /\ [Next]_vars => ClientInv' /\ \A f \in Fam : Foreign(f)' = Foreign(f)
<1> SUFFICES ASSUME ClientInv, [Next]_vars
             PROVE  ClientInv' /\ \A f \in Fam : Foreign(f)' = Foreign(f)
  OBVIOUS
<1>1. CASE HookStep
  BY <1>1, TickKeepsInv, HookCallKeepsInv DEF HookStep, Foreign
<1>2. ASSUME NEW p \in Proc \ {Hook}, CleanupNext(p) \/ Call(p)
      PROVE  ClientInv' /\ \A f \in Fam : Foreign(f)' = Foreign(f)
  BY <1>2, CleanupKeepsInv
<1>3. CASE \/ \E u \in Value \union {Nil} : MoveEndpoint(u)
           \/ \E f \in Fam, k \in 1 .. MaxId : EditRule(f, k)
  BY <1>3, OperatorKeepsInv
<1>4. CASE UNCHANGED vars
  <2>1. UNCHANGED <<nat, job, faults, has6, upstream, moves, edits, hpc, hsnap, lastIs6, left>>
    BY <1>4 DEF vars, natVars, operator, hookVars
  <2>2. NatInv' /\ TickInv' /\ LateInv' /\ Aims(hpc, hsnap, job[Hook])'
    BY <2>1 DEF ClientInv, NatInv, TickInv, LateInv, Aims
  <2>3. InStep'
    BY <2>1 DEF ClientInv, InStep, Undisturbed
  <2> QED
    BY <2>1, <2>2, <2>3 DEF ClientInv, Foreign
<1> QED
  BY <1>1, <1>2, <1>3, <1>4 DEF Next

\* ClientInv holds in every state the hook reaches.
LEMMA ClientInvariance == Spec => []ClientInv
<1>1. ClientInv /\ [Next]_vars => ClientInv'
  BY ClientStep
<1> QED
  BY <1>1, ClientInit, PTL DEF Spec

\* Types, and that a tick begins with no snapshot and nothing under way
\* (main.go:219-285).
THEOREM ClientDivertTypeCorrect == Spec => []TypeOK
<1>1. ClientInv => TypeOK
  BY NatTypes DEF ClientInv, TickInv, TypeOK
<1> QED
  BY <1>1, ClientInvariance, PTL

\* Rules of other instances keep place and content while the hook, late cleanups
\* and the operator are at work in the same tables (nat.go:11-13).
THEOREM ClientLeavesForeign == Spec => ForeignUntouched
<1>1. ClientInv /\ [Next]_vars => [\A f \in Fam : Foreign(f)' = Foreign(f)]_natVars
  BY ClientStep
<1> QED
  BY <1>1, ClientInvariance, PTL DEF Spec, ForeignUntouched

-----------------------------------------------------------------------------
(* No interruption.                                                         *)

\* The first of our rules in table s is for u.
Served(s, u) ==
  LET ours == Ours(Hook, s) IN ours # <<>> /\ ours[1].chain = Output /\ ours[1].val = u

\* It is the rule in force.
LEMMA ServedServes ==
  ASSUME NEW s \in Table, NEW u
  PROVE  Served(s, u) <=> Serves(Hook, s, WantFor(u))
<1>1. PICK x : x = Ours(Hook, s)
  OBVIOUS
<1>2. /\ \A k \in DOMAIN s : FirstAt(Hook, s, k) => x # <<>> /\ x[1] = s[k]
      /\ x # <<>> => \E k \in DOMAIN s : FirstAt(Hook, s, k) /\ x[1] = s[k]
  BY <1>1, FirstOurs, TwoTables
<1>3. WantFor(u).chain = Output /\ WantFor(u).val = u
  BY DEF WantFor
<1>4. Served(s, u) <=> x # <<>> /\ x[1].chain = Output /\ x[1].val = u
  BY <1>1 DEF Served
<1> QED
  BY <1>2, <1>3, <1>4 DEF Serves

\* A step of the hook in the tick.
LEMMA KeepsServing ==
  ASSUME ClientInv, Undisturbed, HookStep, hsnap # Nil, hsnap' = hsnap, FamOf[hsnap] = V4 \/ has6,
         Served(nat[FamOf[hsnap]], hsnap)
  PROVE  Served(nat'[FamOf[hsnap]], hsnap)
<1>1. PICK f, w : f = FamOf[hsnap] /\ w = WantFor(hsnap)
  OBVIOUS
<1>2. NatInv /\ TickInv /\ Aims(hpc, hsnap, job[Hook]) /\ NatInv' /\ Hook \in Proc
  BY ClientStep, TwoTables DEF ClientInv, Next
<1>3. hsnap \in Value /\ hpc \in {"idle", "apply"}
  BY <1>2 DEF TickInv
<1>4. f \in Fam /\ w \in Want /\ nat[f] \in Table /\ nat'[f] \in Table
  BY <1>1, <1>2, <1>3, TwoTables DEF NatInv, TablesOK
<1>5. Serves(Hook, nat[f], w)
  BY <1>1, <1>4, ServedServes
<1>6. CASE Call(Hook)
  <2>1. Reconcile(Hook) /\ job[Hook].pc # "idle"
    BY <1>2, <1>6, OwnJobOnly DEF Call
  <2>2. CASE hpc = "idle"
    <3>1. job[Hook].fam = Other(f)
      BY <1>1, <1>2, <2>1, <2>2 DEF Aims
    <3>2. f # job[Hook].fam
      BY <1>4, <3>1, TwoTables
    <3>3. nat'[f] = nat[f]
      BY <1>2, <1>4, <2>1, <3>2, OneTable
    <3> QED
      BY <1>1, <3>3
  <2>3. CASE hpc = "apply"
    <3>1. f = job[Hook].fam /\ job[Hook].want = w
      BY <1>1, <1>2, <2>1, <2>3 DEF Aims
    <3>2. Synced(nat[f], Hook, job[Hook])
      BY <3>1 DEF ClientInv, InStep
    <3>3. Serves(Hook, nat'[f], w)
      BY <1>2, <1>4, <1>5, <2>1, <3>1, <3>2, EnsureServes
    <3> QED
      BY <1>1, <1>4, <3>3, ServedServes
  <2> QED
    BY <1>3, <2>2, <2>3
<1>7. CASE \/ \E u \in Value \union {Nil} : HookTick(u)
           \/ HookNone4 \/ HookNone6 \/ HookIdle \/ HookApply
  BY <1>1, <1>7, TickKeepsInv
<1> QED
  BY <1>6, <1>7 DEF HookStep

\* A step of the hook never interrupts the divert of an endpoint the tick keeps:
\* duplicates, failed and doubled calls and the other table notwithstanding
\* (nat.go:57-106, main.go:219-285).
THEOREM ClientNoInterruption == Spec => NoInterruption
<1>1. ClientInv /\ [Next]_vars =>
        [Undisturbed /\ HookStep /\ hsnap # Nil /\ hsnap' = hsnap /\ (FamOf[hsnap] = V4 \/ has6) =>
           LET f == FamOf[hsnap]
               served(t) == LET ours == Ours(Hook, t[f]) IN
                              ours # <<>> /\ ours[1].chain = Output /\ ours[1].val = hsnap
           IN served(nat) => served(nat')]_vars
  BY KeepsServing DEF Served
<1> QED
  BY <1>1, ClientInvariance, PTL DEF Spec, NoInterruption
=============================================================================
