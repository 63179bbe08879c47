-------------------------- MODULE WebServerProofs --------------------------
(***************************************************************************)
(* The web panel (internal/api/auth.go, server.go) over the shared         *)
(* connection (router/binapi/client.go): who gets past the gate, and what  *)
(* DialerProofs shows of calls and handlers, for all of WebServer's steps. *)
(***************************************************************************)
EXTENDS WebServer, DialerProofs, FiniteSetTheorems

-----------------------------------------------------------------------------
(* The gate.                                                                *)

Whole(q) == [pc |-> q.pc, kind |-> q.kind, tok |-> q.tok, rt |-> q.rt, ok |-> q.ok, age |-> q.age]

\* A request asks about one router, and no longer than a dial may take.
ReqOK(q) ==
  /\ q = Whole(q)
  /\ q.tok \in Token \union {Nil} /\ q.rt \in Router \union {Nil}
  /\ q.ok \in BOOLEAN /\ q.age \in 0 .. ReachTimeout
  /\ q.pc \in {"reach", "dial", "store"} => q.rt \in Router

SharedOK ==
  /\ addr \in Router \union {Nil} /\ up \subseteq Router
  /\ reach \in [key : Router \union {Nil}, at : 0 .. ReachCacheTTL, ok : BOOLEAN]
  /\ limit \in [fails : 0 .. MaxFails, first : 0 .. FailWindow + 1, lock : 0 .. LockoutTime]

\* A token in the map is as old as it was issued.
TokensOK ==
  /\ tokens = [t \in Token |-> tokens[t]] /\ life = [t \in Token |-> life[t]]
  /\ \A t \in Token : tokens[t] # Nil => tokens[t] = life[t]

RequestsOK == req = [r \in Request |-> req[r]] /\ \A r \in Request : ReqOK(req[r])

\* How long ago a router was down at most: now, before a probe that failed
\* went out, and before the cached answer was stored.
ProbeOK(q) == q.pc = "store" /\ q.ok = FALSE => sawDown[q.rt] <= q.age
CacheOK ==
  reach.key \in Router /\ reach.ok = FALSE /\ reach.at < ReachCacheTTL
    => sawDown[reach.key] <= reach.at + ReachTimeout
DownsOK ==
  /\ sawDown \in [Router -> 0 .. Stale]
  /\ \A a \in Router \ up : sawDown[a] = 0
  /\ \A r \in Request : ProbeOK(req[r])
  /\ CacheOK

AuthInv == env \in Workloads /\ SharedOK /\ TokensOK /\ RequestsOK /\ DownsOK

\* The durations of auth.go and server.go are natural numbers.
LEMMA Times ==
  /\ FailWindow \in Nat /\ LockoutTime \in Nat /\ SessionTTL \in Nat /\ ReachCacheTTL \in Nat
  /\ ReachTimeout \in Nat /\ MaxFails \in Nat
  /\ ReachCacheTTL > 0 /\ MaxFails > 0 /\ Stale = ReachCacheTTL + ReachTimeout
BY WebAuthAssumption DEF Stale

\* A record at rest is one a request may have; outside the probe (routerReachable)
\* moving the program counter asks nothing more.
LEMMA IdleOK ==
  /\ ReqOK(Idle) /\ Idle.pc = "idle"
  /\ \A q, pc : ReqOK(q) /\ pc \notin {"reach", "dial", "store"} => ReqOK(At(q, pc)) /\ At(q, pc).pc = pc
<1>1. /\ Idle.pc = "idle" /\ Idle.tok = Nil /\ Idle.rt = Nil /\ Idle = Whole(Idle)
      /\ Idle.ok \in BOOLEAN
  BY DEF Idle, Whole
<1>2. Idle.age \in 0 .. ReachTimeout
  BY Times DEF Idle
<1>3. ReqOK(Idle)
  BY <1>1, <1>2 DEF ReqOK
<1>4. ASSUME NEW q, NEW pc, ReqOK(q), pc \notin {"reach", "dial", "store"}
      PROVE  ReqOK(At(q, pc)) /\ At(q, pc).pc = pc
  <2> DEFINE x == At(q, pc)
  <2>1. x = [pc |-> pc, kind |-> q.kind, tok |-> q.tok, rt |-> Idle.rt, ok |-> Idle.ok, age |-> Idle.age]
    <3>1. PICK i, k, l, m, n, o : i = Idle.pc /\ k = Idle.kind /\ l = Idle.tok /\ m = Idle.rt /\ n = Idle.ok /\ o = Idle.age
      OBVIOUS
    <3>2. PICK z : z = Idle
      OBVIOUS
    <3>3. z = [pc |-> i, kind |-> k, tok |-> l, rt |-> m, ok |-> n, age |-> o]
      BY <1>1, <3>1, <3>2 DEF Whole
    <3>4. PICK y : y = [z EXCEPT !.pc = pc]
      OBVIOUS
    <3>5. y = [pc |-> pc, kind |-> k, tok |-> l, rt |-> m, ok |-> n, age |-> o]
      BY <3>3, <3>4
    <3>6. PICK u : u = [y EXCEPT !.kind = q.kind]
      OBVIOUS
    <3>7. u = [pc |-> pc, kind |-> q.kind, tok |-> l, rt |-> m, ok |-> n, age |-> o]
      BY <3>5, <3>6
    <3>8. x = [u EXCEPT !.tok = q.tok]
      BY <3>2, <3>4, <3>6 DEF At
    <3> QED
      BY <3>1, <3>7, <3>8
  <2>2. x.pc = pc /\ x.kind = q.kind /\ x.tok = q.tok /\ x.rt = Idle.rt /\ x.age = Idle.age /\ x.ok = Idle.ok
    BY <2>1
  <2>3. x = Whole(x)
    BY <2>1 DEF Whole
  <2> HIDE DEF x
  <2>4. x.ok \in BOOLEAN
    BY <1>1, <2>2
  <2>5. ReqOK(x) /\ x.pc = pc
    BY <1>1, <1>2, <1>4, <2>2, <2>3, <2>4 DEF ReqOK
  <2> QED
    BY <2>5 DEF x
<1> QED
  BY <1>1, <1>3, <1>4

\* Without a login a request is served, or a login has nothing to do.
LEMMA ToldOK ==
  ASSUME NEW q, ReqOK(q), NEW required \in BOOLEAN
  PROVE  /\ ReqOK(Told(q, required)) /\ Told(q, required).pc \in {"limit", "session", "idle", "served"}
         /\ Told(q, required).pc = "served" => ~required
<1>1. CASE required = TRUE
  <2>1. Told(q, required) \in {At(q, "limit"), At(q, "session")}
    BY <1>1 DEF Told
  <2>2. /\ ReqOK(Told(q, required)) /\ Told(q, required).pc \in {"limit", "session"}
    BY <2>1, IdleOK
  <2> QED
    BY <1>1, <2>2
<1>2. CASE required = FALSE
  <2>1. Told(q, required) \in {Idle, At(q, "served")}
    BY <1>2 DEF Told
  <2>2. /\ ReqOK(Told(q, required)) /\ Told(q, required).pc \in {"idle", "served"}
    BY <2>1, IdleOK
  <2> QED
    BY <1>2, <2>2
<1> QED
  BY <1>1, <1>2

\* Why whoever is served was let in.
Admitted(r) == req[r].pc # "served" /\ req'[r].pc = "served" => Justified(r)
GateStep == AuthInv' /\ \A r \in Request : Admitted(r)

\* One request goes on while routers stay as they are.
LEMMA RequestMoves ==
  ASSUME AuthInv, NEW r \in Request, NEW q, ReqOK(q), ProbeOK(q), req' = [req EXCEPT ![r] = q],
         q.pc = "served" => Justified(r), UNCHANGED <<env, up, sawDown>>, SharedOK', TokensOK', CacheOK'
  PROVE  GateStep
<1>1. req = [s \in Request |-> req[s]]
  BY DEF AuthInv, RequestsOK
<1>2. req'[r] = q /\ \A s \in Request : s # r => req'[s] = req[s]
  BY <1>1
<1>3. RequestsOK'
  BY <1>1, <1>2 DEF AuthInv, RequestsOK
<1>4. \A s \in Request : ProbeOK(req[s])'
  BY <1>2 DEF AuthInv, DownsOK, ProbeOK
<1>5. DownsOK'
  BY <1>4 DEF AuthInv, DownsOK
<1>6. \A s \in Request : Admitted(s)
  BY <1>2 DEF Admitted
<1> QED
  BY <1>3, <1>5, <1>6 DEF AuthInv, GateStep

\* A request of which one field changes.
LEMMA EditedPc ==
  ASSUME NEW q, q = Whole(q), NEW v, NEW y, y = [q EXCEPT !.pc = v]
  PROVE  y = Whole(y) /\ y.pc = v /\ y.tok = q.tok /\ y.rt = q.rt /\ y.ok = q.ok /\ y.age = q.age
<1>1. PICK i, k, l, m, n, o : i = q.pc /\ k = q.kind /\ l = q.tok /\ m = q.rt /\ n = q.ok /\ o = q.age
  OBVIOUS
<1>2. q = [pc |-> i, kind |-> k, tok |-> l, rt |-> m, ok |-> n, age |-> o]
  BY <1>1 DEF Whole
<1>3. y = [pc |-> v, kind |-> k, tok |-> l, rt |-> m, ok |-> n, age |-> o]
  BY <1>2
<1> QED
  BY <1>1, <1>3 DEF Whole

\* A request whose one field was set is again a whole record, and the rest is as it
\* was: one lemma for each field that WebAuth sets.
LEMMA EditedKind ==
  ASSUME NEW q, q = Whole(q), NEW v, NEW y, y = [q EXCEPT !.kind = v]
  PROVE  y = Whole(y) /\ y.pc = q.pc /\ y.tok = q.tok /\ y.rt = q.rt /\ y.ok = q.ok /\ y.age = q.age
<1>1. PICK i, k, l, m, n, o : i = q.pc /\ k = q.kind /\ l = q.tok /\ m = q.rt /\ n = q.ok /\ o = q.age
  OBVIOUS
<1>2. q = [pc |-> i, kind |-> k, tok |-> l, rt |-> m, ok |-> n, age |-> o]
  BY <1>1 DEF Whole
<1>3. y = [pc |-> i, kind |-> v, tok |-> l, rt |-> m, ok |-> n, age |-> o]
  BY <1>2
<1> QED
  BY <1>1, <1>3 DEF Whole

\* The same for the token.
LEMMA EditedTok ==
  ASSUME NEW q, q = Whole(q), NEW v, NEW y, y = [q EXCEPT !.tok = v]
  PROVE  y = Whole(y) /\ y.pc = q.pc /\ y.tok = v /\ y.rt = q.rt /\ y.ok = q.ok /\ y.age = q.age
<1>1. PICK i, k, l, m, n, o : i = q.pc /\ k = q.kind /\ l = q.tok /\ m = q.rt /\ n = q.ok /\ o = q.age
  OBVIOUS
<1>2. q = [pc |-> i, kind |-> k, tok |-> l, rt |-> m, ok |-> n, age |-> o]
  BY <1>1 DEF Whole
<1>3. y = [pc |-> i, kind |-> k, tok |-> v, rt |-> m, ok |-> n, age |-> o]
  BY <1>2
<1> QED
  BY <1>1, <1>3 DEF Whole

\* The same for the router that was read from the file.
LEMMA EditedRt ==
  ASSUME NEW q, q = Whole(q), NEW v, NEW y, y = [q EXCEPT !.rt = v]
  PROVE  y = Whole(y) /\ y.pc = q.pc /\ y.tok = q.tok /\ y.rt = v /\ y.ok = q.ok /\ y.age = q.age
<1>1. PICK i, k, l, m, n, o : i = q.pc /\ k = q.kind /\ l = q.tok /\ m = q.rt /\ n = q.ok /\ o = q.age
  OBVIOUS
<1>2. q = [pc |-> i, kind |-> k, tok |-> l, rt |-> m, ok |-> n, age |-> o]
  BY <1>1 DEF Whole
<1>3. y = [pc |-> i, kind |-> k, tok |-> l, rt |-> v, ok |-> n, age |-> o]
  BY <1>2
<1> QED
  BY <1>1, <1>3 DEF Whole

\* The same for the answer of the probe or of the comparison.
LEMMA EditedOk ==
  ASSUME NEW q, q = Whole(q), NEW v, NEW y, y = [q EXCEPT !.ok = v]
  PROVE  y = Whole(y) /\ y.pc = q.pc /\ y.tok = q.tok /\ y.rt = q.rt /\ y.ok = v /\ y.age = q.age
<1>1. PICK i, k, l, m, n, o : i = q.pc /\ k = q.kind /\ l = q.tok /\ m = q.rt /\ n = q.ok /\ o = q.age
  OBVIOUS
<1>2. q = [pc |-> i, kind |-> k, tok |-> l, rt |-> m, ok |-> n, age |-> o]
  BY <1>1 DEF Whole
<1>3. y = [pc |-> i, kind |-> k, tok |-> l, rt |-> m, ok |-> v, age |-> o]
  BY <1>2
<1> QED
  BY <1>1, <1>3 DEF Whole

\* The same for the age of the probe.
LEMMA EditedAge ==
  ASSUME NEW q, q = Whole(q), NEW v, NEW y, y = [q EXCEPT !.age = v]
  PROVE  y = Whole(y) /\ y.pc = q.pc /\ y.tok = q.tok /\ y.rt = q.rt /\ y.ok = q.ok /\ y.age = v
<1>1. PICK i, k, l, m, n, o : i = q.pc /\ k = q.kind /\ l = q.tok /\ m = q.rt /\ n = q.ok /\ o = q.age
  OBVIOUS
<1>2. q = [pc |-> i, kind |-> k, tok |-> l, rt |-> m, ok |-> n, age |-> o]
  BY <1>1 DEF Whole
<1>3. y = [pc |-> i, kind |-> k, tok |-> l, rt |-> m, ok |-> n, age |-> v]
  BY <1>2
<1> QED
  BY <1>1, <1>3 DEF Whole

\* A step that leaves the gate alone keeps its invariant.
LEMMA SameGate ==
  ASSUME AuthInv, UNCHANGED authVars
  PROVE  AuthInv'
BY DEF AuthInv, SharedOK, TokensOK, RequestsOK, DownsOK, ProbeOK, CacheOK, authVars

\* routerReachable, first part: a cached answer younger than the TTL is taken.
LEMMA AskCacheGate ==
  ASSUME AuthInv, NEW r \in Request, AskCache(r)
  PROVE  GateStep
<1> DEFINE q == req[r]
           p == IF Cached(q.rt) THEN Told(q, reach.ok) ELSE [q EXCEPT !.pc = "dial"]
<1>1. /\ q.pc = "reach" /\ req' = [req EXCEPT ![r] = p]
      /\ UNCHANGED <<env, addr, up, reach, limit, tokens, life, sawDown>>
  BY DEF AskCache
<1>2. ReqOK(q) /\ q.rt \in Router /\ reach.ok \in BOOLEAN /\ reach.at \in 0 .. ReachCacheTTL
      /\ sawDown[q.rt] \in 0 .. Stale
  BY <1>1 DEF AuthInv, RequestsOK, ReqOK, SharedOK, DownsOK
<1>3. SharedOK' /\ TokensOK' /\ CacheOK'
  BY <1>1 DEF AuthInv, SharedOK, TokensOK, DownsOK, CacheOK
<1>4. ReqOK(p) /\ ProbeOK(p) /\ (p.pc = "served" => Justified(r))
  <2>1. CASE Cached(q.rt)
    <3>1. p = Told(q, reach.ok)
      BY <2>1
    <3>2. ReqOK(p) /\ p.pc \in {"limit", "session", "idle", "served"} /\ (p.pc = "served" => ~reach.ok)
      BY <1>2, <3>1, ToldOK
    <3>3. ASSUME ~reach.ok
          PROVE  sawDown[q.rt] < Stale
      <4>1. reach.key = q.rt /\ reach.at < ReachCacheTTL
        BY <2>1 DEF Cached
      <4>2. sawDown[q.rt] <= reach.at + ReachTimeout
        BY <1>2, <3>3, <4>1 DEF AuthInv, DownsOK, CacheOK
      <4>3. sawDown[q.rt] \in Nat
        BY <1>2, Times
      <4> HIDE DEF q
      <4> QED
        BY <1>2, <4>1, <4>2, <4>3, Times
    <3>4. p.pc = "served" => Justified(r)
      BY <1>1, <3>2, <3>3 DEF Justified
    <3> QED
      BY <3>2, <3>4 DEF ProbeOK
  <2>2. CASE ~Cached(q.rt)
    <3> HIDE DEF q
    <3>1. p = [q EXCEPT !.pc = "dial"]
      BY <2>2
    <3> HIDE DEF p
    <3>2. p = Whole(p) /\ p.pc = "dial" /\ p.tok = q.tok /\ p.rt = q.rt /\ p.ok = q.ok /\ p.age = q.age
      BY <1>2, <3>1, EditedPc DEF ReqOK
    <3> QED
      BY <1>2, <3>2 DEF ReqOK, ProbeOK
  <2> QED
    BY <2>1, <2>2
<1> HIDE DEF p
<1> QED
  BY <1>1, <1>3, <1>4, RequestMoves

\* routerReachable: the dial, with reachMu released.
LEMMA DialGate ==
  ASSUME AuthInv, NEW r \in Request, Dial(r)
  PROVE  GateStep
<1> DEFINE q == req[r]
           b == (q.rt \in up)
<1>1. /\ q.pc = "dial" /\ req' = [req EXCEPT ![r].pc = "store", ![r].ok = b]
      /\ UNCHANGED <<env, addr, up, reach, limit, tokens, life, sawDown>>
  BY DEF Dial
<1>2. ReqOK(q) /\ q.rt \in Router
  BY <1>1 DEF AuthInv, RequestsOK, ReqOK
<1>3. SharedOK' /\ TokensOK' /\ CacheOK'
  BY <1>1 DEF AuthInv, SharedOK, TokensOK, DownsOK, CacheOK
<1>4. b = FALSE => sawDown[q.rt] = 0
  BY <1>2 DEF AuthInv, DownsOK
<1>5. b \in BOOLEAN
  OBVIOUS
<1>6. req' = [req EXCEPT ![r] = [[req[r] EXCEPT !.pc = "store"] EXCEPT !.ok = b]]
  BY <1>1 DEF AuthInv, RequestsOK
<1> HIDE DEF b
<1>7. PICK y : y = [req[r] EXCEPT !.pc = "store"]
  OBVIOUS
<1>8. PICK p : p = [y EXCEPT !.ok = b]
  OBVIOUS
<1>9. y = Whole(y) /\ y.pc = "store" /\ y.tok = q.tok /\ y.rt = q.rt /\ y.age = q.age
  BY <1>2, <1>7, EditedPc DEF ReqOK
<1>10. p = Whole(p) /\ p.pc = "store" /\ p.tok = q.tok /\ p.rt = q.rt /\ p.age = q.age /\ p.ok = b
  BY <1>8, <1>9, EditedOk
<1>11. ReqOK(p)
  BY <1>2, <1>5, <1>10 DEF ReqOK
<1>12. ProbeOK(p)
  <2>1. q.age \in Nat
    BY <1>2, Times DEF ReqOK
  <2>2. p.ok = FALSE => sawDown[p.rt] <= p.age
    BY <1>4, <1>10, <2>1
  <2> QED
    BY <2>2 DEF ProbeOK
<1>13. req' = [req EXCEPT ![r] = p] /\ p.pc # "served"
  BY <1>6, <1>7, <1>8, <1>10
<1> QED
  BY <1>1, <1>3, <1>11, <1>12, <1>13, RequestMoves

\* routerReachable, second part: the answer is stored as of now, though the dial may
\* have begun ReachTimeout ago.
LEMMA StoreReachGate ==
  ASSUME AuthInv, NEW r \in Request, StoreReach(r)
  PROVE  GateStep
<1> DEFINE q == req[r]
           p == Told(q, q.ok)
<1>1. /\ q.pc = "store" /\ req' = [req EXCEPT ![r] = p]
      /\ reach' = [key |-> q.rt, at |-> 0, ok |-> q.ok]
      /\ UNCHANGED <<env, addr, up, limit, tokens, life, sawDown>>
  BY DEF StoreReach
<1>2. ReqOK(q) /\ q.rt \in Router /\ q.ok \in BOOLEAN /\ q.age \in 0 .. ReachTimeout
      /\ sawDown[q.rt] \in 0 .. Stale
  BY <1>1 DEF AuthInv, RequestsOK, ReqOK, DownsOK
<1>3. q.ok = FALSE => sawDown[q.rt] <= ReachTimeout
  <2>1. q.ok = FALSE => sawDown[q.rt] <= q.age
    BY <1>1 DEF AuthInv, DownsOK, ProbeOK
  <2>2. q.age \in Nat /\ q.age <= ReachTimeout /\ sawDown[q.rt] \in Nat
    BY <1>2, Times
  <2> HIDE DEF q
  <2> QED
    BY <2>1, <2>2, Times
<1>4. TokensOK'
  BY <1>1 DEF AuthInv, TokensOK
<1>5. SharedOK'
  BY <1>1, <1>2, Times DEF AuthInv, SharedOK
<1>6. CacheOK'
  BY <1>1, <1>3, Times DEF CacheOK
<1>7. ReqOK(p) /\ p.pc \in {"limit", "session", "idle", "served"} /\ (p.pc = "served" => ~q.ok)
  BY <1>2, ToldOK
<1>8. p.pc = "served" => Justified(r)
  <2>1. ASSUME q.ok = FALSE
        PROVE  sawDown[q.rt] < Stale
    <3>1. sawDown[q.rt] \in Nat /\ sawDown[q.rt] <= ReachTimeout
      BY <1>2, <1>3, <2>1, Times
    <3> HIDE DEF q
    <3> QED
      BY <3>1, Times
  <2>2. q.pc # "session" /\ q.pc # "idle"
    BY <1>1
  <2> QED
    BY <1>2, <1>7, <2>1, <2>2 DEF Justified
<1> HIDE DEF p
<1>9. ProbeOK(p)
  BY <1>7 DEF ProbeOK
<1> QED
  BY <1>1, <1>4, <1>5, <1>6, <1>7, <1>8, <1>9, RequestMoves

\* protect and sessions.valid: a token is let in if it is in the map and not too old.
LEMMA CheckSessionGate ==
  ASSUME AuthInv, NEW r \in Request, CheckSession(r)
  PROVE  GateStep
<1> DEFINE q == req[r]
           p == IF Valid(q.tok) THEN At(q, "served") ELSE Idle
<1>1. /\ q.pc = "session" /\ req' = [req EXCEPT ![r] = p]
      /\ tokens' = IF q.tok # Nil /\ ~Valid(q.tok) THEN [tokens EXCEPT ![q.tok] = Nil] ELSE tokens
      /\ UNCHANGED <<env, addr, up, reach, limit, life, sawDown>>
  BY DEF CheckSession
<1>2. ReqOK(q) /\ q.tok \in Token \union {Nil}
  BY DEF AuthInv, RequestsOK, ReqOK
<1>3. SharedOK' /\ CacheOK'
  BY <1>1 DEF AuthInv, SharedOK, DownsOK, CacheOK
<1>4. TokensOK'
  BY <1>1 DEF AuthInv, TokensOK
<1>5. ReqOK(p) /\ p.pc \in {"served", "idle"}
  BY <1>2, IdleOK
<1>6. p.pc = "served" => Justified(r)
  <2>1. Valid(q.tok) => q.tok \in Token /\ life[q.tok] <= SessionTTL
    BY <1>2 DEF Valid, AuthInv, TokensOK
  <2>2. p.pc = "served" => Valid(q.tok)
    BY IdleOK
  <2> QED
    BY <1>1, <2>1, <2>2 DEF Justified
<1> HIDE DEF p
<1>7. ProbeOK(p)
  BY <1>5 DEF ProbeOK
<1> QED
  BY <1>1, <1>3, <1>4, <1>5, <1>6, <1>7, RequestMoves

\* login, limiter.allowed: an address in its lockout is turned away.
LEMMA AskLimiterGate ==
  ASSUME AuthInv, NEW r \in Request, AskLimiter(r)
  PROVE  GateStep
<1> DEFINE q == req[r]
<1>1. /\ \/ req' = [req EXCEPT ![r] = Idle]
         \/ req' = [req EXCEPT ![r] = [[req[r] EXCEPT !.pc = "verify"] EXCEPT !.rt = addr]]
      /\ UNCHANGED <<env, addr, up, reach, limit, tokens, life, sawDown>>
  BY DEF AskLimiter
<1>2. ReqOK(q) /\ addr \in Router \union {Nil}
  BY DEF AuthInv, RequestsOK, SharedOK
<1>3. SharedOK' /\ TokensOK' /\ CacheOK'
  BY <1>1 DEF AuthInv, SharedOK, TokensOK, DownsOK, CacheOK
<1>4. CASE req' = [req EXCEPT ![r] = Idle]
  BY <1>1, <1>3, <1>4, IdleOK, RequestMoves DEF ProbeOK
<1>5. CASE req' = [req EXCEPT ![r] = [[req[r] EXCEPT !.pc = "verify"] EXCEPT !.rt = addr]]
  <2>1. PICK y : y = [req[r] EXCEPT !.pc = "verify"]
    OBVIOUS
  <2>2. PICK p : p = [y EXCEPT !.rt = addr]
    OBVIOUS
  <2>3. y = Whole(y) /\ y.pc = "verify" /\ y.tok = q.tok /\ y.ok = q.ok /\ y.age = q.age
    BY <1>2, <2>1, EditedPc DEF ReqOK
  <2>4. p = Whole(p) /\ p.pc = "verify" /\ p.tok = q.tok /\ p.rt = addr /\ p.age = q.age /\ p.ok = q.ok
    BY <2>2, <2>3, EditedRt
  <2>5. ReqOK(p) /\ ProbeOK(p) /\ req' = [req EXCEPT ![r] = p]
    BY <1>2, <1>5, <2>1, <2>2, <2>4 DEF ReqOK, ProbeOK
  <2> QED
    BY <1>1, <1>3, <2>4, <2>5, RequestMoves
<1> QED
  BY <1>1, <1>4, <1>5

\* login: the comparison of the password, or the router's answer.
LEMMA VerifyGate ==
  ASSUME AuthInv, NEW r \in Request, NEW right \in BOOLEAN, Verify(r, right)
  PROVE  GateStep
<1> DEFINE p == At(req[r], IF right THEN "accept" ELSE "reject")
<1>1. req' = [req EXCEPT ![r] = p] /\ UNCHANGED <<env, addr, up, reach, limit, tokens, life, sawDown>>
  BY DEF Verify
<1>2. ReqOK(req[r])
  BY DEF AuthInv, RequestsOK
<1>3. ReqOK(p) /\ p.pc \in {"accept", "reject"}
  BY <1>2, IdleOK
<1>4. SharedOK' /\ TokensOK' /\ CacheOK'
  BY <1>1 DEF AuthInv, SharedOK, TokensOK, DownsOK, CacheOK
<1> HIDE DEF p
<1> QED
  BY <1>1, <1>3, <1>4, RequestMoves DEF ProbeOK

\* limiter.fail keeps the counter below MaxFails.
LEMMA FailedOK ==
  ASSUME NEW a \in [fails : 0 .. MaxFails, first : 0 .. FailWindow + 1, lock : 0 .. LockoutTime]
  PROVE  Failed(a) \in [fails : 0 .. MaxFails, first : 0 .. FailWindow + 1, lock : 0 .. LockoutTime]
<1> DEFINE L == [fails : 0 .. MaxFails, first : 0 .. FailWindow + 1, lock : 0 .. LockoutTime]
           z == [fails |-> 0, first |-> 0, lock |-> 0]
           b == IF a.first > FailWindow THEN z ELSE a
<1>1. z \in L /\ [fails |-> 0, first |-> 0, lock |-> LockoutTime] \in L
  BY Times
<1>2. b \in L
  BY <1>1
<1>3. Failed(a) = IF b.fails + 1 >= MaxFails THEN [fails |-> 0, first |-> 0, lock |-> LockoutTime]
                  ELSE [b EXCEPT !.fails = b.fails + 1]
  BY DEF Failed
<1> HIDE DEF b
<1>4. CASE b.fails + 1 >= MaxFails
  BY <1>1, <1>3, <1>4
<1>5. CASE ~(b.fails + 1 >= MaxFails)
  <2>1. b.fails + 1 \in 0 .. MaxFails
    BY <1>2, <1>5, Times
  <2> QED
    BY <1>2, <1>3, <1>5, <2>1
<1> QED
  BY <1>4, <1>5

\* login, limiter.fail: a wrong password is counted.
LEMMA RejectGate ==
  ASSUME AuthInv, NEW r \in Request, Reject(r)
  PROVE  GateStep
<1>1. /\ req' = [req EXCEPT ![r] = Idle] /\ limit' = Failed(limit)
      /\ UNCHANGED <<env, addr, up, reach, tokens, life, sawDown>>
  BY DEF Reject
<1>2. TokensOK' /\ CacheOK'
  BY <1>1 DEF AuthInv, TokensOK, DownsOK, CacheOK
<1>3. SharedOK'
  BY <1>1, FailedOK DEF AuthInv, SharedOK
<1> QED
  BY <1>1, <1>2, <1>3, IdleOK, RequestMoves DEF ProbeOK

\* login, sessions.create: a new token, and the failures are forgotten.
LEMMA AcceptGate ==
  ASSUME AuthInv, NEW r \in Request, Accept(r)
  PROVE  GateStep
<1>1. PICK t : /\ tokens' = [tokens EXCEPT ![t] = 0] /\ life' = [life EXCEPT ![t] = 0]
               /\ req' = [req EXCEPT ![r] = Idle] /\ limit' = NoAttempt
               /\ UNCHANGED <<env, addr, up, reach, sawDown>>
  BY DEF Accept
<1>2. TokensOK'
  BY <1>1 DEF AuthInv, TokensOK
<1>3. NoAttempt \in [fails : 0 .. MaxFails, first : 0 .. FailWindow + 1, lock : 0 .. LockoutTime]
  BY Times DEF NoAttempt
<1>4. SharedOK' /\ CacheOK'
  BY <1>1, <1>3 DEF AuthInv, SharedOK, DownsOK, CacheOK
<1> QED
  BY <1>1, <1>2, <1>4, IdleOK, RequestMoves DEF ProbeOK

\* The end of a request.
LEMMA FinishGate ==
  ASSUME AuthInv, NEW r \in Request, Finish(r)
  PROVE  GateStep
<1>1. req' = [req EXCEPT ![r] = Idle] /\ UNCHANGED <<env, addr, up, reach, limit, tokens, life, sawDown>>
  BY DEF Finish
<1>2. SharedOK' /\ TokensOK' /\ CacheOK'
  BY <1>1 DEF AuthInv, SharedOK, TokensOK, DownsOK, CacheOK
<1> QED
  BY <1>1, <1>2, IdleOK, RequestMoves DEF ProbeOK

\* The start of a request: its cookie is whatever the browser kept.
LEMMA ArriveGate ==
  ASSUME AuthInv, NEW r \in Request, NEW k, NEW t \in Token \union {Nil}, Arrive(r, k, t)
  PROVE  GateStep
<1>1. PICK u : u = [Idle EXCEPT !.kind = k]
  OBVIOUS
<1>2. PICK v : v = [u EXCEPT !.tok = t]
  OBVIOUS
<1>3. PICK q : q = [v EXCEPT !.rt = addr]
  OBVIOUS
<1>4. [Idle EXCEPT !.kind = k, !.tok = t, !.rt = addr] = q
  BY <1>1, <1>2, <1>3
<1>5. /\ req[r].pc = "idle"
      /\ req' = [req EXCEPT ![r] = IF env.noAuth \/ addr = Nil THEN Told(q, FALSE) ELSE [q EXCEPT !.pc = "reach"]]
      /\ UNCHANGED <<env, addr, up, reach, limit, tokens, life, sawDown>>
  BY <1>4 DEF Arrive
<1>6. Idle = Whole(Idle) /\ Idle.pc = "idle" /\ Idle.ok \in BOOLEAN /\ Idle.age \in 0 .. ReachTimeout
  BY IdleOK DEF ReqOK
<1>7. u = Whole(u) /\ u.pc = "idle" /\ u.ok \in BOOLEAN /\ u.age \in 0 .. ReachTimeout
  BY <1>1, <1>6, EditedKind
<1>8. v = Whole(v) /\ v.pc = "idle" /\ v.ok \in BOOLEAN /\ v.age \in 0 .. ReachTimeout /\ v.tok = t
  BY <1>2, <1>7, EditedTok
<1>9. /\ q = Whole(q) /\ q.pc = "idle" /\ q.ok \in BOOLEAN /\ q.age \in 0 .. ReachTimeout
      /\ q.tok = t /\ q.rt = addr
  BY <1>3, <1>8, EditedRt
<1>10. addr \in Router \union {Nil}
  BY DEF AuthInv, SharedOK
<1>11. ReqOK(q)
  BY <1>9, <1>10 DEF ReqOK
<1>12. SharedOK' /\ TokensOK' /\ CacheOK'
  BY <1>5 DEF AuthInv, SharedOK, TokensOK, DownsOK, CacheOK
<1>13. CASE env.noAuth \/ addr = Nil
  <2>1. req' = [req EXCEPT ![r] = Told(q, FALSE)]
    BY <1>5, <1>13
  <2>2. ReqOK(Told(q, FALSE)) /\ Told(q, FALSE).pc \in {"limit", "session", "idle", "served"}
    BY <1>11, ToldOK
  <2>3. Justified(r)
    BY <1>5, <1>13 DEF Justified
  <2> QED
    BY <1>5, <1>12, <2>1, <2>2, <2>3, RequestMoves DEF ProbeOK
<1>14. CASE ~(env.noAuth \/ addr = Nil)
  <2>1. PICK p : p = [q EXCEPT !.pc = "reach"]
    OBVIOUS
  <2>2. p = Whole(p) /\ p.pc = "reach" /\ p.tok = q.tok /\ p.rt = q.rt /\ p.ok = q.ok /\ p.age = q.age
    BY <1>9, <2>1, EditedPc
  <2>3. ReqOK(p) /\ ProbeOK(p)
    BY <1>9, <1>10, <1>14, <2>2 DEF ReqOK, ProbeOK
  <2>4. req' = [req EXCEPT ![r] = p]
    BY <1>5, <1>14, <2>1
  <2> QED
    BY <1>5, <1>12, <2>2, <2>3, <2>4, RequestMoves
<1> QED
  BY <1>13, <1>14

\* logout, sessions.drop: the token leaves the map.
LEMMA LogoutGate ==
  ASSUME AuthInv, NEW t \in Token, Logout(t)
  PROVE  GateStep
<1>1. /\ tokens' = [tokens EXCEPT ![t] = Nil] /\ life' = [life EXCEPT ![t] = Over]
      /\ UNCHANGED <<env, addr, up, reach, limit, req, sawDown>>
  BY DEF Logout
<1>2. TokensOK'
  BY <1>1 DEF AuthInv, TokensOK
<1>3. SharedOK' /\ RequestsOK' /\ DownsOK'
  BY <1>1 DEF AuthInv, SharedOK, RequestsOK, DownsOK, ProbeOK, CacheOK
<1> QED
  BY <1>1, <1>2, <1>3 DEF AuthInv, GateStep, Admitted

\* Routers go down and come back, and another one is configured.
LEMMA FlipGate ==
  ASSUME AuthInv, NEW a \in Router, Flip(a)
  PROVE  GateStep
<1>1. UNCHANGED <<env, reach, limit, tokens, req, life>>
  BY DEF Flip
<1>2. TokensOK' /\ RequestsOK'
  BY <1>1 DEF AuthInv, TokensOK, RequestsOK
<1>3. CASE UNCHANGED <<up, sawDown>> /\ addr' \in Router \union {Nil}
  BY <1>1, <1>2, <1>3 DEF AuthInv, GateStep, Admitted, SharedOK, DownsOK, ProbeOK, CacheOK
<1>4. CASE /\ up' = IF a \in up THEN up \ {a} ELSE up \union {a}
           /\ sawDown' = [sawDown EXCEPT ![a] = 0] /\ addr' = addr
  <2>1. SharedOK'
    BY <1>1, <1>4 DEF AuthInv, SharedOK
  <2>2. sawDown \in [Router -> 0 .. Stale] /\ 0 \in 0 .. Stale
    BY Times DEF AuthInv, DownsOK
  <2>3. sawDown' \in [Router -> 0 .. Stale] /\ \A b \in Router : sawDown'[b] = IF b = a THEN 0 ELSE sawDown[b]
    BY <1>4, <2>2
  <2>4. \A b \in Router \ up' : sawDown'[b] = 0
    BY <1>4, <2>3 DEF AuthInv, DownsOK
  <2>5. \A r \in Request : ProbeOK(req[r])'
    <3> SUFFICES ASSUME NEW r \in Request, req[r].pc = "store", req[r].ok = FALSE
                 PROVE  sawDown'[req[r].rt] <= req[r].age
      BY <1>1 DEF ProbeOK
    <3>1. req[r].rt \in Router /\ req[r].age \in 0 .. ReachTimeout
      BY DEF AuthInv, RequestsOK, ReqOK
    <3>2. sawDown[req[r].rt] <= req[r].age /\ 0 <= req[r].age
      BY <3>1, Times DEF AuthInv, DownsOK, ProbeOK
    <3> QED
      BY <2>3, <3>1, <3>2
  <2>6. CacheOK'
    <3> SUFFICES ASSUME reach.key \in Router, reach.ok = FALSE, reach.at < ReachCacheTTL
                 PROVE  sawDown'[reach.key] <= reach.at + ReachTimeout
      BY <1>1 DEF CacheOK
    <3>1. reach.at \in 0 .. ReachCacheTTL
      BY DEF AuthInv, SharedOK
    <3>2. sawDown[reach.key] <= reach.at + ReachTimeout /\ 0 <= reach.at + ReachTimeout
      BY <3>1, Times DEF AuthInv, DownsOK, CacheOK
    <3> QED
      BY <2>3, <3>2
  <2> QED
    BY <1>1, <1>2, <2>1, <2>3, <2>4, <2>5, <2>6 DEF AuthInv, GateStep, Admitted, DownsOK
<1> QED
  BY <1>3, <1>4 DEF Flip

\* A capped age stays within its cap and grows by one below it.
LEMMA UpToBounds ==
  ASSUME NEW max \in Nat, NEW n \in 0 .. max
  PROVE  UpTo(n, max) \in 0 .. max /\ UpTo(n, max) <= n + 1 /\ (n < max => UpTo(n, max) = n + 1)
         /\ (UpTo(n, max) < max => n < max)
BY DEF UpTo

\* Time passes for routers, probes and the cached answer alike.
LEMMA TickGate ==
  ASSUME AuthInv, Tick
  PROVE  GateStep
<1> DEFINE Probing(q) == q.pc \in {"dial", "store"}
<1>1. /\ \A r \in Request : Probing(req[r]) => req[r].age < ReachTimeout
      /\ reach' = [reach EXCEPT !.at = UpTo(reach.at, ReachCacheTTL)]
      /\ limit' = [limit EXCEPT !.first = UpTo(limit.first, FailWindow + 1),
                                !.lock = IF limit.lock > 0 THEN limit.lock - 1 ELSE 0]
      /\ tokens' = [t \in Token |-> IF tokens[t] = Nil THEN Nil ELSE UpTo(tokens[t], Over)]
      /\ life' = [t \in Token |-> IF life[t] = Nil THEN Nil ELSE UpTo(life[t], Over)]
      /\ sawDown' = [a \in Router |-> IF a \in up THEN UpTo(sawDown[a], Stale) ELSE 0]
      /\ req' = [r \in Request |-> IF Probing(req[r]) THEN [req[r] EXCEPT !.age = req[r].age + 1] ELSE req[r]]
      /\ UNCHANGED <<env, addr, up>>
  BY DEF Tick
<1>2. /\ reach \in [key : Router \union {Nil}, at : 0 .. ReachCacheTTL, ok : BOOLEAN]
      /\ limit \in [fails : 0 .. MaxFails, first : 0 .. FailWindow + 1, lock : 0 .. LockoutTime]
      /\ sawDown \in [Router -> 0 .. Stale]
  BY DEF AuthInv, SharedOK, DownsOK
<1>3. TokensOK'
  BY <1>1 DEF AuthInv, TokensOK
<1>4. reach' \in [key : Router \union {Nil}, at : 0 .. ReachCacheTTL, ok : BOOLEAN]
      /\ reach'.key = reach.key /\ reach'.ok = reach.ok /\ reach'.at = UpTo(reach.at, ReachCacheTTL)
  <2>1. UpTo(reach.at, ReachCacheTTL) \in 0 .. ReachCacheTTL
    BY <1>2, Times, UpToBounds
  <2> QED
    BY <1>1, <1>2, <2>1
<1>5. SharedOK'
  <2>1. UpTo(limit.first, FailWindow + 1) \in 0 .. FailWindow + 1
    BY <1>2, Times, UpToBounds
  <2>2. (IF limit.lock > 0 THEN limit.lock - 1 ELSE 0) \in 0 .. LockoutTime
    BY <1>2, Times
  <2>3. limit' \in [fails : 0 .. MaxFails, first : 0 .. FailWindow + 1, lock : 0 .. LockoutTime]
    BY <1>1, <1>2, <2>1, <2>2
  <2> QED
    BY <1>1, <1>4, <2>3 DEF AuthInv, SharedOK
<1>6. ASSUME NEW r \in Request
      PROVE  /\ req'[r].pc = req[r].pc /\ req'[r].rt = req[r].rt /\ req'[r].ok = req[r].ok
             /\ Probing(req[r]) => req'[r].age = req[r].age + 1
             /\ ReqOK(req'[r])
  <2>1. ReqOK(req[r])
    BY DEF AuthInv, RequestsOK
  <2>2. CASE Probing(req[r])
    <3>1. PICK y : y = [req[r] EXCEPT !.age = req[r].age + 1]
      OBVIOUS
    <3>2. /\ y = Whole(y) /\ y.pc = req[r].pc /\ y.tok = req[r].tok /\ y.rt = req[r].rt /\ y.ok = req[r].ok
          /\ y.age = req[r].age + 1
      BY <2>1, <3>1, EditedAge DEF ReqOK
    <3>3. y.age \in 0 .. ReachTimeout
      BY <1>1, <2>1, <2>2, <3>2, Times DEF ReqOK
    <3>4. req'[r] = y
      BY <1>1, <2>2, <3>1
    <3> QED
      BY <2>1, <3>2, <3>3, <3>4 DEF ReqOK
  <2>3. CASE ~Probing(req[r])
    BY <1>1, <2>1, <2>3
  <2> QED
    BY <2>2, <2>3
<1>7. RequestsOK'
  BY <1>1, <1>6 DEF RequestsOK
<1>8. ASSUME NEW a \in Router
      PROVE  sawDown'[a] \in 0 .. Stale /\ sawDown'[a] <= sawDown[a] + 1 /\ sawDown[a] \in Nat
  <2>1. sawDown[a] \in 0 .. Stale /\ Stale \in Nat
    BY <1>2, Times
  <2>2. UpTo(sawDown[a], Stale) \in 0 .. Stale /\ UpTo(sawDown[a], Stale) <= sawDown[a] + 1
    BY <2>1, UpToBounds
  <2>3. sawDown'[a] = UpTo(sawDown[a], Stale) \/ sawDown'[a] = 0
    BY <1>1
  <2> QED
    BY <2>1, <2>2, <2>3
<1>9. DownsOK'
  <2>1. sawDown' \in [Router -> 0 .. Stale] /\ \A a \in Router \ up' : sawDown'[a] = 0
    BY <1>1, <1>8
  <2>2. \A r \in Request : ProbeOK(req[r])'
    <3> SUFFICES ASSUME NEW r \in Request, req'[r].pc = "store", req'[r].ok = FALSE
                 PROVE  sawDown'[req'[r].rt] <= req'[r].age
      BY DEF ProbeOK
    <3>1. /\ req[r].pc = "store" /\ req[r].ok = FALSE /\ req'[r].rt = req[r].rt /\ req[r].rt \in Router
          /\ req[r].age \in Nat /\ req'[r].age = req[r].age + 1
      BY <1>6, Times DEF AuthInv, RequestsOK, ReqOK
    <3>2. sawDown[req[r].rt] <= req[r].age
      BY <3>1 DEF AuthInv, DownsOK, ProbeOK
    <3>3. sawDown'[req[r].rt] <= sawDown[req[r].rt] + 1 /\ sawDown[req[r].rt] \in Nat /\ sawDown'[req[r].rt] \in Nat
      BY <1>8, <3>1, Times
    <3> QED
      BY <3>1, <3>2, <3>3
  <2>3. CacheOK'
    <3> SUFFICES ASSUME reach'.key \in Router, reach'.ok = FALSE, reach'.at < ReachCacheTTL
                 PROVE  sawDown'[reach'.key] <= reach'.at + ReachTimeout
      BY DEF CacheOK
    <3>1. reach.at \in 0 .. ReachCacheTTL /\ reach.key = reach'.key /\ reach.ok = FALSE
      BY <1>2, <1>4
    <3>2. reach.at < ReachCacheTTL /\ reach'.at = reach.at + 1
      <4>1. PICK n \in 0 .. ReachCacheTTL : n = reach.at
        BY <3>1
      <4>2. UpTo(n, ReachCacheTTL) < ReachCacheTTL
        BY <1>4, <4>1
      <4>3. n < ReachCacheTTL /\ UpTo(n, ReachCacheTTL) = n + 1
        BY <4>2, Times, UpToBounds
      <4> QED
        BY <1>4, <4>1, <4>3
    <3>3. sawDown[reach.key] <= reach.at + ReachTimeout
      BY <3>1, <3>2 DEF AuthInv, DownsOK, CacheOK
    <3>4. sawDown'[reach.key] <= sawDown[reach.key] + 1 /\ sawDown[reach.key] \in Nat /\ sawDown'[reach.key] \in Nat
      BY <1>8, <3>1, Times
    <3> QED
      BY <3>1, <3>2, <3>3, <3>4, Times
  <2> QED
    BY <2>1, <2>2, <2>3 DEF DownsOK
<1>10. \A r \in Request : Admitted(r)
  BY <1>6 DEF Admitted
<1> QED
  BY <1>1, <1>3, <1>5, <1>7, <1>9, <1>10 DEF AuthInv, GateStep

-----------------------------------------------------------------------------
(* The limiter (auth.go:61-119).                                            *)

\* Requests the limiter has let through and whose password may turn out wrong.
Guessing == {r \in Request : req[r].pc \in {"verify", "reject"}}
Least(a, b) == IF a < b THEN a ELSE b

\* The failures of the present window are all counted, whatever ended the one
\* before.  Of an unlocked address at most MaxFails - 1 others are recent; of a
\* locked one there are as many as can be there when the lock is set, and what
\* is still on its way can no longer be joined.  A lock outlives the failures
\* that led to it.
LimitInv ==
  /\ recent \in [0 .. FailWindow -> Nat] /\ recent[0] = 0
  /\ \A n \in 0 .. FailWindow : n > 0 => recent[n - 1] <= recent[n]
  /\ limit.fails < MaxFails
  /\ recent[Least(limit.first, FailWindow)] <= limit.fails
  /\ limit.lock = 0 => recent[FailWindow] < limit.fails + MaxFails
  /\ limit.lock > 0 =>
       /\ recent[FailWindow] + Cardinality(Guessing) <= 2 * MaxFails + Cardinality(Request) - 2
       /\ limit.first >= FailWindow \/ limit.first + limit.lock >= LockoutTime

\* How many requests may be guessing.
LEMMA GuessingType ==
  /\ Cardinality(Request) \in Nat
  /\ \A S \in SUBSET Request : /\ IsFiniteSet(S) /\ Cardinality(S) \in Nat /\ Cardinality(S) <= Cardinality(Request)
                               /\ \A T \in SUBSET S : Cardinality(T) <= Cardinality(S)
                               /\ \A r \in S : Cardinality(S \ {r}) = Cardinality(S) - 1
BY WebAuthAssumption, FS_Subset, FS_CardinalityType, FS_RemoveElement

\* The bound follows: locked or not.
LEMMA LimitBounds ==
  ASSUME LimitInv, limit \in [fails : 0 .. MaxFails, first : 0 .. FailWindow + 1, lock : 0 .. LockoutTime]
  PROVE  GuessesBounded
<1>1. Guessing \in SUBSET Request
  BY DEF Guessing
<1>2. recent[FailWindow] \in Nat /\ Cardinality(Guessing) \in Nat /\ Cardinality(Request) \in Nat
  BY <1>1, GuessingType, Times DEF LimitInv
<1>3. limit.fails \in Nat /\ limit.lock \in Nat
  OBVIOUS
<1> QED
  BY <1>2, <1>3, Times DEF LimitInv, GuessesBounded

\* No failure is counted, and nobody passes the limiter.
LEMMA FewerGuess ==
  ASSUME LimitInv, UNCHANGED <<limit, recent>>, Guessing' \subseteq Guessing
  PROVE  LimitInv'
<1>1. Guessing \in SUBSET Request /\ Guessing' \in SUBSET Guessing
  BY DEF Guessing
<1>2. Cardinality(Guessing') <= Cardinality(Guessing) /\ Cardinality(Guessing') \in Nat /\ Cardinality(Guessing) \in Nat
  BY <1>1, GuessingType
<1>3. recent[FailWindow] \in Nat /\ Cardinality(Request) \in Nat
  BY GuessingType, Times DEF LimitInv
<1> QED
  BY <1>2, <1>3, Times DEF LimitInv

\* What limiter.fail does: it opens a window, counts, or locks.
LEMMA FailedCases ==
  ASSUME NEW a, a = [fails |-> a.fails, first |-> a.first, lock |-> a.lock],
         a.fails \in Nat, a.fails < MaxFails, NEW b, b = Failed(a)
  PROVE  \E f \in {0, a.fails} :
           /\ IF a.first > FailWindow THEN f = 0 ELSE f = a.fails
           /\ \/ /\ f + 1 < MaxFails /\ b.fails = f + 1
                 /\ IF a.first > FailWindow THEN b.first = 0 /\ b.lock = 0 ELSE b.first = a.first /\ b.lock = a.lock
              \/ f + 1 = MaxFails /\ b.fails = 0 /\ b.first = 0 /\ b.lock = LockoutTime
<1>1. CASE a.first > FailWindow
  <2>1. b = IF 0 + 1 >= MaxFails THEN [fails |-> 0, first |-> 0, lock |-> LockoutTime]
            ELSE [fails |-> 1, first |-> 0, lock |-> 0]
    BY <1>1 DEF Failed
  <2> QED
    BY <1>1, <2>1, Times
<1>2. CASE ~(a.first > FailWindow)
  <2>1. PICK f, k, l : f = a.fails /\ k = a.first /\ l = a.lock
    OBVIOUS
  <2>2. a = [fails |-> f, first |-> k, lock |-> l]
    BY <2>1
  <2>3. b = IF f + 1 >= MaxFails THEN [fails |-> 0, first |-> 0, lock |-> LockoutTime]
            ELSE [fails |-> f + 1, first |-> k, lock |-> l]
    BY <1>2, <2>1, <2>2 DEF Failed
  <2> QED
    BY <1>2, <2>1, <2>3, Times
<1> QED
  BY <1>1, <1>2

\* login, limiter.fail: the failure is counted, and one request less is on its way.
LEMMA RejectLimit ==
  ASSUME AuthInv, LimitInv, NEW r \in Request, Reject(r)
  PROVE  LimitInv'
<1>1. /\ req[r].pc = "reject" /\ req' = [req EXCEPT ![r] = Idle] /\ limit' = Failed(limit)
      /\ recent' = [n \in DOMAIN recent |-> IF n = 0 THEN 0 ELSE recent[n] + 1]
  BY DEF Reject
<1>2. /\ FailWindow \in Nat /\ FailWindow > 0 /\ LockoutTime \in Nat /\ LockoutTime > 0
      /\ MaxFails \in Nat /\ MaxFails > 0
  BY WebAuthAssumption
<1>3. /\ recent \in [0 .. FailWindow -> Nat] /\ recent[0] = 0
      /\ \A n \in 0 .. FailWindow : n > 0 => recent[n - 1] <= recent[n]
  BY DEF LimitInv
<1>4. /\ recent' \in [0 .. FailWindow -> Nat] /\ recent'[0] = 0
      /\ \A n \in 0 .. FailWindow : n > 0 => recent'[n] = recent[n] + 1
  <2>1. recent' = [n \in 0 .. FailWindow |-> IF n = 0 THEN 0 ELSE recent[n] + 1]
    BY <1>1, <1>3
  <2>2. \A n \in 0 .. FailWindow : (IF n = 0 THEN 0 ELSE recent[n] + 1) \in Nat
    BY <1>3
  <2> QED
    BY <1>2, <2>1, <2>2
<1>5. \A n \in 0 .. FailWindow : n > 0 => recent'[n - 1] <= recent'[n]
  <2> SUFFICES ASSUME NEW n \in 0 .. FailWindow, n > 0 PROVE recent'[n - 1] <= recent'[n]
    OBVIOUS
  <2>1. n - 1 \in 0 .. FailWindow /\ recent[n - 1] <= recent[n] /\ recent[n] \in Nat /\ recent[n - 1] \in Nat
    BY <1>2, <1>3
  <2>2. PICK m \in 0 .. FailWindow : m = n - 1
    BY <2>1
  <2>3. recent'[n] = recent[n] + 1 /\ recent'[m] <= recent[m] + 1
    BY <1>3, <1>4, <2>1
  <2>4. recent'[m] \in Nat
    BY <1>4
  <2> QED
    BY <2>1, <2>2, <2>3, <2>4
<1>6. PICK g : g = Cardinality(Guessing)
  OBVIOUS
<1>7. PICK h : h = Cardinality(Guessing')
  OBVIOUS
<1>8. PICK R : R = Cardinality(Request)
  OBVIOUS
<1>9. g \in Nat /\ h \in Nat /\ R \in Nat /\ h = g - 1 /\ g <= R
  <2>1. Idle.pc = "idle" /\ req = [s \in Request |-> req[s]]
    BY DEF Idle, AuthInv, RequestsOK
  <2>2. Guessing \in SUBSET Request /\ r \in Guessing /\ Guessing' = Guessing \ {r}
    BY <1>1, <2>1 DEF Guessing
  <2>3. Guessing' \in SUBSET Request
    BY <2>2
  <2> QED
    BY <1>6, <1>7, <1>8, <2>2, <2>3, GuessingType
<1>10. limit \in [fails : 0 .. MaxFails, first : 0 .. FailWindow + 1, lock : 0 .. LockoutTime]
  BY DEF AuthInv, SharedOK
<1>11. PICK f, k, l : f = limit.fails /\ k = limit.first /\ l = limit.lock
  OBVIOUS
<1>12. /\ f \in Nat /\ f < MaxFails /\ k \in Nat /\ l \in Nat
       /\ limit = [fails |-> limit.fails, first |-> limit.first, lock |-> limit.lock]
  BY <1>2, <1>10, <1>11 DEF LimitInv
<1>13. PICK s : s = recent[FailWindow]
  OBVIOUS
<1>14. s \in Nat /\ recent'[FailWindow] = s + 1
  BY <1>2, <1>3, <1>4, <1>13
<1>15. /\ k >= FailWindow => s <= f
       /\ l = 0 => s < f + MaxFails
       /\ l > 0 => s + g <= 2 * MaxFails + R - 2 /\ (k >= FailWindow \/ k + l >= LockoutTime)
  <2>1. k >= FailWindow => Least(k, FailWindow) = FailWindow
    BY <1>2, <1>12 DEF Least
  <2> QED
    BY <1>6, <1>8, <1>11, <1>13, <2>1 DEF LimitInv
<1>16. PICK b : b = Failed(limit)
  OBVIOUS
<1>17. PICK e \in {0, f} :
           /\ IF k > FailWindow THEN e = 0 ELSE e = f
           /\ \/ /\ e + 1 < MaxFails /\ b.fails = e + 1
                 /\ IF k > FailWindow THEN b.first = 0 /\ b.lock = 0 ELSE b.first = k /\ b.lock = l
              \/ e + 1 = MaxFails /\ b.fails = 0 /\ b.first = 0 /\ b.lock = LockoutTime
  BY <1>11, <1>12, <1>16, FailedCases
<1>18. /\ b.fails < MaxFails
       /\ b.lock = 0 => s + 1 < b.fails + MaxFails
       /\ b.lock > 0 =>
            /\ s + 1 + h <= 2 * MaxFails + R - 2
            /\ b.first >= FailWindow \/ b.first + b.lock >= LockoutTime
  BY <1>2, <1>9, <1>12, <1>14, <1>15, <1>17
<1>19. recent'[Least(b.first, FailWindow)] <= b.fails
  <2>1. CASE b.first = 0
    <3>1. Least(b.first, FailWindow) = 0
      BY <1>2, <2>1 DEF Least
    <3> QED
      BY <1>4, <1>12, <1>17, <3>1
  <2>2. CASE b.first = k /\ b.fails = f + 1
    <3>1. Least(k, FailWindow) \in 0 .. FailWindow
      BY <1>2, <1>12 DEF Least
    <3>2. PICK m \in 0 .. FailWindow : m = Least(k, FailWindow)
      BY <3>1
    <3>3. recent[m] <= f
      BY <1>11, <3>2 DEF LimitInv
    <3>4. recent[m] \in Nat /\ recent'[m] <= recent[m] + 1
      BY <1>3, <1>4
    <3>5. recent'[m] <= f + 1
      BY <1>4, <1>12, <3>3, <3>4
    <3> QED
      BY <2>2, <3>2, <3>5
  <2> QED
    BY <1>17, <2>1, <2>2
<1>20. limit' = b
  BY <1>1, <1>16
<1> QED
  BY <1>4, <1>5, <1>7, <1>8, <1>14, <1>18, <1>19, <1>20 DEF LimitInv

\* login, limiter.reset: nothing is counted any more.
LEMMA AcceptLimit ==
  ASSUME LimitInv, NEW r \in Request, Accept(r)
  PROVE  LimitInv'
<1>1. limit' = NoAttempt /\ recent' = [n \in DOMAIN recent |-> 0]
  BY DEF Accept
<1>2. recent' = [n \in 0 .. FailWindow |-> 0]
  BY <1>1 DEF LimitInv
<1>3. limit'.fails = 0 /\ limit'.first = FailWindow + 1 /\ limit'.lock = 0
  BY <1>1 DEF NoAttempt
<1>4. Least(limit'.first, FailWindow) \in 0 .. FailWindow /\ FailWindow \in 0 .. FailWindow /\ 0 \in 0 .. FailWindow
  BY <1>3, Times DEF Least
<1>5. \A n \in 0 .. FailWindow : n > 0 => recent'[n - 1] <= recent'[n]
  <2> SUFFICES ASSUME NEW n \in 0 .. FailWindow, n > 0 PROVE recent'[n - 1] <= recent'[n]
    OBVIOUS
  <2>1. n - 1 \in 0 .. FailWindow
    BY Times
  <2> QED
    BY <1>2, <2>1
<1> QED
  BY <1>2, <1>3, <1>4, <1>5, Times DEF LimitInv

\* Time passes: failures and locks grow old, and a lock ends after the failures
\* that led to it have left the window.
LEMMA TickLimit ==
  ASSUME AuthInv, LimitInv, Tick
  PROVE  LimitInv'
<1>1. /\ limit' = [limit EXCEPT !.first = UpTo(limit.first, FailWindow + 1),
                                !.lock = IF limit.lock > 0 THEN limit.lock - 1 ELSE 0]
      /\ recent' = [n \in DOMAIN recent |-> IF n = 0 THEN 0 ELSE recent[n - 1]]
      /\ req' = [r \in Request |-> IF req[r].pc \in {"dial", "store"} THEN [req[r] EXCEPT !.age = req[r].age + 1]
                                   ELSE req[r]]
  BY DEF Tick
<1>2. /\ FailWindow \in Nat /\ FailWindow > 0 /\ LockoutTime \in Nat /\ FailWindow <= LockoutTime
      /\ MaxFails \in Nat /\ MaxFails > 0
  BY WebAuthAssumption
<1>3. /\ recent \in [0 .. FailWindow -> Nat] /\ recent[0] = 0
      /\ \A n \in 0 .. FailWindow : n > 0 => recent[n - 1] <= recent[n]
  BY DEF LimitInv
<1>4. recent' = [n \in 0 .. FailWindow |-> IF n = 0 THEN 0 ELSE recent[n - 1]]
  BY <1>1, <1>3
<1>5. \A n \in 0 .. FailWindow : n > 0 => n - 1 \in 0 .. FailWindow /\ recent'[n] = recent[n - 1]
  BY <1>2, <1>4
<1>6. recent' \in [0 .. FailWindow -> Nat] /\ recent'[0] = 0
  <2>1. \A n \in 0 .. FailWindow : (IF n = 0 THEN 0 ELSE recent[n - 1]) \in Nat
    BY <1>2, <1>3, <1>5
  <2> QED
    BY <1>2, <1>4, <2>1
<1>7. \A n \in 0 .. FailWindow : n > 0 => recent'[n - 1] <= recent'[n]
  <2> SUFFICES ASSUME NEW n \in 0 .. FailWindow, n > 0 PROVE recent'[n - 1] <= recent'[n]
    OBVIOUS
  <2>1. n - 1 \in 0 .. FailWindow /\ recent'[n] = recent[n - 1] /\ recent[n - 1] \in Nat
    BY <1>3, <1>5
  <2>2. CASE n = 1
    BY <1>6, <2>1, <2>2
  <2>3. CASE n # 1
    <3>1. PICK m \in 0 .. FailWindow : m = n - 1
      BY <2>1
    <3>2. m > 0
      BY <2>3, <3>1
    <3>3. recent'[m] = recent[m - 1] /\ recent[m - 1] <= recent[m]
      BY <1>3, <1>5, <3>2
    <3> QED
      BY <2>1, <3>1, <3>3
  <2> QED
    BY <2>2, <2>3
<1>8. limit \in [fails : 0 .. MaxFails, first : 0 .. FailWindow + 1, lock : 0 .. LockoutTime]
  BY DEF AuthInv, SharedOK
<1>9. PICK f, k, l : f = limit.fails /\ k = limit.first /\ l = limit.lock
  OBVIOUS
<1>10. f \in Nat /\ f < MaxFails /\ k \in 0 .. FailWindow + 1 /\ l \in Nat
  BY <1>2, <1>8, <1>9 DEF LimitInv
<1>11. PICK x, y : x = UpTo(k, FailWindow + 1) /\ y = IF l > 0 THEN l - 1 ELSE 0
  OBVIOUS
<1>12. x \in Nat /\ y \in Nat /\ (x = k + 1 \/ (x = k /\ k > FailWindow)) /\ (l > 0 => y = l - 1) /\ (l = 0 => y = 0)
  BY <1>2, <1>10, <1>11 DEF UpTo
<1>13. limit'.fails = f /\ limit'.first = x /\ limit'.lock = y
  BY <1>1, <1>8, <1>9, <1>11
<1>14. PICK s : s = recent[FailWindow]
  OBVIOUS
<1>15. PICK t : t = recent'[FailWindow]
  OBVIOUS
<1>16. s \in Nat /\ t \in Nat /\ t <= s /\ t = recent[FailWindow - 1]
  BY <1>2, <1>3, <1>5, <1>6, <1>14, <1>15
<1>17. Guessing' = Guessing
  <2>1. \A r \in Request : ReqOK(req[r])
    BY DEF AuthInv, RequestsOK
  <2>2. ASSUME NEW r \in Request PROVE req'[r].pc = req[r].pc
    <3>1. CASE req[r].pc \in {"dial", "store"}
      <4>1. PICK q : q = [req[r] EXCEPT !.age = req[r].age + 1]
        OBVIOUS
      <4>2. q.pc = req[r].pc
        BY <2>1, <4>1, EditedAge DEF ReqOK
      <4>3. req'[r] = q
        BY <1>1, <3>1, <4>1
      <4> QED
        BY <4>2, <4>3
    <3>2. CASE req[r].pc \notin {"dial", "store"}
      BY <1>1, <3>2
    <3> QED
      BY <3>1, <3>2
  <2> QED
    BY <2>2 DEF Guessing
<1>18. PICK g, R : g = Cardinality(Guessing) /\ R = Cardinality(Request)
  OBVIOUS
<1>19. g \in Nat /\ R \in Nat
  <2>1. Guessing \in SUBSET Request
    BY DEF Guessing
  <2> QED
    BY <1>18, <2>1, GuessingType
<1>20. /\ k >= FailWindow => s <= f
       /\ l = 0 => s < f + MaxFails
       /\ l > 0 => s + g <= 2 * MaxFails + R - 2 /\ (k >= FailWindow \/ k + l >= LockoutTime)
  <2>1. k >= FailWindow => Least(k, FailWindow) = FailWindow
    BY <1>2, <1>10 DEF Least
  <2> QED
    BY <1>9, <1>14, <1>18, <2>1 DEF LimitInv
<1>21. recent'[Least(x, FailWindow)] <= f
  <2>1. CASE k >= FailWindow
    <3>1. Least(x, FailWindow) = FailWindow
      BY <1>2, <1>10, <1>12, <2>1 DEF Least
    <3>2. t <= f
      BY <1>10, <1>16, <1>20, <2>1
    <3> QED
      BY <1>15, <3>1, <3>2
  <2>2. CASE k < FailWindow
    <3>1. x = k + 1 /\ Least(x, FailWindow) = k + 1 /\ Least(k, FailWindow) = k
      BY <1>2, <1>10, <1>12, <2>2 DEF Least
    <3>2. recent[k] <= f
      BY <1>9, <3>1 DEF LimitInv
    <3>3. PICK m \in 0 .. FailWindow : m = k + 1
      BY <1>2, <1>10, <2>2
    <3>4. m > 0 /\ m - 1 = k
      BY <1>10, <3>3
    <3>5. recent'[m] = recent[k]
      BY <1>5, <3>4
    <3> QED
      BY <3>1, <3>2, <3>3, <3>5
  <2> QED
    BY <1>2, <1>10, <2>1, <2>2
<1>22. y = 0 => t < f + MaxFails
  <2>1. CASE l = 0
    BY <1>2, <1>10, <1>16, <1>20, <2>1
  <2>2. CASE l > 0 /\ y = 0
    <3>1. x >= FailWindow
      BY <1>2, <1>10, <1>12, <1>20, <2>2
    <3>2. Least(x, FailWindow) = FailWindow
      BY <1>2, <1>12, <3>1 DEF Least
    <3>3. t <= f
      BY <1>15, <1>21, <3>2
    <3> QED
      BY <1>2, <1>10, <1>16, <3>3
  <2> QED
    BY <1>10, <2>1, <2>2
<1>23. y > 0 => t + g <= 2 * MaxFails + R - 2 /\ (x >= FailWindow \/ x + y >= LockoutTime)
  BY <1>2, <1>10, <1>12, <1>16, <1>19, <1>20
<1> QED
  BY <1>6, <1>7, <1>10, <1>13, <1>15, <1>17, <1>18, <1>21, <1>22, <1>23 DEF LimitInv

\* limiter.allowed: a request passes only if the address is not locked.
LEMMA AskLimiterLimit ==
  ASSUME AuthInv, LimitInv, NEW r \in Request, AskLimiter(r)
  PROVE  LimitInv'
<1>1. /\ req[r].pc = "limit" /\ UNCHANGED <<limit, recent>>
      /\ limit.lock > 0 => req' = [req EXCEPT ![r] = Idle]
  BY DEF AskLimiter
<1>2. CASE limit.lock > 0
  <2>1. Idle.pc = "idle" /\ req = [s \in Request |-> req[s]]
    BY DEF Idle, AuthInv, RequestsOK
  <2>2. Guessing' \subseteq Guessing
    BY <1>1, <1>2, <2>1 DEF Guessing
  <2> QED
    BY <1>1, <2>2, FewerGuess
<1>3. CASE ~(limit.lock > 0)
  BY <1>1, <1>3 DEF LimitInv
<1> QED
  BY <1>2, <1>3

\* Every other step of a request: one that has not asked the limiter yet is not
\* guessing after it, and one whose password was checked guesses no more than before.
LEMMA OthersLimit ==
  ASSUME AuthInv, LimitInv, NEW r \in Request, NEW q, req' = [req EXCEPT ![r] = q],
         q.pc \in {"verify", "reject"} => req[r].pc \in {"verify", "reject"}, UNCHANGED <<limit, recent>>
  PROVE  LimitInv'
<1>1. req = [s \in Request |-> req[s]]
  BY DEF AuthInv, RequestsOK
<1>2. Guessing' \subseteq Guessing
  BY <1>1 DEF Guessing
<1> QED
  BY <1>2, FewerGuess

\* A step of a request's goroutine before its handler (Server.protect, login).
LEMMA ProceedLimit ==
  ASSUME AuthInv, LimitInv, NEW r \in Request, Proceed(r)
  PROVE  LimitInv'
<1>0. ReqOK(req[r]) /\ req[r] = Whole(req[r]) /\ Idle.pc = "idle"
  BY IdleOK DEF AuthInv, RequestsOK, ReqOK
<1>1. CASE AskCache(r)
  <2>1. PICK p : p = [req[r] EXCEPT !.pc = "dial"]
    OBVIOUS
  <2>2. p.pc = "dial"
    BY <1>0, <2>1, EditedPc
  <2>3. PICK q : q = IF Cached(req[r].rt) THEN Told(req[r], reach.ok) ELSE p
    OBVIOUS
  <2>4. reach.ok \in BOOLEAN
    BY DEF AuthInv, SharedOK
  <2>5. Told(req[r], reach.ok).pc \in {"limit", "session", "idle", "served"}
    BY <1>0, <2>4, ToldOK
  <2>6. q.pc \notin {"verify", "reject"}
    BY <2>2, <2>3, <2>5
  <2>7. req' = [req EXCEPT ![r] = q] /\ UNCHANGED <<limit, recent>>
    BY <1>1, <2>1, <2>3 DEF AskCache
  <2> QED
    BY <2>6, <2>7, OthersLimit
<1>2. CASE Dial(r)
  <2>1. PICK p : p = [req[r] EXCEPT !.pc = "store"]
    OBVIOUS
  <2>2. PICK q : q = [p EXCEPT !.ok = (req[r].rt \in up)]
    OBVIOUS
  <2>3. p = Whole(p) /\ p.pc = "store"
    BY <1>0, <2>1, EditedPc
  <2>4. q.pc = "store"
    BY <2>2, <2>3, EditedOk
  <2>5. req' = [req EXCEPT ![r] = q] /\ UNCHANGED <<limit, recent>>
    BY <1>2, <2>1, <2>2 DEF Dial
  <2> QED
    BY <2>4, <2>5, OthersLimit
<1>3. CASE StoreReach(r)
  <2>1. req[r].ok \in BOOLEAN
    BY <1>0 DEF ReqOK
  <2>2. Told(req[r], req[r].ok).pc \in {"limit", "session", "idle", "served"}
    BY <1>0, <2>1, ToldOK
  <2>3. PICK q : q = Told(req[r], req[r].ok)
    OBVIOUS
  <2>4. req' = [req EXCEPT ![r] = q] /\ UNCHANGED <<limit, recent>>
    BY <1>3, <2>3 DEF StoreReach
  <2> QED
    BY <2>2, <2>3, <2>4, OthersLimit
<1>4. CASE CheckSession(r)
  <2>1. PICK q : q = IF Valid(req[r].tok) THEN At(req[r], "served") ELSE Idle
    OBVIOUS
  <2>2. q.pc \in {"served", "idle"}
    BY <1>0, <2>1, IdleOK
  <2>3. req' = [req EXCEPT ![r] = q] /\ UNCHANGED <<limit, recent>>
    BY <1>4, <2>1 DEF CheckSession
  <2> QED
    BY <2>2, <2>3, OthersLimit
<1>5. ASSUME NEW right \in BOOLEAN, Verify(r, right)
      PROVE  LimitInv'
  <2>1. PICK q : q = At(req[r], IF right THEN "accept" ELSE "reject")
    OBVIOUS
  <2>2. req[r].pc = "verify" /\ req' = [req EXCEPT ![r] = q] /\ UNCHANGED <<limit, recent>>
    BY <1>5, <2>1 DEF Verify
  <2> QED
    BY <2>2, OthersLimit
<1> QED
  BY <1>1, <1>2, <1>3, <1>4, <1>5, AskLimiterLimit, RejectLimit, AcceptLimit DEF Proceed

-----------------------------------------------------------------------------
(* The gate and the handlers together.                                      *)

WebInv == AuthInv /\ AdminInv
WebStep == WebInv' /\ (\A r \in Request : Admitted(r)) /\ (Calls!Next \/ UNCHANGED Calls!callVars)

\* The panel starts with no session, no connection and no call due.
LEMMA WebStarts ==
  ASSUME Init
  PROVE  WebInv /\ Calls!Init
<1>1. AuthInit /\ AdminInit
  BY DEF Init
<1>2. AdminInv /\ Calls!Init
  BY <1>1, AdminStarts, AbstractStart
<1>3. /\ env \in Workloads /\ addr = env.addr /\ up = Router
      /\ reach = [key |-> Nil, at |-> ReachCacheTTL, ok |-> FALSE]
      /\ limit = NoAttempt /\ tokens = [t \in Token |-> Nil] /\ life = [t \in Token |-> Nil]
      /\ req = [r \in Request |-> Idle] /\ sawDown = [a \in Router |-> Stale]
  BY <1>1 DEF AuthInit
<1>4. SharedOK
  <2>1. NoAttempt \in [fails : 0 .. MaxFails, first : 0 .. FailWindow + 1, lock : 0 .. LockoutTime]
    BY Times DEF NoAttempt
  <2>2. [key |-> Nil, at |-> ReachCacheTTL, ok |-> FALSE]
          \in [key : Router \union {Nil}, at : 0 .. ReachCacheTTL, ok : BOOLEAN]
    BY Times
  <2> QED
    BY <1>3, <2>1, <2>2, WebAuthAssumption DEF SharedOK
<1>5. TokensOK
  BY <1>3 DEF TokensOK
<1>6. RequestsOK
  BY <1>3, IdleOK DEF RequestsOK
<1>7. DownsOK
  <2>1. sawDown \in [Router -> 0 .. Stale] /\ reach.key \notin Router
    BY <1>3, Times, WebAuthAssumption
  <2>2. \A r \in Request : ProbeOK(req[r])
    BY <1>3, IdleOK DEF ProbeOK
  <2> QED
    BY <1>3, <2>1, <2>2 DEF DownsOK, CacheOK
<1> QED
  BY <1>2, <1>3, <1>4, <1>5, <1>6, <1>7 DEF WebInv, AuthInv

\* A step of the gate alone leaves the handlers and the abstract calls alone.
LEMMA SameAdmin ==
  ASSUME AdminInv, UNCHANGED adminVars
  PROVE  AdminInv' /\ UNCHANGED Calls!callVars
<1>1. UNCHANGED <<table, mu, conn, wire, replies, late, call, did, sockets, job, answer>>
  BY DEF adminVars, dialerVars
<1>2. CallShape' /\ OneHolder' /\ Wired' /\ Fresh' /\ OneConnection'
  BY <1>1 DEF AdminInv, DialerInv, ConnShape, CallShape, OneHolder, Holds, Wired, Attempt, Fresh, InCall, OneConnection
<1>3. OnWay' /\ Returned' /\ DidShape' /\ WellFormed(table)'
  BY <1>1 DEF AdminInv, DialerInv, OnWay, Refusing, Reading, Returned, DidShape, NotedOK
<1>4. AdminShape' /\ \A c \in Caller : HandlerOK(c)'
  BY <1>1 DEF AdminInv, AdminShape, HandlerOK, Past, KeySet, Truthful, Accepted, AddressSet
<1>5. UNCHANGED absVars
  BY <1>1 DEF absVars, absCall, absSeen, absDue, AbsCall, AbsSeen, Unsent, InCall
<1> QED
  BY <1>2, <1>3, <1>4, <1>5, SameAbstract DEF AdminInv, DialerInv, ConnShape

\* A handler, a call or the router moves; nobody passes the gate.
LEMMA BehindGate ==
  ASSUME WebInv, UNCHANGED authVars, AdminInv', Calls!Next \/ UNCHANGED Calls!callVars
  PROVE  WebStep
BY SameGate DEF WebInv, WebStep, Admitted, authVars

\* A step of the gate keeps the invariant and is a stutter of RouterCall.
LEMMA AtGate ==
  ASSUME WebInv, GateStep, UNCHANGED adminVars
  PROVE  WebStep
BY SameAdmin DEF WebInv, WebStep, GateStep

\* Every step of the panel keeps the invariant and is a step of RouterCall or a stutter.
LEMMA WebSteps ==
  ASSUME WebInv, [Next]_webVars
  PROVE  WebStep
<1>0. AuthInv /\ AdminInv /\ DialerInv /\ Caller = Request
  BY WebServerAssumption DEF WebInv, AdminInv
<1>1. CASE UNCHANGED webVars
  <2>1. UNCHANGED authVars /\ UNCHANGED adminVars
    BY <1>1 DEF webVars
  <2> QED
    BY <1>0, <2>1, SameAdmin, BehindGate
<1>2. ASSUME NEW r \in Request, NEW k, NEW t \in Token \union {Nil}, Enter(r, k, t)
      PROVE  WebStep
  BY <1>0, <1>2, ArriveGate, AtGate DEF Enter
<1>3. ASSUME NEW r \in Request, Gate(r)
      PROVE  WebStep
  <2>1. GateStep
    BY <1>0, <1>3, AskCacheGate, DialGate, StoreReachGate, CheckSessionGate, AskLimiterGate, VerifyGate, RejectGate,
       AcceptGate DEF Gate, Proceed
  <2> QED
    BY <1>3, <2>1, AtGate DEF Gate
<1>4. ASSUME NEW r \in Request, Reply(r)
      PROVE  WebStep
  BY <1>0, <1>4, FinishGate, AtGate DEF Reply
<1>5. ASSUME NEW r \in Request, Handle(r)
      PROVE  WebStep
  <2>1. PICK j \in env.jobs[r] : Start(r, j, addr # Nil)
    BY <1>5 DEF Handle
  <2>2. UNCHANGED authVars /\ (addr # Nil) \in BOOLEAN
    BY <1>5 DEF Handle
  <2>3. Fits(j)
    BY <1>0, WebServerAssumption DEF AuthInv
  <2>4. AdminInv' /\ (Calls!Next \/ UNCHANGED Calls!callVars)
    BY <1>0, <2>1, <2>2, <2>3, StartKeepsAdmin, StartImplements
  <2> QED
    BY <2>2, <2>4, BehindGate
<1>6. ASSUME NEW r \in Request, Work(r)
      PROVE  WebStep
  <2>1. AdminStep(r) /\ UNCHANGED authVars
    BY <1>6 DEF Work
  <2>2. CASE Resume(r)
    <3>1. AdminInv' /\ (Calls!Next \/ UNCHANGED Calls!callVars)
      BY <1>0, <2>2, ResumeKeepsAdmin, ResumeImplements
    <3> QED
      BY <2>1, <3>1, BehindGate
  <2>3. CASE CallStep(r) /\ UNCHANGED <<job, answer>>
    <3>1. AdminInv' /\ (Calls!Next \/ UNCHANGED Calls!callVars)
      BY <1>0, <2>3, CallStepKeepsAdmin, CallStepImplements
    <3> QED
      BY <2>1, <3>1, BehindGate
  <2> QED
    BY <2>1, <2>2, <2>3 DEF AdminStep
<1>7. ASSUME NEW t \in Token, Logout(t), UNCHANGED adminVars
      PROVE  WebStep
  BY <1>0, <1>7, LogoutGate, AtGate
<1>8. ASSUME NEW a \in Router, Flip(a), UNCHANGED adminVars
      PROVE  WebStep
  BY <1>0, <1>8, FlipGate, AtGate
<1>9. CASE RouterMoves /\ UNCHANGED authVars
  <2>1. AdminInv' /\ (Calls!Next \/ UNCHANGED Calls!callVars)
    BY <1>0, <1>9, RouterMovesKeepsAdmin, RouterStepImplements DEF RouterMoves
  <2> QED
    BY <1>9, <2>1, BehindGate
<1>10. CASE Time
  BY <1>0, <1>10, TickGate, AtGate DEF Time
<1> QED
  BY <1>1, <1>2, <1>3, <1>4, <1>5, <1>6, <1>7, <1>8, <1>9, <1>10 DEF Next, Goroutine

\* WebInv holds in all reachable states.
LEMMA WebInvariant == Spec => []WebInv
<1>1. Init => WebInv
  BY WebStarts
<1>2. WebInv /\ [Next]_webVars => WebInv'
  BY WebSteps DEF WebStep
<1> QED
  BY <1>1, <1>2, PTL DEF Spec

\* The values the gate shares (auth.go:17-119; server.go:30-46): a token
\* in the map is as old as it was issued, a failed login never leaves more than
\* MaxFails counted, and no probe is older than its timeout.
THEOREM PanelTypeCorrect == Spec => []AuthTypeOK
<1>1. WebInv => AuthTypeOK
  <2> SUFFICES ASSUME WebInv PROVE AuthTypeOK
    OBVIOUS
  <2>1. \A r \in Request : req[r].age <= ReachTimeout
    BY Times DEF WebInv, AuthInv, RequestsOK, ReqOK
  <2> QED
    BY <2>1 DEF WebInv, AuthInv, SharedOK, TokensOK, AuthTypeOK
<1> QED
  BY <1>1, WebInvariant, PTL

\* Every step of the panel keeps the limiter's invariant.
LEMMA LimitStep ==
  ASSUME WebInv, LimitInv, [Next]_webVars
  PROVE  LimitInv'
<1>0. AuthInv
  BY DEF WebInv
<1>1. CASE UNCHANGED <<limit, recent, req>>
  BY <1>1, FewerGuess DEF Guessing
<1>2. ASSUME NEW r \in Request, NEW k, NEW t \in Token \union {Nil}, Arrive(r, k, t)
      PROVE  LimitInv'
  <2>1. PICK u : u = [Idle EXCEPT !.kind = k, !.tok = t, !.rt = addr]
    OBVIOUS
  <2>2. PICK p : p = [u EXCEPT !.pc = "reach"]
    OBVIOUS
  <2>3. PICK v : v = Told(u, FALSE)
    OBVIOUS
  <2>4. v \in {Idle, At(u, "served")} /\ p.pc = "reach"
    BY <2>1, <2>2, <2>3 DEF Told, Idle
  <2>5. PICK q : q = IF env.noAuth \/ addr = Nil THEN v ELSE p
    OBVIOUS
  <2>6. q.pc \notin {"verify", "reject"}
    BY <2>4, <2>5, IdleOK DEF At, Idle
  <2>7. req' = [req EXCEPT ![r] = q] /\ UNCHANGED <<limit, recent>>
    BY <1>2, <2>1, <2>2, <2>3, <2>5 DEF Arrive
  <2> QED
    BY <1>0, <2>6, <2>7, OthersLimit
<1>3. ASSUME NEW r \in Request, Finish(r)
      PROVE  LimitInv'
  <2>1. req' = [req EXCEPT ![r] = Idle] /\ UNCHANGED <<limit, recent>> /\ Idle.pc = "idle"
    BY <1>3, IdleOK DEF Finish
  <2> QED
    BY <1>0, <2>1, OthersLimit
<1>4. ASSUME NEW r \in Request, Goroutine(r)
      PROVE  LimitInv'
  <2>1. CASE Gate(r)
    BY <1>0, <2>1, ProceedLimit DEF Gate
  <2>2. CASE Handle(r) \/ Work(r)
    BY <1>1, <2>2 DEF Handle, Work, authVars
  <2>3. CASE Reply(r)
    BY <1>3, <2>3 DEF Reply
  <2> QED
    BY <1>4, <2>1, <2>2, <2>3 DEF Goroutine
<1>5. ASSUME NEW t \in Token, Logout(t)
      PROVE  LimitInv'
  BY <1>1, <1>5 DEF Logout
<1>6. ASSUME NEW a \in Router, Flip(a)
      PROVE  LimitInv'
  BY <1>1, <1>6 DEF Flip
<1>7. CASE RouterMoves /\ UNCHANGED authVars
  BY <1>1, <1>7 DEF authVars
<1>8. CASE Time
  BY <1>0, <1>8, TickLimit DEF Time
<1>9. CASE UNCHANGED webVars
  BY <1>1, <1>9 DEF webVars, authVars
<1> QED
  BY <1>2, <1>4, <1>5, <1>6, <1>7, <1>8, <1>9 DEF Next, Enter

\* At first nobody has guessed.
LEMMA LimitStarts == Init => LimitInv
<1> SUFFICES ASSUME Init PROVE LimitInv
  OBVIOUS
<1>1. limit = NoAttempt /\ recent = [n \in 0 .. FailWindow |-> 0]
  BY DEF Init, AuthInit
<1>2. limit.fails = 0 /\ limit.first = FailWindow + 1 /\ limit.lock = 0
  BY <1>1 DEF NoAttempt
<1>3. Least(limit.first, FailWindow) \in 0 .. FailWindow /\ FailWindow \in 0 .. FailWindow /\ 0 \in 0 .. FailWindow
  BY <1>2, Times DEF Least
<1>4. \A n \in 0 .. FailWindow : n > 0 => recent[n - 1] <= recent[n]
  <2> SUFFICES ASSUME NEW n \in 0 .. FailWindow, n > 0 PROVE recent[n - 1] <= recent[n]
    OBVIOUS
  <2>1. n - 1 \in 0 .. FailWindow
    BY Times
  <2> QED
    BY <1>1, <2>1
<1> QED
  BY <1>1, <1>2, <1>3, <1>4, Times DEF LimitInv

\* limiter (auth.go:61-119): whatever requests overlap, an address fails no more
\* often in any failWindow than the bound says, while it has no success.
THEOREM GuessesAreBounded == Spec => []GuessesBounded
<1>1. Init => LimitInv
  BY LimitStarts
<1>2. WebInv /\ LimitInv /\ [Next]_webVars => LimitInv'
  BY LimitStep
<1>3. WebInv /\ LimitInv => GuessesBounded
  BY LimitBounds DEF WebInv, AuthInv, SharedOK
<1> QED
  BY <1>1, <1>2, <1>3, WebInvariant, PTL DEF Spec

\* protect and authRequired (server.go:129-189): whoever is served has a live
\* session, or there was a reason not to ask for one, however the probes of
\* several requests overlap.
THEOREM AccessIsJustified == Spec => AccessJustified
<1>1. WebInv /\ [Next]_webVars
        => [\A r \in Request : req[r].pc # "served" /\ req'[r].pc = "served" => Justified(r)]_authVars
  BY WebSteps DEF WebStep, Admitted
<1> QED
  BY <1>1, WebInvariant, PTL DEF Spec, AccessJustified

\* Dialer (client.go:28-113, conn.go:41-73): one connection at most, and none
\* that nobody closes.
THEOREM OneConnectionHolds == Spec => []OneConnection
<1>1. WebInv => OneConnection
  BY AdminOneConnection DEF WebInv
<1> QED
  BY <1>1, WebInvariant, PTL

\* SetInterface (iface.go:47-79): no address without the key it came with.
THEOREM ImportsStayInOrder == Spec => []ImportInOrder
<1>1. WebInv => ImportInOrder
  BY AdminImportInOrder DEF WebInv
<1> QED
  BY <1>1, WebInvariant, PTL

\* The handlers of server.go:354-478: success is only reported of changes the
\* router has accepted.
THEOREM AnswersAreTruthful == Spec => []AnswerTruthful
<1>1. WebInv => AnswerTruthful
  BY AdminAnswerTruthful DEF WebInv
<1> QED
  BY <1>1, WebInvariant, PTL

\* Call (client.go:57-113) implements RouterCall: the connections, attempts and
\* deadlines cannot be seen by who calls it, but for commands executed twice
\* or late.
THEOREM CallsAreKept == Spec => CallsKept
<1>1. Init => Calls!Init
  BY WebStarts
<1>2. WebInv /\ [Next]_webVars => [Calls!Next]_Calls!callVars
  BY WebSteps DEF WebStep
<1> QED
  BY <1>1, <1>2, WebInvariant, PTL DEF Spec, CallsKept, Calls!Spec
=============================================================================
