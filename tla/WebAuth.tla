------------------------------ MODULE WebAuth ------------------------------
(***************************************************************************)
(* Who gets into the web panel (internal/api/auth.go and the first half of *)
(* server.go).  Every HTTP request is a goroutine; they share the map of   *)
(* session tokens, the limiter of failed logins and the cache of the last  *)
(* reachability probe, each under its own mutex, which is released while a *)
(* router is dialled.  So probes and logins overlap, and what a request    *)
(* was told may be out of date when it acts on it.                         *)
(*                                                                         *)
(* Times are counted in ticks.  The limiter keeps one entry per client     *)
(* address; entries do not influence each other, and the module has one.   *)
(***************************************************************************)
EXTENDS Integers, FiniteSets

CONSTANTS
  Request,         \* requests served at one time
  Token,           \* session tokens; bound: successful logins
  Router,          \* addresses of routers
  Workloads,       \* what a run of the program is exposed to, see env
  MaxFails, FailWindow, LockoutTime, SessionTTL, ReachCacheTTL,   \* auth.go:12, 63-65
  ReachTimeout,    \* server.go:44-45
  Nil

ASSUME WebAuthAssumption ==
  /\ Nil \notin Router /\ Nil \notin Token
  /\ IsFiniteSet(Request) /\ MaxFails \in Nat \ {0}
  /\ {FailWindow, LockoutTime, SessionTTL, ReachCacheTTL, ReachTimeout} \subseteq Nat \ {0}
  /\ FailWindow <= LockoutTime
  /\ \A w \in Workloads : w.addr \in Router \union {Nil}

VARIABLES
  env,       \* AWGPROXY_NO_AUTH, kinds of requests that come in, wrong passwords
             \* typed, how often routers and settings change at most, and the like
  addr,      \* router.address of the active section, Nil if none can be read
  up,        \* routers that accept a TCP connection
  reach,     \* reachKey, reachAt (as an age) and reachOK
  limit,     \* attempt: fails, first (as an age), lockUntil (ticks to go)
  tokens,    \* sessions.m: token -> its age, Nil if it is not in the map
  req,       \* what each request is doing
  life,      \* history: token -> age since it was issued, SessionTTL + 1 if logged out
  sawDown,   \* history: router -> ticks since it was last down
  recent,    \* history: failed logins since the last success, less than n ticks ago
  flips

authVars == <<env, addr, up, reach, limit, tokens, req, life, sawDown, recent, flips>>

Idle == [pc |-> "idle", kind |-> Nil, tok |-> Nil, rt |-> Nil, ok |-> FALSE, age |-> 0]
NoAttempt == [fails |-> 0, first |-> FailWindow + 1, lock |-> 0]
Over == SessionTTL + 1
Stale == ReachCacheTTL + ReachTimeout

AuthInit ==
  /\ env \in Workloads
  /\ addr = env.addr
  /\ up = Router
  /\ reach = [key |-> Nil, at |-> ReachCacheTTL, ok |-> FALSE]
  /\ limit = NoAttempt
  /\ tokens = [t \in Token |-> Nil]
  /\ req = [r \in Request |-> Idle]
  /\ life = [t \in Token |-> Nil]
  /\ sawDown = [a \in Router |-> Stale]
  /\ recent = [n \in 0 .. FailWindow |-> 0]
  /\ flips = 0

-----------------------------------------------------------------------------
(* authRequired.                                                            *)

\* A request goes on from pc; only its kind and its cookie still matter.
At(q, pc) == [Idle EXCEPT !.pc = pc, !.kind = q.kind, !.tok = q.tok]

\* What becomes of request q once it is known whether a login is needed:
\* protect and gateStatic look for a session, login asks the limiter.
Told(q, required) ==
  CASE  required /\ q.kind = "login" -> At(q, "limit")
    []  required /\ q.kind # "login" -> At(q, "session")
    [] ~required /\ q.kind = "login" -> Idle
    [] ~required /\ q.kind # "login" -> At(q, "served")

\* A request comes in, perhaps with a cookie, and the file is read.
Arrive(r, k, t) ==
  /\ req[r].pc = "idle" /\ k \in env.kinds
  /\ t # Nil => k # "login" /\ life[t] # Nil
  /\ LET q == [Idle EXCEPT !.kind = k, !.tok = t, !.rt = addr]
     IN req' = [req EXCEPT ![r] = IF env.noAuth \/ addr = Nil THEN Told(q, FALSE)
                                  ELSE [q EXCEPT !.pc = "reach"]]
  /\ UNCHANGED <<env, addr, up, reach, limit, tokens, life, sawDown, recent, flips>>

\* Mutant of Cached: an answer about another router counts.
CachedAny(rt) == reach.key # Nil /\ reach.at < ReachCacheTTL

\* The last probe was of this router and is recent enough.
Cached(rt) == reach.key = rt /\ reach.at < ReachCacheTTL

\* Mutant of AskCache: a hit renews the entry.
AskCacheSlides(r) ==
  /\ req[r].pc = "reach"
  /\ req' = [req EXCEPT ![r] = IF Cached(@.rt) THEN Told(@, reach.ok) ELSE [@ EXCEPT !.pc = "dial"]]
  /\ reach' = IF Cached(req[r].rt) THEN [reach EXCEPT !.at = 0] ELSE reach
  /\ UNCHANGED <<env, addr, up, limit, tokens, life, sawDown, recent, flips>>

\* routerReachable, first half: take the cached answer, or unlock and dial.
AskCache(r) ==
  /\ req[r].pc = "reach"
  /\ req' = [req EXCEPT ![r] = IF Cached(@.rt) THEN Told(@, reach.ok) ELSE [@ EXCEPT !.pc = "dial"]]
  /\ UNCHANGED <<env, addr, up, reach, limit, tokens, life, sawDown, recent, flips>>

\* The dial ends, with success if the router is up.
Dial(r) ==
  /\ req[r].pc = "dial"
  /\ req' = [req EXCEPT ![r].pc = "store", ![r].ok = (req[r].rt \in up)]
  /\ UNCHANGED <<env, addr, up, reach, limit, tokens, life, sawDown, recent, flips>>

\* routerReachable, second half: the answer is cached as of now, whatever
\* another probe has stored meanwhile.
StoreReach(r) ==
  /\ req[r].pc = "store"
  /\ reach' = [key |-> req[r].rt, at |-> 0, ok |-> req[r].ok]
  /\ req' = [req EXCEPT ![r] = Told(@, @.ok)]
  /\ UNCHANGED <<env, addr, up, limit, tokens, life, sawDown, recent, flips>>

-----------------------------------------------------------------------------
(* Sessions.                                                                *)

\* valid: the token is in the map and not too old.
Valid(t) == t # Nil /\ tokens[t] # Nil /\ tokens[t] <= SessionTTL

\* authed: the request is served or refused; an expired token is forgotten.
\* (authStatus and serveLogin ask the same and only report it.)
CheckSession(r) ==
  LET t == req[r].tok IN
    /\ req[r].pc = "session"
    /\ req' = [req EXCEPT ![r] = IF Valid(t) THEN At(@, "served") ELSE Idle]
    /\ tokens' = IF t # Nil /\ ~Valid(t) THEN [tokens EXCEPT ![t] = Nil] ELSE tokens
    /\ UNCHANGED <<env, addr, up, reach, limit, life, sawDown, recent, flips>>

\* The protected handler is done.
Finish(r) ==
  /\ req[r].pc = "served"
  /\ req' = [req EXCEPT ![r] = Idle]
  /\ UNCHANGED <<env, addr, up, reach, limit, tokens, life, sawDown, recent, flips>>

\* Mutant of Logout: only the cookie is cleared.
LogoutCookieOnly(t) ==
  /\ life[t] # Nil /\ "login" \in env.kinds
  /\ life' = [life EXCEPT ![t] = Over]
  /\ UNCHANGED <<env, addr, up, reach, limit, tokens, req, sawDown, recent, flips>>

\* logout.
Logout(t) ==
  /\ life[t] # Nil /\ "login" \in env.kinds
  /\ tokens' = [tokens EXCEPT ![t] = Nil]
  /\ life' = [life EXCEPT ![t] = Over]
  /\ UNCHANGED <<env, addr, up, reach, limit, req, sawDown, recent, flips>>

-----------------------------------------------------------------------------
(* login.                                                                   *)

\* allowed: a locked address is turned away; then the file is read again.  One
\* that cannot be read ends the request, and no failure is counted; an empty
\* address is tried like any other.
AskLimiter(r) ==
  /\ req[r].pc = "limit"
  /\ \E readable \in BOOLEAN :
       /\ addr # Nil => readable
       /\ req' = [req EXCEPT ![r] = IF limit.lock > 0 \/ ~readable THEN Idle
                                   ELSE [@ EXCEPT !.pc = "verify", !.rt = addr]]
  /\ UNCHANGED <<env, addr, up, reach, limit, tokens, life, sawDown, recent, flips>>

Unissued == {t \in Token : life[t] = Nil}

\* Verify: the router accepts the password, or it rejects it or cannot be
\* reached.  Of accepted logins there are as many as tokens.
Verify(r, right) ==
  /\ req[r].pc = "verify"
  /\ right => /\ req[r].rt \in up
              /\ Cardinality({s \in Request : req[s].pc = "accept"}) < Cardinality(Unissued)
  /\ ~right => env.guesses \/ req[r].rt \notin up
  /\ req' = [req EXCEPT ![r] = At(@, IF right THEN "accept" ELSE "reject")]
  /\ UNCHANGED <<env, addr, up, reach, limit, tokens, life, sawDown, recent, flips>>

\* Mutant of Failed: one failure too many before the lock.
FailedLate(a) ==
  LET b == IF a.first > FailWindow THEN [fails |-> 0, first |-> 0, lock |-> 0] ELSE a
  IN IF b.fails + 1 > MaxFails THEN [fails |-> 0, first |-> 0, lock |-> LockoutTime]
     ELSE [b EXCEPT !.fails = @ + 1]

\* limiter.fail: a failure opens a window or counts in the present one, and
\* the last of MaxFails locks the address.
Failed(a) ==
  LET b == IF a.first > FailWindow THEN [fails |-> 0, first |-> 0, lock |-> 0] ELSE a
  IN IF b.fails + 1 >= MaxFails THEN [fails |-> 0, first |-> 0, lock |-> LockoutTime]
     ELSE [b EXCEPT !.fails = @ + 1]

\* The failure is counted.
Reject(r) ==
  /\ req[r].pc = "reject"
  /\ limit' = Failed(limit)
  /\ recent' = [n \in DOMAIN recent |-> IF n = 0 THEN 0 ELSE recent[n] + 1]
  /\ req' = [req EXCEPT ![r] = Idle]
  /\ UNCHANGED <<env, addr, up, reach, tokens, life, sawDown, flips>>

\* reset and create: the counter goes, lock included, and a token is issued.
Accept(r) ==
  /\ req[r].pc = "accept"
  /\ limit' = NoAttempt
  /\ recent' = [n \in DOMAIN recent |-> 0]
  /\ LET t == CHOOSE u \in Unissued : TRUE
     IN tokens' = [tokens EXCEPT ![t] = 0] /\ life' = [life EXCEPT ![t] = 0]
  /\ req' = [req EXCEPT ![r] = Idle]
  /\ UNCHANGED <<env, addr, up, reach, sawDown, flips>>

-----------------------------------------------------------------------------
(* The world.                                                               *)

\* A router goes down or comes back; another address is configured, or none.
Flip(a) ==
  /\ flips < env.flips
  /\ flips' = flips + 1
  /\ \/ /\ up' = IF a \in up THEN up \ {a} ELSE up \union {a}
        /\ sawDown' = [sawDown EXCEPT ![a] = 0]
        /\ UNCHANGED addr
     \/ /\ addr' \in (Router \union {Nil}) \ {addr}
        /\ UNCHANGED <<up, sawDown>>
  /\ UNCHANGED <<env, reach, limit, tokens, req, life, recent>>

UpTo(n, max) == IF n < max THEN n + 1 ELSE n

\* A dial takes no longer than ReachTimeout and its answer is stored at once.
Tick ==
  /\ \A r \in Request : req[r].pc \in {"dial", "store"} => req[r].age < ReachTimeout
  /\ reach' = [reach EXCEPT !.at = UpTo(@, ReachCacheTTL)]
  /\ limit' = [limit EXCEPT !.first = UpTo(@, FailWindow + 1), !.lock = IF @ > 0 THEN @ - 1 ELSE 0]
  /\ tokens' = [t \in Token |-> IF tokens[t] = Nil THEN Nil ELSE UpTo(tokens[t], Over)]
  /\ life' = [t \in Token |-> IF life[t] = Nil THEN Nil ELSE UpTo(life[t], Over)]
  /\ sawDown' = [a \in Router |-> IF a \in up THEN UpTo(sawDown[a], Stale) ELSE 0]
  /\ recent' = [n \in DOMAIN recent |-> IF n = 0 THEN 0 ELSE recent[n - 1]]
  /\ req' = [r \in Request |->
               IF req[r].pc \in {"dial", "store"} THEN [req[r] EXCEPT !.age = @ + 1] ELSE req[r]]
  /\ UNCHANGED <<env, addr, up, flips>>

\* What the goroutine of a request may do next, its handler aside.
Proceed(r) ==
  \/ AskCache(r) \/ Dial(r) \/ StoreReach(r) \/ CheckSession(r)
  \/ AskLimiter(r) \/ \E right \in BOOLEAN : Verify(r, right)
  \/ Reject(r) \/ Accept(r)

-----------------------------------------------------------------------------

\* The values of the shared state; a token is as old as it was issued, and it
\* is not in the map once it was logged out (auth.go:17-59).
AuthTypeOK ==
  /\ addr \in Router \union {Nil} /\ up \subseteq Router
  /\ reach \in [key : Router \union {Nil}, at : 0 .. ReachCacheTTL, ok : BOOLEAN]
  /\ limit \in [fails : 0 .. MaxFails, first : 0 .. FailWindow + 1, lock : 0 .. LockoutTime]
  /\ \A t \in Token : tokens[t] # Nil => tokens[t] = life[t]
  /\ \A r \in Request : req[r].age <= ReachTimeout

\* Whoever gets past protect has a session that a verified login opened less
\* than SessionTTL ago and nobody logged out, or the panel is open for a
\* reason: no address, AWGPROXY_NO_AUTH, or the router was down a moment ago,
\* at most a probe and the life of its answer (server.go:129-189).  Probes that
\* overtake each other do not stretch that moment.
Justified(r) ==
  LET q == req[r] IN
    IF q.pc = "session" THEN life[q.tok] <= SessionTTL
    ELSE IF q.pc = "idle" THEN env.noAuth \/ addr = Nil
    ELSE sawDown[q.rt] < Stale
AccessJustified ==
  [][\A r \in Request : req[r].pc # "served" /\ req'[r].pc = "served" => Justified(r)]_authVars

\* The limiter bounds the failed logins of an address in any FailWindow, the
\* ones included that had passed it when the lock was set (auth.go:61-119).  It
\* does not lock after MaxFails failures in a row, as README.md:143-144 and the
\* comment at auth.go:63 have it: a window counts from its first failure and
\* the first one after it opens another (auth.go:102), so up to MaxFails - 1 of
\* each may come together (MCWebServer, FailuresInARowUnlocked).
GuessesBounded ==
  recent[FailWindow] <= 2 * MaxFails + Cardinality(Request) - 2

\* server.go:129-131: a router that stays down does not lock anybody out; from
\* some time on no request is refused.
PanelOpens ==
  <>[](addr \in Router \ up)
    => <>[][\A r \in Request : req[r].pc = "session" => req'[r].pc # "idle"]_authVars
=============================================================================
