----------------------------- MODULE WebServer -----------------------------
(***************************************************************************)
(* The web panel: the gate of WebAuth in front of the handlers of          *)
(* PeerAdmin (api/server.go, Handler).  A request of kind "admin" talks to *)
(* the router; "view" stands for the handlers that do not, static files    *)
(* included.                                                               *)
(***************************************************************************)
EXTENDS WebAuth, PeerAdmin

ASSUME WebServerAssumption ==
  /\ Caller = Request
  /\ \A w \in Workloads : \A r \in Request : \A j \in w.jobs[r] : Fits(j)

webVars == <<authVars, adminVars>>

Init == AuthInit /\ AdminInit /\ table \in env.tables

\* A request that got through the gate is handed to its handler.
Handle(r) ==
  /\ req[r].pc = "served" /\ req[r].kind = "admin"
  /\ \E j \in env.jobs[r] : Start(r, j, addr # Nil)
  /\ UNCHANGED authVars

\* The handler has written its answer, or had nothing to ask the router.
Reply(r) ==
  /\ req[r].kind = "admin" => answer[r].code # None
  /\ Finish(r)
  /\ UNCHANGED adminVars

Enter(r, k, t) ==
  /\ k = "admin" => job[r] = None
  /\ Arrive(r, k, t)
  /\ UNCHANGED adminVars

Gate(r) == Proceed(r) /\ UNCHANGED adminVars
Work(r) == AdminStep(r) /\ UNCHANGED authVars
Goroutine(r) == Gate(r) \/ Handle(r) \/ Work(r) \/ Reply(r)
Time == Tick /\ UNCHANGED adminVars

Next ==
  \/ \E r \in Request :
       \/ \E k \in {"login", "view", "admin"}, t \in Token \union {Nil} : Enter(r, k, t)
       \/ Goroutine(r)
  \/ \E t \in Token : Logout(t) /\ UNCHANGED adminVars
  \/ \E a \in Router : Flip(a) /\ UNCHANGED adminVars
  \/ RouterMoves /\ UNCHANGED authVars
  \/ Time

\* Goroutines run; deadlines end what the router leaves open, so nothing is
\* assumed of the router; clients need not send anything.
Fairness == WF_webVars(Time) /\ \A r \in Request : WF_webVars(Goroutine(r))

Spec == Init /\ [][Next]_webVars /\ Fairness
=============================================================================
