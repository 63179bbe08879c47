-------------------------- MODULE SupervisorProofs --------------------------
(***************************************************************************)
(* Of a saved configuration (internal/config/config.go): its settings pass *)
(* through three readers.  The panel shows Read, a save checks ToConfig of *)
(* what the page sent and writes withDefaults of it, and the supervisor    *)
(* runs Load of what was written; the three agree, for all settings.       *)
(* Of the supervisor (cmd/awgproxy/main.go:69-113): it never runs two      *)
(* stacks, for any settings, writers and numbers of saves, faults and      *)
(* restarts.                                                               *)
(***************************************************************************)
EXTENDS Supervisor, FiniteSetTheorems, TLAPS

-----------------------------------------------------------------------------
(* Settings.                                                                *)

\* Defaults leave no obfuscation block empty (config.go:155-168).
LEMMA ObfuscationSet ==
  ASSUME NEW o
  PROVE  \E k \in ObfField : DefaultObfuscation(o)[k] # 0
<1>1. CASE \E k \in ObfField : o[k] # 0
  BY <1>1 DEF DefaultObfuscation
<1>2. CASE ~\E k \in ObfField : o[k] # 0
  <2>1. DefaultObfuscation(o) = DefaultObfuscationValues
    BY <1>2 DEF DefaultObfuscation
  <2>2. "jc" \in ObfField /\ DefaultObfuscationValues["jc"] = 4
    BY DEF DefaultObfuscationValues, ObfField
  <2> QED BY <2>1, <2>2
<1> QED BY <1>1, <1>2

\* A block with defaults is not given defaults again (config.go:155-168).
LEMMA ObfuscationIdempotent ==
  ASSUME NEW o
  PROVE  DefaultObfuscation(DefaultObfuscation(o)) = DefaultObfuscation(o)
<1> DEFINE d == DefaultObfuscation(o)
<1>1. \E k \in ObfField : d[k] # 0
  BY ObfuscationSet
<1> HIDE DEF d
<1>2. DefaultObfuscation(d) = d
  BY <1>1 DEF DefaultObfuscation
<1> QED BY <1>2 DEF d

\* The same of the router's fields (config.go:170-174).
LEMMA RouterIdempotent ==
  ASSUME NEW r \in RouterSettings
  PROVE  /\ DefaultRouter(r) \in RouterSettings
         /\ DefaultRouter(DefaultRouter(r)) = DefaultRouter(r)
<1> DEFINE d == DefaultRouter(r)
<1>1. DefUser \in Text /\ DefUser # Nil
  BY ConfigAssumption DEF Text
<1>2. d \in RouterSettings
  <2> DEFINE u == Or(r.user, Nil, DefUser)
             n == Or(r.apiPort, 0, 8728)
  <2>1. u \in Text /\ n \in Int
    BY <1>1 DEF Or, RouterSettings
  <2>2. d = [r EXCEPT !.user = u, !.apiPort = n]
    BY DEF DefaultRouter
  <2> HIDE DEF u, n, d
  <2> QED BY <2>1, <2>2 DEF RouterSettings
<1>3. d.user # Nil /\ d.apiPort # 0
  BY <1>1 DEF DefaultRouter, Or, RouterSettings
<1> HIDE DEF d
<1>4. DefaultRouter(d) = [d EXCEPT !.user = d.user, !.apiPort = d.apiPort]
  BY <1>3 DEF DefaultRouter, Or
<1>5. DefaultRouter(d) = d
  BY <1>2, <1>4 DEF RouterSettings
<1> QED BY <1>2, <1>5 DEF d

\* Defaults make a profile of a profile (config.go:182-194).
LEMMA ProfileType ==
  ASSUME NEW p \in Profile
  PROVE  DefaultProfile(p) \in Profile
<1>1. DefListen \in Text
  BY ConfigAssumption DEF Text
<1>2. DefaultRouter(p.router) \in RouterSettings
  BY RouterIdempotent DEF Profile
<1>3. p.obfuscation \in Obfuscation /\ DefaultObfuscationValues \in Obfuscation
  BY DEF Profile, Obfuscation, DefaultObfuscationValues
<1>4. DefaultObfuscation(p.obfuscation) \in Obfuscation
  BY <1>3 DEF DefaultObfuscation
<1>5. /\ Or(p.listen, Nil, DefListen) \in Text
      /\ Or(p.sessionTTL, 0, 180) \in Int /\ Or(p.pollInterval, 0, 30) \in Int
  BY <1>1 DEF Or, Profile
<1> QED BY <1>2, <1>4, <1>5 DEF DefaultProfile, Profile

\* A profile with defaults is not given defaults again (config.go:182-194).
LEMMA ProfileIdempotent ==
  ASSUME NEW p \in Profile
  PROVE  DefaultProfile(DefaultProfile(p)) = DefaultProfile(p)
<1> DEFINE d == DefaultProfile(p)
<1>1. d \in Profile
  BY ProfileType
<1>2. DefListen # Nil
  BY ConfigAssumption
<1>3. d.listen # Nil /\ d.sessionTTL # 0 /\ d.pollInterval # 0
  BY <1>2 DEF DefaultProfile, Or, Profile
<1>4. d.router = DefaultRouter(p.router) /\ d.obfuscation = DefaultObfuscation(p.obfuscation)
  BY DEF DefaultProfile, Profile
<1>5. DefaultRouter(d.router) = d.router
  BY <1>4, RouterIdempotent DEF Profile
<1>6. DefaultObfuscation(d.obfuscation) = d.obfuscation
  BY <1>4, ObfuscationIdempotent
<1> HIDE DEF d
<1>7. DefaultProfile(d) =
        [d EXCEPT !.listen = d.listen, !.sessionTTL = d.sessionTTL,
                  !.pollInterval = d.pollInterval, !.obfuscation = d.obfuscation,
                  !.router = d.router]
  BY <1>3, <1>5, <1>6 DEF DefaultProfile, Or
<1>8. DefaultProfile(d) = d
  BY <1>1, <1>7 DEF Profile
<1> QED BY <1>8 DEF d

\* Defaults are given once: the file a save wrote is shown as it is
\* (config.go:177-196, 353-359, 387).
LEMMA DefaultsIdempotent ==
  ASSUME NEW s \in Settings
  PROVE  WithDefaults(WithDefaults(s)) = WithDefaults(s)
<1>1. s.server \in Profile /\ s.client \in Profile
  BY DEF Settings
<1>2. DefaultProfile(DefaultProfile(s.server)) = DefaultProfile(s.server)
  BY <1>1, ProfileIdempotent
<1>3. DefaultProfile(DefaultProfile(s.client)) = DefaultProfile(s.client)
  BY <1>1, ProfileIdempotent
<1> QED BY <1>2, <1>3 DEF WithDefaults, Or

\* What a save checked is what the supervisor runs: config.Write validates the
\* configuration of the settings as they were sent and writes them with
\* defaults; Load makes the same configuration of the file (config.go:340-346,
\* 373-391).
THEOREM SavedIsRun ==
  ASSUME NEW s \in Settings
  PROVE  ToConfig(WithDefaults(s)) = ToConfig(s)
<1>1. WithDefaults(WithDefaults(s)) = WithDefaults(s)
  BY DefaultsIdempotent
<1> QED BY <1>1 DEF ToConfig

\* A section that was saved is valid in the configuration that runs
\* (config.go:366-392).
THEOREM SavedIsValid ==
  ASSUME NEW s \in Settings, NEW section \in Section, Saved(s, section)
  PROVE  Valid(section, ToConfig(WithDefaults(s)))
BY SavedIsRun DEF Saved

\* The panel and the stack talk to the same router: the handlers of the web
\* interface ask ActiveRouter of Read, the supervisor takes Router of Load, and
\* an unknown mode is server mode for both (config.go:206-211, 353-359, 394-400;
\* api/server.go:140-150, 225).
THEOREM PanelRouter ==
  ASSUME NEW s \in Settings
  PROVE  ActiveRouter(WithDefaults(s)) = ToConfig(s).run.router
<1>1. FillServer(WithDefaults(s).server).router = WithDefaults(s).server.router
  BY DEF FillServer
<1>2. FillClient(WithDefaults(s).client).router = WithDefaults(s).client.router
  BY DEF FillClient, FillServer
<1> QED BY <1>1, <1>2 DEF ActiveRouter, ToConfig

-----------------------------------------------------------------------------
(* The supervisor.                                                          *)

\* Between StopDone and the next StartStack nothing runs; what runs, or is
\* ending, is the stack of this turn with the configuration cleanupStaleRules
\* will compare the next one with (main.go:70, 88-113).
TurnInv ==
  /\ turn \in {0, 1}
  /\ spc \in {"load", "start", "wait"} => stacks = {}
  /\ spc = "run" => stacks = {<<turn, prev>>}
  /\ spc = "stop" => stacks \in {{}, {<<turn, prev>>}}

SupervisorInv == TypeOK /\ TurnInv

\* A rule of a configuration is among the rules the model follows.
LEMMA RuleType ==
  ASSUME NEW v \in Contents, NEW k \in Kind
  PROVE  RuleOf(k, RouterOf(v)) \in Rules
BY DEF Rules

\* Removals a start asks for (main.go:135-178, 354-404).
LEMMA CleanupType ==
  ASSUME NEW next \in Contents, prev \in Contents \union {Nil}
  PROVE  StaleRules(next) \union UnwantedRules(next) \subseteq Cleanups
<1>1. StaleRules(next) \subseteq Cleanups
  <2>1. CASE prev = Nil
    BY <2>1 DEF StaleRules
  <2>2. CASE prev \in Contents
    <3>1. StaleRules(next) \subseteq {<<"service", RuleOf(k, RouterOf(prev))>> : k \in Kind}
      BY DEF StaleRules
    <3> QED
      BY <2>2, <3>1, RuleType DEF Cleanups
  <2> QED
    BY <2>1, <2>2
<1>2. Unwanted(ConfigOf[next]) \subseteq Kind
  BY DEF Unwanted
<1>3. UnwantedRules(next) \subseteq Cleanups
  BY <1>2, RuleType DEF UnwantedRules, Cleanups
<1> QED
  BY <1>1, <1>3

\* At the start of the process nothing runs.
LEMMA SupervisorInit == Init => SupervisorInv
<1> SUFFICES ASSUME Init PROVE SupervisorInv
  OBVIOUS
<1>1. file \in Contents
  BY DEF Init, Version, Contents
<1> QED
  BY <1>1 DEF Init, SupervisorInv, TypeOK, TurnInv

\* putConfig leaves the supervisor alone.
LEMMA SaveKeepsInv ==
  ASSUME SupervisorInv,
         \/ \E w \in Writer, d \in Doc : SaveTruncate(w, d)
         \/ \E w \in Writer : SaveWrite(w)
  PROVE  SupervisorInv'
<1>1. ASSUME NEW w \in Writer, NEW d \in Doc, SaveTruncate(w, d) PROVE SupervisorInv'
  <2>1. file' = Empty /\ [doc |-> d, complete |-> TRUE] \in Version
    BY <1>1 DEF SaveTruncate, Version
  <2>2. writing' \in [Writer -> Version \union {Nil}]
    BY <1>1, <2>1 DEF SaveTruncate, SupervisorInv, TypeOK
  <2>3. UNCHANGED <<spc, loaded, prev, turn, stacks, cleanups, rules>>
    BY <1>1 DEF SaveTruncate
  <2> QED
    BY <2>1, <2>2, <2>3 DEF SupervisorInv, TypeOK, TurnInv, Contents
<1>2. ASSUME NEW w \in Writer, SaveWrite(w) PROVE SupervisorInv'
  <2>1. file' \in Version \union {Garbled}
    BY <1>2 DEF SaveWrite, SupervisorInv, TypeOK
  <2>2. writing' \in [Writer -> Version \union {Nil}]
    BY <1>2 DEF SaveWrite, SupervisorInv, TypeOK
  <2>3. UNCHANGED <<spc, loaded, prev, turn, stacks, cleanups, rules>>
    BY <1>2 DEF SaveWrite
  <2> QED
    BY <2>1, <2>2, <2>3 DEF SupervisorInv, TypeOK, TurnInv, Contents
<1> QED
  BY <1>1, <1>2

\* The supervisor's own steps.
LEMMA SuperviseKeepsInv ==
  ASSUME SupervisorInv, Supervise
  PROVE  SupervisorInv'
<1> USE DEF SupervisorInv, TypeOK, TurnInv
<1>1. CASE Load
  <2>1. loaded' \in Contents /\ loaded' # Nil
    BY <1>1, ContentAssumption DEF Load, Contents
  <2> QED
    BY <1>1, <2>1 DEF Load
<1>2. CASE StartStack
  <2>1. loaded \in Contents /\ stacks' = {<<turn, loaded>>} /\ prev' = loaded
    BY <1>2 DEF StartStack
  <2>2. cleanups' \subseteq Cleanups
    BY <1>2, <2>1, CleanupType DEF StartStack
  <2>3. turn \in {0, 1}
    OBVIOUS
  <2> QED
    BY <1>2, <2>1, <2>2, <2>3 DEF StartStack, Stacks
<1>3. CASE LoadFails
  BY <1>3 DEF LoadFails
<1>4. CASE TakeReload
  <2>1. cleanups' \subseteq Cleanups
    BY <1>4 DEF TakeReload, Cleanups
  <2> QED
    BY <1>4, <2>1 DEF TakeReload
<1>5. CASE StackEnds
  <2>1. stacks' = {}
    BY <1>5 DEF StackEnds
  <2> QED
    BY <1>5, <2>1 DEF StackEnds
<1>6. CASE StopDone
  <2>1. stacks = {}
    BY <1>6 DEF StopDone
  <2> QED
    BY <1>6, <2>1 DEF StopDone
<1> QED
  BY <1>1, <1>2, <1>3, <1>4, <1>5, <1>6 DEF Supervise

\* The router's side and a restart.
LEMMA WorldKeepsInv ==
  ASSUME SupervisorInv,
         \/ \E s \in stacks, k \in Kind : Tick(s, k)
         \/ \E t \in cleanups : Cleanup(t) \/ CleanupFails(t)
         \/ Crash
  PROVE  SupervisorInv'
<1> USE DEF SupervisorInv, TypeOK, TurnInv
<1>1. ASSUME NEW s \in stacks, NEW k \in Kind, Tick(s, k) PROVE SupervisorInv'
  <2>1. s[2] \in Contents
    BY DEF Stacks
  <2>2. rules' \subseteq Rules
    BY <1>1, <2>1, RuleType DEF Tick
  <2> QED
    BY <1>1, <2>2 DEF Tick
<1>2. ASSUME NEW t \in cleanups, Cleanup(t) PROVE SupervisorInv'
  BY <1>2 DEF Cleanup
<1>3. ASSUME NEW t \in cleanups, CleanupFails(t) PROVE SupervisorInv'
  BY <1>3 DEF CleanupFails
<1>4. CASE Crash
  BY <1>4 DEF Crash
<1> QED
  BY <1>1, <1>2, <1>3, <1>4

\* Whoever moves.
LEMMA SupervisorStep == SupervisorInv /\ [Next]_vars => SupervisorInv'
<1> SUFFICES ASSUME SupervisorInv, [Next]_vars PROVE SupervisorInv'
  OBVIOUS
<1>1. CASE UNCHANGED vars
  BY <1>1 DEF vars, SupervisorInv, TypeOK, TurnInv
<1> QED
  BY <1>1, SaveKeepsInv, SuperviseKeepsInv, WorldKeepsInv DEF Next

\* The supervisor's variables keep their types whatever is saved, fails or
\* restarts (main.go:69-113).
THEOREM SupervisorTypeCorrect == FairSpec => []TypeOK
<1>1. SupervisorInv => TypeOK
  BY DEF SupervisorInv
<1> QED
  BY <1>1, SupervisorInit, SupervisorStep, PTL DEF FairSpec

\* A stack is only started when the last one has ended: two never bind the
\* same sockets (main.go:110-111).
THEOREM NeverTwoStacks == FairSpec => []OneStack
<1>1. SupervisorInv => OneStack
  <2> SUFFICES ASSUME SupervisorInv PROVE OneStack
    OBVIOUS
  <2>1. stacks = {} \/ stacks = {<<turn, prev>>}
    BY DEF SupervisorInv, TypeOK, TurnInv
  <2>2. Cardinality({}) = 0 /\ Cardinality({<<turn, prev>>}) = 1
    BY FS_EmptySet, FS_Singleton
  <2> QED
    BY <2>1, <2>2 DEF OneStack
<1> QED
  BY <1>1, SupervisorInit, SupervisorStep, PTL DEF FairSpec
=============================================================================
