----------------------------- MODULE Supervisor ----------------------------
(***************************************************************************)
(* The supervisor (cmd/awgproxy/main.go): it loads config.json, runs one   *)
(* proxy stack for it and starts the next stack when the web interface has *)
(* saved another configuration.  The PUT handlers (internal/api), the      *)
(* supervisor, the stack's poller and the cleanup goroutines are           *)
(* concurrent; the process may be killed and restarted between any two     *)
(* steps, and only the file and the router outlive it.                     *)
(*                                                                         *)
(* The settings and the configuration made of them are those of module     *)
(* ConfigStore; of a router the model keeps which rules it has.  Installing *)
(* and removing a rule is one step here; module NatReconciler has their    *)
(* calls, ClientDivert and ServerDivert what the hooks make of them.       *)
(***************************************************************************)
EXTENDS ConfigStore, FiniteSets, TLC

CONSTANTS
  Doc,         \* names of the settings a PUT may carry, or the file may hold at first
  Offered,     \* name -> settings
  Writer,      \* PUT handlers in progress at one time
  Empty,       \* content of a file truncated and not yet written
  Garbled,     \* content of a file that does not parse
  MaxSaves,    \* bound: configurations saved
  MaxFaults,   \* bound: cleanups that fail because the router is out of reach
  MaxCrashes   \* bound: restarts of the process

\* An interval that is negative ends the process: time.NewTicker panics.
ASSUME SupervisorAssumption ==
  /\ Offered \in [Doc -> Settings]
  /\ \A d \in Doc : Offered[d].server.pollInterval >= 0 /\ Offered[d].client.pollInterval >= 0
  /\ MaxSaves \in Nat /\ MaxFaults \in Nat /\ MaxCrashes \in Nat

NoProfile ==
  [listen |-> Nil, remoteAddr |-> Nil, remotePort |-> 0, containerAddr |-> Nil,
   containerAddr6 |-> Nil, divert |-> FALSE, masquerade |-> FALSE, sessionTTL |-> 0,
   pollInterval |-> 0, obfuscation |-> [k \in ObfField |-> 0],
   router |-> [address |-> Nil, apiPort |-> 0, user |-> Nil, password |-> Nil, wgIface |-> Nil]]
\* The settings without a file.
NoSettings == [mode |-> "", server |-> NoProfile, client |-> NoProfile]

\* What the file may hold: settings as they were sent, by an operator who
\* wrote the file, or completed by a save; an empty file counts as none.
Version == [doc : Doc, complete : BOOLEAN]
Contents == Version \union {Empty}
ASSUME ContentAssumption == Nil \notin Contents
Content(v) == IF v.complete THEN WithDefaults(Offered[v.doc]) ELSE Offered[v.doc]

\* The configuration made of a content; variables keep the content for it.
ConfigOf == (Empty :> ToConfig(NoSettings)) @@ [v \in Version |-> ToConfig(Content(v))]
RouterOf(v) == ConfigOf[v].run.router

\* A rule at a router, by its marker.
Kind == {"divert", "masquerade"}
RuleOf(k, r) == <<k, r.address, r.wgIface>>
Rules == {RuleOf(k, RouterOf(v)) : k \in Kind, v \in Contents}

\* The kinds of rules whose hook a stack has...
Hooks(c) ==
  {k \in Kind :
     \/ /\ k = "divert" /\ c.run.divert /\ c.mode \in {"server", "client"}
        /\ c.run.containerAddr \in Addresses /\ c.run.listen \in Endpoints
     \/ k = "masquerade" /\ c.run.masquerade /\ c.mode = "server" /\ c.run.router.address # Nil}
\* ...and those it removes once, when it starts.
Unwanted(c) ==
  {k \in Kind :
     /\ c.run.router.address # Nil
     /\ \/ k = "divert" /\ ~c.run.divert
        \/ k = "masquerade" /\ ~(c.run.masquerade /\ c.mode = "server")}

\* A poll succeeds: there is access to the router, and the interface exists.
Polls(c) == c.run.router.wgIface # Nil /\ ValidRouter(c)

VARIABLES
  file,        \* content of config.json
  writing,     \* handler -> content it is about to write, or Nil
  reload,      \* the reload channel holds a signal
  spc,         \* supervise: "load", "start", "run", "stop" or "wait"
  loaded,      \* cfg: configuration loaded and not yet started, or Nil
  prev,        \* prevRcfg: configuration of the last stack, or Nil
  turn,        \* parity of the current stack
  stacks,      \* stacks whose goroutines have not ended
  cleanups,    \* cleanup goroutines: whose context they run under ("service",
               \* "stack" or "cancelled") and the rule they are about to remove
  rules,       \* the rules at the routers
  saves, faults, crashes

counters == <<saves, faults, crashes>>
vars == <<file, writing, reload, spc, loaded, prev, turn, stacks, cleanups, rules, counters>>

Init ==
  /\ file \in [doc : Doc, complete : {FALSE}] \union {Empty}
  /\ writing = [w \in Writer |-> Nil]
  /\ reload = FALSE
  /\ spc = "load" /\ loaded = Nil /\ prev = Nil /\ turn = 0 /\ stacks = {}
  /\ cleanups = {} /\ rules = {}
  /\ saves = 0 /\ faults = 0 /\ crashes = 0

-----------------------------------------------------------------------------
(* putConfig.                                                               *)

\* Settings with a section that is valid.
Savable == {d \in Doc : \E section \in Section : Saved(Offered[d], section)}

\* config.Write: if the section is valid, os.WriteFile opens the file and
\* truncates it.  Other settings are refused and change nothing.
SaveTruncate(w, d) ==
  /\ writing[w] = Nil /\ saves < MaxSaves
  /\ d \in Savable
  /\ writing' = [writing EXCEPT ![w] = [doc |-> d, complete |-> TRUE]]
  /\ file' = Empty
  /\ saves' = saves + 1
  /\ UNCHANGED <<reload, spc, loaded, prev, turn, stacks, cleanups, rules, faults, crashes>>

\* The handler writes from offset 0.  What another handler wrote after that
\* truncation shows behind a shorter text.  Then triggerReload, which leaves a
\* signal already in the channel alone.
SaveWrite(w) ==
  /\ writing[w] # Nil
  /\ \/ file' = writing[w]
     \/ file # Empty /\ file # writing[w] /\ file' = Garbled
  /\ writing' = [writing EXCEPT ![w] = Nil]
  /\ reload' = TRUE
  /\ UNCHANGED <<spc, loaded, prev, turn, stacks, cleanups, rules, counters>>

-----------------------------------------------------------------------------
(* supervise.                                                               *)

\* Mutant of Load: an empty file is no configuration at all.
LoadRaw ==
  /\ spc = "load" /\ file # Garbled
  /\ loaded' = IF file = Empty THEN Nil ELSE file
  /\ spc' = "start"
  /\ UNCHANGED <<file, writing, reload, prev, turn, stacks, cleanups, rules, counters>>

\* config.Load: what the file says at this moment; an empty file counts as none.
Load ==
  /\ spc = "load" /\ file # Garbled
  /\ loaded' = file
  /\ spc' = "start"
  /\ UNCHANGED <<file, writing, reload, prev, turn, stacks, cleanups, rules, counters>>

\* Mutant of StaleRules: the previous configuration was already overwritten.
StaleRulesLate(next) == {}

\* Mutant of UnwantedRules: a process that starts anew removes nothing.
UnwantedIfBefore(next) ==
  IF prev = Nil THEN {}
  ELSE {<<"stack", RuleOf(k, RouterOf(next))>> : k \in Unwanted(ConfigOf[next])}

\* cleanupStaleRules: the rules of the previous configuration are to go if the
\* interface changed.
StaleRules(next) ==
  IF \/ prev = Nil
     \/ RouterOf(prev).wgIface \in {Nil, RouterOf(next).wgIface}
     \/ RouterOf(prev).address = Nil \/ RouterOf(prev).password = Nil
  THEN {} ELSE {<<"service", RuleOf(k, RouterOf(prev))>> : k \in Kind}

\* startStack with an option off: the rule of this configuration is to go.
UnwantedRules(next) ==
  {<<"stack", RuleOf(k, RouterOf(next))>> : k \in Unwanted(ConfigOf[next])}

\* Mutant of StartStack: signals that came in during the restart are drained.
StartStackDrains ==
  /\ spc = "start"
  /\ cleanups' = cleanups \union StaleRules(loaded) \union UnwantedRules(loaded)
  /\ prev' = loaded
  /\ stacks' = stacks \union {<<turn, loaded>>}
  /\ loaded' = Nil
  /\ spc' = "run" /\ reload' = FALSE
  /\ UNCHANGED <<file, writing, turn, rules, counters>>

\* cleanupStaleRules, startStack.
StartStack ==
  /\ spc = "start"
  /\ cleanups' = cleanups \union StaleRules(loaded) \union UnwantedRules(loaded)
  /\ prev' = loaded
  /\ stacks' = stacks \union {<<turn, loaded>>}
  /\ loaded' = Nil
  /\ spc' = "run"
  /\ UNCHANGED <<file, writing, reload, turn, rules, counters>>

\* Load fails to parse: wait for the web interface to save something else.
LoadFails ==
  /\ spc = "load" /\ file = Garbled
  /\ spc' = "wait"
  /\ UNCHANGED <<file, writing, reload, loaded, prev, turn, stacks, cleanups, rules, counters>>

\* The signal is taken: a running stack is cancelled, the cleanup it started
\* with it, or a failed load redone.
TakeReload ==
  /\ spc \in {"run", "wait"} /\ reload
  /\ reload' = FALSE
  /\ spc' = IF spc = "run" THEN "stop" ELSE "load"
  /\ cleanups' = {<<IF t[1] = "stack" THEN "cancelled" ELSE t[1], t[2]>> : t \in cleanups}
  /\ UNCHANGED <<file, writing, loaded, prev, turn, stacks, rules, counters>>

\* The cancelled stack's goroutines end.
StackEnds ==
  /\ spc = "stop"
  /\ \E s \in stacks : s[1] = turn /\ stacks' = stacks \ {s}
  /\ UNCHANGED <<file, writing, reload, spc, loaded, prev, turn, cleanups, rules, counters>>

\* Mutant of StopDone: the next stack starts without waiting for the last.
StopDoneNow ==
  /\ spc = "stop"
  /\ spc' = "load"
  /\ turn' = 1 - turn
  /\ UNCHANGED <<file, writing, reload, loaded, prev, stacks, cleanups, rules, counters>>

\* <-done: the supervisor goes on when they have ended.
StopDone ==
  /\ spc = "stop" /\ ~\E s \in stacks : s[1] = turn
  /\ spc' = "load"
  /\ turn' = 1 - turn
  /\ UNCHANGED <<file, writing, reload, loaded, prev, stacks, cleanups, rules, counters>>

-----------------------------------------------------------------------------
(* The stack and the cleanups at the router.                                *)

\* A successful tick of a stack's poller: a hook confirms its rule.  In client
\* mode the peer is taken to be marked; ClientDivert has the other cases.
Tick(s, k) ==
  /\ s \in stacks /\ Polls(ConfigOf[s[2]]) /\ k \in Hooks(ConfigOf[s[2]])
  /\ rules' = rules \union {RuleOf(k, RouterOf(s[2]))}
  /\ UNCHANGED <<file, writing, reload, spc, loaded, prev, turn, stacks, cleanups, counters>>

\* Mutant of Cleanup: the goroutine goes on removing the rule for ever.
CleanupForever(t) ==
  /\ t \in cleanups
  /\ rules' = rules \ {t[2]}
  /\ UNCHANGED <<file, writing, reload, spc, loaded, prev, turn, stacks, cleanups, counters>>

\* cleanupDivert, cleanupMasquerade; cancelling its context does not stop a call on a connection
\* that is up, so it may still succeed after a reload.
Cleanup(t) ==
  /\ t \in cleanups
  /\ cleanups' = cleanups \ {t}
  /\ rules' = rules \ {t[2]}
  /\ UNCHANGED <<file, writing, reload, spc, loaded, prev, turn, stacks, counters>>

\* The router cannot be reached, or the context was cancelled before there was
\* a connection; the failure is logged and that is all.
CleanupFails(t) ==
  /\ t \in cleanups
  /\ IF t[1] = "cancelled" THEN faults' = faults
     ELSE faults < MaxFaults /\ faults' = faults + 1
  /\ cleanups' = cleanups \ {t}
  /\ UNCHANGED <<file, writing, reload, spc, loaded, prev, turn, stacks, rules, saves, crashes>>

\* The process is killed and started again, perhaps in the middle of a write.
Crash ==
  /\ crashes < MaxCrashes
  /\ \/ file' = file
     \/ (\E w \in Writer : writing[w] # Nil) /\ file' = Garbled
  /\ crashes' = crashes + 1
  /\ writing' = [w \in Writer |-> Nil]
  /\ reload' = FALSE /\ spc' = "load" /\ loaded' = Nil /\ prev' = Nil /\ turn' = 0
  /\ stacks' = {} /\ cleanups' = {}
  /\ UNCHANGED <<rules, saves, faults>>

Supervise == Load \/ StartStack \/ LoadFails \/ TakeReload \/ StackEnds \/ StopDone
Stacks    == {0, 1} \X Contents
Cleanups  == {"service", "stack", "cancelled"} \X Rules

Next ==
  \/ \E w \in Writer, d \in Doc : SaveTruncate(w, d)
  \/ \E w \in Writer : SaveWrite(w)
  \/ Supervise
  \/ \E s \in stacks, k \in Kind : Tick(s, k)
  \/ \E t \in cleanups : Cleanup(t) \/ CleanupFails(t)
  \/ Crash

\* The goroutines keep running, and a router polled for ever answers.
FairSpec ==
  /\ Init /\ [][Next]_vars
  /\ WF_vars(Supervise)
  /\ WF_vars(\E w \in Writer : SaveWrite(w))
  /\ \A k \in Kind : WF_vars(\E s \in stacks : Tick(s, k))
  /\ WF_vars(\E t \in cleanups : Cleanup(t))

-----------------------------------------------------------------------------

\* The values the supervisor's state takes (main.go:69-113).
TypeOK ==
  /\ file \in Contents \union {Garbled}
  /\ writing \in [Writer -> Version \union {Nil}]
  /\ spc \in {"load", "start", "run", "stop", "wait"}
  /\ loaded \in Contents \union {Nil} /\ prev \in Contents \union {Nil}
  /\ spc = "start" <=> loaded # Nil
  /\ stacks \subseteq Stacks
  /\ cleanups \subseteq Cleanups /\ rules \subseteq Rules

\* Two stacks never run at once: they would bind the same sockets and fight
\* over the router's rules (main.go:110-111 waits for the old one to end).
OneStack == Cardinality(stacks) <= 1

\* The file is left alone from some point on.
Settles == <>[][file' = file]_vars

\* The configuration of the file, or of none.
Current == IF file = Garbled THEN ConfigOf[Empty] ELSE ConfigOf[file]

\* The configuration the file settles on is the one that runs in the end,
\* however saves overlap with each other, with reloads and with restarts, and
\* although the channel holds one signal for any number of saves; the defaults
\* a save writes into the file (config.go:387) make no other configuration.
AppliedEventually ==
  Settles => <>[](file # Garbled => \E s \in stacks : ConfigOf[s[2]] = Current)

\* Once a rule is wanted for good it is there for good, whatever cleanups of
\* earlier configurations are still on their way (main.go:152-178).
WantedRulesInstalled ==
  Settles => <>[](Polls(Current) =>
                    \A k \in Hooks(Current) : RuleOf(k, Current.run.router) \in rules)

\* main.go:354-355: the operator switched an option off, its rule is not left
\* hanging on the router, even across restarts, as long as the router can be
\* reached; a cleanup that a reload cancelled does not count.
UnwantedRulesRemoved ==
  Settles /\ [](faults = 0) =>
    <>[](\A k \in Unwanted(Current) : RuleOf(k, Current.run.router) \notin rules)

\* Every rule at a router has the markers of the file's configuration.
NoStaleRules ==
  file \in Version => rules \subseteq {RuleOf(k, Current.run.router) : k \in Kind}

\* With one router and no restart, the rules of earlier interfaces go too,
\* whatever order the interfaces were saved in (main.go:130-134).
StaleIfaceRulesGone ==
  \A a \in {RouterOf(v).address : v \in Version} :
    /\ Settles
    /\ [](faults = 0 /\ crashes = 0)
    /\ [](file \in Version => Current.run.router.address = a)
    => <>[]NoStaleRules

\* main.go:130-134: rules an earlier configuration left and the present one
\* does not manage are removed.
StaleRulesGone == Settles => <>[]NoStaleRules
=============================================================================
