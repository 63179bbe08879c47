---------------------------- MODULE ConfigStore ----------------------------
(***************************************************************************)
(* config.json (internal/config/config.go): the settings of both modes as  *)
(* the file and the web interface have them, their defaults, the working   *)
(* configuration the program makes of them, and what a save checks before  *)
(* it writes.                                                              *)
(*                                                                         *)
(* Texts that nothing here takes apart (addresses, names, ports in a text) *)
(* are members of small sets; Nil is the empty text.  JSON keeps every     *)
(* field (omitzero drops fields that are zero, and an absent field is read *)
(* as zero), so a file holds the settings that were written.               *)
(***************************************************************************)
EXTENDS Integers

CONSTANTS
  Nil,          \* ""
  Texts,        \* texts of addresses, names and passwords
  Addresses,    \* those netip.ParseAddr takes for an address
  Addresses6,   \* those of them that are IPv6
  Endpoints,    \* texts with a port, "host:port"
  DefListen,    \* ":51820"
  DefUser       \* "admin"

ASSUME ConfigAssumption ==
  /\ Nil \notin Texts
  /\ Addresses6 \subseteq Addresses /\ Addresses \subseteq Texts
  /\ Endpoints \subseteq Texts /\ DefListen \in Endpoints /\ DefUser \in Texts

Text     == Texts \union {Nil}
ObfField == {"jc", "jmin", "jmax", "s1", "s2", "h1", "h2", "h3", "h4"}

Obfuscation    == [ObfField -> Int]
RouterSettings == [address : Text, apiPort : Int, user : Text, password : Text, wgIface : Text]
\* One record for both modes: client mode has no remote and no masquerade.
Profile == [listen : Text, remoteAddr : Text, remotePort : Int, containerAddr : Text,
            containerAddr6 : Text, divert : BOOLEAN, masquerade : BOOLEAN,
            sessionTTL : Int, pollInterval : Int, obfuscation : Obfuscation,
            router : RouterSettings]
Mode     == {"server", "client", "", "other"}
Settings == [mode : Mode, server : Profile, client : Profile]

-----------------------------------------------------------------------------
(* Defaults.                                                                *)

\* cmp.Or: the value, or the default in place of the zero of its type.
Or(x, zero, def) == IF x = zero THEN def ELSE x

DefaultObfuscationValues ==
  [k \in ObfField |-> CASE k = "jc" -> 4 [] k = "jmin" -> 40 [] k = "jmax" -> 70
                        [] k = "h1" -> 1 [] k = "h2" -> 2 [] k = "h3" -> 3 [] k = "h4" -> 4
                        [] OTHER -> 0]

\* A block with any value in it is meant as it is.
DefaultObfuscation(o) ==
  IF \E k \in ObfField : o[k] # 0 THEN o ELSE DefaultObfuscationValues

DefaultRouter(r) ==
  [r EXCEPT !.user = Or(@, Nil, DefUser), !.apiPort = Or(@, 0, 8728)]

DefaultProfile(p) ==
  [p EXCEPT !.listen       = Or(@, Nil, DefListen),
            !.sessionTTL   = Or(@, 0, 180),
            !.pollInterval = Or(@, 0, 30),
            !.obfuscation  = DefaultObfuscation(@),
            !.router       = DefaultRouter(@)]

WithDefaults(s) ==
  [mode |-> Or(s.mode, "", "server"),
   server |-> DefaultProfile(s.server), client |-> DefaultProfile(s.client)]

-----------------------------------------------------------------------------
(* The working configuration: the profile of the mode; a mode that is not   *)
(* known has the server's.                                                  *)

Remote(p) == p.remoteAddr # Nil /\ p.remotePort # 0

FillServer(p) ==
  [listen |-> p.listen, remote |-> Remote(p), containerAddr |-> p.containerAddr,
   containerAddr6 |-> p.containerAddr6, divert |-> p.divert, masquerade |-> p.masquerade,
   sessionTTL |-> p.sessionTTL, pollInterval |-> p.pollInterval,
   obfuscation |-> p.obfuscation, router |-> p.router]

FillClient(p) == [FillServer(p) EXCEPT !.remote = FALSE, !.masquerade = FALSE]

ToConfig(s) ==
  LET d == WithDefaults(s)
  IN [mode |-> d.mode,
      run  |-> IF d.mode = "client" THEN FillClient(d.client) ELSE FillServer(d.server)]

\* What the handlers of the web interface take for the router's access.
ActiveRouter(s) == IF s.mode = "client" THEN s.client.router ELSE s.server.router

-----------------------------------------------------------------------------
(* What a save checks: the section it is about.                             *)

ValidRouter(c) == c.run.router.address # Nil /\ c.run.router.password # Nil

ValidService(c) ==
  /\ c.run.router.wgIface # Nil
  /\ \/ c.mode = "server" /\ c.run.remote /\ (c.run.divert => c.run.containerAddr # Nil)
     \/ c.mode = "client" /\ c.run.containerAddr # Nil
  /\ c.run.obfuscation["jmin"] <= c.run.obfuscation["jmax"]
  /\ c.run.containerAddr6 \in Addresses6 \union {Nil}

Valid(section, c) ==
  CASE section = "router"  -> ValidRouter(c)
    [] section = "service" -> ValidService(c)
    [] OTHER               -> ValidRouter(c) /\ ValidService(c)

Section == {"router", "service", "all"}

\* Settings the file may hold after a save.
Saved(s, section) == Valid(section, ToConfig(s))
=============================================================================
