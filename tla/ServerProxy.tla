---------------------------- MODULE ServerProxy ----------------------------
(***************************************************************************)
(* The proxy in server mode (internal/proxy/server.go): the loop that takes*)
(* clients' packets to the WG server, the loop that takes replies back,    *)
(* the session table between them, and the poller (internal/router) whose  *)
(* snapshot of the router both loops work from.  The loops, the collector  *)
(* and the poller are goroutines; they interleave at every table operation,*)
(* socket call and API call.                                               *)
(*                                                                         *)
(* Packets are nondeterministic: a client may send, and the network may    *)
(* lose, repeat, delay or reorder, any packet at any time.  An initiation  *)
(* is its sender address, its index and the generation of the server key   *)
(* it was made for; Author tells which client's key signed it.             *)
(***************************************************************************)
EXTENDS Sessions

CONSTANTS
  Author,      \* index -> public key of the client that chose it
  MaxVer,      \* bound: changes of the WG server's key pair
  MaxChanges,  \* bound: changes of the router's configuration
  Retrying     \* clients that send at least once per TTL, come what may

ASSUME ServerProxyAssumption ==
  /\ Author \in [Index -> Key]
  /\ MaxVer \in Nat /\ MaxChanges \in Nat
  /\ Retrying \subseteq Addr

VARIABLES
  router,      \* configuration of the router: key generation, private key shown?, peers
  changes,     \* changes made to it so far
  snap,        \* Poller.cur: the snapshot, or Nil
  poll,        \* what a poll in progress has read of the interface, or Nil
  cpc, cpkt, csnap,          \* clientLoop: where it is, its packet and snapshot
  spc, rpkt, rsnap, raddr, rkeys,  \* serverLoop: likewise, and the targets
  accepted,    \* indices whose initiation the WG server accepted
  lapsed,      \* history: indices whose client was silent past TTL since
               \* they were last registered
  opened       \* history: indices whose latest initiation was decrypted

routerVars == <<router, changes>>
pollVars   == <<snap, poll>>
clientVars == <<cpc, cpkt, csnap>>
serverVars == <<spc, rpkt, rsnap, raddr, rkeys>>
netVars    == <<accepted, lapsed, opened>>
vars == <<tableVars, routerVars, pollVars, clientVars, serverVars, netVars>>

Config == [ver : 0 .. MaxVer, priv : BOOLEAN, peers : SUBSET Key]

\* What arrives from clients once the junk is gone: initiations, transport
\* packets, and the types that touch no session (response, cookie).
Inits  == {[type |-> "init", addr |-> u[1], index |-> u[2], for |-> v] :
             u \in Uses, v \in 0 .. MaxVer}
Others == {[type |-> t, addr |-> a, index |-> Zero, for |-> 0] :
             t \in {"transport", "other"}, a \in Addr}

\* What the WG server sends: responses, packets without MAC1 (transport,
\* cookie), and initiations of its own, which carry no receiver index.
Replies == [type : {"response", "data", "init"}, index : Index]

ASSUME PacketAssumption == Nil \notin Inits \union Others \union Replies

ProxyInit ==
  /\ TableInit
  /\ router \in [ver : {0}, priv : BOOLEAN, peers : {Key}]
  /\ changes = 0
  /\ snap = Nil /\ poll = Nil
  /\ cpc = "read" /\ cpkt = Nil /\ csnap = Nil
  /\ spc = "read" /\ rpkt = Nil /\ rsnap = Nil /\ raddr = Nil /\ rkeys = {}
  /\ accepted = {} /\ lapsed = {} /\ opened = {}

-----------------------------------------------------------------------------
(* The router and the poller.                                               *)

\* An operator edits the router: another key pair, the private key hidden
\* from or shown to the API user, a peer added or removed.
RouterChange(c) ==
  /\ changes < MaxChanges
  /\ c # router
  /\ \/ c.ver = router.ver + 1 /\ c.priv = router.priv /\ c.peers = router.peers
     \/ c.ver = router.ver /\ c.priv # router.priv /\ c.peers = router.peers
     \/ /\ c.ver = router.ver /\ c.priv = router.priv
        /\ \E k \in Key : c.peers = router.peers \union {k} \/ c.peers = router.peers \ {k}
  /\ router' = c
  /\ changes' = changes + 1
  /\ UNCHANGED <<tableVars, pollVars, clientVars, serverVars, netVars>>

\* fetchAPI, first call: the interface with its keys.
PollIface ==
  /\ poll = Nil
  /\ poll' = [ver |-> router.ver, priv |-> router.priv]
  /\ UNCHANGED <<tableVars, routerVars, snap, clientVars, serverVars, netVars>>

\* fetchAPI, second call: the peers, read later than the interface; then tick
\* publishes the snapshot.
PollPeers ==
  /\ poll # Nil
  /\ snap' = [ver |-> poll.ver, priv |-> poll.priv, peers |-> router.peers]
  /\ poll' = Nil
  /\ UNCHANGED <<tableVars, routerVars, clientVars, serverVars, netVars>>

\* The second call fails: the old snapshot stays in force.
PollFails ==
  /\ poll # Nil
  /\ poll' = Nil
  /\ UNCHANGED <<tableVars, routerVars, snap, clientVars, serverVars, netVars>>

-----------------------------------------------------------------------------
(* clientLoop.                                                              *)

\* Mutant of ClientRead: an initiation from a known address is not registered.
ClientReadKnown(p) ==
  /\ cpc = "read"
  /\ snap # Nil
  /\ cpkt' = p
  /\ csnap' = [ver |-> snap.ver, priv |-> snap.priv]
  /\ cpc' = CASE p.type = "init" /\ byAddr[p.addr] = Nil -> "register"
              [] p.type = "transport" -> "touch"
              [] OTHER                -> "forward"
  /\ UNCHANGED <<tableVars, routerVars, pollVars, serverVars, netVars>>

\* ReadFromUDP, the snapshot, Deobfuscate.  Without a snapshot the packet is
\* dropped and the loop reads on.
ClientRead(p) ==
  /\ cpc = "read"
  /\ snap # Nil
  /\ cpkt' = p
  /\ csnap' = [ver |-> snap.ver, priv |-> snap.priv]
  /\ cpc' = CASE p.type = "init"      -> "register"
              [] p.type = "transport" -> "touch"
              [] OTHER                -> "forward"
  /\ UNCHANGED <<tableVars, routerVars, pollVars, serverVars, netVars>>

\* ClientPubFromInit opens the initiation: the snapshot has the private key
\* and it is the one the initiation was made for.
Opens == csnap.priv /\ cpkt.for = csnap.ver

\* clientInit, and whether ClientPubFromInit succeeds on what was read.
ClientRegister ==
  /\ cpc = "register"
  /\ ClientInit(cpkt.addr, cpkt.index)
  /\ cpc' = IF Opens THEN "identify" ELSE "forward"
  /\ lapsed' = lapsed \ {cpkt.index}
  /\ opened' = opened \ {cpkt.index}
  /\ UNCHANGED <<routerVars, pollVars, cpkt, csnap, serverVars, accepted>>

ClientIdentify ==
  /\ cpc = "identify"
  /\ SetPub(cpkt.addr, Author[cpkt.index])
  /\ cpc' = "forward"
  /\ opened' = opened \union {cpkt.index}
  /\ UNCHANGED <<routerVars, pollVars, cpkt, csnap, serverVars, accepted, lapsed>>

ClientTouch ==
  /\ cpc = "touch"
  /\ ClientTraffic(cpkt.addr)
  /\ cpc' = "forward"
  /\ UNCHANGED <<routerVars, pollVars, cpkt, csnap, serverVars, netVars>>

\* The WG server answers an initiation made for its key, with a MAC1 under its
\* key, by a peer it knows.
Acceptable(p) == /\ p.type = "init"
                 /\ p.for = router.ver /\ csnap.ver = router.ver
                 /\ Author[p.index] \in router.peers

\* server.Write: the packet reaches the WG server or is lost.
ClientForward(reaches) ==
  /\ cpc = "forward"
  /\ accepted' = IF reaches /\ Acceptable(cpkt)
                 THEN accepted \union {cpkt.index} ELSE accepted
  /\ cpc' = "read" /\ cpkt' = Nil /\ csnap' = Nil
  /\ UNCHANGED <<tableVars, routerVars, pollVars, serverVars, lapsed, opened>>

-----------------------------------------------------------------------------
(* serverLoop.                                                              *)

\* Read and the snapshot; ReceiverIndex is 0 for an initiation of the server.
ServerRead(r) ==
  /\ spc = "read"
  /\ snap # Nil
  /\ IF r.type = "init" THEN r.index = Zero ELSE r.index \in accepted
  /\ rpkt' = r
  /\ rsnap' = snap.peers
  /\ spc' = "lookup"
  /\ UNCHANGED <<tableVars, routerVars, pollVars, clientVars, raddr, rkeys, netVars>>

\* responseTargets finds the session.
ServerLookup ==
  /\ spc = "lookup"
  /\ ResponseTargets(rpkt.index)
  /\ raddr' = sess[byIndex[rpkt.index]].addr
  /\ rkeys' = TargetKeys(rpkt.index, rsnap, rpkt.type = "response")
  /\ spc' = "send"
  /\ UNCHANGED <<routerVars, pollVars, clientVars, rpkt, rsnap, netVars>>

\* Mutant of ServerDrop: the loop ends instead of reading on.
ServerDropReturns ==
  /\ spc = "lookup"
  /\ byIndex[rpkt.index] = Nil
  /\ spc' = "ended" /\ rpkt' = Nil /\ rsnap' = Nil
  /\ UNCHANGED <<tableVars, routerVars, pollVars, clientVars, raddr, rkeys, netVars>>

\* responseTargets finds none: the reply is dropped.
ServerDrop ==
  /\ spc = "lookup"
  /\ byIndex[rpkt.index] = Nil
  /\ spc' = "read" /\ rpkt' = Nil /\ rsnap' = Nil
  /\ UNCHANGED <<tableVars, routerVars, pollVars, clientVars, raddr, rkeys, netVars>>

\* Obfuscate and WriteToUDP for every target key; a failed write gives up the
\* rest of the burst.  The loop reads on either way.
ServerSend ==
  /\ spc = "send"
  /\ spc' = "read" /\ rpkt' = Nil /\ rsnap' = Nil /\ raddr' = Nil /\ rkeys' = {}
  /\ UNCHANGED <<tableVars, routerVars, pollVars, clientVars, netVars>>

-----------------------------------------------------------------------------

\* gcLoop.
Collect ==
  /\ Gc
  /\ UNCHANGED <<routerVars, pollVars, clientVars, serverVars, netVars>>

TimePasses ==
  /\ \A a \in Retrying : last[a] # Nil => quiet[a] < TTL
  /\ Tick
  /\ lapsed' = lapsed \union {i \in Index :
                 \E a \in Addr : <<a, i>> \in Uses /\ quiet'[a] > TTL}
  /\ UNCHANGED <<routerVars, pollVars, clientVars, serverVars, accepted, opened>>

ProxyNext ==
  \/ \E c \in Config : RouterChange(c)
  \/ PollIface \/ PollPeers \/ PollFails
  \/ \E p \in Inits \union Others : ClientRead(p)
  \/ ClientRegister \/ ClientIdentify \/ ClientTouch
  \/ \E reaches \in BOOLEAN : ClientForward(reaches)
  \/ \E r \in Replies : ServerRead(r)
  \/ ServerLookup \/ ServerDrop \/ ServerSend
  \/ Collect \/ TimePasses

ProxySpec == ProxyInit /\ [][ProxyNext]_vars

-----------------------------------------------------------------------------
(* Safety.                                                                  *)

\* The values the loops' locals take; between two packets (server.go:71, 107)
\* a loop holds nothing of the last one.
ProxyTypeOK ==
  /\ router \in Config /\ changes \in 0 .. MaxChanges
  /\ snap \in Config \union {Nil}
  /\ poll \in [ver : 0 .. MaxVer, priv : BOOLEAN] \union {Nil}
  /\ cpkt \in Inits \union Others \union {Nil}
  /\ csnap \in [ver : 0 .. MaxVer, priv : BOOLEAN] \union {Nil}
  /\ cpc \in {"read", "register", "identify", "touch", "forward"}
  /\ rpkt \in Replies \union {Nil}
  /\ rsnap \in (SUBSET Key) \union {Nil}
  /\ raddr \in Addr \union {Nil} /\ rkeys \subseteq Key \union {Nil}
  /\ spc \in {"read", "lookup", "send"}
  /\ accepted \subseteq Index /\ lapsed \subseteq Index /\ opened \subseteq Index
  /\ cpc = "read" <=> cpkt = Nil
  /\ spc = "read" <=> rpkt = Nil
  /\ spc = "send" <=> raddr # Nil

\* The WG server may answer an initiation at any time after it was forwarded.
\* By then, and until its client falls silent for longer than TTL, the table
\* routes the answer to that client: clientLoop registers before it forwards,
\* and neither the collector nor a later packet undoes the registration.
ForwardedRoutable ==
  \A i \in accepted \ lapsed : \A a \in Addr :
    <<a, i>> \in Uses /\ Private(i) => route[i] = a

\* Only one client ever sends from the address.
Sole(a) == \A i, j \in Index :
             <<a, i>> \in Uses /\ <<a, j>> \in Uses => Author[i] = Author[j]

\* serverLoop has just chosen the keys for a response to the latest handshake
\* of the address it goes to.
AnswersLatest == ServerLookup /\ rpkt.type = "response" /\ last[raddr'] = rpkt.index

\* A response to a client that has its address to itself is sent with a MAC1
\* the client accepts, whether the proxy could decrypt the initiation, could
\* only decrypt an earlier one or none, and however the router's keys and
\* peers changed meanwhile, if the snapshot lists the client at all.
SoleClientVerifiable ==
  [][ServerLookup /\ rpkt.type = "response" /\ Sole(raddr') /\ Author[rpkt.index] \in rsnap
       => Author[rpkt.index] \in rkeys']_vars

\* Where clients take turns on an address, a response to the latest handshake
\* carries that client's MAC1 and no other if its initiation was decrypted:
\* setPub precedes the forwarding, and a key learned from the address's
\* previous client is overwritten in time.
OpenedResponseVerifiable ==
  [][AnswersLatest /\ rpkt.index \in opened => rkeys' = {Author[rpkt.index]}]_vars

\* identify.go:57-58 (an initiation that cannot be decrypted makes the caller
\* fall back to the burst) and sessions.go:73-75 (one key only if this client's
\* was decrypted, all candidates otherwise): a response to a handshake whose
\* initiation was not decrypted still reaches a candidate's key.
FallsBackToBurst ==
  [][AnswersLatest /\ cpc # "identify" /\ rpkt.index \notin opened /\ Author[rpkt.index] \in rsnap
       => Author[rpkt.index] \in rkeys']_vars

-----------------------------------------------------------------------------
(* Liveness.                                                                *)

\* The loops and the poller keep running (goroutines of one process); a poll
\* that is tried for ever succeeds now and then.
LoopFairness ==
  /\ WF_vars(ClientRegister) /\ WF_vars(ClientIdentify) /\ WF_vars(ClientTouch)
  /\ WF_vars(\E reaches \in BOOLEAN : ClientForward(reaches))
  /\ WF_vars(ServerLookup) /\ WF_vars(ServerDrop) /\ WF_vars(ServerSend)
  /\ WF_vars(PollIface) /\ SF_vars(PollPeers)

\* A retrying client repeats its initiation, for the server's key of the day,
\* and the network delivers some of the copies and some of the responses.
RetryFairness ==
  \A a \in Retrying : \A i \in {j \in Index : <<a, j>> \in Uses} :
    /\ \A v \in 0 .. MaxVer :
         SF_vars(v = router.ver /\ ClientRead([type |-> "init", addr |-> a, index |-> i, for |-> v]))
    /\ SF_vars(/\ cpkt # Nil /\ cpkt.index = i /\ cpkt.type = "init" /\ Acceptable(cpkt)
               /\ ClientForward(TRUE))
    /\ SF_vars(ServerRead([type |-> "response", index |-> i]))

FairProxySpec == ProxySpec /\ LoopFairness /\ RetryFairness

\* serverLoop is about to send a's response to handshake i, verifiable.
Answered(a, i) ==
  /\ spc = "send"
  /\ rpkt = [type |-> "response", index |-> i]
  /\ raddr = a /\ Author[i] \in rkeys

=============================================================================
