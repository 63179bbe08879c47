---------------------------- MODULE ClientProxy ----------------------------
(***************************************************************************)
(* The proxy in client mode (internal/proxy/client.go): the router's       *)
(* WireGuard sends to the proxy, routerLoop obfuscates and passes on to the*)
(* AWG server the marked peer names, awgLoop takes the server's replies    *)
(* back.  The poller (internal/router) tells the loops the router's own    *)
(* public key and the upstream, whose endpoint and key the operator may    *)
(* change at any time; no socket is bound to the upstream's address.       *)
(*                                                                         *)
(* The AWG servers and the network are modelled as far as the proxy relies *)
(* on them: a server answers an initiation that carries its MAC1 and comes *)
(* after Jc junk packets; datagrams may be lost.                           *)
(***************************************************************************)
EXTENDS Transform, FiniteSets

CONSTANTS
  ParamSet,    \* obfuscation parameters to consider
  Jc,          \* junk packets before an initiation
  Noise,       \* words the random prefixes are drawn from
  Payload,     \* words the contents of messages are drawn from
  Peer,        \* peers in the router's table
  Ep,          \* endpoints: AWG servers
  OwnKey,      \* endpoint -> public key of the server there
  Start,       \* the router's configurations to start from
  RouterKey,   \* public keys the router's interface may have
  Src,         \* addresses of the router's WireGuard socket
  MaxChanges,  \* bound: changes of the router's configuration
  MaxMoves,    \* bound: changes of the router's WireGuard socket
  Nil

\* A peer: whether it carries the marker and is enabled, its key, its endpoint.
Row == [marked : BOOLEAN, key : {OwnKey[e] : e \in Ep}, ep : Ep \union {Nil}]

ASSUME ClientProxyAssumption ==
  /\ ParamSet \subseteq Params
  /\ Jc \in Nat /\ MaxChanges \in Nat /\ MaxMoves \in Nat
  /\ Noise \subseteq Word /\ Payload \subseteq Word
  /\ Start \subseteq [pub : RouterKey, peers : [Peer -> Row]]
  /\ OwnKey \in [Ep -> Key] /\ RouterKey \subseteq Key /\ Src # {}

VARIABLES
  params,      \* the obfuscation parameters, fixed while the stack runs
  router,      \* router's configuration: public key and peers
  changes,     \* changes made to it
  src, moves,  \* address of the router's WireGuard socket, and its changes
  snap, poll,  \* Poller.cur, and the key a poll in progress has read
  routerSrc,   \* where replies go
  lpc, lpkt, lup, ljunk,   \* routerLoop: step, packet, upstream, junk to send
  apc, aplain, areply,     \* awgLoop: step, message, and what it came from
  heard,       \* server -> junk packets since the last other datagram
  accepted,    \* <<server, router's key>>: initiations a server accepted
  picks,       \* history: upstreams the router's configuration ever named
  sent         \* history: addressee and key of the last datagram passed on

pollVars  == <<snap, poll>>
loopVars  == <<routerSrc, lpc, lpkt, lup, ljunk, sent>>
awgVars   == <<apc, aplain, areply>>
worldVars == <<params, router, changes, src, moves, picks>>
serverVars == <<heard, accepted>>
vars == <<worldVars, pollVars, loopVars, awgVars, serverVars>>

Upstream == [key : Key, ep : Ep]

Marked(peers) == {q \in Peer : peers[q].marked}

\* Mutant of PickUpstream: a peer without endpoint is picked.
PickAnyMarked(peers) ==
  IF Cardinality(Marked(peers)) # 1 THEN Nil
  ELSE LET q == CHOOSE q \in Marked(peers) : TRUE IN [key |-> peers[q].key, ep |-> peers[q].ep]

\* pickUpstream: the one marked peer, if there is just one and it has an
\* endpoint.
PickUpstream(peers) ==
  IF Cardinality(Marked(peers)) # 1 THEN Nil
  ELSE LET q == CHOOSE q \in Marked(peers) : TRUE
       IN IF peers[q].ep = Nil THEN Nil ELSE [key |-> peers[q].key, ep |-> peers[q].ep]

\* What the router's WireGuard sends: initiations (the MAC1 in them is replaced
\* on the way) and transport packets.
Initiations == {<<InitT, w, w>> : w \in Payload}
Outgoing    == Initiations \union {<<TransportT, w>> : w \in Payload}

\* What AWG servers send back: a response for the router's key k, or transport.
Response(k) == <<ResponseT, ComputeMAC1(k, <<ResponseT>>)>>
Replies(k)  == {Response(k)} \union {<<TransportT, w>> : w \in Payload}

Init ==
  /\ params \in ParamSet
  /\ router \in Start
  /\ changes = 0 /\ moves = 0 /\ src = CHOOSE s \in Src : TRUE
  /\ picks = {PickUpstream(router.peers)}
  /\ snap = Nil /\ poll = Nil /\ routerSrc = Nil
  /\ lpc = "read" /\ lpkt = <<>> /\ lup = Nil /\ ljunk = 0 /\ sent = Nil
  /\ apc = "read" /\ aplain = <<>> /\ areply = Nil
  /\ heard = [e \in Ep |-> 0] /\ accepted = {}

-----------------------------------------------------------------------------
(* The router, its operator, and the poller.                                *)

\* The interface gets another key pair.
Rekey(k) ==
  /\ changes < MaxChanges /\ k # router.pub
  /\ router' = [router EXCEPT !.pub = k]
  /\ changes' = changes + 1
  /\ UNCHANGED <<params, src, moves, picks, pollVars, loopVars, awgVars, serverVars>>

\* The operator edits peer q: marker, key or endpoint.
EditPeer(q, row) ==
  /\ changes < MaxChanges /\ row # router.peers[q]
  /\ router' = [router EXCEPT !.peers[q] = row]
  /\ changes' = changes + 1
  /\ picks' = picks \union {PickUpstream(router'.peers)}
  /\ UNCHANGED <<params, src, moves, pollVars, loopVars, awgVars, serverVars>>

SrcMoves(s) ==
  /\ moves < MaxMoves /\ s # src
  /\ src' = s
  /\ moves' = moves + 1
  /\ UNCHANGED <<params, router, changes, picks, pollVars, loopVars, awgVars, serverVars>>

\* fetchAPI, first call: the interface's key.
PollIface ==
  /\ poll = Nil
  /\ poll' = router.pub
  /\ UNCHANGED <<worldVars, snap, loopVars, awgVars, serverVars>>

\* fetchAPI, second call: the peers.  The upstream is missing from the snapshot
\* if its endpoint is a name and does not resolve.
PollPeers(resolves) ==
  /\ poll # Nil
  /\ snap' = [pub |-> poll, up |-> IF resolves THEN PickUpstream(router.peers) ELSE Nil]
  /\ poll' = Nil
  /\ UNCHANGED <<worldVars, loopVars, awgVars, serverVars>>

\* The second call fails: the old snapshot stays in force.
PollFails ==
  /\ poll # Nil
  /\ poll' = Nil
  /\ UNCHANGED <<worldVars, snap, loopVars, awgVars, serverVars>>

-----------------------------------------------------------------------------
(* routerLoop.                                                              *)

\* What both loops read atomically: Poller.Snapshot.
HasUpstream == snap # Nil /\ snap.up # Nil

\* Mutant of RouterRead: only the first address is remembered.
RouterReadFirst(msg) ==
  /\ lpc = "read"
  /\ routerSrc' = IF routerSrc = Nil THEN src ELSE routerSrc
  /\ IF ~HasUpstream
     THEN UNCHANGED <<lpc, lpkt, lup, ljunk>>
     ELSE /\ lpkt' = msg /\ lup' = snap.up
          /\ ljunk' = IF msg[1] = InitT THEN Jc ELSE 0
          /\ lpc' = IF ljunk' > 0 THEN "junk" ELSE "send"
  /\ sent' = Nil
  /\ UNCHANGED <<worldVars, pollVars, awgVars, serverVars>>

\* A packet from the router: its address is remembered, and it goes on if the
\* snapshot has an upstream, an initiation after Jc junk packets.
RouterRead(msg) ==
  /\ lpc = "read"
  /\ routerSrc' = src
  /\ IF ~HasUpstream
     THEN UNCHANGED <<lpc, lpkt, lup, ljunk>>
     ELSE /\ lpkt' = msg /\ lup' = snap.up
          /\ ljunk' = IF msg[1] = InitT THEN Jc ELSE 0
          /\ lpc' = IF ljunk' > 0 THEN "junk" ELSE "send"
  /\ sent' = Nil
  /\ UNCHANGED <<worldVars, pollVars, awgVars, serverVars>>

\* One junk packet; the first that cannot be sent is the last that is tried.
RouterJunk(ok, reaches) ==
  /\ lpc = "junk"
  /\ ljunk' = IF ok THEN ljunk - 1 ELSE 0
  /\ lpc' = IF ljunk' = 0 THEN "send" ELSE "junk"
  /\ heard' = IF ok /\ reaches /\ heard[lup.ep] < Jc
              THEN [heard EXCEPT ![lup.ep] = @ + 1] ELSE heard
  /\ UNCHANGED <<worldVars, pollVars, routerSrc, lpkt, lup, sent, awgVars, accepted>>

\* Server e takes datagram pkt for an initiation made for it.
Accepts(e, pkt) ==
  LET at == params.s[InitT] + MacAt[InitT] IN
    /\ heard[e] = Jc
    /\ HeaderAt(pkt, params.s[InitT], params.h[InitT])
    /\ Len(pkt) = at
    /\ pkt[at] = ComputeMAC1(OwnKey[e], SubSeq(pkt, params.s[InitT] + 1, at - 1))

\* Mutant of RouterSend: the address is taken from the snapshot of the day.
RouterSendRereads(reaches, junk) ==
  /\ lpc = "send" /\ junk \in Prefixes(params, lpkt) /\ snap.up # Nil
  /\ LET e   == snap.up.ep
         pkt == Obfuscate(params, lpkt, lup.key, junk)
     IN /\ accepted' = IF reaches /\ Accepts(e, pkt)
                       THEN accepted \union {<<e, router.pub>>} ELSE accepted
        /\ heard' = [heard EXCEPT ![e] = 0]
        /\ sent' = [to |-> e, key |-> lup.key]
  /\ lpc' = "read" /\ lpkt' = <<>> /\ lup' = Nil
  /\ UNCHANGED <<worldVars, pollVars, routerSrc, ljunk, awgVars>>

\* Obfuscate for the upstream's key and send to the upstream's address.
RouterSend(reaches, junk) ==
  /\ lpc = "send" /\ junk \in Prefixes(params, lpkt)
  /\ LET e   == lup.ep
         pkt == Obfuscate(params, lpkt, lup.key, junk)
     IN /\ accepted' = IF reaches /\ Accepts(e, pkt)
                       THEN accepted \union {<<e, router.pub>>} ELSE accepted
        /\ heard' = [heard EXCEPT ![e] = 0]
        /\ sent' = [to |-> e, key |-> lup.key]
  /\ lpc' = "read" /\ lpkt' = <<>> /\ lup' = Nil
  /\ UNCHANGED <<worldVars, pollVars, routerSrc, ljunk, awgVars>>

-----------------------------------------------------------------------------
(* awgLoop.                                                                 *)

\* A datagram that server a[1] sent to the router's key a[2]: dropped without
\* a snapshot or if it passes for junk, else turned into WireGuard.
AwgRead(a, msg, junk) ==
  /\ apc = "read" /\ a \in accepted /\ snap # Nil
  /\ junk \in Prefixes(params, msg)
  /\ LET pkt == Obfuscate(params, msg, a[2], junk)
         d   == Deobfuscate(params, pkt, snap.pub)
     IN /\ d.ok
        /\ aplain' = d.plain
        /\ areply' = [msg |-> msg, for |-> a[2], pub |-> snap.pub,
                      ambiguous |-> Ambiguous(params, pkt, msg[1])]
  /\ apc' = "deliver"
  /\ UNCHANGED <<worldVars, pollVars, loopVars, serverVars>>

\* The message goes to where the router last sent from, if it ever did.
AwgDeliver ==
  /\ apc = "deliver"
  /\ apc' = "read" /\ aplain' = <<>> /\ areply' = Nil
  /\ UNCHANGED <<worldVars, pollVars, loopVars, serverVars>>

-----------------------------------------------------------------------------

Junk == UNION {[1 .. n -> Noise] : n \in {p.s[t] : p \in ParamSet, t \in MacType} \union {0}}

Next ==
  \/ \E k \in RouterKey : Rekey(k)
  \/ \E q \in Peer, row \in Row : EditPeer(q, row)
  \/ \E s \in Src : SrcMoves(s)
  \/ PollIface \/ (\E resolves \in BOOLEAN : PollPeers(resolves)) \/ PollFails
  \/ \E msg \in Outgoing : RouterRead(msg)
  \/ \E ok, reaches \in BOOLEAN : RouterJunk(ok, reaches)
  \/ \E reaches \in BOOLEAN, junk \in Junk : RouterSend(reaches, junk)
  \/ \E a \in accepted : \E msg \in Replies(a[2]), junk \in Junk : AwgRead(a, msg, junk)
  \/ AwgDeliver

Spec == Init /\ [][Next]_vars

\* The loops and the poller run.  The network, DNS and the REST API lose some
\* of what they are given but do not conspire: what is tried in the right
\* circumstances for ever succeeds in them for ever.  The router's WireGuard
\* repeats its initiations for as long as it has no session.
FairSpec ==
  /\ Spec
  /\ WF_vars(PollIface) /\ SF_vars(PollPeers(TRUE))
  /\ \A msg \in Initiations : SF_vars(HasUpstream /\ RouterRead(msg))
  /\ WF_vars(\E ok, reaches \in BOOLEAN : RouterJunk(ok, reaches)) /\ SF_vars(RouterJunk(TRUE, TRUE))
  /\ WF_vars(\E reaches \in BOOLEAN, junk \in Junk : RouterSend(reaches, junk))
  /\ SF_vars(/\ lpc = "send" /\ lpkt \in Initiations /\ heard[lup.ep] = Jc
             /\ \E junk \in Junk : RouterSend(TRUE, junk))
  /\ \A a \in Ep \X RouterKey :
       SF_vars(\E junk \in Junk : AwgRead(a, Response(a[2]), junk) /\ ~areply'.ambiguous)
  /\ WF_vars(AwgDeliver)

-----------------------------------------------------------------------------
(* Properties.                                                              *)

\* Type invariant: in particular the upstream in a snapshot has an endpoint,
\* so that routerLoop always has an address to send to (client.go:88).
ClientTypeOK ==
  /\ params \in ParamSet
  /\ router \in [pub : RouterKey, peers : [Peer -> Row]]
  /\ changes \in 0 .. MaxChanges /\ moves \in 0 .. MaxMoves /\ src \in Src
  /\ snap \in [pub : RouterKey, up : Upstream \union {Nil}] \union {Nil}
  /\ poll \in RouterKey \union {Nil} /\ routerSrc \in Src \union {Nil}
  /\ lpc \in {"read", "junk", "send"} /\ lpkt \in Outgoing \union {<<>>}
  /\ lup \in Upstream \union {Nil} /\ ljunk \in 0 .. Jc
  /\ apc \in {"read", "deliver"}
  /\ heard \in [Ep -> 0 .. Jc] /\ accepted \subseteq Ep \X RouterKey

\* A datagram's MAC1 and its destination come from one configuration of the
\* router, although the snapshot is replaced while routerLoop is between its
\* junk packets and the datagram: never the key of one upstream at the address
\* of another (client.go:90-111).
SentAsPicked == sent # Nil => [key |-> sent.key, ep |-> sent.to] \in picks

\* Unless its random prefix collides with a magic header, what awgLoop hands to
\* the router is what the server sent, and a response carries MAC1 for the key
\* of the snapshot it was read under; whatever the prefix lengths, with S1 > S2
\* as with S1 < S2 (client.go:127, transform.go:47-90).
RepliesFaithful ==
  apc = "deliver" /\ ~areply.ambiguous =>
    aplain = WithMac(areply.msg, areply.msg[1], areply.pub)

\* Once the router names one upstream with that upstream's own key, and keeps
\* doing so, handshakes complete again and again: after any earlier change of
\* marker, peer key, endpoint or interface key and of the router's port, the
\* router gets responses it can verify at the address it sends from.
ClientHandshakeCompletes ==
  <>[](\E e \in Ep : PickUpstream(router.peers) = [key |-> OwnKey[e], ep |-> e]) =>
    []<>(apc = "deliver" /\ aplain = Response(router.pub) /\ routerSrc = src)
=============================================================================
