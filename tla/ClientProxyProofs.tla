------------------------- MODULE ClientProxyProofs -------------------------
(***************************************************************************)
(* The conversion of datagrams (internal/awg/transform.go): what Obfuscate *)
(* does, Deobfuscate undoes, for every choice of headers that differ and of*)
(* prefix lengths, and for datagrams of any length.  And what awgLoop hands*)
(* to the router (internal/proxy/client.go:116-144), for any parameters,   *)
(* servers, keys, polls and changes of the router.                         *)
(***************************************************************************)
EXTENDS ClientProxy, SequenceTheorems, FiniteSetTheorems, TLAPS

-----------------------------------------------------------------------------
(* Obfuscate and Deobfuscate.                                               *)

\* A prefix is cut off again, and leaves the header where classify expects it.
LEMMA CutPrefix ==
  ASSUME NEW U, NEW junk \in Seq(U), NEW m \in Seq(U), NEW w
  PROVE  /\ SubSeq(junk \o m, Len(junk) + 1, Len(junk \o m)) = m
         /\ HeaderAt(junk \o m, Len(junk), w) <=> Len(m) > 0 /\ m[1] = w
<1> DEFINE s == junk \o m
           c == SubSeq(s, Len(junk) + 1, Len(s))
<1>1. s \in Seq(U) /\ Len(s) = Len(junk) + Len(m)
  OBVIOUS
<1>2. \A i \in 1 .. Len(m) : s[Len(junk) + i] = m[i]
  OBVIOUS
<1>3. c \in Seq(U) /\ Len(c) = Len(m)
  BY <1>1
<1>4. \A i \in 1 .. Len(m) : c[i] = m[i]
  BY <1>1, <1>2
<1>5. c = m
  BY <1>3, <1>4
<1>6. HeaderAt(s, Len(junk), w) <=> Len(m) > 0 /\ m[1] = w
  BY <1>1, <1>2 DEF HeaderAt
<1> QED
  BY <1>5, <1>6

\* Computing MAC1 changes no other word.
LEMMA WithMacShape ==
  ASSUME NEW U, NEW m \in Seq(U), NEW t \in Type, NEW k,
         ComputeMAC1(k, SubSeq(m, 1, MacAt[t] - 1)) \in U
  PROVE  /\ WithMac(m, t, k) \in Seq(U)
         /\ Len(WithMac(m, t, k)) = Len(m)
         /\ \A i \in 1 .. Len(m) : (t \in MacType /\ i = MacAt[t]) \/ WithMac(m, t, k)[i] = m[i]
<1>1. CASE t \in MacType /\ Len(m) >= MacAt[t]
  <2> DEFINE mac == ComputeMAC1(k, SubSeq(m, 1, MacAt[t] - 1))
  <2>1. MacAt[t] \in Nat \ {0, 1}
    BY <1>1, TransformAssumption
  <2>2. mac \in U
    OBVIOUS
  <2>3. WithMac(m, t, k) = [m EXCEPT ![MacAt[t]] = mac]
    BY <1>1 DEF WithMac
  <2> HIDE DEF mac
  <2>4. MacAt[t] \in 1 .. Len(m)
    BY <1>1, <2>1
  <2> DEFINE at == MacAt[t]
             r  == [m EXCEPT ![at] = mac]
  <2>5. /\ r \in Seq(U) /\ Len(r) = Len(m)
        /\ \A i \in 1 .. Len(m) : r[i] = IF i = at THEN mac ELSE m[i]
    <3> HIDE DEF at
    <3> QED BY <2>2, <2>4, ExceptSeq DEF at
  <2>6. WithMac(m, t, k) = r
    BY <2>3
  <2> HIDE DEF r
  <2> QED
    BY <1>1, <2>5, <2>6
<1>2. CASE ~(t \in MacType /\ Len(m) >= MacAt[t])
  BY <1>2 DEF WithMac
<1> QED
  BY <1>1, <1>2

\* MAC1 depends on what precedes it only, not on what was in its place.
LEMMA WithMacOver ==
  ASSUME NEW U, NEW m \in Seq(U), NEW d \in Seq(U), NEW t \in Type, NEW k,
         Len(d) = Len(m),
         \A i \in 1 .. Len(m) : (t \in MacType /\ i = MacAt[t]) \/ d[i] = m[i]
  PROVE  WithMac(d, t, k) = WithMac(m, t, k)
<1>1. CASE t \in MacType /\ Len(m) >= MacAt[t]
  <2> DEFINE at  == MacAt[t]
             mac == ComputeMAC1(k, SubSeq(m, 1, at - 1))
  <2>1. at \in Nat \ {0, 1}
    BY <1>1, TransformAssumption
  <2>2. \A i \in 1 .. Len(m) : i # at => d[i] = m[i]
    BY <1>1
  <2>3. SubSeq(d, 1, at - 1) = SubSeq(m, 1, at - 1)
    <3>1. \A i \in 1 .. at - 1 : d[i] = m[i]
      BY <1>1, <2>1, <2>2
    <3> QED BY <1>1, <2>1, <3>1
  <2>4. WithMac(d, t, k) = [d EXCEPT ![at] = mac] /\ WithMac(m, t, k) = [m EXCEPT ![at] = mac]
    BY <1>1, <2>3 DEF WithMac
  <2>5. [d EXCEPT ![at] = mac] = [m EXCEPT ![at] = mac]
    <3> HIDE DEF mac
    <3>1. DOMAIN d = 1 .. Len(m) /\ DOMAIN m = 1 .. Len(m)
      OBVIOUS
    <3>2. [i \in 1 .. Len(m) |-> IF i = at THEN mac ELSE d[i]] =
            [i \in 1 .. Len(m) |-> IF i = at THEN mac ELSE m[i]]
      BY <2>2
    <3> QED BY <3>1, <3>2
  <2> QED
    BY <2>4, <2>5
<1>2. CASE ~(t \in MacType /\ Len(m) >= MacAt[t])
  <2>1. \A i \in 1 .. Len(m) : d[i] = m[i]
    BY <1>2, TransformAssumption
  <2>2. d = m
    BY <2>1, SeqEqual
  <2> QED
    BY <2>2
<1> QED
  BY <1>1, <1>2

-----------------------------------------------------------------------------

\* The receiver of an obfuscated message of type t tells its type and finds
\* where it begins, unless the headers are not distinct or the prefix or the
\* content happens to look like a type that is tried first
\* (transform.go:47-69 against 92-109).
THEOREM ClassifyFinds ==
  ASSUME NEW p \in Params, DistinctHeaders(p), NEW t \in Type, NEW pkt,
         HeaderAt(pkt, PrefixFor(p, t), p.h[t]), ~Ambiguous(p, pkt, t)
  PROVE  Classify(p, pkt) = [ok |-> TRUE, type |-> t, offset |-> PrefixFor(p, t)]
<1> USE TransformAssumption
<1>1. CASE t = TransportT
  BY <1>1 DEF Classify, PrefixFor, MacType
<1>2. CASE t = CookieT
  <2>1. p.h[CookieT] # p.h[TransportT]
    BY DEF DistinctHeaders, Type
  <2>2. PrefixFor(p, t) = 0
    BY <1>2 DEF PrefixFor, MacType
  <2>3. ~HeaderAt(pkt, 0, p.h[TransportT])
    BY <1>2, <2>1, <2>2 DEF HeaderAt
  <2> QED
    BY <1>2, <2>2, <2>3 DEF Classify
<1>3. CASE t \in MacType
  BY <1>3 DEF Classify, PrefixFor, MacType, Ambiguous
<1> QED
  BY <1>1, <1>2, <1>3 DEF Type, MacType

\* Deobfuscate after Obfuscate gives the message back, under its type, with
\* MAC1 for the receiver's key: nothing of the sender's header, MAC1 or prefix
\* is left (transform.go:71-109).
THEOREM RoundTrip ==
  ASSUME NEW p \in Params, DistinctHeaders(p), NEW t \in Type, NEW k1, NEW k2,
         NEW S, NEW msg \in Seq(S), Len(msg) > 0, msg[1] = t,
         NEW junk \in Prefixes(p, msg),
         ~Ambiguous(p, Obfuscate(p, msg, k1, junk), t)
  PROVE  Deobfuscate(p, Obfuscate(p, msg, k1, junk), k2) =
           [ok |-> TRUE, type |-> t, plain |-> WithMac(msg, t, k2)]
<1> DEFINE h    == p.h[t]
           o    == [msg EXCEPT ![1] = h]
           mac1 == ComputeMAC1(k1, SubSeq(o, 1, MacAt[t] - 1))
           U    == S \union Word \union {mac1}
           m    == WithMac(o, t, k1)
           n    == PrefixFor(p, t)
           pkt  == junk \o m
<1>1. h \in Word /\ n \in Nat
  BY DEF Params, PrefixFor, MacType, Type
<1>2. msg \in Seq(U) /\ o \in Seq(U) /\ Len(o) = Len(msg) /\ o[1] = h
  BY <1>1
<1>3. junk \in Seq(U) /\ Len(junk) = n
  <2>1. junk \in [1 .. n -> Word]
    BY DEF Prefixes
  <2>2. junk \in [1 .. n -> U]
    BY <2>1
  <2> HIDE DEF U
  <2>3. junk \in Seq(U)
    BY <1>1, <2>2
  <2>4. Len(junk) = n
    BY <1>1, <2>1
  <2> QED
    BY <2>3, <2>4
<1>4. /\ m \in Seq(U) /\ Len(m) = Len(msg) /\ m[1] = h
      /\ \A i \in 1 .. Len(msg) : (t \in MacType /\ i = MacAt[t]) \/ m[i] = o[i]
  <2>1. ComputeMAC1(k1, SubSeq(o, 1, MacAt[t] - 1)) \in U
    OBVIOUS
  <2> HIDE DEF o, U
  <2>2. /\ m \in Seq(U) /\ Len(m) = Len(o)
        /\ \A i \in 1 .. Len(o) : (t \in MacType /\ i = MacAt[t]) \/ m[i] = o[i]
    BY <1>2, <2>1, WithMacShape
  <2>3. t \in MacType => MacAt[t] # 1
    BY TransformAssumption
  <2> QED
    BY <1>2, <2>2, <2>3
<1>5. Obfuscate(p, msg, k1, junk) = pkt
  BY DEF Obfuscate, hFor
<1>6. HeaderAt(pkt, n, h) /\ SubSeq(pkt, n + 1, Len(pkt)) = m
  BY <1>3, <1>4, CutPrefix
<1>7. Classify(p, pkt) = [ok |-> TRUE, type |-> t, offset |-> n]
  BY <1>5, <1>6, ClassifyFinds
<1>8. Deobfuscate(p, pkt, k2) =
        [ok |-> TRUE, type |-> t, plain |-> WithMac([m EXCEPT ![1] = t], t, k2)]
  <2> HIDE DEF pkt, m, n
  <2> DEFINE c == Classify(p, pkt)
  <2>1. c.ok = TRUE /\ c.type = t /\ c.offset = n
    BY <1>7
  <2>2. SubSeq(pkt, c.offset + 1, Len(pkt)) = m
    BY <1>6, <2>1
  <2>3. Deobfuscate(p, pkt, k2) =
          [ok |-> c.ok, type |-> c.type,
           plain |-> IF c.ok THEN WithMac([SubSeq(pkt, c.offset + 1, Len(pkt)) EXCEPT ![1] = c.type],
                                          c.type, k2) ELSE <<>>]
    BY DEF Deobfuscate
  <2> HIDE DEF c
  <2> QED
    BY <2>1, <2>2, <2>3
<1>9. WithMac([m EXCEPT ![1] = t], t, k2) = WithMac(msg, t, k2)
  <2> DEFINE d == [m EXCEPT ![1] = t]
  <2>1. t \in U
    BY <1>2
  <2>2. \A i \in 2 .. Len(msg) : o[i] = msg[i]
    OBVIOUS
  <2> HIDE DEF U, m, o
  <2>3. /\ d \in Seq(U) /\ Len(d) = Len(msg) /\ d[1] = t
        /\ \A i \in 2 .. Len(msg) : d[i] = m[i]
    BY <1>4, <2>1
  <2> HIDE DEF d
  <2>4. \A i \in 1 .. Len(msg) : (t \in MacType /\ i = MacAt[t]) \/ d[i] = msg[i]
    BY <1>4, <2>2, <2>3
  <2>5. WithMac(d, t, k2) = WithMac(msg, t, k2)
    BY <1>2, <2>3, <2>4, WithMacOver
  <2> QED
    BY <2>5 DEF d
<1> QED
  BY <1>5, <1>8, <1>9

-----------------------------------------------------------------------------
(* The loops of client mode.                                                *)

\* The parameters are fixed while the loops run.
FaithfulInv == params \in ParamSet /\ RepliesFaithful

\* One reply of a server, obfuscated there and converted by awgLoop.
LEMMA ReadFaithful ==
  ASSUME \A p \in ParamSet : DistinctHeaders(p), params \in ParamSet,
         NEW a, NEW msg \in Replies(a[2]), NEW junk, AwgRead(a, msg, junk)
  PROVE  RepliesFaithful'
<1> DEFINE pkt == Obfuscate(params, msg, a[2], junk)
           S   == {ResponseT, TransportT, ComputeMAC1(a[2], <<ResponseT>>)} \union Payload
<1>1. msg \in Seq(S) /\ Len(msg) > 0 /\ msg[1] \in Type
  <2> DEFINE mac == ComputeMAC1(a[2], <<ResponseT>>)
  <2>1. msg = <<ResponseT, mac>> \/ \E w \in Payload : msg = <<TransportT, w>>
    BY DEF Replies, Response
  <2>2. ResponseT \in S /\ TransportT \in S /\ mac \in S /\ Payload \subseteq S
    OBVIOUS
  <2> HIDE DEF mac, S
  <2>3. CASE msg = <<ResponseT, mac>>
    BY <2>2, <2>3 DEF Type
  <2>4. CASE \E w \in Payload : msg = <<TransportT, w>>
    BY <2>2, <2>4 DEF Type
  <2> QED
    BY <2>1, <2>3, <2>4
<1>2. /\ aplain' = Deobfuscate(params, pkt, snap.pub).plain
      /\ areply' = [msg |-> msg, for |-> a[2], pub |-> snap.pub,
                    ambiguous |-> Ambiguous(params, pkt, msg[1])]
      /\ junk \in Prefixes(params, msg)
  BY DEF AwgRead
<1>3. params \in Params /\ DistinctHeaders(params)
  BY ClientProxyAssumption
<1>4. ASSUME ~Ambiguous(params, pkt, msg[1])
      PROVE  aplain' = WithMac(msg, msg[1], snap.pub)
  <2> DEFINE t == msg[1]
             k == a[2]
  <2>1. /\ msg[1] = t /\ t \in Type /\ pkt = Obfuscate(params, msg, k, junk)
        /\ ~Ambiguous(params, Obfuscate(params, msg, k, junk), t)
    BY <1>1, <1>4
  <2> HIDE DEF S, t, k, pkt
  <2>2. Deobfuscate(params, pkt, snap.pub) =
          [ok |-> TRUE, type |-> t, plain |-> WithMac(msg, t, snap.pub)]
    <3> DEFINE k2 == snap.pub
    <3> HIDE DEF k2
    <3>1. Deobfuscate(params, Obfuscate(params, msg, k, junk), k2) =
            [ok |-> TRUE, type |-> t, plain |-> WithMac(msg, t, k2)]
      <4>1. /\ params \in Params /\ DistinctHeaders(params) /\ t \in Type
            /\ msg \in Seq(S) /\ Len(msg) > 0 /\ msg[1] = t
        BY <1>1, <1>3, <2>1
      <4>2. junk \in Prefixes(params, msg) /\ ~Ambiguous(params, Obfuscate(params, msg, k, junk), t)
        BY <1>2, <2>1
      <4> QED
        BY <4>1, <4>2, RoundTrip
    <3> QED
      BY <2>1, <3>1 DEF k2
  <2> QED
    BY <1>2, <2>1, <2>2
<1> QED
  BY <1>2, <1>4 DEF RepliesFaithful

\* Unless its random prefix collides with a header, every reply reaches the
\* router as the server sent it, with MAC1 for the router's key: for distinct
\* headers H1..H4 and any prefix lengths (client.go:127).
THEOREM Faithful ==
  ASSUME \A p \in ParamSet : DistinctHeaders(p)
  PROVE  Spec => []RepliesFaithful
<1>1. Init => FaithfulInv
  BY DEF Init, FaithfulInv, RepliesFaithful
<1>2. FaithfulInv /\ [Next]_vars => FaithfulInv'
  <2> SUFFICES ASSUME FaithfulInv, [Next]_vars
               PROVE  FaithfulInv'
    OBVIOUS
  <2>1. params' = params
    BY DEF Next, vars, worldVars, Rekey, EditPeer, SrcMoves, PollIface, PollPeers, PollFails,
           RouterRead, RouterJunk, RouterSend, AwgRead, AwgDeliver
  <2>2. ASSUME NEW a, NEW msg \in Replies(a[2]), NEW junk, AwgRead(a, msg, junk)
        PROVE  RepliesFaithful'
    BY <2>2, ReadFaithful DEF FaithfulInv
  <2>3. ASSUME AwgDeliver PROVE RepliesFaithful'
    BY <2>3 DEF AwgDeliver, RepliesFaithful
  <2>4. ASSUME UNCHANGED awgVars PROVE RepliesFaithful'
    BY <2>4 DEF FaithfulInv, RepliesFaithful, awgVars
  <2>5. \/ \E a \in accepted : \E msg \in Replies(a[2]), junk \in Junk : AwgRead(a, msg, junk)
        \/ AwgDeliver \/ UNCHANGED awgVars
    BY DEF Next, vars, Rekey, EditPeer, SrcMoves, PollIface, PollPeers, PollFails,
           RouterRead, RouterJunk, RouterSend
  <2> QED
    BY <2>1, <2>2, <2>3, <2>4, <2>5 DEF FaithfulInv
<1> QED
  BY <1>1, <1>2, PTL DEF Spec, FaithfulInv

-----------------------------------------------------------------------------
(* Where routerLoop sends (internal/proxy/client.go:79-113).                *)

\* While a packet is on its way the upstream it was read under is kept, and
\* junk is owed only before the packet itself.
Carrying ==
  /\ lpc \in {"junk", "send"} => lup \in Upstream
  /\ lpc = "junk" => ljunk > 0

ClientInv == ClientTypeOK /\ Carrying

\* The poller reports what the router names or named, and so do the upstream
\* held in a snapshot and the one a packet is sent to.
Named ==
  /\ PickUpstream(router.peers) \in picks
  /\ HasUpstream => snap.up \in picks
  /\ lpc \in {"junk", "send"} => lup \in picks

PickInv == ClientInv /\ Named /\ SentAsPicked

\* pickUpstream names no peer, or one that has a key and an endpoint
\* (internal/router/poller.go).
LEMMA PickUpstreamType ==
  ASSUME NEW peers \in [Peer -> Row]
  PROVE  PickUpstream(peers) \in Upstream \union {Nil}
<1>1. CASE Cardinality(Marked(peers)) # 1
  BY <1>1 DEF PickUpstream
<1>2. CASE Cardinality(Marked(peers)) = 1
  <2> DEFINE q == CHOOSE q \in Marked(peers) : TRUE
  <2>1. Marked(peers) # {}
    BY <1>2, FS_EmptySet
  <2>2. q \in Peer
    BY <2>1 DEF Marked
  <2>3. peers[q] \in Row
    BY <2>2
  <2>4. peers[q].key \in Key /\ peers[q].ep \in Ep \union {Nil}
    BY <2>3, ClientProxyAssumption DEF Row
  <2> HIDE DEF q
  <2>5. IF peers[q].ep = Nil THEN PickUpstream(peers) = Nil
        ELSE PickUpstream(peers) = [key |-> peers[q].key, ep |-> peers[q].ep]
    BY <1>2 DEF PickUpstream, q
  <2> QED
    BY <2>4, <2>5 DEF Upstream
<1> QED
  BY <1>1, <1>2

\* Before the loops of client.go run there is no reply and nothing has changed the parameters.
LEMMA ClientInit == Init => ClientInv
<1> SUFFICES ASSUME Init PROVE ClientInv
  OBVIOUS
<1>1. src \in Src
  BY ClientProxyAssumption DEF Init
<1>2. router \in [pub : RouterKey, peers : [Peer -> Row]]
  BY ClientProxyAssumption DEF Init
<1>3. heard \in [Ep -> 0 .. Jc] /\ ljunk \in 0 .. Jc
  BY ClientProxyAssumption DEF Init
<1>4. changes \in 0 .. MaxChanges /\ moves \in 0 .. MaxMoves
  BY ClientProxyAssumption DEF Init
<1> QED
  BY <1>1, <1>2, <1>3, <1>4 DEF Init, ClientInv, ClientTypeOK, Carrying

\* Of the steps of the router, its operator and the poller.
LEMMA WorldKeepsClientInv ==
  ASSUME ClientInv,
         \/ \E k \in RouterKey : Rekey(k)
         \/ \E q \in Peer, row \in Row : EditPeer(q, row)
         \/ \E s \in Src : SrcMoves(s)
         \/ PollIface \/ (\E resolves \in BOOLEAN : PollPeers(resolves)) \/ PollFails
  PROVE  ClientInv'
<1> USE DEF ClientInv, Carrying
<1>1. ASSUME NEW k \in RouterKey, Rekey(k) PROVE ClientInv'
  BY <1>1, ClientProxyAssumption DEF Rekey, ClientTypeOK, pollVars, loopVars, awgVars, serverVars
<1>2. ASSUME NEW q \in Peer, NEW row \in Row, EditPeer(q, row) PROVE ClientInv'
  <2>1. router' \in [pub : RouterKey, peers : [Peer -> Row]]
    BY <1>2 DEF EditPeer, ClientTypeOK
  <2>2. changes' \in 0 .. MaxChanges
    BY <1>2, ClientProxyAssumption DEF EditPeer, ClientTypeOK
  <2>3. UNCHANGED <<params, src, moves, pollVars, loopVars, awgVars, serverVars>>
    BY <1>2 DEF EditPeer
  <2> QED
    BY <2>1, <2>2, <2>3 DEF ClientTypeOK, pollVars, loopVars, awgVars, serverVars
<1>3. ASSUME NEW s \in Src, SrcMoves(s) PROVE ClientInv'
  BY <1>3, ClientProxyAssumption DEF SrcMoves, ClientTypeOK, pollVars, loopVars, awgVars, serverVars
<1>4. ASSUME PollIface PROVE ClientInv'
  BY <1>4 DEF PollIface, ClientTypeOK, worldVars, loopVars, awgVars, serverVars
<1>5. ASSUME NEW resolves \in BOOLEAN, PollPeers(resolves) PROVE ClientInv'
  <2>1. PickUpstream(router.peers) \in Upstream \union {Nil}
    BY PickUpstreamType DEF ClientTypeOK
  <2>2. snap' \in [pub : RouterKey, up : Upstream \union {Nil}]
    BY <1>5, <2>1 DEF PollPeers, ClientTypeOK
  <2> QED
    BY <1>5, <2>2 DEF PollPeers, ClientTypeOK, worldVars, loopVars, awgVars, serverVars
<1>6. ASSUME PollFails PROVE ClientInv'
  BY <1>6 DEF PollFails, ClientTypeOK, worldVars, loopVars, awgVars, serverVars
<1> QED
  BY <1>1, <1>2, <1>3, <1>4, <1>5, <1>6

\* Of the steps of routerLoop.
LEMMA LoopKeepsClientInv ==
  ASSUME ClientInv,
         \/ \E msg \in Outgoing : RouterRead(msg)
         \/ \E ok, reaches \in BOOLEAN : RouterJunk(ok, reaches)
         \/ \E reaches \in BOOLEAN, junk \in Junk : RouterSend(reaches, junk)
  PROVE  ClientInv'
<1> USE DEF ClientInv, Carrying
<1>1. ASSUME NEW msg \in Outgoing, RouterRead(msg) PROVE ClientInv'
  <2>1. CASE ~HasUpstream
    BY <1>1, <2>1 DEF RouterRead, ClientTypeOK, worldVars, pollVars, awgVars, serverVars
  <2>2. CASE HasUpstream
    <3>1. lup' \in Upstream /\ lpkt' = msg
      BY <1>1, <2>2 DEF RouterRead, HasUpstream, ClientTypeOK
    <3>2. ljunk' \in 0 .. Jc /\ lpc' = IF ljunk' > 0 THEN "junk" ELSE "send"
      BY <1>1, <2>2, ClientProxyAssumption DEF RouterRead
    <3> QED
      BY <1>1, <3>1, <3>2 DEF RouterRead, ClientTypeOK, worldVars, pollVars, awgVars, serverVars
  <2> QED
    BY <2>1, <2>2
<1>2. ASSUME NEW ok \in BOOLEAN, NEW reaches \in BOOLEAN, RouterJunk(ok, reaches) PROVE ClientInv'
  <2>1. heard' \in [Ep -> 0 .. Jc]
    BY <1>2, ClientProxyAssumption DEF RouterJunk, ClientTypeOK, Upstream
  <2>2. ljunk' \in 0 .. Jc /\ lpc' = IF ljunk' = 0 THEN "send" ELSE "junk"
    BY <1>2, ClientProxyAssumption DEF RouterJunk, ClientTypeOK
  <2>3. lup \in Upstream /\ lup' = lup
    BY <1>2 DEF RouterJunk
  <2>4. lpc' \in {"junk", "send"} /\ (lpc' = "junk" => ljunk' > 0)
    BY <2>2
  <2> QED
    BY <1>2, <2>1, <2>2, <2>3, <2>4 DEF RouterJunk, ClientTypeOK, worldVars, pollVars, awgVars
<1>3. ASSUME NEW reaches \in BOOLEAN, NEW junk \in Junk, RouterSend(reaches, junk) PROVE ClientInv'
  <2>1. lup.ep \in Ep
    BY <1>3 DEF RouterSend, Upstream
  <2>2. heard' \in [Ep -> 0 .. Jc]
    BY <1>3, <2>1, ClientProxyAssumption DEF RouterSend, ClientTypeOK
  <2>3. accepted' \subseteq Ep \X RouterKey
    <3>1. accepted' = accepted \/ accepted' = accepted \union {<<lup.ep, router.pub>>}
      BY <1>3 DEF RouterSend
    <3> QED
      BY <2>1, <3>1 DEF ClientTypeOK
  <2>4. lpc' = "read" /\ lpkt' = <<>> /\ lup' = Nil
    BY <1>3 DEF RouterSend
  <2>5. UNCHANGED <<worldVars, pollVars, routerSrc, ljunk, awgVars>>
    BY <1>3 DEF RouterSend
  <2> QED
    BY <2>2, <2>3, <2>4, <2>5 DEF ClientTypeOK, worldVars, pollVars, awgVars
<1> QED
  BY <1>1, <1>2, <1>3

\* No step changes the parameters, and only AwgRead (awgLoop) makes a reply.
LEMMA ClientStep == ClientInv /\ [Next]_vars => ClientInv'
<1> SUFFICES ASSUME ClientInv, [Next]_vars PROVE ClientInv'
  OBVIOUS
<1>1. ASSUME NEW a \in accepted, NEW msg \in Replies(a[2]), NEW junk \in Junk, AwgRead(a, msg, junk)
      PROVE  ClientInv'
  <2>1. apc' = "deliver" /\ UNCHANGED <<worldVars, pollVars, loopVars, serverVars>>
    BY <1>1 DEF AwgRead
  <2> QED
    BY <2>1 DEF ClientInv, ClientTypeOK, Carrying, worldVars, pollVars, loopVars, serverVars
<1>2. CASE AwgDeliver
  BY <1>2 DEF AwgDeliver, ClientInv, ClientTypeOK, Carrying, worldVars, pollVars, loopVars, serverVars
<1>3. CASE UNCHANGED vars
  BY <1>3 DEF vars, ClientInv, ClientTypeOK, Carrying,
              worldVars, pollVars, loopVars, awgVars, serverVars
<1> QED
  BY <1>1, <1>2, <1>3, WorldKeepsClientInv, LoopKeepsClientInv DEF Next

\* Type correctness for any servers, keys and parameters: the upstream of a
\* snapshot always has an endpoint, so that routerLoop never lacks an address
\* to send to (client.go:88).
THEOREM ClientTypeCorrect == Spec => []ClientTypeOK
<1>1. ClientInv => ClientTypeOK
  BY DEF ClientInv
<1> QED
  BY <1>1, ClientInit, ClientStep, PTL DEF Spec

\* When the loops start nothing was sent.
LEMMA PickInit == Init => PickInv
<1> SUFFICES ASSUME Init PROVE PickInv
  OBVIOUS
<1>1. ClientInv
  BY ClientInit
<1> QED
  BY <1>1 DEF Init, PickInv, Named, SentAsPicked, HasUpstream

\* routerLoop sends what it read with the key and the address of one snapshot,
\* whatever the poller publishes while its junk packets go out.
LEMMA PickStep == PickInv /\ [Next]_vars => PickInv'
<1> SUFFICES ASSUME PickInv, [Next]_vars PROVE (Named /\ SentAsPicked)'
  BY ClientStep DEF PickInv
<1> USE DEF PickInv, Named, SentAsPicked, HasUpstream
<1>1. ASSUME NEW k \in RouterKey, Rekey(k) PROVE (Named /\ SentAsPicked)'
  <2>1. router'.peers = router.peers
    BY <1>1 DEF Rekey, ClientInv, ClientTypeOK
  <2> QED
    BY <1>1, <2>1 DEF Rekey, pollVars, loopVars
<1>2. ASSUME NEW q \in Peer, NEW row \in Row, EditPeer(q, row) PROVE (Named /\ SentAsPicked)'
  BY <1>2 DEF EditPeer, pollVars, loopVars
<1>3. ASSUME NEW s \in Src, SrcMoves(s) PROVE (Named /\ SentAsPicked)'
  BY <1>3 DEF SrcMoves, pollVars, loopVars
<1>4. ASSUME PollIface PROVE (Named /\ SentAsPicked)'
  BY <1>4 DEF PollIface, worldVars, loopVars
<1>5. ASSUME NEW resolves \in BOOLEAN, PollPeers(resolves) PROVE (Named /\ SentAsPicked)'
  <2>1. snap'.up = PickUpstream(router.peers) \/ snap'.up = Nil
    BY <1>5 DEF PollPeers
  <2> QED
    BY <1>5, <2>1 DEF PollPeers, worldVars, loopVars
<1>6. ASSUME PollFails PROVE (Named /\ SentAsPicked)'
  BY <1>6 DEF PollFails, worldVars, loopVars
<1>7. ASSUME NEW msg \in Outgoing, RouterRead(msg) PROVE (Named /\ SentAsPicked)'
  BY <1>7 DEF RouterRead, worldVars, pollVars
<1>8. ASSUME NEW ok \in BOOLEAN, NEW reaches \in BOOLEAN, RouterJunk(ok, reaches)
      PROVE  (Named /\ SentAsPicked)'
  BY <1>8 DEF RouterJunk, worldVars, pollVars
<1>9. ASSUME NEW reaches \in BOOLEAN, NEW junk \in Junk, RouterSend(reaches, junk)
      PROVE  (Named /\ SentAsPicked)'
  <2>1. lup \in picks /\ lup = [key |-> lup.key, ep |-> lup.ep]
    BY <1>9 DEF RouterSend, ClientInv, Carrying, Upstream
  <2>2. sent' = [to |-> lup.ep, key |-> lup.key] /\ lpc' = "read"
        /\ UNCHANGED <<worldVars, pollVars>>
    BY <1>9 DEF RouterSend
  <2> QED
    BY <2>1, <2>2 DEF worldVars, pollVars
<1>10. ASSUME NEW a \in accepted, NEW msg \in Replies(a[2]), NEW junk \in Junk, AwgRead(a, msg, junk)
       PROVE  (Named /\ SentAsPicked)'
  <2>1. UNCHANGED <<worldVars, pollVars, loopVars>>
    BY <1>10 DEF AwgRead
  <2> QED
    BY <2>1 DEF worldVars, pollVars, loopVars
<1>11. CASE AwgDeliver
  BY <1>11 DEF AwgDeliver, worldVars, pollVars, loopVars
<1>12. CASE UNCHANGED vars
  BY <1>12 DEF vars, worldVars, pollVars, loopVars
<1> QED
  BY <1>1, <1>2, <1>3, <1>4, <1>5, <1>6, <1>7, <1>8, <1>9, <1>10, <1>11, <1>12 DEF Next

\* Key and destination of every datagram passed on come from one configuration
\* the router had, whatever polls and edits fall between the junk packets and
\* the datagram (client.go:90-111).
THEOREM SentConsistently == Spec => []SentAsPicked
<1>1. PickInv => SentAsPicked
  BY DEF PickInv
<1> QED
  BY <1>1, PickInit, PickStep, PTL DEF Spec
=============================================================================
