------------------------- MODULE ServerProxyProofs --------------------------
(***************************************************************************)
(* The session table (internal/proxy/sessions.go), for any sets of clients,*)
(* indices and keys, any collisions between the indices clients use, and   *)
(* any TTL; and the proxy in server mode (internal/proxy/server.go): its   *)
(* loops use the table as Sessions has it, and between two operations of   *)
(* the table keep what makes a reply reach its client in a form the client *)
(* accepts.                                                                *)
(*                                                                         *)
(* ActiveClientRoutable is not inductive.  What keeps a client's routes    *)
(* alive is that a client not silent for longer than TTL still has its     *)
(* session in byAddr, younger than the client's own silence (ActiveSeen),  *)
(* that byAddr files each session under its own address (Owned), and that  *)
(* the collector therefore only ever clears an index of a silent client    *)
(* or one that two clients share (IndexUsed).                              *)
(***************************************************************************)
EXTENDS ServerProxy, TLAPS

-----------------------------------------------------------------------------
(* The table.                                                               *)

\* byAddr files a session under the session's own address.
Owned == \A a \in Addr : byAddr[a] # Nil => sess[byAddr[a]].addr = a

\* byIndex leads to the session of a client that may use the index.
Routed == \A i \in Index : byIndex[i] # Nil =>
            /\ sess[byIndex[i]].addr \in Addr
            /\ <<sess[byIndex[i]].addr, i>> \in Uses

\* A client heard from within TTL has a session at least that fresh.
ActiveSeen == \A a \in Addr : quiet[a] <= TTL =>
                byAddr[a] # Nil /\ sess[byAddr[a]].age <= quiet[a]

\* Only clients heard from within TTL have claims, on indices they may use.
LiveActive == \A a \in Addr : \A i \in live[a] :
                quiet[a] <= TTL /\ <<a, i>> \in Uses

\* A session's latest index is none, or one its client may use.
IndexUsed == \A a \in Addr : byAddr[a] # Nil =>
               \/ sess[byAddr[a]].clientIndex = Zero
               \/ <<a, sess[byAddr[a]].clientIndex>> \in Uses

\* A client's latest handshake is routed only by the session in byAddr, which
\* still has it as its index: what the collector then clears.
LatestFiled == \A a \in Addr : last[a] # Nil =>
                 /\ <<a, last[a]>> \in Uses
                 /\ Private(last[a]) =>
                      \/ byIndex[last[a]] = Nil
                      \/ /\ byAddr[a] # Nil
                         /\ sess[byAddr[a]].clientIndex = last[a]

RouteInv == /\ TypeOK
            /\ Owned
            /\ Routed
            /\ ActiveSeen
            /\ LiveActive
            /\ IndexUsed
            /\ LatestFiled
            /\ ActiveClientRoutable

-----------------------------------------------------------------------------

\* What getLocked hands to its caller: a session of address a, the one filed
\* in byAddr or an object that neither map refers to.
LEMMA GetLockedFacts ==
  ASSUME TypeOK, Owned, NEW a \in Addr, NEW s \in Sid, GetLocked(a, s)
  PROVE  /\ Got(a) \in Session
         /\ Got(a).addr = a
         /\ byAddr[a] # Nil => s = byAddr[a] /\ Got(a) = sess[s]
         /\ byAddr[a] = Nil => Got(a) = NewSession(a) /\ \A i \in Index : byIndex[i] # s
         /\ \A b \in Addr : b # a => byAddr[b] # s
  <1>1. CASE byAddr[a] # Nil
    BY <1>1, SessionsAssumption DEF GetLocked, Got, TypeOK, Owned
  <1>2. CASE byAddr[a] = Nil
    BY <1>2, SessionsAssumption
       DEF GetLocked, Got, TypeOK, NewSession, Session, Referenced
  <1>. QED  BY <1>1, <1>2

\* Init establishes the invariant.
LEMMA InitInv == TableInit => RouteInv
  BY SessionsAssumption
     DEF TableInit, RouteInv, TypeOK, Session, Unused, Owned, Routed, ActiveSeen,
         LiveActive, IndexUsed, LatestFiled, ActiveClientRoutable, route

\* A handshake initiation preserves the invariant.
LEMMA ClientInitInv ==
  ASSUME RouteInv, NEW a \in Addr, NEW i \in Index, ClientInit(a, i)
  PROVE  RouteInv'
  <1>. PICK s \in Sid :
         /\ GetLocked(a, s)
         /\ byAddr'  = [byAddr EXCEPT ![a] = s]
         /\ byIndex' = [byIndex EXCEPT ![i] = s]
         /\ sess' = Collected(
              [sess EXCEPT ![s] = [Got(a) EXCEPT !.clientIndex = i, !.age = 0]],
              byAddr', byIndex')
    BY DEF ClientInit
  <1>. DEFINE new == [Got(a) EXCEPT !.clientIndex = i, !.age = 0]
  <1>u. /\ <<a, i>> \in Uses
        /\ live'  = [live EXCEPT ![a] = @ \union {i}]
        /\ last'  = [last EXCEPT ![a] = i]
        /\ quiet' = [quiet EXCEPT ![a] = 0]
    BY DEF ClientInit
  <1>t. TypeOK
    BY DEF RouteInv
  <1>g. /\ Got(a) \in Session
        /\ Got(a).addr = a
        /\ byAddr[a] # Nil => s = byAddr[a] /\ Got(a) = sess[s]
        /\ byAddr[a] = Nil => Got(a) = NewSession(a) /\ \A j \in Index : byIndex[j] # s
        /\ \A b \in Addr : b # a => byAddr[b] # s
    BY GetLockedFacts DEF RouteInv
  <1>n. /\ new \in Session /\ new.addr = a /\ new.clientIndex = i /\ new.age = 0
    <2>1. 0 \in 0 .. TTL + 1
      BY SessionsAssumption
    <2>. QED  BY <2>1, <1>g DEF Session
  <1>m. /\ byAddr' \in [Addr -> Sid \union {Nil}]
        /\ byIndex' \in [Index -> Sid \union {Nil}]
        /\ byAddr'[a] = s /\ \A b \in Addr : b # a => byAddr'[b] = byAddr[b]
        /\ byIndex'[i] = s /\ \A j \in Index : j # i => byIndex'[j] = byIndex[j]
    BY <1>t DEF TypeOK
  <1>h. /\ live' \in [Addr -> SUBSET Index] /\ last' \in [Addr -> Index \union {Nil}]
        /\ quiet' \in [Addr -> 0 .. TTL + 1]
        /\ live'[a] = live[a] \union {i} /\ last'[a] = i /\ quiet'[a] = 0
        /\ \A b \in Addr : b # a =>
             live'[b] = live[b] /\ last'[b] = last[b] /\ quiet'[b] = quiet[b]
    <2>1. 0 \in 0 .. TTL + 1
      BY SessionsAssumption
    <2>2. live' \in [Addr -> SUBSET Index] /\ last' \in [Addr -> Index \union {Nil}]
      BY <1>u, <1>t DEF TypeOK
    <2>3. quiet' \in [Addr -> 0 .. TTL + 1]
      BY <2>1, <1>u, <1>t DEF TypeOK
    <2>. QED  BY <2>2, <2>3, <1>u, <1>t DEF TypeOK
  <1>s. /\ sess' \in [Sid -> Session]
        /\ sess'[s] = new
        /\ \A b \in Addr : b # a /\ byAddr[b] # Nil => sess'[byAddr[b]] = sess[byAddr[b]]
        /\ \A j \in Index : j # i /\ byIndex[j] # Nil /\ byIndex[j] # s
                              => sess'[byIndex[j]] = sess[byIndex[j]]
    <2>. DEFINE h == [sess EXCEPT ![s] = new]
    <2>1. h \in [Sid -> Session] /\ h[s] = new /\ \A r \in Sid : r # s => h[r] = sess[r]
      BY <1>n, <1>t DEF TypeOK
    <2>2. Unused \in Session
      BY SessionsAssumption DEF Unused, Session
    <2>3. sess' = [r \in Sid |-> IF Referenced(r, byAddr', byIndex') THEN h[r] ELSE Unused]
      BY DEF Collected
    <2>4. Referenced(s, byAddr', byIndex')
      BY <1>m DEF Referenced
    <2>5. \A b \in Addr : b # a /\ byAddr[b] # Nil => Referenced(byAddr[b], byAddr', byIndex')
      BY <1>m DEF Referenced
    <2>6. \A j \in Index : j # i /\ byIndex[j] # Nil => Referenced(byIndex[j], byAddr', byIndex')
      BY <1>m DEF Referenced
    <2>. HIDE DEF h, new
    <2>7. sess' \in [Sid -> Session]
      BY <2>1, <2>2, <2>3
    <2>8. sess'[s] = new
      BY <2>1, <2>3, <2>4
    <2>9. \A b \in Addr : b # a /\ byAddr[b] # Nil => sess'[byAddr[b]] = sess[byAddr[b]]
      <3>. SUFFICES ASSUME NEW b \in Addr, b # a, byAddr[b] # Nil
                    PROVE  sess'[byAddr[b]] = sess[byAddr[b]]
        OBVIOUS
      <3>1. byAddr[b] \in Sid /\ byAddr[b] # s
        BY <1>g, <1>t DEF TypeOK
      <3>. QED  BY <3>1, <2>1, <2>3, <2>5
    <2>10. \A j \in Index : j # i /\ byIndex[j] # Nil /\ byIndex[j] # s
                              => sess'[byIndex[j]] = sess[byIndex[j]]
      BY <2>1, <2>3, <2>6, <1>t DEF TypeOK
    <2>. QED  BY <2>7, <2>8, <2>9, <2>10
  \* A session reached through two indices: the initiating client's own.
  <1>o. \A j \in Index : byIndex[j] = s => sess[s].addr = a /\ byAddr[a] = s
    BY <1>g, <1>t, SessionsAssumption DEF TypeOK
  <1>. HIDE DEF new
  <1>1. TypeOK'
    BY <1>m, <1>s, <1>h DEF TypeOK
  <1>2. Owned'
    BY <1>m, <1>s, <1>n DEF RouteInv, Owned
  <1>3. Routed'
    BY <1>m, <1>s, <1>n, <1>o, <1>u DEF RouteInv, Routed
  <1>4. ActiveSeen'
    <2>. SUFFICES ASSUME NEW b \in Addr, quiet'[b] <= TTL
                  PROVE  byAddr'[b] # Nil /\ sess'[byAddr'[b]].age <= quiet'[b]
      BY DEF ActiveSeen
    <2>1. CASE b = a
      BY <2>1, <1>m, <1>s, <1>n, <1>h, SessionsAssumption
    <2>2. CASE b # a
      BY <2>2, <1>m, <1>s, <1>h DEF RouteInv, ActiveSeen
    <2>. QED  BY <2>1, <2>2
  <1>5. LiveActive'
    <2>. SUFFICES ASSUME NEW b \in Addr, NEW j \in live'[b]
                  PROVE  quiet'[b] <= TTL /\ <<b, j>> \in Uses
      BY DEF LiveActive
    <2>1. CASE b = a
      BY <2>1, <1>u, <1>h, SessionsAssumption DEF RouteInv, LiveActive
    <2>2. CASE b # a
      BY <2>2, <1>h DEF RouteInv, LiveActive
    <2>. QED  BY <2>1, <2>2
  <1>6. IndexUsed'
    BY <1>m, <1>s, <1>n, <1>u DEF RouteInv, IndexUsed
  <1>7. LatestFiled'
    <2>. SUFFICES ASSUME NEW b \in Addr, last'[b] # Nil
                  PROVE  /\ <<b, last'[b]>> \in Uses
                         /\ Private(last'[b]) =>
                              \/ byIndex'[last'[b]] = Nil
                              \/ /\ byAddr'[b] # Nil
                                 /\ sess'[byAddr'[b]].clientIndex = last'[b]
      BY DEF LatestFiled, Private
    <2>1. CASE b = a
      BY <2>1, <1>u, <1>t, <1>m, <1>s, <1>n, SessionsAssumption DEF TypeOK
    <2>2. CASE b # a
      <3>1. last'[b] = last[b] /\ last[b] \in Index /\ <<b, last[b]>> \in Uses
        BY <2>2, <1>h DEF RouteInv, LatestFiled
      <3>2. CASE last[b] = i
        BY <3>1, <3>2, <2>2, <1>u DEF Private
      <3>3. CASE last[b] # i
        BY <3>1, <3>3, <2>2, <1>m, <1>s DEF RouteInv, LatestFiled
      <3>. QED  BY <3>2, <3>3
    <2>. QED  BY <2>1, <2>2
  <1>8. ActiveClientRoutable'
    <2>. SUFFICES ASSUME NEW b \in Addr, NEW j \in live'[b], Private(j)
                  PROVE  route'[j] = b
      BY DEF ActiveClientRoutable, Private
    <2>0. j \in Index /\ (b # a \/ j # i => j \in live[b])
      BY <1>h DEF TypeOK
    <2>1. CASE j = i
      <3>1. b = a
        BY <2>1, <2>0, <1>u DEF Private, RouteInv, LiveActive
      <3>. QED  BY <3>1, <2>1, <1>m, <1>s, <1>n, SessionsAssumption DEF route
    <2>2. CASE j # i
      <3>1. byIndex[j] # Nil /\ sess[byIndex[j]].addr = b
        BY <2>0, <2>2, SessionsAssumption DEF RouteInv, ActiveClientRoutable, route
      <3>. QED  BY <3>1, <2>0, <2>2, <1>m, <1>s, <1>n, <1>o DEF route
    <2>. QED  BY <2>1, <2>2
  <1>. QED  BY <1>1, <1>2, <1>3, <1>4, <1>5, <1>6, <1>7, <1>8 DEF RouteInv

\* clientTraffic and setPub file the session getLocked hands out again under
\* the same address, with the same index: no route and no claim changes.
LEMMA RefileInv ==
  ASSUME RouteInv, NEW a \in Addr, NEW s \in Sid, GetLocked(a, s),
         NEW new \in Session, new.addr = a, new.clientIndex = Got(a).clientIndex,
         byAddr' = [byAddr EXCEPT ![a] = s],
         sess' = [sess EXCEPT ![s] = new],
         UNCHANGED <<byIndex, live, last>>
  PROVE  /\ sess' \in [Sid -> Session]
         /\ byAddr' \in [Addr -> Sid \union {Nil}]
         /\ sess'[s] = new /\ byAddr'[a] = s
         /\ \A b \in Addr : b # a =>
              byAddr'[b] = byAddr[b] /\ (byAddr[b] # Nil => sess'[byAddr[b]] = sess[byAddr[b]])
         /\ route' = route
         /\ Owned' /\ Routed' /\ IndexUsed' /\ LatestFiled' /\ ActiveClientRoutable'
  <1>t. TypeOK
    BY DEF RouteInv
  <1>g. /\ Got(a).addr = a
        /\ byAddr[a] # Nil => s = byAddr[a] /\ Got(a) = sess[s]
        /\ byAddr[a] = Nil => Got(a) = NewSession(a) /\ \A j \in Index : byIndex[j] # s
        /\ \A b \in Addr : b # a => byAddr[b] # s
    BY GetLockedFacts DEF RouteInv
  <1>1. /\ sess' \in [Sid -> Session]
        /\ byAddr' \in [Addr -> Sid \union {Nil}]
        /\ sess'[s] = new /\ byAddr'[a] = s
        /\ \A r \in Sid : r # s => sess'[r] = sess[r]
    BY <1>t DEF TypeOK
  <1>2. \A b \in Addr : b # a =>
          byAddr'[b] = byAddr[b] /\ (byAddr[b] # Nil => sess'[byAddr[b]] = sess[byAddr[b]])
    <2>. SUFFICES ASSUME NEW b \in Addr, b # a
                  PROVE  byAddr'[b] = byAddr[b]
                         /\ (byAddr[b] # Nil => sess'[byAddr[b]] = sess[byAddr[b]])
      OBVIOUS
    <2>. QED  BY <1>1, <1>g, <1>t DEF TypeOK
  <1>3. \A j \in Index : byIndex[j] # Nil => sess'[byIndex[j]].addr = sess[byIndex[j]].addr
    <2>. SUFFICES ASSUME NEW j \in Index, byIndex[j] # Nil
                  PROVE  sess'[byIndex[j]].addr = sess[byIndex[j]].addr
      OBVIOUS
    <2>1. CASE byIndex[j] = s
      BY <2>1, <1>1, <1>g
    <2>2. CASE byIndex[j] # s
      BY <2>2, <1>1, <1>t DEF TypeOK
    <2>. QED  BY <2>1, <2>2
  <1>4. route' = route
    BY <1>3 DEF route
  <1>5. Owned'
    BY <1>1, <1>2 DEF RouteInv, Owned
  <1>6. Routed'
    BY <1>3 DEF RouteInv, Routed
  <1>7. IndexUsed'
    <2>1. Got(a).clientIndex = Zero \/ <<a, Got(a).clientIndex>> \in Uses
      BY <1>g DEF RouteInv, IndexUsed, NewSession
    <2>. QED  BY <2>1, <1>1, <1>2 DEF RouteInv, IndexUsed
  <1>8. LatestFiled'
    <2>. SUFFICES ASSUME NEW b \in Addr, last[b] # Nil, Private(last[b]), byIndex[last[b]] # Nil
                  PROVE  byAddr'[b] # Nil /\ sess'[byAddr'[b]].clientIndex = last[b]
      BY DEF RouteInv, LatestFiled, Private
    <2>1. byAddr[b] # Nil /\ sess[byAddr[b]].clientIndex = last[b]
      BY DEF RouteInv, LatestFiled
    <2>2. CASE b = a
      BY <2>1, <2>2, <1>1, <1>g, SessionsAssumption
    <2>3. CASE b # a
      BY <2>1, <2>3, <1>2
    <2>. QED  BY <2>2, <2>3
  <1>9. ActiveClientRoutable'
    BY <1>4 DEF RouteInv, ActiveClientRoutable, Private
  <1>. QED  BY <1>1, <1>2, <1>4, <1>5, <1>6, <1>7, <1>8, <1>9

\* A transport packet preserves the invariant and changes no route.
LEMMA ClientTrafficInv ==
  ASSUME RouteInv, NEW a \in Addr, ClientTraffic(a)
  PROVE  RouteInv' /\ route' = route
  <1>. PICK s \in Sid :
         /\ GetLocked(a, s)
         /\ byAddr' = [byAddr EXCEPT ![a] = s]
         /\ sess' = [sess EXCEPT ![s] = [Got(a) EXCEPT !.age = 0]]
    BY DEF ClientTraffic
  <1>. DEFINE new == [Got(a) EXCEPT !.age = 0]
  <1>1. 0 \in 0 .. TTL + 1
    BY SessionsAssumption
  <1>2. Got(a) \in Session /\ Got(a).addr = a
    BY GetLockedFacts DEF RouteInv
  <1>3. new \in Session /\ new.addr = a /\ new.clientIndex = Got(a).clientIndex /\ new.age = 0
    BY <1>1, <1>2 DEF Session
  <1>u. quiet' = [quiet EXCEPT ![a] = 0] /\ UNCHANGED <<byIndex, live, last>>
    BY DEF ClientTraffic
  <1>. HIDE DEF new
  <1>4. /\ sess' \in [Sid -> Session]
        /\ byAddr' \in [Addr -> Sid \union {Nil}]
        /\ sess'[s] = new /\ byAddr'[a] = s
        /\ \A b \in Addr : b # a =>
             byAddr'[b] = byAddr[b] /\ (byAddr[b] # Nil => sess'[byAddr[b]] = sess[byAddr[b]])
        /\ route' = route
        /\ Owned' /\ Routed' /\ IndexUsed' /\ LatestFiled' /\ ActiveClientRoutable'
    BY <1>3, <1>u, RefileInv DEF new
  <1>5. /\ quiet' \in [Addr -> 0 .. TTL + 1] /\ quiet'[a] = 0
        /\ \A b \in Addr : b # a => quiet'[b] = quiet[b]
    BY <1>1, <1>u DEF RouteInv, TypeOK
  <1>6. TypeOK'
    BY <1>4, <1>5, <1>u DEF RouteInv, TypeOK
  <1>7. ActiveSeen'
    <2>. SUFFICES ASSUME NEW b \in Addr, quiet'[b] <= TTL
                  PROVE  byAddr'[b] # Nil /\ sess'[byAddr'[b]].age <= quiet'[b]
      BY DEF ActiveSeen
    <2>1. CASE b = a
      BY <2>1, <1>3, <1>4, <1>5, SessionsAssumption
    <2>2. CASE b # a
      BY <2>2, <1>4, <1>5 DEF RouteInv, ActiveSeen
    <2>. QED  BY <2>1, <2>2
  <1>8. LiveActive'
    <2>1. 0 <= TTL
      BY SessionsAssumption
    <2>2. \A b \in Addr : quiet[b] <= TTL => quiet'[b] <= TTL
      BY <2>1, <1>5
    <2>. QED  BY <2>2, <1>u DEF RouteInv, LiveActive
  <1>. QED  BY <1>4, <1>6, <1>7, <1>8 DEF RouteInv

\* Learning a client's key preserves the invariant and changes no route.
LEMMA SetPubInv ==
  ASSUME RouteInv, NEW a \in Addr, NEW k \in Key, SetPub(a, k)
  PROVE  RouteInv' /\ route' = route
  <1>. PICK s \in Sid :
         /\ GetLocked(a, s)
         /\ byAddr' = [byAddr EXCEPT ![a] = s]
         /\ sess' = [sess EXCEPT ![s] = [Got(a) EXCEPT !.pub = k]]
    BY DEF SetPub
  <1>. DEFINE new == [Got(a) EXCEPT !.pub = k]
  <1>2. Got(a) \in Session /\ Got(a).addr = a /\ (byAddr[a] # Nil => Got(a) = sess[byAddr[a]])
    BY GetLockedFacts DEF RouteInv
  <1>3. new \in Session /\ new.addr = a /\ new.clientIndex = Got(a).clientIndex
        /\ new.age = Got(a).age
    BY <1>2 DEF Session
  <1>u. UNCHANGED <<byIndex, live, last, quiet>>
    BY DEF SetPub, history
  <1>. HIDE DEF new
  <1>4. /\ sess' \in [Sid -> Session]
        /\ byAddr' \in [Addr -> Sid \union {Nil}]
        /\ sess'[s] = new /\ byAddr'[a] = s
        /\ \A b \in Addr : b # a =>
             byAddr'[b] = byAddr[b] /\ (byAddr[b] # Nil => sess'[byAddr[b]] = sess[byAddr[b]])
        /\ route' = route
        /\ Owned' /\ Routed' /\ IndexUsed' /\ LatestFiled' /\ ActiveClientRoutable'
    BY <1>3, <1>u, RefileInv DEF new
  <1>6. TypeOK'
    BY <1>4, <1>u DEF RouteInv, TypeOK
  <1>7. ActiveSeen'
    <2>. SUFFICES ASSUME NEW b \in Addr, quiet[b] <= TTL
                  PROVE  byAddr'[b] # Nil /\ sess'[byAddr'[b]].age <= quiet[b]
      BY <1>u DEF ActiveSeen
    <2>1. CASE b = a
      BY <2>1, <1>2, <1>3, <1>4, SessionsAssumption DEF RouteInv, ActiveSeen
    <2>2. CASE b # a
      BY <2>2, <1>4 DEF RouteInv, ActiveSeen
    <2>. QED  BY <2>1, <2>2
  <1>8. LiveActive'
    BY <1>u DEF RouteInv, LiveActive
  <1>. QED  BY <1>4, <1>6, <1>7, <1>8 DEF RouteInv

\* A reply refreshes its session; it preserves the invariant and the routes.
LEMMA ResponseTargetsInv ==
  ASSUME RouteInv, NEW i \in Index, ResponseTargets(i)
  PROVE  RouteInv' /\ route' = route
  <1>t. TypeOK
    BY DEF RouteInv
  <1>. DEFINE s == byIndex[i]
  <1>u. /\ s \in Sid /\ sess' = [sess EXCEPT ![s].age = 0]
        /\ UNCHANGED <<byAddr, byIndex, live, last, quiet>>
    BY <1>t DEF ResponseTargets, TypeOK, history
  <1>. HIDE DEF s
  <1>1. 0 \in 0 .. TTL + 1
    BY SessionsAssumption
  <1>2. /\ sess' \in [Sid -> Session]
        /\ \A r \in Sid : /\ sess'[r].addr = sess[r].addr
                          /\ sess'[r].clientIndex = sess[r].clientIndex
                          /\ r # s => sess'[r] = sess[r]
        /\ sess'[s].age = 0
    BY <1>1, <1>u, <1>t DEF TypeOK, Session
  <1>3. TypeOK'
    BY <1>2, <1>u DEF RouteInv, TypeOK
  <1>4. route' = route
    BY <1>2, <1>u, <1>t DEF route, TypeOK
  <1>5. Owned' /\ Routed' /\ IndexUsed'
    BY <1>2, <1>u, <1>t DEF RouteInv, TypeOK, Owned, Routed, IndexUsed
  <1>6. ActiveSeen'
    <2>. SUFFICES ASSUME NEW b \in Addr, quiet[b] <= TTL
                  PROVE  byAddr[b] # Nil /\ sess'[byAddr[b]].age <= quiet[b]
      BY <1>u DEF ActiveSeen
    <2>1. byAddr[b] # Nil /\ byAddr[b] \in Sid /\ sess[byAddr[b]].age <= quiet[b]
          /\ quiet[b] \in 0 .. TTL + 1
      BY <1>t DEF RouteInv, ActiveSeen, TypeOK
    <2>2. CASE byAddr[b] = s
      BY <2>1, <2>2, <1>2, SessionsAssumption
    <2>3. CASE byAddr[b] # s
      BY <2>1, <2>3, <1>2
    <2>. QED  BY <2>2, <2>3
  <1>7. LiveActive'
    BY <1>u DEF RouteInv, LiveActive
  <1>8. LatestFiled'
    BY <1>2, <1>u, <1>t DEF RouteInv, TypeOK, LatestFiled, Private
  <1>9. ActiveClientRoutable'
    BY <1>4, <1>u DEF RouteInv, ActiveClientRoutable, Private
  <1>. QED  BY <1>3, <1>4, <1>5, <1>6, <1>7, <1>8, <1>9 DEF RouteInv

\* What a collection leaves: routes are kept or dropped, never moved, and the
\* claims of active clients are kept.
LEMMA GcFacts ==
  ASSUME RouteInv, Gc
  PROVE  /\ TypeOK'
         /\ \A a \in Addr : byAddr'[a] # Nil =>
              byAddr'[a] = byAddr[a] /\ sess'[byAddr[a]] = sess[byAddr[a]]
         /\ \A a \in Addr : quiet[a] <= TTL => byAddr'[a] = byAddr[a]
         /\ \A i \in Index : byIndex'[i] # Nil =>
              byIndex'[i] = byIndex[i] /\ sess'[byIndex[i]] = sess[byIndex[i]]
         /\ \A a \in Addr : \A i \in live[a] : Private(i) => byIndex'[i] = byIndex[i]
         /\ UNCHANGED <<live, last, quiet>>
  <1>t. TypeOK
    BY DEF RouteInv
  <1>u. /\ byAddr' = [a \in Addr |-> IF a \in Expired THEN Nil ELSE byAddr[a]]
        /\ byIndex' = [i \in Index |->
                         IF \E a \in Expired : sess[byAddr[a]].clientIndex = i
                         THEN Nil ELSE byIndex[i]]
        /\ sess' = [s \in Sid |-> IF Referenced(s, byAddr', byIndex') THEN sess[s] ELSE Unused]
        /\ UNCHANGED <<live, last, quiet>>
    BY DEF Gc, Collected, history
  <1>1. Unused \in Session
    BY SessionsAssumption DEF Unused, Session
  <1>2. TypeOK'
    BY <1>1, <1>u, <1>t DEF TypeOK
  <1>3. \A a \in Addr : byAddr'[a] # Nil =>
          byAddr'[a] = byAddr[a] /\ sess'[byAddr[a]] = sess[byAddr[a]]
    <2>. SUFFICES ASSUME NEW a \in Addr, byAddr'[a] # Nil
                  PROVE  byAddr'[a] = byAddr[a] /\ sess'[byAddr[a]] = sess[byAddr[a]]
      OBVIOUS
    <2>1. byAddr'[a] = byAddr[a] /\ byAddr[a] \in Sid
      BY <1>u, <1>t DEF TypeOK
    <2>2. Referenced(byAddr[a], byAddr', byIndex')
      BY <2>1 DEF Referenced
    <2>. QED  BY <2>1, <2>2, <1>u
  <1>4. \A a \in Addr : quiet[a] <= TTL => a \notin Expired
    <2>. SUFFICES ASSUME NEW a \in Addr, quiet[a] <= TTL, a \in Expired
                  PROVE  FALSE
      OBVIOUS
    <2>1. byAddr[a] \in Sid /\ sess[byAddr[a]].age <= quiet[a] /\ sess[byAddr[a]].age > TTL
      BY <1>t DEF RouteInv, ActiveSeen, Expired, TypeOK
    <2>2. sess[byAddr[a]].age \in 0 .. TTL + 1 /\ quiet[a] \in 0 .. TTL + 1
      BY <2>1, <1>t DEF TypeOK, Session
    <2>. QED  BY <2>1, <2>2, SessionsAssumption
  <1>5. \A i \in Index : byIndex'[i] # Nil =>
          byIndex'[i] = byIndex[i] /\ sess'[byIndex[i]] = sess[byIndex[i]]
    <2>. SUFFICES ASSUME NEW i \in Index, byIndex'[i] # Nil
                  PROVE  byIndex'[i] = byIndex[i] /\ sess'[byIndex[i]] = sess[byIndex[i]]
      OBVIOUS
    <2>1. byIndex'[i] = byIndex[i] /\ byIndex[i] \in Sid
      BY <1>u, <1>t DEF TypeOK
    <2>2. Referenced(byIndex[i], byAddr', byIndex')
      BY <2>1 DEF Referenced
    <2>. QED  BY <2>1, <2>2, <1>u
  <1>6. \A a \in Addr : \A i \in live[a] : Private(i) => byIndex'[i] = byIndex[i]
    <2>. SUFFICES ASSUME NEW a \in Addr, NEW i \in live[a], Private(i),
                         NEW b \in Expired, sess[byAddr[b]].clientIndex = i
                  PROVE  FALSE
      <3>1. \A a \in Addr : live[a] \subseteq Index
        BY <1>t DEF TypeOK
      <3>. QED  BY <3>1, <1>u
    <2>1. quiet[a] <= TTL /\ <<a, i>> \in Uses
      BY DEF RouteInv, LiveActive
    <2>2. b \in Addr /\ byAddr[b] # Nil
      BY DEF Expired
    <2>3. <<b, i>> \in Uses
      BY <2>2 DEF RouteInv, IndexUsed, Private
    <2>4. a = b
      BY <2>1, <2>2, <2>3 DEF Private
    <2>. QED  BY <2>1, <2>4, <1>4
  <1>. QED  BY <1>2, <1>3, <1>4, <1>5, <1>6, <1>u

\* A collection preserves the invariant.
LEMMA GcInv ==
  ASSUME RouteInv, Gc
  PROVE  RouteInv'
  <1>1. Owned' /\ IndexUsed'
    BY GcFacts DEF RouteInv, Owned, IndexUsed
  <1>2. Routed'
    BY GcFacts DEF RouteInv, Routed
  <1>3. ActiveSeen'
    BY GcFacts DEF RouteInv, ActiveSeen
  <1>4. LiveActive'
    BY GcFacts DEF RouteInv, LiveActive
  <1>5. LatestFiled'
    <2>. SUFFICES ASSUME NEW b \in Addr, last[b] # Nil, Private(last[b]), byIndex'[last[b]] # Nil
                  PROVE  byAddr'[b] # Nil /\ sess'[byAddr'[b]].clientIndex = last[b]
      BY GcFacts DEF RouteInv, LatestFiled, Private
    <2>0. last[b] \in Index
      BY DEF RouteInv, TypeOK
    <2>1. byIndex[last[b]] # Nil
      BY <2>0, GcFacts
    <2>2. byAddr[b] # Nil /\ sess[byAddr[b]].clientIndex = last[b]
      BY <2>1 DEF RouteInv, LatestFiled
    <2>3. b \notin Expired
      BY <2>0, <2>2 DEF Gc
    <2>4. byAddr'[b] = byAddr[b]
      BY <2>3 DEF Gc
    <2>. QED  BY <2>2, <2>4, GcFacts
  <1>6. ActiveClientRoutable'
    <2>. SUFFICES ASSUME NEW b \in Addr, NEW j \in live[b], Private(j)
                  PROVE  route'[j] = b
      BY GcFacts DEF ActiveClientRoutable, Private
    <2>1. j \in Index
      BY DEF RouteInv, TypeOK
    <2>2. byIndex[j] # Nil /\ sess[byIndex[j]].addr = b
      BY <2>1, SessionsAssumption DEF RouteInv, ActiveClientRoutable, route
    <2>3. byIndex'[j] = byIndex[j]
      BY GcFacts
    <2>. QED  BY <2>1, <2>2, <2>3, GcFacts DEF route
  <1>. QED  BY <1>1, <1>2, <1>3, <1>4, <1>5, <1>6, GcFacts DEF RouteInv

\* Ages stay in range.
LEMMA OlderRange ==
  ASSUME NEW n \in 0 .. TTL + 1
  PROVE  Older(n) \in 0 .. TTL + 1 /\ n <= Older(n) /\ (Older(n) <= TTL => n <= TTL)
  BY SessionsAssumption DEF Older

\* The passing of time preserves the invariant and changes no route: session
\* and client grow older together.
LEMMA TickInv ==
  ASSUME RouteInv, Tick
  PROVE  RouteInv' /\ route' = route
  <1>t. TypeOK
    BY DEF RouteInv
  <1>u. /\ quiet' = [a \in Addr |-> Older(quiet[a])]
        /\ live'  = [a \in Addr |-> IF quiet'[a] > TTL THEN {} ELSE live[a]]
        /\ UNCHANGED <<byAddr, byIndex, last>>
    BY DEF Tick
  <1>1. /\ sess' \in [Sid -> Session]
        /\ \A s \in Sid : /\ sess'[s].addr = sess[s].addr
                          /\ sess'[s].clientIndex = sess[s].clientIndex
                          /\ sess'[s].age = Older(sess[s].age)
    BY <1>t, OlderRange DEF Tick, TypeOK, Session
  <1>2. quiet' \in [Addr -> 0 .. TTL + 1]
    BY <1>t, <1>u, OlderRange DEF TypeOK
  <1>3. TypeOK'
    BY <1>1, <1>2, <1>u, <1>t DEF TypeOK
  <1>4. route' = route
    BY <1>1, <1>u, <1>t DEF route, TypeOK
  <1>5. Owned' /\ Routed' /\ IndexUsed'
    BY <1>1, <1>u, <1>t DEF RouteInv, TypeOK, Owned, Routed, IndexUsed
  <1>6. ActiveSeen'
    <2>. SUFFICES ASSUME NEW b \in Addr, quiet'[b] <= TTL
                  PROVE  byAddr[b] # Nil /\ sess'[byAddr[b]].age <= quiet'[b]
      BY <1>u DEF ActiveSeen
    <2>1. quiet[b] \in 0 .. TTL + 1 /\ quiet'[b] = Older(quiet[b])
      BY <1>t, <1>u DEF TypeOK
    <2>2. quiet[b] <= TTL
      BY <2>1, OlderRange
    <2>3. byAddr[b] # Nil /\ byAddr[b] \in Sid /\ sess[byAddr[b]].age <= quiet[b]
      BY <2>2, <1>t DEF RouteInv, ActiveSeen, TypeOK
    <2>4. sess[byAddr[b]].age \in 0 .. TTL + 1
      BY <2>3, <1>t DEF TypeOK, Session
    <2>5. Older(sess[byAddr[b]].age) <= Older(quiet[b])
      BY <2>1, <2>2, <2>3, <2>4, SessionsAssumption DEF Older
    <2>. QED  BY <2>1, <2>3, <2>5, <1>1
  <1>7. LiveActive'
    <2>. SUFFICES ASSUME NEW b \in Addr, NEW j \in live'[b]
                  PROVE  quiet'[b] <= TTL /\ <<b, j>> \in Uses
      BY DEF LiveActive
    <2>1. ~(quiet'[b] > TTL) /\ j \in live[b]
      BY <1>u
    <2>2. quiet'[b] \in 0 .. TTL + 1
      BY <1>2
    <2>. QED  BY <2>1, <2>2, SessionsAssumption DEF RouteInv, LiveActive
  <1>8. LatestFiled'
    BY <1>1, <1>u, <1>t DEF RouteInv, TypeOK, LatestFiled, Private
  <1>9. ActiveClientRoutable'
    BY <1>4, <1>u DEF RouteInv, ActiveClientRoutable, Private
  <1>. QED  BY <1>3, <1>4, <1>5, <1>6, <1>7, <1>8, <1>9 DEF RouteInv

-----------------------------------------------------------------------------

\* Every operation of the table preserves the invariant.
LEMMA RouteStep == RouteInv /\ [TableNext]_tableVars => RouteInv'
  <1>. SUFFICES ASSUME RouteInv, [TableNext]_tableVars
                PROVE  RouteInv'
    OBVIOUS
  <1>1. CASE \E a \in Addr, i \in Index : ClientInit(a, i)
    BY <1>1, ClientInitInv
  <1>2. CASE \E a \in Addr : ClientTraffic(a)
    BY <1>2, ClientTrafficInv
  <1>3. CASE \E a \in Addr, k \in Key : SetPub(a, k)
    BY <1>3, SetPubInv
  <1>4. CASE \E i \in Index : ResponseTargets(i)
    BY <1>4, ResponseTargetsInv
  <1>5. CASE Gc
    BY <1>5, GcInv
  <1>6. CASE Tick
    BY <1>6, TickInv
  <1>7. CASE UNCHANGED tableVars
    BY <1>7 DEF tableVars, RouteInv, TypeOK, Owned, Routed, ActiveSeen, LiveActive,
                IndexUsed, LatestFiled, ActiveClientRoutable, route, Private
  <1>. QED  BY <1>1, <1>2, <1>3, <1>4, <1>5, <1>6, <1>7 DEF TableNext

\* RouteInv holds in every state of the table (sessions.go:46-108).
THEOREM Invariance == TableSpec => []RouteInv
BY InitInv, RouteStep, PTL DEF TableSpec

\* The table's fields keep the types the code declares for them.
THEOREM TypeCorrect == TableSpec => []TypeOK
  <1>1. RouteInv => TypeOK
    BY DEF RouteInv
  <1>. QED  BY <1>1, Invariance, PTL

\* A client heard from once per TTL keeps the reply route of every handshake
\* it made in that time, whatever the other clients and the collector do.
THEOREM Routable == TableSpec => []ActiveClientRoutable
  <1>1. RouteInv => ActiveClientRoutable
    BY DEF RouteInv
  <1>. QED  BY <1>1, Invariance, PTL

\* A collected client's latest handshake is not routed any more.
THEOREM Unroutable == TableSpec => []CollectedClientUnroutable
  <1>1. RouteInv => CollectedClientUnroutable
    BY DEF RouteInv, LatestFiled, CollectedClientUnroutable
  <1>. QED  BY <1>1, Invariance, PTL

-----------------------------------------------------------------------------
(* The table implements ReplyRouting.                                        *)

\* A handshake initiation moves the route of its index and no other.
LEMMA ClientInitRoute ==
  ASSUME RouteInv, NEW a \in Addr, NEW i \in Index, ClientInit(a, i)
  PROVE  route' = [route EXCEPT ![i] = a]
  <1>. PICK s \in Sid :
         /\ GetLocked(a, s)
         /\ byAddr'  = [byAddr EXCEPT ![a] = s]
         /\ byIndex' = [byIndex EXCEPT ![i] = s]
         /\ sess' = Collected(
              [sess EXCEPT ![s] = [Got(a) EXCEPT !.clientIndex = i, !.age = 0]],
              byAddr', byIndex')
    BY DEF ClientInit
  <1>. DEFINE h == [sess EXCEPT ![s] = [Got(a) EXCEPT !.clientIndex = i, !.age = 0]]
  <1>t. TypeOK
    BY DEF RouteInv
  <1>g. /\ Got(a) \in Session /\ Got(a).addr = a
        /\ byAddr[a] # Nil => Got(a) = sess[s]
        /\ byAddr[a] = Nil => \A j \in Index : byIndex[j] # s
    BY GetLockedFacts DEF RouteInv
  <1>1. h[s].addr = a /\ \A r \in Sid : r # s => h[r] = sess[r]
    BY <1>g, <1>t DEF TypeOK, Session
  <1>2. sess' = [r \in Sid |-> IF Referenced(r, byAddr', byIndex') THEN h[r] ELSE Unused]
    BY DEF Collected
  <1>. HIDE DEF h
  <1>3. byIndex'[i] = s /\ \A j \in Index : j # i => byIndex'[j] = byIndex[j]
    BY <1>t DEF TypeOK
  <1>4. route'[i] = a
    <2>1. Referenced(s, byAddr', byIndex')
      BY <1>3 DEF Referenced
    <2>. QED  BY <2>1, <1>1, <1>2, <1>3, SessionsAssumption DEF route
  <1>5. \A j \in Index : j # i => route'[j] = route[j]
    <2>. SUFFICES ASSUME NEW j \in Index, j # i, byIndex[j] # Nil
                  PROVE  sess'[byIndex[j]].addr = sess[byIndex[j]].addr
      BY <1>3 DEF route
    <2>1. byIndex[j] \in Sid /\ Referenced(byIndex[j], byAddr', byIndex')
      BY <1>3, <1>t DEF TypeOK, Referenced
    <2>2. CASE byIndex[j] = s
      BY <2>1, <2>2, <1>1, <1>2, <1>g
    <2>3. CASE byIndex[j] # s
      BY <2>1, <2>3, <1>1, <1>2
    <2>. QED  BY <2>2, <2>3
  <1>6. route' = [j \in Index |-> route'[j]] /\ route = [j \in Index |-> route[j]]
    BY DEF route
  <1>. QED  BY <1>4, <1>5, <1>6

\* A collection only forgets, and never a claim of an active client.
LEMMA GcRoute ==
  ASSUME RouteInv, Gc
  PROVE  \E F \in SUBSET Index : Promise!Forget(F)
  <1>. DEFINE F == {i \in Index : byIndex'[i] = Nil}
  <1>1. F \in SUBSET Index
    OBVIOUS
  <1>2. route' = [i \in Index |-> IF i \in F THEN Nil ELSE route[i]]
    BY GcFacts DEF route
  <1>3. \A a \in Addr : \A i \in live[a] \intersect F : ~Private(i)
    <2>. SUFFICES ASSUME NEW a \in Addr, NEW i \in live[a], i \in F, Private(i)
                  PROVE  FALSE
      OBVIOUS
    <2>1. byIndex[i] # Nil
      BY SessionsAssumption DEF RouteInv, ActiveClientRoutable, route
    <2>. QED  BY <2>1, GcFacts
  <1>4. UNCHANGED <<live, quiet>>
    BY GcFacts
  <1>5. Promise!Forget(F)
    BY <1>2, <1>3, <1>4 DEF Promise!Forget, Promise!Private, Private
  <1>. QED  BY <1>1, <1>5

\* sessions.go implements ReplyRouting: each operation of the table is a step
\* of the promise or changes nothing the promise speaks of.
THEOREM Implements == TableSpec => PromiseSpec
  <1>1. TableInit => Promise!Init
    BY DEF TableInit, Promise!Init, route
  <1>2. RouteInv /\ [TableNext]_tableVars => [Promise!Next]_Promise!vars
    <2>. SUFFICES ASSUME RouteInv, [TableNext]_tableVars
                  PROVE  Promise!Next \/ UNCHANGED Promise!vars
      OBVIOUS
    <2>1. ASSUME NEW a \in Addr, NEW i \in Index, ClientInit(a, i)
          PROVE  Promise!Register(a, i)
      BY <2>1, ClientInitRoute DEF ClientInit, Promise!Register
    <2>2. ASSUME NEW a \in Addr, ClientTraffic(a)
          PROVE  Promise!Traffic(a)
      BY <2>2, ClientTrafficInv DEF ClientTraffic, Promise!Traffic
    <2>3. ASSUME NEW a \in Addr, NEW k \in Key, SetPub(a, k)
          PROVE  UNCHANGED Promise!vars
      BY <2>3, SetPubInv DEF SetPub, history, Promise!vars
    <2>4. ASSUME NEW i \in Index, ResponseTargets(i)
          PROVE  UNCHANGED Promise!vars
      BY <2>4, ResponseTargetsInv DEF ResponseTargets, history, Promise!vars
    <2>5. ASSUME Gc
          PROVE  \E F \in SUBSET Index : Promise!Forget(F)
      BY <2>5, GcRoute
    <2>6. ASSUME Tick
          PROVE  Promise!Elapse
      BY <2>6, TickInv DEF Tick, Promise!Elapse, Older, Promise!Older
    <2>7. ASSUME UNCHANGED tableVars
          PROVE  UNCHANGED Promise!vars
      BY <2>7 DEF tableVars, Promise!vars, route
    <2>. QED  BY <2>1, <2>2, <2>3, <2>4, <2>5, <2>6, <2>7 DEF TableNext, Promise!Next
  <1>. QED  BY <1>1, <1>2, Invariance, PTL DEF TableSpec, PromiseSpec, Promise!Spec

-----------------------------------------------------------------------------
(* The loops.                                                               *)

\* Which packet a loop holds at which step, and the peers it was read with.
Holding ==
  /\ cpc \in {"register", "identify"} => cpkt \in Inits
  /\ cpc = "touch" => cpkt \in Others
  /\ spc = "lookup" => rsnap \in SUBSET Key

ProxyInv == RouteInv /\ ProxyTypeOK /\ Holding

\* An initiation comes from an address with an index used there; what is no
\* initiation is not taken for one.
LEMMA PacketFacts ==
  /\ \A p \in Inits : /\ p.type = "init" /\ p.addr \in Addr /\ p.index \in Index
                      /\ <<p.addr, p.index>> \in Uses
  /\ \A p \in Others : p.type \in {"transport", "other"} /\ p.addr \in Addr
BY SessionsAssumption DEF Inits, Others

\* The loops of server.go start at their reads, with an empty table.
LEMMA ProxyInitInv == ProxyInit => ProxyInv
<1> SUFFICES ASSUME ProxyInit PROVE ProxyInv
  OBVIOUS
<1>1. RouteInv
  BY InitInv DEF ProxyInit
<1>2. router \in Config /\ changes \in 0 .. MaxChanges
  BY ServerProxyAssumption DEF ProxyInit, Config
<1> QED
  BY <1>1, <1>2 DEF ProxyInit, ProxyInv, ProxyTypeOK, Holding

\* What the loops do to the session table are operations of the table.
LEMMA TableUse == ProxyInv /\ [ProxyNext]_vars => [TableNext]_tableVars
<1> SUFFICES ASSUME ProxyInv, [ProxyNext]_vars PROVE [TableNext]_tableVars
  OBVIOUS
<1> USE DEF TableNext
<1>1. CASE ClientRegister
  BY <1>1, PacketFacts DEF ClientRegister, ProxyInv, Holding
<1>2. CASE ClientIdentify
  BY <1>2, PacketFacts, ServerProxyAssumption DEF ClientIdentify, ProxyInv, Holding
<1>3. CASE ClientTouch
  BY <1>3, PacketFacts DEF ClientTouch, ProxyInv, Holding
<1>4. CASE ServerLookup
  <2>1. rpkt \in Replies
    BY <1>4 DEF ServerLookup, ProxyInv, ProxyTypeOK
  <2> QED
    BY <1>4, <2>1 DEF ServerLookup, Replies
<1>5. CASE Collect
  BY <1>5 DEF Collect
<1>6. CASE TimePasses
  BY <1>6 DEF TimePasses
<1>7. CASE UNCHANGED tableVars
  BY <1>7
<1>8. \/ ClientRegister \/ ClientIdentify \/ ClientTouch \/ ServerLookup
      \/ Collect \/ TimePasses \/ UNCHANGED tableVars
  BY DEF ProxyNext, vars, RouterChange, PollIface, PollPeers, PollFails, ClientRead,
         ClientForward, ServerRead, ServerDrop, ServerSend
<1> QED
  BY <1>1, <1>2, <1>3, <1>4, <1>5, <1>6, <1>7, <1>8

\* Of the steps of the router and the poller.
LEMMA RouterKeepsTypes ==
  ASSUME ProxyInv,
         (\E c \in Config : RouterChange(c)) \/ PollIface \/ PollPeers \/ PollFails
  PROVE  ProxyTypeOK' /\ Holding'
<1> USE DEF ProxyInv, ProxyTypeOK, Holding, clientVars, serverVars, netVars, routerVars, pollVars
<1>1. ASSUME NEW c \in Config, RouterChange(c) PROVE ProxyTypeOK' /\ Holding'
  <2>1. changes' \in 0 .. MaxChanges
    BY <1>1, ServerProxyAssumption DEF RouterChange
  <2> QED
    BY <1>1, <2>1 DEF RouterChange
<1>2. CASE PollIface
  BY <1>2 DEF PollIface, Config
<1>3. CASE PollPeers
  BY <1>3 DEF PollPeers, Config
<1>4. CASE PollFails
  BY <1>4 DEF PollFails
<1> QED
  BY <1>1, <1>2, <1>3, <1>4

\* Of the steps of clientLoop.
LEMMA ClientLoopKeepsTypes ==
  ASSUME ProxyInv,
         \/ \E p \in Inits \union Others : ClientRead(p)
         \/ ClientRegister \/ ClientIdentify \/ ClientTouch
         \/ \E reaches \in BOOLEAN : ClientForward(reaches)
  PROVE  ProxyTypeOK' /\ Holding'
<1> USE DEF ProxyInv, ProxyTypeOK, Holding, serverVars, netVars, routerVars, pollVars
<1>1. ASSUME NEW p \in Inits \union Others, ClientRead(p) PROVE ProxyTypeOK' /\ Holding'
  <2>1. csnap' \in [ver : 0 .. MaxVer, priv : BOOLEAN]
    BY <1>1 DEF ClientRead, Config
  <2>2. \/ p \in Inits /\ cpc' = "register"
        \/ p \in Others /\ cpc' \in {"touch", "forward"}
    BY <1>1, PacketFacts DEF ClientRead
  <2>3. cpkt' = p /\ p # Nil
    BY <1>1, PacketAssumption DEF ClientRead
  <2> QED
    BY <1>1, <2>1, <2>2, <2>3 DEF ClientRead
<1>2. CASE ClientRegister
  BY <1>2 DEF ClientRegister
<1>3. CASE ClientIdentify
  BY <1>3, PacketFacts DEF ClientIdentify
<1>4. CASE ClientTouch
  BY <1>4 DEF ClientTouch
<1>5. ASSUME NEW reaches \in BOOLEAN, ClientForward(reaches) PROVE ProxyTypeOK' /\ Holding'
  <2>1. accepted' \subseteq Index
    <3>1. Acceptable(cpkt) => cpkt \in Inits
      BY <1>5, PacketFacts DEF ClientForward, Acceptable
    <3> QED
      BY <1>5, <3>1, PacketFacts DEF ClientForward
  <2> QED
    BY <1>5, <2>1 DEF ClientForward
<1> QED
  BY <1>1, <1>2, <1>3, <1>4, <1>5

\* Of the steps of serverLoop, the collector and the clock.
LEMMA ServerLoopKeepsTypes ==
  ASSUME ProxyInv,
         \/ \E r \in Replies : ServerRead(r)
         \/ ServerLookup \/ ServerDrop \/ ServerSend \/ Collect \/ TimePasses
  PROVE  ProxyTypeOK' /\ Holding'
<1> USE DEF ProxyInv, ProxyTypeOK, Holding, clientVars, netVars, routerVars, pollVars
<1>1. ASSUME NEW r \in Replies, ServerRead(r) PROVE ProxyTypeOK' /\ Holding'
  <2>1. rsnap' \in SUBSET Key
    BY <1>1 DEF ServerRead, Config
  <2>2. rpkt' = r /\ r # Nil
    BY <1>1, PacketAssumption DEF ServerRead
  <2> QED
    BY <1>1, <2>1, <2>2 DEF ServerRead
<1>2. CASE ServerLookup
  <2> DEFINE s == byIndex[rpkt.index]
  <2>1. rpkt.index \in Index /\ s # Nil /\ rsnap \in SUBSET Key
    BY <1>2 DEF ServerLookup, ResponseTargets, Replies
  <2>2. s \in Sid /\ sess[s].addr \in Addr /\ sess[s].pub \in Key \union {Nil}
    BY <2>1 DEF RouteInv, TypeOK, Routed, Session
  <2>3. raddr' \in Addr /\ raddr' # Nil
    BY <1>2, <2>2, SessionsAssumption DEF ServerLookup
  <2>4. rkeys' \subseteq Key \union {Nil}
    BY <1>2, <2>1, <2>2 DEF ServerLookup, TargetKeys
  <2> QED
    BY <1>2, <2>3, <2>4 DEF ServerLookup
<1>3. CASE ServerDrop
  BY <1>3 DEF ServerDrop
<1>4. CASE ServerSend
  BY <1>4 DEF ServerSend
<1>5. CASE Collect
  BY <1>5 DEF Collect, serverVars
<1>6. CASE TimePasses
  BY <1>6 DEF TimePasses, serverVars
<1> QED
  BY <1>1, <1>2, <1>3, <1>4, <1>5, <1>6

\* Every step of clientLoop, serverLoop, the collector and the poller keeps the
\* proxy's types and the table's invariant.
LEMMA ProxyStep == ProxyInv /\ [ProxyNext]_vars => ProxyInv'
<1> SUFFICES ASSUME ProxyInv, [ProxyNext]_vars PROVE ProxyInv'
  OBVIOUS
<1>1. RouteInv'
  BY TableUse, RouteStep DEF ProxyInv
<1>2. CASE UNCHANGED vars
  BY <1>1, <1>2 DEF vars, clientVars, serverVars, netVars, routerVars, pollVars,
                    ProxyInv, ProxyTypeOK, Holding
<1> QED
  BY <1>1, <1>2, RouterKeepsTypes, ClientLoopKeepsTypes, ServerLoopKeepsTypes DEF ProxyNext, ProxyInv

\* ProxyInv holds in all reachable states.
LEMMA ProxyInvariance == ProxySpec => []ProxyInv
BY ProxyInitInv, ProxyStep, PTL DEF ProxySpec

\* Type correctness; in particular a reply has an address to go to exactly
\* while it is on its way (server.go:71-99, 107-133).
THEOREM ProxyTypeCorrect == ProxySpec => []ProxyTypeOK
<1>1. ProxyInv => ProxyTypeOK
  BY DEF ProxyInv
<1> QED
  BY <1>1, ProxyInvariance, PTL

\* The loops use the table as module Sessions has it, so all that is proved of
\* the table holds in the proxy (server.go:68-134).
THEOREM ProxyUsesTable == ProxySpec => TableSpec
<1>1. ProxyInit => TableInit
  BY DEF ProxyInit
<1> QED
  BY <1>1, ProxyInvariance, TableUse, PTL DEF ProxySpec, TableSpec

\* The proxy keeps the promise about reply routes too (sessions.go:46-108).
THEOREM ProxyKeepsPromise == ProxySpec => PromiseSpec
BY ProxyUsesTable, Implements, PTL

-----------------------------------------------------------------------------
(* Answers to what was forwarded find their client.                         *)

\* A handshake the WG server accepted is one its client still has a claim on,
\* unless the client fell silent since; and so is one about to be forwarded.
Claimed ==
  /\ \A i \in accepted \ lapsed : \A a \in Addr :
       <<a, i>> \in Uses /\ Private(i) => i \in live[a]
  /\ cpc \in {"identify", "forward"} /\ cpkt.type = "init" /\ cpkt.index \notin lapsed
       => cpkt.index \in live[cpkt.addr]

ClaimInv == ProxyInv /\ Claimed

\* What was forwarded to WireGuard stays entered in the table: clientLoop enters an
\* initiation before it forwards it, and only the collector forgets.
LEMMA ClaimStep == ClaimInv /\ [ProxyNext]_vars => Claimed'
<1> SUFFICES ASSUME ClaimInv, [ProxyNext]_vars PROVE Claimed'
  OBVIOUS
<1> USE DEF ClaimInv, Claimed, Private
<1>1. ASSUME NEW p \in Inits \union Others, ClientRead(p) PROVE Claimed'
  <2>1. cpkt' = p /\ (cpc' = "forward" => p.type # "init")
        /\ cpc' \in {"register", "touch", "forward"}
    BY <1>1, PacketFacts DEF ClientRead
  <2>2. UNCHANGED <<tableVars, netVars>>
    BY <1>1 DEF ClientRead
  <2> QED
    BY <2>1, <2>2 DEF tableVars, netVars
<1>2. CASE ClientRegister
  <2> DEFINE a == cpkt.addr
             i == cpkt.index
  <2>1. a \in Addr /\ i \in Index /\ <<a, i>> \in Uses
    BY <1>2, PacketFacts DEF ClientRegister, ProxyInv, Holding
  <2>2. live' = [live EXCEPT ![a] = @ \union {i}] /\ live \in [Addr -> SUBSET Index]
    BY <1>2 DEF ClientRegister, ClientInit, ProxyInv, RouteInv, TypeOK
  <2>3. i \in live'[a] /\ \A b \in Addr : live[b] \subseteq live'[b]
    BY <2>1, <2>2
  <2>4. lapsed' = lapsed \ {i} /\ UNCHANGED <<cpkt, accepted>>
    BY <1>2 DEF ClientRegister
  <2> HIDE DEF a, i
  <2>5. ASSUME NEW j \in accepted' \ lapsed', NEW b \in Addr, <<b, j>> \in Uses, Private(j)
        PROVE  j \in live'[b]
    <3>1. CASE j = i
      BY <3>1, <2>1, <2>3, <2>5
    <3>2. CASE j # i
      BY <3>2, <2>3, <2>4, <2>5
    <3> QED
      BY <3>1, <3>2
  <2>6. cpkt'.index = i /\ cpkt'.addr = a
    BY <2>4 DEF a, i
  <2> QED
    BY <2>3, <2>5, <2>6
<1>3. CASE ClientIdentify
  BY <1>3 DEF ClientIdentify, SetPub, history
<1>4. CASE ClientTouch
  BY <1>4, PacketFacts DEF ClientTouch, ClientTraffic, netVars, ProxyInv, Holding
<1>5. ASSUME NEW reaches \in BOOLEAN, ClientForward(reaches) PROVE Claimed'
  <2> DEFINE i == cpkt.index
  <2>1. accepted' = accepted \/ (accepted' = accepted \union {i} /\ cpkt.type = "init")
    BY <1>5 DEF ClientForward, Acceptable
  <2>2. cpkt.type = "init" => cpkt \in Inits
    BY <1>5, PacketFacts DEF ClientForward, ProxyInv, ProxyTypeOK
  <2>3. cpc = "forward" /\ cpc' = "read" /\ UNCHANGED <<live, lapsed>>
    BY <1>5 DEF ClientForward, tableVars
  <2>4. ASSUME NEW j \in accepted' \ lapsed', NEW b \in Addr, <<b, j>> \in Uses, Private(j)
        PROVE  j \in live'[b]
    <3>1. CASE j \in accepted
      BY <3>1, <2>3, <2>4
    <3>2. CASE j \notin accepted
      <4>1. cpkt \in Inits /\ j = cpkt.index /\ cpkt.type = "init"
        BY <3>2, <2>1, <2>2
      <4>2. cpkt.addr = b
        BY <4>1, <2>4, PacketFacts
      <4> QED
        BY <4>1, <4>2, <2>3, <2>4
    <3> QED
      BY <3>1, <3>2
  <2> QED
    BY <2>3, <2>4
<1>6. CASE TimePasses
  <2>1. /\ lapsed' = lapsed \union {i \in Index : \E a \in Addr : <<a, i>> \in Uses /\ quiet'[a] > TTL}
        /\ live' = [a \in Addr |-> IF quiet'[a] > TTL THEN {} ELSE live[a]]
        /\ UNCHANGED <<clientVars, accepted>>
    BY <1>6 DEF TimePasses, Tick
  <2>2. \A a \in Addr, i \in Index : <<a, i>> \in Uses /\ i \notin lapsed' /\ i \in live[a] => i \in live'[a]
    BY <2>1
  <2>3. accepted \subseteq Index
    BY DEF ProxyInv, ProxyTypeOK
  <2>4. cpc \in {"identify", "forward"} /\ cpkt.type = "init" => cpkt \in Inits
    BY PacketFacts DEF ProxyInv, ProxyTypeOK, Holding
  <2>5. lapsed \subseteq lapsed'
    BY <2>1
  <2> QED
    BY <2>1, <2>2, <2>3, <2>4, <2>5, PacketFacts DEF clientVars
<1>7. CASE ServerLookup
  BY <1>7 DEF ServerLookup, ResponseTargets, history, clientVars, netVars
<1>8. CASE Collect
  BY <1>8 DEF Collect, Gc, history, clientVars, netVars
<1>9. CASE UNCHANGED <<tableVars, clientVars, netVars>>
  BY <1>9 DEF tableVars, clientVars, netVars
<1>10. \/ \E p \in Inits \union Others : ClientRead(p)
       \/ ClientRegister \/ ClientIdentify \/ ClientTouch
       \/ \E reaches \in BOOLEAN : ClientForward(reaches)
       \/ TimePasses \/ ServerLookup \/ Collect \/ UNCHANGED <<tableVars, clientVars, netVars>>
  BY DEF ProxyNext, vars, RouterChange, PollIface, PollPeers, PollFails, ServerRead,
         ServerDrop, ServerSend
<1> QED
  BY <1>1, <1>2, <1>3, <1>4, <1>5, <1>6, <1>7, <1>8, <1>9, <1>10

\* An answer of the WG server to anything clientLoop ever forwarded is routed
\* to the client that sent it, until that client has been silent for longer
\* than TTL; whatever other clients send meanwhile and whenever the collector
\* runs (server.go:84-99, sessions.go:46-108).
THEOREM ForwardedAreRoutable == ProxySpec => []ForwardedRoutable
<1>1. ProxyInit => ClaimInv
  BY ProxyInitInv DEF ProxyInit, ClaimInv, Claimed
<1>2. ClaimInv /\ [ProxyNext]_vars => ClaimInv'
  BY ProxyStep, ClaimStep DEF ClaimInv
<1>3. ClaimInv => ForwardedRoutable
  BY DEF ClaimInv, Claimed, ProxyInv, RouteInv, ActiveClientRoutable, ForwardedRoutable
<1> QED
  BY <1>1, <1>2, <1>3, PTL DEF ProxySpec

-----------------------------------------------------------------------------
(* The key a response is sent with.                                         *)

\* A key a session may know: of a client that uses the session's address.
OwnPub(x) == x.pub = Nil \/ \E j \in Index : <<x.addr, j>> \in Uses /\ x.pub = Author[j]

\* While an initiation that was opened waits for its key to be stored, it is
\* the latest of its address, and its index leads to the session the key will
\* be stored in, or nowhere if the collector has been there.
Identifying ==
  cpc = "identify" =>
    /\ last[cpkt.addr] = cpkt.index
    /\ \/ byIndex[cpkt.index] = Nil
       \/ /\ byIndex[cpkt.index] = byAddr[cpkt.addr]
          /\ sess[byAddr[cpkt.addr]].clientIndex = cpkt.index

\* The latest handshake of an address, once decrypted, leads to the key of its
\* author and no other.
OpenedKeyed ==
  \A i \in opened : \A a \in Addr :
    last[a] = i /\ byIndex[i] # Nil /\ sess[byIndex[i]].addr = a
      => sess[byIndex[i]].pub = Author[i]

KeyInv ==
  /\ ProxyInv
  /\ \A s \in Sid : OwnPub(sess[s])
  /\ Identifying
  /\ OpenedKeyed

\* What clientInit does to the sessions and the indices.
LEMMA RegisterFacts ==
  ASSUME RouteInv, NEW a \in Addr, NEW i \in Index, ClientInit(a, i)
  PROVE  \E s \in Sid :
           /\ byAddr'[a] = s /\ byIndex'[i] = s
           /\ sess'[s].addr = a /\ sess'[s].clientIndex = i /\ sess'[s].pub = Got(a).pub
           /\ \A r \in Sid : r # s => sess'[r] \in {sess[r], Unused}
           /\ \A j \in Index : j # i =>
                /\ byIndex'[j] = byIndex[j]
                /\ byIndex[j] \notin {Nil, s} => sess'[byIndex[j]] = sess[byIndex[j]]
<1> PICK s \in Sid :
      /\ GetLocked(a, s)
      /\ byAddr'  = [byAddr EXCEPT ![a] = s]
      /\ byIndex' = [byIndex EXCEPT ![i] = s]
      /\ sess' = Collected(
           [sess EXCEPT ![s] = [Got(a) EXCEPT !.clientIndex = i, !.age = 0]],
           byAddr', byIndex')
  BY DEF ClientInit
<1> DEFINE h == [sess EXCEPT ![s] = [Got(a) EXCEPT !.clientIndex = i, !.age = 0]]
<1>1. TypeOK /\ Got(a) \in Session /\ Got(a).addr = a
  BY GetLockedFacts DEF RouteInv
<1>2. /\ h[s].addr = a /\ h[s].clientIndex = i /\ h[s].pub = Got(a).pub
      /\ \A r \in Sid : r # s => h[r] = sess[r]
  BY <1>1 DEF TypeOK, Session
<1>3. sess' = [r \in Sid |-> IF Referenced(r, byAddr', byIndex') THEN h[r] ELSE Unused]
  BY DEF Collected
<1> HIDE DEF h
<1>4. /\ byAddr'[a] = s /\ byIndex'[i] = s
      /\ \A j \in Index : j # i => byIndex'[j] = byIndex[j]
  BY <1>1 DEF TypeOK
<1>5. Referenced(s, byAddr', byIndex')
  BY <1>4 DEF Referenced
<1>6. \A j \in Index : j # i /\ byIndex[j] # Nil => byIndex[j] \in Sid /\ Referenced(byIndex[j], byAddr', byIndex')
  BY <1>1, <1>4 DEF Referenced, TypeOK
<1>7. sess'[s] = h[s] /\ \A r \in Sid : r # s => sess'[r] \in {sess[r], Unused}
  BY <1>2, <1>3, <1>5
<1>8. \A j \in Index : j # i /\ byIndex[j] \notin {Nil, s} => sess'[byIndex[j]] = sess[byIndex[j]]
  BY <1>2, <1>3, <1>6
<1> QED
  BY <1>2, <1>4, <1>7, <1>8

\* A session that is new, or filed under a, knows only keys used at a.
LEMMA GotOwnPub ==
  ASSUME RouteInv, NEW a \in Addr, NEW s \in Sid, GetLocked(a, s), \A r \in Sid : OwnPub(sess[r])
  PROVE  OwnPub(Got(a))
<1>1. /\ byAddr[a] # Nil => s = byAddr[a] /\ Got(a) = sess[s]
      /\ byAddr[a] = Nil => Got(a) = NewSession(a)
  BY GetLockedFacts DEF RouteInv
<1> QED
  BY <1>1 DEF OwnPub, NewSession

\* Of clientInit: the initiation counts as not decrypted yet.
LEMMA RegisterKeepsKeys ==
  ASSUME KeyInv, ClientRegister
  PROVE  (\A s \in Sid : OwnPub(sess[s]))' /\ Identifying' /\ OpenedKeyed'
<1> DEFINE a == cpkt.addr
           i == cpkt.index
<1>1. RouteInv /\ a \in Addr /\ i \in Index /\ ClientInit(a, i)
  BY PacketFacts DEF ClientRegister, KeyInv, ProxyInv, Holding
<1>2. /\ opened' = opened \ {i} /\ last' = [last EXCEPT ![a] = i]
      /\ cpkt' = cpkt /\ opened \subseteq Index /\ last \in [Addr -> Index \union {Nil}]
  BY DEF ClientRegister, ClientInit, KeyInv, ProxyInv, ProxyTypeOK, RouteInv, TypeOK
<1> HIDE DEF a, i
<1>3. PICK s \in Sid :
        /\ byAddr'[a] = s /\ byIndex'[i] = s
        /\ sess'[s].addr = a /\ sess'[s].clientIndex = i /\ sess'[s].pub = Got(a).pub
        /\ \A r \in Sid : r # s => sess'[r] \in {sess[r], Unused}
        /\ \A j \in Index : j # i =>
             /\ byIndex'[j] = byIndex[j]
             /\ byIndex[j] \notin {Nil, s} => sess'[byIndex[j]] = sess[byIndex[j]]
  BY <1>1, RegisterFacts
<1>4. \A r \in Sid : OwnPub(sess'[r])
  <2>1. PICK q \in Sid : GetLocked(a, q)
    BY <1>1 DEF ClientInit
  <2>2. OwnPub(Got(a)) /\ Got(a).addr = a
    BY <1>1, <2>1, GotOwnPub, GetLockedFacts DEF KeyInv, RouteInv
  <2>3. OwnPub(sess'[s])
    BY <1>3, <2>2 DEF OwnPub
  <2>4. OwnPub(Unused)
    BY DEF OwnPub, Unused
  <2> QED
    BY <1>3, <2>3, <2>4 DEF KeyInv
<1>5. Identifying'
  BY <1>1, <1>2, <1>3 DEF Identifying, a, i
<1>6. OpenedKeyed'
  <2> SUFFICES ASSUME NEW j \in opened', NEW b \in Addr,
                      last'[b] = j, byIndex'[j] # Nil, sess'[byIndex'[j]].addr = b
               PROVE  sess'[byIndex'[j]].pub = Author[j]
    BY DEF OpenedKeyed
  <2>1. j \in opened /\ j # i /\ j \in Index
    BY <1>2
  <2>2. b # a /\ last[b] = j
    BY <1>1, <1>2, <2>1
  <2>3. byIndex'[j] = byIndex[j] /\ byIndex[j] # s
    BY <1>3, <2>1, <2>2
  <2>4. sess'[byIndex[j]] = sess[byIndex[j]]
    BY <1>3, <2>1, <2>3
  <2> QED
    BY <2>1, <2>2, <2>3, <2>4 DEF KeyInv, OpenedKeyed
<1> QED
  BY <1>4, <1>5, <1>6

\* Of setPub: the key of the author of the initiation just registered.
LEMMA IdentifyKeepsKeys ==
  ASSUME KeyInv, ClientIdentify
  PROVE  (\A s \in Sid : OwnPub(sess[s]))' /\ Identifying' /\ OpenedKeyed'
<1> DEFINE a == cpkt.addr
           i == cpkt.index
<1>1. RouteInv /\ a \in Addr /\ i \in Index /\ <<a, i>> \in Uses
  BY PacketFacts DEF ClientIdentify, KeyInv, ProxyInv, Holding
<1>2. /\ last[a] = i
      /\ byIndex[i] = Nil \/ byIndex[i] = byAddr[a]
  BY DEF ClientIdentify, KeyInv, Identifying
<1>3. /\ opened' = opened \union {i} /\ cpc' = "forward" /\ UNCHANGED <<last, byIndex>>
      /\ opened \subseteq Index
  BY DEF ClientIdentify, SetPub, history, KeyInv, ProxyInv, ProxyTypeOK
<1>4. PICK s \in Sid :
        /\ GetLocked(a, s)
        /\ byAddr' = [byAddr EXCEPT ![a] = s]
        /\ sess' = [sess EXCEPT ![s] = [Got(a) EXCEPT !.pub = Author[i]]]
  BY DEF ClientIdentify, SetPub
<1> HIDE DEF a, i
<1>5. /\ Got(a).addr = a /\ Got(a) \in Session
      /\ byAddr[a] # Nil => s = byAddr[a]
      /\ byAddr[a] = Nil => \A j \in Index : byIndex[j] # s
  BY <1>1, <1>4, GetLockedFacts DEF RouteInv
<1>6. /\ sess'[s].addr = a /\ sess'[s].pub = Author[i]
      /\ \A r \in Sid : r # s => sess'[r] = sess[r]
  BY <1>1, <1>4, <1>5 DEF RouteInv, TypeOK, Session
<1>7. \A r \in Sid : OwnPub(sess'[r])
  BY <1>1, <1>6 DEF OwnPub, KeyInv
<1>8. OpenedKeyed'
  <2> SUFFICES ASSUME NEW j \in opened', NEW b \in Addr,
                      last[b] = j, byIndex[j] # Nil, sess'[byIndex[j]].addr = b
               PROVE  sess'[byIndex[j]].pub = Author[j]
    BY <1>3 DEF OpenedKeyed
  <2>1. j \in Index /\ byIndex[j] \in Sid
    BY <1>1, <1>3 DEF RouteInv, TypeOK
  <2>2. CASE byIndex[j] = s
    BY <2>1, <2>2, <1>2, <1>6
  <2>3. CASE byIndex[j] # s
    <3>1. j # i
      BY <2>1, <2>3, <1>2, <1>5
    <3> QED
      BY <2>1, <2>3, <3>1, <1>3, <1>6 DEF KeyInv, OpenedKeyed
  <2> QED
    BY <2>2, <2>3
<1> QED
  BY <1>3, <1>7, <1>8 DEF Identifying

\* Of clientTraffic: a session is created or touched, no key is learned.
LEMMA TouchKeepsKeys ==
  ASSUME KeyInv, ClientTouch
  PROVE  (\A s \in Sid : OwnPub(sess[s]))' /\ Identifying' /\ OpenedKeyed'
<1> DEFINE a == cpkt.addr
<1>1. RouteInv /\ a \in Addr
  BY PacketFacts DEF ClientTouch, KeyInv, ProxyInv, Holding
<1>2. cpc' = "forward" /\ UNCHANGED <<last, byIndex, opened>> /\ opened \subseteq Index
  BY DEF ClientTouch, ClientTraffic, netVars, KeyInv, ProxyInv, ProxyTypeOK
<1>3. PICK s \in Sid : GetLocked(a, s) /\ sess' = [sess EXCEPT ![s] = [Got(a) EXCEPT !.age = 0]]
  BY DEF ClientTouch, ClientTraffic
<1> HIDE DEF a
<1>4. /\ Got(a).addr = a /\ Got(a) \in Session
      /\ byAddr[a] # Nil => Got(a) = sess[s]
      /\ byAddr[a] = Nil => \A j \in Index : byIndex[j] # s
  BY <1>1, <1>3, GetLockedFacts DEF RouteInv
<1>5. /\ sess'[s].addr = a /\ sess'[s].pub = Got(a).pub
      /\ \A r \in Sid : r # s => sess'[r] = sess[r]
  BY <1>1, <1>3, <1>4 DEF RouteInv, TypeOK, Session
<1>6. \A r \in Sid : OwnPub(sess'[r])
  BY <1>1, <1>3, <1>4, <1>5, GotOwnPub DEF OwnPub, KeyInv
<1>7. OpenedKeyed'
  <2> SUFFICES ASSUME NEW j \in opened, NEW b \in Addr,
                      last[b] = j, byIndex[j] # Nil, sess'[byIndex[j]].addr = b
               PROVE  sess'[byIndex[j]].pub = Author[j]
    BY <1>2 DEF OpenedKeyed
  <2>1. j \in Index /\ byIndex[j] \in Sid
    BY <1>1, <1>2 DEF RouteInv, TypeOK
  <2>2. sess'[byIndex[j]].addr = sess[byIndex[j]].addr /\ sess'[byIndex[j]].pub = sess[byIndex[j]].pub
    BY <2>1, <1>4, <1>5
  <2> QED
    BY <2>2 DEF KeyInv, OpenedKeyed
<1> QED
  BY <1>2, <1>6, <1>7 DEF Identifying

\* Of steps that leave each session's address, index and key as they are: a
\* reply, and the passing of time.
LEMMA AgeKeepsKeys ==
  ASSUME KeyInv, ServerLookup \/ TimePasses
  PROVE  (\A s \in Sid : OwnPub(sess[s]))' /\ Identifying' /\ OpenedKeyed'
<1>1. UNCHANGED <<cpc, cpkt, opened, byAddr, byIndex, last>>
  BY DEF ServerLookup, ResponseTargets, TimePasses, Tick, clientVars, netVars, history
<1>2. TypeOK /\ opened \subseteq Index
  BY DEF KeyInv, ProxyInv, RouteInv, ProxyTypeOK
<1>3. ASSUME NEW s \in Sid
      PROVE  /\ sess'[s].addr = sess[s].addr /\ sess'[s].pub = sess[s].pub
             /\ sess'[s].clientIndex = sess[s].clientIndex
  <2>1. CASE ServerLookup
    <3>1. sess' = [sess EXCEPT ![byIndex[rpkt.index]].age = 0]
      BY <2>1 DEF ServerLookup, ResponseTargets
    <3> QED
      BY <3>1, <1>2 DEF TypeOK, Session
  <2>2. CASE TimePasses
    <3>1. sess' = [r \in Sid |-> [sess[r] EXCEPT !.age = Older(@)]]
      BY <2>2 DEF TimePasses, Tick
    <3> QED
      BY <3>1, <1>2 DEF TypeOK, Session
  <2> QED
    BY <2>1, <2>2
<1>4. \A r \in Sid : OwnPub(sess'[r])
  BY <1>3 DEF OwnPub, KeyInv
<1>5. Identifying'
  <2> SUFFICES ASSUME cpc = "identify"
               PROVE  /\ last[cpkt.addr] = cpkt.index
                      /\ \/ byIndex[cpkt.index] = Nil
                         \/ /\ byIndex[cpkt.index] = byAddr[cpkt.addr]
                            /\ sess'[byAddr[cpkt.addr]].clientIndex = cpkt.index
    BY <1>1 DEF Identifying
  <2>1. cpkt.index \in Index
    BY PacketFacts DEF KeyInv, ProxyInv, Holding
  <2>2. byIndex[cpkt.index] # Nil => byIndex[cpkt.index] \in Sid
    BY <1>2, <2>1 DEF TypeOK
  <2> QED
    BY <1>3, <2>2 DEF KeyInv, Identifying
<1>6. OpenedKeyed'
  <2>1. \A i \in opened : byIndex[i] # Nil => byIndex[i] \in Sid
    BY <1>2 DEF TypeOK
  <2> QED
    BY <1>1, <1>3, <2>1 DEF KeyInv, OpenedKeyed
<1> QED
  BY <1>4, <1>5, <1>6

\* Of a collection.
LEMMA CollectKeepsKeys ==
  ASSUME KeyInv, Collect
  PROVE  (\A s \in Sid : OwnPub(sess[s]))' /\ Identifying' /\ OpenedKeyed'
<1>1. /\ RouteInv /\ Gc /\ UNCHANGED <<cpc, cpkt, opened, last>> /\ opened \subseteq Index
  BY DEF Collect, Gc, history, clientVars, netVars, KeyInv, ProxyInv, ProxyTypeOK
<1>2. /\ \A a \in Addr : byAddr'[a] # Nil =>
           byAddr'[a] = byAddr[a] /\ sess'[byAddr[a]] = sess[byAddr[a]]
      /\ \A i \in Index : byIndex'[i] # Nil =>
           byIndex'[i] = byIndex[i] /\ sess'[byIndex[i]] = sess[byIndex[i]]
  BY <1>1, GcFacts
<1>3. \A r \in Sid : OwnPub(sess'[r])
  <2>1. \A r \in Sid : sess'[r] \in {sess[r], Unused}
    BY <1>1 DEF Gc, Collected
  <2>2. OwnPub(Unused)
    BY DEF OwnPub, Unused
  <2> QED
    BY <2>1, <2>2 DEF KeyInv
<1>4. Identifying'
  <2> DEFINE a == cpkt.addr
             i == cpkt.index
  <2> SUFFICES ASSUME cpc = "identify"
               PROVE  /\ last[a] = i
                      /\ \/ byIndex'[i] = Nil
                         \/ byIndex'[i] = byAddr'[a] /\ sess'[byAddr'[a]].clientIndex = i
    BY <1>1 DEF Identifying
  <2>1. a \in Addr /\ i \in Index
    BY PacketFacts DEF KeyInv, ProxyInv, Holding
  <2>2. /\ last[a] = i
        /\ byIndex[i] = Nil \/ (byIndex[i] = byAddr[a] /\ sess[byAddr[a]].clientIndex = i)
    BY DEF KeyInv, Identifying
  <2> HIDE DEF a, i
  <2>3. CASE byIndex'[i] = Nil
    BY <2>2, <2>3
  <2>4. CASE byIndex'[i] # Nil
    <3>1. byIndex[i] = byAddr[a] /\ sess[byAddr[a]].clientIndex = i /\ byAddr[a] # Nil
          /\ byIndex'[i] = byIndex[i] /\ sess'[byIndex[i]] = sess[byIndex[i]]
      BY <2>1, <2>2, <2>4, <1>2
    <3>2. a \notin Expired
      BY <2>1, <2>4, <3>1, <1>1 DEF Gc
    <3>3. byAddr'[a] = byAddr[a]
      BY <2>1, <3>2, <1>1 DEF Gc
    <3> QED
      BY <2>2, <3>1, <3>3
  <2> QED
    BY <2>3, <2>4
<1>5. OpenedKeyed'
  BY <1>1, <1>2 DEF KeyInv, OpenedKeyed
<1> QED
  BY <1>3, <1>4, <1>5

\* The key a session holds is one its client used: setPub follows an identification
\* of an initiation that the same client sent.
LEMMA KeyStep == KeyInv /\ [ProxyNext]_vars => KeyInv'
<1> SUFFICES ASSUME KeyInv, [ProxyNext]_vars
             PROVE  (\A s \in Sid : OwnPub(sess[s]))' /\ Identifying' /\ OpenedKeyed'
  BY ProxyStep DEF KeyInv
<1>1. CASE UNCHANGED <<tableVars, netVars>> /\ cpc' # "identify"
  BY <1>1 DEF tableVars, netVars, KeyInv, Identifying, OpenedKeyed
<1>2. CASE UNCHANGED <<tableVars, netVars, clientVars>>
  BY <1>2 DEF tableVars, netVars, clientVars, KeyInv, Identifying, OpenedKeyed
<1>3. ASSUME NEW p \in Inits \union Others, ClientRead(p) PROVE cpc' # "identify"
  BY <1>3 DEF ClientRead
<1>4. ASSUME NEW reaches \in BOOLEAN, ClientForward(reaches)
      PROVE  UNCHANGED <<tableVars, opened>> /\ cpc' # "identify"
  BY <1>4 DEF ClientForward
<1>5. CASE UNCHANGED <<tableVars, opened>> /\ cpc' # "identify"
  BY <1>5 DEF tableVars, KeyInv, Identifying, OpenedKeyed
<1>6. \/ ClientRegister \/ ClientIdentify \/ ClientTouch \/ ServerLookup \/ TimePasses \/ Collect
      \/ UNCHANGED <<tableVars, netVars>> /\ cpc' # "identify"
      \/ UNCHANGED <<tableVars, netVars, clientVars>>
      \/ UNCHANGED <<tableVars, opened>> /\ cpc' # "identify"
  BY <1>3, <1>4 DEF ProxyNext, vars, RouterChange, PollIface, PollPeers, PollFails, ClientRead,
                    ServerRead, ServerDrop, ServerSend
<1> QED
  BY <1>1, <1>2, <1>5, <1>6, RegisterKeepsKeys, IdentifyKeepsKeys, TouchKeepsKeys, AgeKeepsKeys,
     CollectKeepsKeys

\* KeyInv holds in all reachable states.
LEMMA KeyInvariance == ProxySpec => []KeyInv
<1>1. ProxyInit => KeyInv
  <2> SUFFICES ASSUME ProxyInit PROVE KeyInv
    OBVIOUS
  <2>1. \A s \in Sid : OwnPub(sess[s])
    BY DEF ProxyInit, TableInit, OwnPub, Unused
  <2> QED
    BY <2>1, ProxyInitInv DEF ProxyInit, KeyInv, Identifying, OpenedKeyed
<1> QED
  BY <1>1, KeyStep, PTL DEF ProxySpec

\* What responseTargets finds: the session of the reply's index.
LEMMA LookupFacts ==
  ASSUME ProxyInv, ServerLookup, rpkt.type = "response"
  PROVE  LET x == sess[byIndex[rpkt.index]]
         IN /\ byIndex[rpkt.index] \in Sid /\ rpkt.index \in Index
            /\ raddr' = x.addr /\ x.addr \in Addr /\ <<x.addr, rpkt.index>> \in Uses
            /\ x.pub # Nil => rkeys' = {x.pub}
            /\ x.pub = Nil /\ rsnap # {} => rkeys' = rsnap
<1>1. rpkt.index \in Index /\ byIndex[rpkt.index] # Nil
  BY DEF ServerLookup, ResponseTargets, ProxyInv, ProxyTypeOK, Replies
<1>2. /\ raddr' = sess[byIndex[rpkt.index]].addr
      /\ rkeys' = TargetKeys(rpkt.index, rsnap, TRUE)
  BY DEF ServerLookup
<1>3. byIndex[rpkt.index] \in Sid
  BY <1>1 DEF ProxyInv, RouteInv, TypeOK
<1>4. /\ sess[byIndex[rpkt.index]].addr \in Addr
      /\ <<sess[byIndex[rpkt.index]].addr, rpkt.index>> \in Uses
  BY <1>1 DEF ProxyInv, RouteInv, Routed
<1> QED
  BY <1>1, <1>2, <1>3, <1>4 DEF TargetKeys

\* A response to the latest handshake of an address, decrypted, is sent with
\* its author's MAC1 and no other, also where clients take turns on the
\* address or choose the same index (server.go:85-93, sessions.go:67-90).
THEOREM OpenedVerifiable == ProxySpec => OpenedResponseVerifiable
<1>1. KeyInv /\ [ProxyNext]_vars
        => [AnswersLatest /\ rpkt.index \in opened => rkeys' = {Author[rpkt.index]}]_vars
  <2> SUFFICES ASSUME KeyInv, AnswersLatest, rpkt.index \in opened
               PROVE  rkeys' = {Author[rpkt.index]}
    OBVIOUS
  <2> DEFINE x == sess[byIndex[rpkt.index]]
  <2>1. /\ byIndex[rpkt.index] \in Sid /\ rpkt.index \in Index
        /\ x.addr \in Addr /\ last[x.addr] = rpkt.index
        /\ x.pub # Nil => rkeys' = {x.pub}
    BY LookupFacts DEF AnswersLatest, KeyInv
  <2>2. x.pub = Author[rpkt.index]
    BY <2>1, SessionsAssumption DEF KeyInv, OpenedKeyed
  <2>3. x.pub # Nil
    BY <2>1, <2>2, SessionsAssumption, ServerProxyAssumption
  <2> QED
    BY <2>1, <2>2, <2>3
<1> QED
  BY <1>1, KeyInvariance, PTL DEF ProxySpec, OpenedResponseVerifiable

\* A client alone on its address gets responses with its MAC1 among them, if
\* the snapshot lists it, whatever the proxy could decrypt (sessions.go:67-90).
THEOREM SoleVerifiable == ProxySpec => SoleClientVerifiable
<1>1. KeyInv /\ [ProxyNext]_vars
        => [ServerLookup /\ rpkt.type = "response" /\ Sole(raddr') /\ Author[rpkt.index] \in rsnap
              => Author[rpkt.index] \in rkeys']_vars
  <2> SUFFICES ASSUME KeyInv, ServerLookup, rpkt.type = "response", Sole(raddr'),
                      Author[rpkt.index] \in rsnap
               PROVE  Author[rpkt.index] \in rkeys'
    OBVIOUS
  <2> DEFINE x == sess[byIndex[rpkt.index]]
  <2>1. /\ byIndex[rpkt.index] \in Sid /\ rpkt.index \in Index
        /\ raddr' = x.addr /\ <<x.addr, rpkt.index>> \in Uses
        /\ x.pub # Nil => rkeys' = {x.pub}
        /\ x.pub = Nil /\ rsnap # {} => rkeys' = rsnap
    BY LookupFacts DEF KeyInv
  <2>2. OwnPub(x)
    BY <2>1 DEF KeyInv
  <2>3. x.pub \in {Nil, Author[rpkt.index]}
    BY <2>1, <2>2 DEF OwnPub, Sole
  <2> QED
    BY <2>1, <2>3
<1> QED
  BY <1>1, KeyInvariance, PTL DEF ProxySpec, SoleClientVerifiable
=============================================================================
