------------------------------ MODULE Sessions -----------------------------
(***************************************************************************)
(* The session table of the server-side proxy (internal/proxy/sessions.go).*)
(* A session object is created for a client's UDP address and is found     *)
(* again through two maps: byAddr, which the collector walks, and byIndex, *)
(* which routes the WG server's replies.  Both maps hold pointers to the   *)
(* same objects, so the model keeps a heap of sessions and the maps hold   *)
(* their identifiers; an object leaves the heap when no map refers to it.  *)
(*                                                                         *)
(* Every operation of the table runs under its mutex and is one action.    *)
(* Times are ages in ticks, capped one past TTL; the zero time.Time of a   *)
(* session that was never touched is an age beyond TTL.                    *)
(***************************************************************************)
EXTENDS Naturals

CONSTANTS
  Addr,      \* UDP addresses of clients
  Index,     \* sender indices
  Zero,      \* the index 0: clientIndex of a session no init was seen for
  Key,       \* clients' public keys
  Sid,       \* identities of session objects
  Uses,      \* the pairs <<a, i>> such that the client at a may choose i
  TTL,       \* config.SessionTTL, in ticks
  Nil        \* nil pointer, unknown key, no address

ASSUME SessionsAssumption ==
  /\ Zero \in Index
  /\ Nil \notin Addr /\ Nil \notin Key /\ Nil \notin Sid /\ Nil \notin Index
  /\ Uses \subseteq Addr \X Index
  /\ TTL \in Nat

VARIABLES
  sess,      \* the session objects
  byAddr,    \* address -> session
  byIndex,   \* index -> session
  \* The next three are history variables: the code does not keep them.
  live,      \* address -> indices it registered since it was last silent
  last,      \* address -> index of its latest handshake, ever
  quiet      \* address -> ticks since its last packet, at most TTL + 1

table     == <<sess, byAddr, byIndex>>
history   == <<live, last, quiet>>
tableVars == <<sess, byAddr, byIndex, live, last, quiet>>

Session == [addr : Addr \union {Nil}, clientIndex : Index,
            pub : Key \union {Nil}, age : 0 .. TTL + 1]

\* An identifier no session has.
Unused == [addr |-> Nil, clientIndex |-> Zero, pub |-> Nil, age |-> TTL + 1]

\* Mutant of NewSession: a new session without the zero index.
NewSessionNoIndex(a) ==
  [addr |-> a, clientIndex |-> Nil, pub |-> Nil, age |-> TTL + 1]

\* The object getLocked creates: no index, no key, the zero time as lastSeen.
NewSession(a) ==
  [addr |-> a, clientIndex |-> Zero, pub |-> Nil, age |-> TTL + 1]

TableInit ==
  /\ sess    = [s \in Sid |-> Unused]
  /\ byAddr  = [a \in Addr |-> Nil]
  /\ byIndex = [i \in Index |-> Nil]
  /\ live    = [a \in Addr |-> {}]
  /\ last    = [a \in Addr |-> Nil]
  /\ quiet   = [a \in Addr |-> TTL + 1]

-----------------------------------------------------------------------------
(* Go's memory: allocation and garbage collection of session objects.       *)

Referenced(s, ba, bi) ==
  (\E a \in Addr : ba[a] = s) \/ (\E i \in Index : bi[i] = s)

\* The heap h without the objects the two maps no longer refer to.
Collected(h, ba, bi) ==
  [s \in Sid |-> IF Referenced(s, ba, bi) THEN h[s] ELSE Unused]

\* s is the session getLocked(a) returns: the one in byAddr or a new one.
GetLocked(a, s) ==
  IF byAddr[a] # Nil THEN s = byAddr[a] ELSE ~Referenced(s, byAddr, byIndex)

\* The object GetLocked yields, before the caller changes it.
Got(a) == IF byAddr[a] # Nil THEN sess[byAddr[a]] ELSE NewSession(a)

-----------------------------------------------------------------------------
(* The operations.                                                          *)

\* Mutant of ClientInit: an index already in byIndex is not taken over.
ClientInitKeeps(a, i) ==
  /\ <<a, i>> \in Uses
  /\ \E s \in Sid :
       /\ GetLocked(a, s)
       /\ byAddr'  = [byAddr EXCEPT ![a] = s]
       /\ byIndex' = IF byIndex[i] = Nil THEN [byIndex EXCEPT ![i] = s] ELSE byIndex
       /\ sess' = Collected(
            [sess EXCEPT ![s] = [Got(a) EXCEPT !.clientIndex = i, !.age = 0]],
            byAddr', byIndex')
  /\ live'  = [live EXCEPT ![a] = @ \union {i}]
  /\ last'  = [last EXCEPT ![a] = i]
  /\ quiet' = [quiet EXCEPT ![a] = 0]

\* clientInit: a handshake initiation with sender index i came from a.
ClientInit(a, i) ==
  /\ <<a, i>> \in Uses
  /\ \E s \in Sid :
       /\ GetLocked(a, s)
       /\ byAddr'  = [byAddr EXCEPT ![a] = s]
       /\ byIndex' = [byIndex EXCEPT ![i] = s]
       /\ sess' = Collected(
            [sess EXCEPT ![s] = [Got(a) EXCEPT !.clientIndex = i, !.age = 0]],
            byAddr', byIndex')
  /\ live'  = [live EXCEPT ![a] = @ \union {i}]
  /\ last'  = [last EXCEPT ![a] = i]
  /\ quiet' = [quiet EXCEPT ![a] = 0]

\* clientTraffic: a transport packet came from a.
ClientTraffic(a) ==
  /\ \E s \in Sid :
       /\ GetLocked(a, s)
       /\ byAddr' = [byAddr EXCEPT ![a] = s]
       /\ sess' = [sess EXCEPT ![s] = [Got(a) EXCEPT !.age = 0]]
  /\ quiet' = [quiet EXCEPT ![a] = 0]
  /\ UNCHANGED <<byIndex, live, last>>

\* Mutant of SetPub: a key once known is kept.
SetPubOnce(a, k) ==
  /\ \E s \in Sid :
       /\ GetLocked(a, s)
       /\ byAddr' = [byAddr EXCEPT ![a] = s]
       /\ sess' = [sess EXCEPT ![s] = IF Got(a).pub = Nil THEN [Got(a) EXCEPT !.pub = k]
                                      ELSE Got(a)]
  /\ UNCHANGED <<byIndex, history>>

\* setPub: the initiation from a was decrypted and names the client's key k.
\* A session collected since clientInit is created again, untouched.
SetPub(a, k) ==
  /\ \E s \in Sid :
       /\ GetLocked(a, s)
       /\ byAddr' = [byAddr EXCEPT ![a] = s]
       /\ sess' = [sess EXCEPT ![s] = [Got(a) EXCEPT !.pub = k]]
  /\ UNCHANGED <<byIndex, history>>

\* responseTargets, what it changes: the session of a reply counts as seen.
ResponseTargets(i) ==
  /\ byIndex[i] # Nil
  /\ sess' = [sess EXCEPT ![byIndex[i]].age = 0]
  /\ UNCHANGED <<byAddr, byIndex, history>>

\* Mutant of TargetKeys: no burst while the client's key is unknown.
TargetKeysNoBurst(i, cands, needPub) ==
  LET s == sess[byIndex[i]] IN IF needPub THEN {s.pub} ELSE {Nil}

\* responseTargets, what it returns besides the address: the keys to compute
\* MAC1 with, Nil standing for the zero key of a packet that has no MAC1.
TargetKeys(i, cands, needPub) ==
  LET s == sess[byIndex[i]] IN
    IF ~needPub \/ (s.pub = Nil /\ cands = {}) THEN {Nil}
    ELSE IF s.pub # Nil THEN {s.pub}
    ELSE cands

\* Mutant of Expired: off by one, a session of age TTL is dropped already.
ExpiredEarly == {a \in Addr : byAddr[a] # Nil /\ sess[byAddr[a]].age >= TTL}

\* Addresses whose session has outlived the TTL.
Expired == {a \in Addr : byAddr[a] # Nil /\ sess[byAddr[a]].age > TTL}

\* Mutant of Gc: byIndex is not cleared.
GcByAddrOnly ==
  /\ byAddr'  = [a \in Addr |-> IF a \in Expired THEN Nil ELSE byAddr[a]]
  /\ sess' = Collected(sess, byAddr', byIndex)
  /\ UNCHANGED <<byIndex, history>>

\* gc: an expired session leaves byAddr, and byIndex under its latest index.
Gc ==
  /\ byAddr'  = [a \in Addr |-> IF a \in Expired THEN Nil ELSE byAddr[a]]
  /\ byIndex' = [i \in Index |->
                   IF \E a \in Expired : sess[byAddr[a]].clientIndex = i
                   THEN Nil ELSE byIndex[i]]
  /\ sess' = Collected(sess, byAddr', byIndex')
  /\ UNCHANGED history

Older(n) == IF n > TTL THEN n ELSE n + 1

\* Time passes for every session and for every client.
Tick ==
  /\ sess'  = [s \in Sid |-> [sess[s] EXCEPT !.age = Older(@)]]
  /\ quiet' = [a \in Addr |-> Older(quiet[a])]
  /\ live'  = [a \in Addr |-> IF quiet'[a] > TTL THEN {} ELSE live[a]]
  /\ UNCHANGED <<byAddr, byIndex, last>>

TableNext ==
  \/ \E a \in Addr, i \in Index : ClientInit(a, i)
  \/ \E a \in Addr : ClientTraffic(a)
  \/ \E a \in Addr, k \in Key : SetPub(a, k)
  \/ \E i \in Index : ResponseTargets(i)
  \/ Gc
  \/ Tick

TableSpec == TableInit /\ [][TableNext]_tableVars

-----------------------------------------------------------------------------
(* Properties.                                                              *)

\* The values the fields of the table (sessions.go) and the history take.
TypeOK ==
  /\ sess    \in [Sid -> Session]
  /\ byAddr  \in [Addr -> Sid \union {Nil}]
  /\ byIndex \in [Index -> Sid \union {Nil}]
  /\ live    \in [Addr -> SUBSET Index]
  /\ last    \in [Addr -> Index \union {Nil}]
  /\ quiet   \in [Addr -> 0 .. TTL + 1]

\* An index no other client can be using: 32 random bits make this the rule.
Private(i) ==
  /\ i # Zero
  /\ \A a, b \in Addr : <<a, i>> \in Uses /\ <<b, i>> \in Uses => a = b

\* Where responseTargets sends a reply to index i.
route == [i \in Index |-> IF byIndex[i] = Nil THEN Nil ELSE sess[byIndex[i]].addr]

\* As long as a client is heard from once per TTL, every handshake it made in
\* that time keeps its reply route: the collector, the traffic of other
\* clients and its own rekeys (which leave the older index in byIndex, where
\* WireGuard still uses it for its previous keypair) do not take it away.
ActiveClientRoutable ==
  \A a \in Addr : \A i \in live[a] : Private(i) => route[i] = a

\* Once the collector has dropped a client, a reply to its latest handshake
\* finds no session (gc removes the session from both maps).
CollectedClientUnroutable ==
  \A a \in Addr :
    byAddr[a] = Nil /\ last[a] # Nil => (Private(last[a]) => byIndex[last[a]] = Nil)

\* The table implements the promise of ReplyRouting.
Promise == INSTANCE ReplyRouting WITH route <- route, live <- live, quiet <- quiet
PromiseSpec == Promise!Spec

\* README.md:64 and :81 call session_ttl_sec the time after which an inactive
\* session ends: after a collection no reply is routed by an expired session.
ExpiredRoutesGone ==
  [][Gc => \A i \in Index :
             byIndex'[i] # Nil => sess'[byIndex'[i]].age <= TTL]_tableVars
=============================================================================
