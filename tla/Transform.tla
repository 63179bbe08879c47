----------------------------- MODULE Transform -----------------------------
(***************************************************************************)
(* The conversion between WireGuard and AmneziaWG datagrams                *)
(* (internal/awg/transform.go, internal/wg/message.go).                    *)
(*                                                                         *)
(* A datagram is a sequence of words; a message begins with its type (or   *)
(* with the magic header that stands for it) and an initiation or response *)
(* has its MAC1 in the word MacAt of the message.  MAC1 is a free function *)
(* of the key and of what precedes it, so two MACs agree only if both do.  *)
(* The words of a junk prefix are arbitrary: the code draws them at random.*)
(*                                                                         *)
(* p stands for the Params of the receiver of each operation: p.h the      *)
(* magic headers H1..H4, p.s the prefix lengths S1 and S2.                 *)
(***************************************************************************)
EXTENDS Integers, Sequences

CONSTANTS
  Word,        \* words
  InitT, ResponseT, CookieT, TransportT,   \* the words for the message types
  Key,         \* public keys
  MacAt        \* type -> position of MAC1 in the message (mac1OffsetInit...)

MacType == {InitT, ResponseT}
Type    == {InitT, ResponseT, CookieT, TransportT}

ASSUME TransformAssumption ==
  /\ Type \subseteq Word
  /\ InitT # ResponseT /\ InitT # CookieT /\ InitT # TransportT
  /\ ResponseT # CookieT /\ ResponseT # TransportT /\ CookieT # TransportT
  /\ MacAt \in [MacType -> Nat \ {0, 1}]

Params == [h : [Type -> Word], s : [MacType -> Nat]]

\* ComputeMAC1: the keyed hash of what precedes the field.
ComputeMAC1(key, before) == [mac |-> key, of |-> before]

\* hFor: types the proxy does not know are sent under the transport header.
hFor(p, t) == IF t \in Type THEN p.h[t] ELSE p.h[TransportT]

\* prefixFor.
PrefixFor(p, t) == IF t \in MacType THEN p.s[t] ELSE 0

\* Message msg of type t with its MAC1 computed for key, if it has one and is
\* long enough to hold it.
WithMac(msg, t, key) ==
  IF t \in MacType /\ Len(msg) >= MacAt[t]
  THEN [msg EXCEPT ![MacAt[t]] = ComputeMAC1(key, SubSeq(msg, 1, MacAt[t] - 1))]
  ELSE msg

\* Obfuscate: header for type, MAC1 for key, and the prefix junk in front.
Obfuscate(p, msg, key, junk) ==
  junk \o WithMac([msg EXCEPT ![1] = hFor(p, msg[1])], msg[1], key)

\* The prefixes Obfuscate may draw for msg.
Prefixes(p, msg) == [1 .. PrefixFor(p, msg[1]) -> Word]

\* The word behind a prefix of n words is w.
HeaderAt(pkt, n, w) == Len(pkt) > n /\ pkt[n + 1] = w

\* Mutant of Classify: the prefix of a response is taken to be that of an
\* initiation.
ClassifyOffset(p, pkt) ==
  IF HeaderAt(pkt, 0, p.h[TransportT]) THEN [ok |-> TRUE, type |-> TransportT, offset |-> 0]
  ELSE IF HeaderAt(pkt, 0, p.h[CookieT]) THEN [ok |-> TRUE, type |-> CookieT, offset |-> 0]
  ELSE IF HeaderAt(pkt, p.s[InitT], p.h[InitT])
  THEN [ok |-> TRUE, type |-> InitT, offset |-> p.s[InitT]]
  ELSE IF HeaderAt(pkt, p.s[ResponseT], p.h[ResponseT])
  THEN [ok |-> TRUE, type |-> ResponseT, offset |-> p.s[InitT]]
  ELSE [ok |-> FALSE, type |-> TransportT, offset |-> 0]

\* classify: the type of a datagram and where its message begins; the headers
\* without prefix are looked for first, then H1 behind S1, then H2 behind S2.
Classify(p, pkt) ==
  IF HeaderAt(pkt, 0, p.h[TransportT]) THEN [ok |-> TRUE, type |-> TransportT, offset |-> 0]
  ELSE IF HeaderAt(pkt, 0, p.h[CookieT]) THEN [ok |-> TRUE, type |-> CookieT, offset |-> 0]
  ELSE IF HeaderAt(pkt, p.s[InitT], p.h[InitT])
  THEN [ok |-> TRUE, type |-> InitT, offset |-> p.s[InitT]]
  ELSE IF HeaderAt(pkt, p.s[ResponseT], p.h[ResponseT])
  THEN [ok |-> TRUE, type |-> ResponseT, offset |-> p.s[ResponseT]]
  ELSE [ok |-> FALSE, type |-> TransportT, offset |-> 0]

\* Deobfuscate: the message without its prefix, under its WireGuard type, with
\* its MAC1 for key; not ok for junk.
Deobfuscate(p, pkt, key) ==
  LET c   == Classify(p, pkt)
      msg == SubSeq(pkt, c.offset + 1, Len(pkt))
  IN [ok |-> c.ok, type |-> c.type,
      plain |-> IF c.ok THEN WithMac([msg EXCEPT ![1] = c.type], c.type, key) ELSE <<>>]

-----------------------------------------------------------------------------

\* The obfuscated datagram of a message of type t looks, by accident of its
\* random prefix or of its content, like another type that is tried before t.
Ambiguous(p, pkt, t) ==
  \/ t \in MacType /\ (HeaderAt(pkt, 0, p.h[TransportT]) \/ HeaderAt(pkt, 0, p.h[CookieT]))
  \/ t = ResponseT /\ HeaderAt(pkt, p.s[InitT], p.h[InitT])

\* H1..H4 differ; the configuration is not checked for it.
DistinctHeaders(p) == \A t, u \in Type : p.h[t] = p.h[u] => t = u
=============================================================================
