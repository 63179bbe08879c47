----------------------------- MODULE NatProofs -----------------------------
(***************************************************************************)
(* The reconciler of NAT rules (internal/router/nat.go) for any actors,    *)
(* markers, tables and rules: its calls change rules of its own marker     *)
(* only, whatever other actors and the operator do between them.           *)
(***************************************************************************)
EXTENDS NatReconciler, SequenceTheorems, WellFoundedInduction, TLAPS

-----------------------------------------------------------------------------
(* Induction, in a form that speaks of sets.                                *)

\* A set of natural numbers with 0 and every successor has them all.
LEMMA AllNaturals ==
  ASSUME NEW T \in SUBSET Nat, 0 \in T, \A n \in T : n + 1 \in T
  PROVE  T = Nat
<1> SUFFICES ASSUME Nat \ T # {} PROVE FALSE
  BY Zenon
<1>1. PICK R : R = OpToRel(<, Nat)
  BY Zenon
<1>2. IsWellFoundedOn(R, Nat)
  BY <1>1, NatLessThanWellFounded, Zenon
<1>3. \A x, y \in Nat : y < x => <<y, x>> \in R
  BY <1>1, Zenon DEF OpToRel
<1>4. PICK x \in Nat \ T : \A y \in Nat \ T : <<y, x>> \notin R
  BY <1>2, WFMin, Zenon
<1>5. x # 0 /\ x - 1 \in Nat /\ x - 1 < x
  BY <1>4
<1>6. x - 1 \in T
  BY <1>3, <1>4, <1>5
<1>7. x - 1 + 1 = x
  BY <1>4
<1> QED
  BY <1>4, <1>6, <1>7

\* The same up to a bound.
LEMMA UpToBound ==
  ASSUME NEW m \in Nat, NEW T, 0 \in T, \A n \in 0 .. m : n \in T /\ n < m => n + 1 \in T
  PROVE  0 .. m \subseteq T
<1> DEFINE U == {n \in Nat : n <= m => n \in T}
<1>1. 0 \in U
  OBVIOUS
<1>2. ASSUME NEW n \in U PROVE n + 1 \in U
  OBVIOUS
<1>3. U \in SUBSET Nat
  OBVIOUS
<1> HIDE DEF U
<1>4. U = Nat
  BY <1>1, <1>2, <1>3, AllNaturals
<1> QED
  BY <1>4 DEF U

-----------------------------------------------------------------------------
(* What list keeps of a table (nat.go:229-242).                             *)

\* The part of s up to place n that is kept.
Parts(s, K, F) ==
  F = [n \in 0 .. Len(s) |->
         IF n = 0 THEN <<>> ELSE IF n \in K THEN Append(F[n - 1], s[n]) ELSE F[n - 1]]

\* The recursive function Kept is made of.
KeptUpTo(s, K) == CHOOSE F : Parts(s, K, F)

\* A recursion over places has a solution.
LEMMA PartsExist ==
  ASSUME NEW s, Len(s) \in Nat, NEW K
  PROVE  Parts(s, K, KeptUpTo(s, K)) /\ Kept(s, K) = KeptUpTo(s, K)[Len(s)]
<1> DEFINE Step(F, n) == F[n] = IF n = 0 THEN <<>> ELSE IF n \in K THEN Append(F[n - 1], s[n]) ELSE F[n - 1]
           T == {m \in 0 .. Len(s) : \E F : F = [n \in 0 .. m |-> F[n]] /\ \A n \in 0 .. m : Step(F, n)}
<1>1. 0 \in T
  <2>1. PICK F : F = [n \in 0 .. 0 |-> <<>>]
    OBVIOUS
  <2> QED
    BY <2>1
<1>2. ASSUME NEW m \in 0 .. Len(s), m \in T, m < Len(s) PROVE m + 1 \in T
  <2>1. PICK F : F = [n \in 0 .. m |-> F[n]] /\ \A n \in 0 .. m : Step(F, n)
    BY <1>2
  <2> HIDE DEF T
  <2>6. m \in Nat /\ m + 1 \in 0 .. Len(s)
    BY <1>2
  <2>2. PICK e : e = IF m + 1 \in K THEN Append(F[m], s[m + 1]) ELSE F[m]
    OBVIOUS
  <2>3. PICK G : G = [n \in 0 .. m + 1 |-> IF n = m + 1 THEN e ELSE F[n]]
    OBVIOUS
  <2>4. (\A n \in 0 .. m : G[n] = F[n]) /\ G[m + 1] = e
    BY <2>3, <2>6
  <2>8. G = [n \in 0 .. m + 1 |-> G[n]]
    BY <2>3
  <2>5. ASSUME NEW n \in 0 .. m + 1 PROVE Step(G, n)
    <3>1. CASE n = m + 1
      <4>1. n # 0 /\ n - 1 = m /\ G[n - 1] = F[m]
        BY <2>4, <2>6, <3>1
      <4> QED
        BY <2>2, <2>4, <3>1, <4>1
    <3>2. CASE n \in 0 .. m
      <4>1. G[n] = F[n] /\ (n # 0 => G[n - 1] = F[n - 1])
        BY <2>4, <2>6, <3>2
      <4> QED
        BY <2>1, <3>2, <4>1
    <3> QED
      BY <2>6, <3>1, <3>2
  <2>7. \E H : H = [n \in 0 .. m + 1 |-> H[n]] /\ \A n \in 0 .. m + 1 : Step(H, n)
    BY <2>5, <2>8, Zenon
  <2> QED
    BY <2>6, <2>7 DEF T
<1>3. Len(s) \in T
  <2> HIDE DEF T
  <2>1. 0 .. Len(s) \subseteq T
    BY <1>1, <1>2, UpToBound
  <2> QED
    BY <2>1
<1>4. PICK F : F = [n \in 0 .. Len(s) |-> F[n]] /\ \A n \in 0 .. Len(s) : Step(F, n)
  BY <1>3
<1>5. Parts(s, K, F)
  BY <1>4 DEF Parts
<1>6. Parts(s, K, KeptUpTo(s, K))
  BY <1>5, Zenon DEF KeptUpTo
<1>7. Kept(s, K) = KeptUpTo(s, K)[Len(s)]
  BY Zenon DEF Kept, KeptUpTo, Parts
<1> QED
  BY <1>6, <1>7

\* The elements of x are those of s at the places of K up to n, in their order;
\* the i-th comes from place h[i].
Embedded(x, s, K, n, h) ==
  /\ h \in [1 .. Len(x) -> K \cap (1 .. n)]
  /\ \A i \in 1 .. Len(x) : x[i] = s[h[i]]
  /\ \A i, j \in 1 .. Len(x) : i < j => h[i] < h[j]
  /\ \A k \in K \cap (1 .. n) : \E i \in 1 .. Len(x) : h[i] = k

\* A place that is not kept adds nothing.
LEMMA EmbeddedSkip ==
  ASSUME NEW x, NEW s, NEW K, NEW n \in Nat, NEW h, Embedded(x, s, K, n, h), n + 1 \notin K
  PROVE  Embedded(x, s, K, n + 1, h)
<1>1. K \cap (1 .. n + 1) = K \cap (1 .. n)
  OBVIOUS
<1> QED
  BY <1>1 DEF Embedded

\* One that is kept comes last.
LEMMA EmbeddedAppend ==
  ASSUME NEW S, NEW x \in Seq(S), NEW s, NEW K, NEW n \in Nat, NEW h, Embedded(x, s, K, n, h),
         n + 1 \in K, s[n + 1] \in S
  PROVE  \E g : Embedded(Append(x, s[n + 1]), s, K, n + 1, g)
<1>1. PICK y : y = Append(x, s[n + 1])
  OBVIOUS
<1>2. PICK m : m = Len(x)
  OBVIOUS
<1>3. /\ m \in Nat /\ Len(y) = m + 1 /\ y[m + 1] = s[n + 1]
      /\ \A i \in 1 .. m : y[i] = x[i]
  BY <1>1, <1>2, AppendProperties, LenProperties
<1>4. PICK g : g = [i \in 1 .. m + 1 |-> IF i = m + 1 THEN n + 1 ELSE h[i]]
  OBVIOUS
<1>5. /\ h \in [1 .. m -> K \cap (1 .. n)]
      /\ \A i \in 1 .. m : x[i] = s[h[i]]
      /\ \A i, j \in 1 .. m : i < j => h[i] < h[j]
      /\ \A k \in K \cap (1 .. n) : \E i \in 1 .. m : h[i] = k
  BY <1>2 DEF Embedded
<1>6. g[m + 1] = n + 1 /\ \A i \in 1 .. m : g[i] = h[i]
  BY <1>3, <1>4
<1>7. \A i \in 1 .. m : h[i] \in K /\ h[i] \in 1 .. n
  BY <1>5
<1>8. \A i \in 1 .. m + 1 : i = m + 1 \/ i \in 1 .. m
  BY <1>3
<1>9. g \in [1 .. m + 1 -> K \cap (1 .. n + 1)]
  <2>1. ASSUME NEW i \in 1 .. m + 1 PROVE g[i] \in K \cap (1 .. n + 1)
    BY <1>6, <1>7, <1>8
  <2> QED
    BY <1>4, <2>1
<1>10. \A i \in 1 .. m + 1 : y[i] = s[g[i]]
  BY <1>3, <1>5, <1>6, <1>8
<1>11. ASSUME NEW i \in 1 .. m + 1, NEW j \in 1 .. m + 1, i < j PROVE g[i] < g[j]
  <2>1. i \in 1 .. m
    BY <1>3, <1>11
  <2>2. CASE j = m + 1
    BY <1>6, <1>7, <2>1, <2>2
  <2>3. CASE j \in 1 .. m
    BY <1>5, <1>6, <1>11, <2>1, <2>3
  <2> QED
    BY <1>8, <2>2, <2>3
<1>12. ASSUME NEW k \in K \cap (1 .. n + 1) PROVE \E i \in 1 .. m + 1 : g[i] = k
  <2>1. CASE k = n + 1
    BY <1>3, <1>6, <2>1
  <2>2. CASE k # n + 1
    <3>1. PICK i \in 1 .. m : h[i] = k
      BY <1>5, <2>2
    <3>2. i \in 1 .. m + 1 /\ g[i] = k
      BY <1>3, <1>6, <3>1
    <3> QED
      BY <3>2
  <2> QED
    BY <2>1, <2>2
<1>13. Embedded(y, s, K, n + 1, g)
  BY <1>3, <1>9, <1>10, <1>11, <1>12 DEF Embedded
<1> QED
  BY <1>1, <1>13

\* What is kept of a sequence are its elements at the places of K, in their order.
LEMMA KeptEmbedded ==
  ASSUME NEW S, NEW s \in Seq(S), NEW K
  PROVE  Kept(s, K) \in Seq(S) /\ \E h : Embedded(Kept(s, K), s, K, Len(s), h)
<1>1. PICK F : F = KeptUpTo(s, K)
  OBVIOUS
<1>2. PICK m : m = Len(s)
  OBVIOUS
<1>3. m \in Nat /\ \A n \in 1 .. m : s[n] \in S
  BY <1>2, LenProperties, ElementOfSeq
<1>4. Parts(s, K, F) /\ Kept(s, K) = F[m]
  BY <1>1, <1>2, <1>3, PartsExist
<1>5. PICK T : T = {n \in 0 .. m : F[n] \in Seq(S) /\ \E h : Embedded(F[n], s, K, n, h)}
  OBVIOUS
<1>6. F[0] = <<>> /\ \A n \in 0 .. m : n < m =>
        F[n + 1] = IF n + 1 \in K THEN Append(F[n], s[n + 1]) ELSE F[n]
  <2>1. F = [n \in 0 .. m |->
              IF n = 0 THEN <<>> ELSE IF n \in K THEN Append(F[n - 1], s[n]) ELSE F[n - 1]]
    BY <1>2, <1>4 DEF Parts
  <2>2. \A n \in 0 .. m : F[n] = IF n = 0 THEN <<>> ELSE IF n \in K THEN Append(F[n - 1], s[n]) ELSE F[n - 1]
    BY <2>1, Zenon
  <2>3. F[0] = <<>>
    BY <1>3, <2>2
  <2>4. ASSUME NEW n \in 0 .. m, n < m
        PROVE  F[n + 1] = IF n + 1 \in K THEN Append(F[n], s[n + 1]) ELSE F[n]
    <3>1. n + 1 \in 0 .. m /\ n + 1 # 0 /\ n + 1 - 1 = n
      BY <1>3, <2>4
    <3> QED
      BY <2>2, <3>1
  <2> QED
    BY <2>3, <2>4
<1>7. 0 \in T
  <2>1. PICK h : h = [i \in 1 .. 0 |-> 0]
    OBVIOUS
  <2>2. Embedded(F[0], s, K, 0, h)
    BY <1>6, <2>1 DEF Embedded
  <2>3. F[0] \in Seq(S)
    BY <1>6
  <2>4. 0 \in 0 .. m
    BY <1>3
  <2> QED
    BY <1>5, <2>2, <2>3, <2>4, Zenon
<1>8. ASSUME NEW n \in 0 .. m, n \in T, n < m PROVE n + 1 \in T
  <2>1. PICK h : F[n] \in Seq(S) /\ Embedded(F[n], s, K, n, h)
    BY <1>5, <1>8
  <2>2. n \in Nat /\ n + 1 \in 1 .. m /\ n + 1 \in 0 .. m /\ s[n + 1] \in S
    BY <1>3, <1>8
  <2>3. CASE n + 1 \in K
    <3>1. F[n + 1] = Append(F[n], s[n + 1])
      BY <1>6, <1>8, <2>3
    <3>2. F[n + 1] \in Seq(S)
      BY <2>1, <2>2, <3>1, AppendProperties
    <3>3. \E g : Embedded(Append(F[n], s[n + 1]), s, K, n + 1, g)
      BY <2>1, <2>2, <2>3, EmbeddedAppend
    <3> QED
      BY <1>5, <2>2, <3>1, <3>2, <3>3
  <2>4. CASE n + 1 \notin K
    <3>1. F[n + 1] = F[n]
      BY <1>6, <1>8, <2>4
    <3>2. Embedded(F[n + 1], s, K, n + 1, h)
      BY <2>1, <2>2, <2>4, <3>1, EmbeddedSkip
    <3> QED
      BY <1>5, <2>1, <2>2, <3>1, <3>2
  <2> QED
    BY <2>3, <2>4
<1>9. m \in T
  <2>1. 0 .. m \subseteq T
    BY <1>3, <1>7, <1>8, UpToBound
  <2> QED
    BY <1>3, <2>1
<1> QED
  BY <1>2, <1>4, <1>5, <1>9

\* F goes through s and keeps what stands at the places K.
Steps(s, K, m, F) ==
  /\ F[0] = <<>> /\ Kept(s, K) = F[m]
  /\ \A n \in 1 .. m : F[n] = IF n \in K THEN Append(F[n - 1], s[n]) ELSE F[n - 1]

\* There is such an F.
LEMMA KeptSteps ==
  ASSUME NEW S, NEW s \in Seq(S), NEW K, NEW m, m = Len(s)
  PROVE  \E F : Steps(s, K, m, F)
<1>1. PICK F : F = KeptUpTo(s, K)
  OBVIOUS
<1>3. m \in Nat
  BY LenProperties
<1>4. Parts(s, K, F) /\ Kept(s, K) = F[m]
  BY <1>1, <1>3, PartsExist
<1>5. F = [n \in 0 .. m |->
            IF n = 0 THEN <<>> ELSE IF n \in K THEN Append(F[n - 1], s[n]) ELSE F[n - 1]]
  BY <1>4 DEF Parts
<1>6. \A n \in 0 .. m : F[n] = IF n = 0 THEN <<>> ELSE IF n \in K THEN Append(F[n - 1], s[n]) ELSE F[n - 1]
  BY <1>5, Zenon
<1>7. F[0] = <<>> /\ \A n \in 1 .. m : F[n] = IF n \in K THEN Append(F[n - 1], s[n]) ELSE F[n - 1]
  BY <1>3, <1>6
<1> QED
  BY <1>4, <1>7 DEF Steps

\* What is kept depends on the kept places only.
LEMMA KeptSame ==
  ASSUME NEW S, NEW s \in Seq(S), NEW t \in Seq(S), NEW K, NEW L, Len(s) = Len(t),
         \A k \in 1 .. Len(s) : (k \in K <=> k \in L) /\ (k \in K => s[k] = t[k])
  PROVE  Kept(s, K) = Kept(t, L)
<1>1. PICK m : m = Len(s)
  OBVIOUS
<1>2. m \in Nat /\ Len(t) = m
  BY <1>1, LenProperties
<1>3. PICK F : Steps(s, K, m, F)
  BY <1>1, KeptSteps
<1>4. PICK G : Steps(t, L, m, G)
  BY <1>2, KeptSteps
<1>5. PICK T : T = {n \in 0 .. m : F[n] = G[n]}
  OBVIOUS
<1>6. 0 \in T
  BY <1>2, <1>3, <1>4, <1>5 DEF Steps
<1>7. ASSUME NEW n \in 0 .. m, n \in T, n < m PROVE n + 1 \in T
  <2>1. n + 1 \in 1 .. m /\ n + 1 - 1 = n /\ n + 1 \in 0 .. m
    BY <1>2, <1>7
  <2>2. F[n] = G[n]
    BY <1>5, <1>7
  <2>3. F[n + 1] = IF n + 1 \in K THEN Append(F[n], s[n + 1]) ELSE F[n]
    BY <1>3, <2>1 DEF Steps
  <2>4. G[n + 1] = IF n + 1 \in L THEN Append(G[n], t[n + 1]) ELSE G[n]
    BY <1>4, <2>1 DEF Steps
  <2>5. (n + 1 \in K <=> n + 1 \in L) /\ (n + 1 \in K => s[n + 1] = t[n + 1])
    BY <1>1, <2>1
  <2>6. F[n + 1] = G[n + 1]
    BY <2>2, <2>3, <2>4, <2>5
  <2> QED
    BY <1>5, <2>1, <2>6
<1>8. m \in T
  <2>1. 0 .. m \subseteq T
    BY <1>2, <1>6, <1>7, UpToBound
  <2> QED
    BY <1>2, <2>1
<1> QED
  BY <1>3, <1>4, <1>5, <1>8 DEF Steps

\* Nothing is kept of what is put behind.
LEMMA KeptConcat ==
  ASSUME NEW S, NEW s \in Seq(S), NEW x \in Seq(S), NEW K, NEW L,
         \A k \in 1 .. Len(s) : k \in K <=> k \in L,
         \A k \in 1 .. Len(x) : Len(s) + k \notin L
  PROVE  Kept(s, K) = Kept(s \o x, L)
<1>1. PICK m, l : m = Len(s) /\ l = Len(x)
  OBVIOUS
<1>2. PICK t : t = s \o x
  OBVIOUS
<1>3. /\ m \in Nat /\ l \in Nat /\ t \in Seq(S) /\ Len(t) = m + l
      /\ \A k \in 1 .. m : t[k] = s[k]
  BY <1>1, <1>2, ConcatProperties, LenProperties
<1>4. PICK F : Steps(s, K, m, F)
  BY <1>1, KeptSteps
<1>5. PICK G : Steps(t, L, m + l, G)
  BY <1>3, KeptSteps
<1>6. PICK T : T = {n \in 0 .. m + l : (n <= m => F[n] = G[n]) /\ (n >= m => G[n] = F[m])}
  OBVIOUS
<1>7. 0 \in T
  BY <1>3, <1>4, <1>5, <1>6 DEF Steps
<1>8. ASSUME NEW n \in 0 .. m + l, n \in T, n < m + l PROVE n + 1 \in T
  <2>1. n + 1 \in 1 .. m + l /\ n + 1 - 1 = n /\ n + 1 \in 0 .. m + l
    BY <1>3, <1>8
  <2>2. G[n + 1] = IF n + 1 \in L THEN Append(G[n], t[n + 1]) ELSE G[n]
    BY <1>5, <2>1 DEF Steps
  <2>3. CASE n < m
    <3>1. n + 1 \in 1 .. m /\ F[n] = G[n]
      BY <1>3, <1>6, <1>8, <2>1, <2>3
    <3>2. F[n + 1] = IF n + 1 \in K THEN Append(F[n], s[n + 1]) ELSE F[n]
      BY <1>4, <2>1, <3>1 DEF Steps
    <3>3. (n + 1 \in K <=> n + 1 \in L) /\ s[n + 1] = t[n + 1]
      BY <1>1, <1>3, <3>1
    <3>4. F[n + 1] = G[n + 1]
      BY <2>2, <3>1, <3>2, <3>3
    <3>5. n + 1 >= m => n + 1 = m
      BY <1>3, <1>8, <2>3
    <3> QED
      BY <1>6, <2>1, <3>4, <3>5
  <2>4. CASE n >= m
    <3>1. n + 1 = m + (n + 1 - m) /\ n + 1 - m \in 1 .. l
      BY <1>3, <1>8, <2>4
    <3>2. n + 1 \notin L
      BY <1>1, <3>1
    <3>3. G[n + 1] = F[m]
      BY <1>6, <1>8, <2>2, <2>4, <3>2
    <3>4. ~(n + 1 <= m)
      BY <1>3, <1>8, <2>4
    <3> QED
      BY <1>6, <2>1, <3>3, <3>4
  <2> QED
    BY <1>3, <1>8, <2>3, <2>4
<1>9. m + l \in T
  <2>1. PICK n : n = m + l
    OBVIOUS
  <2>2. n \in Nat
    BY <1>3, <2>1
  <2>3. \A i \in 0 .. n : i \in T /\ i < n => i + 1 \in T
    BY <1>8, <2>1
  <2>4. 0 .. n \subseteq T
    BY <1>7, <2>2, <2>3, UpToBound
  <2> QED
    BY <2>1, <2>2, <2>4
<1> QED
  BY <1>2, <1>3, <1>4, <1>5, <1>6, <1>9 DEF Steps

\* RemoveAt closes the gap: what stands before k stays, the rest moves up.
LEMMA RemoveAtShape ==
  ASSUME NEW S, NEW s \in Seq(S), NEW k \in 1 .. Len(s)
  PROVE  /\ RemoveAt(s, k) \in Seq(S) /\ Len(RemoveAt(s, k)) = Len(s) - 1
         /\ \A i \in 1 .. Len(s) - 1 : RemoveAt(s, k)[i] = s[IF i < k THEN i ELSE i + 1]
<1>1. PICK m : m = Len(s)
  OBVIOUS
<1>2. m \in Nat /\ k \in 1 .. m /\ \A i \in 1 .. m : s[i] \in S
  BY <1>1, LenProperties
<1>3. PICK p : p = SubSeq(s, 1, k - 1)
  OBVIOUS
<1>4. PICK q : q = SubSeq(s, k + 1, m)
  OBVIOUS
<1>5. p \in Seq(S) /\ Len(p) = k - 1 /\ \A i \in 1 .. k - 1 : p[i] = s[i]
  <2>1. 1 \in Int /\ k - 1 \in Int /\ \A i \in 1 .. k - 1 : s[i] \in S
    BY <1>2
  <2>2. /\ SubSeq(s, 1, k - 1) \in Seq(S)
        /\ Len(SubSeq(s, 1, k - 1)) = IF 1 <= k - 1 THEN k - 1 - 1 + 1 ELSE 0
        /\ \A i \in 1 .. k - 1 - 1 + 1 : SubSeq(s, 1, k - 1)[i] = s[1 + i - 1]
    BY <2>1, SubSeqProperties
  <2> QED
    BY <1>2, <1>3, <2>2
<1>6. q \in Seq(S) /\ Len(q) = m - k /\ \A i \in 1 .. m - k : q[i] = s[k + i]
  <2>1. k + 1 \in Int /\ m \in Int /\ \A i \in k + 1 .. m : s[i] \in S
    BY <1>2
  <2>2. /\ SubSeq(s, k + 1, m) \in Seq(S)
        /\ Len(SubSeq(s, k + 1, m)) = IF k + 1 <= m THEN m - (k + 1) + 1 ELSE 0
        /\ \A i \in 1 .. m - (k + 1) + 1 : SubSeq(s, k + 1, m)[i] = s[k + 1 + i - 1]
    BY <2>1, SubSeqProperties
  <2> QED
    BY <1>2, <1>4, <2>2
<1>7. /\ p \o q \in Seq(S) /\ Len(p \o q) = m - 1
      /\ \A i \in 1 .. m - 1 : (p \o q)[i] = IF i <= k - 1 THEN p[i] ELSE q[i - (k - 1)]
  BY <1>2, <1>5, <1>6, ConcatProperties
<1>8. RemoveAt(s, k) = p \o q
  BY <1>1, <1>3, <1>4 DEF RemoveAt
<1>9. ASSUME NEW i \in 1 .. m - 1 PROVE (p \o q)[i] = s[IF i < k THEN i ELSE i + 1]
  <2>1. CASE i < k
    BY <1>2, <1>5, <1>7, <2>1
  <2>2. CASE ~(i < k)
    <3>1. i - (k - 1) \in 1 .. m - k /\ k + (i - (k - 1)) = i + 1 /\ ~(i <= k - 1)
      BY <1>2, <2>2
    <3> QED
      BY <1>6, <1>7, <2>2, <3>1
  <2> QED
    BY <2>1, <2>2
<1> QED
  BY <1>1, <1>7, <1>8, <1>9

\* Taking out what is not kept changes nothing in what is kept.
LEMMA KeptRemoved ==
  ASSUME NEW S, NEW s \in Seq(S), NEW k \in 1 .. Len(s), NEW K, NEW L, k \notin K,
         \A i \in 1 .. Len(s) - 1 : i \in L <=> (IF i < k THEN i ELSE i + 1) \in K
  PROVE  Kept(s, K) = Kept(RemoveAt(s, k), L)
<1>1. PICK m : m = Len(s)
  OBVIOUS
<1>2. PICK t : t = RemoveAt(s, k)
  OBVIOUS
<1>3. /\ m \in Nat /\ k \in 1 .. m /\ t \in Seq(S) /\ Len(t) = m - 1
      /\ \A i \in 1 .. m - 1 : t[i] = s[IF i < k THEN i ELSE i + 1]
  BY <1>1, <1>2, RemoveAtShape, LenProperties
<1>4. PICK F : Steps(s, K, m, F)
  BY <1>1, KeptSteps
<1>5. PICK G : Steps(t, L, m - 1, G)
  BY <1>3, KeptSteps
<1>6. PICK T : T = {n \in 0 .. m - 1 : G[n] = F[IF n < k THEN n ELSE n + 1]}
  OBVIOUS
<1>7. F[k] = F[k - 1]
  BY <1>3, <1>4 DEF Steps
<1>8. 0 \in T
  <2>1. 0 \in 0 .. m - 1 /\ 0 < k
    BY <1>3
  <2> QED
    BY <1>4, <1>5, <1>6, <2>1 DEF Steps
<1>9. m - 1 \in Nat
  BY <1>3
<1>10. ASSUME NEW n \in 0 .. m - 1, n \in T, n < m - 1 PROVE n + 1 \in T
  <2>1. n + 1 \in 1 .. m - 1 /\ n + 1 - 1 = n /\ n + 1 \in 0 .. m - 1
    BY <1>3, <1>10
  <2>2. G[n + 1] = IF n + 1 \in L THEN Append(G[n], t[n + 1]) ELSE G[n]
    BY <1>5, <2>1 DEF Steps
  <2>3. G[n] = F[IF n < k THEN n ELSE n + 1]
    BY <1>6, <1>10
  <2>4. CASE n + 1 < k
    <3>1. n < k /\ n + 1 \in 1 .. m
      BY <1>3, <1>10, <2>4
    <3>2. F[n + 1] = IF n + 1 \in K THEN Append(F[n], s[n + 1]) ELSE F[n]
      BY <1>4, <2>1, <3>1 DEF Steps
    <3>3. (n + 1 \in L <=> n + 1 \in K) /\ t[n + 1] = s[n + 1]
      BY <1>1, <1>3, <2>1, <2>4
    <3>4. G[n + 1] = F[n + 1]
      BY <2>2, <2>3, <3>1, <3>2, <3>3
    <3> QED
      BY <1>6, <2>1, <2>4, <3>4
  <2>5. CASE n + 1 >= k
    <3>1. n + 2 \in 1 .. m /\ ~(n + 1 < k) /\ n + 1 + 1 = n + 2 /\ n + 2 - 1 = n + 1
      BY <1>3, <1>10, <2>5
    <3>2. F[n + 2] = IF n + 2 \in K THEN Append(F[n + 1], s[n + 2]) ELSE F[n + 1]
      BY <1>4, <3>1 DEF Steps
    <3>3. (n + 1 \in L <=> n + 2 \in K) /\ t[n + 1] = s[n + 2]
      BY <1>1, <1>3, <2>1, <3>1
    <3>4. G[n] = F[n + 1]
      <4>1. CASE n < k
        <5>1. n + 1 = k
          BY <1>3, <1>10, <2>5, <4>1
        <5>2. n = k - 1
          BY <1>3, <1>10, <5>1
        <5> QED
          BY <1>7, <2>3, <4>1, <5>1, <5>2
      <4>2. CASE ~(n < k)
        BY <2>3, <4>2
      <4> QED
        BY <4>1, <4>2
    <3>5. G[n + 1] = F[n + 2]
      BY <2>2, <3>2, <3>3, <3>4
    <3>6. G[n + 1] = F[IF n + 1 < k THEN n + 1 ELSE n + 1 + 1]
      BY <3>1, <3>5
    <3> QED
      BY <1>6, <2>1, <3>6
  <2> QED
    BY <1>3, <1>10, <2>4, <2>5
<1>11. m - 1 \in T
  <2>1. 0 .. m - 1 \subseteq T
    BY <1>8, <1>9, <1>10, UpToBound
  <2> QED
    BY <1>9, <2>1
<1>12. G[m - 1] = F[IF m - 1 < k THEN m - 1 ELSE m - 1 + 1]
  BY <1>6, <1>11
<1>13. G[m - 1] = F[m]
  <2>1. CASE m - 1 < k
    <3>1. m = k
      BY <1>3, <2>1
    <3> QED
      BY <1>7, <1>12, <2>1, <3>1
  <2>2. CASE ~(m - 1 < k)
    <3>1. m - 1 + 1 = m
      BY <1>3
    <3> QED
      BY <1>12, <2>2, <3>1
  <2> QED
    BY <2>1, <2>2
<1> QED
  BY <1>2, <1>4, <1>5, <1>13 DEF Steps

\* The elements of x stand in s at places of K.
Comes(x, s, K, m) == \A i \in 1 .. Len(x) : \E k \in K \cap (1 .. m) : x[i] = s[k]

\* The first element of x stands in s at the first of the places K, the others behind.
Leads(x, s, K, m) ==
  \E k \in K \cap (1 .. m) :
    /\ x[1] = s[k] /\ \A j \in K \cap (1 .. m) : k <= j
    /\ \A i \in 2 .. Len(x) : \E j \in K \cap (1 .. m) : k < j /\ x[i] = s[j]

\* Kept elements come from kept places, the first from the first of them.
LEMMA KeptPlaces ==
  ASSUME NEW S, NEW s \in Seq(S), NEW K, NEW m, m = Len(s), NEW x, x = Kept(s, K)
  PROVE  /\ x \in Seq(S)
         /\ Comes(x, s, K, m)
         /\ x = <<>> => K \cap (1 .. m) = {}
         /\ x # <<>> => Leads(x, s, K, m)
<1>1. x \in Seq(S) /\ \E h : Embedded(x, s, K, m, h)
  BY KeptEmbedded
<1>2. PICK h : Embedded(x, s, K, m, h)
  BY <1>1
<1>3. PICK n : n = Len(x)
  OBVIOUS
<1>4. n \in Nat /\ (x = <<>> <=> n = 0)
  BY <1>1, <1>3, EmptySeq, LenProperties
<1>5. /\ \A i \in 1 .. n : h[i] \in K \cap (1 .. m) /\ x[i] = s[h[i]]
      /\ \A i, j \in 1 .. n : i < j => h[i] < h[j]
      /\ \A k \in K \cap (1 .. m) : \E i \in 1 .. n : h[i] = k
  BY <1>2, <1>3 DEF Embedded
<1>6. ASSUME x # <<>>
      PROVE  Leads(x, s, K, m)
  <2>1. 1 \in 1 .. n
    BY <1>4, <1>6
  <2>2. h[1] \in K \cap (1 .. m) /\ x[1] = s[h[1]]
    BY <1>5, <2>1
  <2>3. ASSUME NEW j \in K \cap (1 .. m) PROVE h[1] <= j
    <3>1. PICK i \in 1 .. n : h[i] = j
      BY <1>5
    <3>2. CASE i = 1
      BY <2>2, <3>1, <3>2
    <3>3. CASE i # 1
      <4>1. 1 < i
        BY <3>3
      <4>2. h[1] < j
        BY <1>5, <2>1, <3>1, <4>1
      <4> QED
        BY <2>2, <4>2
    <3> QED
      BY <3>2, <3>3
  <2>4. ASSUME NEW i \in 2 .. n PROVE \E j \in K \cap (1 .. m) : h[1] < j /\ x[i] = s[j]
    <3>1. i \in 1 .. n /\ 1 < i
      BY <1>4
    <3>2. h[1] < h[i] /\ h[i] \in K \cap (1 .. m) /\ x[i] = s[h[i]]
      BY <1>5, <2>1, <3>1
    <3> QED
      BY <3>2
  <2> QED
    BY <1>3, <2>2, <2>3, <2>4 DEF Leads
<1>7. ASSUME x = <<>> PROVE K \cap (1 .. m) = {}
  BY <1>4, <1>5, <1>7
<1>8. Comes(x, s, K, m)
  BY <1>3, <1>5 DEF Comes
<1> QED
  BY <1>1, <1>3, <1>6, <1>7, <1>8

\* The first of the kept places gives the first of the kept elements.
LEMMA KeptFirst ==
  ASSUME NEW S, NEW s \in Seq(S), NEW K, NEW k \in K, k \in 1 .. Len(s),
         \A j \in K : j \in 1 .. Len(s) => k <= j
  PROVE  Kept(s, K) # <<>> /\ Kept(s, K)[1] = s[k]
<1>1. PICK m, x : m = Len(s) /\ x = Kept(s, K)
  OBVIOUS
<1>2. m \in Nat /\ k \in K \cap (1 .. m)
  BY <1>1, LenProperties
<1>3. x # <<>>
  BY <1>1, <1>2, KeptPlaces
<1>4. PICK l \in K \cap (1 .. m) : x[1] = s[l] /\ \A j \in K \cap (1 .. m) : l <= j
  <2>1. Leads(x, s, K, m)
    BY <1>1, <1>3, KeptPlaces
  <2> QED
    BY <2>1 DEF Leads
<1>5. l <= k /\ k <= l
  BY <1>1, <1>2, <1>4
<1>6. l = k
  BY <1>2, <1>5
<1> QED
  BY <1>1, <1>3, <1>4, <1>6

-----------------------------------------------------------------------------
(* Changes of a table.                                                      *)

\* The rules of others in a table, and the identifiers in it.
OthersIn(s) == Kept(s, {k \in DOMAIN s : \A p \in Proc : s[k].mark # Mark[p]})
IdsOf(s) == {s[k].id : k \in DOMAIN s}
Own(r) == \E p \in Proc : r.mark = Mark[p]

\* Every rule of t is one of s, perhaps with another content, or has an identifier of U.
Descends(s, t, U) ==
  \A j \in DOMAIN t : \/ t[j].id \in U
                      \/ \E k \in DOMAIN s : t[j].id = s[k].id /\ t[j].mark = s[k].mark

\* What may become of a table: identifiers stay unique and others' rules as they are.
Keeps(s, t, U) == t \in Table /\ OthersIn(t) = OthersIn(s) /\ Descends(s, t, U)

\* A table as a sequence.
LEMMA TableShape ==
  ASSUME NEW s \in Table
  PROVE  /\ s \in Seq(Rule) /\ Len(s) \in Nat /\ DOMAIN s = 1 .. Len(s)
         /\ \A k \in 1 .. Len(s) : s[k] \in Rule
         /\ \A k, l \in 1 .. Len(s) : s[k].id = s[l].id => k = l
<1>1. s \in Seq(Rule) /\ \A k, l \in DOMAIN s : s[k].id = s[l].id => k = l
  BY DEF Table
<1>2. Len(s) \in Nat /\ DOMAIN s = 1 .. Len(s)
  BY <1>1, LenProperties
<1>3. \A k \in 1 .. Len(s) : s[k] \in Rule
  BY <1>1, ElementOfSeq
<1> QED
  BY <1>1, <1>2, <1>3

\* remove (nat.go:71, 87, 115).
LEMMA RemoveKeeps ==
  ASSUME NEW s \in Table, NEW k \in DOMAIN s, Own(s[k]), NEW U
  PROVE  Keeps(s, RemoveAt(s, k), U)
<1>1. PICK m, t : m = Len(s) /\ t = RemoveAt(s, k)
  OBVIOUS
<1>2. /\ s \in Seq(Rule) /\ m \in Nat /\ DOMAIN s = 1 .. m /\ k \in 1 .. m
      /\ \A i \in 1 .. m : s[i] \in Rule
      /\ \A i, j \in 1 .. m : s[i].id = s[j].id => i = j
  BY <1>1, TableShape
<1>3. /\ t \in Seq(Rule) /\ Len(t) = m - 1 /\ DOMAIN t = 1 .. m - 1
      /\ \A i \in 1 .. m - 1 : t[i] = s[IF i < k THEN i ELSE i + 1]
  <2>1. /\ t \in Seq(Rule) /\ Len(t) = m - 1
        /\ \A i \in 1 .. m - 1 : t[i] = s[IF i < k THEN i ELSE i + 1]
    BY <1>1, <1>2, RemoveAtShape
  <2>2. DOMAIN t = 1 .. m - 1
    BY <2>1, LenProperties
  <2> QED
    BY <2>1, <2>2
<1>4. \A i \in 1 .. m - 1 : (IF i < k THEN i ELSE i + 1) \in 1 .. m
  BY <1>2
<1>5. t \in Table
  <2>1. ASSUME NEW i \in 1 .. m - 1, NEW j \in 1 .. m - 1, t[i].id = t[j].id PROVE i = j
    <3>1. (IF i < k THEN i ELSE i + 1) = (IF j < k THEN j ELSE j + 1)
      BY <1>2, <1>3, <1>4, <2>1
    <3> QED
      BY <1>2, <3>1
  <2> QED
    BY <1>3, <2>1 DEF Table
<1>6. Descends(s, t, U)
  BY <1>2, <1>3, <1>4 DEF Descends
<1>7. OthersIn(t) = OthersIn(s)
  <2>1. PICK K : K = {i \in 1 .. m : \A p \in Proc : s[i].mark # Mark[p]}
    OBVIOUS
  <2>2. PICK L : L = {i \in 1 .. m - 1 : \A p \in Proc : t[i].mark # Mark[p]}
    OBVIOUS
  <2>3. k \notin K
    BY <2>1 DEF Own
  <2>4. \A i \in 1 .. m - 1 : i \in L <=> (IF i < k THEN i ELSE i + 1) \in K
    BY <1>3, <1>4, <2>1, <2>2
  <2>5. Kept(s, K) = Kept(t, L)
    BY <1>1, <1>2, <2>3, <2>4, KeptRemoved
  <2> QED
    BY <1>2, <1>3, <2>1, <2>2, <2>5 DEF OthersIn
<1> QED
  BY <1>1, <1>5, <1>6, <1>7 DEF Keeps

\* set: the rule stays where it is and keeps its identifier and marker (nat.go:101).
LEMMA SetKeeps ==
  ASSUME NEW s \in Table, NEW k \in DOMAIN s, Own(s[k]), NEW w \in Want, NEW U
  PROVE  Keeps(s, [s EXCEPT ![k] = Changed(s[k], w)], U)
<1>1. PICK m, t : m = Len(s) /\ t = [s EXCEPT ![k] = Changed(s[k], w)]
  OBVIOUS
<1>2. /\ s \in Seq(Rule) /\ m \in Nat /\ DOMAIN s = 1 .. m /\ k \in 1 .. m
      /\ \A i \in 1 .. m : s[i] \in Rule
      /\ \A i, j \in 1 .. m : s[i].id = s[j].id => i = j
  BY <1>1, TableShape
<1>3. PICK r : r = Changed(s[k], w)
  OBVIOUS
<1>4. r \in Rule /\ r.id = s[k].id /\ r.mark = s[k].mark
  BY <1>2, <1>3 DEF Changed, Rule, Want
<1>5. t \in Seq(Rule) /\ Len(t) = m /\ DOMAIN t = 1 .. m /\ \A i \in 1 .. m : t[i] = IF i = k THEN r ELSE s[i]
  <2>1. t \in Seq(Rule) /\ Len(t) = Len(s)
    BY <1>1, <1>2, <1>3, <1>4, ExceptSeq
  <2>2. \A i \in 1 .. m : t[i] = IF i = k THEN r ELSE s[i]
    BY <1>1, <1>2, <1>3
  <2> QED
    BY <1>1, <2>1, <2>2, LenProperties
<1>6. \A i \in 1 .. m : t[i].id = s[i].id /\ t[i].mark = s[i].mark
  BY <1>4, <1>5
<1>7. t \in Table
  BY <1>2, <1>5, <1>6 DEF Table
<1>8. Descends(s, t, U)
  BY <1>2, <1>5, <1>6 DEF Descends
<1>9. OthersIn(t) = OthersIn(s)
  <2>1. PICK K : K = {i \in 1 .. m : \A p \in Proc : s[i].mark # Mark[p]}
    OBVIOUS
  <2>2. K = {i \in 1 .. m : \A p \in Proc : t[i].mark # Mark[p]}
    BY <1>6, <2>1
  <2>3. k \notin K
    BY <2>1 DEF Own
  <2>4. \A i \in 1 .. Len(s) : (i \in K <=> i \in K) /\ (i \in K => s[i] = t[i])
    BY <1>1, <1>5, <2>3
  <2>5. Len(s) = Len(t)
    BY <1>1, <1>5
  <2>6. Kept(s, K) = Kept(t, K)
    BY <1>2, <1>5, <2>4, <2>5, KeptSame
  <2> QED
    BY <1>2, <1>5, <2>1, <2>2, <2>6 DEF OthersIn
<1> QED
  BY <1>1, <1>7, <1>8, <1>9 DEF Keeps

\* add, of one rule or, repeated, of two (nat.go:76, 90; binapi/client.go).
LEMMA AddKeeps ==
  ASSUME NEW s \in Table, NEW U, U \cap IdsOf(s) = {}, NEW x \in Table,
         \A i \in DOMAIN x : Own(x[i]) /\ x[i].id \in U
  PROVE  Keeps(s, s \o x, U)
<1>1. PICK m, l : m = Len(s) /\ l = Len(x)
  OBVIOUS
<1>2. PICK t : t = s \o x
  OBVIOUS
<1>3. /\ s \in Seq(Rule) /\ m \in Nat /\ DOMAIN s = 1 .. m
      /\ \A i \in 1 .. m : s[i] \in Rule
      /\ \A i, j \in 1 .. m : s[i].id = s[j].id => i = j
  BY <1>1, TableShape
<1>4. /\ x \in Seq(Rule) /\ l \in Nat /\ DOMAIN x = 1 .. l
      /\ \A i \in 1 .. l : x[i] \in Rule
      /\ \A i, j \in 1 .. l : x[i].id = x[j].id => i = j
  BY <1>1, TableShape
<1>5. t \in Seq(Rule) /\ Len(t) = m + l /\ DOMAIN t = 1 .. m + l
  BY <1>1, <1>2, <1>3, <1>4, ConcatProperties, LenProperties
<1>6. \A i \in 1 .. m + l : t[i] = IF i <= m THEN s[i] ELSE x[i - m]
  BY <1>1, <1>2, <1>3, <1>4, ConcatProperties
<1>7. (\A i \in 1 .. m : t[i] = s[i]) /\ (\A i \in 1 .. l : t[m + i] = x[i])
  BY <1>3, <1>4, <1>6
<1>8. ASSUME NEW i \in 1 .. m + l
      PROVE  i \in 1 .. m \/ (i - m \in 1 .. l /\ t[i] = x[i - m] /\ t[i].id \in U /\ Own(t[i]))
  <2>1. CASE i <= m
    BY <1>3, <2>1
  <2>2. CASE ~(i <= m)
    <3>1. i - m \in 1 .. l
      BY <1>3, <1>4, <2>2
    <3>2. t[i] = x[i - m]
      BY <1>6, <2>2
    <3> QED
      BY <1>4, <3>1, <3>2
  <2> QED
    BY <2>1, <2>2
<1>9. \A i \in 1 .. m : t[i].id \notin U
  BY <1>3, <1>7 DEF IdsOf
<1>10. t \in Table
  <2>1. ASSUME NEW i \in 1 .. m + l, NEW j \in 1 .. m + l, t[i].id = t[j].id PROVE i = j
    <3>1. CASE i \in 1 .. m /\ j \in 1 .. m
      BY <1>3, <1>7, <2>1, <3>1
    <3>2. CASE i \in 1 .. m /\ j \notin 1 .. m
      BY <1>8, <1>9, <2>1, <3>2
    <3>3. CASE i \notin 1 .. m /\ j \in 1 .. m
      BY <1>8, <1>9, <2>1, <3>3
    <3>4. CASE i \notin 1 .. m /\ j \notin 1 .. m
      <4>1. i - m \in 1 .. l /\ j - m \in 1 .. l /\ x[i - m].id = x[j - m].id
        BY <1>8, <2>1, <3>4
      <4>2. i - m = j - m
        BY <1>4, <4>1
      <4> QED
        BY <1>3, <4>2
    <3> QED
      BY <3>1, <3>2, <3>3, <3>4
  <2> QED
    BY <1>5, <2>1 DEF Table
<1>11. Descends(s, t, U)
  <2>1. ASSUME NEW j \in 1 .. m + l
        PROVE  t[j].id \in U \/ \E k \in 1 .. m : t[j].id = s[k].id /\ t[j].mark = s[k].mark
    BY <1>7, <1>8
  <2> QED
    BY <1>3, <1>5, <2>1 DEF Descends
<1>12. OthersIn(t) = OthersIn(s)
  <2>1. PICK K : K = {i \in 1 .. m : \A p \in Proc : s[i].mark # Mark[p]}
    OBVIOUS
  <2>2. PICK L : L = {i \in 1 .. m + l : \A p \in Proc : t[i].mark # Mark[p]}
    OBVIOUS
  <2>3. ASSUME NEW i \in 1 .. m PROVE i \in K <=> i \in L
    <3>1. i \in 1 .. m + l /\ t[i] = s[i]
      BY <1>3, <1>4, <1>7
    <3> QED
      BY <2>1, <2>2, <3>1
  <2>4. ASSUME NEW i \in 1 .. l PROVE m + i \notin L
    <3>1. m + i \in 1 .. m + l /\ m + i \notin 1 .. m
      BY <1>3, <1>4
    <3>2. Own(t[m + i])
      BY <1>8, <3>1
    <3> QED
      BY <2>2, <3>2 DEF Own
  <2>5. Kept(s, K) = Kept(t, L)
    BY <1>1, <1>2, <1>3, <1>4, <2>3, <2>4, KeptConcat
  <2> QED
    BY <1>3, <1>5, <2>1, <2>2, <2>5 DEF OthersIn
<1> QED
  BY <1>2, <1>10, <1>11, <1>12 DEF Keeps

-----------------------------------------------------------------------------
(* The invariant of the reconciler.                                         *)

TablesOK(T) == T = [f \in Fam |-> T[f]] /\ \A f \in Fam : T[f] \in Table

\* What actor p may be doing.
JobOK(j, p) ==
  /\ j = Doing(j.pc, j.fam, j.want, j.cur, j.ok)
  /\ j.pc \in {"idle", "list", "ensure", "recreate", "remove"} /\ j.ok \in BOOLEAN
  /\ j.want \in Want \union {Nil}
  /\ j.cur \in Seq({r \in Rule : r.mark = Mark[p]})
  /\ j.pc # "idle" => j.fam \in Fam
  /\ j.pc \in {"ensure", "recreate"} => j.want \in Want
  /\ j.pc = "remove" => j.want = Nil

JobsOK(J) == J = [p \in Proc |-> J[p]] /\ \A p \in Proc : JobOK(J[p], p)

\* An identifier an actor listed still names a rule of its marker, or none: a
\* new rule never gets it while somebody remembers it.
RememberedBy(T, p, j) ==
  \A i \in DOMAIN j.cur :
    /\ j.fam \in Fam
    /\ \A k \in DOMAIN T[j.fam] : T[j.fam][k].id = j.cur[i].id => T[j.fam][k].mark = Mark[p]

Remembered(T, J) == \A p \in Proc : RememberedBy(T, p, J[p])

NatInv == TablesOK(nat) /\ JobsOK(job) /\ Remembered(nat, job) /\ faults \in 0 .. MaxFaults

\* The type invariant is part of it.
LEMMA NatTypes == NatInv => NatTypeOK
<1> SUFFICES ASSUME NatInv PROVE NatTypeOK
  OBVIOUS
<1>1. ASSUME NEW f \in Fam PROVE ToSet(nat[f]) \subseteq Rule
  <2>1. nat[f] \in Table
    BY DEF NatInv, TablesOK
  <2> QED
    BY <2>1, TableShape DEF ToSet
<1>2. ASSUME NEW p \in Proc
      PROVE  /\ job[p].pc \in {"idle", "list", "ensure", "recreate", "remove"}
             /\ job[p].want \in Want \union {Nil}
             /\ \A r \in ToSet(job[p].cur) : r \in Rule /\ r.mark = Mark[p]
  <2>1. JobOK(job[p], p)
    BY DEF NatInv, JobsOK
  <2>2. \A i \in DOMAIN job[p].cur : job[p].cur[i] \in {r \in Rule : r.mark = Mark[p]}
    BY <2>1, ElementOfSeq, LenProperties DEF JobOK
  <2> QED
    BY <2>1, <2>2 DEF JobOK, ToSet
<1> QED
  BY <1>1, <1>2 DEF NatTypeOK, NatInv

\* What is free is not in use.
LEMMA FreeFacts ==
  /\ FreeIds \subseteq 1 .. MaxId
  /\ \A f \in Fam : FreeIds \cap IdsOf(nat[f]) = {}
  /\ \A p \in Proc : \A i \in DOMAIN job[p].cur : job[p].cur[i].id \notin FreeIds
  /\ \A S : S # {} => OneOf(S) \in S
<1>1. FreeIds \subseteq 1 .. MaxId
  BY DEF FreeIds
<1>2. ASSUME NEW f \in Fam, NEW k \in DOMAIN nat[f] PROVE nat[f][k].id \notin FreeIds
  <2>1. nat[f][k] \in UNION {ToSet(nat[g]) : g \in Fam}
    BY DEF ToSet
  <2> QED
    BY <2>1 DEF FreeIds
<1>3. ASSUME NEW p \in Proc, NEW i \in DOMAIN job[p].cur PROVE job[p].cur[i].id \notin FreeIds
  <2>1. job[p].cur[i] \in UNION {ToSet(job[q].cur) : q \in Proc}
    BY DEF ToSet
  <2> QED
    BY <2>1 DEF FreeIds
<1>4. \A f \in Fam : FreeIds \cap IdsOf(nat[f]) = {}
  BY <1>2 DEF IdsOf
<1>5. \A S : S # {} => OneOf(S) \in S
  BY DEF OneOf
<1> QED
  BY <1>1, <1>3, <1>4, <1>5

\* What a call leaves true, whoever makes it.
CallKeeps ==
  /\ TablesOK(nat') /\ Remembered(nat', job) /\ faults' \in 0 .. MaxFaults
  /\ \A f \in Fam : OthersIn(nat'[f]) = OthersIn(nat[f])

\* A table that was changed as calls and the operator change tables.
LEMMA TableChanges ==
  ASSUME NatInv, NEW f \in Fam, NEW t, Keeps(nat[f], t, FreeIds), nat' = [nat EXCEPT ![f] = t],
         faults' \in 0 .. MaxFaults
  PROVE  CallKeeps
<1>1. nat = [g \in Fam |-> nat[g]] /\ \A g \in Fam : nat[g] \in Table
  BY DEF NatInv, TablesOK
<1>2. nat' = [g \in Fam |-> IF g = f THEN t ELSE nat[g]]
  BY <1>1
<1>3. \A g \in Fam : nat'[g] = IF g = f THEN t ELSE nat[g]
  BY <1>2
<1>4. TablesOK(nat')
  <2>1. \A g \in Fam : nat'[g] \in Table
    BY <1>1, <1>3 DEF Keeps
  <2>2. nat' = [g \in Fam |-> nat'[g]]
    BY <1>2
  <2> QED
    BY <2>1, <2>2 DEF TablesOK
<1>5. \A g \in Fam : OthersIn(nat'[g]) = OthersIn(nat[g])
  BY <1>3 DEF Keeps
<1>6. ASSUME NEW p \in Proc PROVE RememberedBy(nat', p, job[p])
  <2>1. RememberedBy(nat, p, job[p])
    BY DEF NatInv, Remembered
  <2>2. ASSUME NEW i \in DOMAIN job[p].cur, job[p].fam = f,
               NEW k \in DOMAIN t, t[k].id = job[p].cur[i].id
        PROVE  t[k].mark = Mark[p]
    <3>1. t[k].id \notin FreeIds
      BY <2>2, FreeFacts
    <3>2. PICK l \in DOMAIN nat[f] : t[k].id = nat[f][l].id /\ t[k].mark = nat[f][l].mark
      BY <3>1 DEF Keeps, Descends
    <3> QED
      BY <2>1, <2>2, <3>2 DEF RememberedBy
  <2> QED
    BY <1>3, <2>1, <2>2 DEF RememberedBy
<1> QED
  BY <1>4, <1>5, <1>6 DEF CallKeeps, Remembered

\* A call that changed nothing.
LEMMA NothingChanges ==
  ASSUME NatInv, UNCHANGED nat, faults' \in 0 .. MaxFaults
  PROVE  CallKeeps
BY DEF NatInv, CallKeeps

\* The count of failed calls.
LEMMA Counted ==
  ASSUME NatInv, NEW ok \in BOOLEAN, NEW clean \in BOOLEAN, Answered(ok, clean)
  PROVE  faults' \in 0 .. MaxFaults
BY NatAssumption DEF NatInv, Answered

\* The rule an actor listed, if the table still has it.
LEMMA Listed ==
  ASSUME NatInv, NEW p \in Proc, NEW i \in DOMAIN job[p].cur, NEW f, f = job[p].fam,
         NEW id, id = job[p].cur[i].id, \E r \in ToSet(nat[f]) : r.id = id
  PROVE  /\ f \in Fam /\ nat[f] \in Table
         /\ PlaceOf(nat[f], id) \in DOMAIN nat[f]
         /\ nat[f][PlaceOf(nat[f], id)].id = id
         /\ nat[f][PlaceOf(nat[f], id)].mark = Mark[p]
<1>1. RememberedBy(nat, p, job[p])
  BY DEF NatInv, Remembered
<1>2. f \in Fam /\ \A k \in DOMAIN nat[f] : nat[f][k].id = id => nat[f][k].mark = Mark[p]
  BY <1>1 DEF RememberedBy
<1>3. \E k \in DOMAIN nat[f] : nat[f][k].id = id
  BY DEF ToSet
<1>4. PlaceOf(nat[f], id) \in DOMAIN nat[f] /\ nat[f][PlaceOf(nat[f], id)].id = id
  BY <1>3 DEF PlaceOf
<1>5. nat[f] \in Table
  BY <1>2 DEF NatInv, TablesOK
<1> QED
  BY <1>2, <1>4, <1>5

\* remove of a rule that was listed (nat.go:71, 87, 115).
LEMMA CallRemoveKeeps ==
  ASSUME NatInv, NEW p \in Proc, NEW i \in DOMAIN job[p].cur, NEW done \in BOOLEAN, NEW ok \in BOOLEAN,
         CallRemove(job[p].fam, job[p].cur[i].id, done, ok)
  PROVE  CallKeeps
<1>1. PICK f : f = job[p].fam
  OBVIOUS
<1>2. PICK id : id = job[p].cur[i].id
  OBVIOUS
<1>3. CallRemove(f, id, done, ok)
  BY <1>1, <1>2
<1>4. faults' \in 0 .. MaxFaults
  <2>1. CASE \E r \in ToSet(nat[f]) : r.id = id
    BY <1>3, <2>1, Counted DEF CallRemove
  <2>2. CASE ~(\E r \in ToSet(nat[f]) : r.id = id)
    BY <1>3, <2>2 DEF CallRemove, NatInv
  <2> QED
    BY <2>1, <2>2
<1>5. CASE done = FALSE
  <2>1. UNCHANGED nat
    BY <1>3, <1>5 DEF CallRemove
  <2> QED
    BY <1>4, <2>1, NothingChanges
<1>6. CASE done = TRUE
  <2>1. \E r \in ToSet(nat[f]) : r.id = id
    BY <1>3, <1>6 DEF CallRemove
  <2>2. PICK k : k = PlaceOf(nat[f], id)
    OBVIOUS
  <2>3. f \in Fam /\ nat[f] \in Table /\ k \in DOMAIN nat[f] /\ nat[f][k].mark = Mark[p]
    BY <1>1, <1>2, <2>1, <2>2, Listed
  <2>4. nat' = [nat EXCEPT ![f] = RemoveAt(nat[f], k)]
    BY <1>3, <1>6, <2>2, <2>3 DEF CallRemove
  <2>5. Own(nat[f][k])
    BY <2>3 DEF Own
  <2>6. Keeps(nat[f], RemoveAt(nat[f], k), FreeIds)
    BY <2>3, <2>5, RemoveKeeps
  <2> QED
    BY <1>4, <2>3, <2>4, <2>6, TableChanges
<1> QED
  BY <1>5, <1>6

\* set of a rule that was listed (nat.go:101).
LEMMA CallSetKeeps ==
  ASSUME NatInv, NEW p \in Proc, NEW i \in DOMAIN job[p].cur, NEW done \in BOOLEAN, NEW ok \in BOOLEAN,
         NEW w \in Want, CallSet(job[p].fam, job[p].cur[i].id, w, done, ok)
  PROVE  CallKeeps
<1>1. PICK f : f = job[p].fam
  OBVIOUS
<1>2. PICK id : id = job[p].cur[i].id
  OBVIOUS
<1>3. CallSet(f, id, w, done, ok)
  BY <1>1, <1>2
<1>4. faults' \in 0 .. MaxFaults
  <2>1. CASE \E r \in ToSet(nat[f]) : r.id = id
    BY <1>3, <2>1, Counted DEF CallSet
  <2>2. CASE ~(\E r \in ToSet(nat[f]) : r.id = id)
    BY <1>3, <2>2 DEF CallSet, NatInv
  <2> QED
    BY <2>1, <2>2
<1>5. CASE done = FALSE
  <2>1. UNCHANGED nat
    BY <1>3, <1>5 DEF CallSet
  <2> QED
    BY <1>4, <2>1, NothingChanges
<1>6. CASE done = TRUE
  <2>1. \E r \in ToSet(nat[f]) : r.id = id
    BY <1>3, <1>6 DEF CallSet
  <2>2. PICK k : k = PlaceOf(nat[f], id)
    OBVIOUS
  <2>3. f \in Fam /\ nat[f] \in Table /\ k \in DOMAIN nat[f] /\ nat[f][k].mark = Mark[p]
    BY <1>1, <1>2, <2>1, <2>2, Listed
  <2>4. nat' = [nat EXCEPT ![f] = [nat[f] EXCEPT ![k] = Changed(nat[f][k], w)]]
    BY <1>3, <1>6, <2>2, <2>3 DEF CallSet
  <2>5. Own(nat[f][k])
    BY <2>3 DEF Own
  <2>6. Keeps(nat[f], [nat[f] EXCEPT ![k] = Changed(nat[f][k], w)], FreeIds)
    BY <2>3, <2>5, SetKeeps
  <2> QED
    BY <1>4, <2>3, <2>4, <2>6, TableChanges
<1> QED
  BY <1>5, <1>6

\* The first n of two.
LEMMA FirstOfTwo ==
  ASSUME NEW a, NEW b, NEW n \in 0 .. 2, NEW x, x = SubSeq(<<a, b>>, 1, n)
  PROVE  /\ x \in Seq({a, b}) /\ Len(x) = n /\ DOMAIN x = 1 .. n
         /\ \A i \in 1 .. n : x[i] = IF i = 1 THEN a ELSE b
<1>1. PICK s : s = <<a, b>>
  OBVIOUS
<1>2. s[1] = a /\ s[2] = b
  BY <1>1
<1>3. \A i \in 1 .. n : (i = 1 \/ i = 2) /\ s[i] \in {a, b}
  BY <1>2
<1>4. /\ SubSeq(s, 1, n) \in Seq({a, b})
      /\ Len(SubSeq(s, 1, n)) = IF 1 <= n THEN n - 1 + 1 ELSE 0
      /\ \A i \in 1 .. n - 1 + 1 : SubSeq(s, 1, n)[i] = s[1 + i - 1]
  <2>1. PICK S : S = {a, b}
    OBVIOUS
  <2>2. s \in Seq(S) /\ Len(s) = 2
    BY <1>1, <2>1
  <2>3. 1 \in Int /\ n \in Int /\ \A i \in 1 .. n : s[i] \in S
    BY <1>3, <2>1
  <2>4. /\ SubSeq(s, 1, n) \in Seq(S)
        /\ Len(SubSeq(s, 1, n)) = IF 1 <= n THEN n - 1 + 1 ELSE 0
        /\ \A i \in 1 .. n - 1 + 1 : SubSeq(s, 1, n)[i] = s[1 + i - 1]
    BY <2>2, <2>3, SubSeqProperties
  <2> QED
    BY <2>1, <2>4
<1>5. x \in Seq({a, b}) /\ Len(x) = n /\ \A i \in 1 .. n : x[i] = s[i]
  BY <1>1, <1>4
<1>6. DOMAIN x = 1 .. n
  BY <1>5, LenProperties
<1> QED
  BY <1>2, <1>3, <1>5, <1>6

\* add, sent once or twice (nat.go:76, 90).
LEMMA CallAddKeeps ==
  ASSUME NatInv, NEW p \in Proc, NEW f \in Fam, NEW w \in Want, NEW n \in 0 .. 2, NEW ok \in BOOLEAN,
         CallAdd(p, f, w, n, ok)
  PROVE  CallKeeps
<1>1. PICK i : i = OneOf(FreeIds)
  OBVIOUS
<1>2. PICK j : j = OneOf(FreeIds \ {i})
  OBVIOUS
<1>3. PICK a : a = NewRule(p, i, w)
  OBVIOUS
<1>4. PICK b : b = NewRule(p, j, w)
  OBVIOUS
<1>5. PICK x : x = SubSeq(<<a, b>>, 1, n)
  OBVIOUS
<1>6. /\ n > 0 => FreeIds # {}
      /\ n > 1 => FreeIds \ {i} # {}
      /\ Answered(ok, n = 1)
      /\ nat' = [nat EXCEPT ![f] = @ \o x]
  BY <1>1, <1>2, <1>3, <1>4, <1>5 DEF CallAdd
<1>7. faults' \in 0 .. MaxFaults
  BY <1>6, Counted
<1>8. nat[f] \in Table
  BY DEF NatInv, TablesOK
<1>9. \A k \in FreeIds : /\ NewRule(p, k, w) \in Rule /\ Own(NewRule(p, k, w))
                         /\ NewRule(p, k, w).id = k
  BY FreeFacts, NatAssumption DEF NewRule, Rule, Want, Own
<1>10. n > 0 => i \in FreeIds /\ a \in Rule /\ Own(a) /\ a.id = i
  BY <1>1, <1>3, <1>6, <1>9, FreeFacts
<1>11. n > 1 => j \in FreeIds \ {i}
  BY <1>2, <1>6, FreeFacts
<1>12. n > 1 => j # i /\ j \in FreeIds /\ b \in Rule /\ Own(b) /\ b.id = j
  BY <1>4, <1>9, <1>11
<1>13. /\ x \in Seq({a, b}) /\ Len(x) = n /\ DOMAIN x = 1 .. n
       /\ \A k \in 1 .. n : x[k] = IF k = 1 THEN a ELSE b
  BY <1>5, FirstOfTwo
<1>14. ASSUME NEW k \in 1 .. n
       PROVE  x[k] \in Rule /\ Own(x[k]) /\ x[k].id \in FreeIds /\ x[k].id = IF k = 1 THEN i ELSE j
  <2>1. CASE k = 1
    BY <1>10, <1>13, <2>1
  <2>2. CASE k # 1
    <3>1. n > 1
      BY <2>2
    <3> QED
      BY <1>12, <1>13, <2>2, <3>1
  <2> QED
    BY <2>1, <2>2
<1>15. x \in Table
  <2>1. x \in Seq(Rule)
    <3>1. x = [k \in 1 .. n |-> x[k]]
      BY <1>13
    <3>2. x \in [1 .. n -> Rule]
      BY <1>14, <3>1
    <3> QED
      BY <3>2
  <2>2. ASSUME NEW k \in 1 .. n, NEW l \in 1 .. n, x[k].id = x[l].id PROVE k = l
    <3>1. CASE n > 1
      BY <1>12, <1>14, <2>2, <3>1
    <3>2. CASE ~(n > 1)
      BY <3>2
    <3> QED
      BY <3>1, <3>2
  <2> QED
    BY <1>13, <2>1, <2>2 DEF Table
<1>16. \A k \in DOMAIN x : Own(x[k]) /\ x[k].id \in FreeIds
  BY <1>13, <1>14
<1>17. Keeps(nat[f], nat[f] \o x, FreeIds)
  BY <1>8, <1>15, <1>16, FreeFacts, AddKeeps
<1>18. nat' = [nat EXCEPT ![f] = nat[f] \o x]
  BY <1>6
<1> QED
  BY <1>7, <1>17, <1>18, TableChanges

-----------------------------------------------------------------------------
(* The operations.                                                          *)

\* An actor goes on to j.
LEMMA JobMoves ==
  ASSUME NatInv, CallKeeps, NEW p \in Proc, NEW j, JobOK(j, p), RememberedBy(nat', p, j),
         job' = [job EXCEPT ![p] = j]
  PROVE  NatInv'
<1>1. job' = [q \in Proc |-> IF q = p THEN j ELSE job[q]]
  BY DEF NatInv, JobsOK
<1>2. \A q \in Proc : job'[q] = IF q = p THEN j ELSE job[q]
  BY <1>1
<1>3. JobsOK(job')
  <2>1. job' = [q \in Proc |-> job'[q]]
    BY <1>1
  <2>2. \A q \in Proc : JobOK(job'[q], q)
    BY <1>2 DEF NatInv, JobsOK
  <2> QED
    BY <2>1, <2>2 DEF JobsOK
<1>4. Remembered(nat', job')
  BY <1>2 DEF CallKeeps, Remembered
<1> QED
  BY <1>3, <1>4 DEF CallKeeps, NatInv

\* The fields of what Doing makes.
LEMMA DoingFields ==
  ASSUME NEW pc, NEW f, NEW w, NEW c, NEW ok, NEW j, j = Doing(pc, f, w, c, ok)
  PROVE  /\ j.pc = pc /\ j.fam = f /\ j.want = w /\ j.cur = c /\ j.ok = ok
         /\ j = Doing(j.pc, j.fam, j.want, j.cur, j.ok)
BY DEF Doing

\* An operation ends.
LEMMA Ends ==
  ASSUME NatInv, CallKeeps, NEW p \in Proc, NEW ok \in BOOLEAN, job' = [job EXCEPT ![p] = Idle(ok)]
  PROVE  NatInv'
<1>1. PICK j : j = Idle(ok)
  OBVIOUS
<1>2. /\ j.pc = "idle" /\ j.want = Nil /\ j.cur = <<>> /\ j.ok = ok
      /\ j = Doing(j.pc, j.fam, j.want, j.cur, j.ok)
  BY <1>1, DoingFields DEF Idle
<1>3. JobOK(j, p)
  BY <1>2 DEF JobOK
<1>4. RememberedBy(nat', p, j)
  BY <1>2 DEF RememberedBy
<1> QED
  BY <1>1, <1>3, <1>4, JobMoves

\* Rules that p listed before.
Rest(p, c) ==
  /\ c \in Seq({r \in Rule : r.mark = Mark[p]})
  /\ \A i \in DOMAIN c : \E k \in DOMAIN job[p].cur : c[i] = job[p].cur[k]

\* An operation goes on with some of them.
LEMMA GoesOn ==
  ASSUME NatInv, CallKeeps, NEW p \in Proc, NEW pc \in {"ensure", "recreate", "remove"},
         NEW c, Rest(p, c),
         job[p].pc # "idle", IF pc = "remove" THEN job[p].want = Nil ELSE job[p].want \in Want,
         job' = [job EXCEPT ![p] = Goes(job[p], pc, c)]
  PROVE  NatInv'
<1>1. PICK j : j = Goes(job[p], pc, c)
  OBVIOUS
<1>2. JobOK(job[p], p)
  BY DEF NatInv, JobsOK
<1>3. /\ j.pc = pc /\ j.fam = job[p].fam /\ j.want = job[p].want /\ j.cur = c /\ j.ok = job[p].ok
      /\ j = Doing(j.pc, j.fam, j.want, j.cur, j.ok)
  BY <1>1, DoingFields DEF Goes
<1>4. JobOK(j, p)
  BY <1>2, <1>3 DEF JobOK, Rest
<1>5. RememberedBy(nat', p, j)
  <2>1. RememberedBy(nat', p, job[p])
    BY DEF CallKeeps, Remembered
  <2> QED
    BY <1>3, <2>1 DEF RememberedBy, Rest
<1> QED
  BY <1>1, <1>4, <1>5, JobMoves

\* What list keeps are rules of the actor (nat.go:229-242).
LEMMA OursAreOurs ==
  ASSUME NEW s \in Table, NEW p \in Proc
  PROVE  /\ Ours(p, s) \in Seq({r \in Rule : r.mark = Mark[p]})
         /\ \A i \in DOMAIN Ours(p, s) : \E k \in DOMAIN s : Ours(p, s)[i] = s[k] /\ s[k].mark = Mark[p]
<1>1. PICK K, x : K = {k \in DOMAIN s : s[k].mark = Mark[p]} /\ x = Kept(s, K)
  OBVIOUS
<1>2. x = Ours(p, s)
  BY <1>1 DEF Ours
<1>3. s \in Seq(Rule) /\ DOMAIN s = 1 .. Len(s) /\ \A k \in 1 .. Len(s) : s[k] \in Rule
  BY TableShape
<1>4. x \in Seq(Rule) /\ \A i \in 1 .. Len(x) : \E k \in K \cap (1 .. Len(s)) : x[i] = s[k]
  <2>1. PICK m : m = Len(s)
    OBVIOUS
  <2>2. s \in Seq(Rule)
    BY <1>3
  <2>3. x = Kept(s, K)
    BY <1>1
  <2>4. x \in Seq(Rule)
    BY <2>1, <2>2, <2>3, KeptPlaces
  <2>5. Comes(x, s, K, m)
    BY <2>1, <2>2, <2>3, KeptPlaces
  <2> QED
    BY <2>1, <2>4, <2>5 DEF Comes
<1>5. DOMAIN x = 1 .. Len(x) /\ Len(x) \in Nat
  BY <1>4, LenProperties
<1>6. \A i \in 1 .. Len(x) : \E k \in DOMAIN s : x[i] = s[k] /\ s[k].mark = Mark[p] /\ s[k] \in Rule
  BY <1>1, <1>3, <1>4
<1>7. x \in Seq({r \in Rule : r.mark = Mark[p]})
  <2>1. x = [i \in 1 .. Len(x) |-> x[i]]
    BY <1>4, <1>5
  <2>2. \A i \in 1 .. Len(x) : x[i] \in {r \in Rule : r.mark = Mark[p]}
    BY <1>6
  <2>3. x \in [1 .. Len(x) -> {r \in Rule : r.mark = Mark[p]}]
    BY <2>1, <2>2
  <2> QED
    BY <1>5, <2>3
<1> QED
  BY <1>2, <1>5, <1>6, <1>7

\* What an actor's progress holds.
LEMMA ProgressFacts ==
  ASSUME NatInv, NEW p \in Proc
  PROVE  /\ JobOK(job[p], p)
         /\ Len(job[p].cur) \in Nat /\ DOMAIN job[p].cur = 1 .. Len(job[p].cur)
         /\ \A i \in DOMAIN job[p].cur : job[p].cur[i] \in Rule /\ job[p].cur[i].mark = Mark[p]
         /\ job[p].cur = <<>> <=> Len(job[p].cur) = 0
<1>1. JobOK(job[p], p)
  BY DEF NatInv, JobsOK
<1>2. PICK c : c = job[p].cur
  OBVIOUS
<1>3. c \in Seq({r \in Rule : r.mark = Mark[p]})
  BY <1>1, <1>2 DEF JobOK
<1>4. Len(c) \in Nat /\ DOMAIN c = 1 .. Len(c) /\ (c = <<>> <=> Len(c) = 0)
  BY <1>3, LenProperties, EmptySeq
<1>5. \A i \in DOMAIN c : c[i] \in {r \in Rule : r.mark = Mark[p]}
  BY <1>3, <1>4, ElementOfSeq
<1> QED
  BY <1>1, <1>2, <1>4, <1>5

\* list (nat.go:229-242).
LEMMA ListKeeps ==
  ASSUME NatInv, NEW p \in Proc, NEW ok \in BOOLEAN, List(p, ok)
  PROVE  NatInv' /\ CallKeeps
<1>1. faults' \in 0 .. MaxFaults
  BY Counted DEF List
<1>2. CallKeeps
  BY <1>1, NothingChanges DEF List
<1>3. CASE ok = FALSE
  <2>1. job' = [job EXCEPT ![p] = Idle(FALSE)]
    BY <1>3 DEF List
  <2> QED
    BY <1>2, <2>1, Ends
<1>4. CASE ok = TRUE
  <2>1. PICK pc : pc = IF job[p].want = Nil THEN "remove" ELSE "ensure"
    OBVIOUS
  <2>2. JobOK(job[p], p) /\ job[p].pc = "list"
    BY ProgressFacts DEF List
  <2>3. PICK f : f = job[p].fam
    OBVIOUS
  <2>4. f \in Fam /\ nat[f] \in Table
    BY <2>2, <2>3 DEF JobOK, NatInv, TablesOK
  <2>5. PICK c : c = Ours(p, nat[f])
    OBVIOUS
  <2>6. /\ c \in Seq({r \in Rule : r.mark = Mark[p]})
        /\ \A i \in DOMAIN c : \E k \in DOMAIN nat[f] : c[i] = nat[f][k] /\ nat[f][k].mark = Mark[p]
    BY <2>4, <2>5, OursAreOurs
  <2>7. PICK j : j = Goes(job[p], pc, c)
    OBVIOUS
  <2>8. job' = [job EXCEPT ![p] = j]
    BY <1>4, <2>1, <2>3, <2>5, <2>7 DEF List, NatInv, JobsOK
  <2>9. /\ j.pc = pc /\ j.fam = f /\ j.want = job[p].want /\ j.cur = c /\ j.ok = job[p].ok
        /\ j = Doing(j.pc, j.fam, j.want, j.cur, j.ok)
    BY <2>3, <2>7, DoingFields DEF Goes
  <2>10. JobOK(j, p)
    BY <2>1, <2>2, <2>4, <2>6, <2>9 DEF JobOK
  <2>11. RememberedBy(nat', p, j)
    <3>1. nat' = nat
      BY DEF List
    <3>2. \A k, l \in DOMAIN nat[f] : nat[f][k].id = nat[f][l].id => k = l
      BY <2>4 DEF Table
    <3> QED
      BY <2>4, <2>6, <2>9, <3>1, <3>2 DEF RememberedBy
  <2> QED
    BY <1>2, <2>8, <2>10, <2>11, JobMoves
<1> QED
  BY <1>2, <1>3, <1>4

\* remove of a rule beyond the first (nat.go:69-73).
LEMMA RemoveExtraKeeps ==
  ASSUME NatInv, NEW p \in Proc, NEW done \in BOOLEAN, NEW ok \in BOOLEAN, RemoveExtra(p, done, ok)
  PROVE  NatInv' /\ CallKeeps
<1>1. PICK c : c = job[p].cur
  OBVIOUS
<1>2. JobOK(job[p], p) /\ job[p].pc = "ensure" /\ Len(c) > 1 /\ Len(c) \in Nat /\ DOMAIN c = 1 .. Len(c)
  BY <1>1, ProgressFacts DEF RemoveExtra
<1>3. 2 \in DOMAIN c
  BY <1>2
<1>4. CallKeeps
  BY <1>1, <1>3, CallRemoveKeeps DEF RemoveExtra
<1>5. PICK d : d = RemoveAt(c, 2)
  OBVIOUS
<1>6. PICK S : S = {r \in Rule : r.mark = Mark[p]}
  OBVIOUS
<1>7. c \in Seq(S)
  BY <1>1, <1>2, <1>6 DEF JobOK
<1>8. /\ d \in Seq(S) /\ Len(d) = Len(c) - 1
      /\ \A i \in 1 .. Len(c) - 1 : d[i] = c[IF i < 2 THEN i ELSE i + 1]
  <2>1. PICK k : k = 2
    OBVIOUS
  <2>2. k \in 1 .. Len(c)
    BY <1>2, <2>1
  <2>3. /\ RemoveAt(c, k) \in Seq(S) /\ Len(RemoveAt(c, k)) = Len(c) - 1
        /\ \A i \in 1 .. Len(c) - 1 : RemoveAt(c, k)[i] = c[IF i < k THEN i ELSE i + 1]
    BY <1>7, <2>2, RemoveAtShape
  <2> QED
    BY <1>5, <2>1, <2>3
<1>9. DOMAIN d = 1 .. Len(c) - 1
  BY <1>8, LenProperties
<1>10. Rest(p, d)
  <2>1. \A i \in DOMAIN d : \E k \in DOMAIN c : d[i] = c[k]
    BY <1>2, <1>8, <1>9
  <2> QED
    BY <1>1, <1>6, <1>8, <2>1 DEF Rest
<1>11. job[p].want \in Want
  BY <1>2 DEF JobOK
<1>12. job' = [job EXCEPT ![p] = Goes(job[p], "ensure", d)]
  BY <1>1, <1>5 DEF RemoveExtra, NatInv, JobsOK
<1>13. NatInv'
  BY <1>2, <1>4, <1>10, <1>11, <1>12, GoesOn
<1> QED
  BY <1>4, <1>13

\* An operation ends, or goes on with what it listed.
LEMMA EndsOrGoesOn ==
  ASSUME NatInv, CallKeeps, NEW p \in Proc, NEW ok \in BOOLEAN, NEW pc \in {"recreate", "remove"},
         NEW c, Rest(p, c),
         job[p].pc # "idle", IF pc = "remove" THEN job[p].want = Nil ELSE job[p].want \in Want,
         job' = [job EXCEPT ![p] = IF ok THEN Goes(job[p], pc, c) ELSE Idle(FALSE)]
  PROVE  NatInv'
<1>1. CASE ok = FALSE
  <2>1. job' = [job EXCEPT ![p] = Idle(FALSE)]
    BY <1>1
  <2> QED
    BY <2>1, Ends
<1>2. CASE ok = TRUE
  <2>1. job' = [job EXCEPT ![p] = Goes(job[p], pc, c)]
    BY <1>2
  <2>2. pc \in {"ensure", "recreate", "remove"}
    OBVIOUS
  <2> QED
    BY <2>1, <2>2, GoesOn
<1> QED
  BY <1>1, <1>2

\* The steps of Ensure that end it, or take its last rule (nat.go:57-106).
LEMMA EnsureKeeps ==
  ASSUME NatInv, NEW p \in Proc,
         \/ \E n \in 0 .. 2, ok \in BOOLEAN : AddMissing(p, n, ok) \/ Recreate(p, n, ok)
         \/ \E done, ok \in BOOLEAN : RemoveOtherChain(p, done, ok) \/ SetDiff(p, done, ok)
  PROVE  NatInv' /\ CallKeeps
<1>1. JobOK(job[p], p)
  BY ProgressFacts
<1>2. ASSUME NEW n \in 0 .. 2, NEW ok \in BOOLEAN, AddMissing(p, n, ok) \/ Recreate(p, n, ok)
      PROVE  NatInv' /\ CallKeeps
  <2>1. /\ job[p].pc \in {"ensure", "recreate"}
        /\ CallAdd(p, job[p].fam, job[p].want, n, ok)
        /\ job' = [job EXCEPT ![p] = Idle(ok)]
    BY <1>2 DEF AddMissing, Recreate
  <2>2. job[p].fam \in Fam /\ job[p].want \in Want
    BY <1>1, <2>1 DEF JobOK
  <2>3. CallKeeps
    BY <2>1, <2>2, CallAddKeeps
  <2> QED
    BY <2>1, <2>3, Ends
<1>3. ASSUME NEW done \in BOOLEAN, NEW ok \in BOOLEAN, RemoveOtherChain(p, done, ok)
      PROVE  NatInv' /\ CallKeeps
  <2>1. /\ job[p].pc = "ensure" /\ Len(job[p].cur) = 1
        /\ CallRemove(job[p].fam, job[p].cur[1].id, done, ok)
        /\ job' = [job EXCEPT ![p] = IF ok THEN Goes(job[p], "recreate", job[p].cur) ELSE Idle(FALSE)]
    BY <1>3 DEF RemoveOtherChain, NatInv, JobsOK
  <2>2. 1 \in DOMAIN job[p].cur
    BY <2>1, ProgressFacts
  <2>3. CallKeeps
    BY <2>1, <2>2, CallRemoveKeeps
  <2>4. job[p].want \in Want /\ Rest(p, job[p].cur)
    BY <1>1, <2>1 DEF JobOK, Rest
  <2>5. NatInv'
    BY <2>1, <2>3, <2>4, EndsOrGoesOn
  <2> QED
    BY <2>3, <2>5
<1>4. ASSUME NEW done \in BOOLEAN, NEW ok \in BOOLEAN, SetDiff(p, done, ok)
      PROVE  NatInv' /\ CallKeeps
  <2>1. /\ job[p].pc = "ensure" /\ Len(job[p].cur) = 1
        /\ job' = [job EXCEPT ![p] = Idle(ok)]
    BY <1>4 DEF SetDiff
  <2>2. 1 \in DOMAIN job[p].cur
    BY <2>1, ProgressFacts
  <2>3. job[p].want \in Want
    BY <1>1, <2>1 DEF JobOK
  <2>4. CallKeeps
    <3>1. CASE UNCHANGED <<nat, faults>>
      BY <3>1, NothingChanges DEF NatInv
    <3>2. CASE CallSet(job[p].fam, job[p].cur[1].id, job[p].want, done, ok)
      BY <2>2, <2>3, <3>2, CallSetKeeps
    <3> QED
      BY <1>4, <3>1, <3>2 DEF SetDiff
  <2> QED
    BY <2>1, <2>4, Ends
<1> QED
  BY <1>2, <1>3, <1>4

\* Remove (nat.go:108-123).
LEMMA RemoveKeepsInv ==
  ASSUME NatInv, NEW p \in Proc,
         RemoveDone(p) \/ \E done, ok \in BOOLEAN : RemoveNext(p, done, ok)
  PROVE  NatInv' /\ CallKeeps
<1>1. CASE RemoveDone(p)
  <2>1. CallKeeps
    BY <1>1, NothingChanges DEF RemoveDone, NatInv
  <2> QED
    BY <1>1, <2>1, Ends DEF RemoveDone
<1>2. ASSUME NEW done \in BOOLEAN, NEW ok \in BOOLEAN, RemoveNext(p, done, ok)
      PROVE  NatInv' /\ CallKeeps
  <2>1. PICK c : c = job[p].cur
    OBVIOUS
  <2>2. PICK S : S = {r \in Rule : r.mark = Mark[p]}
    OBVIOUS
  <2>3. /\ c \in Seq(S) /\ c # <<>> /\ Len(c) \in Nat /\ DOMAIN c = 1 .. Len(c) /\ Len(c) # 0
        /\ job[p].pc = "remove" /\ job[p].want = Nil
    BY <1>2, <2>1, <2>2, ProgressFacts DEF RemoveNext, JobOK
  <2>4. PICK d : d = Tail(c)
    OBVIOUS
  <2>5. d \in Seq(S) /\ Len(d) = Len(c) - 1 /\ Head(c) = c[1] /\ \A i \in 1 .. Len(d) : d[i] = c[i + 1]
    BY <2>3, <2>4, HeadTailProperties
  <2>6. DOMAIN d = 1 .. Len(d)
    BY <2>5, LenProperties
  <2>7. 1 \in DOMAIN c /\ \A i \in DOMAIN d : \E k \in DOMAIN c : d[i] = c[k]
    BY <2>3, <2>5, <2>6
  <2>8. CallRemove(job[p].fam, c[1].id, done, ok)
    BY <1>2, <2>1, <2>5 DEF RemoveNext
  <2>9. CallKeeps
    BY <2>1, <2>7, <2>8, CallRemoveKeeps
  <2>10. job' = [job EXCEPT ![p] = IF ok THEN Goes(job[p], "remove", d) ELSE Idle(FALSE)]
    BY <1>2, <2>1, <2>4 DEF RemoveNext, NatInv, JobsOK
  <2>11. Rest(p, d)
    BY <2>1, <2>2, <2>5, <2>7 DEF Rest
  <2>12. NatInv'
    BY <2>3, <2>9, <2>10, <2>11, EndsOrGoesOn
  <2> QED
    BY <2>9, <2>12
<1> QED
  BY <1>1, <1>2

\* Any call of any actor.
LEMMA ReconcileKeeps ==
  ASSUME NatInv, NEW p \in Proc, Reconcile(p)
  PROVE  NatInv' /\ \A f \in Fam : Foreign(f)' = Foreign(f)
<1>1. NatInv' /\ CallKeeps
  BY ListKeeps, RemoveExtraKeeps, EnsureKeeps, RemoveKeepsInv DEF Reconcile
<1> QED
  BY <1>1 DEF CallKeeps, OthersIn, Foreign

\* Ensure or Remove is called (main.go:219-404).
LEMMA CallStarts ==
  ASSUME NatInv, NEW p \in Proc, NEW f \in Fam, NEW w \in Want \union {Nil},
         faults' \in 0 .. MaxFaults, UNCHANGED nat,
         job' = [job EXCEPT ![p] = Doing("list", f, w, <<>>, FALSE)]
  PROVE  NatInv'
<1>1. PICK j : j = Doing("list", f, w, <<>>, FALSE)
  OBVIOUS
<1>2. /\ j.pc = "list" /\ j.fam = f /\ j.want = w /\ j.cur = <<>> /\ j.ok \in BOOLEAN
      /\ j = Doing(j.pc, j.fam, j.want, j.cur, j.ok)
  <2>1. PICK ok \in BOOLEAN : ok = FALSE
    OBVIOUS
  <2>2. j = Doing("list", f, w, <<>>, ok)
    BY <1>1, <2>1
  <2> QED
    BY <2>2, DoingFields
<1>3. JobOK(j, p)
  BY <1>2 DEF JobOK
<1>4. RememberedBy(nat', p, j)
  BY <1>2 DEF RememberedBy
<1>5. CallKeeps
  BY NothingChanges
<1> QED
  BY <1>1, <1>3, <1>4, <1>5, JobMoves

\* Nobody calls.
LEMMA NobodyCalls == NatInv /\ UNCHANGED nat /\ UNCHANGED job /\ faults' \in 0 .. MaxFaults => NatInv'
BY DEF NatInv

\* The operator deletes, changes or copies a rule of one of the actors.
LEMMA EditKeeps ==
  ASSUME NatInv, NEW f \in Fam, NEW k \in DOMAIN nat[f], Own(nat[f][k]), UNCHANGED <<job, faults>>,
         \/ nat' = [nat EXCEPT ![f] = RemoveAt(@, k)]
         \/ \E w \in Want : nat' = [nat EXCEPT ![f][k] = Changed(@, w)]
         \/ FreeIds # {} /\ nat' = [nat EXCEPT ![f] = Append(@, [@[k] EXCEPT !.id = OneOf(FreeIds)])]
  PROVE  NatInv' /\ \A g \in Fam : Foreign(g)' = Foreign(g)
<1>1. nat[f] \in Table /\ faults' \in 0 .. MaxFaults
  BY DEF NatInv, TablesOK
<1>2. ASSUME nat' = [nat EXCEPT ![f] = RemoveAt(@, k)] PROVE CallKeeps
  <2>1. Keeps(nat[f], RemoveAt(nat[f], k), FreeIds)
    BY <1>1, RemoveKeeps
  <2>2. nat' = [nat EXCEPT ![f] = RemoveAt(nat[f], k)]
    BY <1>2
  <2> QED
    BY <1>1, <2>1, <2>2, TableChanges
<1>3. ASSUME NEW w \in Want, nat' = [nat EXCEPT ![f][k] = Changed(@, w)] PROVE CallKeeps
  <2>1. Keeps(nat[f], [nat[f] EXCEPT ![k] = Changed(nat[f][k], w)], FreeIds)
    BY <1>1, SetKeeps
  <2>2. nat' = [nat EXCEPT ![f] = [nat[f] EXCEPT ![k] = Changed(nat[f][k], w)]]
    BY <1>3
  <2> QED
    BY <1>1, <2>1, <2>2, TableChanges
<1>4. ASSUME FreeIds # {}, nat' = [nat EXCEPT ![f] = Append(@, [@[k] EXCEPT !.id = OneOf(FreeIds)])]
      PROVE  CallKeeps
  <2>1. PICK i : i = OneOf(FreeIds)
    OBVIOUS
  <2>2. i \in FreeIds /\ i \in 1 .. MaxId
    BY <1>4, <2>1, FreeFacts
  <2>3. PICK r : r = [nat[f][k] EXCEPT !.id = i]
    OBVIOUS
  <2>4. nat[f] \in Seq(Rule) /\ nat[f][k] \in Rule
    BY <1>1, TableShape
  <2>5. r \in Rule /\ r.id = i /\ r.mark = nat[f][k].mark
    BY <2>2, <2>3, <2>4 DEF Rule
  <2>6. PICK x : x = <<r>>
    OBVIOUS
  <2>7. x \in Seq(Rule) /\ DOMAIN x = {1} /\ x[1] = r
    BY <2>5, <2>6
  <2>8. x \in Table
    BY <2>7 DEF Table
  <2>9. \A j \in DOMAIN x : Own(x[j]) /\ x[j].id \in FreeIds
    BY <2>2, <2>5, <2>7 DEF Own
  <2>10. Keeps(nat[f], nat[f] \o x, FreeIds)
    BY <1>1, <2>8, <2>9, FreeFacts, AddKeeps
  <2>11. Append(nat[f], r) = nat[f] \o x
    BY <2>4, <2>5, <2>6, AppendIsConcat
  <2>12. nat' = [nat EXCEPT ![f] = nat[f] \o x]
    BY <1>4, <2>1, <2>3, <2>11
  <2> QED
    BY <1>1, <2>10, <2>12, TableChanges
<1>5. CallKeeps
  BY <1>2, <1>3, <1>4
<1>6. NatInv'
  BY <1>5 DEF CallKeeps, NatInv
<1> QED
  BY <1>5, <1>6 DEF CallKeeps, OthersIn, Foreign

\* An actor whose operation has ended makes no call, and nobody else's changes.
LEMMA OwnJobOnly ==
  ASSUME NatInv, NEW p \in Proc, Reconcile(p)
  PROVE  job[p].pc # "idle" /\ \A q \in Proc : q # p => job'[q] = job[q]
<1>1. job = [q \in Proc |-> job[q]]
  BY DEF NatInv, JobsOK
<1>2. ASSUME NEW j, job' = [job EXCEPT ![p] = j] PROVE \A q \in Proc : q # p => job'[q] = job[q]
  BY <1>1, <1>2
<1>3. job[p].pc # "idle"
  BY DEF Reconcile, List, RemoveExtra, AddMissing, RemoveOtherChain, Recreate, SetDiff, RemoveNext, RemoveDone
<1>4. \E j : job' = [job EXCEPT ![p] = j]
  BY DEF Reconcile, List, RemoveExtra, AddMissing, RemoveOtherChain, Recreate, SetDiff, RemoveNext, RemoveDone
<1> QED
  BY <1>2, <1>3, <1>4

\* Nothing is under way at first.
LEMMA AtRest ==
  ASSUME TablesOK(nat), faults \in 0 .. MaxFaults, job = [p \in Proc |-> Idle(TRUE)]
  PROVE  NatInv /\ \A p \in Proc : job[p].pc = "idle"
<1>1. PICK ok \in BOOLEAN : ok = TRUE
  OBVIOUS
<1>2. PICK j : j = Idle(ok)
  OBVIOUS
<1>3. /\ j.pc = "idle" /\ j.want = Nil /\ j.cur = <<>> /\ j.ok = ok
      /\ j = Doing(j.pc, j.fam, j.want, j.cur, j.ok)
  BY <1>2, DoingFields DEF Idle
<1>4. job = [p \in Proc |-> j]
  BY <1>1, <1>2
<1>5. ASSUME NEW p \in Proc PROVE JobOK(job[p], p) /\ RememberedBy(nat, p, job[p]) /\ job[p].pc = "idle"
  <2>1. job[p] = j
    BY <1>4
  <2>2. JobOK(j, p)
    BY <1>3 DEF JobOK
  <2>3. RememberedBy(nat, p, j)
    BY <1>3 DEF RememberedBy
  <2> QED
    BY <1>3, <2>1, <2>2, <2>3
<1>6. job = [p \in Proc |-> job[p]]
  BY <1>4
<1> QED
  BY <1>5, <1>6 DEF NatInv, JobsOK, Remembered

-----------------------------------------------------------------------------
(* The rule in force: the first of an actor's rules in a table.             *)

\* The first rule of p's marker is at place k.
FirstAt(p, s, k) ==
  /\ k \in DOMAIN s /\ s[k].mark = Mark[p]
  /\ \A j \in DOMAIN s : s[j].mark = Mark[p] => k <= j

\* It says what w says.
Serves(p, s, w) == \E k \in DOMAIN s : FirstAt(p, s, k) /\ s[k].chain = w.chain /\ s[k].val = w.val

\* What the actor lists first is what is in force.
LEMMA FirstOurs ==
  ASSUME NEW s \in Table, NEW p \in Proc
  PROVE  /\ \A k \in DOMAIN s : FirstAt(p, s, k) => Ours(p, s) # <<>> /\ Ours(p, s)[1] = s[k]
         /\ Ours(p, s) # <<>> => \E k \in DOMAIN s :
              /\ FirstAt(p, s, k) /\ Ours(p, s)[1] = s[k]
              /\ \A i \in 2 .. Len(Ours(p, s)) : Ours(p, s)[i].id # s[k].id
<1>1. PICK K, x : K = {k \in DOMAIN s : s[k].mark = Mark[p]} /\ x = Kept(s, K)
  OBVIOUS
<1>2. x = Ours(p, s)
  BY <1>1 DEF Ours
<1>3. PICK m : m = Len(s)
  OBVIOUS
<1>4. /\ s \in Seq(Rule) /\ m \in Nat /\ DOMAIN s = 1 .. m
      /\ \A i, j \in 1 .. m : s[i].id = s[j].id => i = j
  BY <1>3, TableShape
<1>5. K \cap (1 .. m) = K
  BY <1>1, <1>4
<1>6. ASSUME NEW k \in DOMAIN s, FirstAt(p, s, k) PROVE x # <<>> /\ x[1] = s[k]
  <2>1. k \in K /\ k \in 1 .. Len(s) /\ \A j \in K : j \in 1 .. Len(s) => k <= j
    BY <1>1, <1>3, <1>4, <1>6 DEF FirstAt
  <2>2. Kept(s, K) # <<>> /\ Kept(s, K)[1] = s[k]
    BY <1>4, <2>1, KeptFirst
  <2> QED
    BY <1>1, <2>2
<1>7. ASSUME x # <<>>
      PROVE  \E k \in DOMAIN s : /\ FirstAt(p, s, k) /\ x[1] = s[k]
                                 /\ \A i \in 2 .. Len(x) : x[i].id # s[k].id
  <2>1. x = Kept(s, K)
    BY <1>1
  <2>2. Leads(x, s, K, m)
    BY <1>3, <1>4, <1>7, <2>1, KeptPlaces
  <2>3. PICK k \in K : /\ x[1] = s[k] /\ \A j \in K : k <= j
                       /\ \A i \in 2 .. Len(x) : \E j \in K : k < j /\ x[i] = s[j]
    BY <1>5, <2>2 DEF Leads
  <2>4. FirstAt(p, s, k)
    BY <1>1, <2>3 DEF FirstAt
  <2>5. ASSUME NEW i \in 2 .. Len(x) PROVE x[i].id # s[k].id
    <3>1. PICK j \in K : k < j /\ x[i] = s[j]
      BY <2>3
    <3>2. j \in 1 .. m /\ k \in 1 .. m /\ j # k
      BY <1>5, <3>1
    <3> QED
      BY <1>4, <3>1, <3>2
  <2> QED
    BY <1>1, <2>3, <2>4, <2>5
<1> QED
  BY <1>2, <1>6, <1>7

\* There is one place.
LEMMA OneFirst ==
  ASSUME NEW s \in Table, NEW p \in Proc, NEW k, NEW l, FirstAt(p, s, k), FirstAt(p, s, l)
  PROVE  k = l
<1>1. DOMAIN s = 1 .. Len(s) /\ Len(s) \in Nat
  BY TableShape
<1>2. k \in 1 .. Len(s) /\ l \in 1 .. Len(s) /\ k <= l /\ l <= k
  BY <1>1 DEF FirstAt
<1> QED
  BY <1>2

\* Another rule is removed.
LEMMA FirstAfterRemove ==
  ASSUME NEW s \in Table, NEW p \in Proc, NEW k, FirstAt(p, s, k), NEW l \in DOMAIN s, l # k
  PROVE  \E h \in DOMAIN RemoveAt(s, l) : FirstAt(p, RemoveAt(s, l), h) /\ RemoveAt(s, l)[h] = s[k]
<1>1. PICK m, t : m = Len(s) /\ t = RemoveAt(s, l)
  OBVIOUS
<1>2. s \in Seq(Rule) /\ m \in Nat /\ DOMAIN s = 1 .. m /\ l \in 1 .. m
  BY <1>1, TableShape
<1>3. /\ t \in Seq(Rule) /\ Len(t) = m - 1
      /\ \A i \in 1 .. m - 1 : t[i] = s[IF i < l THEN i ELSE i + 1]
  BY <1>1, <1>2, RemoveAtShape
<1>4. DOMAIN t = 1 .. m - 1
  BY <1>3, LenProperties
<1>5. k \in 1 .. m /\ s[k].mark = Mark[p] /\ \A j \in 1 .. m : s[j].mark = Mark[p] => k <= j
  BY <1>2 DEF FirstAt
<1>6. PICK h : h = IF k < l THEN k ELSE k - 1
  OBVIOUS
<1>7. h \in 1 .. m - 1 /\ (IF h < l THEN h ELSE h + 1) = k
  BY <1>2, <1>5, <1>6
<1>8. t[h] = s[k]
  BY <1>3, <1>7
<1>9. ASSUME NEW j \in 1 .. m - 1, t[j].mark = Mark[p] PROVE h <= j
  <2>1. PICK i : i = IF j < l THEN j ELSE j + 1
    OBVIOUS
  <2>2. i \in 1 .. m /\ s[i].mark = Mark[p]
    BY <1>2, <1>3, <1>9, <2>1
  <2>3. k <= i
    BY <1>5, <2>2
  <2> QED
    BY <1>2, <1>5, <1>6, <2>1, <2>3
<1> QED
  BY <1>1, <1>4, <1>5, <1>7, <1>8, <1>9 DEF FirstAt

\* Rules are added behind it.
LEMMA FirstAfterAdd ==
  ASSUME NEW s \in Table, NEW p \in Proc, NEW k, FirstAt(p, s, k), NEW x \in Seq(Rule)
  PROVE  FirstAt(p, s \o x, k) /\ (s \o x)[k] = s[k] /\ k \in DOMAIN (s \o x)
<1>1. PICK m, l : m = Len(s) /\ l = Len(x)
  OBVIOUS
<1>2. PICK t : t = s \o x
  OBVIOUS
<1>3. s \in Seq(Rule) /\ m \in Nat /\ l \in Nat /\ DOMAIN s = 1 .. m
  BY <1>1, TableShape, LenProperties
<1>4. /\ t \in Seq(Rule) /\ Len(t) = m + l
      /\ \A i \in 1 .. m + l : t[i] = IF i <= m THEN s[i] ELSE x[i - m]
  BY <1>1, <1>2, <1>3, ConcatProperties
<1>5. DOMAIN t = 1 .. m + l
  BY <1>4, LenProperties
<1>6. k \in 1 .. m /\ s[k].mark = Mark[p] /\ \A j \in 1 .. m : s[j].mark = Mark[p] => k <= j
  BY <1>3 DEF FirstAt
<1>7. k \in 1 .. m + l /\ t[k] = s[k]
  BY <1>3, <1>4, <1>6
<1>8. ASSUME NEW j \in 1 .. m + l, t[j].mark = Mark[p] PROVE k <= j
  <2>1. CASE j <= m
    <3>1. j \in 1 .. m /\ t[j] = s[j]
      BY <1>3, <1>4, <2>1
    <3> QED
      BY <1>6, <1>8, <3>1
  <2>2. CASE ~(j <= m)
    BY <1>3, <1>6, <2>2
  <2> QED
    BY <2>1, <2>2
<1> QED
  BY <1>2, <1>5, <1>6, <1>7, <1>8 DEF FirstAt

\* It is set.
LEMMA FirstAfterSet ==
  ASSUME NEW s \in Table, NEW p \in Proc, NEW k, FirstAt(p, s, k), NEW w \in Want
  PROVE  Serves(p, [s EXCEPT ![k] = Changed(s[k], w)], w)
<1>1. PICK t, r : t = [s EXCEPT ![k] = Changed(s[k], w)] /\ r = Changed(s[k], w)
  OBVIOUS
<1>2. PICK m : m = Len(s)
  OBVIOUS
<1>3. s \in Seq(Rule) /\ m \in Nat /\ DOMAIN s = 1 .. m /\ s = [i \in 1 .. m |-> s[i]]
  BY <1>2, TableShape
<1>4. DOMAIN t = 1 .. m /\ \A i \in 1 .. m : t[i] = IF i = k THEN r ELSE s[i]
  BY <1>1, <1>3
<1>5. r.mark = s[k].mark /\ r.chain = w.chain /\ r.val = w.val
  BY <1>1 DEF Changed
<1>6. k \in 1 .. m /\ s[k].mark = Mark[p] /\ \A j \in 1 .. m : s[j].mark = Mark[p] => k <= j
  BY <1>3 DEF FirstAt
<1>7. t[k] = r /\ \A j \in 1 .. m : t[j].mark = s[j].mark
  BY <1>4, <1>5, <1>6
<1>8. FirstAt(p, t, k)
  BY <1>4, <1>5, <1>6, <1>7 DEF FirstAt
<1> QED
  BY <1>1, <1>4, <1>5, <1>6, <1>7, <1>8 DEF Serves

\* What becomes of the tables when a listed rule is removed or set, or one is added.
Removed(f, id) ==
  \/ nat' = nat
  \/ \E l \in DOMAIN nat[f] : /\ f \in Fam /\ nat[f][l].id = id
                              /\ nat' = [nat EXCEPT ![f] = RemoveAt(nat[f], l)]
WasSet(f, id, w) ==
  \/ nat' = nat
  \/ \E l \in DOMAIN nat[f] : /\ f \in Fam /\ nat[f][l].id = id
                              /\ nat' = [nat EXCEPT ![f] = [nat[f] EXCEPT ![l] = Changed(nat[f][l], w)]]
Longer(f) == \E x \in Seq(Rule) : nat' = [nat EXCEPT ![f] = nat[f] \o x]

\* What remove and set of a listed rule do to the tables (nat.go:71, 87, 101, 115).
LEMMA CallEffects ==
  ASSUME NatInv, NEW p \in Proc, NEW f, f = job[p].fam, NEW done \in BOOLEAN, NEW ok \in BOOLEAN
  PROVE  \A i \in DOMAIN job[p].cur :
           /\ CallRemove(f, job[p].cur[i].id, done, ok) => Removed(f, job[p].cur[i].id)
           /\ \A w : CallSet(f, job[p].cur[i].id, w, done, ok) => WasSet(f, job[p].cur[i].id, w)
<1>1. ASSUME NEW i \in DOMAIN job[p].cur, CallRemove(f, job[p].cur[i].id, done, ok)
      PROVE  Removed(f, job[p].cur[i].id)
  <2>1. CASE done = FALSE
    BY <1>1, <2>1 DEF CallRemove, Removed
  <2>2. CASE done = TRUE
    <3>1. PICK id : id = job[p].cur[i].id
      OBVIOUS
    <3>2. \E r \in ToSet(nat[f]) : r.id = id
      BY <1>1, <2>2, <3>1 DEF CallRemove
    <3>3. PICK l : l = PlaceOf(nat[f], id)
      OBVIOUS
    <3>4. f \in Fam /\ l \in DOMAIN nat[f] /\ nat[f][l].id = id
      BY <3>1, <3>2, <3>3, Listed
    <3>5. nat' = [nat EXCEPT ![f] = RemoveAt(nat[f], l)]
      BY <1>1, <2>2, <3>1, <3>3 DEF CallRemove
    <3> QED
      BY <3>1, <3>4, <3>5 DEF Removed
  <2> QED
    BY <2>1, <2>2
<1>2. ASSUME NEW i \in DOMAIN job[p].cur, NEW w, CallSet(f, job[p].cur[i].id, w, done, ok)
      PROVE  WasSet(f, job[p].cur[i].id, w)
  <2>1. CASE done = FALSE
    BY <1>2, <2>1 DEF CallSet, WasSet
  <2>2. CASE done = TRUE
    <3>1. PICK id : id = job[p].cur[i].id
      OBVIOUS
    <3>2. \E r \in ToSet(nat[f]) : r.id = id
      BY <1>2, <2>2, <3>1 DEF CallSet
    <3>3. PICK l : l = PlaceOf(nat[f], id)
      OBVIOUS
    <3>4. f \in Fam /\ l \in DOMAIN nat[f] /\ nat[f][l].id = id
      BY <3>1, <3>2, <3>3, Listed
    <3>5. nat' = [nat EXCEPT ![f] = [nat[f] EXCEPT ![l] = Changed(nat[f][l], w)]]
      BY <1>2, <2>2, <3>1, <3>3 DEF CallSet
    <3> QED
      BY <3>1, <3>4, <3>5 DEF WasSet
  <2> QED
    BY <2>1, <2>2
<1> QED
  BY <1>1, <1>2

\* What an add puts into the table is a sequence of rules.
LEMMA AddEffect ==
  ASSUME NatInv, NEW p \in Proc, NEW f \in Fam, NEW w \in Want, NEW n \in 0 .. 2, NEW ok \in BOOLEAN,
         CallAdd(p, f, w, n, ok)
  PROVE  Longer(f)
<1>1. PICK i : i = OneOf(FreeIds)
  OBVIOUS
<1>2. PICK j : j = OneOf(FreeIds \ {i})
  OBVIOUS
<1>3. PICK a, b : a = NewRule(p, i, w) /\ b = NewRule(p, j, w)
  OBVIOUS
<1>4. PICK x : x = SubSeq(<<a, b>>, 1, n)
  OBVIOUS
<1>5. /\ n > 0 => FreeIds # {}
      /\ n > 1 => FreeIds \ {i} # {}
      /\ nat' = [nat EXCEPT ![f] = nat[f] \o x]
  BY <1>1, <1>2, <1>3, <1>4 DEF CallAdd
<1>6. \A k \in FreeIds : NewRule(p, k, w) \in Rule
  BY FreeFacts, NatAssumption DEF NewRule, Rule, Want
<1>7. (n > 0 => a \in Rule) /\ (n > 1 => b \in Rule)
  <2>1. n > 0 => i \in FreeIds
    BY <1>1, <1>5, FreeFacts
  <2>2. n > 1 => j \in FreeIds \ {i}
    BY <1>2, <1>5, FreeFacts
  <2> QED
    BY <1>3, <1>6, <2>1, <2>2
<1>8. Len(x) = n /\ DOMAIN x = 1 .. n /\ x \in Seq({a, b}) /\ \A k \in 1 .. n : x[k] = IF k = 1 THEN a ELSE b
  BY <1>4, FirstOfTwo
<1>9. \A k \in 1 .. n : x[k] \in Rule
  BY <1>7, <1>8
<1>10. x = [k \in 1 .. n |-> x[k]]
  BY <1>8
<1>11. x \in [1 .. n -> Rule]
  BY <1>9, <1>10
<1>12. x \in Seq(Rule)
  BY <1>11
<1> QED
  BY <1>5, <1>12 DEF Longer

\* What p has listed first in Ensure is the rule in force, and the others it
\* listed are others.
Synced(s, p, j) ==
  j.pc = "ensure" /\ j.cur # <<>> =>
    \E k \in DOMAIN s : /\ FirstAt(p, s, k) /\ j.cur[1] = s[k]
                        /\ \A i \in 2 .. Len(j.cur) : j.cur[i].id # s[k].id

\* A rule that goes is not the first of those listed (nat.go:69-73).
LEMMA ExtraGoes ==
  ASSUME NatInv, NEW p \in Proc, NEW f \in Fam, f = job[p].fam, Synced(nat[f], p, job[p]),
         NEW done \in BOOLEAN, NEW ok \in BOOLEAN, RemoveExtra(p, done, ok)
  PROVE  /\ Synced(nat'[f], p, job'[p])
         /\ \A w : Serves(p, nat[f], w) => Serves(p, nat'[f], w)
<1>1. PICK c : c = job[p].cur
  OBVIOUS
<1>2. PICK s : s = nat[f]
  OBVIOUS
<1>3. /\ job[p].pc = "ensure" /\ Len(c) > 1 /\ Len(c) \in Nat /\ DOMAIN c = 1 .. Len(c) /\ c # <<>>
      /\ JobOK(job[p], p)
  BY <1>1, ProgressFacts DEF RemoveExtra
<1>4. s \in Table
  BY <1>2 DEF NatInv, TablesOK
<1>5. PICK k \in DOMAIN s : /\ FirstAt(p, s, k) /\ c[1] = s[k]
                            /\ \A i \in 2 .. Len(c) : c[i].id # s[k].id
  BY <1>1, <1>2, <1>3 DEF Synced
<1>6. PICK i : i = 2
  OBVIOUS
<1>7. i \in DOMAIN c /\ i \in 2 .. Len(c)
  BY <1>3, <1>6
<1>8. CallRemove(f, c[i].id, done, ok)
  BY <1>1, <1>6 DEF RemoveExtra
<1>9. \/ nat' = nat
      \/ \E l \in DOMAIN s : /\ s[l].id = c[i].id
                              /\ nat' = [nat EXCEPT ![f] = RemoveAt(s, l)]
  <2>1. Removed(f, c[i].id)
    BY <1>1, <1>7, <1>8, CallEffects
  <2> QED
    BY <1>2, <2>1 DEF Removed
<1>10. PICK t : t = nat'[f]
  OBVIOUS
<1>11. \E h \in DOMAIN t : FirstAt(p, t, h) /\ t[h] = s[k]
  <2>1. CASE nat' = nat
    BY <1>2, <1>5, <1>10, <2>1
  <2>2. ASSUME NEW l \in DOMAIN s, s[l].id = c[i].id, nat' = [nat EXCEPT ![f] = RemoveAt(s, l)]
        PROVE  \E h \in DOMAIN t : FirstAt(p, t, h) /\ t[h] = s[k]
    <3>1. l # k
      BY <1>5, <1>7, <2>2
    <3>2. t = RemoveAt(s, l)
      BY <1>10, <2>2 DEF NatInv, TablesOK
    <3> QED
      BY <1>4, <1>5, <3>1, <3>2, FirstAfterRemove
  <2> QED
    BY <1>9, <2>1, <2>2
<1>12. PICK h \in DOMAIN t : FirstAt(p, t, h) /\ t[h] = s[k]
  BY <1>11
<1>13. PICK d : d = RemoveAt(c, i)
  OBVIOUS
<1>14. /\ Len(d) = Len(c) - 1
       /\ \A j \in 1 .. Len(c) - 1 : d[j] = c[IF j < i THEN j ELSE j + 1]
  <2>1. PICK S : S = {r \in Rule : r.mark = Mark[p]}
    OBVIOUS
  <2>2. c \in Seq(S)
    BY <1>1, <1>3, <2>1 DEF JobOK
  <2>3. i \in 1 .. Len(c)
    BY <1>3, <1>7
  <2> QED
    BY <1>13, <2>2, <2>3, RemoveAtShape
<1>15. job'[p].pc = "ensure" /\ job'[p].cur = d
  <2>1. job'[p] = Goes(job[p], "ensure", d)
    BY <1>1, <1>6, <1>13 DEF RemoveExtra, NatInv, JobsOK
  <2> QED
    BY <2>1 DEF Goes, Doing
<1>16. d[1] = t[h]
  <2>1. 1 \in 1 .. Len(c) - 1 /\ 1 < i
    BY <1>3, <1>6
  <2> QED
    BY <1>5, <1>12, <1>14, <2>1
<1>17. ASSUME NEW j \in 2 .. Len(d) PROVE d[j].id # t[h].id
  <2>1. j \in 1 .. Len(c) - 1 /\ ~(j < i) /\ j + 1 \in 2 .. Len(c)
    BY <1>3, <1>6, <1>14
  <2>2. d[j] = c[j + 1]
    BY <1>14, <2>1
  <2> QED
    BY <1>5, <1>12, <2>1, <2>2
<1>18. Synced(t, p, job'[p])
  BY <1>12, <1>15, <1>16, <1>17 DEF Synced
<1>19. ASSUME NEW w, Serves(p, s, w) PROVE Serves(p, t, w)
  <2>1. PICK l \in DOMAIN s : FirstAt(p, s, l) /\ s[l].chain = w.chain /\ s[l].val = w.val
    BY <1>19 DEF Serves
  <2>2. l = k
    BY <1>4, <1>5, <2>1, OneFirst
  <2> QED
    BY <1>12, <2>1, <2>2 DEF Serves
<1> QED
  BY <1>2, <1>10, <1>18, <1>19

\* A rule in force that says what Ensure wants is left alone, or set to it again
\* (nat.go:57-106).
LEMMA EnsureServes ==
  ASSUME NatInv, NEW p \in Proc, NEW f \in Fam, f = job[p].fam, Synced(nat[f], p, job[p]),
         NEW w \in Want, job[p].want = w, Reconcile(p), Serves(p, nat[f], w)
  PROVE  Serves(p, nat'[f], w)
<1>1. PICK s, t : s = nat[f] /\ t = nat'[f]
  OBVIOUS
<1>2. s \in Table /\ nat = [g \in Fam |-> nat[g]]
  BY <1>1 DEF NatInv, TablesOK
<1>3. PICK k \in DOMAIN s : FirstAt(p, s, k) /\ s[k].chain = w.chain /\ s[k].val = w.val
  BY <1>1 DEF Serves
<1>4. CASE nat' = nat
  BY <1>4
<1>5. ASSUME NEW done \in BOOLEAN, NEW ok \in BOOLEAN, RemoveExtra(p, done, ok)
      PROVE  Serves(p, t, w)
  BY <1>1, <1>5, ExtraGoes
<1>6. ASSUME NEW n \in 0 .. 2, NEW ok \in BOOLEAN, AddMissing(p, n, ok) \/ Recreate(p, n, ok)
      PROVE  Serves(p, t, w)
  <2>1. CallAdd(p, f, w, n, ok)
    BY <1>6 DEF AddMissing, Recreate
  <2>2. PICK x \in Seq(Rule) : nat' = [nat EXCEPT ![f] = nat[f] \o x]
    <3>1. Longer(f)
      BY <2>1, AddEffect
    <3> QED
      BY <3>1 DEF Longer
  <2>3. t = s \o x
    BY <1>1, <1>2, <2>2
  <2>4. FirstAt(p, t, k) /\ t[k] = s[k] /\ k \in DOMAIN t
    BY <1>2, <1>3, <2>3, FirstAfterAdd
  <2> QED
    BY <1>3, <2>4 DEF Serves
<1>7. PICK c : c = job[p].cur
  OBVIOUS
<1>8. ASSUME job[p].pc = "ensure", Len(c) = 1 PROVE 1 \in DOMAIN c /\ c[1] = s[k]
  <2>1. c # <<>> /\ 1 \in DOMAIN c
    <3>1. DOMAIN c = 1 .. Len(c) /\ (c = <<>> <=> Len(c) = 0)
      BY <1>7, ProgressFacts
    <3> QED
      BY <1>8, <3>1
  <2>2. PICK l \in DOMAIN s : FirstAt(p, s, l) /\ c[1] = s[l]
    BY <1>1, <1>7, <1>8, <2>1 DEF Synced
  <2>3. l = k
    BY <1>2, <1>3, <2>2, OneFirst
  <2> QED
    BY <2>1, <2>2, <2>3
<1>9. ASSUME NEW done \in BOOLEAN, NEW ok \in BOOLEAN, RemoveOtherChain(p, done, ok)
      PROVE  Serves(p, t, w)
  <2>1. c[1] = s[k] /\ c[1].chain # w.chain
    BY <1>7, <1>8, <1>9 DEF RemoveOtherChain, MovesChain
  <2> QED
    BY <1>3, <2>1
<1>10. ASSUME NEW done \in BOOLEAN, NEW ok \in BOOLEAN, SetDiff(p, done, ok)
       PROVE  Serves(p, t, w)
  <2>1. 1 \in DOMAIN c /\ c[1] = s[k]
    BY <1>7, <1>8, <1>10 DEF SetDiff
  <2>2. UNCHANGED nat \/ CallSet(f, c[1].id, w, done, ok)
    BY <1>7, <1>10 DEF SetDiff
  <2>3. CASE UNCHANGED nat
    BY <1>1, <2>3
  <2>4. CASE CallSet(f, c[1].id, w, done, ok)
    <3>1. \/ nat' = nat
          \/ \E l \in DOMAIN s : /\ s[l].id = c[1].id
                                  /\ nat' = [nat EXCEPT ![f] = [s EXCEPT ![l] = Changed(s[l], w)]]
      <4>1. WasSet(f, c[1].id, w)
        BY <1>7, <2>1, <2>4, CallEffects
      <4> QED
        BY <1>1, <4>1 DEF WasSet
    <3>2. ASSUME NEW l \in DOMAIN s, s[l].id = c[1].id,
                 nat' = [nat EXCEPT ![f] = [s EXCEPT ![l] = Changed(s[l], w)]]
          PROVE  Serves(p, t, w)
      <4>1. l = k
        BY <1>2, <2>1, <3>2, TableShape
      <4>2. t = [s EXCEPT ![k] = Changed(s[k], w)]
        BY <1>1, <1>2, <3>2, <4>1
      <4> QED
        BY <1>2, <1>3, <4>2, FirstAfterSet
    <3> QED
      BY <1>1, <3>1, <3>2
  <2> QED
    BY <2>2, <2>3, <2>4
<1>11. ASSUME NEW done \in BOOLEAN, NEW ok \in BOOLEAN, RemoveNext(p, done, ok) PROVE FALSE
  <2>1. job[p].want = Nil
    BY <1>11, ProgressFacts DEF RemoveNext, JobOK
  <2> QED
    BY <2>1, NilAssumption
<1>12. \A ok \in BOOLEAN : List(p, ok) => nat' = nat
  BY DEF List
<1>13. RemoveDone(p) => nat' = nat
  BY DEF RemoveDone
<1> QED
  BY <1>1, <1>4, <1>5, <1>6, <1>9, <1>10, <1>11, <1>12, <1>13 DEF Reconcile

\* What Ensure listed stays in step with the table while nobody else is at it.
LEMMA StaysSynced ==
  ASSUME NatInv, NEW p \in Proc, Reconcile(p), Synced(nat[job[p].fam], p, job[p])
  PROVE  Synced(nat'[job'[p].fam], p, job'[p])
<1>1. job = [q \in Proc |-> job[q]]
  BY DEF NatInv, JobsOK
<1>2. PICK f : f = job[p].fam
  OBVIOUS
<1>3. ASSUME job'[p].pc # "ensure" PROVE Synced(nat'[job'[p].fam], p, job'[p])
  BY <1>3 DEF Synced
<1>4. ASSUME NEW ok \in BOOLEAN, List(p, ok) PROVE Synced(nat'[job'[p].fam], p, job'[p])
  <2>1. CASE ok = FALSE
    <3>1. job'[p] = Idle(FALSE)
      BY <1>1, <1>4, <2>1 DEF List
    <3>2. job'[p].pc = "idle"
      BY <3>1 DEF Idle, Doing
    <3> QED
      BY <1>3, <3>2
  <2>2. CASE ok = TRUE
    <3>1. PICK c : c = Ours(p, nat[f])
      OBVIOUS
    <3>2. PICK pc : pc = IF job[p].want = Nil THEN "remove" ELSE "ensure"
      OBVIOUS
    <3>3. job'[p] = Goes(job[p], pc, c)
      BY <1>1, <1>2, <1>4, <2>2, <3>1, <3>2 DEF List
    <3>4. job'[p].cur = c /\ job'[p].fam = f
      BY <1>2, <3>3 DEF Goes, Doing
    <3>5. nat[f] \in Table /\ nat' = nat
      BY <1>2, <1>4, ProgressFacts DEF List, JobOK, NatInv, TablesOK
    <3>6. c # <<>> => \E k \in DOMAIN nat[f] :
            /\ FirstAt(p, nat[f], k) /\ c[1] = nat[f][k]
            /\ \A i \in 2 .. Len(c) : c[i].id # nat[f][k].id
      BY <3>1, <3>5, FirstOurs
    <3> QED
      BY <3>4, <3>5, <3>6 DEF Synced
  <2> QED
    BY <2>1, <2>2
<1>5. ASSUME NEW done \in BOOLEAN, NEW ok \in BOOLEAN, RemoveExtra(p, done, ok)
      PROVE  Synced(nat'[job'[p].fam], p, job'[p])
  <2>1. f \in Fam
    BY <1>2, <1>5, ProgressFacts DEF RemoveExtra, JobOK
  <2>2. Synced(nat'[f], p, job'[p])
    BY <1>2, <1>5, <2>1, ExtraGoes
  <2>3. job'[p].fam = f
    <3>1. job'[p] = Goes(job[p], "ensure", RemoveAt(job[p].cur, 2))
      BY <1>1, <1>5 DEF RemoveExtra
    <3> QED
      BY <1>2, <3>1 DEF Goes, Doing
  <2> QED
    BY <2>2, <2>3
<1>6. ASSUME NEW ok \in BOOLEAN, job' = [job EXCEPT ![p] = Idle(ok)]
      PROVE  Synced(nat'[job'[p].fam], p, job'[p])
  <2>1. job'[p].pc = "idle"
    BY <1>1, <1>6 DEF Idle, Doing
  <2> QED
    BY <1>3, <2>1
<1>7. ASSUME NEW ok \in BOOLEAN, NEW pc \in {"recreate", "remove"}, NEW c,
             job' = [job EXCEPT ![p] = IF ok THEN Goes(job[p], pc, c) ELSE Idle(FALSE)]
      PROVE  Synced(nat'[job'[p].fam], p, job'[p])
  <2>1. job'[p].pc # "ensure"
    BY <1>1, <1>7 DEF Goes, Idle, Doing
  <2> QED
    BY <1>3, <2>1
<1>8. ASSUME NEW done \in BOOLEAN, NEW ok \in BOOLEAN, RemoveOtherChain(p, done, ok) \/ RemoveNext(p, done, ok)
      PROVE  Synced(nat'[job'[p].fam], p, job'[p])
  BY <1>1, <1>7, <1>8 DEF RemoveOtherChain, RemoveNext
<1>9. ASSUME \/ \E n \in 0 .. 2, ok \in BOOLEAN : AddMissing(p, n, ok) \/ Recreate(p, n, ok)
             \/ \E done, ok \in BOOLEAN : SetDiff(p, done, ok)
             \/ RemoveDone(p)
      PROVE  Synced(nat'[job'[p].fam], p, job'[p])
  BY <1>6, <1>9 DEF AddMissing, Recreate, SetDiff, RemoveDone
<1> QED
  BY <1>4, <1>5, <1>8, <1>9 DEF Reconcile

\* An actor works in one table.
LEMMA OneTable ==
  ASSUME NatInv, NEW p \in Proc, Reconcile(p), NEW f \in Fam, f # job[p].fam
  PROVE  nat'[f] = nat[f]
<1>1. nat = [g \in Fam |-> nat[g]]
  BY DEF NatInv, TablesOK
<1>2. ASSUME NEW g, nat' = nat \/ \E t : nat' = [nat EXCEPT ![g] = t], g # f PROVE nat'[f] = nat[f]
  BY <1>1, <1>2
<1>3. ASSUME NEW g, NEW id, NEW w, NEW done \in BOOLEAN, NEW ok \in BOOLEAN,
             CallRemove(g, id, done, ok) \/ CallSet(g, id, w, done, ok), g # f
      PROVE  nat'[f] = nat[f]
  <2>1. nat' = nat \/ \E t : nat' = [nat EXCEPT ![g] = t]
    BY <1>3 DEF CallRemove, CallSet
  <2> QED
    BY <1>2, <1>3, <2>1
<1>4. ASSUME NEW g, NEW w, NEW n \in 0 .. 2, NEW ok \in BOOLEAN, CallAdd(p, g, w, n, ok), g # f
      PROVE  nat'[f] = nat[f]
  <2>1. \E t : nat' = [nat EXCEPT ![g] = t]
    BY <1>4 DEF CallAdd
  <2> QED
    BY <1>2, <1>4, <2>1
<1>5. ASSUME NEW done \in BOOLEAN, NEW ok \in BOOLEAN,
             RemoveExtra(p, done, ok) \/ RemoveOtherChain(p, done, ok) \/ RemoveNext(p, done, ok)
      PROVE  nat'[f] = nat[f]
  BY <1>3, <1>5 DEF RemoveExtra, RemoveOtherChain, RemoveNext
<1>6. ASSUME NEW n \in 0 .. 2, NEW ok \in BOOLEAN, AddMissing(p, n, ok) \/ Recreate(p, n, ok)
      PROVE  nat'[f] = nat[f]
  BY <1>4, <1>6 DEF AddMissing, Recreate
<1>7. ASSUME NEW done \in BOOLEAN, NEW ok \in BOOLEAN, SetDiff(p, done, ok) PROVE nat'[f] = nat[f]
  BY <1>3, <1>7 DEF SetDiff
<1>8. ASSUME RemoveDone(p) \/ \E ok \in BOOLEAN : List(p, ok) PROVE nat'[f] = nat[f]
  BY <1>8 DEF RemoveDone, List
<1> QED
  BY <1>5, <1>6, <1>7, <1>8 DEF Reconcile
\* While an operation goes on, its table and what it wants there stay.
LEMMA SameAim ==
  ASSUME NatInv, NEW p \in Proc, Reconcile(p), job'[p].pc # "idle"
  PROVE  job'[p].fam = job[p].fam /\ job'[p].want = job[p].want
<1>1. job = [q \in Proc |-> job[q]]
  BY DEF NatInv, JobsOK
<1>2. ASSUME NEW ok, job' = [job EXCEPT ![p] = Idle(ok)] PROVE FALSE
  <2>1. job'[p].pc = "idle"
    BY <1>1, <1>2 DEF Idle, Doing
  <2> QED
    BY <2>1
<1>3. ASSUME NEW pc, NEW c, job' = [job EXCEPT ![p] = Goes(job[p], pc, c)]
      PROVE  job'[p].fam = job[p].fam /\ job'[p].want = job[p].want
  BY <1>1, <1>3 DEF Goes, Doing
<1>4. ASSUME NEW ok \in BOOLEAN, NEW pc, NEW c,
             job' = [job EXCEPT ![p] = IF ok THEN Goes(job[p], pc, c) ELSE Idle(FALSE)]
      PROVE  job'[p].fam = job[p].fam /\ job'[p].want = job[p].want
  BY <1>2, <1>3, <1>4
<1>5. ASSUME NEW ok \in BOOLEAN, List(p, ok)
      PROVE  job'[p].fam = job[p].fam /\ job'[p].want = job[p].want
  <2>1. CASE ok = FALSE
    <3>1. job' = [job EXCEPT ![p] = Idle(FALSE)]
      BY <1>5, <2>1 DEF List
    <3> QED
      BY <1>2, <3>1
  <2>2. CASE ok = TRUE
    <3>1. \E pc, c : job' = [job EXCEPT ![p] = Goes(job[p], pc, c)]
      BY <1>1, <1>5, <2>2 DEF List
    <3> QED
      BY <1>3, <3>1
  <2> QED
    BY <2>1, <2>2
<1>6. ASSUME NEW done \in BOOLEAN, NEW ok \in BOOLEAN,
             RemoveExtra(p, done, ok) \/ RemoveOtherChain(p, done, ok) \/ RemoveNext(p, done, ok)
      PROVE  job'[p].fam = job[p].fam /\ job'[p].want = job[p].want
  BY <1>1, <1>3, <1>4, <1>6 DEF RemoveExtra, RemoveOtherChain, RemoveNext
<1>7. ASSUME \/ \E n \in 0 .. 2, ok \in BOOLEAN : AddMissing(p, n, ok) \/ Recreate(p, n, ok)
             \/ \E done, ok \in BOOLEAN : SetDiff(p, done, ok)
             \/ RemoveDone(p)
      PROVE  FALSE
  BY <1>2, <1>7 DEF AddMissing, Recreate, SetDiff, RemoveDone
<1> QED
  BY <1>5, <1>6, <1>7 DEF Reconcile
=============================================================================
