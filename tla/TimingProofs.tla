---------------------------- MODULE TimingProofs ----------------------------
(***************************************************************************)
(* Proofs about what keeps time: bars and phrases of any length, players   *)
(* and their local count, timelines of any durations on a clock of any     *)
(* width, and fades.                                                       *)
(***************************************************************************)
EXTENDS Timing, SequenceTheorems, WellFoundedInduction, TLAPS

-----------------------------------------------------------------------------
(* The least number of a set.                                              *)
LEMMA LeastNatural ==
  ASSUME NEW T \in SUBSET Nat, T # {}
  PROVE  \E m \in T : \A n \in T : m <= n
<1>1. PICK m \in T : \A n \in T : ~ <<n, m>> \in OpToRel(<, Nat)
  <2> DEFINE R == OpToRel(<, Nat)
  <2>1. IsWellFoundedOn(R, Nat)
    BY NatLessThanWellFounded
  <2> HIDE DEF R
  <2>2. \E x \in T : \A y \in T : ~ (<<y, x>> \in R)
    BY <2>1, WFMin
  <2>3. QED
    BY <2>2 DEF R
<1>2. \A n \in T : ~(n < m)
  BY <1>1 DEF OpToRel
<1>3. QED
  BY <1>2

-----------------------------------------------------------------------------
(* Remainders.                                                             *)

LEMMA DivMod ==
  ASSUME NEW a \in Int, NEW b \in Nat \ {0}
  PROVE  /\ a \div b \in Int /\ a % b \in Int
         /\ a % b >= 0 /\ a % b < b
         /\ a = b * (a \div b) + (a % b)
<1>1. a \div b \in Int
  OBVIOUS
<1>2. a % b \in 0 .. b - 1
  OBVIOUS
<1>3. a = b * (a \div b) + (a % b)
  OBVIOUS
<1>4. QED
  BY <1>1, <1>2, <1>3

(* A remainder is the only number of its kind.                             *)
LEMMA ModUnique ==
  ASSUME NEW a \in Int, NEW b \in Nat \ {0}, NEW q \in Int, NEW r \in Int,
         a = b * q + r, 0 <= r, r < b
  PROVE  a % b = r /\ a \div b = q
<1> DEFINE p == a \div b
           s == a % b
<1>1. p \in Int /\ s \in Int /\ 0 <= s /\ s < b /\ a = b * p + s
  BY DivMod
<1> HIDE DEF p, s
<1>2. b * (p - q) = r - s
  BY <1>1
<1>3. ~(p - q >= 1)
  <2>1. SUFFICES ASSUME p - q >= 1 PROVE FALSE
    OBVIOUS
  <2>2. b * (p - q) >= b
    BY <1>1, <2>1
  <2>3. QED
    BY <1>1, <1>2, <2>2
<1>4. ~(p - q <= -1)
  <2>1. SUFFICES ASSUME p - q <= -1 PROVE FALSE
    OBVIOUS
  <2>2. b * (q - p) >= b
    BY <1>1, <2>1
  <2>3. b * (q - p) = s - r
    BY <1>1, <1>2
  <2>4. QED
    BY <1>1, <2>2, <2>3
<1>5. p = q
  BY <1>1, <1>3, <1>4
<1>6. QED
  BY <1>1, <1>2, <1>5 DEF p, s

LEMMA ModShift ==
  ASSUME NEW a \in Int, NEW b \in Nat \ {0}, NEW k \in Int
  PROVE  (a + b * k) % b = a % b
<1>1. a \div b \in Int /\ a % b \in Int /\ 0 <= a % b /\ a % b < b
      /\ a = b * (a \div b) + (a % b)
  BY DivMod
<1>2. a + b * k = b * ((a \div b) + k) + (a % b)
  BY <1>1
<1>3. (a \div b) + k \in Int /\ a + b * k \in Int
  BY <1>1
<1>4. QED
  BY <1>1, <1>2, <1>3, ModUnique

(* Of a beat number, what is beyond the bars that fit into its phrase, is  *)
(* whole bars less than a phrase.                                          *)
LEMMA BarsOfPhrase ==
  ASSUME NEW B \in Nat \ {0}, NEW P \in Nat \ {0}, P % B = 0, NEW m \in Nat
  PROVE  \E j \in Nat, k \in Nat : /\ P = B * k /\ (m % P) - (m % B) = B * j
                                  /\ B * j <= P - B
<1> DEFINE k == P \div B
           q == m \div P
           r == m % P
           j == r \div B
           s == r % B
<1>1. k \in Int /\ P = B * k
  BY DivMod
<1>2. q \in Int /\ r \in Int /\ 0 <= r /\ r < P /\ m = P * q + r
  BY DivMod
<1>3. j \in Int /\ s \in Int /\ 0 <= s /\ s < B /\ r = B * j + s
  BY <1>2, DivMod
<1> HIDE DEF k, q, r, j, s
<1>4. m = B * (k * q + j) + s /\ k * q + j \in Int
  <2>1. B * (k * q + j) = (B * k) * q + B * j
    BY <1>1, <1>2, <1>3
  <2>2. QED
    BY <1>1, <1>2, <1>3, <2>1
<1>5. m % B = s
  BY <1>3, <1>4, ModUnique
<1>6. (m % P) - (m % B) = B * j
  <2>1. m % P = r
    BY DEF r
  <2>2. B * j \in Int
    BY <1>3
  <2>3. QED
    BY <1>2, <1>3, <1>5, <2>1, <2>2
<1>7. k >= 1
  <2>1. SUFFICES ASSUME k <= 0 PROVE FALSE
    BY <1>1
  <2>2. B * k <= 0
    BY <1>1, <2>1
  <2>3. QED
    BY <1>1, <2>2
<1>8. j >= 0
  <2>1. SUFFICES ASSUME j <= -1 PROVE FALSE
    BY <1>3
  <2>2. B * j <= -B
    BY <1>3, <2>1
  <2>3. QED
    BY <1>2, <1>3, <2>2
<1>9. j <= k - 1
  <2>1. SUFFICES ASSUME j >= k PROVE FALSE
    BY <1>1, <1>3
  <2>2. B * j >= B * k
    BY <1>1, <1>3, <2>1
  <2>3. QED
    BY <1>1, <1>2, <1>3, <2>2
<1>10. B * j <= P - B
  <2>1. B * j <= B * (k - 1)
    BY <1>1, <1>3, <1>9
  <2>2. B * (k - 1) = B * k - B
    BY <1>1
  <2>3. QED
    BY <1>1, <1>3, <2>1, <2>2
<1>11. j \in Nat /\ k \in Nat
  BY <1>1, <1>3, <1>7, <1>8
<1>12. QED
  BY <1>1, <1>6, <1>10, <1>11

-----------------------------------------------------------------------------
(* The phrase offset.                                                      *)

Sizes ==
  /\ BarSize \in Nat \ {0} /\ PhraseSize \in Nat \ {0}
  /\ PhraseSize % BarSize = 0

LEMMA TempoSizes == Sizes
BY TempoAssumption DEF Sizes

(* What AlignPhrase makes the offset.                                      *)
Realigned(raw) == PhraseSize - Rem(raw, PhraseSize) + Rem(raw, BarSize)

LEMMA RealignedIsWholeBars ==
  ASSUME NEW raw \in Int
  PROVE  /\ Realigned(raw) \in 0 .. 2 * PhraseSize - BarSize
         /\ Realigned(raw) % BarSize = 0
<1> DEFINE m == IF raw < 0 THEN -raw ELSE raw
           d == (m % PhraseSize) - (m % BarSize)
<1>1. m \in Nat /\ BarSize \in Nat \ {0} /\ PhraseSize \in Nat \ {0}
  BY TempoSizes DEF Sizes
<1>2. m % PhraseSize \in Int /\ m % BarSize \in Int
  BY <1>1, DivMod
<1>3. Realigned(raw) = IF raw < 0 THEN PhraseSize + d ELSE PhraseSize - d
  <2>1. CASE raw < 0
    BY <1>1, <1>2, <2>1 DEF Realigned, Rem
  <2>2. CASE ~(raw < 0)
    BY <1>1, <1>2, <2>2 DEF Realigned, Rem
  <2>3. QED
    BY <2>1, <2>2
<1>4. PICK j \in Nat, k \in Nat :
        PhraseSize = BarSize * k /\ d = BarSize * j /\ BarSize * j <= PhraseSize - BarSize
  BY <1>1, TempoSizes, BarsOfPhrase DEF Sizes
<1> HIDE DEF m, d
<1>5. d >= 0 /\ d <= PhraseSize - BarSize /\ d \in Int
  BY <1>1, <1>4
<1>6. CASE raw < 0
  <2>1. Realigned(raw) = BarSize * (k + j) + 0
    BY <1>1, <1>3, <1>4, <1>6
  <2>2. Realigned(raw) % BarSize = 0
    BY <1>1, <1>4, <2>1, ModUnique
  <2>3. QED
    BY <1>1, <1>3, <1>5, <1>6, <2>2
<1>7. CASE ~(raw < 0)
  <2>1. Realigned(raw) = BarSize * (k - j) + 0
    BY <1>1, <1>3, <1>4, <1>7
  <2>2. Realigned(raw) % BarSize = 0
    BY <1>1, <1>4, <2>1, ModUnique
  <2>3. QED
    BY <1>1, <1>3, <1>5, <1>7, <2>2
<1>8. QED
  BY <1>6, <1>7

(* After an alignment to a number that is not negative, it starts a phrase.*)
LEMMA RealignedStartsPhrase ==
  ASSUME NEW n \in Nat
  PROVE  (n + Realigned(n)) % PhraseSize = n % BarSize
<1> DEFINE q == n \div PhraseSize
           r == n % PhraseSize
           s == n % BarSize
<1>1. BarSize \in Nat \ {0} /\ PhraseSize \in Nat \ {0}
  BY TempoSizes DEF Sizes
<1>2. q \in Int /\ r \in Int /\ n = PhraseSize * q + r
  BY <1>1, DivMod
<1>3. s \in Int /\ 0 <= s /\ s < BarSize
  BY <1>1, DivMod
<1>4. BarSize <= PhraseSize
  <2>1. PICK j \in Nat, k \in Nat : BarSize * j <= PhraseSize - BarSize
    BY <1>1, TempoSizes, BarsOfPhrase DEF Sizes
  <2>2. BarSize * j >= 0 /\ BarSize * j \in Int
    BY <1>1
  <2>3. QED
    BY <1>1, <2>1, <2>2
<1>5. Realigned(n) = PhraseSize - r + s
  BY DEF Realigned, Rem
<1> HIDE DEF q, r, s
<1>6. n + Realigned(n) = PhraseSize * (q + 1) + s
  BY <1>1, <1>2, <1>3, <1>5
<1>7. q + 1 \in Int /\ n + Realigned(n) \in Int /\ s < PhraseSize
  BY <1>1, <1>2, <1>3, <1>4, <1>5
<1>8. (n + Realigned(n)) % PhraseSize = s
  BY <1>1, <1>3, <1>6, <1>7, ModUnique
<1>9. QED
  BY <1>8 DEF s

-----------------------------------------------------------------------------
(* The sources in the order of their addresses, and of their registration. *)

Distinct(s) == \A i, j \in 1 .. Len(s) : s[i] = s[j] => i = j

(* x is s with e put in at i, the elements from there on one place later *)
IsInsertion(x, s, i, e) ==
  /\ Len(x) = Len(s) + 1
  /\ x[i] = e
  /\ \A k \in 1 .. Len(s) + 1 :
       /\ k < i => x[k] = s[k]
       /\ k > i => x[k] = s[k - 1]

LEMMA InsertFacts ==
  ASSUME NEW S, NEW s \in Seq(S), NEW e \in S, NEW i \in 1 .. Len(s) + 1
  PROVE  InsertAt(s, i, e) \in Seq(S) /\ IsInsertion(InsertAt(s, i, e), s, i, e)
<1> DEFINE a == SubSeq(s, 1, i - 1)
           b == SubSeq(s, i, Len(s))
<1>1. Len(s) \in Nat /\ i \in Int /\ 1 <= i /\ i <= Len(s) + 1
  OBVIOUS
<1>2. /\ a \in Seq(S) /\ Len(a) = i - 1
      /\ \A k \in 1 .. i - 1 : a[k] = s[k]
  BY <1>1, SubSeqProperties
<1>3. /\ b \in Seq(S) /\ Len(b) = Len(s) - i + 1
      /\ \A k \in 1 .. Len(s) - i + 1 : b[k] = s[i + k - 1]
  BY <1>1, SubSeqProperties
<1> HIDE DEF a, b
<1>4. InsertAt(s, i, e) = a \o <<e>> \o b
  BY DEF InsertAt, a, b
<1>5. /\ a \o <<e>> \in Seq(S) /\ Len(a \o <<e>>) = i
      /\ \A k \in 1 .. i : (a \o <<e>>)[k] = IF k < i THEN s[k] ELSE e
  <2>1. <<e>> \in Seq(S) /\ Len(<<e>>) = 1 /\ <<e>>[1] = e
    OBVIOUS
  <2>2. a \o <<e>> \in Seq(S) /\ Len(a \o <<e>>) = i
    BY <1>1, <1>2, <2>1
  <2>3. ASSUME NEW k \in 1 .. i
        PROVE  (a \o <<e>>)[k] = IF k < i THEN s[k] ELSE e
    BY <1>1, <1>2, <2>1, ConcatProperties
  <2>4. QED
    BY <2>2, <2>3
<1> DEFINE c == a \o <<e>>
<1>6. /\ c \o b \in Seq(S) /\ Len(c \o b) = Len(s) + 1
      /\ \A k \in 1 .. Len(s) + 1 : (c \o b)[k] = IF k <= i THEN c[k] ELSE b[k - i]
  <2>1. c \in Seq(S) /\ Len(c) = i
    BY <1>5
  <2> HIDE DEF c
  <2>2. c \o b \in Seq(S) /\ Len(c \o b) = Len(s) + 1
    BY <1>1, <1>3, <2>1
  <2>3. QED
    BY <1>1, <1>3, <2>1, <2>2, ConcatProperties
<1>7. ASSUME NEW k \in 1 .. Len(s) + 1
      PROVE  /\ k < i => InsertAt(s, i, e)[k] = s[k]
             /\ k = i => InsertAt(s, i, e)[k] = e
             /\ k > i => InsertAt(s, i, e)[k] = s[k - 1]
  <2>1. CASE k <= i
    BY <1>1, <1>4, <1>5, <1>6, <2>1
  <2>2. CASE k > i
    <3>1. k - i \in 1 .. Len(s) - i + 1 /\ i + (k - i) - 1 = k - 1
      BY <1>1, <2>2
    <3>2. b[k - i] = s[k - 1]
      BY <1>3, <3>1
    <3>3. QED
      BY <1>1, <1>4, <1>6, <2>2, <3>2
  <2>3. QED
    BY <1>1, <2>1, <2>2
<1>8. InsertAt(s, i, e) \in Seq(S) /\ Len(InsertAt(s, i, e)) = Len(s) + 1
  BY <1>4, <1>6
<1>9. QED
  BY <1>1, <1>7, <1>8 DEF IsInsertion

LEMMA RemoveFacts ==
  ASSUME NEW S, NEW s \in Seq(S), NEW i \in 1 .. Len(s)
  PROVE  /\ RemoveAt(s, i) \in Seq(S) /\ Len(RemoveAt(s, i)) = Len(s) - 1
         /\ \A k \in 1 .. Len(s) - 1 :
              RemoveAt(s, i)[k] = IF k < i THEN s[k] ELSE s[k + 1]
<1> DEFINE a == SubSeq(s, 1, i - 1)
           b == SubSeq(s, i + 1, Len(s))
<1>1. Len(s) \in Nat /\ i \in Int /\ 1 <= i /\ i <= Len(s)
  OBVIOUS
<1>2. /\ a \in Seq(S) /\ Len(a) = i - 1
      /\ \A k \in 1 .. i - 1 : a[k] = s[k]
  BY <1>1, SubSeqProperties
<1>3. /\ b \in Seq(S) /\ Len(b) = Len(s) - i
      /\ \A k \in 1 .. Len(s) - i : b[k] = s[i + k]
  BY <1>1, SubSeqProperties
<1> HIDE DEF a, b
<1>4. RemoveAt(s, i) = a \o b
  BY DEF RemoveAt, a, b
<1>5. /\ a \o b \in Seq(S) /\ Len(a \o b) = Len(s) - 1
      /\ \A k \in 1 .. Len(s) - 1 : (a \o b)[k] = IF k <= i - 1 THEN a[k] ELSE b[k - (i - 1)]
  <2>1. a \o b \in Seq(S) /\ Len(a \o b) = Len(a) + Len(b)
    BY <1>2, <1>3, ConcatProperties
  <2>2. Len(a \o b) = Len(s) - 1
    BY <1>1, <1>2, <1>3, <2>1
  <2>3. QED
    BY <1>1, <1>2, <1>3, <2>1, <2>2, ConcatProperties
<1>6. ASSUME NEW k \in 1 .. Len(s) - 1
      PROVE  RemoveAt(s, i)[k] = IF k < i THEN s[k] ELSE s[k + 1]
  <2>1. CASE k < i
    BY <1>1, <1>2, <1>4, <1>5, <2>1
  <2>2. CASE k >= i
    <3>1. k - (i - 1) \in 1 .. Len(s) - i /\ i + (k - (i - 1)) = k + 1
      BY <1>1, <2>2
    <3>2. b[k - (i - 1)] = s[k + 1]
      BY <1>3, <3>1
    <3>3. (a \o b)[k] = b[k - (i - 1)]
      BY <1>1, <1>5, <2>2
    <3>4. QED
      BY <1>1, <1>4, <2>2, <3>2, <3>3
  <2>3. QED
    BY <1>1, <2>1, <2>2
<1>7. QED
  BY <1>4, <1>5, <1>6

LEMMA ElementsOf ==
  ASSUME NEW S, NEW s \in Seq(S)
  PROVE  /\ Len(s) \in Nat /\ DOMAIN s = 1 .. Len(s)
         /\ \A k \in 1 .. Len(s) : s[k] \in S
         /\ ToSet(s) = {s[k] : k \in 1 .. Len(s)} /\ ToSet(s) \subseteq S
<1>1. Len(s) \in Nat /\ DOMAIN s = 1 .. Len(s)
  OBVIOUS
<1>2. \A k \in 1 .. Len(s) : s[k] \in S
  BY ElementOfSeq
<1>3. QED
  BY <1>1, <1>2 DEF ToSet

LEMMA InsertSet ==
  ASSUME NEW S, NEW s \in Seq(S), Distinct(s), NEW e \in S, e \notin ToSet(s),
         NEW i \in 1 .. Len(s) + 1
  PROVE  Distinct(InsertAt(s, i, e)) /\ ToSet(InsertAt(s, i, e)) = ToSet(s) \cup {e}
<1> DEFINE x == InsertAt(s, i, e)
<1>0. x \in Seq(S) /\ IsInsertion(x, s, i, e)
  BY InsertFacts, Zenon
<1> HIDE DEF x
<1>1. /\ x \in Seq(S) /\ Len(x) = Len(s) + 1 /\ x[i] = e
      /\ \A k \in 1 .. Len(s) + 1 : (k < i => x[k] = s[k]) /\ (k > i => x[k] = s[k - 1])
  BY <1>0 DEF IsInsertion
<1>2. Len(s) \in Nat /\ ToSet(s) = {s[k] : k \in 1 .. Len(s)}
  BY ElementsOf
<1>3. ToSet(x) = {x[k] : k \in 1 .. Len(s) + 1}
  BY <1>1, ElementsOf
<1>4. \A k \in 1 .. Len(s) : s[k] # e
  BY <1>2
<1>5. ASSUME NEW k \in 1 .. Len(s) + 1 PROVE x[k] = e <=> k = i
  <2>1. CASE k < i
    <3>1. k \in 1 .. Len(s)
      BY <1>2, <2>1
    <3>2. QED
      BY <1>1, <1>4, <2>1, <3>1
  <2>2. CASE k > i
    <3>1. k - 1 \in 1 .. Len(s)
      BY <1>2, <2>2
    <3>2. QED
      BY <1>1, <1>4, <2>2, <3>1
  <2>3. QED
    BY <1>1, <1>2, <2>1, <2>2
<1>6. ASSUME NEW j \in 1 .. Len(s) + 1, NEW k \in 1 .. Len(s) + 1, x[j] = x[k]
      PROVE  j = k
  <2> DEFINE old(n) == IF n < i THEN n ELSE n - 1
  <2>1. CASE j = i \/ k = i
    BY <1>5, <1>6, <2>1
  <2>2. CASE j # i /\ k # i
    <3>1. old(j) \in 1 .. Len(s) /\ old(k) \in 1 .. Len(s)
      BY <1>2, <2>2
    <3>2. x[j] = s[old(j)] /\ x[k] = s[old(k)]
      BY <1>1, <2>2
    <3>3. old(j) = old(k)
      BY <1>6, <3>1, <3>2 DEF Distinct
    <3>4. QED
      BY <1>2, <2>2, <3>3
  <2>3. QED
    BY <2>1, <2>2
<1>7. ToSet(x) \subseteq ToSet(s) \cup {e}
  <2>1. ASSUME NEW k \in 1 .. Len(s) + 1 PROVE x[k] = e \/ \E j \in 1 .. Len(s) : x[k] = s[j]
    <3>1. CASE k < i
      BY <1>1, <1>2, <3>1
    <3>2. CASE k = i
      BY <1>5, <3>2
    <3>3. CASE k > i
      <4>1. k - 1 \in 1 .. Len(s) /\ x[k] = s[k - 1]
        BY <1>1, <1>2, <3>3
      <4>2. QED
        BY <4>1
    <3>4. QED
      BY <3>1, <3>2, <3>3, <1>2
  <2>2. QED
    BY <1>2, <1>3, <2>1
<1>8. ToSet(s) \cup {e} \subseteq ToSet(x)
  <2>1. ASSUME NEW k \in 1 .. Len(s) PROVE \E j \in 1 .. Len(s) + 1 : x[j] = s[k]
    <3>1. CASE k < i
      <4>1. k \in 1 .. Len(s) + 1 /\ x[k] = s[k]
        BY <1>1, <1>2, <3>1
      <4>2. QED
        BY <4>1
    <3>2. CASE k >= i
      <4>1. k + 1 \in 1 .. Len(s) + 1 /\ x[k + 1] = s[k]
        BY <1>1, <1>2, <3>2
      <4>2. QED
        BY <4>1
    <3>3. QED
      BY <1>2, <3>1, <3>2
  <2>2. x[i] = e
    BY <1>5
  <2>3. QED
    BY <1>2, <1>3, <2>1, <2>2
<1>9. Distinct(x)
  BY <1>1, <1>6 DEF Distinct
<1>10. QED
  BY <1>7, <1>8, <1>9 DEF x

LEMMA AppendSet ==
  ASSUME NEW S, NEW s \in Seq(S), Distinct(s), NEW e \in S, e \notin ToSet(s)
  PROVE  /\ Append(s, e) \in Seq(S) /\ Len(Append(s, e)) = Len(s) + 1
         /\ Distinct(Append(s, e)) /\ ToSet(Append(s, e)) = ToSet(s) \cup {e}
<1> DEFINE x == Append(s, e)
<1>1. /\ x \in Seq(S) /\ Len(x) = Len(s) + 1 /\ x[Len(s) + 1] = e
      /\ \A k \in 1 .. Len(s) : x[k] = s[k]
  BY AppendProperties
<1> HIDE DEF x
<1>2. Len(s) \in Nat /\ ToSet(s) = {s[k] : k \in 1 .. Len(s)}
  BY ElementsOf
<1>3. ToSet(x) = {x[k] : k \in 1 .. Len(s) + 1}
  BY <1>1, ElementsOf
<1>4. \A k \in 1 .. Len(s) + 1 : k \in 1 .. Len(s) \/ k = Len(s) + 1
  BY <1>2
<1>5. \A k \in 1 .. Len(s) : s[k] # e
  BY <1>2
<1>6. Distinct(x)
  BY <1>1, <1>2, <1>4, <1>5 DEF Distinct
<1>7. 1 .. Len(s) \subseteq 1 .. Len(s) + 1 /\ Len(s) + 1 \in 1 .. Len(s) + 1
  BY <1>2
<1>8. ToSet(x) = ToSet(s) \cup {e}
  BY <1>1, <1>2, <1>3, <1>4, <1>7
<1>9. QED
  BY <1>1, <1>6, <1>8 DEF x

LEMMA RemoveSet ==
  ASSUME NEW S, NEW s \in Seq(S), Distinct(s), NEW i \in 1 .. Len(s)
  PROVE  Distinct(RemoveAt(s, i)) /\ ToSet(RemoveAt(s, i)) = ToSet(s) \ {s[i]}
<1> DEFINE x == RemoveAt(s, i)
           new(k) == IF k < i THEN k ELSE k + 1
<1>1. /\ x \in Seq(S) /\ Len(x) = Len(s) - 1
      /\ \A k \in 1 .. Len(s) - 1 : x[k] = IF k < i THEN s[k] ELSE s[k + 1]
  BY RemoveFacts
<1> HIDE DEF x
<1>2. Len(s) \in Nat /\ ToSet(s) = {s[k] : k \in 1 .. Len(s)}
  BY ElementsOf
<1>3. ToSet(x) = {x[k] : k \in 1 .. Len(s) - 1}
  BY <1>1, ElementsOf
<1>4. ASSUME NEW k \in 1 .. Len(s) - 1
      PROVE  new(k) \in 1 .. Len(s) /\ new(k) # i /\ x[k] = s[new(k)]
  BY <1>1, <1>2
<1>5. ASSUME NEW j \in 1 .. Len(s) - 1, NEW k \in 1 .. Len(s) - 1, x[j] = x[k]
      PROVE  j = k
  <2>1. new(j) = new(k)
    BY <1>4, <1>5 DEF Distinct
  <2>2. QED
    BY <1>2, <2>1
<1>6. ToSet(x) \subseteq ToSet(s) \ {s[i]}
  <2>1. ASSUME NEW k \in 1 .. Len(s) - 1 PROVE x[k] \in ToSet(s) /\ x[k] # s[i]
    BY <1>2, <1>4 DEF Distinct
  <2>2. QED
    BY <1>3, <2>1
<1>7. ToSet(s) \ {s[i]} \subseteq ToSet(x)
  <2>1. ASSUME NEW k \in 1 .. Len(s), k # i PROVE \E j \in 1 .. Len(s) - 1 : x[j] = s[k]
    <3>1. CASE k < i
      <4>1. k \in 1 .. Len(s) - 1 /\ x[k] = s[k]
        BY <1>1, <1>2, <3>1
      <4>2. QED
        BY <4>1
    <3>2. CASE k > i
      <4>1. k - 1 \in 1 .. Len(s) - 1 /\ x[k - 1] = s[k]
        BY <1>1, <1>2, <3>2
      <4>2. QED
        BY <4>1
    <3>3. QED
      BY <1>2, <2>1, <3>1, <3>2
  <2>2. QED
    BY <1>2, <1>3, <2>1
<1>8. Distinct(x)
  BY <1>1, <1>5 DEF Distinct
<1>9. QED
  BY <1>6, <1>7, <1>8 DEF x

SourceOrder ==
  /\ order \in Seq(Sources) /\ Distinct(order)
  /\ registered \in Seq(Sources) /\ Distinct(registered)
  /\ Len(order) = Len(registered) /\ ToSet(order) = ToSet(registered)
  /\ {Player, Tap} \subseteq ToSet(order)

LEMMA SourceOrderInit == Init => SourceOrder
<1> SUFFICES ASSUME Init PROVE SourceOrder
  OBVIOUS
<1>1. Player \in Sources /\ Tap \in Sources /\ Player # Tap
  BY TempoAssumption DEF Sources
<1>2. ASSUME NEW a \in Sources, NEW b \in Sources, a # b
      PROVE  <<a, b>> \in Seq(Sources) /\ Distinct(<<a, b>>) /\ ToSet(<<a, b>>) = {a, b}
  <2>1. <<a, b>> \in Seq(Sources) /\ Len(<<a, b>>) = 2 /\ <<a, b>>[1] = a /\ <<a, b>>[2] = b
    OBVIOUS
  <2>2. 1 .. 2 = {1, 2}
    OBVIOUS
  <2>3. Distinct(<<a, b>>)
    BY <1>2, <2>1, <2>2 DEF Distinct
  <2>4. ToSet(<<a, b>>) = {a, b}
    BY <2>1, <2>2 DEF ToSet
  <2>5. QED
    BY <2>1, <2>3, <2>4
<1>3. order \in {<<Player, Tap>>, <<Tap, Player>>} /\ registered = <<Player, Tap>>
  BY DEF Init
<1>4. Len(<<Player, Tap>>) = 2 /\ Len(<<Tap, Player>>) = 2
  OBVIOUS
<1>5. /\ <<Player, Tap>> \in Seq(Sources) /\ Distinct(<<Player, Tap>>)
      /\ ToSet(<<Player, Tap>>) = {Player, Tap}
      /\ <<Tap, Player>> \in Seq(Sources) /\ Distinct(<<Tap, Player>>)
      /\ ToSet(<<Tap, Player>>) = {Player, Tap}
  <2>1. {Tap, Player} = {Player, Tap}
    OBVIOUS
  <2>2. QED
    BY <1>1, <1>2, <2>1
<1>6. CASE order = <<Player, Tap>>
  BY <1>3, <1>4, <1>5, <1>6 DEF SourceOrder
<1>7. CASE order = <<Tap, Player>>
  BY <1>3, <1>4, <1>5, <1>7 DEF SourceOrder
<1>8. QED
  BY <1>3, <1>6, <1>7

LEMMA AddClockOrder == ASSUME SourceOrder, NEW c \in Clocks, AddClock(c) PROVE SourceOrder'
<1>1. c \in Sources /\ c \notin ToSet(order)
  BY DEF Sources, AddClock
<1>2. PICK i \in 1 .. Len(order) + 1 : order' = InsertAt(order, i, c)
  BY DEF AddClock
<1>3. /\ order' \in Seq(Sources) /\ Len(order') = Len(order) + 1
      /\ Distinct(order') /\ ToSet(order') = ToSet(order) \cup {c}
  <2>1. order \in Seq(Sources) /\ Distinct(order)
    BY DEF SourceOrder
  <2>2. /\ InsertAt(order, i, c) \in Seq(Sources)
        /\ IsInsertion(InsertAt(order, i, c), order, i, c)
    BY <1>1, <2>1, InsertFacts
  <2>3. Distinct(InsertAt(order, i, c)) /\ ToSet(InsertAt(order, i, c)) = ToSet(order) \cup {c}
    BY <1>1, <2>1, InsertSet
  <2>4. QED
    BY <1>2, <2>2, <2>3 DEF IsInsertion
<1>4. /\ registered' \in Seq(Sources) /\ Len(registered') = Len(registered) + 1
      /\ Distinct(registered') /\ ToSet(registered') = ToSet(registered) \cup {c}
  BY <1>1, AppendSet DEF SourceOrder, AddClock
<1>5. QED
  BY <1>3, <1>4 DEF SourceOrder

LEMMA RemoveClockOrder ==
  ASSUME SourceOrder, NEW c \in Clocks, RemoveClock(c) PROVE SourceOrder'
<1>1. c # Player /\ c # Tap
  BY TempoAssumption
<1>2. /\ order \in Seq(Sources) /\ Distinct(order)
      /\ registered \in Seq(Sources) /\ Distinct(registered)
  BY DEF SourceOrder
<1>3. /\ Len(order) \in Nat /\ DOMAIN order = 1 .. Len(order)
      /\ Len(registered) \in Nat /\ DOMAIN registered = 1 .. Len(registered)
  BY <1>2
<1>4. PICK i \in 1 .. Len(order) : order[i] = c /\ order' = RemoveAt(order, i)
  BY <1>3 DEF RemoveClock
<1>5. PICK k \in 1 .. Len(registered) :
        registered[k] = c /\ registered' = RemoveAt(registered, k)
  BY <1>3 DEF RemoveClock
<1>6. /\ order' \in Seq(Sources) /\ Len(order') = Len(order) - 1
      /\ Distinct(order') /\ ToSet(order') = ToSet(order) \ {c}
  BY <1>2, <1>4, RemoveFacts, RemoveSet
<1>7. /\ registered' \in Seq(Sources) /\ Len(registered') = Len(registered) - 1
      /\ Distinct(registered') /\ ToSet(registered') = ToSet(registered) \ {c}
  BY <1>2, <1>5, RemoveFacts, RemoveSet
<1>8. QED
  BY <1>1, <1>6, <1>7 DEF SourceOrder

(* The active source is one of the sources, the first that has a signal.   *)
LEMMA FirstFacts ==
  ASSUME NEW seq \in Seq(Sources)
  PROVE  /\ FirstWithSignal(seq) \in Sources \cup {NoSource}
         /\ FirstWithSignal(seq) # NoSource =>
              \E i \in 1 .. Len(seq) :
                /\ FirstWithSignal(seq) = seq[i] /\ HasSignal(seq[i])
                /\ \A j \in 1 .. Len(seq) : HasSignal(seq[j]) => i <= j
<1> DEFINE live == {i \in DOMAIN seq : HasSignal(seq[i])}
           first == CHOOSE i \in live : \A j \in live : i <= j
<1>1. /\ Len(seq) \in Nat /\ DOMAIN seq = 1 .. Len(seq)
      /\ \A k \in 1 .. Len(seq) : seq[k] \in Sources
  BY ElementsOf
<1>2. CASE live = {}
  BY <1>2 DEF FirstWithSignal
<1>3. CASE live # {}
  <2>1. live \subseteq Nat
    BY <1>1
  <2>2. \E i \in live : \A j \in live : i <= j
    <3> HIDE DEF live
    <3>1. QED
      BY <1>3, <2>1, LeastNatural
  <2>3. first \in live /\ \A j \in live : first <= j
    BY <2>2
  <2>4. FirstWithSignal(seq) = seq[first]
    BY <1>3 DEF FirstWithSignal
  <2> HIDE DEF first
  <2>5. QED
    BY <1>1, <2>3, <2>4
<1>4. QED
  BY <1>2, <1>3

LEMMA FirstIs ==
  ASSUME NEW seq \in Seq(Sources), NEW i \in 1 .. Len(seq), HasSignal(seq[i]),
         \A j \in 1 .. Len(seq) : HasSignal(seq[j]) => i <= j
  PROVE  FirstWithSignal(seq) = seq[i]
<1> DEFINE live == {k \in DOMAIN seq : HasSignal(seq[k])}
           first == CHOOSE k \in live : \A j \in live : k <= j
<1>1. Len(seq) \in Nat /\ DOMAIN seq = 1 .. Len(seq)
  BY ElementsOf
<1>2. i \in live /\ \A j \in live : i <= j
  BY <1>1
<1>3. first \in live /\ \A j \in live : first <= j
  BY <1>2
<1>4. FirstWithSignal(seq) = seq[first]
  BY <1>2 DEF FirstWithSignal
<1> HIDE DEF first
<1>5. first = i
  BY <1>1, <1>2, <1>3
<1>6. QED
  BY <1>4, <1>5

-----------------------------------------------------------------------------
(* The sources keep their types.                                           *)

SourceTypes ==
  /\ valid \in [Sources -> BOOLEAN] /\ recent \in [Sources -> BOOLEAN]
  /\ beatNumber \in [Sources -> Beats]
  /\ ticks \in [Clocks -> 0 .. TicksPerBeat - 1]
  /\ tapping \in BOOLEAN /\ severalTaps \in BOOLEAN /\ period \in BOOLEAN

JobTypes == job \in [Threads -> {Idle} \cup Job]

(* What is always true of the sources, on any number of threads.           *)
TempoSafe == SourceOrder /\ SourceTypes /\ JobTypes /\ OffsetIsWholeBars

LEMMA ZeroIsWholeBars ==
  0 \in 0 .. 2 * PhraseSize - BarSize /\ 0 % BarSize = 0
<1>1. BarSize \in Nat \ {0} /\ PhraseSize \in Nat \ {0}
  BY TempoSizes DEF Sizes
<1>2. PICK j \in Nat : BarSize * j <= PhraseSize - BarSize
  BY <1>1, TempoSizes, BarsOfPhrase DEF Sizes
<1>3. BarSize * j >= 0 /\ BarSize * j \in Int
  BY <1>1
<1>4. 0 = BarSize * 0 + 0
  BY <1>1
<1>5. 0 % BarSize = 0
  BY <1>1, <1>4, ModUnique
<1>6. QED
  BY <1>1, <1>2, <1>3, <1>5

LEMMA SafeInit == Init => TempoSafe
<1> SUFFICES ASSUME Init PROVE TempoSafe
  OBVIOUS
<1>1. SourceOrder
  BY SourceOrderInit
<1>2. SourceTypes
  <2>1. TicksPerBeat \in Nat \ {0} /\ MaxBeat \in Nat
    BY TempoAssumption
  <2>2. 0 \in 0 .. TicksPerBeat - 1 /\ -1 \in Beats
    BY <2>1 DEF Beats
  <2>3. QED
    BY <2>2 DEF Init, SourceTypes
<1>3. JobTypes
  BY DEF Init, JobTypes
<1>4. OffsetIsWholeBars
  BY ZeroIsWholeBars DEF Init, OffsetIsWholeBars
<1>5. QED
  BY <1>1, <1>2, <1>3, <1>4 DEF TempoSafe

LEMMA AJobThatRuns ==
  ASSUME JobTypes, NEW t \in Threads, job[t].stage # "idle"
  PROVE  job[t] \in Job
BY DEF JobTypes, Idle

LEMMA ActiveIsASource ==
  ASSUME SourceOrder, SourceTypes
  PROVE  Active \in Sources \cup {NoSource} /\ (phraseOffset \in Int => GetBeatNumber \in Int)
<1>1. Active \in Sources \cup {NoSource}
  BY FirstFacts DEF SourceOrder, Active
<1>2. \A s \in Sources : beatNumber[s] \in Int
  <2>1. MaxBeat \in Nat /\ \A s \in Sources : beatNumber[s] \in Beats
    BY TempoAssumption DEF SourceTypes
  <2>2. QED
    BY <2>1 DEF Beats
<1>3. QED
  BY <1>1, <1>2 DEF GetBeatNumber

(* A beat keeps the count and starts a job.                                *)
LEMMA BeatTypes ==
  ASSUME SourceTypes, JobTypes, NEW t \in Threads, NEW s \in Sources, NEW n,
         NEW then \in Afters, Beat(t, s, n, then)
  PROVE  /\ beatNumber' \in [Sources -> Beats] /\ recent' \in [Sources -> BOOLEAN]
         /\ JobTypes'
<1>1. beatNumber' \in [Sources -> Beats] /\ recent' \in [Sources -> BOOLEAN]
  BY DEF SourceTypes, Beat
<1>2. [stage |-> "check", source |-> s, then |-> then, name |-> NoSource] \in Job
  BY DEF Job, Stages
<1>3. JobTypes'
  BY <1>2 DEF JobTypes, Beat
<1>4. QED
  BY <1>1, <1>3

LEMMA BroadcastSafe ==
  ASSUME TempoSafe, NEW t \in Threads, Broadcast(t) PROVE TempoSafe'
<1> USE DEF TempoSafe
<1>1. job[t] \in Job
  <2>1. job[t].stage # "idle"
    BY DEF Broadcast, BroadcastCheck, BroadcastName, BroadcastNumber, AfterBeat
  <2>2. QED
    BY <2>1, AJobThatRuns
<1>2. SourceOrder' /\ OffsetIsWholeBars'
  <2>1. UNCHANGED <<order, registered, phraseOffset>>
    BY DEF Broadcast, BroadcastCheck, BroadcastName, BroadcastNumber, AfterBeat
  <2>2. QED
    BY <2>1 DEF SourceOrder, OffsetIsWholeBars
<1>3. Active \in Sources \cup {NoSource}
  BY ActiveIsASource
<1>4. JobTypes'
  <2>1. CASE BroadcastCheck(t)
    <3>1. [job[t] EXCEPT !.stage = IF Active = job[t].source THEN "name" ELSE "after"] \in Job
      BY <1>1 DEF Job, Stages
    <3>2. QED
      BY <2>1, <3>1 DEF BroadcastCheck, JobTypes
  <2>2. CASE BroadcastName(t)
    <3>1. [job[t] EXCEPT !.stage = "number", !.name = Active] \in Job
      BY <1>1, <1>3 DEF Job, Stages
    <3>2. QED
      BY <2>2, <3>1 DEF BroadcastName, JobTypes
  <2>3. CASE BroadcastNumber(t)
    <3>1. [job[t] EXCEPT !.stage = "after", !.name = NoSource] \in Job
      BY <1>1 DEF Job, Stages
    <3>2. QED
      BY <2>3, <3>1 DEF BroadcastNumber, JobTypes
  <2>4. CASE AfterBeat(t)
    BY <2>4 DEF AfterBeat, JobTypes
  <2>5. QED
    BY <2>1, <2>2, <2>3, <2>4 DEF Broadcast
<1>5. SourceTypes'
  <2>1. CASE AfterBeat(t)
    <3> DEFINE s == job[t].source
    <3>1. s \in Sources
      BY <1>1 DEF Job
    <3>2. valid' \in [Sources -> BOOLEAN]
      <4>1. \/ valid' = [valid EXCEPT ![s] = FALSE]
            \/ valid' = [valid EXCEPT ![s] = TRUE]
            \/ valid' = valid
        BY <2>1 DEF AfterBeat
      <4>2. QED
        BY <4>1 DEF SourceTypes
    <3>3. ticks' \in [Clocks -> 0 .. TicksPerBeat - 1]
      <4>1. 0 \in 0 .. TicksPerBeat - 1
        BY TempoAssumption
      <4>2. ticks' = [ticks EXCEPT ![s] = 0] \/ ticks' = ticks
        BY <2>1 DEF AfterBeat
      <4>3. QED
        BY <4>1, <4>2 DEF SourceTypes
    <3>4. beatNumber' \in [Sources -> Beats]
      <4>1. PICK diff : beatNumber[s] + diff \in Beats
                        /\ beatNumber' = [beatNumber EXCEPT ![s] = @ + diff]
        BY <2>1 DEF AfterBeat
      <4>2. QED
        BY <4>1 DEF SourceTypes
    <3>5. UNCHANGED <<recent, tapping, severalTaps, period>>
      BY <2>1 DEF AfterBeat, tapVars
    <3>6. QED
      BY <3>2, <3>3, <3>4, <3>5 DEF SourceTypes
  <2>2. CASE ~AfterBeat(t)
    <3>1. UNCHANGED <<valid, recent, beatNumber, ticks, tapping, severalTaps, period>>
      BY <2>2 DEF Broadcast, BroadcastCheck, BroadcastName, BroadcastNumber, sourceVars,
                  tapVars
    <3>2. QED
      BY <3>1 DEF SourceTypes
  <2>3. QED
    BY <2>1, <2>2
<1>6. QED
  BY <1>2, <1>4, <1>5

LEMMA ClockSafe ==
  ASSUME TempoSafe, NEW c \in Clocks, ClockMessage(c) PROVE TempoSafe'
<1> USE DEF TempoSafe
<1>1. c \in Sources /\ MidiThread \in Threads /\ {"nothing", "stop"} \subseteq Afters
  BY DEF Sources, Threads, Afters
<1>2. TicksPerBeat \in Nat \ {0} /\ 0 \in 0 .. TicksPerBeat - 1
  BY TempoAssumption
<1>3. UNCHANGED <<order, registered, tapping, severalTaps, period, phraseOffset>>
  BY DEF ClockMessage, tapVars
<1>4. SourceOrder' /\ OffsetIsWholeBars'
  BY <1>3 DEF SourceOrder, OffsetIsWholeBars
<1>5. valid' \in [Sources -> BOOLEAN]
  BY DEF ClockMessage, ClockContinue, ClockStart, ClockStop, ClockTick, SourceTypes
<1>6. ticks' \in [Clocks -> 0 .. TicksPerBeat - 1]
  <2>1. ASSUME ticks' = [ticks EXCEPT ![c] = (@ + 1) % TicksPerBeat]
        PROVE  ticks' \in [Clocks -> 0 .. TicksPerBeat - 1]
    <3>1. (ticks[c] + 1) % TicksPerBeat \in 0 .. TicksPerBeat - 1
      BY <1>2 DEF SourceTypes
    <3>2. QED
      BY <2>1, <3>1 DEF SourceTypes
  <2>2. \/ ticks' = [ticks EXCEPT ![c] = 0]
        \/ ticks' = [ticks EXCEPT ![c] = (@ + 1) % TicksPerBeat]
        \/ ticks' = ticks
    BY DEF ClockMessage, ClockContinue, ClockStart, ClockStop, ClockTick
  <2>3. QED
    BY <1>2, <2>1, <2>2 DEF SourceTypes
<1>7. /\ beatNumber' \in [Sources -> Beats] /\ recent' \in [Sources -> BOOLEAN]
      /\ JobTypes'
  <2>1. CASE UNCHANGED <<recent, beatNumber, job>>
    BY <2>1 DEF SourceTypes, JobTypes
  <2>2. ASSUME NEW n, NEW then \in Afters, Beat(MidiThread, c, n, then)
        PROVE  /\ beatNumber' \in [Sources -> Beats] /\ recent' \in [Sources -> BOOLEAN]
               /\ JobTypes'
    BY <1>1, <2>2, BeatTypes
  <2>3. \/ UNCHANGED <<recent, beatNumber, job>>
        \/ Beat(MidiThread, c, 0, "nothing") \/ Beat(MidiThread, c, -1, "stop")
        \/ Beat(MidiThread, c, beatNumber[c] + 1, "nothing")
    BY DEF ClockMessage, ClockContinue, ClockStart, ClockStop, ClockTick
  <2>4. QED
    BY <1>1, <2>1, <2>2, <2>3
<1>8. QED
  BY <1>3, <1>4, <1>5, <1>6, <1>7 DEF SourceTypes

LEMMA DeviceSafe ==
  ASSUME TempoSafe, NEW c \in Clocks, AddClock(c) \/ RemoveClock(c) PROVE TempoSafe'
<1> USE DEF TempoSafe
<1>1. SourceOrder'
  BY AddClockOrder, RemoveClockOrder
<1>2. UNCHANGED <<tapping, severalTaps, period, phraseOffset, job>>
  BY DEF AddClock, RemoveClock, tapVars
<1>3. JobTypes' /\ OffsetIsWholeBars'
  BY <1>2 DEF JobTypes, OffsetIsWholeBars
<1>4. /\ valid' \in [Sources -> BOOLEAN] /\ recent' \in [Sources -> BOOLEAN]
      /\ beatNumber' \in [Sources -> Beats]
      /\ ticks' \in [Clocks -> 0 .. TicksPerBeat - 1]
  <2>1. -1 \in Beats /\ 0 \in 0 .. TicksPerBeat - 1
    BY TempoAssumption DEF Beats
  <2>2. QED
    BY ZenonT(60), <2>1 DEF AddClock, RemoveClock, sourceVars, SourceTypes
<1>5. QED
  BY <1>1, <1>2, <1>3, <1>4 DEF SourceTypes

LEMMA PlayerSafe ==
  ASSUME TempoSafe, PlayerPacket \/ TapTempoTask PROVE TempoSafe'
<1> USE DEF TempoSafe
<1>1. /\ Player \in Sources /\ Tap \in Sources /\ TempoThread \in Threads
      /\ {"nothing", "packet"} \subseteq Afters
  BY DEF Sources, Threads, Afters
<1>2. UNCHANGED <<order, registered, ticks, tapping, severalTaps, period, phraseOffset>>
  BY DEF PlayerPacket, TapTempoTask, tapVars
<1>3. SourceOrder' /\ OffsetIsWholeBars'
  BY <1>2 DEF SourceOrder, OffsetIsWholeBars
<1>4. valid' \in [Sources -> BOOLEAN]
  BY DEF PlayerPacket, TapTempoTask, SourceTypes
<1>5. /\ beatNumber' \in [Sources -> Beats] /\ recent' \in [Sources -> BOOLEAN]
      /\ JobTypes'
  <2>1. CASE UNCHANGED <<recent, beatNumber, job>>
    BY <2>1 DEF SourceTypes, JobTypes
  <2>2. ASSUME NEW n, NEW s \in Sources, NEW then \in Afters, Beat(TempoThread, s, n, then)
        PROVE  /\ beatNumber' \in [Sources -> Beats] /\ recent' \in [Sources -> BOOLEAN]
               /\ JobTypes'
    BY <1>1, <2>2, BeatTypes
  <2>3. \/ UNCHANGED <<recent, beatNumber, job>>
        \/ Beat(TempoThread, Player, beatNumber[Player] + 1, "packet")
        \/ \E n \in 0 .. MaxBeat : Beat(TempoThread, Tap, n, "nothing")
    BY DEF PlayerPacket, TapTempoTask
  <2>4. QED
    BY <1>1, <2>1, <2>2, <2>3
<1>6. QED
  BY <1>2, <1>3, <1>4, <1>5 DEF SourceTypes

LEMMA TapSafe ==
  ASSUME TempoSafe, FirstTap \/ NextTap \/ TapStop \/ TapTimeout PROVE TempoSafe'
<1> USE DEF TempoSafe
<1>1. Tap \in Sources /\ WebThread \in Threads /\ "nothing" \in Afters /\ -1 \in Beats
  BY TempoAssumption DEF Sources, Threads, Afters, Beats
<1>2. UNCHANGED <<order, registered, ticks>>
  BY DEF FirstTap, NextTap, TapStop, TapTimeout, sourceVars
<1>3. SourceOrder'
  BY <1>2 DEF SourceOrder
<1>4. OffsetIsWholeBars'
  <2>1. phraseOffset' \in {0, phraseOffset}
    BY DEF FirstTap, NextTap, TapStop, TapTimeout
  <2>2. QED
    BY <2>1, ZeroIsWholeBars DEF OffsetIsWholeBars
<1>5. /\ valid' \in [Sources -> BOOLEAN]
      /\ tapping' \in BOOLEAN /\ severalTaps' \in BOOLEAN /\ period' \in BOOLEAN
  BY DEF FirstTap, NextTap, TapStop, TapTimeout, sourceVars, SourceTypes
<1>6. /\ beatNumber' \in [Sources -> Beats] /\ recent' \in [Sources -> BOOLEAN]
      /\ JobTypes'
  <2>1. CASE FirstTap
    BY <1>1, <2>1, BeatTypes DEF FirstTap
  <2>2. CASE ~FirstTap
    <3>1. UNCHANGED <<recent, job>>
      BY <2>2 DEF NextTap, TapStop, TapTimeout, sourceVars
    <3>2. beatNumber' \in [Sources -> Beats]
      BY <1>1, <2>2 DEF NextTap, TapStop, TapTimeout, sourceVars, SourceTypes
    <3>3. QED
      BY <3>1, <3>2 DEF SourceTypes, JobTypes
  <2>3. QED
    BY <2>1, <2>2
<1>7. QED
  BY <1>2, <1>3, <1>4, <1>5, <1>6 DEF SourceTypes

(* Whatever is reported, also the -1 of nobody, the offset becomes whole   *)
(* bars again.                                                             *)
LEMMA AlignSafe == ASSUME TempoSafe, AlignPhrase PROVE TempoSafe'
<1> USE DEF TempoSafe
<1> DEFINE raw == GetBeatNumber - phraseOffset
<1>1. UNCHANGED <<order, registered, valid, recent, beatNumber, ticks, tapping, severalTaps,
                  period, job>>
  BY DEF AlignPhrase, sourceVars, tapVars
<1>2. SourceOrder' /\ SourceTypes' /\ JobTypes'
  BY <1>1 DEF SourceOrder, SourceTypes, JobTypes
<1>3. phraseOffset \in Int
  <2>1. BarSize \in Nat /\ PhraseSize \in Nat
    BY TempoSizes DEF Sizes
  <2>2. QED
    BY <2>1 DEF OffsetIsWholeBars
<1>4. raw \in Int
  BY <1>3, ActiveIsASource
<1>5. phraseOffset' = Realigned(raw)
  BY DEF AlignPhrase, Realigned
<1> HIDE DEF raw
<1>6. OffsetIsWholeBars'
  BY <1>4, <1>5, RealignedIsWholeBars DEF OffsetIsWholeBars
<1>7. QED
  BY <1>2, <1>6

LEMMA SafeStep == ASSUME TempoSafe, [Next]_vars PROVE TempoSafe'
<1>1. ASSUME NEW s \in Sources, Silence(s) PROVE TempoSafe'
  <2>1. UNCHANGED <<order, registered, valid, beatNumber, ticks, tapping, severalTaps,
                    period, phraseOffset, job>>
    BY <1>1 DEF Silence, tapVars
  <2>2. recent' \in [Sources -> BOOLEAN]
    BY <1>1 DEF Silence, TempoSafe, SourceTypes
  <2>3. QED
    BY <2>1, <2>2 DEF TempoSafe, SourceOrder, SourceTypes, JobTypes, OffsetIsWholeBars
<1>2. CASE UNCHANGED vars
  <2>1. UNCHANGED <<order, registered, valid, recent, beatNumber, ticks, tapping,
                    severalTaps, period, phraseOffset, job>>
    BY <1>2 DEF vars, sourceVars, tapVars
  <2>2. QED
    BY <2>1 DEF TempoSafe, SourceOrder, SourceTypes, JobTypes, OffsetIsWholeBars
<1>3. CASE Next
  BY <1>1, <1>3, BroadcastSafe, PlayerSafe, TapSafe, ClockSafe, DeviceSafe, AlignSafe
     DEF Next
<1>4. QED
  BY <1>2, <1>3

(* After an alignment the beat is in the first bar of its phrase.          *)
LEMMA AlignedStep ==
  ASSUME TempoSafe, AlignPhrase, Active # NoSource, beatNumber[Active] >= 0
  PROVE  (GetBeatNumber' % PhraseSize) = beatNumber[Active] % BarSize
<1> DEFINE n == beatNumber[Active]
<1>1. Active \in Sources
  BY ActiveIsASource DEF TempoSafe
<1>2. n \in Nat
  <2>1. n \in Beats
    BY <1>1 DEF TempoSafe, SourceTypes
  <2>2. QED
    BY <2>1, TempoAssumption DEF Beats
<1>3. phraseOffset \in Int
  <2>1. BarSize \in Nat /\ PhraseSize \in Nat
    BY TempoSizes DEF Sizes
  <2>2. QED
    BY <2>1 DEF TempoSafe, OffsetIsWholeBars
<1>4. GetBeatNumber = n + phraseOffset
  BY DEF GetBeatNumber
<1>5. Active' = Active
  <2>1. UNCHANGED <<order, valid, recent>>
    BY DEF AlignPhrase, sourceVars
  <2>2. QED
    BY <2>1 DEF Active, FirstWithSignal, HasSignal
<1>6. beatNumber' = beatNumber
  BY DEF AlignPhrase, sourceVars
<1>7. GetBeatNumber' = n + phraseOffset'
  BY <1>5, <1>6 DEF GetBeatNumber
<1> HIDE DEF n
<1>8. GetBeatNumber - phraseOffset = n
  BY <1>2, <1>3, <1>4
<1>9. phraseOffset' = Realigned(n)
  BY <1>8 DEF AlignPhrase, Realigned
<1>10. QED
  BY <1>2, <1>7, <1>9, RealignedStartsPhrase DEF n

-----------------------------------------------------------------------------
(* A source that was found active keeps its signal until its beat is out,  *)
(* whatever the other threads do, but for the beats that TempoTask makes   *)
(* of tapping.                                                             *)

Kept(t) == job[t].source = Tap => t = WebThread

(* The threads on which a clock and the player beat; only a clock is       *)
(* stopped with a beat.                                                    *)
RunsOn(t) ==
  /\ job[t].source \in Clocks => t = MidiThread
  /\ job[t].source = Player => t = TempoThread
  /\ job[t].then = "stop" => job[t].source \in Clocks

OnItsThread(t) ==
  job[t] # Idle => /\ RunsOn(t)
                   /\ job[t].source \in ToSet(order)

Live(t) == job[t].stage \in {"name", "number"} /\ Kept(t) => HasSignal(job[t].source)

OnTheAir == \A t \in Threads : OnItsThread(t) /\ Live(t)

LEMMA AJobOfItsOwn ==
  ASSUME TempoSafe, NEW t \in Threads, job[t] # Idle
  PROVE  job[t] \in Job /\ job[t].source \in Sources /\ job[t].stage \in Stages
BY DEF TempoSafe, JobTypes, Job

(* No action takes a source out of the set while its beat is on its way.   *)
LEMMA StaysInOrder ==
  ASSUME TempoSafe, OnTheAir, [Next]_vars, NEW t \in Threads, job[t] # Idle
  PROVE  job[t].source \in ToSet(order')
<1> DEFINE s == job[t].source
<1>1. s \in ToSet(order) /\ RunsOn(t)
  BY DEF OnTheAir, OnItsThread
<1>2. order \in Seq(Sources) /\ Distinct(order)
  BY DEF TempoSafe, SourceOrder
<1>3. ASSUME NEW c \in Clocks, AddClock(c) PROVE s \in ToSet(order')
  <2>1. PICK i \in 1 .. Len(order) + 1 : order' = InsertAt(order, i, c)
    BY <1>3 DEF AddClock
  <2>2. c \in Sources /\ c \notin ToSet(order)
    BY <1>3 DEF AddClock, Sources
  <2>3. ToSet(order') = ToSet(order) \cup {c}
    BY <1>2, <2>1, <2>2, InsertSet
  <2>4. QED
    BY <1>1, <2>3
<1>4. ASSUME NEW c \in Clocks, RemoveClock(c) PROVE s \in ToSet(order')
  <2>1. DOMAIN order = 1 .. Len(order)
    BY <1>2
  <2>2. PICK i \in 1 .. Len(order) : order[i] = c /\ order' = RemoveAt(order, i)
    BY <1>4, <2>1 DEF RemoveClock
  <2>3. ToSet(order') = ToSet(order) \ {c}
    BY <1>2, <2>2, RemoveSet
  <2>4. s # c
    BY <1>1, <1>4 DEF RunsOn, RemoveClock, Free
  <2>5. QED
    BY <1>1, <2>3, <2>4
<1>5. CASE order' = order
  BY <1>1, <1>5
<1>6. \/ order' = order
      \/ \E c \in Clocks : AddClock(c) \/ RemoveClock(c)
  <2>1. CASE UNCHANGED vars
    BY <2>1 DEF vars
  <2>2. CASE Next
    BY <2>2 DEF Next, Broadcast, BroadcastCheck, BroadcastName, BroadcastNumber, AfterBeat,
                PlayerPacket, TapTempoTask, FirstTap, NextTap, TapStop, TapTimeout,
                ClockMessage, AlignPhrase, Silence
  <2>3. QED
    BY <2>1, <2>2
<1>7. QED
  BY <1>3, <1>4, <1>5, <1>6

(* No action takes its signal either, but its own thread's and a tap's     *)
(* Stop.                                                                   *)
LEMMA SignalStays ==
  ASSUME TempoSafe, OnTheAir, [Next]_vars, NEW t \in Threads, job[t] # Idle, Kept(t),
         job'[t] = job[t], HasSignal(job[t].source)
  PROVE  HasSignal(job[t].source)'
<1> DEFINE s == job[t].source
<1>1. s \in ToSet(order) /\ RunsOn(t)
  BY DEF OnTheAir, OnItsThread
<1>2. valid \in [Sources -> BOOLEAN] /\ recent \in [Sources -> BOOLEAN] /\ s \in Sources
      /\ job \in [Threads -> {Idle} \cup Job]
  BY AJobOfItsOwn DEF TempoSafe, SourceTypes, JobTypes
<1>3. valid[s] /\ recent[s]
  BY DEF HasSignal
<1>4. ~Free(t)
  BY DEF Free
<1>5. SUFFICES valid'[s] /\ recent'[s]
  BY DEF HasSignal
<1>6. ASSUME NEW u \in Threads, NEW a \in Sources, NEW n, NEW then, Beat(u, a, n, then)
      PROVE  recent'[s]
  BY <1>2, <1>3, <1>6 DEF Beat
<1>7. ASSUME NEW u \in Threads, Broadcast(u) PROVE valid'[s] /\ recent'[s]
  <2>1. CASE AfterBeat(u)
    <3>1. u # t /\ recent' = recent
      <4>1. job'[u] = Idle
        BY <1>2, <2>1 DEF AfterBeat
      <4>2. QED
        BY <2>1, <4>1 DEF AfterBeat
    <3>2. CASE job[u].then = "stop" /\ job[u].source = s
      <4>1. job[u] # Idle
        BY <2>1 DEF AfterBeat, Idle
      <4>2. RunsOn(u)
        BY <4>1 DEF OnTheAir, OnItsThread
      <4>3. u = MidiThread /\ t = MidiThread
        BY <1>1, <3>2, <4>2 DEF RunsOn
      <4>4. QED
        BY <3>1, <4>3
    <3>3. CASE ~(job[u].then = "stop" /\ job[u].source = s)
      <4>1. \/ valid' = valid
            \/ valid' = [valid EXCEPT ![job[u].source] = TRUE]
            \/ job[u].source # s /\ valid' = [valid EXCEPT ![job[u].source] = FALSE]
        BY <2>1, <3>3 DEF AfterBeat
      <4>2. QED
        BY <1>2, <1>3, <3>1, <4>1
    <3>4. QED
      BY <3>2, <3>3
  <2>2. CASE ~AfterBeat(u)
    BY <1>3, <1>7, <2>2
       DEF Broadcast, BroadcastCheck, BroadcastName, BroadcastNumber, sourceVars
  <2>3. QED
    BY <2>1, <2>2
<1>8. TempoThread \in Threads /\ MidiThread \in Threads /\ WebThread \in Threads
      /\ Player \in Sources /\ Tap \in Sources /\ Clocks \subseteq Sources
  BY DEF Threads, Sources
<1>9. CASE PlayerPacket
  <2>1. valid'[s]
    BY <1>2, <1>3, <1>9 DEF PlayerPacket
  <2>2. recent'[s]
    BY <1>3, <1>6, <1>8, <1>9 DEF PlayerPacket
  <2>3. QED
    BY <2>1, <2>2
<1>10. CASE TapTempoTask
  BY <1>3, <1>6, <1>8, <1>10 DEF TapTempoTask
<1>11. CASE FirstTap
  <2>1. valid'[s]
    BY <1>2, <1>3, <1>11 DEF FirstTap
  <2>2. recent'[s]
    BY <1>6, <1>8, <1>11 DEF FirstTap
  <2>3. QED
    BY <2>1, <2>2
<1>12. CASE NextTap
  BY <1>2, <1>3, <1>12 DEF NextTap
<1>13. CASE TapStop
  <2>1. s # Tap
    BY <1>4, <1>13 DEF TapStop, Kept
  <2>2. QED
    BY <1>2, <1>3, <1>13, <2>1 DEF TapStop
<1>14. ASSUME NEW c \in Clocks, ClockMessage(c) PROVE valid'[s] /\ recent'[s]
  <2>1. valid'[s]
    BY <1>2, <1>3, <1>14
       DEF ClockMessage, ClockContinue, ClockStart, ClockStop, ClockTick
  <2>2. recent'[s]
    BY <1>3, <1>6, <1>8, <1>14
       DEF ClockMessage, ClockContinue, ClockStart, ClockStop, ClockTick
  <2>3. QED
    BY <2>1, <2>2
<1>15. ASSUME NEW c \in Clocks, AddClock(c) PROVE valid'[s] /\ recent'[s]
  <2>1. s # c
    BY <1>1, <1>15 DEF AddClock
  <2>2. QED
    BY <1>2, <1>3, <1>15, <2>1 DEF AddClock
<1>16. ASSUME NEW c \in Sources, Silence(c) PROVE valid'[s] /\ recent'[s]
  <2>1. s # c
    BY <1>4, <1>16 DEF Silence
  <2>2. QED
    BY <1>2, <1>3, <1>16, <2>1 DEF Silence
<1>17. CASE UNCHANGED vars \/ AlignPhrase \/ TapTimeout \/ \E c \in Clocks : RemoveClock(c)
  BY <1>3, <1>17 DEF vars, AlignPhrase, TapTimeout, RemoveClock, sourceVars
<1>18. QED
  BY <1>7, <1>9, <1>10, <1>11, <1>12, <1>13, <1>14, <1>15, <1>16, <1>17 DEF Next

(* A job that changes is a new beat of a source of that thread or goes one *)
(* stage further.                                                          *)
LEMMA BeatOnTheAir ==
  ASSUME TempoSafe, [Next]_vars, NEW t \in Threads, job[t] = Idle, job'[t] # job[t],
         NEW u \in Threads, NEW a \in Sources, NEW n, NEW then, Beat(u, a, n, then),
         a \in Clocks => u = MidiThread, a = Player => u = TempoThread,
         then = "stop" => a \in Clocks, a \in ToSet(order), order' = order
  PROVE  OnItsThread(t)' /\ Live(t)'
<1>1. job \in [Threads -> {Idle} \cup Job]
  BY DEF TempoSafe, JobTypes
<1>2. u = t
  BY <1>1 DEF Beat
<1>3. job'[t] = [stage |-> "check", source |-> a, then |-> then, name |-> NoSource]
  BY <1>1, <1>2 DEF Beat
<1>4. job'[t].stage = "check" /\ job'[t].source = a /\ job'[t].then = then
  BY <1>3
<1>5. Live(t)'
  BY <1>4 DEF Live
<1>6. OnItsThread(t)'
  BY <1>2, <1>4 DEF OnItsThread, RunsOn
<1>7. QED
  BY <1>5, <1>6

LEMMA NewBeatOnTheAir ==
  ASSUME TempoSafe, [Next]_vars, NEW t \in Threads, job[t] = Idle, job'[t] # job[t]
  PROVE  OnItsThread(t)' /\ Live(t)'
<1>1. Player # Tap /\ Player \notin Clocks /\ Tap \notin Clocks
  BY TempoAssumption
<1>2. TempoThread \in Threads /\ MidiThread \in Threads /\ WebThread \in Threads
      /\ Player \in Sources /\ Tap \in Sources /\ Clocks \subseteq Sources
  BY DEF Threads, Sources
<1>3. {Player, Tap} \subseteq ToSet(order)
  BY DEF TempoSafe, SourceOrder
<1>4. CASE PlayerPacket
  <2>1. Beat(TempoThread, Player, beatNumber[Player] + 1, "packet") /\ order' = order
    BY <1>4 DEF PlayerPacket
  <2>2. QED
    BY <1>1, <1>2, <1>3, <2>1, BeatOnTheAir
<1>5. CASE TapTempoTask
  <2>1. (\E n \in 0 .. MaxBeat : Beat(TempoThread, Tap, n, "nothing")) /\ order' = order
    BY <1>5 DEF TapTempoTask
  <2>2. QED
    BY <1>1, <1>2, <1>3, <2>1, BeatOnTheAir
<1>6. CASE FirstTap
  <2>1. Beat(WebThread, Tap, 0, "nothing") /\ order' = order
    BY <1>6 DEF FirstTap
  <2>2. QED
    BY <1>1, <1>2, <1>3, <2>1, BeatOnTheAir
<1>7. ASSUME NEW c \in Clocks, ClockMessage(c) PROVE OnItsThread(t)' /\ Live(t)'
  <2>1. order' = order /\ c \in ToSet(order) /\ c # Player
    BY <1>1, <1>7 DEF ClockMessage
  <2>2. \E n : Beat(MidiThread, c, n, "nothing") \/ Beat(MidiThread, c, n, "stop")
    BY <1>7 DEF ClockMessage, ClockContinue, ClockStart, ClockStop, ClockTick
  <2>3. PICK n : Beat(MidiThread, c, n, "nothing") \/ Beat(MidiThread, c, n, "stop")
    BY <2>2
  <2>4. CASE Beat(MidiThread, c, n, "nothing")
    BY <1>2, <2>1, <2>4, BeatOnTheAir
  <2>5. CASE Beat(MidiThread, c, n, "stop")
    BY <1>2, <2>1, <2>5, BeatOnTheAir
  <2>6. QED
    BY <2>3, <2>4, <2>5
<1>8. \A u \in Threads : Broadcast(u) => u # t
  BY DEF Broadcast, BroadcastCheck, BroadcastName, BroadcastNumber, AfterBeat, Idle
<1>9. \A u \in Threads : ~Broadcast(u)
  <2>1. ASSUME NEW u \in Threads, Broadcast(u) PROVE FALSE
    <3>1. u # t /\ job \in [Threads -> {Idle} \cup Job]
      BY <1>8, <2>1 DEF TempoSafe, JobTypes
    <3>2. job'[t] = job[t]
      BY <2>1, <3>1
         DEF Broadcast, BroadcastCheck, BroadcastName, BroadcastNumber, AfterBeat
    <3>3. QED
      BY <3>2
  <2>2. QED
    BY <2>1
<1>10. job' # job
  OBVIOUS
<1>11. ~(NextTap \/ TapStop \/ TapTimeout \/ AlignPhrase \/ UNCHANGED vars)
  BY <1>10 DEF NextTap, TapStop, TapTimeout, AlignPhrase, vars
<1>12. /\ \A c \in Clocks : ~AddClock(c) /\ ~RemoveClock(c)
       /\ \A a \in Sources : ~Silence(a)
  BY <1>10 DEF AddClock, RemoveClock, Silence
<1>13. QED
  BY <1>4, <1>5, <1>6, <1>7, <1>9, <1>11, <1>12 DEF Next

(* Only its broadcast goes on with a job.                                  *)
LEMMA ItsBroadcast ==
  ASSUME TempoSafe, [Next]_vars, NEW t \in Threads, job[t] # Idle, job'[t] # job[t]
  PROVE  Broadcast(t)
<1>1. job \in [Threads -> {Idle} \cup Job] /\ ~Free(t) /\ job' # job
  BY DEF TempoSafe, JobTypes, Free
<1>2. ASSUME NEW u \in Threads, Free(u), NEW a, NEW n, NEW then, Beat(u, a, n, then)
      PROVE  FALSE
  BY <1>1, <1>2 DEF Beat
<1>3. TempoThread \in Threads /\ MidiThread \in Threads /\ WebThread \in Threads
  BY DEF Threads
<1>4. ~(PlayerPacket \/ TapTempoTask \/ FirstTap)
  BY <1>1, <1>2, <1>3 DEF PlayerPacket, TapTempoTask, FirstTap
<1>5. ASSUME NEW c \in Clocks PROVE ~(ClockMessage(c) \/ AddClock(c) \/ RemoveClock(c))
  BY <1>1, <1>2, <1>3
     DEF ClockMessage, ClockContinue, ClockStart, ClockStop, ClockTick, AddClock, RemoveClock
<1>6. /\ ~(NextTap \/ TapStop \/ TapTimeout \/ AlignPhrase \/ UNCHANGED vars)
      /\ \A a \in Sources : ~Silence(a)
  BY <1>1 DEF NextTap, TapStop, TapTimeout, AlignPhrase, vars, Silence
<1>7. PICK u \in Threads : Broadcast(u)
  BY <1>4, <1>5, <1>6 DEF Next
<1>8. u = t
  BY <1>1, <1>7 DEF Broadcast, BroadcastCheck, BroadcastName, BroadcastNumber, AfterBeat
<1>9. QED
  BY <1>7, <1>8

LEMMA OnTheAirStep ==
  ASSUME TempoSafe, OnTheAir, [Next]_vars PROVE OnTheAir'
<1> SUFFICES ASSUME NEW t \in Threads PROVE OnItsThread(t)' /\ Live(t)'
  BY DEF OnTheAir
<1>1. CASE job[t] = Idle /\ job'[t] = job[t]
  <2>1. job'[t].stage = "idle"
    BY <1>1 DEF Idle
  <2>2. QED
    BY <1>1, <2>1 DEF OnItsThread, Live
<1>2. CASE job[t] = Idle /\ job'[t] # job[t]
  BY <1>2, NewBeatOnTheAir
<1>3. CASE job[t] # Idle /\ job'[t] = job[t]
  <2>1. OnItsThread(t)'
    <3>1. RunsOn(t)'
      BY <1>3 DEF OnTheAir, OnItsThread, RunsOn
    <3>2. QED
      BY <1>3, <3>1, StaysInOrder DEF OnItsThread
  <2>2. ASSUME job[t].stage \in {"name", "number"}, Kept(t)
        PROVE  HasSignal(job[t].source)'
    <3>1. HasSignal(job[t].source)
      BY <2>2 DEF OnTheAir, Live
    <3>2. QED
      BY <1>3, <2>2, <3>1, SignalStays
  <2>3. Live(t)'
    BY <1>3, <2>2 DEF Live, Kept, HasSignal
  <2>4. QED
    BY <2>1, <2>3
<1>4. CASE job[t] # Idle /\ job'[t] # job[t]
  <2>1. job[t] \in Job /\ job \in [Threads -> {Idle} \cup Job]
    BY <1>4, AJobOfItsOwn DEF TempoSafe, JobTypes
  <2>2. Broadcast(t)
    BY <1>4, ItsBroadcast
  <2>3. CASE AfterBeat(t)
    <3>1. job'[t] = Idle
      BY <2>1, <2>3 DEF AfterBeat
    <3>2. job'[t].stage = "idle"
      BY <3>1 DEF Idle
    <3>3. QED
      BY <3>1, <3>2 DEF OnItsThread, Live
  <2>4. CASE BroadcastCheck(t) \/ BroadcastName(t) \/ BroadcastNumber(t)
    <3>1. /\ UNCHANGED <<order, valid, recent>>
          /\ job'[t].source = job[t].source /\ job'[t].then = job[t].then
      BY <2>1, <2>4
         DEF BroadcastCheck, BroadcastName, BroadcastNumber, sourceVars, Job
    <3>2. OnItsThread(t)'
      <4>1. OnItsThread(t)
        BY DEF OnTheAir
      <4>2. QED
        BY <1>4, <3>1, <4>1 DEF OnItsThread, RunsOn
    <3>3. ASSUME job'[t].stage \in {"name", "number"}, Kept(t)
          PROVE  HasSignal(job[t].source)
      <4>1. CASE BroadcastCheck(t)
        <5>1. Active = job[t].source /\ Active \in Sources
          BY <2>1, <3>3, <4>1 DEF BroadcastCheck, Job
        <5>2. order \in Seq(Sources) /\ Active # NoSource
          BY <5>1, TempoAssumption DEF TempoSafe, SourceOrder
        <5>3. HasSignal(Active)
          BY <5>2, FirstFacts DEF Active
        <5>4. QED
          BY <5>1, <5>3
      <4>2. CASE BroadcastName(t)
        BY <3>3, <4>2 DEF BroadcastName, OnTheAir, Live
      <4>3. CASE BroadcastNumber(t)
        BY <2>1, <3>3, <4>3 DEF BroadcastNumber, Job
      <4>4. QED
        BY <2>4, <4>1, <4>2, <4>3
    <3>4. Live(t)'
      BY <3>1, <3>3 DEF Live, Kept, HasSignal
    <3>5. QED
      BY <3>2, <3>4
  <2>5. QED
    BY <2>2, <2>3, <2>4 DEF Broadcast
<1>5. QED
  BY <1>1, <1>2, <1>3, <1>4

(* Where there is a signal the active source comes no later.               *)
LEMMA FirstIsNoLater ==
  ASSUME NEW seq \in Seq(Sources), NEW j \in 1 .. Len(seq), HasSignal(seq[j])
  PROVE  \E i \in 1 .. Len(seq) :
           i <= j /\ FirstWithSignal(seq) = seq[i] /\ HasSignal(seq[i])
<1> DEFINE T == {i \in 1 .. Len(seq) : HasSignal(seq[i])}
<1>1. T \in SUBSET Nat /\ j \in T
  BY ElementsOf
<1>2. PICK i \in T : \A k \in T : i <= k
  <2> HIDE DEF T
  <2>1. QED
    BY <1>1, LeastNatural
<1>3. i \in 1 .. Len(seq) /\ HasSignal(seq[i]) /\ i <= j
      /\ \A k \in 1 .. Len(seq) : HasSignal(seq[k]) => i <= k
  BY <1>1, <1>2
<1>4. FirstWithSignal(seq) = seq[i]
  BY <1>3, FirstIs
<1>5. QED
  BY <1>3, <1>4

LEMMA NotMisplacedStep ==
  ASSUME TempoSafe, OnTheAir, [Next]_vars, NEW t \in Threads,
         job[t].stage \in {"name", "number"}, job'[t] # job[t],
         job[t].source = Tap => t = WebThread
  PROVE  \E a \in Sources :
           /\ OnlyPrecededBy(job[t].source, a)
           /\ job[t].stage = "name" => job'[t].name = a
           /\ job[t].stage = "number" => Told(t).number = beatNumber[a] + phraseOffset
<1> DEFINE s == job[t].source
<1>1. job[t] # Idle
  BY DEF Idle
<1>2. job[t] \in Job /\ s \in Sources /\ job \in [Threads -> {Idle} \cup Job]
  BY <1>1, AJobOfItsOwn DEF TempoSafe, JobTypes
<1>3. s \in ToSet(order) /\ HasSignal(s)
  BY <1>1 DEF OnTheAir, OnItsThread, Live, Kept
<1>4. /\ order \in Seq(Sources) /\ DOMAIN order = 1 .. Len(order)
      /\ \A k \in 1 .. Len(order) : order[k] \in Sources
      /\ ToSet(order) = {order[k] : k \in 1 .. Len(order)}
  <2>1. order \in Seq(Sources)
    BY DEF TempoSafe, SourceOrder
  <2>2. QED
    BY <2>1, ElementsOf
<1>5. PICK j \in 1 .. Len(order) : order[j] = s
  BY <1>3, <1>4
<1>6. PICK i \in 1 .. Len(order) : i <= j /\ Active = order[i] /\ HasSignal(order[i])
  BY <1>3, <1>4, <1>5, FirstIsNoLater DEF Active
<1>7. Active \in Sources /\ Active # NoSource /\ OnlyPrecededBy(s, Active)
  BY <1>4, <1>5, <1>6, TempoAssumption DEF OnlyPrecededBy
<1>8. Broadcast(t)
  BY <1>1, ItsBroadcast
<1>9. job[t].stage = "name" => job'[t].name = Active
  <2>1. ASSUME job[t].stage = "name" PROVE BroadcastName(t)
    BY <1>8, <2>1 DEF Broadcast, BroadcastCheck, BroadcastNumber, AfterBeat
  <2>2. ASSUME BroadcastName(t) PROVE job'[t].name = Active
    BY <1>2, <2>2 DEF BroadcastName, Job
  <2>3. QED
    BY <2>1, <2>2
<1>10. Told(t).number = beatNumber[Active] + phraseOffset
  BY <1>7 DEF Told, GetBeatNumber
<1>11. QED
  BY <1>7, <1>9, <1>10

-----------------------------------------------------------------------------
(* The players.                                                            *)

(* Nothing has been counted of a master that has not been heard.           *)
LinkSafe == Link!TypeOK /\ (heard = 0 => lastbeat = -1)

LEMMA LinkNumbers == LinkBeats \in Nat /\ NoMaster \notin Players
BY TimingAssumption DEF Link!ProDjAssumption

LEMMA LinkInit == Link!Init => LinkSafe
BY LinkNumbers DEF Link!Init, LinkSafe, Link!TypeOK, Link!Startup, Link!CdjBeats, Link!CdjBar

LEMMA NearestFacts ==
  ASSUME NEW b \in Nat, NEW n \in Link!CdjBeats \cup {Link!Startup}
  PROVE  LET m == Link!Nearest((n - 1) - (b % Link!CdjBar))
         IN  /\ m \in -1 .. 15
             /\ n \in Link!CdjBeats => m <= 2 /\ (b + m - (n - 1)) % Link!CdjBar = 0
<1> USE DEF Link!CdjBar, Link!Startup, Link!CdjBeats
<1> DEFINE q == b \div 4
           r == b % 4
           d == (n - 1) - r
           m == Link!Nearest(d)
<1>1. q \in Int /\ r \in Int /\ 0 <= r /\ r < 4 /\ b = 4 * q + r
  BY DivMod
<1> HIDE DEF q, r
<1>2. n \in 1 .. 4 \/ n = 16
  OBVIOUS
<1>3. m \in -1 .. 15
  BY <1>1, <1>2 DEF Link!Nearest
<1>4. ASSUME n \in 1 .. 4
      PROVE  m <= 2 /\ (b + m - (n - 1)) % 4 = 0
  <2>1. d \in -3 .. 3
    BY <1>1, <1>4
  <2>2. m <= 2 /\ (m = d \/ m = d + 4 \/ m = d - 4)
    BY <2>1 DEF Link!Nearest
  <2>3. b + m - (n - 1) = 4 * q + (m - d)
    BY <1>1, <1>4, <2>1, <2>2
  <2>4. \E k \in Int : b + m - (n - 1) = 4 * k + 0
    <3>1. CASE m = d
      BY <1>1, <2>1, <2>3, <3>1
    <3>2. CASE m = d + 4
      <4>1. b + m - (n - 1) = 4 * (q + 1) + 0 /\ q + 1 \in Int
        BY <1>1, <2>1, <2>3, <3>2
      <4>2. QED
        BY <4>1
    <3>3. CASE m = d - 4
      <4>1. b + m - (n - 1) = 4 * (q - 1) + 0 /\ q - 1 \in Int
        BY <1>1, <2>1, <2>3, <3>3
      <4>2. QED
        BY <4>1
    <3>4. QED
      BY <2>2, <3>1, <3>2, <3>3
  <2>5. b + m - (n - 1) \in Int
    BY <1>3, <1>4
  <2>6. QED
    BY <2>2, <2>4, <2>5, ModUnique
<1>5. QED
  BY <1>3, <1>4 DEF r

(* A beat that counts.                                                     *)
LEMMA CountFacts ==
  ASSUME LinkSafe, NEW n \in Link!CdjBeats \cup {Link!Startup}, Link!Count(n)
  PROVE  /\ lastbeat' = count + 1 /\ lastbeat' \in 0 .. LinkBeats
         /\ count' \in -1 .. LinkBeats + Link!Startup
         /\ n \in Link!CdjBeats =>
              /\ (count' - (n - 1)) % Link!CdjBar = 0
              /\ count' - count \in 0 .. Link!CdjBar - 1
<1> USE DEF Link!CdjBar, Link!Startup
<1> DEFINE b == count + 1
           m == Link!Nearest((n - 1) - (b % Link!CdjBar))
<1>1. LinkBeats \in Nat /\ count \in -1 .. LinkBeats + 16
  BY LinkNumbers DEF LinkSafe, Link!TypeOK
<1>2. b \in Nat
  BY <1>1
<1>3. b < LinkBeats /\ lastbeat' = b /\ count' = b + m
  BY DEF Link!Count
<1>4. /\ m \in -1 .. 15
      /\ n \in Link!CdjBeats => m <= 2 /\ (b + m - (n - 1)) % Link!CdjBar = 0
  BY <1>2, NearestFacts
<1> HIDE DEF m
<1>5. count' - (n - 1) = b + m - (n - 1)
  BY <1>1, <1>3, <1>4 DEF Link!CdjBeats
<1>6. ASSUME n \in Link!CdjBeats
      PROVE  /\ (count' - (n - 1)) % Link!CdjBar = 0
             /\ count' - count \in 0 .. Link!CdjBar - 1
  <2>1. (count' - (n - 1)) % Link!CdjBar = 0
    BY <1>4, <1>5, <1>6
  <2>2. count' - count = 1 + m /\ m <= 2
    BY <1>1, <1>3, <1>4, <1>6
  <2>3. QED
    BY <1>4, <2>1, <2>2
<1>7. count' \in -1 .. LinkBeats + 16 /\ lastbeat' \in 0 .. LinkBeats
  BY <1>1, <1>3, <1>4
<1>8. QED
  BY <1>3, <1>6, <1>7

LEMMA LinkStep == ASSUME LinkSafe, [Link!Next]_Link!vars PROVE LinkSafe'
<1> USE DEF Link!CdjBar, Link!Startup, Link!CdjBeats
<1>1. LinkBeats \in Nat /\ NoMaster \notin Players
  BY LinkNumbers
<1>2. ASSUME NEW p \in Players, Link!OnStatus(p) PROVE LinkSafe'
  BY <1>1, <1>2 DEF Link!OnStatus, Link!Forget, LinkSafe, Link!TypeOK
<1>3. ASSUME NEW p \in Players, NEW n \in Link!CdjBeats \cup {Link!Startup},
             Link!OnBeat(p, n)
      PROVE  LinkSafe'
  <2>1. master' \in Players \cup {NoMaster} /\ (master' = NoMaster => master = NoMaster)
    BY <1>1, <1>3 DEF Link!OnBeat, Link!FirstBeat, LinkSafe, Link!TypeOK
  <2>2. n \in {0, 16} \cup (1 .. 4) /\ n # 0
    BY <1>3
  <2>3. heard' = IF p = master' THEN n ELSE heard
    BY <1>3 DEF Link!OnBeat
  <2>4. CASE Link!Count(n) /\ p = master'
    BY <1>1, <1>3, <2>1, <2>2, <2>3, <2>4, CountFacts DEF LinkSafe, Link!TypeOK
  <2>5. CASE UNCHANGED <<lastbeat, count>>
    <3>1. heard' = 0 => heard = 0
      BY <2>2, <2>3
    <3>2. heard' \in {0, 16} \cup (1 .. 4)
      BY <2>2, <2>3 DEF LinkSafe, Link!TypeOK
    <3>3. QED
      BY <2>1, <2>5, <3>1, <3>2 DEF LinkSafe, Link!TypeOK
  <2>6. QED
    BY <1>3, <2>4, <2>5 DEF Link!OnBeat
<1>4. CASE UNCHANGED Link!vars
  BY <1>4 DEF Link!vars, LinkSafe, Link!TypeOK
<1>5. QED
  BY <1>2, <1>3, <1>4 DEF Link!Next

LEMMA FollowStep ==
  ASSUME LinkSafe, [Link!Next]_Link!vars
  PROVE  /\ heard' \in Link!CdjBeats /\ (count' # count \/ lastbeat' \notin {lastbeat, -1})
            => /\ (count' - (heard' - 1)) % Link!CdjBar = 0
               /\ count' - count \in 0 .. Link!CdjBar - 1
         /\ master' # NoMaster /\ heard = 0 /\ heard' # 0 => lastbeat' = count + 1
<1>1. ASSUME NEW p \in Players, Link!OnStatus(p)
      PROVE  count' = count /\ lastbeat' \in {lastbeat, -1} /\ (heard = 0 => heard' = 0)
  BY <1>1 DEF Link!OnStatus, Link!Forget
<1>2. ASSUME NEW p \in Players, NEW n \in Link!CdjBeats \cup {Link!Startup},
             Link!OnBeat(p, n)
      PROVE  \/ Link!Count(n) /\ heard' = n
             \/ UNCHANGED <<lastbeat, count>> /\ (heard = 0 => heard' = 0)
  <2>1. CASE p = master' /\ lastbeat # n
    BY <1>2, <2>1 DEF Link!OnBeat
  <2>2. CASE p = master' /\ lastbeat = n
    <3>1. heard # 0
      BY <2>2 DEF LinkSafe, Link!CdjBeats, Link!CdjBar, Link!Startup
    <3>2. QED
      BY <1>2, <2>2, <3>1 DEF Link!OnBeat
  <2>3. CASE p # master'
    BY <1>2, <2>3 DEF Link!OnBeat
  <2>4. QED
    BY <2>1, <2>2, <2>3
<1>3. CASE UNCHANGED Link!vars
  BY <1>3 DEF Link!vars
<1>4. ASSUME NEW n \in Link!CdjBeats \cup {Link!Startup}, Link!Count(n), heard' = n
      PROVE  /\ heard' \in Link!CdjBeats =>
                  /\ (count' - (heard' - 1)) % Link!CdjBar = 0
                  /\ count' - count \in 0 .. Link!CdjBar - 1
             /\ lastbeat' = count + 1
  BY <1>4, CountFacts
<1>5. CASE Link!Next
  <2>1. PICK p \in Players : \/ Link!OnStatus(p)
                             \/ \E n \in Link!CdjBeats \cup {Link!Startup} : Link!OnBeat(p, n)
    BY <1>5 DEF Link!Next
  <2>2. CASE Link!OnStatus(p)
    BY <1>1, <2>2
  <2>3. CASE \E n \in Link!CdjBeats \cup {Link!Startup} : Link!OnBeat(p, n)
    <3>1. PICK n \in Link!CdjBeats \cup {Link!Startup} : Link!OnBeat(p, n)
      BY <2>3
    <3>2. CASE Link!Count(n) /\ heard' = n
      BY <1>4, <3>2
    <3>3. CASE UNCHANGED <<lastbeat, count>> /\ (heard = 0 => heard' = 0)
      BY <3>3
    <3>4. QED
      BY <1>2, <3>1, <3>2, <3>3
  <2>4. QED
    BY <2>1, <2>2, <2>3
<1>6. QED
  BY <1>3, <1>5

-----------------------------------------------------------------------------
(* Time since a start, on a clock that wraps.                              *)

HalfClock == Width \div 2

LEMMA ClockSizes ==
  /\ Width \in Nat \ {0} /\ HalfClock \in Nat
  /\ HalfClock < Width /\ HalfClock <= Width - HalfClock
<1>1. Width \in Nat \ {0}
  BY TimingAssumption DEF Line!TimelineAssumption
<1>2. HalfClock \in Int /\ Width % 2 \in Int /\ 0 <= Width % 2 /\ Width = 2 * HalfClock + (Width % 2)
      /\ Width % 2 < 2
  BY <1>1, DivMod DEF HalfClock
<1>3. QED
  BY <1>1, <1>2

LEMMA NoTimePassed == ASSUME NEW t \in Int PROVE (t - t) % Width = 0
<1>1. Width \in Nat \ {0} /\ t - t = Width * 0 + 0
  BY ClockSizes
<1>2. t - t \in Int /\ 0 < Width
  BY <1>1
<1>3. QED
  BY <1>1, <1>2, ModUnique

LEMMA TimePasses ==
  ASSUME NEW t \in Int, NEW from \in Int, NEW d \in Nat, ((t - from) % Width) + d < Width
  PROVE  (((t + d) % Width) - from) % Width = ((t - from) % Width) + d
<1> DEFINE e == (t - from) % Width
           k == (t - from) \div Width
           now == (t + d) % Width
           q == (t + d) \div Width
<1>1. Width \in Nat \ {0}
  BY ClockSizes
<1>2. k \in Int /\ e \in Int /\ 0 <= e /\ t - from = Width * k + e
  BY <1>1, DivMod
<1>3. q \in Int /\ now \in Int /\ t + d = Width * q + now
  BY <1>1, DivMod
<1>4. e + d < Width
  OBVIOUS
<1> HIDE DEF e, k, now, q
<1>5. now - from = Width * (k - q) + (e + d)
  <2>1. now - from = (t - from) + d - Width * q
    BY <1>1, <1>3
  <2>2. QED
    BY <1>1, <1>2, <1>3, <2>1
<1>6. now - from \in Int /\ k - q \in Int /\ e + d \in Int /\ 0 <= e + d
  BY <1>2, <1>3
<1>7. (now - from) % Width = e + d
  BY <1>1, <1>4, <1>5, <1>6, ModUnique
<1>8. QED
  BY <1>7 DEF now, e

LEMMA SignedIs ==
  ASSUME NEW x \in Int, NEW k \in Int, NEW r \in Int, x = Width * k + r,
         r < HalfClock, r >= HalfClock - Width
  PROVE  Fade!Signed(x) = r
<1>1. /\ Width \in Nat \ {0} /\ HalfClock \in Nat
      /\ HalfClock < Width /\ HalfClock <= Width - HalfClock
  BY ClockSizes
<1>2. CASE r >= 0
  <2>1. x % Width = r
    BY <1>1, <1>2, ModUnique
  <2>2. QED
    BY <2>1 DEF Fade!Signed, HalfClock
<1>3. CASE r < 0
  <2>1. x = Width * (k - 1) + (r + Width)
    BY <1>1
  <2>2. x % Width = r + Width
    <3>1. k - 1 \in Int /\ r + Width \in Int /\ 0 <= r + Width /\ r + Width < Width
      BY <1>1, <1>3
    <3>2. QED
      BY <1>1, <2>1, <3>1, ModUnique
  <2>3. ~(r + Width < HalfClock)
    BY <1>1
  <2>4. Fade!Signed(x) = (r + Width) - Width
    BY <2>2, <2>3 DEF Fade!Signed, HalfClock
  <2>5. QED
    BY <1>1, <2>4
<1>4. QED
  BY <1>2, <1>3

(* The phase of a fade, from the time since its start.                     *)
LEMMA PhaseIs ==
  ASSUME NEW now \in Int, NEW from \in Int, NEW delay \in Nat, NEW length \in Nat,
         NEW waiting, (now - from) % Width < HalfClock, delay <= HalfClock
  PROVE  LET left == ((now - from) % Width) - delay
         IN  Fade!Phase(now, from, delay, length, waiting) =
               IF left < 0 THEN waiting ELSE IF left > length THEN length ELSE left
<1> DEFINE e == (now - from) % Width
           k == (now - from) \div Width
<1>1. /\ Width \in Nat \ {0} /\ HalfClock \in Nat /\ HalfClock <= Width - HalfClock
  BY ClockSizes
<1>2. k \in Int /\ e \in Int /\ 0 <= e /\ now - from = Width * k + e
  BY <1>1, DivMod
<1>3. e < HalfClock
  OBVIOUS
<1> HIDE DEF e, k
<1>4. now - from - delay = Width * k + (e - delay)
  BY <1>1, <1>2
<1>5. /\ now - from - delay \in Int /\ e - delay \in Int
      /\ e - delay < HalfClock /\ e - delay >= HalfClock - Width
  BY <1>1, <1>2, <1>3
<1>6. Fade!Signed(now - from - delay) = e - delay
  BY <1>2, <1>4, <1>5, SignedIs
<1>7. QED
  BY <1>6 DEF Fade!Phase, e

-----------------------------------------------------------------------------
(* The fades.                                                              *)

(* When the pattern was switched.                                          *)
Switched == IF lastActive THEN fadein ELSE fadeout

FadeSafe ==
  /\ Fade!TypeOK
  /\ steady < Width => (fadeMillis - Switched) % Width = steady
  /\ since < Width => (fadeMillis - start) % Width = since
  /\ lastPatternActive = lastActive
  /\ lastActive => lastValue = beat
  /\ calculates <=> lastActive \/ Fade!Out(fadeMillis, fadeout, OutDelay) > 0
  /\ fading <=> ~Fade!IsFinished(fadeMillis, start)

LEMMA FadeSizes ==
  /\ FadeIn \in Nat \ {0} /\ FadeOut \in Nat \ {0} /\ Trigger \in Nat \ {0}
  /\ InDelay \in Nat /\ OutDelay \in Nat /\ MaxDelay \in Nat
  /\ FadeStep \in Nat /\ OutDelay < HalfClock
BY TimingAssumption DEF Fade!FadesAssumption, HalfClock

LEMMA FadeInit == Fade!Init => FadeSafe
<1> SUFFICES ASSUME Fade!Init PROVE FadeSafe
  OBVIOUS
<1>1. /\ Width \in Nat \ {0} /\ HalfClock \in Nat /\ HalfClock < Width
  BY ClockSizes
<1>2. (0 - 0) % Width = 0
  BY NoTimePassed
<1>3. Fade!TypeOK
  <2>1. 0 \in 0 .. Width - 1 /\ 0 \in 0 .. Width
    BY <1>1
  <2>2. {lastActive, calculates, lastPatternActive, fading} \subseteq BOOLEAN
    BY DEF Fade!Init
  <2>3. QED
    BY <2>1, <2>2 DEF Fade!Init, Fade!TypeOK, Fade!Clock
<1>4. (fadeMillis - Switched) % Width = steady /\ (fadeMillis - start) % Width = since
  BY <1>2 DEF Fade!Init, Switched
<1>5. Fade!Out(0, 0, OutDelay) > 0
  <2>1. Fade!Phase(0, 0, OutDelay, FadeOut, 0) = IF 0 - OutDelay < 0 THEN 0 ELSE 0
    <3>1. HalfClock > 0 /\ FadeOut \in Nat /\ OutDelay \in Nat /\ OutDelay <= HalfClock
          /\ ~(0 - OutDelay > FadeOut) /\ (~(0 - OutDelay < 0) => 0 - OutDelay = 0)
      BY <1>1, FadeSizes
    <3>2. QED
      BY <1>2, <3>1, PhaseIs
  <2>2. QED
    BY <2>1, FadeSizes DEF Fade!Out
<1>6. ~Fade!IsFinished(0, 0)
  BY <1>2, FadeSizes DEF Fade!IsFinished
<1>7. QED
  BY <1>3, <1>4, <1>5, <1>6 DEF Fade!Init, FadeSafe

LEMMA FrameSafe ==
  ASSUME FadeSafe, NEW d \in 0 .. FadeStep, NEW active \in BOOLEAN, NEW b \in BeatNumbers,
         Fade!Frame(d, active, b)
  PROVE  FadeSafe'
<1> DEFINE now == (fadeMillis + d) % Width
<1>1. Width \in Nat \ {0} /\ d \in Nat /\ fadeMillis \in 0 .. Width - 1
  BY ClockSizes, FadeSizes DEF FadeSafe, Fade!TypeOK, Fade!Clock
<1>2. now \in 0 .. Width - 1 /\ fadeMillis' = now
  <2>1. now \in 0 .. Width - 1
    BY <1>1
  <2>2. QED
    BY <2>1 DEF Fade!Frame
<1> HIDE DEF now
<1>3. /\ fadein \in 0 .. Width - 1 /\ fadeout \in 0 .. Width - 1 /\ start \in 0 .. Width - 1
      /\ steady \in 0 .. Width /\ since \in 0 .. Width
  BY DEF FadeSafe, Fade!TypeOK, Fade!Clock
<1>4. /\ beat' = b /\ lastActive' = active /\ lastPatternActive' = active
      /\ lastValue' = IF active THEN b ELSE lastValue
  BY DEF Fade!Frame
<1>5. /\ fadein' = IF active /\ ~lastActive THEN now ELSE fadein
      /\ fadeout' = IF ~active /\ lastActive THEN now ELSE fadeout
  BY DEF Fade!Frame, now
<1>6. start' = IF active /\ (~lastActive \/ b # beat) THEN now ELSE start
  BY DEF Fade!Frame, FadeSafe, now
<1>7. /\ steady' = IF active # lastActive THEN 0 ELSE Fade!Capped(steady + d)
      /\ since' = IF active /\ (~lastActive \/ b # beat) THEN 0 ELSE Fade!Capped(since + d)
  BY DEF Fade!Frame
<1>8. calculates' <=> lastActive' \/ Fade!Out(fadeMillis', fadeout', OutDelay) > 0
  BY DEF Fade!Frame, Fade!LastPixel
<1>9. fading' <=> ~Fade!IsFinished(fadeMillis', start')
  BY DEF Fade!Frame
<1>10. Fade!TypeOK'
  <2>1. /\ fadein' \in 0 .. Width - 1 /\ fadeout' \in 0 .. Width - 1
        /\ start' \in 0 .. Width - 1
    BY <1>2, <1>3, <1>5, <1>6
  <2>2. steady' \in 0 .. Width /\ since' \in 0 .. Width
    BY <1>1, <1>3, <1>7 DEF Fade!Capped
  <2>3. {lastActive', lastPatternActive', calculates', fading'} \subseteq BOOLEAN
    BY DEF Fade!Frame
  <2>4. lastValue' \in BeatNumbers /\ beat' \in BeatNumbers
    BY <1>4 DEF FadeSafe, Fade!TypeOK
  <2>5. QED
    BY <1>2, <2>1, <2>2, <2>3, <2>4 DEF Fade!TypeOK, Fade!Clock
<1>11. ASSUME NEW from \in 0 .. Width - 1, NEW e \in 0 .. Width,
              e < Width => (fadeMillis - from) % Width = e,
              Fade!Capped(e + d) < Width
       PROVE  (now - from) % Width = Fade!Capped(e + d)
  <2>1. e + d < Width /\ Fade!Capped(e + d) = e + d /\ e < Width
    BY <1>1, <1>11 DEF Fade!Capped
  <2>2. fadeMillis \in Int /\ from \in Int /\ (fadeMillis - from) % Width = e
    BY <1>1, <1>11, <2>1
  <2>3. QED
    BY <1>1, <2>1, <2>2, TimePasses DEF now
<1>12. (now - now) % Width = 0
  BY <1>1, <1>2, NoTimePassed
<1>13. steady' < Width => (fadeMillis' - Switched') % Width = steady'
  <2>1. CASE active # lastActive
    <3>1. Switched' = now /\ steady' = 0
      BY <1>4, <1>5, <1>7, <2>1 DEF Switched, FadeSafe, Fade!TypeOK
    <3>2. QED
      BY <1>2, <1>12, <3>1
  <2>2. CASE active = lastActive
    <3>1. Switched' = Switched /\ Switched \in 0 .. Width - 1
      BY <1>3, <1>4, <1>5, <2>2 DEF Switched
    <3>2. steady' = Fade!Capped(steady + d)
      BY <1>7, <2>2
    <3>3. steady < Width => (fadeMillis - Switched) % Width = steady
      BY DEF FadeSafe
    <3>4. QED
      BY <1>2, <1>3, <1>11, <3>1, <3>2, <3>3
  <2>3. QED
    BY <2>1, <2>2
<1>14. since' < Width => (fadeMillis' - start') % Width = since'
  <2>1. CASE active /\ (~lastActive \/ b # beat)
    BY <1>2, <1>6, <1>7, <1>12, <2>1
  <2>2. CASE ~(active /\ (~lastActive \/ b # beat))
    <3>1. since < Width => (fadeMillis - start) % Width = since
      BY DEF FadeSafe
    <3>2. start' = start /\ since' = Fade!Capped(since + d)
      BY <1>6, <1>7, <2>2
    <3>3. QED
      BY <1>2, <1>3, <1>11, <3>1, <3>2
  <2>3. QED
    BY <2>1, <2>2
<1>15. lastPatternActive' = lastActive' /\ (lastActive' => lastValue' = beat')
  BY <1>4
<1>16. QED
  BY <1>8, <1>9, <1>10, <1>13, <1>14, <1>15 DEF FadeSafe

LEMMA FadeStays == ASSUME FadeSafe, [Fade!Next]_Fade!vars PROVE FadeSafe'
<1>1. CASE Fade!Next
  BY <1>1, FrameSafe DEF Fade!Next
<1>2. CASE UNCHANGED Fade!vars
  <2>1. /\ UNCHANGED <<fadeMillis, fadein, fadeout, start, steady, since, beat, lastValue>>
        /\ UNCHANGED <<lastActive, calculates, lastPatternActive, fading>>
    BY <1>2 DEF Fade!vars
  <2>2. Fade!TypeOK' /\ Switched' = Switched
    BY <2>1 DEF FadeSafe, Fade!TypeOK, Switched
  <2>3. QED
    BY <2>1, <2>2 DEF FadeSafe
<1>3. QED
  BY <1>1, <1>2

LEMMA PhaseIsANumber ==
  ASSUME NEW now \in Int, NEW from \in Int, NEW delay \in Nat, NEW length \in Nat
  PROVE  Fade!Phase(now, from, delay, length, 0) \in Int
<1>1. Width \in Nat \ {0} /\ now - from - delay \in Int
  BY ClockSizes
<1>2. (now - from - delay) % Width \in Int
  BY <1>1
<1>3. Fade!Signed(now - from - delay) \in Int
  BY <1>1, <1>2 DEF Fade!Signed
<1>4. QED
  BY <1>3 DEF Fade!Phase

(* A fade whose last pixel is through is through in each; one that lasts   *)
(* long enough is.                                                         *)
LEMMA DarkWhenOver ==
  ASSUME FadeSafe, steady < HalfClock, ~lastActive, NEW o \in 0 .. OutDelay,
         Fade!Out(fadeMillis, fadeout, OutDelay) <= 0 \/ steady >= FadeOut + OutDelay
  PROVE  Fade!Out(fadeMillis, fadeout, o) = 0
<1>1. fadeMillis \in Int /\ fadeout \in Int /\ steady \in Nat
  BY ClockSizes DEF FadeSafe, Fade!TypeOK, Fade!Clock
<1>2. HalfClock \in Nat /\ HalfClock < Width /\ Width \in Nat
  BY ClockSizes
<1>3. (fadeMillis - fadeout) % Width = steady
  BY <1>1, <1>2 DEF FadeSafe, Switched
<1>4. FadeOut \in Nat \ {0} /\ OutDelay \in Nat /\ OutDelay <= HalfClock
  BY <1>2, FadeSizes
<1>5. ASSUME NEW delay \in 0 .. OutDelay
      PROVE  Fade!Phase(fadeMillis, fadeout, delay, FadeOut, 0) =
               IF steady - delay < 0 THEN 0
               ELSE IF steady - delay > FadeOut THEN FadeOut ELSE steady - delay
  <2>1. delay \in Nat /\ delay <= HalfClock /\ FadeOut \in Nat
    BY <1>2, <1>4
  <2>2. QED
    BY <1>1, <1>3, <2>1, PhaseIs
<1>6. steady - OutDelay >= FadeOut
  <2>1. CASE steady >= FadeOut + OutDelay
    BY <1>1, <1>4, <2>1
  <2>2. CASE Fade!Out(fadeMillis, fadeout, OutDelay) <= 0
    <3> DEFINE p == Fade!Phase(fadeMillis, fadeout, OutDelay, FadeOut, 0)
    <3>1. OutDelay \in 0 .. OutDelay
      BY <1>4
    <3>2. p = IF steady - OutDelay < 0 THEN 0
              ELSE IF steady - OutDelay > FadeOut THEN FadeOut ELSE steady - OutDelay
      BY <1>5, <3>1
    <3>3. FadeOut - p <= 0
      BY <2>2 DEF Fade!Out
    <3> HIDE DEF p
    <3>4. QED
      BY <1>1, <1>4, <3>2, <3>3
  <2>3. QED
    BY <2>1, <2>2
<1>7. Fade!Phase(fadeMillis, fadeout, o, FadeOut, 0) = FadeOut
  <2>1. steady - o >= FadeOut /\ steady - o \in Int
    BY <1>1, <1>4, <1>6
  <2>2. QED
    BY <1>4, <1>5, <2>1
<1>8. QED
  BY <1>4, <1>7 DEF Fade!Out

LEMMA FadesEnd == FadeSafe => Fade!ExitsWhenDark /\ Fade!EveryBeatFades
<1> SUFFICES ASSUME FadeSafe PROVE Fade!ExitsWhenDark /\ Fade!EveryBeatFades
  OBVIOUS
<1>1. /\ fadeMillis \in Int /\ fadein \in Int /\ fadeout \in Int /\ start \in Int
      /\ steady \in Nat /\ since \in Nat
  BY ClockSizes DEF FadeSafe, Fade!TypeOK, Fade!Clock
<1>2. HalfClock \in Nat /\ HalfClock < Width /\ Width \in Nat \ {0}
  BY ClockSizes
<1>3. /\ FadeIn \in Nat \ {0} /\ FadeOut \in Nat \ {0} /\ Trigger \in Nat \ {0}
      /\ InDelay \in Nat /\ OutDelay \in Nat /\ MaxDelay \in Nat
  BY FadeSizes
<1>4. ASSUME steady < HalfClock, ~calculates,
             NEW i \in 0 .. InDelay, NEW o \in 0 .. OutDelay
      PROVE  Fade!Brightness(i, o) = 0
  <2>1. ~lastActive /\ ~(Fade!Out(fadeMillis, fadeout, OutDelay) > 0)
    BY <1>4 DEF FadeSafe
  <2>2. Fade!Out(fadeMillis, fadeout, OutDelay) \in Int
    <3>1. Fade!Phase(fadeMillis, fadeout, OutDelay, FadeOut, 0) \in Int
      BY <1>1, <1>3, PhaseIsANumber
    <3>2. QED
      BY <1>3, <3>1 DEF Fade!Out
  <2>3. Fade!Out(fadeMillis, fadeout, o) = 0
    BY <1>4, <2>1, <2>2, DarkWhenOver
  <2>4. Fade!In(fadeMillis, fadein, i) \in Int
    BY <1>1, <1>3, PhaseIsANumber DEF Fade!In
  <2>5. QED
    BY <2>1, <2>3, <2>4 DEF Fade!Brightness
<1>5. ASSUME steady < HalfClock, ~lastActive, steady >= FadeOut + OutDelay
      PROVE  ~calculates
  <2>1. Fade!Out(fadeMillis, fadeout, OutDelay) = 0
    BY <1>3, <1>5, DarkWhenOver
  <2>2. QED
    BY <1>5, <2>1 DEF FadeSafe
<1>6. ASSUME steady < HalfClock, lastActive, steady >= FadeIn + InDelay,
             NEW i \in 0 .. InDelay
      PROVE  Fade!Brightness(i, 0) = FadeIn * FadeOut
  <2>1. (fadeMillis - fadein) % Width = steady
    BY <1>1, <1>2, <1>6 DEF FadeSafe, Switched
  <2>2. i \in Nat /\ i <= HalfClock /\ steady - i >= FadeIn
    BY <1>1, <1>2, <1>3, <1>6
  <2>3. Fade!Phase(fadeMillis, fadein, i, FadeIn, 0) =
          IF steady - i < 0 THEN 0 ELSE IF steady - i > FadeIn THEN FadeIn ELSE steady - i
    BY <1>1, <1>3, <1>6, <2>1, <2>2, PhaseIs
  <2>4. Fade!In(fadeMillis, fadein, i) = FadeIn
    BY <1>1, <1>3, <2>2, <2>3 DEF Fade!In
  <2>5. QED
    BY <1>6, <2>4 DEF Fade!Brightness
<1>7. Fade!ExitsWhenDark
  BY <1>4, <1>5, <1>6 DEF Fade!ExitsWhenDark, HalfClock
<1>8. ASSUME since < Width, ~fading, NEW delay \in 0 .. MaxDelay
      PROVE  Fade!Flash(fadeMillis, start, delay) = 0
  <2> DEFINE x == fadeMillis - start - delay
             k == (fadeMillis - start) \div Width
  <2>1. (fadeMillis - start) % Width = since
    BY <1>8 DEF FadeSafe
  <2>2. since > Trigger + MaxDelay
    BY <1>8, <2>1 DEF FadeSafe, Fade!IsFinished
  <2>3. k \in Int /\ fadeMillis - start = Width * k + since
    BY <1>1, <1>2, <2>1, DivMod
  <2> HIDE DEF k
  <2>4. x = Width * k + (since - delay)
    BY <1>1, <1>2, <2>3
  <2>5. x \in Int /\ since - delay \in Int /\ since - delay > Trigger /\ since - delay < Width
    BY <1>1, <1>2, <1>3, <1>8, <2>2
  <2>6. x % Width = since - delay
    <3> HIDE DEF x
    <3>1. 0 <= since - delay
      BY <1>3, <2>5
    <3>2. QED
      BY <1>2, <2>3, <2>4, <2>5, <3>1, ModUnique
  <2>7. CASE since - delay < HalfClock
    <3>1. Fade!Signed(x) = since - delay
      BY <2>6, <2>7 DEF Fade!Signed, HalfClock
    <3>2. Fade!Phase(fadeMillis, start, delay, Trigger, Trigger) = Trigger
      BY <1>3, <2>5, <3>1 DEF Fade!Phase
    <3>3. QED
      BY <1>3, <3>2 DEF Fade!Flash
  <2>8. CASE ~(since - delay < HalfClock)
    <3>1. Fade!Signed(x) = (since - delay) - Width
      BY <2>6, <2>8 DEF Fade!Signed, HalfClock
    <3>2. Fade!Signed(x) < 0
      BY <1>2, <2>5, <3>1
    <3>3. Fade!Phase(fadeMillis, start, delay, Trigger, Trigger) = Trigger
      BY <3>2 DEF Fade!Phase
    <3>4. QED
      BY <1>3, <3>3 DEF Fade!Flash
  <2>9. QED
    BY <2>7, <2>8
<1>9. since < Width => (fadeMillis - start) % Width = since
  BY DEF FadeSafe
<1>10. Fade!EveryBeatFades
  BY <1>8, <1>9 DEF Fade!EveryBeatFades
<1>11. QED
  BY <1>7, <1>10

-----------------------------------------------------------------------------
(* The timelines.  A position is the time since the start, in a loop of    *)
(* LoopLength; when nothing breaks the loop off, d ms later it is d places *)
(* further in it.                                                          *)

LoopLength(d) == IF d > 0 THEN d ELSE Width

LEMMA LineSizes ==
  /\ Width \in Nat \ {0} /\ MaxStep \in Nat /\ MaxStep < Width
  /\ Durations \in SUBSET (0 .. Width)
<1>1. Width \in Nat \ {0} /\ MaxStep \in 1 .. Width - 1 /\ Durations \subseteq 0 .. Width
  BY TimingAssumption DEF Line!TimelineAssumption
<1>2. QED
  BY <1>1

(* The remainder of a remainder.                                           *)
LEMMA ModMod ==
  ASSUME NEW a \in Int, NEW w \in Nat \ {0}, NEW m \in Nat \ {0}, w % m = 0
  PROVE  (a % w) % m = a % m
<1> DEFINE q == a \div w
           r == a % w
           j == w \div m
<1>1. q \in Int /\ r \in Int /\ a = w * q + r
  BY DivMod
<1>2. j \in Int /\ w = m * j
  BY DivMod
<1> HIDE DEF q, r, j
<1>3. a = r + m * (j * q)
  <2>1. m * (j * q) = (m * j) * q
    BY <1>1, <1>2
  <2>2. QED
    BY <1>1, <1>2, <2>1
<1>4. j * q \in Int
  BY <1>1, <1>2
<1>5. (r + m * (j * q)) % m = r % m
  BY <1>1, <1>4, ModShift
<1>6. QED
  BY <1>3, <1>5 DEF r

LEMMA LoopIs ==
  ASSUME NEW t \in Nat, NEW d \in 0 .. Width, t < Width \/ d = 0 \/ Width % d = 0
  PROVE  Line!Loop(t % Width, d) = t % LoopLength(d)
<1>1. Width \in Nat \ {0} /\ d \in Nat
  BY LineSizes
<1>2. CASE d = 0
  BY <1>2 DEF Line!Loop, LoopLength
<1>3. CASE d > 0 /\ Width % d = 0
  <2>1. (t % Width) % d = t % d
    <3>1. d \in Nat \ {0} /\ t \in Int /\ Width % d = 0
      BY <1>1, <1>3
    <3>2. QED
      BY <1>1, <3>1, ModMod
  <2>2. QED
    BY <1>3, <2>1 DEF Line!Loop, LoopLength
<1>4. CASE d > 0 /\ t < Width
  <2>1. t = Width * 0 + t
    BY <1>1
  <2>2. t % Width = t
    BY <1>1, <1>4, <2>1, ModUnique
  <2>3. QED
    BY <1>4, <2>2 DEF Line!Loop, LoopLength
<1>5. QED
  BY <1>1, <1>2, <1>3, <1>4

(* The places that are passed in d ms, fewer than the loop has, are those  *)
(* of the interval from the first to the one that is reached.              *)
LEMMA WalkIsInterval ==
  ASSUME NEW M \in Nat \ {0}, NEW e \in Nat, NEW d \in 1 .. M - 1, NEW m \in 0 .. M - 1
  PROVE  LET s == e % M
             t == (e + d) % M
         IN  /\ s # t
             /\ (\E k \in 0 .. d - 1 : m = (e + k) % M) <=>
                  IF s < t THEN s <= m /\ m < t ELSE s <= m \/ m < t
<1> DEFINE q == e \div M
           s == e % M
           t == (e + d) % M
<1>1. q \in Int /\ s \in Int /\ 0 <= s /\ s < M /\ e = M * q + s
  BY DivMod
<1> HIDE DEF q, s
<1>2. ASSUME NEW k \in 0 .. M - 1
      PROVE  /\ s + k < M => (e + k) % M = s + k
             /\ s + k >= M => (e + k) % M = s + k - M
  <2>1. CASE s + k < M
    <3>1. e + k = M * q + (s + k)
      BY <1>1
    <3>2. e + k \in Int /\ s + k \in Int /\ 0 <= s + k
      BY <1>1
    <3>3. (e + k) % M = s + k
      BY <1>1, <2>1, <3>1, <3>2, ModUnique
    <3>4. QED
      BY <1>1, <2>1, <3>3
  <2>2. CASE s + k >= M
    <3>1. e + k = M * (q + 1) + (s + k - M)
      BY <1>1
    <3>2. /\ e + k \in Int /\ q + 1 \in Int /\ s + k - M \in Int
          /\ 0 <= s + k - M /\ s + k - M < M
      BY <1>1, <2>2
    <3>3. (e + k) % M = s + k - M
      BY <3>1, <3>2, ModUnique
    <3>4. QED
      BY <1>1, <2>2, <3>3
  <2>3. QED
    BY <1>1, <2>1, <2>2
<1>3. d \in 0 .. M - 1
  OBVIOUS
<1>4. /\ s + d < M => t = s + d
      /\ s + d >= M => t = s + d - M
  BY <1>2, <1>3
<1> HIDE DEF t
<1>5. s # t
  BY <1>1, <1>4
<1>6. ASSUME NEW k \in 0 .. d - 1, m = (e + k) % M
      PROVE  IF s < t THEN s <= m /\ m < t ELSE s <= m \/ m < t
  <2>1. k \in 0 .. M - 1
    OBVIOUS
  <2>2. (s + k < M => m = s + k) /\ (s + k >= M => m = s + k - M)
    BY <1>2, <1>6, <2>1
  <2>3. QED
    BY <1>1, <1>4, <2>2
<1>7. ASSUME IF s < t THEN s <= m /\ m < t ELSE s <= m \/ m < t
      PROVE  \E k \in 0 .. d - 1 : m = (e + k) % M
  <2>1. CASE s <= m
    <3>1. m - s \in 0 .. d - 1 /\ m - s \in 0 .. M - 1 /\ s + (m - s) = m
      BY <1>1, <1>4, <1>7, <2>1
    <3>2. (e + (m - s)) % M = m
      BY <1>2, <3>1
    <3>3. QED
      BY <3>1, <3>2
  <2>2. CASE ~(s <= m)
    <3>1. /\ m - s + M \in 0 .. d - 1 /\ m - s + M \in 0 .. M - 1
          /\ s + (m - s + M) >= M /\ s + (m - s + M) - M = m
      BY <1>1, <1>4, <1>7, <2>2
    <3>2. (e + (m - s + M)) % M = m
      BY <1>2, <3>1
    <3>3. QED
      BY <3>1, <3>2
  <2>3. QED
    BY <2>1, <2>2
<1>8. QED
  BY <1>5, <1>6, <1>7 DEF s, t

LEMMA LoopFacts ==
  ASSUME NEW x \in 0 .. Width - 1, NEW d \in 0 .. Width
  PROVE  Line!Loop(x, d) \in 0 .. Width - 1 /\ (d > 0 => Line!Loop(x, d) < d)
<1>1. Width \in Nat \ {0}
  BY LineSizes
<1>2. CASE d > 0
  <2>1. d \in Nat \ {0} /\ x \in Int
    BY <1>1, <1>2
  <2>2. x % d \in Int /\ 0 <= x % d /\ x % d < d
    BY <2>1, DivMod
  <2>3. QED
    BY <1>1, <1>2, <2>2 DEF Line!Loop
<1>3. CASE ~(d > 0)
  BY <1>3 DEF Line!Loop
<1>4. QED
  BY <1>2, <1>3

LEMMA ElapsedShift ==
  ASSUME NEW t \in Int, NEW from \in Int, NEW k \in Int
  PROVE  (((t + k) % Width) - from) % Width = (((t - from) % Width) + k) % Width
<1> DEFINE n == (t + k) % Width
           q == (t + k) \div Width
           e == (t - from) % Width
           p == (t - from) \div Width
<1>1. Width \in Nat \ {0}
  BY LineSizes
<1>2. q \in Int /\ n \in Int /\ t + k = Width * q + n
  BY <1>1, DivMod
<1>3. p \in Int /\ e \in Int /\ t - from = Width * p + e
  BY <1>1, DivMod
<1> HIDE DEF n, q, e, p
<1>4. n - from = (e + k) + Width * (p - q)
  <2>1. n - from = (t - from) + k - Width * q
    BY <1>1, <1>2
  <2>2. QED
    BY <1>1, <1>2, <1>3, <2>1
<1>5. e + k \in Int /\ p - q \in Int
  BY <1>2, <1>3
<1>6. ((e + k) + Width * (p - q)) % Width = (e + k) % Width
  BY <1>1, <1>5, ModShift
<1>7. QED
  BY <1>4, <1>6 DEF n, e

Elapsed == (millis - startingpoint) % Width

(* Since the last FrameStart, d ms that fit into the loop.                 *)
Walked(e, d) ==
  /\ endInterval = Line!Loop(e, duration)
  /\ passed = {Line!Loop((e + k) % Width, duration) : k \in 0 .. d - 1}
  /\ Elapsed = (e + d) % Width
  /\ duration > 0 => d < duration /\ (Width % duration = 0 \/ e + d < Width)

LineTypes ==
  /\ millis \in 0 .. Width - 1 /\ startingpoint \in 0 .. Width - 1
  /\ startInterval \in 0 .. Width - 1 /\ endInterval \in 0 .. Width - 1
  /\ duration \in Durations
  /\ passed \subseteq 0 .. Width - 1 /\ frame \subseteq 0 .. Width - 1
  /\ whole \in BOOLEAN /\ calm \in BOOLEAN

(* The end of the interval is where the time was at the last FrameStart.   *)
EndIsPassed ==
  /\ whole /\ passed = {} => endInterval = Line!Loop(Elapsed, duration)
  /\ whole /\ passed # {} =>
       \E e \in 0 .. Width - 1, d \in 1 .. MaxStep : Walked(e, d)

LineSafe ==
  /\ LineTypes /\ EndIsPassed
  /\ calm /\ duration > 0 => endInterval < duration
  /\ Line!RightAgain

LEMMA ElapsedIs ==
  ASSUME LineTypes
  PROVE  /\ Elapsed \in 0 .. Width - 1
         /\ Line!Position(millis) = Line!Loop(Elapsed, duration)
         /\ duration \in 0 .. Width
         /\ Line!Position(millis) \in 0 .. Width - 1
         /\ duration > 0 => Line!Position(millis) < duration
<1>1. Width \in Nat \ {0} /\ Durations \in SUBSET (0 .. Width)
  BY LineSizes
<1>2. millis - startingpoint \in Int /\ duration \in 0 .. Width
  BY <1>1 DEF LineTypes
<1>3. Elapsed \in 0 .. Width - 1
  BY <1>1, <1>2 DEF Elapsed
<1>4. Line!Position(millis) = Line!Loop(Elapsed, duration)
  BY DEF Line!Position, Elapsed
<1>5. QED
  BY <1>2, <1>3, <1>4, LoopFacts

LEMMA LineInit == Line!Init => LineSafe
<1> SUFFICES ASSUME Line!Init PROVE LineSafe
  OBVIOUS
<1>1. /\ Width \in Nat \ {0} /\ 0 \in 0 .. Width - 1 /\ Durations \in SUBSET (0 .. Width)
  BY LineSizes
<1>2. LineTypes
  BY <1>1 DEF Line!Init, Line!Clock, LineTypes
<1>3. Elapsed = 0
  <2>1. millis \in Int /\ startingpoint = millis
    BY <1>1 DEF Line!Init, Line!Clock
  <2>2. QED
    BY <2>1, NoTimePassed DEF Elapsed
<1>4. Line!Loop(0, duration) = 0
  <2>1. duration \in Nat
    BY <1>1 DEF Line!Init
  <2>2. CASE duration > 0
    <3>1. 0 = duration * 0 + 0 /\ duration \in Nat \ {0}
      BY <2>1, <2>2
    <3>2. 0 % duration = 0
      BY <2>2, <3>1, ModUnique
    <3>3. QED
      BY <2>2, <3>2 DEF Line!Loop
  <2>3. CASE ~(duration > 0)
    BY <2>3 DEF Line!Loop
  <2>4. QED
    BY <2>2, <2>3
<1>5. EndIsPassed
  BY <1>3, <1>4 DEF Line!Init, EndIsPassed
<1>6. calm /\ duration > 0 => endInterval < duration
  BY DEF Line!Init
<1>7. Line!RightAgain
  BY DEF Line!Init, Line!RightAgain, Line!HappenedInFrame, Line!Happened
<1>8. QED
  BY <1>2, <1>5, <1>6, <1>7 DEF LineSafe

LEMMA PassSafe == ASSUME LineSafe, Line!Pass PROVE LineSafe'
<1>1. /\ Width \in Nat \ {0} /\ MaxStep \in Nat /\ MaxStep < Width
      /\ Durations \in SUBSET (0 .. Width)
  BY LineSizes
<1>2. PICK d \in 1 .. MaxStep :
        /\ millis' = (millis + d) % Width
        /\ passed' = {Line!Position((millis + k) % Width) : k \in 0 .. d - 1}
        /\ whole' = (whole /\ Line!Fits(d))
  BY DEF Line!Pass
<1>3. UNCHANGED <<startingpoint, duration, startInterval, endInterval, frame, calm>>
      /\ passed = {}
  BY DEF Line!Pass
<1>4. LineTypes /\ millis \in Int /\ startingpoint \in Int /\ duration \in 0 .. Width
  BY <1>1 DEF LineSafe, LineTypes
<1>5. ASSUME NEW k \in Int
      PROVE  Line!Position((millis + k) % Width) = Line!Loop((Elapsed + k) % Width, duration)
  BY <1>4, ElapsedShift DEF Line!Position, Elapsed
<1>6. passed' = {Line!Loop((Elapsed + k) % Width, duration) : k \in 0 .. d - 1}
  BY <1>2, <1>5
<1>7. Elapsed' = (Elapsed + d) % Width
  <2>1. d \in Int
    BY <1>1
  <2>2. (((millis + d) % Width) - startingpoint) % Width = (Elapsed + d) % Width
    BY <1>4, <2>1, ElapsedShift DEF Elapsed
  <2>3. Elapsed' = (millis' - startingpoint) % Width
    BY <1>3 DEF Elapsed
  <2>4. QED
    BY <1>2, <2>2, <2>3
<1>8. Elapsed \in 0 .. Width - 1
  BY <1>4, ElapsedIs
<1>9. LineTypes'
  <2>1. millis' \in 0 .. Width - 1
    <3>1. millis + d \in Int
      BY <1>4
    <3>2. QED
      BY <1>1, <1>2, <3>1
  <2>2. ASSUME NEW k \in 0 .. d - 1
        PROVE  Line!Loop((Elapsed + k) % Width, duration) \in 0 .. Width - 1
    <3>1. (Elapsed + k) % Width \in 0 .. Width - 1
      BY <1>1, <1>8
    <3>2. QED
      BY <1>4, <3>1, LoopFacts
  <2>3. passed' \subseteq 0 .. Width - 1
    BY <1>6, <2>2
  <2>4. whole' \in BOOLEAN
    BY <1>2
  <2>5. QED
    BY <1>3, <1>4, <2>1, <2>3, <2>4 DEF LineTypes
<1>10. EndIsPassed'
  <2>1. passed' # {}
    <3>1. 0 \in 0 .. d - 1
      OBVIOUS
    <3>2. QED
      BY <1>6, <3>1
  <2>2. PICK e \in 0 .. Width - 1 : e = Elapsed
    BY <1>8
  <2>3. ASSUME whole' PROVE Walked(e, d)'
    <3>1. whole /\ Line!Fits(d)
      BY <1>2, <2>3
    <3>2. endInterval' = Line!Loop(e, duration')
      BY <1>3, <2>2, <3>1 DEF LineSafe, EndIsPassed
    <3>3. duration > 0 => d < duration /\ (Width % duration = 0 \/ e + d < Width)
      BY <2>2, <3>1 DEF Line!Fits, Elapsed
    <3>4. QED
      BY <1>3, <1>6, <1>7, <2>2, <3>2, <3>3 DEF Walked
  <2>4. QED
    BY <2>1, <2>2, <2>3 DEF EndIsPassed
<1>11. Line!RightAgain'
  BY <1>3 DEF LineSafe, Line!RightAgain, Line!HappenedInFrame, Line!Happened, Line!Moments
<1>12. QED
  BY <1>3, <1>9, <1>10, <1>11 DEF LineSafe

(* What was passed is what lies between the ends of the interval.          *)
LEMMA WalkHappens ==
  ASSUME LineTypes, NEW e \in 0 .. Width - 1, NEW d \in 1 .. MaxStep, Walked(e, d)
  PROVE  LET s == endInterval
             t == Line!Position(millis)
         IN  /\ s # t
             /\ \A m \in Line!Moments :
                  (m \in passed) <=> IF s < t THEN s <= m /\ m < t ELSE s <= m \/ m < t
<1> DEFINE M == LoopLength(duration)
<1>1. /\ Width \in Nat \ {0} /\ MaxStep \in Nat /\ MaxStep < Width
      /\ duration \in 0 .. Width /\ duration \in Nat
  BY LineSizes DEF LineTypes
<1>2. M \in Nat \ {0} /\ d \in 1 .. M - 1 /\ Line!Moments = 0 .. M - 1
  BY <1>1 DEF Walked, LoopLength, Line!Moments, Line!Clock
<1> HIDE DEF M
<1>3. ASSUME NEW k \in 0 .. d
      PROVE  Line!Loop((e + k) % Width, duration) = (e + k) % M
  <2>1. e + k \in Nat /\ e + k <= e + d
    BY <1>1
  <2>2. e + k < Width \/ duration = 0 \/ Width % duration = 0
    BY <1>1, <2>1 DEF Walked
  <2>3. QED
    BY <1>1, <2>1, <2>2, LoopIs DEF M
<1>4. endInterval = e % M
  <2>1. e = Width * 0 + e /\ e + 0 = e /\ 0 \in 0 .. d
    BY <1>1
  <2>2. e % Width = e
    BY <1>1, <2>1, ModUnique
  <2>3. QED
    BY <1>3, <2>1, <2>2 DEF Walked
<1>5. Line!Position(millis) = (e + d) % M
  <2>1. d \in 0 .. d
    BY <1>1
  <2>2. QED
    BY <1>3, <2>1, ElapsedIs DEF Walked
<1>6. ASSUME NEW m
      PROVE  m \in passed <=> \E k \in 0 .. d - 1 : m = (e + k) % M
  <2>1. ASSUME NEW k \in 0 .. d - 1
        PROVE  Line!Loop((e + k) % Width, duration) = (e + k) % M
    <3>1. k \in 0 .. d
      BY <1>1
    <3>2. QED
      BY <1>3, <3>1
  <2>2. QED
    BY <2>1 DEF Walked
<1>7. e \in Nat
  BY <1>1
<1>8. \A m \in 0 .. M - 1 :
        /\ e % M # (e + d) % M
        /\ (\E k \in 0 .. d - 1 : m = (e + k) % M) <=>
             IF e % M < (e + d) % M THEN e % M <= m /\ m < (e + d) % M
             ELSE e % M <= m \/ m < (e + d) % M
  BY <1>2, <1>7, WalkIsInterval
<1>9. 0 \in 0 .. M - 1
  BY <1>2
<1>10. QED
  BY <1>2, <1>4, <1>5, <1>6, <1>8, <1>9

LEMMA FrameStartSafe == ASSUME LineSafe, Line!FrameStart PROVE LineSafe'
<1>1. /\ startInterval' = endInterval /\ endInterval' = Line!Position(millis)
      /\ frame' = passed /\ passed' = {} /\ calm' = whole /\ whole' = TRUE
      /\ UNCHANGED <<millis, startingpoint, duration>>
  BY DEF Line!FrameStart, Line!NewStart
<1>2. LineTypes
  BY DEF LineSafe
<1>3. /\ Line!Position(millis) = Line!Loop(Elapsed, duration)
      /\ Line!Position(millis) \in 0 .. Width - 1
      /\ duration > 0 => Line!Position(millis) < duration
  BY <1>2, ElapsedIs
<1>4. LineTypes'
  BY <1>1, <1>2, <1>3 DEF LineTypes
<1>5. Elapsed' = Elapsed
  BY <1>1 DEF Elapsed
<1>6. EndIsPassed'
  BY <1>1, <1>3, <1>5 DEF EndIsPassed
<1>7. calm' /\ duration' > 0 => endInterval' < duration'
  BY <1>1, <1>3
<1>8. ASSUME whole, NEW m \in Line!Moments PROVE (Line!Happened(m))' <=> m \in passed
  <2>1. CASE passed = {}
    <3>1. startInterval' = endInterval'
      BY <1>1, <1>3, <1>8, <2>1 DEF LineSafe, EndIsPassed
    <3>2. startInterval' \in Int /\ endInterval' \in Int
      BY <1>4 DEF LineTypes
    <3>3. ~(Line!Happened(m))'
      BY <3>1, <3>2 DEF Line!Happened
    <3>4. QED
      BY <2>1, <3>3
  <2>2. CASE passed # {}
    <3> DEFINE s == endInterval
               t == Line!Position(millis)
    <3>1. PICK e \in 0 .. Width - 1, d \in 1 .. MaxStep : Walked(e, d)
      BY <1>8, <2>2 DEF LineSafe, EndIsPassed
    <3>2. s # t /\ (m \in passed <=> IF s < t THEN s <= m /\ m < t ELSE s <= m \/ m < t)
      BY <1>2, <1>8, <3>1, WalkHappens
    <3>3. s \in Int /\ t \in Int
      BY <1>2, <1>3 DEF LineTypes
    <3>4. startInterval' = s /\ endInterval' = t
      BY <1>1
    <3> HIDE DEF s, t
    <3>5. CASE s < t
      <4>1. (Line!Happened(m))' <=> s <= m /\ m < t
        BY <3>3, <3>4, <3>5 DEF Line!Happened
      <4>2. QED
        BY <3>2, <3>5, <4>1
    <3>6. CASE s > t
      BY <3>2, <3>3, <3>4, <3>6 DEF Line!Happened
    <3>7. QED
      BY <3>2, <3>3, <3>5, <3>6
  <2>3. QED
    BY <2>1, <2>2
<1>9. Line!Moments' = Line!Moments
  BY <1>1 DEF Line!Moments, Line!Clock
<1>10. Line!RightAgain'
  BY <1>1, <1>8, <1>9 DEF Line!RightAgain, Line!HappenedInFrame
<1>11. QED
  BY <1>4, <1>6, <1>7, <1>10 DEF LineSafe

LEMMA LineStep == ASSUME LineSafe, [Line!Next]_Line!vars PROVE LineSafe'
<1>1. Width \in Nat \ {0} /\ Durations \in SUBSET (0 .. Width)
  BY LineSizes
<1>2. CASE Line!Reset
  <2>1. ~whole' /\ ~calm' /\ whole' \in BOOLEAN /\ calm' \in BOOLEAN
        /\ startingpoint' = millis
        /\ UNCHANGED <<millis, duration, startInterval, endInterval, passed, frame>>
    BY <1>2 DEF Line!Reset
  <2>2. LineTypes'
    BY <2>1 DEF LineSafe, LineTypes
  <2>3. QED
    BY <2>1, <2>2 DEF LineSafe, EndIsPassed, Line!RightAgain
<1>3. ASSUME NEW d \in Durations, Line!SetDuration(d) PROVE LineSafe'
  <2>1. ~whole' /\ ~calm' /\ whole' \in BOOLEAN /\ calm' \in BOOLEAN
        /\ startingpoint' = (millis - Line!Position(millis) * d) % Width /\ duration' = d
        /\ UNCHANGED <<millis, startInterval, endInterval, passed, frame>>
    BY <1>3 DEF Line!SetDuration
  <2>2. startingpoint' \in 0 .. Width - 1
    <3>1. Line!Position(millis) \in Int /\ millis \in Int /\ d \in Int
      BY <1>1, ElapsedIs DEF LineSafe, LineTypes
    <3>2. Line!Position(millis) * d \in Int
      BY <3>1
    <3>3. millis - Line!Position(millis) * d \in Int
      BY <3>1, <3>2
    <3>4. QED
      BY <1>1, <2>1, <3>3
  <2>3. LineTypes'
    BY <2>1, <2>2 DEF LineSafe, LineTypes
  <2>4. QED
    BY <2>1, <2>3 DEF LineSafe, EndIsPassed, Line!RightAgain
<1>4. CASE UNCHANGED Line!vars
  <2>1. UNCHANGED <<millis, startingpoint, duration, startInterval, endInterval, passed,
                    frame, whole, calm>>
    BY <1>4 DEF Line!vars, Line!history
  <2>2. LineTypes' /\ Elapsed' = Elapsed
    BY <2>1 DEF LineSafe, LineTypes, Elapsed
  <2>3. EndIsPassed'
    BY <2>1, <2>2 DEF LineSafe, EndIsPassed, Walked
  <2>4. Line!RightAgain'
    BY <2>1 DEF LineSafe, Line!RightAgain, Line!HappenedInFrame, Line!Happened, Line!Moments
  <2>5. QED
    BY <2>1, <2>2, <2>3, <2>4 DEF LineSafe
<1>5. QED
  BY <1>2, <1>3, <1>4, PassSafe, FrameStartSafe DEF Line!Next

-----------------------------------------------------------------------------
(* All of them: a step of the program is a step of one.                    *)

TimingSafe == TempoSafe /\ LinkSafe /\ LineSafe /\ FadeSafe

LEMMA TimingSafeInit == TimingInit => TimingSafe
BY SafeInit, LinkInit, LineInit, FadeInit DEF TimingInit, TimingSafe

LEMMA TimingSteps ==
  ASSUME [TimingNext]_timingVars
  PROVE  /\ [Next]_vars /\ [Link!Next]_Link!vars
         /\ [Line!Next]_Line!vars /\ [Fade!Next]_Fade!vars
<1>1. UNCHANGED linkVars => UNCHANGED Link!vars
  BY DEF linkVars, Link!vars
<1>2. UNCHANGED lineVars => UNCHANGED Line!vars
  BY DEF lineVars, Line!vars, Line!history
<1>3. UNCHANGED fadeVars => UNCHANGED Fade!vars
  BY DEF fadeVars, Fade!vars
<1>4. CASE TimingNext
  BY <1>1, <1>2, <1>3, <1>4 DEF TimingNext
<1>5. CASE UNCHANGED timingVars
  BY <1>1, <1>2, <1>3, <1>5 DEF timingVars
<1>6. QED
  BY <1>4, <1>5

LEMMA TimingSafeStep == TimingSafe /\ [TimingNext]_timingVars => TimingSafe'
<1> SUFFICES ASSUME TimingSafe, [TimingNext]_timingVars PROVE TimingSafe'
  OBVIOUS
<1>1. TempoSafe' /\ LinkSafe'
  BY TimingSteps, SafeStep, LinkStep DEF TimingSafe
<1>2. LineSafe' /\ FadeSafe'
  BY TimingSteps, LineStep, FadeStays DEF TimingSafe
<1>3. QED
  BY <1>1, <1>2 DEF TimingSafe

LEMMA TimingStaysSafe == TimingSpec => []TimingSafe
BY TimingSafeInit, TimingSafeStep, PTL DEF TimingSpec

LEMMA SafeIsEnough == TimingSafe => TimingInv /\ RightAgain
<1> SUFFICES ASSUME TimingSafe PROVE TimingInv /\ RightAgain
  OBVIOUS
<1>1. TypeOK /\ OffsetIsWholeBars
  <2>1. phraseOffset \in Nat
    <3>1. BarSize \in Nat /\ PhraseSize \in Nat
      BY TempoSizes DEF Sizes
    <3>2. QED
      BY <3>1 DEF TimingSafe, TempoSafe, OffsetIsWholeBars
  <2>2. ToSet(order) \subseteq Sources
    BY ElementsOf DEF TimingSafe, TempoSafe, SourceOrder
  <2>3. QED
    BY <2>1, <2>2
       DEF TypeOK, TimingSafe, TempoSafe, SourceOrder, SourceTypes, JobTypes
<1>2. Link!TypeOK
  BY DEF TimingSafe, LinkSafe
<1>3. Line!TypeOK
  BY DEF TimingSafe, LineSafe, LineTypes, Line!TypeOK, Line!Clock
<1>4. Fade!TypeOK /\ Fade!ExitsWhenDark /\ Fade!EveryBeatFades
  BY FadesEnd DEF TimingSafe, FadeSafe
<1>5. RightAgain
  BY DEF TimingSafe, LineSafe, RightAgain
<1>6. QED
  BY <1>1, <1>2, <1>3, <1>4, <1>5 DEF TimingInv

(* What keeps time keeps its types; aligning again and again keeps the     *)
(* phrase offset at whole bars, never negative; a pattern that exits is    *)
(* dark in every pixel, one that stays is full, and each beat starts the   *)
(* flash anew: for any sizes of bars and phrases, any durations and delays *)
(* and a clock of any width.                                               *)
THEOREM TimeIsKept == TimingSpec => []TimingInv
BY TimingStaysSafe, SafeIsEnough, PTL

(* The moments that happened in a frame are those it went through, for     *)
(* timelines of any durations, unless the frame or the one before has a    *)
(* reset, a change, the end of the clock or more time than the loop        *)
(* (Happened of Timeline).                                                 *)
THEOREM NoMomentIsMissed == TimingSpec => []RightAgain
BY TimingStaysSafe, SafeIsEnough, PTL

(* After an alignment the bar that plays is the first of its phrase        *)
(* (AlignPhrase), whatever the sources did before.                         *)
THEOREM BarsStartPhrases == TimingSpec => AlignStartsPhrase
<1>1. TimingSafe /\ [TimingNext]_timingVars =>
        [AlignPhrase /\ Active # NoSource /\ beatNumber[Active] >= 0 =>
           (GetBeatNumber' % PhraseSize) = beatNumber[Active] % BarSize]_vars
  BY AlignedStep DEF TimingSafe
<1>2. QED
  BY <1>1, TimingStaysSafe, PTL DEF TimingSpec, AlignStartsPhrase

(* A beat that counts leaves the local count at the place in the bar of    *)
(* the player that is the master, and the first beat after a handoff       *)
(* counts, for any number of players (ProDJLinkTempo).                     *)
THEOREM MasterIsFollowed == TimingSpec => CountFollowsMaster
<1>1. TimingSafe /\ [TimingNext]_timingVars =>
        /\ [ /\ heard' \in Link!CdjBeats
             /\ count' # count \/ lastbeat' \notin {lastbeat, -1}
             => /\ (count' - (heard' - 1)) % Link!CdjBar = 0
                /\ count' - count \in 0 .. Link!CdjBar - 1 ]_Link!vars
        /\ [ master' # NoMaster /\ heard = 0 /\ heard' # 0 =>
               lastbeat' = count + 1 ]_Link!vars
  BY TimingSteps, FollowStep DEF TimingSafe
<1>2. QED
  BY <1>1, TimingStaysSafe, PTL
     DEF TimingSpec, CountFollowsMaster, Link!InStep, Link!HandoffIsFollowed

(* A beat that reaches the listeners carries a name and a number that are  *)
(* of the source that beat or of one before it in the set, each of them    *)
(* with a signal when it is read, whatever the other threads do between    *)
(* the check and the reads (BroadcastBeat).                                *)
THEOREM NoBeatIsMisplaced == TimingSpec => BeatsAreNotMisplaced
<1>1. TimingInit => OnTheAir
  BY DEF TimingInit, Init, OnTheAir, OnItsThread, Live, Idle
<1>2. TimingSafe /\ OnTheAir /\ [TimingNext]_timingVars => OnTheAir'
  BY TimingSteps, OnTheAirStep DEF TimingSafe
<1>3. TimingSafe /\ OnTheAir /\ [TimingNext]_timingVars =>
        [\A t \in Threads :
           /\ job[t].stage \in {"name", "number"} /\ job'[t] # job[t]
           /\ job[t].source = Tap => t = WebThread
           => \E a \in Sources :
                /\ OnlyPrecededBy(job[t].source, a)
                /\ job[t].stage = "name" => job'[t].name = a
                /\ job[t].stage = "number" =>
                     Told(t).number = beatNumber[a] + phraseOffset]_vars
  BY TimingSteps, NotMisplacedStep DEF TimingSafe
<1>4. QED
  BY <1>1, <1>2, <1>3, TimingStaysSafe, PTL DEF TimingSpec, BeatsAreNotMisplaced

=============================================================================
