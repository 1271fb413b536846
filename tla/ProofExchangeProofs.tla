------------------------- MODULE ProofExchangeProofs ------------------------
(***************************************************************************)
(* What the log hands out, for words of every width, logs of every length  *)
(* and every request: the tree's hashes are those of RFC 9162, inclusion   *)
(* proofs stay valid and bind an index to its entry, consistency proofs    *)
(* are accepted and bind a subtree to its root, and the answers about      *)
(* intervals are exact.                                                    *)
(***************************************************************************)
EXTENDS ProofExchange, LibraryProofs

-----------------------------------------------------------------------------
(* Shifts *)

LEMMA Shifting ==
    ASSUME NEW x \in Nat, NEW k \in 0..W
    PROVE  /\ Shifted(x, k) \in Nat
           /\ x % Pow2[k] \in 0..(Pow2[k] - 1)
           /\ x = Pow2[k] * Shifted(x, k) + (x % Pow2[k])
           /\ k = 0 => Shifted(x, k) = x
<1>1. Pow2[k] \in Nat \ {0} /\ Pow2[0] = 1
    BY Pow2Type, Pow2Exists
<1>2. /\ x \div Pow2[k] \in Nat
      /\ x % Pow2[k] \in 0..(Pow2[k] - 1)
      /\ x = Pow2[k] * (x \div Pow2[k]) + (x % Pow2[k])
    BY <1>1, Division
<1>3. x \div 1 = x
    OBVIOUS
<1> QED BY <1>1, <1>2, <1>3 DEF Shifted

(* The quotient by a power of two is known by where the number lies. *)
LEMMA ShiftedIs ==
    ASSUME NEW x \in Nat, NEW k \in 0..W, NEW q \in Nat,
           Pow2[k] * q <= x, x < Pow2[k] * q + Pow2[k]
    PROVE  Shifted(x, k) = q
<1> DEFINE d == Pow2[k]
           r == x - d * q
<1>1. d \in Nat \ {0}
    BY Pow2Type
<1>2. d * q \in Nat
    BY <1>1
<1>3. r \in 0..(d - 1) /\ x = d * q + r
    BY <1>1, <1>2
<1> HIDE DEF d, r
<1>4. (d * q + r) \div d = q
    BY <1>1, <1>3, QuotientAndRemainder
<1> QED BY <1>3, <1>4 DEF Shifted, d

(* Shifting by one more place drops the lowest bit. *)
LEMMA ShiftOnce ==
    ASSUME NEW x \in Nat, NEW k \in 0..(W - 1)
    PROVE  /\ Odd(Shifted(x, k)) => Shifted(x, k) = 2 * Shifted(x, k + 1) + 1
           /\ ~Odd(Shifted(x, k)) => Shifted(x, k) = 2 * Shifted(x, k + 1)
<1> DEFINE d == Pow2[k]
           q == Shifted(x, k)
           h == Shifted(x, k + 1)
<1>1. /\ k \in 0..W /\ k + 1 \in 0..W /\ k + 1 \in 1..W
      /\ Pow2[k + 1] = 2 * Pow2[k]
    BY Pow2Exists, WordWidth
<1>2. /\ d \in Nat \ {0} /\ q \in Nat /\ h \in Nat
      /\ x % d \in 0..(d - 1) /\ x = d * q + (x % d)
    BY <1>1, Pow2Type, Shifting
<1>3. /\ x % (2 * d) \in 0..(2 * d - 1) /\ x = (2 * d) * h + (x % (2 * d))
    BY <1>1, Shifting
<1> HIDE DEF d, q, h
<1>4. q = 2 * h \/ q = 2 * h + 1
    <2>1. d * q + (x % d) = (2 * d) * h + (x % (2 * d))
        BY <1>2, <1>3
    <2> QED BY <1>2, <1>3, <2>1, HalfQuotient
<1>5. (q = 2 * h => ~Odd(q)) /\ (q = 2 * h + 1 => Odd(q))
    BY <1>2 DEF Odd
<1> QED BY <1>4, <1>5 DEF q, h

(* Shifting twice. *)
LEMMA ShiftTwice ==
    ASSUME NEW x \in Nat, NEW j \in 0..W, NEW i \in 0..W, j + i <= W
    PROVE  Shifted(Shifted(x, j), i) = Shifted(x, j + i)
<1> DEFINE y     == Shifted(x, j)
           Other == {b \in 0..i : Shifted(y, b) # Shifted(x, j + b)}
<1>1. y \in Nat
    BY Shifting
<1>2. Other = {}
    <2> SUFFICES ASSUME Other # {} PROVE FALSE
        OBVIOUS
    <2>1. PICK b \in Other : \A c \in Other : b <= c
        <3>1. Other \in SUBSET Nat
            OBVIOUS
        <3> HIDE DEF Other
        <3> QED BY <3>1, SmallestElement
    <2>2. b # 0
        <3>1. 0 \in 0..W /\ j + 0 = j
            BY WordWidth
        <3>2. Shifted(y, 0) = y
            BY <1>1, <3>1, Shifting
        <3> QED BY <3>1, <3>2
    <2>3. /\ b - 1 \in 0..i /\ b - 1 \notin Other
          /\ b - 1 \in 0..(W - 1) /\ j + (b - 1) \in 0..(W - 1)
          /\ (b - 1) + 1 = b /\ (j + (b - 1)) + 1 = j + b
          /\ b \in 0..W /\ j + b \in 0..W
        BY <2>1, <2>2, WordWidth
    <2>4. Shifted(y, b - 1) = Shifted(x, j + (b - 1))
        BY <2>3
    <2> DEFINE p == Shifted(y, b - 1)
               g == Shifted(y, b)
               h == Shifted(x, j + b)
    <2>5. /\ Odd(p) => p = 2 * g + 1
          /\ ~Odd(p) => p = 2 * g
        BY <1>1, <2>3, ShiftOnce
    <2>6. /\ Odd(p) => p = 2 * h + 1
          /\ ~Odd(p) => p = 2 * h
        BY <2>3, <2>4, ShiftOnce
    <2>7. g \in Nat /\ h \in Nat
        BY <1>1, <2>3, Shifting
    <2>8. g # h
        BY <2>1
    <2> HIDE DEF p, g, h
    <2> QED BY <2>5, <2>6, <2>7, <2>8
<1>3. i \in 0..i
    BY WordWidth
<1> QED BY <1>2, <1>3

(* A multiple of the power of two in front does not disturb the shift. *)
LEMMA ShiftOffset ==
    ASSUME NEW k \in 0..W, NEW u \in Nat, NEW s, s = Pow2[k] * u, NEW y \in Nat
    PROVE  s \in Nat /\ Shifted(s, k) = u /\ Shifted(s + y, k) = u + Shifted(y, k)
<1> DEFINE d == Pow2[k]
           q == Shifted(y, k)
           r == y % d
<1>1. /\ d \in Nat \ {0} /\ q \in Nat /\ r \in 0..(d - 1) /\ y = d * q + r
    BY Pow2Type, Shifting
<1>2. /\ d * u \in Nat /\ d * q \in Nat /\ u + q \in Nat
      /\ d * (u + q) = d * u + d * q
    BY <1>1
<1> HIDE DEF d, q, r
<1>3. s = d * u
    BY DEF d
<1>4. s + y = d * (u + q) + r
    BY <1>1, <1>2, <1>3
<1>5. (d * (u + q) + r) \div d = u + q
    BY <1>1, <1>2, QuotientAndRemainder
<1>6. (d * u + 0) \div d = u
    <2>1. 0 \in 0..(d - 1)
        BY <1>1
    <2> QED BY <1>1, <2>1, QuotientAndRemainder
<1>7. d * u + 0 = d * u
    BY <1>2
<1> QED BY <1>2, <1>3, <1>4, <1>5, <1>6, <1>7 DEF Shifted, d, q

(* A shift is nothing exactly below the power of two. *)
LEMMA ShiftedAway ==
    ASSUME NEW x \in Nat, NEW k \in 0..W
    PROVE  Shifted(x, k) = 0 <=> x < Pow2[k]
<1> DEFINE d == Pow2[k]
           q == Shifted(x, k)
           r == x % d
<1>1. /\ d \in Nat \ {0} /\ q \in Nat /\ r \in 0..(d - 1) /\ x = d * q + r
    BY Pow2Type, Shifting
<1> HIDE DEF d, q, r
<1>2. q # 0 => d * q >= d
    BY <1>1
<1>3. q = 0 => d * q = 0
    BY <1>1
<1>4. d * q \in Nat
    BY <1>1
<1> QED BY <1>1, <1>2, <1>3, <1>4 DEF d, q

(* If the low bits of a number are ones, the next number is a multiple. *)
LEMMA TrailingOnesAre ==
    ASSUME NEW y \in Words, NEW t, t = TrailingOnes(y)
    PROVE  /\ t \in 0..W
           /\ ~Odd(Shifted(y, t))
           /\ \A k \in 0..W : k < t => Odd(Shifted(y, k))
           /\ Pow2[t] * (Shifted(y, t) + 1) = y + 1
<1> DEFINE Even  == {k \in 0..W : ~Odd(Shifted(y, k))}
           Other == {k \in 0..t : Pow2[k] * (Shifted(y, k) + 1) # y + 1}
<1>1. y \in Nat /\ W \in 0..W /\ 0 \in 0..W /\ y < Pow2[W]
    BY Pow2Type, WordWidth DEF Words
<1>2. Even \in SUBSET Nat /\ Even # {}
    <2>1. Shifted(y, W) = 0
        BY <1>1, ShiftedAway
    <2>2. ~Odd(0)
        BY DEF Odd
    <2> QED BY <1>1, <2>1, <2>2
<1>3. t = Min(Even)
    BY DEF TrailingOnes, Shifted
<1>4. t \in Even /\ \A k \in Even : t <= k
    <2> HIDE DEF Even
    <2> QED BY <1>2, <1>3, MinIsSmallest
<1>5. /\ t \in 0..W /\ ~Odd(Shifted(y, t))
      /\ \A k \in 0..W : k < t => Odd(Shifted(y, k))
    <2> SUFFICES ASSUME NEW k \in 0..W, k < t PROVE Odd(Shifted(y, k))
        BY <1>4
    <2>1. k \notin Even
        BY <1>4
    <2> QED BY <2>1
<1>6. Other = {}
    <2> SUFFICES ASSUME Other # {} PROVE FALSE
        OBVIOUS
    <2>1. PICK k \in Other : \A c \in Other : k <= c
        <3>1. Other \in SUBSET Nat
            BY <1>5
        <3> HIDE DEF Other
        <3> QED BY <3>1, SmallestElement
    <2>2. k # 0
        <3>1. Shifted(y, 0) = y /\ Pow2[0] = 1
            BY <1>1, Shifting, Pow2Exists
        <3> QED BY <1>1, <3>1
    <2>3. /\ k - 1 \in 0..t /\ k - 1 \notin Other /\ k - 1 < t
          /\ k - 1 \in 0..(W - 1) /\ k - 1 \in 0..W /\ (k - 1) + 1 = k /\ k \in 1..W
        BY <1>5, <2>1, <2>2, WordWidth
    <2> DEFINE d == Pow2[k - 1]
               q == Shifted(y, k - 1)
               h == Shifted(y, k)
    <2>4. d * (q + 1) = y + 1
        BY <2>3
    <2>5. q = 2 * h + 1
        BY <1>1, <1>5, <2>3, ShiftOnce
    <2>6. Pow2[k] = 2 * d /\ d \in Nat \ {0} /\ h \in Nat
        BY <1>1, <2>3, Pow2Exists, Pow2Type, Shifting
    <2>7. Pow2[k] * (h + 1) # y + 1
        BY <2>1
    <2> HIDE DEF d, q, h
    <2>8. (2 * d) * (h + 1) = d * (2 * h + 1 + 1)
        BY <2>6
    <2> QED BY <2>4, <2>5, <2>6, <2>7, <2>8
<1>7. t \in 0..t
    BY <1>5, WordWidth
<1> QED BY <1>5, <1>6, <1>7

(* How far the zeros at the end of a number go. *)
LEMMA TrailingZerosAre ==
    ASSUME NEW y \in Words, NEW t \in 0..W, Odd(Shifted(y, t)),
           \A k \in 0..W : k < t => ~Odd(Shifted(y, k))
    PROVE  TrailingZeros(y) = t
<1> DEFINE Ones == {k \in 0..W : Odd(Shifted(y, k))}
<1>1. y \in Nat
    BY Pow2Type, WordWidth DEF Words
<1>2. y # 0
    <2>1. ASSUME y = 0 PROVE Shifted(y, t) = 0
        BY <1>1, <2>1, ShiftedAway, Pow2Type
    <2> QED BY <2>1 DEF Odd
<1>3. t \in Ones /\ Ones \in SUBSET Nat /\ \A k \in Ones : t <= k
    BY WordWidth
<1>4. Min(Ones) \in Ones /\ \A k \in Ones : Min(Ones) <= k
    <2> HIDE DEF Ones
    <2> QED BY <1>3, MinIsSmallest
<1>5. Min(Ones) = t
    <2>1. Min(Ones) <= t /\ t <= Min(Ones) /\ Min(Ones) \in Nat /\ t \in Nat
        BY <1>3, <1>4
    <2> QED BY <2>1
<1> QED BY <1>2, <1>5 DEF TrailingZeros, Shifted

-----------------------------------------------------------------------------
(* The largest power of two below a number *)

LEMMA PowerBelowIs ==
    ASSUME NEW n \in Nat, NEW b \in 0..W, Pow2[b] < n, n <= 2 * Pow2[b]
    PROVE  LargestPowerBelow(n) = Pow2[b]
<1> DEFINE Fits(k) == k \in {Pow2[c] : c \in 0..W} /\ k < n /\ n <= 2 * k
<1>1. LargestPowerBelow(n) = CHOOSE k \in {Pow2[c] : c \in 0..W} : k < n /\ n <= 2 * k
    BY DEF LargestPowerBelow
<1>2. Fits(Pow2[b])
    OBVIOUS
<1>3. Fits(LargestPowerBelow(n))
    BY <1>1, <1>2
<1>4. PICK c \in 0..W : LargestPowerBelow(n) = Pow2[c] /\ Pow2[c] < n /\ n <= 2 * Pow2[c]
    BY <1>3
<1>5. ASSUME NEW i \in 0..W, NEW j \in 0..W, i < j, Pow2[j] < n, n <= 2 * Pow2[i]
      PROVE  FALSE
    <2>1. i + 1 \in 1..W /\ i + 1 \in 0..W /\ (i + 1) - 1 = i /\ (i + 1 < j \/ i + 1 = j)
        BY <1>5, WordWidth
    <2>2. Pow2[i + 1] = 2 * Pow2[i]
        BY <2>1, Pow2Exists
    <2>3. i + 1 < j => Pow2[i + 1] < Pow2[j]
        BY <2>1, PowersAscend
    <2>4. Pow2[i] \in Nat /\ Pow2[j] \in Nat /\ Pow2[i + 1] \in Nat
        BY <2>1, Pow2Type
    <2> QED BY <1>5, <2>1, <2>2, <2>3, <2>4
<1>6. ~(b < c) /\ ~(c < b)
    BY <1>4, <1>5
<1> QED BY <1>4, <1>6, WordWidth

LEMMA PowerBelow ==
    ASSUME NEW n \in 2..Pow2[W]
    PROVE  \E b \in 0..(W - 1) :
               /\ LargestPowerBelow(n) = Pow2[b]
               /\ Pow2[b] < n /\ n <= 2 * Pow2[b]
               /\ Pow2[b] \in 1..(n - 1)
<1> DEFINE c == BitLen(n - 1)
<1>1. Pow2[W] \in Nat /\ n \in Nat /\ n - 1 \in 0..(Pow2[W] - 1)
    BY Pow2Type, WordWidth
<1>2. /\ c \in 0..W /\ n - 1 < Pow2[c]
      /\ \A k \in 0..W : k < c => Pow2[k] <= n - 1
    BY <1>1, BitLength
<1>3. c # 0
    BY <1>1, <1>2, Pow2Exists
<1> HIDE DEF c
<1>4. c - 1 \in 0..(W - 1) /\ c - 1 \in 0..W /\ c - 1 < c /\ c \in 1..W
    BY <1>2, <1>3, WordWidth
<1>5. Pow2[c] = 2 * Pow2[c - 1] /\ Pow2[c - 1] <= n - 1 /\ Pow2[c - 1] \in Nat \ {0}
    BY <1>2, <1>4, Pow2Exists, Pow2Type
<1>6. Pow2[c - 1] < n /\ n <= 2 * Pow2[c - 1]
    BY <1>1, <1>2, <1>5
<1>7. LargestPowerBelow(n) = Pow2[c - 1]
    BY <1>1, <1>4, <1>6, PowerBelowIs
<1> QED BY <1>1, <1>4, <1>5, <1>6, <1>7

-----------------------------------------------------------------------------
(* Loops: each recursive function is the one its equations describe, as in  *)
(* Pow2Exists: a smallest number without a solution up to it cannot be.     *)

(* Building the levels of the tree. *)
LEMMA LevelsLoop ==
    ASSUME NEW data
    PROVE  /\ DOMAIN Levels(data) = 0..W
           /\ \A k \in 0..W :
                  Levels(data)[k] =
                      IF k = 0 THEN [i \in 1..Len(data) |-> HashLeaf(data[i])]
                      ELSE LET below == Levels(data)[k - 1]
                           IN  [i \in 1..(Len(below) \div 2) |->
                                   HashNode(below[2*i - 1], below[2*i])]
<1> DEFINE Step(g, k)   == IF k = 0 THEN [i \in 1..Len(data) |-> HashLeaf(data[i])]
                           ELSE LET below == g[k - 1]
                                IN  [i \in 1..(Len(below) \div 2) |->
                                        HashNode(below[2*i - 1], below[2*i])]
           Solves(g, n) == g = [k \in 0..n |-> Step(g, k)]
           F            == Levels(data)
           Without      == {n \in 0..W : ~ \E g : Solves(g, n)}
<1>1. ASSUME NEW g, NEW h, NEW k \in 0..W, \A i \in 0..(k - 1) : g[i] = h[i]
      PROVE  Step(g, k) = Step(h, k)
    <2>1. k # 0 => k - 1 \in 0..(k - 1)
        BY WordWidth
    <2>2. k = 0 \/ g[k - 1] = h[k - 1]
        BY <1>1, <2>1
    <2> QED BY <2>2
<1>2. F = CHOOSE g : Solves(g, W)
    BY DEF Levels
<1> HIDE DEF Step, F
<1>3. Without = {}
    <2> SUFFICES ASSUME Without # {} PROVE FALSE
        OBVIOUS
    <2>1. PICK n \in Without : \A m \in Without : n <= m
        <3>1. Without \in SUBSET Nat
            BY WordWidth
        <3> HIDE DEF Without
        <3> QED BY <3>1, SmallestElement
    <2>2. n \in Nat /\ 0 <= n /\ n <= W
        BY WordWidth
    <2>3. PICK g : n = 0 \/ Solves(g, n - 1)
        <3>1. n # 0 => n - 1 \in 0..W /\ n - 1 \notin Without
            BY <2>1, <2>2, WordWidth
        <3> HIDE DEF Solves
        <3> QED BY <3>1
    <2> DEFINE h == [k \in 0..n |-> IF k = n THEN Step(g, n) ELSE g[k]]
    <2>4. ASSUME NEW k \in 0..n PROVE h[k] = Step(h, k)
        <3>1. /\ k \in 0..W /\ k \in Nat /\ n \in 0..W
              /\ \A i \in 0..(k - 1) : i \in 0..n /\ i # n /\ h[i] = g[i]
            BY <2>2, WordWidth
        <3>2. Step(g, k) = Step(h, k)
            <4> HIDE DEF h
            <4> QED BY <1>1, <3>1
        <3>3. h[k] = Step(g, k)
            <4>1. CASE k = n
                BY <4>1
            <4>2. CASE k # n
                <5>1. k \in 0..(n - 1) /\ n # 0
                    BY <2>2, <4>2, WordWidth
                <5> QED BY <2>3, <4>2, <5>1
            <4> QED BY <4>1, <4>2
        <3> QED BY <3>2, <3>3
    <2>5. Solves(h, n)
        <3>1. h = [k \in 0..n |-> h[k]]
            OBVIOUS
        <3> HIDE DEF h
        <3> QED BY <2>4, <3>1
    <2> QED BY <2>5
<1>4. Solves(F, W)
    <2>1. W \in 0..W /\ W \notin Without
        <3>1. W \in 0..W
            BY WordWidth
        <3> HIDE DEF Without
        <3> QED BY <1>3, <3>1
    <2> HIDE DEF Solves
    <2> QED BY <1>2, <2>1
<1>5. DOMAIN F = 0..W /\ \A k \in 0..W : F[k] = Step(F, k)
    BY <1>4
<1> QED BY <1>5 DEF Step, F

(* Climbing the right edge. *)
LEMMA ClimbLoop ==
    ASSUME NEW levels, NEW lowest \in 0..W, NEW last
    PROVE  LET ret == Climb(levels, lowest, last)
           IN  \A k \in lowest..W :
                   ret[k] = IF k = lowest THEN Node(levels, k, Shifted(last, k))
                            ELSE IF Odd(Shifted(last, k - 1))
                                 THEN HashNode(Node(levels, k - 1, Shifted(last, k - 1) - 1), ret[k - 1])
                                 ELSE ret[k - 1]
<1> DEFINE Step(g, k)   == IF k = lowest THEN Node(levels, k, Shifted(last, k))
                           ELSE IF Odd(Shifted(last, k - 1))
                                THEN HashNode(Node(levels, k - 1, Shifted(last, k - 1) - 1), g[k - 1])
                                ELSE g[k - 1]
           Solves(g, n) == g = [k \in lowest..n |-> Step(g, k)]
           F            == Climb(levels, lowest, last)
           Without      == {n \in lowest..W : ~ \E g : Solves(g, n)}
<1>1. ASSUME NEW g, NEW h, NEW k \in lowest..W, \A i \in lowest..(k - 1) : g[i] = h[i]
      PROVE  Step(g, k) = Step(h, k)
    BY <1>1, WordWidth
<1>2. F = CHOOSE g : Solves(g, W)
    BY DEF Climb
<1> HIDE DEF Step, F
<1>3. Without = {}
    <2> SUFFICES ASSUME Without # {} PROVE FALSE
        OBVIOUS
    <2>1. PICK n \in Without : \A m \in Without : n <= m
        <3>1. Without \in SUBSET Nat
            BY WordWidth
        <3> HIDE DEF Without
        <3> QED BY <3>1, SmallestElement
    <2>2. n \in Nat /\ lowest <= n /\ n <= W
        BY WordWidth
    <2>3. PICK g : n = lowest \/ Solves(g, n - 1)
        <3>1. n # lowest => n - 1 \in lowest..W /\ n - 1 \notin Without
            BY <2>1, <2>2, WordWidth
        <3> HIDE DEF Solves
        <3> QED BY <3>1
    <2> DEFINE h == [k \in lowest..n |-> IF k = n THEN Step(g, n) ELSE g[k]]
    <2>4. ASSUME NEW k \in lowest..n PROVE h[k] = Step(h, k)
        <3>1. /\ k \in lowest..W /\ k \in Nat /\ n \in lowest..W
              /\ \A i \in lowest..(k - 1) : i \in lowest..n /\ i # n /\ h[i] = g[i]
            BY <2>2, WordWidth
        <3>2. Step(g, k) = Step(h, k)
            <4> HIDE DEF h
            <4> QED BY <1>1, <3>1
        <3>3. h[k] = Step(g, k)
            <4>1. CASE k = n
                BY <4>1
            <4>2. CASE k # n
                <5>1. k \in lowest..(n - 1) /\ n # lowest
                    BY <2>2, <4>2, WordWidth
                <5> QED BY <2>3, <4>2, <5>1
            <4> QED BY <4>1, <4>2
        <3> QED BY <3>2, <3>3
    <2>5. Solves(h, n)
        <3>1. h = [k \in lowest..n |-> h[k]]
            OBVIOUS
        <3> HIDE DEF h
        <3> QED BY <2>4, <3>1
    <2> QED BY <2>5
<1>4. Solves(F, W)
    <2>1. W \in lowest..W /\ W \notin Without
        <3>1. W \in lowest..W
            BY WordWidth
        <3> HIDE DEF Without
        <3> QED BY <1>3, <3>1
    <2> HIDE DEF Solves
    <2> QED BY <1>2, <2>1
<1>5. DOMAIN F = lowest..W /\ \A k \in lowest..W : F[k] = Step(F, k)
    BY <1>4
<1> QED BY <1>5 DEF Step, F

(* Collecting siblings. *)
LEMMA SiblingLoop ==
    ASSUME NEW levels, NEW index, NEW end
    PROVE  LET path == SiblingPath(levels, index, end)
           IN  \A k \in 0..W :
                   path[k] = IF k = 0 THEN <<>>
                             ELSE path[k - 1] \o Sibling(levels, index, end, k - 1)
<1> DEFINE Step(g, k)   == IF k = 0 THEN <<>> ELSE g[k - 1] \o Sibling(levels, index, end, k - 1)
           Solves(g, n) == g = [k \in 0..n |-> Step(g, k)]
           F            == SiblingPath(levels, index, end)
           Without      == {n \in 0..W : ~ \E g : Solves(g, n)}
<1>1. ASSUME NEW g, NEW h, NEW k \in 0..W, \A i \in 0..(k - 1) : g[i] = h[i]
      PROVE  Step(g, k) = Step(h, k)
    BY <1>1, WordWidth
<1>2. F = CHOOSE g : Solves(g, W)
    BY DEF SiblingPath
<1> HIDE DEF Step, F
<1>3. Without = {}
    <2> SUFFICES ASSUME Without # {} PROVE FALSE
        OBVIOUS
    <2>1. PICK n \in Without : \A m \in Without : n <= m
        <3>1. Without \in SUBSET Nat
            BY WordWidth
        <3> HIDE DEF Without
        <3> QED BY <3>1, SmallestElement
    <2>2. n \in Nat /\ 0 <= n /\ n <= W
        BY WordWidth
    <2>3. PICK g : n = 0 \/ Solves(g, n - 1)
        <3>1. n # 0 => n - 1 \in 0..W /\ n - 1 \notin Without
            BY <2>1, <2>2, WordWidth
        <3> HIDE DEF Solves
        <3> QED BY <3>1
    <2> DEFINE h == [k \in 0..n |-> IF k = n THEN Step(g, n) ELSE g[k]]
    <2>4. ASSUME NEW k \in 0..n PROVE h[k] = Step(h, k)
        <3>1. /\ k \in 0..W /\ k \in Nat /\ n \in 0..W
              /\ \A i \in 0..(k - 1) : i \in 0..n /\ i # n /\ h[i] = g[i]
            BY <2>2, WordWidth
        <3>2. Step(g, k) = Step(h, k)
            <4> HIDE DEF h
            <4> QED BY <1>1, <3>1
        <3>3. h[k] = Step(g, k)
            <4>1. CASE k = n
                BY <4>1
            <4>2. CASE k # n
                <5>1. k \in 0..(n - 1) /\ n # 0
                    BY <2>2, <4>2, WordWidth
                <5> QED BY <2>3, <4>2, <5>1
            <4> QED BY <4>1, <4>2
        <3> QED BY <3>2, <3>3
    <2>5. Solves(h, n)
        <3>1. h = [k \in 0..n |-> h[k]]
            OBVIOUS
        <3> HIDE DEF h
        <3> QED BY <2>4, <3>1
    <2> QED BY <2>5
<1>4. Solves(F, W)
    <2>1. W \in 0..W /\ W \notin Without
        <3>1. W \in 0..W
            BY WordWidth
        <3> HIDE DEF Without
        <3> QED BY <1>3, <3>1
    <2> HIDE DEF Solves
    <2> QED BY <1>2, <2>1
<1>5. DOMAIN F = 0..W /\ \A k \in 0..W : F[k] = Step(F, k)
    BY <1>4
<1> QED BY <1>5 DEF Step, F

(* Folding an inclusion proof. *)
LEMMA FoldLoop ==
    ASSUME NEW proof, Len(proof) \in Nat, NEW fn, NEW sn, NEW entryHash
    PROVE  LET at == FoldPath(proof, fn, sn, entryHash)
           IN  \A i \in 0..Len(proof) :
                   at[i] = IF i = 0 THEN [fn |-> fn, sn |-> sn, r |-> entryHash, tooMany |-> FALSE]
                           ELSE LET before == at[i - 1]
                                    joins  == Odd(before.fn) \/ before.fn = before.sn
                                    shift  == IF joins THEN TrailingZeros(before.fn) + 1 ELSE 1
                                IN  [fn |-> Shifted(before.fn, shift), sn |-> Shifted(before.sn, shift),
                                     r  |-> IF joins THEN HashNode(proof[i], before.r)
                                            ELSE HashNode(before.r, proof[i]),
                                     tooMany |-> before.tooMany \/ before.sn = 0]
<1> DEFINE Step(g, k)   == IF k = 0 THEN [fn |-> fn, sn |-> sn, r |-> entryHash, tooMany |-> FALSE]
                           ELSE LET before == g[k - 1]
                                    joins  == Odd(before.fn) \/ before.fn = before.sn
                                    shift  == IF joins THEN TrailingZeros(before.fn) + 1 ELSE 1
                                IN  [fn |-> Shifted(before.fn, shift), sn |-> Shifted(before.sn, shift),
                                     r  |-> IF joins THEN HashNode(proof[k], before.r)
                                            ELSE HashNode(before.r, proof[k]),
                                     tooMany |-> before.tooMany \/ before.sn = 0]
           Solves(g, n) == g = [k \in 0..n |-> Step(g, k)]
           F            == FoldPath(proof, fn, sn, entryHash)
           Without      == {n \in 0..Len(proof) : ~ \E g : Solves(g, n)}
<1>1. ASSUME NEW g, NEW h, NEW k \in 0..Len(proof), \A i \in 0..(k - 1) : g[i] = h[i]
      PROVE  Step(g, k) = Step(h, k)
    BY <1>1
<1>2. F = CHOOSE g : Solves(g, Len(proof))
    BY DEF FoldPath
<1> HIDE DEF Step, F
<1>3. Without = {}
    <2> SUFFICES ASSUME Without # {} PROVE FALSE
        OBVIOUS
    <2>1. PICK n \in Without : \A m \in Without : n <= m
        <3>1. Without \in SUBSET Nat
            OBVIOUS
        <3> HIDE DEF Without
        <3> QED BY <3>1, SmallestElement
    <2>2. n \in Nat /\ 0 <= n /\ n <= Len(proof)
        OBVIOUS
    <2>3. PICK g : n = 0 \/ Solves(g, n - 1)
        <3>1. n # 0 => n - 1 \in 0..Len(proof) /\ n - 1 \notin Without
            BY <2>1, <2>2
        <3> HIDE DEF Solves
        <3> QED BY <3>1
    <2> DEFINE h == [k \in 0..n |-> IF k = n THEN Step(g, n) ELSE g[k]]
    <2>4. ASSUME NEW k \in 0..n PROVE h[k] = Step(h, k)
        <3>1. /\ k \in 0..Len(proof) /\ k \in Nat /\ n \in 0..Len(proof)
              /\ \A i \in 0..(k - 1) : i \in 0..n /\ i # n /\ h[i] = g[i]
            BY <2>2
        <3>2. Step(g, k) = Step(h, k)
            <4> HIDE DEF h
            <4> QED BY <1>1, <3>1
        <3>3. h[k] = Step(g, k)
            <4>1. CASE k = n
                BY <4>1
            <4>2. CASE k # n
                <5>1. k \in 0..(n - 1) /\ n # 0
                    BY <2>2, <4>2
                <5> QED BY <2>3, <4>2, <5>1
            <4> QED BY <4>1, <4>2
        <3> QED BY <3>2, <3>3
    <2>5. Solves(h, n)
        <3>1. h = [k \in 0..n |-> h[k]]
            OBVIOUS
        <3> HIDE DEF h
        <3> QED BY <2>4, <3>1
    <2> QED BY <2>5
<1>4. Solves(F, Len(proof))
    <2>1. Len(proof) \in 0..Len(proof) /\ Len(proof) \notin Without
        <3>1. Len(proof) \in 0..Len(proof)
            OBVIOUS
        <3> HIDE DEF Without
        <3> QED BY <1>3, <3>1
    <2> HIDE DEF Solves
    <2> QED BY <1>2, <2>1
<1>5. DOMAIN F = 0..Len(proof) /\ \A k \in 0..Len(proof) : F[k] = Step(F, k)
    BY <1>4
<1> QED BY <1>5 DEF Step, F

(* Hashing by the definition of RFC 9162. *)
HashStep(data, hash, n) ==
    [first \in 0..Len(data) |->
        IF n = 0 THEN HashEmpty
        ELSE IF n = 1 THEN HashLeaf(data[first + 1])
        ELSE LET p == LargestPowerBelow(n)
             IN  HashNode(hash[p][first], hash[n - p][first + p])]

LEMMA HashLoop ==
    ASSUME NEW data, Len(data) \in 0..(Pow2[W] - 1)
    PROVE  LET hash == MTHs(data)
           IN  \A n \in 0..Len(data) : hash[n] = HashStep(data, hash, n)
<1> DEFINE Step(g, k)   == [first \in 0..Len(data) |->
                               IF k = 0 THEN HashEmpty
                               ELSE IF k = 1 THEN HashLeaf(data[first + 1])
                               ELSE LET p == LargestPowerBelow(k)
                                    IN  HashNode(g[p][first], g[k - p][first + p])]
           Solves(g, n) == g = [k \in 0..n |-> Step(g, k)]
           F            == MTHs(data)
           Without      == {n \in 0..Len(data) : ~ \E g : Solves(g, n)}
<1>a. Len(data) \in Nat /\ 0 \in 0..Len(data) /\ Len(data) < Pow2[W] /\ Pow2[W] \in Nat
    BY Pow2Type, WordWidth
<1>1. ASSUME NEW g, NEW h, NEW k \in 0..Len(data), \A i \in 0..(k - 1) : g[i] = h[i]
      PROVE  Step(g, k) = Step(h, k)
    <2>1. CASE k = 0 \/ k = 1
        BY <2>1
    <2>2. CASE k # 0 /\ k # 1
        <3> DEFINE p == LargestPowerBelow(k)
        <3>1. p \in 1..(k - 1)
            BY <1>a, <2>2, PowerBelow
        <3>2. p \in 0..(k - 1) /\ k - p \in 0..(k - 1)
            BY <1>a, <3>1
        <3> HIDE DEF p
        <3>3. g[p] = h[p] /\ g[k - p] = h[k - p]
            BY <1>1, <3>2
        <3> QED BY <2>2, <3>3 DEF p
    <2> QED BY <2>1, <2>2
<1>2. F = CHOOSE g : Solves(g, Len(data))
    BY DEF MTHs
<1> HIDE DEF Step, F
<1>3. Without = {}
    <2> SUFFICES ASSUME Without # {} PROVE FALSE
        OBVIOUS
    <2>1. PICK n \in Without : \A m \in Without : n <= m
        <3>1. Without \in SUBSET Nat
            BY <1>a
        <3> HIDE DEF Without
        <3> QED BY <3>1, SmallestElement
    <2>2. n \in Nat /\ 0 <= n /\ n <= Len(data)
        BY <1>a
    <2>3. PICK g : n = 0 \/ Solves(g, n - 1)
        <3>1. n # 0 => n - 1 \in 0..Len(data) /\ n - 1 \notin Without
            BY <2>1, <2>2, <1>a
        <3> HIDE DEF Solves
        <3> QED BY <3>1
    <2> DEFINE h == [k \in 0..n |-> IF k = n THEN Step(g, n) ELSE g[k]]
    <2>4. ASSUME NEW k \in 0..n PROVE h[k] = Step(h, k)
        <3>1. /\ k \in 0..Len(data) /\ k \in Nat /\ n \in 0..Len(data)
              /\ \A i \in 0..(k - 1) : i \in 0..n /\ i # n /\ h[i] = g[i]
            BY <2>2, <1>a
        <3>2. Step(g, k) = Step(h, k)
            <4> HIDE DEF h
            <4> QED BY <1>1, <3>1
        <3>3. h[k] = Step(g, k)
            <4>1. CASE k = n
                BY <4>1
            <4>2. CASE k # n
                <5>1. k \in 0..(n - 1) /\ n # 0
                    BY <2>2, <4>2, <1>a
                <5> QED BY <2>3, <4>2, <5>1
            <4> QED BY <4>1, <4>2
        <3> QED BY <3>2, <3>3
    <2>5. Solves(h, n)
        <3>1. h = [k \in 0..n |-> h[k]]
            OBVIOUS
        <3> HIDE DEF h
        <3> QED BY <2>4, <3>1
    <2> QED BY <2>5
<1>4. Solves(F, Len(data))
    <2>1. Len(data) \in 0..Len(data) /\ Len(data) \notin Without
        <3>1. Len(data) \in 0..Len(data)
            BY <1>a
        <3> HIDE DEF Without
        <3> QED BY <1>3, <3>1
    <2> HIDE DEF Solves
    <2> QED BY <1>2, <2>1
<1>5. DOMAIN F = 0..Len(data) /\ \A k \in 0..Len(data) : F[k] = Step(F, k)
    BY <1>4
<1> QED BY <1>5 DEF Step, F, HashStep

-----------------------------------------------------------------------------
(* Hashes by the definition of RFC 9162 *)

LEMMA SmallHash ==
    ASSUME NEW data, Len(data) \in Words, NEW end \in 0..Len(data), NEW start \in 0..end
    PROVE  /\ end = start => MTH(data, start, end) = HashEmpty
           /\ end = start + 1 => MTH(data, start, end) = HashLeaf(data[start + 1])
<1>1. /\ Len(data) \in 0..(Pow2[W] - 1) /\ Len(data) \in Nat
      /\ end - start \in 0..Len(data) /\ start \in 0..Len(data)
    BY Pow2Type, WordWidth DEF Words
<1> DEFINE hash == MTHs(data)
           n    == end - start
<1>2. hash[n] = HashStep(data, hash, n)
    BY <1>1, HashLoop
<1>3. /\ end = start => n = 0
      /\ end = start + 1 => n = 1
    BY <1>1
<1> HIDE DEF hash, n
<1> QED BY <1>1, <1>2, <1>3 DEF HashStep, MTH, hash, n

(* The hash of more than a power of two entries and at most twice as many. *)
LEMMA HashSplit ==
    ASSUME NEW data, Len(data) \in Words, NEW end \in 0..Len(data), NEW start \in 0..end,
           NEW b \in 0..W, Pow2[b] < end - start, end - start <= 2 * Pow2[b],
           NEW mid, mid = start + Pow2[b]
    PROVE  MTH(data, start, end) = HashNode(MTH(data, start, mid), MTH(data, mid, end))
<1> DEFINE hash == MTHs(data)
           n    == end - start
           d    == Pow2[b]
<1>1. /\ Len(data) \in 0..(Pow2[W] - 1) /\ Len(data) \in Nat
      /\ n \in 0..Len(data) /\ n \in Nat /\ start \in 0..Len(data) /\ d \in Nat \ {0}
    BY Pow2Type, WordWidth DEF Words
<1>2. hash[n] = HashStep(data, hash, n)
    <2> HIDE DEF n
    <2> QED BY <1>1, HashLoop
<1>3. LargestPowerBelow(n) = d
    BY <1>1, PowerBelowIs
<1>4. n # 0 /\ n # 1
    BY <1>1
<1>5. mid - start = d /\ end - mid = n - d /\ mid = start + d
    BY <1>1
<1> HIDE DEF hash, n, d
<1>6. hash[n][start] = HashNode(hash[d][start], hash[n - d][start + d])
    BY <1>1, <1>2, <1>3, <1>4 DEF HashStep
<1> QED BY <1>5, <1>6 DEF MTH, hash, n

(* Later entries do not change the hash of the earlier ones. *)
LEMMA HashOfGrown ==
    ASSUME NEW data, NEW more, Len(data) \in Words, Len(more) \in Words,
           Len(data) <= Len(more), \A i \in 1..Len(data) : more[i] = data[i],
           NEW end \in 0..Len(data), NEW start \in 0..end
    PROVE  MTH(more, start, end) = MTH(data, start, end)
<1> DEFINE N == Len(data)
           M == Len(more)
           Other == {n \in 0..N : \E e \in 0..N : \E s \in 0..e :
                         e - s = n /\ MTH(more, s, e) # MTH(data, s, e)}
<1>1. N \in Nat /\ M \in Nat /\ N <= M /\ M <= Pow2[W] /\ Pow2[W] \in Nat
    BY Pow2Type, WordWidth DEF Words
<1>2. Other = {}
    <2> SUFFICES ASSUME Other # {} PROVE FALSE
        OBVIOUS
    <2>1. PICK n \in Other : \A m \in Other : n <= m
        <3>1. Other \in SUBSET Nat
            BY <1>1
        <3> HIDE DEF Other
        <3> QED BY <3>1, SmallestElement
    <2>2. PICK e \in 0..N : \E s \in 0..e : e - s = n /\ MTH(more, s, e) # MTH(data, s, e)
        OBVIOUS
    <2>3. PICK s \in 0..e : e - s = n /\ MTH(more, s, e) # MTH(data, s, e)
        BY <2>2
    <2>4. /\ e \in 0..M /\ e \in Nat /\ s \in Nat /\ s <= e /\ e <= N
          /\ n \in Nat
        BY <1>1
    <2>5. CASE n = 0 \/ n = 1
        <3>1. e = s \/ e = s + 1
            BY <2>3, <2>4, <2>5
        <3>2. /\ e = s => MTH(data, s, e) = HashEmpty
              /\ e = s + 1 => MTH(data, s, e) = HashLeaf(data[s + 1])
            BY SmallHash
        <3>3. /\ e = s => MTH(more, s, e) = HashEmpty
              /\ e = s + 1 => MTH(more, s, e) = HashLeaf(more[s + 1])
            BY <2>4, SmallHash
        <3>4. e = s + 1 => s + 1 \in 1..N
            BY <2>4
        <3> QED BY <2>3, <3>1, <3>2, <3>3, <3>4
    <2>6. CASE n # 0 /\ n # 1
        <3>1. n \in 2..Pow2[W]
            BY <1>1, <2>3, <2>4, <2>6
        <3>2. PICK b \in 0..(W - 1) :
                  /\ Pow2[b] < n /\ n <= 2 * Pow2[b] /\ Pow2[b] \in 1..(n - 1)
            BY <3>1, PowerBelow
        <3>3. b \in 0..W
            BY WordWidth
        <3>4. PICK m : m = s + Pow2[b]
            OBVIOUS
        <3>5. MTH(data, s, e) = HashNode(MTH(data, s, m), MTH(data, m, e))
            <4>1. Pow2[b] < e - s /\ e - s <= 2 * Pow2[b]
                BY <2>3, <3>2
            <4> QED BY <3>3, <3>4, <4>1, HashSplit
        <3>6. MTH(more, s, e) = HashNode(MTH(more, s, m), MTH(more, m, e))
            <4>1. Pow2[b] < e - s /\ e - s <= 2 * Pow2[b]
                BY <2>3, <3>2
            <4> QED BY <2>4, <3>3, <3>4, <4>1, HashSplit
        <3>7. /\ m \in 0..N /\ s \in 0..m /\ m \in 0..e
              /\ m - s \in 0..N /\ e - m \in 0..N /\ m - s < n /\ e - m < n
            <4>1. e - s = n
                BY <2>3
            <4>2. PICK p : p = Pow2[b]
                OBVIOUS
            <4>3. p \in Nat /\ 1 <= p /\ p <= n - 1 /\ m = s + p
                BY <2>4, <3>2, <3>4, <4>2, SMTT(30)
            <4> HIDE DEF N, M, Other
            <4>4. e \in Nat /\ s \in Nat /\ n \in Nat /\ e <= N /\ N \in Nat
                BY <1>1, <2>4
            <4> QED BY <4>1, <4>3, <4>4
        <3>8. m - s \notin Other /\ e - m \notin Other
            <4> HIDE DEF Other
            <4> QED BY <2>1, <2>4, <3>7
        <3>9. MTH(more, s, m) = MTH(data, s, m)
            BY <3>7, <3>8
        <3>10. MTH(more, m, e) = MTH(data, m, e)
            BY <3>7, <3>8
        <3> QED BY <2>3, <3>5, <3>6, <3>9, <3>10
    <2> QED BY <2>5, <2>6
<1>3. end - start \in 0..N /\ end \in 0..N
    BY <1>1
<1>4. end - start \notin Other
    <2> HIDE DEF Other
    <2> QED BY <1>2
<1> QED BY <1>3, <1>4

-----------------------------------------------------------------------------
(* The levels of the tree *)

LEMMA LengthOf ==
    ASSUME NEW n \in Nat, NEW f, DOMAIN f = 1..n, f = [i \in 1..n |-> f[i]]
    PROVE  Len(f) = n
<1> DEFINE S == {f[i] : i \in 1..n}
<1>1. f \in [1..n -> S]
    OBVIOUS
<1>2. f \in Seq(S)
    <2> HIDE DEF S
    <2> QED BY <1>1, SeqDef
<1> HIDE DEF S
<1>3. Len(f) \in Nat /\ DOMAIN f = 1..Len(f)
    BY <1>2, LenProperties
<1>4. n \in 1..n \/ n = 0
    OBVIOUS
<1>5. Len(f) \in 1..Len(f) \/ Len(f) = 0
    BY <1>3
<1> QED BY <1>3, <1>4, <1>5

(* Each level has a node for every complete block of its size, and in it    *)
(* the hash of the block.                                                   *)
LEMMA LevelsAreHashes ==
    ASSUME NEW data, Len(data) \in Words, NEW k \in 0..W
    PROVE  /\ Len(Levels(data)[k]) = Shifted(Len(data), k)
           /\ \A j \in 0..(Shifted(Len(data), k) - 1) :
                  Levels(data)[k][j + 1] = MTH(data, Pow2[k] * j, Pow2[k] * (j + 1))
<1> DEFINE N == Len(data)
           levels  == Levels(data)
           Good(l) == /\ Len(levels[l]) = Shifted(N, l)
                      /\ \A j \in 0..(Shifted(N, l) - 1) :
                             levels[l][j + 1] = MTH(data, Pow2[l] * j, Pow2[l] * (j + 1))
           Other   == {l \in 0..W : ~Good(l)}
<1>1. N \in Nat
    BY Pow2Type, WordWidth DEF Words
<1>2. levels[0] = [i \in 1..N |-> HashLeaf(data[i])]
    <2>1. 0 \in 0..W
        BY WordWidth
    <2> QED BY <2>1, LevelsLoop
<1>3. ASSUME NEW l \in 1..W
      PROVE  levels[l] = [i \in 1..(Len(levels[l - 1]) \div 2) |->
                             HashNode(levels[l - 1][2*i - 1], levels[l - 1][2*i])]
    <2>1. l \in 0..W /\ l # 0
        BY WordWidth
    <2> QED BY <2>1, LevelsLoop
<1> HIDE DEF levels
<1>4. Good(0)
    <2>1. DOMAIN levels[0] = 1..N /\ levels[0] = [i \in 1..N |-> levels[0][i]]
        BY <1>2
    <2>2. Len(levels[0]) = N
        BY <1>1, <2>1, LengthOf
    <2>3. 0 \in 0..W /\ Pow2[0] = 1
        BY WordWidth, Pow2Exists
    <2>4. Shifted(N, 0) = N
        BY <1>1, <2>3, Shifting
    <2>5. ASSUME NEW j \in 0..(N - 1)
          PROVE  levels[0][j + 1] = MTH(data, Pow2[0] * j, Pow2[0] * (j + 1))
        <3>1. Pow2[0] * j = j /\ Pow2[0] * (j + 1) = j + 1 /\ j + 1 \in 1..N
            BY <1>1, <2>3
        <3>2. j + 1 \in 0..N /\ j \in 0..(j + 1)
            BY <1>1
        <3>3. MTH(data, j, j + 1) = HashLeaf(data[j + 1])
            BY <3>2, SmallHash
        <3> QED BY <1>2, <3>1, <3>3
    <2> QED BY <2>2, <2>4, <2>5
<1>5. ASSUME NEW l \in 1..W, Good(l - 1) PROVE Good(l)
    <2> DEFINE below == levels[l - 1]
               m     == Shifted(N, l - 1)
               h     == Shifted(N, l)
               d     == Pow2[l - 1]
    <2>1. /\ l - 1 \in 0..(W - 1) /\ l - 1 \in 0..W /\ l \in 0..W /\ (l - 1) + 1 = l
          /\ l \in Nat
        BY WordWidth
    <2>2. /\ m \in Nat /\ h \in Nat /\ d \in Nat \ {0} /\ Pow2[l] = 2 * d
          /\ N % d \in 0..(d - 1) /\ N = d * m + (N % d)
        BY <1>1, <2>1, Shifting, Pow2Type, Pow2Exists
    <2>3. m = 2 * h + 1 \/ m = 2 * h
        BY <1>1, <2>1, ShiftOnce
    <2>4. /\ Len(below) = m
          /\ \A j \in 0..(m - 1) : below[j + 1] = MTH(data, d * j, d * (j + 1))
        BY <1>5
    <2>5. levels[l] = [i \in 1..(Len(below) \div 2) |-> HashNode(below[2*i - 1], below[2*i])]
        BY <1>3
    <2>a. Good(l) <=>
            /\ Len(levels[l]) = h
            /\ \A j \in 0..(h - 1) :
                  levels[l][j + 1] = MTH(data, Pow2[l] * j, Pow2[l] * (j + 1))
        OBVIOUS
    <2> HIDE DEF below, m, h, d, Good
    <2>6. m \div 2 = h
        BY <2>2, <2>3
    <2>7. levels[l] = [i \in 1..h |-> HashNode(below[2*i - 1], below[2*i])]
        BY <2>4, <2>5, <2>6
    <2>8. Len(levels[l]) = h
        <3>1. DOMAIN levels[l] = 1..h /\ levels[l] = [i \in 1..h |-> levels[l][i]]
            BY <2>7
        <3> QED BY <2>2, <3>1, LengthOf
    <2>9. ASSUME NEW j \in 0..(h - 1)
          PROVE  levels[l][j + 1] = MTH(data, Pow2[l] * j, Pow2[l] * (j + 1))
        <3>1. /\ 2 * j \in 0..(m - 1) /\ 2 * j + 1 \in 0..(m - 1) /\ j + 1 \in 1..h
              /\ 2 * (j + 1) - 1 = (2 * j) + 1 /\ 2 * (j + 1) = (2 * j + 1) + 1
            BY <2>2, <2>3
        <3>2. /\ below[2 * (j + 1) - 1] = MTH(data, d * (2 * j), d * ((2 * j) + 1))
              /\ below[2 * (j + 1)] = MTH(data, d * (2 * j + 1), d * ((2 * j + 1) + 1))
            BY <2>4, <3>1
        <3> DEFINE a == d * (2 * j)
                   c == d * (2 * j + 1)
                   e == d * ((2 * j + 1) + 1)
        <3>3. /\ Pow2[l] * j = a /\ Pow2[l] * (j + 1) = e
              /\ a \in Nat /\ c = a + d /\ e = c + d
            BY <2>2
        <3>4. e <= N
            <4>1. e <= d * m
                <5>1. (2 * j + 1) + 1 = m \/ (2 * j + 1) + 1 < m
                    BY <2>2, <3>1
                <5>2. (2 * j + 1) + 1 < m => e + d <= d * m
                    BY <2>2, <3>1, Scaled
                <5> QED BY <2>2, <3>3, <5>1, <5>2
            <4>2. d * m \in Nat
                BY <2>2
            <4> QED BY <2>2, <3>3, <4>1, <4>2
        <3> HIDE DEF a, c, e
        <3>5. MTH(data, a, e) = HashNode(MTH(data, a, c), MTH(data, c, e))
            <4>1. e \in 0..Len(data) /\ a \in 0..e
                BY <1>1, <2>2, <3>3, <3>4
            <4>2. d < e - a /\ e - a <= 2 * d /\ c = a + d
                BY <2>2, <3>3
            <4>3. Pow2[l - 1] < e - a /\ e - a <= 2 * Pow2[l - 1] /\ c = a + Pow2[l - 1]
                BY <4>2 DEF d
            <4> QED BY <2>1, <4>1, <4>3, HashSplit
        <3> QED BY <2>7, <3>1, <3>2, <3>3, <3>5 DEF a, c, e
    <2> QED BY <2>8, <2>9, <2>a
<1>6. Other = {}
    <2> SUFFICES ASSUME Other # {} PROVE FALSE
        OBVIOUS
    <2>1. Other \in SUBSET Nat
        OBVIOUS
    <2>2. PICK l \in Other : \A c \in Other : l <= c
        <3> HIDE DEF Other
        <3> QED BY <2>1, SmallestElement
    <2> HIDE DEF Good
    <2>3. l # 0
        BY <1>4
    <2>4. l \in 1..W /\ l - 1 \in 0..W /\ l - 1 \notin Other
        BY <2>2, <2>3, WordWidth
    <2>5. Good(l - 1)
        BY <2>4
    <2> QED BY <1>5, <2>4, <2>5
<1>7. Good(k)
    <2> HIDE DEF Good
    <2> QED BY <1>6
<1> QED BY <1>7 DEF levels

-----------------------------------------------------------------------------
(* An interval of entries in blocks: block j of level k has 2^k entries,    *)
(* the last one those that are left.                                        *)

BlockEnd(start, end, k, j) ==
    IF start + Pow2[k] * (j + 1) <= end THEN start + Pow2[k] * (j + 1) ELSE end

Block(data, start, end, k, j) ==
    MTH(data, start + Pow2[k] * j, BlockEnd(start, end, k, j))

LastBlock(start, end, k) == Shifted(end - start - 1, k)

LEMMA LastBlockEnds ==
    ASSUME NEW start \in Nat, NEW end \in Nat, start < end, NEW k \in 0..W
    PROVE  /\ LastBlock(start, end, k) \in Nat
           /\ start + Pow2[k] * LastBlock(start, end, k) < end
           /\ end <= start + Pow2[k] * LastBlock(start, end, k) + Pow2[k]
           /\ BlockEnd(start, end, k, LastBlock(start, end, k)) = end
<1> DEFINE y == end - start - 1
           d == Pow2[k]
           n == Shifted(y, k)
           r == y % d
<1>1. y \in Nat /\ end = start + y + 1
    OBVIOUS
<1>2. /\ n \in Nat /\ d \in Nat \ {0} /\ r \in 0..(d - 1) /\ y = d * n + r
    BY <1>1, Shifting, Pow2Type
<1> HIDE DEF y, n, d, r
<1>3. d * n \in Nat /\ d * (n + 1) = d * n + d
    BY <1>2
<1>4. /\ start + d * n < end /\ end <= start + d * n + d
      /\ (start + d * (n + 1) <= end => start + d * (n + 1) = end)
    BY <1>1, <1>2, <1>3
<1> QED BY <1>2, <1>4 DEF LastBlock, BlockEnd, y, n, d

(* A block of level 0 is an entry. *)
LEMMA BlockOfOne ==
    ASSUME NEW data, Len(data) \in Words, NEW end \in 0..Len(data), NEW start \in 0..end,
           NEW j \in 0..(end - start - 1)
    PROVE  Block(data, start, end, 0, j) = HashLeaf(data[start + j + 1])
<1>1. Pow2[0] = 1 /\ Len(data) \in Nat
    BY Pow2Exists, Pow2Type, WordWidth DEF Words
<1>2. start \in Nat /\ end \in Nat
    BY <1>1
<1>3. Pow2[0] * j = j /\ Pow2[0] * (j + 1) = j + 1 /\ start + (j + 1) <= end
    BY <1>1, <1>2
<1>4. BlockEnd(start, end, 0, j) = start + j + 1
    BY <1>2, <1>3 DEF BlockEnd
<1>5. start + j + 1 \in 0..Len(data) /\ start + j \in 0..(start + j + 1)
    BY <1>1, <1>2
<1>6. MTH(data, start + j, start + j + 1) = HashLeaf(data[start + j + 1])
    BY <1>5, SmallHash
<1> QED BY <1>3, <1>4, <1>6 DEF Block

(* Two blocks make one of the next level, an odd last one stays alone. *)
LEMMA BlocksJoin ==
    ASSUME NEW data, Len(data) \in Words, NEW end \in 0..Len(data), NEW start \in 0..end,
           start < end, NEW k \in 0..(W - 1), NEW h \in Nat
    PROVE  /\ 2 * h + 1 <= LastBlock(start, end, k) =>
                  Block(data, start, end, k + 1, h)
                      = HashNode(Block(data, start, end, k, 2 * h),
                                 Block(data, start, end, k, 2 * h + 1))
           /\ 2 * h = LastBlock(start, end, k) =>
                  Block(data, start, end, k + 1, h) = Block(data, start, end, k, 2 * h)
<1> DEFINE d == Pow2[k]
           n == LastBlock(start, end, k)
           A == d * (2 * h)
<1>1. /\ start \in Nat /\ end \in Nat /\ k \in 0..W /\ k + 1 \in 1..W
      /\ Pow2[k + 1] = 2 * Pow2[k] /\ d \in Nat \ {0}
    BY Pow2Exists, Pow2Type, WordWidth, SMTT(30) DEF Words
<1>2. /\ n \in Nat /\ start + d * n < end /\ end <= start + d * n + d
    BY <1>1, LastBlockEnds
<1> HIDE DEF d, n, A
<1>3. /\ Pow2[k] = d /\ Pow2[k + 1] = 2 * d
      /\ A \in Nat /\ d * (2 * h) = A /\ d * (2 * h + 1) = A + d /\ d * ((2 * h + 1) + 1) = A + 2 * d
      /\ (2 * d) * h = A /\ (2 * d) * (h + 1) = A + 2 * d
    <2>1. Pow2[k] = d /\ Pow2[k + 1] = 2 * d
        BY <1>1 DEF d
    <2>2. d * (2 * h) = A
        BY DEF A
    <2>3. /\ d * (2 * h) \in Nat /\ d * (2 * h + 1) = d * (2 * h) + d
          /\ d * ((2 * h + 1) + 1) = d * (2 * h) + 2 * d
        BY <1>1
    <2>4. (2 * d) * h = d * (2 * h) /\ (2 * d) * (h + 1) = d * (2 * h) + 2 * d
        BY <1>1
    <2> QED BY <2>1, <2>2, <2>3, <2>4
<1> DEFINE a == start + A
           m == start + (A + d)
           e == IF start + (A + 2 * d) <= end THEN start + (A + 2 * d) ELSE end
<1>4. /\ Block(data, start, end, k + 1, h) = MTH(data, a, e)
      /\ Block(data, start, end, k, 2 * h) = MTH(data, a, IF m <= end THEN m ELSE end)
      /\ Block(data, start, end, k, 2 * h + 1) = MTH(data, m, e)
    BY <1>3 DEF Block, BlockEnd
<1>5. CASE 2 * h + 1 <= n
    <2>1. A + d <= d * n /\ d * n \in Nat
        <3>1. 2 * h + 1 = n \/ 2 * h + 1 < n
            BY <1>2, <1>5
        <3>2. 2 * h + 1 < n => d * (2 * h + 1) + d <= d * n
            BY <1>1, <1>2, Scaled
        <3>3. d * n \in Nat
            BY <1>1, <1>2
        <3> QED BY <1>1, <1>3, <3>1, <3>2, <3>3
    <2>2. m < end
        BY <1>1, <1>2, <1>3, <2>1
    <2>3. /\ e \in 0..Len(data) /\ a \in 0..e /\ d < e - a /\ e - a <= 2 * d /\ m = a + d
        <3>1. Len(data) \in Nat /\ end <= Len(data)
            BY <1>1, Pow2Type, WordWidth DEF Words
        <3> QED BY <1>1, <1>3, <2>2, <3>1
    <2> HIDE DEF a, e, m
    <2>4. MTH(data, a, e) = HashNode(MTH(data, a, m), MTH(data, m, e))
        <3>1. Pow2[k] < e - a /\ e - a <= 2 * Pow2[k] /\ m = a + Pow2[k]
            BY <1>3, <2>3
        <3> QED BY <1>1, <2>3, <3>1, HashSplit
    <2>5. m <= end
        BY <1>1, <1>3, <2>2 DEF m
    <2>6. 2 * h # n
        BY <1>2, <1>5
    <2> QED BY <1>4, <2>4, <2>5, <2>6 DEF n
<1>6. CASE 2 * h = n
    <2>1. d * n = A
        BY <1>3, <1>6
    <2>2. end <= m
        BY <1>1, <1>2, <1>3, <2>1
    <2>3. e = end /\ (IF m <= end THEN m ELSE end) = end
        BY <1>1, <1>3, <2>2
    <2>4. ~(2 * h + 1 <= n)
        BY <1>2, <1>6
    <2> HIDE DEF a, e, m
    <2> QED BY <1>4, <2>3, <2>4 DEF n
<1> QED BY <1>5, <1>6 DEF n

(* If there is one block, it is the interval. *)
LEMMA OneBlock ==
    ASSUME NEW data, NEW end \in Nat, NEW start \in Nat, start < end, NEW k \in 0..W,
           LastBlock(start, end, k) = 0
    PROVE  Block(data, start, end, k, 0) = MTH(data, start, end)
<1>1. BlockEnd(start, end, k, 0) = end
    BY LastBlockEnds
<1>2. Pow2[k] * 0 = 0 /\ start + 0 = start
    BY Pow2Type
<1> QED BY <1>1, <1>2 DEF Block

(* A block left of the last one is complete. *)
LEMMA CompleteBlock ==
    ASSUME NEW start \in Nat, NEW end \in Nat, start < end, NEW k \in 0..W,
           NEW j \in Nat, j < LastBlock(start, end, k)
    PROVE  /\ start + Pow2[k] * (j + 1) < end
           /\ BlockEnd(start, end, k, j) = start + Pow2[k] * (j + 1)
<1> DEFINE d == Pow2[k]
           n == LastBlock(start, end, k)
<1>1. /\ n \in Nat /\ start + d * n < end /\ d \in Nat \ {0}
    BY LastBlockEnds, Pow2Type
<1>2. j + 1 = n \/ j + 1 < n
    BY <1>1
<1> HIDE DEF d, n
<1>3. j + 1 < n => d * (j + 1) + d <= d * n
    BY <1>1, Scaled
<1>4. d * n \in Nat /\ d * (j + 1) \in Nat
    BY <1>1
<1>5. d * (j + 1) <= d * n
    BY <1>1, <1>2, <1>3, <1>4
<1>6. start + d * (j + 1) < end
    BY <1>1, <1>4, <1>5
<1> QED BY <1>4, <1>6 DEF BlockEnd, d

-----------------------------------------------------------------------------
(* The tree's hashes *)

LEMMA TreeNodes ==
    ASSUME NEW data, Len(data) \in Words, NEW t, t = NewMerkleTree(data)
    PROVE  /\ Size(t) = Len(data)
           /\ \A k \in 0..W : \A j \in Nat :
                  Pow2[k] * (j + 1) <= Len(data)
                      => Node(t, k, j) = MTH(data, Pow2[k] * j, Pow2[k] * (j + 1))
<1> DEFINE levels == Levels(data)
           N      == Len(data)
           Short  == {k \in 0..W : Len(levels[k]) < 2}
           top    == Min(Short)
<1>1. /\ N \in Nat /\ N < Pow2[W] /\ 0 \in 0..W /\ W \in 0..W
    BY Pow2Type, WordWidth DEF Words
<1>2. ASSUME NEW k \in 0..W
      PROVE  /\ Len(levels[k]) = Shifted(N, k) /\ Shifted(N, k) \in Nat
             /\ \A j \in 0..(Shifted(N, k) - 1) :
                  levels[k][j + 1] = MTH(data, Pow2[k] * j, Pow2[k] * (j + 1))
    BY <1>1, LevelsAreHashes, Shifting
<1>3. t = [k \in 0..top |-> levels[k]]
    BY DEF NewMerkleTree
<1> HIDE DEF levels, N
<1>4. Short \in SUBSET Nat /\ Short # {}
    <2>1. Shifted(N, W) = 0
        BY <1>1, ShiftedAway
    <2>2. W \in Short
        BY <1>1, <1>2, <2>1
    <2> QED BY <2>2
<1>5. top \in Short
    <2> HIDE DEF Short
    <2> QED BY <1>4, MinIsSmallest
<1>6. top \in 0..W /\ Shifted(N, top) < 2
    BY <1>2, <1>5
<1> HIDE DEF Short, top
<1>7. Size(t) = N
    <2>1. t[0] = levels[0]
        BY <1>3, <1>6
    <2>2. Shifted(N, 0) = N
        BY <1>1, Shifting
    <2> QED BY <1>1, <1>2, <2>1, <2>2 DEF Size
<1>8. ASSUME NEW k \in 0..W, NEW j \in Nat, Pow2[k] * (j + 1) <= N
      PROVE  Node(t, k, j) = MTH(data, Pow2[k] * j, Pow2[k] * (j + 1))
    <2> DEFINE d == Pow2[k]
               q == Shifted(N, k)
    <2>1. /\ d \in Nat \ {0} /\ q \in Nat /\ N % d \in 0..(d - 1) /\ N = d * q + (N % d)
        BY <1>1, Shifting, Pow2Type
    <2>2. d * (j + 1) <= N
        BY <1>8
    <2>3. j < q
        <3> HIDE DEF d, q
        <3>1. q < j + 1 => d * q + d <= d * (j + 1)
            BY <2>1, Scaled
        <3>2. d * q \in Nat /\ d * (j + 1) \in Nat
            BY <2>1
        <3> QED BY <1>1, <2>1, <2>2, <3>1, <3>2
    <2>4. ASSUME top < k PROVE FALSE
        <3> DEFINE x == Shifted(N, top)
                   i == k - top
        <3>1. /\ x \in Nat /\ x < 2 /\ i \in 0..W /\ 0 < i /\ top + i = k /\ 0 \in 0..W
            BY <1>2, <1>6, <2>4, WordWidth
        <3>2. Shifted(x, i) = q
            BY <1>1, <1>6, <3>1, ShiftTwice
        <3> HIDE DEF x, i, q
        <3>3. Pow2[0] < Pow2[i] /\ Pow2[0] = 1 /\ Pow2[i] \in Nat
            BY <3>1, PowersAscend, Pow2Exists, Pow2Type
        <3>4. Shifted(x, i) = 0
            BY <3>1, <3>3, ShiftedAway
        <3> QED BY <2>3, <3>2, <3>4
    <2>5. k \in 0..top
        BY <1>6, <2>4, WordWidth
    <2>6. t[k] = levels[k]
        BY <1>3, <2>5
    <2>7. j \in 0..(q - 1)
        BY <2>1, <2>3
    <2> QED BY <1>2, <2>6, <2>7 DEF Node
<1> QED BY <1>7, <1>8 DEF N

(* The level at which a subtree is a single node: its first entry is a      *)
(* multiple of that power of two, and so of all the smaller ones.           *)
Height(start, end) == BitLen(end - start - 1)

LEMMA SubtreeShape ==
    ASSUME NEW end \in Words, NEW start \in 0..end, start < end, IsSubtree(start, end)
    PROVE  /\ Height(start, end) \in 0..W
           /\ LastBlock(start, end, Height(start, end)) = 0
           /\ \A k \in 0..W : k < Height(start, end) =>
                  /\ LastBlock(start, end, k) # 0
                  /\ ~Odd(Shifted(start, k))
           /\ \A k \in 0..Height(start, end) : start = Pow2[k] * Shifted(start, k)
<1> DEFINE n == end - start
           c == Height(start, end)
<1>1. /\ end \in Nat /\ start \in Nat /\ n \in Nat
      /\ n - 1 \in 0..(Pow2[W] - 1) /\ n - 1 \in Nat
    BY Pow2Type, WordWidth DEF Words
<1>2. /\ c \in 0..W /\ n - 1 < Pow2[c]
      /\ \A k \in 0..W : k < c => Pow2[k] <= n - 1
    <2>1. c = BitLen(n - 1)
        BY DEF Height
    <2> QED BY <1>1, <2>1, BitLength
<1>3. \A k \in 0..W : LastBlock(start, end, k) = Shifted(n - 1, k)
    BY DEF LastBlock
<1> HIDE DEF c
<1>4. LastBlock(start, end, c) = 0
    BY <1>1, <1>2, <1>3, ShiftedAway
<1>5. ASSUME NEW k \in 0..W, k < c PROVE LastBlock(start, end, k) # 0
    <2>1. Pow2[k] <= n - 1 /\ Pow2[k] \in Nat
        BY <1>2, <1>5, Pow2Type
    <2>2. ~(n - 1 < Pow2[k])
        BY <1>1, <2>1
    <2> QED BY <1>1, <1>3, <2>2, ShiftedAway
<1>6. BIT_CEIL(n) = Pow2[c]
    <2>1. n <= Pow2[c] /\ \A k \in 0..W : k < c => Pow2[k] < n
        BY <1>1, <1>2, Pow2Type
    <2> QED BY <1>1, <1>2, <2>1, Ceiling
<1>7. start % Pow2[c] = 0
    BY <1>6 DEF IsSubtree
<1>8. start = Pow2[c] * Shifted(start, c) /\ Shifted(start, c) \in Nat /\ c \in 0..W
    <2>1. /\ start = Pow2[c] * Shifted(start, c) + (start % Pow2[c])
          /\ Shifted(start, c) \in Nat
        BY <1>1, <1>2, Shifting
    <2>2. Pow2[c] * Shifted(start, c) \in Nat
        BY <1>2, <2>1, Pow2Type
    <2> QED BY <1>2, <1>7, <2>1, <2>2
<1>9. ASSUME NEW k \in 0..c PROVE start = Pow2[k] * Shifted(start, k)
    <2>1. k \in 0..W /\ c \in k..W
        BY <1>2, WordWidth
    <2>2. PICK p \in Nat \ {0} : Pow2[c] = Pow2[k] * p
        BY <2>1, PowersDivide
    <2>3. PICK q \in Nat : q = Shifted(start, c)
        BY <1>8
    <2>4. Pow2[k] \in Nat
        BY <2>1, Pow2Type
    <2>5. start = Pow2[k] * (p * q) /\ p * q \in Nat
        <3>1. start = (Pow2[k] * p) * q
            BY <1>8, <2>2, <2>3
        <3>2. p * q \in Nat
            OBVIOUS
        <3>3. (Pow2[k] * p) * q = Pow2[k] * (p * q)
            BY <2>4
        <3> QED BY <3>1, <3>2, <3>3
    <2>6. Shifted(start, k) = p * q
        <3>1. 0 \in Nat
            OBVIOUS
        <3> QED BY <2>1, <2>5, <3>1, ShiftOffset
    <2> QED BY <2>5, <2>6
<1>10. ASSUME NEW k \in 0..W, k < c PROVE ~Odd(Shifted(start, k))
    <2>1. /\ k + 1 \in 0..c /\ k + 1 \in 1..W /\ k + 1 \in 0..W /\ k \in 0..c
        BY <1>2, <1>10, WordWidth
    <2>2. PICK h \in Nat : h = Shifted(start, k + 1)
        BY <1>1, <2>1, Shifting
    <2>3. start = Pow2[k + 1] * h /\ Pow2[k + 1] = 2 * Pow2[k] /\ Pow2[k] \in Nat
        BY <1>9, <2>1, <2>2, Pow2Exists, Pow2Type
    <2>4. start = Pow2[k] * (2 * h) /\ 2 * h \in Nat
        <3>1. (2 * Pow2[k]) * h = Pow2[k] * (2 * h)
            BY <2>3
        <3> QED BY <2>3, <3>1
    <2>5. Shifted(start, k) = 2 * h
        <3>1. 0 \in Nat
            OBVIOUS
        <3> QED BY <2>4, <3>1, ShiftOffset
    <2>6. ~Odd(2 * h)
        BY DEF Odd
    <2> QED BY <2>5, <2>6
<1> QED BY <1>2, <1>4, <1>5, <1>9, <1>10 DEF c

(* Positions in the log against positions in the subtree. *)
LEMMA Relative ==
    ASSUME NEW end \in Words, NEW start \in 0..end, start < end, IsSubtree(start, end),
           NEW k \in 0..Height(start, end), NEW y \in Nat
    PROVE  /\ k \in 0..W
           /\ Shifted(start, k) \in Nat
           /\ Shifted(start + y, k) = Shifted(start, k) + Shifted(y, k)
           /\ Pow2[k] * (Shifted(start, k) + y) = start + Pow2[k] * y
           /\ k < Height(start, end) =>
                  (Odd(Shifted(start + y, k)) <=> Odd(Shifted(y, k)))
<1>1. start \in Nat
    OBVIOUS
<1>2. /\ Height(start, end) \in 0..W /\ start = Pow2[k] * Shifted(start, k)
      /\ k \in 0..W /\ (k < Height(start, end) => ~Odd(Shifted(start, k)))
    BY SubtreeShape, WordWidth
<1>3. PICK u \in Nat : u = Shifted(start, k)
    BY <1>1, <1>2, Shifting
<1>4. Shifted(start + y, k) = u + Shifted(y, k)
    BY <1>2, <1>3, ShiftOffset
<1>5. PICK v \in Nat : v = Shifted(y, k)
    BY <1>2, Shifting
<1>6. ~Odd(u) => (Odd(u + v) <=> Odd(v))
    BY DEF Odd
<1>7. Pow2[k] * (u + y) = Pow2[k] * u + Pow2[k] * y
    BY <1>2, Pow2Type
<1> QED BY <1>2, <1>3, <1>4, <1>5, <1>6, <1>7

LEMMA TopIsHeight ==
    ASSUME NEW end \in Words, NEW start \in 0..end, start < end, IsSubtree(start, end),
           NEW lowest \in 0..Height(start, end)
    PROVE  Top(lowest, start, end - 1) = Height(start, end)
<1> DEFINE c    == Height(start, end)
           y    == end - start - 1
           Meet == {k \in lowest..W : Shifted(start, k) >= Shifted(end - 1, k)}
<1>1. start \in Nat /\ end \in Nat /\ y \in Nat /\ start + y = end - 1
    BY Pow2Type, WordWidth DEF Words
<1>2. ASSUME NEW k \in 0..c
      PROVE  /\ Shifted(end - 1, k) = Shifted(start, k) + LastBlock(start, end, k)
             /\ Shifted(start, k) \in Nat
             /\ LastBlock(start, end, k) \in Nat /\ k \in 0..W
             /\ k < c => LastBlock(start, end, k) # 0
             /\ k = c => LastBlock(start, end, k) = 0
    <2>1. /\ k \in 0..W /\ Shifted(start, k) \in Nat
          /\ Shifted(start + y, k) = Shifted(start, k) + Shifted(y, k)
        BY <1>1, Relative
    <2>2. Shifted(y, k) = LastBlock(start, end, k)
        BY DEF LastBlock
    <2>3. LastBlock(start, end, k) \in Nat
        BY <1>1, <2>1, LastBlockEnds
    <2>4. /\ k < c => LastBlock(start, end, k) # 0
          /\ k = c => LastBlock(start, end, k) = 0
        BY <2>1, SubtreeShape
    <2> QED BY <1>1, <2>1, <2>2, <2>3, <2>4
<1>3. c \in 0..W
    BY SubtreeShape
<1> HIDE DEF c
<1>4. c \in Meet
    BY <1>2, <1>3, WordWidth DEF c
<1>5. ASSUME NEW k \in Meet, k < c PROVE FALSE
    <2>1. k \in 0..c
        BY <1>3, <1>5, WordWidth DEF c
    <2> QED BY <1>2, <1>5, <2>1
<1>6. Meet \in SUBSET Nat
    BY <1>3 DEF c
<1>7. Min(Meet) \in Meet /\ Min(Meet) <= c
    <2> HIDE DEF Meet
    <2> QED BY <1>4, <1>6, MinIsSmallest
<1>8. Min(Meet) = c
    <2>1. ~(Min(Meet) < c)
        BY <1>5, <1>7
    <2> QED BY <1>3, <1>6, <1>7, <2>1
<1> QED BY <1>8 DEF Top, c

(* The stored node of a complete block of a subtree. *)
LEMMA NodeOfBlock ==
    ASSUME NEW data, Len(data) \in Words, NEW t, t = NewMerkleTree(data),
           NEW end \in 0..Len(data), NEW start \in 0..end, start < end, IsSubtree(start, end),
           NEW k \in 0..Height(start, end), NEW j \in Nat,
           start + Pow2[k] * (j + 1) <= end
    PROVE  Node(t, k, Shifted(start, k) + j) = Block(data, start, end, k, j)
<1>1. /\ Len(data) \in Nat /\ end \in Words /\ end \in Nat /\ start \in Nat
    BY Pow2Type, WordWidth DEF Words
<1>2. /\ k \in 0..W /\ Shifted(start, k) \in Nat
      /\ Pow2[k] * (Shifted(start, k) + j) = start + Pow2[k] * j
    BY <1>1, Relative
<1>3. Pow2[k] * (Shifted(start, k) + (j + 1)) = start + Pow2[k] * (j + 1)
    <2>1. j + 1 \in Nat
        OBVIOUS
    <2> QED BY <1>1, <2>1, Relative
<1>4. PICK p \in Nat : p = Shifted(start, k) + j
    BY <1>2
<1>5. p + 1 = Shifted(start, k) + (j + 1)
    BY <1>2, <1>4
<1>6. PICK b : b = Pow2[k] * (j + 1)
    OBVIOUS
<1>7. b \in Nat
    <2>1. Pow2[k] \in Nat
        BY <1>2, Pow2Type
    <2>2. Pow2[k] * (j + 1) \in Nat
        BY <2>1
    <2> QED BY <1>6, <2>2
<1>8. Pow2[k] * (p + 1) = start + b /\ start + b <= end
    BY <1>3, <1>5, <1>6
<1>9. Pow2[k] * (p + 1) <= Len(data)
    BY <1>1, <1>7, <1>8
<1>10. Node(t, k, p) = MTH(data, Pow2[k] * p, Pow2[k] * (p + 1))
    BY <1>2, <1>9, TreeNodes
<1>11. BlockEnd(start, end, k, j) = start + Pow2[k] * (j + 1)
    BY DEF BlockEnd
<1> QED BY <1>2, <1>3, <1>4, <1>5, <1>10, <1>11 DEF Block

(* The climb begins at a level of the subtree. *)
LEMMA LowestLevel ==
    ASSUME NEW end \in Words, NEW start \in 0..end, start < end, IsSubtree(start, end),
           NEW lowest, lowest = TrailingOnes(end - start - 1)
    PROVE  lowest \in 0..Height(start, end)
<1> DEFINE c == Height(start, end)
<1>1. end - start - 1 \in Words
    BY Pow2Type, WordWidth DEF Words
<1>2. lowest \in 0..W /\ \A l \in 0..W : l < lowest => Odd(Shifted(end - start - 1, l))
    BY <1>1, TrailingOnesAre
<1>3. c \in 0..W /\ Shifted(end - start - 1, c) = 0
    BY SubtreeShape DEF LastBlock
<1>4. ASSUME c < lowest PROVE FALSE
    <2>1. Odd(0)
        BY <1>2, <1>3, <1>4
    <2> QED BY <2>1 DEF Odd
<1> QED BY <1>2, <1>3, <1>4, WordWidth

(* The climb along the right edge: on each level the hash of the last block. *)
LEMMA ClimbIsLastBlock ==
    ASSUME NEW data, Len(data) \in Words, NEW t, t = NewMerkleTree(data),
           NEW end \in 0..Len(data), NEW start \in 0..end, start < end, IsSubtree(start, end),
           NEW lowest, lowest = TrailingOnes(end - start - 1),
           NEW k \in lowest..Height(start, end)
    PROVE  Climb(t, lowest, end - 1)[k] = Block(data, start, end, k, LastBlock(start, end, k))
<1> DEFINE c     == Height(start, end)
           y     == end - start - 1
           ret   == Climb(t, lowest, end - 1)
           n(l)  == LastBlock(start, end, l)
           Other == {l \in lowest..c : ret[l] # Block(data, start, end, l, n(l))}
<1>1. /\ Len(data) \in Nat /\ end \in Words /\ end \in Nat /\ start \in Nat
      /\ y \in Nat /\ y \in Words /\ start + y = end - 1
    BY Pow2Type, WordWidth DEF Words
<1>2. /\ lowest \in 0..W
      /\ Pow2[lowest] * (Shifted(y, lowest) + 1) = y + 1
    BY <1>1, TrailingOnesAre
<1>3. /\ c \in 0..W /\ n(c) = 0
      /\ \A l \in 0..W : n(l) = Shifted(y, l)
    BY <1>1, SubtreeShape DEF LastBlock
<1>4. lowest \in 0..c
    BY <1>1, LowestLevel
<1>5. ASSUME NEW l \in 0..c
      PROVE  /\ l \in 0..W /\ n(l) \in Nat /\ Shifted(start, l) \in Nat
             /\ Shifted(end - 1, l) = Shifted(start, l) + n(l)
             /\ l < c => (Odd(Shifted(end - 1, l)) <=> Odd(n(l)))
             /\ start + Pow2[l] * n(l) < end
             /\ end <= start + Pow2[l] * n(l) + Pow2[l]
    <2>1. /\ l \in 0..W /\ Shifted(start, l) \in Nat
          /\ Shifted(start + y, l) = Shifted(start, l) + Shifted(y, l)
          /\ l < c => (Odd(Shifted(start + y, l)) <=> Odd(Shifted(y, l)))
        BY <1>1, Relative
    <2>2. n(l) = Shifted(y, l)
        BY <1>3, <2>1
    <2>3. /\ n(l) \in Nat
          /\ start + Pow2[l] * n(l) < end
          /\ end <= start + Pow2[l] * n(l) + Pow2[l]
        BY <1>1, <2>1, LastBlockEnds
    <2> HIDE DEF n, c
    <2> QED BY <1>1, <2>1, <2>2, <2>3
<1>6. \A l \in lowest..W :
          ret[l] = IF l = lowest THEN Node(t, l, Shifted(end - 1, l))
                   ELSE IF Odd(Shifted(end - 1, l - 1))
                        THEN HashNode(Node(t, l - 1, Shifted(end - 1, l - 1) - 1), ret[l - 1])
                        ELSE ret[l - 1]
    <2>1. PICK low \in 0..W : low = lowest
        BY <1>2
    <2>2. PICK last : last = end - 1
        OBVIOUS
    <2>3. \A l \in low..W :
              Climb(t, low, last)[l] =
                  IF l = low THEN Node(t, l, Shifted(last, l))
                  ELSE IF Odd(Shifted(last, l - 1))
                       THEN HashNode(Node(t, l - 1, Shifted(last, l - 1) - 1),
                                     Climb(t, low, last)[l - 1])
                       ELSE Climb(t, low, last)[l - 1]
        BY ClimbLoop
    <2> QED BY <2>1, <2>2, <2>3
<1> HIDE DEF ret, n, c
<1>7. ret[lowest] = Block(data, start, end, lowest, n(lowest))
    <2>1. ret[lowest] = Node(t, lowest, Shifted(end - 1, lowest))
        BY <1>2, <1>6, WordWidth
    <2>2. PICK j \in Nat : j = n(lowest)
        BY <1>4, <1>5
    <2>3. start + Pow2[lowest] * (j + 1) <= end
        <3>1. Pow2[lowest] * (j + 1) = y + 1
            BY <1>2, <1>3, <2>2
        <3> QED BY <1>1, <3>1
    <2>4. Shifted(end - 1, lowest) = Shifted(start, lowest) + j
        BY <1>4, <1>5, <2>2
    <2>5. Node(t, lowest, Shifted(start, lowest) + j) = Block(data, start, end, lowest, j)
        BY <1>1, <1>4, <2>3, NodeOfBlock DEF c
    <2> QED BY <2>1, <2>2, <2>4, <2>5
<1>8. ASSUME NEW l \in (lowest + 1)..c, ret[l - 1] = Block(data, start, end, l - 1, n(l - 1))
      PROVE  ret[l] = Block(data, start, end, l, n(l))
    <2>1. /\ l \in lowest..W /\ l # lowest /\ l - 1 \in 0..(W - 1) /\ l - 1 \in 0..c
          /\ l - 1 < c /\ l \in 0..c /\ (l - 1) + 1 = l
        BY <1>2, <1>3, <1>4, WordWidth
    <2>2. PICK p \in Nat : p = n(l - 1)
        BY <1>5, <2>1
    <2>3. PICK h \in Nat : h = n(l)
        BY <1>5, <2>1
    <2>4. /\ Odd(p) => p = 2 * h + 1
          /\ ~Odd(p) => p = 2 * h
        <3>1. /\ Odd(Shifted(y, l - 1)) => Shifted(y, l - 1) = 2 * Shifted(y, (l - 1) + 1) + 1
              /\ ~Odd(Shifted(y, l - 1)) => Shifted(y, l - 1) = 2 * Shifted(y, (l - 1) + 1)
            BY <1>1, <2>1, ShiftOnce
        <3>2. Shifted(y, l - 1) = p /\ Shifted(y, l) = h
            BY <1>3, <1>5, <2>1, <2>2, <2>3
        <3> QED BY <2>1, <3>1, <3>2
    <2>5. /\ Shifted(end - 1, l - 1) = Shifted(start, l - 1) + p
          /\ Shifted(start, l - 1) \in Nat
          /\ Odd(Shifted(end - 1, l - 1)) <=> Odd(p)
        BY <1>5, <2>1, <2>2
    <2>6. /\ 2 * h + 1 <= LastBlock(start, end, l - 1) =>
                  Block(data, start, end, (l - 1) + 1, h)
                      = HashNode(Block(data, start, end, l - 1, 2 * h),
                                 Block(data, start, end, l - 1, 2 * h + 1))
          /\ 2 * h = LastBlock(start, end, l - 1) =>
                  Block(data, start, end, (l - 1) + 1, h) = Block(data, start, end, l - 1, 2 * h)
        BY <2>1, BlocksJoin
    <2>7. LastBlock(start, end, l - 1) = p
        BY <2>2 DEF n
    <2>8. CASE Odd(p)
        <3>1. p = 2 * h + 1 /\ 2 * h \in Nat /\ 2 * h < p
            BY <2>4, <2>8
        <3>2. ret[l] = HashNode(Node(t, l - 1, Shifted(end - 1, l - 1) - 1), ret[l - 1])
            BY <1>6, <2>1, <2>5, <2>8
        <3>3. Shifted(end - 1, l - 1) - 1 = Shifted(start, l - 1) + 2 * h
            BY <2>5, <3>1
        <3>4. PICK j \in Nat : j = 2 * h
            BY <3>1
        <3>5. start + Pow2[l - 1] * (j + 1) <= end
            <4>1. start + Pow2[l - 1] * p < end /\ p = j + 1
                BY <1>5, <2>1, <2>2, <3>1, <3>4
            <4>2. Pow2[l - 1] * (j + 1) \in Nat
                <5>1. Pow2[l - 1] \in Nat
                    BY <1>5, <2>1, Pow2Type
                <5> QED BY <5>1
            <4> QED BY <1>1, <4>1, <4>2
        <3>6. Node(t, l - 1, Shifted(start, l - 1) + j) = Block(data, start, end, l - 1, j)
            BY <1>1, <2>1, <3>5, NodeOfBlock DEF c
        <3>7. Block(data, start, end, l, h) = HashNode(Block(data, start, end, l - 1, 2 * h),
                                                      Block(data, start, end, l - 1, 2 * h + 1))
            BY <2>1, <2>6, <2>7, <3>1
        <3> QED BY <1>8, <2>2, <2>3, <3>1, <3>2, <3>3, <3>4, <3>6, <3>7
    <2>9. CASE ~Odd(p)
        <3>1. p = 2 * h
            BY <2>4, <2>9
        <3>2. ret[l] = ret[l - 1]
            BY <1>6, <2>1, <2>5, <2>9
        <3>3. Block(data, start, end, l, h) = Block(data, start, end, l - 1, 2 * h)
            BY <2>1, <2>6, <2>7, <3>1
        <3> QED BY <1>8, <2>2, <2>3, <3>1, <3>2, <3>3
    <2> QED BY <2>8, <2>9
<1>9. Other = {}
    <2> SUFFICES ASSUME Other # {} PROVE FALSE
        OBVIOUS
    <2>1. Other \in SUBSET Nat
        BY <1>2, <1>3
    <2>2. PICK l \in Other : \A m \in Other : l <= m
        <3> HIDE DEF Other
        <3> QED BY <2>1, SmallestElement
    <2>3. l # lowest
        BY <1>7
    <2>4. l \in (lowest + 1)..c /\ l - 1 \in lowest..c /\ l - 1 \notin Other
        BY <1>2, <1>3, <2>2, <2>3
    <2>5. ret[l - 1] = Block(data, start, end, l - 1, n(l - 1))
        BY <2>4
    <2> QED BY <1>8, <2>4, <2>5
<1>10. k \in lowest..c /\ k \notin Other
    BY <1>9 DEF c
<1> QED BY <1>10 DEF ret, n, c

(* SubtreeHash computes the hash of RFC 9162 for every subtree of the tree. *)
LEMMA SubtreeHashes ==
    ASSUME NEW data, Len(data) \in Words, NEW t, t = NewMerkleTree(data),
           NEW end \in 0..Len(data), NEW start \in 0..end, IsSubtree(start, end)
    PROVE  SubtreeHash(t, start, end) = MTH(data, start, end)
<1> DEFINE c == Height(start, end)
<1>1. /\ Len(data) \in Nat /\ end \in Words /\ start \in Words /\ end \in Nat /\ start \in Nat
    BY Pow2Type, WordWidth DEF Words
<1>2. IsValidSubtree(start, end) /\ ~(end > Size(t))
    <2>1. IsValidSubtreeU64(start, end)
        BY <1>1, ValidityExact
    <2>2. Size(t) = Len(data)
        BY TreeNodes
    <2> QED BY <1>1, <2>1, <2>2 DEF IsValidSubtree
<1>3. CASE start = end
    <2>1. SubtreeHash(t, start, end) = HashEmpty
        BY <1>2, <1>3 DEF SubtreeHash
    <2> QED BY <1>3, <2>1, SmallHash
<1>4. CASE start # end
    <2>1. start < end
        BY <1>1, <1>4
    <2>2. c \in 0..W /\ LastBlock(start, end, c) = 0
        BY <1>1, <2>1, SubtreeShape
    <2>3. PICK lowest : lowest = TrailingOnes(end - start - 1)
        OBVIOUS
    <2>5. lowest \in 0..c
        BY <1>1, <2>1, <2>3, LowestLevel
    <2>6. c \in lowest..c
        BY <2>2, <2>5, WordWidth
    <2>7. Climb(t, lowest, end - 1)[c] = Block(data, start, end, c, LastBlock(start, end, c))
        BY <1>1, <2>1, <2>3, <2>6, ClimbIsLastBlock
    <2>8. Block(data, start, end, c, 0) = MTH(data, start, end)
        BY <1>1, <2>1, <2>2, OneBlock
    <2>9. Top(lowest, start, end - 1) = c
        BY <1>1, <2>1, <2>5, TopIsHeight
    <2>10. end - 1 - start = end - start - 1
        BY <1>1
    <2>11. SubtreeHash(t, start, end) = Climb(t, lowest, end - 1)[Top(lowest, start, end - 1)]
        BY <1>2, <1>4, <2>3, <2>10 DEF SubtreeHash
    <2> QED BY <2>2, <2>7, <2>8, <2>9, <2>11
<1> QED BY <1>3, <1>4

-----------------------------------------------------------------------------
(* The way of an entry up its subtree: y is its position in the subtree,    *)
(* Holding the block of a level it is in, which has a sibling unless it is  *)
(* the last one and has no neighbor on its left.                            *)

Holding(data, start, end, y, k) == Block(data, start, end, k, Shifted(y, k))

HasSibling(start, end, y, k) ==
    Odd(Shifted(y, k)) \/ Shifted(y, k) < LastBlock(start, end, k)

SiblingBlock(data, start, end, y, k) ==
    Block(data, start, end, k,
          IF Odd(Shifted(y, k)) THEN Shifted(y, k) - 1 ELSE Shifted(y, k) + 1)

LEMMA ShiftMonotone ==
    ASSUME NEW x \in Nat, NEW y \in Nat, x <= y, NEW k \in 0..W
    PROVE  Shifted(x, k) <= Shifted(y, k)
<1> DEFINE d == Pow2[k]
           p == Shifted(x, k)
           q == Shifted(y, k)
<1>1. /\ d \in Nat \ {0} /\ p \in Nat /\ q \in Nat
      /\ x % d \in 0..(d - 1) /\ x = d * p + (x % d)
      /\ y % d \in 0..(d - 1) /\ y = d * q + (y % d)
    BY Shifting, Pow2Type
<1> HIDE DEF d, p, q
<1>2. q < p => d * q + d <= d * p
    BY <1>1, Scaled
<1>3. d * q \in Nat /\ d * p \in Nat
    BY <1>1
<1>4. p <= q
    BY <1>1, <1>2, <1>3
<1> QED BY <1>4 DEF p, q

(* The lowest one of a number that is not zero. *)
LEMMA LowestOne ==
    ASSUME NEW y \in Words, y # 0
    PROVE  /\ TrailingZeros(y) \in 0..(W - 1)
           /\ Odd(Shifted(y, TrailingZeros(y)))
           /\ \A k \in 0..W : k < TrailingZeros(y) => ~Odd(Shifted(y, k))
<1> DEFINE Ones == {k \in 0..W : Odd(Shifted(y, k))}
           None == {k \in 0..W : Shifted(y, k) = 0}
<1>1. y \in Nat /\ W \in 0..W /\ 0 \in 0..W /\ y < Pow2[W]
    BY Pow2Type, WordWidth DEF Words
<1>2. None \in SUBSET Nat /\ None # {}
    BY <1>1, ShiftedAway
<1>3. PICK k \in None : \A m \in None : k <= m
    <2> HIDE DEF None
    <2> QED BY <1>2, SmallestElement
<1>4. k # 0
    BY <1>1, Shifting
<1>5. k - 1 \in 0..(W - 1) /\ k - 1 \in 0..W /\ (k - 1) + 1 = k /\ k - 1 \notin None
    BY <1>3, <1>4, WordWidth
<1>6. /\ Odd(Shifted(y, k - 1)) => Shifted(y, k - 1) = 2 * Shifted(y, k) + 1
      /\ ~Odd(Shifted(y, k - 1)) => Shifted(y, k - 1) = 2 * Shifted(y, k)
    BY <1>1, <1>5, ShiftOnce
<1>7. Shifted(y, k) = 0 /\ Shifted(y, k - 1) # 0
    BY <1>5
<1>8. k - 1 \in Ones
    BY <1>5, <1>6, <1>7
<1>9. Ones \in SUBSET Nat
    OBVIOUS
<1>10. Min(Ones) \in Ones /\ \A m \in Ones : Min(Ones) <= m
    <2> HIDE DEF Ones
    <2> QED BY <1>8, <1>9, MinIsSmallest
<1>11. TrailingZeros(y) = Min(Ones)
    BY DEF TrailingZeros, Shifted
<1>12. Min(Ones) \in 0..(W - 1)
    <2>1. Min(Ones) \in 0..W /\ Min(Ones) <= k - 1
        BY <1>8, <1>10
    <2> QED BY <1>5, <2>1, WordWidth
<1>13. \A m \in 0..W : m < Min(Ones) => m \notin Ones
    BY <1>10, WordWidth
<1> QED BY <1>10, <1>11, <1>12, <1>13

(* One level up. *)
LEMMA HoldingJoins ==
    ASSUME NEW data, Len(data) \in Words, NEW end \in 0..Len(data), NEW start \in 0..end,
           start < end, NEW y \in 0..(end - start - 1), NEW k \in 0..(W - 1)
    PROVE  IF HasSibling(start, end, y, k)
           THEN Holding(data, start, end, y, k + 1)
                    = IF Odd(Shifted(y, k))
                      THEN HashNode(SiblingBlock(data, start, end, y, k),
                                    Holding(data, start, end, y, k))
                      ELSE HashNode(Holding(data, start, end, y, k),
                                    SiblingBlock(data, start, end, y, k))
           ELSE /\ Holding(data, start, end, y, k + 1) = Holding(data, start, end, y, k)
                /\ Shifted(y, k) = LastBlock(start, end, k)
                /\ ~Odd(Shifted(y, k))
<1>1. start \in Nat /\ end \in Nat /\ y \in Nat /\ end - start - 1 \in Nat
    BY Pow2Type, WordWidth DEF Words
<1>2. PICK f : f = Shifted(y, k)
    OBVIOUS
<1>3. PICK h : h = Shifted(y, k + 1)
    OBVIOUS
<1>4. PICK n : n = LastBlock(start, end, k)
    OBVIOUS
<1>5. /\ f \in Nat /\ h \in Nat /\ n \in Nat /\ f <= n
      /\ Odd(f) => f = 2 * h + 1
      /\ ~Odd(f) => f = 2 * h
    <2>1. k \in 0..W /\ k + 1 \in 0..W
        BY WordWidth
    <2>2. Shifted(y, k) \in Nat /\ Shifted(y, k + 1) \in Nat /\ Shifted(end - start - 1, k) \in Nat
        BY <1>1, <2>1, Shifting
    <2>3. Shifted(y, k) <= Shifted(end - start - 1, k)
        BY <1>1, <2>1, ShiftMonotone
    <2>4. /\ Odd(Shifted(y, k)) => Shifted(y, k) = 2 * Shifted(y, k + 1) + 1
          /\ ~Odd(Shifted(y, k)) => Shifted(y, k) = 2 * Shifted(y, k + 1)
        BY <1>1, ShiftOnce
    <2> QED BY <1>2, <1>3, <1>4, <2>2, <2>3, <2>4 DEF LastBlock
<1> DEFINE B(l, j) == Block(data, start, end, l, j)
<1>6. /\ 2 * h + 1 <= n => B(k + 1, h) = HashNode(B(k, 2 * h), B(k, 2 * h + 1))
      /\ 2 * h = n => B(k + 1, h) = B(k, 2 * h)
    BY <1>4, <1>5, BlocksJoin
<1>7. /\ HasSibling(start, end, y, k) <=> Odd(f) \/ f < n
      /\ Holding(data, start, end, y, k + 1) = B(k + 1, h)
      /\ Holding(data, start, end, y, k) = B(k, f)
      /\ SiblingBlock(data, start, end, y, k) = B(k, IF Odd(f) THEN f - 1 ELSE f + 1)
    BY <1>2, <1>3, <1>4 DEF HasSibling, Holding, SiblingBlock
<1> HIDE DEF B
<1>8. CASE Odd(f)
    <2>1. f - 1 = 2 * h /\ 2 * h + 1 <= n /\ f = 2 * h + 1
        BY <1>5, <1>8
    <2> QED BY <1>2, <1>6, <1>7, <1>8, <2>1
<1>9. CASE ~Odd(f) /\ f < n
    <2>1. f = 2 * h /\ 2 * h + 1 <= n /\ f + 1 = 2 * h + 1
        BY <1>5, <1>9
    <2> QED BY <1>2, <1>6, <1>7, <1>9, <2>1
<1>10. CASE ~Odd(f) /\ ~(f < n)
    <2>1. f = 2 * h /\ f = n
        BY <1>5, <1>10
    <2> QED BY <1>2, <1>4, <1>6, <1>7, <1>10, <2>1
<1> QED BY <1>8, <1>9, <1>10

(* As long as there is no sibling the block stays the same. *)
LEMMA HoldingStays ==
    ASSUME NEW data, Len(data) \in Words, NEW end \in 0..Len(data), NEW start \in 0..end,
           start < end, NEW y \in 0..(end - start - 1), NEW j \in 0..W, NEW k \in j..W,
           \A i \in j..(k - 1) : ~HasSibling(start, end, y, i)
    PROVE  Holding(data, start, end, y, k) = Holding(data, start, end, y, j)
<1> DEFINE Same(i) == Holding(data, start, end, y, i) = Holding(data, start, end, y, j)
           Other == {i \in j..k : ~Same(i)}
<1>1. Other = {}
    <2> SUFFICES ASSUME Other # {} PROVE FALSE
        OBVIOUS
    <2>1. Other \in SUBSET Nat
        BY WordWidth
    <2>2. PICK i \in Other : \A m \in Other : i <= m
        <3> HIDE DEF Other
        <3> QED BY <2>1, SmallestElement
    <2>3. i # j
        OBVIOUS
    <2>4. /\ i - 1 \in j..(k - 1) /\ i - 1 \in j..k /\ i - 1 \in 0..(W - 1) /\ (i - 1) + 1 = i
          /\ i - 1 \notin Other
        BY <2>2, <2>3, WordWidth
    <2>5. ~HasSibling(start, end, y, i - 1)
        BY <2>4
    <2>6. Holding(data, start, end, y, (i - 1) + 1) = Holding(data, start, end, y, i - 1)
        BY <2>4, <2>5, HoldingJoins
    <2>7. Same(i - 1) /\ ~Same(i)
        BY <2>4
    <2> QED BY <2>4, <2>6, <2>7
<1>2. k \in j..k /\ k \notin Other
    <2>1. k \in j..k
        BY WordWidth
    <2> HIDE DEF Other
    <2> QED BY <1>1, <2>1
<1> QED BY <1>2

(* An element of the proof takes the verifier to the level above the next   *)
(* one with a sibling.                                                      *)
LEMMA VerifierShift ==
    ASSUME NEW end \in Words, NEW start \in 0..end, start < end,
           NEW y \in 0..(end - start - 1), NEW j \in 0..W,
           NEW f, f = Shifted(y, j), NEW n, n = LastBlock(start, end, j), n # 0,
           NEW shift, shift = IF Odd(f) \/ f = n THEN TrailingZeros(f) + 1 ELSE 1
    PROVE  \E k \in j..(W - 1) :
               /\ HasSibling(start, end, y, k)
               /\ \A i \in j..(k - 1) : ~HasSibling(start, end, y, i)
               /\ Shifted(f, shift) = Shifted(y, k + 1)
               /\ Shifted(n, shift) = LastBlock(start, end, k + 1)
               /\ Odd(Shifted(y, k)) <=> (Odd(f) \/ f = n)
               /\ shift = (k + 1) - j
<1> DEFINE z == end - start - 1
<1>1. /\ y \in Nat /\ z \in Nat /\ y <= z /\ z < Pow2[W] /\ Pow2[W] \in Nat /\ W \in 0..W
    BY Pow2Type, WordWidth DEF Words
<1>2. \A i \in 0..W : LastBlock(start, end, i) = Shifted(z, i)
    BY DEF LastBlock
<1> HIDE DEF z
<1>3. /\ f \in Nat /\ n \in Nat /\ f <= n /\ f \in Words
    <2>1. Shifted(y, j) \in Nat /\ Shifted(z, j) \in Nat /\ Shifted(y, j) <= Shifted(z, j)
        BY <1>1, Shifting, ShiftMonotone
    <2>2. Shifted(y, j) <= y
        <3> DEFINE d == Pow2[j]
                   q == Shifted(y, j)
        <3>1. d \in Nat \ {0} /\ q \in Nat /\ y % d \in 0..(d - 1) /\ y = d * q + (y % d)
            BY <1>1, Shifting, Pow2Type
        <3> HIDE DEF d, q
        <3>2. d * q \in Nat /\ q <= d * q
            BY <3>1
        <3>3. q <= y
            BY <1>1, <3>1, <3>2
        <3> QED BY <3>3 DEF q
    <2> QED BY <1>1, <1>2, <2>1, <2>2 DEF Words
<1>4. \A i \in 0..W : j + i <= W =>
          /\ Shifted(f, i) = Shifted(y, j + i)
          /\ Shifted(n, i) = LastBlock(start, end, j + i)
    <2> TAKE i \in 0..W
    <2> HAVE j + i <= W
    <2>1. Shifted(Shifted(y, j), i) = Shifted(y, j + i)
        BY <1>1, ShiftTwice
    <2>2. Shifted(Shifted(z, j), i) = Shifted(z, j + i)
        BY <1>1, ShiftTwice
    <2>3. j + i \in 0..W
        BY WordWidth
    <2> QED BY <1>2, <2>1, <2>2, <2>3
<1>5. j # W
    <2>1. Shifted(z, W) = 0
        BY <1>1, ShiftedAway
    <2> QED BY <1>1, <1>2, <2>1
<1>6. j \in 0..(W - 1) /\ 0 \in 0..W /\ 1 \in 0..W /\ j + 1 <= W /\ j + 0 = j
    BY <1>5, WordWidth
<1>7. CASE Odd(f) \/ f = n
    <2> DEFINE t == TrailingZeros(f)
    <2>1. f # 0
        BY <1>7 DEF Odd
    <2>2. /\ t \in 0..(W - 1) /\ Odd(Shifted(f, t))
          /\ \A i \in 0..W : i < t => ~Odd(Shifted(f, i))
        BY <1>3, <2>1, LowestOne
    <2>3. shift = t + 1
        BY <1>7
    <2> HIDE DEF t
    <2>4. ASSUME W <= j + t PROVE FALSE
        <3> DEFINE v == W - j
        <3>1. /\ v \in 0..W /\ j + v = W /\ v <= W /\ j + v <= W
              /\ t - v \in 0..W /\ v + (t - v) = t /\ v + (t - v) <= W
            BY <2>2, <2>4, WordWidth
        <3>2. Shifted(f, v) = Shifted(y, W)
            BY <1>4, <3>1
        <3>3. Shifted(y, W) = 0
            BY <1>1, ShiftedAway
        <3> HIDE DEF v
        <3>4. Shifted(Shifted(f, v), t - v) = Shifted(f, t)
            BY <1>3, <3>1, ShiftTwice
        <3>5. 0 \in Nat /\ 0 < Pow2[t - v]
            BY <3>1, Pow2Type
        <3>6. Shifted(0, t - v) = 0
            BY <3>1, <3>5, ShiftedAway
        <3>7. Shifted(f, t) = 0
            BY <3>2, <3>3, <3>4, <3>6
        <3>8. ~Odd(0)
            BY DEF Odd
        <3> QED BY <2>2, <3>7, <3>8
    <2>5. PICK k : k = j + t
        OBVIOUS
    <2>6. /\ k \in j..(W - 1) /\ t \in 0..W /\ j + t <= W /\ j + t = k
          /\ t + 1 \in 0..W /\ j + (t + 1) <= W /\ j + (t + 1) = k + 1
        BY <2>2, <2>4, <2>5, WordWidth
    <2>7. Odd(Shifted(y, k))
        BY <1>4, <2>2, <2>6
    <2>8. HasSibling(start, end, y, k)
        BY <2>7 DEF HasSibling
    <2>9. ASSUME NEW i \in j..(k - 1) PROVE ~HasSibling(start, end, y, i)
        <3>1. /\ i - j \in 0..W /\ j + (i - j) <= W /\ j + (i - j) = i /\ i - j < t /\ 0 < t
            BY <2>6, WordWidth
        <3>2. Shifted(y, i) = Shifted(f, i - j) /\ LastBlock(start, end, i) = Shifted(n, i - j)
            BY <1>4, <3>1
        <3>3. ~Odd(Shifted(f, i - j)) /\ ~Odd(Shifted(f, 0))
            BY <1>6, <2>2, <3>1
        <3>4. Shifted(f, 0) = f
            BY <1>3, <1>6, Shifting
        <3>5. f = n
            BY <1>7, <3>3, <3>4
        <3>6. Shifted(f, i - j) \in Nat
            BY <1>3, <3>1, Shifting
        <3> QED BY <3>2, <3>3, <3>5, <3>6 DEF HasSibling
    <2>10. Shifted(f, shift) = Shifted(y, k + 1) /\ Shifted(n, shift) = LastBlock(start, end, k + 1)
        BY <1>4, <2>3, <2>6
    <2>11. shift = (k + 1) - j
        BY <2>3, <2>6
    <2> QED BY <1>7, <2>6, <2>7, <2>8, <2>9, <2>10, <2>11
<1>8. CASE ~(Odd(f) \/ f = n)
    <2>1. shift = 1 /\ f < n
        BY <1>3, <1>8
    <2>2. Shifted(y, j) = f /\ LastBlock(start, end, j) = n
        OBVIOUS
    <2>3. HasSibling(start, end, y, j)
        BY <2>1, <2>2 DEF HasSibling
    <2>4. \A i \in j..(j - 1) : FALSE
        BY <1>6
    <2>5. Shifted(f, shift) = Shifted(y, j + 1) /\ Shifted(n, shift) = LastBlock(start, end, j + 1)
        BY <1>4, <1>6, <2>1
    <2>6. j \in j..(W - 1)
        BY <1>6
    <2>7. shift = (j + 1) - j
        BY <2>1
    <2> QED BY <1>8, <2>2, <2>3, <2>4, <2>5, <2>6, <2>7
<1> QED BY <1>7, <1>8

LEMMA VerifierStep ==
    ASSUME NEW end \in Words, NEW start \in 0..end, start < end,
           NEW y \in 0..(end - start - 1), NEW j \in 0..W,
           NEW f, f = Shifted(y, j), NEW n, n = LastBlock(start, end, j), n # 0,
           NEW shift, shift = IF Odd(f) \/ f = n THEN TrailingZeros(f) + 1 ELSE 1
    PROVE  \E k \in j..(W - 1) :
               /\ HasSibling(start, end, y, k)
               /\ \A i \in j..(k - 1) : ~HasSibling(start, end, y, i)
               /\ Shifted(f, shift) = Shifted(y, k + 1)
               /\ Shifted(n, shift) = LastBlock(start, end, k + 1)
               /\ Odd(Shifted(y, k)) <=> (Odd(f) \/ f = n)
BY VerifierShift

(* So the step goes past the next level with a sibling, whichever it is.    *)
LEMMA NextShift ==
    ASSUME NEW end \in Words, NEW start \in 0..end, start < end,
           NEW y \in 0..(end - start - 1), NEW j \in 0..W, NEW k \in j..(W - 1),
           HasSibling(start, end, y, k),
           \A i \in j..(k - 1) : ~HasSibling(start, end, y, i),
           NEW f, f = Shifted(y, j), NEW n, n = LastBlock(start, end, j), n # 0,
           NEW shift, shift = IF Odd(f) \/ f = n THEN TrailingZeros(f) + 1 ELSE 1
    PROVE  /\ Shifted(f, shift) = Shifted(y, k + 1)
           /\ Shifted(n, shift) = LastBlock(start, end, k + 1)
           /\ Odd(Shifted(y, k)) <=> (Odd(f) \/ f = n)
           /\ shift = (k + 1) - j
<1>1. PICK m \in j..(W - 1) :
          /\ HasSibling(start, end, y, m)
          /\ \A i \in j..(m - 1) : ~HasSibling(start, end, y, i)
          /\ Shifted(f, shift) = Shifted(y, m + 1)
          /\ Shifted(n, shift) = LastBlock(start, end, m + 1)
          /\ Odd(Shifted(y, m)) <=> (Odd(f) \/ f = n)
          /\ shift = (m + 1) - j
    BY VerifierShift
<1>2. ~(m < k) /\ ~(k < m)
    BY <1>1, WordWidth
<1>3. m = k
    BY <1>1, <1>2, WordWidth
<1> QED BY <1>1, <1>3

LEMMA NextSibling ==
    ASSUME NEW end \in Words, NEW start \in 0..end, start < end,
           NEW y \in 0..(end - start - 1), NEW j \in 0..W, NEW k \in j..(W - 1),
           HasSibling(start, end, y, k),
           \A i \in j..(k - 1) : ~HasSibling(start, end, y, i),
           NEW f, f = Shifted(y, j), NEW n, n = LastBlock(start, end, j), n # 0,
           NEW shift, shift = IF Odd(f) \/ f = n THEN TrailingZeros(f) + 1 ELSE 1
    PROVE  /\ Shifted(f, shift) = Shifted(y, k + 1)
           /\ Shifted(n, shift) = LastBlock(start, end, k + 1)
           /\ Odd(Shifted(y, k)) <=> (Odd(f) \/ f = n)
BY NextShift

(* The verifier's hash after such a step is that of the higher block if,    *)
(* and only if, the one before was that of the block below, the element     *)
(* being its sibling.                                                       *)
Joined(joins, element, hash) ==
    IF joins THEN HashNode(element, hash) ELSE HashNode(hash, element)

LEMMA JoinedBlocks ==
    ASSUME NEW data, Len(data) \in Words, NEW end \in 0..Len(data), NEW start \in 0..end,
           start < end, NEW y \in 0..(end - start - 1), NEW j \in 0..W, NEW k \in j..(W - 1),
           HasSibling(start, end, y, k),
           \A i \in j..(k - 1) : ~HasSibling(start, end, y, i),
           NEW joins, joins <=> Odd(Shifted(y, k)), NEW element, NEW hash
    PROVE  /\ Joined(joins, element, hash) = Holding(data, start, end, y, k + 1)
                  => hash = Holding(data, start, end, y, j)
           /\ Joined(joins, SiblingBlock(data, start, end, y, k), Holding(data, start, end, y, j))
                  = Holding(data, start, end, y, k + 1)
<1>1. k \in j..W /\ k \in 0..(W - 1)
    BY WordWidth
<1>2. Holding(data, start, end, y, k) = Holding(data, start, end, y, j)
    BY <1>1, HoldingStays
<1>3. Holding(data, start, end, y, k + 1)
          = IF Odd(Shifted(y, k))
            THEN HashNode(SiblingBlock(data, start, end, y, k), Holding(data, start, end, y, k))
            ELSE HashNode(Holding(data, start, end, y, k), SiblingBlock(data, start, end, y, k))
    BY <1>1, HoldingJoins
<1>4. \A a, b, c, d : HashNode(a, b) = HashNode(c, d) => a = c /\ b = d
    BY DEF HashNode
<1> QED BY <1>2, <1>3, <1>4 DEF Joined

(* And only if the element was its sibling.                                 *)
LEMMA JoinedElement ==
    ASSUME NEW data, Len(data) \in Words, NEW end \in 0..Len(data), NEW start \in 0..end,
           start < end, NEW y \in 0..(end - start - 1), NEW k \in 0..(W - 1),
           HasSibling(start, end, y, k),
           NEW joins, joins <=> Odd(Shifted(y, k)), NEW element, NEW hash
    PROVE  Joined(joins, element, hash) = Holding(data, start, end, y, k + 1)
                  => element = SiblingBlock(data, start, end, y, k)
<1>1. Holding(data, start, end, y, k + 1)
          = IF Odd(Shifted(y, k))
            THEN HashNode(SiblingBlock(data, start, end, y, k), Holding(data, start, end, y, k))
            ELSE HashNode(Holding(data, start, end, y, k), SiblingBlock(data, start, end, y, k))
    BY HoldingJoins
<1>2. \A a, b, c, d : HashNode(a, b) = HashNode(c, d) => a = c /\ b = d
    BY DEF HashNode
<1> QED BY <1>1, <1>2 DEF Joined

(* One element of the proof after the other. *)
FoldedBy(at, proof, y, z, hash) ==
    /\ at[0] = [fn |-> y, sn |-> z, r |-> hash, tooMany |-> FALSE]
    /\ \A i \in 1..Len(proof) :
           LET before == at[i - 1]
               joins  == Odd(before.fn) \/ before.fn = before.sn
               shift  == IF joins THEN TrailingZeros(before.fn) + 1 ELSE 1
           IN  /\ at[i].fn = Shifted(before.fn, shift)
               /\ at[i].sn = Shifted(before.sn, shift)
               /\ at[i].r = Joined(joins, proof[i], before.r)
               /\ at[i].tooMany = (before.tooMany \/ before.sn = 0)

LEMMA FoldSteps ==
    ASSUME NEW proof, Len(proof) \in Nat, NEW y, NEW z, NEW hash
    PROVE  FoldedBy(FoldPath(proof, y, z, hash), proof, y, z, hash)
<1> DEFINE at == FoldPath(proof, y, z, hash)
           M  == Len(proof)
<1>1. \A i \in 0..M :
          at[i] = IF i = 0
                  THEN [fn |-> y, sn |-> z, r |-> hash, tooMany |-> FALSE]
                  ELSE LET before == at[i - 1]
                           joins  == Odd(before.fn) \/ before.fn = before.sn
                           shift  == IF joins THEN TrailingZeros(before.fn) + 1 ELSE 1
                       IN  [fn |-> Shifted(before.fn, shift),
                            sn |-> Shifted(before.sn, shift),
                            r  |-> IF joins THEN HashNode(proof[i], before.r)
                                   ELSE HashNode(before.r, proof[i]),
                            tooMany |-> before.tooMany \/ before.sn = 0]
    BY FoldLoop
<1>2. M \in Nat /\ 0 \in 0..M
    OBVIOUS
<1> HIDE DEF at, M
<1>3. at[0] = [fn |-> y, sn |-> z, r |-> hash, tooMany |-> FALSE]
    BY <1>1, <1>2
<1>4. ASSUME NEW i \in 1..M
      PROVE  LET before == at[i - 1]
                 joins  == Odd(before.fn) \/ before.fn = before.sn
                 shift  == IF joins THEN TrailingZeros(before.fn) + 1 ELSE 1
             IN  /\ at[i].fn = Shifted(before.fn, shift)
                 /\ at[i].sn = Shifted(before.sn, shift)
                 /\ at[i].r = Joined(joins, proof[i], before.r)
                 /\ at[i].tooMany = (before.tooMany \/ before.sn = 0)
    <2> DEFINE before == at[i - 1]
               joins  == Odd(before.fn) \/ before.fn = before.sn
               shift  == IF joins THEN TrailingZeros(before.fn) + 1 ELSE 1
    <2>1. i \in 0..M /\ i # 0
        BY <1>2
    <2>2. at[i] = [fn |-> Shifted(before.fn, shift), sn |-> Shifted(before.sn, shift),
                   r  |-> IF joins THEN HashNode(proof[i], before.r)
                          ELSE HashNode(before.r, proof[i]),
                   tooMany |-> before.tooMany \/ before.sn = 0]
        BY <1>1, <2>1
    <2> HIDE DEF before, joins, shift
    <2>3. /\ at[i].fn = Shifted(before.fn, shift)
          /\ at[i].sn = Shifted(before.sn, shift)
        BY <2>2
    <2>4. at[i].r = Joined(joins, proof[i], before.r)
        BY <2>2 DEF Joined
    <2>5. at[i].tooMany = (before.tooMany \/ before.sn = 0)
        BY <2>2
    <2> QED BY <2>3, <2>4, <2>5 DEF before, joins, shift
<1> QED BY <1>3, <1>4 DEF FoldedBy, at, M

(* Whatever the proof, its fold ends in the subtree's hash only from the    *)
(* hash of the entry at that position.                                      *)
LEMMA FoldBinds ==
    ASSUME NEW data, Len(data) \in Words, NEW end \in 0..Len(data), NEW start \in 0..end,
           start < end, NEW y \in 0..(end - start - 1),
           NEW proof, Len(proof) \in Nat, NEW hash,
           NEW done, done = FoldPath(proof, y, end - start - 1, hash)[Len(proof)],
           ~done.tooMany, done.sn = 0, done.r = MTH(data, start, end)
    PROVE  hash = HashLeaf(data[start + y + 1])
<1> DEFINE at      == FoldPath(proof, y, end - start - 1, hash)
           M       == Len(proof)
           H(j)    == Holding(data, start, end, y, j)
           Good(i) == \/ at[i].tooMany
                      \/ \E j \in 0..W :
                             /\ at[i].fn = Shifted(y, j)
                             /\ at[i].sn = LastBlock(start, end, j)
                             /\ at[i].r = H(j) => hash = H(0)
           Other   == {i \in 0..M : ~Good(i)}
<1>1. /\ M \in Nat /\ end \in Words /\ start \in Nat /\ end \in Nat /\ y \in Nat
      /\ end - start - 1 \in Nat /\ 0 \in 0..W
    BY Pow2Type, WordWidth DEF Words
<1>2. /\ at[0] = [fn |-> y, sn |-> end - start - 1, r |-> hash, tooMany |-> FALSE]
      /\ \A i \in 1..M : LET before == at[i - 1]
                             joins  == Odd(before.fn) \/ before.fn = before.sn
                             shift  == IF joins THEN TrailingZeros(before.fn) + 1 ELSE 1
                         IN  /\ at[i].fn = Shifted(before.fn, shift)
                             /\ at[i].sn = Shifted(before.sn, shift)
                             /\ at[i].r = Joined(joins, proof[i], before.r)
                             /\ at[i].tooMany = (before.tooMany \/ before.sn = 0)
    <2>1. PICK z : z = end - start - 1
        OBVIOUS
    <2>2. FoldedBy(at, proof, y, z, hash)
        BY <1>1, <2>1, FoldSteps
    <2> QED BY <2>1, <2>2 DEF FoldedBy
<1> HIDE DEF at, M, H
<1>3. Good(0)
    <2>1. Shifted(y, 0) = y /\ LastBlock(start, end, 0) = end - start - 1
        BY <1>1, Shifting DEF LastBlock
    <2>2. at[0].r = H(0) => hash = H(0)
        BY <1>2
    <2>3. at[0].fn = y /\ at[0].sn = end - start - 1
        BY <1>2
    <2> QED BY <1>1, <2>1, <2>2, <2>3
<1>4. ASSUME NEW i \in 1..M, Good(i - 1) PROVE Good(i)
    <2> DEFINE before == at[i - 1]
               joins  == Odd(before.fn) \/ before.fn = before.sn
               shift  == IF joins THEN TrailingZeros(before.fn) + 1 ELSE 1
    <2>1. /\ at[i].fn = Shifted(before.fn, shift)
          /\ at[i].sn = Shifted(before.sn, shift)
          /\ at[i].r = Joined(joins, proof[i], before.r)
          /\ at[i].tooMany = (before.tooMany \/ before.sn = 0)
        BY <1>2
    <2>2. SUFFICES ASSUME ~at[i].tooMany PROVE Good(i)
        OBVIOUS
    <2>3. ~before.tooMany /\ before.sn # 0
        BY <2>1, <2>2
    <2>4. PICK j \in 0..W :
              /\ before.fn = Shifted(y, j)
              /\ before.sn = LastBlock(start, end, j)
              /\ before.r = H(j) => hash = H(0)
        BY <1>4, <2>3
    <2> HIDE DEF before, Good
    <2>5. PICK k \in j..(W - 1) :
              /\ HasSibling(start, end, y, k)
              /\ \A l \in j..(k - 1) : ~HasSibling(start, end, y, l)
              /\ Shifted(before.fn, shift) = Shifted(y, k + 1)
              /\ Shifted(before.sn, shift) = LastBlock(start, end, k + 1)
              /\ Odd(Shifted(y, k)) <=> (Odd(before.fn) \/ before.fn = before.sn)
        BY <1>1, <2>3, <2>4, VerifierStep
    <2>6. joins <=> Odd(Shifted(y, k))
        BY <2>5
    <2> HIDE DEF joins, shift
    <2>7. Joined(joins, proof[i], before.r) = H(k + 1) => before.r = H(j)
        <3>1. PICK element : element = proof[i]
            OBVIOUS
        <3>2. PICK old : old = before.r
            OBVIOUS
        <3>3. Joined(joins, element, old) = H(k + 1) => old = H(j)
            <4>1. /\ k \in j..(W - 1) /\ HasSibling(start, end, y, k)
                  /\ \A l \in j..(k - 1) : ~HasSibling(start, end, y, l)
                  /\ joins <=> Odd(Shifted(y, k))
                BY <2>5, <2>6
            <4>2. /\ Len(data) \in Words /\ end \in 0..Len(data) /\ start \in 0..end /\ start < end
                  /\ y \in 0..(end - start - 1) /\ j \in 0..W
                OBVIOUS
            <4>3. Joined(joins, element, old) = Holding(data, start, end, y, k + 1)
                      => old = Holding(data, start, end, y, j)
                BY ONLY <4>1, <4>2, JoinedBlocks
            <4> QED BY <4>3 DEF H
        <3> QED BY <3>1, <3>2, <3>3
    <2>8. k + 1 \in 0..W
        BY WordWidth
    <2>9. at[i].r = H(k + 1) => hash = H(0)
        BY <2>1, <2>4, <2>7
    <2> QED BY <2>1, <2>5, <2>8, <2>9 DEF Good
<1>5. Other = {}
    <2> SUFFICES ASSUME Other # {} PROVE FALSE
        OBVIOUS
    <2>1. Other \in SUBSET Nat
        BY <1>1
    <2>2. PICK i \in Other : \A m \in Other : i <= m
        <3> HIDE DEF Other
        <3> QED BY <2>1, SmallestElement
    <2> HIDE DEF Good
    <2>3. i # 0
        BY <1>3
    <2>4. i \in 1..M /\ i - 1 \in 0..M /\ i - 1 \notin Other
        BY <1>1, <2>2, <2>3
    <2>5. Good(i - 1)
        BY <2>4
    <2> QED BY <1>4, <2>4, <2>5
<1>6. Good(M)
    <2>1. M \in 0..M
        BY <1>1
    <2> HIDE DEF Good
    <2> QED BY <1>5, <2>1
<1>7. done = at[M]
    BY DEF at, M
<1>8. PICK j \in 0..W :
          /\ done.fn = Shifted(y, j) /\ done.sn = LastBlock(start, end, j)
          /\ done.r = H(j) => hash = H(0)
    BY <1>6, <1>7
<1>9. LastBlock(start, end, j) = 0
    BY <1>8
<1>10. Shifted(y, j) = 0
    <2>1. Shifted(y, j) <= Shifted(end - start - 1, j)
        BY <1>1, ShiftMonotone
    <2>2. Shifted(y, j) \in Nat
        BY <1>1, Shifting
    <2> QED BY <1>9, <2>1, <2>2 DEF LastBlock
<1>11. H(j) = MTH(data, start, end)
    <2>1. Block(data, start, end, j, 0) = MTH(data, start, end)
        BY <1>1, <1>9, OneBlock
    <2> QED BY <1>10, <2>1 DEF H, Holding
<1>12. H(0) = HashLeaf(data[start + y + 1])
    <2>1. Shifted(y, 0) = y
        BY <1>1, Shifting
    <2>2. Block(data, start, end, 0, y) = HashLeaf(data[start + y + 1])
        BY BlockOfOne
    <2> QED BY <2>1, <2>2 DEF H, Holding
<1> QED BY <1>8, <1>11, <1>12

(* What the log puts into the proof for a level. *)
LEMMA SiblingIs ==
    ASSUME NEW data, Len(data) \in Words, NEW t, t = NewMerkleTree(data),
           NEW end \in 0..Len(data), NEW start \in 0..end, start < end, IsSubtree(start, end),
           NEW y \in 0..(end - start - 1), NEW k \in 0..Height(start, end),
           k < Height(start, end), NEW index, index = start + y
    PROVE  Sibling(t, index, end, k) =
               IF HasSibling(start, end, y, k)
               THEN <<SiblingBlock(data, start, end, y, k)>> ELSE <<>>
<1> DEFINE z == end - start - 1
<1>1. /\ Len(data) \in Nat /\ end \in Words /\ start \in Nat /\ end \in Nat /\ y \in Nat
      /\ z \in Nat /\ y <= z /\ start + z = end - 1
    BY Pow2Type, WordWidth DEF Words
<1>2. /\ k \in 0..W /\ Shifted(start, k) \in Nat
      /\ Shifted(start + y, k) = Shifted(start, k) + Shifted(y, k)
      /\ Odd(Shifted(start + y, k)) <=> Odd(Shifted(y, k))
    BY <1>1, Relative
<1>3. Shifted(start + z, k) = Shifted(start, k) + Shifted(z, k)
    BY <1>1, Relative
<1>4. PICK u : u = Shifted(start, k)
    OBVIOUS
<1>5. PICK f : f = Shifted(y, k)
    OBVIOUS
<1>6. PICK n : n = LastBlock(start, end, k)
    OBVIOUS
<1>7. n = Shifted(z, k)
    BY <1>6 DEF LastBlock
<1> HIDE DEF z
<1>8. u \in Nat /\ f \in Nat /\ n \in Nat /\ f <= n
    <2>1. Shifted(y, k) \in Nat /\ Shifted(z, k) \in Nat
        BY <1>1, <1>2, Shifting
    <2>2. Shifted(y, k) <= Shifted(z, k)
        BY <1>1, <1>2, ShiftMonotone
    <2> QED BY <1>2, <1>4, <1>5, <1>7, <2>1, <2>2
<1>9. PICK neighbor : neighbor = IF Odd(f) THEN u + f - 1 ELSE u + f + 1
    OBVIOUS
<1>10. Sibling(t, index, end, k) =
           IF neighbor < u + n THEN <<Node(t, k, neighbor)>>
           ELSE IF neighbor = u + n THEN <<SubtreeHash(t, (u + n) * Pow2[k], end)>>
           ELSE <<>>
    <2>1. Shifted(index, k) = u + f /\ (Odd(Shifted(index, k)) <=> Odd(f))
        BY <1>2, <1>4, <1>5
    <2>2. Shifted(end - 1, k) = u + n
        BY <1>1, <1>3, <1>4, <1>7
    <2>3. PICK here : here = Shifted(index, k)
        OBVIOUS
    <2>4. neighbor = IF Odd(here) THEN here - 1 ELSE here + 1
        <3>1. here = u + f /\ (Odd(here) <=> Odd(f))
            BY <2>1, <2>3
        <3>2. here - 1 = u + f - 1 /\ here + 1 = u + f + 1
            BY <1>8, <3>1
        <3>3. CASE Odd(f)
            BY <1>9, <3>1, <3>2, <3>3, Zenon
        <3>4. CASE ~Odd(f)
            BY <1>9, <3>1, <3>2, <3>4, Zenon
        <3> QED BY <3>3, <3>4
    <2>5. PICK last : last = Shifted(end - 1, k)
        OBVIOUS
    <2>6. Sibling(t, index, end, k) =
              IF neighbor < last THEN <<Node(t, k, neighbor)>>
              ELSE IF neighbor = last THEN <<SubtreeHash(t, last * Pow2[k], end)>>
              ELSE <<>>
        BY <2>3, <2>4, <2>5 DEF Sibling
    <2> QED BY <2>2, <2>5, <2>6
<1> DEFINE B(j) == Block(data, start, end, k, j)
<1>11. /\ HasSibling(start, end, y, k) <=> (Odd(f) \/ f < n)
       /\ SiblingBlock(data, start, end, y, k) = B(IF Odd(f) THEN f - 1 ELSE f + 1)
    BY <1>5, <1>6 DEF HasSibling, SiblingBlock
<1>12. ASSUME NEW j \in Nat, j < n PROVE Node(t, k, u + j) = B(j)
    <2>1. start + Pow2[k] * (j + 1) < end
        BY <1>1, <1>2, <1>6, <1>12, CompleteBlock
    <2>2. Pow2[k] * (j + 1) \in Nat
        <3>1. Pow2[k] \in Nat
            BY <1>2, Pow2Type
        <3> QED BY <3>1
    <2>3. start + Pow2[k] * (j + 1) <= end
        BY <1>1, <2>1, <2>2
    <2>4. Node(t, k, Shifted(start, k) + j) = B(j)
        BY <2>3, NodeOfBlock
    <2> QED BY <1>4, <2>4
<1>13. SubtreeHash(t, (u + n) * Pow2[k], end) = B(n)
    <2>1. /\ start + Pow2[k] * n < end /\ end <= start + Pow2[k] * n + Pow2[k]
          /\ BlockEnd(start, end, k, n) = end
        BY <1>1, <1>2, <1>6, LastBlockEnds
    <2>2. Pow2[k] * (u + n) = start + Pow2[k] * n
        BY <1>1, <1>4, <1>8, Relative
    <2>3. PICK a : a = start + Pow2[k] * n
        OBVIOUS
    <2>4. Pow2[k] \in Nat \ {0}
        BY <1>2, Pow2Type
    <2>5. a \in Nat
        <3>1. Pow2[k] * n \in Nat
            BY <1>8, <2>4
        <3> QED BY <1>1, <2>3, <3>1
    <2>6. (u + n) * Pow2[k] = a
        <3>1. u + n \in Nat
            BY <1>8
        <3>2. (u + n) * Pow2[k] = Pow2[k] * (u + n)
            BY <2>4, <3>1
        <3> QED BY <2>2, <2>3, <3>2
    <2>7. /\ end - a \in 1..Pow2[k] /\ a + (end - a) = end /\ a \in 0..end
        BY <1>1, <2>1, <2>3, <2>4, <2>5
    <2>8. IsSubtree(a, a + (end - a))
        <3>1. u + n \in Nat /\ a = Pow2[k] * (u + n)
            BY <1>8, <2>2, <2>3
        <3> QED BY <1>2, <2>7, <3>1, FirstElements
    <2>9. SubtreeHash(t, a, end) = MTH(data, a, end)
        BY <2>7, <2>8, SubtreeHashes
    <2> QED BY <2>1, <2>3, <2>6, <2>9 DEF Block
<1> HIDE DEF B
<1>14. CASE Odd(f)
    <2>1. f - 1 \in Nat /\ f - 1 < n /\ neighbor = u + (f - 1) /\ neighbor < u + n
        BY <1>8, <1>9, <1>14 DEF Odd
    <2>2. Node(t, k, u + (f - 1)) = B(f - 1)
        BY <1>12, <2>1
    <2> QED BY <1>10, <1>11, <1>14, <2>1, <2>2
<1>15. CASE ~Odd(f) /\ f + 1 < n
    <2>1. f + 1 \in Nat /\ neighbor = u + (f + 1) /\ neighbor < u + n /\ f < n
        BY <1>8, <1>9, <1>15
    <2>2. Node(t, k, u + (f + 1)) = B(f + 1)
        BY <1>12, <1>15, <2>1
    <2> QED BY <1>10, <1>11, <1>15, <2>1, <2>2
<1>16. CASE ~Odd(f) /\ f + 1 = n
    <2>1. neighbor = u + n /\ ~(neighbor < u + n) /\ f < n
        BY <1>8, <1>9, <1>16
    <2> QED BY <1>10, <1>11, <1>13, <1>16, <2>1
<1>17. CASE ~Odd(f) /\ f = n
    <2>1. neighbor # u + n /\ ~(neighbor < u + n) /\ ~(f < n)
        BY <1>8, <1>9, <1>17
    <2> QED BY <1>10, <1>11, <1>17, <2>1
<1>18. f + 1 < n \/ f + 1 = n \/ f = n
    BY <1>8
<1> QED BY <1>14, <1>15, <1>16, <1>17, <1>18

(* A path that grows, level by level, at its end: every part of it is the   *)
(* beginning of the whole.                                                  *)
Grows(S, lo, hi, path, has, el) ==
    \A k \in lo..hi : k < hi =>
        /\ el[k] \in S
        /\ path[k + 1] = IF has[k] THEN Append(path[k], el[k]) ELSE path[k]

Grown(S, lo, hi, path, has, el) ==
    \A k \in lo..hi :
        /\ path[k] \in Seq(S) /\ Len(path[k]) \in Nat
        /\ Len(path[k]) <= Len(path[hi])
        /\ \A i \in 1..Len(path[k]) : path[hi][i] = path[k][i]
        /\ k < hi => IF has[k] THEN /\ Len(path[k + 1]) = Len(path[k]) + 1
                                    /\ path[hi][Len(path[k]) + 1] = el[k]
                     ELSE Len(path[k + 1]) = Len(path[k])

LEMMA GrowingPath ==
    ASSUME NEW S, NEW lo \in Nat, NEW hi \in Nat, lo <= hi,
           NEW path, NEW has, NEW el, path[lo] \in Seq(S),
           Grows(S, lo, hi, path, has, el)
    PROVE  Grown(S, lo, hi, path, has, el)
<1> DEFINE Keeps(k) == /\ Len(path[k]) <= Len(path[hi])
                       /\ \A i \in 1..Len(path[k]) : path[hi][i] = path[k][i]
           NoSeq == {k \in lo..hi : path[k] \notin Seq(S)}
           Other == {l \in 0..(hi - lo) : ~Keeps(hi - l)}
<1>1. NoSeq = {}
    <2> SUFFICES ASSUME NoSeq # {} PROVE FALSE
        OBVIOUS
    <2>1. NoSeq \in SUBSET Nat
        OBVIOUS
    <2>2. PICK k \in NoSeq : \A m \in NoSeq : k <= m
        <3> HIDE DEF NoSeq
        <3> QED BY <2>1, SmallestElement
    <2>3. k # lo
        OBVIOUS
    <2>4. k - 1 \in lo..hi /\ k - 1 < hi /\ (k - 1) + 1 = k /\ k - 1 \notin NoSeq
        BY <2>2, <2>3
    <2>5. path[k - 1] \in Seq(S)
        BY <2>4
    <2>6. PICK s \in Seq(S) : s = path[k - 1]
        BY <2>5
    <2>7. PICK e : e = el[k - 1]
        OBVIOUS
    <2>8. e \in S /\ path[k] = IF has[k - 1] THEN Append(s, e) ELSE s
        BY <2>4, <2>6, <2>7 DEF Grows
    <2>9. Append(s, e) \in Seq(S)
        BY <2>8, AppendProperties
    <2> QED BY <2>8, <2>9
<1>2. \A k \in lo..hi : path[k] \in Seq(S) /\ Len(path[k]) \in Nat
    BY <1>1, LenProperties
<1>3. ASSUME NEW k \in lo..hi, k < hi
      PROVE  IF has[k]
             THEN /\ Len(path[k + 1]) = Len(path[k]) + 1
                  /\ path[k + 1][Len(path[k]) + 1] = el[k]
                  /\ \A i \in 1..Len(path[k]) : path[k + 1][i] = path[k][i]
             ELSE path[k + 1] = path[k]
    <2>1. CASE has[k]
        <3>1. PICK s \in Seq(S) : s = path[k]
            BY <1>2
        <3>2. PICK e \in S : e = el[k]
            BY <1>3 DEF Grows
        <3>3. /\ Len(Append(s, e)) = Len(s) + 1
              /\ \A i \in 1..Len(s) : Append(s, e)[i] = s[i]
              /\ Append(s, e)[Len(s) + 1] = e
            BY AppendProperties
        <3>4. path[k + 1] = Append(s, e)
            BY <1>3, <2>1, <3>1, <3>2 DEF Grows
        <3> QED BY <2>1, <3>1, <3>2, <3>3, <3>4
    <2>2. CASE ~has[k]
        BY <1>3, <2>2 DEF Grows
    <2> QED BY <2>1, <2>2
<1>4. ASSUME NEW k \in lo..hi, k < hi, Keeps(k + 1) PROVE Keeps(k)
    <2>1. /\ k + 1 \in lo..hi /\ hi \in lo..hi
          /\ Len(path[k]) \in Nat /\ Len(path[k + 1]) \in Nat /\ Len(path[hi]) \in Nat
        BY <1>2, <1>4
    <2>2. CASE has[k]
        BY <1>3, <1>4, <2>1, <2>2
    <2>3. CASE ~has[k]
        BY <1>3, <1>4, <2>3
    <2> QED BY <2>2, <2>3
<1>5. Keeps(hi)
    BY <1>2
<1>6. Other = {}
    <2> SUFFICES ASSUME Other # {} PROVE FALSE
        OBVIOUS
    <2> HIDE DEF Keeps
    <2>1. Other \in SUBSET Nat
        OBVIOUS
    <2>2. PICK l \in Other : \A m \in Other : l <= m
        <3> HIDE DEF Other
        <3> QED BY <2>1, SmallestElement
    <2>3. l # 0
        BY <1>5
    <2>4. l \in 1..(hi - lo)
        BY <2>3
    <2>5. /\ l - 1 \in 0..(hi - lo) /\ ~(l <= l - 1)
          /\ hi - l \in lo..hi /\ hi - l < hi /\ hi - (l - 1) = (hi - l) + 1
        <3> HIDE DEF Other
        <3> QED BY <2>4
    <2>6. l - 1 \notin Other
        <3> HIDE DEF Other
        <3> QED BY <2>2, <2>5
    <2>7. Keeps((hi - l) + 1)
        BY <2>5, <2>6
    <2>8. ~Keeps(hi - l)
        OBVIOUS
    <2> QED BY <1>4, <2>5, <2>7, <2>8
<1>7. ASSUME NEW k \in lo..hi PROVE Keeps(k)
    <2> HIDE DEF Keeps
    <2>1. hi - k \in 0..(hi - lo) /\ hi - (hi - k) = k
        OBVIOUS
    <2>2. Keeps(hi - (hi - k))
        BY <1>6, <2>1
    <2> QED BY <2>1, <2>2
<1>8. ASSUME NEW k \in lo..hi, k < hi
      PROVE  IF has[k] THEN Len(path[k + 1]) = Len(path[k]) + 1 /\ path[hi][Len(path[k]) + 1] = el[k]
             ELSE Len(path[k + 1]) = Len(path[k])
    <2>1. CASE has[k]
        <3>1. k + 1 \in lo..hi
            BY <1>8
        <3>2. PICK l \in Nat : l = Len(path[k])
            BY <1>2
        <3>3. Len(path[k + 1]) = l + 1 /\ path[k + 1][l + 1] = el[k]
            BY <1>3, <1>8, <2>1, <3>2
        <3>4. \A i \in 1..Len(path[k + 1]) : path[hi][i] = path[k + 1][i]
            BY <1>7, <3>1
        <3>5. path[hi][l + 1] = path[k + 1][l + 1]
            BY <3>2, <3>3, <3>4
        <3> QED BY <2>1, <3>2, <3>3, <3>5
    <2>2. CASE ~has[k]
        BY <1>3, <1>8, <2>2
    <2> QED BY <2>1, <2>2
<1> QED BY <1>2, <1>7, <1>8 DEF Grown

(* The blocks of an interval, a set for the proofs' sequences to be of. *)
BlocksOf(data, start, end) == {Block(data, start, end, k, j) : k \in 0..W, j \in Nat}

PathOf(data, start, end, y, path) ==
    /\ path[0] = <<>>
    /\ \A k \in 0..Height(start, end) :
           /\ path[k] \in Seq(BlocksOf(data, start, end))
           /\ k < Height(start, end) =>
                  path[k + 1] = IF HasSibling(start, end, y, k)
                                THEN Append(path[k], SiblingBlock(data, start, end, y, k))
                                ELSE path[k]

LEMMA PathGrows ==
    ASSUME NEW data, Len(data) \in Words, NEW t, t = NewMerkleTree(data),
           NEW end \in 0..Len(data), NEW start \in 0..end, start < end, IsSubtree(start, end),
           NEW y \in 0..(end - start - 1), NEW index, index = start + y
    PROVE  PathOf(data, start, end, y, SiblingPath(t, index, end))
<1> DEFINE path  == SiblingPath(t, index, end)
           S     == BlocksOf(data, start, end)
           c     == Height(start, end)
           b(k)  == SiblingBlock(data, start, end, y, k)
           Other == {k \in 0..c : path[k] \notin Seq(S)}
<1>1. /\ end \in Words /\ y \in Nat
    BY Pow2Type, WordWidth DEF Words
<1>2. c \in 0..W
    BY <1>1, SubtreeShape
<1>3. \A k \in 0..W : path[k] = IF k = 0 THEN <<>>
                                ELSE path[k - 1] \o Sibling(t, index, end, k - 1)
    BY SiblingLoop
<1>4. ASSUME NEW k \in 0..c, k < c
      PROVE  /\ Sibling(t, index, end, k) = IF HasSibling(start, end, y, k) THEN <<b(k)>> ELSE <<>>
             /\ b(k) \in S
    <2>1. Sibling(t, index, end, k) = IF HasSibling(start, end, y, k) THEN <<b(k)>> ELSE <<>>
        BY <1>4, SiblingIs
    <2>2. k \in 0..W
        BY <1>2, WordWidth
    <2>3. Shifted(y, k) \in Nat
        BY <1>1, <2>2, Shifting
    <2>4. (IF Odd(Shifted(y, k)) THEN Shifted(y, k) - 1 ELSE Shifted(y, k) + 1) \in Nat
        BY <2>3 DEF Odd
    <2>5. b(k) \in S
        BY <2>2, <2>4 DEF SiblingBlock, BlocksOf
    <2> QED BY <2>1, <2>5
<1> HIDE DEF path, S, c, b
<1>5. path[0] = <<>>
    <2>1. 0 \in 0..W
        BY WordWidth
    <2> QED BY <1>3, <2>1
<1>6. ASSUME NEW k \in 0..c, k < c, path[k] \in Seq(S)
      PROVE  /\ path[k + 1] \in Seq(S)
             /\ path[k + 1] = IF HasSibling(start, end, y, k) THEN Append(path[k], b(k)) ELSE path[k]
    <2>1. k + 1 \in 0..W /\ k + 1 # 0 /\ (k + 1) - 1 = k
        BY <1>2, <1>6, WordWidth
    <2>2. path[k + 1] = path[k] \o Sibling(t, index, end, k)
        BY <1>3, <2>1
    <2>3. CASE HasSibling(start, end, y, k)
        <3>1. path[k + 1] = path[k] \o <<b(k)>> /\ b(k) \in S
            BY <1>4, <1>6, <2>2, <2>3
        <3>2. Append(path[k], b(k)) = path[k] \o <<b(k)>> /\ Append(path[k], b(k)) \in Seq(S)
            BY <1>6, <3>1, AppendIsConcat, AppendProperties
        <3> QED BY <2>3, <3>1, <3>2
    <2>4. CASE ~HasSibling(start, end, y, k)
        <3>1. path[k + 1] = path[k] \o <<>>
            BY <1>4, <1>6, <2>2, <2>4
        <3>2. path[k] \o <<>> = path[k]
            BY <1>6, ConcatEmptySeq
        <3> QED BY <1>6, <2>4, <3>1, <3>2
    <2> QED BY <2>3, <2>4
<1>7. Other = {}
    <2> SUFFICES ASSUME Other # {} PROVE FALSE
        OBVIOUS
    <2>1. Other \in SUBSET Nat
        BY <1>2
    <2>2. PICK k \in Other : \A m \in Other : k <= m
        <3> HIDE DEF Other
        <3> QED BY <2>1, SmallestElement
    <2>3. k # 0
        BY <1>5, EmptySeq
    <2>4. k - 1 \in 0..c /\ k - 1 < c /\ (k - 1) + 1 = k /\ k - 1 \notin Other
        BY <1>2, <2>2, <2>3
    <2>5. path[k - 1] \in Seq(S)
        BY <2>4
    <2>6. path[(k - 1) + 1] \in Seq(S)
        BY <1>6, <2>4, <2>5
    <2> QED BY <2>4, <2>6
<1>8. \A k \in 0..c : path[k] \in Seq(S)
    BY <1>7
<1> QED BY <1>5, <1>6, <1>8 DEF PathOf, path, S, c, b

(* A proof that has the sibling block of every level that has one, the      *)
(* first reached[k] elements being those of the levels below k.             *)
LevelByLevel(data, start, end, y, proof, reached) ==
    /\ reached[0] = 0
    /\ reached[Height(start, end)] = Len(proof)
    /\ \A k \in 0..Height(start, end) :
           /\ reached[k] \in Nat
           /\ reached[k] <= Len(proof)
           /\ k < Height(start, end) =>
                  IF HasSibling(start, end, y, k)
                  THEN /\ reached[k + 1] = reached[k] + 1
                       /\ proof[reached[k] + 1] = SiblingBlock(data, start, end, y, k)
                  ELSE reached[k + 1] = reached[k]

(* The path up to a level is the first part of the whole proof.             *)
LEMMA PathElements ==
    ASSUME NEW data, Len(data) \in Words, NEW t, t = NewMerkleTree(data),
           NEW end \in 0..Len(data), NEW start \in 0..end, start < end, IsSubtree(start, end),
           NEW y \in 0..(end - start - 1), NEW index, index = start + y
    PROVE  LET path  == SiblingPath(t, index, end)
               proof == path[Height(start, end)]
           IN  /\ Len(proof) \in Nat
               /\ LevelByLevel(data, start, end, y, proof,
                               [k \in 0..Height(start, end) |-> Len(path[k])])
<1> DEFINE S == BlocksOf(data, start, end)
           c == Height(start, end)
<1>1. c \in 0..W /\ W \in Nat /\ end \in Words /\ start \in Words /\ y \in Nat
    <2>1. end \in Words /\ start \in Words /\ y \in Nat
        BY Pow2Type, WordWidth DEF Words
    <2> QED BY <2>1, SubtreeShape, WordWidth
<1>2. PICK path : path = SiblingPath(t, index, end)
    OBVIOUS
<1>3. PathOf(data, start, end, y, path)
    BY <1>2, PathGrows
<1>4. PICK has : has = [k \in 0..c |-> HasSibling(start, end, y, k)]
    OBVIOUS
<1>5. PICK el : el = [k \in 0..c |-> SiblingBlock(data, start, end, y, k)]
    OBVIOUS
<1>6. ASSUME NEW k \in 0..c PROVE el[k] \in S
    <2>1. k \in 0..W
        BY <1>1
    <2>2. Shifted(y, k) \in Nat
        BY <1>1, <2>1, Shifting
    <2>3. (IF Odd(Shifted(y, k)) THEN Shifted(y, k) - 1 ELSE Shifted(y, k) + 1) \in Nat
        BY <2>2 DEF Odd
    <2> QED BY <1>5, <2>1, <2>3 DEF SiblingBlock, BlocksOf
<1> HIDE DEF S, c
<1>7. Grows(S, 0, c, path, has, el) /\ path[0] \in Seq(S) /\ path[0] = <<>>
    BY <1>1, <1>3, <1>4, <1>5, <1>6 DEF Grows, PathOf, S, c
<1>8. Grown(S, 0, c, path, has, el)
    <2>1. 0 \in Nat /\ c \in Nat /\ 0 <= c
        BY <1>1
    <2> QED BY <1>7, <2>1, GrowingPath
<1>9. PICK r : r = [k \in 0..c |-> Len(path[k])]
    OBVIOUS
<1>10. PICK proof : proof = path[c]
    OBVIOUS
<1>11. 0 \in 0..c /\ c \in 0..c
    BY <1>1
<1>12. ASSUME NEW k \in 0..c
       PROVE  /\ r[k] = Len(path[k]) /\ r[k] \in Nat /\ r[k] <= Len(proof)
              /\ k < c => IF HasSibling(start, end, y, k)
                          THEN /\ r[k + 1] = r[k] + 1
                               /\ proof[r[k] + 1] = SiblingBlock(data, start, end, y, k)
                          ELSE r[k + 1] = r[k]
    <2>1. r[k] = Len(path[k]) /\ r[k] \in Nat /\ r[k] <= Len(proof)
        BY <1>8, <1>9, <1>10 DEF Grown
    <2>2. ASSUME k < c
          PROVE  IF HasSibling(start, end, y, k)
                 THEN /\ r[k + 1] = r[k] + 1
                      /\ proof[r[k] + 1] = SiblingBlock(data, start, end, y, k)
                 ELSE r[k + 1] = r[k]
        <3>1. k + 1 \in 0..c
            BY <1>1, <2>2
        <3>2. r[k + 1] = Len(path[k + 1])
            BY <1>9, <3>1
        <3>3. has[k] = HasSibling(start, end, y, k) /\ el[k] = SiblingBlock(data, start, end, y, k)
            BY <1>4, <1>5
        <3>4. IF has[k] THEN /\ Len(path[k + 1]) = Len(path[k]) + 1
                             /\ path[c][Len(path[k]) + 1] = el[k]
              ELSE Len(path[k + 1]) = Len(path[k])
            BY <1>8, <2>2 DEF Grown
        <3>5. CASE has[k]
            BY <1>10, <2>1, <3>2, <3>3, <3>4, <3>5
        <3>6. CASE ~has[k]
            BY <2>1, <3>2, <3>3, <3>4, <3>6
        <3> QED BY <3>5, <3>6
    <2> QED BY <2>1, <2>2
<1>13. r[0] = 0 /\ r[c] = Len(proof) /\ Len(proof) \in Nat
    BY <1>7, <1>10, <1>11, <1>12
<1>14. LevelByLevel(data, start, end, y, proof, r)
    BY <1>12, <1>13 DEF LevelByLevel, c
<1> QED BY <1>2, <1>9, <1>10, <1>13, <1>14 DEF c

(* The verifier's fold of a proof that has the sibling blocks, level by     *)
(* level, ends in the hash of the subtree.                                  *)
LEMMA FoldFollows ==
    ASSUME NEW data, Len(data) \in Words,
           NEW end \in 0..Len(data), NEW start \in 0..end, start < end, IsSubtree(start, end),
           NEW y \in 0..(end - start - 1), NEW proof, Len(proof) \in Nat, NEW reached,
           LevelByLevel(data, start, end, y, proof, reached),
           NEW hash, hash = HashLeaf(data[start + y + 1])
    PROVE  LET done == FoldPath(proof, y, end - start - 1, hash)[Len(proof)]
           IN  ~done.tooMany /\ done.sn = 0 /\ done.r = MTH(data, start, end)
<1> DEFINE at      == FoldPath(proof, y, end - start - 1, hash)
           M       == Len(proof)
           c       == Height(start, end)
           has(k)  == HasSibling(start, end, y, k)
           H(j)    == Holding(data, start, end, y, j)
           Good(k) == \E j \in 0..k :
                          /\ at[reached[k]].fn = Shifted(y, j)
                          /\ at[reached[k]].sn = LastBlock(start, end, j)
                          /\ at[reached[k]].r = H(j)
                          /\ ~at[reached[k]].tooMany
                          /\ \A i \in j..(k - 1) : ~has(i)
           Other   == {k \in 0..c : ~Good(k)}
<1>1. /\ end \in Words /\ start \in Nat /\ end \in Nat /\ y \in Nat
      /\ end - start - 1 \in Nat /\ 0 \in 0..W
    BY Pow2Type, WordWidth DEF Words
<1>2. /\ c \in 0..W /\ LastBlock(start, end, c) = 0
      /\ \A k \in 0..W : k < c => LastBlock(start, end, k) # 0
    BY <1>1, SubtreeShape
<1>3. /\ M \in Nat /\ reached[c] = M
      /\ reached[0] = 0
      /\ \A k \in 0..c :
             /\ reached[k] \in Nat
             /\ reached[k] <= M
             /\ k < c => IF has(k)
                         THEN /\ reached[k + 1] = reached[k] + 1
                              /\ proof[reached[k] + 1] = SiblingBlock(data, start, end, y, k)
                         ELSE reached[k + 1] = reached[k]
    BY DEF LevelByLevel
<1>4. /\ at[0] = [fn |-> y, sn |-> end - start - 1, r |-> hash, tooMany |-> FALSE]
      /\ \A i \in 1..M : LET before == at[i - 1]
                             joins  == Odd(before.fn) \/ before.fn = before.sn
                             shift  == IF joins THEN TrailingZeros(before.fn) + 1 ELSE 1
                         IN  /\ at[i].fn = Shifted(before.fn, shift)
                             /\ at[i].sn = Shifted(before.sn, shift)
                             /\ at[i].r = Joined(joins, proof[i], before.r)
                             /\ at[i].tooMany = (before.tooMany \/ before.sn = 0)
    <2>1. PICK z : z = end - start - 1
        OBVIOUS
    <2>2. PICK p : p = proof
        OBVIOUS
    <2>3. Len(p) \in Nat
        BY <1>3, <2>2
    <2>4. PICK g : g = FoldPath(p, y, z, hash)
        OBVIOUS
    <2>5. FoldedBy(g, p, y, z, hash)
        BY <2>3, <2>4, FoldSteps
    <2>6. g = at
        BY <2>1, <2>2, <2>4
    <2> HIDE DEF at
    <2> QED BY <2>1, <2>2, <2>5, <2>6 DEF FoldedBy
<1>5. H(0) = hash
    <2>1. Shifted(y, 0) = y
        BY <1>1, Shifting
    <2>2. Block(data, start, end, 0, y) = HashLeaf(data[start + y + 1])
        BY BlockOfOne
    <2> QED BY <2>1, <2>2 DEF Holding
<1>6. \A j \in 0..W : LastBlock(start, end, j) = 0 => Shifted(y, j) = 0 /\ H(j) = MTH(data, start, end)
    <2> TAKE j \in 0..W
    <2> HAVE LastBlock(start, end, j) = 0
    <2>1. Shifted(y, j) <= Shifted(end - start - 1, j)
        BY <1>1, ShiftMonotone
    <2>2. Shifted(y, j) \in Nat
        BY <1>1, Shifting
    <2>3. Shifted(y, j) = 0
        BY <2>1, <2>2 DEF LastBlock
    <2>4. Block(data, start, end, j, 0) = MTH(data, start, end)
        BY <1>1, OneBlock
    <2> QED BY <2>3, <2>4 DEF Holding
<1> HIDE DEF at, M, H, c, has
<1>7. Good(0)
    <2>1. Shifted(y, 0) = y /\ LastBlock(start, end, 0) = end - start - 1
        BY <1>1, Shifting DEF LastBlock
    <2>2. at[0].fn = y /\ at[0].sn = end - start - 1 /\ at[0].r = hash /\ ~at[0].tooMany
        BY <1>4
    <2>3. 0 \in 0..0 /\ \A i \in 0..(0 - 1) : FALSE
        OBVIOUS
    <2> QED BY <1>3, <1>5, <2>1, <2>2, <2>3
<1>8. ASSUME NEW k \in 0..c, k < c, Good(k) PROVE Good(k + 1)
    <2>1. PICK j \in 0..k :
              /\ at[reached[k]].fn = Shifted(y, j)
              /\ at[reached[k]].sn = LastBlock(start, end, j)
              /\ at[reached[k]].r = H(j)
              /\ ~at[reached[k]].tooMany
              /\ \A i \in j..(k - 1) : ~has(i)
        BY <1>8
    <2>2. CASE ~has(k)
        <3>1. reached[k + 1] = reached[k]
            BY <1>3, <1>8, <2>2
        <3>2. j \in 0..(k + 1) /\ \A i \in j..((k + 1) - 1) : i = k \/ i \in j..(k - 1)
            BY <1>2
        <3>3. \A i \in j..((k + 1) - 1) : ~has(i)
            BY <2>1, <2>2, <3>2
        <3> QED BY <2>1, <3>1, <3>2, <3>3
    <2>3. CASE has(k)
        <3>1. PICK l : l = reached[k] + 1
            OBVIOUS
        <3>2. /\ reached[k] \in Nat /\ reached[k + 1] = l /\ reached[k + 1] <= M
              /\ proof[l] = SiblingBlock(data, start, end, y, k)
            <4>1. k + 1 \in 0..c
                BY <1>2, <1>8
            <4> QED BY <1>3, <1>8, <2>3, <3>1, <4>1
        <3>3. l \in 1..M /\ l - 1 = reached[k]
            <4>1. PICK r \in Nat : r = reached[k]
                BY <3>2
            <4>2. l = r + 1 /\ l <= M /\ M \in Nat
                BY <1>3, <3>1, <3>2, <4>1
            <4>3. l \in 1..M /\ l - 1 = r
                <5> HIDE DEF Good
                <5> QED BY <4>2
            <4> QED BY <4>1, <4>3
        <3> DEFINE before == at[l - 1]
                   joins  == Odd(before.fn) \/ before.fn = before.sn
                   shift  == IF joins THEN TrailingZeros(before.fn) + 1 ELSE 1
        <3>4. /\ at[l].fn = Shifted(before.fn, shift)
              /\ at[l].sn = Shifted(before.sn, shift)
              /\ at[l].r = Joined(joins, proof[l], before.r)
              /\ at[l].tooMany = (before.tooMany \/ before.sn = 0)
            BY <1>4, <3>3
        <3>5. /\ before.fn = Shifted(y, j) /\ before.sn = LastBlock(start, end, j)
              /\ before.r = H(j) /\ ~before.tooMany
            BY <2>1, <3>3
        <3>6. j \in 0..W /\ k \in 0..(W - 1) /\ k \in j..(W - 1) /\ before.sn # 0
            <4>1. j \in 0..W /\ k \in 0..(W - 1) /\ k \in j..(W - 1) /\ j < c
                BY <1>2, <1>8, WordWidth
            <4> QED BY <1>2, <3>5, <4>1
        <3> HIDE DEF before, Good
        <3>7. HasSibling(start, end, y, k) /\ \A i \in j..(k - 1) : ~HasSibling(start, end, y, i)
            BY <2>1, <2>3 DEF has
        <3>8. /\ Shifted(before.fn, shift) = Shifted(y, k + 1)
              /\ Shifted(before.sn, shift) = LastBlock(start, end, k + 1)
              /\ Odd(Shifted(y, k)) <=> (Odd(before.fn) \/ before.fn = before.sn)
            <4>1. PICK f : f = before.fn
                OBVIOUS
            <4>2. PICK n : n = before.sn
                OBVIOUS
            <4>3. PICK by : by = IF Odd(f) \/ f = n THEN TrailingZeros(f) + 1 ELSE 1
                OBVIOUS
            <4>4. /\ end \in Words /\ j \in 0..W /\ k \in j..(W - 1)
                  /\ f = Shifted(y, j) /\ n = LastBlock(start, end, j) /\ n # 0
                BY <1>1, <3>5, <3>6, <4>1, <4>2
            <4>5. by = shift
                BY <4>1, <4>2, <4>3
            <4> HIDE DEF shift, joins
            <4>6. /\ Shifted(f, by) = Shifted(y, k + 1)
                  /\ Shifted(n, by) = LastBlock(start, end, k + 1)
                  /\ Odd(Shifted(y, k)) <=> (Odd(f) \/ f = n)
                BY <3>7, <4>3, <4>4, NextSibling
            <4> QED BY <4>1, <4>2, <4>5, <4>6
        <3>9. joins <=> Odd(Shifted(y, k))
            BY <3>8
        <3> HIDE DEF joins, shift
        <3>10. Joined(joins, SiblingBlock(data, start, end, y, k), H(j)) = H(k + 1)
            BY <3>6, <3>7, <3>9, JoinedBlocks, SMTT(30) DEF H
        <3>11. at[l].r = H(k + 1)
            BY <3>2, <3>4, <3>5, <3>10
        <3>12. ~at[l].tooMany
            BY <3>4, <3>5, <3>6
        <3>13. at[l].fn = Shifted(y, k + 1) /\ at[l].sn = LastBlock(start, end, k + 1)
            BY <3>4, <3>8
        <3>14. k + 1 \in 0..(k + 1) /\ \A i \in (k + 1)..((k + 1) - 1) : FALSE
            BY <3>6, WordWidth
        <3> QED BY <3>2, <3>11, <3>12, <3>13, <3>14 DEF Good
    <2> QED BY <2>2, <2>3
<1>9. Other = {}
    <2> SUFFICES ASSUME Other # {} PROVE FALSE
        OBVIOUS
    <2> HIDE DEF Good
    <2>1. Other \in SUBSET Nat
        BY <1>2
    <2>2. PICK k \in Other : \A m \in Other : k <= m
        <3> HIDE DEF Other
        <3> QED BY <2>1, SmallestElement
    <2>3. k # 0
        BY <1>7
    <2>4. k - 1 \in 0..c /\ k - 1 < c /\ (k - 1) + 1 = k /\ k - 1 \notin Other
        BY <1>2, <2>2, <2>3
    <2>5. Good(k - 1)
        BY <2>4
    <2>6. Good((k - 1) + 1)
        BY <1>8, <2>4, <2>5
    <2> QED BY <2>4, <2>6
<1> DEFINE done == at[M]
<1>10. PICK j \in 0..c : /\ done.sn = LastBlock(start, end, j)
                         /\ done.r = H(j)
                         /\ ~done.tooMany
                         /\ \A i \in j..(c - 1) : ~has(i)
    <2>1. M = reached[c]
        BY <1>3
    <2>2. Good(c)
        <3> HIDE DEF Good
        <3> QED BY <1>2, <1>9
    <2> QED BY <2>1, <2>2
<1>11. LastBlock(start, end, j) = 0
    <2>1. CASE j = c
        BY <1>2, <2>1
    <2>2. CASE j < c
        <3>1. c - 1 \in j..(c - 1) /\ c - 1 \in 0..(W - 1) /\ c - 1 \in 0..W /\ c - 1 < c
              /\ (c - 1) + 1 = c /\ c \in 0..W
            BY <1>2, <2>2, WordWidth
        <3>2. ~HasSibling(start, end, y, c - 1)
            BY <1>10, <3>1 DEF has
        <3>3. PICK n : n = LastBlock(start, end, c - 1)
            OBVIOUS
        <3>4. PICK z : z = end - start - 1
            OBVIOUS
        <3>5. n = Shifted(z, c - 1) /\ z \in Nat /\ n \in Nat
            <4>1. Shifted(z, c - 1) \in Nat
                BY <1>1, <3>1, <3>4, Shifting
            <4> QED BY <1>1, <3>3, <3>4, <4>1 DEF LastBlock
        <3>6. /\ Shifted(y, c - 1) \in Nat /\ Shifted(y, c - 1) <= n
            <4>1. Shifted(y, c - 1) \in Nat
                BY <1>1, <3>1, Shifting
            <4>2. Shifted(y, c - 1) <= Shifted(z, c - 1)
                BY <1>1, <3>1, <3>4, <3>5, ShiftMonotone
            <4> QED BY <3>5, <4>1, <4>2
        <3>7. n = Shifted(y, c - 1) /\ ~Odd(n)
            BY <3>2, <3>3, <3>5, <3>6 DEF HasSibling
        <3>8. Shifted(z, c) = 0
            BY <1>2, <3>4 DEF LastBlock
        <3>9. n = 0
            BY <3>1, <3>5, <3>7, <3>8, ShiftOnce DEF Odd
        <3> QED BY <1>2, <3>1, <3>3, <3>9
    <2> QED BY <1>2, <2>1, <2>2
<1>12. j \in 0..W
    BY <1>2, WordWidth
<1> HIDE DEF done
<1>13. ~done.tooMany /\ done.sn = 0 /\ done.r = MTH(data, start, end)
    BY <1>6, <1>10, <1>11, <1>12
<1> QED BY <1>13 DEF done, at, M

(* So it does for a proof that the tree made.                               *)
LEMMA FoldAccepts ==
    ASSUME NEW data, Len(data) \in Words, NEW t, t = NewMerkleTree(data),
           NEW end \in 0..Len(data), NEW start \in 0..end, start < end, IsSubtree(start, end),
           NEW y \in 0..(end - start - 1), NEW index, index = start + y
    PROVE  LET proof == SiblingPath(t, index, end)[Height(start, end)]
               hash  == HashLeaf(data[start + y + 1])
               done  == FoldPath(proof, y, end - start - 1, hash)[Len(proof)]
           IN  /\ Len(proof) \in Nat
               /\ ~done.tooMany /\ done.sn = 0 /\ done.r = MTH(data, start, end)
<1> DEFINE path    == SiblingPath(t, index, end)
           c       == Height(start, end)
           whole   == path[c]
           reached == [k \in 0..c |-> Len(path[k])]
<1>1. Len(whole) \in Nat /\ LevelByLevel(data, start, end, y, whole, reached)
    BY PathElements
<1>2. PICK proof : proof = whole
    OBVIOUS
<1>3. PICK hash : hash = HashLeaf(data[start + y + 1])
    OBVIOUS
<1>4. PICK r : r = reached
    OBVIOUS
<1>5. LevelByLevel(data, start, end, y, proof, r) /\ Len(proof) \in Nat
    BY <1>1, <1>2, <1>4
<1> HIDE DEF whole, reached
<1>6. LET done == FoldPath(proof, y, end - start - 1, hash)[Len(proof)]
      IN  ~done.tooMany /\ done.sn = 0 /\ done.r = MTH(data, start, end)
    BY <1>3, <1>5, FoldFollows
<1> QED BY <1>2, <1>3, <1>5, <1>6 DEF whole, path, c

(* The split of a tree of n entries. *)
LEMMA CutPoint ==
    ASSUME NEW n \in 2..Pow2[W]
    PROVE  /\ BitLen(n - 1) \in 1..W
           /\ BitLen(n - 1) - 1 \in 0..(W - 1)
           /\ Pow2[BitLen(n - 1) - 1] \in 1..(n - 1)
           /\ n <= 2 * Pow2[BitLen(n - 1) - 1]
<1> DEFINE c == BitLen(n - 1)
<1>1. Pow2[W] \in Nat /\ n \in Nat /\ n - 1 \in 0..(Pow2[W] - 1)
    BY Pow2Type, WordWidth
<1>2. /\ c \in 0..W /\ n - 1 < Pow2[c]
      /\ \A k \in 0..W : k < c => Pow2[k] <= n - 1
    BY <1>1, BitLength
<1>3. c # 0
    BY <1>1, <1>2, Pow2Exists
<1> HIDE DEF c
<1>4. c - 1 \in 0..(W - 1) /\ c - 1 \in 0..W /\ c - 1 < c /\ c \in 1..W
    BY <1>2, <1>3, WordWidth
<1>5. Pow2[c] = 2 * Pow2[c - 1] /\ Pow2[c - 1] <= n - 1 /\ Pow2[c - 1] \in Nat \ {0}
    BY <1>2, <1>4, Pow2Exists, Pow2Type
<1>6. n <= 2 * Pow2[c - 1]
    BY <1>1, <1>2, <1>5
<1> QED BY <1>1, <1>4, <1>5, <1>6 DEF c

(* Making a consistency proof. *)
SubproofStep(t, end, sub, size, first, from, knownHash) ==
    LET k   == Pow2[BitLen(size - 1) - 1]
        cut == from + k
        to  == from + size
    IN  IF size < 2 \/ (first = from /\ end = to)
        THEN IF knownHash THEN <<>> ELSE <<SubtreeHash(t, from, to)>>
        ELSE IF end <= cut
        THEN Append(sub[k][knownHash][first][from], SubtreeHash(t, cut, to))
        ELSE IF first >= cut
        THEN Append(sub[size - k][knownHash][first][cut], SubtreeHash(t, from, cut))
        ELSE Append(sub[size - k][FALSE][cut][cut], SubtreeHash(t, from, cut))

LEMMA SubproofLoop ==
    ASSUME NEW t, NEW end, Size(t) \in Words
    PROVE  LET sub == SubtreeSubproof(t, end)
           IN  \A size \in 0..Size(t), first \in 0..end, from \in 0..Size(t), knownHash \in BOOLEAN :
                   sub[size][knownHash][first][from]
                       = SubproofStep(t, end, sub, size, first, from, knownHash)
<1> DEFINE Step(g, k)   == [knownHash \in BOOLEAN |-> [first \in 0..end |-> [from \in 0..Size(t) |->
                               LET p   == Pow2[BitLen(k - 1) - 1]
                                   cut == from + p
                                   to  == from + k
                               IN  IF k < 2 \/ (first = from /\ end = to)
                                   THEN IF knownHash THEN <<>> ELSE <<SubtreeHash(t, from, to)>>
                                   ELSE IF end <= cut
                                   THEN Append(g[p][knownHash][first][from], SubtreeHash(t, cut, to))
                                   ELSE IF first >= cut
                                   THEN Append(g[k - p][knownHash][first][cut], SubtreeHash(t, from, cut))
                                   ELSE Append(g[k - p][FALSE][cut][cut], SubtreeHash(t, from, cut))]]]
           Solves(g, n) == g = [k \in 0..n |-> Step(g, k)]
           F            == SubtreeSubproof(t, end)
           Without      == {n \in 0..Size(t) : ~ \E g : Solves(g, n)}
<1>a. /\ Size(t) \in Nat /\ 0 \in 0..Size(t)
      /\ Size(t) < Pow2[W] /\ Pow2[W] \in Nat
    BY Pow2Type, WordWidth DEF Words
<1>1. ASSUME NEW g, NEW h, NEW k \in 0..Size(t), \A i \in 0..(k - 1) : g[i] = h[i]
      PROVE  Step(g, k) = Step(h, k)
    <2>1. CASE k < 2
        BY <2>1
    <2>2. CASE ~(k < 2)
        <3> DEFINE p == Pow2[BitLen(k - 1) - 1]
        <3>1. k \in 2..Pow2[W]
            BY <1>a, <2>2
        <3>2. p \in 1..(k - 1)
            BY <3>1, CutPoint
        <3>3. p \in 0..(k - 1) /\ k - p \in 0..(k - 1)
            BY <3>1, <3>2
        <3> HIDE DEF p
        <3>4. g[p] = h[p] /\ g[k - p] = h[k - p]
            BY <1>1, <3>3
        <3> QED BY <2>2, <3>4 DEF p
    <2> QED BY <2>1, <2>2
<1>2. F = CHOOSE g : Solves(g, Size(t))
    BY DEF SubtreeSubproof
<1> HIDE DEF Step, F
<1>3. Without = {}
    <2> SUFFICES ASSUME Without # {} PROVE FALSE
        OBVIOUS
    <2>1. PICK n \in Without : \A m \in Without : n <= m
        <3>1. Without \in SUBSET Nat
            BY <1>a
        <3> HIDE DEF Without
        <3> QED BY <3>1, SmallestElement
    <2>2. n \in Nat /\ 0 <= n /\ n <= Size(t)
        BY <1>a
    <2>3. PICK g : n = 0 \/ Solves(g, n - 1)
        <3>1. n # 0 => n - 1 \in 0..Size(t) /\ n - 1 \notin Without
            BY <2>1, <2>2, <1>a
        <3> HIDE DEF Solves
        <3> QED BY <3>1
    <2> DEFINE h == [k \in 0..n |-> IF k = n THEN Step(g, n) ELSE g[k]]
    <2>4. ASSUME NEW k \in 0..n PROVE h[k] = Step(h, k)
        <3>1. /\ k \in 0..Size(t) /\ k \in Nat /\ n \in 0..Size(t)
              /\ \A i \in 0..(k - 1) : i \in 0..n /\ i # n /\ h[i] = g[i]
            BY <2>2, <1>a
        <3>2. Step(g, k) = Step(h, k)
            <4> HIDE DEF h
            <4> QED BY <1>1, <3>1
        <3>3. h[k] = Step(g, k)
            <4>1. CASE k = n
                BY <4>1
            <4>2. CASE k # n
                <5>1. k \in 0..(n - 1) /\ n # 0
                    BY <2>2, <4>2, <1>a
                <5> QED BY <2>3, <4>2, <5>1
            <4> QED BY <4>1, <4>2
        <3> QED BY <3>2, <3>3
    <2>5. Solves(h, n)
        <3>1. h = [k \in 0..n |-> h[k]]
            OBVIOUS
        <3> HIDE DEF h
        <3> QED BY <2>4, <3>1
    <2> QED BY <2>5
<1>4. Solves(F, Size(t))
    <2>1. Size(t) \in 0..Size(t) /\ Size(t) \notin Without
        <3>1. Size(t) \in 0..Size(t)
            BY <1>a
        <3> HIDE DEF Without
        <3> QED BY <1>3, <3>1
    <2> HIDE DEF Solves
    <2> QED BY <1>2, <2>1
<1>5. DOMAIN F = 0..Size(t) /\ \A k \in 0..Size(t) : F[k] = Step(F, k)
    BY <1>4
<1>6. ASSUME NEW size \in 0..Size(t), NEW first \in 0..end, NEW from \in 0..Size(t),
             NEW knownHash \in BOOLEAN
      PROVE  F[size][knownHash][first][from]
                 = SubproofStep(t, end, F, size, first, from, knownHash)
    <2>1. F[size] = Step(F, size)
        BY <1>5
    <2> DEFINE G(f, r, b) == SubproofStep(t, end, F, size, f, r, b)
    <2>2. F[size] = [b \in BOOLEAN |-> [f \in 0..end |-> [r \in 0..Size(t) |-> G(f, r, b)]]]
        BY <2>1 DEF Step, SubproofStep
    <2> HIDE DEF G
    <2>3. F[size][knownHash][first][from] = G(first, from, knownHash)
        BY <2>2
    <2> QED BY <2>3 DEF G
<1> HIDE DEF Solves
<1> QED BY <1>6 DEF F

(* It is a sequence whatever it is asked for.                               *)
HashesOf(t) == {SubtreeHash(t, a, b) : a \in Nat, b \in Nat}

LEMMA SubproofIsSequence ==
    ASSUME NEW t, Size(t) \in Words, NEW end \in 0..Size(t), NEW start \in 0..end
    PROVE  SubtreeSubproof(t, end)[Size(t)][TRUE][start][0]
               \in Seq(HashesOf(t))
<1> DEFINE N     == Size(t)
           V     == HashesOf(t)
           sub   == SubtreeSubproof(t, end)
           Other == {n \in 0..N : \E known \in BOOLEAN : \E first \in 0..end :
                         \E from \in 0..(N - n) : sub[n][known][first][from] \notin Seq(V)}
<1>1. N \in Nat /\ N < Pow2[W] /\ Pow2[W] \in Nat /\ end \in Nat
    BY Pow2Type, WordWidth DEF Words
<1>2. \A size \in 0..N, first \in 0..end, from \in 0..N, knownHash \in BOOLEAN :
          sub[size][knownHash][first][from]
              = SubproofStep(t, end, sub, size, first, from, knownHash)
    BY SubproofLoop
<1>3. \A a, b \in Nat : SubtreeHash(t, a, b) \in V
    BY DEF HashesOf
<1>4. ASSUME NEW e \in V PROVE <<e>> \in Seq(V) /\ \A s \in Seq(V) : Append(s, e) \in Seq(V)
    <2>1. \A s \in Seq(V) : Append(s, e) \in Seq(V)
        BY AppendProperties
    <2>2. <<e>> = [i \in 1..1 |-> e]
        OBVIOUS
    <2>3. [i \in 1..1 |-> e] \in Seq(V)
        BY SeqDef
    <2> HIDE DEF V
    <2> QED BY <2>1, <2>2, <2>3
<1>5. <<>> \in Seq(V)
    BY EmptySeq
<1> HIDE DEF sub, V, N
<1>6. Other = {}
    <2> SUFFICES ASSUME Other # {} PROVE FALSE
        OBVIOUS
    <2>1. Other \in SUBSET Nat
        BY <1>1
    <2>2. PICK n \in Other : \A m \in Other : n <= m
        <3> HIDE DEF Other
        <3> QED BY <2>1, SmallestElement
    <2>3. PICK known \in BOOLEAN : \E f \in 0..end : \E r \in 0..(N - n) :
              sub[n][known][f][r] \notin Seq(V)
        BY <2>2
    <2>4. PICK first \in 0..end : \E r \in 0..(N - n) : sub[n][known][first][r] \notin Seq(V)
        BY <2>3
    <2>5. PICK from \in 0..(N - n) : sub[n][known][first][from] \notin Seq(V)
        BY <2>4
    <2>6. n \in 0..N /\ from \in 0..N /\ from + n \in Nat /\ from \in Nat
        BY <1>1, <2>5
    <2>7. ASSUME NEW m \in 0..(n - 1), NEW b \in BOOLEAN, NEW f \in 0..end,
                 NEW r \in 0..(N - m)
          PROVE  sub[m][b][f][r] \in Seq(V)
        <3>1. m \in 0..N /\ m \in Nat /\ n \in Nat /\ ~(n <= m)
            BY <1>1, <2>6
        <3>2. m \notin Other
            BY <2>2, <3>1
        <3> QED BY <3>1, <3>2
    <2>8. CASE n < 2 \/ (first = from /\ end = from + n)
        <3>1. sub[n][known][first][from] = IF known THEN <<>> ELSE <<SubtreeHash(t, from, from + n)>>
            BY <1>2, <2>6, <2>8 DEF SubproofStep
        <3>2. <<SubtreeHash(t, from, from + n)>> \in Seq(V)
            BY <1>3, <1>4, <2>6
        <3> QED BY <1>5, <2>5, <3>1, <3>2
    <2>9. CASE ~(n < 2 \/ (first = from /\ end = from + n))
        <3>1. n \in 2..Pow2[W]
            BY <1>1, <2>6, <2>9
        <3>2. PICK k : k = Pow2[BitLen(n - 1) - 1]
            OBVIOUS
        <3>3. k \in 1..(n - 1)
            BY <3>1, <3>2, CutPoint
        <3>4. PICK cut : cut = from + k
            OBVIOUS
        <3>5. /\ k \in 0..(n - 1) /\ n - k \in 0..(n - 1) /\ cut \in Nat
              /\ from \in 0..(N - k) /\ cut \in 0..(N - (n - k))
            BY <1>1, <2>5, <2>6, <3>3, <3>4
        <3>6. /\ SubtreeHash(t, cut, from + n) \in V /\ SubtreeHash(t, from, cut) \in V
            BY <1>3, <2>6, <3>5
        <3>7. sub[n][known][first][from] =
                  IF end <= cut
                  THEN Append(sub[k][known][first][from], SubtreeHash(t, cut, from + n))
                  ELSE IF first >= cut
                  THEN Append(sub[n - k][known][first][cut], SubtreeHash(t, from, cut))
                  ELSE Append(sub[n - k][FALSE][cut][cut], SubtreeHash(t, from, cut))
            <4>1. sub[n][known][first][from] = SubproofStep(t, end, sub, n, first, from, known)
                BY <1>2, <2>6
            <4>2. CASE end <= cut
                BY <2>9, <3>2, <3>4, <4>1, <4>2 DEF SubproofStep
            <4>3. CASE ~(end <= cut) /\ first >= cut
                BY <2>9, <3>2, <3>4, <4>1, <4>3 DEF SubproofStep
            <4>4. CASE ~(end <= cut) /\ ~(first >= cut)
                BY <2>9, <3>2, <3>4, <4>1, <4>4 DEF SubproofStep
            <4> QED BY <4>2, <4>3, <4>4
        <3>8. CASE end <= cut
            <4>1. sub[k][known][first][from] \in Seq(V)
                BY <2>7, <3>5
            <4> QED BY <1>4, <2>5, <3>6, <3>7, <3>8, <4>1
        <3>9. CASE ~(end <= cut) /\ first >= cut
            <4>1. sub[n - k][known][first][cut] \in Seq(V)
                BY <2>7, <3>5
            <4> QED BY <1>4, <2>5, <3>6, <3>7, <3>9, <4>1
        <3>10. CASE ~(end <= cut) /\ ~(first >= cut)
            <4>1. cut \in 0..end
                BY <1>1, <3>5, <3>10
            <4>2. sub[n - k][FALSE][cut][cut] \in Seq(V)
                BY <2>7, <3>5, <4>1
            <4> QED BY <1>4, <2>5, <3>6, <3>7, <3>10, <4>2
        <3> QED BY <3>8, <3>9, <3>10
    <2> QED BY <2>8, <2>9
<1>7. N \in 0..N /\ 0 \in 0..(N - N) /\ TRUE \in BOOLEAN
    BY <1>1
<1>8. sub[N][TRUE][start][0] \in Seq(V)
    BY <1>6, <1>7
<1> QED BY <1>8 DEF sub, N, V

-----------------------------------------------------------------------------
(* The consistency verifier climbs from a node that subtree and tree have   *)
(* in common: both have it as the block that holds the subtree's last entry *)
(* on its level.                                                            *)

(* Folding a consistency proof. *)
ConsistencyStep(before, element) ==
    LET joins == Odd(before.sn) \/ before.sn = before.tn
        shift == IF joins THEN TrailingZeros(before.sn) + 1 ELSE 1
    IN  [fn |-> Shifted(before.fn, shift), sn |-> Shifted(before.sn, shift),
         tn |-> Shifted(before.tn, shift),
         fr |-> IF joins /\ before.fn < before.sn
                THEN HashNode(element, before.fr) ELSE before.fr,
         sr |-> IF joins THEN HashNode(element, before.sr) ELSE HashNode(before.sr, element),
         tooMany |-> before.tooMany \/ before.tn = 0]

LEMMA ConsistencyLoop ==
    ASSUME NEW proof, Len(proof) \in Nat, NEW from \in 0..Len(proof),
           NEW fn, NEW sn, NEW tn, NEW hash
    PROVE  LET at == FoldConsistency(proof, from, fn, sn, tn, hash)
           IN  \A i \in from..Len(proof) :
                   at[i] = IF i = from
                           THEN [fn |-> fn, sn |-> sn, tn |-> tn, fr |-> hash, sr |-> hash,
                                 tooMany |-> FALSE]
                           ELSE ConsistencyStep(at[i - 1], proof[i])
<1> DEFINE Step(g, k)   == IF k = from
                           THEN [fn |-> fn, sn |-> sn, tn |-> tn, fr |-> hash, sr |-> hash, tooMany |-> FALSE]
                           ELSE LET before == g[k - 1]
                                    joins  == Odd(before.sn) \/ before.sn = before.tn
                                    shift  == IF joins THEN TrailingZeros(before.sn) + 1 ELSE 1
                                IN  [fn |-> Shifted(before.fn, shift), sn |-> Shifted(before.sn, shift),
                                     tn |-> Shifted(before.tn, shift),
                                     fr |-> IF joins /\ before.fn < before.sn
                                            THEN HashNode(proof[k], before.fr) ELSE before.fr,
                                     sr |-> IF joins THEN HashNode(proof[k], before.sr)
                                            ELSE HashNode(before.sr, proof[k]),
                                     tooMany |-> before.tooMany \/ before.tn = 0]
           Solves(g, n) == g = [k \in from..n |-> Step(g, k)]
           F            == FoldConsistency(proof, from, fn, sn, tn, hash)
           Without      == {n \in from..Len(proof) : ~ \E g : Solves(g, n)}
<1>1. ASSUME NEW g, NEW h, NEW k \in from..Len(proof), \A i \in from..(k - 1) : g[i] = h[i]
      PROVE  Step(g, k) = Step(h, k)
    BY <1>1
<1>2. F = CHOOSE g : Solves(g, Len(proof))
    BY DEF FoldConsistency
<1> HIDE DEF Step, F
<1>3. Without = {}
    <2> SUFFICES ASSUME Without # {} PROVE FALSE
        OBVIOUS
    <2>1. PICK n \in Without : \A m \in Without : n <= m
        <3>1. Without \in SUBSET Nat
            OBVIOUS
        <3> HIDE DEF Without
        <3> QED BY <3>1, SmallestElement
    <2>2. n \in Nat /\ from <= n /\ n <= Len(proof)
        OBVIOUS
    <2>3. PICK g : n = from \/ Solves(g, n - 1)
        <3>1. n # from => n - 1 \in from..Len(proof) /\ n - 1 \notin Without
            BY <2>1, <2>2
        <3> HIDE DEF Solves
        <3> QED BY <3>1
    <2> DEFINE h == [k \in from..n |-> IF k = n THEN Step(g, n) ELSE g[k]]
    <2>4. ASSUME NEW k \in from..n PROVE h[k] = Step(h, k)
        <3>1. /\ k \in from..Len(proof) /\ k \in Nat /\ n \in from..Len(proof)
              /\ \A i \in from..(k - 1) : i \in from..n /\ i # n /\ h[i] = g[i]
            BY <2>2
        <3>2. Step(g, k) = Step(h, k)
            <4> HIDE DEF h
            <4> QED BY <1>1, <3>1
        <3>3. h[k] = Step(g, k)
            <4>1. CASE k = n
                BY <4>1
            <4>2. CASE k # n
                <5>1. k \in from..(n - 1) /\ n # from
                    BY <2>2, <4>2
                <5> QED BY <2>3, <4>2, <5>1
            <4> QED BY <4>1, <4>2
        <3> QED BY <3>2, <3>3
    <2>5. Solves(h, n)
        <3>1. h = [k \in from..n |-> h[k]]
            OBVIOUS
        <3> HIDE DEF h
        <3> QED BY <2>4, <3>1
    <2> QED BY <2>5
<1>4. Solves(F, Len(proof))
    <2>1. Len(proof) \in from..Len(proof) /\ Len(proof) \notin Without
        <3>1. Len(proof) \in from..Len(proof)
            OBVIOUS
        <3> HIDE DEF Without
        <3> QED BY <1>3, <3>1
    <2> HIDE DEF Solves
    <2> QED BY <1>2, <2>1
<1>5. DOMAIN F = from..Len(proof) /\ \A k \in from..Len(proof) : F[k] = Step(F, k)
    BY <1>4
<1> QED BY <1>5 DEF Step, F, ConsistencyStep

LEMMA ConsistencySteps ==
    ASSUME NEW proof, Len(proof) \in Nat, NEW from \in 0..Len(proof),
           NEW fn, NEW sn, NEW tn, NEW hash
    PROVE  LET at == FoldConsistency(proof, from, fn, sn, tn, hash)
           IN  /\ at[from].fn = fn /\ at[from].sn = sn /\ at[from].tn = tn
               /\ at[from].fr = hash /\ at[from].sr = hash /\ ~at[from].tooMany
               /\ \A i \in (from + 1)..Len(proof) :
                      LET before == at[i - 1]
                          joins  == Odd(before.sn) \/ before.sn = before.tn
                          shift  == IF joins THEN TrailingZeros(before.sn) + 1 ELSE 1
                      IN  /\ at[i].fn = Shifted(before.fn, shift)
                          /\ at[i].sn = Shifted(before.sn, shift)
                          /\ at[i].tn = Shifted(before.tn, shift)
                          /\ at[i].fr = IF joins /\ before.fn < before.sn
                                        THEN HashNode(proof[i], before.fr) ELSE before.fr
                          /\ at[i].sr = Joined(joins, proof[i], before.sr)
                          /\ at[i].tooMany = (before.tooMany \/ before.tn = 0)
<1> DEFINE at == FoldConsistency(proof, from, fn, sn, tn, hash)
           M  == Len(proof)
<1>1. \A i \in from..M :
          at[i] = IF i = from
                  THEN [fn |-> fn, sn |-> sn, tn |-> tn, fr |-> hash, sr |-> hash,
                        tooMany |-> FALSE]
                  ELSE ConsistencyStep(at[i - 1], proof[i])
    BY ConsistencyLoop
<1>2. M \in Nat /\ from \in from..M /\ from \in Nat
    OBVIOUS
<1> HIDE DEF at, M
<1>3. /\ at[from].fn = fn /\ at[from].sn = sn /\ at[from].tn = tn
      /\ at[from].fr = hash /\ at[from].sr = hash /\ ~at[from].tooMany
    <2>1. at[from] = [fn |-> fn, sn |-> sn, tn |-> tn, fr |-> hash, sr |-> hash,
                      tooMany |-> FALSE]
        BY <1>1, <1>2
    <2> QED BY <2>1
<1>4. ASSUME NEW i \in (from + 1)..M
      PROVE  LET before == at[i - 1]
                 joins  == Odd(before.sn) \/ before.sn = before.tn
                 shift  == IF joins THEN TrailingZeros(before.sn) + 1 ELSE 1
             IN  /\ at[i].fn = Shifted(before.fn, shift)
                 /\ at[i].sn = Shifted(before.sn, shift)
                 /\ at[i].tn = Shifted(before.tn, shift)
                 /\ at[i].fr = IF joins /\ before.fn < before.sn
                               THEN HashNode(proof[i], before.fr) ELSE before.fr
                 /\ at[i].sr = Joined(joins, proof[i], before.sr)
                 /\ at[i].tooMany = (before.tooMany \/ before.tn = 0)
    <2> DEFINE before == at[i - 1]
               joins  == Odd(before.sn) \/ before.sn = before.tn
               shift  == IF joins THEN TrailingZeros(before.sn) + 1 ELSE 1
    <2>1. i \in from..M /\ i # from
        BY <1>2
    <2>2. at[i] = [fn |-> Shifted(before.fn, shift), sn |-> Shifted(before.sn, shift),
                   tn |-> Shifted(before.tn, shift),
                   fr |-> IF joins /\ before.fn < before.sn
                          THEN HashNode(proof[i], before.fr) ELSE before.fr,
                   sr |-> IF joins THEN HashNode(proof[i], before.sr)
                          ELSE HashNode(before.sr, proof[i]),
                   tooMany |-> before.tooMany \/ before.tn = 0]
        BY <1>1, <2>1 DEF ConsistencyStep
    <2> HIDE DEF before, joins, shift
    <2>3. /\ at[i].fn = Shifted(before.fn, shift)
          /\ at[i].sn = Shifted(before.sn, shift)
          /\ at[i].tn = Shifted(before.tn, shift)
        BY <2>2
    <2>4. at[i].sr = Joined(joins, proof[i], before.sr)
        BY <2>2 DEF Joined
    <2>5. at[i].fr = IF joins /\ before.fn < before.sn
                     THEN HashNode(proof[i], before.fr) ELSE before.fr
        BY <2>2
    <2>6. at[i].tooMany = (before.tooMany \/ before.tn = 0)
        BY <2>2
    <2> QED BY <2>3, <2>4, <2>5, <2>6 DEF before, joins, shift
<1> QED BY <1>3, <1>4 DEF at, M

(* The block with the last entry, on each level.                            *)
RightEdge(data, start, end, k) == Block(data, start, end, k, LastBlock(start, end, k))

LEMMA RightEdgeIs ==
    ASSUME NEW data, NEW start \in Nat, NEW end \in Nat, start < end, NEW k \in 0..W
    PROVE  /\ RightEdge(data, start, end, k)
                  = MTH(data, start + Pow2[k] * LastBlock(start, end, k), end)
           /\ RightEdge(data, start, end, k) = Holding(data, start, end, end - start - 1, k)
           /\ LastBlock(start, end, k) = 0 => RightEdge(data, start, end, k) = MTH(data, start, end)
<1>1. BlockEnd(start, end, k, LastBlock(start, end, k)) = end
    BY LastBlockEnds
<1>2. RightEdge(data, start, end, k) = Holding(data, start, end, end - start - 1, k)
    BY DEF RightEdge, Holding, LastBlock
<1>3. LastBlock(start, end, k) = 0 => RightEdge(data, start, end, k) = MTH(data, start, end)
    BY OneBlock DEF RightEdge
<1> QED BY <1>1, <1>2, <1>3 DEF RightEdge, Block

(* Bits of a subtree's first and last index.                                *)
LEMMA EdgeBits ==
    ASSUME NEW end \in Words, NEW start \in 0..end, start < end, IsSubtree(start, end),
           NEW k \in 0..W
    PROVE  /\ Shifted(start, k) \in Nat /\ Shifted(end - 1, k) \in Nat
           /\ LastBlock(start, end, k) \in Nat
           /\ k < Height(start, end) <=> LastBlock(start, end, k) # 0
           /\ k <= Height(start, end) =>
                  Shifted(end - 1, k) = Shifted(start, k) + LastBlock(start, end, k)
           /\ Shifted(start, k) <= Shifted(end - 1, k)
           /\ Shifted(start, k) < Shifted(end - 1, k) <=> LastBlock(start, end, k) # 0
           /\ k < Height(start, end) =>
                  (Odd(Shifted(end - 1, k)) <=> Odd(LastBlock(start, end, k)))
<1> DEFINE z == end - start - 1
           c == Height(start, end)
<1>1. /\ start \in Nat /\ end \in Nat /\ z \in Nat /\ start + z = end - 1 /\ end - 1 \in Nat
    BY Pow2Type, WordWidth DEF Words
<1>2. /\ c \in 0..W /\ LastBlock(start, end, c) = 0
      /\ \A i \in 0..W : i < c => LastBlock(start, end, i) # 0
    BY SubtreeShape
<1>3. \A i \in 0..W : LastBlock(start, end, i) = Shifted(z, i)
    BY DEF LastBlock
<1>4. /\ Shifted(start, k) \in Nat /\ Shifted(end - 1, k) \in Nat /\ Shifted(z, k) \in Nat
    BY <1>1, Shifting
<1>5. k < c => (Odd(Shifted(start + z, k)) <=> Odd(Shifted(z, k)))
    <2> SUFFICES ASSUME k < c PROVE Odd(Shifted(start + z, k)) <=> Odd(Shifted(z, k))
        OBVIOUS
    <2>1. k \in 0..c
        BY <1>2
    <2> QED BY <1>1, <2>1, Relative
<1>6. k <= c => Shifted(start + z, k) = Shifted(start, k) + Shifted(z, k)
    <2> SUFFICES ASSUME k <= c PROVE Shifted(start + z, k) = Shifted(start, k) + Shifted(z, k)
        OBVIOUS
    <2>1. k \in 0..c
        BY <1>2
    <2> QED BY <1>1, <2>1, Relative
<1>7. ~(k < c) => Shifted(z, k) = 0
    <2> SUFFICES ASSUME ~(k < c) PROVE Shifted(z, k) = 0
        OBVIOUS
    <2>1. c + (k - c) = k /\ k - c \in 0..W /\ c + (k - c) <= W
        BY <1>2, WordWidth
    <2>2. Shifted(Shifted(z, c), k - c) = Shifted(z, k)
        BY <1>1, <1>2, <2>1, ShiftTwice
    <2>3. 0 \in Nat /\ 0 < Pow2[k - c]
        BY <2>1, Pow2Type
    <2>4. Shifted(0, k - c) = 0
        BY <2>1, <2>3, ShiftedAway
    <2> QED BY <1>2, <1>3, <2>2, <2>4
<1>8. ~(k < c) => Shifted(start + z, k) = Shifted(start, k)
    <2> SUFFICES ASSUME ~(k < c) PROVE Shifted(start + z, k) = Shifted(start, k)
        OBVIOUS
    <2>1. c + (k - c) = k /\ k - c \in 0..W /\ c + (k - c) <= W /\ c \in 0..c
        BY <1>2, WordWidth
    <2>2. /\ Shifted(start + z, c) = Shifted(start, c) + Shifted(z, c)
          /\ Shifted(start, c) \in Nat
        BY <1>1, <2>1, Relative
    <2>3. Shifted(start + z, c) = Shifted(start, c)
        BY <1>2, <1>3, <2>2
    <2>4. start + z \in Nat
        BY <1>1
    <2>5. Shifted(Shifted(start + z, c), k - c) = Shifted(start + z, k)
        BY <1>2, <2>1, <2>4, ShiftTwice
    <2>6. Shifted(Shifted(start, c), k - c) = Shifted(start, k)
        BY <1>1, <1>2, <2>1, ShiftTwice
    <2> QED BY <2>3, <2>5, <2>6
<1>9. k < c <=> Shifted(z, k) # 0
    BY <1>2, <1>3, <1>7
<1>10. LastBlock(start, end, k) = Shifted(z, k) /\ Shifted(end - 1, k) = Shifted(start + z, k)
    BY <1>1, <1>3
<1> HIDE DEF z, c
<1>11. Shifted(start, k) <= Shifted(end - 1, k)
    BY <1>2, <1>4, <1>6, <1>8, <1>10
<1>12. Shifted(start, k) < Shifted(end - 1, k) <=> LastBlock(start, end, k) # 0
    BY <1>2, <1>4, <1>6, <1>8, <1>9, <1>10
<1> QED BY <1>4, <1>5, <1>6, <1>9, <1>10, <1>11, <1>12 DEF c

(* Steps 3 and 4 of the verification stop at a common node: the last part   *)
(* of the subtree on that level is a node of the tree.                      *)
LEMMA CommonEnd ==
    ASSUME NEW n \in Words, NEW end \in 0..n, NEW start \in 0..end,
           start < end, IsSubtree(start, end),
           NEW skip, skip = SkipToStart(start, end - 1, n - 1)
    PROVE  /\ skip \in 0..W
           /\ skip <= Height(start, end)
           /\ Pow2[skip] * Shifted(end - 1, skip)
                  = start + Pow2[skip] * LastBlock(start, end, skip)
           /\ BlockEnd(0, n, skip, Shifted(end - 1, skip)) = end
<1> DEFINE c == Height(start, end)
           d == DiffLen(start, end - 1)
           e == TrailingOnes(end - 1)
           u == Shifted(start, skip)
           m == LastBlock(start, end, skip)
<1>1. /\ n \in Nat /\ end \in Nat /\ start \in Nat /\ end \in Words /\ start \in Words
      /\ end - 1 \in Words /\ end - 1 \in Nat /\ n - 1 \in Nat /\ Pow2[W] \in Nat
    BY Pow2Type, WordWidth DEF Words
<1>2. c \in 0..W /\ ~(c < d) /\ d \in 0..W
    <2>1. c \in 0..W /\ LastBlock(start, end, c) = 0
        BY <1>1, SubtreeShape
    <2>2. Shifted(start, c) = Shifted(end - 1, c)
        BY <1>1, <2>1, EdgeBits
    <2>3. d \in 0..W /\ \A k \in 0..W : k < d => start \div Pow2[k] # (end - 1) \div Pow2[k]
        BY <1>1, DifferenceLength
    <2> HIDE DEF d, c
    <2> QED BY <2>1, <2>2, <2>3 DEF Shifted
<1>3. e \in 0..W /\ Pow2[e] * (Shifted(end - 1, e) + 1) = (end - 1) + 1
    BY <1>1, TrailingOnesAre
<1>4. skip = IF end = n THEN d ELSE Min({d, e})
    <2>1. (end - 1 = n - 1) <=> (end = n)
        BY <1>1
    <2> QED BY <2>1 DEF SkipToStart
<1> HIDE DEF c, d, e
<1>5. Min({d, e}) \in {d, e} /\ Min({d, e}) <= d /\ Min({d, e}) <= e
    <2>1. {d, e} \in SUBSET Nat /\ {d, e} # {}
        BY <1>2, <1>3
    <2> QED BY <2>1, MinIsSmallest
<1>6. skip \in 0..W /\ skip <= c /\ (end # n => skip <= e)
    BY <1>2, <1>3, <1>4, <1>5, WordWidth
<1>7. /\ u \in Nat /\ m \in Nat /\ Shifted(end - 1, skip) = u + m
      /\ Pow2[skip] * (u + m) = start + Pow2[skip] * m
    <2>1. skip \in 0..c
        BY <1>2, <1>6
    <2>2. m \in Nat /\ Shifted(end - 1, skip) = u + m
        BY <1>1, <1>6, EdgeBits DEF c
    <2>3. u \in Nat /\ Pow2[skip] * (u + m) = start + Pow2[skip] * m
        BY <1>1, <2>1, <2>2, Relative DEF c
    <2> QED BY <2>2, <2>3
<1> HIDE DEF u, m
<1>9. BlockEnd(0, n, skip, u + m) = end
    <2>1. CASE end = n
        <3>1. 0 \in Nat /\ 0 < n
            BY <1>1, <2>1
        <3>2. BlockEnd(0, n, skip, LastBlock(0, n, skip)) = n
            BY <1>1, <1>6, <3>1, LastBlockEnds
        <3>3. LastBlock(0, n, skip) = Shifted(end - 1, skip)
            BY <1>1, <2>1 DEF LastBlock
        <3> QED BY <1>7, <2>1, <3>2, <3>3
    <2>2. CASE end # n
        <3>1. e \in skip..W
            BY <1>3, <1>6, <2>2, WordWidth
        <3>2. PICK q \in Nat \ {0} : Pow2[e] = Pow2[skip] * q
            BY <1>6, <3>1, PowersDivide
        <3>3. PICK r : r = Shifted(end - 1, e) + 1
            OBVIOUS
        <3>4. r \in Nat \ {0} /\ (Pow2[skip] * q) * r = end
            <4>1. Shifted(end - 1, e) \in Nat
                BY <1>1, <1>3, Shifting
            <4> QED BY <1>1, <1>3, <3>2, <3>3, <4>1
        <3>5. PICK D : D = Pow2[skip]
            OBVIOUS
        <3>6. D \in Nat \ {0}
            BY <1>6, <3>5, Pow2Type
        <3>7. PICK k : k = q * r
            OBVIOUS
        <3>8. k \in Nat \ {0} /\ (D * q) * r = D * k
            <4>1. q * r \in Nat \ {0}
                BY <3>2, <3>4
            <4>2. (D * q) * r = D * (q * r)
                BY <3>2, <3>4, <3>6
            <4> QED BY <3>7, <4>1, <4>2
        <3>9. D * k = end
            BY <3>4, <3>5, <3>8
        <3>10. k - 1 \in Nat /\ D * (k - 1) = D * k - D /\ D * (k - 1) \in Nat
            BY <3>6, <3>8
        <3>11. Pow2[skip] * (k - 1) <= end - 1 /\ end - 1 < Pow2[skip] * (k - 1) + Pow2[skip]
            BY <1>1, <3>5, <3>6, <3>9, <3>10
        <3>12. Shifted(end - 1, skip) = k - 1
            BY <1>1, <1>6, <3>10, <3>11, ShiftedIs
        <3>13. (u + m) + 1 = k
            BY <1>7, <3>8, <3>12
        <3>14. 0 + Pow2[skip] * ((u + m) + 1) = end
            BY <1>1, <3>5, <3>9, <3>13
        <3> QED BY <1>1, <3>14 DEF BlockEnd
    <2> QED BY <2>1, <2>2
<1> QED BY <1>6, <1>7, <1>9 DEF c, m

LEMMA CommonNode ==
    ASSUME NEW data, NEW n \in Words, NEW end \in 0..n, NEW start \in 0..end,
           start < end, IsSubtree(start, end),
           NEW skip, skip = SkipToStart(start, end - 1, n - 1)
    PROVE  /\ skip \in 0..W
           /\ RightEdge(data, start, end, skip) = Holding(data, 0, n, end - 1, skip)
<1> DEFINE m == LastBlock(start, end, skip)
           f == Shifted(end - 1, skip)
<1>1. start \in Nat /\ end \in Nat
    BY Pow2Type, WordWidth DEF Words
<1>2. /\ skip \in 0..W
      /\ Pow2[skip] * f = start + Pow2[skip] * m
      /\ BlockEnd(0, n, skip, f) = end
    BY CommonEnd
<1>3. RightEdge(data, start, end, skip) = MTH(data, start + Pow2[skip] * m, end)
    BY <1>1, <1>2, RightEdgeIs
<1>4. Holding(data, 0, n, end - 1, skip) = MTH(data, 0 + Pow2[skip] * f, end)
    BY <1>2 DEF Holding, Block
<1>5. 0 + Pow2[skip] * f = Pow2[skip] * f
    <2>1. Pow2[skip] \in Nat /\ f \in Nat
        <3>1. end - 1 \in Nat
            BY <1>1
        <3> QED BY <1>2, <3>1, Pow2Type, Shifting
    <2>2. Pow2[skip] * f \in Nat
        BY <2>1
    <2> QED BY <2>2
<1> QED BY <1>2, <1>3, <1>4, <1>5

(* A step of the verifier, past the next level k on which the tree has a    *)
(* sibling, changes the subtree's block just as the code does.              *)
LEMMA EdgeStep ==
    ASSUME NEW data, Len(data) \in Words, NEW n \in 0..Len(data), NEW end \in 0..n,
           NEW start \in 0..end, start < end, IsSubtree(start, end),
           NEW j \in 0..W, NEW k \in j..(W - 1), HasSibling(0, n, end - 1, k),
           \A i \in j..(k - 1) : ~HasSibling(0, n, end - 1, i),
           NEW joins, joins <=> Odd(Shifted(end - 1, k))
    PROVE  RightEdge(data, start, end, k + 1) =
               IF joins /\ Shifted(start, j) < Shifted(end - 1, j)
               THEN HashNode(SiblingBlock(data, 0, n, end - 1, k), RightEdge(data, start, end, j))
               ELSE RightEdge(data, start, end, j)
<1> DEFINE z     == end - start - 1
           c     == Height(start, end)
           lb(i) == LastBlock(start, end, i)
           u     == Shifted(start, k)
<1>1. /\ Len(data) \in Nat /\ n \in Nat /\ end \in Nat /\ start \in Nat /\ end \in Words
      /\ z \in 0..(end - start - 1) /\ end \in 0..Len(data) /\ z \in Nat
      /\ k \in 0..(W - 1) /\ k \in 0..W /\ k + 1 \in 0..W /\ k \in j..W /\ n - 1 \in Nat
      /\ end - 1 \in Nat /\ end - 1 <= n - 1 /\ Pow2[W] \in Nat
    BY Pow2Type, WordWidth DEF Words
<1>2. \A i \in 0..W : /\ Shifted(z, i) = lb(i) /\ lb(i) \in Nat
                      /\ i < c <=> lb(i) # 0
                      /\ Shifted(start, i) < Shifted(end - 1, i) <=> lb(i) # 0
                      /\ i < c => (Odd(Shifted(end - 1, i)) <=> Odd(lb(i)))
    <2> TAKE i \in 0..W
    <2>1. Shifted(z, i) = lb(i)
        BY DEF LastBlock
    <2>2. /\ lb(i) \in Nat
          /\ i < c <=> lb(i) # 0
          /\ Shifted(start, i) < Shifted(end - 1, i) <=> lb(i) # 0
          /\ i < c => (Odd(Shifted(end - 1, i)) <=> Odd(lb(i)))
        BY <1>1, EdgeBits
    <2> QED BY <2>1, <2>2
<1>3. /\ \A i \in 0..W : RightEdge(data, start, end, i) = Holding(data, start, end, z, i)
      /\ c \in 0..W
    BY <1>1, RightEdgeIs, SubtreeShape
<1> HIDE DEF z, c, lb
<1>4. ~Odd(0)
    BY DEF Odd
<1>5. \A i \in 0..W : HasSibling(start, end, z, i) <=> (i < c /\ Odd(Shifted(end - 1, i)))
    <2> TAKE i \in 0..W
    <2>1. HasSibling(start, end, z, i) <=> (Odd(lb(i)) \/ lb(i) < lb(i))
        BY <1>2 DEF HasSibling, lb
    <2>2. ~(lb(i) < lb(i))
        BY <1>2
    <2> QED BY <1>2, <1>4, <2>1, <2>2
<1>6. \A i \in j..(k - 1) : i \in 0..W /\ ~HasSibling(start, end, z, i)
    <2> TAKE i \in j..(k - 1)
    <2>1. i \in 0..W
        BY <1>1, WordWidth
    <2>2. ~Odd(Shifted(end - 1, i))
        BY DEF HasSibling
    <2> QED BY <1>5, <2>1, <2>2
<1>7. RightEdge(data, start, end, k) = RightEdge(data, start, end, j)
    <2>1. Holding(data, start, end, z, k) = Holding(data, start, end, z, j)
        BY <1>1, <1>6, HoldingStays DEF z
    <2> QED BY <1>1, <1>3, <2>1
<1>8. j < c <=> k < c
    <2> SUFFICES ASSUME j < c, ~(k < c) PROVE FALSE
        BY <1>1, <1>3, WordWidth
    <2>1. /\ c - 1 \in j..(k - 1) /\ c - 1 \in 0..(W - 1) /\ c - 1 \in 0..W /\ c - 1 < c
          /\ (c - 1) + 1 = c
        BY <1>1, <1>3, WordWidth
    <2>2. ~Odd(lb(c - 1)) /\ lb(c - 1) # 0
        BY <1>2, <1>5, <1>6, <2>1
    <2>3. lb(c) = 0
        BY <1>2, <1>3, WordWidth
    <2>4. ~Odd(Shifted(z, c - 1)) => Shifted(z, c - 1) = 2 * Shifted(z, (c - 1) + 1)
        BY <1>1, <2>1, ShiftOnce
    <2>5. lb(c - 1) = 2 * lb(c)
        BY <1>2, <1>3, <2>1, <2>2, <2>4
    <2> QED BY <2>2, <2>3, <2>5
<1>9. (joins /\ Shifted(start, j) < Shifted(end - 1, j)) <=> HasSibling(start, end, z, k)
    BY <1>1, <1>2, <1>5, <1>8
<1>10. IF HasSibling(start, end, z, k)
       THEN Holding(data, start, end, z, k + 1)
                = IF Odd(Shifted(z, k))
                  THEN HashNode(SiblingBlock(data, start, end, z, k),
                                Holding(data, start, end, z, k))
                  ELSE HashNode(Holding(data, start, end, z, k),
                                SiblingBlock(data, start, end, z, k))
       ELSE Holding(data, start, end, z, k + 1) = Holding(data, start, end, z, k)
    BY <1>1, HoldingJoins DEF z
<1>11. CASE ~HasSibling(start, end, z, k)
    BY <1>1, <1>3, <1>7, <1>9, <1>10, <1>11
<1>12. CASE HasSibling(start, end, z, k)
    <2>1. k < c /\ Odd(Shifted(end - 1, k)) /\ lb(k) # 0 /\ Odd(lb(k))
        BY <1>1, <1>2, <1>5, <1>12
    <2>2. PICK m : m = lb(k)
        OBVIOUS
    <2>3. /\ m \in Nat /\ m # 0 /\ Odd(m) /\ Shifted(z, k) = m /\ m - 1 \in Nat /\ m - 1 < m
        BY <1>1, <1>2, <2>1, <2>2
    <2>4. Shifted(end - 1, k) = u + m /\ u \in Nat
        <3>1. k <= Height(start, end)
            BY <1>1, <1>3, <2>1 DEF c
        <3> QED BY <1>1, <2>2, <3>1, EdgeBits DEF lb
    <2>5. /\ Pow2[k] * (u + (m - 1)) = start + Pow2[k] * (m - 1)
          /\ Pow2[k] * (u + m) = start + Pow2[k] * m
        <3>1. k \in 0..Height(start, end)
            BY <1>1, <1>3, <2>1 DEF c
        <3>2. Pow2[k] * (u + (m - 1)) = start + Pow2[k] * (m - 1)
            BY <1>1, <2>3, <3>1, Relative
        <3>3. Pow2[k] * (u + m) = start + Pow2[k] * m
            BY <1>1, <2>3, <3>1, Relative
        <3> QED BY <3>2, <3>3
    <2> HIDE DEF u
    <2>6. BlockEnd(start, end, k, m - 1) = start + Pow2[k] * m
        <3>1. m - 1 < LastBlock(start, end, k) /\ (m - 1) + 1 = m
            BY <2>2, <2>3 DEF lb
        <3>2. BlockEnd(start, end, k, m - 1) = start + Pow2[k] * ((m - 1) + 1)
            BY <1>1, <2>3, <3>1, CompleteBlock
        <3> QED BY <3>1, <3>2
    <2>7. BlockEnd(0, n, k, u + (m - 1)) = 0 + Pow2[k] * (u + m)
        <3>1. Shifted(end - 1, k) <= Shifted(n - 1, k) /\ Shifted(n - 1, k) \in Nat
            BY <1>1, ShiftMonotone, Shifting
        <3>2. LastBlock(0, n, k) = Shifted(n - 1, k)
            BY <1>1 DEF LastBlock
        <3>3. /\ u + (m - 1) \in Nat /\ u + (m - 1) < LastBlock(0, n, k)
              /\ (u + (m - 1)) + 1 = u + m /\ 0 \in Nat /\ 0 < n
            BY <1>1, <2>3, <2>4, <3>1, <3>2
        <3>4. BlockEnd(0, n, k, u + (m - 1)) = 0 + Pow2[k] * ((u + (m - 1)) + 1)
            BY <1>1, <3>3, CompleteBlock
        <3> QED BY <3>3, <3>4
    <2>8. Block(data, start, end, k, m - 1) = Block(data, 0, n, k, u + (m - 1))
        <3>1. Pow2[k] \in Nat
            BY <1>1, Pow2Type
        <3>2. Pow2[k] * (m - 1) \in Nat /\ Pow2[k] * m \in Nat
            BY <2>3, <3>1, SMTT(30)
        <3>3. /\ 0 + Pow2[k] * (u + (m - 1)) = start + Pow2[k] * (m - 1)
              /\ 0 + Pow2[k] * (u + m) = start + Pow2[k] * m
            BY <1>1, <2>5, <3>2
        <3> QED BY <2>6, <2>7, <3>3 DEF Block
    <2>9. SiblingBlock(data, start, end, z, k) = Block(data, start, end, k, m - 1)
        BY <2>3 DEF SiblingBlock
    <2>10. SiblingBlock(data, 0, n, end - 1, k) = Block(data, 0, n, k, u + (m - 1))
        <3>1. (u + m) - 1 = u + (m - 1)
            BY <2>3, <2>4
        <3>2. Odd(u + m)
            BY <2>1, <2>4
        <3> QED BY <2>4, <3>1, <3>2 DEF SiblingBlock
    <2>11. Odd(Shifted(z, k))
        BY <2>3
    <2> QED BY <1>1, <1>3, <1>7, <1>9, <1>10, <1>12, <2>8, <2>9, <2>10, <2>11
<1> QED BY <1>11, <1>12

(* An element takes the verifier past the tree's next level with a sibling. *)
GoesOn(n, y, j, sn, tn, shift) ==
    \E k \in j..(W - 1) :
        /\ HasSibling(0, n, y, k)
        /\ \A l \in j..(k - 1) : ~HasSibling(0, n, y, l)
        /\ Shifted(sn, shift) = Shifted(y, k + 1)
        /\ Shifted(tn, shift) = LastBlock(0, n, k + 1)
        /\ Odd(Shifted(y, k)) <=> (Odd(sn) \/ sn = tn)
        /\ shift = (k + 1) - j

LEMMA TreeStep ==
    ASSUME NEW n \in Words, NEW y \in 0..(n - 1), n # 0, NEW j \in 0..W,
           NEW sn, sn = Shifted(y, j), NEW tn, tn = LastBlock(0, n, j), tn # 0,
           NEW shift, shift = IF Odd(sn) \/ sn = tn THEN TrailingZeros(sn) + 1 ELSE 1
    PROVE  GoesOn(n, y, j, sn, tn, shift)
<1>1. 0 \in 0..n /\ 0 < n /\ y \in 0..(n - 0 - 1)
    BY Pow2Type, WordWidth DEF Words
<1> QED BY <1>1, VerifierShift DEF GoesOn

(* Whatever the proof, the verification ends in the tree's root only with   *)
(* the hash of the subtree.                                                 *)
LEMMA ConsistencyBinds ==
    ASSUME NEW data, Len(data) \in Words, NEW n \in 0..Len(data), NEW end \in 0..n,
           NEW start \in 0..end, IsSubtree(start, end),
           NEW proof, Len(proof) \in Nat, NEW nodeHash,
           VerifySubtreeConsistencyProof(proof, start, end, n, nodeHash, MTH(data, 0, n))
    PROVE  nodeHash = MTH(data, start, end)
<1>1. /\ Len(data) \in Nat /\ n \in Nat /\ end \in Nat /\ start \in Nat /\ end \in Words
      /\ n \in Words /\ end \in 0..Len(data)
    BY Pow2Type, WordWidth DEF Words
<1>2. CASE start = end
    <2>1. nodeHash = HashEmpty
        BY <1>2 DEF VerifySubtreeConsistencyProof
    <2>2. MTH(data, start, end) = HashEmpty
        BY <1>1, <1>2, SmallHash
    <2> QED BY <2>1, <2>2
<1>3. CASE start # end
    <2> DEFINE skip == SkipToStart(start, end - 1, n - 1)
               from == IF Shifted(start, skip) = Shifted(end - 1, skip) THEN 0 ELSE 1
               hash == IF Shifted(start, skip) = Shifted(end - 1, skip) THEN nodeHash ELSE proof[1]
               at   == FoldConsistency(proof, from, Shifted(start, skip),
                                       Shifted(end - 1, skip), Shifted(n - 1, skip), hash)
               M    == Len(proof)
               E(j) == RightEdge(data, start, end, j)
               T(j) == Holding(data, 0, n, end - 1, j)
               Good(i) == \/ at[i].tooMany
                          \/ \E j \in 0..W :
                                 /\ at[i].fn = Shifted(start, j)
                                 /\ at[i].sn = Shifted(end - 1, j)
                                 /\ at[i].tn = Shifted(n - 1, j)
                                 /\ at[i].sr = T(j) => at[i].fr = E(j)
               Other == {i \in from..M : ~Good(i)}
    <2>1. /\ start < end /\ 0 < n /\ n - 1 \in Nat /\ end - 1 \in Nat /\ M \in Nat
          /\ end - 1 <= n - 1 /\ end - 1 \in 0..(n - 0 - 1) /\ n - 0 - 1 = n - 1
        BY <1>1, <1>3
    <2>2. /\ from <= M
          /\ FinalChecks(at[M], nodeHash, MTH(data, 0, n))
        BY <1>3 DEF VerifySubtreeConsistencyProof
    <2>3. /\ skip \in 0..W /\ E(skip) = T(skip)
        BY <1>1, <2>1, CommonNode
    <2>4. PICK fn : fn = Shifted(start, skip)
        OBVIOUS
    <2>5. PICK sn : sn = Shifted(end - 1, skip)
        OBVIOUS
    <2>6. PICK tn : tn = Shifted(n - 1, skip)
        OBVIOUS
    <2>7. PICK base : base = hash
        OBVIOUS
    <2>8. PICK first : first = from
        OBVIOUS
    <2>9. PICK g : g = FoldConsistency(proof, first, fn, sn, tn, base)
        OBVIOUS
    <2>10. first \in 0..M /\ first \in Nat
        BY <2>1, <2>2, <2>8
    <2>11. at = g
        BY <2>4, <2>5, <2>6, <2>7, <2>8, <2>9
    <2> HIDE DEF at, from, hash
    <2>12. /\ g[first].fn = fn /\ g[first].sn = sn /\ g[first].tn = tn
           /\ g[first].fr = base /\ g[first].sr = base /\ ~g[first].tooMany
           /\ \A i \in (first + 1)..M :
                  LET before == g[i - 1]
                      joins  == Odd(before.sn) \/ before.sn = before.tn
                      shift  == IF joins THEN TrailingZeros(before.sn) + 1 ELSE 1
                  IN  /\ g[i].fn = Shifted(before.fn, shift)
                      /\ g[i].sn = Shifted(before.sn, shift)
                      /\ g[i].tn = Shifted(before.tn, shift)
                      /\ g[i].fr = IF joins /\ before.fn < before.sn
                                   THEN HashNode(proof[i], before.fr) ELSE before.fr
                      /\ g[i].sr = Joined(joins, proof[i], before.sr)
                      /\ g[i].tooMany = (before.tooMany \/ before.tn = 0)
        BY <2>9, <2>10, ConsistencySteps
    <2> HIDE DEF M, skip, E, T
    <2>13. Good(first)
        <3>1. at[first].sr = T(skip) => at[first].fr = E(skip)
            BY <2>3, <2>11, <2>12
        <3> QED BY <2>3, <2>4, <2>5, <2>6, <2>11, <2>12, <3>1
    <2>14. ASSUME NEW i \in (first + 1)..M, Good(i - 1) PROVE Good(i)
        <3> SUFFICES ASSUME ~at[i].tooMany PROVE Good(i)
            OBVIOUS
        <3> DEFINE before == g[i - 1]
                   joins  == Odd(before.sn) \/ before.sn = before.tn
                   shift  == IF joins THEN TrailingZeros(before.sn) + 1 ELSE 1
        <3>1. /\ g[i].fn = Shifted(before.fn, shift)
              /\ g[i].sn = Shifted(before.sn, shift)
              /\ g[i].tn = Shifted(before.tn, shift)
              /\ g[i].fr = IF joins /\ before.fn < before.sn
                           THEN HashNode(proof[i], before.fr) ELSE before.fr
              /\ g[i].sr = Joined(joins, proof[i], before.sr)
              /\ g[i].tooMany = (before.tooMany \/ before.tn = 0)
            BY <2>12
        <3>2. ~before.tooMany /\ before.tn # 0
            BY <2>11, <3>1
        <3>3. PICK j \in 0..W :
                  /\ before.fn = Shifted(start, j)
                  /\ before.sn = Shifted(end - 1, j)
                  /\ before.tn = Shifted(n - 1, j)
                  /\ before.sr = T(j) => before.fr = E(j)
            BY <2>11, <2>14, <3>2
        <3> HIDE DEF before, Good
        <3>4. before.tn = LastBlock(0, n, j)
            BY <2>1, <3>3 DEF LastBlock
        <3>5. PICK k \in j..(W - 1) :
                  /\ HasSibling(0, n, end - 1, k)
                  /\ \A l \in j..(k - 1) : ~HasSibling(0, n, end - 1, l)
                  /\ Shifted(before.sn, shift) = Shifted(end - 1, k + 1)
                  /\ Shifted(before.tn, shift) = LastBlock(0, n, k + 1)
                  /\ Odd(Shifted(end - 1, k)) <=> (Odd(before.sn) \/ before.sn = before.tn)
                  /\ shift = (k + 1) - j
            <4>1. PICK f : f = before.sn
                OBVIOUS
            <4>2. PICK m : m = before.tn
                OBVIOUS
            <4>3. PICK by : by = IF Odd(f) \/ f = m THEN TrailingZeros(f) + 1 ELSE 1
                OBVIOUS
            <4>4. PICK y : y = end - 1
                OBVIOUS
            <4>5. /\ n \in Words /\ y \in 0..(n - 1) /\ n # 0 /\ j \in 0..W
                  /\ f = Shifted(y, j) /\ m = LastBlock(0, n, j) /\ m # 0
                BY <1>1, <2>1, <3>2, <3>3, <3>4, <4>1, <4>2, <4>4
            <4>6. by = shift
                BY <4>1, <4>2, <4>3
            <4> HIDE DEF shift, joins
            <4>7. GoesOn(n, y, j, f, m, by)
                BY <4>3, <4>5, TreeStep
            <4> QED BY <4>1, <4>2, <4>4, <4>6, <4>7 DEF GoesOn
        <3>6. joins <=> Odd(Shifted(end - 1, k))
            BY <3>5
        <3>7. k + 1 \in 0..W /\ k \in 0..(W - 1) /\ j + shift = k + 1 /\ shift \in 0..W
            BY <3>5, WordWidth
        <3> HIDE DEF joins, shift
        <3>8. Shifted(before.fn, shift) = Shifted(start, k + 1)
            <4>1. PICK by : by = shift
                OBVIOUS
            <4>2. by \in 0..W /\ j + by <= W /\ j + by = k + 1
                BY <3>7, <4>1, WordWidth
            <4>3. Shifted(Shifted(start, j), by) = Shifted(start, j + by)
                BY <1>1, <4>2, ShiftTwice
            <4> QED BY <3>3, <4>1, <4>2, <4>3
        <3>9. Shifted(before.tn, shift) = Shifted(n - 1, k + 1)
            BY <2>1, <3>5 DEF LastBlock
        <3>10. PICK element : element = proof[i]
            OBVIOUS
        <3>11. PICK old : old = before.sr
            OBVIOUS
        <3>12. PICK y : y = end - 1
            OBVIOUS
        <3>13. /\ 0 < n /\ y \in 0..(n - 0 - 1) /\ 0 \in 0..n /\ HasSibling(0, n, y, k)
               /\ \A l \in j..(k - 1) : ~HasSibling(0, n, y, l)
               /\ joins <=> Odd(Shifted(y, k))
            BY <1>1, <2>1, <3>5, <3>6, <3>12
        <3>14. Joined(joins, element, old) = Holding(data, 0, n, y, k + 1)
                   => old = Holding(data, 0, n, y, j)
            BY <3>13, JoinedBlocks
        <3>15. Joined(joins, element, old) = Holding(data, 0, n, y, k + 1)
                   => element = SiblingBlock(data, 0, n, y, k)
            BY <3>7, <3>13, JoinedElement
        <3>16. RightEdge(data, start, end, k + 1) =
                   IF joins /\ Shifted(start, j) < Shifted(end - 1, j)
                   THEN HashNode(SiblingBlock(data, 0, n, end - 1, k), RightEdge(data, start, end, j))
                   ELSE RightEdge(data, start, end, j)
            BY <2>1, <3>5, <3>6, EdgeStep
        <3>17. ASSUME g[i].sr = T(k + 1) PROVE g[i].fr = E(k + 1)
            <4>1. Joined(joins, element, old) = Holding(data, 0, n, y, k + 1)
                BY <3>1, <3>10, <3>11, <3>12, <3>17 DEF T
            <4>2. before.sr = T(j) /\ proof[i] = SiblingBlock(data, 0, n, end - 1, k)
                BY <3>10, <3>11, <3>12, <3>14, <3>15, <4>1 DEF T
            <4>3. before.fr = RightEdge(data, start, end, j)
                BY <3>3, <4>2 DEF E
            <4>4. g[i].fr = IF joins /\ Shifted(start, j) < Shifted(end - 1, j)
                            THEN HashNode(proof[i], before.fr) ELSE before.fr
                BY <3>1, <3>3
            <4> QED BY <3>16, <4>2, <4>3, <4>4 DEF E
        <3> QED BY <2>11, <3>1, <3>5, <3>7, <3>8, <3>9, <3>17 DEF Good
    <2>15. Other = {}
        <3> SUFFICES ASSUME Other # {} PROVE FALSE
            OBVIOUS
        <3> HIDE DEF Good
        <3>1. Other \in SUBSET Nat
            BY <2>8, <2>10
        <3>2. PICK i \in Other : \A m \in Other : i <= m
            <4> HIDE DEF Other
            <4> QED BY <3>1, SmallestElement
        <3>3. i # first
            BY <2>13
        <3>4. i \in (first + 1)..M /\ i - 1 \in first..M /\ i - 1 \notin Other
            BY <2>1, <2>8, <2>10, <3>2, <3>3
        <3>5. Good(i - 1)
            BY <2>8, <3>4
        <3> QED BY <2>14, <3>4, <3>5
    <2>16. Good(M)
        <3> HIDE DEF Good
        <3>1. M \in first..M
            BY <2>1, <2>8, <2>10
        <3> QED BY <2>8, <2>15, <3>1
    <2>17. /\ ~at[M].tooMany /\ at[M].tn = 0 /\ at[M].fr = nodeHash
           /\ at[M].sr = MTH(data, 0, n)
        BY <2>2 DEF FinalChecks
    <2>18. PICK j \in 0..W : /\ Shifted(n - 1, j) = 0
                             /\ at[M].sr = T(j) => at[M].fr = E(j)
        BY <2>16, <2>17
    <2>19. Shifted(end - 1, j) = 0
        <3>1. Shifted(end - 1, j) <= Shifted(n - 1, j) /\ Shifted(end - 1, j) \in Nat
            BY <1>1, <2>1, ShiftMonotone, Shifting
        <3> QED BY <2>18, <3>1
    <2>20. T(j) = MTH(data, 0, n)
        <3>1. LastBlock(0, n, j) = 0 /\ 0 \in Nat /\ 0 < n
            BY <2>1, <2>18 DEF LastBlock
        <3>2. Block(data, 0, n, j, 0) = MTH(data, 0, n)
            BY <1>1, <3>1, OneBlock
        <3> QED BY <2>19, <3>2 DEF T, Holding
    <2>21. LastBlock(start, end, j) = 0
        <3>1. /\ Shifted(start, j) \in Nat
              /\ Shifted(start, j) < Shifted(end - 1, j) <=> LastBlock(start, end, j) # 0
            BY <1>1, <2>1, EdgeBits
        <3> QED BY <2>19, <3>1
    <2>22. E(j) = MTH(data, start, end)
        BY <1>1, <2>1, <2>21, RightEdgeIs DEF E
    <2> QED BY <2>17, <2>18, <2>20, <2>22
<1> QED BY <1>2, <1>3

-----------------------------------------------------------------------------
(* A consistency proof that the tree makes, followed by its verifier. The   *)
(* recursion of subtreeSubproof goes down to the node where the subtree's   *)
(* last part ends; read upwards, it appends the sibling of every node that  *)
(* holds the subtree's last entry, as the verifier's loop expects them.     *)

(* The way of the subtree's last entry up the tree of n entries: the nodes  *)
(* that hold it, as the recursion of subtreeSubproof meets them.            *)

NodeStart(end, k)  == Pow2[k] * Shifted(end - 1, k)
NodeEnd(n, end, k) == BlockEnd(0, n, k, Shifted(end - 1, k))

LEMMA NodeBounds ==
    ASSUME NEW data, NEW n \in Nat, NEW end \in 1..n, NEW k \in 0..W
    PROVE  /\ NodeStart(end, k) \in 0..(end - 1)
           /\ NodeEnd(n, end, k) \in end..n
           /\ NodeEnd(n, end, k) - NodeStart(end, k) \in 1..Pow2[k]
           /\ Holding(data, 0, n, end - 1, k) = MTH(data, NodeStart(end, k), NodeEnd(n, end, k))
<1> DEFINE z == end - 1
           f == Shifted(z, k)
           d == Pow2[k]
           r == z % d
<1>1. z \in Nat /\ end = z + 1 /\ end \in Nat
    OBVIOUS
<1>2. d \in Nat \ {0} /\ f \in Nat /\ r \in 0..(d - 1) /\ z = d * f + r
    BY <1>1, Shifting, Pow2Type
<1> HIDE DEF z, f, d, r
<1>3. PICK a : a = d * f
    OBVIOUS
<1>4. a \in Nat /\ d * (f + 1) = a + d
    <2>1. d * f \in Nat /\ d * (f + 1) = d * f + d
        BY <1>2
    <2> QED BY <1>3, <2>1
<1>5. a \in 0..(end - 1) /\ end <= a + d
    BY <1>1, <1>2, <1>3, <1>4
<1>6. PICK b : b = IF a + d <= n THEN a + d ELSE n
    OBVIOUS
<1>7. b \in end..n /\ b - a \in 1..d
    BY <1>1, <1>2, <1>4, <1>5, <1>6
<1>8. NodeStart(end, k) = a
    BY <1>3 DEF NodeStart, z, f, d
<1>9. NodeEnd(n, end, k) = b
    <2>1. NodeEnd(n, end, k) = IF 0 + d * (f + 1) <= n THEN 0 + d * (f + 1) ELSE n
        BY DEF NodeEnd, BlockEnd, z, f, d
    <2>2. 0 + d * (f + 1) = a + d
        BY <1>2, <1>4
    <2> QED BY <1>6, <2>1, <2>2
<1>10. Holding(data, 0, n, end - 1, k) = MTH(data, a, b)
    <2>1. Holding(data, 0, n, end - 1, k) = MTH(data, 0 + d * f, NodeEnd(n, end, k))
        BY DEF Holding, Block, NodeEnd, z, f, d
    <2>2. 0 + d * f = a
        BY <1>3, <1>4
    <2> QED BY <1>9, <2>1, <2>2
<1> QED BY <1>5, <1>7, <1>8, <1>9, <1>10 DEF d

(* The split of a size is known by where it lies. *)
LEMMA SplitLevel ==
    ASSUME NEW k \in 0..(W - 1), NEW size \in Nat, Pow2[k] < size, size <= 2 * Pow2[k]
    PROVE  /\ BitLen(size - 1) - 1 = k
           /\ size \in 2..Pow2[W]
<1> DEFINE c == BitLen(size - 1)
<1>1. /\ k \in 0..W /\ k + 1 \in 0..W /\ k + 1 \in 1..W /\ W \in 0..W
      /\ Pow2[k] \in Nat \ {0} /\ Pow2[k + 1] = 2 * Pow2[k] /\ Pow2[W] \in Nat
    BY Pow2Exists, Pow2Type, WordWidth
<1>2. Pow2[k + 1] <= Pow2[W]
    <2>1. k + 1 < W => Pow2[k + 1] < Pow2[W]
        BY <1>1, PowersAscend
    <2>2. k + 1 < W \/ k + 1 = W
        BY <1>1, WordWidth
    <2> QED BY <1>1, <2>1, <2>2
<1>3. /\ size \in 2..Pow2[W] /\ size - 1 \in 0..(Pow2[W] - 1)
      /\ Pow2[k] <= size - 1 /\ size - 1 < Pow2[k + 1]
    BY <1>1, <1>2
<1>4. /\ c \in 0..W /\ size - 1 < Pow2[c]
      /\ \A i \in 0..W : i < c => Pow2[i] <= size - 1
    BY <1>3, BitLength
<1> HIDE DEF c
<1>5. ~(c < k)
    <2> SUFFICES ASSUME c < k PROVE FALSE
        OBVIOUS
    <2>1. Pow2[c] < Pow2[k] /\ Pow2[c] \in Nat
        BY <1>1, <1>4, PowersAscend, Pow2Type
    <2> QED BY <1>1, <1>3, <1>4, <2>1
<1>6. c # k
    BY <1>1, <1>3, <1>4
<1>7. ~(k + 1 < c)
    BY <1>1, <1>3, <1>4
<1>8. c = k + 1
    BY <1>1, <1>4, <1>5, <1>6, <1>7, WordWidth
<1> QED BY <1>1, <1>3, <1>8 DEF c

(* The node one level up: the same, or joined with its sibling. *)
NodeJoins(data, n, end, k) ==
    LET a    == NodeStart(end, k)
        b    == NodeEnd(n, end, k)
        over == NodeStart(end, k + 1)
        to   == NodeEnd(n, end, k + 1)
    IN  IF ~HasSibling(0, n, end - 1, k) THEN over = a /\ to = b
        ELSE /\ Pow2[k] < to - over /\ to - over <= 2 * Pow2[k]
             /\ IF Odd(Shifted(end - 1, k))
                THEN /\ over + Pow2[k] = a /\ to = b
                     /\ SiblingBlock(data, 0, n, end - 1, k) = MTH(data, over, a)
                ELSE /\ over = a /\ b = a + Pow2[k] /\ b < to
                     /\ SiblingBlock(data, 0, n, end - 1, k) = MTH(data, b, to)

LEMMA NodeGrows ==
    ASSUME NEW data, NEW n \in Nat, NEW end \in 1..n, NEW k \in 0..(W - 1)
    PROVE  NodeJoins(data, n, end, k)
<1> DEFINE z  == end - 1
           d  == Pow2[k]
           f  == Shifted(z, k)
           h  == Shifted(z, k + 1)
           L  == LastBlock(0, n, k)
           L1 == LastBlock(0, n, k + 1)
           a  == NodeStart(end, k)
           b  == NodeEnd(n, end, k)
           a1 == NodeStart(end, k + 1)
           b1 == NodeEnd(n, end, k + 1)
<1>1. /\ z \in Nat /\ n - 1 \in Nat /\ z <= n - 1 /\ 0 < n /\ n - 0 - 1 = n - 1 /\ 0 \in Nat
      /\ k \in 0..W /\ k + 1 \in 0..W /\ k + 1 \in 1..W
      /\ Pow2[k + 1] = 2 * d /\ d \in Nat \ {0}
    BY Pow2Exists, Pow2Type, WordWidth
<1>2. /\ f \in Nat /\ h \in Nat
      /\ Odd(f) => f = 2 * h + 1
      /\ ~Odd(f) => f = 2 * h
    BY <1>1, Shifting, ShiftOnce
<1>3. /\ L = Shifted(n - 1, k) /\ L1 = Shifted(n - 1, k + 1)
    BY <1>1 DEF LastBlock
<1>4. /\ L \in Nat /\ L1 \in Nat /\ f <= L
      /\ ~Odd(L) => L = 2 * L1
    <2>1. /\ Shifted(n - 1, k) \in Nat /\ Shifted(n - 1, k + 1) \in Nat
          /\ ~Odd(Shifted(n - 1, k)) => Shifted(n - 1, k) = 2 * Shifted(n - 1, k + 1)
        BY <1>1, Shifting, ShiftOnce
    <2>2. Shifted(z, k) <= Shifted(n - 1, k)
        BY <1>1, ShiftMonotone
    <2> HIDE DEF z, L, L1
    <2> QED BY <1>3, <2>1, <2>2
<1>5. /\ a = d * f
      /\ b = IF 0 + d * (f + 1) <= n THEN 0 + d * (f + 1) ELSE n
      /\ a1 = (2 * d) * h
      /\ b1 = IF 0 + (2 * d) * (h + 1) <= n THEN 0 + (2 * d) * (h + 1) ELSE n
    BY <1>1 DEF NodeStart, NodeEnd, BlockEnd
<1>7. b = BlockEnd(0, n, k, f) /\ b1 = BlockEnd(0, n, k + 1, h)
    BY DEF NodeEnd
<1>8. /\ HasSibling(0, n, end - 1, k) <=> Odd(f) \/ f < L
      /\ SiblingBlock(data, 0, n, end - 1, k)
             = Block(data, 0, n, k, IF Odd(f) THEN f - 1 ELSE f + 1)
    BY DEF HasSibling, SiblingBlock
<1>9. /\ \A j : Block(data, 0, n, k, j) = MTH(data, 0 + d * j, BlockEnd(0, n, k, j))
      /\ \A j : BlockEnd(0, n, k, j) = IF 0 + d * (j + 1) <= n THEN 0 + d * (j + 1) ELSE n
    BY DEF Block, BlockEnd
<1>10. \A j \in Nat : j < L => BlockEnd(0, n, k, j) = 0 + d * (j + 1) /\ 0 + d * (j + 1) < n
    BY <1>1, CompleteBlock
<1>11. /\ a \in Nat /\ b \in Nat /\ a1 \in Nat /\ b1 \in Nat /\ b <= n /\ a < b
    <2>1. /\ a \in 0..(end - 1) /\ b \in end..n
        BY <1>1, NodeBounds
    <2>2. a1 \in 0..(end - 1) /\ b1 \in end..n
        BY <1>1, NodeBounds
    <2> HIDE DEF a, b, a1, b1
    <2> QED BY <2>1, <2>2
<1> HIDE DEF d, f, h, L, L1, a, b, a1, b1
<1>12. /\ (2 * d) * h = d * (2 * h)
       /\ (2 * d) * (h + 1) = d * (2 * h) + 2 * d
       /\ d * (2 * h) \in Nat
       /\ d * (2 * h + 1) = d * (2 * h) + d
       /\ d * ((2 * h) + 2) = d * (2 * h) + 2 * d
    BY <1>1, <1>2
<1>13. PICK A : A = d * (2 * h)
    OBVIOUS
<1>14. a1 = A /\ b1 = IF A + 2 * d <= n THEN A + 2 * d ELSE n
    <2>1. 0 + (2 * d) * (h + 1) = A + 2 * d
        BY <1>1, <1>12, <1>13
    <2> QED BY <1>5, <1>12, <1>13, <2>1
<1>15. CASE Odd(f)
    <2>1. f = 2 * h + 1 /\ f - 1 = 2 * h /\ f - 1 \in Nat /\ f + 1 = 2 * h + 2 /\ f - 1 < L
        BY <1>2, <1>4, <1>15
    <2>2. /\ a = A + d
          /\ b = IF A + 2 * d <= n THEN A + 2 * d ELSE n
        <3>1. d * f = A + d /\ d * (f + 1) = A + 2 * d
            BY <1>12, <1>13, <2>1
        <3>2. 0 + d * (f + 1) = A + 2 * d
            BY <1>1, <1>12, <1>13, <3>1
        <3> QED BY <1>5, <3>1, <3>2
    <2>3. /\ a1 + d = a /\ b1 = b
        BY <1>14, <2>2
    <2>4. d < b1 - a1 /\ b1 - a1 <= 2 * d
        BY <1>1, <1>11, <1>12, <1>13, <1>14, <2>2, <2>3
    <2>5. Block(data, 0, n, k, f - 1) = MTH(data, a1, a)
        <3>1. BlockEnd(0, n, k, f - 1) = 0 + d * ((f - 1) + 1)
            BY <1>10, <2>1
        <3>2. 0 + d * ((f - 1) + 1) = a
            <4>1. (f - 1) + 1 = 2 * h + 1
                BY <1>2, <2>1
            <4> QED BY <1>1, <1>12, <1>13, <2>2, <4>1
        <3>3. 0 + d * (f - 1) = a1
            BY <1>12, <1>13, <1>14, <2>1
        <3> QED BY <1>9, <3>1, <3>2, <3>3
    <2>6. HasSibling(0, n, end - 1, k) /\ SiblingBlock(data, 0, n, end - 1, k) = MTH(data, a1, a)
        BY <1>8, <1>15, <2>5
    <2> QED BY <1>15, <2>3, <2>4, <2>6 DEF NodeJoins, a, b, a1, b1, d, f, z
<1>16. CASE ~Odd(f)
    <2>1. f = 2 * h /\ f + 1 = 2 * h + 1 /\ f + 1 \in Nat
        BY <1>2, <1>16
    <2>2. a = A /\ a1 = a
        BY <1>5, <1>13, <1>14, <2>1
    <2>3. CASE f < L
        <3>1. /\ b = 0 + d * (f + 1) /\ 0 + d * (f + 1) < n
            BY <1>2, <1>7, <1>10, <2>3
        <3>2. 0 + d * (f + 1) = A + d
            <4>1. d * (f + 1) = A + d
                BY <1>12, <1>13, <2>1
            <4> QED BY <1>1, <1>12, <1>13, <4>1
        <3>3. b = a + d /\ A + d < n
            BY <2>2, <3>1, <3>2
        <3>4. b < b1 /\ d < b1 - a1 /\ b1 - a1 <= 2 * d
            BY <1>1, <1>12, <1>13, <1>14, <2>2, <3>3
        <3>5. Block(data, 0, n, k, f + 1) = MTH(data, b, b1)
            <4>1. 0 + d * ((f + 1) + 1) = A + 2 * d
                <5>1. (f + 1) + 1 = (2 * h) + 2
                    BY <1>2, <2>1
                <5>2. d * ((f + 1) + 1) = A + 2 * d
                    BY <1>12, <1>13, <5>1
                <5> QED BY <1>1, <1>12, <1>13, <5>2
            <4>2. BlockEnd(0, n, k, f + 1) = b1
                BY <1>9, <1>14, <4>1
            <4>3. 0 + d * (f + 1) = b
                BY <3>1
            <4> QED BY <1>9, <4>2, <4>3
        <3>6. HasSibling(0, n, end - 1, k) /\ SiblingBlock(data, 0, n, end - 1, k) = MTH(data, b, b1)
            BY <1>8, <1>16, <2>3, <3>5
        <3> QED BY <1>16, <2>2, <3>3, <3>4, <3>6 DEF NodeJoins, a, b, a1, b1, d, f, z
    <2>4. CASE ~(f < L)
        <3>1. f = L
            BY <1>2, <1>4, <2>4
        <3>2. L = 2 * L1
            BY <1>4, <1>16, <3>1
        <3>3. h = L1
            BY <1>2, <1>4, <2>1, <3>1, <3>2
        <3>4. BlockEnd(0, n, k, L) = n /\ BlockEnd(0, n, k + 1, L1) = n
            BY <1>1, LastBlockEnds DEF L, L1
        <3>5. b = n /\ b1 = n
            BY <1>7, <3>1, <3>3, <3>4
        <3>6. ~HasSibling(0, n, end - 1, k)
            BY <1>8, <1>16, <2>4
        <3> QED BY <2>2, <3>5, <3>6 DEF NodeJoins, a, b, a1, b1
    <2> QED BY <2>3, <2>4
<1> QED BY <1>15, <1>16

(* What the tree computes for a part of such a node is the hash of its      *)
(* entries.                                                                 *)
LEMMA AlignedHash ==
    ASSUME NEW data, Len(data) \in Words, NEW t, t = NewMerkleTree(data),
           NEW k \in 0..W, NEW q \in Nat, NEW a, a = Pow2[k] * q,
           NEW b \in 0..Len(data), a < b, b <= a + Pow2[k]
    PROVE  SubtreeHash(t, a, b) = MTH(data, a, b)
<1>1. Pow2[k] \in Nat \ {0} /\ Len(data) \in Nat
    BY Pow2Type, WordWidth DEF Words
<1>2. a \in Nat
    <2>1. Pow2[k] * q \in Nat
        BY <1>1
    <2> QED BY <2>1
<1>3. PICK size : size = b - a
    OBVIOUS
<1>4. size \in 1..Pow2[k] /\ a + size = b /\ a \in 0..b
    <2>1. PICK d \in Nat \ {0} : d = Pow2[k]
        BY <1>1
    <2>2. b \in Nat /\ b <= a + d
        BY <1>1, <2>1
    <2>3. PICK x \in Nat : x = a
        BY <1>2
    <2>4. x < b /\ b <= x + d /\ size = b - x
        BY <1>3, <2>2, <2>3
    <2>5. size \in 1..d
        <3>1. \A u, v, w \in Nat : u < v /\ v <= u + w => v - u \in 1..w
            OBVIOUS
        <3>2. x \in Nat /\ b \in Nat /\ d \in Nat
            BY <2>1, <2>2, <2>3
        <3> QED BY <2>4, <3>1, <3>2, Zenon
    <2>6. x + size = b /\ x \in 0..b
        BY <2>2, <2>3, <2>4
    <2> QED BY <2>1, <2>3, <2>5, <2>6
<1>5. IsSubtree(a, a + size)
    BY <1>4, FirstElements
<1> QED BY <1>4, <1>5, SubtreeHashes

(* The proof for the part of the subtree in the node of a level.            *)
SubproofAt(sub, start, end, n, k) ==
    LET a == NodeStart(end, k)
    IN  sub[NodeEnd(n, end, k) - a][start >= a][IF start >= a THEN start ELSE a][a]

(* It grows by the sibling, unless the node is where the recursion stops.   *)
LEMMA SubproofGrows ==
    ASSUME NEW data, Len(data) \in Words, NEW t, t = NewMerkleTree(data),
           NEW n, n = Len(data), NEW end \in 1..n, NEW start \in 0..(end - 1),
           NEW k \in 0..(W - 1), HasSibling(0, n, end - 1, k),
           ~(start <= NodeStart(end, k + 1) /\ end = NodeEnd(n, end, k + 1)),
           NEW sub, sub = SubtreeSubproof(t, end)
    PROVE  SubproofAt(sub, start, end, n, k + 1)
               = Append(SubproofAt(sub, start, end, n, k), SiblingBlock(data, 0, n, end - 1, k))
<1>1. /\ n \in Nat /\ Size(t) = n /\ k \in 0..W /\ k + 1 \in 0..W /\ k + 1 \in 1..W
      /\ Pow2[k] \in Nat \ {0} /\ Pow2[k + 1] = 2 * Pow2[k] /\ end - 1 \in Nat
      /\ end \in Nat /\ start \in Nat /\ n \in Words
    BY TreeNodes, Pow2Type, Pow2Exists, WordWidth DEF Words
<1>2. PICK a : a = NodeStart(end, k)
    OBVIOUS
<1>3. PICK b : b = NodeEnd(n, end, k)
    OBVIOUS
<1>4. PICK over : over = NodeStart(end, k + 1)
    OBVIOUS
<1>5. PICK to : to = NodeEnd(n, end, k + 1)
    OBVIOUS
<1>6. PICK d : d = Pow2[k]
    OBVIOUS
<1>7. /\ a \in 0..(end - 1) /\ b \in end..n
    <2>1. NodeStart(end, k) \in 0..(end - 1) /\ NodeEnd(n, end, k) \in end..n
        BY <1>1, NodeBounds
    <2> QED BY <1>2, <1>3, <2>1
<1>8. /\ over \in 0..(end - 1) /\ to \in end..n
    <2>1. NodeStart(end, k + 1) \in 0..(end - 1) /\ NodeEnd(n, end, k + 1) \in end..n
        BY <1>1, NodeBounds
    <2> QED BY <1>4, <1>5, <2>1
<1>9. PICK sibling : sibling = SiblingBlock(data, 0, n, end - 1, k)
    OBVIOUS
<1>10. /\ d < to - over /\ to - over <= 2 * d
       /\ Odd(Shifted(end - 1, k)) =>
              over + d = a /\ to = b /\ sibling = MTH(data, over, a)
       /\ ~Odd(Shifted(end - 1, k)) =>
              over = a /\ b = a + d /\ b < to /\ sibling = MTH(data, b, to)
    BY <1>1, <1>2, <1>3, <1>4, <1>5, <1>6, <1>9, NodeGrows DEF NodeJoins
<1>11. /\ over = Pow2[k + 1] * Shifted(end - 1, k + 1) /\ Shifted(end - 1, k + 1) \in Nat
       /\ a = Pow2[k] * Shifted(end - 1, k) /\ Shifted(end - 1, k) \in Nat
    BY <1>1, <1>2, <1>4, Shifting DEF NodeStart
<1>12. PICK size : size = to - over
    OBVIOUS
<1>13. /\ size \in 0..n /\ over + size = to /\ over \in 0..n /\ size \in Nat
       /\ d < size /\ size <= 2 * d /\ d \in Nat \ {0} /\ ~(size < 2)
    BY <1>1, <1>6, <1>7, <1>8, <1>10, <1>12
<1>14. Pow2[BitLen(size - 1) - 1] = d
    <2>1. Pow2[k] < size /\ size <= 2 * Pow2[k]
        BY <1>6, <1>13
    <2>2. BitLen(size - 1) - 1 = k
        BY <1>13, <2>1, SplitLevel
    <2> QED BY <1>6, <2>2
<1>15. PICK known \in BOOLEAN : known <=> start >= over
    OBVIOUS
<1>16. PICK first : first = IF start >= over THEN start ELSE over
    OBVIOUS
<1>17. /\ first \in 0..end /\ ~(first = over /\ end = to)
    BY <1>1, <1>4, <1>5, <1>8, <1>16
<1>18. sub[size][known][first][over] =
           IF end <= over + d
           THEN Append(sub[d][known][first][over], SubtreeHash(t, over + d, to))
           ELSE IF first >= over + d
           THEN Append(sub[size - d][known][first][over + d], SubtreeHash(t, over, over + d))
           ELSE Append(sub[size - d][FALSE][over + d][over + d], SubtreeHash(t, over, over + d))
    <2>1. sub[size][known][first][over]
              = SubproofStep(t, end, sub, size, first, over, known)
        <3>1. Size(t) \in Words /\ size \in 0..Size(t) /\ over \in 0..Size(t)
            BY <1>1, <1>13
        <3> QED BY <1>17, <3>1, SubproofLoop
    <2>2. PICK cut : cut = over + d
        OBVIOUS
    <2>3. CASE end <= cut
        BY <1>13, <1>14, <1>17, <2>1, <2>2, <2>3 DEF SubproofStep
    <2>4. CASE ~(end <= cut) /\ first >= cut
        BY <1>13, <1>14, <1>17, <2>1, <2>2, <2>4 DEF SubproofStep
    <2>5. CASE ~(end <= cut) /\ ~(first >= cut)
        BY <1>13, <1>14, <1>17, <2>1, <2>2, <2>5 DEF SubproofStep
    <2> QED BY <2>2, <2>3, <2>4, <2>5
<1>19. (start >= over) = known
    BY <1>15
<1>20. SubproofAt(sub, start, end, n, k + 1) = sub[size][known][first][over]
    BY <1>4, <1>5, <1>12, <1>16, <1>19 DEF SubproofAt
<1>21. SubproofAt(sub, start, end, n, k)
           = sub[b - a][start >= a][IF start >= a THEN start ELSE a][a]
    BY <1>2, <1>3 DEF SubproofAt
<1>22. CASE ~Odd(Shifted(end - 1, k))
    <2>1. /\ over = a /\ b = over + d /\ b < to /\ sibling = MTH(data, b, to) /\ end <= over + d
          /\ b - a = d
        BY <1>1, <1>7, <1>10, <1>13, <1>22
    <2>2. SubtreeHash(t, b, to) = MTH(data, b, to)
        <3>1. PICK q : q = Shifted(end - 1, k) + 1
            OBVIOUS
        <3>2. q \in Nat /\ b = Pow2[k] * q
            <4>1. PICK f \in Nat : f = Shifted(end - 1, k)
                BY <1>11
            <4>2. a = d * f
                BY <1>6, <1>11, <4>1
            <4>3. d * (f + 1) = d * f + d
                BY <1>13, <4>1
            <4>4. b = d * q /\ q = f + 1
                BY <2>1, <3>1, <4>1, <4>2, <4>3
            <4> QED BY <1>6, <4>1, <4>4
        <3>3. to \in 0..Len(data) /\ b < to /\ to <= b + Pow2[k]
            <4>1. to \in 0..n /\ to <= b + d
                BY <1>1, <1>7, <1>8, <1>10, <1>13, <2>1
            <4> QED BY <1>6, <2>1, <4>1
        <3> QED BY <1>1, <3>2, <3>3, AlignedHash
    <2>3. sub[size][known][first][over] = Append(sub[d][known][first][over], sibling)
        BY <1>18, <2>1, <2>2
    <2>4. SubproofAt(sub, start, end, n, k) = sub[d][known][first][over]
        BY <1>16, <1>19, <1>21, <2>1
    <2> QED BY <1>9, <1>20, <2>3, <2>4
<1>23. CASE Odd(Shifted(end - 1, k))
    <2>1. /\ over + d = a /\ to = b /\ sibling = MTH(data, over, a) /\ ~(end <= over + d)
          /\ size - d = b - a
        BY <1>1, <1>7, <1>10, <1>12, <1>13, <1>23
    <2>2. SubtreeHash(t, over, a) = MTH(data, over, a)
        <3>1. /\ a \in 0..Len(data) /\ over < a /\ a <= over + Pow2[k + 1]
            <4>1. a \in 0..n /\ over < a /\ a <= over + 2 * d
                BY <1>1, <1>7, <1>8, <1>13, <2>1
            <4> QED BY <1>1, <1>6, <4>1
        <3>2. PICK i \in 0..W : i = k + 1
            BY <1>1
        <3>3. PICK q \in Nat : q = Shifted(end - 1, i)
            BY <1>11, <3>2
        <3>4. over = Pow2[i] * q /\ a <= over + Pow2[i]
            BY <1>11, <3>1, <3>2, <3>3
        <3> QED BY <3>1, <3>4, AlignedHash
    <2>3. CASE start >= a
        <3>1. known = TRUE /\ first = start /\ first >= over + d /\ (start >= a) = TRUE
            BY <1>1, <1>8, <1>13, <1>15, <1>16, <2>1, <2>3
        <3> QED BY <1>9, <1>18, <1>20, <1>21, <2>1, <2>2, <2>3, <3>1
    <2>4. CASE ~(start >= a)
        <3>1. ~(first >= over + d) /\ (start >= a) = FALSE
            BY <1>1, <1>7, <1>8, <1>13, <1>16, <2>1, <2>4
        <3> QED BY <1>9, <1>18, <1>20, <1>21, <2>1, <2>2, <2>4, <3>1
    <2> QED BY <2>3, <2>4
<1> QED BY <1>22, <1>23

(* Without a sibling the node is the same and so is the proof.              *)
LEMMA SubproofStays ==
    ASSUME NEW n \in Nat, NEW end \in 1..n, NEW start, NEW k \in 0..(W - 1),
           ~HasSibling(0, n, end - 1, k), NEW sub
    PROVE  SubproofAt(sub, start, end, n, k + 1) = SubproofAt(sub, start, end, n, k)
<1>1. NodeStart(end, k + 1) = NodeStart(end, k) /\ NodeEnd(n, end, k + 1) = NodeEnd(n, end, k)
    BY NodeGrows DEF NodeJoins
<1> QED BY <1>1 DEF SubproofAt

(* Steps 3 and 4 stop below the level where first and last entry of the     *)
(* subtree meet only if the tree goes on behind the subtree, and then       *)
(* where the last index has its lowest zero.                                *)
LEMMA SkipsOnes ==
    ASSUME NEW n \in Words, NEW end \in 1..n, NEW start \in 0..(end - 1),
           NEW skip, skip = SkipToStart(start, end - 1, n - 1), NEW k \in skip..W,
           skip \in 0..W, Shifted(start, k) # Shifted(end - 1, k)
    PROVE  end # n /\ skip = TrailingOnes(end - 1)
<1> DEFINE d == DiffLen(start, end - 1)
           e == TrailingOnes(end - 1)
<1>1. /\ n \in Nat /\ end \in Nat /\ start \in Nat /\ start \in Words /\ k \in 0..W
      /\ end - 1 \in Words /\ end - 1 \in Nat /\ n - 1 \in Nat /\ Pow2[W] \in Nat
    BY Pow2Type, WordWidth DEF Words
<1>2. d \in 0..W /\ Shifted(start, d) = Shifted(end - 1, d)
    BY <1>1, DifferenceLength DEF Shifted
<1>3. e \in 0..W
    BY <1>1, TrailingOnesAre
<1>4. skip = IF end = n THEN d ELSE Min({d, e})
    <2>1. (end - 1 = n - 1) <=> (end = n)
        BY <1>1
    <2> QED BY <2>1 DEF SkipToStart
<1> HIDE DEF d, e
<1>5. skip # d
    <2> SUFFICES ASSUME skip = d PROVE FALSE
        OBVIOUS
    <2>1. PICK i \in 0..W : i = k - d
        BY <1>1, <1>2, WordWidth
    <2>2. d + i = k /\ d + i <= W
        BY <1>1, <1>2, <2>1, WordWidth
    <2>3. Shifted(Shifted(start, d), i) = Shifted(start, d + i)
        BY <1>1, <1>2, <2>1, <2>2, ShiftTwice
    <2>4. Shifted(Shifted(end - 1, d), i) = Shifted(end - 1, d + i)
        BY <1>1, <1>2, <2>1, <2>2, ShiftTwice
    <2> QED BY <1>2, <2>2, <2>3, <2>4
<1>6. Min({d, e}) \in {d, e}
    <2>1. {d, e} \in SUBSET Nat /\ {d, e} # {}
        BY <1>2, <1>3
    <2> QED BY <2>1, MinIsSmallest
<1> QED BY <1>4, <1>5, <1>6 DEF e

(* From there on the recursion does not stop at a node that was joined.     *)
LEMMA JoinedNodesGoOn ==
    ASSUME NEW n \in Words, NEW end \in 1..n, NEW start \in 0..(end - 1),
           NEW skip, skip = SkipToStart(start, end - 1, n - 1), skip \in 0..W,
           NEW k \in skip..(W - 1), HasSibling(0, n, end - 1, k)
    PROVE  ~(start <= NodeStart(end, k + 1) /\ end = NodeEnd(n, end, k + 1))
<1> SUFFICES ASSUME start <= NodeStart(end, k + 1), end = NodeEnd(n, end, k + 1) PROVE FALSE
    OBVIOUS
<1>1. /\ n \in Nat /\ end \in Nat /\ start \in Nat /\ end - 1 \in Nat /\ end - 1 \in Words
      /\ k \in 0..(W - 1) /\ k \in 0..W /\ k + 1 \in 0..W /\ k + 1 \in 1..W
      /\ Pow2[k] \in Nat \ {0} /\ Pow2[k + 1] = 2 * Pow2[k] /\ Pow2[W] \in Nat
    <2>1. Pow2[W] \in Nat
        BY Pow2Type, WordWidth
    <2>2. /\ n \in Nat /\ end \in Nat /\ start \in Nat /\ end - 1 \in Nat /\ end - 1 \in Words
        BY <2>1 DEF Words
    <2>3. k \in 0..(W - 1) /\ k \in 0..W /\ k + 1 \in 0..W /\ k + 1 \in 1..W
        BY WordWidth
    <2> QED BY <2>1, <2>2, <2>3, Pow2Type, Pow2Exists
<1>2. NodeEnd(n, end, k) \in end..n /\ NodeStart(end, k) \in 0..(end - 1)
    BY <1>1, NodeBounds
<1>3. /\ ~Odd(Shifted(end - 1, k)) => NodeEnd(n, end, k) < NodeEnd(n, end, k + 1)
      /\ Odd(Shifted(end - 1, k)) => /\ NodeStart(end, k + 1) + Pow2[k] = NodeStart(end, k)
                                     /\ NodeEnd(n, end, k + 1) = NodeEnd(n, end, k)
    BY <1>1, NodeGrows DEF NodeJoins
<1>4. Odd(Shifted(end - 1, k))
    BY <1>1, <1>2, <1>3
<1>5. start < NodeStart(end, k) /\ NodeEnd(n, end, k) = end
    <2>1. PICK d \in Nat \ {0} : d = Pow2[k]
        BY <1>1
    <2>2. PICK over : over = NodeStart(end, k + 1)
        OBVIOUS
    <2>3. over + d = NodeStart(end, k) /\ start <= over
        BY <1>3, <1>4, <2>1, <2>2
    <2>4. over \in Int
        <3>1. NodeStart(end, k + 1) \in 0..(end - 1)
            BY <1>1, NodeBounds
        <3> QED BY <1>1, <2>2, <3>1
    <2> QED BY <1>1, <1>3, <1>4, <2>1, <2>3, <2>4
<1>6. Shifted(start, k) # Shifted(end - 1, k)
    <2> SUFFICES ASSUME Shifted(start, k) = Shifted(end - 1, k) PROVE FALSE
        OBVIOUS
    <2>1. /\ start = Pow2[k] * Shifted(start, k) + (start % Pow2[k])
          /\ start % Pow2[k] \in 0..(Pow2[k] - 1)
        BY <1>1, Shifting
    <2>2. PICK r \in Nat : r = start % Pow2[k]
        BY <1>1, <2>1
    <2>3. start = NodeStart(end, k) + r
        BY <2>1, <2>2 DEF NodeStart
    <2> QED BY <1>1, <1>2, <1>5, <2>3
<1>7. end # n /\ skip = TrailingOnes(end - 1)
    <2>1. k \in skip..W
        BY <1>1, WordWidth
    <2> QED BY <1>6, <2>1, SkipsOnes
<1>8. PICK f \in Nat : f = Shifted(end - 1, skip)
    BY <1>1, Shifting
<1>9. ~Odd(f) /\ Pow2[skip] * (f + 1) = end
    <2>1. ~Odd(Shifted(end - 1, skip)) /\ Pow2[skip] * (Shifted(end - 1, skip) + 1) = (end - 1) + 1
        BY <1>1, <1>7, TrailingOnesAre
    <2> QED BY <1>1, <1>8, <2>1
<1>10. PICK h \in Nat : Pow2[k + 1] * (h + 1) = end
    <2>1. PICK h : h = Shifted(end - 1, k + 1)
        OBVIOUS
    <2>2. h \in Nat
        BY <1>1, <2>1, Shifting
    <2>3. end = IF 0 + Pow2[k + 1] * (h + 1) <= n THEN 0 + Pow2[k + 1] * (h + 1) ELSE n
        BY <2>1 DEF NodeEnd, BlockEnd
    <2>4. end = 0 + Pow2[k + 1] * (h + 1)
        BY <1>7, <2>3
    <2>5. Pow2[k + 1] * (h + 1) \in Nat
        <3>1. Pow2[k + 1] \in Nat
            BY <1>1
        <3> QED BY <2>2, <3>1
    <2> QED BY <2>2, <2>4, <2>5
<1>11. PICK q \in Nat \ {0} : Pow2[k] = Pow2[skip] * q
    BY PowersDivide, <1>1, WordWidth
<1>12. PICK D \in Nat \ {0} : D = Pow2[skip]
    BY Pow2Type
<1>13. (2 * (D * q)) * (h + 1) = end /\ D * (f + 1) = end
    BY <1>1, <1>9, <1>10, <1>11, <1>12
<1>14. PICK g \in Nat : g = q * (h + 1)
    <2>1. q * (h + 1) \in Nat
        OBVIOUS
    <2> QED BY <2>1
<1>15. (2 * (D * q)) * (h + 1) = D * (2 * g)
    <2>1. (2 * (D * q)) * (h + 1) = D * (2 * (q * (h + 1)))
        OBVIOUS
    <2> QED BY <1>14, <2>1
<1>16. D * (f + 1) = D * (2 * g)
    BY <1>13, <1>15
<1>17. f + 1 = 2 * g
    <2>1. f + 1 < 2 * g => D * (f + 1) + D <= D * (2 * g)
        BY Scaled
    <2>2. 2 * g < f + 1 => D * (2 * g) + D <= D * (f + 1)
        BY Scaled
    <2>3. D * (2 * g) \in Nat
        OBVIOUS
    <2> QED BY <1>16, <2>1, <2>2, <2>3
<1> QED BY <1>9, <1>17 DEF Odd

(* At the level the verifier starts from, the recursion stops: it leaves    *)
(* the node out if that is the whole subtree.                               *)
LEMMA SubproofStarts ==
    ASSUME NEW data, Len(data) \in Words, NEW t, t = NewMerkleTree(data),
           NEW n, n = Len(data), NEW end \in 1..n, NEW start \in 0..(end - 1),
           IsSubtree(start, end),
           NEW skip, skip = SkipToStart(start, end - 1, n - 1),
           NEW sub, sub = SubtreeSubproof(t, end)
    PROVE  /\ skip \in 0..W
           /\ SubproofAt(sub, start, end, n, skip)
                  = IF LastBlock(start, end, skip) = 0 THEN <<>>
                    ELSE <<Holding(data, 0, n, end - 1, skip)>>
<1>1. /\ n \in Nat /\ Size(t) = n /\ n \in Words /\ end \in Nat /\ start \in Nat
      /\ end \in 0..n /\ start \in 0..end /\ start < end /\ end - 1 \in Nat /\ end \in Words
    BY TreeNodes, Pow2Type, WordWidth DEF Words
<1>2. /\ skip \in 0..W
      /\ Pow2[skip] * Shifted(end - 1, skip) = start + Pow2[skip] * LastBlock(start, end, skip)
      /\ BlockEnd(0, n, skip, Shifted(end - 1, skip)) = end
    BY <1>1, CommonEnd
<1>3. PICK a : a = NodeStart(end, skip)
    OBVIOUS
<1>4. a \in 0..(end - 1) /\ end - a \in 1..Pow2[skip] /\ NodeEnd(n, end, skip) = end
      /\ Holding(data, 0, n, end - 1, skip) = MTH(data, a, end)
    <2>1. NodeEnd(n, end, skip) = end
        BY <1>2 DEF NodeEnd
    <2>2. /\ NodeStart(end, skip) \in 0..(end - 1)
          /\ NodeEnd(n, end, skip) - NodeStart(end, skip) \in 1..Pow2[skip]
          /\ Holding(data, 0, n, end - 1, skip) = MTH(data, NodeStart(end, skip), NodeEnd(n, end, skip))
        BY <1>1, <1>2, NodeBounds
    <2> QED BY <1>3, <2>1, <2>2
<1>5. PICK m \in Nat : m = LastBlock(start, end, skip)
    BY <1>1, <1>2, EdgeBits
<1>6. PICK d \in Nat \ {0} : d = Pow2[skip]
    BY <1>2, Pow2Type
<1>7. a = start + d * m
    BY <1>2, <1>3, <1>5, <1>6 DEF NodeStart
<1>8. start >= a <=> m = 0
    <2>1. m # 0 => d * m > 0
        BY <1>5, <1>6
    <2>2. m = 0 => d * m = 0
        BY <1>5, <1>6
    <2>3. d * m \in Nat
        BY <1>5, <1>6
    <2> QED BY <1>1, <1>7, <2>1, <2>2, <2>3
<1>9. m = 0 => start = a
    BY <1>1, <1>5, <1>6, <1>7
<1>10. PICK known \in BOOLEAN : known <=> start >= a
    OBVIOUS
<1>11. (start >= a) = known
    BY <1>10
<1>12. PICK size : size = end - a
    OBVIOUS
<1>13. size \in 0..n /\ a \in 0..n /\ a \in 0..end /\ a + size = end
    BY <1>1, <1>4, <1>12
<1>14. SubproofAt(sub, start, end, n, skip) = sub[size][known][a][a]
    BY <1>3, <1>4, <1>8, <1>9, <1>11, <1>12 DEF SubproofAt
<1>15. sub[size][known][a][a] = SubproofStep(t, end, sub, size, a, a, known)
    <2>1. Size(t) \in Words /\ size \in 0..Size(t) /\ a \in 0..Size(t) /\ a \in 0..end
        BY <1>1, <1>13
    <2> QED BY <2>1, SubproofLoop
<1>16. sub[size][known][a][a] = IF known THEN <<>> ELSE <<SubtreeHash(t, a, end)>>
    BY <1>13, <1>15 DEF SubproofStep
<1>17. SubtreeHash(t, a, end) = MTH(data, a, end)
    <2>1. PICK q \in Nat : q = Shifted(end - 1, skip)
        BY <1>1, <1>2, Shifting
    <2>2. a = Pow2[skip] * q
        BY <1>3, <2>1 DEF NodeStart
    <2>3. end \in 0..Len(data) /\ a < end /\ end <= a + Pow2[skip]
        BY <1>1, <1>4, <1>6
    <2> QED BY <1>2, <2>1, <2>2, <2>3, AlignedHash
<1> QED BY <1>2, <1>4, <1>5, <1>8, <1>10, <1>14, <1>16, <1>17

(* At the highest level it is the whole proof. *)
LEMMA SubproofEnds ==
    ASSUME NEW n \in Words, NEW end \in 1..n, NEW start \in 0..(end - 1), NEW sub
    PROVE  SubproofAt(sub, start, end, n, W) = sub[n][TRUE][start][0]
<1>1. /\ n \in Nat /\ end - 1 \in Nat /\ W \in 0..W /\ Pow2[W] \in Nat /\ n < Pow2[W]
      /\ end - 1 < Pow2[W] /\ start \in Nat
    BY Pow2Type, WordWidth DEF Words
<1>2. Shifted(end - 1, W) = 0
    BY <1>1, ShiftedAway
<1>3. Pow2[W] * 0 = 0 /\ 0 + Pow2[W] * (0 + 1) = Pow2[W]
    BY <1>1
<1>4. NodeStart(end, W) = 0
    BY <1>2, <1>3 DEF NodeStart
<1>5. NodeEnd(n, end, W) = n
    BY <1>1, <1>2, <1>3 DEF NodeEnd, BlockEnd
<1>6. n - 0 = n /\ (start >= 0) = TRUE
    BY <1>1
<1> QED BY <1>4, <1>5, <1>6 DEF SubproofAt

(* The fold of a consistency proof, element by element. *)
FoldsTo(g, proof, from, fn, sn, tn, hash) ==
       /\ g[from].fn = fn /\ g[from].sn = sn /\ g[from].tn = tn
       /\ g[from].fr = hash /\ g[from].sr = hash /\ ~g[from].tooMany
       /\ \A i \in (from + 1)..Len(proof) :
              LET before == g[i - 1]
                  joins  == Odd(before.sn) \/ before.sn = before.tn
                  shift  == IF joins THEN TrailingZeros(before.sn) + 1 ELSE 1
              IN  /\ g[i].fn = Shifted(before.fn, shift)
                  /\ g[i].sn = Shifted(before.sn, shift)
                  /\ g[i].tn = Shifted(before.tn, shift)
                  /\ g[i].fr = IF joins /\ before.fn < before.sn
                               THEN HashNode(proof[i], before.fr) ELSE before.fr
                  /\ g[i].sr = Joined(joins, proof[i], before.sr)
                  /\ g[i].tooMany = (before.tooMany \/ before.tn = 0)

LEMMA ConsistencyFolds ==
    ASSUME NEW proof, Len(proof) \in Nat, NEW from \in 0..Len(proof),
           NEW fn, NEW sn, NEW tn, NEW hash,
           NEW g, g = FoldConsistency(proof, from, fn, sn, tn, hash)
    PROVE  FoldsTo(g, proof, from, fn, sn, tn, hash)
BY ConsistencySteps DEF FoldsTo

(* A consistency proof from the verifier's first level on: the sibling of   *)
(* every level that has one.                                                *)
ClimbsFrom(data, n, end, skip, proof, reached) ==
    /\ reached[W] = Len(proof)
    /\ \A k \in skip..W :
           /\ reached[k] \in Nat
           /\ reached[k] <= Len(proof)
           /\ k < W => IF HasSibling(0, n, end - 1, k)
                       THEN /\ reached[k + 1] = reached[k] + 1
                            /\ proof[reached[k] + 1] = SiblingBlock(data, 0, n, end - 1, k)
                       ELSE reached[k + 1] = reached[k]

(* Where the tree has no siblings from level j on, its root is reached.     *)
LEMMA NoMoreSiblings ==
    ASSUME NEW n \in Words, NEW y \in 0..(n - 1), n # 0, NEW j \in 0..W,
           \A i \in j..(W - 1) : ~HasSibling(0, n, y, i)
    PROVE  LastBlock(0, n, j) = 0
<1> DEFINE L(i)  == Shifted(n - 1, i)
           Other == {i \in j..W : L(i) = 0}
<1>1. /\ n \in Nat /\ n - 1 \in Nat /\ y \in Nat /\ y <= n - 1 /\ W \in 0..W /\ W \in j..W
      /\ n - 1 < Pow2[W] /\ W \in Nat
    BY Pow2Type, WordWidth DEF Words
<1>2. \A i \in 0..W : LastBlock(0, n, i) = L(i) /\ L(i) \in Nat
    <2> TAKE i \in 0..W
    <2>1. L(i) \in Nat
        BY <1>1, Shifting
    <2> QED BY <1>1, <2>1 DEF LastBlock
<1>3. W \in Other
    BY <1>1, ShiftedAway
<1>4. Other \in SUBSET Nat /\ Other # {}
    BY <1>1, <1>3
<1>5. PICK m \in Other : \A i \in Other : m <= i
    <2> HIDE DEF Other
    <2> QED BY <1>4, SmallestElement
<1>6. m = j
    <2> SUFFICES ASSUME m # j PROVE FALSE
        OBVIOUS
    <2>1. /\ m \in j..W /\ m - 1 \in j..(W - 1) /\ m - 1 \in 0..(W - 1) /\ m - 1 \in 0..W
          /\ (m - 1) + 1 = m /\ ~(m <= m - 1) /\ m - 1 \in j..W
        BY <1>1, <1>5
    <2>2. L(m - 1) # 0 /\ L(m) = 0
        BY <1>5, <2>1
    <2>3. /\ Shifted(y, m - 1) \in Nat /\ Shifted(y, m - 1) <= L(m - 1)
        <3>1. Shifted(y, m - 1) <= Shifted(n - 1, m - 1)
            BY <1>1, <2>1, ShiftMonotone
        <3>2. Shifted(y, m - 1) \in Nat
            BY <1>1, <2>1, Shifting
        <3> QED BY <3>1, <3>2
    <2>4. ~Odd(Shifted(y, m - 1)) /\ ~(Shifted(y, m - 1) < L(m - 1))
        <3>1. LastBlock(0, n, m - 1) = L(m - 1)
            BY <1>2, <2>1
        <3> QED BY <2>1, <3>1 DEF HasSibling
    <2>5. L(m - 1) = Shifted(y, m - 1) /\ L(m - 1) \in Nat
        BY <1>2, <2>1, <2>3, <2>4
    <2>6. ~Odd(L(m - 1)) => L(m - 1) = 2 * L((m - 1) + 1)
        BY <1>1, <2>1, ShiftOnce
    <2> QED BY <2>1, <2>2, <2>4, <2>5, <2>6
<1> QED BY <1>2, <1>5, <1>6

(* A verifier that starts with the right hash and is given those siblings   *)
(* ends in the hash of the subtree and in the root.                         *)
LEMMA ConsistencyFollows ==
    ASSUME NEW data, Len(data) \in Words, NEW n \in 0..Len(data), NEW end \in 0..n,
           NEW start \in 0..end, start < end, IsSubtree(start, end),
           NEW skip, skip = SkipToStart(start, end - 1, n - 1),
           NEW proof, Len(proof) \in Nat, NEW reached,
           ClimbsFrom(data, n, end, skip, proof, reached),
           NEW from, from = reached[skip], NEW hash, hash = RightEdge(data, start, end, skip)
    PROVE  LET done == FoldConsistency(proof, from, Shifted(start, skip),
                                       Shifted(end - 1, skip), Shifted(n - 1, skip), hash)[Len(proof)]
           IN  FinalChecks(done, MTH(data, start, end), MTH(data, 0, n))
<1> DEFINE M      == Len(proof)
           E(j)   == RightEdge(data, start, end, j)
           T(j)   == Holding(data, 0, n, end - 1, j)
           has(k) == HasSibling(0, n, end - 1, k)
<1>1. /\ Len(data) \in Nat /\ n \in Nat /\ end \in Nat /\ start \in Nat /\ end \in Words
      /\ n \in Words /\ end \in 0..Len(data) /\ M \in Nat
      /\ 0 < n /\ n # 0 /\ n - 1 \in Nat /\ end - 1 \in Nat
      /\ end - 1 <= n - 1 /\ end - 1 \in 0..(n - 0 - 1) /\ n - 0 - 1 = n - 1 /\ W \in Nat
    BY Pow2Type, WordWidth DEF Words
<1>2. /\ skip \in 0..W /\ E(skip) = T(skip)
    BY <1>1, CommonNode
<1>3. /\ skip \in skip..W /\ W \in skip..W
    BY <1>1, <1>2
<1>4. /\ reached[W] = M
      /\ \A k \in skip..W :
             /\ reached[k] \in Nat
             /\ reached[k] <= M
             /\ k < W => IF has(k)
                         THEN /\ reached[k + 1] = reached[k] + 1
                              /\ proof[reached[k] + 1] = SiblingBlock(data, 0, n, end - 1, k)
                         ELSE reached[k + 1] = reached[k]
    BY DEF ClimbsFrom
<1>5. from \in 0..M /\ from \in Nat
    BY <1>1, <1>3, <1>4
<1>6. PICK fn : fn = Shifted(start, skip)
    OBVIOUS
<1>7. PICK sn : sn = Shifted(end - 1, skip)
    OBVIOUS
<1>8. PICK tn : tn = Shifted(n - 1, skip)
    OBVIOUS
<1>9. PICK g : g = FoldConsistency(proof, from, fn, sn, tn, hash)
    OBVIOUS
<1>10. FoldsTo(g, proof, from, fn, sn, tn, hash)
    BY <1>1, <1>5, <1>9, ConsistencyFolds
<1> DEFINE At(r, j) == /\ g[r].fn = Shifted(start, j)
                       /\ g[r].sn = Shifted(end - 1, j)
                       /\ g[r].tn = Shifted(n - 1, j)
                       /\ g[r].fr = E(j)
                       /\ g[r].sr = T(j)
                       /\ ~g[r].tooMany
           Good(k)  == /\ from <= reached[k]
                       /\ \E j \in skip..k : /\ At(reached[k], j)
                                             /\ \A i \in j..(k - 1) : ~has(i)
           Other    == {k \in skip..W : ~Good(k)}
<1> HIDE DEF M, E, T, has
<1>11. Good(skip)
    <2>1. hash = E(skip) /\ hash = T(skip)
        BY <1>2 DEF E
    <2>2. skip \in skip..skip /\ \A i \in skip..(skip - 1) : FALSE
        BY <1>2
    <2>3. from <= from
        BY <1>5
    <2>4. At(from, skip)
        BY <1>6, <1>7, <1>8, <1>10, <2>1 DEF FoldsTo
    <2> HIDE DEF At
    <2> QED BY <2>2, <2>3, <2>4
<1>12. ASSUME NEW k \in skip..W, k < W, Good(k) PROVE Good(k + 1)
    <2>1. PICK j \in skip..k : At(reached[k], j) /\ \A i \in j..(k - 1) : ~has(i)
        BY <1>12
    <2>2. from <= reached[k]
        BY <1>12
    <2>3. k \in Nat /\ j \in Nat /\ k + 1 \in skip..W /\ k \in 0..W /\ j \in 0..W /\ skip \in Nat
          /\ k \in 0..(W - 1) /\ k \in j..(W - 1)
        BY <1>1, <1>2, <1>12
    <2> HIDE DEF At
    <2>4. CASE ~has(k)
        <3>1. reached[k + 1] = reached[k]
            BY <1>4, <1>12, <2>4
        <3>2. j \in skip..(k + 1) /\ \A i \in j..((k + 1) - 1) : i = k \/ i \in j..(k - 1)
            BY <1>2, <2>3
        <3>3. \A i \in j..((k + 1) - 1) : ~has(i)
            BY <2>1, <2>4, <3>2
        <3> QED BY <2>1, <2>2, <3>1, <3>2, <3>3
    <2>5. CASE has(k)
        <3>1. PICK i : i = reached[k] + 1
            OBVIOUS
        <3>2. /\ reached[k] \in Nat /\ reached[k + 1] = i /\ reached[k + 1] <= M
              /\ proof[i] = SiblingBlock(data, 0, n, end - 1, k)
            BY <1>4, <1>12, <2>3, <2>5, <3>1
        <3>3. i \in (from + 1)..M /\ i - 1 = reached[k] /\ from <= i
            <4>1. PICK r \in Nat : r = reached[k]
                BY <3>2
            <4>2. i = r + 1 /\ from <= r /\ i <= M /\ M \in Nat /\ from \in Nat
                BY <1>1, <1>5, <2>2, <3>1, <3>2, <4>1
            <4>3. i \in (from + 1)..M /\ i - 1 = r /\ from <= i
                <5> HIDE DEF Good
                <5> QED BY <4>2
            <4> QED BY <4>1, <4>3
        <3> DEFINE before == g[i - 1]
                   joins  == Odd(before.sn) \/ before.sn = before.tn
                   shift  == IF joins THEN TrailingZeros(before.sn) + 1 ELSE 1
        <3>4. /\ g[i].fn = Shifted(before.fn, shift)
              /\ g[i].sn = Shifted(before.sn, shift)
              /\ g[i].tn = Shifted(before.tn, shift)
              /\ g[i].fr = IF joins /\ before.fn < before.sn
                           THEN HashNode(proof[i], before.fr) ELSE before.fr
              /\ g[i].sr = Joined(joins, proof[i], before.sr)
              /\ g[i].tooMany = (before.tooMany \/ before.tn = 0)
            BY <1>10, <3>3 DEF FoldsTo, M
        <3>5. /\ before.fn = Shifted(start, j) /\ before.sn = Shifted(end - 1, j)
              /\ before.tn = Shifted(n - 1, j) /\ before.fr = E(j) /\ before.sr = T(j)
              /\ ~before.tooMany
            BY <2>1, <3>3 DEF At
        <3> HIDE DEF before, Good
        <3>6. /\ HasSibling(0, n, end - 1, k)
              /\ \A l \in j..(k - 1) : ~HasSibling(0, n, end - 1, l)
            BY <2>1, <2>5 DEF has
        <3>7. before.tn = LastBlock(0, n, j) /\ LastBlock(0, n, j) \in Nat
            <4>1. Shifted(n - 1, j) \in Nat
                BY <1>1, <2>3, Shifting
            <4> QED BY <1>1, <3>5, <4>1 DEF LastBlock
        <3>8. before.tn # 0
            <4> SUFFICES ASSUME Shifted(n - 1, j) = 0 PROVE FALSE
                BY <3>5
            <4>1. Shifted(Shifted(n - 1, j), k - j) = Shifted(n - 1, k)
                <5>1. k - j \in 0..W /\ j + (k - j) = k /\ j + (k - j) <= W
                    BY <1>1, <2>3
                <5> QED BY <1>1, <2>3, <5>1, ShiftTwice
            <4>2. Shifted(0, k - j) = 0
                <5>1. k - j \in 0..W /\ 0 \in Nat
                    BY <1>1, <2>3
                <5>2. 0 < Pow2[k - j]
                    BY <5>1, Pow2Type
                <5> QED BY <5>1, <5>2, ShiftedAway
            <4>3. Shifted(n - 1, k) = 0
                BY <4>1, <4>2
            <4>4. Shifted(end - 1, k) \in Nat /\ Shifted(end - 1, k) <= Shifted(n - 1, k)
                <5>1. Shifted(end - 1, k) <= Shifted(n - 1, k)
                    BY <1>1, <2>3, ShiftMonotone
                <5>2. Shifted(end - 1, k) \in Nat
                    BY <1>1, <2>3, Shifting
                <5> QED BY <5>1, <5>2
            <4>5. Shifted(end - 1, k) = 0 /\ LastBlock(0, n, k) = 0
                BY <1>1, <4>3, <4>4 DEF LastBlock
            <4> QED BY <3>6, <4>5 DEF HasSibling, Odd
        <3>9. /\ Shifted(before.sn, shift) = Shifted(end - 1, k + 1)
              /\ Shifted(before.tn, shift) = LastBlock(0, n, k + 1)
              /\ Odd(Shifted(end - 1, k)) <=> (Odd(before.sn) \/ before.sn = before.tn)
              /\ shift = (k + 1) - j
            <4>1. PICK f : f = before.sn
                OBVIOUS
            <4>2. PICK m : m = before.tn
                OBVIOUS
            <4>3. PICK by : by = IF Odd(f) \/ f = m THEN TrailingZeros(f) + 1 ELSE 1
                OBVIOUS
            <4>4. PICK y : y = end - 1
                OBVIOUS
            <4>5. /\ n \in Words /\ y \in 0..(n - 1) /\ n # 0 /\ j \in 0..W
                  /\ f = Shifted(y, j) /\ m = LastBlock(0, n, j) /\ m # 0
                BY <1>1, <2>3, <3>5, <3>7, <3>8, <4>1, <4>2, <4>4
            <4>6. by = shift
                BY <4>1, <4>2, <4>3
            <4> HIDE DEF shift, joins
            <4>7. GoesOn(n, y, j, f, m, by)
                BY <4>3, <4>5, TreeStep
            <4>8. PICK l \in j..(W - 1) :
                      /\ HasSibling(0, n, y, l)
                      /\ \A o \in j..(l - 1) : ~HasSibling(0, n, y, o)
                      /\ Shifted(f, by) = Shifted(y, l + 1)
                      /\ Shifted(m, by) = LastBlock(0, n, l + 1)
                      /\ Odd(Shifted(y, l)) <=> (Odd(f) \/ f = m)
                      /\ by = (l + 1) - j
                BY <4>7 DEF GoesOn
            <4>9. l = k
                <5>1. ~(l < k)
                    <6>1. l < k => l \in j..(k - 1)
                        BY <1>1, <2>3
                    <6> QED BY <3>6, <4>4, <4>8, <6>1
                <5>2. ~(k < l)
                    <6>1. k < l => k \in j..(l - 1)
                        BY <1>1, <2>3
                    <6> QED BY <3>6, <4>4, <4>8, <6>1
                <5> QED BY <1>1, <2>3, <5>1, <5>2
            <4> QED BY <4>1, <4>2, <4>4, <4>6, <4>8, <4>9
        <3>10. joins <=> Odd(Shifted(end - 1, k))
            BY <3>9
        <3>11. k + 1 \in 0..W /\ j + shift = k + 1 /\ shift \in 0..W
            BY <1>1, <2>3, <3>9
        <3> HIDE DEF joins, shift
        <3>12. Shifted(before.fn, shift) = Shifted(start, k + 1)
            <4>1. PICK by : by = shift
                OBVIOUS
            <4>2. by \in 0..W /\ j + by <= W /\ j + by = k + 1
                BY <1>1, <3>11, <4>1
            <4>3. Shifted(Shifted(start, j), by) = Shifted(start, j + by)
                BY <1>1, <2>3, <4>2, ShiftTwice
            <4> QED BY <3>5, <4>1, <4>2, <4>3
        <3>13. Shifted(before.tn, shift) = Shifted(n - 1, k + 1)
            BY <1>1, <3>9 DEF LastBlock
        <3>14. Joined(joins, SiblingBlock(data, 0, n, end - 1, k), T(j)) = T(k + 1)
            <4>1. PICK y : y = end - 1
                OBVIOUS
            <4>2. /\ 0 < n /\ y \in 0..(n - 0 - 1) /\ 0 \in 0..n /\ HasSibling(0, n, y, k)
                  /\ \A l \in j..(k - 1) : ~HasSibling(0, n, y, l)
                  /\ joins <=> Odd(Shifted(y, k))
                  /\ j \in 0..W /\ k \in j..(W - 1)
                BY <1>1, <2>3, <3>6, <3>10, <4>1
            <4>3. PICK element : element = SiblingBlock(data, 0, n, y, k)
                OBVIOUS
            <4>4. PICK old : old = Holding(data, 0, n, y, j)
                OBVIOUS
            <4>5. /\ Joined(joins, element, old) = Holding(data, 0, n, y, k + 1)
                         => old = Holding(data, 0, n, y, j)
                  /\ Joined(joins, SiblingBlock(data, 0, n, y, k), Holding(data, 0, n, y, j))
                         = Holding(data, 0, n, y, k + 1)
                BY <4>2, JoinedBlocks
            <4> QED BY <4>1, <4>5 DEF T
        <3>15. E(k + 1) = IF joins /\ Shifted(start, j) < Shifted(end - 1, j)
                          THEN HashNode(SiblingBlock(data, 0, n, end - 1, k), E(j))
                          ELSE E(j)
            BY <2>3, <3>6, <3>10, EdgeStep DEF E
        <3>16. g[i].sr = T(k + 1)
            BY <3>2, <3>4, <3>5, <3>14
        <3>17. g[i].fr = E(k + 1)
            BY <3>2, <3>4, <3>5, <3>15
        <3>18. ~g[i].tooMany
            BY <3>4, <3>5, <3>8
        <3>19. At(i, k + 1)
            BY <3>4, <3>9, <3>12, <3>13, <3>16, <3>17, <3>18 DEF At
        <3>20. k + 1 \in skip..(k + 1) /\ \A l \in (k + 1)..((k + 1) - 1) : FALSE
            BY <1>2, <2>3
        <3> QED BY <3>2, <3>3, <3>19, <3>20 DEF Good
    <2> QED BY <2>4, <2>5
<1>13. Other = {}
    <2> SUFFICES ASSUME Other # {} PROVE FALSE
        OBVIOUS
    <2> HIDE DEF Good
    <2>1. Other \in SUBSET Nat
        BY <1>2
    <2>2. PICK k \in Other : \A m \in Other : k <= m
        <3> HIDE DEF Other
        <3> QED BY <2>1, SmallestElement
    <2>3. k # skip
        BY <1>11
    <2>4. k - 1 \in skip..W /\ k - 1 < W /\ (k - 1) + 1 = k /\ k - 1 \notin Other
        BY <1>1, <1>2, <2>2, <2>3
    <2>5. Good(k - 1)
        BY <2>4
    <2>6. Good((k - 1) + 1)
        BY <1>12, <2>4, <2>5
    <2> QED BY <2>4, <2>6
<1>14. PICK j \in skip..W : At(M, j) /\ \A i \in j..(W - 1) : ~has(i)
    <2>1. Good(W)
        <3> HIDE DEF Good
        <3> QED BY <1>3, <1>13
    <2> HIDE DEF At
    <2> QED BY <1>4, <2>1
<1>15. j \in 0..W
    BY <1>1, <1>2
<1>16. LastBlock(0, n, j) = 0 /\ Shifted(n - 1, j) = 0
    <2>1. end - 1 \in 0..(n - 1) /\ \A i \in j..(W - 1) : ~HasSibling(0, n, end - 1, i)
        BY <1>1, <1>14 DEF has
    <2>2. LastBlock(0, n, j) = 0
        BY <1>1, <1>15, <2>1, NoMoreSiblings
    <2> QED BY <1>1, <2>2 DEF LastBlock
<1>17. Shifted(end - 1, j) = 0
    <2>1. Shifted(end - 1, j) <= Shifted(n - 1, j) /\ Shifted(end - 1, j) \in Nat
        BY <1>1, <1>15, ShiftMonotone, Shifting
    <2> QED BY <1>16, <2>1
<1>18. T(j) = MTH(data, 0, n)
    <2>1. 0 \in Nat
        OBVIOUS
    <2>2. Block(data, 0, n, j, 0) = MTH(data, 0, n)
        BY <1>1, <1>15, <1>16, <2>1, OneBlock
    <2> QED BY <1>17, <2>2 DEF T, Holding
<1>19. LastBlock(start, end, j) = 0
    <2>1. /\ Shifted(start, j) \in Nat
          /\ Shifted(start, j) < Shifted(end - 1, j) <=> LastBlock(start, end, j) # 0
        BY <1>1, <1>15, EdgeBits
    <2> QED BY <1>17, <2>1
<1>20. E(j) = MTH(data, start, end)
    BY <1>1, <1>15, <1>19, RightEdgeIs DEF E
<1>21. FinalChecks(g[M], MTH(data, start, end), MTH(data, 0, n))
    BY <1>14, <1>16, <1>18, <1>20 DEF FinalChecks
<1> QED BY <1>6, <1>7, <1>8, <1>9, <1>21 DEF M

ClimbsWhole(data, n, start, end, skip, proof) ==
    /\ Len(proof) \in Nat
    /\ \E reached :
           /\ ClimbsFrom(data, n, end, skip, proof, reached)
           /\ reached[skip] = IF LastBlock(start, end, skip) = 0 THEN 0 ELSE 1
    /\ LastBlock(start, end, skip) # 0 => proof[1] = Holding(data, 0, n, end - 1, skip)

(* What the tree hands out climbs so: it is the path of the node that holds *)
(* the subtree's last entry.                                                *)
LEMMA SubproofClimbs ==
    ASSUME NEW data, Len(data) \in Words, NEW t, t = NewMerkleTree(data),
           NEW n, n = Len(data), NEW end \in 1..n, NEW start \in 0..(end - 1),
           IsSubtree(start, end),
           NEW skip, skip = SkipToStart(start, end - 1, n - 1),
           NEW proof, proof = SubtreeSubproof(t, end)[n][TRUE][start][0]
    PROVE  ClimbsWhole(data, n, start, end, skip, proof)
<1> DEFINE S   == BlocksOf(data, 0, n)
           sub == SubtreeSubproof(t, end)
<1>1. /\ n \in Nat /\ n \in Words /\ end \in Nat /\ end - 1 \in Nat /\ start \in Nat /\ W \in Nat
    BY Pow2Type, WordWidth DEF Words
<1>2. /\ skip \in 0..W
      /\ SubproofAt(sub, start, end, n, skip)
             = IF LastBlock(start, end, skip) = 0 THEN <<>>
               ELSE <<Holding(data, 0, n, end - 1, skip)>>
    <2>1. PICK s : s = sub
        OBVIOUS
    <2>2. /\ skip \in 0..W
          /\ SubproofAt(s, start, end, n, skip)
                 = IF LastBlock(start, end, skip) = 0 THEN <<>>
                   ELSE <<Holding(data, 0, n, end - 1, skip)>>
        BY <2>1, SubproofStarts
    <2> QED BY <2>1, <2>2
<1>3. PICK path : path = [k \in 0..W |-> SubproofAt(sub, start, end, n, k)]
    OBVIOUS
<1>4. PICK has : has = [k \in 0..W |-> HasSibling(0, n, end - 1, k)]
    OBVIOUS
<1>5. PICK el : el = [k \in 0..W |-> SiblingBlock(data, 0, n, end - 1, k)]
    OBVIOUS
<1>6. \A k \in 0..W : Shifted(end - 1, k) \in Nat
    BY <1>1, Shifting
<1>7. \A k \in 0..W, j \in Nat : Block(data, 0, n, k, j) \in S
    BY DEF BlocksOf
<1>8. \A k \in 0..W : el[k] \in S /\ Holding(data, 0, n, end - 1, k) \in S
    <2> TAKE k \in 0..W
    <2>1. (IF Odd(Shifted(end - 1, k)) THEN Shifted(end - 1, k) - 1 ELSE Shifted(end - 1, k) + 1)
              \in Nat
        BY <1>6 DEF Odd
    <2> HIDE DEF S
    <2>2. SiblingBlock(data, 0, n, end - 1, k) \in S
        BY <1>7, <2>1 DEF SiblingBlock
    <2>3. Holding(data, 0, n, end - 1, k) \in S
        BY <1>6, <1>7 DEF Holding
    <2> QED BY <1>5, <2>2, <2>3
<1>9. path[skip] = IF LastBlock(start, end, skip) = 0 THEN <<>>
                   ELSE <<Holding(data, 0, n, end - 1, skip)>>
    BY <1>2, <1>3
<1>10. path[skip] \in Seq(S)
    <2>1. PICK first \in S : first = Holding(data, 0, n, end - 1, skip)
        BY <1>2, <1>8
    <2>2. <<first>> \in Seq(S) /\ <<>> \in Seq(S)
        <3> HIDE DEF S
        <3>1. <<>> \in Seq(S)
            BY EmptySeq
        <3>2. Append(<<>>, first) \in Seq(S)
            BY <3>1, AppendProperties
        <3>3. Append(<<>>, first) = <<first>>
            OBVIOUS
        <3> QED BY <3>1, <3>2, <3>3
    <2> QED BY <1>9, <2>1, <2>2
<1>11. ASSUME NEW k \in skip..W, k < W
       PROVE  /\ el[k] \in S
              /\ path[k + 1] = IF has[k] THEN Append(path[k], el[k]) ELSE path[k]
    <2>1. k \in 0..W /\ k \in 0..(W - 1) /\ k + 1 \in 0..W /\ k \in skip..(W - 1)
        BY <1>1, <1>2, <1>11
    <2>2. /\ path[k] = SubproofAt(sub, start, end, n, k)
          /\ path[k + 1] = SubproofAt(sub, start, end, n, k + 1)
          /\ has[k] = HasSibling(0, n, end - 1, k)
          /\ el[k] = SiblingBlock(data, 0, n, end - 1, k)
        BY <1>3, <1>4, <1>5, <2>1
    <2>3. CASE HasSibling(0, n, end - 1, k)
        <3>1. ~(start <= NodeStart(end, k + 1) /\ end = NodeEnd(n, end, k + 1))
            BY <1>1, <1>2, <2>1, <2>3, JoinedNodesGoOn
        <3>2. PICK s : s = sub
            OBVIOUS
        <3>3. SubproofAt(s, start, end, n, k + 1)
                  = Append(SubproofAt(s, start, end, n, k), SiblingBlock(data, 0, n, end - 1, k))
            BY <2>1, <2>3, <3>1, <3>2, SubproofGrows
        <3> QED BY <1>8, <2>1, <2>2, <2>3, <3>2, <3>3
    <2>4. CASE ~HasSibling(0, n, end - 1, k)
        <3>1. SubproofAt(sub, start, end, n, k + 1) = SubproofAt(sub, start, end, n, k)
            BY <1>1, <2>1, <2>4, SubproofStays
        <3> QED BY <1>8, <2>1, <2>2, <2>4, <3>1
    <2> QED BY <2>3, <2>4
<1>12. path[W] = proof
    <2>1. SubproofAt(sub, start, end, n, W) = sub[n][TRUE][start][0]
        BY <1>1, SubproofEnds
    <2>2. W \in 0..W
        BY <1>1
    <2> QED BY <1>3, <2>1, <2>2
<1> HIDE DEF S, sub
<1>13. \A k \in skip..W :
           /\ path[k] \in Seq(S) /\ Len(path[k]) \in Nat
           /\ Len(path[k]) <= Len(path[W])
           /\ \A i \in 1..Len(path[k]) : path[W][i] = path[k][i]
           /\ k < W => IF has[k] THEN /\ Len(path[k + 1]) = Len(path[k]) + 1
                                      /\ path[W][Len(path[k]) + 1] = el[k]
                       ELSE Len(path[k + 1]) = Len(path[k])
    <2>1. /\ skip \in Nat /\ W \in Nat /\ skip <= W
          /\ path[skip] \in Seq(S)
          /\ \A k \in skip..W : k < W =>
                 /\ el[k] \in S
                 /\ path[k + 1] = IF has[k] THEN Append(path[k], el[k]) ELSE path[k]
        BY <1>1, <1>2, <1>10, <1>11
    <2>2. PICK hi : hi = W
        OBVIOUS
    <2>3. /\ skip \in Nat /\ hi \in Nat /\ skip <= hi
          /\ path[skip] \in Seq(S)
          /\ Grows(S, skip, hi, path, has, el)
        BY <2>1, <2>2 DEF Grows
    <2>4. Grown(S, skip, hi, path, has, el)
        BY <2>3, GrowingPath
    <2> QED BY <2>2, <2>4 DEF Grown
<1>14. skip \in skip..W /\ W \in skip..W
    BY <1>1, <1>2
<1>15. PICK reached : reached = [k \in skip..W |-> Len(path[k])]
    OBVIOUS
<1>16. ASSUME NEW k \in skip..W
       PROVE  /\ reached[k] = Len(path[k]) /\ reached[k] \in Nat /\ reached[k] <= Len(proof)
              /\ k < W => IF HasSibling(0, n, end - 1, k)
                          THEN /\ reached[k + 1] = reached[k] + 1
                               /\ proof[reached[k] + 1] = SiblingBlock(data, 0, n, end - 1, k)
                          ELSE reached[k + 1] = reached[k]
    <2>1. reached[k] = Len(path[k]) /\ reached[k] \in Nat /\ reached[k] <= Len(proof)
        BY <1>12, <1>13, <1>15
    <2>2. ASSUME k < W
          PROVE  IF HasSibling(0, n, end - 1, k)
                 THEN /\ reached[k + 1] = reached[k] + 1
                      /\ proof[reached[k] + 1] = SiblingBlock(data, 0, n, end - 1, k)
                 ELSE reached[k + 1] = reached[k]
        <3>1. k + 1 \in skip..W /\ k \in 0..W
            BY <1>1, <1>2, <2>2
        <3>2. reached[k + 1] = Len(path[k + 1])
            BY <1>15, <3>1
        <3>3. has[k] = HasSibling(0, n, end - 1, k) /\ el[k] = SiblingBlock(data, 0, n, end - 1, k)
            BY <1>4, <1>5, <3>1
        <3>4. IF has[k] THEN /\ Len(path[k + 1]) = Len(path[k]) + 1
                             /\ path[W][Len(path[k]) + 1] = el[k]
              ELSE Len(path[k + 1]) = Len(path[k])
            BY <1>13, <2>2
        <3>5. CASE has[k]
            BY <1>12, <2>1, <3>2, <3>3, <3>4, <3>5
        <3>6. CASE ~has[k]
            BY <2>1, <3>2, <3>3, <3>4, <3>6
        <3> QED BY <3>5, <3>6
    <2> QED BY <2>1, <2>2
<1>17. Len(proof) \in Nat /\ reached[W] = Len(proof)
    BY <1>12, <1>13, <1>14, <1>16
<1>18. ClimbsFrom(data, n, end, skip, proof, reached)
    BY <1>16, <1>17 DEF ClimbsFrom
<1>19. reached[skip] = Len(path[skip])
    BY <1>14, <1>16
<1>20. CASE LastBlock(start, end, skip) = 0
    <2>1. path[skip] = <<>>
        BY <1>9, <1>20
    <2>2. Len(path[skip]) = 0
        BY <2>1
    <2> QED BY <1>17, <1>18, <1>19, <1>20, <2>2 DEF ClimbsWhole
<1>21. CASE LastBlock(start, end, skip) # 0
    <2>1. PICK first : first = Holding(data, 0, n, end - 1, skip)
        OBVIOUS
    <2>2. path[skip] = <<first>>
        BY <1>9, <1>21, <2>1
    <2>3. Len(path[skip]) = 1 /\ path[skip][1] = first /\ 1 \in 1..1
        BY <2>2
    <2>4. path[W][1] = path[skip][1]
        BY <1>13, <1>14, <2>3
    <2> QED BY <1>12, <1>17, <1>18, <1>19, <1>21, <2>1, <2>3, <2>4 DEF ClimbsWhole
<1> QED BY <1>20, <1>21

-----------------------------------------------------------------------------
(* Answers of the log *)

(* Every tree is a subtree of itself. *)
LEMMA WholeIsSubtree ==
    ASSUME NEW n \in Words
    PROVE  IsSubtree(0, n)
<1> DEFINE Large == {p \in {Pow2[b] : b \in 0..W} : p >= n}
<1>1. n \in Nat /\ n - 0 = n /\ n <= Pow2[W] /\ Pow2[W] \in Nat /\ W \in 0..W
    BY Pow2Type, WordWidth DEF Words
<1>2. PICK k \in 0..W : BIT_CEIL(n) = Pow2[k]
    <2>1. Pow2[W] \in Large /\ Large \in SUBSET Nat
        BY <1>1, Pow2Type
    <2>2. Min(Large) \in Large
        <3> HIDE DEF Large
        <3> QED BY <2>1, MinIsSmallest
    <2> QED BY <2>2 DEF BIT_CEIL
<1>3. Pow2[k] \in Nat \ {0}
    BY Pow2Type
<1>4. 0 % Pow2[k] = 0
    BY <1>3
<1> QED BY <1>1, <1>2, <1>4 DEF IsSubtree

(* Neither a hash nor a proof is the error. *)
LEMMA HashIsNoError ==
    ASSUME NEW data, Len(data) \in Words, NEW end \in 0..Len(data), NEW start \in 0..end
    PROVE  MTH(data, start, end) # Error
<1>1. DOMAIN Error = {0}
    BY DEF Error
<1>2. \A a, b : HashEmpty # Error /\ HashLeaf(a) # Error /\ HashNode(a, b) # Error
    <2> TAKE a, b
    <2>1. 1 \in DOMAIN HashEmpty
        BY DEF HashEmpty
    <2>2. 1 \in DOMAIN HashLeaf(a)
        BY DEF HashLeaf
    <2>3. 1 \in DOMAIN HashNode(a, b)
        BY DEF HashNode
    <2> QED BY <1>1, <2>1, <2>2, <2>3
<1>3. start \in Nat /\ end \in Nat /\ end < Pow2[W] /\ Pow2[W] \in Nat
    BY Pow2Type, WordWidth DEF Words
<1>4. CASE end <= start + 1
    <2>1. end = start \/ end = start + 1
        BY <1>3, <1>4
    <2>2. MTH(data, start, end) = HashEmpty \/ MTH(data, start, end) = HashLeaf(data[start + 1])
        BY <2>1, SmallHash
    <2> QED BY <1>2, <2>2
<1>5. CASE ~(end <= start + 1)
    <2>1. end - start \in 2..Pow2[W]
        BY <1>3, <1>5
    <2>2. PICK b \in 0..(W - 1) : Pow2[b] < end - start /\ end - start <= 2 * Pow2[b]
        BY <2>1, PowerBelow
    <2>3. b \in 0..W
        BY WordWidth
    <2>4. PICK mid : mid = start + Pow2[b]
        OBVIOUS
    <2>5. MTH(data, start, end) = HashNode(MTH(data, start, mid), MTH(data, mid, end))
        BY <2>2, <2>3, <2>4, HashSplit
    <2> QED BY <1>2, <2>5
<1> QED BY <1>4, <1>5

LEMMA SequenceIsNoError ==
    ASSUME NEW S, NEW s \in Seq(S)
    PROVE  s # Error /\ Len(s) \in Nat
<1>1. Len(s) \in Nat /\ DOMAIN s = 1..Len(s)
    BY LenProperties
<1>2. DOMAIN Error = {0}
    BY DEF Error
<1>3. 0 \notin DOMAIN s /\ 0 \in DOMAIN Error
    BY <1>1, <1>2
<1> QED BY <1>1, <1>3

(* What may be asked of a tree: any integers, of which none that a word     *)
(* cannot hold is within the tree.                                          *)
LEMMA RequestIsValid ==
    ASSUME NEW N \in Words, NEW start \in -1..(N + 1), NEW end \in -1..(N + 1), end <= N
    PROVE  IsValidSubtree(start, end) <=> IsSubtree(start, end)
<1>1. N \in Nat /\ start \in Int /\ end \in Int
    BY Pow2Type, WordWidth DEF Words
<1>2. CASE start >= 0 /\ start <= end
    <2>1. start \in Words /\ end \in Words
        BY <1>1, <1>2, Pow2Type, WordWidth DEF Words
    <2>2. IsValidSubtreeU64(start, end) <=> IsSubtree(start, end)
        BY <2>1, ValidityExact
    <2>3. end >= 0
        BY <1>1, <1>2
    <2> QED BY <1>2, <2>2, <2>3 DEF IsValidSubtree
<1>3. CASE ~(start >= 0)
    BY <1>1, <1>3 DEF IsValidSubtree, IsSubtree
<1>4. CASE ~(start <= end)
    BY <1>1, <1>4 DEF IsValidSubtree, IsSubtree, IsValidSubtreeU64
<1> QED BY <1>2, <1>3, <1>4

(* What Section 4.1 allows to ask of a log with N entries. *)
MayAsk(N, index, start, end) ==
    IsSubtree(start, end) /\ end <= N /\ start <= index /\ index < end

(* The log answers those requests and no others; its answer evaluates to    *)
(* the hash of the subtree.                                                 *)
LEMMA InclusionAnswer ==
    ASSUME NEW data, Len(data) \in Words, NEW t, t = NewMerkleTree(data),
           NEW index \in -1..(Len(data) + 1), NEW start \in -1..(Len(data) + 1),
           NEW end \in -1..(Len(data) + 1),
           NEW proof, proof = SubtreeInclusionProof(t, index, start, end)
    PROVE  /\ (proof = Error) <=> ~MayAsk(Len(data), index, start, end)
           /\ proof # Error =>
                  /\ Len(proof) \in Nat
                  /\ EvaluateSubtreeInclusionProof(proof, index, HashLeaf(data[index + 1]),
                                                   start, end)
                         = MTH(data, start, end)
<1>1. /\ Len(data) \in Nat /\ index \in Int /\ start \in Int /\ end \in Int /\ Size(t) = Len(data)
    BY TreeNodes, Pow2Type, WordWidth DEF Words
<1>2. CASE ~MayAsk(Len(data), index, start, end)
    <2>1. end <= Len(data) => (IsValidSubtree(start, end) <=> IsSubtree(start, end))
        BY RequestIsValid
    <2>2. \/ ~IsValidSubtree(start, end) \/ end > Size(t) \/ start > index \/ index >= end
        BY <1>1, <1>2, <2>1 DEF MayAsk
    <2> QED BY <1>2, <2>2 DEF SubtreeInclusionProof
<1>3. CASE MayAsk(Len(data), index, start, end)
    <2>1. /\ IsSubtree(start, end) /\ end <= Len(data) /\ start <= index /\ index < end
          /\ 0 <= start
        BY <1>3 DEF MayAsk, IsSubtree
    <2>2. /\ end \in 0..Len(data) /\ start \in 0..end /\ start < end /\ end \in Words
          /\ index - start \in 0..(end - start - 1) /\ index = start + (index - start)
        <3>1. Pow2[W] \in Nat /\ Len(data) < Pow2[W]
            BY Pow2Type, WordWidth DEF Words
        <3>2. /\ end \in 0..Len(data) /\ start \in 0..end /\ start < end
              /\ index - start \in 0..(end - start - 1) /\ index = start + (index - start)
            BY <1>1, <2>1
        <3> QED BY <1>1, <3>1, <3>2 DEF Words
    <2>3. IsValidSubtree(start, end)
        BY <2>1, RequestIsValid
    <2>4. PICK y \in 0..(end - start - 1) : y = index - start
        BY <2>2
    <2>5. index = start + y /\ index + 1 = start + y + 1
        BY <1>1, <2>2, <2>4
    <2>6. proof = SiblingPath(t, index, end)[Height(start, end)]
        <3>1. 0 \in 0..Height(start, end)
            BY <2>1, <2>2, SubtreeShape
        <3>2. Top(0, start, end - 1) = Height(start, end)
            BY <2>1, <2>2, <3>1, TopIsHeight
        <3> QED BY <1>1, <2>1, <2>3, <3>2 DEF SubtreeInclusionProof
    <2>7. PICK path : path = SiblingPath(t, index, end)
        OBVIOUS
    <2>8. path[Height(start, end)] \in Seq(BlocksOf(data, start, end))
        <3>1. Height(start, end) \in 0..Height(start, end)
            BY <2>1, <2>2, SubtreeShape
        <3>2. PathOf(data, start, end, y, path)
            BY <2>1, <2>2, <2>5, <2>7, PathGrows
        <3> QED BY <3>1, <3>2 DEF PathOf
    <2>9. proof # Error /\ Len(proof) \in Nat
        BY <2>6, <2>7, <2>8, SequenceIsNoError
    <2>10. PICK hash : hash = HashLeaf(data[start + y + 1])
        OBVIOUS
    <2>11. PICK done : done = FoldPath(proof, y, end - start - 1, hash)[Len(proof)]
        OBVIOUS
    <2>12. ~done.tooMany /\ done.sn = 0 /\ done.r = MTH(data, start, end)
        BY <2>1, <2>2, <2>5, <2>6, <2>10, <2>11, FoldAccepts
    <2>13. EvaluateSubtreeInclusionProof(proof, index, hash, start, end) = MTH(data, start, end)
        BY <1>1, <2>1, <2>3, <2>4, <2>11, <2>12 DEF EvaluateSubtreeInclusionProof
    <2> QED BY <1>3, <2>5, <2>9, <2>10, <2>13
<1> QED BY <1>2, <1>3

(* A proof evaluates to a subtree's hash only for the entry at its index.   *)
LEMMA EvaluationBinds ==
    ASSUME NEW data, Len(data) \in Words,
           NEW end \in 0..Len(data), NEW start \in 0..end, IsSubtree(start, end),
           NEW index \in start..(end - 1), NEW proof, Len(proof) \in Nat, NEW hash,
           EvaluateSubtreeInclusionProof(proof, index, hash, start, end) = MTH(data, start, end)
    PROVE  hash = HashLeaf(data[index + 1])
<1>1. /\ end \in Words /\ start \in Nat /\ end \in Nat /\ index \in Nat /\ start < end
      /\ index - start \in 0..(end - start - 1)
    BY Pow2Type, WordWidth DEF Words
<1>2. MTH(data, start, end) # Error
    BY HashIsNoError
<1>3. PICK y \in 0..(end - start - 1) : y = index - start
    BY <1>1
<1>4. PICK done : done = FoldPath(proof, y, end - start - 1, hash)[Len(proof)]
    OBVIOUS
<1>5. ~done.tooMany /\ done.sn = 0 /\ done.r = MTH(data, start, end)
    BY <1>2, <1>3, <1>4 DEF EvaluateSubtreeInclusionProof
<1>6. hash = HashLeaf(data[start + y + 1])
    BY <1>1, <1>4, <1>5, FoldBinds
<1>7. start + y + 1 = index + 1
    BY <1>1, <1>3
<1> QED BY <1>6, <1>7

(* So it is with consistency proofs.                                        *)
LEMMA ConsistencyAnswer ==
    ASSUME NEW data, Len(data) \in Words, NEW t, t = NewMerkleTree(data),
           NEW start \in -1..(Len(data) + 1), NEW end \in -1..(Len(data) + 1),
           NEW proof, proof = SubtreeConsistencyProof(t, start, end)
    PROVE  /\ (proof = Error) <=> ~(IsSubtree(start, end) /\ end <= Len(data))
           /\ proof # Error => Len(proof) \in Nat
<1>1. /\ Len(data) \in Nat /\ start \in Int /\ end \in Int /\ Size(t) = Len(data)
    BY TreeNodes, Pow2Type, WordWidth DEF Words
<1>2. end <= Len(data) => (IsValidSubtree(start, end) <=> IsSubtree(start, end))
    BY RequestIsValid
<1>3. CASE ~(IsSubtree(start, end) /\ end <= Len(data))
    <2>1. ~IsValidSubtree(start, end) \/ end > Size(t)
        BY <1>1, <1>2, <1>3
    <2> QED BY <1>3, <2>1 DEF SubtreeConsistencyProof
<1>4. CASE IsSubtree(start, end) /\ end <= Len(data)
    <2>1. IsValidSubtree(start, end) /\ ~(end > Size(t))
        BY <1>1, <1>2, <1>4
    <2>2. end \in 0..Size(t) /\ start \in 0..end /\ Size(t) \in Words
        BY <1>1, <1>4 DEF IsSubtree
    <2>3. PICK sub : sub = SubtreeSubproof(t, end)
        OBVIOUS
    <2>4. PICK N : N = Size(t)
        OBVIOUS
    <2>5. sub[N][TRUE][start][0] \in Seq(HashesOf(t))
        BY <2>2, <2>3, <2>4, SubproofIsSequence
    <2>6. <<>> \in Seq(HashesOf(t))
        BY EmptySeq
    <2>7. proof \in Seq(HashesOf(t))
        BY <2>1, <2>3, <2>4, <2>5, <2>6 DEF SubtreeConsistencyProof
    <2>8. proof # Error /\ Len(proof) \in Nat
        BY <2>7, SequenceIsNoError
    <2> QED BY <1>4, <2>8
<1> QED BY <1>3, <1>4

(* So a consistency proof that the tree hands out verifies, with the hash   *)
(* of the subtree and the root.                                             *)
LEMMA ConsistencyAccepts ==
    ASSUME NEW data, Len(data) \in Words, NEW t, t = NewMerkleTree(data),
           NEW start \in -1..(Len(data) + 1), NEW end \in -1..(Len(data) + 1),
           IsSubtree(start, end), end <= Len(data),
           NEW proof, proof = SubtreeConsistencyProof(t, start, end)
    PROVE  VerifySubtreeConsistencyProof(proof, start, end, Len(data),
                                         MTH(data, start, end), MTH(data, 0, Len(data)))
<1>1. PICK n : n = Len(data)
    OBVIOUS
<1>2. /\ n \in Nat /\ n \in Words /\ Size(t) = n /\ end \in Int /\ start \in Int
      /\ 0 <= start /\ start <= end
    BY <1>1, TreeNodes, Pow2Type, WordWidth DEF Words, IsSubtree
<1>3. end \in 0..n /\ start \in 0..end /\ ~(end > n) /\ end <= n
    BY <1>1, <1>2
<1>4. IsValidSubtree(start, end)
    BY RequestIsValid
<1>5. CASE start = end
    <2>1. proof = <<>>
        BY <1>2, <1>3, <1>4, <1>5 DEF SubtreeConsistencyProof
    <2>2. MTH(data, start, end) = HashEmpty
        BY <1>2, <1>5, SmallHash
    <2> QED BY <1>1, <1>3, <1>4, <1>5, <2>1, <2>2 DEF VerifySubtreeConsistencyProof
<1>6. CASE start # end
    <2>1. end \in 1..n /\ start \in 0..(end - 1) /\ start < end
        BY <1>2, <1>3, <1>6
    <2>2. proof = SubtreeSubproof(t, end)[n][TRUE][start][0]
        BY <1>2, <1>3, <1>4, <1>6 DEF SubtreeConsistencyProof
    <2>3. PICK skip : skip = SkipToStart(start, end - 1, n - 1)
        OBVIOUS
    <2>4. /\ Len(proof) \in Nat
          /\ \E reached :
                 /\ ClimbsFrom(data, n, end, skip, proof, reached)
                 /\ reached[skip] = IF LastBlock(start, end, skip) = 0 THEN 0 ELSE 1
          /\ LastBlock(start, end, skip) # 0 => proof[1] = Holding(data, 0, n, end - 1, skip)
        <3>1. ClimbsWhole(data, n, start, end, skip, proof)
            BY <1>1, <2>1, <2>2, <2>3, SubproofClimbs
        <3> QED BY <3>1 DEF ClimbsWhole
    <2>5. PICK reached : /\ ClimbsFrom(data, n, end, skip, proof, reached)
                         /\ reached[skip] = IF LastBlock(start, end, skip) = 0 THEN 0 ELSE 1
        BY <2>4
    <2>6. PICK fn : fn = Shifted(start, skip)
        OBVIOUS
    <2>7. PICK sn : sn = Shifted(end - 1, skip)
        OBVIOUS
    <2>8. PICK from : from = IF fn = sn THEN 0 ELSE 1
        OBVIOUS
    <2>9. PICK node : node = MTH(data, start, end)
        OBVIOUS
    <2>10. PICK hash : hash = IF fn = sn THEN node ELSE proof[1]
        OBVIOUS
    <2>11. skip \in 0..W /\ RightEdge(data, start, end, skip) = Holding(data, 0, n, end - 1, skip)
        BY <1>2, <1>3, <2>1, <2>3, CommonNode
    <2>12. fn = sn <=> LastBlock(start, end, skip) = 0
        <3>1. end \in Words
            BY <1>2, <1>3, Pow2Type, WordWidth DEF Words
        <3>2. /\ Shifted(start, skip) \in Nat /\ Shifted(end - 1, skip) \in Nat
              /\ Shifted(start, skip) <= Shifted(end - 1, skip)
              /\ Shifted(start, skip) < Shifted(end - 1, skip) <=> LastBlock(start, end, skip) # 0
            BY <1>3, <2>1, <2>11, <3>1, EdgeBits
        <3> QED BY <2>6, <2>7, <3>2
    <2>13. from = reached[skip]
        BY <2>5, <2>8, <2>12
    <2>14. hash = RightEdge(data, start, end, skip)
        <3>1. start \in Nat /\ end \in Nat
            BY <1>3
        <3>2. LastBlock(start, end, skip) = 0 => RightEdge(data, start, end, skip) = node
            BY <2>1, <2>9, <2>11, <3>1, RightEdgeIs
        <3> QED BY <2>4, <2>10, <2>11, <2>12, <3>2
    <2>15. from <= Len(proof)
        <3>1. skip \in skip..W
            BY <2>11, WordWidth
        <3> QED BY <2>5, <2>13, <3>1 DEF ClimbsFrom
    <2>16. FinalChecks(FoldConsistency(proof, from, Shifted(start, skip), Shifted(end - 1, skip),
                                       Shifted(n - 1, skip), hash)[Len(proof)],
                       MTH(data, start, end), MTH(data, 0, n))
        <3>1. n \in 0..Len(data)
            BY <1>1, <1>2
        <3> QED BY <1>3, <2>1, <2>3, <2>4, <2>5, <2>13, <2>14, <3>1, ConsistencyFollows
    <2>17. VerifySubtreeConsistencyProof(proof, start, end, n, node, MTH(data, 0, n))
        BY <1>3, <1>4, <1>6, <2>3, <2>6, <2>7, <2>8, <2>9, <2>10, <2>15, <2>16
           DEF VerifySubtreeConsistencyProof
    <2> QED BY <1>1, <2>9, <2>17
<1> QED BY <1>5, <1>6

(* The log grows as a list does, its tree is always that of its entries,    *)
(* and what it handed out is right for the log as it is now.                *)
LogInv ==
    /\ entries \in Seq(Nat)
    /\ Len(entries) \in 1..MaxEntries
    /\ tree = NewMerkleTree(entries)
    /\ evidence.kind \in {"none", "inclusion", "consistency", "interval"}

InclusionInv ==
    evidence.kind = "inclusion" =>
        /\ evidence.size \in 1..Len(entries)
        /\ {evidence.index, evidence.start, evidence.end} \subseteq Int
        /\ (evidence.proof = Error)
               <=> ~MayAsk(evidence.size, evidence.index, evidence.start, evidence.end)
        /\ evidence.proof # Error =>
               /\ Len(evidence.proof) \in Nat
               /\ evidence.hash = MTH(entries, evidence.start, evidence.end)
               /\ EvaluateSubtreeInclusionProof(evidence.proof, evidence.index,
                      HashLeaf(entries[evidence.index + 1]), evidence.start, evidence.end)
                      = MTH(entries, evidence.start, evidence.end)

ConsistencyInv ==
    evidence.kind = "consistency" =>
        /\ evidence.size \in 1..Len(entries)
        /\ {evidence.start, evidence.end} \subseteq Int
        /\ (evidence.proof = Error)
               <=> ~(IsSubtree(evidence.start, evidence.end) /\ evidence.end <= evidence.size)
        /\ evidence.proof # Error =>
               /\ Len(evidence.proof) \in Nat
               /\ VerifySubtreeConsistencyProof(evidence.proof, evidence.start, evidence.end,
                      evidence.size, evidence.hash, evidence.root)

IInv == LogInv /\ InclusionInv /\ ConsistencyInv

LEMMA LogIsWord == LogInv => Len(entries) \in Words /\ Len(entries) \in Nat /\ entries \in Seq(Nat)
<1>1. Pow2[W] \in Nat
    BY Pow2Type, WordWidth
<1> QED BY <1>1, LogFitsWord DEF LogInv, Words

LEMMA AddEntryIInv == IInv /\ AddEntry => IInv'
<1> SUFFICES ASSUME IInv, AddEntry PROVE IInv'
    OBVIOUS
<1>1. /\ entries \in Seq(Nat) /\ Len(entries) \in Nat /\ Len(entries) \in 1..MaxEntries
      /\ Len(entries) < MaxEntries /\ MaxEntries \in Nat
      /\ entries' = Append(entries, Len(entries)) /\ tree' = NewMerkleTree(entries')
      /\ evidence' = evidence /\ Len(entries) \in Words
    BY LogIsWord, LogFitsWord, Pow2Type, WordWidth DEF IInv, LogInv, AddEntry
<1>2. /\ entries' \in Seq(Nat) /\ Len(entries') = Len(entries) + 1
      /\ \A i \in 1..Len(entries) : entries'[i] = entries[i]
    BY <1>1, AppendProperties
<1>3. LogInv'
    BY <1>1, <1>2 DEF IInv, LogInv
<1>4. Len(entries') \in Words
    <2>1. Pow2[W] \in Nat
        BY Pow2Type, WordWidth
    <2> QED BY <1>1, <1>2, <2>1, LogFitsWord DEF Words
<1>5. ASSUME NEW end \in 0..Len(entries), NEW start \in 0..end
      PROVE  MTH(entries', start, end) = MTH(entries, start, end)
    <2>1. PICK more : more = entries'
        OBVIOUS
    <2>2. /\ Len(more) \in Words /\ Len(entries) <= Len(more) /\ Len(entries) \in Words
          /\ \A i \in 1..Len(entries) : more[i] = entries[i]
        BY <1>1, <1>2, <1>4, <2>1
    <2>3. MTH(more, start, end) = MTH(entries, start, end)
        BY <2>2, HashOfGrown
    <2> QED BY <2>1, <2>3
<1>6. InclusionInv'
    <2> SUFFICES ASSUME evidence.kind = "inclusion" PROVE InclusionInv'
        BY <1>1 DEF InclusionInv
    <2>1. InclusionInv
        BY DEF IInv
    <2>2. /\ evidence.size \in 1..Len(entries) /\ evidence.size \in 1..Len(entries')
          /\ {evidence.index, evidence.start, evidence.end} \subseteq Int
          /\ (evidence.proof = Error)
                 <=> ~MayAsk(evidence.size, evidence.index, evidence.start, evidence.end)
        BY <1>1, <1>2, <2>1 DEF InclusionInv
    <2>3. CASE evidence.proof = Error
        BY <1>1, <2>2, <2>3 DEF InclusionInv
    <2>4. CASE evidence.proof # Error
        <3>1. /\ 0 <= evidence.start /\ evidence.start <= evidence.index
              /\ evidence.index < evidence.end /\ evidence.end <= evidence.size
            BY <2>2, <2>4 DEF MayAsk, IsSubtree
        <3>2. evidence.end \in 0..Len(entries) /\ evidence.start \in 0..evidence.end
                  /\ evidence.index + 1 \in 1..Len(entries)
            <4>1. /\ evidence.index \in Int /\ evidence.start \in Int /\ evidence.end \in Int
                  /\ evidence.size \in 1..Len(entries)
                BY <2>2
            <4> QED BY <1>1, <3>1, <4>1, SMTT(30)
        <3>3. /\ MTH(entries', evidence.start, evidence.end)
                     = MTH(entries, evidence.start, evidence.end)
              /\ entries'[evidence.index + 1] = entries[evidence.index + 1]
            BY <1>2, <1>5, <3>2
        <3> QED BY <1>1, <2>1, <2>2, <2>4, <3>3 DEF InclusionInv
    <2> QED BY <2>3, <2>4
<1>7. ConsistencyInv'
    <2>1. ConsistencyInv
        BY DEF IInv
    <2> QED BY <1>1, <1>2, <2>1 DEF ConsistencyInv
<1> QED BY <1>3, <1>6, <1>7 DEF IInv

LEMMA ProveInclusionIInv ==
    ASSUME IInv, NEW index \in Asked, NEW start \in Asked, NEW end \in Asked,
           ProveInclusion(index, start, end)
    PROVE  IInv'
<1>1. /\ evidence' = [kind |-> "inclusion", index |-> index, start |-> start, end |-> end,
                      size |-> Len(entries),
                      proof |-> SubtreeInclusionProof(tree, index, start, end),
                      hash  |-> SubtreeHash(tree, start, end)]
      /\ entries' = entries /\ tree' = tree
    BY DEF ProveInclusion
<1>2. PICK proof : proof = SubtreeInclusionProof(tree, index, start, end)
    OBVIOUS
<1>3. PICK hash : hash = SubtreeHash(tree, start, end)
    OBVIOUS
<1>4. /\ evidence'.kind = "inclusion" /\ evidence'.index = index /\ evidence'.start = start
      /\ evidence'.end = end /\ evidence'.size = Len(entries)
      /\ evidence'.proof = proof /\ evidence'.hash = hash
    BY <1>1, <1>2, <1>3
<1>5. /\ entries \in Seq(Nat) /\ Len(entries) \in 1..MaxEntries /\ Len(entries) \in Nat
      /\ tree = NewMerkleTree(entries) /\ Len(entries) \in Words
    BY LogIsWord DEF IInv, LogInv
<1>6. LogInv' /\ ConsistencyInv'
    BY <1>1, <1>4, <1>5 DEF LogInv, ConsistencyInv
<1>7. PICK data : data = entries
    OBVIOUS
<1>8. PICK t : t = tree
    OBVIOUS
<1>9. /\ (proof = Error) <=> ~MayAsk(Len(data), index, start, end)
      /\ proof # Error =>
             /\ Len(proof) \in Nat
             /\ EvaluateSubtreeInclusionProof(proof, index, HashLeaf(data[index + 1]), start, end)
                    = MTH(data, start, end)
    <2>1. /\ index \in -1..(Len(data) + 1) /\ start \in -1..(Len(data) + 1)
          /\ end \in -1..(Len(data) + 1) /\ Len(data) \in Words /\ t = NewMerkleTree(data)
          /\ proof = SubtreeInclusionProof(t, index, start, end)
        BY <1>2, <1>5, <1>7, <1>8 DEF Asked
    <2>2. (proof = Error) <=> ~MayAsk(Len(data), index, start, end)
        BY <2>1, InclusionAnswer
    <2>3. proof # Error =>
              /\ Len(proof) \in Nat
              /\ EvaluateSubtreeInclusionProof(proof, index, HashLeaf(data[index + 1]), start, end)
                     = MTH(data, start, end)
        BY <2>1, InclusionAnswer
    <2> QED BY <2>2, <2>3
<1>10. MayAsk(Len(data), index, start, end) => hash = MTH(data, start, end)
    <2> SUFFICES ASSUME MayAsk(Len(data), index, start, end) PROVE hash = MTH(data, start, end)
        OBVIOUS
    <2>1. /\ Len(data) \in Words /\ Len(data) \in Nat /\ t = NewMerkleTree(data)
          /\ hash = SubtreeHash(t, start, end)
        BY <1>3, <1>5, <1>7, <1>8
    <2>2. /\ IsSubtree(start, end) /\ 0 <= start /\ start <= end /\ end <= Len(data)
          /\ start \in Int /\ end \in Int
        BY <1>5, <1>7 DEF MayAsk, IsSubtree, Asked
    <2>3. end \in 0..Len(data) /\ start \in 0..end
        BY <2>1, <2>2
    <2> QED BY <2>1, <2>2, <2>3, SubtreeHashes
<1>11. Len(entries) \in 1..Len(entries) /\ {index, start, end} \subseteq Int
    BY <1>5 DEF Asked
<1>12. InclusionInv'
    BY <1>1, <1>4, <1>7, <1>9, <1>10, <1>11 DEF InclusionInv
<1> QED BY <1>6, <1>12 DEF IInv

LEMMA ProveConsistencyIInv ==
    ASSUME IInv, NEW start \in Asked, NEW end \in Asked, ProveConsistency(start, end)
    PROVE  IInv'
<1>1. /\ evidence' = [kind |-> "consistency", start |-> start, end |-> end,
                      size |-> Len(entries),
                      proof |-> SubtreeConsistencyProof(tree, start, end),
                      hash  |-> SubtreeHash(tree, start, end),
                      root  |-> RootHash(tree)]
      /\ entries' = entries /\ tree' = tree
    BY DEF ProveConsistency
<1>2. PICK proof, hash, root : /\ proof = SubtreeConsistencyProof(tree, start, end)
                               /\ hash = SubtreeHash(tree, start, end)
                               /\ root = RootHash(tree)
    OBVIOUS
<1>3. /\ evidence'.kind = "consistency" /\ evidence'.start = start
      /\ evidence'.end = end /\ evidence'.size = Len(entries)
      /\ evidence'.proof = proof /\ evidence'.hash = hash /\ evidence'.root = root
    BY <1>1, <1>2
<1>4. /\ entries \in Seq(Nat) /\ Len(entries) \in 1..MaxEntries /\ Len(entries) \in Nat
      /\ tree = NewMerkleTree(entries) /\ Len(entries) \in Words
    BY LogIsWord DEF IInv, LogInv
<1>5. LogInv' /\ InclusionInv'
    BY <1>1, <1>3, <1>4 DEF LogInv, InclusionInv
<1>6. /\ (proof = Error) <=> ~(IsSubtree(start, end) /\ end <= Len(entries))
      /\ proof # Error =>
             /\ Len(proof) \in Nat
             /\ VerifySubtreeConsistencyProof(proof, start, end, Len(entries), hash, root)
    <2>1. PICK data : data = entries
        OBVIOUS
    <2>2. PICK t : t = tree
        OBVIOUS
    <2>3. /\ start \in -1..(Len(data) + 1) /\ end \in -1..(Len(data) + 1)
          /\ Len(data) \in Words /\ t = NewMerkleTree(data)
          /\ proof = SubtreeConsistencyProof(t, start, end)
        BY <1>2, <1>4, <2>1, <2>2 DEF Asked
    <2>4. /\ (proof = Error) <=> ~(IsSubtree(start, end) /\ end <= Len(data))
          /\ proof # Error => Len(proof) \in Nat
        BY <2>3, ConsistencyAnswer
    <2>5. ASSUME proof # Error
          PROVE  VerifySubtreeConsistencyProof(proof, start, end, Len(data), hash, root)
        <3>1. IsSubtree(start, end) /\ end <= Len(data)
            BY <2>4, <2>5
        <3>2. /\ end \in 0..Len(data) /\ start \in 0..end /\ Len(data) \in 0..Len(data)
              /\ 0 \in 0..Len(data)
            BY <1>4, <2>1, <2>3, <3>1 DEF IsSubtree
        <3>3. hash = MTH(data, start, end)
            BY <1>2, <2>2, <2>3, <3>1, <3>2, SubtreeHashes
        <3>4. root = MTH(data, 0, Len(data))
            <4>1. root = SubtreeHash(t, 0, Len(data))
                <5>1. Size(t) = Len(data)
                    BY <1>4, <2>1, <2>2, TreeNodes
                <5> QED BY <1>2, <2>2, <5>1 DEF RootHash
            <4>2. IsSubtree(0, Len(data))
                BY <2>3, WholeIsSubtree
            <4> QED BY <2>3, <3>2, <4>1, <4>2, SubtreeHashes
        <3>5. VerifySubtreeConsistencyProof(proof, start, end, Len(data),
                                            MTH(data, start, end), MTH(data, 0, Len(data)))
            BY <2>3, <3>1, ConsistencyAccepts
        <3> QED BY <3>3, <3>4, <3>5
    <2> QED BY <2>1, <2>4, <2>5
<1>7. Len(entries) \in 1..Len(entries) /\ {start, end} \subseteq Int
    BY <1>4 DEF Asked
<1>8. ConsistencyInv'
    BY <1>1, <1>3, <1>6, <1>7 DEF ConsistencyInv
<1> QED BY <1>5, <1>8 DEF IInv

LEMMA Invariance == Spec => []IInv
<1>1. Init => IInv
    <2> SUFFICES ASSUME Init PROVE IInv
        OBVIOUS
    <2>1. /\ entries = <<0>> /\ tree = NewMerkleTree(<<0>>) /\ evidence.kind = "none"
        BY DEF Init, NoEvidence
    <2>2. <<0>> \in Seq(Nat) /\ Len(<<0>>) = 1
        OBVIOUS
    <2>3. LogInv
        <3>1. 1 \in 1..MaxEntries
            BY LogFitsWord
        <3> QED BY <2>1, <2>2, <3>1 DEF LogInv
    <2> QED BY <2>1, <2>3 DEF IInv, InclusionInv, ConsistencyInv
<1>2. IInv /\ [Next]_vars => IInv'
    <2> SUFFICES ASSUME IInv, [Next]_vars PROVE IInv'
        OBVIOUS
    <2>1. CASE AddEntry
        BY <2>1, AddEntryIInv
    <2>2. ASSUME NEW index \in Asked, NEW start \in Asked, NEW end \in Asked,
                 ProveInclusion(index, start, end)
          PROVE  IInv'
        BY <2>2, ProveInclusionIInv
    <2>3. ASSUME NEW start \in Asked, NEW end \in Asked, ProveConsistency(start, end)
          PROVE  IInv'
        BY <2>3, ProveConsistencyIInv
    <2>4. ASSUME NEW start \in Words, NEW end \in Words, CheckInterval(start, end)
          PROVE  IInv'
        BY <2>4 DEF CheckInterval, IInv, LogInv, InclusionInv, ConsistencyInv
    <2>5. CASE Discard
        BY <2>5 DEF Discard, NoEvidence, IInv, LogInv, InclusionInv, ConsistencyInv
    <2>6. CASE UNCHANGED vars
        BY <2>6 DEF vars, IInv, LogInv, InclusionInv, ConsistencyInv
    <2> QED BY <2>1, <2>2, <2>3, <2>4, <2>5, <2>6 DEF Next
<1> QED BY <1>1, <1>2, PTL DEF Spec

(* The log and its tree keep their shape, the tree has a leaf for every     *)
(* entry (log.go:86-96, tree.go:17-36).                                     *)
THEOREM TypeCorrectness == Spec => []TypeOK
<1>1. IInv => TypeOK
    <2> SUFFICES ASSUME IInv PROVE TypeOK
        OBVIOUS
    <2>1. Len(entries) \in Words
        BY LogIsWord DEF IInv
    <2>2. tree = NewMerkleTree(entries)
        BY DEF IInv, LogInv
    <2>3. Size(tree) = Len(entries)
        BY <2>1, <2>2, TreeNodes
    <2> QED BY <2>3 DEF TypeOK, IInv, LogInv
<1> QED BY <1>1, Invariance, PTL

(* For every subtree of every log, MerkleTree.SubtreeHash is the hash that  *)
(* RFC 9162 defines recursively (tree.go:55-84).                            *)
THEOREM HashesAreMTH == Spec => []SubtreeHashIsMTH
<1>1. IInv => SubtreeHashIsMTH
    <2> SUFFICES ASSUME IInv, NEW i \in SubtreesOf(Len(entries))
                 PROVE  SubtreeHash(tree, i.start, i.end) = MTH(entries, i.start, i.end)
        BY DEF SubtreeHashIsMTH
    <2>1. /\ Len(entries) \in Words /\ tree = NewMerkleTree(entries)
        BY LogIsWord DEF IInv, LogInv
    <2>2. i.end \in 0..Len(entries) /\ i.start \in 0..i.end /\ IsSubtree(i.start, i.end)
        BY <2>1 DEF SubtreesOf, IsSubtree
    <2>3. PICK start : start = i.start
        OBVIOUS
    <2>4. PICK end : end = i.end
        OBVIOUS
    <2>5. SubtreeHash(tree, start, end) = MTH(entries, start, end)
        BY <2>1, <2>2, <2>3, <2>4, SubtreeHashes
    <2> QED BY <2>3, <2>4, <2>5
<1> QED BY <1>1, Invariance, PTL

(* The log answers the requests that Section 4.1 allows for its size, and   *)
(* refuses every other, a negative one or one beyond the tree included      *)
(* (tree.go:87-89, 117-119).                                                *)
THEOREM BadRequestsAreRefused == Spec => []RefusesExactlyBadRequests
<1>1. IInv => RefusesExactlyBadRequests
    BY DEF IInv, InclusionInv, ConsistencyInv, RefusesExactlyBadRequests, MayAsk
<1> QED BY <1>1, Invariance, PTL

LEMMA AnsweredInclusion ==
    ASSUME IInv, InclusionAnswered
    PROVE  LET start == evidence.start
               end   == evidence.end
               index == evidence.index
           IN  /\ Len(entries) \in Words /\ tree = NewMerkleTree(entries)
               /\ Len(evidence.proof) \in Nat
               /\ end \in 0..Len(entries) /\ start \in 0..end /\ IsSubtree(start, end)
               /\ index \in start..(end - 1)
               /\ evidence.hash = MTH(entries, start, end)
               /\ EvaluateSubtreeInclusionProof(evidence.proof, index,
                      HashLeaf(entries[index + 1]), start, end) = MTH(entries, start, end)
<1>1. Len(entries) \in Words /\ Len(entries) \in Nat /\ tree = NewMerkleTree(entries)
    BY LogIsWord DEF IInv, LogInv
<1>2. /\ evidence.kind = "inclusion" /\ evidence.proof # Error
    BY DEF InclusionAnswered
<1>3. /\ evidence.size \in 1..Len(entries)
      /\ {evidence.index, evidence.start, evidence.end} \subseteq Int
      /\ MayAsk(evidence.size, evidence.index, evidence.start, evidence.end)
      /\ Len(evidence.proof) \in Nat
      /\ evidence.hash = MTH(entries, evidence.start, evidence.end)
      /\ EvaluateSubtreeInclusionProof(evidence.proof, evidence.index,
             HashLeaf(entries[evidence.index + 1]), evidence.start, evidence.end)
             = MTH(entries, evidence.start, evidence.end)
    BY <1>2 DEF IInv, InclusionInv
<1>4. /\ IsSubtree(evidence.start, evidence.end) /\ 0 <= evidence.start
      /\ evidence.end <= evidence.size
      /\ evidence.start <= evidence.index /\ evidence.index < evidence.end
    BY <1>3 DEF MayAsk, IsSubtree
<1>5. /\ evidence.end \in 0..Len(entries) /\ evidence.start \in 0..evidence.end
      /\ evidence.index \in evidence.start..(evidence.end - 1)
    BY <1>1, <1>3, <1>4
<1> QED BY <1>1, <1>3, <1>4, <1>5

(* An inclusion proof convinces whoever holds the subtree's hash, at        *)
(* whatever size the log is when the hash is computed (proof.go:19-74).     *)
THEOREM InclusionStaysValid == Spec => []InclusionProofsStayValid
<1>1. IInv => InclusionProofsStayValid
    <2> SUFFICES ASSUME IInv, InclusionAnswered PROVE InclusionProofsStayValid
        BY DEF InclusionProofsStayValid
    <2>1. PICK start : start = evidence.start
        OBVIOUS
    <2>2. PICK end : end = evidence.end
        OBVIOUS
    <2>3. PICK index : index = evidence.index
        OBVIOUS
    <2>4. /\ Len(entries) \in Words /\ tree = NewMerkleTree(entries)
          /\ end \in 0..Len(entries) /\ start \in 0..end /\ IsSubtree(start, end)
          /\ evidence.hash = MTH(entries, start, end)
          /\ EvaluateSubtreeInclusionProof(evidence.proof, index,
                 HashLeaf(entries[index + 1]), start, end) = MTH(entries, start, end)
        BY <2>1, <2>2, <2>3, AnsweredInclusion
    <2>5. SubtreeHash(tree, start, end) = MTH(entries, start, end)
        BY <2>4, SubtreeHashes
    <2>6. MTH(entries, start, end) # Error
        BY <2>4, HashIsNoError
    <2> QED BY <2>1, <2>2, <2>3, <2>4, <2>5, <2>6
            DEF InclusionProofsStayValid, VerifySubtreeInclusionProof
<1> QED BY <1>1, Invariance, PTL

(* A proof the log made is accepted for an index of any subtree only with   *)
(* the hash of the entry at that index (proof.go:34-74).                    *)
THEOREM InclusionBinds == Spec => []InclusionProofsBindIndexToEntry
<1>1. IInv => InclusionProofsBindIndexToEntry
    <2> SUFFICES ASSUME IInv, InclusionAnswered,
                        NEW i \in SubtreesOf(Len(entries)), NEW index \in i.start..(i.end - 1),
                        NEW entry \in 0..(Len(entries) - 1) \ {entries[index + 1]},
                        VerifySubtreeInclusionProof(evidence.proof, index, HashLeaf(entry),
                            SubtreeHash(tree, i.start, i.end), i.start, i.end)
                 PROVE  FALSE
        BY DEF InclusionProofsBindIndexToEntry
    <2>1. PICK start : start = i.start
        OBVIOUS
    <2>2. PICK end : end = i.end
        OBVIOUS
    <2>3. PICK proof : proof = evidence.proof
        OBVIOUS
    <2>4. /\ Len(entries) \in Words /\ tree = NewMerkleTree(entries) /\ Len(proof) \in Nat
        BY <2>3, AnsweredInclusion
    <2>5. end \in 0..Len(entries) /\ start \in 0..end /\ IsSubtree(start, end)
          /\ index \in start..(end - 1)
        BY <2>1, <2>2, <2>4 DEF SubtreesOf, IsSubtree
    <2>6. PICK hash : hash = HashLeaf(entry)
        OBVIOUS
    <2>7. EvaluateSubtreeInclusionProof(proof, index, hash, start, end) = MTH(entries, start, end)
        <3>1. SubtreeHash(tree, start, end) = MTH(entries, start, end)
            BY <2>4, <2>5, SubtreeHashes
        <3> QED BY <2>1, <2>2, <2>3, <2>6, <3>1 DEF VerifySubtreeInclusionProof
    <2>8. hash = HashLeaf(entries[index + 1])
        BY <2>4, <2>5, <2>7, EvaluationBinds
    <2>9. HashLeaf(entry) # HashLeaf(entries[index + 1])
        BY DEF HashLeaf
    <2> QED BY <2>6, <2>8, <2>9
<1> QED BY <1>1, Invariance, PTL

(* The consistency proof that the log makes for a subtree is accepted for   *)
(* its hash and the checkpoint of the same moment: the recursion of         *)
(* tree.go:115-162 makes the elements that the loop of proof.go:85-181      *)
(* uses up, in that order, for every subtree of every log.                  *)
THEOREM ConsistencyIsAccepted == Spec => []ConsistencyProofsAreAccepted
<1>1. IInv => ConsistencyProofsAreAccepted
    BY DEF IInv, ConsistencyInv, ConsistencyProofsAreAccepted, ConsistencyAnswered
<1> QED BY <1>1, Invariance, PTL

(* A consistency proof the log made is accepted for a subtree and any       *)
(* checkpoint only with the subtree's true hash (proof.go:85-181).          *)
THEOREM ConsistencyBinding == Spec => []ConsistencyProofsBindSubtreeToRoot
<1>1. IInv => ConsistencyProofsBindSubtreeToRoot
    <2> SUFFICES ASSUME IInv, ConsistencyAnswered,
                        NEW i \in SubtreesOf(Len(entries)), NEW n \in i.end..Len(entries),
                        NEW nodeHash, nodeHash # SubtreeHash(tree, i.start, i.end),
                        VerifySubtreeConsistencyProof(evidence.proof, i.start, i.end, n,
                            nodeHash, SubtreeHash(tree, 0, n))
                 PROVE  FALSE
        BY DEF ConsistencyProofsBindSubtreeToRoot
    <2>1. PICK start : start = i.start
        OBVIOUS
    <2>2. PICK end : end = i.end
        OBVIOUS
    <2>3. PICK proof : proof = evidence.proof
        OBVIOUS
    <2>4. /\ Len(entries) \in Words /\ Len(entries) \in Nat /\ tree = NewMerkleTree(entries)
          /\ Len(proof) \in Nat
        BY <2>3, LogIsWord DEF IInv, LogInv, ConsistencyInv, ConsistencyAnswered
    <2>5. /\ n \in 0..Len(entries) /\ end \in 0..n /\ end \in 0..Len(entries)
          /\ start \in 0..end /\ IsSubtree(start, end)
        BY <2>1, <2>2, <2>4 DEF SubtreesOf, IsSubtree
    <2>6. SubtreeHash(tree, start, end) = MTH(entries, start, end)
        BY <2>4, <2>5, SubtreeHashes
    <2>7. SubtreeHash(tree, 0, n) = MTH(entries, 0, n)
        <3>1. IsSubtree(0, n) /\ 0 \in 0..n
            <4>1. n \in Words /\ 0 \in 0..n
                BY <2>4, <2>5, Pow2Type, WordWidth DEF Words
            <4> QED BY <4>1, WholeIsSubtree
        <3> QED BY <2>4, <2>5, <3>1, SubtreeHashes
    <2>8. nodeHash = MTH(entries, start, end)
        <3>1. VerifySubtreeConsistencyProof(proof, start, end, n, nodeHash, MTH(entries, 0, n))
            BY <2>1, <2>2, <2>3, <2>7
        <3> QED BY <2>4, <2>5, <3>1, ConsistencyBinds
    <2> QED BY <2>1, <2>2, <2>6, <2>8
<1> QED BY <1>1, Invariance, PTL

-----------------------------------------------------------------------------
(* Answers about intervals *)

(* An answer has the question with it. *)
Answered ==
    evidence.kind = "interval" =>
        /\ evidence.start \in Words
        /\ evidence.end \in Words
        /\ evidence.valid = IsValidSubtreeU64(evidence.start, evidence.end)
        /\ evidence.cover = FindSubtrees(evidence.start, evidence.end)

LEMMA AnswersInvariance == Spec => []Answered
<1>1. Init => Answered
    BY DEF Init, NoEvidence, Answered
<1>2. Answered /\ [Next]_vars => Answered'
    <2> SUFFICES ASSUME Answered, [Next]_vars PROVE Answered'
        OBVIOUS
    <2>1. CASE AddEntry
        BY <2>1 DEF AddEntry, Answered
    <2>2. ASSUME NEW index, NEW start, NEW end, ProveInclusion(index, start, end)
          PROVE  Answered'
        BY <2>2 DEF ProveInclusion, Answered
    <2>3. ASSUME NEW start, NEW end, ProveConsistency(start, end) PROVE Answered'
        BY <2>3 DEF ProveConsistency, Answered
    <2>4. ASSUME NEW start \in Words, NEW end \in Words, CheckInterval(start, end)
          PROVE  Answered'
        BY <2>4 DEF CheckInterval, Answered
    <2>5. CASE Discard
        BY <2>5 DEF Discard, NoEvidence, Answered
    <2>6. CASE UNCHANGED vars
        BY <2>6 DEF vars, Answered
    <2> QED BY <2>1, <2>2, <2>3, <2>4, <2>5, <2>6 DEF Next
<1> QED BY <1>1, <1>2, PTL DEF Spec

(* The validity check agrees with Section 4.1 on all words, at the sizes    *)
(* at which BIT_CEIL overflows the word too (subtree.go:33-43).             *)
THEOREM ValidityOnWords == Spec => []ValidityExactOnWords
<1>1. Answered => ValidityExactOnWords
    <2> SUFFICES ASSUME Answered, evidence.kind = "interval"
                 PROVE  evidence.valid = IsSubtree(evidence.start, evidence.end)
        BY DEF ValidityExactOnWords
    <2>1. IsValidSubtreeU64(evidence.start, evidence.end)
              <=> IsSubtree(evidence.start, evidence.end)
        BY ValidityExact DEF Answered
    <2>2. /\ IsValidSubtreeU64(evidence.start, evidence.end) \in BOOLEAN
          /\ IsSubtree(evidence.start, evidence.end) \in BOOLEAN
        BY DEF IsValidSubtreeU64, IsSubtree
    <2> QED BY <2>1, <2>2 DEF Answered
<1> QED BY <1>1, AnswersInvariance, PTL

(* FindSubtrees covers every interval of words with two adjacent subtrees,  *)
(* the left one as small as possible (subtree.go:67-89).                    *)
THEOREM TightCovers == Spec => []CoverIsTight
<1>1. Answered => CoverIsTight
    <2> SUFFICES ASSUME Answered, evidence.kind = "interval" PROVE CoverIsTight
        BY DEF CoverIsTight
    <2> DEFINE start == evidence.start
               end   == evidence.end
               cover == evidence.cover
    <2>1. /\ start \in Words /\ end \in Words
          /\ cover = FindSubtrees(start, end)
          /\ start \in Nat /\ end \in Nat
        BY Pow2Type, WordWidth DEF Answered, Words
    <2>2. CASE start > end
        <3>1. cover = <<>> /\ ~(start <= end)
            BY <2>1, <2>2, CoverExact
        <3> QED BY <2>2, <3>1 DEF CoverIsTight
    <2>3. CASE ~(start > end)
        <3>1. start <= end
            BY <2>1, <2>3
        <3>2. TightCover(cover, start, end)
            BY <2>1, <3>1, CoverExact
        <3>3. PICK first \in Nat, mid \in Nat :
                  /\ cover = <<Interval(first, mid), Interval(mid, end)>>
                  /\ first <= start /\ start <= mid /\ mid <= end
                  /\ start < end => start < mid
                  /\ end - start >= 2 => mid < end
                  /\ IsSubtree(first, mid)
                  /\ IsSubtree(mid, end)
                  /\ \A s \in (first + 1)..start : ~IsSubtree(s, mid)
            BY <3>2 DEF TightCover
        <3>4. /\ cover # <<>>
              /\ cover[1] = [start |-> first, end |-> mid]
              /\ cover[2] = [start |-> mid, end |-> end]
            BY <3>3 DEF Interval
        <3> HIDE DEF cover, start, end
        <3>5. /\ cover[1].start = first /\ cover[1].end = mid
              /\ cover[2].start = mid /\ cover[2].end = end
            BY <3>4
        <3>6. (cover = <<>>) = (start > end)
            BY <2>3, <3>4
        <3> QED BY <3>1, <3>3, <3>5, <3>6 DEF CoverIsTight, cover, start, end
    <2> QED BY <2>2, <2>3
<1> QED BY <1>1, AnswersInvariance, PTL

=============================================================================
