---------------------------- MODULE LibraryProofs ---------------------------
(***************************************************************************)
(* What the operations of the library compute, for machine words of every  *)
(* width, logs of every length and any number of signatures: the facts     *)
(* about subtrees, landmarks, hashes and signatures that the theorems      *)
(* about the specifications rest on, and what each command of the tool     *)
(* makes of a state file.                                                  *)
(*                                                                         *)
(* Subtrees: the powers of two up to 2^W are a chain in which each divides *)
(* the next (PowersDivide), so that "the smallest power of two that is     *)
(* large enough" is one number whether it is found by counting bits or as  *)
(* BIT_CEIL (Ceiling).  With the split at the highest bit in which the two *)
(* ends of an interval differ, both halves of the cover are pieces of      *)
(* multiples of a power of two (SplitPoint, SplitCover).                   *)
(***************************************************************************)
EXTENDS DemoState, Certificates, SequenceTheorems, FiniteSetTheorems, WellFoundedInduction, TLAPS

-----------------------------------------------------------------------------
(* Numbers *)

(* A set of natural numbers has a smallest element. *)
LEMMA SmallestElement ==
    ASSUME NEW T \in SUBSET Nat, T # {}
    PROVE  \E x \in T : \A y \in T : x <= y
<1> DEFINE R  == StrictSubsetOrdering(Nat)
           F  == FiniteSubsetsOf(Nat)
           TT == {1..j : j \in T}
<1>1. IsWellFoundedOn(R, F)
    BY FS_StrictSubsetOrderingWellFounded
<1>2. TT # {}
    OBVIOUS
<1>3. TT \subseteq F
    <2> SUFFICES ASSUME NEW j \in T PROVE 1..j \in F
        OBVIOUS
    <2> QED BY FS_Interval DEF FiniteSubsetsOf
<1>4. PICK m \in TT : \A t \in TT : ~(<<t, m>> \in R)
    <2> HIDE DEF R, F, TT
    <2> QED BY <1>1, <1>2, <1>3, WFMin
<1>5. PICK x \in T : m = 1..x
    OBVIOUS
<1>6. ASSUME NEW y \in T, y < x PROVE FALSE
    <2>1. x \in 1..x /\ x \notin 1..y
        BY <1>6
    <2>2. 1..y \subseteq 1..x /\ 1..y # 1..x /\ 1..x \subseteq Nat
        BY <1>6, <2>1
    <2>3. <<1..y, 1..x>> \in R
        BY <2>2 DEF StrictSubsetOrdering
    <2> QED BY <1>4, <1>5, <2>3
<1> QED BY <1>6

(* Min of a set of natural numbers is its smallest element. *)
LEMMA MinIsSmallest ==
    ASSUME NEW T \in SUBSET Nat, T # {}
    PROVE  Min(T) \in T /\ \A y \in T : Min(T) <= y
<1>1. PICK x \in T : \A y \in T : x <= y
    BY SmallestElement
<1>2. \A z \in T : (\A y \in T : z <= y) => z = x
    BY <1>1
<1>3. Min(T) = x
    BY <1>1, <1>2 DEF Min
<1> QED BY <1>1, <1>3

(* Division by a power of two is division: quotient and remainder are the   *)
(* only ones.                                                               *)
LEMMA Division ==
    ASSUME NEW x \in Nat, NEW d \in Nat \ {0}
    PROVE  /\ x \div d \in Nat
           /\ x % d \in 0..(d - 1)
           /\ x = d * (x \div d) + (x % d)
OBVIOUS

LEMMA QuotientAndRemainder ==
    ASSUME NEW q \in Nat, NEW d \in Nat \ {0}, NEW r \in 0..(d - 1)
    PROVE  (d * q + r) \div d = q /\ (d * q + r) % d = r
OBVIOUS

-----------------------------------------------------------------------------
(* Powers of two *)

(* Pow2 is the function its recursive definition describes: for every n     *)
(* there is one on 0..n, or there would be a smallest n without.            *)
LEMMA Pow2Exists ==
    /\ DOMAIN Pow2 = 0..W
    /\ Pow2[0] = 1
    /\ \A k \in 1..W : Pow2[k] = 2 * Pow2[k - 1]
<1> DEFINE Doubles(g, n) == g = [k \in 0..n |-> IF k = 0 THEN 1 ELSE 2 * g[k - 1]]
           Without       == {n \in 0..W : ~ \E g : Doubles(g, n)}
<1>1. Without = {}
    <2> SUFFICES ASSUME Without # {} PROVE FALSE
        OBVIOUS
    <2>1. PICK n \in Without : \A m \in Without : n <= m
        <3>1. Without \in SUBSET Nat
            OBVIOUS
        <3> HIDE DEF Without
        <3> QED BY <3>1, SmallestElement
    <2>2. n \in Nat /\ n <= W
        BY WordWidth
    <2>3. CASE n = 0
        <3> DEFINE g == [k \in 0..n |-> 1]
        <3>1. Doubles(g, n)
            BY <2>3
        <3> QED BY <3>1
    <2>4. CASE n # 0
        <3>1. n - 1 \in 0..W /\ n - 1 \notin Without
            BY <2>1, <2>2, <2>4, WordWidth
        <3>2. PICK g : Doubles(g, n - 1)
            BY <3>1
        <3> DEFINE h == [k \in 0..n |-> IF k = n THEN 2 * g[n - 1] ELSE g[k]]
        <3>3. \A k \in 0..(n - 1) : g[k] = IF k = 0 THEN 1 ELSE 2 * g[k - 1]
            BY <3>2
        <3>4. \A k \in 0..n : h[k] = IF k = 0 THEN 1 ELSE 2 * h[k - 1]
            BY <2>2, <2>4, <3>3
        <3>5. Doubles(h, n)
            <4>1. h = [k \in 0..n |-> h[k]]
                OBVIOUS
            <4> HIDE DEF h
            <4> QED BY <3>4, <4>1
        <3> QED BY <3>5
    <2> QED BY <2>3, <2>4
<1>2. \E g : Doubles(g, W)
    <2>1. W \in 0..W
        BY WordWidth
    <2>2. W \notin Without
        <3> HIDE DEF Without
        <3> QED BY <1>1
    <2> HIDE DEF Doubles
    <2> QED BY <2>1, <2>2
<1>3. Pow2 = CHOOSE g : Doubles(g, W)
    BY DEF Pow2
<1>4. Doubles(Pow2, W)
    <2> HIDE DEF Doubles
    <2> QED BY <1>2, <1>3
<1> QED BY <1>4, WordWidth

(* They are positive, *)
LEMMA Pow2Type == \A k \in 0..W : Pow2[k] \in Nat \ {0}
<1> DEFINE Others == {k \in 0..W : Pow2[k] \notin Nat \ {0}}
<1> SUFFICES ASSUME Others # {} PROVE FALSE
    OBVIOUS
<1>1. PICK k \in Others : \A m \in Others : k <= m
    <2>1. Others \in SUBSET Nat
        OBVIOUS
    <2> HIDE DEF Others
    <2> QED BY <2>1, SmallestElement
<1>2. k \in Nat /\ k # 0 /\ k <= W
    BY Pow2Exists, WordWidth
<1>3. k - 1 \in 0..W /\ k - 1 \notin Others
    BY <1>1, <1>2, WordWidth
<1>4. Pow2[k - 1] \in Nat \ {0} /\ Pow2[k] = 2 * Pow2[k - 1]
    BY <1>2, <1>3, Pow2Exists, WordWidth
<1> QED BY <1>4

(* each divides the greater ones, *)
LEMMA PowersDivide ==
    ASSUME NEW i \in 0..W, NEW j \in i..W
    PROVE  \E q \in Nat \ {0} : Pow2[j] = Pow2[i] * q
<1> DEFINE Others == {k \in i..W : ~ \E q \in Nat \ {0} : Pow2[k] = Pow2[i] * q}
<1> SUFFICES ASSUME Others # {} PROVE FALSE
    OBVIOUS
<1>1. PICK k \in Others : \A m \in Others : k <= m
    <2>1. Others \in SUBSET Nat
        OBVIOUS
    <2> HIDE DEF Others
    <2> QED BY <2>1, SmallestElement
<1>2. Pow2[i] \in Nat \ {0} /\ Pow2[i] = Pow2[i] * 1
    BY Pow2Type
<1>3. k \in Nat /\ i < k /\ k <= W
    BY <1>2, WordWidth
<1>4. k - 1 \in i..W /\ k - 1 \notin Others
    BY <1>1, <1>3, WordWidth
<1>5. PICK q \in Nat \ {0} : Pow2[k - 1] = Pow2[i] * q
    BY <1>4
<1>6. Pow2[k] = 2 * Pow2[k - 1]
    BY <1>3, Pow2Exists, WordWidth
<1>7. Pow2[k] = Pow2[i] * (2 * q) /\ 2 * q \in Nat \ {0}
    BY <1>2, <1>5, <1>6
<1> QED BY <1>7

(* and none is as great as a later one. *)
LEMMA PowersAscend ==
    ASSUME NEW i \in 0..W, NEW j \in 0..W, i < j
    PROVE  Pow2[i] < Pow2[j]
<1>1. j - 1 \in i..W /\ j \in 1..W /\ j - 1 \in 0..W
    BY WordWidth
<1>2. PICK q \in Nat \ {0} : Pow2[j - 1] = Pow2[i] * q
    BY <1>1, PowersDivide
<1>3. /\ Pow2[j] = 2 * Pow2[j - 1]
      /\ Pow2[i] \in Nat \ {0}
    BY <1>1, Pow2Exists, Pow2Type
<1>4. Pow2[i] * q >= Pow2[i]
    BY <1>3
<1> QED BY <1>2, <1>3, <1>4

(* The number of bits of a word is the exponent of the first power above it. *)
LEMMA BitLength ==
    ASSUME NEW n \in 0..(Pow2[W] - 1)
    PROVE  /\ BitLen(n) \in 0..W
           /\ n < Pow2[BitLen(n)]
           /\ \A k \in 0..W : k < BitLen(n) => Pow2[k] <= n
<1> DEFINE Longer == {k \in 0..W : n < Pow2[k]}
<1>1. W \in 0..W /\ Pow2[W] \in Nat /\ n < Pow2[W] /\ n \in Nat
    BY Pow2Type, WordWidth
<1>2. Longer \in SUBSET Nat /\ Longer # {}
    BY <1>1
<1>3. BitLen(n) = Min(Longer)
    BY DEF BitLen
<1>4. Min(Longer) \in Longer /\ \A k \in Longer : Min(Longer) <= k
    <2> HIDE DEF Longer
    <2> QED BY <1>2, MinIsSmallest
<1>5. \A k \in 0..W : k < Min(Longer) => ~(n < Pow2[k])
    BY <1>4, WordWidth
<1>6. \A k \in 0..W : k < Min(Longer) => Pow2[k] <= n
    BY <1>1, <1>5, Pow2Type
<1> QED BY <1>3, <1>4, <1>6

(* BIT_CEIL is the first power of two that is not below the number. *)
LEMMA Ceiling ==
    ASSUME NEW n \in Nat, NEW k \in 0..W, n <= Pow2[k],
           \A i \in 0..W : i < k => Pow2[i] < n
    PROVE  BIT_CEIL(n) = Pow2[k]
<1> DEFINE Large == {p \in {Pow2[b] : b \in 0..W} : p >= n}
<1>1. Pow2[k] \in Large
    BY Pow2Type
<1>2. Large \in SUBSET Nat
    BY Pow2Type
<1>3. Min(Large) \in Large /\ Min(Large) <= Pow2[k]
    <2> HIDE DEF Large
    <2> QED BY <1>1, <1>2, MinIsSmallest
<1>4. PICK b \in 0..W : Min(Large) = Pow2[b] /\ Pow2[b] >= n
    BY <1>3
<1>5. ~(b < k)
    BY <1>4, Pow2Type
<1>6. ~(k < b)
    BY <1>3, <1>4, PowersAscend, Pow2Type
<1>7. b = k
    BY <1>5, <1>6, WordWidth
<1> QED BY <1>4, <1>7 DEF BIT_CEIL

LEMMA SmallCeiling == BIT_CEIL(0) = 1 /\ BIT_CEIL(1) = 1
<1>1. 0 \in 0..W /\ Pow2[0] = 1
    BY Pow2Exists, WordWidth
<1> QED BY <1>1, Ceiling

-----------------------------------------------------------------------------
(* Validity of subtrees *)

(* isValidSubtreeU64 decides the validity of Section 4.1 on words. *)
LEMMA ValidityExact ==
    ASSUME NEW start \in Words, NEW end \in Words
    PROVE  IsValidSubtreeU64(start, end) <=> IsSubtree(start, end)
<1> DEFINE n == end - start
<1>1. /\ start \in Nat /\ end \in Nat
      /\ start < Pow2[W] /\ end < Pow2[W]
      /\ W \in 0..W /\ W - 1 \in 0..W
      /\ Pow2[W] \in Nat \ {0} /\ Pow2[W - 1] \in Nat \ {0}
      /\ Pow2[W] = 2 * Pow2[W - 1]
    BY Pow2Type, Pow2Exists, WordWidth, SMTT(30) DEF Words
<1>2. CASE start > end
    BY <1>1, <1>2 DEF IsValidSubtreeU64, IsSubtree
<1>3. CASE start <= end /\ n <= 1
    <2>1. n = 0 \/ n = 1
        BY <1>1, <1>3
    <2>2. BIT_CEIL(n) = 1 /\ BitCeilU64(n) = 1
        BY <2>1, SmallCeiling DEF BitCeilU64
    <2>3. ~(n > Pow2[W - 1])
        BY <1>1, <2>1
    <2>4. start % 1 = 0
        BY <1>1
    <2> QED BY <1>1, <1>3, <2>2, <2>3, <2>4 DEF IsValidSubtreeU64, IsSubtree, LowBits
<1>4. CASE start <= end /\ n > 1 /\ n <= Pow2[W - 1]
    <2> DEFINE b == BitLen(n - 1)
    <2>1. n - 1 \in 0..(Pow2[W] - 1) /\ n \in Nat
        BY <1>1, <1>4
    <2>2. /\ b \in 0..W
          /\ n - 1 < Pow2[b]
          /\ \A k \in 0..W : k < b => Pow2[k] <= n - 1
        BY <2>1, BitLength
    <2> HIDE DEF b
    <2>3. BIT_CEIL(n) = Pow2[b]
        <3>1. \A k \in 0..W : Pow2[k] \in Nat
            BY Pow2Type
        <3>2. n <= Pow2[b] /\ \A k \in 0..W : k < b => Pow2[k] < n
            BY <2>1, <2>2, <3>1
        <3> HIDE DEF n
        <3> QED BY <2>1, <2>2, <3>2, Ceiling
    <2>4. b < W
        <3>1. ~(W - 1 < b)
            BY <1>1, <1>4, <2>1, <2>2
        <3> QED BY <2>2, <3>1, WordWidth
    <2>5. Pow2[b] < Pow2[W] /\ Pow2[b] \in Nat \ {0}
        BY <1>1, <2>2, <2>4, PowersAscend, Pow2Type
    <2>6. Pow2[b] % Pow2[W] = Pow2[b]
        BY <1>1, <2>5
    <2>7. BitCeilU64(n) = Pow2[b]
        BY <1>1, <1>4, <2>6 DEF BitCeilU64, b
    <2>8. LowBits(start, BitCeilU64(n)) = start % BIT_CEIL(n)
        BY <2>3, <2>5, <2>7 DEF LowBits
    <2> QED BY <1>1, <1>4, <2>8 DEF IsValidSubtreeU64, IsSubtree
<1>5. CASE start <= end /\ n > Pow2[W - 1]
    <2>1. n \in Nat /\ n <= Pow2[W]
        BY <1>1, <1>5
    <2>2. \A i \in 0..W : i < W => Pow2[i] < n
        <3> TAKE i \in 0..W
        <3> HAVE i < W
        <3>1. CASE i = W - 1
            BY <1>5, <3>1
        <3>2. CASE i < W - 1
            <4>1. Pow2[i] < Pow2[W - 1] /\ Pow2[i] \in Nat
                BY <1>1, <3>2, PowersAscend, Pow2Type
            <4> QED BY <1>1, <1>5, <2>1, <4>1
        <3> QED BY <3>1, <3>2, WordWidth
    <2>3. BIT_CEIL(n) = Pow2[W]
        <3> HIDE DEF n
        <3> QED BY <1>1, <2>1, <2>2, Ceiling
    <2>4. start % Pow2[W] = start
        BY <1>1
    <2> QED BY <1>1, <1>5, <2>3, <2>4 DEF IsValidSubtreeU64, IsSubtree
<1>6. n \in Int
    BY <1>1
<1> HIDE DEF n
<1> QED BY <1>1, <1>2, <1>3, <1>4, <1>5, <1>6

-----------------------------------------------------------------------------
(* Covers *)

(* The part in which two words differ. *)
LEMMA DifferenceLength ==
    ASSUME NEW x \in Words, NEW y \in Words
    PROVE  /\ DiffLen(x, y) \in 0..W
           /\ x \div Pow2[DiffLen(x, y)] = y \div Pow2[DiffLen(x, y)]
           /\ \A k \in 0..W : k < DiffLen(x, y) => x \div Pow2[k] # y \div Pow2[k]
<1> DEFINE Above == {k \in 0..W : x \div Pow2[k] = y \div Pow2[k]}
<1>1. /\ W \in 0..W /\ Pow2[W] \in Nat \ {0}
      /\ x \in 0..(Pow2[W] - 1) /\ y \in 0..(Pow2[W] - 1)
    BY Pow2Type, WordWidth DEF Words
<1>2. x \div Pow2[W] = 0 /\ y \div Pow2[W] = 0
    BY <1>1
<1>3. Above \in SUBSET Nat /\ Above # {}
    BY <1>1, <1>2
<1>4. Min(Above) \in Above /\ \A k \in Above : Min(Above) <= k
    <2> HIDE DEF Above
    <2> QED BY <1>3, MinIsSmallest
<1>5. DiffLen(x, y) = Min(Above)
    BY DEF DiffLen
<1>6. \A k \in 0..W : k < Min(Above) => k \notin Above
    <2> SUFFICES ASSUME NEW k \in 0..W, k < Min(Above), k \in Above PROVE FALSE
        OBVIOUS
    <2> HIDE DEF Above
    <2>1. Min(Above) <= k /\ Min(Above) \in Nat /\ k \in Nat
        BY <1>3, <1>4
    <2> QED BY <2>1
<1> QED BY <1>4, <1>5, <1>6

LEMMA Scaled ==
    ASSUME NEW d \in Nat \ {0}, NEW a \in Nat, NEW b \in Nat, a < b
    PROVE  d * a + d <= d * b
<1>1. PICK c \in Nat : b = a + 1 + c
    <2>1. b - a - 1 \in Nat /\ b = a + 1 + (b - a - 1)
        OBVIOUS
    <2> QED BY <2>1
<1>2. d * b = d * a + d + d * c /\ d * a \in Nat /\ d * c \in Nat
    BY <1>1
<1> QED BY <1>2

(* Half of the quotient by d is the quotient by 2d. *)
LEMMA HalfQuotient ==
    ASSUME NEW d \in Nat \ {0}, NEW q \in Nat, NEW r \in 0..(d - 1),
           NEW h \in Nat, NEW s \in 0..(2 * d - 1), d * q + r = (2 * d) * h + s
    PROVE  q = 2 * h \/ q = 2 * h + 1
<1>1. (2 * d) * h = d * (2 * h) /\ d * (2 * h) \in Nat /\ d * q \in Nat
    OBVIOUS
<1>2. ASSUME q < 2 * h PROVE FALSE
    <2>1. d * q + d <= d * (2 * h)
        BY <1>2, Scaled
    <2> QED BY <1>1, <2>1
<1>3. ASSUME 2 * h + 1 < q PROVE FALSE
    <2>1. d * (2 * h + 1) + d <= d * q
        BY <1>3, Scaled
    <2>2. d * (2 * h + 1) = d * (2 * h) + d
        OBVIOUS
    <2> QED BY <1>1, <2>1, <2>2
<1> QED BY <1>2, <1>3

(* Where an interval of at least two elements is split: both its ends lie   *)
(* less than a power of two from the middle, which is a multiple of it.     *)
LEMMA SplitPoint ==
    ASSUME NEW x \in Words, NEW y \in Words, x < y,
           NEW k, k = DiffLen(x, y) - 1, NEW d, d = Pow2[k]
    PROVE  /\ k \in 0..(W - 1)
           /\ d \in Nat \ {0}
           /\ x \div d \in Nat
           /\ x % d \in 0..(d - 1) /\ x = d * (x \div d) + (x % d)
           /\ y % d \in 0..(d - 1) /\ y = d * (x \div d + 1) + (y % d)
<1> DEFINE q == x \div d
           p == y \div d
<1>1. x \in Nat /\ y \in Nat
    BY Pow2Type, WordWidth DEF Words
<1>2. PICK l \in 0..W :
          /\ l = DiffLen(x, y)
          /\ x \div Pow2[l] = y \div Pow2[l]
          /\ \A j \in 0..W : j < l => x \div Pow2[j] # y \div Pow2[j]
    BY DifferenceLength
<1>3. l # 0
    <2> SUFFICES ASSUME l = 0 PROVE FALSE
        OBVIOUS
    <2>1. Pow2[l] = 1
        BY Pow2Exists
    <2>2. x \div 1 = x /\ y \div 1 = y
        BY <1>1
    <2>3. x = y
        BY <1>2, <2>1, <2>2
    <2> QED BY <1>1, <2>3
<1>4. l \in 1..W /\ k \in 0..W /\ k < l /\ k = l - 1
    BY <1>2, <1>3, WordWidth
<1>5. d \in Nat \ {0} /\ Pow2[l] = 2 * d
    BY <1>4, Pow2Type, Pow2Exists
<1>6. q # p
    BY <1>2, <1>4
<1>7. x \div (2 * d) = y \div (2 * d)
    BY <1>2, <1>5
<1>8. /\ q \in Nat /\ x % d \in 0..(d - 1) /\ x = d * q + (x % d)
      /\ p \in Nat /\ y % d \in 0..(d - 1) /\ y = d * p + (y % d)
    BY <1>1, <1>5, Division
<1> DEFINE h == x \div (2 * d)
<1>9. /\ h \in Nat
      /\ x % (2 * d) \in 0..(2 * d - 1) /\ x = (2 * d) * h + (x % (2 * d))
      /\ y % (2 * d) \in 0..(2 * d - 1) /\ y = (2 * d) * h + (y % (2 * d))
    <2>1. 2 * d \in Nat \ {0}
        BY <1>5
    <2>2. h \in Nat /\ x % (2 * d) \in 0..(2 * d - 1) /\ x = (2 * d) * h + (x % (2 * d))
        BY <1>1, <2>1, Division
    <2>3. /\ y % (2 * d) \in 0..(2 * d - 1)
          /\ y = (2 * d) * (y \div (2 * d)) + (y % (2 * d))
        BY <1>1, <2>1, Division
    <2> QED BY <1>7, <2>2, <2>3
<1> HIDE DEF q, p, h
<1>10. (q = 2 * h \/ q = 2 * h + 1) /\ (p = 2 * h \/ p = 2 * h + 1)
    <2> DEFINE r  == x % d
               t  == y % d
               r2 == x % (2 * d)
               t2 == y % (2 * d)
    <2>1. r \in 0..(d - 1) /\ r2 \in 0..(2 * d - 1) /\ d * q + r = (2 * d) * h + r2
        BY <1>8, <1>9
    <2>2. t \in 0..(d - 1) /\ t2 \in 0..(2 * d - 1) /\ d * p + t = (2 * d) * h + t2
        BY <1>8, <1>9
    <2> HIDE DEF r, t, r2, t2
    <2>3. q \in Nat /\ p \in Nat /\ h \in Nat /\ d \in Nat \ {0}
        BY <1>5, <1>8, <1>9
    <2>4. q = 2 * h \/ q = 2 * h + 1
        BY <2>1, <2>3, HalfQuotient
    <2>5. p = 2 * h \/ p = 2 * h + 1
        BY <2>2, <2>3, HalfQuotient
    <2> QED BY <2>4, <2>5
<1>11. ~(p < q)
    <2>1. ASSUME p < q PROVE FALSE
        <3>1. d * p + d <= d * q
            BY <1>5, <1>8, <2>1, Scaled
        <3>2. p \in Nat /\ q \in Nat /\ d \in Nat
            BY <1>5, <1>8
        <3>3. d * p \in Nat /\ d * q \in Nat
            BY <3>2
        <3> QED BY <1>1, <1>5, <1>8, <3>1, <3>3
    <2> QED BY <2>1
<1>12. p = q + 1
    BY <1>6, <1>8, <1>9, <1>10, <1>11
<1>13. k \in 0..(W - 1)
    BY <1>4, WordWidth
<1> QED BY <1>5, <1>8, <1>12, <1>13 DEF q

(* The first elements of a multiple of a power of two, not more of them     *)
(* than the power, form a subtree.                                          *)
LEMMA FirstElements ==
    ASSUME NEW k \in 0..W, NEW q \in Nat, NEW n \in 1..Pow2[k],
           NEW start, start = Pow2[k] * q
    PROVE  IsSubtree(start, start + n)
<1> DEFINE Large == {b \in 0..W : n <= Pow2[b]}
<1>1. Pow2[k] \in Nat \ {0} /\ n \in Nat
    BY Pow2Type
<1>2. k \in Large /\ Large \in SUBSET Nat
    BY <1>1
<1>3. PICK b \in Large : \A c \in Large : b <= c
    <2> HIDE DEF Large
    <2> QED BY <1>2, SmallestElement
<1>4. \A i \in 0..W : i < b => Pow2[i] < n
    BY <1>1, <1>3, Pow2Type
<1>5. BIT_CEIL(n) = Pow2[b]
    BY <1>1, <1>3, <1>4, Ceiling
<1>6. k \in b..W
    BY <1>2, <1>3
<1>7. PICK c \in Nat \ {0} : Pow2[k] = Pow2[b] * c
    BY <1>3, <1>6, PowersDivide
<1>8. Pow2[b] \in Nat \ {0} /\ b \in 0..W
    BY <1>3, Pow2Type
<1>9. Pow2[k] * q = Pow2[b] * (c * q) + 0 /\ c * q \in Nat
    BY <1>1, <1>7, <1>8
<1>10. (Pow2[k] * q) % Pow2[b] = 0
    <2> DEFINE m == c * q
               d == Pow2[b]
    <2>1. m \in Nat /\ d \in Nat \ {0} /\ 0 \in 0..(d - 1)
        BY <1>8, <1>9
    <2>2. (d * m + 0) % d = 0
        <3> HIDE DEF m, d
        <3> QED BY <2>1, QuotientAndRemainder
    <2> QED BY <1>9, <2>2
<1>11. start \in Nat /\ start % Pow2[b] = 0
    BY <1>1, <1>10
<1>12. start + n - start = n /\ start <= start + n /\ 0 <= start
    BY <1>1, <1>11
<1> QED BY <1>5, <1>11, <1>12 DEF IsSubtree

(* No part of such a multiple that begins later and does not fit into a     *)
(* smaller power of two is one.                                             *)
LEMMA LaterElements ==
    ASSUME NEW l \in 0..W, NEW q \in Nat, NEW r \in 1..(Pow2[l] - 1),
           \A i \in 0..W : i < l => Pow2[i] < Pow2[l] - r
    PROVE  ~IsSubtree(Pow2[l] * q + r, Pow2[l] * q + Pow2[l])
<1> DEFINE d == Pow2[l]
<1>1. d \in Nat \ {0} /\ r \in Nat /\ d - r \in Nat /\ d - r <= d
    BY Pow2Type
<1>2. BIT_CEIL(d - r) = d
    BY <1>1, Ceiling
<1>3. d * q \in Nat
    BY <1>1
<1>4. (d * q + d) - (d * q + r) = d - r
    BY <1>1, <1>3
<1>5. (d * q + r) % d = r
    BY <1>1, QuotientAndRemainder
<1>6. r # 0
    OBVIOUS
<1> HIDE DEF d
<1> QED BY <1>2, <1>4, <1>5, <1>6 DEF IsSubtree, d

(* The largest multiple of e up to x is the one before the next. *)
LEMMA MultipleBelow ==
    ASSUME NEW e \in Nat \ {0}, NEW m \in Nat, NEW x \in Nat, x < e * m, e * m <= x + e
    PROVE  /\ m - 1 \in Nat
           /\ e * m = e * (m - 1) + e
           /\ x - (x % e) = e * (m - 1)
           /\ x % e = x - e * (m - 1)
<1>1. m # 0
    OBVIOUS
<1>2. m - 1 \in Nat /\ e * m = e * (m - 1) + e /\ e * (m - 1) \in Nat
    BY <1>1
<1> DEFINE r == x - e * (m - 1)
<1>3. r \in 0..(e - 1) /\ x = e * (m - 1) + r
    BY <1>2
<1>4. x % e = r
    <2> HIDE DEF r
    <2> QED BY <1>2, <1>3, QuotientAndRemainder
<1> QED BY <1>2, <1>3, <1>4

(* FindSubtrees of an interval of at least two elements. *)
LEMMA SplitCover ==
    ASSUME NEW start \in Words, NEW end \in Words, end - start >= 2
    PROVE  \E first, mid \in Nat :
               /\ SplitInterval(start, end) = <<Interval(first, mid), Interval(mid, end)>>
               /\ first <= start /\ start < mid /\ mid < end
               /\ IsSubtree(first, mid)
               /\ IsSubtree(mid, end)
               /\ \A s \in (first + 1)..start : ~IsSubtree(s, mid)
<1> DEFINE last == end - 1
           k    == DiffLen(start, last) - 1
           d    == Pow2[k]
           q    == start \div d
           r    == start % d
           t    == last % d
           mid  == last - t
           l    == BitLen(d - 1 - r)
           e    == Pow2[l]
           first == start - (start % e)
<1>1. /\ start \in Nat /\ end \in Nat /\ last \in Nat /\ last \in Words
      /\ start < last /\ Pow2[W] \in Nat /\ end < Pow2[W]
    BY Pow2Type, WordWidth DEF Words
<1>2. /\ k \in 0..(W - 1)
      /\ d \in Nat \ {0}
      /\ q \in Nat
      /\ r \in 0..(d - 1) /\ start = d * q + r
      /\ t \in 0..(d - 1) /\ last = d * (q + 1) + t
    <2> HIDE DEF last, k, d
    <2>1. k = DiffLen(start, last) - 1 /\ d = Pow2[k]
        BY DEF k, d
    <2>2. last \in Words /\ start < last
        BY <1>1
    <2> QED BY <2>1, <2>2, SplitPoint
<1>3. SplitInterval(start, end) = <<Interval(first, mid), Interval(mid, end)>>
    BY DEF SplitInterval
<1> HIDE DEF last, k, d, q, r, t
<1>4. mid = d * (q + 1) /\ mid \in Nat /\ mid = d * q + d
    BY <1>1, <1>2
<1>5. k \in 0..W /\ d <= Pow2[W] /\ d < Pow2[W]
    <2>1. k \in 0..W /\ W \in 0..W /\ k < W
        BY <1>2, WordWidth
    <2> QED BY <1>1, <1>2, <2>1, PowersAscend DEF d
<1>6. /\ l \in 0..W
      /\ d - 1 - r < e
      /\ \A i \in 0..W : i < l => Pow2[i] <= d - 1 - r
    <2>1. d - 1 - r \in 0..(Pow2[W] - 1)
        BY <1>1, <1>2, <1>5
    <2> QED BY <2>1, BitLength
<1>7. e \in Nat \ {0} /\ l <= k
    <2>1. e \in Nat \ {0}
        BY <1>6, Pow2Type
    <2>2. ~(k < l)
        BY <1>2, <1>5, <1>6 DEF d
    <2>3. l \in Nat /\ k \in Nat
        BY <1>2, <1>6
    <2> HIDE DEF l
    <2> QED BY <2>1, <2>2, <2>3
<1> HIDE DEF l
<1>8. PICK c \in Nat \ {0} : d = e * c
    <2>1. k \in l..W
        BY <1>5, <1>6, <1>7
    <2> QED BY <1>6, <2>1, PowersDivide DEF d
<1> DEFINE m == c * (q + 1)
<1>9. mid = e * m /\ m \in Nat
    BY <1>2, <1>4, <1>7, <1>8
<1> HIDE DEF e, m, mid
<1>10. start < mid /\ mid <= start + e
    BY <1>1, <1>2, <1>4, <1>6, <1>7
<1>11. /\ m - 1 \in Nat
       /\ mid = e * (m - 1) + e
       /\ first = e * (m - 1)
       /\ mid = first + e
    <2>1. /\ start < e * m /\ e * m <= start + e
          /\ start \in Nat /\ e \in Nat \ {0} /\ m \in Nat
        BY <1>1, <1>7, <1>9, <1>10
    <2>2. /\ m - 1 \in Nat
          /\ e * m = e * (m - 1) + e
          /\ start - (start % e) = e * (m - 1)
        BY <2>1, MultipleBelow, ZenonT(30)
    <2> QED BY <1>9, <2>2
<1> HIDE DEF first
<1>12. first \in Nat /\ first <= start
    BY <1>1, <1>7, <1>10, <1>11
<1>13. IsSubtree(first, mid)
    <2>1. e \in 1..e
        BY <1>7
    <2> QED BY <1>6, <1>11, <2>1, FirstElements DEF e
<1>14. IsSubtree(mid, end)
    <2>1. end = mid + (t + 1) /\ t + 1 \in 1..d
        BY <1>1, <1>2, <1>4 DEF last
    <2>2. q + 1 \in Nat
        BY <1>2
    <2> QED BY <1>4, <1>5, <2>1, <2>2, FirstElements DEF d
<1>15. mid < end
    BY <1>1, <1>2, <1>4 DEF last
<1>16. \A s \in (first + 1)..start : ~IsSubtree(s, mid)
    <2> TAKE s \in (first + 1)..start
    <2> DEFINE v == s - first
    <2>1. v \in 1..(e - 1) /\ s = first + v
        BY <1>1, <1>4, <1>7, <1>10, <1>11, <1>12
    <2>2. \A i \in 0..W : i < l => Pow2[i] < e - v
        <3>1. e - v = mid - s
            BY <1>4, <1>7, <1>11, <1>12, <2>1
        <3>2. mid - start = d - r
            BY <1>1, <1>2, <1>4
        <3>3. mid - s >= mid - start
            BY <1>1, <1>4, <1>12
        <3>4. \A i \in 0..W : Pow2[i] \in Nat
            BY Pow2Type
        <3> HIDE DEF v
        <3>5. e - v \in Nat /\ e - v > d - 1 - r /\ d - 1 - r \in Nat
            BY <1>1, <1>2, <1>4, <1>7, <2>1, <3>1, <3>2, <3>3
        <3> QED BY <1>6, <3>4, <3>5
    <2> HIDE DEF v
    <2> QED BY <1>6, <1>11, <2>1, <2>2, LaterElements DEF e
<1> QED BY <1>3, <1>4, <1>10, <1>12, <1>13, <1>14, <1>15, <1>16

(* What FindSubtrees promises of its answer. *)
TightCover(cover, start, end) ==
    \E first, mid \in Nat :
        /\ cover = <<Interval(first, mid), Interval(mid, end)>>
        /\ first <= start /\ start <= mid /\ mid <= end
        /\ start < end => start < mid
        /\ end - start >= 2 => mid < end
        /\ IsSubtree(first, mid)
        /\ IsSubtree(mid, end)
        /\ \A s \in (first + 1)..start : ~IsSubtree(s, mid)

LEMMA CoverExact ==
    ASSUME NEW start \in Words, NEW end \in Words
    PROVE  /\ start > end => FindSubtrees(start, end) = <<>>
           /\ start <= end => TightCover(FindSubtrees(start, end), start, end)
<1>1. start \in Nat /\ end \in Nat
    BY Pow2Type, WordWidth DEF Words
<1>2. start > end => FindSubtrees(start, end) = <<>>
    BY DEF FindSubtrees
<1>3. ASSUME start <= end, end - start <= 1
      PROVE  TightCover(FindSubtrees(start, end), start, end)
    <2>1. FindSubtrees(start, end) = <<Interval(start, end), Interval(end, end)>>
        BY <1>1, <1>3 DEF FindSubtrees
    <2>2. IsSubtree(start, end) /\ IsSubtree(end, end)
        <3>1. end - end = 0 /\ (end - start = 0 \/ end - start = 1)
            BY <1>1, <1>3
        <3>2. BIT_CEIL(end - end) = 1 /\ BIT_CEIL(end - start) = 1
            BY <3>1, SmallCeiling
        <3>3. start % 1 = 0 /\ end % 1 = 0
            BY <1>1
        <3> QED BY <1>1, <1>3, <3>2, <3>3 DEF IsSubtree
    <2>3. (start + 1)..start = {}
        BY <1>1
    <2> QED BY <1>1, <1>3, <2>1, <2>2, <2>3 DEF TightCover
<1>4. ASSUME start <= end, ~(end - start <= 1)
      PROVE  TightCover(FindSubtrees(start, end), start, end)
    <2>1. FindSubtrees(start, end) = SplitInterval(start, end)
        BY <1>1, <1>4 DEF FindSubtrees
    <2>2. end - start >= 2
        BY <1>1, <1>4
    <2>3. PICK first \in Nat, mid \in Nat :
              /\ SplitInterval(start, end) = <<Interval(first, mid), Interval(mid, end)>>
              /\ first <= start /\ start < mid /\ mid < end
              /\ IsSubtree(first, mid)
              /\ IsSubtree(mid, end)
              /\ \A s \in (first + 1)..start : ~IsSubtree(s, mid)
        BY <2>2, SplitCover
    <2> QED BY <1>1, <2>1, <2>3 DEF TightCover
<1> QED BY <1>2, <1>3, <1>4

-----------------------------------------------------------------------------
(* Landmarks *)

(* The sizes of a landmark sequence over a log of this size. *)
OrderedSizes(l, size) ==
    /\ l.landmarks \in Seq(Nat)
    /\ Len(l.landmarks) >= 1
    /\ l.landmarks[1] = 0
    /\ \A i, j \in 1..Len(l.landmarks) : i < j => l.landmarks[i] < l.landmarks[j]
    /\ \A i \in 1..Len(l.landmarks) : l.landmarks[i] <= size

LEMMA LandmarkSizes ==
    ASSUME NEW size \in Words, NEW l, OrderedSizes(l, size)
    PROVE  /\ LastLandmark(l) \in Nat
           /\ TreeSize(l, 0) = 0
           /\ \A i \in 0..LastLandmark(l) : TreeSize(l, i) \in Nat /\ TreeSize(l, i) <= size
           /\ \A i, j \in 0..LastLandmark(l) : i < j => TreeSize(l, i) < TreeSize(l, j)
<1>1. /\ Len(l.landmarks) \in Nat \ {0}
      /\ \A i \in 1..Len(l.landmarks) : l.landmarks[i] \in Nat
    BY LenProperties, ElementOfSeq DEF OrderedSizes
<1>2. /\ LastLandmark(l) \in Nat
      /\ \A i \in 0..LastLandmark(l) : i + 1 \in 1..Len(l.landmarks)
    BY <1>1 DEF LastLandmark
<1>3. \A i, j \in 0..LastLandmark(l) : i < j => TreeSize(l, i) < TreeSize(l, j)
    <2> TAKE i, j \in 0..LastLandmark(l)
    <2> HAVE i < j
    <2>1. i + 1 \in 1..Len(l.landmarks) /\ j + 1 \in 1..Len(l.landmarks) /\ i + 1 < j + 1
        BY <1>2
    <2> QED BY <2>1 DEF OrderedSizes, TreeSize
<1> QED BY <1>1, <1>2, <1>3 DEF OrderedSizes, TreeSize

(* A landmark's two subtrees cover what it added to the one before. *)
LEMMA LandmarkIsCovered ==
    ASSUME NEW size \in Words, NEW l, OrderedSizes(l, size), NEW num \in 1..LastLandmark(l)
    PROVE  /\ TreeSize(l, num - 1) \in Nat
           /\ TreeSize(l, num - 1) < TreeSize(l, num)
           /\ TreeSize(l, num) \in 1..size
           /\ TightCover(LandmarkSubtrees(l, num), TreeSize(l, num - 1), TreeSize(l, num))
<1> DEFINE lo == TreeSize(l, num - 1)
           hi == TreeSize(l, num)
<1>1. /\ num - 1 \in 0..LastLandmark(l) /\ num \in 0..LastLandmark(l) /\ num - 1 < num
      /\ ~(num <= 0) /\ ~(num > LastLandmark(l))
    BY LandmarkSizes
<1>2. lo \in Nat /\ hi \in Nat /\ lo < hi /\ hi <= size
    BY <1>1, LandmarkSizes
<1>3. LandmarkSubtrees(l, num) = FindSubtrees(lo, hi)
    BY <1>1 DEF LandmarkSubtrees
<1>4. lo \in Words /\ hi \in Words /\ lo <= hi /\ size \in Nat
    BY <1>2, Pow2Type, WordWidth DEF Words
<1> HIDE DEF lo, hi
<1>5. TightCover(FindSubtrees(lo, hi), lo, hi)
    BY <1>4, CoverExact
<1> QED BY <1>2, <1>3, <1>4, <1>5 DEF lo, hi

(* A subtree that is not empty ends among the entries its landmark added,   *)
(* and the two of one landmark do not end at the same entry.                *)
LEMMA LandmarkSubtreeEnds ==
    ASSUME NEW size \in Words, NEW l, OrderedSizes(l, size),
           NEW num \in 1..LastLandmark(l), NEW k \in 1..2,
           LandmarkSubtrees(l, num)[k].start < LandmarkSubtrees(l, num)[k].end
    PROVE  /\ TreeSize(l, num - 1) < LandmarkSubtrees(l, num)[k].end
           /\ LandmarkSubtrees(l, num)[k].end <= TreeSize(l, num)
           /\ k = 1 /\ LandmarkSubtrees(l, num)[2].start < LandmarkSubtrees(l, num)[2].end =>
                  LandmarkSubtrees(l, num)[1].end # LandmarkSubtrees(l, num)[2].end
<1> DEFINE lo   == TreeSize(l, num - 1)
           hi   == TreeSize(l, num)
           pair == LandmarkSubtrees(l, num)
<1>1. lo \in Nat /\ hi \in Nat /\ lo < hi /\ TightCover(pair, lo, hi)
    <2>1. size \in Nat
        BY Pow2Type, WordWidth DEF Words
    <2> QED BY <2>1, LandmarkIsCovered
<1> HIDE DEF lo, hi
<1>2. PICK first \in Nat, mid \in Nat :
          /\ pair = <<Interval(first, mid), Interval(mid, hi)>>
          /\ lo <= mid /\ mid <= hi /\ lo < mid
    BY <1>1 DEF TightCover
<1>3. /\ pair[1].end = mid /\ pair[2].end = hi /\ pair[2].start = mid
    BY <1>2 DEF Interval
<1> QED BY <1>1, <1>2, <1>3 DEF lo, hi

(* Subtrees with different places in the sequence differ. *)
LEMMA DifferentLandmarkSubtrees ==
    ASSUME NEW size \in Words, NEW l, OrderedSizes(l, size),
           NEW i \in 1..LastLandmark(l), NEW j \in 1..LastLandmark(l),
           NEW k \in 1..2, NEW m \in 1..2,
           LandmarkSubtrees(l, i)[k].start < LandmarkSubtrees(l, i)[k].end,
           LandmarkSubtrees(l, i)[k] = LandmarkSubtrees(l, j)[m]
    PROVE  i = j /\ k = m
<1> DEFINE e == LandmarkSubtrees(l, i)[k].end
<1>1. /\ TreeSize(l, i - 1) < e /\ e <= TreeSize(l, i)
      /\ TreeSize(l, j - 1) < e /\ e <= TreeSize(l, j)
    <2>1. TreeSize(l, i - 1) < e /\ e <= TreeSize(l, i)
        BY LandmarkSubtreeEnds
    <2>2. /\ TreeSize(l, j - 1) < LandmarkSubtrees(l, j)[m].end
          /\ LandmarkSubtrees(l, j)[m].end <= TreeSize(l, j)
        BY LandmarkSubtreeEnds
    <2> QED BY <2>1, <2>2
<1>2. /\ LastLandmark(l) \in Nat
      /\ \A a \in 0..LastLandmark(l) : TreeSize(l, a) \in Nat
      /\ \A a, b \in 0..LastLandmark(l) : a < b => TreeSize(l, a) < TreeSize(l, b)
    BY LandmarkSizes
<1>3. /\ i - 1 \in 0..LastLandmark(l) /\ i \in 0..LastLandmark(l)
      /\ j - 1 \in 0..LastLandmark(l) /\ j \in 0..LastLandmark(l)
    BY <1>2
<1>4. e \in Nat
    <2>1. TightCover(LandmarkSubtrees(l, i), TreeSize(l, i - 1), TreeSize(l, i))
        BY LandmarkIsCovered
    <2>2. PICK mid \in Nat, first \in Nat :
              LandmarkSubtrees(l, i) = <<Interval(first, mid), Interval(mid, TreeSize(l, i))>>
        BY <2>1 DEF TightCover
    <2>3. TreeSize(l, i) \in Nat
        BY <1>2, <1>3
    <2> QED BY <2>2, <2>3 DEF Interval
<1> HIDE DEF e
<1>5. ASSUME NEW a \in 1..LastLandmark(l), NEW b \in 1..LastLandmark(l), a < b,
             e <= TreeSize(l, a), TreeSize(l, b - 1) < e
      PROVE  FALSE
    <2>1. /\ b - 1 \in 0..LastLandmark(l) /\ a \in 0..LastLandmark(l)
          /\ (a = b - 1 \/ a < b - 1)
        BY <1>2, <1>5
    <2>2. TreeSize(l, a) <= TreeSize(l, b - 1)
        BY <1>2, <2>1
    <2>3. TreeSize(l, a) \in Nat /\ TreeSize(l, b - 1) \in Nat
        BY <1>2, <2>1
    <2> QED BY <1>4, <1>5, <2>2, <2>3
<1>6. i = j
    <2>1. ~(i < j) /\ ~(j < i)
        BY <1>1, <1>5
    <2> QED BY <1>2, <2>1
<1>7. k = m
    <2> SUFFICES ASSUME k # m PROVE FALSE
        OBVIOUS
    <2>1. /\ LandmarkSubtrees(l, i)[1] = LandmarkSubtrees(l, i)[2]
          /\ LandmarkSubtrees(l, i)[1].start < LandmarkSubtrees(l, i)[1].end
          /\ 1 \in 1..2
        BY <1>6
    <2> QED BY <2>1, LandmarkSubtreeEnds
<1> QED BY <1>6, <1>7

(* FindContainingLandmark finds nothing beyond the last landmark, and below *)
(* it a subtree that the landmark has and that holds the index.             *)
LEMMA NothingFound ==
    ASSUME NEW size \in Words, NEW l, OrderedSizes(l, size), NEW index \in Int,
           ~(0 <= index /\ index < TreeSize(l, LastLandmark(l)))
    PROVE  FindContainingLandmark(l, index) = NoLandmark
<1>1. /\ LastLandmark(l) \in Nat
      /\ \A a \in 0..LastLandmark(l) : TreeSize(l, a) \in Nat
      /\ \A a, b \in 0..LastLandmark(l) : a < b => TreeSize(l, a) < TreeSize(l, b)
    BY LandmarkSizes
<1>2. \A num \in 1..LastLandmark(l) : ~(0 <= index /\ index < TreeSize(l, num))
    <2> TAKE num \in 1..LastLandmark(l)
    <2>1. /\ num \in 0..LastLandmark(l) /\ LastLandmark(l) \in 0..LastLandmark(l)
          /\ (num = LastLandmark(l) \/ num < LastLandmark(l))
        BY <1>1
    <2>2. /\ TreeSize(l, num) <= TreeSize(l, LastLandmark(l))
          /\ TreeSize(l, num) \in Nat /\ TreeSize(l, LastLandmark(l)) \in Nat
        BY <1>1, <2>1
    <2> QED BY <2>2
<1> QED BY <1>2 DEF FindContainingLandmark

LEMMA SomethingFound ==
    ASSUME NEW size \in Words, NEW l, OrderedSizes(l, size), NEW index \in Int,
           0 <= index, index < TreeSize(l, LastLandmark(l))
    PROVE  \E num \in 1..LastLandmark(l), k \in 1..2 :
               /\ FindContainingLandmark(l, index)
                      = [num |-> num, subtree |-> LandmarkSubtrees(l, num)[k]]
               /\ TreeSize(l, num - 1) <= index /\ index < TreeSize(l, num)
               /\ In(index, LandmarkSubtrees(l, num)[k])
<1> DEFINE above == {num \in 1..LastLandmark(l) : 0 <= index /\ index < TreeSize(l, num)}
           num   == Min(above)
<1>1. /\ LastLandmark(l) \in Nat
      /\ TreeSize(l, 0) = 0
      /\ \A a \in 0..LastLandmark(l) : TreeSize(l, a) \in Nat
    BY LandmarkSizes
<1>2. above \in SUBSET Nat /\ LastLandmark(l) \in above
    <2>1. LastLandmark(l) # 0
        BY <1>1
    <2> QED BY <1>1, <2>1
<1>3. num \in above /\ \A n \in above : num <= n
    <2> HIDE DEF above
    <2> QED BY <1>2, MinIsSmallest
<1>4. FindContainingLandmark(l, index) = SubtreeIn(l, num, index)
    BY <1>2 DEF FindContainingLandmark
<1>5. num \in 1..LastLandmark(l) /\ index < TreeSize(l, num)
    BY <1>3
<1>6. TreeSize(l, num - 1) <= index
    <2> HIDE DEF num
    <2>1. CASE num = 1
        BY <1>1, <2>1
    <2>2. CASE num # 1
        <3>1. num - 1 \in 1..LastLandmark(l) /\ ~(num <= num - 1)
            BY <1>1, <1>5, <2>2
        <3>2. num - 1 \notin above
            BY <1>3, <3>1
        <3>3. TreeSize(l, num - 1) \in Nat
            BY <1>1, <3>1
        <3> QED BY <3>1, <3>2, <3>3
    <2> QED BY <2>1, <2>2
<1> DEFINE lo   == TreeSize(l, num - 1)
           hi   == TreeSize(l, num)
           pair == LandmarkSubtrees(l, num)
           hits == {k \in 1..2 : In(index, pair[k])}
<1> HIDE DEF num
<1>7. TightCover(pair, lo, hi) /\ lo \in Nat /\ hi \in Nat
    <2>1. size \in Nat
        BY Pow2Type, WordWidth DEF Words
    <2> QED BY <1>5, <2>1, LandmarkIsCovered
<1> HIDE DEF lo, hi
<1>8. PICK first \in Nat, mid \in Nat :
          pair = <<Interval(first, mid), Interval(mid, hi)>> /\ first <= lo
    BY <1>7 DEF TightCover
<1>9. /\ pair[1].start = first /\ pair[1].end = mid
      /\ pair[2].start = mid /\ pair[2].end = hi
    BY <1>8 DEF Interval
<1>10. 1 \in hits \/ 2 \in hits
    BY <1>5, <1>6, <1>7, <1>8, <1>9 DEF In, lo, hi
<1>11. hits \in SUBSET Nat /\ hits # {}
    BY <1>10
<1>12. Min(hits) \in hits
    <2> HIDE DEF hits
    <2> QED BY <1>11, MinIsSmallest
<1>13. SubtreeIn(l, num, index) = [num |-> num, subtree |-> pair[Min(hits)]]
    BY <1>11 DEF SubtreeIn
<1>14. PICK k \in 1..2 : k = Min(hits) /\ In(index, pair[k])
    BY <1>12
<1> QED BY <1>4, <1>5, <1>6, <1>13, <1>14

(* A larger log has the landmarks of the smaller one. *)
LEMMA SizesStayOrdered ==
    ASSUME NEW size \in Nat, NEW l, OrderedSizes(l, size), NEW later \in Nat, size <= later
    PROVE  OrderedSizes(l, later)
<1>1. \A i \in 1..Len(l.landmarks) : l.landmarks[i] \in Nat /\ l.landmarks[i] <= size
    BY ElementOfSeq DEF OrderedSizes
<1>2. \A i \in 1..Len(l.landmarks) : l.landmarks[i] <= later
    BY <1>1
<1>3. /\ l.landmarks \in Seq(Nat)
      /\ Len(l.landmarks) >= 1
      /\ l.landmarks[1] = 0
      /\ \A i, j \in 1..Len(l.landmarks) : i < j => l.landmarks[i] < l.landmarks[j]
    BY DEF OrderedSizes
<1> QED BY <1>2, <1>3, Zenon DEF OrderedSizes

(* A landmark that may be allocated keeps the sizes in order and leaves the *)
(* landmarks before it, and their subtrees, as they are.                    *)
LEMMA AllocatedSizes ==
    ASSUME NEW size \in Nat, NEW l, OrderedSizes(l, size), NEW expiry,
           CanAllocate(l, size, expiry)
    PROVE  /\ OrderedSizes(AllocateLandmark(l, size, expiry), size)
           /\ LastLandmark(AllocateLandmark(l, size, expiry)) = LastLandmark(l) + 1
           /\ \A num \in 0..LastLandmark(l) :
                  TreeSize(AllocateLandmark(l, size, expiry), num) = TreeSize(l, num)
           /\ \A num \in 1..LastLandmark(l) :
                  LandmarkSubtrees(AllocateLandmark(l, size, expiry), num)
                      = LandmarkSubtrees(l, num)
<1> DEFINE new == AllocateLandmark(l, size, expiry)
           old == l.landmarks
           n   == Len(old)
<1>1. /\ old \in Seq(Nat) /\ n \in Nat \ {0} /\ LastLandmark(l) = n - 1
      /\ \A i \in 1..n : old[i] \in Nat
      /\ size > old[n]
    <2>1. old \in Seq(Nat) /\ n \in Nat \ {0}
        BY LenProperties DEF OrderedSizes
    <2>2. (n - 1) + 1 = n
        BY <2>1
    <2> QED BY <2>1, <2>2, ElementOfSeq DEF CanAllocate, TreeSize, LastLandmark
<1>2. new.landmarks = Append(old, size)
    BY DEF AllocateLandmark
<1>3. /\ new.landmarks \in Seq(Nat)
      /\ Len(new.landmarks) = n + 1
      /\ \A i \in 1..n : new.landmarks[i] = old[i]
      /\ new.landmarks[n + 1] = size
    BY <1>1, <1>2, AppendProperties
<1> HIDE DEF new, n, old
<1>4. LastLandmark(new) = n
    BY <1>1, <1>3 DEF LastLandmark
<1>5. \A num \in 0..LastLandmark(l) : TreeSize(new, num) = TreeSize(l, num)
    <2> TAKE num \in 0..LastLandmark(l)
    <2>1. num + 1 \in 1..n
        BY <1>1
    <2> QED BY <1>3, <2>1 DEF TreeSize, old
<1>6. \A num \in 1..LastLandmark(l) : LandmarkSubtrees(new, num) = LandmarkSubtrees(l, num)
    <2> TAKE num \in 1..LastLandmark(l)
    <2>1. /\ num \in 0..LastLandmark(l) /\ num - 1 \in 0..LastLandmark(l)
          /\ ~(num <= 0) /\ ~(num > LastLandmark(l)) /\ ~(num > LastLandmark(new))
        BY <1>1, <1>4
    <2>2. TreeSize(new, num) = TreeSize(l, num) /\ TreeSize(new, num - 1) = TreeSize(l, num - 1)
        BY <1>5, <2>1
    <2> QED BY <2>1, <2>2 DEF LandmarkSubtrees
<1>7. OrderedSizes(new, size)
    <2>1. /\ old[1] = 0
          /\ \A i, j \in 1..n : i < j => old[i] < old[j]
          /\ \A i \in 1..n : old[i] <= size
        BY DEF OrderedSizes, old, n
    <2>2. 1 \in 1..n /\ n \in 1..n
        BY <1>1
    <2>3. \A i \in 1..n : i < n => old[i] < old[n]
        BY <2>1, <2>2
    <2>4. ASSUME NEW i \in 1..(n + 1), NEW j \in 1..(n + 1), i < j
          PROVE  new.landmarks[i] < new.landmarks[j]
        <3>1. CASE j \in 1..n
            <4>1. i \in 1..n
                BY <1>1, <2>4, <3>1
            <4>2. new.landmarks[i] = old[i] /\ new.landmarks[j] = old[j] /\ old[i] < old[j]
                BY <1>3, <2>1, <2>4, <3>1, <4>1
            <4> QED BY <4>2
        <3>2. CASE j = n + 1
            <4>1. i \in 1..n /\ (i = n \/ i < n)
                BY <1>1, <2>4, <3>2
            <4>2. old[i] < size
                BY <1>1, <2>2, <2>3, <4>1
            <4> QED BY <1>3, <3>2, <4>1, <4>2
        <3> QED BY <1>1, <3>1, <3>2
    <2>5. ASSUME NEW i \in 1..(n + 1) PROVE new.landmarks[i] <= size
        <3>1. i \in 1..n \/ i = n + 1
            BY <1>1
        <3> QED BY <1>3, <2>1, <3>1
    <2>6. n + 1 >= 1 /\ new.landmarks[1] = 0
        BY <1>1, <1>3, <2>1, <2>2
    <2>7. PICK m : m = n + 1
        OBVIOUS
    <2>8. /\ new.landmarks \in Seq(Nat) /\ Len(new.landmarks) = m /\ m >= 1
          /\ new.landmarks[1] = 0
          /\ \A i, j \in 1..m : i < j => new.landmarks[i] < new.landmarks[j]
          /\ \A i \in 1..m : new.landmarks[i] <= size
        BY <1>3, <2>4, <2>5, <2>6, <2>7
    <2> QED BY <2>8 DEF OrderedSizes
<1>8. LastLandmark(new) = LastLandmark(l) + 1
    BY <1>1, <1>4
<1> QED BY <1>5, <1>6, <1>7, <1>8 DEF new

-----------------------------------------------------------------------------
(* Hashes and signatures *)

(* A subtree hash is made of the leaves below it. *)
LEMMA ViewElements ==
    ASSUME NEW S, NEW q \in Seq(S), NEW end \in 0..Len(q), NEW start \in 0..end
    PROVE  /\ SubtreeView(q, start, end) \in Seq(S)
           /\ Len(SubtreeView(q, start, end)) = end - start
           /\ \A j \in (start + 1)..end : SubtreeView(q, start, end)[j - start] = q[j]
<1> DEFINE u == SubSeq(q, start + 1, end)
<1>1. Len(q) \in Nat /\ \A i \in (start + 1)..end : q[i] \in S
    <2>1. Len(q) \in Nat
        BY LenProperties
    <2>2. \A i \in (start + 1)..end : i \in 1..Len(q)
        BY <2>1
    <2> QED BY <2>1, <2>2, ElementOfSeq
<1>2. /\ u \in Seq(S) /\ Len(u) = end - start
      /\ \A i \in 1..(end - start) : u[i] = q[start + 1 + i - 1]
    BY <1>1, SubSeqProperties
<1>3. \A j \in (start + 1)..end : u[j - start] = q[j]
    <2> TAKE j \in (start + 1)..end
    <2>1. j - start \in 1..(end - start) /\ start + 1 + (j - start) - 1 = j
        OBVIOUS
    <2> HIDE DEF u
    <2> QED BY <1>2, <2>1
<1> QED BY <1>2, <1>3 DEF SubtreeView

(* The elements below an index do not change when one is appended. *)
LEMMA ViewOfGrown ==
    ASSUME NEW S, NEW q \in Seq(S), NEW e \in S,
           NEW end \in 0..Len(q), NEW start \in 0..end
    PROVE  SubtreeView(Append(q, e), start, end) = SubtreeView(q, start, end)
<1> DEFINE t == Append(q, e)
           u == SubSeq(q, start + 1, end)
           v == SubSeq(t, start + 1, end)
<1>1. t \in Seq(S) /\ Len(t) = Len(q) + 1 /\ \A i \in 1..Len(q) : t[i] = q[i]
    BY AppendProperties
<1>2. Len(q) \in Nat /\ \A i \in (start + 1)..end : q[i] \in S /\ t[i] = q[i]
    <2>1. Len(q) \in Nat
        BY LenProperties
    <2>2. \A i \in (start + 1)..end : i \in 1..Len(q)
        BY <2>1
    <2> QED BY <1>1, <2>1, <2>2, ElementOfSeq
<1>3. /\ u \in Seq(S) /\ Len(u) = end - start
      /\ \A i \in 1..(end - start) : u[i] = q[start + 1 + i - 1]
    BY <1>2, SubSeqProperties
<1>4. /\ v \in Seq(S) /\ Len(v) = end - start
      /\ \A i \in 1..(end - start) : v[i] = t[start + 1 + i - 1]
    BY <1>2, SubSeqProperties
<1>5. \A i \in 1..(end - start) : u[i] = v[i]
    <2> SUFFICES ASSUME NEW i \in 1..(end - start) PROVE u[i] = v[i]
        OBVIOUS
    <2>1. start + 1 + i - 1 \in (start + 1)..end
        OBVIOUS
    <2> HIDE DEF u, v, t
    <2> QED BY <1>2, <1>3, <1>4, <2>1
<1> HIDE DEF u, v, t
<1>6. u = v
    BY <1>3, <1>4, <1>5, SeqEqual
<1> QED BY <1>6 DEF u, v, t, SubtreeView

(* Neighbours in ascending order put all elements in ascending order. *)
LEMMA AscendingThroughout ==
    ASSUME NEW n \in Nat, NEW id, \A i \in 1..n : id[i] \in Nat,
           \A i \in 1..(n - 1) : id[i] < id[i + 1],
           NEW a \in 1..n, NEW b \in 1..n, a < b
    PROVE  id[a] < id[b]
<1> DEFINE T == {j \in 1..n : a < j /\ ~(id[a] < id[j])}
<1> SUFFICES ASSUME T # {} PROVE FALSE
    OBVIOUS
<1>1. T \in SUBSET Nat
    OBVIOUS
<1>2. PICK j \in T : \A k \in T : j <= k
    <2> HIDE DEF T
    <2> QED BY <1>1, SmallestElement
<1>3. CASE j = a + 1
    BY <1>3
<1>4. CASE j # a + 1
    <2>1. j - 1 \in 1..n /\ a < j - 1 /\ j - 1 \notin T
        BY <1>2, <1>4
    <2>2. id[a] < id[j - 1]
        BY <2>1
    <2>3. j - 1 \in 1..(n - 1) /\ (j - 1) + 1 = j
        BY <2>1
    <2>4. id[j - 1] < id[j]
        BY <2>3
    <2> QED BY <2>1, <2>2, <2>4
<1> QED BY <1>3, <1>4

-----------------------------------------------------------------------------
(* Certificates *)

(* A serial number gives back the log and the index it was made of. *)
LEMMA SerialParts ==
    ASSUME NEW M \in Nat \ {0}, M = 2^IndexBits, NEW ln \in Nat, NEW index \in 0..(M - 1)
    PROVE  /\ SerialIndex(Serial(ln, index)) = index
           /\ SerialLogNumber(Serial(ln, index)) = ln
<1>1. (M * ln + index) \div M = ln /\ (M * ln + index) % M = index
    BY QuotientAndRemainder
<1>2. M * ln = ln * M
    OBVIOUS
<1> QED BY <1>1, <1>2 DEF Serial, SerialIndex, SerialLogNumber

(* The signature by a key for a subtree of a log. *)
SignatureBy(c, ln, st, hash) ==
    [id        |-> c.id,
     signature |-> Cosign(c.key, CosignedMessage(c.id, ln, st.start, st.end, hash))]

(* The certificate is for that entry and subtree and has a signature by     *)
(* each of the keys, in the order of their ids.                             *)
MadeFor(cert, ln, index, extensions, tbs, st, hash, keys) ==
    /\ cert.serial = Serial(ln, index)
    /\ cert.extensions = extensions /\ cert.tbs = tbs
    /\ cert.start = st.start /\ cert.end = st.end
    /\ cert.inclusion = hash
    /\ DOMAIN cert.signatures = 1..Len(keys)
    /\ Len(cert.signatures) = Len(keys)
    /\ \E p \in Bijection(1..Len(keys), 1..Len(keys)) : \A i \in 1..Len(keys) :
           cert.signatures[i] = SignatureBy(keys[p[i]], ln, st, hash)
    /\ \A i \in 1..(Len(keys) - 1) : cert.signatures[i].id <= cert.signatures[i + 1].id

(* CreateCertificate makes nothing else. *)
LEMMA CertificateMade ==
    ASSUME NEW K, NEW keys \in Seq(K), NEW leaves, NEW ln, NEW index,
           NEW extensions, NEW tbs, NEW st,
           NEW cert \in CreateCertificate(leaves, ln, index, extensions, tbs, st, keys)
    PROVE  /\ MadeFor(cert, ln, index, extensions, tbs, st,
                      SubtreeView(leaves, st.start, st.end), keys)
           /\ HasHash(Len(leaves), st) /\ In(index, st)
<1> DEFINE hash == SubtreeView(leaves, st.start, st.end)
           n    == Len(keys)
           unsorted == [i \in DOMAIN keys |-> SignatureBy(keys[i], ln, st, hash)]
           S    == {SignatureBy(keys[i], ln, st, hash) : i \in 1..n}
<1>1. n \in Nat /\ DOMAIN keys = 1..n
    BY LenProperties
<1>2. /\ HasHash(Len(leaves), st) /\ In(index, st)
      /\ \E sigs \in SortSignatures(unsorted) :
             cert = [serial |-> Serial(ln, index), tbs |-> tbs, extensions |-> extensions,
                     start |-> st.start, end |-> st.end, inclusion |-> hash,
                     signatures |-> sigs]
    BY DEF CreateCertificate, SignatureBy
<1>3. PICK sigs \in SortSignatures(unsorted) :
          cert = [serial |-> Serial(ln, index), tbs |-> tbs, extensions |-> extensions,
                  start |-> st.start, end |-> st.end, inclusion |-> hash,
                  signatures |-> sigs]
    BY <1>2
<1>4. /\ DOMAIN unsorted = 1..n
      /\ unsorted \in [1..n -> S]
      /\ \A i \in 1..n : unsorted[i] = SignatureBy(keys[i], ln, st, hash)
    BY <1>1
<1> HIDE DEF n, unsorted, S, hash
<1>5. Len(unsorted) = n
    <2>1. unsorted \in Seq(S)
        BY <1>1, <1>4, SeqDef
    <2> QED BY <1>1, <1>4, <2>1, LenProperties
<1>6. PICK p \in Bijection(1..n, 1..n) :
          /\ \A i \in 1..(n - 1) : unsorted[p[i]].id <= unsorted[p[i + 1]].id
          /\ sigs = [i \in 1..n |-> unsorted[p[i]]]
    BY <1>3, <1>4, <1>5 DEF SortSignatures
<1>7. \A i \in 1..n : p[i] \in 1..n
    BY DEF Bijection, Injection
<1>8. /\ DOMAIN sigs = 1..n
      /\ \A i \in 1..n : sigs[i] = SignatureBy(keys[p[i]], ln, st, hash)
    BY <1>4, <1>6, <1>7
<1>9. Len(sigs) = n
    <2>1. sigs \in [1..n -> S]
        BY <1>4, <1>6, <1>7
    <2>2. sigs \in Seq(S)
        BY <1>1, <2>1, SeqDef
    <2> QED BY <1>1, <1>8, <2>2, LenProperties
<1>10. \A i \in 1..(n - 1) : sigs[i].id <= sigs[i + 1].id
    <2> TAKE i \in 1..(n - 1)
    <2>1. i \in 1..n /\ i + 1 \in 1..n
        BY <1>1
    <2> QED BY <1>6, <2>1
<1> QED BY <1>2, <1>3, <1>6, <1>8, <1>9, <1>10 DEF MadeFor, n, hash

(* Sorted ids ascend strictly exactly when the keys' ids are different. *)
LEMMA DistinctIdsParse ==
    ASSUME NEW cert, NEW ln, NEW index, NEW extensions, NEW tbs, NEW st, NEW hash,
           NEW K, NEW keys \in Seq(K), \A k \in K : k.id \in Nat,
           MadeFor(cert, ln, index, extensions, tbs, st, hash, keys)
    PROVE  /\ Parses(cert) <=> \A i, j \in 1..Len(keys) : keys[i].id = keys[j].id => i = j
           /\ Parses(cert) <=> \A i, j \in DOMAIN cert.signatures :
                                   cert.signatures[i].id = cert.signatures[j].id => i = j
<1> DEFINE n  == Len(keys)
           id == [i \in 1..n |-> cert.signatures[i].id]
<1>1. /\ n \in Nat /\ \A i \in 1..n : keys[i].id \in Nat
      /\ DOMAIN cert.signatures = 1..n /\ Len(cert.signatures) = n
    BY LenProperties, ElementOfSeq DEF MadeFor
<1>2. PICK p \in Bijection(1..n, 1..n) : \A i \in 1..n :
          cert.signatures[i] = SignatureBy(keys[p[i]], ln, st, hash)
    BY DEF MadeFor
<1>3. /\ \A i \in 1..n : p[i] \in 1..n
      /\ \A i, j \in 1..n : p[i] = p[j] => i = j
      /\ \A k \in 1..n : \E i \in 1..n : p[i] = k
    BY DEF Bijection, Injection, Surjection, IsInjective
<1>4. \A i \in 1..n : /\ cert.signatures[i].id = keys[p[i]].id
                      /\ id[i] = keys[p[i]].id /\ id[i] \in Nat
    <2> TAKE i \in 1..n
    <2>1. cert.signatures[i].id = keys[p[i]].id
        <3>1. cert.signatures[i] = SignatureBy(keys[p[i]], ln, st, hash)
            BY <1>2
        <3> HIDE DEF id, n
        <3> QED BY <3>1 DEF SignatureBy
    <2>2. id[i] = cert.signatures[i].id
        OBVIOUS
    <2>3. keys[p[i]].id \in Nat
        BY <1>1, <1>3
    <2> HIDE DEF id, n
    <2> QED BY <2>1, <2>2, <2>3
<1>5. \A i \in 1..(n - 1) : /\ i \in 1..n /\ i + 1 \in 1..n
                            /\ id[i] = cert.signatures[i].id
                            /\ id[i + 1] = cert.signatures[i + 1].id
                            /\ id[i] <= id[i + 1]
    <2> TAKE i \in 1..(n - 1)
    <2>1. i \in 1..n /\ i + 1 \in 1..n
        BY <1>1
    <2> QED BY <2>1 DEF MadeFor
<1> HIDE DEF id, n
<1>6. Parses(cert) <=> \A i \in 1..(n - 1) : id[i] < id[i + 1]
    BY <1>1, <1>5 DEF Parses
<1>7. ASSUME \A i \in 1..(n - 1) : id[i] < id[i + 1], NEW i \in 1..n, NEW j \in 1..n,
             id[i] = id[j]
      PROVE  i = j
    <2>1. id[i] \in Nat /\ id[j] \in Nat
        BY <1>4
    <2>2. i < j => id[i] < id[j]
        BY <1>1, <1>4, <1>7, AscendingThroughout
    <2>3. j < i => id[j] < id[i]
        BY <1>1, <1>4, <1>7, AscendingThroughout
    <2>4. i \in Nat /\ j \in Nat
        BY <1>1
    <2> QED BY <1>7, <2>1, <2>2, <2>3, <2>4
<1>8. ASSUME \A i, j \in 1..n : id[i] = id[j] => i = j, NEW i \in 1..(n - 1)
      PROVE  id[i] < id[i + 1]
    <2>1. i \in 1..n /\ i + 1 \in 1..n /\ id[i] <= id[i + 1] /\ i # i + 1
        BY <1>1, <1>5
    <2>2. id[i] # id[i + 1] /\ id[i] \in Nat /\ id[i + 1] \in Nat
        BY <1>4, <1>8, <2>1
    <2> QED BY <2>1, <2>2
<1>9. Parses(cert) <=> \A i, j \in 1..n : id[i] = id[j] => i = j
    BY <1>6, <1>7, <1>8
<1>10. (\A i, j \in 1..n : id[i] = id[j] => i = j)
           <=> (\A i, j \in 1..n : keys[i].id = keys[j].id => i = j)
    <2>1. ASSUME \A i, j \in 1..n : id[i] = id[j] => i = j,
                 NEW k \in 1..n, NEW l \in 1..n, keys[k].id = keys[l].id
          PROVE  k = l
        <3>1. PICK i \in 1..n, j \in 1..n : p[i] = k /\ p[j] = l
            BY <1>3
        <3>2. id[i] = id[j]
            BY <1>4, <2>1, <3>1
        <3> QED BY <2>1, <3>1, <3>2
    <2>2. ASSUME \A k, l \in 1..n : keys[k].id = keys[l].id => k = l,
                 NEW i \in 1..n, NEW j \in 1..n, id[i] = id[j]
          PROVE  i = j
        <3>1. p[i] \in 1..n /\ p[j] \in 1..n /\ keys[p[i]].id = keys[p[j]].id
            BY <1>3, <1>4, <2>2
        <3>2. p[i] = p[j]
            BY <2>2, <3>1
        <3> QED BY <1>3, <3>2
    <2> QED BY <2>1, <2>2
<1>11. (\A i, j \in 1..n : id[i] = id[j] => i = j)
           <=> (\A i, j \in 1..n : cert.signatures[i].id = cert.signatures[j].id => i = j)
    BY <1>4
<1> QED BY <1>1, <1>9, <1>10, <1>11 DEF n

(* The inclusion proof evaluates to the hash it was made for exactly when   *)
(* the certificate's entry is the leaf at the index.                        *)
LEMMA EvaluatesToItself ==
    ASSUME NEW S, NEW leaves \in Seq(S), NEW cert, NEW index \in Nat,
           cert.end \in 0..Len(leaves), cert.start \in 0..cert.end,
           cert.start <= index, index < cert.end,
           cert.inclusion = SubtreeView(leaves, cert.start, cert.end)
    PROVE  EvaluatedHash(cert, index) = cert.inclusion
               <=> leaves[index + 1] = LogEntry(cert.extensions, cert.tbs)
<1> DEFINE view  == cert.inclusion
           k     == index - cert.start + 1
           entry == LogEntry(cert.extensions, cert.tbs)
<1>1. /\ view \in Seq(S) /\ Len(view) = cert.end - cert.start
      /\ \A j \in (cert.start + 1)..cert.end : view[j - cert.start] = leaves[j]
    <2>1. PICK end \in 0..Len(leaves) : end = cert.end
        OBVIOUS
    <2>2. PICK start \in 0..end : start = cert.start
        BY <2>1
    <2>3. LET v == SubtreeView(leaves, start, end)
          IN  /\ v \in Seq(S) /\ Len(v) = end - start
              /\ \A j \in (start + 1)..end : v[j - start] = leaves[j]
        BY ViewElements
    <2> QED BY <2>1, <2>2, <2>3
<1>2. /\ k \in 1..(cert.end - cert.start)
      /\ index + 1 \in (cert.start + 1)..cert.end /\ (index + 1) - cert.start = k
    OBVIOUS
<1> HIDE DEF view, k, entry
<1>3. view[k] = leaves[index + 1]
    BY <1>1, <1>2
<1>4. /\ DOMAIN view = 1..(cert.end - cert.start)
      /\ view = [i \in 1..(cert.end - cert.start) |-> view[i]]
    BY <1>1, LenProperties, SeqDef
<1>5. ([view EXCEPT ![k] = entry] = view) <=> view[k] = entry
    BY <1>2, <1>4
<1> QED BY <1>3, <1>5 DEF EvaluatedHash, view, k, entry

(* The first key that is trusted under the cosigner's id is the cosigner's. *)
IsTrustedFirst(c, trusted) ==
    \E k \in DOMAIN trusted :
        /\ IsFirst(k, {j \in DOMAIN trusted : trusted[j].id = c.id})
        /\ trusted[k].key = c.key

(* A signature verifies exactly when the hash is the one that was signed    *)
(* and the first trusted key for its id is the one that signed.             *)
LEMMA ValidSignature ==
    ASSUME NEW cert, NEW i \in DOMAIN cert.signatures, NEW c, NEW signed,
           cert.signatures[i] = SignatureBy(c, SerialLogNumber(cert.serial), cert, signed),
           NEW hash, NEW trusted
    PROVE  i \in ValidSignatures(cert, hash, trusted)
               <=> hash = signed /\ IsTrustedFirst(c, trusted)
<1> DEFINE ln == SerialLogNumber(cert.serial)
           Message(h) == CosignedMessage(c.id, ln, cert.start, cert.end, h)
<1>1. /\ cert.signatures[i].id = c.id
      /\ cert.signatures[i].signature = [key |-> c.key, message |-> Message(signed)]
    BY DEF SignatureBy, Cosign
<1>2. ASSUME NEW key
      PROVE  VerifyCosignature(key, Message(hash), cert.signatures[i].signature)
                 <=> hash = signed /\ key = c.key
    <2>1. Message(hash) = Message(signed) <=> hash = signed
        BY DEF CosignedMessage
    <2> HIDE DEF Message
    <2> QED BY <1>1, <2>1 DEF VerifyCosignature
<1>3. i \in ValidSignatures(cert, hash, trusted)
          <=> \E k \in DOMAIN trusted :
                  /\ IsFirst(k, {j \in DOMAIN trusted : trusted[j].id = c.id})
                  /\ VerifyCosignature(trusted[k].key, Message(hash), cert.signatures[i].signature)
    BY <1>1 DEF ValidSignatures
<1> HIDE DEF Message, ln
<1>4. ASSUME NEW k \in DOMAIN trusted
      PROVE  VerifyCosignature(trusted[k].key, Message(hash), cert.signatures[i].signature)
                 <=> hash = signed /\ trusted[k].key = c.key
    BY <1>2
<1> QED BY <1>3, <1>4 DEF IsTrustedFirst

(* A larger tree gives the same certificates. *)
LEMMA CreatedFromGrown ==
    ASSUME NEW S, NEW leaves \in Seq(S), NEW e \in S, NEW ln, NEW index,
           NEW extensions, NEW tbs, NEW st, NEW keys,
           NEW cert \in CreateCertificate(leaves, ln, index, extensions, tbs, st, keys)
    PROVE  cert \in CreateCertificate(Append(leaves, e), ln, index, extensions, tbs, st, keys)
<1> DEFINE grown == Append(leaves, e)
<1>1. HasHash(Len(leaves), st) /\ In(index, st)
    BY DEF CreateCertificate
<1>2. Len(grown) = Len(leaves) + 1 /\ Len(leaves) \in Nat
    BY AppendProperties, LenProperties
<1>3. /\ st.end \in 0..Len(leaves) /\ st.start \in 0..st.end
    BY <1>1 DEF HasHash
<1>4. HasHash(Len(grown), st)
    <2> HIDE DEF grown
    <2> QED BY <1>1, <1>2 DEF HasHash
<1>5. SubtreeView(grown, st.start, st.end) = SubtreeView(leaves, st.start, st.end)
    <2>1. PICK end \in 0..Len(leaves) : end = st.end
        BY <1>3
    <2>2. PICK start \in 0..end : start = st.start
        BY <1>3, <2>1
    <2>3. SubtreeView(grown, start, end) = SubtreeView(leaves, start, end)
        BY ViewOfGrown
    <2> QED BY <2>1, <2>2, <2>3
<1> HIDE DEF grown
<1>6. CreateCertificate(grown, ln, index, extensions, tbs, st, keys)
          = CreateCertificate(leaves, ln, index, extensions, tbs, st, keys)
    BY <1>1, <1>4, <1>5 DEF CreateCertificate
<1> QED BY <1>6 DEF grown

-----------------------------------------------------------------------------
(* The state file.  Every command makes a loadable state of a loadable      *)
(* state, for every log size and every argument.  Two facts about           *)
(* rebuildLog and syncEntries carry all of them: rebuilding keeps the       *)
(* entries that are available, and writing back erases exactly the others.  *)

Stored == EntryType \union {NullEntry, Blank}

(* The log rebuilt from a file has the file's size, starts with the null    *)
(* entry and repeats every other stored string.                             *)
LEMMA Rebuilt ==
    ASSUME NEW s \in StateType, Len(s.entries) >= 1
    PROVE  /\ RebuildLog(s).entries \in Seq(Stored)
           /\ Len(RebuildLog(s).entries) = Len(s.entries)
           /\ RebuildLog(s).entries[1] = NullEntry
           /\ \A i \in 2..Len(s.entries) : RebuildLog(s).entries[i] = s.entries[i]
           /\ RebuildLog(s).leaves = RebuildLog(s).entries
           /\ RebuildLog(s).minIndex = s.minIndex
<1> DEFINE e == s.entries
           r == <<NullEntry>> \o Tail(e)
<1>1. e \in Seq(Stored) /\ Len(e) \in Nat /\ e # <<>>
    BY LenProperties, EmptySeq DEF StateType, Stored
<1>2. /\ Tail(e) \in Seq(Stored)
      /\ Len(Tail(e)) = Len(e) - 1
      /\ \A i \in 1..Len(Tail(e)) : Tail(e)[i] = e[i + 1]
    BY <1>1, HeadTailProperties
<1>3. <<NullEntry>> \in Seq(Stored) /\ Len(<<NullEntry>>) = 1 /\ <<NullEntry>>[1] = NullEntry
    BY DEF Stored
<1>4. /\ r \in Seq(Stored)
      /\ Len(r) = 1 + Len(Tail(e))
      /\ \A i \in 1..(1 + Len(Tail(e))) :
             r[i] = IF i <= 1 THEN <<NullEntry>>[i] ELSE Tail(e)[i - 1]
    BY <1>2, <1>3, ConcatProperties
<1>5. Len(r) = Len(e) /\ r[1] = NullEntry
    BY <1>1, <1>2, <1>3, <1>4
<1>6. ASSUME NEW i \in 2..Len(e) PROVE r[i] = e[i]
    <2>1. i \in 1..(1 + Len(Tail(e))) /\ ~(i <= 1) /\ i - 1 \in 1..Len(Tail(e))
        BY <1>1, <1>2
    <2>2. r[i] = Tail(e)[i - 1]
        BY <1>4, <2>1
    <2>3. Tail(e)[i - 1] = e[(i - 1) + 1]
        BY <1>2, <2>1
    <2> QED BY <1>1, <2>2, <2>3
<1>7. RebuildLog(s) = [entries |-> r, leaves |-> r, minIndex |-> s.minIndex]
    BY DEF RebuildLog, Log
<1> QED BY <1>4, <1>5, <1>6, <1>7

(* Writing a log back stores the entries from its minimum index on and      *)
(* blanks before.                                                           *)
LEMMA Synced ==
    ASSUME NEW s \in StateType, NEW log,
           log.entries \in Seq(Stored), log.minIndex \in Nat
    PROVE  /\ SyncEntries(s, log) \in StateType
           /\ Len(SyncEntries(s, log).entries) = Len(log.entries)
           /\ \A i \in 1..Len(log.entries) :
                  SyncEntries(s, log).entries[i] =
                      IF i <= log.minIndex THEN Blank ELSE log.entries[i]
           /\ SyncEntries(s, log).minIndex = log.minIndex
           /\ SyncEntries(s, log).meta = s.meta
           /\ SyncEntries(s, log).cosigners = s.cosigners
           /\ SyncEntries(s, log).landmarks = s.landmarks
<1> DEFINE n == Len(log.entries)
           e == [i \in 1..n |-> IF Available(log, i - 1) THEN EntryAt(log, i - 1) ELSE Blank]
<1>1. n \in Nat
    BY LenProperties
<1>2. \A i \in 1..n : log.entries[i] \in Stored
    BY ElementOfSeq
<1>3. \A i \in 1..n : e[i] = IF i <= log.minIndex THEN Blank ELSE log.entries[i]
    BY <1>1 DEF Available, EntryAt, LogSize
<1>4. e \in [1..n -> Stored]
    BY <1>2, <1>3 DEF Stored
<1>5. e \in Seq(Stored)
    BY <1>1, <1>4, SeqDef
<1>6. Len(e) = n
    BY <1>1, <1>4, <1>5, LenProperties
<1>7. SyncEntries(s, log) = [entries |-> e, minIndex |-> log.minIndex, meta |-> s.meta,
                             cosigners |-> s.cosigners, landmarks |-> s.landmarks]
    <2>1. SyncEntries(s, log) = [[s EXCEPT !.entries = e] EXCEPT !.minIndex = log.minIndex]
        BY DEF SyncEntries, LogSize
    <2> HIDE DEF e
    <2>2. [s EXCEPT !.entries = e] =
              [entries |-> e, minIndex |-> s.minIndex, meta |-> s.meta,
               cosigners |-> s.cosigners, landmarks |-> s.landmarks]
        BY DEF StateType
    <2> QED BY <2>1, <2>2
<1> HIDE DEF e
<1> QED BY <1>3, <1>5, <1>6, <1>7 DEF StateType, Stored

-----------------------------------------------------------------------------
(* Prefixes *)

LEMMA PrefixOfItself ==
    ASSUME NEW S, NEW q \in Seq(S)
    PROVE  IsPrefix(q, q)
    BY LenProperties DEF IsPrefix

LEMMA PrefixOfAppend ==
    ASSUME NEW S, NEW q \in Seq(S), NEW e \in S
    PROVE  IsPrefix(q, Append(q, e))
<1> DEFINE t == Append(q, e)
           n == Len(q)
<1>1. /\ t \in Seq(S) /\ n \in Nat /\ Len(t) = n + 1
      /\ \A i \in 1..n : t[i] = q[i]
    BY AppendProperties, LenProperties
<1>2. \A i \in 1..n : q[i] \in S /\ t[i] \in S
    BY <1>1, ElementOfSeq
<1>3. /\ SubSeq(q, 1, n) \in Seq(S)
      /\ Len(SubSeq(q, 1, n)) = n
      /\ \A i \in 1..n : SubSeq(q, 1, n)[i] = q[i]
    BY <1>1, <1>2, SubSeqProperties
<1>4. /\ SubSeq(t, 1, n) \in Seq(S)
      /\ Len(SubSeq(t, 1, n)) = n
      /\ \A i \in 1..n : SubSeq(t, 1, n)[i] = t[i]
    BY <1>1, <1>2, SubSeqProperties
<1>5. SubSeq(q, 1, n) = SubSeq(t, 1, n)
    <2>1. \A i \in 1..Len(SubSeq(q, 1, n)) : SubSeq(q, 1, n)[i] = SubSeq(t, 1, n)[i]
        BY <1>1, <1>3, <1>4
    <2> QED BY <1>3, <1>4, <2>1, SeqEqual
<1> QED BY <1>1, <1>5 DEF IsPrefix

(* What holds of keys and landmarks that a command leaves alone. *)
LEMMA UntouchedParts ==
    ASSUME NEW s \in StateType
    PROVE  /\ Len(s.meta) >= Len(s.meta)
           /\ IsPrefix(s.cosigners, s.cosigners)
           /\ s.landmarks # NoLandmarks =>
                  /\ IsPrefix(s.landmarks.landmarks, s.landmarks.landmarks)
                  /\ IsPrefix(s.landmarks.expiries, s.landmarks.expiries)
<1>1. s.cosigners \in Seq([name : Names, key : Nat])
    BY DEF StateType
<1>2. s.landmarks # NoLandmarks =>
          s.landmarks.landmarks \in Seq(Nat) /\ s.landmarks.expiries \in Seq(Nat)
    BY DEF StateType, LandmarkType
<1> QED BY <1>1, <1>2, PrefixOfItself

(* The part of WellFormed about landmarks. *)
LandmarksFit(s) ==
    s.landmarks # NoLandmarks =>
        /\ LandmarksRebuild(s)
        /\ Len(s.landmarks.landmarks) >= 1
        /\ Len(s.landmarks.expiries) = Len(s.landmarks.landmarks)
        /\ s.landmarks.landmarks[1] = 0 /\ s.landmarks.expiries[1] = 0
        /\ s.landmarks.landmarks[Len(s.landmarks.landmarks)] <= Len(s.entries)

LEMMA NextPosition ==
    ASSUME NEW n \in Nat, NEW num \in 1..(n - 1)
    PROVE  num + 1 \in 2..n /\ (num + 1) - 1 = num
OBVIOUS

(* Landmarks stored in order, with an expiry each and the first one 0, are  *)
(* those that rebuildLandmarks makes of them.                               *)
LEMMA LandmarksRebuilt ==
    ASSUME NEW s, s.landmarks # NoLandmarks,
           NEW n \in Nat \ {0},
           s.landmarks.landmarks \in Seq(Nat), Len(s.landmarks.landmarks) = n,
           s.landmarks.expiries \in Seq(Nat), Len(s.landmarks.expiries) = n,
           s.landmarks.landmarks[1] = 0, s.landmarks.expiries[1] = 0
    PROVE  /\ LastLandmark(RebuildLandmarks(s)) = n - 1
           /\ TreeSize(RebuildLandmarks(s), n - 1) = s.landmarks.landmarks[n]
           /\ Expiry(RebuildLandmarks(s), n - 1) = s.landmarks.expiries[n]
           /\ LandmarksRebuild(s) <=>
                  \A i \in 2..n : /\ s.landmarks.landmarks[i] > s.landmarks.landmarks[i - 1]
                                  /\ s.landmarks.expiries[i] >= s.landmarks.expiries[i - 1]
<1> DEFINE ls == RebuildLandmarks(s)
           L  == s.landmarks.landmarks
           E  == s.landmarks.expiries
<1>1. DOMAIN L = 1..n
    BY LenProperties
<1>2. /\ ls.landmarks = [i \in 1..n |-> IF i = 1 THEN 0 ELSE L[i]]
      /\ ls.expiries = [i \in 1..n |-> IF i = 1 \/ i > n THEN 0 ELSE E[i]]
    BY <1>1 DEF RebuildLandmarks
<1> HIDE DEF ls, L, E
<1>3. \A i \in 1..n : ls.landmarks[i] = L[i] /\ ls.expiries[i] = E[i]
    BY <1>2 DEF L, E
<1>4. ls.landmarks \in Seq(Nat) /\ Len(ls.landmarks) = n
    <2>1. \A i \in 1..n : L[i] \in Nat
        BY ElementOfSeq DEF L
    <2>2. ls.landmarks \in [1..n -> Nat]
        BY <1>2, <2>1
    <2>3. n \in Nat
        OBVIOUS
    <2>4. ls.landmarks \in Seq(Nat)
        BY <2>2, <2>3, SeqDef
    <2> QED BY <2>2, <2>3, <2>4, LenProperties
<1>5. LastLandmark(ls) = n - 1
    BY <1>4 DEF LastLandmark
<1>6. TreeSize(ls, n - 1) = L[n] /\ Expiry(ls, n - 1) = E[n]
    <2>1. (n - 1) + 1 = n /\ n \in 1..n
        OBVIOUS
    <2> QED BY <1>3, <2>1 DEF TreeSize, Expiry
<1>7. \A num \in 1..(n - 1) :
          /\ TreeSize(ls, num) = L[num + 1] /\ TreeSize(ls, num - 1) = L[num]
          /\ Expiry(ls, num) = E[num + 1] /\ Expiry(ls, num - 1) = E[num]
    <2> TAKE num \in 1..(n - 1)
    <2>1. num + 1 \in 1..n /\ num \in 1..n /\ (num - 1) + 1 = num
        OBVIOUS
    <2> QED BY <1>3, <2>1 DEF TreeSize, Expiry
<1>8. LandmarksRebuild(s) <=>
          \A num \in 1..(n - 1) : L[num + 1] > L[num] /\ E[num + 1] >= E[num]
    BY <1>5, <1>7 DEF LandmarksRebuild, ls
<1>9. (\A num \in 1..(n - 1) : L[num + 1] > L[num] /\ E[num + 1] >= E[num])
          <=> \A i \in 2..n : L[i] > L[i - 1] /\ E[i] >= E[i - 1]
    <2>1. \A i \in 2..n : i - 1 \in 1..(n - 1) /\ (i - 1) + 1 = i
        OBVIOUS
    <2>2. \A num \in 1..(n - 1) : num + 1 \in 2..n /\ (num + 1) - 1 = num
        BY NextPosition
    <2> QED BY <2>1, <2>2
<1> QED BY <1>5, <1>6, <1>8, <1>9 DEF ls, L, E

LEMMA LandmarksStillFit ==
    ASSUME NEW s \in StateType, WellFormed(s),
           NEW t, t.landmarks = s.landmarks,
           Len(t.entries) \in Nat, Len(t.entries) >= Len(s.entries)
    PROVE  LandmarksFit(t)
<1> SUFFICES ASSUME s.landmarks # NoLandmarks
             PROVE  /\ LandmarksRebuild(t)
                    /\ Len(s.landmarks.landmarks) >= 1
                    /\ Len(s.landmarks.expiries) = Len(s.landmarks.landmarks)
                    /\ s.landmarks.landmarks[1] = 0 /\ s.landmarks.expiries[1] = 0
                    /\ s.landmarks.landmarks[Len(s.landmarks.landmarks)] <= Len(t.entries)
    BY DEF LandmarksFit
<1>1. s.landmarks.landmarks \in Seq(Nat) /\ Len(s.entries) \in Nat
    BY LenProperties DEF StateType, LandmarkType
<1>2. /\ LandmarksRebuild(s)
      /\ Len(s.landmarks.landmarks) >= 1
      /\ Len(s.landmarks.expiries) = Len(s.landmarks.landmarks)
      /\ s.landmarks.landmarks[1] = 0 /\ s.landmarks.expiries[1] = 0
      /\ s.landmarks.landmarks[Len(s.landmarks.landmarks)] <= Len(s.entries)
    BY DEF WellFormed
<1>3. s.landmarks.landmarks[Len(s.landmarks.landmarks)] \in Nat
    BY <1>1, <1>2, ElementOfSeq, LenProperties
<1>4. LandmarksRebuild(t)
    BY <1>2 DEF LandmarksRebuild, RebuildLandmarks
<1> QED BY <1>1, <1>2, <1>3, <1>4

-----------------------------------------------------------------------------
(* The commands *)

LEMMA InitialLoads == Loads(InitialState)
<1> DEFINE s == InitialState
<1>1. /\ s.entries = <<NullEntry>> /\ s.minIndex = 0 /\ s.meta = <<>>
      /\ s.cosigners = <<>> /\ s.landmarks = NoLandmarks
    BY DEF InitialState
<1>2. s \in StateType
    BY DEF InitialState, StateType
<1>3. WellFormed(s)
    BY <1>1, DemoConstants DEF WellFormed
<1> QED BY <1>2, <1>3 DEF Loads

(* "ca add" *)
LEMMA AddedLoads ==
    ASSUME NEW s, Loads(s), NEW cn \in CNs, NEW key \in Nat, NEW time \in Nat
    PROVE  /\ Loads(Added(s, cn, key, time))
           /\ OnlyErases(s, Added(s, cn, key, time))
           /\ Len(Added(s, cn, key, time).entries) = Len(s.entries) + 1
           /\ Added(s, cn, key, time).minIndex = s.minIndex
<1> DEFINE t     == Added(s, cn, key, time)
           entry == Entry(cn, key, time)
           old   == RebuildLog(s)
           log   == AddEntryTo(old, entry)
           n     == Len(s.entries)
           synced == SyncEntries(s, log)
<1>1. s \in StateType /\ WellFormed(s)
    BY DEF Loads
<1>2. n \in Nat /\ n >= 1 /\ s.minIndex \in 0..n
    BY <1>1, LenProperties DEF WellFormed, StateType
<1>3. entry \in EntryType /\ entry \in Stored /\ entry # Blank
    BY DemoConstants DEF Entry, EntryType, Stored
<1>4. /\ log.entries \in Seq(Stored)
      /\ Len(log.entries) = n + 1
      /\ log.entries[1] = NullEntry
      /\ \A i \in 2..n : log.entries[i] = s.entries[i]
      /\ log.entries[n + 1] = entry
      /\ log.minIndex = s.minIndex
    <2>1. log = [entries |-> Append(old.entries, entry),
                 leaves |-> Append(old.entries, entry), minIndex |-> old.minIndex]
        BY DEF AddEntryTo, Log
    <2>2. /\ old.entries \in Seq(Stored) /\ Len(old.entries) = n
          /\ old.entries[1] = NullEntry
          /\ \A i \in 2..n : old.entries[i] = s.entries[i]
          /\ old.minIndex = s.minIndex
        BY <1>1, <1>2, Rebuilt
    <2> HIDE DEF old, entry
    <2> QED BY <1>2, <1>3, <2>1, <2>2, AppendProperties
<1>5. /\ synced \in StateType
      /\ Len(synced.entries) = n + 1
      /\ \A i \in 1..(n + 1) :
             synced.entries[i] = IF i <= s.minIndex THEN Blank ELSE log.entries[i]
      /\ synced.minIndex = s.minIndex
      /\ synced.meta = s.meta
      /\ synced.cosigners = s.cosigners
      /\ synced.landmarks = s.landmarks
    BY <1>1, <1>2, <1>4, Synced
<1> DEFINE m == [i \in 1..(n + 1) |->
                    CASE i = n + 1 -> entry
                      [] i # n + 1 /\ i <= Len(s.meta) -> s.meta[i]
                      [] OTHER -> NoMeta]
<1>6. t = [synced EXCEPT !.meta = m]
    <2>1. Len(s.meta) \in 0..(n + 1) /\ DOMAIN s.meta = 1..Len(s.meta)
        BY <1>1, <1>2, LenProperties DEF StateType, WellFormed
    <2>2. 1..(n + 1) \union DOMAIN s.meta = 1..(n + 1)
        BY <1>2, <2>1
    <2> QED BY <1>4, <2>2 DEF Added, LogSize
<1> HIDE DEF entry, log, old, synced
<1>7. m \in Seq(EntryType \union {NoMeta}) /\ Len(m) = n + 1
    <2>1. \A i \in 1..Len(s.meta) : s.meta[i] \in EntryType \union {NoMeta}
        BY <1>1, ElementOfSeq DEF StateType
    <2>2. Len(s.meta) \in Nat
        BY <1>1, LenProperties DEF StateType
    <2>3. m \in [1..(n + 1) -> EntryType \union {NoMeta}]
        BY <1>2, <1>3, <2>1, <2>2
    <2> HIDE DEF m
    <2>4. n + 1 \in Nat
        BY <1>2
    <2>5. m \in Seq(EntryType \union {NoMeta})
        BY <2>3, <2>4, SeqDef
    <2> QED BY <2>3, <2>4, <2>5, LenProperties
<1>8. /\ m[n + 1] = entry
      /\ \A i \in 1..n : i <= Len(s.meta) => m[i] = s.meta[i]
    BY <1>2
<1> HIDE DEF m
<1>9. /\ t.entries = synced.entries /\ t.minIndex = s.minIndex /\ t.meta = m
      /\ t.cosigners = s.cosigners /\ t.landmarks = s.landmarks
    BY <1>5, <1>6 DEF StateType
<1>10. t \in StateType
    BY <1>5, <1>6, <1>7 DEF StateType
<1> HIDE DEF t
<1>11. \A i \in 2..n :
           /\ t.entries[i] = IF i <= s.minIndex THEN Blank ELSE s.entries[i]
           /\ t.entries[i] = s.entries[i]
    BY <1>1, <1>2, <1>4, <1>5, <1>9 DEF WellFormed
<1>12. t.entries[n + 1] = entry
    BY <1>2, <1>4, <1>5, <1>9
<1>13. t.entries[1] = IF 1 <= s.minIndex THEN Blank ELSE NullEntry
    BY <1>2, <1>4, <1>5, <1>9
<1>14. WellFormed(t)
    <2>1. Len(t.entries) = n + 1 /\ t.minIndex \in 0..(n + 1)
        BY <1>2, <1>5, <1>9
    <2>2. \A i \in 1..(n + 1) : i <= s.minIndex <=> t.entries[i] = Blank
        <3> TAKE i \in 1..(n + 1)
        <3>1. CASE i = 1 BY <1>2, <1>13, <3>1, DemoConstants
        <3>2. CASE i = n + 1 BY <1>2, <1>3, <1>12, <3>2
        <3>3. CASE i \in 2..n
            <4>1. i <= s.minIndex <=> s.entries[i] = Blank
                BY <1>1, <1>2, <3>3 DEF WellFormed
            <4> QED BY <1>11, <3>3, <4>1
        <3> QED BY <1>2, <3>1, <3>2, <3>3
    <2>3. \A i \in 2..(n + 1) : i > s.minIndex => m[i] = t.entries[i]
        <3> SUFFICES ASSUME NEW i \in 2..(n + 1), i > s.minIndex
                     PROVE  m[i] = t.entries[i]
            OBVIOUS
        <3>1. CASE i = n + 1 BY <1>8, <1>12, <3>1
        <3>2. CASE i \in 2..n
            <4>1. Len(s.meta) = n
                BY <1>1, <3>2, <1>2 DEF WellFormed
            <4>2. s.meta[i] = s.entries[i]
                BY <1>1, <3>2 DEF WellFormed
            <4>3. m[i] = s.meta[i]
                BY <1>2, <1>8, <3>2, <4>1
            <4> QED BY <1>11, <3>2, <4>2, <4>3
        <3> QED BY <1>2, <3>1, <3>2
    <2>4. \A i, j \in 1..Len(t.cosigners) :
              t.cosigners[i].name = t.cosigners[j].name => i = j
        BY <1>1, <1>9 DEF WellFormed
    <2>5. LandmarksFit(t)
        BY <1>1, <1>2, <1>5, <1>9, LandmarksStillFit
    <2> QED BY <1>2, <1>7, <1>9, <2>1, <2>2, <2>3, <2>4, <2>5 DEF WellFormed, LandmarksFit
<1>15. Len(m) >= Len(s.meta) /\ \A i \in 1..Len(s.meta) : m[i] = s.meta[i]
    BY <1>1, <1>2, <1>7, <1>8 DEF WellFormed
<1>16. OnlyErases(s, t)
    BY <1>1, <1>2, <1>5, <1>9, <1>11, <1>15, UntouchedParts DEF OnlyErases
<1> QED BY <1>5, <1>9, <1>10, <1>14, <1>16 DEF Loads, t

(* "ca prune" *)
LEMMA PrunedLoads ==
    ASSUME NEW s, Loads(s), NEW k \in Int, CanPruneState(s, k)
    PROVE  Loads(Pruned(s, k)) /\ OnlyErases(s, Pruned(s, k))
<1> DEFINE t   == Pruned(s, k)
           old == RebuildLog(s)
           log == PruneTo(old, k)
           n   == Len(s.entries)
<1>1. s \in StateType /\ WellFormed(s)
    BY DEF Loads
<1>2. n \in Nat /\ n >= 1 /\ s.minIndex \in 0..n
    BY <1>1, LenProperties DEF WellFormed, StateType
<1>3. /\ old.entries \in Seq(Stored) /\ Len(old.entries) = n
      /\ old.entries[1] = NullEntry
      /\ \A i \in 2..n : old.entries[i] = s.entries[i]
      /\ old.minIndex = s.minIndex
    BY <1>1, <1>2, Rebuilt
<1>4. k >= s.minIndex /\ k <= n /\ k \in Nat
    BY <1>2, <1>3 DEF CanPruneState, CanPrune, LogSize
<1>5. log.entries = old.entries /\ log.minIndex = k
    BY DEF PruneTo, RebuildLog, Log
<1>6. /\ t \in StateType
      /\ Len(t.entries) = n
      /\ \A i \in 1..n : t.entries[i] = IF i <= k THEN Blank ELSE old.entries[i]
      /\ t.minIndex = k
      /\ t.meta = s.meta
      /\ t.cosigners = s.cosigners
      /\ t.landmarks = s.landmarks
    BY <1>1, <1>3, <1>4, <1>5, Synced DEF Pruned
<1> HIDE DEF t, old, log
<1>7. \A i \in 2..n : t.entries[i] = IF i <= k THEN Blank ELSE s.entries[i]
    BY <1>2, <1>3, <1>6
<1>8. WellFormed(t)
    <2>1. \A i \in 1..n : i <= k <=> t.entries[i] = Blank
        <3> TAKE i \in 1..n
        <3>1. CASE i = 1 BY <1>3, <1>4, <1>6, <3>1, DemoConstants
        <3>2. CASE i \in 2..n
            <4>1. i <= s.minIndex <=> s.entries[i] = Blank
                BY <1>1, <1>2, <3>2 DEF WellFormed
            <4> QED BY <1>2, <1>4, <1>7, <3>2, <4>1
        <3> QED BY <1>2, <3>1, <3>2
    <2>2. \A i \in 2..n : i > k => t.meta[i] = t.entries[i]
        <3> SUFFICES ASSUME NEW i \in 2..n, i > k PROVE t.meta[i] = t.entries[i]
            OBVIOUS
        <3>1. i > s.minIndex
            BY <1>2, <1>4
        <3>2. s.meta[i] = s.entries[i]
            BY <1>1, <3>1 DEF WellFormed
        <3> QED BY <1>2, <1>4, <1>6, <1>7, <3>2
    <2>3. /\ Len(t.meta) = n \/ (t.meta = <<>> /\ n = 1)
          /\ \A i, j \in 1..Len(t.cosigners) :
                 t.cosigners[i].name = t.cosigners[j].name => i = j
        BY <1>1, <1>6 DEF WellFormed
    <2>4. LandmarksFit(t)
        BY <1>1, <1>2, <1>6, LandmarksStillFit
    <2> QED BY <1>2, <1>4, <1>6, <2>1, <2>2, <2>3, <2>4 DEF WellFormed, LandmarksFit
<1>9. OnlyErases(s, t)
    BY <1>1, <1>2, <1>4, <1>6, <1>7, UntouchedParts DEF OnlyErases
<1> QED BY <1>6, <1>8, <1>9 DEF Loads, t

(* The log of a command that does not touch it. *)
LEMMA UntouchedLog ==
    ASSUME NEW s, Loads(s), NEW t, t.entries = s.entries, t.minIndex = s.minIndex
    PROVE  /\ Len(t.entries) >= Len(s.entries)
           /\ t.minIndex >= s.minIndex
           /\ \A i \in 2..Len(s.entries) :
                  t.entries[i] = IF i <= t.minIndex THEN Blank ELSE s.entries[i]
<1>1. s \in StateType /\ WellFormed(s)
    BY DEF Loads
<1>2. Len(s.entries) \in Nat /\ s.minIndex \in Nat
    BY <1>1, LenProperties DEF StateType
<1>3. \A i \in 1..Len(s.entries) : i <= s.minIndex <=> s.entries[i] = Blank
    BY <1>1 DEF WellFormed
<1> QED BY <1>2, <1>3

(* "cosigner keygen" *)
LEMMA CosignerLoads ==
    ASSUME NEW s, Loads(s), NEW name \in Names, NEW key \in Nat, CanKeygen(s, name)
    PROVE  Loads(WithCosigner(s, name, key)) /\ OnlyErases(s, WithCosigner(s, name, key))
<1> DEFINE t == WithCosigner(s, name, key)
           c == [name |-> name, key |-> key]
           C == [name : Names, key : Nat]
           l == Len(s.cosigners)
<1>1. s \in StateType /\ WellFormed(s)
    BY DEF Loads
<1>2. c \in C /\ s.cosigners \in Seq(C) /\ l \in Nat
    BY <1>1, LenProperties DEF StateType
<1>3. /\ Append(s.cosigners, c) \in Seq(C)
      /\ Len(Append(s.cosigners, c)) = l + 1
      /\ \A i \in 1..l : Append(s.cosigners, c)[i] = s.cosigners[i]
      /\ Append(s.cosigners, c)[l + 1] = c
    BY <1>2, AppendProperties
<1>4. /\ t.entries = s.entries /\ t.minIndex = s.minIndex /\ t.meta = s.meta
      /\ t.cosigners = Append(s.cosigners, c) /\ t.landmarks = s.landmarks
    BY <1>1 DEF WithCosigner, StateType
<1>5. t \in StateType
    BY <1>1, <1>3 DEF WithCosigner, StateType
<1>6. \A i, j \in 1..Len(t.cosigners) : t.cosigners[i].name = t.cosigners[j].name => i = j
    <2>1. \A i, j \in 1..l : s.cosigners[i].name = s.cosigners[j].name => i = j
        BY <1>1 DEF WellFormed
    <2>2. \A i \in 1..l : s.cosigners[i].name # name
        BY DEF CanKeygen
    <2>3. c.name = name
        OBVIOUS
    <2> HIDE DEF c, t, C
    <2>4. SUFFICES ASSUME NEW i \in 1..(l + 1), NEW j \in 1..(l + 1),
                          t.cosigners[i].name = t.cosigners[j].name
                   PROVE  i = j
        BY <1>3, <1>4
    <2>5. CASE i \in 1..l /\ j \in 1..l
        BY <1>3, <1>4, <2>1, <2>4, <2>5
    <2>6. CASE i \in 1..l /\ j = l + 1
        BY <1>3, <1>4, <2>2, <2>3, <2>4, <2>6
    <2>7. CASE i = l + 1 /\ j \in 1..l
        BY <1>3, <1>4, <2>2, <2>3, <2>4, <2>7
    <2> QED BY <1>2, <2>5, <2>6, <2>7
<1> HIDE DEF t
<1>7. LandmarksFit(t)
    <2>1. Len(s.entries) \in Nat
        BY <1>1, LenProperties DEF StateType
    <2>2. Len(t.entries) \in Nat /\ Len(t.entries) >= Len(s.entries)
        BY <1>4, <2>1
    <2> QED BY <1>1, <1>4, <2>2, LandmarksStillFit
<1>8. WellFormed(t)
    BY <1>1, <1>4, <1>6, <1>7 DEF WellFormed, LandmarksFit
<1>9. OnlyErases(s, t)
    <2>1. IsPrefix(s.cosigners, t.cosigners)
        BY <1>2, <1>4, PrefixOfAppend
    <2> QED BY <1>1, <1>4, <2>1, UntouchedParts, UntouchedLog DEF OnlyErases
<1> QED BY <1>5, <1>8, <1>9 DEF Loads, t

(* "landmark init" *)
LEMMA LandmarksInitLoads ==
    ASSUME NEW s, Loads(s), NEW maxActive \in MaxActives, CanInitLandmarks(s)
    PROVE  Loads(WithLandmarks(s, maxActive)) /\ OnlyErases(s, WithLandmarks(s, maxActive))
<1> DEFINE t == WithLandmarks(s, maxActive)
           l == [maxActive |-> maxActive, landmarks |-> <<0>>, expiries |-> <<0>>]
<1>1. s \in StateType /\ WellFormed(s)
    BY DEF Loads
<1>2. l \in LandmarkType
    BY DEF LandmarkType
<1>3. /\ t.entries = s.entries /\ t.minIndex = s.minIndex /\ t.meta = s.meta
      /\ t.cosigners = s.cosigners /\ t.landmarks = l
    BY <1>1 DEF WithLandmarks, NewLandmarkSequence, StateType
<1>4. t \in StateType
    BY <1>1, <1>2 DEF WithLandmarks, NewLandmarkSequence, StateType
<1>5. s.landmarks = NoLandmarks
    BY DEF CanInitLandmarks
<1> HIDE DEF t
<1>6. WellFormed(t)
    <2>1. Len(s.entries) \in Nat
        BY <1>1, LenProperties DEF StateType
    <2>2. /\ t.landmarks.landmarks \in Seq(Nat) /\ Len(t.landmarks.landmarks) = 1
          /\ t.landmarks.expiries \in Seq(Nat) /\ Len(t.landmarks.expiries) = 1
          /\ t.landmarks.landmarks[1] = 0 /\ t.landmarks.expiries[1] = 0
        BY <1>3
    <2>3. t.landmarks # NoLandmarks
        BY <1>2, <1>3, DemoConstants
    <2>4. LandmarksRebuild(t)
        BY <2>2, <2>3, LandmarksRebuilt
    <2>5. LandmarksFit(t)
        BY <1>3, <2>1, <2>2, <2>4 DEF LandmarksFit
    <2> QED BY <1>1, <1>3, <2>5 DEF WellFormed, LandmarksFit
<1>7. OnlyErases(s, t)
    BY <1>1, <1>3, <1>5, UntouchedParts, UntouchedLog DEF OnlyErases
<1> QED BY <1>4, <1>6, <1>7 DEF Loads, t

(* "landmark allocate": it may fail because rebuilding does, never because  *)
(* of the log.                                                              *)
LEMMA LandmarkLoads ==
    ASSUME NEW s, Loads(s), NEW time \in Nat, CanAllocateLandmark(s, time)
    PROVE  Loads(WithLandmark(s, time)) /\ OnlyErases(s, WithLandmark(s, time))
<1> DEFINE t    == WithLandmark(s, time)
           size == Len(s.entries)
           exp  == time + LandmarkLifetime
           old  == s.landmarks
           last == Len(old.landmarks)
           L    == Append(old.landmarks, size)
           E    == Append(old.expiries, exp)
<1>1. s \in StateType /\ WellFormed(s)
    BY DEF Loads
<1>2. LandmarksRebuild(s) /\ old # NoLandmarks
    BY DEF CanAllocateLandmark, LandmarksRebuild
<1>3. /\ old \in LandmarkType
      /\ old.landmarks \in Seq(Nat) /\ last \in Nat
      /\ old.expiries \in Seq(Nat) /\ Len(old.expiries) = last
      /\ last >= 1 /\ old.landmarks[1] = 0 /\ old.expiries[1] = 0
    BY <1>1, <1>2, LenProperties DEF StateType, LandmarkType, WellFormed
<1>4. size \in Nat /\ size >= 1 /\ exp \in Nat
    BY <1>1, LenProperties, DemoConstants DEF StateType, WellFormed
<1>5. LogSize(RebuildLog(s)) = size
    BY <1>1, <1>4, Rebuilt DEF LogSize
<1>6. /\ size > old.landmarks[last] /\ exp >= old.expiries[last]
      /\ \A i \in 2..last : /\ old.landmarks[i] > old.landmarks[i - 1]
                            /\ old.expiries[i] >= old.expiries[i - 1]
    <2>1. last \in Nat \ {0}
        BY <1>3
    <2>2. /\ LastLandmark(RebuildLandmarks(s)) = last - 1
          /\ TreeSize(RebuildLandmarks(s), last - 1) = old.landmarks[last]
          /\ Expiry(RebuildLandmarks(s), last - 1) = old.expiries[last]
          /\ \A i \in 2..last : /\ old.landmarks[i] > old.landmarks[i - 1]
                                /\ old.expiries[i] >= old.expiries[i - 1]
        BY <1>2, <1>3, <2>1, LandmarksRebuilt
    <2> QED BY <1>5, <2>2 DEF CanAllocateLandmark, CanAllocate
<1>7. /\ L \in Seq(Nat) /\ Len(L) = last + 1
      /\ E \in Seq(Nat) /\ Len(E) = last + 1
      /\ \A i \in 1..last : L[i] = old.landmarks[i] /\ E[i] = old.expiries[i]
      /\ L[last + 1] = size /\ E[last + 1] = exp
      /\ L[1] = 0 /\ E[1] = 0
    <2> HIDE DEF old, last, size, exp
    <2>1. /\ L \in Seq(Nat) /\ Len(L) = last + 1 /\ L[last + 1] = size
          /\ \A i \in 1..last : L[i] = old.landmarks[i]
        BY <1>3, <1>4, AppendProperties DEF last
    <2>2. /\ E \in Seq(Nat) /\ Len(E) = last + 1 /\ E[last + 1] = exp
          /\ \A i \in 1..last : E[i] = old.expiries[i]
        BY <1>3, <1>4, AppendProperties
    <2>3. 1 \in 1..last
        BY <1>3
    <2> QED BY <1>3, <2>1, <2>2, <2>3
<1> DEFINE l == [maxActive |-> old.maxActive, landmarks |-> L, expiries |-> E]
<1>8. l \in LandmarkType
    BY <1>3, <1>7 DEF LandmarkType
<1>9. t = [s EXCEPT !.landmarks = l]
    BY <1>5 DEF WithLandmark, AllocateLandmark
<1>10. /\ t.entries = s.entries /\ t.minIndex = s.minIndex /\ t.meta = s.meta
       /\ t.cosigners = s.cosigners /\ t.landmarks = l
    BY <1>1, <1>9 DEF StateType
<1>11. t \in StateType
    BY <1>1, <1>8, <1>9 DEF StateType
<1> HIDE DEF t
<1>12. LandmarksFit(t)
    <2>1. /\ \A i \in 2..last : /\ old.landmarks[i] > old.landmarks[i - 1]
                               /\ old.expiries[i] >= old.expiries[i - 1]
        BY <1>6
    <2> HIDE DEF L, E, last
    <2>2. \A i \in 2..(last + 1) : L[i] > L[i - 1] /\ E[i] >= E[i - 1]
        <3> TAKE i \in 2..(last + 1)
        <3>1. CASE i \in 2..last
            <4>1. i \in 1..last /\ i - 1 \in 1..last
                BY <1>3, <3>1
            <4>2. /\ L[i] = old.landmarks[i] /\ E[i] = old.expiries[i]
                  /\ L[i - 1] = old.landmarks[i - 1] /\ E[i - 1] = old.expiries[i - 1]
                BY <1>7, <4>1
            <4> QED BY <2>1, <3>1, <4>2
        <3>2. CASE i = last + 1
            <4>1. last \in 1..last /\ i - 1 = last
                BY <1>3, <3>2
            <4> QED BY <1>6, <1>7, <3>2, <4>1
        <3> QED BY <1>3, <3>1, <3>2
    <2>3. LandmarksRebuild(t)
        <3>1. t.landmarks # NoLandmarks
            BY <1>8, <1>10, DemoConstants
        <3>2. t.landmarks.landmarks = L /\ t.landmarks.expiries = E
            BY <1>10
        <3>3. L[1] = 0 /\ E[1] = 0 /\ last + 1 \in Nat \ {0}
            BY <1>3, <1>7 DEF last
        <3> QED BY <1>7, <2>2, <3>1, <3>2, <3>3, LandmarksRebuilt
    <2>4. L[1] = 0 /\ E[1] = 0 /\ L[last + 1] <= size
        BY <1>3, <1>4, <1>7
    <2> QED BY <1>3, <1>7, <1>10, <2>3, <2>4 DEF LandmarksFit
<1>13. WellFormed(t)
    BY <1>1, <1>10, <1>12 DEF WellFormed, LandmarksFit
<1>14. OnlyErases(s, t)
    <2>1. IsPrefix(old.landmarks, L) /\ IsPrefix(old.expiries, E)
        BY <1>3, <1>4, PrefixOfAppend
    <2> HIDE DEF L, E
    <2>2. t.landmarks.landmarks = L /\ t.landmarks.expiries = E
        BY <1>10
    <2> QED BY <1>1, <1>10, <2>1, <2>2, UntouchedParts, UntouchedLog DEF OnlyErases
<1> QED BY <1>11, <1>13, <1>14 DEF Loads, t

=============================================================================
