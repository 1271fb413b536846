--------------------------- MODULE WireFormatProofs --------------------------
(***************************************************************************)
(* What is written is read back, and what can be read was written: for     *)
(* bytes and words of every width and any ids, proofs and messages.        *)
(*                                                                         *)
(* The loops of the readers are recursive functions of the number of turns *)
(* taken.  That such a function exists, and what holds before each of its  *)
(* turns, is shown from the smallest turn at which it would fail           *)
(* (Recursion, Stepwise).  For each kind of part - numbers, ids, prefixed  *)
(* data, extensions, signatures, messages - one lemma says what a reader   *)
(* makes of what was written, and one that what it read is what it would   *)
(* write again.                                                            *)
(***************************************************************************)
EXTENDS WireFormat, LibraryProofs

-----------------------------------------------------------------------------
(* Loops *)

(* What holds at first and survives every step holds after all of them. *)
LEMMA Stepwise ==
    ASSUME NEW n \in Nat, NEW T, 0 \in T, \A i \in 1..n : i - 1 \in T => i \in T
    PROVE  \A i \in 0..n : i \in T
<1> DEFINE Others == {i \in 0..n : i \notin T}
<1> SUFFICES ASSUME Others # {} PROVE FALSE
    OBVIOUS
<1>1. PICK i \in Others : \A j \in Others : i <= j
    <2>1. Others \in SUBSET Nat
        OBVIOUS
    <2> HIDE DEF Others
    <2> QED BY <2>1, SmallestElement
<1>2. i \in 1..n /\ i - 1 \in 0..n /\ i - 1 \notin Others
    BY <1>1
<1> QED BY <1>1, <1>2

LEMMA Throughout ==
    ASSUME NEW S, NEW n \in Nat, NEW q, q[0] \in S,
           \A i \in 1..n : q[i - 1] \in S => q[i] \in S
    PROVE  \A i \in 0..n : q[i] \in S
<1> DEFINE T == {i \in 0..n : q[i] \in S}
<1>1. 0 \in T
    OBVIOUS
<1>2. ASSUME NEW i \in 1..n, i - 1 \in T PROVE i \in T
    BY <1>2
<1>3. \A i \in 0..n : i \in T
    <2> HIDE DEF T
    <2> QED BY <1>1, <1>2, Stepwise
<1> QED BY <1>3

(* A loop of n turns has a sequence of states. *)
HasRun(S, a, n, g) ==
    \E f \in [0..n -> S] : f[0] = a /\ \A i \in 1..n : f[i] = g[i][f[i - 1]]

LEMMA Recursion ==
    ASSUME NEW S, NEW a \in S, NEW n \in Nat, NEW g, g \in [1..n -> [S -> S]]
    PROVE  HasRun(S, a, n, g)
<1> DEFINE Runs(f, m) == f[0] = a /\ \A i \in 1..m : f[i] = g[i][f[i - 1]]
           T == {m \in 0..n : \E f \in [0..m -> S] : Runs(f, m)}
<1>1. 0 \in T
    <2>1. PICK f : f = [i \in 0..0 |-> a]
        OBVIOUS
    <2>2. f \in [0..0 -> S] /\ Runs(f, 0)
        BY <2>1
    <2> QED BY <2>2
<1>2. ASSUME NEW m \in 1..n, m - 1 \in T PROVE m \in T
    <2>1. PICK f \in [0..(m - 1) -> S] : Runs(f, m - 1)
        BY <1>2
    <2> DEFINE h == [i \in 0..m |-> IF i = m THEN g[m][f[m - 1]] ELSE f[i]]
    <2>2. h \in [0..m -> S]
        OBVIOUS
    <2>3. h[0] = a /\ \A i \in 0..(m - 1) : h[i] = f[i]
        BY <2>1
    <2>4. \A i \in 1..m : h[i] = g[i][h[i - 1]]
        <3> TAKE i \in 1..m
        <3>1. CASE i = m
            <4>1. h[m - 1] = f[m - 1] /\ h[m] = g[m][f[m - 1]]
                BY <2>3
            <4> QED BY <3>1, <4>1
        <3>2. CASE i < m
            <4>1. i \in 1..(m - 1) /\ i - 1 \in 0..(m - 1) /\ i \in 0..(m - 1)
                BY <3>2
            <4> QED BY <2>1, <2>3, <4>1
        <3> QED BY <3>1, <3>2
    <2>5. Runs(h, m)
        BY <2>3, <2>4
    <2> HIDE DEF h, Runs
    <2> QED BY <2>2, <2>5
<1>3. n \in T
    <2>1. \A m \in 0..n : m \in T
        <3> HIDE DEF T
        <3> QED BY <1>1, <1>2, Stepwise
    <2> HIDE DEF T
    <2> QED BY <2>1
<1> QED BY <1>3 DEF HasRun

LEMMA ShiftsDef ==
    ASSUME NEW v \in Nat, NEW base \in Nat \ {0}, NEW n \in Nat
    PROVE  /\ Shifts(v, base, n) \in [0..n -> Nat]
           /\ Shifts(v, base, n)[0] = v
           /\ \A i \in 1..n : Shifts(v, base, n)[i] = Shifts(v, base, n)[i - 1] \div base
<1> DEFINE Step(x)   == x \div base
           g         == [i \in 1..n |-> [x \in Nat |-> Step(x)]]
           Turn(q,i) == IF i = 0 THEN v ELSE Step(q[i - 1])
           Is(q)     == q = [i \in 0..n |-> Turn(q, i)]
<1>1. Shifts(v, base, n) = CHOOSE q : Is(q)
    BY DEF Shifts
<1>2. \A x \in Nat : Step(x) \in Nat
    BY Division
<1> HIDE DEF Step
<1>3. PICK f \in [0..n -> Nat] : f[0] = v /\ \A i \in 1..n : f[i] = g[i][f[i - 1]]
    <2>1. g \in [1..n -> [Nat -> Nat]]
        BY <1>2
    <2> HIDE DEF g
    <2>2. HasRun(Nat, v, n, g)
        BY <2>1, Recursion
    <2> QED BY <2>2 DEF HasRun
<1>4. \A i \in 0..n : f[i] = Turn(f, i)
    <2> TAKE i \in 0..n
    <2>1. CASE i = 0
        BY <1>3, <2>1
    <2>2. CASE i # 0
        <3>1. i \in 1..n /\ f[i - 1] \in Nat
            BY <2>2
        <3> QED BY <1>3, <3>1
    <2> QED BY <2>1, <2>2
<1>5. Is(f)
    <2> HIDE DEF Turn
    <2> QED BY <1>4
<1>6. PICK q : q = Shifts(v, base, n)
    OBVIOUS
<1>7. Is(q)
    <2> HIDE DEF Is
    <2> QED BY <1>1, <1>5, <1>6
<1>8. DOMAIN q = 0..n /\ q = [i \in 0..n |-> q[i]] /\ \A i \in 0..n : q[i] = Turn(q, i)
    <2> HIDE DEF Turn
    <2> QED BY <1>7
<1>9. q[0] = v /\ \A i \in 1..n : q[i] = Step(q[i - 1])
    <2>1. 0 \in 0..n
        OBVIOUS
    <2>2. \A i \in 1..n : i \in 0..n /\ i # 0
        OBVIOUS
    <2> QED BY <1>8, <2>1, <2>2
<1>10. \A i \in 0..n : q[i] \in Nat
    <2>1. \A i \in 1..n : q[i - 1] \in Nat => q[i] \in Nat
        BY <1>2, <1>9
    <2> QED BY <1>9, <2>1, Throughout
<1>11. q \in [0..n -> Nat]
    BY <1>8, <1>10
<1> QED BY <1>6, <1>9, <1>11 DEF Step

LEMMA ReadsDef ==
    ASSUME NEW digits \in Seq(Nat), NEW base \in Nat \ {0}, NEW n, n = Len(digits)
    PROVE  /\ Reads(digits, base) \in [0..n -> Nat]
           /\ Reads(digits, base)[0] = 0
           /\ \A i \in 1..n : Reads(digits, base)[i]
                                  = Reads(digits, base)[i - 1] * base + (digits[i] % base)
<1> DEFINE Step(x, i) == x * base + (digits[i] % base)
           g          == [i \in 1..n |-> [x \in Nat |-> Step(x, i)]]
           Turn(q, i) == IF i = 0 THEN 0 ELSE Step(q[i - 1], i)
           Is(q)      == q = [i \in 0..n |-> Turn(q, i)]
<1>1. n \in Nat /\ \A i \in 1..n : digits[i] \in Nat
    BY LenProperties, ElementOfSeq
<1>2. Reads(digits, base) = CHOOSE q : Is(q)
    BY DEF Reads
<1>3. \A x \in Nat, i \in 1..n : Step(x, i) \in Nat
    <2> TAKE x \in Nat, i \in 1..n
    <2>1. PICK d : d = digits[i]
        OBVIOUS
    <2>2. d % base \in Nat
        <3>1. d \in Nat
            BY <1>1, <2>1
        <3> QED BY <3>1, Division
    <2>3. x * base \in Nat
        OBVIOUS
    <2> QED BY <2>1, <2>2, <2>3
<1> HIDE DEF Step
<1>4. PICK f \in [0..n -> Nat] : f[0] = 0 /\ \A i \in 1..n : f[i] = g[i][f[i - 1]]
    <2>1. g \in [1..n -> [Nat -> Nat]]
        BY <1>3
    <2> HIDE DEF g
    <2>2. HasRun(Nat, 0, n, g)
        BY <1>1, <2>1, Recursion
    <2> QED BY <2>2 DEF HasRun
<1>5. \A i \in 0..n : f[i] = Turn(f, i)
    <2> TAKE i \in 0..n
    <2>1. CASE i = 0
        BY <1>4, <2>1
    <2>2. CASE i # 0
        <3>1. i \in 1..n /\ i - 1 \in 0..n
            BY <1>1, <2>2
        <3>2. f[i - 1] \in Nat
            BY <3>1
        <3> QED BY <1>4, <3>1, <3>2
    <2> QED BY <2>1, <2>2
<1>6. Is(f)
    <2> HIDE DEF Turn
    <2> QED BY <1>5
<1>7. PICK q : q = Reads(digits, base)
    OBVIOUS
<1>8. Is(q)
    <2> HIDE DEF Is
    <2> QED BY <1>2, <1>6, <1>7
<1>9. DOMAIN q = 0..n /\ q = [i \in 0..n |-> q[i]] /\ \A i \in 0..n : q[i] = Turn(q, i)
    <2> HIDE DEF Turn
    <2> QED BY <1>8
<1>10. q[0] = 0 /\ \A i \in 1..n : q[i] = Step(q[i - 1], i)
    <2>1. 0 \in 0..n
        BY <1>1
    <2>2. \A i \in 1..n : i \in 0..n /\ i # 0
        BY <1>1
    <2> QED BY <1>9, <2>1, <2>2
<1>11. \A i \in 0..n : q[i] \in Nat
    <2>1. \A i \in 1..n : q[i - 1] \in Nat => q[i] \in Nat
        BY <1>3, <1>10
    <2>2. q[0] \in Nat
        BY <1>10
    <2> QED BY <1>1, <2>1, <2>2, Throughout
<1>12. q \in [0..n -> Nat]
    BY <1>9, <1>11
<1> QED BY <1>7, <1>10, <1>12 DEF Step

LEMMA LimitDef ==
    /\ Limit(0) = 1
    /\ \A w \in Nat : Limit(w) \in Nat \ {0} /\ Limit(w + 1) = Pow2[ByteBits] * Limit(w)
<1> DEFINE B          == Pow2[ByteBits]
           Turn(q, i) == IF i = 0 THEN 1 ELSE B * q[i - 1]
           Is(q, w)   == q = [i \in 0..w |-> Turn(q, i)]
           Powers(w)  == CHOOSE q : Is(q, w)
<1>1. B \in Nat \ {0}
    BY ByteWidth, WordWidth, Pow2Type
<1>2. \A w : Limit(w) = Powers(w)[w]
    BY DEF Limit
<1> HIDE DEF B
<1>3. \A x \in Nat \ {0} : B * x \in Nat \ {0}
    BY <1>1
<1>4. ASSUME NEW w \in Nat
      PROVE  /\ Powers(w)[0] = 1
             /\ \A i \in 1..w : Powers(w)[i] = B * Powers(w)[i - 1]
             /\ \A i \in 0..w : Powers(w)[i] \in Nat \ {0}
    <2> DEFINE h == [i \in 1..w |-> [x \in Nat \ {0} |-> B * x]]
    <2>1. PICK f \in [0..w -> Nat \ {0}] : f[0] = 1 /\ \A i \in 1..w : f[i] = h[i][f[i - 1]]
        <3>1. h \in [1..w -> [Nat \ {0} -> Nat \ {0}]]
            BY <1>3
        <3> HIDE DEF h
        <3>2. 1 \in Nat \ {0}
            OBVIOUS
        <3>3. HasRun(Nat \ {0}, 1, w, h)
            BY <3>1, <3>2, Recursion
        <3> QED BY <3>3 DEF HasRun
    <2>2. \A i \in 0..w : f[i] = Turn(f, i)
        <3> TAKE i \in 0..w
        <3>1. CASE i = 0
            BY <2>1, <3>1
        <3>2. CASE i # 0
            <4>1. i \in 1..w /\ i - 1 \in 0..w
                BY <3>2
            <4>2. f[i - 1] \in Nat \ {0}
                BY <4>1
            <4> QED BY <2>1, <4>1, <4>2
        <3> QED BY <3>1, <3>2
    <2>3. Is(f, w)
        <3> HIDE DEF Turn
        <3> QED BY <2>2
    <2>4. PICK q : q = Powers(w)
        OBVIOUS
    <2>5. Is(q, w)
        <3> HIDE DEF Is
        <3> QED BY <2>3, <2>4
    <2>6. \A i \in 0..w : q[i] = Turn(q, i)
        <3> HIDE DEF Turn
        <3> QED BY <2>5
    <2>7. q[0] = 1 /\ \A i \in 1..w : q[i] = B * q[i - 1]
        <3>1. 0 \in 0..w
            OBVIOUS
        <3>2. \A i \in 1..w : i \in 0..w /\ i # 0
            OBVIOUS
        <3> QED BY <2>6, <3>1, <3>2
    <2>8. \A i \in 0..w : q[i] \in Nat \ {0}
        <3>1. \A i \in 1..w : q[i - 1] \in Nat \ {0} => q[i] \in Nat \ {0}
            BY <1>3, <2>7
        <3>2. q[0] \in Nat \ {0}
            BY <2>7
        <3> QED BY <3>1, <3>2, Throughout
    <2> QED BY <2>4, <2>7, <2>8
<1> HIDE DEF Powers
<1>5. Limit(0) = 1
    BY <1>2, <1>4
<1>6. ASSUME NEW w \in Nat
      PROVE  Limit(w) \in Nat \ {0} /\ Limit(w + 1) = B * Limit(w)
    <2>1. PICK q : q = Powers(w + 1)
        OBVIOUS
    <2>2. PICK p : p = Powers(w)
        OBVIOUS
    <2>3. /\ p[0] = 1 /\ \A i \in 1..w : p[i] = B * p[i - 1]
          /\ \A i \in 0..w : p[i] \in Nat \ {0}
        BY <1>4, <2>2
    <2>4. q[0] = 1 /\ \A i \in 1..(w + 1) : q[i] = B * q[i - 1]
        <3>1. w + 1 \in Nat
            OBVIOUS
        <3> QED BY <1>4, <2>1, <3>1
    <2>5. \A i \in 0..w : q[i] = p[i]
        <3> DEFINE T == {i \in 0..w : q[i] = p[i]}
        <3>1. 0 \in T
            BY <2>3, <2>4
        <3>2. ASSUME NEW i \in 1..w, i - 1 \in T PROVE i \in T
            BY <2>3, <2>4, <3>2
        <3>3. \A i \in 0..w : i \in T
            <4> HIDE DEF T
            <4> QED BY <3>1, <3>2, Stepwise
        <3> QED BY <3>3
    <2>6. q[w + 1] = B * q[w] /\ q[w] = p[w]
        <3>1. w + 1 \in 1..(w + 1) /\ w \in 0..w /\ (w + 1) - 1 = w
            OBVIOUS
        <3> QED BY <2>4, <2>5, <3>1
    <2>7. Limit(w) = p[w] /\ Limit(w + 1) = q[w + 1] /\ p[w] \in Nat \ {0}
        BY <1>2, <2>1, <2>2, <2>3
    <2> QED BY <2>6, <2>7
<1> QED BY <1>5, <1>6 DEF B

-----------------------------------------------------------------------------
(* Sequences put together from parts *)

Regroups(x, y, z) == (x \o y) \o z = x \o (y \o z)

LEMMA Regroup ==
    ASSUME NEW D, NEW x \in Seq(D), NEW y \in Seq(D), NEW z \in Seq(D)
    PROVE  Regroups(x, y, z)
BY ConcatAssociative DEF Regroups

(* FlattenSeq appends one part after the other. *)
Gathers(D, parts, q) ==
    /\ q \in [0..Len(parts) -> Seq(D)]
    /\ q[0] = <<>>
    /\ \A i \in 1..Len(parts) : q[i] = q[i - 1] \o parts[i]
    /\ q[Len(parts)] = FlattenSeq(parts)

LEMMA FlattenRuns ==
    ASSUME NEW D, NEW parts \in Seq(Seq(D))
    PROVE  \E q : Gathers(D, parts, q)
<1> DEFINE n          == Len(parts)
           g          == [i \in 1..n |-> [x \in Seq(D) |-> x \o parts[i]]]
           Turn(h, i) == IF i = 1 THEN parts[i] ELSE h[i - 1] \o parts[i]
           Is(h)      == h = [i \in 1..n |-> Turn(h, i)]
<1>1. n \in Nat /\ \A i \in 1..n : parts[i] \in Seq(D)
    BY LenProperties, ElementOfSeq
<1>2. PICK q \in [0..n -> Seq(D)] : q[0] = <<>> /\ \A i \in 1..n : q[i] = g[i][q[i - 1]]
    <2>1. \A i \in 1..n : \A x \in Seq(D) : x \o parts[i] \in Seq(D)
        BY <1>1, ConcatProperties
    <2>2. g \in [1..n -> [Seq(D) -> Seq(D)]]
        BY <2>1
    <2> HIDE DEF g
    <2>3. <<>> \in Seq(D)
        BY EmptySeq
    <2>4. HasRun(Seq(D), <<>>, n, g)
        BY <1>1, <2>2, <2>3, Recursion
    <2> QED BY <2>4 DEF HasRun
<1>3. \A i \in 1..n : q[i] = q[i - 1] \o parts[i]
    <2> TAKE i \in 1..n
    <2>1. i - 1 \in 0..n
        BY <1>1
    <2>2. q[i - 1] \in Seq(D)
        BY <2>1
    <2> QED BY <1>2, <2>2
<1>4. CASE n = 0
    <2>1. parts = <<>>
        BY <1>4, EmptySeq
    <2>2. q[n] = FlattenSeq(parts)
        BY <1>2, <1>4, <2>1 DEF FlattenSeq
    <2> QED BY <1>2, <1>3, <2>2 DEF Gathers
<1>5. CASE n # 0
    <2>1. PICK f : f = [i \in 1..n |-> q[i]]
        OBVIOUS
    <2>2. \A i \in 1..n : f[i] = Turn(f, i)
        <3> TAKE i \in 1..n
        <3>1. CASE i = 1
            <4>1. q[1] = q[0] \o parts[1] /\ parts[1] \in Seq(D)
                <5>1. 1 \in 1..n /\ 1 - 1 = 0
                    BY <3>1
                <5> QED BY <1>1, <1>3, <5>1
            <4>2. q[1] = parts[1]
                BY <1>2, <4>1, ConcatEmptySeq
            <4> QED BY <2>1, <3>1, <4>2
        <3>2. CASE i # 1
            <4>1. i - 1 \in 1..n
                BY <1>1, <3>2
            <4> QED BY <1>3, <2>1, <3>2, <4>1
        <3> QED BY <3>1, <3>2
    <2>3. Is(f)
        <3>1. f = [i \in 1..n |-> f[i]]
            BY <2>1
        <3> HIDE DEF Turn
        <3> QED BY <2>2, <3>1
    <2>4. PICK h : h = CHOOSE x : Is(x)
        OBVIOUS
    <2>5. Is(h)
        <3> HIDE DEF Is
        <3> QED BY <2>3, <2>4
    <2>6. \A i \in 1..n : h[i] = Turn(h, i)
        <3> HIDE DEF Turn
        <3> QED BY <2>5
    <2>7. FlattenSeq(parts) = h[n]
        BY <1>1, <1>5, <2>4 DEF FlattenSeq
    <2> DEFINE T == {i \in 0..n : i = 0 \/ h[i] = q[i]}
    <2>8. 0 \in T
        BY <1>1
    <2>9. ASSUME NEW i \in 1..n, i - 1 \in T PROVE i \in T
        <3>1. CASE i = 1
            BY <2>1, <2>2, <2>6, <3>1
        <3>2. CASE i # 1
            <4>1. h[i - 1] = q[i - 1]
                BY <2>9, <3>2
            <4>2. h[i] = h[i - 1] \o parts[i] /\ q[i] = q[i - 1] \o parts[i]
                BY <1>3, <2>6, <3>2
            <4>3. h[i] = q[i] /\ i \in 0..n
                BY <1>1, <4>1, <4>2
            <4> QED BY <4>3
        <3> QED BY <3>1, <3>2
    <2>10. \A i \in 0..n : i \in T
        <3> HIDE DEF T
        <3> QED BY <1>1, <2>8, <2>9, Stepwise
    <2>11. h[n] = q[n]
        BY <1>1, <1>5, <2>10
    <2> QED BY <1>2, <1>3, <2>7, <2>11 DEF Gathers
<1> QED BY <1>4, <1>5

LEMMA FlattenAppend ==
    ASSUME NEW D, NEW parts \in Seq(Seq(D)), NEW p \in Seq(D)
    PROVE  /\ FlattenSeq(<<>>) = <<>>
           /\ FlattenSeq(parts) \in Seq(D)
           /\ FlattenSeq(Append(parts, p)) = FlattenSeq(parts) \o p
<1>1. PICK n : n = Len(parts)
    OBVIOUS
<1>2. PICK more : more = Append(parts, p)
    OBVIOUS
<1>3. /\ n \in Nat /\ more \in Seq(Seq(D)) /\ Len(more) = n + 1 /\ more[n + 1] = p
      /\ \A i \in 1..n : more[i] = parts[i]
    BY <1>1, <1>2, LenProperties, AppendProperties
<1>4. PICK q : Gathers(D, parts, q)
    BY FlattenRuns
<1>5. PICK r : Gathers(D, more, r)
    BY <1>3, FlattenRuns
<1>6. /\ q[0] = <<>> /\ q[n] = FlattenSeq(parts) /\ q \in [0..n -> Seq(D)]
      /\ \A i \in 1..n : q[i] = q[i - 1] \o parts[i]
    BY <1>1, <1>4 DEF Gathers
<1>7. /\ r[0] = <<>> /\ r[n + 1] = FlattenSeq(more)
      /\ \A i \in 1..(n + 1) : r[i] = r[i - 1] \o more[i]
    BY <1>3, <1>5 DEF Gathers
<1> DEFINE T == {i \in 0..n : q[i] = r[i]}
<1>8. 0 \in T
    BY <1>3, <1>6, <1>7
<1>9. ASSUME NEW i \in 1..n, i - 1 \in T PROVE i \in T
    <2>1. q[i] = q[i - 1] \o parts[i]
        BY <1>6
    <2>2. r[i] = r[i - 1] \o parts[i]
        <3>1. i \in 1..(n + 1)
            BY <1>3
        <3> QED BY <1>3, <1>7, <3>1
    <2>3. q[i - 1] = r[i - 1] /\ i \in 0..n
        BY <1>3, <1>9
    <2> QED BY <2>1, <2>2, <2>3
<1>10. \A i \in 0..n : i \in T
    <2> HIDE DEF T
    <2> QED BY <1>3, <1>8, <1>9, Stepwise
<1>11. r[n + 1] = r[n] \o p
    <2>1. n + 1 \in 1..(n + 1) /\ (n + 1) - 1 = n
        BY <1>3
    <2> QED BY <1>3, <1>7, <2>1
<1>12. n \in 0..n
    BY <1>3
<1>13. q[n] = r[n] /\ q[n] \in Seq(D)
    BY <1>6, <1>10, <1>12
<1>14. FlattenSeq(<<>>) = <<>>
    BY EmptySeq DEF FlattenSeq
<1> QED BY <1>2, <1>6, <1>7, <1>11, <1>13, <1>14

MapsAndFlattens(D, f, xs, x) ==
    /\ [i \in DOMAIN xs |-> f[xs[i]]] \in Seq(Seq(D))
    /\ FlattenSeq([i \in DOMAIN xs |-> f[xs[i]]]) \in Seq(D)
    /\ FlattenSeq([i \in DOMAIN Append(xs, x) |-> f[Append(xs, x)[i]]])
           = FlattenSeq([i \in DOMAIN xs |-> f[xs[i]]]) \o f[x]

(* Each element is written after the ones before it. *)
LEMMA FlattenMapped ==
    ASSUME NEW D, NEW S, NEW f \in [S -> Seq(D)], NEW xs \in Seq(S), NEW x \in S
    PROVE  MapsAndFlattens(D, f, xs, x)
<1>1. PICK n \in Nat : n = Len(xs) /\ DOMAIN xs = 1..n /\ \A i \in 1..n : xs[i] \in S
    BY LenProperties, ElementOfSeq
<1>2. PICK more : more = Append(xs, x)
    OBVIOUS
<1>3. /\ more \in Seq(S) /\ Len(more) = n + 1 /\ more[n + 1] = x
      /\ \A i \in 1..n : more[i] = xs[i]
    BY <1>1, <1>2, AppendProperties
<1>4. DOMAIN more = 1..(n + 1) /\ \A i \in 1..(n + 1) : more[i] \in S
    <2>1. DOMAIN more = 1..(n + 1)
        BY <1>3, LenProperties
    <2>2. \A i \in 1..(n + 1) : more[i] \in S
        BY <1>3, ElementOfSeq
    <2> QED BY <2>1, <2>2
<1>5. PICK parts : parts = [i \in 1..n |-> f[xs[i]]]
    OBVIOUS
<1>6. PICK all : all = [i \in 1..(n + 1) |-> f[more[i]]]
    OBVIOUS
<1>7. parts \in [1..n -> Seq(D)] /\ all \in [1..(n + 1) -> Seq(D)]
    BY <1>1, <1>4, <1>5, <1>6
<1>8. n + 1 \in Nat
    OBVIOUS
<1>9. parts \in Seq(Seq(D)) /\ Len(parts) = n
    BY <1>7, SeqDef, LenProperties
<1>10. all \in Seq(Seq(D)) /\ Len(all) = n + 1
    BY <1>7, <1>8, SeqDef, LenProperties
<1>11. PICK p : p = f[x] /\ p \in Seq(D)
    OBVIOUS
<1>12. PICK longer : longer = Append(parts, p)
    OBVIOUS
<1>13. /\ longer \in Seq(Seq(D)) /\ Len(longer) = n + 1 /\ longer[n + 1] = p
       /\ \A i \in 1..n : longer[i] = parts[i]
    BY <1>9, <1>11, <1>12, AppendProperties
<1>14. \A i \in 1..(n + 1) : all[i] = longer[i]
    <2> TAKE i \in 1..(n + 1)
    <2>1. CASE i = n + 1
        BY <1>3, <1>6, <1>11, <1>13, <2>1
    <2>2. CASE i # n + 1
        <3>1. i \in 1..n
            BY <2>2
        <3> QED BY <1>3, <1>5, <1>6, <1>13, <3>1
    <2> QED BY <2>1, <2>2
<1>15. all = longer
    BY <1>10, <1>13, <1>14, SeqEqual
<1>16. FlattenSeq(parts) \in Seq(D) /\ FlattenSeq(longer) = FlattenSeq(parts) \o p
    BY <1>9, <1>11, <1>12, FlattenAppend
<1> QED BY <1>1, <1>2, <1>4, <1>5, <1>6, <1>9, <1>11, <1>15, <1>16 DEF MapsAndFlattens

(* What is left of the whole after each part. *)
Splits(D, parts, rest) ==
    /\ rest \in [0..Len(parts) -> Seq(D)]
    /\ rest[0] = FlattenSeq(parts)
    /\ rest[Len(parts)] = <<>>
    /\ \A i \in 1..Len(parts) : rest[i - 1] = parts[i] \o rest[i]

LEMMA FlattenSplits ==
    ASSUME NEW D, NEW parts \in Seq(Seq(D))
    PROVE  \E rest : Splits(D, parts, rest)
<1>1. PICK n : n = Len(parts)
    OBVIOUS
<1>2. n \in Nat /\ \A i \in 1..n : parts[i] \in Seq(D)
    BY <1>1, LenProperties, ElementOfSeq
<1>3. PICK q : /\ q \in [0..n -> Seq(D)]
               /\ q[0] = <<>>
               /\ \A i \in 1..n : q[i] = q[i - 1] \o parts[i]
               /\ q[n] = FlattenSeq(parts)
    BY <1>1, FlattenRuns DEF Gathers
<1> DEFINE g == [k \in 1..n |-> [x \in Seq(D) |-> parts[n - k + 1] \o x]]
<1>4. PICK f \in [0..n -> Seq(D)] : f[0] = <<>> /\ \A k \in 1..n : f[k] = g[k][f[k - 1]]
    <2>1. \A k \in 1..n : \A x \in Seq(D) : parts[n - k + 1] \o x \in Seq(D)
        <3> TAKE k \in 1..n
        <3>1. n - k + 1 \in 1..n
            BY <1>2
        <3> QED BY <1>2, <3>1, ConcatProperties
    <2>2. g \in [1..n -> [Seq(D) -> Seq(D)]]
        BY <2>1
    <2> HIDE DEF g
    <2>3. <<>> \in Seq(D)
        BY EmptySeq
    <2>4. HasRun(Seq(D), <<>>, n, g)
        BY <1>2, <2>2, <2>3, Recursion
    <2> QED BY <2>4 DEF HasRun
<1>5. PICK rest : rest = [i \in 0..n |-> f[n - i]]
    OBVIOUS
<1>6. rest \in [0..n -> Seq(D)] /\ rest[n] = <<>>
    <2>1. \A i \in 0..n : n - i \in 0..n
        BY <1>2
    <2>2. n \in 0..n /\ n - n = 0
        BY <1>2
    <2> QED BY <1>4, <1>5, <2>1, <2>2
<1>7. \A i \in 1..n : rest[i - 1] = parts[i] \o rest[i]
    <2> TAKE i \in 1..n
    <2>1. PICK k : k = n - i + 1
        OBVIOUS
    <2>2. /\ k \in 1..n /\ k - 1 \in 0..n /\ n - k + 1 = i
          /\ n - (i - 1) = k /\ n - i = k - 1 /\ i \in 0..n /\ i - 1 \in 0..n
        BY <1>2, <2>1
    <2>3. f[k - 1] \in Seq(D)
        BY <2>2
    <2>4. f[k] = parts[i] \o f[k - 1]
        BY <1>4, <2>2, <2>3
    <2> QED BY <1>5, <2>2, <2>4
<1> DEFINE T == {i \in 0..n : q[i] \o rest[i] = rest[0]}
<1>8. 0 \in T
    <2>1. 0 \in 0..n /\ rest[0] \in Seq(D)
        BY <1>2, <1>6
    <2> QED BY <1>3, <2>1, ConcatEmptySeq
<1>9. ASSUME NEW i \in 1..n, i - 1 \in T PROVE i \in T
    <2>1. i - 1 \in 0..n /\ i \in 0..n
        BY <1>2
    <2>2. q[i - 1] \in Seq(D)
        BY <1>3, <2>1
    <2>3. rest[i] \in Seq(D)
        BY <1>6, <2>1
    <2>4. parts[i] \in Seq(D)
        BY <1>2
    <2>5. (q[i - 1] \o parts[i]) \o rest[i] = q[i - 1] \o (parts[i] \o rest[i])
        <3>1. Regroups(q[i - 1], parts[i], rest[i])
            BY <2>2, <2>3, <2>4, Regroup
        <3> QED BY <3>1 DEF Regroups
    <2>6. q[i] = q[i - 1] \o parts[i] /\ rest[i - 1] = parts[i] \o rest[i]
        BY <1>3, <1>7
    <2>7. q[i - 1] \o rest[i - 1] = rest[0]
        BY <1>9
    <2> QED BY <2>1, <2>5, <2>6, <2>7
<1>10. \A i \in 0..n : i \in T
    <2> HIDE DEF T
    <2> QED BY <1>2, <1>8, <1>9, Stepwise
<1>11. q[n] \o rest[n] = rest[0] /\ q[n] \in Seq(D)
    <2>1. n \in 0..n
        BY <1>2
    <2>2. n \in T
        BY <1>10, <2>1
    <2>3. q[n] \in Seq(D)
        BY <1>3, <2>1
    <2> QED BY <2>2, <2>3
<1>12. rest[0] = FlattenSeq(parts)
    BY <1>3, <1>6, <1>11, ConcatEmptySeq
<1>13. Splits(D, parts, rest)
    BY <1>1, <1>6, <1>7, <1>12 DEF Splits
<1> QED BY <1>13

-----------------------------------------------------------------------------
(* The loops that read until nothing is left *)

Turned(turn, X) == UNION {IF s.rest = <<>> THEN {s} ELSE turn[s] : s \in X}

(* The states after each turn, from those of a set that turns stay in. *)
Loops(State, turn, first, after) ==
    /\ after \in [0..Len(first.rest) -> SUBSET State]
    /\ after[0] = {first}
    /\ \A i \in 1..Len(first.rest) : after[i] = Turned(turn, after[i - 1])
    /\ after[Len(first.rest)] = WhileRest(turn, first)

LEMMA LoopRuns ==
    ASSUME NEW State, NEW turn, \A s \in State : s.rest # <<>> => turn[s] \subseteq State,
           NEW first \in State, Len(first.rest) \in Nat
    PROVE  \E after : Loops(State, turn, first, after)
<1>1. PICK n \in Nat : n = Len(first.rest)
    OBVIOUS
<1> DEFINE g          == [i \in 1..n |-> [X \in SUBSET State |-> Turned(turn, X)]]
           Turn(q, i) == IF i = 0 THEN {first} ELSE Turned(turn, q[i - 1])
           Is(q)      == q = [i \in 0..n |-> Turn(q, i)]
<1>2. WhileRest(turn, first) = (CHOOSE q : Is(q))[n]
    BY <1>1 DEF WhileRest, Turned
<1>3. \A X \in SUBSET State : Turned(turn, X) \in SUBSET State
    BY DEF Turned
<1>4. PICK f \in [0..n -> SUBSET State] :
          f[0] = {first} /\ \A i \in 1..n : f[i] = g[i][f[i - 1]]
    <2>1. g \in [1..n -> [SUBSET State -> SUBSET State]]
        BY <1>3
    <2> HIDE DEF g
    <2>2. {first} \in SUBSET State
        OBVIOUS
    <2>3. HasRun(SUBSET State, {first}, n, g)
        BY <2>1, <2>2, Recursion
    <2> QED BY <2>3 DEF HasRun
<1>5. \A i \in 1..n : f[i] = Turned(turn, f[i - 1])
    <2> TAKE i \in 1..n
    <2>1. i - 1 \in 0..n
        OBVIOUS
    <2>2. f[i - 1] \in SUBSET State
        BY <2>1
    <2> QED BY <1>4, <2>2
<1>6. Is(f)
    <2>1. \A i \in 0..n : f[i] = Turn(f, i)
        BY <1>4, <1>5
    <2> HIDE DEF Turn
    <2> QED BY <2>1
<1>7. PICK q : q = CHOOSE x : Is(x)
    OBVIOUS
<1>8. Is(q)
    <2> HIDE DEF Is
    <2> QED BY <1>6, <1>7
<1>9. DOMAIN q = 0..n /\ \A i \in 0..n : q[i] = Turn(q, i)
    <2> HIDE DEF Turn
    <2> QED BY <1>8
<1>10. q[0] = {first} /\ \A i \in 1..n : q[i] = Turned(turn, q[i - 1])
    <2>1. 0 \in 0..n
        OBVIOUS
    <2>2. \A i \in 1..n : i \in 0..n /\ i # 0
        OBVIOUS
    <2> QED BY <1>9, <2>1, <2>2
<1>11. \A i \in 0..n : q[i] = f[i]
    <2> DEFINE T == {i \in 0..n : q[i] = f[i]}
    <2>1. 0 \in T
        <3>1. 0 \in 0..n
            OBVIOUS
        <3> QED BY <1>4, <1>10, <3>1
    <2>2. ASSUME NEW i \in 1..n, i - 1 \in T PROVE i \in T
        BY <1>5, <1>10, <2>2
    <2>3. \A i \in 0..n : i \in T
        <3> HIDE DEF T
        <3> QED BY <2>1, <2>2, Stepwise
    <2> QED BY <2>3
<1>12. f[n] = WhileRest(turn, first)
    <2>1. n \in 0..n
        OBVIOUS
    <2> QED BY <1>2, <1>7, <1>11, <2>1
<1>13. Loops(State, turn, first, f)
    BY <1>1, <1>4, <1>5, <1>12 DEF Loops
<1> QED BY <1>13

(* When each turn reads something, nothing is left in the end. *)
LEMMA LoopEnds ==
    ASSUME NEW D, NEW State, \A s \in State : s.rest \in Seq(D), NEW turn,
           \A s \in State : s.rest # <<>> =>
               turn[s] \subseteq State /\ \A x \in turn[s] : Len(x.rest) < Len(s.rest),
           NEW first \in State
    PROVE  \A s \in WhileRest(turn, first) : s \in State /\ s.rest = <<>>
<1>1. PICK n \in Nat : n = Len(first.rest)
    BY LenProperties
<1>2. PICK after : /\ after \in [0..n -> SUBSET State]
                   /\ after[0] = {first}
                   /\ \A i \in 1..n : after[i] = Turned(turn, after[i - 1])
                   /\ after[n] = WhileRest(turn, first)
    <2>1. \A s \in State : s.rest # <<>> => turn[s] \subseteq State
        OBVIOUS
    <2>2. Len(first.rest) \in Nat
        BY <1>1
    <2>3. PICK after : Loops(State, turn, first, after)
        BY <2>1, <2>2, LoopRuns
    <2> QED BY <1>1, <2>3 DEF Loops
<1> DEFINE T == {i \in 0..n : \A s \in after[i] : Len(s.rest) <= n - i}
<1>3. 0 \in T
    BY <1>1, <1>2
<1>4. ASSUME NEW i \in 1..n, i - 1 \in T PROVE i \in T
    <2>1. i - 1 \in 0..n /\ i \in 0..n
        OBVIOUS
    <2>2. after[i - 1] \subseteq State /\ \A s \in after[i - 1] : Len(s.rest) <= n - (i - 1)
        BY <1>2, <1>4, <2>1
    <2> SUFFICES ASSUME NEW x \in after[i] PROVE Len(x.rest) <= n - i
        BY <2>1
    <2>3. PICK s \in after[i - 1] : x \in IF s.rest = <<>> THEN {s} ELSE turn[s]
        BY <1>2 DEF Turned
    <2>4. s \in State /\ Len(s.rest) <= n - (i - 1)
        BY <2>2
    <2>5. CASE s.rest = <<>>
        BY <2>3, <2>5, EmptySeq
    <2>6. CASE s.rest # <<>>
        <3>1. x \in turn[s]
            BY <2>3, <2>6
        <3>2. x \in State /\ Len(x.rest) < Len(s.rest)
            BY <2>4, <2>6, <3>1
        <3>3. Len(x.rest) \in Nat /\ Len(s.rest) \in Nat
            BY <2>4, <3>2, LenProperties
        <3> QED BY <2>4, <3>2, <3>3
    <2> QED BY <2>5, <2>6
<1>5. n \in T
    <2>1. \A i \in 0..n : i \in T
        <3> HIDE DEF T
        <3> QED BY <1>3, <1>4, Stepwise
    <2> HIDE DEF T
    <2> QED BY <2>1
<1>6. ASSUME NEW s \in WhileRest(turn, first) PROVE s \in State /\ s.rest = <<>>
    <2>1. s \in State /\ Len(s.rest) <= 0
        <3>1. n \in 0..n
            OBVIOUS
        <3>2. after[n] \in SUBSET State
            BY <1>2, <3>1
        <3>3. \A x \in after[n] : Len(x.rest) <= n - n
            BY <1>5
        <3> QED BY <1>2, <3>2, <3>3
    <2>2. s.rest \in Seq(D)
        BY <2>1
    <2>3. Len(s.rest) = 0
        BY <2>1, <2>2, LenProperties
    <2> QED BY <2>1, <2>2, <2>3, EmptySeq
<1> QED BY <1>6

Follows(D, turn, path, m) ==
    /\ \A i \in 0..m : path[i].rest \in Seq(D)
    /\ \A i \in 1..m : /\ path[i - 1].rest # <<>>
                       /\ Len(path[i].rest) < Len(path[i - 1].rest)
                       /\ turn[path[i - 1]] = {} \/ turn[path[i - 1]] = {path[i]}
    /\ path[m].rest = <<>>

Reaches(turn, path, m) ==
    WhileRest(turn, path[0]) =
        IF \A i \in 1..m : turn[path[i - 1]] # {} THEN {path[m]} ELSE {}

(* A loop whose every turn either fails or goes on as it should. *)
LEMMA LoopFollows ==
    ASSUME NEW D, NEW m \in Nat, NEW turn, NEW path, Follows(D, turn, path, m)
    PROVE  Reaches(turn, path, m)
<1> USE DEF Follows
<1>1. 0 \in 0..m /\ m \in 0..m
    OBVIOUS
<1>2. PICK n \in Nat : n = Len(path[0].rest)
    BY <1>1, LenProperties
<1> DEFINE State == {path[i] : i \in 0..m}
<1>3. PICK after : /\ after[0] = {path[0]}
                   /\ \A i \in 1..n : after[i] = Turned(turn, after[i - 1])
                   /\ after[n] = WhileRest(turn, path[0])
    <2>1. \A s \in State : s.rest # <<>> => turn[s] \subseteq State
        <3> SUFFICES ASSUME NEW i \in 0..m, path[i].rest # <<>> PROVE turn[path[i]] \subseteq State
            OBVIOUS
        <3>1. i + 1 \in 1..m /\ i + 1 \in 0..m /\ (i + 1) - 1 = i
            OBVIOUS
        <3>2. turn[path[i]] = {} \/ turn[path[i]] = {path[i + 1]}
            BY <3>1
        <3>3. path[i + 1] \in State
            BY <3>1
        <3> QED BY <3>2, <3>3
    <2>2. path[0] \in State /\ Len(path[0].rest) \in Nat
        BY <1>1, <1>2
    <2> HIDE DEF State
    <2>3. PICK after : Loops(State, turn, path[0], after)
        BY <2>1, <2>2, LoopRuns
    <2> QED BY <1>2, <2>3 DEF Loops
<1>4. m <= n
    <2> DEFINE T == {i \in 0..m : Len(path[i].rest) <= n - i}
    <2>1. 0 \in T
        BY <1>2
    <2>2. ASSUME NEW i \in 1..m, i - 1 \in T PROVE i \in T
        <3>1. i - 1 \in 0..m /\ i \in 0..m
            OBVIOUS
        <3>2. Len(path[i].rest) \in Nat /\ Len(path[i - 1].rest) \in Nat
            BY <3>1, LenProperties
        <3>3. Len(path[i].rest) < Len(path[i - 1].rest) /\ Len(path[i - 1].rest) <= n - (i - 1)
            BY <2>2
        <3> QED BY <3>1, <3>2, <3>3
    <2>3. \A i \in 0..m : i \in T
        <3> HIDE DEF T
        <3> QED BY <2>1, <2>2, Stepwise
    <2>4. Len(path[m].rest) <= n - m
        BY <1>1, <2>3
    <2> QED BY <2>4, EmptySeq
<1> DEFINE At(i)    == IF i <= m THEN i ELSE m
           Going(i) == \A j \in 1..m : j <= i => turn[path[j - 1]] # {}
           T        == {i \in 0..n : after[i] = IF Going(i) THEN {path[At(i)]} ELSE {}}
<1>5. 0 \in T
    <2>1. Going(0) /\ At(0) = 0
        OBVIOUS
    <2> HIDE DEF Going, At
    <2> QED BY <1>3, <2>1
<1>6. ASSUME NEW i \in 1..n, i - 1 \in T PROVE i \in T
    <2>1. after[i - 1] = IF Going(i - 1) THEN {path[At(i - 1)]} ELSE {}
        BY <1>6
    <2>2. after[i] = Turned(turn, after[i - 1])
        BY <1>3
    <2>3. CASE ~Going(i - 1)
        <3>1. ~Going(i)
            BY <2>3
        <3> HIDE DEF Going
        <3> QED BY <2>1, <2>2, <2>3, <3>1 DEF Turned
    <2>4. CASE Going(i - 1) /\ i <= m
        <3>1. At(i - 1) = i - 1 /\ At(i) = i /\ i \in 1..m
            <4> HIDE DEF Going
            <4> QED BY <2>4
        <3>2. Going(i) <=> turn[path[i - 1]] # {}
            <4>1. \A j \in 1..m : j <= i <=> (j <= i - 1 \/ j = i)
                OBVIOUS
            <4> QED BY <2>4, <3>1, <4>1
        <3> HIDE DEF Going, At
        <3>3. after[i - 1] = {path[i - 1]} /\ path[i - 1].rest # <<>>
            BY <2>1, <2>4, <3>1
        <3>4. after[i] = turn[path[i - 1]]
            BY <2>2, <3>3 DEF Turned
        <3>5. turn[path[i - 1]] = {} \/ turn[path[i - 1]] = {path[i]}
            BY <3>1
        <3>6. after[i] = IF Going(i) THEN {path[At(i)]} ELSE {}
            BY <3>1, <3>2, <3>4, <3>5
        <3> QED BY <3>6
    <2>5. CASE Going(i - 1) /\ i > m
        <3>1. At(i - 1) = m /\ At(i) = m
            <4> HIDE DEF Going
            <4> QED BY <2>5
        <3>2. Going(i)
            <4>1. \A j \in 1..m : j <= i - 1
                BY <2>5
            <4> QED BY <2>5, <4>1
        <3> HIDE DEF Going, At
        <3>3. after[i - 1] = {path[m]} /\ path[m].rest = <<>>
            BY <2>1, <2>5, <3>1
        <3>4. after[i] = {path[m]}
            BY <2>2, <3>3 DEF Turned
        <3> QED BY <3>1, <3>2, <3>4
    <2> HIDE DEF Going, T
    <2> QED BY <2>3, <2>4, <2>5
<1>7. n \in T
    <2>1. \A i \in 0..n : i \in T
        <3> HIDE DEF T
        <3> QED BY <1>5, <1>6, Stepwise
    <2> HIDE DEF T
    <2> QED BY <2>1
<1>8. after[n] = IF Going(n) THEN {path[At(n)]} ELSE {}
    BY <1>7
<1>9. At(n) = m /\ (Going(n) <=> \A i \in 1..m : turn[path[i - 1]] # {})
    <2>1. \A j \in 1..m : j <= n
        BY <1>4
    <2>2. At(n) = m
        BY <1>4
    <2> QED BY <2>1, <2>2
<1> HIDE DEF At, Going
<1> QED BY <1>3, <1>8, <1>9 DEF Reaches

-----------------------------------------------------------------------------
(* Digits *)

LEMMA ProductsAscend ==
    ASSUME NEW l \in Nat, NEW x \in Nat, NEW y \in Nat, x <= y
    PROVE  l * x <= l * y
<1>1. PICK d \in Nat : y = x + d
    <2>1. y - x \in Nat /\ y = x + (y - x)
        OBVIOUS
    <2> QED BY <2>1
<1>2. l * y = l * x + l * d /\ l * d \in Nat /\ l * x \in Nat
    BY <1>1
<1> QED BY <1>2

ShiftsToNothing(q, base, w) ==
    /\ \A i \in 0..w : q[i] \in Nat
    /\ \A i \in 1..w : q[i] = q[i - 1] \div base
    /\ q[w] = 0

LastDigits(q, digits, base, w) == \A i \in 1..w : digits[i] % base = q[w - i] % base

ReadsBack(q, digits, base, w) == \A i \in 0..w : Reads(digits, base)[i] = q[w - i]

(* The digits of a number, read one after the other, give the number. *)
LEMMA DigitsRead ==
    ASSUME NEW base \in Nat \ {0}, NEW w \in Nat, NEW q, ShiftsToNothing(q, base, w),
           NEW digits \in Seq(Nat), w <= Len(digits), LastDigits(q, digits, base, w)
    PROVE  ReadsBack(q, digits, base, w)
<1> USE DEF ShiftsToNothing, LastDigits
<1>1. PICK n \in Nat : n = Len(digits)
    BY LenProperties
<1>2. PICK ret : ret = Reads(digits, base)
    OBVIOUS
<1>3. ret[0] = 0 /\ \A i \in 1..n : ret[i] = ret[i - 1] * base + (digits[i] % base)
    <2>1. /\ Reads(digits, base)[0] = 0
          /\ \A i \in 1..n : Reads(digits, base)[i]
                                = Reads(digits, base)[i - 1] * base + (digits[i] % base)
        BY <1>1, ReadsDef
    <2> QED BY <1>2, <2>1
<1> DEFINE T == {i \in 0..w : ret[i] = q[w - i]}
<1>4. 0 \in T
    BY <1>3
<1>5. ASSUME NEW i \in 1..w, i - 1 \in T PROVE i \in T
    <2>1. PICK x \in Nat : x = q[w - i]
        <3>1. w - i \in 0..w
            OBVIOUS
        <3> QED BY <3>1
    <2>2. q[w - (i - 1)] = x \div base
        <3>1. w - (i - 1) \in 1..w /\ (w - (i - 1)) - 1 = w - i
            OBVIOUS
        <3>2. q[w - (i - 1)] = q[(w - (i - 1)) - 1] \div base
            BY <3>1
        <3> QED BY <2>1, <3>1, <3>2
    <2>3. digits[i] % base = x % base
        BY <2>1
    <2>4. i \in 1..n
        BY <1>1
    <2>5. ret[i] = (x \div base) * base + (x % base)
        <3>1. ret[i] = ret[i - 1] * base + (digits[i] % base)
            BY <1>3, <2>4
        <3>2. ret[i - 1] = x \div base
            BY <1>5, <2>2
        <3> QED BY <2>3, <3>1, <3>2
    <2>6. PICK d, r : d = x \div base /\ r = x % base
        OBVIOUS
    <2>7. d \in Nat /\ r \in 0..(base - 1) /\ x = base * d + r
        BY <2>6, Division
    <2>8. ret[i] = x
        BY <2>5, <2>6, <2>7
    <2> QED BY <2>1, <2>8
<1>6. \A i \in 0..w : i \in T
    <2> HIDE DEF T
    <2> QED BY <1>4, <1>5, Stepwise
<1> QED BY <1>2, <1>6 DEF ReadsBack

ShiftsBack(q, digits, base, n) == \A i \in 0..n : q[i] = Reads(digits, base)[n - i]

(* Shifting the number that was read gives what was read before. *)
LEMMA ReadNumberShifts ==
    ASSUME NEW base \in Nat \ {0}, NEW digits \in Seq(Nat), NEW n \in 0..Len(digits),
           NEW q, q[0] = Reads(digits, base)[n], \A i \in 1..n : q[i] = q[i - 1] \div base
    PROVE  /\ ShiftsBack(q, digits, base, n)
           /\ \A i \in 1..n : q[n - i] % base = digits[i] % base
<1>1. PICK m \in Nat : m = Len(digits)
    BY LenProperties
<1>2. PICK ret : ret = Reads(digits, base)
    OBVIOUS
<1>3. /\ ret \in [0..m -> Nat]
      /\ \A i \in 1..m : ret[i] = ret[i - 1] * base + (digits[i] % base)
    <2>1. /\ Reads(digits, base) \in [0..m -> Nat]
          /\ \A i \in 1..m : Reads(digits, base)[i]
                                = Reads(digits, base)[i - 1] * base + (digits[i] % base)
        BY <1>1, ReadsDef
    <2> QED BY <1>2, <2>1
<1>4. n \in Nat /\ n <= m
    BY <1>1
<1>5. ASSUME NEW i \in 1..m
      PROVE  ret[i] \div base = ret[i - 1] /\ ret[i] % base = digits[i] % base
    <2>1. i - 1 \in 0..m
        OBVIOUS
    <2>2. PICK x \in Nat : x = ret[i - 1]
        BY <1>3, <2>1
    <2>3. digits[i] \in Nat
        BY <1>1, ElementOfSeq
    <2>4. PICK r \in 0..(base - 1) : r = digits[i] % base
        <3>1. PICK d \in Nat : d = digits[i]
            BY <2>3
        <3>2. d % base \in 0..(base - 1)
            BY Division
        <3> QED BY <3>1, <3>2
    <2>5. ret[i] = base * x + r
        BY <1>3, <2>2, <2>4
    <2>6. (base * x + r) \div base = x /\ (base * x + r) % base = r
        BY QuotientAndRemainder
    <2> QED BY <2>2, <2>4, <2>5, <2>6
<1> DEFINE T == {i \in 0..n : q[i] = ret[n - i]}
<1>6. 0 \in T
    BY <1>2, <1>4
<1>7. ASSUME NEW i \in 1..n, i - 1 \in T PROVE i \in T
    <2>1. PICK k : k = n - (i - 1)
        OBVIOUS
    <2>2. k \in 1..m /\ k - 1 = n - i /\ i \in 0..n
        BY <1>4, <2>1
    <2>3. q[i] = ret[k] \div base
        BY <1>7, <2>1
    <2>4. ret[k] \div base = ret[k - 1]
        BY <1>5, <2>2
    <2> QED BY <2>2, <2>3, <2>4
<1>8. \A i \in 0..n : q[i] = ret[n - i]
    <2>1. \A i \in 0..n : i \in T
        <3> HIDE DEF T
        <3> QED BY <1>4, <1>6, <1>7, Stepwise
    <2> QED BY <2>1
<1>9. ASSUME NEW i \in 1..n PROVE q[n - i] % base = digits[i] % base
    <2>1. n - i \in 0..n /\ n - (n - i) = i /\ i \in 1..m
        BY <1>4
    <2>2. q[n - i] = ret[i]
        BY <1>8, <2>1
    <2>3. ret[i] % base = digits[i] % base
        BY <1>5, <2>1
    <2> QED BY <2>2, <2>3
<1> QED BY <1>2, <1>8, <1>9 DEF ShiftsBack

LEMMA ByteBase == Pow2[ByteBits] \in Nat \ {0} /\ \A b \in Byte : b \in Nat /\ b % Pow2[ByteBits] = b
<1>1. Pow2[ByteBits] \in Nat \ {0}
    BY ByteWidth, WordWidth, Pow2Type
<1>2. PICK base \in Nat \ {0} : base = Pow2[ByteBits]
    BY <1>1
<1>3. ASSUME NEW b \in 0..(base - 1) PROVE b \in Nat /\ b % base = b
    OBVIOUS
<1> QED BY <1>2, <1>3 DEF Byte

(* So many bytes are shifted out of a number exactly when they can hold it. *)
LEMMA LimitExact ==
    ASSUME NEW v \in Nat, NEW w \in Nat
    PROVE  Shifts(v, Pow2[ByteBits], w)[w] = 0 <=> v < Limit(w)
<1>1. PICK base \in Nat \ {0} : base = Pow2[ByteBits]
    BY ByteBase
<1>2. PICK q : q = Shifts(v, base, w)
    OBVIOUS
<1>3. q \in [0..w -> Nat] /\ q[0] = v /\ \A i \in 1..w : q[i] = q[i - 1] \div base
    <2>1. /\ Shifts(v, base, w) \in [0..w -> Nat]
          /\ Shifts(v, base, w)[0] = v
          /\ \A i \in 1..w : Shifts(v, base, w)[i] = Shifts(v, base, w)[i - 1] \div base
        BY ShiftsDef
    <2> QED BY <1>2, <2>1
<1> DEFINE T == {i \in 0..w : Limit(i) * q[i] <= v /\ v < Limit(i) * (q[i] + 1)}
<1>4. 0 \in T
    <2>1. Limit(0) = 1
        BY LimitDef
    <2> QED BY <1>3, <2>1
<1>5. ASSUME NEW i \in 1..w, i - 1 \in T PROVE i \in T
    <2>1. i - 1 \in 0..w /\ i - 1 \in Nat /\ (i - 1) + 1 = i /\ i \in 0..w
        OBVIOUS
    <2>2. PICK x \in Nat : x = q[i - 1]
        BY <1>3, <2>1
    <2>3. PICK l \in Nat \ {0} : l = Limit(i - 1)
        BY <2>1, LimitDef
    <2>4. Limit(i) = base * l
        BY <1>1, <2>1, <2>3, LimitDef
    <2>5. PICK y \in Nat, r \in 0..(base - 1) : y = x \div base /\ r = x % base
        BY Division
    <2>6. x = base * y + r
        BY <2>5, Division
    <2>7. base * y \in Nat /\ base * y <= x /\ x + 1 <= base * y + base
        BY <2>6
    <2>8. l * (base * y) <= l * x
        BY <2>7, ProductsAscend
    <2>9. l * (x + 1) <= l * (base * y + base)
        <3>1. x + 1 \in Nat /\ base * y + base \in Nat
            BY <2>7
        <3> QED BY <2>7, <3>1, ProductsAscend
    <2>10. l * x <= v /\ v < l * (x + 1)
        BY <1>5, <2>2, <2>3
    <2>11. l * (base * y) = (base * l) * y /\ l * (base * y + base) = (base * l) * (y + 1)
        OBVIOUS
    <2>12. q[i] = y
        BY <1>3, <2>2, <2>5
    <2>13. Limit(i) * q[i] = l * (base * y) /\ Limit(i) * (q[i] + 1) = l * (base * y + base)
        BY <2>4, <2>11, <2>12
    <2>14. l * (base * y) \in Nat /\ l * x \in Nat /\ l * (x + 1) \in Nat /\ l * (base * y + base) \in Nat
        BY <2>7
    <2>15. l * (base * y) <= v /\ v < l * (base * y + base)
        BY <2>8, <2>9, <2>10, <2>14
    <2> QED BY <2>1, <2>13, <2>15
<1>6. w \in T
    <2>1. \A i \in 0..w : i \in T
        <3> HIDE DEF T
        <3> QED BY <1>4, <1>5, Stepwise
    <2> HIDE DEF T
    <2> QED BY <2>1
<1>7. PICK x \in Nat, l \in Nat \ {0} : x = q[w] /\ l = Limit(w)
    BY <1>3, LimitDef
<1>8. l * x <= v /\ v < l * (x + 1)
    BY <1>6, <1>7
<1>9. CASE x = 0
    BY <1>1, <1>2, <1>7, <1>8, <1>9
<1>10. CASE x # 0
    <2>1. l * 1 <= l * x
        <3>1. 1 \in Nat /\ 1 <= x
            BY <1>10
        <3> QED BY <3>1, ProductsAscend
    <2>2. l * x \in Nat /\ l * 1 = l
        OBVIOUS
    <2>3. ~(v < l)
        BY <1>8, <2>1, <2>2
    <2> QED BY <1>1, <1>2, <1>7, <1>10, <2>3
<1> QED BY <1>9, <1>10

-----------------------------------------------------------------------------
(* Numbers of a fixed width *)

LEMMA BytesAreNumbers == Byte \subseteq Nat /\ Seq(Byte) \subseteq Seq(Nat)
<1>1. Byte \subseteq Nat
    BY ByteBase
<1> HIDE DEF Byte
<1>2. ASSUME NEW s \in Seq(Byte) PROVE s \in Seq(Nat)
    <2>1. PICK n \in Nat : s \in [1..n -> Byte]
        BY SeqDef
    <2>2. s \in [1..n -> Nat]
        BY <1>1, <2>1
    <2> QED BY <2>2, SeqDef
<1> QED BY <1>1, <1>2

LEMMA BigEndianBytes ==
    ASSUME NEW v \in Nat, NEW w \in Nat
    PROVE  /\ BigEndian(v, w) \in Seq(Byte)
           /\ Len(BigEndian(v, w)) = w
           /\ \A i \in 1..w : BigEndian(v, w)[i]
                                  = Shifts(v, Pow2[ByteBits], w)[w - i] % Pow2[ByteBits]
<1>1. PICK base \in Nat \ {0} : base = Pow2[ByteBits]
    BY ByteBase
<1>2. PICK q : q = Shifts(v, base, w)
    OBVIOUS
<1>3. q \in [0..w -> Nat]
    <2>1. Shifts(v, base, w) \in [0..w -> Nat]
        BY ShiftsDef
    <2> QED BY <1>2, <2>1
<1>4. PICK s : s = [i \in 1..w |-> q[w - i] % base]
    OBVIOUS
<1>5. s = BigEndian(v, w)
    BY <1>1, <1>2, <1>4 DEF BigEndian
<1>6. \A i \in 1..w : s[i] \in 0..(base - 1)
    <2> TAKE i \in 1..w
    <2>1. PICK x \in Nat : x = q[w - i]
        <3>1. w - i \in 0..w
            OBVIOUS
        <3> QED BY <1>3, <3>1
    <2>2. x % base \in 0..(base - 1)
        BY Division
    <2> QED BY <1>4, <2>1, <2>2
<1>7. s \in [1..w -> Byte]
    BY <1>1, <1>4, <1>6 DEF Byte
<1> HIDE DEF Byte
<1>8. s \in Seq(Byte) /\ Len(s) = w
    BY <1>7, SeqDef, LenProperties
<1> QED BY <1>1, <1>2, <1>4, <1>5, <1>8

LEMMA ByteReads ==
    ASSUME NEW s \in Seq(Byte), NEW n, n = Len(s)
    PROVE  /\ n \in Nat
           /\ Reads(s, Pow2[ByteBits]) \in [0..n -> Nat]
           /\ Reads(s, Pow2[ByteBits])[0] = 0
           /\ \A i \in 1..n : Reads(s, Pow2[ByteBits])[i]
                                  = Reads(s, Pow2[ByteBits])[i - 1] * Pow2[ByteBits] + s[i]
<1>1. PICK base \in Nat \ {0} : base = Pow2[ByteBits]
    BY ByteBase
<1>2. s \in Seq(Nat) /\ n \in Nat
    BY BytesAreNumbers, LenProperties
<1>3. /\ Reads(s, base) \in [0..n -> Nat]
      /\ Reads(s, base)[0] = 0
      /\ \A i \in 1..n : Reads(s, base)[i] = Reads(s, base)[i - 1] * base + (s[i] % base)
    BY <1>2, ReadsDef
<1>4. \A i \in 1..n : s[i] % base = s[i]
    <2> TAKE i \in 1..n
    <2>1. s[i] \in Byte
        BY ElementOfSeq
    <2> QED BY <1>1, <2>1, ByteBase
<1> QED BY <1>1, <1>2, <1>3, <1>4

(* A number that was read is one that so many bytes can hold. *)
LEMMA NumberType ==
    ASSUME NEW s \in Seq(Byte)
    PROVE  Number(s) \in Nat /\ Number(s) < Limit(Len(s))
<1>1. PICK base \in Nat \ {0} : base = Pow2[ByteBits]
    BY ByteBase
<1>2. PICK n \in Nat : n = Len(s)
    BY LenProperties
<1>3. PICK ret : ret = Reads(s, base)
    OBVIOUS
<1>4. /\ ret \in [0..n -> Nat]
      /\ ret[0] = 0
      /\ \A i \in 1..n : ret[i] = ret[i - 1] * base + s[i]
    <2>1. /\ Reads(s, Pow2[ByteBits]) \in [0..n -> Nat]
          /\ Reads(s, Pow2[ByteBits])[0] = 0
          /\ \A i \in 1..n : Reads(s, Pow2[ByteBits])[i]
                                = Reads(s, Pow2[ByteBits])[i - 1] * Pow2[ByteBits] + s[i]
        BY <1>2, ByteReads
    <2> QED BY <1>1, <1>3, <2>1
<1> DEFINE T == {i \in 0..n : ret[i] < Limit(i)}
<1>5. 0 \in T
    <2>1. Limit(0) = 1
        BY LimitDef
    <2> QED BY <1>4, <2>1
<1>6. ASSUME NEW i \in 1..n, i - 1 \in T PROVE i \in T
    <2>1. i - 1 \in 0..n /\ i - 1 \in Nat /\ (i - 1) + 1 = i /\ i \in 0..n
        OBVIOUS
    <2>2. PICK x \in Nat : x = ret[i - 1]
        BY <1>4, <2>1
    <2>3. PICK l \in Nat : l = Limit(i - 1)
        BY <2>1, LimitDef
    <2>4. Limit(i) = base * l
        BY <1>1, <2>1, <2>3, LimitDef
    <2>5. PICK d \in 0..(base - 1) : d = s[i]
        <3>1. s[i] \in Byte
            BY <1>2, ElementOfSeq
        <3> QED BY <1>1, <3>1 DEF Byte
    <2>6. x + 1 <= l /\ x + 1 \in Nat
        BY <1>6, <2>2, <2>3
    <2>7. base * (x + 1) <= base * l
        BY <2>6, ProductsAscend
    <2>8. ret[i] = x * base + d
        BY <1>4, <2>2, <2>5
    <2>9. x * base + d < base * (x + 1) /\ base * (x + 1) \in Nat /\ base * l \in Nat
        <3>1. base * (x + 1) = x * base + base /\ x * base \in Nat /\ base * l \in Nat
            OBVIOUS
        <3> QED BY <3>1
    <2> QED BY <2>1, <2>4, <2>7, <2>8, <2>9
<1>7. n \in T
    <2>1. \A i \in 0..n : i \in T
        <3> HIDE DEF T
        <3> QED BY <1>5, <1>6, Stepwise
    <2> HIDE DEF T
    <2> QED BY <2>1
<1>8. Number(s) = ret[n]
    BY <1>1, <1>2, <1>3 DEF Number
<1> QED BY <1>2, <1>4, <1>7, <1>8

(* It is the number that was written if so many bytes can hold that. *)
LEMMA NumberWritten ==
    ASSUME NEW v \in Nat, NEW w \in Nat, v < Limit(w)
    PROVE  Number(BigEndian(v, w)) = v
<1>1. PICK base \in Nat \ {0} : base = Pow2[ByteBits]
    BY ByteBase
<1>2. PICK q : q = Shifts(v, base, w)
    OBVIOUS
<1>3. PICK s : s = BigEndian(v, w)
    OBVIOUS
<1>4. s \in Seq(Nat) /\ Len(s) = w /\ \A i \in 1..w : s[i] = q[w - i] % base /\ s[i] \in Byte
    <2>1. s \in Seq(Byte) /\ Len(s) = w
        BY <1>3, BigEndianBytes
    <2>2. \A i \in 1..w : s[i] \in Byte
        BY <2>1, ElementOfSeq
    <2>3. \A i \in 1..w : s[i] = q[w - i] % base
        BY <1>1, <1>2, <1>3, BigEndianBytes
    <2> QED BY <2>1, <2>2, <2>3, BytesAreNumbers
<1>5. \A i \in 1..w : s[i] % base = q[w - i] % base
    BY <1>1, <1>4, ByteBase
<1>6. q[0] = v /\ (\A i \in 0..w : q[i] \in Nat) /\ \A i \in 1..w : q[i] = q[i - 1] \div base
    <2>1. /\ Shifts(v, base, w) \in [0..w -> Nat]
          /\ Shifts(v, base, w)[0] = v
          /\ \A i \in 1..w : Shifts(v, base, w)[i] = Shifts(v, base, w)[i - 1] \div base
        BY ShiftsDef
    <2> QED BY <1>2, <2>1
<1>7. q[w] = 0
    BY <1>1, <1>2, LimitExact
<1>8. \A i \in 0..w : Reads(s, base)[i] = q[w - i]
    <2>1. ShiftsToNothing(q, base, w) /\ LastDigits(q, s, base, w)
        BY <1>5, <1>6, <1>7 DEF ShiftsToNothing, LastDigits
    <2>2. s \in Seq(Nat) /\ w <= Len(s)
        BY <1>4
    <2>3. ReadsBack(q, s, base, w)
        BY <2>1, <2>2, DigitsRead
    <2> QED BY <2>3 DEF ReadsBack
<1>9. Reads(s, base)[w] = v
    <2>1. w \in 0..w /\ w - w = 0
        OBVIOUS
    <2> QED BY <1>6, <1>8, <2>1
<1> QED BY <1>1, <1>3, <1>4, <1>9 DEF Number

(* Writing it with as many bytes gives the bytes that were read. *)
LEMMA NumberRewritten ==
    ASSUME NEW s \in Seq(Byte)
    PROVE  BigEndian(Number(s), Len(s)) = s
<1>1. PICK base \in Nat \ {0} : base = Pow2[ByteBits]
    BY ByteBase
<1>2. PICK n \in Nat : n = Len(s)
    BY LenProperties
<1>3. PICK v \in Nat : v = Number(s)
    BY NumberType
<1>4. PICK q : q = Shifts(v, base, n)
    OBVIOUS
<1>5. q[0] = v /\ \A i \in 1..n : q[i] = q[i - 1] \div base
    <2>1. /\ Shifts(v, base, n)[0] = v
          /\ \A i \in 1..n : Shifts(v, base, n)[i] = Shifts(v, base, n)[i - 1] \div base
        BY ShiftsDef
    <2> QED BY <1>4, <2>1
<1>6. q[0] = Reads(s, base)[n]
    BY <1>1, <1>2, <1>3, <1>5 DEF Number
<1>7. \A i \in 1..n : q[n - i] % base = s[i] % base
    <2>1. /\ base \in Nat \ {0} /\ s \in Seq(Nat) /\ n \in 0..Len(s)
          /\ q[0] = Reads(s, base)[n]
          /\ \A i \in 1..n : q[i] = q[i - 1] \div base
        BY <1>2, <1>5, <1>6, BytesAreNumbers
    <2> QED BY ONLY <2>1, ReadNumberShifts
<1>8. PICK t : t = BigEndian(v, n)
    OBVIOUS
<1>9. t \in Seq(Byte) /\ Len(t) = n /\ \A i \in 1..n : t[i] = q[n - i] % base
    BY <1>1, <1>4, <1>8, BigEndianBytes
<1>10. \A i \in 1..n : t[i] = s[i]
    <2> TAKE i \in 1..n
    <2>1. s[i] \in Byte
        BY <1>2, ElementOfSeq
    <2>2. s[i] % base = s[i]
        BY <1>1, <2>1, ByteBase
    <2> QED BY <1>7, <1>9, <2>2
<1>11. t = s
    BY <1>2, <1>9, <1>10, SeqEqual
<1> QED BY <1>2, <1>3, <1>8, <1>11

(* Of a number too large for its bytes the last bytes are written: what is  *)
(* left of the number after the last shift is lost.                         *)
LEMMA NumberCut ==
    ASSUME NEW v \in Nat, NEW w \in Nat
    PROVE  /\ v % Limit(w) \in Nat
           /\ v % Limit(w) < Limit(w)
           /\ v < Limit(w) => v % Limit(w) = v
           /\ BigEndian(v % Limit(w), w) = BigEndian(v, w)
<1>1. PICK base \in Nat \ {0} : base = Pow2[ByteBits]
    BY ByteBase
<1>2. PICK limit \in Nat \ {0} : limit = Limit(w)
    BY LimitDef
<1>3. PICK q : q = Shifts(v, base, w)
    OBVIOUS
<1>4. q \in [0..w -> Nat] /\ q[0] = v /\ \A i \in 1..w : q[i] = q[i - 1] \div base
    <2>1. /\ Shifts(v, base, w) \in [0..w -> Nat]
          /\ Shifts(v, base, w)[0] = v
          /\ \A i \in 1..w : Shifts(v, base, w)[i] = Shifts(v, base, w)[i - 1] \div base
        BY ShiftsDef
    <2> QED BY <1>3, <2>1
<1>5. PICK s \in Seq(Byte) : s = BigEndian(v, w)
    BY BigEndianBytes
<1>6. Len(s) = w /\ \A i \in 1..w : s[i] = q[w - i] % base
    BY <1>1, <1>3, <1>5, BigEndianBytes
<1>7. PICK ret : ret = Reads(s, base)
    OBVIOUS
<1>8. /\ ret \in [0..w -> Nat]
      /\ ret[0] = 0
      /\ \A i \in 1..w : ret[i] = ret[i - 1] * base + s[i]
    <2>1. /\ Reads(s, Pow2[ByteBits]) \in [0..w -> Nat]
          /\ Reads(s, Pow2[ByteBits])[0] = 0
          /\ \A i \in 1..w : Reads(s, Pow2[ByteBits])[i]
                                = Reads(s, Pow2[ByteBits])[i - 1] * Pow2[ByteBits] + s[i]
        BY <1>6, ByteReads
    <2> QED BY <1>1, <1>7, <2>1
<1>9. PICK lost \in Nat : lost = q[w]
    <2>1. w \in 0..w
        OBVIOUS
    <2> QED BY <1>4, <2>1
<1> DEFINE T == {i \in 0..w : q[w - i] = Limit(i) * lost + ret[i]}
<1>10. 0 \in T
    <2>1. Limit(0) = 1 /\ w - 0 = w
        BY LimitDef
    <2> QED BY <1>8, <1>9, <2>1
<1>11. ASSUME NEW i \in 1..w, i - 1 \in T PROVE i \in T
    <2>1. /\ i - 1 \in 0..w /\ i - 1 \in Nat /\ (i - 1) + 1 = i /\ i \in 0..w
          /\ w - i \in 0..w /\ w - (i - 1) \in 1..w /\ (w - (i - 1)) - 1 = w - i
        OBVIOUS
    <2>2. PICK x \in Nat, y \in Nat, r \in Nat :
              x = q[w - i] /\ y = q[w - (i - 1)] /\ r = ret[i - 1]
        BY <1>4, <1>8, <2>1
    <2>3. PICK l \in Nat : l = Limit(i - 1)
        BY <2>1, LimitDef
    <2>4. Limit(i) = base * l
        BY <1>1, <2>1, <2>3, LimitDef
    <2>5. y = x \div base
        BY <1>4, <2>1, <2>2
    <2>6. PICK d \in 0..(base - 1) : d = x % base
        BY Division
    <2>7. x = base * y + d
        BY <2>5, <2>6, Division
    <2>8. y = l * lost + r
        BY <1>11, <2>2, <2>3
    <2>9. ret[i] = r * base + d
        BY <1>6, <1>8, <2>2, <2>6
    <2>10. base * (l * lost + r) + d = (base * l) * lost + (r * base + d)
        OBVIOUS
    <2>11. x = (base * l) * lost + (r * base + d)
        BY <2>7, <2>8, <2>10
    <2> QED BY <2>1, <2>2, <2>4, <2>9, <2>11
<1>12. w \in T
    <2>1. \A i \in 0..w : i \in T
        <3> HIDE DEF T
        <3> QED BY <1>10, <1>11, Stepwise
    <2>2. w \in 0..w
        OBVIOUS
    <2> HIDE DEF T
    <2> QED BY <2>1, <2>2
<1>13. PICK n \in Nat : n = Number(s) /\ n < limit
    BY <1>2, <1>6, NumberType
<1>14. v = limit * lost + n
    <2>1. ret[w] = n
        BY <1>1, <1>6, <1>7, <1>13 DEF Number
    <2>2. q[w - w] = Limit(w) * lost + ret[w]
        BY <1>12
    <2>3. w - w = 0
        OBVIOUS
    <2> QED BY <1>2, <1>4, <2>1, <2>2, <2>3
<1>15. v % limit = n
    <2>1. n \in 0..(limit - 1)
        BY <1>13
    <2>2. (limit * lost + n) % limit = n
        BY <2>1, QuotientAndRemainder
    <2> QED BY <1>14, <2>2
<1>16. BigEndian(n, w) = BigEndian(v, w)
    BY <1>5, <1>6, <1>13, NumberRewritten
<1>17. v < limit => v % limit = v
    OBVIOUS
<1> QED BY <1>2, <1>13, <1>15, <1>16, <1>17

-----------------------------------------------------------------------------
(* Taking sequences apart *)

LEMMA ConcatParts ==
    ASSUME NEW D, NEW s \in Seq(D), NEW t \in Seq(D)
    PROVE  /\ SubSeq(s \o t, 1, Len(s)) = s
           /\ SubSeq(s \o t, Len(s) + 1, Len(s \o t)) = t
<1>1. PICK u : u = s \o t
    OBVIOUS
<1>2. PICK m, n : m = Len(s) /\ n = Len(t)
    OBVIOUS
<1>3. m \in Nat /\ n \in Nat
    BY <1>2, LenProperties
<1>4. /\ u \in Seq(D) /\ Len(u) = m + n
      /\ \A i \in 1..(m + n) : u[i] = IF i <= m THEN s[i] ELSE t[i - m]
    BY <1>1, <1>2, ConcatProperties
<1>5. SubSeq(u, 1, m) = s
    <2>1. PICK v : v = SubSeq(u, 1, m)
        OBVIOUS
    <2>2. m \in 0..Len(u)
        BY <1>3, <1>4
    <2>3. v \in Seq(D) /\ Len(v) = m /\ \A i \in 1..m : v[i] = u[i]
        BY <1>3, <1>4, <2>1, <2>2, SubSeqProperties
    <2>4. \A i \in 1..m : v[i] = s[i]
        BY <1>3, <1>4, <2>3
    <2> QED BY <1>2, <2>1, <2>3, <2>4, SeqEqual
<1>6. SubSeq(u, m + 1, m + n) = t
    <2>1. PICK v : v = SubSeq(u, m + 1, m + n)
        OBVIOUS
    <2>2. v \in Seq(D) /\ Len(v) = n /\ \A i \in 1..n : v[i] = u[m + i]
        <3>1. PICK a, b : a = m + 1 /\ b = m + n
            OBVIOUS
        <3>2. a \in 1..(Len(u) + 1) /\ b \in 0..Len(u) /\ a \in Nat /\ b \in Nat
            BY <1>3, <1>4, <3>1
        <3>3. /\ v \in Seq(D)
              /\ Len(v) = IF a <= b THEN b - a + 1 ELSE 0
              /\ \A i \in 1..(b - a + 1) : v[i] = u[a + i - 1]
            BY <1>3, <1>4, <2>1, <3>1, <3>2, SubSeqProperties
        <3>4. b - a + 1 = n /\ \A i \in 1..n : a + i - 1 = m + i
            BY <1>3, <3>1
        <3> QED BY <1>3, <3>1, <3>3, <3>4
    <2>3. \A i \in 1..n : v[i] = t[i]
        <3> TAKE i \in 1..n
        <3>1. m + i \in 1..(m + n) /\ ~(m + i <= m) /\ (m + i) - m = i
            BY <1>3
        <3> QED BY <1>4, <2>2, <3>1
    <2> QED BY <1>2, <2>1, <2>2, <2>3, SeqEqual
<1> QED BY <1>1, <1>2, <1>4, <1>5, <1>6

LEMMA SplitAt ==
    ASSUME NEW D, NEW s \in Seq(D), NEW n \in 0..Len(s)
    PROVE  /\ SubSeq(s, 1, n) \in Seq(D) /\ Len(SubSeq(s, 1, n)) = n
           /\ \A i \in 1..n : SubSeq(s, 1, n)[i] = s[i]
           /\ SubSeq(s, n + 1, Len(s)) \in Seq(D)
           /\ Len(SubSeq(s, n + 1, Len(s))) = Len(s) - n
           /\ SubSeq(s, 1, n) \o SubSeq(s, n + 1, Len(s)) = s
<1>1. PICK m \in Nat : m = Len(s)
    BY LenProperties
<1>2. n \in Nat /\ n <= m
    BY <1>1
<1>3. /\ SubSeq(s, 1, n) \in Seq(D) /\ Len(SubSeq(s, 1, n)) = n
      /\ \A i \in 1..n : SubSeq(s, 1, n)[i] = s[i]
    BY <1>1, <1>2, SubSeqProperties
<1>4. SubSeq(s, n + 1, m) \in Seq(D) /\ Len(SubSeq(s, n + 1, m)) = m - n
    <2>1. PICK a : a = n + 1
        OBVIOUS
    <2>2. a \in 1..(m + 1) /\ a \in Nat
        BY <1>1, <1>2, <2>1
    <2>3. /\ SubSeq(s, a, m) \in Seq(D)
          /\ Len(SubSeq(s, a, m)) = IF a <= m THEN m - a + 1 ELSE 0
        BY <1>1, <2>2, SubSeqProperties
    <2> QED BY <1>1, <1>2, <2>1, <2>3
<1>5. SubSeq(s, 1, n) \o SubSeq(s, n + 1, m) = SubSeq(s, 1, m)
    <2>1. 1 \in 1..(Len(s) + 1) /\ n \in (1 - 1)..Len(s) /\ m \in n..Len(s)
        BY <1>1, <1>2
    <2> QED BY <2>1, ConcatAdjacentSubSeq
<1>6. SubSeq(s, 1, m) = s
    BY <1>1, SubSeqFull
<1> QED BY <1>1, <1>3, <1>4, <1>5, <1>6

(* A part that is put in front is found there again. *)
LEMMA SameFront ==
    ASSUME NEW D, NEW s \in Seq(D), NEW t \in Seq(D), NEW u \in Seq(D), NEW v \in Seq(D),
           s \o t = u \o v, Len(s) = Len(u)
    PROVE  s = u /\ t = v
<1>1. SubSeq(s \o t, 1, Len(s)) = s /\ SubSeq(s \o t, Len(s) + 1, Len(s \o t)) = t
    BY ConcatParts
<1>2. SubSeq(u \o v, 1, Len(u)) = u /\ SubSeq(u \o v, Len(u) + 1, Len(u \o v)) = v
    BY ConcatParts
<1> QED BY <1>1, <1>2

LEMMA Fronts ==
    ASSUME NEW S, NEW xs \in Seq(S), NEW i \in 1..Len(xs)
    PROVE  /\ SubSeq(xs, 1, i - 1) \in Seq(S)
           /\ xs[i] \in S
           /\ Append(SubSeq(xs, 1, i - 1), xs[i]) = SubSeq(xs, 1, i)
<1>1. PICK m \in Nat : m = Len(xs)
    BY LenProperties
<1>2. i \in 0..Len(xs) /\ i - 1 \in 0..Len(xs) /\ i \in Nat \ {0}
    BY <1>1
<1>3. PICK v \in S : v = xs[i]
    BY ElementOfSeq
<1>4. PICK before \in Seq(S) : before = SubSeq(xs, 1, i - 1)
    BY <1>2, SplitAt
<1>5. PICK a, b : a = Append(before, v) /\ b = SubSeq(xs, 1, i)
    OBVIOUS
<1>6. Len(before) = i - 1 /\ \A j \in 1..(i - 1) : before[j] = xs[j]
    BY <1>2, <1>4, SplitAt
<1>7. b \in Seq(S) /\ Len(b) = i /\ \A j \in 1..i : b[j] = xs[j]
    BY <1>2, <1>5, SplitAt
<1>8. /\ a \in Seq(S) /\ Len(a) = (i - 1) + 1 /\ a[(i - 1) + 1] = v
      /\ \A j \in 1..(i - 1) : a[j] = before[j]
    BY <1>5, <1>6, AppendProperties
<1>9. \A j \in 1..i : a[j] = b[j]
    <2> TAKE j \in 1..i
    <2>1. CASE j = i
        BY <1>2, <1>3, <1>7, <1>8, <2>1
    <2>2. CASE j # i
        <3>1. j \in 1..(i - 1)
            BY <1>2, <2>2
        <3> QED BY <1>6, <1>7, <1>8, <3>1
    <2> QED BY <2>1, <2>2
<1>10. Len(a) = Len(b) /\ \A j \in 1..Len(a) : a[j] = b[j]
    BY <1>2, <1>7, <1>8, <1>9
<1>11. a = b
    BY <1>7, <1>8, <1>10, SeqEqual
<1> QED BY <1>3, <1>4, <1>5, <1>11

-----------------------------------------------------------------------------
(* Numbers in base 128 *)

(* A group is half a byte's values, and a word's values are a multiple. *)
LEMMA GroupSize ==
    /\ Group \in Nat /\ Group >= 2
    /\ Byte = 0..(2 * Group - 1)
    /\ \E c \in Nat : Pow2[W] = Group * c
<1>1. ByteBits \in Nat /\ 2 <= ByteBits /\ ByteBits <= W /\ W \in Nat
    BY ByteWidth, WordWidth
<1>2. PICK k : k = ByteBits - 1
    OBVIOUS
<1>3. k \in 0..W /\ k \in 1..W /\ ByteBits \in 1..W /\ W \in k..W /\ 0 \in 0..W
    BY <1>1, <1>2
<1>4. Pow2[k] \in Nat /\ Pow2[0] = 1 /\ Pow2[ByteBits] = 2 * Pow2[k]
    BY <1>2, <1>3, Pow2Type, Pow2Exists
<1>5. Pow2[0] < Pow2[k]
    BY <1>3, PowersAscend
<1>6. \E c \in Nat : Pow2[W] = Pow2[k] * c
    BY <1>3, PowersDivide
<1> QED BY <1>2, <1>4, <1>5, <1>6 DEF Group, Byte

LEMMA WordSize == Pow2[W] \in Nat \ {0} /\ Words \subseteq Nat /\ W \in Nat \ {0}
BY WordWidth, Pow2Type DEF Words

LEMMA GroupShifts ==
    ASSUME NEW v \in Words
    PROVE  /\ Shifts(v, Group, W) \in [0..W -> Nat]
           /\ Shifts(v, Group, W)[0] = v
           /\ \A i \in 1..W : Shifts(v, Group, W)[i] = Shifts(v, Group, W)[i - 1] \div Group
           /\ Shifts(v, Group, W)[W] = 0
<1>1. PICK g \in Nat \ {0} : g = Group /\ g >= 2
    BY GroupSize
<1>2. PICK q : q = Shifts(v, Group, W)
    OBVIOUS
<1>3. v \in Nat /\ W \in Nat
    BY WordSize
<1>4. q \in [0..W -> Nat] /\ q[0] = v /\ \A i \in 1..W : q[i] = q[i - 1] \div g
    <2>1. /\ Shifts(v, g, W) \in [0..W -> Nat]
          /\ Shifts(v, g, W)[0] = v
          /\ \A i \in 1..W : Shifts(v, g, W)[i] = Shifts(v, g, W)[i - 1] \div g
        <3>1. PICK x \in Nat, w \in Nat : x = v /\ w = W
            BY <1>3
        <3>2. /\ Shifts(x, g, w) \in [0..w -> Nat]
              /\ Shifts(x, g, w)[0] = x
              /\ \A i \in 1..w : Shifts(x, g, w)[i] = Shifts(x, g, w)[i - 1] \div g
            BY ShiftsDef
        <3> QED BY <3>1, <3>2
    <2> QED BY <1>1, <1>2, <2>1
<1> DEFINE T == {i \in 0..W : q[i] < Pow2[W - i]}
<1>5. 0 \in T
    <2>1. v < Pow2[W]
        BY WordSize DEF Words
    <2>2. 0 \in 0..W /\ W - 0 = W
        BY <1>3
    <2> QED BY <1>4, <2>1, <2>2
<1>6. ASSUME NEW i \in 1..W, i - 1 \in T PROVE i \in T
    <2>1. i - 1 \in 0..W /\ i \in 0..W
        BY <1>3
    <2>2. PICK x, y : x = q[i - 1] /\ x \in Nat /\ y = x \div g
        BY <1>4, <2>1
    <2>3. PICK k : k = W - i
        OBVIOUS
    <2>4. k + 1 \in 1..W /\ k \in 0..W /\ W - (i - 1) = k + 1 /\ (k + 1) - 1 = k
        BY <1>3, <2>3
    <2>5. PICK p \in Nat : p = Pow2[k] /\ Pow2[k + 1] = 2 * p
        BY <2>4, Pow2Type, Pow2Exists
    <2>6. x < 2 * p
        BY <1>6, <2>2, <2>4, <2>5
    <2>7. y \in Nat /\ g * y <= x
        <3>1. y \in Nat /\ x % g \in 0..(g - 1) /\ x = g * y + (x % g)
            BY <2>2, Division
        <3>2. g * y \in Nat
            BY <3>1
        <3> QED BY <3>1, <3>2
    <2>8. 2 * y <= g * y
        <3>1. y * 2 <= y * g
            BY <1>1, <2>7, ProductsAscend
        <3> QED BY <2>7, <3>1
    <2>9. y < p
        <3>1. g * y \in Nat
            BY <2>7
        <3> QED BY <2>2, <2>6, <2>7, <2>8, <3>1
    <2>10. q[i] = y
        BY <1>4, <2>2
    <2> QED BY <2>1, <2>3, <2>5, <2>9, <2>10
<1>7. W \in T
    <2>1. \A i \in 0..W : i \in T
        <3> HIDE DEF T
        <3> QED BY <1>3, <1>5, <1>6, Stepwise
    <2> HIDE DEF T
    <2> QED BY <1>3, <2>1
<1>8. q[W] = 0
    <2>1. q[W] \in Nat /\ W - W = 0
        BY <1>3, <1>4
    <2>2. q[W] < 1
        BY <1>7, <2>1, Pow2Exists
    <2> QED BY <2>1, <2>2
<1> QED BY <1>1, <1>2, <1>4, <1>8

(* How a number is written. *)
Written(v, q, l, s) ==
    /\ l \in 1..W
    /\ q \in [0..W -> Nat]
    /\ q[0] = v
    /\ \A i \in 1..W : q[i] = q[i - 1] \div Group
    /\ q[l] = 0
    /\ \A i \in 1..(l - 1) : q[i] # 0
    /\ s \in Seq(Byte)
    /\ Len(s) = l
    /\ \A i \in 1..l : s[i] = (q[l - i] % Group) + (IF i < l THEN Group ELSE 0)

LEMMA Base128Written ==
    ASSUME NEW v \in Words
    PROVE  Written(v, Shifts(v, Group, W), Groups(v), Base128(v))
<1>1. PICK g \in Nat \ {0} : g = Group /\ g >= 2 /\ Byte = 0..(2 * g - 1)
    BY GroupSize
<1>2. PICK q : q = Shifts(v, Group, W)
    OBVIOUS
<1>3. /\ q \in [0..W -> Nat] /\ q[0] = v /\ q[W] = 0
      /\ \A i \in 1..W : q[i] = q[i - 1] \div Group
    BY <1>2, GroupShifts
<1>4. PICK l : l = Groups(v)
    OBVIOUS
<1>5. W \in Nat \ {0}
    BY WordSize
<1>6. l \in 1..W /\ q[l] = 0 /\ \A i \in 1..(l - 1) : q[i] # 0
    <2> DEFINE T == {n \in 1..W : q[n] = 0}
    <2>1. T \in SUBSET Nat /\ W \in T
        BY <1>3, <1>5
    <2>2. l = Min(T)
        BY <1>2, <1>4 DEF Groups
    <2>3. l \in T /\ \A n \in T : l <= n
        <3> HIDE DEF T
        <3>1. T # {}
            BY <2>1
        <3> QED BY <2>1, <2>2, <3>1, MinIsSmallest
    <2>4. l \in 1..W /\ q[l] = 0
        BY <2>3
    <2>5. ASSUME NEW i \in 1..(l - 1) PROVE q[i] # 0
        <3>1. i \in 1..W /\ ~(l <= i)
            BY <1>5, <2>4
        <3> QED BY <2>3, <3>1
    <2> QED BY <2>4, <2>5
<1>7. PICK s : s = [i \in 1..l |-> (q[l - i] % Group) + (IF i < l THEN Group ELSE 0)]
    OBVIOUS
<1>8. s = Base128(v)
    BY <1>2, <1>4, <1>7 DEF Base128
<1>9. l \in Nat
    BY <1>5, <1>6
<1>10. \A i \in 1..l : s[i] \in 0..(2 * g - 1)
    <2> TAKE i \in 1..l
    <2>1. PICK x \in Nat : x = q[l - i]
        <3>1. l - i \in 0..W
            BY <1>5, <1>6
        <3> QED BY <1>3, <3>1
    <2>2. PICK r \in 0..(g - 1) : r = x % g
        <3>1. x % g \in 0..(g - 1)
            BY Division
        <3> QED BY <3>1
    <2>3. s[i] = r + (IF i < l THEN g ELSE 0)
        BY <1>1, <1>7, <2>1, <2>2
    <2> QED BY <2>3
<1>11. s \in Seq(Byte) /\ Len(s) = l
    <2>1. s \in [1..l -> Byte]
        BY <1>1, <1>7, <1>10
    <2> HIDE DEF Byte
    <2> QED BY <1>9, <2>1, SeqDef, LenProperties
<1> QED BY <1>2, <1>3, <1>4, <1>6, <1>7, <1>8, <1>11 DEF Written

(* What was written is read, *)
LEMMA Base128Read ==
    ASSUME NEW v \in Words, NEW tail \in Seq(Byte)
    PROVE  ParseBase128(Base128(v) \o tail) = {[value |-> v, rest |-> tail]}
<1>1. PICK g \in Nat \ {0} : g = Group /\ g >= 2
    BY GroupSize
<1>2. PICK q, l, s : /\ q = Shifts(v, Group, W) /\ l = Groups(v) /\ s = Base128(v)
                     /\ Written(v, q, l, s)
    BY Base128Written
<1>3. PICK in : in = s \o tail
    OBVIOUS
<1>4. /\ l \in 1..W /\ l \in Nat /\ q \in [0..W -> Nat] /\ q[0] = v /\ q[l] = 0
      /\ \A i \in 1..W : q[i] = q[i - 1] \div g
      /\ \A i \in 1..(l - 1) : q[i] # 0
      /\ s \in Seq(Byte) /\ Len(s) = l
      /\ \A i \in 1..l : s[i] = (q[l - i] % g) + (IF i < l THEN g ELSE 0)
    BY <1>1, <1>2, WordSize DEF Written
<1>5. PICK n \in Nat : n = Len(in)
    <2>1. in \in Seq(Byte)
        BY <1>3, <1>4, ConcatProperties
    <2> QED BY <2>1, LenProperties
<1>6. /\ in \in Seq(Byte) /\ in \in Seq(Nat) /\ l <= n /\ DOMAIN in = 1..n
      /\ \A i \in 1..l : in[i] = s[i]
    <2>1. PICK m \in Nat : m = Len(tail)
        BY LenProperties
    <2>2. in \in Seq(Byte) /\ n = l + m /\ \A i \in 1..(l + m) : i <= l => in[i] = s[i]
        <3>1. /\ s \o tail \in Seq(Byte) /\ Len(s \o tail) = Len(s) + Len(tail)
              /\ \A i \in 1..(Len(s) + Len(tail)) :
                     (s \o tail)[i] = IF i <= Len(s) THEN s[i] ELSE tail[i - Len(s)]
            <4>1. s \in Seq(Byte) /\ tail \in Seq(Byte)
                BY <1>4
            <4> QED BY ONLY <4>1, ConcatProperties
        <3> QED BY <1>3, <1>4, <1>5, <2>1, <3>1
    <2>3. DOMAIN in = 1..n
        BY <1>5, <2>2, LenProperties
    <2>4. l <= n /\ \A i \in 1..l : i \in 1..(l + m) /\ i <= l
        BY <1>4, <2>2
    <2> QED BY <2>2, <2>3, <2>4, BytesAreNumbers
<1>7. ASSUME NEW i \in 1..l
      PROVE  /\ in[i] % g = q[l - i] % g
             /\ More(in[i]) <=> i < l
             /\ i = 1 => in[i] # g
    <2>1. l - i \in 0..W
        BY <1>4, WordSize
    <2>2. PICK x \in Nat, r \in 0..(g - 1) : x = q[l - i] /\ r = x % g
        <3>1. PICK x \in Nat : x = q[l - i]
            BY <1>4, <2>1
        <3>2. x % g \in 0..(g - 1)
            BY Division
        <3> QED BY <3>1, <3>2
    <2>3. in[i] = r + (IF i < l THEN g ELSE 0)
        BY <1>4, <1>6, <2>2
    <2>4. in[i] % g = r
        <3>1. CASE i < l
            <4>1. in[i] = g * 1 + r
                BY <2>3, <3>1
            <4> QED BY <4>1, QuotientAndRemainder
        <3>2. CASE ~(i < l)
            <4>1. in[i] = g * 0 + r
                BY <2>3, <3>2
            <4> QED BY <4>1, QuotientAndRemainder
        <3> QED BY <3>1, <3>2
    <2>5. More(in[i]) <=> i < l
        BY <1>1, <2>3 DEF More
    <2>6. ASSUME i = 1 PROVE in[i] # g
        <3>1. CASE l = 1
            BY <2>3, <2>6, <3>1
        <3>2. CASE l # 1
            <4>1. i < l /\ l - i \in 1..(l - 1) /\ (l - i) + 1 = l
                BY <1>4, <2>6, <3>2
            <4>2. x # 0
                BY <1>4, <2>2, <4>1
            <4>3. x \div g = 0
                <5>1. q[l] = q[l - 1] \div g
                    BY <1>4
                <5> QED BY <1>4, <2>2, <2>6, <5>1
            <4>4. r # 0
                <5>1. PICK d : d = x \div g
                    OBVIOUS
                <5>2. x = g * d + r
                    BY <2>2, <5>1, Division
                <5>3. d = 0 /\ g * 0 = 0
                    BY <4>3, <5>1
                <5> QED BY <4>2, <5>2, <5>3
            <4> QED BY <2>3, <4>1, <4>4
        <3> QED BY <3>1, <3>2
    <2> QED BY <2>2, <2>4, <2>5, <2>6
<1>8. PICK ret : ret = Reads(in, Group)
    OBVIOUS
<1>9. \A i \in 0..l : ret[i] = q[l - i]
    <2>1. ShiftsToNothing(q, g, l)
        <3>1. \A i \in 0..l : i \in 0..W
            BY <1>4, WordSize
        <3>2. \A i \in 1..l : i \in 1..W
            BY <1>4, WordSize
        <3> QED BY <1>4, <3>1, <3>2 DEF ShiftsToNothing
    <2>2. LastDigits(q, in, g, l)
        BY <1>7 DEF LastDigits
    <2>3. l \in Nat /\ l <= Len(in)
        BY <1>4, <1>5, <1>6
    <2>4. ReadsBack(q, in, g, l)
        BY <1>6, <2>1, <2>2, <2>3, DigitsRead
    <2> QED BY <1>1, <1>8, <2>4 DEF ReadsBack
<1>10. \A i \in 0..W : q[i] <= v
    <2> DEFINE T == {x \in Nat : x <= v}
    <2>1. q[0] \in T
        BY <1>4, WordSize
    <2>2. ASSUME NEW i \in 1..W, q[i - 1] \in T PROVE q[i] \in T
        <3>1. PICK x, y : x = q[i - 1] /\ x \in Nat /\ y = x \div g
            BY <2>2
        <3>2. y \in Nat /\ y <= x
            <4>1. y \in Nat /\ x % g \in 0..(g - 1) /\ x = g * y + (x % g)
                BY <3>1, Division
            <4>2. y * 1 <= y * g
                BY <4>1, ProductsAscend
            <4>3. g * y \in Nat
                BY <4>1
            <4> QED BY <3>1, <4>1, <4>2, <4>3
        <3>3. x <= v /\ q[i] = y
            BY <1>4, <2>2, <3>1
        <3>4. v \in Nat
            BY WordSize
        <3> QED BY <3>1, <3>2, <3>3, <3>4
    <2>3. \A i \in 0..W : q[i] \in T
        <3> HIDE DEF T
        <3>1. W \in Nat
            BY WordSize
        <3> QED BY <2>1, <2>2, <3>1, Throughout
    <2> QED BY <2>3
<1>11. \A i \in 0..(l - 1) : ret[i] * g < Pow2[W]
    <2> TAKE i \in 0..(l - 1)
    <2>1. PICK j : j = l - i
        OBVIOUS
    <2>2. i \in 0..l /\ j \in 1..W /\ j - 1 \in 0..W /\ j \in 0..W
        BY <1>4, <2>1, WordSize
    <2>3. PICK x, y : x = q[j - 1] /\ x \in Nat /\ y = x \div g
        <3>1. q[j - 1] \in Nat
            BY <1>4, <2>2
        <3> QED BY <3>1
    <2>4. y \in Nat /\ x % g \in 0..(g - 1) /\ x = g * y + (x % g)
        BY <2>3, Division
    <2>5. ret[i] = y
        BY <1>4, <1>9, <2>1, <2>2, <2>3
    <2>6. x <= v
        BY <1>10, <2>2, <2>3
    <2>7. v < Pow2[W] /\ v \in Nat /\ Pow2[W] \in Nat
        BY WordSize DEF Words
    <2>8. g * y \in Nat /\ y * g = g * y
        BY <2>4
    <2> QED BY <2>4, <2>5, <2>6, <2>7, <2>8
<1> DEFINE ends == {k \in DOMAIN in : ~More(in[k])}
           last == {m \in ends : /\ \A k \in ends : m <= k
                                 /\ \A i \in 0..(m - 1) : ret[i] * Group < Pow2[W]}
<1>12. last = {l}
    <2>1. l \in ends
        BY <1>4, <1>6, <1>7
    <2>2. ASSUME NEW k \in ends PROVE l <= k
        <3>1. k \in 1..n /\ ~More(in[k])
            BY <1>6
        <3>2. CASE k < l
            <4>1. k \in 1..l
                BY <1>4, <3>1, <3>2
            <4> QED BY <1>7, <3>1, <3>2, <4>1
        <3> QED BY <1>4, <3>1, <3>2
    <2>3. l \in last
        BY <1>1, <1>11, <2>1, <2>2
    <2>4. \A m \in last : m <= l /\ l <= m
        BY <2>1, <2>2
    <2>5. \A m \in last : m \in Nat
        BY <1>6
    <2> HIDE DEF last
    <2>6. \A m \in last : m = l
        BY <1>4, <2>4, <2>5
    <2> QED BY <2>3, <2>6
<1>13. ReadGroups(in) = {[value |-> ret[m], rest |-> SubSeq(in, m + 1, Len(in))] : m \in last}
    BY <1>8 DEF ReadGroups
<1>14. SubSeq(in, l + 1, Len(in)) = tail
    BY <1>3, <1>4, ConcatParts
<1>15. ret[l] = v
    <2>1. l \in 0..l /\ l - l = 0
        BY <1>4
    <2> QED BY <1>4, <1>9, <2>1
<1>16. ReadGroups(in) = {[value |-> v, rest |-> tail]}
    <2> HIDE DEF last
    <2> QED BY <1>12, <1>13, <1>14, <1>15
<1>17. in[1] # Group
    <2>1. 1 \in 1..l
        BY <1>4
    <2> QED BY <1>1, <1>7, <2>1
<1> QED BY <1>2, <1>3, <1>16, <1>17 DEF ParseBase128

(* and what is read was written so. *)
LEMMA Base128Reread ==
    ASSUME NEW in \in Seq(Byte), NEW read \in ParseBase128(in)
    PROVE  /\ read = [value |-> read.value, rest |-> read.rest]
           /\ read.value \in Words
           /\ read.rest \in Seq(Byte)
           /\ Len(read.rest) < Len(in)
           /\ Base128(read.value) \o read.rest = in
<1>1. PICK g \in Nat \ {0} : g = Group /\ g >= 2 /\ Byte = 0..(2 * g - 1)
    BY GroupSize
<1>2. PICK m \in Nat : m = Len(in)
    BY LenProperties
<1>3. PICK ret : ret = Reads(in, Group)
    OBVIOUS
<1> DEFINE ends == {k \in DOMAIN in : ~More(in[k])}
           last == {k \in ends : /\ \A j \in ends : k <= j
                                 /\ \A i \in 0..(k - 1) : ret[i] * Group < Pow2[W]}
<1>4. PICK n \in last : read = [value |-> ret[n], rest |-> SubSeq(in, n + 1, Len(in))]
    <2>1. read \in ReadGroups(in)
        BY DEF ParseBase128
    <2>2. ReadGroups(in) = {[value |-> ret[k], rest |-> SubSeq(in, k + 1, Len(in))] : k \in last}
        BY <1>3 DEF ReadGroups
    <2> HIDE DEF last
    <2> QED BY <2>1, <2>2
<1>5. /\ n \in 1..m /\ n \in Nat
      /\ ~More(in[n])
      /\ \A i \in 1..(n - 1) : More(in[i])
      /\ \A i \in 0..(n - 1) : ret[i] * g < Pow2[W]
    <2>1. DOMAIN in = 1..m
        BY <1>2, LenProperties
    <2>2. ASSUME NEW i \in 1..(n - 1) PROVE More(in[i])
        <3>1. i \in 1..m /\ ~(n <= i)
            BY <2>1
        <3> QED BY <2>1, <3>1
    <2> QED BY <1>1, <2>1, <2>2
<1> HIDE DEF last, ends
<1>6. in \in Seq(Nat) /\ \A i \in 1..m : in[i] \in Byte /\ in[i] \in Nat
    BY <1>2, ElementOfSeq, BytesAreNumbers
<1>7. /\ ret \in [0..m -> Nat] /\ ret[0] = 0
      /\ \A i \in 1..m : ret[i] = ret[i - 1] * g + (in[i] % g)
    <2>1. /\ Reads(in, g) \in [0..m -> Nat] /\ Reads(in, g)[0] = 0
          /\ \A i \in 1..m : Reads(in, g)[i] = Reads(in, g)[i - 1] * g + (in[i] % g)
        BY <1>2, <1>6, ReadsDef
    <2> QED BY <1>1, <1>3, <2>1
<1>8. PICK v : v = ret[n]
    OBVIOUS
<1>9. v \in Words
    <2>1. PICK c \in Nat : Pow2[W] = g * c
        BY <1>1, GroupSize
    <2>2. n - 1 \in 0..m /\ n - 1 \in 0..(n - 1)
        BY <1>5
    <2>3. PICK x \in Nat : x = ret[n - 1]
        BY <1>7, <2>2
    <2>4. PICK r \in 0..(g - 1) : r = in[n] % g
        <3>1. PICK d \in Nat : d = in[n]
            BY <1>5, <1>6
        <3>2. d % g \in 0..(g - 1)
            BY Division
        <3> QED BY <3>1, <3>2
    <2>5. v = x * g + r
        BY <1>5, <1>7, <1>8, <2>3, <2>4
    <2>6. x * g < g * c
        BY <1>5, <2>1, <2>2, <2>3
    <2>7. x + 1 <= c
        <3>1. CASE c <= x
            <4>1. g * c <= g * x
                BY <3>1, ProductsAscend
            <4>2. g * x = x * g /\ g * x \in Nat /\ g * c \in Nat
                OBVIOUS
            <4> QED BY <2>6, <4>1, <4>2
        <3>2. CASE ~(c <= x)
            BY <3>2
        <3> QED BY <3>1, <3>2
    <2>8. g * (x + 1) <= g * c
        BY <2>7, ProductsAscend
    <2>9. x * g + r < g * (x + 1) /\ x * g + r \in Nat /\ g * (x + 1) \in Nat /\ g * c \in Nat
        <3>1. g * (x + 1) = x * g + g /\ x * g \in Nat /\ g * c \in Nat
            OBVIOUS
        <3> QED BY <3>1
    <2>10. v \in Nat /\ v < Pow2[W] /\ Pow2[W] \in Nat
        BY <2>1, <2>5, <2>8, <2>9
    <2> QED BY <2>10 DEF Words
<1>10. PICK q, l, s : /\ q = Shifts(v, Group, W) /\ l = Groups(v) /\ s = Base128(v)
                      /\ Written(v, q, l, s)
    BY <1>9, Base128Written
<1>11. /\ l \in 1..W /\ l \in Nat /\ q \in [0..W -> Nat] /\ q[0] = v /\ q[l] = 0
       /\ \A i \in 1..W : q[i] = q[i - 1] \div g
       /\ \A i \in 1..(l - 1) : q[i] # 0
       /\ s \in Seq(Byte) /\ Len(s) = l
       /\ \A i \in 1..l : s[i] = (q[l - i] % g) + (IF i < l THEN g ELSE 0)
    BY <1>1, <1>10, WordSize DEF Written
(* The first group is not empty unless it is the only one. *)
<1>12. n > 1 => \A i \in 1..n : ret[i] # 0
    <2> SUFFICES ASSUME n > 1 PROVE \A i \in 1..n : ret[i] # 0
        OBVIOUS
    <2>1. in[1] \in Byte /\ More(in[1]) /\ in[1] # g
        <3>1. 1 \in 1..m /\ 1 \in 1..(n - 1) /\ in # <<>>
            BY <1>2, <1>5, EmptySeq
        <3> QED BY <1>1, <1>5, <1>6, <3>1 DEF ParseBase128
    <2>2. PICK d \in 1..(g - 1) : in[1] = g * 1 + d
        <3>1. in[1] - g \in 1..(g - 1) /\ in[1] = g * 1 + (in[1] - g)
            BY <1>1, <2>1 DEF More
        <3> QED BY <3>1
    <2>3. in[1] % g = d
        BY <2>2, QuotientAndRemainder
    <2>4. ret[1] = d
        <3>1. 1 \in 1..m /\ ret[1 - 1] = 0
            BY <1>5, <1>7
        <3>2. 0 * g = 0
            OBVIOUS
        <3> QED BY <1>7, <2>3, <3>1, <3>2
    <2> DEFINE T == {i \in 0..n : i = 0 \/ ret[i] # 0}
    <2>5. 0 \in T
        BY <1>5
    <2>6. ASSUME NEW i \in 1..n, i - 1 \in T PROVE i \in T
        <3>1. CASE i = 1
            BY <2>4, <3>1
        <3>2. CASE i # 1
            <4>1. i - 1 \in 0..m /\ i \in 1..m /\ i \in 0..n
                BY <1>5
            <4>2. PICK x \in Nat : x = ret[i - 1]
                BY <1>7, <4>1
            <4>3. PICK r \in Nat : r = in[i] % g
                <5>1. PICK y \in Nat : y = in[i]
                    BY <1>6, <4>1
                <5>2. y % g \in 0..(g - 1)
                    BY Division
                <5> QED BY <5>1, <5>2
            <4>4. x # 0
                BY <2>6, <3>2, <4>2
            <4>5. ret[i] = x * g + r
                BY <1>7, <4>1, <4>2, <4>3
            <4>6. g * 1 <= g * x
                BY <4>4, ProductsAscend
            <4>7. x * g = g * x /\ g * x \in Nat
                OBVIOUS
            <4> QED BY <4>1, <4>5, <4>6, <4>7
        <3> QED BY <3>1, <3>2
    <2>7. \A i \in 0..n : i \in T
        <3> HIDE DEF T
        <3> QED BY <1>5, <2>5, <2>6, Stepwise
    <2> QED BY <2>7
<1>13. \A i \in 0..n : i <= W => q[i] = ret[n - i]
    <2>1. PICK p : p = Shifts(v, g, n)
        OBVIOUS
    <2>2. p[0] = v /\ \A i \in 1..n : p[i] = p[i - 1] \div g
        <3>1. PICK x \in Nat : x = v
            BY <1>9, WordSize
        <3>2. /\ Shifts(x, g, n)[0] = x
              /\ \A i \in 1..n : Shifts(x, g, n)[i] = Shifts(x, g, n)[i - 1] \div g
            <4>1. PICK k \in Nat : k = n
                BY <1>5
            <4>2. /\ Shifts(x, g, k)[0] = x
                  /\ \A i \in 1..k : Shifts(x, g, k)[i] = Shifts(x, g, k)[i - 1] \div g
                BY ShiftsDef
            <4> QED BY <4>1, <4>2
        <3> QED BY <2>1, <3>1, <3>2
    <2>3. \A i \in 0..n : p[i] = ret[n - i]
        <3>1. /\ g \in Nat \ {0} /\ in \in Seq(Nat) /\ n \in 0..Len(in)
              /\ p[0] = Reads(in, g)[n]
              /\ \A i \in 1..n : p[i] = p[i - 1] \div g
            BY <1>1, <1>2, <1>3, <1>5, <1>6, <1>8, <2>2
        <3>2. ShiftsBack(p, in, g, n)
            BY ONLY <3>1, ReadNumberShifts
        <3> QED BY <1>1, <1>3, <3>2 DEF ShiftsBack
    <2> DEFINE T == {i \in 0..n : i <= W => q[i] = p[i]}
    <2>4. 0 \in T
        BY <1>5, <1>11, <2>2
    <2>5. ASSUME NEW i \in 1..n, i - 1 \in T PROVE i \in T
        <3>1. i \in 0..n
            BY <1>5
        <3>2. ASSUME i <= W PROVE q[i] = p[i]
            <4>1. i \in 1..W /\ i - 1 <= W
                BY <3>2, WordSize
            <4> QED BY <1>11, <2>2, <2>5, <4>1
        <3> QED BY <3>1, <3>2
    <2>6. \A i \in 0..n : i \in T
        <3> HIDE DEF T
        <3> QED BY <1>5, <2>4, <2>5, Stepwise
    <2> QED BY <2>3, <2>6
<1>14. n <= l
    <2> SUFFICES ASSUME l < n PROVE FALSE
        BY <1>5, <1>11
    <2>1. l \in 0..n /\ l <= W /\ n - l \in 1..n /\ n > 1
        BY <1>5, <1>11, WordSize
    <2>2. ret[n - l] = 0
        BY <1>11, <1>13, <2>1
    <2> QED BY <1>12, <2>1, <2>2
<1>15. n = l
    <2>1. q[n] = ret[0]
        <3>1. n \in 0..n /\ n <= W /\ n - n = 0
            BY <1>5, <1>11, <1>14, WordSize
        <3> QED BY <1>13, <3>1
    <2>2. CASE n < l
        <3>1. n \in 1..(l - 1)
            BY <1>5, <1>11, <2>2
        <3> QED BY <1>7, <1>11, <2>1, <3>1
    <2> QED BY <1>5, <1>11, <1>14, <2>2
<1>16. \A i \in 1..n : s[i] = in[i]
    <2> TAKE i \in 1..n
    <2>1. n - i \in 0..n /\ n - i <= W /\ n - (n - i) = i /\ i \in 0..m /\ i \in 1..m /\ i - 1 \in 0..m
        <3>1. n \in Nat /\ m \in Nat /\ W \in Nat /\ n <= m /\ n <= W
            BY <1>5, <1>11, <1>15, WordSize
        <3> QED BY <3>1
    <2>2. q[n - i] = ret[i]
        BY <1>13, <2>1
    <2>3. PICK x \in Nat, r \in 0..(g - 1) : x = ret[i - 1] /\ r = in[i] % g
        <3>1. PICK x \in Nat : x = ret[i - 1]
            BY <1>7, <2>1
        <3>2. PICK d \in Nat : d = in[i]
            BY <1>6, <2>1
        <3>3. d % g \in 0..(g - 1)
            BY Division
        <3> QED BY <3>1, <3>2, <3>3
    <2>4. q[n - i] = g * x + r
        BY <1>7, <2>1, <2>2, <2>3
    <2>5. q[n - i] % g = r
        BY <2>4, QuotientAndRemainder
    <2>6. s[i] = r + (IF i < n THEN g ELSE 0)
        BY <1>11, <1>15, <2>5
    <2>7. More(in[i]) <=> i < n
        BY <1>5
    <2>8. PICK d \in 0..(2 * g - 1) : d = in[i]
        BY <1>1, <1>6, <2>1
    <2>9. CASE d >= g
        <3>1. PICK e \in 0..(g - 1) : d = g * 1 + e
            <4>1. d - g \in 0..(g - 1) /\ d = g * 1 + (d - g)
                BY <2>9
            <4> QED BY <4>1
        <3>2. d % g = e
            BY <3>1, QuotientAndRemainder
        <3>3. r = e
            BY <2>3, <2>8, <3>2
        <3>4. i < n
            BY <1>1, <2>7, <2>8, <2>9 DEF More
        <3>5. s[i] = e + g
            BY <2>6, <3>3, <3>4
        <3> QED BY <2>8, <3>1, <3>5
    <2>10. CASE ~(d >= g)
        <3>1. d \in 0..(g - 1) /\ d = g * 0 + d
            BY <2>10
        <3>2. (g * 0 + d) % g = d
            BY <3>1, QuotientAndRemainder
        <3>3. r = d
            BY <2>3, <2>8, <3>1, <3>2
        <3>4. ~(i < n)
            BY <1>1, <2>7, <2>8, <2>10 DEF More
        <3>5. s[i] = d + 0
            BY <2>6, <3>3, <3>4
        <3> QED BY <2>8, <3>5
    <2> QED BY <2>9, <2>10
<1>17. PICK rest : rest = SubSeq(in, n + 1, Len(in))
    OBVIOUS
<1>18. /\ SubSeq(in, 1, n) \in Seq(Byte) /\ Len(SubSeq(in, 1, n)) = n
       /\ \A i \in 1..n : SubSeq(in, 1, n)[i] = in[i]
       /\ rest \in Seq(Byte) /\ Len(rest) = m - n
       /\ SubSeq(in, 1, n) \o rest = in
    <2>1. n \in 0..Len(in)
        BY <1>2, <1>5
    <2> QED BY <1>2, <1>17, <2>1, SplitAt
<1>19. SubSeq(in, 1, n) = s
    BY <1>11, <1>15, <1>16, <1>18, SeqEqual
<1>20. read = [value |-> v, rest |-> rest] /\ read.value = v /\ read.rest = rest
    BY <1>4, <1>8, <1>17
<1>21. Len(rest) < Len(in)
    BY <1>2, <1>5, <1>18
<1>22. Base128(v) \o rest = in
    BY <1>10, <1>18, <1>19
<1>23. rest \in Seq(Byte)
    BY <1>18
<1> QED BY <1>9, <1>20, <1>21, <1>22, <1>23

-----------------------------------------------------------------------------
(* Trust anchor ids *)

LEMMA Base128Bytes ==
    ASSUME NEW v \in Words
    PROVE  Base128(v) \in Seq(Byte) /\ Len(Base128(v)) \in Nat \ {0}
<1>1. Written(v, Shifts(v, Group, W), Groups(v), Base128(v))
    BY Base128Written
<1> QED BY <1>1, WordSize DEF Written

LEMMA WordsAreNumbers == Seq(Words) \subseteq Seq(Nat) /\ 0 \in Words /\ 1 \in Words
<1>1. ASSUME NEW z \in Seq(Words) PROVE z \in Seq(Nat)
    <2>1. PICK k \in Nat : z \in [1..k -> Words]
        BY SeqDef
    <2>2. z \in [1..k -> Nat]
        BY <2>1, WordSize
    <2> QED BY <2>2, SeqDef
<1>2. Pow2[W] > 1 /\ Pow2[W] \in Nat
    <2>1. 0 \in 0..W /\ W \in 0..W /\ 0 < W
        BY WordSize
    <2>2. Pow2[0] < Pow2[W]
        BY <2>1, PowersAscend
    <2> QED BY <2>2, WordSize, Pow2Exists
<1>3. 0 \in Words /\ 1 \in Words
    BY <1>2 DEF Words
<1> QED BY <1>1, <1>3

IdWritten(numbers) == [i \in DOMAIN numbers |-> Base128(numbers[i])]

LEMMA IdAppend ==
    ASSUME NEW numbers \in Seq(Words), NEW v \in Words
    PROVE  /\ IdWritten(numbers) \in Seq(Seq(Byte))
           /\ ParseTrustAnchorID(<<>>) = <<>>
           /\ ParseTrustAnchorID(numbers) \in Seq(Byte)
           /\ ParseTrustAnchorID(Append(numbers, v)) = AppendBase128(ParseTrustAnchorID(numbers), v)
<1>1. PICK f : f = [w \in Words |-> Base128(w)]
    OBVIOUS
<1>2. f \in [Words -> Seq(Byte)] /\ f[v] = Base128(v)
    BY <1>1, Base128Bytes
<1>3. MapsAndFlattens(Byte, f, numbers, v)
    BY <1>2, FlattenMapped
<1>4. ASSUME NEW ns \in Seq(Words) PROVE IdWritten(ns) = [i \in DOMAIN ns |-> f[ns[i]]]
    <2>1. \A i \in DOMAIN ns : ns[i] \in Words
        BY LenProperties, ElementOfSeq
    <2> QED BY <1>1, <2>1 DEF IdWritten
<1>5. Append(numbers, v) \in Seq(Words)
    BY AppendProperties
<1>6. ParseTrustAnchorID(<<>>) = <<>>
    <2>1. [i \in DOMAIN <<>> |-> Base128(<<>>[i])] = <<>>
        OBVIOUS
    <2>2. <<>> \in Seq(Seq(Byte)) /\ <<>> \in Seq(Byte)
        BY EmptySeq
    <2>3. FlattenSeq(<<>>) = <<>>
        BY <2>2, FlattenAppend
    <2> QED BY <2>1, <2>3 DEF ParseTrustAnchorID
<1> QED BY <1>2, <1>3, <1>4, <1>5, <1>6
        DEF MapsAndFlattens, IdWritten, ParseTrustAnchorID, AppendBase128

(* What prints of an id parses to it. *)
LEMMA PrintedIdParses ==
    ASSUME NEW t \in Seq(Byte), NEW numbers \in Numbers(t)
    PROVE  /\ numbers \in Seq(Words) /\ numbers # <<>>
           /\ ParseTrustAnchorID(numbers) = t
<1> DEFINE States == [rest : Seq(Byte), numbers : Seq(Nat)]
           State  == {s \in States : /\ s.numbers \in Seq(Words)
                                     /\ ParseTrustAnchorID(s.numbers) \o s.rest = t
                                     /\ s.numbers = <<>> => s.rest # <<>>}
           first  == [rest |-> t, numbers |-> <<>>]
<1>1. t # <<>> /\ \E s \in WhileRest(PrintNumber, first) : numbers = s.numbers
    BY DEF Numbers
<1>2. first \in State
    <2>1. <<>> \in Seq(Words) /\ <<>> \in Seq(Nat)
        BY EmptySeq
    <2>2. 0 \in Words
        BY WordSize DEF Words
    <2>3. ParseTrustAnchorID(<<>>) = <<>>
        BY <2>1, <2>2, IdAppend
    <2>4. <<>> \o t = t
        BY ConcatEmptySeq
    <2> QED BY <1>1, <2>1, <2>3, <2>4
<1>3. ASSUME NEW s \in State, s.rest # <<>>
      PROVE  PrintNumber[s] \subseteq State /\ \A x \in PrintNumber[s] : Len(x.rest) < Len(s.rest)
    <2>1. s \in States /\ s.rest \in Seq(Byte) /\ s.numbers \in Seq(Words)
        OBVIOUS
    <2> SUFFICES ASSUME NEW x \in PrintNumber[s] PROVE x \in State /\ Len(x.rest) < Len(s.rest)
        OBVIOUS
    <2>2. PICK read \in ParseBase128(s.rest) :
              x = [rest |-> read.rest, numbers |-> Append(s.numbers, read.value)]
        BY <2>1 DEF PrintNumber
    <2>3. PICK v, r : v = read.value /\ r = read.rest
        OBVIOUS
    <2>4. /\ v \in Words /\ r \in Seq(Byte) /\ Len(r) < Len(s.rest)
          /\ Base128(v) \o r = s.rest
        BY <2>1, <2>3, Base128Reread
    <2>5. PICK more : more = Append(s.numbers, v)
        OBVIOUS
    <2>6. more \in Seq(Words) /\ more # <<>> /\ more \in Seq(Nat)
        <3>1. more \in Seq(Words) /\ more # <<>>
            BY <2>1, <2>4, <2>5, AppendProperties
        <3>2. \A z \in Seq(Words) : z \in Seq(Nat)
            <4> TAKE z \in Seq(Words)
            <4>1. PICK k \in Nat : z \in [1..k -> Words]
                BY SeqDef
            <4>2. z \in [1..k -> Nat]
                BY <4>1, WordSize
            <4> QED BY <4>2, SeqDef
        <3> QED BY <3>1, <3>2
    <2>7. ParseTrustAnchorID(more) \o r = t
        <3>1. PICK a, b : a = ParseTrustAnchorID(s.numbers) /\ b = Base128(v)
            OBVIOUS
        <3>2. a \in Seq(Byte) /\ b \in Seq(Byte) /\ r \in Seq(Byte)
            BY <2>1, <2>4, <3>1, IdAppend, Base128Bytes
        <3>3. (a \o b) \o r = a \o (b \o r)
            <4>1. Regroups(a, b, r)
                BY <3>2, Regroup
            <4> QED BY <4>1 DEF Regroups
        <3>4. ParseTrustAnchorID(more) = a \o b
            BY <2>1, <2>4, <2>5, <3>1, IdAppend DEF AppendBase128
        <3>5. a \o s.rest = t
            BY <3>1
        <3> QED BY <2>4, <3>1, <3>3, <3>4, <3>5
    <2>8. x = [rest |-> r, numbers |-> more] /\ x.rest = r /\ x.numbers = more
        BY <2>2, <2>3, <2>5
    <2>9. x \in States
        BY <2>4, <2>6, <2>8
    <2> QED BY <2>4, <2>6, <2>7, <2>8, <2>9
<1>4. \A s \in State : s.rest \in Seq(Byte)
    OBVIOUS
<1> HIDE DEF State, first
<1>5. \A s \in WhileRest(PrintNumber, first) : s \in State /\ s.rest = <<>>
    BY <1>2, <1>3, <1>4, LoopEnds
<1>6. PICK s \in State : s.rest = <<>> /\ numbers = s.numbers
    BY <1>1, <1>5
<1>7. /\ numbers \in Seq(Words) /\ numbers # <<>>
      /\ ParseTrustAnchorID(numbers) \o <<>> = t
    BY <1>6 DEF State
<1>8. ParseTrustAnchorID(numbers) \in Seq(Byte)
    <2>1. 0 \in Words
        BY WordSize DEF Words
    <2> QED BY <1>7, <2>1, IdAppend
<1> QED BY <1>7, <1>8, ConcatEmptySeq

Prints(v, r, numbers) ==
    PrintNumber[[rest |-> Base128(v) \o r, numbers |-> numbers]]
        = {[rest |-> r, numbers |-> Append(numbers, v)]}

(* One turn of the loop reads the number in front. *)
LEMMA PrintsOne ==
    ASSUME NEW v \in Words, NEW r \in Seq(Byte), NEW numbers \in Seq(Words)
    PROVE  Prints(v, r, numbers)
<1>1. PICK s : s = [rest |-> Base128(v) \o r, numbers |-> numbers]
    OBVIOUS
<1>2. Base128(v) \o r \in Seq(Byte)
    <2>1. Base128(v) \in Seq(Byte)
        BY Base128Bytes
    <2> QED BY <2>1, ConcatProperties
<1>3. s \in [rest : Seq(Byte), numbers : Seq(Nat)]
    BY <1>1, <1>2, WordsAreNumbers
<1>4. PrintNumber[s] = {[rest |-> read.rest, numbers |-> Append(s.numbers, read.value)] :
                            read \in ParseBase128(s.rest)}
    BY <1>3 DEF PrintNumber
<1>5. ParseBase128(s.rest) = {[value |-> v, rest |-> r]} /\ s.numbers = numbers
    BY <1>1, Base128Read
<1>6. PrintNumber[s] = {[rest |-> r, numbers |-> Append(numbers, v)]}
    BY <1>4, <1>5
<1> QED BY <1>1, <1>6 DEF Prints

(* What parses to an id is what prints of it. *)
LEMMA ParsedIdPrints ==
    ASSUME NEW numbers \in Seq(Words), numbers # <<>>
    PROVE  Numbers(ParseTrustAnchorID(numbers)) = {numbers}
<1>1. PICK m \in Nat : m = Len(numbers) /\ DOMAIN numbers = 1..m
    BY LenProperties
<1>2. m # 0
    BY <1>1, EmptySeq
<1>3. PICK parts : parts = [i \in DOMAIN numbers |-> Base128(numbers[i])]
    OBVIOUS
<1>4. parts \in Seq(Seq(Byte)) /\ Len(parts) = m
    <2>1. parts \in Seq(Seq(Byte))
        BY <1>3, WordsAreNumbers, IdAppend DEF IdWritten
    <2> QED BY <1>1, <1>3, <2>1, LenProperties
<1>5. PICK t : t = ParseTrustAnchorID(numbers) /\ t = FlattenSeq(parts)
    BY <1>3 DEF ParseTrustAnchorID
<1>6. PICK rest : Splits(Byte, parts, rest)
    BY <1>4, FlattenSplits
<1>7. /\ rest \in [0..m -> Seq(Byte)] /\ rest[0] = t /\ rest[m] = <<>>
      /\ \A i \in 1..m : rest[i - 1] = parts[i] \o rest[i]
    BY <1>4, <1>5, <1>6 DEF Splits
<1>8. PICK path : path = [i \in 0..m |-> [rest |-> rest[i], numbers |-> SubSeq(numbers, 1, i)]]
    OBVIOUS
<1>9. \A i \in 0..m : path[i].rest = rest[i] /\ path[i].rest \in Seq(Byte)
    BY <1>7, <1>8
<1>10. ASSUME NEW i \in 1..m
       PROVE  /\ path[i - 1].rest # <<>>
              /\ Len(path[i].rest) < Len(path[i - 1].rest)
              /\ PrintNumber[path[i - 1]] = {path[i]}
    <2>1. i - 1 \in 0..m /\ i \in 0..m /\ i - 1 \in 0..Len(numbers)
        BY <1>1
    <2>2. PICK v : v = numbers[i] /\ v \in Words
        BY <1>1, ElementOfSeq
    <2>3. PICK r : r = rest[i] /\ r \in Seq(Byte)
        BY <1>7, <2>1
    <2>4. PICK before : before = SubSeq(numbers, 1, i - 1) /\ before \in Seq(Words)
        BY <2>1, SplitAt
    <2>5. rest[i - 1] = Base128(v) \o r
        BY <1>1, <1>3, <1>7, <2>2, <2>3
    <2>6. Append(before, v) = SubSeq(numbers, 1, i)
        BY <1>1, <2>2, <2>4, Fronts
    <2>7. path[i - 1] = [rest |-> Base128(v) \o r, numbers |-> before]
        BY <1>8, <2>1, <2>4, <2>5
    <2>8. path[i] = [rest |-> r, numbers |-> Append(before, v)]
        BY <1>8, <2>1, <2>3, <2>6
    <2>9. PrintNumber[path[i - 1]] = {path[i]}
        <3>1. Prints(v, r, before)
            BY <2>2, <2>3, <2>4, PrintsOne
        <3> QED BY <2>7, <2>8, <3>1 DEF Prints
    <2>10. PICK k \in Nat : k = Len(r)
        BY <2>3, LenProperties
    <2>11. Len(Base128(v) \o r) > k /\ Base128(v) \o r # <<>>
        <3>1. PICK b : b = Base128(v) /\ b \in Seq(Byte) /\ Len(b) \in Nat \ {0}
            BY <2>2, Base128Bytes
        <3>2. Len(b \o r) = Len(b) + k
            BY <2>3, <2>10, <3>1, ConcatProperties
        <3>3. Len(b \o r) > k
            BY <3>1, <3>2
        <3>4. b \o r # <<>>
            BY <3>1, <3>2, EmptySeq
        <3> QED BY <3>1, <3>3, <3>4
    <2> QED BY <2>7, <2>8, <2>9, <2>10, <2>11
<1>11. WhileRest(PrintNumber, path[0]) = {path[m]}
    <2>1. Follows(Byte, PrintNumber, path, m)
        <3>1. path[m].rest = <<>>
            BY <1>7, <1>9
        <3> QED BY <1>9, <1>10, <3>1 DEF Follows
    <2>2. Reaches(PrintNumber, path, m)
        BY <2>1, LoopFollows
    <2>3. \A i \in 1..m : PrintNumber[path[i - 1]] # {}
        BY <1>10
    <2> QED BY <2>2, <2>3 DEF Reaches
<1>12. path[0] = [rest |-> t, numbers |-> <<>>]
    <2>1. SubSeq(numbers, 1, 0) = <<>>
        <3>1. 0 \in 0..Len(numbers)
            BY <1>1
        <3>2. SubSeq(numbers, 1, 0) \in Seq(Words) /\ Len(SubSeq(numbers, 1, 0)) = 0
            BY <3>1, SplitAt
        <3> QED BY <3>2, EmptySeq
    <2> QED BY <1>7, <1>8, <2>1
<1>13. path[m].numbers = numbers
    BY <1>1, <1>8, SubSeqFull
<1>14. t # <<>>
    <2>1. 1 \in 1..m /\ 1 - 1 = 0
        BY <1>2
    <2>2. PICK one \in 1..m : one = 1 /\ one - 1 = 0
        BY <2>1
    <2>3. path[one - 1].rest # <<>>
        BY <1>10
    <2>4. path[0].rest = t
        BY <1>12
    <2> QED BY <2>2, <2>3, <2>4
<1>15. Numbers(t) = {s.numbers : s \in WhileRest(PrintNumber, path[0])}
    BY <1>12, <1>14 DEF Numbers
<1> QED BY <1>5, <1>11, <1>13, <1>15

(* Different numbers make different ids. *)
LEMMA IdsDiffer ==
    ASSUME NEW a \in Seq(Words), NEW b \in Seq(Words), a # <<>>, b # <<>>,
           ParseTrustAnchorID(a) = ParseTrustAnchorID(b)
    PROVE  a = b
<1>1. Numbers(ParseTrustAnchorID(a)) = {a} /\ Numbers(ParseTrustAnchorID(b)) = {b}
    BY ParsedIdPrints
<1> QED BY <1>1

(* Numbers that follow an id are read after it. *)
LEMMA IdsContinue ==
    ASSUME NEW t \in Seq(Byte)
    PROVE  \A numbers \in Numbers(t) :
               /\ ParseTrustAnchorID(numbers) = t
               /\ \A v \in Words : Numbers(AppendBase128(t, v)) = {Append(numbers, v)}
<1> TAKE numbers \in Numbers(t)
<1>1. numbers \in Seq(Words) /\ ParseTrustAnchorID(numbers) = t
    BY PrintedIdParses
<1>2. ASSUME NEW v \in Words PROVE Numbers(AppendBase128(t, v)) = {Append(numbers, v)}
    <2>1. Append(numbers, v) \in Seq(Words) /\ Append(numbers, v) # <<>>
        BY <1>1, AppendProperties
    <2>2. ParseTrustAnchorID(Append(numbers, v)) = AppendBase128(t, v)
        BY <1>1, IdAppend
    <2> QED BY <2>1, <2>2, ParsedIdPrints
<1> QED BY <1>1, <1>2

LEMMA AppendedNumbers ==
    ASSUME NEW a \in Seq(Words), NEW b \in Seq(Words), NEW v \in Words, NEW w \in Words
    PROVE  /\ Append(a, v) \in Seq(Words) /\ Append(a, v) # <<>>
           /\ Append(a, v) = Append(b, w) => a = b /\ v = w
BY AppendProperties, AppendInjective

(* An id of an authority's log, or of its landmark, ends in the numbers     *)
(* that tell them apart.                                                    *)
LEMMA OwnIds ==
    ASSUME NEW s \in Seq(Byte), NEW t \in Seq(Byte), Numbers(s) # {}, Numbers(t) # {},
           NEW n \in LogNumbers, NEW m \in LogNumbers, NEW l \in LandmarkNums, NEW k \in LandmarkNums
    PROVE  /\ LogID(s, n) # LandmarkID(t, m, k)
           /\ LogID(s, n) = LogID(t, m) => s = t /\ n = m
           /\ LandmarkID(s, n, l) = LandmarkID(t, m, k) => s = t /\ n = m /\ l = k
<1>1. PICK a \in Seq(Words) : ParseTrustAnchorID(a) = s
    BY PrintedIdParses
<1>2. PICK b \in Seq(Words) : ParseTrustAnchorID(b) = t
    BY PrintedIdParses
<1>3. /\ n \in Words /\ m \in Words /\ n # 0 /\ m # 0 /\ l \in Words /\ k \in Words
      /\ 0 \in Words /\ 1 \in Words
    BY WireFormatConstants, WordsAreNumbers
<1>4. PICK a0 \in Seq(Words), a1 \in Seq(Words), b0 \in Seq(Words), b1 \in Seq(Words) :
          /\ a0 = Append(a, 0) /\ a1 = Append(a, 1) /\ b0 = Append(b, 0) /\ b1 = Append(b, 1)
    BY <1>3, AppendProperties
<1>5. PICK an \in Seq(Words), bm \in Seq(Words) : an = Append(a1, n) /\ bm = Append(b1, m)
    BY <1>3, AppendProperties
<1>6. /\ ParseTrustAnchorID(a0) = AppendBase128(s, 0)
      /\ ParseTrustAnchorID(b0) = AppendBase128(t, 0)
      /\ ParseTrustAnchorID(a1) = AppendBase128(s, 1)
      /\ ParseTrustAnchorID(b1) = AppendBase128(t, 1)
    BY <1>1, <1>2, <1>3, <1>4, IdAppend
<1>7. /\ ParseTrustAnchorID(Append(a0, n)) = LogID(s, n)
      /\ ParseTrustAnchorID(Append(b0, m)) = LogID(t, m)
    BY <1>3, <1>6, IdAppend DEF LogID
<1>8. /\ ParseTrustAnchorID(an) = AppendBase128(AppendBase128(s, 1), n)
      /\ ParseTrustAnchorID(bm) = AppendBase128(AppendBase128(t, 1), m)
    BY <1>3, <1>5, <1>6, IdAppend
<1>9. /\ ParseTrustAnchorID(Append(an, l)) = LandmarkID(s, n, l)
      /\ ParseTrustAnchorID(Append(bm, k)) = LandmarkID(t, m, k)
    BY <1>3, <1>8, IdAppend DEF LandmarkID
<1>10. /\ Append(a0, n) \in Seq(Words) /\ Append(a0, n) # <<>>
       /\ Append(b0, m) \in Seq(Words) /\ Append(b0, m) # <<>>
       /\ Append(an, l) \in Seq(Words) /\ Append(an, l) # <<>>
       /\ Append(bm, k) \in Seq(Words) /\ Append(bm, k) # <<>>
    BY <1>3, AppendedNumbers
<1>11. ASSUME LogID(s, n) = LandmarkID(t, m, k) PROVE FALSE
    <2>1. Append(a0, n) = Append(bm, k)
        BY <1>7, <1>9, <1>10, <1>11, IdsDiffer
    <2>2. a0 = bm
        BY <1>3, <2>1, AppendedNumbers
    <2>3. Append(a, 0) = Append(b1, m)
        BY <1>4, <1>5, <2>2
    <2>4. 0 = m
        BY <1>3, <2>3, AppendedNumbers
    <2> QED BY <1>3, <2>4
<1>12. ASSUME LogID(s, n) = LogID(t, m) PROVE s = t /\ n = m
    <2>1. Append(a0, n) = Append(b0, m)
        BY <1>7, <1>10, <1>12, IdsDiffer
    <2>2. a0 = b0 /\ n = m
        BY <1>3, <2>1, AppendedNumbers
    <2>3. Append(a, 0) = Append(b, 0)
        BY <1>4, <2>2
    <2>4. a = b
        BY <1>3, <2>3, AppendedNumbers
    <2> QED BY <1>1, <1>2, <2>2, <2>4
<1>13. ASSUME LandmarkID(s, n, l) = LandmarkID(t, m, k) PROVE s = t /\ n = m /\ l = k
    <2>1. Append(an, l) = Append(bm, k)
        BY <1>9, <1>10, <1>13, IdsDiffer
    <2>2. an = bm /\ l = k
        BY <1>3, <2>1, AppendedNumbers
    <2>3. Append(a1, n) = Append(b1, m)
        BY <1>5, <2>2
    <2>4. a1 = b1 /\ n = m
        BY <1>3, <2>3, AppendedNumbers
    <2>5. Append(a, 1) = Append(b, 1)
        BY <1>4, <2>4
    <2>6. a = b
        BY <1>3, <2>5, AppendedNumbers
    <2> QED BY <1>1, <1>2, <2>2, <2>4, <2>6
<1> QED BY <1>11, <1>12, <1>13

-----------------------------------------------------------------------------
(* Readers *)

ReadsAs(read, value, rest) == read.ok /\ read.value = value /\ read.rest = rest

HoldsNumber(w, s, v, rest) ==
    /\ v \in Nat /\ v < Limit(w)
    /\ rest \in Seq(Byte) /\ Len(rest) + w = Len(s)
    /\ s = BigEndian(v, w) \o rest

Holds(w, s, data, rest) ==
    /\ data \in Seq(Byte) /\ Len(data) < Limit(w)
    /\ rest \in Seq(Byte) /\ Len(rest) + Len(data) + w = Len(s)
    /\ s = Prefixed(w, data) \o rest

LEMMA MinOfTwo ==
    ASSUME NEW a \in Nat, NEW b \in Nat, a <= b
    PROVE  Min({a, b}) = a
<1>1. {a, b} \in SUBSET Nat /\ {a, b} # {}
    OBVIOUS
<1>2. Min({a, b}) \in {a, b} /\ \A y \in {a, b} : Min({a, b}) <= y
    BY <1>1, MinIsSmallest
<1> QED BY <1>2

LEMMA NumberIsRead ==
    ASSUME NEW w \in Nat, NEW v \in Nat, v < Limit(w), NEW rest \in Seq(Byte)
    PROVE  ReadsAs(ReadNumber(w, BigEndian(v, w) \o rest), v, rest)
<1>1. PICK b : b = BigEndian(v, w) /\ b \in Seq(Byte) /\ Len(b) = w
    BY BigEndianBytes
<1>2. PICK s : s = b \o rest
    OBVIOUS
<1>3. PICK m \in Nat : m = Len(rest)
    BY LenProperties
<1>4. s \in Seq(Byte) /\ Len(s) = w + m
    BY <1>1, <1>2, <1>3, ConcatProperties
<1>5. SubSeq(s, 1, w) = b /\ SubSeq(s, w + 1, Len(s)) = rest
    BY <1>1, <1>2, ConcatParts
<1>6. w <= Len(s) /\ Len(s) \in Nat
    BY <1>3, <1>4
<1>7. Min({w, Len(s)}) = w
    BY <1>6, MinOfTwo
<1>8. Number(b) = v
    BY <1>1, NumberWritten
<1>9. ReadNumber(w, s).ok /\ ReadNumber(w, s).value = v /\ ReadNumber(w, s).rest = rest
    BY <1>5, <1>6, <1>7, <1>8 DEF ReadNumber
<1> QED BY <1>1, <1>2, <1>9 DEF ReadsAs

LEMMA NumberWasWritten ==
    ASSUME NEW w \in Nat, NEW s \in Seq(Byte), ReadNumber(w, s).ok
    PROVE  HoldsNumber(w, s, ReadNumber(w, s).value, ReadNumber(w, s).rest)
<1>1. PICK n \in Nat : n = Len(s)
    BY LenProperties
<1>2. w <= n /\ w \in 0..Len(s)
    <2>1. Len(s) >= w
        BY DEF ReadNumber
    <2> QED BY <1>1, <2>1
<1>3. Min({w, n}) = w
    BY <1>2, MinOfTwo
<1>4. PICK b, rest : b = SubSeq(s, 1, w) /\ rest = SubSeq(s, w + 1, Len(s))
    OBVIOUS
<1>5. /\ b \in Seq(Byte) /\ Len(b) = w /\ rest \in Seq(Byte) /\ Len(rest) = n - w
      /\ b \o rest = s
    BY <1>1, <1>2, <1>4, SplitAt
<1>6. PICK v : v = Number(b)
    OBVIOUS
<1>7. v \in Nat /\ v < Limit(w)
    BY <1>5, <1>6, NumberType
<1>8. BigEndian(v, w) = b
    BY <1>5, <1>6, NumberRewritten
<1>9. ReadNumber(w, s).value = v /\ ReadNumber(w, s).rest = rest
    BY <1>1, <1>3, <1>4, <1>6 DEF ReadNumber
<1>10. Len(rest) + w = Len(s)
    BY <1>1, <1>5
<1> QED BY <1>5, <1>7, <1>8, <1>9, <1>10 DEF HoldsNumber

LEMMA PrefixedBytes ==
    ASSUME NEW w \in Nat, NEW d \in Seq(Byte)
    PROVE  Prefixed(w, d) \in Seq(Byte) /\ Len(Prefixed(w, d)) = w + Len(d)
<1>1. PICK n \in Nat : n = Len(d)
    BY LenProperties
<1>2. PICK b : b = BigEndian(n, w) /\ b \in Seq(Byte) /\ Len(b) = w
    BY BigEndianBytes
<1>3. b \o d \in Seq(Byte) /\ Len(b \o d) = w + n
    BY <1>1, <1>2, ConcatProperties
<1> QED BY <1>1, <1>2, <1>3 DEF Prefixed

LEMMA DataIsRead ==
    ASSUME NEW w \in Nat, NEW d \in Seq(Byte), Len(d) < Limit(w), NEW rest \in Seq(Byte)
    PROVE  ReadsAs(ReadPrefixed(w, Prefixed(w, d) \o rest), d, rest)
<1>1. PICK n \in Nat : n = Len(d)
    BY LenProperties
<1>2. PICK b : b = BigEndian(n, w) /\ b \in Seq(Byte) /\ Len(b) = w
    BY BigEndianBytes
<1>3. PICK t : t = d \o rest
    OBVIOUS
<1>4. PICK m \in Nat : m = Len(rest)
    BY LenProperties
<1>5. t \in Seq(Byte) /\ Len(t) = n + m
    BY <1>1, <1>3, <1>4, ConcatProperties
<1>6. PICK s : s = Prefixed(w, d) \o rest
    OBVIOUS
<1>7. s = b \o t
    <2>1. Regroups(b, d, rest)
        BY <1>2, Regroup
    <2> QED BY <1>1, <1>2, <1>3, <1>6, <2>1 DEF Regroups, Prefixed
<1>8. ReadsAs(ReadNumber(w, s), n, t)
    <2>1. ReadsAs(ReadNumber(w, BigEndian(n, w) \o t), n, t)
        BY <1>1, <1>5, NumberIsRead
    <2> QED BY <1>2, <1>7, <2>1
<1>9. PICK length : length = ReadNumber(w, s)
    OBVIOUS
<1>10. length.ok /\ length.value = n /\ length.rest = t
    BY <1>8, <1>9 DEF ReadsAs
<1>11. n <= Len(t) /\ Len(t) \in Nat
    BY <1>5
<1>12. Min({n, Len(t)}) = n
    BY <1>11, MinOfTwo
<1>13. SubSeq(t, 1, n) = d /\ SubSeq(t, n + 1, Len(t)) = rest
    BY <1>1, <1>3, ConcatParts
<1>14. /\ ReadPrefixed(w, s).ok
       /\ ReadPrefixed(w, s).value = d
       /\ ReadPrefixed(w, s).rest = rest
    BY <1>9, <1>10, <1>11, <1>12, <1>13 DEF ReadPrefixed
<1> QED BY <1>6, <1>14 DEF ReadsAs

LEMMA DataWasWritten ==
    ASSUME NEW w \in Nat, NEW s \in Seq(Byte), ReadPrefixed(w, s).ok
    PROVE  Holds(w, s, ReadPrefixed(w, s).value, ReadPrefixed(w, s).rest)
<1>1. PICK length : length = ReadNumber(w, s)
    OBVIOUS
<1>2. length.ok /\ Len(length.rest) >= length.value
    BY <1>1 DEF ReadPrefixed
<1>3. HoldsNumber(w, s, length.value, length.rest)
    BY <1>1, <1>2, NumberWasWritten
<1>4. PICK v, t : v = length.value /\ t = length.rest
    OBVIOUS
<1>5. /\ v \in Nat /\ v < Limit(w) /\ t \in Seq(Byte) /\ Len(t) + w = Len(s)
      /\ s = BigEndian(v, w) \o t
    BY <1>3, <1>4 DEF HoldsNumber
<1>6. PICK n \in Nat : n = Len(t) /\ v <= n /\ v \in 0..Len(t)
    BY <1>2, <1>4, <1>5, LenProperties
<1>7. Min({v, Len(t)}) = v
    BY <1>5, <1>6, MinOfTwo
<1>8. PICK d, rest : d = SubSeq(t, 1, v) /\ rest = SubSeq(t, v + 1, Len(t))
    OBVIOUS
<1>9. /\ d \in Seq(Byte) /\ Len(d) = v /\ rest \in Seq(Byte) /\ Len(rest) = n - v
      /\ d \o rest = t
    BY <1>5, <1>6, <1>8, SplitAt
<1>10. ReadPrefixed(w, s).value = d /\ ReadPrefixed(w, s).rest = rest
    BY <1>1, <1>4, <1>7, <1>8 DEF ReadPrefixed
<1>11. PICK b : b = BigEndian(v, w) /\ b \in Seq(Byte)
    BY <1>5, BigEndianBytes
<1>12. s = Prefixed(w, d) \o rest
    <2>1. Regroups(b, d, rest)
        BY <1>9, <1>11, Regroup
    <2> QED BY <1>5, <1>9, <1>11, <2>1 DEF Regroups, Prefixed
<1>13. Len(rest) + Len(d) + w = Len(s)
    BY <1>5, <1>6, <1>9
<1> QED BY <1>5, <1>9, <1>10, <1>12, <1>13 DEF Holds

-----------------------------------------------------------------------------
(* Lists *)

(* The bytes from each element of a list on. *)
ListPath(D, f, xs, rest) ==
    /\ rest \in [0..Len(xs) -> Seq(D)]
    /\ rest[0] = FlattenSeq([i \in DOMAIN xs |-> f[xs[i]]])
    /\ rest[Len(xs)] = <<>>
    /\ \A i \in 1..Len(xs) : /\ rest[i - 1] = f[xs[i]] \o rest[i]
                             /\ rest[i - 1] # <<>>
                             /\ Len(rest[i]) < Len(rest[i - 1])
                             /\ Len(f[xs[i]]) <= Len(rest[0])

LEMMA ListPaths ==
    ASSUME NEW D, NEW S, NEW f \in [S -> Seq(D)], \A x \in S : f[x] # <<>>, NEW xs \in Seq(S)
    PROVE  \E rest : ListPath(D, f, xs, rest)
<1>1. PICK m \in Nat : m = Len(xs) /\ DOMAIN xs = 1..m
    BY LenProperties
<1>2. PICK parts : parts = [i \in 1..m |-> f[xs[i]]]
    OBVIOUS
<1>3. \A i \in 1..m : xs[i] \in S
    BY <1>1, ElementOfSeq
<1>4. parts \in Seq(Seq(D)) /\ Len(parts) = m
    <2>1. \A i \in 1..m : parts[i] \in Seq(D)
        BY <1>2, <1>3
    <2>2. parts \in [1..m -> Seq(D)]
        BY <1>2, <2>1
    <2>3. parts \in Seq(Seq(D)) /\ DOMAIN parts = 1..m
        BY <2>2, SeqDef
    <2> QED BY <2>3, LenProperties
<1>5. PICK rest : Splits(D, parts, rest)
    BY <1>4, FlattenSplits
<1>6. /\ rest \in [0..m -> Seq(D)]
      /\ rest[0] = FlattenSeq(parts)
      /\ rest[m] = <<>>
      /\ \A i \in 1..m : rest[i - 1] = parts[i] \o rest[i]
    BY <1>4, <1>5 DEF Splits
<1>7. ASSUME NEW i \in 1..m
      PROVE  /\ rest[i - 1] = f[xs[i]] \o rest[i]
             /\ rest[i - 1] # <<>>
             /\ rest[i - 1] \in Seq(D) /\ rest[i] \in Seq(D) /\ f[xs[i]] \in Seq(D)
             /\ Len(rest[i - 1]) = Len(f[xs[i]]) + Len(rest[i])
             /\ Len(f[xs[i]]) \in Nat \ {0} /\ Len(rest[i]) \in Nat
    <2>1. i - 1 \in 0..m /\ i \in 0..m
        BY <1>1
    <2>2. PICK p \in Seq(D) : p = f[xs[i]] /\ p # <<>>
        BY <1>3
    <2>3. PICK r \in Seq(D) : r = rest[i]
        BY <1>6, <2>1
    <2>4. rest[i - 1] = p \o r
        BY <1>2, <1>6, <2>2, <2>3
    <2>5. p \o r \in Seq(D) /\ Len(p \o r) = Len(p) + Len(r)
        BY ConcatProperties
    <2>6. Len(p) \in Nat /\ Len(r) \in Nat /\ Len(p) # 0
        BY <2>2, EmptySeq, LenProperties
    <2>7. p \o r # <<>>
        <3>1. Len(p \o r) # 0
            BY <2>5, <2>6
        <3> QED BY <3>1, EmptySeq
    <2> QED BY <2>2, <2>3, <2>4, <2>5, <2>6, <2>7
<1>8. \A i \in 0..m : i \in {k \in 0..m : Len(rest[k]) <= Len(rest[0])}
    <2>1. PICK T : T = {k \in 0..m : Len(rest[k]) <= Len(rest[0])}
        OBVIOUS
    <2>2. rest[0] \in Seq(D) /\ Len(rest[0]) \in Nat
        <3>1. 0 \in 0..m
            BY <1>1
        <3>2. rest[0] \in Seq(D)
            BY <1>6, <3>1
        <3> QED BY <3>2, LenProperties
    <2>3. 0 \in T
        BY <1>1, <2>1, <2>2
    <2>4. ASSUME NEW i \in 1..m, i - 1 \in T PROVE i \in T
        <3>1. PICK a, b, c : a = Len(rest[i - 1]) /\ b = Len(f[xs[i]]) /\ c = Len(rest[i])
            OBVIOUS
        <3>2. a = b + c /\ b \in Nat /\ c \in Nat
            BY <1>7, <3>1
        <3>3. a <= Len(rest[0])
            BY <2>1, <2>4, <3>1
        <3>4. c <= Len(rest[0])
            BY <2>2, <3>2, <3>3
        <3> QED BY <1>1, <2>1, <3>1, <3>4
    <2>5. \A i \in 0..m : i \in T
        BY <1>1, <2>3, <2>4, Stepwise
    <2> QED BY <2>1, <2>5
<1>9. ASSUME NEW i \in 1..m
      PROVE  Len(rest[i]) < Len(rest[i - 1]) /\ Len(f[xs[i]]) <= Len(rest[0])
    <2>1. PICK a, b, c : a = Len(rest[i - 1]) /\ b = Len(f[xs[i]]) /\ c = Len(rest[i])
        OBVIOUS
    <2>2. a = b + c /\ b \in Nat \ {0} /\ c \in Nat
        BY <1>7, <2>1
    <2>3. i - 1 \in 0..m
        BY <1>1
    <2>4. a <= Len(rest[0])
        BY <1>8, <2>1, <2>3
    <2>5. Len(rest[0]) \in Nat
        <3>1. 0 \in 0..m
            BY <1>1
        <3>2. rest[0] \in Seq(D)
            BY <1>6, <3>1
        <3> QED BY <3>2, LenProperties
    <2>6. PICK z \in Nat : z = Len(rest[0])
        BY <2>5
    <2>7. c < a /\ b <= z
        BY <2>2, <2>4, <2>6
    <2> QED BY <2>1, <2>6, <2>7
<1>10. rest[0] = FlattenSeq([i \in DOMAIN xs |-> f[xs[i]]])
    BY <1>1, <1>2, <1>6
<1> QED BY <1>1, <1>6, <1>7, <1>9, <1>10 DEF ListPath

-----------------------------------------------------------------------------
(* Extensions *)

ExtensionType == [type : 0..(Limit(2) - 1), data : Seq(Byte)]

LEMMA Limits == \A w \in Nat : Limit(w) \in Nat \ {0}
BY LimitDef

LEMMA ExtensionFields ==
    ASSUME NEW ext \in ExtensionType
    PROVE  ext.type \in Nat /\ ext.type < Limit(2) /\ ext.data \in Seq(Byte) /\ Len(ext.data) \in Nat
<1>1. Limit(2) \in Nat \ {0}
    BY Limits
<1>2. ext.type \in 0..(Limit(2) - 1) /\ ext.data \in Seq(Byte)
    BY DEF ExtensionType
<1> QED BY <1>1, <1>2, LenProperties

(* An extension is its type and its data with the length in front. *)
LEMMA ExtensionBytes ==
    ASSUME NEW ext \in ExtensionType
    PROVE  /\ MarshalExtension(ext) = BigEndian(ext.type, 2) \o Prefixed(2, ext.data)
           /\ MarshalExtension(ext) \in Seq(Byte)
           /\ MarshalExtension(ext) # <<>>
           /\ Len(MarshalExtension(ext)) = 4 + Len(ext.data)
<1>1. PICK v \in Nat, d \in Seq(Byte) : v = ext.type /\ d = ext.data
    BY ExtensionFields
<1>2. PICK n \in Nat : n = Len(d)
    BY LenProperties
<1>3. PICK a : a = BigEndian(v, 2) /\ a \in Seq(Byte) /\ Len(a) = 2
    BY BigEndianBytes
<1>4. PICK b : b = BigEndian(n, 2) /\ b \in Seq(Byte) /\ Len(b) = 2
    BY BigEndianBytes
<1>5. Regroups(a, b, d)
    BY <1>3, <1>4, Regroup
<1>6. MarshalExtension(ext) = a \o Prefixed(2, d) /\ Prefixed(2, d) = b \o d
    BY <1>1, <1>2, <1>3, <1>4, <1>5 DEF MarshalExtension, Prefixed, Regroups
<1>7. PICK p \in Seq(Byte) : p = Prefixed(2, d) /\ Len(p) = 2 + n
    BY <1>2, PrefixedBytes
<1>8. a \o p \in Seq(Byte) /\ Len(a \o p) = 4 + n
    <2>1. a \o p \in Seq(Byte) /\ Len(a \o p) = Len(a) + Len(p)
        BY <1>3, ConcatProperties
    <2>2. PICK k \in Nat : k = Len(p)
        BY LenProperties
    <2>3. 2 + k = 4 + n
        BY <1>2, <1>7, <2>2
    <2> QED BY <1>3, <2>1, <2>2, <2>3
<1>9. a \o p # <<>>
    <2>1. Len(a \o p) # 0
        BY <1>2, <1>8
    <2> QED BY <2>1, EmptySeq
<1>10. MarshalExtension(ext) = a \o p
    BY <1>6, <1>7
<1> QED BY <1>1, <1>2, <1>3, <1>7, <1>8, <1>9, <1>10

(* One turn of the loop: an extension is taken when its type is above. *)
ExtensionTurn(ext, r, above) ==
    CheckExtension[[rest |-> MarshalExtension(ext) \o r, above |-> above]]
        = IF ext.type > above THEN {[rest |-> r, above |-> ext.type]} ELSE {}

LEMMA ExtensionTurns ==
    ASSUME NEW ext \in ExtensionType, Len(ext.data) < Limit(2), NEW r \in Seq(Byte),
           NEW above \in Int
    PROVE  ExtensionTurn(ext, r, above)
<1>1. PICK v \in Nat, d \in Seq(Byte) :
          v = ext.type /\ d = ext.data /\ v < Limit(2) /\ Len(d) < Limit(2)
    BY ExtensionFields
<1>2. PICK p \in Seq(Byte) : p = Prefixed(2, d)
    BY PrefixedBytes
<1>3. PICK t \in Seq(Byte) : t = p \o r
    BY ConcatProperties
<1>4. PICK a \in Seq(Byte) : a = BigEndian(v, 2)
    BY BigEndianBytes
<1>5. PICK s \in Seq(Byte) : s = a \o t
    BY ConcatProperties
<1>6. s = MarshalExtension(ext) \o r
    <2>1. MarshalExtension(ext) = a \o p
        BY <1>1, <1>2, <1>4, ExtensionBytes
    <2>2. Regroups(a, p, r)
        BY Regroup
    <2> QED BY <1>3, <1>5, <2>1, <2>2 DEF Regroups
<1>7. ReadsAs(ReadNumber(2, s), v, t)
    <2>1. ReadsAs(ReadNumber(2, BigEndian(v, 2) \o t), v, t)
        BY <1>1, NumberIsRead
    <2> QED BY <1>4, <1>5, <2>1
<1>8. ReadsAs(ReadPrefixed(2, t), d, r)
    <2>1. ReadsAs(ReadPrefixed(2, Prefixed(2, d) \o r), d, r)
        BY <1>1, DataIsRead
    <2> QED BY <1>2, <1>3, <2>1
<1>9. PICK type, data : type = ReadNumber(2, s) /\ data = ReadPrefixed(2, t)
    OBVIOUS
<1>10. /\ type.ok /\ type.value = v /\ type.rest = t
       /\ data.ok /\ data.value = d /\ data.rest = r
    BY <1>7, <1>8, <1>9 DEF ReadsAs
<1>11. PICK st : st = [rest |-> s, above |-> above]
    OBVIOUS
<1>12. st \in [rest : Seq(Byte), above : Int] /\ st.rest = s /\ st.above = above
    BY <1>11
<1>13. CheckExtension[st] = IF v > above THEN {[rest |-> r, above |-> v]} ELSE {}
    BY <1>9, <1>10, <1>12 DEF CheckExtension
<1> QED BY <1>1, <1>6, <1>11, <1>13 DEF ExtensionTurn

ExtensionBytesOf == [ext \in ExtensionType |-> MarshalExtension(ext)]

LEMMA ExtensionLists ==
    ASSUME NEW exts \in Seq(ExtensionType)
    PROVE  /\ ExtensionBytesOf \in [ExtensionType -> Seq(Byte)]
           /\ \A ext \in ExtensionType : ExtensionBytesOf[ext] = MarshalExtension(ext)
                                         /\ ExtensionBytesOf[ext] # <<>>
           /\ ExtensionList(exts) = FlattenSeq([i \in DOMAIN exts |-> ExtensionBytesOf[exts[i]]])
<1>1. \A ext \in ExtensionType : MarshalExtension(ext) \in Seq(Byte) /\ MarshalExtension(ext) # <<>>
    BY ExtensionBytes
<1>2. \A i \in DOMAIN exts : exts[i] \in ExtensionType
    BY ElementOfSeq, LenProperties
<1>3. [i \in DOMAIN exts |-> MarshalExtension(exts[i])]
          = [i \in DOMAIN exts |-> ExtensionBytesOf[exts[i]]]
    BY <1>2 DEF ExtensionBytesOf
<1> QED BY <1>1, <1>3 DEF ExtensionBytesOf, ExtensionList

TypesAscend(exts) == \A i \in 1..(Len(exts) - 1) : exts[i].type < exts[i + 1].type

(* A list of extensions that its length can be written of is accepted when  *)
(* the types ascend.                                                        *)
LEMMA ExtensionsAscend ==
    ASSUME NEW exts \in Seq(ExtensionType), Len(ExtensionList(exts)) < Limit(2)
    PROVE  ExtensionsInOrder(ExtensionList(exts)) = TypesAscend(exts)
<1>1. PICK m \in Nat : m = Len(exts)
    BY LenProperties
<1>2. PICK f : f = ExtensionBytesOf
    OBVIOUS
<1>3. /\ f \in [ExtensionType -> Seq(Byte)]
      /\ \A ext \in ExtensionType : f[ext] = MarshalExtension(ext) /\ f[ext] # <<>>
    BY <1>2, ExtensionLists
<1>4. PICK rest : ListPath(Byte, f, exts, rest)
    BY <1>3, ListPaths
<1>5. PICK whole : whole = ExtensionList(exts)
    OBVIOUS
<1>6. /\ rest \in [0..m -> Seq(Byte)] /\ rest[0] = whole /\ rest[m] = <<>>
      /\ \A i \in 1..m : /\ rest[i - 1] = f[exts[i]] \o rest[i]
                         /\ rest[i - 1] # <<>>
                         /\ Len(rest[i]) < Len(rest[i - 1])
                         /\ Len(f[exts[i]]) <= Len(rest[0])
    BY <1>1, <1>2, <1>4, <1>5, ExtensionLists DEF ListPath
<1>7. PICK above : above = [i \in 0..m |-> IF i = 0 THEN -1 ELSE exts[i].type]
    OBVIOUS
<1>8. PICK path : path = [i \in 0..m |-> [rest |-> rest[i], above |-> above[i]]]
    OBVIOUS
<1>9. \A i \in 1..m : exts[i] \in ExtensionType
    BY <1>1, ElementOfSeq
<1>10. \A i \in 1..m : above[i] = exts[i].type /\ above[i] \in Nat /\ i \in 0..m
    BY <1>7, <1>9, ExtensionFields
<1>11. above[0] = -1 /\ \A i \in 0..m : above[i] \in Int
    BY <1>1, <1>7, <1>10
<1>12. ASSUME NEW i \in 1..m
       PROVE  CheckExtension[path[i - 1]] = IF above[i] > above[i - 1] THEN {path[i]} ELSE {}
    <2>1. i - 1 \in 0..m /\ i \in 0..m
        BY <1>1
    <2>2. PICK ext \in ExtensionType : ext = exts[i]
        BY <1>9
    <2>3. PICK r \in Seq(Byte) : r = rest[i]
        BY <1>6, <2>1
    <2>4. Len(ext.data) < Limit(2)
        <3>1. PICK n \in Nat, k \in Nat : n = Len(ext.data) /\ k = Limit(2)
            BY ExtensionFields, Limits
        <3>2. Len(f[ext]) = 4 + n
            BY <1>3, <3>1, ExtensionBytes
        <3>3. Len(f[ext]) <= Len(whole)
            BY <1>6, <2>2
        <3>4. PICK l \in Nat : l = Len(whole)
            <4>1. 0 \in 0..m
                BY <1>1
            <4>2. whole \in Seq(Byte)
                BY <1>6, <4>1
            <4> QED BY <4>2, LenProperties
        <3>5. l < k
            BY <1>5, <3>1, <3>4
        <3>6. n < k
            BY <3>1, <3>2, <3>3, <3>4, <3>5
        <3> QED BY <3>1, <3>6
    <2>5. PICK a \in Int : a = above[i - 1]
        BY <1>11, <2>1
    <2>6. ExtensionTurn(ext, r, a)
        BY <2>4, ExtensionTurns
    <2>7. path[i - 1] = [rest |-> MarshalExtension(ext) \o r, above |-> a]
        BY <1>3, <1>6, <1>8, <2>1, <2>2, <2>3, <2>5
    <2>8. path[i] = [rest |-> r, above |-> ext.type] /\ above[i] = ext.type
        BY <1>8, <1>10, <2>1, <2>2, <2>3
    <2> QED BY <2>5, <2>6, <2>7, <2>8 DEF ExtensionTurn
<1>13. Follows(Byte, CheckExtension, path, m)
    <2>1. \A i \in 0..m : path[i].rest = rest[i] /\ path[i].rest \in Seq(Byte)
        BY <1>6, <1>8
    <2>2. m \in 0..m /\ \A i \in 1..m : i - 1 \in 0..m /\ i \in 0..m
        BY <1>1
    <2>3. path[m].rest = <<>>
        BY <1>6, <2>1, <2>2
    <2>4. ASSUME NEW i \in 1..m
          PROVE  path[i - 1].rest # <<>> /\ Len(path[i].rest) < Len(path[i - 1].rest)
        BY <1>6, <2>1, <2>2
    <2>5. \A i \in 1..m : CheckExtension[path[i - 1]] = {} \/ CheckExtension[path[i - 1]] = {path[i]}
        BY <1>12
    <2> QED BY <2>1, <2>3, <2>4, <2>5 DEF Follows
<1>14. Reaches(CheckExtension, path, m)
    BY <1>13, LoopFollows
<1>15. path[0] = [rest |-> whole, above |-> -1]
    <2>1. 0 \in 0..m
        BY <1>1
    <2> QED BY <1>6, <1>8, <1>11, <2>1
<1>16. ExtensionsInOrder(whole) <=> \A i \in 1..m : above[i] > above[i - 1]
    <2>1. ExtensionsInOrder(whole) <=> WhileRest(CheckExtension, path[0]) # {}
        BY <1>15 DEF ExtensionsInOrder
    <2>2. WhileRest(CheckExtension, path[0]) # {}
              <=> \A i \in 1..m : CheckExtension[path[i - 1]] # {}
        BY <1>14 DEF Reaches
    <2>3. \A i \in 1..m : CheckExtension[path[i - 1]] # {} <=> above[i] > above[i - 1]
        <3> TAKE i \in 1..m
        <3>1. CASE above[i] > above[i - 1]
            BY <1>12, <3>1
        <3>2. CASE ~(above[i] > above[i - 1])
            BY <1>12, <3>2
        <3> QED BY <3>1, <3>2
    <2> QED BY <2>1, <2>2, <2>3
<1>17. (\A i \in 1..m : above[i] > above[i - 1]) <=> TypesAscend(exts)
    <2>1. ASSUME \A i \in 1..m : above[i] > above[i - 1], NEW i \in 1..(m - 1)
          PROVE  exts[i].type < exts[i + 1].type
        <3>1. i \in 1..m /\ i + 1 \in 1..m /\ (i + 1) - 1 = i
            BY <1>1
        <3>2. above[i + 1] > above[i]
            BY <2>1, <3>1
        <3>3. above[i] = exts[i].type /\ above[i + 1] = exts[i + 1].type
            BY <1>10, <3>1
        <3>4. above[i] \in Nat /\ above[i + 1] \in Nat
            BY <1>10, <3>1
        <3> QED BY <3>2, <3>3, <3>4
    <2>2. ASSUME \A i \in 1..(m - 1) : exts[i].type < exts[i + 1].type, NEW i \in 1..m
          PROVE  above[i] > above[i - 1]
        <3>1. CASE i = 1
            <4>1. above[i] \in Nat /\ above[i - 1] = -1
                BY <1>10, <1>11, <3>1
            <4> QED BY <4>1
        <3>2. CASE i # 1
            <4>1. PICK j \in 1..(m - 1) : j = i - 1 /\ j + 1 = i /\ j \in 1..m
                BY <1>1, <3>2
            <4>2. exts[j].type < exts[j + 1].type
                BY <2>2
            <4>3. above[j] = exts[j].type /\ above[i] = exts[i].type
                BY <1>10, <4>1
            <4>4. above[j] \in Nat /\ above[i] \in Nat
                BY <1>10, <4>1
            <4>5. above[j] < above[i]
                BY <4>1, <4>2, <4>3
            <4> QED BY <4>1, <4>4, <4>5
        <3> QED BY <3>1, <3>2
    <2> QED BY <1>1, <2>1, <2>2 DEF TypesAscend
<1>18. ExtensionsInOrder(whole) \in BOOLEAN /\ TypesAscend(exts) \in BOOLEAN
    BY DEF ExtensionsInOrder, TypesAscend
<1> QED BY <1>5, <1>16, <1>17, <1>18

LEMMA ExtensionsBytes ==
    ASSUME NEW exts \in Seq(ExtensionType)
    PROVE  /\ ExtensionList(exts) \in Seq(Byte)
           /\ ExtensionList(<<>>) = <<>>
           /\ MarshalExtensions(exts) = Prefixed(2, ExtensionList(exts))
           /\ MarshalExtensions(exts) \in Seq(Byte)
<1>1. PICK f : f = ExtensionBytesOf
    OBVIOUS
<1>2. /\ f \in [ExtensionType -> Seq(Byte)]
      /\ \A ext \in ExtensionType : f[ext] = MarshalExtension(ext) /\ f[ext] # <<>>
    BY <1>1, ExtensionLists
<1>3. PICK rest : ListPath(Byte, f, exts, rest)
    BY <1>2, ListPaths
<1>4. ExtensionList(exts) = rest[0]
    BY <1>1, <1>3, ExtensionLists DEF ListPath
<1>5. rest[0] \in Seq(Byte)
    <2>1. 0 \in 0..Len(exts)
        BY LenProperties
    <2> QED BY <1>3, <2>1 DEF ListPath
<1>6. <<>> \in Seq(ExtensionType)
    BY EmptySeq
<1>7. ExtensionList(<<>>) = <<>>
    <2>1. ExtensionList(<<>>) = FlattenSeq([i \in DOMAIN <<>> |-> ExtensionBytesOf[<<>>[i]]])
        BY <1>6, ExtensionLists
    <2>2. PICK g : ListPath(Byte, f, <<>>, g)
        BY <1>2, <1>6, ListPaths
    <2>3. Len(<<>>) = 0
        BY <1>6, EmptySeq
    <2>4. ExtensionList(<<>>) = g[0] /\ g[Len(<<>>)] = <<>>
        BY <1>1, <2>1, <2>2 DEF ListPath
    <2> QED BY <2>3, <2>4
<1>8. MarshalExtensions(exts) = Prefixed(2, ExtensionList(exts))
    BY DEF MarshalExtensions, Prefixed
<1>9. Prefixed(2, ExtensionList(exts)) \in Seq(Byte)
    BY <1>4, <1>5, PrefixedBytes
<1> QED BY <1>4, <1>5, <1>7, <1>8, <1>9

-----------------------------------------------------------------------------
(* Signatures *)

SignatureFits(sig) == Len(sig.id) < Limit(1) /\ Len(sig.signature) < Limit(2)

LEMMA SignatureBytes ==
    ASSUME NEW sig \in SignatureType
    PROVE  /\ sig.id \in Seq(Byte) /\ sig.signature \in Seq(Byte)
           /\ sig = [id |-> sig.id, signature |-> sig.signature]
           /\ MarshalSignature(sig) \in Seq(Byte)
           /\ MarshalSignature(sig) # <<>>
<1>1. /\ sig.id \in Seq(Byte) /\ sig.signature \in Seq(Byte)
      /\ sig = [id |-> sig.id, signature |-> sig.signature]
    BY DEF SignatureType
<1>2. PICK a \in Seq(Byte) : a = Prefixed(1, sig.id) /\ Len(a) = 1 + Len(sig.id)
    BY <1>1, PrefixedBytes
<1>3. PICK b \in Seq(Byte) : b = Prefixed(2, sig.signature)
    BY <1>1, PrefixedBytes
<1>4. a \o b \in Seq(Byte) /\ Len(a \o b) = Len(a) + Len(b)
    BY ConcatProperties
<1>5. PICK n \in Nat, k \in Nat : n = Len(sig.id) /\ k = Len(b)
    BY <1>1, LenProperties
<1>6. Len(a \o b) = 1 + n + k
    BY <1>2, <1>4, <1>5
<1>7. a \o b # <<>>
    <2>1. Len(a \o b) # 0
        BY <1>5, <1>6
    <2> QED BY <2>1, EmptySeq
<1>8. MarshalSignature(sig) = a \o b
    BY <1>2, <1>3 DEF MarshalSignature
<1> QED BY <1>1, <1>4, <1>7, <1>8

(* One turn of the loop: a signature is taken when its id comes next. *)
SignatureTurn(sig, r, previous, before) ==
    ReadSignature[[rest |-> MarshalSignature(sig) \o r, previous |-> previous,
                   signatures |-> before]]
        = IF sig.id # <<>> /\ ComesBefore(previous, sig.id)
          THEN {[rest |-> r, previous |-> sig.id, signatures |-> Append(before, sig)]} ELSE {}

LEMMA SignatureTurns ==
    ASSUME NEW sig \in SignatureType, SignatureFits(sig), NEW r \in Seq(Byte),
           NEW previous \in Seq(Byte), NEW before \in Seq(SignatureType)
    PROVE  SignatureTurn(sig, r, previous, before)
<1>1. PICK i \in Seq(Byte), d \in Seq(Byte) : i = sig.id /\ d = sig.signature
    BY SignatureBytes
<1>2. Len(i) < Limit(1) /\ Len(d) < Limit(2)
    BY <1>1 DEF SignatureFits
<1>3. PICK a \in Seq(Byte), b \in Seq(Byte) : a = Prefixed(1, i) /\ b = Prefixed(2, d)
    BY PrefixedBytes
<1>4. PICK t \in Seq(Byte) : t = b \o r
    BY ConcatProperties
<1>5. PICK s \in Seq(Byte) : s = a \o t
    BY ConcatProperties
<1>6. s = MarshalSignature(sig) \o r
    <2>1. MarshalSignature(sig) = a \o b
        BY <1>1, <1>3 DEF MarshalSignature
    <2>2. Regroups(a, b, r)
        BY Regroup
    <2> QED BY <1>4, <1>5, <2>1, <2>2 DEF Regroups
<1>7. ReadsAs(ReadPrefixed(1, s), i, t)
    <2>1. ReadsAs(ReadPrefixed(1, Prefixed(1, i) \o t), i, t)
        BY <1>2, DataIsRead
    <2> QED BY <1>3, <1>5, <2>1
<1>8. ReadsAs(ReadPrefixed(2, t), d, r)
    <2>1. ReadsAs(ReadPrefixed(2, Prefixed(2, d) \o r), d, r)
        BY <1>2, DataIsRead
    <2> QED BY <1>3, <1>4, <2>1
<1>9. PICK rid, rsig : rid = ReadPrefixed(1, s) /\ rsig = ReadPrefixed(2, t)
    OBVIOUS
<1>10. /\ rid.ok /\ rid.value = i /\ rid.rest = t
       /\ rsig.ok /\ rsig.value = d /\ rsig.rest = r
    BY <1>7, <1>8, <1>9 DEF ReadsAs
<1>11. PICK st : st = [rest |-> s, previous |-> previous, signatures |-> before]
    OBVIOUS
<1>12. /\ st \in ReadingSignatures
       /\ st.rest = s /\ st.previous = previous /\ st.signatures = before
    BY <1>11 DEF ReadingSignatures
<1>13. sig = [id |-> i, signature |-> d]
    BY <1>1, SignatureBytes
<1>14. ReadSignature[st] =
           IF i # <<>> /\ ComesBefore(previous, i)
           THEN {[rest |-> r, previous |-> i, signatures |-> Append(before, sig)]} ELSE {}
    BY <1>9, <1>10, <1>12, <1>13 DEF ReadSignature
<1> QED BY <1>1, <1>6, <1>11, <1>14 DEF SignatureTurn

SignatureBytesOf == [sig \in SignatureType |-> MarshalSignature(sig)]

LEMMA SignatureLists ==
    ASSUME NEW sigs \in Seq(SignatureType)
    PROVE  /\ SignatureBytesOf \in [SignatureType -> Seq(Byte)]
           /\ \A sig \in SignatureType : SignatureBytesOf[sig] = MarshalSignature(sig)
                                         /\ SignatureBytesOf[sig] # <<>>
           /\ MarshalSignatures(sigs) = FlattenSeq([i \in DOMAIN sigs |-> SignatureBytesOf[sigs[i]]])
           /\ MarshalSignatures(sigs) \in Seq(Byte)
<1>1. \A sig \in SignatureType : MarshalSignature(sig) \in Seq(Byte) /\ MarshalSignature(sig) # <<>>
    BY SignatureBytes
<1>2. \A i \in DOMAIN sigs : sigs[i] \in SignatureType
    BY ElementOfSeq, LenProperties
<1>3. [i \in DOMAIN sigs |-> MarshalSignature(sigs[i])]
          = [i \in DOMAIN sigs |-> SignatureBytesOf[sigs[i]]]
    BY <1>2 DEF SignatureBytesOf
<1>4. PICK f : f = SignatureBytesOf
    OBVIOUS
<1>5. f \in [SignatureType -> Seq(Byte)] /\ \A sig \in SignatureType : f[sig] # <<>>
    BY <1>1, <1>4 DEF SignatureBytesOf
<1>6. PICK rest : ListPath(Byte, f, sigs, rest)
    BY <1>5, ListPaths
<1>7. MarshalSignatures(sigs) = FlattenSeq([i \in DOMAIN sigs |-> SignatureBytesOf[sigs[i]]])
    BY <1>3 DEF MarshalSignatures
<1>8. rest[0] \in Seq(Byte) /\ MarshalSignatures(sigs) = rest[0]
    <2>1. 0 \in 0..Len(sigs)
        BY LenProperties
    <2> QED BY <1>4, <1>6, <1>7, <2>1 DEF ListPath
<1> QED BY <1>1, <1>7, <1>8 DEF SignatureBytesOf

IdsInOrder(sigs) ==
    /\ \A i \in DOMAIN sigs : sigs[i].id # <<>>
    /\ \A i \in 1..(Len(sigs) - 1) : ComesBefore(sigs[i].id, sigs[i + 1].id)

SignaturesAreRead(sigs) ==
    ReadSignatures(MarshalSignatures(sigs)) = IF IdsInOrder(sigs) THEN {sigs} ELSE {}

(* Signatures that their lengths can be written of are read as they were    *)
(* when their ids are in order, and otherwise not at all.                   *)
LEMMA SignaturesRead ==
    ASSUME NEW sigs \in Seq(SignatureType), \A i \in DOMAIN sigs : SignatureFits(sigs[i])
    PROVE  SignaturesAreRead(sigs)
<1>1. PICK m \in Nat : m = Len(sigs) /\ DOMAIN sigs = 1..m
    BY LenProperties
<1>2. PICK f : f = SignatureBytesOf
    OBVIOUS
<1>3. /\ f \in [SignatureType -> Seq(Byte)]
      /\ \A sig \in SignatureType : f[sig] = MarshalSignature(sig) /\ f[sig] # <<>>
    BY <1>2, SignatureLists
<1>4. PICK rest : ListPath(Byte, f, sigs, rest)
    BY <1>3, ListPaths
<1>5. PICK whole : whole = MarshalSignatures(sigs)
    OBVIOUS
<1>6. /\ rest \in [0..m -> Seq(Byte)] /\ rest[0] = whole /\ rest[m] = <<>>
      /\ \A i \in 1..m : /\ rest[i - 1] = f[sigs[i]] \o rest[i]
                         /\ rest[i - 1] # <<>>
                         /\ Len(rest[i]) < Len(rest[i - 1])
    BY <1>1, <1>2, <1>4, <1>5, SignatureLists DEF ListPath
<1>7. PICK prev : prev = [i \in 0..m |-> IF i = 0 THEN <<>> ELSE sigs[i].id]
    OBVIOUS
<1>8. PICK path : path = [i \in 0..m |-> [rest |-> rest[i], previous |-> prev[i],
                                          signatures |-> SubSeq(sigs, 1, i)]]
    OBVIOUS
<1>9. \A i \in 1..m : sigs[i] \in SignatureType /\ i \in 0..m /\ i - 1 \in 0..m
    BY <1>1, ElementOfSeq
<1>10. \A i \in 1..m : prev[i] = sigs[i].id /\ prev[i] \in Seq(Byte)
    BY <1>7, <1>9, SignatureBytes
<1>11. prev[0] = <<>> /\ \A i \in 0..m : prev[i] \in Seq(Byte)
    <2>1. 0 \in 0..m /\ <<>> \in Seq(Byte)
        BY <1>1, EmptySeq
    <2>2. prev[0] = <<>>
        BY <1>7, <2>1
    <2>3. ASSUME NEW i \in 0..m PROVE prev[i] \in Seq(Byte)
        <3>1. CASE i = 0
            BY <2>1, <2>2, <3>1
        <3>2. CASE i # 0
            <4>1. i \in 1..m
                BY <3>2
            <4> QED BY <1>10, <4>1
        <3> QED BY <3>1, <3>2
    <2> QED BY <2>2, <2>3
<1>12. ASSUME NEW i \in 1..m
       PROVE  ReadSignature[path[i - 1]] =
                  IF sigs[i].id # <<>> /\ ComesBefore(prev[i - 1], sigs[i].id) THEN {path[i]} ELSE {}
    <2>1. i - 1 \in 0..m /\ i \in 0..m
        BY <1>1
    <2>2. PICK sig \in SignatureType : sig = sigs[i]
        BY <1>9
    <2>3. PICK r \in Seq(Byte) : r = rest[i]
        BY <1>6, <2>1
    <2>4. PICK before \in Seq(SignatureType) :
              before = SubSeq(sigs, 1, i - 1) /\ Append(before, sig) = SubSeq(sigs, 1, i)
        <3>1. i \in 1..Len(sigs)
            BY <1>1
        <3> QED BY <2>2, <3>1, Fronts
    <2>5. PICK p \in Seq(Byte) : p = prev[i - 1]
        BY <1>11, <2>1
    <2>6. SignatureFits(sig)
        BY <1>1, <2>2
    <2>7. SignatureTurn(sig, r, p, before)
        BY <2>6, SignatureTurns
    <2>8. path[i - 1] = [rest |-> MarshalSignature(sig) \o r, previous |-> p, signatures |-> before]
        BY <1>3, <1>6, <1>8, <2>1, <2>2, <2>3, <2>4, <2>5
    <2>9. path[i] = [rest |-> r, previous |-> sig.id, signatures |-> Append(before, sig)]
        BY <1>8, <1>10, <2>1, <2>2, <2>3, <2>4
    <2> QED BY <2>2, <2>5, <2>7, <2>8, <2>9 DEF SignatureTurn
<1>13. Follows(Byte, ReadSignature, path, m)
    <2>1. \A i \in 0..m : path[i].rest = rest[i] /\ path[i].rest \in Seq(Byte)
        BY <1>6, <1>8
    <2>2. m \in 0..m /\ \A i \in 1..m : i - 1 \in 0..m /\ i \in 0..m
        BY <1>1
    <2>3. path[m].rest = <<>>
        BY <1>6, <2>1, <2>2
    <2>4. ASSUME NEW i \in 1..m
          PROVE  path[i - 1].rest # <<>> /\ Len(path[i].rest) < Len(path[i - 1].rest)
        BY <1>6, <2>1, <2>2
    <2>5. \A i \in 1..m : ReadSignature[path[i - 1]] = {} \/ ReadSignature[path[i - 1]] = {path[i]}
        BY <1>12
    <2> QED BY <2>1, <2>3, <2>4, <2>5 DEF Follows
<1>14. Reaches(ReadSignature, path, m)
    BY <1>13, LoopFollows
<1>15. path[0] = [rest |-> whole, previous |-> <<>>, signatures |-> <<>>]
    <2>1. 0 \in 0..m /\ 0 \in 0..Len(sigs)
        BY <1>1
    <2>2. SubSeq(sigs, 1, 0) = <<>>
        <3>1. SubSeq(sigs, 1, 0) \in Seq(SignatureType) /\ Len(SubSeq(sigs, 1, 0)) = 0
            BY <2>1, SplitAt
        <3> QED BY <3>1, EmptySeq
    <2> QED BY <1>6, <1>8, <1>11, <2>1, <2>2
<1>16. path[m].signatures = sigs
    <2>1. m \in 0..m
        BY <1>1
    <2> QED BY <1>1, <1>8, <2>1, SubSeqFull
<1>17. (\A i \in 1..m : ReadSignature[path[i - 1]] # {})
           <=> \A i \in 1..m : sigs[i].id # <<>> /\ ComesBefore(prev[i - 1], sigs[i].id)
    <2>1. ASSUME NEW i \in 1..m
          PROVE  ReadSignature[path[i - 1]] # {}
                     <=> sigs[i].id # <<>> /\ ComesBefore(prev[i - 1], sigs[i].id)
        <3>1. CASE sigs[i].id # <<>> /\ ComesBefore(prev[i - 1], sigs[i].id)
            BY <1>12, <3>1
        <3>2. CASE ~(sigs[i].id # <<>> /\ ComesBefore(prev[i - 1], sigs[i].id))
            BY <1>12, <3>2
        <3> QED BY <3>1, <3>2
    <2> QED BY <2>1
<1>18. (\A i \in 1..m : sigs[i].id # <<>> /\ ComesBefore(prev[i - 1], sigs[i].id))
           <=> IdsInOrder(sigs)
    <2>1. ASSUME \A i \in 1..m : sigs[i].id # <<>> /\ ComesBefore(prev[i - 1], sigs[i].id),
                 NEW i \in 1..(m - 1)
          PROVE  ComesBefore(sigs[i].id, sigs[i + 1].id)
        <3>1. PICK j \in 1..m : j = i + 1 /\ j - 1 = i /\ i \in 1..m
            BY <1>1
        <3>2. ComesBefore(prev[j - 1], sigs[j].id)
            BY <2>1
        <3>3. prev[i] = sigs[i].id
            BY <1>10, <3>1
        <3> QED BY <3>1, <3>2, <3>3
    <2>2. ASSUME \A i \in 1..m : sigs[i].id # <<>>,
                 \A i \in 1..(m - 1) : ComesBefore(sigs[i].id, sigs[i + 1].id), NEW i \in 1..m
          PROVE  ComesBefore(prev[i - 1], sigs[i].id)
        <3>1. CASE i = 1
            <4>1. prev[i - 1] = <<>>
                BY <1>11, <3>1
            <4>2. PICK id \in Seq(Byte) : id = sigs[i].id /\ id # <<>>
                BY <1>10, <2>2
            <4>3. Len(<<>>) = 0 /\ Len(id) # 0 /\ Len(id) \in Nat
                BY <4>2, EmptySeq, LenProperties
            <4>4. Len(<<>>) < Len(id)
                BY <4>3
            <4> QED BY <4>1, <4>2, <4>4 DEF ComesBefore
        <3>2. CASE i # 1
            <4>1. PICK j \in 1..(m - 1) : j = i - 1 /\ j + 1 = i /\ j \in 1..m
                BY <1>1, <3>2
            <4>2. ComesBefore(sigs[j].id, sigs[j + 1].id)
                BY <2>2
            <4>3. prev[j] = sigs[j].id
                BY <1>10, <4>1
            <4> QED BY <4>1, <4>2, <4>3
        <3> QED BY <3>1, <3>2
    <2> QED BY <1>1, <2>1, <2>2 DEF IdsInOrder
<1>19. ReadSignatures(whole) = {read.signatures : read \in WhileRest(ReadSignature, path[0])}
    BY <1>15 DEF ReadSignatures
<1>20. WhileRest(ReadSignature, path[0]) = IF IdsInOrder(sigs) THEN {path[m]} ELSE {}
    BY <1>14, <1>17, <1>18 DEF Reaches
<1>21. ReadSignatures(whole) = IF IdsInOrder(sigs) THEN {sigs} ELSE {}
    BY <1>16, <1>19, <1>20
<1> QED BY <1>5, <1>21 DEF SignaturesAreRead

(* What has been read and what is left of the signatures of a message. *)
SignaturesSoFar(s) ==
    {st \in ReadingSignatures : /\ MarshalSignatures(st.signatures) \o st.rest = s
                                /\ \A i \in DOMAIN st.signatures : SignatureFits(st.signatures[i])}

(* A signature that was read is one that was written. *)
LEMMA SignatureWasWritten ==
    ASSUME NEW st \in ReadingSignatures, NEW x \in ReadSignature[st]
    PROVE  \E sig \in SignatureType, r \in Seq(Byte) :
               /\ SignatureFits(sig)
               /\ st.rest = MarshalSignature(sig) \o r
               /\ Len(r) < Len(st.rest)
               /\ x = [rest |-> r, previous |-> sig.id, signatures |-> Append(st.signatures, sig)]
<1>1. PICK s \in Seq(Byte) : s = st.rest
    BY DEF ReadingSignatures
<1>2. PICK rid : rid = ReadPrefixed(1, s)
    OBVIOUS
<1>3. PICK rsig : rsig = ReadPrefixed(2, rid.rest)
    OBVIOUS
<1>4. /\ rid.ok /\ rsig.ok
      /\ x = [rest |-> rsig.rest, previous |-> rid.value,
              signatures |-> Append(st.signatures, [id |-> rid.value, signature |-> rsig.value])]
    BY <1>1, <1>2, <1>3 DEF ReadSignature
<1>5. Holds(1, s, rid.value, rid.rest)
    BY <1>2, <1>4, DataWasWritten
<1>6. PICK i \in Seq(Byte), t \in Seq(Byte) : i = rid.value /\ t = rid.rest
    BY <1>5 DEF Holds
<1>7. Len(i) < Limit(1) /\ Len(t) + Len(i) + 1 = Len(s) /\ s = Prefixed(1, i) \o t
    BY <1>5, <1>6 DEF Holds
<1>8. Holds(2, t, rsig.value, rsig.rest)
    BY <1>3, <1>4, <1>6, DataWasWritten
<1>9. PICK d \in Seq(Byte), r \in Seq(Byte) : d = rsig.value /\ r = rsig.rest
    BY <1>8 DEF Holds
<1>10. Len(d) < Limit(2) /\ Len(r) + Len(d) + 2 = Len(t) /\ t = Prefixed(2, d) \o r
    BY <1>8, <1>9 DEF Holds
<1>11. PICK sig \in SignatureType : sig = [id |-> i, signature |-> d]
    BY DEF SignatureType
<1>12. sig.id = i /\ sig.signature = d
    BY <1>11
<1>13. SignatureFits(sig)
    BY <1>7, <1>10, <1>12 DEF SignatureFits
<1>14. PICK a \in Seq(Byte), b \in Seq(Byte) : a = Prefixed(1, i) /\ b = Prefixed(2, d)
    BY PrefixedBytes
<1>15. s = MarshalSignature(sig) \o r
    <2>1. Regroups(a, b, r)
        BY Regroup
    <2>2. MarshalSignature(sig) = a \o b
        BY <1>12, <1>14 DEF MarshalSignature
    <2> QED BY <1>7, <1>10, <1>14, <2>1, <2>2 DEF Regroups
<1>16. Len(r) < Len(s)
    <2>1. PICK k1 \in Nat, k2 \in Nat, k3 \in Nat, k4 \in Nat :
              k1 = Len(r) /\ k2 = Len(d) /\ k3 = Len(i) /\ k4 = Len(t)
        BY LenProperties
    <2> QED BY <1>7, <1>10, <2>1
<1>17. x = [rest |-> r, previous |-> sig.id, signatures |-> Append(st.signatures, sig)]
    BY <1>4, <1>6, <1>9, <1>11, <1>12
<1> QED BY <1>1, <1>13, <1>15, <1>16, <1>17

SignaturesWere(s, sigs) ==
    /\ sigs \in Seq(SignatureType)
    /\ MarshalSignatures(sigs) = s
    /\ \A i \in DOMAIN sigs : SignatureFits(sigs[i])

(* Signatures that were read are those that were written. *)
LEMMA SignaturesWereWritten ==
    ASSUME NEW s \in Seq(Byte), NEW sigs \in ReadSignatures(s)
    PROVE  SignaturesWere(s, sigs)
<1>1. PICK State : State = SignaturesSoFar(s)
    OBVIOUS
<1>2. \A st \in State : st.rest \in Seq(Byte)
    BY <1>1 DEF SignaturesSoFar, ReadingSignatures
<1>3. ASSUME NEW st \in State, st.rest # <<>>, NEW x \in ReadSignature[st]
      PROVE  x \in State /\ Len(x.rest) < Len(st.rest)
    <2>1. st \in ReadingSignatures
        BY <1>1 DEF SignaturesSoFar
    <2>2. PICK sig \in SignatureType, r \in Seq(Byte) :
              /\ SignatureFits(sig)
              /\ st.rest = MarshalSignature(sig) \o r
              /\ Len(r) < Len(st.rest)
              /\ x = [rest |-> r, previous |-> sig.id, signatures |-> Append(st.signatures, sig)]
        BY <1>3, <2>1, SignatureWasWritten
    <2>3. PICK before \in Seq(SignatureType) : before = st.signatures
        BY <2>1 DEF ReadingSignatures
    <2>4. PICK all \in Seq(SignatureType) : all = Append(before, sig)
        BY AppendProperties
    <2>5. MarshalSignatures(before) \o st.rest = s
          /\ \A i \in DOMAIN before : SignatureFits(before[i])
        BY <1>1, <2>3 DEF SignaturesSoFar
    <2>6. PICK a \in Seq(Byte), b \in Seq(Byte) :
              a = MarshalSignatures(before) /\ b = MarshalSignature(sig)
        BY SignatureLists, SignatureBytes
    <2>7. MarshalSignatures(all) = a \o b
        <3>1. PICK f : f = SignatureBytesOf
            OBVIOUS
        <3>2. f \in [SignatureType -> Seq(Byte)] /\ f[sig] = b
            BY <2>6, <3>1, SignatureLists
        <3>3. MapsAndFlattens(Byte, f, before, sig)
            BY <3>2, FlattenMapped
        <3>4. /\ MarshalSignatures(before) = FlattenSeq([i \in DOMAIN before |-> f[before[i]]])
              /\ MarshalSignatures(all) = FlattenSeq([i \in DOMAIN all |-> f[all[i]]])
            BY <3>1, SignatureLists
        <3> QED BY <2>4, <2>6, <3>2, <3>3, <3>4 DEF MapsAndFlattens
    <2>8. MarshalSignatures(all) \o r = s
        <3>1. Regroups(a, b, r)
            BY Regroup
        <3> QED BY <2>2, <2>5, <2>6, <2>7, <3>1 DEF Regroups
    <2>9. \A i \in DOMAIN all : SignatureFits(all[i])
        <3>1. PICK n \in Nat : n = Len(before) /\ DOMAIN before = 1..n
            BY LenProperties
        <3>2. /\ DOMAIN all = 1..(n + 1) /\ all[n + 1] = sig
              /\ \A i \in 1..n : all[i] = before[i]
            <4>1. Len(all) = n + 1 /\ all[n + 1] = sig /\ \A i \in 1..n : all[i] = before[i]
                BY <2>4, <3>1, AppendProperties
            <4> QED BY <4>1, LenProperties
        <3>3. ASSUME NEW i \in DOMAIN all PROVE SignatureFits(all[i])
            <4>1. CASE i = n + 1
                BY <2>2, <3>2, <4>1
            <4>2. CASE i # n + 1
                <5>1. i \in 1..n
                    BY <3>1, <3>2, <4>2
                <5> QED BY <2>5, <3>1, <3>2, <5>1
            <4> QED BY <4>1, <4>2
        <3> QED BY <3>3
    <2>10. x.rest = r /\ x.signatures = all
        BY <2>2, <2>3, <2>4
    <2>11. x \in ReadingSignatures
        <3>1. sig.id \in Seq(Byte)
            BY SignatureBytes
        <3> QED BY <2>2, <2>3, <2>4, <3>1 DEF ReadingSignatures
    <2> QED BY <1>1, <2>2, <2>8, <2>9, <2>10, <2>11 DEF SignaturesSoFar
<1>4. PICK first : first = [rest |-> s, previous |-> <<>>, signatures |-> <<>>]
    OBVIOUS
<1>5. <<>> \in Seq(SignatureType) /\ <<>> \in Seq(Byte) /\ Len(<<>>) = 0
    BY EmptySeq
<1>6. MarshalSignatures(<<>>) = <<>>
    <2>1. PICK f : f = SignatureBytesOf
        OBVIOUS
    <2>2. f \in [SignatureType -> Seq(Byte)] /\ \A sig \in SignatureType : f[sig] # <<>>
        BY <1>5, <2>1, SignatureLists
    <2>3. PICK g : ListPath(Byte, f, <<>>, g)
        BY <1>5, <2>2, ListPaths
    <2>4. MarshalSignatures(<<>>) = FlattenSeq([i \in DOMAIN <<>> |-> f[<<>>[i]]])
        BY <1>5, <2>1, SignatureLists
    <2>5. MarshalSignatures(<<>>) = g[0] /\ g[Len(<<>>)] = <<>>
        BY <2>3, <2>4 DEF ListPath
    <2> QED BY <1>5, <2>5
<1>7. first \in State
    <2>1. <<>> \o s = s
        BY ConcatEmptySeq
    <2>2. \A i \in DOMAIN <<>> : SignatureFits(<<>>[i])
        <3>1. DOMAIN <<>> = {}
            BY <1>5, LenProperties
        <3> QED BY <3>1
    <2>3. first \in ReadingSignatures
        BY <1>4, <1>5 DEF ReadingSignatures
    <2> QED BY <1>1, <1>4, <1>6, <2>1, <2>2, <2>3 DEF SignaturesSoFar
<1>8. \A st \in State : st.rest # <<>> =>
          ReadSignature[st] \subseteq State /\ \A x \in ReadSignature[st] : Len(x.rest) < Len(st.rest)
    BY <1>3
<1>9. \A st \in WhileRest(ReadSignature, first) : st \in State /\ st.rest = <<>>
    BY <1>2, <1>7, <1>8, LoopEnds
<1>10. PICK st \in WhileRest(ReadSignature, first) : sigs = st.signatures
    BY <1>4 DEF ReadSignatures
<1>11. st \in SignaturesSoFar(s) /\ st.rest = <<>>
    BY <1>1, <1>9, <1>10
<1>12. sigs \in Seq(SignatureType) /\ \A i \in DOMAIN sigs : SignatureFits(sigs[i])
    BY <1>10, <1>11 DEF SignaturesSoFar, ReadingSignatures
<1>13. MarshalSignatures(sigs) \o <<>> = s
    BY <1>10, <1>11 DEF SignaturesSoFar
<1>14. MarshalSignatures(sigs) \o <<>> = MarshalSignatures(sigs)
    <2>1. MarshalSignatures(sigs) \in Seq(Byte)
        BY <1>12, SignatureLists
    <2> QED BY <2>1, ConcatEmptySeq
<1> QED BY <1>12, <1>13, <1>14 DEF SignaturesWere

-----------------------------------------------------------------------------
(* Messages *)

RegroupsFive(a, b, c, d, e) ==
    (((a \o b) \o c) \o d) \o e = a \o (b \o (c \o (d \o e)))

LEMMA FiveParts ==
    ASSUME NEW D, NEW a \in Seq(D), NEW b \in Seq(D), NEW c \in Seq(D), NEW d \in Seq(D),
           NEW e \in Seq(D)
    PROVE  RegroupsFive(a, b, c, d, e)
<1>1. PICK de \in Seq(D) : de = d \o e
    BY ConcatProperties
<1>2. PICK cde \in Seq(D) : cde = c \o de
    BY ConcatProperties
<1>3. PICK ab \in Seq(D) : ab = a \o b
    BY ConcatProperties
<1>4. PICK abc \in Seq(D) : abc = ab \o c
    BY ConcatProperties
<1>5. (abc \o d) \o e = abc \o de
    <2>1. Regroups(abc, d, e)
        BY Regroup
    <2> QED BY <1>1, <2>1 DEF Regroups
<1>6. abc \o de = ab \o cde
    <2>1. Regroups(ab, c, de)
        BY Regroup
    <2> QED BY <1>2, <1>4, <2>1 DEF Regroups
<1>7. ab \o cde = a \o (b \o cde)
    <2>1. Regroups(a, b, cde)
        BY Regroup
    <2> QED BY <1>3, <2>1 DEF Regroups
<1> QED BY <1>1, <1>2, <1>3, <1>4, <1>5, <1>6, <1>7 DEF RegroupsFive

(* What Marshal puts together. *)
Message(list, start, end, proof, sigs) ==
    Prefixed(2, list) \o (BigEndian(start, OffsetBytes) \o (BigEndian(end, OffsetBytes)
        \o (Prefixed(2, proof) \o Prefixed(3, sigs))))

LEMMA MessageBytes ==
    ASSUME NEW list \in Seq(Byte), NEW start \in Nat, NEW end \in Nat, NEW proof \in Seq(Byte),
           NEW sigs \in Seq(Byte)
    PROVE  /\ Message(list, start, end, proof, sigs) \in Seq(Byte)
           /\ RegroupsFive(Prefixed(2, list), BigEndian(start, OffsetBytes),
                           BigEndian(end, OffsetBytes), Prefixed(2, proof), Prefixed(3, sigs))
<1>1. PICK a \in Seq(Byte), d \in Seq(Byte), e \in Seq(Byte) :
          a = Prefixed(2, list) /\ d = Prefixed(2, proof) /\ e = Prefixed(3, sigs)
    BY PrefixedBytes
<1>2. PICK b \in Seq(Byte), c \in Seq(Byte) :
          b = BigEndian(start, OffsetBytes) /\ c = BigEndian(end, OffsetBytes)
    BY BigEndianBytes, ProofConstants
<1>3. RegroupsFive(a, b, c, d, e)
    BY FiveParts
<1>4. PICK de \in Seq(Byte) : de = d \o e
    BY ConcatProperties
<1>5. PICK cde \in Seq(Byte) : cde = c \o de
    BY ConcatProperties
<1>6. PICK bcde \in Seq(Byte) : bcde = b \o cde
    BY ConcatProperties
<1>7. a \o bcde \in Seq(Byte)
    BY ConcatProperties
<1> QED BY <1>1, <1>2, <1>3, <1>4, <1>5, <1>6, <1>7 DEF Message

MessageFits(list, start, end, proof, sigs) ==
    /\ Len(list) < Limit(2)
    /\ start < Limit(OffsetBytes)
    /\ end < Limit(OffsetBytes)
    /\ Len(proof) < Limit(2)
    /\ Len(sigs) < Limit(3)

MessageIsRead(list, start, end, proof, sigs) ==
    UnmarshalMTCProof(Message(list, start, end, proof, sigs)) =
        IF ExtensionsInOrder(list) /\ Len(proof) % HashSize = 0
        THEN {[extensions |-> {Prefixed(2, list)}, start |-> start, end |-> end,
               inclusionProof |-> proof, signatures |-> signatures] :
                  signatures \in ReadSignatures(sigs)}
        ELSE {}

(* The parts of a message are read as they were written, *)
LEMMA MessagesAreRead ==
    ASSUME NEW list \in Seq(Byte), NEW start \in Nat, NEW end \in Nat, NEW proof \in Seq(Byte),
           NEW sigs \in Seq(Byte), MessageFits(list, start, end, proof, sigs)
    PROVE  MessageIsRead(list, start, end, proof, sigs)
<1>1. PICK a \in Seq(Byte), d \in Seq(Byte), e \in Seq(Byte) :
          a = Prefixed(2, list) /\ d = Prefixed(2, proof) /\ e = Prefixed(3, sigs)
    BY PrefixedBytes
<1>2. PICK b \in Seq(Byte), c \in Seq(Byte) :
          b = BigEndian(start, OffsetBytes) /\ c = BigEndian(end, OffsetBytes)
    BY BigEndianBytes, ProofConstants
<1>3. PICK r4 \in Seq(Byte) : r4 = d \o e
    BY ConcatProperties
<1>4. PICK r3 \in Seq(Byte) : r3 = c \o r4
    BY ConcatProperties
<1>5. PICK r2 \in Seq(Byte) : r2 = b \o r3
    BY ConcatProperties
<1>6. PICK s \in Seq(Byte) : s = a \o r2
    BY ConcatProperties
<1>7. s = Message(list, start, end, proof, sigs)
    BY <1>1, <1>2, <1>3, <1>4, <1>5, <1>6 DEF Message
<1>8. /\ Len(list) < Limit(2) /\ Len(proof) < Limit(2) /\ Len(sigs) < Limit(3)
      /\ start < Limit(OffsetBytes) /\ end < Limit(OffsetBytes) /\ OffsetBytes \in Nat
    BY ProofConstants DEF MessageFits
<1>9. ReadsAs(ReadPrefixed(2, s), list, r2)
    <2>1. ReadsAs(ReadPrefixed(2, Prefixed(2, list) \o r2), list, r2)
        BY <1>8, DataIsRead
    <2> QED BY <1>1, <1>6, <2>1
<1>10. ReadsAs(ReadNumber(OffsetBytes, r2), start, r3)
    <2>1. ReadsAs(ReadNumber(OffsetBytes, BigEndian(start, OffsetBytes) \o r3), start, r3)
        BY <1>8, NumberIsRead
    <2> QED BY <1>2, <1>5, <2>1
<1>11. ReadsAs(ReadNumber(OffsetBytes, r3), end, r4)
    <2>1. ReadsAs(ReadNumber(OffsetBytes, BigEndian(end, OffsetBytes) \o r4), end, r4)
        BY <1>8, NumberIsRead
    <2> QED BY <1>2, <1>4, <2>1
<1>12. ReadsAs(ReadPrefixed(2, r4), proof, e)
    <2>1. ReadsAs(ReadPrefixed(2, Prefixed(2, proof) \o e), proof, e)
        BY <1>8, DataIsRead
    <2> QED BY <1>1, <1>3, <2>1
<1>13. ReadsAs(ReadPrefixed(3, e), sigs, <<>>)
    <2>1. <<>> \in Seq(Byte)
        BY EmptySeq
    <2>2. ReadsAs(ReadPrefixed(3, Prefixed(3, sigs) \o <<>>), sigs, <<>>)
        BY <1>8, <2>1, DataIsRead
    <2>3. e \o <<>> = e
        BY ConcatEmptySeq
    <2> QED BY <1>1, <2>2, <2>3
<1>14. PICK x1, x2, x3, x4, x5 :
           /\ x1 = ReadPrefixed(2, s)
           /\ x2 = ReadNumber(OffsetBytes, r2)
           /\ x3 = ReadNumber(OffsetBytes, r3)
           /\ x4 = ReadPrefixed(2, r4)
           /\ x5 = ReadPrefixed(3, e)
    OBVIOUS
<1>15. /\ x1.ok /\ x1.value = list /\ x1.rest = r2
       /\ x2.ok /\ x2.value = start /\ x2.rest = r3
       /\ x3.ok /\ x3.value = end /\ x3.rest = r4
       /\ x4.ok /\ x4.value = proof /\ x4.rest = e
       /\ x5.ok /\ x5.value = sigs /\ x5.rest = <<>>
    BY <1>9, <1>10, <1>11, <1>12, <1>13, <1>14 DEF ReadsAs
<1>16. UnmarshalMTCProof(s) =
           IF ExtensionsInOrder(list) /\ Len(proof) % HashSize = 0
           THEN {[extensions |-> {Prefixed(2, list)}, start |-> start, end |-> end,
                  inclusionProof |-> proof, signatures |-> signatures] :
                     signatures \in ReadSignatures(sigs)}
           ELSE {}
    BY <1>14, <1>15 DEF UnmarshalMTCProof
<1> QED BY <1>7, <1>16 DEF MessageIsRead

MessageWas(data, p, list, start, end, proof, sigs) ==
    /\ data = Message(list, start, end, proof, sigs)
    /\ MessageFits(list, start, end, proof, sigs)
    /\ p = [extensions |-> {Prefixed(2, list)}, start |-> start, end |-> end,
            inclusionProof |-> proof, signatures |-> p.signatures]
    /\ p.signatures \in ReadSignatures(sigs)

(* and a message that can be read consists of what was read. *)
LEMMA MessagesWereWritten ==
    ASSUME NEW data \in Seq(Byte), NEW p \in UnmarshalMTCProof(data)
    PROVE  \E list \in Seq(Byte), start \in Nat, end \in Nat, proof \in Seq(Byte),
              sigs \in Seq(Byte) : MessageWas(data, p, list, start, end, proof, sigs)
<1>1. PICK x1 : x1 = ReadPrefixed(2, data)
    OBVIOUS
<1>2. PICK x2 : x2 = ReadNumber(OffsetBytes, x1.rest)
    OBVIOUS
<1>3. PICK x3 : x3 = ReadNumber(OffsetBytes, x2.rest)
    OBVIOUS
<1>4. PICK x4 : x4 = ReadPrefixed(2, x3.rest)
    OBVIOUS
<1>5. PICK x5 : x5 = ReadPrefixed(3, x4.rest)
    OBVIOUS
<1>6. x1.ok /\ x2.ok /\ x3.ok /\ x4.ok /\ x5.ok /\ x5.rest = <<>>
    BY <1>1, <1>2, <1>3, <1>4, <1>5 DEF UnmarshalMTCProof
<1>7. \E signatures \in ReadSignatures(x5.value) :
          p = [extensions |-> {Prefixed(2, x1.value)}, start |-> x2.value, end |-> x3.value,
               inclusionProof |-> x4.value, signatures |-> signatures]
    BY <1>1, <1>2, <1>3, <1>4, <1>5 DEF UnmarshalMTCProof
<1>8. OffsetBytes \in Nat
    BY ProofConstants
<1>9. Holds(2, data, x1.value, x1.rest)
    BY <1>1, <1>6, DataWasWritten
<1>10. PICK list \in Seq(Byte), r2 \in Seq(Byte) :
           /\ list = x1.value /\ r2 = x1.rest
           /\ Len(list) < Limit(2) /\ data = Prefixed(2, list) \o r2
    BY <1>9 DEF Holds
<1>11. HoldsNumber(OffsetBytes, r2, x2.value, x2.rest)
    BY <1>2, <1>6, <1>8, <1>10, NumberWasWritten
<1>12. PICK start \in Nat, r3 \in Seq(Byte) :
           /\ start = x2.value /\ r3 = x2.rest
           /\ start < Limit(OffsetBytes) /\ r2 = BigEndian(start, OffsetBytes) \o r3
    BY <1>11 DEF HoldsNumber
<1>13. HoldsNumber(OffsetBytes, r3, x3.value, x3.rest)
    BY <1>3, <1>6, <1>8, <1>12, NumberWasWritten
<1>14. PICK end \in Nat, r4 \in Seq(Byte) :
           /\ end = x3.value /\ r4 = x3.rest
           /\ end < Limit(OffsetBytes) /\ r3 = BigEndian(end, OffsetBytes) \o r4
    BY <1>13 DEF HoldsNumber
<1>15. Holds(2, r4, x4.value, x4.rest)
    BY <1>4, <1>6, <1>14, DataWasWritten
<1>16. PICK proof \in Seq(Byte), r5 \in Seq(Byte) :
           /\ proof = x4.value /\ r5 = x4.rest
           /\ Len(proof) < Limit(2) /\ r4 = Prefixed(2, proof) \o r5
    BY <1>15 DEF Holds
<1>17. Holds(3, r5, x5.value, x5.rest)
    BY <1>5, <1>6, <1>16, DataWasWritten
<1>18. PICK sigs \in Seq(Byte) :
           sigs = x5.value /\ Len(sigs) < Limit(3) /\ r5 = Prefixed(3, sigs) \o <<>>
    BY <1>6, <1>17 DEF Holds
<1>19. r5 = Prefixed(3, sigs)
    <2>1. PICK e \in Seq(Byte) : e = Prefixed(3, sigs)
        BY PrefixedBytes
    <2>2. e \o <<>> = e
        BY ConcatEmptySeq
    <2> QED BY <1>18, <2>1, <2>2
<1>20. data = Message(list, start, end, proof, sigs)
    BY <1>10, <1>12, <1>14, <1>16, <1>19 DEF Message
<1>21. MessageFits(list, start, end, proof, sigs)
    BY <1>10, <1>12, <1>14, <1>16, <1>18 DEF MessageFits
<1>22. PICK signatures \in ReadSignatures(sigs) :
           p = [extensions |-> {Prefixed(2, list)}, start |-> start, end |-> end,
                inclusionProof |-> proof, signatures |-> signatures]
    BY <1>7, <1>10, <1>12, <1>14, <1>16, <1>18
<1>23. p.signatures = signatures
    BY <1>22
<1>24. MessageWas(data, p, list, start, end, proof, sigs)
    BY <1>20, <1>21, <1>22, <1>23 DEF MessageWas
<1> QED BY <1>24

(* There is one way to write what was read. *)
LEMMA MessagesAreCanonical ==
    ASSUME NEW data \in Seq(Byte), NEW p \in UnmarshalMTCProof(data)
    PROVE  Marshal(p) = {data}
<1>1. PICK list \in Seq(Byte), start \in Nat, end \in Nat, proof \in Seq(Byte),
           sigs \in Seq(Byte) : MessageWas(data, p, list, start, end, proof, sigs)
    BY MessagesWereWritten
<1>2. PICK ss : ss = p.signatures
    OBVIOUS
<1>3. /\ data = Message(list, start, end, proof, sigs)
      /\ MessageFits(list, start, end, proof, sigs)
      /\ p = [extensions |-> {Prefixed(2, list)}, start |-> start, end |-> end,
              inclusionProof |-> proof, signatures |-> ss]
      /\ ss \in ReadSignatures(sigs)
    BY <1>1, <1>2 DEF MessageWas
<1>4. SignaturesWere(sigs, ss)
    BY <1>3, SignaturesWereWritten
<1>5. MarshalSignatures(ss) = sigs /\ \A i \in DOMAIN ss : SignatureFits(ss[i])
    BY <1>4 DEF SignaturesWere
<1>6. PICK raw : raw = Prefixed(2, list)
    OBVIOUS
<1>7. p.extensions # Nil /\ (CHOOSE bytes \in p.extensions : TRUE) = raw
    <2>1. PICK X : X = {raw}
        OBVIOUS
    <2>2. p.extensions = X
        BY <1>3, <1>6, <2>1
    <2>3. (CHOOSE bytes \in X : TRUE) \in X
        BY <2>1
    <2> QED BY <2>1, <2>2, <2>3 DEF Nil
<1>8. /\ p.start = start /\ p.end = end /\ p.inclusionProof = proof
      /\ p.signatures = ss
    BY <1>3
<1>9. /\ Fits(2, proof) /\ Fits(3, sigs)
      /\ \A i \in DOMAIN ss : Fits(1, ss[i].id) /\ Fits(2, ss[i].signature)
    BY <1>3, <1>5 DEF Fits, MessageFits, SignatureFits
<1>10. Marshal(p) = {(((raw \o BigEndian(start, OffsetBytes)) \o BigEndian(end, OffsetBytes))
                          \o Prefixed(2, proof)) \o Prefixed(3, sigs)}
    BY <1>5, <1>7, <1>8, <1>9 DEF Marshal
<1>11. RegroupsFive(raw, BigEndian(start, OffsetBytes), BigEndian(end, OffsetBytes),
                    Prefixed(2, proof), Prefixed(3, sigs))
    BY <1>6, MessageBytes
<1>12. (((raw \o BigEndian(start, OffsetBytes)) \o BigEndian(end, OffsetBytes))
                          \o Prefixed(2, proof)) \o Prefixed(3, sigs) = data
    BY <1>3, <1>6, <1>11 DEF RegroupsFive, Message
<1> QED BY <1>10, <1>12

-----------------------------------------------------------------------------
(* Certificates *)

Joins(a, b, c, d, e, f, g) ==
    (<<a, b, c, d>> \o <<e, f>>) \o <<g>> = <<a, b, c, d, e, f, g>>

LEMMA Seven ==
    ASSUME NEW a, NEW b, NEW c, NEW d, NEW e, NEW f, NEW g
    PROVE  Joins(a, b, c, d, e, f, g)
<1>1. PICK D : a \in D /\ b \in D /\ c \in D /\ d \in D /\ e \in D /\ f \in D /\ g \in D
    <2>1. PICK D : D = {a, b, c, d, e, f, g}
        OBVIOUS
    <2> QED BY <2>1
<1>2. PICK x, y, z, w :
          x = <<a, b, c, d>> /\ y = <<e, f>> /\ z = <<g>> /\ w = <<a, b, c, d, e, f, g>>
    OBVIOUS
<1>3. x \in Seq(D) /\ y \in Seq(D) /\ z \in Seq(D) /\ w \in Seq(D)
    BY <1>1, <1>2
<1>4. /\ Len(x) = 4 /\ x[1] = a /\ x[2] = b /\ x[3] = c /\ x[4] = d
      /\ Len(y) = 2 /\ y[1] = e /\ y[2] = f
      /\ Len(z) = 1 /\ z[1] = g
    BY <1>2
<1>5. /\ Len(w) = 7 /\ w[1] = a /\ w[2] = b /\ w[3] = c /\ w[4] = d /\ w[5] = e /\ w[6] = f /\ w[7] = g
    BY <1>2
<1>6. PICK xy \in Seq(D) : xy = x \o y
    BY <1>3, ConcatProperties
<1>7. /\ Len(xy) = Len(x) + Len(y)
      /\ \A i \in 1..(Len(x) + Len(y)) : xy[i] = IF i <= Len(x) THEN x[i] ELSE y[i - Len(x)]
    BY <1>3, <1>6, ConcatProperties
<1>8. /\ Len(xy) = 6
      /\ xy[1] = a /\ xy[2] = b /\ xy[3] = c /\ xy[4] = d /\ xy[5] = e /\ xy[6] = f
    BY <1>4, <1>7
<1>9. PICK v \in Seq(D) : v = xy \o z
    BY <1>3, ConcatProperties
<1>10. /\ Len(v) = Len(xy) + Len(z)
       /\ \A i \in 1..(Len(xy) + Len(z)) : v[i] = IF i <= Len(xy) THEN xy[i] ELSE z[i - Len(xy)]
    BY <1>3, <1>9, ConcatProperties
<1>11. Len(v) = 7 /\ v[1] = a /\ v[2] = b /\ v[3] = c /\ v[4] = d /\ v[5] = e /\ v[6] = f /\ v[7] = g
    BY <1>4, <1>8, <1>10
<1>12. Len(v) = Len(w) /\ \A i \in 1..Len(v) : v[i] = w[i]
    BY <1>5, <1>11
<1>13. v = w
    BY <1>3, <1>12, SeqEqual
<1> QED BY <1>2, <1>6, <1>9, <1>13 DEF Joins

LEMMA Six ==
    ASSUME NEW a, NEW b, NEW c, NEW d, NEW e, NEW f
    PROVE  (<<a>> \o <<b, c, d>>) \o <<e, f>> = <<a, b, c, d, e, f>>
<1>1. PICK D : a \in D /\ b \in D /\ c \in D /\ d \in D /\ e \in D /\ f \in D
    <2>1. PICK D : D = {a, b, c, d, e, f}
        OBVIOUS
    <2> QED BY <2>1
<1>2. PICK x, y, z, w :
          x = <<a>> /\ y = <<b, c, d>> /\ z = <<e, f>> /\ w = <<a, b, c, d, e, f>>
    OBVIOUS
<1>3. x \in Seq(D) /\ y \in Seq(D) /\ z \in Seq(D) /\ w \in Seq(D)
    BY <1>1, <1>2
<1>4. /\ Len(x) = 1 /\ x[1] = a
      /\ Len(y) = 3 /\ y[1] = b /\ y[2] = c /\ y[3] = d
      /\ Len(z) = 2 /\ z[1] = e /\ z[2] = f
    BY <1>2
<1>5. Len(w) = 6 /\ w[1] = a /\ w[2] = b /\ w[3] = c /\ w[4] = d /\ w[5] = e /\ w[6] = f
    BY <1>2
<1>6. PICK xy \in Seq(D) : xy = x \o y
    BY <1>3, ConcatProperties
<1>7. /\ Len(xy) = Len(x) + Len(y)
      /\ \A i \in 1..(Len(x) + Len(y)) : xy[i] = IF i <= Len(x) THEN x[i] ELSE y[i - Len(x)]
    BY <1>3, <1>6, ConcatProperties
<1>8. Len(xy) = 4 /\ xy[1] = a /\ xy[2] = b /\ xy[3] = c /\ xy[4] = d
    BY <1>4, <1>7
<1>9. PICK v \in Seq(D) : v = xy \o z
    BY <1>3, ConcatProperties
<1>10. /\ Len(v) = Len(xy) + Len(z)
       /\ \A i \in 1..(Len(xy) + Len(z)) : v[i] = IF i <= Len(xy) THEN xy[i] ELSE z[i - Len(xy)]
    BY <1>3, <1>9, ConcatProperties
<1>11. Len(v) = 6 /\ v[1] = a /\ v[2] = b /\ v[3] = c /\ v[4] = d /\ v[5] = e /\ v[6] = f
    BY <1>4, <1>8, <1>10
<1>12. Len(v) = Len(w) /\ \A i \in 1..Len(v) : v[i] = w[i]
    BY <1>5, <1>11
<1>13. v = w
    BY <1>3, <1>12, SeqEqual
<1> QED BY <1>2, <1>6, <1>9, <1>13

LEMMA FourToSix ==
    ASSUME NEW a, NEW b, NEW c, NEW d, NEW e, NEW f, NEW g
    PROVE  SubSeq(<<a, b, c, d, e, f, g>>, 4, 6) = <<d, e, f>>
<1>1. PICK D : a \in D /\ b \in D /\ c \in D /\ d \in D /\ e \in D /\ f \in D /\ g \in D
    <2>1. PICK D : D = {a, b, c, d, e, f, g}
        OBVIOUS
    <2> QED BY <2>1
<1>2. PICK w, x : w = <<a, b, c, d, e, f, g>> /\ x = <<d, e, f>>
    OBVIOUS
<1>3. x \in Seq(D) /\ Len(x) = 3 /\ x[1] = d /\ x[2] = e /\ x[3] = f
    BY <1>1, <1>2
<1>4. w[4] = d /\ w[5] = e /\ w[6] = f
    BY <1>2
<1>5. \A i \in 4..6 : w[i] \in D
    BY <1>1, <1>4
<1>6. PICK v : v = SubSeq(w, 4, 6)
    OBVIOUS
<1>7. /\ v \in Seq(D) /\ Len(v) = IF 4 <= 6 THEN 6 - 4 + 1 ELSE 0
      /\ \A i \in 1..(6 - 4 + 1) : v[i] = w[4 + i - 1]
    BY <1>5, <1>6, SubSeqProperties
<1>8. Len(v) = 3 /\ v[1] = d /\ v[2] = e /\ v[3] = f
    BY <1>4, <1>7
<1>9. Len(v) = Len(x) /\ \A i \in 1..Len(v) : v[i] = x[i]
    BY <1>3, <1>8
<1>10. v = x
    BY <1>3, <1>7, <1>9, SeqEqual
<1> QED BY <1>2, <1>6, <1>10

EntryFor(issuer, validity, subject, spki) ==
    <<Version, issuer, validity, subject, spki.value[1], SHA256(spki)>>

(* What is certified, and the entry that stands for it. *)
Certified(tbs, serial, f) ==
    tbs = <<Version, Element("INTEGER", serial), SigAlg, Issuer(f.issuer),
            Validity(f.from, f.to), Subject(f.cn), SPKI(f.key)>>

EntryOf(f) == EntryFor(Issuer(f.issuer), Validity(f.from, f.to), Subject(f.cn), SPKI(f.key))

(* The entry of a TBSCertificate with the elements in their order. *)
LEMMA EntryRebuilt ==
    ASSUME NEW serial, NEW f, NEW tbs, Certified(tbs, serial, f)
    PROVE  BuildTBSCertificateLogEntry(tbs) = {EntryOf(f)}
<1>1. PICK i, v, s, k : /\ i = Issuer(f.issuer) /\ v = Validity(f.from, f.to)
                        /\ s = Subject(f.cn) /\ k = SPKI(f.key)
    OBVIOUS
<1>2. PICK n : n = Element("INTEGER", serial)
    OBVIOUS
<1>3. tbs = <<Version, n, SigAlg, i, v, s, k>>
    BY <1>1, <1>2 DEF Certified
<1>4. /\ Version.tag = "[0]" /\ n.tag = "INTEGER" /\ SigAlg.tag = "SEQUENCE" /\ i.tag = "SEQUENCE"
      /\ v.tag = "SEQUENCE" /\ s.tag = "SEQUENCE" /\ k.tag = "SEQUENCE"
    BY <1>1, <1>2 DEF Version, SigAlg, Issuer, Validity, Subject, SPKI, Element
<1>5. Has(k.value, 1, "SEQUENCE")
    <2>1. PICK a, b : a = Element("SEQUENCE", "id-ecPublicKey") /\ b = Element("BIT STRING", f.key)
        OBVIOUS
    <2>2. a.tag = "SEQUENCE"
        BY <2>1 DEF Element
    <2>3. k = Element("SEQUENCE", <<a, b>>)
        BY <1>1, <2>1 DEF SPKI
    <2>4. k.value = <<a, b>>
        BY <2>3 DEF Element
    <2>5. DOMAIN k.value = 1..2 /\ k.value[1] = a
        BY <2>4
    <2> QED BY <2>2, <2>5 DEF Has
<1>6. /\ DOMAIN tbs = 1..7
      /\ tbs[1] = Version /\ tbs[2] = n /\ tbs[3] = SigAlg /\ tbs[4] = i /\ tbs[5] = v
      /\ tbs[6] = s /\ tbs[7] = k
    BY <1>3
<1>7. Has(tbs, 1, "[0]") /\ Has(tbs, 2, "INTEGER")
    BY <1>4, <1>6 DEF Has
<1>8. \A j \in 2..6 : Has(tbs, 1 + j, "SEQUENCE")
    BY <1>4, <1>6 DEF Has
<1>9. OptionalFields(tbs, 8) = <<>>
    <2>1. \A tag : ~Has(tbs, 8, tag)
        BY <1>6 DEF Has
    <2>2. OptionalFields(tbs, 8) = SubSeq(tbs, 8, 8 - 1)
        BY <2>1 DEF OptionalFields
    <2>3. SubSeq(tbs, 8, 8 - 1) = <<>>
        BY SubSeqEmpty
    <2> QED BY <2>2, <2>3
<1>10. SubSeq(tbs, 4, 6) = <<i, v, s>>
    BY <1>3, FourToSix
<1>11. PICK r : r = EntryFor(i, v, s, k)
    OBVIOUS
<1>12. (<<Version>> \o <<i, v, s>>) \o <<k.value[1], SHA256(k)>> = r
    BY <1>11, Six DEF EntryFor
<1>13. r \o <<>> = r
    <2>1. PICK D : \A j \in 1..6 : r[j] \in D
        <3>1. PICK D : D = {r[1], r[2], r[3], r[4], r[5], r[6]}
            OBVIOUS
        <3>2. \A j \in 1..6 : j = 1 \/ j = 2 \/ j = 3 \/ j = 4 \/ j = 5 \/ j = 6
            OBVIOUS
        <3> QED BY <3>1, <3>2
    <2>2. r \in Seq(D)
        BY <1>11, <2>1 DEF EntryFor
    <2> QED BY <2>2, ConcatEmptySeq
<1>14. PICK at : at = 1 /\ at = IF Has(tbs, 1, "[0]") THEN 1 ELSE 0
    BY <1>7
<1>15. /\ Has(tbs, at + 1, "INTEGER")
       /\ \A j \in 2..6 : Has(tbs, at + j, "SEQUENCE")
       /\ Has(tbs[at + 6].value, 1, "SEQUENCE")
    BY <1>5, <1>6, <1>7, <1>8, <1>14
<1>16. /\ SubSeq(tbs, at + 3, at + 5) = <<i, v, s>>
       /\ tbs[at + 6] = k
       /\ OptionalFields(tbs, at + 7) = <<>>
    BY <1>6, <1>9, <1>10, <1>14
<1>17. BuildTBSCertificateLogEntry(tbs) =
           {((<<Version>> \o SubSeq(tbs, at + 3, at + 5))
                \o <<tbs[at + 6].value[1], SHA256(tbs[at + 6])>>) \o OptionalFields(tbs, at + 7)}
    BY <1>14, <1>15 DEF BuildTBSCertificateLogEntry
<1>18. BuildTBSCertificateLogEntry(tbs) = {r}
    BY <1>12, <1>13, <1>16, <1>17
<1> QED BY <1>1, <1>11, <1>18 DEF EntryOf

(* Entries of different fields differ. *)
LEMMA EntriesDiffer ==
    ASSUME NEW f, NEW g, EntryOf(f) = EntryOf(g)
    PROVE  /\ f.issuer = g.issuer /\ f.from = g.from /\ f.to = g.to /\ f.cn = g.cn
           /\ f.key = g.key
<1>1. /\ Issuer(f.issuer) = Issuer(g.issuer)
      /\ Validity(f.from, f.to) = Validity(g.from, g.to)
      /\ Subject(f.cn) = Subject(g.cn)
      /\ SHA256(SPKI(f.key)) = SHA256(SPKI(g.key))
    BY DEF EntryOf, EntryFor
<1>2. SPKI(f.key) = SPKI(g.key)
    BY <1>1 DEF SHA256, Element
<1>3. f.issuer = g.issuer
    BY <1>1 DEF Issuer, Element
<1>4. f.from = g.from /\ f.to = g.to
    BY <1>1 DEF Validity, Element
<1>5. f.cn = g.cn
    BY <1>1 DEF Subject, Element
<1>6. f.key = g.key
    BY <1>2 DEF SPKI, Element
<1> QED BY <1>3, <1>4, <1>5, <1>6

-----------------------------------------------------------------------------
(* The specification *)

(* The item is one of these, of parts that a caller may pass or a message   *)
(* may have.                                                                *)
HoldsId ==
    /\ item.kind = "id"
    /\ item = [kind |-> "id", bytes |-> item.bytes]
    /\ item.bytes \in Seq(Byte)

HoldsProof ==
    /\ item.kind = "proof"
    /\ item = [kind |-> "proof", exts |-> item.exts, start |-> item.start, end |-> item.end,
               inclusionProof |-> item.inclusionProof, signatures |-> item.signatures]
    /\ item.exts \in Seq(ExtensionType)
    /\ item.start \in Nat /\ item.end \in Nat
    /\ item.inclusionProof \in Seq(Byte)
    /\ item.signatures \in Seq(SignatureType)

HoldsMessage ==
    /\ item.kind = "message"
    /\ item = [kind |-> "message", bytes |-> item.bytes, damaged |-> item.damaged]
    /\ item.bytes \in Seq(Byte)

(* The TBSCertificate of "ca issue" is that of the fields. *)
HoldsCertificate ==
    /\ item.kind = "certificate"
    /\ item.fields \in Fields
    /\ item.callback = "validity, subject" =>
           \E serial \in Serials :
               item.tbs = CertificateTBS(serial, item.fields.issuer,
                              <<Validity(item.fields.from, item.fields.to),
                                Subject(item.fields.cn)>>, item.fields.key)

WireInv == item = Nothing \/ HoldsId \/ HoldsProof \/ HoldsMessage \/ HoldsCertificate

LEMMA Kinds ==
    ASSUME WireInv
    PROVE  /\ item.kind = "id" => HoldsId
           /\ item.kind = "proof" => HoldsProof
           /\ item.kind = "message" => HoldsMessage
           /\ item.kind = "certificate" => HoldsCertificate
           /\ item.kind = "nothing" => item = Nothing
<1>1. item = Nothing => item.kind = "nothing"
    BY DEF Nothing
<1>2. /\ HoldsId => item.kind = "id"
      /\ HoldsProof => item.kind = "proof"
      /\ HoldsMessage => item.kind = "message"
      /\ HoldsCertificate => item.kind = "certificate"
    BY DEF HoldsId, HoldsProof, HoldsMessage, HoldsCertificate
<1> QED BY <1>1, <1>2 DEF WireInv

(* What is sent of a proof is its parts one after the other. *)
ProofMessage ==
    Message(ExtensionList(item.exts), item.start, item.end, item.inclusionProof,
            MarshalSignatures(item.signatures))

RawBytes(p) == CHOOSE bytes \in p.extensions : TRUE

SentAs(bytes) ==
    /\ bytes = ProofMessage
    /\ bytes \in Seq(Byte)
    /\ Len(item.inclusionProof) < Limit(2)
    /\ Len(MarshalSignatures(item.signatures)) < Limit(3)
    /\ \A i \in DOMAIN item.signatures : SignatureFits(item.signatures[i])

LEMMA ProofIsSent ==
    ASSUME HoldsProof, NEW bytes \in Marshal(Proof)
    PROVE  SentAs(bytes)
<1>1. PICK exts \in Seq(ExtensionType), start \in Nat, end \in Nat, proof \in Seq(Byte),
           ss \in Seq(SignatureType) :
               /\ exts = item.exts /\ start = item.start /\ end = item.end
               /\ proof = item.inclusionProof /\ ss = item.signatures
    BY DEF HoldsProof
<1>2. PICK list \in Seq(Byte), sigs \in Seq(Byte) :
          list = ExtensionList(exts) /\ sigs = MarshalSignatures(ss)
    BY ExtensionsBytes, SignatureLists
<1>3. PICK p : p = Proof
    OBVIOUS
<1>4. /\ p.extensions = IF exts = <<>> THEN Nil ELSE {MarshalExtensions(exts)}
      /\ p.start = start /\ p.end = end /\ p.inclusionProof = proof /\ p.signatures = ss
    BY <1>1, <1>3 DEF Proof
<1>5. PICK raw : raw = IF p.extensions = Nil THEN BigEndian(0, 2) ELSE RawBytes(p)
    OBVIOUS
<1>6. raw = Prefixed(2, list)
    <2>1. CASE exts = <<>>
        <3>1. list = <<>> /\ Len(<<>>) = 0
            BY <1>2, <2>1, ExtensionsBytes, EmptySeq
        <3>2. PICK z \in Seq(Byte) : z = BigEndian(0, 2)
            BY BigEndianBytes
        <3>3. Prefixed(2, list) = z \o <<>>
            BY <3>1, <3>2 DEF Prefixed
        <3>4. z \o <<>> = z
            BY ConcatEmptySeq
        <3>5. raw = z
            BY <1>4, <1>5, <2>1, <3>2
        <3> QED BY <3>3, <3>4, <3>5
    <2>2. CASE exts # <<>>
        <3>1. PICK x : x = MarshalExtensions(exts)
            OBVIOUS
        <3>2. p.extensions = {x} /\ p.extensions # Nil
            BY <1>4, <2>2, <3>1 DEF Nil
        <3>3. raw \in {x}
            <4>1. PICK X : X = p.extensions /\ X = {x}
                BY <3>2
            <4>2. (CHOOSE bs \in X : TRUE) \in X
                BY <4>1
            <4> QED BY <1>5, <3>2, <4>1, <4>2 DEF RawBytes
        <3>4. x = Prefixed(2, list)
            BY <1>2, <3>1, ExtensionsBytes
        <3> QED BY <3>3, <3>4
    <2> QED BY <2>1, <2>2
<1>7. /\ Fits(2, proof) /\ Fits(3, sigs)
      /\ \A i \in DOMAIN ss : Fits(1, ss[i].id) /\ Fits(2, ss[i].signature)
      /\ bytes = (((raw \o BigEndian(start, OffsetBytes)) \o BigEndian(end, OffsetBytes))
                     \o Prefixed(2, proof)) \o Prefixed(3, sigs)
    BY <1>2, <1>3, <1>4, <1>5 DEF Marshal, RawBytes
<1>8. /\ RegroupsFive(raw, BigEndian(start, OffsetBytes), BigEndian(end, OffsetBytes),
                      Prefixed(2, proof), Prefixed(3, sigs))
      /\ Message(list, start, end, proof, sigs) \in Seq(Byte)
    BY <1>6, MessageBytes
<1>9. bytes = Message(list, start, end, proof, sigs)
    BY <1>6, <1>7, <1>8 DEF RegroupsFive, Message
<1>10. bytes = ProofMessage
    BY <1>1, <1>2, <1>9 DEF ProofMessage
<1>11. \A i \in DOMAIN ss : SignatureFits(ss[i])
    BY <1>7 DEF Fits, SignatureFits
<1>12. Len(proof) < Limit(2) /\ Len(sigs) < Limit(3)
    BY <1>7 DEF Fits
<1> QED BY <1>1, <1>2, <1>8, <1>9, <1>10, <1>11, <1>12 DEF SentAs

LEMMA WireInvIsInductive == WireInv /\ [Next]_item => WireInv'
<1> SUFFICES ASSUME WireInv, [Next]_item PROVE WireInv'
    OBVIOUS
<1>1. ASSUME NEW b \in Byte, ReadId(b) PROVE WireInv'
    <2>1. PICK bytes : bytes = IF item = Nothing THEN <<>> ELSE item.bytes
        OBVIOUS
    <2>2. bytes \in Seq(Byte)
        <3>1. CASE item = Nothing
            BY <2>1, <3>1, EmptySeq
        <3>2. CASE item # Nothing
            <4>1. HoldsId
                BY <1>1, <3>2, Kinds DEF ReadId
            <4> QED BY <2>1, <3>2, <4>1 DEF HoldsId
        <3> QED BY <3>1, <3>2
    <2>3. PICK s \in Seq(Byte) : s = Append(bytes, b)
        BY <2>2, AppendProperties
    <2>4. item' = [kind |-> "id", bytes |-> s]
        BY <1>1, <2>1, <2>3 DEF ReadId
    <2> QED BY <2>4 DEF WireInv, HoldsId
<1>2. ASSUME NEW offsets \in Offsets, NEW inclusion \in Inclusions, NewProof(offsets, inclusion)
      PROVE  WireInv'
    <2>1. PICK start \in Nat, end \in Nat : start = offsets[1] /\ end = offsets[2]
        BY WireFormatConstants
    <2>2. inclusion \in Seq(Byte)
        BY WireFormatConstants
    <2>3. <<>> \in Seq(ExtensionType) /\ <<>> \in Seq(SignatureType)
        BY EmptySeq
    <2>4. item' = [kind |-> "proof", exts |-> <<>>, start |-> start, end |-> end,
                   inclusionProof |-> inclusion, signatures |-> <<>>]
        BY <1>2, <2>1 DEF NewProof
    <2> QED BY <2>2, <2>3, <2>4 DEF WireInv, HoldsProof
<1>3. ASSUME NEW ext \in Exts, AddExtension(ext) PROVE WireInv'
    <2>1. HoldsProof
        BY <1>3, Kinds DEF AddExtension
    <2>2. ext \in ExtensionType
        BY WireFormatConstants DEF ExtensionType
    <2>3. PICK exts \in Seq(ExtensionType) : exts = item.exts
        BY <2>1 DEF HoldsProof
    <2>4. PICK more \in Seq(ExtensionType) : more = Append(exts, ext)
        BY <2>2, AppendProperties
    <2>5. item' = [kind |-> "proof", exts |-> more, start |-> item.start, end |-> item.end,
                   inclusionProof |-> item.inclusionProof, signatures |-> item.signatures]
        BY <1>3, <2>1, <2>3, <2>4 DEF AddExtension, HoldsProof
    <2> QED BY <2>1, <2>5 DEF WireInv, HoldsProof
<1>4. ASSUME NEW sig \in Signatures, AddSignature(sig) PROVE WireInv'
    <2>1. HoldsProof
        BY <1>4, Kinds DEF AddSignature
    <2>2. sig \in SignatureType
        BY WireFormatConstants
    <2>3. PICK sigs \in Seq(SignatureType) : sigs = item.signatures
        BY <2>1 DEF HoldsProof
    <2>4. PICK more \in Seq(SignatureType) : more = Append(sigs, sig)
        BY <2>2, AppendProperties
    <2>5. item' = [kind |-> "proof", exts |-> item.exts, start |-> item.start, end |-> item.end,
                   inclusionProof |-> item.inclusionProof, signatures |-> more]
        BY <1>4, <2>1, <2>3, <2>4 DEF AddSignature, HoldsProof
    <2> QED BY <2>1, <2>5 DEF WireInv, HoldsProof
<1>5. ASSUME Send PROVE WireInv'
    <2>1. HoldsProof
        BY <1>5, Kinds DEF Send
    <2>2. PICK bytes \in Marshal(Proof) :
              item' = [kind |-> "message", bytes |-> bytes, damaged |-> FALSE]
        BY <1>5 DEF Send
    <2>3. bytes \in Seq(Byte)
        BY <2>1, ProofIsSent DEF SentAs
    <2> QED BY <2>2, <2>3 DEF WireInv, HoldsMessage
<1>6. ASSUME Damageable PROVE item.bytes \in Seq(Byte)
    <2>1. HoldsMessage
        BY <1>6, Kinds DEF Damageable
    <2> QED BY <2>1 DEF HoldsMessage
<1>7. ASSUME NEW bytes \in Seq(Byte), Arrives(bytes) PROVE WireInv'
    BY <1>7 DEF Arrives, WireInv, HoldsMessage
<1>8. ASSUME Damageable, NEW i \in DOMAIN item.bytes, NEW b \in Byte, Change(i, b) PROVE WireInv'
    <2>1. PICK s \in Seq(Byte) : s = item.bytes
        BY <1>6, <1>8
    <2>2. i \in 1..Len(s)
        BY <1>8, <2>1, LenProperties
    <2>3. PICK t \in Seq(Byte) : t = [s EXCEPT ![i] = b]
        BY <2>2, ExceptSeq
    <2>4. Arrives(t)
        BY <1>8, <2>1, <2>3 DEF Change
    <2> QED BY <1>7, <2>4
<1>9. ASSUME Damageable, NEW n \in 0..(Len(item.bytes) - 1), Cut(n) PROVE WireInv'
    <2>1. PICK s \in Seq(Byte) : s = item.bytes
        BY <1>6, <1>9
    <2>2. n \in 0..Len(s)
        <3>1. PICK l \in Nat : l = Len(s)
            BY LenProperties
        <3> QED BY <1>9, <2>1, <3>1
    <2>3. PICK t \in Seq(Byte) : t = SubSeq(s, 1, n)
        BY <2>2, SplitAt
    <2>4. Arrives(t)
        BY <1>9, <2>1, <2>3 DEF Cut
    <2> QED BY <1>7, <2>4
<1>10. ASSUME Damageable, NEW b \in Byte, Extend(b) PROVE WireInv'
    <2>1. PICK s \in Seq(Byte) : s = item.bytes
        BY <1>6, <1>10
    <2>2. PICK t \in Seq(Byte) : t = Append(s, b)
        BY AppendProperties
    <2>3. Arrives(t)
        BY <1>10, <2>1, <2>2 DEF Extend
    <2> QED BY <1>7, <2>3
<1>11. ASSUME NEW f \in Fields, NEW serial \in Serials, Certify(f, serial) PROVE WireInv'
    <2>1. PICK tbs : tbs = CertificateTBS(serial, f.issuer,
                               <<Validity(f.from, f.to), Subject(f.cn)>>, f.key)
        OBVIOUS
    <2>2. item' = [kind |-> "certificate", fields |-> f, callback |-> "validity, subject",
                   tbs |-> tbs]
        BY <1>11, <2>1 DEF Certify
    <2>3. item'.kind = "certificate" /\ item'.fields = f /\ item'.tbs = tbs
        BY <2>2
    <2> QED BY <2>1, <2>3 DEF WireInv, HoldsCertificate
<1>12. ASSUME NEW f \in Fields, NEW serial \in Serials, CertifyWithExtensions(f, serial)
       PROVE  WireInv'
    <2>1. PICK tbs : tbs = CertificateTBS(serial, f.issuer,
                               <<Validity(f.from, f.to), Subject(f.cn), Extensions("e")>>, f.key)
        OBVIOUS
    <2>2. item' = [kind |-> "certificate", fields |-> f,
                   callback |-> "validity, subject, extensions", tbs |-> tbs]
        BY <1>12, <2>1 DEF CertifyWithExtensions
    <2>3. /\ item'.kind = "certificate" /\ item'.fields = f
          /\ item'.callback = "validity, subject, extensions"
        BY <2>2
    <2> QED BY <2>3 DEF WireInv, HoldsCertificate
<1>13. ASSUME item' = item PROVE WireInv'
    BY <1>13 DEF WireInv, HoldsId, HoldsProof, HoldsMessage, HoldsCertificate
<1> QED BY <1>1, <1>2, <1>3, <1>4, <1>5, <1>8, <1>9, <1>10, <1>11, <1>12, <1>13 DEF Next

LEMMA WireInvAlways == Spec => []WireInv
<1>1. Init => WireInv
    BY DEF Init, WireInv
<1>2. WireInv /\ [Next]_item => WireInv'
    BY WireInvIsInductive
<1> QED BY <1>1, <1>2, PTL DEF Spec

LEMMA IdsPrint == WireInv => IdsPrintUniquely
<1> SUFFICES ASSUME WireInv, item.kind = "id"
             PROVE  \A numbers \in Numbers(item.bytes) :
                        /\ ParseTrustAnchorID(numbers) = item.bytes
                        /\ \A v \in Words :
                               Numbers(AppendBase128(item.bytes, v)) = {Append(numbers, v)}
    BY DEF IdsPrintUniquely
<1>1. item.bytes \in Seq(Byte)
    BY Kinds DEF HoldsId
<1> QED BY <1>1, IdsContinue

LEMMA OwnIdsAtEveryLength == WireInv => LogsAndLandmarksHaveTheirOwnIds
<1> SUFFICES ASSUME WireInv, item.kind = "id", Numbers(item.bytes) # {},
                    NEW length \in 1..Len(item.bytes),
                    Numbers(SubSeq(item.bytes, 1, length)) # {},
                    NEW n \in LogNumbers, NEW m \in LogNumbers,
                    NEW l \in LandmarkNums, NEW k \in LandmarkNums
             PROVE  LET ca    == item.bytes
                        other == SubSeq(ca, 1, length)
                    IN  /\ LogID(ca, n) # LandmarkID(other, m, k)
                        /\ LogID(other, n) # LandmarkID(ca, m, k)
                        /\ LogID(ca, n) = LogID(other, m) => ca = other /\ n = m
                        /\ LandmarkID(ca, n, l) = LandmarkID(other, m, k)
                               => ca = other /\ n = m /\ l = k
    BY DEF LogsAndLandmarksHaveTheirOwnIds
<1>1. PICK ca \in Seq(Byte) : ca = item.bytes
    BY Kinds DEF HoldsId
<1>2. PICK other \in Seq(Byte) : other = SubSeq(ca, 1, length)
    <2>1. PICK size \in Nat : size = Len(ca)
        BY LenProperties
    <2>2. length \in 0..Len(ca)
        BY <1>1, <2>1
    <2> QED BY <2>2, SplitAt
<1>3. Numbers(ca) # {} /\ Numbers(other) # {}
    BY <1>1, <1>2
<1>4. /\ LogID(ca, n) # LandmarkID(other, m, k)
      /\ LogID(ca, n) = LogID(other, m) => ca = other /\ n = m
      /\ LandmarkID(ca, n, l) = LandmarkID(other, m, k) => ca = other /\ n = m /\ l = k
    BY <1>3, OwnIds
<1>5. LogID(other, n) # LandmarkID(ca, m, k)
    BY <1>3, OwnIds
<1> QED BY <1>1, <1>2, <1>4, <1>5

(* The entry rebuilt from a proof that is read as it was sent.              *)
LEMMA EntryOfProof ==
    ASSUME NEW p, p.extensions = {MarshalExtensions(item.exts)}
    PROVE  RebuiltEntry(p, "contents") = MarshalTBSCertEntry(item.exts, "contents")
<1>1. PICK x, X : x = MarshalExtensions(item.exts) /\ X = {x} /\ X = p.extensions
    OBVIOUS
<1>2. (CHOOSE raw \in X : TRUE) \in X
    BY <1>1
<1>3. RebuiltEntry(p, "contents")
          = [head |-> x \o BigEndian(EntryTypeTBSCert, 2), contents |-> "contents"]
    BY <1>1, <1>2 DEF RebuiltEntry
<1> QED BY <1>1, <1>3 DEF MarshalTBSCertEntry

SentProof == [Proof EXCEPT !.extensions = {MarshalExtensions(item.exts)}]

LEMMA SentProofFields ==
    /\ SentProof = [extensions |-> {MarshalExtensions(item.exts)}, start |-> item.start,
                    end |-> item.end, inclusionProof |-> item.inclusionProof,
                    signatures |-> item.signatures]
    /\ SentProof.extensions = {MarshalExtensions(item.exts)}
    /\ SentProof.start = item.start /\ SentProof.end = item.end
<1>1. PICK x, raw, p :
          /\ x = {MarshalExtensions(item.exts)}
          /\ raw = IF item.exts = <<>> THEN Nil ELSE {MarshalExtensions(item.exts)}
          /\ p = Proof
    OBVIOUS
<1>2. p = [extensions |-> raw, start |-> item.start, end |-> item.end,
           inclusionProof |-> item.inclusionProof, signatures |-> item.signatures]
    BY <1>1 DEF Proof
<1>3. [p EXCEPT !.extensions = x]
          = [extensions |-> x, start |-> item.start, end |-> item.end,
             inclusionProof |-> item.inclusionProof, signatures |-> item.signatures]
    BY <1>2
<1>4. SentProof = [p EXCEPT !.extensions = x]
    BY <1>1 DEF SentProof
<1> QED BY <1>1, <1>3, <1>4

LEMMA WellFormedParts ==
    /\ WellFormedProof \in BOOLEAN
    /\ WellFormedButOffsets <=>
          /\ TypesAscend(item.exts)
          /\ Len(ExtensionList(item.exts)) < Limit(2)
          /\ Len(item.inclusionProof) % HashSize = 0
          /\ IdsInOrder(item.signatures)
    /\ WellFormedProof <=>
          /\ WellFormedButOffsets
          /\ item.start < Limit(OffsetBytes)
          /\ item.end < Limit(OffsetBytes)
BY DEF WellFormedProof, WellFormedButOffsets, TypesAscend, IdsInOrder

(* What is read of a proof whose offsets are cut off. *)
LEMMA CutOffsetsFields ==
    CutOffsets(SentProof)
        = [extensions |-> {MarshalExtensions(item.exts)},
           start |-> item.start % Limit(OffsetBytes), end |-> item.end % Limit(OffsetBytes),
           inclusionProof |-> item.inclusionProof, signatures |-> item.signatures]
<1>1. PICK p, x : p = SentProof /\ x = {MarshalExtensions(item.exts)}
    OBVIOUS
<1>2. p = [extensions |-> x, start |-> item.start, end |-> item.end,
           inclusionProof |-> item.inclusionProof, signatures |-> item.signatures]
    BY <1>1, SentProofFields
<1>3. p.start = item.start /\ p.end = item.end
    BY <1>2
<1>4. PICK start, end : start = p.start % Limit(OffsetBytes) /\ end = p.end % Limit(OffsetBytes)
    OBVIOUS
<1>5. CutOffsets(p) = [p EXCEPT !.start = start, !.end = end]
    BY <1>4 DEF CutOffsets
<1>6. [p EXCEPT !.start = start, !.end = end]
          = [extensions |-> x, start |-> start, end |-> end,
             inclusionProof |-> item.inclusionProof, signatures |-> item.signatures]
    <2>1. PICK q : q = [p EXCEPT !.start = start]
        OBVIOUS
    <2>2. q = [extensions |-> x, start |-> start, end |-> item.end,
               inclusionProof |-> item.inclusionProof, signatures |-> item.signatures]
        BY <1>2, <2>1
    <2>3. [q EXCEPT !.end = end]
              = [extensions |-> x, start |-> start, end |-> end,
                 inclusionProof |-> item.inclusionProof, signatures |-> item.signatures]
        BY <2>2
    <2>4. [p EXCEPT !.start = start, !.end = end] = [[p EXCEPT !.start = start] EXCEPT !.end = end]
        OBVIOUS
    <2> QED BY <2>1, <2>3, <2>4
<1> QED BY <1>1, <1>3, <1>4, <1>5, <1>6

(* A proof whose extensions fit is read, with the offsets cut off, when it  *)
(* is well formed but for the offsets,                                      *)
LEMMA FittingProofsSurvive ==
    ASSUME HoldsProof, NEW bytes \in Marshal(Proof),
           Len(ExtensionList(item.exts)) < Limit(2)
    PROVE  UnmarshalMTCProof(bytes)
               = IF WellFormedButOffsets THEN {CutOffsets(SentProof)} ELSE {}
<1>1. PICK exts \in Seq(ExtensionType), s \in Nat, e \in Nat, proof \in Seq(Byte),
           ss \in Seq(SignatureType) :
               /\ exts = item.exts /\ s = item.start /\ e = item.end
               /\ proof = item.inclusionProof /\ ss = item.signatures
    BY DEF HoldsProof
<1>2. PICK start \in Nat, end \in Nat :
           /\ start = item.start % Limit(OffsetBytes) /\ start < Limit(OffsetBytes)
           /\ end = item.end % Limit(OffsetBytes) /\ end < Limit(OffsetBytes)
           /\ BigEndian(start, OffsetBytes) = BigEndian(s, OffsetBytes)
           /\ BigEndian(end, OffsetBytes) = BigEndian(e, OffsetBytes)
    <2>1. ASSUME NEW v \in Nat
          PROVE  \E n \in Nat : /\ n = v % Limit(OffsetBytes) /\ n < Limit(OffsetBytes)
                                /\ BigEndian(n, OffsetBytes) = BigEndian(v, OffsetBytes)
        <3>1. OffsetBytes \in Nat
            BY ProofConstants
        <3>2. PICK n \in Nat : n = v % Limit(OffsetBytes)
            BY <3>1, NumberCut
        <3> QED BY <3>1, <3>2, NumberCut
    <2>2. PICK start \in Nat : /\ start = s % Limit(OffsetBytes) /\ start < Limit(OffsetBytes)
                               /\ BigEndian(start, OffsetBytes) = BigEndian(s, OffsetBytes)
        BY <2>1
    <2>3. PICK end \in Nat : /\ end = e % Limit(OffsetBytes) /\ end < Limit(OffsetBytes)
                             /\ BigEndian(end, OffsetBytes) = BigEndian(e, OffsetBytes)
        BY <2>1
    <2> QED BY <1>1, <2>2, <2>3
<1>3. PICK list \in Seq(Byte), sigs \in Seq(Byte) :
          list = ExtensionList(exts) /\ sigs = MarshalSignatures(ss)
    BY ExtensionsBytes, SignatureLists
<1>4. SentAs(bytes)
    BY ProofIsSent
<1>5. /\ bytes = Message(list, start, end, proof, sigs)
      /\ MessageFits(list, start, end, proof, sigs)
      /\ \A i \in DOMAIN ss : SignatureFits(ss[i])
    <2>1. Message(list, s, e, proof, sigs) = Message(list, start, end, proof, sigs)
        BY <1>2 DEF Message
    <2>2. bytes = Message(list, s, e, proof, sigs)
        BY <1>1, <1>3, <1>4 DEF SentAs, ProofMessage
    <2> QED BY <1>1, <1>3, <1>4, <1>2, <2>1, <2>2 DEF SentAs, MessageFits
<1>6. MessageIsRead(list, start, end, proof, sigs)
    BY <1>5, MessagesAreRead
<1>7. Len(ExtensionList(exts)) < Limit(2)
    BY <1>1
<1>8. ExtensionsInOrder(list) = TypesAscend(exts)
    BY <1>3, <1>7, ExtensionsAscend
<1>9. SignaturesAreRead(ss)
    BY <1>5, SignaturesRead
<1>10. ReadSignatures(sigs) = IF IdsInOrder(ss) THEN {ss} ELSE {}
    BY <1>3, <1>9 DEF SignaturesAreRead
<1>11. MarshalExtensions(exts) = Prefixed(2, list)
    BY <1>3, ExtensionsBytes
<1>12. PICK read : read = UnmarshalMTCProof(bytes)
    OBVIOUS
<1>13. read = IF TypesAscend(exts) /\ Len(proof) % HashSize = 0
              THEN {[extensions |-> {Prefixed(2, list)}, start |-> start, end |-> end,
                     inclusionProof |-> proof, signatures |-> signatures] :
                        signatures \in ReadSignatures(sigs)}
              ELSE {}
    BY <1>5, <1>6, <1>8, <1>12 DEF MessageIsRead
<1>14. WellFormedButOffsets <=> TypesAscend(exts) /\ Len(proof) % HashSize = 0 /\ IdsInOrder(ss)
    BY <1>1, WellFormedParts
<1>15. CutOffsets(SentProof)
           = [extensions |-> {Prefixed(2, list)}, start |-> start, end |-> end,
              inclusionProof |-> proof, signatures |-> ss]
    BY <1>1, <1>11, <1>2, CutOffsetsFields
<1>16. CASE WellFormedButOffsets
    <2>1. ReadSignatures(sigs) = {ss}
        BY <1>10, <1>14, <1>16
    <2>2. read = {[extensions |-> {Prefixed(2, list)}, start |-> start, end |-> end,
                   inclusionProof |-> proof, signatures |-> ss]}
        BY <1>13, <1>14, <1>16, <2>1
    <2> QED BY <1>12, <1>15, <1>16, <2>2
<1>17. CASE ~WellFormedButOffsets
    <2>1. CASE TypesAscend(exts) /\ Len(proof) % HashSize = 0
        <3>1. ReadSignatures(sigs) = {}
            BY <1>10, <1>14, <1>17, <2>1
        <3> QED BY <1>12, <1>13, <1>17, <2>1, <3>1
    <2>2. CASE ~(TypesAscend(exts) /\ Len(proof) % HashSize = 0)
        BY <1>12, <1>13, <1>17, <2>2
    <2> QED BY <2>1, <2>2
<1> QED BY <1>16, <1>17

(* and one that was cut off is read as another.                             *)
LEMMA CutProofsDiffer ==
    ASSUME HoldsProof, NEW bytes \in Marshal(Proof), UnmarshalMTCProof(bytes) = {SentProof}
    PROVE  /\ Len(ExtensionList(item.exts)) < Limit(2)
           /\ item.start < Limit(OffsetBytes)
           /\ item.end < Limit(OffsetBytes)
<1>1. PICK p : p = SentProof /\ p \in UnmarshalMTCProof(bytes)
    OBVIOUS
<1>2. bytes \in Seq(Byte)
    BY ProofIsSent DEF SentAs
<1>3. PICK list \in Seq(Byte), start \in Nat, end \in Nat, proof \in Seq(Byte),
           sigs \in Seq(Byte) : MessageWas(bytes, p, list, start, end, proof, sigs)
    BY <1>1, <1>2, MessagesWereWritten
<1>4. /\ Len(list) < Limit(2) /\ start < Limit(OffsetBytes) /\ end < Limit(OffsetBytes)
      /\ p = [extensions |-> {Prefixed(2, list)}, start |-> start, end |-> end,
              inclusionProof |-> proof, signatures |-> p.signatures]
    BY <1>3 DEF MessageWas, MessageFits
<1>5. p.extensions = {Prefixed(2, list)} /\ p.start = start /\ p.end = end
    BY <1>4
<1>6. start = item.start /\ end = item.end
    BY <1>1, <1>5, SentProofFields
<1>7. PICK sent \in Seq(Byte) : sent = ExtensionList(item.exts)
    BY ExtensionsBytes DEF HoldsProof
<1>8. MarshalExtensions(item.exts) = Prefixed(2, sent)
    BY <1>7, ExtensionsBytes DEF HoldsProof
<1>9. Prefixed(2, sent) = Prefixed(2, list)
    <2>1. {Prefixed(2, sent)} = {Prefixed(2, list)}
        BY <1>1, <1>5, <1>8, SentProofFields
    <2> QED BY <2>1
<1>10. Len(sent) = Len(list)
    <2>1. PICK a \in Nat, b \in Nat : a = Len(sent) /\ b = Len(list)
        BY LenProperties
    <2>2. Len(Prefixed(2, sent)) = 2 + a /\ Len(Prefixed(2, list)) = 2 + b
        BY <2>1, PrefixedBytes
    <2>3. 2 + a = 2 + b
        BY <1>9, <2>2
    <2> QED BY <2>1, <2>3
<1> QED BY <1>4, <1>6, <1>7, <1>10

(* and as it was sent when the offsets fit.                                 *)
LEMMA FittingOffsetsStay ==
    ASSUME HoldsProof, item.start < Limit(OffsetBytes), item.end < Limit(OffsetBytes)
    PROVE  CutOffsets(SentProof) = SentProof
<1>1. PICK start \in Nat, end \in Nat : start = item.start /\ end = item.end
    BY DEF HoldsProof
<1>2. start % Limit(OffsetBytes) = start /\ end % Limit(OffsetBytes) = end
    BY <1>1, NumberCut, ProofConstants
<1> QED BY <1>1, <1>2, CutOffsetsFields, SentProofFields

LEMMA ProofsSurvive == WireInv => ProofsSurviveExactlyWhenWellFormed
<1> SUFFICES ASSUME WireInv, item.kind = "proof", NEW bytes \in Marshal(Proof)
             PROVE  LET read == UnmarshalMTCProof(bytes)
                    IN  /\ (read = {SentProof}) = WellFormedProof
                        /\ Len(ExtensionList(item.exts)) < Limit(2) =>
                              read = IF WellFormedButOffsets THEN {CutOffsets(SentProof)} ELSE {}
                        /\ WellFormedButOffsets => \A p \in read :
                              RebuiltEntry(p, "contents") = MarshalTBSCertEntry(item.exts, "contents")
    BY DEF ProofsSurviveExactlyWhenWellFormed, SentProof
<1>1. HoldsProof
    BY Kinds
<1>2. PICK read : read = UnmarshalMTCProof(bytes)
    OBVIOUS
<1>3. ASSUME Len(ExtensionList(item.exts)) < Limit(2)
      PROVE  read = IF WellFormedButOffsets THEN {CutOffsets(SentProof)} ELSE {}
    BY <1>1, <1>2, <1>3, FittingProofsSurvive
<1>4. WellFormedButOffsets => Len(ExtensionList(item.exts)) < Limit(2)
    BY WellFormedParts
<1>5. ASSUME read = {SentProof} PROVE WellFormedProof
    <2>1. /\ Len(ExtensionList(item.exts)) < Limit(2)
          /\ item.start < Limit(OffsetBytes) /\ item.end < Limit(OffsetBytes)
        BY <1>1, <1>2, <1>5, CutProofsDiffer
    <2>2. WellFormedButOffsets
        <3>1. read # {}
            BY <1>5
        <3> QED BY <1>3, <2>1, <3>1
    <2> QED BY <2>1, <2>2, WellFormedParts
<1>6. ASSUME WellFormedProof PROVE read = {SentProof}
    <2>1. /\ WellFormedButOffsets
          /\ item.start < Limit(OffsetBytes) /\ item.end < Limit(OffsetBytes)
        BY <1>6, WellFormedParts
    <2>2. CutOffsets(SentProof) = SentProof
        BY <1>1, <2>1, FittingOffsetsStay
    <2> QED BY <1>3, <1>4, <2>1, <2>2
<1>7. (read = {SentProof}) = WellFormedProof
    BY <1>5, <1>6, WellFormedParts
<1>8. ASSUME WellFormedButOffsets, NEW p \in read
      PROVE  RebuiltEntry(p, "contents") = MarshalTBSCertEntry(item.exts, "contents")
    <2>1. p = CutOffsets(SentProof)
        BY <1>3, <1>4, <1>8
    <2>2. p.extensions = {MarshalExtensions(item.exts)}
        BY <2>1, CutOffsetsFields
    <2> QED BY <2>2, EntryOfProof
<1> QED BY <1>2, <1>3, <1>7, <1>8

LEMMA MessagesReadOneWay == WireInv => ReadableMessagesAreCanonical
<1> SUFFICES ASSUME WireInv, item.kind = "message", NEW p \in UnmarshalMTCProof(item.bytes)
             PROVE  Marshal(p) = {item.bytes}
    BY DEF ReadableMessagesAreCanonical
<1>1. PICK data \in Seq(Byte) : data = item.bytes
    BY Kinds DEF HoldsMessage
<1> QED BY <1>1, MessagesAreCanonical

LEMMA CertificatesRebuild == WireInv => CertificatesRebuildTheirEntry
<1> SUFFICES ASSUME WireInv, item.kind = "certificate", item.callback = "validity, subject"
             PROVE  LET rebuilt == BuildTBSCertificateLogEntry(item.tbs)
                    IN  /\ rebuilt # {}
                        /\ \A f \in Fields :
                              (rebuilt = BuildTBSCertificateLogEntry(BuildDemoTBSCert(f)))
                                  = (f = item.fields)
    BY DEF CertificatesRebuildTheirEntry
<1>1. HoldsCertificate
    BY Kinds
<1>2. PICK g \in Fields : g = item.fields
    BY <1>1 DEF HoldsCertificate
<1>3. PICK serial \in Serials :
          item.tbs = CertificateTBS(serial, g.issuer,
                         <<Validity(g.from, g.to), Subject(g.cn)>>, g.key)
    BY <1>1, <1>2 DEF HoldsCertificate
<1>4. PICK tbs : tbs = item.tbs
    OBVIOUS
<1>5. Certified(tbs, serial, g)
    <2>1. PICK n, i, v, t, k :
              /\ n = Element("INTEGER", serial) /\ i = Issuer(g.issuer)
              /\ v = Validity(g.from, g.to) /\ t = Subject(g.cn) /\ k = SPKI(g.key)
        OBVIOUS
    <2>2. tbs = (<<Version, n, SigAlg, i>> \o <<v, t>>) \o <<k>>
        BY <1>3, <1>4, <2>1 DEF CertificateTBS
    <2>3. Joins(Version, n, SigAlg, i, v, t, k)
        BY Seven
    <2> QED BY <2>1, <2>2, <2>3 DEF Certified, Joins
<1>6. PICK rebuilt : rebuilt = BuildTBSCertificateLogEntry(tbs)
    OBVIOUS
<1>7. rebuilt = {EntryOf(g)}
    BY <1>5, <1>6, EntryRebuilt
<1>8. ASSUME NEW f \in Fields
      PROVE  (rebuilt = BuildTBSCertificateLogEntry(BuildDemoTBSCert(f))) = (f = g)
    <2>1. BuildTBSCertificateLogEntry(BuildDemoTBSCert(f)) = {EntryOf(f)}
        <3>1. PICK demo : demo = BuildDemoTBSCert(f)
            OBVIOUS
        <3>2. Certified(demo, 0, f)
            BY <3>1 DEF BuildDemoTBSCert, Certified
        <3> QED BY <3>1, <3>2, EntryRebuilt
    <2>2. ASSUME rebuilt = BuildTBSCertificateLogEntry(BuildDemoTBSCert(f)) PROVE f = g
        <3>1. EntryOf(f) = EntryOf(g)
            BY <1>7, <2>1, <2>2
        <3>2. /\ f.issuer = g.issuer /\ f.from = g.from /\ f.to = g.to /\ f.cn = g.cn
              /\ f.key = g.key
            BY <3>1, EntriesDiffer
        <3>3. /\ f = [issuer |-> f.issuer, from |-> f.from, to |-> f.to, cn |-> f.cn, key |-> f.key]
              /\ g = [issuer |-> g.issuer, from |-> g.from, to |-> g.to, cn |-> g.cn, key |-> g.key]
            BY WireFormatConstants
        <3> QED BY <3>2, <3>3
    <2>3. ASSUME f = g PROVE rebuilt = BuildTBSCertificateLogEntry(BuildDemoTBSCert(f))
        BY <1>7, <2>1, <2>3
    <2> QED BY <2>2, <2>3
<1>9. rebuilt # {}
    BY <1>7
<1> QED BY <1>2, <1>4, <1>6, <1>8, <1>9

-----------------------------------------------------------------------------
(* Results *)

(* Printing undoes parsing and parsing undoes printing: what String prints  *)
(* of an id is what ParseTrustAnchorID makes that id of, and of nothing     *)
(* else (trustanchorid.go:16-52).                                           *)
THEOREM IdsAreTheirNumbers ==
    ASSUME NEW t \in Seq(Byte), NEW numbers \in Seq(Words), numbers # <<>>
    PROVE  numbers \in Numbers(t) <=> ParseTrustAnchorID(numbers) = t
<1>1. ASSUME numbers \in Numbers(t) PROVE ParseTrustAnchorID(numbers) = t
    BY <1>1, PrintedIdParses
<1>2. ASSUME ParseTrustAnchorID(numbers) = t PROVE numbers \in Numbers(t)
    <2>1. Numbers(ParseTrustAnchorID(numbers)) = {numbers}
        BY ParsedIdPrints
    <2> QED BY <1>2, <2>1
<1> QED BY <1>1, <1>2

(* Whatever bytes are read as an id, at most one sequence of numbers prints *)
(* as it and parses to it again, whatever the width of a byte and a word    *)
(* (TrustAnchorID.String, ParseTrustAnchorID, parseBase128).                *)
THEOREM IdsPrintUniquelyHolds == Spec => []IdsPrintUniquely
BY WireInvAlways, IdsPrint, PTL

(* No log has the id of a landmark or of another log, and no landmark that  *)
(* of another landmark, also under two authorities one of which has an id   *)
(* that begins with the other's (TrustAnchorID.LogID, LandmarkID).          *)
THEOREM LogsAndLandmarksHaveTheirOwnIdsHolds == Spec => []LogsAndLandmarksHaveTheirOwnIds
BY WireInvAlways, OwnIdsAtEveryLength, PTL

(* A proof that MTCProof.Marshal writes is read by UnmarshalMTCProof as it  *)
(* was, and rebuilds the entry that was logged, exactly when it is well     *)
(* formed, whatever its extensions, offsets, hashes and signatures.         *)
THEOREM ProofsSurviveHolds == Spec => []ProofsSurviveExactlyWhenWellFormed
BY WireInvAlways, ProofsSurvive, PTL

(* There is one way to write each proof UnmarshalMTCProof can read: also a  *)
(* message that was changed, cut or extended is, if it is readable, what    *)
(* MTCProof.Marshal writes of what was read.                                *)
THEOREM ReadableMessagesAreCanonicalHolds == Spec => []ReadableMessagesAreCanonical
BY WireInvAlways, MessagesReadOneWay, PTL

(* From the TBSCertificate that "ca issue" makes, the entry logged for the  *)
(* same fields is rebuilt, and that of no other fields                      *)
(* (BuildTBSCertificateLogEntry, CreateCertificate, buildDemoTBSCert).      *)
THEOREM CertificatesRebuildTheirEntryHolds == Spec => []CertificatesRebuildTheirEntry
BY WireInvAlways, CertificatesRebuild, PTL

=============================================================================
