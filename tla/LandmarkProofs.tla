--------------------------- MODULE LandmarkProofs ---------------------------
(***************************************************************************)
(* Landmark sequences keep their order for every log size, lifetime and    *)
(* clock.  The order of the stored sizes and expiries is inductive by      *)
(* itself: AllocateLandmark compares with the last landmark only, and the  *)
(* last one is the largest by the order of those before it.                *)
(***************************************************************************)
EXTENDS LandmarkSequence, LibraryProofs

IInv == TypeOK /\ LandmarksAreOrdered

LEMMA MaxSizeIsWord == MaxSize \in Nat \ {0} /\ MaxSize < Pow2[W]
BY LandmarkConstants, Pow2Type, WordWidth DEF Words

LEMMA InitIInv == Init => IInv
<1> SUFFICES ASSUME Init PROVE IInv
    OBVIOUS
<1>1. /\ ls.maxActive = MaxActive
      /\ ls.landmarks = <<0>>
      /\ ls.expiries = <<0>>
    BY DEF Init, NewLandmarkSequence
<1>2. TypeOK
    BY <1>1, LandmarkConstants, MaxSizeIsWord, SMTT(20) DEF Init, TypeOK, NewLandmarkSequence
<1>3. LandmarksAreOrdered
    BY <1>1 DEF Init, LandmarksAreOrdered
<1> QED BY <1>2, <1>3 DEF IInv

(* What an allocation does to the two sequences. *)
LEMMA Allocation ==
    ASSUME TypeOK, Allocate
    PROVE  /\ ls' = [maxActive |-> MaxActive, landmarks |-> ls'.landmarks,
                      expiries |-> ls'.expiries]
           /\ ls'.landmarks \in Seq(Nat)
           /\ Len(ls'.landmarks) = Len(ls.landmarks) + 1
           /\ ls'.expiries \in Seq(Nat)
           /\ Len(ls'.expiries) = Len(ls.landmarks) + 1
           /\ \A i \in 1..Len(ls.landmarks) :
                  /\ ls'.landmarks[i] = ls.landmarks[i]
                  /\ ls'.expiries[i] = ls.expiries[i]
           /\ ls'.landmarks[Len(ls.landmarks) + 1] = size
           /\ ls'.expiries[Len(ls.landmarks) + 1] = now + Lifetime
           /\ size > ls.landmarks[Len(ls.landmarks)]
           /\ now + Lifetime >= ls.expiries[Len(ls.landmarks)]
<1> DEFINE last == Len(ls.landmarks)
<1>1. last \in Nat \ {0}
    BY LenProperties DEF TypeOK
<1>2. /\ size > ls.landmarks[last]
      /\ now + Lifetime >= ls.expiries[last]
    BY <1>1 DEF Allocate, CanAllocate, TreeSize, Expiry, LastLandmark
<1>3. /\ ls' = [maxActive |-> ls.maxActive,
                 landmarks |-> Append(ls.landmarks, size),
                 expiries  |-> Append(ls.expiries, now + Lifetime)]
      /\ ls.maxActive = MaxActive
      /\ ls'.landmarks = Append(ls.landmarks, size)
      /\ ls'.expiries = Append(ls.expiries, now + Lifetime)
    BY DEF Allocate, AllocateLandmark, TypeOK
<1>4. size \in Nat /\ now + Lifetime \in Nat
    BY LandmarkConstants DEF TypeOK
<1> QED BY <1>1, <1>2, <1>3, <1>4, AppendProperties DEF TypeOK

LEMMA NextIInv == IInv /\ [Next]_vars => IInv'
<1> SUFFICES ASSUME IInv, [Next]_vars PROVE IInv'
    OBVIOUS
<1> USE DEF IInv
<1>1. CASE Grow
    <2>1. TypeOK' BY <1>1, LandmarkConstants, MaxSizeIsWord DEF Grow, TypeOK
    <2>2. \A i \in 1..Len(ls.landmarks) : ls.landmarks[i] \in Nat
        BY ElementOfSeq DEF TypeOK
    <2>3. ls' = ls /\ size' = size + 1 /\ size \in Nat
        BY <1>1, LandmarkConstants, MaxSizeIsWord DEF Grow, TypeOK
    <2>4. \A i \in 1..Len(ls.landmarks) : ls.landmarks[i] <= size + 1
        <3> TAKE i \in 1..Len(ls.landmarks)
        <3>1. ls.landmarks[i] <= size
            BY DEF LandmarksAreOrdered
        <3>2. ls.landmarks[i] \in Nat
            BY <2>2
        <3> QED BY <2>3, <3>1, <3>2
    <2>5. LandmarksAreOrdered'
        BY <2>3, <2>4 DEF LandmarksAreOrdered
    <2> QED BY <2>1, <2>5
<1>2. CASE Allocate
    <2> DEFINE last == Len(ls.landmarks)
               L    == ls'.landmarks
               E    == ls'.expiries
    <2>1. /\ last \in Nat \ {0}
          /\ L \in Seq(Nat) /\ Len(L) = last + 1
          /\ E \in Seq(Nat) /\ Len(E) = last + 1
          /\ \A i \in 1..last : L[i] = ls.landmarks[i] /\ E[i] = ls.expiries[i]
          /\ L[last + 1] = size /\ E[last + 1] = now + Lifetime
          /\ size > ls.landmarks[last]
          /\ now + Lifetime >= ls.expiries[last]
        BY <1>2, Allocation, LenProperties DEF TypeOK
    <2>2. spaced' \in BOOLEAN /\ allocated' = now /\ size' = size /\ now' = now
        BY <1>2 DEF Allocate, TypeOK
    <2>3. ls' = [maxActive |-> MaxActive, landmarks |-> L, expiries |-> E]
        BY <1>2, Allocation
    <2>4. TypeOK'
        BY <2>1, <2>2, <2>3 DEF TypeOK
    <2>5. /\ \A i \in 1..last : ls.landmarks[i] \in Nat /\ ls.expiries[i] \in Nat
          /\ size \in Nat
          /\ now + Lifetime \in Nat
        BY ElementOfSeq, LandmarkConstants, SMTT(30) DEF TypeOK
    <2>6. /\ ls.landmarks[1] = 0 /\ ls.expiries[1] = 0
          /\ \A i, j \in 1..last : i < j => /\ ls.landmarks[i] < ls.landmarks[j]
                                           /\ ls.expiries[i] <= ls.expiries[j]
        BY DEF LandmarksAreOrdered
    <2> HIDE DEF last, L, E
    <2>7. \A i \in 1..last : ls.landmarks[i] < size /\ ls.expiries[i] <= now + Lifetime
        <3> TAKE i \in 1..last
        <3>1. CASE i = last BY <3>1, <2>1, <2>5
        <3>2. CASE i < last
            <4>1. last \in 1..last BY <2>1
            <4>2. ls.landmarks[i] < ls.landmarks[last] /\ ls.expiries[i] <= ls.expiries[last]
                BY <2>6, <3>2, <4>1
            <4>3. ls.landmarks[last] < size /\ ls.expiries[last] <= now + Lifetime
                BY <2>1
            <4>4. /\ ls.landmarks[i] \in Nat /\ ls.expiries[i] \in Nat
                  /\ ls.landmarks[last] \in Nat /\ ls.expiries[last] \in Nat
                  /\ size \in Nat /\ now + Lifetime \in Nat
                BY <2>5, <4>1
            <4> QED BY <4>2, <4>3, <4>4
        <3> QED BY <2>1, <3>1, <3>2
    <2>8. \A i, j \in 1..(last + 1) : i < j => L[i] < L[j] /\ E[i] <= E[j]
        <3> SUFFICES ASSUME NEW i \in 1..(last + 1), NEW j \in 1..(last + 1), i < j
                     PROVE  L[i] < L[j] /\ E[i] <= E[j]
            OBVIOUS
        <3>1. i \in 1..last BY <2>1
        <3>2. CASE j \in 1..last BY <2>1, <2>6, <3>1, <3>2
        <3>3. CASE j = last + 1 BY <2>1, <2>7, <3>1, <3>3
        <3> QED BY <2>1, <3>2, <3>3
    <2>9. \A i \in 1..(last + 1) : L[i] <= size
        <3> TAKE i \in 1..(last + 1)
        <3>1. CASE i \in 1..last
            <4>1. L[i] = ls.landmarks[i] BY <2>1, <3>1
            <4>2. ls.landmarks[i] < size /\ ls.landmarks[i] \in Nat /\ size \in Nat
                BY <2>5, <2>7, <3>1
            <4> QED BY <4>1, <4>2
        <3>2. CASE i = last + 1 BY <2>1, <2>5, <3>2
        <3> QED BY <2>1, <3>1, <3>2
    <2>10. L[1] = 0 /\ E[1] = 0
        BY <2>1, <2>6
    <2>11. LandmarksAreOrdered'
        BY <2>1, <2>2, <2>8, <2>9, <2>10 DEF LandmarksAreOrdered, L, E
    <2> QED BY <2>4, <2>11
<1>3. CASE Tick
    <2>1. TypeOK' BY <1>3, LandmarkConstants DEF Tick, TypeOK
    <2> QED BY <1>3, <2>1 DEF Tick, LandmarksAreOrdered
<1>4. CASE SetClockBack
    <2>1. TypeOK'
        <3>1. spaced' \in BOOLEAN BY <1>4, Zenon DEF SetClockBack
        <3>2. now \in 0..MaxTime /\ now' \in 0..(now - 1) /\ MaxTime \in Nat
            BY <1>4, LandmarkConstants DEF SetClockBack, TypeOK
        <3>3. now' \in 0..MaxTime BY <3>2
        <3> QED BY <1>4, <3>1, <3>3 DEF SetClockBack, TypeOK
    <2> QED BY <1>4, <2>1 DEF SetClockBack, LandmarksAreOrdered
<1>5. CASE UNCHANGED vars
    BY <1>5 DEF vars, TypeOK, LandmarksAreOrdered
<1> QED BY <1>1, <1>2, <1>3, <1>4, <1>5 DEF Next

LEMMA Invariance == Spec => []IInv
    BY InitIInv, NextIInv, PTL DEF Spec

(* Sizes and expiries stay parallel sequences of numbers (landmark.go).     *)
THEOREM TypeCorrectness == Spec => []TypeOK
<1>1. IInv => TypeOK BY DEF IInv
<1> QED BY <1>1, Invariance, PTL

(* Tree sizes strictly grow and stay within the log, expiries never go      *)
(* down, whatever the clock does (landmark.go:45-56).                       *)
THEOREM Order == Spec => []LandmarksAreOrdered
<1>1. IInv => LandmarksAreOrdered BY DEF IInv
<1> QED BY <1>1, Invariance, PTL

(* The active landmarks are a gapless newest part of the sequence at every  *)
(* time (landmark.go:88-96).                                                *)
THEOREM NewestActive == Spec => []ActiveLandmarksAreTheNewest
<1>1. IInv => ActiveLandmarksAreTheNewest
    <2> SUFFICES ASSUME IInv,
                        NEW time \in 0..(MaxTime + Lifetime),
                        NEW i \in ActiveLandmarks(ls, time),
                        NEW j \in i..LastLandmark(ls)
                 PROVE  j \in ActiveLandmarks(ls, time)
        BY DEF ActiveLandmarksAreTheNewest
    <2>1. Len(ls.landmarks) \in Nat /\ Len(ls.expiries) = Len(ls.landmarks)
        BY LenProperties DEF IInv, TypeOK
    <2>2. \A k \in 1..Len(ls.landmarks) : ls.expiries[k] \in Nat
        BY <2>1, ElementOfSeq DEF IInv, TypeOK
    <2>3. /\ i \in 1..LastLandmark(ls) /\ ls.expiries[i + 1] > time
        BY DEF ActiveLandmarks, Expiry
    <2>4. /\ j \in 1..LastLandmark(ls)
          /\ i + 1 \in 1..Len(ls.landmarks)
          /\ j + 1 \in 1..Len(ls.landmarks)
          /\ i <= j
        BY <2>1, <2>3 DEF LastLandmark
    <2>5. \A a, b \in 1..Len(ls.landmarks) : a < b => ls.expiries[a] <= ls.expiries[b]
        BY DEF IInv, LandmarksAreOrdered
    <2>6. ls.expiries[j + 1] > time
        <3> DEFINE E == ls.expiries
                   a == i + 1
                   b == j + 1
        <3>1. /\ a \in 1..Len(ls.landmarks) /\ b \in 1..Len(ls.landmarks)
              /\ a <= b /\ a \in Nat /\ b \in Nat
              /\ E[a] > time /\ time \in Nat
            BY <2>1, <2>3, <2>4, LandmarkConstants DEF LastLandmark
        <3>2. E[a] \in Nat /\ E[b] \in Nat /\ (a < b => E[a] <= E[b])
            BY <2>2, <2>5, <3>1
        <3> HIDE DEF E, a, b
        <3>3. E[b] > time BY <3>1, <3>2
        <3> QED BY <3>3 DEF E, b
    <2> QED BY <2>4, <2>6 DEF ActiveLandmarks, Expiry
<1> QED BY <1>1, Invariance, PTL

-----------------------------------------------------------------------------
(* Answers of FindContainingLandmark do not change *)

(* A larger number added to a set of numbers does not change its minimum. *)
LEMMA MinOfLarger ==
    ASSUME NEW S \in SUBSET Nat, S # {}, NEW m \in Nat, \A x \in S : x < m
    PROVE  Min(S \cup {m}) = Min(S) /\ Min(S) \in S
<1>1. PICK least \in S : \A y \in S : least <= y
    BY SmallestElement
<1>2. Min(S) = least
    <2>1. \A x \in S : (\A y \in S : x <= y) => x = least
        BY <1>1
    <2> QED BY <1>1, <2>1 DEF Min
<1>3. Min(S \cup {m}) = least
    <2>1. \A y \in S \cup {m} : least <= y
        BY <1>1
    <2>2. \A x \in S \cup {m} : (\A y \in S \cup {m} : x <= y) => x = least
        BY <1>1
    <2> QED BY <2>1, <2>2 DEF Min
<1> QED BY <1>2, <1>3

(* The landmarks above an index. *)
Above(l, index) == {num \in 1..LastLandmark(l) : 0 <= index /\ index < TreeSize(l, num)}

LEMMA AllocationKeepsAnswers ==
    ASSUME IInv, Allocate, NEW index \in 0..(size - 1),
           FindContainingLandmark(ls, index) # NoLandmark
    PROVE  FindContainingLandmark(ls', index) = FindContainingLandmark(ls, index)
<1> DEFINE last == LastLandmark(ls)
<1>1. /\ last \in Nat
      /\ Len(ls.landmarks) = last + 1
      /\ LastLandmark(ls') = last + 1
      /\ \A num \in 0..last : TreeSize(ls', num) = TreeSize(ls, num)
      /\ TreeSize(ls', last + 1) = size
    <2>1. Len(ls.landmarks) \in Nat \ {0} /\ Len(ls'.landmarks) = Len(ls.landmarks) + 1
        BY Allocation, LenProperties DEF IInv, TypeOK
    <2>2. \A i \in 1..Len(ls.landmarks) : ls'.landmarks[i] = ls.landmarks[i]
        BY Allocation DEF IInv
    <2>3. ls'.landmarks[Len(ls.landmarks) + 1] = size
        BY Allocation DEF IInv
    <2> QED BY <2>1, <2>2, <2>3 DEF LastLandmark, TreeSize
<1>2. Above(ls, index) # {}
    BY DEF FindContainingLandmark, Above
<1>3. Above(ls', index) = Above(ls, index) \cup {last + 1}
    <2>1. size \in Nat /\ index \in Nat /\ index < size
        BY DEF IInv, TypeOK
    <2>2. \A num : num \in 1..(last + 1) <=> num \in 1..last \/ num = last + 1
        BY <1>1
    <2>3. \A num \in 1..last : TreeSize(ls', num) = TreeSize(ls, num)
        BY <1>1
    <2> QED BY <1>1, <2>1, <2>2, <2>3 DEF Above
<1>4. Above(ls, index) \in SUBSET Nat /\ \A num \in Above(ls, index) : num < last + 1
    BY <1>1 DEF Above
<1>5. /\ Min(Above(ls', index)) = Min(Above(ls, index))
      /\ Min(Above(ls, index)) \in 1..last
    <2>1. last + 1 \in Nat BY <1>1
    <2>2. Min(Above(ls, index)) \in Above(ls, index)
        BY <1>2, <1>4, <2>1, MinOfLarger
    <2> QED BY <1>2, <1>3, <1>4, <2>1, <2>2, MinOfLarger DEF Above
<1>6. \A num \in 1..last : SubtreeIn(ls', num, index) = SubtreeIn(ls, num, index)
    <2> TAKE num \in 1..last
    <2>1. /\ TreeSize(ls', num) = TreeSize(ls, num)
          /\ TreeSize(ls', num - 1) = TreeSize(ls, num - 1)
          /\ ~(num <= 0) /\ ~(num > last) /\ ~(num > last + 1)
        BY <1>1
    <2>2. LandmarkSubtrees(ls', num) = LandmarkSubtrees(ls, num)
        BY <1>1, <2>1 DEF LandmarkSubtrees
    <2> QED BY <2>2 DEF SubtreeIn
<1>7. Above(ls', index) # {}
    BY <1>3
<1> QED BY <1>2, <1>5, <1>6, <1>7 DEF FindContainingLandmark, Above

(* Landmarks allocated later move no entry to another landmark or subtree:  *)
(* a landmark-relative certificate stays the right one (landmark.go:122).   *)
THEOREM StableAnswers == Spec => EntriesKeepTheirLandmark
<1> DEFINE Keeps ==
        \A index \in 0..(size - 1) :
            FindContainingLandmark(ls, index) # NoLandmark =>
                FindContainingLandmark(ls', index) = FindContainingLandmark(ls, index)
<1>1. IInv /\ [Next]_vars => [Keeps]_vars
    <2> SUFFICES ASSUME IInv, [Next]_vars PROVE Keeps
        OBVIOUS
    <2>1. CASE Allocate
        BY <2>1, AllocationKeepsAnswers
    <2>2. CASE Grow \/ Tick \/ SetClockBack \/ UNCHANGED vars
        <3>1. ls' = ls BY <2>2 DEF Grow, Tick, SetClockBack, vars
        <3> QED BY <3>1
    <2> QED BY <2>1, <2>2 DEF Next
<1> QED BY <1>1, Invariance, PTL DEF Spec, EntriesKeepTheirLandmark

-----------------------------------------------------------------------------
(* The recommended number of active landmarks *)

(* As long as landmarks are Spacing or more apart, so are their expiries,   *)
(* and the last one was allocated in the past.                              *)
SpacedExpiries ==
    spaced =>
        /\ allocated <= now
        /\ \A i \in 1..LastLandmark(ls) :
               Expiry(ls, i) + Spacing * (LastLandmark(ls) - i) <= allocated + Lifetime

LEMMA AllocationIsSpaced ==
    ASSUME IInv, SpacedExpiries, Allocate PROVE SpacedExpiries'
<1> SUFFICES ASSUME spaced' PROVE SpacedExpiries'
    BY DEF SpacedExpiries
<1> DEFINE last == LastLandmark(ls)
           then == now + Lifetime
<1>1. /\ spaced /\ (last > 0 => now >= allocated + Spacing)
      /\ allocated' = now /\ now' = now
    BY DEF Allocate
<1>2. /\ last \in Nat
      /\ LastLandmark(ls') = last + 1
      /\ Expiry(ls', last + 1) = then
      /\ \A i \in 1..last : Expiry(ls', i) = Expiry(ls, i) /\ Expiry(ls, i) \in Nat
    <2>1. /\ Len(ls.landmarks) \in Nat \ {0} /\ Len(ls'.landmarks) = Len(ls.landmarks) + 1
          /\ Len(ls.expiries) = Len(ls.landmarks)
        BY Allocation, LenProperties DEF IInv, TypeOK
    <2>2. \A i \in 1..Len(ls.landmarks) :
              ls'.expiries[i] = ls.expiries[i] /\ ls.expiries[i] \in Nat
        BY Allocation, ElementOfSeq DEF IInv, TypeOK
    <2>3. ls'.expiries[Len(ls.landmarks) + 1] = now + Lifetime
        BY Allocation DEF IInv
    <2> QED BY <2>1, <2>2, <2>3 DEF LastLandmark, Expiry
<1>3. /\ now \in Nat /\ Lifetime \in Nat /\ Spacing \in Nat \ {0} /\ allocated \in Nat
    BY LandmarkConstants DEF IInv, TypeOK
<1>4. ASSUME NEW i \in 1..(last + 1)
      PROVE  Expiry(ls', i) + Spacing * (last + 1 - i) <= then
    <2>1. CASE i = last + 1
        <3>1. Spacing * (last + 1 - i) = 0
            BY <1>2, <1>3, <2>1
        <3> QED BY <1>2, <1>3, <2>1, <3>1
    <2>2. CASE i # last + 1
        <3>1. i \in 1..last /\ last > 0 /\ last - i \in Nat
            BY <1>2, <2>2
        <3>2. Expiry(ls, i) + Spacing * (last - i) <= allocated + Lifetime
            BY <1>1, <3>1 DEF SpacedExpiries
        <3>3. /\ Spacing * (last + 1 - i) = Spacing * (last - i) + Spacing
              /\ Spacing * (last - i) \in Nat
            <4>1. last + 1 - i = (last - i) + 1
                BY <1>2
            <4> QED BY <1>3, <3>1, <4>1
        <3>4. Expiry(ls', i) = Expiry(ls, i) /\ Expiry(ls, i) \in Nat
            BY <1>2, <3>1
        <3>5. now >= allocated + Spacing
            BY <1>1, <3>1
        <3> HIDE DEF last
        <3> QED BY <1>3, <3>2, <3>3, <3>4, <3>5
    <2> QED BY <2>1, <2>2
<1>5. allocated' <= now'
    BY <1>1, <1>3
<1> HIDE DEF last
<1> QED BY <1>1, <1>2, <1>4, <1>5 DEF SpacedExpiries

(* The active landmarks are among the last ceil(Lifetime / Spacing). *)
LEMMA FewAreActive ==
    ASSUME IInv, SpacedExpiries PROVE RecommendedMaximumSuffices
<1> SUFFICES ASSUME spaced
             PROVE  Cardinality(ActiveLandmarks(ls, now))
                        <= RecommendedMaxActiveLandmarks(Lifetime, Spacing)
    BY DEF RecommendedMaximumSuffices
<1> DEFINE last == LastLandmark(ls)
           c    == (Lifetime + Spacing - 1) \div Spacing
<1>1. /\ now \in Nat /\ Lifetime \in Nat /\ Spacing \in Nat \ {0} /\ allocated \in Nat
      /\ allocated <= now
    BY LandmarkConstants DEF IInv, TypeOK, SpacedExpiries
<1>2. last \in Nat /\ \A i \in 1..last : Expiry(ls, i) \in Nat
    <2>1. Len(ls.landmarks) \in Nat \ {0} /\ Len(ls.expiries) = Len(ls.landmarks)
        BY LenProperties DEF IInv, TypeOK
    <2>2. \A i \in 1..Len(ls.landmarks) : ls.expiries[i] \in Nat
        BY <2>1, ElementOfSeq DEF IInv, TypeOK
    <2> QED BY <2>1, <2>2 DEF LastLandmark, Expiry
<1>3. c \in Nat /\ Spacing * c >= Lifetime
    <2>1. Lifetime + Spacing - 1 \in Nat
        BY <1>1
    <2>2. /\ c \in Nat
          /\ (Lifetime + Spacing - 1) % Spacing \in 0..(Spacing - 1)
          /\ Lifetime + Spacing - 1 = Spacing * c + ((Lifetime + Spacing - 1) % Spacing)
        BY <1>1, <2>1, Division
    <2> QED BY <1>1, <2>2
<1> HIDE DEF c
<1>4. ASSUME NEW i \in ActiveLandmarks(ls, now)
      PROVE  i \in (last - c + 1)..last
    <2>1. i \in 1..last /\ Expiry(ls, i) > now /\ last - i \in Nat
        BY <1>2 DEF ActiveLandmarks
    <2>2. Expiry(ls, i) + Spacing * (last - i) <= allocated + Lifetime
        BY <2>1 DEF SpacedExpiries
    <2>3. Spacing * (last - i) < Lifetime
        <3>1. Spacing * (last - i) \in Nat /\ Expiry(ls, i) \in Nat
            BY <1>1, <1>2, <2>1
        <3> HIDE DEF last
        <3> QED BY <1>1, <2>1, <2>2, <3>1
    <2>4. ~(c <= last - i)
        <3> SUFFICES ASSUME c <= last - i PROVE FALSE
            OBVIOUS
        <3> DEFINE n == last - i
        <3>1. n \in Nat /\ c <= n
            BY <2>1
        <3> HIDE DEF n
        <3>2. Spacing * c <= Spacing * n
            <4>1. CASE c = n BY <1>1, <1>3, <3>1, <4>1
            <4>2. CASE c # n
                <5>1. c < n BY <1>3, <3>1, <4>2
                <5>2. Spacing * c + Spacing <= Spacing * n
                    BY <1>1, <1>3, <3>1, <5>1, Scaled
                <5>3. Spacing * c \in Nat /\ Spacing * n \in Nat
                    BY <1>1, <1>3, <3>1
                <5> QED BY <1>1, <5>2, <5>3
            <4> QED BY <4>1, <4>2
        <3>3. Spacing * c \in Nat /\ Spacing * n \in Nat /\ Spacing * n < Lifetime
            BY <1>1, <1>3, <2>3, <3>1 DEF n
        <3> QED BY <1>1, <1>3, <3>2, <3>3
    <2> QED BY <1>2, <1>3, <2>1, <2>4
<1>5. /\ IsFiniteSet((last - c + 1)..last)
      /\ Cardinality((last - c + 1)..last) <= c
    <2>1. PICK a \in Int, b \in Int : a = last - c + 1 /\ b = last
        BY <1>2, <1>3
    <2>2. IsFiniteSet(a..b) /\ Cardinality(a..b) = IF a > b THEN 0 ELSE b - a + 1
        BY FS_Interval
    <2> QED BY <1>2, <1>3, <2>1, <2>2
<1>6. Cardinality(ActiveLandmarks(ls, now)) <= c /\ Cardinality(ActiveLandmarks(ls, now)) \in Nat
    <2>1. ActiveLandmarks(ls, now) \in SUBSET ((last - c + 1)..last)
        BY <1>4
    <2>2. /\ IsFiniteSet(ActiveLandmarks(ls, now))
          /\ Cardinality(ActiveLandmarks(ls, now)) <= Cardinality((last - c + 1)..last)
        BY <1>5, <2>1, FS_Subset
    <2> QED BY <1>3, <1>5, <2>2, FS_CardinalityType
<1> QED BY <1>3, <1>6 DEF RecommendedMaxActiveLandmarks, c

(* ceil(lifetime / spacing) + 1 active landmarks are enough whenever they   *)
(* are allocated spacing or more apart (landmark.go:145-150).               *)
THEOREM MaximumSuffices == Spec => []RecommendedMaximumSuffices
<1>1. Init => SpacedExpiries
    <2> SUFFICES ASSUME Init PROVE SpacedExpiries
        OBVIOUS
    <2>1. LastLandmark(ls) = 0
        BY DEF Init, NewLandmarkSequence, LastLandmark
    <2> QED BY <2>1 DEF Init, SpacedExpiries
<1>2. IInv /\ SpacedExpiries /\ [Next]_vars => SpacedExpiries'
    <2> SUFFICES ASSUME IInv, SpacedExpiries, [Next]_vars PROVE SpacedExpiries'
        OBVIOUS
    <2>1. CASE Allocate
        BY <2>1, AllocationIsSpaced
    <2>2. CASE Tick
        <3>1. now \in Nat /\ allocated \in Nat
            BY LandmarkConstants DEF IInv, TypeOK
        <3> QED BY <2>2, <3>1 DEF Tick, SpacedExpiries
    <2>3. CASE SetClockBack
        BY <2>3 DEF SetClockBack, SpacedExpiries
    <2>4. CASE Grow \/ UNCHANGED vars
        BY <2>4 DEF Grow, vars, SpacedExpiries
    <2> QED BY <2>1, <2>2, <2>3, <2>4 DEF Next
<1>3. IInv /\ SpacedExpiries => RecommendedMaximumSuffices
    BY FewAreActive
<1> QED BY <1>1, <1>2, <1>3, Invariance, PTL DEF Spec

-----------------------------------------------------------------------------
(* Subtrees of landmarks *)

LEMMA SizesAreOrdered ==
    ASSUME IInv
    PROVE  size \in Words /\ size \in Nat /\ OrderedSizes(ls, size)
<1>1. size \in 1..MaxSize /\ MaxSize \in Nat /\ MaxSize < Pow2[W] /\ Pow2[W] \in Nat
    BY MaxSizeIsWord, Pow2Type, WordWidth DEF IInv, TypeOK
<1> QED BY <1>1 DEF IInv, TypeOK, LandmarksAreOrdered, OrderedSizes, Words

(* Two landmarks never share a subtree, nor does one have a subtree twice   *)
(* (verify.go:204-211, landmark.go:101-109).                                *)
THEOREM DistinctSubtrees == Spec => []LandmarkSubtreesAreDistinct
<1>1. IInv => LandmarkSubtreesAreDistinct
    <2> SUFFICES ASSUME IInv,
                        NEW i \in 1..LastLandmark(ls), NEW j \in 1..LastLandmark(ls),
                        NEW k \in 1..2, NEW m \in 1..2,
                        <<i, k>> # <<j, m>>,
                        LandmarkSubtrees(ls, i)[k].start < LandmarkSubtrees(ls, i)[k].end,
                        LandmarkSubtrees(ls, i)[k] = LandmarkSubtrees(ls, j)[m]
                 PROVE  FALSE
        BY DEF LandmarkSubtreesAreDistinct
    <2> QED BY SizesAreOrdered, DifferentLandmarkSubtrees
<1> QED BY <1>1, Invariance, PTL

(* A landmark is found exactly for the entries below the last one, with a   *)
(* valid subtree of the log that holds the entry (landmark.go:118-143).     *)
THEOREM EntriesAreFound == Spec => []EveryEntryHasItsLandmark
<1>1. IInv => EveryEntryHasItsLandmark
    <2> SUFFICES ASSUME IInv, NEW index \in -1..size
                 PROVE  LET found   == FindContainingLandmark(ls, index)
                            covered == 0 <= index /\ index < TreeSize(ls, LastLandmark(ls))
                        IN  /\ (found # NoLandmark) = covered
                            /\ covered =>
                                /\ TreeSize(ls, found.num - 1) <= index
                                /\ index < TreeSize(ls, found.num)
                                /\ In(index, found.subtree)
                                /\ IsValidSubtree(found.subtree.start, found.subtree.end)
                                /\ found.subtree.end <= size
        BY DEF EveryEntryHasItsLandmark
    <2> DEFINE found   == FindContainingLandmark(ls, index)
               covered == 0 <= index /\ index < TreeSize(ls, LastLandmark(ls))
    <2>1. index \in Int /\ size \in Words /\ size \in Nat /\ OrderedSizes(ls, size)
        BY SizesAreOrdered
    <2>2. CASE ~covered
        <3>1. found = NoLandmark
            BY <2>1, <2>2, NothingFound
        <3> QED BY <2>2, <3>1
    <2>3. CASE covered
        <3>1. PICK num \in 1..LastLandmark(ls), k \in 1..2 :
                  /\ found = [num |-> num, subtree |-> LandmarkSubtrees(ls, num)[k]]
                  /\ TreeSize(ls, num - 1) <= index /\ index < TreeSize(ls, num)
                  /\ In(index, LandmarkSubtrees(ls, num)[k])
            BY <2>1, <2>3, SomethingFound
        <3> DEFINE st == LandmarkSubtrees(ls, num)[k]
        <3>2. IsSubtree(st.start, st.end) /\ st.start \in Nat /\ st.end \in 0..size
            <4>1. /\ TightCover(LandmarkSubtrees(ls, num), TreeSize(ls, num - 1), TreeSize(ls, num))
                  /\ TreeSize(ls, num) \in 1..size
                BY <2>1, LandmarkIsCovered
            <4>2. PICK first \in Nat, mid \in Nat :
                      /\ LandmarkSubtrees(ls, num)
                             = <<Interval(first, mid), Interval(mid, TreeSize(ls, num))>>
                      /\ mid <= TreeSize(ls, num)
                      /\ IsSubtree(first, mid)
                      /\ IsSubtree(mid, TreeSize(ls, num))
                BY <4>1 DEF TightCover
            <4>3. \/ st.start = first /\ st.end = mid
                  \/ st.start = mid /\ st.end = TreeSize(ls, num)
                BY <4>2 DEF Interval
            <4> QED BY <2>1, <4>1, <4>2, <4>3
        <3> HIDE DEF st
        <3>3. IsValidSubtree(st.start, st.end)
            <4>1. st.end \in Words /\ st.start \in Words
                BY <2>1, <3>2, Pow2Type, WordWidth DEF Words, IsSubtree
            <4> QED BY <3>2, <4>1, ValidityExact DEF IsValidSubtree
        <3>4. /\ found # NoLandmark /\ found.num = num /\ found.subtree = st
            <4>1. num # 0
                BY <2>1, LandmarkSizes
            <4> QED BY <3>1, <4>1 DEF NoLandmark, st
        <3> HIDE DEF found
        <3> QED BY <2>3, <3>1, <3>2, <3>3, <3>4 DEF st, found
    <2> QED BY <2>2, <2>3
<1> QED BY <1>1, Invariance, PTL

=============================================================================
