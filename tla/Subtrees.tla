------------------------------ MODULE Subtrees ------------------------------
(***************************************************************************)
(* Interval arithmetic of src/subtree.go: which intervals [start, end) of  *)
(* entry indices are subtrees (Section 4.1 of the draft the code cites),   *)
(* and which two subtrees cover an interval (Section 4.5).                 *)
(*                                                                         *)
(* Machine words have W bits, so that the overflow the code guards against *)
(* (BIT_CEIL near 2^64) is reached with small numbers.  Shifts and masks   *)
(* by powers of two are written as \div and %.                             *)
(***************************************************************************)
EXTENDS Integers, FiniteSets, FiniteSetsExt

CONSTANT W    \* bits in a machine word; 64 in the code

ASSUME WordWidth == W \in Nat \ {0}

Odd(n) == n % 2 = 1

(* 1 << k; the one bit falls off the word when k = W (see BitCeilU64). *)
Pow2[k \in 0..W] == IF k = 0 THEN 1 ELSE 2 * Pow2[k - 1]

Words == 0..(Pow2[W] - 1)

(* bits.Len64: the number of bits needed to write n. *)
BitLen(n) == Min({k \in 0..W : n < Pow2[k]})

(* bits.Len(x ^ y): the length of the part in which x and y differ. *)
DiffLen(x, y) == Min({k \in 0..W : x \div Pow2[k] = y \div Pow2[k]})

(* bits.TrailingZeros(^x): how many of the low bits of x are ones. *)
TrailingOnes(x) == Min({k \in 0..W : ~Odd(x \div Pow2[k])})

(* How often "for x&1 == 0 && x != 0" shifts x. *)
TrailingZeros(x) == IF x = 0 THEN 0 ELSE Min({k \in 0..W : Odd(x \div Pow2[k])})

(* Slip: the next power of two above n, also when n is one itself. *)
BitCeilU64_Above(n) == IF n <= 1 THEN 1 ELSE Pow2[BitLen(n)] % Pow2[W]

(* bitCeilU64: the shift drops the bit that falls off the word. *)
BitCeilU64(n) == IF n <= 1 THEN 1 ELSE Pow2[BitLen(n - 1)] % Pow2[W]

(* x & (ceil - 1); ceil = 0 is the overflowed power of two: all ones. *)
LowBits(x, ceil) == IF ceil = 0 THEN x ELSE x % ceil

IsValidSubtreeU64(start, end) ==
    /\ start <= end
    /\ IF end - start > Pow2[W - 1]
       THEN start = 0
       ELSE LowBits(start, BitCeilU64(end - start)) = 0

IsValidSubtree(start, end) ==
    /\ start >= 0
    /\ end >= 0
    /\ IsValidSubtreeU64(start, end)

Interval(start, end) == [start |-> start, end |-> end]

(* Slip: the left subtree starts where the interval does, unaligned. *)
SplitInterval_Unaligned(start, end) ==
    LET last == end - 1
        mid  == last - (last % Pow2[DiffLen(start, last) - 1])
    IN  <<Interval(start, mid), Interval(mid, end)>>

(* The split of FindSubtrees for an interval of at least two elements: mid *)
(* is the multiple of the largest power of two inside the interval, and    *)
(* the left start is moved down to where a subtree ending at mid starts.   *)
SplitInterval(start, end) ==
    LET last      == end - 1
        split     == DiffLen(start, last) - 1
        mid       == last - (last % Pow2[split])
        leftSplit == BitLen(Pow2[split] - 1 - (start % Pow2[split]))
    IN  <<Interval(start - (start % Pow2[leftSplit]), mid), Interval(mid, end)>>

(* FindSubtrees: the empty sequence stands for its error. *)
FindSubtrees(start, end) ==
    IF start < 0 \/ start > end THEN <<>>
    ELSE IF end - start <= 1
         THEN <<Interval(start, end), Interval(end, end)>>
         ELSE SplitInterval(start, end)

In(index, interval) == interval.start <= index /\ index < interval.end

-----------------------------------------------------------------------------
(* Reference definitions: BIT_CEIL and subtree validity of Section 4.1,     *)
(* over unbounded numbers.                                                  *)

BIT_CEIL(n) == Min({k \in {Pow2[b] : b \in 0..W} : k >= n})

IsSubtree(start, end) == 0 <= start /\ start <= end /\ start % BIT_CEIL(end - start) = 0

=============================================================================
