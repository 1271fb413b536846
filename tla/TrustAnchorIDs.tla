--------------------------- MODULE TrustAnchorIDs ---------------------------
(***************************************************************************)
(* Trust anchor ids (src/trustanchorid.go): sequences of numbers, written  *)
(* as bytes in base-128 groups of which all but the last of a number have  *)
(* the top bit set.  Bytes have ByteBits bits and words W, so that every   *)
(* string of bytes around the limits of a word can be looked at.           *)
(* What may fail returns a set: of the result, or of nothing.              *)
(***************************************************************************)
EXTENDS Subtrees, SequencesExt

CONSTANT ByteBits     \* bits in a byte; 8 in the code

ASSUME ByteWidth == ByteBits \in 2..W

Byte  == 0..(Pow2[ByteBits] - 1)
Group == Pow2[ByteBits - 1]        \* 0x80: the values of a group, and the flag

More(b) == b >= Group              \* b & 0x80

(* v, v >> n, v >> 2n and so on, where base is 1 << n. *)
Shifts(v, base, times) ==
    LET q[i \in 0..times] == IF i = 0 THEN v ELSE q[i - 1] \div base
    IN  q

(* The number read so far, ret<<n | digit after each digit. *)
Reads(digits, base) ==
    LET ret[i \in 0..Len(digits)] ==
            IF i = 0 THEN 0 ELSE ret[i - 1] * base + (digits[i] % base)
    IN  ret

(* "for len(rest) != 0": what the loop ends with, or nothing when a turn    *)
(* fails.  A turn is a function from the loop's state to what it may        *)
(* become; each reads a byte at least.                                      *)
WhileRest(turn, first) ==
    LET after[n \in 0..Len(first.rest)] ==
            IF n = 0 THEN {first}
            ELSE UNION {IF s.rest = <<>> THEN {s} ELSE turn[s] : s \in after[n - 1]}
    IN  after[Len(first.rest)]

(* How many groups a number needs; zero needs one. *)
Groups(v) == Min({n \in 1..W : Shifts(v, Group, W)[n] = 0})

(* What appendBase128 appends. *)
Base128(v) ==
    LET l == Groups(v)
        q == Shifts(v, Group, W)
    IN  [i \in 1..l |-> (q[l - i] % Group) + (IF i < l THEN Group ELSE 0)]

AppendBase128(dst, v) == dst \o Base128(v)

(* The loop of parseBase128, which ends with the first byte without the     *)
(* flag: no byte is read when a further shift would lose bits of what has   *)
(* been read.                                                               *)
ReadGroups(in) ==
    LET ret  == Reads(in, Group)
        ends == {n \in DOMAIN in : ~More(in[n])}
    IN  {[value |-> ret[n], rest |-> SubSeq(in, n + 1, Len(in))] :
            n \in {m \in ends : /\ \A k \in ends : m <= k
                                /\ \A i \in 0..(m - 1) : ret[i] * Group < Pow2[W]}}

(* Slip: a number may start with an empty group. *)
ParseBase128_NotMinimal(in) == ReadGroups(in)

(* parseBase128 *)
ParseBase128(in) == IF in # <<>> /\ in[1] = Group THEN {} ELSE ReadGroups(in)

(* String's loop, and what it prints: the numbers, or nothing when the id   *)
(* is invalid.                                                              *)
PrintNumber ==
    [s \in [rest : Seq(Byte), numbers : Seq(Nat)] |->
        {[rest |-> read.rest, numbers |-> Append(s.numbers, read.value)] :
            read \in ParseBase128(s.rest)}]

Numbers(t) ==
    IF t = <<>> THEN {}
    ELSE {s.numbers : s \in WhileRest(PrintNumber, [rest |-> t, numbers |-> <<>>])}

(* ParseTrustAnchorID of the numbers as typed.                              *)
ParseTrustAnchorID(numbers) == FlattenSeq([i \in DOMAIN numbers |-> Base128(numbers[i])])

(* Slip: the arc that tells logs from landmarks is forgotten. *)
LogID_NoArc(ca, logNumber) == AppendBase128(ca, logNumber)

(* {ca logs(0) N} *)
LogID(ca, logNumber) == AppendBase128(AppendBase128(ca, 0), logNumber)

(* {ca landmarks(1) N L} *)
LandmarkID(ca, logNumber, landmarkNum) ==
    AppendBase128(AppendBase128(AppendBase128(ca, 1), logNumber), landmarkNum)

(* compareCosignerIDs(a, b) < 0: shorter first, then in byte order. *)
ComesBefore(a, b) ==
    \/ Len(a) < Len(b)
    \/ /\ Len(a) = Len(b)
       /\ \E i \in DOMAIN a : a[i] < b[i] /\ \A j \in 1..(i - 1) : a[j] = b[j]

=============================================================================
