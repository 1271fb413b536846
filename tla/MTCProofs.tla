------------------------------ MODULE MTCProofs -----------------------------
(***************************************************************************)
(* The MTCProof in the signature field of a certificate as bytes           *)
(* (src/cert.go): MTCProof.Marshal and UnmarshalMTCProof.                  *)
(***************************************************************************)
EXTENDS LogEntries

CONSTANTS
    HashSize,      \* 32
    OffsetBytes    \* 6: start and end are 48-bit numbers

ASSUME ProofConstants == HashSize \in Nat \ {0} /\ OffsetBytes \in Nat \ {0}

(* What a length prefix of so many bytes can say. *)
Limit(width) ==
    LET limit[i \in 0..width] == IF i = 0 THEN 1 ELSE Pow2[ByteBits] * limit[i - 1]
    IN  limit[width]

(* AddUint16LengthPrefixed and the like; too much data is an error when the *)
(* builder is asked for its bytes (Fits).                                   *)
Prefixed(width, data) == BigEndian(Len(data), width) \o data

Fits(width, data) == Len(data) < Limit(width)

MarshalSignature(sig) == Prefixed(1, sig.id) \o Prefixed(2, sig.signature)

MarshalSignatures(sigs) == FlattenSeq([i \in DOMAIN sigs |-> MarshalSignature(sigs[i])])

(* MTCProof.Marshal.  Extensions are raw bytes with their length in front,  *)
(* or nil, which is written as the empty list; start and end are cut off.   *)
Nil == {}

Marshal(p) ==
    LET raw  == IF p.extensions = Nil THEN BigEndian(0, 2)
                ELSE CHOOSE bytes \in p.extensions : TRUE
        fits == /\ Fits(2, p.inclusionProof)
                /\ \A i \in DOMAIN p.signatures :
                       Fits(1, p.signatures[i].id) /\ Fits(2, p.signatures[i].signature)
                /\ Fits(3, MarshalSignatures(p.signatures))
    IN  IF ~fits THEN {}
        ELSE {raw \o BigEndian(p.start, OffsetBytes) \o BigEndian(p.end, OffsetBytes)
                  \o Prefixed(2, p.inclusionProof)
                  \o Prefixed(3, MarshalSignatures(p.signatures))}

-----------------------------------------------------------------------------
(* Reading: each reader returns whether it succeeded, what it read and the  *)
(* bytes that are left.                                                     *)

Number(bytes) == Reads(bytes, Pow2[ByteBits])[Len(bytes)]

ReadNumber(width, s) ==
    [ok    |-> Len(s) >= width,
     value |-> Number(SubSeq(s, 1, Min({width, Len(s)}))),
     rest  |-> SubSeq(s, width + 1, Len(s))]

ReadPrefixed(width, s) ==
    LET length == ReadNumber(width, s)
    IN  [ok    |-> length.ok /\ Len(length.rest) >= length.value,
         value |-> SubSeq(length.rest, 1, Min({length.value, Len(length.rest)})),
         rest  |-> SubSeq(length.rest, length.value + 1, Len(length.rest))]

(* The extension types must strictly ascend; none may be cut short. *)
CheckExtension ==
    [s \in [rest : Seq(Byte), above : Int] |->
        LET type == ReadNumber(2, s.rest)
            data == ReadPrefixed(2, type.rest)
        IN  IF type.ok /\ type.value > s.above /\ data.ok
            THEN {[rest |-> data.rest, above |-> type.value]}
            ELSE {}]

ExtensionsInOrder(s) == WhileRest(CheckExtension, [rest |-> s, above |-> -1]) # {}

SignatureType == [id : Seq(Byte), signature : Seq(Byte)]

ReadingSignatures ==
    [rest : Seq(Byte), previous : Seq(Byte), signatures : Seq(SignatureType)]

(* Slip: ids are not compared with the one before. *)
ReadSignature_AnyOrder ==
    [s \in ReadingSignatures |->
        LET id  == ReadPrefixed(1, s.rest)
            sig == ReadPrefixed(2, id.rest)
        IN  IF id.ok /\ id.value # <<>> /\ sig.ok
            THEN {[rest |-> sig.rest, previous |-> id.value,
                   signatures |-> Append(s.signatures, [id |-> id.value, signature |-> sig.value])]}
            ELSE {}]

(* Each signature must have an id, which comes after the one before. *)
ReadSignature ==
    [s \in ReadingSignatures |->
        LET id  == ReadPrefixed(1, s.rest)
            sig == ReadPrefixed(2, id.rest)
        IN  IF id.ok /\ id.value # <<>> /\ ComesBefore(s.previous, id.value) /\ sig.ok
            THEN {[rest |-> sig.rest, previous |-> id.value,
                   signatures |-> Append(s.signatures, [id |-> id.value, signature |-> sig.value])]}
            ELSE {}]

ReadSignatures(s) ==
    {read.signatures :
        read \in WhileRest(ReadSignature, [rest |-> s, previous |-> <<>>, signatures |-> <<>>])}

(* Slip: bytes after the signatures are ignored. *)
UnmarshalMTCProof_Trailing(data) ==
    LET exts  == ReadPrefixed(2, data)
        start == ReadNumber(OffsetBytes, exts.rest)
        end   == ReadNumber(OffsetBytes, start.rest)
        proof == ReadPrefixed(2, end.rest)
        sigs  == ReadPrefixed(3, proof.rest)
        ok    == /\ exts.ok /\ start.ok /\ end.ok /\ proof.ok /\ sigs.ok
                 /\ ExtensionsInOrder(exts.value)
                 /\ Len(proof.value) % HashSize = 0
    IN  IF ~ok THEN {}
        ELSE {[extensions |-> {Prefixed(2, exts.value)}, start |-> start.value,
               end |-> end.value, inclusionProof |-> proof.value,
               signatures |-> signatures] :
                  signatures \in ReadSignatures(sigs.value)}

(* UnmarshalMTCProof *)
UnmarshalMTCProof(data) ==
    LET exts  == ReadPrefixed(2, data)
        start == ReadNumber(OffsetBytes, exts.rest)
        end   == ReadNumber(OffsetBytes, start.rest)
        proof == ReadPrefixed(2, end.rest)
        sigs  == ReadPrefixed(3, proof.rest)
        ok    == /\ exts.ok /\ start.ok /\ end.ok /\ proof.ok /\ sigs.ok
                 /\ ExtensionsInOrder(exts.value)
                 /\ Len(proof.value) % HashSize = 0
                 /\ sigs.rest = <<>>
    IN  IF ~ok THEN {}
        ELSE {[extensions |-> {Prefixed(2, exts.value)}, start |-> start.value,
               end |-> end.value, inclusionProof |-> proof.value,
               signatures |-> signatures] :
                  signatures \in ReadSignatures(sigs.value)}

=============================================================================
