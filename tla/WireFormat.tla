----------------------------- MODULE WireFormat -----------------------------
(***************************************************************************)
(* What the library writes and reads again: trust anchor ids, the MTCProof *)
(* of a certificate, and the TBSCertificate from which the log entry is    *)
(* rebuilt (src/trustanchorid.go, src/cert.go, src/entry.go).              *)
(*                                                                         *)
(* The model holds one item: an id of which byte after byte is read, a     *)
(* proof that a caller puts together piece by piece, the message it        *)
(* becomes, which may arrive changed, cut or extended, or a certificate.   *)
(***************************************************************************)
EXTENDS MTCProofs

CONSTANTS
    Exts,         \* extensions a caller may add, [type, data] each
    Offsets,      \* pairs of start and end
    Inclusions,   \* inclusion proofs
    Signatures,   \* signatures a caller may add, [id, signature] each
    LogNumbers,   \* log numbers, and
    LandmarkNums, \* landmark numbers, of which ids are made
    Fields,       \* what is certified: issuer, from, to, cn and key
    Serials,      \* serial numbers
    MaxId,        \* bound: bytes of an id
    MaxParts,     \* bound: extensions and signatures of a proof
    MaxDamaged    \* bound: longer messages arrive as they were sent

ASSUME WireFormatConstants ==
    /\ Exts \subseteq [type : 0..(Limit(2) - 1), data : Seq(Byte)]
    /\ Offsets \subseteq Nat \X Nat
    /\ Inclusions \subseteq Seq(Byte)
    /\ Signatures \subseteq SignatureType
    /\ LogNumbers \subseteq Words \ {0}
    /\ LandmarkNums \subseteq Words
    /\ \A f \in Fields :
           f = [issuer |-> f.issuer, from |-> f.from, to |-> f.to, cn |-> f.cn, key |-> f.key]

VARIABLE item

Nothing == [kind |-> "nothing"]

Init == item = Nothing

(* An id in a message or a certificate may be any bytes. *)
ReadId(b) ==
    /\ item.kind \in {"nothing", "id"}
    /\ LET bytes == IF item = Nothing THEN <<>> ELSE item.bytes
       IN  /\ Len(bytes) < MaxId
           /\ item' = [kind |-> "id", bytes |-> Append(bytes, b)]

(* CreateCertificate starts from a proof without signatures and with the    *)
(* extensions the caller passes, if any.                                    *)
NewProof(offsets, inclusion) ==
    /\ item = Nothing
    /\ item' = [kind |-> "proof", exts |-> <<>>, start |-> offsets[1], end |-> offsets[2],
                inclusionProof |-> inclusion, signatures |-> <<>>]

Parts == Len(item.exts) + Len(item.signatures)

AddExtension(ext) ==
    /\ item.kind = "proof"
    /\ Parts < MaxParts
    /\ item' = [item EXCEPT !.exts = Append(@, ext)]

AddSignature(sig) ==
    /\ item.kind = "proof"
    /\ Parts < MaxParts
    /\ item' = [item EXCEPT !.signatures = Append(@, sig)]

(* The proof as the library has it: no extensions are nil.                  *)
Proof ==
    [extensions |-> IF item.exts = <<>> THEN Nil ELSE {MarshalExtensions(item.exts)},
     start |-> item.start, end |-> item.end, inclusionProof |-> item.inclusionProof,
     signatures |-> item.signatures]

Send ==
    /\ item.kind = "proof"
    /\ \E bytes \in Marshal(Proof) :
           item' = [kind |-> "message", bytes |-> bytes, damaged |-> FALSE]

Arrives(bytes) == item' = [kind |-> "message", bytes |-> bytes, damaged |-> TRUE]

Damageable ==
    /\ item.kind = "message"
    /\ ~item.damaged
    /\ Len(item.bytes) <= MaxDamaged

Change(i, b) == Damageable /\ b # item.bytes[i] /\ Arrives([item.bytes EXCEPT ![i] = b])

Cut(n) == Damageable /\ Arrives(SubSeq(item.bytes, 1, n))

Extend(b) == Damageable /\ Arrives(Append(item.bytes, b))

(* The TBSCertificate of "ca issue". *)
Certify(f, serial) ==
    /\ item = Nothing
    /\ item' = [kind |-> "certificate", fields |-> f, callback |-> "validity, subject",
                tbs |-> CertificateTBS(serial, f.issuer,
                            <<Validity(f.from, f.to), Subject(f.cn)>>, f.key)]

(* The same with a function that writes extensions too. *)
CertifyWithExtensions(f, serial) ==
    /\ item = Nothing
    /\ item' = [kind |-> "certificate", fields |-> f,
                callback |-> "validity, subject, extensions",
                tbs |-> CertificateTBS(serial, f.issuer,
                            <<Validity(f.from, f.to), Subject(f.cn), Extensions("e")>>, f.key)]

Next ==
    \/ \E b \in Byte : ReadId(b)
    \/ \E offsets \in Offsets, inclusion \in Inclusions : NewProof(offsets, inclusion)
    \/ \E ext \in Exts : AddExtension(ext)
    \/ \E sig \in Signatures : AddSignature(sig)
    \/ Send
    \/ /\ Damageable
       /\ \/ \E i \in DOMAIN item.bytes, b \in Byte : Change(i, b)
          \/ \E n \in 0..(Len(item.bytes) - 1) : Cut(n)
          \/ \E b \in Byte : Extend(b)
    \/ \E f \in Fields, serial \in Serials :
          Certify(f, serial) \/ CertifyWithExtensions(f, serial)

Spec == Init /\ [][Next]_item

-----------------------------------------------------------------------------
(* Properties *)

(* Whatever bytes are read as an id, at most one sequence of numbers prints *)
(* as it and parses to it again, and it can be continued by any number of a *)
(* word: ids are equal as bytes, as verify.go:217 compares them, exactly    *)
(* when they are equal as printed, as cosignatures name them                *)
(* (trustanchorid.go:38-112, cosign.go:48-58).                              *)
IdsPrintUniquely ==
    item.kind = "id" =>
        \A numbers \in Numbers(item.bytes) :
            /\ ParseTrustAnchorID(numbers) = item.bytes
            /\ \A v \in Words :
                   Numbers(AppendBase128(item.bytes, v)) = {Append(numbers, v)}

(* Ids of logs and landmarks differ, also those of two authorities one of   *)
(* which has an id that begins with the other's, as long as no log has the  *)
(* number 0 (trustanchorid.go:114-134, ca.go:67-70).                        *)
LogsAndLandmarksHaveTheirOwnIds ==
    item.kind = "id" /\ Numbers(item.bytes) # {} =>
        \A length \in 1..Len(item.bytes) :
            LET ca    == item.bytes
                other == SubSeq(ca, 1, length)
            IN  Numbers(other) # {} =>
                \A n, m \in LogNumbers, l, k \in LandmarkNums :
                    /\ LogID(ca, n) # LandmarkID(other, m, k)
                    /\ LogID(other, n) # LandmarkID(ca, m, k)
                    /\ LogID(ca, n) = LogID(other, m) => ca = other /\ n = m
                    /\ LandmarkID(ca, n, l) = LandmarkID(other, m, k)
                           => ca = other /\ n = m /\ l = k

(* Section 6.1 as cert.go cites it: what a proof must be like, its offsets  *)
(* apart.                                                                   *)
WellFormedButOffsets ==
    /\ \A i \in 1..(Len(item.exts) - 1) : item.exts[i].type < item.exts[i + 1].type
    /\ Len(ExtensionList(item.exts)) < Limit(2)
    /\ Len(item.inclusionProof) % HashSize = 0
    /\ \A i \in DOMAIN item.signatures : item.signatures[i].id # <<>>
    /\ \A i \in 1..(Len(item.signatures) - 1) :
           ComesBefore(item.signatures[i].id, item.signatures[i + 1].id)

WellFormedProof ==
    /\ WellFormedButOffsets
    /\ item.start < Limit(OffsetBytes)
    /\ item.end < Limit(OffsetBytes)

(* The proof with the last bytes of its offsets. *)
CutOffsets(p) ==
    [p EXCEPT !.start = @ % Limit(OffsetBytes), !.end = @ % Limit(OffsetBytes)]

(* The entry VerifyCertificateSignature hashes has the proof's extensions   *)
(* in front.                                                                *)
RebuiltEntry(proof, contents) ==
    [head |-> (CHOOSE raw \in proof.extensions : TRUE) \o BigEndian(EntryTypeTBSCert, 2),
     contents |-> contents]

(* A proof that is written is read back as it was exactly when it is well   *)
(* formed.  Otherwise, as long as the extensions fit their length, it is    *)
(* not read at all unless only its offsets are too large: these the writer  *)
(* cuts off, and the proof is read as one for the subtree that the last     *)
(* bytes name (cert.go:25-31).  Of extensions longer than their length can  *)
(* say the reader takes only the beginning for extensions (entry.go:49-52): *)
(* the rest it may take for another proof, or for none, but never for the   *)
(* one that was sent.  The entry rebuilt is the one that was logged, whichever offsets   *)
(* the proof is read with (cert.go:24-169, verify.go:181-189).              *)
ProofsSurviveExactlyWhenWellFormed ==
    item.kind = "proof" =>
        LET sent == [Proof EXCEPT !.extensions = {MarshalExtensions(item.exts)}]
        IN  \A bytes \in Marshal(Proof) :
                LET read == UnmarshalMTCProof(bytes)
                IN  /\ (read = {sent}) = WellFormedProof
                    /\ Len(ExtensionList(item.exts)) < Limit(2) =>
                           read = IF WellFormedButOffsets THEN {CutOffsets(sent)} ELSE {}
                    /\ WellFormedButOffsets => \A p \in read :
                           RebuiltEntry(p, "contents") = MarshalTBSCertEntry(item.exts, "contents")

(* There is one way to write each proof that can be read: a message that    *)
(* was changed, cut or extended and is still readable is another proof.     *)
ReadableMessagesAreCanonical ==
    item.kind = "message" =>
        \A p \in UnmarshalMTCProof(item.bytes) : Marshal(p) = {item.bytes}

(* The entry rebuilt from a certificate's TBSCertificate is the one logged  *)
(* for the same fields when the serial number was still unknown, and for no *)
(* other fields (ca.go:153-159, 298-312, entry.go:103-217).                 *)
CertificatesRebuildTheirEntry ==
    item.kind = "certificate" /\ item.callback = "validity, subject" =>
        LET rebuilt == BuildTBSCertificateLogEntry(item.tbs)
        IN  /\ rebuilt # {}
            /\ \A f \in Fields : (rebuilt = BuildTBSCertificateLogEntry(BuildDemoTBSCert(f)))
                                    = (f = item.fields)

-----------------------------------------------------------------------------
(* A claim of the documentation that the code does not keep *)

(* "callback to write validity, subject, extensions into the                *)
(* TBSCertificate" (cert.go:196): the log entry can be rebuilt from a       *)
(* certificate made with such a function.                                   *)
CallbackMayWriteExtensions ==
    item.kind = "certificate" => BuildTBSCertificateLogEntry(item.tbs) # {}

=============================================================================
