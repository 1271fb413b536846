----------------------------- MODULE LogEntries -----------------------------
(***************************************************************************)
(* Log entries as bytes (src/entry.go), and the fields of a                *)
(* TBSCertificate that become one (BuildTBSCertificateLogEntry,            *)
(* buildDemoTBSCert, CreateCertificate).                                   *)
(*                                                                         *)
(* DER is a sequence of elements with a tag and a value each: what counts  *)
(* here is which elements are read in which order.  SHA-256 is a free      *)
(* constructor.                                                            *)
(***************************************************************************)
EXTENDS TrustAnchorIDs

(* The lowest width bytes of a number, as byte(v >> 8), byte(v) write them. *)
BigEndian(v, width) ==
    [i \in 1..width |-> Shifts(v, Pow2[ByteBits], width)[width - i] % Pow2[ByteBits]]

(* MarshalExtensions, one extension: the length is cut off to two bytes. *)
MarshalExtension(ext) ==
    BigEndian(ext.type, 2) \o BigEndian(Len(ext.data), 2) \o ext.data

(* Its "inner", *)
ExtensionList(exts) == FlattenSeq([i \in DOMAIN exts |-> MarshalExtension(exts[i])])

(* and with the length, which is cut off as well. *)
MarshalExtensions(exts) ==
    BigEndian(Len(ExtensionList(exts)), 2) \o ExtensionList(exts)

EntryTypeTBSCert == 1

(* MarshalTBSCertEntryWithExtensions: the contents follow the bytes. *)
MarshalTBSCertEntry(exts, contents) ==
    [head |-> MarshalExtensions(exts) \o BigEndian(EntryTypeTBSCert, 2),
     contents |-> contents]

-----------------------------------------------------------------------------
(* TBSCertificates *)

Element(tag, value) == [tag |-> tag, value |-> value]

Version  == Element("[0]", "v3")
SigAlg   == Element("SEQUENCE", <<Element("OID", "id-alg-mtcProof")>>)
SHA256(element) == Element("OCTET STRING", [sha256 |-> element])

(* marshalSPKI: an algorithm and a key. *)
SPKI(key) ==
    Element("SEQUENCE", <<Element("SEQUENCE", "id-ecPublicKey"), Element("BIT STRING", key)>>)

(* addIssuerDN, addValidity and addSubjectDN. *)
Issuer(id) == Element("SEQUENCE", <<Element("SET", [trustAnchorID |-> id])>>)
Validity(from, to) ==
    Element("SEQUENCE", <<Element("UTCTime", from), Element("UTCTime", to)>>)
Subject(cn) == Element("SEQUENCE", <<Element("SET", [commonName |-> cn])>>)

Extensions(data) == Element("[3]", data)

(* buildDemoTBSCert, with the serial number zero. *)
BuildDemoTBSCert(f) ==
    <<Version, Element("INTEGER", 0), SigAlg, Issuer(f.issuer),
      Validity(f.from, f.to), Subject(f.cn), SPKI(f.key)>>

(* The TBSCertificate of CreateCertificate: what the caller's function      *)
(* writes comes between the issuer and the key.                             *)
CertificateTBS(serial, issuer, written, key) ==
    <<Version, Element("INTEGER", serial), SigAlg, Issuer(issuer)>>
        \o written \o <<SPKI(key)>>

Has(elements, i, tag) == i \in DOMAIN elements /\ elements[i].tag = tag

(* The optional elements from i on, of [1], [2] and [3] in this order; what *)
(* comes after them is not read.                                            *)
OptionalFields(elements, i) ==
    LET after1 == IF Has(elements, i, "[1]") THEN i + 1 ELSE i
        after2 == IF Has(elements, after1, "[2]") THEN after1 + 1 ELSE after1
        after3 == IF Has(elements, after2, "[3]") THEN after2 + 1 ELSE after2
    IN  SubSeq(elements, i, after3 - 1)

(* Slip: the serial number stays in the entry. *)
BuildTBSCertificateLogEntry_KeepsSerial(elements) ==
    LET at == IF Has(elements, 1, "[0]") THEN 1 ELSE 0
    IN  IF ~(/\ Has(elements, at + 1, "INTEGER")
             /\ \A i \in 2..6 : Has(elements, at + i, "SEQUENCE")
             /\ Has(elements[at + 6].value, 1, "SEQUENCE")) THEN {}
        ELSE {<<Version, elements[at + 1]>>
                \o SubSeq(elements, at + 3, at + 5)
                \o <<elements[at + 6].value[1], SHA256(elements[at + 6])>>
                \o OptionalFields(elements, at + 7)}

(* BuildTBSCertificateLogEntry: without serial number and signature         *)
(* algorithm, the key replaced by its algorithm and its hash.               *)
BuildTBSCertificateLogEntry(elements) ==
    LET at == IF Has(elements, 1, "[0]") THEN 1 ELSE 0
    IN  IF ~(/\ Has(elements, at + 1, "INTEGER")
             /\ \A i \in 2..6 : Has(elements, at + i, "SEQUENCE")
             /\ Has(elements[at + 6].value, 1, "SEQUENCE")) THEN {}
        ELSE {<<Version>>
                \o SubSeq(elements, at + 3, at + 5)
                \o <<elements[at + 6].value[1], SHA256(elements[at + 6])>>
                \o OptionalFields(elements, at + 7)}

=============================================================================
