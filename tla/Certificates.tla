---------------------------- MODULE Certificates ----------------------------
(***************************************************************************)
(* Cosignatures, certificates and their verification (src/cosign.go,       *)
(* src/cert.go, src/verify.go).                                            *)
(*                                                                         *)
(* A subtree hash is the sequence of leaves below it (see Logs).  An       *)
(* inclusion proof is what its hashes say: all the subtree's leaves except *)
(* the one at the index, so evaluating it puts the certificate's own entry *)
(* there.  A signature is the key and the signed statement together: it    *)
(* verifies under that key for that statement only.                        *)
(***************************************************************************)
EXTENDS Logs, Subtrees, SequencesExt

CONSTANTS
    IndexBits,       \* 48: serial = (log number << 48) | index
    NoExtensions     \* the empty MTCLogEntryExtension list

Serial(logNumber, index) == logNumber * 2^IndexBits + index

SerialIndex(serial) == serial % 2^IndexBits

SerialLogNumber(serial) == serial \div 2^IndexBits

(* MarshalTBSCertEntryWithExtensions; MarshalTBSCertEntry is the case of no *)
(* extensions, in which the entry is identified with its contents.          *)
LogEntry(extensions, tbs) ==
    IF extensions = NoExtensions THEN tbs
    ELSE [extensions |-> extensions, tbs |-> tbs]

(* marshalCosignedMessage: everything a cosignature binds. *)
CosignedMessage(cosigner, logNumber, start, end, hash) ==
    [cosigner |-> cosigner, logNumber |-> logNumber,
     start |-> start, end |-> end, hash |-> hash]

Cosign(key, message) == [key |-> key, message |-> message]

VerifyCosignature(publicKey, message, signature) ==
    signature = [key |-> publicKey, message |-> message]

(* The covering subtree of an index that cmdCAIssue picks. *)
CoveringSubtree(index, size) ==
    LET cover == FindSubtrees(0, size)
    IN  IF In(index, cover[1]) THEN cover[1] ELSE cover[2]

(* sortSignatures: sort.Slice is not stable, so signatures with one id may  *)
(* end up in either order.                                                  *)
SortSignatures(sigs) ==
    {[i \in DOMAIN sigs |-> sigs[p[i]]] :
        p \in {q \in Bijection(DOMAIN sigs, DOMAIN sigs) :
                  \A i \in 1..(Len(sigs) - 1) : sigs[q[i]].id <= sigs[q[i + 1]].id}}

(* What SubtreeHash and SubtreeInclusionProof answer at all. *)
HasHash(size, st) ==
    /\ st.end \in 0..size
    /\ st.start \in 0..st.end
    /\ IsValidSubtree(st.start, st.end)

(* CreateCertificate on the tree with these leaves: one cosignature per     *)
(* key, sorted by cosigner id.  The certificates it may return, none when   *)
(* it reports an error.                                                     *)
CreateCertificate(leaves, logNumber, index, extensions, tbs, st, cosigners) ==
    LET hash == SubtreeView(leaves, st.start, st.end)
        Signature(c) ==
            [id |-> c.id,
             signature |-> Cosign(c.key, CosignedMessage(c.id, logNumber,
                                             st.start, st.end, hash))]
    IN  IF ~(HasHash(Len(leaves), st) /\ In(index, st)) THEN {}
        ELSE {[serial |-> Serial(logNumber, index), tbs |-> tbs, extensions |-> extensions,
               start |-> st.start, end |-> st.end, inclusion |-> hash, signatures |-> sigs] :
                 sigs \in SortSignatures([i \in DOMAIN cosigners |-> Signature(cosigners[i])])}

(* Slip: equal ids in a row are let through. *)
Parses_Repeats(cert) ==
    \A i \in 1..(Len(cert.signatures) - 1) :
        cert.signatures[i].id <= cert.signatures[i + 1].id

(* UnmarshalMTCProof accepts cosigner ids in strictly ascending order only. *)
Parses(cert) ==
    \A i \in 1..(Len(cert.signatures) - 1) :
        cert.signatures[i].id < cert.signatures[i + 1].id

(* EvaluateSubtreeInclusionProof with the entry rebuilt from the TBS and    *)
(* the proof's extensions.                                                  *)
EvaluatedHash(cert, index) ==
    [cert.inclusion EXCEPT ![index - cert.start + 1] =
                               LogEntry(cert.extensions, cert.tbs)]

IsFirst(i, S) == i \in S /\ \A j \in S : i <= j

-----------------------------------------------------------------------------
(* The relying party.  Its configuration holds the trusted cosigners in     *)
(* order, the policy on who must have signed (NoPolicy, or n of the trusted *)
(* ids), the trusted subtrees in order and the revoked ranges of serials.   *)

NoPolicy == [n |-> 0]

(* Slip: the end of a range is revoked too. *)
IsRevoked_EndIncluded(revoked, serial) ==
    \E r \in revoked : r.start <= serial /\ serial <= r.end

IsRevoked(revoked, serial) ==
    \E r \in revoked : r.start <= serial /\ serial < r.end

(* Slip: a subtree of another log with the same interval counts. *)
MatchingSubtrees_AnyLog(cert, subtrees) ==
    {i \in DOMAIN subtrees :
        subtrees[i].start = cert.start /\ subtrees[i].end = cert.end}

MatchingSubtrees(cert, subtrees) ==
    {i \in DOMAIN subtrees :
        /\ subtrees[i].logNumber = SerialLogNumber(cert.serial)
        /\ subtrees[i].start = cert.start
        /\ subtrees[i].end = cert.end}

(* Slip: the key is looked up, but the signature is not verified. *)
ValidSignatures_Unverified(cert, hash, trusted) ==
    {i \in DOMAIN cert.signatures :
        \E k \in DOMAIN trusted : trusted[k].id = cert.signatures[i].id}

(* Slip: after a key that does not verify, the next one with the id is tried. *)
ValidSignatures_AnyKey(cert, hash, trusted) ==
    {i \in DOMAIN cert.signatures :
        LET sig == cert.signatures[i]
        IN  \E k \in DOMAIN trusted :
                /\ trusted[k].id = sig.id
                /\ VerifyCosignature(trusted[k].key,
                       CosignedMessage(sig.id, SerialLogNumber(cert.serial),
                                       cert.start, cert.end, hash), sig.signature)}

(* Step 12: the first trusted cosigner with the id decides; the positions   *)
(* of the signatures that verify.                                           *)
ValidSignatures(cert, hash, trusted) ==
    LET Message(id) == CosignedMessage(id, SerialLogNumber(cert.serial),
                                       cert.start, cert.end, hash)
    IN  {i \in DOMAIN cert.signatures :
            LET sig == cert.signatures[i]
            IN  \E k \in DOMAIN trusted :
                    /\ IsFirst(k, {j \in DOMAIN trusted : trusted[j].id = sig.id})
                    /\ VerifyCosignature(trusted[k].key, Message(sig.id), sig.signature)}

(* AnyNCosignerPolicy counts the ids it is given, not the different ones.   *)
IsSatisfied(policy, cert, valid) ==
    \/ policy = NoPolicy
    \/ Cardinality({i \in valid : cert.signatures[i].id \in policy.trusted}) >= policy.n

(* The steps of VerifyCertificateSignature, all of which must succeed. *)
VerifyCertificateSignature(cert, cfg) ==
    LET index    == SerialIndex(cert.serial)
        hash     == EvaluatedHash(cert, index)
        matching == MatchingSubtrees(cert, cfg.subtrees)
    IN  /\ ~IsRevoked(cfg.revoked, cert.serial)
        /\ SerialLogNumber(cert.serial) # 0
        /\ Parses(cert)
        /\ IsValidSubtree(cert.start, cert.end)
        /\ cert.start <= index /\ index < cert.end
        /\ IF matching # {}
           THEN \E i \in matching : IsFirst(i, matching) /\ hash = cfg.subtrees[i].hash
           ELSE IsSatisfied(cfg.policy, cert,
                            ValidSignatures(cert, hash, cfg.cosigners))

=============================================================================
