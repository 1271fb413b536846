---------------------------- MODULE ProofExchange ---------------------------
(***************************************************************************)
(* An issuance log that grows, and the evidence it hands to a monitor or a *)
(* relying party: subtree hashes with inclusion proofs (Section 4.3) and   *)
(* consistency proofs (Section 4.4).  Evidence is made at one tree size    *)
(* and may be checked when the log has grown (src/log.go, src/tree.go,     *)
(* src/proof.go, src/cmd/mtc-demo/mirror_cmd.go).                          *)
(*                                                                         *)
(* An entry contains a fresh subject key (ca.go:141), so no two entries    *)
(* are equal and an entry is modelled by the index it was added at.        *)
(***************************************************************************)
EXTENDS MerkleTree

CONSTANT MaxEntries    \* bound: the log stops growing at this size

ASSUME LogFitsWord == MaxEntries \in 1..(Pow2[W] - 1)

VARIABLES
    entries,     \* the log's entries, index 0 (the null entry) first
    tree,        \* levels of hashes built from them
    evidence     \* what was handed out last, and what was asked for

vars == <<entries, tree, evidence>>

NoEvidence == [kind |-> "none"]

Init ==
    /\ entries = <<0>>
    /\ tree = NewMerkleTree(<<0>>)
    /\ evidence = NoEvidence

(* Slip: the tree is rebuilt before the entry is appended. *)
AddEntry_StaleTree ==
    /\ Len(entries) < MaxEntries
    /\ entries' = Append(entries, Len(entries))
    /\ tree' = NewMerkleTree(entries)
    /\ UNCHANGED evidence

(* IssuanceLog.AddEntry rebuilds the tree from all entries. *)
AddEntry ==
    /\ Len(entries) < MaxEntries
    /\ entries' = Append(entries, Len(entries))
    /\ tree' = NewMerkleTree(entries')
    /\ UNCHANGED evidence

(* SubtreeInclusionProof and SubtreeHash for any requested interval. *)
ProveInclusion(index, start, end) ==
    /\ evidence = NoEvidence
    /\ evidence' = [kind  |-> "inclusion",
                    index |-> index, start |-> start, end |-> end,
                    size  |-> Len(entries),
                    proof |-> SubtreeInclusionProof(tree, index, start, end),
                    hash  |-> SubtreeHash(tree, start, end)]
    /\ UNCHANGED <<entries, tree>>

(* SubtreeConsistencyProof from a subtree to the current checkpoint. *)
ProveConsistency(start, end) ==
    /\ evidence = NoEvidence
    /\ evidence' = [kind  |-> "consistency",
                    start |-> start, end |-> end,
                    size  |-> Len(entries),
                    proof |-> SubtreeConsistencyProof(tree, start, end),
                    hash  |-> SubtreeHash(tree, start, end),
                    root  |-> RootHash(tree)]
    /\ UNCHANGED <<entries, tree>>

(* IsValidSubtree (on 64-bit words) and FindSubtrees for any interval. *)
CheckInterval(start, end) ==
    /\ evidence = NoEvidence
    /\ evidence' = [kind  |-> "interval", start |-> start, end |-> end,
                    valid |-> IsValidSubtreeU64(start, end),
                    cover |-> FindSubtrees(start, end)]
    /\ UNCHANGED <<entries, tree>>

(* The evidence has been used for the last time.  Only then is the next     *)
(* question asked: the model carries one piece of evidence at a time.       *)
Discard ==
    /\ evidence # NoEvidence
    /\ evidence' = NoEvidence
    /\ UNCHANGED <<entries, tree>>

(* Requested numbers: from a negative int to one beyond the log. *)
Asked == -1..(Len(entries) + 1)

Next ==
    \/ AddEntry
    \/ \E index, start, end \in Asked : ProveInclusion(index, start, end)
    \/ \E start, end \in Asked : ProveConsistency(start, end)
    \/ \E start, end \in Words : CheckInterval(start, end)
    \/ Discard

Spec == Init /\ [][Next]_vars

-----------------------------------------------------------------------------
(* Reference definitions. *)

LargestPowerBelow(n) == CHOOSE k \in {Pow2[b] : b \in 0..W} : k < n /\ n <= 2 * k

(* MTH of RFC 9162 Section 2.1.1: per number of entries, the hashes of that *)
(* many from each index on.                                                 *)
MTHs(data) ==
    LET hash[n \in 0..Len(data)] ==
            [first \in 0..Len(data) |->
                IF n = 0 THEN HashEmpty
                ELSE IF n = 1 THEN HashLeaf(data[first + 1])
                ELSE LET k == LargestPowerBelow(n)
                     IN  HashNode(hash[k][first], hash[n - k][first + k])]
    IN  hash

(* That of the entries [start, end). *)
MTH(data, start, end) == MTHs(data)[end - start][start]

SubtreesOf(size) ==
    {i \in [start : 0..size, end : 0..size] : IsSubtree(i.start, i.end)}

-----------------------------------------------------------------------------
(* Properties *)

(* The log and its tree have their shape, the tree has one leaf per entry. *)
TypeOK ==
    /\ entries \in Seq(Nat)
    /\ Len(entries) \in 1..MaxEntries
    /\ Size(tree) = Len(entries)
    /\ evidence.kind \in {"none", "inclusion", "consistency", "interval"}

(* The bottom-up walk of MerkleTree.SubtreeHash computes, for every subtree *)
(* of the log at any size, the recursive Merkle tree hash of RFC 9162.      *)
SubtreeHashIsMTH ==
    \A i \in SubtreesOf(Len(entries)) :
        SubtreeHash(tree, i.start, i.end) = MTH(entries, i.start, i.end)

(* SubtreeInclusionProof and SubtreeConsistencyProof answer exactly the     *)
(* requests that Section 4.1 allows for the tree's size at that time:       *)
(* an interval that is no subtree, exceeds the tree or misses the index is  *)
(* refused, and no other.                                                   *)
RefusesExactlyBadRequests ==
    evidence.kind \in {"inclusion", "consistency"} =>
        (evidence.proof = Error) =
            ~ /\ IsSubtree(evidence.start, evidence.end)
              /\ evidence.end <= evidence.size
              /\ evidence.kind = "inclusion" =>
                     evidence.start <= evidence.index /\ evidence.index < evidence.end

InclusionAnswered   == evidence.kind = "inclusion" /\ evidence.proof # Error
ConsistencyAnswered == evidence.kind = "consistency" /\ evidence.proof # Error

(* An inclusion proof made at one size still convinces a relying party      *)
(* that holds the subtree's hash once the log has grown: later entries      *)
(* change neither the subtree's hash nor the verdict (proof.go:19-74).      *)
InclusionProofsStayValid ==
    InclusionAnswered =>
        LET start == evidence.start
            end   == evidence.end
            now   == SubtreeHash(tree, start, end)
        IN  /\ now = evidence.hash
            /\ VerifySubtreeInclusionProof(evidence.proof, evidence.index,
                   HashLeaf(entries[evidence.index + 1]), now, start, end)

(* A proof made for one index and subtree, offered for any index in any     *)
(* subtree of the log, is accepted only with the hash of the entry that is  *)
(* at that index: no proof moves an entry to another place.                 *)
InclusionProofsBindIndexToEntry ==
    InclusionAnswered =>
        \A i \in SubtreesOf(Len(entries)) :
            LET hash == SubtreeHash(tree, i.start, i.end)
            IN  \A index \in i.start..(i.end - 1) :
                    \A entry \in 0..(Len(entries) - 1) \ {entries[index + 1]} :
                        ~VerifySubtreeInclusionProof(evidence.proof, index,
                             HashLeaf(entry), hash, i.start, i.end)

(* The consistency proof the log makes for a subtree is accepted for that   *)
(* subtree's hash and the checkpoint of the same moment, whatever the shape *)
(* of subtree and tree (tree.go:115-162 against proof.go:85-181).           *)
ConsistencyProofsAreAccepted ==
    ConsistencyAnswered =>
        VerifySubtreeConsistencyProof(evidence.proof, evidence.start, evidence.end,
            evidence.size, evidence.hash, evidence.root)

(* Offered for any subtree and any checkpoint of the log so far, a          *)
(* consistency proof is accepted only with the true hash of that subtree:   *)
(* neither another subtree's hash nor that of a rewritten log passes.       *)
ConsistencyProofsBindSubtreeToRoot ==
    ConsistencyAnswered =>
        \A i \in SubtreesOf(Len(entries)) : \A n \in i.end..Len(entries) :
            LET root  == SubtreeHash(tree, 0, n)
                real  == SubtreeHash(tree, i.start, i.end)
                wrong == {SubtreeHash(tree, j.start, j.end) :
                              j \in SubtreesOf(Len(entries))}
                         \cup {HashLeaf(Len(entries)), HashNode(real, real)}
            IN  \A hash \in wrong \ {real} :
                    ~VerifySubtreeConsistencyProof(evidence.proof,
                         i.start, i.end, n, hash, root)

(* isValidSubtreeU64 agrees with Section 4.1 on every pair of words, the    *)
(* sizes above half the word range where BIT_CEIL overflows included        *)
(* (subtree.go:33-52).                                                      *)
ValidityExactOnWords ==
    evidence.kind = "interval" =>
        evidence.valid = IsSubtree(evidence.start, evidence.end)

(* FindSubtrees covers every interval with two adjacent valid subtrees that *)
(* end where the interval ends; the left one is the smallest subtree that   *)
(* holds the part before the split, so it sticks out as little as possible. *)
CoverIsTight ==
    evidence.kind = "interval" =>
        LET start == evidence.start
            end   == evidence.end
        IN  (evidence.cover = <<>>) = (start > end)
            /\ start <= end =>
               LET left  == evidence.cover[1]
                   right == evidence.cover[2]
               IN  /\ IsSubtree(left.start, left.end)
                   /\ IsSubtree(right.start, right.end)
                   /\ left.end = right.start
                   /\ right.end = end
                   /\ left.start <= start
                   /\ start < end => start < left.end
                   /\ end - start >= 2 => right.start < end
                   /\ \A s \in (left.start + 1)..start : ~IsSubtree(s, left.end)

=============================================================================
