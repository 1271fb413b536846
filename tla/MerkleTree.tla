----------------------------- MODULE MerkleTree -----------------------------
(***************************************************************************)
(* The Merkle tree of src/tree.go and src/hash.go, and the proof           *)
(* verification of src/proof.go.                                           *)
(*                                                                         *)
(* SHA-256 is modelled as a free constructor: two hashes are equal exactly *)
(* when they were computed from equal inputs, with the leaf and node       *)
(* prefixes of hash.go keeping leaves, nodes and the empty hash apart.     *)
(* A proof is a sequence of hashes, so its byte length is always a         *)
(* multiple of HashSize.  Every error of the code is the value Error.      *)
(***************************************************************************)
EXTENDS Subtrees, Sequences

HashLeaf(data)        == <<"leaf", data>>
HashNode(left, right) == <<"node", left, right>>
HashEmpty             == <<"empty">>

(* No sequence, so neither a hash nor a proof. *)
Error == [i \in {0} |-> "error"]

(* n >> k *)
Shifted(n, k) == n \div Pow2[k]

-----------------------------------------------------------------------------
(* Construction: level 0 has the leaf hashes, a level has a node for every *)
(* complete pair of the level below, an odd last node has no parent.        *)

Levels(entries) ==
    LET levels[k \in 0..W] ==
            IF k = 0 THEN [i \in 1..Len(entries) |-> HashLeaf(entries[i])]
            ELSE LET below == levels[k - 1]
                 IN  [i \in 1..(Len(below) \div 2) |->
                         HashNode(below[2*i - 1], below[2*i])]
    IN  levels

NewMerkleTree(entries) ==
    LET levels == Levels(entries)
        top    == Min({k \in 0..W : Len(levels[k]) < 2})
    IN  [k \in 0..top |-> levels[k]]

Node(tree, level, j) == tree[level][j + 1]
Size(tree)           == Len(tree[0])

-----------------------------------------------------------------------------
(* SubtreeHash starts at the largest complete node on the right edge and   *)
(* climbs, joining with the left neighbour whenever it is a right child.   *)
(* Climb has, per level, the hash when the loop gets there.                *)

(* Slip: joins with the left neighbour also from a left child. *)
Climb_AlwaysJoins(tree, lowest, last) ==
    LET ret[k \in lowest..W] ==
            IF k = lowest THEN Node(tree, k, Shifted(last, k))
            ELSE HashNode(Node(tree, k - 1, Shifted(last, k - 1) - 1), ret[k - 1])
    IN  ret

Climb(tree, lowest, last) ==
    LET ret[k \in lowest..W] ==
            IF k = lowest THEN Node(tree, k, Shifted(last, k))
            ELSE IF Odd(Shifted(last, k - 1))
                 THEN HashNode(Node(tree, k - 1, Shifted(last, k - 1) - 1), ret[k - 1])
                 ELSE ret[k - 1]
    IN  ret

(* The level at which the loops "for start < last" end that shift both. *)
Top(lowest, start, last) ==
    Min({k \in lowest..W : Shifted(start, k) >= Shifted(last, k)})

SubtreeHash(tree, start, end) ==
    IF ~IsValidSubtree(start, end) \/ end > Size(tree) THEN Error
    ELSE IF start = end THEN HashEmpty
    ELSE LET last   == end - 1
             lowest == TrailingOnes(last - start)
         IN  Climb(tree, lowest, last)[Top(lowest, start, last)]

RootHash(tree) == SubtreeHash(tree, 0, Size(tree))

(* The sibling of the index on a level: left of the right edge it is a      *)
(* stored node, the one on the edge may be incomplete, and beyond it there  *)
(* is none.                                                                 *)
Sibling(tree, index, end, k) ==
    LET here     == Shifted(index, k)
        last     == Shifted(end - 1, k)
        neighbor == IF Odd(here) THEN here - 1 ELSE here + 1
    IN  IF neighbor < last THEN <<Node(tree, k, neighbor)>>
        ELSE IF neighbor = last THEN <<SubtreeHash(tree, last * Pow2[k], end)>>
        ELSE <<>>

(* The siblings below each level. *)
SiblingPath(tree, index, end) ==
    LET path[k \in 0..W] ==
            IF k = 0 THEN <<>> ELSE path[k - 1] \o Sibling(tree, index, end, k - 1)
    IN  path

(* Slip: the last subtree of the tree counts as outside it. *)
SubtreeInclusionProof_SizeOffByOne(tree, index, start, end) ==
    IF \/ ~IsValidSubtree(start, end)
       \/ end >= Size(tree)
       \/ start > index
       \/ index >= end
    THEN Error
    ELSE SiblingPath(tree, index, end)[Top(0, start, end - 1)]

SubtreeInclusionProof(tree, index, start, end) ==
    IF \/ ~IsValidSubtree(start, end)
       \/ end > Size(tree)
       \/ start > index
       \/ index >= end
    THEN Error
    ELSE SiblingPath(tree, index, end)[Top(0, start, end - 1)]

(* subtreeSubproof, for the tree of size entries at from and the part of    *)
(* the subtree in it that begins at first: k is the largest power of two    *)
(* below the size, and a single entry is always the whole subtree.          *)
SubtreeSubproof(tree, end) ==
    LET sub[size \in 0..Size(tree)] ==
            [knownHash \in BOOLEAN |-> [first \in 0..end |-> [from \in 0..Size(tree) |->
                LET k   == Pow2[BitLen(size - 1) - 1]
                    cut == from + k
                    to  == from + size
                IN  IF size < 2 \/ (first = from /\ end = to)
                    THEN IF knownHash THEN <<>> ELSE <<SubtreeHash(tree, from, to)>>
                    ELSE IF end <= cut
                    THEN Append(sub[k][knownHash][first][from], SubtreeHash(tree, cut, to))
                    ELSE IF first >= cut
                    THEN Append(sub[size - k][knownHash][first][cut],
                                SubtreeHash(tree, from, cut))
                    ELSE Append(sub[size - k][FALSE][cut][cut], SubtreeHash(tree, from, cut))]]]
    IN  sub

SubtreeConsistencyProof(tree, start, end) ==
    IF ~IsValidSubtree(start, end) \/ end > Size(tree) THEN Error
    ELSE IF start = end THEN <<>>
    ELSE SubtreeSubproof(tree, end)[Size(tree)][TRUE][start][0]

-----------------------------------------------------------------------------
(* Verification: a relying party holds the proof and hashes, not the tree.  *)
(* The loops are functions of how many elements of the proof are used up.   *)

(* Slip: no extra shifts past the levels where the edge has no sibling. *)
FoldPath_NoSkip(proof, fn, sn, entryHash) ==
    LET at[i \in 0..Len(proof)] ==
            IF i = 0 THEN [fn |-> fn, sn |-> sn, r |-> entryHash, tooMany |-> FALSE]
            ELSE LET before == at[i - 1]
                     joins  == Odd(before.fn) \/ before.fn = before.sn
                 IN  [fn |-> Shifted(before.fn, 1), sn |-> Shifted(before.sn, 1),
                      r  |-> IF joins THEN HashNode(proof[i], before.r)
                             ELSE HashNode(before.r, proof[i]),
                      tooMany |-> before.tooMany \/ before.sn = 0]
    IN  at

(* The loop of EvaluateSubtreeInclusionProof. *)
FoldPath(proof, fn, sn, entryHash) ==
    LET at[i \in 0..Len(proof)] ==
            IF i = 0 THEN [fn |-> fn, sn |-> sn, r |-> entryHash, tooMany |-> FALSE]
            ELSE LET before == at[i - 1]
                     joins  == Odd(before.fn) \/ before.fn = before.sn
                     shift  == IF joins THEN TrailingZeros(before.fn) + 1 ELSE 1
                 IN  [fn |-> Shifted(before.fn, shift), sn |-> Shifted(before.sn, shift),
                      r  |-> IF joins THEN HashNode(proof[i], before.r)
                             ELSE HashNode(before.r, proof[i]),
                      tooMany |-> before.tooMany \/ before.sn = 0]
    IN  at

(* Slip: the position is taken from the subtree's end, not from index. *)
EvaluateSubtreeInclusionProof_IgnoresIndex(proof, index, entryHash, start, end) ==
    IF ~IsValidSubtree(start, end) \/ index < start \/ index >= end THEN Error
    ELSE LET done == FoldPath(proof, end - start - 1, end - start - 1, entryHash)[Len(proof)]
         IN  IF done.tooMany \/ done.sn # 0 THEN Error ELSE done.r

EvaluateSubtreeInclusionProof(proof, index, entryHash, start, end) ==
    IF ~IsValidSubtree(start, end) \/ index < start \/ index >= end THEN Error
    ELSE LET done == FoldPath(proof, index - start, end - start - 1, entryHash)[Len(proof)]
         IN  IF done.tooMany \/ done.sn # 0 THEN Error ELSE done.r

VerifySubtreeInclusionProof(proof, index, entryHash, subtreeHash, start, end) ==
    LET expected == EvaluateSubtreeInclusionProof(proof, index, entryHash, start, end)
    IN  expected # Error /\ expected = subtreeHash

(* Step 7 of VerifySubtreeConsistencyProof, from the element after from on. *)
FoldConsistency(proof, from, fn, sn, tn, hash) ==
    LET at[i \in from..Len(proof)] ==
            IF i = from
            THEN [fn |-> fn, sn |-> sn, tn |-> tn, fr |-> hash, sr |-> hash, tooMany |-> FALSE]
            ELSE LET before == at[i - 1]
                     joins  == Odd(before.sn) \/ before.sn = before.tn
                     shift  == IF joins THEN TrailingZeros(before.sn) + 1 ELSE 1
                 IN  [fn |-> Shifted(before.fn, shift), sn |-> Shifted(before.sn, shift),
                      tn |-> Shifted(before.tn, shift),
                      fr |-> IF joins /\ before.fn < before.sn
                             THEN HashNode(proof[i], before.fr) ELSE before.fr,
                      sr |-> IF joins THEN HashNode(proof[i], before.sr)
                             ELSE HashNode(before.sr, proof[i]),
                      tooMany |-> before.tooMany \/ before.tn = 0]
    IN  at

(* Slip: the case of a subtree on the tree's right edge is forgotten. *)
SkipToStart_NoEdgeCase(fn, sn, tn) == Min({DiffLen(fn, sn), TrailingOnes(sn)})

(* Steps 3 and 4: how far the three numbers are shifted before the fold. *)
SkipToStart(fn, sn, tn) ==
    IF sn = tn THEN DiffLen(fn, sn)
    ELSE Min({DiffLen(fn, sn), TrailingOnes(sn)})

(* Step 8; slip: only the root is compared, not the subtree's hash. *)
FinalChecks_RootOnly(done, nodeHash, rootHash) ==
    ~done.tooMany /\ done.tn = 0 /\ done.sr = rootHash

FinalChecks(done, nodeHash, rootHash) ==
    ~done.tooMany /\ done.tn = 0 /\ done.fr = nodeHash /\ done.sr = rootHash

(* The subtree's hash is the node to start from if it is one of the tree's; *)
(* else that is the first element of the proof.                             *)
VerifySubtreeConsistencyProof(proof, start, end, n, nodeHash, rootHash) ==
    /\ IsValidSubtree(start, end)
    /\ end <= n
    /\ IF start = end THEN proof = <<>> /\ nodeHash = HashEmpty
       ELSE LET skip == SkipToStart(start, end - 1, n - 1)
                fn   == Shifted(start, skip)
                sn   == Shifted(end - 1, skip)
                tn   == Shifted(n - 1, skip)
                from == IF fn = sn THEN 0 ELSE 1
                hash == IF fn = sn THEN nodeHash ELSE proof[1]
            IN  /\ from <= Len(proof)
                /\ FinalChecks(FoldConsistency(proof, from, fn, sn, tn, hash)[Len(proof)],
                               nodeHash, rootHash)

=============================================================================
