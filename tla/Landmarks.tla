------------------------------ MODULE Landmarks -----------------------------
(***************************************************************************)
(* The operations of LandmarkSequence (src/landmark.go) as operators on a  *)
(* sequence value: agreed tree sizes, each with an expiration time, whose  *)
(* subtrees relying parties are given in advance.  Landmark i is at        *)
(* position i + 1 of both sequences; landmark 0 has size and expiry 0.     *)
(***************************************************************************)
EXTENDS Subtrees, Sequences

NewLandmarkSequence(maxActive) ==
    [maxActive |-> maxActive, landmarks |-> <<0>>, expiries |-> <<0>>]

LastLandmark(ls)      == Len(ls.landmarks) - 1
TreeSize(ls, num)     == ls.landmarks[num + 1]
Expiry(ls, num)       == ls.expiries[num + 1]

(* Slip: a landmark of the same size as the previous one is accepted. *)
CanAllocate_SameSize(ls, treeSize, expiry) ==
    /\ treeSize >= TreeSize(ls, LastLandmark(ls))
    /\ expiry >= Expiry(ls, LastLandmark(ls))

(* Slip: the expiry is not compared with the previous landmark's. *)
CanAllocate_AnyExpiry(ls, treeSize, expiry) ==
    treeSize > TreeSize(ls, LastLandmark(ls))

CanAllocate(ls, treeSize, expiry) ==
    /\ treeSize > TreeSize(ls, LastLandmark(ls))
    /\ expiry >= Expiry(ls, LastLandmark(ls))

(* Slip: only the tree size is recorded. *)
AllocateLandmark_NoExpiry(ls, treeSize, expiry) ==
    [ls EXCEPT !.landmarks = Append(@, treeSize)]

AllocateLandmark(ls, treeSize, expiry) ==
    [maxActive |-> ls.maxActive,
     landmarks |-> Append(ls.landmarks, treeSize),
     expiries  |-> Append(ls.expiries, expiry)]

ActiveLandmarks(ls, now) == {num \in 1..LastLandmark(ls) : Expiry(ls, num) > now}

(* Slip: the subtrees cover the whole tree, not what the landmark added. *)
LandmarkSubtrees_WholeTree(ls, num) ==
    IF num <= 0 \/ num > LastLandmark(ls) THEN <<>>
    ELSE FindSubtrees(0, TreeSize(ls, num))

(* The two subtrees of a landmark; the empty sequence stands for the error. *)
LandmarkSubtrees(ls, num) ==
    IF num <= 0 \/ num > LastLandmark(ls) THEN <<>>
    ELSE FindSubtrees(TreeSize(ls, num - 1), TreeSize(ls, num))

NoLandmark == [num |-> 0]

(* The subtree of landmark num that holds the index, if one does. *)
SubtreeIn(ls, num, index) ==
    LET pair == LandmarkSubtrees(ls, num)
        hits == {k \in 1..2 : In(index, pair[k])}
    IN  IF hits = {} THEN NoLandmark
        ELSE [num |-> num, subtree |-> pair[Min(hits)]]

(* Slip: the size itself counts as below the landmark. *)
FindContainingLandmark_SizeIncluded(ls, index) ==
    LET above == {num \in 1..LastLandmark(ls) : 0 <= index /\ index <= TreeSize(ls, num)}
    IN  IF above = {} THEN NoLandmark ELSE SubtreeIn(ls, Min(above), index)

(* Slip: searches from the newest landmark down and takes the first hit. *)
FindContainingLandmark_NewestFirst(ls, index) ==
    LET hits == {num \in 1..LastLandmark(ls) : SubtreeIn(ls, num, index) # NoLandmark}
    IN  IF hits = {} THEN NoLandmark ELSE SubtreeIn(ls, Max(hits), index)

(* The lowest landmark above the index decides; a negative index becomes a  *)
(* huge unsigned number, which is above every tree size.                    *)
FindContainingLandmark(ls, index) ==
    LET above == {num \in 1..LastLandmark(ls) : 0 <= index /\ index < TreeSize(ls, num)}
    IN  IF above = {} THEN NoLandmark ELSE SubtreeIn(ls, Min(above), index)

(* Slip: rounds down and forgets the extra landmark. *)
RecommendedMaxActiveLandmarks_RoundsDown(lifetime, spacing) == lifetime \div spacing

(* ceil(lifetime / spacing) + 1 *)
RecommendedMaxActiveLandmarks(lifetime, spacing) ==
    (lifetime + spacing - 1) \div spacing + 1

=============================================================================
