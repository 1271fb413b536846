-------------------------- MODULE LandmarkSequence --------------------------
(***************************************************************************)
(* A landmark sequence over a log that grows while the wall clock moves,   *)
(* landmarks being allocated at the current tree size as "landmark         *)
(* allocate" does (src/landmark.go, src/cmd/mtc-demo/landmark_cmd.go).     *)
(* The clock is the operating system's: it may be set back.                *)
(***************************************************************************)
EXTENDS Landmarks

CONSTANTS
    MaxActive,    \* argument of "landmark init"
    Lifetime,     \* defaultMaxCertLifetime: an expiry is this far ahead
    Spacing,      \* time a careful operator leaves between landmarks
    MaxSize,      \* bound: the log stops growing at this size
    MaxTime       \* bound: the clock stops here

ASSUME LandmarkConstants ==
    /\ MaxActive \in Nat \ {0}
    /\ Lifetime \in Nat
    /\ Spacing \in Nat \ {0}
    /\ MaxSize \in Words \ {0}
    /\ MaxTime \in Nat

VARIABLES
    ls,           \* the landmark sequence
    size,         \* size of the log
    now,          \* wall clock
    allocated,    \* when the last landmark was allocated
    spaced        \* whether the clock was never set back and successive
                  \* landmarks were always Spacing or more apart

vars == <<ls, size, now, allocated, spaced>>

Init ==
    /\ ls = NewLandmarkSequence(MaxActive)
    /\ size = 1
    /\ now = 0
    /\ allocated = 0
    /\ spaced = TRUE

Grow ==
    /\ size < MaxSize
    /\ size' = size + 1
    /\ UNCHANGED <<ls, now, allocated, spaced>>

Allocate ==
    /\ CanAllocate(ls, size, now + Lifetime)
    /\ ls' = AllocateLandmark(ls, size, now + Lifetime)
    /\ allocated' = now
    /\ spaced' = (spaced /\ (LastLandmark(ls) > 0 => now >= allocated + Spacing))
    /\ UNCHANGED <<size, now>>

Tick ==
    /\ now < MaxTime
    /\ now' = now + 1
    /\ UNCHANGED <<ls, size, allocated, spaced>>

SetClockBack ==
    /\ now' \in 0..(now - 1)
    /\ spaced' = FALSE
    /\ UNCHANGED <<ls, size, allocated>>

Next == Grow \/ Allocate \/ Tick \/ SetClockBack

Spec == Init /\ [][Next]_vars

-----------------------------------------------------------------------------
(* Properties *)

(* Sizes and expiries are parallel sequences of numbers that start with     *)
(* landmark zero.                                                           *)
TypeOK ==
    /\ ls = [maxActive |-> MaxActive, landmarks |-> ls.landmarks,
             expiries |-> ls.expiries]
    /\ ls.landmarks \in Seq(Nat)
    /\ ls.expiries \in Seq(Nat)
    /\ Len(ls.landmarks) >= 1
    /\ Len(ls.expiries) = Len(ls.landmarks)
    /\ size \in 1..MaxSize
    /\ now \in 0..MaxTime
    /\ allocated \in 0..MaxTime
    /\ spaced \in BOOLEAN

(* Tree sizes strictly grow and never run ahead of the log, expiries never  *)
(* go down, whatever the clock does (Section 6.4.1, landmark.go:41-56).     *)
LandmarksAreOrdered ==
    /\ ls.landmarks[1] = 0
    /\ ls.expiries[1] = 0
    /\ \A i, j \in 1..Len(ls.landmarks) :
           i < j => /\ ls.landmarks[i] < ls.landmarks[j]
                    /\ ls.expiries[i] <= ls.expiries[j]
    /\ \A i \in 1..Len(ls.landmarks) : ls.landmarks[i] <= size

(* "landmark find" answers exactly for the entries below the last landmark, *)
(* with the lowest landmark above the entry and a valid subtree of the log  *)
(* that holds it (landmark.go:118-143).                                     *)
EveryEntryHasItsLandmark ==
    \A index \in -1..size :
        LET found   == FindContainingLandmark(ls, index)
            covered == 0 <= index /\ index < TreeSize(ls, LastLandmark(ls))
        IN  /\ (found # NoLandmark) = covered
            /\ covered =>
                /\ TreeSize(ls, found.num - 1) <= index
                /\ index < TreeSize(ls, found.num)
                /\ In(index, found.subtree)
                /\ IsValidSubtree(found.subtree.start, found.subtree.end)
                /\ found.subtree.end <= size

(* Once an entry has a landmark and a subtree it keeps them: landmarks that *)
(* are allocated later do not move it, so a landmark-relative certificate   *)
(* made for it stays the right one.                                         *)
EntriesKeepTheirLandmark ==
    [][\A index \in 0..(size - 1) :
           FindContainingLandmark(ls, index) # NoLandmark =>
               FindContainingLandmark(ls', index) = FindContainingLandmark(ls, index)]_vars

(* The active landmarks are the newest ones without a gap, at any time and  *)
(* after any change of the clock: a relying party that holds the active     *)
(* landmarks' subtrees holds one for every entry above the oldest of them.  *)
ActiveLandmarksAreTheNewest ==
    \A time \in 0..(MaxTime + Lifetime) :
        \A i \in ActiveLandmarks(ls, time) :
            i..LastLandmark(ls) \subseteq ActiveLandmarks(ls, time)

(* No two landmarks have a non-empty subtree in common: the verifier, which *)
(* takes the first trusted subtree with the certificate's interval          *)
(* (verify.go:204-211), cannot confuse two landmarks of one log.            *)
LandmarkSubtreesAreDistinct ==
    \A i, j \in 1..LastLandmark(ls) : \A k, m \in 1..2 :
        LET a == LandmarkSubtrees(ls, i)[k]
            b == LandmarkSubtrees(ls, j)[m]
        IN  (<<i, k>> # <<j, m>> /\ a.start < a.end) => a # b

(* When landmarks are Spacing or more apart, the number of active ones      *)
(* never exceeds what RecommendedMaxActiveLandmarks computes for the        *)
(* lifetime and that spacing (landmark.go:145-150).                         *)
RecommendedMaximumSuffices ==
    spaced => Cardinality(ActiveLandmarks(ls, now))
                  <= RecommendedMaxActiveLandmarks(Lifetime, Spacing)

=============================================================================
