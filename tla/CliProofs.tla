----------------------------- MODULE CliProofs ------------------------------
(***************************************************************************)
(* Theorems about the tool run one command after another, for every number *)
(* of entries, cosigners and landmarks and for every clock.                *)
(*                                                                         *)
(* Loads is inductive as it stands: LibraryProofs shows of each command     *)
(* that it saves a state that loads if it has loaded one, and that it only *)
(* erases.  What remains is one step per command.                          *)
(***************************************************************************)
EXTENDS Cli, LibraryProofs

(* A command that saves nothing erases nothing. *)
LEMMA NothingErased ==
    ASSUME NEW s, Loads(s)
    PROVE  OnlyErases(s, s)
BY UntouchedLog, UntouchedParts DEF OnlyErases, Loads

(* Every command saves a state that loads and only erases of the one it     *)
(* loaded.                                                                  *)
LEMMA CommandLoads ==
    ASSUME Loads(state), [Next]_vars
    PROVE  Loads(state') /\ OnlyErases(state, state')
<1>1. Size \in Nat /\ Len(state.cosigners) \in Nat
    <2>1. state \in StateType /\ Len(state.entries) >= 1
        BY DEF Loads, WellFormed
    <2>2. Size = Len(state.entries)
        BY <2>1, Rebuilt DEF Size, LogSize
    <2> QED BY <2>1, <2>2, LenProperties DEF StateType
<1>2. ASSUME NEW cn \in CNs, NEW now \in Times, Add(cn, now)
      PROVE  Loads(state') /\ OnlyErases(state, state')
    BY <1>1, <1>2, AddedLoads, CliConstants DEF Add
<1>3. ASSUME NEW newMinIndex \in -1..(Size + 1), Prune(newMinIndex)
      PROVE  Loads(state') /\ OnlyErases(state, state')
    BY <1>1, <1>3, PrunedLoads DEF Prune
<1>4. ASSUME NEW name \in Names, Keygen(name)
      PROVE  Loads(state') /\ OnlyErases(state, state')
    BY <1>1, <1>4, CosignerLoads DEF Keygen
<1>5. ASSUME NEW maxActive \in MaxActives, LandmarkInit(maxActive)
      PROVE  Loads(state') /\ OnlyErases(state, state')
    BY <1>5, LandmarksInitLoads DEF LandmarkInit
<1>6. ASSUME NEW now \in Times, LandmarkAllocate(now)
      PROVE  Loads(state') /\ OnlyErases(state, state')
    BY <1>6, LandmarkLoads, CliConstants DEF LandmarkAllocate
<1>7. CASE UNCHANGED state
    BY <1>7, NothingErased
<1>8. ASSUME NEW index \in 0..Size, Issue(index)
      PROVE  UNCHANGED state
    BY <1>8 DEF Issue
<1>9. ASSUME NEW start \in 0..Size, NEW end \in 0..Size, Attest(start, end)
      PROVE  UNCHANGED state
    BY <1>9 DEF Attest
<1>10. CASE UNCHANGED vars
    BY <1>7, <1>10 DEF vars
<1> QED BY <1>2, <1>3, <1>4, <1>5, <1>6, <1>7, <1>8, <1>9, <1>10 DEF Next

(* The file is typed and loads after any sequence of commands: rebuilding   *)
(* the log and the landmarks never fails and every available entry has the  *)
(* metadata it was logged with (state.go:102-152).                          *)
THEOREM FilesLoad == Spec => []StateFileLoads
<1>1. Init => StateFileLoads
    BY InitialLoads DEF Init, StateFileLoads
<1>2. StateFileLoads /\ [Next]_vars => StateFileLoads'
    BY CommandLoads DEF StateFileLoads
<1> QED BY <1>1, <1>2, PTL DEF Spec

(* The history in the file is only ever added to and erased (state.go:      *)
(* 120-134).                                                                *)
THEOREM HistoryErased == Spec => HistoryIsOnlyErased
<1>1. StateFileLoads /\ [Next]_vars => [OnlyErases(state, state')]_state
    BY CommandLoads DEF StateFileLoads
<1> QED BY <1>1, FilesLoad, PTL DEF Spec, HistoryIsOnlyErased

(* Keys come from "cosigner keygen" only, one at a time. *)
LEMMA KeysComeFromKeygen ==
    ASSUME Loads(state), [Next]_vars
    PROVE  \/ state'.cosigners = state.cosigners
           \/ \E name \in Names :
                  /\ Keygen(name)
                  /\ \A i \in DOMAIN state'.cosigners :
                         \/ i \in DOMAIN state.cosigners
                            /\ state'.cosigners[i] = state.cosigners[i]
                         \/ state'.cosigners[i].name = name
<1>1. /\ state \in StateType
      /\ state.cosigners \in Seq([name : Names, key : Nat])
    BY DEF Loads, StateType
<1>2. ASSUME NEW cn \in CNs, NEW now \in Times, Add(cn, now)
      PROVE  state'.cosigners = state.cosigners
    BY <1>1, <1>2 DEF Add, Added, SyncEntries, StateType
<1>3. ASSUME NEW newMinIndex \in -1..(Size + 1), Prune(newMinIndex)
      PROVE  state'.cosigners = state.cosigners
    BY <1>1, <1>3 DEF Prune, Pruned, SyncEntries, StateType
<1>4. ASSUME NEW name \in Names, Keygen(name)
      PROVE  \A i \in DOMAIN state'.cosigners :
                 \/ i \in DOMAIN state.cosigners
                    /\ state'.cosigners[i] = state.cosigners[i]
                 \/ state'.cosigners[i].name = name
    <2> DEFINE c   == [name |-> name, key |-> Len(state.cosigners) + 1]
               old == state.cosigners
    <2>1. /\ Len(old) \in Nat
          /\ c \in [name : Names, key : Nat]
        BY <1>1, LenProperties
    <2>2. state'.cosigners = Append(old, c)
        BY <1>1, <1>4 DEF Keygen, WithCosigner, StateType
    <2>3. /\ DOMAIN old = 1..Len(old)
          /\ DOMAIN Append(old, c) = 1..(Len(old) + 1)
          /\ \A i \in 1..Len(old) : Append(old, c)[i] = old[i]
          /\ Append(old, c)[Len(old) + 1] = c
        BY <1>1, <2>1, AppendProperties, LenProperties
    <2>4. c.name = name
        OBVIOUS
    <2> HIDE DEF c, old
    <2> QED BY <2>1, <2>2, <2>3, <2>4 DEF old
<1>5. ASSUME NEW maxActive \in MaxActives, LandmarkInit(maxActive)
      PROVE  state'.cosigners = state.cosigners
    BY <1>1, <1>5 DEF LandmarkInit, WithLandmarks, StateType
<1>6. ASSUME NEW now \in Times, LandmarkAllocate(now)
      PROVE  state'.cosigners = state.cosigners
    BY <1>1, <1>6 DEF LandmarkAllocate, WithLandmark, StateType
<1>7. CASE UNCHANGED state
    BY <1>7
<1>8. ASSUME NEW index \in 0..Size, Issue(index)
      PROVE  UNCHANGED state
    BY <1>8 DEF Issue
<1>9. ASSUME NEW start \in 0..Size, NEW end \in 0..Size, Attest(start, end)
      PROVE  UNCHANGED state
    BY <1>9 DEF Attest
<1>10. CASE UNCHANGED vars
    BY <1>7, <1>10 DEF vars
<1> QED BY <1>2, <1>3, <1>4, <1>5, <1>6, <1>7, <1>8, <1>9, <1>10 DEF Next

(* A step keeps an entry issuable unless it adds a key that cannot sign. *)
LEMMA StepKeepsIssuable ==
    ASSUME Loads(state), [Next]_vars, NEW index \in 1..(Size - 1), CanIssue(index)
    PROVE  CanIssue(index)' \/ \E name \in Overlong : Keygen(name)
<1> SUFFICES ASSUME ~ \E name \in Overlong : Keygen(name)
             PROVE  CanIssue(index)'
    OBVIOUS
<1>1. Loads(state') /\ OnlyErases(state, state')
    BY CommandLoads
<1>2. /\ state \in StateType /\ Len(state.entries) >= 1
      /\ state' \in StateType /\ Len(state'.entries) >= 1
    BY <1>1 DEF Loads, WellFormed
<1>3. Size = Len(state.entries) /\ Size' = Len(state'.entries)
    BY <1>2, Rebuilt DEF Size, LogSize
<1>4. /\ Len(state.entries) \in Nat /\ Len(state'.entries) \in Nat
      /\ Len(state.meta) \in Nat /\ Len(state'.meta) \in Nat
    BY <1>2, LenProperties DEF StateType
<1>5. /\ index \in Nat /\ 1 <= index /\ index < Size'
      /\ index < Len(state'.meta)
      /\ state'.meta[index + 1] = state.meta[index + 1]
    BY <1>1, <1>3, <1>4 DEF CanIssue, OnlyErases
<1>6. state'.cosigners # <<>>
    <2>1. /\ state.cosigners \in Seq([name : Names, key : Nat])
          /\ state'.cosigners \in Seq([name : Names, key : Nat])
        BY <1>2 DEF StateType
    <2>2. Len(state.cosigners) > 0
        BY <2>1, EmptySeq, LenProperties DEF CanIssue
    <2>3. Len(state.cosigners) <= Len(state'.cosigners)
        BY <1>1 DEF OnlyErases, IsPrefix
    <2> QED BY <2>1, <2>2, <2>3, EmptySeq, LenProperties
<1>7. \A i \in DOMAIN state'.cosigners : CanSign(i)'
    <2>1. CASE state'.cosigners = state.cosigners
        BY <2>1 DEF CanIssue, CanSign
    <2>2. CASE state'.cosigners # state.cosigners
        <3>1. PICK name \in Names :
                  /\ Keygen(name)
                  /\ \A i \in DOMAIN state'.cosigners :
                         \/ i \in DOMAIN state.cosigners
                            /\ state'.cosigners[i] = state.cosigners[i]
                         \/ state'.cosigners[i].name = name
            BY <2>2, KeysComeFromKeygen
        <3>2. name \notin Overlong
            BY <3>1
        <3> QED BY <3>1, <3>2 DEF CanIssue, CanSign
    <2> QED BY <2>1, <2>2
<1> QED BY <1>3, <1>5, <1>6, <1>7 DEF CanIssue

(* What can be issued once can be issued until a key that cannot sign is    *)
(* added (ca.go:246-277, cosigner_cmd.go:50-61).                            *)
THEOREM IssuableStays == Spec => IssuableStaysIssuable
<1>1. StateFileLoads /\ [Next]_vars =>
          [ \A index \in 1..(Size - 1) :
                CanIssue(index) =>
                    \/ CanIssue(index)'
                    \/ \E name \in Overlong : Keygen(name) ]_state
    BY StepKeepsIssuable DEF StateFileLoads
<1> QED BY <1>1, FilesLoad, PTL DEF Spec, IssuableStaysIssuable

-----------------------------------------------------------------------------
(* Hashes that were handed out *)

LeavesOf(s) == RebuildLog(s).leaves

(* The leaves of the log that a command rebuilds. *)
LEMMA RebuiltLeaves ==
    ASSUME NEW s, Loads(s)
    PROVE  /\ LeavesOf(s) \in Seq(Stored)
           /\ Len(LeavesOf(s)) = Len(s.entries)
           /\ Len(s.entries) \in Nat \ {0}
           /\ s.minIndex \in 0..Len(s.entries)
           /\ LeavesOf(s)[1] = NullEntry
           /\ \A j \in 2..Len(s.entries) :
                  LeavesOf(s)[j] = s.entries[j] /\ (s.entries[j] = Blank <=> j <= s.minIndex)
           /\ RebuildLog(s).entries = LeavesOf(s)
           /\ RebuildLog(s).minIndex = s.minIndex
<1>1. s \in StateType /\ Len(s.entries) >= 1 /\ Len(s.entries) \in Nat
    BY LenProperties DEF Loads, WellFormed, StateType
<1>2. /\ LeavesOf(s) \in Seq(Stored)
      /\ Len(LeavesOf(s)) = Len(s.entries)
      /\ LeavesOf(s)[1] = NullEntry
      /\ \A j \in 2..Len(s.entries) : LeavesOf(s)[j] = s.entries[j]
      /\ RebuildLog(s).entries = LeavesOf(s)
      /\ RebuildLog(s).minIndex = s.minIndex
    BY <1>1, Rebuilt DEF LeavesOf
<1>3. /\ \A j \in 1..Len(s.entries) : j <= s.minIndex <=> s.entries[j] = Blank
      /\ s.minIndex \in 0..Len(s.entries)
    BY DEF Loads, WellFormed
<1> QED BY <1>1, <1>2, <1>3

LEMMA SizeAndLeaves ==
    ASSUME Loads(state) PROVE Size = Len(state.entries) /\ Leaves = LeavesOf(state)
BY RebuiltLeaves DEF Size, LogSize, Leaves, LeavesOf

(* The leaf at position j has been pruned since the hash was handed out. *)
PrunedSince(j, s) == j # 1 /\ held.minIndex < j /\ j <= s.minIndex

(* The hash held is the one of the subtree as it still is, but for what has *)
(* been pruned since: there it has an entry and the log has none.           *)
HashIsHistory(s) ==
    held.kind = "hash" =>
        /\ held.end \in 0..Len(s.entries)
        /\ held.start \in 0..held.end
        /\ held.minIndex \in 0..s.minIndex
        /\ held.hash \in Seq(Stored)
        /\ Len(held.hash) = held.end - held.start
        /\ \A j \in (held.start + 1)..held.end :
               IF PrunedSince(j, s) THEN held.hash[j - held.start] # Blank
               ELSE held.hash[j - held.start] = LeavesOf(s)[j]

(* A command that leaves the item alone keeps this, because it only erases. *)
LEMMA ErasingKeepsHistory ==
    ASSUME NEW s, NEW t, Loads(s), Loads(t), OnlyErases(s, t), HashIsHistory(s)
    PROVE  HashIsHistory(t)
<1> SUFFICES ASSUME held.kind = "hash" PROVE HashIsHistory(t)
    BY DEF HashIsHistory
<1> DEFINE m == held.minIndex
<1>1. /\ Len(s.entries) \in Nat \ {0} /\ s.minIndex \in 0..Len(s.entries)
      /\ LeavesOf(s)[1] = NullEntry
      /\ \A j \in 2..Len(s.entries) :
             LeavesOf(s)[j] = s.entries[j] /\ (s.entries[j] = Blank <=> j <= s.minIndex)
    BY RebuiltLeaves
<1>2. /\ Len(t.entries) \in Nat \ {0} /\ t.minIndex \in 0..Len(t.entries)
      /\ LeavesOf(t)[1] = NullEntry
      /\ \A j \in 2..Len(t.entries) : LeavesOf(t)[j] = t.entries[j]
    BY RebuiltLeaves
<1>3. /\ Len(t.entries) >= Len(s.entries)
      /\ t.minIndex >= s.minIndex
      /\ \A j \in 2..Len(s.entries) :
             t.entries[j] = IF j <= t.minIndex THEN Blank ELSE s.entries[j]
    BY DEF OnlyErases
<1>4. /\ held.end \in 0..Len(s.entries) /\ held.start \in 0..held.end
      /\ m \in 0..s.minIndex
      /\ held.hash \in Seq(Stored)
      /\ Len(held.hash) = held.end - held.start
      /\ \A j \in (held.start + 1)..held.end :
             IF PrunedSince(j, s) THEN held.hash[j - held.start] # Blank
             ELSE held.hash[j - held.start] = LeavesOf(s)[j]
    BY DEF HashIsHistory
<1>5. ASSUME NEW j \in (held.start + 1)..held.end
      PROVE  IF PrunedSince(j, t) THEN held.hash[j - held.start] # Blank
             ELSE held.hash[j - held.start] = LeavesOf(t)[j]
    <2>1. CASE j = 1
        <3>1. ~PrunedSince(j, s) /\ ~PrunedSince(j, t)
            BY <2>1 DEF PrunedSince
        <3> QED BY <1>1, <1>2, <1>4, <2>1, <3>1
    <2>2. CASE j # 1
        <3>1. /\ j \in 2..Len(s.entries) /\ j \in 2..Len(t.entries) /\ j \in Nat
              /\ s.minIndex \in Nat /\ t.minIndex \in Nat /\ m \in Nat
            BY <1>1, <1>2, <1>3, <1>4, <2>2
        <3>2. LeavesOf(s)[j] = s.entries[j] /\ (s.entries[j] = Blank <=> j <= s.minIndex)
            BY <1>1, <3>1
        <3>3. LeavesOf(t)[j] = IF j <= t.minIndex THEN Blank ELSE s.entries[j]
            BY <1>2, <1>3, <3>1
        <3>4. IF m < j /\ j <= s.minIndex THEN held.hash[j - held.start] # Blank
              ELSE held.hash[j - held.start] = LeavesOf(s)[j]
            BY <1>4, <2>2 DEF PrunedSince
        <3>5. PrunedSince(j, t) <=> m < j /\ j <= t.minIndex
            BY <2>2 DEF PrunedSince
        <3> HIDE DEF m
        <3> QED BY <1>1, <1>3, <1>4, <3>1, <3>2, <3>3, <3>4, <3>5, SMTT(30)
    <2> QED BY <2>1, <2>2
<1>6. held.end \in 0..Len(t.entries) /\ m \in 0..t.minIndex
    BY <1>1, <1>2, <1>3, <1>4
<1> QED BY <1>4, <1>5, <1>6 DEF HashIsHistory

(* A hash that is handed out is the log's. *)
LEMMA AttestedIsHistory ==
    ASSUME Loads(state), NEW start, NEW end, Attest(start, end)
    PROVE  HashIsHistory(state)'
<1>1. /\ held' = [kind     |-> "hash", start |-> start, end |-> end,
                  hash     |-> SubtreeView(Leaves, start, end),
                  minIndex |-> state.minIndex]
      /\ state' = state
      /\ end \in 0..Size /\ start \in 0..end
    BY DEF Attest, HasHash
<1>2. /\ Size = Len(state.entries) /\ Leaves = LeavesOf(state)
      /\ Leaves \in Seq(Stored) /\ Len(Leaves) = Size /\ Size \in Nat
      /\ state.minIndex \in Nat
    BY SizeAndLeaves, RebuiltLeaves
<1>3. /\ SubtreeView(Leaves, start, end) \in Seq(Stored)
      /\ Len(SubtreeView(Leaves, start, end)) = end - start
      /\ \A j \in (start + 1)..end : SubtreeView(Leaves, start, end)[j - start] = Leaves[j]
    <2>1. Leaves \in Seq(Stored) /\ end \in 0..Len(Leaves) /\ start \in 0..end
        BY <1>1, <1>2
    <2> QED BY <2>1, ViewElements
<1>4. /\ held'.start = start /\ held'.end = end /\ held'.minIndex = state.minIndex
      /\ held'.hash = SubtreeView(Leaves, start, end)
    BY <1>1
<1>5. \A j \in (start + 1)..end : ~(state.minIndex < j /\ j <= state.minIndex)
    BY <1>1, <1>2
<1> QED BY <1>1, <1>2, <1>3, <1>4, <1>5 DEF HashIsHistory, PrunedSince

(* What has been pruned since is what makes the hashes differ. *)
LEMMA HistoryTells ==
    ASSUME Loads(state), HashIsHistory(state)
    PROVE  HashesChangeOnlyByPruning
<1> SUFFICES ASSUME held.kind = "hash" PROVE HashesChangeOnlyByPruning
    BY DEF HashesChangeOnlyByPruning
<1> DEFINE start  == held.start
           end    == held.end
           hash   == held.hash
           m      == held.minIndex
           view   == SubtreeView(Leaves, start, end)
           pruned == {i \in start..(end - 1) : i # 0 /\ m <= i /\ i < state.minIndex}
<1>1. /\ Size = Len(state.entries) /\ Size \in Nat \ {0}
      /\ Leaves = LeavesOf(state) /\ Leaves \in Seq(Stored) /\ Len(Leaves) = Size
      /\ state.minIndex \in 0..Size
      /\ \A j \in 2..Size : j <= state.minIndex => Leaves[j] = Blank
      /\ RebuildLog(state).entries = Leaves
      /\ RebuildLog(state).minIndex = state.minIndex
    BY SizeAndLeaves, RebuiltLeaves
<1>2. /\ end \in 0..Size /\ start \in 0..end
      /\ m \in 0..state.minIndex
      /\ hash \in Seq(Stored)
      /\ Len(hash) = end - start
      /\ \A j \in (start + 1)..end :
             IF PrunedSince(j, state) THEN hash[j - start] # Blank
             ELSE hash[j - start] = Leaves[j]
    BY <1>1 DEF HashIsHistory
<1>3. /\ view \in Seq(Stored)
      /\ Len(view) = end - start
      /\ \A j \in (start + 1)..end : view[j - start] = Leaves[j]
    <2>1. Leaves \in Seq(Stored) /\ end \in 0..Len(Leaves) /\ start \in 0..end
        BY <1>1, <1>2
    <2> HIDE DEF start, end
    <2> QED BY <2>1, ViewElements
<1> HIDE DEF view
<1>4. ASSUME pruned = {} PROVE view = hash
    <2>1. ASSUME NEW i \in 1..(end - start) PROVE view[i] = hash[i]
        <3> DEFINE j == start + i
        <3>0. start \in Nat /\ end \in Nat
            BY <1>1, <1>2
        <3> HIDE DEF start, end
        <3>1. j \in (start + 1)..end /\ j - start = i /\ j - 1 \in start..(end - 1)
            BY <3>0
        <3>2. ~PrunedSince(j, state)
            <4> SUFFICES ASSUME PrunedSince(j, state) PROVE FALSE
                OBVIOUS
            <4>1. j # 1 /\ m < j /\ j <= state.minIndex
                BY DEF PrunedSince
            <4>2. j - 1 # 0 /\ m <= j - 1 /\ j - 1 < state.minIndex
                BY <1>1, <1>2, <3>1, <4>1
            <4> QED BY <1>4, <3>1, <4>2
        <3> QED BY <1>2, <1>3, <3>1, <3>2
    <2> HIDE DEF start, end, hash
    <2> QED BY <1>2, <1>3, <2>1, SeqEqual
<1>5. ASSUME NEW i \in pruned PROVE view # hash
    <2> DEFINE j == i + 1
    <2>a. /\ i \in start..(end - 1) /\ i # 0 /\ m <= i /\ i < state.minIndex
          /\ start \in Nat /\ end \in Nat /\ end <= Size /\ Size \in Nat
          /\ m \in Nat /\ state.minIndex \in Nat
        BY <1>1, <1>2
    <2>1. /\ j \in (start + 1)..end /\ j \in 2..Size
          /\ j # 1 /\ m < j /\ j <= state.minIndex
        <3> HIDE DEF pruned, start, end, m
        <3> QED BY <2>a
    <2>2. hash[j - start] # Blank
        BY <1>2, <2>1 DEF PrunedSince
    <2>3. view[j - start] = Blank
        BY <1>1, <1>3, <2>1
    <2> QED BY <2>2, <2>3
<1>6. (view = hash) = (pruned = {})
    BY <1>4, <1>5
<1>7. start = 0 /\ end > 0 => MirrorConsistency(end, hash) = (pruned = {})
    <2> SUFFICES ASSUME start = 0, end > 0
                 PROVE  MirrorConsistency(end, hash) = (pruned = {})
        OBVIOUS
    <2>1. 1 <= end /\ end <= Size
        BY <1>1, <1>2
    <2> HIDE DEF pruned
    <2> QED BY <1>6, <2>1 DEF MirrorConsistency, view
<1>8. ASSUME NEW index \in start..(end - 1), MirrorInclusion(index)
      PROVE  EntryAt(RebuildLog(state), index) = hash[index - start + 1]
    <2> DEFINE j == index + 1
    <2>1. state.minIndex <= index /\ index < Size
        BY <1>1, <1>8 DEF MirrorInclusion, Available
    <2>2. j \in (start + 1)..end /\ j - start = index - start + 1 /\ ~(j <= state.minIndex)
        BY <1>1, <1>2, <2>1
    <2>3. hash[j - start] = Leaves[j]
        BY <1>2, <2>2 DEF PrunedSince
    <2> QED BY <1>1, <2>2, <2>3 DEF EntryAt
<1> QED BY <1>6, <1>7, <1>8 DEF HashesChangeOnlyByPruning, view

(* A hash that was shown or signed stays the log's, and a checkpoint one it *)
(* is consistent with, until an entry in it is pruned (log.go:94, state.go: *)
(* 94-130, mirror_cmd.go).                                                  *)
THEOREM HashesChangeByPruning == Spec => []HashesChangeOnlyByPruning
<1>1. Init => HashIsHistory(state)
    BY DEF Init, Nothing, HashIsHistory
<1>2. StateFileLoads /\ HashIsHistory(state) /\ [Next]_vars => HashIsHistory(state)'
    <2> SUFFICES ASSUME Loads(state), HashIsHistory(state), [Next]_vars
                 PROVE  HashIsHistory(state)'
        BY DEF StateFileLoads
    <2>1. HashIsHistory(state')
        BY CommandLoads, ErasingKeepsHistory
    <2>2. CASE UNCHANGED held
        BY <2>1, <2>2 DEF HashIsHistory, PrunedSince
    <2>3. ASSUME NEW start \in 0..Size, NEW end \in 0..Size, Attest(start, end)
          PROVE  HashIsHistory(state)'
        BY <2>3, AttestedIsHistory
    <2>4. ASSUME NEW index \in 0..Size, Issue(index)
          PROVE  HashIsHistory(state)'
        <3>1. held'.kind = "certificate"
            BY <2>4 DEF Issue
        <3> QED BY <3>1 DEF HashIsHistory
    <2>5. CASE UNCHANGED vars
        BY <2>2, <2>5 DEF vars
    <2> QED BY <2>2, <2>3, <2>4, <2>5 DEF Next, Add, Prune, Keygen, LandmarkInit, LandmarkAllocate
<1>3. StateFileLoads /\ HashIsHistory(state) => HashesChangeOnlyByPruning
    BY HistoryTells DEF StateFileLoads
<1> QED BY <1>1, <1>2, <1>3, FilesLoad, PTL DEF Spec

-----------------------------------------------------------------------------
(* Certificates that were issued *)

CosignersOf(s) ==
    [i \in DOMAIN s.cosigners |-> [id |-> IdOf[s.cosigners[i].name], key |-> s.cosigners[i].key]]

CosignerType == [id : Nat, key : Nat]

LEMMA CosignersTyped ==
    ASSUME NEW s, Loads(s)
    PROVE  /\ CosignersOf(s) \in Seq(CosignerType)
           /\ Len(CosignersOf(s)) = Len(s.cosigners)
           /\ Len(s.cosigners) \in Nat
           /\ s.cosigners \in Seq([name : Names, key : Nat])
           /\ DOMAIN s.cosigners = 1..Len(s.cosigners)
           /\ \A i \in 1..Len(s.cosigners) :
                  CosignersOf(s)[i] = [id |-> IdOf[s.cosigners[i].name],
                                       key |-> s.cosigners[i].key]
<1> DEFINE n == Len(s.cosigners)
<1>1. /\ s.cosigners \in Seq([name : Names, key : Nat])
      /\ n \in Nat /\ DOMAIN s.cosigners = 1..n
    BY LenProperties DEF Loads, StateType
<1>2. \A i \in 1..n : s.cosigners[i] \in [name : Names, key : Nat]
    BY <1>1, ElementOfSeq
<1>3. CosignersOf(s) \in [1..n -> CosignerType]
    BY <1>1, <1>2, CliConstants DEF CosignersOf, CosignerType
<1>4. CosignersOf(s) \in Seq(CosignerType)
    BY <1>1, <1>3, SeqDef
<1>5. Len(CosignersOf(s)) = n
    <2>1. DOMAIN CosignersOf(s) = 1..n
        BY <1>3
    <2> HIDE DEF n
    <2> QED BY <1>1, <1>4, <2>1, LenProperties
<1> QED BY <1>1, <1>4, <1>5 DEF CosignersOf

(* A prefix has the first elements. *)
LEMMA PrefixElements ==
    ASSUME NEW S, NEW q \in Seq(S), NEW r \in Seq(S), IsPrefix(q, r)
    PROVE  Len(q) <= Len(r) /\ \A i \in 1..Len(q) : q[i] = r[i]
<1> DEFINE n == Len(q)
           u == SubSeq(q, 1, n)
           v == SubSeq(r, 1, n)
<1>1. /\ n \in Nat /\ Len(r) \in Nat /\ n <= Len(r) /\ u = v
    BY LenProperties DEF IsPrefix
<1>2. /\ \A i \in 1..n : q[i] \in S
      /\ \A i \in 1..n : r[i] \in S
    <2>1. \A i \in 1..n : i \in 1..Len(q) /\ i \in 1..Len(r)
        BY <1>1
    <2> QED BY <2>1, ElementOfSeq
<1>3. \A i \in 1..(n - 1 + 1) : u[i] = q[1 + i - 1]
    BY <1>1, <1>2, SubSeqProperties
<1>4. \A i \in 1..(n - 1 + 1) : v[i] = r[1 + i - 1]
    BY <1>1, <1>2, SubSeqProperties
<1>5. \A i \in 1..n : i \in 1..(n - 1 + 1) /\ 1 + i - 1 = i
    BY <1>1
<1> HIDE DEF u, v, n
<1>6. \A i \in 1..n : q[i] = r[i]
    BY <1>1, <1>3, <1>4, <1>5
<1> QED BY <1>1, <1>6 DEF n

(* The keys are the first of the file's cosigners. *)
FirstCosigners(keys, s) ==
    /\ Len(keys) <= Len(s.cosigners)
    /\ \A i \in 1..Len(keys) : keys[i] = CosignersOf(s)[i]

LEMMA FirstCosignersStay ==
    ASSUME NEW s, NEW t, Loads(s), Loads(t), OnlyErases(s, t),
           NEW keys \in Seq(CosignerType), FirstCosigners(keys, s)
    PROVE  FirstCosigners(keys, t)
<1>1. /\ Len(keys) \in Nat
      /\ Len(s.cosigners) <= Len(t.cosigners)
      /\ \A i \in 1..Len(s.cosigners) : s.cosigners[i] = t.cosigners[i]
      /\ Len(s.cosigners) \in Nat /\ Len(t.cosigners) \in Nat
    <2>1. /\ s.cosigners \in Seq([name : Names, key : Nat])
          /\ t.cosigners \in Seq([name : Names, key : Nat])
          /\ IsPrefix(s.cosigners, t.cosigners)
        BY CosignersTyped DEF OnlyErases
    <2> QED BY <2>1, PrefixElements, CosignersTyped, LenProperties
<1>2. ASSUME NEW i \in 1..Len(keys)
      PROVE  keys[i] = CosignersOf(t)[i]
    <2>1. i \in 1..Len(s.cosigners) /\ i \in 1..Len(t.cosigners)
        BY <1>1 DEF FirstCosigners
    <2>2. CosignersOf(s)[i] = CosignersOf(t)[i]
        <3>1. CosignersOf(s)[i] = [id |-> IdOf[s.cosigners[i].name], key |-> s.cosigners[i].key]
            BY <2>1, CosignersTyped
        <3>2. CosignersOf(t)[i] = [id |-> IdOf[t.cosigners[i].name], key |-> t.cosigners[i].key]
            BY <2>1, CosignersTyped
        <3>3. s.cosigners[i] = t.cosigners[i]
            BY <1>1, <2>1
        <3> QED BY <3>1, <3>2, <3>3
    <2> QED BY <2>2 DEF FirstCosigners
<1> QED BY <1>1, <1>2 DEF FirstCosigners

(* The certificate was made by CreateCertificate from what the file had     *)
(* then: keys that are still its first cosigners, and a leaf at the index   *)
(* that was the entry unless that had been pruned.                          *)
MadeWhenIssued(item, s) ==
    item.kind = "certificate" =>
        \E leaves \in Seq(Stored), keys \in Seq(CosignerType),
           index \in 1..(2^IndexBits - 1) : \E tbs, st :
            /\ item.cert \in CreateCertificate(leaves, LogNumber, index, NoExtensions,
                                               tbs, st, keys)
            /\ leaves[index + 1] = tbs <=> index >= item.minIndex
            /\ keys # <<>>
            /\ FirstCosigners(keys, s)

CertificateIsMade == MadeWhenIssued(held, state)

(* No entry is added beyond the bound, so indices fit a serial number. *)
WithinMaxSize(s) == Len(s.entries) <= MaxSize

LEMMA CommandStaysWithinMaxSize ==
    ASSUME Loads(state), [Next]_vars, WithinMaxSize(state)
    PROVE  WithinMaxSize(state')
<1>1. /\ state \in StateType /\ Len(state.entries) \in Nat \ {0}
      /\ Size = Len(state.entries) /\ MaxSize \in Nat
    BY SizeAndLeaves, RebuiltLeaves, CliConstants DEF Loads
<1>2. ASSUME NEW cn \in CNs, NEW now \in Times, Add(cn, now)
      PROVE  WithinMaxSize(state')
    <2>1. Len(state'.entries) = Len(state.entries) + 1
        BY <1>1, <1>2, AddedLoads, CliConstants DEF Add
    <2> QED BY <1>1, <1>2, <2>1 DEF Add, WithinMaxSize
<1>3. ASSUME NEW newMinIndex \in -1..(Size + 1), Prune(newMinIndex)
      PROVE  WithinMaxSize(state')
    <2> DEFINE log == PruneTo(RebuildLog(state), newMinIndex)
    <2>1. /\ RebuildLog(state).entries \in Seq(Stored)
          /\ Len(RebuildLog(state).entries) = Len(state.entries)
          /\ RebuildLog(state).minIndex = state.minIndex
          /\ state.minIndex \in Nat
        <3>1. state \in StateType /\ Len(state.entries) >= 1
            BY <1>1
        <3>2. state.minIndex \in Nat
            BY <3>1 DEF StateType
        <3> QED BY <3>1, <3>2, Rebuilt
    <2>2. log.entries = RebuildLog(state).entries /\ log.minIndex = newMinIndex
        BY DEF PruneTo, RebuildLog, Log
    <2>3. newMinIndex \in Nat
        BY <1>1, <1>3, <2>1 DEF Prune, CanPruneState, CanPrune
    <2> HIDE DEF log
    <2>4. Len(SyncEntries(state, log).entries) = Len(state.entries)
        BY <1>1, <2>1, <2>2, <2>3, Synced
    <2> QED BY <1>3, <2>4 DEF Prune, Pruned, log, WithinMaxSize
<1>4. ASSUME NEW name \in Names, Keygen(name)
      PROVE  state'.entries = state.entries
    BY <1>1, <1>4 DEF Keygen, WithCosigner, StateType
<1>5. ASSUME NEW maxActive \in MaxActives, LandmarkInit(maxActive)
      PROVE  state'.entries = state.entries
    BY <1>1, <1>5 DEF LandmarkInit, WithLandmarks, StateType
<1>6. ASSUME NEW now \in Times, LandmarkAllocate(now)
      PROVE  state'.entries = state.entries
    BY <1>1, <1>6 DEF LandmarkAllocate, WithLandmark, StateType
<1>7. ASSUME NEW index \in 0..Size, Issue(index)
      PROVE  state'.entries = state.entries
    BY <1>7 DEF Issue
<1>8. ASSUME NEW start \in 0..Size, NEW end \in 0..Size, Attest(start, end)
      PROVE  state'.entries = state.entries
    BY <1>8 DEF Attest
<1>9. CASE UNCHANGED vars
    BY <1>9 DEF vars, WithinMaxSize
<1>10. CASE state'.entries = state.entries
    BY <1>10 DEF WithinMaxSize
<1> QED BY <1>2, <1>3, <1>4, <1>5, <1>6, <1>7, <1>8, <1>9, <1>10 DEF Next

(* A command that leaves the certificate alone keeps how it was made. *)
LEMMA ErasingKeepsMade ==
    ASSUME NEW s, NEW t, Loads(s), Loads(t), OnlyErases(s, t), NEW item, MadeWhenIssued(item, s)
    PROVE  MadeWhenIssued(item, t)
BY FirstCosignersStay DEF MadeWhenIssued

(* "ca issue" makes the certificate so. *)
LEMMA IssuedIsMade ==
    ASSUME Loads(state), WithinMaxSize(state), NEW index, Issue(index), index \in Int
    PROVE  MadeWhenIssued(held', state')
<1> DEFINE tbs == state.meta[index + 1]
           st  == CoveringSubtree(index, Size)
<1>1. PICK cert \in CreateCertificate(Leaves, LogNumber, index, NoExtensions, tbs, st,
                        Cosigners) :
          held' = [kind |-> "certificate", cert |-> cert, minIndex |-> state.minIndex]
    BY DEF Issue
<1>2. /\ 1 <= index /\ index < Size
      /\ index < Len(state.meta)
      /\ tbs # NoMeta
      /\ state.cosigners # <<>>
      /\ state' = state
    BY DEF Issue, CanIssue
<1>3. /\ Size = Len(state.entries) /\ Size \in Nat
      /\ Leaves \in Seq(Stored) /\ Len(Leaves) = Size
      /\ state.minIndex \in 0..Size
      /\ \A j \in 2..Size :
             Leaves[j] = state.entries[j] /\ (state.entries[j] = Blank <=> j <= state.minIndex)
    BY SizeAndLeaves, RebuiltLeaves
<1>4. index \in 1..(2^IndexBits - 1) /\ index + 1 \in 2..Size
    <2>1. PICK M : M = 2^IndexBits
        OBVIOUS
    <2>2. MaxSize \in 1..(M - 1)
        BY <2>1, CliConstants
    <2>3. index <= MaxSize /\ MaxSize \in Int
        BY <1>2, <1>3, <2>2 DEF WithinMaxSize
    <2>4. M \in Int
        BY <2>1, CliConstants
    <2> QED BY <1>2, <1>3, <2>1, <2>2, <2>3, <2>4
<1>5. Leaves[index + 1] = tbs <=> index >= state.minIndex
    <2>1. /\ Leaves[index + 1] = state.entries[index + 1]
          /\ state.entries[index + 1] = Blank <=> index + 1 <= state.minIndex
        BY <1>3, <1>4
    <2>2. tbs # Blank
        <3>1. state.meta \in Seq(EntryType \union {NoMeta}) /\ index + 1 \in 1..Len(state.meta)
            <4>1. state.meta \in Seq(EntryType \union {NoMeta})
                BY DEF Loads, StateType
            <4>2. Len(state.meta) \in Nat
                BY <4>1, LenProperties
            <4> QED BY <1>2, <4>1, <4>2
        <3>2. tbs \in EntryType
            BY <1>2, <3>1, ElementOfSeq
        <3> QED BY <3>2, DemoConstants
    <2>3. index + 1 > state.minIndex => state.meta[index + 1] = state.entries[index + 1]
        BY <1>3, <1>4 DEF Loads, WellFormed
    <2> QED BY <1>3, <1>4, <2>1, <2>2, <2>3
<1>6. /\ Cosigners \in Seq(CosignerType) /\ Cosigners # <<>>
      /\ FirstCosigners(Cosigners, state')
    <2>1. Cosigners = CosignersOf(state)
        BY DEF Cosigners, CosignersOf
    <2>2. /\ CosignersOf(state) \in Seq(CosignerType)
          /\ Len(CosignersOf(state)) = Len(state.cosigners)
          /\ state.cosigners \in Seq([name : Names, key : Nat])
          /\ Len(state.cosigners) \in Nat
        BY CosignersTyped
    <2>3. CosignersOf(state) # <<>>
        BY <1>2, <2>2, EmptySeq
    <2> QED BY <1>2, <2>1, <2>2, <2>3 DEF FirstCosigners
<1>7. held'.cert = cert /\ held'.minIndex = state.minIndex
    BY <1>1
<1> HIDE DEF tbs, st
<1>8. /\ held'.cert \in CreateCertificate(Leaves, LogNumber, index, NoExtensions, tbs, st,
                                         Cosigners)
      /\ Leaves[index + 1] = tbs <=> index >= held'.minIndex
    BY <1>1, <1>5, <1>7
<1>9. \E leaves \in Seq(Stored), keys \in Seq(CosignerType),
         i \in 1..(2^IndexBits - 1) : \E e, t :
          /\ held'.cert \in CreateCertificate(leaves, LogNumber, i, NoExtensions, e, t, keys)
          /\ leaves[i + 1] = e <=> i >= held'.minIndex
          /\ keys # <<>>
          /\ FirstCosigners(keys, state')
    <2>1. PICK leaves \in Seq(Stored), keys \in Seq(CosignerType) : \E e, t :
              /\ held'.cert \in CreateCertificate(leaves, LogNumber, index, NoExtensions, e, t, keys)
              /\ leaves[index + 1] = e <=> index >= held'.minIndex
              /\ keys # <<>>
              /\ FirstCosigners(keys, state')
        BY <1>3, <1>4, <1>6, <1>8
    <2> QED BY <1>4, <2>1
<1> QED BY <1>9 DEF MadeWhenIssued

(* What was made so verifies, with any cosigner that the file has since,    *)
(* exactly when the leaf is the entry and the ids are different.            *)
LEMMA VerdictIsKept ==
    ASSUME Loads(state), CertificateIsMade
    PROVE  IssuedCertificatesKeepTheirVerdict
<1> SUFFICES ASSUME held.kind = "certificate" PROVE IssuedCertificatesKeepTheirVerdict
    BY DEF IssuedCertificatesKeepTheirVerdict
<1> DEFINE cert  == held.cert
           all   == CosignersOf(state)
           ids   == {all[i].id : i \in DOMAIN all}
           conf  == [cosigners |-> all, policy |-> [n |-> 1, trusted |-> ids],
                     subtrees |-> <<>>, revoked |-> {}]
           Distinct(q) == \A i, j \in DOMAIN q : q[i].id = q[j].id => i = j
<1>a. PICK leaves \in Seq(Stored), keys \in Seq(CosignerType),
           index \in 1..(2^IndexBits - 1) : \E e, t :
          /\ cert \in CreateCertificate(leaves, LogNumber, index, NoExtensions, e, t, keys)
          /\ leaves[index + 1] = e <=> index >= held.minIndex
          /\ keys # <<>>
          /\ FirstCosigners(keys, state)
    BY DEF CertificateIsMade, MadeWhenIssued
<1>1. PICK tbs, st :
          /\ cert \in CreateCertificate(leaves, LogNumber, index, NoExtensions, tbs, st, keys)
          /\ leaves[index + 1] = tbs <=> index >= held.minIndex
          /\ keys # <<>>
          /\ FirstCosigners(keys, state)
    BY <1>a
<1> DEFINE inclusion == SubtreeView(leaves, st.start, st.end)
           n         == Len(keys)
           hash      == EvaluatedHash(cert, index)
           valid     == ValidSignatures(cert, hash, all)
<1>2. /\ MadeFor(cert, LogNumber, index, NoExtensions, tbs, st, inclusion, keys)
      /\ HasHash(Len(leaves), st) /\ In(index, st)
    BY <1>1, CertificateMade
<1>3. /\ cert.serial = Serial(LogNumber, index)
      /\ cert.extensions = NoExtensions /\ cert.tbs = tbs
      /\ cert.start = st.start /\ cert.end = st.end /\ cert.inclusion = inclusion
      /\ DOMAIN cert.signatures = 1..n
    BY <1>2 DEF MadeFor
<1>4. /\ index \in Nat
      /\ SerialIndex(cert.serial) = index
      /\ SerialLogNumber(cert.serial) = LogNumber /\ LogNumber # 0
    <2>1. PICK M : M = 2^IndexBits
        OBVIOUS
    <2>2. M \in Int
        BY <2>1, CliConstants
    <2>3. M \in Nat \ {0} /\ index \in 0..(M - 1)
        BY <2>1, <2>2
    <2>4. /\ SerialIndex(Serial(LogNumber, index)) = index
          /\ SerialLogNumber(Serial(LogNumber, index)) = LogNumber
        BY <2>1, <2>3, SerialParts, CliConstants
    <2> QED BY <1>3, <2>3, <2>4, CliConstants
<1>5. /\ all \in Seq(CosignerType)
      /\ DOMAIN all = 1..Len(all) /\ Len(all) \in Nat
      /\ n \in Nat \ {0} /\ n <= Len(all)
      /\ \A i \in 1..n : keys[i] = all[i] /\ keys[i] \in CosignerType
    <2>1. all \in Seq(CosignerType) /\ Len(all) = Len(state.cosigners)
        BY CosignersTyped
    <2> HIDE DEF all
    <2>2. n \in Nat /\ DOMAIN all = 1..Len(all) /\ Len(all) \in Nat
        BY <2>1, LenProperties
    <2>3. n # 0
        BY <1>1, EmptySeq
    <2>4. \A i \in 1..n : keys[i] \in CosignerType
        BY ElementOfSeq
    <2> QED BY <1>1, <2>1, <2>2, <2>3, <2>4 DEF FirstCosigners, all
<1>6. Parses(cert) <=> Distinct(keys)
    <2>1. \A k \in CosignerType : k.id \in Nat
        BY DEF CosignerType
    <2>2. DOMAIN keys = 1..n
        BY LenProperties
    <2> HIDE DEF cert, inclusion
    <2>3. Parses(cert) <=> \A i, j \in 1..Len(keys) : keys[i].id = keys[j].id => i = j
        BY <1>2, <2>1, DistinctIdsParse
    <2> QED BY <2>2, <2>3
<1>7. Parses(cert) <=> Distinct(cert.signatures)
    <2>1. \A k \in CosignerType : k.id \in Nat
        BY DEF CosignerType
    <2> HIDE DEF cert, inclusion
    <2> QED BY <1>2, <2>1, DistinctIdsParse
<1>8. hash = inclusion <=> index >= held.minIndex
    <2>1. /\ cert.end \in 0..Len(leaves) /\ cert.start \in 0..cert.end
          /\ cert.start <= index /\ index < cert.end
          /\ cert.inclusion = SubtreeView(leaves, cert.start, cert.end)
        BY <1>2, <1>3 DEF HasHash, In
    <2> HIDE DEF cert, inclusion
    <2>2. EvaluatedHash(cert, index) = cert.inclusion
              <=> leaves[index + 1] = LogEntry(cert.extensions, cert.tbs)
        BY <1>4, <2>1, EvaluatesToItself
    <2> QED BY <1>1, <1>3, <2>2 DEF LogEntry
<1> HIDE DEF inclusion, all, cert
<1>9. PICK p \in Bijection(1..n, 1..n) : \A i \in 1..n :
          cert.signatures[i] = SignatureBy(keys[p[i]], LogNumber, st, inclusion)
    BY <1>2 DEF MadeFor
<1>10. \A i \in 1..n : p[i] \in 1..n
    BY DEF Bijection, Injection
<1>11. ASSUME NEW i \in 1..n
       PROVE  /\ cert.signatures[i].id \in ids
              /\ i \in valid =>  hash = inclusion
              /\ hash = inclusion /\ Distinct(keys) => i \in valid
    <2> DEFINE c == keys[p[i]]
    <2>1. /\ c = all[p[i]] /\ p[i] \in 1..n /\ p[i] \in DOMAIN all
        BY <1>5, <1>10
    <2>2. cert.signatures[i] = SignatureBy(c, LogNumber, st, inclusion)
        BY <1>9
    <2>3. cert.signatures[i].id = c.id
        BY <2>2 DEF SignatureBy
    <2> HIDE DEF c, n, hash
    <2>4. i \in ValidSignatures(cert, hash, all)
              <=> hash = inclusion /\ IsTrustedFirst(c, all)
        <3>1. SignatureBy(c, LogNumber, st, inclusion) = SignatureBy(c, LogNumber, cert, inclusion)
            BY <1>3 DEF SignatureBy
        <3>2. /\ i \in DOMAIN cert.signatures
              /\ cert.signatures[i]
                     = SignatureBy(c, SerialLogNumber(cert.serial), cert, inclusion)
            BY <1>3, <1>4, <2>2, <3>1
        <3> QED BY <3>2, ValidSignature
    <2>5. ASSUME Distinct(keys) PROVE IsFirst(p[i], {j \in DOMAIN all : all[j].id = c.id})
        <3>1. p[i] \in Nat /\ DOMAIN all \subseteq Nat /\ DOMAIN keys = 1..n
            BY <1>5, <2>1, LenProperties DEF n
        <3>2. ASSUME NEW j \in DOMAIN all, all[j].id = c.id, j < p[i] PROVE FALSE
            <4>1. j \in 1..n /\ keys[j] = all[j] /\ j # p[i]
                BY <1>5, <2>1, <3>1, <3>2
            <4> QED BY <2>1, <2>5, <3>1, <3>2, <4>1 DEF c
        <3> QED BY <2>1, <3>1, <3>2 DEF IsFirst
    <2>6. Distinct(keys) => IsTrustedFirst(c, all)
        BY <2>1, <2>5 DEF IsTrustedFirst
    <2> QED BY <2>1, <2>3, <2>4, <2>6
<1>12. IsSatisfied([n |-> 1, trusted |-> ids], cert, valid)
           <=> \E i \in valid : TRUE
    <2> DEFINE C == {i \in valid : cert.signatures[i].id \in ids}
    <2>1. valid \subseteq 1..n
        BY <1>3 DEF ValidSignatures
    <2>2. C = valid
        BY <1>11, <2>1
    <2>3. IsFiniteSet(valid)
        <3>1. IsFiniteSet(1..n)
            BY <1>5, FS_Interval
        <3> HIDE DEF valid
        <3> QED BY <2>1, <3>1, FS_Subset
    <2>4. Cardinality(valid) \in Nat /\ (Cardinality(valid) = 0 <=> valid = {})
        <3> HIDE DEF valid
        <3> QED BY <2>3, FS_CardinalityType, FS_EmptySet
    <2>5. [n |-> 1, trusted |-> ids] # NoPolicy
        BY DEF NoPolicy
    <2>6. IsSatisfied([n |-> 1, trusted |-> ids], cert, valid) <=> Cardinality(C) >= 1
        BY <2>5 DEF IsSatisfied
    <2> HIDE DEF C, valid
    <2> QED BY <2>2, <2>4, <2>6
<1>13. VerifyCertificateSignature(cert, conf)
           <=> Parses(cert) /\ IsSatisfied([n |-> 1, trusted |-> ids], cert, valid)
    <2>1. ~IsRevoked({}, cert.serial)
        BY DEF IsRevoked
    <2>2. MatchingSubtrees(cert, <<>>) = {}
        BY DEF MatchingSubtrees
    <2>3. IsValidSubtree(cert.start, cert.end) /\ cert.start <= index /\ index < cert.end
        BY <1>2, <1>3 DEF HasHash, In
    <2>4. /\ conf.revoked = {} /\ conf.subtrees = <<>> /\ conf.cosigners = all
          /\ conf.policy = [n |-> 1, trusted |-> ids]
        OBVIOUS
    <2> HIDE DEF conf, ids, valid, hash
    <2> QED BY <1>4, <2>1, <2>2, <2>3, <2>4 DEF VerifyCertificateSignature, valid, hash
<1>14. VerifyCertificateSignature(cert, conf)
           <=> index >= held.minIndex /\ Distinct(cert.signatures)
    <2>1. 1 \in 1..n /\ valid \subseteq 1..n
        BY <1>3, <1>5 DEF ValidSignatures
    <2> HIDE DEF valid, hash, conf, ids
    <2> QED BY <1>6, <1>7, <1>8, <1>11, <1>12, <1>13, <2>1
<1>15. VerifierConfig = conf
    BY DEF VerifierConfig, Cosigners, CosignersOf, all
<1>16. /\ VerifyCertificateSignature(cert, conf) \in BOOLEAN
       /\ (index >= held.minIndex /\ Distinct(cert.signatures)) \in BOOLEAN
    BY DEF VerifyCertificateSignature
<1> HIDE DEF conf
<1>17. VerifyCertificateSignature(cert, conf)
           = (index >= held.minIndex /\ Distinct(cert.signatures))
    BY <1>14, <1>16
<1> QED BY <1>4, <1>15, <1>17 DEF IssuedCertificatesKeepTheirVerdict, cert

(* The verdict on a certificate is that of the moment it was issued: no     *)
(* later entry, prune, key or landmark changes it (ca.go:229-333, verify.go:*)
(* 96-238).                                                                 *)
THEOREM VerdictsStay == Spec => []IssuedCertificatesKeepTheirVerdict
<1>1. Init => WithinMaxSize(state) /\ CertificateIsMade
    <2> SUFFICES ASSUME Init PROVE WithinMaxSize(state) /\ CertificateIsMade
        OBVIOUS
    <2>1. Len(state.entries) = 1 /\ MaxSize >= 1
        BY CliConstants DEF Init, InitialState
    <2>2. held.kind # "certificate"
        BY DEF Init, Nothing
    <2> QED BY <2>1, <2>2 DEF WithinMaxSize, CertificateIsMade, MadeWhenIssued
<1>2. StateFileLoads /\ WithinMaxSize(state) /\ CertificateIsMade /\ [Next]_vars
          => WithinMaxSize(state)' /\ CertificateIsMade'
    <2> SUFFICES ASSUME Loads(state), WithinMaxSize(state), CertificateIsMade, [Next]_vars
                 PROVE  WithinMaxSize(state)' /\ CertificateIsMade'
        BY DEF StateFileLoads
    <2>1. WithinMaxSize(state)'
        BY CommandStaysWithinMaxSize DEF WithinMaxSize
    <2>2. MadeWhenIssued(held, state')
        BY CommandLoads, ErasingKeepsMade DEF CertificateIsMade
    <2>3. MadeWhenIssued(held', state')
        <3>1. CASE UNCHANGED held
            BY <2>2, <3>1
        <3>2. ASSUME NEW start \in 0..Size, NEW end \in 0..Size, Attest(start, end)
              PROVE  MadeWhenIssued(held', state')
            <4>1. held'.kind = "hash"
                BY <3>2 DEF Attest
            <4> QED BY <4>1 DEF MadeWhenIssued
        <3>3. ASSUME NEW index \in 0..Size, Issue(index)
              PROVE  MadeWhenIssued(held', state')
            BY <3>3, IssuedIsMade
        <3>4. CASE UNCHANGED vars
            BY <3>1, <3>4 DEF vars
        <3> QED BY <3>1, <3>2, <3>3, <3>4
                DEF Next, Add, Prune, Keygen, LandmarkInit, LandmarkAllocate
    <2> QED BY <2>1, <2>3 DEF CertificateIsMade
<1>3. StateFileLoads /\ CertificateIsMade => IssuedCertificatesKeepTheirVerdict
    BY VerdictIsKept DEF StateFileLoads
<1> QED BY <1>1, <1>2, <1>3, FilesLoad, PTL DEF Spec

=============================================================================
