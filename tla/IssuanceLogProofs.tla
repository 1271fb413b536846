-------------------------- MODULE IssuanceLogProofs -------------------------
(***************************************************************************)
(* The in-memory log keeps its promise for every alphabet of entries and   *)
(* every size.  The invariant that carries the argument is that the leaves *)
(* of the tree are the entries, the pruned ones included: AddEntryTo       *)
(* rebuilds the tree from all of them, and PruneTo leaves both alone.      *)
(***************************************************************************)
EXTENDS IssuanceLog, SequenceTheorems, TLAPS

Contents == Data \cup {NullEntry}

LeavesAreEntries == log.leaves = log.entries

IInv == TypeOK /\ LeavesAreEntries /\ CheckpointsStayConsistent

(* Appending an entry leaves every earlier prefix as it was. *)
LEMMA PrefixOfAppend ==
    ASSUME NEW S, NEW s \in Seq(S), NEW e \in S, NEW n \in 0..Len(s)
    PROVE  SubSeq(Append(s, e), 1, n) = SubSeq(s, 1, n)
<1> DEFINE t == Append(s, e)
<1>1. t \in Seq(S) /\ Len(t) = Len(s) + 1 /\ \A i \in 1..Len(s) : t[i] = s[i]
    BY AppendProperties
<1>2. \A i \in 1..n : s[i] \in S /\ t[i] \in S
    BY <1>1, ElementOfSeq
<1>3. /\ SubSeq(s, 1, n) \in Seq(S)
      /\ Len(SubSeq(s, 1, n)) = n
      /\ \A i \in 1..n : SubSeq(s, 1, n)[i] = s[i]
    BY <1>2, SubSeqProperties
<1>4. /\ SubSeq(t, 1, n) \in Seq(S)
      /\ Len(SubSeq(t, 1, n)) = n
      /\ \A i \in 1..n : SubSeq(t, 1, n)[i] = t[i]
    BY <1>2, SubSeqProperties
<1>5. \A i \in 1..Len(SubSeq(t, 1, n)) : SubSeq(t, 1, n)[i] = SubSeq(s, 1, n)[i]
    BY <1>1, <1>3, <1>4
<1> QED BY <1>3, <1>4, <1>5, SeqEqual

LEMMA InitIInv == Init => IInv
<1> SUFFICES ASSUME Init PROVE IInv
    OBVIOUS
<1>1. log.entries = <<NullEntry>> /\ log.leaves = <<NullEntry>> /\ log.minIndex = 0
    BY DEF Init, NewIssuanceLog, Log
<1>2. checkpoints = {} BY DEF Init
<1>3. TypeOK
    BY <1>1, <1>2 DEF TypeOK, Init, NewIssuanceLog, Log
<1> QED BY <1>1, <1>2, <1>3 DEF IInv, LeavesAreEntries, CheckpointsStayConsistent

LEMMA NextIInv == IInv /\ [Next]_vars => IInv'
<1> SUFFICES ASSUME IInv, [Next]_vars PROVE IInv'
    OBVIOUS
<1> USE DEF IInv, LeavesAreEntries
<1>1. ASSUME NEW entry \in Data, AddEntry(entry) PROVE IInv'
    <2>1. /\ log'.entries = Append(log.entries, entry)
          /\ log'.leaves = Append(log.entries, entry)
          /\ log'.minIndex = log.minIndex
          /\ checkpoints' = checkpoints
        BY <1>1 DEF AddEntry, AddEntryTo, Log
    <2>2. /\ log'.entries \in Seq(Contents)
          /\ Len(log'.entries) = Len(log.entries) + 1
        BY <2>1, AppendProperties DEF TypeOK, Contents
    <2>3. Len(log.entries) \in Nat
        BY LenProperties DEF TypeOK
    <2>4. log' = Log(log'.entries, log'.leaves, log'.minIndex)
        BY <1>1 DEF AddEntry, AddEntryTo, Log
    <2>5. TypeOK'
        BY <2>1, <2>2, <2>3, <2>4 DEF TypeOK, Contents
    <2>6. ASSUME NEW old \in checkpoints'
          PROVE  /\ Len(old) <= Len(log'.leaves)
                 /\ SubtreeView(log'.leaves, 0, Len(old)) = old
        <3>1. old \in Seq(Contents) /\ Len(old) \in Nat
            BY <2>1, <2>6, LenProperties DEF TypeOK, Contents
        <3>2. Len(old) <= Len(log.entries) /\ SubSeq(log.entries, 1, Len(old)) = old
            BY <2>1, <2>6 DEF CheckpointsStayConsistent, SubtreeView
        <3>3. SubSeq(log'.leaves, 1, Len(old)) = SubSeq(log.entries, 1, Len(old))
            BY <2>1, <2>3, <3>1, <3>2, PrefixOfAppend DEF TypeOK
        <3> QED BY <2>1, <2>2, <2>3, <3>1, <3>2, <3>3 DEF SubtreeView
    <2> QED BY <2>1, <2>5, <2>6 DEF CheckpointsStayConsistent
<1>2. ASSUME NEW newMinIndex \in -1..(LogSize(log) + 1), Prune(newMinIndex) PROVE IInv'
    <2>1. /\ log'.entries = log.entries
          /\ log'.leaves = log.leaves
          /\ log'.minIndex = newMinIndex
          /\ log' = Log(log'.entries, log'.leaves, log'.minIndex)
          /\ checkpoints' = checkpoints
        BY <1>2 DEF Prune, PruneTo, TypeOK, Log
    <2>2. newMinIndex \in Nat /\ newMinIndex <= Len(log.entries)
        BY <1>2, LenProperties DEF Prune, CanPrune, LogSize, TypeOK
    <2>3. TypeOK'
        BY <2>1, <2>2 DEF TypeOK
    <2> QED BY <2>1, <2>3 DEF CheckpointsStayConsistent
<1>3. ASSUME PublishCheckpoint PROVE IInv'
    <2>1. log' = log /\ checkpoints' = checkpoints \cup {log.leaves}
        BY <1>3 DEF PublishCheckpoint, CheckpointHash
    <2>2. TypeOK'
        BY <2>1 DEF TypeOK
    <2>3. Len(log.leaves) <= Len(log.leaves)
          /\ SubtreeView(log.leaves, 0, Len(log.leaves)) = log.leaves
        BY SubSeqFull, LenProperties DEF TypeOK, SubtreeView
    <2> QED BY <2>1, <2>2, <2>3 DEF CheckpointsStayConsistent
<1>4. CASE UNCHANGED vars
    BY <1>4 DEF vars, TypeOK, CheckpointsStayConsistent
<1> QED BY <1>1, <1>2, <1>3, <1>4 DEF Next

LEMMA Invariance == Spec => []IInv
    BY InitIInv, NextIInv, PTL DEF Spec

(* Every reachable log has the shape its accessors rely on: entries, leaves *)
(* and minimum index of log.go keep their types, whatever is added, pruned  *)
(* or published.                                                            *)
THEOREM TypeCorrectness == Spec => []TypeOK
<1>1. IInv => TypeOK BY DEF IInv
<1> QED BY <1>1, Invariance, PTL

(* Every entry that log.Entry serves is the leaf at its index of the tree,  *)
(* so the proofs of mirror_cmd.go verify for it.                            *)
THEOREM ServedEntries == Spec => []ServedEntriesAreLeaves
<1>1. IInv => ServedEntriesAreLeaves
    BY DEF IInv, LeavesAreEntries, ServedEntriesAreLeaves, LogSize, EntryAt
<1> QED BY <1>1, Invariance, PTL

(* Every checkpoint ever handed out stays a prefix of the tree: the         *)
(* consistency check of any monitor succeeds for ever.                      *)
THEOREM MonitorsStayConsistent == Spec => []CheckpointsStayConsistent
<1>1. IInv => CheckpointsStayConsistent BY DEF IInv
<1> QED BY <1>1, Invariance, PTL

(* The in-memory log of log.go implements the transparency log: adding an   *)
(* entry commits to it, pruning withdraws, publishing changes nothing.      *)
THEOREM Refinement == Spec => ImplementsTransparencyLog
<1>1. Init => Promise!Init
    BY DEF Init, NewIssuanceLog, Log, Promise!Init
<1>2. IInv /\ [Next]_vars => [Promise!Next]_(Promise!vars)
    <2> SUFFICES ASSUME IInv, [Next]_vars PROVE [Promise!Next]_(Promise!vars)
        OBVIOUS
    <2>1. ASSUME NEW entry \in Data, AddEntry(entry) PROVE Promise!Commit
        BY <2>1 DEF AddEntry, AddEntryTo, Log, IInv, LeavesAreEntries, Promise!Commit
    <2>2. ASSUME NEW n \in -1..(LogSize(log) + 1), Prune(n) PROVE Promise!Withdraw
        <3>1. /\ log'.leaves = log.leaves
              /\ log'.minIndex = n
              /\ log.minIndex \in Nat
              /\ n >= log.minIndex
              /\ n <= Len(log.leaves)
            BY <2>2 DEF Prune, PruneTo, CanPrune, LogSize, IInv, TypeOK,
                        LeavesAreEntries, Log
        <3>2. Len(log.leaves) \in Nat
            BY LenProperties DEF IInv, TypeOK
        <3> QED BY <3>1, <3>2 DEF LogSize, Promise!Withdraw
    <2>3. ASSUME PublishCheckpoint PROVE UNCHANGED Promise!vars
        BY <2>3 DEF PublishCheckpoint, Promise!vars
    <2>4. CASE UNCHANGED vars
        BY <2>4 DEF vars, Promise!vars
    <2> QED BY <2>1, <2>2, <2>3, <2>4 DEF Next, Promise!Next
<1> QED BY <1>1, <1>2, Invariance, PTL DEF Spec, ImplementsTransparencyLog, Promise!Spec

=============================================================================
