-------------------------------- MODULE Logs --------------------------------
(***************************************************************************)
(* The operations of IssuanceLog (src/log.go) as operators on a log value. *)
(*                                                                         *)
(* The Merkle tree is represented by its leaf level: a tree is a function  *)
(* of its leaves, and the run merkle_proofs shows that subtree hashes and  *)
(* proofs bind exactly those leaves.  A subtree hash is therefore the      *)
(* sequence of leaves below it, and a root hash all leaves.                *)
(***************************************************************************)
EXTENDS Integers, Sequences

CONSTANTS
    Data,         \* contents of tbs_cert_entry log entries
    NullEntry     \* the null_entry at index 0 (Section 5.2.1)

Log(entries, leaves, minIndex) ==
    [entries |-> entries, leaves |-> leaves, minIndex |-> minIndex]

NewIssuanceLog == Log(<<NullEntry>>, <<NullEntry>>, 0)

LogSize(log) == Len(log.entries)

(* Slip: the tree gets the new leaf in front of the others. *)
AddEntryTo_Prepends(log, entry) ==
    LET entries == Append(log.entries, entry)
    IN  Log(entries, <<entry>> \o log.leaves, log.minIndex)

(* AddEntry appends and rebuilds the tree from all entries. *)
AddEntryTo(log, entry) ==
    LET entries == Append(log.entries, entry)
    IN  Log(entries, entries, log.minIndex)

(* Slip: pruning beyond the end of the log is not refused. *)
CanPrune_Unbounded(log, newMinIndex) == newMinIndex >= log.minIndex

(* Slip: pruned entries may become available again. *)
CanPrune_Decreases(log, newMinIndex) == newMinIndex \in 0..LogSize(log)

CanPrune(log, newMinIndex) ==
    /\ newMinIndex >= log.minIndex
    /\ newMinIndex <= LogSize(log)

(* Slip: pruned entries are taken out of the tree as well. *)
PruneTo_DropsLeaves(log, newMinIndex) ==
    Log(log.entries,
        [i \in DOMAIN log.leaves |->
            IF i <= newMinIndex THEN NullEntry ELSE log.leaves[i]],
        newMinIndex)

PruneTo(log, newMinIndex) == [log EXCEPT !.minIndex = newMinIndex]

(* Entry answers for the indices that are neither pruned nor beyond the end. *)
Available(log, index) == log.minIndex <= index /\ index < LogSize(log)

EntryAt(log, index) == log.entries[index + 1]

SubtreeView(leaves, start, end) == SubSeq(leaves, start + 1, end)

CheckpointHash(log) == log.leaves

=============================================================================
