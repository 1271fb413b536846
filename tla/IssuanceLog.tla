---------------------------- MODULE IssuanceLog -----------------------------
(***************************************************************************)
(* One issuance log that stays in memory, as the library offers it         *)
(* (src/log.go) and cmdDemo drives it (src/cmd/mtc-demo/demo.go): entries  *)
(* are added, old ones are pruned, checkpoints are handed out and          *)
(* remembered by monitors, who later ask whether the log is still          *)
(* consistent with them.                                                   *)
(***************************************************************************)
EXTENDS Logs

CONSTANT MaxSize    \* bound: the log stops growing at this size

ASSUME SizeBound == MaxSize \in Nat \ {0}

VARIABLES
    log,            \* the IssuanceLog
    checkpoints     \* every checkpoint hash handed out so far

vars == <<log, checkpoints>>

Init == log = NewIssuanceLog /\ checkpoints = {}

AddEntry(entry) ==
    /\ LogSize(log) < MaxSize
    /\ log' = AddEntryTo(log, entry)
    /\ UNCHANGED checkpoints

Prune(newMinIndex) ==
    /\ CanPrune(log, newMinIndex)
    /\ log' = PruneTo(log, newMinIndex)
    /\ UNCHANGED checkpoints

PublishCheckpoint ==
    /\ checkpoints' = checkpoints \cup {CheckpointHash(log)}
    /\ UNCHANGED log

Next ==
    \/ \E entry \in Data : AddEntry(entry)
    \/ \E newMinIndex \in -1..(LogSize(log) + 1) : Prune(newMinIndex)
    \/ PublishCheckpoint

Spec == Init /\ [][Next]_vars

-----------------------------------------------------------------------------
(* Properties *)

(* The shape of the log: entries of the alphabet after the null entry, and  *)
(* a minimum index no larger than the log.                                  *)
TypeOK ==
    /\ log.entries \in Seq(Data \cup {NullEntry})
    /\ log.leaves \in Seq(Data \cup {NullEntry})
    /\ log.minIndex \in Nat
    /\ log.minIndex <= Len(log.entries)
    /\ log = Log(log.entries, log.leaves, log.minIndex)
    /\ checkpoints \subseteq Seq(Data \cup {NullEntry})

(* The tree commits to what is served: every available entry is the leaf at *)
(* its index, so an inclusion proof for it verifies (mirror_cmd.go:55-71),  *)
(* after any mix of additions and prunes.                                   *)
ServedEntriesAreLeaves ==
    /\ Len(log.leaves) = LogSize(log)
    /\ \A index \in 0..(LogSize(log) - 1) :
           Available(log, index) => EntryAt(log, index) = log.leaves[index + 1]

(* Whatever a monitor remembers from the past is a prefix of the current    *)
(* tree: its consistency check against the log succeeds (log.go:92-93,      *)
(* mirror_cmd.go:117-127), pruning included.                                *)
CheckpointsStayConsistent ==
    \A old \in checkpoints :
        /\ Len(old) <= Len(log.leaves)
        /\ SubtreeView(log.leaves, 0, Len(old)) = old

(* The log implements the abstract transparency log. *)
Promise == INSTANCE TransparencyLog WITH committed <- log.leaves, horizon <- log.minIndex

(* Every operation of the in-memory log either extends what it has          *)
(* committed to by one entry or withdraws served entries; none rewrites.    *)
ImplementsTransparencyLog == Promise!Spec

=============================================================================
