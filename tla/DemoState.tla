----------------------------- MODULE DemoState ------------------------------
(***************************************************************************)
(* The state file of the command-line tool and what each command makes of  *)
(* it (src/cmd/mtc-demo/state.go and the cmd* functions).  A command loads *)
(* the whole file, rebuilds the log, the landmarks and the keys from it,   *)
(* computes, and saves the whole file: each is an operator from the loaded *)
(* state to the state it saves, with a Can... guard for its early returns. *)
(*                                                                         *)
(* An entry (and its EntryMeta) is a record of subject name, subject key   *)
(* and notAfter; keys are fresh values chosen by the caller.  Hex encoding *)
(* is injective and maps the empty entry to the empty string, which is     *)
(* also how a pruned entry is written: both are Blank.                     *)
(***************************************************************************)
EXTENDS Logs, Landmarks, SequencesExt

CONSTANTS
    Blank,              \* the empty string in "entries": a pruned entry
    NoMeta,             \* EntryMeta{}
    NoLandmarks,        \* "landmarks" omitted
    EmptyCN,            \* the empty common name
    CertLifetime,       \* ca.go:151, 90 days
    LandmarkLifetime,   \* defaultMaxCertLifetime, 7 days
    CNs,                \* subject names, EmptyCN possibly among them
    Names,              \* cosigner ids as typed, in dotted decimal
    MaxActives          \* arguments of "landmark init"

EntryType == [cn : CNs, key : Nat, notAfter : Nat]

LandmarkType == [maxActive : MaxActives, landmarks : Seq(Nat), expiries : Seq(Nat)]

StateType ==
    [entries   : Seq(EntryType \union {NullEntry, Blank}),
     minIndex  : Nat,
     meta      : Seq(EntryType \union {NoMeta}),
     cosigners : Seq([name : Names, key : Nat]),
     landmarks : LandmarkType \union {NoLandmarks}]

ASSUME DemoConstants ==
    /\ CertLifetime \in Nat
    /\ LandmarkLifetime \in Nat
    /\ NullEntry # Blank
    /\ Blank \notin EntryType
    /\ NoLandmarks \notin LandmarkType

Entry(cn, key, time) == [cn |-> cn, key |-> key, notAfter |-> time + CertLifetime]

-----------------------------------------------------------------------------
(* Rebuilding from the file, and back *)

(* rebuildLog fails when more is pruned than there are entries. *)
LogRebuilds(s) == s.minIndex <= Len(s.entries)

(* Slip: the first stored string is used, which pruning has emptied. *)
RebuildLog_StoredNull(s) == Log(s.entries, s.entries, s.minIndex)

(* The null entry is made anew; every other string is decoded and added,    *)
(* the empty string of a pruned entry too; then the log is pruned again.    *)
RebuildLog(s) ==
    LET entries == <<NullEntry>> \o Tail(s.entries)
    IN  Log(entries, entries, s.minIndex)

SyncEntries(s, log) ==
    [s EXCEPT !.entries  = [i \in 1..LogSize(log) |->
                                IF Available(log, i - 1) THEN EntryAt(log, i - 1)
                                ELSE Blank],
              !.minIndex = log.minIndex]

(* The first landmark is made anew, and a missing expiry reads as 0. *)
RebuildLandmarks(s) ==
    LET sizes    == s.landmarks.landmarks
        expiries == s.landmarks.expiries
    IN  [maxActive |-> s.landmarks.maxActive,
         landmarks |-> [i \in DOMAIN sizes |-> IF i = 1 THEN 0 ELSE sizes[i]],
         expiries  |-> [i \in DOMAIN sizes |->
                            IF i = 1 \/ i > Len(expiries) THEN 0 ELSE expiries[i]]]

(* rebuildLandmarks allocates every stored landmark again. *)
LandmarksRebuild(s) ==
    LET ls == RebuildLandmarks(s)
    IN  /\ s.landmarks # NoLandmarks
        /\ \A num \in 1..LastLandmark(ls) :
               /\ TreeSize(ls, num) > TreeSize(ls, num - 1)
               /\ Expiry(ls, num) >= Expiry(ls, num - 1)

-----------------------------------------------------------------------------
(* Commands *)

InitialState ==
    [entries |-> <<NullEntry>>, minIndex |-> 0, meta |-> <<>>,
     cosigners |-> <<>>, landmarks |-> NoLandmarks]

(* Slip: the metadata is appended without padding. *)
Added_NoPadding(s, cn, key, time) ==
    LET entry == Entry(cn, key, time)
    IN  [SyncEntries(s, AddEntryTo(RebuildLog(s), entry))
             EXCEPT !.meta = Append(s.meta, entry)]

CanAdd(s) == LogRebuilds(s)

(* cmdCAAdd: the metadata is padded to the log's size, then set at idx. *)
Added(s, cn, key, time) ==
    LET entry == Entry(cn, key, time)
        log   == AddEntryTo(RebuildLog(s), entry)
        size  == LogSize(log)
    IN  [SyncEntries(s, log)
             EXCEPT !.meta = [i \in 1..size \union DOMAIN s.meta |->
                                  CASE i = size -> entry
                                    [] i # size /\ i <= Len(s.meta) -> s.meta[i]
                                    [] OTHER -> NoMeta]]

CanPruneState(s, newMinIndex) == CanPrune(RebuildLog(s), newMinIndex)

(* Slip: the metadata goes with the entries. *)
Pruned_ForgetsMeta(s, newMinIndex) ==
    [SyncEntries(s, PruneTo(RebuildLog(s), newMinIndex))
         EXCEPT !.meta = [i \in DOMAIN s.meta |->
                              IF i <= newMinIndex THEN NoMeta ELSE s.meta[i]]]

Pruned(s, newMinIndex) == SyncEntries(s, PruneTo(RebuildLog(s), newMinIndex))

(* cmdCosignerKeygen compares the dotted strings, not the identifiers. *)
CanKeygen(s, name) ==
    \A i \in 1..Len(s.cosigners) : s.cosigners[i].name # name

WithCosigner(s, name, key) ==
    [s EXCEPT !.cosigners = Append(@, [name |-> name, key |-> key])]

CanInitLandmarks(s) == s.landmarks = NoLandmarks

WithLandmarks(s, maxActive) ==
    [s EXCEPT !.landmarks = NewLandmarkSequence(maxActive)]

CanAllocateLandmark(s, time) ==
    /\ LogRebuilds(s)
    /\ LandmarksRebuild(s)
    /\ CanAllocate(RebuildLandmarks(s), LogSize(RebuildLog(s)), time + LandmarkLifetime)

WithLandmark(s, time) ==
    [s EXCEPT !.landmarks =
         AllocateLandmark(@, LogSize(RebuildLog(s)), time + LandmarkLifetime)]

-----------------------------------------------------------------------------
(* What every state file the tool writes must satisfy for the next command  *)
(* to load it (rebuildLog, rebuildLandmarks, cmdCAIssue).                   *)

WellFormed(s) ==
    /\ Len(s.entries) >= 1
    /\ s.minIndex \in 0..Len(s.entries)
    /\ \A i \in 1..Len(s.entries) : i <= s.minIndex <=> s.entries[i] = Blank
    /\ \/ Len(s.meta) = Len(s.entries)
       \/ s.meta = <<>> /\ Len(s.entries) = 1
    /\ \A i \in 2..Len(s.entries) : i > s.minIndex => s.meta[i] = s.entries[i]
    /\ \A i, j \in 1..Len(s.cosigners) :
           s.cosigners[i].name = s.cosigners[j].name => i = j
    /\ s.landmarks # NoLandmarks =>
        /\ LandmarksRebuild(s)
        /\ Len(s.landmarks.landmarks) >= 1
        /\ Len(s.landmarks.expiries) = Len(s.landmarks.landmarks)
        /\ s.landmarks.landmarks[1] = 0 /\ s.landmarks.expiries[1] = 0
        /\ s.landmarks.landmarks[Len(s.landmarks.landmarks)] <= Len(s.entries)

Loads(s) == s \in StateType /\ WellFormed(s)

(* What a command may do to the history in the file: the log does not       *)
(* shrink, an entry keeps its contents until a prune beyond it erases them, *)
(* erased contents do not come back; metadata, keys and landmarks are only  *)
(* added to.                                                                *)
OnlyErases(s, t) ==
    /\ Len(t.entries) >= Len(s.entries)
    /\ t.minIndex >= s.minIndex
    /\ \A i \in 2..Len(s.entries) :
           t.entries[i] = IF i <= t.minIndex THEN Blank ELSE s.entries[i]
    /\ Len(t.meta) >= Len(s.meta)
    /\ \A i \in 1..Len(s.meta) : t.meta[i] = s.meta[i]
    /\ IsPrefix(s.cosigners, t.cosigners)
    /\ s.landmarks # NoLandmarks =>
           /\ IsPrefix(s.landmarks.landmarks, t.landmarks.landmarks)
           /\ IsPrefix(s.landmarks.expiries, t.landmarks.expiries)

=============================================================================
