--------------------------------- MODULE Cli --------------------------------
(***************************************************************************)
(* The command-line tool run one command after another: certificate        *)
(* authority, cosigners, monitor and relying party share one state file    *)
(* (src/cmd/mtc-demo/*.go).  A command that reports an error changes       *)
(* nothing and is not a step; commands that only print (info, list, find,  *)
(* mirror, verify) are what the properties evaluate in every state.        *)
(*                                                                         *)
(* Of all that the tool has handed out - certificates, cosignatures,       *)
(* checkpoints - the model keeps one item, any of them: what was handed    *)
(* out before does not influence a command, so each item's fate is seen in *)
(* the behaviours that keep it.  The wall clock is the operating system's: *)
(* each command reads some time, not necessarily a later one.              *)
(***************************************************************************)
EXTENDS DemoState, Certificates

CONSTANTS
    IdOf,         \* the trust anchor id each name parses to, as a number
    Overlong,     \* the names whose OID form is longer than 255 bytes
    LogNumber,    \* argument of "ca init"
    MaxSize,      \* bound: no entry is added at this log size
    MaxCosigners, \* bound: no key is generated beyond this number
    Times         \* what the wall clock may show when a command runs

ASSUME CliConstants ==
    /\ IdOf \in [Names -> Nat]
    /\ Overlong \subseteq Names
    /\ LogNumber \in Nat \ {0}
    /\ IndexBits \in Nat
    /\ MaxSize \in 1..(2^IndexBits - 1)
    /\ Times \subseteq Nat

VARIABLES
    state,     \* contents of the state file
    held       \* one item the tool has handed out

vars == <<state, held>>

Nothing == [kind |-> "nothing"]

Init == state = InitialState /\ held = Nothing

Size      == LogSize(RebuildLog(state))
Leaves    == RebuildLog(state).leaves

(* rebuildAllCosignerKeys and rebuildTrustedCosigners. *)
Cosigners ==
    [i \in DOMAIN state.cosigners |->
        [id |-> IdOf[state.cosigners[i].name], key |-> state.cosigners[i].key]]

(* Cosign fails under an id that marshalCosignedMessage cannot write, which *)
(* "cosigner keygen" does not notice.                                       *)
CanSign(i) == state.cosigners[i].name \notin Overlong

(* The configuration cmdVerifyCert builds: any one of the cosigners. *)
VerifierConfig ==
    [cosigners |-> Cosigners,
     policy    |-> [n |-> 1, trusted |-> {Cosigners[i].id : i \in DOMAIN Cosigners}],
     subtrees  |-> <<>>,
     revoked   |-> {}]

(* cmdCAAdd: the subject key is fresh, and the log's index is too. *)
Add(cn, now) ==
    /\ CanAdd(state)
    /\ Size < MaxSize
    /\ state' = Added(state, cn, Size, now)
    /\ UNCHANGED held

(* cmdCAPrune *)
Prune(newMinIndex) ==
    /\ CanPruneState(state, newMinIndex)
    /\ state' = Pruned(state, newMinIndex)
    /\ UNCHANGED held

(* cmdCosignerKeygen: the key is fresh. *)
Keygen(name) ==
    /\ CanKeygen(state, name)
    /\ Len(state.cosigners) < MaxCosigners
    /\ state' = WithCosigner(state, name, Len(state.cosigners) + 1)
    /\ UNCHANGED held

(* cmdLandmarkInit *)
LandmarkInit(maxActive) ==
    /\ CanInitLandmarks(state)
    /\ state' = WithLandmarks(state, maxActive)
    /\ UNCHANGED held

(* cmdLandmarkAllocate *)
LandmarkAllocate(now) ==
    /\ CanAllocateLandmark(state, now)
    /\ state' = WithLandmark(state, now)
    /\ UNCHANGED held

CanIssue(index) ==
    /\ 1 <= index /\ index < Size
    /\ index < Len(state.meta)
    /\ state.meta[index + 1] # NoMeta
    /\ state.meta[index + 1].cn # EmptyCN
    /\ state.cosigners # <<>>
    /\ \A i \in DOMAIN state.cosigners : CanSign(i)

(* cmdCAIssue: nothing is saved, the certificate is written to a file. *)
Issue(index) ==
    /\ CanIssue(index)
    /\ \E cert \in CreateCertificate(Leaves, LogNumber, index, NoExtensions,
                       state.meta[index + 1], CoveringSubtree(index, Size), Cosigners) :
           held' = [kind |-> "certificate", cert |-> cert, minIndex |-> state.minIndex]
    /\ UNCHANGED state

(* cmdCosignerSign for a subtree, with any key that signs, cmdCACheckpoint  *)
(* for [0, size): a hash that somebody outside now holds as this log's.     *)
Attest(start, end) ==
    /\ HasHash(Size, [start |-> start, end |-> end])
    /\ \/ \E i \in DOMAIN state.cosigners : CanSign(i)
       \/ start = 0 /\ end = Size
    /\ held' = [kind     |-> "hash", start |-> start, end |-> end,
                hash     |-> SubtreeView(Leaves, start, end),
                minIndex |-> state.minIndex]
    /\ UNCHANGED state

(* cmdMirrorConsistency: is this the root the log had at the old size? *)
MirrorConsistency(oldSize, oldRoot) ==
    /\ 1 <= oldSize /\ oldSize <= Size
    /\ SubtreeView(Leaves, 0, oldSize) = oldRoot

(* cmdMirrorInclusion proves the entry it finds at an index, if it finds one. *)
MirrorInclusion(index) ==
    /\ 0 <= index /\ index < Size
    /\ Available(RebuildLog(state), index)

Next ==
    \/ \E cn \in CNs, now \in Times : Add(cn, now)
    \/ \E newMinIndex \in -1..(Size + 1) : Prune(newMinIndex)
    \/ \E name \in Names : Keygen(name)
    \/ \E maxActive \in MaxActives : LandmarkInit(maxActive)
    \/ \E now \in Times : LandmarkAllocate(now)
    \/ \E index \in 0..Size : Issue(index)
    \/ \E start, end \in 0..Size : Attest(start, end)

Spec == Init /\ [][Next]_vars

-----------------------------------------------------------------------------
(* Properties *)

(* Every file a command saves loads again: rebuildLog and rebuildLandmarks  *)
(* of the next command succeed, the metadata of every entry still available *)
(* is the one it was logged with, and no landmark is ahead of the log.      *)
StateFileLoads == Loads(state)

(* "verify cert" accepts a certificate, now and after any later commands,   *)
(* exactly when its entry had not been pruned when it was issued and the    *)
(* cosigners had distinct identifiers: later entries, prunes, keys and      *)
(* landmarks neither break it nor repair it (ca.go:229-333, verify.go).     *)
IssuedCertificatesKeepTheirVerdict ==
    held.kind = "certificate" =>
        LET cert     == held.cert
            index    == SerialIndex(cert.serial)
            distinct == \A i, j \in DOMAIN cert.signatures :
                            cert.signatures[i].id = cert.signatures[j].id => i = j
        IN  VerifyCertificateSignature(cert, VerifierConfig)
                = (index >= held.minIndex /\ distinct)

(* A hash that the tool has shown or signed for a subtree is still the hash *)
(* it computes for that subtree, and a checkpoint still one the log is      *)
(* consistent with, unless an entry in it other than the null entry has     *)
(* been pruned in between: then it never is again.  Pruned or not, an entry *)
(* that can still be proved is the one that was hashed at its index         *)
(* (log.go:94, state.go:94-130, mirror_cmd.go).                             *)
HashesChangeOnlyByPruning ==
    held.kind = "hash" =>
        LET pruned == {i \in held.start..(held.end - 1) :
                          i # 0 /\ held.minIndex <= i /\ i < state.minIndex}
        IN  /\ (SubtreeView(Leaves, held.start, held.end) = held.hash) = (pruned = {})
            /\ held.start = 0 /\ held.end > 0 =>
                   MirrorConsistency(held.end, held.hash) = (pruned = {})
            /\ \A index \in held.start..(held.end - 1) :
                   MirrorInclusion(index) =>
                       EntryAt(RebuildLog(state), index) = held.hash[index - held.start + 1]

(* No command rewrites the file's history: the log does not shrink, an      *)
(* entry keeps its contents until a prune beyond it erases them, erased     *)
(* contents do not come back, and metadata, keys and landmarks are only     *)
(* added to.                                                                *)
HistoryIsOnlyErased ==
    [][OnlyErases(state, state')]_state

(* Whatever certificate "ca issue" can make it can make after any other     *)
(* command, a prune of the entry included: only a key with an id too long   *)
(* to be signed under, which no command removes, stops it (ca.go:246-277,   *)
(* cosigner_cmd.go:50-61).                                                  *)
IssuableStaysIssuable ==
    [][ \A index \in 1..(Size - 1) :
            CanIssue(index) =>
                \/ CanIssue(index)'
                \/ \E name \in Overlong : Keygen(name) ]_state

-----------------------------------------------------------------------------
(* Claims of the documentation that the tool does not keep *)

(* "The tree structure is preserved - only entry data is dropped"           *)
(* (README.md:352): pruning changes no hash of the log.                     *)
PruningKeepsHashes ==
    held.kind = "hash" => SubtreeView(Leaves, held.start, held.end) = held.hash

(* "Cosigner IDs must be unique and ordered" (cert.go:39): the proof in     *)
(* every certificate the tool issues can be parsed.                         *)
IssuedProofsParse == held.kind = "certificate" => Parses(held.cert)

=============================================================================
