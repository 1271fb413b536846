# A verification project for mtc-demo

`src/` is a Go library and command-line tool for Merkle Tree Certificates: a
certificate authority appends to-be-signed certificates to an issuance log,
hands out subtree hashes that cosigners sign, and issues certificates whose
"signature" is an inclusion proof in a signed subtree. Monitors check that the
log stays consistent, and relying parties may know agreed *landmark* subtrees in
advance instead of trusting signatures.

This directory holds TLA+ models of that code, TLC configurations that check
them on small instances, and TLAPS proofs for all values of the constants.
`PROJECT.json` maps every definition to the source lines it stands for, lists
the hazards the properties are aimed at, and one mutant per property: a slip in
a definition (kept beside it, named `Definition_Slip`) that makes the property
fail.

## 1. The system

### Components, state and operations

| part | source | state | operations |
|---|---|---|---|
| subtree arithmetic | `subtree.go` | none | validity, `BIT_CEIL`, `FindSubtrees` |
| Merkle tree | `tree.go`, `hash.go` | levels of hashes | build, subtree hash, inclusion and consistency proofs |
| proof verification | `proof.go` | none | evaluate and verify both kinds of proof |
| issuance log | `log.go` | entries, tree, minimum index | new, add, prune, entry, hashes, proofs |
| landmark sequence | `landmark.go` | sizes, expiries, maximum | allocate, active, subtrees, find |
| cosigning | `cosign.go` | keys | cosign, verify |
| certificates | `cert.go` | none | create, marshal and unmarshal the proof |
| verification | `verify.go` | none (configuration) | revocation, subtree, trusted subtree or cosigner policy |
| entries, ids | `entry.go`, `trustanchorid.go` | none | encodings |
| the tool | `cmd/mtc-demo/*.go` | one JSON state file, subject key files, certificates | `ca init/add/checkpoint/issue/prune`, `cosigner keygen/sign`, `landmark init/allocate/find`, `mirror`, `verify` |

### How the parts interact

Everything in the library is called directly and synchronously; there are no
goroutines. A `LandmarkSequence` holds sizes of an `IssuanceLog` it has no
pointer to; a certificate holds a proof made from one state of the log and is
verified against cosigners, subtrees and revocations of another. The tool has no
server: each invocation loads the state file, rebuilds log, landmarks and keys
from it, computes, and writes the whole file back. So the parties of the protocol
communicate through one shared file, and concurrency is that of several
processes of the tool.

### What is hard

* *The file.* No lock, truncate-then-write, a discarded load error, and a second
  file for the subject key: overlapping and killed commands.
* *Pruning.* In memory it only hides entries. Through the file it replaces their
  contents, and with them the hashes of the rebuilt tree.
* *Evidence that outlives its making.* Proofs, checkpoints, certificates and
  landmark lookups are used after the log, the keys or the landmarks changed.
* *Boundaries.* The ragged right edge of the tree, the first and last index,
  pruning everything, word overflow in `BIT_CEIL`, equal expiries.
* *The clock.* Expiries come from a wall clock that may be set back.
* *Two sources of trust.* A relying party takes a subtree from a landmark or from
  cosigners, of whom some may be faulty, and the certificate it is shown may have
  been given another serial number, other contents or other extensions.
* *Encodings.* Lengths that do not fit, repeated or unordered parts, ids that
  differ as typed but not as parsed, fields cut off without an error.

The complete list, each at its line, is under "hazards" in `PROJECT.json`.

### What makes each part correct

* Merkle tree: a subtree hash is the recursive definition's, whatever the shape
  of the tree; a proof made for an index is accepted for it at any later time
  and for no other; refused requests are exactly the ones out of range.
* Issuance log: old checkpoints remain prefixes; what is served is what the tree
  commits to.
* Landmarks: strictly growing sizes, monotone expiries, the active ones the
  newest without a gap; the lookup answers exactly for the covered entries and
  never changes its answer.
* Tool, one command at a time: every file saved loads again; history is only
  erased; certificates and hashes keep their meaning until a prune touches them.
* Tool, several processes: a file that parses loads, unless a kill has mixed the
  texts of two commands, for which a save must also have replaced contents its
  command had not read; overlapping commands amount to commands in some order, and
  reported entries stay, unless there was such a save.
* Relying party: accepts nothing that is not logged as long as fewer trusted
  cosigners are faulty than its policy asks for, and everything genuine that its
  policy, landmarks and revocations admit.
* Encodings: what is written is read back exactly as it was if it is well formed,
  and what can be read can be written in one way only. Of a proof that is not well
  formed nothing is read, with two exceptions, since two of its writers cut numbers
  off without an error: offsets, and the length of the extensions (section 3).

## 2. The modules

```
Subtrees <- MerkleTree <- ProofExchange                      run merkle_proofs
        DemoState, Certificates <- LibraryProofs (lemmas)
        ProofExchange, LibraryProofs <- ProofExchangeProofs
Logs <- IssuanceLog <- MCIssuanceLog                         run issuance_log
        IssuanceLog => TransparencyLog (refinement)
        IssuanceLog <- IssuanceLogProofs
Subtrees <- Landmarks <- LandmarkSequence                    run landmarks
        LandmarkSequence, LibraryProofs <- LandmarkProofs
Logs, Subtrees <- Certificates
Certificates, Landmarks <- RelyingParty <- MCRelyingParty    run relying_party
        RelyingParty, LibraryProofs <- RelyingPartyProofs
TrustAnchorIDs <- LogEntries <- MTCProofs
        MTCProofs <- WireFormat <- MCWireFormat              run wire_format and one claim
        WireFormat, LibraryProofs <- WireFormatProofs
Logs, Landmarks <- DemoState
DemoState, Certificates <- Cli <- MCCli                      run cli and two claims
        Cli, LibraryProofs <- CliProofs
DemoState <- StateFile <- MCStateFile                        run state_file and two claims
        StateFile, LibraryProofs <- StateFileProofs
```

**Subtrees, MerkleTree, ProofExchange.** Algorithms as operators, on words of `W`
bits where the Go code's width matters (`IsValidSubtreeU64`). A hash is a
symbolic term (leaf of an entry, node of two hashes): SHA-256 is taken to be
collision-free, and nothing else about it is used. `ProofExchange` is the state
machine: the log grows, is asked for *any* proof or hash, good requests and bad
ones, and the answer is checked now and after more growth. The loops of
`tree.go` and `proof.go` are recursive functions from the number of steps done, or
from the size that is left, to the loop's variables, so that proofs can speak of
what holds before each step. Its reference
definitions (`MTH`, `BIT_CEIL`, `IsSubtree`) are those of the specification
texts the code's comments cite, over unbounded numbers.

**Logs, IssuanceLog, TransparencyLog.** From here on a tree is represented by its
leaves, which `merkle_proofs` justifies: hashes and proofs bind exactly those.
`IssuanceLog` is the in-memory log of the library; `checkpoints` remembers every
root hash handed out. `TransparencyLog` is what a log promises: a commitment
that is only extended and a horizon that only rises.

**Landmarks, LandmarkSequence.** The operations of `landmark.go`, and a sequence
over a growing log with a clock that ticks and may be set back. `spaced` records
whether the operator kept the recommended spacing, for
`RecommendedMaximumSuffices`.

**Certificates.** Cosigning, `CreateCertificate`, what `UnmarshalMTCProof`
rejects, and `VerifyCertificateSignature` with its revocation, trusted subtrees
and cosigner policy. A signature is the key and the signed statement: it
verifies for that key and that statement only. `sort.Slice` is not stable, so
sorting signatures returns the set of orders it may leave.

**RelyingParty.** The library on both sides at once: an authority with several
logs and landmark sequences, cosigners of which some are faulty, and a relying
party with a `VerifierConfig`. Its actions are `AddEntry`, `AllocateLandmark`,
the three ways a certificate comes about (cosigned, relative to a landmark and
without signatures, or for an entry that is not logged, which faulty cosigners
sign), handing out the subtrees of the active landmarks, and revoking a range. In
every state the certificate held is verified as it is and with every other serial
number and content (`Presented`). `SetToSeq` hands trusted subtrees out in some
order; the properties do not depend on which.

**TrustAnchorIDs, LogEntries, MTCProofs, WireFormat.** The encodings, with the
number of bits of a byte and of a word, the size of a hash and of an offset as
constants: at two bits every length field overflows after 3 or 15 bytes, so the
limits the Go code has at 255, 65535 and 2^48 are all inside the instance. What may
fail returns a set, of the result or of nothing. A reader's loop is a recursive
function from the number of turns to the states it may be in (`WhileRest`, with one
turn of each loop as a function of its own: `PrintNumber`, `CheckExtension`,
`ReadSignature`), so that proofs can speak of it. `WireFormat` holds one item - an
id read byte by byte, a proof put together by a caller, a message that may be
changed, cut or extended on its way, a certificate - and the properties write it
and read it. A TBSCertificate is the sequence of its DER elements.

**DemoState.** The state file, `rebuildLog`, `syncEntries`, `rebuildLandmarks`,
and each command that saves as a function from the state it loads to the state
it saves. An entry and its `EntryMeta` are one record of subject name, key and
notAfter. `Blank` is the empty string that stands for a pruned entry.
`WellFormed`/`Loads` is what the next command needs; `OnlyErases` relates a state
to what a command may make of it.

**Cli.** One action per command, in any order, each taking some clock value.
Of the items handed out one is kept (`held`), any of them: none influences a
command, so each item's fate is seen in the behaviours that keep it. Commands
that only print are evaluated by the properties; `mirror consistency` and
`mirror inclusion` are operators of their own, applied to the hash that is held.
A cosigner may have a name that parses to an id too long to be signed under.

**StateFile.** The same commands, by any number of processes, step by step: read
and compute, truncate, write, and for `ca add` the key file. A process may be
killed between any two steps and within the write. Reading is one step, and so is a
write that is not killed, so that a read finds the file as it was left: `Empty` after
truncation, or, when a write went over another process's text, possibly `Garbled`. A
write that is killed (`Interrupted`) leaves nothing of its text, all of it, or the
beginning; where another process has written in the meantime, that beginning stands
before the end of the other text, and the mixture may parse, for instance as the
entries of one command with the metadata of the other. Which mixtures parse depends on
where the fields of the two texts lie. They are a parameter (`Mixtures`): the proofs
assume nothing about it, and `MCStateFile` gives TLC those of two texts whose fields
lie alike up to the place where the new one breaks off. `stale` is a history variable: whether a
save has replaced contents it had not read. `Contents` is what the file holds or,
between the two steps of a save, is to hold: `CommandsAreSerial` says that, as long
as no save was stale, it changes only as one command run on its own would change it
(`OneCommand`), or by a kill. That is the condition under which `Cli`, which runs one
command at a time, speaks for processes that overlap. Some key files may be there from a log
whose state file was deleted (`Leftover`): they are not written over.

## 3. The runs

| run | question | bounds, and why they are enough |
|---|---|---|
| `merkle_proofs` | are hashes and proofs right, now and later, and bound to their index, subtree and root? | up to 9 entries, so all shapes of the right edge up to three levels and a straddled power of two at 2, 4 and 8; every interval of 5-bit words for the arithmetic, the overflow included |
| `issuance_log` | do old checkpoints stay consistent, and does the log implement `TransparencyLog`? | 5 entries, 2 contents: two different contents are what it takes to see a rewrite |
| `landmarks` | order, lookup, stability, active set, recommended maximum | log size 7, time 0 to 4, lifetime 3, spacing 2: several landmarks active at once, some expired, the clock set back |
| `relying_party` | is all that is accepted logged, and all that is genuine accepted? | 2 logs of 3 and 2 entries with landmarks, 2 contents, 3 cosigners (1 faulty, 1 with a second key), policies "2 of 3" and none, 1 revoked range up to the last index a serial number can have: landmark subtrees of both logs, also with the same interval, are trusted and withdrawn; with two required and one faulty cosigner, a repeated signature would be enough to break the claim |
| `wire_format` | what is read back of what is written, and is it written in one way only? | 2-bit bytes, ids of up to 6 bytes, 3 extensions and signatures with data up to the limits and one beyond, offsets that fit and one that does not, extensions too long whose end the reader takes for the rest of a proof, one damaged byte |
| `cli` | does the file keep loading, is history only erased, do certificates and hashes keep their meaning, does issuing stay possible? | 4 entries, 2 keys with 4 names (2 of them one id, 1 too long), 1 landmark sequence: a certificate in either covering subtree, pruned before and after it is issued |
| `state_file` | what survives overlapping and killed commands, and when do they amount to commands in some order? | 2 processes, 3 entries, 2 subject keys, 1 kill, 1 key file left over: enough for one process to be killed inside a write over what the other has written, in the entries, the metadata or the landmarks |
| `prune_rewrites`, `duplicate_cosigner`, `callback_extensions`, `lost_update`, `reinit` | a claim of a comment or of the README that the code does not keep | as small as the counterexample |

The run `cli` uses symmetry: the two spellings of one id are interchangeable
(`Interchangeable`), since nothing compares them with another and both parse to
the same id; it checks no liveness. Deadlock checking is on in every run but
`wire_format` and its claim, whose item comes to rest when it has been read:
elsewhere a log at its bound can still be pruned, published, asked, or certified,
and a process that can do nothing else can still begin a command.

*Fairness.* Only `StateFile` states any: weak fairness of each process's own next
step (`Continue`). A process that is not killed runs on; the steps wait for
nobody, there being no lock. Nothing says that a process ever begins a command.
The liveness property `SavesComplete` says a truncated file is not left
empty unless a process was killed.

### Disagreements found

Each has a violation run and an entry under "findings".

* `prune_rewrites`: README.md:352 says pruning preserves the tree. `syncEntries`
  writes "" for pruned entries and the next `rebuildLog` adds "" as their leaf,
  so later hashes over them differ. `HashesChangeOnlyByPruning` (in `cli`) says
  exactly when; `IssuedCertificatesKeepTheirVerdict` what it means for
  certificates.
* `duplicate_cosigner`: `cosigner keygen` compares typed strings, the wire format
  wants distinct parsed ids (cert.go:39).
* `callback_extensions`: the comment of `CreateCertificate` (cert.go:196) lets its
  callback write extensions; the key is added after the callback, so a certificate
  made that way has them in the wrong place and no log entry can be rebuilt from it.
* `lost_update`: overlapping commands lose reported entries, against "append-only"
  (README.md:36).
* `reinit`: `ca init` takes an unparsable file for none, against ca.go:60.

Five more are seen in the models without a run of their own; no sentence of the
repository denies the first two.

When two overlapping commands have both truncated the file and one is killed inside its
write after the other has finished (state.go:79), the file may hold the beginning of one
text and the end of the other and still parse: the entries of one `ca add`, for instance,
with the metadata of the other. `FilesThatParseLoad` excepts it, by its second disjunct:
both a stale save and a kill. Without that disjunct TLC refutes it within ten states.

A proof with an offset that needs more than 48 bits is written without an error and
read as one for the subtree that the low 48 bits name (cert.go:25-31); extensions of
65536 bytes or more are written behind a length without its high bits
(entry.go:49-52), and the reader may take their end for offsets, inclusion proof and
signatures. `ProofsSurviveExactlyWhenWellFormed` states what is read in the first case,
and that what is read in the second is not what was sent.

The other three: `landmark allocate`
gives landmarks 7 days although entries are valid for 90, against README.md:314-315;
what follows is `LandmarkCertificatesFollowTheirLandmark`: a certificate without
signatures is rejected once its landmark is no longer handed out. Nothing compares
the number of active landmarks with `MaxActiveLandmarks` (landmark.go:17-18);
`RecommendedMaximumSuffices` states the spacing under which it holds. README.md:279
calls revoked ranges index ranges and shows `{Start: 0, End: 100}`: ranges are of
serial numbers (`RevocationIsExact`), and no log has the number 0.

## 4. The proofs

TLAPS checks these for all values of the constants that satisfy the named
assumptions (`WordWidth`, `LogFitsWord`, `SizeBound`, `LandmarkConstants`,
`DemoConstants`, `CliConstants`, `StateFileConstants`, `RelyingPartyConstants`,
`ByteWidth`, `ProofConstants`, `WireFormatConstants`). They say that numbers are
numbers, that special values (`Blank`, `NoLandmarks`, `Absent`, ...) are not contents,
that a byte has two bits or more and no more than a word, and that what a caller puts
into a proof has the type Go gives it. Those that relate numbers to the word hold for the
code: a log's size fits a word (`LogFitsWord`; `MaxSize \in Words` of landmarks,
which start with at least the null entry), and so does every index a serial number
can carry (`2^IndexBits \in Words`: 48 bits of 64).

**LibraryProofs.** What several components rest on: powers of two and bit lengths
on words; `IsValidSubtreeU64` is the definition of the specification text
(`ValidityExact`); `FindSubtrees` returns two adjacent subtrees that cover the
interval tightly (`CoverExact`); the landmark lookup finds what the landmarks cover
and nothing else; a view of the leaves is unchanged when leaves are appended;
strictly ascending ids are distinct; and each command of the tool saves a state that
loads, if it loaded one, and that `OnlyErases`, which two lemmas about rebuilding
(`Rebuilt`) and writing back (`Synced`) carry. Induction over a number is done by taking the
smallest failure (`SmallestElement`), since the library's induction theorems take
an operator and cannot be used here.

**ProofExchangeProofs.** For every word width, every log and every request.

* `HashesAreMTH`, `BadRequestsAreRefused`. A level of the tree is the sequence of
  the hashes of the complete blocks of that size (`LevelsAreHashes`, `TreeNodes`).
  Cut at the end of an interval, the blocks of one level are joined in pairs to
  those of the next, an odd last one going up as it is (`BlocksJoin`); so the climb
  of `SubtreeHash` holds, at each level, the hash of the last block
  (`ClimbIsLastBlock`), and at the top the interval's.
* `InclusionStaysValid`, `InclusionBinds`. The log's path is, level by level, the
  block beside the one that holds the index, if there is one (`PathElements`). A
  step of the verifier goes to the level above the next one that has a sibling
  (`NextSibling`), which is what the shift by trailing zeros amounts to. Read
  forwards, each step keeps the hash of the block that holds the index
  (`FoldFollows`). Read backwards from the root, `HashNode` can be undone, so any
  proof that is accepted has that hash in every step, and the entry's in the first
  (`FoldBinds`): a proof from somewhere else cannot help.
* `ConsistencyBinding`. Steps 3 and 4 of the verification find the level at which
  the subtree is a node of the tree, or else its last part is (`CommonNode`). From
  there the second hash follows the right edge of the checkpoint, the first that of
  the subtree (`EdgeStep`: the first is joined only with what lies in the subtree).
  Going back from the root, every element of the proof is a block of the log; going
  forward again, the first hash can only be the subtree's (`ConsistencyBinds`).
* `ConsistencyIsAccepted`. `subtreeSubproof` descends from the root; it is followed
  upwards, along the nodes that hold the subtree's last entry. From one level to the
  next its list grows by the node's sibling, or stays when there is none
  (`SubproofGrows`, `SubproofStays`). It begins where the subtree is a node or its
  last part is (`SubproofStarts`), which is where `SkipToStart` takes the verifier,
  and it does not stop early at a node further up: from there on, nodes that are
  joined are not the subtree (`JoinedNodesGoOn`). The verifier's loop uses up that
  list in that order, and its two hashes end as the subtree's and the root
  (`ConsistencyFollows`, `SubproofClimbs`).
* `ValidityOnWords`, `TightCovers`: from `ValidityExact` and `CoverExact`.

The inductive invariant `IInv` has three parts: the tree is that of the entries and
entry i is i (`LogInv`), and evidence of each kind is what the log would answer for
the entries of its time (`InclusionInv`, stated by reference definitions;
`ConsistencyInv`, that it is refused exactly if the request is, and verifies
otherwise). `AddEntry` keeps it because the hash of an interval does not
depend on entries after it (`HashOfGrown`).

**IssuanceLogProofs.** Type correctness, `ServedEntries`,
`MonitorsStayConsistent` and `Refinement` of `TransparencyLog`. The inductive
invariant joins the three state properties: that a checkpoint stays a prefix
needs that leaves and entries are equal, since `AddEntry` rebuilds the tree from
the entries.

**LandmarkProofs.** Type correctness, `Order`, `NewestActive`, `StableAnswers`.
`AllocateLandmark` compares with the last landmark only; `LandmarksAreOrdered`,
stated over all pairs, is inductive because the last is the largest. Stability
of the lookup follows: a new landmark is above all the old ones, so the lowest
one above an index stays (`MinOfLarger`), and its subtrees are computed from two
unchanged positions. `EntriesAreFound` (the lookup answers for exactly the covered
entries) and `DistinctSubtrees` rest on the cover being exact: two landmarks' new
entries do not overlap, and each of their two subtrees ends above the landmark
before. `MaximumSuffices` counts: among `MaxActive` + 1 landmarks, allocated
`Spacing` apart (`AllocationIsSpaced`, of which the invariant keeps the pairs of
neighbours), the first has expired when the last is allocated, at any later clock
that was not set back.

**CliProofs.** `Loads` is inductive as it stands. `FilesLoad` and `HistoryErased`
put the lemmas about the commands together for any sequence of them.
`IssuableStays` says no command takes away the possibility to issue, but the one
that generates a key with an id too long: since `Loads` keeps metadata and log
aligned, a command leaves an entry's metadata where it was.
`HashesChangeByPruning` and `VerdictsStay` follow the item held through the commands.
A hash agrees with the leaves the file has now, but where an entry was pruned since:
there it has an entry and the log has none (`HashIsHistory`), and `Blank` is no entry,
so that the two differ exactly then (`HistoryTells`). A certificate was made from
leaves and cosigners of one moment; the cosigners of that moment stay the first ones
in the file (`FirstCosignersStay`), and no signature is refused unless two of them
share an id, in which case `UnmarshalMTCProof` refuses the whole certificate.

**RelyingPartyProofs.** `AcceptedEntriesAreLogged`, for any logs, contents, keys,
policies, landmarks and certificates. The invariant `IInv` says that every trusted
subtree, and every statement in the signatures held that is not a faulty
cosigner's, carries the hash of a log's subtree *as the log is now*; it is
inductive because leaves are only appended (`GrowthKeepsGenuine`). Acceptance
then gives such a hash: from a trusted subtree, or because the ids that
`UnmarshalMTCProof` lets through ascend strictly, so that more of them are valid
than there are faulty cosigners (`OneIsHonest`); and an inclusion proof that
evaluates to the hash of a log's subtree has the log's entry at its index
(`GenuineIsLogged`). That trusted subtrees form a sequence at all needs their
number to be finite, for which `IInv` bounds the landmarks. `IInv` was checked
with TLC on the instance of `relying_party` before it was proved.
`ExactRevocation` rests on `RangesStayInTheirLog`: a range of indices up to one
beyond the last, as serial numbers, does not reach into another log.

The converse, `GenuineAreAccepted`, and `LandmarkCertificatesFollow` need a second
invariant, `LandmarkInv`: the certificate held was made from leaves its log still
has, in a subtree that `FindSubtrees` returned for its landmark or for its log;
landmark sizes ascend; and the trusted subtrees are exactly those of the landmarks
handed out. `GenuineVerdict` then computes the verdict: the inclusion proof
evaluates to the log's hash, and what remains is the policy, where the valid
signatures correspond one to one to the cosigners that signed (`SignersAreCounted`),
or the trusted subtrees, of which one matches exactly if the certificate's landmark
is among those handed out (`KnownMatches`, with `DifferentLandmarkSubtrees`: no
other landmark has that subtree).

**StateFileProofs.** `ParsedFilesLoad`, `EntriesPersist`, `KeysMatch` and
`SerialCommands`, for any number of processes and kills and any `Mixtures`. None is
inductive: what a file will hold is decided at the read and written later. `IInv` is
`Basics /\ (Mixed \/ Consistent)`: once a save was stale and a process was killed
(`Mixed`), only what does not depend on the file's contents is left. Until then
(`Consistent`) it follows the contents through the command: while loaded, they are
erased-only successors of what was read; once truncated by a save that was not stale,
they keep all reported entries and keys, and no other process is between truncating and
writing. The last is the heart of it: whoever truncates next finds the file
empty, and no command has read an empty file (`ca init` assumes it absent), so
that save is stale. For the same reason a kill inside a write mixes no texts as long as
no save was stale: the file it goes over is empty (`CrashStep`). `IInv` was checked with
TLC on the instance of `state_file` before it was proved. `WholeSaves`, one of its parts,
says that a file which is not empty and does not parse was left by a kill or by a stale
save.

`SerialCommands` proves `CommandsAreSerial`: as long as no save is stale, the
contents change only as one command changes them, or by a kill. A command takes
effect when it truncates the file (`TruncateIsSerial`): the file is still what it
has read, and what it saves was computed from that (`SerialInv`). Until it writes it
is alone, so writing gives the file what was announced (`WriteIsSerial`), and the
steps of others leave the contents as they are (`OthersLeaveContents`).

**WireFormatProofs.** The five invariants of `WireFormat`, for bytes and words of
any width and any ids, proofs, messages and certificates, and `IdsAreTheirNumbers`:
`String` and `ParseTrustAnchorID` undo each other.

* *Loops.* The readers are loops over bytes, as recursive functions of the number of
  turns. The library's induction theorems cannot be used here; that such a function
  has the values its definition says, and what holds before each turn, is shown
  from the smallest turn at which it would fail (`Recursion`, `Stepwise`). `LoopRuns`,
  `LoopEnds` and `LoopFollows` do it once for the loop that goes on until no byte is
  left (`WhileRest`): what it ends with satisfies what every turn keeps, and a
  sequence of states, each a turn of the one before, is the one it takes.
* *Numbers.* A base-128 number is read back from its groups (`Base128Read`), without
  losing bits in a shift, and what is read is written with the same groups, since a
  first group that is empty is refused (`Base128Reread`). Likewise for numbers of a
  fixed width (`NumberWritten`, `NumberRewritten`) and data behind its length.
* *Parts and messages.* For extensions, signatures and messages one lemma says that
  what is written is read as it was, exactly under the conditions of
  `WellFormedProof` (`ExtensionsAscend`, `SignaturesRead`, `MessagesAreRead`), one
  that what is read is what would be written (`ExtensionsBytes`,
  `SignaturesWereWritten`, `MessagesWereWritten`). `ProofsSurviveHolds` needs also
  that a number is written as its remainder modulo its field (`NumberCut`), so that
  a proof with offsets too large is read as the one with the remainders
  (`FittingProofsSurvive`), and that a length or an offset that is cut to its field
  cannot be read as it was (`CutProofsDiffer`); `ReadableMessagesAreCanonicalHolds` holds for every message,
  however it was damaged (`MessagesAreCanonical`).
* *Ids.* Numbers that follow an id are read after it (`IdsContinue`), and different
  numbers make different ids: so logs and landmarks have their own (`OwnIds`).
* *Certificates.* The entry rebuilt from a TBSCertificate determines all fields but
  the serial number (`EntryRebuilt`, `EntriesDiffer`).

The inductive invariant `WireInv` says what the item is made of: bytes for an id,
parts a caller could pass for a proof, a proof and its written form, damaged or not,
for a message, a TBSCertificate with its fields. It was checked with TLC on the
instance of `wire_format` before it was proved.

Only model-checked: `SavesComplete`, a liveness property, which is out of the
prover's reach. What the five violation runs refute is, of course, not proved either.

## 5. What is abstracted, and what is not modelled

* Hashes are symbolic, signatures perfect; key generation returns fresh values.
* In `Cli` and `RelyingParty` certificates, proofs and ids are records; what their
  encodings do to them is `WireFormat`. Ids are numbers there, ordered as
  `compareCosignerIDs` orders them; `IdOf` is the parsing of typed ids, chosen not
  injective because leading zeros are accepted.
* DER is a sequence of elements with a tag: lengths, and which bytes an element has,
  are the library cryptobyte's.
* The policy is `AnyNCosignerPolicy`, the only one there is. `verify cert`
  configures one of all cosigners.
* A faulty cosigner signs trees in which one entry is replaced. What it could sign
  besides is more of the same: a statement that is not about the log.
* Errors that change nothing are not steps. I/O errors other than a kill (a full
  disk) are not modelled. Deleting the state file by hand is not an action; the key
  files it leaves behind are there from the start.
* A read of the state file in the middle of another process's write that is not killed
  is not modelled: a read finds what a whole write, or a killed one, left. Mixtures
  within a number or a string (`MCMixtures` mixes whole elements of the file's lists)
  are not in the run; the proofs cover them, as anything `Mixtures` may contain.
* Bounds on sizes, keys and kills (`Max...`) are guards of the actions, named in
  the CONSTANTS sections; the proofs hold for all their values.

### Not modelled

* `demo.go` (`cmdDemo`): a fixed script that calls the library once in a fixed order
  and prints. Each call is an operation above; its course - add, cosign, issue with
  two cosigners, verify with "1 of 2", add again, check consistency - is one
  behaviour of what `RelyingParty` and `ProofExchange` allow. It has no state and no
  branch but errors.
* `main.go`: selects a command and prints usage texts.
* `helpers.go`: the commands `hash` and `tree` print what the library computes from
  their arguments, hexadecimal parsing, and section titles. Its DER builders and
  `findSubtreeSlice` are modelled.
* The commands that only print (`ca info`, `cosigner list`, `landmark info`): what
  they look up is modelled, what they print is not.
* PEM files and the PEM of keys in the state file (`rebuildCosignerKey`): pure input
  and output.
* `COMPARISON-WITH-CACTUS.md` is about another program.

## 6. The plan

Done, in this order: Merkle tree and proofs; log and its refinement; landmarks; the
tool command by command; the tool as processes on a file; the relying party; the
wire format; the proofs of every invariant and action property; and the condition
under which overlapping commands are serial.

What could follow: `demo.go` as a fixed behaviour of `RelyingParty`; full disks and
other I/O errors in `StateFile`, should the tool ever handle them; and a model of
`StateFile` with a lock or an atomic rename, for which `CommandsAreSerial` without its
condition is the property to check.
