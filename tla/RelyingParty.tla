---------------------------- MODULE RelyingParty ----------------------------
(***************************************************************************)
(* A relying party of the library beside a certificate authority with      *)
(* several logs (src/cert.go, src/verify.go, src/landmark.go together).    *)
(* The authority logs entries, allocates landmarks and issues certificates *)
(* that are cosigned, or relative to a landmark and without signatures.    *)
(* The relying party is given the subtrees of the active landmarks from    *)
(* time to time, is told of revoked entries, and verifies certificates at  *)
(* any later moment.                                                       *)
(*                                                                         *)
(* Some cosigners may be faulty: besides what is in the log they sign      *)
(* subtrees in which an entry has been replaced (Section 7.3 is why a      *)
(* relying party asks for several).  Of all certificates the model keeps   *)
(* one, any of them: none influences the others.  Pruning is not an action *)
(* here: in memory it changes nothing that a certificate is made from.     *)
(***************************************************************************)
EXTENDS Certificates, Landmarks

CONSTANTS
    LogNumbers,   \* the authority's logs
    Contents,     \* entries that may be logged: extensions and TBSCertificate
    Keys,         \* cosigner keys the authority can ask, [id, key] each
    FaultyKeys,   \* those that also sign what is not in the log
    KeyLists,     \* lists of keys it passes to CreateCertificate
    Trusted,      \* VerifierConfig.Cosigners, in order
    Policies,     \* VerifierConfig.Policy
    MaxActive,    \* MaxActiveLandmarks of every landmark sequence
    MaxSize,      \* bound, per log: no entry is added at this size
    MaxLandmarks, \* bound, per log: landmarks, landmark zero included
    Ranges,       \* pairs of indices [first, last) that may be revoked at once
    MaxRevoked,   \* bound: revocations
    Times         \* expiries, and times at which subtrees are handed out

ASSUME RelyingPartyConstants ==
    /\ IndexBits \in Nat
    /\ LogNumbers \subseteq Nat \ {0}
    /\ IsFiniteSet(LogNumbers)
    /\ Contents \subseteq [extensions : {c.extensions : c \in Contents},
                           tbs        : {c.tbs : c \in Contents}]
    /\ \A k \in Keys : k = [id |-> k.id, key |-> k.key] /\ k.id \in Nat
    /\ FaultyKeys \subseteq Keys
    /\ IsFiniteSet(FaultyKeys)
    /\ KeyLists \subseteq Seq(Keys)
    /\ Trusted \in Seq(Keys)
    /\ \A policy \in Policies :
           \/ policy = NoPolicy
           \/ /\ policy = [n |-> policy.n, trusted |-> policy.trusted]
              /\ policy.n \in Nat
    /\ 2^IndexBits \in Words
    /\ MaxSize \in [LogNumbers -> 1..(2^IndexBits)]
    /\ Ranges \subseteq (0..(2^IndexBits)) \X (0..(2^IndexBits))
    /\ Times \subseteq Nat

VARIABLES
    logs,         \* per log number, its log
    sequences,    \* per log number, its landmark sequence
    cfg,          \* the relying party's VerifierConfig
    held,         \* one certificate, and how it was made
    handedOut,    \* landmarks whose subtrees the relying party has, <<log, number>>
    revoked       \* entries it was told are revoked, <<log, index>>

vars == <<logs, sequences, cfg, held, handedOut, revoked>>

Nothing == [kind |-> "nothing"]

Leaves(ln) == logs[ln].leaves

Size(ln) == LogSize(logs[ln])

EntryOf(content) == LogEntry(content.extensions, content.tbs)

Init ==
    /\ logs = [ln \in LogNumbers |-> NewIssuanceLog]
    /\ sequences = [ln \in LogNumbers |-> NewLandmarkSequence(MaxActive)]
    /\ cfg \in [cosigners : {Trusted}, policy : Policies, subtrees : {<<>>}, revoked : {{}}]
    /\ held = Nothing
    /\ handedOut = {}
    /\ revoked = {}

(* AddEntry of an entry with any extensions. *)
Add(ln, content) ==
    /\ Size(ln) < MaxSize[ln]
    /\ logs' = [logs EXCEPT ![ln] = AddEntryTo(@, EntryOf(content))]
    /\ UNCHANGED <<sequences, cfg, held, handedOut, revoked>>

(* AllocateLandmark at the log's size. *)
Allocate(ln, expiry) ==
    /\ LastLandmark(sequences[ln]) + 1 < MaxLandmarks[ln]
    /\ CanAllocate(sequences[ln], Size(ln), expiry)
    /\ sequences' = [sequences EXCEPT ![ln] = AllocateLandmark(@, Size(ln), expiry)]
    /\ UNCHANGED <<logs, cfg, held, handedOut, revoked>>

(* Entries are certified by the contents they were logged with.             *)
HeldCertificate(ln, index, content, st, keys, how) ==
    \E cert \in CreateCertificate(Leaves(ln), ln, index, content.extensions,
                                  content.tbs, st, keys) :
        held' = [kind |-> how, cert |-> cert, log |-> ln, index |-> index, keys |-> keys]

(* CreateCertificate as "ca issue" calls it, with any list of keys. *)
IssueCosigned(ln, index, content, keys) ==
    /\ EntryOf(content) = EntryAt(logs[ln], index)
    /\ HeldCertificate(ln, index, content, CoveringSubtree(index, Size(ln)), keys, "cosigned")
    /\ UNCHANGED <<logs, sequences, cfg, handedOut, revoked>>

(* CreateCertificate for the landmark's subtree, without keys (Section 6.4).*)
IssueLandmarkRelative(ln, index, content) ==
    LET found == FindContainingLandmark(sequences[ln], index)
    IN  /\ EntryOf(content) = EntryAt(logs[ln], index)
        /\ found # NoLandmark
        /\ HeldCertificate(ln, index, content, found.subtree, <<>>, "landmark")
        /\ UNCHANGED <<logs, sequences, cfg, handedOut, revoked>>

(* CreateCertificate on a tree in which another entry is at the index: only *)
(* faulty cosigners sign for it.                                            *)
IssueUnlogged(ln, index, content, keys) ==
    LET other == [Leaves(ln) EXCEPT ![index + 1] = EntryOf(content)]
    IN  /\ EntryOf(content) # EntryAt(logs[ln], index)
        /\ \A i \in DOMAIN keys : keys[i] \in FaultyKeys
        /\ \E cert \in CreateCertificate(other, ln, index, content.extensions, content.tbs,
                                         CoveringSubtree(index, Size(ln)), keys) :
               held' = [kind |-> "unlogged", cert |-> cert, log |-> ln, index |-> index,
                        keys |-> keys]
        /\ UNCHANGED <<logs, sequences, cfg, handedOut, revoked>>

(* The subtrees of landmarks with the hashes the logs have for them; empty  *)
(* ones are left out.                                                       *)
TrustedSubtrees(landmarks) ==
    LET Subtree(ln, st) == [logNumber |-> ln, start |-> st.start, end |-> st.end,
                            hash |-> SubtreeView(Leaves(ln), st.start, st.end)]
        Of(ln, num) == {Subtree(ln, LandmarkSubtrees(sequences[ln], num)[k]) : k \in 1..2}
    IN  {ts \in UNION {Of(pair[1], pair[2]) : pair \in landmarks} :
            ts.start < ts.end /\ HasHash(Size(ts.logNumber), ts)}

(* The relying party replaces its TrustedSubtrees, in any order. *)
HandOut(now) ==
    /\ handedOut' = UNION {{ln} \X ActiveLandmarks(sequences[ln], now) : ln \in LogNumbers}
    /\ cfg' = [cfg EXCEPT !.subtrees = SetToSeq(TrustedSubtrees(handedOut'))]
    /\ UNCHANGED <<logs, sequences, held, revoked>>

(* The entries [first, last) of a log are revoked by their serial numbers. *)
Revoke(ln, first, last) ==
    /\ Cardinality(cfg.revoked) < MaxRevoked
    /\ cfg' = [cfg EXCEPT !.revoked =
                   @ \union {[start |-> Serial(ln, first), end |-> Serial(ln, last)]}]
    /\ revoked' = revoked \union ({ln} \X (first..(last - 1)))
    /\ UNCHANGED <<logs, sequences, held, handedOut>>

Next ==
    \/ \E ln \in LogNumbers :
        \/ \E content \in Contents : Add(ln, content)
        \/ \E expiry \in Times : Allocate(ln, expiry)
        \/ \E index \in 1..(Size(ln) - 1), content \in Contents :
            \/ \E keys \in KeyLists : IssueCosigned(ln, index, content, keys)
            \/ \E keys \in KeyLists : IssueUnlogged(ln, index, content, keys)
            \/ IssueLandmarkRelative(ln, index, content)
        \/ \E range \in Ranges : Revoke(ln, range[1], range[2])
    \/ \E now \in Times : HandOut(now)

Spec == Init /\ [][Next]_vars

-----------------------------------------------------------------------------
(* Properties *)

Entries == {NullEntry} \union {EntryOf(content) : content \in Contents}

(* What the relying party has refers to what the authority has: landmarks   *)
(* that exist, entries of its logs, a certificate made from a subtree.      *)
TypeOK ==
    /\ logs \in [LogNumbers -> [entries : Seq(Entries), leaves : Seq(Entries), minIndex : {0}]]
    /\ \A ln \in LogNumbers : /\ logs[ln].leaves = logs[ln].entries
                              /\ Size(ln) \in 1..MaxSize[ln]
    /\ sequences \in [LogNumbers -> [maxActive : {MaxActive}, landmarks : Seq(Nat),
                                     expiries : Seq(Nat)]]
    /\ \A ln \in LogNumbers :
           /\ LastLandmark(sequences[ln]) >= 0
           /\ Len(sequences[ln].expiries) = Len(sequences[ln].landmarks)
    /\ handedOut \subseteq
           {pair \in LogNumbers \X Nat : pair[2] \in 1..LastLandmark(sequences[pair[1]])}
    /\ revoked \subseteq LogNumbers \X (0..(2^IndexBits))
    /\ cfg = [cosigners |-> Trusted, policy |-> cfg.policy,
              subtrees |-> cfg.subtrees, revoked |-> cfg.revoked]
    /\ cfg.policy \in Policies
    /\ held # Nothing =>
           /\ held.log \in LogNumbers
           /\ held.cert.end \in 0..Size(held.log)
           /\ held.cert.start \in 0..held.cert.end
           /\ held.index \in held.cert.start..(held.cert.end - 1)

Accepted(cert) == VerifyCertificateSignature(cert, cfg)

(* The entry that a certificate stands for is in the log that its serial    *)
(* number names, at the index it names.                                     *)
Logged(cert) ==
    LET ln    == SerialLogNumber(cert.serial)
        index == SerialIndex(cert.serial)
    IN  /\ ln \in LogNumbers
        /\ index < Size(ln)
        /\ Leaves(ln)[index + 1] = LogEntry(cert.extensions, cert.tbs)

(* The policy asks for more trusted cosigners than are faulty. *)
FaultyIds == {k.id : k \in FaultyKeys}

PolicySuffices ==
    /\ cfg.policy # NoPolicy
    /\ Cardinality(cfg.policy.trusted \intersect FaultyIds) < cfg.policy.n

(* The certificate held, and what becomes of it with another serial number, *)
(* other contents or other extensions.                                      *)
Restated(cert, serial, content) ==
    [cert EXCEPT !.serial = serial, !.tbs = content.tbs, !.extensions = content.extensions]

Serials ==
    {Serial(ln, index) : ln \in LogNumbers \union {0}, index \in 0..(2^IndexBits - 1)}

Presented ==
    IF held = Nothing THEN {}
    ELSE {Restated(held.cert, serial, content) :
              serial \in Serials \union {held.cert.serial}, content \in Contents}

(* A relying party whose policy asks for more cosigners than are faulty     *)
(* accepts logged entries only: with whatever serial number, contents and   *)
(* extensions the certificate is presented (its subtree, path and           *)
(* signatures are those it was made with), whichever landmarks the party    *)
(* was handed, and although a faulty cosigner may have signed another tree, *)
(* or be listed twice (verify.go:165-238, 44-55).                           *)
OnlyLoggedEntriesAreAccepted ==
    PolicySuffices => \A cert \in Presented : Accepted(cert) => Logged(cert)

(* How many trusted cosigners have signed a genuine certificate: the first  *)
(* key the relying party has for an id must be the one that signed.         *)
Signers(keys) ==
    {k.id : k \in {keys[i] : i \in DOMAIN keys} \intersect
                    {Trusted[i] : i \in {j \in DOMAIN Trusted :
                        IsFirst(j, {h \in DOMAIN Trusted : Trusted[h].id = Trusted[j].id})}}}

Distinct(keys) == \A i, j \in DOMAIN keys : keys[i].id = keys[j].id => i = j

(* A certificate the authority made for a logged entry is accepted, however *)
(* the log has grown and whichever landmarks were handed out since, exactly *)
(* when it is not revoked, its cosigners had different ids, and either its  *)
(* subtree is one of a landmark the relying party has or enough of its      *)
(* cosigners are trusted: a trusted subtree never contradicts a genuine     *)
(* certificate (verify.go:203-238).                                         *)
GenuineCertificatesAreAccepted ==
    held.kind \in {"cosigned", "landmark"} =>
        LET cert  == held.cert
            known == \E pair \in handedOut :
                         /\ pair[1] = held.log
                         /\ Interval(cert.start, cert.end) \in
                                Range(LandmarkSubtrees(sequences[pair[1]], pair[2]))
            signed == Signers(held.keys) \intersect cfg.policy.trusted
        IN  Accepted(cert) =
                (/\ <<held.log, held.index>> \notin revoked
                 /\ Distinct(held.keys)
                 /\ known \/ cfg.policy = NoPolicy \/ Cardinality(signed) >= cfg.policy.n)

(* A certificate without signatures is accepted exactly while the landmark  *)
(* it was made for is one whose subtrees the relying party was handed, so   *)
(* no longer once an expired landmark is left out (landmark.go:85-96,       *)
(* 118-143; verify.go:203-211).                                             *)
LandmarkCertificatesFollowTheirLandmark ==
    held.kind = "landmark" /\ cfg.policy # NoPolicy /\ cfg.policy.n > 0 =>
        LET num == FindContainingLandmark(sequences[held.log], held.index).num
        IN  Accepted(held.cert) = (/\ <<held.log, held.index>> \notin revoked
                                   /\ <<held.log, num>> \in handedOut)

(* Ranges of serial numbers revoke the entries they were made for in their  *)
(* own log and in no other one, up to the last index of a log and the first *)
(* of the next (verify.go:56-73, 155-163).                                  *)
RevocationIsExact ==
    \A ln \in LogNumbers, index \in 0..(2^IndexBits - 1) :
        IsRevoked(cfg.revoked, Serial(ln, index)) = (<<ln, index>> \in revoked)

=============================================================================
