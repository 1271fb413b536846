--------------------------- MODULE RelyingPartyProofs -----------------------
(***************************************************************************)
(* What a relying party accepts, for any number of logs, entries,          *)
(* cosigners, landmarks and revocations.                                   *)
(*                                                                         *)
(* The argument: every subtree the relying party trusts, and every message *)
(* an honest cosigner has signed, carries the hash of a subtree of a log   *)
(* as it still is, since logs only grow (IInv).  A certificate that        *)
(* verifies has one of those hashes, by a trusted subtree or because the   *)
(* ids counted for the policy are all different, so that one of them is an *)
(* honest cosigner's; and the hash holds the entry at the index.           *)
(***************************************************************************)
EXTENDS RelyingParty, LibraryProofs

(* The hash of a log's subtree, as the log is now. *)
Genuine(m) ==
    /\ m.logNumber \in LogNumbers
    /\ m.end \in 0..Size(m.logNumber)
    /\ m.start \in 0..m.end
    /\ m.hash = SubtreeView(Leaves(m.logNumber), m.start, m.end)

HonestOrFaulty(sig) ==
    /\ sig.id \in Nat
    /\ sig.id \in FaultyIds \/ Genuine(sig.signature.message)

GoodSignatures(sigs) ==
    /\ Len(sigs) \in Nat
    /\ DOMAIN sigs = 1..Len(sigs)
    /\ \A i \in 1..Len(sigs) : HonestOrFaulty(sigs[i])

GoodCertificate(cert) ==
    /\ cert = [serial |-> cert.serial, tbs |-> cert.tbs, extensions |-> cert.extensions,
               start |-> cert.start, end |-> cert.end, inclusion |-> cert.inclusion,
               signatures |-> cert.signatures]
    /\ cert.serial \in Nat
    /\ GoodSignatures(cert.signatures)

LandmarksAreBounded ==
    \E bound \in Nat : \A ln \in LogNumbers : LastLandmark(sequences[ln]) <= bound

IInv ==
    /\ TypeOK
    /\ LandmarksAreBounded
    /\ \A i \in DOMAIN cfg.subtrees : Genuine(cfg.subtrees[i])
    /\ held # Nothing => GoodCertificate(held.cert)

-----------------------------------------------------------------------------
(* Sequences and sets *)

(* SetToSeq of a finite set has the elements of the set. *)
LEMMA SetToSeqElements ==
    ASSUME NEW S, IsFiniteSet(S)
    PROVE  /\ DOMAIN SetToSeq(S) \subseteq Nat
           /\ \A i \in DOMAIN SetToSeq(S) : SetToSeq(S)[i] \in S
           /\ \A x \in S : \E i \in DOMAIN SetToSeq(S) : SetToSeq(S)[i] = x
<1> DEFINE n == Cardinality(S)
           q == SetToSeq(S)
<1>1. n \in Nat
    BY FS_CardinalityType
<1>2. \E f \in [1..n -> S] : IsInjective(f)
    BY FS_CardinalityType DEF ExistsBijection, Bijection, Injection
<1>3. q \in [1..n -> S] /\ IsInjective(q)
    BY <1>2 DEF SetToSeq
<1> HIDE DEF n, q
<1>4. q \in Injection(1..n, S)
    BY <1>3 DEF Injection
<1>5. Cardinality(1..n) = n
    BY <1>1, FS_Interval
<1>6. q \in Surjection(1..n, S)
    BY <1>4, <1>5, FS_Injection DEF n
<1>7. \A x \in S : \E i \in 1..n : q[i] = x
    BY <1>6 DEF Surjection
<1> QED BY <1>1, <1>3, <1>7 DEF q

-----------------------------------------------------------------------------
(* What is accepted *)

LEMMA IndexBitsPositive ==
    ASSUME NEW ln \in LogNumbers
    PROVE  2^IndexBits \in Nat \ {0}
<1>1. IndexBits \in Nat /\ MaxSize[ln] \in 1..(2^IndexBits)
    BY RelyingPartyConstants
<1>2. 2^IndexBits \in Int
    BY <1>1
<1> QED BY <1>1, <1>2

LEMMA ScaledIsNat ==
    ASSUME NEW a \in Nat, NEW b \in Nat, NEW c \in Nat
    PROVE  a * b + c \in Nat
OBVIOUS

LEMMA FaultyIdsFinite == IsFiniteSet(FaultyIds)
<1> DEFINE f == [k \in FaultyKeys |-> k.id]
<1>1. f \in Surjection(FaultyKeys, FaultyIds)
    BY DEF Surjection, FaultyIds
<1> QED BY <1>1, FS_Surjection, RelyingPartyConstants

(* More different ids than there are faulty ones: one is not faulty. *)
LEMMA OneIsHonest ==
    ASSUME NEW n \in Nat, NEW sigs, \A i \in 1..n : sigs[i].id \in Nat,
           \A i \in 1..(n - 1) : sigs[i].id < sigs[i + 1].id,
           NEW V \in SUBSET (1..n), NEW T, NEW k \in Nat,
           Cardinality({i \in V : sigs[i].id \in T}) >= k,
           Cardinality(T \intersect FaultyIds) < k
    PROVE  \E i \in V : sigs[i].id \notin FaultyIds
<1> DEFINE C == {i \in V : sigs[i].id \in T}
           D == T \intersect FaultyIds
           id == [i \in 1..n |-> sigs[i].id]
           f == [i \in C |-> sigs[i].id]
<1>1. IsFiniteSet(D)
    BY FaultyIdsFinite, FS_Intersection
<1>2. \A a, b \in 1..n : a < b => id[a] < id[b]
    <2>1. /\ \A i \in 1..n : id[i] \in Nat
          /\ \A i \in 1..(n - 1) : id[i] < id[i + 1]
        OBVIOUS
    <2> HIDE DEF id
    <2> QED BY <2>1, AscendingThroughout
<1>3. \A a, b \in 1..n : sigs[a].id = sigs[b].id => a = b
    <2> SUFFICES ASSUME NEW a \in 1..n, NEW b \in 1..n, id[a] = id[b], a # b
                 PROVE  FALSE
        OBVIOUS
    <2>1. id[a] \in Nat /\ id[b] \in Nat
        OBVIOUS
    <2>2. a < b \/ b < a
        OBVIOUS
    <2> HIDE DEF id
    <2> QED BY <1>2, <2>1, <2>2
<1> SUFFICES ASSUME \A i \in V : sigs[i].id \in FaultyIds
             PROVE  FALSE
    OBVIOUS
<1>4. f \in Injection(C, D)
    BY <1>3 DEF Injection, IsInjective
<1>5. IsFiniteSet(C) /\ Cardinality(C) <= Cardinality(D)
    <2> HIDE DEF C, D, f
    <2> QED BY <1>1, <1>4, FS_Injection
<1>6. Cardinality(C) \in Nat /\ Cardinality(D) \in Nat
    <2> HIDE DEF C, D
    <2> QED BY <1>1, <1>5, FS_CardinalityType
<1> HIDE DEF C, D
<1>7. Cardinality(C) >= k /\ Cardinality(D) < k
    BY DEF C, D
<1> QED BY <1>5, <1>6, <1>7

(* A certificate whose hash is genuine stands for an entry of the log. *)
LEMMA GenuineIsLogged ==
    ASSUME TypeOK, NEW cert, NEW ln \in LogNumbers, NEW index \in Nat,
           cert.end \in 0..Size(ln), cert.start \in 0..cert.end,
           cert.start <= index, index < cert.end,
           EvaluatedHash(cert, index) = SubtreeView(Leaves(ln), cert.start, cert.end)
    PROVE  index < Size(ln) /\ Leaves(ln)[index + 1] = LogEntry(cert.extensions, cert.tbs)
<1> DEFINE leaves == Leaves(ln)
           view   == SubSeq(leaves, cert.start + 1, cert.end)
           k      == index - cert.start + 1
           entry  == LogEntry(cert.extensions, cert.tbs)
<1>1. leaves \in Seq(Entries) /\ Size(ln) = Len(leaves) /\ Len(leaves) \in Nat
    BY LenProperties DEF TypeOK, Leaves, Size, LogSize
<1>2. \A i \in (cert.start + 1)..cert.end : leaves[i] \in Entries
    <2>1. \A i \in (cert.start + 1)..cert.end : i \in 1..Len(leaves)
        BY <1>1
    <2> QED BY <1>1, <2>1, ElementOfSeq
<1>3. /\ view \in Seq(Entries) /\ Len(view) = cert.end - cert.start
      /\ \A i \in 1..(cert.end - cert.start) : view[i] = leaves[cert.start + 1 + i - 1]
    BY <1>2, SubSeqProperties
<1>4. k \in 1..(cert.end - cert.start) /\ cert.start + 1 + k - 1 = index + 1
    OBVIOUS
<1>5. view[k] = leaves[index + 1]
    <2> HIDE DEF view, leaves, k
    <2> QED BY <1>3, <1>4
<1>6. k \in DOMAIN view
    <2>1. DOMAIN view = 1..Len(view)
        <3> HIDE DEF view
        <3> QED BY <1>3, LenProperties
    <2> QED BY <1>3, <1>4, <2>1
<1>7. view = [cert.inclusion EXCEPT ![k] = entry]
    BY DEF EvaluatedHash, SubtreeView
<1>8. view[k] = entry
    <2> HIDE DEF view, k, entry
    <2> QED BY <1>6, <1>7
<1> QED BY <1>1, <1>5, <1>8

(* The certificate presented differs from the one held in what it says, not *)
(* in its subtree and signatures.                                           *)
LEMMA PresentedShape ==
    ASSUME IInv, NEW cert \in Presented
    PROVE  /\ held # Nothing
           /\ cert.start = held.cert.start /\ cert.end = held.cert.end
           /\ cert.signatures = held.cert.signatures
           /\ cert.serial \in Nat
<1>0. held # Nothing
    BY DEF Presented
<1>1. GoodCertificate(held.cert)
    BY <1>0 DEF IInv
<1>2. PICK serial \in Serials \union {held.cert.serial}, content \in Contents :
          cert = Restated(held.cert, serial, content)
    BY <1>0 DEF Presented
<1>3. serial \in Nat
    <2>1. CASE serial = held.cert.serial
        BY <1>1, <2>1 DEF GoodCertificate
    <2>2. ASSUME NEW ln \in LogNumbers \union {0}, NEW index \in 0..(2^IndexBits - 1),
                 serial = Serial(ln, index)
          PROVE  serial \in Nat
        <3>0. IndexBits \in Nat /\ LogNumbers \subseteq Nat
            BY RelyingPartyConstants
        <3>1. ln \in Nat /\ index \in Nat /\ 2^IndexBits \in Int
            BY <3>0
        <3>2. 2^IndexBits \in Nat
            BY <2>2, <3>1
        <3> QED BY <2>2, <3>1, <3>2 DEF Serial
    <2> QED BY <2>1, <2>2 DEF Serials
<1> QED BY <1>0, <1>1, <1>2, <1>3 DEF GoodCertificate, Restated

(* An accepted certificate has the hash of a trusted subtree or, when       *)
(* enough cosigners are asked for, of a message an honest one has signed.   *)
LEMMA AcceptedIsLogged ==
    ASSUME IInv, PolicySuffices, NEW cert \in Presented, Accepted(cert)
    PROVE  Logged(cert)
<1> DEFINE ln    == SerialLogNumber(cert.serial)
           index == SerialIndex(cert.serial)
           hash  == EvaluatedHash(cert, index)
           matching == MatchingSubtrees(cert, cfg.subtrees)
           valid == ValidSignatures(cert, hash, cfg.cosigners)
           sigs  == cert.signatures
           n     == Len(sigs)
           ForHash(m) == /\ m.logNumber = ln
                         /\ m.start = cert.start /\ m.end = cert.end
                         /\ m.hash = hash
<1>1. /\ held # Nothing /\ TypeOK
      /\ cert.start = held.cert.start /\ cert.end = held.cert.end
      /\ sigs = held.cert.signatures
      /\ cert.serial \in Nat
    BY PresentedShape DEF IInv
<1>2. GoodSignatures(sigs)
    BY <1>1 DEF IInv, GoodCertificate
<1>3. /\ Parses(cert)
      /\ cert.start <= index /\ index < cert.end
      /\ \/ \E i \in matching : hash = cfg.subtrees[i].hash
         \/ IsSatisfied(cfg.policy, cert, valid)
    BY DEF Accepted, VerifyCertificateSignature
<1>4. \E m : Genuine(m) /\ ForHash(m)
    <2>1. ASSUME NEW i \in matching, hash = cfg.subtrees[i].hash
          PROVE  \E m : Genuine(m) /\ ForHash(m)
        <3>1. Genuine(cfg.subtrees[i])
            BY <2>1 DEF IInv, MatchingSubtrees
        <3> QED BY <2>1, <3>1 DEF MatchingSubtrees
    <2>2. CASE IsSatisfied(cfg.policy, cert, valid)
        <3>1. /\ cfg.policy # NoPolicy
              /\ Cardinality({i \in valid : sigs[i].id \in cfg.policy.trusted}) >= cfg.policy.n
              /\ Cardinality(cfg.policy.trusted \intersect FaultyIds) < cfg.policy.n
            BY <2>2 DEF IsSatisfied, PolicySuffices
        <3>2. cfg.policy.n \in Nat
            BY <1>1, <3>1, RelyingPartyConstants DEF TypeOK
        <3>3. /\ n \in Nat /\ valid \subseteq 1..n
              /\ \A i \in 1..n : sigs[i].id \in Nat
            BY <1>2 DEF GoodSignatures, HonestOrFaulty, ValidSignatures
        <3>4. \A i \in 1..(n - 1) : sigs[i].id < sigs[i + 1].id
            BY <1>3 DEF Parses
        <3>5. PICK i \in valid : sigs[i].id \notin FaultyIds
            <4> HIDE DEF valid, sigs, n
            <4> QED BY <3>1, <3>2, <3>3, <3>4, OneIsHonest
        <3>6. Genuine(sigs[i].signature.message)
            BY <1>2, <3>3, <3>5 DEF GoodSignatures, HonestOrFaulty
        <3>7. sigs[i].signature.message =
                  CosignedMessage(sigs[i].id, ln, cert.start, cert.end, hash)
            <4> DEFINE message == CosignedMessage(sigs[i].id, ln, cert.start, cert.end, hash)
            <4>1. PICK k \in DOMAIN cfg.cosigners :
                      VerifyCosignature(cfg.cosigners[k].key, message, sigs[i].signature)
                BY DEF ValidSignatures
            <4>2. sigs[i].signature = [key |-> cfg.cosigners[k].key, message |-> message]
                BY <4>1 DEF VerifyCosignature
            <4> HIDE DEF message
            <4>3. sigs[i].signature.message = message
                BY <4>2
            <4> QED BY <4>3 DEF message
        <3> QED BY <3>6, <3>7 DEF CosignedMessage
    <2> QED BY <1>3, <2>1, <2>2
<1>5. PICK m : Genuine(m) /\ ForHash(m)
    BY <1>4
<1>6. /\ ln \in LogNumbers
      /\ cert.end \in 0..Size(ln) /\ cert.start \in 0..cert.end
      /\ hash = SubtreeView(Leaves(ln), cert.start, cert.end)
    BY <1>5 DEF Genuine
<1>7. index \in Nat
    <2>1. 2^IndexBits \in Nat \ {0}
        BY <1>6, IndexBitsPositive
    <2> QED BY <1>1, <2>1 DEF SerialIndex
<1>8. index < Size(ln) /\ Leaves(ln)[index + 1] = LogEntry(cert.extensions, cert.tbs)
    <2> HIDE DEF ln, index
    <2> QED BY <1>1, <1>3, <1>6, <1>7, GenuineIsLogged DEF hash
<1> QED BY <1>6, <1>8 DEF Logged

-----------------------------------------------------------------------------
(* What is made *)

(* Sorting signatures leaves their number and adds none. *)
LEMMA Sorted ==
    ASSUME NEW S, NEW sigs \in Seq(S), NEW out \in SortSignatures(sigs)
    PROVE  /\ out \in Seq(S) /\ Len(out) = Len(sigs)
           /\ \A i \in 1..Len(out) : \E j \in 1..Len(sigs) : out[i] = sigs[j]
<1> DEFINE n == Len(sigs)
<1>1. n \in Nat /\ DOMAIN sigs = 1..n /\ \A i \in 1..n : sigs[i] \in S
    BY LenProperties, ElementOfSeq
<1>2. PICK p \in Bijection(DOMAIN sigs, DOMAIN sigs) : out = [i \in DOMAIN sigs |-> sigs[p[i]]]
    BY DEF SortSignatures
<1>3. \A i \in 1..n : p[i] \in 1..n
    BY <1>1 DEF Bijection, Injection
<1> HIDE DEF n
<1>4. out \in [1..n -> S]
    BY <1>1, <1>2, <1>3
<1>5. out \in Seq(S) /\ Len(out) = n
    BY <1>1, <1>4, SeqDef, LenProperties
<1>6. \A i \in 1..n : out[i] = sigs[p[i]]
    BY <1>1, <1>2
<1> QED BY <1>3, <1>5, <1>6 DEF n

(* A certificate made from a log's leaves, or signed by faulty cosigners    *)
(* only, is good.                                                           *)
LEMMA CreatedIsGood ==
    ASSUME TypeOK, NEW ln \in LogNumbers, NEW index \in Nat, NEW leaves,
           Len(leaves) = Size(ln), NEW keys \in Seq(Keys),
           leaves = Leaves(ln) \/ \A i \in DOMAIN keys : keys[i] \in FaultyKeys,
           NEW extensions, NEW tbs, NEW st,
           NEW cert \in CreateCertificate(leaves, ln, index, extensions, tbs, st, keys)
    PROVE  /\ GoodCertificate(cert)
           /\ cert.end \in 0..Size(ln) /\ cert.start \in 0..cert.end
           /\ index \in cert.start..(cert.end - 1)
<1> DEFINE hash == SubtreeView(leaves, st.start, st.end)
           Message(c) == CosignedMessage(c.id, ln, st.start, st.end, hash)
           Signature(c) == [id |-> c.id, signature |-> Cosign(c.key, Message(c))]
           S == {Signature(c) : c \in Keys}
           unsorted == [i \in DOMAIN keys |-> Signature(keys[i])]
<1>1. Size(ln) \in Nat
    BY LenProperties DEF TypeOK, Size, LogSize
<1>2. /\ st.end \in 0..Size(ln) /\ st.start \in 0..st.end
      /\ st.start <= index /\ index < st.end
    BY DEF CreateCertificate, HasHash, In
<1>3. PICK sigs \in SortSignatures(unsorted) :
          cert = [serial |-> Serial(ln, index), tbs |-> tbs, extensions |-> extensions,
                  start |-> st.start, end |-> st.end, inclusion |-> hash,
                  signatures |-> sigs]
    BY DEF CreateCertificate
<1>4. /\ cert = [serial |-> cert.serial, tbs |-> cert.tbs, extensions |-> cert.extensions,
                 start |-> cert.start, end |-> cert.end, inclusion |-> cert.inclusion,
                 signatures |-> cert.signatures]
      /\ cert.serial = Serial(ln, index)
      /\ cert.start = st.start /\ cert.end = st.end /\ cert.signatures = sigs
    <2> HIDE DEF hash
    <2> QED BY <1>3
<1>5. Serial(ln, index) \in Nat
    <2>1. ln \in Nat
        BY RelyingPartyConstants
    <2>2. PICK M \in Nat : M = 2^IndexBits
        BY IndexBitsPositive
    <2>3. ln * M + index \in Nat
        BY <2>1, ScaledIsNat
    <2> QED BY <2>2, <2>3 DEF Serial
<1>6. /\ Len(keys) \in Nat /\ DOMAIN keys = 1..Len(keys)
      /\ \A i \in 1..Len(keys) : keys[i] \in Keys
    BY LenProperties, ElementOfSeq
<1>7. /\ unsorted \in Seq(S) /\ Len(unsorted) = Len(keys)
      /\ \A i \in 1..Len(keys) : unsorted[i] = Signature(keys[i])
    <2>1. unsorted \in [1..Len(keys) -> S]
        BY <1>6
    <2>2. unsorted \in Seq(S)
        <3> HIDE DEF unsorted, S
        <3> QED BY <1>6, <2>1, SeqDef
    <2>3. Len(unsorted) = Len(keys)
        <3> HIDE DEF unsorted, S
        <3> QED BY <1>6, <2>1, <2>2, LenProperties
    <2> QED BY <1>6, <2>2, <2>3
<1>8. /\ sigs \in Seq(S) /\ Len(sigs) = Len(keys)
      /\ \A i \in 1..Len(sigs) : \E j \in 1..Len(keys) : sigs[i] = Signature(keys[j])
    <2> HIDE DEF S, unsorted, Signature
    <2>1. /\ sigs \in Seq(S) /\ Len(sigs) = Len(unsorted)
          /\ \A i \in 1..Len(sigs) : \E j \in 1..Len(unsorted) : sigs[i] = unsorted[j]
        BY <1>7, Sorted
    <2> QED BY <1>7, <2>1
<1>9. ASSUME NEW j \in 1..Len(keys)
      PROVE  HonestOrFaulty(Signature(keys[j]))
    <2> DEFINE c == keys[j]
    <2>1. c \in Keys /\ c.id \in Nat
        BY <1>6, RelyingPartyConstants
    <2>2. Signature(c).id = c.id /\ Signature(c).signature.message = Message(c)
        BY DEF Cosign
    <2>3. CASE leaves = Leaves(ln)
        <3>1. Genuine(Message(c))
            BY <1>2, <2>3 DEF Genuine, CosignedMessage
        <3> HIDE DEF Signature, Message
        <3> QED BY <2>1, <2>2, <3>1 DEF HonestOrFaulty
    <2>4. CASE \A i \in DOMAIN keys : keys[i] \in FaultyKeys
        <3>1. c.id \in FaultyIds
            BY <1>6, <2>4 DEF FaultyIds
        <3> HIDE DEF Signature, Message
        <3> QED BY <2>1, <2>2, <3>1 DEF HonestOrFaulty
    <2> QED BY <2>3, <2>4
<1>10. GoodSignatures(sigs)
    <2> HIDE DEF S, Signature
    <2>1. Len(sigs) \in Nat /\ DOMAIN sigs = 1..Len(sigs)
        BY <1>8, LenProperties
    <2> QED BY <1>8, <1>9, <2>1 DEF GoodSignatures
<1> HIDE DEF hash, unsorted
<1> QED BY <1>2, <1>4, <1>5, <1>10 DEF GoodCertificate

-----------------------------------------------------------------------------
(* IInv is inductive. *)

(* What is genuine stays so when a log grows. *)
LEMMA GrowthKeepsGenuine ==
    ASSUME TypeOK, NEW ln \in LogNumbers, NEW content \in Contents, Add(ln, content),
           NEW m, Genuine(m)
    PROVE  Genuine(m)'
<1> DEFINE entry == EntryOf(content)
           l == m.logNumber
<1>1. /\ logs[l].entries \in Seq(Entries) /\ logs[l].leaves = logs[l].entries
      /\ entry \in Entries
    BY DEF TypeOK, Genuine, Entries
<1>2. CASE l = ln
    <2>1. logs'[l].leaves = Append(logs[l].entries, entry)
          /\ logs'[l].entries = Append(logs[l].entries, entry)
        BY <1>2 DEF Add, AddEntryTo, Log, TypeOK
    <2>2. Len(logs[l].entries) \in Nat /\ Len(logs'[l].entries) = Len(logs[l].entries) + 1
        <3> HIDE DEF entry
        <3> QED BY <1>1, <2>1, AppendProperties, LenProperties
    <2>3. /\ m.end \in 0..Len(logs[l].entries) /\ m.start \in 0..m.end
          /\ m.hash = SubtreeView(logs[l].entries, m.start, m.end)
        BY <1>1 DEF Genuine, Size, LogSize, Leaves
    <2>4. SubtreeView(Append(logs[l].entries, entry), m.start, m.end) = m.hash
        <3> HIDE DEF entry
        <3> QED BY <1>1, <2>3, ViewOfGrown
    <2>5. m.end \in 0..Len(logs'[l].entries)
        BY <2>2, <2>3
    <2> HIDE DEF entry
    <2> QED BY <1>2, <2>1, <2>3, <2>4, <2>5 DEF Genuine, Size, LogSize, Leaves
<1>3. CASE l # ln
    <2>1. logs'[l] = logs[l]
        BY <1>3 DEF Add, Genuine, TypeOK
    <2> QED BY <2>1 DEF Genuine, Size, LogSize, Leaves
<1> QED BY <1>2, <1>3

(* What the relying party has and holds stays genuine when it stays as it   *)
(* is.                                                                      *)
LEMMA GoodKept ==
    ASSUME \A m : Genuine(m) => Genuine(m)', NEW cert, GoodCertificate(cert)
    PROVE  GoodCertificate(cert)'
BY DEF GoodCertificate, GoodSignatures, HonestOrFaulty

LEMMA HeldKept ==
    ASSUME IInv, \A m : Genuine(m) => Genuine(m)', UNCHANGED held
    PROVE  (held # Nothing => GoodCertificate(held.cert))'
<1> SUFFICES ASSUME held # Nothing PROVE GoodCertificate(held.cert)'
    OBVIOUS
<1>1. PICK cert : cert = held.cert
    OBVIOUS
<1>2. GoodCertificate(cert)'
    BY <1>1, GoodKept DEF IInv
<1>3. cert = held'.cert
    BY <1>1
<1> QED BY <1>2, <1>3

LEMMA SubtreesKept ==
    ASSUME IInv, \A m : Genuine(m) => Genuine(m)', cfg'.subtrees = cfg.subtrees
    PROVE  \A i \in DOMAIN cfg'.subtrees : Genuine(cfg.subtrees[i])'
<1> SUFFICES ASSUME NEW i \in DOMAIN cfg'.subtrees PROVE Genuine(cfg.subtrees[i])'
    OBVIOUS
<1>1. PICK m : m = cfg.subtrees[i]
    OBVIOUS
<1>2. Genuine(m)'
    BY <1>1 DEF IInv
<1>3. m = cfg'.subtrees[i]
    BY <1>1
<1> QED BY <1>2, <1>3

LEMMA SameLogs ==
    ASSUME UNCHANGED logs
    PROVE  \A m : Genuine(m) => Genuine(m)'
BY DEF Genuine, Size, LogSize, Leaves

LEMMA InitialIInv == Init => IInv
<1> SUFFICES ASSUME Init PROVE IInv
    OBVIOUS
<1>1. /\ \A ln \in LogNumbers : logs[ln] = Log(<<NullEntry>>, <<NullEntry>>, 0)
      /\ \A ln \in LogNumbers :
             /\ sequences[ln].landmarks = <<0>> /\ sequences[ln].expiries = <<0>>
             /\ LastLandmark(sequences[ln]) = 0
      /\ held = Nothing /\ handedOut = {} /\ revoked = {} /\ cfg.subtrees = <<>>
    BY DEF Init, NewIssuanceLog, NewLandmarkSequence, LastLandmark
<1>2. logs \in [LogNumbers -> [entries : Seq(Entries), leaves : Seq(Entries), minIndex : {0}]]
    <2>1. <<NullEntry>> \in Seq(Entries)
        BY DEF Entries
    <2>2. NewIssuanceLog \in [entries : Seq(Entries), leaves : Seq(Entries), minIndex : {0}]
        BY <2>1 DEF NewIssuanceLog, Log
    <2> QED BY <2>2 DEF Init
<1>3. \A ln \in LogNumbers : /\ logs[ln].leaves = logs[ln].entries
                             /\ Size(ln) \in 1..MaxSize[ln]
    <2> SUFFICES ASSUME NEW ln \in LogNumbers
                 PROVE  logs[ln].leaves = logs[ln].entries /\ Size(ln) \in 1..MaxSize[ln]
        OBVIOUS
    <2>1. MaxSize[ln] \in Int /\ MaxSize[ln] >= 1
        BY IndexBitsPositive, RelyingPartyConstants
    <2>2. Size(ln) = 1 /\ logs[ln].leaves = logs[ln].entries
        BY <1>1 DEF Log, Size, LogSize
    <2> QED BY <2>1, <2>2
<1>4. sequences \in [LogNumbers -> [maxActive : {MaxActive}, landmarks : Seq(Nat),
                                   expiries : Seq(Nat)]]
    BY DEF Init, NewLandmarkSequence
<1>5. /\ cfg.policy \in Policies
      /\ cfg = [cosigners |-> Trusted, policy |-> cfg.policy,
                subtrees |-> cfg.subtrees, revoked |-> cfg.revoked]
    BY DEF Init
<1>6. TypeOK
    BY <1>1, <1>2, <1>3, <1>4, <1>5, SMTT(30) DEF TypeOK
<1>7. LandmarksAreBounded
    BY <1>1 DEF LandmarksAreBounded
<1> QED BY <1>1, <1>6, <1>7 DEF IInv

(* AddEntry: the one action that changes a log. *)
LEMMA AddStep ==
    ASSUME IInv, NEW ln \in LogNumbers, NEW content \in Contents, Add(ln, content)
    PROVE  IInv'
<1> DEFINE entry == EntryOf(content)
           LogType == [entries : Seq(Entries), leaves : Seq(Entries), minIndex : {0}]
<1>1. TypeOK /\ UNCHANGED <<sequences, cfg, held, handedOut, revoked>>
    BY DEF IInv, Add
<1>2. \A m : Genuine(m) => Genuine(m)'
    BY <1>1, GrowthKeepsGenuine
<1>3. /\ logs \in [LogNumbers -> LogType]
      /\ logs[ln].leaves = logs[ln].entries /\ logs[ln].minIndex = 0
      /\ logs[ln].entries \in Seq(Entries) /\ entry \in Entries
      /\ Size(ln) \in 1..MaxSize[ln] /\ Size(ln) < MaxSize[ln]
    BY <1>1 DEF TypeOK, Entries, Add
<1> HIDE DEF entry
<1>4. /\ Append(logs[ln].entries, entry) \in Seq(Entries)
      /\ Len(Append(logs[ln].entries, entry)) = Size(ln) + 1
    BY <1>3, AppendProperties DEF Size, LogSize
<1>5. /\ logs' \in [LogNumbers -> LogType]
      /\ \A l \in LogNumbers :
             logs'[l] = IF l = ln THEN Log(Append(logs[ln].entries, entry),
                                           Append(logs[ln].entries, entry), 0)
                        ELSE logs[l]
    BY <1>3, <1>4 DEF Add, AddEntryTo, Log, entry
<1>6. ASSUME NEW l \in LogNumbers
      PROVE  /\ logs'[l].leaves = logs'[l].entries
             /\ Size(l)' \in 1..MaxSize[l]
             /\ Size(l) \in Nat /\ Size(l)' \in Nat /\ Size(l) <= Size(l)'
    <2>1. /\ logs[l].leaves = logs[l].entries
          /\ Size(l) \in 1..MaxSize[l]
        BY <1>1 DEF TypeOK
    <2>2. MaxSize[l] \in Int
        BY IndexBitsPositive, RelyingPartyConstants
    <2>3. CASE l = ln
        <3>1. /\ logs'[l].entries = Append(logs[ln].entries, entry)
              /\ logs'[l].leaves = logs'[l].entries
            <4>1. PICK grown : grown = Append(logs[ln].entries, entry)
                OBVIOUS
            <4>2. logs'[l] = Log(grown, grown, 0)
                BY <1>5, <2>3, <4>1
            <4> QED BY <4>1, <4>2 DEF Log
        <3>2. Size(l)' = Size(l) + 1
            BY <1>4, <2>3, <3>1 DEF Size, LogSize
        <3>3. Size(l) \in 1..MaxSize[l] /\ Size(l) < MaxSize[l]
            BY <1>3, <2>3
        <3> QED BY <2>2, <3>1, <3>2, <3>3
    <2>4. CASE l # ln
        <3>1. logs'[l] = logs[l]
            BY <1>5, <2>4
        <3> QED BY <2>1, <2>2, <3>1 DEF Size, LogSize
    <2> QED BY <2>3, <2>4
<1>7. TypeOK'
    <2>1. held' # Nothing =>
              /\ held'.log \in LogNumbers
              /\ held'.cert.end \in 0..Size(held.log)'
              /\ held'.cert.start \in 0..held'.cert.end
              /\ held'.index \in held'.cert.start..(held'.cert.end - 1)
        <3> SUFFICES ASSUME held # Nothing
                     PROVE  held.cert.end \in 0..Size(held.log)' /\ held.log \in LogNumbers
            BY <1>1 DEF TypeOK
        <3>1. held.log \in LogNumbers /\ held.cert.end \in 0..Size(held.log)
            BY <1>1 DEF TypeOK
        <3>2. PICK l \in LogNumbers : l = held.log
            BY <3>1
        <3>3. Size(l) <= Size(l)' /\ Size(l) \in Nat /\ Size(l)' \in Nat
            BY <1>6
        <3>4. Size(held.log)' = Size(l)'
            BY <1>1, <3>2
        <3> QED BY <3>1, <3>2, <3>3, <3>4
    <2> QED BY <1>1, <1>5, <1>6, <2>1 DEF TypeOK
<1> QED BY <1>1, <1>2, <1>7, HeldKept, SubtreesKept DEF IInv, LandmarksAreBounded

(* AllocateLandmark: the bound on the landmarks grows by one. *)
LEMMA AllocateStep ==
    ASSUME IInv, NEW ln \in LogNumbers, NEW expiry \in Times, Allocate(ln, expiry)
    PROVE  IInv'
<1> DEFINE SequenceType ==
               [maxActive : {MaxActive}, landmarks : Seq(Nat), expiries : Seq(Nat)]
           old == sequences[ln]
           new == AllocateLandmark(old, Size(ln), expiry)
<1>1. TypeOK /\ UNCHANGED <<logs, cfg, held, handedOut, revoked>>
    BY DEF IInv, Allocate
<1>2. \A m : Genuine(m) => Genuine(m)'
    BY <1>1, SameLogs
<1>3. /\ sequences \in [LogNumbers -> SequenceType]
      /\ old.maxActive = MaxActive
      /\ old.landmarks \in Seq(Nat) /\ old.expiries \in Seq(Nat)
      /\ Len(old.expiries) = Len(old.landmarks)
      /\ \A l \in LogNumbers : LastLandmark(sequences[l]) \in Nat
    <2>1. \A l \in LogNumbers : sequences[l].landmarks \in Seq(Nat)
        BY <1>1 DEF TypeOK
    <2>2. \A l \in LogNumbers : Len(sequences[l].landmarks) \in Nat
        BY <2>1, LenProperties
    <2> QED BY <1>1, <2>1, <2>2 DEF TypeOK, LastLandmark
<1>4. Size(ln) \in Nat /\ expiry \in Nat
    <2>1. logs[ln].entries \in Seq(Entries)
        BY <1>1 DEF TypeOK
    <2> QED BY <2>1, LenProperties, RelyingPartyConstants DEF Size, LogSize
<1>5. /\ new \in SequenceType
      /\ Len(new.landmarks) = Len(old.landmarks) + 1
      /\ Len(new.expiries) = Len(new.landmarks)
      /\ LastLandmark(new) = LastLandmark(old) + 1
    <2>1. /\ Append(old.landmarks, Size(ln)) \in Seq(Nat)
          /\ Len(Append(old.landmarks, Size(ln))) = Len(old.landmarks) + 1
          /\ Append(old.expiries, expiry) \in Seq(Nat)
          /\ Len(Append(old.expiries, expiry)) = Len(old.expiries) + 1
          /\ Len(old.landmarks) \in Nat
        <3> HIDE DEF old
        <3> QED BY <1>3, <1>4, AppendProperties, LenProperties
    <2> HIDE DEF old
    <2> QED BY <1>3, <2>1 DEF AllocateLandmark, LastLandmark
<1> HIDE DEF new, old
<1>6. /\ sequences' \in [LogNumbers -> SequenceType]
      /\ \A l \in LogNumbers : sequences'[l] = IF l = ln THEN new ELSE sequences[l]
    BY <1>3, <1>5 DEF Allocate, old, new
<1>7. \A l \in LogNumbers :
          /\ LastLandmark(sequences'[l]) \in Nat
          /\ LastLandmark(sequences[l]) <= LastLandmark(sequences'[l])
          /\ LastLandmark(sequences'[l]) <= LastLandmark(sequences[l]) + 1
          /\ Len(sequences'[l].expiries) = Len(sequences'[l].landmarks)
    <2> SUFFICES ASSUME NEW l \in LogNumbers
                 PROVE  /\ LastLandmark(sequences'[l]) \in Nat
                        /\ LastLandmark(sequences[l]) <= LastLandmark(sequences'[l])
                        /\ LastLandmark(sequences'[l]) <= LastLandmark(sequences[l]) + 1
                        /\ Len(sequences'[l].expiries) = Len(sequences'[l].landmarks)
        OBVIOUS
    <2>1. LastLandmark(sequences[l]) \in Nat
        BY <1>3
    <2>2. CASE l = ln
        BY <1>5, <1>6, <2>1, <2>2 DEF old
    <2>3. CASE l # ln
        <3>1. sequences'[l] = sequences[l]
            BY <1>6, <2>3
        <3>2. Len(sequences[l].expiries) = Len(sequences[l].landmarks)
            BY <1>1 DEF TypeOK
        <3> QED BY <2>1, <3>1, <3>2
    <2> QED BY <2>2, <2>3
<1>8. LandmarksAreBounded'
    <2>1. PICK bound \in Nat : \A l \in LogNumbers : LastLandmark(sequences[l]) <= bound
        BY DEF IInv, LandmarksAreBounded
    <2>2. \A l \in LogNumbers : LastLandmark(sequences'[l]) <= bound + 1
        BY <1>3, <1>7, <2>1
    <2> QED BY <2>1, <2>2 DEF LandmarksAreBounded
<1>9. TypeOK'
    <2>1. \A pair \in handedOut :
              /\ pair \in LogNumbers \X Nat
              /\ pair[2] \in 1..LastLandmark(sequences'[pair[1]])
        <3> TAKE pair \in handedOut
        <3>1. pair \in LogNumbers \X Nat /\ pair[2] \in 1..LastLandmark(sequences[pair[1]])
            BY <1>1 DEF TypeOK
        <3>2. pair[1] \in LogNumbers /\ pair[2] \in Nat
            BY <3>1
        <3>3. /\ LastLandmark(sequences[pair[1]]) \in Nat
              /\ LastLandmark(sequences'[pair[1]]) \in Nat
              /\ LastLandmark(sequences[pair[1]]) <= LastLandmark(sequences'[pair[1]])
            BY <1>3, <1>7, <3>2
        <3> QED BY <3>1, <3>2, <3>3
    <2>2. \A l \in LogNumbers : LastLandmark(sequences'[l]) >= 0
        BY <1>7
    <2> HIDE DEF SequenceType
    <2> QED BY <1>1, <1>6, <1>7, <2>1, <2>2 DEF TypeOK, Size, SequenceType
<1> QED BY <1>1, <1>2, <1>8, <1>9, HeldKept, SubtreesKept DEF IInv

(* The three ways to make a certificate. *)
LEMMA HeldStep ==
    ASSUME IInv, NEW ln \in LogNumbers, NEW index \in 1..(Size(ln) - 1), NEW leaves,
           Len(leaves) = Size(ln), NEW keys \in Seq(Keys),
           leaves = Leaves(ln) \/ \A i \in DOMAIN keys : keys[i] \in FaultyKeys,
           NEW extensions, NEW tbs, NEW st, NEW how,
           NEW cert \in CreateCertificate(leaves, ln, index, extensions, tbs, st, keys),
           held' = [kind |-> how, cert |-> cert, log |-> ln, index |-> index, keys |-> keys],
           UNCHANGED <<logs, sequences, cfg, handedOut, revoked>>
    PROVE  IInv'
<1>1. TypeOK /\ index \in Nat
    BY LenProperties, SMTT(30) DEF IInv, TypeOK, Size, LogSize
<1>2. /\ GoodCertificate(cert)
      /\ cert.end \in 0..Size(ln) /\ cert.start \in 0..cert.end
      /\ index \in cert.start..(cert.end - 1)
    BY <1>1, CreatedIsGood
<1>3. \A m : Genuine(m) => Genuine(m)'
    BY SameLogs
<1>4. GoodCertificate(cert)'
    BY <1>2, <1>3, GoodKept
<1>5. held'.cert = cert /\ held'.log = ln /\ held'.index = index
    OBVIOUS
<1>6. GoodCertificate(held.cert)'
    BY <1>4, <1>5
<1>7. TypeOK'
    BY <1>1, <1>2, <1>5 DEF TypeOK, Size
<1> QED BY <1>3, <1>6, <1>7, SubtreesKept DEF IInv, LandmarksAreBounded

LEMMA IssueStep ==
    ASSUME IInv, NEW ln \in LogNumbers, NEW index \in 1..(Size(ln) - 1),
           NEW content \in Contents, NEW keys \in Seq(Keys),
           \/ IssueCosigned(ln, index, content, keys)
           \/ IssueUnlogged(ln, index, content, keys)
           \/ IssueLandmarkRelative(ln, index, content)
    PROVE  IInv'
<1>1. keys \in Seq(Keys) /\ <<>> \in Seq(Keys)
    OBVIOUS
<1>2. /\ UNCHANGED <<logs, sequences, cfg, handedOut, revoked>>
      /\ logs[ln].leaves \in Seq(Entries) /\ Len(Leaves(ln)) = Size(ln)
    BY DEF IssueCosigned, IssueUnlogged, IssueLandmarkRelative, IInv, TypeOK, Leaves,
           Size, LogSize
<1>3. CASE IssueCosigned(ln, index, content, keys)
    <2>1. PICK cert \in CreateCertificate(Leaves(ln), ln, index, content.extensions,
                             content.tbs, CoveringSubtree(index, Size(ln)), keys) :
              held' = [kind |-> "cosigned", cert |-> cert, log |-> ln, index |-> index,
                       keys |-> keys]
        BY <1>3 DEF IssueCosigned, HeldCertificate
    <2> QED BY <1>1, <1>2, <2>1, HeldStep
<1>4. CASE IssueLandmarkRelative(ln, index, content)
    <2>1. PICK cert \in CreateCertificate(Leaves(ln), ln, index, content.extensions,
                             content.tbs,
                             FindContainingLandmark(sequences[ln], index).subtree, <<>>) :
              held' = [kind |-> "landmark", cert |-> cert, log |-> ln, index |-> index,
                       keys |-> <<>>]
        BY <1>4 DEF IssueLandmarkRelative, HeldCertificate
    <2> QED BY <1>1, <1>2, <2>1, HeldStep
<1>5. CASE IssueUnlogged(ln, index, content, keys)
    <2> DEFINE other == [Leaves(ln) EXCEPT ![index + 1] = EntryOf(content)]
    <2>1. /\ \A i \in DOMAIN keys : keys[i] \in FaultyKeys
          /\ \E cert \in CreateCertificate(other, ln, index, content.extensions,
                               content.tbs, CoveringSubtree(index, Size(ln)), keys) :
                 held' = [kind |-> "unlogged", cert |-> cert, log |-> ln, index |-> index,
                          keys |-> keys]
        BY <1>5 DEF IssueUnlogged
    <2>2. Len(other) = Size(ln)
        <3>1. /\ Leaves(ln) \in Seq(Entries) /\ EntryOf(content) \in Entries
            BY <1>2 DEF Leaves, Entries
        <3>2. other \in Seq(Entries) /\ Len(other) = Len(Leaves(ln))
            <4>1. Len(Leaves(ln)) \in Nat
                BY <3>1, LenProperties
            <4>2. index + 1 \in 1..Len(Leaves(ln))
                BY <1>2, <4>1
            <4> QED BY <3>1, <4>2, ExceptSeq
        <3> QED BY <1>2, <3>2
    <2> HIDE DEF other
    <2>3. PICK cert \in CreateCertificate(other, ln, index, content.extensions,
                             content.tbs, CoveringSubtree(index, Size(ln)), keys) :
              held' = [kind |-> "unlogged", cert |-> cert, log |-> ln, index |-> index,
                       keys |-> keys]
        BY <2>1
    <2> QED BY <1>1, <1>2, <2>1, <2>2, <2>3, HeldStep
<1> QED BY <1>3, <1>4, <1>5

(* Of finitely many landmarks there are finitely many subtrees, and their   *)
(* hashes are the logs'.                                                    *)
LEMMA SubtreesAreFinite ==
    ASSUME NEW L, IsFiniteSet(L)
    PROVE  IsFiniteSet(TrustedSubtrees(L))
<1> DEFINE Subtree(ln, st) ==
               [logNumber |-> ln, start |-> st.start, end |-> st.end,
                hash |-> SubtreeView(Leaves(ln), st.start, st.end)]
           Nth(pair, k) == Subtree(pair[1], LandmarkSubtrees(sequences[pair[1]], pair[2])[k])
           D == L \X (1..2)
           f == [x \in D |-> Nth(x[1], x[2])]
           T == {f[x] : x \in D}
<1>1. IsFiniteSet(D)
    <2>1. IsFiniteSet(1..2)
        <3>1. PICK a \in Int, b \in Int : a = 1 /\ b = 2
            OBVIOUS
        <3>2. IsFiniteSet(a..b)
            BY FS_Interval
        <3> QED BY <3>1, <3>2
    <2> HIDE DEF f, T, Nth, Subtree
    <2> QED BY <2>1, FS_Product
<1>2. f \in Surjection(D, T)
    BY DEF Surjection
<1>3. IsFiniteSet(T)
    <2> HIDE DEF D, f, T
    <2> QED BY <1>1, <1>2, FS_Surjection
<1>4. TrustedSubtrees(L) \subseteq T
    <2> SUFFICES ASSUME NEW ts \in TrustedSubtrees(L) PROVE ts \in T
        OBVIOUS
    <2>1. PICK pair \in L, k \in 1..2 : ts = Nth(pair, k)
        <3> HIDE DEF T, f
        <3> QED BY DEF TrustedSubtrees
    <2>2. <<pair, k>> \in D /\ f[<<pair, k>>] = Nth(pair, k)
        <3> HIDE DEF Nth
        <3> QED OBVIOUS
    <2> HIDE DEF Nth, f, D
    <2> QED BY <2>1, <2>2
<1> QED BY <1>3, <1>4, FS_Subset

LEMMA SubtreesAreGenuine ==
    ASSUME NEW L, \A pair \in L : pair[1] \in LogNumbers, NEW ts \in TrustedSubtrees(L)
    PROVE  Genuine(ts)
<1>1. PICK pair \in L, k \in 1..2 :
          LET st == LandmarkSubtrees(sequences[pair[1]], pair[2])[k]
          IN  ts = [logNumber |-> pair[1], start |-> st.start, end |-> st.end,
                    hash |-> SubtreeView(Leaves(pair[1]), st.start, st.end)]
    BY DEF TrustedSubtrees
<1>2. HasHash(Size(ts.logNumber), ts)
    BY DEF TrustedSubtrees
<1> QED BY <1>1, <1>2 DEF Genuine, HasHash

LEMMA FinitelyMany ==
    ASSUME IInv, NEW L, L \subseteq LogNumbers \X Nat,
           \A pair \in L : pair[2] \in 1..LastLandmark(sequences[pair[1]])
    PROVE  IsFiniteSet(TrustedSubtrees(L))
<1>1. PICK bound \in Nat : \A l \in LogNumbers : LastLandmark(sequences[l]) <= bound
    BY DEF IInv, LandmarksAreBounded
<1>2. \A l \in LogNumbers : LastLandmark(sequences[l]) \in Nat
    <2>1. \A l \in LogNumbers : sequences[l].landmarks \in Seq(Nat)
        BY DEF IInv, TypeOK
    <2>2. \A l \in LogNumbers : Len(sequences[l].landmarks) \in Nat
        BY <2>1, LenProperties
    <2> QED BY <2>2 DEF IInv, TypeOK, LastLandmark
<1>3. L \subseteq LogNumbers \X (1..bound)
    BY <1>1, <1>2
<1>4. IsFiniteSet(LogNumbers \X (1..bound))
    <2>1. IsFiniteSet(1..bound)
        BY <1>1, FS_Interval
    <2>2. IsFiniteSet(LogNumbers)
        BY RelyingPartyConstants
    <2> QED BY <2>1, <2>2, FS_Product
<1>5. IsFiniteSet(L)
    BY <1>3, <1>4, FS_Subset
<1> QED BY <1>5, SubtreesAreFinite

(* HandOut: all the subtrees are replaced. *)
LEMMA HandOutStep ==
    ASSUME IInv, NEW now \in Times, HandOut(now)
    PROVE  IInv'
<1>1. TypeOK /\ UNCHANGED <<logs, sequences, held, revoked>>
    BY DEF IInv, HandOut
<1>2. \A m : Genuine(m) => Genuine(m)'
    BY <1>1, SameLogs
<1>3. \A pair \in handedOut' :
          /\ pair \in LogNumbers \X Nat
          /\ pair[2] \in 1..LastLandmark(sequences[pair[1]])
    BY DEF HandOut, ActiveLandmarks
<1>4. PICK L : L = handedOut'
    OBVIOUS
<1>5. IsFiniteSet(TrustedSubtrees(L))
    BY <1>3, <1>4, FinitelyMany
<1>6. cfg' = [cosigners |-> Trusted, policy |-> cfg.policy,
              subtrees |-> SetToSeq(TrustedSubtrees(L)), revoked |-> cfg.revoked]
    BY <1>1, <1>4 DEF HandOut, TypeOK
<1>7. \A i \in DOMAIN cfg'.subtrees : Genuine(cfg.subtrees[i])'
    <2> SUFFICES ASSUME NEW i \in DOMAIN cfg'.subtrees PROVE Genuine(cfg.subtrees[i])'
        OBVIOUS
    <2>1. PICK m : m = cfg'.subtrees[i]
        OBVIOUS
    <2>2. m \in TrustedSubtrees(L)
        <3>1. IsFiniteSet(TrustedSubtrees(L))
            BY <1>5
        <3>2. cfg'.subtrees = SetToSeq(TrustedSubtrees(L))
            BY <1>6
        <3>3. SetToSeq(TrustedSubtrees(L))[i] \in TrustedSubtrees(L)
            BY <3>1, <3>2, SetToSeqElements
        <3> QED BY <2>1, <3>2, <3>3
    <2>3. \A pair \in L : pair[1] \in LogNumbers
        BY <1>3, <1>4
    <2>4. Genuine(m)'
        BY <1>2, <2>2, <2>3, SubtreesAreGenuine
    <2> QED BY <2>1, <2>4
<1>8. TypeOK'
    BY <1>1, <1>3, <1>6 DEF TypeOK, Size
<1> QED BY <1>1, <1>2, <1>7, <1>8, HeldKept DEF IInv, LandmarksAreBounded

LEMMA RevokeStep ==
    ASSUME IInv, NEW ln \in LogNumbers, NEW range \in Ranges,
           Revoke(ln, range[1], range[2])
    PROVE  IInv'
<1>1. TypeOK /\ UNCHANGED <<logs, sequences, held, handedOut>>
    BY DEF IInv, Revoke
<1>2. \A m : Genuine(m) => Genuine(m)'
    BY <1>1, SameLogs
<1>3. PICK ranges : cfg' = [cosigners |-> Trusted, policy |-> cfg.policy,
                            subtrees |-> cfg.subtrees, revoked |-> ranges]
    <2>1. PICK ranges : cfg' = [cfg EXCEPT !.revoked = ranges]
        BY DEF Revoke
    <2>2. cfg = [cosigners |-> Trusted, policy |-> cfg.policy,
                 subtrees |-> cfg.subtrees, revoked |-> cfg.revoked]
        BY <1>1 DEF TypeOK
    <2>3. cfg' = [cosigners |-> Trusted, policy |-> cfg.policy,
                  subtrees |-> cfg.subtrees, revoked |-> ranges]
        BY <2>1, <2>2
    <2> QED BY <2>3
<1>4. revoked' \subseteq LogNumbers \X (0..(2^IndexBits))
    <2>1. /\ range[1] \in 0..(2^IndexBits) /\ range[2] \in 0..(2^IndexBits)
          /\ 2^IndexBits \in Nat
        BY IndexBitsPositive, RelyingPartyConstants
    <2>2. range[1]..(range[2] - 1) \subseteq 0..(2^IndexBits)
        BY <2>1
    <2>3. revoked' = revoked \union ({ln} \X (range[1]..(range[2] - 1)))
        BY DEF Revoke
    <2> QED BY <1>1, <2>2, <2>3 DEF TypeOK
<1>5. cfg'.subtrees = cfg.subtrees
    BY <1>3
<1>6. TypeOK'
    BY <1>1, <1>3, <1>4 DEF TypeOK, Size
<1> QED BY <1>1, <1>2, <1>5, <1>6, HeldKept, SubtreesKept DEF IInv, LandmarksAreBounded

(* IInv is inductive, one lemma per action. *)
LEMMA Invariance == Spec => []IInv
<1>1. IInv /\ [Next]_vars => IInv'
    <2> SUFFICES ASSUME IInv, [Next]_vars PROVE IInv'
        OBVIOUS
    <2>1. CASE UNCHANGED vars
        <3>1. UNCHANGED <<logs, sequences, cfg, held, handedOut, revoked>>
            BY <2>1 DEF vars
        <3>2. \A m : Genuine(m) => Genuine(m)'
            BY <3>1, SameLogs
        <3>3. TypeOK'
            BY <3>1 DEF IInv, TypeOK, Size
        <3>4. LandmarksAreBounded'
            BY <3>1 DEF IInv, LandmarksAreBounded
        <3> QED BY <3>1, <3>2, <3>3, <3>4, HeldKept, SubtreesKept DEF IInv
    <2>2. CASE \E ln \in LogNumbers, content \in Contents : Add(ln, content)
        BY <2>2, AddStep
    <2>3. CASE \E ln \in LogNumbers, expiry \in Times : Allocate(ln, expiry)
        BY <2>3, AllocateStep
    <2>4. CASE \E ln \in LogNumbers : \E index \in 1..(Size(ln) - 1), content \in Contents :
                   \E keys \in KeyLists : \/ IssueCosigned(ln, index, content, keys)
                                          \/ IssueUnlogged(ln, index, content, keys)
        BY <2>4, IssueStep, RelyingPartyConstants
    <2>5. CASE \E ln \in LogNumbers : \E index \in 1..(Size(ln) - 1), content \in Contents :
                   IssueLandmarkRelative(ln, index, content)
        <3>1. <<>> \in Seq(Keys)
            OBVIOUS
        <3> QED BY <2>5, <3>1, IssueStep
    <2>6. CASE \E ln \in LogNumbers, range \in Ranges : Revoke(ln, range[1], range[2])
        BY <2>6, RevokeStep
    <2>7. CASE \E now \in Times : HandOut(now)
        BY <2>7, HandOutStep
    <2>8. CASE Next
        BY <2>2, <2>3, <2>4, <2>5, <2>6, <2>7, <2>8 DEF Next
    <2> QED BY <2>1, <2>8
<1> QED BY <1>1, InitialIInv, PTL DEF Spec

(* What the relying party has always refers to what the authority has:      *)
(* landmarks that exist, entries and subtrees of its logs.                  *)
THEOREM TypeCorrectness == Spec => []TypeOK
<1>1. IInv => TypeOK
    BY DEF IInv
<1> QED BY <1>1, Invariance, PTL

(* A relying party that asks for more trusted cosigners than are faulty     *)
(* accepts no certificate, whatever serial number, contents and extensions  *)
(* it has, for an entry that is not in the log at that index                *)
(* (verify.go:96-238).                                                      *)
THEOREM AcceptedEntriesAreLogged == Spec => []OnlyLoggedEntriesAreAccepted
<1>1. IInv => OnlyLoggedEntriesAreAccepted
    BY AcceptedIsLogged DEF OnlyLoggedEntriesAreAccepted
<1> QED BY <1>1, Invariance, PTL

-----------------------------------------------------------------------------
(* Revocation *)

LEMMA NextMultiple ==
    ASSUME NEW M \in Nat, NEW a \in Nat, NEW b \in Nat, a < b
    PROVE  a * M + M <= b * M
<1>1. PICK d \in Nat : b = a + 1 + d
    <2>1. b - a - 1 \in Nat /\ b = a + 1 + (b - a - 1)
        OBVIOUS
    <2> QED BY <2>1
<1>2. d * M \in Nat
    OBVIOUS
<1>3. (a + 1 + d) * M = a * M + M + d * M
    OBVIOUS
<1>4. a * M \in Nat
    OBVIOUS
<1> QED BY <1>1, <1>2, <1>3, <1>4

(* The serial numbers of a log's indices lie between those of the logs      *)
(* before and after, whole ranges of them up to one beyond the last.        *)
LEMMA RangesStayInTheirLog ==
    ASSUME NEW M \in Nat \ {0}, NEW a \in Nat, NEW b \in Nat, NEW i \in 0..(M - 1),
           NEW first \in 0..M, NEW last \in 0..M
    PROVE  (a * M + first <= b * M + i /\ b * M + i < a * M + last)
               <=> (a = b /\ first <= i /\ i < last)
<1>1. PICK x \in Nat, y \in Nat : x = a * M /\ y = b * M
    <2>1. a * M \in Nat /\ b * M \in Nat
        OBVIOUS
    <2> QED BY <2>1
<1>2. CASE a = b
    BY <1>1, <1>2
<1>3. CASE a < b
    <2>1. x + M <= y
        BY <1>1, <1>3, NextMultiple
    <2> QED BY <1>1, <1>3, <2>1
<1>4. CASE b < a
    <2>1. y + M <= x
        BY <1>1, <1>4, NextMultiple
    <2> QED BY <1>1, <1>4, <2>1
<1> QED BY <1>2, <1>3, <1>4

LEMMA RevocationStaysExact ==
    ASSUME TypeOK, RevocationIsExact, NEW ln \in LogNumbers, NEW range \in Ranges,
           Revoke(ln, range[1], range[2])
    PROVE  RevocationIsExact'
<1> SUFFICES ASSUME NEW l \in LogNumbers, NEW index \in 0..(2^IndexBits - 1)
             PROVE  IsRevoked(cfg'.revoked, Serial(l, index)) = (<<l, index>> \in revoked')
    BY DEF RevocationIsExact
<1>1. PICK M : M = 2^IndexBits
    OBVIOUS
<1>2. /\ M \in Nat \ {0} /\ index \in 0..(M - 1) /\ l \in Nat /\ ln \in Nat
      /\ range[1] \in 0..M /\ range[2] \in 0..M
    BY <1>1, IndexBitsPositive, RelyingPartyConstants
<1> DEFINE new == [start |-> Serial(ln, range[1]), end |-> Serial(ln, range[2])]
<1>3. cfg'.revoked = cfg.revoked \union {new}
    <2>1. cfg' = [cfg EXCEPT !.revoked = cfg.revoked \union {new}]
        BY DEF Revoke
    <2>2. cfg = [cosigners |-> Trusted, policy |-> cfg.policy,
                 subtrees |-> cfg.subtrees, revoked |-> cfg.revoked]
        BY DEF TypeOK
    <2> HIDE DEF new
    <2> QED BY <2>1, <2>2
<1>4. revoked' = revoked \union ({ln} \X (range[1]..(range[2] - 1)))
    BY DEF Revoke
<1>5. IsRevoked(cfg'.revoked, Serial(l, index)) <=>
          \/ IsRevoked(cfg.revoked, Serial(l, index))
          \/ new.start <= Serial(l, index) /\ Serial(l, index) < new.end
    BY <1>3 DEF IsRevoked
<1>6. (new.start <= Serial(l, index) /\ Serial(l, index) < new.end)
          <=> (ln = l /\ range[1] <= index /\ index < range[2])
    BY <1>1, <1>2, RangesStayInTheirLog DEF Serial
<1>7. <<l, index>> \in {ln} \X (range[1]..(range[2] - 1))
          <=> (ln = l /\ range[1] <= index /\ index < range[2])
    BY <1>2
<1>8. IsRevoked(cfg.revoked, Serial(l, index)) = (<<l, index>> \in revoked)
    BY DEF RevocationIsExact
<1> HIDE DEF new
<1>9. IsRevoked(cfg'.revoked, Serial(l, index)) <=> <<l, index>> \in revoked'
    BY <1>4, <1>5, <1>6, <1>7, <1>8
<1>10. /\ IsRevoked(cfg'.revoked, Serial(l, index)) \in BOOLEAN
       /\ (<<l, index>> \in revoked') \in BOOLEAN
    BY DEF IsRevoked
<1> QED BY <1>9, <1>10

(* Whichever ranges of indices are revoked in whichever logs, by their      *)
(* serial numbers, exactly those entries are revoked (verify.go:56-73,      *)
(* 155-163).                                                                *)
THEOREM ExactRevocation == Spec => []RevocationIsExact
<1>1. Init => RevocationIsExact
    <2> SUFFICES ASSUME Init, NEW ln \in LogNumbers, NEW index \in 0..(2^IndexBits - 1)
                 PROVE  IsRevoked(cfg.revoked, Serial(ln, index)) = (<<ln, index>> \in revoked)
        BY DEF RevocationIsExact
    <2>1. cfg.revoked = {} /\ revoked = {}
        BY DEF Init
    <2>2. IsRevoked(cfg.revoked, Serial(ln, index)) = FALSE
        BY <2>1 DEF IsRevoked
    <2>3. (<<ln, index>> \in revoked) = FALSE
        BY <2>1
    <2> QED BY <2>2, <2>3
<1>2. TypeOK /\ RevocationIsExact /\ [Next]_vars => RevocationIsExact'
    <2> SUFFICES ASSUME TypeOK, RevocationIsExact, [Next]_vars PROVE RevocationIsExact'
        OBVIOUS
    <2>1. CASE UNCHANGED <<cfg, revoked>>
        BY <2>1 DEF RevocationIsExact
    <2>2. CASE \E ln \in LogNumbers, range \in Ranges : Revoke(ln, range[1], range[2])
        BY <2>2, RevocationStaysExact
    <2>3. CASE \E now \in Times : HandOut(now)
        <3>1. PICK subtrees : cfg' = [cfg EXCEPT !.subtrees = subtrees]
            BY <2>3 DEF HandOut
        <3>2. cfg = [cosigners |-> Trusted, policy |-> cfg.policy,
                     subtrees |-> cfg.subtrees, revoked |-> cfg.revoked]
            BY DEF TypeOK
        <3>3. cfg'.revoked = cfg.revoked /\ revoked' = revoked
            BY <2>3, <3>1, <3>2 DEF HandOut
        <3> QED BY <3>3 DEF RevocationIsExact
    <2>4. CASE UNCHANGED vars
        BY <2>1, <2>4 DEF vars
    <2>5. CASE \E ln \in LogNumbers :
                   \/ \E content \in Contents : Add(ln, content)
                   \/ \E expiry \in Times : Allocate(ln, expiry)
                   \/ \E index \in 1..(Size(ln) - 1), content \in Contents :
                          \/ \E keys \in KeyLists : IssueCosigned(ln, index, content, keys)
                          \/ \E keys \in KeyLists : IssueUnlogged(ln, index, content, keys)
                          \/ IssueLandmarkRelative(ln, index, content)
        <3>1. ASSUME NEW ln \in LogNumbers, NEW content \in Contents, Add(ln, content)
              PROVE  UNCHANGED <<cfg, revoked>>
            BY <3>1 DEF Add
        <3>2. ASSUME NEW ln \in LogNumbers, NEW expiry \in Times, Allocate(ln, expiry)
              PROVE  UNCHANGED <<cfg, revoked>>
            BY <3>2 DEF Allocate
        <3>3. ASSUME NEW ln \in LogNumbers, NEW index, NEW content \in Contents, NEW keys,
                     \/ IssueCosigned(ln, index, content, keys)
                     \/ IssueUnlogged(ln, index, content, keys)
                     \/ IssueLandmarkRelative(ln, index, content)
              PROVE  UNCHANGED <<cfg, revoked>>
            BY <3>3 DEF IssueCosigned, IssueUnlogged, IssueLandmarkRelative
        <3> QED BY <2>1, <2>5, <3>1, <3>2, <3>3
    <2> QED BY <2>2, <2>3, <2>4, <2>5 DEF Next
<1> QED BY <1>1, <1>2, TypeCorrectness, PTL DEF Spec

-----------------------------------------------------------------------------
(* Certificates of logged entries *)

(* How a certificate of a logged entry was made, from leaves that the log   *)
(* still has.                                                               *)
IsMadeFrom(item, leaves) ==
    /\ item.index \in 1..(Len(leaves) - 1)
    /\ item.keys \in Seq(Keys)
    /\ \E content \in Contents : \E st :
           /\ leaves[item.index + 1] = EntryOf(content)
           /\ item.cert \in CreateCertificate(leaves, item.log, item.index,
                                content.extensions, content.tbs, st, item.keys)

(* A certificate without signatures has the subtree of the landmark that    *)
(* the entry came with.                                                     *)
IsRelativeTo(item, ls) ==
    /\ item.keys = <<>>
    /\ \E num \in 1..LastLandmark(ls), k \in 1..2 :
           /\ TreeSize(ls, num - 1) <= item.index /\ item.index < TreeSize(ls, num)
           /\ Interval(item.cert.start, item.cert.end) = LandmarkSubtrees(ls, num)[k]

SubtreeOf(seqs, pair, k) == LandmarkSubtrees(seqs[pair[1]], pair[2])[k]

IsOf(ts, pair, st) ==
    ts.logNumber = pair[1] /\ ts.start = st.start /\ ts.end = st.end

(* The trusted subtrees are those of the landmarks that were handed out,    *)
(* the empty ones left out.                                                 *)
AreOfLandmarks(subtrees, landmarks, seqs) ==
    /\ DOMAIN subtrees \subseteq Nat
    /\ \A i \in DOMAIN subtrees : \E pair \in landmarks, k \in 1..2 :
           IsOf(subtrees[i], pair, SubtreeOf(seqs, pair, k))
    /\ \A pair \in landmarks, k \in 1..2 :
           SubtreeOf(seqs, pair, k).start < SubtreeOf(seqs, pair, k).end =>
               \E i \in DOMAIN subtrees : IsOf(subtrees[i], pair, SubtreeOf(seqs, pair, k))

SequencesAreOrdered ==
    \A ln \in LogNumbers : OrderedSizes(sequences[ln], Size(ln))

HeldIsMade ==
    held.kind \in {"cosigned", "landmark"} =>
        held.log \in LogNumbers /\ IsMadeFrom(held, Leaves(held.log))

HeldIsRelative ==
    held.kind = "landmark" =>
        held.log \in LogNumbers /\ IsRelativeTo(held, sequences[held.log])

LandmarkInv ==
    /\ SequencesAreOrdered
    /\ HeldIsMade
    /\ HeldIsRelative
    /\ AreOfLandmarks(cfg.subtrees, handedOut, sequences)

(* What the logs are, and that their sizes fit a machine word. *)
LEMMA LogsTyped ==
    ASSUME TypeOK, NEW ln \in LogNumbers
    PROVE  /\ Leaves(ln) \in Seq(Entries) /\ Len(Leaves(ln)) = Size(ln)
           /\ Leaves(ln) = logs[ln].entries
           /\ Size(ln) \in Nat /\ Size(ln) \in Words /\ Size(ln) <= 2^IndexBits
           /\ 2^IndexBits \in Nat \ {0}
<1>1. /\ logs[ln].leaves \in Seq(Entries) /\ logs[ln].leaves = logs[ln].entries
      /\ Size(ln) \in 1..MaxSize[ln]
    BY DEF TypeOK
<1>2. PICK M : M = 2^IndexBits
    OBVIOUS
<1>3. M \in Nat \ {0} /\ M \in Words /\ MaxSize[ln] \in 1..M
    BY <1>2, IndexBitsPositive, RelyingPartyConstants
<1>4. Size(ln) \in Nat /\ Size(ln) <= M
    BY <1>1, <1>3
<1>5. Size(ln) \in Words
    BY <1>3, <1>4, Pow2Type, WordWidth DEF Words
<1> QED BY <1>1, <1>2, <1>3, <1>4, <1>5 DEF Leaves, Size, LogSize

LEMMA InitialLandmarkInv == Init => LandmarkInv
<1> SUFFICES ASSUME Init PROVE LandmarkInv
    OBVIOUS
<1>1. /\ held = Nothing /\ handedOut = {} /\ cfg.subtrees = <<>>
      /\ \A ln \in LogNumbers : sequences[ln].landmarks = <<0>>
    BY DEF Init, NewLandmarkSequence
<1>2. SequencesAreOrdered
    <2> SUFFICES ASSUME NEW ln \in LogNumbers PROVE OrderedSizes(sequences[ln], Size(ln))
        BY DEF SequencesAreOrdered
    <2>1. Size(ln) \in Nat
        BY InitialIInv, LogsTyped DEF IInv
    <2>2. PICK l : l = <<0>>
        OBVIOUS
    <2>3. l \in Seq(Nat) /\ Len(l) = 1 /\ l[1] = 0
        BY <2>2
    <2>4. sequences[ln].landmarks = l
        BY <1>1, <2>2
    <2>5. \A i \in 1..1 : i = 1
        OBVIOUS
    <2>6. /\ Len(l) >= 1
          /\ \A i, j \in 1..1 : i < j => l[i] < l[j]
          /\ \A i \in 1..1 : l[i] <= Size(ln)
        BY <2>1, <2>3, <2>5
    <2>7. 1..Len(l) = 1..1
        BY <2>3
    <2> QED BY <2>3, <2>4, <2>6, <2>7 DEF OrderedSizes
<1>3. AreOfLandmarks(cfg.subtrees, handedOut, sequences)
    BY <1>1 DEF AreOfLandmarks
<1> QED BY <1>1, <1>2, <1>3 DEF LandmarkInv, HeldIsMade, HeldIsRelative, Nothing

(* A log that grows keeps how a certificate was made. *)
LEMMA GrownLeavesMade ==
    ASSUME NEW S, NEW leaves \in Seq(S), NEW e \in S, NEW item, IsMadeFrom(item, leaves)
    PROVE  IsMadeFrom(item, Append(leaves, e))
<1> DEFINE grown == Append(leaves, e)
<1>1. /\ Len(leaves) \in Nat /\ Len(grown) = Len(leaves) + 1
      /\ \A i \in 1..Len(leaves) : grown[i] = leaves[i]
    BY AppendProperties, LenProperties
<1>a. PICK content \in Contents : \E t :
          /\ leaves[item.index + 1] = EntryOf(content)
          /\ item.cert \in CreateCertificate(leaves, item.log, item.index,
                               content.extensions, content.tbs, t, item.keys)
    BY DEF IsMadeFrom
<1>2. PICK st :
          /\ leaves[item.index + 1] = EntryOf(content)
          /\ item.cert \in CreateCertificate(leaves, item.log, item.index,
                               content.extensions, content.tbs, st, item.keys)
    BY <1>a
<1>3. item.cert \in CreateCertificate(grown, item.log, item.index,
                        content.extensions, content.tbs, st, item.keys)
    BY <1>2, CreatedFromGrown
<1> HIDE DEF grown
<1>4. item.index \in 1..(Len(leaves) - 1)
    BY DEF IsMadeFrom
<1>5. item.index \in 1..(Len(grown) - 1) /\ item.index + 1 \in 1..Len(leaves)
    BY <1>1, <1>4
<1>6. grown[item.index + 1] = EntryOf(content)
    BY <1>1, <1>2, <1>5
<1>7. item.keys \in Seq(Keys)
    BY DEF IsMadeFrom
<1>8. IsMadeFrom(item, grown)
    BY <1>3, <1>5, <1>6, <1>7 DEF IsMadeFrom
<1> QED BY <1>8 DEF grown

LEMMA AddKeepsLandmarkInv ==
    ASSUME TypeOK, LandmarkInv, NEW ln \in LogNumbers, NEW content \in Contents,
           Add(ln, content)
    PROVE  LandmarkInv'
<1> DEFINE entry == EntryOf(content)
<1>1. UNCHANGED <<sequences, cfg, held, handedOut, revoked>>
    BY DEF Add
<1>2. /\ \A l \in LogNumbers : Leaves(l) \in Seq(Entries) /\ Len(Leaves(l)) = Size(l)
                               /\ Size(l) \in Nat /\ Leaves(l) = logs[l].entries
      /\ entry \in Entries
    BY LogsTyped DEF Entries
<1>3. ASSUME NEW l \in LogNumbers
      PROVE  /\ Leaves(l)' = IF l = ln THEN Append(Leaves(l), entry) ELSE Leaves(l)
             /\ Size(l)' \in Nat /\ Size(l) <= Size(l)'
    <2>1. CASE l = ln
        <3>1. PICK grown : grown = Append(logs[ln].entries, entry)
            OBVIOUS
        <3>2. logs'[l] = Log(grown, grown, logs[ln].minIndex)
            BY <2>1, <3>1 DEF Add, AddEntryTo, TypeOK
        <3>3. logs'[l].entries = grown /\ logs'[l].leaves = grown
            BY <3>2 DEF Log
        <3>4. grown = Append(Leaves(l), entry)
            BY <1>2, <2>1, <3>1
        <3>5. Len(grown) = Size(l) + 1
            <4> HIDE DEF entry
            <4> QED BY <1>2, <3>4, AppendProperties
        <3> QED BY <1>2, <2>1, <3>3, <3>4, <3>5 DEF Leaves, Size, LogSize
    <2>2. CASE l # ln
        <3>1. logs'[l] = logs[l]
            BY <2>2 DEF Add, TypeOK
        <3> QED BY <1>2, <2>2, <3>1 DEF Leaves, Size, LogSize
    <2> QED BY <2>1, <2>2
<1> HIDE DEF entry
<1>4. ASSUME NEW l \in LogNumbers PROVE OrderedSizes(sequences'[l], Size(l)')
    <2>1. OrderedSizes(sequences[l], Size(l)) /\ Size(l) \in Nat
        BY <1>2 DEF LandmarkInv, SequencesAreOrdered
    <2>2. PICK later : later = Size(l)'
        OBVIOUS
    <2>3. later \in Nat /\ Size(l) <= later
        BY <1>3, <2>2
    <2>4. OrderedSizes(sequences[l], later)
        BY <2>1, <2>3, SizesStayOrdered
    <2> QED BY <1>1, <2>2, <2>4
<1>5. ASSUME held.kind \in {"cosigned", "landmark"}
      PROVE  held.log \in LogNumbers /\ IsMadeFrom(held, Leaves(held.log)')
    <2>1. held.log \in LogNumbers /\ IsMadeFrom(held, Leaves(held.log))
        BY <1>5 DEF LandmarkInv, HeldIsMade
    <2>2. PICK l \in LogNumbers : l = held.log
        BY <2>1
    <2>3. IsMadeFrom(held, Append(Leaves(l), entry))
        <3>1. IsMadeFrom(held, Leaves(l)) /\ Leaves(l) \in Seq(Entries)
            BY <1>2, <2>1, <2>2
        <3> QED BY <1>2, <3>1, GrownLeavesMade
    <2>4. IsMadeFrom(held, Leaves(l)')
        BY <1>3, <2>1, <2>2, <2>3
    <2>5. Leaves(l)' = Leaves(held.log)'
        BY <1>1, <2>2
    <2> QED BY <2>1, <2>4, <2>5
<1>6. HeldIsMade'
    BY <1>1, <1>5 DEF HeldIsMade
<1>7. SequencesAreOrdered'
    BY <1>4 DEF SequencesAreOrdered
<1>8. HeldIsRelative' /\ AreOfLandmarks(cfg'.subtrees, handedOut', sequences')
    BY <1>1 DEF LandmarkInv, HeldIsRelative
<1> QED BY <1>6, <1>7, <1>8 DEF LandmarkInv

LEMMA AllocateKeepsLandmarkInv ==
    ASSUME TypeOK, LandmarkInv, NEW ln \in LogNumbers, NEW expiry \in Times,
           Allocate(ln, expiry)
    PROVE  LandmarkInv'
<1> DEFINE new == AllocateLandmark(sequences[ln], Size(ln), expiry)
<1>1. UNCHANGED <<logs, cfg, held, handedOut, revoked>>
    BY DEF Allocate
<1>2. \A l \in LogNumbers : OrderedSizes(sequences[l], Size(l)) /\ Size(l) \in Nat
    BY LogsTyped DEF LandmarkInv, SequencesAreOrdered
<1>3. /\ OrderedSizes(new, Size(ln))
      /\ LastLandmark(new) = LastLandmark(sequences[ln]) + 1
      /\ \A num \in 0..LastLandmark(sequences[ln]) :
             TreeSize(new, num) = TreeSize(sequences[ln], num)
      /\ \A num \in 1..LastLandmark(sequences[ln]) :
             LandmarkSubtrees(new, num) = LandmarkSubtrees(sequences[ln], num)
    <2>1. CanAllocate(sequences[ln], Size(ln), expiry)
        BY DEF Allocate
    <2> QED BY <1>2, <2>1, AllocatedSizes
<1>4. \A l \in LogNumbers : sequences'[l] = IF l = ln THEN new ELSE sequences[l]
    BY DEF Allocate, TypeOK
<1> HIDE DEF new
<1>5. ASSUME NEW l \in LogNumbers
      PROVE  /\ LastLandmark(sequences[l]) \in Nat
             /\ LastLandmark(sequences'[l]) \in Nat
             /\ LastLandmark(sequences[l]) <= LastLandmark(sequences'[l])
             /\ \A num \in 0..LastLandmark(sequences[l]) :
                    TreeSize(sequences'[l], num) = TreeSize(sequences[l], num)
             /\ \A num \in 1..LastLandmark(sequences[l]) :
                    LandmarkSubtrees(sequences'[l], num) = LandmarkSubtrees(sequences[l], num)
             /\ OrderedSizes(sequences'[l], Size(l)')
    <2>1. LastLandmark(sequences[l]) \in Nat
        <3>1. Size(l) \in Words
            BY LogsTyped
        <3> QED BY <1>2, <3>1, LandmarkSizes
    <2>2. Size(l)' = Size(l)
        BY <1>1 DEF Size
    <2>3. CASE l = ln
        BY <1>3, <1>4, <2>1, <2>2, <2>3
    <2>4. CASE l # ln
        BY <1>2, <1>4, <2>1, <2>2, <2>4
    <2> QED BY <2>3, <2>4
<1>6. HeldIsMade'
    BY <1>1 DEF LandmarkInv, HeldIsMade, Leaves
<1>7. HeldIsRelative'
    <2> SUFFICES ASSUME held.kind = "landmark"
                 PROVE  held.log \in LogNumbers /\ IsRelativeTo(held, sequences'[held.log])
        BY <1>1 DEF HeldIsRelative
    <2>1. held.log \in LogNumbers /\ IsRelativeTo(held, sequences[held.log])
        BY DEF LandmarkInv, HeldIsRelative
    <2> DEFINE old == sequences[held.log]
               ls  == sequences'[held.log]
    <2>2. PICK num \in 1..LastLandmark(old), k \in 1..2 :
              /\ TreeSize(old, num - 1) <= held.index /\ held.index < TreeSize(old, num)
              /\ Interval(held.cert.start, held.cert.end) = LandmarkSubtrees(old, num)[k]
        BY <2>1 DEF IsRelativeTo
    <2>3. num \in 0..LastLandmark(old) /\ num - 1 \in 0..LastLandmark(old)
          /\ num \in 1..LastLandmark(ls)
        BY <1>5, <2>1
    <2>4. /\ TreeSize(ls, num - 1) = TreeSize(old, num - 1)
          /\ TreeSize(ls, num) = TreeSize(old, num)
          /\ LandmarkSubtrees(ls, num) = LandmarkSubtrees(old, num)
        BY <1>5, <2>1, <2>3
    <2>5. held.keys = <<>>
        BY <2>1 DEF IsRelativeTo
    <2> HIDE DEF old, ls
    <2>6. IsRelativeTo(held, ls)
        BY <2>2, <2>3, <2>4, <2>5 DEF IsRelativeTo
    <2> QED BY <2>1, <2>6 DEF ls
<1>8. AreOfLandmarks(cfg'.subtrees, handedOut', sequences')
    <2>1. \A pair \in handedOut, k \in 1..2 :
              SubtreeOf(sequences', pair, k) = SubtreeOf(sequences, pair, k)
        <3> TAKE pair \in handedOut, k \in 1..2
        <3>1. pair[1] \in LogNumbers /\ pair[2] \in 1..LastLandmark(sequences[pair[1]])
            BY DEF TypeOK
        <3> QED BY <1>5, <3>1 DEF SubtreeOf
    <2>2. AreOfLandmarks(cfg.subtrees, handedOut, sequences)
        BY DEF LandmarkInv
    <2>3. AreOfLandmarks(cfg.subtrees, handedOut, sequences')
        BY <2>1, <2>2 DEF AreOfLandmarks
    <2> QED BY <1>1, <2>3
<1>9. SequencesAreOrdered'
    BY <1>5 DEF SequencesAreOrdered
<1> QED BY <1>6, <1>7, <1>8, <1>9 DEF LandmarkInv

(* The subtrees of a landmark are subtrees the log has a hash for. *)
LEMMA LandmarkSubtreesHaveHashes ==
    ASSUME NEW size \in Words, NEW l, OrderedSizes(l, size),
           NEW num \in 1..LastLandmark(l), NEW k \in 1..2
    PROVE  LET st == LandmarkSubtrees(l, num)[k]
           IN  HasHash(size, st) /\ st = Interval(st.start, st.end)
<1> DEFINE lo == TreeSize(l, num - 1)
           hi == TreeSize(l, num)
           st == LandmarkSubtrees(l, num)[k]
<1>1. /\ lo \in Nat /\ lo < hi /\ hi \in 1..size
      /\ TightCover(LandmarkSubtrees(l, num), lo, hi)
    BY LandmarkIsCovered
<1> HIDE DEF lo, hi
<1>2. PICK first \in Nat, mid \in Nat :
          /\ LandmarkSubtrees(l, num) = <<Interval(first, mid), Interval(mid, hi)>>
          /\ first <= lo /\ lo <= mid /\ mid <= hi
          /\ IsSubtree(first, mid) /\ IsSubtree(mid, hi)
    BY <1>1 DEF TightCover
<1>3. size \in Nat /\ first \in Words /\ mid \in Words /\ hi \in Words
    BY <1>1, <1>2, Pow2Type, WordWidth DEF Words
<1>4. IsValidSubtree(first, mid) /\ IsValidSubtree(mid, hi)
    BY <1>1, <1>2, <1>3, ValidityExact DEF IsValidSubtree
<1>5. CASE k = 1
    <2>1. st = Interval(first, mid)
        BY <1>2, <1>5
    <2> QED BY <1>1, <1>2, <1>3, <1>4, <2>1 DEF HasHash, Interval
<1>6. CASE k = 2
    <2>1. st = Interval(mid, hi)
        BY <1>2, <1>6
    <2> QED BY <1>1, <1>2, <1>3, <1>4, <2>1 DEF HasHash, Interval
<1> QED BY <1>5, <1>6

LEMMA HandOutKeepsLandmarkInv ==
    ASSUME IInv, LandmarkInv, NEW now \in Times, HandOut(now), IInv'
    PROVE  LandmarkInv'
<1>1. TypeOK /\ TypeOK' /\ UNCHANGED <<logs, sequences, held, revoked>>
    BY DEF IInv, HandOut
<1>2. SequencesAreOrdered' /\ HeldIsMade' /\ HeldIsRelative'
    BY <1>1 DEF LandmarkInv, SequencesAreOrdered, HeldIsMade, HeldIsRelative, Size, Leaves
<1>3. PICK L : L = handedOut'
    OBVIOUS
<1> DEFINE T == TrustedSubtrees(L)
<1>4. /\ L \subseteq LogNumbers \X Nat
      /\ \A pair \in L : /\ pair[1] \in LogNumbers
                         /\ pair[2] \in 1..LastLandmark(sequences[pair[1]])
    BY <1>1, <1>3 DEF TypeOK
<1>5. cfg'.subtrees = SetToSeq(T)
    BY <1>1, <1>3 DEF HandOut, TypeOK
<1>6. IsFiniteSet(T)
    BY <1>4, FinitelyMany
<1>7. /\ DOMAIN SetToSeq(T) \subseteq Nat
      /\ \A i \in DOMAIN SetToSeq(T) : SetToSeq(T)[i] \in T
      /\ \A ts \in T : \E i \in DOMAIN SetToSeq(T) : SetToSeq(T)[i] = ts
    <2> HIDE DEF T
    <2> QED BY <1>6, SetToSeqElements
<1>8. ASSUME NEW ts \in T
      PROVE  \E pair \in L, k \in 1..2 : IsOf(ts, pair, SubtreeOf(sequences, pair, k))
    BY DEF TrustedSubtrees, IsOf, SubtreeOf
<1>9. ASSUME NEW pair \in L, NEW k \in 1..2,
             SubtreeOf(sequences, pair, k).start < SubtreeOf(sequences, pair, k).end
      PROVE  \E ts \in T : IsOf(ts, pair, SubtreeOf(sequences, pair, k))
    <2> DEFINE st == SubtreeOf(sequences, pair, k)
               ts == [logNumber |-> pair[1], start |-> st.start, end |-> st.end,
                      hash |-> SubtreeView(Leaves(pair[1]), st.start, st.end)]
    <2>1. HasHash(Size(pair[1]), st)
        <3>1. /\ pair[1] \in LogNumbers /\ pair[2] \in 1..LastLandmark(sequences[pair[1]])
              /\ Size(pair[1]) \in Words
              /\ OrderedSizes(sequences[pair[1]], Size(pair[1]))
            BY <1>1, <1>4, LogsTyped DEF LandmarkInv, SequencesAreOrdered
        <3> QED BY <3>1, LandmarkSubtreesHaveHashes DEF SubtreeOf
    <2>2. /\ ts.logNumber = pair[1] /\ ts.start = st.start /\ ts.end = st.end
        OBVIOUS
    <2>3. ts.start < ts.end /\ HasHash(Size(ts.logNumber), ts)
        <3> HIDE DEF ts, st
        <3> QED BY <1>9, <2>1, <2>2 DEF HasHash, st
    <2> DEFINE From(ln, num) ==
                   {[logNumber |-> ln, start |-> LandmarkSubtrees(sequences[ln], num)[n].start,
                     end |-> LandmarkSubtrees(sequences[ln], num)[n].end,
                     hash |-> SubtreeView(Leaves(ln), LandmarkSubtrees(sequences[ln], num)[n].start,
                                          LandmarkSubtrees(sequences[ln], num)[n].end)] : n \in 1..2}
    <2>4. ts \in From(pair[1], pair[2])
        BY DEF SubtreeOf
    <2>5. ts \in UNION {From(p[1], p[2]) : p \in L}
        <3> HIDE DEF From, ts, st
        <3> QED BY <2>4
    <2>6. ts \in {t \in UNION {From(p[1], p[2]) : p \in L} :
                     t.start < t.end /\ HasHash(Size(t.logNumber), t)}
        <3> HIDE DEF From, ts, st
        <3> QED BY <2>3, <2>5
    <2>7. ts \in T
        <3> HIDE DEF ts, st
        <3> QED BY <2>6 DEF TrustedSubtrees
    <2> HIDE DEF ts, st, T
    <2> QED BY <2>2, <2>7 DEF IsOf, st
<1> HIDE DEF T
<1>10. AreOfLandmarks(SetToSeq(T), L, sequences)
    <2>1. \A i \in DOMAIN SetToSeq(T) : \E pair \in L, k \in 1..2 :
              IsOf(SetToSeq(T)[i], pair, SubtreeOf(sequences, pair, k))
        BY <1>7, <1>8
    <2>2. ASSUME NEW pair \in L, NEW k \in 1..2,
                 SubtreeOf(sequences, pair, k).start < SubtreeOf(sequences, pair, k).end
          PROVE  \E i \in DOMAIN SetToSeq(T) :
                     IsOf(SetToSeq(T)[i], pair, SubtreeOf(sequences, pair, k))
        <3>1. PICK ts \in T : IsOf(ts, pair, SubtreeOf(sequences, pair, k))
            BY <1>9, <2>2
        <3>2. PICK i \in DOMAIN SetToSeq(T) : SetToSeq(T)[i] = ts
            BY <1>7
        <3> QED BY <3>1, <3>2
    <2> QED BY <1>7, <2>1, <2>2 DEF AreOfLandmarks
<1>11. AreOfLandmarks(cfg'.subtrees, handedOut', sequences')
    BY <1>1, <1>3, <1>5, <1>10
<1> QED BY <1>2, <1>11 DEF LandmarkInv

(* A certificate issued for a logged entry, and for its landmark if it is   *)
(* made relative to one.                                                    *)
LEMMA IssuedKeepsLandmarkInv ==
    ASSUME TypeOK, LandmarkInv, NEW ln \in LogNumbers, NEW index \in 1..(Size(ln) - 1),
           NEW content \in Contents, NEW keys \in Seq(Keys), NEW st, NEW how,
           EntryOf(content) = EntryAt(logs[ln], index),
           HeldCertificate(ln, index, content, st, keys, how),
           how = "landmark" =>
               /\ keys = <<>>
               /\ FindContainingLandmark(sequences[ln], index) # NoLandmark
               /\ st = FindContainingLandmark(sequences[ln], index).subtree,
           UNCHANGED <<logs, sequences, cfg, handedOut, revoked>>
    PROVE  LandmarkInv'
<1>1. PICK cert \in CreateCertificate(Leaves(ln), ln, index, content.extensions,
                        content.tbs, st, keys) :
          held' = [kind |-> how, cert |-> cert, log |-> ln, index |-> index, keys |-> keys]
    BY DEF HeldCertificate
<1>2. PICK item : item = held'
    OBVIOUS
<1>3. /\ item.kind = how /\ item.cert = cert /\ item.log = ln
      /\ item.index = index /\ item.keys = keys
    BY <1>1, <1>2
<1>4. /\ Len(Leaves(ln)) = Size(ln) /\ Leaves(ln) = logs[ln].entries /\ Size(ln) \in Words
      /\ OrderedSizes(sequences[ln], Size(ln))
    BY LogsTyped DEF LandmarkInv, SequencesAreOrdered
<1>5. IsMadeFrom(item, Leaves(ln))
    BY <1>1, <1>3, <1>4 DEF IsMadeFrom, EntryAt
<1>6. ASSUME how = "landmark" PROVE IsRelativeTo(item, sequences[ln])
    <2> DEFINE ls == sequences[ln]
    <2>1. /\ FindContainingLandmark(ls, index) # NoLandmark /\ index \in Int
          /\ st = FindContainingLandmark(ls, index).subtree /\ keys = <<>>
        BY <1>6
    <2>2. OrderedSizes(ls, Size(ln))
        BY <1>4
    <2> HIDE DEF ls
    <2>3. 0 <= index /\ index < TreeSize(ls, LastLandmark(ls))
        BY <1>4, <2>1, <2>2, NothingFound
    <2>4. PICK num \in 1..LastLandmark(ls), k \in 1..2 :
              /\ FindContainingLandmark(ls, index)
                     = [num |-> num, subtree |-> LandmarkSubtrees(ls, num)[k]]
              /\ TreeSize(ls, num - 1) <= index /\ index < TreeSize(ls, num)
        BY <1>4, <2>1, <2>2, <2>3, SomethingFound
    <2>5. st = LandmarkSubtrees(ls, num)[k]
        BY <2>1, <2>4
    <2>6. st = Interval(st.start, st.end)
        BY <1>4, <2>2, <2>5, LandmarkSubtreesHaveHashes
    <2>7. cert.start = st.start /\ cert.end = st.end
        BY CertificateMade DEF MadeFor
    <2>8. Interval(cert.start, cert.end) = LandmarkSubtrees(ls, num)[k]
        BY <2>5, <2>6, <2>7
    <2>9. IsRelativeTo(item, ls)
        BY <1>3, <2>1, <2>4, <2>8 DEF IsRelativeTo
    <2> QED BY <2>9 DEF ls
<1>7. HeldIsMade'
    BY <1>2, <1>3, <1>5 DEF HeldIsMade, Leaves
<1>8. HeldIsRelative'
    BY <1>2, <1>3, <1>6 DEF HeldIsRelative
<1>9. SequencesAreOrdered' /\ AreOfLandmarks(cfg'.subtrees, handedOut', sequences')
    BY DEF LandmarkInv, SequencesAreOrdered, Size
<1> QED BY <1>7, <1>8, <1>9 DEF LandmarkInv

LEMMA LandmarkInvariance == Spec => []LandmarkInv
<1>1. Init => LandmarkInv
    BY InitialLandmarkInv
<1>2. ASSUME IInv, IInv', LandmarkInv, [Next]_vars PROVE LandmarkInv'
    <2>1. TypeOK
        BY <1>2 DEF IInv
    <2>2. CASE UNCHANGED vars
        BY <1>2, <2>2 DEF vars, LandmarkInv, SequencesAreOrdered, HeldIsMade, HeldIsRelative,
                          Size, Leaves
    <2>3. ASSUME NEW ln \in LogNumbers, NEW content \in Contents, Add(ln, content)
          PROVE  LandmarkInv'
        BY <1>2, <2>1, <2>3, AddKeepsLandmarkInv
    <2>4. ASSUME NEW ln \in LogNumbers, NEW expiry \in Times, Allocate(ln, expiry)
          PROVE  LandmarkInv'
        BY <1>2, <2>1, <2>4, AllocateKeepsLandmarkInv
    <2>5. ASSUME NEW ln \in LogNumbers, NEW index \in 1..(Size(ln) - 1),
                 NEW content \in Contents, NEW keys \in KeyLists,
                 IssueCosigned(ln, index, content, keys)
          PROVE  LandmarkInv'
        <3>1. keys \in Seq(Keys) /\ "cosigned" # "landmark"
            BY RelyingPartyConstants
        <3>2. /\ EntryOf(content) = EntryAt(logs[ln], index)
              /\ HeldCertificate(ln, index, content, CoveringSubtree(index, Size(ln)),
                                 keys, "cosigned")
              /\ UNCHANGED <<logs, sequences, cfg, handedOut, revoked>>
            BY <2>5 DEF IssueCosigned
        <3> QED BY <1>2, <2>1, <3>1, <3>2, IssuedKeepsLandmarkInv
    <2>6. ASSUME NEW ln \in LogNumbers, NEW index \in 1..(Size(ln) - 1),
                 NEW content \in Contents, IssueLandmarkRelative(ln, index, content)
          PROVE  LandmarkInv'
        <3>1. /\ EntryOf(content) = EntryAt(logs[ln], index)
              /\ FindContainingLandmark(sequences[ln], index) # NoLandmark
              /\ HeldCertificate(ln, index, content,
                                 FindContainingLandmark(sequences[ln], index).subtree,
                                 <<>>, "landmark")
              /\ UNCHANGED <<logs, sequences, cfg, handedOut, revoked>>
            BY <2>6 DEF IssueLandmarkRelative
        <3>2. <<>> \in Seq(Keys)
            OBVIOUS
        <3> QED BY <1>2, <2>1, <3>1, <3>2, IssuedKeepsLandmarkInv
    <2>7. ASSUME NEW ln \in LogNumbers, NEW index \in 1..(Size(ln) - 1),
                 NEW content \in Contents, NEW keys \in KeyLists,
                 IssueUnlogged(ln, index, content, keys)
          PROVE  LandmarkInv'
        <3>1. held'.kind = "unlogged" /\ UNCHANGED <<logs, sequences, cfg, handedOut, revoked>>
            BY <2>7 DEF IssueUnlogged
        <3> QED BY <1>2, <3>1 DEF LandmarkInv, SequencesAreOrdered, HeldIsMade,
                                  HeldIsRelative, Size
    <2>8. ASSUME NEW ln \in LogNumbers, NEW range \in Ranges, Revoke(ln, range[1], range[2])
          PROVE  LandmarkInv'
        <3>1. cfg'.subtrees = cfg.subtrees /\ UNCHANGED <<logs, sequences, held, handedOut>>
            BY <2>1, <2>8 DEF Revoke, TypeOK
        <3> QED BY <1>2, <3>1 DEF LandmarkInv, SequencesAreOrdered, HeldIsMade,
                                  HeldIsRelative, Size, Leaves
    <2>9. ASSUME NEW now \in Times, HandOut(now) PROVE LandmarkInv'
        BY <1>2, <2>9, HandOutKeepsLandmarkInv
    <2> QED BY <1>2, <2>2, <2>3, <2>4, <2>5, <2>6, <2>7, <2>8, <2>9 DEF Next
<1> QED BY <1>1, <1>2, Invariance, PTL DEF Spec

-----------------------------------------------------------------------------
(* The verdict on certificates of logged entries *)

(* The serial number of the certificate names its entry, its inclusion      *)
(* proof evaluates to the hash the log has for the subtree, and each of its *)
(* keys signed that hash.                                                   *)
LEMMA HeldShape ==
    ASSUME IInv, LandmarkInv, held.kind \in {"cosigned", "landmark"}
    PROVE  /\ held.log \in LogNumbers /\ held.log # 0
           /\ held.keys \in Seq(Keys)
           /\ held.index \in 0..(2^IndexBits - 1)
           /\ held.cert.serial = Serial(held.log, held.index)
           /\ SerialLogNumber(held.cert.serial) = held.log
           /\ SerialIndex(held.cert.serial) = held.index
           /\ IsValidSubtree(held.cert.start, held.cert.end)
           /\ held.cert.start <= held.index /\ held.index < held.cert.end
           /\ held.cert.start \in Nat /\ held.cert.end \in Nat
           /\ held.cert.inclusion
                  = SubtreeView(Leaves(held.log), held.cert.start, held.cert.end)
           /\ EvaluatedHash(held.cert, held.index) = held.cert.inclusion
           /\ \E extensions, tbs :
                  MadeFor(held.cert, held.log, held.index, extensions, tbs, held.cert,
                          held.cert.inclusion, held.keys)
<1>1. PICK item : item = held
    OBVIOUS
<1>2. PICK ln \in LogNumbers : ln = held.log
    BY DEF LandmarkInv, HeldIsMade
<1>3. PICK leaves : leaves = Leaves(ln)
    OBVIOUS
<1>4. PICK M : M = 2^IndexBits
    OBVIOUS
<1>5. /\ leaves \in Seq(Entries) /\ M \in Nat \ {0}
      /\ Len(leaves) \in Nat /\ Len(leaves) <= M
    BY <1>3, <1>4, LogsTyped DEF IInv
<1>6. IsMadeFrom(item, leaves) /\ item.log = ln
    BY <1>1, <1>2, <1>3 DEF LandmarkInv, HeldIsMade
<1>a. PICK content \in Contents : \E t :
          /\ leaves[item.index + 1] = EntryOf(content)
          /\ item.cert \in CreateCertificate(leaves, ln, item.index,
                               content.extensions, content.tbs, t, item.keys)
    BY <1>6 DEF IsMadeFrom
<1>7. PICK st :
          /\ leaves[item.index + 1] = EntryOf(content)
          /\ item.cert \in CreateCertificate(leaves, ln, item.index,
                               content.extensions, content.tbs, st, item.keys)
    BY <1>a
<1>8. item.keys \in Seq(Keys) /\ item.index \in 1..(Len(leaves) - 1)
    BY <1>6 DEF IsMadeFrom
<1> DEFINE cert == item.cert
           hash == SubtreeView(leaves, st.start, st.end)
<1>9. /\ MadeFor(cert, ln, item.index, content.extensions, content.tbs, st, hash, item.keys)
      /\ HasHash(Len(leaves), st) /\ In(item.index, st)
    BY <1>7, <1>8, CertificateMade
<1>10. /\ cert.serial = Serial(ln, item.index)
       /\ cert.extensions = content.extensions /\ cert.tbs = content.tbs
       /\ cert.start = st.start /\ cert.end = st.end /\ cert.inclusion = hash
    BY <1>9 DEF MadeFor
<1> HIDE DEF cert
<1>11. /\ cert.end \in 0..Len(leaves) /\ cert.start \in 0..cert.end
       /\ cert.start <= item.index /\ item.index < cert.end
       /\ IsValidSubtree(cert.start, cert.end)
    BY <1>9, <1>10 DEF HasHash, In
<1>12. /\ item.index \in 0..(M - 1) /\ item.index \in Nat
       /\ ln \in Nat /\ ln # 0
       /\ cert.start \in Nat /\ cert.end \in Nat
    <2>1. ln \in Nat \ {0}
        BY RelyingPartyConstants
    <2> QED BY <1>5, <1>8, <1>11, <2>1
<1>13. SerialIndex(cert.serial) = item.index /\ SerialLogNumber(cert.serial) = ln
    BY <1>4, <1>5, <1>10, <1>12, SerialParts
<1>14. EvaluatedHash(cert, item.index) = cert.inclusion
    <2>1. cert.inclusion = SubtreeView(leaves, cert.start, cert.end)
        BY <1>10
    <2>2. EvaluatedHash(cert, item.index) = cert.inclusion
              <=> leaves[item.index + 1] = LogEntry(cert.extensions, cert.tbs)
        BY <1>5, <1>11, <1>12, <2>1, EvaluatesToItself
    <2> QED BY <1>7, <1>10, <2>2 DEF EntryOf
<1>15. MadeFor(cert, ln, item.index, content.extensions, content.tbs, cert,
               cert.inclusion, item.keys)
    BY <1>9, <1>10 DEF MadeFor, SignatureBy
<1> HIDE DEF hash
<1>16. cert.inclusion = SubtreeView(leaves, cert.start, cert.end)
    BY <1>10 DEF hash
<1> QED BY <1>1, <1>2, <1>3, <1>4, <1>8, <1>10, <1>11, <1>12, <1>13, <1>14, <1>15, <1>16
        DEF cert

(* The relying party has a landmark with the certificate's subtree. *)
IsKnown(ln, cert) ==
    \E pair \in handedOut :
        /\ pair[1] = ln
        /\ Interval(cert.start, cert.end) \in Range(LandmarkSubtrees(sequences[pair[1]], pair[2]))

(* A landmark has its two subtrees and no other ones. *)
LEMMA SubtreesOfHandedOut ==
    ASSUME IInv, LandmarkInv, NEW pair \in handedOut, NEW start, NEW end
    PROVE  Interval(start, end) \in Range(LandmarkSubtrees(sequences[pair[1]], pair[2]))
               <=> \E k \in 1..2 : /\ SubtreeOf(sequences, pair, k).start = start
                                   /\ SubtreeOf(sequences, pair, k).end = end
<1>1. PICK ln, num :
          /\ ln = pair[1] /\ num = pair[2]
          /\ ln \in LogNumbers /\ num \in 1..LastLandmark(sequences[ln])
    BY DEF IInv, TypeOK
<1>2. Size(ln) \in Words /\ OrderedSizes(sequences[ln], Size(ln))
    BY <1>1, LogsTyped DEF IInv, LandmarkInv, SequencesAreOrdered
<1> DEFINE both == LandmarkSubtrees(sequences[ln], num)
<1>3. \A k \in 1..2 : both[k] = Interval(both[k].start, both[k].end)
    BY <1>1, <1>2, LandmarkSubtreesHaveHashes
<1>4. DOMAIN both = 1..2
    <2> DEFINE hi == TreeSize(sequences[ln], num)
    <2>1. TightCover(both, TreeSize(sequences[ln], num - 1), hi)
        BY <1>1, <1>2, LandmarkIsCovered
    <2> HIDE DEF both, hi
    <2>2. PICK first, mid : both = <<Interval(first, mid), Interval(mid, hi)>>
        BY <2>1 DEF TightCover
    <2> QED BY <2>2
<1>5. \A k \in 1..2 : SubtreeOf(sequences, pair, k) = both[k]
    BY <1>1 DEF SubtreeOf
<1>6. Interval(start, end) \in Range(both)
          <=> \E k \in 1..2 : Interval(start, end) = both[k]
    <2> HIDE DEF both
    <2> QED BY <1>4 DEF Range
<1> HIDE DEF both
<1>7. ASSUME NEW k \in 1..2
      PROVE  Interval(start, end) = both[k] <=> both[k].start = start /\ both[k].end = end
    BY <1>3 DEF Interval
<1>8. Interval(start, end) \in Range(both)
          <=> \E k \in 1..2 : /\ SubtreeOf(sequences, pair, k).start = start
                              /\ SubtreeOf(sequences, pair, k).end = end
    BY <1>5, <1>6, <1>7
<1> QED BY <1>1, <1>8 DEF both

(* A trusted subtree matches exactly when its landmark was handed out. *)
LEMMA KnownMatches ==
    ASSUME IInv, LandmarkInv, NEW ln, NEW cert, SerialLogNumber(cert.serial) = ln,
           cert.start < cert.end
    PROVE  MatchingSubtrees(cert, cfg.subtrees) # {} <=> IsKnown(ln, cert)
<1>1. AreOfLandmarks(cfg.subtrees, handedOut, sequences)
    BY DEF LandmarkInv
<1>2. ASSUME MatchingSubtrees(cert, cfg.subtrees) # {} PROVE IsKnown(ln, cert)
    <2>1. PICK i \in DOMAIN cfg.subtrees :
              /\ cfg.subtrees[i].logNumber = ln
              /\ cfg.subtrees[i].start = cert.start /\ cfg.subtrees[i].end = cert.end
        BY <1>2 DEF MatchingSubtrees
    <2>2. PICK pair \in handedOut, k \in 1..2 :
              IsOf(cfg.subtrees[i], pair, SubtreeOf(sequences, pair, k))
        BY <1>1 DEF AreOfLandmarks
    <2>3. /\ pair[1] = ln
          /\ SubtreeOf(sequences, pair, k).start = cert.start
          /\ SubtreeOf(sequences, pair, k).end = cert.end
        BY <2>1, <2>2 DEF IsOf
    <2>4. Interval(cert.start, cert.end) \in Range(LandmarkSubtrees(sequences[pair[1]], pair[2]))
        BY <2>3, SubtreesOfHandedOut
    <2> QED BY <2>3, <2>4 DEF IsKnown
<1>3. ASSUME IsKnown(ln, cert) PROVE MatchingSubtrees(cert, cfg.subtrees) # {}
    <2>1. PICK pair \in handedOut :
              /\ pair[1] = ln
              /\ Interval(cert.start, cert.end)
                     \in Range(LandmarkSubtrees(sequences[pair[1]], pair[2]))
        BY <1>3 DEF IsKnown
    <2>2. PICK k \in 1..2 : /\ SubtreeOf(sequences, pair, k).start = cert.start
                            /\ SubtreeOf(sequences, pair, k).end = cert.end
        BY <2>1, SubtreesOfHandedOut
    <2>3. PICK i \in DOMAIN cfg.subtrees :
              IsOf(cfg.subtrees[i], pair, SubtreeOf(sequences, pair, k))
        BY <1>1, <2>2 DEF AreOfLandmarks
    <2>4. i \in MatchingSubtrees(cert, cfg.subtrees)
        BY <2>1, <2>2, <2>3 DEF IsOf, MatchingSubtrees
    <2> QED BY <2>4
<1> QED BY <1>2, <1>3

(* Signers are the cosigners whose key is trusted first under their id. *)
LEMMA SignersAreTrusted ==
    ASSUME NEW keys \in Seq(Keys), NEW x
    PROVE  x \in Signers(keys)
               <=> \E i \in DOMAIN keys : x = keys[i].id /\ IsTrustedFirst(keys[i], Trusted)
<1> DEFINE Same(id) == {h \in DOMAIN Trusted : Trusted[h].id = id}
           First == {Trusted[i] : i \in {j \in DOMAIN Trusted : IsFirst(j, Same(Trusted[j].id))}}
<1>1. /\ \A i \in DOMAIN keys : keys[i] \in Keys
      /\ \A i \in DOMAIN Trusted : Trusted[i] \in Keys
    <2>1. /\ DOMAIN keys = 1..Len(keys)
          /\ Trusted \in Seq(Keys) /\ DOMAIN Trusted = 1..Len(Trusted)
        BY RelyingPartyConstants, LenProperties
    <2> QED BY <2>1, ElementOfSeq
<1>2. ASSUME NEW c \in Keys PROVE IsTrustedFirst(c, Trusted) <=> c \in First
    <2>1. ASSUME IsTrustedFirst(c, Trusted) PROVE c \in First
        <3>1. PICK k \in DOMAIN Trusted : IsFirst(k, Same(c.id)) /\ Trusted[k].key = c.key
            BY <2>1 DEF IsTrustedFirst
        <3>2. Trusted[k].id = c.id
            BY <3>1 DEF IsFirst
        <3>3. Trusted[k] = c
            <4>1. /\ Trusted[k] = [id |-> Trusted[k].id, key |-> Trusted[k].key]
                  /\ c = [id |-> c.id, key |-> c.key]
                BY <1>1, RelyingPartyConstants
            <4> QED BY <3>1, <3>2, <4>1
        <3> HIDE DEF Same
        <3>4. k \in {j \in DOMAIN Trusted : IsFirst(j, Same(Trusted[j].id))}
            BY <3>1, <3>2
        <3> QED BY <3>3, <3>4
    <2>2. ASSUME c \in First PROVE IsTrustedFirst(c, Trusted)
        <3>1. PICK k \in DOMAIN Trusted : c = Trusted[k] /\ IsFirst(k, Same(c.id))
            BY <2>2
        <3> QED BY <3>1 DEF IsTrustedFirst
    <2> QED BY <2>1, <2>2
<1>3. Signers(keys) = {k.id : k \in {keys[i] : i \in DOMAIN keys} \intersect First}
    BY DEF Signers
<1> HIDE DEF First
<1>4. x \in Signers(keys) <=> \E i \in DOMAIN keys : x = keys[i].id /\ keys[i] \in First
    BY <1>3
<1> QED BY <1>1, <1>2, <1>4

(* When the ids are different, as many signatures count for the policy as   *)
(* there are trusted cosigners among the signers.                           *)
LEMMA SignersAreCounted ==
    ASSUME NEW cert, NEW ln, NEW index, NEW extensions, NEW tbs, NEW keys \in Seq(Keys),
           MadeFor(cert, ln, index, extensions, tbs, cert, cert.inclusion, keys),
           SerialLogNumber(cert.serial) = ln, Distinct(keys), NEW policy
    PROVE  IsSatisfied(policy, cert, ValidSignatures(cert, cert.inclusion, Trusted))
               <=> \/ policy = NoPolicy
                   \/ Cardinality(Signers(keys) \intersect policy.trusted) >= policy.n
<1> DEFINE n     == Len(keys)
           valid == ValidSignatures(cert, cert.inclusion, Trusted)
           A     == {i \in valid : cert.signatures[i].id \in policy.trusted}
           B     == Signers(keys) \intersect policy.trusted
           f     == [i \in A |-> cert.signatures[i].id]
<1>1. /\ n \in Nat /\ DOMAIN keys = 1..n /\ DOMAIN cert.signatures = 1..n
    BY LenProperties DEF MadeFor
<1>2. PICK p \in Bijection(1..n, 1..n) : \A i \in 1..n :
          cert.signatures[i] = SignatureBy(keys[p[i]], ln, cert, cert.inclusion)
    BY DEF MadeFor
<1>3. /\ \A i \in 1..n : p[i] \in 1..n
      /\ \A i, j \in 1..n : p[i] = p[j] => i = j
      /\ \A j \in 1..n : \E i \in 1..n : p[i] = j
    BY DEF Bijection, Injection, Surjection, IsInjective
<1> HIDE DEF n
<1>4. ASSUME NEW i \in 1..n
      PROVE  /\ cert.signatures[i].id = keys[p[i]].id
             /\ i \in valid <=> IsTrustedFirst(keys[p[i]], Trusted)
    <2> DEFINE c == keys[p[i]]
    <2>1. cert.signatures[i] = SignatureBy(c, SerialLogNumber(cert.serial), cert, cert.inclusion)
        BY <1>2
    <2>2. cert.signatures[i].id = c.id
        BY <2>1 DEF SignatureBy
    <2> HIDE DEF c
    <2>3. i \in DOMAIN cert.signatures
        BY <1>1
    <2>4. i \in ValidSignatures(cert, cert.inclusion, Trusted)
              <=> cert.inclusion = cert.inclusion /\ IsTrustedFirst(c, Trusted)
        BY <2>1, <2>3, ValidSignature
    <2> QED BY <2>2, <2>4 DEF c
<1>5. valid \subseteq 1..n
    BY <1>1 DEF ValidSignatures
<1> HIDE DEF valid
<1>6. A \subseteq 1..n /\ IsFiniteSet(A)
    <2>1. IsFiniteSet(1..n)
        BY <1>1, FS_Interval
    <2>2. A \subseteq 1..n
        BY <1>5
    <2> HIDE DEF A
    <2> QED BY <2>1, <2>2, FS_Subset
<1>7. f \in [A -> B]
    <2> SUFFICES ASSUME NEW i \in A PROVE cert.signatures[i].id \in B
        OBVIOUS
    <2>1. i \in 1..n /\ p[i] \in DOMAIN keys
        BY <1>1, <1>3, <1>6
    <2>2. cert.signatures[i].id \in Signers(keys)
        BY <1>4, <2>1, SignersAreTrusted
    <2> QED BY <2>2
<1>8. \A i, j \in A : f[i] = f[j] => i = j
    <2> TAKE i, j \in A
    <2> HAVE f[i] = f[j]
    <2>1. /\ i \in 1..n /\ j \in 1..n /\ p[i] \in DOMAIN keys /\ p[j] \in DOMAIN keys
        BY <1>1, <1>3, <1>6
    <2>2. keys[p[i]].id = keys[p[j]].id
        BY <1>4, <2>1
    <2>3. p[i] = p[j]
        BY <2>1, <2>2 DEF Distinct
    <2> QED BY <1>3, <2>1, <2>3
<1>9. \A b \in B : \E i \in A : f[i] = b
    <2> TAKE b \in B
    <2>1. b \in Signers(keys) /\ b \in policy.trusted
        OBVIOUS
    <2>2. PICK j \in DOMAIN keys : b = keys[j].id /\ IsTrustedFirst(keys[j], Trusted)
        BY <2>1, SignersAreTrusted
    <2>3. PICK i \in 1..n : p[i] = j
        BY <1>1, <1>3
    <2>4. i \in valid /\ cert.signatures[i].id = b
        BY <1>4, <2>2, <2>3
    <2> QED BY <2>1, <2>4
<1>10. Cardinality(A) = Cardinality(B)
    <2>1. f \in Bijection(A, B)
        <3> HIDE DEF A, B
        <3>1. DOMAIN f = A
            OBVIOUS
        <3> HIDE DEF f
        <3> QED BY <1>7, <1>8, <1>9, <3>1
                DEF Bijection, Injection, Surjection, IsInjective
    <2> HIDE DEF A, B, f
    <2>2. ExistsBijection(A, B)
        BY <2>1 DEF ExistsBijection
    <2> QED BY <1>6, <2>2, FS_Bijection
<1>11. IsSatisfied(policy, cert, valid) <=> policy = NoPolicy \/ Cardinality(A) >= policy.n
    BY DEF IsSatisfied
<1> HIDE DEF A, B
<1> QED BY <1>10, <1>11 DEF B, valid

(* The verdict on a certificate of a logged entry. *)
LEMMA GenuineVerdict ==
    ASSUME IInv, LandmarkInv, RevocationIsExact, held.kind \in {"cosigned", "landmark"}
    PROVE  Accepted(held.cert) <=>
               /\ <<held.log, held.index>> \notin revoked
               /\ Distinct(held.keys)
               /\ \/ IsKnown(held.log, held.cert)
                  \/ cfg.policy = NoPolicy
                  \/ Cardinality(Signers(held.keys) \intersect cfg.policy.trusted)
                         >= cfg.policy.n
<1> DEFINE cert  == held.cert
           keys  == held.keys
           hash  == EvaluatedHash(cert, held.index)
           valid == ValidSignatures(cert, hash, Trusted)
           matching == MatchingSubtrees(cert, cfg.subtrees)
           enough == \/ cfg.policy = NoPolicy
                     \/ Cardinality(Signers(keys) \intersect cfg.policy.trusted)
                            >= cfg.policy.n
<1>1. /\ held.log \in LogNumbers /\ held.log # 0
      /\ keys \in Seq(Keys)
      /\ held.index \in 0..(2^IndexBits - 1)
      /\ cert.serial = Serial(held.log, held.index)
      /\ SerialLogNumber(cert.serial) = held.log
      /\ SerialIndex(cert.serial) = held.index
      /\ IsValidSubtree(cert.start, cert.end)
      /\ cert.start <= held.index /\ held.index < cert.end
      /\ cert.start \in Nat /\ cert.end \in Nat
      /\ cert.inclusion = SubtreeView(Leaves(held.log), cert.start, cert.end)
      /\ hash = cert.inclusion
    BY HeldShape
<1>2. PICK extensions, tbs : MadeFor(cert, held.log, held.index, extensions, tbs, cert,
                                     cert.inclusion, keys)
    BY HeldShape
<1>3. /\ cfg.cosigners = Trusted
      /\ \A i \in DOMAIN cfg.subtrees : Genuine(cfg.subtrees[i])
      /\ DOMAIN cfg.subtrees \subseteq Nat
    BY DEF IInv, TypeOK, LandmarkInv, AreOfLandmarks
<1> HIDE DEF cert, keys
<1>4. IsRevoked(cfg.revoked, cert.serial) <=> <<held.log, held.index>> \in revoked
    BY <1>1 DEF RevocationIsExact
<1>5. Parses(cert) <=> Distinct(keys)
    <2>1. \A k \in Keys : k.id \in Nat
        BY RelyingPartyConstants
    <2>2. Parses(cert) <=> \A i, j \in 1..Len(keys) : keys[i].id = keys[j].id => i = j
        BY <1>1, <1>2, <2>1, DistinctIdsParse
    <2>3. DOMAIN keys = 1..Len(keys)
        BY <1>1, LenProperties
    <2> QED BY <2>2, <2>3 DEF Distinct
<1>6. matching # {} <=> IsKnown(held.log, cert)
    <2>1. cert.start < cert.end
        <3>1. held.index \in Int
            BY <1>1 DEF IInv, TypeOK
        <3> QED BY <1>1, <3>1
    <2> QED BY <1>1, <2>1, KnownMatches
<1>7. matching # {} => \E i \in matching : IsFirst(i, matching) /\ hash = cfg.subtrees[i].hash
    <2> HAVE matching # {}
    <2>1. matching \in SUBSET Nat
        BY <1>3 DEF MatchingSubtrees
    <2>2. PICK i \in matching : \A j \in matching : i <= j
        <3> HIDE DEF matching
        <3> QED BY <2>1, SmallestElement
    <2>3. /\ i \in DOMAIN cfg.subtrees
          /\ cfg.subtrees[i].logNumber = held.log
          /\ cfg.subtrees[i].start = cert.start /\ cfg.subtrees[i].end = cert.end
        BY <1>1 DEF MatchingSubtrees
    <2>4. cfg.subtrees[i].hash = cert.inclusion
        BY <1>1, <1>3, <2>3 DEF Genuine
    <2> QED BY <1>1, <2>2, <2>4 DEF IsFirst
<1>8. Distinct(keys) => (IsSatisfied(cfg.policy, cert, valid) <=> enough)
    BY <1>1, <1>2, SignersAreCounted
<1>9. Accepted(cert) <=>
          /\ ~IsRevoked(cfg.revoked, cert.serial)
          /\ Parses(cert)
          /\ IF matching # {}
             THEN \E i \in matching : IsFirst(i, matching) /\ hash = cfg.subtrees[i].hash
             ELSE IsSatisfied(cfg.policy, cert, valid)
    <2> HIDE DEF enough
    <2> QED BY <1>1, <1>3 DEF Accepted, VerifyCertificateSignature
<1> HIDE DEF matching, hash, valid, enough
<1>10. Accepted(cert) <=>
           /\ <<held.log, held.index>> \notin revoked
           /\ Distinct(keys)
           /\ IsKnown(held.log, cert) \/ enough
    BY <1>4, <1>5, <1>6, <1>7, <1>8, <1>9
<1> QED BY <1>10 DEF cert, keys, enough

(* A certificate the authority made for a logged entry gets the verdict     *)
(* that its revocation, its signers and the landmarks handed out call for,  *)
(* whatever the logs have become: no trusted subtree contradicts it         *)
(* (verify.go:96-238).                                                      *)
THEOREM GenuineAreAccepted == Spec => []GenuineCertificatesAreAccepted
<1>1. ASSUME IInv, LandmarkInv, RevocationIsExact PROVE GenuineCertificatesAreAccepted
    <2> DEFINE signed == Signers(held.keys) \intersect cfg.policy.trusted
               expected == /\ <<held.log, held.index>> \notin revoked
                           /\ Distinct(held.keys)
                           /\ \/ IsKnown(held.log, held.cert)
                              \/ cfg.policy = NoPolicy
                              \/ Cardinality(signed) >= cfg.policy.n
    <2> SUFFICES ASSUME held.kind \in {"cosigned", "landmark"}
                 PROVE  Accepted(held.cert) = expected
        BY DEF GenuineCertificatesAreAccepted, IsKnown
    <2>1. Accepted(held.cert) <=> expected
        BY <1>1, GenuineVerdict
    <2>2. Accepted(held.cert) \in BOOLEAN
        BY DEF Accepted, VerifyCertificateSignature
    <2>3. expected \in BOOLEAN
        OBVIOUS
    <2> HIDE DEF expected
    <2> QED BY <2>1, <2>2, <2>3
<1> QED BY <1>1, Invariance, LandmarkInvariance, ExactRevocation, PTL

(* The subtree of a certificate made for a landmark is that landmark's in   *)
(* no other than its own place of the sequence, and it is the landmark that *)
(* the entry is found in.                                                   *)
LEMMA HeldLandmark ==
    ASSUME IInv, LandmarkInv, held.kind = "landmark"
    PROVE  IsKnown(held.log, held.cert)
               <=> <<held.log, FindContainingLandmark(sequences[held.log], held.index).num>>
                       \in handedOut
<1>1. PICK ln \in LogNumbers : ln = held.log
    BY DEF LandmarkInv, HeldIsRelative
<1> DEFINE ls   == sequences[ln]
           cert == held.cert
<1>2. /\ Size(ln) \in Words /\ OrderedSizes(ls, Size(ln)) /\ IsRelativeTo(held, ls)
    BY <1>1, LogsTyped DEF IInv, LandmarkInv, SequencesAreOrdered, HeldIsRelative
<1>3. PICK num \in 1..LastLandmark(ls), k \in 1..2 :
          /\ TreeSize(ls, num - 1) <= held.index /\ held.index < TreeSize(ls, num)
          /\ Interval(cert.start, cert.end) = LandmarkSubtrees(ls, num)[k]
    BY <1>2 DEF IsRelativeTo
<1>4. /\ held.index \in Nat /\ cert.start \in Nat /\ cert.end \in Nat
      /\ cert.start < cert.end
    <2>1. held.index \in 1..(Len(Leaves(ln)) - 1)
        BY <1>1 DEF LandmarkInv, HeldIsMade, IsMadeFrom
    <2>2. Len(Leaves(ln)) \in Nat
        BY LogsTyped DEF IInv
    <2>3. held.index \in Nat
        BY <2>1, <2>2
    <2> QED BY <2>3, HeldShape
<1>5. /\ LandmarkSubtrees(ls, num)[k].start = cert.start
      /\ LandmarkSubtrees(ls, num)[k].end = cert.end
    BY <1>3 DEF Interval
<1> HIDE DEF ls, cert
<1>6. FindContainingLandmark(ls, held.index).num = num
    <2>1. /\ LastLandmark(ls) \in Nat
          /\ \A i \in 0..LastLandmark(ls) : TreeSize(ls, i) \in Nat
          /\ \A i, j \in 0..LastLandmark(ls) : i < j => TreeSize(ls, i) < TreeSize(ls, j)
        BY <1>2, LandmarkSizes
    <2>2. /\ num \in 0..LastLandmark(ls) /\ num - 1 \in 0..LastLandmark(ls)
          /\ num = LastLandmark(ls) \/ num < LastLandmark(ls)
          /\ LastLandmark(ls) \in 0..LastLandmark(ls)
        BY <2>1
    <2>3. 0 <= held.index /\ held.index < TreeSize(ls, LastLandmark(ls)) /\ held.index \in Int
        BY <1>3, <1>4, <2>1, <2>2
    <2>4. PICK n \in 1..LastLandmark(ls), h \in 1..2 :
              /\ FindContainingLandmark(ls, held.index)
                     = [num |-> n, subtree |-> LandmarkSubtrees(ls, n)[h]]
              /\ TreeSize(ls, n - 1) <= held.index /\ held.index < TreeSize(ls, n)
        BY <1>2, <2>3, SomethingFound
    <2>5. n \in 0..LastLandmark(ls) /\ n - 1 \in 0..LastLandmark(ls)
        BY <2>1
    <2>6. ~(n < num)
        <3> SUFFICES ASSUME n < num PROVE FALSE
            OBVIOUS
        <3>1. n = num - 1 \/ n < num - 1
            BY <2>1
        <3>2. TreeSize(ls, n) <= TreeSize(ls, num - 1)
            BY <2>1, <2>2, <2>5, <3>1
        <3> QED BY <1>3, <1>4, <2>1, <2>2, <2>4, <2>5, <3>2
    <2>7. ~(num < n)
        <3> SUFFICES ASSUME num < n PROVE FALSE
            OBVIOUS
        <3>1. num = n - 1 \/ num < n - 1
            BY <2>1
        <3>2. TreeSize(ls, num) <= TreeSize(ls, n - 1)
            BY <2>1, <2>2, <2>5, <3>1
        <3> QED BY <1>3, <1>4, <2>1, <2>2, <2>4, <2>5, <3>2
    <2>8. n = num
        BY <2>1, <2>6, <2>7
    <2> QED BY <2>4, <2>8
<1>7. ASSUME <<ln, num>> \in handedOut PROVE IsKnown(ln, cert)
    <2>1. PICK pair \in handedOut : pair = <<ln, num>>
        BY <1>7
    <2>2. pair[1] = ln /\ SubtreeOf(sequences, pair, k) = LandmarkSubtrees(ls, num)[k]
        BY <2>1 DEF SubtreeOf, ls
    <2>3. Interval(cert.start, cert.end) \in Range(LandmarkSubtrees(sequences[pair[1]], pair[2]))
        BY <1>5, <2>2, SubtreesOfHandedOut
    <2> QED BY <2>2, <2>3 DEF IsKnown
<1>8. ASSUME IsKnown(ln, cert) PROVE <<ln, num>> \in handedOut
    <2>1. PICK pair \in handedOut :
              /\ pair[1] = ln
              /\ Interval(cert.start, cert.end)
                     \in Range(LandmarkSubtrees(sequences[pair[1]], pair[2]))
        BY <1>8 DEF IsKnown
    <2>2. PICK h \in 1..2 : /\ SubtreeOf(sequences, pair, h).start = cert.start
                            /\ SubtreeOf(sequences, pair, h).end = cert.end
        BY <2>1, SubtreesOfHandedOut
    <2>3. PICK other : /\ other = pair[2] /\ pair = <<ln, other>>
                       /\ other \in 1..LastLandmark(ls)
        BY <2>1 DEF IInv, TypeOK, ls
    <2>4. /\ LandmarkSubtrees(ls, other)[h].start = cert.start
          /\ LandmarkSubtrees(ls, other)[h].end = cert.end
        BY <2>1, <2>2, <2>3 DEF SubtreeOf, ls
    <2>5. other = num
        <3>1. LandmarkSubtrees(ls, other)[h] = Interval(cert.start, cert.end)
            BY <1>2, <2>3, <2>4, LandmarkSubtreesHaveHashes
        <3>2. /\ LandmarkSubtrees(ls, num)[k].start < LandmarkSubtrees(ls, num)[k].end
              /\ LandmarkSubtrees(ls, num)[k] = LandmarkSubtrees(ls, other)[h]
            BY <1>3, <1>4, <1>5, <3>1
        <3> QED BY <1>2, <2>3, <3>2, DifferentLandmarkSubtrees
    <2> QED BY <2>3, <2>5
<1> QED BY <1>1, <1>6, <1>7, <1>8 DEF ls, cert

(* A certificate without signatures is accepted exactly while it is not     *)
(* revoked and its landmark is one whose subtrees were handed out           *)
(* (landmark.go:85-96, 118-143; verify.go:203-211).                         *)
THEOREM LandmarkCertificatesFollow == Spec => []LandmarkCertificatesFollowTheirLandmark
<1>1. ASSUME IInv, LandmarkInv, RevocationIsExact
      PROVE  LandmarkCertificatesFollowTheirLandmark
    <2> DEFINE num == FindContainingLandmark(sequences[held.log], held.index).num
               expected == /\ <<held.log, held.index>> \notin revoked
                           /\ <<held.log, num>> \in handedOut
    <2> SUFFICES ASSUME held.kind = "landmark", cfg.policy # NoPolicy, cfg.policy.n > 0
                 PROVE  Accepted(held.cert) = expected
        BY DEF LandmarkCertificatesFollowTheirLandmark
    <2>1. held.keys = <<>>
        BY <1>1 DEF LandmarkInv, HeldIsRelative, IsRelativeTo
    <2>2. Distinct(held.keys) /\ Signers(held.keys) \intersect cfg.policy.trusted = {}
        BY <2>1 DEF Distinct, Signers
    <2>3. ~(Cardinality(Signers(held.keys) \intersect cfg.policy.trusted) >= cfg.policy.n)
        <3>1. cfg.policy.n \in Nat
            BY <1>1, RelyingPartyConstants DEF IInv, TypeOK
        <3> QED BY <2>2, <3>1, FS_EmptySet
    <2>4. IsKnown(held.log, held.cert) <=> <<held.log, num>> \in handedOut
        BY <1>1, HeldLandmark
    <2>5. Accepted(held.cert) <=> expected
        BY <1>1, <2>2, <2>3, <2>4, GenuineVerdict
    <2>6. Accepted(held.cert) \in BOOLEAN /\ expected \in BOOLEAN
        BY DEF Accepted, VerifyCertificateSignature
    <2> HIDE DEF expected
    <2> QED BY <2>5, <2>6
<1> QED BY <1>1, Invariance, LandmarkInvariance, ExactRevocation, PTL

=============================================================================
