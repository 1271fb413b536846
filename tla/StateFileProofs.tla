-------------------------- MODULE StateFileProofs ---------------------------
(***************************************************************************)
(* Theorems about processes of the tool that share a state file, for any   *)
(* number of processes, entries and kills.                                 *)
(*                                                                         *)
(* The invariants of StateFile are not inductive: what a file will hold is *)
(* decided when a command reads it and written much later.  IInv follows   *)
(* the contents through the command, and says why a process that is        *)
(* between truncating and writing is alone as long as no save was stale:   *)
(* whoever truncates after it finds the file empty, which no command read. *)
(* From that follows that overlapping commands are serial.                 *)
(*                                                                         *)
(* Once a save was stale and a process was killed, the file may hold any   *)
(* mixture of two texts (Mixed).  Only Basics is left of the invariant     *)
(* then, and the theorems hold whatever Mixtures contains.                 *)
(***************************************************************************)
EXTENDS StateFile, LibraryProofs

(* The file is only ever left unparsable by a kill, or by a save over       *)
(* contents its command had not read.                                       *)
SavesAreWhole == file = Garbled => stale \/ crashes > 0

(* s still has the reported entries, but for those it has pruned. *)
EntriesKept(s) ==
    \A r \in reported :
        /\ r.index < Len(s.entries)
        /\ s.entries[r.index + 1] = IF r.index < s.minIndex THEN Blank ELSE r.entry

(* s has the keys in the key files, and those about to be written to one. *)
KeysKept(s) ==
    /\ \A i \in DOMAIN keyFiles \ Leftover :
           i < Len(s.meta) /\ s.meta[i + 1].key = keyFiles[i]
    /\ \A p \in Procs : proc[p].pc = "saved" =>
           /\ proc[p].index < Len(s.meta)
           /\ s.meta[proc[p].index + 1].key = proc[p].key

Keeps(s) == EntriesKept(s) /\ KeysKept(s)

(* The contents a command is going to save, and the entry it adds. *)
NextLoads(c) ==
    c.pc \in {"loaded", "truncated"} =>
        /\ Loads(c.next)
        /\ c.index # NoIndex =>
               /\ c.index \in Nat \ {0}
               /\ c.index < Len(c.next.entries)
               /\ c.next.minIndex <= c.index

(* The contents it has read. *)
BaseRead(c) ==
    c.pc = "loaded" =>
        \/ c.base = Absent
        \/ IsAState(c.base) /\ OnlyErases(c.base, c.next)

(* It is alone between truncating the file and writing it. *)
Alone(p) ==
    proc[p].pc = "truncated" =>
        /\ file = Empty
        /\ Keeps(proc[p].next)
        /\ \A q \in Procs : q # p => proc[q].pc # "truncated"

(* Also holds of files that are a mixture. *)
Basics ==
    /\ DOMAIN proc = Procs
    /\ keys \in Nat
    /\ crashes \in Nat
    /\ stale \in BOOLEAN
    /\ \A i \in Leftover : i \in DOMAIN keyFiles /\ keyFiles[i] = OldKey

Types ==
    /\ Basics
    /\ \A r \in reported : r.index \in Nat \ {0}
    /\ DOMAIN keyFiles \subseteq Nat
    /\ \A p \in Procs : proc[p].pc = "saved" => proc[p].index \in Nat

NothingDone ==
    /\ reported = {}
    /\ DOMAIN keyFiles \subseteq Leftover
    /\ \A p \in Procs : proc[p].pc # "saved"

ParsedLoads == IsAState(file) => Loads(file)

Consistent ==
    /\ Types
    /\ ParsedLoads
    /\ \A p \in Procs : NextLoads(proc[p]) /\ BaseRead(proc[p])
    /\ SavesAreWhole
    /\ file = Absent => NothingDone
    /\ ~stale => /\ IsAState(file) => Keeps(file)
                 /\ \A p \in Procs : Alone(p)

Mixed == stale /\ crashes > 0

IInv == Basics /\ (Mixed \/ Consistent)

-----------------------------------------------------------------------------
(* A command keeps whatever the contents it read kept. *)
LEMMA LaterKeeps ==
    ASSUME Types, NEW s, NEW t, Loads(s), Loads(t), OnlyErases(s, t), Keeps(s)
    PROVE  Keeps(t)
<1>1. /\ Len(s.entries) \in Nat /\ s.minIndex \in Nat /\ Len(s.meta) \in Nat
      /\ Len(t.entries) \in Nat /\ t.minIndex \in Nat /\ Len(t.meta) \in Nat
    BY LenProperties DEF Loads, StateType
<1>2. EntriesKept(t)
    <2> SUFFICES ASSUME NEW r \in reported
                 PROVE  /\ r.index < Len(t.entries)
                        /\ t.entries[r.index + 1] =
                               IF r.index < t.minIndex THEN Blank ELSE r.entry
        BY DEF EntriesKept
    <2> DEFINE i == r.index + 1
    <2>1. r.index \in Nat \ {0}
        BY DEF Types, Basics
    <2>2. /\ r.index < Len(s.entries)
          /\ s.entries[i] = IF r.index < s.minIndex THEN Blank ELSE r.entry
        BY DEF Keeps, EntriesKept
    <2>3. i \in 2..Len(s.entries)
        BY <1>1, <2>1, <2>2
    <2>4. /\ Len(t.entries) >= Len(s.entries)
          /\ t.minIndex >= s.minIndex
          /\ t.entries[i] = IF i <= t.minIndex THEN Blank ELSE s.entries[i]
        BY <2>3 DEF OnlyErases
    <2>5. i <= t.minIndex <=> r.index < t.minIndex
        BY <1>1, <2>1
    <2>6. r.index < s.minIndex => r.index < t.minIndex
        BY <1>1, <2>1, <2>4
    <2> QED BY <1>1, <2>1, <2>2, <2>4, <2>5, <2>6
<1>3. \A i \in Nat : i < Len(s.meta) => i < Len(t.meta) /\ t.meta[i + 1] = s.meta[i + 1]
    BY <1>1 DEF OnlyErases
<1>4. KeysKept(t)
    BY <1>3 DEF Keeps, KeysKept, Types, Basics
<1> QED BY <1>2, <1>4 DEF Keeps

(* A command that begins disturbs nothing: Consistent only needs what it read and *)
(* computed to be in order.                                                 *)
LEMMA BeginKeepsInvariant ==
    ASSUME Consistent, NEW p \in Procs, NEW base, NEW next, NEW index,
           NextLoads(Loaded(base, next, index)), BaseRead(Loaded(base, next, index)),
           proc' = [proc EXCEPT ![p] = Loaded(base, next, index)],
           UNCHANGED <<file, keyFiles, crashes, reported, stale>>, keys' \in Nat
    PROVE  Consistent'
<1>1. \A q \in Procs : proc'[q] = IF q = p THEN Loaded(base, next, index) ELSE proc[q]
    BY DEF Consistent, Types, Basics
<1>2. \A q \in Procs :
          proc'[q].pc \in {"saved", "truncated"} => q # p /\ proc'[q] = proc[q]
    BY <1>1 DEF Loaded
<1>3. Types'
    BY <1>2 DEF Consistent, Types, Basics
<1>4. \A q \in Procs : NextLoads(proc[q])' /\ BaseRead(proc[q])'
    BY <1>1 DEF Consistent, NextLoads, BaseRead
<1>5. ASSUME NEW s, Keeps(s) PROVE Keeps(s)'
    BY <1>2, <1>5 DEF Keeps, EntriesKept, KeysKept
<1>6. ASSUME ~stale', NEW q \in Procs PROVE Alone(q)'
    <2> SUFFICES ASSUME proc'[q].pc = "truncated"
                 PROVE  Alone(q)'
        BY DEF Alone
    <2>1. proc'[q] = proc[q]
        BY <1>2
    <2>2. /\ file = Empty
          /\ Keeps(proc[q].next)
          /\ \A r \in Procs : r # q => proc[r].pc # "truncated"
        BY <1>6, <2>1 DEF Consistent, Alone
    <2>3. Keeps(proc[q].next)'
        BY <1>5, <2>1, <2>2 DEF Keeps, EntriesKept, KeysKept
    <2> QED BY <1>2, <2>2, <2>3 DEF Alone
<1>7. /\ ParsedLoads' /\ SavesAreWhole'
      /\ (file = Absent => NothingDone)'
      /\ (~stale => (IsAState(file) => Keeps(file)))'
    BY <1>2, <1>5 DEF Consistent, ParsedLoads, SavesAreWhole, NothingDone
<1> QED BY <1>3, <1>4, <1>6, <1>7 DEF Consistent

(* "ca init" computes the initial state whatever it found. *)
LEMMA BeginInitStep ==
    ASSUME Consistent, NEW p \in Procs, BeginInit(p)
    PROVE  Consistent'
<1>1. NextLoads(Loaded(Absent, InitialState, NoIndex))
    BY InitialLoads DEF NextLoads, Loaded
<1>2. BaseRead(Loaded(Absent, InitialState, NoIndex))
    BY DEF BaseRead, Loaded
<1>3. keys' \in Nat
    BY DEF BeginInit, Consistent, Types, Basics
<1> QED BY <1>1, <1>2, <1>3, BeginKeepsInvariant DEF BeginInit

(* The entry "ca add" makes is the last one and is not pruned. *)
LEMMA BeginAddStep ==
    ASSUME Consistent, NEW p \in Procs, NEW cn \in CNs, NEW now \in Times, BeginAdd(p, cn, now)
    PROVE  Consistent'
<1> DEFINE next  == Added(file, cn, keys, now)
           index == Len(file.entries)
<1>1. Loads(file) /\ keys \in Nat /\ now \in Nat
    BY StateFileConstants DEF BeginAdd, Consistent, ParsedLoads, Types, Basics
<1>2. /\ Loads(next) /\ OnlyErases(file, next)
      /\ Len(next.entries) = index + 1 /\ next.minIndex = file.minIndex
    BY <1>1, AddedLoads
<1>3. index \in Nat /\ index >= 1 /\ file.minIndex \in 0..index
    BY <1>1, LenProperties DEF Loads, StateType, WellFormed
<1> HIDE DEF next, index
<1>4. NextLoads(Loaded(file, next, index))
    BY <1>2, <1>3 DEF NextLoads, Loaded
<1>5. BaseRead(Loaded(file, next, index))
    BY <1>2 DEF BaseRead, Loaded, BeginAdd
<1>6. /\ proc' = [proc EXCEPT ![p] = Loaded(file, next, index)]
      /\ UNCHANGED <<file, keyFiles, crashes, reported, stale>> /\ keys' \in Nat
    BY <1>1 DEF BeginAdd, next, index
<1> QED BY <1>4, <1>5, <1>6, BeginKeepsInvariant

(* Each of the other commands is one of LibraryProofs' lemmas. *)
LEMMA BeginOtherStep ==
    ASSUME Consistent, NEW p \in Procs, BeginOther(p)
    PROVE  Consistent'
<1>1. Loads(file) /\ IsAState(file) /\ keys' \in Nat
    BY DEF BeginOther, Consistent, ParsedLoads, Types, Basics
<1>2. PICK next \in Saved(file) :
          proc' = [proc EXCEPT ![p] = Loaded(file, next, NoIndex)]
    BY DEF BeginOther
<1>3. Loads(next) /\ OnlyErases(file, next)
    <2>1. CASE \E k \in 0..Len(file.entries) :
                   CanPruneState(file, k) /\ next = Pruned(file, k)
        BY <1>1, <2>1, PrunedLoads
    <2>2. CASE \E name \in Names : /\ CanKeygen(file, name)
                                   /\ next = WithCosigner(file, name, Len(file.cosigners) + 1)
        <3>1. Len(file.cosigners) + 1 \in Nat
            BY <1>1, LenProperties DEF Loads, StateType
        <3> QED BY <1>1, <2>2, <3>1, CosignerLoads
    <2>3. CASE \E n \in MaxActives : CanInitLandmarks(file) /\ next = WithLandmarks(file, n)
        BY <1>1, <2>3, LandmarksInitLoads
    <2>4. CASE \E now \in Times : CanAllocateLandmark(file, now) /\ next = WithLandmark(file, now)
        BY <1>1, <2>4, LandmarkLoads, StateFileConstants
    <2> QED BY <1>2, <2>1, <2>2, <2>3, <2>4 DEF Saved
<1>4. NextLoads(Loaded(file, next, NoIndex)) /\ BaseRead(Loaded(file, next, NoIndex))
    BY <1>1, <1>3 DEF NextLoads, BaseRead, Loaded
<1> QED BY <1>1, <1>2, <1>4, BeginKeepsInvariant DEF BeginOther

(* Truncating: if the file is still what the command read, the contents to  *)
(* come keep what the file kept, and nobody else is between the two steps,  *)
(* for then the file would be empty.                                        *)
LEMMA TruncateStep ==
    ASSUME Consistent, NEW p \in Procs, Truncate(p)
    PROVE  Consistent'
<1> DEFINE c == proc[p]
           d == Writing(c.next, c.index)
<1>1. /\ c.pc = "loaded" /\ file' = Empty
      /\ proc' = [proc EXCEPT ![p] = d]
      /\ stale' = (stale \/ file # c.base)
      /\ UNCHANGED <<keyFiles, keys, crashes, reported>>
    BY DEF Truncate
<1>2. \A q \in Procs : proc'[q] = IF q = p THEN d ELSE proc[q]
    BY <1>1 DEF Consistent, Types, Basics
<1>3. d.pc = "truncated" /\ d.next = c.next /\ d.index = c.index
    BY DEF Writing
<1> HIDE DEF d
<1>4. Types'
    BY <1>1, <1>2, <1>3 DEF Consistent, Types, Basics
<1>5. \A q \in Procs : NextLoads(proc[q])' /\ BaseRead(proc[q])'
    BY <1>1, <1>2, <1>3 DEF Consistent, NextLoads, BaseRead
<1>6. ASSUME NEW s, Keeps(s) PROVE Keeps(s)'
    BY <1>1, <1>2, <1>3, <1>6 DEF Keeps, EntriesKept, KeysKept
<1>7. ASSUME ~stale' PROVE \A q \in Procs : Alone(q)'
    <2>1. ~stale /\ file = c.base
        BY <1>1, <1>7 DEF Consistent, Types, Basics
    <2>2. c.base = Absent \/ (IsAState(c.base) /\ OnlyErases(c.base, c.next))
        BY <1>1 DEF Consistent, BaseRead
    <2>3. Loads(c.next)
        BY <1>1 DEF Consistent, NextLoads
    <2>4. Keeps(c.next)
        <3>1. CASE c.base = Absent
            BY <2>1, <3>1 DEF Consistent, NothingDone, Keeps, EntriesKept, KeysKept
        <3>2. CASE IsAState(c.base) /\ OnlyErases(c.base, c.next)
            BY <2>1, <2>3, <3>2, LaterKeeps DEF Consistent, ParsedLoads
        <3> QED BY <2>2, <3>1, <3>2
    <2>5. Keeps(proc[p].next)'
        BY <1>1, <1>2, <1>3, <2>4 DEF Keeps, EntriesKept, KeysKept
    <2>6. file # Empty
        BY <2>1, <2>2, StateFileConstants DEF IsAState
    <2>7. \A q \in Procs : proc[q].pc # "truncated"
        BY <2>1, <2>6 DEF Consistent, Alone
    <2>8. \A q \in Procs : q # p => proc'[q].pc # "truncated"
        BY <1>2, <2>7
    <2>9. \A q \in Procs : q # p => Alone(q)'
        BY <2>8 DEF Alone
    <2>10. Alone(p)'
        BY <1>1, <2>5, <2>8 DEF Alone
    <2> QED BY <2>9, <2>10
<1>8. /\ ParsedLoads' /\ SavesAreWhole'
      /\ (file = Absent => NothingDone)'
      /\ (~stale => (IsAState(file) => Keeps(file)))'
    BY <1>1, StateFileConstants DEF ParsedLoads, SavesAreWhole, IsAState
<1> QED BY <1>4, <1>5, <1>7, <1>8 DEF Consistent

(* Writing: nobody else is between the two steps, so the file is still      *)
(* empty and gets the contents; the entry just reported is in them.         *)
LEMMA WriteStep ==
    ASSUME Consistent, NEW p \in Procs, Write(p)
    PROVE  Consistent'
<1> DEFINE c == proc[p]
           d == IF c.index = NoIndex THEN Idle ELSE KeyPending(c.index, c.next)
           r == [index |-> c.index, entry |-> c.next.meta[c.index + 1]]
<1>1. /\ c.pc = "truncated" /\ file' \in Overwritten(file, c.next)
      /\ proc' = [proc EXCEPT ![p] = d]
      /\ reported' = IF c.index = NoIndex THEN reported ELSE reported \union {r}
      /\ UNCHANGED <<keyFiles, keys, crashes, stale>>
    BY DEF Write
<1>2. \A q \in Procs : proc'[q] = IF q = p THEN d ELSE proc[q]
    BY <1>1 DEF Consistent, Types, Basics
<1>3. Loads(c.next) /\ file' \in {c.next, Garbled}
    BY <1>1 DEF Consistent, NextLoads, Overwritten
<1>4. IsAState(c.next) /\ c.next # Garbled /\ c.next # Absent
    BY <1>3, StateFileConstants DEF Loads, IsAState
<1>5. c.index # NoIndex =>
          /\ c.index \in Nat \ {0}
          /\ c.index < Len(c.next.entries) /\ c.index < Len(c.next.meta)
          /\ c.next.minIndex <= c.index
          /\ c.next.entries[c.index + 1] = c.next.meta[c.index + 1]
    <2> SUFFICES ASSUME c.index # NoIndex
                 PROVE  /\ c.index \in Nat \ {0}
                        /\ c.index < Len(c.next.entries) /\ c.index < Len(c.next.meta)
                        /\ c.next.minIndex <= c.index
                        /\ c.next.entries[c.index + 1] = c.next.meta[c.index + 1]
        OBVIOUS
    <2>1. /\ c.index \in Nat \ {0} /\ c.index < Len(c.next.entries)
          /\ c.next.minIndex <= c.index
        BY <1>1 DEF Consistent, NextLoads
    <2>2. Len(c.next.entries) \in Nat /\ c.next.minIndex \in Nat
        BY <1>3, LenProperties DEF Loads, StateType
    <2>3. c.index + 1 \in 2..Len(c.next.entries) /\ c.index + 1 > c.next.minIndex
        BY <2>1, <2>2
    <2> QED BY <1>3, <2>1, <2>2, <2>3, SMTT(30) DEF Loads, WellFormed
<1>6. /\ d.pc \notin {"loaded", "truncated"}
      /\ d.pc = "saved" => /\ c.index # NoIndex
                           /\ d.index = c.index /\ d.key = c.next.meta[c.index + 1].key
    BY DEF Idle, KeyPending
<1> HIDE DEF d
<1>7. Types'
    BY <1>1, <1>2, <1>5, <1>6 DEF Consistent, Types, Basics
<1>8. \A q \in Procs : NextLoads(proc[q])' /\ BaseRead(proc[q])'
    BY <1>2, <1>6 DEF Consistent, NextLoads, BaseRead
<1>9. ParsedLoads' /\ (file = Absent => NothingDone)'
    BY <1>3, <1>4, StateFileConstants DEF ParsedLoads, IsAState
<1>10. CASE stale
    BY <1>1, <1>7, <1>8, <1>9, <1>10 DEF Consistent, SavesAreWhole
<1>11. CASE ~stale
    <2>1. /\ file = Empty /\ Keeps(c.next)
          /\ \A q \in Procs : q # p => proc[q].pc # "truncated"
        BY <1>1, <1>11 DEF Consistent, Alone
    <2>2. file' = c.next
        BY <1>1, <2>1 DEF Overwritten
    <2>3. SavesAreWhole'
        BY <1>4, <2>2 DEF SavesAreWhole
    <2>4. \A q \in Procs : Alone(q)'
        BY <1>2, <1>6, <2>1 DEF Alone
    <2>5. EntriesKept(file)'
        <3> SUFFICES ASSUME NEW e \in reported'
                     PROVE  /\ e.index < Len(c.next.entries)
                            /\ c.next.entries[e.index + 1] =
                                   IF e.index < c.next.minIndex THEN Blank ELSE e.entry
            BY <2>2 DEF EntriesKept
        <3>1. CASE e \in reported
            BY <2>1, <3>1 DEF Keeps, EntriesKept
        <3>2. CASE c.index # NoIndex /\ e = r
            <4>1. c.next.minIndex \in Nat
                BY <1>3 DEF Loads, StateType
            <4>2. e.index = c.index /\ e.entry = c.next.meta[c.index + 1]
                BY <3>2
            <4> QED BY <1>5, <3>2, <4>1, <4>2
        <3> QED BY <1>1, <3>1, <3>2
    <2>6. KeysKept(file)'
        BY <1>1, <1>2, <1>5, <1>6, <2>1, <2>2 DEF Keeps, KeysKept
    <2> QED BY <1>7, <1>8, <1>9, <2>3, <2>4, <2>5, <2>6 DEF Consistent, Keeps
<1> QED BY <1>10, <1>11

(* A process that leaves: its command neither truncates nor writes anymore, *)
(* but killed it may have written everything.                               *)
LEMMA LeaveKeepsInvariant ==
    ASSUME Consistent, NEW p \in Procs, proc' = [proc EXCEPT ![p] = Idle],
           UNCHANGED <<keys, reported, stale>>, crashes' \in Nat,
           file' = Garbled => SavesAreWhole',
           \/ file' = file
           \/ proc[p].pc = "truncated" /\ file' = Garbled
           \/ proc[p].pc = "truncated" /\ file' = proc[p].next /\ ~stale,
           DOMAIN keyFiles' \subseteq Nat,
           \A i \in Leftover : i \in DOMAIN keyFiles' /\ keyFiles'[i] = OldKey,
           file = Absent => keyFiles' = keyFiles,
           \A s : Keeps(s) => KeysKept(s)'
    PROVE  Consistent'
<1>1. \A q \in Procs : proc'[q] = IF q = p THEN Idle ELSE proc[q]
    BY DEF Consistent, Types, Basics
<1>2. \A q \in Procs :
          proc'[q].pc \in {"loaded", "truncated", "saved"} => q # p /\ proc'[q] = proc[q]
    BY <1>1 DEF Idle
<1>3. Types'
    BY <1>2 DEF Consistent, Types, Basics
<1>4. \A q \in Procs : NextLoads(proc[q])' /\ BaseRead(proc[q])'
    BY <1>2 DEF Consistent, NextLoads, BaseRead
<1>5. ASSUME NEW s, Keeps(s) PROVE EntriesKept(s)' /\ KeysKept(s)'
    BY <1>5 DEF Keeps, EntriesKept
<1>6. ParsedLoads' /\ SavesAreWhole' /\ (file = Absent => NothingDone)'
    <2>1. CASE file' = file
        BY <1>2, <2>1 DEF Consistent, ParsedLoads, SavesAreWhole, NothingDone, IsAState
    <2>2. CASE proc[p].pc = "truncated" /\ file' = Garbled
        BY <2>2, StateFileConstants DEF ParsedLoads, IsAState
    <2>3. CASE proc[p].pc = "truncated" /\ file' = proc[p].next
        <3>1. Loads(proc[p].next)
            BY <2>3 DEF Consistent, NextLoads
        <3>2. file' # Absent /\ file' # Garbled
            BY <2>3, <3>1, StateFileConstants DEF Loads
        <3> QED BY <2>3, <3>1, <3>2 DEF ParsedLoads, SavesAreWhole
    <2> QED BY <2>1, <2>2, <2>3
<1>7. ~stale' => (IsAState(file) => Keeps(file))'
    <2> SUFFICES ASSUME ~stale, IsAState(file')
                 PROVE  Keeps(file)'
        OBVIOUS
    <2>1. file' = file \/ (proc[p].pc = "truncated" /\ file' = proc[p].next)
        BY DEF IsAState
    <2>2. Keeps(file')
        <3>1. CASE file' = file
            BY <3>1 DEF Consistent
        <3>2. CASE proc[p].pc = "truncated" /\ file' = proc[p].next
            BY <3>2 DEF Consistent, Alone
        <3> QED BY <2>1, <3>1, <3>2
    <2>3. PICK n : n = file'
        OBVIOUS
    <2>4. EntriesKept(n)' /\ KeysKept(n)'
        BY <1>5, <2>2, <2>3
    <2> QED BY <2>3, <2>4 DEF Keeps, EntriesKept, KeysKept
<1>8. ASSUME ~stale', NEW q \in Procs PROVE Alone(q)'
    <2> SUFFICES ASSUME proc'[q].pc = "truncated"
                 PROVE  Alone(q)'
        BY DEF Alone
    <2>1. q # p /\ proc'[q] = proc[q]
        BY <1>2
    <2>2. /\ file = Empty
          /\ Keeps(proc[q].next)
          /\ \A r \in Procs : r # q => proc[r].pc # "truncated"
        BY <1>8, <2>1 DEF Consistent, Alone
    <2>3. Keeps(proc[q].next)'
        <3>1. PICK n : n = proc[q].next
            OBVIOUS
        <3>2. Keeps(n)
            BY <2>2, <3>1
        <3>3. EntriesKept(n)' /\ KeysKept(n)'
            BY <1>5, <3>2
        <3>4. proc'[q].next = n
            BY <2>1, <3>1
        <3> QED BY <3>3, <3>4 DEF Keeps, EntriesKept, KeysKept
    <2>4. file' = file
        BY <2>1, <2>2
    <2> QED BY <1>2, <2>2, <2>3, <2>4 DEF Alone
<1> QED BY <1>3, <1>4, <1>6, <1>7, <1>8 DEF Consistent

(* The key written is the one its entry was made with. *)
LEMMA WriteKeyFileStep ==
    ASSUME Consistent, NEW p \in Procs, WriteKeyFile(p)
    PROVE  Consistent'
<1> DEFINE c == proc[p]
<1>1. /\ c.pc = "saved" /\ proc' = [proc EXCEPT ![p] = Idle]
      /\ keyFiles' = [i \in DOMAIN keyFiles \union {c.index} |->
                          IF i \in DOMAIN keyFiles THEN keyFiles[i] ELSE c.key]
      /\ UNCHANGED <<file, keys, crashes, reported, stale>>
    BY DEF WriteKeyFile
<1>2. \A q \in Procs : proc'[q] = IF q = p THEN Idle ELSE proc[q]
    BY <1>1 DEF Consistent, Types, Basics
<1>3. \A s : Keeps(s) => KeysKept(s)'
    BY <1>1, <1>2 DEF Keeps, KeysKept, Idle
<1>4. /\ DOMAIN keyFiles' \subseteq Nat /\ file # Absent /\ crashes' \in Nat
      /\ \A i \in Leftover : i \in DOMAIN keyFiles' /\ keyFiles'[i] = OldKey
    BY <1>1 DEF Consistent, Types, Basics, NothingDone
<1>5. file' = Garbled => SavesAreWhole'
    BY <1>1 DEF Consistent, SavesAreWhole
<1> QED BY <1>1, <1>3, <1>4, <1>5, LeaveKeepsInvariant

(* A kill may garble the file, which SavesAreWhole allows, but unless a     *)
(* save was stale it does not mix texts: the file was empty.                *)
LEMMA CrashStep ==
    ASSUME Consistent, ~stale, NEW p \in Procs, Crash(p)
    PROVE  Consistent'
<1>1. /\ proc' = [proc EXCEPT ![p] = Idle] /\ crashes' = crashes + 1
      /\ proc[p].pc = "truncated" => file' \in Interrupted(file, proc[p].next)
      /\ proc[p].pc # "truncated" => file' = file
      /\ UNCHANGED <<keyFiles, keys, reported, stale>>
    BY DEF Crash
<1>6. \/ file' = file
      \/ proc[p].pc = "truncated" /\ file' = Garbled
      \/ proc[p].pc = "truncated" /\ file' = proc[p].next /\ ~stale
    <2>1. CASE proc[p].pc = "truncated"
        <3>1. file = Empty
            BY <2>1 DEF Consistent, Alone
        <3>2. file' \in {file, Garbled, proc[p].next}
            BY <1>1, <2>1, <3>1 DEF Interrupted, Overwritten
        <3> QED BY <2>1, <3>2
    <2> QED BY <1>1, <2>1
<1>2. \A q \in Procs : proc'[q] = IF q = p THEN Idle ELSE proc[q]
    BY <1>1 DEF Consistent, Types, Basics
<1>3. \A s : Keeps(s) => KeysKept(s)'
    BY <1>1, <1>2 DEF Keeps, KeysKept, Idle
<1>4. /\ crashes' \in Nat /\ crashes' > 0 /\ DOMAIN keyFiles' \subseteq Nat
      /\ \A i \in Leftover : i \in DOMAIN keyFiles' /\ keyFiles'[i] = OldKey
    BY <1>1 DEF Consistent, Types, Basics
<1>5. SavesAreWhole'
    BY <1>4 DEF SavesAreWhole
<1> QED BY <1>1, <1>3, <1>4, <1>5, <1>6, LeaveKeepsInvariant

(* No step touches the key files an earlier log has left. *)
LEMMA BasicsStay ==
    ASSUME Basics, Next
    PROVE  Basics' /\ (Mixed => Mixed')
<1>1. PICK p \in Procs : \/ BeginInit(p)
                         \/ \E cn \in CNs, now \in Times : BeginAdd(p, cn, now)
                         \/ BeginOther(p)
                         \/ Truncate(p)
                         \/ Write(p)
                         \/ WriteKeyFile(p)
                         \/ Crash(p)
    BY DEF Next
<1>2. /\ \E d : proc' = [proc EXCEPT ![p] = d]
      /\ keys' \in {keys, keys + 1}
      /\ crashes' \in {crashes, crashes + 1}
      /\ stale' \in BOOLEAN /\ (stale => stale')
      /\ \A i \in DOMAIN keyFiles : i \in DOMAIN keyFiles' /\ keyFiles'[i] = keyFiles[i]
    <2>1. CASE BeginInit(p) \/ BeginOther(p)
        BY <2>1 DEF BeginInit, BeginOther, Basics
    <2>2. CASE \E cn \in CNs, now \in Times : BeginAdd(p, cn, now)
        <3>1. PICK cn \in CNs, now \in Times : BeginAdd(p, cn, now)
            BY <2>2
        <3>2. \E d : proc' = [proc EXCEPT ![p] = d]
            BY <3>1 DEF BeginAdd
        <3>3. UNCHANGED <<keyFiles, crashes, stale>> /\ keys' = keys + 1
            BY <3>1 DEF BeginAdd
        <3> QED BY <3>2, <3>3 DEF Basics
    <2>3. CASE Truncate(p)
        BY <2>3 DEF Truncate, Basics
    <2>4. CASE Write(p)
        BY <2>4 DEF Write, Basics
    <2>5. CASE WriteKeyFile(p)
        BY <2>5 DEF WriteKeyFile, Basics
    <2>6. CASE Crash(p)
        BY <2>6 DEF Crash, Basics
    <2> QED BY <1>1, <2>1, <2>2, <2>3, <2>4, <2>5, <2>6
<1>3. DOMAIN proc' = Procs
    BY <1>2 DEF Basics
<1>4. keys' \in Nat /\ crashes' \in Nat /\ (crashes > 0 => crashes' > 0)
    BY <1>2 DEF Basics
<1> QED BY <1>2, <1>3, <1>4 DEF Basics, Mixed

-----------------------------------------------------------------------------
(* IInv is inductive, one lemma per action. *)
LEMMA Invariance == Spec => []IInv
<1>1. Init => IInv
    <2> SUFFICES ASSUME Init PROVE IInv
        OBVIOUS
    <2>1. /\ DOMAIN proc = Procs /\ \A p \in Procs : proc[p] = Idle
          /\ file = Absent /\ reported = {}
          /\ keys \in Nat /\ crashes \in Nat /\ stale \in BOOLEAN
        BY DEF Init
    <2>3. /\ DOMAIN keyFiles = Leftover
          /\ \A i \in Leftover : keyFiles[i] = OldKey
        BY DEF Init
    <2>2. \A p \in Procs : proc[p].pc = "idle"
        BY <2>1 DEF Idle
    <2>4. Basics
        BY <2>1, <2>3 DEF Basics
    <2>5. Consistent
        BY <2>1, <2>2, <2>3, <2>4, StateFileConstants
            DEF Consistent, Types, ParsedLoads, NextLoads, BaseRead, SavesAreWhole,
                NothingDone, Alone, IsAState
    <2> QED BY <2>4, <2>5 DEF IInv
<1>2. IInv /\ [Next]_vars => IInv'
    <2> SUFFICES ASSUME IInv, [Next]_vars PROVE IInv'
        OBVIOUS
    <2>1. CASE UNCHANGED vars
        <3>1. Basics' /\ (Mixed => Mixed')
            BY <2>1 DEF vars, IInv, Basics, Mixed
        <3>2. Consistent => Consistent'
            BY <2>1 DEF vars, Consistent, Types, Basics, ParsedLoads, NextLoads, BaseRead,
                SavesAreWhole, NothingDone, Alone, Keeps, EntriesKept, KeysKept, IsAState
        <3> QED BY <3>1, <3>2 DEF IInv
    <2>2. CASE Next
        <3>1. Basics' /\ (Mixed => Mixed')
            BY <2>2, BasicsStay DEF IInv
        <3>2. ASSUME Consistent, ~Mixed' PROVE Consistent'
            <4>1. PICK p \in Procs : \/ BeginInit(p)
                                     \/ \E cn \in CNs, now \in Times : BeginAdd(p, cn, now)
                                     \/ BeginOther(p)
                                     \/ Truncate(p)
                                     \/ Write(p)
                                     \/ WriteKeyFile(p)
                                     \/ Crash(p)
                BY <2>2 DEF Next
            <4>2. CASE Crash(p)
                <5>1. ~stale
                    BY <3>2, <4>2 DEF Crash, Mixed, Consistent, Types, Basics
                <5> QED BY <3>2, <4>2, <5>1, CrashStep
            <4> QED BY <3>2, <4>1, <4>2, BeginInitStep, BeginAddStep, BeginOtherStep,
                       TruncateStep, WriteStep, WriteKeyFileStep
        <3> QED BY <3>1, <3>2 DEF IInv
    <2> QED BY <2>1, <2>2
<1> QED BY <1>1, <1>2, PTL DEF Spec

(* It takes both a save over contents its command had not read and a kill   *)
(* to leave a file that parses but does not load, whatever the texts in it  *)
(* look like (state.go:57-80, 94-152).                                      *)
THEOREM ParsedFilesLoad == Spec => []FilesThatParseLoad
<1>1. IInv => FilesThatParseLoad
    BY DEF IInv, Mixed, Consistent, ParsedLoads, FilesThatParseLoad
<1> QED BY <1>1, Invariance, PTL

(* A command that has read the file is going to save what one command makes *)
(* of what it read.                                                         *)
CommandsLoaded ==
    \A p \in Procs : proc[p].pc = "loaded" => OneCommand(proc[p].base, proc[p].next)

SerialInv == Consistent /\ CommandsLoaded

LEMMA NobodyWrites ==
    ASSUME \A p \in Procs : proc[p].pc # "truncated"
    PROVE  Contents = file
BY DEF Contents

LEMMA OneWrites ==
    ASSUME NEW p \in Procs, proc[p].pc = "truncated",
           \A q \in Procs : q # p => proc[q].pc # "truncated"
    PROVE  Contents = proc[p].next
<1>1. Writer \in Procs /\ proc[Writer].pc = "truncated"
    BY DEF Writer
<1>2. Writer = p
    BY <1>1
<1> QED BY <1>2 DEF Contents

(* The contents stay as long as nobody truncates, writes or is killed       *)
(* between the two.                                                         *)
LEMMA OthersLeaveContents ==
    ASSUME Consistent, ~stale, file' = file,
           \A q \in Procs : /\ proc[q].pc = "truncated" <=> proc'[q].pc = "truncated"
                            /\ proc[q].pc = "truncated" => proc'[q] = proc[q]
    PROVE  Contents' = Contents
<1>1. CASE \A q \in Procs : proc[q].pc # "truncated"
    <2>1. Contents = file
        BY <1>1, NobodyWrites
    <2>2. \A q \in Procs : proc'[q].pc # "truncated"
        BY <1>1
    <2>3. Contents' = file'
        BY <2>2 DEF Contents
    <2> QED BY <2>1, <2>3
<1>2. ASSUME NEW q \in Procs, proc[q].pc = "truncated" PROVE Contents' = Contents
    <2>1. \A r \in Procs : r # q => proc[r].pc # "truncated"
        BY <1>2 DEF Consistent, Alone
    <2>2. Contents = proc[q].next
        BY <1>2, <2>1, OneWrites
    <2>3. /\ proc'[q].pc = "truncated" /\ proc'[q] = proc[q]
          /\ \A r \in Procs : r # q => proc'[r].pc # "truncated"
        BY <1>2, <2>1
    <2>4. Writer' \in Procs /\ proc'[Writer'].pc = "truncated"
        BY <2>3 DEF Writer
    <2>5. Writer' = q
        BY <2>3, <2>4
    <2>6. Contents' = proc'[q].next
        BY <2>3, <2>5 DEF Contents
    <2> QED BY <2>2, <2>3, <2>6
<1> QED BY <1>1, <1>2

(* Beginning a command: what it will save is one command on what it read.   *)
LEMMA BeginIsSerial ==
    ASSUME SerialInv, ~stale, NEW p \in Procs, NEW base, NEW next, NEW index,
           OneCommand(base, next), proc[p] = Idle, file' = file,
           proc' = [proc EXCEPT ![p] = Loaded(base, next, index)]
    PROVE  Contents' = Contents
<1>1. \A q \in Procs : proc'[q] = IF q = p THEN Loaded(base, next, index) ELSE proc[q]
    BY DEF SerialInv, Consistent, Types, Basics
<1>2. proc[p].pc # "truncated" /\ proc'[p].pc # "truncated"
    BY <1>1 DEF Idle, Loaded
<1>3. \A q \in Procs : /\ proc[q].pc = "truncated" <=> proc'[q].pc = "truncated"
                       /\ proc[q].pc = "truncated" => proc'[q] = proc[q]
    BY <1>1, <1>2
<1> QED BY <1>3, OthersLeaveContents DEF SerialInv

LEMMA BeginLoadsCommand ==
    ASSUME Basics, CommandsLoaded, NEW p \in Procs, NEW base, NEW next, NEW index,
           OneCommand(base, next),
           proc' = [proc EXCEPT ![p] = Loaded(base, next, index)]
    PROVE  CommandsLoaded'
<1>1. \A q \in Procs : proc'[q] = IF q = p THEN Loaded(base, next, index) ELSE proc[q]
    BY DEF Basics
<1>2. ASSUME NEW q \in Procs, proc'[q].pc = "loaded"
      PROVE  OneCommand(proc'[q].base, proc'[q].next)
    <2>1. CASE q = p
        <3>1. proc'[q].base = base /\ proc'[q].next = next
            BY <1>1, <2>1 DEF Loaded
        <3> QED BY <3>1
    <2>2. CASE q # p
        BY <1>1, <1>2, <2>2 DEF CommandsLoaded
    <2> QED BY <2>1, <2>2
<1> QED BY <1>2 DEF CommandsLoaded, OneCommand

(* Each command that begins is one command. *)
LEMMA BegunIsOneCommand ==
    ASSUME Basics, NEW p \in Procs,
           \/ BeginInit(p)
           \/ \E cn \in CNs, now \in Times : BeginAdd(p, cn, now)
           \/ BeginOther(p)
    PROVE  /\ proc[p] = Idle /\ file' = file
           /\ \E base, next, index : /\ OneCommand(base, next)
                                     /\ proc' = [proc EXCEPT ![p] = Loaded(base, next, index)]
<1>1. CASE BeginInit(p)
    <2>1. OneCommand(Absent, InitialState)
        BY DEF OneCommand
    <2> QED BY <1>1, <2>1 DEF BeginInit
<1>2. ASSUME NEW cn \in CNs, NEW now \in Times, BeginAdd(p, cn, now)
      PROVE  /\ proc[p] = Idle /\ file' = file
             /\ \E base, next, index :
                    /\ OneCommand(base, next)
                    /\ proc' = [proc EXCEPT ![p] = Loaded(base, next, index)]
    <2>1. keys \in 0..MaxKeys
        BY <1>2, StateFileConstants DEF BeginAdd, Basics
    <2>2. OneCommand(file, Added(file, cn, keys, now))
        BY <1>2, <2>1 DEF BeginAdd, OneCommand
    <2> QED BY <1>2, <2>2 DEF BeginAdd
<1>3. CASE BeginOther(p)
    <2>1. PICK next \in Saved(file) : proc' = [proc EXCEPT ![p] = Loaded(file, next, NoIndex)]
        BY <1>3 DEF BeginOther
    <2>2. OneCommand(file, next)
        BY <1>3, <2>1 DEF BeginOther, OneCommand
    <2> QED BY <1>3, <2>1, <2>2 DEF BeginOther
<1> QED BY <1>1, <1>2, <1>3

(* Truncating the file is the moment at which the command takes effect: the *)
(* contents were those it had read, and become those it saves.              *)
LEMMA TruncateIsSerial ==
    ASSUME SerialInv, NEW p \in Procs, Truncate(p), ~stale'
    PROVE  OneCommand(Contents, Contents')
<1>1. /\ proc[p].pc = "loaded" /\ ~stale /\ file = proc[p].base
      /\ proc' = [proc EXCEPT ![p] = Writing(proc[p].next, proc[p].index)]
    BY DEF Truncate, SerialInv, Consistent, Types, Basics
<1>2. \A q \in Procs :
          proc'[q] = IF q = p THEN Writing(proc[p].next, proc[p].index) ELSE proc[q]
    BY <1>1 DEF SerialInv, Consistent, Types, Basics
<1>3. OneCommand(file, proc[p].next)
    BY <1>1 DEF SerialInv, CommandsLoaded
<1>4. file # Empty
    BY <1>3, StateFileConstants DEF OneCommand, IsAState
<1>5. \A q \in Procs : proc[q].pc # "truncated"
    BY <1>1, <1>4 DEF SerialInv, Consistent, Alone
<1>6. Contents = file
    BY <1>5, NobodyWrites
<1>7. /\ proc'[p].pc = "truncated" /\ proc'[p].next = proc[p].next
      /\ \A q \in Procs : q # p => proc'[q].pc # "truncated"
    BY <1>2, <1>5 DEF Writing
<1>8. Writer' \in Procs /\ proc'[Writer'].pc = "truncated"
    BY <1>7 DEF Writer
<1>9. Writer' = p
    BY <1>7, <1>8
<1>10. Contents' = proc[p].next
    BY <1>7, <1>9 DEF Contents
<1> QED BY <1>3, <1>6, <1>10

(* A process that leaves the place between truncating and writing. *)
LEMMA WriterLeaves ==
    ASSUME Consistent, ~stale, NEW p \in Procs, proc[p].pc = "truncated",
           \A q \in Procs : q # p => proc'[q] = proc[q], proc'[p].pc # "truncated"
    PROVE  file = Empty /\ Contents = proc[p].next /\ Contents' = file'
<1>1. file = Empty /\ \A q \in Procs : q # p => proc[q].pc # "truncated"
    BY DEF Consistent, Alone
<1>2. Contents = proc[p].next
    BY <1>1, OneWrites
<1>3. \A q \in Procs : proc'[q].pc # "truncated"
    BY <1>1
<1>4. Contents' = file'
    BY <1>3 DEF Contents
<1> QED BY <1>1, <1>2, <1>4

(* Writing does what truncating has announced: the file is still empty. *)
LEMMA WriteIsSerial ==
    ASSUME SerialInv, NEW p \in Procs, Write(p), ~stale'
    PROVE  Contents' = Contents
<1> DEFINE c == proc[p]
           d == IF c.index = NoIndex THEN Idle ELSE KeyPending(c.index, c.next)
<1>1. /\ c.pc = "truncated" /\ file' \in Overwritten(file, c.next) /\ ~stale
      /\ proc' = [proc EXCEPT ![p] = d]
    BY DEF Write
<1>2. \A q \in Procs : proc'[q] = IF q = p THEN d ELSE proc[q]
    BY <1>1 DEF SerialInv, Consistent, Types, Basics
<1>3. d.pc # "truncated"
    BY DEF Idle, KeyPending
<1> HIDE DEF d
<1>4. /\ \A q \in Procs : q # p => proc'[q] = proc[q]
      /\ proc'[p].pc # "truncated"
    BY <1>2, <1>3
<1>5. file = Empty /\ Contents = c.next /\ Contents' = file'
    BY <1>1, <1>4, WriterLeaves DEF SerialInv
<1> QED BY <1>1, <1>5 DEF Overwritten

(* A kill matters only between the two, and leaves an empty file, part of   *)
(* the text or all of it.                                                   *)
LEMMA CrashIsSerial ==
    ASSUME SerialInv, NEW p \in Procs, Crash(p), ~stale'
    PROVE  SerialStep
<1>1. /\ proc' = [proc EXCEPT ![p] = Idle] /\ ~stale /\ crashes' = crashes + 1
      /\ proc[p].pc = "truncated" => file' \in Interrupted(file, proc[p].next)
      /\ proc[p].pc # "truncated" => file' = file
    BY DEF Crash
<1>2. \A q \in Procs : proc'[q] = IF q = p THEN Idle ELSE proc[q]
    BY <1>1 DEF SerialInv, Consistent, Types, Basics
<1>3. /\ \A q \in Procs : q # p => proc'[q] = proc[q]
      /\ proc'[p].pc # "truncated"
    BY <1>2 DEF Idle
<1>4. CASE proc[p].pc = "truncated"
    <2>1. file = Empty /\ Contents = proc[p].next /\ Contents' = file'
        BY <1>1, <1>3, <1>4, WriterLeaves DEF SerialInv
    <2>2. crashes' > crashes
        BY <1>1 DEF SerialInv, Consistent, Types, Basics
    <2>3. file' \in {Empty, Garbled, proc[p].next}
        BY <1>1, <1>4, <2>1 DEF Interrupted, Overwritten
    <2> QED BY <2>1, <2>2, <2>3 DEF SerialStep
<1>5. CASE proc[p].pc # "truncated"
    <2>1. \A q \in Procs : /\ proc[q].pc = "truncated" <=> proc'[q].pc = "truncated"
                           /\ proc[q].pc = "truncated" => proc'[q] = proc[q]
        BY <1>3, <1>5
    <2>2. Contents' = Contents
        BY <1>1, <1>5, <2>1, OthersLeaveContents DEF SerialInv
    <2> QED BY <2>2 DEF SerialStep
<1> QED BY <1>4, <1>5

LEMMA WriteKeyFileIsSerial ==
    ASSUME SerialInv, NEW p \in Procs, WriteKeyFile(p), ~stale'
    PROVE  Contents' = Contents
<1>1. proc' = [proc EXCEPT ![p] = Idle] /\ ~stale /\ file' = file /\ proc[p].pc = "saved"
    BY DEF WriteKeyFile
<1>2. \A q \in Procs : proc'[q] = IF q = p THEN Idle ELSE proc[q]
    BY <1>1 DEF SerialInv, Consistent, Types, Basics
<1>3. \A q \in Procs : /\ proc[q].pc = "truncated" <=> proc'[q].pc = "truncated"
                       /\ proc[q].pc = "truncated" => proc'[q] = proc[q]
    BY <1>1, <1>2 DEF Idle
<1> QED BY <1>1, <1>3, OthersLeaveContents DEF SerialInv

(* The commands that are loaded stay loaded until they truncate the file. *)
LEMMA LoadedStayLoaded ==
    ASSUME Basics, CommandsLoaded, NEW p \in Procs,
           Truncate(p) \/ Write(p) \/ WriteKeyFile(p) \/ Crash(p)
    PROVE  CommandsLoaded'
<1>1. \E d : proc' = [proc EXCEPT ![p] = d] /\ d.pc # "loaded"
    <2>1. Idle.pc # "loaded"
        BY DEF Idle
    <2>2. \A n, i : Writing(n, i).pc # "loaded" /\ KeyPending(i, n).pc # "loaded"
        BY DEF Writing, KeyPending
    <2>3. CASE Truncate(p)
        BY <2>2, <2>3 DEF Truncate
    <2>4. CASE Write(p)
        BY <2>1, <2>2, <2>4 DEF Write
    <2>5. CASE WriteKeyFile(p) \/ Crash(p)
        BY <2>1, <2>5 DEF WriteKeyFile, Crash
    <2> QED BY <2>3, <2>4, <2>5
<1>2. \A q \in Procs : proc'[q].pc = "loaded" => proc'[q] = proc[q]
    BY <1>1 DEF Basics
<1>3. ASSUME NEW q \in Procs, proc'[q].pc = "loaded"
      PROVE  OneCommand(proc'[q].base, proc'[q].next)
    <2>1. proc'[q] = proc[q]
        BY <1>2, <1>3
    <2> QED BY <1>3, <2>1 DEF CommandsLoaded
<1> QED BY <1>3 DEF CommandsLoaded, OneCommand

(* One step of one process. *)
LEMMA StepsAreSerial ==
    ASSUME IInv, CommandsLoaded, Next
    PROVE  CommandsLoaded' /\ SerialStep
<1>1. PICK p \in Procs : \/ BeginInit(p)
                         \/ \E cn \in CNs, now \in Times : BeginAdd(p, cn, now)
                         \/ BeginOther(p)
                         \/ Truncate(p)
                         \/ Write(p)
                         \/ WriteKeyFile(p)
                         \/ Crash(p)
    BY DEF Next
<1>2. Basics /\ (~stale => SerialInv)
    BY DEF IInv, Mixed, SerialInv
<1>3. CASE \/ BeginInit(p)
           \/ \E cn \in CNs, now \in Times : BeginAdd(p, cn, now)
           \/ BeginOther(p)
    <2>1. PICK base, next, index :
              /\ OneCommand(base, next)
              /\ proc' = [proc EXCEPT ![p] = Loaded(base, next, index)]
        BY <1>2, <1>3, BegunIsOneCommand
    <2>2. proc[p] = Idle /\ file' = file
        BY <1>2, <1>3, BegunIsOneCommand
    <2>3. stale' = stale
        BY <1>3 DEF BeginInit, BeginAdd, BeginOther
    <2>4. CommandsLoaded'
        BY <1>2, <2>1, BeginLoadsCommand
    <2>5. ~stale => Contents' = Contents
        BY <1>2, <2>1, <2>2, BeginIsSerial
    <2> QED BY <2>3, <2>4, <2>5 DEF SerialStep
<1>4. CASE Truncate(p) \/ Write(p) \/ WriteKeyFile(p) \/ Crash(p)
    <2>1. CommandsLoaded'
        BY <1>2, <1>4, LoadedStayLoaded
    <2>2. ~stale' => ~stale
        BY <1>2, <1>4 DEF Truncate, Write, WriteKeyFile, Crash, Basics
    <2>3. ~stale' => SerialStep
        BY <1>2, <1>4, <2>2, TruncateIsSerial, WriteIsSerial, WriteKeyFileIsSerial,
           CrashIsSerial DEF SerialStep
    <2> QED BY <2>1, <2>3 DEF SerialStep
<1> QED BY <1>1, <1>3, <1>4

(* As long as every save replaces the contents its command has read,        *)
(* commands that overlap amount to commands run one after the other, each   *)
(* whole and on what the one before it left.  This is what lets the module  *)
(* Cli run one command at a time.                                           *)
THEOREM SerialCommands == Spec => CommandsAreSerial
<1>1. Init => CommandsLoaded
    BY DEF Init, CommandsLoaded, Idle
<1>2. IInv /\ CommandsLoaded /\ [Next]_vars => CommandsLoaded'
    <2>1. CommandsLoaded /\ UNCHANGED vars => CommandsLoaded'
        BY DEF CommandsLoaded, vars, OneCommand
    <2> QED BY <2>1, StepsAreSerial
<1>3. IInv /\ CommandsLoaded /\ [Next]_vars => [SerialStep]_vars
    BY StepsAreSerial
<1>4. Spec => []CommandsLoaded
    BY <1>1, <1>2, Invariance, PTL DEF Spec
<1> QED BY <1>3, <1>4, Invariance, PTL DEF Spec, CommandsAreSerial

(* Only a kill, or a save over contents its command had not read, leaves a  *)
(* file that is not empty and does not parse (state.go:73-80).              *)
THEOREM WholeSaves == Spec => []SavesAreWhole
<1>1. IInv => SavesAreWhole
    BY DEF IInv, Mixed, Consistent, SavesAreWhole
<1> QED BY <1>1, Invariance, PTL

(* As long as every save replaces the contents its command has read, an     *)
(* entry "ca add" has reported stays until it is pruned, kills              *)
(* notwithstanding.                                                         *)
THEOREM EntriesPersist == Spec => []ReportedEntriesPersist
<1>1. IInv => ReportedEntriesPersist
    BY DEF IInv, Mixed, Consistent, Keeps, EntriesKept, ReportedEntriesPersist
<1> QED BY <1>1, Invariance, PTL

(* Under the same condition, a key file holds the key of the entry it is    *)
(* named after, unless it is an earlier log's, which stays as it was        *)
(* (ca.go:181-192).                                                         *)
THEOREM KeysMatch == Spec => []KeyFilesMatchEntries
<1>1. IInv => KeyFilesMatchEntries
    BY DEF IInv, Mixed, Consistent, Basics, Keeps, KeysKept, KeyFilesMatchEntries
<1> QED BY <1>1, Invariance, PTL

=============================================================================
