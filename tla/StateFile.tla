------------------------------ MODULE StateFile -----------------------------
(***************************************************************************)
(* Processes of the tool that run on one state file at the same time, and  *)
(* may be killed (src/cmd/mtc-demo/state.go and the commands that save).   *)
(* There is no lock: a command reads the file, computes, and os.WriteFile  *)
(* truncates the file and then writes it; "ca add" writes the subject key  *)
(* to a file of its own afterwards.  Each of these is a step here; a read  *)
(* sees no write half done, but a kill may leave one.                      *)
(*                                                                         *)
(* A write goes over whatever is in the file by then.  If it is killed     *)
(* part of the way, the beginning of its text stands before the end of     *)
(* another's, and that may parse: the entries of one command, for example, *)
(* with the metadata of the other.  Which mixtures parse depends on where  *)
(* the fields lie in the two texts.  This is the constant Mixtures, about  *)
(* which nothing is assumed.                                               *)
(*                                                                         *)
(* Commands that save nothing take no step, and neither does one that      *)
(* reports an error, as all but "ca init" do when the file does not parse. *)
(* What the commands compute is DemoState's.                               *)
(*                                                                         *)
(* Whoever follows "state already exists; delete it first" (ca.go:60)      *)
(* leaves the old log's key files behind: some are there from the start.   *)
(***************************************************************************)
EXTENDS DemoState

CONSTANTS
    Procs,        \* processes of the tool
    Absent,       \* there is no state file
    Empty,        \* the file is there, without contents
    Garbled,      \* its contents do not parse
    Mixtures(_, _), \* contents that parse, of a text begun over another one
    Leftover,     \* indices with a key file of an earlier log
    OldKey,       \* what those files hold
    Times,        \* what the wall clock may show
    MaxSize,      \* bound: no entry is added at this log size
    MaxKeys,      \* bound: subject keys generated
    MaxCrashes    \* bound: processes killed

ASSUME StateFileConstants ==
    /\ Leftover \subseteq Nat
    /\ Times \subseteq Nat
    /\ MaxSize \in Nat
    /\ MaxKeys \in Nat
    /\ MaxCrashes \in Nat
    /\ {Absent, Empty, Garbled} \cap StateType = {}
    /\ Absent # Empty /\ Absent # Garbled /\ Empty # Garbled

VARIABLES
    file,         \* the state file
    proc,         \* per process, the command it runs and how far it is
    keyFiles,     \* per entry index, the key in subject-<index>.key.pem
    keys,         \* number of subject keys generated
    crashes,      \* number of processes killed
    reported,     \* entries that a finished "ca add" reported, with index
    stale         \* whether a save has replaced contents it had not read

vars == <<file, proc, keyFiles, keys, crashes, reported, stale>>

Idle == [pc |-> "idle"]

(* A command that read base and is going to save next. *)
Loaded(base, next, index) ==
    [pc |-> "loaded", base |-> base, next |-> next, index |-> index]

(* It has truncated the file and is going to write it. *)
Writing(next, index) == [pc |-> "truncated", next |-> next, index |-> index]

(* "ca add" has saved the entry at the index, but not its subject key. *)
KeyPending(index, s) ==
    [pc |-> "saved", index |-> index, key |-> s.meta[index + 1].key]

NoIndex == -1

IsAState(contents) == contents \notin {Absent, Empty, Garbled}

Init ==
    /\ file = Absent
    /\ proc = [p \in Procs |-> Idle]
    /\ keyFiles = [i \in Leftover |-> OldKey]
    /\ keys = 0
    /\ crashes = 0
    /\ reported = {}
    /\ stale = FALSE

(* cmdCAInit drops the error of loadState: a file it cannot parse counts as *)
(* none.                                                                    *)
BeginInit(p) ==
    /\ proc[p] = Idle
    /\ ~IsAState(file)
    /\ proc' = [proc EXCEPT ![p] = Loaded(Absent, InitialState, NoIndex)]
    /\ UNCHANGED <<file, keyFiles, keys, crashes, reported, stale>>

(* cmdCAAdd up to the save: the subject key is fresh. *)
BeginAdd(p, cn, now) ==
    /\ proc[p] = Idle
    /\ IsAState(file) /\ CanAdd(file)
    /\ Len(file.entries) < MaxSize
    /\ keys < MaxKeys
    /\ keys' = keys + 1
    /\ proc' = [proc EXCEPT ![p] =
                    Loaded(file, Added(file, cn, keys, now), Len(file.entries))]
    /\ UNCHANGED <<file, keyFiles, crashes, reported, stale>>

(* What the other commands that save would make of a state. *)
Saved(s) ==
    {Pruned(s, k) : k \in {k \in 0..Len(s.entries) : CanPruneState(s, k)}}
    \union {WithCosigner(s, name, Len(s.cosigners) + 1) :
                name \in {n \in Names : CanKeygen(s, n)}}
    \union {WithLandmarks(s, n) : n \in {n \in MaxActives : CanInitLandmarks(s)}}
    \union {WithLandmark(s, now) : now \in {t \in Times : CanAllocateLandmark(s, t)}}

(* cmdCAPrune, cmdCosignerKeygen, cmdLandmarkInit, cmdLandmarkAllocate up   *)
(* to the save.                                                             *)
BeginOther(p) ==
    /\ proc[p] = Idle
    /\ IsAState(file)
    /\ \E next \in Saved(file) :
           proc' = [proc EXCEPT ![p] = Loaded(file, next, NoIndex)]
    /\ UNCHANGED <<file, keyFiles, keys, crashes, reported, stale>>

(* Slip: os.WriteFile without O_TRUNC. *)
Truncate_Not(p) ==
    /\ proc[p].pc = "loaded"
    /\ proc' = [proc EXCEPT ![p] = Writing(@.next, @.index)]
    /\ stale' = (stale \/ file # proc[p].base)
    /\ UNCHANGED <<file, keyFiles, keys, crashes, reported>>

(* os.WriteFile opens the file with O_CREATE and O_TRUNC. *)
Truncate(p) ==
    /\ proc[p].pc = "loaded"
    /\ file' = Empty
    /\ proc' = [proc EXCEPT ![p] = Writing(@.next, @.index)]
    /\ stale' = (stale \/ file # proc[p].base)
    /\ UNCHANGED <<keyFiles, keys, crashes, reported>>

(* What the whole text of new leaves when it is written over old: the end   *)
(* of a longer text stays behind it, and json.Unmarshal refuses that.       *)
Overwritten(old, new) == IF old = Empty THEN {new} ELSE {new, Garbled}

(* What a kill leaves of new: nothing of it, all of it, or its beginning,   *)
(* which does not parse but for the end another process's text may give it. *)
Interrupted(old, new) ==
    {old, Garbled} \union Overwritten(old, new)
        \union (IF old = Empty THEN {} ELSE Mixtures(old, new))

(* Slip: the state is marshalled after the file is opened, and fails. *)
Write_MarshalsLate(p) ==
    /\ proc[p].pc = "truncated"
    /\ proc' = [proc EXCEPT ![p] = Idle]
    /\ UNCHANGED <<file, keyFiles, keys, crashes, reported, stale>>

(* Slip: the size of the log is reported, not the index of the entry. *)
Write_ReportsSize(p) ==
    LET c == proc[p]
    IN  /\ c.pc = "truncated"
        /\ file' \in Overwritten(file, c.next)
        /\ IF c.index = NoIndex
           THEN /\ proc' = [proc EXCEPT ![p] = Idle]
                /\ UNCHANGED reported
           ELSE /\ proc' = [proc EXCEPT ![p] = KeyPending(c.index, c.next)]
                /\ reported' = reported \union
                       {[index |-> c.index + 1, entry |-> c.next.meta[c.index + 1]]}
        /\ UNCHANGED <<keyFiles, keys, crashes, stale>>

(* The contents are written and the command reports success. *)
Write(p) ==
    LET c == proc[p]
    IN  /\ c.pc = "truncated"
        /\ file' \in Overwritten(file, c.next)
        /\ IF c.index = NoIndex
           THEN /\ proc' = [proc EXCEPT ![p] = Idle]
                /\ UNCHANGED reported
           ELSE /\ proc' = [proc EXCEPT ![p] = KeyPending(c.index, c.next)]
                /\ reported' = reported \union
                       {[index |-> c.index, entry |-> c.next.meta[c.index + 1]]}
        /\ UNCHANGED <<keyFiles, keys, crashes, stale>>

(* Slip: the key file is opened without O_EXCL. *)
WriteKeyFile_Replaces(p) ==
    LET index == proc[p].index
    IN  /\ proc[p].pc = "saved"
        /\ keyFiles' = [i \in DOMAIN keyFiles \union {index} |->
                            IF i = index THEN proc[p].key ELSE keyFiles[i]]
        /\ proc' = [proc EXCEPT ![p] = Idle]
        /\ UNCHANGED <<file, keys, crashes, reported, stale>>

(* cmdCAAdd's last step: O_EXCL keeps a key file that is already there, and *)
(* nothing is reported then.                                                *)
WriteKeyFile(p) ==
    LET index == proc[p].index
    IN  /\ proc[p].pc = "saved"
        /\ keyFiles' = [i \in DOMAIN keyFiles \union {index} |->
                            IF i \in DOMAIN keyFiles THEN keyFiles[i] ELSE proc[p].key]
        /\ proc' = [proc EXCEPT ![p] = Idle]
        /\ UNCHANGED <<file, keys, crashes, reported, stale>>

(* The process is killed. *)
Crash(p) ==
    /\ proc[p] # Idle
    /\ crashes < MaxCrashes
    /\ crashes' = crashes + 1
    /\ proc' = [proc EXCEPT ![p] = Idle]
    /\ file' \in IF proc[p].pc = "truncated"
                  THEN Interrupted(file, proc[p].next) ELSE {file}
    /\ UNCHANGED <<keyFiles, keys, reported, stale>>

Continue(p) == Truncate(p) \/ Write(p) \/ WriteKeyFile(p)

Next ==
    \E p \in Procs :
        \/ BeginInit(p)
        \/ \E cn \in CNs, now \in Times : BeginAdd(p, cn, now)
        \/ BeginOther(p)
        \/ Truncate(p)
        \/ Write(p)
        \/ WriteKeyFile(p)
        \/ Crash(p)

(* A process that is not killed goes on: none of these steps waits. *)
Spec == Init /\ [][Next]_vars /\ \A p \in Procs : WF_vars(Continue(p))

-----------------------------------------------------------------------------
(* Properties *)

(* It takes both a save over contents its command had not read and a kill   *)
(* to leave a file that parses but that rebuildLog, rebuildLandmarks or "ca *)
(* issue" make nothing, or something else, of.  However commands overlap, a *)
(* file that parses is a consistent one as long as none is killed; wherever *)
(* they are killed, it is one as long as every save replaces what its       *)
(* command had read (state.go:57-80, 94-152).                               *)
FilesThatParseLoad == IsAState(file) => Loads(file) \/ (stale /\ crashes > 0)

(* One command that saves, run on its own: what it makes of a file that     *)
(* holds s.                                                                 *)
OneCommand(s, t) ==
    \/ s = Absent /\ t = InitialState
    \/ /\ IsAState(s)
       /\ \/ t \in Saved(s)
          \/ /\ CanAdd(s)
             /\ \E cn \in CNs, key \in 0..MaxKeys, now \in Times :
                    t = Added(s, cn, key, now)

Writer == CHOOSE p \in Procs : proc[p].pc = "truncated"

(* What the file holds or, between the two steps of a save, is to hold.     *)
Contents ==
    IF \E p \in Procs : proc[p].pc = "truncated" THEN proc[Writer].next ELSE file

SerialStep ==
    ~stale' =>
        \/ Contents' = Contents
        \/ OneCommand(Contents, Contents')
        \/ Contents' \in {Empty, Garbled} /\ crashes' > crashes

(* As long as no save replaces contents its command had not read, commands  *)
(* that overlap amount to commands run one after the other, each on what    *)
(* the one before it left, and each taking effect when it truncates the     *)
(* file.  Only a kill can leave a file that does not parse, and nothing is  *)
(* made of that (state.go:57-80).                                           *)
CommandsAreSerial == [][SerialStep]_vars

(* Reported entries can only get lost when a save replaces contents its     *)
(* command had not read.  As long as none does, an entry that "ca add"      *)
(* reported stays at its index until it is pruned, even when commands are   *)
(* killed, whenever the file can be read.                                   *)
ReportedEntriesPersist ==
    ~stale /\ IsAState(file) =>
        \A r \in reported :
            /\ r.index < Len(file.entries)
            /\ file.entries[r.index + 1] =
                   IF r.index < file.minIndex THEN Blank ELSE r.entry

(* Under the same condition a key file holds the key of the entry its name  *)
(* says, although it is written after the log was saved.  The exception are *)
(* the files an earlier log has left: they are never written over, so the   *)
(* old keys survive and the new log's keys at those indices are in no file  *)
(* (O_EXCL, ca.go:181-192).                                                 *)
KeyFilesMatchEntries ==
    /\ \A index \in Leftover : keyFiles[index] = OldKey
    /\ ~stale /\ IsAState(file) =>
           \A index \in DOMAIN keyFiles \ Leftover :
               /\ index < Len(file.meta)
               /\ file.meta[index + 1].key = keyFiles[index]

(* A file found empty gets its contents back, unless a process was killed.  *)
SavesComplete == file = Empty ~> (file # Empty \/ crashes > 0)

-----------------------------------------------------------------------------
(* Claims of the documentation that the tool does not keep *)

(* "The CA appends validated entries to an append-only log" (README.md:36): *)
(* an entry that was reported as added stays in the log.                    *)
LogIsAppendOnly ==
    IsAState(file) =>
        \A r \in reported :
            /\ r.index < Len(file.entries)
            /\ file.entries[r.index + 1] \in {r.entry, Blank}

(* "state already exists at %s; delete it first to reinitialize"            *)
(* (ca.go:60): "ca init" does not go on when there is a state file.         *)
InitNeedsNoFile ==
    [][\A p \in Procs : file # Absent => ~BeginInit(p)]_vars

=============================================================================
