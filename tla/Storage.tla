------------------------------ MODULE Storage ------------------------------
(***************************************************************************)
(* cache.Storage: Save, SaveRaw, Load and LoadRaw of one key by concurrent *)
(* goroutines, the cleaner, and a process that may die at any step and     *)
(* start again over the same directory.  Keys have files of their own and  *)
(* share only the cleaner's lock.                                          *)
(*                                                                         *)
(* A file is an inode with three pieces: what Encode or Copy wrote, what   *)
(* Flush added, and the trailer of Close.  A piece is the number of the    *)
(* save that wrote it, 0 if it is missing.  os.Create truncates the inode  *)
(* that is there, under the eyes of those who read it.                     *)
(***************************************************************************)
EXTENDS Naturals, FiniteSets

CONSTANTS
    Procs,       \* goroutines that use the storage
    Inodes,
    NoInode,
    MaxSaves,    \* bound: saves that create the file
    MaxFaults,   \* bound: writes that fail
    MaxCrashes   \* bound: deaths of the process

ASSUME StorageAssumption ==
    /\ IsFiniteSet(Procs)
    /\ NoInode \notin Inodes
    \* There is another inode, unless each goroutine has one open.
    /\ \A S \in SUBSET Inodes :
         IsFiniteSet(S) /\ Cardinality(S) < Cardinality(Procs) => Inodes \ S # {}
    /\ MaxSaves \in Nat /\ MaxFaults \in Nat /\ MaxCrashes \in Nat

VARIABLES
    op,        \* "save", "load" (stops with the JSON value) or "loadRaw" (reads all)
    pc,        \* where the goroutine is
    fd,        \* the inode it has open
    pos,       \* the pieces it has written or read
    number,    \* the number of its save, or of the one whose first piece it read
    result,    \* what its Load returns: "nothing", what "one" save wrote, or a "mix"
    readers,   \* goroutines that hold cleanUpLock for reading
    cleaner,   \* "asleep", "waiting" for cleanUpLock, or "cleaning"
    saving,    \* the key is in savingMap
    dir,       \* the inode under the key's path
    disk,      \* the pieces of each inode
    saves, faults, crashes,
    cut,       \* history: saves that died, or whose Close failed
    newest,    \* history: the last save that was closed
    since,     \* history: newest when the goroutine's Load began
    seen       \* history: the saves that there were when it found the key free

procs  == <<op, pc, fd, pos, number, result, since, seen>>
locks  == <<readers, cleaner, saving>>
files  == <<dir, disk>>
counts == <<saves, faults, crashes, cut, newest>>
vars   == <<procs, locks, files, counts>>

Pieces == 1 .. 3
Empty  == [i \in Pieces |-> 0]
Whole(content) == content[1] # 0 /\ \A i \in Pieces : content[i] = content[1]

Init ==
    /\ op = [p \in Procs |-> "load"] /\ pc = [p \in Procs |-> "idle"]
    /\ fd = [p \in Procs |-> NoInode] /\ pos = [p \in Procs |-> 0]
    /\ number = [p \in Procs |-> 0] /\ result = [p \in Procs |-> "nothing"]
    /\ since = [p \in Procs |-> 0] /\ seen = [p \in Procs |-> 0]
    /\ readers = {} /\ cleaner = "asleep" /\ saving = FALSE
    /\ dir = NoInode /\ disk = [i \in Inodes |-> Empty]
    /\ saves = 0 /\ faults = 0 /\ crashes = 0
    /\ cut = {} /\ newest = 0

Goto(p, here, there) == pc[p] = here /\ pc' = [pc EXCEPT ![p] = there]

InUse == {fd[p] : p \in Procs} \cup {dir}

Fault == faults < MaxFaults /\ faults' = faults + 1

-----------------------------------------------------------------------------
(* All operations: cleanUpLock.RLock first, RUnlock last. *)

Call(p, kind) ==
    /\ Goto(p, "idle", "enter")
    /\ kind = "save" => saves < MaxSaves
    /\ op' = [op EXCEPT ![p] = kind]
    /\ since' = [since EXCEPT ![p] = IF kind = "save" THEN 0 ELSE newest]
    /\ UNCHANGED <<fd, pos, number, result, seen, locks, files, counts>>

\* Fault: readers pass a cleaner that waits.
EnterBeside(p) ==
    /\ cleaner # "cleaning"
    /\ Goto(p, "enter", IF op[p] = "save" THEN "lock" ELSE "check")
    /\ readers' = readers \cup {p}
    /\ UNCHANGED <<op, fd, pos, number, result, since, seen, cleaner, saving, files, counts>>

\* A Lock that waits keeps new readers out.
Enter(p) ==
    /\ cleaner = "asleep"
    /\ Goto(p, "enter", IF op[p] = "save" THEN "lock" ELSE "check")
    /\ readers' = readers \cup {p}
    /\ UNCHANGED <<op, fd, pos, number, result, since, seen, cleaner, saving, files, counts>>

\* An inode that is neither open nor under the path is gone.
Collected(used) == [i \in Inodes |-> IF i \in used THEN disk[i] ELSE Empty]

Leave(p) ==
    /\ Goto(p, "leave", "idle")
    /\ readers' = readers \ {p}
    /\ fd' = [fd EXCEPT ![p] = NoInode]
    /\ op' = [op EXCEPT ![p] = "load"] /\ result' = [result EXCEPT ![p] = "nothing"]
    /\ pos' = [pos EXCEPT ![p] = 0] /\ number' = [number EXCEPT ![p] = 0]
    /\ since' = [since EXCEPT ![p] = 0] /\ seen' = [seen EXCEPT ![p] = 0]
    /\ disk' = Collected({fd[q] : q \in Procs \ {p}} \cup {dir})
    /\ UNCHANGED <<cleaner, saving, dir, counts>>

-----------------------------------------------------------------------------
(* Save and SaveRaw. *)

\* Fault: the key is not looked up.
LockAnyway(p) ==
    /\ Goto(p, "lock", "create")
    /\ saving' = TRUE
    /\ UNCHANGED <<op, fd, pos, number, result, since, seen, readers, cleaner, files, counts>>

\* Fault: a save that finds another one running returns with the read lock.
LeavesLocked(p) ==
    /\ Goto(p, "lock", IF saving THEN "idle" ELSE "create")
    /\ saving' = TRUE
    /\ UNCHANGED <<op, fd, pos, number, result, since, seen, readers, cleaner, files, counts>>

\* lock(h): a save that finds another one running is dropped.
Lock(p) ==
    /\ Goto(p, "lock", IF saving THEN "leave" ELSE "create")
    /\ saving' = TRUE
    /\ UNCHANGED <<op, fd, pos, number, result, since, seen, readers, cleaner, files, counts>>

\* os.Create: a new inode, or the old one emptied.
Create(p) ==
    /\ saves < MaxSaves
    /\ Goto(p, "create", "write")
    /\ \E i \in IF dir = NoInode THEN Inodes \ InUse ELSE {dir} :
         /\ dir' = i
         /\ disk' = [disk EXCEPT ![i] = Empty]
         /\ fd' = [fd EXCEPT ![p] = i]
    /\ saves' = saves + 1
    /\ number' = [number EXCEPT ![p] = saves + 1]
    /\ pos' = [pos EXCEPT ![p] = 0]
    /\ UNCHANGED <<op, result, since, seen, locks, faults, crashes, cut, newest>>

\* Bound: a save past MaxSaves finds that it cannot create its file.
CreateFails(p) ==
    /\ Goto(p, "create", "unlock")
    /\ saves = MaxSaves \/ faults < MaxFaults
    /\ faults' = IF saves < MaxSaves THEN faults + 1 ELSE faults
    /\ UNCHANGED <<op, fd, pos, number, result, since, seen, locks, files, saves, crashes, cut,
                   newest>>

\* Encode or Copy, then Flush.
Write(p) ==
    /\ pos[p] < 2
    /\ Goto(p, "write", IF pos[p] = 1 THEN "close" ELSE "write")
    /\ disk' = [disk EXCEPT ![fd[p]][pos[p] + 1] = number[p]]
    /\ pos' = [pos EXCEPT ![p] = @ + 1]
    /\ UNCHANGED <<op, fd, number, result, since, seen, locks, dir, counts>>

WriteFails(p) ==
    /\ Fault
    /\ Goto(p, "write", "remove")
    /\ UNCHANGED <<op, fd, pos, number, result, since, seen, locks, files, saves, crashes, cut,
                   newest>>

\* Fault: what was written stays.
KeepBroken(p) ==
    /\ Goto(p, "remove", "unlock")
    /\ UNCHANGED <<op, fd, pos, number, result, since, seen, locks, files, counts>>

Remove(p) ==
    /\ Goto(p, "remove", "unlock")
    /\ dir' = NoInode
    /\ UNCHANGED <<op, fd, pos, number, result, since, seen, locks, disk, counts>>

\* The deferred gz.Close writes the trailer; nobody looks at its error.
Close(p) ==
    /\ Goto(p, "close", "unlock")
    /\ \/ /\ disk' = [disk EXCEPT ![fd[p]][3] = number[p]]
          /\ newest' = number[p]
          /\ UNCHANGED <<faults, cut>>
       \/ /\ Fault
          /\ cut' = cut \cup {number[p]}
          /\ UNCHANGED <<disk, newest>>
    /\ UNCHANGED <<op, fd, pos, number, result, since, seen, locks, dir, saves, crashes>>

\* Fault: the key stays in savingMap.
KeepsKey(p) ==
    /\ Goto(p, "unlock", "leave")
    /\ UNCHANGED <<op, fd, pos, number, result, since, seen, locks, files, counts>>

Unlock(p) ==
    /\ Goto(p, "unlock", "leave")
    /\ saving' = FALSE
    /\ UNCHANGED <<op, fd, pos, number, result, since, seen, readers, cleaner, files, counts>>

-----------------------------------------------------------------------------
(* Load and LoadRaw. *)

Check(p) ==
    /\ Goto(p, "check", IF saving THEN "leave" ELSE "open")
    /\ seen' = [seen EXCEPT ![p] = saves]
    /\ UNCHANGED <<op, fd, pos, number, result, since, locks, files, counts>>

Open(p) ==
    /\ Goto(p, "open", IF dir = NoInode THEN "leave" ELSE "read")
    /\ fd' = [fd EXCEPT ![p] = dir]
    /\ UNCHANGED <<op, pos, number, result, since, seen, locks, files, counts>>

Needed(p) == IF op[p] = "load" THEN 2 ELSE 3

\* A missing piece ends the load: it is the end of the file.  One of another save does
\* if the deflate stream or the JSON is broken there, or else at the checksum, which
\* a Load that has its value does not read.
Read(p) ==
    LET piece == disk[fd[p]][pos[p] + 1]
        same  == number[p] \in {0, piece}
        last  == pos[p] + 1 = Needed(p)
    IN
    \E good \in BOOLEAN :
      /\ Goto(p, "read", IF good /\ ~last THEN "read" ELSE "leave")
      /\ good => piece # 0 /\ (same \/ op[p] = "load")
      /\ piece # 0 /\ same => good
      /\ pos' = [pos EXCEPT ![p] = @ + 1]
      /\ number' = [number EXCEPT ![p] = IF @ = 0 THEN piece ELSE @]
      /\ result' = [result EXCEPT ![p] = IF ~good \/ ~last THEN "nothing"
                                            ELSE IF same THEN "one" ELSE "mix"]
      /\ UNCHANGED <<op, fd, since, seen, locks, files, counts>>

-----------------------------------------------------------------------------
(* The cleaner, and the process. *)

Tick ==
    /\ cleaner = "asleep"
    /\ cleaner' = "waiting"
    /\ UNCHANGED <<procs, readers, saving, files, counts>>

\* Fault: the cleaner takes the lock for reading.
CleansBeside ==
    /\ cleaner = "waiting"
    /\ cleaner' = "cleaning"
    /\ UNCHANGED <<procs, readers, saving, files, counts>>

Clean ==
    /\ cleaner = "waiting" /\ readers = {}
    /\ cleaner' = "cleaning"
    /\ UNCHANGED <<procs, readers, saving, files, counts>>

\* The file goes if it is older than expires.
Cleaned ==
    /\ cleaner = "cleaning"
    /\ cleaner' = "asleep"
    /\ \E kept \in {dir, NoInode} : dir' = kept /\ disk' = Collected({kept})
    /\ UNCHANGED <<procs, readers, saving, counts>>

\* The process dies and starts again; the directory stays as it was.
Crash ==
    /\ crashes < MaxCrashes
    /\ crashes' = crashes + 1
    /\ cut' = cut \cup ({number[p] : p \in {q \in Procs : pc[q] \in {"write", "close", "remove"}}})
    /\ pc' = [p \in Procs |-> "idle"] /\ fd' = [p \in Procs |-> NoInode]
    /\ pos' = [p \in Procs |-> 0] /\ number' = [p \in Procs |-> 0]
    /\ result' = [p \in Procs |-> "nothing"]
    /\ readers' = {} /\ cleaner' = "asleep" /\ saving' = FALSE
    /\ op' = [p \in Procs |-> "load"] /\ since' = [p \in Procs |-> 0]
    /\ seen' = [p \in Procs |-> 0]
    /\ disk' = Collected({dir})
    /\ UNCHANGED <<dir, saves, faults, newest>>

Works(p) ==
    \/ Leave(p)
    \/ Lock(p) \/ Create(p) \/ CreateFails(p) \/ Write(p) \/ WriteFails(p)
    \/ Remove(p) \/ Close(p) \/ Unlock(p)
    \/ Check(p) \/ Open(p) \/ Read(p)

Next ==
    \/ \E p \in Procs :
         \/ \E kind \in {"save", "load", "loadRaw"} : Call(p, kind)
         \/ Enter(p) \/ Works(p)
    \/ Tick \/ Clean \/ Cleaned
    \/ Crash

Spec == Init /\ [][Next]_vars

\* Goroutines run, the RWMutex lets the readers in that waited for the cleaner
\* before it goes again, and the cleaner cleans when it has the lock.
Fairness ==
    /\ \A p \in Procs : WF_vars(Works(p)) /\ SF_vars(Enter(p))
    /\ WF_vars(Clean) /\ WF_vars(Cleaned)

FairSpec == Spec /\ Fairness

-----------------------------------------------------------------------------
(* Properties. *)

\* The range of every variable; the read lock is held exactly inside operations.
StorageTypeOK ==
    /\ readers = {p \in Procs : pc[p] \notin {"idle", "enter"}}
    /\ op \in [Procs -> {"save", "load", "loadRaw"}]
    /\ pc \in [Procs -> {"idle", "enter", "leave", "lock", "create", "write", "close",
                         "remove", "unlock", "check", "open", "read"}]
    /\ fd \in [Procs -> Inodes \cup {NoInode}]
    /\ pos \in [Procs -> 0 .. 3] /\ number \in [Procs -> 0 .. MaxSaves]
    /\ result \in [Procs -> {"nothing", "one", "mix"}]
    /\ since \in [Procs -> 0 .. MaxSaves] /\ seen \in [Procs -> 0 .. MaxSaves]
    /\ cleaner \in {"asleep", "waiting", "cleaning"} /\ saving \in BOOLEAN
    /\ dir \in Inodes \cup {NoInode} /\ disk \in [Inodes -> [Pieces -> 0 .. MaxSaves]]
    /\ saves \in 0 .. MaxSaves /\ faults \in 0 .. MaxFaults /\ crashes \in 0 .. MaxCrashes
    /\ cut \subseteq 1 .. MaxSaves /\ newest \in 0 .. MaxSaves

\* A save writes to the file under the key's path until it is closed: no other
\* save, no removal after an error and no cleaner takes it away
\* (cache.go:56, 116-158).
WriterKeepsItsFile ==
    \A p \in Procs : pc[p] \in {"write", "close", "remove"} => dir = fd[p]

\* Between saves the file is whole, or is missing; it is broken only when the last
\* save of it was cut by a death of the process or by a Close that failed, whose
\* error nobody sees (cache.go:137, 143-157).
BrokenOnlyWhenCut ==
    ~saving /\ dir # NoInode =>
        \/ Whole(disk[dir])
        \/ disk[dir] = Empty /\ cut # {}
        \/ \E i \in Pieces : disk[dir][i] \in cut

\* A load that succeeds has nothing older than what was complete when it began.  What
\* LoadRaw returns is one save's content; so is what Load does, which stops before the
\* checksum, unless a save truncated the file after Load found the key free
\* (cache.go:160-191, 237-265).
LoadIsFresh ==
    \A p \in Procs : result[p] # "nothing" =>
        /\ number[p] >= since[p]
        /\ result[p] = "mix" => op[p] = "load" /\ saves > seen[p]

\* Every operation returns, and the key does not stay in savingMap, where it would
\* keep all later saves and loads of it away (cache.go:82-104, 123).
OperationsEnd ==
    /\ \A p \in Procs : pc[p] # "idle" ~> pc[p] = "idle"
    /\ saving ~> ~saving

\* The cleaner gets its turn however many operations there are (cache.go:56).
CleanerGetsItsTurn == cleaner = "waiting" ~> cleaner = "asleep"
=============================================================================
