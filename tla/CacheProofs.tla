----------------------------- MODULE CacheProofs -----------------------------
(***************************************************************************)
(* The file cache, for any number of goroutines, inodes, saves, faults and *)
(* deaths: a save keeps its file until it is closed, a file that is there  *)
(* is whole unless a save of it was cut, and what a load returns is not    *)
(* older than what was complete when it began, nor of two saves unless the *)
(* second one began while it ran.                                          *)
(*                                                                         *)
(* The three lean on each other.  The file under the path is the one that  *)
(* the last save created, and holds nothing of an earlier one; so it is    *)
(* whole once that save is closed.  A goroutine that has it open reads     *)
(* nothing older: whoever writes to it afterwards is a later save.         *)
(*                                                                         *)
(* Then the guard of its directory, for any versions and files: no start,  *)
(* whatever became of the ones before it, serves the files of another      *)
(* version.                                                                *)
(***************************************************************************)
EXTENDS Storage, CacheVersion, FiniteSetTheorems, TLAPS

Saving  == {"create", "write", "close", "remove", "unlock"}
Writing == {"write", "close", "remove"}
Before  == {"idle", "enter", "lock", "create", "check", "open"}

\* The key is in savingMap exactly while one goroutine saves.
OneSaver ==
    /\ \A p, q \in Procs : pc[p] \in Saving /\ pc[q] \in Saving => p = q
    /\ saving <=> \E p \in Procs : pc[p] \in Saving

\* Nobody is inside an operation when the cleaner works.
CleansAlone == cleaner = "cleaning" => readers = {}

\* What the place of a goroutine says of its data.
Places ==
    \A p \in Procs :
        /\ pc[p] \in Before => pos[p] = 0 /\ number[p] = 0
        /\ pc[p] = "write" => pos[p] < 2
        /\ pc[p] = "close" => pos[p] = 2
        /\ pc[p] = "read" => pos[p] < Needed(p) /\ fd[p] \in Inodes
        /\ pc[p] \in Writing => fd[p] \in Inodes /\ number[p] = saves /\ saves > 0
        /\ result[p] # "nothing" => pc[p] = "leave"

\* The file under the path has nothing of a save before the last one, and a writer's
\* file has just what it wrote.
LastSave == dir # NoInode => \A i \in Pieces : disk[dir][i] \in {0, saves}
Written ==
    \A p \in Procs : pc[p] \in Writing =>
        \A i \in Pieces : disk[fd[p]][i] = IF i <= pos[p] THEN number[p] ELSE 0

\* The file is whole, or a save was cut, whenever nobody writes.
Sound(content) ==
    \/ Whole(content)
    \/ content = Empty /\ cut # {}
    \/ \E i \in Pieces : content[i] \in cut
SoundFile ==
    dir # NoInode /\ (\A p \in Procs : pc[p] \notin Writing) => Sound(disk[dir])

\* What is returned is not older than what was complete when the load began.
FreshResult == \A p \in Procs : result[p] # "nothing" => number[p] >= since[p]

\* An open file has nothing older than what was complete when the load began.
FreshFile ==
    /\ newest <= saves
    /\ \A p \in Procs : since[p] <= newest
    /\ \A p \in Procs : pc[p] = "read" =>
         /\ \A i \in Pieces : disk[fd[p]][i] # 0 => disk[fd[p]][i] >= since[p]
         /\ number[p] # 0 => number[p] >= since[p]

StorageInv ==
    /\ StorageTypeOK
    /\ OneSaver /\ CleansAlone /\ Places
    /\ WriterKeepsItsFile /\ LastSave /\ Written /\ SoundFile
    /\ FreshFile /\ FreshResult

LEMMA StorageStart == Init => StorageInv
  <1> SUFFICES ASSUME Init PROVE StorageInv
    OBVIOUS
  <1> USE StorageAssumption DEF Init, StorageInv
  <1>1. StorageTypeOK
    <2>1. readers = {p \in Procs : pc[p] \notin {"idle", "enter"}}
      OBVIOUS
    <2>2. disk \in [Inodes -> [Pieces -> 0 .. MaxSaves]]
      BY DEF Empty
    <2>3. /\ op \in [Procs -> {"save", "load", "loadRaw"}]
          /\ pc \in [Procs -> {"idle", "enter", "leave", "lock", "create", "write", "close",
                               "remove", "unlock", "check", "open", "read"}]
      OBVIOUS
    <2>4. /\ fd \in [Procs -> Inodes \cup {NoInode}]
          /\ result \in [Procs -> {"nothing", "one", "mix"}]
          /\ pos \in [Procs -> 0 .. 3] /\ number \in [Procs -> 0 .. MaxSaves]
          /\ since \in [Procs -> 0 .. MaxSaves] /\ seen \in [Procs -> 0 .. MaxSaves]
      OBVIOUS
    <2>5. /\ cleaner \in {"asleep", "waiting", "cleaning"}
          /\ dir \in Inodes \cup {NoInode}
          /\ saves \in 0 .. MaxSaves /\ faults \in 0 .. MaxFaults
          /\ crashes \in 0 .. MaxCrashes /\ newest \in 0 .. MaxSaves
      OBVIOUS
    <2>6. cut \subseteq 1 .. MaxSaves /\ saving \in BOOLEAN
      OBVIOUS
    <2> HIDE DEF Init
    <2> QED
      BY <2>1, <2>2, <2>3, <2>4, <2>5, <2>6 DEF StorageTypeOK
  <1>2. OneSaver /\ CleansAlone /\ Places /\ FreshFile /\ FreshResult
    BY DEF OneSaver, CleansAlone, Places, FreshFile, FreshResult, Saving, Writing, Before
  <1>3. WriterKeepsItsFile /\ LastSave /\ Written /\ SoundFile
    BY DEF WriterKeepsItsFile, LastSave, Written, SoundFile, Writing
  <1> QED
    BY <1>1, <1>2, <1>3

-----------------------------------------------------------------------------
(* All operations. *)

LEMMA CallKeeps ==
    ASSUME StorageInv, NEW p \in Procs,
           NEW kind \in {"save", "load", "loadRaw"}, Call(p, kind)
    PROVE  StorageInv'
  <1> USE StorageAssumption DEF StorageInv, Call, Goto, procs, locks, files, counts
  <1>1. StorageTypeOK'
    BY DEF StorageTypeOK
  <1>2. OneSaver' /\ CleansAlone'
    BY DEF OneSaver, CleansAlone, Saving
  <1>3. Places' /\ FreshResult'
    BY DEF Places, FreshResult, Writing, Before, Needed
  <1>4. WriterKeepsItsFile' /\ LastSave' /\ Written'
    BY DEF WriterKeepsItsFile, LastSave, Written, Writing
  <1>5. SoundFile'
    BY DEF SoundFile, Writing, Sound
  <1>6. FreshFile'
    BY DEF StorageTypeOK, FreshFile
  <1> QED
    BY <1>1, <1>2, <1>3, <1>4, <1>5, <1>6

LEMMA EnterKeeps ==
    ASSUME StorageInv, NEW p \in Procs, Enter(p) PROVE StorageInv'
  <1> USE StorageAssumption DEF StorageInv, Enter, Goto, procs, locks, files, counts
  <1>1. StorageTypeOK'
    BY DEF StorageTypeOK
  <1>2. OneSaver' /\ CleansAlone'
    BY DEF OneSaver, CleansAlone, Saving
  <1>3. Places' /\ FreshResult'
    BY DEF Places, FreshResult, Writing, Before, Needed
  <1>4. WriterKeepsItsFile' /\ LastSave' /\ Written'
    BY DEF WriterKeepsItsFile, LastSave, Written, Writing
  <1>5. SoundFile'
    BY DEF SoundFile, Writing, Sound
  <1>6. FreshFile'
    BY DEF FreshFile
  <1> QED
    BY <1>1, <1>2, <1>3, <1>4, <1>5, <1>6

LEMMA LeaveKeeps ==
    ASSUME StorageInv, NEW p \in Procs, Leave(p) PROVE StorageInv'
  <1> USE StorageAssumption DEF StorageInv, Leave, Goto, procs, locks, files, counts
  <1>1. StorageTypeOK'
    BY DEF StorageTypeOK, Collected, Empty
  <1>2. OneSaver' /\ CleansAlone'
    BY DEF OneSaver, CleansAlone, Saving
  <1>3. Places' /\ FreshResult'
    BY DEF StorageTypeOK, Places, FreshResult, Writing, Needed
  <1>4. WriterKeepsItsFile' /\ LastSave' /\ Written'
    BY DEF StorageTypeOK, Places, WriterKeepsItsFile, LastSave, Written, Writing, Collected
  <1>5. SoundFile'
    BY DEF StorageTypeOK, SoundFile, Writing, Collected, Sound
  <1>6. FreshFile'
    BY DEF StorageTypeOK, Places, FreshFile, Collected
  <1> QED
    BY <1>1, <1>2, <1>3, <1>4, <1>5, <1>6

-----------------------------------------------------------------------------
(* Save and SaveRaw. *)

LEMMA LockKeeps ==
    ASSUME StorageInv, NEW p \in Procs, Lock(p) PROVE StorageInv'
  <1> USE StorageAssumption DEF StorageInv, Lock, Goto, procs, locks, files, counts
  <1>1. StorageTypeOK'
    BY DEF StorageTypeOK
  <1>2. OneSaver' /\ CleansAlone'
    BY DEF StorageTypeOK, OneSaver, CleansAlone, Saving
  <1>3. Places' /\ FreshResult'
    BY DEF Places, FreshResult, Writing, Before, Needed
  <1>4. WriterKeepsItsFile' /\ LastSave' /\ Written'
    BY DEF WriterKeepsItsFile, LastSave, Written, Writing
  <1>5. SoundFile'
    BY DEF SoundFile, Writing, Sound
  <1>6. FreshFile'
    BY DEF FreshFile
  <1> QED
    BY <1>1, <1>2, <1>3, <1>4, <1>5, <1>6

LEMMA CreateKeeps ==
    ASSUME StorageInv, NEW p \in Procs, Create(p) PROVE StorageInv'
  <1> USE StorageAssumption DEF StorageInv, Create, Goto, procs, locks, files, counts
  <1>1. StorageTypeOK'
    BY DEF StorageTypeOK, Empty
  <1>2. OneSaver' /\ CleansAlone'
    BY DEF OneSaver, CleansAlone, Saving
  <1>3. Places' /\ FreshResult'
    BY DEF StorageTypeOK, OneSaver, Places, FreshResult, Saving, Writing, Before, Needed
  <1>4. WriterKeepsItsFile' /\ LastSave' /\ Written'
    BY DEF StorageTypeOK, OneSaver, WriterKeepsItsFile, LastSave, Written, Saving, Writing,
           Empty, Pieces
  <1>5. SoundFile'
    BY DEF StorageTypeOK, SoundFile, Writing
  <1>6. FreshFile'
    BY DEF StorageTypeOK, FreshFile, Empty
  <1> QED
    BY <1>1, <1>2, <1>3, <1>4, <1>5, <1>6

LEMMA CreateFailsKeeps ==
    ASSUME StorageInv, NEW p \in Procs, CreateFails(p) PROVE StorageInv'
  <1> USE StorageAssumption DEF StorageInv, CreateFails, Goto, procs, locks, files, counts
  <1>1. StorageTypeOK'
    BY DEF StorageTypeOK
  <1>2. OneSaver' /\ CleansAlone'
    BY DEF OneSaver, CleansAlone, Saving
  <1>3. Places' /\ FreshResult'
    BY DEF Places, FreshResult, Writing, Before, Needed
  <1>4. WriterKeepsItsFile' /\ LastSave' /\ Written'
    BY DEF WriterKeepsItsFile, LastSave, Written, Writing
  <1>5. SoundFile'
    BY DEF SoundFile, Writing, Sound
  <1>6. FreshFile'
    BY DEF FreshFile
  <1> QED
    BY <1>1, <1>2, <1>3, <1>4, <1>5, <1>6

LEMMA WriteKeeps ==
    ASSUME StorageInv, NEW p \in Procs, Write(p) PROVE StorageInv'
  <1> USE StorageAssumption DEF StorageInv, Write, Goto, procs, locks, files, counts
  <1>1. StorageTypeOK'
    BY DEF StorageTypeOK, Places, Writing, Pieces
  <1>2. OneSaver' /\ CleansAlone'
    BY DEF OneSaver, CleansAlone, Saving
  <1>3. Places' /\ FreshResult'
    BY DEF StorageTypeOK, Places, FreshResult, Writing, Before, Needed
  <1>4. WriterKeepsItsFile' /\ LastSave' /\ Written'
    BY DEF StorageTypeOK, OneSaver, Places, WriterKeepsItsFile, LastSave, Written, Saving,
           Writing, Pieces
  <1>5. SoundFile'
    BY DEF SoundFile, Writing
  <1>6. FreshFile'
    BY DEF StorageTypeOK, Places, FreshFile, Writing
  <1> QED
    BY <1>1, <1>2, <1>3, <1>4, <1>5, <1>6

LEMMA WriteFailsKeeps ==
    ASSUME StorageInv, NEW p \in Procs, WriteFails(p) PROVE StorageInv'
  <1> USE StorageAssumption DEF StorageInv, WriteFails, Goto, procs, locks, files, counts
  <1>1. StorageTypeOK'
    BY DEF StorageTypeOK, Fault
  <1>2. OneSaver' /\ CleansAlone'
    BY DEF OneSaver, CleansAlone, Saving
  <1>3. Places' /\ FreshResult'
    BY DEF Places, FreshResult, Writing, Before, Needed
  <1>4. WriterKeepsItsFile' /\ LastSave' /\ Written'
    BY DEF WriterKeepsItsFile, LastSave, Written, Writing
  <1>5. SoundFile'
    BY DEF SoundFile, Writing
  <1>6. FreshFile'
    BY DEF FreshFile
  <1> QED
    BY <1>1, <1>2, <1>3, <1>4, <1>5, <1>6

LEMMA RemoveKeeps ==
    ASSUME StorageInv, NEW p \in Procs, Remove(p) PROVE StorageInv'
  <1> USE StorageAssumption DEF StorageInv, Remove, Goto, procs, locks, files, counts
  <1>1. StorageTypeOK'
    BY DEF StorageTypeOK
  <1>2. OneSaver' /\ CleansAlone'
    BY DEF OneSaver, CleansAlone, Saving
  <1>3. Places' /\ FreshResult'
    BY DEF Places, FreshResult, Writing, Before, Needed
  <1>4. WriterKeepsItsFile' /\ LastSave' /\ Written'
    BY DEF StorageTypeOK, OneSaver, WriterKeepsItsFile, LastSave, Written, Saving, Writing
  <1>5. SoundFile'
    BY DEF SoundFile
  <1>6. FreshFile'
    BY DEF FreshFile
  <1> QED
    BY <1>1, <1>2, <1>3, <1>4, <1>5, <1>6

LEMMA CloseKeeps ==
    ASSUME StorageInv, NEW p \in Procs, Close(p) PROVE StorageInv'
  <1> USE StorageAssumption DEF StorageInv, Close, Goto, procs, locks, files, counts
  <1>1. StorageTypeOK'
    <2>1. fd[p] \in Inodes /\ number[p] \in 1 .. MaxSaves
      BY DEF StorageTypeOK, Places, Writing
    <2>2. readers' = {q \in Procs : pc'[q] \notin {"idle", "enter"}}
      BY DEF StorageTypeOK
    <2>3. disk' \in [Inodes -> [Pieces -> 0 .. MaxSaves]]
      BY <2>1 DEF StorageTypeOK, Pieces
    <2>4. /\ faults' \in 0 .. MaxFaults
          /\ newest' \in 0 .. MaxSaves
      BY <2>1 DEF StorageTypeOK, Fault
    <2>5. cut' \subseteq cut \cup {number[p]}
      OBVIOUS
    <2> QED
      BY <2>1, <2>2, <2>3, <2>4, <2>5 DEF StorageTypeOK
  <1>2. OneSaver' /\ CleansAlone'
    BY DEF OneSaver, CleansAlone, Saving
  <1>3. Places' /\ FreshResult'
    BY DEF Places, FreshResult, Writing, Before, Needed
  <1>4. WriterKeepsItsFile' /\ LastSave' /\ Written'
    BY DEF StorageTypeOK, OneSaver, Places, WriterKeepsItsFile, LastSave, Written, Saving,
           Writing
  <1>5. SoundFile'
    BY DEF StorageTypeOK, Places, WriterKeepsItsFile, Written, SoundFile, Writing, Pieces,
           Sound, Whole
  <1>6. FreshFile'
    <2>1. fd[p] \in Inodes /\ number[p] = saves /\ saves \in Nat
      BY DEF StorageTypeOK, Places, Writing
    <2>2. newest' \in {newest, saves} /\ newest \in Nat /\ since \in [Procs -> Nat]
      BY <2>1 DEF StorageTypeOK
    <2>3. newest' <= saves' /\ \A q \in Procs : since'[q] <= newest'
      BY <2>1, <2>2 DEF FreshFile
    <2>4. ASSUME NEW q \in Procs, pc'[q] = "read", NEW i \in Pieces, disk'[fd'[q]][i] # 0
          PROVE  disk'[fd'[q]][i] >= since'[q]
      <3>1. pc[q] = "read" /\ fd[q] \in Inodes /\ since[q] <= saves
        BY <2>1, <2>2, <2>4 DEF StorageTypeOK, Places, FreshFile
      <3>2. disk'[fd[q]][i] \in {disk[fd[q]][i], saves}
        BY <2>1, <3>1 DEF StorageTypeOK, Pieces
      <3> QED
        BY <2>1, <2>2, <2>4, <3>1, <3>2 DEF FreshFile
    <2> QED
      BY <2>3, <2>4 DEF FreshFile
  <1> QED
    BY <1>1, <1>2, <1>3, <1>4, <1>5, <1>6

LEMMA UnlockKeeps ==
    ASSUME StorageInv, NEW p \in Procs, Unlock(p) PROVE StorageInv'
  <1> USE StorageAssumption DEF StorageInv, Unlock, Goto, procs, locks, files, counts
  <1>1. StorageTypeOK'
    BY DEF StorageTypeOK
  <1>2. OneSaver' /\ CleansAlone'
    BY DEF StorageTypeOK, OneSaver, CleansAlone, Saving
  <1>3. Places' /\ FreshResult'
    BY DEF Places, FreshResult, Writing, Before, Needed
  <1>4. WriterKeepsItsFile' /\ LastSave' /\ Written'
    BY DEF WriterKeepsItsFile, LastSave, Written, Writing
  <1>5. SoundFile'
    BY DEF SoundFile, Writing, Sound
  <1>6. FreshFile'
    BY DEF FreshFile
  <1> QED
    BY <1>1, <1>2, <1>3, <1>4, <1>5, <1>6

-----------------------------------------------------------------------------
(* Load and LoadRaw. *)

LEMMA CheckKeeps ==
    ASSUME StorageInv, NEW p \in Procs, Check(p) PROVE StorageInv'
  <1> USE StorageAssumption DEF StorageInv, Check, Goto, procs, locks, files, counts
  <1>1. StorageTypeOK'
    BY DEF StorageTypeOK
  <1>2. OneSaver' /\ CleansAlone'
    BY DEF OneSaver, CleansAlone, Saving
  <1>3. Places' /\ FreshResult'
    BY DEF Places, FreshResult, Writing, Before, Needed
  <1>4. WriterKeepsItsFile' /\ LastSave' /\ Written'
    BY DEF WriterKeepsItsFile, LastSave, Written, Writing
  <1>5. SoundFile'
    BY DEF SoundFile, Writing, Sound
  <1>6. FreshFile'
    BY DEF FreshFile
  <1> QED
    BY <1>1, <1>2, <1>3, <1>4, <1>5, <1>6

LEMMA OpenKeeps ==
    ASSUME StorageInv, NEW p \in Procs, Open(p) PROVE StorageInv'
  <1> USE StorageAssumption DEF StorageInv, Open, Goto, procs, locks, files, counts
  <1>1. StorageTypeOK'
    BY DEF StorageTypeOK
  <1>2. OneSaver' /\ CleansAlone'
    BY DEF OneSaver, CleansAlone, Saving
  <1>3. Places' /\ FreshResult'
    BY DEF StorageTypeOK, Places, FreshResult, Writing, Before, Needed
  <1>4. WriterKeepsItsFile' /\ LastSave' /\ Written'
    BY DEF WriterKeepsItsFile, LastSave, Written, Writing
  <1>5. SoundFile'
    BY DEF SoundFile, Writing, Sound
  <1>6. FreshFile'
    BY DEF StorageTypeOK, Places, Before, LastSave, FreshFile
  <1> QED
    BY <1>1, <1>2, <1>3, <1>4, <1>5, <1>6

\* A step of a load.
LEMMA Reads ==
    ASSUME NEW p \in Procs, Read(p)
    PROVE  LET piece == disk[fd[p]][pos[p] + 1] IN
           /\ pc[p] = "read"
           /\ \/ pc' = [pc EXCEPT ![p] = "read"] /\ pos[p] + 1 # Needed(p)
                 /\ result' = [result EXCEPT ![p] = "nothing"]
              \/ pc' = [pc EXCEPT ![p] = "leave"]
                 /\ result' = [result EXCEPT ![p] = "nothing"]
              \/ pc' = [pc EXCEPT ![p] = "leave"] /\ piece # 0
                 /\ \/ result' = [result EXCEPT ![p] = "one"]
                    \/ /\ result' = [result EXCEPT ![p] = "mix"]
                       /\ number[p] \notin {0, piece} /\ op[p] = "load"
           /\ pos' = [pos EXCEPT ![p] = @ + 1]
           /\ number' = [number EXCEPT ![p] = IF @ = 0 THEN piece ELSE @]
           /\ UNCHANGED <<op, fd, since, seen, locks, files, counts>>
  BY DEF Read, Goto

LEMMA ReadKeeps ==
    ASSUME StorageInv, NEW p \in Procs, Read(p) PROVE StorageInv'
  <1> USE StorageAssumption DEF StorageInv, locks, files, counts
  <1> DEFINE piece == disk[fd[p]][pos[p] + 1]
  <1>1. /\ pc[p] = "read" /\ pos[p] \in 0 .. 2 /\ fd[p] \in Inodes /\ pos[p] < Needed(p)
        /\ Needed(p) \in 2 .. 3
    BY Reads DEF StorageTypeOK, Places, Needed
  <1>2. piece \in 0 .. MaxSaves /\ (piece # 0 => piece >= since[p])
    <2>1. pos[p] + 1 \in Pieces
      BY <1>1 DEF Pieces
    <2> QED
      BY <1>1, <2>1 DEF StorageTypeOK, FreshFile
  <1>3. /\ pc' \in [Procs -> {"idle", "enter", "leave", "lock", "create", "write", "close",
                              "remove", "unlock", "check", "open", "read"}]
        /\ pc'[p] \in {"read", "leave"} /\ \A q \in Procs \ {p} : pc'[q] = pc[q]
        /\ pc'[p] = "read" => pos[p] + 1 # Needed(p)
        /\ pos' \in [Procs -> 0 .. 3] /\ pos' = [pos EXCEPT ![p] = pos[p] + 1]
        /\ number' \in [Procs -> 0 .. MaxSaves]
        /\ number' = [number EXCEPT ![p] = IF number[p] = 0 THEN piece ELSE number[p]]
        /\ result' \in [Procs -> {"nothing", "one", "mix"}]
        /\ \A q \in Procs \ {p} : result'[q] = result[q]
        /\ result'[p] # "nothing" => pc'[p] = "leave" /\ piece # 0
        /\ UNCHANGED <<op, fd, since, seen, readers, cleaner, saving, dir, disk,
                       saves, faults, crashes, cut, newest>>
    <2>1. /\ pc \in [Procs -> {"idle", "enter", "leave", "lock", "create", "write", "close",
                               "remove", "unlock", "check", "open", "read"}]
          /\ result \in [Procs -> {"nothing", "one", "mix"}]
          /\ pos \in [Procs -> 0 .. 3] /\ number \in [Procs -> 0 .. MaxSaves]
      BY DEF StorageTypeOK
    <2>2. \/ pc' = [pc EXCEPT ![p] = "read"] /\ pos[p] + 1 # Needed(p)
             /\ result' = [result EXCEPT ![p] = "nothing"]
          \/ pc' = [pc EXCEPT ![p] = "leave"]
             /\ result' = [result EXCEPT ![p] = "nothing"]
          \/ pc' = [pc EXCEPT ![p] = "leave"] /\ piece # 0
             /\ \/ result' = [result EXCEPT ![p] = "one"]
                \/ result' = [result EXCEPT ![p] = "mix"]
      BY Reads
    <2>3. /\ pos' = [pos EXCEPT ![p] = pos[p] + 1]
          /\ number' = [number EXCEPT ![p] = IF number[p] = 0 THEN piece ELSE number[p]]
          /\ UNCHANGED <<op, fd, since, seen, readers, cleaner, saving, dir, disk,
                         saves, faults, crashes, cut, newest>>
      BY Reads
    <2> HIDE DEF piece
    <2>4. pos' \in [Procs -> 0 .. 3] /\ number' \in [Procs -> 0 .. MaxSaves]
      BY <1>1, <1>2, <2>1, <2>3
    <2> QED
      BY <2>1, <2>2, <2>3, <2>4
  <1> HIDE DEF piece
  <1>4. StorageTypeOK'
    <2>1. readers' = {q \in Procs : pc'[q] \notin {"idle", "enter"}}
      BY <1>1, <1>3 DEF StorageTypeOK
    <2> QED
      BY <1>3, <2>1 DEF StorageTypeOK
  <1>5. OneSaver' /\ CleansAlone'
    BY <1>1, <1>3 DEF OneSaver, CleansAlone, Saving
  <1>6. Places'
    BY <1>1, <1>3 DEF StorageTypeOK, Places, Writing, Before, Needed
  <1>7. FreshResult'
    <2>1. number[p] # 0 => number[p] >= since[p]
      BY <1>1 DEF FreshFile
    <2> QED
      BY <1>2, <1>3, <2>1 DEF StorageTypeOK, FreshResult
  <1>8. WriterKeepsItsFile' /\ LastSave' /\ Written'
    BY <1>1, <1>3 DEF StorageTypeOK, WriterKeepsItsFile, LastSave, Written, Writing
  <1>9. SoundFile'
    BY <1>1, <1>3 DEF SoundFile, Writing, Sound
  <1>10. FreshFile'
    BY <1>1, <1>2, <1>3 DEF StorageTypeOK, FreshFile
  <1> QED
    BY <1>4, <1>5, <1>6, <1>7, <1>8, <1>9, <1>10

-----------------------------------------------------------------------------
(* The cleaner, and the process. *)

LEMMA TickKeeps ==
    ASSUME StorageInv, Tick PROVE StorageInv'
  <1> USE StorageAssumption DEF StorageInv, Tick, procs, locks, files, counts
  <1>1. StorageTypeOK'
    BY DEF StorageTypeOK
  <1>2. OneSaver' /\ CleansAlone'
    BY DEF OneSaver, CleansAlone
  <1>3. Places' /\ FreshResult'
    BY DEF Places, FreshResult, Needed
  <1>4. WriterKeepsItsFile' /\ LastSave' /\ Written'
    BY DEF WriterKeepsItsFile, LastSave, Written
  <1>5. SoundFile'
    BY DEF SoundFile, Sound
  <1>6. FreshFile'
    BY DEF FreshFile
  <1> QED
    BY <1>1, <1>2, <1>3, <1>4, <1>5, <1>6

LEMMA CleanKeeps ==
    ASSUME StorageInv, Clean PROVE StorageInv'
  <1> USE StorageAssumption DEF StorageInv, Clean, procs, locks, files, counts
  <1>1. StorageTypeOK'
    BY DEF StorageTypeOK
  <1>2. OneSaver' /\ CleansAlone'
    BY DEF OneSaver, CleansAlone
  <1>3. Places' /\ FreshResult'
    BY DEF StorageTypeOK, Places, FreshResult
  <1>4. WriterKeepsItsFile' /\ LastSave' /\ Written'
    BY DEF WriterKeepsItsFile, LastSave, Written
  <1>5. SoundFile'
    BY DEF SoundFile, Sound
  <1>6. FreshFile'
    BY DEF FreshFile
  <1> QED
    BY <1>1, <1>2, <1>3, <1>4, <1>5, <1>6

LEMMA CleanedKeeps ==
    ASSUME StorageInv, Cleaned PROVE StorageInv'
  <1> USE StorageAssumption DEF StorageInv, Cleaned, procs, locks, files, counts
  <1>1. StorageTypeOK'
    BY DEF StorageTypeOK, Collected, Empty
  <1>2. OneSaver' /\ CleansAlone'
    BY DEF OneSaver, CleansAlone
  <1>3. Places' /\ FreshResult'
    BY DEF StorageTypeOK, CleansAlone, Places, FreshResult
  <1>4. WriterKeepsItsFile' /\ LastSave' /\ Written'
    BY DEF StorageTypeOK, CleansAlone, WriterKeepsItsFile, LastSave, Written, Writing,
           Collected
  <1>5. SoundFile'
    BY DEF StorageTypeOK, SoundFile, Collected, Sound
  <1>6. FreshFile'
    BY DEF StorageTypeOK, CleansAlone, FreshFile
  <1> QED
    BY <1>1, <1>2, <1>3, <1>4, <1>5, <1>6

LEMMA CrashKeeps ==
    ASSUME StorageInv, Crash PROVE StorageInv'
  <1> USE StorageAssumption DEF StorageInv, Crash, procs, locks, files, counts
  <1>1. StorageTypeOK'
    <2>1. readers' = {p \in Procs : pc'[p] \notin {"idle", "enter"}}
      OBVIOUS
    <2>2. disk' \in [Inodes -> [Pieces -> 0 .. MaxSaves]]
      BY DEF StorageTypeOK, Collected, Empty
    <2>3. cut' \subseteq 1 .. MaxSaves
      <3>1. \A p \in Procs : pc[p] \in Writing => number[p] \in 1 .. MaxSaves
        BY DEF StorageTypeOK, Places
      <3> QED
        BY <3>1 DEF StorageTypeOK, Writing
    <2>4. /\ op' \in [Procs -> {"save", "load", "loadRaw"}]
          /\ pc' \in [Procs -> {"idle", "enter", "leave", "lock", "create", "write", "close",
                                "remove", "unlock", "check", "open", "read"}]
      OBVIOUS
    <2>5. /\ fd' \in [Procs -> Inodes \cup {NoInode}]
          /\ result' \in [Procs -> {"nothing", "one", "mix"}]
          /\ pos' \in [Procs -> 0 .. 3] /\ number' \in [Procs -> 0 .. MaxSaves]
          /\ since' \in [Procs -> 0 .. MaxSaves] /\ seen' \in [Procs -> 0 .. MaxSaves]
      BY DEF StorageTypeOK
    <2>6. /\ cleaner' \in {"asleep", "waiting", "cleaning"}
          /\ dir' \in Inodes \cup {NoInode}
          /\ saves' \in 0 .. MaxSaves /\ faults' \in 0 .. MaxFaults
          /\ crashes' \in 0 .. MaxCrashes /\ newest' \in 0 .. MaxSaves
      BY DEF StorageTypeOK
    <2>7. saving' \in BOOLEAN
      OBVIOUS
    <2> HIDE DEF Crash
    <2> QED
      BY <2>1, <2>2, <2>3, <2>4, <2>5, <2>6, <2>7 DEF StorageTypeOK
  <1>2. OneSaver' /\ CleansAlone'
    BY DEF OneSaver, CleansAlone, Saving
  <1>3. Places' /\ FreshResult'
    BY DEF Places, FreshResult, Writing
  <1>4. WriterKeepsItsFile' /\ LastSave' /\ Written'
    BY DEF StorageTypeOK, WriterKeepsItsFile, LastSave, Written, Writing, Collected
  <1>5. SoundFile'
    <2>1. SUFFICES ASSUME dir # NoInode PROVE Sound(disk[dir])'
      BY DEF SoundFile
    <2>2. dir \in Inodes /\ disk'[dir] = disk[dir] /\ disk[dir] \in [Pieces -> 0 .. MaxSaves]
      BY <2>1 DEF StorageTypeOK, Collected
    <2>3. CASE \A p \in Procs : pc[p] \notin Writing
      BY <2>1, <2>2, <2>3 DEF SoundFile, Sound, Whole
    <2>4. ASSUME NEW p \in Procs, pc[p] \in Writing PROVE Sound(disk[dir])'
      <3>1. number[p] \in cut' /\ dir = fd[p]
        BY <2>4 DEF Writing, WriterKeepsItsFile
      <3>2. \A i \in Pieces : disk[dir][i] = IF i <= pos[p] THEN number[p] ELSE 0
        BY <2>4, <3>1 DEF Written
      <3>3. CASE pos[p] = 0
        <4>1. disk[dir] = Empty
          BY <2>2, <3>2, <3>3 DEF Empty, Pieces
        <4> QED
          BY <2>2, <3>1, <4>1 DEF Sound
      <3>4. CASE pos[p] > 0
        <4>1. 1 \in Pieces /\ 1 <= pos[p]
          BY <3>4 DEF StorageTypeOK, Pieces
        <4>2. disk[dir][1] = number[p]
          BY <3>2, <4>1
        <4> QED
          BY <2>2, <3>1, <4>1, <4>2 DEF Sound
      <3> QED
        BY <3>3, <3>4 DEF StorageTypeOK
    <2> QED
      BY <2>3, <2>4
  <1>6. FreshFile'
    BY DEF StorageTypeOK, FreshFile
  <1> QED
    BY <1>1, <1>2, <1>3, <1>4, <1>5, <1>6

LEMMA StorageStep == StorageInv /\ [Next]_vars => StorageInv'
  <1> SUFFICES ASSUME StorageInv, [Next]_vars PROVE StorageInv'
    OBVIOUS
  <1>1. ASSUME NEW p \in Procs, Works(p) PROVE StorageInv'
    BY <1>1, LeaveKeeps, LockKeeps, CreateKeeps, CreateFailsKeeps, WriteKeeps,
       WriteFailsKeeps, RemoveKeeps, CloseKeeps, UnlockKeeps, CheckKeeps, OpenKeeps,
       ReadKeeps
    DEF Works
  <1>2. CASE Next
    BY <1>1, <1>2, CallKeeps, EnterKeeps, TickKeeps, CleanKeeps, CleanedKeeps, CrashKeeps
    DEF Next
  <1>3. CASE UNCHANGED vars
    <2> USE <1>3 DEF vars, procs, locks, files, counts, StorageInv
    <2>1. StorageTypeOK'
      BY DEF StorageTypeOK
    <2>2. OneSaver' /\ CleansAlone'
      BY DEF OneSaver, CleansAlone
    <2>3. Places' /\ FreshResult'
      BY DEF Places, FreshResult, Needed
    <2>4. WriterKeepsItsFile' /\ LastSave' /\ Written'
      BY DEF WriterKeepsItsFile, LastSave, Written
    <2>5. SoundFile' /\ FreshFile'
      BY DEF SoundFile, Sound, FreshFile
    <2> QED
      BY <2>1, <2>2, <2>3, <2>4, <2>5
  <1> QED
    BY <1>2, <1>3

\* What the goroutines, the cleaner and a death leave of the locks, of the file and of
\* those who have it open (cache.go:45-191).
THEOREM StorageInvariance == Spec => []StorageInv
  BY StorageStart, StorageStep, PTL DEF Spec

\* A save keeps its file under the path until it is closed (cache.go:56, 116-158).
THEOREM SaversAreAlone == Spec => [](StorageTypeOK /\ WriterKeepsItsFile)
  <1>1. StorageInv => StorageTypeOK /\ WriterKeepsItsFile
    BY DEF StorageInv
  <1> QED
    BY <1>1, StorageInvariance, PTL

\* A file that nobody saves is whole, unless a save of it was cut (cache.go:137, 143-157).
THEOREM FilesAreWhole == Spec => []BrokenOnlyWhenCut
  <1>1. StorageInv => BrokenOnlyWhenCut
    BY DEF StorageInv, OneSaver, SoundFile, Sound, BrokenOnlyWhenCut, Saving, Writing
  <1> QED
    BY <1>1, StorageInvariance, PTL

\* Until another save begins, a load that found the key free has the file to itself and
\* the file it reads is the one under the path, with the pieces of the last save alone.
Undisturbed(p) ==
    /\ \A q \in Procs : pc[q] \notin Writing
    /\ pc[p] = "read" => fd[p] = dir
    /\ number[p] \in {0, saves}
LoadsApart ==
    \A p \in Procs :
        /\ seen[p] <= saves
        /\ pc[p] \in {"open", "read"} /\ saves = seen[p] => Undisturbed(p)
        /\ result[p] = "mix" => op[p] = "load" /\ saves > seen[p]

LEMMA ReadApart ==
    ASSUME StorageInv, LoadsApart, NEW p \in Procs, Read(p) PROVE LoadsApart'
  <1> DEFINE piece == disk[fd[p]][pos[p] + 1]
  <1>1. /\ pc[p] = "read" /\ pos[p] \in 0 .. 2 /\ fd[p] \in Inodes /\ saves \in Nat
        /\ pc \in [Procs -> {"idle", "enter", "leave", "lock", "create", "write", "close",
                             "remove", "unlock", "check", "open", "read"}]
        /\ number \in [Procs -> Nat] /\ seen \in [Procs -> Nat]
        /\ result \in [Procs -> {"nothing", "one", "mix"}]
    <2>1. pc[p] = "read"
      BY Reads
    <2> QED
      BY <2>1 DEF StorageInv, StorageTypeOK, Places, Needed
  <1>2. /\ \A q \in Procs \ {p} : pc'[q] = pc[q] /\ number'[q] = number[q] /\ result'[q] = result[q]
        /\ pc'[p] \in {"read", "leave"}
        /\ number'[p] = IF number[p] = 0 THEN piece ELSE number[p]
        /\ result'[p] = "mix" => piece # 0 /\ number[p] \notin {0, piece} /\ op[p] = "load"
        /\ UNCHANGED <<op, fd, seen, dir, saves>>
    BY <1>1, Reads DEF files, counts, Writing
  <1>3. saves = seen[p] => piece \in {0, saves}
    <2>1. pos[p] + 1 \in Pieces
      BY <1>1 DEF Pieces
    <2>2. saves = seen[p] => fd[p] = dir /\ dir # NoInode
      BY <1>1, StorageAssumption DEF LoadsApart, Undisturbed
    <2> QED
      BY <2>1, <2>2 DEF StorageInv, LastSave
  <1> HIDE DEF piece
  <1>4. \A q \in Procs : pc'[q] \in Writing => pc[q] \in Writing
    BY <1>2 DEF Writing
  <1>5. saves = seen[p] => number[p] \in {0, saves}
    BY <1>1 DEF LoadsApart, Undisturbed
  <1>6. ASSUME NEW q \in Procs
        PROVE  /\ seen'[q] <= saves'
               /\ pc'[q] \in {"open", "read"} /\ saves' = seen'[q] => Undisturbed(q)'
               /\ result'[q] = "mix" => op'[q] = "load" /\ saves' > seen'[q]
    <2>1. CASE q # p
      BY <1>2, <1>4, <2>1 DEF LoadsApart, Undisturbed
    <2>2. CASE q = p
      BY <1>1, <1>2, <1>3, <1>4, <1>5, <2>2 DEF LoadsApart, Undisturbed
    <2> QED
      BY <2>1, <2>2
  <1> QED
    BY <1>6 DEF LoadsApart

LEMMA ApartStep ==
    ASSUME StorageInv, LoadsApart, [Next]_vars PROVE LoadsApart'
  <1>1. /\ pc \in [Procs -> {"idle", "enter", "leave", "lock", "create", "write", "close",
                            "remove", "unlock", "check", "open", "read"}]
        /\ saves \in Nat /\ seen \in [Procs -> Nat] /\ number \in [Procs -> Nat]
        /\ result \in [Procs -> {"nothing", "one", "mix"}]
        /\ fd \in [Procs -> Inodes \cup {NoInode}]
        /\ op \in [Procs -> {"save", "load", "loadRaw"}]
    BY DEF StorageInv, StorageTypeOK
  <1>2. /\ \A p \in Procs : pc[p] \in Before => number[p] = 0 /\ result[p] = "nothing"
        /\ \A p \in Procs : result[p] # "nothing" => pc[p] = "leave"
    BY DEF StorageInv, Places, Before
  <1> USE <1>1, <1>2 DEF LoadsApart, Undisturbed, Writing, Before, Goto, procs, locks, files, counts
  <1>3. ASSUME NEW p \in Procs, NEW kind \in {"save", "load", "loadRaw"}, Call(p, kind)
        PROVE  LoadsApart'
    BY <1>3 DEF Call
  <1>4. ASSUME NEW p \in Procs, Enter(p) \/ Lock(p) PROVE LoadsApart'
    BY <1>4 DEF Enter, Lock
  <1>5. ASSUME NEW p \in Procs, Leave(p) PROVE LoadsApart'
    BY <1>5 DEF Leave
  <1>6. ASSUME NEW p \in Procs, Create(p) PROVE LoadsApart'
    BY <1>6 DEF Create
  <1>7. ASSUME NEW p \in Procs, CreateFails(p) \/ Unlock(p) PROVE LoadsApart'
    BY <1>7 DEF CreateFails, Unlock
  <1>8. ASSUME NEW p \in Procs, Write(p) \/ WriteFails(p) \/ Remove(p) \/ Close(p)
        PROVE  LoadsApart'
    BY <1>8 DEF Write, WriteFails, Remove, Close
  <1>9. ASSUME NEW p \in Procs, Check(p) PROVE LoadsApart'
    <2>1. pc'[p] = "open" => \A q \in Procs : pc[q] \notin Writing
      BY <1>9 DEF Check, StorageInv, OneSaver, Saving
    <2> QED
      BY <1>9, <2>1 DEF Check
  <1>10. ASSUME NEW p \in Procs, Open(p) PROVE LoadsApart'
    BY <1>10 DEF Open
  <1>11. CASE Tick \/ Clean
    BY <1>11 DEF Tick, Clean
  <1>12. CASE Cleaned
    <2>1. \A p \in Procs : pc[p] \in {"idle", "enter"}
      BY <1>12 DEF Cleaned, StorageInv, CleansAlone, StorageTypeOK
    <2> QED
      BY <1>12, <2>1 DEF Cleaned
  <1>13. CASE Crash
    BY <1>13 DEF Crash
  <1>14. CASE UNCHANGED vars
    BY <1>14 DEF vars
  <1> QED
    BY <1>3, <1>4, <1>5, <1>6, <1>7, <1>8, <1>9, <1>10, <1>11, <1>12, <1>13, <1>14, ReadApart
    DEF Next, Works

\* A load returns nothing older than what was complete when it began, and no mix of two
\* saves, but for a Load that a save overtook (cache.go:160-191, 237-265).
THEOREM LoadsAreFresh == Spec => []LoadIsFresh
  <1>1. Init => LoadsApart
    BY StorageAssumption DEF Init, LoadsApart
  <1>2. StorageInv /\ LoadsApart /\ [Next]_vars => LoadsApart'
    BY ApartStep
  <1>3. StorageInv /\ LoadsApart => LoadIsFresh
    BY DEF StorageInv, FreshResult, LoadsApart, LoadIsFresh
  <1> QED
    BY <1>1, <1>2, <1>3, StorageInvariance, PTL DEF Spec

-----------------------------------------------------------------------------
(* That operations end, but for fairness: no step of anybody sends an operation back, *)
(* each of its own brings it nearer to its end, and who holds a lock waits for nobody. *)

Ahead(p) ==
    CASE pc[p] = "idle"               -> 0
      [] pc[p] = "leave"              -> 1
      [] pc[p] = "unlock"             -> 2
      [] pc[p] \in {"close", "remove"} -> 3
      [] pc[p] = "read"               -> 4 - pos[p]
      [] pc[p] = "write"              -> 5 - pos[p]
      [] pc[p] = "open"               -> 5
      [] pc[p] \in {"check", "create"} -> 6
      [] pc[p] = "lock"               -> 7
      [] pc[p] = "enter"              -> 8

NearsItsEnd(p) ==
    pc[p] # "idle" =>
        /\ Ahead(p)' <= Ahead(p)
        /\ Enter(p) \/ Works(p) => Ahead(p)' < Ahead(p)

\* A goroutine that has not come to its file has none open, so that there is an inode
\* for a new file.
Unopened == \A p \in Procs : pc[p] \in Before => fd[p] = NoInode

OperationCan(p) ==
    /\ pc[p] # "idle"
    /\ pc[p] = "enter" => cleaner = "asleep"
    /\ pc[p] = "create" => saves = MaxSaves \/ dir # NoInode \/ Inodes \ InUse # {}
    /\ pc[p] = "write" => pos[p] < 2

CleanerCan == cleaner = "cleaning" \/ (cleaner = "waiting" /\ readers = {})

NobodyStuck ==
    /\ \A p \in readers : OperationCan(p)
    /\ \A p \in Procs : pc[p] = "enter" => OperationCan(p) \/ CleanerCan \/ readers # {}
    /\ saving => \E p \in readers : pc[p] \in Saving

LEMMA AheadTyped ==
    ASSUME StorageInv, NEW p \in Procs
    PROVE  /\ pc[p] = "write" => pos[p] \in 0 .. 1
           /\ pc[p] = "read" => pos[p] \in 0 .. 2
           /\ Ahead(p) \in 0 .. 8
  <1>1. /\ pos[p] \in 0 .. 3 /\ Needed(p) \in 2 .. 3
        /\ pc[p] \in {"idle", "enter", "leave", "lock", "create", "write", "close", "remove",
                      "unlock", "check", "open", "read"}
    BY DEF StorageInv, StorageTypeOK, Needed
  <1>2. (pc[p] = "write" => pos[p] < 2) /\ (pc[p] = "read" => pos[p] < Needed(p))
    BY DEF StorageInv, Places
  <1>3. (pc[p] = "write" => pos[p] \in 0 .. 1) /\ (pc[p] = "read" => pos[p] \in 0 .. 2)
    BY <1>1, <1>2
  <1> QED
    BY <1>1, <1>3 DEF Ahead

LEMMA OthersStay ==
    ASSUME StorageInv, NEW p \in Procs, NEW q \in Procs, q # p,
           Enter(p) \/ Works(p) \/ \E kind \in {"save", "load", "loadRaw"} : Call(p, kind)
    PROVE  pc'[q] = pc[q] /\ pos'[q] = pos[q]
  BY DEF StorageInv, StorageTypeOK, Enter, Works, Call, Goto, Leave, Lock, Create, CreateFails,
         Write, WriteFails, Remove, Close, Unlock, Check, Open, Read

LEMMA OwnStep ==
    ASSUME StorageInv, StorageInv', NEW p \in Procs, Enter(p) \/ Works(p)
    PROVE  Ahead(p)' < Ahead(p)
  <1>1. /\ pc[p] = "write" => pos[p] \in 0 .. 1
        /\ pc[p] = "read" => pos[p] \in 0 .. 2
    BY AheadTyped
  <1>2. pc \in [Procs -> {"idle", "enter", "leave", "lock", "create", "write", "close",
                          "remove", "unlock", "check", "open", "read"}]
        /\ pos \in [Procs -> 0 .. 3]
    BY DEF StorageInv, StorageTypeOK
  <1>3. CASE Enter(p) \/ Leave(p) \/ Lock(p) \/ Create(p) \/ CreateFails(p)
    BY <1>2, <1>3 DEF Enter, Leave, Lock, Create, CreateFails, Goto, Ahead
  <1>4. CASE Write(p) \/ WriteFails(p) \/ Remove(p) \/ Close(p) \/ Unlock(p)
    BY <1>1, <1>2, <1>4 DEF Write, WriteFails, Remove, Close, Unlock, Goto, Ahead
  <1>5. CASE Check(p) \/ Open(p)
    BY <1>2, <1>5 DEF Check, Open, Goto, Ahead
  <1>6. CASE Read(p)
    BY <1>1, <1>2, <1>6 DEF Read, Goto, Ahead
  <1> QED
    BY <1>3, <1>4, <1>5, <1>6 DEF Works

LEMMA EverybodyNears ==
    ASSUME StorageInv, StorageInv', Next PROVE \A p \in Procs : NearsItsEnd(p)
  <1> SUFFICES ASSUME NEW p \in Procs, pc[p] # "idle" PROVE NearsItsEnd(p)
    BY DEF NearsItsEnd
  <1>1. Ahead(p) \in 0 .. 8
    BY AheadTyped
  <1>2. (Ahead(p) \in 0 .. 8)'
    BY AheadTyped, PTL
  <1>3. Enter(p) \/ Works(p) => Ahead(p)' < Ahead(p)
    BY OwnStep
  <1>4. Ahead(p)' <= Ahead(p)
    <2>1. CASE pc'[p] = pc[p] /\ pos'[p] = pos[p]
      <3>1. Ahead(p)' = Ahead(p)
        BY <2>1 DEF Ahead
      <3> QED
        BY <1>1, <3>1
    <2>2. CASE Crash
      <3>1. pc'[p] = "idle"
        BY <2>2 DEF Crash
      <3>2. Ahead(p)' = 0
        BY <3>1 DEF Ahead
      <3> QED
        BY <1>1, <3>2
    <2>3. CASE Enter(p) \/ Works(p)
      BY <1>1, <1>2, <1>3, <2>3
    <2>4. ASSUME NEW q \in Procs, q # p,
                 Enter(q) \/ Works(q) \/ \E kind \in {"save", "load", "loadRaw"} : Call(q, kind)
          PROVE  pc'[p] = pc[p] /\ pos'[p] = pos[p]
      BY <2>4, OthersStay
    <2>5. CASE Tick \/ Clean \/ Cleaned
      BY <2>1, <2>5 DEF Tick, Clean, Cleaned, procs
    <2>6. ~ \E kind \in {"save", "load", "loadRaw"} : Call(p, kind)
      BY DEF Call, Goto
    <2> QED
      BY <2>1, <2>2, <2>3, <2>4, <2>5, <2>6 DEF Next
  <1> QED
    BY <1>3, <1>4 DEF NearsItsEnd

LEMMA LeftUnopened == Spec => []Unopened
  <1>1. Init => Unopened
    BY DEF Init, Unopened
  <1>2. StorageInv /\ Unopened /\ [Next]_vars => Unopened'
    <2> SUFFICES ASSUME StorageInv, Unopened, [Next]_vars PROVE Unopened'
      OBVIOUS
    <2>0. pc \in [Procs -> {"idle", "enter", "leave", "lock", "create", "write", "close",
                            "remove", "unlock", "check", "open", "read"}]
          /\ fd \in [Procs -> Inodes \cup {NoInode}]
      BY DEF StorageInv, StorageTypeOK
    <2> USE <2>0 DEF Unopened, Before, Goto
    <2>1. ASSUME NEW p \in Procs,
                 Enter(p) \/ \E kind \in {"save", "load", "loadRaw"} : Call(p, kind)
          PROVE  Unopened'
      BY <2>1 DEF Enter, Call
    <2>2. ASSUME NEW p \in Procs, Leave(p) \/ Lock(p) \/ Create(p) \/ CreateFails(p)
          PROVE  Unopened'
      BY <2>2 DEF Leave, Lock, Create, CreateFails
    <2>3. ASSUME NEW p \in Procs, Write(p) \/ WriteFails(p) \/ Remove(p) \/ Close(p) \/ Unlock(p)
          PROVE  Unopened'
      BY <2>3 DEF Write, WriteFails, Remove, Close, Unlock
    <2>4. ASSUME NEW p \in Procs, Check(p) \/ Open(p) \/ Read(p)
          PROVE  Unopened'
      BY <2>4 DEF Check, Open, Read
    <2>5. CASE Tick \/ Clean \/ Cleaned \/ Crash \/ UNCHANGED vars
      BY <2>5 DEF Tick, Clean, Cleaned, Crash, vars, procs
    <2> QED
      BY <2>1, <2>2, <2>3, <2>4, <2>5 DEF Next, Works
  <1> QED
    BY <1>1, <1>2, StorageInvariance, PTL DEF Spec

\* All others together have fewer inodes than there are goroutines.
LEMMA InodeLeft ==
    ASSUME Unopened, StorageInv, NEW p \in Procs, pc[p] = "create", dir = NoInode
    PROVE  Inodes \ InUse # {}
  <1> DEFINE Others == Procs \ {p}
             opened == [q \in Others |-> fd[q]]
             Files == {opened[q] : q \in Others}
             Taken == Files \cap Inodes
  <1>1. /\ IsFiniteSet(Others) /\ Cardinality(Others) = Cardinality(Procs) - 1
        /\ Cardinality(Procs) \in Nat
    BY StorageAssumption, FS_RemoveElement, FS_CardinalityType
  <1>2. opened \in Surjection(Others, Files)
    BY DEF Surjection
  <1>3. IsFiniteSet(Files) /\ Cardinality(Files) <= Cardinality(Others)
    BY <1>1, <1>2, FS_Surjection
  <1>4. IsFiniteSet(Taken) /\ Cardinality(Taken) <= Cardinality(Files)
    BY <1>3, FS_Subset
  <1>5. Cardinality(Taken) \in Nat /\ Cardinality(Files) \in Nat
    BY <1>3, <1>4, FS_CardinalityType
  <1>6. Cardinality(Taken) < Cardinality(Procs)
    BY <1>1, <1>3, <1>4, <1>5
  <1>7. Inodes \ Taken # {}
    BY <1>4, <1>6, StorageAssumption
  <1>8. fd[p] = NoInode
    BY DEF Unopened, Before
  <1>9. InUse \cap Inodes \subseteq Taken
    BY <1>8, StorageAssumption DEF InUse
  <1> QED
    BY <1>7, <1>9

LEMMA SomeoneCan ==
    ASSUME StorageInv, Unopened PROVE NobodyStuck
  <1>1. /\ readers = {p \in Procs : pc[p] \notin {"idle", "enter"}}
        /\ cleaner \in {"asleep", "waiting", "cleaning"}
    BY DEF StorageInv, StorageTypeOK
  <1>2. ASSUME NEW p \in readers PROVE OperationCan(p)
    BY <1>1, AheadTyped, InodeLeft DEF OperationCan
  <1>3. ASSUME NEW p \in Procs, pc[p] = "enter" PROVE OperationCan(p) \/ CleanerCan \/ readers # {}
    BY <1>1, <1>3 DEF OperationCan, CleanerCan
  <1>4. saving => \E p \in readers : pc[p] \in Saving
    BY <1>1 DEF StorageInv, OneSaver, Saving
  <1> QED
    BY <1>2, <1>3, <1>4 DEF NobodyStuck

\* An operation has at most eight steps of its own, and nobody sends it back
\* (cache.go:116-191).
THEOREM OperationsAreFinite ==
    Spec => /\ [](\A p \in Procs : Ahead(p) \in 0 .. 8)
            /\ [][\A p \in Procs : NearsItsEnd(p)]_vars
  <1>1. StorageInv => \A p \in Procs : Ahead(p) \in 0 .. 8
    BY AheadTyped
  <1>2. StorageInv /\ StorageInv' /\ [Next]_vars => [\A p \in Procs : NearsItsEnd(p)]_vars
    BY EverybodyNears
  <1> QED
    BY <1>1, <1>2, StorageInvariance, PTL DEF Spec

\* Who is inside the lock of the cleaner waits for nobody, who waits for it waits for one
\* who does not, and the key is in savingMap only as long as one of them saves
\* (cache.go:56, 82-104, 123).
THEOREM OperationsNeverStick == Spec => []NobodyStuck
  BY SomeoneCan, LeftUnopened, StorageInvariance, PTL

-----------------------------------------------------------------------------
(* cleanUpWithHash. *)

LEMMA VersionInit == VInit => VersionInv
  BY VersionAssumption
  DEF VInit, VersionInv, VersionTypeOK, Cleared, Vouches, NoStaleFiles, SameCodeKeepsCache

\* A start, up to the removal.
LEMMA StartKeeps ==
    ASSUME VersionInv, Start \/ Compare \/ Stop PROVE VersionInv'
  <1> USE VersionAssumption
  <1>1. CASE Start \/ Stop
    BY <1>1
    DEF VersionInv, VersionTypeOK, Cleared, Vouches, NoStaleFiles, SameCodeKeepsCache,
        Start, Stop
  <1>2. CASE Compare
    <2>1. VersionTypeOK'
      BY <1>2 DEF VersionInv, VersionTypeOK, Compare
    <2>2. Cleared' /\ Vouches' /\ NoStaleFiles'
      BY <1>2, <2>1
      DEF VersionInv, VersionTypeOK, Cleared, Vouches, NoStaleFiles, Stale, Compare, Matches
    <2>3. SameCodeKeepsCache'
      BY <1>2 DEF VersionInv, VersionTypeOK, SameCodeKeepsCache, Compare, Matches
    <2> QED
      BY <2>1, <2>2, <2>3 DEF VersionInv
  <1> QED
    BY <1>1, <1>2

LEMMA RemovalKeeps ==
    ASSUME VersionInv,
           \/ \E k \in Keys : RemoveFile(k)
           \/ RemoveHash \/ Removed
           \/ \E entry \in Keys \cup {Hash} : RemoveFails(entry)
    PROVE  VersionInv'
  <1> USE VersionAssumption
  <1>1. CASE \E k \in Keys : RemoveFile(k)
    BY <1>1
    DEF VersionInv, VersionTypeOK, Cleared, Vouches, NoStaleFiles, SameCodeKeepsCache,
        RemoveFile, Visit, Gone
  <1>2. CASE RemoveHash
    BY <1>2
    DEF VersionInv, VersionTypeOK, Cleared, Vouches, NoStaleFiles, SameCodeKeepsCache,
        RemoveHash, Visit, HashGone
  <1>3. CASE Removed
    BY <1>3
    DEF VersionInv, VersionTypeOK, Cleared, Vouches, NoStaleFiles, SameCodeKeepsCache, Removed
  <1>4. CASE \E entry \in Keys \cup {Hash} : RemoveFails(entry)
    BY <1>4
    DEF VersionInv, VersionTypeOK, Cleared, Vouches, NoStaleFiles, SameCodeKeepsCache,
        RemoveFails, Visit
  <1> QED
    BY <1>1, <1>2, <1>3, <1>4

LEMMA WritingKeeps ==
    ASSUME VersionInv, CreateHash \/ WriteHash \/ WriteHashFails PROVE VersionInv'
  <1> USE VersionAssumption
  <1>1. CASE CreateHash
    BY <1>1
    DEF VersionInv, VersionTypeOK, Cleared, Vouches, NoStaleFiles, SameCodeKeepsCache, CreateHash
  <1>2. CASE WriteHash
    BY <1>2
    DEF VersionInv, VersionTypeOK, Cleared, Vouches, NoStaleFiles, Stale, SameCodeKeepsCache,
        WriteHash
  <1>3. CASE WriteHashFails
    BY <1>3
    DEF VersionInv, VersionTypeOK, Cleared, Vouches, NoStaleFiles, Stale, SameCodeKeepsCache,
        WriteHashFails
  <1> QED
    BY <1>1, <1>2, <1>3

LEMMA ServingKeeps ==
    ASSUME VersionInv, CleanHash \/ \E k \in Keys : Save(k) \/ CleanFile(k)
    PROVE  VersionInv'
  <1> USE VersionAssumption
  <1>1. CASE CleanHash
    BY <1>1
    DEF VersionInv, VersionTypeOK, Cleared, Vouches, NoStaleFiles, Stale, SameCodeKeepsCache,
        CleanHash, HashGone
  <1>2. ASSUME NEW k \in Keys, Save(k) PROVE VersionInv'
    BY <1>2
    DEF VersionInv, VersionTypeOK, Cleared, Vouches, NoStaleFiles, Stale, SameCodeKeepsCache, Save
  <1>3. ASSUME NEW k \in Keys, CleanFile(k) PROVE VersionInv'
    BY <1>3
    DEF VersionInv, VersionTypeOK, Cleared, Vouches, NoStaleFiles, Stale, SameCodeKeepsCache,
        CleanFile, Gone
  <1> QED
    BY <1>1, <1>2, <1>3

\* The invariant holds: what a removal has passed is gone, a hash file vouches for
\* the files beside it (hash.go:14-46).
THEOREM VersionInvariance == VSpec => []VersionInv
  <1>1. VersionInv /\ [VNext]_vvars => VersionInv'
    <2> SUFFICES ASSUME VersionInv, [VNext]_vvars PROVE VersionInv'
      OBVIOUS
    <2>1. CASE UNCHANGED vvars
      BY <2>1
      DEF VersionInv, VersionTypeOK, Cleared, Vouches, NoStaleFiles, Stale,
          SameCodeKeepsCache, vvars
    <2> QED
      BY <2>1, StartKeeps, RemovalKeeps, WritingKeeps, ServingKeeps DEF VNext
  <1> QED
    BY VersionInit, <1>1, PTL DEF VSpec

\* A program that serves has no file of another version in its cache (hash.go:38-45).
THEOREM NothingStale == VSpec => [](VersionTypeOK /\ NoStaleFiles)
  <1>1. VersionInv => VersionTypeOK /\ NoStaleFiles
    BY DEF VersionInv
  <1> QED
    BY <1>1, VersionInvariance, PTL

\* A version that finds its own hash file keeps its cache (hash.go:38).
THEOREM CacheIsKept == VSpec => []SameCodeKeepsCache
  <1>1. VersionInv => SameCodeKeepsCache
    BY DEF VersionInv
  <1> QED
    BY <1>1, VersionInvariance, PTL
=============================================================================
