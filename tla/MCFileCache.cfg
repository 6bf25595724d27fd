\* Two goroutines that never stop calling, the cleaner, a write that fails, and a process
\* that dies once; and three versions deployed in any order.
CONSTANTS
    Procs = {p1, p2}
    Inodes = {i1, i2}
    NoInode = NoInode
    MaxSaves = 2
    MaxFaults = 1
    MaxCrashes = 1
    Versions = {v1, v2, v3}
    Keys = {k1, k2}
    Hash = Hash
    NoVersion = NoVersion
    Torn = Torn
SPECIFICATION MCSpec
INVARIANTS
    WriterKeepsItsFile
    BrokenOnlyWhenCut
    LoadIsFresh
    NoStaleFiles
    SameCodeKeepsCache
PROPERTIES
    OperationsEnd
    CleanerGetsItsTurn
