---------------------------- MODULE CacheVersion ----------------------------
(***************************************************************************)
(* cleanUpWithHash: every start of the program compares the hash of its    *)
(* own sources with the one in the cache directory, and empties the        *)
(* directory when they differ.  The program may die anywhere in this, and  *)
(* the next start may be of any version: a deployment, or the way back.    *)
(*                                                                         *)
(* A version stands for its hash: two versions with one hash (32 bits) are *)
(* one.  One process at a time uses the directory.                         *)
(***************************************************************************)
CONSTANTS
    Versions,     \* versions of the hashed sources
    Keys,         \* files of the cache
    Hash,         \* the hash file, the other entry of the directory
    NoVersion,    \* no file
    Torn          \* a hash file that was created and not written whole

ASSUME VersionAssumption ==
    /\ Hash \notin Keys
    /\ NoVersion \notin Versions /\ Torn \notin Versions /\ NoVersion # Torn

VARIABLES
    code,      \* the version that runs or starts
    stage,     \* "down", "compare", "remove", "create", "write", "serve"
    hashFile,  \* what the hash file says
    file,      \* the version that wrote each file of the cache
    visited,   \* entries that RemoveAll is done with
    stuck,     \* history: entries that could not be removed, or written since
    kept,      \* history: a start could neither remove nor write the hash file
    sealed     \* history: the version that wrote the hash file that is there

vvars == <<code, stage, hashFile, file, visited, stuck, kept, sealed>>

VInit ==
    /\ code \in Versions
    /\ stage = "down"
    /\ hashFile = NoVersion
    /\ file = [k \in Keys |-> NoVersion]
    /\ visited = {} /\ stuck = {} /\ kept = FALSE
    /\ sealed = NoVersion

Start ==
    /\ stage = "down"
    /\ stage' = "compare"
    /\ code' \in Versions
    /\ UNCHANGED <<hashFile, file, visited, stuck, kept, sealed>>

\* Fault: a hash file that cannot be read counts as the right one.
MatchesUnread == hashFile \in {code, NoVersion, Torn}

\* The buffer holds another hash before the file is read into it: one that is
\* missing, empty or short never matches.
Matches == hashFile = code

Compare ==
    /\ stage = "compare"
    /\ stage' = IF Matches THEN "serve" ELSE "remove"
    /\ visited' = {}
    /\ UNCHANGED <<code, hashFile, file, stuck, kept, sealed>>

\* os.RemoveAll goes through the entries in some order, and on after an error.
Visit(entry) ==
    /\ stage = "remove" /\ entry \notin visited
    /\ visited' = visited \cup {entry}

Gone(k) == file' = [file EXCEPT ![k] = NoVersion] /\ stuck' = stuck \ {k}
HashGone == hashFile' = NoVersion /\ sealed' = NoVersion /\ stuck' = stuck \ {Hash}

RemoveFile(k) ==
    /\ Visit(k) /\ Gone(k)
    /\ UNCHANGED <<code, stage, hashFile, kept, sealed>>

RemoveHash ==
    /\ Visit(Hash) /\ HashGone
    /\ UNCHANGED <<code, stage, file, kept>>

RemoveFails(entry) ==
    /\ Visit(entry)
    /\ stuck' = stuck \cup {entry}
    /\ UNCHANGED <<code, stage, hashFile, file, kept, sealed>>

\* Its error is not looked at.
Removed ==
    /\ stage = "remove" /\ visited = Keys \cup {Hash}
    /\ stage' = "create"
    /\ UNCHANGED <<code, hashFile, file, visited, stuck, kept, sealed>>

\* os.WriteFile truncates or creates the file, then writes it.
CreateHash ==
    /\ stage = "create"
    /\ stage' = "write"
    /\ hashFile' = Torn /\ sealed' = NoVersion /\ stuck' = stuck \ {Hash}
    /\ UNCHANGED <<code, file, visited, kept>>

\* Fault: the write is not complete.
WritesShort ==
    /\ stage = "write"
    /\ stage' = "serve"
    /\ sealed' = code
    /\ UNCHANGED <<code, hashFile, file, visited, stuck, kept>>

WriteHash ==
    /\ stage = "write"
    /\ stage' = "serve"
    /\ hashFile' = code /\ sealed' = code
    /\ UNCHANGED <<code, file, visited, stuck, kept>>

\* The error of os.WriteFile is not looked at either.
WriteHashFails ==
    /\ stage \in {"create", "write"}
    /\ stage' = "serve"
    /\ kept' = (kept \/ (stage = "create" /\ Hash \in stuck))
    /\ UNCHANGED <<code, hashFile, file, visited, stuck, sealed>>

Save(k) ==
    /\ stage = "serve"
    /\ file' = [file EXCEPT ![k] = code] /\ stuck' = stuck \ {k}
    /\ UNCHANGED <<code, stage, hashFile, visited, kept, sealed>>

\* The cleaner removes what is old; the hash file is in its way, too.
CleanFile(k) ==
    /\ stage = "serve"
    /\ Gone(k)
    /\ UNCHANGED <<code, stage, hashFile, visited, kept, sealed>>

CleanHash ==
    /\ stage = "serve"
    /\ HashGone
    /\ UNCHANGED <<code, stage, file, visited, kept>>

Stop ==
    /\ stage # "down"
    /\ stage' = "down"
    /\ UNCHANGED <<code, hashFile, file, visited, stuck, kept, sealed>>

VNext ==
    \/ Start \/ Compare
    \/ RemoveHash \/ Removed \/ CreateHash \/ WriteHash \/ WriteHashFails
    \/ CleanHash \/ Stop
    \/ \E k \in Keys : RemoveFile(k) \/ Save(k) \/ CleanFile(k)
    \/ \E entry \in Keys \cup {Hash} : RemoveFails(entry)

VSpec == VInit /\ [][VNext]_vvars

-----------------------------------------------------------------------------
(* Properties. *)

\* The range of every variable; only a hash that was written whole is sealed.
VersionTypeOK ==
    /\ code \in Versions
    /\ stage \in {"down", "compare", "remove", "create", "write", "serve"}
    /\ hashFile \in Versions \cup {NoVersion, Torn}
    /\ file \in [Keys -> Versions \cup {NoVersion}]
    /\ visited \subseteq Keys \cup {Hash} /\ stuck \subseteq Keys \cup {Hash}
    /\ kept \in BOOLEAN
    /\ sealed \in {NoVersion, hashFile}

Stale(k) == file[k] \notin {code, NoVersion}

\* A program that serves has no file of another version in its cache, wherever
\* earlier starts died and whatever order versions were deployed in, but for files
\* that could not be removed, and unless a start could neither remove nor write the
\* hash file (hash.go:14-46).
NoStaleFiles ==
    stage = "serve" /\ ~kept => \A k \in Keys : Stale(k) => k \in stuck

\* A version that finds the hash file it wrote keeps its cache (hash.go:38).
SameCodeKeepsCache == stage = "remove" => sealed # code

-----------------------------------------------------------------------------
(* What they rest on. *)

\* What a removal has gone past is removed or stuck.
Cleared ==
    /\ stage = "remove" =>
         /\ \A k \in visited \cap Keys : file[k] = NoVersion \/ k \in stuck
         /\ Hash \in visited => hashFile = NoVersion \/ Hash \in stuck
    /\ stage \in {"create", "write"} => \A k \in Keys : file[k] = NoVersion \/ k \in stuck
    /\ stage = "create" => hashFile = NoVersion \/ Hash \in stuck
    /\ stage = "write" => hashFile = Torn

\* A hash file vouches for the files beside it.
Vouches ==
    hashFile \in Versions /\ ~kept =>
        /\ \A k \in Keys : file[k] \in {NoVersion, hashFile} \/ k \in stuck
        /\ stage = "serve" => hashFile = code

VersionInv == VersionTypeOK /\ Cleared /\ Vouches /\ NoStaleFiles /\ SameCodeKeepsCache
=============================================================================
