---------------------------- MODULE MCFileCache ----------------------------
(* The two parts of package cache, one after the other: Storage, whose processes die and   *)
(* start again, and the guard of its directory, over the versions of those processes.      *)
EXTENDS Storage, CacheVersion

VARIABLE part

MCInit ==
    /\ part \in {"storage", "guard"}
    /\ Init /\ VInit
    /\ part = "storage" => code = CHOOSE v \in Versions : TRUE

MCNext ==
    /\ \/ part = "storage" /\ Next /\ UNCHANGED vvars
       \/ part = "guard" /\ VNext /\ UNCHANGED vars
    /\ UNCHANGED part

MCSpec == MCInit /\ [][MCNext]_<<part, vars, vvars>> /\ Fairness
=============================================================================
