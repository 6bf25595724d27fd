----------------------------- MODULE EventPages -----------------------------
(***************************************************************************)
(* How updateEvents of the perfection analysis fetches what happened in    *)
(* one fight, page by page, through a cache that outlives the analysis:    *)
(* first the pages the cache has, then rounds of queries.  The fights of   *)
(* an analysis do not touch each other's state, so the module follows one  *)
(* of them, over several analyses of it.                                   *)
(*                                                                         *)
(* Timestamps are page numbers.  What an answer contains for a part is     *)
(* fixed by where the part was asked from, so an answer is the set of the  *)
(* parts that are not null in it.  The two tables of a fight are parts of  *)
(* one page.                                                               *)
(***************************************************************************)
EXTENDS Naturals, Sequences, FiniteSets, Functions

CONSTANTS
    Parts,        \* what is fetched: casts, buffs, deaths, attacks, debuffs
    Pages,        \* how many pages FFLogs has of each part
    MaxRetries,   \* queries without progress before a fight is given up (3)
    Worlds        \* what may go wrong: parts that answers may have null although
                  \* they were asked for, and how often cache files fail (a bound)

ASSUME EventsAssumption ==
    /\ IsFiniteSet(Parts)
    /\ Pages \in [Parts -> Nat \ {0}]
    /\ MaxRetries \in Nat \ {0}
    /\ Worlds \subseteq [nullable : SUBSET Parts, faults : Nat]

VARIABLES
    world,        \* the one of Worlds that this is
    pc,           \* where updateEvents is: replay, round, call, or its result
    start,        \* the page each part is asked from next
    partDone,     \* the parts whose last page came
    done,         \* the fight needs no further query
    doneEvents,   \* its events are complete
    retries,
    got,          \* the pages of each part, in the order they were added
    cache,        \* the cached answers, by where their parts were asked from
    faults, calls,
    whole         \* history: an analysis got every page and no fault ever happened

fight == <<start, partDone, done, doneEvents, retries, got>>
vars  == <<world, pc, fight, cache, faults, calls, whole>>

Unfetched == [p \in Parts |-> 0]

Init ==
    /\ world \in Worlds
    /\ pc = "idle"
    /\ start = Unfetched
    /\ partDone = {}
    /\ done = FALSE /\ doneEvents = FALSE
    /\ retries = 0 /\ calls = 0
    /\ got = [p \in Parts |-> <<>>]
    /\ cache = [k \in {} |-> {}]
    /\ faults = 0
    /\ whole = FALSE

\* A new analysis of the fight.
Begin ==
    /\ pc \in {"idle", "true", "false"}
    /\ pc' = "replay"
    /\ start' = Unfetched
    /\ partDone' = {}
    /\ done' = FALSE /\ doneEvents' = FALSE
    /\ retries' = 0 /\ calls' = 0
    /\ got' = [p \in Parts |-> <<>>]
    /\ UNCHANGED <<world, cache, faults, whole>>

-----------------------------------------------------------------------------
(* do(hash, resp, save) with an answer of the parts A. *)

IgnoresNextPage(p) == TRUE                                       \* fault
IsLast(p) == start[p] + 1 = Pages[p]

RenewedByAnyAnswer(more) == 0                                    \* fault
Renewed(more) == IF more # {} THEN 0 ELSE retries

\* Bound: of the surplus pages of a part, which a replay may add without end, one
\* or two are kept in turn.
WithPage(p) ==
    IF Len(got[p]) < Pages[p] + 2
      THEN Append(got[p], start[p]) ELSE SubSeq(got[p], 1, Pages[p] + 1)

\* A next page moves the part on and renews the retries; a part without one is
\* done.  A page is added even if its part was done before.
AddPages(A) ==
    LET more == {p \in A : ~IsLast(p)} IN
    /\ got' = [p \in Parts |-> IF p \in A THEN WithPage(p) ELSE got[p]]
    /\ start' = [p \in Parts |-> IF p \in more THEN start[p] + 1 ELSE start[p]]
    /\ partDone' = partDone \cup (A \ more)
    /\ retries' = Renewed(more)
    /\ done' = (done \/ partDone' = Parts)
    /\ doneEvents' = (doneEvents \/ (~done /\ partDone' = Parts))

\* report: null.  The fight is left out, without events.
GiveUpReport ==
    /\ done' = TRUE
    /\ UNCHANGED <<start, partDone, doneEvents, retries, got>>

-----------------------------------------------------------------------------
(* The cache, with the key of the pages asked for. *)

Key == start

StoredOnce(A) == IF Key \in DOMAIN cache \/ A # Parts THEN cache  \* fault
                 ELSE [k \in DOMAIN cache \cup {Key} |-> IF k = Key THEN A ELSE cache[k]]
Stored(A) == [k \in DOMAIN cache \cup {Key} |-> IF k = Key THEN A ELSE cache[k]]
WithoutKey == Restrict(cache, DOMAIN cache \ {Key})

Fault == faults < world.faults /\ faults' = faults + 1 /\ whole' = FALSE

\* The answer is saved; or the file cannot be created, or is removed or left
\* broken by an error.
SaveAnswer(A) ==
    \/ cache' = Stored(A) /\ UNCHANGED <<faults, whole>>
    \/ cache' \in {cache, WithoutKey} /\ Fault

\* Fault: the loop ends on a missing file only.
ReplaysOn ==
    /\ pc = "replay"
    /\ Key \in DOMAIN cache
    /\ AddPages(cache[Key])
    /\ UNCHANGED <<world, pc, cache, faults, calls, whole>>

\* The loop over the cache goes on while there is a file for the pages that come
\* next and the fight is not done.
ReplayHit ==
    /\ pc = "replay"
    /\ Key \in DOMAIN cache
    /\ AddPages(cache[Key])
    /\ pc' = IF done' THEN "round" ELSE "replay"
    /\ UNCHANGED <<world, cache, faults, calls, whole>>

ReplayMiss ==
    /\ pc = "replay"
    /\ \/ Key \notin DOMAIN cache /\ UNCHANGED <<faults, whole>>
       \/ Key \in DOMAIN cache /\ Fault
    /\ pc' = "round"
    /\ UNCHANGED <<world, fight, cache, calls>>

-----------------------------------------------------------------------------
(* The rounds of queries. *)

Counted == retries + 1

MayAskOnceMore == retries <= MaxRetries                          \* fault
MayAsk == retries < MaxRetries

Ask ==
    /\ pc = "round"
    /\ MayAsk /\ ~done
    /\ retries' = Counted
    /\ calls' = calls + 1
    /\ pc' = "call"
    /\ UNCHANGED <<world, start, partDone, done, doneEvents, got, cache, faults, whole>>

\* Only parts that are not done are asked for (tmplReportCastsEvents.tmpl).
Answer ==
    /\ pc = "call"
    /\ \E missing \in SUBSET (world.nullable \ partDone) :
         LET A == (Parts \ partDone) \ missing IN
         /\ SaveAnswer(A)
         /\ AddPages(A)
    /\ pc' = "round"
    /\ UNCHANGED <<world, calls>>

AnswerNull ==
    /\ pc = "call"
    /\ GiveUpReport
    /\ pc' = "round"
    /\ UNCHANGED <<world, cache, faults, calls, whole>>

\* An answer without the fight, or a context that was done when the query's turn
\* came.
NoAnswer ==
    /\ pc = "call"
    /\ pc' = "round"
    /\ UNCHANGED <<world, fight, cache, faults, calls, whole>>

\* CallGraphQL gave up: pp.Wait returns its error.
CallFails ==
    /\ pc = "call"
    /\ pc' = "false"
    /\ UNCHANGED <<world, fight, cache, faults, calls, whole>>

\* No query is left to make: the result is whether the fight is done.
Outcome == IF done THEN "true" ELSE "false"

Settle ==
    /\ pc = "round"
    /\ done \/ ~MayAsk
    /\ pc' = Outcome
    /\ whole' = (whole \/ (doneEvents /\ faults = 0))
    /\ UNCHANGED <<world, fight, cache, faults, calls>>

Step ==
    \/ ReplayHit \/ ReplayMiss
    \/ Ask \/ Answer \/ AnswerNull \/ NoAnswer \/ CallFails \/ Settle

Next == Begin \/ Step

Spec == Init /\ [][Next]_vars

\* The goroutines run and every call returns.
FairSpec == Spec /\ WF_vars(Step)

-----------------------------------------------------------------------------
(* Properties. *)

\* The range of every variable; parts are asked from pages that exist.
EventsTypeOK ==
    /\ pc \in {"idle", "replay", "round", "call", "true", "false"}
    /\ start \in [Parts -> Nat] /\ \A p \in Parts : start[p] < Pages[p]
    /\ partDone \subseteq Parts
    /\ done \in BOOLEAN /\ doneEvents \in BOOLEAN /\ whole \in BOOLEAN
    /\ retries \in 0 .. MaxRetries
    /\ got \in [Parts -> Seq(Nat)]
    /\ \A k \in DOMAIN cache : k \in [Parts -> Nat] /\ cache[k] \subseteq Parts
    /\ world \in Worlds /\ faults \in 0 .. world.faults /\ calls \in Nat

AllPages(p) == [i \in 1 .. Pages[p] |-> i - 1]

\* A fight whose events count in the statistics (DoneEvents) has every page of
\* every part exactly once, whether it came from FFLogs or from the cache of an
\* earlier analysis that failed calls, cancels or file errors broke off.  Worlds has
\* no faults beside null parts: with both, a null part may be skipped
\* (fflogs_3_event.go:133-284).
EventsExact == pc = "true" /\ doneEvents => \A p \in Parts : got[p] = AllPages(p)

\* The pages of all parts before the ones in k, counted from 1.
PagesBefore(k) == UNION {{p} \X (1 .. k[p]) : p \in Parts}

\* FFLogs is asked again for the same pages MaxRetries times at most: only an
\* answer that moves a part on renews the retries (fflogs_3_event.go:159-160).
CallsBounded == calls <= MaxRetries * (1 + Cardinality(PagesBefore(start)))

\* A fight that one analysis fetched whole is never asked for again.
FetchedOnce == whole => pc # "call"

\* An analysis of the fight ends (fflogs_3_event.go:298-317, 355-395).
AlwaysReturns == pc = "replay" ~> pc \in {"true", "false"}

\* It does where answers have every part that was asked for.
Returns == world.nullable = {} => AlwaysReturns
=============================================================================
