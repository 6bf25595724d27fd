---------------------------- MODULE FetchRounds ----------------------------
(***************************************************************************)
(* The rounds in which updateFights, updateEvents and getFightRankings ask *)
(* FFLogs for a list of things: each round goes through the list, hands    *)
(* batches of what is still open to a parallel.Pool, and waits for them.   *)
(* The goroutines write the retries and the done flag that the scan reads. *)
(*                                                                         *)
(* The pool is the one of ParallelPool, its tasks are the batches of the   *)
(* round.  What the three callers do with an answer is left to others:     *)
(* here it brings an entry forward, or leaves it open as if it had been    *)
(* missing from the answer.                                                *)
(***************************************************************************)
EXTENDS Naturals, FiniteSets

CONSTANTS
    N,               \* entries of todoList
    Answers,         \* answers that an entry takes until it is done: 1, its pages, 0 if cached
    BatchSize,       \* entries of a query: 50, 25, and 21 of the rankings
    MaxTries,        \* queries without an answer: 3, and 4 of the rankings
    Workers          \* 8

ASSUME RoundsAssumption ==
    /\ N \in Nat
    /\ Answers \in [1 .. N -> Nat]
    /\ BatchSize \in Nat \ {0}
    /\ MaxTries \in Nat \ {0}
    /\ Workers \in Nat \ {0}

Todos   == 1 .. N
Batches == 1 .. N      \* never more in a round than entries
NoBatch == 0

VARIABLES
    strict,    \* entries that are not done fail the analysis; FALSE: rankings
    pc,        \* "round", "scan", "wait", or the result: "true", "false"
    next,      \* the entry the scan looks at next
    query,     \* entries collected for the next batch
    qCount,    \* batches handed over in this round
    batch,     \* the entries of each of them
    retries,
    open,      \* answers that an entry still needs; done is 0
    called,    \* batches whose call returned an answer
    pending,   \* entries of that answer which are not processed yet
    caller, blocked, spawned, working, leaving, left, tokens, wg, failed,
    parentDone, aborted

round    == <<pc, next, query, qCount, batch>>
entries  == <<strict, retries, open>>
answers  == <<called, pending>>
poolVars == <<caller, blocked, spawned, working, leaving, left, tokens, wg, failed,
              parentDone, aborted>>
vars     == <<round, entries, answers, poolVars>>

Pool == INSTANCE ParallelPool WITH Tasks <- Batches, NoTask <- NoBatch

Done(t) == open[t] = 0

Init ==
    /\ pc = "round" /\ next = 1 /\ query = {} /\ qCount = 0
    /\ batch = [b \in Batches |-> {}]
    /\ strict \in BOOLEAN
    /\ retries = [t \in Todos |-> 0]
    /\ open = Answers
    /\ called = {} /\ pending = [b \in Batches |-> {}]
    /\ Pool!Init

-----------------------------------------------------------------------------
(* The caller. *)

\* pp.Reset and the start of a scan.
Round ==
    /\ pc = "round"
    /\ pc' = "scan"
    /\ next' = 1 /\ qCount' = 0
    /\ aborted' = FALSE
    /\ UNCHANGED <<query, batch, entries, answers, caller, blocked, spawned,
                   working, leaving, left, tokens, wg, failed, parentDone>>

\* pp.Do(work(Q)), with a copy of the query.
HandOver(Q) ==
    /\ Pool!Do(qCount + 1)
    /\ qCount' = qCount + 1
    /\ batch' = [batch EXCEPT ![qCount + 1] = Q]
    /\ called' = called \ {qCount + 1}
    /\ query' = {}
    /\ UNCHANGED pending

AskedOnceMore(t) == retries[t] <= MaxTries /\ ~Done(t)            \* fault
Eligible(t) == retries[t] < MaxTries /\ ~Done(t)

Scan ==
    /\ pc = "scan" /\ blocked = NoBatch
    /\ next \in Todos
    /\ next' = next + 1
    /\ IF ~Eligible(next)
         THEN UNCHANGED <<query, qCount, batch, retries, answers, poolVars>>
         ELSE /\ retries' = [retries EXCEPT ![next] = @ + 1]
              /\ LET Q == query \cup {next} IN
                 IF Cardinality(Q) = BatchSize
                   THEN HandOver(Q)
                   ELSE query' = Q /\ UNCHANGED <<qCount, batch, answers, poolVars>>
    /\ UNCHANGED <<pc, strict, open>>

Scanned == pc = "scan" /\ blocked = NoBatch /\ next \notin Todos

Rest ==
    /\ Scanned /\ query # {}
    /\ HandOver(query)
    /\ UNCHANGED <<pc, next, entries>>

\* Fault: the next round does not wait for this one.
GoesOn ==
    /\ Scanned /\ query = {} /\ qCount > 0
    /\ pc' = "round"
    /\ UNCHANGED <<next, query, qCount, batch, entries, answers, poolVars>>

Join ==
    /\ Scanned /\ query = {} /\ qCount > 0
    /\ Pool!Join
    /\ pc' = "wait"
    /\ UNCHANGED <<next, query, qCount, batch, entries, answers>>

IgnoresError == "round"                                          \* fault
AfterWait == IF failed THEN "false" ELSE "round"

Joined ==
    /\ pc = "wait"
    /\ Pool!Joined
    /\ pc' = AfterWait
    /\ UNCHANGED <<next, query, qCount, batch, entries, answers>>

Outcome == IF strict /\ \E t \in Todos : ~Done(t) THEN "false" ELSE "true"

Settle ==
    /\ Scanned /\ query = {} /\ qCount = 0
    /\ pc' = Outcome
    /\ UNCHANGED <<next, query, qCount, batch, entries, answers, poolVars>>

-----------------------------------------------------------------------------
(* The goroutine of batch b. *)

\* What the pool does around f.
PoolStep(b) ==
    /\ \/ blocked = b /\ Pool!Spawn
       \/ Pool!Skip(b) \/ Pool!Run(b) \/ Pool!PutToken(b) \/ Pool!CountOff(b)
    /\ UNCHANGED <<round, entries, answers>>

\* The context was done when the query's turn came.
LeftAlone(b) ==
    /\ b \notin called /\ Pool!CtxDone
    /\ Pool!Return(b, FALSE)
    /\ UNCHANGED <<round, entries, answers>>

CallFails(b) ==
    /\ b \notin called
    /\ Pool!Return(b, TRUE)
    /\ UNCHANGED <<round, entries, answers>>

\* The answer of CallGraphQL has some of the entries asked for.
CallAnswers(b) ==
    /\ b \in working \ called
    /\ called' = called \cup {b}
    /\ \E A \in SUBSET batch[b] : pending' = [pending EXCEPT ![b] = A]
    /\ UNCHANGED <<round, entries, poolVars>>

\* Fault: any answer renews the retries.
RenewsForNothing(b, t) ==
    /\ b \in working /\ t \in pending[b]
    /\ pending' = [pending EXCEPT ![b] = @ \ {t}]
    /\ retries' = [retries EXCEPT ![t] = 0]
    /\ UNCHANGED <<round, strict, open, called, poolVars>>

\* do(hash, resp, true) with an answer that brings the entry forward.  The rankings
\* leave the retries, and never look at them again: one answer ends an entry.
Process(b, t) ==
    /\ b \in working /\ t \in pending[b]
    /\ pending' = [pending EXCEPT ![b] = @ \ {t}]
    /\ open' = [open EXCEPT ![t] = @ - 1]
    /\ retries' = [retries EXCEPT ![t] = 0]
    /\ UNCHANGED <<round, strict, called, poolVars>>

Processed(b) ==
    /\ b \in called /\ pending[b] = {}
    /\ Pool!Return(b, FALSE)
    /\ UNCHANGED <<round, entries, answers>>

Goroutine(b) ==
    \/ PoolStep(b)
    \/ LeftAlone(b) \/ CallFails(b) \/ CallAnswers(b)
    \/ \E t \in Todos : Process(b, t)
    \/ Processed(b)

\* The client goes away.
Cancelled ==
    /\ Pool!ParentCancels
    /\ UNCHANGED <<round, entries, answers>>

Caller == Round \/ Scan \/ Rest \/ Join \/ Joined \/ Settle

Next == Caller \/ (\E b \in Batches : Goroutine(b)) \/ Cancelled

Spec == Init /\ [][Next]_vars

\* Goroutines run and every call returns (CallGraphQL has no time limit of its own).
FairSpec ==
    /\ Spec
    /\ WF_vars(Caller)
    /\ \A b \in Batches : WF_vars(Goroutine(b))

-----------------------------------------------------------------------------
(* Properties. *)

\* The range of every variable of the rounds.
RoundsTypeOK ==
    /\ pc \in {"round", "scan", "wait", "true", "false"}
    /\ next \in 1 .. N + 1
    /\ query \subseteq Todos /\ Cardinality(query) < BatchSize
    /\ qCount \in 0 .. N
    /\ batch \in [Batches -> SUBSET Todos]
    /\ strict \in BOOLEAN
    /\ retries \in [Todos -> 0 .. MaxTries]
    /\ open \in [Todos -> Nat]
    /\ called \subseteq Batches /\ pending \in [Batches -> SUBSET Todos]
    /\ Pool!PoolTypeOK

\* The scan and the goroutines share the retries, the done flags and what is fetched
\* without a lock: no entry is looked at while a batch has it, and no two batches have
\* it.  A round starts, and the fetch returns, with no goroutine left: pp.Reset never
\* swaps the context under one, and nothing is written any more when the statistics
\* read it (fflogs_2_fight.go:205-242).
EntriesHaveOneOwner ==
    /\ \A b \in Pool!InFlight : batch[b] \cap (query \cup next .. N) = {}
    /\ \A a, b \in Pool!InFlight : a # b => batch[a] \cap batch[b] = {}
    /\ pc \in {"round", "true", "false"} => Pool!InFlight = {}

\* The result says what happened.  Success: no batch failed and nothing is open, or,
\* of the rankings, what is open had its turn in vain in the last MaxTries rounds.
\* Failure: an error, or an entry that had MaxTries turns in vain.  A turn that was
\* left alone because the context was done counts, too
\* (fflogs_2_fight.go:210, 231-246, ql_fight_rankings.go:226-263).
InVain(t) == ~Done(t) /\ retries[t] = MaxTries
ResultIsEarned ==
    /\ pc = "true" => /\ ~failed
                      /\ \A t \in Todos : Done(t) \/ (~strict /\ InVain(t))
    /\ pc = "false" => failed \/ \E t \in Todos : strict /\ InVain(t)

\* The fetch returns.
Returns == <>(pc \in {"true", "false"})
=============================================================================
