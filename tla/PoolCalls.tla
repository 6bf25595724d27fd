----------------------------- MODULE PoolCalls -----------------------------
(***************************************************************************)
(* A pool whose tasks are calls to FFLogs, as those of updateFights,       *)
(* updateEvents and getFightRankings: ParallelPool with GraphQLCall in the *)
(* place of the functions it runs.  A task ends when its call does, with   *)
(* the error of the call, and the context of the calls is the pool's.      *)
(***************************************************************************)
EXTENDS ParallelPool

CONSTANTS MaxTries

ASSUME CallsAssumption == MaxTries \in Nat \ {0}

VARIABLES phase, try, bodies, rest

calls    == <<phase, try, bodies, rest>>
poolVars == <<vars, calls>>

Calls == INSTANCE GraphQLCall WITH Callers <- Tasks, ctxDone <- CtxDone

PInit == Init /\ Calls!Init

\* The function looks at the context again before it calls.
LeaveAlone(t) ==
    /\ phase[t] = "idle" /\ CtxDone
    /\ Return(t, FALSE)
    /\ UNCHANGED calls

Call(t) ==
    /\ t \in working /\ ~CtxDone
    /\ Calls!Begin(t)
    /\ UNCHANGED vars

ReturnCall(t) ==
    /\ Return(t, phase[t] = "error")
    /\ Calls!End(t)

\* What goes on without FFLogs.
Task(t) ==
    \/ (Skip(t) \/ Run(t) \/ PutToken(t) \/ CountOff(t)) /\ UNCHANGED calls
    \/ LeaveAlone(t) \/ Call(t) \/ ReturnCall(t)
    \/ Calls!Own(t) /\ UNCHANGED vars

Network(t) == Calls!FFLogs(t) /\ UNCHANGED vars

\* The callers reset the pool only when nothing is in flight
\* (FetchRounds!EntriesHaveOneOwner), so a call never outlives its context.
PReset == InFlight = {} /\ Reset

PNext ==
    \/ ((\E t \in Tasks : Do(t)) \/ Spawn \/ Join \/ Joined \/ PReset \/ Abort \/ ParentCancels)
         /\ UNCHANGED calls
    \/ \E t \in Tasks : Task(t) \/ Network(t)

PSpec == PInit /\ [][PNext]_poolVars

\* FFLogs owes nothing.
PFairSpec ==
    /\ PSpec
    /\ \A t \in Tasks : WF_poolVars(Task(t))
    /\ WF_poolVars(Spawn /\ UNCHANGED calls)
    /\ WF_poolVars(Joined /\ UNCHANGED calls)

-----------------------------------------------------------------------------
(* Properties. *)

OneAnswerPerCall == Calls!OneAnswerPerCall

\* Once the context is done Wait returns, whatever FFLogs does: a client that left
\* does not keep the worker (client.go:46, 50-53, 88; parallel.go:56, 75).
CancelledWaitReturns == caller = "joining" /\ CtxDone ~> caller = "free"

\* As long as FFLogs answers, or fails, Wait returns anyway: the tries of a call end
\* (client.go:40, parallel.go:46-78).
AnsweredWaitReturns == (\A t \in Tasks : WF_poolVars(Network(t))) => WaitReturns
=============================================================================
