---------------------------- MODULE ParallelPool ----------------------------
(***************************************************************************)
(* parallel.Pool: one caller hands tasks to goroutines, of which at most   *)
(* Workers run at a time, and joins them.  A goroutine gives its token     *)
(* back before it counts itself off in the wait group, so for a moment     *)
(* there are more goroutines than tokens.                                  *)
(***************************************************************************)
EXTENDS Naturals, FiniteSets

CONSTANTS Tasks, Workers, NoTask

ASSUME PoolAssumption ==
    /\ NoTask \notin Tasks
    /\ Workers \in Nat \ {0}

VARIABLES
    caller,     \* "free", or "joining" in Wait
    blocked,    \* the task that Do has counted and has no token for, or NoTask
    spawned,    \* tasks whose goroutine has not looked at the context yet
    working,    \* tasks that run
    leaving,    \* tasks that ended and hold their token
    left,       \* tasks that gave it back and are not counted off
    tokens,     \* the tokens in the channel of workers
    wg,         \* the counter of the wait group
    failed,     \* lastError is set
    parentDone, aborted   \* why the pool's context is done

held == <<spawned, working, leaving, left>>
ctx  == <<parentDone, aborted>>
vars == <<caller, blocked, held, tokens, wg, failed, ctx>>

CtxDone  == parentDone \/ aborted
Holders  == spawned \cup working \cup leaving
InFlight == Holders \cup left \cup ({blocked} \ {NoTask})

Init ==
    /\ caller = "free" /\ blocked = NoTask
    /\ spawned = {} /\ working = {} /\ leaving = {} /\ left = {}
    /\ tokens = Workers /\ wg = 0
    /\ failed = FALSE
    /\ parentDone = FALSE /\ aborted = FALSE

\* wg.Add(1), before the goroutine exists.
CountedByNobody == wg                                            \* fault
Counted == wg + 1

Do(t) ==
    /\ caller = "free" /\ blocked = NoTask
    /\ t \notin InFlight
    /\ wg' = Counted
    /\ blocked' = t
    /\ UNCHANGED <<caller, held, tokens, failed, ctx>>

\* Fault: a task that is going to be skipped takes no token.
SpawnWithoutToken ==
    /\ blocked # NoTask
    /\ tokens > 0
    /\ tokens' = IF CtxDone THEN tokens ELSE tokens - 1
    /\ spawned' = spawned \cup {blocked}
    /\ blocked' = NoTask
    /\ UNCHANGED <<caller, working, leaving, left, wg, failed, ctx>>

\* <-p.workers, then the go statement.
Spawn ==
    /\ blocked # NoTask
    /\ tokens > 0
    /\ tokens' = tokens - 1
    /\ spawned' = spawned \cup {blocked}
    /\ blocked' = NoTask
    /\ UNCHANGED <<caller, working, leaving, left, wg, failed, ctx>>

\* Fault: the deferred calls are registered after the context is looked at.
SkipUncounted(t) ==
    /\ t \in spawned /\ CtxDone
    /\ spawned' = spawned \ {t}
    /\ UNCHANGED <<caller, blocked, working, leaving, left, tokens, wg, failed, ctx>>

Skip(t) ==
    /\ t \in spawned /\ CtxDone
    /\ spawned' = spawned \ {t}
    /\ leaving' = leaving \cup {t}
    /\ UNCHANGED <<caller, blocked, working, left, tokens, wg, failed, ctx>>

Run(t) ==
    /\ t \in spawned /\ ~CtxDone
    /\ spawned' = spawned \ {t}
    /\ working' = working \cup {t}
    /\ UNCHANGED <<caller, blocked, leaving, left, tokens, wg, failed, ctx>>

Return(t, err) ==
    /\ t \in working
    /\ working' = working \ {t}
    /\ leaving' = leaving \cup {t}
    /\ failed' = (failed \/ err)
    /\ UNCHANGED <<caller, blocked, spawned, left, tokens, wg, ctx>>

\* p.workers <- struct{}{} into a channel of Workers places.
PutToken(t) ==
    /\ t \in leaving
    /\ tokens < Workers
    /\ tokens' = tokens + 1
    /\ leaving' = leaving \ {t}
    /\ left' = left \cup {t}
    /\ UNCHANGED <<caller, blocked, spawned, working, wg, failed, ctx>>

CountOff(t) ==
    /\ t \in left
    /\ left' = left \ {t}
    /\ wg' = wg - 1
    /\ UNCHANGED <<caller, blocked, spawned, working, leaving, tokens, failed, ctx>>

Join ==
    /\ caller = "free" /\ blocked = NoTask
    /\ caller' = "joining"
    /\ UNCHANGED <<blocked, held, tokens, wg, failed, ctx>>

Joined ==
    /\ caller = "joining"
    /\ wg = 0
    /\ caller' = "free"
    /\ UNCHANGED <<blocked, held, tokens, wg, failed, ctx>>

\* A new context below the caller's; lastError stays.
Reset ==
    /\ caller = "free" /\ blocked = NoTask
    /\ aborted' = FALSE
    /\ UNCHANGED <<caller, blocked, held, tokens, wg, failed, parentDone>>

Abort ==
    /\ aborted' = TRUE
    /\ UNCHANGED <<caller, blocked, held, tokens, wg, failed, parentDone>>

ParentCancels ==
    /\ parentDone' = TRUE
    /\ UNCHANGED <<caller, blocked, held, tokens, wg, failed, aborted>>

Goroutine(t) ==
    \/ Skip(t) \/ Run(t) \/ Return(t, TRUE) \/ Return(t, FALSE)
    \/ PutToken(t) \/ CountOff(t)

Caller ==
    \/ \E t \in Tasks : Do(t)
    \/ Spawn \/ Join \/ Joined \/ Reset \/ Abort

Next ==
    \/ Caller
    \/ \E t \in Tasks : Goroutine(t)
    \/ ParentCancels

Spec == Init /\ [][Next]_vars

-----------------------------------------------------------------------------
(* Properties. *)

\* The range of every variable; a task is in one place (parallel.go:46-68).
PoolTypeOK ==
    /\ caller \in {"free", "joining"}
    /\ blocked \in Tasks \cup {NoTask}
    /\ spawned \subseteq Tasks /\ working \subseteq Tasks
    /\ leaving \subseteq Tasks /\ left \subseteq Tasks
    /\ tokens \in 0 .. Workers /\ wg \in Nat
    /\ failed \in BOOLEAN /\ parentDone \in BOOLEAN /\ aborted \in BOOLEAN

Apart ==
    /\ spawned \cap working = {} /\ spawned \cap leaving = {} /\ spawned \cap left = {}
    /\ working \cap leaving = {} /\ working \cap left = {} /\ leaving \cap left = {}
    /\ blocked \notin Holders \cup left

\* No token is lost or made, whatever order tasks end, are skipped or fail in:
\* a pool that lost one would run ever fewer tasks at a time and in the end block
\* in Do, one that made one would block its goroutines (parallel.go:48, 52).
TokensKept ==
    /\ IsFiniteSet(Holders)
    /\ tokens + Cardinality(Holders) = Workers

\* A goroutine never waits to give its token back (parallel.go:52).
TokenGoesBack == leaving # {} => tokens < Workers

\* Wait returns only when no task is in flight: none of an analysis' goroutines
\* outlives it (parallel.go:47, 53, 75).
JoinsAll == caller = "joining" /\ wg = 0 => InFlight = {}

\* Wait returns: every task that was handed over ends (parallel.go:46-78).
WaitReturns == caller = "joining" ~> caller = "free"

\* What JoinsAll rests on.
WaitGroupCounts ==
    /\ IsFiniteSet(InFlight)
    /\ wg = Cardinality(InFlight)

PoolInv == Apart /\ TokensKept /\ WaitGroupCounts
=============================================================================
