------------------------- MODULE ParallelPoolProofs -------------------------
(***************************************************************************)
(* The pool keeps its tokens and its counts, for any number of workers and *)
(* of tasks.  The inductive invariant says that a task is in one place     *)
(* (Apart), that tokens and holders of tokens add up, and that the wait    *)
(* group counts the tasks in flight.                                       *)
(***************************************************************************)
EXTENDS ParallelPool, FiniteSetTheorems, TLAPS

IInv == PoolTypeOK /\ PoolInv

-----------------------------------------------------------------------------
LEMMA OneMore ==
    ASSUME NEW S, NEW x, IsFiniteSet(S), x \notin S
    PROVE  IsFiniteSet(S \cup {x}) /\ Cardinality(S \cup {x}) = Cardinality(S) + 1
  BY FS_AddElement

LEMMA OneLess ==
    ASSUME NEW S, NEW x \in S, IsFiniteSet(S)
    PROVE  /\ IsFiniteSet(S \ {x})
           /\ Cardinality(S \ {x}) = Cardinality(S) - 1
           /\ Cardinality(S) \in Nat \ {0}
  <1>1. Cardinality(S) \in Nat /\ Cardinality(S \ {x}) \in Nat
    BY FS_RemoveElement, FS_CardinalityType
  <1>2. Cardinality(S) # 0
    BY FS_EmptySet
  <1> QED
    BY <1>1, <1>2, FS_RemoveElement

LEMMA PoolInit == Init => IInv
  <1> SUFFICES ASSUME Init PROVE IInv
    OBVIOUS
  <1>0. tokens \in 0 .. Workers
    BY PoolAssumption DEF Init
  <1>1. PoolTypeOK
    BY <1>0 DEF Init, PoolTypeOK, held, ctx
  <1>2. Holders = {} /\ InFlight = {}
    BY DEF Init, Holders, InFlight
  <1>3. Apart
    BY PoolAssumption, <1>2 DEF Init, Apart
  <1>4. TokensKept /\ WaitGroupCounts
    BY <1>2, FS_EmptySet, PoolAssumption DEF Init, TokensKept, WaitGroupCounts
  <1> QED
    BY <1>1, <1>3, <1>4 DEF IInv, PoolInv

-----------------------------------------------------------------------------
(* The steps that move a task in or out. *)

LEMMA DoKeeps ==
    ASSUME IInv, NEW t \in Tasks, Do(t) PROVE IInv'
  <1> USE DEF IInv, PoolInv
  <1>1. /\ t \notin InFlight /\ blocked = NoTask /\ blocked' = t /\ wg' = wg + 1
        /\ UNCHANGED <<caller, held, tokens, failed, ctx>>
    BY DEF Do, Counted
  <1>2. Holders' = Holders /\ InFlight' = InFlight \cup {t}
    BY <1>1, PoolAssumption DEF Holders, InFlight, held
  <1>3. PoolTypeOK'
    BY <1>1 DEF PoolTypeOK, held, ctx
  <1>4. Apart'
    BY <1>1, <1>2 DEF Apart, held, InFlight
  <1>5. TokensKept'
    BY <1>1, <1>2 DEF TokensKept
  <1>6. WaitGroupCounts'
    BY <1>1, <1>2, OneMore DEF WaitGroupCounts
  <1> QED
    BY <1>3, <1>4, <1>5, <1>6

LEMMA SpawnKeeps ==
    ASSUME IInv, Spawn PROVE IInv'
  <1> USE DEF IInv, PoolInv
  <1>1. /\ blocked \in Tasks /\ blocked' = NoTask /\ tokens > 0 /\ tokens' = tokens - 1
        /\ spawned' = spawned \cup {blocked}
        /\ UNCHANGED <<caller, working, leaving, left, wg, failed, ctx>>
    BY DEF Spawn, PoolTypeOK
  <1>2. Holders' = Holders \cup {blocked} /\ InFlight' = InFlight
    BY <1>1, PoolAssumption DEF Holders, InFlight
  <1>3. blocked \notin Holders /\ blocked \notin left
    BY DEF Apart
  <1>4. PoolTypeOK'
    BY <1>1, PoolAssumption DEF PoolTypeOK, ctx
  <1>5. Apart'
    <2>1. NoTask \notin Holders' \cup left'
      BY <1>1, <1>4, PoolAssumption DEF PoolTypeOK, Holders
    <2> QED
      BY <1>1, <1>3, <2>1 DEF Apart, Holders
  <1>6. TokensKept'
    <2>1. Cardinality(Holders') = Cardinality(Holders) + 1 /\ IsFiniteSet(Holders')
      BY <1>2, <1>3, OneMore DEF TokensKept
    <2>2. Cardinality(Holders) \in Nat /\ tokens \in Nat /\ Workers \in Nat
      BY FS_CardinalityType, PoolAssumption DEF TokensKept, PoolTypeOK
    <2> QED
      BY <1>1, <2>1, <2>2 DEF TokensKept
  <1>7. WaitGroupCounts'
    BY <1>1, <1>2 DEF WaitGroupCounts
  <1> QED
    BY <1>4, <1>5, <1>6, <1>7

LEMMA PutKeeps ==
    ASSUME IInv, NEW t \in Tasks, PutToken(t) PROVE IInv'
  <1> USE DEF IInv, PoolInv
  <1>1. /\ t \in leaving /\ tokens < Workers /\ tokens' = tokens + 1
        /\ leaving' = leaving \ {t} /\ left' = left \cup {t}
        /\ UNCHANGED <<caller, blocked, spawned, working, wg, failed, ctx>>
    BY DEF PutToken
  <1>2. Holders' = Holders \ {t} /\ t \in Holders /\ InFlight' = InFlight
    BY <1>1 DEF Holders, InFlight, Apart
  <1>3. PoolTypeOK'
    BY <1>1, PoolAssumption DEF PoolTypeOK, ctx
  <1>4. Apart'
    BY <1>1 DEF Apart, Holders
  <1>5. TokensKept'
    <2>1. /\ IsFiniteSet(Holders') /\ Cardinality(Holders') = Cardinality(Holders) - 1
          /\ Cardinality(Holders) \in Nat
      BY <1>2, OneLess DEF TokensKept
    <2>2. tokens \in Nat /\ Workers \in Nat
      BY PoolAssumption DEF PoolTypeOK
    <2> QED
      BY <1>1, <2>1, <2>2 DEF TokensKept
  <1>6. WaitGroupCounts'
    BY <1>1, <1>2 DEF WaitGroupCounts
  <1> QED
    BY <1>3, <1>4, <1>5, <1>6

LEMMA CountOffKeeps ==
    ASSUME IInv, NEW t \in Tasks, CountOff(t) PROVE IInv'
  <1> USE DEF IInv, PoolInv
  <1>1. /\ t \in left /\ left' = left \ {t} /\ wg' = wg - 1
        /\ UNCHANGED <<caller, blocked, spawned, working, leaving, tokens, failed, ctx>>
    BY DEF CountOff
  <1>2. Holders' = Holders /\ InFlight' = InFlight \ {t} /\ t \in InFlight
    BY <1>1 DEF Holders, InFlight, Apart
  <1>3. wg' \in Nat /\ WaitGroupCounts'
    BY <1>1, <1>2, OneLess DEF WaitGroupCounts
  <1>4. PoolTypeOK'
    BY <1>1, <1>3 DEF PoolTypeOK, ctx
  <1>5. Apart'
    BY <1>1 DEF Apart, Holders
  <1>6. TokensKept'
    BY <1>1, <1>2 DEF TokensKept
  <1> QED
    BY <1>3, <1>4, <1>5, <1>6

\* The others move a task between holders, or no task.
LEMMA MoveKeeps ==
    ASSUME IInv, UNCHANGED <<blocked, left, tokens, wg>>, Holders' = Holders,
           PoolTypeOK', Apart'
    PROVE  IInv'
  <1>1. InFlight' = InFlight
    BY DEF InFlight
  <1> QED
    BY <1>1 DEF IInv, PoolInv, TokensKept, WaitGroupCounts

LEMMA PoolStep ==
    ASSUME IInv, [Next]_vars PROVE IInv'
  <1> USE DEF held, ctx
  <1>1. ASSUME NEW t \in Tasks, Skip(t) PROVE IInv'
    <2>1. /\ t \in spawned /\ spawned' = spawned \ {t} /\ leaving' = leaving \cup {t}
          /\ UNCHANGED <<caller, blocked, working, left, tokens, wg, failed, ctx>>
      BY <1>1 DEF Skip
    <2>2. Holders' = Holders
      BY <2>1 DEF Holders
    <2>3. PoolTypeOK' /\ Apart'
      BY <2>1, <2>2 DEF IInv, PoolInv, PoolTypeOK, Apart
    <2> QED
      BY <2>1, <2>2, <2>3, MoveKeeps
  <1>2. ASSUME NEW t \in Tasks, Run(t) PROVE IInv'
    <2>1. /\ t \in spawned /\ spawned' = spawned \ {t} /\ working' = working \cup {t}
          /\ UNCHANGED <<caller, blocked, leaving, left, tokens, wg, failed, ctx>>
      BY <1>2 DEF Run
    <2>2. Holders' = Holders
      BY <2>1 DEF Holders
    <2>3. PoolTypeOK' /\ Apart'
      BY <2>1, <2>2 DEF IInv, PoolInv, PoolTypeOK, Apart
    <2> QED
      BY <2>1, <2>2, <2>3, MoveKeeps
  <1>3. ASSUME NEW t \in Tasks, NEW err \in BOOLEAN, Return(t, err) PROVE IInv'
    <2>1. /\ t \in working /\ working' = working \ {t} /\ leaving' = leaving \cup {t}
          /\ UNCHANGED <<caller, blocked, spawned, left, tokens, wg, ctx>>
      BY <1>3 DEF Return
    <2>2. Holders' = Holders
      BY <2>1 DEF Holders
    <2>3. failed' \in BOOLEAN
      BY <1>3 DEF Return
    <2>4. PoolTypeOK' /\ Apart'
      BY <2>1, <2>2, <2>3 DEF IInv, PoolInv, PoolTypeOK, Apart
    <2> QED
      BY <2>1, <2>2, <2>4, MoveKeeps
  <1>4. CASE Join \/ Joined \/ Reset \/ Abort \/ ParentCancels \/ UNCHANGED vars
    <2>1. UNCHANGED <<blocked, held, tokens, wg>>
      BY <1>4 DEF Join, Joined, Reset, Abort, ParentCancels, vars
    <2>2. Holders' = Holders
      BY <2>1 DEF Holders
    <2>3. PoolTypeOK' /\ Apart'
      BY <1>4, <2>1, <2>2
      DEF IInv, PoolInv, PoolTypeOK, Apart, Join, Joined, Reset, Abort, ParentCancels, vars
    <2> QED
      BY <2>1, <2>2, <2>3, MoveKeeps
  <1> QED
    BY <1>1, <1>2, <1>3, <1>4, DoKeeps, SpawnKeeps, PutKeeps, CountOffKeeps
    DEF Next, Caller, Goroutine

-----------------------------------------------------------------------------
(* The theorems. *)

\* A task is in one place, tokens are neither lost nor made, and the wait group
\* counts what is in flight (parallel.go:46-68).
THEOREM PoolInvariance == Spec => [](PoolTypeOK /\ PoolInv)
  <1>1. Spec => []IInv
    BY PoolInit, PoolStep, PTL DEF Spec
  <1>2. IInv <=> PoolTypeOK /\ PoolInv
    BY DEF IInv
  <1> QED
    BY <1>1, <1>2, PTL

\* A goroutine never blocks when it gives its token back (parallel.go:52).
THEOREM TokensGoBack == Spec => []TokenGoesBack
  <1>1. PoolTypeOK /\ PoolInv => TokenGoesBack
    <2> SUFFICES ASSUME PoolTypeOK, PoolInv, leaving # {} PROVE tokens < Workers
      BY DEF TokenGoesBack
    <2>1. IsFiniteSet(Holders) /\ Holders # {} /\ tokens + Cardinality(Holders) = Workers
      BY DEF PoolInv, TokensKept, Holders
    <2>2. Cardinality(Holders) \in Nat \ {0}
      BY <2>1, FS_EmptySet, FS_CardinalityType
    <2> QED
      BY <2>1, <2>2, PoolAssumption DEF PoolTypeOK
  <1> QED
    BY <1>1, PoolInvariance, PTL

\* Wait returns only when no task is in flight (parallel.go:74-78).
THEOREM WaitJoinsAll == Spec => []JoinsAll
  <1>1. PoolTypeOK /\ PoolInv => JoinsAll
    BY FS_EmptySet DEF PoolInv, WaitGroupCounts, JoinsAll
  <1> QED
    BY <1>1, PoolInvariance, PTL
=============================================================================
