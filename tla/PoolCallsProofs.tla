-------------------------- MODULE PoolCallsProofs --------------------------
(***************************************************************************)
(* For any tasks, workers and tries: the pool whose tasks call FFLogs is a *)
(* pool, so that all that is proved of the pool holds of it, and a call    *)
(* gives one answer, or none after all its tries or when the context ended *)
(* it.                                                                     *)
(*                                                                         *)
(* That a call is made inside its task is what ties the two together: Wait *)
(* joins the calls because it joins the tasks, and a Reset, which waits    *)
(* for nothing, finds no call whose context it would take away.            *)
(***************************************************************************)
EXTENDS PoolCalls, ParallelPoolProofs

CallsTypeOK ==
    /\ phase \in [Tasks -> {"idle", "asking", "pausing", "ok", "error"}]
    /\ try \in [Tasks -> 0 .. MaxTries]
    /\ bodies \in [Tasks -> Nat] /\ rest \in [Tasks -> BOOLEAN]

\* A call is made by a task that runs.
InsideTask == \A t \in Tasks : phase[t] # "idle" => t \in working

\* A call makes a first try, a pause comes before another one, and nothing is left of
\* a call that is over.
TriesCounted ==
    \A t \in Tasks :
        /\ phase[t] = "idle" <=> try[t] = 0
        /\ phase[t] = "pausing" => try[t] < MaxTries
        /\ phase[t] = "idle" => ~rest[t]

\* A call that has failed made all its tries, or its context is done.
NoEarlyError == \A t \in Tasks : phase[t] = "error" => try[t] = MaxTries \/ CtxDone

CallsInv == CallsTypeOK /\ InsideTask /\ TriesCounted /\ NoEarlyError /\ OneAnswerPerCall

\* No call is under way when Wait returns.
JoinsCalls == caller = "joining" /\ wg = 0 => \A t \in Tasks : phase[t] = "idle"

-----------------------------------------------------------------------------
(* The pool. *)

LEMMA PoolStepOfCalls ==
    ASSUME CallsTypeOK, [PNext]_poolVars PROVE [Next]_vars
  <1>1. ASSUME NEW t \in Tasks, ReturnCall(t) PROVE Next
    <2>1. (phase[t] = "error") \in BOOLEAN
      OBVIOUS
    <2>2. Return(t, TRUE) \/ Return(t, FALSE)
      BY <1>1, <2>1 DEF ReturnCall
    <2> QED
      BY <2>2 DEF Next, Goroutine
  <1>2. ASSUME NEW t \in Tasks, Task(t) \/ Network(t) PROVE [Next]_vars
    BY <1>1, <1>2 DEF Task, Network, LeaveAlone, Call, Next, Goroutine
  <1>3. CASE (\E t \in Tasks : Do(t)) \/ Spawn \/ Join \/ Joined \/ PReset \/ Abort \/ ParentCancels
    BY <1>3 DEF PReset, Next, Caller
  <1>4. CASE UNCHANGED poolVars
    BY <1>4 DEF poolVars
  <1> QED
    BY <1>2, <1>3, <1>4 DEF PNext

-----------------------------------------------------------------------------
(* The calls. *)

LEMMA CallsStart == PInit => CallsInv
  BY CallsAssumption
  DEF PInit, Init, Calls!Init, CallsInv, CallsTypeOK, InsideTask, TriesCounted, NoEarlyError,
      OneAnswerPerCall, Calls!OneAnswerPerCall

\* Steps of the pool: a task that returns makes no call, and nothing is in flight when
\* the context is renewed.
LEMMA PoolKeepsCalls ==
    ASSUME CallsInv, UNCHANGED calls,
           \A t \in Tasks : phase[t] # "idle" /\ t \in working => t \in working',
           CtxDone => CtxDone' \/ working = {}
    PROVE  CallsInv'
  <1> USE DEF CallsInv, calls
  <1>1. CallsTypeOK' /\ TriesCounted' /\ OneAnswerPerCall'
    BY DEF CallsTypeOK, TriesCounted, OneAnswerPerCall, Calls!OneAnswerPerCall
  <1>2. InsideTask' /\ NoEarlyError'
    BY DEF InsideTask, NoEarlyError
  <1> QED
    BY <1>1, <1>2

\* Steps of a call.
LEMMA CallKeeps ==
    ASSUME CallsInv, NEW t \in Tasks, t \in working, working' = working, CtxDone' = CtxDone,
           Calls!Begin(t) \/ Calls!Own(t) \/ Calls!FFLogs(t)
    PROVE  CallsInv'
  <1> USE CallsAssumption DEF CallsInv
  <1>1. CASE Calls!Begin(t)
    BY <1>1
    DEF CallsTypeOK, InsideTask, TriesCounted, NoEarlyError, OneAnswerPerCall,
        Calls!OneAnswerPerCall, Calls!Begin
  <1>2. CASE Calls!ContextError(t)
    BY <1>2
    DEF CallsTypeOK, InsideTask, TriesCounted, NoEarlyError, OneAnswerPerCall,
        Calls!OneAnswerPerCall, Calls!ContextError
  <1>3. CASE Calls!Resume(t)
    BY <1>3
    DEF CallsTypeOK, InsideTask, TriesCounted, NoEarlyError, OneAnswerPerCall,
        Calls!OneAnswerPerCall, Calls!Resume
  <1>4. CASE Calls!Answered(t)
    BY <1>4
    DEF CallsTypeOK, InsideTask, TriesCounted, NoEarlyError, OneAnswerPerCall,
        Calls!OneAnswerPerCall, Calls!Answered
  <1>5. CASE Calls!Failed(t)
    BY <1>5
    DEF CallsTypeOK, InsideTask, TriesCounted, NoEarlyError, OneAnswerPerCall,
        Calls!OneAnswerPerCall, Calls!Failed, Calls!AfterError
  <1> QED
    BY <1>1, <1>2, <1>3, <1>4, <1>5 DEF Calls!Own, Calls!FFLogs

LEMMA ReturnKeeps ==
    ASSUME CallsInv, NEW t \in Tasks, ReturnCall(t) PROVE CallsInv'
  <1> USE CallsAssumption DEF CallsInv
  <1>1. /\ working' = working \ {t} /\ CtxDone' = CtxDone
    BY DEF ReturnCall, Return, ctx, CtxDone
  <1>2. Calls!End(t)
    BY DEF ReturnCall
  <1> QED
    BY <1>1, <1>2
    DEF CallsTypeOK, InsideTask, TriesCounted, NoEarlyError, OneAnswerPerCall,
        Calls!OneAnswerPerCall, Calls!End

LEMMA CallsStep ==
    ASSUME CallsInv, [PNext]_poolVars PROVE CallsInv'
  <1>1. CASE UNCHANGED poolVars
    BY <1>1, PoolKeepsCalls DEF poolVars, vars, calls, held, ctx, CtxDone
  <1>2. CASE /\ (\E t \in Tasks : Do(t)) \/ Spawn \/ Join \/ Joined \/ Abort \/ ParentCancels
             /\ UNCHANGED calls
    <2>1. working' = working /\ (CtxDone => CtxDone')
      BY <1>2 DEF Do, Spawn, Join, Joined, Abort, ParentCancels, held, ctx, CtxDone
    <2> QED
      BY <1>2, <2>1, PoolKeepsCalls
  <1>3. CASE PReset /\ UNCHANGED calls
    <2>1. working = {} /\ working' = working
      BY <1>3 DEF PReset, Reset, InFlight, Holders, held
    <2> QED
      BY <1>3, <2>1, PoolKeepsCalls
  <1>4. ASSUME NEW t \in Tasks, Skip(t) \/ Run(t) \/ PutToken(t) \/ CountOff(t), UNCHANGED calls
        PROVE  CallsInv'
    <2>1. working \subseteq working' /\ CtxDone' = CtxDone
      BY <1>4 DEF Skip, Run, PutToken, CountOff, ctx, CtxDone
    <2> QED
      BY <1>4, <2>1, PoolKeepsCalls
  <1>5. ASSUME NEW t \in Tasks, LeaveAlone(t) PROVE CallsInv'
    <2>1. /\ phase[t] = "idle" /\ working' = working \ {t} /\ CtxDone' = CtxDone
          /\ UNCHANGED calls
      BY <1>5 DEF LeaveAlone, Return, ctx, CtxDone
    <2> QED
      BY <2>1, PoolKeepsCalls
  <1>6. ASSUME NEW t \in Tasks, Call(t) \/ (Calls!Own(t) /\ UNCHANGED vars) \/ Network(t)
        PROVE  CallsInv'
    <2>1. working' = working /\ CtxDone' = CtxDone
      BY <1>6 DEF Call, Network, vars, held, ctx, CtxDone
    <2>2. t \in working
      BY <1>6
      DEF Call, Network, CallsInv, InsideTask, Calls!Own, Calls!FFLogs, Calls!ContextError,
          Calls!Resume, Calls!Answered, Calls!Failed
    <2> QED
      BY <1>6, <2>1, <2>2, CallKeeps DEF Call, Network
  <1> QED
    BY <1>1, <1>2, <1>3, <1>4, <1>5, <1>6, ReturnKeeps DEF PNext, Task

-----------------------------------------------------------------------------
(* That Wait returns, but for fairness: every step of the tasks and of FFLogs lowers a *)
(* number, and somebody can always move.                                               *)

\* The steps a call has ahead of it at most, with its task's last ones: each try has a
\* request and a pause.
CallAhead(t) ==
    CASE phase[t] = "idle"    -> 2 * MaxTries + 4
      [] phase[t] = "asking"  -> 2 * (MaxTries - try[t]) + 4
      [] phase[t] = "pausing" -> 2 * (MaxTries - try[t]) + 3
      [] OTHER                -> 3

TaskAhead(t) ==
    CASE t = blocked    -> 2 * MaxTries + 6
      [] t \in spawned  -> 2 * MaxTries + 5
      [] t \in working  -> CallAhead(t)
      [] t \in leaving  -> 2
      [] t \in left     -> 1
      [] OTHER          -> 0

Ahead == [t \in Tasks |-> TaskAhead(t)]

Steps(way) == UNION {{t} \X (1 .. way[t]) : t \in Tasks}

StepsLeft == Cardinality(Steps(Ahead)) + IF caller = "joining" THEN 1 ELSE 0

\* What a caller hands over is new work; the rest works it off.
HandsOver == (\E t \in Tasks : Do(t)) \/ Join \/ PReset

\* What each of them waits for.
TaskCan(t) ==
    \/ t \in spawned \cup left
    \/ t \in leaving /\ tokens < Workers
    \/ t \in working /\ (phase[t] = "asking" => CtxDone)

NetworkCan(t) == phase[t] = "asking"

CallerCan == (blocked # NoTask /\ tokens > 0) \/ wg = 0

LEMMA AheadTyped ==
    ASSUME CallsInv PROVE Ahead \in [Tasks -> 0 .. 2 * MaxTries + 6]
  <1>1. ASSUME NEW t \in Tasks PROVE CallAhead(t) \in 0 .. 2 * MaxTries + 4
    BY CallsAssumption DEF CallAhead, CallsInv, CallsTypeOK
  <1>2. ASSUME NEW t \in Tasks PROVE TaskAhead(t) \in 0 .. 2 * MaxTries + 6
    BY <1>1, CallsAssumption DEF TaskAhead
  <1> QED
    BY <1>2 DEF Ahead

\* Only what is in flight has steps ahead of it, so the steps can be counted.
LEMMA StepsCounted ==
    ASSUME IInv, CallsInv
    PROVE  IsFiniteSet(Steps(Ahead)) /\ Cardinality(Steps(Ahead)) \in Nat
  <1>1. IsFiniteSet(InFlight)
    BY DEF IInv, PoolInv, WaitGroupCounts
  <1>2. 1 \in Int /\ 2 * MaxTries + 6 \in Int
    BY CallsAssumption
  <1>3. IsFiniteSet(InFlight \X (1 .. 2 * MaxTries + 6))
    BY <1>1, <1>2, FS_Interval, FS_Product
  <1>4. ASSUME NEW t \in Tasks, Ahead[t] # 0 PROVE t \in InFlight
    BY <1>4, PoolAssumption DEF Ahead, TaskAhead, InFlight, Holders
  <1>5. Steps(Ahead) \subseteq InFlight \X (1 .. 2 * MaxTries + 6)
    <2>1. ASSUME NEW t \in Tasks, NEW k \in 1 .. Ahead[t]
          PROVE  t \in InFlight /\ k \in 1 .. 2 * MaxTries + 6
      <3>1. Ahead[t] \in 0 .. 2 * MaxTries + 6
        BY AheadTyped
      <3>2. k \in 1 .. 2 * MaxTries + 6 /\ Ahead[t] # 0
        BY <3>1, CallsAssumption
      <3> QED
        BY <1>4, <3>2
    <2> QED
      BY <2>1 DEF Steps
  <1> QED
    BY <1>3, <1>5, FS_Subset, FS_CardinalityType

LEMMA StepTaken ==
    ASSUME NEW v \in [Tasks -> Nat], NEW w \in [Tasks -> Nat], NEW t \in Tasks,
           v[t] < w[t], \A s \in Tasks : s # t => v[s] = w[s], IsFiniteSet(Steps(w))
    PROVE  Cardinality(Steps(v)) \in Nat /\ Cardinality(Steps(v)) < Cardinality(Steps(w))
  <1>1. Steps(v) \subseteq Steps(w)
    BY DEF Steps
  <1>2. <<t, w[t]>> \in Steps(w) /\ <<t, w[t]>> \notin Steps(v)
    BY DEF Steps
  <1>3. Cardinality(Steps(v)) \in Nat /\ Cardinality(Steps(w)) \in Nat
    BY <1>1, FS_Subset, FS_CardinalityType
  <1> QED
    BY <1>1, <1>2, <1>3, FS_Subset

\* A step of one task.
LEMMA TaskMoves ==
    ASSUME IInv, CallsInv, CallsInv', NEW t \in Tasks, caller' = caller,
           TaskAhead(t)' < TaskAhead(t), \A s \in Tasks : s # t => TaskAhead(s)' = TaskAhead(s)
    PROVE  StepsLeft' < StepsLeft
  <1>1. Ahead \in [Tasks -> Nat] /\ IsFiniteSet(Steps(Ahead)) /\ Cardinality(Steps(Ahead)) \in Nat
    BY AheadTyped, StepsCounted, CallsAssumption
  <1>2. (Ahead \in [Tasks -> 0 .. 2 * MaxTries + 6])'
    BY AheadTyped, PTL
  <1>3. Ahead' \in [Tasks -> Nat]
    BY <1>2, CallsAssumption
  <1>4. Ahead'[t] < Ahead[t] /\ \A s \in Tasks : s # t => Ahead'[s] = Ahead[s]
    BY DEF Ahead
  <1>5. /\ Cardinality(Steps(Ahead')) \in Nat
        /\ Cardinality(Steps(Ahead')) < Cardinality(Steps(Ahead))
    BY <1>1, <1>3, <1>4, StepTaken
  <1>6. Steps(Ahead)' = Steps(Ahead')
    BY DEF Steps
  <1> QED
    BY <1>1, <1>5, <1>6 DEF StepsLeft

LEMMA PoolStepLowers ==
    ASSUME IInv, CallsInv, CallsInv', NEW t \in Tasks, UNCHANGED calls,
           Skip(t) \/ Run(t) \/ PutToken(t) \/ CountOff(t)
    PROVE  StepsLeft' < StepsLeft
  <1>1. \A s \in Tasks : CallAhead(s)' = CallAhead(s)
    BY DEF CallAhead, calls
  <1>2. phase[t] # "idle" => t \in working
    BY DEF CallsInv, InsideTask
  <1>3. MaxTries \in Nat
    BY CallsAssumption
  <1>4. caller' = caller
    BY DEF Skip, Run, PutToken, CountOff
  <1>5. Apart
    BY DEF IInv, PoolInv
  <1>6. \A s \in Tasks : s # t => TaskAhead(s)' = TaskAhead(s)
    BY <1>1 DEF TaskAhead, Skip, Run, PutToken, CountOff
  <1>7. TaskAhead(t)' < TaskAhead(t)
    <2>1. CASE Skip(t)
      BY <1>3, <1>5, <2>1 DEF TaskAhead, Skip, Apart, Holders
    <2>2. CASE Run(t)
      <3>1. CallAhead(t)' = 2 * MaxTries + 4
        BY <1>1, <1>2, <1>5, <2>2 DEF CallAhead, Run, Apart
      <3>2. TaskAhead(t)' = CallAhead(t)' /\ TaskAhead(t) = 2 * MaxTries + 5
        BY <1>5, <2>2 DEF TaskAhead, Run, Apart, Holders
      <3> QED
        BY <1>3, <3>1, <3>2
    <2>3. CASE PutToken(t)
      BY <1>3, <1>5, <2>3 DEF TaskAhead, PutToken, Apart, Holders
    <2>4. CASE CountOff(t)
      BY <1>3, <1>5, <2>4 DEF TaskAhead, CountOff, Apart, Holders
    <2> QED
      BY <2>1, <2>2, <2>3, <2>4
  <1> QED
    BY <1>4, <1>6, <1>7, TaskMoves

LEMMA SpawnLowers ==
    ASSUME IInv, CallsInv, CallsInv', Spawn, UNCHANGED calls PROVE StepsLeft' < StepsLeft
  <1>1. \A s \in Tasks : CallAhead(s)' = CallAhead(s)
    BY DEF CallAhead, calls
  <1>2. blocked \in Tasks /\ blocked' = NoTask /\ NoTask \notin Tasks /\ caller' = caller
    BY PoolAssumption DEF Spawn, IInv, PoolTypeOK
  <1>3. PICK t \in Tasks : t = blocked
    BY <1>2
  <1>0. t \notin Holders \cup left
    BY <1>3 DEF IInv, PoolInv, Apart
  <1>4. TaskAhead(t) = 2 * MaxTries + 6
    BY <1>0, <1>3 DEF TaskAhead, Holders
  <1>5. TaskAhead(t)' = 2 * MaxTries + 5
    <2>1. /\ t # blocked' /\ t \in spawned'
          /\ t \notin working' /\ t \notin leaving' /\ t \notin left'
      BY <1>0, <1>2, <1>3 DEF Spawn, Holders
    <2> QED
      BY <2>1 DEF TaskAhead
  <1>6. \A s \in Tasks : s # t => TaskAhead(s)' = TaskAhead(s)
    BY <1>1, <1>2, <1>3 DEF TaskAhead, Spawn
  <1> QED
    BY <1>2, <1>4, <1>5, <1>6, CallsAssumption, TaskMoves

\* A task that returns, with a result or without a call.
LEMMA ReturnLowers ==
    ASSUME IInv, CallsInv, CallsInv', NEW t \in Tasks, NEW err, Return(t, err),
           UNCHANGED calls \/ Calls!End(t), phase[t] \notin {"asking", "pausing"}
    PROVE  StepsLeft' < StepsLeft
  <1>1. \A s \in Tasks : s # t => phase'[s] = phase[s] /\ try'[s] = try[s]
    BY DEF calls, Calls!End, CallsInv, CallsTypeOK
  <1>2. \A s \in Tasks : s # t => TaskAhead(s)' = TaskAhead(s)
    BY <1>1 DEF TaskAhead, CallAhead, Return
  <1>3. Apart
    BY DEF IInv, PoolInv
  <1>4. CallAhead(t) \in {2 * MaxTries + 4, 3}
    BY DEF CallAhead
  <1>5. TaskAhead(t) = CallAhead(t) /\ TaskAhead(t)' = 2
    BY <1>3 DEF TaskAhead, Return, Apart, Holders
  <1>6. TaskAhead(t)' < TaskAhead(t)
    BY <1>4, <1>5, CallsAssumption
  <1>7. caller' = caller
    BY DEF Return
  <1> QED
    BY <1>2, <1>6, <1>7, TaskMoves

LEMMA CallLowers ==
    ASSUME IInv, CallsInv, CallsInv', NEW t \in Tasks, t \in working, UNCHANGED vars,
           Calls!Begin(t) \/ Calls!Own(t) \/ Calls!FFLogs(t)
    PROVE  StepsLeft' < StepsLeft
  <1> USE DEF CallsInv, CallsTypeOK
  <1>1. Apart
    BY DEF IInv, PoolInv
  <1>2. /\ caller' = caller /\ blocked' = blocked /\ working' = working
        /\ spawned' = spawned /\ leaving' = leaving /\ left' = left
    BY DEF vars, held
  <1>3. TaskAhead(t) = CallAhead(t) /\ TaskAhead(t)' = CallAhead(t)'
    BY <1>1, <1>2 DEF TaskAhead, Apart, Holders
  <1>4. \A s \in Tasks : s # t => phase'[s] = phase[s] /\ try'[s] = try[s]
    BY DEF Calls!Begin, Calls!Own, Calls!FFLogs, Calls!ContextError, Calls!Resume,
           Calls!Answered, Calls!Failed
  <1>5. \A s \in Tasks : s # t => TaskAhead(s)' = TaskAhead(s)
    BY <1>2, <1>4 DEF TaskAhead, CallAhead
  <1>6. MaxTries \in Nat /\ try[t] \in 0 .. MaxTries
    BY CallsAssumption
  <1>7. CallAhead(t)' < CallAhead(t)
    <2>1. CASE Calls!Begin(t)
      BY <1>6, <2>1 DEF Calls!Begin, CallAhead
    <2>2. CASE Calls!ContextError(t) \/ Calls!Answered(t)
      BY <1>6, <2>2 DEF Calls!ContextError, Calls!Answered, CallAhead
    <2>3. CASE Calls!Resume(t)
      BY <1>6, <2>3 DEF Calls!Resume, CallAhead, TriesCounted
    <2>4. CASE Calls!Failed(t)
      BY <1>6, <2>4 DEF Calls!Failed, Calls!AfterError, CallAhead
    <2> QED
      BY <2>1, <2>2, <2>3, <2>4 DEF Calls!Own, Calls!FFLogs
  <1> QED
    BY <1>2, <1>3, <1>5, <1>7, TaskMoves

LEMMA JoinedLowers ==
    ASSUME IInv, CallsInv, Joined, UNCHANGED calls PROVE StepsLeft' < StepsLeft
  <1>1. Ahead' = Ahead
    BY DEF Ahead, TaskAhead, CallAhead, Joined, held, calls
  <1>2. Steps(Ahead)' = Steps(Ahead)
    BY <1>1 DEF Steps
  <1>3. Cardinality(Steps(Ahead)) \in Nat
    BY StepsCounted
  <1> QED
    BY <1>2, <1>3 DEF StepsLeft, Joined

LEMMA WorkIsWorkedOff ==
    ASSUME IInv, CallsInv, CallsInv', PNext
    PROVE  HandsOver \/ Abort \/ ParentCancels \/ StepsLeft' < StepsLeft
  <1>1. ASSUME NEW t \in Tasks, LeaveAlone(t) \/ ReturnCall(t) PROVE StepsLeft' < StepsLeft
    BY <1>1, ReturnLowers DEF LeaveAlone, ReturnCall, Calls!End
  <1>2. ASSUME NEW t \in Tasks, Call(t) \/ (Calls!Own(t) /\ UNCHANGED vars) \/ Network(t)
        PROVE  StepsLeft' < StepsLeft
    <2>1. t \in working
      BY <1>2
      DEF Call, Network, CallsInv, InsideTask, Calls!Own, Calls!FFLogs, Calls!ContextError,
          Calls!Resume, Calls!Answered, Calls!Failed
    <2> QED
      BY <1>2, <2>1, CallLowers DEF Call, Network
  <1>3. ASSUME NEW t \in Tasks, Task(t) \/ Network(t) PROVE StepsLeft' < StepsLeft
    BY <1>1, <1>2, <1>3, PoolStepLowers DEF Task
  <1> QED
    BY <1>3, SpawnLowers, JoinedLowers DEF PNext, HandsOver

\* While there is work, somebody can go on: FFLogs only if the context is not done.
LEMMA SomeoneCan ==
    ASSUME IInv, CallsInv
    PROVE  \/ CallerCan \/ \E t \in Tasks : TaskCan(t)
           \/ ~CtxDone /\ \E t \in Tasks : NetworkCan(t)
  <1>1. /\ IsFiniteSet(Holders) /\ tokens + Cardinality(Holders) = Workers
        /\ IsFiniteSet(InFlight) /\ wg = Cardinality(InFlight)
        /\ tokens \in 0 .. Workers /\ Workers \in Nat \ {0}
    BY PoolAssumption DEF IInv, PoolInv, PoolTypeOK, TokensKept, WaitGroupCounts
  <1>2. /\ Cardinality(Holders) \in Nat
        /\ Cardinality(Holders) = 0 <=> Holders = {}
        /\ wg = 0 <=> InFlight = {}
    BY <1>1, FS_CardinalityType, FS_EmptySet
  <1>3. Holders \subseteq Tasks /\ left \subseteq Tasks
    BY DEF IInv, PoolTypeOK, Holders
  <1>4. ASSUME NEW t \in Holders
        PROVE  TaskCan(t) \/ (~CtxDone /\ NetworkCan(t))
    BY <1>1, <1>2 DEF TaskCan, NetworkCan, Holders
  <1>5. CASE Holders # {}
    BY <1>3, <1>4, <1>5 DEF Holders
  <1>6. CASE Holders = {} /\ wg # 0
    <2>1. tokens > 0 /\ InFlight # {}
      BY <1>1, <1>2, <1>6
    <2>2. left # {} \/ blocked # NoTask
      BY <1>6, <2>1 DEF InFlight
    <2> QED
      BY <1>3, <2>1, <2>2 DEF TaskCan, CallerCan
  <1> QED
    BY <1>5, <1>6 DEF CallerCan

-----------------------------------------------------------------------------
(* The theorems. *)

\* A call is inside its task, counts its tries, and fails for a reason
\* (client.go:38-112).
THEOREM CallsInvariance == PSpec => []CallsInv
  BY CallsStart, CallsStep, PTL DEF PSpec

\* A pool whose tasks call FFLogs is a pool (parallel.go:46-78).
THEOREM CallsUseThePool == PSpec => Spec
  <1>1. PInit => Init
    BY DEF PInit
  <1>2. CallsInv /\ [PNext]_poolVars => [Next]_vars
    BY PoolStepOfCalls DEF CallsInv
  <1> QED
    BY <1>1, <1>2, CallsInvariance, PTL DEF PSpec, Spec

LEMMA PoolHolds == PSpec => []IInv
  <1>1. PoolTypeOK /\ PoolInv => IInv
    BY DEF IInv
  <1> QED
    BY <1>1, CallsUseThePool, PoolInvariance, PTL

\* So its goroutines never block on their token, and Wait leaves none behind
\* (parallel.go:52, 74-78).
THEOREM CallsJoin == PSpec => [](TokenGoesBack /\ JoinsAll)
  BY CallsUseThePool, TokensGoBack, WaitJoinsAll, PTL

\* A call that succeeds hands over exactly one complete answer, one that fails none
\* (client.go:38-57, 102-109).
THEOREM CallsAnswerOnce == PSpec => []OneAnswerPerCall
  <1>1. CallsInv => OneAnswerPerCall
    BY DEF CallsInv
  <1> QED
    BY <1>1, CallsInvariance, PTL

\* No request is under way when Wait returns: what an answer is written to is the
\* caller's again (client.go:59-112, parallel.go:74-78).
THEOREM WaitJoinsCalls == PSpec => []JoinsCalls
  <1>1. CallsInv /\ JoinsAll => JoinsCalls
    BY DEF CallsInv, InsideTask, JoinsAll, JoinsCalls, InFlight, Holders
  <1> QED
    BY <1>1, CallsInvariance, CallsJoin, PTL

\* Each step of a task, of its call and of FFLogs, and the end of a Wait, lowers a number:
\* between two things that the caller hands over there are finitely many steps, whatever
\* FFLogs answers (client.go:38-112, parallel.go:46-78).
THEOREM WorkEnds ==
    PSpec => /\ [](StepsLeft \in Nat)
             /\ [][HandsOver \/ Abort \/ ParentCancels \/ StepsLeft' < StepsLeft]_poolVars
  <1>1. IInv /\ CallsInv /\ CallsInv' /\ [PNext]_poolVars
          => [HandsOver \/ Abort \/ ParentCancels \/ StepsLeft' < StepsLeft]_poolVars
    BY WorkIsWorkedOff
  <1>2. IInv /\ CallsInv => StepsLeft \in Nat
    BY StepsCounted DEF StepsLeft
  <1> QED
    BY <1>1, <1>2, PoolHolds, CallsInvariance, PTL DEF PSpec

\* A caller in Wait that cannot return yet has a task that can go on; once the context
\* is done, one that does not need FFLogs for it (client.go:46-53, 88;
\* parallel.go:46-78).
THEOREM WaitNeverSticks ==
    PSpec => [](caller = "joining" =>
                  \/ CallerCan \/ \E t \in Tasks : TaskCan(t)
                  \/ ~CtxDone /\ \E t \in Tasks : NetworkCan(t))
  BY SomeoneCan, PoolHolds, CallsInvariance, PTL
=============================================================================
