------------------------- MODULE FetchRoundsProofs -------------------------
(***************************************************************************)
(* For any list, batch size, number of tries and of workers: the rounds    *)
(* use the pool as ParallelPool says, an entry has one owner at a time,    *)
(* and the result is earned.                                               *)
(*                                                                         *)
(* The scan and the goroutines share the entries without a lock.  What     *)
(* keeps them apart is the order of the scan: what is handed over is       *)
(* behind it, and what it collects is not handed over yet.  That nothing   *)
(* is in flight when a round starts comes from the pool, whose lemmas are  *)
(* used here for its instance.                                             *)
(***************************************************************************)
EXTENDS FetchRounds, FiniteSetTheorems, TLAPS

Proved == INSTANCE ParallelPoolProofs WITH Tasks <- Batches, NoTask <- NoBatch

\* The caller is in pp.Wait, or in pp.Do, only where the code of the round is.
CallersPlace ==
    /\ pc = "wait" <=> caller = "joining"
    /\ pc # "scan" => query = {} /\ blocked = NoBatch

\* Batches are numbered in the order of the scan, each with an entry of its own.
Numbered ==
    /\ Pool!InFlight \subseteq 1 .. qCount
    /\ query \subseteq 1 .. next - 1
    /\ IsFiniteSet(query)
    /\ qCount + Cardinality(query) <= next - 1

\* Only a batch that was answered and runs has entries to process, of its own.
Answered ==
    \A b \in Batches :
        /\ pending[b] \subseteq batch[b]
        /\ pending[b] # {} => b \in working /\ b \in called

\* What is collected, asked for, or waits to be processed is open.
AskedIsOpen ==
    /\ \A t \in query : ~Done(t)
    /\ \A b \in Batches :
         /\ b \in Pool!InFlight /\ b \notin called => \A t \in batch[b] : ~Done(t)
         /\ \A t \in pending[b] : ~Done(t)

\* An error ends the fetch with its round, and a scan that hands nothing over has
\* passed only entries that are done or had their tries.
Fruitless ==
    /\ pc \in {"round", "true"} => ~failed
    /\ pc = "scan" /\ qCount = 0 =>
         /\ ~failed
         /\ \A t \in 1 .. next - 1 : t \in query \/ ~Eligible(t)

RoundsInv ==
    /\ RoundsTypeOK /\ Pool!PoolInv
    /\ CallersPlace /\ Numbered /\ Answered /\ AskedIsOpen /\ Fruitless
    /\ EntriesHaveOneOwner /\ ResultIsEarned

-----------------------------------------------------------------------------
(* The pool of the rounds is the one that ParallelPoolProofs proves about. *)

LEMMA PoolInstance == Proved!PoolAssumption
  BY RoundsAssumption DEF Proved!PoolAssumption, Batches, NoBatch

LEMMA SetOperators ==
    /\ \A S : Pool!IsFiniteSet(S) <=> IsFiniteSet(S)
    /\ \A S : Proved!IsFiniteSet(S) <=> IsFiniteSet(S)
    /\ \A S : Pool!Cardinality(S) = Cardinality(S)
    /\ \A S : Proved!Cardinality(S) = Cardinality(S)
  <1>1. \A S : Pool!Cardinality(S) = Cardinality(S)
    BY Zenon DEF Pool!Cardinality, Cardinality
  <1>2. \A S : Proved!Cardinality(S) = Cardinality(S)
    BY Zenon DEF Proved!Cardinality, Cardinality
  <1> QED
    BY <1>1, <1>2 DEF Pool!IsFiniteSet, Proved!IsFiniteSet, IsFiniteSet

LEMMA SamePoolInv == Pool!PoolTypeOK /\ Pool!PoolInv <=> Proved!IInv
  BY SetOperators
  DEF Proved!IInv, Pool!PoolInv, Proved!PoolInv, Pool!PoolTypeOK, Proved!PoolTypeOK,
      Pool!Apart, Proved!Apart, Pool!TokensKept, Proved!TokensKept, Pool!WaitGroupCounts,
      Proved!WaitGroupCounts, Pool!Holders, Proved!Holders, Pool!InFlight, Proved!InFlight

LEMMA SamePoolStep == [Pool!Next]_(Pool!vars) <=> [Proved!Next]_(Proved!vars)
  <1> USE DEF Pool!vars, Proved!vars, Pool!held, Proved!held, Pool!ctx, Proved!ctx
  <1>1. Pool!Caller <=> Proved!Caller
    BY DEF Pool!Caller, Proved!Caller, Pool!Do, Proved!Do, Pool!Spawn, Proved!Spawn,
           Pool!Join, Proved!Join, Pool!Joined, Proved!Joined, Pool!Reset, Proved!Reset,
           Pool!Abort, Proved!Abort, Pool!Counted, Proved!Counted,
           Pool!InFlight, Proved!InFlight, Pool!Holders, Proved!Holders
  <1>2. ASSUME NEW t PROVE Pool!Goroutine(t) <=> Proved!Goroutine(t)
    BY DEF Pool!Goroutine, Proved!Goroutine, Pool!Skip, Proved!Skip, Pool!Run, Proved!Run,
           Pool!Return, Proved!Return, Pool!PutToken, Proved!PutToken,
           Pool!CountOff, Proved!CountOff, Pool!CtxDone, Proved!CtxDone
  <1>3. Pool!ParentCancels <=> Proved!ParentCancels
    BY DEF Pool!ParentCancels, Proved!ParentCancels
  <1>4. Pool!vars = Proved!vars /\ Pool!vars' = Proved!vars'
    OBVIOUS
  <1> QED
    BY <1>1, <1>2, <1>3, <1>4 DEF Pool!Next, Proved!Next

\* Whatever the rounds do with the pool, its invariant stays.
LEMMA PoolKeeps ==
    ASSUME Pool!PoolTypeOK, Pool!PoolInv, [Pool!Next]_(Pool!vars)
    PROVE  Pool!PoolTypeOK' /\ Pool!PoolInv'
  <1>1. Proved!IInv /\ [Proved!Next]_(Proved!vars)
    BY SamePoolInv, SamePoolStep
  <1>2. Proved!IInv'
    BY <1>1, PoolInstance, Proved!PoolStep
  <1>3. (Pool!PoolTypeOK /\ Pool!PoolInv <=> Proved!IInv)'
    BY SamePoolInv, PTL
  <1> QED
    BY <1>2, <1>3

-----------------------------------------------------------------------------
(* What the steps of the pool do to its tasks. *)

\* The pool moves a batch on, or counts it off.
LEMMA PoolMoves ==
    ASSUME RoundsInv, NEW b \in Batches, PoolStep(b)
    PROVE  /\ Pool!InFlight' \subseteq Pool!InFlight
           /\ working \subseteq working'
           /\ blocked' \in {blocked, NoBatch}
           /\ UNCHANGED <<round, entries, answers, caller, failed>>
           /\ Pool!Next
  <1>1. UNCHANGED <<round, entries, answers>>
    BY DEF PoolStep
  <1>2. CASE blocked = b /\ Pool!Spawn
    <2>1. /\ spawned' = spawned \cup {blocked} /\ blocked' = NoBatch
          /\ UNCHANGED <<caller, working, leaving, left, failed>>
      BY <1>2 DEF Pool!Spawn
    <2>2. b # NoBatch
      BY DEF Batches, NoBatch
    <2>3. Pool!InFlight' \subseteq Pool!InFlight
      BY <1>2, <2>1, <2>2 DEF Pool!InFlight, Pool!Holders
    <2> QED
      BY <1>1, <1>2, <2>1, <2>3 DEF Pool!Next, Pool!Caller
  <1>3. CASE Pool!Skip(b) \/ Pool!Run(b)
    BY <1>1, <1>3 DEF Pool!Skip, Pool!Run, Pool!InFlight, Pool!Holders, Pool!Next, Pool!Goroutine
  <1>4. CASE Pool!PutToken(b) \/ Pool!CountOff(b)
    BY <1>1, <1>4
    DEF Pool!PutToken, Pool!CountOff, Pool!InFlight, Pool!Holders, Pool!Next, Pool!Goroutine
  <1> QED
    BY <1>2, <1>3, <1>4 DEF PoolStep

\* A batch that ends stays in flight until it is counted off.
LEMMA ReturnMoves ==
    ASSUME NEW b \in Batches, NEW err \in BOOLEAN, Pool!Return(b, err)
    PROVE  /\ Pool!InFlight' = Pool!InFlight
           /\ b \in working /\ working' = working \ {b}
           /\ b \in Pool!InFlight
           /\ UNCHANGED <<caller, blocked>>
           /\ failed' = (failed \/ err)
           /\ Pool!Next
  BY DEF Pool!Return, Pool!InFlight, Pool!Holders, Pool!Next, Pool!Goroutine

\* A step of the pool, or none.
PoolSteps == [Pool!Next]_(Pool!vars)

LEMMA WorkingIsInFlight == working \subseteq Pool!InFlight
  BY DEF Pool!InFlight, Pool!Holders

\* A batch that is handed over is the next one, and has an entry more than none.
LEMMA HandsOver ==
    ASSUME RoundsInv, NEW Q, HandOver(Q), qCount < N
    PROVE  /\ qCount + 1 \in Batches \ Pool!InFlight
           /\ Pool!InFlight' = Pool!InFlight \cup {qCount + 1}
           /\ blocked = NoBatch /\ blocked' = qCount + 1
           /\ UNCHANGED <<caller, working, failed, pending>>
           /\ qCount' = qCount + 1
           /\ batch' = [batch EXCEPT ![qCount + 1] = Q]
           /\ called' = called \ {qCount + 1}
           /\ query' = {}
           /\ Pool!Next
  <1>1. qCount \in Nat /\ Pool!InFlight \subseteq 1 .. qCount
    BY DEF RoundsInv, RoundsTypeOK, Numbered
  <1>2. qCount + 1 \in Batches \ Pool!InFlight /\ qCount + 1 # NoBatch
    BY <1>1, RoundsAssumption DEF Batches, NoBatch
  <1>3. Pool!Do(qCount + 1)
    BY DEF HandOver
  <1>4. Pool!InFlight' = Pool!InFlight \cup {qCount + 1}
    BY <1>2, <1>3 DEF Pool!Do, Pool!InFlight, Pool!Holders, Pool!held
  <1>5. Pool!Next
    BY <1>2, <1>3 DEF Pool!Next, Pool!Caller
  <1> QED
    BY <1>2, <1>3, <1>4, <1>5 DEF HandOver, Pool!Do, Pool!held

-----------------------------------------------------------------------------
(* The caller. *)

LEMMA RoundsStart == Init => RoundsInv
  <1> SUFFICES ASSUME Init PROVE RoundsInv
    OBVIOUS
  <1> USE RoundsAssumption
  <1>1. Proved!Init
    BY DEF Init, Pool!Init, Proved!Init
  <1>2. Pool!PoolTypeOK /\ Pool!PoolInv
    BY <1>1, PoolInstance, Proved!PoolInit, SamePoolInv
  <1>3. Pool!InFlight = {} /\ caller = "free" /\ blocked = NoBatch /\ ~failed
    BY DEF Init, Pool!Init, Pool!InFlight, Pool!Holders
  <1>4. IsFiniteSet({}) /\ Cardinality({}) = 0
    BY FS_EmptySet
  <1>5. RoundsTypeOK
    BY <1>2, <1>4 DEF Init, RoundsTypeOK, Todos
  <1>6. CallersPlace /\ Numbered /\ Answered /\ AskedIsOpen /\ Fruitless
    BY <1>3, <1>4 DEF Init, CallersPlace, Numbered, Answered, AskedIsOpen, Fruitless
  <1>7. EntriesHaveOneOwner /\ ResultIsEarned
    BY <1>3 DEF Init, EntriesHaveOneOwner, ResultIsEarned
  <1> QED
    BY <1>2, <1>5, <1>6, <1>7 DEF RoundsInv

LEMMA RoundKeeps ==
    ASSUME RoundsInv, Round PROVE RoundsInv' /\ PoolSteps
  <1> USE DEF RoundsInv
  <1>1. Pool!InFlight = {} /\ caller = "free" /\ blocked = NoBatch /\ query = {} /\ ~failed
    BY DEF Round, RoundsTypeOK, Pool!PoolTypeOK, CallersPlace, Fruitless, EntriesHaveOneOwner
  <1>2. Pool!InFlight' = {}
    BY <1>1 DEF Round, Pool!InFlight, Pool!Holders
  <1>3. Pool!Next
    BY <1>1 DEF Round, Pool!Next, Pool!Caller, Pool!Reset, Pool!held
  <1>4. Pool!PoolTypeOK' /\ Pool!PoolInv'
    BY <1>3, PoolKeeps DEF RoundsTypeOK
  <1>5. RoundsTypeOK'
    BY <1>4, RoundsAssumption DEF Round, RoundsTypeOK, entries, answers
  <1>6. IsFiniteSet({}) /\ Cardinality({}) = 0
    BY FS_EmptySet
  <1>7. CallersPlace' /\ Numbered' /\ Answered' /\ AskedIsOpen' /\ Fruitless'
    BY <1>1, <1>2, <1>6
    DEF Round, CallersPlace, Numbered, Answered, AskedIsOpen, Fruitless, Done, entries, answers
  <1>8. EntriesHaveOneOwner' /\ ResultIsEarned'
    BY <1>2 DEF Round, EntriesHaveOneOwner, ResultIsEarned
  <1> QED
    BY <1>3, <1>4, <1>5, <1>7, <1>8 DEF PoolSteps

LEMMA Behind ==
    ASSUME NEW n \in Nat, NEW m \in Nat, NEW S, S \subseteq 1 .. n - 1
    PROVE  S \cap (n .. m) = {}
  OBVIOUS

\* A batch of entries that the scan has passed and no other batch has.
LEMMA HandOverKeeps ==
    ASSUME RoundsInv, pc = "scan", UNCHANGED <<pc, strict, open>>,
           NEW Q, HandOver(Q), Q # {}, Q \subseteq Todos, IsFiniteSet(Q),
           next' \in next .. N + 1, Q \subseteq 1 .. next' - 1,
           qCount + Cardinality(Q) <= next' - 1,
           \A t \in Q : ~Done(t), \A b \in Pool!InFlight : batch[b] \cap Q = {},
           retries' \in [Todos -> 0 .. MaxTries]
    PROVE  RoundsInv' /\ PoolSteps
  <1> USE DEF RoundsInv
  <1>1. /\ N \in Nat /\ qCount \in Nat /\ next \in Nat \ {0} /\ Cardinality(Q) \in Nat \ {0}
        /\ next' \in Nat /\ next <= next' /\ next' <= N + 1
    <2>1. N \in Nat /\ qCount \in Nat /\ next \in Nat \ {0}
      BY RoundsAssumption DEF RoundsTypeOK
    <2>2. Cardinality(Q) \in Nat \ {0}
      BY FS_CardinalityType, FS_EmptySet
    <2> QED
      BY <2>1, <2>2
  <1>2. qCount < N
    BY <1>1
  <1>3. /\ qCount + 1 \in Batches \ Pool!InFlight
        /\ Pool!InFlight' = Pool!InFlight \cup {qCount + 1}
        /\ blocked = NoBatch /\ blocked' = qCount + 1
        /\ UNCHANGED <<caller, working, failed, pending>>
        /\ qCount' = qCount + 1
        /\ batch' = [batch EXCEPT ![qCount + 1] = Q]
        /\ called' = called \ {qCount + 1}
        /\ query' = {}
        /\ Pool!Next
    BY <1>2, HandsOver
  <1>4. Pool!PoolTypeOK' /\ Pool!PoolInv'
    BY <1>3, PoolKeeps DEF RoundsTypeOK
  <1>5. IsFiniteSet({}) /\ Cardinality({}) = 0
    BY FS_EmptySet
  <1>6. RoundsTypeOK'
    BY <1>2, <1>3, <1>4, <1>5, RoundsAssumption DEF RoundsTypeOK
  <1>7. pending[qCount + 1] = {} /\ qCount + 1 \notin working
    BY <1>3, WorkingIsInFlight DEF Answered
  <1>8. CallersPlace'
    BY <1>3 DEF CallersPlace
  <1>9. Numbered'
    <2>1. Pool!InFlight' \subseteq 1 .. qCount'
      BY <1>1, <1>3 DEF Numbered
    <2> QED
      BY <1>1, <1>3, <1>5, <2>1 DEF Numbered
  <1>10. Answered'
    BY <1>3, <1>7 DEF Answered, RoundsTypeOK
  <1>11. AskedIsOpen'
    BY <1>3, <1>7 DEF AskedIsOpen, RoundsTypeOK, Done
  <1>12. Fruitless'
    <2>1. qCount' # 0 /\ pc' = "scan"
      BY <1>1, <1>3
    <2> QED
      BY <2>1 DEF Fruitless
  <1>13. EntriesHaveOneOwner'
    <2>1. ASSUME NEW b \in Pool!InFlight' PROVE batch'[b] \cap (query' \cup next' .. N) = {}
      <3>1. CASE b = qCount + 1
        <4>1. batch'[b] = Q
          BY <1>3, <3>1 DEF RoundsTypeOK
        <4> QED
          BY <1>1, <1>3, <4>1, Behind
      <3>2. CASE b # qCount + 1
        <4>1. batch'[b] = batch[b] /\ batch[b] \cap next .. N = {}
          BY <1>3, <2>1, <3>2 DEF EntriesHaveOneOwner, RoundsTypeOK
        <4>2. next' .. N \subseteq next .. N
          BY <1>1
        <4> QED
          BY <1>3, <4>1, <4>2
      <3> QED
        BY <3>1, <3>2
    <2>2. \A a, b \in Pool!InFlight' : a # b => batch'[a] \cap batch'[b] = {}
      BY <1>3 DEF EntriesHaveOneOwner, RoundsTypeOK
    <2> QED
      BY <2>1, <2>2 DEF EntriesHaveOneOwner
  <1>14. ResultIsEarned'
    BY DEF ResultIsEarned
  <1> QED
    BY <1>3, <1>4, <1>6, <1>8, <1>9, <1>10, <1>11, <1>12, <1>13, <1>14 DEF PoolSteps

LEMMA ScanKeeps ==
    ASSUME RoundsInv, Scan PROVE RoundsInv' /\ PoolSteps
  <1> USE DEF RoundsInv
  <1>1. /\ pc = "scan" /\ blocked = NoBatch /\ next \in Todos /\ next' = next + 1
        /\ UNCHANGED <<pc, strict, open>>
    BY DEF Scan
  <1>2. /\ next \in 1 .. N /\ N \in Nat /\ next + 1 \in 1 .. N + 1 /\ query \subseteq 1 .. next - 1
        /\ IsFiniteSet(query) /\ Cardinality(query) \in Nat /\ qCount \in Nat
    BY <1>1, RoundsAssumption, FS_CardinalityType DEF RoundsTypeOK, Numbered, Todos
  <1>3. CASE ~Eligible(next)
    <2>1. UNCHANGED <<query, qCount, batch, retries, answers, poolVars>>
      BY <1>3 DEF Scan
    <2>2. Pool!InFlight' = Pool!InFlight
      BY <2>1 DEF poolVars, Pool!InFlight, Pool!Holders
    <2>3. PoolSteps /\ Pool!PoolTypeOK' /\ Pool!PoolInv'
      BY <2>1, PoolKeeps DEF RoundsTypeOK, PoolSteps, poolVars, Pool!vars, Pool!held, Pool!ctx
    <2>4. RoundsTypeOK'
      BY <1>1, <1>2, <2>1, <2>3 DEF RoundsTypeOK, answers
    <2>5. CallersPlace' /\ Numbered' /\ Answered' /\ AskedIsOpen'
      BY <1>1, <1>2, <2>1, <2>2
      DEF CallersPlace, Numbered, Answered, AskedIsOpen, Done, answers, poolVars
    <2>6. Fruitless'
      BY <1>1, <1>2, <1>3, <2>1 DEF Fruitless, Eligible, Done, poolVars
    <2>7. EntriesHaveOneOwner' /\ ResultIsEarned'
      BY <1>1, <1>2, <2>1, <2>2 DEF EntriesHaveOneOwner, ResultIsEarned
    <2> QED
      BY <2>3, <2>4, <2>5, <2>6, <2>7
  <1>4. CASE Eligible(next)
    <2> DEFINE Q == query \cup {next}
    <2>1. /\ retries' = [retries EXCEPT ![next] = @ + 1]
          /\ IF Cardinality(Q) = BatchSize
               THEN HandOver(Q)
               ELSE query' = Q /\ UNCHANGED <<qCount, batch, answers, poolVars>>
      BY <1>4 DEF Scan
    <2>2. retries' \in [Todos -> 0 .. MaxTries] /\ ~Done(next)
      BY <1>1, <1>4, <2>1, RoundsAssumption DEF RoundsTypeOK, Eligible
    <2>3. IsFiniteSet(Q) /\ Cardinality(Q) = Cardinality(query) + 1
      BY <1>2, FS_AddElement
    <2>4. Q \subseteq Todos /\ Q \subseteq 1 .. next /\ Q # {} /\ \A t \in Q : ~Done(t)
      BY <1>1, <1>2, <2>2 DEF RoundsTypeOK, AskedIsOpen
    <2>5. \A b \in Pool!InFlight : batch[b] \cap Q = {}
      BY <1>2 DEF EntriesHaveOneOwner
    <2>6. qCount + Cardinality(Q) <= next
      BY <1>2, <2>3 DEF Numbered
    <2>7. CASE Cardinality(Q) = BatchSize
      <3>1. HandOver(Q)
        BY <2>1, <2>7
      <3>2. next' \in next .. N + 1 /\ next' - 1 = next
        BY <1>1, <1>2
      <3> QED
        BY <1>1, <2>2, <2>3, <1>2, <2>4, <2>5, <2>6, <3>1, <3>2, HandOverKeeps
    <2>8. CASE Cardinality(Q) # BatchSize
      <3>1. query' = Q /\ UNCHANGED <<qCount, batch, answers, poolVars>>
        BY <2>1, <2>8
      <3>2. Pool!InFlight' = Pool!InFlight
        BY <3>1 DEF poolVars, Pool!InFlight, Pool!Holders
      <3>3. PoolSteps /\ Pool!PoolTypeOK' /\ Pool!PoolInv'
        BY <3>1, PoolKeeps DEF RoundsTypeOK, PoolSteps, poolVars, Pool!vars, Pool!held, Pool!ctx
      <3>4. RoundsTypeOK'
        BY <1>1, <1>2, <2>2, <2>3, <2>4, <2>8, <3>1, <3>3, RoundsAssumption
        DEF RoundsTypeOK, answers
      <3>5. CallersPlace' /\ Numbered' /\ Answered' /\ AskedIsOpen'
        <4>1. Numbered'
          BY <1>1, <1>2, <2>3, <2>4, <2>6, <3>1, <3>2 DEF Numbered
        <4>2. CallersPlace' /\ Answered' /\ AskedIsOpen'
          BY <1>1, <2>4, <3>1, <3>2 DEF CallersPlace, Answered, AskedIsOpen, Done, answers, poolVars
        <4> QED
          BY <4>1, <4>2
      <3>6. Fruitless'
        BY <1>1, <1>2, <2>1, <3>1 DEF Fruitless, Eligible, Done, poolVars, RoundsTypeOK, Todos
      <3>7. EntriesHaveOneOwner' /\ ResultIsEarned'
        BY <1>1, <1>2, <2>5, <3>1, <3>2 DEF EntriesHaveOneOwner, ResultIsEarned
      <3> QED
        BY <3>3, <3>4, <3>5, <3>6, <3>7
    <2> QED
      BY <2>7, <2>8
  <1> QED
    BY <1>3, <1>4

LEMMA RestKeeps ==
    ASSUME RoundsInv, Rest PROVE RoundsInv' /\ PoolSteps
  <1>1. /\ pc = "scan" /\ query # {} /\ HandOver(query) /\ UNCHANGED <<pc, next, entries>>
    BY DEF Rest, Scanned
  <1>2. /\ query \subseteq Todos /\ IsFiniteSet(query) /\ query \subseteq 1 .. next - 1
        /\ qCount + Cardinality(query) <= next - 1 /\ \A t \in query : ~Done(t)
        /\ \A b \in Pool!InFlight : batch[b] \cap query = {}
    BY DEF RoundsInv, RoundsTypeOK, Numbered, AskedIsOpen, EntriesHaveOneOwner
  <1>3. next \in next .. N + 1 /\ retries \in [Todos -> 0 .. MaxTries]
    BY RoundsAssumption DEF RoundsInv, RoundsTypeOK
  <1> QED
    BY <1>1, <1>2, <1>3, HandOverKeeps DEF entries

\* Wait returns when nothing is in flight.
LEMMA WaitKeeps ==
    ASSUME RoundsInv, Join \/ Joined PROVE RoundsInv' /\ PoolSteps
  <1> USE DEF RoundsInv
  <1>1. /\ Pool!Next /\ Pool!InFlight' = Pool!InFlight
        /\ UNCHANGED <<next, query, qCount, batch, entries, answers, blocked, working, failed>>
    BY DEF Join, Joined, Pool!Join, Pool!Joined, Pool!Next, Pool!Caller, Pool!InFlight,
           Pool!Holders, Pool!held
  <1>2. PoolSteps /\ Pool!PoolTypeOK' /\ Pool!PoolInv'
    BY <1>1, PoolKeeps DEF RoundsTypeOK, PoolSteps
  <1>3. query = {} /\ blocked = NoBatch
    BY DEF Join, Joined, Scanned, CallersPlace
  <1>4. CASE Join
    <2>1. pc = "scan" /\ qCount > 0 /\ pc' = "wait" /\ caller' = "joining"
      BY <1>4 DEF Join, Scanned, Pool!Join
    <2>2. RoundsTypeOK'
      BY <1>1, <1>2, <2>1 DEF RoundsTypeOK, entries, answers
    <2>3. CallersPlace' /\ Numbered' /\ Answered' /\ AskedIsOpen'
      BY <1>1, <1>3, <2>1
      DEF CallersPlace, Numbered, Answered, AskedIsOpen, Done, entries, answers
    <2>4. Fruitless' /\ EntriesHaveOneOwner' /\ ResultIsEarned'
      BY <1>1, <2>1 DEF Fruitless, EntriesHaveOneOwner, ResultIsEarned
    <2> QED
      BY <1>2, <2>2, <2>3, <2>4
  <1>5. CASE Joined
    <2>1. pc = "wait" /\ pc' = AfterWait /\ caller' = "free" /\ caller = "joining" /\ wg = 0
      BY <1>5 DEF Joined, Pool!Joined
    <2>2. Pool!InFlight = {}
      BY <2>1, SetOperators, FS_EmptySet DEF Pool!PoolInv, Pool!WaitGroupCounts
    <2>3. pc' \in {"round", "false"} /\ (pc' = "round" => ~failed) /\ (pc' = "false" => failed)
      BY <2>1 DEF AfterWait
    <2>4. RoundsTypeOK'
      BY <1>1, <1>2, <2>3 DEF RoundsTypeOK, entries, answers
    <2>5. CallersPlace' /\ Numbered' /\ Answered' /\ AskedIsOpen'
      BY <1>1, <1>3, <2>1, <2>3
      DEF CallersPlace, Numbered, Answered, AskedIsOpen, Done, entries, answers
    <2>6. Fruitless' /\ EntriesHaveOneOwner' /\ ResultIsEarned'
      BY <1>1, <2>2, <2>3 DEF Fruitless, EntriesHaveOneOwner, ResultIsEarned
    <2> QED
      BY <1>2, <2>4, <2>5, <2>6
  <1> QED
    BY <1>4, <1>5

\* A scan that hands nothing over has seen every entry done or tried in vain.
LEMMA SettleKeeps ==
    ASSUME RoundsInv, Settle PROVE RoundsInv' /\ PoolSteps
  <1> USE DEF RoundsInv
  <1>1. /\ pc = "scan" /\ blocked = NoBatch /\ next \notin Todos /\ query = {} /\ qCount = 0
        /\ pc' = Outcome
        /\ UNCHANGED <<next, query, qCount, batch, entries, answers, poolVars>>
    BY DEF Settle, Scanned
  <1>2. Pool!InFlight = {} /\ Pool!InFlight' = {}
    BY <1>1 DEF Numbered, poolVars, Pool!InFlight, Pool!Holders
  <1>3. PoolSteps /\ Pool!PoolTypeOK' /\ Pool!PoolInv'
    BY <1>1, PoolKeeps DEF RoundsTypeOK, PoolSteps, poolVars, Pool!vars, Pool!held, Pool!ctx
  <1>4. next = N + 1 /\ N \in Nat
    BY <1>1, RoundsAssumption DEF RoundsTypeOK, Todos
  <1>5. ~failed /\ \A t \in Todos : Done(t) \/ InVain(t)
    <2>1. ~failed /\ \A t \in Todos : ~Eligible(t)
      BY <1>1, <1>4 DEF Fruitless, Todos
    <2> QED
      BY <2>1, RoundsAssumption DEF Eligible, InVain, RoundsTypeOK
  <1>6. pc' \in {"true", "false"}
    BY <1>1 DEF Outcome
  <1>7. RoundsTypeOK'
    BY <1>1, <1>3, <1>6 DEF RoundsTypeOK, entries, answers
  <1>8. CallersPlace' /\ Numbered' /\ Answered' /\ AskedIsOpen'
    BY <1>1, <1>2, <1>6
    DEF CallersPlace, Numbered, Answered, AskedIsOpen, Done, entries, answers, poolVars
  <1>9. Fruitless' /\ EntriesHaveOneOwner'
    BY <1>1, <1>2, <1>5, <1>6 DEF Fruitless, EntriesHaveOneOwner, poolVars
  <1>10. ResultIsEarned'
    BY <1>1, <1>5 DEF Outcome, ResultIsEarned, InVain, Done, entries, poolVars
  <1> QED
    BY <1>3, <1>7, <1>8, <1>9, <1>10

-----------------------------------------------------------------------------
(* The goroutines. *)

LEMMA PoolStepKeeps ==
    ASSUME RoundsInv, NEW b \in Batches, PoolStep(b) PROVE RoundsInv' /\ PoolSteps
  <1> USE DEF RoundsInv
  <1>1. /\ Pool!InFlight' \subseteq Pool!InFlight /\ working \subseteq working'
        /\ blocked' \in {blocked, NoBatch}
        /\ UNCHANGED <<round, entries, answers, caller, failed>>
        /\ Pool!Next
    BY PoolMoves
  <1>2. Pool!PoolTypeOK' /\ Pool!PoolInv'
    BY <1>1, PoolKeeps DEF RoundsTypeOK
  <1>3. RoundsTypeOK'
    BY <1>1, <1>2 DEF RoundsTypeOK, round, entries, answers
  <1>4. CallersPlace' /\ Numbered' /\ Answered' /\ AskedIsOpen'
    BY <1>1
    DEF CallersPlace, Numbered, Answered, AskedIsOpen, Done, round, entries, answers
  <1>5. Fruitless'
    BY <1>1 DEF Fruitless, Eligible, Done, round, entries
  <1>6. EntriesHaveOneOwner' /\ ResultIsEarned'
    BY <1>1 DEF EntriesHaveOneOwner, ResultIsEarned, InVain, Done, round, entries
  <1> QED
    BY <1>1, <1>2, <1>3, <1>4, <1>5, <1>6 DEF PoolSteps

\* While a batch is in flight the fetch has not returned, and the scan knows of it.
LEMMA InFlightMeans ==
    ASSUME RoundsInv, NEW b \in Batches, b \in Pool!InFlight
    PROVE  pc \in {"scan", "wait"} /\ qCount # 0
  BY DEF RoundsInv, RoundsTypeOK, EntriesHaveOneOwner, Numbered

LEMMA ReturnKeeps ==
    ASSUME RoundsInv, NEW b \in Batches, LeftAlone(b) \/ CallFails(b) \/ Processed(b)
    PROVE  RoundsInv' /\ PoolSteps
  <1> USE DEF RoundsInv
  <1>1. PICK err \in BOOLEAN : Pool!Return(b, err)
    BY DEF LeftAlone, CallFails, Processed
  <1>2. /\ Pool!InFlight' = Pool!InFlight /\ b \in working /\ working' = working \ {b}
        /\ b \in Pool!InFlight
        /\ UNCHANGED <<caller, blocked>>
        /\ Pool!Next
    BY <1>1, ReturnMoves
  <1>3. UNCHANGED <<round, entries, answers>>
    BY DEF LeftAlone, CallFails, Processed
  <1>4. pending[b] = {}
    BY DEF LeftAlone, CallFails, Processed, Answered
  <1>5. Pool!PoolTypeOK' /\ Pool!PoolInv'
    BY <1>2, PoolKeeps DEF RoundsTypeOK
  <1>6. pc \in {"scan", "wait"} /\ qCount # 0
    BY <1>2, InFlightMeans
  <1>7. RoundsTypeOK'
    BY <1>3, <1>5 DEF RoundsTypeOK, round, entries, answers
  <1>8. CallersPlace' /\ Numbered' /\ Answered' /\ AskedIsOpen'
    BY <1>2, <1>3, <1>4
    DEF CallersPlace, Numbered, Answered, AskedIsOpen, Done, round, entries, answers
  <1>9. Fruitless' /\ EntriesHaveOneOwner' /\ ResultIsEarned'
    BY <1>2, <1>3, <1>6 DEF Fruitless, EntriesHaveOneOwner, ResultIsEarned, round, entries
  <1> QED
    BY <1>2, <1>5, <1>7, <1>8, <1>9 DEF PoolSteps

LEMMA AnswerKeeps ==
    ASSUME RoundsInv, NEW b \in Batches, CallAnswers(b) PROVE RoundsInv' /\ PoolSteps
  <1> USE DEF RoundsInv
  <1>1. /\ b \in working /\ b \notin called /\ called' = called \cup {b}
        /\ UNCHANGED <<round, entries, poolVars>>
    BY DEF CallAnswers
  <1>2. PICK A \in SUBSET batch[b] : pending' = [pending EXCEPT ![b] = A]
    BY DEF CallAnswers
  <1>3. Pool!InFlight' = Pool!InFlight /\ b \in Pool!InFlight
    BY <1>1, WorkingIsInFlight DEF poolVars, Pool!InFlight, Pool!Holders
  <1>4. PoolSteps /\ Pool!PoolTypeOK' /\ Pool!PoolInv'
    BY <1>1, PoolKeeps DEF RoundsTypeOK, PoolSteps, poolVars, Pool!vars, Pool!held, Pool!ctx
  <1>5. RoundsTypeOK'
    BY <1>1, <1>2, <1>4 DEF RoundsTypeOK, round, entries
  <1>6. CallersPlace' /\ Numbered' /\ Answered'
    BY <1>1, <1>2, <1>3
    DEF CallersPlace, Numbered, Answered, RoundsTypeOK, round, poolVars
  <1>7. AskedIsOpen'
    BY <1>1, <1>2, <1>3 DEF AskedIsOpen, Done, RoundsTypeOK, round, entries
  <1>8. Fruitless'
    BY <1>1 DEF Fruitless, Eligible, Done, round, entries, poolVars
  <1>9. EntriesHaveOneOwner' /\ ResultIsEarned'
    BY <1>1, <1>3
    DEF EntriesHaveOneOwner, ResultIsEarned, InVain, Done, round, entries, poolVars
  <1> QED
    BY <1>4, <1>5, <1>6, <1>7, <1>8, <1>9

\* An entry that is processed belongs to its batch and to nobody else.
LEMMA ProcessKeeps ==
    ASSUME RoundsInv, NEW b \in Batches, NEW t \in Todos, Process(b, t)
    PROVE  RoundsInv' /\ PoolSteps
  <1> USE DEF RoundsInv
  <1>1. /\ b \in working /\ t \in pending[b]
        /\ pending' = [pending EXCEPT ![b] = @ \ {t}]
        /\ open' = [open EXCEPT ![t] = @ - 1]
        /\ retries' = [retries EXCEPT ![t] = 0]
        /\ UNCHANGED <<round, strict, called, poolVars>>
    BY DEF Process
  <1>2. Pool!InFlight' = Pool!InFlight /\ b \in Pool!InFlight
    BY <1>1, WorkingIsInFlight DEF poolVars, Pool!InFlight, Pool!Holders
  <1>3. b \in called /\ t \in batch[b] /\ ~Done(t)
    BY <1>1 DEF Answered, AskedIsOpen
  <1>4. /\ t \notin query
        /\ \A a \in Pool!InFlight : a # b => t \notin batch[a]
        /\ \A a \in Batches : a # b => t \notin pending[a]
    BY <1>2, <1>3, WorkingIsInFlight DEF EntriesHaveOneOwner, Answered
  <1>5. PoolSteps /\ Pool!PoolTypeOK' /\ Pool!PoolInv'
    BY <1>1, PoolKeeps DEF RoundsTypeOK, PoolSteps, poolVars, Pool!vars, Pool!held, Pool!ctx
  <1>6. open' \in [Todos -> Nat] /\ retries' \in [Todos -> 0 .. MaxTries]
    BY <1>1, <1>3, RoundsAssumption DEF RoundsTypeOK, Done
  <1>7. RoundsTypeOK'
    BY <1>1, <1>5, <1>6 DEF RoundsTypeOK, round
  <1>8. CallersPlace' /\ Numbered' /\ Answered'
    BY <1>1, <1>2 DEF CallersPlace, Numbered, Answered, RoundsTypeOK, round, poolVars
  <1>9. AskedIsOpen'
    <2>1. \A s \in Todos \ {t} : Done(s)' <=> Done(s)
      BY <1>1 DEF Done, RoundsTypeOK
    <2>2. \A s \in query' : ~Done(s)'
      BY <1>1, <1>4, <2>1 DEF AskedIsOpen, RoundsTypeOK, round
    <2>3. \A a \in Batches :
             a \in Pool!InFlight' /\ a \notin called' => \A s \in batch'[a] : ~Done(s)'
      BY <1>1, <1>2, <1>3, <1>4, <2>1 DEF AskedIsOpen, RoundsTypeOK, round
    <2>4. \A a \in Batches : \A s \in pending'[a] : ~Done(s)'
      BY <1>1, <1>4, <2>1 DEF AskedIsOpen, RoundsTypeOK
    <2> QED
      BY <2>2, <2>3, <2>4 DEF AskedIsOpen
  <1>10. pc \in {"scan", "wait"} /\ qCount # 0
    BY <1>2, InFlightMeans
  <1>11. Fruitless' /\ EntriesHaveOneOwner' /\ ResultIsEarned'
    BY <1>1, <1>2, <1>10 DEF Fruitless, EntriesHaveOneOwner, ResultIsEarned, round
  <1> QED
    BY <1>5, <1>7, <1>8, <1>9, <1>11

LEMMA CancelKeeps ==
    ASSUME RoundsInv, Cancelled \/ UNCHANGED vars PROVE RoundsInv' /\ PoolSteps
  <1> USE DEF RoundsInv
  <1>1. /\ UNCHANGED <<round, entries, answers, caller, blocked, working, failed>>
        /\ Pool!InFlight' = Pool!InFlight
    BY DEF Cancelled, Pool!ParentCancels, Pool!InFlight, Pool!Holders, Pool!held, vars, poolVars
  <1>2. [Pool!Next]_(Pool!vars)
    BY DEF Cancelled, Pool!Next, vars, poolVars, Pool!vars, Pool!held, Pool!ctx
  <1>3. Pool!PoolTypeOK' /\ Pool!PoolInv'
    BY <1>2, PoolKeeps DEF RoundsTypeOK
  <1>4. RoundsTypeOK'
    BY <1>1, <1>3 DEF RoundsTypeOK, round, entries, answers
  <1>5. CallersPlace' /\ Numbered' /\ Answered' /\ AskedIsOpen'
    BY <1>1
    DEF CallersPlace, Numbered, Answered, AskedIsOpen, Done, round, entries, answers
  <1>6. Fruitless' /\ EntriesHaveOneOwner' /\ ResultIsEarned'
    BY <1>1
    DEF Fruitless, Eligible, EntriesHaveOneOwner, ResultIsEarned, InVain, Done, round, entries
  <1> QED
    BY <1>2, <1>3, <1>4, <1>5, <1>6 DEF PoolSteps

LEMMA RoundsStep ==
    ASSUME RoundsInv, [Next]_vars PROVE RoundsInv' /\ PoolSteps
  <1>1. CASE Caller
    BY <1>1, RoundKeeps, ScanKeeps, RestKeeps, WaitKeeps, SettleKeeps DEF Caller
  <1>2. ASSUME NEW b \in Batches, Goroutine(b) PROVE RoundsInv' /\ PoolSteps
    BY <1>2, PoolStepKeeps, ReturnKeeps, AnswerKeeps, ProcessKeeps DEF Goroutine
  <1>3. CASE Cancelled \/ UNCHANGED vars
    BY <1>3, CancelKeeps
  <1> QED
    BY <1>1, <1>2, <1>3 DEF Next

-----------------------------------------------------------------------------
(* The steps that a fetch can take. *)

\* The turns that entry t may still get: its tries after each answer, and in this one.
TurnsOf(t) == (MaxTries + 1) * open[t] + MaxTries - retries[t]
Turns      == [t \in Todos |-> TurnsOf(t)]

Below(w)  == UNION {{t} \X (1 .. w[t]) : t \in Todos}
TurnsLeft == Cardinality(Below(Turns))

\* What is left to do for the caller.  A round that handed something over is followed
\* by another one.
NextRound == IF qCount > 0 \/ query # {} THEN N + 3 ELSE 0
CallerLeft ==
    IF pc = "scan" THEN N + 4 - next + (IF query # {} THEN 7 ELSE 0) + NextRound
    ELSE IF pc = "wait" THEN N + 5
    ELSE IF pc = "round" THEN N + 4 ELSE 0

\* What is left to do for the batches that are in flight.
Weight(w, a, b, c, d, e) == w + 5 * a + 4 * b + 3 * c + 2 * d + e
PoolLeft ==
    Weight(IF blocked # NoBatch THEN 6 ELSE 0, Cardinality(spawned),
           Cardinality(working \ called), Cardinality(working \cap called),
           Cardinality(leaving), Cardinality(left))

StepsLeft == (N + 10) * TurnsLeft + CallerLeft + PoolLeft

LEMMA BelowCounted ==
    ASSUME NEW w \in [Todos -> Nat]
    PROVE  IsFiniteSet(Below(w)) /\ Cardinality(Below(w)) \in Nat
  <1> DEFINE f == [t \in Todos |-> {t} \X (1 .. w[t])]
             Rows == {f[t] : t \in Todos}
  <1>1. IsFiniteSet(Rows)
    <2>1. f \in Surjection(Todos, Rows)
      BY DEF Surjection
    <2>2. N \in Int /\ 1 \in Int
      BY RoundsAssumption
    <2>3. IsFiniteSet(Todos)
      BY <2>2, FS_Interval DEF Todos
    <2> QED
      BY <2>1, <2>3, FS_Surjection
  <1>2. \A row \in Rows : IsFiniteSet(row)
    <2> SUFFICES ASSUME NEW t \in Todos PROVE IsFiniteSet({t} \X (1 .. w[t]))
      OBVIOUS
    <2>1. IsFiniteSet({t})
      BY FS_Singleton
    <2>2. w[t] \in Int /\ 1 \in Int
      OBVIOUS
    <2>3. IsFiniteSet(1 .. w[t])
      BY <2>2, FS_Interval
    <2> QED
      BY <2>1, <2>3, FS_Product
  <1>3. IsFiniteSet(UNION Rows)
    BY <1>1, <1>2, FS_UNION
  <1>4. Below(w) = UNION Rows
    BY DEF Below
  <1> QED
    BY <1>3, <1>4, FS_CardinalityType

LEMMA BelowShrinks ==
    ASSUME NEW v \in [Todos -> Nat], NEW w \in [Todos -> Nat], NEW t \in Todos,
           v[t] < w[t], \A s \in Todos : s # t => v[s] = w[s]
    PROVE  Cardinality(Below(v)) < Cardinality(Below(w))
  <1>1. Below(v) \subseteq Below(w)
    BY DEF Below
  <1>2. <<t, w[t]>> \in Below(w) /\ <<t, w[t]>> \notin Below(v)
    BY DEF Below
  <1>3. /\ IsFiniteSet(Below(w))
        /\ Cardinality(Below(v)) \in Nat /\ Cardinality(Below(w)) \in Nat
    BY BelowCounted
  <1> QED
    BY <1>1, <1>2, <1>3, FS_Subset

LEMMA TurnsTyped ==
    ASSUME RoundsInv PROVE Turns \in [Todos -> Nat] /\ TurnsLeft \in Nat
  <1>1. ASSUME NEW t \in Todos PROVE TurnsOf(t) \in Nat
    <2>1. open[t] \in Nat /\ MaxTries \in Nat /\ retries[t] \in 0 .. MaxTries
      BY RoundsAssumption DEF RoundsInv, RoundsTypeOK
    <2>2. (MaxTries + 1) * open[t] \in Nat
      BY <2>1
    <2> QED
      BY <2>1, <2>2 DEF TurnsOf
  <1>2. Turns \in [Todos -> Nat]
    BY <1>1 DEF Turns
  <1> QED
    BY <1>2, BelowCounted DEF TurnsLeft

\* A turn that is taken, or renewed by an answer, is one less.
LEMMA TurnTaken ==
    ASSUME RoundsInv, RoundsInv', NEW t \in Todos,
           \/ retries' = [retries EXCEPT ![t] = @ + 1] /\ open' = open
           \/ /\ retries' = [retries EXCEPT ![t] = 0]
              /\ open' = [open EXCEPT ![t] = @ - 1]
    PROVE  TurnsLeft' < TurnsLeft
  <1>1. /\ open \in [Todos -> Nat] /\ retries \in [Todos -> 0 .. MaxTries] /\ MaxTries \in Nat
        /\ open' \in [Todos -> Nat] /\ retries' \in [Todos -> 0 .. MaxTries]
    BY RoundsAssumption DEF RoundsInv, RoundsTypeOK
  <1>2. Turns \in [Todos -> Nat] /\ Turns' \in [Todos -> Nat]
    <2>1. (Turns \in [Todos -> Nat])'
      BY TurnsTyped, PTL
    <2> QED
      BY <2>1, TurnsTyped
  <1>3. Turns'[t] < Turns[t]
    <2>1. CASE retries' = [retries EXCEPT ![t] = @ + 1] /\ open' = open
      <3>1. retries'[t] = retries[t] + 1 /\ open'[t] = open[t]
        BY <1>1, <2>1
      <3>2. (MaxTries + 1) * open[t] \in Nat
        BY <1>1
      <3> QED
        BY <1>1, <3>1, <3>2 DEF Turns, TurnsOf
    <2>2. CASE /\ retries' = [retries EXCEPT ![t] = 0]
               /\ open' = [open EXCEPT ![t] = @ - 1]
      <3>1. retries'[t] = 0 /\ open'[t] = open[t] - 1 /\ open'[t] \in Nat /\ open[t] \in Nat
        BY <1>1, <2>2
      <3>2. (MaxTries + 1) * open[t] = (MaxTries + 1) * (open[t] - 1) + (MaxTries + 1)
        BY <1>1, <3>1
      <3>3. (MaxTries + 1) * (open[t] - 1) \in Nat
        BY <1>1, <3>1
      <3>4. /\ Turns[t] = (MaxTries + 1) * (open[t] - 1) + (MaxTries + 1) + MaxTries - retries[t]
            /\ Turns'[t] = (MaxTries + 1) * (open[t] - 1) + MaxTries - 0
        BY <3>1, <3>2 DEF Turns, TurnsOf
      <3>5. retries[t] \in 0 .. MaxTries
        BY <1>1
      <3> QED
        BY <1>1, <3>3, <3>4, <3>5
    <2> QED
      BY <2>1, <2>2
  <1>4. ASSUME NEW s \in Todos, s # t PROVE Turns'[s] = Turns[s]
    BY <1>1, <1>4 DEF Turns, TurnsOf
  <1> QED
    BY <1>2, <1>3, <1>4, BelowShrinks DEF TurnsLeft

LEMMA TurnsStay ==
    ASSUME UNCHANGED <<retries, open>> PROVE TurnsLeft' = TurnsLeft
  BY DEF TurnsLeft, Turns, TurnsOf, Below

\* The batches in flight are finitely many, and each is in one place.
LEMMA PlacesFinite ==
    ASSUME RoundsInv
    PROVE  /\ IsFiniteSet(spawned) /\ Cardinality(spawned) \in Nat
           /\ IsFiniteSet(working \ called) /\ Cardinality(working \ called) \in Nat
           /\ IsFiniteSet(working \cap called) /\ Cardinality(working \cap called) \in Nat
           /\ IsFiniteSet(leaving) /\ Cardinality(leaving) \in Nat
           /\ IsFiniteSet(left) /\ Cardinality(left) \in Nat
  <1>1. IsFiniteSet(Pool!InFlight)
    BY SetOperators DEF RoundsInv, Pool!PoolInv, Pool!WaitGroupCounts
  <1>2. ASSUME NEW S, S \subseteq Pool!InFlight PROVE IsFiniteSet(S) /\ Cardinality(S) \in Nat
    BY <1>1, <1>2, FS_Subset, FS_CardinalityType
  <1>3. /\ spawned \subseteq Pool!InFlight /\ working \ called \subseteq Pool!InFlight
        /\ working \cap called \subseteq Pool!InFlight /\ leaving \subseteq Pool!InFlight
        /\ left \subseteq Pool!InFlight
    BY DEF Pool!InFlight, Pool!Holders
  <1> QED
    BY <1>2, <1>3

LEMMA PoolLeftTyped == ASSUME RoundsInv PROVE PoolLeft \in Nat
  BY PlacesFinite DEF PoolLeft, Weight

\* A batch that moves on weighs less.
LEMMA Lighter ==
    ASSUME NEW w \in Nat, NEW a \in Nat, NEW b \in Nat, NEW c \in Nat, NEW d \in Nat, NEW e \in Nat
    PROVE  /\ Weight(0, a + 1, b, c, d, e) < Weight(6, a, b, c, d, e)
           /\ Weight(w, a - 1, b, c, d + 1, e) < Weight(w, a, b, c, d, e)
           /\ Weight(w, a - 1, b + 1, c, d, e) < Weight(w, a, b, c, d, e)
           /\ Weight(w, a - 1, b, c + 1, d, e) < Weight(w, a, b, c, d, e)
           /\ Weight(w, a, b - 1, c + 1, d, e) < Weight(w, a, b, c, d, e)
           /\ Weight(w, a, b - 1, c, d + 1, e) < Weight(w, a, b, c, d, e)
           /\ Weight(w, a, b, c - 1, d + 1, e) < Weight(w, a, b, c, d, e)
           /\ Weight(w, a, b, c, d - 1, e + 1) < Weight(w, a, b, c, d, e)
           /\ Weight(w, a, b, c, d, e - 1) < Weight(w, a, b, c, d, e)
  BY DEF Weight

LEMMA Heavier ==
    ASSUME NEW a \in Nat, NEW b \in Nat, NEW c \in Nat, NEW d \in Nat, NEW e \in Nat
    PROVE  Weight(6, a, b, c, d, e) = Weight(0, a, b, c, d, e) + 6
  BY DEF Weight

LEMMA Enters ==
    ASSUME NEW S, IsFiniteSet(S), NEW b, b \notin S
    PROVE  Cardinality(S \cup {b}) = Cardinality(S) + 1
  BY FS_AddElement

LEMMA LeavesSet ==
    ASSUME NEW S, IsFiniteSet(S), NEW b, b \in S
    PROVE  Cardinality(S \ {b}) = Cardinality(S) - 1
  BY FS_RemoveElement

LEMMA PoolStepLowers ==
    ASSUME RoundsInv, NEW b \in Batches, PoolStep(b)
    PROVE  PoolLeft' < PoolLeft
  <1> USE PlacesFinite, Enters, LeavesSet, Lighter DEF PoolLeft
  <1>1. called' = called /\ Pool!Apart
    BY DEF PoolStep, answers, RoundsInv, Pool!PoolInv
  <1>2. CASE blocked = b /\ Pool!Spawn
    <2>1. b \notin spawned /\ b # NoBatch
      BY <1>1, <1>2 DEF Pool!Apart, Pool!Holders, Pool!Spawn
    <2>2. /\ spawned' = spawned \cup {b} /\ blocked' = NoBatch
          /\ UNCHANGED <<working, leaving, left>>
      BY <1>2 DEF Pool!Spawn
    <2>3. Cardinality(spawned') = Cardinality(spawned) + 1
      BY <2>1, <2>2
    <2> QED
      BY <1>1, <1>2, <2>1, <2>2, <2>3
  <1>3. CASE Pool!Skip(b)
    <2>1. /\ b \in spawned /\ b \notin leaving
          /\ spawned' = spawned \ {b} /\ leaving' = leaving \cup {b}
          /\ UNCHANGED <<blocked, working, left>>
      BY <1>1, <1>3 DEF Pool!Skip, Pool!Apart
    <2>2. /\ Cardinality(spawned') = Cardinality(spawned) - 1
          /\ Cardinality(leaving') = Cardinality(leaving) + 1
      BY <2>1
    <2> QED
      BY <1>1, <2>1, <2>2
  <1>4. CASE Pool!Run(b)
    <2>1. /\ b \in spawned /\ b \notin working
          /\ spawned' = spawned \ {b} /\ working' = working \cup {b}
          /\ UNCHANGED <<blocked, leaving, left>>
      BY <1>1, <1>4 DEF Pool!Run, Pool!Apart
    <2>2. CASE b \in called
      <3>1. /\ (working \cap called)' = (working \cap called) \cup {b}
            /\ (working \ called)' = working \ called
        BY <1>1, <2>1, <2>2
      <3>2. /\ Cardinality((working \cap called)') = Cardinality(working \cap called) + 1
            /\ Cardinality(spawned') = Cardinality(spawned) - 1
        BY <2>1, <3>1
      <3> QED
        BY <2>1, <3>1, <3>2
    <2>3. CASE b \notin called
      <3>1. /\ (working \cap called)' = working \cap called
            /\ (working \ called)' = (working \ called) \cup {b}
        BY <1>1, <2>1, <2>3
      <3>2. /\ Cardinality((working \ called)') = Cardinality(working \ called) + 1
            /\ Cardinality(spawned') = Cardinality(spawned) - 1
        BY <2>1, <3>1
      <3> QED
        BY <2>1, <3>1, <3>2
    <2> QED
      BY <2>2, <2>3
  <1>5. CASE Pool!PutToken(b)
    <2>1. /\ b \in leaving /\ b \notin left
          /\ leaving' = leaving \ {b} /\ left' = left \cup {b}
          /\ UNCHANGED <<blocked, spawned, working>>
      BY <1>1, <1>5 DEF Pool!PutToken, Pool!Apart
    <2>2. /\ Cardinality(leaving') = Cardinality(leaving) - 1
          /\ Cardinality(left') = Cardinality(left) + 1
      BY <2>1
    <2> QED
      BY <1>1, <2>1, <2>2
  <1>6. CASE Pool!CountOff(b)
    <2>1. /\ b \in left /\ left' = left \ {b}
          /\ UNCHANGED <<blocked, spawned, working, leaving>>
      BY <1>6 DEF Pool!CountOff
    <2>2. Cardinality(left') = Cardinality(left) - 1
      BY <2>1
    <2> QED
      BY <1>1, <2>1, <2>2
  <1> QED
    BY <1>2, <1>3, <1>4, <1>5, <1>6 DEF PoolStep

LEMMA ReturnLowers ==
    ASSUME RoundsInv, NEW b \in Batches, NEW err \in BOOLEAN, Pool!Return(b, err),
           called' = called
    PROVE  PoolLeft' < PoolLeft
  <1> USE PlacesFinite, Enters, LeavesSet, Lighter DEF PoolLeft
  <1>1. /\ b \in working /\ b \notin leaving
        /\ working' = working \ {b} /\ leaving' = leaving \cup {b}
        /\ UNCHANGED <<blocked, spawned, left>>
    BY DEF Pool!Return, RoundsInv, Pool!PoolInv, Pool!Apart
  <1>2. CASE b \in called
    <2>1. /\ (working \cap called)' = (working \cap called) \ {b}
          /\ (working \ called)' = working \ called
      BY <1>1, <1>2
    <2>2. /\ Cardinality((working \cap called)') = Cardinality(working \cap called) - 1
          /\ Cardinality(leaving') = Cardinality(leaving) + 1
      BY <1>1, <1>2, <2>1
    <2> QED
      BY <1>1, <2>1, <2>2
  <1>3. CASE b \notin called
    <2>1. /\ (working \cap called)' = working \cap called
          /\ (working \ called)' = (working \ called) \ {b}
      BY <1>1, <1>3
    <2>2. /\ Cardinality((working \ called)') = Cardinality(working \ called) - 1
          /\ Cardinality(leaving') = Cardinality(leaving) + 1
      BY <1>1, <1>3, <2>1
    <2> QED
      BY <1>1, <2>1, <2>2
  <1> QED
    BY <1>2, <1>3

LEMMA AnswerLowers ==
    ASSUME RoundsInv, NEW b \in Batches, CallAnswers(b)
    PROVE  PoolLeft' < PoolLeft
  <1>1. b \in working \ called /\ called' = called \cup {b} /\ UNCHANGED poolVars
    BY DEF CallAnswers
  <1>2. /\ (working \cap called)' = (working \cap called) \cup {b}
        /\ (working \ called)' = (working \ called) \ {b}
        /\ UNCHANGED <<blocked, spawned, leaving, left>>
    BY <1>1 DEF poolVars
  <1>3. /\ Cardinality((working \cap called)') = Cardinality(working \cap called) + 1
        /\ Cardinality((working \ called)') = Cardinality(working \ called) - 1
    BY <1>1, <1>2, PlacesFinite, Enters, LeavesSet
  <1> QED
    BY <1>2, <1>3, PlacesFinite, Lighter DEF PoolLeft

LEMMA HandOverAdds ==
    ASSUME RoundsInv, NEW Q, HandOver(Q), qCount < N
    PROVE  PoolLeft' = PoolLeft + 6 /\ query' = {} /\ qCount' = qCount + 1
  <1>1. /\ qCount + 1 \in Batches \ Pool!InFlight /\ blocked = NoBatch /\ blocked' = qCount + 1
        /\ called' = called \ {qCount + 1} /\ query' = {} /\ qCount' = qCount + 1
    BY HandsOver
  <1>2. qCount + 1 \notin working /\ blocked' # NoBatch
    BY <1>1, WorkingIsInFlight DEF Batches, NoBatch
  <1>3. UNCHANGED <<spawned, working, leaving, left>>
    BY DEF HandOver, Pool!Do, Pool!held
  <1>4. (working \cap called)' = working \cap called /\ (working \ called)' = working \ called
    BY <1>1, <1>2, <1>3
  <1> DEFINE W(n) == Weight(n, Cardinality(spawned), Cardinality(working \ called),
                            Cardinality(working \cap called), Cardinality(leaving),
                            Cardinality(left))
  <1>5. PoolLeft = W(0) /\ PoolLeft' = W(6)
    BY <1>1, <1>2, <1>3, <1>4 DEF PoolLeft
  <1>6. W(6) = W(0) + 6
    BY PlacesFinite, Heavier
  <1> QED
    BY <1>1, <1>5, <1>6

LEMMA CallerLeftTyped == ASSUME RoundsInv PROVE CallerLeft \in Nat
  BY RoundsAssumption DEF RoundsInv, RoundsTypeOK, CallerLeft, NextRound

LEMMA TurnsPay ==
    ASSUME NEW k \in Nat, NEW c \in Nat, NEW d \in Nat, c < d PROVE k * c + k <= k * d
  <1>1. PICK e \in Nat : d = c + 1 + e
    <2>1. d - (c + 1) \in Nat /\ d = c + 1 + (d - (c + 1))
      OBVIOUS
    <2> QED
      BY <2>1
  <1>2. k * d = k * c + k + k * e /\ k * e \in Nat /\ k * c \in Nat
    BY <1>1
  <1> QED
    BY <1>2

LEMMA LeftTyped ==
    ASSUME RoundsInv
    PROVE  /\ N \in Nat /\ TurnsLeft \in Nat /\ (N + 10) * TurnsLeft \in Nat
           /\ CallerLeft \in Nat /\ PoolLeft \in Nat /\ StepsLeft \in Nat
  <1>1. N \in Nat /\ TurnsLeft \in Nat /\ CallerLeft \in Nat /\ PoolLeft \in Nat
    BY RoundsAssumption, TurnsTyped, CallerLeftTyped, PoolLeftTyped
  <1>2. (N + 10) * TurnsLeft \in Nat
    BY <1>1
  <1> QED
    BY <1>1, <1>2 DEF StepsLeft

LEMMA Sums ==
    ASSUME NEW x \in Nat, NEW c \in Nat, NEW p \in Nat,
           NEW y \in Nat, NEW d \in Nat, NEW q \in Nat, NEW k \in Nat,
           y + k <= x, d + q < c + p + k
    PROVE  y + d + q < x + c + p
  OBVIOUS

LEMMA LessWork ==
    ASSUME NEW c \in Nat, NEW p \in Nat, NEW d \in Nat, NEW q \in Nat,
           (d < c /\ q <= p) \/ (d <= c /\ q < p)
    PROVE  d + q < c + p + 0
  OBVIOUS

\* A step that takes no turn, or one that does.
LEMMA Lowered ==
    ASSUME RoundsInv, RoundsInv', NEW k \in {0, N + 10},
           IF k = 0 THEN TurnsLeft' = TurnsLeft ELSE TurnsLeft' < TurnsLeft,
           CallerLeft' + PoolLeft' < CallerLeft + PoolLeft + k
    PROVE  StepsLeft' < StepsLeft
  <1>1. /\ N \in Nat /\ TurnsLeft \in Nat /\ (N + 10) * TurnsLeft \in Nat
        /\ CallerLeft \in Nat /\ PoolLeft \in Nat /\ StepsLeft \in Nat
    BY LeftTyped
  <1>2. (/\ N \in Nat /\ TurnsLeft \in Nat /\ (N + 10) * TurnsLeft \in Nat
         /\ CallerLeft \in Nat /\ PoolLeft \in Nat /\ StepsLeft \in Nat)'
    BY LeftTyped, PTL
  <1>3. N + 10 \in Nat /\ k \in Nat
    BY <1>1
  <1>4. (N + 10) * TurnsLeft' + k <= (N + 10) * TurnsLeft
    <2>1. CASE k = 0
      BY <1>1, <2>1
    <2>2. CASE k # 0
      BY <1>1, <1>2, <1>3, <2>2, TurnsPay
    <2> QED
      BY <2>1, <2>2
  <1> QED
    BY <1>1, <1>2, <1>3, <1>4, Sums DEF StepsLeft

LEMMA LoweredAlone ==
    ASSUME RoundsInv, RoundsInv', TurnsLeft' = TurnsLeft,
           \/ CallerLeft' < CallerLeft /\ PoolLeft' = PoolLeft
           \/ CallerLeft' = CallerLeft /\ PoolLeft' < PoolLeft
    PROVE  StepsLeft' < StepsLeft
  <1>1. CallerLeft \in Nat /\ PoolLeft \in Nat /\ 0 \in {0, N + 10}
    BY LeftTyped
  <1>2. (CallerLeft \in Nat)' /\ (PoolLeft \in Nat)'
    BY CallerLeftTyped, PoolLeftTyped, PTL
  <1>3. CallerLeft' <= CallerLeft /\ PoolLeft' <= PoolLeft
    BY <1>1, <1>2
  <1>4. CallerLeft' + PoolLeft' < CallerLeft + PoolLeft + 0
    BY <1>1, <1>2, <1>3, LessWork
  <1> QED
    BY <1>1, <1>4, Lowered

LEMMA CallerLowers ==
    ASSUME RoundsInv, RoundsInv', Caller PROVE StepsLeft' < StepsLeft
  <1>1. /\ N \in Nat /\ next \in 1 .. N + 1 /\ qCount \in Nat /\ query \subseteq Todos
        /\ IsFiniteSet(query) /\ Cardinality(query) \in Nat
        /\ qCount + Cardinality(query) <= next - 1
        /\ (query # {} => Cardinality(query) > 0)
    BY RoundsAssumption, FS_CardinalityType, FS_EmptySet DEF RoundsInv, RoundsTypeOK, Numbered
  <1>2. PoolLeft \in Nat
    BY PoolLeftTyped
  <1>3. CASE Round
    <2>1. pc = "round" /\ query = {} /\ query' = {}
      BY <1>3 DEF Round, RoundsInv, CallersPlace
    <2>2. pc' = "scan" /\ next' = 1 /\ qCount' = 0 /\ TurnsLeft' = TurnsLeft /\ PoolLeft' = PoolLeft
      BY <1>3, TurnsStay DEF Round, entries, answers, PoolLeft
    <2>3. CallerLeft = N + 4 /\ CallerLeft' = N + 3
      BY <1>1, <2>1, <2>2 DEF CallerLeft, NextRound
    <2> QED
      BY <1>1, <1>2, <2>2, <2>3, Lowered
  <1>4. CASE Scan
    <2>1. pc = "scan" /\ pc' = "scan" /\ next \in 1 .. N /\ next' = next + 1 /\ open' = open
      BY <1>4 DEF Scan, Todos
    <2>2. CASE ~Eligible(next)
      <3>1. UNCHANGED <<query, qCount, retries>> /\ TurnsLeft' = TurnsLeft /\ PoolLeft' = PoolLeft
        BY <1>4, <2>1, <2>2, TurnsStay DEF Scan, answers, poolVars, PoolLeft
      <3>2. CallerLeft' = CallerLeft - 1
        BY <1>1, <2>1, <3>1 DEF CallerLeft, NextRound
      <3>3. CallerLeft \in Nat
        BY CallerLeftTyped
      <3> QED
        BY <1>2, <3>1, <3>2, <3>3, Lowered
    <2>3. CASE Eligible(next)
      <3>1. TurnsLeft' < TurnsLeft
        BY <1>4, <2>1, <2>3, TurnTaken DEF Scan, Todos
      <3>2. CallerLeft >= N + 4 - next
        BY <1>1, <2>1 DEF CallerLeft, NextRound
      <3>3. CASE HandOver(query \cup {next})
        <4>1. PoolLeft' = PoolLeft + 6 /\ query' = {} /\ qCount' = qCount + 1
          BY <1>1, <2>1, <3>3, HandOverAdds
        <4>2. CallerLeft' = N + 4 - (next + 1) + (N + 3)
          BY <1>1, <2>1, <4>1 DEF CallerLeft, NextRound
        <4> QED
          BY <1>1, <1>2, <2>1, <3>1, <3>2, <4>1, <4>2, CallerLeftTyped, Lowered
      <3>4. CASE query' = query \cup {next} /\ UNCHANGED <<qCount, batch, answers, poolVars>>
        <4>1. PoolLeft' = PoolLeft
          BY <3>4 DEF answers, poolVars, PoolLeft
        <4>2. CallerLeft' = N + 4 - (next + 1) + 7 + (N + 3)
          BY <1>1, <2>1, <3>4 DEF CallerLeft, NextRound
        <4> QED
          BY <1>1, <1>2, <2>1, <3>1, <3>2, <4>1, <4>2, CallerLeftTyped, Lowered
      <3> QED
        BY <1>4, <2>3, <3>3, <3>4 DEF Scan
    <2> QED
      BY <2>2, <2>3
  <1>5. CASE Rest
    <2>1. /\ pc = "scan" /\ query # {} /\ HandOver(query) /\ UNCHANGED <<pc, next>>
          /\ TurnsLeft' = TurnsLeft
      BY <1>5, TurnsStay DEF Rest, Scanned, entries
    <2>2. PoolLeft' = PoolLeft + 6 /\ query' = {} /\ qCount' = qCount + 1
      BY <1>1, <2>1, HandOverAdds
    <2>3. CallerLeft = N + 4 - next + 7 + (N + 3) /\ CallerLeft' = N + 4 - next + (N + 3)
      BY <1>1, <2>1, <2>2 DEF CallerLeft, NextRound
    <2> QED
      BY <1>1, <1>2, <2>1, <2>2, <2>3, Lowered
  <1>6. CASE Join
    <2>1. /\ pc = "scan" /\ next = N + 1 /\ query = {} /\ qCount > 0 /\ pc' = "wait"
          /\ TurnsLeft' = TurnsLeft /\ PoolLeft' = PoolLeft
      BY <1>1, <1>6, TurnsStay
      DEF Join, Scanned, Todos, Pool!Join, Pool!held, entries, answers, PoolLeft
    <2>2. CallerLeft = 3 + (N + 3) /\ CallerLeft' = N + 5
      BY <1>1, <2>1 DEF CallerLeft, NextRound
    <2> QED
      BY <1>1, <1>2, <2>1, <2>2, Lowered
  <1>7. CASE Joined
    <2>1. /\ pc = "wait" /\ pc' \in {"false", "round"}
          /\ TurnsLeft' = TurnsLeft /\ PoolLeft' = PoolLeft
      BY <1>7, TurnsStay
      DEF Joined, AfterWait, Pool!Joined, Pool!held, entries, answers, PoolLeft
    <2>2. /\ CallerLeft = N + 5 /\ CallerLeft \in Nat /\ CallerLeft' \in Nat
          /\ CallerLeft' < CallerLeft
      BY <1>1, <2>1 DEF CallerLeft
    <2> QED
      BY <2>1, <2>2, LoweredAlone
  <1>8. CASE Settle
    <2>1. /\ pc = "scan" /\ next = N + 1 /\ query = {} /\ qCount = 0 /\ pc' \in {"true", "false"}
          /\ TurnsLeft' = TurnsLeft /\ PoolLeft' = PoolLeft
      BY <1>1, <1>8, TurnsStay
      DEF Settle, Scanned, Todos, Outcome, entries, answers, poolVars, PoolLeft
    <2>2. CallerLeft = 3 /\ CallerLeft' = 0
      BY <1>1, <2>1 DEF CallerLeft, NextRound
    <2> QED
      BY <1>2, <2>1, <2>2, Lowered
  <1> QED
    BY <1>3, <1>4, <1>5, <1>6, <1>7, <1>8 DEF Caller

LEMMA GoroutineLowers ==
    ASSUME RoundsInv, RoundsInv', NEW b \in Batches, Goroutine(b) PROVE StepsLeft' < StepsLeft
  <1>1. PoolLeft \in Nat /\ CallerLeft \in Nat /\ N \in Nat /\ PoolLeft' \in Nat
    <2>1. (PoolLeft \in Nat)'
      BY PoolLeftTyped, PTL
    <2> QED
      BY <2>1, PoolLeftTyped, CallerLeftTyped, RoundsAssumption
  <1>2. CallerLeft' = CallerLeft
    BY DEF Goroutine, PoolStep, LeftAlone, CallFails, CallAnswers, Process, Processed, round,
           CallerLeft, NextRound
  <1>3. CASE PoolStep(b)
    BY <1>2, <1>3, PoolStepLowers, TurnsStay, LoweredAlone DEF PoolStep, entries
  <1>4. CASE LeftAlone(b) \/ CallFails(b) \/ Processed(b)
    <2>1. (Pool!Return(b, TRUE) \/ Pool!Return(b, FALSE)) /\ UNCHANGED <<called, retries, open>>
      BY <1>4 DEF LeftAlone, CallFails, Processed, entries, answers
    <2>2. PoolLeft' < PoolLeft
      BY <2>1, ReturnLowers
    <2> QED
      BY <1>2, <2>1, <2>2, TurnsStay, LoweredAlone
  <1>5. CASE CallAnswers(b)
    BY <1>2, <1>5, AnswerLowers, TurnsStay, LoweredAlone DEF CallAnswers, entries
  <1>6. ASSUME NEW t \in Todos, Process(b, t) PROVE StepsLeft' < StepsLeft
    <2>1. TurnsLeft' < TurnsLeft
      BY <1>6, TurnTaken DEF Process
    <2>2. PoolLeft' = PoolLeft
      BY <1>6 DEF Process, poolVars, PoolLeft
    <2> QED
      BY <1>1, <1>2, <2>1, <2>2, Lowered
  <1> QED
    BY <1>3, <1>4, <1>5, <1>6 DEF Goroutine

-----------------------------------------------------------------------------
(* Somebody can always go on. *)

\* What Round; Scan, Rest, Join and Settle; and Joined wait for.
CallerCan ==
    \/ pc = "round"
    \/ /\ pc = "scan" /\ caller = "free" /\ blocked = NoBatch
       /\ next \in Todos \/ query # {} => qCount + 1 \in Batches \ Pool!InFlight
    \/ pc = "wait" /\ caller = "joining" /\ wg = 0

\* What a goroutine waits for: a token, and a place to put it.  What the rest of it
\* waits for is an answer of FFLogs.
GoroutineCan(b) ==
    \/ blocked = b /\ tokens > 0
    \/ b \in spawned \cup working \cup left
    \/ b \in leaving /\ tokens < Workers

LEMMA HoldersCounted ==
    ASSUME RoundsInv
    PROVE  /\ tokens = 0 => Pool!Holders # {}
           /\ Pool!Holders # {} => tokens < Workers
           /\ wg # 0 => Pool!InFlight # {}
  <1>1. /\ IsFiniteSet(Pool!Holders) /\ tokens + Cardinality(Pool!Holders) = Workers
        /\ IsFiniteSet(Pool!InFlight) /\ wg = Cardinality(Pool!InFlight)
        /\ tokens \in 0 .. Workers
    BY SetOperators
    DEF RoundsInv, RoundsTypeOK, Pool!PoolInv, Pool!PoolTypeOK, Pool!TokensKept,
        Pool!WaitGroupCounts
  <1>2. Cardinality(Pool!Holders) \in Nat /\ (Cardinality(Pool!Holders) = 0 <=> Pool!Holders = {})
    BY <1>1, FS_CardinalityType, FS_EmptySet
  <1>3. wg = 0 <=> Pool!InFlight = {}
    BY <1>1, FS_EmptySet
  <1> QED
    BY <1>1, <1>2, <1>3, RoundsAssumption

LEMMA SomeoneCan ==
    ASSUME RoundsInv
    PROVE  pc \in {"true", "false"} \/ CallerCan \/ \E b \in Batches : GoroutineCan(b)
  <1>1. /\ pc \in {"round", "scan", "wait", "true", "false"}
        /\ caller \in {"free", "joining"} /\ blocked \in Batches \cup {NoBatch}
        /\ Pool!InFlight \subseteq Batches
    BY DEF RoundsInv, RoundsTypeOK, Pool!PoolTypeOK, Pool!InFlight, Pool!Holders
  <1>2. ASSUME NEW b \in Pool!Holders PROVE GoroutineCan(b)
    BY HoldersCounted DEF GoroutineCan, Pool!Holders
  <1>3. Pool!Holders \subseteq Batches
    BY <1>1 DEF Pool!InFlight
  <1>4. CASE pc = "scan" /\ blocked = NoBatch
    <2>1. caller = "free"
      BY <1>1, <1>4 DEF RoundsInv, CallersPlace
    <2>2. /\ N \in Nat /\ qCount \in Nat /\ next \in 1 .. N + 1
          /\ Cardinality(query) \in Nat /\ qCount + Cardinality(query) <= next - 1
          /\ (query # {} => Cardinality(query) > 0) /\ Pool!InFlight \subseteq 1 .. qCount
      BY RoundsAssumption, FS_CardinalityType, FS_EmptySet DEF RoundsInv, RoundsTypeOK, Numbered
    <2>3. next \in Todos \/ query # {} => qCount + 1 \in Batches \ Pool!InFlight
      BY <2>2 DEF Todos, Batches
    <2> QED
      BY <1>4, <2>1, <2>3 DEF CallerCan
  <1>5. CASE pc = "scan" /\ blocked # NoBatch
    <2>1. CASE tokens = 0
      BY <1>2, <1>3, <2>1, HoldersCounted
    <2>2. CASE tokens # 0
      <3>1. tokens > 0
        BY <2>2, RoundsAssumption DEF RoundsInv, RoundsTypeOK, Pool!PoolTypeOK
      <3> QED
        BY <1>1, <1>5, <3>1 DEF GoroutineCan
    <2> QED
      BY <2>1, <2>2
  <1>6. CASE pc = "wait"
    <2>1. caller = "joining" /\ blocked = NoBatch
      BY <1>6 DEF RoundsInv, CallersPlace
    <2>2. CASE wg = 0
      BY <1>6, <2>1, <2>2 DEF CallerCan
    <2>3. CASE wg # 0
      <3>1. PICK b : b \in Pool!InFlight
        BY <2>3, HoldersCounted
      <3>2. b \in Pool!Holders \/ b \in left
        BY <2>1, <3>1 DEF Pool!InFlight
      <3> QED
        BY <1>1, <1>2, <3>1, <3>2 DEF GoroutineCan
    <2> QED
      BY <2>2, <2>3
  <1> QED
    BY <1>1, <1>4, <1>5, <1>6 DEF CallerCan

-----------------------------------------------------------------------------
(* The theorems. *)

\* Batches are numbered as they are handed over, what is asked for is open, and the
\* pool is as its own invariant says (fflogs_2_fight.go:200-247).
THEOREM RoundsInvariance == Spec => []RoundsInv
  BY RoundsStart, RoundsStep, PTL DEF Spec

\* The rounds use the pool as parallel.Pool is meant to be used: every step of theirs
\* is a step of ParallelPool, or leaves the pool alone (parallel.go:31-90).
THEOREM RoundsUseThePool == Spec => Pool!Spec
  <1>1. Init => Pool!Init
    BY DEF Init
  <1>2. RoundsInv /\ [Next]_vars => [Pool!Next]_(Pool!vars)
    BY RoundsStep DEF PoolSteps
  <1> QED
    BY <1>1, <1>2, RoundsInvariance, PTL DEF Spec, Pool!Spec

\* No entry is looked at while a batch has it, no two batches have it, and a round
\* starts, and the fetch returns, with no goroutine left (fflogs_2_fight.go:205-242).
THEOREM OneOwner == Spec => []EntriesHaveOneOwner
  <1>1. RoundsInv => EntriesHaveOneOwner
    BY DEF RoundsInv
  <1> QED
    BY <1>1, RoundsInvariance, PTL

\* The fetch succeeds only if no batch failed and nothing is open that had not its
\* tries, and fails only for a reason (fflogs_2_fight.go:231-246).
THEOREM EarnedResult == Spec => []ResultIsEarned
  <1>1. RoundsInv => ResultIsEarned
    BY DEF RoundsInv
  <1> QED
    BY <1>1, RoundsInvariance, PTL

\* None of its goroutines waits to give its token back, and Wait returns only when
\* none of them is in flight: what is proved of the pool carries over to the rounds
\* (parallel.go:52, 74-78).
THEOREM RoundsJoin == Spec => [](Pool!TokenGoesBack /\ Pool!JoinsAll)
  <1>1. Pool!Init <=> Proved!Init
    BY DEF Pool!Init, Proved!Init
  <1>2. Pool!Spec <=> Proved!Spec
    BY <1>1, SamePoolStep, PTL DEF Pool!Spec, Proved!Spec
  <1>3. Proved!TokenGoesBack /\ Proved!JoinsAll <=> Pool!TokenGoesBack /\ Pool!JoinsAll
    BY DEF Proved!TokenGoesBack, Proved!JoinsAll, Pool!TokenGoesBack, Pool!JoinsAll,
           Proved!InFlight, Proved!Holders, Pool!InFlight, Pool!Holders
  <1>4. Proved!Spec => [](Proved!TokenGoesBack /\ Proved!JoinsAll)
    BY PoolInstance, Proved!TokensGoBack, Proved!WaitJoinsAll, PTL
  <1> QED
    BY <1>2, <1>3, <1>4, RoundsUseThePool, PTL

\* Each step of a fetch but the client's lowers a number: whatever FFLogs answers, and
\* whichever calls fail, a fetch has finitely many steps (fflogs_2_fight.go:200-247).
THEOREM FetchesAreFinite ==
    Spec => [](StepsLeft \in Nat) /\ [][Cancelled \/ StepsLeft' < StepsLeft]_vars
  <1>1. RoundsInv => StepsLeft \in Nat
    BY LeftTyped
  <1>2. RoundsInv /\ RoundsInv' /\ [Next]_vars => [Cancelled \/ StepsLeft' < StepsLeft]_vars
    BY CallerLowers, GoroutineLowers DEF Next
  <1> QED
    BY <1>1, <1>2, RoundsInvariance, PTL DEF Spec

\* Until the fetch returns there is always somebody who waits for nobody: the caller, or
\* a goroutine that has a token, a place for it, or an answer to wait for
\* (parallel.go:46-78, fflogs_2_fight.go:200-247).
THEOREM FetchesNeverStick ==
    Spec => [](pc \in {"true", "false"} \/ CallerCan \/ \E b \in Batches : GoroutineCan(b))
  BY SomeoneCan, RoundsInvariance, PTL
=============================================================================
