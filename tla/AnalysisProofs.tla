------------------------- MODULE AnalysisProofs ----------------------------
(***************************************************************************)
(* What is proved of an analysis beside its pool: of the pump that reports *)
(* its progress, in both kinds of analysis, and of the table of an hps     *)
(* analysis.                                                               *)
(*                                                                         *)
(* For any number of goroutines and reports the channel of the progress is *)
(* closed when nobody can use it any more, and at most two reports are     *)
(* late.                                                                   *)
(*                                                                         *)
(* For any fights, reports, characters and tries the table counts a fight  *)
(* as often as it is listed, and leaves none out without a reason.  A      *)
(* fight comes from the cache, with all its listings, or is asked for and  *)
(* comes once, with the one answer that ends its report.  A report that    *)
(* never gets one was missing from the answer of every round, unless a     *)
(* call failed, which ends the analysis, or the client has gone.           *)
(***************************************************************************)
EXTENDS ProgressPump, HpsRankings, FiniteSetTheorems, TLAPS

-----------------------------------------------------------------------------
(* The pump. *)

LEMMA PumpInit == Init => PumpInv
  <1> SUFFICES ASSUME Init PROVE PumpInv
    OBVIOUS
  <1>1. buffer \in IF buffered THEN 0 .. 1 ELSE {0}
    BY PumpAssumption DEF Init
  <1>2. PumpTypeOK
    <2>1. /\ buffered \in BOOLEAN
          /\ main = "fetch" /\ ok \in BOOLEAN /\ ctxDone \in BOOLEAN /\ closed \in BOOLEAN
          /\ pump = "select"
      BY DEF Init
    <2>2. waiting \subseteq Goroutines /\ alive = {} /\ reporting = {}
      BY DEF Init
    <2>3. calls \in 0 .. MaxCalls /\ late \in Nat
      BY PumpAssumption DEF Init
    <2> QED
      BY <1>1, <2>1, <2>2, <2>3 DEF PumpTypeOK
  <1>3. PumpJoined
    BY DEF Init, PumpJoined
  <1>4. LateCount
    BY DEF Init, LateCount, Passing
  <1> QED
    BY <1>2, <1>3, <1>4 DEF PumpInv

\* Goroutines start, report and end.
LEMMA GoroutineKeeps ==
    ASSUME PumpInv,
           MainReports \/ \E g \in Goroutines : Spawn(g) \/ Report(g) \/ End(g)
    PROVE  PumpInv'
  <1> USE PumpAssumption
  <1>1. CASE MainReports
    BY <1>1
    DEF PumpInv, PumpTypeOK, PumpJoined, LateCount, Passing, Awaits, MainReports
  <1>2. ASSUME NEW g \in Goroutines, Spawn(g) \/ Report(g) \/ End(g)
        PROVE  PumpInv'
    BY <1>2
    DEF PumpInv, PumpTypeOK, PumpJoined, LateCount, Passing, Awaits, Spawn, Report, End
  <1> QED
    BY <1>1, <1>2

LEMMA AnalysisKeeps ==
    ASSUME PumpInv, Analysis \/ ClientGone PROVE PumpInv'
  <1> USE PumpAssumption
  <1>1. CASE ClientGone
    BY <1>1 DEF PumpInv, PumpTypeOK, PumpJoined, LateCount, Passing, Awaits, ClientGone
  <1>0. CASE Fetched
    <2>1. /\ main = "fetch" /\ main' = "leave" /\ alive = {} /\ Main \notin reporting
          /\ ok' \in BOOLEAN
          /\ UNCHANGED <<buffered, ctxDone, waiting, alive, reporting, calls, buffer, pump, closed,
                         late>>
      BY <1>0 DEF Fetched
    <2>2. PumpTypeOK'
      BY <2>1 DEF PumpInv, PumpTypeOK
    <2>3. ~closed
      BY <2>1 DEF PumpInv, PumpJoined
    <2>4. PumpJoined'
      BY <2>1, <2>3 DEF PumpJoined
    <2>5. late = 0
      BY <2>1 DEF PumpInv, LateCount
    <2>6. LateCount'
      BY <2>1, <2>5 DEF PumpInv, LateCount, Passing
    <2> QED
      BY <2>2, <2>4, <2>6 DEF PumpInv
  <1>2. CASE Leave
    BY <1>2 DEF PumpInv, PumpTypeOK, PumpJoined, LateCount, Passing, Awaits, Leave
  <1>3. CASE Return
    BY <1>3 DEF PumpInv, PumpTypeOK, PumpJoined, LateCount, Passing, Awaits, Return
  <1> QED
    BY <1>0, <1>1, <1>2, <1>3 DEF Analysis

LEMMA ProgressKeeps ==
    ASSUME PumpInv, NEW g \in Goroutines \cup {Main}, Progress(g) PROVE PumpInv'
  <1> USE PumpAssumption
  <1>1. CASE Hand(g)
    BY <1>1 DEF PumpInv, PumpTypeOK, PumpJoined, LateCount, Passing, Awaits, Hand, Reported
  <1>2. CASE Put(g)
    BY <1>2 DEF PumpInv, PumpTypeOK, PumpJoined, LateCount, Passing, Awaits, Put, Reported
  <1>3. CASE GiveUp(g)
    BY <1>3 DEF PumpInv, PumpTypeOK, PumpJoined, LateCount, Passing, Awaits, GiveUp, Reported
  <1> QED
    BY <1>1, <1>2, <1>3 DEF Progress

LEMMA PumpKeeps ==
    ASSUME PumpInv, Pump PROVE PumpInv'
  <1> USE PumpAssumption
  <1>1. CASE Take
    BY <1>1 DEF PumpInv, PumpTypeOK, PumpJoined, LateCount, Passing, Awaits, Take
  <1>2. CASE PassOn
    BY <1>2 DEF PumpInv, PumpTypeOK, PumpJoined, LateCount, Passing, Awaits, PassOn
  <1>3. CASE PumpEnds
    BY <1>3 DEF PumpInv, PumpTypeOK, PumpJoined, LateCount, Passing, Awaits, PumpEnds
  <1> QED
    BY <1>1, <1>2, <1>3 DEF Pump

\* The invariant: goroutines are joined before the analysis leaves, and a string
\* that is late was in the channel or with the pump when it did.
THEOREM PumpInvariance == Spec => []PumpInv
  <1>1. PumpInv /\ [Next]_vars => PumpInv'
    <2> SUFFICES ASSUME PumpInv, [Next]_vars PROVE PumpInv'
      OBVIOUS
    <2>1. CASE UNCHANGED vars
      BY <2>1 DEF PumpInv, PumpTypeOK, PumpJoined, LateCount, Passing, Awaits, vars
    <2> QED
      BY <2>1, GoroutineKeeps, AnalysisKeeps, ProgressKeeps, PumpKeeps DEF Next
  <1> QED
    BY PumpInit, <1>1, PTL DEF Spec

\* No send into the closed channel (fflogs_0_base.go:80, fflogs.go:115-120).
THEOREM NoSendOnClosed == Spec => []ClosedWhenUnused
  <1>1. PumpInv => ClosedWhenUnused
    BY DEF PumpInv, PumpTypeOK, PumpJoined, ClosedWhenUnused
  <1> QED
    BY <1>1, PumpInvariance, PTL

\* Two reports are late at most, and only of an hps analysis that failed
\* (worker.go:172-175).
THEOREM FewAreLate == Spec => []FewReportsAreLate
  <1>1. PumpInv => FewReportsAreLate
    BY PumpAssumption
    DEF PumpInv, PumpTypeOK, PumpJoined, LateCount, Passing, Awaits, FewReportsAreLate
  <1> QED
    BY <1>1, PumpInvariance, PTL

-----------------------------------------------------------------------------
(* That an analysis returns, but for fairness: every step but the client's lowers a *)
(* number, and somebody can always move.                                            *)

MainAhead == CASE main = "fetch" -> 3 [] main = "leave" -> 2 [] main = "await" -> 1 [] OTHER -> 0
PumpAhead == CASE pump = "report" -> 2 [] pump = "select" -> 1 [] OTHER -> 0

\* A report that waits becomes a string in the channel, then one in the pump's hands.
Weigh(starting, running, telling, untold) == 5 * starting + 4 * running + 3 * telling + 4 * untold

Others == 2 * buffer + PumpAhead + MainAhead

WorkLeft ==
    Weigh(Cardinality(waiting), Cardinality(alive \ reporting), Cardinality(reporting),
          MaxCalls - calls)
      + Others

\* What keeps the pump, and an analysis that waits for it, from waiting for ever.
CancelledFirst == (pump = "gone" \/ main \in {"await", "returned"}) => ctxDone

\* What each of them waits for.
PumpCan == pump = "report" \/ (pump = "select" /\ (buffer = 1 \/ ctxDone))

AnalysisCan ==
    \/ main = "fetch" /\ Main \notin reporting /\ alive = {}
    \/ main = "leave"
    \/ main = "await" /\ pump = "gone"

ProgressCan(g) == g \in reporting /\ (buffered \/ ctxDone \/ pump = "select")

NobodyStuck ==
    /\ \/ main = "returned" /\ pump = "gone"
       \/ PumpCan \/ AnalysisCan \/ alive \ reporting # {}
       \/ \E g \in reporting : ProgressCan(g)
    /\ \A g \in reporting : ProgressCan(g) \/ PumpCan

LEMMA OneIn ==
    ASSUME NEW S, NEW x, IsFiniteSet(S), x \notin S
    PROVE  IsFiniteSet(S \cup {x}) /\ Cardinality(S \cup {x}) = Cardinality(S) + 1
  BY FS_AddElement

LEMMA OneOut ==
    ASSUME NEW S, NEW x \in S, IsFiniteSet(S)
    PROVE  IsFiniteSet(S \ {x}) /\ Cardinality(S \ {x}) = Cardinality(S) - 1
  BY FS_RemoveElement

LEMMA SetsCounted ==
    ASSUME PumpInv
    PROVE  /\ IsFiniteSet(waiting) /\ IsFiniteSet(alive \ reporting) /\ IsFiniteSet(reporting)
           /\ Cardinality(waiting) \in Nat /\ Cardinality(alive \ reporting) \in Nat
           /\ Cardinality(reporting) \in Nat
  <1>1. IsFiniteSet(Goroutines \cup {Main})
    BY PumpAssumption, FS_AddElement
  <1>2. /\ waiting \subseteq Goroutines \cup {Main}
        /\ alive \ reporting \subseteq Goroutines \cup {Main}
        /\ reporting \subseteq Goroutines \cup {Main}
    BY DEF PumpInv, PumpTypeOK
  <1> QED
    BY <1>1, <1>2, FS_Subset, FS_CardinalityType

LEMMA WorkTyped ==
    ASSUME PumpInv
    PROVE  /\ buffer \in Nat /\ MaxCalls - calls \in Nat
           /\ PumpAhead \in 0 .. 2 /\ MainAhead \in 0 .. 3
           /\ Others \in Nat /\ WorkLeft \in Nat
  <1>1. buffer \in Nat /\ MaxCalls - calls \in Nat /\ buffered \in BOOLEAN
    BY PumpAssumption DEF PumpInv, PumpTypeOK
  <1>2. PumpAhead \in 0 .. 2 /\ MainAhead \in 0 .. 3
    BY DEF PumpAhead, MainAhead
  <1> QED
    BY <1>1, <1>2, SetsCounted DEF WorkLeft, Weigh, Others

LEMMA MainWeighs ==
    ASSUME NEW a \in Nat, NEW b \in Nat, NEW c \in Nat, NEW d \in Nat, d - 1 \in Nat, NEW r \in Nat
    PROVE  Weigh(a, b, c + 1, d - 1) + r < Weigh(a, b, c, d) + r
  BY DEF Weigh

LEMMA ReportWeighs ==
    ASSUME NEW a \in Nat, NEW b \in Nat, NEW c \in Nat, NEW d \in Nat, c - 1 \in Nat,
           NEW r \in Nat, NEW q \in Nat, q <= r + 2
    PROVE  Weigh(a, b, c - 1, d) + q < Weigh(a, b, c, d) + r
  BY DEF Weigh

LEMMA RestWeighs ==
    ASSUME NEW w \in Nat, NEW r \in Nat, NEW q \in Nat, q < r PROVE w + q < w + r
  OBVIOUS

\* The steps that move a goroutine.
LEMMA GoroutineLowers ==
    ASSUME PumpInv, NEW g \in Goroutines, Spawn(g) \/ Report(g) \/ End(g)
    PROVE  WorkLeft' < WorkLeft
  <1>1. /\ IsFiniteSet(waiting) /\ IsFiniteSet(alive \ reporting) /\ IsFiniteSet(reporting)
        /\ Cardinality(waiting) \in Nat /\ Cardinality(alive \ reporting) \in Nat
        /\ Cardinality(reporting) \in Nat
    BY SetsCounted
  <1>2. /\ buffer \in Nat /\ MaxCalls - calls \in Nat
        /\ PumpAhead \in 0 .. 2 /\ MainAhead \in 0 .. 3
    BY WorkTyped
  <1>3. /\ buffer' = buffer /\ calls' = calls /\ PumpAhead' = PumpAhead /\ MainAhead' = MainAhead
    BY DEF Spawn, Report, End, PumpAhead, MainAhead
  <1>4. CASE Spawn(g)
    <2>1. /\ g \in waiting /\ waiting' = waiting \ {g} /\ reporting' = reporting
          /\ g \notin alive \ reporting /\ alive' \ reporting' = (alive \ reporting) \cup {g}
      BY <1>4, PumpAssumption DEF Spawn, PumpInv, PumpTypeOK
    <2>2. /\ Cardinality(waiting') = Cardinality(waiting) - 1
          /\ Cardinality(alive' \ reporting') = Cardinality(alive \ reporting) + 1
      BY <1>1, <2>1, OneIn, OneOut
    <2> QED
      BY <1>1, <1>2, <1>3, <2>1, <2>2 DEF WorkLeft, Weigh, Others
  <1>5. CASE Report(g)
    <2>1. /\ g \in alive \ reporting /\ waiting' = waiting
          /\ g \notin reporting /\ reporting' = reporting \cup {g}
          /\ alive' \ reporting' = (alive \ reporting) \ {g}
      BY <1>5 DEF Report
    <2>2. /\ Cardinality(reporting') = Cardinality(reporting) + 1
          /\ Cardinality(alive' \ reporting') = Cardinality(alive \ reporting) - 1
      BY <1>1, <2>1, OneIn, OneOut
    <2> QED
      BY <1>1, <1>2, <1>3, <2>1, <2>2 DEF WorkLeft, Weigh, Others
  <1>6. CASE End(g)
    <2>1. /\ g \in alive \ reporting /\ waiting' = waiting /\ reporting' = reporting
          /\ alive' \ reporting' = (alive \ reporting) \ {g}
      BY <1>6 DEF End
    <2>2. Cardinality(alive' \ reporting') = Cardinality(alive \ reporting) - 1
      BY <1>1, <2>1, OneOut
    <2> QED
      BY <1>1, <1>2, <1>3, <2>1, <2>2 DEF WorkLeft, Weigh, Others
  <1> QED
    BY <1>4, <1>5, <1>6

LEMMA MainLowers ==
    ASSUME PumpInv, MainReports PROVE WorkLeft' < WorkLeft
  <1>1. /\ IsFiniteSet(reporting) /\ Cardinality(reporting) \in Nat
        /\ Cardinality(waiting) \in Nat /\ Cardinality(alive \ reporting) \in Nat
    BY SetsCounted
  <1>2. MaxCalls - calls \in Nat /\ Others \in Nat
    BY WorkTyped
  <1>3. Others' = Others /\ waiting' = waiting
    BY DEF MainReports, Others, PumpAhead, MainAhead
  <1>4. /\ Main \notin reporting /\ reporting' = reporting \cup {Main}
        /\ alive' \ reporting' = alive \ reporting
    BY PumpAssumption DEF MainReports, PumpInv, PumpTypeOK
  <1>5. Cardinality(reporting') = Cardinality(reporting) + 1
    BY <1>1, <1>4, OneIn
  <1>6. MaxCalls - calls' = (MaxCalls - calls) - 1 /\ (MaxCalls - calls) - 1 \in Nat
    BY PumpAssumption DEF MainReports, PumpInv, PumpTypeOK
  <1>7. WorkLeft' = Weigh(Cardinality(waiting), Cardinality(alive \ reporting),
                          Cardinality(reporting) + 1, (MaxCalls - calls) - 1) + Others
    BY <1>3, <1>4, <1>5, <1>6 DEF WorkLeft
  <1> QED
    BY <1>1, <1>2, <1>6, <1>7, MainWeighs DEF WorkLeft

LEMMA ProgressLowers ==
    ASSUME PumpInv, NEW g \in Goroutines \cup {Main}, Progress(g) PROVE WorkLeft' < WorkLeft
  <1>1. /\ IsFiniteSet(reporting) /\ Cardinality(reporting) \in Nat
        /\ Cardinality(waiting) \in Nat /\ Cardinality(alive \ reporting) \in Nat
    BY SetsCounted
  <1>2. /\ buffer \in Nat /\ MaxCalls - calls \in Nat /\ Others \in Nat
        /\ PumpAhead \in 0 .. 2 /\ MainAhead \in 0 .. 3
    BY WorkTyped
  <1>3. /\ waiting' = waiting /\ calls' = calls /\ MainAhead' = MainAhead
        /\ g \in reporting /\ reporting' = reporting \ {g} /\ alive' = alive \ {g}
    BY DEF Progress, Hand, Put, GiveUp, Reported, MainAhead
  <1>4. alive' \ reporting' = alive \ reporting
    BY <1>3
  <1>5. Cardinality(reporting') = Cardinality(reporting) - 1 /\ Cardinality(reporting) - 1 \in Nat
    <2>1. Cardinality(reporting') \in Nat
      BY <1>1, <1>3, OneOut, FS_CardinalityType
    <2> QED
      BY <1>1, <1>3, <2>1, OneOut
  <1>6. Others' \in Nat /\ Others' <= Others + 2
    <2>1. CASE Hand(g)
      BY <1>2, <1>3, <2>1 DEF Hand, PumpAhead, Others
    <2>2. CASE Put(g)
      BY <1>2, <1>3, <2>2 DEF Put, PumpAhead, Others
    <2>3. CASE GiveUp(g)
      BY <1>2, <1>3, <2>3 DEF GiveUp, PumpAhead, Others
    <2> QED
      BY <2>1, <2>2, <2>3 DEF Progress
  <1>7. WorkLeft' = Weigh(Cardinality(waiting), Cardinality(alive \ reporting),
                          Cardinality(reporting) - 1, MaxCalls - calls) + Others'
    BY <1>3, <1>4, <1>5 DEF WorkLeft
  <1> QED
    BY <1>1, <1>2, <1>5, <1>6, <1>7, ReportWeighs DEF WorkLeft

LEMMA OthersLower ==
    ASSUME PumpInv, Analysis \/ Pump PROVE WorkLeft' < WorkLeft
  <1> DEFINE weight == Weigh(Cardinality(waiting), Cardinality(alive \ reporting),
                             Cardinality(reporting), MaxCalls - calls)
  <1>1. weight \in Nat
    BY SetsCounted, WorkTyped DEF Weigh
  <1>2. /\ buffer \in Nat /\ PumpAhead \in 0 .. 2 /\ MainAhead \in 0 .. 3
    BY WorkTyped
  <1>3. weight' = weight
    BY DEF Analysis, Fetched, Leave, Return, Pump, Take, PassOn, PumpEnds
  <1>4. Others' \in Nat /\ Others \in Nat /\ Others' < Others
    <2>1. CASE Analysis
      BY <1>2, <2>1 DEF Analysis, Fetched, Leave, Return, PumpAhead, MainAhead, Others
    <2>2. CASE Pump
      BY <1>2, <2>2 DEF Pump, Take, PassOn, PumpEnds, PumpAhead, MainAhead, Others
    <2> QED
      BY <2>1, <2>2
  <1>5. WorkLeft = weight + Others /\ WorkLeft' = weight' + Others'
    BY DEF WorkLeft
  <1> HIDE DEF weight
  <1> QED
    BY <1>1, <1>3, <1>4, <1>5, RestWeighs

LEMMA SomeoneCan ==
    ASSUME PumpInv, CancelledFirst PROVE NobodyStuck
  <1>1. ASSUME NEW g \in reporting PROVE ProgressCan(g) \/ PumpCan
    BY DEF ProgressCan, PumpCan, CancelledFirst, PumpInv, PumpTypeOK
  <1>3. CASE reporting = {} /\ alive = {}
    BY <1>3 DEF NobodyStuck, PumpCan, AnalysisCan, CancelledFirst, PumpInv, PumpTypeOK
  <1>4. CASE reporting # {} \/ alive \ reporting # {}
    BY <1>1, <1>4 DEF NobodyStuck
  <1> QED
    BY <1>3, <1>4

\* The context is done before the pump ends, and before the analysis waits for it
\* (fflogs_0_base.go:121-122).
LEMMA CancelsFirst == Spec => []CancelledFirst
  <1>1. Init => CancelledFirst
    BY DEF Init, CancelledFirst
  <1>2. CancelledFirst /\ [Next]_vars => CancelledFirst'
    BY DEF CancelledFirst, Next, Spawn, Report, End, MainReports, Progress, Hand, Put, GiveUp,
           Analysis, Fetched, Leave, Return, ClientGone, Pump, Take, PassOn, PumpEnds, vars
  <1> QED
    BY <1>1, <1>2, PTL DEF Spec

\* Each step but the client's lowers a number: an analysis, its goroutines and its pump
\* have finitely many steps, whoever reports (fflogs_0_base.go:101-124,
\* worker.go:150-186).
THEOREM AnalysesEnd ==
    Spec => [](WorkLeft \in Nat) /\ [][ClientGone \/ WorkLeft' < WorkLeft]_vars
  <1>1. PumpInv => WorkLeft \in Nat
    BY WorkTyped
  <1>2. PumpInv /\ [Next]_vars => [ClientGone \/ WorkLeft' < WorkLeft]_vars
    BY GoroutineLowers, MainLowers, ProgressLowers, OthersLower DEF Next
  <1> QED
    BY <1>1, <1>2, PumpInvariance, PTL DEF Spec

\* Until the analysis and its pump are gone somebody can go on, and whoever is in
\* progress() can, or the pump it waits for can: neither the channel nor the end of the
\* pump holds anybody up for ever (fflogs_0_base.go:80, 91-124, fflogs.go:115-120,
\* worker.go:150-186).
THEOREM AnalysesNeverStick == Spec => []NobodyStuck
  BY SomeoneCan, CancelsFirst, PumpInvariance, PTL

-----------------------------------------------------------------------------
(* The hps table. *)

HpsTypeOK ==
    /\ ranked \subseteq Fights /\ cached \subseteq ranked
    /\ hpc \in {"idle", "data", "lookup", "round", "wait", "done"}
    /\ gone \in BOOLEAN /\ failed \in BOOLEAN
    /\ who \in Chars /\ listed \in [Fights -> Nat]
    /\ todo \subseteq {f \in Fights : listed[f] > 0}
    /\ open \subseteq Reports /\ asked \subseteq open
    /\ tries \in 0 .. MaxTries
    /\ list \in [Fights -> Nat] /\ rows \in [Fights -> Nat]
    /\ unanswered \subseteq Reports /\ missed \in [Reports -> Nat]

\* Nothing is left of a request before the next one.
Fresh ==
    /\ hpc \in {"idle", "data", "lookup"} =>
         /\ todo = {} /\ open = {} /\ tries = 0 /\ ~failed /\ list = None
         /\ unanswered = {} /\ missed = [r \in Reports |-> 0]
    /\ hpc # "done" => state = "invalid"
    /\ hpc # "wait" => asked = {}
    /\ hpc = "round" => ~failed

\* A fight is loaded as often as it is listed, or asked for and taken once, with its
\* report.
TakenOnce ==
    \A f \in Fights :
        /\ list[f] > 0 => f \in ranked
        /\ f \notin todo => list[f] \in {0, listed[f]}
        /\ f \in todo => list[f] <= 1
        /\ f \in todo /\ ReportOf[f] \in open => list[f] = 0

\* What is not asked for was loaded, and what is done was taken if its numbers are
\* there.
NoneForgotten ==
    hpc \in {"round", "wait"} =>
        \A f \in Fights : listed[f] > 0 /\ list[f] = 0 =>
            /\ f \in todo
            /\ f \in ranked /\ ReportOf[f] \notin open => ReportOf[f] \in unanswered

\* A report that is open was missing from the answer of every round that is through.
MissedEachRound ==
    \A r \in open :
        \/ gone \/ failed
        \/ r \in asked /\ missed[r] + 1 = tries
        \/ r \notin asked /\ missed[r] = tries

HpsInv ==
    /\ HpsTypeOK /\ Fresh /\ TakenOnce /\ NoneForgotten /\ MissedEachRound
    /\ CountedAsListed /\ NothingIsLeftOut

-----------------------------------------------------------------------------
LEMMA HpsStart == HInit => HpsInv
  <1> SUFFICES ASSUME HInit PROVE HpsInv
    OBVIOUS
  <1> USE HpsAssumption
  <1>1. HpsTypeOK
    <2>1. listed \in [Fights -> Nat] /\ list \in [Fights -> Nat] /\ rows \in [Fights -> Nat]
      BY DEF HInit, None
    <2>2. missed \in [Reports -> Nat]
      BY DEF HInit
    <2>3. /\ ranked \subseteq Fights /\ cached = {} /\ hpc = "idle" /\ gone = FALSE /\ who \in Chars
          /\ todo = {} /\ open = {} /\ asked = {} /\ tries = 0 /\ failed = FALSE /\ unanswered = {}
      BY DEF HInit
    <2>4. todo \subseteq {f \in Fights : listed[f] > 0} /\ tries \in 0 .. MaxTries
      BY <2>3
    <2>5. ranked \subseteq Fights /\ cached \subseteq ranked /\ open \subseteq Reports
      BY <2>3
    <2>6. asked \subseteq open /\ unanswered \subseteq Reports
      BY <2>3
    <2> QED
      BY <2>1, <2>2, <2>3, <2>4, <2>5, <2>6, Zenon DEF HpsTypeOK
  <1>2. Fresh /\ TakenOnce /\ NoneForgotten /\ MissedEachRound
    BY DEF HInit, Fresh, TakenOnce, NoneForgotten, MissedEachRound, None
  <1>3. CountedAsListed /\ NothingIsLeftOut
    BY DEF HInit, CountedAsListed, NothingIsLeftOut
  <1> QED
    BY <1>1, <1>2, <1>3 DEF HpsInv

\* Steps before the fights are looked up, and after the table.
LEMMA OutsideKeeps ==
    ASSUME HpsInv, (\E f \in Fights : Rank(f)) \/ Begin \/ Invalid \/ NoCharacter \/ CharacterData
    PROVE  HpsInv'
  <1> USE HpsAssumption DEF HpsInv
  <1>1. /\ hpc \in {"idle", "data"} /\ hpc' \in {"idle", "data", "lookup", "done"}
        /\ ranked \subseteq ranked' /\ ranked' \subseteq Fights
        /\ who' \in Chars /\ listed' \in [Fights -> Nat] /\ state' # "normal"
        /\ hpc' # "done" => state' = state
        /\ UNCHANGED <<cached, gone, todo, open, asked, tries, failed, list, rows, unanswered,
                       missed>>
    BY DEF HpsTypeOK, Fresh, Rank, Begin, Invalid, NoCharacter, CharacterData, Finish, None,
           request, fetch, result, history
  <1>2. HpsTypeOK'
    BY <1>1 DEF HpsTypeOK, Fresh
  <1>3. Fresh'
    BY <1>1 DEF Fresh
  <1>4. TakenOnce' /\ NoneForgotten' /\ MissedEachRound'
    BY <1>1 DEF HpsTypeOK, Fresh, TakenOnce, NoneForgotten, MissedEachRound, None
  <1>5. CountedAsListed' /\ NothingIsLeftOut'
    BY <1>1 DEF CountedAsListed, NothingIsLeftOut
  <1> QED
    BY <1>2, <1>3, <1>4, <1>5

LEMMA CancelKeeps ==
    ASSUME HpsInv, Cancel \/ UNCHANGED hvars PROVE HpsInv'
  <1> USE DEF HpsInv
  <1>1. /\ (gone => gone') /\ gone' \in BOOLEAN
        /\ UNCHANGED <<ranked, cached, hpc, who, listed, todo, open, asked, tries, failed, list,
                       state, rows, unanswered, missed>>
    BY DEF HpsTypeOK, Cancel, hvars, request, fetch, result, history
  <1>2. HpsTypeOK' /\ Fresh'
    BY <1>1 DEF HpsTypeOK, Fresh
  <1>3. TakenOnce' /\ NoneForgotten' /\ MissedEachRound'
    BY <1>1 DEF TakenOnce, NoneForgotten, MissedEachRound
  <1>4. CountedAsListed' /\ NothingIsLeftOut'
    BY <1>1 DEF CountedAsListed, NothingIsLeftOut, Mine
  <1> QED
    BY <1>2, <1>3, <1>4

\* A fight is loaded with all its listings, or asked for.
LEMMA LookupKeeps ==
    ASSUME HpsInv, Lookup PROVE HpsInv'
  <1> USE HpsAssumption DEF HpsInv
  <1>1. PICK found \in SUBSET (cached \cap {f \in Fights : listed[f] > 0}) :
          /\ list' = [f \in Fights |-> IF f \in found THEN listed[f] ELSE 0]
          /\ todo' = {f \in Fights : listed[f] > 0} \ found
    BY DEF Lookup, TodoOf
  <1>2. /\ open' = {ReportOf[f] : f \in todo'} /\ hpc = "lookup" /\ hpc' = "round"
        /\ UNCHANGED <<ranked, cached, gone, who, listed, asked, tries, failed, state, rows,
                       unanswered, missed>>
    BY DEF Lookup, request, result, history
  <1>3. HpsTypeOK' /\ Fresh'
    BY <1>1, <1>2 DEF HpsTypeOK, Fresh
  <1>4. TakenOnce'
    BY <1>1, <1>2 DEF HpsTypeOK, TakenOnce
  <1>5. NoneForgotten'
    BY <1>1, <1>2 DEF HpsTypeOK, NoneForgotten
  <1>6. MissedEachRound'
    BY <1>1, <1>2 DEF HpsTypeOK, Fresh, MissedEachRound
  <1>7. CountedAsListed' /\ NothingIsLeftOut'
    BY <1>2, <1>3 DEF Fresh, CountedAsListed, NothingIsLeftOut
  <1> QED
    BY <1>3, <1>4, <1>5, <1>6, <1>7

-----------------------------------------------------------------------------
(* The rounds. *)

LEMMA RoundKeeps ==
    ASSUME HpsInv, Round PROVE HpsInv'
  <1> USE HpsAssumption DEF HpsInv
  <1>1. /\ hpc = "round" /\ hpc' = "wait" /\ tries < MaxTries /\ asked' = open /\ tries' = tries + 1
        /\ UNCHANGED <<ranked, cached, gone, who, listed, todo, open, failed, list, state, rows,
                       unanswered, missed>>
    BY DEF Round, request, result, history
  <1>2. HpsTypeOK' /\ Fresh'
    BY <1>1 DEF HpsTypeOK, Fresh
  <1>3. TakenOnce' /\ NoneForgotten'
    BY <1>1 DEF TakenOnce, NoneForgotten
  <1>4. MissedEachRound'
    BY <1>1 DEF HpsTypeOK, Fresh, MissedEachRound
  <1>5. CountedAsListed' /\ NothingIsLeftOut'
    BY <1>1 DEF Fresh, CountedAsListed, NothingIsLeftOut
  <1> QED
    BY <1>2, <1>3, <1>4, <1>5

\* A report that is answered is done, and each of its fights with two numbers taken.
LEMMA TakeKeeps ==
    ASSUME HpsInv, NEW r \in Reports, NEW got, TakeAnswer(r, got),
           got \subseteq FightsOf(r) \cap todo \cap ranked,
           unanswered \subseteq unanswered', unanswered' \subseteq Reports, missed' = missed,
           r \in unanswered' \/ got = FightsOf(r) \cap todo \cap ranked
    PROVE  HpsInv'
  <1> USE HpsAssumption DEF HpsInv
  <1>1. /\ hpc = "wait" /\ r \in asked /\ asked' = asked \ {r} /\ open' = open \ {r}
        /\ list' = [f \in Fights |-> IF f \in got THEN list[f] + 1 ELSE list[f]]
        /\ cached \subseteq cached' /\ cached' \subseteq cached \cup got
        /\ UNCHANGED <<ranked, hpc, gone, who, listed, todo, tries, failed, state, rows>>
    BY DEF TakeAnswer, request, result
  <1>2. \A f \in got : f \in todo /\ f \in ranked /\ ReportOf[f] = r /\ list[f] = 0
    BY <1>1 DEF HpsTypeOK, TakenOnce, FightsOf
  <1>3. HpsTypeOK' /\ Fresh'
    BY <1>1, <1>2 DEF HpsTypeOK, Fresh
  <1>4. TakenOnce'
    BY <1>1, <1>2 DEF HpsTypeOK, TakenOnce
  <1>5. NoneForgotten'
    BY <1>1, <1>2 DEF HpsTypeOK, NoneForgotten, FightsOf
  <1>6. MissedEachRound'
    BY <1>1 DEF MissedEachRound
  <1>7. CountedAsListed' /\ NothingIsLeftOut'
    BY <1>1 DEF Fresh, CountedAsListed, NothingIsLeftOut
  <1> QED
    BY <1>3, <1>4, <1>5, <1>6, <1>7

LEMMA AnswerKeeps ==
    ASSUME HpsInv, NEW r \in Reports, Answered(r) \/ AnsweredNull(r) PROVE HpsInv'
  <1>1. CASE Answered(r)
    BY <1>1, TakeKeeps DEF Answered, history, HpsInv, HpsTypeOK
  <1>2. CASE AnsweredNull(r)
    BY <1>2, TakeKeeps DEF AnsweredNull, HpsInv, HpsTypeOK
  <1> QED
    BY <1>1, <1>2

\* A report that got no answer stays open.
LEMMA NoAnswerKeeps ==
    ASSUME HpsInv, NEW r \in Reports, Missing(r) \/ Skipped(r) \/ CallFails(r) PROVE HpsInv'
  <1> USE HpsAssumption DEF HpsInv
  <1>1. /\ hpc = "wait" /\ r \in asked /\ asked' = asked \ {r}
        /\ UNCHANGED <<ranked, cached, hpc, gone, who, listed, todo, open, tries, list, state,
                       rows, unanswered>>
        /\ failed' \in BOOLEAN /\ (failed => failed')
    BY DEF Missing, Skipped, CallFails, HpsTypeOK, request, result, history
  <1>2. \/ missed' = [missed EXCEPT ![r] = @ + 1]
        \/ missed' = missed /\ (gone \/ failed')
    BY DEF Missing, Skipped, CallFails, history
  <1>3. HpsTypeOK' /\ Fresh'
    BY <1>1, <1>2 DEF HpsTypeOK, Fresh
  <1>4. TakenOnce' /\ NoneForgotten'
    BY <1>1 DEF TakenOnce, NoneForgotten
  <1>5. MissedEachRound'
    BY <1>1, <1>2 DEF HpsTypeOK, MissedEachRound
  <1>6. CountedAsListed' /\ NothingIsLeftOut'
    BY <1>1 DEF Fresh, CountedAsListed, NothingIsLeftOut
  <1> QED
    BY <1>3, <1>4, <1>5, <1>6

LEMMA JoinedKeeps ==
    ASSUME HpsInv, Joined PROVE HpsInv'
  <1> USE DEF HpsInv
  <1>1. /\ hpc = "wait" /\ asked = {} /\ hpc' \in {"round", "done"}
        /\ hpc' = "round" => ~failed /\ state' = state
        /\ state' # "normal"
        /\ UNCHANGED <<ranked, cached, gone, who, listed, todo, open, asked, tries, failed, list,
                       rows, unanswered, missed>>
    BY DEF Joined, Finish, Fresh, request, fetch, history
  <1>2. HpsTypeOK' /\ Fresh'
    BY <1>1 DEF HpsTypeOK, Fresh
  <1>3. TakenOnce' /\ NoneForgotten' /\ MissedEachRound'
    BY <1>1 DEF TakenOnce, NoneForgotten, MissedEachRound
  <1>4. CountedAsListed' /\ NothingIsLeftOut'
    BY <1>1 DEF CountedAsListed, NothingIsLeftOut
  <1> QED
    BY <1>2, <1>3, <1>4

\* The table has what was loaded and taken.
LEMMA TableKeeps ==
    ASSUME HpsInv, Table PROVE HpsInv'
  <1> USE HpsAssumption DEF HpsInv
  <1>1. /\ hpc = "round" /\ hpc' = "done" /\ state' = "normal"
        /\ open = {} \/ tries = MaxTries
        /\ rows' = [f \in Fights |-> IF Mine(f) THEN list[f] ELSE 0]
        /\ UNCHANGED <<ranked, cached, gone, who, listed, todo, open, asked, tries, failed, list,
                       unanswered, missed>>
    BY DEF Table, Finish, request, fetch, history
  <1>2. \A f \in Fights : Mine(f)' <=> Mine(f)
    BY <1>1 DEF Mine
  <1>3. HpsTypeOK' /\ Fresh'
    BY <1>1 DEF HpsTypeOK, Fresh
  <1>4. TakenOnce' /\ NoneForgotten' /\ MissedEachRound'
    BY <1>1 DEF TakenOnce, NoneForgotten, MissedEachRound
  <1>5. CountedAsListed'
    BY <1>1, <1>2 DEF HpsTypeOK, TakenOnce, CountedAsListed
  <1>6. NothingIsLeftOut'
    <2> SUFFICES ASSUME NEW f \in Fights, listed[f] > 0, Mine(f), f \in ranked, rows'[f] = 0
                 PROVE  \/ ReportOf[f] \in unanswered
                        \/ missed[ReportOf[f]] = MaxTries
                        \/ gone
      BY <1>1, <1>2 DEF NothingIsLeftOut
    <2>1. list[f] = 0
      BY <1>1
    <2>2. f \in todo /\ (ReportOf[f] \notin open => ReportOf[f] \in unanswered)
      BY <1>1, <2>1 DEF NoneForgotten
    <2>3. CASE ReportOf[f] \in open
      BY <1>1, <2>3 DEF Fresh, MissedEachRound
    <2> QED
      BY <2>2, <2>3
  <1> QED
    BY <1>3, <1>4, <1>5, <1>6

LEMMA EndKeeps ==
    ASSUME HpsInv, EndOfRequest PROVE HpsInv'
  <1> USE HpsAssumption DEF HpsInv
  <1>1. HpsTypeOK' /\ Fresh'
    <2>1. /\ listed' \in [Fights -> Nat] /\ list' \in [Fights -> Nat] /\ rows' \in [Fights -> Nat]
          /\ missed' \in [Reports -> Nat]
      BY DEF EndOfRequest, None
    <2>2. asked' = {}
      BY DEF EndOfRequest, Fresh
    <2>3. /\ hpc' = "idle" /\ gone' = FALSE /\ failed' = FALSE /\ tries' = 0
          /\ todo' = {} /\ open' = {} /\ unanswered' = {} /\ UNCHANGED <<ranked, cached, who>>
      BY DEF EndOfRequest
    <2>6. todo' \subseteq {f \in Fights : listed'[f] > 0} /\ tries' \in 0 .. MaxTries
      BY <2>3
    <2>7. /\ asked' \subseteq open' /\ open' \subseteq Reports /\ unanswered' \subseteq Reports
          /\ ranked' \subseteq Fights /\ cached' \subseteq ranked' /\ who' \in Chars
      BY <2>2, <2>3 DEF HpsTypeOK
    <2>4. HpsTypeOK'
      BY <2>1, <2>3, <2>6, <2>7, Zenon DEF HpsTypeOK
    <2>5. Fresh'
      BY <2>2 DEF EndOfRequest, Fresh
    <2> QED
      BY <2>4, <2>5
  <1>2. TakenOnce' /\ NoneForgotten' /\ MissedEachRound'
    BY DEF EndOfRequest, TakenOnce, NoneForgotten, MissedEachRound, None
  <1>3. CountedAsListed' /\ NothingIsLeftOut'
    BY DEF EndOfRequest, CountedAsListed, NothingIsLeftOut
  <1> QED
    BY <1>1, <1>2, <1>3

-----------------------------------------------------------------------------
(* The theorems. *)

\* What a request has taken of each fight and why a report is still open, in every
\* state (ql_fight_rankings.go:78-263).
THEOREM HpsInvariance == HSpec => []HpsInv
  <1>1. HpsInv /\ [HNext]_hvars => HpsInv'
    <2> SUFFICES ASSUME HpsInv, [HNext]_hvars PROVE HpsInv'
      OBVIOUS
    <2> QED
      BY OutsideKeeps, CancelKeeps, LookupKeeps, RoundKeeps, AnswerKeeps, NoAnswerKeeps,
         JoinedKeeps, TableKeeps, EndKeeps
      DEF HNext
  <1> QED
    BY HpsStart, <1>1, PTL DEF HSpec

\* The table counts a fight at most as often as it is listed
\* (worker.go:194-237, ql_fight_rankings.go:93-105).
THEOREM CountsAreListed == HSpec => []CountedAsListed
  <1>1. HpsInv => CountedAsListed
    BY DEF HpsInv
  <1> QED
    BY <1>1, HpsInvariance, PTL

\* A fight that the table lacks has a reason (ql_fight_rankings.go:96-263).
THEOREM NothingLeftOut == HSpec => []NothingIsLeftOut
  <1>1. HpsInv => NothingIsLeftOut
    BY DEF HpsInv
  <1> QED
    BY <1>1, HpsInvariance, PTL
=============================================================================
