---------------------------- MODULE ProgressPump ----------------------------
(***************************************************************************)
(* How an analysis reports its progress: the caller and the goroutines of  *)
(* its pool put strings in a channel, a goroutine of its own, the pump,    *)
(* passes them on to the queue.  In the perfection analysis the channel    *)
(* has no buffer, a report waits for the pump, and the channel is closed   *)
(* at the end.  In the hps analysis it has room for one, a report is       *)
(* dropped when it is full, and an analysis that fails does not wait for   *)
(* the pump.                                                               *)
(***************************************************************************)
EXTENDS Naturals, FiniteSets

CONSTANTS
    Goroutines,   \* of the pool
    Main,         \* the goroutine of the analysis
    MaxCalls      \* bound: reports of Main

ASSUME PumpAssumption ==
    /\ IsFiniteSet(Goroutines)
    /\ Main \notin Goroutines
    /\ MaxCalls \in Nat

VARIABLES
    buffered,   \* the analysis: TRUE for hps, FALSE for perfection
    main,       \* "fetch", "leave", "await" the pump, "returned"
    ok,         \* the result
    ctxDone,    \* the context is done: the client is gone, or ctxCancel
    waiting,    \* goroutines that have not started
    alive,      \* goroutines that run
    reporting,  \* those of them, and Main, that are in progress()
    calls,      \* reports that Main made
    buffer,     \* strings in the channel
    pump,       \* "select", "report", "gone"
    closed,     \* the channel is closed
    late        \* reports passed on after the analysis had returned

vars == <<buffered, main, ok, ctxDone, waiting, alive, reporting, calls, buffer, pump, closed, late>>

Init ==
    /\ buffered \in BOOLEAN
    /\ main = "fetch" /\ ok = FALSE
    /\ ctxDone = FALSE
    /\ waiting = Goroutines /\ alive = {} /\ reporting = {} /\ calls = 0
    /\ buffer = 0 /\ pump = "select" /\ closed = FALSE
    /\ late = 0

-----------------------------------------------------------------------------
(* The analysis. *)

Spawn(g) ==
    /\ main = "fetch" /\ Main \notin reporting
    /\ g \in waiting
    /\ waiting' = waiting \ {g}
    /\ alive' = alive \cup {g}
    /\ UNCHANGED <<buffered, main, ok, ctxDone, reporting, calls, buffer, pump,
                   closed, late>>

\* Only hps looks at the context first.
MayReport == buffered => ~ctxDone

\* A goroutine reports last.
Report(g) ==
    /\ g \in alive \ reporting /\ MayReport
    /\ reporting' = reporting \cup {g}
    /\ UNCHANGED <<buffered, main, ok, ctxDone, waiting, alive, calls, buffer,
                   pump, closed, late>>

\* It fails, or is skipped, without a report.
End(g) ==
    /\ g \in alive \ reporting
    /\ alive' = alive \ {g}
    /\ UNCHANGED <<buffered, main, ok, ctxDone, waiting, reporting, calls, buffer,
                   pump, closed, late>>

MainReports ==
    /\ main = "fetch" /\ Main \notin reporting
    /\ calls < MaxCalls /\ MayReport
    /\ calls' = calls + 1
    /\ reporting' = reporting \cup {Main}
    /\ UNCHANGED <<buffered, main, ok, ctxDone, waiting, alive, buffer, pump,
                   closed, late>>

\* Fault: the fetch does not wait for its goroutines.
FetchedEarly ==
    /\ main = "fetch" /\ Main \notin reporting
    /\ main' = "leave"
    /\ ok' \in BOOLEAN
    /\ UNCHANGED <<buffered, ctxDone, waiting, alive, reporting, calls, buffer,
                   pump, closed, late>>

\* pp.Wait has returned, the results are there or not (FetchRounds).
Fetched ==
    /\ main = "fetch" /\ Main \notin reporting
    /\ alive = {}
    /\ main' = "leave"
    /\ ok' \in BOOLEAN
    /\ UNCHANGED <<buffered, ctxDone, waiting, alive, reporting, calls, buffer,
                   pump, closed, late>>

Awaits == ~buffered \/ ok

\* Fault: nobody waits for the pump.
LeavesAtOnce ==
    /\ main = "leave"
    /\ ctxDone' = TRUE
    /\ main' = "returned"
    /\ UNCHANGED <<buffered, ok, waiting, alive, reporting, calls, buffer, pump,
                   closed, late>>

\* Fault: without ctxCancel.
LeavesUncancelled ==
    /\ main = "leave"
    /\ main' = IF Awaits THEN "await" ELSE "returned"
    /\ UNCHANGED <<buffered, ok, ctxDone, waiting, alive, reporting, calls, buffer,
                   pump, closed, late>>

\* ctxCancel, then <-chanDone; the deferred ctxCancel when hps fails.
Leave ==
    /\ main = "leave"
    /\ ctxDone' = TRUE
    /\ main' = IF Awaits THEN "await" ELSE "returned"
    /\ UNCHANGED <<buffered, ok, waiting, alive, reporting, calls, buffer, pump,
                   closed, late>>

Return ==
    /\ main = "await" /\ pump = "gone"
    /\ main' = "returned"
    /\ closed' = ~buffered
    /\ UNCHANGED <<buffered, ok, ctxDone, waiting, alive, reporting, calls, buffer,
                   pump, late>>

ClientGone ==
    /\ ctxDone' = TRUE
    /\ UNCHANGED <<buffered, main, ok, waiting, alive, reporting, calls, buffer,
                   pump, closed, late>>

-----------------------------------------------------------------------------
(* progress() of g. *)

Reported(g) == reporting' = reporting \ {g} /\ alive' = alive \ {g}

\* The unbuffered channel hands the string to the pump.
Hand(g) ==
    /\ ~buffered
    /\ g \in reporting /\ pump = "select"
    /\ Reported(g)
    /\ pump' = "report"
    /\ UNCHANGED <<buffered, main, ok, ctxDone, waiting, calls, buffer, closed, late>>

\* The context may have ended since it was looked at.
Put(g) ==
    /\ buffered
    /\ g \in reporting /\ buffer = 0
    /\ Reported(g)
    /\ buffer' = 1
    /\ UNCHANGED <<buffered, main, ok, ctxDone, waiting, calls, pump, closed, late>>

GiveUp(g) ==
    /\ ctxDone \/ (buffered /\ buffer = 1)
    /\ g \in reporting
    /\ Reported(g)
    /\ UNCHANGED <<buffered, main, ok, ctxDone, waiting, calls, buffer, pump,
                   closed, late>>

-----------------------------------------------------------------------------
(* The pump: a select over the context and the channel, in no order. *)

Take ==
    /\ pump = "select" /\ buffer = 1
    /\ pump' = "report"
    /\ buffer' = 0
    /\ UNCHANGED <<buffered, main, ok, ctxDone, waiting, alive, reporting, calls,
                   closed, late>>

PassOn ==
    /\ pump = "report"
    /\ pump' = "select"
    /\ late' = IF main = "returned" THEN late + 1 ELSE late
    /\ UNCHANGED <<buffered, main, ok, ctxDone, waiting, alive, reporting, calls,
                   buffer, closed>>

PumpEnds ==
    /\ pump = "select" /\ ctxDone
    /\ pump' = "gone"
    /\ UNCHANGED <<buffered, main, ok, ctxDone, waiting, alive, reporting, calls,
                   buffer, closed, late>>

Progress(g) == Hand(g) \/ Put(g) \/ GiveUp(g)
Pump == Take \/ PassOn \/ PumpEnds
Analysis == Fetched \/ Leave \/ Return

Next ==
    \/ \E g \in Goroutines : Spawn(g) \/ Report(g) \/ End(g)
    \/ \E g \in Goroutines \cup {Main} : Progress(g)
    \/ MainReports \/ Analysis \/ ClientGone
    \/ Pump

Spec == Init /\ [][Next]_vars

\* Goroutines run, the calls of the fetch return, and so does the queue's report.
FairSpec ==
    /\ Spec
    /\ WF_vars(Pump) /\ WF_vars(Analysis)
    /\ \A g \in Goroutines : WF_vars(End(g))
    /\ \A g \in Goroutines \cup {Main} : WF_vars(Progress(g))

-----------------------------------------------------------------------------
(* Properties. *)

\* The range of every variable; the channel never holds more than its room.
PumpTypeOK ==
    /\ buffered \in BOOLEAN
    /\ main \in {"fetch", "leave", "await", "returned"} /\ ok \in BOOLEAN
    /\ ctxDone \in BOOLEAN /\ closed \in BOOLEAN
    /\ waiting \subseteq Goroutines /\ alive \subseteq Goroutines \ waiting
    /\ reporting \subseteq alive \cup {Main}
    /\ calls \in 0 .. MaxCalls
    /\ buffer \in IF buffered THEN 0 .. 1 ELSE {0}
    /\ pump \in {"select", "report", "gone"}
    /\ late \in Nat

\* Nobody sends into the channel, or reads it, once it is closed: a send would
\* panic and end the program (fflogs_0_base.go:80, fflogs.go:115-120).
ClosedWhenUnused == closed => reporting = {} /\ alive = {} /\ pump = "gone"

\* Nothing is passed on after an analysis returned; of an hps analysis that failed,
\* two strings at most: one in the pump's hands and one in the channel
\* (fflogs_0_base.go:121-122, worker.go:172-175).
FewReportsAreLate == late <= IF buffered /\ ~ok THEN 2 ELSE 0

\* An analysis whose calls return does, whoever waits for whom to report, and leaves
\* no pump behind (fflogs_0_base.go:101-124, fflogs.go:115-120, worker.go:150-186).
AnalysisReturns == <>(main = "returned") /\ (main = "returned" ~> pump = "gone")

-----------------------------------------------------------------------------
(* What they rest on. *)

\* No goroutine outlives the fetch, and the pump no analysis that awaits it.
PumpJoined ==
    /\ Main \in reporting => main = "fetch"
    /\ main # "fetch" => alive = {}
    /\ main = "await" => Awaits
    /\ main = "returned" /\ Awaits => pump = "gone"
    /\ closed => main = "returned" /\ Awaits

Passing == IF pump = "report" THEN 1 ELSE 0

LateCount ==
    /\ main # "returned" \/ Awaits => late = 0
    /\ late + buffer + Passing <= 2

PumpInv == PumpTypeOK /\ PumpJoined /\ LateCount
=============================================================================
