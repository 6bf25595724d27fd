---------------------------- MODULE AnalysisQueue ----------------------------
(***************************************************************************)
(* The request path of the service: one handler goroutine per websocket    *)
(* (routeRequest, analysispool.Do), the queue of requests, the single      *)
(* worker that runs the analyses (queueWorker), the goroutines that tell   *)
(* clients their place in the queue, the ping ticker and what the browser  *)
(* shows.  A message is <<event>> or <<event, place>>.                     *)
(*                                                                         *)
(* What the pages hold is left to ResultPages, which adds the page buffers *)
(* and the cache to these actions: here a lookup hits or misses.           *)
(***************************************************************************)
EXTENDS Naturals, Sequences

CONSTANTS
    Conns,        \* websocket connections, each served by one handler
    Hps,          \* connections that ask for service "hps"; others "perfection"
    Fragile,      \* connections whose link may fail
    Stragglers,   \* progress messages a failed hps.Do can leave in flight
    NoConn

ASSUME QueueAssumption ==
    /\ NoConn \notin Conns
    /\ Hps \subseteq Conns
    /\ Fragile \subseteq Conns
    /\ Stragglers \in Nat

VARIABLES
    queue,        \* the waiting requests, oldest first
    queueWake,    \* the token of the one-place wake-up channel
    order,        \* queueCount: the length of the queue after joining it, else 0
    wpc, wq, res, \* the worker: where it is, its request, the result it reports
    hpc,          \* where each handler is
    chanResult,   \* the one-place result channel of each request
    link,         \* whether a write to the websocket reaches the client
    cancelled,    \* the context of the request is done
    screen,       \* the browser: the last event it handled
    ok,           \* the browser: it got a page
    reorders,     \* <<c, i>>: a goroutine about to tell c that it is i-th
    stragglers    \* progress messages the pump of a failed hps.Do still holds

queueVars  == <<queue, queueWake, order>>
workerVars == <<wpc, wq, res>>
netVars    == <<link, cancelled, screen, ok>>
lateVars   == <<reorders, stragglers>>
vars == <<queueVars, workerVars, hpc, chanResult, netVars, lateVars>>

Waiting == {queue[i] : i \in DOMAIN queue}

Init ==
    /\ queue = <<>> /\ queueWake = FALSE
    /\ wpc = "scan" /\ wq = NoConn /\ res = FALSE
    /\ hpc = [c \in Conns |-> "idle"]
    /\ order = [c \in Conns |-> 0]
    /\ cancelled = [c \in Conns |-> FALSE]
    /\ chanResult = [c \in Conns |-> "empty"]
    /\ link = [c \in Conns |-> "up"]
    /\ reorders = {} /\ stragglers = [c \in Conns |-> 0]
    /\ screen = [c \in Conns |-> <<"blank">>]
    /\ ok = [c \in Conns |-> FALSE]

(***************************************************************************)
(* The websocket.  Every write of a queueData that fails cancels its       *)
(* context; gorilla keeps the error, so later writes fail as well.         *)
(***************************************************************************)
Shows(c, event) ==
    IF link[c] = "up"
      THEN /\ screen' = [screen EXCEPT ![c] = event]
           /\ UNCHANGED cancelled
      ELSE /\ cancelled' = [cancelled EXCEPT ![c] = TRUE]
           /\ UNCHANGED screen

Send(c, event) == Shows(c, event) /\ UNCHANGED <<link, ok>>

\* The browser loses the connection: onclose reports an error unless a page came.
ConnectionLost(c) ==
    screen' = IF link[c] = "up" /\ ~ok[c]
                THEN [screen EXCEPT ![c] = <<"error">>] ELSE screen

Goto(c, label) == hpc' = [hpc EXCEPT ![c] = label]

-----------------------------------------------------------------------------
(* The handler of connection c. *)

\* routeRequest and Do up to the cache: the token is read and confirmed, "ready"
\* is sent, the request is read.  Nothing is shared until then, so this is one
\* step.
Admit(c) ==
    /\ hpc[c] = "idle"
    /\ Goto(c, "lookup")
    /\ UNCHANGED <<queueVars, workerVars, chanResult, netVars, lateVars>>

\* No token within 10 s, one that is not confirmed, "ready" cannot be sent, no
\* request within 5 s or one that is not JSON: the deferred ctxCancel and
\* ws.Close, without a close frame.
Refuse(c) ==
    /\ hpc[c] = "idle"
    /\ Goto(c, "done")
    /\ cancelled' = [cancelled EXCEPT ![c] = TRUE]
    /\ link' = [link EXCEPT ![c] = "closed"]
    /\ ConnectionLost(c)
    /\ UNCHANGED <<queueVars, workerVars, chanResult, ok, lateVars>>

\* The page is in the cache: no queue, no ping ticker.
LookupHit(c) ==
    /\ hpc[c] = "lookup"
    /\ Goto(c, "succ")
    /\ UNCHANGED <<queueVars, workerVars, chanResult, netVars, lateVars>>

LookupMiss(c) ==
    /\ hpc[c] = "lookup"
    /\ Goto(c, "enqueue")
    /\ UNCHANGED <<queueVars, workerVars, chanResult, netVars, lateVars>>

\* The wake-up channel after a non-blocking send if the queue was empty.
WokenIfLenIsOne == queueWake \/ Len(queue) = 1                   \* fault
Woken == queueWake \/ queue = <<>>

JoinedInFront(c) == <<c>> \o queue                               \* fault
Joined(c) == Append(queue, c)

\* Under queueLock: wake the worker if the queue was empty, join the queue.
Enqueue(c) ==
    /\ hpc[c] = "enqueue"
    /\ queueWake' = Woken
    /\ queue' = Joined(c)
    /\ order' = [order EXCEPT ![c] = Len(queue) + 1]
    /\ Goto(c, "position")
    /\ UNCHANGED <<workerVars, chanResult, netVars, lateVars>>

\* q.Reorder(queueCount): when the write fails the result is not awaited.
SendPosition(c) ==
    /\ hpc[c] = "position"
    /\ Send(c, <<"waiting", order[c]>>)
    /\ Goto(c, IF link[c] = "up" THEN "await" ELSE "linger")
    /\ UNCHANGED <<queueVars, workerVars, chanResult, lateVars>>

\* select on ctx.Done() and the result.
StopsWaitingAtAnyTime(c) == TRUE                                 \* fault
StopsWaiting(c) == cancelled[c]

AwaitCancelled(c) ==
    /\ hpc[c] = "await"
    /\ StopsWaiting(c)
    /\ Goto(c, "linger")
    /\ UNCHANGED <<queueVars, workerVars, chanResult, netVars, lateVars>>

SaysNothingOfFailure(r) == IF r = "true" THEN "save" ELSE "linger"   \* fault
AfterResult(r) == IF r = "true" THEN "save" ELSE "fail"

AwaitResult(c) ==
    /\ hpc[c] = "await"
    /\ chanResult[c] # "empty"
    /\ chanResult' = [chanResult EXCEPT ![c] = "empty"]
    /\ Goto(c, AfterResult(chanResult[c]))
    /\ UNCHANGED <<queueVars, workerVars, netVars, lateVars>>

SavePage(c) ==
    /\ hpc[c] = "save"
    /\ Goto(c, "succ")
    /\ UNCHANGED <<queueVars, workerVars, chanResult, netVars, lateVars>>

\* A cached page ends the request; only without one is there an analysis.
QueuedAfterHit(c) == IF order[c] = 0 THEN "enqueue" ELSE "linger"    \* fault
AfterPage(c) == "linger"

Succ(c) ==
    /\ hpc[c] = "succ"
    /\ Shows(c, <<"complete">>)
    /\ ok' = [ok EXCEPT ![c] = @ \/ link[c] = "up"]
    /\ Goto(c, AfterPage(c))
    /\ UNCHANGED <<queueVars, workerVars, chanResult, link, lateVars>>

\* Fault: the context is cancelled whether or not the write failed.
ErrorCancels(c) ==
    /\ hpc[c] = "fail"
    /\ screen' = [screen EXCEPT ![c] = IF link[c] = "up" THEN <<"error">> ELSE @]
    /\ cancelled' = [cancelled EXCEPT ![c] = TRUE]
    /\ Goto(c, "linger")
    /\ UNCHANGED <<queueVars, workerVars, chanResult, link, ok, lateVars>>

Error(c) ==
    /\ hpc[c] = "fail"
    /\ Send(c, <<"error">>)
    /\ Goto(c, "linger")
    /\ UNCHANGED <<queueVars, workerVars, chanResult, lateVars>>

\* After 3 s: close frame, ws.Close, the deferred ctxCancel.
Finish(c) ==
    /\ hpc[c] = "linger"
    /\ Goto(c, "done")
    /\ cancelled' = [cancelled EXCEPT ![c] = TRUE]
    /\ link' = [link EXCEPT ![c] = "closed"]
    /\ UNCHANGED <<queueVars, workerVars, chanResult, screen, ok, lateVars>>

\* The ticker runs from the cache miss to the end of the handler.
PingingInQueue(c) == c \in Waiting                               \* fault
Pinging(c) == hpc[c] = "enqueue" \/ order[c] > 0

\* A ping that cannot be written cancels.
PingFails(c) ==
    /\ Pinging(c)
    /\ link[c] # "up"
    /\ ~cancelled[c]
    /\ cancelled' = [cancelled EXCEPT ![c] = TRUE]
    /\ UNCHANGED <<queueVars, workerVars, hpc, chanResult, link, screen, ok,
                   lateVars>>

-----------------------------------------------------------------------------
(* The worker. *)

ShortenedIfShifted == IF Len(queue) > 1 THEN Tail(queue) ELSE queue  \* fault
Shortened == Tail(queue)

First == Head(queue)

PlacesFromZero == {<<queue[i], i - 2>> : i \in 2 .. Len(queue)}  \* fault
NewPlaces == {<<queue[i], i - 1>> : i \in 2 .. Len(queue)}

\* Under queueLock: take the first request, tell the others their new place.
WorkerTake ==
    /\ wpc = "scan"
    /\ queue # <<>>
    /\ wq' = First
    /\ queue' = Shortened
    /\ reorders' = reorders \cup NewPlaces
    /\ wpc' = "start"
    /\ UNCHANGED <<queueWake, order, res, hpc, chanResult, netVars, stragglers>>

WorkerSleep ==
    /\ wpc = "scan"
    /\ queue = <<>>
    /\ wpc' = "wait"
    /\ UNCHANGED <<queueVars, wq, res, hpc, chanResult, netVars, lateVars>>

WorkerWake ==
    /\ wpc = "wait"
    /\ queueWake
    /\ queueWake' = FALSE
    /\ wpc' = "scan"
    /\ UNCHANGED <<queue, order, wq, res, hpc, chanResult, netVars, lateVars>>

WorkerStart ==
    /\ wpc = "start"
    /\ Send(wq, <<"start">>)
    /\ wpc' = "check"
    /\ UNCHANGED <<queueVars, wq, res, hpc, chanResult, lateVars>>

WorkerRun ==
    /\ wpc = "check"
    /\ ~cancelled[wq]
    /\ wpc' = "run"
    /\ UNCHANGED <<queueVars, wq, res, hpc, chanResult, netVars, lateVars>>

\* A request whose context is done: false is sent without a select.
WorkerSkip ==
    /\ wpc = "check"
    /\ cancelled[wq]
    /\ chanResult[wq] = "empty"
    /\ chanResult' = [chanResult EXCEPT ![wq] = "false"]
    /\ wpc' = "scan" /\ wq' = NoConn
    /\ UNCHANGED <<queueVars, res, hpc, netVars, lateVars>>

\* perfection.Do and hps.Do report their progress ...
Progress ==
    /\ wpc = "run"
    /\ Send(wq, <<"progress">>)
    /\ UNCHANGED <<queueVars, workerVars, hpc, chanResult, lateVars>>

\* ... and end by rendering the page, which a context that is done does not stop
\* once the data is there, ...
Render ==
    /\ wpc = "run"
    /\ res' = TRUE /\ wpc' = "report"
    /\ UNCHANGED <<queueVars, wq, hpc, chanResult, netVars, lateVars>>

\* ... or fail, as does a service nobody knows, without an analysis.  hps.Do then
\* returns without joining its progress pump.
AnalysisFails ==
    /\ wpc = "run"
    /\ \E n \in 0 .. (IF wq \in Hps THEN Stragglers ELSE 0) :
         stragglers' = [stragglers EXCEPT ![wq] = n]
    /\ res' = FALSE /\ wpc' = "report"
    /\ UNCHANGED <<queueVars, wq, hpc, chanResult, netVars, reorders>>

DroppedUnlessAwaited == hpc[wq] # "await"                        \* fault
Dropped == cancelled[wq]

\* select: the result is accepted, or dropped because the context is done.
Report ==
    /\ wpc = "report"
    /\ \/ /\ chanResult[wq] = "empty"
          /\ chanResult' = [chanResult EXCEPT ![wq] = IF res THEN "true" ELSE "false"]
       \/ Dropped /\ UNCHANGED chanResult
    /\ wpc' = "scan" /\ wq' = NoConn
    /\ UNCHANGED <<queueVars, res, hpc, netVars, lateVars>>

-----------------------------------------------------------------------------
(* Goroutines that write to a websocket on their own time, and the outside. *)

SendReorder(c) ==
    \E i \in {r[2] : r \in {r \in reorders : r[1] = c}} :
      /\ reorders' = reorders \ {<<c, i>>}
      /\ Send(c, <<"waiting", i>>)
      /\ UNCHANGED <<queueVars, workerVars, hpc, chanResult, stragglers>>

Straggle(c) ==
    /\ stragglers[c] > 0
    /\ stragglers' = [stragglers EXCEPT ![c] = @ - 1]
    /\ Send(c, <<"progress">>)
    /\ UNCHANGED <<queueVars, workerVars, hpc, chanResult, reorders>>

\* The client goes away, its link breaks, or a write runs into its deadline.  Start
\* and Progress set none (queue.go:149-175) and use what the ticker set last
\* (http.go:82-85): if that has run out they fail on a sound link, which is a link
\* that fails here, too.
LinkFails(c) ==
    /\ c \in Fragile
    /\ link[c] = "up"
    /\ hpc[c] # "idle"
    /\ ConnectionLost(c)
    /\ link' = [link EXCEPT ![c] = "down"]
    /\ UNCHANGED <<queueVars, workerVars, hpc, chanResult, cancelled, ok,
                   lateVars>>

\* Nothing is left to do until the next connection.
Rest ==
    /\ wpc = "wait" /\ ~queueWake
    /\ \A c \in Conns : hpc[c] = "done"
    /\ UNCHANGED vars

-----------------------------------------------------------------------------
Handler(c) ==
    \/ LookupHit(c) \/ LookupMiss(c)
    \/ Enqueue(c) \/ SendPosition(c)
    \/ AwaitCancelled(c) \/ AwaitResult(c)
    \/ SavePage(c) \/ Succ(c) \/ Error(c) \/ Finish(c)

Connection(c) ==
    \/ Admit(c) \/ Refuse(c) \/ Handler(c) \/ PingFails(c)
    \/ SendReorder(c) \/ Straggle(c) \/ LinkFails(c)

Worker ==
    \/ WorkerTake \/ WorkerSleep \/ WorkerWake \/ WorkerStart
    \/ WorkerRun \/ WorkerSkip \/ Render \/ AnalysisFails \/ Report

Next ==
    \/ \E c \in Conns : Connection(c)
    \/ Worker
    \/ Progress
    \/ Rest

Spec == Init /\ [][Next]_vars

HandlersRun == \A c \in Conns : WF_vars(Handler(c)) /\ WF_vars(PingFails(c))

\* An analysis ends, and the worker goes on: an assumption of the properties that
\* need it, since CallGraphQL has no time limit of its own.
WorkerRuns == WF_vars(Worker)

\* Goroutines are scheduled and tickers fire; the worker may hang for good.
FairSpec == Spec /\ HandlersRun
-----------------------------------------------------------------------------
(* Properties. *)

Screens ==
    {<<e>> : e \in {"blank", "start", "progress", "error", "complete"}}
      \cup ({"waiting"} \X (Nat \ {0}))

\* The range of every variable; the worker has a request exactly outside the
\* scan of the queue (queue.go:62-80).
TypeOK ==
    /\ queue \in Seq(Conns)
    /\ queueWake \in BOOLEAN
    /\ order \in [Conns -> Nat]
    /\ wpc \in {"scan", "wait", "start", "check", "run", "report"}
    /\ wq \in Conns \cup {NoConn}
    /\ wq = NoConn <=> wpc \in {"scan", "wait"}
    /\ res \in BOOLEAN
    /\ hpc \in [Conns -> {"idle", "lookup", "enqueue", "position", "await", "save",
                        "succ", "fail", "linger", "done"}]
    /\ chanResult \in [Conns -> {"empty", "true", "false"}]
    /\ link \in [Conns -> {"up", "down", "closed"}]
    /\ cancelled \in [Conns -> BOOLEAN]
    /\ screen \in [Conns -> Screens]
    /\ ok \in [Conns -> BOOLEAN]
    /\ reorders \subseteq Conns \X (Nat \ {0})
    /\ stragglers \in [Conns -> 0 .. Stragglers]

\* A request in the queue finds the worker awake or the wake-up token in the
\* channel: the worker that scanned an empty queue and released queueLock
\* before blocking on queueWake never sleeps through an append (queue.go:77-80
\* against http.go:102-111).
NoLostWakeup == wpc = "wait" /\ queue # <<>> => queueWake

\* The worker sends the result of a request into a channel of one place; the
\* send without a select (queue.go:86) would stop every analysis if the place
\* were taken.  It is free whenever the worker has the request.
WorkerNeverBlocks == wq # NoConn => chanResult[wq] = "empty"

\* No place in the queue that is still to be told, or that a browser shows, is
\* better than the real one, although the handler and one goroutine for each
\* shift of the queue tell it in any order (queue.go:70, http.go:110-113).
PositionNeverUnderstated ==
    \A i \in DOMAIN queue :
      LET c == queue[i] IN
      /\ order[c] >= i
      /\ \A r \in reorders : r[1] = c => r[2] >= i
      /\ screen[c][1] = "waiting" => screen[c][2] >= i

\* The context of a request is done only when its client can no longer be
\* written to (the cancels of queue.go:142-204 and http.go:92): no client that
\* is there loses its analysis.
CancelledOnlyWhenUnreachable == \A c \in Conns : cancelled[c] => link[c] # "up"

\* The handler writes the close frame without msgLock (http.go:129-130).  On a
\* link that works the worker has let go of the request by then, so it does
\* not write at the same time.  A Reorder goroutine or a straggling progress
\* message may: this says nothing of them.
CloseFrameAlone ==
    \A c \in Conns : hpc[c] = "linger" /\ link[c] = "up" => wq # c /\ c \notin Waiting

\* A client whose link works is told the outcome before its handler winds up:
\* no path through the select of http.go:113-125 leaves it with a spinner.
AnsweredBeforeLinger ==
    [][\A c \in Conns :
         hpc[c] # "linger" /\ hpc'[c] = "linger" /\ link'[c] = "up"
           => screen'[c] \in {<<"complete">>, <<"error">>}]_vars

\* Once the browser shows the outcome, only what was already on its way before
\* the outcome can replace it: a place from a Reorder goroutine, or a straggling
\* progress message of a failed hps.Do.  The loss of the link takes no page away.
OutcomeStays ==
    [][\A c \in Conns :
         screen[c] \in {<<"complete">>, <<"error">>} /\ screen'[c] # screen[c]
           => \/ screen'[c][1] = "waiting" /\ <<c, screen'[c][2]>> \in reorders
              \/ screen'[c] = <<"progress">> /\ stragglers[c] > 0]_vars

\* Every connection that is admitted is wound up if analyses end.
HandlersFinish ==
    WorkerRuns => \A c \in Conns : hpc[c] = "lookup" ~> hpc[c] = "done"

\* A waiting handler whose client is gone is released even when the worker is
\* stuck in another analysis: the ping ticker cancels it (http.go:79-100).
GoneClientsReleased ==
    \A c \in Conns : order[c] > 0 /\ link[c] = "down" ~> hpc[c] = "done"

\* The requests the queue and the worker have.
Held == Waiting \cup ({wq} \ {NoConn})

Entered(c) == hpc[c] \in {"position", "await", "linger", "done"}

\* A request is held once: it joins the queue once and the worker removes what
\* it takes (http.go:109, queue.go:66-74).
HeldOnce ==
    /\ \A i, j \in DOMAIN queue : queue[i] = queue[j] => i = j
    /\ wq \notin Waiting

\* The result channel of a request that is held is empty, and a handler that
\* went on without the result was cancelled (http.go:113-115, queue.go:85-99).
HeldUnanswered ==
    \A c \in Held :
      /\ Entered(c) /\ chanResult[c] = "empty"
      /\ hpc[c] \in {"linger", "done"} => cancelled[c]

\* A request has a place once it joined the queue, and only then is one told.
PlaceOnceJoined ==
    /\ \A c \in Conns :
         /\ hpc[c] \in {"idle", "lookup", "enqueue"}
              => order[c] = 0 /\ chanResult[c] = "empty"
         /\ hpc[c] \in {"position", "await"} \/ c \in Held => order[c] > 0
         /\ screen[c][1] = "waiting" => order[c] > 0
    /\ \A r \in reorders : order[r[1]] > 0

QueueInv ==
    HeldOnce /\ HeldUnanswered /\ PlaceOnceJoined /\ CancelledOnlyWhenUnreachable

(***************************************************************************)
(* The queue as its handlers see it.                                       *)
(***************************************************************************)
Served == {c \in Conns : order[c] > 0 /\ c # wq /\ c \notin Waiting}

Dispatcher ==
    INSTANCE Dispatch WITH waiting <- queue, running <- wq, served <- Served

\* Requests are taken in the order in which they joined the queue, one at a time,
\* each at most once (queue.go:62-102, http.go:102-111).
DispatchSpec == Dispatcher!Spec

\* If analyses end, each of them is taken, and the worker gets done with it.
DispatchFair == WorkerRuns => Dispatcher!Fairness
=============================================================================
