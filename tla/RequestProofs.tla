--------------------------- MODULE RequestProofs ----------------------------
(***************************************************************************)
(* The path of a request, for any number of connections: the invariants of *)
(* AnalysisQueue, all of which follow from the inductive TypeOK /\ QueueInv *)
(* but those of what a browser shows, and its refinement of Dispatch.      *)
(*                                                                         *)
(* Then its pages, for any number of buffers and keys: ResultPages is      *)
(* AnalysisQueue with pages, and its inductive invariant adds the types of *)
(* the page variables, private buffers and what the buffers hold.          *)
(***************************************************************************)
EXTENDS ResultPages, TLAPS, SequenceTheorems

Inv == TypeOK /\ QueueInv

USE QueueAssumption

-----------------------------------------------------------------------------
(* Facts about messages and about the queue as a sequence. *)

LEMMA Messages ==
    /\ \A e \in {"blank", "start", "progress", "error", "complete"} :
         <<e>> \in Screens /\ <<e>>[1] = e
    /\ \A i \in Nat \ {0} :
         <<"waiting", i>> \in Screens /\ <<"waiting", i>>[1] = "waiting"
                                      /\ <<"waiting", i>>[2] = i
  BY DEF Screens

\* Appending a request to the queue and removing the first one.
LEMMA AppendFacts ==
    ASSUME NEW S, NEW s \in Seq(S), NEW x \in S
    PROVE  /\ Append(s, x) \in Seq(S)
           /\ Len(Append(s, x)) = Len(s) + 1
           /\ Append(s, x)[Len(s) + 1] = x
           /\ \A i \in 1 .. Len(s) : Append(s, x)[i] = s[i]
           /\ DOMAIN s = 1 .. Len(s)
           /\ DOMAIN Append(s, x) = 1 .. Len(s) + 1
           /\ Append(s, x) # <<>>
  OBVIOUS

LEMMA TailFacts ==
    ASSUME NEW S, NEW s \in Seq(S), s # <<>>
    PROVE  /\ Head(s) \in S /\ Head(s) = s[1]
           /\ Tail(s) \in Seq(S)
           /\ Len(s) \in Nat \ {0}
           /\ Len(Tail(s)) = Len(s) - 1
           /\ \A i \in 1 .. Len(s) - 1 : Tail(s)[i] = s[i + 1]
           /\ DOMAIN s = 1 .. Len(s)
           /\ DOMAIN Tail(s) = 1 .. Len(s) - 1
  OBVIOUS

\* The elements of a sequence, and whether each occurs once.
Elements(s) == {s[i] : i \in DOMAIN s}
Distinct(s) == \A i, j \in DOMAIN s : s[i] = s[j] => i = j

LEMMA AppendElements ==
    ASSUME NEW S, NEW s \in Seq(S), NEW x \in S
    PROVE  /\ Elements(Append(s, x)) = Elements(s) \cup {x}
           /\ Distinct(s) /\ x \notin Elements(s) => Distinct(Append(s, x))
  <1> DEFINE t == Append(s, x)
  <1>1. /\ Len(s) \in Nat /\ DOMAIN s = 1 .. Len(s) /\ DOMAIN t = 1 .. Len(s) + 1
        /\ t[Len(s) + 1] = x
        /\ \A i \in 1 .. Len(s) : t[i] = s[i]
    BY AppendFacts
  <1> HIDE DEF t
  <1>2. ASSUME NEW y \in Elements(t) PROVE y \in Elements(s) \cup {x}
    BY <1>1 DEF Elements
  <1>3. ASSUME NEW y \in Elements(s) \cup {x} PROVE y \in Elements(t)
    BY <1>1 DEF Elements
  <1>4. ASSUME Distinct(s), x \notin Elements(s) PROVE Distinct(t)
    BY <1>1, <1>4 DEF Elements, Distinct
  <1> QED
    BY <1>2, <1>3, <1>4 DEF t

LEMMA TailElements ==
    ASSUME NEW S, NEW s \in Seq(S), s # <<>>, Distinct(s)
    PROVE  /\ Elements(s) = Elements(Tail(s)) \cup {Head(s)}
           /\ Head(s) \notin Elements(Tail(s))
           /\ Distinct(Tail(s))
  <1> DEFINE t == Tail(s)
  <1>1. /\ Len(s) \in Nat \ {0} /\ Head(s) = s[1]
        /\ DOMAIN s = 1 .. Len(s) /\ DOMAIN t = 1 .. Len(s) - 1
        /\ \A i \in 1 .. Len(s) - 1 : t[i] = s[i + 1]
    BY TailFacts
  <1> HIDE DEF t
  <1>2. ASSUME NEW y \in Elements(t) PROVE y \in Elements(s) /\ y # Head(s)
    <2>1. PICK i \in 1 .. Len(s) - 1 : y = s[i + 1]
      BY <1>1 DEF Elements
    <2>2. i + 1 \in DOMAIN s /\ i + 1 # 1 /\ 1 \in DOMAIN s
      BY <1>1, <2>1
    <2> QED
      BY <1>1, <2>1, <2>2 DEF Elements, Distinct
  <1>3. ASSUME NEW y \in Elements(s), y # Head(s) PROVE y \in Elements(t)
    <2>1. PICK i \in 1 .. Len(s) : y = s[i] /\ i # 1
      BY <1>1, <1>3 DEF Elements
    <2>2. i - 1 \in 1 .. Len(s) - 1 /\ t[i - 1] = s[i]
      BY <1>1, <2>1
    <2> QED
      BY <1>1, <2>1, <2>2 DEF Elements
  <1>4. Head(s) \in Elements(s)
    BY <1>1 DEF Elements
  <1>5. Distinct(t)
    <2> SUFFICES ASSUME NEW i \in DOMAIN t, NEW j \in DOMAIN t, t[i] = t[j] PROVE i = j
      BY DEF Distinct
    <2>1. i + 1 \in DOMAIN s /\ j + 1 \in DOMAIN s /\ s[i + 1] = s[j + 1]
      BY <1>1
    <2> QED
      BY <1>1, <2>1 DEF Distinct
  <1> QED
    BY <1>2, <1>3, <1>4, <1>5 DEF t

LEMMA WaitingElements == Waiting = Elements(queue) /\ Waiting' = Elements(queue')
  BY DEF Waiting, Elements

LEMMA HeldOnceDistinct ==
    /\ HeldOnce <=> Distinct(queue) /\ wq \notin Waiting
    /\ HeldOnce' <=> Distinct(queue') /\ wq' \notin Waiting'
  BY DEF HeldOnce, Distinct

LEMMA InitInv == Init => Inv
  <1> SUFFICES ASSUME Init PROVE Inv
    OBVIOUS
  <1>1. TypeOK
    <2>1. screen \in [Conns -> Screens]
      BY Messages DEF Init
    <2>2. /\ queueWake \in BOOLEAN /\ res \in BOOLEAN
          /\ cancelled \in [Conns -> BOOLEAN]
          /\ ok \in [Conns -> BOOLEAN]
      BY DEF Init
    <2>3. /\ queue \in Seq(Conns) /\ order \in [Conns -> Nat]
          /\ stragglers \in [Conns -> 0 .. Stragglers]
      BY DEF Init
    <2>4. wq \in Conns \cup {NoConn} /\ reorders \subseteq Conns \X (Nat \ {0})
      BY DEF Init
    <2>5. wq = NoConn <=> wpc \in {"scan", "wait"}
      BY DEF Init
    <2> QED
      BY <2>1, <2>2, <2>3, <2>4, <2>5 DEF Init, TypeOK
  <1>2. Waiting = {} /\ Held = {}
    BY DEF Init, Waiting, Held
  <1>3. QueueInv
    BY <1>2, Messages
    DEF Init, QueueInv, HeldOnce, HeldUnanswered, PlaceOnceJoined,
        CancelledOnlyWhenUnreachable, Waiting
  <1> QED
    BY <1>1, <1>3 DEF Inv

LEMMA TypeStep == Inv /\ [Next]_vars => TypeOK'
  <1> SUFFICES ASSUME TypeOK, QueueInv, [Next]_vars PROVE TypeOK'
    BY DEF Inv
  <1> USE DEF TypeOK, queueVars, workerVars, netVars, lateVars
  <1>1. ASSUME NEW c \in Conns, Admit(c) PROVE TypeOK'
    BY <1>1, Messages DEF Admit, Goto
  <1>2. ASSUME NEW c \in Conns, Refuse(c) PROVE TypeOK'
    BY <1>2, Messages DEF Refuse, Goto, ConnectionLost
  <1>3. ASSUME NEW c \in Conns, LookupHit(c) PROVE TypeOK'
    BY <1>3, Messages DEF LookupHit, Goto
  <1>4. ASSUME NEW c \in Conns, LookupMiss(c) PROVE TypeOK'
    BY <1>4, Messages DEF LookupMiss, Goto
  <1>5. ASSUME NEW c \in Conns, Enqueue(c) PROVE TypeOK'
    BY <1>5, Messages DEF Enqueue, Goto, Woken, Joined
  <1>6. ASSUME NEW c \in Conns, SendPosition(c) PROVE TypeOK'
    <2>1. <<"waiting", order[c]>> \in Screens
      BY <1>6, Messages DEF SendPosition, QueueInv, PlaceOnceJoined
    <2>2. screen' \in [Conns -> Screens] /\ cancelled' \in [Conns -> BOOLEAN]
      BY <1>6, <2>1 DEF SendPosition, Send, Shows
    <2> QED
      BY <1>6, <2>2 DEF SendPosition, Goto, Send
  <1>7. ASSUME NEW c \in Conns, AwaitCancelled(c) PROVE TypeOK'
    BY <1>7, Messages DEF AwaitCancelled, Goto
  <1>8. ASSUME NEW c \in Conns, AwaitResult(c) PROVE TypeOK'
    BY <1>8, Messages DEF AwaitResult, Goto, AfterResult
  <1>9. ASSUME NEW c \in Conns, SavePage(c) PROVE TypeOK'
    BY <1>9, Messages DEF SavePage, Goto
  <1>10. ASSUME NEW c \in Conns, Succ(c) PROVE TypeOK'
    BY <1>10, Messages DEF Succ, Goto, Shows, AfterPage
  <1>11. ASSUME NEW c \in Conns, Error(c) PROVE TypeOK'
    BY <1>11, Messages DEF Error, Goto, Send, Shows
  <1>12. ASSUME NEW c \in Conns, Finish(c) PROVE TypeOK'
    BY <1>12, Messages DEF Finish, Goto
  <1>13. ASSUME NEW c \in Conns, PingFails(c) PROVE TypeOK'
    BY <1>13, Messages DEF PingFails
  <1>14. ASSUME NEW c \in Conns, SendReorder(c) PROVE TypeOK'
    <2>1. PICK i \in {r[2] : r \in {r \in reorders : r[1] = c}} :
             /\ reorders' = reorders \ {<<c, i>>}
             /\ Send(c, <<"waiting", i>>)
      BY <1>14 DEF SendReorder
    <2>2. i \in Nat \ {0}
      BY <2>1
    <2>3. <<"waiting", i>> \in Screens
      BY <2>2, Messages
    <2>4. screen' \in [Conns -> Screens] /\ cancelled' \in [Conns -> BOOLEAN]
      BY <2>1, <2>3 DEF Send, Shows
    <2> QED
      BY <1>14, <2>1, <2>4 DEF SendReorder, Send
  <1>15. ASSUME NEW c \in Conns, Straggle(c) PROVE TypeOK'
    <2>1. screen' \in [Conns -> Screens] /\ cancelled' \in [Conns -> BOOLEAN]
      BY <1>15, Messages DEF Straggle, Send, Shows
    <2>2. stragglers' \in [Conns -> 0 .. Stragglers]
      <3>1. stragglers[c] - 1 \in 0 .. Stragglers
        BY <1>15 DEF Straggle
      <3> QED
        BY <1>15, <3>1 DEF Straggle
    <2> QED
      BY <1>15, <2>1, <2>2 DEF Straggle, Send
  <1>16. ASSUME NEW c \in Conns, LinkFails(c) PROVE TypeOK'
    BY <1>16, Messages DEF LinkFails, ConnectionLost
  <1>17. CASE WorkerTake
    <2>1. /\ queue' \in Seq(Conns) /\ wq' \in Conns
          /\ Len(queue) \in Nat /\ DOMAIN queue = 1 .. Len(queue)
      BY <1>17, TailFacts DEF WorkerTake, First, Shortened
    <2>2. NewPlaces \subseteq Conns \X (Nat \ {0})
      <3>1. \A i \in 2 .. Len(queue) : queue[i] \in Conns /\ i - 1 \in Nat \ {0}
        BY <2>1
      <3> HIDE DEF TypeOK
      <3>2. \A i \in 2 .. Len(queue) : <<queue[i], i - 1>> \in Conns \X (Nat \ {0})
        BY <3>1
      <3> QED
        BY <3>2 DEF NewPlaces
    <2> QED
      BY <1>17, <2>1, <2>2 DEF WorkerTake
  <1>18. CASE WorkerSleep
    BY <1>18, Messages DEF WorkerSleep
  <1>19. CASE WorkerWake
    BY <1>19, Messages DEF WorkerWake
  <1>20. CASE WorkerStart
    BY <1>20, Messages DEF WorkerStart, Send, Shows
  <1>21. CASE WorkerRun
    BY <1>21, Messages DEF WorkerRun
  <1>22. CASE WorkerSkip
    BY <1>22, Messages DEF WorkerSkip
  <1>23. CASE Progress
    BY <1>23, Messages DEF Progress, Send, Shows
  <1>24. CASE Render
    BY <1>24, Messages DEF Render
  <1>25. CASE AnalysisFails
    <2>1. wq \in Conns
      BY <1>25 DEF AnalysisFails
    <2>2. PICK n \in 0 .. (IF wq \in Hps THEN Stragglers ELSE 0) :
             stragglers' = [stragglers EXCEPT ![wq] = n]
      BY <1>25 DEF AnalysisFails
    <2>3. n \in 0 .. Stragglers
      BY <2>2
    <2>4. stragglers' \in [Conns -> 0 .. Stragglers]
      BY <2>1, <2>2, <2>3
    <2> QED
      BY <1>25, <2>1, <2>4 DEF AnalysisFails
  <1>26. CASE Report
    BY <1>26, Messages DEF Report, Dropped
  <1>27. CASE UNCHANGED vars
    BY <1>27, Messages DEF vars
  <1> QED
    BY <1>1, <1>2, <1>3, <1>4, <1>5, <1>6, <1>7, <1>8, <1>9, <1>10, <1>11,
       <1>12, <1>13, <1>14, <1>15, <1>16, <1>17, <1>18, <1>19, <1>20, <1>21,
       <1>22, <1>23, <1>24, <1>25, <1>26, <1>27
    DEF Next, Connection, Handler, Worker, Rest

\* A step that only writes to the websocket of c, an event other than a place
\* unless c has joined the queue, keeps the invariant.
LEMMA SendStep ==
    ASSUME Inv, NEW c \in Conns, NEW e \in Screens, Send(c, e),
           e[1] = "waiting" => order[c] > 0,
           UNCHANGED <<queue, wq, order, hpc, chanResult>>, reorders' \subseteq reorders
    PROVE  QueueInv'
  <1> USE DEF Inv, TypeOK, QueueInv
  <1>1. /\ link' = link
        /\ \A d \in Conns :
             /\ cancelled[d] => cancelled'[d]
             /\ cancelled'[d] => link[d] # "up"
             /\ screen'[d] = screen[d] \/ (d = c /\ screen'[d] = e)
    BY DEF Send, Shows, CancelledOnlyWhenUnreachable
  <1>2. Waiting' = Waiting /\ Held' = Held /\ Held \subseteq Conns
    BY DEF Waiting, Held
  <1>3. HeldOnce' /\ CancelledOnlyWhenUnreachable'
    BY <1>1, <1>2 DEF HeldOnce, CancelledOnlyWhenUnreachable
  <1>4. HeldUnanswered'
    BY <1>1, <1>2 DEF HeldUnanswered, Entered
  <1>5. PlaceOnceJoined'
    BY <1>1, <1>2 DEF PlaceOnceJoined
  <1> QED
    BY <1>3, <1>4, <1>5

\* The step with which the worker lets go of its request keeps the invariant.
LEMMA WorkerLetsGo ==
    ASSUME Inv, wq \in Conns, wq' = NoConn,
           \A d \in Conns \ {wq} : chanResult'[d] = chanResult[d],
           UNCHANGED <<queue, order, hpc, link, cancelled, screen, reorders>>
    PROVE  QueueInv'
  <1> USE DEF Inv, TypeOK, QueueInv
  <1>1. Waiting' = Waiting /\ Waiting \subseteq Conns /\ NoConn \notin Waiting
    BY QueueAssumption DEF Waiting
  <1>2. Held' = Held \ {wq} /\ Held \subseteq Conns
    BY <1>1, QueueAssumption DEF Held, HeldOnce
  <1>3. HeldOnce' /\ CancelledOnlyWhenUnreachable'
    BY <1>1 DEF HeldOnce, CancelledOnlyWhenUnreachable
  <1>4. HeldUnanswered'
    BY <1>2 DEF HeldUnanswered, Entered
  <1>5. PlaceOnceJoined'
    <2>1. ASSUME NEW d \in Conns, hpc[d] \in {"idle", "lookup", "enqueue"}
          PROVE  d # wq
      BY <2>1, QueueAssumption DEF HeldUnanswered, Entered, Held
    <2> QED
      BY <1>2, <2>1 DEF PlaceOnceJoined
  <1> QED
    BY <1>3, <1>4, <1>5

LEMMA QueueStep == Inv /\ [Next]_vars => QueueInv'
  <1> SUFFICES ASSUME TypeOK, QueueInv, [Next]_vars PROVE QueueInv'
    BY DEF Inv
  <1>f. ASSUME UNCHANGED <<queue, wq>> PROVE Waiting' = Waiting /\ Held' = Held
    BY <1>f DEF Waiting, Held
  <1>h. Held \subseteq Conns
    BY DEF Held, Waiting, TypeOK
  <1> USE DEF TypeOK, queueVars, workerVars, netVars, lateVars, QueueInv, HeldOnce,
              HeldUnanswered, PlaceOnceJoined, CancelledOnlyWhenUnreachable, Entered
  <1>1. ASSUME NEW c \in Conns, Admit(c) PROVE QueueInv'
    BY <1>1, <1>f, <1>h, Messages DEF Admit, Goto
  <1>2. ASSUME NEW c \in Conns, Refuse(c) PROVE QueueInv'
    BY <1>2, <1>f, <1>h, Messages DEF Refuse, Goto, ConnectionLost
  <1>3. ASSUME NEW c \in Conns, LookupHit(c) PROVE QueueInv'
    BY <1>3, <1>f, <1>h, Messages DEF LookupHit, Goto
  <1>4. ASSUME NEW c \in Conns, LookupMiss(c) PROVE QueueInv'
    BY <1>4, <1>f, <1>h, Messages DEF LookupMiss, Goto
  <1>5. ASSUME NEW c \in Conns, Enqueue(c) PROVE QueueInv'
    <2>1. queue' = Append(queue, c) /\ wq' = wq /\ c \notin Held
      BY <1>5 DEF Enqueue, Joined
    <2>2. Waiting' = Waiting \cup {c} /\ HeldOnce'
      BY <2>1, AppendElements, WaitingElements, HeldOnceDistinct, QueueAssumption DEF Held
    <2>3. Held' = Held \cup {c}
      BY <2>1, <2>2 DEF Held
    <2>4. HeldUnanswered'
      BY <1>5, <1>h, <2>3 DEF Enqueue, Goto
    <2>5. PlaceOnceJoined' /\ CancelledOnlyWhenUnreachable'
      BY <1>5, <1>h, <2>3 DEF Enqueue, Goto
    <2> QED
      BY <2>2, <2>4, <2>5
  <1>6. ASSUME NEW c \in Conns, SendPosition(c) PROVE QueueInv'
    <2>1. /\ order[c] > 0 /\ order[c] \in Nat
          /\ link[c] = "up" => hpc' = [hpc EXCEPT ![c] = "await"]
          /\ link[c] # "up" => hpc' = [hpc EXCEPT ![c] = "linger"]
      BY <1>6 DEF SendPosition, Goto
    <2>2. /\ link' = link
          /\ link[c] # "up" => cancelled'[c]
          /\ \A d \in Conns :
               /\ cancelled[d] => cancelled'[d]
               /\ cancelled'[d] => link[d] # "up"
               /\ screen'[d] = screen[d] \/ d = c
      BY <1>6 DEF SendPosition, Send, Shows
    <2>3. Held' = Held /\ Waiting' = Waiting
      BY <1>6, <1>f DEF SendPosition
    <2>4. HeldOnce' /\ CancelledOnlyWhenUnreachable'
      BY <1>6, <2>2, <2>3 DEF SendPosition
    <2>5. HeldUnanswered'
      BY <1>6, <1>h, <2>1, <2>2, <2>3 DEF SendPosition
    <2>6. PlaceOnceJoined'
      <3>1. ASSUME NEW d \in Conns, screen'[d][1] = "waiting" PROVE order'[d] > 0
        BY <1>6, <2>1, <2>2, <3>1 DEF SendPosition
      <3>2. ASSUME NEW d \in Conns
            PROVE  /\ hpc'[d] \in {"idle", "lookup", "enqueue"}
                        => order'[d] = 0 /\ chanResult'[d] = "empty"
                   /\ hpc'[d] \in {"position", "await"} \/ d \in Held' => order'[d] > 0
        BY <1>6, <2>1, <2>3 DEF SendPosition
      <3> QED
        BY <1>6, <3>1, <3>2 DEF SendPosition
    <2> QED
      BY <2>4, <2>5, <2>6
  <1>7. ASSUME NEW c \in Conns, AwaitCancelled(c) PROVE QueueInv'
    BY <1>7, <1>f, <1>h, Messages DEF AwaitCancelled, Goto, StopsWaiting
  <1>8. ASSUME NEW c \in Conns, AwaitResult(c) PROVE QueueInv'
    BY <1>8, <1>f, <1>h, Messages DEF AwaitResult, Goto, AfterResult
  <1>9. ASSUME NEW c \in Conns, SavePage(c) PROVE QueueInv'
    BY <1>9, <1>f, <1>h, Messages DEF SavePage, Goto
  <1>10. ASSUME NEW c \in Conns, Succ(c) PROVE QueueInv'
    <2>1. Held' = Held /\ Waiting' = Waiting /\ c \notin Held
      BY <1>10, <1>f DEF Succ
    <2>2. /\ link' = link
          /\ \A d \in Conns :
               /\ cancelled[d] => cancelled'[d]
               /\ cancelled'[d] => link[d] # "up"
               /\ screen'[d] = screen[d] \/ screen'[d] = <<"complete">>
      BY <1>10 DEF Succ, Shows
    <2>3. HeldOnce' /\ CancelledOnlyWhenUnreachable'
      BY <1>10, <2>1, <2>2 DEF Succ
    <2>4. HeldUnanswered'
      BY <1>10, <1>h, <2>1, <2>2 DEF Succ, Goto, AfterPage
    <2>5. PlaceOnceJoined'
      <3>1. ASSUME NEW d \in Conns, screen'[d][1] = "waiting" PROVE order'[d] > 0
        <4>1. screen'[d] # <<"complete">>
          BY <3>1, Messages
        <4> QED
          BY <1>10, <2>2, <3>1, <4>1 DEF Succ
      <3>2. ASSUME NEW d \in Conns
            PROVE  /\ hpc'[d] \in {"idle", "lookup", "enqueue"}
                        => order'[d] = 0 /\ chanResult'[d] = "empty"
                   /\ hpc'[d] \in {"position", "await"} \/ d \in Held' => order'[d] > 0
        BY <1>10, <2>1 DEF Succ, Goto, AfterPage
      <3> QED
        BY <1>10, <3>1, <3>2 DEF Succ
    <2> QED
      BY <2>3, <2>4, <2>5
  <1>11. ASSUME NEW c \in Conns, Error(c) PROVE QueueInv'
    BY <1>11, <1>f, <1>h, Messages DEF Error, Goto, Send, Shows
  <1>12. ASSUME NEW c \in Conns, Finish(c) PROVE QueueInv'
    BY <1>12, <1>f, <1>h, Messages DEF Finish, Goto
  <1>13. ASSUME NEW c \in Conns, PingFails(c) PROVE QueueInv'
    BY <1>13, <1>f, <1>h, Messages DEF PingFails
  <1>14. ASSUME NEW c \in Conns, SendReorder(c) PROVE QueueInv'
    <2>1. PICK i \in {r[2] : r \in {r \in reorders : r[1] = c}} :
             /\ reorders' = reorders \ {<<c, i>>}
             /\ Send(c, <<"waiting", i>>)
      BY <1>14 DEF SendReorder
    <2>2. order[c] > 0 /\ <<"waiting", i>> \in Screens
      BY <2>1, Messages
    <2>3. UNCHANGED <<queue, wq, order, hpc, chanResult>> /\ reorders' \subseteq reorders
      BY <1>14, <2>1 DEF SendReorder
    <2> QED
      BY <2>1, <2>2, <2>3, SendStep DEF Inv
  <1>15. ASSUME NEW c \in Conns, Straggle(c) PROVE QueueInv'
    <2>1. /\ c \in Conns /\ Send(c, <<"progress">>)
          /\ UNCHANGED <<queue, wq, order, hpc, chanResult, reorders>>
      BY <1>15 DEF Straggle
    <2>2. <<"progress">> \in Screens /\ <<"progress">>[1] # "waiting"
      BY Messages
    <2> QED
      BY <2>1, <2>2, SendStep DEF Inv
  <1>16. ASSUME NEW c \in Conns, LinkFails(c) PROVE QueueInv'
    BY <1>16, <1>f, <1>h, Messages DEF LinkFails, ConnectionLost
  <1>17. CASE WorkerTake
    <2>1. /\ wq = NoConn /\ queue # <<>>
          /\ wq' = Head(queue) /\ queue' = Tail(queue)
      BY <1>17 DEF WorkerTake, First, Shortened
    <2>2. Waiting = Waiting' \cup {wq'} /\ HeldOnce'
      BY <2>1, TailElements, WaitingElements, HeldOnceDistinct
    <2>3. wq' \in Conns
      BY <2>1, TailFacts
    <2>4. Held' = Held
      BY <2>1, <2>2, <2>3, QueueAssumption DEF Held
    <2>5. HeldUnanswered' /\ CancelledOnlyWhenUnreachable'
      BY <1>17, <2>4 DEF WorkerTake
    <2>6. \A r \in NewPlaces : order[r[1]] > 0
      <3> SUFFICES ASSUME NEW i \in 2 .. Len(queue)
                   PROVE  order[<<queue[i], i - 1>>[1]] > 0
        BY DEF NewPlaces
      <3>1. queue[i] \in Held /\ queue[i] \in Conns
        BY <1>h, <2>1, TailFacts DEF Held, Waiting
      <3> QED
        BY <3>1
    <2>7. PlaceOnceJoined'
      BY <1>17, <2>4, <2>6 DEF WorkerTake
    <2> QED
      BY <2>2, <2>5, <2>7
  <1>18. CASE WorkerSleep
    BY <1>18, <1>f, <1>h, Messages DEF WorkerSleep
  <1>19. CASE WorkerWake
    BY <1>19, <1>f, <1>h, Messages DEF WorkerWake
  <1>20. CASE WorkerStart
    <2>1. /\ wq \in Conns /\ Send(wq, <<"start">>)
          /\ UNCHANGED <<queue, wq, order, hpc, chanResult, reorders>>
      BY <1>20 DEF WorkerStart
    <2>2. <<"start">> \in Screens /\ <<"start">>[1] # "waiting"
      BY Messages
    <2> QED
      BY <2>1, <2>2, SendStep DEF Inv
  <1>21. CASE WorkerRun
    BY <1>21, <1>f, <1>h, Messages DEF WorkerRun
  <1>22. CASE WorkerSkip
    <2>1. /\ wq \in Conns /\ wq' = NoConn
          /\ UNCHANGED <<queue, order, hpc, link, cancelled, screen, reorders>>
          /\ \A d \in Conns \ {wq} : chanResult'[d] = chanResult[d]
      BY <1>22 DEF WorkerSkip
    <2> QED
      BY <2>1, WorkerLetsGo DEF Inv
  <1>23. CASE Progress
    <2>1. /\ wq \in Conns /\ Send(wq, <<"progress">>)
          /\ UNCHANGED <<queue, wq, order, hpc, chanResult, reorders>>
      BY <1>23 DEF Progress
    <2>2. <<"progress">> \in Screens /\ <<"progress">>[1] # "waiting"
      BY Messages
    <2> QED
      BY <2>1, <2>2, SendStep DEF Inv
  <1>24. CASE Render
    BY <1>24, <1>f, <1>h, Messages DEF Render
  <1>25. CASE AnalysisFails
    BY <1>25, <1>f, <1>h, Messages DEF AnalysisFails
  <1>26. CASE Report
    <2>1. /\ wq \in Conns /\ wq' = NoConn
          /\ UNCHANGED <<queue, order, hpc, link, cancelled, screen, reorders>>
          /\ \A d \in Conns \ {wq} : chanResult'[d] = chanResult[d]
      BY <1>26 DEF Report, Dropped
    <2> QED
      BY <2>1, WorkerLetsGo DEF Inv
  <1>27. CASE UNCHANGED vars
    BY <1>27, <1>f, <1>h, Messages DEF vars
  <1> QED
    BY <1>1, <1>2, <1>3, <1>4, <1>5, <1>6, <1>7, <1>8, <1>9, <1>10, <1>11,
       <1>12, <1>13, <1>14, <1>15, <1>16, <1>17, <1>18, <1>19, <1>20, <1>21,
       <1>22, <1>23, <1>24, <1>25, <1>26, <1>27
    DEF Next, Connection, Handler, Worker, Rest

\* The inductive invariant of the request path: the types, and that a request is
\* held once, unanswered, with a place, and cancelled only when out of reach.
THEOREM Invariance == Spec => []Inv
  <1>1. Inv /\ [Next]_vars => Inv'
    BY TypeStep, QueueStep DEF Inv
  <1> QED
    BY InitInv, <1>1, PTL DEF Spec

-----------------------------------------------------------------------------
(* The properties. *)

\* Every variable keeps its range, for any number of connections.
THEOREM TypeCorrect == Spec => []TypeOK
  BY Invariance, PTL DEF Inv

\* The worker never blocks on the result channel of the request it works on.
THEOREM NeverBlocks == Spec => []WorkerNeverBlocks
  <1>1. Inv => WorkerNeverBlocks
    BY DEF Inv, TypeOK, QueueInv, HeldUnanswered, Held, WorkerNeverBlocks
  <1> QED
    BY <1>1, Invariance, PTL

\* No client that can be written to loses its analysis.
THEOREM NoNeedlessCancel == Spec => []CancelledOnlyWhenUnreachable
  <1>1. Inv => CancelledOnlyWhenUnreachable
    BY DEF Inv, QueueInv
  <1> QED
    BY <1>1, Invariance, PTL

\* The unsynchronised close frame never meets a write of the worker on a link
\* that works.
THEOREM CloseFrameUndisturbed == Spec => []CloseFrameAlone
  <1>1. Inv => CloseFrameAlone
    BY DEF Inv, TypeOK, QueueInv, HeldUnanswered, CancelledOnlyWhenUnreachable, Held,
           CloseFrameAlone
  <1> QED
    BY <1>1, Invariance, PTL

\* The worker never sleeps through an append to the queue.
THEOREM WakeupKept == Spec => []NoLostWakeup
  <1>1. Init => NoLostWakeup
    BY DEF Init, NoLostWakeup
  <1>2. TypeOK /\ NoLostWakeup /\ [Next]_vars => NoLostWakeup'
    <2> SUFFICES ASSUME TypeOK, NoLostWakeup, [Next]_vars PROVE NoLostWakeup'
      OBVIOUS
    <2> USE DEF NoLostWakeup, queueVars, workerVars
    <2>1. ASSUME NEW c \in Conns, Enqueue(c) PROVE NoLostWakeup'
      BY <2>1 DEF Enqueue, Woken, Joined
    <2>2. CASE WorkerTake
      BY <2>2 DEF WorkerTake
    <2>3. CASE WorkerSleep
      BY <2>3 DEF WorkerSleep
    <2>4. CASE WorkerWake
      BY <2>4 DEF WorkerWake
    <2>5. CASE UNCHANGED <<queue, queueWake, wpc>>
      BY <2>5
    <2>6. ASSUME UNCHANGED <<queue, queueWake>>, wpc' # "wait" PROVE NoLostWakeup'
      BY <2>6
    <2>7. ASSUME NEW c \in Conns, Connection(c) PROVE NoLostWakeup'
      BY <2>1, <2>5, <2>7
      DEF Connection, Handler, Admit, Refuse, LookupHit, LookupMiss, SendPosition,
          AwaitCancelled, AwaitResult, SavePage, Succ, Error, Finish, PingFails,
          SendReorder, Straggle, LinkFails
    <2>8. CASE Worker
      BY <2>2, <2>3, <2>4, <2>6, <2>8
      DEF Worker, WorkerStart, WorkerRun, WorkerSkip, Render, AnalysisFails, Report
    <2>9. CASE Progress \/ Rest \/ UNCHANGED vars
      BY <2>5, <2>9 DEF Progress, Rest, vars
    <2> QED
      BY <2>7, <2>8, <2>9 DEF Next
  <1> QED
    BY <1>1, <1>2, TypeCorrect, PTL DEF Spec

\* A place a client is told or shown is never better than its place in the queue.
THEOREM PlacesHonest == Spec => []PositionNeverUnderstated
  <1> DEFINE Honest(c, i) ==
        /\ order[c] >= i
        /\ \A r \in reorders : r[1] = c => r[2] >= i
        /\ screen[c][1] = "waiting" => screen[c][2] >= i
  <1>1. Init => PositionNeverUnderstated
    BY DEF Init, PositionNeverUnderstated
  <1>2. Inv /\ PositionNeverUnderstated /\ [Next]_vars => PositionNeverUnderstated'
    <2> SUFFICES ASSUME Inv, PositionNeverUnderstated, [Next]_vars
                 PROVE  PositionNeverUnderstated'
      OBVIOUS
    <2>1. /\ queue \in Seq(Conns) /\ DOMAIN queue = 1 .. Len(queue) /\ Len(queue) \in Nat
          /\ order \in [Conns -> Nat] /\ reorders \subseteq Conns \X (Nat \ {0})
          /\ screen \in [Conns -> Screens]
      BY DEF Inv, TypeOK
    <2>2. \A i \in DOMAIN queue : queue[i] \in Conns /\ Honest(queue[i], i)
      BY <2>1 DEF PositionNeverUnderstated
    <2>3. ASSUME \A i \in DOMAIN queue' : Honest(queue[i], i)' PROVE PositionNeverUnderstated'
      BY <2>3 DEF PositionNeverUnderstated
    <2>4. ASSUME NEW c \in Conns, Enqueue(c) PROVE PositionNeverUnderstated'
      <3>1. /\ queue' = Append(queue, c) /\ order' = [order EXCEPT ![c] = Len(queue) + 1]
            /\ reorders' = reorders /\ screen' = screen
        BY <2>4 DEF Enqueue, Joined, netVars, lateVars
      <3>2. /\ \A r \in reorders : r[1] # c
            /\ screen[c][1] # "waiting"
        BY <2>4 DEF Enqueue, Inv, QueueInv, PlaceOnceJoined
      <3>3. c \notin Waiting
        BY <2>4 DEF Enqueue, Inv, QueueInv, HeldUnanswered, Entered, Held
      <3>4. ASSUME NEW i \in DOMAIN queue' PROVE Honest(queue[i], i)'
        <4>1. DOMAIN queue' = 1 .. Len(queue) + 1
          BY <2>1, <3>1, AppendFacts
        <4>2. CASE i = Len(queue) + 1
          <5>1. queue'[i] = c
            BY <2>1, <3>1, <4>2, AppendFacts
          <5> QED
            BY <2>1, <3>1, <3>2, <4>2, <5>1
        <4>3. CASE i \in 1 .. Len(queue)
          <5>1. queue'[i] = queue[i] /\ queue[i] # c /\ queue[i] \in Conns
            BY <2>1, <3>1, <3>3, <4>3, AppendFacts DEF Waiting
          <5> QED
            BY <2>1, <2>2, <3>1, <4>3, <5>1
        <4> QED
          BY <2>1, <4>1, <4>2, <4>3
      <3> QED
        BY <2>3, <3>4
    <2>5. ASSUME NEW c \in Conns, NEW e, Send(c, e), UNCHANGED <<queue, order>>,
                 reorders' \subseteq reorders,
                 e[1] = "waiting" =>
                   \A i \in DOMAIN queue : queue[i] = c => e[2] >= i
          PROVE  PositionNeverUnderstated'
      <3>1. \A d \in Conns : screen'[d] = screen[d] \/ (d = c /\ screen'[d] = e)
        BY <2>1, <2>5 DEF Send, Shows
      <3>2. ASSUME NEW i \in DOMAIN queue' PROVE Honest(queue[i], i)'
        BY <2>1, <2>2, <2>5, <3>1
      <3> QED
        BY <2>3, <3>2
    <2>6. ASSUME NEW c \in Conns, SendPosition(c) PROVE PositionNeverUnderstated'
      <3>1. \A i \in DOMAIN queue : queue[i] = c => <<"waiting", order[c]>>[2] >= i
        BY <2>2
      <3>2. Send(c, <<"waiting", order[c]>>) /\ UNCHANGED <<queue, order, reorders>>
        BY <2>6 DEF SendPosition, queueVars, lateVars
      <3> QED
        BY <2>5, <3>1, <3>2
    <2>7. ASSUME NEW c \in Conns, SendReorder(c) PROVE PositionNeverUnderstated'
      <3>1. PICK r \in reorders :
               /\ r[1] = c /\ reorders' = reorders \ {<<c, r[2]>>}
               /\ Send(c, <<"waiting", r[2]>>)
        BY <2>7 DEF SendReorder
      <3>2. \A i \in DOMAIN queue : queue[i] = c => <<"waiting", r[2]>>[2] >= i
        BY <2>2, <3>1
      <3>3. UNCHANGED <<queue, order>>
        BY <2>7 DEF SendReorder, queueVars
      <3> QED
        BY <2>5, <3>1, <3>2, <3>3
    <2>8. ASSUME NEW c \in Conns, NEW e \in {"start", "progress", "error"},
                 Send(c, <<e>>), UNCHANGED <<queue, order, reorders>>
          PROVE  PositionNeverUnderstated'
      <3>1. <<e>>[1] # "waiting"
        BY Messages
      <3> QED
        BY <2>5, <2>8, <3>1
    <2>9. ASSUME UNCHANGED <<queue, order, reorders>>,
                 \A c \in Conns : screen'[c][1] = "waiting" => screen'[c] = screen[c]
          PROVE  PositionNeverUnderstated'
      <3>1. ASSUME NEW i \in DOMAIN queue' PROVE Honest(queue[i], i)'
        BY <2>1, <2>2, <2>9
      <3> QED
        BY <2>3, <3>1
    <2>10. CASE WorkerTake
      <3>1. /\ queue # <<>> /\ queue' = Tail(queue) /\ reorders' = reorders \cup NewPlaces
            /\ order' = order /\ screen' = screen
        BY <2>10 DEF WorkerTake, Shortened, netVars
      <3>2. ASSUME NEW i \in DOMAIN queue' PROVE Honest(queue[i], i)'
        <4>1. /\ i \in 1 .. Len(queue) - 1 /\ i + 1 \in DOMAIN queue
              /\ queue'[i] = queue[i + 1]
          BY <2>1, <3>1, TailFacts
        <4>2. Honest(queue[i + 1], i + 1)
          BY <2>2, <4>1
        <4>3. ASSUME NEW r \in NewPlaces, r[1] = queue[i + 1] PROVE r[2] >= i
          <5>1. PICK j \in 2 .. Len(queue) : r = <<queue[j], j - 1>>
            BY DEF NewPlaces
          <5>2. r[1] = queue[j] /\ r[2] = j - 1
            BY <5>1
          <5>3. j = i + 1
            <6>1. HeldOnce /\ j \in DOMAIN queue /\ queue[j] = queue[i + 1]
              BY <2>1, <4>3, <5>2 DEF Inv, QueueInv
            <6> QED
              BY <4>1, <6>1 DEF HeldOnce
          <5> QED
            BY <4>1, <5>2, <5>3
        <4>4. ASSUME NEW r \in reorders', r[1] = queue'[i] PROVE r[2] >= i
          <5>1. CASE r \in NewPlaces
            BY <4>1, <4>3, <4>4, <5>1
          <5>2. CASE r \in reorders
            <6>1. r[2] \in Nat /\ r[2] >= i + 1
              BY <2>1, <4>1, <4>2, <4>4, <5>2
            <6> QED
              BY <4>1, <6>1
          <5> QED
            BY <3>1, <5>1, <5>2
        <4>5. order'[queue'[i]] >= i
          BY <2>1, <2>2, <3>1, <4>1, <4>2
        <4>6. ASSUME screen'[queue'[i]][1] = "waiting" PROVE screen'[queue'[i]][2] >= i
          <5>1. queue[i + 1] \in Conns /\ screen[queue[i + 1]][1] = "waiting"
                /\ screen[queue[i + 1]] \in Screens
            BY <2>1, <2>2, <3>1, <4>1, <4>6
          <5>2. screen[queue[i + 1]][2] \in Nat
            BY <5>1, Messages DEF Screens
          <5> QED
            BY <3>1, <4>1, <4>2, <5>1, <5>2
        <4> QED
          BY <4>4, <4>5, <4>6
      <3> QED
        BY <2>3, <3>2
    <2>11. ASSUME NEW c \in Conns, Connection(c) PROVE PositionNeverUnderstated'
      <3> USE DEF queueVars, netVars, lateVars
      <3>1. CASE Refuse(c) \/ LinkFails(c)
        <4>1. \A d \in Conns : screen'[d] = screen[d] \/ screen'[d] = <<"error">>
          BY <2>1, <3>1 DEF Refuse, LinkFails, ConnectionLost
        <4>2. UNCHANGED <<queue, order, reorders>>
          BY <3>1 DEF Refuse, LinkFails
        <4> QED
          BY <2>9, <4>1, <4>2, Messages
      <3>2. CASE Succ(c)
        <4>1. \A d \in Conns : screen'[d] = screen[d] \/ screen'[d] = <<"complete">>
          BY <2>1, <3>2 DEF Succ, Shows
        <4>2. UNCHANGED <<queue, order, reorders>>
          BY <3>2 DEF Succ
        <4> QED
          BY <2>9, <4>1, <4>2, Messages
      <3>3. CASE Error(c)
        BY <2>8, <3>3 DEF Error
      <3>4. CASE Straggle(c)
        BY <2>8, <3>4 DEF Straggle
      <3> QED
        BY <2>4, <2>6, <2>7, <2>9, <2>11, <3>1, <3>2, <3>3, <3>4
        DEF Connection, Handler, Admit, LookupHit, LookupMiss, AwaitCancelled, AwaitResult,
            SavePage, Finish, PingFails
    <2>12. CASE Worker
      <3> USE DEF queueVars, netVars, lateVars
      <3>1. CASE WorkerStart
        BY <2>8, <3>1 DEF WorkerStart, Inv, TypeOK
      <3> QED
        BY <2>9, <2>10, <2>12, <3>1
        DEF Worker, WorkerSleep, WorkerWake, WorkerRun, WorkerSkip, Render,
            AnalysisFails, Report
    <2>13. CASE Progress
      BY <2>8, <2>13 DEF Progress, Inv, TypeOK, queueVars, lateVars
    <2>14. CASE Rest \/ UNCHANGED vars
      BY <2>9, <2>14 DEF Rest, vars, queueVars, netVars, lateVars
    <2> QED
      BY <2>11, <2>12, <2>13, <2>14 DEF Next
  <1> QED
    BY <1>1, <1>2, Invariance, PTL DEF Spec

-----------------------------------------------------------------------------
(* What a browser shows. *)

Outcomes == {<<"complete">>, <<"error">>}

\* A client whose link works is told the outcome before its handler winds up
\* (http.go:113-125).
THEOREM OutcomeIsTold == Spec => AnsweredBeforeLinger
  <1> DEFINE Told(c) ==
        hpc[c] # "linger" /\ hpc'[c] = "linger" /\ link'[c] = "up"
          => screen'[c] \in Outcomes
  <1>1. Inv /\ [Next]_vars => \A c \in Conns : Told(c)
    <2> SUFFICES ASSUME Inv, [Next]_vars, NEW d \in Conns PROVE Told(d)
      OBVIOUS
    <2> USE DEF Outcomes, workerVars, netVars
    <2>1. DOMAIN hpc = Conns /\ DOMAIN link = Conns /\ DOMAIN screen = Conns
      BY DEF Inv, TypeOK
    <2>2. CASE hpc' = hpc
      BY <2>2
    <2>3. ASSUME NEW c \in Conns, NEW there, Goto(c, there), there # "linger" PROVE Told(d)
      BY <2>1, <2>3 DEF Goto
    <2>4. ASSUME NEW c \in Conns, Succ(c) PROVE Told(d)
      BY <2>1, <2>4 DEF Succ, Shows, Goto, AfterPage
    <2>5. ASSUME NEW c \in Conns, Error(c) PROVE Told(d)
      BY <2>1, <2>5 DEF Error, Send, Shows, Goto
    <2>6. ASSUME NEW c \in Conns, AwaitCancelled(c) PROVE Told(d)
      <3>1. link[c] # "up"
        BY <2>6 DEF AwaitCancelled, StopsWaiting, Inv, QueueInv, CancelledOnlyWhenUnreachable
      <3> QED
        BY <2>1, <2>6, <3>1 DEF AwaitCancelled, Goto
    <2>7. ASSUME NEW c \in Conns, SendPosition(c) PROVE Told(d)
      BY <2>1, <2>7 DEF SendPosition, Send, Goto
    <2>8. ASSUME NEW c \in Conns, Connection(c) PROVE Told(d)
      BY <2>2, <2>3, <2>4, <2>5, <2>6, <2>7, <2>8
      DEF Connection, Handler, Admit, Refuse, LookupHit, LookupMiss, Enqueue, AwaitResult,
          AfterResult, SavePage, Finish, PingFails, SendReorder, Straggle, LinkFails
    <2>9. CASE Worker \/ Progress \/ Rest \/ UNCHANGED vars
      BY <2>2, <2>9
      DEF Worker, WorkerTake, WorkerSleep, WorkerWake, WorkerStart, WorkerRun, WorkerSkip,
          Render, AnalysisFails, Report, Progress, Rest, vars
    <2> QED
      BY <2>8, <2>9 DEF Next
  <1>2. Inv /\ [Next]_vars
          => [\A c \in Conns :
                hpc[c] # "linger" /\ hpc'[c] = "linger" /\ link'[c] = "up"
                  => screen'[c] \in {<<"complete">>, <<"error">>}]_vars
    BY <1>1 DEF Outcomes
  <1> QED
    BY <1>2, Invariance, PTL DEF Spec, AnsweredBeforeLinger

\* Who shows a page has got it, and a browser that is connected shows an outcome only
\* when its handler winds up.
OutcomeInv ==
    \A c \in Conns :
        /\ screen[c] = <<"complete">> => ok[c]
        /\ link[c] = "up" /\ screen[c] \in Outcomes => hpc[c] = "linger"

\* What may take an outcome off the screen.
Stays(c) ==
    screen[c] \in Outcomes /\ screen'[c] # screen[c]
      => \/ screen'[c][1] = "waiting" /\ <<c, screen'[c][2]>> \in reorders
         \/ screen'[c] = <<"progress">> /\ stragglers[c] > 0

LEMMA OutcomeStep ==
    ASSUME Inv, OutcomeInv, [Next]_vars PROVE OutcomeInv' /\ \A c \in Conns : Stays(c)
  <1> DEFINE Kept(d) ==
        /\ Stays(d)
        /\ screen'[d] = <<"complete">> => ok'[d]
        /\ link'[d] = "up" /\ screen'[d] \in Outcomes => hpc'[d] = "linger"
  <1> SUFFICES ASSUME NEW d \in Conns PROVE Kept(d)
    BY DEF OutcomeInv
  <1> USE DEF OutcomeInv, netVars, workerVars
  <1>1. /\ DOMAIN hpc = Conns /\ DOMAIN link = Conns
        /\ DOMAIN screen = Conns /\ DOMAIN ok = Conns
    BY DEF Inv, TypeOK
  <1>2. \A e \in {"start", "progress"} : <<e>> \notin Outcomes
    BY DEF Outcomes
  <1>3. \A i : <<"waiting", i>> \notin Outcomes
    BY DEF Outcomes
  <1>4. ASSUME UNCHANGED <<screen, link, ok>>, hpc[d] = "linger" => hpc'[d] = "linger"
        PROVE  Kept(d)
    BY <1>4 DEF Stays
  <1>5. ASSUME NEW c \in Conns, NEW e, e \notin Outcomes, Send(c, e), hpc'[d] = hpc[d] \/ c = d,
               hpc[c] # "linger" \/ link[c] # "up"
        PROVE  Kept(d)
    BY <1>1, <1>5 DEF Send, Shows, Stays, Outcomes
  <1>6. ASSUME NEW c \in Conns, SendPosition(c) PROVE Kept(d)
    <2>1. Send(c, <<"waiting", order[c]>>) /\ hpc[c] = "position"
      BY <1>6 DEF SendPosition
    <2>2. hpc'[d] = hpc[d] \/ c = d
      BY <1>1, <1>6 DEF SendPosition, Goto
    <2> QED
      BY <1>3, <1>5, <2>1, <2>2
  <1>7. ASSUME NEW c \in Conns, SendReorder(c) PROVE Kept(d)
    <2>1. PICK r \in reorders : r = <<c, r[2]>> /\ Send(c, <<"waiting", r[2]>>)
      <3>1. PICK r \in reorders : r[1] = c /\ Send(c, <<"waiting", r[2]>>)
        BY <1>7 DEF SendReorder
      <3>2. r = <<r[1], r[2]>>
        BY DEF Inv, TypeOK
      <3> QED
        BY <3>1, <3>2
    <2>2. UNCHANGED <<hpc, link, ok>>
      BY <1>7 DEF SendReorder, Send
    <2>3. screen'[d] = screen[d] \/ (d = c /\ screen'[d] = <<"waiting", r[2]>>)
      BY <1>1, <2>1 DEF Send, Shows
    <2>4. <<"waiting", r[2]>>[1] = "waiting" /\ <<"waiting", r[2]>>[2] = r[2]
      OBVIOUS
    <2>5. CASE screen'[d] = screen[d]
      BY <2>2, <2>5 DEF Stays
    <2>6. CASE d = c /\ screen'[d] = <<"waiting", r[2]>>
      <3>1. screen'[d] \notin Outcomes
        BY <1>3, <2>6
      <3>2. screen'[d][1] = "waiting" /\ <<d, screen'[d][2]>> \in reorders
        BY <2>1, <2>4, <2>6
      <3> QED
        BY <3>1, <3>2 DEF Stays, Outcomes
    <2> QED
      BY <2>3, <2>5, <2>6
  <1>8. ASSUME NEW c \in Conns, Straggle(c) PROVE Kept(d)
    <2>1. stragglers[c] > 0 /\ Send(c, <<"progress">>) /\ UNCHANGED <<hpc, link, ok>>
      BY <1>8 DEF Straggle, Send
    <2>2. screen'[d] = screen[d] \/ (d = c /\ screen'[d] = <<"progress">>)
      BY <1>1, <2>1 DEF Send, Shows
    <2>3. CASE screen'[d] = screen[d]
      BY <2>1, <2>3 DEF Stays
    <2>4. CASE d = c /\ screen'[d] = <<"progress">>
      BY <1>2, <2>1, <2>4 DEF Stays, Outcomes
    <2> QED
      BY <2>2, <2>3, <2>4
  <1>9. ASSUME NEW c \in Conns, Succ(c) \/ Error(c) PROVE Kept(d)
    <2>1. hpc[c] \in {"succ", "fail"} /\ hpc' = [hpc EXCEPT ![c] = "linger"] /\ link' = link
      BY <1>9 DEF Succ, Error, Send, Goto, AfterPage
    <2>2. CASE d # c
      BY <1>1, <1>9, <2>1, <2>2 DEF Succ, Error, Send, Shows, Stays
    <2>3. CASE d = c /\ link[c] = "up"
      <3>1. screen[d] \notin Outcomes /\ hpc'[d] = "linger"
        BY <1>1, <2>1, <2>3
      <3>2. screen'[d] = <<"complete">> => ok'[d]
        <4>1. CASE Succ(c)
          BY <1>1, <2>3, <4>1 DEF Succ
        <4>2. CASE Error(c)
          <5>1. screen'[d] = <<"error">> /\ <<"error">> # <<"complete">>
            BY <1>1, <2>3, <4>2 DEF Error, Send, Shows
          <5> QED
            BY <5>1
        <4> QED
          BY <1>9, <4>1, <4>2
      <3> QED
        BY <3>1, <3>2 DEF Stays
    <2>4. CASE d = c /\ link[c] # "up"
      BY <1>1, <1>9, <2>1, <2>4 DEF Succ, Error, Send, Shows, Stays
    <2> QED
      BY <2>2, <2>3, <2>4
  <1>10. ASSUME NEW c \in Conns, Refuse(c) \/ LinkFails(c) PROVE Kept(d)
    <2>1. /\ ConnectionLost(c) /\ ok' = ok /\ link'[c] # "up"
          /\ d # c => link'[d] = link[d] /\ hpc'[d] = hpc[d]
      BY <1>1, <1>10 DEF Refuse, LinkFails, Goto
    <2>2. screen'[d] = screen[d] \/ (d = c /\ ~ok[c] /\ screen'[d] = <<"error">>)
      BY <1>1, <2>1 DEF ConnectionLost
    <2>3. CASE screen'[d] = screen[d]
      BY <2>1, <2>3 DEF Stays
    <2>4. CASE d = c /\ ~ok[c] /\ screen'[d] = <<"error">>
      <3>1. screen[d] \in Outcomes => screen[d] = <<"error">>
        BY <2>4 DEF Outcomes
      <3>2. <<"error">> # <<"complete">>
        OBVIOUS
      <3> QED
        BY <2>1, <2>4, <3>1, <3>2 DEF Stays
    <2> QED
      BY <2>2, <2>3, <2>4
  <1>11. ASSUME NEW c \in Conns, Finish(c) PROVE Kept(d)
    <2>1. /\ UNCHANGED <<screen, ok>> /\ link'[c] # "up"
          /\ d # c => link'[d] = link[d] /\ hpc'[d] = hpc[d]
      BY <1>1, <1>11 DEF Finish, Goto
    <2> QED
      BY <2>1 DEF Stays
  <1>12. ASSUME NEW c \in Conns, Connection(c) PROVE Kept(d)
    BY <1>1, <1>4, <1>6, <1>7, <1>8, <1>9, <1>10, <1>11, <1>12
    DEF Connection, Handler, Admit, LookupHit, LookupMiss, Enqueue, AwaitCancelled,
        AwaitResult, SavePage, PingFails, Goto
  <1>13. CASE WorkerStart \/ Progress
    <2>1. wq \in Conns /\ (hpc[wq] # "linger" \/ link[wq] # "up") /\ hpc' = hpc
      BY <1>13
      DEF WorkerStart, Progress, Inv, TypeOK, QueueInv, HeldUnanswered, Held,
          CancelledOnlyWhenUnreachable
    <2> QED
      BY <1>2, <1>5, <1>13, <2>1 DEF WorkerStart, Progress
  <1>14. CASE Worker \/ Rest \/ UNCHANGED vars
    BY <1>4, <1>13, <1>14
    DEF Worker, WorkerTake, WorkerSleep, WorkerWake, WorkerRun, WorkerSkip, Render,
        AnalysisFails, Report, Rest, vars
  <1> QED
    BY <1>12, <1>13, <1>14 DEF Next

\* An outcome that a browser shows gives way only to what was on its way before
\* (http.go:113-127, worker.go:172-175).
THEOREM OutcomesStay == Spec => OutcomeStays
  <1>1. ASSUME Init PROVE OutcomeInv
    <2> SUFFICES ASSUME NEW c \in Conns
                 PROVE  /\ screen[c] = <<"complete">> => ok[c]
                        /\ link[c] = "up" /\ screen[c] \in Outcomes => hpc[c] = "linger"
      BY DEF OutcomeInv
    <2>1. <<"blank">> # <<"complete">> /\ <<"blank">> \notin Outcomes
      BY DEF Outcomes
    <2>2. screen = [d \in Conns |-> <<"blank">>]
      BY <1>1 DEF Init
    <2> QED
      BY <2>1, <2>2
  <1>2. Inv /\ OutcomeInv /\ [Next]_vars => OutcomeInv'
    BY OutcomeStep
  <1>3. Inv /\ OutcomeInv /\ [Next]_vars
          => [\A c \in Conns :
                screen[c] \in {<<"complete">>, <<"error">>} /\ screen'[c] # screen[c]
                  => \/ screen'[c][1] = "waiting" /\ <<c, screen'[c][2]>> \in reorders
                     \/ screen'[c] = <<"progress">> /\ stragglers[c] > 0]_vars
    BY OutcomeStep DEF Stays, Outcomes
  <1> QED
    BY <1>1, <1>2, <1>3, Invariance, PTL DEF Spec, OutcomeStays

-----------------------------------------------------------------------------
(* The queue implements the dispatcher: Enqueue is Submit, WorkerTake is      *)
(* Take, WorkerSkip and Report are Release, every other step is a stutter.    *)

\* Requests are taken in the order of their submission, one at a time and each
\* at most once.
THEOREM Dispatches == Spec => DispatchSpec
  <1>1. Init => Dispatcher!Init
    BY DEF Init, Dispatcher!Init, Served
  <1>2. Inv /\ Inv' /\ [Next]_vars => [Dispatcher!Next]_(Dispatcher!vars)
    <2> SUFFICES ASSUME Inv, Inv', [Next]_vars
                 PROVE  [Dispatcher!Next]_(Dispatcher!vars)
      OBVIOUS
    <2> USE DEF queueVars, workerVars
    <2>1. ASSUME NEW c \in Conns, Enqueue(c) PROVE Dispatcher!Submit(c)
      <3>1. queue' = Append(queue, c) /\ wq' = wq /\ order' = [order EXCEPT ![c] = Len(queue) + 1]
        BY <2>1 DEF Enqueue, Joined
      <3>2. c \notin Held /\ order[c] = 0 /\ c # wq /\ c \notin Waiting
        BY <2>1 DEF Enqueue, Inv, TypeOK, QueueInv, HeldUnanswered, Entered, PlaceOnceJoined,
                    Held
      <3>3. Waiting' = Waiting \cup {c}
        BY <3>1, AppendElements, WaitingElements DEF Inv, TypeOK
      <3>4. Served' = Served
        BY <3>1, <3>2, <3>3 DEF Served, Inv, TypeOK
      <3> QED
        BY <3>1, <3>2, <3>4 DEF Dispatcher!Submit, Dispatcher!Waiting, Waiting, Served
    <2>2. ASSUME WorkerTake PROVE Dispatcher!Take
      <3>1. /\ wq = NoConn /\ queue # <<>> /\ wq' = Head(queue) /\ queue' = Tail(queue)
            /\ order' = order
        BY <2>2 DEF WorkerTake, First, Shortened, Inv, TypeOK
      <3>2. Waiting = Waiting' \cup {wq'} /\ wq' \in Conns
        BY <3>1, TailElements, TailFacts, WaitingElements, HeldOnceDistinct
        DEF Inv, TypeOK, QueueInv
      <3>3. Served' = Served
        BY <3>1, <3>2, QueueAssumption DEF Served
      <3> QED
        BY <3>1, <3>3 DEF Dispatcher!Take
    <2>3. ASSUME WorkerSkip \/ Report PROVE Dispatcher!Release
      <3>1. wq \in Conns /\ wq' = NoConn /\ queue' = queue /\ order' = order
        BY <2>3 DEF WorkerSkip, Report, Inv, TypeOK
      <3>2. Waiting' = Waiting /\ wq \notin Waiting
        BY <3>1 DEF Waiting, Inv, QueueInv, HeldOnce
      <3>3. order[wq] > 0
        BY <3>1, QueueAssumption DEF Inv, QueueInv, PlaceOnceJoined, Held
      <3>4. Served' = Served \cup {wq}
        BY <3>1, <3>2, <3>3, QueueAssumption DEF Served
      <3> QED
        BY <3>1, <3>4, QueueAssumption DEF Dispatcher!Release
    <2>4. ASSUME UNCHANGED <<queue, wq, order>> PROVE UNCHANGED Dispatcher!vars
      BY <2>4 DEF Dispatcher!vars, Served, Waiting
    <2>5. ASSUME NEW c \in Conns, Connection(c)
          PROVE  Dispatcher!Submit(c) \/ UNCHANGED Dispatcher!vars
      BY <2>1, <2>4, <2>5
      DEF Connection, Handler, Admit, Refuse, LookupHit, LookupMiss, SendPosition,
          AwaitCancelled, AwaitResult, SavePage, Succ, Error, Finish, PingFails,
          SendReorder, Straggle, LinkFails
    <2>6. ASSUME Worker
          PROVE  Dispatcher!Take \/ Dispatcher!Release \/ UNCHANGED Dispatcher!vars
      BY <2>2, <2>3, <2>4, <2>6
      DEF Worker, WorkerSleep, WorkerWake, WorkerStart, WorkerRun, Render, AnalysisFails
    <2>7. CASE Progress \/ Rest \/ UNCHANGED vars
      BY <2>4, <2>7 DEF Progress, Rest, vars
    <2> QED
      BY <2>5, <2>6, <2>7 DEF Next, Dispatcher!Next
  <1> QED
    BY <1>1, <1>2, Invariance, PTL DEF Spec, DispatchSpec, Dispatcher!Spec

AllInv == Inv /\ OnlyFragileLeave /\ PagesTypeOK /\ PagesInv

-----------------------------------------------------------------------------
(* The pages do not disturb the request path. *)

LEMMA StepIsPathStep == [PNext]_allVars => [Next]_vars
  BY DEF PNext, allVars, TakeBuffer, LoadPage, LoadNothing, StorePage, SendPage, PutBuffer,
         Untouched, RenderPage, WorkerUntouched, Expire, Next, Connection, Handler, Worker

\* Every behaviour with pages is a behaviour of AnalysisQueue, so all that is
\* proved of the queue holds with pages as well.
THEOREM PagesImplementPath == PSpec => Spec
  <1>1. PInit => Init
    BY DEF PInit
  <1> QED
    BY <1>1, StepIsPathStep, PTL DEF PSpec, Spec

-----------------------------------------------------------------------------
(* Which requests leave their analysis behind. *)

\* Requests become held only from "enqueue": the queue and the worker get no
\* request that has not just been at the cache.
LEMMA HeldGrows ==
    ASSUME Inv, [Next]_vars
    PROVE  /\ Held' \subseteq Held \cup {d \in Conns : hpc[d] = "enqueue"}
           /\ Held \subseteq Conns
  <1> USE DEF Inv, queueVars, workerVars
  <1>1. Held \subseteq Conns
    BY QueueAssumption DEF Held, Waiting, TypeOK
  <1>2. ASSUME NEW c \in Conns, Enqueue(c) PROVE Held' \subseteq Held \cup {c} /\ hpc[c] = "enqueue"
    <2>1. queue' = Append(queue, c) /\ wq' = wq /\ hpc[c] = "enqueue"
      BY <1>2 DEF Enqueue, Joined
    <2>2. Waiting' = Waiting \cup {c}
      BY <2>1, AppendElements, WaitingElements DEF TypeOK
    <2> QED
      BY <2>1, <2>2 DEF Held
  <1>3. CASE WorkerTake
    <2>1. /\ queue # <<>> /\ wq' = Head(queue) /\ queue' = Tail(queue)
      BY <1>3 DEF WorkerTake, First, Shortened
    <2>2. Waiting = Waiting' \cup {wq'}
      BY <2>1, TailElements, WaitingElements, HeldOnceDistinct DEF TypeOK, QueueInv
    <2> QED
      BY <1>1, <2>2 DEF Held
  <1>4. ASSUME queue' = queue, wq' \in {wq, NoConn} PROVE Held' \subseteq Held
    BY <1>4 DEF Held, Waiting
  <1>5. ASSUME NEW c \in Conns, Connection(c)
        PROVE  Held' \subseteq Held \cup {d \in Conns : hpc[d] = "enqueue"}
    BY <1>2, <1>4, <1>5
    DEF Connection, Handler, Admit, Refuse, LookupHit, LookupMiss, SendPosition,
        AwaitCancelled, AwaitResult, SavePage, Succ, Error, Finish, PingFails,
        SendReorder, Straggle, LinkFails
  <1>6. CASE Worker \/ Progress \/ Rest \/ UNCHANGED vars
    <2>1. CASE WorkerTake
      BY <1>3, <2>1
    <2>2. CASE WorkerSleep \/ WorkerWake \/ WorkerStart \/ WorkerRun
      BY <1>1, <1>4, <2>2 DEF WorkerSleep, WorkerWake, WorkerStart, WorkerRun
    <2>3. CASE WorkerSkip \/ Report
      BY <1>1, <1>4, <2>3 DEF WorkerSkip, Report
    <2>4. CASE Render \/ AnalysisFails \/ Progress
      BY <1>1, <1>4, <2>4 DEF Render, AnalysisFails, Progress
    <2>5. CASE Rest \/ UNCHANGED vars
      BY <1>1, <1>4, <2>5 DEF Rest, vars
    <2> QED
      BY <1>6, <2>1, <2>2, <2>3, <2>4, <2>5 DEF Worker
  <1> QED
    BY <1>1, <1>5, <1>6 DEF Next

\* A handler ends from "idle" or "linger" and stays ended; a connection is lost by a
\* handler that ends or if it may fail.
LEMMA EndsAndLinks ==
    ASSUME Inv, [Next]_vars, NEW d \in Conns
    PROVE  /\ hpc'[d] = "done" => hpc[d] \in {"idle", "linger", "done"}
           /\ hpc[d] = "done" => hpc'[d] = "done"
           /\ link'[d] # link[d] => hpc'[d] = "done" \/ d \in Fragile
  <1> USE DEF Inv, TypeOK, Goto
  <1>1. ASSUME NEW c \in Conns, Connection(c)
        PROVE  /\ hpc'[d] = "done" => hpc[d] \in {"idle", "linger", "done"}
               /\ hpc[d] = "done" => hpc'[d] = "done"
               /\ link'[d] # link[d] => hpc'[d] = "done" \/ d \in Fragile
    <2>1. CASE Admit(c) \/ LookupHit(c) \/ LookupMiss(c) \/ AwaitCancelled(c) \/ SavePage(c)
      BY <2>1 DEF Admit, LookupHit, LookupMiss, AwaitCancelled, SavePage, netVars
    <2>2. CASE Refuse(c)
      BY <2>2 DEF Refuse
    <2>3. CASE Enqueue(c)
      BY <2>3 DEF Enqueue, netVars
    <2>4. CASE SendPosition(c)
      BY <2>4 DEF SendPosition, Send
    <2>5. CASE AwaitResult(c)
      BY <2>5 DEF AwaitResult, AfterResult, netVars
    <2>6. CASE Succ(c)
      BY <2>6 DEF Succ, AfterPage
    <2>7. CASE Error(c)
      BY <2>7 DEF Error, Send
    <2>8. CASE Finish(c)
      BY <2>8 DEF Finish
    <2>9. CASE PingFails(c) \/ LinkFails(c)
      BY <2>9 DEF PingFails, LinkFails
    <2>10. CASE SendReorder(c) \/ Straggle(c)
      BY <2>10 DEF SendReorder, Straggle, Send
    <2> QED
      BY <1>1, <2>1, <2>2, <2>3, <2>4, <2>5, <2>6, <2>7, <2>8, <2>9, <2>10
      DEF Connection, Handler
  <1>2. ASSUME Worker \/ Progress \/ Rest \/ UNCHANGED vars PROVE UNCHANGED <<hpc, link>>
    BY <1>2
    DEF Worker, WorkerTake, WorkerSleep, WorkerWake, WorkerStart, WorkerRun, WorkerSkip,
        Progress, Render, AnalysisFails, Report, Rest, Send, netVars, vars
  <1> QED
    BY <1>1, <1>2 DEF Next

LEMMA LeaversStep ==
    ASSUME Inv, Inv', [Next]_vars, OnlyFragileLeave PROVE OnlyFragileLeave'
  <1>1. \A c \in Conns \ Fragile : hpc'[c] # "done" => link'[c] = "up"
    BY EndsAndLinks DEF OnlyFragileLeave
  <1>2. ASSUME NEW c \in Held', hpc'[c] \in {"linger", "done"}, c \notin Fragile PROVE FALSE
    <2>1. c \in Held \/ hpc[c] = "enqueue"
      BY <1>2, HeldGrows
    <2>2. c \in Conns
      BY QueueAssumption, <1>2, HeldGrows
    <2>3. c \in Held => hpc[c] \in {"position", "await"}
      BY <1>2 DEF OnlyFragileLeave, Inv, QueueInv, HeldUnanswered, Entered
    <2>4. hpc'[c] # "done"
      BY <2>1, <2>2, <2>3, EndsAndLinks
    <2>5. link'[c] = "up" /\ cancelled'[c]
      BY <1>1, <1>2, <2>2, <2>4 DEF Inv, QueueInv, HeldUnanswered
    <2> QED
      BY <2>2, <2>5 DEF Inv, QueueInv, CancelledOnlyWhenUnreachable
  <1> QED
    BY <1>1, <1>2 DEF OnlyFragileLeave

\* An analysis outlives its handler only if the connection of its request may fail,
\* so for clients that stay none does (http.go:83-100, 113-115).
THEOREM NoneLeavesAlone == Spec => []OnlyFragileLeave
  <1>1. Init => OnlyFragileLeave
    BY DEF Init, OnlyFragileLeave, Held, Waiting
  <1> QED
    BY <1>1, LeaversStep, Invariance, PTL DEF Spec

-----------------------------------------------------------------------------
(* Facts about pages as sequences of pieces. *)

LEMMA PiecesOfPages ==
    ASSUME NEW S, NEW s \in Seq(S), NEW t \in Seq(S)
    PROVE  PiecesOf(s \o t) = PiecesOf(s) \cup PiecesOf(t)
  <1>1. /\ s \o t \in Seq(S) /\ Len(s \o t) = Len(s) + Len(t)
        /\ Len(s) \in Nat /\ Len(t) \in Nat
        /\ DOMAIN s = 1 .. Len(s) /\ DOMAIN t = 1 .. Len(t)
        /\ DOMAIN (s \o t) = 1 .. Len(s) + Len(t)
        /\ \A i \in 1 .. Len(s) + Len(t) :
              (s \o t)[i] = IF i <= Len(s) THEN s[i] ELSE t[i - Len(s)]
    BY ConcatProperties
  <1>2. ASSUME NEW y \in PiecesOf(s \o t) PROVE y \in PiecesOf(s) \cup PiecesOf(t)
    <2>1. PICK i \in 1 .. Len(s) + Len(t) : y = (s \o t)[i]
      BY <1>1 DEF PiecesOf
    <2>2. CASE i <= Len(s)
      BY <1>1, <2>1, <2>2 DEF PiecesOf
    <2>3. CASE i > Len(s)
      <3>1. i - Len(s) \in 1 .. Len(t) /\ y = t[i - Len(s)]
        BY <1>1, <2>1, <2>3
      <3> QED
        BY <1>1, <3>1 DEF PiecesOf
    <2> QED
      BY <1>1, <2>1, <2>2, <2>3
  <1>3. ASSUME NEW y \in PiecesOf(s) PROVE y \in PiecesOf(s \o t)
    <2>1. PICK i \in 1 .. Len(s) : y = s[i]
      BY <1>1 DEF PiecesOf
    <2>2. i \in 1 .. Len(s) + Len(t) /\ y = (s \o t)[i]
      BY <1>1, <2>1
    <2> QED
      BY <1>1, <2>2 DEF PiecesOf
  <1>4. ASSUME NEW y \in PiecesOf(t) PROVE y \in PiecesOf(s \o t)
    <2>1. PICK i \in 1 .. Len(t) : y = t[i]
      BY <1>1 DEF PiecesOf
    <2>2. i + Len(s) \in 1 .. Len(s) + Len(t) /\ y = (s \o t)[i + Len(s)]
      BY <1>1, <2>1
    <2> QED
      BY <1>1, <2>2 DEF PiecesOf
  <1> QED
    BY <1>2, <1>3, <1>4

LEMMA PiecesOfOne == PiecesOf(<<>>) = {} /\ \A x : PiecesOf(<<x>>) = {x}
  BY DEF PiecesOf

LEMMA OnePieceMore ==
    ASSUME NEW S, NEW s \in Seq(S), NEW x \in S
    PROVE  PiecesOf(s \o <<x>>) = PiecesOf(s) \cup {x}
  <1>1. <<x>> \in Seq(S)
    OBVIOUS
  <1>2. PiecesOf(s \o <<x>>) = PiecesOf(s) \cup PiecesOf(<<x>>)
    BY <1>1, PiecesOfPages
  <1>3. PiecesOf(<<x>>) = {x}
    BY PiecesOfOne
  <1> QED
    BY <1>2, <1>3

\* Nothing stops being explained.
LEMMA StraysGrow ==
    ASSUME mixed \subseteq mixed', partly \subseteq partly', NEW k
    PROVE  /\ Strays(k) \subseteq Strays(k)'
           /\ Unmixed(k)' => Unmixed(k)
           /\ \A p : Explained(k, p) => Explained(k, p)'
  <1>1. Strays(k) \subseteq Strays(k)'
    BY DEF Strays
  <1>2. Unmixed(k)' => Unmixed(k)
    BY DEF Unmixed
  <1> QED
    BY <1>1, <1>2 DEF Explained, PiecesOf

LEMMA Pieces ==
    ASSUME NEW S, NEW x \in S, NEW y \in S
    PROVE  /\ <<>> \o <<x>> = <<x>>
           /\ <<x>> \o <<y>> = <<x, y>>
           /\ <<>> \in Seq(S) /\ <<x>> \in Seq(S) /\ <<x, y>> \in Seq(S)
           /\ <<x>> # <<>> /\ <<x, y>> # <<>>
  <1>1. Len(<<>>) = 0 /\ Len(<<x>>) = 1 /\ Len(<<x, y>>) = 2
    OBVIOUS
  <1>2. <<x>> # <<>> /\ <<x, y>> # <<>>
    BY <1>1
  <1>3. <<x>> \o <<y>> = <<x, y>>
    <2> DEFINE s == <<x>> \o <<y>>
               t == <<x, y>>
    <2>1. s \in Seq(S) /\ Len(s) = 2 /\ s[1] = x /\ s[2] = y
      BY ConcatProperties
    <2>2. t \in Seq(S) /\ Len(t) = 2 /\ t[1] = x /\ t[2] = y
      OBVIOUS
    <2> HIDE DEF s, t
    <2>3. \A i \in 1 .. Len(s) : s[i] = t[i]
      BY <2>1, <2>2
    <2>4. s = t
      BY <2>1, <2>2, <2>3, SeqEqual
    <2> QED
      BY <2>4 DEF s, t
  <1> QED
    BY <1>2, <1>3

LEMMA Prefixed ==
    ASSUME NEW S, NEW s \in Seq(S), NEW t \in Seq(S)
    PROVE  s \o t \in Seq(S) /\ <<>> \o t = t
  OBVIOUS

LEMMA Longer ==
    ASSUME NEW S, NEW s \in Seq(S), NEW t \in Seq(S), s # <<>> \/ t # <<>>
    PROVE  s \o t # <<>>
  <1>1. Len(s \o t) = Len(s) + Len(t) /\ Len(s) \in Nat /\ Len(t) \in Nat
    OBVIOUS
  <1>2. Len(s) # 0 \/ Len(t) # 0
    OBVIOUS
  <1>3. Len(s \o t) # 0
    BY <1>1, <1>2
  <1> QED
    BY <1>3

LEMMA PInitInv == PInit => AllInv
  <1> SUFFICES ASSUME PInit PROVE AllInv
    OBVIOUS
  <1>1. Inv
    BY InitInv DEF PInit
  <1>2. PagesTypeOK
    <2>1. \A b \in Buffers : content[b] = <<>>
      BY DEF PInit
    <2>2. \A k \in Keys : k \in Cached => saved[k] = <<k>>
      BY DEF PInit
    <2>3. saved \in [Keys -> Seq(Keys \cup {Torn})]
      <3>1. \A k \in Keys : (IF k \in Cached THEN <<k>> ELSE <<>>) \in Seq(Keys \cup {Torn})
        BY Pieces
      <3> QED
        BY <3>1 DEF PInit
    <2>4. torn \subseteq {k \in Keys : saved[k] # <<>>}
      BY <2>2, PagesAssumption, Pieces DEF PInit
    <2> QED
      <3>1. content \in [Buffers -> Seq(Keys \cup {Torn})]
            /\ page \in [Conns -> Seq(Keys \cup {Torn})]
        BY DEF PInit
      <3>2. bufOf \in [Conns -> Buffers \cup {NoBuf}] /\ free \subseteq Buffers
        BY DEF PInit
      <3>3. mixed \subseteq Conns \X Keys /\ partly \subseteq Keys
        BY DEF PInit
      <3> QED
        BY <2>3, <2>4, <3>1, <3>2, <3>3 DEF PagesTypeOK
  <1>3. Held = {} /\ \A c \in Conns : ~Live(c)
    BY DEF PInit, Init, Held, Waiting, Live
  <1>4. BuffersPrivate /\ ContentInv
    BY <1>3 DEF BuffersPrivate, ContentInv
  <1>5. PagesExplained
    <2>1. ASSUME NEW k \in Keys PROVE Explained(k, <<k>>)
      BY <2>1 DEF Explained, PiecesOf
    <2>2. \A k \in Keys : saved[k] # <<>> => saved[k] = <<k>>
      BY DEF PInit
    <2> QED
      BY <2>1, <2>2 DEF PInit, PagesExplained
  <1>6. OnlyFragileLeave
    BY <1>3 DEF PInit, Init, OnlyFragileLeave
  <1> QED
    BY <1>1, <1>2, <1>4, <1>5, <1>6 DEF AllInv, PagesInv

-----------------------------------------------------------------------------
(* Steps that leave the pages alone. *)

\* A step that leaves the page variables alone keeps PagesInv if it makes no
\* request live, and none waiting or rendered that was not.
LEMMA PagesFrame ==
    ASSUME PagesTypeOK, PagesInv, UNCHANGED pageVars,
           Held' \subseteq Held \cup {d \in Conns : hpc[d] = "enqueue"},
           \A d \in Conns :
             /\ Live(d)' => Live(d)
             /\ hpc'[d] = "lookup" => hpc[d] = "lookup"
             /\ Live(d)' /\ Unrendered(d)' => Unrendered(d)
             /\ Live(d)' /\ Rendered(d)' => Rendered(d)
    PROVE  PagesTypeOK' /\ PagesInv'
  <1> USE DEF pageVars, bufVars, cacheVars, blame
  <1>1. PagesTypeOK'
    BY DEF PagesTypeOK
  <1>2. BuffersPrivate'
    <2>1. \A d \in Conns : hpc[d] = "enqueue" => Live(d)
      BY DEF Live
    <2> QED
      BY <2>1 DEF PagesInv, BuffersPrivate
  <1>3. ContentInv'
    <2>1. ASSUME NEW d \in Conns, Live(d)' PROVE Holds(d, KeyOf[d], content[bufOf[d]])'
      <3>1. Holds(d, KeyOf[d], content[bufOf[d]])
        BY <2>1 DEF PagesInv, ContentInv
      <3> QED
        BY <2>1, <3>1 DEF Holds, Strays, Unmixed, PiecesOf
    <2> QED
      BY <2>1 DEF ContentInv
  <1>4. PagesExplained'
    BY StraysGrow DEF PagesInv, PagesExplained
  <1> QED
    BY <1>1, <1>2, <1>3, <1>4 DEF PagesInv

\* No step but those of the pages makes a request live, waiting or rendered.
Calm ==
    \A d \in Conns :
      /\ Live(d)' => Live(d)
      /\ hpc'[d] = "lookup" => hpc[d] = "lookup"
      /\ Live(d)' /\ Unrendered(d)' => Unrendered(d)
      /\ Live(d)' /\ Rendered(d)' => Rendered(d)

LEMMA UntouchedCalm ==
    ASSUME Inv, NEW c \in Conns, Untouched(c) PROVE Calm
  <1> USE DEF Inv, TypeOK, queueVars, workerVars, netVars, lateVars
  <1>1. Held' \subseteq Held \cup {d \in Conns : hpc[d] = "enqueue"} /\ Held \subseteq Conns
    <2>1. Next
      BY DEF Untouched, Next, Connection, Handler
    <2> QED
      BY <2>1, HeldGrows
  <1>2. \A d \in Held : hpc[d] \in {"position", "await", "linger", "done"}
                        /\ chanResult[d] = "empty"
    BY DEF QueueInv, HeldUnanswered, Entered
  <1>3. CASE Refuse(c)
    BY <1>1, <1>2, <1>3 DEF Refuse, Goto, Calm, Live, Unrendered, Rendered
  <1>4. CASE Enqueue(c)
    BY <1>1, <1>2, <1>4 DEF Enqueue, Goto, Joined, Calm, Live, Unrendered, Rendered
  <1>5. CASE SendPosition(c)
    BY <1>1, <1>2, <1>5 DEF SendPosition, Goto, Send, Calm, Live, Unrendered, Rendered
  <1>6. CASE AwaitCancelled(c)
    BY <1>1, <1>2, <1>6 DEF AwaitCancelled, Goto, Calm, Live, Unrendered, Rendered
  <1>7. CASE AwaitResult(c)
    BY <1>1, <1>2, <1>7 DEF AwaitResult, Goto, AfterResult, Calm, Live, Unrendered, Rendered
  <1>8. CASE Error(c)
    BY <1>1, <1>2, <1>8 DEF Error, Goto, Send, Calm, Live, Unrendered, Rendered
  <1>9. CASE PingFails(c)
    BY <1>1, <1>2, <1>9 DEF PingFails, Calm, Live, Unrendered, Rendered
  <1>10. CASE SendReorder(c)
    BY <1>1, <1>2, <1>10 DEF SendReorder, Send, Calm, Live, Unrendered, Rendered
  <1>11. CASE Straggle(c)
    BY <1>1, <1>2, <1>11 DEF Straggle, Send, Calm, Live, Unrendered, Rendered
  <1>12. CASE LinkFails(c)
    BY <1>1, <1>2, <1>12 DEF LinkFails, Calm, Live, Unrendered, Rendered
  <1> QED
    BY <1>3, <1>4, <1>5, <1>6, <1>7, <1>8, <1>9, <1>10, <1>11, <1>12 DEF Untouched

LEMMA WorkerCalm ==
    ASSUME Inv, WorkerUntouched PROVE Calm
  <1> USE DEF Inv, TypeOK, queueVars, workerVars, netVars, lateVars
  <1>1. Held' \subseteq Held \cup {d \in Conns : hpc[d] = "enqueue"} /\ Held \subseteq Conns
    <2>1. Next
      BY DEF WorkerUntouched, Next, Worker
    <2> QED
      BY <2>1, HeldGrows
  <1>2. \A d \in Held : hpc[d] \in {"position", "await", "linger", "done"}
                        /\ chanResult[d] = "empty"
    BY DEF QueueInv, HeldUnanswered, Entered
  <1>3. CASE WorkerTake
    BY <1>1, <1>2, <1>3 DEF WorkerTake, Calm, Live, Unrendered, Rendered
  <1>4. CASE WorkerSleep
    BY <1>1, <1>2, <1>4 DEF WorkerSleep, Calm, Live, Unrendered, Rendered
  <1>5. CASE WorkerWake
    BY <1>1, <1>2, <1>5 DEF WorkerWake, Calm, Live, Unrendered, Rendered
  <1>6. CASE WorkerStart
    BY <1>1, <1>2, <1>6 DEF WorkerStart, Send, Calm, Live, Unrendered, Rendered
  <1>7. CASE WorkerRun
    BY <1>1, <1>2, <1>7 DEF WorkerRun, Calm, Live, Unrendered, Rendered
  <1>8. CASE WorkerSkip
    BY <1>1, <1>2, <1>8 DEF WorkerSkip, Calm, Live, Unrendered, Rendered
  <1>9. CASE Progress
    BY <1>1, <1>2, <1>9 DEF Progress, Send, Calm, Live, Unrendered, Rendered
  <1>10. CASE AnalysisFails
    BY <1>1, <1>2, <1>10 DEF AnalysisFails, Calm, Live, Unrendered, Rendered
  <1>11. CASE Report
    <2>1. wq \in Conns /\ wq' = NoConn /\ UNCHANGED <<queue, hpc, res>> /\ wpc = "report"
      BY <1>11 DEF Report
    <2>2. \A d \in Conns : chanResult'[d] = "true" => chanResult[d] = "true" \/ (d = wq /\ res)
      BY <1>11, <2>1 DEF Report
    <2>3. Held' = Waiting /\ wq \notin Waiting
      BY <2>1, QueueAssumption DEF Held, Waiting, QueueInv, HeldOnce
    <2>4. Waiting \subseteq Held
      BY DEF Held
    <2>5. \A d \in Conns : Rendered(d)' => Rendered(d)
      BY <2>1, <2>2, QueueAssumption DEF Rendered
    <2>6. \A d \in Conns : d \in Held' => d \in Held /\ ~Rendered(d)
      BY <1>2, <2>3, <2>4 DEF Rendered
    <2> QED
      BY <2>1, <2>5, <2>6 DEF Calm, Live, Unrendered
  <1>12. CASE Rest
    BY <1>1, <1>2, <1>12 DEF Rest, vars, Calm, Live, Unrendered, Rendered
  <1> QED
    BY <1>3, <1>4, <1>5, <1>6, <1>7, <1>8, <1>9, <1>10, <1>11, <1>12 DEF WorkerUntouched

-----------------------------------------------------------------------------
(* The steps of a handler that touch the pages. *)

\* A handler that goes on changes nothing of what the invariant says of others.
LEMMA OthersUndisturbed ==
    ASSUME Inv, NEW c \in Conns, NEW l, Goto(c, l),
           UNCHANGED <<queueVars, workerVars, chanResult>>
    PROVE  /\ Held' = Held
           /\ hpc'[c] = l
           /\ \A d \in Conns \ {c} :
                /\ hpc'[d] = hpc[d]
                /\ Live(d)' = Live(d)
                /\ Unrendered(d)' = Unrendered(d)
                /\ Rendered(d)' = Rendered(d)
  <1>1. hpc'[c] = l /\ \A d \in Conns \ {c} : hpc'[d] = hpc[d]
    BY DEF Goto, Inv, TypeOK
  <1>2. Held' = Held
    BY DEF Held, Waiting, queueVars, workerVars
  <1>3. \A d \in Conns \ {c} : Rendered(d)' = Rendered(d)
    BY <1>1 DEF Rendered, workerVars
  <1>4. \A d \in Conns \ {c} : Unrendered(d)' = Unrendered(d)
    BY <1>1, <1>2, <1>3 DEF Unrendered
  <1>5. \A d \in Conns \ {c} : Live(d)' = Live(d)
    BY <1>1 DEF Live
  <1> QED
    BY <1>1, <1>2, <1>3, <1>4, <1>5

LEMMA HeldInConns == ASSUME Inv PROVE Held \subseteq Conns
  BY QueueAssumption DEF Inv, Held, Waiting, TypeOK

\* A request that is not in the queue or past it is neither held nor rendered.
LEMMA EarlyIsFresh ==
    ASSUME Inv, NEW c \in Conns, hpc[c] \in {"idle", "lookup", "enqueue"}
    PROVE  c \notin Held /\ c # wq /\ chanResult[c] = "empty"
  <1>1. c \notin Held
    BY DEF Inv, QueueInv, HeldUnanswered, Entered
  <1>2. c # wq
    BY <1>1, QueueAssumption DEF Held
  <1>3. chanResult[c] = "empty"
    BY DEF Inv, QueueInv, PlaceOnceJoined
  <1> QED
    BY <1>1, <1>2, <1>3

LEMMA TakeStep ==
    ASSUME AllInv, NEW c \in Conns, TakeBuffer(c)
    PROVE  PagesTypeOK' /\ PagesInv'
  <1> USE DEF AllInv
  <1>1. PICK b \in free :
          /\ bufOf' = [bufOf EXCEPT ![c] = b]
          /\ free' = free \ {b}
          /\ content' = [content EXCEPT ![b] = <<>>]
    BY DEF TakeBuffer, Reset
  <1>2. UNCHANGED <<saved, torn, page, mixed, partly>>
    BY DEF TakeBuffer, cacheVars, blame
  <1>3. hpc[c] = "idle" /\ Goto(c, "lookup") /\ UNCHANGED <<queueVars, workerVars, chanResult>>
    BY DEF TakeBuffer, Admit
  <1>4. Held' = Held /\ hpc'[c] = "lookup"
        /\ \A d \in Conns \ {c} :
             /\ hpc'[d] = hpc[d]
             /\ Live(d)' = Live(d)
             /\ Unrendered(d)' = Unrendered(d)
             /\ Rendered(d)' = Rendered(d)
    BY <1>3, OthersUndisturbed
  <1>5. c \notin Held /\ c # wq /\ chanResult[c] = "empty"
    BY <1>3, EarlyIsFresh
  <1>6. ~Unrendered(c)' /\ ~Rendered(c)'
    BY <1>3, <1>4, <1>5 DEF Unrendered, Rendered, workerVars
  <1>7. \A d \in Conns \ {c} : bufOf'[d] = bufOf[d]
    BY <1>1 DEF PagesTypeOK
  <1>8. bufOf'[c] = b /\ b \in Buffers /\ content'[b] = <<>>
    BY <1>1 DEF PagesTypeOK
  <1>9. \A d \in Conns \ {c} : Live(d) =>
          bufOf[d] \in Buffers \ free /\ bufOf[d] # b /\ content'[bufOf[d]] = content[bufOf[d]]
    BY <1>1 DEF PagesTypeOK, PagesInv, BuffersPrivate
  <1>10. PagesTypeOK'
    <2>1. <<>> \in Seq(Keys \cup {Torn})
      OBVIOUS
    <2> QED
      BY <1>1, <1>2, <2>1 DEF PagesTypeOK
  <1>11. BuffersPrivate'
    <2>1. \A d \in Held' : bufOf'[d] \in Buffers
      BY <1>4, <1>5, <1>7, <1>8, HeldInConns DEF PagesInv, BuffersPrivate
    <2>2. \A d \in Conns : Live(d)' => bufOf'[d] \in Buffers \ free'
      BY <1>1, <1>4, <1>7, <1>8, <1>9
    <2>3. ASSUME NEW d \in Conns, NEW e \in Conns, Live(d)', Live(e)', bufOf'[d] = bufOf'[e]
          PROVE  d = e
      <3>1. CASE d = c \/ e = c
        BY <1>4, <1>7, <1>8, <1>9, <2>3, <3>1
      <3>2. CASE d # c /\ e # c
        BY <1>4, <1>7, <2>3, <3>2 DEF PagesInv, BuffersPrivate
      <3> QED
        BY <3>1, <3>2
    <2> QED
      BY <2>1, <2>2, <2>3 DEF BuffersPrivate
  <1>12. ContentInv'
    <2>1. ASSUME NEW d \in Conns \ {c}, Live(d)' PROVE Holds(d, KeyOf[d], content[bufOf[d]])'
      <3>1. Holds(d, KeyOf[d], content[bufOf[d]])
        BY <1>4, <2>1 DEF PagesInv, ContentInv
      <3>2. content'[bufOf'[d]] = content[bufOf[d]]
        BY <1>4, <1>7, <1>9, <2>1
      <3> QED
        BY <1>2, <1>4, <3>1, <3>2 DEF Holds, Strays, Unmixed, PiecesOf
    <2>2. Holds(c, KeyOf[c], content[bufOf[c]])'
      BY <1>6, <1>8 DEF Holds, PiecesOf
    <2> QED
      BY <2>1, <2>2 DEF ContentInv
  <1>13. PagesExplained'
    BY <1>2, StraysGrow DEF PagesInv, PagesExplained
  <1> QED
    BY <1>10, <1>11, <1>12, <1>13 DEF PagesInv

\* A handler that keeps its buffer answers only for what it does to that buffer.
LEMMA OwnBufferOnly ==
    ASSUME AllInv, NEW c \in Conns, NEW l, Goto(c, l), Live(c), l \notin {"idle", "done", "lookup"},
           UNCHANGED <<queueVars, workerVars, chanResult, bufOf, free, mixed>>,
           partly \subseteq partly',
           \A b \in Buffers \ {bufOf[c]} : content'[b] = content[b],
           Holds(c, KeyOf[c], content[bufOf[c]])'
    PROVE  BuffersPrivate' /\ ContentInv'
  <1> USE DEF AllInv
  <1>1. Held' = Held /\ hpc'[c] = l
        /\ \A d \in Conns \ {c} :
             /\ hpc'[d] = hpc[d]
             /\ Live(d)' = Live(d)
             /\ Unrendered(d)' = Unrendered(d)
             /\ Rendered(d)' = Rendered(d)
    BY OthersUndisturbed
  <1>2. Live(c)' = Live(c)
    BY <1>1 DEF Live
  <1>3. BuffersPrivate'
    BY <1>1, <1>2 DEF PagesInv, BuffersPrivate
  <1>4. \A d \in Conns \ {c} : Live(d) => content'[bufOf[d]] = content[bufOf[d]]
    BY DEF PagesInv, BuffersPrivate
  <1>5. ASSUME NEW d \in Conns \ {c}, Live(d)' PROVE Holds(d, KeyOf[d], content[bufOf[d]])'
    <2>1. Holds(d, KeyOf[d], content[bufOf[d]])
      BY <1>1, <1>5 DEF PagesInv, ContentInv
    <2>2. Strays(KeyOf[d]) \subseteq Strays(KeyOf[d])'
      BY StraysGrow
    <2> QED
      BY <1>1, <1>4, <1>5, <2>1, <2>2 DEF Holds, Unmixed, PiecesOf
  <1>6. ContentInv'
    BY <1>5 DEF ContentInv
  <1> QED
    BY <1>3, <1>6

\* What Writes does to the buffer of a live request.
LEMMA Written ==
    ASSUME AllInv, NEW c \in Conns, bufOf[c] \in Buffers,
           NEW pieces \in Seq(Keys \cup {Torn}), Writes(c, pieces)
    PROVE  /\ content' \in [Buffers -> Seq(Keys \cup {Torn})]
           /\ content'[bufOf[c]] = content[bufOf[c]] \o pieces
           /\ \A b \in Buffers \ {bufOf[c]} : content'[b] = content[b]
  <1>1. content \in [Buffers -> Seq(Keys \cup {Torn})]
    BY DEF AllInv, PagesTypeOK
  <1>2. content[bufOf[c]] \o pieces \in Seq(Keys \cup {Torn})
    BY <1>1, Prefixed
  <1> QED
    BY <1>1, <1>2 DEF Writes

\* What the buffer of a request that has its page holds is explained.
LEMMA RenderedExplained ==
    ASSUME NEW c \in Conns, NEW p, Holds(c, KeyOf[c], p), Rendered(c)
    PROVE  Explained(KeyOf[c], p)
  BY DEF Explained, Holds

LEMMA LoadStep ==
    ASSUME AllInv, NEW c \in Conns, LoadPage(c) PROVE PagesTypeOK' /\ PagesInv'
  <1> USE DEF AllInv
  <1> DEFINE k == KeyOf[c]
  <1>1. /\ hpc[c] = "lookup" /\ Goto(c, "succ")
        /\ UNCHANGED <<queueVars, workerVars, chanResult, bufOf, free, saved, torn, page,
                       mixed, partly>>
        /\ saved[k] # <<>> /\ Writes(c, saved[k])
    BY DEF LoadPage, LookupHit, cacheVars, blame
  <1>2. Live(c) /\ k \in Keys /\ saved[k] \in Seq(Keys \cup {Torn})
    BY <1>1, PagesAssumption DEF Live, PagesTypeOK
  <1>3. bufOf[c] \in Buffers /\ content[bufOf[c]] \in Seq(Keys \cup {Torn})
    BY <1>2 DEF PagesInv, BuffersPrivate, PagesTypeOK
  <1>4. /\ content' \in [Buffers -> Seq(Keys \cup {Torn})]
        /\ content'[bufOf[c]] = content[bufOf[c]] \o saved[k]
        /\ \A b \in Buffers \ {bufOf[c]} : content'[b] = content[b]
    BY <1>1, <1>2, <1>3, Written
  <1>5. hpc'[c] = "succ" /\ ~Unrendered(c)'
    <2>1. Held' = Held /\ hpc'[c] = "succ"
      BY <1>1, OthersUndisturbed
    <2> QED
      BY <1>1, <2>1, EarlyIsFresh DEF Unrendered
  <1>6. Explained(k, content'[bufOf[c]])
    <2>1. Explained(k, saved[k]) /\ Holds(c, k, content[bufOf[c]])
      BY <1>1, <1>2 DEF PagesInv, PagesExplained, ContentInv
    <2>2. PiecesOf(content'[bufOf[c]]) = PiecesOf(content[bufOf[c]]) \cup PiecesOf(saved[k])
      BY <1>2, <1>3, <1>4, PiecesOfPages
    <2>3. Unmixed(k) => content'[bufOf[c]] = saved[k]
      BY <1>1, <1>2, <1>4, <2>1, Prefixed DEF Holds
    <2> QED
      BY <2>1, <2>2, <2>3 DEF Explained, Holds
  <1>7. Holds(c, KeyOf[c], content[bufOf[c]])'
    BY <1>1, <1>5, <1>6 DEF Holds, Explained, Strays, Unmixed, PiecesOf
  <1>8. BuffersPrivate' /\ ContentInv'
    BY <1>1, <1>2, <1>4, <1>7, OwnBufferOnly
  <1>9. PagesTypeOK'
    BY <1>1, <1>4 DEF PagesTypeOK
  <1>10. PagesExplained'
    BY <1>1, StraysGrow DEF PagesInv, PagesExplained
  <1> QED
    BY <1>8, <1>9, <1>10 DEF PagesInv

LEMMA MissStep ==
    ASSUME AllInv, NEW c \in Conns, LoadNothing(c) PROVE PagesTypeOK' /\ PagesInv'
  <1> USE DEF AllInv
  <1> DEFINE k == KeyOf[c]
             p == content[bufOf[c]]
  <1>1. /\ hpc[c] = "lookup" /\ Goto(c, "enqueue")
        /\ UNCHANGED <<queueVars, workerVars, chanResult, bufOf, free, saved, torn, page, mixed>>
        /\ \/ UNCHANGED <<content, partly>>
           \/ Writes(c, <<Torn>>) /\ partly' = partly \cup {k}
    BY DEF LoadNothing, LookupMiss, cacheVars
  <1>2. Live(c) /\ bufOf[c] \in Buffers /\ k \in Keys /\ p \in Seq(Keys \cup {Torn})
    BY <1>1, PagesAssumption DEF Live, PagesInv, BuffersPrivate, PagesTypeOK
  <1>3. <<Torn>> \in Seq(Keys \cup {Torn}) /\ Torn \in Keys \cup {Torn}
    OBVIOUS
  <1>4. /\ content' \in [Buffers -> Seq(Keys \cup {Torn})]
        /\ \/ content'[bufOf[c]] = p
           \/ content'[bufOf[c]] = p \o <<Torn>> /\ k \in partly'
        /\ \A b \in Buffers \ {bufOf[c]} : content'[b] = content[b]
    <2>1. CASE UNCHANGED <<content, partly>>
      BY <2>1 DEF PagesTypeOK
    <2>2. CASE Writes(c, <<Torn>>) /\ partly' = partly \cup {k}
      BY <1>2, <1>3, <2>2, Written
    <2> QED
      BY <1>1, <2>1, <2>2
  <1>5. Held' = Held /\ hpc'[c] = "enqueue" /\ ~Rendered(c)'
    <2>1. Held' = Held /\ hpc'[c] = "enqueue" /\ c # wq /\ chanResult[c] = "empty"
      BY <1>1, OthersUndisturbed, EarlyIsFresh
    <2> QED
      BY <1>1, <2>1 DEF Rendered, workerVars
  <1>6. partly \subseteq partly' /\ mixed' = mixed
    BY <1>1
  <1>7. Holds(c, KeyOf[c], content[bufOf[c]])'
    <2>1. Holds(c, k, p)
      BY <1>2 DEF PagesInv, ContentInv
    <2>2. Strays(k) \subseteq Strays(k)' /\ (k \in partly' => Torn \in Strays(k)')
      BY <1>6, StraysGrow DEF Strays
    <2>3. PiecesOf(content'[bufOf[c]]) \ {k} \subseteq Strays(k)'
      <3> HIDE DEF k, p
      <3>1. PiecesOf(p \o <<Torn>>) = PiecesOf(p) \cup {Torn}
        BY <1>2, <1>3, OnePieceMore
      <3>2. PiecesOf(p) \ {k} \subseteq Strays(k)
        BY <2>1 DEF Holds
      <3>3. CASE content'[bufOf[c]] = p
        BY <2>2, <3>2, <3>3
      <3>4. CASE content'[bufOf[c]] = p \o <<Torn>> /\ k \in partly'
        BY <2>2, <3>1, <3>2, <3>4
      <3> QED
        BY <1>4, <3>3, <3>4
    <2>4. Unmixed(k)' => content'[bufOf[c]] \in {<<>>, <<Torn>>}
      <3>1. Unmixed(k)' => p = <<>>
        BY <1>1, <2>1 DEF Holds, Unmixed
      <3>2. <<>> \o <<Torn>> = <<Torn>>
        BY <1>3, Pieces
      <3> QED
        BY <1>4, <3>1, <3>2
    <2> QED
      BY <1>1, <1>5, <2>3, <2>4 DEF Holds, PiecesOf
  <1>8. BuffersPrivate' /\ ContentInv'
    BY <1>1, <1>2, <1>4, <1>6, <1>7, OwnBufferOnly
  <1>9. PagesTypeOK'
    BY <1>1, <1>2, <1>4 DEF PagesTypeOK
  <1>10. PagesExplained'
    BY <1>1, <1>6, StraysGrow DEF PagesInv, PagesExplained
  <1> QED
    BY <1>8, <1>9, <1>10 DEF PagesInv

LEMMA StoreStep ==
    ASSUME AllInv, NEW c \in Conns, StorePage(c) PROVE PagesTypeOK' /\ PagesInv'
  <1> USE DEF AllInv
  <1> DEFINE k == KeyOf[c]
             p == content[bufOf[c]]
  <1>1. /\ hpc[c] = "save" /\ Goto(c, "succ")
        /\ UNCHANGED <<queueVars, workerVars, chanResult, bufOf, free, content, page, mixed,
                       partly>>
    BY DEF StorePage, SavePage, bufVars, blame
  <1>2. \/ saved' = [saved EXCEPT ![k] = p] /\ torn' \subseteq torn \cup {k}
        \/ UNCHANGED <<saved, torn>>
        \/ saved' = [saved EXCEPT ![k] = <<>>] /\ torn' = torn \ {k}
    BY DEF StorePage, WithoutFile, cacheVars
  <1>3. Live(c) /\ Rendered(c) /\ k \in Keys /\ bufOf[c] \in Buffers
    BY <1>1, PagesAssumption DEF Live, Rendered, PagesInv, BuffersPrivate
  <1>4. Explained(k, p)
    BY <1>3, RenderedExplained DEF PagesInv, ContentInv
  <1>5. p \in Seq(Keys \cup {Torn}) /\ p # <<>>
    BY <1>3, <1>4, PiecesOfOne DEF PagesTypeOK, Explained
  <1>6. PagesTypeOK'
    <2>1. saved' \in [Keys -> Seq(Keys \cup {Torn})]
      <3>1. saved \in [Keys -> Seq(Keys \cup {Torn})] /\ <<>> \in Seq(Keys \cup {Torn})
        BY DEF PagesTypeOK
      <3> HIDE DEF k, p
      <3> QED
        BY <1>2, <1>5, <3>1
    <2>2. torn' \subseteq {key \in Keys : saved'[key] # <<>>}
      BY <1>2, <1>3, <1>5 DEF PagesTypeOK
    <2> QED
      BY <1>1, <2>1, <2>2 DEF PagesTypeOK
  <1>7. PagesExplained'
    <2>1. \A key \in Keys : saved'[key] \in {saved[key], <<>>} \/ (key = k /\ saved'[key] = p)
      BY <1>2 DEF PagesTypeOK
    <2>2. \A key \in Keys : saved'[key] # <<>> => Explained(key, saved'[key])
      BY <1>4, <2>1 DEF PagesInv, PagesExplained
    <2> QED
      BY <1>1, <2>2, StraysGrow DEF PagesInv, PagesExplained
  <1>8. ~Unrendered(c)' /\ hpc'[c] = "succ"
    <2>1. Held' = Held /\ hpc'[c] = "succ"
      BY <1>1, OthersUndisturbed
    <2> QED
      BY <2>1 DEF Unrendered, Rendered
  <1>9. Holds(c, KeyOf[c], content[bufOf[c]])'
    BY <1>1, <1>4, <1>8 DEF Holds, Explained, Strays, Unmixed, PiecesOf
  <1>10. BuffersPrivate' /\ ContentInv'
    BY <1>1, <1>3, <1>9, OwnBufferOnly
  <1> QED
    BY <1>6, <1>7, <1>10 DEF PagesInv

LEMMA PageSentStep ==
    ASSUME AllInv, NEW c \in Conns, SendPage(c) PROVE PagesTypeOK' /\ PagesInv'
  <1> USE DEF AllInv
  <1> DEFINE k == KeyOf[c]
             p == content[bufOf[c]]
  <1>1. /\ hpc[c] = "succ" /\ Goto(c, "linger")
        /\ UNCHANGED <<queueVars, workerVars, chanResult, bufOf, free, content, saved, torn,
                       mixed, partly>>
        /\ page' = [page EXCEPT ![c] = IF link[c] = "up" THEN p ELSE @]
    BY DEF SendPage, Succ, AfterPage, bufVars, cacheVars, blame
  <1>2. Live(c) /\ Rendered(c) /\ bufOf[c] \in Buffers
    BY <1>1 DEF Live, Rendered, PagesInv, BuffersPrivate
  <1>3. Explained(k, p)
    BY <1>2, RenderedExplained DEF PagesInv, ContentInv
  <1>4. p \in Seq(Keys \cup {Torn})
    BY <1>2 DEF PagesTypeOK
  <1>5. PagesTypeOK'
    BY <1>1, <1>4 DEF PagesTypeOK
  <1>6. PagesExplained'
    <2>1. \A d \in Conns : page'[d] = page[d] \/ (d = c /\ page'[d] = p)
      BY <1>1 DEF PagesTypeOK
    <2>2. \A d \in Conns : page'[d] # <<>> => Explained(KeyOf[d], page'[d])
      BY <1>3, <2>1 DEF PagesInv, PagesExplained
    <2> QED
      BY <1>1, <2>2, StraysGrow DEF PagesInv, PagesExplained
  <1>7. ~Unrendered(c)' /\ hpc'[c] = "linger"
    <2>1. Held' = Held /\ hpc'[c] = "linger"
      BY <1>1, OthersUndisturbed
    <2>2. c \notin Held
      BY <1>1 DEF Inv, QueueInv, HeldUnanswered, Entered
    <2> QED
      BY <2>1, <2>2 DEF Unrendered
  <1>8. Holds(c, KeyOf[c], content[bufOf[c]])'
    BY <1>1, <1>3, <1>7 DEF Holds, Explained, Strays, Unmixed, PiecesOf
  <1>9. BuffersPrivate' /\ ContentInv'
    BY <1>1, <1>2, <1>8, OwnBufferOnly
  <1> QED
    BY <1>5, <1>6, <1>9 DEF PagesInv

LEMMA PutStep ==
    ASSUME AllInv, NEW c \in Conns, PutBuffer(c) PROVE PagesTypeOK' /\ PagesInv'
  <1> USE DEF AllInv
  <1>1. /\ hpc[c] = "linger" /\ Goto(c, "done")
        /\ UNCHANGED <<queueVars, workerVars, chanResult, bufOf, content, saved, torn, page,
                       mixed, partly>>
        /\ free' = free \cup {bufOf[c]}
    BY DEF PutBuffer, Finish, cacheVars, blame
  <1>2. Held' = Held /\ hpc'[c] = "done"
        /\ \A d \in Conns \ {c} :
             /\ hpc'[d] = hpc[d]
             /\ Live(d)' = Live(d)
             /\ Unrendered(d)' = Unrendered(d)
             /\ Rendered(d)' = Rendered(d)
    BY <1>1, OthersUndisturbed
  <1>3. Live(c) /\ ~Live(c)'
    BY <1>1, <1>2 DEF Live
  <1>4. bufOf[c] \in Buffers /\ \A d \in Conns \ {c} : Live(d) => bufOf[d] # bufOf[c]
    BY <1>3 DEF PagesInv, BuffersPrivate
  <1>5. PagesTypeOK'
    BY <1>1, <1>4 DEF PagesTypeOK
  <1>6. BuffersPrivate'
    BY <1>1, <1>2, <1>3, <1>4 DEF PagesInv, BuffersPrivate
  <1>7. ContentInv'
    <2>1. ASSUME NEW d \in Conns \ {c}, Live(d)' PROVE Holds(d, KeyOf[d], content[bufOf[d]])'
      <3>1. Holds(d, KeyOf[d], content[bufOf[d]])
        BY <1>2, <2>1 DEF PagesInv, ContentInv
      <3> QED
        BY <1>1, <1>2, <3>1 DEF Holds, Strays, Unmixed, PiecesOf
    <2> QED
      BY <1>3, <2>1 DEF ContentInv
  <1>8. PagesExplained'
    BY <1>1, StraysGrow DEF PagesInv, PagesExplained
  <1> QED
    BY <1>5, <1>6, <1>7, <1>8 DEF PagesInv

-----------------------------------------------------------------------------
(* The worker renders, the cleaner expires. *)

LEMMA RenderStep ==
    ASSUME AllInv, RenderPage PROVE PagesTypeOK' /\ PagesInv'
  <1> USE DEF AllInv
  <1> DEFINE k == KeyOf[wq]
             met == {d \in Conns \ {wq} : Live(d) /\ bufOf[d] = bufOf[wq]}
  <1>1. /\ wpc = "run" /\ wpc' = "report" /\ res' = TRUE
        /\ UNCHANGED <<queueVars, wq, hpc, chanResult, bufOf, free, saved, torn, page, partly>>
        /\ Writes(wq, <<k>>)
        /\ mixed' = mixed \cup {<<wq, KeyOf[d]>> : d \in met}
    BY DEF RenderPage, Render, cacheVars
  <1>2. wq \in Conns /\ wq \in Held /\ k \in Keys
    BY <1>1, QueueAssumption, PagesAssumption DEF Inv, TypeOK, Held
  <1>3. <<k>> \in Seq(Keys \cup {Torn}) /\ <<k>> # <<>> /\ <<>> \o <<k>> = <<k>>
        /\ <<Torn>> \o <<k>> = <<Torn, k>>
    <2> HIDE DEF k
    <2>1. k \in Keys \cup {Torn} /\ Torn \in Keys \cup {Torn}
      BY <1>2
    <2> QED
      BY <2>1, Pieces
  <1>4. bufOf[wq] \in Buffers /\ content[bufOf[wq]] \in Seq(Keys \cup {Torn})
    BY <1>2 DEF PagesInv, BuffersPrivate, PagesTypeOK
  <1>5. /\ content' \in [Buffers -> Seq(Keys \cup {Torn})]
        /\ content'[bufOf[wq]] = content[bufOf[wq]] \o <<k>>
        /\ \A b \in Buffers \ {bufOf[wq]} : content'[b] = content[b]
    BY <1>1, <1>2, <1>3, <1>4, Written
  <1>6. PiecesOf(content'[bufOf[wq]]) = PiecesOf(content[bufOf[wq]]) \cup {k}
    <2> HIDE DEF k
    <2>1. PiecesOf(content[bufOf[wq]] \o <<k>>) = PiecesOf(content[bufOf[wq]]) \cup {k}
      BY <1>2, <1>4, OnePieceMore
    <2> QED
      BY <1>5, <2>1
  <1>7. Held' = Held
    BY <1>1 DEF Held, Waiting, queueVars
  <1>8. \A d \in Conns : Live(d)' = Live(d)
    BY <1>1 DEF Live
  <1>9. \A d \in Conns \ {wq} : Rendered(d)' = Rendered(d) /\ Unrendered(d)' = Unrendered(d)
    BY <1>1, <1>7 DEF Rendered, Unrendered
  <1>10. Entered(wq) /\ chanResult[wq] = "empty"
    BY <1>2 DEF Inv, QueueInv, HeldUnanswered
  <1>11. Unrendered(wq) /\ ~Unrendered(wq)' /\ hpc'[wq] # "lookup"
    BY <1>1, <1>2, <1>7, <1>10 DEF Unrendered, Rendered, Entered
  <1>12. BuffersPrivate'
    BY <1>1, <1>7, <1>8 DEF PagesInv, BuffersPrivate
  <1>13. mixed \subseteq mixed' /\ partly \subseteq partly'
    BY <1>1
  \* Only an analysis that outlived its handler writes to the buffer of another.
  <1>14. ASSUME NEW d \in met PROVE ~Live(wq) /\ hpc[wq] = "done" /\ wq \in Fragile
    <2>1. ~Live(wq)
      BY <1>2, <1>14 DEF PagesInv, BuffersPrivate
    <2> QED
      BY <1>2, <1>10, <2>1 DEF Live, Entered, OnlyFragileLeave
  <1>15. ASSUME NEW d \in Conns, Live(d) PROVE Holds(d, KeyOf[d], content[bufOf[d]])'
    <2> DEFINE p == content[bufOf[d]]
    <2>1. Holds(d, KeyOf[d], p)
      BY <1>15 DEF PagesInv, ContentInv
    <2>2. Strays(KeyOf[d]) \subseteq Strays(KeyOf[d])' /\ (Unmixed(KeyOf[d])' => Unmixed(KeyOf[d]))
      BY <1>13, StraysGrow
    <2>3. bufOf[d] \in Buffers
      BY <1>15 DEF PagesInv, BuffersPrivate
    <2>4. CASE d = wq
      <3>1. Unmixed(KeyOf[d])' => content'[bufOf'[d]] \in {<<KeyOf[d]>>, <<Torn, KeyOf[d]>>}
        <4>1. Unmixed(KeyOf[d])' => content[bufOf[d]] \in {<<>>, <<Torn>>}
          BY <1>11, <2>1, <2>2, <2>4 DEF Holds
        <4> QED
          BY <1>1, <1>3, <1>5, <2>4, <4>1
      <3>2. PiecesOf(content'[bufOf'[d]]) = PiecesOf(content[bufOf[d]]) \cup {KeyOf[d]}
        BY <1>1, <1>6, <2>4
      <3>3. PiecesOf(content'[bufOf'[d]]) \ {KeyOf[d]} \subseteq Strays(KeyOf[d])'
        BY <2>1, <2>2, <3>2 DEF Holds
      <3>4. ~Unrendered(d)' /\ hpc'[d] # "lookup"
        BY <1>1, <1>11, <2>4
      <3> QED
        BY <3>1, <3>2, <3>3, <3>4 DEF Holds, PiecesOf
    <2>5. CASE d # wq /\ bufOf[d] = bufOf[wq]
      <3>1. d \in met /\ <<wq, KeyOf[d]>> \in mixed'
        BY <1>1, <1>15, <2>5
      <3>2. ~Unmixed(KeyOf[d])' /\ k \in Strays(KeyOf[d])'
        BY <3>1 DEF Unmixed, Strays
      <3>3. PiecesOf(content'[bufOf'[d]]) = PiecesOf(content[bufOf[d]]) \cup {k}
        BY <1>1, <1>6, <2>5
      <3>4. Rendered(d)' = Rendered(d)
        BY <1>9, <2>5
      <3> QED
        BY <2>1, <2>2, <3>2, <3>3, <3>4 DEF Holds, PiecesOf
    <2>6. CASE bufOf[d] # bufOf[wq]
      <3>1. content'[bufOf'[d]] = content[bufOf[d]] /\ hpc'[d] = hpc[d]
        BY <1>1, <1>5, <2>3, <2>6
      <3>2. d # wq
        BY <2>6
      <3>3. PiecesOf(content'[bufOf'[d]]) = PiecesOf(content[bufOf[d]])
        BY <3>1
      <3> QED
        BY <1>9, <2>1, <2>2, <3>1, <3>2, <3>3 DEF Holds, PiecesOf
    <2> QED
      BY <2>4, <2>5, <2>6
  <1>16. ContentInv'
    BY <1>8, <1>15 DEF ContentInv
  <1>17. PagesTypeOK'
    <2>1. {<<wq, KeyOf[d]>> : d \in met} \subseteq Conns \X Keys
      BY <1>2, PagesAssumption
    <2> QED
      BY <1>1, <1>5, <2>1 DEF PagesTypeOK
  <1>18. PagesExplained'
    <2>1. \A m \in mixed' : m[1] \in Fragile
      BY <1>1, <1>14 DEF PagesInv, PagesExplained
    <2>2. \A key, p : Explained(key, p) => Explained(key, p)'
      BY <1>13, StraysGrow
    <2> QED
      BY <1>1, <2>1, <2>2 DEF PagesInv, PagesExplained
  <1> QED
    BY <1>12, <1>16, <1>17, <1>18 DEF PagesInv

LEMMA ExpireStep ==
    ASSUME AllInv, NEW k \in Keys, Expire(k) PROVE PagesTypeOK' /\ PagesInv'
  <1> USE DEF AllInv
  <1>1. /\ saved' = [saved EXCEPT ![k] = <<>>] /\ torn' = torn \ {k}
        /\ UNCHANGED <<vars, bufOf, free, content, page, mixed, partly>>
    BY DEF Expire, bufVars, blame
  <1>2. PagesTypeOK'
    BY <1>1 DEF PagesTypeOK
  <1>3. \A key \in Keys : saved'[key] \in {saved[key], <<>>}
    BY <1>1 DEF PagesTypeOK
  <1>4. PagesExplained'
    BY <1>1, <1>3, StraysGrow DEF PagesInv, PagesExplained
  <1>5. \A d \in Conns : /\ Live(d)' = Live(d) /\ Rendered(d)' = Rendered(d)
                         /\ Unrendered(d)' = Unrendered(d) /\ hpc'[d] = hpc[d]
    BY <1>1
    DEF Held, Waiting, Live, Rendered, Unrendered, vars, queueVars, workerVars
  <1>6. BuffersPrivate'
    BY <1>1, <1>5 DEF PagesInv, BuffersPrivate, Held, Waiting, vars, queueVars, workerVars
  <1>7. ContentInv'
    BY <1>1, <1>5 DEF PagesInv, ContentInv, Holds, Strays, Unmixed, PiecesOf
  <1> QED
    BY <1>2, <1>4, <1>6, <1>7 DEF PagesInv

-----------------------------------------------------------------------------
(* The theorems. *)

LEMMA PagesStep ==
    ASSUME AllInv, Inv', [PNext]_allVars PROVE AllInv'
  <1> USE DEF AllInv
  <1>1. [Next]_vars /\ OnlyFragileLeave'
    BY StepIsPathStep, LeaversStep
  <1>2. Held' \subseteq Held \cup {d \in Conns : hpc[d] = "enqueue"}
    BY <1>1, HeldGrows
  <1>3. ASSUME Calm, UNCHANGED pageVars PROVE PagesTypeOK' /\ PagesInv'
    BY <1>2, <1>3, PagesFrame DEF Calm
  <1>4. ASSUME NEW c \in Conns, Untouched(c) PROVE PagesTypeOK' /\ PagesInv'
    BY <1>3, <1>4, UntouchedCalm DEF Untouched
  <1>5. CASE WorkerUntouched
    <2>1. Calm /\ UNCHANGED pageVars
      BY <1>5, WorkerCalm DEF WorkerUntouched
    <2> QED
      BY <1>1, <1>3, <2>1
  <1>6. CASE UNCHANGED allVars
    <2>1. Calm
      BY <1>6
      DEF Calm, Live, Unrendered, Rendered, Held, Waiting, allVars, vars, queueVars, workerVars
    <2>2. UNCHANGED pageVars
      BY <1>6 DEF allVars
    <2> QED
      BY <1>1, <1>3, <2>1, <2>2
  <1> QED
    BY <1>1, <1>4, <1>5, <1>6, TakeStep, LoadStep, MissStep, StoreStep, PageSentStep, PutStep,
       RenderStep, ExpireStep DEF PNext

\* The inductive invariant of the pages, for any number of connections and
\* buffers, with analyses that outlive their handlers and broken cache files.
THEOREM PagesInvariance == PSpec => []AllInv
  <1>1. PInit => AllInv
    BY PInitInv
  <1>2. AllInv /\ Inv' /\ [PNext]_allVars => AllInv'
    BY PagesStep
  <1>3. PSpec => []Inv
    BY PagesImplementPath, Invariance, PTL
  <1> QED
    BY <1>1, <1>2, <1>3, PTL DEF PSpec

\* Type correctness of the page variables.
THEOREM PagesTypeCorrect == PSpec => []PagesTypeOK
  <1>1. AllInv => PagesTypeOK
    BY DEF AllInv
  <1> QED
    BY <1>1, PagesInvariance, PTL

\* Whatever a browser gets and the cache keeps has the page of its own key in it, and
\* what else there may be is a part of that key's broken file or the page of an analysis
\* whose own connection failed (http.go:71-77, 118-119, cache.go:261).
THEOREM PagesAreExplained == PSpec => []PagesExplained
  <1>1. AllInv => PagesExplained
    BY DEF AllInv, PagesInv
  <1> QED
    BY <1>1, PagesInvariance, PTL

\* Requests that are being served never share a buffer, and an analysis writes
\* to another's buffer only if its own connection failed (http.go:73).
THEOREM BuffersStayApart == PSpec => []BuffersApart
  <1>1. AllInv => BuffersApart
    <2> SUFFICES ASSUME AllInv, NEW c \in Conns, Live(c),
                        wpc = "run", wq # c, bufOf[wq] = bufOf[c]
                 PROVE  wq \in Fragile
      BY DEF AllInv, PagesInv, BuffersPrivate, BuffersApart
    <2>1. wq \in Conns /\ wq \in Held
      BY QueueAssumption DEF AllInv, Inv, TypeOK, Held
    <2>2. ~Live(wq)
      BY <2>1 DEF AllInv, PagesInv, BuffersPrivate
    <2>3. hpc[wq] = "done"
      BY <2>1, <2>2 DEF Live, AllInv, Inv, QueueInv, HeldUnanswered, Entered
    <2> QED
      BY <2>1, <2>3 DEF AllInv, OnlyFragileLeave
  <1> QED
    BY <1>1, PagesInvariance, PTL
=============================================================================
