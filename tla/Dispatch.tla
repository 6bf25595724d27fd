------------------------------ MODULE Dispatch ------------------------------
(***************************************************************************)
(* What the analysis queue promises its handlers: requests are taken in    *)
(* the order of their submission, one at a time, each at most once, and    *)
(* under fairness each one is taken.                                       *)
(***************************************************************************)
EXTENDS Sequences, Naturals

CONSTANTS Conns, NoConn

VARIABLES
    waiting,    \* submitted and not yet taken, oldest first
    running,    \* the request being worked on, NoConn between two of them
    served      \* the requests the worker is finished with

vars == <<waiting, running, served>>

Waiting == {waiting[i] : i \in DOMAIN waiting}

Init ==
    /\ waiting = <<>>
    /\ running = NoConn
    /\ served = {}

Submit(c) ==
    /\ c \notin Waiting \cup served \cup {running}
    /\ waiting' = Append(waiting, c)
    /\ UNCHANGED <<running, served>>

Take ==
    /\ running = NoConn
    /\ waiting # <<>>
    /\ running' = Head(waiting)
    /\ waiting' = Tail(waiting)
    /\ UNCHANGED served

Release ==
    /\ running # NoConn
    /\ running' = NoConn
    /\ served' = served \cup {running}
    /\ UNCHANGED waiting

Next == (\E c \in Conns : Submit(c)) \/ Take \/ Release

Spec == Init /\ [][Next]_vars

Fairness == WF_vars(Take) /\ WF_vars(Release)

FairSpec == Spec /\ Fairness
=============================================================================
