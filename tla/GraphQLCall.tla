---------------------------- MODULE GraphQLCall ----------------------------
(***************************************************************************)
(* CallGraphQL: one query with up to three tries, for each of the          *)
(* goroutines that may be in it.                                           *)
(*                                                                         *)
(* An answer is any body that is JSON, whatever the status says and        *)
(* whether it has what was asked for or not; an empty body is one, too.    *)
(* FFLogs, or the proxy before it, may answer, fail, or do neither: the    *)
(* request has no time limit, only the context.                            *)
(***************************************************************************)
EXTENDS Naturals

CONSTANTS
    Callers,
    MaxTries     \* maxRetries: 3

VARIABLES
    ctxDone,     \* the context of the calls is done; written by the environment
    phase,       \* "idle", "asking", "pausing", and the result: "ok", "error"
    try,         \* the number of the try
    bodies,      \* complete answers that were decoded into respData
    rest         \* respData holds parts of a body that broke off

cvars == <<phase, try, bodies, rest>>

Init ==
    /\ phase = [c \in Callers |-> "idle"]
    /\ try = [c \in Callers |-> 0]
    /\ bodies = [c \in Callers |-> 0]
    /\ rest = [c \in Callers |-> FALSE]

Begin(c) ==
    /\ phase[c] = "idle"
    /\ phase' = [phase EXCEPT ![c] = "asking"]
    /\ try' = [try EXCEPT ![c] = 1]
    /\ UNCHANGED <<bodies, rest>>

AfterError(c) == IF try[c] < MaxTries THEN "pausing" ELSE "error"

\* Fault: a try that succeeded does not end the loop.
AnsweredAgain(c) ==
    /\ phase[c] = "asking"
    /\ bodies' = [bodies EXCEPT ![c] = @ + 1]
    /\ phase' = [phase EXCEPT ![c] = IF try[c] < MaxTries THEN "pausing" ELSE "ok"]
    /\ UNCHANGED <<try, rest>>

Answered(c) ==
    /\ phase[c] = "asking"
    /\ bodies' = [bodies EXCEPT ![c] = @ + 1]
    /\ phase' = [phase EXCEPT ![c] = "ok"]
    /\ UNCHANGED <<try, rest>>

\* No connection, or a body that breaks off or is no JSON.
Failed(c) ==
    /\ phase[c] = "asking"
    /\ \E part \in BOOLEAN : rest' = [rest EXCEPT ![c] = @ \/ part]
    /\ phase' = [phase EXCEPT ![c] = AfterError(c)]
    /\ UNCHANGED <<try, bodies>>

\* Fault: the request does not carry the context.
Unbound(c) == FALSE /\ UNCHANGED cvars

\* The context ends the request, before or in its body: there is no other try.
ContextError(c) ==
    /\ phase[c] = "asking" /\ ctxDone
    /\ \E part \in BOOLEAN : rest' = [rest EXCEPT ![c] = @ \/ part]
    /\ phase' = [phase EXCEPT ![c] = "error"]
    /\ UNCHANGED <<try, bodies>>

\* Three seconds, or the context; either way there is another try.
Resume(c) ==
    /\ phase[c] = "pausing"
    /\ phase' = [phase EXCEPT ![c] = "asking"]
    /\ try' = [try EXCEPT ![c] = @ + 1]
    /\ UNCHANGED <<bodies, rest>>

\* The caller takes the result and drops respData.
End(c) ==
    /\ phase[c] \in {"ok", "error"}
    /\ phase' = [phase EXCEPT ![c] = "idle"]
    /\ try' = [try EXCEPT ![c] = 0]
    /\ bodies' = [bodies EXCEPT ![c] = 0]
    /\ rest' = [rest EXCEPT ![c] = FALSE]

\* What the service does by itself, and what FFLogs does.
Own(c)    == ContextError(c) \/ Resume(c)
FFLogs(c) == Answered(c) \/ Failed(c)

-----------------------------------------------------------------------------
(* Properties. *)

\* A call that succeeds hands over exactly one complete answer, one that fails
\* none: a query is not repeated once it was answered, and an answer that was
\* decoded is not thrown away (client.go:38-57, 102-109).
OneAnswerPerCall ==
    \A c \in Callers :
        /\ phase[c] = "ok" => bodies[c] = 1
        /\ phase[c] # "ok" => bodies[c] = 0
=============================================================================
