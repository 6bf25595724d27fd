---------------------------- MODULE HpsRankings ----------------------------
(***************************************************************************)
(* The hps analysis: what the worker makes, one request after the other,   *)
(* of the fights a character is ranked in as a healer, and of the cache of *)
(* healer pairs that all characters share.                                 *)
(*                                                                         *)
(* The goroutines and batches of a round are those of FetchRounds; here a  *)
(* report asked for in a round is answered, left out or lost by itself.    *)
(* Every open report is asked for in every round, so one count of rounds   *)
(* stands for the retries of each.                                         *)
(***************************************************************************)
EXTENDS Naturals, FiniteSets

CONSTANTS
    Fights, Reports, Chars,
    ReportOf,
    Pair,          \* the two healers of each fight, as characters
    Listings,      \* how often the answer may list each fight for a character
    MaxTries       \* 4: retries > 3 ends it

ASSUME HpsAssumption ==
    /\ ReportOf \in [Fights -> Reports]
    /\ Pair \in [Fights -> Chars \X Chars]
    /\ Listings \subseteq [Fights -> Nat]
    /\ MaxTries \in Nat

VARIABLES
    ranked,     \* fights for which FFLogs has a number for both healers, by now
    cached,     \* fights whose pair is in the cache
    hpc,        \* "idle", "data", "lookup", "round", "wait", "done"
    who,        \* the character
    listed,     \* reportData: how often each fight is listed
    todo,       \* the fights to ask for
    open,       \* reports with such fights that are not done
    asked,      \* those of this round whose query is not through
    tries,      \* rounds so far
    failed,     \* the pool has an error
    gone,       \* the context is done
    list,       \* rankingDataPairList, as a bag of fights
    state,      \* what the page is about; "false": there is none
    rows,       \* rows of the page's table, as a bag of fights
    unanswered, \* history: reports that were null in an answer
    missed      \* history: how many answers left each report out

request == <<who, listed>>
fetch   == <<todo, open, asked, tries, failed, list>>
result  == <<state, rows>>
history == <<unanswered, missed>>
hvars   == <<ranked, cached, hpc, gone, request, fetch, result, history>>

None  == [f \in Fights |-> 0]
FightsOf(r) == {f \in Fights : ReportOf[f] = r}

HInit ==
    /\ ranked \in SUBSET Fights /\ cached = {}
    /\ hpc = "idle" /\ gone = FALSE
    /\ who \in Chars /\ listed = None
    /\ todo = {} /\ open = {} /\ asked = {} /\ tries = 0 /\ failed = FALSE
    /\ list = None
    /\ state = "invalid" /\ rows = None
    /\ unanswered = {} /\ missed = [r \in Reports |-> 0]

\* A number appears when FFLogs has computed it.
Rank(f) ==
    /\ hpc = "idle"
    /\ ranked' = ranked \cup {f}
    /\ UNCHANGED <<cached, hpc, gone, request, fetch, result, history>>

Begin ==
    /\ hpc = "idle"
    /\ hpc' = "data"
    /\ who' \in Chars
    /\ UNCHANGED <<ranked, cached, gone, listed, fetch, result, history>>

\* Invalid options or an unknown preset: the page says so.
Invalid ==
    /\ hpc = "idle"
    /\ hpc' = "done" /\ state' = "invalid"
    /\ UNCHANGED <<ranked, cached, gone, request, fetch, rows, history>>

Cancel ==
    /\ hpc # "idle" /\ ~gone
    /\ gone' = TRUE
    /\ UNCHANGED <<ranked, cached, hpc, request, fetch, result, history>>

Finish(s) == hpc' = "done" /\ state' = s

\* getCharacterData and what doInner does with it.
NoCharacter ==
    /\ hpc = "data"
    /\ \E s \in {"false", "notfound", "hidden"} : Finish(s)
    /\ UNCHANGED <<ranked, cached, gone, request, fetch, rows, history>>

CharacterData ==
    /\ hpc = "data"
    /\ listed' \in Listings
    /\ IF listed' = None THEN Finish("nolog") ELSE hpc' = "lookup" /\ UNCHANGED state
    /\ UNCHANGED <<ranked, cached, gone, who, fetch, rows, history>>

\* Fault: the fights found in the cache are asked for, too.
TodoOfAll(found) == {f \in Fights : listed[f] > 0}
TodoOf(found) == {f \in Fights : listed[f] > 0} \ found

\* Every listing of a cached fight adds its pair; a load may fail.
Lookup ==
    /\ hpc = "lookup"
    /\ \E found \in SUBSET (cached \cap {f \in Fights : listed[f] > 0}) :
         /\ list' = [f \in Fights |-> IF f \in found THEN listed[f] ELSE 0]
         /\ todo' = TodoOf(found)
    /\ open' = {ReportOf[f] : f \in todo'}
    /\ hpc' = "round"
    /\ UNCHANGED <<ranked, cached, gone, request, asked, tries, failed, result, history>>

Round ==
    /\ hpc = "round"
    /\ open # {} /\ tries < MaxTries
    /\ asked' = open /\ tries' = tries + 1
    /\ hpc' = "wait"
    /\ UNCHANGED <<ranked, cached, gone, request, todo, open, failed, list, result, history>>

\* A report in an answer is done; each fight with two numbers is kept, and saved if
\* the save succeeds.
TakeAnswer(r, got) ==
    /\ hpc = "wait" /\ r \in asked
    /\ asked' = asked \ {r} /\ open' = open \ {r}
    /\ list' = [f \in Fights |-> IF f \in got THEN list[f] + 1 ELSE list[f]]
    /\ \E saved \in SUBSET got : cached' = cached \cup saved
    /\ UNCHANGED <<ranked, hpc, gone, request, todo, tries, failed, result>>

Answered(r) ==
    /\ TakeAnswer(r, FightsOf(r) \cap todo \cap ranked)
    /\ UNCHANGED history

AnsweredNull(r) ==
    /\ TakeAnswer(r, {})
    /\ unanswered' = unanswered \cup {r}
    /\ UNCHANGED missed

\* Fault: a report that the answer leaves out is done.
MissingIsDone(r) ==
    /\ hpc = "wait" /\ r \in asked
    /\ asked' = asked \ {r} /\ open' = open \ {r}
    /\ UNCHANGED <<ranked, cached, hpc, gone, request, todo, tries, failed, list, result,
                   history>>

Missing(r) ==
    /\ hpc = "wait" /\ r \in asked
    /\ asked' = asked \ {r}
    /\ missed' = [missed EXCEPT ![r] = @ + 1]
    /\ UNCHANGED <<ranked, cached, hpc, gone, request, todo, open, tries, failed, list, result,
                   unanswered>>

\* The context was done when the turn of the batch came: no query, and no error.
Skipped(r) ==
    /\ hpc = "wait" /\ r \in asked
    /\ gone
    /\ asked' = asked \ {r}
    /\ UNCHANGED <<ranked, cached, hpc, gone, request, todo, open, tries, failed, list, result,
                   history>>

CallFails(r) ==
    /\ hpc = "wait" /\ r \in asked
    /\ asked' = asked \ {r} /\ failed' = TRUE
    /\ UNCHANGED <<ranked, cached, hpc, gone, request, todo, open, tries, list, result,
                   history>>

Joined ==
    /\ hpc = "wait" /\ asked = {}
    /\ IF failed THEN Finish("false") ELSE hpc' = "round" /\ UNCHANGED state
    /\ UNCHANGED <<ranked, cached, gone, request, fetch, rows, history>>

\* Exactly one of the two healers is the character.
Mine(f) == (Pair[f][1] = who) # (Pair[f][2] = who)

\* No report is open, or all tries were in vain: the table of what there is.
Table ==
    /\ hpc = "round"
    /\ open = {} \/ tries = MaxTries
    /\ rows' = [f \in Fights |-> IF Mine(f) THEN list[f] ELSE 0]
    /\ Finish("normal")
    /\ UNCHANGED <<ranked, cached, gone, request, fetch, history>>

EndOfRequest ==
    /\ hpc = "done"
    /\ hpc' = "idle" /\ gone' = FALSE
    /\ listed' = None
    /\ todo' = {} /\ open' = {} /\ tries' = 0 /\ failed' = FALSE
    /\ list' = None
    /\ state' = "invalid" /\ rows' = None
    /\ unanswered' = {} /\ missed' = [r \in Reports |-> 0]
    /\ UNCHANGED <<ranked, cached, who, asked>>

HNext ==
    \/ \E f \in Fights : Rank(f)
    \/ Begin \/ Invalid \/ Cancel
    \/ NoCharacter \/ CharacterData \/ Lookup \/ Round
    \/ \E r \in Reports : Answered(r) \/ AnsweredNull(r) \/ Missing(r) \/ Skipped(r) \/ CallFails(r)
    \/ Joined \/ Table \/ EndOfRequest

HSpec == HInit /\ [][HNext]_hvars

-----------------------------------------------------------------------------
(* Properties. *)

\* The table has only fights in which the character was one of two ranked healers,
\* each at most as often as the answer listed it, wherever its pair came from: a
\* fight is not both loaded and asked for
\* (worker.go:194-237, ql_fight_rankings.go:93-105, 167-218).
CountedAsListed ==
    state = "normal" =>
        \A f \in Fights : rows[f] > 0 => rows[f] <= listed[f] /\ Mine(f) /\ f \in ranked

\* The table lacks a fight of the character only if its numbers are not there yet, if
\* its report was null in an answer or missing from four of them, or if the client is
\* gone; that an earlier request found nothing makes no difference
\* (ql_fight_rankings.go:96, 133, 154-178, 226-263).
NothingIsLeftOut ==
    state = "normal" =>
        \A f \in Fights :
            listed[f] > 0 /\ Mine(f) /\ f \in ranked /\ rows[f] = 0 =>
                \/ ReportOf[f] \in unanswered
                \/ missed[ReportOf[f]] = MaxTries
                \/ gone
=============================================================================
