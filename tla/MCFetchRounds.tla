--------------------------- MODULE MCFetchRounds ---------------------------
EXTENDS FetchRounds

\* The first entry takes two answers, the others one.
MCAnswers == [t \in Todos |-> IF t = 1 THEN 2 ELSE 1]
=============================================================================
