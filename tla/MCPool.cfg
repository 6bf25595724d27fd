\* One task more than workers, so that Do has to wait for a token.
CONSTANTS
    t1 = t1
    t2 = t2
    t3 = t3
    NoTask = NoTask
    Tasks = {t1, t2, t3}
    Workers = 2
    MaxTries = 3
SPECIFICATION PFairSpec
INVARIANTS
    TokenGoesBack
    JoinsAll
    OneAnswerPerCall
PROPERTIES
    CancelledWaitReturns
    AnsweredWaitReturns
