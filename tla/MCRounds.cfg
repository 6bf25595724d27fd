\* Two batches, of which one is not full; an entry that takes two answers.
CONSTANTS
    N = 3
    Answers <- MCAnswers
    BatchSize = 2
    MaxTries = 3
    Workers = 2
SPECIFICATION FairSpec
INVARIANTS
    EntriesHaveOneOwner
    ResultIsEarned
PROPERTIES
    Returns
