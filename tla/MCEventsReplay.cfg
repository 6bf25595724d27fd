\* One table of one answer is null: does the next analysis end?
CONSTANTS
    Parts = {"casts", "buffs", "attacks", "debuffs"}
    Pages <- MCPages
    MaxRetries = 3
    Worlds <- MCOneNull
SPECIFICATION FairSpec
PROPERTIES
    AlwaysReturns
