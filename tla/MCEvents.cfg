\* Four parts, of which casts and buffs have several pages.
CONSTANTS
    Parts = {"casts", "buffs", "attacks", "debuffs"}
    Pages <- MCPages
    MaxRetries = 3
    Worlds <- MCWorlds
SPECIFICATION FairSpec
INVARIANTS
    EventsExact
    FetchedOnce
    CallsBounded
PROPERTIES
    Returns
