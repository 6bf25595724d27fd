\* Two clients whose links may fail at any step, one of them with an hps request;
\* the worker may hang for good.
CONSTANTS
    c1 = c1
    c2 = c2
    NoConn = NoConn
    Conns = {c1, c2}
    Hps = {c1}
    Fragile = {c1, c2}
    Stragglers = 2
SPECIFICATION FairSpec
INVARIANTS
    NoLostWakeup
    PositionNeverUnderstated
    WorkerNeverBlocks
    CancelledOnlyWhenUnreachable
    CloseFrameAlone
PROPERTIES
    AnsweredBeforeLinger
    OutcomeStays
    HandlersFinish
    GoneClientsReleased
    DispatchSpec
    DispatchFair
