\* Two requests for different pages, one of a client that may go away.
CONSTANTS
    c1 = c1
    c2 = c2
    k1 = k1
    k2 = k2
    b1 = b1
    b2 = b2
    NoConn = NoConn
    NoBuf = NoBuf
    Torn = Torn
    Conns = {c1, c2}
    Hps = {}
    Fragile = {c1}
    Stragglers = 0
    Buffers = {b1, b2}
    Keys = {k1, k2}
    KeyOf <- MCKeyOf
    Cached = {k1}
    DiskFaults = {k1}
SPECIFICATION PSpec
SYMMETRY BufferSymmetry
INVARIANTS
    PagesExplained
    BuffersApart
