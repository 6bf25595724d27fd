\* Requests for any of three characters, one after the other.
CONSTANTS
    f1 = f1
    f2 = f2
    f3 = f3
    r1 = r1
    r2 = r2
    me = me
    you = you
    them = them
    Fights = {f1, f2, f3}
    Reports = {r1, r2}
    Chars = {me, you, them}
    ReportOf <- MCReportOf
    Pair <- MCPair
    Listings <- MCListings
    MaxTries = 4
SPECIFICATION HSpec
INVARIANTS
    CountedAsListed
    NothingIsLeftOut
