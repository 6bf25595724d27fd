\* Both analyses, with three goroutines.
CONSTANTS
    Goroutines = {g1, g2, g3}
    Main = Main
    MaxCalls = 2
SPECIFICATION FairSpec
INVARIANTS
    ClosedWhenUnused
    FewReportsAreLate
PROPERTIES
    AnalysisReturns
