SPECIFICATION FairSpec
CONSTANTS
    Names = {"A", "B", "C", "D"}
    MaxIndex = 4
    None = None
    Procs = {"p", "q"}
    Scripts <- MCScripts
INVARIANTS
    TypeOK
    NeverPoisoned
    OrderPanicMeansGap
    TokensLandUnlessStale
PROPERTIES
    ImplementsStore
    CallsReturn
