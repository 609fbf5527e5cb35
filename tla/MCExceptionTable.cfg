SPECIFICATION FairSpec
CONSTANTS
    Inputs <- MCInputs
    None = None
INVARIANTS
    TypeOK
    EntriesFaithful
PROPERTIES
    EndsUnlessStuck
