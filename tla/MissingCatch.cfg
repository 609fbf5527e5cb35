SPECIFICATION FairSpec
CONSTANTS
    Inputs <- MCInputs
    None = None
PROPERTY
    MissingCatchIsReported
