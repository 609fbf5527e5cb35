SPECIFICATION FairSpec
CONSTANTS
    Inputs <- MCInputs
    Samples <- MCSamples
    ValueOf <- MCValueOf
    Loadable = {"5u8", "0u8", "1u8", "2u8", "64u32", "0u64", "1u64", "2u64", "3u64"}
    MaxIndex = 9
    None = None
    DebugAssertions = TRUE
INVARIANTS
    TypeOK
    BracketsMatch
    GenericsResolved
    FileFaithful
    SampleAccepted
PROPERTIES
    ParserEnds
