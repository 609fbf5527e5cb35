SPECIFICATION FairSpec
CONSTANTS
    Sources <- MCSources
    MaxHashes = 2
    MaxValue = 500
    None = None
INVARIANTS
    TypeOK
    StringsExact
    CharsExact
    RawStringsExact
    CommentsNest
    NumbersWhole
    ValuesAreContents
PROPERTIES
    LexerEnds
