SPECIFICATION Spec
CONSTANTS
    Sources <- MCSources
    Types <- MCTypes
    Fields <- MCFields
    Methods <- MCMethods
    Indexed <- MCIndexed
    Current = This
    MaxU64 = 9
    Bits <- MCBits
    Signed <- MCSigned
    Empty = Empty
    None = None
    x = x
    y = y
    g = g
    z = z
    This = This
    Other = Other
    Param = Param
    Missing = Missing
    f = f
    h = h
    text = text
INVARIANTS
    TypeOK
    OperandsDenote
    MembersOfContainer
    LoadsWhatItStores
    NumbersLoaded
    RangesRelative
