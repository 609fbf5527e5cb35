SPECIFICATION Spec
CONSTANTS
    Files <- MCFiles
    Bases = {1}
    MaxIndex = 4
    Interfaces <- MCInterfaces
    InterfaceMethods <- MCInterfaceMethods
    Denotable = {"I", "K"}
    Names = {"a", "b"}
    ByIndex = ByIndex
    NoImpl = NoImpl
INVARIANTS
    TypeOK
    SlotsCorrect
    SlotPanicMeansWrongSlot
    TokensLand
    MapsAligned
    ClaimsEmitted
