SPECIFICATION Spec
CONSTANTS
    Files <- ClaimFiles
    Bases = {1}
    MaxIndex = 4
    Interfaces <- MCInterfaces
    InterfaceMethods <- MCInterfaceMethods
    Denotable = {"I", "K"}
    Names = {"a", "b"}
    ByIndex = ByIndex
    NoImpl = NoImpl
INVARIANT
    GaplessMapAccepted
