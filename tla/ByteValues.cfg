SPECIFICATION Spec
CONSTANTS
    Sources <- MCSources
    MaxHashes = 2
    MaxValue = 500
    None = None
INVARIANT
    ByteValuesAreContents
