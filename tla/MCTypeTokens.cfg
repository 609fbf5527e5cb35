SPECIFICATION Spec
CONSTANTS
    Refs <- MCRefs
    MethodRefs <- MCMethodRefs
    Kind <- MCKind
    Assembly <- MCAssembly
    Own = "Own"
    Id <- MCId
    Args <- MCArgs
    None = None
    MaxCalls = 3
INVARIANTS
    TypeOK
    SpecsFaithful
    SpecsWellFounded
    MethodSpecsFaithful
    AnswersDenote
