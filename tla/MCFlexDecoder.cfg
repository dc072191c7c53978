CONSTANTS
    Kinds <- FlatKinds
    Scalars <- FlatScalars
    Texts <- FlatTexts
    Names = {}
    MaxStructs = 2
    MaxElems = 5
    MaxCalls = 2
SPECIFICATION SerializeSpec
INVARIANTS
    ContentsFitType
    ScalarsDecode
    KeysDecode
    ReadsStayInBuffer
