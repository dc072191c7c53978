CONSTANTS
    Kinds <- LayoutKinds
    Scalars <- LayoutScalars
    Texts <- ShortText
    Names = {1}
    MaxStructs = 3
    MaxElems = 2
    MaxCalls = 2
SPECIFICATION SerializeSpec
INVARIANTS
    ElementsReadBack
    OffsetsLeadBack
    ContextsTellWidths
    HeadsReadBack
PROPERTY SerializationEnds
