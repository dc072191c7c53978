CONSTANTS
    Kinds <- NestedKinds
    Scalars <- LayoutScalars
    Texts <- ShortText
    Names = {}
    MaxStructs = 3
    MaxElems = 2
    MaxCalls = 1
SPECIFICATION SerializeSpec
INVARIANTS
    EveryOffsetLeads
