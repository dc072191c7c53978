CONSTANTS
    Values <- TheValues
    Kinds <- None
    Scalars <- None
    Texts = {}
    Names = {}
    MaxStructs = 8
    MaxElems = 8
    MaxBuilds = 1
    MaxCalls = 1
SPECIFICATION MarshalSpec
INVARIANTS
    MarshalReadsBack
