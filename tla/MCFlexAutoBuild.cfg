CONSTANTS
    Values <- TheValues
    Kinds <- AutoKinds
    Scalars <- AutoScalars
    Texts = {}
    Names = {1}
    MaxStructs = 3
    MaxElems = 4
    MaxBuilds = 1
SPECIFICATION AutoSpec
INVARIANTS
    StackIsRestored
    ValueIsBuilt
    SlicesPassErrors
PROPERTIES
    AutoBuildReturns
