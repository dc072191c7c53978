CONSTANTS
    Capacities <- SizeClasses
    InitialSize = 1
    FieldSize <- NoFields
    Values = {1}
    Texts = {1, 2}
    TextLen <- Lengths
    Vectors <- SmallVectors
    Identifiers = {}
    MaxOffset = 24
    MaxMade = 3
    MaxResets = 1
SPECIFICATION Spec
INVARIANTS
    TypeOK
    VectorsReadBack
    SharedStringsAreThere
PROPERTY WrittenStays
