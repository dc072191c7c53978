CONSTANTS
    Capacities <- SizeClasses
    InitialSize = 0
    FieldSize <- ShortAndWord
    Values = {0, 1}
    Texts = {1}
    TextLen <- Lengths
    Vectors <- LongVector
    Identifiers = {1}
    MaxOffset = 44
    MaxMade = 3
    MaxResets = 0
    MaxMessages = 1
SPECIFICATION TableSpec
INVARIANTS
    TablesReadBack
    VtablesDiffer
    BuffersReadBack
    MessageHasRoot
    MessageReadsBack
