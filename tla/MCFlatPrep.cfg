CONSTANTS
    Capacities <- SizeClasses
    InitialSizes = {0, 5}
    Sizes = {2, 8}
    Additional = {0, 5}
    Data = {1}
    MaxOffset = 16
SPECIFICATION Spec
INVARIANTS
    RoomIsThere
PROPERTIES
    PrepAligns
    PrepReturns
    KeepsLog
CHECK_DEADLOCK FALSE
