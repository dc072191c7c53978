CONSTANTS
    Kinds <- BuildingKinds
    Scalars <- ByteScalars
    Texts <- OneText
    Names = {0, 1, 2}
    MaxStructs = 4
    MaxElems = 3
SPECIFICATION Spec
INVARIANTS
    TypeOK
    StackIsPath
    DocumentIsTree
    CompleteIsFinished
    MapsAreSorted
PROPERTIES
    EndedIsFinal
    FailureAddsNothing
    EntriesStayPaired
