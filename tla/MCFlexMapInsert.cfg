CONSTANTS
    Names = {0, 1, 2, 3}
    Scalars <- SomeScalars
    MaxEntries = 5
SPECIFICATION Spec
INVARIANTS
    SearchBrackets
PROPERTIES
    InsertsAtKeyIndex
    SearchHalves
    SearchEnds
    StoresUnderName
