CONSTANTS
    Kinds <- MapKinds
    Scalars <- MapScalars
    Texts <- OneText
    Names = {0, 1, 2}
    MaxStructs = 2
    MaxElems = 2
SPECIFICATION Spec
INVARIANT NoDuplicateKeys
