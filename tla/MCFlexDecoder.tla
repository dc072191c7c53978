---------------------------- MODULE MCFlexDecoder ----------------------------
(***************************************************************************)
(* Small instances of FlexDecoder for TLC.                                 *)
(***************************************************************************)
EXTENDS FlexDecoder

(* A structure of each shape that holds no others.                         *)
FlatKinds == {VECTOR_UINT, VECTOR_BOOL, BLOB, STR, KEY, INDIRECT_INT, VECTOR_UINT2,
              VECTOR_FLOAT3, VECTOR_INT4}
FlatScalars ==
    {[type |-> NULL, size |-> b8], [type |-> BOOL, size |-> b8], [type |-> INT, size |-> b8],
     [type |-> INT, size |-> b16], [type |-> UINT, size |-> b8], [type |-> UINT, size |-> b16],
     [type |-> FLOAT, size |-> b32], [type |-> FLOAT, size |-> b64]}
FlatTexts == {[narrow |-> 0, wide |-> 0], [narrow |-> 2, wide |-> 0], [narrow |-> 1, wide |-> 1]}
=============================================================================
