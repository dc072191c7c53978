--------------------------- MODULE MCFlexSerialize ---------------------------
(***************************************************************************)
(* Small instances of FlexSerialize for TLC.                               *)
(***************************************************************************)
EXTENDS FlexSerialize

LayoutKinds == {VECTOR, MAP, VECTOR_INT2}
LayoutScalars == {[type |-> INT, size |-> b16]}
ShortText == {[narrow |-> 1, wide |-> 0]}

NestedKinds == {VECTOR}
=============================================================================
