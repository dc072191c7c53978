--------------------------- MODULE MCFlexMapInsert ---------------------------
(***************************************************************************)
(* A small instance of FlexMapInsert for TLC.                              *)
(***************************************************************************)
EXTENDS FlexMapInsert

SomeScalars == {[type |-> INT, size |-> b8]}
=============================================================================
