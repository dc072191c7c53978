---------------------------- MODULE MCFlexBuilder ----------------------------
(***************************************************************************)
(* Small instances of FlexBuilder for TLC.                                 *)
(***************************************************************************)
EXTENDS FlexBuilder

(* Structures that take anything, keyed entries, one type, and nothing.    *)
BuildingKinds == {VECTOR, MAP, STR, VECTOR_INT}
ByteScalars == {[type |-> INT, size |-> b8]}

MapKinds == {MAP}
MapScalars == {[type |-> INT, size |-> b8], [type |-> INT, size |-> b16]}

OneText == {[narrow |-> 1, wide |-> 0]}
=============================================================================
