---------------------------- MODULE MCFlatBuilder ----------------------------
(***************************************************************************)
(* Small instances of FlatBuilder for TLC.                                 *)
(***************************************************************************)
EXTENDS FlatBuilder

(* Go rounds small capacities up to multiples of 8.                        *)
SizeClasses == {8 * n : n \in 1..32}

NoFields == <<>>

SmallVectors == {[size |-> 2, num |-> 1, alignment |-> 2], [size |-> 8, num |-> 1, alignment |-> 8]}

(* The strings are 1 and 2, one of them empty.                             *)
Lengths == <<0, 3>>
=============================================================================
