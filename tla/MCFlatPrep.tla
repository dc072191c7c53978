------------------------------ MODULE MCFlatPrep ------------------------------
(***************************************************************************)
(* A small instance of FlatPrep for TLC.                                   *)
(***************************************************************************)
EXTENDS FlatPrep

(* Go rounds small capacities up to multiples of 8.                        *)
SizeClasses == {8 * n : n \in 1..32}
=============================================================================
