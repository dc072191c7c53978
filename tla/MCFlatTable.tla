----------------------------- MODULE MCFlatTable -----------------------------
(***************************************************************************)
(* Small instances of FlatTable for TLC.                                   *)
(***************************************************************************)
EXTENDS FlatTable

SizeClasses == {8 * n : n \in 1..32}

ShortAndWord == <<2, 4>>
(* Elements of 8 bytes, so that the buffer is aligned to more than its     *)
(* fields are.                                                             *)
LongVector == {[size |-> 8, num |-> 1, alignment |-> 8]}
Lengths == <<3>>
=============================================================================
