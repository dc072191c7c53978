------------------------------- MODULE FlatLog -------------------------------
(***************************************************************************)
(* What the buffer of the flatbuffers Builder promises to its callers: a   *)
(* log of bytes to which scalars and at most seven bytes of padding are    *)
(* added in front, and of which nothing is changed or lost.  There is no   *)
(* room in it, and nothing grows.                                          *)
(***************************************************************************)
EXTENDS Integers, Sequences

CONSTANTS Sizes, Data, Scalar(_, _)

VARIABLE log    \* the bytes, the one added last in front

Init == log = <<>>

Pad == \E n \in 1..7 : log' = Scalar(n, 0) \o log

Add == \E size \in Sizes, x \in Data : log' = Scalar(size, x) \o log

Next == Pad \/ Add

Spec == Init /\ [][Next]_log
=============================================================================
