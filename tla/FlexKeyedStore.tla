--------------------------- MODULE FlexKeyedStore ---------------------------
(***************************************************************************)
(* What a FlexBuffers map under construction promises: the values of each  *)
(* name, in the order in which they were added.                            *)
(***************************************************************************)
EXTENDS Sequences

CONSTANTS Names, Values

VARIABLE store

Init == store = [n \in Names |-> <<>>]

Add(n, v) == store' = [store EXCEPT ![n] = Append(@, v)]

Next == \E n \in Names, v \in Values : Add(n, v)

Spec == Init /\ [][Next]_store
=============================================================================
