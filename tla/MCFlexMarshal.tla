---------------------------- MODULE MCFlexMarshal ----------------------------
(***************************************************************************)
(* Small instances of FlexMarshal for TLC.                                 *)
(***************************************************************************)
EXTENDS FlexMarshal

Small == [type |-> INT, size |-> b8]
Wide == [type |-> INT, size |-> b16]
Word == [narrow |-> 1, wide |-> 0]

Node(kind, vType, elem, entries) ==
    [kind |-> kind, vType |-> vType, elem |-> elem, text |-> Word, entries |-> entries]
MapOf(entries) == Node("map", MAP, Small, entries)
SliceOf(vType, values) ==
    Node("slice", vType, Small, [i \in DOMAIN values |-> [key |-> NoKey, value |-> values[i]]])
At(k, v) == [key |-> k, value |-> v]

(* Maps and slices in each other, elements of two widths beside offsets,   *)
(* keys of several lengths, scalars alone, and values that fail.           *)
TheValues == <<
    MapOf(<<At(2, 4), At(1, 11), At(3, 7)>>),
    SliceOf(VECTOR, <<11, 4, 6, 13>>),
    SliceOf(VECTOR, <<4, 12, 11>>),
    MapOf(<<At(3, 13), At(1, 9), At(2, 11), At(NoKey, 11)>>),
    MapOf(<<At(2, 12), At(1, 13)>>),
    SliceOf(VECTOR_INT, <<11, 12, 11>>),
    SliceOf(VECTOR_INT2, <<11, 11>>),
    SliceOf(VECTOR, <<11, 14>>),
    SliceOf(VECTOR, <<>>),
    MapOf(<<At(NoKey, 13), At(1, 11)>>),
    Node("scalar", INT, Small, <<>>),
    Node("scalar", INT, Wide, <<>>),
    Node("string", STR, Small, <<>>),
    Node("other", NULL, Small, <<>>) >>

None == {}
=============================================================================
