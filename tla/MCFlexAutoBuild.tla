--------------------------- MODULE MCFlexAutoBuild ---------------------------
(***************************************************************************)
(* Small instances of FlexAutoBuild for TLC.                               *)
(***************************************************************************)
EXTENDS FlexAutoBuild

One == [type |-> INT, size |-> b8]
NoText == [narrow |-> 0, wide |-> 0]
Word == [narrow |-> 1, wide |-> 0]

Node(kind, vType, elem, text, entries) ==
    [kind |-> kind, vType |-> vType, elem |-> elem, text |-> text, entries |-> entries]
MapOf(entries) == Node("map", MAP, One, NoText, entries)
SliceOf(vType, values) ==
    Node("slice", vType, One, NoText,
         [i \in DOMAIN values |-> [key |-> NoKey, value |-> values[i]]])
At(k, v) == [key |-> k, value |-> v]

(* Maps in maps and slices, typed and not, with the empty key and keys     *)
(* that come out empty, entries of no known type, and what they hold.      *)
TheValues == <<
    MapOf(<<At(2, 10), At(1, 4), At(NoKey, 10), At(3, 11)>>),
    SliceOf(VECTOR, <<4, 11, 5>>),
    MapOf(<<At(1, 5), At(NoKey, 4)>>),
    SliceOf(VECTOR, <<11, 10>>),
    SliceOf(VECTOR_INT2, <<10, 10>>),
    SliceOf(VECTOR, <<7, 9>>),
    MapOf(<<At(2, 12), At(1, 10), At(0, 10)>>),
    MapOf(<<At(0, 11), At(1, 10)>>),
    SliceOf(VECTOR, <<12, 10>>),
    Node("scalar", INT, One, NoText, <<>>),
    Node("string", STR, One, Word, <<>>),
    Node("other", NULL, One, NoText, <<>>) >>

AutoKinds == {VECTOR, MAP}
AutoScalars == {One}
=============================================================================
