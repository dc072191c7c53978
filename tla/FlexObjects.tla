----------------------------- MODULE FlexObjects -----------------------------
(***************************************************************************)
(* The structures of a FlexBuffers document and what each kind of them     *)
(* takes (flexbuffers/object.go): elements, the offsets among them, the    *)
(* texts of strings and keys, the keys of maps.                            *)
(***************************************************************************)
EXTENDS FlexTypes, FiniteSets, Sequences, SequencesExt

Root == 1
NoStruct == 0   \* the target of an inline element

(* The elements of newINT, newUINT, newFLOAT, newBOOL and newNULL.         *)
InlineElem ==
    [type : {INT, UINT}, size : ByteSize] \cup [type : {FLOAT}, size : {b32, b64}]
        \cup [type : {BOOL, NULL}, size : {b8}]

Elem == [type : VarType, size : ByteSize, target : Nat]
Key  == [name : Nat, obj : Nat]
Structure == [vType : VarType, elems : Seq(Elem), children : Seq(Nat), keys : Seq(Key)]

-----------------------------------------------------------------------------
(* Structures.                                                             *)

Inline(e) == [type |-> e.type, size |-> e.size, target |-> NoStruct]
OffsetTo(id, v) == [type |-> v, size |-> b8, target |-> id]

Empty(v) == [vType |-> v, elems |-> <<>>, children |-> <<>>, keys |-> <<>>]

allowsElemType(v, t) ==
    CASE isUintTyped(v)  -> t = UINT
      [] isIntTyped(v)   -> t = INT
      [] isFloatTyped(v) -> t = FLOAT
      [] isBoolTyped(v)  -> t = BOOL
      [] v = VECTOR_KEY  -> t = KEY
      [] v = VECTOR_STRING_DEPRECATED -> t = STR
      [] OTHER -> TRUE

allowsElemSize(v, size) == isBlobLike(v) => size = b8

(* A mutant: the limits of isFull taken one too high.                      *)
isFullOneTooLate(s) ==
    \/ isScalar(s.vType) /\ Len(s.elems) > 1
    \/ isTuple(s.vType)  /\ Len(s.elems) > 2
    \/ isTriple(s.vType) /\ Len(s.elems) > 3
    \/ isQuad(s.vType)   /\ Len(s.elems) > 4

isFull(s) ==
    \/ isScalar(s.vType) /\ Len(s.elems) >= 1
    \/ isTuple(s.vType)  /\ Len(s.elems) >= 2
    \/ isTriple(s.vType) /\ Len(s.elems) >= 3
    \/ isQuad(s.vType)   /\ Len(s.elems) >= 4

allows(s, e) ==
    allowsElemType(s.vType, e.type) /\ allowsElemSize(s.vType, e.size) /\ ~isFull(s)

(* x at the 0-based index of a slice if that lies inside, at its end if not. *)
PutAt(slice, index, x) ==
    IF index < Len(slice) THEN InsertAt(slice, index + 1, x) ELSE Append(slice, x)

insertElement(s, e, index) == [s EXCEPT !.elems = PutAt(@, index, e)]

(* A mutant: the offset is inserted, the object it refers to is not kept.  *)
insertOffsetOnly(s, e, index) == insertElement(s, e, index)

insertOffsetToObject(s, e, index) ==
    [s EXCEPT !.elems = PutAt(@, index, e), !.children = PutAt(@, index, e.target)]

(* The policies of the three implementations of elementHandler: the root   *)
(* takes one element or one child, a map takes nothing without a key, the  *)
(* others what allows lets in.                                             *)
TakesElement(id, s, e) ==
    CASE id = Root      -> Len(s.elems) = 0
      [] s.vType = MAP  -> FALSE
      [] OTHER          -> allows(s, e)

TakesOffset(id, s, e) ==
    CASE id = Root      -> Len(s.children) = 0
      [] s.vType = MAP  -> FALSE
      [] OTHER          -> allows(s, e)

(* Where addElement and addOffsetToObject put it: first in the root, last elsewhere. *)
EndIndex(id, s) == IF id = Root THEN 0 ELSE Len(s.elems)

(* Append of a string or key: a rune that is refused (it needs more than   *)
(* one byte) is dropped, and the error with it.                            *)
Rune(size) == Inline([type |-> UINT, size |-> size])
Accepted(s, n, size) == [i \in 1..(IF allows(s, Rune(size)) THEN n ELSE 0) |-> Rune(size)]

AppendText(s, text) ==
    [s EXCEPT !.elems = @ \o Accepted(s, text.narrow, b8) \o Accepted(s, text.wide, b16)]

-----------------------------------------------------------------------------
(* Maps.  A key is its text, ordered as strings are, and its identity:     *)
(* the elements of a key are allocated with it, and Equals compares        *)
(* pointers to elements, so two keys are equal if both are empty or they   *)
(* are one object.                                                         *)

NewKey(m, name) == [name |-> name, obj |-> Len(m.keys) + 1]

Equals(k, other) == (k.name = 0 /\ other.name = 0) \/ k = other

containsKey(m, k) == \E i \in DOMAIN m.keys : Equals(m.keys[i], k)

(* A mutant: a key equal to others is inserted before them.                *)
KeyIndexBeforeEqual(m, k) == Cardinality({i \in DOMAIN m.keys : m.keys[i].name < k.name})

(* The 0-based index behind every key that is not greater, of which there  *)
(* are as many.  The source finds it by bisection; FlexMapInsert takes the *)
(* bisection step by step and shows that it ends here.                     *)
KeyIndex(m, k) == Cardinality({i \in DOMAIN m.keys : m.keys[i].name <= k.name})

AddKey(m, k) == [m EXCEPT !.keys = PutAt(@, KeyIndex(m, k), k)]

IsMap(s) == s.vType = MAP

TakesKey(m, k) == IsMap(m) /\ k.name # 0 /\ ~containsKey(m, k)

addElementWithKey(m, k, e) == insertElement(AddKey(m, k), e, KeyIndex(m, k))

(* A mutant: the key goes to its place, the offset to the end.             *)
addOffsetAtEnd(m, k, e) == insertOffsetToObject(AddKey(m, k), e, Len(m.elems))

addOffsetWithKey(m, k, e) == insertOffsetToObject(AddKey(m, k), e, KeyIndex(m, k))
=============================================================================
