----------------------------- MODULE FlexBuilder -----------------------------
(***************************************************************************)
(* The FlexBuffers builder (flexbuffers/builder.go) and the document it    *)
(* builds out of the structures of FlexObjects.                            *)
(*                                                                         *)
(* A call of the public API is one action.  Its arguments range over small *)
(* sets; its result, "ok", "error" or "panic", is kept in ret.             *)
(*                                                                         *)
(* Pointers become indices.  structs is the heap of structures that ever   *)
(* became part of the document (a structure whose start fails is garbage): *)
(* structs[Root] is the root, which the Builder embeds.  The offsetPtrs of *)
(* a structure point at the elements that refer to it; the model keeps the *)
(* inverse, the field target of an offset element.                         *)
(***************************************************************************)
EXTENDS FlexObjects

CONSTANTS
    Kinds,      \* the types of structure the client starts
    Scalars,    \* the inline elements the client adds: records [type, size]
    Texts,      \* the texts of strings and keys: how many runes are below 256
                \* (narrow) and how many are not (wide)
    Names,      \* the names of map entries; 0 is the empty string
    MaxStructs, \* bound on the number of structures
    MaxElems    \* bound on the elements of one structure

(* The types StartVector, StartTyped*Vector, StartBlob, Start*Scalar,      *)
(* Start*Tuple, Start*Triple, Start*Quad, StartString, StartKey, StartMap. *)
Startable == {VECTOR, VECTOR_INT, VECTOR_UINT, VECTOR_FLOAT, VECTOR_BOOL, BLOB,
              STR, KEY, MAP} \cup {v \in VarType : isFixedTypedVector(v)}

ASSUME KindsAssumption   == Kinds \subseteq Startable
ASSUME ScalarsAssumption == Scalars \subseteq InlineElem
ASSUME TextsAssumption   == Texts \subseteq [narrow : Nat, wide : Nat]
ASSUME NamesAssumption   == Names \subseteq Nat
ASSUME BoundsAssumption  == MaxStructs \in Nat /\ MaxElems \in Nat

VARIABLES
    finished,   \* Builder.finished
    inProgress, \* Builder.inProgress: the structures under construction
    headIndex,  \* Builder.headIndex: the 0-based index of the innermost one
    structs,    \* the structures of the document, in the order of their creation
    ret         \* how the last call ended

vars == <<finished, inProgress, headIndex, structs, ret>>
doc  == <<finished, inProgress, headIndex, structs>>

-----------------------------------------------------------------------------
(* The stack of structures under construction.                             *)

getHead == inProgress[headIndex + 1]
HeadStructure == structs[getHead]
NextId == Len(structs) + 1

Room == Len(HeadStructure.elems) < MaxElems   \* a bound of the model
RoomForText(text) == text.narrow + text.wide <= MaxElems
RoomForStructure == Room /\ Len(structs) < MaxStructs

Init ==
    /\ finished = FALSE
    /\ inProgress = <<Root>>
    /\ headIndex = 0
    /\ structs = <<Empty(NULL)>>
    /\ ret = "ok"

Finish(stack) == finished' = (finished \/ Len(stack) = 1)

Fail == ret' = "error" /\ UNCHANGED doc
Panic == ret' = "panic" /\ UNCHANGED doc

(* A mutant: the offset is given to the root, whatever the head is.        *)
PushOntoRoot(head, s) ==
    /\ structs' = Append([structs EXCEPT ![Root] = head], s)
    /\ inProgress' = Append(inProgress, NextId)
    /\ headIndex' = headIndex + 1
    /\ UNCHANGED finished

(* What start and startWithKey do once the head has taken the offset: the  *)
(* new structure s becomes the innermost one.                              *)
Push(head, s) ==
    /\ structs' = Append([structs EXCEPT ![getHead] = head], s)
    /\ inProgress' = Append(inProgress, NextId)
    /\ headIndex' = headIndex + 1
    /\ UNCHANGED finished

(* A mutant: the End of a string at the root does not finish the builder.  *)
PushAndEndUnfinished(head, s) ==
    /\ structs' = Append([structs EXCEPT ![getHead] = head], s)
    /\ UNCHANGED <<inProgress, headIndex, finished>>

(* The same followed by End, which removes it from the stack again.        *)
PushAndEnd(head, s) ==
    /\ structs' = Append([structs EXCEPT ![getHead] = head], s)
    /\ inProgress' = SubSeq(Append(inProgress, NextId), 1, headIndex + 1)
    /\ IF headIndex = 0 THEN Finish(inProgress') ELSE UNCHANGED finished
    /\ UNCHANGED headIndex

(* Two mutants: headIndex stays behind; the outermost structure is removed *)
(* instead of the innermost.                                               *)
PopKeepsHeadIndex ==
    /\ headIndex >= 1
    /\ inProgress' = SubSeq(inProgress, 1, headIndex)
    /\ IF headIndex = 1 THEN Finish(inProgress') ELSE UNCHANGED finished
    /\ UNCHANGED <<headIndex, structs>>

PopOutermost ==
    /\ headIndex >= 1
    /\ inProgress' = SubSeq(inProgress, 2, headIndex + 1)
    /\ headIndex' = headIndex - 1
    /\ IF headIndex' = 0 THEN Finish(inProgress') ELSE UNCHANGED finished
    /\ UNCHANGED structs

(* End on a stack of more than the root.                                   *)
Pop ==
    /\ headIndex >= 1
    /\ inProgress' = SubSeq(inProgress, 1, headIndex)
    /\ headIndex' = headIndex - 1
    /\ IF headIndex' = 0 THEN Finish(inProgress') ELSE UNCHANGED finished
    /\ UNCHANGED structs

CanStart(v) == TakesOffset(getHead, HeadStructure, OffsetTo(NextId, v))
HeadWithOffset(v) ==
    insertOffsetToObject(HeadStructure, OffsetTo(NextId, v), EndIndex(getHead, HeadStructure))

CanStartWithKey(name) == TakesKey(HeadStructure, NewKey(HeadStructure, name))
HeadWithKeyedOffset(name, v) ==
    addOffsetWithKey(HeadStructure, NewKey(HeadStructure, name), OffsetTo(NextId, v))

-----------------------------------------------------------------------------
(* The calls of the API.                                                   *)

(* Int, Uint, Float, Bool, Null.                                           *)
AddScalar(e) ==
    /\ Room
    /\ \/ /\ TakesElement(getHead, HeadStructure, Inline(e))
          /\ structs' = [structs EXCEPT ![getHead] =
                            insertElement(@, Inline(e), EndIndex(getHead, @))]
          /\ IF Len(inProgress) = 1 THEN Finish(inProgress) ELSE UNCHANGED finished
          /\ UNCHANGED <<inProgress, headIndex>>
          /\ ret' = "ok"
       \/ ~TakesElement(getHead, HeadStructure, Inline(e)) /\ Fail

(* A mutant: the key is inserted before the checks that may refuse it.     *)
AddKeyThenScalar(name, e) ==
    /\ Room
    /\ \/ /\ CanStartWithKey(name)
          /\ structs' = [structs EXCEPT ![getHead] =
                            addElementWithKey(@, NewKey(@, name), Inline(e))]
          /\ ret' = "ok"
       \/ /\ ~CanStartWithKey(name)
          /\ structs' = [structs EXCEPT ![getHead] = AddKey(@, NewKey(@, name))]
          /\ ret' = "error"
    /\ UNCHANGED <<finished, inProgress, headIndex>>

(* IntWithKey, UintWithKey, FloatWithKey, BoolWithKey, NullWithKey.        *)
AddScalarWithKey(name, e) ==
    /\ Room
    /\ \/ /\ CanStartWithKey(name)
          /\ structs' = [structs EXCEPT ![getHead] =
                            addElementWithKey(@, NewKey(@, name), Inline(e))]
          /\ UNCHANGED <<finished, inProgress, headIndex>>
          /\ ret' = "ok"
       \/ ~CanStartWithKey(name) /\ Fail

(* StartVector and the other Start calls without a key.                    *)
Start(v) ==
    /\ RoomForStructure
    /\ \/ CanStart(v) /\ Push(HeadWithOffset(v), Empty(v)) /\ ret' = "ok"
       \/ ~CanStart(v) /\ Fail

(* StartMapWithKey and the other Start calls with a key; a key itself can  *)
(* not be the value of a map.                                              *)
StartWithKey(name, v) ==
    /\ RoomForStructure
    /\ v # KEY
    /\ \/ /\ CanStartWithKey(name)
          /\ Push(HeadWithKeyedOffset(name, v), Empty(v))
          /\ ret' = "ok"
       \/ ~CanStartWithKey(name) /\ Fail

(* End.                                                                    *)
End == (Pop /\ ret' = "ok") \/ (headIndex < 1 /\ Panic)

(* The End that String, Key and StringWithKey defer runs although their    *)
(* start failed: it ends the structure around the string, or panics.       *)
EndAfterFailure == (Pop /\ ret' = "error") \/ (headIndex < 1 /\ Panic)

(* String (v = STR) and Key (v = KEY).                                     *)
AddText(v, text) ==
    /\ RoomForStructure /\ RoomForText(text)
    /\ \/ CanStart(v) /\ PushAndEnd(HeadWithOffset(v), AppendText(Empty(v), text)) /\ ret' = "ok"
       \/ ~CanStart(v) /\ EndAfterFailure

(* StringWithKey.                                                          *)
StringWithKey(name, text) ==
    /\ RoomForStructure /\ RoomForText(text)
    /\ \/ /\ CanStartWithKey(name)
          /\ PushAndEnd(HeadWithKeyedOffset(name, STR), AppendText(Empty(STR), text))
          /\ ret' = "ok"
       \/ ~CanStartWithKey(name) /\ EndAfterFailure

(* Append: only a string takes text, a key under construction does not.    *)
AppendToHead(text) ==
    /\ Len(HeadStructure.elems) + text.narrow + text.wide <= MaxElems
    /\ \/ /\ HeadStructure.vType = STR
          /\ structs' = [structs EXCEPT ![getHead] = AppendText(@, text)]
          /\ UNCHANGED <<finished, inProgress, headIndex>>
          /\ ret' = "ok"
       \/ HeadStructure.vType # STR /\ Fail

(* Finish, called by the client.                                           *)
FinishCall ==
    /\ Finish(inProgress)
    /\ ret' = (IF finished' THEN "ok" ELSE "error")
    /\ UNCHANGED <<inProgress, headIndex, structs>>

Next ==
    \/ \E e \in Scalars : AddScalar(e)
    \/ \E name \in Names, e \in Scalars : AddScalarWithKey(name, e)
    \/ \E v \in Kinds : Start(v)
    \/ \E name \in Names, v \in Kinds : StartWithKey(name, v)
    \/ End
    \/ \E v \in {STR, KEY}, text \in Texts : AddText(v, text)
    \/ \E name \in Names, text \in Texts : StringWithKey(name, text)
    \/ \E text \in Texts : AppendToHead(text)
    \/ FinishCall

Spec == Init /\ [][Next]_vars

-----------------------------------------------------------------------------
(* The state is well typed and inProgress is as long as headIndex says.    *)
TypeOK ==
    /\ finished \in BOOLEAN
    /\ headIndex \in Nat
    /\ inProgress \in Seq(Nat \ {0})
    /\ Len(inProgress) = headIndex + 1
    /\ structs \in Seq(Structure)
    /\ ret \in {"ok", "error", "panic"}

Owners(id) == {p \in DOMAIN structs : id \in ToSet(structs[p].children)}

(* What the calls rely on when they address "the current structure": the   *)
(* stack is a path of the document that starts at the root, each structure *)
(* on it a child of the one before (start, startWithKey and End keep       *)
(* inProgress, headIndex and children together).                           *)
StackIsPath ==
    /\ inProgress[1] = Root
    /\ \A i \in 1..headIndex :
          inProgress[i] \in DOMAIN structs /\ inProgress[i] \in Owners(inProgress[i + 1])

References(id) ==
    {r \in (DOMAIN structs) \X (1..MaxElems) :
        r[2] \in DOMAIN structs[r[1]].elems /\ structs[r[1]].elems[r[2]].target = id}

(* What serialization relies on: every structure but the root is the child *)
(* of exactly one older structure, which refers to it by exactly one       *)
(* offset, of its own type (insertOffsetToObject and bindOffset).          *)
DocumentIsTree ==
    \A id \in (DOMAIN structs) \ {Root} :
        \E p \in 1..(id - 1), i \in 1..MaxElems :
            /\ References(id) = {<<p, i>>}
            /\ structs[p].elems[i].type = structs[id].vType
            /\ Owners(id) = {p}
            /\ \E c \in DOMAIN structs[p].children :
                  \A d \in DOMAIN structs[p].children : structs[p].children[d] = id <=> d = c

(* A map keeps one key per value, no key is empty, and the keys are in     *)
(* order, equal keys in the order of their insertion: what a reader's      *)
(* search by key needs (addElementWithKey, addOffsetWithKey).              *)
MapsAreSorted ==
    \A id \in DOMAIN structs : LET m == structs[id] IN
        IF IsMap(m)
        THEN /\ Len(m.keys) = Len(m.elems)
             /\ \A i \in DOMAIN m.keys : m.keys[i].name # 0
             /\ \A i, j \in DOMAIN m.keys : i < j =>
                   \/ m.keys[i].name < m.keys[j].name
                   \/ m.keys[i].name = m.keys[j].name /\ m.keys[i].obj < m.keys[j].obj
        ELSE m.keys = <<>>

(* A reader takes a scalar, tuple, triple or quad to have at most as many  *)
(* elements as its type says, one type in a typed structure, and one byte  *)
(* per element in a string, key or blob, whatever sequence of calls        *)
(* (Start, the scalar calls, Append, String) filled it.                    *)
ContentsFitType ==
    \A id \in DOMAIN structs : LET s == structs[id] IN
        /\ s.vType \in 6..8   => Len(s.elems) <= 1
        /\ s.vType \in 16..18 => Len(s.elems) <= 2
        /\ s.vType \in 19..21 => Len(s.elems) <= 3
        /\ s.vType \in 22..24 => Len(s.elems) <= 4
        /\ isTypedVector(s.vType) \/ isBlobLike(s.vType) =>
              \A i, j \in DOMAIN s.elems :
                  s.elems[i].type = s.elems[j].type /\ s.elems[i].target = NoStruct
        /\ isBlobLike(s.vType) => \A i \in DOMAIN s.elems : s.elems[i].size = b8

(* Once the root holds a value and nothing is under construction, the      *)
(* builder has noticed that it is finished, whichever call completed it.   *)
CompleteIsFinished ==
    headIndex = 0 /\ structs[Root].elems # <<>> => finished

-----------------------------------------------------------------------------
InStack(id) == id \in ToSet(inProgress)

(* A structure the client has ended is final: it is not changed again and  *)
(* does not come back, and of those under construction only the innermost  *)
(* one changes, in any one call.                                           *)
EndedIsFinal ==
    [][\A id \in DOMAIN structs :
          /\ id # getHead => structs'[id] = structs[id]
          /\ ~InStack(id) => ~InStack(id)']_vars

(* Values inserted later push the entries of a map apart but never part a  *)
(* key from its value, and never reorder what is there.                    *)
EntriesStayPaired ==
    [][\A id \in DOMAIN structs : IsMap(structs[id]) =>
          \A i, j \in DOMAIN structs[id].keys : i < j =>
              \E k, l \in DOMAIN structs'[id].keys :
                  /\ k < l
                  /\ structs'[id].keys[k] = structs[id].keys[i]
                  /\ structs'[id].keys[l] = structs[id].keys[j]
                  /\ structs'[id].elems[k] = structs[id].elems[i]
                  /\ structs'[id].elems[l] = structs[id].elems[j]]_vars

(* A call that returns an error has added nothing to the document, and     *)
(* opened nothing: at most it has ended structures, as String does.        *)
FailureAddsNothing ==
    [][ret' # "ok" => structs' = structs /\ IsPrefix(inProgress', inProgress)]_vars

-----------------------------------------------------------------------------
(* What the source says of itself and does not keep.                       *)

(* The error of addElementWithKey (object.go): "the key %s already exists  *)
(* within the map - duplicate keys are not allowed".                       *)
NoDuplicateKeys ==
    \A id \in DOMAIN structs : \A i, j \in DOMAIN structs[id].keys :
        structs[id].keys[i].name = structs[id].keys[j].name => i = j
=============================================================================
