---------------------------- MODULE FlexAutoBuild ----------------------------
(***************************************************************************)
(* AutoBuild of the FlexBuffers builder (flexbuffers/builder.go): it takes *)
(* a Go value apart and puts it together with the calls of FlexBuilder.    *)
(*                                                                         *)
(* It is a recursive closure, auto(k, item).  A step of the model is what  *)
(* one activation of auto does up to its next call of auto or its return;  *)
(* frames are the activations for maps and slices that wait for a call     *)
(* they made.  The deferred End of an activation is part of its return.    *)
(***************************************************************************)
EXTENDS FlexBuilder, Integers

CONSTANTS
    Values,    \* the Go values, numbered, a value before those inside it: records of
               \* kind "scalar" (an element elem), "string" (a text), "map", "slice"
               \* (slices, and arrays of up to four; vType is what becomes of it)
               \* or "other" (a type AutoBuild does not know), and entries: for maps
               \* and slices, pairs of a key and a value
    MaxBuilds  \* bound on the calls of AutoBuild

NoKey == -1    \* the nil key: of items of slices, and of the entry "" of a map

(* What auto is called with.                                               *)
Calls == [key : Nat \cup {NoKey}, value : DOMAIN Values]

(* What becomes of slices, and of arrays by their length.                  *)
SliceTypes == {VECTOR, VECTOR_INT, VECTOR_UINT, VECTOR_FLOAT, VECTOR_BOOL}
ArrayTypes(n) == {v \in VarType : CASE n = 1 -> isScalar(v) [] n = 2 -> isTuple(v)
                                     [] n = 3 -> isTriple(v) [] n = 4 -> isQuad(v) [] OTHER -> FALSE}

(* A slice or array of numbers or Booleans, which a typed structure stands *)
(* for, has only those of that type inside it: Go's types say so.          *)
ASSUME ValuesAssumption ==
    /\ Len(Values) \in Nat /\ DOMAIN Values = 1..Len(Values)
    /\ \A v \in DOMAIN Values : LET x == Values[v] IN
        /\ Len(x.entries) \in Nat /\ DOMAIN x.entries = 1..Len(x.entries)
        /\ x.kind \in {"scalar", "string", "map", "slice", "other"}
        /\ x.kind = "scalar" => x.elem \in InlineElem
        /\ x.kind = "string" => x.text \in [narrow : Nat, wide : Nat]
        /\ x.kind = "slice"  => x.vType \in SliceTypes \cup ArrayTypes(Len(x.entries))
        /\ \A i \in DOMAIN x.entries :
              /\ x.entries[i] \in Calls /\ x.entries[i].value > v
              /\ x.kind = "slice" => x.entries[i].key = NoKey
              /\ x.kind = "slice" /\ x.vType # VECTOR =>
                    LET y == Values[x.entries[i].value] IN
                    y.kind = "scalar" /\ allowsElemType(x.vType, y.elem.type)
ASSUME BuildsAssumption == MaxBuilds \in Nat

VARIABLES
    frames,    \* the activations that wait: of each its value, and the indices of
               \* the entries still to be built
    call,      \* the call of auto that is next: a key and a value, or NoCall
    began,     \* what the last AutoBuild was called with, and where the Builder was
    builds     \* how often AutoBuild was called

auto == <<frames, call, began, builds>>
allVars == <<vars, auto>>

NoCall == [key |-> NoKey, value |-> 0]
NotBegan == [value |-> 0, stack |-> <<>>, head |-> Empty(NULL), size |-> 0]

Idle == call = NoCall /\ frames = <<>>
item == Values[call.value]
Top == frames[Len(frames)]
TopKind == Values[Top.value].kind
Popped == SubSeq(frames, 1, Len(frames) - 1)

-----------------------------------------------------------------------------
(* registerElementWithOptionalKey and startWithOptionalKey.                *)

TakesScalar ==
    IF call.key = NoKey THEN TakesElement(getHead, HeadStructure, Inline(item.elem))
    ELSE CanStartWithKey(call.key)

HeadWithScalar ==
    IF call.key = NoKey
    THEN insertElement(HeadStructure, Inline(item.elem), EndIndex(getHead, HeadStructure))
    ELSE addElementWithKey(HeadStructure, NewKey(HeadStructure, call.key), Inline(item.elem))

TypeOfItem == CASE item.kind = "string" -> STR [] item.kind = "map" -> MAP [] OTHER -> item.vType

TakesItem == IF call.key = NoKey THEN CanStart(TypeOfItem) ELSE CanStartWithKey(call.key)

HeadWithItem ==
    IF call.key = NoKey THEN HeadWithOffset(TypeOfItem)
    ELSE HeadWithKeyedOffset(call.key, TypeOfItem)

-----------------------------------------------------------------------------
(* The activations of auto.                                                *)

Return == call' = NoCall /\ UNCHANGED <<began, builds>>

(* A panic unwinds every activation; the Ends they have deferred find      *)
(* nothing to end either.                                                  *)
Unwind == headIndex < 1 /\ Panic /\ frames' = <<>>

AutoScalar ==
    /\ call # NoCall /\ item.kind = "scalar"
    /\ \/ /\ TakesScalar
          /\ structs' = [structs EXCEPT ![getHead] = HeadWithScalar]
          /\ IF Len(inProgress) = 1 THEN Finish(inProgress) ELSE UNCHANGED finished
          /\ UNCHANGED <<inProgress, headIndex>>
          /\ ret' = "ok"
       \/ ~TakesScalar /\ Fail
    /\ Return
    /\ UNCHANGED frames

AutoString ==
    /\ call # NoCall /\ item.kind = "string"
    /\ \/ /\ TakesItem
          /\ PushAndEnd(HeadWithItem, AppendText(Empty(STR), item.text))
          /\ ret' = "ok" /\ UNCHANGED frames
       \/ ~TakesItem /\ Pop /\ ret' = "error" /\ UNCHANGED frames
       \/ ~TakesItem /\ Unwind
    /\ Return

AutoOther ==
    /\ call # NoCall /\ item.kind = "other"
    /\ Fail
    /\ Return
    /\ UNCHANGED frames

EnterFrame ==
    frames' = Append(frames, [value |-> call.value, left |-> DOMAIN item.entries])

(* The error of the start is ignored: the entries are built where the      *)
(* Builder happens to be.                                                  *)
EnterMap ==
    /\ call # NoCall /\ item.kind = "map"
    /\ \/ TakesItem /\ Push(HeadWithItem, Empty(MAP))
       \/ ~TakesItem /\ UNCHANGED doc
    /\ ret' = "ok"
    /\ EnterFrame
    /\ Return

EnterSlice ==
    /\ call # NoCall /\ item.kind = "slice"
    /\ \/ TakesItem /\ Push(HeadWithItem, Empty(item.vType)) /\ ret' = "ok" /\ EnterFrame
       \/ ~TakesItem /\ Pop /\ ret' = "error" /\ UNCHANGED frames
       \/ ~TakesItem /\ Unwind
    /\ Return

(* A mutant: the errors of items are dropped, as those of entries are.     *)
FailedNever == FALSE

(* A slice gives up at the first error, a map goes on.                     *)
Failed == TopKind = "slice" /\ ret = "error"
Waiting == call = NoCall /\ frames # <<>>

(* A mutant: a slice takes its items from the end.                         *)
NextBackwards(i) == TopKind = "slice" => i = Max(Top.left)

(* Items of a slice come in order, entries of a map in any.                *)
NextInOrder(i) == TopKind = "slice" => i = Min(Top.left)

(* A mutant: the loop does not move on.                                    *)
NextAgain(i) ==
    /\ Waiting /\ ~Failed
    /\ i \in Top.left /\ NextInOrder(i)
    /\ call' = Values[Top.value].entries[i]
    /\ UNCHANGED <<vars, frames, began, builds>>

NextEntry(i) ==
    /\ Waiting /\ ~Failed
    /\ i \in Top.left /\ NextInOrder(i)
    /\ call' = Values[Top.value].entries[i]
    /\ frames' = [frames EXCEPT ![Len(frames)].left = @ \ {i}]
    /\ UNCHANGED <<vars, began, builds>>

(* A mutant: an error leaves the structure open.                           *)
LeaveOpenOnError ==
    /\ Waiting /\ (Failed \/ Top.left = {})
    /\ \/ ~Failed /\ Pop /\ ret' = "ok" /\ frames' = Popped
       \/ Failed /\ frames' = Popped /\ UNCHANGED vars
       \/ ~Failed /\ Unwind
    /\ UNCHANGED <<call, began, builds>>

Leave ==
    /\ Waiting /\ (Failed \/ Top.left = {})
    /\ \/ Pop /\ ret' = (IF Failed THEN "error" ELSE "ok") /\ frames' = Popped
       \/ Unwind
    /\ UNCHANGED <<call, began, builds>>

Activation ==
    \/ AutoScalar
    \/ AutoString
    \/ AutoOther
    \/ EnterMap
    \/ EnterSlice
    \/ \E i \in 1..MaxElems : NextEntry(i)
    \/ Leave

-----------------------------------------------------------------------------
(* The client: it calls AutoBuild, or another call of the Builder.         *)

AutoBuild(v) ==
    /\ Idle /\ builds < MaxBuilds
    /\ call' = [key |-> NoKey, value |-> v]
    /\ began' = [value |-> v, stack |-> inProgress, head |-> HeadStructure, size |-> Len(structs)]
    /\ builds' = builds + 1
    /\ UNCHANGED <<vars, frames>>

OtherCall ==
    /\ Idle
    /\ Next
    /\ began' = NotBegan
    /\ UNCHANGED <<frames, call, builds>>

AutoInit == Init /\ frames = <<>> /\ call = NoCall /\ began = NotBegan /\ builds = 0

AutoNext == Activation \/ OtherCall \/ \E v \in DOMAIN Values : AutoBuild(v)

AutoSpec == AutoInit /\ [][AutoNext]_allVars /\ WF_allVars(Activation)

-----------------------------------------------------------------------------
(* Values.                                                                 *)

Entries(v) == Values[v].entries
IsStructure(v) == Values[v].kind \in {"string", "map", "slice"}

(* No structure is the entry of a map under a key that is refused.         *)
Keyed[v \in DOMAIN Values] ==
    \A i \in DOMAIN Entries(v) : LET e == Entries(v)[i] IN
        /\ Keyed[e.value]
        /\ Values[v].kind = "map" /\ IsStructure(e.value) => e.key > 0

(* Nothing in the value has a type AutoBuild does not know.                *)
Known[v \in DOMAIN Values] ==
    Values[v].kind # "other" /\ \A i \in DOMAIN Entries(v) : Known[Entries(v)[i].value]

(* The structures that are what the value describes; a map lacks the       *)
(* scalars whose keys are refused.                                         *)
Described[v \in DOMAIN Values] ==
    LET Shows(e, w) ==
            IF Values[w].kind = "scalar" THEN e = Inline(Values[w].elem)
            ELSE ~isInline(e.type) /\ e.target \in Described[w]
        kept == {i \in DOMAIN Entries(v) : Entries(v)[i].key > 0}
        Is(s) ==
          CASE Values[v].kind = "string" -> s = AppendText(Empty(STR), Values[v].text)
          [] Values[v].kind = "slice" ->
                /\ s.vType = Values[v].vType
                /\ Len(s.elems) = Len(Entries(v))
                /\ \A i \in DOMAIN Entries(v) : Shows(s.elems[i], Entries(v)[i].value)
          [] Values[v].kind = "map" ->
                /\ s.vType = MAP
                /\ Len(s.elems) = Cardinality(kept)
                /\ \A i \in kept : \E j \in DOMAIN s.elems :
                      s.keys[j].name = Entries(v)[i].key /\ Shows(s.elems[j], Entries(v)[i].value)
          [] OTHER -> FALSE
    IN  {id \in DOMAIN structs : Is(structs[id])}

Returned == Idle /\ began.value # 0

(* The structure that was the innermost one took the value.                *)
ValueIsTaken ==
    LET top == began.stack[Len(began.stack)]
        v == Values[began.value]
    IN  CASE v.kind = "scalar" -> TakesElement(top, began.head, Inline(v.elem))
          [] v.kind = "other" -> TRUE
          [] OTHER -> TakesOffset(top, began.head,
                OffsetTo(began.size + 1, CASE v.kind = "string" -> STR [] v.kind = "map" -> MAP
                                           [] OTHER -> v.vType))

-----------------------------------------------------------------------------
(* AutoBuild, which ends what it starts with deferred calls and drops      *)
(* errors on the way, leaves the client in the structure it was in,        *)
(* whether it returns an error or not, if a structure in the value is not  *)
(* refused by the one around it.                                           *)
StackIsRestored ==
    Returned /\ Keyed[began.value] /\ ValueIsTaken => inProgress = began.stack /\ ret # "panic"

(* If it returns no error, the last element of the client's structure (the *)
(* first of the root) is the value, whatever the order in which Go took    *)
(* the entries of its maps, and of other structures it made only those in  *)
(* the value.                                                              *)
ValueIsBuilt ==
    Returned /\ ret = "ok" /\ IsStructure(began.value) /\ Keyed[began.value]
        /\ Known[began.value] /\ ValueIsTaken =>
            LET id == began.size + 1 IN
            /\ id \in Described[began.value]
            /\ References(id) \subseteq {began.stack[Len(began.stack)]} \X (1..MaxElems)
            /\ \A p \in 1..began.size :
                  p # began.stack[Len(began.stack)] => \A i \in DOMAIN structs[p].elems :
                      structs[p].elems[i].target <= began.size

(* A type that is not known is an error of the call, where only slices are *)
(* around it: the error comes up through each of them.                     *)
UnknownInSlices[v \in DOMAIN Values] ==
    \/ Values[v].kind = "other"
    \/ Values[v].kind = "slice" /\ \E i \in DOMAIN Entries(v) : UnknownInSlices[Entries(v)[i].value]

SlicesPassErrors == Returned /\ UnknownInSlices[began.value] => ret # "ok"

(* Each call of AutoBuild returns: an activation waits for no more calls   *)
(* than its value has entries, and a map that lost its structure goes on   *)
(* in another one.                                                         *)
AutoBuildReturns == ~Idle ~> Idle

-----------------------------------------------------------------------------
(* What the source says of itself and does not keep.                       *)

(* The error of AutoBuild (builder.go:813): "unable to auto-build type %T". *)
UnknownTypeIsReported == Returned /\ ~Known[began.value] => ret # "ok"
=============================================================================
