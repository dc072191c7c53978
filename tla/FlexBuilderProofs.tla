-------------------------- MODULE FlexBuilderProofs --------------------------
(***************************************************************************)
(* Theorems about FlexBuilder, for every choice of its constants: first    *)
(* about what is open, then about the document, which stays a tree, with   *)
(* its maps sorted and their entries paired, while every structure holds   *)
(* only what its type admits, and a call that fails adds nothing.          *)
(*                                                                         *)
(* Then about AutoBuild: what it cannot do to a document, whatever value   *)
(* it is called with and whatever the calls it makes refuse; although it   *)
(* drops errors and ends structures it did not start, each of its steps is *)
(* one of the shapes found for the Builder.  Last, what it does: of a      *)
(* value that it knows it builds a structure that is what the value says.  *)
(***************************************************************************)
EXTENDS FlexAutoBuild, FlexObjectProofs, WellFoundedInduction

-----------------------------------------------------------------------------
(* Types.                                                                  *)

LEMMA StartableType ==
    Startable \subseteq VarType /\ \A v \in Startable : ~isInline(v)
<1>1. Startable \subseteq VarType
  BY DEF Startable, VarType, VECTOR, VECTOR_INT, VECTOR_UINT, VECTOR_FLOAT, VECTOR_BOOL, BLOB,
         STR, KEY, MAP
<1>2. ASSUME NEW v \in Startable
      PROVE  ~isInline(v)
  BY DEF Startable, isFixedTypedVector, isScalar, isTuple, isTriple, isQuad, isInline, VarType,
         VECTOR, VECTOR_INT, VECTOR_UINT, VECTOR_FLOAT, VECTOR_BOOL, BLOB, STR, KEY, MAP, BOOL
<1> QED BY <1>1, <1>2

LEMMA AppendTextType ==
    ASSUME NEW s \in Structure, NEW text \in [narrow : Nat, wide : Nat]
    PROVE  /\ AppendText(s, text) \in Structure
           /\ AppendText(s, text).vType = s.vType
           /\ AppendText(s, text).children = s.children
           /\ AppendText(s, text).keys = s.keys
<1>1. text.narrow \in Nat /\ text.wide \in Nat /\ b8 \in ByteSize /\ b16 \in ByteSize
  BY DEF ByteSize, b8, b16, b64
<1> DEFINE u == Accepted(s, text.narrow, b8)
           w == Accepted(s, text.wide, b16)
<1>2. u \in Seq(Elem) /\ w \in Seq(Elem) /\ s.elems \in Seq(Elem)
  BY <1>1, AcceptedType DEF Structure
<1> HIDE DEF u, w
<1>3. s.elems \o u \o w \in Seq(Elem)
  BY <1>2
<1>4. AppendText(s, text) = [s EXCEPT !.elems = s.elems \o u \o w]
  BY DEF AppendText, u, w
<1> QED BY <1>3, <1>4 DEF Structure

-----------------------------------------------------------------------------
(* What a call does to the document and to the stack, whichever it is.     *)

(* The part of the inductive invariant that is about the stack: its        *)
(* structures exist, it starts at the root, each is a child of the one     *)
(* before it and younger than it.                                          *)
StackInv ==
    /\ inProgress[1] = Root
    /\ \A i \in 1..(headIndex + 1) : inProgress[i] \in 1..Len(structs)
    /\ \A i \in 1..headIndex :
          /\ inProgress[i] < inProgress[i + 1]
          /\ inProgress[i + 1] \in ToSet(structs[inProgress[i]].children)

SameStack   == inProgress' = inProgress /\ headIndex' = headIndex
PoppedStack == /\ headIndex >= 1
               /\ inProgress' = SubSeq(inProgress, 1, headIndex)
               /\ headIndex' = headIndex - 1
PushedStack == inProgress' = Append(inProgress, NextId) /\ headIndex' = headIndex + 1

(* h is a later form of the head.                                          *)
Grown(h) ==
    /\ h \in Structure
    /\ h.vType = HeadStructure.vType
    /\ ToSet(HeadStructure.children) \subseteq ToSet(h.children)
    /\ KeysTold(HeadStructure) => KeysTold(h)
    /\ Linked(HeadStructure) => Linked(h)

EditedDoc == \E h : Grown(h) /\ structs' = [structs EXCEPT ![getHead] = h]
ExtendedDoc ==
    \E h, s : /\ Grown(h) /\ NextId \in ToSet(h.children)
              /\ s \in Structure /\ s.vType # NULL /\ Fresh(s)
              /\ structs' = Append([structs EXCEPT ![getHead] = h], s)

Step ==
    \/ structs' = structs /\ (SameStack \/ PoppedStack)
    \/ EditedDoc /\ SameStack
    \/ ExtendedDoc /\ (SameStack \/ PushedStack)

LEMMA HeadType ==
    ASSUME TypeOK, StackInv
    PROVE  /\ getHead \in 1..Len(structs)
           /\ HeadStructure \in Structure
           /\ NextId \in Nat /\ Len(structs) \in Nat
           /\ Len(HeadStructure.elems) \in Nat
           /\ EndIndex(getHead, HeadStructure) \in Nat
<1>1. headIndex + 1 \in 1..(headIndex + 1)
  BY DEF TypeOK
<1>2. getHead \in 1..Len(structs)
  BY <1>1 DEF StackInv, getHead
<1>3. HeadStructure \in Structure
  BY <1>2, ElementOfSeq DEF HeadStructure, TypeOK
<1>4. Len(HeadStructure.elems) \in Nat /\ Len(structs) \in Nat
  BY <1>3, LenProperties DEF Structure, TypeOK
<1> QED BY <1>2, <1>3, <1>4 DEF EndIndex, NextId

LEMMA ScalarGrows ==
    ASSUME TypeOK, StackInv, NEW e \in InlineElem
    PROVE  Grown(insertElement(HeadStructure, Inline(e), EndIndex(getHead, HeadStructure)))
<1>1. Inline(e) \in Elem
  BY InlineType
<1>2. /\ HeadStructure \in Structure /\ EndIndex(getHead, HeadStructure) \in Nat
      /\ Sound(Inline(e))
  BY HeadType, InlineSound
<1> DEFINE h == insertElement(HeadStructure, Inline(e), EndIndex(getHead, HeadStructure))
<1>3. /\ h \in Structure /\ h.vType = HeadStructure.vType
      /\ h.children = HeadStructure.children /\ h.keys = HeadStructure.keys
  BY <1>1, <1>2, InsertElementType
<1>4. Linked(HeadStructure) => Linked(h)
  BY <1>1, <1>2, ElementLinked
<1> HIDE DEF h
<1>5. Grown(h)
  BY <1>3, <1>4 DEF Grown, KeysTold
<1> QED BY <1>5 DEF h

LEMMA KeyedScalarGrows ==
    ASSUME TypeOK, StackInv, NEW e \in InlineElem, NEW name \in Nat
    PROVE  Grown(addElementWithKey(HeadStructure, NewKey(HeadStructure, name), Inline(e)))
<1> DEFINE k == NewKey(HeadStructure, name)
           m == AddKey(HeadStructure, k)
           i == KeyIndex(HeadStructure, k)
<1>1. Inline(e) \in Elem
  BY InlineType
<1>2. k \in Key
  BY HeadType, NewKeyType
<1>3. i \in Nat
  BY <1>2, HeadType, KeyIndexType, LenProperties DEF Structure
<1>4. /\ m \in Structure /\ m.vType = HeadStructure.vType /\ m.children = HeadStructure.children
      /\ KeysTold(HeadStructure) => KeysTold(m)
  BY <1>2, HeadType, AddKeyType, AddKeyTold
<1>5. Linked(HeadStructure) => Linked(m)
  BY HeadType DEF Linked, AddKey, Structure
<1> HIDE DEF k, m, i
<1>6. Grown(insertElement(m, Inline(e), i))
  <2>1. Sound(Inline(e))
    BY InlineSound
  <2>2. Linked(m) => Linked(insertElement(m, Inline(e), i))
    BY <1>1, <1>3, <1>4, <2>1, ElementLinked
  <2> DEFINE h == insertElement(m, Inline(e), i)
  <2>3. /\ h \in Structure /\ h.vType = m.vType
        /\ h.children = m.children /\ h.keys = m.keys
    BY <1>1, <1>3, <1>4, InsertElementType
  <2>4. Linked(HeadStructure) => Linked(h)
    BY <1>5, <2>2
  <2> HIDE DEF h
  <2>5. KeysTold(HeadStructure) => KeysTold(h)
    BY <1>4, <2>3 DEF KeysTold
  <2>6. Grown(h)
    BY <1>4, <2>3, <2>4, <2>5 DEF Grown
  <2> QED BY <2>6 DEF h
<1> QED BY <1>6 DEF addElementWithKey, k, m, i

LEMMA OffsetGrows ==
    ASSUME TypeOK, StackInv, NEW v \in VarType, ~isInline(v)
    PROVE  Grown(HeadWithOffset(v)) /\ NextId \in ToSet(HeadWithOffset(v).children)
<1>1. /\ OffsetTo(NextId, v) \in Elem
      /\ OffsetTo(NextId, v).target = NextId /\ OffsetTo(NextId, v).type = v
  BY HeadType, OffsetType DEF OffsetTo
<1>2. /\ HeadStructure \in Structure /\ EndIndex(getHead, HeadStructure) \in Nat
      /\ NextId > Root
  BY HeadType DEF NextId, Root
<1>3. Linked(HeadStructure) => Linked(HeadWithOffset(v))
  BY <1>1, <1>2, OffsetLinked DEF HeadWithOffset
<1> DEFINE h == HeadWithOffset(v)
<1>4. /\ h \in Structure /\ h.vType = HeadStructure.vType /\ h.keys = HeadStructure.keys
      /\ ToSet(HeadStructure.children) \subseteq ToSet(h.children)
      /\ NextId \in ToSet(h.children)
  BY <1>1, <1>2, InsertOffsetType DEF HeadWithOffset
<1> HIDE DEF h
<1>5. KeysTold(HeadStructure) => KeysTold(h)
  BY <1>4 DEF KeysTold
<1>6. Grown(h)
  BY <1>3, <1>4, <1>5 DEF Grown, h
<1> QED BY <1>4, <1>6 DEF h

LEMMA KeyedOffsetGrows ==
    ASSUME TypeOK, StackInv, NEW v \in VarType, ~isInline(v), NEW name \in Nat
    PROVE  /\ Grown(HeadWithKeyedOffset(name, v))
           /\ NextId \in ToSet(HeadWithKeyedOffset(name, v).children)
<1> DEFINE k == NewKey(HeadStructure, name)
           m == AddKey(HeadStructure, k)
           i == KeyIndex(HeadStructure, k)
           e == OffsetTo(NextId, v)
<1>1. e \in Elem /\ e.target = NextId /\ e.type = v
  BY HeadType, OffsetType DEF OffsetTo
<1>2. k \in Key
  BY HeadType, NewKeyType
<1>3. i \in Nat
  BY <1>2, HeadType, KeyIndexType, LenProperties DEF Structure
<1>4. /\ m \in Structure /\ m.vType = HeadStructure.vType /\ m.children = HeadStructure.children
      /\ KeysTold(HeadStructure) => KeysTold(m)
  BY <1>2, HeadType, AddKeyType, AddKeyTold
<1>5. Linked(HeadStructure) => Linked(m)
  BY HeadType DEF Linked, AddKey, Structure
<1>6. NextId > Root
  BY HeadType DEF NextId, Root
<1> HIDE DEF k, m, i, e
<1>7. Linked(m) => Linked(insertOffsetToObject(m, e, i))
  BY <1>1, <1>3, <1>4, <1>6, OffsetLinked
<1>8. /\ Grown(insertOffsetToObject(m, e, i))
      /\ NextId \in ToSet(insertOffsetToObject(m, e, i).children)
  <2> DEFINE h == insertOffsetToObject(m, e, i)
  <2>1. /\ h \in Structure /\ h.vType = m.vType /\ h.keys = m.keys
        /\ e.target \in ToSet(h.children) /\ ToSet(m.children) \subseteq ToSet(h.children)
    BY <1>1, <1>3, <1>4, InsertOffsetType
  <2>2. Linked(HeadStructure) => Linked(h)
    BY <1>5, <1>7
  <2> HIDE DEF h
  <2>3. KeysTold(HeadStructure) => KeysTold(h)
    BY <1>4, <2>1 DEF KeysTold
  <2>4. Grown(h) /\ NextId \in ToSet(h.children)
    BY <1>1, <1>4, <2>1, <2>2, <2>3 DEF Grown
  <2> QED BY <2>4 DEF h
<1> QED BY <1>8 DEF HeadWithKeyedOffset, addOffsetWithKey, k, m, i, e

(* Starting and ending a structure in one call leaves the stack as it was. *)
LEMMA EndUndoesStart ==
    ASSUME TypeOK, StackInv
    PROVE  SubSeq(Append(inProgress, NextId), 1, headIndex + 1) = inProgress
<1> DEFINE q == Append(inProgress, NextId)
           r == SubSeq(q, 1, headIndex + 1)
<1>1. NextId \in Nat \ {0} /\ headIndex \in Nat
  BY HeadType DEF NextId, TypeOK
<1>2. /\ q \in Seq(Nat \ {0}) /\ Len(q) = headIndex + 2
      /\ \A i \in 1..(headIndex + 1) : q[i] = inProgress[i]
  BY <1>1, AppendProperties DEF TypeOK
<1> HIDE DEF q
<1>3. \A i \in 1..(headIndex + 1) : q[i] \in Nat \ {0}
  BY <1>1, <1>2, ElementOfSeq
<1>4. /\ r \in Seq(Nat \ {0}) /\ Len(r) = headIndex + 1
      /\ \A i \in 1..(headIndex + 1) : r[i] = q[i]
  <2>1. /\ r \in Seq(Nat \ {0})
        /\ Len(r) = IF 1 <= headIndex + 1 THEN (headIndex + 1) - 1 + 1 ELSE 0
        /\ \A i \in 1..((headIndex + 1) - 1 + 1) : r[i] = q[1 + i - 1]
    BY <1>1, <1>3, SubSeqProperties
  <2> HIDE DEF r
  <2> QED BY <2>1, <1>1
<1> HIDE DEF r
<1>5. r = inProgress
  BY <1>1, <1>2, <1>4, SeqEqual DEF TypeOK
<1> QED BY <1>5 DEF r, q

LEMMA PopShape ==
    ASSUME TypeOK, Pop
    PROVE  structs' = structs /\ PoppedStack /\ finished' \in BOOLEAN
  BY DEF TypeOK, Pop, PoppedStack, Finish

LEMMA PushShape ==
    ASSUME TypeOK, NEW h, NEW s, Push(h, s), Grown(h), NextId \in ToSet(h.children),
           s \in Structure, s.vType # NULL, Fresh(s)
    PROVE  ExtendedDoc /\ PushedStack /\ finished' \in BOOLEAN
  BY DEF TypeOK, Push, PushedStack, ExtendedDoc

LEMMA PushAndEndShape ==
    ASSUME TypeOK, StackInv, NEW h, NEW s, PushAndEnd(h, s), Grown(h),
           NextId \in ToSet(h.children), s \in Structure, s.vType # NULL, Fresh(s)
    PROVE  ExtendedDoc /\ SameStack /\ finished' \in BOOLEAN
<1>1. SameStack
  BY EndUndoesStart DEF PushAndEnd, SameStack
<1>2. ExtendedDoc
  BY DEF PushAndEnd, ExtendedDoc
<1>3. finished' \in BOOLEAN
  BY DEF TypeOK, PushAndEnd, Finish
<1> QED BY <1>1, <1>2, <1>3

LEMMA FailShape ==
    ASSUME TypeOK, Fail \/ Panic
    PROVE  structs' = structs /\ SameStack /\ finished' \in BOOLEAN
  BY DEF TypeOK, Fail, Panic, SameStack, doc

(* Every call has one of the shapes above.                                 *)
LEMMA StepShape ==
    ASSUME TypeOK, StackInv, Next
    PROVE  /\ Step
           /\ finished' \in BOOLEAN
           /\ ret' \in {"ok", "error", "panic"}
<1> USE DEF Step
<1>0. /\ \A v \in Startable : v \in VarType /\ v # NULL /\ ~isInline(v)
      /\ STR \in VarType /\ KEY \in VarType /\ STR # NULL /\ KEY # NULL
      /\ ~isInline(STR) /\ ~isInline(KEY)
  <2>1. \A v \in Startable : v # NULL
    BY DEF Startable, VarType, isFixedTypedVector, isScalar, isTuple, isTriple, isQuad, VECTOR,
           VECTOR_INT, VECTOR_UINT, VECTOR_FLOAT, VECTOR_BOOL, BLOB, STR, KEY, MAP, NULL
  <2> QED BY <2>1, StartableType DEF VarType, isInline, STR, KEY, NULL, BOOL
<1>1. ASSUME NEW e \in Scalars, AddScalar(e)
      PROVE  Step /\ finished' \in BOOLEAN /\ ret' \in {"ok", "error", "panic"}
  <2>1. CASE Fail
    BY <2>1, FailShape DEF Fail
  <2>2. CASE ~Fail
    <3> DEFINE h == insertElement(HeadStructure, Inline(e), EndIndex(getHead, HeadStructure))
    <3>1. structs' = [structs EXCEPT ![getHead] = h] /\ SameStack
      BY <1>1, <2>2, HeadType DEF AddScalar, SameStack, HeadStructure
    <3>2. EditedDoc
      BY <3>1, ScalarsAssumption, ScalarGrows DEF EditedDoc
    <3>3. finished' \in BOOLEAN /\ ret' = "ok"
      BY <1>1, <2>2 DEF AddScalar, Finish, TypeOK
    <3> QED BY <3>1, <3>2, <3>3
  <2> QED BY <2>1, <2>2
<1>2. ASSUME NEW name \in Names, NEW e \in Scalars, AddScalarWithKey(name, e)
      PROVE  Step /\ finished' \in BOOLEAN /\ ret' \in {"ok", "error", "panic"}
  <2>1. CASE Fail
    BY <2>1, FailShape DEF Fail
  <2>2. CASE ~Fail
    <3> DEFINE h == addElementWithKey(HeadStructure, NewKey(HeadStructure, name), Inline(e))
    <3>1. structs' = [structs EXCEPT ![getHead] = h] /\ SameStack
      BY <1>2, <2>2, HeadType DEF AddScalarWithKey, SameStack, HeadStructure
    <3>2. EditedDoc
      BY <3>1, ScalarsAssumption, NamesAssumption, KeyedScalarGrows DEF EditedDoc
    <3>3. finished' \in BOOLEAN /\ ret' = "ok"
      BY <1>2, <2>2 DEF AddScalarWithKey, TypeOK
    <3> QED BY <3>1, <3>2, <3>3
  <2> QED BY <2>1, <2>2
<1>3. ASSUME NEW v \in Kinds, Start(v)
      PROVE  Step /\ finished' \in BOOLEAN /\ ret' \in {"ok", "error", "panic"}
  <2>1. CASE Fail
    BY <2>1, FailShape DEF Fail
  <2>2. CASE ~Fail
    <3>1. /\ v \in VarType /\ v # NULL /\ ~isInline(v)
          /\ Empty(v) \in Structure /\ Empty(v).vType # NULL /\ Fresh(Empty(v))
      BY <1>0, KindsAssumption, EmptyType, EmptyFresh DEF Empty
    <3>2. Push(HeadWithOffset(v), Empty(v)) /\ ret' = "ok"
      BY <1>3, <2>2 DEF Start
    <3>3. ExtendedDoc /\ PushedStack /\ finished' \in BOOLEAN
      BY <3>1, <3>2, OffsetGrows, PushShape
    <3> QED BY <3>2, <3>3
  <2> QED BY <2>1, <2>2
<1>4. ASSUME NEW name \in Names, NEW v \in Kinds, StartWithKey(name, v)
      PROVE  Step /\ finished' \in BOOLEAN /\ ret' \in {"ok", "error", "panic"}
  <2>1. CASE Fail
    BY <2>1, FailShape DEF Fail
  <2>2. CASE ~Fail
    <3>1. /\ v \in VarType /\ v # NULL /\ ~isInline(v)
          /\ Empty(v) \in Structure /\ Empty(v).vType # NULL /\ Fresh(Empty(v))
      BY <1>0, KindsAssumption, EmptyType, EmptyFresh DEF Empty
    <3>2. Push(HeadWithKeyedOffset(name, v), Empty(v)) /\ ret' = "ok"
      BY <1>4, <2>2 DEF StartWithKey
    <3>3. ExtendedDoc /\ PushedStack /\ finished' \in BOOLEAN
      BY <3>1, <3>2, NamesAssumption, KeyedOffsetGrows, PushShape
    <3> QED BY <3>2, <3>3
  <2> QED BY <2>1, <2>2
<1>5. ASSUME End \/ EndAfterFailure
      PROVE  Step /\ finished' \in BOOLEAN /\ ret' \in {"ok", "error", "panic"}
  <2>1. CASE Pop /\ ret' \in {"ok", "error"}
    BY <2>1, PopShape
  <2>2. CASE Panic
    BY <2>2, FailShape DEF Panic
  <2> QED BY <1>5, <2>1, <2>2 DEF End, EndAfterFailure
<1>6. ASSUME NEW v \in {STR, KEY}, NEW text \in Texts, AddText(v, text)
      PROVE  Step /\ finished' \in BOOLEAN /\ ret' \in {"ok", "error", "panic"}
  <2>1. CASE EndAfterFailure
    BY <2>1, <1>5
  <2>2. CASE ~EndAfterFailure
    <3>1. /\ v \in VarType /\ v # NULL /\ ~isInline(v)
          /\ Empty(v) \in Structure /\ Empty(v).vType # NULL /\ Fresh(Empty(v))
      BY <1>0, EmptyType, EmptyFresh DEF Empty
    <3>2. /\ AppendText(Empty(v), text) \in Structure /\ AppendText(Empty(v), text).vType # NULL
          /\ Fresh(AppendText(Empty(v), text))
      BY <3>1, TextsAssumption, AppendTextType, TextFresh
    <3>3. PushAndEnd(HeadWithOffset(v), AppendText(Empty(v), text)) /\ ret' = "ok"
      BY <1>6, <2>2 DEF AddText
    <3>4. ExtendedDoc /\ SameStack /\ finished' \in BOOLEAN
      BY <3>1, <3>2, <3>3, OffsetGrows, PushAndEndShape
    <3> QED BY <3>3, <3>4
  <2> QED BY <2>1, <2>2
<1>7. ASSUME NEW name \in Names, NEW text \in Texts, StringWithKey(name, text)
      PROVE  Step /\ finished' \in BOOLEAN /\ ret' \in {"ok", "error", "panic"}
  <2>1. CASE EndAfterFailure
    BY <2>1, <1>5
  <2>2. CASE ~EndAfterFailure
    <3>1. Empty(STR) \in Structure /\ Empty(STR).vType # NULL /\ Fresh(Empty(STR))
      BY <1>0, EmptyType, EmptyFresh DEF Empty
    <3>2. /\ AppendText(Empty(STR), text) \in Structure /\ AppendText(Empty(STR), text).vType # NULL
          /\ Fresh(AppendText(Empty(STR), text))
      BY <1>0, <3>1, TextsAssumption, AppendTextType, TextFresh
    <3>3. PushAndEnd(HeadWithKeyedOffset(name, STR), AppendText(Empty(STR), text)) /\ ret' = "ok"
      BY <1>7, <2>2 DEF StringWithKey
    <3>4. ExtendedDoc /\ SameStack /\ finished' \in BOOLEAN
      BY <1>0, <3>2, <3>3, NamesAssumption, KeyedOffsetGrows, PushAndEndShape
    <3> QED BY <3>3, <3>4
  <2> QED BY <2>1, <2>2
<1>8. ASSUME NEW text \in Texts, AppendToHead(text)
      PROVE  Step /\ finished' \in BOOLEAN /\ ret' \in {"ok", "error", "panic"}
  <2>1. CASE Fail
    BY <2>1, FailShape DEF Fail
  <2>2. CASE ~Fail
    <3>1. /\ structs' = [structs EXCEPT ![getHead] = AppendText(HeadStructure, text)]
          /\ SameStack
      BY <1>8, <2>2, HeadType DEF AppendToHead, SameStack, HeadStructure
    <3>2. Grown(AppendText(HeadStructure, text))
      <4> DEFINE h == AppendText(HeadStructure, text)
      <4>1. HeadStructure \in Structure /\ text \in [narrow : Nat, wide : Nat]
        BY HeadType, TextsAssumption
      <4>2. /\ h \in Structure /\ h.vType = HeadStructure.vType
            /\ h.children = HeadStructure.children /\ h.keys = HeadStructure.keys
            /\ Linked(HeadStructure) => Linked(h)
        BY <4>1, AppendTextType, TextLinked
      <4> HIDE DEF h
      <4>3. Grown(h)
        BY <4>2 DEF Grown, KeysTold
      <4> QED BY <4>3 DEF h
    <3>3. EditedDoc
      BY <3>1, <3>2 DEF EditedDoc
    <3>4. finished' \in BOOLEAN /\ ret' = "ok"
      BY <1>8, <2>2 DEF AppendToHead, TypeOK
    <3> QED BY <3>1, <3>3, <3>4
  <2> QED BY <2>1, <2>2
<1>9. ASSUME FinishCall
      PROVE  Step /\ finished' \in BOOLEAN /\ ret' \in {"ok", "error", "panic"}
  BY <1>9 DEF FinishCall, Finish, TypeOK, SameStack
<1> QED BY <1>1, <1>2, <1>3, <1>4, <1>5, <1>6, <1>7, <1>8, <1>9 DEF Next

-----------------------------------------------------------------------------
(* The inductive invariant: types, stack, and the type of the root, which  *)
(* tells the root from the structures a client can start.                  *)
RootInv == structs[Root].vType = NULL

IInv == TypeOK /\ StackInv /\ RootInv

LEMMA InitIInv ==
    ASSUME Init
    PROVE  IInv
<1>1. Empty(NULL) \in Structure
  BY EmptyType DEF VarType, NULL
<1>2. /\ structs \in Seq(Structure) /\ Len(structs) = 1 /\ structs[1] = Empty(NULL)
      /\ inProgress \in Seq(Nat \ {0}) /\ Len(inProgress) = 1 /\ inProgress[1] = 1
  BY <1>1 DEF Init, Root
<1>3. TypeOK
  <2>1. finished \in BOOLEAN /\ ret \in {"ok", "error", "panic"}
    BY DEF Init
  <2>2. headIndex \in Nat /\ Len(inProgress) = headIndex + 1
    BY <1>2 DEF Init
  <2> QED BY <1>2, <2>1, <2>2 DEF TypeOK
<1>4. StackInv
  <2>1. headIndex = 0
    BY DEF Init
  <2> QED BY <1>2, <2>1 DEF StackInv, Root
<1>5. RootInv
  BY <1>2 DEF RootInv, Root, Empty
<1> QED BY <1>3, <1>4, <1>5 DEF IInv

(* The documents of the three shapes, read at an index.                    *)
LEMMA EditedDocProperties ==
    ASSUME TypeOK, StackInv, EditedDoc
    PROVE  /\ structs' \in Seq(Structure) /\ Len(structs') = Len(structs)
           /\ \A id \in 1..Len(structs) :
                 /\ id # getHead => structs'[id] = structs[id]
                 /\ structs'[id].vType = structs[id].vType
                 /\ ToSet(structs[id].children) \subseteq ToSet(structs'[id].children)
<1>1. PICK h : Grown(h) /\ structs' = [structs EXCEPT ![getHead] = h]
  BY DEF EditedDoc
<1>2. getHead \in 1..Len(structs) /\ structs \in Seq(Structure) /\ h \in Structure
  BY <1>1, HeadType DEF TypeOK, Grown
<1>3. /\ structs' \in Seq(Structure) /\ Len(structs') = Len(structs)
      /\ \A id \in 1..Len(structs) : structs'[id] = IF id = getHead THEN h ELSE structs[id]
  BY <1>1, <1>2, ExceptSeq
<1> QED BY <1>1, <1>2, <1>3 DEF Grown, HeadStructure

LEMMA ExtendedDocProperties ==
    ASSUME TypeOK, StackInv, ExtendedDoc
    PROVE  /\ structs' \in Seq(Structure) /\ Len(structs') = Len(structs) + 1
           /\ \A id \in 1..Len(structs) :
                 /\ id # getHead => structs'[id] = structs[id]
                 /\ structs'[id].vType = structs[id].vType
                 /\ ToSet(structs[id].children) \subseteq ToSet(structs'[id].children)
           /\ NextId \in ToSet(structs'[getHead].children)
<1>1. PICK h, s : /\ Grown(h) /\ NextId \in ToSet(h.children)
                  /\ s \in Structure
                  /\ structs' = Append([structs EXCEPT ![getHead] = h], s)
  BY DEF ExtendedDoc
<1> DEFINE edited == [structs EXCEPT ![getHead] = h]
<1>2. getHead \in 1..Len(structs) /\ structs \in Seq(Structure) /\ h \in Structure
  BY <1>1, HeadType DEF TypeOK, Grown
<1>3. /\ edited \in Seq(Structure) /\ Len(edited) = Len(structs)
      /\ \A id \in 1..Len(structs) : edited[id] = IF id = getHead THEN h ELSE structs[id]
  BY <1>2, ExceptSeq
<1> HIDE DEF edited
<1>4. /\ structs' \in Seq(Structure) /\ Len(structs') = Len(structs) + 1
      /\ \A id \in 1..Len(structs) : structs'[id] = edited[id]
  BY <1>1, <1>3, AppendProperties DEF edited
<1> QED BY <1>1, <1>2, <1>3, <1>4 DEF Grown, HeadStructure

(* Whatever has one of the shapes keeps the invariant.                     *)
Shaped == Step /\ finished' \in BOOLEAN /\ ret' \in {"ok", "error", "panic"}

LEMMA ShapedIInv ==
    ASSUME IInv, Shaped
    PROVE  IInv'
<1>0. TypeOK /\ StackInv /\ RootInv /\ Step /\ finished' \in BOOLEAN
      /\ ret' \in {"ok", "error", "panic"}
  BY DEF IInv, Shaped
<1> DEFINE n == Len(structs)
<1>1. /\ structs' \in Seq(Structure)
      /\ n \in Nat /\ Len(structs') \in {n, n + 1}
      /\ \A id \in 1..n : /\ structs'[id].vType = structs[id].vType
                          /\ ToSet(structs[id].children) \subseteq ToSet(structs'[id].children)
      /\ ExtendedDoc => NextId \in ToSet(structs'[getHead].children) /\ Len(structs') = n + 1
  <2>1. n \in Nat /\ structs \in Seq(Structure)
    BY <1>0, LenProperties DEF TypeOK
  <2>2. CASE ExtendedDoc
    BY <1>0, <2>1, <2>2, ExtendedDocProperties
  <2>3. CASE EditedDoc /\ ~ExtendedDoc
    BY <1>0, <2>1, <2>3, EditedDocProperties
  <2>4. CASE structs' = structs /\ ~ExtendedDoc
    BY <2>1, <2>4
  <2> QED BY <1>0, <2>2, <2>3, <2>4 DEF Step
<1>2. SameStack \/ PoppedStack \/ (PushedStack /\ ExtendedDoc)
  BY <1>0 DEF Step
<1>3. headIndex \in Nat /\ inProgress \in Seq(Nat \ {0}) /\ Len(inProgress) = headIndex + 1
  BY <1>0 DEF TypeOK
<1>4. /\ headIndex' \in Nat /\ inProgress' \in Seq(Nat \ {0})
      /\ Len(inProgress') = headIndex' + 1
      /\ PoppedStack => \A i \in 1..headIndex : inProgress'[i] = inProgress[i]
      /\ PushedStack => /\ \A i \in 1..(headIndex + 1) : inProgress'[i] = inProgress[i]
                        /\ inProgress'[headIndex + 2] = NextId
  <2>1. CASE SameStack
    BY <1>3, <2>1 DEF SameStack, PoppedStack, PushedStack
  <2>2. CASE PoppedStack
    <3>1. \A i \in 1..headIndex : inProgress[i] \in Nat \ {0}
      BY <1>3, ElementOfSeq
    <3>2. /\ inProgress' \in Seq(Nat \ {0}) /\ Len(inProgress') = headIndex
          /\ \A i \in 1..headIndex : inProgress'[i] = inProgress[i]
      <4>1. /\ SubSeq(inProgress, 1, headIndex) \in Seq(Nat \ {0})
            /\ Len(SubSeq(inProgress, 1, headIndex)) =
                  IF 1 <= headIndex THEN headIndex - 1 + 1 ELSE 0
            /\ \A i \in 1..(headIndex - 1 + 1) :
                  SubSeq(inProgress, 1, headIndex)[i] = inProgress[1 + i - 1]
        BY <1>3, <3>1, SubSeqProperties
      <4> QED BY <1>3, <2>2, <4>1 DEF PoppedStack
    <3> QED BY <1>3, <2>2, <3>2 DEF PoppedStack, PushedStack
  <2>3. CASE PushedStack
    <3>1. NextId \in Nat \ {0}
      BY <1>0, HeadType DEF NextId
    <3> QED BY <1>3, <2>3, <3>1, AppendProperties DEF PoppedStack, PushedStack
  <2> QED BY <1>2, <2>1, <2>2, <2>3
<1>5. TypeOK'
  BY <1>0, <1>1, <1>4 DEF TypeOK
<1>6. StackInv'
  <2> DEFINE Nested(i) == /\ inProgress[i] \in 1..n /\ inProgress[i + 1] \in 1..n
                          /\ inProgress[i] < inProgress[i + 1]
                          /\ inProgress[i + 1] \in ToSet(structs[inProgress[i]].children)
  <2>1. /\ inProgress[1] = Root
        /\ \A i \in 1..(headIndex + 1) : inProgress[i] \in 1..n
        /\ \A i \in 1..headIndex : Nested(i)
    BY <1>0, <1>3 DEF StackInv
  <2>2. \A i \in 1..headIndex :
           inProgress[i + 1] \in ToSet(structs'[inProgress[i]].children)
    BY <1>1, <2>1
  <2>3. \A i \in 1..(headIndex + 1) : inProgress[i] \in 1..Len(structs')
    BY <1>1, <2>1
  <2>4. CASE SameStack
    <3>1. inProgress' = inProgress /\ headIndex' = headIndex
      BY <2>4 DEF SameStack
    <3> QED BY <2>1, <2>2, <2>3, <3>1 DEF StackInv
  <2>5. CASE PoppedStack
    <3>1. /\ headIndex' = headIndex - 1 /\ headIndex >= 1
          /\ \A i \in 1..headIndex : inProgress'[i] = inProgress[i]
      BY <1>4, <2>5 DEF PoppedStack
    <3>2. inProgress'[1] = Root
      BY <1>3, <2>1, <3>1
    <3>3. \A i \in 1..(headIndex' + 1) : inProgress'[i] \in 1..Len(structs')
      BY <1>3, <2>3, <3>1
    <3>4. ASSUME NEW i \in 1..headIndex'
          PROVE  /\ inProgress'[i] < inProgress'[i + 1]
                 /\ inProgress'[i + 1] \in ToSet(structs'[inProgress'[i]].children)
      <4>1. i \in 1..headIndex /\ i + 1 \in 1..headIndex
        BY <1>3, <3>1
      <4> QED BY <2>1, <2>2, <3>1, <4>1
    <3> QED BY <3>2, <3>3, <3>4 DEF StackInv
  <2>6. CASE PushedStack /\ ExtendedDoc
    <3>1. NextId = n + 1 /\ getHead = inProgress[headIndex + 1] /\ getHead \in 1..n
      BY <1>0, HeadType DEF NextId, getHead
    <3>2. /\ headIndex' = headIndex + 1
          /\ \A i \in 1..(headIndex + 1) : inProgress'[i] = inProgress[i]
          /\ inProgress'[headIndex + 2] = n + 1 /\ Len(structs') = n + 1
          /\ n + 1 \in ToSet(structs'[getHead].children)
      <4>1. headIndex' = headIndex + 1
        BY <2>6 DEF PushedStack
      <4>2. /\ \A i \in 1..(headIndex + 1) : inProgress'[i] = inProgress[i]
            /\ inProgress'[headIndex + 2] = NextId
        BY <1>4, <2>6
      <4>3. Len(structs') = n + 1 /\ NextId \in ToSet(structs'[getHead].children)
        BY <1>1, <2>6
      <4> QED BY <3>1, <4>1, <4>2, <4>3
    <3>3. inProgress'[1] = Root
      BY <1>3, <2>1, <3>2
    <3>4. ASSUME NEW i \in 1..(headIndex' + 1)
          PROVE  inProgress'[i] \in 1..Len(structs')
      <4>1. i \in 1..(headIndex + 1) \/ i = headIndex + 2
        BY <1>3, <3>2
      <4>2. CASE i \in 1..(headIndex + 1)
        BY <2>3, <3>2, <4>2
      <4>3. CASE i = headIndex + 2
        BY <1>1, <3>2, <4>3
      <4> QED BY <4>1, <4>2, <4>3
    <3>5. ASSUME NEW i \in 1..headIndex'
          PROVE  /\ inProgress'[i] < inProgress'[i + 1]
                 /\ inProgress'[i + 1] \in ToSet(structs'[inProgress'[i]].children)
      <4>1. CASE i <= headIndex
        <5>1. i \in 1..headIndex /\ i \in 1..(headIndex + 1) /\ i + 1 \in 1..(headIndex + 1)
          BY <1>3, <3>2, <4>1
        <5> QED BY <2>1, <2>2, <3>2, <5>1
      <4>2. CASE i = headIndex + 1
        <5>1. inProgress'[i] = getHead /\ inProgress'[i + 1] = n + 1
          BY <1>3, <3>1, <3>2, <4>2
        <5> QED BY <1>1, <3>1, <3>2, <5>1
      <4> QED BY <1>3, <3>2, <4>1, <4>2
    <3> QED BY <3>3, <3>4, <3>5 DEF StackInv
  <2> QED BY <1>2, <2>4, <2>5, <2>6
<1>7. RootInv'
  <2>1. Root \in 1..n
    BY <1>0, <1>3 DEF StackInv, Root
  <2> QED BY <1>0, <1>1, <2>1 DEF RootInv
<1> QED BY <1>5, <1>6, <1>7 DEF IInv

(* Each key of a map is an object of its own, older than the next one;     *)
(* each offset leads to a structure behind the root.                       *)
Told(s) == KeysTold(s) /\ Linked(s)
ToldInv == \A id \in 1..Len(structs) : Told(structs[id])

LEMMA FreshTold ==
    ASSUME NEW s, Fresh(s)
    PROVE  Told(s)
<1>1. s.keys = <<>> /\ Len(<<>>) = 0
  BY DEF Fresh
<1>2. KeysTold(s)
  BY <1>1 DEF KeysTold
<1> QED BY <1>2 DEF Told, Fresh

LEMMA InitTold ==
    ASSUME Init
    PROVE  ToldInv
<1>1. Len(structs) = 1 /\ structs[1] = Empty(NULL)
  BY DEF Init
<1>2. Told(Empty(NULL))
  BY EmptyFresh, FreshTold
<1> QED BY <1>1, <1>2 DEF ToldInv

LEMMA ShapedTold ==
    ASSUME IInv, ToldInv, Shaped
    PROVE  ToldInv'
<1>0. TypeOK /\ StackInv /\ getHead \in 1..Len(structs) /\ Len(structs) \in Nat
      /\ structs \in Seq(Structure)
  BY HeadType DEF IInv, TypeOK
<1>1. CASE structs' = structs
  BY <1>1 DEF ToldInv
<1>2. CASE EditedDoc
  <2>1. PICK h : Grown(h) /\ structs' = [structs EXCEPT ![getHead] = h]
    BY <1>2 DEF EditedDoc
  <2>2. h \in Structure /\ Told(h)
    BY <1>0, <2>1 DEF Grown, ToldInv, Told, HeadStructure
  <2>3. Len(structs') = Len(structs)
        /\ \A i \in 1..Len(structs) : structs'[i] = IF i = getHead THEN h ELSE structs[i]
    BY <1>0, <2>1, <2>2, ExceptSeq
  <2> QED BY <2>2, <2>3 DEF ToldInv
<1>3. CASE ExtendedDoc
  <2>1. PICK h, s : /\ Grown(h) /\ s \in Structure /\ Fresh(s)
                    /\ structs' = Append([structs EXCEPT ![getHead] = h], s)
    BY <1>3 DEF ExtendedDoc
  <2>2. h \in Structure /\ Told(h) /\ Told(s)
    BY <1>0, <2>1, FreshTold DEF Grown, ToldInv, Told, HeadStructure
  <2> DEFINE q == [structs EXCEPT ![getHead] = h]
  <2>3. q \in Seq(Structure) /\ Len(q) = Len(structs)
        /\ \A i \in 1..Len(structs) : q[i] = IF i = getHead THEN h ELSE structs[i]
    BY <1>0, <2>2, ExceptSeq
  <2> HIDE DEF q
  <2>4. /\ Len(structs') = Len(structs) + 1 /\ structs'[Len(structs) + 1] = s
        /\ \A i \in 1..Len(structs) : structs'[i] = q[i]
    BY <1>0, <2>1, <2>3, AppendProperties DEF q
  <2>5. \A i \in 1..Len(structs) : Told(structs'[i])
    BY <2>2, <2>3, <2>4 DEF ToldInv
  <2> QED BY <1>0, <2>2, <2>4, <2>5 DEF ToldInv
<1> QED BY <1>1, <1>2, <1>3 DEF Shaped, Step

LEMMA StutterIInv ==
    ASSUME IInv, UNCHANGED vars
    PROVE  IInv'
  BY DEF vars, IInv, TypeOK, StackInv, RootInv

LEMMA StepIInv ==
    ASSUME IInv, [Next]_vars
    PROVE  IInv'
<1>1. CASE UNCHANGED vars
  BY <1>1, StutterIInv
<1>2. CASE Next
  <2>1. Shaped
    BY <1>2, StepShape DEF IInv, Shaped
  <2> QED BY <2>1, ShapedIInv
<1> QED BY <1>1, <1>2

(* The inductive invariant holds from the empty builder on, after every    *)
(* sequence of calls.                                                      *)
THEOREM Invariance == Spec => []IInv
  BY InitIInv, StepIInv, PTL DEF Spec

(* Whatever the arguments of the calls and the bounds, the state stays     *)
(* well typed and headIndex addresses the last entry of inProgress.        *)
THEOREM TypeCorrect == Spec => []TypeOK
<1>1. IInv => TypeOK
  BY DEF IInv
<1> QED BY <1>1, Invariance, PTL

LEMMA InvariantPath ==
    ASSUME IInv
    PROVE  StackIsPath
<1>1. DOMAIN structs = 1..Len(structs) /\ headIndex \in Nat
  BY LenProperties DEF IInv, TypeOK
<1> QED BY <1>1 DEF IInv, StackInv, StackIsPath, Owners

(* inProgress is always a path of the document that begins at its root.    *)
THEOREM StackCorrect == Spec => []StackIsPath
  BY InvariantPath, Invariance, PTL

-----------------------------------------------------------------------------
(* A structure that is not the innermost one under construction keeps its  *)
(* contents, and one that is not under construction stays so.              *)
LEMMA StackEntries ==
    ASSUME IInv, Step, NEW id \in 1..Len(structs), ~InStack(id)
    PROVE  ~InStack(id)'
<1>1. /\ headIndex \in Nat /\ inProgress \in Seq(Nat \ {0}) /\ Len(inProgress) = headIndex + 1
      /\ DOMAIN inProgress = 1..(headIndex + 1)
  BY LenProperties DEF IInv, TypeOK
<1>2. CASE SameStack
  BY <1>2 DEF SameStack, InStack
<1>3. CASE PoppedStack
  <2>1. \A i \in 1..headIndex : inProgress[i] \in Nat \ {0}
    BY <1>1, ElementOfSeq
  <2>2. /\ SubSeq(inProgress, 1, headIndex) \in Seq(Nat \ {0})
        /\ Len(SubSeq(inProgress, 1, headIndex)) = IF 1 <= headIndex THEN headIndex - 1 + 1 ELSE 0
        /\ \A i \in 1..(headIndex - 1 + 1) :
              SubSeq(inProgress, 1, headIndex)[i] = inProgress[1 + i - 1]
    BY <1>1, <2>1, SubSeqProperties
  <2>3. inProgress' = SubSeq(inProgress, 1, headIndex) /\ headIndex >= 1
    BY <1>3 DEF PoppedStack
  <2>4. Len(inProgress') = headIndex /\ DOMAIN inProgress' = 1..headIndex
    BY <1>1, <2>2, <2>3, LenProperties
  <2>5. \A i \in DOMAIN inProgress' : inProgress'[i] = inProgress[i] /\ i \in DOMAIN inProgress
    BY <1>1, <2>2, <2>3, <2>4
  <2> QED BY <2>5 DEF InStack, ToSet
<1>4. CASE PushedStack
  <2>1. NextId \in Nat \ {0} /\ id # NextId
    BY HeadType DEF NextId, IInv
  <2>2. inProgress' = Append(inProgress, NextId)
    BY <1>4 DEF PushedStack
  <2>3. /\ inProgress' \in Seq(Nat \ {0}) /\ Len(inProgress') = headIndex + 2
        /\ \A i \in 1..(headIndex + 1) : inProgress'[i] = inProgress[i]
        /\ inProgress'[headIndex + 2] = NextId
    BY <1>1, <2>1, <2>2, AppendProperties
  <2>4. DOMAIN inProgress' = 1..(headIndex + 2)
    BY <1>1, <2>3, LenProperties
  <2>5. ASSUME NEW i \in DOMAIN inProgress'
        PROVE  inProgress'[i] # id
    <3>1. CASE i \in 1..(headIndex + 1)
      BY <1>1, <2>3, <3>1 DEF InStack, ToSet
    <3>2. CASE i = headIndex + 2
      BY <2>1, <2>3, <3>2
    <3> QED BY <1>1, <2>4, <3>1, <3>2
  <2> QED BY <2>5 DEF InStack, ToSet
<1> QED BY <1>2, <1>3, <1>4 DEF Step

LEMMA EndedStays ==
    ASSUME IInv, Step, NEW id \in DOMAIN structs
    PROVE  /\ id # getHead => structs'[id] = structs[id]
           /\ ~InStack(id) => ~InStack(id)'
<1>1. TypeOK /\ StackInv /\ DOMAIN structs = 1..Len(structs)
  BY LenProperties DEF IInv, TypeOK
<1>2. ASSUME id # getHead
      PROVE  structs'[id] = structs[id]
  BY <1>1, <1>2, EditedDocProperties, ExtendedDocProperties DEF Step
<1>3. ASSUME ~InStack(id)
      PROVE  ~InStack(id)'
  BY <1>1, <1>3, StackEntries
<1> QED BY <1>2, <1>3

(* What the client has ended is never changed again, in a document of any  *)
(* size.                                                                   *)
THEOREM EndedStructuresAreFinal == Spec => EndedIsFinal
<1>1. ASSUME IInv, [Next]_vars
      PROVE  [\A id \in DOMAIN structs :
                 /\ id # getHead => structs'[id] = structs[id]
                 /\ ~InStack(id) => ~InStack(id)']_vars
  <2>1. CASE UNCHANGED vars
    BY <2>1
  <2>2. CASE Next
    <3>1. Step
      BY <1>1, <2>2, StepShape DEF IInv
    <3> QED BY <1>1, <3>1, EndedStays
  <2> QED BY <1>1, <2>1, <2>2
<1> QED BY <1>1, Invariance, PTL DEF Spec, EndedIsFinal

-----------------------------------------------------------------------------
(* Once the root holds a value and nothing is under construction, finished *)
(* is set: by the call for an element of the root, by the End of the       *)
(* outermost structure, or by the End that String and Key run.             *)
LEMMA AtRoot ==
    ASSUME IInv, headIndex = 0
    PROVE  getHead = Root /\ Len(inProgress) = 1 /\ HeadStructure.vType = NULL
  BY DEF IInv, TypeOK, StackInv, RootInv, getHead, HeadStructure

LEMMA PopFinishes ==
    ASSUME IInv, Pop, headIndex' = 0
    PROVE  finished'
<1>1. headIndex = 1 /\ inProgress' = SubSeq(inProgress, 1, 1)
  BY DEF IInv, TypeOK, Pop
<1>2. \A i \in 1..1 : inProgress[i] \in Nat \ {0}
  <2>1. inProgress \in Seq(Nat \ {0}) /\ Len(inProgress) = 2
    BY <1>1 DEF IInv, TypeOK
  <2> QED BY <2>1, ElementOfSeq
<1>3. Len(inProgress') = 1
  BY <1>1, <1>2, SubSeqProperties
<1> QED BY <1>3 DEF Pop, Finish

LEMMA PushAndEndFinishes ==
    ASSUME IInv, NEW h, NEW s, PushAndEnd(h, s), headIndex' = 0
    PROVE  finished'
<1>1. headIndex = 0 /\ inProgress' = inProgress
  BY EndUndoesStart DEF PushAndEnd, IInv
<1> QED BY <1>1, AtRoot DEF PushAndEnd, Finish

LEMMA StepComplete ==
    ASSUME IInv, CompleteIsFinished, [Next]_vars
    PROVE  CompleteIsFinished'
<1> USE DEF CompleteIsFinished
<1>0. SUFFICES ASSUME Next, headIndex' = 0, structs'[Root].elems # <<>>
               PROVE  finished'
  BY DEF vars
<1>1. ASSUME Fail \/ Panic
      PROVE  finished'
  BY <1>0, <1>1 DEF Fail, Panic, doc
<1>2. ASSUME Pop
      PROVE  finished'
  BY <1>0, <1>2, PopFinishes
<1>3. ASSUME NEW h, NEW s, Push(h, s)
      PROVE  FALSE
  BY <1>0, <1>3 DEF Push, IInv, TypeOK
<1>4. ASSUME NEW h, NEW s, PushAndEnd(h, s)
      PROVE  finished'
  BY <1>0, <1>4, PushAndEndFinishes
<1>5. ASSUME NEW e \in Scalars, AddScalar(e)
      PROVE  finished'
  <2>1. CASE Fail
    BY <2>1, <1>1
  <2>2. CASE ~Fail
    <3>1. headIndex = 0
      BY <1>0, <1>5, <2>2 DEF AddScalar
    <3> QED BY <1>5, <2>2, <3>1, AtRoot DEF AddScalar, Finish
  <2> QED BY <2>1, <2>2
<1>6. ASSUME NEW name \in Names, NEW e \in Scalars, AddScalarWithKey(name, e)
      PROVE  finished'
  <2>1. CASE Fail
    BY <2>1, <1>1
  <2>2. CASE ~Fail
    <3>1. headIndex = 0 /\ HeadStructure.vType = MAP
      BY <1>0, <1>6, <2>2 DEF AddScalarWithKey, CanStartWithKey, TakesKey, IsMap
    <3> QED BY <3>1, AtRoot DEF MAP, NULL
  <2> QED BY <2>1, <2>2
<1>7. ASSUME NEW text \in Texts, AppendToHead(text)
      PROVE  finished'
  <2>1. CASE Fail
    BY <2>1, <1>1
  <2>2. CASE ~Fail
    <3>1. headIndex = 0 /\ HeadStructure.vType = STR
      BY <1>0, <1>7, <2>2 DEF AppendToHead
    <3> QED BY <3>1, AtRoot DEF STR, NULL
  <2> QED BY <2>1, <2>2
<1>8. ASSUME NEW v, Start(v)
      PROVE  finished'
  BY <1>1, <1>3, <1>8 DEF Start
<1>9. ASSUME NEW name, NEW v, StartWithKey(name, v)
      PROVE  finished'
  BY <1>1, <1>3, <1>9 DEF StartWithKey
<1>10. ASSUME End \/ EndAfterFailure
       PROVE  finished'
  BY <1>1, <1>2, <1>10 DEF End, EndAfterFailure
<1>11. ASSUME NEW v, NEW text, AddText(v, text)
       PROVE  finished'
  BY <1>4, <1>10, <1>11 DEF AddText
<1>12. ASSUME NEW name, NEW text, StringWithKey(name, text)
       PROVE  finished'
  BY <1>4, <1>10, <1>12 DEF StringWithKey
<1>13. ASSUME FinishCall
       PROVE  finished'
  <2>1. headIndex = 0
    BY <1>0, <1>13 DEF FinishCall
  <2> QED BY <2>1, <1>13, AtRoot DEF FinishCall, Finish
<1> QED BY <1>0, <1>5, <1>6, <1>7, <1>8, <1>9, <1>10, <1>11, <1>12, <1>13 DEF Next

(* A complete document is a finished one, whichever call completed it.     *)
THEOREM CompleteDocumentsAreFinished == Spec => []CompleteIsFinished
<1>1. ASSUME Init PROVE CompleteIsFinished
  BY <1>1, InitIInv DEF Init, CompleteIsFinished, Root, Empty
<1>2. IInv /\ CompleteIsFinished /\ [Next]_vars => CompleteIsFinished'
  BY StepComplete
<1> QED BY <1>1, <1>2, Invariance, PTL DEF Spec

-----------------------------------------------------------------------------
(* The document.                                                           *)

(* What the inductive invariant says of each structure.                    *)
Form == {s \in Structure : MapOK(s) /\ ContentsOK(s)}

(* And of the document.                                                    *)
Trees == {q \in Seq(Form) : IsTree(q)}

FormsInv == structs \in Trees

(* The calls of a client keep to the bound of the model.                   *)
Small(s) == Len(s.elems) <= MaxElems
SmallInv == \A id \in 1..Len(structs) : Small(structs[id])

-----------------------------------------------------------------------------
(* What a call does to the document, seen by its structures: nothing, or   *)
(* the head becomes h, and h may refer to a new structure s.               *)

KeptHead(h) == h \in Form /\ Keeps(HeadStructure, h)
NewHead(h, v) == h \in Form /\ Takes(HeadStructure, h, NextId, v)
NewStructure(s, v) == s \in Form /\ Leaf(s) /\ s.vType = v

FormStep ==
    \/ structs' = structs
    \/ \E h : KeptHead(h) /\ structs' = [structs EXCEPT ![getHead] = h]
    \/ \E h, s, v : /\ NewHead(h, v) /\ NewStructure(s, v)
                    /\ structs' = Append([structs EXCEPT ![getHead] = h], s)

(* The same within the bound.                                              *)
SmallStep ==
    \/ structs' = structs
    \/ \E h : KeptHead(h) /\ Small(h) /\ structs' = [structs EXCEPT ![getHead] = h]
    \/ \E h, s, v : /\ NewHead(h, v) /\ NewStructure(s, v) /\ Small(h) /\ Small(s)
                    /\ structs' = Append([structs EXCEPT ![getHead] = h], s)

LEMMA SmallIsForm ==
    ASSUME SmallStep
    PROVE  FormStep
  BY DEF SmallStep, FormStep

LEMMA EmptyForm ==
    ASSUME NEW v \in VarType, v # VECTOR_KEY, v # VECTOR_STRING_DEPRECATED
    PROVE  /\ Empty(v) \in Form /\ Leaf(Empty(v)) /\ Empty(v).vType = v
           /\ Len(Empty(v).elems) = 0 /\ Small(Empty(v))
<1>1. /\ Empty(v).elems = <<>> /\ Empty(v).children = <<>> /\ Empty(v).vType = v
      /\ Len(<<>>) = 0
  BY DEF Empty
<1>2. Len(Empty(v).elems) = 0 /\ Small(Empty(v))
  BY <1>1, BoundsAssumption DEF Small
<1> QED BY <1>1, <1>2, EmptyType, EmptyOK, EmptyFits DEF Form, Leaf

LEMMA StartableFits ==
    ASSUME NEW v \in Startable
    PROVE  /\ v \in VarType /\ ~isInline(v)
           /\ v # VECTOR_KEY /\ v # VECTOR_STRING_DEPRECATED
           /\ NewStructure(Empty(v), v) /\ Small(Empty(v))
<1>1. v # VECTOR_KEY /\ v # VECTOR_STRING_DEPRECATED
  BY DEF Startable, isFixedTypedVector, isScalar, isTuple, isTriple, isQuad, VarType,
         VECTOR, VECTOR_INT, VECTOR_UINT, VECTOR_FLOAT, VECTOR_BOOL, BLOB, STR, KEY, MAP,
         VECTOR_KEY, VECTOR_STRING_DEPRECATED
<1>2. v \in VarType /\ ~isInline(v)
  BY StartableType
<1> QED BY <1>1, <1>2, EmptyForm DEF NewStructure

LEMMA TakersAreNoMaps ==
    ASSUME IInv, NEW e,
           TakesElement(getHead, HeadStructure, e) \/ TakesOffset(getHead, HeadStructure, e)
    PROVE  ~IsMap(HeadStructure)
<1>1. CASE getHead = Root
  BY <1>1 DEF IInv, RootInv, HeadStructure, IsMap, NULL, MAP
<1>2. CASE getHead # Root
  BY <1>2 DEF TakesElement, TakesOffset, IsMap
<1> QED BY <1>1, <1>2

-----------------------------------------------------------------------------
LEMMA HeadOK ==
    ASSUME IInv, FormsInv
    PROVE  HeadStructure \in Form
  BY HeadType, ElementOfSeq DEF IInv, FormsInv, Trees, HeadStructure

(* The root takes anything; what others take fits.                         *)
LEMMA TakersFit ==
    ASSUME IInv, FormsInv, NEW e \in InlineElem, TakesElement(getHead, HeadStructure, Inline(e)),
           Restricted(HeadStructure.vType)
    PROVE  FitsIn(HeadStructure.vType, Inline(e)) /\ ~isFull(HeadStructure)
<1>1. getHead # Root /\ ~IsMap(HeadStructure)
  BY TakersAreNoMaps, NullRestrictsNothing DEF IInv, RootInv, HeadStructure
<1>2. allows(HeadStructure, Inline(e))
  BY <1>1 DEF TakesElement, IsMap
<1> QED BY <1>2, InlineFits

LEMMA OffsetTakersFit ==
    ASSUME IInv, FormsInv, NEW v \in Startable, CanStart(v)
    PROVE  ~Restricted(HeadStructure.vType)
<1>1. CASE getHead = Root
  BY <1>1, NullRestrictsNothing DEF IInv, RootInv, HeadStructure
<1>2. CASE getHead # Root
  <2>1. ~IsMap(HeadStructure)
    BY TakersAreNoMaps DEF CanStart
  <2>2. allows(HeadStructure, OffsetTo(NextId, v))
    BY <1>2, <2>1 DEF CanStart, TakesOffset, IsMap
  <2>3. HeadStructure \in Form
    BY HeadOK
  <2> QED BY <2>2, <2>3, StartableFits, OffsetsFitNowhere DEF Form, ContentsOK, Structure
<1> QED BY <1>1, <1>2

LEMMA RoomForOne ==
    ASSUME HeadStructure \in Structure, Room, NEW h, OneLonger(HeadStructure, h)
    PROVE  Small(h)
<1>1. Len(HeadStructure.elems) \in Nat
  BY LenProperties DEF Structure
<1> QED BY <1>1, BoundsAssumption DEF Room, OneLonger, Small

(* The head with a scalar, without a key and with one.                     *)
LEMMA ScalarOK ==
    ASSUME IInv, FormsInv, NEW e \in InlineElem, TakesElement(getHead, HeadStructure, Inline(e))
    PROVE  LET h == insertElement(HeadStructure, Inline(e), EndIndex(getHead, HeadStructure)) IN
           KeptHead(h) /\ OneLonger(HeadStructure, h)
<1> DEFINE h == insertElement(HeadStructure, Inline(e), EndIndex(getHead, HeadStructure))
<1>1. HeadStructure \in Form /\ ~IsMap(HeadStructure)
  BY HeadOK, TakersAreNoMaps
<1>2. h \in Structure
  BY ScalarGrows DEF Grown, IInv
<1>3. MapOK(h)
  BY <1>1, PlainInsertOK DEF Form
<1>4. /\ Inline(e) \in Elem /\ Inline(e).target = NoStruct
      /\ EndIndex(getHead, HeadStructure) \in Nat
  BY InlineType, HeadType DEF Inline, IInv
<1>5. ContentsOK(h)
  <2>1. Restricted(HeadStructure.vType) =>
           FitsIn(HeadStructure.vType, Inline(e)) /\ ~isFull(HeadStructure)
    BY TakersFit
  <2> QED BY <1>1, <1>4, <2>1, ElementFits DEF Form
<1>6. Keeps(HeadStructure, h) /\ OneLonger(HeadStructure, h)
  BY <1>1, <1>4, ElementKeeps DEF Form
<1> QED BY <1>2, <1>3, <1>5, <1>6 DEF Form, KeptHead

LEMMA KeyedScalarOK ==
    ASSUME IInv, FormsInv, NEW name \in Nat, NEW e \in InlineElem, CanStartWithKey(name)
    PROVE  LET h == addElementWithKey(HeadStructure, NewKey(HeadStructure, name), Inline(e)) IN
           KeptHead(h) /\ OneLonger(HeadStructure, h)
<1> DEFINE h == addElementWithKey(HeadStructure, NewKey(HeadStructure, name), Inline(e))
<1>1. /\ HeadStructure \in Structure /\ MapOK(HeadStructure)
      /\ Inline(e) \in Elem /\ Inline(e).target = NoStruct
      /\ TakesKey(HeadStructure, NewKey(HeadStructure, name))
  BY HeadOK, InlineType DEF Form, CanStartWithKey, Inline
<1>2. h \in Structure /\ h.vType = HeadStructure.vType
  BY KeyedScalarGrows DEF Grown, IInv
<1>3. MapOK(h)
  BY <1>1, KeyedElementOK
<1>4. ContentsOK(h)
  BY <1>1, <1>2, MapsFit DEF TakesKey, IsMap
<1>5. Keeps(HeadStructure, h) /\ OneLonger(HeadStructure, h)
  BY <1>1, KeyedElementKeeps
<1> QED BY <1>2, <1>3, <1>4, <1>5 DEF Form, KeptHead

LEMMA OffsetOK ==
    ASSUME IInv, FormsInv, NEW v \in Startable, CanStart(v)
    PROVE  NewHead(HeadWithOffset(v), v) /\ OneLonger(HeadStructure, HeadWithOffset(v))
<1> DEFINE e == OffsetTo(NextId, v)
           i == EndIndex(getHead, HeadStructure)
<1>1. e \in Elem /\ i \in Nat
  BY HeadType, OffsetType, StartableFits DEF IInv
<1>2. /\ HeadStructure \in Structure /\ MapOK(HeadStructure) /\ ContentsOK(HeadStructure)
      /\ ~IsMap(HeadStructure)
  BY HeadOK, TakersAreNoMaps DEF CanStart, Form
<1>3. ~Restricted(HeadStructure.vType)
  BY OffsetTakersFit
<1> HIDE DEF e, i
<1>4. insertOffsetToObject(HeadStructure, e, i) \in Structure
  BY <1>1, <1>2, InsertOffsetType
<1>5. MapOK(insertOffsetToObject(HeadStructure, e, i))
  BY <1>2, PlainInsertOK
<1>6. ContentsOK(insertOffsetToObject(HeadStructure, e, i))
  BY <1>1, <1>2, <1>3, OffsetFits
<1>7. /\ Takes(HeadStructure, insertOffsetToObject(HeadStructure, e, i), e.target, e.type)
      /\ OneLonger(HeadStructure, insertOffsetToObject(HeadStructure, e, i))
  BY <1>1, <1>2, OffsetTaken
<1>8. e.target = NextId /\ e.type = v
  BY DEF OffsetTo, e
<1> QED BY <1>4, <1>5, <1>6, <1>7, <1>8 DEF Form, NewHead, HeadWithOffset, e, i

LEMMA KeyedHeadOK ==
    ASSUME IInv, FormsInv, NEW v \in Startable, NEW name \in Nat, CanStartWithKey(name)
    PROVE  /\ NewHead(HeadWithKeyedOffset(name, v), v)
           /\ OneLonger(HeadStructure, HeadWithKeyedOffset(name, v))
<1>0. v \in VarType /\ ~isInline(v)
  BY StartableType
<1>1. /\ OffsetTo(NextId, v) \in Elem
      /\ OffsetTo(NextId, v).target = NextId /\ OffsetTo(NextId, v).type = v
  BY <1>0, HeadType, OffsetType DEF IInv, OffsetTo
<1>2. /\ HeadStructure \in Structure /\ MapOK(HeadStructure) /\ ContentsOK(HeadStructure)
      /\ TakesKey(HeadStructure, NewKey(HeadStructure, name))
  BY HeadOK DEF Form, CanStartWithKey
<1>3. MapOK(HeadWithKeyedOffset(name, v))
  BY <1>1, <1>2, KeyedOffsetOK DEF HeadWithKeyedOffset
<1>4. HeadWithKeyedOffset(name, v) \in Structure
  BY <1>0, KeyedOffsetGrows DEF IInv, Grown
<1>5. ContentsOK(HeadWithKeyedOffset(name, v))
  <2>1. IsMap(HeadWithKeyedOffset(name, v))
    BY <1>0, <1>2, KeyedOffsetGrows DEF IInv, Grown, TakesKey, IsMap
  <2> QED BY <2>1, MapsFit
<1>6. /\ Takes(HeadStructure, HeadWithKeyedOffset(name, v), NextId, v)
      /\ OneLonger(HeadStructure, HeadWithKeyedOffset(name, v))
  BY <1>1, <1>2, KeyedOffsetTaken DEF HeadWithKeyedOffset
<1> QED BY <1>3, <1>4, <1>5, <1>6 DEF Form, NewHead

LEMMA TextForm ==
    ASSUME NEW s \in Form, s.vType \in {STR, KEY}, NEW text \in [narrow : Nat, wide : Nat]
    PROVE  /\ AppendText(s, text) \in Form
           /\ Keeps(s, AppendText(s, text))
           /\ Leaf(s) => Leaf(AppendText(s, text))
           /\ Len(s.elems) + text.narrow + text.wide <= MaxElems => Small(AppendText(s, text))
<1>1. s \in Structure /\ MapOK(s) /\ ContentsOK(s) /\ ~IsMap(s)
  BY DEF Form, IsMap, STR, KEY, MAP
<1>2. text.narrow \in Nat /\ text.wide \in Nat
  OBVIOUS
<1>3. AppendText(s, text) \in Structure
  BY <1>1, AppendTextType
<1>4. MapOK(AppendText(s, text))
  BY <1>1, TextOK
<1>5. ContentsOK(AppendText(s, text))
  BY <1>1, <1>2, TextFits
<1>6. Keeps(s, AppendText(s, text)) /\ (Leaf(s) => Leaf(AppendText(s, text)))
  BY <1>1, <1>2, TextIsKept, TextKeeps
<1>7. Len(s.elems) + text.narrow + text.wide <= MaxElems => Small(AppendText(s, text))
  <2>1. AppendText(s, text).elems \in Seq(Elem) /\ s.elems \in Seq(Elem)
    BY <1>1, <1>3 DEF Structure
  <2>2. Len(AppendText(s, text).elems) \in Nat /\ Len(s.elems) \in Nat
    BY <2>1, LenProperties
  <2>3. Len(AppendText(s, text).elems) <= Len(s.elems) + text.narrow + text.wide
    BY <1>1, <1>2, TextKeeps
  <2> QED BY <1>2, <2>2, <2>3, BoundsAssumption DEF Small
<1> QED BY <1>3, <1>4, <1>5, <1>6, <1>7 DEF Form

LEMMA NewText ==
    ASSUME NEW v \in {STR, KEY}, NEW text \in [narrow : Nat, wide : Nat]
    PROVE  /\ NewStructure(AppendText(Empty(v), text), v)
           /\ RoomForText(text) => Small(AppendText(Empty(v), text))
<1>1. v \in Startable /\ text.narrow \in Nat /\ text.wide \in Nat
  BY DEF Startable
<1>2. Empty(v) \in Form /\ Leaf(Empty(v)) /\ Empty(v).vType = v
  BY <1>1, StartableFits DEF NewStructure
<1>3. Len(Empty(v).elems) = 0
  BY DEF Empty
<1>4. RoomForText(text) => Len(Empty(v).elems) + text.narrow + text.wide <= MaxElems
  BY <1>1, <1>3 DEF RoomForText
<1> QED BY <1>2, <1>4, TextForm DEF NewStructure, Keeps

LEMMA StepForms ==
    ASSUME IInv, FormsInv, Next
    PROVE  SmallStep
<1> USE DEF SmallStep
<1>0. /\ \A v \in Startable : v \in VarType /\ NewStructure(Empty(v), v) /\ Small(Empty(v))
      /\ STR \in Startable /\ KEY \in Startable
      /\ TypeOK /\ StackInv
  BY StartableFits DEF Startable, IInv
<1>1. ASSUME NEW e \in Scalars, AddScalar(e)
      PROVE  SmallStep
  <2>1. CASE Fail
    BY <2>1 DEF Fail, doc
  <2>2. CASE ~Fail
    <3> DEFINE h == insertElement(HeadStructure, Inline(e), EndIndex(getHead, HeadStructure))
    <3>1. /\ structs' = [structs EXCEPT ![getHead] = h]
          /\ TakesElement(getHead, HeadStructure, Inline(e)) /\ Room
      BY <1>0, <1>1, <2>2, HeadType DEF AddScalar, HeadStructure
    <3>2. KeptHead(h) /\ OneLonger(HeadStructure, h)
      BY <3>1, ScalarsAssumption, ScalarOK
    <3>3. Small(h)
      BY <3>1, <3>2, HeadOK, RoomForOne DEF Form
    <3> QED BY <3>1, <3>2, <3>3
  <2> QED BY <2>1, <2>2
<1>2. ASSUME NEW name \in Names, NEW e \in Scalars, AddScalarWithKey(name, e)
      PROVE  SmallStep
  <2>1. CASE Fail
    BY <2>1 DEF Fail, doc
  <2>2. CASE ~Fail
    <3> DEFINE h == addElementWithKey(HeadStructure, NewKey(HeadStructure, name), Inline(e))
    <3>1. structs' = [structs EXCEPT ![getHead] = h] /\ CanStartWithKey(name) /\ Room
      BY <1>0, <1>2, <2>2, HeadType DEF AddScalarWithKey, HeadStructure
    <3>2. KeptHead(h) /\ OneLonger(HeadStructure, h)
      BY <3>1, ScalarsAssumption, NamesAssumption, KeyedScalarOK
    <3>3. Small(h)
      BY <3>1, <3>2, HeadOK, RoomForOne DEF Form
    <3> QED BY <3>1, <3>2, <3>3
  <2> QED BY <2>1, <2>2
<1>3. ASSUME NEW v \in Kinds, Start(v)
      PROVE  SmallStep
  <2>1. CASE Fail
    BY <2>1 DEF Fail, doc
  <2>2. CASE ~Fail
    <3>1. CanStart(v) /\ Push(HeadWithOffset(v), Empty(v)) /\ Room
      BY <1>3, <2>2 DEF Start, RoomForStructure
    <3>2. /\ NewHead(HeadWithOffset(v), v) /\ OneLonger(HeadStructure, HeadWithOffset(v))
          /\ NewStructure(Empty(v), v) /\ Small(Empty(v))
      BY <1>0, <3>1, KindsAssumption, OffsetOK
    <3>3. Small(HeadWithOffset(v))
      BY <3>1, <3>2, HeadOK, RoomForOne DEF Form
    <3> QED BY <3>1, <3>2, <3>3 DEF Push
  <2> QED BY <2>1, <2>2
<1>4. ASSUME NEW name \in Names, NEW v \in Kinds, StartWithKey(name, v)
      PROVE  SmallStep
  <2>1. CASE Fail
    BY <2>1 DEF Fail, doc
  <2>2. CASE ~Fail
    <3>1. CanStartWithKey(name) /\ Push(HeadWithKeyedOffset(name, v), Empty(v)) /\ Room
      BY <1>4, <2>2 DEF StartWithKey, RoomForStructure
    <3>2. /\ NewHead(HeadWithKeyedOffset(name, v), v)
          /\ OneLonger(HeadStructure, HeadWithKeyedOffset(name, v))
          /\ NewStructure(Empty(v), v) /\ Small(Empty(v))
      BY <1>0, <3>1, KindsAssumption, NamesAssumption, KeyedHeadOK
    <3>3. Small(HeadWithKeyedOffset(name, v))
      BY <3>1, <3>2, HeadOK, RoomForOne DEF Form
    <3> QED BY <3>1, <3>2, <3>3 DEF Push
  <2> QED BY <2>1, <2>2
<1>5. ASSUME End \/ EndAfterFailure
      PROVE  SmallStep
  BY <1>5 DEF End, EndAfterFailure, Pop, Panic, doc
<1>6. ASSUME NEW v \in {STR, KEY}, NEW text \in Texts, AddText(v, text)
      PROVE  SmallStep
  <2>1. CASE EndAfterFailure
    BY <2>1, <1>5
  <2>2. CASE ~EndAfterFailure
    <3>1. /\ CanStart(v) /\ PushAndEnd(HeadWithOffset(v), AppendText(Empty(v), text))
          /\ Room /\ RoomForText(text)
      BY <1>6, <2>2 DEF AddText, RoomForStructure
    <3>2. /\ NewHead(HeadWithOffset(v), v) /\ OneLonger(HeadStructure, HeadWithOffset(v))
          /\ NewStructure(AppendText(Empty(v), text), v) /\ Small(AppendText(Empty(v), text))
      BY <1>0, <3>1, TextsAssumption, OffsetOK, NewText
    <3>3. Small(HeadWithOffset(v))
      BY <3>1, <3>2, HeadOK, RoomForOne DEF Form
    <3> QED BY <3>1, <3>2, <3>3 DEF PushAndEnd
  <2> QED BY <2>1, <2>2
<1>7. ASSUME NEW name \in Names, NEW text \in Texts, StringWithKey(name, text)
      PROVE  SmallStep
  <2>1. CASE EndAfterFailure
    BY <2>1, <1>5
  <2>2. CASE ~EndAfterFailure
    <3>1. /\ CanStartWithKey(name)
          /\ PushAndEnd(HeadWithKeyedOffset(name, STR), AppendText(Empty(STR), text))
          /\ Room /\ RoomForText(text)
      BY <1>7, <2>2 DEF StringWithKey, RoomForStructure
    <3>2. /\ NewHead(HeadWithKeyedOffset(name, STR), STR)
          /\ OneLonger(HeadStructure, HeadWithKeyedOffset(name, STR))
          /\ NewStructure(AppendText(Empty(STR), text), STR) /\ Small(AppendText(Empty(STR), text))
      BY <1>0, <3>1, NamesAssumption, TextsAssumption, KeyedHeadOK, NewText
    <3>3. Small(HeadWithKeyedOffset(name, STR))
      BY <3>1, <3>2, HeadOK, RoomForOne DEF Form
    <3> QED BY <3>1, <3>2, <3>3 DEF PushAndEnd
  <2> QED BY <2>1, <2>2
<1>8. ASSUME NEW text \in Texts, AppendToHead(text)
      PROVE  SmallStep
  <2>1. CASE Fail
    BY <2>1 DEF Fail, doc
  <2>2. CASE ~Fail
    <3>1. /\ structs' = [structs EXCEPT ![getHead] = AppendText(HeadStructure, text)]
          /\ HeadStructure.vType = STR
          /\ Len(HeadStructure.elems) + text.narrow + text.wide <= MaxElems
      BY <1>0, <1>8, <2>2, HeadType DEF AppendToHead, HeadStructure
    <3>2. KeptHead(AppendText(HeadStructure, text)) /\ Small(AppendText(HeadStructure, text))
      BY <3>1, HeadOK, TextsAssumption, TextForm DEF KeptHead
    <3> QED BY <3>1, <3>2
  <2> QED BY <2>1, <2>2
<1>9. ASSUME FinishCall
      PROVE  SmallStep
  BY <1>9 DEF FinishCall
<1> QED BY <1>1, <1>2, <1>3, <1>4, <1>5, <1>6, <1>7, <1>8, <1>9 DEF Next

LEMMA InitForms ==
    ASSUME Init
    PROVE  FormsInv /\ SmallInv
<1>1. structs = <<Empty(NULL)>> /\ NULL \in VarType
      /\ NULL # VECTOR_KEY /\ NULL # VECTOR_STRING_DEPRECATED
  BY DEF Init, VarType, NULL, VECTOR_KEY, VECTOR_STRING_DEPRECATED
<1>2. Empty(NULL) \in Form /\ Leaf(Empty(NULL)) /\ Small(Empty(NULL))
  BY <1>1, EmptyForm
<1>3. structs \in Seq(Form) /\ Len(structs) = 1 /\ Leaf(structs[1]) /\ Small(structs[1])
  BY <1>1, <1>2
<1>4. IsTree(structs)
  <2>1. \A id \in Nat : id > 1 => ~Mentions(structs[1], id)
    BY <1>3, LeavesMentionNothing DEF NoStruct
  <2> QED BY <1>3, <2>1 DEF IsTree
<1> QED BY <1>3, <1>4 DEF FormsInv, Trees, SmallInv

LEMMA FormStepKeeps ==
    ASSUME IInv, FormsInv, FormStep
    PROVE  FormsInv'
<1>0. /\ getHead \in 1..Len(structs) /\ NextId = Len(structs) + 1
      /\ structs \in Seq(Form) /\ structs \in Seq(Structure) /\ IsTree(structs)
  BY HeadType DEF IInv, TypeOK, FormsInv, Trees, NextId
<1>1. CASE structs' = structs
  BY <1>1 DEF FormsInv
<1>2. CASE \E h : KeptHead(h) /\ structs' = [structs EXCEPT ![getHead] = h]
  <2>1. PICK h : KeptHead(h) /\ structs' = [structs EXCEPT ![getHead] = h]
    BY <1>2
  <2>2. /\ h \in Form /\ h \in Structure /\ h.vType = structs[getHead].vType
        /\ GrowsBy(structs[getHead], h, NoStruct)
    BY <2>1 DEF KeptHead, Keeps, Form, HeadStructure
  <2>3. [structs EXCEPT ![getHead] = h] \in Seq(Form)
    BY <1>0, <2>2, ExceptSeq
  <2>4. IsTree([structs EXCEPT ![getHead] = h])
    BY <1>0, <2>2, KeptTree
  <2> QED BY <2>1, <2>3, <2>4 DEF FormsInv, Trees
<1>3. CASE \E h, s, v : /\ NewHead(h, v) /\ NewStructure(s, v)
                        /\ structs' = Append([structs EXCEPT ![getHead] = h], s)
  <2>1. PICK h, s, v : /\ NewHead(h, v) /\ NewStructure(s, v)
                       /\ structs' = Append([structs EXCEPT ![getHead] = h], s)
    BY <1>3
  <2>2. /\ h \in Form /\ h \in Structure /\ h.vType = structs[getHead].vType
        /\ s \in Form /\ s \in Structure /\ Leaf(s)
        /\ Links(structs[getHead], h, Len(structs) + 1, s.vType)
    BY <1>0, <2>1 DEF NewHead, NewStructure, Takes, Form, HeadStructure
  <2>3. Append([structs EXCEPT ![getHead] = h], s) \in Seq(Form)
    <3>1. [structs EXCEPT ![getHead] = h] \in Seq(Form)
      BY <1>0, <2>2, ExceptSeq
    <3> QED BY <2>2, <3>1, AppendProperties
  <2>4. IsTree(Append([structs EXCEPT ![getHead] = h], s))
    BY <1>0, <2>2, LinkedTree
  <2> QED BY <2>1, <2>3, <2>4 DEF FormsInv, Trees
<1> QED BY <1>1, <1>2, <1>3 DEF FormStep

LEMMA SmallStepKeeps ==
    ASSUME IInv, SmallInv, FormsInv, SmallStep
    PROVE  SmallInv'
<1>0. getHead \in 1..Len(structs) /\ structs \in Seq(Structure)
  BY HeadType DEF IInv, TypeOK
<1>1. CASE structs' = structs
  BY <1>1 DEF SmallInv
<1>2. CASE \E h : KeptHead(h) /\ Small(h) /\ structs' = [structs EXCEPT ![getHead] = h]
  <2>1. PICK h : h \in Structure /\ Small(h) /\ structs' = [structs EXCEPT ![getHead] = h]
    BY <1>2 DEF KeptHead, Form
  <2>2. /\ Len(structs') = Len(structs)
        /\ \A i \in 1..Len(structs) : structs'[i] = IF i = getHead THEN h ELSE structs[i]
    BY <1>0, <2>1, ExceptSeq
  <2> QED BY <2>1, <2>2 DEF SmallInv
<1>3. CASE \E h, s, v : /\ NewHead(h, v) /\ NewStructure(s, v) /\ Small(h) /\ Small(s)
                        /\ structs' = Append([structs EXCEPT ![getHead] = h], s)
  <2>1. PICK h, s : /\ h \in Structure /\ s \in Structure /\ Small(h) /\ Small(s)
                    /\ structs' = Append([structs EXCEPT ![getHead] = h], s)
    BY <1>3 DEF NewHead, NewStructure, Form
  <2> DEFINE q == [structs EXCEPT ![getHead] = h]
  <2>2. /\ q \in Seq(Structure) /\ Len(q) = Len(structs) /\ Len(structs) \in Nat
        /\ \A i \in 1..Len(structs) : q[i] = IF i = getHead THEN h ELSE structs[i]
    BY <1>0, <2>1, ExceptSeq, LenProperties
  <2> HIDE DEF q
  <2>3. /\ Len(structs') = Len(structs) + 1 /\ structs'[Len(structs) + 1] = s
        /\ \A i \in 1..Len(structs) : structs'[i] = q[i]
    BY <2>1, <2>2, AppendProperties DEF q
  <2>4. \A i \in 1..Len(structs') : i \in 1..Len(structs) \/ i = Len(structs) + 1
    BY <2>2, <2>3
  <2> QED BY <2>1, <2>2, <2>3, <2>4 DEF SmallInv
<1> QED BY <1>1, <1>2, <1>3 DEF SmallStep

LEMMA StepFormsInv ==
    ASSUME IInv, FormsInv, SmallInv, [Next]_vars
    PROVE  FormsInv' /\ SmallInv'
<1>1. CASE UNCHANGED vars
  BY <1>1 DEF vars, FormsInv, SmallInv
<1>2. CASE Next
  <2>1. SmallStep
    BY <1>2, StepForms
  <2>2. FormStep
    BY <2>1, SmallIsForm
  <2> QED BY <2>1, <2>2, FormStepKeeps, SmallStepKeeps
<1> QED BY <1>1, <1>2

(* Every structure keeps the form of its type, and the structures a tree.  *)
THEOREM FormsInvariance == Spec => [](FormsInv /\ SmallInv)
  BY InitForms, StepFormsInv, Invariance, PTL DEF Spec

(* In every document and at every moment the keys of a map are in order,   *)
(* one per value and none empty, whatever the order in which its entries   *)
(* were added and however many there are.                                  *)
THEOREM MapsStaySorted == Spec => []MapsAreSorted
<1>1. ASSUME FormsInv
      PROVE  MapsAreSorted
  <2>1. \A id \in DOMAIN structs : structs[id] \in Form
    BY <1>1, ElementOfSeq, LenProperties DEF FormsInv, Trees
  <2>2. ASSUME NEW id \in DOMAIN structs, IsMap(structs[id])
        PROVE  DOMAIN structs[id].keys = 1..Len(structs[id].keys) /\ KeysOK(structs[id])
    BY <2>1, <2>2, LenProperties DEF Form, MapOK, Structure
  <2>3. ASSUME NEW id \in DOMAIN structs, ~IsMap(structs[id])
        PROVE  structs[id].keys = <<>>
    BY <2>1, <2>3 DEF Form, MapOK
  <2> QED BY <2>2, <2>3 DEF MapsAreSorted, KeysOK, KeysInOrder
<1> QED BY <1>1, FormsInvariance, PTL

(* A scalar, tuple, triple or quad never has more elements than its type   *)
(* says, a typed structure never two types, and a string, key or blob      *)
(* never an element of more than a byte, for elements of every type and    *)
(* size and for texts of every length.                                     *)
THEOREM ContentsStayFit == Spec => []ContentsFitType
<1>1. ASSUME FormsInv
      PROVE  ContentsFitType
  <2>1. ASSUME NEW id \in DOMAIN structs
        PROVE  LET s == structs[id] IN
               /\ s.vType \in 6..8   => Len(s.elems) <= 1
               /\ s.vType \in 16..18 => Len(s.elems) <= 2
               /\ s.vType \in 19..21 => Len(s.elems) <= 3
               /\ s.vType \in 22..24 => Len(s.elems) <= 4
               /\ isTypedVector(s.vType) \/ isBlobLike(s.vType) =>
                     \A i, j \in DOMAIN s.elems :
                         s.elems[i].type = s.elems[j].type /\ s.elems[i].target = NoStruct
               /\ isBlobLike(s.vType) => \A i \in DOMAIN s.elems : s.elems[i].size = b8
    <3> DEFINE s == structs[id]
    <3>1. s \in Structure /\ ContentsOK(s)
      BY <1>1, <2>1, ElementOfSeq, LenProperties DEF FormsInv, Trees, Form
    <3> HIDE DEF s
    <3>2. s.vType \in VarType /\ DOMAIN s.elems = 1..Len(s.elems)
      BY <3>1, LenProperties DEF Structure
    <3>3. /\ s.vType \in 6..8   => Len(s.elems) <= 1
          /\ s.vType \in 16..18 => Len(s.elems) <= 2
          /\ s.vType \in 19..21 => Len(s.elems) <= 3
          /\ s.vType \in 22..24 => Len(s.elems) <= 4
      BY <3>1, <3>2 DEF ContentsOK, LengthFits, isScalar, isTuple, isTriple, isQuad
    <3>4. Restricted(s.vType) => \A i, j \in DOMAIN s.elems :
             s.elems[i].type = s.elems[j].type /\ s.elems[i].target = NoStruct
      BY <3>1, <3>2, RestrictedTypesAreOne DEF ContentsOK, FitsIn
    <3>5. isBlobLike(s.vType) => \A i \in DOMAIN s.elems : s.elems[i].size = b8
      BY <3>1, <3>2 DEF ContentsOK, FitsIn, allowsElemSize, Restricted
    <3> QED BY <3>3, <3>4, <3>5 DEF s, Restricted
  <2> QED BY <2>1 DEF ContentsFitType
<1> QED BY <1>1, FormsInvariance, PTL

-----------------------------------------------------------------------------
(* Every structure but the root has one parent, which refers to it once,   *)
(* by an offset of its type, however the calls that start, fill and end    *)
(* structures follow each other and whatever keys push offsets apart.      *)
LEMMA OneReference ==
    ASSUME FormsInv, SmallInv, NEW id \in 2..Len(structs), NEW p \in 1..(id - 1), IsParent(structs, p, id)
    PROVE  \E i \in 1..MaxElems : /\ References(id) = {<<p, i>>}
                                  /\ structs[p].elems[i].type = structs[id].vType
<1>1. /\ structs \in Seq(Form) /\ Len(structs) \in Nat /\ DOMAIN structs = 1..Len(structs)
      /\ MaxElems \in Nat
  BY LenProperties, BoundsAssumption DEF FormsInv, Trees
<1>2. \A r \in 1..Len(structs) : /\ DOMAIN structs[r].elems = 1..Len(structs[r].elems)
                                 /\ Len(structs[r].elems) \in Nat
                                 /\ Len(structs[r].elems) <= MaxElems
  BY <1>1, ElementOfSeq, LenProperties DEF Form, Structure, SmallInv, Small
<1>3. p \in 1..Len(structs)
  BY <1>1
<1>4. PICK i \in 1..Len(structs[p].elems) :
          /\ structs[p].elems[i].type = structs[id].vType
          /\ \A j \in 1..Len(structs[p].elems) : structs[p].elems[j].target = id <=> j = i
  BY DEF IsParent, RefersOnce
<1>5. i \in 1..MaxElems
  BY <1>1, <1>2, <1>3
<1>6. <<p, i>> \in References(id)
  BY <1>1, <1>2, <1>3, <1>4, <1>5 DEF References
<1>7. ASSUME NEW r \in References(id)
      PROVE  r = <<p, i>>
  <2>1. PICK a \in 1..Len(structs), b \in 1..MaxElems : r = <<a, b>>
    BY <1>1 DEF References
  <2>2. b \in 1..Len(structs[a].elems) /\ structs[a].elems[b].target = id
    BY <1>2, <2>1 DEF References
  <2>3. a = p
    BY <2>1, <2>2 DEF IsParent, Mentions, RefersTo
  <2> QED BY <1>4, <2>1, <2>2, <2>3
<1> QED BY <1>4, <1>5, <1>6, <1>7

LEMMA OneOwner ==
    ASSUME FormsInv, NEW id \in 2..Len(structs), NEW p \in 1..(id - 1), IsParent(structs, p, id)
    PROVE  /\ Owners(id) = {p}
           /\ \E c \in DOMAIN structs[p].children :
                 \A d \in DOMAIN structs[p].children : structs[p].children[d] = id <=> d = c
<1>1. /\ structs \in Seq(Form) /\ Len(structs) \in Nat /\ DOMAIN structs = 1..Len(structs)
  BY LenProperties DEF FormsInv, Trees
<1>2. \A r \in 1..Len(structs) : DOMAIN structs[r].children = 1..Len(structs[r].children)
  BY <1>1, ElementOfSeq, LenProperties DEF Form, Structure
<1>3. p \in 1..Len(structs)
  BY <1>1
<1> DEFINE cs == structs[p].children
<1>4. DOMAIN cs = 1..Len(cs) /\ OwnsOnce(cs, id)
  BY <1>2, <1>3 DEF IsParent
<1> HIDE DEF cs
<1>5. \E c \in DOMAIN cs : \A d \in DOMAIN cs : cs[d] = id <=> d = c
  BY <1>4 DEF OwnsOnce
<1>6. PICK c \in DOMAIN structs[p].children :
          \A d \in DOMAIN structs[p].children : structs[p].children[d] = id <=> d = c
  BY <1>5 DEF cs
<1>7. p \in Owners(id)
  BY <1>1, <1>3, <1>6 DEF Owners, ToSet
<1>8. ASSUME NEW r \in Owners(id)
      PROVE  r = p
  <2>1. r \in 1..Len(structs) /\ \E d \in 1..Len(structs[r].children) : structs[r].children[d] = id
    BY <1>1, <1>2 DEF Owners, ToSet
  <2> QED BY <2>1 DEF IsParent, Mentions, Owns
<1> QED BY <1>6, <1>7, <1>8

(* The document is a tree at every moment, for documents of every size.    *)
THEOREM DocumentStaysTree == Spec => []DocumentIsTree
<1>1. ASSUME FormsInv, SmallInv
      PROVE  DocumentIsTree
  <2>1. IsTree(structs) /\ DOMAIN structs = 1..Len(structs) /\ Len(structs) \in Nat
    BY <1>1, LenProperties DEF FormsInv, Trees
  <2>2. ASSUME NEW id \in (DOMAIN structs) \ {Root}
        PROVE  \E p \in 1..(id - 1), i \in 1..MaxElems :
                   /\ References(id) = {<<p, i>>}
                   /\ structs[p].elems[i].type = structs[id].vType
                   /\ Owners(id) = {p}
                   /\ \E c \in DOMAIN structs[p].children :
                         \A d \in DOMAIN structs[p].children : structs[p].children[d] = id <=> d = c
    <3>1. id \in 2..Len(structs)
      BY <2>1 DEF Root
    <3>2. PICK p \in 1..(id - 1) : IsParent(structs, p, id)
      BY <2>1, <3>1 DEF IsTree
    <3>3. PICK i \in 1..MaxElems : /\ References(id) = {<<p, i>>}
                                   /\ structs[p].elems[i].type = structs[id].vType
      BY <1>1, <3>1, <3>2, OneReference
    <3>4. /\ Owners(id) = {p}
          /\ \E c \in DOMAIN structs[p].children :
                \A d \in DOMAIN structs[p].children : structs[p].children[d] = id <=> d = c
      BY <1>1, <3>1, <3>2, OneOwner
    <3> QED BY <3>3, <3>4
  <2> QED BY <2>2 DEF DocumentIsTree
<1> QED BY <1>1, FormsInvariance, PTL

-----------------------------------------------------------------------------
(* An entry of a map keeps its value and its place among the others,       *)
(* whatever is inserted later.                                             *)
LEMMA SamePairs ==
    ASSUME NEW s
    PROVE  Pairs(s, s)
  BY DEF Pairs, KeysGrow

LEMMA StepPairs ==
    ASSUME IInv, FormsInv, [Next]_vars, NEW id \in DOMAIN structs
    PROVE  Pairs(structs[id], structs'[id])
<1>0. /\ getHead \in 1..Len(structs) /\ structs \in Seq(Form) /\ Len(structs) \in Nat
      /\ id \in 1..Len(structs)
  BY HeadType, LenProperties DEF IInv, FormsInv, Trees
<1>1. CASE structs' = structs
  BY <1>1, SamePairs
<1>2. ASSUME NEW h \in Form, Pairs(HeadStructure, h)
      PROVE  LET e == [structs EXCEPT ![getHead] = h] IN
             e \in Seq(Form) /\ Len(e) = Len(structs) /\ Pairs(structs[id], e[id])
  <2> DEFINE e == [structs EXCEPT ![getHead] = h]
  <2>1. /\ e \in Seq(Form) /\ Len(e) = Len(structs)
        /\ e[id] = IF id = getHead THEN h ELSE structs[id]
    BY <1>0, ExceptSeq
  <2> HIDE DEF e
  <2>2. Pairs(structs[id], e[id])
    BY <1>2, <2>1, SamePairs DEF HeadStructure
  <2> QED BY <2>1, <2>2 DEF e
<1>3. CASE \E h : KeptHead(h) /\ structs' = [structs EXCEPT ![getHead] = h]
  <2>1. PICK h : KeptHead(h) /\ structs' = [structs EXCEPT ![getHead] = h]
    BY <1>3
  <2>2. h \in Form /\ Pairs(HeadStructure, h)
    BY <2>1 DEF KeptHead, Keeps
  <2> QED BY <1>2, <2>1, <2>2
<1>4. CASE \E h, s, v : /\ NewHead(h, v) /\ NewStructure(s, v)
                        /\ structs' = Append([structs EXCEPT ![getHead] = h], s)
  <2>1. PICK h, s, v : /\ NewHead(h, v) /\ NewStructure(s, v)
                       /\ structs' = Append([structs EXCEPT ![getHead] = h], s)
    BY <1>4
  <2>2. h \in Form /\ Pairs(HeadStructure, h) /\ s \in Form
    BY <2>1 DEF NewHead, NewStructure, Takes
  <2> DEFINE e == [structs EXCEPT ![getHead] = h]
  <2>3. e \in Seq(Form) /\ Len(e) = Len(structs) /\ Pairs(structs[id], e[id])
    BY <1>2, <2>2
  <2> HIDE DEF e
  <2>4. Append(e, s)[id] = e[id]
    BY <1>0, <2>2, <2>3, AppendProperties
  <2> QED BY <2>1, <2>3, <2>4 DEF e
<1>5. CASE UNCHANGED vars
  BY <1>1, <1>5 DEF vars
<1>6. CASE Next
  <2>1. FormStep
    BY <1>6, StepForms, SmallIsForm
  <2> QED BY <1>1, <1>3, <1>4, <2>1 DEF FormStep
<1> QED BY <1>5, <1>6

(* In maps of every size no call parts a key from its value.               *)
THEOREM PairsStay == Spec => EntriesStayPaired
<1>1. ASSUME IInv, FormsInv, [Next]_vars
      PROVE  [\A id \in DOMAIN structs : IsMap(structs[id]) =>
                 \A i, j \in DOMAIN structs[id].keys : i < j =>
                     \E k, l \in DOMAIN structs'[id].keys :
                         /\ k < l
                         /\ structs'[id].keys[k] = structs[id].keys[i]
                         /\ structs'[id].keys[l] = structs[id].keys[j]
                         /\ structs'[id].elems[k] = structs[id].elems[i]
                         /\ structs'[id].elems[l] = structs[id].elems[j]]_vars
  BY <1>1, StepPairs DEF Pairs
<1> QED BY <1>1, Invariance, FormsInvariance, PTL DEF Spec, EntriesStayPaired

-----------------------------------------------------------------------------
(* A call that ends with anything but "ok" was refused before it changed   *)
(* anything, or failed as String does, whose End closes one structure.     *)
LEMMA PoppedIsPrefix ==
    ASSUME IInv, Pop
    PROVE  IsPrefix(inProgress', inProgress)
<1>1. /\ inProgress \in Seq(Nat \ {0}) /\ Len(inProgress) = headIndex + 1
      /\ headIndex \in Nat /\ headIndex >= 1 /\ inProgress' = SubSeq(inProgress, 1, headIndex)
  BY DEF IInv, TypeOK, Pop
<1>2. \A i \in 1..headIndex : inProgress[i] \in Nat \ {0}
  BY <1>1, ElementOfSeq
<1>3. /\ Len(SubSeq(inProgress, 1, headIndex)) = IF 1 <= headIndex THEN headIndex - 1 + 1 ELSE 0
  BY <1>1, <1>2, SubSeqProperties
<1>4. Len(inProgress') = headIndex
  BY <1>1, <1>3
<1> QED BY <1>1, <1>4 DEF IsPrefix

LEMMA StepFailure ==
    ASSUME IInv, Next, ret' # "ok"
    PROVE  structs' = structs /\ IsPrefix(inProgress', inProgress)
<1>0. inProgress \in Seq(Nat \ {0}) /\ IsPrefix(inProgress, inProgress)
  BY DEF IInv, TypeOK, IsPrefix
<1>1. ASSUME Fail \/ Panic
      PROVE  structs' = structs /\ IsPrefix(inProgress', inProgress)
  BY <1>0, <1>1 DEF Fail, Panic, doc
<1>2. ASSUME Pop
      PROVE  structs' = structs /\ IsPrefix(inProgress', inProgress)
  BY <1>2, PoppedIsPrefix DEF Pop
<1>3. ASSUME NEW e \in Scalars, AddScalar(e)
      PROVE  Fail
  BY <1>3 DEF AddScalar
<1>4. ASSUME NEW name \in Names, NEW e \in Scalars, AddScalarWithKey(name, e)
      PROVE  Fail
  BY <1>4 DEF AddScalarWithKey
<1>5. ASSUME NEW v \in Kinds, Start(v)
      PROVE  Fail
  BY <1>5 DEF Start
<1>6. ASSUME NEW name \in Names, NEW v \in Kinds, StartWithKey(name, v)
      PROVE  Fail
  BY <1>6 DEF StartWithKey
<1>7. ASSUME End \/ EndAfterFailure
      PROVE  Panic \/ Pop
  BY <1>7 DEF End, EndAfterFailure
<1>8. ASSUME NEW v \in {STR, KEY}, NEW text \in Texts, AddText(v, text)
      PROVE  Panic \/ Pop
  BY <1>7, <1>8 DEF AddText
<1>9. ASSUME NEW name \in Names, NEW text \in Texts, StringWithKey(name, text)
      PROVE  Panic \/ Pop
  BY <1>7, <1>9 DEF StringWithKey
<1>10. ASSUME NEW text \in Texts, AppendToHead(text)
       PROVE  Fail
  BY <1>10 DEF AppendToHead
<1>11. ASSUME FinishCall
       PROVE  structs' = structs /\ IsPrefix(inProgress', inProgress)
  BY <1>0, <1>11 DEF FinishCall
<1> QED BY <1>1, <1>2, <1>3, <1>4, <1>5, <1>6, <1>7, <1>8, <1>9, <1>10, <1>11 DEF Next

(* Whatever the arguments, a failing call leaves the document alone and    *)
(* opens nothing.                                                          *)
THEOREM FailuresAddNothing == Spec => FailureAddsNothing
<1>1. ASSUME IInv, [Next]_vars
      PROVE  [ret' # "ok" => structs' = structs /\ IsPrefix(inProgress', inProgress)]_vars
  BY <1>1, StepFailure
<1> QED BY <1>1, Invariance, PTL DEF Spec, FailureAddsNothing

-----------------------------------------------------------------------------
(* AutoBuild: its own state.                                               *)

(* The activations are of values that exist, and wait for entries of them. *)
Frames == UNION {[value : {v}, left : SUBSET DOMAIN Values[v].entries] : v \in DOMAIN Values}

CallsInv == call \in Calls \cup {NoCall} /\ frames \in Seq(Frames)

LEMMA FrameProperties ==
    ASSUME NEW f \in Frames
    PROVE  /\ f.value \in DOMAIN Values
           /\ f.left \subseteq DOMAIN Values[f.value].entries
           /\ \A i : [f EXCEPT !.left = @ \ {i}] \in Frames
<1>1. PICK v \in DOMAIN Values : f \in [value : {v}, left : SUBSET DOMAIN Values[v].entries]
  BY DEF Frames
<1>2. ASSUME NEW i
      PROVE  [f EXCEPT !.left = @ \ {i}] \in [value : {v}, left : SUBSET DOMAIN Values[v].entries]
  BY <1>1
<1> QED BY <1>1, <1>2 DEF Frames

LEMMA TopType ==
    ASSUME CallsInv, frames # <<>>
    PROVE  /\ Len(frames) \in 1..Len(frames)
           /\ Top \in Frames
           /\ Popped \in Seq(Frames)
<1>1. Len(frames) \in Nat /\ Len(frames) # 0
  BY LenProperties, EmptySeq DEF CallsInv
<1>2. Len(frames) \in 1..Len(frames)
  BY <1>1
<1>3. \A i \in 1..Len(frames) : frames[i] \in Frames
  BY ElementOfSeq DEF CallsInv
<1>4. \A i \in 1..(Len(frames) - 1) : frames[i] \in Frames
  BY <1>1, <1>3
<1>5. Popped \in Seq(Frames)
  BY <1>1, <1>4, SubSeqProperties DEF Popped, CallsInv
<1> QED BY <1>2, <1>3, <1>5 DEF Top

LEMMA CallsInit ==
    ASSUME AutoInit
    PROVE  CallsInv
  BY DEF AutoInit, CallsInv

(* What AutoBuild keeps of its own state.                                  *)
LEMMA EntryIsCall ==
    ASSUME NEW v \in DOMAIN Values, NEW i \in DOMAIN Values[v].entries
    PROVE  Values[v].entries[i] \in Calls
  BY ValuesAssumption

LEMMA EnterFrameType ==
    ASSUME CallsInv, call # NoCall, EnterFrame
    PROVE  frames' \in Seq(Frames)
<1> DEFINE f == [value |-> call.value, left |-> DOMAIN item.entries]
<1>1. call.value \in DOMAIN Values
  BY DEF CallsInv, Calls
<1>2. f \in [value : {call.value}, left : SUBSET DOMAIN Values[call.value].entries]
  BY DEF item
<1>3. f \in Frames
  BY <1>1, <1>2 DEF Frames
<1> HIDE DEF f
<1>4. Append(frames, f) \in Seq(Frames)
  BY <1>3, AppendProperties DEF CallsInv
<1> QED BY <1>4 DEF EnterFrame, f

LEMMA StepCallsInv ==
    ASSUME CallsInv, [AutoNext]_allVars
    PROVE  CallsInv'
<1>0. <<>> \in Seq(Frames) /\ (frames # <<>> => Popped \in Seq(Frames))
  BY TopType
<1>1. ASSUME UNCHANGED frames \/ frames' = <<>>, Return
      PROVE  CallsInv'
  BY <1>0, <1>1 DEF CallsInv, Return
<1>2. ASSUME AutoScalar \/ AutoOther \/ AutoString
      PROVE  CallsInv'
  BY <1>1, <1>2 DEF AutoScalar, AutoOther, AutoString, Unwind
<1>3. ASSUME EnterMap \/ EnterSlice
      PROVE  CallsInv'
  <2>1. Return /\ call # NoCall /\ (EnterFrame \/ UNCHANGED frames \/ frames' = <<>>)
    BY <1>3 DEF EnterMap, EnterSlice, Unwind
  <2>2. CASE EnterFrame
    BY <2>1, <2>2, EnterFrameType DEF CallsInv, Return
  <2> QED BY <1>1, <2>1, <2>2
<1>4. ASSUME NEW i, NextEntry(i)
      PROVE  CallsInv'
  <2>1. /\ frames # <<>> /\ i \in Top.left
        /\ call' = Values[Top.value].entries[i]
        /\ frames' = [frames EXCEPT ![Len(frames)].left = @ \ {i}]
    BY <1>4 DEF NextEntry, Waiting
  <2>2. Top \in Frames /\ Len(frames) \in 1..Len(frames)
    BY <2>1, TopType
  <2>3. call' \in Calls
    BY <2>1, <2>2, FrameProperties, EntryIsCall
  <2> DEFINE f == [Top EXCEPT !.left = @ \ {i}]
  <2>4. f \in Frames
    BY <2>2, FrameProperties
  <2>5. frames' = [frames EXCEPT ![Len(frames)] = f]
    BY <2>1, <2>2 DEF Top
  <2> HIDE DEF f
  <2>6. frames' \in Seq(Frames)
    BY <2>2, <2>4, <2>5, ExceptSeq DEF CallsInv
  <2> QED BY <2>3, <2>6 DEF CallsInv
<1>5. ASSUME Leave
      PROVE  CallsInv'
  BY <1>0, <1>5 DEF Leave, Waiting, Unwind, CallsInv
<1>6. ASSUME OtherCall
      PROVE  CallsInv'
  BY <1>6 DEF OtherCall, CallsInv
<1>7. ASSUME NEW v \in DOMAIN Values, AutoBuild(v)
      PROVE  CallsInv'
  <2>1. [key |-> NoKey, value |-> v] \in Calls
    BY DEF Calls
  <2> QED BY <1>7, <2>1 DEF AutoBuild, CallsInv
<1>8. ASSUME UNCHANGED allVars
      PROVE  CallsInv'
  BY <1>8 DEF allVars, auto, CallsInv
<1> QED BY <1>2, <1>3, <1>4, <1>5, <1>6, <1>7, <1>8 DEF AutoNext, Activation

-----------------------------------------------------------------------------
(* What its steps do to the Builder.                                       *)

LEMMA SlicesStart ==
    ASSUME NEW n
    PROVE  SliceTypes \cup ArrayTypes(n) \subseteq Startable
<1>1. SliceTypes \subseteq Startable
  BY DEF SliceTypes, Startable
<1>2. ASSUME NEW v \in ArrayTypes(n)
      PROVE  v \in VarType /\ isFixedTypedVector(v)
  <2>1. v \in VarType /\ (isScalar(v) \/ isTuple(v) \/ isTriple(v) \/ isQuad(v))
    BY <1>2 DEF ArrayTypes
  <2> QED BY <2>1 DEF isFixedTypedVector
<1> QED BY <1>1, <1>2 DEF Startable

LEMMA ScalarItem ==
    ASSUME IInv, CallsInv, call # NoCall, item.kind = "scalar"
    PROVE  Grown(HeadWithScalar)
<1>1. call \in Calls /\ item.elem \in InlineElem
  BY ValuesAssumption DEF CallsInv, Calls, item
<1>2. CASE call.key = NoKey
  BY <1>1, <1>2, ScalarGrows DEF HeadWithScalar, IInv
<1>3. CASE call.key # NoKey
  <2>1. call.key \in Nat
    BY <1>1, <1>3 DEF Calls
  <2> QED BY <1>1, <1>3, <2>1, KeyedScalarGrows DEF HeadWithScalar, IInv
<1> QED BY <1>2, <1>3

LEMMA StructureItem ==
    ASSUME IInv, CallsInv, call # NoCall, item.kind \in {"string", "map", "slice"}
    PROVE  /\ TypeOfItem \in VarType /\ TypeOfItem # NULL
           /\ Grown(HeadWithItem) /\ NextId \in ToSet(HeadWithItem.children)
           /\ Empty(TypeOfItem) \in Structure /\ Empty(TypeOfItem).vType # NULL
           /\ Fresh(Empty(TypeOfItem))
           /\ item.kind = "string" =>
                 /\ AppendText(Empty(STR), item.text) \in Structure
                 /\ AppendText(Empty(STR), item.text).vType # NULL
                 /\ Fresh(AppendText(Empty(STR), item.text))
<1>1. call \in Calls
  BY DEF CallsInv
<1>2. item.kind = "slice" => item.vType \in Startable
  <2>1. item.kind = "slice" => item.vType \in SliceTypes \cup ArrayTypes(Len(item.entries))
    BY <1>1, ValuesAssumption DEF Calls, item
  <2> QED BY <2>1, SlicesStart
<1>3. item.kind = "string" => item.text \in [narrow : Nat, wide : Nat]
  BY <1>1, ValuesAssumption DEF Calls, item
<1>4. TypeOfItem \in Startable
  BY <1>2 DEF TypeOfItem, Startable
<1>5. NULL \notin Startable
  BY DEF Startable, VarType, isFixedTypedVector, isScalar, isTuple, isTriple, isQuad, VECTOR,
         VECTOR_INT, VECTOR_UINT, VECTOR_FLOAT, VECTOR_BOOL, BLOB, STR, KEY, MAP, NULL
<1>6. /\ TypeOfItem \in VarType /\ TypeOfItem # NULL /\ ~isInline(TypeOfItem)
      /\ STR \in VarType /\ STR # NULL
  BY <1>4, <1>5, StartableType DEF VarType, STR, NULL
<1>7. Grown(HeadWithItem) /\ NextId \in ToSet(HeadWithItem.children)
  <2>1. CASE call.key = NoKey
    BY <1>6, <2>1, OffsetGrows DEF HeadWithItem, IInv
  <2>2. CASE call.key # NoKey
    <3>1. call.key \in Nat
      BY <1>1, <2>2 DEF Calls
    <3> QED BY <1>6, <2>2, <3>1, KeyedOffsetGrows DEF HeadWithItem, IInv
  <2> QED BY <2>1, <2>2
<1>8. \A v \in VarType : Empty(v) \in Structure /\ Empty(v).vType = v /\ Fresh(Empty(v))
  BY EmptyType, EmptyFresh DEF Empty
<1>9. ASSUME item.kind = "string"
      PROVE  /\ AppendText(Empty(STR), item.text) \in Structure
             /\ AppendText(Empty(STR), item.text).vType # NULL
             /\ Fresh(AppendText(Empty(STR), item.text))
  BY <1>3, <1>6, <1>8, <1>9, AppendTextType, TextFresh
<1> QED BY <1>6, <1>7, <1>8, <1>9

LEMMA PopShaped ==
    ASSUME IInv, Pop, ret' \in {"ok", "error", "panic"}
    PROVE  Shaped
  BY PopShape DEF IInv, Shaped, Step

LEMMA FailShaped ==
    ASSUME IInv, Fail \/ Panic
    PROVE  Shaped
  BY FailShape DEF IInv, Shaped, Step, Fail, Panic

LEMMA AutoShape ==
    ASSUME IInv, CallsInv, AutoNext
    PROVE  Shaped \/ UNCHANGED vars
<1>0. TypeOK /\ StackInv
  BY DEF IInv
<1>1. ASSUME AutoScalar
      PROVE  Shaped
  <2>1. CASE Fail
    BY <2>1, FailShaped
  <2>2. CASE ~Fail
    <3>1. /\ structs' = [structs EXCEPT ![getHead] = HeadWithScalar] /\ SameStack
          /\ ret' = "ok" /\ finished' \in BOOLEAN
      BY <1>0, <1>1, <2>2 DEF AutoScalar, SameStack, Finish, TypeOK
    <3>2. Grown(HeadWithScalar)
      BY <1>1, ScalarItem DEF AutoScalar
    <3> QED BY <3>1, <3>2 DEF Shaped, Step, EditedDoc
  <2> QED BY <2>1, <2>2
<1>2. ASSUME AutoString
      PROVE  Shaped
  <2>1. CASE Unwind
    BY <2>1, FailShaped DEF Unwind
  <2>2. CASE Pop /\ ret' = "error"
    BY <2>2, PopShaped
  <2>3. CASE PushAndEnd(HeadWithItem, AppendText(Empty(STR), item.text)) /\ ret' = "ok"
    <3>1. call # NoCall /\ item.kind = "string"
      BY <1>2 DEF AutoString
    <3>2. ExtendedDoc /\ SameStack /\ finished' \in BOOLEAN
      BY <1>0, <2>3, <3>1, StructureItem, PushAndEndShape
    <3> QED BY <2>3, <3>2 DEF Shaped, Step
  <2> QED BY <1>2, <2>1, <2>2, <2>3 DEF AutoString
<1>3. ASSUME AutoOther
      PROVE  Shaped
  BY <1>3, FailShaped DEF AutoOther
<1>4. ASSUME call # NoCall, item.kind \in {"map", "slice"}, ret' = "ok",
             Push(HeadWithItem, Empty(TypeOfItem))
      PROVE  Shaped
  <2>1. ExtendedDoc /\ PushedStack /\ finished' \in BOOLEAN
    BY <1>0, <1>4, StructureItem, PushShape
  <2> QED BY <1>4, <2>1 DEF Shaped, Step
<1>5. ASSUME EnterMap
      PROVE  Shaped
  <2>1. CASE UNCHANGED doc
    BY <1>0, <1>5, <2>1 DEF EnterMap, Shaped, Step, SameStack, TypeOK, doc
  <2>2. CASE Push(HeadWithItem, Empty(MAP))
    <3>1. TypeOfItem = MAP /\ call # NoCall /\ item.kind = "map" /\ ret' = "ok"
      BY <1>5 DEF EnterMap, TypeOfItem
    <3> QED BY <1>4, <2>2, <3>1
  <2> QED BY <1>5, <2>1, <2>2 DEF EnterMap
<1>6. ASSUME EnterSlice
      PROVE  Shaped
  <2>1. CASE Unwind
    BY <2>1, FailShaped DEF Unwind
  <2>2. CASE Pop /\ ret' = "error"
    BY <2>2, PopShaped
  <2>3. CASE Push(HeadWithItem, Empty(item.vType)) /\ ret' = "ok"
    <3>1. TypeOfItem = item.vType /\ call # NoCall /\ item.kind = "slice"
      BY <1>6 DEF EnterSlice, TypeOfItem
    <3> QED BY <1>4, <2>3, <3>1
  <2> QED BY <1>6, <2>1, <2>2, <2>3 DEF EnterSlice
<1>7. ASSUME Leave
      PROVE  Shaped
  <2>1. CASE Unwind
    BY <2>1, FailShaped DEF Unwind
  <2>2. CASE ~Unwind
    <3>1. Pop /\ ret' \in {"ok", "error"}
      BY <1>7, <2>2 DEF Leave
    <3> QED BY <3>1, PopShaped
  <2> QED BY <2>1, <2>2
<1>8. ASSUME NEW i, NextEntry(i)
      PROVE  UNCHANGED vars
  BY <1>8 DEF NextEntry
<1>9. ASSUME NEW v, AutoBuild(v)
      PROVE  UNCHANGED vars
  BY <1>9 DEF AutoBuild
<1>10. ASSUME OtherCall
       PROVE  Shaped
  BY <1>0, <1>10, StepShape DEF OtherCall, Shaped
<1> QED BY <1>1, <1>2, <1>3, <1>5, <1>6, <1>7, <1>8, <1>9, <1>10 DEF AutoNext, Activation

-----------------------------------------------------------------------------
(* The invariant of the Builder holds under AutoBuild as well, and every    *)
(* activation is of a value that exists.                                   *)
THEOREM AutoInvariance == AutoSpec => [](IInv /\ CallsInv)
<1>1. AutoInit => IInv /\ CallsInv
  BY InitIInv, CallsInit DEF AutoInit
<1>2. IInv /\ CallsInv /\ [AutoNext]_allVars => (IInv /\ CallsInv)'
  <2> SUFFICES ASSUME IInv, CallsInv, [AutoNext]_allVars
               PROVE  IInv' /\ CallsInv'
    OBVIOUS
  <2>1. Shaped \/ UNCHANGED vars
    BY AutoShape DEF allVars
  <2>2. IInv'
    BY <2>1, ShapedIInv, StutterIInv
  <2> QED BY <2>2, StepCallsInv
<1> QED BY <1>1, <1>2, PTL DEF AutoSpec

(* However AutoBuild fails amid nested values, drops errors and ends       *)
(* structures in place of those it could not start, what is open is one    *)
(* path of the document.                                                   *)
THEOREM AutoKeepsPath == AutoSpec => []StackIsPath
  BY InvariantPath, AutoInvariance, PTL

(* And nothing that was ended is changed or opened again.                  *)
THEOREM AutoKeepsEnded == AutoSpec => EndedIsFinal
<1>1. ASSUME IInv, CallsInv, [AutoNext]_allVars
      PROVE  [\A id \in DOMAIN structs :
                 /\ id # getHead => structs'[id] = structs[id]
                 /\ ~InStack(id) => ~InStack(id)']_vars
  <2>1. Shaped \/ UNCHANGED vars
    BY <1>1, AutoShape DEF allVars
  <2>2. CASE Shaped
    BY <1>1, <2>2, EndedStays DEF Shaped
  <2> QED BY <2>1, <2>2
<1> QED BY <1>1, AutoInvariance, PTL DEF AutoSpec, EndedIsFinal

-----------------------------------------------------------------------------
(* An unknown type is an error of the call.                                *)

(* The recursive definitions over values have solutions: the least and the *)
(* greatest sets they allow.                                               *)
LEMMA EntryFacts ==
    ASSUME NEW v \in DOMAIN Values, NEW i \in DOMAIN Entries(v)
    PROVE  Entries(v)[i] \in Calls /\ Entries(v)[i].value \in DOMAIN Values
  BY ValuesAssumption DEF Entries, Calls

LEMMA UnknownInSlicesDef ==
    ASSUME NEW v \in DOMAIN Values
    PROVE  UnknownInSlices[v] <=>
              \/ Values[v].kind = "other"
              \/ /\ Values[v].kind = "slice"
                 /\ \E i \in DOMAIN Entries(v) : UnknownInSlices[Entries(v)[i].value]
<1> DEFINE D == DOMAIN Values
           body(f, w) == \/ Values[w].kind = "other"
                         \/ /\ Values[w].kind = "slice"
                            /\ \E i \in DOMAIN Entries(w) : f[Entries(w)[i].value]
           pre(S) == {w \in D : \/ Values[w].kind = "other"
                                \/ /\ Values[w].kind = "slice"
                                   /\ \E i \in DOMAIN Entries(w) : Entries(w)[i].value \in S}
           least == {w \in D : \A S \in SUBSET D : pre(S) \subseteq S => w \in S}
           f == [w \in D |-> w \in least]
<1>1. \A S, T : S \subseteq T => pre(S) \subseteq pre(T)
  OBVIOUS
<1>2. \A S \in SUBSET D : pre(S) \subseteq S => least \subseteq S
  OBVIOUS
<1>3. pre(least) \subseteq least
  <2> SUFFICES ASSUME NEW w \in pre(least), NEW S \in SUBSET D, pre(S) \subseteq S
               PROVE  w \in S
    OBVIOUS
  <2> HIDE DEF pre, least
  <2> QED BY <1>1, <1>2
<1>4. least \subseteq pre(least)
  <2> SUFFICES pre(least) \in SUBSET D /\ pre(pre(least)) \subseteq pre(least)
    BY <1>2
  <2>1. pre(least) \in SUBSET D
    OBVIOUS
  <2> HIDE DEF pre, least
  <2> QED BY <1>1, <1>3, <2>1
<1>5. ASSUME NEW w \in D PROVE f[w] = body(f, w)
  <2>1. f[w] = (w \in least) /\ (w \in least <=> w \in pre(least))
    BY <1>3, <1>4
  <2>2. \A i \in DOMAIN Entries(w) : f[Entries(w)[i].value] = (Entries(w)[i].value \in least)
    BY EntryFacts
  <2>3. w \in pre(least) <=> body(f, w)
    <3> HIDE DEF f, least
    <3> QED BY <2>2
  <2> HIDE DEF f, least, pre, body
  <2>4. f[w] <=> body(f, w)
    BY <2>1, <2>3
  <2>5. f[w] \in BOOLEAN /\ body(f, w) \in BOOLEAN
    BY <2>1 DEF body
  <2> QED BY <2>4, <2>5
<1>6. f = [w \in D |-> body(f, w)]
  <2>1. f = [w \in D |-> f[w]]
    OBVIOUS
  <2> HIDE DEF f, body
  <2> QED BY <1>5, <2>1
<1> HIDE DEF f
<1>7. UnknownInSlices = [w \in D |-> body(UnknownInSlices, w)]
  BY <1>6 DEF UnknownInSlices
<1> QED BY <1>7

(* While the call runs, only slices are around: the unknown type is among  *)
(* the items a frame has still to build, or in the value that is next, or  *)
(* has become an error.                                                    *)
SlicesUpTo(k) == \A j \in 1..k : Values[frames[j].value].kind = "slice"

UnknownToCome ==
    \E k \in 1..Len(frames) :
        /\ SlicesUpTo(k)
        /\ \E i \in frames[k].left : UnknownInSlices[Entries(frames[k].value)[i].value]

UnknownIsNext == SlicesUpTo(Len(frames)) /\ call # NoCall /\ UnknownInSlices[call.value]

UnknownIsError ==
    /\ SlicesUpTo(Len(frames)) /\ call = NoCall
    /\ ret = "error" \/ (frames = <<>> /\ ret = "panic")

ErrorsInv ==
    /\ began.value \in DOMAIN Values \cup {0}
    /\ began.value \in DOMAIN Values /\ UnknownInSlices[began.value] =>
          UnknownToCome \/ UnknownIsNext \/ UnknownIsError

(* The frames after a frame was added, and after one was left.             *)
LEMMA FramesFacts ==
    ASSUME CallsInv
    PROVE  /\ Len(frames) \in Nat /\ (frames = <<>> <=> Len(frames) = 0)
           /\ \A j \in 1..Len(frames) :
                 /\ frames[j] \in Frames
                 /\ frames[j].value \in DOMAIN Values
                 /\ frames[j].left \subseteq DOMAIN Entries(frames[j].value)
           /\ frames # <<>> => /\ Len(Popped) = Len(frames) - 1
                               /\ \A j \in 1..(Len(frames) - 1) : Popped[j] = frames[j]
           /\ \A f : /\ Len(Append(frames, f)) = Len(frames) + 1
                     /\ Append(frames, f)[Len(frames) + 1] = f
                     /\ \A j \in 1..Len(frames) : Append(frames, f)[j] = frames[j]
<1>1. Len(frames) \in Nat /\ (frames = <<>> <=> Len(frames) = 0)
  BY LenProperties, EmptySeq DEF CallsInv
<1>2. ASSUME NEW j \in 1..Len(frames)
      PROVE  /\ frames[j] \in Frames
             /\ frames[j].value \in DOMAIN Values
             /\ frames[j].left \subseteq DOMAIN Entries(frames[j].value)
  <2>1. frames[j] \in Frames
    BY ElementOfSeq DEF CallsInv
  <2> QED BY <2>1, FrameProperties DEF Entries
<1>3. frames # <<>> => /\ Len(Popped) = Len(frames) - 1
                       /\ \A j \in 1..(Len(frames) - 1) : Popped[j] = frames[j]
  <2> SUFFICES ASSUME frames # <<>>
               PROVE  /\ Len(Popped) = Len(frames) - 1
                      /\ \A j \in 1..(Len(frames) - 1) : Popped[j] = frames[j]
    OBVIOUS
  <2>1. \A j \in 1..(Len(frames) - 1) : frames[j] \in Frames
    BY <1>1, <1>2
  <2> DEFINE m == Len(frames) - 1
  <2>2. m \in Nat /\ m = Len(frames) - 1 /\ frames \in Seq(Frames)
    BY <1>1 DEF CallsInv
  <2>3. Popped = SubSeq(frames, 1, m)
    BY DEF Popped
  <2> HIDE DEF m
  <2>4. /\ Len(Popped) = IF 1 <= m THEN m - 1 + 1 ELSE 0
        /\ \A j \in 1..(m - 1 + 1) : Popped[j] = frames[1 + j - 1]
    BY <2>1, <2>2, <2>3, SubSeqProperties
  <2> QED BY <2>2, <2>4
<1>4. ASSUME NEW f
      PROVE  /\ Len(Append(frames, f)) = Len(frames) + 1
             /\ Append(frames, f)[Len(frames) + 1] = f
             /\ \A j \in 1..Len(frames) : Append(frames, f)[j] = frames[j]
  BY DEF CallsInv
<1> QED BY <1>1, <1>2, <1>3, <1>4

LEMMA StepErrors ==
    ASSUME CallsInv, ErrorsInv, [AutoNext]_allVars
    PROVE  ErrorsInv'
<1> DEFINE n == Len(frames)
<1>0. SUFFICES ASSUME AutoNext PROVE ErrorsInv'
  BY DEF allVars, auto, vars, ErrorsInv, UnknownToCome, UnknownIsNext, UnknownIsError, SlicesUpTo
<1>1. CASE OtherCall
  <2>1. began'.value = 0 /\ 0 \notin DOMAIN Values
    BY <1>1, ValuesAssumption DEF OtherCall, NotBegan
  <2> QED BY <2>1 DEF ErrorsInv
<1>2. ASSUME NEW v \in DOMAIN Values, AutoBuild(v)
      PROVE  ErrorsInv'
  <2>1. /\ frames' = <<>> /\ call' = [key |-> NoKey, value |-> v] /\ began'.value = v
        /\ call' # NoCall
    BY <1>2, ValuesAssumption DEF AutoBuild, Idle, NoCall
  <2> QED BY <2>1 DEF ErrorsInv, UnknownIsNext, SlicesUpTo
<1> SUFFICES ASSUME Activation, began' = began,
                    began.value \in DOMAIN Values, UnknownInSlices[began.value]
             PROVE  (UnknownToCome \/ UnknownIsNext \/ UnknownIsError)'
  <2>0. began.value \in DOMAIN Values \cup {0}
    BY DEF ErrorsInv
  <2>1. Activation => began' = began
    BY DEF Activation, AutoScalar, AutoString, AutoOther, EnterMap, EnterSlice, NextEntry, Leave,
           Return
  <2> QED BY <1>0, <1>1, <1>2, <2>0, <2>1 DEF ErrorsInv, AutoNext
<1>3. UnknownToCome \/ UnknownIsNext \/ UnknownIsError
  BY DEF ErrorsInv
<1>4. ASSUME Unwind, call' = NoCall
      PROVE  UnknownIsError'
  BY <1>4 DEF Unwind, Panic, UnknownIsError, SlicesUpTo
<1>5. ASSUME UNCHANGED frames, call' = NoCall, ret' = "error", SlicesUpTo(n)
      PROVE  UnknownIsError'
  BY <1>5 DEF UnknownIsError, SlicesUpTo
<1>6. ASSUME UnknownToCome, UNCHANGED frames
      PROVE  UnknownToCome'
  BY <1>6 DEF UnknownToCome, SlicesUpTo
<1>7. ASSUME EnterFrame, call # NoCall
      PROVE  /\ UnknownToCome => UnknownToCome'
             /\ UnknownIsNext /\ item.kind = "slice" => UnknownToCome'
  <2> DEFINE f == [value |-> call.value, left |-> DOMAIN item.entries]
  <2>1. frames' = Append(frames, f)
    BY <1>7 DEF EnterFrame
  <2>2. /\ n \in Nat /\ Len(frames') = n + 1 /\ frames'[n + 1] = f
        /\ \A j \in 1..n : frames'[j] = frames[j]
    BY <2>1, FramesFacts
  <2>3. ASSUME UnknownToCome PROVE UnknownToCome'
    <3>1. PICK k \in 1..n : /\ SlicesUpTo(k)
                            /\ \E i \in frames[k].left :
                                  UnknownInSlices[Entries(frames[k].value)[i].value]
      BY <2>3 DEF UnknownToCome
    <3>2. k \in 1..Len(frames') /\ frames'[k] = frames[k] /\ \A j \in 1..k : frames'[j] = frames[j]
      BY <2>2
    <3> QED BY <3>1, <3>2 DEF UnknownToCome, SlicesUpTo
  <2>4. ASSUME UnknownIsNext, item.kind = "slice" PROVE UnknownToCome'
    <3>1. call.value \in DOMAIN Values /\ UnknownInSlices[call.value]
      BY <1>7, <2>4 DEF UnknownIsNext, CallsInv, Calls
    <3>2. \E i \in DOMAIN item.entries : UnknownInSlices[Entries(call.value)[i].value]
      BY <2>4, <3>1, UnknownInSlicesDef DEF item, Entries
    <3>3. f.value = call.value /\ f.left = DOMAIN item.entries /\ Values[f.value].kind = "slice"
      BY <2>4 DEF item
    <3> HIDE DEF f
    <3>4. \A j \in 1..(n + 1) : Values[frames'[j].value].kind = "slice"
      BY <2>2, <2>4, <3>3 DEF UnknownIsNext, SlicesUpTo
    <3>5. n + 1 \in 1..Len(frames')
      BY <2>2
    <3> QED BY <2>2, <3>2, <3>3, <3>4, <3>5 DEF UnknownToCome, SlicesUpTo
  <2> QED BY <2>3, <2>4
<1>8. CASE AutoScalar
  <2>1. ~UnknownIsNext
    BY <1>8, UnknownInSlicesDef DEF AutoScalar, UnknownIsNext, item, CallsInv, Calls
  <2>2. UnknownToCome /\ UNCHANGED frames
    BY <1>3, <1>8, <2>1 DEF AutoScalar, UnknownIsError
  <2> QED BY <1>6, <2>2
<1>9. CASE AutoString
  <2>1. ~UnknownIsNext
    BY <1>9, UnknownInSlicesDef DEF AutoString, UnknownIsNext, item, CallsInv, Calls
  <2>2. UnknownToCome /\ call' = NoCall /\ (Unwind \/ UNCHANGED frames)
    BY <1>3, <1>9, <2>1 DEF AutoString, UnknownIsError, Return
  <2> QED BY <1>4, <1>6, <2>2
<1>10. CASE AutoOther
  <2>1. ret' = "error" /\ call' = NoCall /\ UNCHANGED frames /\ call # NoCall
    BY <1>10 DEF AutoOther, Fail, Return
  <2> QED BY <1>3, <1>5, <1>6, <2>1 DEF UnknownIsNext, UnknownIsError
<1>11. CASE EnterMap
  <2>1. ~UnknownIsNext
    BY <1>11, UnknownInSlicesDef DEF EnterMap, UnknownIsNext, item, CallsInv, Calls
  <2>2. UnknownToCome /\ EnterFrame /\ call # NoCall
    BY <1>3, <1>11, <2>1 DEF EnterMap, UnknownIsError
  <2> QED BY <1>7, <2>2
<1>12. CASE EnterSlice
  <2>1. call # NoCall /\ item.kind = "slice" /\ call' = NoCall
    BY <1>12 DEF EnterSlice, Return
  <2>2. CASE EnterFrame
    BY <1>3, <1>7, <2>1, <2>2 DEF UnknownIsError
  <2>3. CASE ret' = "error" /\ UNCHANGED frames
    BY <1>3, <1>5, <1>6, <2>1, <2>3 DEF UnknownIsNext, UnknownIsError
  <2> QED BY <1>4, <1>12, <2>1, <2>2, <2>3 DEF EnterSlice
<1>13. ASSUME NEW i, NextEntry(i)
       PROVE  (UnknownToCome \/ UnknownIsNext)'
  <2>1. /\ call = NoCall /\ frames # <<>> /\ ~Failed /\ i \in Top.left
        /\ call' = Values[Top.value].entries[i]
        /\ frames' = [frames EXCEPT ![n].left = @ \ {i}]
    BY <1>13 DEF NextEntry, Waiting
  <2>2. n \in 1..n /\ n \in Nat /\ DOMAIN frames = 1..n
    BY <2>1, TopType, FramesFacts, LenProperties DEF CallsInv
  <2>3. ~UnknownIsError
    <3>1. UnknownIsError => TopKind = "slice" /\ ret = "error"
      BY <2>1, <2>2 DEF UnknownIsError, SlicesUpTo, TopKind, Top
    <3> QED BY <2>1, <3>1 DEF Failed
  <2>4. PICK k \in 1..n : /\ SlicesUpTo(k)
                          /\ \E l \in frames[k].left :
                                UnknownInSlices[Entries(frames[k].value)[l].value]
    BY <1>3, <2>1, <2>3 DEF UnknownIsNext, UnknownToCome
  <2>5. /\ Len(frames') = n
        /\ \A j \in 1..n : frames'[j].value = frames[j].value
        /\ \A j \in 1..n : j # n => frames'[j] = frames[j]
        /\ frames'[n].left = Top.left \ {i}
    <3>1. Top \in Frames /\ \A j \in 1..n : frames[j] \in Frames
      BY <2>1, TopType, FramesFacts
    <3> DEFINE g == [Top EXCEPT !.left = @ \ {i}]
    <3>2. frames' = [frames EXCEPT ![n] = g]
      BY <2>1, <2>2 DEF Top
    <3>3. g.value = Top.value /\ g.left = Top.left \ {i}
      BY <3>1 DEF Frames
    <3> HIDE DEF g
    <3>4. g \in Frames
      BY <3>1, FrameProperties DEF g
    <3>5. Len(frames') = n /\ \A j \in 1..n : frames'[j] = IF j = n THEN g ELSE frames[j]
      BY <2>2, <3>2, <3>4, ExceptSeq DEF CallsInv
    <3> QED BY <2>2, <3>3, <3>5 DEF Top
  <2>6. CASE k # n \/ \E l \in frames[k].left \ {i} :
                          UnknownInSlices[Entries(frames[k].value)[l].value]
    <3>1. \E l \in frames'[k].left : UnknownInSlices[Entries(frames'[k].value)[l].value]
      BY <2>4, <2>5, <2>6 DEF Top
    <3>2. SlicesUpTo(k)'
      BY <2>4, <2>5 DEF SlicesUpTo
    <3> QED BY <2>4, <2>5, <3>1, <3>2 DEF UnknownToCome
  <2>7. CASE k = n /\ UnknownInSlices[Entries(frames[k].value)[i].value]
    <3>1. call' = Entries(frames[n].value)[i]
      BY <2>1 DEF Entries, Top
    <3>2. call'.value \in DOMAIN Values
      BY <2>1, <2>2, <3>1, FramesFacts, EntryFacts DEF Top
    <3>3. call' # NoCall
      BY <3>2, ValuesAssumption DEF NoCall
    <3>4. SlicesUpTo(Len(frames))'
      BY <2>4, <2>5, <2>7 DEF SlicesUpTo
    <3> QED BY <2>7, <3>1, <3>3, <3>4 DEF UnknownIsNext
  <2> QED BY <2>4, <2>6, <2>7
<1>14. CASE Leave
  <2>1. call = NoCall /\ call' = NoCall /\ frames # <<>> /\ (Failed \/ Top.left = {})
    BY <1>14 DEF Leave, Waiting
  <2>2. n \in 1..n /\ n \in Nat
    BY <2>1, TopType, FramesFacts
  <2>3. CASE Unwind
    BY <1>4, <2>1, <2>3
  <2>4. CASE ret' = (IF Failed THEN "error" ELSE "ok") /\ frames' = Popped
    <3>1. /\ Len(frames') = n - 1 /\ \A j \in 1..(n - 1) : frames'[j] = frames[j]
      BY <2>1, <2>4, FramesFacts
    <3>2. CASE UnknownToCome
      <4>1. PICK k \in 1..n : /\ SlicesUpTo(k)
                              /\ \E l \in frames[k].left :
                                    UnknownInSlices[Entries(frames[k].value)[l].value]
        BY <3>2 DEF UnknownToCome
      <4>2. CASE k = n
        <5>1. ret' = "error"
          BY <2>1, <2>4, <4>1, <4>2 DEF Top
        <5>2. SlicesUpTo(Len(frames))'
          BY <2>2, <3>1, <4>1, <4>2 DEF SlicesUpTo
        <5> QED BY <2>1, <5>1, <5>2 DEF UnknownIsError
      <4>3. CASE k # n
        <5>1. k \in 1..(n - 1)
          BY <2>2, <4>3
        <5>2. k \in 1..Len(frames') /\ frames'[k] = frames[k] /\ SlicesUpTo(k)'
          BY <3>1, <4>1, <5>1 DEF SlicesUpTo
        <5> QED BY <4>1, <5>2 DEF UnknownToCome
      <4> QED BY <4>2, <4>3
    <3>3. CASE UnknownIsError
      <4>1. TopKind = "slice" /\ ret = "error"
        BY <2>1, <2>2, <3>3 DEF UnknownIsError, SlicesUpTo, TopKind, Top
      <4>2. ret' = "error"
        BY <2>4, <4>1 DEF Failed
      <4>3. SlicesUpTo(Len(frames))'
        BY <2>2, <3>1, <3>3 DEF SlicesUpTo, UnknownIsError
      <4> QED BY <2>1, <4>2, <4>3 DEF UnknownIsError
    <3> QED BY <1>3, <2>1, <3>2, <3>3 DEF UnknownIsNext
  <2> QED BY <1>14, <2>3, <2>4 DEF Leave
<1> QED BY <1>8, <1>9, <1>10, <1>11, <1>12, <1>13, <1>14 DEF Activation

(* Whatever is around it, in slices in slices an unknown type makes the    *)
(* call of AutoBuild fail.                                                 *)
THEOREM SlicesReportUnknown == AutoSpec => []SlicesPassErrors
<1>1. AutoInit => ErrorsInv
  BY ValuesAssumption DEF AutoInit, ErrorsInv, NotBegan
<1>2. CallsInv /\ ErrorsInv /\ [AutoNext]_allVars => ErrorsInv'
  BY StepErrors
<1>3. ErrorsInv /\ CallsInv  => SlicesPassErrors
  BY FramesFacts DEF ErrorsInv, SlicesPassErrors, Returned, Idle, UnknownToCome, UnknownIsNext,
                     UnknownIsError
<1> QED BY <1>1, <1>2, <1>3, AutoInvariance, PTL DEF AutoSpec

-----------------------------------------------------------------------------
(* What AutoBuild opens it closes again.                                   *)

LEMMA KeyedDef ==
    ASSUME NEW v \in DOMAIN Values
    PROVE  Keyed[v] <=> \A i \in DOMAIN Entries(v) :
              /\ Keyed[Entries(v)[i].value]
              /\ Values[v].kind = "map" /\ IsStructure(Entries(v)[i].value) =>
                    Entries(v)[i].key > 0
<1> DEFINE D == DOMAIN Values
           fine(w, i) == Values[w].kind = "map" /\ IsStructure(Entries(w)[i].value) =>
                            Entries(w)[i].key > 0
           body(f, w) == \A i \in DOMAIN Entries(w) : f[Entries(w)[i].value] /\ fine(w, i)
           pre(S) == {w \in D : \A i \in DOMAIN Entries(w) :
                                   Entries(w)[i].value \in S /\ fine(w, i)}
           most == UNION {S \in SUBSET D : S \subseteq pre(S)}
           f == [w \in D |-> w \in most]
<1>1. \A S, T : S \subseteq T => pre(S) \subseteq pre(T)
  <2> HIDE DEF fine
  <2> QED OBVIOUS
<1>2. \A S \in SUBSET D : S \subseteq pre(S) => S \subseteq most
  <2> HIDE DEF pre
  <2> QED OBVIOUS
<1>3. most \subseteq pre(most) /\ most \subseteq D
  <2> SUFFICES ASSUME NEW S \in SUBSET D, S \subseteq pre(S) PROVE S \subseteq pre(most)
    <3> HIDE DEF pre
    <3> QED OBVIOUS
  <2>1. S \subseteq most
    BY <1>2
  <2> HIDE DEF pre, most
  <2> QED BY <1>1, <2>1
<1>4. pre(most) \subseteq most
  <2>1. pre(most) \in SUBSET D
    OBVIOUS
  <2> HIDE DEF pre, most
  <2> QED BY <1>1, <1>2, <1>3, <2>1
<1>5. ASSUME NEW w \in D PROVE f[w] = body(f, w)
  <2>1. f[w] = (w \in most) /\ (w \in most <=> w \in pre(most))
    BY <1>3, <1>4
  <2>2. \A i \in DOMAIN Entries(w) : f[Entries(w)[i].value] = (Entries(w)[i].value \in most)
    BY EntryFacts
  <2>3. w \in pre(most) <=> body(f, w)
    <3> HIDE DEF f, most, fine
    <3> QED BY <2>2
  <2> HIDE DEF f, most, pre, body
  <2>4. f[w] <=> body(f, w)
    BY <2>1, <2>3
  <2>5. f[w] \in BOOLEAN /\ body(f, w) \in BOOLEAN
    BY <2>1 DEF body
  <2> QED BY <2>4, <2>5
<1>6. f = [w \in D |-> body(f, w)]
  <2>1. f = [w \in D |-> f[w]]
    OBVIOUS
  <2> HIDE DEF f, body
  <2> QED BY <1>5, <2>1
<1> HIDE DEF f
<1> DEFINE solves(g) == g = [w \in DOMAIN Values |->
                               \A i \in DOMAIN Entries(w) : LET e == Entries(w)[i] IN
                                  /\ g[e.value]
                                  /\ Values[w].kind = "map" /\ IsStructure(e.value) => e.key > 0]
<1>7. solves(f)
  BY <1>6
<1>8. Keyed = CHOOSE g : solves(g)
  BY DEF Keyed
<1>9. solves(Keyed)
  <2> HIDE DEF solves
  <2> QED BY <1>7, <1>8
<1> QED BY <1>9

(* Each frame has its structure on the stack, above those of the client.   *)
TypeOfValue(v) == IF Values[v].kind = "map" THEN MAP ELSE Values[v].vType

FrameIsOpen(j) ==
    /\ Values[frames[j].value].kind \in {"map", "slice"} /\ Keyed[frames[j].value]
    /\ structs[inProgress[Len(began.stack) + j]].vType = TypeOfValue(frames[j].value)

Nested ==
    /\ headIndex + 1 = Len(began.stack) + Len(frames)
    /\ \A i \in 1..Len(began.stack) : inProgress[i] = began.stack[i]
    /\ \A j \in 1..Len(frames) : FrameIsOpen(j)

AtStart ==
    /\ call = [key |-> NoKey, value |-> began.value] /\ frames = <<>>
    /\ inProgress = began.stack /\ HeadStructure = began.head /\ Len(structs) = began.size

(* The entry that is next can be started in the structure around it.       *)
Suits(f, c) ==
    /\ Keyed[c.value]
    /\ IsStructure(c.value) =>
          IF Values[f.value].kind = "map" THEN c.key > 0
          ELSE c.key = NoKey /\ Values[f.value].vType = VECTOR

Within == ret # "panic" /\ (call # NoCall => frames # <<>> /\ Suits(Top, call))

Applies == began.value # 0 /\ Keyed[began.value] /\ ValueIsTaken

NestInv ==
    /\ began.value \in DOMAIN Values \cup {0}
    /\ began.value # 0 => began.stack \in Seq(Nat \ {0}) /\ Len(began.stack) >= 1
    /\ Applies => Nested /\ (AtStart \/ Within)

LEMMA TypesStay ==
    ASSUME IInv, Shaped
    PROVE  \A id \in 1..Len(structs) : structs'[id].vType = structs[id].vType
  BY EditedDocProperties, ExtendedDocProperties DEF IInv, Shaped, Step

(* How the stack and the frames go together.                               *)
LEMMA NestedFacts ==
    ASSUME IInv, CallsInv, NestInv, Applies
    PROVE  /\ began.stack \in Seq(Nat \ {0}) /\ Len(began.stack) \in Nat \ {0}
           /\ Len(frames) \in Nat /\ headIndex \in Nat
           /\ \A j \in 1..Len(frames) :
                 inProgress[Len(began.stack) + j] \in 1..Len(structs)
           /\ headIndex + 1 = Len(began.stack) + Len(frames)
<1>1. /\ began.stack \in Seq(Nat \ {0}) /\ Len(began.stack) \in Nat \ {0}
      /\ Len(frames) \in Nat /\ headIndex \in Nat
  <2>1. began.stack \in Seq(Nat \ {0}) /\ Len(began.stack) >= 1
    BY DEF NestInv, Applies
  <2> QED BY <2>1, FramesFacts, LenProperties DEF IInv, TypeOK
<1>2. headIndex + 1 = Len(began.stack) + Len(frames)
  BY DEF NestInv, Nested
<1>3. \A i \in 1..(headIndex + 1) : inProgress[i] \in 1..Len(structs)
  BY DEF IInv, StackInv
<1>4. \A j \in 1..Len(frames) : Len(began.stack) + j \in 1..(headIndex + 1)
  BY <1>1, <1>2
<1> QED BY <1>1, <1>2, <1>3, <1>4

LEMMA NestedStays ==
    ASSUME IInv, CallsInv, NestInv, Applies, Shaped, SameStack, UNCHANGED <<frames, began>>
    PROVE  Nested'
<1>1. Nested
  BY DEF NestInv
<1>2. ASSUME NEW j \in 1..Len(frames) PROVE FrameIsOpen(j)'
  BY <1>1, <1>2, TypesStay, NestedFacts DEF Nested, FrameIsOpen, SameStack, TypeOfValue
<1> QED BY <1>1, <1>2 DEF Nested, SameStack

OpensFrame(f) ==
    /\ PushedStack /\ frames' = Append(frames, f)
    /\ Values[f.value].kind \in {"map", "slice"} /\ Keyed[f.value]
    /\ structs'[NextId].vType = TypeOfValue(f.value)

LEMMA NestedPushed ==
    ASSUME IInv, CallsInv, NestInv, Applies, Shaped, UNCHANGED began, NEW f, OpensFrame(f)
    PROVE  Nested'
<1>1. Nested
  BY DEF NestInv
<1>2. PICK l \in Nat \ {0}, n \in Nat : /\ l = Len(began.stack) /\ n = Len(frames)
                                         /\ headIndex \in Nat /\ headIndex + 1 = l + n
  BY NestedFacts
<1>3. /\ Len(frames') = n + 1 /\ frames'[n + 1] = f
      /\ \A j \in 1..n : frames'[j] = frames[j]
  BY <1>2, FramesFacts DEF OpensFrame
<1>4. /\ inProgress'[l + n + 1] = NextId /\ headIndex' = headIndex + 1
      /\ \A i \in 1..(l + n) : inProgress'[i] = inProgress[i]
  <2>1. NextId \in Nat \ {0} /\ inProgress \in Seq(Nat \ {0}) /\ Len(inProgress) = l + n
    BY <1>2, HeadType DEF IInv, TypeOK, NextId
  <2>2. inProgress' = Append(inProgress, NextId) /\ headIndex' = headIndex + 1
    BY DEF OpensFrame, PushedStack
  <2>3. /\ Append(inProgress, NextId)[Len(inProgress) + 1] = NextId
        /\ \A i \in 1..Len(inProgress) : Append(inProgress, NextId)[i] = inProgress[i]
    BY <2>1, AppendProperties
  <2> QED BY <2>1, <2>2, <2>3
<1>5. \A j \in 1..n : l + j \in 1..(l + n)
  BY <1>2
<1>6. ASSUME NEW j \in 1..n PROVE FrameIsOpen(j)'
  <2>1. FrameIsOpen(j) /\ frames'[j] = frames[j]
    BY <1>1, <1>2, <1>3, <1>5 DEF Nested
  <2>2. inProgress[l + j] \in 1..Len(structs) /\ inProgress'[l + j] = inProgress[l + j]
    BY <1>2, <1>4, <1>5, NestedFacts
  <2>3. structs'[inProgress[l + j]].vType = structs[inProgress[l + j]].vType
    BY <2>2, TypesStay
  <2> QED BY <1>2, <2>1, <2>2, <2>3 DEF FrameIsOpen, TypeOfValue
<1>7. FrameIsOpen(n + 1)'
  <2>1. l + (n + 1) = l + n + 1
    OBVIOUS
  <2> QED BY <1>2, <1>3, <1>4, <2>1 DEF FrameIsOpen, TypeOfValue, OpensFrame
<1>8. \A j \in 1..Len(frames') : j = n + 1 \/ j \in 1..n
  BY <1>2, <1>3
<1>9. \A j \in 1..Len(frames') : FrameIsOpen(j)'
  BY <1>6, <1>7, <1>8
<1>10. headIndex' + 1 = l + Len(frames')
  <2>1. headIndex' = headIndex + 1 /\ Len(frames') = n + 1
    BY <1>3, <1>4
  <2>2. headIndex + 1 = l + n
    BY <1>2
  <2>3. headIndex' + 1 = l + (n + 1)
    BY <2>1, <2>2
  <2> QED BY <2>1, <2>3
<1>11. \A i \in 1..l : inProgress'[i] = began.stack[i]
  BY <1>1, <1>2, <1>4 DEF Nested
<1> QED BY <1>2, <1>9, <1>10, <1>11 DEF Nested

LEMMA NestedPopped ==
    ASSUME IInv, CallsInv, NestInv, Applies, Shaped, PoppedStack, UNCHANGED began,
           frames # <<>>, frames' = Popped
    PROVE  Nested'
<1>1. Nested
  BY DEF NestInv
<1>2. PICK l \in Nat \ {0}, n \in Nat : /\ l = Len(began.stack) /\ n = Len(frames)
                                         /\ headIndex \in Nat /\ headIndex + 1 = l + n
  BY NestedFacts
<1>3. Len(frames') = n - 1 /\ \A j \in 1..(n - 1) : frames'[j] = frames[j]
  BY <1>2, FramesFacts
<1>4. headIndex' = headIndex - 1 /\ \A i \in 1..headIndex : inProgress'[i] = inProgress[i]
  <2>1. \A i \in 1..headIndex : inProgress[i] \in Nat \ {0}
    BY <1>2, ElementOfSeq DEF IInv, TypeOK
  <2>2. inProgress' = SubSeq(inProgress, 1, headIndex) /\ headIndex' = headIndex - 1
    BY DEF PoppedStack
  <2>3. \A i \in 1..(headIndex - 1 + 1) : SubSeq(inProgress, 1, headIndex)[i] = inProgress[1 + i - 1]
    BY <1>2, <2>1, SubSeqProperties
  <2> QED BY <1>2, <2>2, <2>3
<1>5. n # 0 /\ \A j \in 1..(n - 1) : j \in 1..n /\ l + j \in 1..headIndex
  BY <1>2, FramesFacts
<1>6. ASSUME NEW j \in 1..(n - 1) PROVE FrameIsOpen(j)'
  <2>1. FrameIsOpen(j) /\ frames'[j] = frames[j]
    BY <1>1, <1>2, <1>3, <1>5 DEF Nested
  <2>2. inProgress[l + j] \in 1..Len(structs) /\ inProgress'[l + j] = inProgress[l + j]
    BY <1>2, <1>4, <1>5, NestedFacts
  <2>3. structs'[inProgress[l + j]].vType = structs[inProgress[l + j]].vType
    BY <2>2, TypesStay
  <2> QED BY <1>2, <2>1, <2>2, <2>3 DEF FrameIsOpen, TypeOfValue
<1>7. headIndex' + 1 = l + Len(frames')
  BY <1>2, <1>3, <1>4
<1>8. \A i \in 1..l : i \in 1..headIndex
  BY <1>2, <1>5
<1>9. \A i \in 1..l : inProgress'[i] = began.stack[i]
  BY <1>1, <1>2, <1>4, <1>8 DEF Nested
<1> QED BY <1>2, <1>3, <1>6, <1>7, <1>9 DEF Nested

(* A key that is not empty a map always takes.                             *)
LEMMA KeyIsTaken ==
    ASSUME IInv, ToldInv, HeadStructure.vType = MAP, NEW name \in Nat, name # 0
    PROVE  CanStartWithKey(name)
<1> DEFINE k == NewKey(HeadStructure, name)
<1>1. HeadStructure \in Structure /\ getHead \in 1..Len(structs)
  BY HeadType DEF IInv
<1>2. k.name = name /\ k.obj = Len(HeadStructure.keys) + 1
  BY DEF NewKey
<1>3. HeadStructure.keys \in Seq(Key) /\ Len(HeadStructure.keys) \in Nat
      /\ DOMAIN HeadStructure.keys = 1..Len(HeadStructure.keys)
  BY <1>1, LenProperties DEF Structure
<1> HIDE DEF k
<1>4. KeysTold(HeadStructure)
  BY <1>1 DEF ToldInv, Told, HeadStructure
<1>5. ASSUME NEW i \in DOMAIN HeadStructure.keys PROVE ~Equals(HeadStructure.keys[i], k)
  <2>1. HeadStructure.keys[i] \in Key
    BY <1>3, ElementOfSeq
  <2>2. HeadStructure.keys[i].obj <= Len(HeadStructure.keys) /\ HeadStructure.keys[i].obj \in Nat
    BY <1>3, <1>4, <2>1 DEF KeysTold, Key
  <2> QED BY <1>2, <1>3, <2>2 DEF Equals
<1>6. TakesKey(HeadStructure, k)
  BY <1>2, <1>5 DEF TakesKey, IsMap, containsKey
<1> QED BY <1>6 DEF CanStartWithKey, k

(* A structure inside the value, or the value itself, is not refused.      *)
LEMMA IsTaken ==
    ASSUME IInv, CallsInv, ToldInv, NestInv, Applies, call # NoCall, IsStructure(call.value)
    PROVE  TakesItem
<1>1. CASE AtStart
  <2>1. Len(began.stack) = headIndex + 1 /\ getHead = began.stack[Len(began.stack)]
    BY <1>1 DEF AtStart, getHead, IInv, TypeOK
  <2>2. call.key = NoKey /\ call.value = began.value /\ NextId = began.size + 1
        /\ HeadStructure = began.head
    BY <1>1 DEF AtStart, NextId
  <2>3. item.kind \in {"string", "map", "slice"} /\ item = Values[began.value]
    BY <2>2 DEF IsStructure, item
  <2>4. TypeOfItem = CASE item.kind = "string" -> STR [] item.kind = "map" -> MAP
                       [] OTHER -> item.vType
    BY DEF TypeOfItem
  <2>5. TakesOffset(getHead, HeadStructure, OffsetTo(NextId, TypeOfItem))
    BY <2>1, <2>2, <2>3, <2>4 DEF Applies, ValueIsTaken
  <2> QED BY <2>2, <2>5 DEF TakesItem, CanStart
<1>2. CASE Within
  <2>1. frames # <<>> /\ Suits(Top, call) /\ Nested
    BY <1>2 DEF Within, NestInv
  <2>2. getHead = inProgress[Len(began.stack) + Len(frames)] /\ Len(frames) \in 1..Len(frames)
    BY <2>1, NestedFacts, TopType DEF getHead
  <2>3. HeadStructure.vType = TypeOfValue(Top.value) /\ Values[Top.value].kind \in {"map", "slice"}
    BY <2>1, <2>2 DEF Nested, FrameIsOpen, HeadStructure, Top
  <2>4. CASE Values[Top.value].kind = "map"
    <3>1. HeadStructure.vType = MAP /\ call.key > 0
      BY <2>1, <2>3, <2>4 DEF TypeOfValue, Suits
    <3>2. call.key \in Nat /\ call.key # 0 /\ call.key # NoKey
      BY <3>1 DEF CallsInv, Calls, NoKey
    <3> QED BY <3>1, <3>2, KeyIsTaken DEF TakesItem
  <2>5. CASE Values[Top.value].kind # "map"
    <3>1. HeadStructure.vType = VECTOR /\ call.key = NoKey
      BY <2>1, <2>3, <2>5 DEF TypeOfValue, Suits
    <3>2. getHead # Root
      BY <3>1 DEF IInv, RootInv, HeadStructure, VECTOR, NULL
    <3>3. allows(HeadStructure, OffsetTo(NextId, TypeOfItem))
      BY <3>1 DEF allows, allowsElemType, allowsElemSize, OffsetTo, isUintTyped, isIntTyped,
             isFloatTyped, isBoolTyped, isBlobLike, isFull, isScalar, isTuple, isTriple, isQuad,
             VECTOR, VECTOR_KEY, VECTOR_STRING_DEPRECATED, VECTOR_INT, VECTOR_UINT, VECTOR_FLOAT,
             VECTOR_BOOL, BLOB, STR, KEY, INDIRECT_INT, INDIRECT_UINT, INDIRECT_FLOAT,
             VECTOR_INT2, VECTOR_UINT2, VECTOR_FLOAT2, VECTOR_INT3, VECTOR_UINT3, VECTOR_FLOAT3,
             VECTOR_INT4, VECTOR_UINT4, VECTOR_FLOAT4
    <3>4. CanStart(TypeOfItem)
      BY <3>1, <3>2, <3>3 DEF CanStart, TakesOffset, VECTOR, MAP
    <3> QED BY <3>1, <3>4 DEF TakesItem
  <2> QED BY <2>4, <2>5
<1> QED BY <1>1, <1>2 DEF NestInv

(* Outside the activations the state of AutoBuild is that of a new call.   *)
LEMMA StartsOrRests ==
    ASSUME IInv, NestInv, ~Activation, [AutoNext]_allVars
    PROVE  NestInv'
<1>1. CASE OtherCall
  <2>1. began'.value = 0
    BY <1>1 DEF OtherCall, NotBegan
  <2> QED BY <2>1 DEF NestInv, Applies
<1>2. ASSUME NEW v \in DOMAIN Values, AutoBuild(v)
      PROVE  NestInv'
  <2>1. /\ call' = [key |-> NoKey, value |-> v] /\ frames' = <<>> /\ UNCHANGED vars
        /\ began' = [value |-> v, stack |-> inProgress, head |-> HeadStructure,
                     size |-> Len(structs)]
    BY <1>2 DEF AutoBuild, Idle
  <2>2. inProgress \in Seq(Nat \ {0}) /\ Len(inProgress) = headIndex + 1 /\ headIndex \in Nat
    BY DEF IInv, TypeOK
  <2>3. AtStart'
    BY <2>1 DEF AtStart, vars, HeadStructure, getHead
  <2>4. Nested'
    <3>1. Len(frames') = 0 /\ headIndex' + 1 = Len(inProgress) /\ began'.stack = inProgress
          /\ inProgress' = inProgress
      BY <2>1, <2>2 DEF vars
    <3> QED BY <2>2, <3>1 DEF Nested
  <2>5. v \in DOMAIN Values /\ began'.value = v /\ began'.stack = inProgress
        /\ Len(inProgress) >= 1
    BY <2>1, <2>2
  <2> QED BY <2>2, <2>3, <2>4, <2>5 DEF NestInv
<1>3. CASE UNCHANGED allVars
  BY <1>3 DEF allVars, auto, vars, NestInv, Applies, ValueIsTaken, Nested, AtStart, Within, Suits,
              Top, FrameIsOpen, HeadStructure, getHead
<1> QED BY <1>1, <1>2, <1>3 DEF AutoNext

(* The value is the first thing that is keyed, the entries come from it.   *)
LEMMA CallIsKeyed ==
    ASSUME CallsInv, NestInv, Applies, call # NoCall
    PROVE  call.value \in DOMAIN Values /\ Keyed[call.value]
  BY DEF CallsInv, Calls, NestInv, AtStart, Within, Suits, Applies

LEMMA EntryEnters ==
    ASSUME IInv, CallsInv, NestInv, Applies, Shaped, UNCHANGED began, call # NoCall,
           item.kind \in {"map", "slice"}, EnterFrame, PushedStack,
           structs'[NextId].vType = TypeOfItem
    PROVE  Nested'
<1> DEFINE f == [value |-> call.value, left |-> DOMAIN item.entries]
<1>1. f.value = call.value /\ frames' = Append(frames, f)
  BY DEF EnterFrame
<1> HIDE DEF f
<1>2. Keyed[call.value] /\ item = Values[call.value]
  BY CallIsKeyed DEF item
<1>3. TypeOfItem = TypeOfValue(call.value)
  BY <1>2 DEF TypeOfItem, TypeOfValue
<1>4. OpensFrame(f)
  BY <1>1, <1>2, <1>3 DEF OpensFrame
<1> QED BY <1>4, NestedPushed

(* What an activation does to the stack.                                   *)
LEMMA ActivationNests ==
    ASSUME IInv, CallsInv, ToldInv, NestInv, Applies, Activation
    PROVE  Nested' /\ Within'
<1>0. TypeOK /\ StackInv /\ Nested /\ (AtStart \/ Within)
      /\ began.value \in DOMAIN Values /\ Keyed[began.value] /\ UNCHANGED began
  <2>1. Activation => UNCHANGED began
    BY DEF Activation, AutoScalar, AutoString, AutoOther, EnterMap, EnterSlice, NextEntry, Leave,
           Return
  <2> QED BY <2>1 DEF NestInv, Applies, IInv
<1>1. ASSUME call # NoCall, Shaped, SameStack, UNCHANGED frames, call' = NoCall, ret' # "panic"
      PROVE  Nested' /\ Within'
  <2>1. Nested'
    BY <1>0, <1>1, NestedStays
  <2> QED BY <1>1, <2>1 DEF Within
<1>2. ASSUME Fail, ret' = "error"
      PROVE  Shaped /\ SameStack
  BY <1>2, FailShaped DEF Fail, doc, SameStack
<1>3. ASSUME call # NoCall, IsStructure(call.value)
      PROVE  TakesItem
  BY <1>3, IsTaken
<1>4. CASE AutoScalar
  <2>1. call # NoCall /\ call' = NoCall /\ UNCHANGED frames /\ ret' \in {"ok", "error"}
    BY <1>4 DEF AutoScalar, Return, Fail
  <2>2. SameStack
    BY <1>4 DEF AutoScalar, Fail, doc, SameStack
  <2>3. Shaped
    <3>1. CASE Fail
      BY <3>1, FailShaped
    <3>2. CASE ~Fail
      <4>1. /\ structs' = [structs EXCEPT ![getHead] = HeadWithScalar] /\ ret' = "ok"
            /\ finished' \in BOOLEAN
        BY <1>0, <1>4, <3>2 DEF AutoScalar, Finish, TypeOK
      <4>2. Grown(HeadWithScalar)
        BY <1>4, ScalarItem DEF AutoScalar
      <4> QED BY <2>2, <4>1, <4>2 DEF Shaped, Step, EditedDoc
    <3> QED BY <3>1, <3>2
  <2> QED BY <1>1, <2>1, <2>2, <2>3
<1>5. CASE AutoString
  <2>1. call # NoCall /\ item.kind = "string" /\ call' = NoCall
    BY <1>5 DEF AutoString, Return
  <2>2. TakesItem
    BY <1>3, <2>1 DEF IsStructure, item
  <2>3. PushAndEnd(HeadWithItem, AppendText(Empty(STR), item.text)) /\ ret' = "ok"
        /\ UNCHANGED frames
    BY <1>5, <2>2 DEF AutoString, Unwind
  <2>4. ExtendedDoc /\ SameStack /\ finished' \in BOOLEAN
    BY <1>0, <2>1, <2>3, StructureItem, PushAndEndShape
  <2>5. Shaped
    BY <2>3, <2>4 DEF Shaped, Step
  <2> QED BY <1>1, <2>1, <2>3, <2>4, <2>5
<1>6. CASE AutoOther
  <2>1. call # NoCall /\ call' = NoCall /\ UNCHANGED frames /\ Fail /\ ret' = "error"
    BY <1>6 DEF AutoOther, Return, Fail
  <2> QED BY <1>1, <1>2, <2>1
<1>7. ASSUME call # NoCall, item.kind \in {"map", "slice"}, call' = NoCall, ret' = "ok",
             Push(HeadWithItem, Empty(TypeOfItem)), EnterFrame
      PROVE  Nested' /\ Within'
  <2>1. ExtendedDoc /\ PushedStack /\ finished' \in BOOLEAN
    BY <1>0, <1>7, StructureItem, PushShape
  <2>2. Shaped
    BY <1>7, <2>1 DEF Shaped, Step
  <2>3. structs'[NextId].vType = TypeOfItem
    <3> DEFINE q == [structs EXCEPT ![getHead] = HeadWithItem]
    <3>1. HeadWithItem \in Structure /\ structs \in Seq(Structure) /\ getHead \in 1..Len(structs)
          /\ Empty(TypeOfItem) \in Structure
      BY <1>0, <1>7, StructureItem, HeadType DEF Grown, TypeOK
    <3>2. q \in Seq(Structure) /\ Len(q) = Len(structs)
      BY <3>1, ExceptSeq
    <3>3. structs' = Append(q, Empty(TypeOfItem))
      BY <1>7 DEF Push
    <3> HIDE DEF q
    <3>4. structs'[Len(q) + 1] = Empty(TypeOfItem)
      BY <3>1, <3>2, <3>3, AppendProperties
    <3> QED BY <3>2, <3>4 DEF NextId, Empty
  <2>4. Nested'
    BY <1>0, <1>7, <2>1, <2>2, <2>3, EntryEnters
  <2> QED BY <1>7, <2>4 DEF Within
<1>8. CASE EnterMap
  <2>1. call # NoCall /\ item.kind = "map" /\ call' = NoCall /\ ret' = "ok" /\ EnterFrame
    BY <1>8 DEF EnterMap, Return
  <2>2. TakesItem
    BY <1>3, <2>1 DEF IsStructure, item
  <2>3. Push(HeadWithItem, Empty(TypeOfItem))
    BY <1>8, <2>1, <2>2 DEF EnterMap, TypeOfItem
  <2> QED BY <1>7, <2>1, <2>3
<1>9. CASE EnterSlice
  <2>1. call # NoCall /\ item.kind = "slice" /\ call' = NoCall
    BY <1>9 DEF EnterSlice, Return
  <2>2. TakesItem
    BY <1>3, <2>1 DEF IsStructure, item
  <2>3. Push(HeadWithItem, Empty(TypeOfItem)) /\ ret' = "ok" /\ EnterFrame
    BY <1>9, <2>1, <2>2 DEF EnterSlice, TypeOfItem, Unwind
  <2> QED BY <1>7, <2>1, <2>3
<1>10. ASSUME NEW i, NextEntry(i)
       PROVE  Nested' /\ Within'
  <2>1. /\ call = NoCall /\ frames # <<>> /\ i \in Top.left
        /\ call' = Values[Top.value].entries[i] /\ UNCHANGED vars
        /\ frames' = [frames EXCEPT ![Len(frames)].left = @ \ {i}]
    BY <1>10 DEF NextEntry, Waiting
  <2>2. PICK n \in Nat : n = Len(frames) /\ n \in 1..n
    BY <2>1, TopType, FramesFacts
  <2>3. Len(frames') = n /\ \A j \in 1..n : frames'[j].value = frames[j].value
    <3> DEFINE g == [Top EXCEPT !.left = @ \ {i}]
    <3>1. Top \in Frames /\ g \in Frames /\ g.value = Top.value
      BY <2>1, TopType, FrameProperties DEF Frames
    <3>2. frames' = [frames EXCEPT ![n] = g]
      BY <2>1, <2>2 DEF Top
    <3> HIDE DEF g
    <3>3. Len(frames') = n /\ \A j \in 1..n : frames'[j] = IF j = n THEN g ELSE frames[j]
      BY <2>2, <3>1, <3>2, ExceptSeq DEF CallsInv
    <3> QED BY <2>2, <3>1, <3>3 DEF Top
  <2>4. Nested'
    <3>1. \A j \in 1..n : FrameIsOpen(j)'
      BY <1>0, <2>1, <2>2, <2>3 DEF Nested, FrameIsOpen, vars, TypeOfValue
    <3> QED BY <1>0, <2>1, <2>2, <2>3, <3>1 DEF Nested, vars
  <2>5. Within
    BY <1>0, <2>1 DEF AtStart
  <2>6. Top.value \in DOMAIN Values /\ i \in DOMAIN Entries(Top.value)
        /\ Values[Top.value].kind \in {"map", "slice"} /\ Keyed[Top.value]
    BY <1>0, <2>1, <2>2, FramesFacts DEF Nested, FrameIsOpen, Top
  <2>7. Top'.value = Top.value /\ frames' # <<>>
    BY <2>2, <2>3 DEF Top
  <2>8. Suits(Top, Entries(Top.value)[i])
    <3> DEFINE e == Entries(Top.value)[i]
    <3>1. Keyed[e.value]
      BY <2>6, KeyedDef
    <3>2. Values[Top.value].kind = "map" /\ IsStructure(e.value) => e.key > 0
      BY <2>6, KeyedDef
    <3>3. Values[Top.value].kind = "slice" =>
             e.key = NoKey /\ (Values[Top.value].vType # VECTOR => Values[e.value].kind = "scalar")
      BY <2>6, ValuesAssumption DEF Entries
    <3>4. IsStructure(e.value) => Values[e.value].kind # "scalar"
      BY DEF IsStructure
    <3> HIDE DEF e
    <3>5. Suits(Top, e)
      BY <2>6, <3>1, <3>2, <3>3, <3>4 DEF Suits
    <3> QED BY <3>5 DEF e
  <2>9. Suits(Top', call')
    BY <2>1, <2>7, <2>8 DEF Suits, Entries
  <2> QED BY <2>1, <2>4, <2>5, <2>7, <2>9 DEF Within, vars
<1>11. CASE Leave
  <2>1. call = NoCall /\ call' = NoCall /\ frames # <<>>
    BY <1>11 DEF Leave, Waiting
  <2>2. headIndex >= 1
    <3>1. Len(frames) # 0
      BY <2>1, FramesFacts
    <3> QED BY <3>1, NestedFacts
  <2>3. Pop /\ ret' \in {"ok", "error"} /\ frames' = Popped
    BY <1>11, <2>2, NestedFacts DEF Leave, Unwind
  <2>4. Shaped /\ PoppedStack
    BY <1>0, <2>3, PopShaped, PopShape
  <2>5. Nested'
    BY <1>0, <2>1, <2>3, <2>4, NestedPopped
  <2> QED BY <2>1, <2>3, <2>5 DEF Within
<1> QED BY <1>4, <1>5, <1>6, <1>8, <1>9, <1>10, <1>11 DEF Activation

LEMMA StepNests ==
    ASSUME IInv, CallsInv, ToldInv, NestInv, [AutoNext]_allVars
    PROVE  NestInv'
<1>1. CASE ~Activation
  BY <1>1, StartsOrRests
<1>2. CASE Activation
  <2>1. UNCHANGED began
    BY <1>2 DEF Activation, AutoScalar, AutoString, AutoOther, EnterMap, EnterSlice, NextEntry,
                Leave, Return
  <2>2. Applies' = Applies
    BY <2>1 DEF Applies, ValueIsTaken
  <2> QED BY <1>2, <2>1, <2>2, ActivationNests DEF NestInv
<1> QED BY <1>1, <1>2

(* AutoBuild drops errors, ends structures by deferred calls and returns   *)
(* in the middle; whatever the value, its nesting and the order of its     *)
(* maps, it leaves the client in the structure it was called in.           *)
THEOREM AutoRestoresStack == AutoSpec => []StackIsRestored
<1>1. ASSUME AutoInit PROVE ToldInv /\ NestInv
  <2>1. ToldInv
    BY <1>1, InitTold DEF AutoInit
  <2>2. NestInv
    BY <1>1 DEF AutoInit, NestInv, NotBegan, Applies
  <2> QED BY <2>1, <2>2
<1>2. ASSUME IInv, CallsInv, ToldInv, NestInv, [AutoNext]_allVars
      PROVE  ToldInv' /\ NestInv'
  <2>1. ToldInv'
    <3>1. CASE AutoNext
      <4>1. Shaped \/ UNCHANGED vars
        BY <1>2, <3>1, AutoShape
      <4> QED BY <1>2, <4>1, ShapedTold DEF vars, ToldInv
    <3>2. CASE UNCHANGED allVars
      BY <1>2, <3>2 DEF allVars, vars, ToldInv
    <3> QED BY <1>2, <3>1, <3>2
  <2> QED BY <1>2, <2>1, StepNests
<1>3. ASSUME IInv, CallsInv, NestInv PROVE StackIsRestored
  <2> SUFFICES ASSUME Returned, Applies PROVE inProgress = began.stack /\ ret # "panic"
    BY DEF StackIsRestored, Applies, Returned
  <2>1. call = NoCall /\ Len(frames) = 0
    BY FramesFacts, <1>3 DEF Returned, Idle
  <2>2. ~AtStart
    BY <2>1 DEF AtStart, NoCall, Applies
  <2>3. Nested /\ ret # "panic"
    BY <1>3, <2>2 DEF NestInv, Within
  <2>4. Len(inProgress) = Len(began.stack) /\ inProgress \in Seq(Nat \ {0})
        /\ began.stack \in Seq(Nat \ {0})
    BY <1>3, <2>1, <2>3, NestedFacts DEF IInv, TypeOK
  <2>5. \A i \in 1..Len(began.stack) : inProgress[i] = began.stack[i]
    BY <2>3 DEF Nested
  <2>6. inProgress = began.stack
    BY <2>4, <2>5, SeqEqual
  <2> QED BY <2>3, <2>6
<1> QED BY <1>1, <1>2, <1>3, AutoInvariance, PTL DEF AutoSpec

-----------------------------------------------------------------------------
(* Induction over numbers.                                                 *)

LEMMA LeastNat ==
    ASSUME NEW T, T \subseteq Nat, T # {}
    PROVE  \E x \in T : \A y \in T : x <= y
<1>1. PICK x \in T : \A y \in T : ~ (<<y, x>> \in OpToRel(<, Nat))
  BY NatLessThanWellFounded, WFMin
<1>2. \A y \in T : ~(y < x)
  BY <1>1 DEF OpToRel
<1> QED BY <1>2

LEMMA UpTo ==
    ASSUME NEW N \in Nat, NEW T, 0 \in T, \A n \in 0..(N - 1) : n \in T => n + 1 \in T
    PROVE  \A n \in 0..N : n \in T
<1> SUFFICES ASSUME NEW n \in 0..N, n \notin T PROVE FALSE
  OBVIOUS
<1> DEFINE missing == {m \in 0..N : m \notin T}
<1>1. missing \subseteq Nat /\ missing # {}
  OBVIOUS
<1>2. PICK m \in missing : \A k \in missing : m <= k
  BY <1>1, LeastNat
<1>3. m # 0 /\ m \in 1..N
  BY <1>2
<1>4. m - 1 \in T
  BY <1>2, <1>3
<1> QED BY <1>2, <1>3, <1>4

-----------------------------------------------------------------------------
(* The document under AutoBuild.                                           *)

(* What an item that becomes a structure is started as.                    *)
LEMMA ItemStarts ==
    ASSUME CallsInv, call # NoCall, item.kind \in {"string", "map", "slice"}
    PROVE  TypeOfItem \in Startable
<1>1. item.kind = "slice" => item.vType \in Startable
  <2>1. item.kind = "slice" => item.vType \in SliceTypes \cup ArrayTypes(Len(item.entries))
    BY ValuesAssumption DEF CallsInv, Calls, item
  <2> QED BY <2>1, SlicesStart
<1> QED BY <1>1 DEF TypeOfItem, Startable

LEMMA ItemForm ==
    ASSUME IInv, CallsInv, FormsInv, call # NoCall, item.kind \in {"string", "map", "slice"},
           TakesItem
    PROVE  NewHead(HeadWithItem, TypeOfItem) /\ NewStructure(Empty(TypeOfItem), TypeOfItem)
<1>1. TypeOfItem \in Startable
  BY ItemStarts
<1>2. NewStructure(Empty(TypeOfItem), TypeOfItem)
  BY <1>1, StartableFits
<1>3. CASE call.key = NoKey
  <2>1. CanStart(TypeOfItem)
    BY <1>3 DEF TakesItem
  <2> QED BY <1>1, <1>2, <1>3, <2>1, OffsetOK DEF HeadWithItem
<1>4. CASE call.key # NoKey
  <2>1. CanStartWithKey(call.key) /\ call.key \in Nat
    BY <1>4 DEF TakesItem, CallsInv, Calls
  <2> QED BY <1>1, <1>2, <1>4, <2>1, KeyedHeadOK DEF HeadWithItem
<1> QED BY <1>3, <1>4

LEMMA ScalarForm ==
    ASSUME IInv, CallsInv, FormsInv, call # NoCall, item.kind = "scalar", TakesScalar
    PROVE  KeptHead(HeadWithScalar)
<1>1. item.elem \in InlineElem
  BY ValuesAssumption DEF CallsInv, Calls, item
<1>2. CASE call.key = NoKey
  <2>1. TakesElement(getHead, HeadStructure, Inline(item.elem))
    BY <1>2 DEF TakesScalar
  <2> QED BY <1>1, <1>2, <2>1, ScalarOK DEF HeadWithScalar
<1>3. CASE call.key # NoKey
  <2>1. CanStartWithKey(call.key) /\ call.key \in Nat
    BY <1>3 DEF TakesScalar, CallsInv, Calls
  <2> QED BY <1>1, <1>3, <2>1, KeyedScalarOK DEF HeadWithScalar
<1> QED BY <1>2, <1>3

LEMMA AutoForms ==
    ASSUME IInv, CallsInv, FormsInv, AutoNext
    PROVE  FormStep
<1> USE DEF FormStep
<1>1. ASSUME Pop \/ Fail \/ Panic
      PROVE  FormStep
  BY <1>1 DEF Pop, Fail, Panic, doc
<1>2. ASSUME AutoScalar
      PROVE  FormStep
  <2>1. CASE Fail
    BY <1>1, <2>1
  <2>2. CASE ~Fail
    <3>1. structs' = [structs EXCEPT ![getHead] = HeadWithScalar] /\ TakesScalar
          /\ call # NoCall /\ item.kind = "scalar"
      BY <1>2, <2>2 DEF AutoScalar
    <3> QED BY <3>1, ScalarForm
  <2> QED BY <2>1, <2>2
<1>3. ASSUME AutoString
      PROVE  FormStep
  <2>1. CASE Unwind \/ Pop
    BY <1>1, <2>1 DEF Unwind
  <2>2. CASE ~Unwind /\ ~Pop
    <3>1. PushAndEnd(HeadWithItem, AppendText(Empty(STR), item.text)) /\ TakesItem
          /\ call # NoCall /\ item.kind = "string"
      BY <1>3, <2>2 DEF AutoString
    <3>2. NewHead(HeadWithItem, STR)
      BY <3>1, ItemForm DEF TypeOfItem
    <3>3. item.text \in [narrow : Nat, wide : Nat]
      BY <3>1, ValuesAssumption DEF CallsInv, Calls, item
    <3>4. NewStructure(AppendText(Empty(STR), item.text), STR)
      BY <3>3, NewText
    <3> QED BY <3>1, <3>2, <3>4 DEF PushAndEnd
  <2> QED BY <2>1, <2>2
<1>4. ASSUME AutoOther
      PROVE  FormStep
  BY <1>1, <1>4 DEF AutoOther
<1>5. ASSUME call # NoCall, item.kind \in {"map", "slice"}, TakesItem,
             Push(HeadWithItem, Empty(TypeOfItem))
      PROVE  FormStep
  BY <1>5, ItemForm DEF Push
<1>6. ASSUME EnterMap
      PROVE  FormStep
  <2>1. CASE UNCHANGED doc
    BY <2>1 DEF doc
  <2>2. CASE ~UNCHANGED doc
    <3>1. TakesItem /\ Push(HeadWithItem, Empty(TypeOfItem)) /\ call # NoCall /\ item.kind = "map"
      BY <1>6, <2>2 DEF EnterMap, TypeOfItem
    <3> QED BY <1>5, <3>1
  <2> QED BY <2>1, <2>2
<1>7. ASSUME EnterSlice
      PROVE  FormStep
  <2>1. CASE Unwind \/ Pop
    BY <1>1, <2>1 DEF Unwind
  <2>2. CASE ~Unwind /\ ~Pop
    <3>1. TakesItem /\ Push(HeadWithItem, Empty(TypeOfItem)) /\ call # NoCall /\ item.kind = "slice"
      BY <1>7, <2>2 DEF EnterSlice, TypeOfItem
    <3> QED BY <1>5, <3>1
  <2> QED BY <2>1, <2>2
<1>8. ASSUME Leave
      PROVE  FormStep
  BY <1>1, <1>8 DEF Leave, Unwind
<1>9. ASSUME NEW i, NextEntry(i)
      PROVE  FormStep
  BY <1>9 DEF NextEntry, vars
<1>10. ASSUME NEW v, AutoBuild(v)
       PROVE  FormStep
  BY <1>10 DEF AutoBuild, vars
<1>11. ASSUME OtherCall
       PROVE  FormStep
  BY <1>11, StepForms, SmallIsForm DEF OtherCall
<1> QED BY <1>2, <1>3, <1>4, <1>6, <1>7, <1>8, <1>9, <1>10, <1>11 DEF AutoNext, Activation

(* The document stays a tree of structures of the form of their types.     *)
LEMMA AutoKeepsForms ==
    ASSUME IInv, CallsInv, FormsInv, [AutoNext]_allVars
    PROVE  FormsInv'
<1>1. CASE AutoNext
  BY <1>1, AutoForms, FormStepKeeps
<1>2. CASE UNCHANGED allVars
  BY <1>2 DEF allVars, vars, FormsInv
<1> QED BY <1>1, <1>2


-----------------------------------------------------------------------------
(* What Described describes.                                               *)

KeptEntries(v) == {i \in DOMAIN Entries(v) : Entries(v)[i].key > 0}

(* The element e stands for w, where R has the structures for each value.  *)
Shown(R, e, w) ==
    IF Values[w].kind = "scalar" THEN e = Inline(Values[w].elem)
    ELSE ~isInline(e.type) /\ e.target \in R[w]

(* s has the entries I of the value v.                                     *)
HasItems(R, s, v, I) == \A i \in I : Shown(R, s.elems[i], Entries(v)[i].value)
HasEntries(R, s, v, I) ==
    \A i \in I : \E j \in DOMAIN s.elems :
        s.keys[j].name = Entries(v)[i].key /\ Shown(R, s.elems[j], Entries(v)[i].value)

IsValue(R, s, v) ==
    CASE Values[v].kind = "string" -> s = AppendText(Empty(STR), Values[v].text)
      [] Values[v].kind = "slice" ->
            /\ s.vType = Values[v].vType
            /\ Len(s.elems) = Len(Entries(v))
            /\ HasItems(R, s, v, DOMAIN Entries(v))
      [] Values[v].kind = "map" ->
            /\ s.vType = MAP
            /\ Len(s.elems) = Cardinality(KeptEntries(v))
            /\ HasEntries(R, s, v, KeptEntries(v))
      [] OTHER -> FALSE

(* The more structures there are for each value, the more stand for it.    *)
LEMMA ValuesGrow ==
    ASSUME NEW R, NEW Q, \A w \in DOMAIN Values : R[w] \subseteq Q[w]
    PROVE  /\ \A e, w : w \in DOMAIN Values /\ Shown(R, e, w) => Shown(Q, e, w)
           /\ \A s, v, I : v \in DOMAIN Values /\ I \subseteq DOMAIN Entries(v)
                              /\ HasEntries(R, s, v, I) => HasEntries(Q, s, v, I)
           /\ \A s, v, I : v \in DOMAIN Values /\ I \subseteq DOMAIN Entries(v)
                              /\ HasItems(R, s, v, I) => HasItems(Q, s, v, I)
<1>1. \A e, w : w \in DOMAIN Values /\ Shown(R, e, w) => Shown(Q, e, w)
  BY DEF Shown
<1>2. \A v \in DOMAIN Values : \A i \in DOMAIN Entries(v) : Entries(v)[i].value \in DOMAIN Values
  BY EntryFacts
<1>3. ASSUME NEW s, NEW v \in DOMAIN Values, NEW I, I \subseteq DOMAIN Entries(v),
             HasEntries(R, s, v, I)
      PROVE  HasEntries(Q, s, v, I)
  BY <1>1, <1>2, <1>3 DEF HasEntries
<1>4. ASSUME NEW s, NEW v \in DOMAIN Values, NEW I, I \subseteq DOMAIN Entries(v),
             HasItems(R, s, v, I)
      PROVE  HasItems(Q, s, v, I)
  BY <1>1, <1>2, <1>4 DEF HasItems
<1> QED BY <1>1, <1>3, <1>4

LEMMA EntriesAreSeq ==
    ASSUME NEW v \in DOMAIN Values
    PROVE  Len(Entries(v)) \in Nat /\ DOMAIN Entries(v) = 1..Len(Entries(v))
  BY ValuesAssumption DEF Entries

LEMMA IsValueGrows ==
    ASSUME NEW R, NEW Q, \A w \in DOMAIN Values : R[w] \subseteq Q[w],
           NEW s, NEW v \in DOMAIN Values, IsValue(R, s, v)
    PROVE  IsValue(Q, s, v)
<1>1. HasItems(R, s, v, DOMAIN Entries(v)) => HasItems(Q, s, v, DOMAIN Entries(v))
  BY ValuesGrow
<1>2. HasEntries(R, s, v, KeptEntries(v)) => HasEntries(Q, s, v, KeptEntries(v))
  <2>1. KeptEntries(v) \subseteq DOMAIN Entries(v)
    BY DEF KeptEntries
  <2> QED BY <2>1, ValuesGrow
<1> QED BY <1>1, <1>2 DEF IsValue

DescribedIsRight ==
    \A v \in DOMAIN Values :
        Described[v] = {id \in DOMAIN structs : IsValue(Described, structs[id], v)}

LEMMA DescribedDef == DescribedIsRight
<1> DEFINE D == DOMAIN Values
           N == DOMAIN structs
           fn(S) == [w \in D |-> {id \in N : <<w, id>> \in S}]
           pre(S) == {p \in D \X N : IsValue(fn(S), structs[p[2]], p[1])}
           least == {p \in D \X N : \A S \in SUBSET (D \X N) : pre(S) \subseteq S => p \in S}
           f == fn(least)
<1>1. ASSUME NEW S, NEW T, S \subseteq T PROVE pre(S) \subseteq pre(T)
  <2>1. \A w \in D : fn(S)[w] \subseteq fn(T)[w]
    BY <1>1
  <2> HIDE DEF fn
  <2> QED BY <2>1, IsValueGrows
<1>2. \A S \in SUBSET (D \X N) : pre(S) \subseteq S => least \subseteq S
  <2> HIDE DEF pre
  <2> QED OBVIOUS
<1>3. pre(least) \subseteq least
  <2>0. pre(least) \subseteq D \X N
    OBVIOUS
  <2> SUFFICES ASSUME NEW p \in pre(least), NEW S \in SUBSET (D \X N), pre(S) \subseteq S
               PROVE  p \in S
    <3> HIDE DEF pre
    <3> QED BY <2>0
  <2> HIDE DEF pre, least
  <2> QED BY <1>1, <1>2
<1>4. least \subseteq pre(least)
  <2> SUFFICES pre(least) \in SUBSET (D \X N) /\ pre(pre(least)) \subseteq pre(least)
    <3> HIDE DEF pre, least
    <3> QED BY <1>2
  <2>1. pre(least) \in SUBSET (D \X N)
    OBVIOUS
  <2> HIDE DEF pre, least
  <2> QED BY <1>1, <1>3, <2>1
<1>5. \A w \in D : f[w] = {id \in N : IsValue(f, structs[id], w)}
  <2> TAKE w \in D
  <2>1. f[w] = {id \in N : <<w, id>> \in least}
    OBVIOUS
  <2>2. least = pre(least)
    BY <1>3, <1>4
  <2>3. \A id \in N : <<w, id>> \in pre(least) <=> IsValue(f, structs[id], w)
    <3> HIDE DEF least
    <3> QED OBVIOUS
  <2> HIDE DEF f, least, pre
  <2> QED BY <2>1, <2>2, <2>3
<1>6. f = [w \in D |-> {id \in N : IsValue(f, structs[id], w)}]
  <2>1. f = [w \in D |-> f[w]]
    OBVIOUS
  <2> HIDE DEF f
  <2> QED BY <1>5, <2>1
<1> HIDE DEF f
<1> DEFINE solves(g) == g = [v \in DOMAIN Values |-> {id \in DOMAIN structs : IsValue(g, structs[id], v)}]
<1>7. solves(f)
  BY <1>6
<1>8. Described = CHOOSE g : solves(g)
  BY DEF Described, IsValue, HasItems, HasEntries, Shown, KeptEntries
<1>9. solves(Described)
  <2> HIDE DEF solves
  <2> QED BY <1>7, <1>8
<1> QED BY <1>9 DEF DescribedIsRight

LEMMA DescribedNext == DescribedIsRight'
  BY DescribedDef, PTL

LEMMA KnownDef ==
    ASSUME NEW v \in DOMAIN Values
    PROVE  Known[v] <=> /\ Values[v].kind # "other"
                        /\ \A i \in DOMAIN Entries(v) : Known[Entries(v)[i].value]
<1> DEFINE D == DOMAIN Values
           body(f, w) == /\ Values[w].kind # "other"
                         /\ \A i \in DOMAIN Entries(w) : f[Entries(w)[i].value]
           pre(S) == {w \in D : /\ Values[w].kind # "other"
                                /\ \A i \in DOMAIN Entries(w) : Entries(w)[i].value \in S}
           most == UNION {S \in SUBSET D : S \subseteq pre(S)}
           f == [w \in D |-> w \in most]
<1>1. \A S, T : S \subseteq T => pre(S) \subseteq pre(T)
  OBVIOUS
<1>2. \A S \in SUBSET D : S \subseteq pre(S) => S \subseteq most
  <2> HIDE DEF pre
  <2> QED OBVIOUS
<1>3. most \subseteq pre(most) /\ most \subseteq D
  <2> SUFFICES ASSUME NEW S \in SUBSET D, S \subseteq pre(S) PROVE S \subseteq pre(most)
    <3> HIDE DEF pre
    <3> QED OBVIOUS
  <2>1. S \subseteq most
    BY <1>2
  <2> HIDE DEF pre, most
  <2> QED BY <1>1, <2>1
<1>4. pre(most) \subseteq most
  <2>1. pre(most) \in SUBSET D
    OBVIOUS
  <2> HIDE DEF pre, most
  <2> QED BY <1>1, <1>2, <1>3, <2>1
<1>5. ASSUME NEW w \in D PROVE f[w] = body(f, w)
  <2>1. f[w] = (w \in most) /\ (w \in most <=> w \in pre(most))
    BY <1>3, <1>4
  <2>2. \A i \in DOMAIN Entries(w) : f[Entries(w)[i].value] = (Entries(w)[i].value \in most)
    BY EntryFacts
  <2>3. w \in pre(most) <=> body(f, w)
    <3> HIDE DEF f, most
    <3> QED BY <2>2
  <2> HIDE DEF f, most, pre, body
  <2>4. f[w] <=> body(f, w)
    BY <2>1, <2>3
  <2>5. f[w] \in BOOLEAN /\ body(f, w) \in BOOLEAN
    BY <2>1 DEF body
  <2> QED BY <2>4, <2>5
<1>6. f = [w \in D |-> body(f, w)]
  <2>1. f = [w \in D |-> f[w]]
    OBVIOUS
  <2> HIDE DEF f, body
  <2> QED BY <1>5, <2>1
<1> HIDE DEF f
<1> DEFINE solves(g) == g = [w \in DOMAIN Values |->
                               /\ Values[w].kind # "other"
                               /\ \A i \in DOMAIN Entries(w) : g[Entries(w)[i].value]]
<1>7. solves(f)
  BY <1>6
<1>8. Known = CHOOSE g : solves(g)
  BY DEF Known
<1>9. solves(Known)
  <2> HIDE DEF solves
  <2> QED BY <1>7, <1>8
<1> QED BY <1>9

-----------------------------------------------------------------------------
(* Offsets lead to younger structures, and from what is ended to what is   *)
(* ended.                                                                  *)
LEMMA FormsFacts ==
    ASSUME IInv, ToldInv, FormsInv
    PROVE  /\ Len(structs) \in Nat /\ DOMAIN structs = 1..Len(structs)
           /\ IsTree(structs)
           /\ \A p \in 1..Len(structs) :
                 /\ structs[p] \in Structure /\ structs[p] \in Form /\ Linked(structs[p])
                 /\ Len(structs[p].elems) \in Nat
                 /\ DOMAIN structs[p].elems = 1..Len(structs[p].elems)
                 /\ \A i \in 1..Len(structs[p].elems) :
                       structs[p].elems[i] \in Elem /\ Sound(structs[p].elems[i])
<1>1. structs \in Seq(Form) /\ IsTree(structs)
  BY DEF FormsInv, Trees
<1>2. Len(structs) \in Nat /\ DOMAIN structs = 1..Len(structs)
  BY <1>1, LenProperties
<1>3. ASSUME NEW p \in 1..Len(structs)
      PROVE  /\ structs[p] \in Structure /\ structs[p] \in Form /\ Linked(structs[p])
             /\ Len(structs[p].elems) \in Nat
             /\ DOMAIN structs[p].elems = 1..Len(structs[p].elems)
             /\ \A i \in 1..Len(structs[p].elems) :
                   structs[p].elems[i] \in Elem /\ Sound(structs[p].elems[i])
  <2>1. structs[p] \in Form
    BY <1>1, ElementOfSeq
  <2>2. structs[p] \in Structure /\ Linked(structs[p])
    BY <2>1 DEF Form, ToldInv, Told
  <2>3. structs[p].elems \in Seq(Elem)
    BY <2>2 DEF Structure
  <2>4. \A i \in 1..Len(structs[p].elems) : structs[p].elems[i] \in Elem
    BY <2>3, ElementOfSeq
  <2> QED BY <2>1, <2>2, <2>3, <2>4, LenProperties DEF Linked, AllSound
<1> QED BY <1>1, <1>2, <1>3

LEMMA Targets ==
    ASSUME IInv, ToldInv, FormsInv, NEW p \in 1..Len(structs),
           NEW i \in 1..Len(structs[p].elems)
    PROVE  LET e == structs[p].elems[i] IN
           /\ e.target = NoStruct \/ e.target \in (p + 1)..Len(structs)
           /\ ~isInline(e.type) => e.target # NoStruct
<1> DEFINE e == structs[p].elems[i]
           t == e.target
<1>1. e \in Elem /\ Sound(e) /\ Len(structs) \in Nat /\ IsTree(structs)
  BY FormsFacts
<1>2. t \in Nat /\ t # Root /\ (~isInline(e.type) => t # NoStruct)
  BY <1>1 DEF Elem, Sound
<1>3. Mentions(structs[p], t)
  BY DEF Mentions, RefersTo
<1> HIDE DEF e, t
<1>4. ASSUME t # NoStruct PROVE t \in (p + 1)..Len(structs)
  <2>1. t \in 2..Len(structs)
    <3>1. ~(t > Len(structs))
      BY <1>1, <1>2, <1>3 DEF IsTree
    <3> QED BY <1>1, <1>2, <1>4, <3>1 DEF Root, NoStruct
  <2>2. PICK q \in 1..(t - 1) : IsParent(structs, q, t)
    BY <1>1, <2>1 DEF IsTree
  <2>3. q = p
    BY <1>3, <2>2 DEF IsParent
  <2> QED BY <1>1, <2>1, <2>2, <2>3
<1> QED BY <1>2, <1>4 DEF e, t

(* The innermost structure is the youngest on the stack.                   *)
LEMMA HeadIsYoungest ==
    ASSUME IInv
    PROVE  \A k \in 1..headIndex : inProgress[k] < getHead
<1> DEFINE T == {d \in Nat : d < headIndex /\ ~(inProgress[headIndex - d] < getHead)}
<1>1. /\ headIndex \in Nat /\ getHead = inProgress[headIndex + 1]
      /\ \A k \in 1..(headIndex + 1) : inProgress[k] \in Nat
      /\ \A k \in 1..headIndex : inProgress[k] < inProgress[k + 1]
  <2>1. inProgress \in Seq(Nat \ {0}) /\ Len(inProgress) = headIndex + 1 /\ headIndex \in Nat
    BY DEF IInv, TypeOK
  <2>2. \A k \in 1..(headIndex + 1) : inProgress[k] \in Nat
    BY <2>1, ElementOfSeq
  <2> QED BY <2>1, <2>2 DEF IInv, StackInv, getHead
<1>2. T = {}
  <2> SUFFICES ASSUME T # {} PROVE FALSE
    OBVIOUS
  <2>1. PICK d \in T : \A c \in T : d <= c
    BY LeastNat
  <2>2. d \in Nat /\ d < headIndex /\ headIndex - d \in 1..headIndex
        /\ ~(inProgress[headIndex - d] < getHead)
    BY <1>1, <2>1
  <2>3. inProgress[headIndex - d] < inProgress[headIndex - d + 1]
        /\ inProgress[headIndex - d] \in Nat /\ inProgress[headIndex - d + 1] \in Nat
    BY <1>1, <2>2
  <2>4. CASE d = 0
    BY <1>1, <2>2, <2>3, <2>4
  <2>5. CASE d # 0
    <3>1. d - 1 \in Nat /\ d - 1 < headIndex /\ d - 1 < d
          /\ headIndex - (d - 1) = headIndex - d + 1 /\ getHead \in Nat
      BY <1>1, <2>2, <2>5
    <3>2. d - 1 \notin T
      BY <2>1, <2>2, <3>1
    <3>3. inProgress[headIndex - (d - 1)] < getHead
      BY <3>1, <3>2
    <3> QED BY <2>2, <2>3, <3>1, <3>3
  <2> QED BY <2>4, <2>5
<1>3. ASSUME NEW k \in 1..headIndex PROVE inProgress[k] < getHead
  <2>1. headIndex - k \in Nat /\ headIndex - k < headIndex /\ headIndex - (headIndex - k) = k
    BY <1>1
  <2>2. headIndex - k \notin T
    BY <1>2
  <2> QED BY <2>1, <2>2
<1> QED BY <1>3

(* What a structure refers to is under construction only below one that    *)
(* is itself, and is not the innermost.                                    *)
LEMMA OpenBelow ==
    ASSUME IInv, ToldInv, FormsInv, NEW p \in 1..Len(structs),
           NEW i \in 1..Len(structs[p].elems), InStack(structs[p].elems[i].target)
    PROVE  InStack(p) /\ p # getHead
<1> DEFINE t == structs[p].elems[i].target
<1>1. /\ headIndex \in Nat /\ DOMAIN inProgress = 1..(headIndex + 1)
      /\ \A k \in 1..(headIndex + 1) : inProgress[k] \in 1..Len(structs)
      /\ inProgress[1] = Root
      /\ \A k \in 1..headIndex :
            inProgress[k + 1] \in ToSet(structs[inProgress[k]].children)
  BY LenProperties DEF IInv, TypeOK, StackInv
<1>2. PICK k \in 1..(headIndex + 1) : inProgress[k] = t
  BY <1>1 DEF InStack, ToSet
<1>3. t \in 1..Len(structs) /\ Len(structs) \in Nat
  BY <1>1, <1>2, FormsFacts
<1>4. t \in (p + 1)..Len(structs)
  <2>1. t # NoStruct
    BY <1>3 DEF NoStruct
  <2> QED BY <2>1, Targets
<1>5. k # 1
  BY <1>1, <1>2, <1>4 DEF Root
<1>6. PICK l \in 1..headIndex : k = l + 1
  <2>1. k - 1 \in 1..headIndex /\ k = (k - 1) + 1
    BY <1>1, <1>5
  <2> QED BY <2>1
<1>7. Mentions(structs[inProgress[l]], t) /\ inProgress[l] \in 1..Len(structs)
  <2>0. inProgress[l + 1] \in ToSet(structs[inProgress[l]].children) /\ inProgress[l + 1] = t
    BY <1>1, <1>2, <1>6
  <2> HIDE DEF t
  <2>1. t \in ToSet(structs[inProgress[l]].children) /\ l \in 1..(headIndex + 1)
    BY <1>1, <2>0
  <2>2. structs[inProgress[l]].children \in Seq(Nat) /\ inProgress[l] \in 1..Len(structs)
    BY <1>1, <2>1, FormsFacts DEF Structure
  <2>3. DOMAIN structs[inProgress[l]].children = 1..Len(structs[inProgress[l]].children)
    BY <2>2, LenProperties
  <2> QED BY <2>1, <2>2, <2>3 DEF ToSet, Mentions, Owns
<1>8. PICK q \in 1..(t - 1) : IsParent(structs, q, t)
  <2>1. t \in 2..Len(structs) /\ IsTree(structs)
    BY <1>3, <1>4, FormsFacts
  <2> QED BY <2>1 DEF IsTree
<1>9. Mentions(structs[p], t)
  BY DEF Mentions, RefersTo
<1>10. inProgress[l] = p
  BY <1>7, <1>8, <1>9 DEF IsParent
<1>11. InStack(p)
  <2>1. l \in DOMAIN inProgress
    BY <1>1
  <2> QED BY <1>10, <2>1 DEF InStack, ToSet
<1>12. p # getHead
  <2>1. inProgress[l] < getHead
    BY HeadIsYoungest
  <2> QED BY <1>3, <1>10, <2>1
<1> QED BY <1>11, <1>12

(* The structures of a value that no call touches any more.                *)
Settled(w) == {id \in Described[w] : ~InStack(id)}

LEMMA DescribedAre ==
    ASSUME IInv, ToldInv, FormsInv, NEW w \in DOMAIN Values, NEW id
    PROVE  id \in Described[w] <=> id \in 1..Len(structs) /\ IsValue(Described, structs[id], w)
  BY DescribedDef, FormsFacts DEF DescribedIsRight

(* What an ended structure shows it goes on to show.                       *)
LEMMA ShownStays ==
    ASSUME IInv, ToldInv, FormsInv, NEW id \in 1..Len(structs), ~InStack(id),
           NEW i \in 1..Len(structs[id].elems), NEW u \in DOMAIN Values,
           Settled(u) \subseteq Described'[u],
           Shown(Described, structs[id].elems[i], u)
    PROVE  Shown(Described', structs[id].elems[i], u)
<1>1. CASE Values[u].kind = "scalar"
  BY <1>1 DEF Shown
<1>2. CASE Values[u].kind # "scalar"
  <2>1. ~isInline(structs[id].elems[i].type) /\ structs[id].elems[i].target \in Described[u]
    BY <1>2 DEF Shown
  <2>2. ~InStack(structs[id].elems[i].target)
    BY OpenBelow
  <2>3. structs[id].elems[i].target \in Described'[u]
    BY <2>1, <2>2 DEF Settled
  <2> QED BY <1>2, <2>1, <2>3 DEF Shown
<1> QED BY <1>1, <1>2

LEMMA SettledOne ==
    ASSUME IInv, ToldInv, FormsInv, Shaped, NEW w \in DOMAIN Values,
           \A u \in DOMAIN Values : u > w => Settled(u) \subseteq Described'[u]
    PROVE  Settled(w) \subseteq Described'[w]
<1> SUFFICES ASSUME NEW id \in Settled(w) PROVE id \in Described'[w]
  OBVIOUS
<1> DEFINE s == structs[id]
<1>1. id \in 1..Len(structs) /\ IsValue(Described, s, w) /\ ~InStack(id)
  BY DescribedAre DEF Settled
<1>2. /\ id \in DOMAIN structs /\ structs'[id] = s /\ id \in DOMAIN structs'
      /\ DOMAIN s.elems = 1..Len(s.elems)
  <2>1. getHead = inProgress[headIndex + 1] /\ DOMAIN inProgress = 1..(headIndex + 1)
        /\ headIndex \in Nat
    BY LenProperties DEF IInv, TypeOK, getHead
  <2>2. InStack(getHead)
    BY <2>1 DEF InStack, ToSet
  <2>3. id # getHead
    BY <1>1, <2>2
  <2>4. Step /\ id \in DOMAIN structs
    BY <1>1, FormsFacts DEF Shaped
  <2>5. structs'[id] = s
    BY <2>3, <2>4, EndedStays
  <2>6. id \in DOMAIN structs'
    <3>1. structs' \in Seq(Structure) /\ Len(structs') \in {Len(structs), Len(structs) + 1}
      BY <2>4, EditedDocProperties, ExtendedDocProperties DEF Step, IInv, TypeOK
    <3>2. DOMAIN structs' = 1..Len(structs')
      BY <3>1, LenProperties
    <3>3. Len(structs) \in Nat /\ id \in 1..Len(structs)
      BY <1>1, FormsFacts
    <3>4. id \in 1..Len(structs')
      <4> HIDE DEF s
      <4> QED BY <3>1, <3>3
    <3> QED BY <3>2, <3>4
  <2> QED BY <1>1, <2>4, <2>5, <2>6, FormsFacts
<1>3. \A i \in DOMAIN Entries(w) : /\ Entries(w)[i].value \in DOMAIN Values
                                   /\ Entries(w)[i].value > w
  BY ValuesAssumption, EntryFacts DEF Entries
<1>4. \A i \in DOMAIN Entries(w), j \in 1..Len(s.elems) :
         Shown(Described, s.elems[j], Entries(w)[i].value)
            => Shown(Described', s.elems[j], Entries(w)[i].value)
  BY <1>1, <1>3, ShownStays
<1> HIDE DEF s
<1>5. IsValue(Described', s, w)
  <2>1. CASE Values[w].kind = "slice"
    <3>1. DOMAIN Entries(w) = 1..Len(s.elems)
      BY <1>1, <2>1, EntriesAreSeq DEF IsValue
    <3>2. HasItems(Described', s, w, DOMAIN Entries(w))
      BY <1>1, <1>4, <2>1, <3>1 DEF IsValue, HasItems
    <3> QED BY <1>1, <2>1, <3>2 DEF IsValue
  <2>2. CASE Values[w].kind = "map"
    <3>1. KeptEntries(w) \subseteq DOMAIN Entries(w)
      BY DEF KeptEntries
    <3>2. HasEntries(Described', s, w, KeptEntries(w))
      BY <1>1, <1>2, <1>4, <2>2, <3>1 DEF IsValue, HasEntries
    <3> QED BY <1>1, <2>2, <3>2 DEF IsValue
  <2>3. CASE Values[w].kind \notin {"slice", "map"}
    BY <1>1, <2>3 DEF IsValue
  <2> QED BY <2>1, <2>2, <2>3
<1> QED BY <1>2, <1>5, DescribedNext DEF DescribedIsRight

LEMMA SettledStays ==
    ASSUME IInv, ToldInv, FormsInv, Shaped
    PROVE  \A w \in DOMAIN Values : Settled(w) \subseteq Settled(w)'
<1> DEFINE N == Len(Values)
           T == {d \in Nat : d < N /\ ~(Settled(N - d) \subseteq Described'[N - d])}
<1>1. N \in Nat /\ DOMAIN Values = 1..N
  BY ValuesAssumption
<1>2. T = {}
  <2> SUFFICES ASSUME T # {} PROVE FALSE
    OBVIOUS
  <2>1. PICK d \in T : \A c \in T : d <= c
    BY LeastNat
  <2>2. d \in Nat /\ d < N /\ N - d \in DOMAIN Values
        /\ ~(Settled(N - d) \subseteq Described'[N - d])
    BY <1>1, <2>1
  <2>3. ASSUME NEW u \in DOMAIN Values, u > N - d
        PROVE  Settled(u) \subseteq Described'[u]
    <3>1. N - u \in Nat /\ N - u < N /\ N - u < d /\ N - (N - u) = u
      BY <1>1, <2>2, <2>3
    <3>2. N - u \notin T
      BY <2>1, <2>2, <3>1
    <3> QED BY <3>1, <3>2
  <2> HIDE DEF N, T
  <2> QED BY <2>2, <2>3, SettledOne
<1>3. ASSUME NEW w \in DOMAIN Values
      PROVE  Settled(w) \subseteq Described'[w]
  <2>1. N - w \in Nat /\ N - w < N /\ N - (N - w) = w
    BY <1>1
  <2>2. N - w \notin T
    BY <1>2
  <2> QED BY <2>1, <2>2
<1>4. ASSUME NEW w \in DOMAIN Values, NEW id \in Settled(w)
      PROVE  ~InStack(id)'
  <2>1. id \in DOMAIN structs /\ ~InStack(id)
    BY DescribedAre, FormsFacts DEF Settled
  <2> QED BY <2>1, EndedStays DEF Shaped
<1> QED BY <1>3, <1>4 DEF Settled

-----------------------------------------------------------------------------
(* A structure on the way to its value.                                    *)

(* It has the entries I of v, but for those whose keys are refused.        *)
Carries(R, s, v, I) ==
    /\ s.vType = TypeOfValue(v)
    /\ IF Values[v].kind = "map"
       THEN /\ Len(s.elems) = Cardinality(KeptEntries(v) \cap I)
            /\ HasEntries(R, s, v, KeptEntries(v) \cap I)
       ELSE I = 1..Len(s.elems) /\ HasItems(R, s, v, I)

LEMMA CarriesGrows ==
    ASSUME NEW R, NEW Q, \A w \in DOMAIN Values : R[w] \subseteq Q[w],
           NEW s, NEW v \in DOMAIN Values, NEW I, I \subseteq DOMAIN Entries(v),
           Carries(R, s, v, I)
    PROVE  Carries(Q, s, v, I)
<1>1. HasItems(R, s, v, I) => HasItems(Q, s, v, I)
  BY ValuesGrow
<1>2. HasEntries(R, s, v, KeptEntries(v) \cap I) => HasEntries(Q, s, v, KeptEntries(v) \cap I)
  <2>1. KeptEntries(v) \cap I \subseteq DOMAIN Entries(v)
    OBVIOUS
  <2> QED BY <2>1, ValuesGrow
<1> QED BY <1>1, <1>2 DEF Carries

LEMMA KeptFinite ==
    ASSUME NEW v \in DOMAIN Values, NEW I
    PROVE  IsFiniteSet(KeptEntries(v) \cap I)
<1>1. IsFiniteSet(1..Len(Entries(v)))
  BY EntriesAreSeq, FS_Interval
<1>2. KeptEntries(v) \cap I \subseteq 1..Len(Entries(v))
  BY EntriesAreSeq DEF KeptEntries
<1> QED BY <1>1, <1>2, FS_Subset

LEMMA CarriesNothing ==
    ASSUME NEW R, NEW v \in DOMAIN Values, NEW s, s.vType = TypeOfValue(v), s.elems = <<>>
    PROVE  Carries(R, s, v, {})
<1>1. Len(s.elems) = 0 /\ KeptEntries(v) \cap {} = {} /\ 1..0 = {}
  OBVIOUS
<1>2. Cardinality({}) = 0
  BY FS_EmptySet
<1> QED BY <1>1, <1>2 DEF Carries, HasEntries, HasItems

LEMMA CarriesAll ==
    ASSUME NEW R, NEW v \in DOMAIN Values, Values[v].kind \in {"map", "slice"},
           NEW s, Len(s.elems) \in Nat, Carries(R, s, v, DOMAIN Entries(v))
    PROVE  IsValue(R, s, v)
<1>1. CASE Values[v].kind = "map"
  <2>1. KeptEntries(v) \cap DOMAIN Entries(v) = KeptEntries(v)
    BY DEF KeptEntries
  <2> QED BY <1>1, <2>1 DEF Carries, IsValue, TypeOfValue
<1>2. CASE Values[v].kind = "slice"
  <2>1. Len(s.elems) = Len(Entries(v))
    <3>1. 1..Len(s.elems) = 1..Len(Entries(v)) /\ Len(Entries(v)) \in Nat
      BY <1>2, EntriesAreSeq DEF Carries
    <3>2. Len(s.elems) <= Len(Entries(v))
      <4>1. Len(s.elems) = 0 \/ Len(s.elems) \in 1..Len(s.elems)
        OBVIOUS
      <4> QED BY <3>1, <4>1
    <3>3. Len(Entries(v)) <= Len(s.elems)
      <4>1. Len(Entries(v)) = 0 \/ Len(Entries(v)) \in 1..Len(Entries(v))
        BY <3>1
      <4> QED BY <3>1, <4>1
    <3> QED BY <3>1, <3>2, <3>3
  <2> QED BY <1>2, <2>1 DEF Carries, IsValue, TypeOfValue
<1> QED BY <1>1, <1>2

LEMMA ItemGained ==
    ASSUME NEW R, NEW v \in DOMAIN Values, Values[v].kind = "slice",
           NEW s \in Structure, NEW I, Carries(R, s, v, I),
           NEW x \in Elem, Shown(R, x, Entries(v)[Len(s.elems) + 1].value),
           NEW h, h.vType = s.vType, h.elems = PutAt(s.elems, Len(s.elems), x)
    PROVE  Carries(R, h, v, I \cup {Len(s.elems) + 1})
<1> DEFINE n == Len(s.elems)
<1>1. s.elems \in Seq(Elem) /\ n \in Nat
  BY LenProperties DEF Structure
<1>2. PlaceOf(s.elems, n) = n + 1
  BY <1>1 DEF PlaceOf
<1>3. InsertedAt(h.elems, s.elems, n + 1, x)
  BY <1>1, <1>2, PutAtForm
<1>4. Len(h.elems) = n + 1 /\ h.elems[n + 1] = x /\ \A i \in 1..n : h.elems[i] = s.elems[i]
  BY <1>1, <1>3 DEF InsertedAt
<1>5. I = 1..n /\ HasItems(R, s, v, I)
  BY DEF Carries
<1>6. I \cup {n + 1} = 1..Len(h.elems)
  BY <1>1, <1>4, <1>5
<1>7. HasItems(R, h, v, I \cup {n + 1})
  BY <1>4, <1>5 DEF HasItems
<1> HIDE DEF n
<1>8. Carries(R, h, v, I \cup {n + 1})
  BY <1>6, <1>7 DEF Carries
<1> QED BY <1>8 DEF n

LEMMA EntryGained ==
    ASSUME NEW R, NEW v \in DOMAIN Values, Values[v].kind = "map",
           NEW s \in Structure, Len(s.keys) = Len(s.elems), NEW I, Carries(R, s, v, I),
           NEW i \in KeptEntries(v) \ I, NEW k \in Key, k.name = Entries(v)[i].key,
           NEW x \in Elem, Shown(R, x, Entries(v)[i].value), NEW index \in Nat,
           NEW h, h.vType = s.vType,
           h.keys = PutAt(s.keys, index, k), h.elems = PutAt(s.elems, index, x)
    PROVE  Carries(R, h, v, I \cup {i})
<1> DEFINE p == PlaceOf(s.elems, index)
<1>1. /\ s.elems \in Seq(Elem) /\ s.keys \in Seq(Key) /\ Len(s.elems) \in Nat
      /\ DOMAIN s.elems = 1..Len(s.elems)
  BY LenProperties DEF Structure
<1>2. InsertedAt(h.elems, s.elems, p, x)
  BY <1>1, PutAtForm
<1>3. InsertedAt(h.keys, s.keys, p, k)
  <2>1. PlaceOf(s.keys, index) = p
    BY DEF PlaceOf
  <2> QED BY <1>1, <2>1, PutAtForm
<1>4. DOMAIN h.elems = 1..Len(h.elems) /\ Len(h.elems) = Len(s.elems) + 1
  <2>1. h.elems \in Seq(Elem)
    <3>1. PutAt(s.elems, index, x) \in Seq(Elem)
      BY <1>1, PutAtProperties
    <3>2. h.elems = PutAt(s.elems, index, x)
      OBVIOUS
    <3> QED BY <3>1, <3>2
  <2> QED BY <1>2, <2>1, LenProperties DEF InsertedAt
<1> HIDE DEF p
<1>5. p \in DOMAIN h.elems /\ h.elems[p] = x /\ h.keys[p] = k
  BY <1>2, <1>3, <1>4, InsertedIsOldOrNew
<1>6. \A j \in DOMAIN s.elems : /\ Moved(j, p) \in DOMAIN h.elems
                                /\ h.elems[Moved(j, p)] = s.elems[j]
                                /\ h.keys[Moved(j, p)] = s.keys[j]
  BY <1>1, <1>2, <1>3, <1>4, InsertedIsOldOrNew
<1>7. KeptEntries(v) \cap (I \cup {i}) = (KeptEntries(v) \cap I) \cup {i}
  OBVIOUS
<1>8. Len(h.elems) = Cardinality(KeptEntries(v) \cap (I \cup {i}))
  <2>1. Len(s.elems) = Cardinality(KeptEntries(v) \cap I)
    BY DEF Carries
  <2>2. Cardinality((KeptEntries(v) \cap I) \cup {i}) = Cardinality(KeptEntries(v) \cap I) + 1
    BY KeptFinite, FS_AddElement
  <2> QED BY <1>4, <1>7, <2>1, <2>2
<1>9. HasEntries(R, h, v, KeptEntries(v) \cap (I \cup {i}))
  <2> SUFFICES ASSUME NEW a \in (KeptEntries(v) \cap I) \cup {i}
               PROVE  \E j \in DOMAIN h.elems : /\ h.keys[j].name = Entries(v)[a].key
                                                /\ Shown(R, h.elems[j], Entries(v)[a].value)
    BY <1>7 DEF HasEntries
  <2>1. CASE a = i
    BY <1>5, <2>1
  <2>2. CASE a \in KeptEntries(v) \cap I
    <3>1. PICK j \in DOMAIN s.elems : /\ s.keys[j].name = Entries(v)[a].key
                                      /\ Shown(R, s.elems[j], Entries(v)[a].value)
      BY <2>2 DEF Carries, HasEntries
    <3> QED BY <1>6, <3>1
  <2> QED BY <2>1, <2>2
<1> QED BY <1>8, <1>9 DEF Carries

LEMMA EntryRefused ==
    ASSUME NEW R, NEW v, Values[v].kind = "map", NEW s, NEW I, Carries(R, s, v, I),
           NEW i, i \notin KeptEntries(v)
    PROVE  Carries(R, s, v, I \cup {i})
<1>1. KeptEntries(v) \cap (I \cup {i}) = KeptEntries(v) \cap I
  OBVIOUS
<1> QED BY <1>1 DEF Carries

-----------------------------------------------------------------------------
(* A value on the way into the document.                                   *)

Client == began.stack[Len(began.stack)]

(* The structure of the j-th activation that waits.                        *)
StructOf(j) == inProgress[Len(began.stack) + j]

(* The structures made for each value, those under construction with them. *)
Waiters(w) == {j \in 1..Len(frames) : frames[j].value = w}
Reached == [w \in DOMAIN Values |-> Settled(w) \cup {StructOf(j) : j \in Waiters(w)}]

(* Of the entries that were taken, an activation has all in its structure, *)
(* but for the one that is next.                                           *)
Taken(j) == DOMAIN Entries(frames[j].value) \ frames[j].left

HasTaken(j) == Carries(Reached, structs[StructOf(j)], frames[j].value, Taken(j))

HasTakenButCall ==
    \E i \in Taken(Len(frames)) :
        /\ Entries(Top.value)[i] = call
        /\ Carries(Reached, HeadStructure, Top.value, Taken(Len(frames)) \ {i})
        /\ TopKind = "slice" => i = Len(HeadStructure.elems) + 1

FramesHold ==
    /\ \A j \in 1..Len(frames) : Known[frames[j].value]
    /\ \A j \in 1..(Len(frames) - 1) : HasTaken(j)
    /\ IF frames = <<>> THEN call = NoCall /\ began.size + 1 \in Settled(began.value)
       ELSE /\ frames[1].value = began.value /\ StructOf(1) = began.size + 1
            /\ IF call = NoCall THEN HasTaken(Len(frames)) /\ ~Failed
               ELSE Known[call.value] /\ HasTakenButCall

(* The structures of the value are younger than all there were, and of     *)
(* those only the client's has it.                                         *)
Started ==
    /\ began.size \in Nat /\ Client \in 1..began.size /\ began.size < Len(structs)
    /\ Owns(structs[Client].children, began.size + 1)
    /\ \A p \in 1..began.size : p # Client =>
          \A i \in 1..Len(structs[p].elems) : structs[p].elems[i].target <= began.size
    /\ \A j \in 1..Len(frames) : StructOf(j) > began.size

Building == Applies /\ Known[began.value] /\ IsStructure(began.value)

BuiltInv == Building => AtStart \/ (Started /\ FramesHold)

BaseInv == IInv /\ CallsInv /\ ToldInv /\ FormsInv /\ NestInv

LEMMA StepShaped ==
    ASSUME BaseInv, [AutoNext]_allVars
    PROVE  Shaped
<1>1. Shaped \/ UNCHANGED vars
  BY AutoShape DEF BaseInv, allVars
<1>2. CASE UNCHANGED vars
  BY <1>2 DEF vars, BaseInv, IInv, TypeOK, Shaped, Step, SameStack
<1> QED BY <1>1, <1>2

LEMMA FrameStructs ==
    ASSUME BaseInv, Applies
    PROVE  /\ Len(frames) \in Nat
           /\ \A j \in 1..Len(frames) :
                 /\ StructOf(j) \in 1..Len(structs) /\ InStack(StructOf(j))
                 /\ structs[StructOf(j)].vType = TypeOfValue(frames[j].value)
                 /\ frames[j].value \in DOMAIN Values
                 /\ Values[frames[j].value].kind \in {"map", "slice"}
                 /\ frames[j].left \subseteq DOMAIN Entries(frames[j].value)
           /\ frames # <<>> => StructOf(Len(frames)) = getHead /\ Len(frames) \in 1..Len(frames)
           /\ \A j \in 1..(Len(frames) - 1) : j \in 1..Len(frames) /\ StructOf(j) < getHead
<1>0. IInv /\ CallsInv /\ NestInv /\ Nested
  BY DEF BaseInv, NestInv
<1>1. PICK l \in Nat \ {0}, n \in Nat : /\ l = Len(began.stack) /\ n = Len(frames)
                                         /\ headIndex \in Nat /\ headIndex + 1 = l + n
  BY <1>0, NestedFacts
<1>2. DOMAIN inProgress = 1..(l + n)
  BY <1>0, <1>1, LenProperties DEF IInv, TypeOK
<1>3. ASSUME NEW j \in 1..n
      PROVE  /\ StructOf(j) \in 1..Len(structs) /\ InStack(StructOf(j))
             /\ structs[StructOf(j)].vType = TypeOfValue(frames[j].value)
             /\ frames[j].value \in DOMAIN Values
             /\ Values[frames[j].value].kind \in {"map", "slice"}
             /\ frames[j].left \subseteq DOMAIN Entries(frames[j].value)
  <2>1. StructOf(j) = inProgress[l + j] /\ l + j \in 1..(l + n)
    BY <1>1 DEF StructOf
  <2>2. InStack(StructOf(j))
    BY <1>2, <2>1 DEF InStack, ToSet
  <2>3. StructOf(j) \in 1..Len(structs)
    BY <1>0, <1>1, NestedFacts DEF StructOf
  <2>4. FrameIsOpen(j)
    BY <1>0, <1>1 DEF Nested
  <2>5. frames[j].value \in DOMAIN Values /\ frames[j].left \subseteq DOMAIN Entries(frames[j].value)
    BY <1>0, <1>1, FramesFacts
  <2> QED BY <2>2, <2>3, <2>4, <2>5 DEF FrameIsOpen, StructOf
<1>4. frames # <<>> => StructOf(n) = getHead /\ n \in 1..n
  <2>1. frames # <<>> => n # 0
    BY <1>0, <1>1, FramesFacts
  <2> QED BY <1>1, <2>1 DEF StructOf, getHead
<1>5. ASSUME NEW j \in 1..(n - 1) PROVE j \in 1..n /\ StructOf(j) < getHead
  <2>1. j \in 1..n /\ l + j \in 1..headIndex
    BY <1>1
  <2>2. inProgress[l + j] < getHead
    BY <1>0, <2>1, HeadIsYoungest DEF BaseInv
  <2> QED BY <1>1, <2>1, <2>2 DEF StructOf
<1> QED BY <1>1, <1>3, <1>4, <1>5

(* Where the structures of the activations are when one has begun.         *)
LEMMA PushedStructs ==
    ASSUME BaseInv, Applies, PushedStack, UNCHANGED began
    PROVE  /\ \A j \in 1..Len(frames) : StructOf(j)' = StructOf(j)
           /\ \A j : j = Len(frames) + 1 => StructOf(j)' = NextId
<1>0. IInv /\ CallsInv /\ NestInv
  BY DEF BaseInv
<1>1. PICK l \in Nat \ {0}, n \in Nat : /\ l = Len(began.stack) /\ n = Len(frames)
                                         /\ headIndex \in Nat /\ headIndex + 1 = l + n
  BY <1>0, NestedFacts
<1>2. NextId \in Nat \ {0} /\ inProgress \in Seq(Nat \ {0}) /\ Len(inProgress) = l + n
  BY <1>0, <1>1, HeadType DEF IInv, TypeOK, NextId
<1>3. inProgress' = Append(inProgress, NextId)
  BY DEF PushedStack
<1>4. /\ inProgress'[l + n + 1] = NextId
      /\ \A i \in 1..(l + n) : inProgress'[i] = inProgress[i]
  BY <1>2, <1>3, AppendProperties
<1>5. \A j \in 1..n : l + j \in 1..(l + n)
  BY <1>1
<1>6. l + (n + 1) = l + n + 1
  OBVIOUS
<1>7. \A j \in 1..n : inProgress'[l + j] = inProgress[l + j]
  BY <1>4, <1>5
<1>8. inProgress'[l + (n + 1)] = NextId
  BY <1>4, <1>6
<1>9. \A j : StructOf(j) = inProgress[l + j] /\ StructOf(j)' = inProgress'[l + j]
  BY <1>1 DEF StructOf
<1>10. \A j \in 1..n : StructOf(j)' = StructOf(j)
  BY <1>7, <1>9
<1>11. \A j : j = n + 1 => StructOf(j)' = NextId
  BY <1>8, <1>9
<1> QED BY <1>1, <1>10, <1>11

LEMMA ReachedGrows ==
    ASSUME BaseInv, Shaped,
           \A j \in 1..Len(frames) : /\ j \in 1..Len(frames') /\ frames'[j].value = frames[j].value
                                     /\ StructOf(j)' = StructOf(j)
    PROVE  \A w \in DOMAIN Values : Reached[w] \subseteq Reached'[w]
<1> SUFFICES ASSUME NEW w \in DOMAIN Values, NEW id \in Reached[w]
             PROVE  id \in Reached'[w]
  OBVIOUS
<1>1. Reached[w] = Settled(w) \cup {StructOf(j) : j \in Waiters(w)}
  BY DEF Reached
<1>2. Reached'[w] = Settled(w)' \cup {StructOf(j)' : j \in Waiters(w)'}
  BY DEF Reached
<1>3. CASE id \in Settled(w)
  <2>1. Settled(w) \subseteq Settled(w)'
    BY SettledStays DEF BaseInv
  <2> QED BY <1>2, <1>3, <2>1
<1>4. CASE id \in {StructOf(j) : j \in Waiters(w)}
  <2>1. PICK j \in Waiters(w) : id = StructOf(j)
    BY <1>4
  <2>2. j \in Waiters(w)' /\ StructOf(j)' = id
    BY <2>1 DEF Waiters
  <2> QED BY <1>2, <2>2
<1> QED BY <1>1, <1>3, <1>4

(* Activations further out are not touched.                                *)
LEMMA FrameStays ==
    ASSUME BaseInv, Applies, Shaped, \A w \in DOMAIN Values : Reached[w] \subseteq Reached'[w],
           NEW j \in 1..Len(frames), frames'[j] = frames[j], StructOf(j)' = StructOf(j),
           StructOf(j) # getHead, HasTaken(j)
    PROVE  HasTaken(j)'
<1>1. StructOf(j) \in DOMAIN structs /\ frames[j].value \in DOMAIN Values
  BY FrameStructs, FormsFacts DEF BaseInv
<1>2. structs'[StructOf(j)] = structs[StructOf(j)]
  BY <1>1, EndedStays DEF BaseInv, Shaped
<1>3. Taken(j) \subseteq DOMAIN Entries(frames[j].value) /\ Taken(j)' = Taken(j)
  BY DEF Taken, Entries
<1>4. Carries(Reached, structs[StructOf(j)], frames[j].value, Taken(j))
  BY DEF HasTaken
<1>5. Carries(Reached', structs[StructOf(j)], frames[j].value, Taken(j))
  BY <1>1, <1>3, <1>4, CarriesGrows
<1> QED BY <1>2, <1>3, <1>5 DEF HasTaken

LEMMA StartedStays ==
    ASSUME BaseInv, Applies, Shaped, Started, frames # <<>>, UNCHANGED began,
           \A j \in 1..Len(frames') : StructOf(j)' > began.size
    PROVE  Started'
<1>1. getHead > began.size /\ Len(structs) \in Nat /\ DOMAIN structs = 1..Len(structs)
  <2>1. StructOf(Len(frames)) = getHead /\ Len(frames) \in 1..Len(frames)
    BY FrameStructs
  <2> QED BY <2>1, FormsFacts DEF Started, BaseInv
<1>2. began.size \in Nat /\ began.size < Len(structs) /\ Client \in 1..began.size /\ getHead \in Nat
  BY HeadType DEF Started, BaseInv, IInv
<1>3. ASSUME NEW p \in 1..began.size PROVE structs'[p] = structs[p]
  <2>1. p \in DOMAIN structs /\ p # getHead
    BY <1>1, <1>2
  <2> QED BY <2>1, EndedStays DEF BaseInv, Shaped
<1>4. Len(structs') \in {Len(structs), Len(structs) + 1}
  BY EditedDocProperties, ExtendedDocProperties DEF Shaped, Step, BaseInv, IInv
<1>5. began.size < Len(structs')
  BY <1>1, <1>2, <1>4
<1>6. Client' = Client /\ began' = began
  BY DEF Client
<1>7. Owns(structs'[Client].children, began.size + 1)
  BY <1>2, <1>3 DEF Started
<1>8. \A p \in 1..began.size : p # Client =>
         \A i \in 1..Len(structs'[p].elems) : structs'[p].elems[i].target <= began.size
  BY <1>3 DEF Started
<1> QED BY <1>2, <1>5, <1>6, <1>7, <1>8 DEF Started

(* What is ended with all its entries is what the value describes.         *)
SettledOnes == [w \in DOMAIN Values |-> Settled(w)]

LEMMA EndsDescribed ==
    ASSUME BaseInv, Applies, Shaped, structs' = structs, frames # <<>>,
           NEW id, id = getHead, ~InStack(id)', NEW v, v = Top.value,
           Carries(Reached, HeadStructure, v, DOMAIN Entries(v))
    PROVE  id \in Settled(v)'
<1> DEFINE s == HeadStructure
           I == DOMAIN Entries(v)
<1>1. /\ s \in Structure /\ Len(s.elems) \in Nat /\ id \in 1..Len(structs) /\ id = getHead
      /\ s = structs[id] /\ DOMAIN s.elems = 1..Len(s.elems)
  BY HeadType, FormsFacts DEF BaseInv, IInv, HeadStructure
<1>2. v \in DOMAIN Values /\ Values[v].kind \in {"map", "slice"}
  BY FrameStructs DEF Top
<1>3. ASSUME NEW i \in 1..Len(s.elems), NEW u \in DOMAIN Values, Shown(Reached, s.elems[i], u)
      PROVE  Shown(SettledOnes, s.elems[i], u)
  <2>1. CASE Values[u].kind = "scalar"
    BY <1>3, <2>1 DEF Shown
  <2>2. CASE Values[u].kind # "scalar"
    <3> DEFINE t == s.elems[i].target
    <3>1. ~isInline(s.elems[i].type) /\ t \in Reached[u]
      BY <1>3, <2>2 DEF Shown
    <3>2. ~InStack(t)
      BY <1>1, OpenBelow DEF BaseInv
    <3>3. t \notin {StructOf(j) : j \in Waiters(u)}
      BY <3>2, FrameStructs DEF Waiters
    <3>4. t \in SettledOnes[u]
      BY <3>1, <3>3 DEF Reached, SettledOnes
    <3> QED BY <2>2, <3>1, <3>4 DEF Shown
  <2> QED BY <2>1, <2>2
<1>4. \A i \in I : Entries(v)[i].value \in DOMAIN Values
  BY <1>2, EntryFacts
<1>5. Carries(SettledOnes, s, v, I)
  <2> HIDE DEF s
  <2>1. CASE Values[v].kind = "map"
    <3>1. HasEntries(SettledOnes, s, v, KeptEntries(v) \cap I)
      BY <1>1, <1>3, <1>4, <2>1 DEF Carries, HasEntries, s
    <3> QED BY <2>1, <3>1 DEF Carries, s
  <2>2. CASE Values[v].kind # "map"
    <3>1. I = 1..Len(s.elems)
      BY <2>2 DEF Carries, s
    <3>2. HasItems(SettledOnes, s, v, I)
      <4>1. HasItems(Reached, s, v, I)
        BY <2>2 DEF Carries, s
      <4> HIDE DEF I
      <4> QED BY <1>3, <1>4, <3>1, <4>1 DEF HasItems
    <3> QED BY <2>2, <3>2 DEF Carries, s
  <2> QED BY <2>1, <2>2
<1> HIDE DEF s
<1>6. IsValue(SettledOnes, s, v)
  BY <1>1, <1>2, <1>5, CarriesAll
<1>7. \A w \in DOMAIN Values : SettledOnes[w] \subseteq Described'[w]
  BY SettledStays DEF BaseInv, SettledOnes, Settled
<1>8. IsValue(Described', s, v)
  BY <1>2, <1>6, <1>7, IsValueGrows
<1>9. id \in DOMAIN structs' /\ structs'[id] = s
  BY <1>1, FormsFacts DEF BaseInv
<1>10. id \in Described'[v]
  BY <1>2, <1>8, <1>9, DescribedNext DEF DescribedIsRight
<1> QED BY <1>10 DEF Settled

LEMMA ReachedPopped ==
    ASSUME BaseInv, Applies, Shaped, structs' = structs, PoppedStack, UNCHANGED began,
           frames # <<>>, frames' = Popped,
           Carries(Reached, HeadStructure, Top.value, DOMAIN Entries(Top.value))
    PROVE  /\ \A w \in DOMAIN Values : Reached[w] \subseteq Reached'[w]
           /\ \A id, v : id = getHead /\ v = Top.value => id \in Settled(v)'
           /\ Len(frames') = Len(frames) - 1
           /\ \A j \in 1..(Len(frames) - 1) : frames'[j] = frames[j] /\ StructOf(j)' = StructOf(j)
<1>0. IInv /\ CallsInv /\ NestInv
  BY DEF BaseInv
<1>1. PICK l \in Nat \ {0}, n \in Nat : /\ l = Len(began.stack) /\ n = Len(frames)
                                         /\ headIndex \in Nat /\ headIndex + 1 = l + n
  BY <1>0, NestedFacts
<1>2. Len(frames') = n - 1 /\ \A j \in 1..(n - 1) : frames'[j] = frames[j]
  BY <1>0, <1>1, FramesFacts
<1>3. /\ Len(inProgress') = headIndex /\ \A i \in 1..headIndex : inProgress'[i] = inProgress[i]
      /\ DOMAIN inProgress' = 1..headIndex
  <2>1. \A i \in 1..headIndex : inProgress[i] \in Nat \ {0}
    BY <1>0, <1>1, ElementOfSeq DEF IInv, TypeOK
  <2>2. inProgress' = SubSeq(inProgress, 1, headIndex)
    BY DEF PoppedStack
  <2>3. /\ SubSeq(inProgress, 1, headIndex) \in Seq(Nat \ {0})
        /\ Len(SubSeq(inProgress, 1, headIndex)) = IF 1 <= headIndex THEN headIndex - 1 + 1 ELSE 0
        /\ \A i \in 1..(headIndex - 1 + 1) : SubSeq(inProgress, 1, headIndex)[i] = inProgress[1 + i - 1]
    BY <1>1, <2>1, SubSeqProperties
  <2> QED BY <1>1, <2>2, <2>3, LenProperties
<1>4. \A j : StructOf(j) = inProgress[l + j] /\ StructOf(j)' = inProgress'[l + j]
  BY <1>1 DEF StructOf
<1>5. ASSUME NEW j \in 1..(n - 1) PROVE StructOf(j)' = StructOf(j)
  <2>1. l + j \in 1..headIndex
    BY <1>1
  <2> QED BY <1>3, <1>4, <2>1
<1>6. ASSUME NEW id, id = getHead PROVE ~InStack(id)'
  <2>1. \A i \in 1..headIndex : inProgress'[i] # id
    <3>1. \A i \in 1..headIndex : inProgress[i] < getHead
      BY HeadIsYoungest DEF BaseInv
    <3>2. getHead \in Nat
      BY HeadType DEF BaseInv, IInv
    <3> QED BY <1>3, <1>6, <3>1, <3>2
  <2> QED BY <1>3, <2>1 DEF InStack, ToSet
<1>7. ASSUME NEW id, NEW v, id = getHead, v = Top.value
      PROVE  id \in Settled(v)'
  BY <1>6, <1>7, EndsDescribed
<1>8. ASSUME NEW w \in DOMAIN Values, NEW id \in Reached[w]
      PROVE  id \in Reached'[w]
  <2>1. Reached[w] = Settled(w) \cup {StructOf(j) : j \in Waiters(w)}
    BY DEF Reached
  <2>2. Reached'[w] = Settled(w)' \cup {StructOf(j)' : j \in Waiters(w)'}
    BY DEF Reached
  <2>3. CASE id \in Settled(w)
    <3>1. Settled(w) \subseteq Settled(w)'
      BY SettledStays DEF BaseInv
    <3> QED BY <2>2, <2>3, <3>1
  <2>4. CASE id \in {StructOf(j) : j \in Waiters(w)}
    <3>1. PICK j \in 1..n : frames[j].value = w /\ id = StructOf(j)
      BY <1>1, <2>4 DEF Waiters
    <3>2. CASE j = n
      <4>1. id = getHead /\ w = Top.value
        BY <1>1, <3>1, <3>2, FrameStructs DEF Top
      <4> QED BY <1>7, <2>2, <4>1
    <3>3. CASE j # n
      <4>1. j \in 1..(n - 1)
        BY <1>1, <3>3
      <4>2. j \in Waiters(w)' /\ StructOf(j)' = id
        BY <1>2, <1>5, <3>1, <4>1 DEF Waiters
      <4> QED BY <2>2, <4>2
    <3> QED BY <3>2, <3>3
  <2> QED BY <2>1, <2>3, <2>4
<1> QED BY <1>1, <1>2, <1>5, <1>7, <1>8

(* The innermost structure is that of the last activation that waits.      *)
LEMMA HeadFacts ==
    ASSUME BaseInv, Applies, frames # <<>>
    PROVE  /\ HeadStructure \in Structure /\ HeadStructure = structs[getHead] /\ getHead # Root
           /\ getHead \in 1..Len(structs) /\ Len(HeadStructure.elems) \in Nat
           /\ HeadStructure.vType = TypeOfValue(Top.value)
           /\ Top.value \in DOMAIN Values /\ TopKind \in {"map", "slice"}
           /\ TopKind = "map" => /\ IsMap(HeadStructure)
                                 /\ Len(HeadStructure.keys) = Len(HeadStructure.elems)
           /\ TopKind = "slice" =>
                 HeadStructure.vType \in SliceTypes \cup ArrayTypes(Len(Entries(Top.value)))
           /\ call # NoCall => Suits(Top, call)
<1>1. /\ HeadStructure \in Structure /\ HeadStructure = structs[getHead]
      /\ getHead \in 1..Len(structs) /\ Len(HeadStructure.elems) \in Nat
  BY HeadType DEF BaseInv, IInv, HeadStructure
<1>2. /\ HeadStructure.vType = TypeOfValue(Top.value)
      /\ Top.value \in DOMAIN Values /\ TopKind \in {"map", "slice"}
  BY FrameStructs DEF Top, TopKind, HeadStructure
<1>3. TopKind = "slice" =>
         HeadStructure.vType \in SliceTypes \cup ArrayTypes(Len(Entries(Top.value)))
  BY <1>2, ValuesAssumption DEF TypeOfValue, TopKind, Entries
<1>4. TopKind = "map" => /\ IsMap(HeadStructure)
                         /\ Len(HeadStructure.keys) = Len(HeadStructure.elems)
  <2>1. HeadStructure \in Form
    BY <1>1, FormsFacts DEF BaseInv
  <2> QED BY <1>2, <2>1 DEF TypeOfValue, TopKind, IsMap, Form, MapOK, KeysOK
<1>5. getHead # Root
  <2>1. HeadStructure.vType # NULL
    <3>1. NULL \notin Startable /\ MAP # NULL
      BY DEF Startable, VarType, isFixedTypedVector, isScalar, isTuple, isTriple, isQuad, VECTOR,
         VECTOR_INT, VECTOR_UINT, VECTOR_FLOAT, VECTOR_BOOL, BLOB, STR, KEY, MAP, NULL
    <3> QED BY <1>2, <1>3, <1>4, <3>1, SlicesStart DEF IsMap
  <2> QED BY <1>1, <2>1 DEF BaseInv, IInv, RootInv
<1>6. call # NoCall => Suits(Top, call)
  BY DEF BaseInv, NestInv, AtStart, Within
<1> QED BY <1>1, <1>2, <1>3, <1>4, <1>5, <1>6

-----------------------------------------------------------------------------
(* What becomes of the entry that is next.                                 *)

(* The entry that is next, taken and refused.                              *)
LEMMA HeadGains ==
    ASSUME BaseInv, Applies, FramesHold, call # NoCall, frames # <<>>,
           \A w \in DOMAIN Values : Reached[w] \subseteq Reached'[w],
           NEW x \in Elem, Shown(Reached', x, call.value),
           NEW h, h.vType = HeadStructure.vType,
           \/ /\ TopKind = "slice"
              /\ h.elems = PutAt(HeadStructure.elems, Len(HeadStructure.elems), x)
           \/ /\ TopKind = "map" /\ call.key > 0
              /\ \E index \in Nat, k \in Key :
                    /\ k.name = call.key
                    /\ h.keys = PutAt(HeadStructure.keys, index, k)
                    /\ h.elems = PutAt(HeadStructure.elems, index, x)
    PROVE  Carries(Reached', h, Top.value, Taken(Len(frames)))
<1> DEFINE v == Top.value
           s == HeadStructure
           T == Taken(Len(frames))
<1>1. /\ s \in Structure /\ v \in DOMAIN Values
      /\ TopKind = "map" => Len(s.keys) = Len(s.elems)
  BY HeadFacts
<1>2. PICK i \in T : /\ Entries(v)[i] = call /\ Carries(Reached, s, v, T \ {i})
                     /\ TopKind = "slice" => i = Len(s.elems) + 1
  BY DEF FramesHold, HasTakenButCall
<1>3. T \subseteq DOMAIN Entries(v)
  BY DEF Taken, Top
<1>4. Carries(Reached', s, v, T \ {i})
  BY <1>1, <1>2, <1>3, CarriesGrows
<1>5. (T \ {i}) \cup {i} = T
  BY <1>2
<1>6. Values[v].kind = TopKind
  BY DEF TopKind
<1> HIDE DEF v, s, T
<1>7. CASE TopKind = "slice" /\ h.elems = PutAt(s.elems, Len(s.elems), x)
  <2>1. Shown(Reached', x, Entries(v)[Len(s.elems) + 1].value)
    BY <1>2, <1>7
  <2>2. h.vType = s.vType
    BY DEF s
  <2>3. Carries(Reached', h, v, (T \ {i}) \cup {Len(s.elems) + 1})
    BY <1>1, <1>4, <1>6, <1>7, <2>1, <2>2, ItemGained
  <2>4. Carries(Reached', h, v, T)
    BY <1>2, <1>5, <1>7, <2>3
  <2> QED BY <2>4 DEF v, T
<1>8. CASE /\ TopKind = "map" /\ call.key > 0
           /\ \E index \in Nat, k \in Key : /\ k.name = call.key
                                            /\ h.keys = PutAt(s.keys, index, k)
                                            /\ h.elems = PutAt(s.elems, index, x)
  <2>1. PICK index \in Nat, k \in Key : /\ k.name = call.key
                                        /\ h.keys = PutAt(s.keys, index, k)
                                        /\ h.elems = PutAt(s.elems, index, x)
    BY <1>8
  <2>2. i \in KeptEntries(v) \ (T \ {i})
    BY <1>2, <1>3, <1>8 DEF KeptEntries
  <2>3. Shown(Reached', x, Entries(v)[i].value) /\ k.name = Entries(v)[i].key
    BY <1>2, <2>1
  <2>4. h.vType = s.vType
    BY DEF s
  <2>5. Carries(Reached', h, v, (T \ {i}) \cup {i})
    BY <1>1, <1>4, <1>6, <1>8, <2>1, <2>2, <2>3, <2>4, EntryGained
  <2>6. Carries(Reached', h, v, T)
    BY <1>5, <2>5
  <2> QED BY <2>6 DEF v, T
<1> QED BY <1>7, <1>8 DEF s

LEMMA HeadRefuses ==
    ASSUME BaseInv, Applies, FramesHold, call # NoCall, frames # <<>>,
           \A w \in DOMAIN Values : Reached[w] \subseteq Reached'[w],
           TopKind = "map", ~(call.key > 0)
    PROVE  Carries(Reached', HeadStructure, Top.value, Taken(Len(frames)))
<1> DEFINE v == Top.value
           s == HeadStructure
           T == Taken(Len(frames))
<1>1. v \in DOMAIN Values /\ Values[v].kind = "map"
  BY HeadFacts DEF TopKind
<1>2. PICK i \in T : Entries(v)[i] = call /\ Carries(Reached, s, v, T \ {i})
  BY DEF FramesHold, HasTakenButCall
<1>3. T \subseteq DOMAIN Entries(v)
  BY DEF Taken, Top
<1> HIDE DEF v, s, T
<1>4. Carries(Reached', s, v, T \ {i})
  BY <1>1, <1>2, <1>3, CarriesGrows
<1>5. i \notin KeptEntries(v)
  BY <1>2 DEF KeptEntries
<1>6. Carries(Reached', s, v, (T \ {i}) \cup {i})
  BY <1>1, <1>4, <1>5, EntryRefused
<1>7. (T \ {i}) \cup {i} = T
  BY <1>2
<1> QED BY <1>6, <1>7 DEF v, s, T

(* The activation of an item of the last frame has returned.               *)
LEMMA ItemDone ==
    ASSUME BaseInv, Applies, Started, FramesHold, call # NoCall, frames # <<>>, Shaped, SameStack,
           UNCHANGED <<frames, began>>, call' = NoCall,
           Carries(Reached', structs'[getHead], Top.value, Taken(Len(frames))),
           TopKind = "slice" => ret' # "error"
    PROVE  Started' /\ FramesHold'
<1> DEFINE n == Len(frames)
<1>1. n \in Nat /\ n \in 1..n /\ StructOf(n) = getHead /\ getHead \in Nat
      /\ \A j \in 1..(n - 1) : j \in 1..n /\ StructOf(j) < getHead
  BY FrameStructs, HeadType DEF BaseInv, IInv
<1>2. \A j : StructOf(j)' = StructOf(j)
  BY DEF StructOf, SameStack
<1>3. \A w \in DOMAIN Values : Reached[w] \subseteq Reached'[w]
  BY <1>2, ReachedGrows
<1>4. Started'
  <2>1. \A j \in 1..Len(frames') : StructOf(j)' > began.size
    BY <1>2 DEF Started
  <2> QED BY <2>1, StartedStays
<1>5. \A j \in 1..(n - 1) : HasTaken(j)'
  <2> TAKE j \in 1..(n - 1)
  <2>1. j \in 1..n /\ StructOf(j) # getHead /\ HasTaken(j)
    <3>1. j \in 1..n /\ StructOf(j) < getHead /\ StructOf(j) \in 1..Len(structs)
      BY <1>1, FrameStructs
    <3> QED BY <1>1, <3>1 DEF FramesHold
  <2> QED BY <1>2, <1>3, <2>1, FrameStays
<1>6. HasTaken(n)'
  <2>1. StructOf(n)' = getHead /\ n' = n
    BY <1>1, <1>2
  <2>2. frames'[n].value = Top.value /\ Taken(n)' = Taken(n)
    BY DEF Top, Taken, Entries
  <2> QED BY <2>1, <2>2 DEF HasTaken
<1>7. ~Failed'
  BY DEF Failed, TopKind, Top
<1>8. StructOf(1)' = StructOf(1) /\ n' = n
  BY <1>2
<1> HIDE DEF n
<1>9. Len(frames') = n /\ Len(frames) = n
  BY DEF n
<1> QED BY <1>4, <1>5, <1>6, <1>7, <1>8, <1>9 DEF FramesHold

(* An activation for a structure has begun.                                *)
LEMMA ReachedPushed ==
    ASSUME BaseInv, Applies, Shaped, PushedStack, EnterFrame, UNCHANGED began, call # NoCall
    PROVE  /\ \A w \in DOMAIN Values : Reached[w] \subseteq Reached'[w]
           /\ NextId \in Reached'[call.value]
           /\ Len(frames') = Len(frames) + 1
           /\ \A j \in 1..Len(frames) : frames'[j] = frames[j] /\ StructOf(j)' = StructOf(j)
           /\ \A j : j = Len(frames) + 1 =>
                 /\ frames'[j].value = call.value /\ frames'[j].left = DOMAIN Entries(call.value)
                 /\ StructOf(j)' = NextId
<1> DEFINE f == [value |-> call.value, left |-> DOMAIN item.entries]
           n == Len(frames)
<1>1. f.value = call.value /\ f.left = DOMAIN Entries(call.value) /\ frames' = Append(frames, f)
  BY DEF EnterFrame, Entries, item
<1> HIDE DEF f
<1>2. /\ n \in Nat /\ Len(frames') = n + 1 /\ frames'[n + 1] = f
      /\ \A j \in 1..n : frames'[j] = frames[j]
  BY <1>1, FramesFacts DEF BaseInv
<1>3. /\ \A j \in 1..n : StructOf(j)' = StructOf(j)
      /\ \A j : j = n + 1 => StructOf(j)' = NextId
  BY PushedStructs
<1>4. \A j \in 1..n : j \in 1..(n + 1)
  BY <1>2
<1>5. \A w \in DOMAIN Values : Reached[w] \subseteq Reached'[w]
  BY <1>2, <1>3, <1>4, ReachedGrows
<1>6. ASSUME NEW u, u = call.value PROVE NextId \in Reached'[u]
  <2>1. u \in DOMAIN Values
    BY <1>6 DEF BaseInv, CallsInv, Calls
  <2>2. Reached'[u] = Settled(u)' \cup {StructOf(j)' : j \in Waiters(u)'}
    BY <2>1 DEF Reached
  <2>3. \A m : m = n + 1 => m \in Waiters(u)' /\ StructOf(m)' = NextId
    BY <1>1, <1>2, <1>3, <1>6 DEF Waiters
  <2> QED BY <2>2, <2>3
<1> QED BY <1>1, <1>2, <1>3, <1>5, <1>6

LEMMA FrameEntered ==
    ASSUME BaseInv, Applies, Shaped, PushedStack, EnterFrame, UNCHANGED began, call # NoCall,
           Known[call.value], item.kind \in {"map", "slice"}, call' = NoCall, ret' = "ok",
           structs'[NextId] = Empty(TypeOfItem),
           IF frames = <<>> THEN call.value = began.value /\ NextId = began.size + 1
           ELSE FramesHold /\ Carries(Reached', structs'[getHead], Top.value, Taken(Len(frames)))
    PROVE  FramesHold'
<1> DEFINE n == Len(frames)
<1>1. n \in Nat /\ (frames = <<>> <=> n = 0)
  BY FramesFacts DEF BaseInv
<1>2. /\ \A w \in DOMAIN Values : Reached[w] \subseteq Reached'[w]
      /\ Len(frames') = n + 1
      /\ \A j \in 1..n : frames'[j] = frames[j] /\ StructOf(j)' = StructOf(j)
      /\ \A j : j = n + 1 => /\ frames'[j].value = call.value
                             /\ frames'[j].left = DOMAIN Entries(call.value)
                             /\ StructOf(j)' = NextId
  BY ReachedPushed
<1>3. \A j \in 1..(n + 1) : Known[frames'[j].value]
  <2> TAKE j \in 1..(n + 1)
  <2>1. CASE j = n + 1
    BY <1>2, <2>1
  <2>2. CASE j # n + 1
    <3>1. j \in 1..n /\ n # 0
      BY <1>1, <2>2
    <3> QED BY <1>1, <1>2, <3>1 DEF FramesHold
  <2> QED BY <2>1, <2>2
<1>4. \A j \in 1..n : HasTaken(j)'
  <2> TAKE j \in 1..n
  <2>0. n # 0 /\ frames # <<>> /\ FramesHold
    BY <1>1
  <2>1. CASE j = n
    <3>1. StructOf(j)' = getHead
      BY <1>2, <2>0, <2>1, FrameStructs
    <3>2. frames'[j].value = Top.value /\ Taken(j)' = Taken(n)
      BY <1>2, <2>1 DEF Top, Taken, Entries
    <3>3. Carries(Reached', structs'[getHead], Top.value, Taken(n))
      BY <2>0
    <3> QED BY <3>1, <3>2, <3>3 DEF HasTaken
  <2>2. CASE j # n
    <3>1. j \in 1..(n - 1)
      BY <1>1, <2>2
    <3>2. StructOf(j) < getHead /\ StructOf(j) \in 1..Len(structs) /\ getHead \in Nat
      BY <3>1, FrameStructs, HeadType DEF BaseInv, IInv
    <3>3. StructOf(j) # getHead /\ HasTaken(j)
      BY <2>0, <3>1, <3>2 DEF FramesHold
    <3> QED BY <1>2, <3>3, FrameStays
  <2> QED BY <2>1, <2>2
<1>5. \A j : j = n + 1 => HasTaken(j)'
  <2> SUFFICES ASSUME NEW j, j = n + 1 PROVE HasTaken(j)'
    OBVIOUS
  <2>1. call.value \in DOMAIN Values /\ Values[call.value] = item
    BY DEF BaseInv, CallsInv, Calls, item
  <2>2. TypeOfItem = TypeOfValue(call.value)
    BY <2>1 DEF TypeOfItem, TypeOfValue
  <2>3. /\ Empty(TypeOfItem).vType = TypeOfValue(call.value)
        /\ Empty(TypeOfItem).elems = <<>>
    BY <2>2 DEF Empty
  <2>4. Carries(Reached', Empty(TypeOfItem), call.value, {})
    BY <2>1, <2>3, CarriesNothing
  <2>5. Taken(j)' = {}
    BY <1>2 DEF Taken, Entries
  <2> QED BY <1>2, <2>4, <2>5 DEF HasTaken
<1>6. frames'[1].value = began.value /\ StructOf(1)' = began.size + 1
  <2>1. CASE n = 0
    BY <1>1, <1>2, <2>1
  <2>2. CASE n # 0
    <3>1. 1 \in 1..n
      BY <1>1, <2>2
    <3> QED BY <1>1, <1>2, <2>2, <3>1 DEF FramesHold
  <2> QED BY <2>1, <2>2
<1>7. ~Failed'
  BY DEF Failed
<1>8. frames' # <<>>
  BY <1>1, <1>2
<1> HIDE DEF n
<1>9. \A j \in 1..(Len(frames') - 1) : HasTaken(j)'
  BY <1>1, <1>2, <1>4
<1>10. HasTaken(Len(frames))'
  BY <1>2, <1>5
<1> QED BY <1>2, <1>3, <1>6, <1>7, <1>8, <1>9, <1>10 DEF FramesHold

(* The structures that are open are younger than those there were.         *)
LEMMA EnteredYounger ==
    ASSUME BaseInv, Applies, Shaped, PushedStack, EnterFrame, UNCHANGED began, call # NoCall,
           Started
    PROVE  \A j \in 1..Len(frames') : StructOf(j)' > began.size
<1>1. /\ Len(frames') = Len(frames) + 1
      /\ \A j \in 1..Len(frames) : StructOf(j)' = StructOf(j)
      /\ \A j : j = Len(frames) + 1 => StructOf(j)' = NextId
  BY ReachedPushed
<1>2. NextId > began.size
  BY FormsFacts DEF BaseInv, Started, NextId
<1>3. Len(frames) \in Nat
  BY FramesFacts DEF BaseInv
<1> QED BY <1>1, <1>2, <1>3 DEF Started

(* The document with a new structure.                                      *)
LEMMA NewDoc ==
    ASSUME BaseInv, NEW h \in Structure, NEW s \in Structure,
           structs' = Append([structs EXCEPT ![getHead] = h], s)
    PROVE  /\ structs'[NextId] = s /\ structs'[getHead] = h /\ NextId \in DOMAIN structs'
           /\ Len(structs') = Len(structs) + 1
<1> DEFINE q == [structs EXCEPT ![getHead] = h]
<1>1. structs \in Seq(Structure) /\ getHead \in 1..Len(structs) /\ Len(structs) \in Nat
  BY HeadType DEF BaseInv, IInv, TypeOK
<1>2. q \in Seq(Structure) /\ Len(q) = Len(structs) /\ q[getHead] = h
  BY <1>1, ExceptSeq
<1>3. structs' = Append(q, s)
  OBVIOUS
<1> HIDE DEF q
<1>4. /\ structs' \in Seq(Structure) /\ Len(structs') = Len(structs) + 1
      /\ structs'[Len(q) + 1] = s /\ structs'[getHead] = q[getHead]
  BY <1>1, <1>2, <1>3, AppendProperties
<1>5. DOMAIN structs' = 1..Len(structs')
  BY <1>4, LenProperties
<1> QED BY <1>1, <1>2, <1>4, <1>5 DEF NextId

(* The head takes a structure that is the item that is next.               *)
LEMMA HeadTakesItem ==
    ASSUME BaseInv, Applies, FramesHold, call # NoCall, frames # <<>>,
           item.kind \in {"string", "map", "slice"},
           \A w \in DOMAIN Values : Reached[w] \subseteq Reached'[w],
           NextId \in Reached'[call.value]
    PROVE  Carries(Reached', HeadWithItem, Top.value, Taken(Len(frames)))
<1> DEFINE x == OffsetTo(NextId, TypeOfItem)
           s == HeadStructure
<1>1. TypeOfItem \in VarType /\ ~isInline(TypeOfItem) /\ NextId \in Nat
  BY ItemStarts, StartableFits, HeadType DEF BaseInv, IInv
<1>2. x \in Elem /\ x.type = TypeOfItem /\ x.target = NextId
  BY <1>1, OffsetType DEF OffsetTo
<1>3. /\ s \in Structure /\ getHead # Root /\ Suits(Top, call) /\ TopKind \in {"map", "slice"}
      /\ call.key \in Nat \cup {NoKey} /\ Len(s.elems) \in Nat
  BY HeadFacts DEF BaseInv, CallsInv, Calls
<1> HIDE DEF x
<1>4. Shown(Reached', x, call.value)
  BY <1>1, <1>2 DEF Shown, item
<1>5. IsStructure(call.value)
  BY DEF IsStructure, item
<1>6. CASE TopKind = "slice"
  <2>1. call.key = NoKey
    BY <1>3, <1>5, <1>6 DEF Suits, TopKind
  <2>2. HeadWithItem = insertOffsetToObject(s, x, Len(s.elems))
    BY <1>3, <2>1 DEF HeadWithItem, HeadWithOffset, EndIndex, x
  <2>3. HeadWithItem.vType = s.vType /\ HeadWithItem.elems = PutAt(s.elems, Len(s.elems), x)
    BY <1>3, <2>2 DEF insertOffsetToObject, Structure
  <2> QED BY <1>2, <1>4, <1>6, <2>3, HeadGains
<1>7. CASE TopKind = "map"
  <2>1. call.key > 0 /\ call.key \in Nat /\ call.key # NoKey
    BY <1>3, <1>5, <1>7 DEF Suits, TopKind, NoKey
  <2> DEFINE k == NewKey(s, call.key)
             i == KeyIndex(s, k)
  <2>2. k \in Key /\ k.name = call.key
    BY <1>3, <2>1, NewKeyType DEF NewKey
  <2>3. i \in Nat
    BY <1>3, <2>2, KeyIndexType
  <2>4. HeadWithItem = insertOffsetToObject(AddKey(s, k), x, i)
    BY <2>1 DEF HeadWithItem, HeadWithKeyedOffset, addOffsetWithKey, x
  <2>5. AddKey(s, k) = [s EXCEPT !.keys = PutAt(s.keys, i, k)]
    BY <1>3 DEF AddKey
  <2> HIDE DEF k, i, s
  <2>6. /\ HeadWithItem.vType = s.vType /\ HeadWithItem.elems = PutAt(s.elems, i, x)
        /\ HeadWithItem.keys = PutAt(s.keys, i, k)
    BY <1>3, <2>4, <2>5 DEF insertOffsetToObject, Structure
  <2> QED BY <1>2, <1>4, <1>7, <2>1, <2>2, <2>3, <2>6, HeadGains DEF s
<1> QED BY <1>3, <1>6, <1>7

(* The value, at first.                                                    *)
LEMMA AtStartFacts ==
    ASSUME BaseInv, Building, AtStart
    PROVE  /\ frames = <<>> /\ call # NoCall /\ call.value = began.value /\ call.key = NoKey
           /\ item.kind \in {"string", "map", "slice"} /\ Known[call.value]
           /\ NextId = began.size + 1 /\ Len(structs) = began.size /\ Client = getHead
           /\ TakesItem
<1>1. /\ frames = <<>> /\ call.value = began.value /\ call.key = NoKey
      /\ inProgress = began.stack /\ Len(structs) = began.size
  BY DEF AtStart
<1>2. call # NoCall /\ item.kind \in {"string", "map", "slice"} /\ Known[call.value]
  BY <1>1 DEF Building, Applies, NoCall, IsStructure, item
<1>3. Client = getHead
  BY <1>1 DEF Client, getHead, BaseInv, IInv, TypeOK
<1>4. TakesItem
  BY <1>1, <1>2, IsTaken DEF BaseInv, Building, IsStructure, item
<1> QED BY <1>1, <1>2, <1>3, <1>4 DEF NextId

LEMMA ValueStarts ==
    ASSUME BaseInv, Building, AtStart, UNCHANGED began, Shaped, ExtendedDoc,
           \A j \in 1..Len(frames') : StructOf(j)' = NextId
    PROVE  Started'
<1>1. /\ NextId = began.size + 1 /\ Len(structs) = began.size /\ Client = getHead
      /\ Client' = Client
  BY AtStartFacts DEF Client
<1>2. /\ getHead \in 1..Len(structs) /\ Len(structs) \in Nat /\ DOMAIN structs = 1..Len(structs)
      /\ structs' \in Seq(Structure) /\ Len(structs') = Len(structs) + 1
      /\ NextId \in ToSet(structs'[getHead].children)
  BY HeadType, FormsFacts, ExtendedDocProperties DEF BaseInv, IInv
<1>3. Owns(structs'[Client].children, began.size + 1)
  <2>1. getHead \in 1..Len(structs')
    BY <1>2
  <2>2. structs'[getHead] \in Structure
    BY <1>2, <2>1, ElementOfSeq
  <2>3. DOMAIN structs'[getHead].children = 1..Len(structs'[getHead].children)
    BY <2>2, LenProperties DEF Structure
  <2> QED BY <1>1, <1>2, <2>3 DEF Owns, ToSet
<1>4. ASSUME NEW p \in 1..began.size, p # Client
      PROVE  \A i \in 1..Len(structs'[p].elems) : structs'[p].elems[i].target <= began.size
  <2>1. structs'[p] = structs[p]
    BY <1>1, <1>2, <1>4, EndedStays DEF BaseInv, Shaped
  <2>2. \A i \in 1..Len(structs[p].elems) :
           structs[p].elems[i].target = NoStruct \/ structs[p].elems[i].target \in (p + 1)..Len(structs)
    BY <1>1, <1>4, Targets DEF BaseInv
  <2> QED BY <1>1, <1>2, <2>1, <2>2 DEF NoStruct
<1>5. began.size \in Nat /\ Client \in 1..began.size /\ began.size < Len(structs')
  BY <1>1, <1>2
<1>6. \A j \in 1..Len(frames') : StructOf(j)' > began.size
  BY <1>1, <1>5
<1>7. began' = began
  OBVIOUS
<1> QED BY <1>1, <1>3, <1>4, <1>5, <1>6, <1>7 DEF Started

(* What the items of slices may be.                                        *)
LEMMA SliceItem ==
    ASSUME BaseInv, Applies, FramesHold, call # NoCall, frames # <<>>, TopKind = "slice"
    PROVE  /\ call.key = NoKey
           /\ Len(HeadStructure.elems) + 1 \in 1..Len(Entries(Top.value))
           /\ HeadStructure.vType # VECTOR =>
                 item.kind = "scalar" /\ allowsElemType(HeadStructure.vType, item.elem.type)
<1> DEFINE v == Top.value
<1>1. v \in DOMAIN Values /\ Values[v].kind = "slice" /\ HeadStructure.vType = Values[v].vType
  BY HeadFacts DEF TopKind, TypeOfValue
<1>2. PICK i \in Taken(Len(frames)) : Entries(v)[i] = call /\ i = Len(HeadStructure.elems) + 1
  BY DEF FramesHold, HasTakenButCall
<1>3. i \in DOMAIN Entries(v) /\ DOMAIN Entries(v) = 1..Len(Entries(v))
  BY <1>1, EntriesAreSeq DEF Taken, Top
<1> HIDE DEF v
<1>4. /\ call.key = NoKey
      /\ Values[v].vType # VECTOR =>
            item.kind = "scalar" /\ allowsElemType(Values[v].vType, item.elem.type)
  BY <1>1, <1>2, <1>3, ValuesAssumption DEF Entries, item
<1> QED BY <1>1, <1>2, <1>3, <1>4 DEF v

(* A slice has room for all its items.                                     *)
LEMMA RoomInSlice ==
    ASSUME NEW n \in Nat, NEW t \in SliceTypes \cup ArrayTypes(n)
    PROVE  /\ ~isBlobLike(t) /\ t # MAP
           /\ \A s : s.vType = t /\ Len(s.elems) \in Nat /\ Len(s.elems) < n => ~isFull(s)
<1>1. CASE t \in SliceTypes
  BY <1>1 DEF SliceTypes, isBlobLike, isFull, isScalar, isTuple, isTriple, isQuad, VECTOR,
              VECTOR_INT, VECTOR_UINT, VECTOR_FLOAT, VECTOR_BOOL, BLOB, STR, KEY, MAP,
              INDIRECT_INT, INDIRECT_UINT, INDIRECT_FLOAT, VECTOR_INT2, VECTOR_UINT2,
              VECTOR_FLOAT2, VECTOR_INT3, VECTOR_UINT3, VECTOR_FLOAT3, VECTOR_INT4, VECTOR_UINT4,
              VECTOR_FLOAT4
<1>2. CASE t \in ArrayTypes(n)
  <2>0. t \in Nat
    BY <1>2 DEF ArrayTypes, VarType, VECTOR_BOOL
  <2>1. CASE n = 1
    <3>1. isScalar(t)
      BY <1>2, <2>1 DEF ArrayTypes
    <3> QED BY <2>0, <2>1, <3>1 DEF isBlobLike, isFull, isScalar, isTuple, isTriple, isQuad, BLOB,
                                   STR, KEY, MAP
  <2>2. CASE n = 2
    <3>1. isTuple(t)
      BY <1>2, <2>2 DEF ArrayTypes
    <3> QED BY <2>0, <2>2, <3>1 DEF isBlobLike, isFull, isScalar, isTuple, isTriple, isQuad, BLOB,
                                   STR, KEY, MAP
  <2>3. CASE n = 3
    <3>1. isTriple(t)
      BY <1>2, <2>3 DEF ArrayTypes
    <3> QED BY <2>0, <2>3, <3>1 DEF isBlobLike, isFull, isScalar, isTuple, isTriple, isQuad, BLOB,
                                   STR, KEY, MAP
  <2>4. CASE n = 4
    <3>1. isQuad(t)
      BY <1>2, <2>4 DEF ArrayTypes
    <3> QED BY <2>0, <2>4, <3>1 DEF isBlobLike, isFull, isScalar, isTuple, isTriple, isQuad, BLOB,
                                   STR, KEY, MAP
  <2>5. CASE n \notin 1..4
    BY <1>2, <2>5 DEF ArrayTypes
  <2> QED BY <2>1, <2>2, <2>3, <2>4, <2>5
<1> QED BY <1>1, <1>2

LEMMA SliceTakesScalar ==
    ASSUME BaseInv, Applies, FramesHold, call # NoCall, frames # <<>>, TopKind = "slice",
           item.kind = "scalar"
    PROVE  TakesScalar
<1> DEFINE s == HeadStructure
           n == Len(Entries(Top.value))
           e == Inline(item.elem)
<1>1. /\ getHead # Root /\ s.vType \in SliceTypes \cup ArrayTypes(n) /\ Len(s.elems) \in Nat
      /\ Top.value \in DOMAIN Values
  BY HeadFacts
<1>2. /\ call.key = NoKey /\ Len(s.elems) + 1 \in 1..n
      /\ s.vType # VECTOR => allowsElemType(s.vType, item.elem.type)
  BY SliceItem
<1>3. n \in Nat
  BY <1>1, EntriesAreSeq
<1> HIDE DEF n
<1>4. Len(s.elems) < n
  BY <1>1, <1>2, <1>3
<1>5. ~isBlobLike(s.vType) /\ s.vType # MAP /\ ~isFull(s)
  BY <1>1, <1>3, <1>4, RoomInSlice
<1>6. allowsElemType(VECTOR, item.elem.type)
  BY DEF allowsElemType, isUintTyped, isIntTyped, isFloatTyped, isBoolTyped, isBlobLike, BLOB, STR,
         KEY, VECTOR, VECTOR_KEY, VECTOR_STRING_DEPRECATED, VECTOR_INT, VECTOR_UINT, VECTOR_FLOAT, VECTOR_BOOL,
         INDIRECT_INT, INDIRECT_UINT, INDIRECT_FLOAT, VECTOR_INT2, VECTOR_UINT2, VECTOR_FLOAT2,
         VECTOR_INT3, VECTOR_UINT3, VECTOR_FLOAT3, VECTOR_INT4, VECTOR_UINT4, VECTOR_FLOAT4
<1>7. e.type = item.elem.type
  BY DEF Inline
<1> HIDE DEF s, e
<1>8. allows(s, e)
  BY <1>2, <1>5, <1>6, <1>7 DEF allows, allowsElemSize
<1>9. TakesElement(getHead, s, e)
  BY <1>1, <1>5, <1>8 DEF TakesElement
<1> QED BY <1>2, <1>9 DEF TakesScalar, s, e

(* The head takes a scalar that is the item that is next, or refuses the   *)
(* key.                                                                    *)
LEMMA HeadTakesScalar ==
    ASSUME BaseInv, Applies, FramesHold, call # NoCall, frames # <<>>, item.kind = "scalar",
           \A w \in DOMAIN Values : Reached[w] \subseteq Reached'[w], TakesScalar
    PROVE  Carries(Reached', HeadWithScalar, Top.value, Taken(Len(frames)))
<1> DEFINE x == Inline(item.elem)
           s == HeadStructure
<1>1. /\ s \in Structure /\ getHead # Root /\ TopKind \in {"map", "slice"} /\ Len(s.elems) \in Nat
      /\ call.key \in Nat \cup {NoKey} /\ (TopKind = "map" => IsMap(s))
  BY HeadFacts DEF BaseInv, CallsInv, Calls
<1>2. item.elem \in InlineElem
  BY ValuesAssumption DEF BaseInv, CallsInv, Calls, item
<1>3. x \in Elem
  BY <1>2, InlineType
<1>4. Shown(Reached', x, call.value)
  BY DEF Shown, item
<1>5. CASE TopKind = "slice"
  <2>1. call.key = NoKey
    BY <1>5, SliceItem
  <2>2. HeadWithScalar = insertElement(s, x, Len(s.elems))
    BY <1>1, <2>1 DEF HeadWithScalar, EndIndex
  <2>3. HeadWithScalar.vType = s.vType /\ HeadWithScalar.elems = PutAt(s.elems, Len(s.elems), x)
    BY <1>1, <2>2 DEF insertElement, Structure
  <2> HIDE DEF x
  <2> QED BY <1>3, <1>4, <1>5, <2>3, HeadGains
<1>6. CASE TopKind = "map"
  <2>1. call.key # NoKey
    BY <1>1, <1>6 DEF TakesScalar, TakesElement, IsMap
  <2>2. call.key \in Nat /\ call.key > 0
    <3>1. call.key # 0
      BY <2>1 DEF TakesScalar, CanStartWithKey, TakesKey, NewKey
    <3>2. call.key \in Nat
      BY <1>1, <2>1
    <3> QED BY <3>1, <3>2
  <2> DEFINE k == NewKey(s, call.key)
             i == KeyIndex(s, k)
  <2>3. k \in Key /\ k.name = call.key
    BY <1>1, <2>2, NewKeyType DEF NewKey
  <2>4. i \in Nat
    BY <1>1, <2>3, KeyIndexType
  <2>5. HeadWithScalar = insertElement(AddKey(s, k), x, i)
    BY <2>1 DEF HeadWithScalar, addElementWithKey
  <2>6. AddKey(s, k) = [s EXCEPT !.keys = PutAt(s.keys, i, k)]
    BY <1>1 DEF AddKey
  <2> HIDE DEF k, i, s, x
  <2>7. /\ HeadWithScalar.vType = s.vType /\ HeadWithScalar.elems = PutAt(s.elems, i, x)
        /\ HeadWithScalar.keys = PutAt(s.keys, i, k)
    BY <1>1, <2>5, <2>6 DEF insertElement, Structure
  <2> QED BY <1>3, <1>4, <1>6, <2>2, <2>3, <2>4, <2>7, HeadGains DEF s
<1> QED BY <1>1, <1>5, <1>6

-----------------------------------------------------------------------------
(* The activations.                                                        *)

LEMMA BuiltScalar ==
    ASSUME BaseInv, Building, BuiltInv, AutoScalar, Shaped, UNCHANGED began
    PROVE  Started' /\ FramesHold'
<1>1. /\ call # NoCall /\ item.kind = "scalar" /\ call' = NoCall /\ UNCHANGED frames
      /\ (TakesScalar /\ structs' = [structs EXCEPT ![getHead] = HeadWithScalar] /\ ret' = "ok")
         \/ (~TakesScalar /\ structs' = structs)
  BY DEF AutoScalar, Return, Fail, doc
<1>2. SameStack
  BY DEF AutoScalar, Fail, doc, SameStack
<1>3. Started /\ FramesHold /\ frames # <<>> /\ Applies
  BY <1>1, AtStartFacts DEF BuiltInv, FramesHold, Building
<1>4. \A w \in DOMAIN Values : Reached[w] \subseteq Reached'[w]
  BY <1>1, <1>2, ReachedGrows DEF StructOf, SameStack
<1>5. Carries(Reached', structs'[getHead], Top.value, Taken(Len(frames)))
  <2>1. CASE TakesScalar
    <3>1. structs'[getHead] = HeadWithScalar
      BY <1>1, <2>1, HeadFacts, FormsFacts, <1>3 DEF BaseInv
    <3> QED BY <1>1, <1>3, <1>4, <2>1, <3>1, HeadTakesScalar
  <2>2. CASE ~TakesScalar
    <3>1. TopKind = "map"
      BY <1>1, <1>3, <2>2, HeadFacts, SliceTakesScalar
    <3>2. ~(call.key > 0)
      <4> SUFFICES ASSUME call.key > 0 PROVE FALSE
        OBVIOUS
      <4>1. call.key \in Nat /\ call.key # 0 /\ call.key # NoKey
        BY <1>1 DEF BaseInv, CallsInv, Calls, NoKey
      <4>2. CanStartWithKey(call.key)
        BY <1>3, <3>1, <4>1, HeadFacts, KeyIsTaken DEF BaseInv, IsMap
      <4> QED BY <2>2, <4>1, <4>2 DEF TakesScalar
    <3>3. structs'[getHead] = HeadStructure
      BY <1>1, <2>2 DEF HeadStructure
    <3> QED BY <1>1, <1>3, <1>4, <3>1, <3>2, <3>3, HeadRefuses
  <2> QED BY <2>1, <2>2
<1>6. TopKind = "slice" => ret' # "error"
  BY <1>1, <1>3, SliceTakesScalar
<1> QED BY <1>1, <1>2, <1>3, <1>5, <1>6, ItemDone

LEMMA BuiltString ==
    ASSUME BaseInv, Building, BuiltInv, AutoString, Shaped, UNCHANGED began
    PROVE  Started' /\ FramesHold'
<1> DEFINE s == AppendText(Empty(STR), item.text)
<1>1. call # NoCall /\ item.kind = "string" /\ call' = NoCall /\ Applies
  BY DEF AutoString, Return, Building
<1>2. TakesItem
  BY <1>1, IsTaken DEF BaseInv, IsStructure, item
<1>3. PushAndEnd(HeadWithItem, s) /\ ret' = "ok" /\ UNCHANGED frames
  BY <1>2 DEF AutoString, Unwind
<1>4. s \in Structure /\ HeadWithItem \in Structure /\ TypeOK /\ StackInv
  BY <1>1, StructureItem DEF Grown, BaseInv, IInv
<1>5. ExtendedDoc /\ SameStack
  BY <1>1, <1>3, <1>4, StructureItem, PushAndEndShape DEF BaseInv
<1>6. /\ structs'[NextId] = s /\ structs'[getHead] = HeadWithItem /\ NextId \in DOMAIN structs'
  BY <1>3, <1>4, NewDoc DEF PushAndEnd
<1>7. call.value \in DOMAIN Values /\ s = AppendText(Empty(STR), Values[call.value].text)
      /\ Values[call.value].kind = "string"
  BY <1>1 DEF BaseInv, CallsInv, Calls, item
<1>8. NextId \in Described'[call.value]
  <2>1. IsValue(Described', structs'[NextId], call.value)
    BY <1>6, <1>7 DEF IsValue
  <2> QED BY <1>6, <1>7, <2>1, DescribedNext DEF DescribedIsRight
<1>9. ASSUME NEW u, NEW id, u = call.value, id = NextId
      PROVE  id \in Settled(u)'
  <2>1. DOMAIN inProgress = 1..(headIndex + 1) /\ \A i \in 1..(headIndex + 1) : inProgress[i] # id
    <3>1. \A i \in 1..(headIndex + 1) : inProgress[i] \in 1..Len(structs)
      BY <1>4 DEF StackInv
    <3>2. id = Len(structs) + 1 /\ Len(structs) \in Nat
      BY <1>9, FormsFacts DEF NextId, BaseInv
    <3> QED BY <1>4, <3>1, <3>2, LenProperties DEF TypeOK
  <2>2. ~InStack(id)'
    BY <1>5, <2>1 DEF InStack, ToSet, SameStack
  <2> QED BY <1>8, <1>9, <2>2 DEF Settled
<1> HIDE DEF s
<1>10. CASE AtStart
  <2>1. /\ frames = <<>> /\ NextId = began.size + 1 /\ call.value = began.value
    BY <1>10, AtStartFacts
  <2>2. Len(frames') = 0 /\ frames' = <<>>
    BY <1>3, <2>1
  <2>3. Started'
    BY <1>5, <1>10, <2>2, ValueStarts
  <2>4. \A u, id : u = began.value /\ id = began.size + 1 => id \in Settled(u)'
    BY <1>9, <2>1
  <2>5. (began.size + 1 \in Settled(began.value))'
    BY <2>4
  <2> QED BY <1>1, <2>2, <2>3, <2>5 DEF FramesHold
<1>11. CASE ~AtStart
  <2>1. Started /\ FramesHold /\ frames # <<>>
    BY <1>1, <1>11 DEF BuiltInv, FramesHold
  <2>2. \A w \in DOMAIN Values : Reached[w] \subseteq Reached'[w]
    BY <1>3, <1>5, ReachedGrows DEF StructOf, SameStack
  <2>3. NextId \in Reached'[call.value]
    <3>1. \A u \in DOMAIN Values : Settled(u)' \subseteq Reached'[u]
      BY DEF Reached
    <3> QED BY <1>7, <1>9, <3>1
  <2>4. Carries(Reached', structs'[getHead], Top.value, Taken(Len(frames)))
    BY <1>1, <1>6, <2>1, <2>2, <2>3, HeadTakesItem
  <2> QED BY <1>1, <1>3, <1>5, <2>1, <2>4, ItemDone
<1> QED BY <1>10, <1>11

LEMMA BuiltEnter ==
    ASSUME BaseInv, Building, BuiltInv, Shaped, UNCHANGED began, call # NoCall,
           item.kind \in {"map", "slice"}, Push(HeadWithItem, Empty(TypeOfItem)), EnterFrame,
           call' = NoCall, ret' = "ok"
    PROVE  Started' /\ FramesHold'
<1>1. Empty(TypeOfItem) \in Structure /\ HeadWithItem \in Structure /\ TypeOK /\ Applies
  BY StructureItem DEF Grown, BaseInv, IInv, Building
<1>2. ExtendedDoc /\ PushedStack
  BY <1>1, StructureItem, PushShape DEF BaseInv
<1>3. structs'[NextId] = Empty(TypeOfItem) /\ structs'[getHead] = HeadWithItem
  BY <1>1, NewDoc DEF Push
<1>4. CASE AtStart
  <2>1. /\ frames = <<>> /\ NextId = began.size + 1 /\ call.value = began.value
        /\ Known[call.value] /\ Len(frames) = 0
    BY <1>4, AtStartFacts
  <2>2. \A j \in 1..Len(frames') : StructOf(j)' = NextId
    <3>1. Len(frames') = 1 /\ \A j : j = 1 => StructOf(j)' = NextId
      BY <1>1, <1>2, <2>1, ReachedPushed
    <3> QED BY <3>1
  <2>3. Started'
    BY <1>2, <1>4, <2>2, ValueStarts
  <2>4. FramesHold'
    BY <1>1, <1>2, <1>3, <2>1, FrameEntered
  <2> QED BY <2>3, <2>4
<1>5. CASE ~AtStart
  <2>1. Started /\ FramesHold /\ frames # <<>> /\ Known[call.value]
    BY <1>5 DEF BuiltInv, FramesHold
  <2>2. /\ \A w \in DOMAIN Values : Reached[w] \subseteq Reached'[w]
        /\ NextId \in Reached'[call.value]
    BY <1>1, <1>2, ReachedPushed
  <2>3. Carries(Reached', structs'[getHead], Top.value, Taken(Len(frames)))
    BY <1>1, <1>3, <2>1, <2>2, HeadTakesItem
  <2>4. FramesHold'
    BY <1>1, <1>2, <1>3, <2>1, <2>3, FrameEntered
  <2>5. Started'
    BY <1>1, <1>2, <2>1, EnteredYounger, StartedStays
  <2> QED BY <2>4, <2>5
<1> QED BY <1>4, <1>5

(* The next entry is taken from its activation.                            *)
LEMMA BuiltNext ==
    ASSUME BaseInv, Building, BuiltInv, NEW i, NextEntry(i), Shaped, UNCHANGED began
    PROVE  Started' /\ FramesHold'
<1>1. /\ call = NoCall /\ frames # <<>> /\ i \in Top.left /\ NextInOrder(i)
      /\ call' = Values[Top.value].entries[i] /\ UNCHANGED vars
      /\ frames' = [frames EXCEPT ![Len(frames)].left = @ \ {i}]
  BY DEF NextEntry, Waiting
<1>2. Started /\ FramesHold /\ Applies
  BY <1>1, AtStartFacts DEF BuiltInv, Building
<1>3. PICK n \in Nat : n = Len(frames) /\ n \in 1..n
  BY <1>1, <1>2, FrameStructs
<1>4. PICK v \in DOMAIN Values : v = Top.value
  BY <1>1, <1>2, HeadFacts
<1>5. /\ frames[n] = Top /\ StructOf(n) = getHead /\ i \in DOMAIN Entries(v)
      /\ Top.left \subseteq DOMAIN Entries(v) /\ Known[v]
      /\ \A j \in 1..(n - 1) : j \in 1..n /\ StructOf(j) < getHead
      /\ \A j \in 1..n : StructOf(j) \in 1..Len(structs)
  <2>1. frames[n] = Top
    BY <1>3 DEF Top
  <2>2. Top.left \subseteq DOMAIN Entries(v)
    BY <1>2, <1>3, <1>4, <2>1, FrameStructs
  <2>3. Known[v]
    BY <1>2, <1>3, <1>4, <2>1 DEF FramesHold
  <2> QED BY <1>1, <1>2, <1>3, <2>1, <2>2, <2>3, FrameStructs
<1>6. /\ Len(frames') = n
      /\ \A j \in 1..n : frames'[j].value = frames[j].value
      /\ \A j \in 1..n : j # n => frames'[j] = frames[j]
      /\ frames'[n].left = Top.left \ {i}
  <2> DEFINE g == [Top EXCEPT !.left = @ \ {i}]
  <2>1. Top \in Frames /\ g \in Frames /\ g.value = Top.value /\ g.left = Top.left \ {i}
    BY <1>1, TopType, FrameProperties DEF Frames, BaseInv
  <2>2. frames' = [frames EXCEPT ![n] = g]
    BY <1>1, <1>3 DEF Top
  <2> HIDE DEF g
  <2>3. Len(frames') = n /\ \A j \in 1..n : frames'[j] = IF j = n THEN g ELSE frames[j]
    BY <1>3, <2>1, <2>2, ExceptSeq DEF CallsInv, BaseInv
  <2> QED BY <1>3, <1>5, <2>1, <2>3
<1>7. /\ \A j : StructOf(j)' = StructOf(j)
      /\ HeadStructure' = HeadStructure /\ structs' = structs
  BY <1>1 DEF StructOf, vars, HeadStructure, getHead
<1>8. \A w \in DOMAIN Values : Reached[w] \subseteq Reached'[w]
  BY <1>3, <1>6, <1>7, ReachedGrows
<1>9. /\ call' = Entries(v)[i] /\ call'.value \in DOMAIN Values /\ call' # NoCall
      /\ Known[call'.value]
  <2>1. call' = Entries(v)[i]
    BY <1>1, <1>4 DEF Entries
  <2>2. call'.value \in DOMAIN Values
    BY <1>5, <2>1, EntryFacts
  <2> QED BY <1>5, <2>1, <2>2, KnownDef, ValuesAssumption DEF NoCall
<1>10. PICK T : T = Taken(n) /\ T = DOMAIN Entries(v) \ Top.left
  BY <1>4, <1>5 DEF Taken
<1>11. Carries(Reached, HeadStructure, v, T)
  BY <1>1, <1>2, <1>3, <1>4, <1>5, <1>10 DEF FramesHold, HasTaken, HeadStructure
<1>12. TopKind = "slice" => i = Len(HeadStructure.elems) + 1
  <2> SUFFICES ASSUME TopKind = "slice" PROVE i = Len(HeadStructure.elems) + 1
    OBVIOUS
  <2> DEFINE m == Len(HeadStructure.elems)
             N == Len(Entries(v))
  <2>1. m \in Nat /\ N \in Nat /\ DOMAIN Entries(v) = 1..N
    BY <1>1, <1>2, HeadFacts, EntriesAreSeq
  <2>2. T = 1..m
    BY <1>4, <1>11 DEF TopKind, Carries
  <2> HIDE DEF m, N
  <2>3. \A x \in Top.left : x \in Nat /\ x >= m + 1
    BY <1>5, <1>10, <2>1, <2>2
  <2>4. m + 1 \in Top.left
    <3>1. i \in 1..N /\ i >= m + 1
      BY <1>1, <1>5, <2>1, <2>3
    <3>2. m + 1 \in 1..N /\ m + 1 \notin 1..m
      BY <2>1, <3>1
    <3> QED BY <1>10, <2>1, <2>2, <3>2
  <2>5. i = Min(Top.left)
    BY <1>1 DEF NextInOrder
  <2>6. Min(Top.left) \in Top.left /\ \A y \in Top.left : Min(Top.left) <= y
    <3>1. \E x \in Top.left : \A y \in Top.left : x <= y
      BY <2>1, <2>3, <2>4
    <3> QED BY <3>1 DEF Min
  <2>7. i <= m + 1 /\ i >= m + 1 /\ i \in Nat
    BY <2>3, <2>4, <2>5, <2>6
  <2> QED BY <2>1, <2>7 DEF m
<1>13. HasTakenButCall'
  <2>1. Taken(n)' = T \cup {i} /\ i \notin T
    <3>1. Taken(n)' = DOMAIN Entries(v) \ (Top.left \ {i})
      BY <1>3, <1>4, <1>5, <1>6 DEF Taken, Entries
    <3> QED BY <1>1, <1>5, <1>10, <3>1
  <2>2. (T \cup {i}) \ {i} = T
    BY <2>1
  <2>3. Carries(Reached', HeadStructure, v, T)
    BY <1>8, <1>10, <1>11, CarriesGrows
  <2>4. Top'.value = v /\ (TopKind' = "slice" => TopKind = "slice")
    BY <1>3, <1>4, <1>5, <1>6 DEF Top, TopKind
  <2>5. /\ Entries(v)[i] = call' /\ Carries(Reached', HeadStructure', v, Taken(n)' \ {i})
        /\ (TopKind' = "slice" => i = Len(HeadStructure'.elems) + 1) /\ i \in Taken(n)'
    BY <1>7, <1>9, <1>12, <2>1, <2>2, <2>3, <2>4
  <2>6. Entries(Top'.value) = Entries(v) /\ Taken(Len(frames))' = Taken(n)'
    BY <1>6, <2>4 DEF Taken
  <2> QED BY <2>4, <2>5, <2>6 DEF HasTakenButCall, Entries
<1>14. \A j \in 1..(n - 1) : HasTaken(j)'
  <2> TAKE j \in 1..(n - 1)
  <2>1. j \in 1..n /\ j # n /\ StructOf(j) # getHead
    <3>1. getHead \in Nat
      BY HeadType DEF BaseInv, IInv
    <3> QED BY <1>3, <1>5, <3>1
  <2>2. HasTaken(j)
    BY <1>2, <1>3 DEF FramesHold
  <2> QED BY <1>2, <1>3, <1>6, <1>7, <1>8, <2>1, <2>2, FrameStays
<1>15. Started'
  <2>1. \A j \in 1..Len(frames') : StructOf(j)' > began.size
    BY <1>2, <1>3, <1>6, <1>7 DEF Started
  <2> QED BY <1>1, <1>2, <2>1, StartedStays
<1>16. \A j \in 1..n : Known[frames'[j].value]
  BY <1>2, <1>3, <1>6 DEF FramesHold
<1>17. frames' # <<>> /\ frames'[1].value = began.value /\ \A j : j = 1 => StructOf(j)' = began.size + 1
  BY <1>1, <1>2, <1>3, <1>6, <1>7 DEF FramesHold
<1> QED BY <1>6, <1>9, <1>13, <1>14, <1>15, <1>16, <1>17 DEF FramesHold

(* An activation has built all its entries.                                *)
LEMMA BuiltLeave ==
    ASSUME BaseInv, Building, BuiltInv, Leave, Shaped, UNCHANGED began
    PROVE  Started' /\ FramesHold'
<1>1. call = NoCall /\ call' = NoCall /\ frames # <<>> /\ (Failed \/ Top.left = {})
  BY DEF Leave, Waiting
<1>2. Started /\ FramesHold /\ Applies
  BY <1>1, AtStartFacts DEF BuiltInv, Building
<1>3. ~Failed /\ Top.left = {}
  BY <1>1, <1>2 DEF FramesHold
<1>4. Pop /\ ret' = "ok" /\ frames' = Popped
  <2>1. headIndex >= 1
    <3>1. Len(frames) # 0
      BY <1>1, FramesFacts DEF BaseInv
    <3> QED BY <1>2, <3>1, NestedFacts DEF BaseInv
  <2> QED BY <1>2, <1>3, <2>1, NestedFacts DEF Leave, Unwind, BaseInv
<1>5. structs' = structs /\ PoppedStack
  BY <1>4, PopShape DEF BaseInv, IInv
<1>6. PICK n \in Nat : n = Len(frames) /\ n \in 1..n
  BY <1>1, <1>2, FrameStructs
<1>7. PICK v : v = Top.value
  OBVIOUS
<1>8. PICK id \in Nat : id = getHead
  BY HeadType DEF BaseInv, IInv
<1>9. Carries(Reached, HeadStructure, Top.value, DOMAIN Entries(Top.value))
  <2>1. frames[n] = Top /\ StructOf(n) = getHead
    BY <1>1, <1>2, <1>6, FrameStructs DEF Top
  <2>2. Taken(n) = DOMAIN Entries(Top.value)
    BY <1>3, <2>1 DEF Taken
  <2> QED BY <1>1, <1>2, <1>6, <2>1, <2>2 DEF FramesHold, HasTaken, HeadStructure
<1>10. /\ \A w \in DOMAIN Values : Reached[w] \subseteq Reached'[w]
       /\ id \in Settled(v)' /\ Len(frames') = n - 1
       /\ \A j \in 1..(n - 1) : frames'[j] = frames[j] /\ StructOf(j)' = StructOf(j)
  BY <1>1, <1>2, <1>4, <1>5, <1>6, <1>7, <1>8, <1>9, ReachedPopped
<1>11. \A j \in 1..(n - 1) : j \in 1..n
  BY <1>6
<1>12. Started'
  <2>1. \A j \in 1..Len(frames') : StructOf(j)' > began.size
    BY <1>2, <1>6, <1>10, <1>11 DEF Started
  <2> QED BY <1>1, <1>2, <2>1, StartedStays
<1>13. CASE n = 1
  <2>1. frames' = <<>>
    BY <1>4, <1>6, <1>13 DEF Popped
  <2>2. v = began.value /\ id = began.size + 1
    BY <1>1, <1>2, <1>6, <1>7, <1>8, <1>13, FrameStructs DEF FramesHold, Top
  <2>3. (began.size + 1 \in Settled(began.value))'
    <3>1. \A u, x : u = v /\ x = id => x \in Settled(u)'
      BY <1>10
    <3>2. began'.value = v /\ began'.size + 1 = id
      BY <2>2
    <3> QED BY <3>1, <3>2 DEF Settled
  <2>4. Len(frames') = 0
    BY <1>10, <1>13
  <2> QED BY <1>1, <1>12, <2>1, <2>3, <2>4 DEF FramesHold
<1>14. CASE n # 1
  <2>1. 1 \in 1..(n - 1) /\ frames' # <<>> /\ n - 1 \in 1..(n - 1)
        /\ \A j \in 1..(n - 2) : j \in 1..(n - 1)
    <3>1. n - 1 # 0
      BY <1>6, <1>14
    <3> QED BY <1>6, <1>10, <3>1
  <2>2. \A j \in 1..(n - 1) : HasTaken(j)'
    <3> TAKE j \in 1..(n - 1)
    <3>1. j \in 1..n /\ StructOf(j) # getHead
      BY <1>2, <1>6, <1>8, <1>11, FrameStructs
    <3>2. HasTaken(j)
      BY <1>2, <1>6 DEF FramesHold
    <3> QED BY <1>2, <1>6, <1>10, <3>1, <3>2, FrameStays
  <2>3. ~Failed'
    BY <1>4 DEF Failed
  <2>4. \A j \in 1..(n - 1) : Known[frames'[j].value]
    BY <1>2, <1>6, <1>10, <1>11 DEF FramesHold
  <2>5. frames'[1].value = began'.value /\ \A j : j = 1 => StructOf(j)' = began'.size + 1
    BY <1>1, <1>2, <1>10, <2>1 DEF FramesHold
  <2>6. Len(frames') - 1 = n - 2 /\ HasTaken(Len(frames))'
    <3>1. Len(frames') = n - 1
      BY <1>10
    <3>2. \A j : j = n - 1 => HasTaken(j)'
      BY <2>1, <2>2
    <3> QED BY <1>6, <3>1, <3>2
  <2>7. \A j \in 1..(Len(frames') - 1) : HasTaken(j)'
    BY <2>1, <2>2, <2>6
  <2>8. \A j \in 1..Len(frames') : Known[frames'[j].value]
    BY <1>10, <2>4
  <2> QED BY <1>1, <1>12, <2>1, <2>3, <2>5, <2>6, <2>7, <2>8 DEF FramesHold
<1> QED BY <1>13, <1>14

(* The activations of a value that is known never fail.                    *)
LEMMA ActivationBuilds ==
    ASSUME BaseInv, Building, BuiltInv, Activation, Shaped, UNCHANGED began
    PROVE  Started' /\ FramesHold'
<1>1. Applies
  BY DEF Building
<1>2. ASSUME call # NoCall, IsStructure(call.value) PROVE TakesItem
  BY <1>1, <1>2, IsTaken DEF BaseInv
<1>3. CASE AutoOther
  <2>1. call # NoCall /\ item.kind = "other"
    BY <1>3 DEF AutoOther
  <2>2. ~AtStart
    BY <2>1, AtStartFacts
  <2>3. Known[call.value] /\ call.value \in DOMAIN Values
    BY <2>1, <2>2 DEF BuiltInv, FramesHold, BaseInv, CallsInv, Calls
  <2> QED BY <2>1, <2>3, KnownDef DEF item
<1>4. CASE EnterMap
  <2>1. call # NoCall /\ item.kind = "map" /\ call' = NoCall /\ ret' = "ok" /\ EnterFrame
    BY <1>4 DEF EnterMap, Return
  <2>2. TakesItem
    BY <1>2, <2>1 DEF IsStructure, item
  <2>3. Push(HeadWithItem, Empty(TypeOfItem))
    BY <1>4, <2>1, <2>2 DEF EnterMap, TypeOfItem
  <2> QED BY <2>1, <2>3, BuiltEnter
<1>5. CASE EnterSlice
  <2>1. call # NoCall /\ item.kind = "slice" /\ call' = NoCall
    BY <1>5 DEF EnterSlice, Return
  <2>2. TakesItem
    BY <1>2, <2>1 DEF IsStructure, item
  <2>3. Push(HeadWithItem, Empty(TypeOfItem)) /\ ret' = "ok" /\ EnterFrame
    BY <1>5, <2>1, <2>2 DEF EnterSlice, TypeOfItem, Unwind
  <2> QED BY <2>1, <2>3, BuiltEnter
<1> QED BY <1>3, <1>4, <1>5, BuiltScalar, BuiltString, BuiltNext, BuiltLeave DEF Activation

LEMMA StutterBuilds ==
    ASSUME BaseInv, Building, BuiltInv, Shaped, UNCHANGED allVars, ~AtStart
    PROVE  Started' /\ FramesHold'
<1>1. Started /\ FramesHold /\ Applies
  BY DEF BuiltInv, Building
<1>2. /\ UNCHANGED <<structs, frames, call, began, ret>> /\ \A j : StructOf(j)' = StructOf(j)
      /\ HeadStructure' = HeadStructure /\ (Failed' => Failed)
  BY DEF allVars, auto, vars, StructOf, HeadStructure, getHead, Failed, TopKind, Top
<1>3. \A w \in DOMAIN Values : Reached[w] \subseteq Reached'[w]
  BY <1>2, ReachedGrows
<1>4. Started'
  BY <1>1, <1>2 DEF Started, Client
<1>5. ASSUME NEW j \in 1..Len(frames), NEW I, I \subseteq Taken(j), NEW s,
             Carries(Reached, s, frames[j].value, I)
      PROVE  Carries(Reached', s, frames[j].value, I)
  <2>1. frames[j].value \in DOMAIN Values /\ I \subseteq DOMAIN Entries(frames[j].value)
    BY <1>1, <1>5, FrameStructs DEF Taken
  <2> QED BY <1>3, <1>5, <2>1, CarriesGrows
<1>6. \A j \in 1..Len(frames) : HasTaken(j) => HasTaken(j)'
  BY <1>2, <1>5 DEF HasTaken, Taken
<1>7. CASE frames = <<>>
  <2>1. began.value \in DOMAIN Values
    BY DEF Building, Applies, BaseInv, NestInv
  <2>2. began.size + 1 \in Settled(began.value)
    BY <1>1, <1>7 DEF FramesHold
  <2>3. (began.size + 1 \in Settled(began.value))'
    <3>1. \A u \in DOMAIN Values : \A x : x \in Settled(u) => x \in Settled(u)'
      BY SettledStays DEF BaseInv
    <3> QED BY <1>2, <2>1, <2>2, <3>1 DEF Settled
  <2>4. \A j \in 1..Len(frames) : FALSE
    BY <1>7
  <2> QED BY <1>1, <1>2, <1>4, <1>7, <2>3, <2>4 DEF FramesHold
<1>8. CASE frames # <<>>
  <2>1. Len(frames) \in 1..Len(frames) /\ Top = frames[Len(frames)] /\ Top' = Top
        /\ \A j \in 1..(Len(frames) - 1) : j \in 1..Len(frames)
    BY <1>1, <1>2, <1>8, FrameStructs DEF Top
  <2>2. HasTakenButCall => HasTakenButCall'
    <3> SUFFICES ASSUME NEW i \in Taken(Len(frames)), Entries(Top.value)[i] = call,
                        Carries(Reached, HeadStructure, Top.value, Taken(Len(frames)) \ {i}),
                        TopKind = "slice" => i = Len(HeadStructure.elems) + 1
                 PROVE  HasTakenButCall'
      BY DEF HasTakenButCall
    <3>1. Carries(Reached', HeadStructure, Top.value, Taken(Len(frames)) \ {i})
      BY <1>5, <2>1
    <3>2. TopKind' = TopKind /\ Taken(Len(frames))' = Taken(Len(frames))
      BY <1>2, <2>1 DEF TopKind, Taken
    <3> QED BY <1>2, <2>1, <3>1, <3>2 DEF HasTakenButCall, Entries
  <2>3. HasTaken(Len(frames)) => HasTaken(Len(frames))'
    <3>1. \A j : j = Len(frames) => (HasTaken(j) => HasTaken(j)')
      BY <1>6, <2>1
    <3> QED BY <1>2, <3>1
  <2>4. \A j : j = 1 => StructOf(j)' = StructOf(j)
    BY <1>2
  <2> QED BY <1>1, <1>2, <1>4, <1>6, <1>8, <2>1, <2>2, <2>3, <2>4 DEF FramesHold
<1> QED BY <1>7, <1>8

LEMMA StepBuilds ==
    ASSUME BaseInv, BuiltInv, [AutoNext]_allVars
    PROVE  BuiltInv'
<1>1. Shaped
  BY StepShaped
<1>2. CASE Activation
  <2>1. UNCHANGED began
    BY <1>2 DEF Activation, AutoScalar, AutoString, AutoOther, EnterMap, EnterSlice, NextEntry,
                Leave, Return
  <2>2. Building' = Building
    BY <2>1 DEF Building, Applies, ValueIsTaken
  <2> QED BY <1>1, <1>2, <2>1, <2>2, ActivationBuilds DEF BuiltInv
<1>3. CASE OtherCall
  <2>1. began'.value = 0
    BY <1>3 DEF OtherCall, NotBegan
  <2> QED BY <2>1 DEF BuiltInv, Building, Applies
<1>4. ASSUME NEW v \in DOMAIN Values, AutoBuild(v) PROVE BuiltInv'
  <2>1. AtStart'
    BY <1>4 DEF AutoBuild, Idle, AtStart, vars, HeadStructure, getHead
  <2> QED BY <2>1 DEF BuiltInv
<1>5. CASE UNCHANGED allVars
  <2>1. Building' => Building
    BY <1>5 DEF allVars, auto, Building, Applies, ValueIsTaken
  <2>2. AtStart => AtStart'
    BY <1>5 DEF allVars, auto, vars, AtStart, HeadStructure, getHead
  <2> QED BY <1>1, <1>5, <2>1, <2>2, StutterBuilds DEF BuiltInv
<1> QED BY <1>2, <1>3, <1>4, <1>5 DEF AutoNext

(* The value when AutoBuild has returned.                                  *)
LEMMA BuiltAtReturn ==
    ASSUME BaseInv, BuiltInv
    PROVE  ValueIsBuilt
<1> DEFINE id == began.size + 1
<1> SUFFICES ASSUME Returned, Building
             PROVE  /\ id \in Described[began.value]
                    /\ References(id) \subseteq {Client} \X (1..MaxElems)
                    /\ \A p \in 1..began.size : p # Client =>
                          \A i \in DOMAIN structs[p].elems : structs[p].elems[i].target <= began.size
  BY DEF ValueIsBuilt, Building, Applies, Returned, Client
<1>1. call = NoCall /\ frames = <<>>
  BY DEF Returned, Idle
<1>2. Started /\ FramesHold
  BY <1>1, AtStartFacts DEF BuiltInv
<1>3. id \in Described[began.value]
  BY <1>1, <1>2 DEF FramesHold, Settled
<1>4. /\ began.size \in Nat /\ Client \in 1..began.size /\ began.size < Len(structs)
      /\ Owns(structs[Client].children, id) /\ Len(structs) \in Nat
      /\ DOMAIN structs = 1..Len(structs) /\ IsTree(structs)
  BY <1>2, FormsFacts DEF Started, BaseInv
<1>5. id \in 2..Len(structs) /\ Client \in 1..Len(structs)
  BY <1>4
<1>6. PICK p \in 1..(id - 1) : IsParent(structs, p, id)
  BY <1>4, <1>5 DEF IsTree
<1>7. p = Client
  BY <1>4, <1>5, <1>6 DEF IsParent, Mentions
<1>8. ASSUME NEW r \in References(id)
      PROVE  r \in {Client} \X (1..MaxElems)
  <2>1. r = <<r[1], r[2]>> /\ r[1] \in DOMAIN structs /\ r[2] \in 1..MaxElems
        /\ r[2] \in DOMAIN structs[r[1]].elems /\ structs[r[1]].elems[r[2]].target = id
    BY <1>8 DEF References
  <2>2. r[2] \in 1..Len(structs[r[1]].elems)
    BY <1>4, <2>1, FormsFacts DEF BaseInv
  <2>3. Mentions(structs[r[1]], id)
    BY <2>1, <2>2 DEF Mentions, RefersTo
  <2>4. r[1] = Client
    BY <1>4, <1>6, <1>7, <2>1, <2>3 DEF IsParent
  <2> QED BY <2>1, <2>4
<1>9. ASSUME NEW q \in 1..began.size, q # Client, NEW i \in DOMAIN structs[q].elems
      PROVE  structs[q].elems[i].target <= began.size
  <2>1. q \in 1..Len(structs)
    BY <1>4
  <2>2. i \in 1..Len(structs[q].elems)
    BY <2>1, FormsFacts DEF BaseInv
  <2> QED BY <1>2, <1>9, <2>2 DEF Started
<1> QED BY <1>3, <1>8, <1>9

(* A value in which AutoBuild knows all types and no structure has a key   *)
(* that a map refuses is built whole: whatever it is, and in whatever      *)
(* order Go takes the entries of its maps, the structure of the client has *)
(* it, and the structures there were before have nothing of it.            *)
THEOREM AutoBuildsValue == AutoSpec => []ValueIsBuilt
<1>1. ASSUME AutoInit PROVE ToldInv /\ NestInv /\ FormsInv /\ BuiltInv
  <2>1. ToldInv /\ FormsInv
    BY <1>1, InitTold, InitForms DEF AutoInit
  <2>2. NestInv /\ BuiltInv
    BY <1>1 DEF AutoInit, NestInv, NotBegan, BuiltInv, Building, Applies
  <2> QED BY <2>1, <2>2
<1>2. ASSUME IInv, CallsInv, ToldInv, NestInv, FormsInv, BuiltInv, [AutoNext]_allVars
      PROVE  ToldInv' /\ NestInv' /\ FormsInv' /\ BuiltInv'
  <2>1. ToldInv'
    BY <1>2, StepShaped, ShapedTold DEF BaseInv
  <2>2. BuiltInv'
    BY <1>2, StepBuilds DEF BaseInv
  <2> QED BY <1>2, <2>1, <2>2, StepNests, AutoKeepsForms
<1>3. IInv /\ CallsInv /\ ToldInv /\ NestInv /\ FormsInv /\ BuiltInv => ValueIsBuilt
  BY BuiltAtReturn DEF BaseInv
<1> QED BY <1>1, <1>2, <1>3, AutoInvariance, PTL DEF AutoSpec
=============================================================================
