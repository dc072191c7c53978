-------------------------- MODULE FlexObjectProofs --------------------------
(***************************************************************************)
(* Lemmas about the operators of FlexObjects: what they return, that a map *)
(* takes a key and a value without losing its order, and what becomes of   *)
(* the references of a structure, its children, and the entries of a map.  *)
(***************************************************************************)
EXTENDS FlexObjects, TLAPS, SequenceTheorems, FiniteSetTheorems

-----------------------------------------------------------------------------
(* Lemmas about the operators.                                             *)

(* What lies where in a sequence put together of a front, x and a back.    *)
LEMMA SpliceProperties ==
    ASSUME NEW S, NEW front \in Seq(S), NEW x \in S, NEW back \in Seq(S),
           NEW s, s = front \o <<x>> \o back
    PROVE  /\ s \in Seq(S)
           /\ Len(s) = Len(front) + 1 + Len(back)
           /\ \A i \in 1..(Len(front) + 1 + Len(back)) :
                 s[i] = IF i <= Len(front) THEN front[i]
                        ELSE IF i = Len(front) + 1 THEN x ELSE back[i - (Len(front) + 1)]
<1> DEFINE mid == <<x>>
<1>1. mid \in Seq(S) /\ Len(mid) = 1 /\ mid[1] = x
  OBVIOUS
<1> HIDE DEF mid
<1> DEFINE fm == front \o mid
<1>2. /\ fm \in Seq(S) /\ Len(fm) = Len(front) + 1
      /\ \A i \in 1..(Len(front) + 1) : fm[i] = IF i <= Len(front) THEN front[i] ELSE x
  <2>1. /\ fm \in Seq(S) /\ Len(fm) = Len(front) + Len(mid)
        /\ \A i \in 1..(Len(front) + Len(mid)) :
              fm[i] = IF i <= Len(front) THEN front[i] ELSE mid[i - Len(front)]
    BY <1>1, ConcatProperties
  <2>2. Len(front) \in Nat
    BY LenProperties
  <2>3. ASSUME NEW i \in 1..(Len(front) + 1), ~(i <= Len(front))
        PROVE  i - Len(front) = 1
    BY <2>2, <2>3
  <2> HIDE DEF fm
  <2> QED BY <2>1, <2>2, <2>3, <1>1
<1> HIDE DEF fm
<1>3. /\ fm \o back \in Seq(S) /\ Len(fm \o back) = Len(fm) + Len(back)
      /\ \A i \in 1..(Len(fm) + Len(back)) :
            (fm \o back)[i] = IF i <= Len(fm) THEN fm[i] ELSE back[i - Len(fm)]
  BY <1>2, ConcatProperties
<1>4. Len(front) \in Nat /\ Len(back) \in Nat
  BY LenProperties
<1>5. s = fm \o back
  BY DEF fm, mid
<1>6. ASSUME NEW i \in 1..(Len(front) + 1 + Len(back))
      PROVE  (fm \o back)[i] = IF i <= Len(front) THEN front[i]
                               ELSE IF i = Len(front) + 1 THEN x
                                    ELSE back[i - (Len(front) + 1)]
  <2>1. (fm \o back)[i] = IF i <= Len(front) + 1 THEN fm[i] ELSE back[i - (Len(front) + 1)]
    BY <1>2, <1>3
  <2> QED BY <2>1, <1>2, <1>4
<1> QED BY <1>2, <1>3, <1>5, <1>6

(* The 1-based position PutAt inserts at.                                  *)
PlaceOf(slice, index) == IF index < Len(slice) THEN index + 1 ELSE Len(slice) + 1

(* PutAt keeps the elements of the slice in their order, and puts x there. *)
LEMMA PutAtProperties ==
    ASSUME NEW S, NEW slice \in Seq(S), NEW index \in Nat, NEW x \in S
    PROVE  /\ PutAt(slice, index, x) \in Seq(S)
           /\ Len(PutAt(slice, index, x)) = Len(slice) + 1
           /\ PlaceOf(slice, index) \in 1..(Len(slice) + 1)
           /\ \A i \in 1..(PlaceOf(slice, index) - 1) : PutAt(slice, index, x)[i] = slice[i]
           /\ \A i \in PlaceOf(slice, index)..Len(slice) :
                 PutAt(slice, index, x)[i + 1] = slice[i]
<1>0. Len(slice) \in Nat /\ \A i \in 1..Len(slice) : slice[i] \in S
  BY LenProperties, ElementOfSeq
<1>1. CASE index < Len(slice)
  <2> DEFINE front == SubSeq(slice, 1, index)
             back  == SubSeq(slice, index + 1, Len(slice))
  <2>1. /\ front \in Seq(S) /\ Len(front) = index
        /\ \A i \in 1..index : front[i] = slice[i]
    <3>1. \A i \in 1..index : slice[i] \in S
      BY <1>0, <1>1
    <3>2. /\ SubSeq(slice, 1, index) \in Seq(S)
          /\ Len(SubSeq(slice, 1, index)) = IF 1 <= index THEN index - 1 + 1 ELSE 0
          /\ \A i \in 1..(index - 1 + 1) : SubSeq(slice, 1, index)[i] = slice[1 + i - 1]
      BY <3>1, SubSeqProperties
    <3> QED BY <3>2
  <2>2. /\ back \in Seq(S) /\ Len(back) = Len(slice) - index
        /\ \A i \in 1..(Len(slice) - index) : back[i] = slice[index + i]
    <3>1. \A i \in (index + 1)..Len(slice) : slice[i] \in S
      BY <1>0, <1>1
    <3>2. /\ SubSeq(slice, index + 1, Len(slice)) \in Seq(S)
          /\ Len(SubSeq(slice, index + 1, Len(slice))) =
                IF index + 1 <= Len(slice) THEN Len(slice) - (index + 1) + 1 ELSE 0
          /\ \A i \in 1..(Len(slice) - (index + 1) + 1) :
                SubSeq(slice, index + 1, Len(slice))[i] = slice[(index + 1) + i - 1]
      BY <3>1, <1>0, SubSeqProperties
    <3> QED BY <3>2, <1>0, <1>1
  <2>3. PutAt(slice, index, x) = front \o <<x>> \o back
    <3>1. (index + 1) - 1 = index
      OBVIOUS
    <3>2. PutAt(slice, index, x) = InsertAt(slice, index + 1, x)
      BY <1>1 DEF PutAt
    <3>3. InsertAt(slice, index + 1, x) =
            SubSeq(slice, 1, (index + 1) - 1) \o <<x>> \o SubSeq(slice, index + 1, Len(slice))
      BY Zenon DEF InsertAt
    <3> QED BY <3>1, <3>2, <3>3, Zenon
  <2> HIDE DEF front, back
  <2>4. /\ PutAt(slice, index, x) \in Seq(S)
        /\ Len(PutAt(slice, index, x)) = Len(front) + 1 + Len(back)
        /\ \A i \in 1..(Len(front) + 1 + Len(back)) :
              PutAt(slice, index, x)[i] =
                  IF i <= Len(front) THEN front[i]
                  ELSE IF i = Len(front) + 1 THEN x ELSE back[i - (Len(front) + 1)]
    <3> DEFINE r == PutAt(slice, index, x)
    <3>1. front \in Seq(S) /\ back \in Seq(S) /\ r = front \o <<x>> \o back
      BY <2>1, <2>2, <2>3
    <3> HIDE DEF r
    <3>2. /\ r \in Seq(S)
          /\ Len(r) = Len(front) + 1 + Len(back)
          /\ \A i \in 1..(Len(front) + 1 + Len(back)) :
                r[i] = IF i <= Len(front) THEN front[i]
                       ELSE IF i = Len(front) + 1 THEN x ELSE back[i - (Len(front) + 1)]
      BY <3>1, SpliceProperties, SMT
    <3> QED BY <3>2 DEF r
  <2>5. /\ Len(PutAt(slice, index, x)) = index + 1 + (Len(slice) - index)
        /\ \A i \in 1..(index + 1 + (Len(slice) - index)) :
              PutAt(slice, index, x)[i] = IF i <= index THEN front[i]
                         ELSE IF i = index + 1 THEN x ELSE back[i - (index + 1)]
    BY <2>1, <2>2, <2>4
  <2>6. /\ \A i \in 1..((index + 1) - 1) : PutAt(slice, index, x)[i] = slice[i]
        /\ \A i \in (index + 1)..Len(slice) : PutAt(slice, index, x)[i + 1] = slice[i]
    <3>1. ASSUME NEW i \in 1..((index + 1) - 1)
          PROVE  PutAt(slice, index, x)[i] = slice[i]
      BY <2>1, <2>5, <1>0, <1>1
    <3>2. ASSUME NEW i \in (index + 1)..Len(slice)
          PROVE  PutAt(slice, index, x)[i + 1] = slice[i]
      <4>1. PutAt(slice, index, x)[i + 1] = back[(i + 1) - (index + 1)]
        BY <2>5, <1>0, <1>1
      <4>2. /\ (i + 1) - (index + 1) \in 1..(Len(slice) - index)
            /\ index + ((i + 1) - (index + 1)) = i
        BY <1>0, <1>1
      <4> QED BY <4>1, <4>2, <2>2
    <3> QED BY <3>1, <3>2
  <2>7. index + 1 + (Len(slice) - index) = Len(slice) + 1 /\ index + 1 \in 1..(Len(slice) + 1)
    BY <1>0, <1>1
  <2> QED BY <2>4, <2>5, <2>6, <2>7, <1>1 DEF PlaceOf
<1>2. CASE ~(index < Len(slice))
  <2>1. PutAt(slice, index, x) = Append(slice, x)
    BY <1>2 DEF PutAt
  <2> QED BY <2>1, <1>2, <1>0, AppendProperties DEF PlaceOf
<1> QED BY <1>1, <1>2

LEMMA PutAtInserted ==
    ASSUME NEW S, NEW slice \in Seq(S), NEW index \in Nat, NEW x \in S
    PROVE  PutAt(slice, index, x)[PlaceOf(slice, index)] = x
<1>0. Len(slice) \in Nat /\ \A i \in 1..Len(slice) : slice[i] \in S
  BY LenProperties, ElementOfSeq
<1>1. CASE index < Len(slice)
  <2> DEFINE front == SubSeq(slice, 1, (index + 1) - 1)
             back  == SubSeq(slice, index + 1, Len(slice))
             r == front \o <<x>> \o back
  <2>1. PutAt(slice, index, x) = r
    BY <1>1 DEF PutAt, InsertAt
  <2>2. front \in Seq(S) /\ Len(front) = index
    <3>1. \A i \in 1..((index + 1) - 1) : slice[i] \in S
      BY <1>0, <1>1
    <3> QED BY <3>1, SubSeqProperties
  <2>3. back \in Seq(S)
    <3>1. \A i \in (index + 1)..Len(slice) : slice[i] \in S
      BY <1>0, <1>1
    <3> QED BY <3>1, <1>0, SubSeqProperties
  <2>4. r = front \o <<x>> \o back
    OBVIOUS
  <2> HIDE DEF front, back, r
  <2>5. index + 1 \in 1..(Len(front) + 1 + Len(back)) /\ ~(index + 1 <= Len(front))
    BY <2>2, <2>3, LenProperties
  <2>6. \A i \in 1..(Len(front) + 1 + Len(back)) :
           r[i] = IF i <= Len(front) THEN front[i]
                  ELSE IF i = Len(front) + 1 THEN x ELSE back[i - (Len(front) + 1)]
    BY <2>2, <2>3, <2>4, SpliceProperties, SMT
  <2>7. r[index + 1] = x
    BY <2>2, <2>5, <2>6
  <2> QED BY <2>1, <2>7, <1>1 DEF PlaceOf
<1>2. CASE ~(index < Len(slice))
  BY <1>2, AppendProperties DEF PutAt, PlaceOf
<1> QED BY <1>1, <1>2

(* Inserting into a sequence keeps what it contains and adds x.            *)
LEMMA PutAtContents ==
    ASSUME NEW S, NEW slice \in Seq(S), NEW index \in Nat, NEW x \in S
    PROVE  /\ x \in ToSet(PutAt(slice, index, x))
           /\ ToSet(slice) \subseteq ToSet(PutAt(slice, index, x))
<1> DEFINE r == PutAt(slice, index, x)
           p == PlaceOf(slice, index)
<1>1. /\ r \in Seq(S) /\ Len(r) = Len(slice) + 1 /\ p \in 1..(Len(slice) + 1)
      /\ \A i \in 1..(p - 1) : r[i] = slice[i]
      /\ r[p] = x
      /\ \A i \in p..Len(slice) : r[i + 1] = slice[i]
  <2>1. r \in Seq(S)
    BY PutAtProperties
  <2>2. Len(r) = Len(slice) + 1
    BY PutAtProperties
  <2>3. p \in 1..(Len(slice) + 1)
    BY PutAtProperties
  <2>4. \A i \in 1..(p - 1) : r[i] = slice[i]
    BY PutAtProperties
  <2>5. r[p] = x
    BY PutAtInserted
  <2>6. \A i \in p..Len(slice) : r[i + 1] = slice[i]
    BY PutAtProperties
  <2> QED BY <2>1, <2>2, <2>3, <2>4, <2>5, <2>6
<1> HIDE DEF r, p
<1>2. Len(slice) \in Nat /\ DOMAIN slice = 1..Len(slice) /\ DOMAIN r = 1..(Len(slice) + 1)
  BY <1>1, LenProperties
<1>3. r[p] = x /\ p \in DOMAIN r
  BY <1>1, <1>2
<1>4. ASSUME NEW i \in DOMAIN slice
      PROVE  \E j \in DOMAIN r : r[j] = slice[i]
  <2>1. CASE i < p
    <3>1. i \in DOMAIN r /\ r[i] = slice[i]
      BY <1>1, <1>2, <2>1
    <3> QED BY <3>1
  <2>2. CASE ~(i < p)
    <3>1. i + 1 \in DOMAIN r /\ r[i + 1] = slice[i]
      BY <1>1, <1>2, <2>2
    <3> QED BY <3>1
  <2> QED BY <2>1, <2>2
<1> QED BY <1>3, <1>4 DEF ToSet, r

(* The structures the operators return are well typed.                     *)
LEMMA EmptyType ==
    ASSUME NEW v \in VarType
    PROVE  Empty(v) \in Structure
  BY DEF Empty, Structure

LEMMA InlineType ==
    ASSUME NEW e \in InlineElem
    PROVE  Inline(e) \in Elem
  BY DEF InlineElem, Inline, Elem, NoStruct, VarType, NULL, INT, UINT, FLOAT, BOOL,
         ByteSize, b8, b32, b64

LEMMA OffsetType ==
    ASSUME NEW id \in Nat, NEW v \in VarType
    PROVE  OffsetTo(id, v) \in Elem /\ OffsetTo(id, v).target = id
  BY DEF OffsetTo, Elem, ByteSize, b8, b64

(* The elements of a sequence after PutAt are those before and the new one. *)
LEMMA PutAtKeeps ==
    ASSUME NEW S, NEW slice \in Seq(S), NEW index \in Nat, NEW x \in S,
           NEW i \in 1..Len(PutAt(slice, index, x))
    PROVE  PutAt(slice, index, x)[i] = x
           \/ \E j \in 1..Len(slice) : PutAt(slice, index, x)[i] = slice[j]
<1> DEFINE r == PutAt(slice, index, x)
           p == PlaceOf(slice, index)
<1>1. /\ Len(r) = Len(slice) + 1 /\ p \in 1..(Len(slice) + 1)
      /\ \A j \in 1..(p - 1) : r[j] = slice[j]
      /\ \A j \in p..Len(slice) : r[j + 1] = slice[j]
  <2>1. Len(r) = Len(slice) + 1 /\ p \in 1..(Len(slice) + 1)
    BY PutAtProperties
  <2>2. \A j \in 1..(p - 1) : r[j] = slice[j]
    BY PutAtProperties
  <2>3. \A j \in p..Len(slice) : r[j + 1] = slice[j]
    BY PutAtProperties
  <2> QED BY <2>1, <2>2, <2>3
<1>2. r[p] = x
  BY PutAtInserted
<1>3. Len(slice) \in Nat
  BY LenProperties
<1>4. i \in 1..Len(r)
  OBVIOUS
<1> HIDE DEF r, p
<1>5. CASE i < p
  <2>1. i \in 1..(p - 1) /\ i \in 1..Len(slice)
    BY <1>1, <1>3, <1>4, <1>5
  <2> QED BY <1>1, <2>1 DEF r
<1>6. CASE i > p
  <2>1. i - 1 \in p..Len(slice) /\ i - 1 \in 1..Len(slice) /\ (i - 1) + 1 = i
    BY <1>1, <1>3, <1>4, <1>6
  <2>2. r[(i - 1) + 1] = slice[i - 1]
    BY <1>1, <2>1
  <2> QED BY <2>1, <2>2 DEF r
<1>7. i < p \/ i = p \/ i > p
  BY <1>1, <1>3, <1>4
<1> QED BY <1>2, <1>5, <1>6, <1>7 DEF r

LEMMA InsertElementType ==
    ASSUME NEW s \in Structure, NEW e \in Elem, NEW index \in Nat
    PROVE  /\ insertElement(s, e, index) \in Structure
           /\ insertElement(s, e, index).vType = s.vType
           /\ insertElement(s, e, index).children = s.children
           /\ insertElement(s, e, index).keys = s.keys
<1>1. PutAt(s.elems, index, e) \in Seq(Elem)
  BY PutAtProperties DEF Structure
<1> QED BY <1>1 DEF insertElement, Structure

LEMMA InsertOffsetType ==
    ASSUME NEW s \in Structure, NEW e \in Elem, NEW index \in Nat
    PROVE  /\ insertOffsetToObject(s, e, index) \in Structure
           /\ insertOffsetToObject(s, e, index).vType = s.vType
           /\ insertOffsetToObject(s, e, index).keys = s.keys
           /\ e.target \in ToSet(insertOffsetToObject(s, e, index).children)
           /\ ToSet(s.children) \subseteq ToSet(insertOffsetToObject(s, e, index).children)
<1>1. PutAt(s.elems, index, e) \in Seq(Elem)
  BY PutAtProperties DEF Structure
<1>2. s.children \in Seq(Nat) /\ e.target \in Nat
  BY DEF Structure, Elem
<1>3. /\ PutAt(s.children, index, e.target) \in Seq(Nat)
      /\ e.target \in ToSet(PutAt(s.children, index, e.target))
      /\ ToSet(s.children) \subseteq ToSet(PutAt(s.children, index, e.target))
  BY <1>2, PutAtProperties, PutAtContents
<1> QED BY <1>1, <1>3 DEF insertOffsetToObject, Structure

(* The bisection stays within the keys.                                    *)
LEMMA KeyIndexType ==
    ASSUME NEW m \in Structure, NEW k \in Key
    PROVE  KeyIndex(m, k) \in 0..Len(m.keys)
<1> DEFINE D == DOMAIN m.keys
           T == {i \in D : m.keys[i].name <= k.name}
<1>1. Len(m.keys) \in Nat /\ D = 1..Len(m.keys)
  BY LenProperties DEF Structure
<1>2. IsFiniteSet(D) /\ Cardinality(D) = Len(m.keys)
  BY <1>1, FS_Interval
<1>3. IsFiniteSet(T) /\ Cardinality(T) <= Cardinality(D)
  BY <1>2, FS_Subset
<1>4. Cardinality(T) \in Nat
  BY <1>3, FS_CardinalityType
<1> QED BY <1>1, <1>2, <1>3, <1>4 DEF KeyIndex

LEMMA NewKeyType ==
    ASSUME NEW m \in Structure, NEW name \in Nat
    PROVE  NewKey(m, name) \in Key
<1>1. Len(m.keys) \in Nat
  BY LenProperties DEF Structure
<1> QED BY <1>1 DEF NewKey, Key

LEMMA AddKeyType ==
    ASSUME NEW m \in Structure, NEW k \in Key
    PROVE  /\ AddKey(m, k) \in Structure
           /\ AddKey(m, k).vType = m.vType
           /\ AddKey(m, k).children = m.children
<1>1. KeyIndex(m, k) \in Nat
  BY KeyIndexType, LenProperties DEF Structure
<1>2. PutAt(m.keys, KeyIndex(m, k), k) \in Seq(Key)
  BY <1>1, PutAtProperties DEF Structure
<1> QED BY <1>2 DEF AddKey, Structure

LEMMA AcceptedType ==
    ASSUME NEW s \in Structure, NEW n \in Nat, NEW size \in ByteSize
    PROVE  Accepted(s, n, size) \in Seq(Elem)
<1>1. Rune(size) \in Elem
  BY DEF Rune, Inline, Elem, VarType, UINT, NoStruct
<1> DEFINE c == IF allows(s, Rune(size)) THEN n ELSE 0
<1>2. c \in Nat
  OBVIOUS
<1>3. Accepted(s, n, size) = [i \in 1..c |-> Rune(size)]
  BY DEF Accepted
<1> HIDE DEF c
<1> QED BY <1>1, <1>2, <1>3, IsASeq

-----------------------------------------------------------------------------
(* Keys in order.                                                          *)

(* One key per value, in order, no key empty.  That obj is at most the     *)
(* number of keys makes the next key the youngest.                         *)
KeysInOrder(keys) ==
    /\ \A i \in 1..Len(keys) : keys[i].name # 0 /\ keys[i].obj <= Len(keys)
    /\ \A i, j \in 1..Len(keys) : i < j =>
          \/ keys[i].name < keys[j].name
          \/ keys[i].name = keys[j].name /\ keys[i].obj < keys[j].obj

KeysOK(m) == Len(m.keys) = Len(m.elems) /\ KeysInOrder(m.keys)

MapOK(s) == IF IsMap(s) THEN KeysOK(s) ELSE s.keys = <<>>

(* In a sorted map exactly the keys up to KeyIndex are not greater: they   *)
(* are downward closed, so their number is the position of the last one.   *)
LEMMA KeyIndexSplits ==
    ASSUME NEW m \in Structure, NEW k \in Key, KeysInOrder(m.keys), NEW j \in 1..Len(m.keys)
    PROVE  m.keys[j].name <= k.name <=> j <= KeyIndex(m, k)
<1> DEFINE n == Len(m.keys)
           T == {i \in DOMAIN m.keys : m.keys[i].name <= k.name}
           c == Cardinality(T)
<1>1. n \in Nat /\ DOMAIN m.keys = 1..n /\ m.keys \in Seq(Key)
  BY LenProperties DEF Structure
<1>2. ASSUME NEW i \in 1..n
      PROVE  m.keys[i].name \in Nat
  <2>1. m.keys[i] \in Key
    BY <1>1, ElementOfSeq
  <2> QED BY <2>1 DEF Key
<1>3. k.name \in Nat /\ c = KeyIndex(m, k)
  BY DEF Key, KeyIndex
<1>4. c \in 0..n
  BY <1>3, KeyIndexType
<1>5. IsFiniteSet(1..c) /\ Cardinality(1..c) = c /\ IsFiniteSet(1..n) /\ Cardinality(1..n) = n
  <2>1. ASSUME NEW d \in Nat
        PROVE  IsFiniteSet(1..d) /\ Cardinality(1..d) = d
    BY FS_Interval
  <2>2. c \in Nat
    BY <1>1, <1>4
  <2> HIDE DEF c
  <2> QED BY <1>1, <2>1, <2>2
<1>6. IsFiniteSet(T) /\ T \subseteq 1..n
  <2>1. T \in SUBSET (1..n)
    BY <1>1
  <2> QED BY <1>5, <2>1, FS_Subset
<1>7. ASSUME NEW i \in T, NEW l \in 1..i
      PROVE  l \in T
  <2>1. i \in 1..n /\ l \in 1..n /\ m.keys[i].name <= k.name
    BY <1>1, <1>6
  <2>2. CASE l = i
    BY <2>2
  <2>3. CASE l # i
    <3>0. l < i /\ i \in 1..n /\ l \in 1..n
      BY <1>1, <2>1, <2>3
    <3>1. m.keys[l].name < m.keys[i].name \/ m.keys[l].name = m.keys[i].name
      BY <3>0 DEF KeysInOrder
    <3>2. m.keys[l].name \in Nat /\ m.keys[i].name \in Nat
      BY <1>2, <2>1
    <3>3. m.keys[l].name <= k.name
      BY <1>3, <2>1, <3>1, <3>2
    <3> QED BY <3>0, <3>3
  <2> QED BY <2>2, <2>3
<1>8. ASSUME NEW i \in T
      PROVE  i \in 1..c
  <2>1. i \in 1..n
    BY <1>6
  <2>2. 1..i \subseteq T
    BY <1>7
  <2>3. Cardinality(1..i) = i
    BY <2>1, FS_Interval
  <2>4. Cardinality(1..i) <= Cardinality(T)
    BY <1>6, <2>2, FS_Subset
  <2> QED BY <1>4, <2>1, <2>3, <2>4
<1>9. T = 1..c
  BY <1>5, <1>8, FS_Subset
<1>10. j \in DOMAIN m.keys /\ (j \in 1..c <=> j <= c)
  BY <1>1, <1>4
<1>11. j \in T <=> m.keys[j].name <= k.name
  BY <1>10
<1> QED BY <1>3, <1>9, <1>10, <1>11

(* PutAt at an index inside the slice or at its end.                       *)
LEMMA PutAtIndex ==
    ASSUME NEW S, NEW slice \in Seq(S), NEW index \in 0..Len(slice), NEW x \in S
    PROVE  /\ PutAt(slice, index, x) \in Seq(S)
           /\ Len(PutAt(slice, index, x)) = Len(slice) + 1
           /\ \A i \in 1..index : PutAt(slice, index, x)[i] = slice[i]
           /\ PutAt(slice, index, x)[index + 1] = x
           /\ \A i \in (index + 1)..Len(slice) : PutAt(slice, index, x)[i + 1] = slice[i]
<1>1. index \in Nat /\ Len(slice) \in Nat
  BY LenProperties
<1>2. PlaceOf(slice, index) = index + 1
  BY <1>1 DEF PlaceOf
<1>3. (index + 1) - 1 = index
  BY <1>1
<1>4. PutAt(slice, index, x)[index + 1] = x
  BY <1>1, <1>2, PutAtInserted
<1>5. \A i \in 1..(PlaceOf(slice, index) - 1) : PutAt(slice, index, x)[i] = slice[i]
  BY <1>1, PutAtProperties
<1>6. \A i \in PlaceOf(slice, index)..Len(slice) : PutAt(slice, index, x)[i + 1] = slice[i]
  BY <1>1, PutAtProperties
<1>7. PutAt(slice, index, x) \in Seq(S) /\ Len(PutAt(slice, index, x)) = Len(slice) + 1
  BY <1>1, PutAtProperties
<1> QED BY <1>2, <1>3, <1>4, <1>5, <1>6, <1>7

(* A new key put behind those that are not greater leaves them in order.   *)
LEMMA PutKeyInOrder ==
    ASSUME NEW keys \in Seq(Key), KeysInOrder(keys),
           NEW k \in Key, k.name # 0, k.obj = Len(keys) + 1,
           NEW x \in 0..Len(keys), \A j \in 1..Len(keys) : keys[j].name <= k.name <=> j <= x
    PROVE  KeysInOrder(PutAt(keys, x, k))
<1> DEFINE n == Len(keys)
           r == PutAt(keys, x, k)
<1>1. n \in Nat
  BY LenProperties
<1>2. k.name \in Nat /\ k.obj \in Nat
  BY DEF Key
<1>3. ASSUME NEW i \in 1..n
      PROVE  keys[i].name \in Nat /\ keys[i].obj \in Nat
  <2>1. keys[i] \in Key
    BY ElementOfSeq
  <2> QED BY <2>1 DEF Key
<1>5. /\ r \in Seq(Key) /\ Len(r) = n + 1
      /\ \A i \in 1..x : r[i] = keys[i]
      /\ r[x + 1] = k
      /\ \A i \in (x + 1)..n : r[i + 1] = keys[i]
  <2>1. PutAt(keys, x, k) \in Seq(Key) /\ Len(PutAt(keys, x, k)) = Len(keys) + 1
    BY PutAtIndex
  <2>2. \A i \in 1..x : PutAt(keys, x, k)[i] = keys[i]
    BY PutAtIndex
  <2>3. PutAt(keys, x, k)[x + 1] = k
    <3>1. x \in Nat /\ PlaceOf(keys, x) = x + 1
      BY <1>1 DEF PlaceOf
    <3> QED BY <3>1, PutAtInserted
  <2>4. \A i \in (x + 1)..Len(keys) : PutAt(keys, x, k)[i + 1] = keys[i]
    BY PutAtIndex
  <2> QED BY <2>1, <2>2, <2>3, <2>4
<1>7. /\ \A i \in 1..n : keys[i].name # 0 /\ keys[i].obj <= n
      /\ \A i, j \in 1..n : i < j => \/ keys[i].name < keys[j].name
                                     \/ keys[i].name = keys[j].name /\ keys[i].obj < keys[j].obj
      /\ \A j \in 1..n : keys[j].name <= k.name <=> j <= x
      /\ k.obj = n + 1 /\ x \in 0..n
  BY DEF KeysInOrder
<1> HIDE DEF n, r
<1> DEFINE Old(i) == IF i <= x THEN i ELSE i - 1
<1>9. ASSUME NEW i \in 1..(n + 1), i # x + 1
      PROVE  Old(i) \in 1..n /\ r[i] = keys[Old(i)]
  <2>1. CASE i <= x
    BY <1>1, <1>5, <1>7, <2>1
  <2>2. CASE i > x + 1
    <3>1. i - 1 \in (x + 1)..n /\ (i - 1) + 1 = i
      BY <1>1, <1>7, <2>2
    <3>2. r[(i - 1) + 1] = keys[i - 1]
      BY <1>5, <3>1
    <3> QED BY <1>1, <1>7, <2>2, <3>1, <3>2
  <2> QED BY <1>1, <1>7, <1>9, <2>1, <2>2
<1>10. ASSUME NEW i \in 1..(n + 1)
       PROVE  r[i].name # 0 /\ r[i].obj <= n + 1
  <2>1. CASE i = x + 1
    BY <1>1, <1>2, <1>5, <1>7, <2>1
  <2>2. CASE i # x + 1
    <3>1. Old(i) \in 1..n /\ r[i] = keys[Old(i)]
      BY <1>9, <2>2
    <3> HIDE DEF Old
    <3> QED BY <1>1, <1>3, <1>7, <3>1
  <2> QED BY <2>1, <2>2
<1>11. ASSUME NEW i \in 1..(n + 1), NEW j \in 1..(n + 1), i < j
       PROVE  \/ r[i].name < r[j].name
              \/ r[i].name = r[j].name /\ r[i].obj < r[j].obj
  <2>1. CASE i = x + 1
    <3>1. j # x + 1 /\ Old(j) = j - 1 /\ ~(j - 1 <= x)
      BY <1>1, <1>7, <1>11, <2>1
    <3>2. Old(j) \in 1..n /\ r[j] = keys[Old(j)]
      BY <1>9, <3>1
    <3>3. ~(r[j].name <= k.name) /\ r[j].name \in Nat
      BY <1>3, <1>7, <3>1, <3>2
    <3> QED BY <1>2, <1>5, <2>1, <3>3
  <2>2. CASE j = x + 1
    <3>1. i # x + 1 /\ Old(i) = i /\ i <= x
      BY <1>1, <1>7, <1>11, <2>2
    <3>2. Old(i) \in 1..n /\ r[i] = keys[Old(i)]
      BY <1>9, <3>1
    <3>3. r[i].name <= k.name /\ r[i].name \in Nat /\ r[i].obj \in Nat /\ r[i].obj <= n
      BY <1>3, <1>7, <3>1, <3>2
    <3>4. r[i].obj < n + 1 /\ (r[i].name < k.name \/ r[i].name = k.name)
      BY <1>1, <1>2, <3>3
    <3> QED BY <1>5, <1>7, <2>2, <3>4
  <2>3. CASE i # x + 1 /\ j # x + 1
    <3>1. Old(i) \in 1..n /\ r[i] = keys[Old(i)] /\ Old(j) \in 1..n /\ r[j] = keys[Old(j)]
      BY <1>9, <2>3
    <3>2. Old(i) < Old(j)
      BY <1>1, <1>7, <1>11, <2>3
    <3> HIDE DEF Old
    <3> QED BY <1>7, <3>1, <3>2
  <2> QED BY <2>1, <2>2, <2>3
<1> QED BY <1>5, <1>10, <1>11 DEF KeysInOrder, r

-----------------------------------------------------------------------------
(* What the calls do to one structure.                                     *)

LEMMA PutAtLen ==
    ASSUME NEW S, NEW slice \in Seq(S), NEW index \in 0..Len(slice), NEW x \in S
    PROVE  Len(PutAt(slice, index, x)) = Len(slice) + 1
  BY PutAtIndex

(* The keys and values of a map after AddKey and PutAt for its value.      *)
LEMMA KeyedInsertOK ==
    ASSUME NEW m \in Structure, KeysOK(m), NEW name \in Nat, name # 0, NEW e \in Elem
    PROVE  LET k == NewKey(m, name) IN
           /\ KeysInOrder(PutAt(m.keys, KeyIndex(m, k), k))
           /\ Len(PutAt(m.keys, KeyIndex(m, k), k)) = Len(PutAt(m.elems, KeyIndex(m, k), e))
<1> DEFINE k == NewKey(m, name)
           x == KeyIndex(m, k)
<1>1. k \in Key /\ k.name # 0 /\ k.obj = Len(m.keys) + 1
  BY NewKeyType DEF NewKey
<1>2. m.keys \in Seq(Key) /\ m.elems \in Seq(Elem) /\ KeysInOrder(m.keys) /\ Len(m.keys) = Len(m.elems)
  BY DEF Structure, KeysOK
<1>3. x \in 0..Len(m.keys)
  BY <1>1, KeyIndexType
<1>4. \A j \in 1..Len(m.keys) : m.keys[j].name <= k.name <=> j <= x
  BY <1>1, <1>2, KeyIndexSplits
<1> HIDE DEF k, x
<1>5. KeysInOrder(PutAt(m.keys, x, k))
  BY <1>1, <1>2, <1>3, <1>4, PutKeyInOrder
<1>6. Len(PutAt(m.keys, x, k)) = Len(m.keys) + 1
  <2>1. k \in Key /\ m.keys \in Seq(Key) /\ x \in 0..Len(m.keys)
    BY <1>1, <1>2, <1>3
  <2> QED BY <2>1, PutAtLen
<1>7. Len(PutAt(m.elems, x, e)) = Len(m.elems) + 1
  <2>1. m.elems \in Seq(Elem) /\ x \in 0..Len(m.elems)
    BY <1>2, <1>3
  <2> QED BY <2>1, PutAtLen
<1>8. Len(PutAt(m.keys, x, k)) = Len(PutAt(m.elems, x, e))
  BY <1>2, <1>6, <1>7
<1> QED BY <1>5, <1>8 DEF k, x

LEMMA KeyedElementOK ==
    ASSUME NEW m \in Structure, MapOK(m), NEW name \in Nat, NEW e \in Elem,
           TakesKey(m, NewKey(m, name))
    PROVE  MapOK(addElementWithKey(m, NewKey(m, name), e))
<1> DEFINE k == NewKey(m, name)
           x == KeyIndex(m, k)
           r == addElementWithKey(m, k, e)
<1>1. IsMap(m) /\ name # 0 /\ KeysOK(m)
  BY DEF TakesKey, IsMap, NewKey, MapOK
<1>2. /\ KeysInOrder(PutAt(m.keys, x, k))
      /\ Len(PutAt(m.keys, x, k)) = Len(PutAt(m.elems, x, e))
  BY <1>1, KeyedInsertOK
<1> HIDE DEF k, x
<1>3. r.vType = m.vType /\ r.keys = PutAt(m.keys, x, k) /\ r.elems = PutAt(m.elems, x, e)
  BY DEF addElementWithKey, insertElement, AddKey, Structure, x
<1> HIDE DEF r
<1>4. KeysOK(r) /\ IsMap(r)
  BY <1>1, <1>2, <1>3 DEF KeysOK, IsMap
<1> QED BY <1>4 DEF MapOK, r, k

LEMMA KeyedOffsetOK ==
    ASSUME NEW m \in Structure, MapOK(m), NEW name \in Nat, NEW e \in Elem,
           TakesKey(m, NewKey(m, name))
    PROVE  MapOK(addOffsetWithKey(m, NewKey(m, name), e))
<1> DEFINE k == NewKey(m, name)
           x == KeyIndex(m, k)
           r == addOffsetWithKey(m, k, e)
<1>1. IsMap(m) /\ name # 0 /\ KeysOK(m)
  BY DEF TakesKey, IsMap, NewKey, MapOK
<1>2. /\ KeysInOrder(PutAt(m.keys, x, k))
      /\ Len(PutAt(m.keys, x, k)) = Len(PutAt(m.elems, x, e))
  BY <1>1, KeyedInsertOK
<1> HIDE DEF k, x
<1>3. r.vType = m.vType /\ r.keys = PutAt(m.keys, x, k) /\ r.elems = PutAt(m.elems, x, e)
  BY DEF addOffsetWithKey, insertOffsetToObject, AddKey, Structure, x
<1> HIDE DEF r
<1>4. KeysOK(r) /\ IsMap(r)
  BY <1>1, <1>2, <1>3 DEF KeysOK, IsMap
<1> QED BY <1>4 DEF MapOK, r, k

(* Without a key nothing is inserted into a map, and nothing that is not a *)
(* map gets keys.                                                          *)
LEMMA PlainInsertOK ==
    ASSUME NEW s \in Structure, MapOK(s), ~IsMap(s), NEW e, NEW index
    PROVE  /\ MapOK(insertElement(s, e, index))
           /\ MapOK(insertOffsetToObject(s, e, index))
  BY DEF MapOK, IsMap, insertElement, insertOffsetToObject, Structure

LEMMA TextOK ==
    ASSUME NEW s \in Structure, MapOK(s), ~IsMap(s), NEW text
    PROVE  MapOK(AppendText(s, text))
  BY DEF MapOK, IsMap, AppendText, Structure

LEMMA EmptyOK ==
    ASSUME NEW v \in VarType
    PROVE  MapOK(Empty(v))
<1>1. Empty(v).keys = <<>> /\ Empty(v).elems = <<>>
  BY DEF Empty
<1>2. \A i \in 1..Len(<<>>) : FALSE
  OBVIOUS
<1>3. KeysOK(Empty(v))
  BY <1>1, <1>2 DEF KeysOK, KeysInOrder
<1> QED BY <1>1, <1>3 DEF MapOK

-----------------------------------------------------------------------------
(* What a structure may hold.                                              *)

(* The structures whose elements are all of one inline type.               *)
Restricted(v) == isTypedVector(v) \/ isBlobLike(v)

FitsIn(v, e) ==
    allowsElemType(v, e.type) /\ allowsElemSize(v, e.size) /\ e.target = NoStruct

LengthFits(s) ==
    /\ isScalar(s.vType) => Len(s.elems) <= 1
    /\ isTuple(s.vType)  => Len(s.elems) <= 2
    /\ isTriple(s.vType) => Len(s.elems) <= 3
    /\ isQuad(s.vType)   => Len(s.elems) <= 4

(* No call starts a structure of one of the last two types.                *)
ContentsOK(s) ==
    /\ LengthFits(s)
    /\ Restricted(s.vType) => \A i \in 1..Len(s.elems) : FitsIn(s.vType, s.elems[i])
    /\ s.vType # VECTOR_KEY /\ s.vType # VECTOR_STRING_DEPRECATED

(* Only the structures of a limited length are ever full.                  *)
LEMMA RestrictedOrRoomy ==
    ASSUME NEW s
    PROVE  /\ ~Restricted(s.vType) => ~isScalar(s.vType) /\ ~isTuple(s.vType)
                                      /\ ~isTriple(s.vType) /\ ~isQuad(s.vType)
           /\ IsMap(s) => ~Restricted(s.vType)
<1>1. ~Restricted(s.vType) => ~isScalar(s.vType) /\ ~isTuple(s.vType)
                              /\ ~isTriple(s.vType) /\ ~isQuad(s.vType)
  BY DEF Restricted, isTypedVector, isFixedTypedVector
<1>2. ~Restricted(MAP)
  BY DEF Restricted, isTypedVector, isFixedTypedVector, isBlobLike, isScalar, isTuple, isTriple,
         isQuad, MAP, VECTOR_BOOL, VECTOR_KEY, BLOB, STR, KEY
<1> QED BY <1>1, <1>2 DEF IsMap

(* A structure stays one whose contents fit if the elements it is given    *)
(* fit, or it takes any.                                                   *)
LEMMA InsertFits ==
    ASSUME NEW s \in Structure, ContentsOK(s), NEW e \in Elem, NEW index \in Nat,
           Restricted(s.vType) => FitsIn(s.vType, e) /\ ~isFull(s),
           NEW t \in Structure, t.vType = s.vType, t.elems = PutAt(s.elems, index, e)
    PROVE  ContentsOK(t)
<1>1. s.elems \in Seq(Elem) /\ Len(s.elems) \in Nat
  BY LenProperties DEF Structure
<1>2. Len(t.elems) = Len(s.elems) + 1
  <2> DEFINE q == s.elems
  <2>1. q \in Seq(Elem) /\ t.elems = PutAt(q, index, e)
    BY <1>1
  <2> HIDE DEF q
  <2>2. Len(PutAt(q, index, e)) = Len(q) + 1
    BY <2>1, PutAtProperties
  <2> QED BY <2>1, <2>2 DEF q
<1>3. CASE ~Restricted(s.vType)
  BY <1>3, RestrictedOrRoomy DEF ContentsOK, LengthFits
<1>4. CASE Restricted(s.vType)
  <2>1. LengthFits(t)
    BY <1>1, <1>2, <1>4 DEF LengthFits, isFull
  <2>2. ASSUME NEW i \in 1..Len(t.elems)
        PROVE  FitsIn(t.vType, t.elems[i])
    <3>1. t.elems[i] = e \/ \E j \in 1..Len(s.elems) : t.elems[i] = s.elems[j]
      <4>1. /\ i \in 1..Len(PutAt(s.elems, index, e)) /\ s.elems \in Seq(Elem)
            /\ t.elems = PutAt(s.elems, index, e)
        BY <1>1, <2>2 DEF Structure
      <4>2. \/ PutAt(s.elems, index, e)[i] = e
            \/ \E j \in 1..Len(s.elems) : PutAt(s.elems, index, e)[i] = s.elems[j]
        BY <4>1, PutAtKeeps
      <4> QED BY <4>1, <4>2
    <3> QED BY <1>4, <3>1 DEF ContentsOK
  <2> QED BY <2>1, <2>2 DEF ContentsOK
<1> QED BY <1>3, <1>4

(* What an element may be to be let in by allows.                          *)
LEMMA InlineFits ==
    ASSUME NEW s, NEW e, allows(s, Inline(e))
    PROVE  FitsIn(s.vType, Inline(e)) /\ ~isFull(s)
  BY DEF allows, FitsIn, Inline

(* An offset of a type that some call starts is none of the types an       *)
(* element of a restricted structure has.                                  *)
LEMMA OffsetsFitNowhere ==
    ASSUME NEW s, s.vType # VECTOR_KEY, s.vType # VECTOR_STRING_DEPRECATED, s.vType \in VarType,
           NEW id, NEW v \in VarType, ~isInline(v),
           allows(s, OffsetTo(id, v))
    PROVE  ~Restricted(s.vType)
<1>1. allowsElemType(s.vType, v)
  BY DEF allows, OffsetTo
<1>2. v # INT /\ v # UINT /\ v # FLOAT /\ v # BOOL
  BY DEF isInline, INT, UINT, FLOAT, BOOL
<1>3. ~isUintTyped(s.vType) /\ ~isIntTyped(s.vType) /\ ~isFloatTyped(s.vType)
      /\ ~isBoolTyped(s.vType)
  BY <1>1, <1>2 DEF allowsElemType
<1> QED BY <1>3 DEF Restricted, isTypedVector, isFixedTypedVector, isScalar, isTuple, isTriple,
         isQuad, isBlobLike, isUintTyped, isIntTyped, isFloatTyped, isBoolTyped, VarType,
         VECTOR_INT, VECTOR_UINT, VECTOR_FLOAT, VECTOR_BOOL, VECTOR_KEY,
         VECTOR_STRING_DEPRECATED, INDIRECT_INT, INDIRECT_UINT, INDIRECT_FLOAT,
         VECTOR_INT2, VECTOR_UINT2, VECTOR_FLOAT2, VECTOR_INT3, VECTOR_UINT3, VECTOR_FLOAT3,
         VECTOR_INT4, VECTOR_UINT4, VECTOR_FLOAT4

(* A rune of more than one byte is refused by strings and keys.            *)
LEMMA AcceptedFits ==
    ASSUME NEW s \in Structure, NEW n \in Nat, NEW size \in ByteSize
    PROVE  \A i \in 1..Len(Accepted(s, n, size)) : FitsIn(s.vType, Accepted(s, n, size)[i])
<1> DEFINE c == IF allows(s, Rune(size)) THEN n ELSE 0
           r == Accepted(s, n, size)
<1>1. c \in Nat /\ r = [i \in 1..c |-> Rune(size)]
  BY DEF Accepted
<1>2. c # 0 => allows(s, Rune(size))
  OBVIOUS
<1> HIDE DEF c, r
<1>3. Len(r) = c
  <2>1. r \in Seq(Elem) /\ DOMAIN r = 1..c
    BY <1>1, AcceptedType DEF r
  <2> QED BY <1>1, <2>1, LenProperties
<1>4. ASSUME NEW i \in 1..Len(r)
      PROVE  FitsIn(s.vType, r[i])
  <2>1. r[i] = Rune(size) /\ c # 0
    BY <1>1, <1>3
  <2>2. allows(s, Rune(size))
    BY <1>2, <2>1
  <2> QED BY <2>1, <2>2, InlineFits DEF Rune
<1> QED BY <1>4 DEF r

LEMMA ConcatFits ==
    ASSUME NEW v, NEW q \in Seq(Elem), NEW r \in Seq(Elem),
           \A i \in 1..Len(q) : FitsIn(v, q[i]),
           \A i \in 1..Len(r) : FitsIn(v, r[i])
    PROVE  q \o r \in Seq(Elem) /\ \A i \in 1..Len(q \o r) : FitsIn(v, (q \o r)[i])
<1>1. Len(q) \in Nat /\ Len(r) \in Nat /\ Len(q \o r) = Len(q) + Len(r)
  BY LenProperties, ConcatProperties
<1>2. ASSUME NEW i \in 1..Len(q \o r)
      PROVE  FitsIn(v, (q \o r)[i])
  <2>1. CASE i <= Len(q)
    <3>1. i \in 1..Len(q) /\ (q \o r)[i] = q[i]
      BY <1>1, <2>1, ConcatProperties
    <3> QED BY <3>1
  <2>2. CASE i > Len(q)
    <3>1. i - Len(q) \in 1..Len(r) /\ (q \o r)[i] = r[i - Len(q)]
      BY <1>1, <2>2, ConcatProperties
    <3> QED BY <3>1
  <2> QED BY <1>1, <2>1, <2>2
<1> QED BY <1>2

LEMMA TextFits ==
    ASSUME NEW s \in Structure, ContentsOK(s), s.vType \in {STR, KEY},
           NEW text, text.narrow \in Nat, text.wide \in Nat
    PROVE  ContentsOK(AppendText(s, text))
<1> DEFINE u == Accepted(s, text.narrow, b8)
           w == Accepted(s, text.wide, b16)
           t == AppendText(s, text)
<1>1. /\ u \in Seq(Elem) /\ w \in Seq(Elem)
      /\ \A i \in 1..Len(u) : FitsIn(s.vType, u[i])
      /\ \A i \in 1..Len(w) : FitsIn(s.vType, w[i])
  <2>1. b8 \in ByteSize /\ b16 \in ByteSize
    BY DEF ByteSize, b8, b16, b64
  <2> QED BY <2>1, AcceptedType, AcceptedFits
<1>2. t.vType = s.vType /\ t.elems = s.elems \o u \o w
  BY DEF AppendText, Structure
<1> HIDE DEF u, w, t
<1>3. ~isScalar(s.vType) /\ ~isTuple(s.vType) /\ ~isTriple(s.vType) /\ ~isQuad(s.vType)
      /\ Restricted(s.vType)
  BY DEF isScalar, isTuple, isTriple, isQuad, Restricted, isBlobLike, STR, KEY
<1>4. s.elems \in Seq(Elem) /\ \A i \in 1..Len(s.elems) : FitsIn(s.vType, s.elems[i])
  BY <1>3 DEF Structure, ContentsOK
<1>5. \A i \in 1..Len(t.elems) : FitsIn(s.vType, t.elems[i])
  <2>1. /\ s.elems \o u \in Seq(Elem)
        /\ \A i \in 1..Len(s.elems \o u) : FitsIn(s.vType, (s.elems \o u)[i])
    BY <1>1, <1>4, ConcatFits
  <2> DEFINE q == s.elems \o u
  <2>2. t.elems = q \o w
    BY <1>2
  <2>3. q \in Seq(Elem) /\ \A i \in 1..Len(q) : FitsIn(s.vType, q[i])
    BY <2>1
  <2> HIDE DEF q
  <2>4. \A i \in 1..Len(q \o w) : FitsIn(s.vType, (q \o w)[i])
    BY <1>1, <2>3, ConcatFits
  <2> QED BY <2>2, <2>4
<1>6. ContentsOK(t)
  BY <1>2, <1>3, <1>5 DEF ContentsOK, LengthFits
<1> QED BY <1>6 DEF t

LEMMA EmptyFits ==
    ASSUME NEW v \in VarType, v # VECTOR_KEY, v # VECTOR_STRING_DEPRECATED
    PROVE  ContentsOK(Empty(v))
<1>1. Empty(v).elems = <<>> /\ Empty(v).vType = v /\ Len(<<>>) = 0
  BY DEF Empty
<1> QED BY <1>1 DEF ContentsOK, LengthFits

LEMMA NullRestrictsNothing ==
    ~Restricted(NULL)
  BY DEF Restricted, isTypedVector, isFixedTypedVector, isBlobLike, isScalar, isTuple, isTriple,
         isQuad, NULL, VECTOR_BOOL, VECTOR_KEY, BLOB, STR, KEY

LEMMA MapsFit ==
    ASSUME NEW s, IsMap(s)
    PROVE  ContentsOK(s)
<1>1. s.vType # VECTOR_KEY /\ s.vType # VECTOR_STRING_DEPRECATED
  BY DEF IsMap, MAP, VECTOR_KEY, VECTOR_STRING_DEPRECATED
<1> QED BY <1>1, RestrictedOrRoomy DEF ContentsOK, LengthFits

LEMMA ElementFits ==
    ASSUME NEW s \in Structure, ContentsOK(s), NEW e \in Elem, NEW index \in Nat,
           Restricted(s.vType) => FitsIn(s.vType, e) /\ ~isFull(s)
    PROVE  ContentsOK(insertElement(s, e, index))
<1> DEFINE t == insertElement(s, e, index)
<1>1. t \in Structure /\ t.vType = s.vType
  BY InsertElementType
<1>2. t.elems = PutAt(s.elems, index, e)
  BY DEF insertElement, Structure
<1> HIDE DEF t
<1>3. ContentsOK(t)
  BY <1>1, <1>2, InsertFits
<1> QED BY <1>3 DEF t

LEMMA OffsetFits ==
    ASSUME NEW s \in Structure, ContentsOK(s), NEW e \in Elem, NEW index \in Nat,
           ~Restricted(s.vType)
    PROVE  ContentsOK(insertOffsetToObject(s, e, index))
<1> DEFINE t == insertOffsetToObject(s, e, index)
<1>1. t \in Structure /\ t.vType = s.vType
  BY InsertOffsetType
<1>2. t.elems = PutAt(s.elems, index, e)
  BY DEF insertOffsetToObject, Structure
<1> HIDE DEF t
<1>3. ContentsOK(t)
  BY <1>1, <1>2, InsertFits
<1> QED BY <1>3 DEF t

(* A restricted structure has one type of elements.                        *)
LEMMA RestrictedTypesAreOne ==
    ASSUME NEW v \in VarType, Restricted(v), NEW t, NEW u,
           allowsElemType(v, t), allowsElemType(v, u)
    PROVE  t = u
<1>1. \/ isUintTyped(v) \/ isIntTyped(v) \/ isFloatTyped(v) \/ isBoolTyped(v)
      \/ v = VECTOR_KEY \/ v = VECTOR_STRING_DEPRECATED
  BY DEF Restricted, isTypedVector, isFixedTypedVector, isScalar, isTuple, isTriple,
         isQuad, isBlobLike, isUintTyped, isIntTyped, isFloatTyped, isBoolTyped, VarType,
         VECTOR_INT, VECTOR_UINT, VECTOR_FLOAT, VECTOR_BOOL, VECTOR_KEY,
         VECTOR_STRING_DEPRECATED, INDIRECT_INT, INDIRECT_UINT, INDIRECT_FLOAT,
         VECTOR_INT2, VECTOR_UINT2, VECTOR_FLOAT2, VECTOR_INT3, VECTOR_UINT3, VECTOR_FLOAT3,
         VECTOR_INT4, VECTOR_UINT4, VECTOR_FLOAT4
<1>2. \E w : \A x : allowsElemType(v, x) => x = w
  <2>1. CASE isUintTyped(v)
    BY <2>1 DEF allowsElemType
  <2>2. CASE isIntTyped(v) /\ ~isUintTyped(v)
    BY <2>2 DEF allowsElemType
  <2>3. CASE isFloatTyped(v) /\ ~isUintTyped(v) /\ ~isIntTyped(v)
    BY <2>3 DEF allowsElemType
  <2>4. CASE isBoolTyped(v) /\ ~isUintTyped(v) /\ ~isIntTyped(v) /\ ~isFloatTyped(v)
    BY <2>4 DEF allowsElemType
  <2>5. CASE /\ v = VECTOR_KEY \/ v = VECTOR_STRING_DEPRECATED
             /\ ~isUintTyped(v) /\ ~isIntTyped(v) /\ ~isFloatTyped(v) /\ ~isBoolTyped(v)
    BY <2>5 DEF allowsElemType
  <2> QED BY <1>1, <2>1, <2>2, <2>3, <2>4, <2>5
<1> QED BY <1>2

-----------------------------------------------------------------------------
(* References, of the elements q of a structure and of its children c.     *)

RefersTo(q, id) == \E i \in 1..Len(q) : q[i].target = id

(* By one offset, of type v.                                               *)
RefersOnce(q, id, v) ==
    \E i \in 1..Len(q) : q[i].type = v /\ \A j \in 1..Len(q) : q[j].target = id <=> j = i

Owns(c, id) == \E i \in 1..Len(c) : c[i] = id

OwnsOnce(c, id) == \E i \in 1..Len(c) : \A j \in 1..Len(c) : c[j] = id <=> j = i

(* The sequence r is q with x at position p.                               *)
InsertedAt(r, q, p, x) ==
    /\ Len(q) \in Nat /\ p \in 1..(Len(q) + 1) /\ Len(r) = Len(q) + 1
    /\ \A i \in 1..(Len(q) + 1) :
          r[i] = IF i < p THEN q[i] ELSE IF i = p THEN x ELSE q[i - 1]

LEMMA PutAtForm ==
    ASSUME NEW S, NEW q \in Seq(S), NEW index \in Nat, NEW x \in S
    PROVE  InsertedAt(PutAt(q, index, x), q, PlaceOf(q, index), x)
<1> DEFINE p == PlaceOf(q, index)
           r == PutAt(q, index, x)
<1>1. Len(q) \in Nat
  BY LenProperties
<1>2. p \in 1..(Len(q) + 1)
  BY PutAtProperties
<1>3. Len(r) = Len(q) + 1
  BY PutAtProperties
<1>4. \A i \in 1..(p - 1) : r[i] = q[i]
  BY PutAtProperties
<1>5. \A i \in p..Len(q) : r[i + 1] = q[i]
  BY PutAtProperties
<1>6. r[p] = x
  BY PutAtInserted
<1> HIDE DEF p, r
<1>7. ASSUME NEW i \in 1..(Len(q) + 1)
      PROVE  r[i] = IF i < p THEN q[i] ELSE IF i = p THEN x ELSE q[i - 1]
  <2>1. CASE i < p
    BY <1>1, <1>2, <1>4, <2>1
  <2>2. CASE i = p
    BY <1>1, <1>2, <1>6, <2>2
  <2>3. CASE i > p
    <3>1. i - 1 \in p..Len(q) /\ (i - 1) + 1 = i
      BY <1>1, <1>2, <2>3
    <3>2. r[(i - 1) + 1] = q[i - 1]
      BY <1>5, <3>1
    <3> QED BY <1>1, <1>2, <2>3, <3>1, <3>2
  <2> QED BY <1>1, <1>2, <2>1, <2>2, <2>3
<1>8. InsertedAt(r, q, p, x)
  BY <1>1, <1>2, <1>3, <1>7 DEF InsertedAt
<1> QED BY <1>8 DEF p, r

(* A key of a map was new when the map had fewer keys: no key to come is   *)
(* equal to it, and no two are one object.                                 *)
KeysTold(m) ==
    /\ \A i \in 1..Len(m.keys) : m.keys[i].obj \in 1..Len(m.keys)
    /\ \A i, j \in 1..Len(m.keys) : m.keys[i].obj = m.keys[j].obj => i = j

LEMMA AddKeyTold ==
    ASSUME NEW m \in Structure, NEW name \in Nat, KeysTold(m)
    PROVE  KeysTold(AddKey(m, NewKey(m, name)))
<1> DEFINE k == NewKey(m, name)
           x == KeyIndex(m, k)
           r == PutAt(m.keys, x, k)
           p == PlaceOf(m.keys, x)
           n == Len(m.keys)
<1>1. k \in Key /\ k.obj = Len(m.keys) + 1 /\ m.keys \in Seq(Key) /\ Len(m.keys) \in Nat
  BY NewKeyType, LenProperties DEF NewKey, Structure
<1>2. x \in Nat
  BY <1>1, KeyIndexType
<1>3. AddKey(m, k).keys = r
  BY DEF AddKey, Structure
<1> HIDE DEF x, k
<1>4. InsertedAt(r, m.keys, p, k)
  BY <1>1, <1>2, PutAtForm
<1> HIDE DEF r, p
<1>5. /\ Len(r) = n + 1 /\ p \in 1..(n + 1)
      /\ \A i \in 1..(n + 1) : r[i] = IF i < p THEN m.keys[i] ELSE IF i = p THEN k ELSE m.keys[i - 1]
  BY <1>4 DEF InsertedAt
<1>6. /\ \A i \in 1..n : m.keys[i].obj \in 1..n
      /\ \A i, j \in 1..n : m.keys[i].obj = m.keys[j].obj => i = j
  BY DEF KeysTold
<1> HIDE DEF n
<1>7. n \in Nat /\ k.obj = n + 1
  BY <1>1 DEF n
<1>8. ASSUME NEW i \in 1..(n + 1), i # p
      PROVE  \E j \in 1..n : r[i] = m.keys[j] /\ i = IF j < p THEN j ELSE j + 1
  <2>1. CASE i < p
    <3>1. i \in 1..n /\ i \in 1..(p - 1)
      BY <1>5, <1>7, <2>1
    <3> QED BY <1>5, <2>1, <3>1
  <2>2. CASE i > p
    <3>1. i - 1 \in 1..n /\ i - 1 \in p..n /\ (i - 1) + 1 = i /\ ~(i - 1 < p)
      BY <1>5, <1>7, <2>2
    <3> QED BY <1>5, <3>1
  <2> QED BY <1>5, <1>8, <2>1, <2>2
<1>9. ASSUME NEW i \in 1..(n + 1)
      PROVE  r[i].obj \in 1..(n + 1) /\ (r[i].obj = n + 1 <=> i = p)
  <2>1. CASE i = p
    BY <1>5, <1>7, <2>1
  <2>2. CASE i # p
    <3>1. PICK j \in 1..n : r[i] = m.keys[j]
      BY <1>8, <2>2
    <3>2. m.keys[j].obj \in 1..n
      BY <1>6
    <3> QED BY <1>7, <2>2, <3>1, <3>2
  <2> QED BY <2>1, <2>2
<1>10. ASSUME NEW i \in 1..(n + 1), NEW j \in 1..(n + 1), r[i].obj = r[j].obj
      PROVE  i = j
  <2>1. CASE i = p
    BY <1>9, <1>10, <2>1
  <2>2. CASE i # p
    <3>1. j # p
      BY <1>9, <1>10, <2>2
    <3>2. PICK u \in 1..n : r[i] = m.keys[u] /\ i = IF u < p THEN u ELSE u + 1
      BY <1>8, <2>2
    <3>3. PICK w \in 1..n : r[j] = m.keys[w] /\ j = IF w < p THEN w ELSE w + 1
      BY <1>8, <3>1
    <3>4. u = w
      BY <1>6, <1>10, <3>2, <3>3
    <3> QED BY <3>2, <3>3, <3>4
  <2> QED BY <2>1, <2>2
<1>11. KeysTold(AddKey(m, k))
  BY <1>3, <1>5, <1>9, <1>10 DEF KeysTold
<1> QED BY <1>11 DEF k

(* Where the i-th element is then.                                         *)
Moved(i, p) == IF i < p THEN i ELSE i + 1

LEMMA InsertedIsOldOrNew ==
    ASSUME NEW r, NEW q, NEW p, NEW x, InsertedAt(r, q, p, x)
    PROVE  /\ p \in 1..Len(r) /\ r[p] = x
           /\ \A i \in 1..Len(q) : Moved(i, p) \in 1..Len(r) /\ r[Moved(i, p)] = q[i]
           /\ \A j \in 1..Len(r) : j # p => \E i \in 1..Len(q) : j = Moved(i, p) /\ r[j] = q[i]
<1>1. p \in 1..Len(r) /\ r[p] = x
  BY DEF InsertedAt
<1>2. ASSUME NEW i \in 1..Len(q)
      PROVE  Moved(i, p) \in 1..Len(r) /\ r[Moved(i, p)] = q[i]
  <2>1. CASE i < p
    BY <2>1 DEF InsertedAt, Moved
  <2>2. CASE ~(i < p)
    <3>1. Moved(i, p) = i + 1 /\ i + 1 \in 1..Len(r) /\ i + 1 \in 1..(Len(q) + 1) /\ (i + 1) - 1 = i
      BY <2>2 DEF InsertedAt, Moved
    <3>2. r[i + 1] = q[(i + 1) - 1]
      BY <2>2, <3>1 DEF InsertedAt
    <3> QED BY <3>1, <3>2
  <2> QED BY <2>1, <2>2
<1>3. ASSUME NEW j \in 1..Len(r), j # p
      PROVE  \E i \in 1..Len(q) : j = Moved(i, p) /\ r[j] = q[i]
  <2>1. CASE j < p
    <3>1. j \in 1..Len(q) /\ j = Moved(j, p) /\ r[j] = q[j]
      BY <2>1 DEF InsertedAt, Moved
    <3> QED BY <3>1
  <2>2. CASE j > p
    <3>1. j - 1 \in 1..Len(q) /\ j = Moved(j - 1, p) /\ r[j] = q[j - 1]
      BY <2>2 DEF InsertedAt, Moved
    <3> QED BY <3>1
  <2> QED BY <1>3, <2>1, <2>2 DEF InsertedAt
<1> QED BY <1>1, <1>2, <1>3

LEMMA InsertedRefs ==
    ASSUME NEW r, NEW q, NEW p, NEW x, InsertedAt(r, q, p, x), NEW id, id # x.target
    PROVE  /\ RefersTo(r, id) => RefersTo(q, id)
           /\ \A v : RefersOnce(q, id, v) => RefersOnce(r, id, v)
<1>1. ASSUME RefersTo(r, id) PROVE RefersTo(q, id)
  BY <1>1, InsertedIsOldOrNew DEF RefersTo
<1>2. ASSUME NEW v, RefersOnce(q, id, v)
      PROVE  RefersOnce(r, id, v)
  <2>1. PICK i \in 1..Len(q) : q[i].type = v /\ \A j \in 1..Len(q) : q[j].target = id <=> j = i
    BY <1>2 DEF RefersOnce
  <2>2. Moved(i, p) \in 1..Len(r) /\ r[Moved(i, p)] = q[i]
    BY InsertedIsOldOrNew
  <2>3. ASSUME NEW j \in 1..Len(r), r[j].target = id
        PROVE  j = Moved(i, p)
    <3>1. j # p
      BY <2>3, InsertedIsOldOrNew
    <3>2. PICK k \in 1..Len(q) : j = Moved(k, p) /\ r[j] = q[k]
      BY <3>1, InsertedIsOldOrNew
    <3>3. k = i
      BY <2>1, <2>3, <3>2
    <3> QED BY <3>2, <3>3
  <2> QED BY <2>1, <2>2, <2>3 DEF RefersOnce
<1> QED BY <1>1, <1>2

LEMMA InsertedRefsNew ==
    ASSUME NEW r, NEW q, NEW p, NEW x, InsertedAt(r, q, p, x), ~RefersTo(q, x.target)
    PROVE  RefersOnce(r, x.target, x.type)
<1>1. p \in 1..Len(r) /\ r[p] = x
  BY InsertedIsOldOrNew
<1>2. ASSUME NEW j \in 1..Len(r), j # p
      PROVE  r[j].target # x.target
  <2>1. \E i \in 1..Len(q) : r[j] = q[i]
    BY <1>2, InsertedIsOldOrNew
  <2> QED BY <2>1 DEF RefersTo
<1> QED BY <1>1, <1>2 DEF RefersOnce

LEMMA InsertedOwns ==
    ASSUME NEW r, NEW q, NEW p, NEW x, InsertedAt(r, q, p, x), NEW id, id # x
    PROVE  /\ Owns(r, id) => Owns(q, id)
           /\ OwnsOnce(q, id) => OwnsOnce(r, id)
<1>1. ASSUME Owns(r, id) PROVE Owns(q, id)
  BY <1>1, InsertedIsOldOrNew DEF Owns
<1>2. ASSUME OwnsOnce(q, id)
      PROVE  OwnsOnce(r, id)
  <2>1. PICK i \in 1..Len(q) : \A j \in 1..Len(q) : q[j] = id <=> j = i
    BY <1>2 DEF OwnsOnce
  <2>2. Moved(i, p) \in 1..Len(r) /\ r[Moved(i, p)] = q[i]
    BY InsertedIsOldOrNew
  <2>3. ASSUME NEW j \in 1..Len(r), r[j] = id
        PROVE  j = Moved(i, p)
    <3>1. j # p
      BY <2>3, InsertedIsOldOrNew
    <3>2. PICK k \in 1..Len(q) : j = Moved(k, p) /\ r[j] = q[k]
      BY <3>1, InsertedIsOldOrNew
    <3>3. k = i
      BY <2>1, <2>3, <3>2
    <3> QED BY <3>2, <3>3
  <2> QED BY <2>1, <2>2, <2>3 DEF OwnsOnce
<1> QED BY <1>1, <1>2

LEMMA InsertedOwnsNew ==
    ASSUME NEW r, NEW q, NEW p, NEW x, InsertedAt(r, q, p, x), ~Owns(q, x)
    PROVE  OwnsOnce(r, x)
<1>1. p \in 1..Len(r) /\ r[p] = x
  BY InsertedIsOldOrNew
<1>2. ASSUME NEW j \in 1..Len(r), j # p
      PROVE  r[j] # x
  <2>1. \E i \in 1..Len(q) : r[j] = q[i]
    BY <1>2, InsertedIsOldOrNew
  <2> QED BY <2>1 DEF Owns
<1> QED BY <1>1, <1>2 DEF OwnsOnce

-----------------------------------------------------------------------------
(* What becomes of a structure s.                                          *)

(* t has the references of s, and at most a new one beside them.           *)
GrowsBy(s, t, new) ==
    \A id \in Nat \ {NoStruct, new} :
        /\ RefersTo(t.elems, id) => RefersTo(s.elems, id)
        /\ \A v : RefersOnce(s.elems, id, v) => RefersOnce(t.elems, id, v)
        /\ Owns(t.children, id) => Owns(s.children, id)
        /\ OwnsOnce(s.children, id) => OwnsOnce(t.children, id)

(* The new one is an offset of type v and a child.                         *)
Links(s, t, new, v) ==
    /\ GrowsBy(s, t, new)
    /\ ~RefersTo(s.elems, new) => RefersOnce(t.elems, new, v)
    /\ ~Owns(s.children, new) => OwnsOnce(t.children, new)

(* s refers to nothing.                                                    *)
Leaf(s) == s.children = <<>> /\ \A i \in 1..Len(s.elems) : s.elems[i].target = NoStruct

(* One key at most comes to the others.                                    *)
KeysGrow(keys, more) == more = keys \/ \E p, k : InsertedAt(more, keys, p, k)

(* The entries of a map s are entries of t, in the same order.             *)
Pairs(s, t) ==
    IsMap(s) =>
        /\ KeysGrow(s.keys, t.keys)
        /\ \A i, j \in DOMAIN s.keys : i < j =>
              \E k, l \in DOMAIN t.keys :
                  /\ k < l
                  /\ t.keys[k] = s.keys[i] /\ t.keys[l] = s.keys[j]
                  /\ t.elems[k] = s.elems[i] /\ t.elems[l] = s.elems[j]

LEMMA InlineKeeps ==
    ASSUME NEW s \in Structure, NEW e \in Elem, e.target = NoStruct, NEW index \in Nat,
           NEW t, t.elems = PutAt(s.elems, index, e), t.children = s.children
    PROVE  GrowsBy(s, t, NoStruct)
<1> DEFINE p == PlaceOf(s.elems, index)
<1>1. InsertedAt(t.elems, s.elems, p, e)
  BY PutAtForm DEF Structure
<1> HIDE DEF p
<1>2. ASSUME NEW id \in Nat \ {NoStruct}
      PROVE  /\ RefersTo(t.elems, id) => RefersTo(s.elems, id)
             /\ \A v : RefersOnce(s.elems, id, v) => RefersOnce(t.elems, id, v)
  BY <1>1, InsertedRefs
<1> QED BY <1>2 DEF GrowsBy

LEMMA OffsetLinks ==
    ASSUME NEW s \in Structure, NEW e \in Elem, NEW index \in Nat,
           NEW t, t.elems = PutAt(s.elems, index, e),
           t.children = PutAt(s.children, index, e.target)
    PROVE  Links(s, t, e.target, e.type)
<1> DEFINE p == PlaceOf(s.elems, index)
           c == PlaceOf(s.children, index)
<1>1. InsertedAt(t.elems, s.elems, p, e)
  BY PutAtForm DEF Structure
<1>2. InsertedAt(t.children, s.children, c, e.target)
  BY PutAtForm DEF Structure, Elem
<1> HIDE DEF p, c
<1>3. ASSUME NEW id \in Nat \ {NoStruct, e.target}
      PROVE  /\ RefersTo(t.elems, id) => RefersTo(s.elems, id)
             /\ \A v : RefersOnce(s.elems, id, v) => RefersOnce(t.elems, id, v)
             /\ Owns(t.children, id) => Owns(s.children, id)
             /\ OwnsOnce(s.children, id) => OwnsOnce(t.children, id)
  <2>1. /\ RefersTo(t.elems, id) => RefersTo(s.elems, id)
        /\ \A v : RefersOnce(s.elems, id, v) => RefersOnce(t.elems, id, v)
    BY <1>1, InsertedRefs
  <2>2. /\ Owns(t.children, id) => Owns(s.children, id)
        /\ OwnsOnce(s.children, id) => OwnsOnce(t.children, id)
    BY <1>2, InsertedOwns
  <2> QED BY <2>1, <2>2
<1>4. ~RefersTo(s.elems, e.target) => RefersOnce(t.elems, e.target, e.type)
  BY <1>1, InsertedRefsNew
<1>5. ~Owns(s.children, e.target) => OwnsOnce(t.children, e.target)
  BY <1>2, InsertedOwnsNew
<1> QED BY <1>3, <1>4, <1>5 DEF Links, GrowsBy

(* Elements that are appended and refer to nothing change no reference.    *)
LEMMA InlineTailKeeps ==
    ASSUME NEW s \in Structure, NEW tail \in Seq(Elem),
           \A i \in 1..Len(tail) : tail[i].target = NoStruct,
           NEW t, t.elems = s.elems \o tail, t.children = s.children
    PROVE  GrowsBy(s, t, NoStruct)
<1> DEFINE q == s.elems
           r == t.elems
<1>1. q \in Seq(Elem) /\ r = q \o tail
  BY DEF Structure
<1> HIDE DEF q, r
<1>2. /\ Len(q) \in Nat /\ Len(tail) \in Nat /\ Len(r) = Len(q) + Len(tail)
      /\ \A i \in 1..Len(q) : r[i] = q[i]
  BY <1>1, LenProperties, ConcatProperties
<1>3. ASSUME NEW i \in 1..Len(r), i > Len(q)
      PROVE  r[i].target = NoStruct
  <2>1. i - Len(q) \in 1..Len(tail) /\ r[i] = tail[i - Len(q)]
    BY <1>1, <1>2, <1>3, ConcatProperties
  <2> QED BY <2>1
<1>4. ASSUME NEW id \in Nat \ {NoStruct}
      PROVE  /\ RefersTo(r, id) => RefersTo(q, id)
             /\ \A v : RefersOnce(q, id, v) => RefersOnce(r, id, v)
  <2>1. \A i \in 1..Len(r) : r[i].target = id => i \in 1..Len(q) /\ r[i] = q[i]
    BY <1>2, <1>3
  <2>2. \A i \in 1..Len(q) : i \in 1..Len(r) /\ r[i] = q[i]
    BY <1>2
  <2>3. RefersTo(r, id) => RefersTo(q, id)
    BY <2>1 DEF RefersTo
  <2>4. ASSUME NEW v, RefersOnce(q, id, v)
        PROVE  RefersOnce(r, id, v)
    <3>1. PICK i \in 1..Len(q) : q[i].type = v /\ \A j \in 1..Len(q) : q[j].target = id <=> j = i
      BY <2>4 DEF RefersOnce
    <3>2. i \in 1..Len(r) /\ r[i] = q[i]
      BY <2>2
    <3>3. \A j \in 1..Len(r) : r[j].target = id <=> j = i
      BY <2>1, <3>1, <3>2
    <3> QED BY <3>1, <3>2, <3>3 DEF RefersOnce
  <2> QED BY <2>3, <2>4
<1> QED BY <1>4 DEF GrowsBy, q, r

(* What Append adds to a string or key: short, and without references.     *)
LEMMA AcceptedTail ==
    ASSUME NEW s \in Structure, NEW n \in Nat, NEW size \in ByteSize
    PROVE  /\ Accepted(s, n, size) \in Seq(Elem)
           /\ Len(Accepted(s, n, size)) \in 0..n
           /\ \A i \in 1..Len(Accepted(s, n, size)) : Accepted(s, n, size)[i].target = NoStruct
<1> DEFINE c == IF allows(s, Rune(size)) THEN n ELSE 0
           r == Accepted(s, n, size)
<1>1. c \in 0..n /\ r = [i \in 1..c |-> Rune(size)]
  BY DEF Accepted
<1>2. r \in Seq(Elem)
  BY AcceptedType
<1> HIDE DEF c, r
<1>3. Len(r) = c
  BY <1>1, <1>2, LenProperties
<1>4. \A i \in 1..Len(r) : r[i].target = NoStruct
  BY <1>1, <1>3 DEF Rune, Inline
<1> QED BY <1>1, <1>2, <1>3, <1>4 DEF r

Unlinked(q) == \A i \in 1..Len(q) : q[i].target = NoStruct

(* Elements of a text, seen as a whole.                                    *)
LEMMA TailsJoin ==
    ASSUME NEW q \in Seq(Elem), NEW u \in Seq(Elem), NEW w \in Seq(Elem),
           Unlinked(u), Unlinked(w)
    PROVE  /\ u \o w \in Seq(Elem)
           /\ q \o u \o w = q \o (u \o w)
           /\ Len(q) \in Nat /\ Len(u) \in Nat /\ Len(w) \in Nat
           /\ Len(u \o w) = Len(u) + Len(w)
           /\ Unlinked(u \o w)
<1> DEFINE tail == u \o w
<1>1. q \o u \o w = q \o tail
  BY ConcatAssociative
<1>2. Len(q) \in Nat /\ Len(u) \in Nat /\ Len(w) \in Nat
  BY LenProperties
<1>3. /\ tail \in Seq(Elem) /\ Len(tail) = Len(u) + Len(w)
      /\ \A i \in 1..Len(tail) : tail[i] = IF i <= Len(u) THEN u[i] ELSE w[i - Len(u)]
  BY ConcatProperties
<1> HIDE DEF tail
<1>4. ASSUME NEW i \in 1..Len(tail)
      PROVE  tail[i].target = NoStruct
  <2>1. CASE i <= Len(u)
    BY <1>2, <1>3, <2>1 DEF Unlinked
  <2>2. CASE ~(i <= Len(u))
    <3>1. i - Len(u) \in 1..Len(w) /\ tail[i] = w[i - Len(u)]
      BY <1>2, <1>3, <2>2
    <3> QED BY <3>1 DEF Unlinked
  <2> QED BY <2>1, <2>2
<1>5. Unlinked(tail)
  BY <1>4 DEF Unlinked
<1> QED BY <1>1, <1>2, <1>3, <1>5 DEF tail

LEMMA TextKeeps ==
    ASSUME NEW s \in Structure, NEW text, text.narrow \in Nat, text.wide \in Nat
    PROVE  /\ GrowsBy(s, AppendText(s, text), NoStruct)
           /\ Len(AppendText(s, text).elems) <= Len(s.elems) + text.narrow + text.wide
           /\ Leaf(s) => Leaf(AppendText(s, text))
<1> DEFINE u == Accepted(s, text.narrow, b8)
           w == Accepted(s, text.wide, b16)
           tail == u \o w
           t == AppendText(s, text)
<1>1. b8 \in ByteSize /\ b16 \in ByteSize
  BY DEF ByteSize, b8, b16, b64
<1>2. u \in Seq(Elem) /\ Len(u) \in 0..text.narrow /\ Unlinked(u)
  BY <1>1, AcceptedTail DEF Unlinked
<1>3. w \in Seq(Elem) /\ Len(w) \in 0..text.wide /\ Unlinked(w)
  BY <1>1, AcceptedTail DEF Unlinked
<1> DEFINE q == s.elems
           n == text.narrow
           m == text.wide
<1>4. q \in Seq(Elem)
  BY DEF Structure
<1>5. t.elems = q \o u \o w /\ t.children = s.children
  BY DEF AppendText, Structure
<1>6. n \in Nat /\ m \in Nat /\ Len(u) \in 0..n /\ Len(w) \in 0..m
  BY <1>2, <1>3
<1> HIDE DEF q, u, w, t, n, m
<1>7. /\ u \o w \in Seq(Elem)
      /\ q \o u \o w = q \o (u \o w)
      /\ Len(q) \in Nat
      /\ Len(u \o w) = Len(u) + Len(w)
      /\ Unlinked(u \o w)
  BY <1>2, <1>3, <1>4, TailsJoin
<1>8. /\ tail \in Seq(Elem)
      /\ t.elems = q \o tail
      /\ Len(tail) = Len(u) + Len(w)
      /\ Unlinked(tail)
  BY <1>5, <1>7
<1> HIDE DEF tail
<1>9. GrowsBy(s, t, NoStruct)
  BY <1>5, <1>8, InlineTailKeeps DEF q, Unlinked
<1>10. Len(t.elems) <= Len(q) + n + m
  <2>1. Len(t.elems) = Len(q) + Len(tail)
    BY <1>4, <1>8, ConcatProperties
  <2> QED BY <1>6, <1>7, <1>8, <2>1
<1>11. ASSUME Leaf(s) PROVE Leaf(t)
  <2>1. Unlinked(q)
    BY <1>11 DEF Leaf, Unlinked, q
  <2>2. Unlinked(q \o tail)
    BY <1>4, <1>8, <2>1, TailsJoin
  <2> QED BY <1>5, <1>8, <1>11, <2>2 DEF Leaf, Unlinked
<1> QED BY <1>9, <1>10, <1>11 DEF q, t, n, m

(* A key and its value go to the same place, and push the others apart     *)
(* alike.                                                                  *)
LEMMA InsertedPairs ==
    ASSUME NEW s \in Structure, Len(s.keys) = Len(s.elems),
           NEW k \in Key, NEW e \in Elem, NEW index \in Nat,
           NEW t, t.keys = PutAt(s.keys, index, k), t.elems = PutAt(s.elems, index, e),
           DOMAIN t.keys = 1..Len(t.keys)
    PROVE  Pairs(s, t)
<1> DEFINE p == PlaceOf(s.elems, index)
<1>1. InsertedAt(t.elems, s.elems, p, e)
  BY PutAtForm DEF Structure
<1>2. InsertedAt(t.keys, s.keys, p, k)
  <2>1. PlaceOf(s.keys, index) = p
    BY DEF PlaceOf
  <2> QED BY <2>1, PutAtForm DEF Structure
<1> HIDE DEF p
<1>3. DOMAIN s.keys = 1..Len(s.keys) /\ Len(s.keys) \in Nat /\ p \in Nat
  BY <1>1, LenProperties DEF Structure, InsertedAt
<1>4. ASSUME NEW i \in DOMAIN s.keys, NEW j \in DOMAIN s.keys, i < j
      PROVE  \E m, n \in DOMAIN t.keys :
                /\ m < n
                /\ t.keys[m] = s.keys[i] /\ t.keys[n] = s.keys[j]
                /\ t.elems[m] = s.elems[i] /\ t.elems[n] = s.elems[j]
  <2>1. Moved(i, p) < Moved(j, p)
    BY <1>3, <1>4 DEF Moved
  <2>2. /\ Moved(i, p) \in DOMAIN t.keys /\ Moved(j, p) \in DOMAIN t.keys
        /\ t.keys[Moved(i, p)] = s.keys[i] /\ t.keys[Moved(j, p)] = s.keys[j]
    BY <1>2, <1>3, InsertedIsOldOrNew
  <2>3. t.elems[Moved(i, p)] = s.elems[i] /\ t.elems[Moved(j, p)] = s.elems[j]
    BY <1>1, <1>3, InsertedIsOldOrNew
  <2> QED BY <2>1, <2>2, <2>3
<1> QED BY <1>2, <1>4 DEF Pairs, KeysGrow

-----------------------------------------------------------------------------
(* What the calls make of a structure s: h, with no new reference, or with *)
(* one to the structure id of type v.                                      *)

Keeps(s, h) == h.vType = s.vType /\ GrowsBy(s, h, NoStruct) /\ Pairs(s, h)
Takes(s, h, id, v) == h.vType = s.vType /\ Links(s, h, id, v) /\ Pairs(s, h)

OneLonger(s, h) == Len(h.elems) = Len(s.elems) + 1

LEMMA PutAtOneLonger ==
    ASSUME NEW S, NEW q \in Seq(S), NEW index \in Nat, NEW x \in S
    PROVE  Len(PutAt(q, index, x)) = Len(q) + 1
<1>1. InsertedAt(PutAt(q, index, x), q, PlaceOf(q, index), x)
  BY PutAtForm
<1> QED BY <1>1 DEF InsertedAt

LEMMA ElementKeeps ==
    ASSUME NEW s \in Structure, ~IsMap(s), NEW e \in Elem, e.target = NoStruct, NEW index \in Nat
    PROVE  LET h == insertElement(s, e, index) IN Keeps(s, h) /\ OneLonger(s, h)
<1> DEFINE h == insertElement(s, e, index)
<1>1. h.vType = s.vType /\ h.elems = PutAt(s.elems, index, e) /\ h.children = s.children
  BY DEF insertElement, Structure
<1> HIDE DEF h
<1>2. GrowsBy(s, h, NoStruct)
  BY <1>1, InlineKeeps
<1>3. Len(PutAt(s.elems, index, e)) = Len(s.elems) + 1
  BY PutAtOneLonger DEF Structure
<1> QED BY <1>1, <1>2, <1>3 DEF Keeps, OneLonger, Pairs, h

LEMMA OffsetTaken ==
    ASSUME NEW s \in Structure, ~IsMap(s), NEW e \in Elem, NEW index \in Nat
    PROVE  LET h == insertOffsetToObject(s, e, index) IN
           Takes(s, h, e.target, e.type) /\ OneLonger(s, h)
<1> DEFINE h == insertOffsetToObject(s, e, index)
<1>1. /\ h.vType = s.vType /\ h.elems = PutAt(s.elems, index, e)
      /\ h.children = PutAt(s.children, index, e.target)
  BY DEF insertOffsetToObject, Structure
<1> HIDE DEF h
<1>2. Links(s, h, e.target, e.type)
  BY <1>1, OffsetLinks
<1>3. Len(PutAt(s.elems, index, e)) = Len(s.elems) + 1
  BY PutAtOneLonger DEF Structure
<1> QED BY <1>1, <1>2, <1>3 DEF Takes, OneLonger, Pairs, h

(* A key k and, at its place, a value e.                                   *)
LEMMA KeyedPairs ==
    ASSUME NEW m \in Structure, MapOK(m), IsMap(m), NEW k \in Key, NEW e \in Elem,
           NEW h, h.keys = PutAt(m.keys, KeyIndex(m, k), k),
           h.elems = PutAt(m.elems, KeyIndex(m, k), e)
    PROVE  /\ KeyIndex(m, k) \in Nat
           /\ Pairs(m, h)
           /\ OneLonger(m, h)
<1> DEFINE x == KeyIndex(m, k)
<1>1. x \in Nat
  BY KeyIndexType, LenProperties DEF Structure
<1> HIDE DEF x
<1>2. PutAt(m.keys, x, k) \in Seq(Key) /\ Len(PutAt(m.elems, x, e)) = Len(m.elems) + 1
  <2>1. m.keys \in Seq(Key) /\ m.elems \in Seq(Elem)
    BY DEF Structure
  <2>2. PutAt(m.keys, x, k) \in Seq(Key)
    BY <1>1, <2>1, PutAtProperties
  <2>3. Len(PutAt(m.elems, x, e)) = Len(m.elems) + 1
    BY <1>1, <2>1, PutAtOneLonger
  <2> QED BY <2>2, <2>3
<1>3. h.keys = PutAt(m.keys, x, k) /\ h.elems = PutAt(m.elems, x, e)
  BY DEF x
<1>4. DOMAIN h.keys = 1..Len(h.keys)
  BY <1>2, <1>3, LenProperties
<1>5. Len(m.keys) = Len(m.elems)
  BY DEF MapOK, KeysOK
<1>6. Pairs(m, h)
  BY <1>1, <1>3, <1>4, <1>5, InsertedPairs
<1> QED BY <1>1, <1>2, <1>3, <1>6 DEF OneLonger, x

LEMMA KeyedElementKeeps ==
    ASSUME NEW m \in Structure, MapOK(m), NEW name \in Nat, NEW e \in Elem, e.target = NoStruct,
           TakesKey(m, NewKey(m, name))
    PROVE  LET h == addElementWithKey(m, NewKey(m, name), e) IN Keeps(m, h) /\ OneLonger(m, h)
<1> DEFINE k == NewKey(m, name)
           h == addElementWithKey(m, k, e)
<1>1. IsMap(m) /\ k \in Key
  BY NewKeyType DEF TakesKey
<1> HIDE DEF k
<1>2. /\ h.vType = m.vType /\ h.children = m.children
      /\ h.keys = PutAt(m.keys, KeyIndex(m, k), k) /\ h.elems = PutAt(m.elems, KeyIndex(m, k), e)
  BY DEF addElementWithKey, insertElement, AddKey, Structure
<1> HIDE DEF h
<1>3. KeyIndex(m, k) \in Nat /\ Pairs(m, h) /\ OneLonger(m, h)
  BY <1>1, <1>2, KeyedPairs
<1>4. GrowsBy(m, h, NoStruct)
  BY <1>2, <1>3, InlineKeeps
<1> QED BY <1>2, <1>3, <1>4 DEF Keeps, h, k

LEMMA KeyedOffsetTaken ==
    ASSUME NEW m \in Structure, MapOK(m), NEW name \in Nat, NEW e \in Elem,
           TakesKey(m, NewKey(m, name))
    PROVE  LET h == addOffsetWithKey(m, NewKey(m, name), e) IN
           Takes(m, h, e.target, e.type) /\ OneLonger(m, h)
<1> DEFINE k == NewKey(m, name)
           h == addOffsetWithKey(m, k, e)
<1>1. IsMap(m) /\ k \in Key
  BY NewKeyType DEF TakesKey
<1> HIDE DEF k
<1>2. /\ h.vType = m.vType /\ h.children = PutAt(m.children, KeyIndex(m, k), e.target)
      /\ h.keys = PutAt(m.keys, KeyIndex(m, k), k) /\ h.elems = PutAt(m.elems, KeyIndex(m, k), e)
  BY DEF addOffsetWithKey, insertOffsetToObject, AddKey, Structure
<1> HIDE DEF h
<1>3. KeyIndex(m, k) \in Nat /\ Pairs(m, h) /\ OneLonger(m, h)
  BY <1>1, <1>2, KeyedPairs
<1>4. Links(m, h, e.target, e.type)
  BY <1>2, <1>3, OffsetLinks
<1> QED BY <1>2, <1>3, <1>4 DEF Takes, h, k

LEMMA TextIsKept ==
    ASSUME NEW s \in Structure, ~IsMap(s), NEW text, text.narrow \in Nat, text.wide \in Nat
    PROVE  Keeps(s, AppendText(s, text))
<1>1. AppendText(s, text).vType = s.vType
  BY DEF AppendText, Structure
<1> QED BY <1>1, TextKeeps DEF Keeps, Pairs

-----------------------------------------------------------------------------
(* No structure refers to the root, every offset refers to a structure;    *)
(* floats take four bytes or eight, bools and null one.                    *)

Sized(e) ==
    /\ e.type = FLOAT => e.size \in {b32, b64}
    /\ e.type \in {BOOL, NULL} => e.size = b8

Sound(e) ==
    /\ e.target # Root /\ (isInline(e.type) \/ e.target # NoStruct)
    /\ isInline(e.type) => Sized(e)
AllSound(q) == \A i \in 1..Len(q) : Sound(q[i])
BehindRoot(c) == \A i \in 1..Len(c) : c[i] > Root
Linked(s) == AllSound(s.elems) /\ BehindRoot(s.children)

LEMMA PutAtSound ==
    ASSUME NEW q \in Seq(Elem), NEW index \in Nat, NEW e \in Elem, AllSound(q), Sound(e)
    PROVE  AllSound(PutAt(q, index, e))
<1> DEFINE r == PutAt(q, index, e)
<1>1. ASSUME NEW i \in 1..Len(r)
      PROVE  r[i] = e \/ \E j \in 1..Len(q) : r[i] = q[j]
  BY PutAtKeeps
<1> HIDE DEF r
<1>2. AllSound(r)
  BY <1>1 DEF AllSound
<1> QED BY <1>2 DEF r

LEMMA PutAtBehindRoot ==
    ASSUME NEW c \in Seq(Nat), NEW index \in Nat, NEW id \in Nat, BehindRoot(c), id > Root
    PROVE  BehindRoot(PutAt(c, index, id))
<1> DEFINE r == PutAt(c, index, id)
<1>1. ASSUME NEW i \in 1..Len(r)
      PROVE  r[i] = id \/ \E j \in 1..Len(c) : r[i] = c[j]
  BY PutAtKeeps
<1> HIDE DEF r
<1>2. BehindRoot(r)
  BY <1>1 DEF BehindRoot
<1> QED BY <1>2 DEF r

LEMMA ElementLinked ==
    ASSUME NEW s \in Structure, Linked(s), NEW e \in Elem, Sound(e), NEW index \in Nat
    PROVE  Linked(insertElement(s, e, index))
<1> DEFINE t == insertElement(s, e, index)
<1>1. t.elems = PutAt(s.elems, index, e) /\ t.children = s.children /\ s.elems \in Seq(Elem)
  BY DEF insertElement, Structure
<1>2. AllSound(PutAt(s.elems, index, e))
  BY <1>1, PutAtSound DEF Linked
<1> HIDE DEF t
<1>3. Linked(t)
  BY <1>1, <1>2 DEF Linked
<1> QED BY <1>3 DEF t

LEMMA OffsetLinked ==
    ASSUME NEW s \in Structure, Linked(s), NEW e \in Elem, e.target > Root, ~isInline(e.type),
           NEW index \in Nat
    PROVE  Linked(insertOffsetToObject(s, e, index))
<1> DEFINE t == insertOffsetToObject(s, e, index)
<1>1. /\ t.elems = PutAt(s.elems, index, e) /\ t.children = PutAt(s.children, index, e.target)
      /\ s.elems \in Seq(Elem) /\ s.children \in Seq(Nat)
  BY DEF insertOffsetToObject, Structure
<1>2. e.target \in Nat /\ Sound(e)
  BY DEF Elem, Sound, Root, NoStruct
<1>3. AllSound(PutAt(s.elems, index, e))
  BY <1>1, <1>2, PutAtSound DEF Linked
<1>4. BehindRoot(PutAt(s.children, index, e.target))
  BY <1>1, <1>2, PutAtBehindRoot DEF Linked
<1> HIDE DEF t
<1>5. Linked(t)
  BY <1>1, <1>3, <1>4 DEF Linked
<1> QED BY <1>5 DEF t

LEMMA InlineSound ==
    ASSUME NEW e \in InlineElem
    PROVE  Sound(Inline(e))
<1>1. Inline(e).target = NoStruct /\ Inline(e).type = e.type /\ Inline(e).size = e.size
  BY DEF Inline
<1>2. isInline(e.type) /\ Sized(e)
  BY DEF InlineElem, Sized, isInline, NULL, INT, UINT, FLOAT, BOOL
<1> QED BY <1>1, <1>2 DEF Sound, Sized, NoStruct, Root

LEMMA AcceptedSound ==
    ASSUME NEW s \in Structure, NEW n \in Nat, NEW size \in ByteSize
    PROVE  AllSound(Accepted(s, n, size))
<1> DEFINE c == IF allows(s, Rune(size)) THEN n ELSE 0
           r == Accepted(s, n, size)
<1>1. Sound(Rune(size))
  BY DEF Rune, Inline, Sound, Sized, isInline, NoStruct, Root, NULL, UINT, FLOAT, BOOL
<1>2. c \in Nat /\ r = [i \in 1..c |-> Rune(size)]
  BY DEF Accepted
<1> HIDE DEF c, r
<1>3. Len(r) = c
  BY <1>2
<1>4. AllSound(r)
  BY <1>1, <1>2, <1>3 DEF AllSound
<1> QED BY <1>4 DEF r

LEMMA ConcatSound ==
    ASSUME NEW q \in Seq(Elem), NEW r \in Seq(Elem), AllSound(q), AllSound(r)
    PROVE  q \o r \in Seq(Elem) /\ AllSound(q \o r)
<1> DEFINE t == q \o r
<1>1. /\ t \in Seq(Elem) /\ Len(t) = Len(q) + Len(r)
      /\ \A i \in 1..(Len(q) + Len(r)) : t[i] = IF i <= Len(q) THEN q[i] ELSE r[i - Len(q)]
  BY ConcatProperties
<1>2. Len(q) \in Nat /\ Len(r) \in Nat
  BY LenProperties
<1> HIDE DEF t
<1>3. ASSUME NEW i \in 1..Len(t)
      PROVE  Sound(t[i])
  <2>1. CASE i <= Len(q)
    BY <1>1, <1>2, <2>1 DEF AllSound
  <2>2. CASE ~(i <= Len(q))
    <3>1. i - Len(q) \in 1..Len(r) /\ t[i] = r[i - Len(q)]
      BY <1>1, <1>2, <2>2
    <3> QED BY <3>1 DEF AllSound
  <2> QED BY <2>1, <2>2
<1>4. t \in Seq(Elem) /\ AllSound(t)
  BY <1>1, <1>3 DEF AllSound
<1> QED BY <1>4 DEF t

LEMMA TextLinked ==
    ASSUME NEW s \in Structure, Linked(s), NEW text, text.narrow \in Nat, text.wide \in Nat
    PROVE  Linked(AppendText(s, text))
<1> DEFINE u == Accepted(s, text.narrow, b8)
           w == Accepted(s, text.wide, b16)
           t == AppendText(s, text)
<1>1. b8 \in ByteSize /\ b16 \in ByteSize
  BY DEF ByteSize, b8, b16, b64
<1>2. u \in Seq(Elem) /\ AllSound(u) /\ w \in Seq(Elem) /\ AllSound(w)
  BY <1>1, AcceptedType, AcceptedSound
<1>3. t.elems = s.elems \o u \o w /\ t.children = s.children /\ s.elems \in Seq(Elem)
  BY DEF AppendText, Structure
<1> HIDE DEF t, u, w
<1>4. s.elems \o u \in Seq(Elem) /\ AllSound(s.elems \o u)
  BY <1>2, <1>3, ConcatSound DEF Linked
<1>5. AllSound(s.elems \o u \o w)
  BY <1>2, <1>4, ConcatSound
<1>6. Linked(t)
  BY <1>3, <1>5 DEF Linked
<1> QED BY <1>6 DEF t

(* A structure as it is when it becomes part of the document.              *)
Fresh(s) == s.keys = <<>> /\ Linked(s)

LEMMA EmptyFresh ==
    ASSUME NEW v
    PROVE  Fresh(Empty(v))
<1>1. /\ Empty(v).keys = <<>> /\ Empty(v).elems = <<>> /\ Empty(v).children = <<>>
      /\ Len(<<>>) = 0
  BY DEF Empty
<1> QED BY <1>1 DEF Fresh, Linked, AllSound, BehindRoot

LEMMA TextFresh ==
    ASSUME NEW v \in VarType, NEW text \in [narrow : Nat, wide : Nat]
    PROVE  Fresh(AppendText(Empty(v), text))
<1>1. Empty(v) \in Structure /\ Linked(Empty(v)) /\ Empty(v).keys = <<>>
  BY EmptyType, EmptyFresh DEF Fresh
<1>2. text.narrow \in Nat /\ text.wide \in Nat
  OBVIOUS
<1>3. Linked(AppendText(Empty(v), text))
  BY <1>1, <1>2, TextLinked
<1>4. AppendText(Empty(v), text).keys = Empty(v).keys
  BY <1>1 DEF AppendText, Structure
<1> QED BY <1>1, <1>3, <1>4 DEF Fresh

-----------------------------------------------------------------------------
(* What becomes of a document, a sequence q of structures.                 *)

Mentions(s, id) == RefersTo(s.elems, id) \/ Owns(s.children, id)

(* q[p] refers to q[id] once, by an offset of its type, and has it as a    *)
(* child once; no other structure has anything to do with it.              *)
IsParent(q, p, id) ==
    /\ RefersOnce(q[p].elems, id, q[id].vType)
    /\ OwnsOnce(q[p].children, id)
    /\ \A r \in 1..Len(q) : r # p => ~Mentions(q[r], id)

IsTree(q) ==
    /\ \A id \in 2..Len(q) : \E p \in 1..(id - 1) : IsParent(q, p, id)
    /\ \A id \in Nat, r \in 1..Len(q) : id > Len(q) => ~Mentions(q[r], id)

LEMMA GrownMentions ==
    ASSUME NEW s, NEW t, NEW new, GrowsBy(s, t, new), NEW id \in Nat, id # NoStruct, id # new
    PROVE  /\ Mentions(t, id) => Mentions(s, id)
           /\ \A v : RefersOnce(s.elems, id, v) => RefersOnce(t.elems, id, v)
           /\ OwnsOnce(s.children, id) => OwnsOnce(t.children, id)
<1>1. id \in Nat \ {NoStruct, new}
  OBVIOUS
<1> QED BY <1>1 DEF GrowsBy, Mentions

LEMMA LeavesMentionNothing ==
    ASSUME NEW s, Leaf(s), NEW id, id # NoStruct
    PROVE  ~Mentions(s, id)
<1>1. ~RefersTo(s.elems, id)
  BY DEF Leaf, RefersTo
<1>2. ~Owns(s.children, id)
  <2>1. s.children = <<>> /\ Len(<<>>) = 0
    BY DEF Leaf
  <2> QED BY <2>1 DEF Owns
<1> QED BY <1>1, <1>2 DEF Mentions

(* r is the tree q with h, which may refer to new, as its g-th structure.  *)
EditOf(r, q, g, h, new) ==
    /\ r \in Seq(Structure) /\ Len(r) = Len(q) /\ r[g] = h
    /\ \A i \in 1..Len(q) : r[i].vType = q[i].vType
    /\ \A id \in 2..Len(q) : \E p \in 1..(id - 1) : IsParent(r, p, id)
    /\ \A id \in Nat, i \in 1..Len(q) :
          id > Len(q) /\ (i # g \/ id # new) => ~Mentions(r[i], id)

(* One structure of a tree is replaced by a later form of itself.          *)
LEMMA EditedTree ==
    ASSUME NEW q \in Seq(Structure), IsTree(q), NEW g \in 1..Len(q),
           NEW h \in Structure, h.vType = q[g].vType,
           NEW new, new = NoStruct \/ new = Len(q) + 1, GrowsBy(q[g], h, new)
    PROVE  EditOf([q EXCEPT ![g] = h], q, g, h, new)
<1> DEFINE r == [q EXCEPT ![g] = h]
<1>1. /\ r \in Seq(Structure) /\ Len(r) = Len(q) /\ Len(q) \in Nat
      /\ \A i \in 1..Len(q) : r[i] = IF i = g THEN h ELSE q[i]
  BY ExceptSeq, LenProperties
<1> HIDE DEF r
<1>2. \A i \in 1..Len(q) : r[i].vType = q[i].vType
  BY <1>1
<1>3. ASSUME NEW id \in Nat, id # NoStruct, id # new, NEW i \in 1..Len(q)
      PROVE  /\ Mentions(r[i], id) => Mentions(q[i], id)
             /\ \A v : RefersOnce(q[i].elems, id, v) => RefersOnce(r[i].elems, id, v)
             /\ OwnsOnce(q[i].children, id) => OwnsOnce(r[i].children, id)
  <2>1. CASE i = g
    <3>1. r[i] = h /\ q[i] = q[g]
      BY <1>1, <2>1
    <3> QED BY <1>3, <3>1, GrownMentions
  <2>2. CASE i # g
    <3>1. r[i] = q[i]
      BY <1>1, <2>2
    <3> QED BY <3>1
  <2> QED BY <2>1, <2>2
<1>4. ASSUME NEW id \in 2..Len(q)
      PROVE  \E p \in 1..(id - 1) : IsParent(r, p, id)
  <2>1. PICK p \in 1..(id - 1) : IsParent(q, p, id)
    BY DEF IsTree
  <2>2. id \in Nat /\ id # NoStruct /\ id # new /\ p \in 1..Len(q) /\ id \in 1..Len(q)
    BY <1>1 DEF NoStruct
  <2>3. RefersOnce(r[p].elems, id, r[id].vType) /\ OwnsOnce(r[p].children, id)
    BY <1>2, <1>3, <2>1, <2>2 DEF IsParent
  <2>4. \A i \in 1..Len(r) : i # p => ~Mentions(r[i], id)
    BY <1>1, <1>3, <2>1, <2>2 DEF IsParent
  <2> QED BY <2>3, <2>4 DEF IsParent
<1>5. ASSUME NEW id \in Nat, NEW i \in 1..Len(q), id > Len(q), i # g \/ id # new
      PROVE  ~Mentions(r[i], id)
  <2>1. ~Mentions(q[i], id) /\ id # NoStruct
    BY <1>1, <1>5 DEF IsTree, NoStruct
  <2>2. CASE i # g
    BY <1>1, <2>1, <2>2
  <2>3. CASE id # new
    BY <1>3, <2>1, <2>3
  <2> QED BY <1>5, <2>2, <2>3
<1>6. EditOf(r, q, g, h, new)
  BY <1>1, <1>2, <1>4, <1>5 DEF EditOf
<1> QED BY <1>6 DEF r

LEMMA KeptTree ==
    ASSUME NEW q \in Seq(Structure), IsTree(q), NEW g \in 1..Len(q),
           NEW h \in Structure, h.vType = q[g].vType, GrowsBy(q[g], h, NoStruct)
    PROVE  IsTree([q EXCEPT ![g] = h])
<1> DEFINE r == [q EXCEPT ![g] = h]
<1>1. EditOf(r, q, g, h, NoStruct)
  BY EditedTree
<1> HIDE DEF r
<1>2. Len(q) \in Nat
  BY LenProperties
<1>3. IsTree(r)
  BY <1>1, <1>2 DEF EditOf, IsTree, NoStruct
<1> QED BY <1>3 DEF r

(* A structure is added, with an offset to it in another.                  *)
LEMMA LinkedTree ==
    ASSUME NEW q \in Seq(Structure), IsTree(q), NEW g \in 1..Len(q),
           NEW h \in Structure, h.vType = q[g].vType,
           NEW s \in Structure, Leaf(s), Links(q[g], h, Len(q) + 1, s.vType)
    PROVE  IsTree(Append([q EXCEPT ![g] = h], s))
<1> DEFINE e == [q EXCEPT ![g] = h]
           r == Append(e, s)
           n == Len(q)
<1>0. n \in Nat /\ n + 1 # NoStruct
  BY LenProperties DEF NoStruct
<1>7. EditOf(e, q, g, h, Len(q) + 1)
  BY EditedTree DEF Links
<1> HIDE DEF e
<1>1. /\ e \in Seq(Structure) /\ Len(e) = n /\ e[g] = h
      /\ \A id \in 2..n : \E p \in 1..(id - 1) : IsParent(e, p, id)
      /\ \A id \in Nat, i \in 1..n : id > n /\ (i # g \/ id # n + 1) => ~Mentions(e[i], id)
  BY <1>7 DEF EditOf
<1>2. /\ Len(r) = n + 1 /\ r[n + 1] = s
      /\ \A i \in 1..n : r[i] = e[i]
  <2> HIDE DEF n
  <2>1. e \in Seq(Structure) /\ Len(e) = n
    BY <1>1
  <2> QED BY <1>0, <2>1, AppendProperties
<1> HIDE DEF r
<1>3. ASSUME NEW id \in 2..n
      PROVE  \E p \in 1..(id - 1) : IsParent(r, p, id)
  <2>1. PICK p \in 1..(id - 1) : IsParent(e, p, id)
    BY <1>1
  <2>2. p \in 1..n /\ id \in 1..n /\ id # NoStruct
    BY <1>0 DEF NoStruct, n
  <2>3. r[p] = e[p] /\ r[id] = e[id]
    BY <1>2, <2>2
  <2>4. \A i \in 1..(n + 1) : i # p => ~Mentions(r[i], id)
    <3>1. ~Mentions(s, id)
      BY <2>2, LeavesMentionNothing
    <3>2. ASSUME NEW i \in 1..(n + 1), i # p
          PROVE  ~Mentions(r[i], id)
      <4>1. CASE i = n + 1
        BY <1>2, <3>1, <4>1
      <4>2. CASE i # n + 1
        <5>1. i \in 1..n /\ r[i] = e[i]
          BY <1>0, <1>2, <4>2
        <5> QED BY <1>1, <2>1, <3>2, <5>1 DEF IsParent
      <4> QED BY <4>1, <4>2
    <3> QED BY <3>2
  <2> QED BY <1>2, <2>1, <2>3, <2>4 DEF IsParent
<1>4. \E p \in 1..((n + 1) - 1) : IsParent(r, p, n + 1)
  <2>1. ~Mentions(q[g], n + 1)
    BY <1>0 DEF IsTree, n
  <2>2. RefersOnce(h.elems, n + 1, s.vType) /\ OwnsOnce(h.children, n + 1)
    BY <2>1 DEF Mentions, Links, n
  <2>3. g \in 1..n /\ r[g] = h
    BY <1>1, <1>2 DEF n
  <2>4. ASSUME NEW i \in 1..(n + 1), i # g
        PROVE  ~Mentions(r[i], n + 1)
    <3>1. CASE i = n + 1
      BY <1>0, <1>2, <3>1, LeavesMentionNothing
    <3>2. CASE i # n + 1
      <4>1. i \in 1..n /\ r[i] = e[i]
        BY <1>0, <1>2, <3>2
      <4> QED BY <1>0, <1>1, <2>4, <4>1
    <3> QED BY <3>1, <3>2
  <2>5. IsParent(r, g, n + 1)
    BY <1>2, <2>2, <2>3, <2>4 DEF IsParent
  <2>6. g \in 1..((n + 1) - 1)
    BY <1>0, <2>3
  <2> QED BY <2>5, <2>6
<1>5. ASSUME NEW id \in Nat, NEW i \in 1..(n + 1), id > n + 1
      PROVE  ~Mentions(r[i], id)
  <2>1. CASE i = n + 1
    BY <1>0, <1>2, <1>5, <2>1, LeavesMentionNothing DEF NoStruct
  <2>2. CASE i # n + 1
    <3>1. i \in 1..n /\ r[i] = e[i]
      BY <1>0, <1>2, <2>2
    <3> QED BY <1>0, <1>1, <1>5, <3>1
  <2> QED BY <2>1, <2>2
<1>6. IsTree(r)
  <2>1. ASSUME NEW id \in 2..Len(r)
        PROVE  \E p \in 1..(id - 1) : IsParent(r, p, id)
    <3>1. id \in 2..n \/ id = n + 1
      BY <1>0, <1>2
    <3> QED BY <1>3, <1>4, <3>1
  <2> QED BY <1>2, <1>5, <2>1 DEF IsTree
<1> QED BY <1>6 DEF r, e
=============================================================================
