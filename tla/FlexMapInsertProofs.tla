------------------------- MODULE FlexMapInsertProofs -------------------------
(***************************************************************************)
(* The search of FlexMapInsert is right for maps of every size, whatever   *)
(* their names.                                                            *)
(***************************************************************************)
EXTENDS FlexMapInsert, FlexObjectProofs

(* The entry under insertion stays acceptable while the search runs.       *)
KeyIsNew == pc = "search" => TakesKey(map, key) /\ key = NewKey(map, key.name)

IInv == TypeOK /\ KeysOK(map) /\ KeyIsNew /\ SearchBrackets

LEMMA InitIInv ==
    ASSUME Init
    PROVE  IInv
<1>1. MAP \in VarType /\ VECTOR \in VarType
  BY DEF VarType, MAP, VECTOR
<1>2. map \in Structure /\ IsMap(map) /\ map.keys = <<>>
  BY <1>1, EmptyType DEF Init, Empty, IsMap
<1>3. KeysOK(map)
  BY <1>1, <1>2, EmptyOK DEF Init, MapOK
<1>4. Len(map.keys) + 1 \in Nat
  BY <1>2, LenProperties DEF Structure
<1>5. value \in Elem
  BY <1>1, <1>4, OffsetType DEF Init, Offset
<1>6. TypeOK
  BY <1>2, <1>5 DEF Init, TypeOK, Key
<1>7. KeyIsNew /\ SearchBrackets
  BY DEF Init, KeyIsNew, SearchBrackets
<1> QED BY <1>3, <1>6, <1>7 DEF IInv

(* What the names of a sorted map are, and how they compare.               *)
LEMMA NamesOrdered ==
    ASSUME IInv
    PROVE  /\ Len(map.keys) \in Nat
           /\ key.name \in Nat
           /\ \A i \in 1..Len(map.keys) : map.keys[i].name \in Nat
           /\ \A i, j \in 1..Len(map.keys) : i < j => map.keys[i].name <= map.keys[j].name
<1>1. Len(map.keys) \in Nat /\ map.keys \in Seq(Key) /\ key.name \in Nat
  BY LenProperties DEF IInv, TypeOK, Structure, Key
<1>2. ASSUME NEW i \in 1..Len(map.keys)
      PROVE  map.keys[i].name \in Nat
  <2>1. map.keys[i] \in Key
    BY <1>1, ElementOfSeq
  <2> QED BY <2>1 DEF Key
<1>3. ASSUME NEW i \in 1..Len(map.keys), NEW j \in 1..Len(map.keys), i < j
      PROVE  map.keys[i].name <= map.keys[j].name
  <2>1. map.keys[i].name < map.keys[j].name \/ map.keys[i].name = map.keys[j].name
    BY <1>3 DEF IInv, KeysOK, KeysInOrder
  <2>2. map.keys[i].name \in Nat /\ map.keys[j].name \in Nat
    BY <1>2
  <2> QED BY <2>1, <2>2
<1> QED BY <1>1, <1>2, <1>3

LEMMA CallIInv ==
    ASSUME IInv, NEW name \in Names, NEW v \in Elem, Call(name, v)
    PROVE  IInv'
<1>1. key' \in Key
  BY NewKeyType, NamesAssumption DEF Call, IInv, TypeOK
<1>2. Len(map.keys) \in Nat
  BY NamesOrdered
<1>3. TypeOK' /\ KeysOK(map)'
  BY <1>1, <1>2 DEF Call, IInv, TypeOK
<1>4. KeyIsNew'
  BY DEF Call, KeyIsNew, NewKey
<1>5. low' = 0 /\ high' = Len(map'.keys) /\ map' = map
  BY DEF Call
<1>6. SearchBrackets'
  BY <1>2, <1>5 DEF SearchBrackets
<1> QED BY <1>3, <1>4, <1>6 DEF IInv

(* The pivot lies in the subslice, with less than half of it on each side. *)
LEMMA PivotInside ==
    ASSUME IInv, pc = "search", length >= 2
    PROVE  /\ low \in Nat /\ high \in Nat /\ pivot \in Nat /\ length = high - low
           /\ pivot >= 1 /\ pivot < length /\ 2 * pivot <= length /\ length <= 2 * pivot + 1
           /\ low + pivot + 1 \in 1..Len(map.keys)
<1>1. low \in Nat /\ high \in Nat /\ low <= high /\ high <= Len(map.keys) /\ Len(map.keys) \in Nat
  BY NamesOrdered DEF IInv, TypeOK, SearchBrackets
<1>2. \A n \in Nat : /\ n \div 2 \in Nat /\ 2 * (n \div 2) <= n /\ n <= 2 * (n \div 2) + 1
  OBVIOUS
<1> QED BY <1>1, <1>2 DEF length, pivot

LEMMA GoLeftIInv ==
    ASSUME IInv, GoLeft
    PROVE  IInv' /\ 2 * (high' - low') <= length
<1>1. /\ high' = low + pivot /\ low' = low /\ map' = map /\ key' = key /\ value' = value /\ pc' = pc
      /\ pc = "search" /\ length >= 2 /\ key.name < map.keys[low + pivot + 1].name
  BY DEF GoLeft, Less
<1>2. /\ low \in Nat /\ high \in Nat /\ pivot \in Nat /\ length = high - low
      /\ pivot >= 1 /\ pivot < length /\ 2 * pivot <= length
      /\ low + pivot + 1 \in 1..Len(map.keys)
  BY <1>1, PivotInside
<1>3. TypeOK' /\ KeysOK(map)' /\ KeyIsNew'
  BY <1>1, <1>2 DEF IInv, TypeOK, KeyIsNew
<1> HIDE DEF pivot, length
<1>4. ASSUME NEW i \in 1..Len(map.keys)
      PROVE  /\ i <= low => map.keys[i].name <= key.name
             /\ i > low + pivot => map.keys[i].name > key.name
  <2>1. i <= low => map.keys[i].name <= key.name
    BY <1>1 DEF IInv, SearchBrackets
  <2>2. ASSUME i > low + pivot
        PROVE  map.keys[i].name > key.name
    <3>1. i = low + pivot + 1 \/ low + pivot + 1 < i
      BY <1>2, <2>2
    <3>2. map.keys[low + pivot + 1].name <= map.keys[i].name
      BY <1>2, <3>1, NamesOrdered
    <3> QED BY <1>1, <1>2, <3>2, NamesOrdered
  <2> QED BY <2>1, <2>2
<1>5. SearchBrackets'
  <2>1. low <= low + pivot /\ low + pivot <= Len(map.keys)
    BY <1>2, NamesOrdered
  <2> QED BY <1>1, <1>4, <2>1 DEF SearchBrackets
<1>6. 2 * (high' - low') <= length
  BY <1>1, <1>2
<1> QED BY <1>3, <1>5, <1>6 DEF IInv

LEMMA GoRightIInv ==
    ASSUME IInv, GoRight
    PROVE  IInv' /\ 2 * (high' - low') <= length
<1>1. /\ low' = low + pivot + 1 /\ high' = high /\ map' = map /\ key' = key /\ value' = value
      /\ pc' = pc /\ pc = "search" /\ length >= 2 /\ ~(key.name < map.keys[low + pivot + 1].name)
  BY DEF GoRight, Less
<1>2. /\ low \in Nat /\ high \in Nat /\ pivot \in Nat /\ length = high - low
      /\ pivot < length /\ length <= 2 * pivot + 1
      /\ low + pivot + 1 \in 1..Len(map.keys)
  BY <1>1, PivotInside
<1>3. TypeOK' /\ KeysOK(map)' /\ KeyIsNew'
  BY <1>1, <1>2 DEF IInv, TypeOK, KeyIsNew
<1> HIDE DEF pivot, length
<1>4. ASSUME NEW i \in 1..Len(map.keys)
      PROVE  /\ i <= low + pivot + 1 => map.keys[i].name <= key.name
             /\ i > high => map.keys[i].name > key.name
  <2>1. i > high => map.keys[i].name > key.name
    BY <1>1 DEF IInv, SearchBrackets
  <2>2. ASSUME i <= low + pivot + 1
        PROVE  map.keys[i].name <= key.name
    <3>1. i = low + pivot + 1 \/ i < low + pivot + 1
      BY <1>2, <2>2
    <3>2. map.keys[i].name <= map.keys[low + pivot + 1].name
      BY <1>2, <3>1, NamesOrdered
    <3> QED BY <1>1, <1>2, <3>2, NamesOrdered
  <2> QED BY <2>1, <2>2
<1>5. SearchBrackets'
  <2>1. low + pivot + 1 <= high /\ high <= Len(map.keys)
    BY <1>1, <1>2 DEF IInv, SearchBrackets
  <2> QED BY <1>1, <1>4, <2>1 DEF SearchBrackets
<1>6. 2 * (high' - low') <= length
  BY <1>1, <1>2
<1> QED BY <1>3, <1>5, <1>6 DEF IInv

(* The place the search returns separates the keys that are not greater    *)
(* from those that are, and there is only one such place.                  *)
LEMMA PlaceSplits ==
    ASSUME IInv, pc = "search", length <= 1
    PROVE  /\ Place \in 0..Len(map.keys)
           /\ \A i \in 1..Len(map.keys) : map.keys[i].name <= key.name <=> i <= Place
<1>1. /\ low \in Nat /\ high \in Nat /\ low <= high /\ high <= Len(map.keys)
      /\ Len(map.keys) \in Nat
      /\ high - low <= 1
  BY NamesOrdered DEF IInv, TypeOK, SearchBrackets, length
<1>2. \A i \in 1..Len(map.keys) : /\ i <= low => map.keys[i].name <= key.name
                                  /\ i > high => map.keys[i].name > key.name
  BY DEF IInv, SearchBrackets
<1>3. key.name \in Nat /\ \A i \in 1..Len(map.keys) : map.keys[i].name \in Nat
  BY NamesOrdered
<1>4. CASE length = 0
  <2>1. Place = low /\ high = low
    BY <1>1, <1>4 DEF Place, length
  <2> QED BY <1>1, <1>2, <1>3, <2>1
<1>5. CASE length # 0
  <2>1. high = low + 1 /\ low + 1 \in 1..Len(map.keys) /\ low + 0 + 1 = low + 1
    BY <1>1, <1>5 DEF length
  <2>2. CASE key.name < map.keys[low + 1].name
    <3>1. Place = low
      BY <1>5, <2>1, <2>2 DEF Place, Less
    <3> QED BY <1>1, <1>2, <1>3, <2>1, <2>2, <3>1
  <2>3. CASE ~(key.name < map.keys[low + 1].name)
    <3>1. Place = low + 1
      BY <1>5, <2>1, <2>3 DEF Place, Less
    <3> QED BY <1>1, <1>2, <1>3, <2>1, <2>3, <3>1
  <2> QED BY <2>2, <2>3
<1> QED BY <1>4, <1>5

LEMMA PlaceIsKeyIndex ==
    ASSUME IInv, pc = "search", length <= 1
    PROVE  Place = KeyIndex(map, key)
<1>1. /\ Place \in 0..Len(map.keys) /\ Len(map.keys) \in Nat
      /\ \A i \in 1..Len(map.keys) : map.keys[i].name <= key.name <=> i <= Place
  BY PlaceSplits, NamesOrdered
<1>2. DOMAIN map.keys = 1..Len(map.keys)
  BY LenProperties DEF IInv, TypeOK, Structure
<1> HIDE DEF Place
<1>3. {i \in DOMAIN map.keys : map.keys[i].name <= key.name} = 1..Place
  BY <1>1, <1>2
<1>4. Cardinality(1..Place) = Place
  <2>1. ASSUME NEW d \in Nat
        PROVE  Cardinality(1..d) = d
    BY FS_Interval
  <2> QED BY <1>1, <2>1
<1> QED BY <1>3, <1>4 DEF KeyIndex

(* The insertion is that of FlexBuilder.                                   *)
LEMMA InsertIsAtomic ==
    ASSUME IInv, Insert
    PROVE  map' = IF value.target = NoStruct
                  THEN addElementWithKey(map, key, value)
                  ELSE addOffsetWithKey(map, key, value)
<1>1. Place = KeyIndex(map, key)
  BY PlaceIsKeyIndex DEF Insert
<1> QED BY <1>1 DEF Insert, addElementWithKey, addOffsetWithKey, AddKey

LEMMA InsertIInv ==
    ASSUME IInv, Insert
    PROVE  IInv'
<1>1. /\ map \in Structure /\ IsMap(map) /\ MapOK(map) /\ value \in Elem /\ key \in Key
      /\ TakesKey(map, key) /\ key = NewKey(map, key.name) /\ key.name \in Nat
  BY NamesOrdered DEF IInv, TypeOK, KeyIsNew, Insert, MapOK
<1>2. KeyIndex(map, key) \in Nat
  BY <1>1, KeyIndexType, LenProperties DEF Structure
<1>3. AddKey(map, key) \in Structure /\ AddKey(map, key).vType = map.vType
  BY <1>1, AddKeyType
<1>4. /\ addElementWithKey(map, key, value) \in Structure
      /\ IsMap(addElementWithKey(map, key, value))
  BY <1>1, <1>2, <1>3, InsertElementType DEF addElementWithKey, IsMap
<1>5. /\ addOffsetWithKey(map, key, value) \in Structure
      /\ IsMap(addOffsetWithKey(map, key, value))
  BY <1>1, <1>2, <1>3, InsertOffsetType DEF addOffsetWithKey, IsMap
<1>6. MapOK(addElementWithKey(map, key, value)) /\ MapOK(addOffsetWithKey(map, key, value))
  <2>1. MapOK(addElementWithKey(map, NewKey(map, key.name), value))
    BY <1>1, KeyedElementOK
  <2>2. MapOK(addOffsetWithKey(map, NewKey(map, key.name), value))
    BY <1>1, KeyedOffsetOK
  <2> QED BY <1>1, <2>1, <2>2
<1>7. map' \in Structure /\ IsMap(map') /\ MapOK(map')
  BY <1>4, <1>5, <1>6, InsertIsAtomic
<1>8. TypeOK' /\ KeysOK(map)'
  BY <1>7 DEF Insert, IInv, TypeOK, MapOK
<1>9. KeyIsNew' /\ SearchBrackets'
  BY DEF Insert, KeyIsNew, SearchBrackets
<1> QED BY <1>8, <1>9 DEF IInv

(* The invariant of the search: the map is sorted, the entry acceptable,   *)
(* the place of the key still in the subslice.                             *)
LEMMA StepIInv ==
    ASSUME IInv, [Next]_vars
    PROVE  IInv'
<1>1. ASSUME NEW name \in Names, NEW v \in {Inline(e) : e \in Scalars} \cup {Offset},
             Call(name, v)
      PROVE  IInv'
  <2>1. VECTOR \in VarType /\ Len(map.keys) + 1 \in Nat
    BY NamesOrdered DEF VarType, VECTOR
  <2>2. v \in Elem
    BY <2>1, InlineType, OffsetType, ScalarsAssumption DEF Offset
  <2> QED BY <1>1, <2>2, CallIInv
<1>2. CASE UNCHANGED vars
  BY <1>2 DEF vars, IInv, TypeOK, KeyIsNew, SearchBrackets
<1>3. CASE \E name \in Names : Refuse(name)
  BY <1>2, <1>3 DEF Refuse
<1>4. CASE Search
  BY <1>4, GoLeftIInv, GoRightIInv, InsertIInv DEF Search
<1> QED BY <1>1, <1>2, <1>3, <1>4 DEF Next

(* The search keeps its bracket: never a greater key before it, never one  *)
(* that is not greater behind it (the invariant of DAC); and the state of  *)
(* the search is well typed.                                               *)
THEOREM SearchKeepsBracket == Spec => [](TypeOK /\ SearchBrackets)
<1>1. IInv => TypeOK /\ SearchBrackets
  BY DEF IInv
<1> QED BY <1>1, InitIInv, StepIInv, PTL DEF Spec

(* The stepwise insertion changes a map exactly as FlexBuilder's single    *)
(* step does, for every number of entries and all names: what addElement-  *)
(* WithKey and addOffsetWithKey do is the insertion at KeyIndex.           *)
THEOREM SearchImplementsInsertion == Spec => InsertsAtKeyIndex
<1>1. ASSUME IInv, [Next]_vars, map' # map
      PROVE  map' = IF value.target = NoStruct
                    THEN addElementWithKey(map, key, value)
                    ELSE addOffsetWithKey(map, key, value)
  <2>1. Insert
    BY <1>1 DEF vars, Next, Call, Refuse, Search, GoLeft, GoRight
  <2> QED BY <1>1, <2>1, InsertIsAtomic
<1>2. IInv /\ [Next]_vars => [map' # map => map' = IF value.target = NoStruct
                                                  THEN addElementWithKey(map, key, value)
                                                  ELSE addOffsetWithKey(map, key, value)]_vars
  BY <1>1
<1> QED BY <1>2, InitIInv, StepIInv, PTL DEF Spec, InsertsAtKeyIndex

(* Every round of the search at least halves the subslice, so that DAC     *)
(* recurses at most logarithmically often.                                 *)
THEOREM SearchIsLogarithmic == Spec => SearchHalves
<1>1. ASSUME IInv, [Next]_vars, vars' # vars, pc = "search", pc' = "search"
      PROVE  2 * (high' - low') <= length
  <2>1. GoLeft \/ GoRight
    BY <1>1 DEF vars, Next, Call, Refuse, Search, Insert
  <2> QED BY <1>1, <2>1, GoLeftIInv, GoRightIInv
<1>2. IInv /\ [Next]_vars =>
        [pc = "search" /\ pc' = "search" => 2 * (high' - low') <= length]_vars
  BY <1>1
<1> QED BY <1>2, InitIInv, StepIInv, PTL DEF Spec, SearchHalves

-----------------------------------------------------------------------------
(* The map as the store of FlexKeyedStore.                                 *)

(* The entries up to a have a smaller name than n, those behind b a        *)
(* greater one.                                                            *)
Between(m, n, a, b) ==
    /\ a \in 0..Len(m.keys) /\ b \in 0..Len(m.keys) /\ a <= b
    /\ \A i \in 1..Len(m.keys) : /\ m.keys[i].name < n <=> i <= a
                                 /\ m.keys[i].name <= n <=> i <= b

(* Those of one name are beside each other.                                *)
LEMMA NameBounds ==
    ASSUME NEW m \in Structure, KeysInOrder(m.keys), NEW n \in Nat
    PROVE  \E a, b \in Nat : Between(m, n, a, b)
<1>1. Len(m.keys) \in Nat /\ m.keys \in Seq(Key)
  BY LenProperties DEF Structure
<1>2. ASSUME NEW i \in 1..Len(m.keys)
      PROVE  m.keys[i].name \in Nat
  <2>1. m.keys[i] \in Key
    BY <1>1, ElementOfSeq
  <2> QED BY <2>1 DEF Key
<1>3. ASSUME NEW l \in Nat
      PROVE  \E c \in 0..Len(m.keys) : \A i \in 1..Len(m.keys) : m.keys[i].name <= l <=> i <= c
  <2> DEFINE k == [name |-> l, obj |-> 0]
  <2>1. k \in Key /\ k.name = l
    BY DEF Key
  <2> HIDE DEF k
  <2>2. KeyIndex(m, k) \in 0..Len(m.keys)
    BY <2>1, KeyIndexType
  <2>3. \A i \in 1..Len(m.keys) : m.keys[i].name <= l <=> i <= KeyIndex(m, k)
    BY <2>1, KeyIndexSplits
  <2> QED BY <2>2, <2>3
<1>4. PICK b \in 0..Len(m.keys) : \A i \in 1..Len(m.keys) : m.keys[i].name <= n <=> i <= b
  BY <1>3
<1>5. \E a \in 0..Len(m.keys) : \A i \in 1..Len(m.keys) : m.keys[i].name < n <=> i <= a
  <2>1. CASE n = 0
    <3>1. \A i \in 1..Len(m.keys) : m.keys[i].name < n <=> i <= 0
      BY <1>1, <1>2, <2>1
    <3>2. 0 \in 0..Len(m.keys)
      BY <1>1
    <3> QED BY <3>1, <3>2
  <2>2. CASE n # 0
    <3>1. n - 1 \in Nat
      BY <2>2
    <3>2. PICK a \in 0..Len(m.keys) : \A i \in 1..Len(m.keys) : m.keys[i].name <= n - 1 <=> i <= a
      BY <1>3, <3>1
    <3>3. \A i \in 1..Len(m.keys) : m.keys[i].name <= n - 1 <=> m.keys[i].name < n
      BY <1>2
    <3> QED BY <3>2, <3>3
  <2> QED BY <2>1, <2>2
<1>6. PICK a \in 0..Len(m.keys) : \A i \in 1..Len(m.keys) : m.keys[i].name < n <=> i <= a
  BY <1>5
<1>7. a <= b
  <2> SUFFICES ASSUME a > b PROVE FALSE
    BY <1>1
  <2>1. a \in 1..Len(m.keys)
    BY <1>1
  <2>2. m.keys[a].name < n /\ ~(m.keys[a].name <= n)
    BY <1>4, <1>6, <2>1
  <2> QED BY <1>2, <2>1, <2>2
<1>8. Between(m, n, a, b)
  BY <1>1, <1>4, <1>6, <1>7 DEF Between
<1> QED BY <1>1, <1>8

Slice(elems, a, b) == [j \in 1..(b - a) |-> elems[a + j]]

LEMMA EntriesBetween ==
    ASSUME NEW m \in Structure, NEW n \in Nat, NEW a \in Nat, NEW b \in Nat, Between(m, n, a, b)
    PROVE  EntriesOf(m, n) = Slice(m.elems, a, b)
<1> DEFINE places == {i \in 1..Len(m.keys) : m.keys[i].name = n}
           place(j) == CHOOSE i \in places : Cardinality({k \in places : k <= i}) = j
<1>1. Len(m.keys) \in Nat /\ m.keys \in Seq(Key)
  BY LenProperties DEF Structure
<1>2. a <= b /\ b <= Len(m.keys)
      /\ \A i \in 1..Len(m.keys) : /\ m.keys[i].name < n <=> i <= a
                                   /\ m.keys[i].name <= n <=> i <= b
  BY <1>1 DEF Between
<1>3. ASSUME NEW i \in 1..Len(m.keys)
      PROVE  m.keys[i].name = n <=> i > a /\ i <= b
  <2>1. m.keys[i] \in Key
    BY <1>1, ElementOfSeq
  <2>2. m.keys[i].name \in Nat
    BY <2>1 DEF Key
  <2> QED BY <1>1, <1>2, <2>2
<1>4. places = (a + 1)..b
  BY <1>1, <1>2, <1>3
<1> HIDE DEF places
<1>5. ASSUME NEW c \in Nat, c >= a
      PROVE  Cardinality((a + 1)..c) = c - a
  <2>1. a + 1 \in Int /\ c \in Int
    OBVIOUS
  <2>2. Cardinality((a + 1)..c) = IF a + 1 > c THEN 0 ELSE c - (a + 1) + 1
    BY <2>1, FS_Interval
  <2> QED BY <1>5, <2>2
<1>6. Cardinality(places) = b - a
  BY <1>2, <1>4, <1>5
<1>7. ASSUME NEW i \in places
      PROVE  Cardinality({k \in places : k <= i}) = i - a
  <2>1. {k \in places : k <= i} = (a + 1)..i
    BY <1>4
  <2>2. i \in Nat /\ i >= a
    BY <1>4
  <2> QED BY <1>5, <2>1, <2>2
<1>8. ASSUME NEW j \in 1..(b - a)
      PROVE  place(j) = a + j
  <2>1. a + j \in places /\ (a + j) - a = j
    BY <1>2, <1>4
  <2>2. \A i \in places : i - a = j => i = a + j
    BY <1>4
  <2> QED BY <1>7, <2>1, <2>2
<1> HIDE DEF place
<1>9. EntriesOf(m, n) = [j \in 1..Cardinality(places) |-> m.elems[place(j)]]
  BY DEF EntriesOf, places, place
<1> QED BY <1>6, <1>8, <1>9 DEF Slice

ShiftedAt(r, q, p, x) ==
    /\ Len(r) = Len(q) + 1
    /\ \A i \in 1..p : r[i] = q[i]
    /\ r[p + 1] = x
    /\ \A i \in (p + 1)..Len(q) : r[i + 1] = q[i]

LEMMA PutAtShifts ==
    ASSUME NEW S, NEW slice \in Seq(S), NEW index \in 0..Len(slice), NEW x \in S
    PROVE  ShiftedAt(PutAt(slice, index, x), slice, index, x)
<1>1. index \in Nat /\ Len(slice) \in Nat /\ index <= Len(slice)
  OBVIOUS
<1>2. PlaceOf(slice, index) = index + 1
  BY <1>1 DEF PlaceOf
<1>3. InsertedAt(PutAt(slice, index, x), slice, index + 1, x)
  BY <1>1, <1>2, PutAtForm
<1> QED
  <2> DEFINE r == PutAt(slice, index, x)
  <2>1. InsertedAt(r, slice, index + 1, x)
    BY <1>3
  <2> HIDE DEF r
  <2>2. /\ Len(r) = Len(slice) + 1
        /\ \A i \in 1..(Len(slice) + 1) :
              r[i] = IF i < index + 1 THEN slice[i] ELSE IF i = index + 1 THEN x ELSE slice[i - 1]
    BY <2>1 DEF InsertedAt
  <2>3. \A i \in 1..index : r[i] = slice[i]
    BY <1>1, <2>2
  <2>4. r[index + 1] = x
    BY <1>1, <2>2
  <2>5. \A i \in (index + 1)..Len(slice) : r[i + 1] = slice[i]
    <3> SUFFICES ASSUME NEW i \in (index + 1)..Len(slice) PROVE r[i + 1] = slice[i]
      OBVIOUS
    <3>1. i + 1 \in 1..(Len(slice) + 1) /\ i + 1 > index + 1 /\ (i + 1) - 1 = i
      BY <1>1
    <3> QED BY <1>1, <2>2, <3>1
  <2>6. ShiftedAt(r, slice, index, x)
    BY <2>2, <2>3, <2>4, <2>5 DEF ShiftedAt
  <2> QED BY <2>6 DEF r

(* What an insertion behind all keys that are not greater does to the      *)
(* entries of a name.                                                      *)
LEMMA InsertionAppends ==
    ASSUME NEW m \in Structure, NEW k \in Key, NEW x \in Elem, NEW p \in 0..Len(m.keys),
           KeysOK(m),
           \A i \in 1..Len(m.keys) : m.keys[i].name <= k.name <=> i <= p,
           NEW t \in Structure, t.keys = PutAt(m.keys, p, k), t.elems = PutAt(m.elems, p, x),
           NEW n \in Nat
    PROVE  EntriesOf(t, n) = IF n = k.name THEN Append(EntriesOf(m, n), x) ELSE EntriesOf(m, n)
<1> DEFINE l == Len(m.keys)
<1>1. /\ l \in Nat /\ m.keys \in Seq(Key) /\ m.elems \in Seq(Elem) /\ Len(m.elems) = l
      /\ p \in Nat /\ p <= l
  BY LenProperties DEF Structure, KeysOK
<1>2. /\ Len(t.keys) = l + 1
      /\ \A i \in 1..p : t.keys[i] = m.keys[i]
      /\ t.keys[p + 1] = k
      /\ \A i \in (p + 1)..l : t.keys[i + 1] = m.keys[i]
  <2>1. m.keys \in Seq(Key) /\ p \in 0..Len(m.keys)
    BY <1>1
  <2>2. ShiftedAt(PutAt(m.keys, p, k), m.keys, p, k)
    BY <2>1, PutAtShifts
  <2> QED BY <1>1, <2>2 DEF ShiftedAt
<1>3. /\ \A i \in 1..p : t.elems[i] = m.elems[i]
      /\ t.elems[p + 1] = x
      /\ \A i \in (p + 1)..l : t.elems[i + 1] = m.elems[i]
  <2>1. m.elems \in Seq(Elem) /\ p \in 0..Len(m.elems)
    BY <1>1
  <2>2. ShiftedAt(PutAt(m.elems, p, x), m.elems, p, x)
    BY <2>1, PutAtShifts
  <2> QED BY <1>1, <2>2 DEF ShiftedAt
<1>4. \A i \in 1..l : m.keys[i].name \in Nat
  <2>1. \A i \in 1..l : m.keys[i] \in Key
    BY <1>1, ElementOfSeq
  <2>2. \A kk \in Key : kk.name \in Nat
    BY DEF Key
  <2> HIDE DEF l
  <2> QED BY <2>1, <2>2
<1>5. k.name \in Nat
  BY DEF Key
<1>6. PICK a, b \in Nat : Between(m, n, a, b)
  BY NameBounds DEF KeysOK
<1>7. /\ a <= l /\ b <= l /\ a <= b
      /\ \A i \in 1..l : /\ m.keys[i].name < n <=> i <= a
                         /\ m.keys[i].name <= n <=> i <= b
  BY <1>1, <1>6 DEF Between
<1>8. EntriesOf(m, n) = [j \in 1..(b - a) |-> m.elems[a + j]]
  <2>1. EntriesOf(m, n) = Slice(m.elems, a, b)
    BY <1>6, EntriesBetween
  <2> QED BY <2>1 DEF Slice
<1> HIDE DEF l
<1>9. \A i \in 1..l : m.keys[i].name <= k.name <=> i <= p
  BY DEF l
(* The name of each entry of the new map.                                  *)
<1>10. ASSUME NEW i \in 1..(l + 1)
       PROVE  \/ i <= p /\ t.keys[i] = m.keys[i] /\ i \in 1..l
              \/ i = p + 1 /\ t.keys[i] = k
              \/ i > p + 1 /\ t.keys[i] = m.keys[i - 1] /\ i - 1 \in 1..l
  <2>1. CASE i <= p
    BY <1>1, <1>2, <2>1
  <2>2. CASE i = p + 1
    BY <1>2, <2>2
  <2>3. CASE i > p + 1
    <3>1. i - 1 \in (p + 1)..l /\ (i - 1) + 1 = i /\ i - 1 \in 1..l
      BY <1>1, <2>3
    <3> QED BY <1>2, <2>3, <3>1
  <2> QED BY <1>1, <2>1, <2>2, <2>3
<1>11. CASE n = k.name
  <2>1. b = p
    <3>1. \A i \in 1..l : i <= b <=> i <= p
      BY <1>7, <1>9, <1>11
    <3>2. b \in 1..l => b <= p
      BY <3>1
    <3>3. p \in 1..l => p <= b
      BY <3>1, <1>1
    <3> QED BY <1>1, <1>7, <3>2, <3>3
  <2>2. ASSUME NEW i \in 1..(l + 1)
        PROVE  /\ t.keys[i].name < n <=> i <= a
               /\ t.keys[i].name <= n <=> i <= b + 1
    <3>1. CASE i <= p
      <4>1. t.keys[i] = m.keys[i] /\ i \in 1..l
        BY <1>1, <1>10, <3>1
      <4>2. /\ m.keys[i].name < n <=> i <= a
            /\ m.keys[i].name <= n <=> i <= b
        BY <1>7, <4>1
      <4>3. i <= b /\ i <= b + 1
        BY <1>7, <2>1, <3>1
      <4> QED BY <4>1, <4>2, <4>3
    <3>2. CASE i = p + 1
      <4>1. t.keys[i].name = n /\ n <= n /\ ~(n < n)
        BY <1>2, <1>11, <3>2
      <4>2. ~(i <= a) /\ i <= b + 1
        BY <1>1, <1>7, <2>1, <3>2
      <4> QED BY <4>1, <4>2
    <3>3. CASE i > p + 1
      <4>1. t.keys[i] = m.keys[i - 1] /\ i - 1 \in 1..l
        BY <1>1, <1>10, <3>3
      <4>2. /\ m.keys[i - 1].name < n <=> i - 1 <= a
            /\ m.keys[i - 1].name <= n <=> i - 1 <= b
        BY <1>7, <4>1
      <4>3. ~(i - 1 <= a) /\ ~(i <= a) /\ ~(i - 1 <= b) /\ ~(i <= b + 1)
        BY <1>7, <2>1, <3>3
      <4> QED BY <4>1, <4>2, <4>3
    <3> QED BY <1>1, <3>1, <3>2, <3>3
  <2>3. Between(t, n, a, b + 1)
    BY <1>1, <1>2, <1>7, <2>2 DEF Between
  <2>4. EntriesOf(t, n) = [j \in 1..((b + 1) - a) |-> t.elems[a + j]]
    <3>1. b + 1 \in Nat
      OBVIOUS
    <3>2. EntriesOf(t, n) = Slice(t.elems, a, b + 1)
      BY <2>3, <3>1, EntriesBetween
    <3> QED BY <3>2 DEF Slice
  <2>5. Append(EntriesOf(m, n), x) = [j \in 1..((b - a) + 1) |->
                                        IF j = (b - a) + 1 THEN x ELSE m.elems[a + j]]
    <3>1. \A j \in 1..(b - a) : m.elems[a + j] \in Elem
      <4> SUFFICES ASSUME NEW j \in 1..(b - a) PROVE m.elems[a + j] \in Elem
        OBVIOUS
      <4>1. a + j \in 1..Len(m.elems)
        BY <1>1, <1>7
      <4> QED BY <1>1, <4>1, ElementOfSeq
    <3>2. b - a \in Nat
      BY <1>7
    <3>3. EntriesOf(m, n) \in Seq(Elem) /\ Len(EntriesOf(m, n)) = b - a
      BY <1>8, <3>1, <3>2
    <3> QED BY <1>8, <3>2, <3>3
  <2>6. ASSUME NEW j \in 1..((b - a) + 1)
        PROVE  t.elems[a + j] = IF j = (b - a) + 1 THEN x ELSE m.elems[a + j]
    <3>1. CASE j = (b - a) + 1
      <4>1. a + j = p + 1
        BY <1>7, <2>1, <3>1
      <4> QED BY <1>3, <3>1, <4>1
    <3>2. CASE j # (b - a) + 1
      <4>1. a + j \in 1..p
        BY <1>7, <2>1, <3>2
      <4> QED BY <1>3, <3>2, <4>1
    <3> QED BY <3>1, <3>2
  <2>7. (b + 1) - a = (b - a) + 1
    OBVIOUS
  <2>8. EntriesOf(t, n) = Append(EntriesOf(m, n), x)
    <3>1. EntriesOf(t, n) = [j \in 1..((b - a) + 1) |-> t.elems[a + j]]
      BY <2>4, <2>7, Zenon
    <3>2. [j \in 1..((b - a) + 1) |-> t.elems[a + j]]
            = [j \in 1..((b - a) + 1) |-> IF j = (b - a) + 1 THEN x ELSE m.elems[a + j]]
      BY <2>6, Zenon
    <3> QED BY <2>5, <3>1, <3>2, Zenon
  <2> QED BY <1>11, <2>8
<1>12. CASE n < k.name
  <2>1. b <= p
    <3>1. b \in 1..l => b <= p
      BY <1>4, <1>5, <1>7, <1>9, <1>12
    <3> QED BY <1>1, <1>7, <3>1
  <2>2. ASSUME NEW i \in 1..(l + 1)
        PROVE  /\ t.keys[i].name < n <=> i <= a
               /\ t.keys[i].name <= n <=> i <= b
    <3>1. CASE i <= p
      <4>1. t.keys[i] = m.keys[i] /\ i \in 1..l
        BY <1>1, <1>10, <3>1
      <4> QED BY <1>7, <4>1
    <3>2. CASE i = p + 1
      <4>1. ~(t.keys[i].name < n) /\ ~(t.keys[i].name <= n)
        BY <1>2, <1>5, <1>12, <3>2
      <4>2. ~(i <= a) /\ ~(i <= b)
        BY <1>1, <1>7, <2>1, <3>2
      <4> QED BY <4>1, <4>2
    <3>3. CASE i > p + 1
      <4>1. t.keys[i] = m.keys[i - 1] /\ i - 1 \in 1..l
        BY <1>1, <1>10, <3>3
      <4>2. /\ m.keys[i - 1].name < n <=> i - 1 <= a
            /\ m.keys[i - 1].name <= n <=> i - 1 <= b
        BY <1>7, <4>1
      <4>3. ~(i - 1 <= a) /\ ~(i <= a) /\ ~(i - 1 <= b) /\ ~(i <= b)
        BY <1>1, <1>7, <2>1, <3>3
      <4> QED BY <4>1, <4>2, <4>3
    <3> QED BY <1>1, <3>1, <3>2, <3>3
  <2>3. Between(t, n, a, b)
    BY <1>1, <1>2, <1>7, <2>2 DEF Between
  <2>4. EntriesOf(t, n) = [j \in 1..(b - a) |-> t.elems[a + j]]
    <3>1. EntriesOf(t, n) = Slice(t.elems, a, b)
      BY <2>3, EntriesBetween
    <3> QED BY <3>1 DEF Slice
  <2>5. ASSUME NEW j \in 1..(b - a)
        PROVE  t.elems[a + j] = m.elems[a + j]
    <3>1. a + j \in 1..p
      BY <1>1, <1>7, <2>1
    <3> QED BY <1>3, <3>1
  <2>6. EntriesOf(t, n) = EntriesOf(m, n)
    BY <1>8, <2>4, <2>5
  <2> QED BY <1>12, <1>5, <2>6
<1>13. CASE n > k.name
  <2>1. p <= a
    <3>1. p \in 1..l => p <= a
      <4> HAVE p \in 1..l
      <4>1. m.keys[p].name <= k.name /\ m.keys[p].name \in Nat
        BY <1>4, <1>9
      <4>2. m.keys[p].name < n
        BY <1>5, <1>13, <4>1
      <4> QED BY <1>7, <4>2
    <3> QED BY <1>1, <1>7, <3>1
  <2>2. ASSUME NEW i \in 1..(l + 1)
        PROVE  /\ t.keys[i].name < n <=> i <= a + 1
               /\ t.keys[i].name <= n <=> i <= b + 1
    <3>1. CASE i <= p
      <4>1. t.keys[i] = m.keys[i] /\ i \in 1..l
        BY <1>1, <1>10, <3>1
      <4>2. m.keys[i].name < n /\ m.keys[i].name <= n
        BY <1>7, <2>1, <3>1, <4>1, <1>1
      <4> QED BY <1>1, <1>7, <2>1, <3>1, <4>1, <4>2
    <3>2. CASE i = p + 1
      BY <1>1, <1>2, <1>5, <1>7, <1>13, <2>1, <3>2
    <3>3. CASE i > p + 1
      <4>1. t.keys[i] = m.keys[i - 1] /\ i - 1 \in 1..l
        BY <1>1, <1>10, <3>3
      <4>2. /\ m.keys[i - 1].name < n <=> i - 1 <= a
            /\ m.keys[i - 1].name <= n <=> i - 1 <= b
        BY <1>7, <4>1
      <4> QED BY <4>1, <4>2
    <3> QED BY <1>1, <3>1, <3>2, <3>3
  <2>3. Between(t, n, a + 1, b + 1)
    BY <1>1, <1>2, <1>7, <2>2 DEF Between
  <2>4. EntriesOf(t, n) = [j \in 1..((b + 1) - (a + 1)) |-> t.elems[(a + 1) + j]]
    <3>1. a + 1 \in Nat /\ b + 1 \in Nat
      OBVIOUS
    <3>2. EntriesOf(t, n) = Slice(t.elems, a + 1, b + 1)
      BY <2>3, <3>1, EntriesBetween
    <3> QED BY <3>2 DEF Slice
  <2>5. ASSUME NEW j \in 1..(b - a)
        PROVE  t.elems[(a + 1) + j] = m.elems[a + j]
    <3>1. a + j \in (p + 1)..l /\ (a + j) + 1 = (a + 1) + j
      BY <1>1, <1>7, <2>1
    <3> QED BY <1>3, <3>1
  <2>6. (b + 1) - (a + 1) = b - a
    OBVIOUS
  <2>7. EntriesOf(t, n) = EntriesOf(m, n)
    BY <1>8, <2>4, <2>5, <2>6
  <2> QED BY <1>13, <1>5, <2>7
<1> QED BY <1>5, <1>11, <1>12, <1>13

(* What is being inserted is an entry of the store.                        *)
StoredValues == {Inline(e) : e \in Scalars} \cup {OffsetTo(i, VECTOR) : i \in 1..MaxEntries}
EntryInv == pc = "search" => key.name \in Names /\ value \in StoredValues

LEMMA StepEntryInv ==
    ASSUME IInv, EntryInv, [Next]_vars
    PROVE  EntryInv'
<1>1. ASSUME NEW name \in Names, NEW v \in {Inline(e) : e \in Scalars} \cup {Offset},
             Call(name, v)
      PROVE  EntryInv'
  <2>1. Len(map.keys) + 1 \in 1..MaxEntries
    BY <1>1, NamesOrdered, BoundAssumption DEF Call
  <2>2. v \in StoredValues
    BY <2>1 DEF StoredValues, Offset
  <2>3. key'.name = name /\ value' = v
    BY <1>1 DEF Call, NewKey
  <2> QED BY <2>2, <2>3 DEF EntryInv, StoredValues
<1>2. CASE UNCHANGED vars
  BY <1>2 DEF vars, EntryInv
<1>3. CASE \E name \in Names : Refuse(name)
  BY <1>2, <1>3 DEF Refuse
<1>4. CASE Search
  BY <1>4 DEF Search, EntryInv, GoLeft, GoRight, Insert
<1> QED BY <1>1, <1>2, <1>3, <1>4 DEF Next

LEMMA InsertAdds ==
    ASSUME IInv, EntryInv, Insert
    PROVE  /\ key.name \in Names /\ value \in StoredValues
           /\ \A n \in Names : EntriesOf(map', n) =
                 IF n = key.name THEN Append(EntriesOf(map, n), value) ELSE EntriesOf(map, n)
<1>1. /\ map \in Structure /\ KeysOK(map) /\ key \in Key /\ value \in Elem
      /\ pc = "search" /\ length <= 1
  BY DEF IInv, TypeOK, Insert
<1>2. /\ Place \in 0..Len(map.keys)
      /\ \A i \in 1..Len(map.keys) : map.keys[i].name <= key.name <=> i <= Place
  BY <1>1, PlaceSplits
<1>3. map'.keys = PutAt(map.keys, Place, key) /\ map'.elems = PutAt(map.elems, Place, value)
  <2> DEFINE m == [map EXCEPT !.keys = PutAt(@, Place, key)]
  <2>1. m \in [vType : VarType, elems : {map.elems}, children : {map.children},
               keys : {PutAt(map.keys, Place, key)}]
    BY <1>1 DEF Structure
  <2>2. m.elems = map.elems /\ m.keys = PutAt(map.keys, Place, key)
    BY <2>1
  <2>3. map' = insertElement(m, value, Place) \/ map' = insertOffsetToObject(m, value, Place)
    BY DEF Insert
  <2> HIDE DEF m
  <2> QED BY <2>1, <2>2, <2>3 DEF insertElement, insertOffsetToObject
<1>4. map' \in Structure
  BY InsertIInv DEF IInv, TypeOK
<1>5. ASSUME NEW n \in Names
      PROVE  EntriesOf(map', n) = IF n = key.name THEN Append(EntriesOf(map, n), value)
                                  ELSE EntriesOf(map, n)
  <2>1. n \in Nat
    BY NamesAssumption
  <2> HIDE DEF Place
  <2> QED BY <1>1, <1>2, <1>3, <1>4, <2>1, InsertionAppends
<1> QED BY <1>1, <1>5 DEF EntryInv

(* The stepwise insertion implements the store that keeps the values of    *)
(* each name in the order in which they came: whatever number of entries a *)
(* map has and however the search goes, addElementWithKey and              *)
(* addOffsetWithKey put value and key so that a reader of the entries finds*)
(* under every name what was added under it, oldest first.                 *)
THEOREM MapIsKeyedStore == Spec => StoresUnderName
<1>1. Init => Stored!Init /\ EntryInv
  <2> SUFFICES ASSUME Init PROVE Stored!Init /\ EntryInv
    OBVIOUS
  <2>1. map.keys = <<>> /\ Len(map.keys) = 0
    BY DEF Init, Empty
  <2>2. ASSUME NEW n \in Names
        PROVE  EntriesOf(map, n) = <<>>
    <3> DEFINE places == {i \in 1..Len(map.keys) : map.keys[i].name = n}
               place(j) == CHOOSE i \in places : Cardinality({k \in places : k <= i}) = j
    <3>1. EntriesOf(map, n) = [j \in 1..Cardinality(places) |-> map.elems[place(j)]]
      BY DEF EntriesOf
    <3>2. places = {}
      BY <2>1
    <3>3. Cardinality({}) = 0
      BY FS_EmptySet
    <3> HIDE DEF places, place
    <3> QED BY <3>1, <3>2, <3>3
  <2> QED BY <2>2 DEF Stored!Init, Init, EntryInv
<1>2. IInv /\ EntryInv /\ [Next]_vars => [Stored!Next]_([n \in Names |-> EntriesOf(map, n)])
  <2> SUFFICES ASSUME IInv, EntryInv, [Next]_vars
               PROVE  [Stored!Next]_([n \in Names |-> EntriesOf(map, n)])
    OBVIOUS
  <2>1. CASE map' = map
    BY <2>1
  <2>2. CASE Insert
    <3>1. key.name \in Names /\ value \in StoredValues
      BY <2>2, InsertAdds
    <3>2. [n \in Names |-> EntriesOf(map', n)] =
             [[n \in Names |-> EntriesOf(map, n)] EXCEPT ![key.name] = Append(@, value)]
      BY <2>2, InsertAdds
    <3>3. Stored!Add(key.name, value)
      BY <3>2 DEF Stored!Add
    <3> QED BY <3>1, <3>3 DEF Stored!Next, StoredValues
  <2>3. map' = map \/ Insert
    BY DEF Next, vars, Call, Refuse, Search, GoLeft, GoRight
  <2> QED BY <2>1, <2>2, <2>3
<1> QED BY <1>1, <1>2, InitIInv, StepIInv, StepEntryInv, PTL DEF Spec, StoresUnderName, Stored!Spec
=============================================================================
