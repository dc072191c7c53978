---------------------------- MODULE FlexMapInsert ----------------------------
(***************************************************************************)
(* How a map finds the place of a key (flexbuffers/object.go, addElement-  *)
(* WithKey, addOffsetWithKey, determineKeyInsertionIndex).  FlexBuilder    *)
(* takes the insertion in one step; here each round of the bisection, a    *)
(* call of DAC, is a step.  DAC passes on a subslice: the model keeps its  *)
(* ends, low and high, 0-based and the upper one exclusive, as in Go.      *)
(***************************************************************************)
EXTENDS FlexObjects

CONSTANTS
    Names,      \* the names of entries; 0 is the empty string
    Scalars,    \* the inline elements among the values
    MaxEntries  \* bound on the entries of the map

ASSUME NamesAssumption   == Names \subseteq Nat
ASSUME ScalarsAssumption == Scalars \subseteq InlineElem
ASSUME BoundAssumption   == MaxEntries \in Nat

VARIABLES
    map,        \* the map
    key, value, \* the entry that is being inserted
    low, high,  \* the subslice that DAC looks at
    pc          \* "idle", or "search" while DAC runs

vars == <<map, key, value, low, high, pc>>

(* An offset refers to a structure of its own.                             *)
Offset == OffsetTo(Len(map.keys) + 1, VECTOR)

Init ==
    /\ map = Empty(MAP)
    /\ key = [name |-> 0, obj |-> 0]
    /\ value = Offset
    /\ low = 0 /\ high = 0
    /\ pc = "idle"

(* A call of addElementWithKey or addOffsetWithKey for an accepted key.    *)
Call(name, v) ==
    /\ pc = "idle"
    /\ Len(map.keys) < MaxEntries
    /\ TakesKey(map, NewKey(map, name))
    /\ key' = NewKey(map, name)
    /\ value' = v
    /\ low' = 0 /\ high' = Len(map.keys)
    /\ pc' = "search"
    /\ UNCHANGED map

(* One that is refused: the key is empty or already there.                 *)
Refuse(name) ==
    /\ pc = "idle"
    /\ ~TakesKey(map, NewKey(map, name))
    /\ UNCHANGED vars

length == high - low
pivot  == length \div 2

(* The comparison of DAC with the 0-based key i of the subslice.           *)
Less(i) == key.name < map.keys[low + i + 1].name

(* Two mutants: the subslice on the left without its last key, or with the *)
(* pivot in it.                                                            *)
GoLeftTooFar ==
    /\ pc = "search" /\ length >= 2 /\ Less(pivot)
    /\ high' = low + pivot - 1
    /\ UNCHANGED <<map, key, value, low, pc>>

GoLeftWithPivot ==
    /\ pc = "search" /\ length >= 2 /\ Less(pivot)
    /\ high' = low + pivot + 1
    /\ UNCHANGED <<map, key, value, low, pc>>

(* DAC(subslice[:pivot])                                                   *)
GoLeft ==
    /\ pc = "search" /\ length >= 2 /\ Less(pivot)
    /\ high' = low + pivot
    /\ UNCHANGED <<map, key, value, low, pc>>

(* A mutant: the subslice on the right with the pivot in it.               *)
GoRightWithPivot ==
    /\ pc = "search" /\ length >= 2 /\ ~Less(pivot)
    /\ low' = low + pivot
    /\ UNCHANGED <<map, key, value, high, pc>>

(* DAC(subslice[pivot+1:])                                                 *)
GoRight ==
    /\ pc = "search" /\ length >= 2 /\ ~Less(pivot)
    /\ low' = low + pivot + 1
    /\ UNCHANGED <<map, key, value, high, pc>>

(* A mutant: the new key goes before an equal one.                         *)
PlaceBeforeEqual ==
    IF length = 0 \/ key.name <= map.keys[low + 1].name THEN low ELSE low + 1

(* What DAC returns for a subslice of at most one key, counted from the    *)
(* beginning of the keys.                                                  *)
Place == IF length = 0 \/ Less(0) THEN low ELSE low + 1

(* A mutant: the key goes to its place, the value to the end.              *)
InsertValueAtEnd ==
    /\ pc = "search" /\ length <= 1
    /\ map' = LET m == [map EXCEPT !.keys = PutAt(@, Place, key)] IN
              IF value.target = NoStruct
              THEN insertElement(m, value, Len(m.elems))
              ELSE insertOffsetToObject(m, value, Len(m.elems))
    /\ pc' = "idle"
    /\ UNCHANGED <<key, value, low, high>>

(* The rest of addElementWithKey and addOffsetWithKey.                     *)
Insert ==
    /\ pc = "search" /\ length <= 1
    /\ map' = LET m == [map EXCEPT !.keys = PutAt(@, Place, key)] IN
              IF value.target = NoStruct
              THEN insertElement(m, value, Place)
              ELSE insertOffsetToObject(m, value, Place)
    /\ pc' = "idle"
    /\ UNCHANGED <<key, value, low, high>>

Search == GoLeft \/ GoRight \/ Insert

Next ==
    \/ \E name \in Names, v \in {Inline(e) : e \in Scalars} \cup {Offset} : Call(name, v)
    \/ \E name \in Names : Refuse(name)
    \/ Search

(* The calls are synchronous: a search that has begun is carried on.       *)
Spec == Init /\ [][Next]_vars /\ WF_vars(Search)

-----------------------------------------------------------------------------
TypeOK ==
    /\ map \in Structure /\ IsMap(map)
    /\ key \in Key /\ value \in Elem
    /\ low \in Nat /\ high \in Nat
    /\ pc \in {"idle", "search"}

(* While the search runs, the place of the key lies in the subslice: no    *)
(* key before it is greater than the new one, every key behind it is (the  *)
(* invariant of DAC, whatever keys are equal).                             *)
SearchBrackets ==
    pc = "search" =>
        /\ low <= high /\ high <= Len(map.keys)
        /\ \A i \in 1..Len(map.keys) :
              /\ i <= low => map.keys[i].name <= key.name
              /\ i > high => map.keys[i].name > key.name

(* Whichever way the search takes, it ends with the insertion behind all   *)
(* keys that are not greater, key and value at the same index: the single  *)
(* step of FlexBuilder.                                                    *)
InsertsAtKeyIndex ==
    [][map' # map =>
          map' = IF value.target = NoStruct
                 THEN addElementWithKey(map, key, value)
                 ELSE addOffsetWithKey(map, key, value)]_vars

(* Every round of the search halves what is left, so that it takes         *)
(* logarithmically many recursive calls.                                   *)
SearchHalves == [][pc = "search" /\ pc' = "search" => 2 * (high' - low') <= length]_vars

(* The search comes to an end.                                             *)
SearchEnds == pc = "search" ~> pc = "idle"

(* A reader that goes through the entries in order finds for every name    *)
(* exactly the values added under it, oldest first (FlexKeyedStore): no    *)
(* insertion, however it shifts keys and values, mixes them up.            *)
EntriesOf(m, n) ==
    LET places == {i \in 1..Len(m.keys) : m.keys[i].name = n}
        place(j) == CHOOSE i \in places : Cardinality({k \in places : k <= i}) = j
    IN [j \in 1..Cardinality(places) |-> m.elems[place(j)]]

Stored == INSTANCE FlexKeyedStore
    WITH Values <- {Inline(e) : e \in Scalars} \cup {OffsetTo(i, VECTOR) : i \in 1..MaxEntries},
         store <- [n \in Names |-> EntriesOf(map, n)]

StoresUnderName == Stored!Spec
=============================================================================
