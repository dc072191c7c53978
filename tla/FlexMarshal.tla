----------------------------- MODULE FlexMarshal -----------------------------
(***************************************************************************)
(* Marshal (flexbuffers/flexbuffers.go): a new Builder, AutoBuild, and     *)
(* SerializeBuffer if that returned no error.  It composes FlexAutoBuild,  *)
(* which takes a Go value apart, with the encoder of FlexSerialize; NewRef *)
(* of FlexDecoder finds the root of what comes out.                        *)
(***************************************************************************)
EXTENDS FlexAutoBuild, FlexDecoder

ASSUME OneOfEach == MaxBuilds >= 1 /\ MaxCalls >= 1

marshalVars == <<allVars, output>>

(* No Marshal is under way: none was called, or it ended with an error, a  *)
(* panic, or the bytes.                                                    *)
Done == Idle /\ todo = <<>> /\ (began = NotBegan \/ ret # "ok" \/ calls = 1)

MarshalInit == AutoInit /\ SerializeInit

(* NewBuilder.  Nothing of an earlier call is left.                        *)
Marshal(v) ==
    /\ Done
    /\ structs' = <<Empty(NULL)>> /\ inProgress' = <<Root>> /\ headIndex' = 0
    /\ finished' = FALSE /\ ret' = "ok"
    /\ frames' = <<>> /\ builds' = 1
    /\ call' = [key |-> NoKey, value |-> v]
    /\ began' = [value |-> v, stack |-> <<Root>>, head |-> Empty(NULL), size |-> 1]
    /\ buff' = <<>> /\ todo' = <<>> /\ written' = <<>> /\ offsetPtrs' = <<>> /\ calls' = 0

Encode == Returned /\ ret = "ok" /\ calls = 0 /\ SerializeBuffer(<<>>) /\ UNCHANGED auto

MarshalNext ==
    \/ \E v \in DOMAIN Values : Marshal(v)
    \/ Activation /\ UNCHANGED output
    \/ Encode
    \/ Serialize /\ UNCHANGED auto

MarshalSpec == MarshalInit /\ [][MarshalNext]_marshalVars

-----------------------------------------------------------------------------
(* Reading a value from the bytes alone: from a reference, as NewRef and   *)
(* getItemAsRef make them.                                                 *)

Refs == [vType : VarType, bSize : ByteSize, index0 : 0..Len(buff)]

UintAt(pos, width) == ReadUint(BytesAt(pos, width))
Untyped(vType) == vType \in {VECTOR, MAP}
CountOf(r) == UintAt(r.index0 - B(r.bSize), B(r.bSize))

(* The i-th item: its type and its width are in the contexts behind the    *)
(* items, or those of the typed vector.                                    *)
ItemOf(r, i) ==
    LET context == ByteAt(r.index0 + CountOf(r) * B(r.bSize) + i - 1)
        type == IF Untyped(r.vType) THEN ItemVarType(context) ELSE ItemType(r)
        at == r.index0 + (i - 1) * B(r.bSize)
    IN  [vType |-> type,
         bSize |-> IF Untyped(r.vType) THEN ItemByteSize(context) ELSE r.bSize,
         index0 |-> at - (IF isInline(type) THEN 0 ELSE UintAt(at, B(r.bSize)))]

(* The length of the i-th key of a map, which is its name.                 *)
KeyOf(r, i) ==
    LET width == B(r.bSize)
        keys == r.index0 - 3 * width - UintAt(r.index0 - 3 * width, width)
        keyWidth == UintAt(r.index0 - 2 * width, width)
        key == keys + (i - 1) * keyWidth
        text == key - UintAt(key, keyWidth)
    IN  IndexOfZero(text) - text

(* At r are the bytes of one element of the type and size of elem.         *)
IsScalar(elem, r) ==
    \E p \in DOMAIN written : \E i \in DOMAIN Elems(p) :
        /\ Elems(p)[i].type = elem.type /\ Elems(p)[i].size = elem.size
        /\ elem.size <= r.bSize
        /\ BytesAt(r.index0, B(r.bSize)) = [k \in 1..B(r.bSize) |-> <<p, i, k>>]

(* At r are the runes of a string, each a byte, and the zero behind them.  *)
IsText(r) ==
    \E p \in DOMAIN written :
        /\ TypeOf(p) = STR /\ Len(Elems(p)) = CountOf(r)
        /\ \A i \in DOMAIN Elems(p) : buff[r.index0 + i] = <<p, i, 1>>
        /\ buff[r.index0 + CountOf(r) + 1] = Byte(0)

(* The references at which the value v is read.                            *)
Reads[v \in DOMAIN Values] ==
    LET kept == {i \in DOMAIN Entries(v) : Entries(v)[i].key > 0}
        Shows(r, i, w) == ItemOf(r, i) \in Reads[w]
        Is(r) ==
          CASE Values[v].kind = "scalar" ->
                /\ r.vType = Values[v].elem.type
                /\ IsScalar(Values[v].elem, r)
            [] Values[v].kind = "string" ->
                /\ r.vType = STR
                /\ CountOf(r) = Values[v].text.narrow
                /\ IsText(r)
            [] Values[v].kind = "slice" ->
                /\ r.vType = Values[v].vType
                /\ CountOf(r) = Len(Entries(v))
                /\ \A i \in DOMAIN Entries(v) : Shows(r, i, Entries(v)[i].value)
            [] Values[v].kind = "map" ->
                /\ r.vType = MAP
                /\ CountOf(r) = Cardinality(kept)
                /\ \A i \in kept : \E j \in 1..CountOf(r) :
                      KeyOf(r, j) = Entries(v)[i].key /\ Shows(r, j, Entries(v)[i].value)
                /\ \A i, j \in 1..CountOf(r) : i < j => KeyOf(r, i) <= KeyOf(r, j)
            [] OTHER -> FALSE
    IN  {r \in Refs : Is(r)}

Encoded == Done /\ calls = 1 /\ ret = "ok"

(* Nothing is too large for its width, in a buffer short enough, and every *)
(* offset is in the first element or in one of single bytes.               *)
InReach ==
    /\ Len(buff) < 65536
    /\ \A p \in DOMAIN written :
          /\ IsWhole(p) /\ p # RootPart => Holds(Len(Elems(p)), written[p].bSize)
          /\ \A i \in Offsets(p) : Unscaled(p, i) /\ Fits(p, i)

-----------------------------------------------------------------------------
(* What Marshal returns reads, from its last two bytes on, as the value it *)
(* was given, through all its maps and slices, in whatever order AutoBuild *)
(* took the entries of maps and the encoder wrote the structures: if no    *)
(* structure in the value is refused by the one around it, nothing in it   *)
(* has an unknown type, and all offsets and counts are in reach.           *)
MarshalReadsBack ==
    Encoded /\ Keyed[began.value] /\ Known[began.value] /\ InReach =>
        NewRef \in Reads[began.value]
=============================================================================
