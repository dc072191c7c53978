---------------------------- MODULE FlexSerialize ----------------------------
(***************************************************************************)
(* The FlexBuffers encoder (flexbuffers/object.go, SerializeBuffer of      *)
(* flexbuffers/builder.go): how the document of a Builder is laid out in   *)
(* bytes.                                                                  *)
(*                                                                         *)
(* A call of SerializeBuffer descends from the root and writes every       *)
(* structure behind the structures inside it.  The model writes one of     *)
(* them per step.  Nothing keeps the client from calling it in the middle  *)
(* of a document, more than once, or with a buffer that holds something.   *)
(*                                                                         *)
(* What is written in one piece is a part: <<id, 0>> is the structure id,  *)
(* <<id, KeyVector>> the keys of the map id, <<id, obj>> one of its keys.  *)
(* A part is referred to by at most one element; the fields of that        *)
(* element that serialization changes are kept by the part it refers to.   *)
(*                                                                         *)
(* A byte of the buffer is a triple: <<NoPart, 0, v>> is the byte v, and   *)
(* <<p, i, k>> is byte k of the i-th element of p, whose value the model   *)
(* leaves out.                                                             *)
(***************************************************************************)
EXTENDS FlexBuilder, Integers

CONSTANT MaxCalls   \* bound on the calls of SerializeBuffer
ASSUME CallsAssumption == MaxCalls \in Nat

VARIABLES
    buff,       \* the client's buffer
    todo,       \* the parts the call under way has still to write, in order
    written,    \* of each part the last call wrote: where it starts, where its
                \* elements do, and its bSize
    offsetPtrs, \* of each part: absIndex, fieldSize and targetSize of the
                \* element that refers to it
    calls       \* how often SerializeBuffer was called

output == <<buff, todo, written, offsetPtrs, calls>>
all == <<vars, output>>

-----------------------------------------------------------------------------
(* Widths.  Where a number is 65536 or more, uintSize, which is taken for  *)
(* a ByteSize, is none: the model follows the code for smaller ones.       *)

B(bSize) == 2^bSize

uintSize(n) == IF n < 256 THEN 1 ELSE 2

b(byteWidth) == IF byteWidth = 1 THEN b8 ELSE b16

NoPart == <<0, 0>>
Byte(v) == <<NoPart, 0, v>>

(* The bytes PutUint64 gives n, cut to a width.  The model keeps three.    *)
LittleEndian(n, width) ==
    [k \in 1..width |-> Byte(IF k <= 3 THEN (n \div 256^(k - 1)) % 256 ELSE 0)]

Pack(vType, bSize) == Byte(4 * vType + bSize)

-----------------------------------------------------------------------------
(* Parts.                                                                  *)

KeyVector == -1
WholeOf(id) == <<id, 0>>
KeysOf(id) == <<id, KeyVector>>
RootPart == WholeOf(Root)

IsWhole(p) == p[2] = 0
IsKeyVector(p) == p[2] = KeyVector
IsKey(p) == p[2] > 0

Of(p) == structs[p[1]]
TypeOf(p) == IF IsWhole(p) THEN Of(p).vType ELSE IF IsKey(p) THEN KEY ELSE VECTOR_KEY

Unbound == [absIndex |-> 0, fieldSize |-> b8, targetSize |-> b8]
OffsetOf(p) == IF p \in DOMAIN offsetPtrs THEN offsetPtrs[p] ELSE Unbound

(* The elements of a part: a type, a size, and the part it refers to or    *)
(* NoPart.  The text of the key n has n runes, each the same: such texts *)
(* are ordered as their numbers are, and 0 is the empty one.               *)
NameOf(p) == LET k == CHOOSE k \in ToSet(Of(p).keys) : k.obj = p[2] IN k.name

Refers(vType, q) == [type |-> vType, size |-> OffsetOf(q).fieldSize, target |-> q]

Elems(p) ==
    CASE IsWhole(p) ->
            [i \in DOMAIN Of(p).elems |-> LET e == Of(p).elems[i] IN
                IF isInline(e.type)
                THEN [type |-> e.type, size |-> e.size, target |-> NoPart]
                ELSE Refers(e.type, WholeOf(e.target))]
      [] IsKeyVector(p) ->
            [i \in DOMAIN Of(p).keys |-> Refers(KEY, <<p[1], Of(p).keys[i].obj>>)]
      [] IsKey(p) ->
            [i \in 1..NameOf(p) |-> [type |-> UINT, size |-> b8, target |-> NoPart]]

(* The parts of a map beside its values: its keys, then their vector.      *)
KeyParts(id) ==
    IF IsMap(structs[id])
    THEN [i \in DOMAIN structs[id].keys |-> <<id, structs[id].keys[i].obj>>] \o <<KeysOf(id)>>
    ELSE <<>>

(* A mutant: what is inside the structure in the root is not written.      *)
PartsOneDeep ==
    FlattenSeq([c \in DOMAIN structs[Root].children |->
        LET id == structs[Root].children[c] IN KeyParts(id) \o <<WholeOf(id)>>])
        \o <<RootPart>>

(* Every part of the structure id, in the order of their serialization.    *)
InnerFirst[id \in DOMAIN structs] ==
    FlattenSeq([c \in DOMAIN structs[id].children |-> InnerFirst[structs[id].children[c]]])
        \o KeyParts(id) \o <<WholeOf(id)>>

Parts == InnerFirst[Root]

-----------------------------------------------------------------------------
(* One part.                                                               *)

(* A mutant: the size of the last element decides.                         *)
WidthOfLast(p) == IF Elems(p) = <<>> THEN b8 ELSE Elems(p)[Len(Elems(p))].size

(* The bSize updateBitWidth finds; a map makes room for the position of    *)
(* its keys.                                                               *)
WidthOfElems(p) == Max({b8} \cup {Elems(p)[i].size : i \in DOMAIN Elems(p)})

Width(p) ==
    IF IsWhole(p) /\ IsMap(Of(p))
    THEN Max({WidthOfElems(p), b(uintSize(written[KeysOf(p[1])].index0))})
    ELSE WidthOfElems(p)

(* A mutant: the offset to the keys counts from behind itself.             *)
HeadOfMapFromEnd(p) ==
    LET keys == written[KeysOf(p[1])] IN
    LittleEndian(Len(buff) + B(Width(p)) - keys.index0, B(Width(p)))
        \o LittleEndian(B(keys.bSize), B(Width(p)))

(* What a map writes behind its keys: how far back they are, their width.  *)
HeadOfMap(p) ==
    LET keys == written[KeysOf(p[1])] IN
    LittleEndian(Len(buff) - keys.index0, B(Width(p)))
        \o LittleEndian(B(keys.bSize), B(Width(p)))

(* What stands before the elements: but for the root and for keys, how     *)
(* many they are.                                                          *)
Head0(p) ==
    (IF IsWhole(p) /\ IsMap(Of(p)) THEN HeadOfMap(p) ELSE <<>>)
        \o (IF p = RootPart \/ TypeOf(p) = KEY THEN <<>>
            ELSE LittleEndian(Len(Elems(p)), B(Width(p))))

Index0(p) == Len(buff) + Len(Head0(p))

(* A mutant: the distance from the first element, whichever it is.         *)
DistanceFromFirst(p, i) == Index0(p) - OffsetOf(Elems(p)[i].target).absIndex

(* The offset in the i-th element.                                         *)
Distance(p, i) == Index0(p) + (i - 1) - OffsetOf(Elems(p)[i].target).absIndex

Inlined(e) == isInline(e.type)

BytesOf(p, i) ==
    IF Inlined(Elems(p)[i])
    THEN [k \in 1..B(Width(p)) |-> <<p, i, k>>]
    ELSE LittleEndian(Distance(p, i), B(Width(p)))

(* A mutant: the width of the structure for every element.                 *)
OwnContext(p, i) == Pack(Elems(p)[i].type, Width(p))

Context(p, i) ==
    Pack(Elems(p)[i].type,
         IF Inlined(Elems(p)[i]) THEN Width(p) ELSE OffsetOf(Elems(p)[i].target).targetSize)

(* What stands behind the elements: the contexts of vectors and maps, the  *)
(* context and the width of the root, the end of texts.                    *)
Tail0(p) ==
    CASE p = RootPart -> <<Context(p, 1), Byte(B(Width(p)))>>
      [] p # RootPart /\ TypeOf(p) \in {VECTOR, MAP} ->
            [i \in DOMAIN Elems(p) |-> Context(p, i)]
      [] TypeOf(p) \in {STR, KEY} -> <<Byte(0)>>
      [] OTHER -> <<>>

(* The root and the structure in it are not padded.                        *)
Padded(p) == p # RootPart /\ ~(IsWhole(p) /\ p[1] \in ToSet(structs[Root].children))

Padding(p, length) ==
    IF Elems(p) # <<>> /\ Padded(p)
    THEN [k \in 1..((-length) % B(Width(p))) |-> Byte(0)] ELSE <<>>

Body(p) == FlattenSeq([i \in DOMAIN Elems(p) |-> BytesOf(p, i)])

(* newOffset, for the elements of p that refer to parts, and updateOffsets,*)
(* for the element that refers to p.                                       *)
Offsets(p) == {i \in DOMAIN Elems(p) : ~Inlined(Elems(p)[i])}

NewOffset(p, i) ==
    [absIndex |-> Distance(p, i), fieldSize |-> uintSize(Distance(p, i)),
     targetSize |-> OffsetOf(Elems(p)[i].target).targetSize]

RenewOffsets(p) ==
    LET targets == {Elems(p)[i].target : i \in Offsets(p)} \ {p}
    IN  [q \in {p} \cup targets \cup DOMAIN offsetPtrs |->
            CASE q = p -> [OffsetOf(p) EXCEPT !.absIndex = Index0(p), !.targetSize = Width(p)]
              [] q \in targets -> NewOffset(p, CHOOSE i \in Offsets(p) : Elems(p)[i].target = q)
              [] OTHER -> offsetPtrs[q]]

-----------------------------------------------------------------------------
(* The call.                                                               *)

SerializeBuffer(start) ==
    /\ calls < MaxCalls
    /\ calls' = calls + 1
    /\ buff' = start
    /\ todo' = Parts
    /\ written' = <<>>
    /\ UNCHANGED <<vars, offsetPtrs>>

SerializePart ==
    LET p == Head(todo)
        bytes == buff \o Head0(p) \o Body(p) \o Tail0(p)
    IN  /\ todo # <<>>
        /\ p = RootPart => Elems(p) # <<>>
        /\ buff' = bytes \o Padding(p, Len(bytes))
        /\ todo' = Tail(todo)
        /\ written' = [q \in {p} \cup DOMAIN written |->
                          IF q = p
                          THEN [start |-> Len(buff), index0 |-> Index0(p), bSize |-> Width(p)]
                          ELSE written[q]]
        /\ offsetPtrs' = RenewOffsets(p)
        /\ ret' = "ok"
        /\ UNCHANGED <<doc, calls>>

(* A root that holds nothing has no context to write.                      *)
SerializeNothing ==
    /\ todo # <<>> /\ Head(todo) = RootPart
    /\ Elems(RootPart) = <<>>
    /\ todo' = <<>>
    /\ ret' = "panic"
    /\ UNCHANGED <<doc, buff, written, offsetPtrs, calls>>

(* A call of the Builder.  The model then forgets the buffer the client has. *)
Build ==
    /\ todo = <<>>
    /\ Next
    /\ buff' = <<>>
    /\ written' = <<>>
    /\ UNCHANGED <<todo, offsetPtrs, calls>>

Serialize == SerializePart \/ SerializeNothing

SerializeInit ==
    /\ Init
    /\ buff = <<>> /\ todo = <<>> /\ written = <<>> /\ offsetPtrs = <<>> /\ calls = 0

SerializeNext ==
    \/ Build
    \/ \E start \in {<<>>, buff} : todo = <<>> /\ SerializeBuffer(start)
    \/ Serialize

SerializeSpec == SerializeInit /\ [][SerializeNext]_all /\ WF_all(Serialize)
-----------------------------------------------------------------------------
(* Reading.  ReadUint is bytesAsUint; an offset is followed from where it  *)
(* stands, as NewRef and getItemAsRef follow one (flexbuffers/decoder.go). *)

ReadUint(bytes) ==
    LET Value(k) == IF k <= Len(bytes) THEN bytes[k][3] ELSE 0
    IN  Value(1) + 256 * Value(2) + 65536 * Value(3)

BytesAt(position, width) == SubSeq(buff, position + 1, position + width)
ItemAt(p, i) == written[p].index0 + (i - 1) * B(written[p].bSize)
Item(p, i) == BytesAt(ItemAt(p, i), B(written[p].bSize))

Leads(p, i) == ItemAt(p, i) - ReadUint(Item(p, i)) = written[Elems(p)[i].target].index0

(* The offset is right for the first element, and for all in a structure   *)
(* of single bytes; it fits if so many bytes hold it.                      *)
Unscaled(p, i) == i = 1 \/ written[p].bSize = b8
Holds(n, bSize) ==
    n < CASE bSize = b8 -> 256 [] bSize = b16 -> 65536 [] OTHER -> 16777216
Fits(p, i) ==
    Holds(ItemAt(p, i) - written[Elems(p)[i].target].index0, written[p].bSize)

-----------------------------------------------------------------------------
(* updateBitWidth, and the order of updateBitWidth and what follows it: an *)
(* inline element is found where the width of its structure puts it, and   *)
(* no byte of it is lost, whatever was serialized before it, in this call  *)
(* or in an earlier one.                                                   *)
ElementsReadBack ==
    \A p \in DOMAIN written : \A i \in DOMAIN Elems(p) \ Offsets(p) :
        /\ Elems(p)[i].size <= written[p].bSize
        /\ Item(p, i) = [k \in 1..B(written[p].bSize) |-> <<p, i, k>>]

(* An offset leads from where it stands to the first element of the part   *)
(* it refers to (updateOffsets and newOffset, each through its own pointer *)
(* to the element), if it is the first one of its structure or the         *)
(* elements are single bytes, and if it fits.                              *)
OffsetsLeadBack ==
    \A p \in DOMAIN written : \A i \in Offsets(p) :
        Unscaled(p, i) /\ Fits(p, i) => Leads(p, i)

(* The context of an element has its type, and the width its bytes were    *)
(* written with, which is that of the structure around it or that of the   *)
(* structure it refers to, when updateBitWidth had the last word on it.    *)
ContextsTellWidths ==
    \A p \in DOMAIN written :
        TypeOf(p) \in {VECTOR, MAP} \/ p = RootPart =>
            \A i \in DOMAIN Elems(p) : LET e == Elems(p)[i] IN
                (p = RootPart => i = 1) =>
                    BytesAt(ItemAt(p, Len(Elems(p)) + 1) + (i - 1), 1)
                        = <<Pack(e.type, written[IF Inlined(e) THEN p ELSE e.target].bSize)>>

(* In front of the elements a reader finds how many there are, and for a   *)
(* map, in a buffer short enough, the way to its keys and their width: the *)
(* room made for the position of the keys holds the distance to them.      *)
HeadsReadBack ==
    \A p \in DOMAIN written : p # RootPart /\ TypeOf(p) # KEY =>
        LET first == written[p].index0
            width == B(written[p].bSize)
            Before(k) == ReadUint(BytesAt(first - k * width, width))
        IN  /\ Holds(Len(Elems(p)), written[p].bSize) => Before(1) = Len(Elems(p))
            /\ TypeOf(p) = MAP /\ first < 65536 =>
                  LET keys == written[KeysOf(p[1])] IN
                  /\ Before(2) = B(keys.bSize)
                  /\ first - 3 * width - Before(3) = keys.index0

(* A call of SerializeBuffer, at whatever moment the client makes it, ends *)
(* with all of the document written, or panics for a root without a value. *)
SerializationEnds ==
    todo # <<>> ~>
        /\ todo = <<>>
        /\ \/ ret = "panic" /\ structs[Root].elems = <<>>
           \/ \A id \in DOMAIN structs : WholeOf(id) \in DOMAIN written

-----------------------------------------------------------------------------
(* What the source says of itself and does not keep.                       *)

(* A test (encoder_test.go:351) expects of a vector of 10, a vector of -10 *)
(* and true, and a vector of 32767 to decode to [10,[-10,true],[32767]]:   *)
(* each offset leads to its vector.                                        *)
EveryOffsetLeads ==
    \A p \in DOMAIN written : \A i \in Offsets(p) : Fits(p, i) => Leads(p, i)
=============================================================================
