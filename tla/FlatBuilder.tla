----------------------------- MODULE FlatBuilder -----------------------------
(***************************************************************************)
(* The flatbuffers Builder (src/builder.go): objects and their vtables,    *)
(* vectors, strings, the finishing of a buffer, Reset; and the reading of  *)
(* what was built (src/table.go, src/lib.go).                              *)
(*                                                                         *)
(* A call of the public API is one action.  Its result, "ok" or "panic",   *)
(* is kept in ret.  Which object, vector, string or buffer was completed   *)
(* where is remembered in made, a history variable; open is what the       *)
(* client is at, with which it keeps the contract of generated code: a     *)
(* vector gets as many elements as StartVector was told.                   *)
(***************************************************************************)
EXTENDS FlatBytes, FiniteSets

CONSTANTS
    InitialSize,  \* the argument of NewBuilder
    FieldSize,    \* the fields of the objects: field o, 0-based, takes FieldSize[o + 1] bytes;
                  \* those of more than 8 are structs, with an alignment of 8
    Values,       \* the values of fields and elements; the default is 0
    Texts,        \* the strings, numbered
    TextLen,      \* how many bytes they have
    Vectors,      \* the vectors: records [size, num, alignment]
    Identifiers,  \* the file identifiers, numbered
    MaxOffset,    \* bound on the bytes written
    MaxMade,      \* bound on the things made before a Reset
    MaxResets     \* bound on the Resets

ASSUME SizesAssumption ==
    /\ InitialSize \in Nat
    /\ FieldSize \in Seq(Nat \ {0})
    /\ \A i \in DOMAIN FieldSize : FieldSize[i] \in {1, 2, 4, 8} \/ FieldSize[i] % 8 = 0
    /\ TextLen \in [Texts -> Nat]
    /\ Vectors \subseteq [size : {1, 2, 4, 8}, num : Nat, alignment : {1, 2, 4, 8}]
(* Generated code aligns a vector at least as its elements.                *)
ASSUME VectorsAssumption == \A v \in Vectors : v.size <= v.alignment
(* A vtable counts its bytes in 16 bits.                                   *)
ASSUME FieldsAssumption == (Len(FieldSize) + VtableMetadataFields) * SizeVOffsetT < 65536
ASSUME ValuesAssumption ==
    Values \subseteq Nat /\ Texts \subseteq Nat \ {0} /\ Identifiers \subseteq Nat \ {0}
ASSUME BoundsAssumption == MaxOffset \in Nat /\ MaxMade \in Nat /\ MaxResets \in Nat

VARIABLES
    buf,           \* Bytes, head and minalign
    vtable,        \* Builder.vtable: the offsets of the fields of the open object, or 0
    objectEnd,     \* Builder.objectEnd
    vtables,       \* Builder.vtables: the offsets of the vtables written
    nested,        \* Builder.nested
    finished,      \* Builder.finished
    sharedStrings, \* Builder.sharedStrings
    ret,           \* how the last call ended
    open,          \* what the client has begun
    made,          \* what it has completed
    resets         \* how often it has called Reset

vars == <<buf, vtable, objectEnd, vtables, nested, finished, sharedStrings, ret, open, made, resets>>
state == <<buf, vtable, objectEnd, vtables, nested, finished, sharedStrings, open, made, resets>>

NothingOpen == [kind |-> "nothing"]
Spoiled == [kind |-> "spoiled"]
Fields == 0..(Len(FieldSize) - 1)
Alignment(o) == IF FieldSize[o + 1] <= 8 THEN FieldSize[o + 1] ELSE 8

Init ==
    /\ buf = NewBuffer(InitialSize)
    /\ vtable = <<>>
    /\ objectEnd = 0
    /\ vtables = <<>>
    /\ nested = FALSE
    /\ finished = FALSE
    /\ sharedStrings = <<>>
    /\ ret = "ok"
    /\ open = NothingOpen
    /\ made = {}
    /\ resets = 0

Room(n) == Offset(buf) + n <= MaxOffset /\ Cardinality(made) < MaxMade
Panic == ret' = "panic" /\ UNCHANGED state

Tables == {t \in made : t.kind = "table"}
Offsets == {m.at : m \in {x \in made : x.kind # "buffer"}}

-----------------------------------------------------------------------------
(* Vtables.                                                                *)

(* The vtable without the zeros at its end.                                *)
Trimmed(v) == SubSeq(v, 1, CHOOSE n \in 0..Len(v) :
                               /\ n = 0 \/ v[n] # 0
                               /\ \A i \in (n + 1)..Len(v) : v[i] = 0)

(* A mutant: entries are compared only where the object has a field.       *)
vtableEqualWhereSet(b, v, objectOffset, vt2) ==
    LET pos == BufLen(b) - vt2
    IN /\ Get(b, pos) = (Len(v) + VtableMetadataFields) * SizeVOffsetT
       /\ \A i \in 1..Len(v) :
             v[i] # 0 => Get(b, pos + (i + 1) * SizeVOffsetT) = objectOffset - v[i]

(* vtableEqual against the vtable written at the offset vt2, without its   *)
(* two metadata fields, as WriteVtable slices it.                          *)
vtableEqual(b, v, objectOffset, vt2) ==
    LET pos == BufLen(b) - vt2
    IN /\ Get(b, pos) = (Len(v) + VtableMetadataFields) * SizeVOffsetT
       /\ \A i \in 1..Len(v) :
             LET x == Get(b, pos + (i + 1) * SizeVOffsetT)
             IN (x = 0 /\ v[i] = 0) \/ x = objectOffset - v[i]

(* A mutant: only the vtable written last is looked at.                    *)
lastVtableIfEqual(b, v, objectOffset) ==
    LET n == Len(vtables)
    IN IF n > 0 /\ vtableEqual(b, v, objectOffset, vtables[n]) THEN vtables[n] ELSE 0

(* The last vtable written that is equal, or 0.                            *)
existingVtable(b, v, objectOffset) ==
    LET equal == {i \in DOMAIN vtables : vtableEqual(b, v, objectOffset, vtables[i])}
    IN IF equal = {} THEN 0 ELSE vtables[CHOOSE i \in equal : \A j \in equal : j <= i]

(* The entries from the last to the first, the size of the object, the     *)
(* size of the vtable, 16 bits each.                                       *)
VOffsetT(x) == x % 65536
WithVtable(b, v, objectOffset) ==
    LET entry(off) == VOffsetT(IF off = 0 THEN 0 ELSE objectOffset - off)
        entries[n \in 0..Len(v)] ==
            IF n = 0 THEN b
            ELSE Prepend(entries[n - 1], SizeVOffsetT, entry(v[Len(v) - n + 1]))
        sized == Prepend(entries[Len(v)], SizeVOffsetT, VOffsetT(objectOffset - objectEnd))
    IN Prepend(sized, SizeVOffsetT, VOffsetT((Len(v) + VtableMetadataFields) * SizeVOffsetT))

(* The buffer and the vtables after WriteVtable, and the object's offset.  *)
WriteVtable ==
    LET b == PrependUOffsetT(buf, 0)
        objectOffset == Offset(b)
        v == Trimmed(vtable)
        existing == existingVtable(b, v, objectOffset)
        w == WithVtable(b, v, objectOffset)
    IN IF existing = 0
       THEN [buf |-> Overwrite(w, BufLen(w) - objectOffset, SizeSOffsetT, Offset(w) - objectOffset),
             vtables |-> Append(vtables, Offset(w)), at |-> objectOffset]
       ELSE [buf |-> Overwrite(b, b.head, SizeSOffsetT, existing - objectOffset),
             vtables |-> vtables, at |-> objectOffset]

-----------------------------------------------------------------------------
(* Objects.                                                                *)

StartObject ==
    IF nested THEN Panic
    ELSE /\ Room(0)
         /\ nested' = TRUE
         /\ vtable' = [i \in 1..Len(FieldSize) |-> 0]
         /\ objectEnd' = Offset(buf)
         /\ open' = [kind |-> "object", fields |-> <<>>]
         /\ ret' = "ok"
         /\ UNCHANGED <<buf, vtables, finished, sharedStrings, made, resets>>

(* Slot                                                                    *)
Slot(o, b) ==
    /\ buf' = b
    /\ vtable' = [vtable EXCEPT ![o + 1] = Offset(b)]

(* Generated code sets a field of its schema, and a client sets it once.   *)
CanSet(o) == open.kind = "object" /\ o \notin DOMAIN open.fields

Field(x, target) == [value |-> x, target |-> target]
Remember(o, f) ==
    open' = [open EXCEPT !.fields = [i \in DOMAIN @ \cup {o} |-> IF i = o THEN f ELSE @[i]]]

(* Prepend*Slot: a value that is the default is not written.               *)
PrependSlot(o, x, d) ==
    /\ CanSet(o) /\ FieldSize[o + 1] = Alignment(o)
    /\ Room(2 * FieldSize[o + 1])
    /\ IF x = d THEN UNCHANGED <<buf, vtable, open>>
       ELSE /\ Slot(o, Prepend(buf, FieldSize[o + 1], x))
            /\ Remember(o, Field(x, 0))
    /\ ret' = "ok"
    /\ UNCHANGED <<objectEnd, vtables, nested, finished, sharedStrings, made, resets>>

(* PrependUOffsetTSlot, for something that is in the buffer.               *)
PrependUOffsetTSlot(o, off) ==
    /\ CanSet(o)
    /\ FieldSize[o + 1] = SizeUOffsetT
    /\ Room(2 * SizeUOffsetT)
    /\ Slot(o, PrependUOffsetT(buf, off))
    /\ Remember(o, Field(0, off))
    /\ ret' = "ok"
    /\ UNCHANGED <<objectEnd, vtables, nested, finished, sharedStrings, made, resets>>

PrependSomeOffset(o) == \E off \in Offsets : PrependUOffsetTSlot(o, off)

(* A struct, as generated code builds it in place, and PrependStructSlot.  *)
PrependStructSlot(o, x) ==
    /\ CanSet(o)
    /\ Room(2 * FieldSize[o + 1])
    /\ LET size == FieldSize[o + 1]
       IN Slot(o, Place(Prep(buf, Alignment(o), size), size, x))
    /\ Remember(o, Field(x, 0))
    /\ ret' = "ok"
    /\ UNCHANGED <<objectEnd, vtables, nested, finished, sharedStrings, made, resets>>

(* A client keeps an object, with the offset to its vtable, below 64       *)
(* kilobytes: WriteVtable cuts the distances of its fields to 16 bits.     *)
MaxObject == 65528
ObjectIsShort == open.kind = "object" => Offset(buf) - objectEnd <= MaxObject

(* EndObject; nested says that something is open, not what: a vector ends  *)
(* as an object without fields.                                            *)
EndObject ==
    IF ~nested THEN Panic
    ELSE /\ open.kind \in {"object", "vector"}
         /\ Room(0) /\ ObjectIsShort
         /\ buf' = WriteVtable.buf
         /\ vtables' = WriteVtable.vtables
         /\ made' = made \cup {[kind |-> "table", at |-> WriteVtable.at,
                                fields |-> IF open.kind = "object" THEN open.fields ELSE <<>>,
                                size |-> WriteVtable.at - objectEnd]}
         /\ vtable' = <<>>
         /\ nested' = FALSE
         /\ open' = NothingOpen
         /\ ret' = "ok"
         /\ UNCHANGED <<objectEnd, finished, sharedStrings, resets>>

-----------------------------------------------------------------------------
(* Vectors and strings.                                                    *)

StartVector(v) ==
    IF nested THEN Panic
    ELSE /\ Room(v.size * v.num + 8)
         /\ LET bytes == v.size * v.num
            IN buf' = Prep(Prep(buf, SizeUint32, bytes), v.alignment, bytes)
         /\ nested' = TRUE
         /\ open' = [kind |-> "vector", vector |-> v, elems |-> <<>>]
         /\ ret' = "ok"
         /\ UNCHANGED <<vtable, objectEnd, vtables, finished, sharedStrings, made, resets>>

(* Prepend*: an element, in front of those added before.                   *)
PrependElement(x) ==
    /\ open.kind = "vector" /\ Len(open.elems) < open.vector.num
    /\ buf' = Prepend(buf, open.vector.size, x)
    /\ open' = [open EXCEPT !.elems = <<x>> \o @]
    /\ ret' = "ok"
    /\ UNCHANGED <<vtable, objectEnd, vtables, nested, finished, sharedStrings, made, resets>>

(* EndVector: the length goes where StartVector left room for it.          *)
EndVector ==
    IF ~nested THEN Panic
    ELSE /\ open.kind = "vector" /\ Len(open.elems) = open.vector.num
         /\ Room(SizeUOffsetT)
         /\ buf' = Place(buf, SizeUOffsetT, open.vector.num)
         /\ made' = made \cup {[kind |-> "vector", at |-> Offset(buf'), size |-> open.vector.size,
                                alignment |-> open.vector.alignment, elems |-> open.elems]}
         /\ nested' = FALSE
         /\ open' = NothingOpen
         /\ ret' = "ok"
         /\ UNCHANGED <<vtable, objectEnd, vtables, finished, sharedStrings, resets>>

(* The buffer with a length and the text s in front.                       *)
WithText(b, s) == Place(Place(b, TextLen[s], s), SizeUOffsetT, TextLen[s])

(* A string ends with a zero byte that its length does not count.          *)
WithString(s) == WithText(Place(Prep(buf, SizeUOffsetT, TextLen[s] + 1), SizeByte, 0), s)

AddString(s) ==
    /\ Room(TextLen[s] + 8)
    /\ buf' = WithString(s)
    /\ made' = made \cup {[kind |-> "string", at |-> Offset(buf'), text |-> s]}
    /\ ret' = "ok"
    /\ UNCHANGED <<vtable, objectEnd, vtables, nested, finished, open, resets>>

(* CreateString and CreateByteString.                                      *)
CreateString(s) ==
    IF nested THEN Panic ELSE AddString(s) /\ UNCHANGED sharedStrings

(* CreateSharedString; the offset returned is sharedStrings'[s].           *)
CreateSharedString(s) ==
    IF s \in DOMAIN sharedStrings
    THEN ret' = "ok" /\ UNCHANGED state
    ELSE IF nested THEN Panic
    ELSE /\ AddString(s)
         /\ sharedStrings' = [t \in DOMAIN sharedStrings \cup {s} |->
                                 IF t = s THEN Offset(buf') ELSE sharedStrings[t]]

(* CreateByteVector                                                        *)
CreateByteVector(s) ==
    IF nested THEN Panic
    ELSE /\ Room(TextLen[s] + 8)
         /\ buf' = WithText(Prep(buf, SizeUOffsetT, TextLen[s]), s)
         /\ made' = made \cup {[kind |-> "bytes", at |-> Offset(buf'), text |-> s]}
         /\ ret' = "ok"
         /\ UNCHANGED <<vtable, objectEnd, vtables, nested, finished, sharedStrings, open, resets>>

-----------------------------------------------------------------------------
(* The whole buffer.                                                       *)

(* The file identifier, or the buffer as it is for 0.                      *)
WithIdentifier(fid, sizePrefix) ==
    LET rest == IF sizePrefix THEN sizePrefixLength ELSE 0
        p == Prep(buf, buf.minalign, SizeUint32 + fileIdentifierLength + rest)
    IN IF fid = 0 THEN buf ELSE Place(p, fileIdentifierLength, fid)

(* A mutant: no alignment in front of the root offset and the prefix.      *)
FinishedUnaligned(b, rootTable, sizePrefix) ==
    LET r == PrependUOffsetT(b, rootTable)
    IN IF sizePrefix THEN Place(r, SizeUint32, Offset(r)) ELSE r

(* finish                                                                  *)
FinishedBuffer(b, rootTable, sizePrefix) ==
    LET p == Prep(b, b.minalign, SizeUOffsetT + (IF sizePrefix THEN sizePrefixLength ELSE 0))
        r == PrependUOffsetT(p, rootTable)
    IN IF sizePrefix THEN Place(r, SizeUint32, Offset(r)) ELSE r

(* Finish, FinishSizePrefixed, and the two WithFileIdentifier; the         *)
(* identifier is already written when assertNotNested panics: the object   *)
(* that is open goes on behind it, a vector has lost its place.            *)
Finish(rootTable, sizePrefix, fid) ==
    IF nested
    THEN /\ Room(16)
         /\ buf' = WithIdentifier(fid, sizePrefix)
         /\ open' = IF fid # 0 /\ open.kind = "vector" THEN Spoiled ELSE open
         /\ ret' = "panic"
         /\ UNCHANGED <<vtable, objectEnd, vtables, nested, finished, sharedStrings, made, resets>>
    ELSE /\ Room(16)
         /\ buf' = FinishedBuffer(WithIdentifier(fid, sizePrefix), rootTable, sizePrefix)
         /\ finished' = TRUE
         /\ made' = made \cup {[kind |-> "buffer", at |-> Offset(buf'), root |-> rootTable,
                                prefixed |-> sizePrefix, identifier |-> fid]}
         /\ ret' = "ok"
         /\ UNCHANGED <<vtable, objectEnd, vtables, nested, sharedStrings, open, resets>>

FinishSomeTable(sizePrefix, fid) == \E t \in Tables : Finish(t.at, sizePrefix, fid)

(* A mutant: the vtables of the last buffer are found in the next one.     *)
ResetKeepsVtables ==
    /\ resets < MaxResets
    /\ resets' = resets + 1
    /\ buf' = ResetBuffer(buf)
    /\ vtable' = <<>> /\ sharedStrings' = <<>>
    /\ nested' = FALSE /\ finished' = FALSE
    /\ open' = NothingOpen /\ made' = {}
    /\ ret' = "ok"
    /\ UNCHANGED <<objectEnd, vtables>>

(* A mutant: so are the shared strings.                                    *)
ResetKeepsSharedStrings ==
    /\ resets < MaxResets
    /\ resets' = resets + 1
    /\ buf' = ResetBuffer(buf)
    /\ vtables' = <<>> /\ vtable' = <<>>
    /\ nested' = FALSE /\ finished' = FALSE
    /\ open' = NothingOpen /\ made' = {}
    /\ ret' = "ok"
    /\ UNCHANGED <<objectEnd, sharedStrings>>

(* Reset: the buffer and the bookkeeping, but not objectEnd.               *)
Reset ==
    /\ resets < MaxResets
    /\ resets' = resets + 1
    /\ buf' = ResetBuffer(buf)
    /\ vtables' = <<>> /\ vtable' = <<>> /\ sharedStrings' = <<>>
    /\ nested' = FALSE /\ finished' = FALSE
    /\ open' = NothingOpen /\ made' = {}
    /\ ret' = "ok"
    /\ UNCHANGED objectEnd

Next ==
    \/ StartObject
    \/ \E o \in Fields, x \in Values : PrependSlot(o, x, 0)
    \/ \E o \in Fields : PrependSomeOffset(o)
    \/ \E o \in Fields, x \in Values : PrependStructSlot(o, x)
    \/ EndObject
    \/ \E v \in Vectors : StartVector(v)
    \/ \E x \in Values : PrependElement(x)
    \/ EndVector
    \/ \E s \in Texts : CreateString(s)
    \/ \E s \in Texts : CreateSharedString(s)
    \/ \E s \in Texts : CreateByteVector(s)
    \/ \E sizePrefix \in BOOLEAN, fid \in Identifiers \cup {0} : FinishSomeTable(sizePrefix, fid)
    \/ Reset

Spec == Init /\ [][Next]_vars

-----------------------------------------------------------------------------
(* Reading: Table.Offset and the accessors, for a table at a position.     *)

TableOffset(b, pos, vtableOffset) ==
    LET vt == pos - Get(b, pos)
    IN IF vtableOffset < Get(b, vt) THEN Get(b, vt + vtableOffset) ELSE 0

SlotOf(o) == (o + VtableMetadataFields) * SizeVOffsetT

Indirect(b, pos) == pos + Get(b, pos)

-----------------------------------------------------------------------------
TypeOK ==
    /\ buf = [bytes |-> buf.bytes, cap |-> buf.cap, head |-> buf.head, minalign |-> buf.minalign]
    /\ buf.bytes \in Seq(Int \X Nat)
    /\ buf.head \in 0..BufLen(buf)
    /\ buf.cap \in Nat /\ buf.cap >= BufLen(buf)
    /\ buf.minalign \in {1, 2, 4, 8}
    /\ \A i \in DOMAIN vtable : vtable[i] \in 0..Offset(buf)
    /\ objectEnd \in Nat
    /\ \A i \in DOMAIN vtables : vtables[i] \in 1..Offset(buf)
    /\ nested \in BOOLEAN /\ finished \in BOOLEAN
    /\ DOMAIN sharedStrings \subseteq Texts
    /\ ret \in {"ok", "panic"}

(* Every table reads back what was put into it, a default for every field  *)
(* that was not set, at every later time: although its vtable may be that  *)
(* of another object, was trimmed, and the buffer has grown since          *)
(* (WriteVtable, vtableEqual, Table.Offset).                               *)
TablesReadBack ==
    \A t \in Tables : \A o \in Fields :
        LET pos == BufLen(buf) - t.at
            off == TableOffset(buf, pos, SlotOf(o))
        IN IF o \notin DOMAIN t.fields THEN off = 0
           ELSE /\ off # 0
                /\ (pos + off) % Alignment(o) = BufLen(buf) % Alignment(o)
                /\ IF t.fields[o].target = 0
                   THEN Holds(buf, pos + off, FieldSize[o + 1], t.fields[o].value)
                   ELSE Indirect(buf, pos + off) = BufLen(buf) - t.fields[o].target

(* Strings and vectors read back, the elements last to first; a vector's   *)
(* data is aligned as StartVector was told, and its length field is, for   *)
(* which EndVector does not ask (StartVector, EndVector, CreateString).    *)
VectorsReadBack ==
    \A m \in made :
        LET pos == BufLen(buf) - m.at
            data == pos + SizeUOffsetT
        IN CASE m.kind = "vector" ->
                    /\ Holds(buf, pos, SizeUOffsetT, Len(m.elems))
                    /\ m.at % SizeUOffsetT = 0
                    /\ (m.at - SizeUOffsetT) % m.alignment = 0
                    /\ \A i \in DOMAIN m.elems :
                          Holds(buf, data + (i - 1) * m.size, m.size, m.elems[i])
             [] m.kind \in {"string", "bytes"} ->
                    /\ Holds(buf, pos, SizeUOffsetT, TextLen[m.text])
                    /\ m.at % SizeUOffsetT = 0
                    /\ Holds(buf, data, TextLen[m.text], m.text)
                    /\ m.kind = "string" => Holds(buf, data + TextLen[m.text], SizeByte, 0)
             [] OTHER -> TRUE

(* A finished buffer leads to its root: past the size prefix, which counts *)
(* the bytes behind it, stands the offset of the root table, then the file *)
(* identifier; and the buffer as a whole is aligned for whatever is in it  *)
(* (finish, GetRootAs, GetSizePrefixedRootAs).                             *)
BuffersReadBack ==
    \A m \in {x \in made : x.kind = "buffer"} :
        LET start == BufLen(buf) - m.at
            pos == start + (IF m.prefixed THEN sizePrefixLength ELSE 0)
        IN /\ m.prefixed => Holds(buf, start, SizeUint32, m.at - sizePrefixLength)
           /\ Indirect(buf, pos) = BufLen(buf) - m.root
           /\ m.identifier # 0 =>
                 Holds(buf, pos + SizeUOffsetT, fileIdentifierLength, m.identifier)
           /\ \A t \in Tables : t.at < m.at =>
                 \A o \in DOMAIN t.fields :
                    (BufLen(buf) - t.at + TableOffset(buf, BufLen(buf) - t.at, SlotOf(o)) - start)
                        % Alignment(o) = 0
           /\ \A v \in made : v.kind = "vector" /\ v.at < m.at =>
                 (m.at - (v.at - SizeUOffsetT)) % v.alignment = 0

(* No vtable is written twice (the search of WriteVtable).                 *)
VtablesDiffer ==
    \A i, j \in DOMAIN vtables : i # j =>
        LET p == BufLen(buf) - vtables[i]
            q == BufLen(buf) - vtables[j]
        IN \/ Get(buf, p) # Get(buf, q)
           \/ \E k \in 2..(Get(buf, p) \div 2 - 1) : Get(buf, p + 2 * k) # Get(buf, q + 2 * k)

(* A shared string is the string it stands for, in the buffer that is      *)
(* being built: none survives a Reset (CreateSharedString, Reset).         *)
SharedStringsAreThere ==
    \A s \in DOMAIN sharedStrings :
        [kind |-> "string", at |-> sharedStrings[s], text |-> s] \in made

(* Nothing that has been written is changed or moved, counted from the     *)
(* end of the buffer, by any call but the one that empties it (Prep,       *)
(* growByteBuffer, EndVector and WriteVtable, which writes into the        *)
(* object that it ends and nowhere else).                                  *)
WrittenStays ==
    [][Offset(buf') = 0 \/ IsSuffix(Written(buf), Written(buf'))]_vars
=============================================================================
