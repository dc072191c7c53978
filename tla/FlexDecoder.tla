----------------------------- MODULE FlexDecoder -----------------------------
(***************************************************************************)
(* The FlexBuffers decoder (flexbuffers/decoder.go) on the buffers that    *)
(* FlexSerialize writes.  A decoder keeps no state: what it returns is a   *)
(* function of the buffer.                                                 *)
(*                                                                         *)
(* References are made by NewRef, Index and getItemAsRef, and each of them *)
(* counts the items at once.  For vectors, maps, strings and blobs the     *)
(* count is sought in front of the buffer, and for typed vectors nowhere,  *)
(* so that there never is a reference to one of these: what the source     *)
(* does with such references (MapIndex, Map, KeyVector, UntypedVector, the *)
(* scanners of maps) cannot run, and is not modelled.                      *)
(***************************************************************************)
EXTENDS FlexSerialize

Panics == -1   \* in place of a count or an index: the call panics
Error == -2    \* in place of an index: the call returns an error

ByteAt(position) == buff[position + 1][3]
ItemVarType(context) == context \div 4

(* A mutant: one bit of the size is masked instead of two.                 *)
ItemByteSizeOfOneBit(context) == context % 2

ItemByteSize(context) == context % 4

(* Where an item is.  Positions are 64 bits wide in the source: one that   *)
(* is negative here is beyond every buffer there.                          *)
relItemOffset(r, i) == r.index0 - i * B(r.bSize)
absOffset(r, relative) == r.index0 - relative
absItemOffset(r, i) == absOffset(r, relItemOffset(r, i))
InBuffer(position, width) == position >= 0 /\ position + width <= Len(buff)

(* The index of the first zero at or behind a position.                    *)
IndexOfZero(position) ==
    CHOOSE k \in position..(Len(buff) - 1) :
        /\ buff[k + 1] = Byte(0)
        /\ \A j \in position..(k - 1) : buff[j + 1] # Byte(0)

(* A mutant: the end of a key is not counted.                              *)
itemCountWithoutEnd(r) ==
    IF r.vType = KEY THEN IndexOfZero(r.index0) - r.index0 ELSE 1

itemCount(r) ==
    CASE isInline(r.vType) \/ isScalar(r.vType) -> 1
      [] isTuple(r.vType)  -> 2
      [] isTriple(r.vType) -> 3
      [] isQuad(r.vType)   -> 4
      [] r.vType \in {VECTOR, MAP, BLOB, STR} ->
            IF InBuffer(absItemOffset(r, -1), 1) THEN ByteAt(absItemOffset(r, -1)) ELSE Panics
      [] r.vType = KEY -> IndexOfZero(r.index0) - r.index0 + 1
      [] OTHER -> Panics

RootIndex(vType, position, width) ==
    position - (IF isInline(vType) THEN 0 ELSE ReadUint(BytesAt(position, width)))

NewRef ==
    LET n == Len(buff)
        width == ByteAt(n - 1)
        context == ByteAt(n - 2)
        vType == ItemVarType(context)
    IN  [vType |-> vType, bSize |-> ItemByteSize(context),
         index0 |-> RootIndex(vType, n - 2 - width, width)]

Iterable(r) ==
    r.vType \in {VECTOR, MAP} \/ isTypedVector(r.vType) \/ isBlobLike(r.vType)

(* Int, Uint, Float, Bool and Null, as the bytes they take for the value;  *)
(* a float has 4 or 8, and the call panics (no bytes) for another width.   *)
Scalar(vType, position, bSize) ==
    IF vType = FLOAT /\ bSize \notin {b32, b64} THEN <<>>
    ELSE BytesAt(position, IF vType = BOOL THEN 1 ELSE B(bSize))

ItemType(r) ==
    CASE isIntTyped(r.vType) -> INT
      [] isUintTyped(r.vType) -> UINT
      [] isFloatTyped(r.vType) -> FLOAT
      [] OTHER -> BOOL

(* IntSlice, UintSlice, FloatSlice and BoolSlice.                          *)
Slice(r) ==
    [i \in 1..itemCount(r) |-> Scalar(ItemType(r), absItemOffset(r, i - 1), r.bSize)]

(* What Interface returns: the type and the bytes of one value or of the   *)
(* items of a slice.                                                       *)
Interface(r) ==
    IF isInline(r.vType)
    THEN [vType |-> r.vType, items |-> <<Scalar(r.vType, r.index0, r.bSize)>>]
    ELSE [vType |-> ItemType(r), items |-> Slice(r)]

(* A mutant: the position is not checked again, as the index it is taken for. *)
IndexCheckedOnce(r, i) ==
    IF ~Iterable(r) \/ i >= itemCount(r) THEN Error
    ELSE absItemOffset(r, absItemOffset(r, i))

(* Index for an item of a typed object: the position of the item it makes  *)
(* a reference to.  It hands a position to getItemAsRef, which wants an    *)
(* index and panics for one beyond the items.  In items of two bytes,      *)
(* index 1 of three makes a reference to what the slices have third.       *)
Index(r, i) ==
    IF ~Iterable(r) \/ i >= itemCount(r) THEN Error
    ELSE IF absItemOffset(r, i) >= itemCount(r) THEN Panics
    ELSE absItemOffset(r, absItemOffset(r, i))

-----------------------------------------------------------------------------
(* A call has returned with a document of one value.                       *)
Complete ==
    todo = <<>> /\ RootPart \in DOMAIN written /\ Len(Elems(RootPart)) = 1

RootElem == Elems(RootPart)[1]

(* A scalar is decoded as it was encoded, wherever in the client's buffer  *)
(* the document starts (NewRef, Interface).                                *)
ScalarsDecode ==
    Complete /\ Inlined(RootElem) =>
        Interface(NewRef) =
            [vType |-> RootElem.type,
             items |-> <<[k \in 1..B(RootElem.size) |-> <<RootPart, 1, k>>]>>]

(* A key that stands first in the buffer is decoded to its bytes and the   *)
(* zero behind them, through the offset of the root (itemCount, UintSlice).*)
KeysDecode ==
    Complete /\ RootElem.type = KEY =>
        LET q == RootElem.target IN
        written[q].index0 = 0 /\ Fits(RootPart, 1) =>
            Interface(NewRef) =
                [vType |-> UINT,
                 items |-> [i \in DOMAIN Elems(q) |-> <<<<q, i, 1>>>>] \o <<<<Byte(0)>>>>]

(* The value in the root is one the decoder gets as far as counting and    *)
(* that holds as many elements as its type says.                           *)
Countable(e) ==
    \/ Inlined(e)
    \/ e.type = KEY
    \/ isFixedTypedVector(e.type) /\ isFull(Of(e.target))

(* The decoder reads no byte in front of or behind the buffer, where Go    *)
(* would give it what is there up to the capacity of the slice (getBytes), *)
(* and finds the zero it counts a key to, whatever has become of the       *)
(* offset in the root (NewRef, itemCount, Interface).  Items are sought from the         *)
(* beginning of the buffer, and Index takes their positions for indices:   *)
(* where that does not panic, it leads to bytes of the buffer too, because *)
(* getItemAsRef checks once more what Index has checked.                   *)
ReadsStayInBuffer ==
    Complete /\ Countable(RootElem) =>
        LET r == NewRef
            Readable(position) == InBuffer(position, B(r.bSize))
        IN  /\ Inlined(RootElem) => Readable(r.index0)
            /\ RootElem.type = KEY =>
                  r.index0 >= 0 /\ \E k \in r.index0..(Len(buff) - 1) : buff[k + 1] = Byte(0)
            /\ ~Inlined(RootElem) =>
                  \A i \in 0..(itemCount(r) - 1) :
                      /\ Readable(absItemOffset(r, i))
                      /\ Index(r, i) # Panics => Readable(Index(r, i))
=============================================================================
