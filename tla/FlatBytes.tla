------------------------------ MODULE FlatBytes ------------------------------
(***************************************************************************)
(* The buffer of the flatbuffers Builder (src/builder.go: Bytes, head,     *)
(* minalign): growth, alignment, and the placing of scalars in front of    *)
(* what is there.  A buffer is a value here, so that the calls of the      *)
(* Builder can be composed of these operations as in the source.           *)
(*                                                                         *)
(* A byte is a pair: byte k (little-endian) of the scalar x is <<x, k>>.   *)
(* Positions are 0-based from the left, as in Go, so that the byte at pos  *)
(* is bytes[pos + 1]; offsets count from the right end, which the Builder  *)
(* never moves.                                                            *)
(***************************************************************************)
EXTENDS Integers, Sequences, SequencesExt

CONSTANT Capacities     \* the capacities append allocates, which grow with what it is asked for

ASSUME CapacitiesAssumption == Capacities \subseteq Nat

SizeByte     == 1
SizeVOffsetT == 2
SizeUint32   == 4
SizeUOffsetT == 4
SizeSOffsetT == 4
VtableMetadataFields == 2
fileIdentifierLength == 4
sizePrefixLength     == 4

Zero == <<0, 0>>
Zeros(n) == [i \in 1..n |-> Zero]
Scalar(size, x) == IF x = 0 THEN Zeros(size) ELSE [i \in 1..size |-> <<x, i - 1>>]

NewBuffer(initialSize) ==
    [bytes |-> Zeros(initialSize), cap |-> initialSize, head |-> initialSize, minalign |-> 1]

BufLen(b) == Len(b.bytes)
Offset(b) == BufLen(b) - b.head

(* What has been written.                                                  *)
Written(b) == SubSeq(b.bytes, b.head + 1, BufLen(b))

(* bytes with data from pos on.                                            *)
Over(bytes, pos, data) ==
    SubSeq(bytes, 1, pos) \o data \o SubSeq(bytes, pos + Len(data) + 1, Len(bytes))

-----------------------------------------------------------------------------
(* Growth and alignment.                                                   *)

(* A mutant: an empty buffer stays empty.                                  *)
TwiceTheLen(b) == 2 * BufLen(b)

NewLen(b) == IF BufLen(b) = 0 THEN 1 ELSE 2 * BufLen(b)

(* Any capacities a Builder is given in its life are the least of their    *)
(* set that suffice, because each is asked to exceed the last.             *)
Capacity(n) ==
    LET enough == {c \in Capacities : c >= n}
    IN IF enough = {} THEN n ELSE CHOOSE c \in enough : \A d \in enough : c <= d

Extended(b, bytes) ==
    [b EXCEPT !.bytes = bytes, !.cap = IF @ >= NewLen(b) THEN @ ELSE Capacity(NewLen(b))]

(* A mutant: the data is left where it is, at the beginning.               *)
growWithoutCopy(b) == Extended(b, b.bytes \o Zeros(NewLen(b) - BufLen(b)))

(* growByteBuffer: the new half is a copy of the old one.  An empty buffer *)
(* becomes one byte.  (The panic beyond two gigabytes is out of reach.)    *)
growByteBuffer(b) == Extended(b, IF BufLen(b) = 0 THEN Zeros(NewLen(b)) ELSE b.bytes \o b.bytes)

(* A mutant: head stays where it was in the buffer that grew.              *)
GrowUnderHead(b) == growByteBuffer(b)

(* A round of the loop of Prep, which moves head with the data.            *)
GrowOnce(b) ==
    LET g == growByteBuffer(b) IN [g EXCEPT !.head = @ + BufLen(g) - BufLen(b)]

(* A mutant: the bytes that are to follow are not counted.                 *)
PaddingOfSizeAlone(b, size, additionalBytes) == (size - (Offset(b) % size)) % size

(* The two's complement of the offset, modulo size (a power of two).       *)
Padding(b, size, additionalBytes) ==
    (size - ((Offset(b) + additionalBytes) % size)) % size

Needs(b, size, additionalBytes) == Padding(b, size, additionalBytes) + size + additionalBytes

TrackAlignment(b, size) == [b EXCEPT !.minalign = IF size > @ THEN size ELSE @]

(* The loop of Prep ends at the first buffer with more room than is        *)
(* needed; a round makes at least one byte of room.                        *)
Grown(b, need) ==
    LET grown[n \in 0..(need + 1)] == IF n = 0 THEN b ELSE GrowOnce(grown[n - 1])
    IN grown[CHOOSE n \in 0..(need + 1) : /\ grown[n].head > need
                                          /\ \A m \in 0..(n - 1) : grown[m].head <= need]

(* Place*, and the copying of a string (x is its text then): size bytes in *)
(* front, without a check for space.                                       *)
Place(b, size, x) ==
    [b EXCEPT !.head = @ - size, !.bytes = Over(@, b.head - size, Scalar(size, x))]

Pad(b, n) == Place(b, n, 0)

Prep(b, size, additionalBytes) ==
    Pad(Grown(TrackAlignment(b, size), Needs(b, size, additionalBytes)),
        Padding(b, size, additionalBytes))

(* Prepend*: alignment, then the scalar.                                   *)
Prepend(b, size, x) == Place(Prep(b, size, 0), size, x)

(* PrependUOffsetT: the offset is stored relative to where it stands.      *)
PrependUOffsetT(b, off) ==
    LET p == Prep(b, SizeUOffsetT, 0)
    IN Place(p, SizeUOffsetT, Offset(p) - off + SizeUOffsetT)

(* Write*: over what is there.                                             *)
Overwrite(b, pos, size, x) == [b EXCEPT !.bytes = Over(@, pos, Scalar(size, x))]

(* The whole capacity becomes the buffer, with what is in it.              *)
ResetBuffer(b) ==
    [b EXCEPT !.head = b.cap, !.minalign = 1, !.bytes = @ \o Zeros(b.cap - BufLen(b))]

-----------------------------------------------------------------------------
(* Reading.                                                                *)

Get(b, pos) == b.bytes[pos + 1][1]

(* The size bytes at pos are those of x.                                   *)
Holds(b, pos, size, x) ==
    pos + size <= BufLen(b) /\ SubSeq(b.bytes, pos + 1, pos + size) = Scalar(size, x)
=============================================================================
