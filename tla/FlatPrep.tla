------------------------------- MODULE FlatPrep -------------------------------
(***************************************************************************)
(* Builder.Prep of src/builder.go a round of its loop at a time, and the   *)
(* Place calls that follow it and trust it to have made room.              *)
(*                                                                         *)
(* A call of Prep is pending while pc = "growing": alignSize has been      *)
(* computed, once, from the length the buffer had at the call, and the     *)
(* loop doubles the buffer under it.                                       *)
(***************************************************************************)
EXTENDS FlatBytes

CONSTANTS
    InitialSizes,  \* the arguments of NewBuilder
    Sizes,         \* the sizes that are aligned to
    Additional,    \* the additionalBytes
    Data,          \* the scalars
    MaxOffset      \* bound on the bytes written

ASSUME SizesAssumption ==
    InitialSizes \subseteq Nat /\ Sizes \subseteq {1, 2, 4, 8} /\ Additional \subseteq Nat
ASSUME DataAssumption == Data \subseteq Int /\ MaxOffset \in Nat

VARIABLES
    buf,              \* Bytes, head and minalign
    pc,               \* "idle", or "growing" in Prep
    size,             \* the arguments of Prep
    additionalBytes,
    alignSize,        \* the local of Prep
    room              \* the bytes a caller may still place without asking

vars == <<buf, pc, size, additionalBytes, alignSize, room>>

Init ==
    /\ \E n \in InitialSizes : buf = NewBuffer(n)
    /\ pc = "idle"
    /\ size = 1 /\ additionalBytes = 0 /\ alignSize = 0 /\ room = 0

(* Up to the loop.                                                         *)
CallPrep(s, a) ==
    /\ pc = "idle"
    /\ Offset(buf) + s + a <= MaxOffset
    /\ pc' = "growing"
    /\ buf' = TrackAlignment(buf, s)
    /\ size' = s /\ additionalBytes' = a
    /\ alignSize' = Padding(buf, s, a)
    /\ UNCHANGED room

(* A mutant: the padding takes no room.                                    *)
neededWithoutPadding == size + additionalBytes

needed == alignSize + size + additionalBytes

(* A round of the loop.                                                    *)
Grow ==
    /\ pc = "growing"
    /\ buf.head <= needed
    /\ buf' = GrowOnce(buf)
    /\ UNCHANGED <<pc, size, additionalBytes, alignSize, room>>

Larger(m, n) == IF m > n THEN m ELSE n

(* Behind the loop.  What an earlier Prep left room for may have become    *)
(* padding.                                                                *)
PadAndReturn ==
    /\ pc = "growing"
    /\ buf.head > needed
    /\ buf' = Pad(buf, alignSize)
    /\ pc' = "idle"
    /\ room' = Larger(size + additionalBytes, room - alignSize)
    /\ UNCHANGED <<size, additionalBytes, alignSize>>

(* A Place call, within what Prep was asked for.                           *)
PlaceScalar(n, x) ==
    /\ pc = "idle"
    /\ n <= room
    /\ buf' = Place(buf, n, x)
    /\ room' = room - n
    /\ UNCHANGED <<pc, size, additionalBytes, alignSize>>

Step == Grow \/ PadAndReturn

Next ==
    \/ \E s \in Sizes, a \in Additional : CallPrep(s, a)
    \/ Step
    \/ \E n \in Sizes, x \in Data : PlaceScalar(n, x)

(* A call runs to its end.                                                 *)
Spec == Init /\ [][Next]_vars /\ WF_vars(Step)

-----------------------------------------------------------------------------
TypeOK ==
    /\ buf = [bytes |-> buf.bytes, cap |-> buf.cap, head |-> buf.head, minalign |-> buf.minalign]
    /\ buf.bytes \in Seq(Int \X Nat)
    /\ buf.head \in 0..BufLen(buf)
    /\ buf.cap \in Nat /\ buf.cap >= BufLen(buf)
    /\ buf.minalign \in {1, 2, 4, 8}
    /\ pc \in {"idle", "growing"}
    /\ size \in {1, 2, 4, 8} /\ additionalBytes \in Nat
    /\ alignSize \in 0..7
    /\ room \in Nat

(* What may be placed without a check for space fits in front of the head, *)
(* whatever was padded, placed and grown in between (Place*, the copying   *)
(* of strings, EndVector).                                                 *)
RoomIsThere == room <= buf.head

(* When Prep returns, the scalar lands on a multiple of its size once the  *)
(* additional bytes are in front of it, counted from an end of the buffer  *)
(* that the growth has moved, and minalign knows of it (Prep).             *)
PrepAligns ==
    [][pc = "growing" /\ pc' = "idle" =>
          /\ (Offset(buf') + additionalBytes) % size = 0
          /\ buf'.minalign >= size]_vars

(* The loop ends, from an empty buffer too (growByteBuffer).               *)
PrepReturns == (pc = "growing") ~> (pc = "idle")

(* The buffer is a log: growth is not seen in it (growByteBuffer, Pad).    *)
Log == INSTANCE FlatLog WITH log <- Written(buf)
KeepsLog == Log!Spec
=============================================================================
