---------------------------- MODULE FlatPrepProofs ----------------------------
(***************************************************************************)
(* Proofs about FlatPrep: the head never passes the beginning of the       *)
(* buffer, Prep aligns, and the growing buffer is the log FlatLog.         *)
(***************************************************************************)
EXTENDS FlatPrep, FlatBytesProofs

(* The inductive invariant.                                                *)

(* What Prep has computed before its loop still holds in it.               *)
Pending ==
    pc = "growing" =>
        /\ alignSize = Padding(buf, size, additionalBytes)
        /\ buf.minalign >= size

IInv == TypeOK /\ RoomIsThere /\ Pending

LEMMA BufferIsTyped == TypeOK => IsBuffer(buf)
BY DEF TypeOK, IsBuffer, Bytes, BufLen

LEMMA InitEstablishes == Init => IInv
<1> SUFFICES ASSUME Init PROVE IInv
  OBVIOUS
<1>1. PICK n \in InitialSizes : buf = NewBuffer(n)
  BY DEF Init
<1>2. n \in Nat
  BY <1>1, SizesAssumption
<1>3. Zeros(n) \in Seq(Bytes) /\ Len(Zeros(n)) = n
  BY <1>2 DEF Zeros, Zero, Bytes
<1>4. buf = [bytes |-> Zeros(n), cap |-> n, head |-> n, minalign |-> 1]
  BY <1>1 DEF NewBuffer
<1>5. TypeOK
  BY <1>2, <1>3, <1>4 DEF Init, TypeOK, Bytes, BufLen
<1>6. RoomIsThere
  BY <1>2, <1>4 DEF Init, RoomIsThere
<1> QED BY <1>5, <1>6 DEF IInv, Pending, Init

LEMMA CallPrepPreserves ==
    ASSUME IInv, NEW s \in Sizes, NEW a \in Additional, CallPrep(s, a)
    PROVE  IInv'
<1>1. s \in {1, 2, 4, 8} /\ a \in Nat
  BY SizesAssumption
<1>2. IsBuffer(buf)
  BY BufferIsTyped DEF IInv
<1>3. /\ IsBuffer(buf')
      /\ buf'.head = buf.head
      /\ buf'.minalign >= s
      /\ Offset(buf') = Offset(buf)
  BY <1>1, <1>2, TrackingKeepsWritten DEF CallPrep
<1>4. Padding(buf, s, a) \in 0..7
  BY <1>1, <1>2, PaddingIsSmall
<1>5. TypeOK'
  BY <1>1, <1>3, <1>4 DEF CallPrep, IInv, TypeOK, IsBuffer, Bytes, BufLen
<1>6. RoomIsThere'
  BY <1>3 DEF CallPrep, IInv, RoomIsThere
<1>7. Pending'
  BY <1>3 DEF CallPrep, Pending, Padding
<1> QED BY <1>5, <1>6, <1>7 DEF IInv

LEMMA GrowPreserves ==
    ASSUME IInv, Grow
    PROVE  IInv'
<1>1. IsBuffer(buf)
  BY BufferIsTyped DEF IInv
<1>2. /\ IsBuffer(buf')
      /\ buf'.head >= buf.head + 1
      /\ buf'.minalign = buf.minalign
      /\ Offset(buf') = Offset(buf)
  BY <1>1, GrowthKeepsWritten DEF Grow
<1>3. TypeOK'
  BY <1>2 DEF Grow, IInv, TypeOK, IsBuffer, Bytes, BufLen
<1>4. RoomIsThere'
  BY <1>1, <1>2 DEF Grow, IInv, TypeOK, RoomIsThere, IsBuffer
<1>5. Pending'
  BY <1>2 DEF Grow, IInv, Pending, Padding
<1> QED BY <1>3, <1>4, <1>5 DEF IInv

LEMMA PadAndReturnPreserves ==
    ASSUME IInv, PadAndReturn
    PROVE  /\ IInv'
           /\ Offset(buf') = Offset(buf) + alignSize
           /\ buf'.minalign = buf.minalign
<1>1. IsBuffer(buf)
  BY BufferIsTyped DEF IInv
<1>2. /\ alignSize \in 0..7 /\ size \in Nat /\ additionalBytes \in Nat /\ room \in Nat
      /\ buf.head \in Nat /\ room <= buf.head
  BY DEF IInv, TypeOK, RoomIsThere
<1>3. buf.head > alignSize + size + additionalBytes
  BY DEF PadAndReturn, needed
<1>4. alignSize \in Nat /\ alignSize <= buf.head /\ 0 \in Int
  BY <1>2, <1>3
<1>5. /\ IsBuffer(buf')
      /\ buf'.head = buf.head - alignSize
      /\ buf'.minalign = buf.minalign
      /\ Offset(buf') = Offset(buf) + alignSize
  BY <1>1, <1>4, PlaceAddsInFront DEF PadAndReturn, Pad
<1>6. room' \in Nat /\ room' <= buf'.head
  BY <1>2, <1>3, <1>5 DEF PadAndReturn, Larger
<1>7. TypeOK'
  BY <1>5, <1>6 DEF PadAndReturn, IInv, TypeOK, IsBuffer, Bytes, BufLen
<1>8. Pending'
  BY DEF PadAndReturn, Pending
<1> QED BY <1>5, <1>6, <1>7, <1>8 DEF IInv, RoomIsThere

LEMMA PlaceScalarPreserves ==
    ASSUME IInv, NEW n \in Sizes, NEW x \in Data, PlaceScalar(n, x)
    PROVE  IInv'
<1>1. IsBuffer(buf)
  BY BufferIsTyped DEF IInv
<1>2. n \in Nat /\ x \in Int /\ room \in Nat /\ room <= buf.head /\ buf.head \in Nat /\ n <= room
  BY SizesAssumption, DataAssumption DEF IInv, TypeOK, RoomIsThere, PlaceScalar
<1>3. n <= buf.head
  BY <1>2
<1>4. /\ IsBuffer(buf')
      /\ buf'.head = buf.head - n
      /\ buf'.minalign = buf.minalign
  BY <1>1, <1>2, <1>3, PlaceAddsInFront DEF PlaceScalar
<1>5. room' \in Nat /\ room' <= buf'.head
  BY <1>2, <1>4 DEF PlaceScalar
<1>6. TypeOK'
  BY <1>4, <1>5 DEF PlaceScalar, IInv, TypeOK, IsBuffer, Bytes, BufLen
<1>7. Pending'
  BY DEF PlaceScalar, Pending
<1> QED BY <1>5, <1>6, <1>7 DEF IInv, RoomIsThere

LEMMA StutterPreserves == ASSUME IInv, UNCHANGED vars PROVE IInv'
<1>1. TypeOK'
  BY DEF vars, IInv, TypeOK
<1>2. RoomIsThere'
  BY DEF vars, IInv, RoomIsThere
<1>3. Pending'
  BY DEF vars, IInv, Pending, Padding, Offset, BufLen
<1> QED BY <1>1, <1>2, <1>3 DEF IInv

LEMMA NextPreserves == IInv /\ [Next]_vars => IInv'
<1> SUFFICES ASSUME IInv, [Next]_vars PROVE IInv'
  OBVIOUS
<1>1. ASSUME NEW s \in Sizes, NEW a \in Additional, CallPrep(s, a) PROVE IInv'
  BY <1>1, CallPrepPreserves
<1>2. CASE Grow
  BY <1>2, GrowPreserves
<1>3. CASE PadAndReturn
  BY <1>3, PadAndReturnPreserves
<1>4. ASSUME NEW n \in Sizes, NEW x \in Data, PlaceScalar(n, x) PROVE IInv'
  BY <1>4, PlaceScalarPreserves
<1>5. CASE UNCHANGED vars
  BY <1>5, StutterPreserves
<1> QED BY <1>1, <1>2, <1>3, <1>4, <1>5 DEF Next, Step

(* IInv holds at every round of the loop and after every call.             *)
THEOREM PrepInvariant == Spec => []IInv
<1>1. Init => IInv
  BY InitEstablishes
<1>2. IInv /\ [Next]_vars => IInv'
  BY NextPreserves
<1> QED BY <1>1, <1>2, PTL DEF Spec

(* The bytes promised to Place are in front of the head, at every size of  *)
(* the buffer and whatever is padded and placed (Prep, the Place calls).   *)
THEOREM RoomIsReserved == Spec => [](TypeOK /\ RoomIsThere)
<1>1. IInv => TypeOK /\ RoomIsThere
  BY DEF IInv
<1> QED BY <1>1, PrepInvariant, PTL

-----------------------------------------------------------------------------
(* Alignment.                                                              *)

Aligns ==
    pc = "growing" /\ pc' = "idle" =>
        /\ (Offset(buf') + additionalBytes) % size = 0
        /\ buf'.minalign >= size

LEMMA NextAligns == IInv /\ [Next]_vars => Aligns
<1> SUFFICES ASSUME IInv, [Next]_vars, pc = "growing", pc' = "idle"
             PROVE  /\ (Offset(buf') + additionalBytes) % size = 0
                    /\ buf'.minalign >= size
  BY DEF Aligns
<1>1. PadAndReturn
  BY DEF Next, Step, CallPrep, Grow, PlaceScalar, vars
<1>2. IsBuffer(buf) /\ size \in {1, 2, 4, 8} /\ additionalBytes \in Nat
  BY BufferIsTyped DEF IInv, TypeOK
<1>3. alignSize = Padding(buf, size, additionalBytes) /\ buf.minalign >= size
  BY DEF IInv, Pending
<1>4. (Offset(buf) + alignSize + additionalBytes) % size = 0
  BY <1>2, <1>3, PaddingIsSmall
<1>5. Offset(buf') = Offset(buf) + alignSize /\ buf'.minalign = buf.minalign
  BY <1>1, PadAndReturnPreserves
<1> QED BY <1>3, <1>4, <1>5

(* Whatever the length the buffer has and grows to, what Prep was asked to *)
(* align is aligned when it returns (Prep).                                *)
THEOREM PrepDoesAlign == Spec => PrepAligns
<1>1. IInv /\ [Next]_vars => Aligns
  BY NextAligns
<1>2. [][Aligns]_vars => PrepAligns
  BY PTL DEF PrepAligns, Aligns
<1> QED BY <1>1, <1>2, PrepInvariant, PTL DEF Spec

-----------------------------------------------------------------------------
(* The buffer is a log.                                                    *)

LEMMA InitIsEmptyLog == Init => Log!Init
<1> SUFFICES ASSUME Init PROVE Written(buf) = << >>
  BY DEF Log!Init
<1>1. PICK n \in InitialSizes : buf = NewBuffer(n)
  BY DEF Init
<1>2. n \in Nat
  BY <1>1, SizesAssumption
<1>3. Zeros(n) \in Seq(Bytes) /\ Len(Zeros(n)) = n
  BY <1>2 DEF Zeros, Zero, Bytes
<1>4. buf.bytes = Zeros(n) /\ buf.head = n
  BY <1>1 DEF NewBuffer
<1>5. SubSeq(Zeros(n), n + 1, n) = << >>
  BY <1>2, <1>3
<1> QED BY <1>3, <1>4, <1>5 DEF Written, BufLen

LEMMA NextIsLogStep == IInv /\ [Next]_vars => [Log!Next]_(Written(buf))
<1> SUFFICES ASSUME IInv, [Next]_vars PROVE Log!Next \/ Written(buf') = Written(buf)
  OBVIOUS
<1>1. IsBuffer(buf)
  BY BufferIsTyped DEF IInv
<1>2. Written(buf) \in Seq(Bytes)
  BY <1>1 DEF IsBuffer, Written, BufLen
<1>3. ASSUME NEW s \in Sizes, NEW a \in Additional, CallPrep(s, a)
      PROVE  Written(buf') = Written(buf)
  <2>1. s \in {1, 2, 4, 8}
    BY SizesAssumption
  <2> QED BY <1>1, <1>3, <2>1, TrackingKeepsWritten DEF CallPrep
<1>4. CASE Grow
  BY <1>1, <1>4, GrowthKeepsWritten DEF Grow
<1>5. CASE PadAndReturn
  <2>1. alignSize \in 0..7 /\ alignSize \in Nat
    BY DEF IInv, TypeOK
  <2>2. alignSize <= buf.head
    <3>1. buf.head > needed
      BY <1>5 DEF PadAndReturn
    <3>2. size \in Nat /\ additionalBytes \in Nat
      BY DEF IInv, TypeOK
    <3>3. buf.head \in Nat
      BY <1>1 DEF IsBuffer
    <3> QED BY <2>1, <3>1, <3>2, <3>3 DEF needed
  <2>3. Written(buf') = Scalar(alignSize, 0) \o Written(buf)
    BY <1>1, <1>5, <2>1, <2>2, PlaceAddsInFront DEF PadAndReturn, Pad
  <2>4. CASE alignSize = 0
    <3>1. Scalar(0, 0) \in Seq(Bytes) /\ Len(Scalar(0, 0)) = 0
      BY ScalarBytes
    <3>2. Scalar(0, 0) = << >>
      BY <3>1
    <3> QED BY <1>2, <2>3, <2>4, <3>2
  <2>5. CASE alignSize \in 1..7
    BY <2>3, <2>5 DEF Log!Next, Log!Pad
  <2> QED BY <2>1, <2>4, <2>5
<1>6. ASSUME NEW n \in Sizes, NEW x \in Data, PlaceScalar(n, x)
      PROVE  Log!Next
  <2>1. n \in Nat /\ x \in Int
    BY SizesAssumption, DataAssumption
  <2>2. n <= buf.head
    BY <1>6, <2>1 DEF PlaceScalar, IInv, TypeOK, RoomIsThere
  <2>3. Written(buf') = Scalar(n, x) \o Written(buf)
    BY <1>1, <1>6, <2>1, <2>2, PlaceAddsInFront DEF PlaceScalar
  <2> QED BY <2>3 DEF Log!Next, Log!Add
<1>7. CASE UNCHANGED vars
  BY <1>7 DEF vars
<1> QED BY <1>3, <1>4, <1>5, <1>6, <1>7 DEF Next, Step

(* The buffer that doubles and moves its data, padded and filled from the  *)
(* right, is a log to which scalars are added and from which nothing is    *)
(* lost (growByteBuffer, Prep, the Place calls).                           *)
THEOREM BufferIsLog == Spec => KeepsLog
<1>1. Init => Log!Init
  BY InitIsEmptyLog
<1>2. IInv /\ [Next]_vars => [Log!Next]_(Written(buf))
  BY NextIsLogStep
<1> QED BY <1>1, <1>2, PrepInvariant, PTL DEF Spec, KeepsLog, Log!Spec
=============================================================================
