--------------------------- MODULE FlatBytesProofs ---------------------------
(***************************************************************************)
(* Lemmas about the buffer of FlatBytes: what growth, alignment and the    *)
(* placing of scalars keep and add.                                        *)
(***************************************************************************)
EXTENDS FlatBytes, SequenceTheorems, WellFoundedInduction, TLAPS

Bytes == Int \X Nat

(* A set of numbers has a least element, and a set that holds zero, and    *)
(* with each number the next, holds them all.                              *)
LEMMA LeastNat ==
    ASSUME NEW T, T \subseteq Nat, T # {}
    PROVE  \E x \in T : \A y \in T : x <= y
<1>1. \E x \in T : \A y \in T : ~ (<<y, x>> \in OpToRel(<, Nat))
  BY NatLessThanWellFounded, WFMin
<1>2. \A x \in T, y \in T : <<y, x>> \in OpToRel(<, Nat) <=> y < x
  BY DEF OpToRel
<1>3. PICK x \in T : \A y \in T : ~ (<<y, x>> \in OpToRel(<, Nat))
  BY <1>1
<1>4. \A y \in T : ~(y < x)
  BY <1>2, <1>3
<1> QED BY <1>4

LEMMA UpTo ==
    ASSUME NEW N \in Nat, NEW T, 0 \in T, \A n \in 0..(N - 1) : n \in T => n + 1 \in T
    PROVE  \A n \in 0..N : n \in T
<1> SUFFICES ASSUME NEW n \in 0..N, n \notin T PROVE FALSE
  OBVIOUS
<1> DEFINE missing == {m \in 0..N : m \notin T}
<1>1. missing \subseteq Nat /\ missing # {}
  OBVIOUS
<1>2. PICK m \in missing : \A k \in missing : m <= k
  BY <1>1, LeastNat
<1>3. m # 0 /\ m \in 1..N
  BY <1>2
<1>4. m - 1 \in T
  BY <1>2, <1>3
<1> QED BY <1>2, <1>3, <1>4

(* A scalar is a sequence of its bytes.                                    *)
LEMMA ScalarBytes ==
    ASSUME NEW n \in Nat, NEW x \in Int
    PROVE  Scalar(n, x) \in Seq(Bytes) /\ Len(Scalar(n, x)) = n
<1>1. CASE x = 0
  <2>1. Scalar(n, x) = [i \in 1..n |-> Zero]
    BY <1>1 DEF Scalar, Zeros
  <2> QED BY <2>1 DEF Zero, Bytes
<1>2. CASE x # 0
  <2>1. Scalar(n, x) = [i \in 1..n |-> <<x, i - 1>>]
    BY <1>2 DEF Scalar
  <2> QED BY <2>1 DEF Bytes
<1> QED BY <1>1, <1>2

(* The elements of a concatenation.                                        *)
LEMMA ConcatParts ==
    ASSUME NEW S, NEW a \in Seq(S), NEW b \in Seq(S)
    PROVE  /\ \A k \in 1..Len(a) : (a \o b)[k] = a[k]
           /\ \A k \in 1..Len(b) : (a \o b)[Len(a) + k] = b[k]
  OBVIOUS

(* Those of the end of a sequence.                                         *)
LEMMA EndParts ==
    ASSUME NEW S, NEW q \in Seq(S), NEW m \in Nat, NEW k \in 1..(Len(q) - m)
    PROVE  SubSeq(q, m + 1, Len(q))[k] = q[m + k]
  OBVIOUS

LEMMA EndType ==
    ASSUME NEW S, NEW q \in Seq(S), NEW m \in Nat, m <= Len(q)
    PROVE  SubSeq(q, m + 1, Len(q)) \in Seq(S) /\ Len(SubSeq(q, m + 1, Len(q))) = Len(q) - m
  OBVIOUS

LEMMA MiddleParts ==
    ASSUME NEW S, NEW q \in Seq(S), NEW m \in Nat, NEW n \in Nat, m + n <= Len(q)
    PROVE  /\ SubSeq(q, m + 1, m + n) \in Seq(S)
           /\ Len(SubSeq(q, m + 1, m + n)) = n
           /\ \A k \in 1..n : SubSeq(q, m + 1, m + n)[k] = q[m + k]
  OBVIOUS

(* Writing over a part of a sequence keeps its length, and what stands     *)
(* behind the part.                                                        *)
LEMMA OverKeepsTheRest ==
    ASSUME NEW s \in Seq(Bytes), NEW d \in Seq(Bytes), NEW pos \in Nat,
           pos + Len(d) <= Len(s)
    PROVE  /\ Over(s, pos, d) \in Seq(Bytes)
           /\ Len(Over(s, pos, d)) = Len(s)
           /\ SubSeq(Over(s, pos, d), pos + 1, Len(s))
                = d \o SubSeq(s, pos + Len(d) + 1, Len(s))
<1> DEFINE front == SubSeq(s, 1, pos)
           back == SubSeq(s, pos + Len(d) + 1, Len(s))
           all == (front \o d) \o back
<1>1. Len(d) \in Nat /\ Len(s) \in Nat
  OBVIOUS
<1>2. front \in Seq(Bytes) /\ Len(front) = pos
  BY <1>1
<1>3. back \in Seq(Bytes) /\ Len(back) = Len(s) - pos - Len(d)
  BY <1>1
<1>4. Over(s, pos, d) = all
  BY DEF Over
<1> HIDE DEF front, back
<1>5. front \o d \in Seq(Bytes) /\ Len(front \o d) = pos + Len(d)
  BY <1>2
<1>6. all \in Seq(Bytes) /\ Len(all) = Len(s)
  BY <1>1, <1>3, <1>5
<1> DEFINE l == SubSeq(all, pos + 1, Len(s))
           r == d \o back
<1>7. l \in Seq(Bytes) /\ Len(l) = Len(s) - pos
  <2> HIDE DEF all
  <2>1. pos <= Len(all)
    BY <1>1, <1>6
  <2> QED BY <1>6, <2>1, EndType DEF l
<1>8. r \in Seq(Bytes) /\ Len(r) = Len(s) - pos
  BY <1>1, <1>3
<1>9. ASSUME NEW i \in 1..(Len(s) - pos)
      PROVE  l[i] = r[i]
  <2>1. l[i] = all[pos + i]
    <3> HIDE DEF all, r
    <3>1. i \in 1..(Len(all) - pos)
      BY <1>6
    <3> QED BY <1>6, <3>1, EndParts DEF l
  <2>2. CASE i <= Len(d)
    <3>0. i \in 1..Len(d) /\ pos + i \in 1..Len(front \o d)
      <4>1. i \in Nat /\ i >= 1 /\ Len(front \o d) = pos + Len(d)
        BY <1>1, <1>5
      <4> QED BY <1>1, <2>2, <4>1
    <3>1. all[pos + i] = (front \o d)[pos + i]
      <4> HIDE DEF l, r
      <4> QED BY <1>3, <1>5, <3>0, ConcatParts DEF all
    <3>2. (front \o d)[pos + i] = d[i]
      BY <1>2, <3>0, ConcatParts
    <3>3. r[i] = d[i]
      BY <1>3, <3>0, ConcatParts DEF r
    <3> QED BY <2>1, <3>1, <3>2, <3>3
  <2>3. CASE ~(i <= Len(d))
    <3>1. all[pos + i] = back[i - Len(d)]
      BY <1>1, <1>3, <1>5, <2>3, SMTT(30)
    <3>2. r[i] = back[i - Len(d)]
      BY <1>1, <1>3, <2>3
    <3> QED BY <2>1, <3>1, <3>2
  <2> QED BY <2>2, <2>3
<1> HIDE DEF l, r
<1>10. l = r
  BY <1>1, <1>7, <1>8, <1>9, SeqEqual
<1>11. SubSeq(all, pos + 1, Len(s)) = d \o back
  BY <1>10 DEF l, r
<1> HIDE DEF all
<1>12. SubSeq(Over(s, pos, d), pos + 1, Len(s)) = d \o back
  BY <1>4, <1>11
<1>13. Over(s, pos, d) \in Seq(Bytes) /\ Len(Over(s, pos, d)) = Len(s)
  BY <1>4, <1>6
<1> QED BY <1>12, <1>13 DEF back

(* Doubling a sequence repeats its end at its end.                         *)
LEMMA DoubledKeepsTheEnd ==
    ASSUME NEW s \in Seq(Bytes), NEW h \in 0..Len(s)
    PROVE  SubSeq(s \o s, Len(s) + h + 1, Len(s) + Len(s)) = SubSeq(s, h + 1, Len(s))
<1>1. Len(s) \in Nat /\ h \in Nat /\ h <= Len(s)
  OBVIOUS
<1>2. s \o s \in Seq(Bytes) /\ Len(s \o s) = Len(s) + Len(s)
  OBVIOUS
<1> DEFINE l == SubSeq(s \o s, Len(s) + h + 1, Len(s) + Len(s))
           r == SubSeq(s, h + 1, Len(s))
<1>3. l \in Seq(Bytes) /\ Len(l) = Len(s) - h
  BY <1>1, <1>2
<1>4. r \in Seq(Bytes) /\ Len(r) = Len(s) - h
  BY <1>1
<1>5. ASSUME NEW i \in 1..(Len(s) - h)
      PROVE  l[i] = r[i]
  <2>1. l[i] = (s \o s)[Len(s) + h + i]
    BY <1>1, <1>2
  <2>2. (s \o s)[Len(s) + h + i] = s[h + i]
    BY <1>1, <1>2
  <2>3. r[i] = s[h + i]
    BY <1>1, EndParts
  <2> QED BY <2>1, <2>2, <2>3
<1> HIDE DEF l, r
<1>6. l = r
  BY <1>1, <1>3, <1>4, <1>5, SeqEqual
<1> QED BY <1>6 DEF l, r

(* What Padding adds makes a multiple of the size.                         *)
LEMMA PaddingAligns ==
    ASSUME NEW n \in Nat, NEW s \in {1, 2, 4, 8}
    PROVE  /\ (s - (n % s)) % s \in 0..7
           /\ (n + ((s - (n % s)) % s)) % s = 0
<1>1. CASE s = 1
  BY <1>1
<1>2. CASE s = 2
  BY <1>2
<1>3. CASE s = 4
  BY <1>3
<1>4. CASE s = 8
  BY <1>4
<1> QED BY <1>1, <1>2, <1>3, <1>4

-----------------------------------------------------------------------------
(* The operations on a buffer.                                             *)

IsBuffer(b) ==
    /\ b = [bytes |-> b.bytes, cap |-> b.cap, head |-> b.head, minalign |-> b.minalign]
    /\ b.bytes \in Seq(Bytes)
    /\ b.head \in 0..BufLen(b)
    /\ b.cap \in Nat /\ b.cap >= BufLen(b)
    /\ b.minalign \in {1, 2, 4, 8}

(* What is placed stands in front of what was written.                     *)
LEMMA PlaceAddsInFront ==
    ASSUME NEW b, IsBuffer(b), NEW n \in Nat, n <= b.head, NEW x \in Int
    PROVE  /\ IsBuffer(Place(b, n, x))
           /\ Place(b, n, x).head = b.head - n
           /\ Place(b, n, x).minalign = b.minalign
           /\ Offset(Place(b, n, x)) = Offset(b) + n
           /\ Written(Place(b, n, x)) = Scalar(n, x) \o Written(b)
<1> DEFINE d == Scalar(n, x)
           p == Place(b, n, x)
           over == Over(b.bytes, b.head - n, d)
<1>1. d \in Seq(Bytes) /\ Len(d) = n
  BY ScalarBytes
<1>2. b.bytes \in Seq(Bytes) /\ Len(b.bytes) \in Nat /\ b.head \in Nat /\ b.head <= Len(b.bytes)
  BY DEF IsBuffer, BufLen
<1> HIDE DEF d
<1>3. b.head - n \in Nat /\ (b.head - n) + Len(d) = b.head
  BY <1>1, <1>2
<1>4. /\ over \in Seq(Bytes)
      /\ Len(over) = Len(b.bytes)
      /\ SubSeq(over, (b.head - n) + 1, Len(b.bytes))
           = d \o SubSeq(b.bytes, (b.head - n) + Len(d) + 1, Len(b.bytes))
  BY <1>1, <1>2, <1>3, OverKeepsTheRest
<1>5. p = [bytes |-> over, cap |-> b.cap, head |-> b.head - n, minalign |-> b.minalign]
  <2> HIDE DEF over
  <2>1. p = [b EXCEPT !.head = b.head - n, !.bytes = over]
    BY DEF Place, d, over
  <2>2. b = [bytes |-> b.bytes, cap |-> b.cap, head |-> b.head, minalign |-> b.minalign]
    BY DEF IsBuffer
  <2> HIDE DEF p
  <2> QED BY <1>2, <1>3, <2>1, <2>2
<1> HIDE DEF over, p
<1>6. p.bytes = over /\ p.head = b.head - n /\ p.minalign = b.minalign /\ p.cap = b.cap
  BY <1>5
<1>61. over \in Seq(Bytes) /\ Len(over) = Len(b.bytes)
  BY <1>4
<1>7. IsBuffer(p)
  <2>1. p = [bytes |-> p.bytes, cap |-> p.cap, head |-> p.head, minalign |-> p.minalign]
    BY <1>5, <1>6
  <2>2. p.bytes \in Seq(Bytes) /\ p.head \in 0..BufLen(p)
    BY <1>2, <1>3, <1>6, <1>61 DEF BufLen
  <2>3. p.cap \in Nat /\ p.cap >= BufLen(p) /\ p.minalign \in {1, 2, 4, 8}
    BY <1>6, <1>61 DEF IsBuffer, BufLen
  <2> QED BY <2>1, <2>2, <2>3 DEF IsBuffer
<1>8. Offset(p) = Offset(b) + n
  BY <1>2, <1>3, <1>6, <1>61 DEF Offset, BufLen
<1>9. Written(p) = d \o Written(b)
  BY <1>3, <1>4, <1>6 DEF Written, BufLen
<1> QED BY <1>6, <1>7, <1>8, <1>9 DEF p, d

(* What append allocates suffices.                                         *)
LEMMA CapacitySuffices ==
    ASSUME NEW n \in Nat
    PROVE  Capacity(n) \in Nat /\ Capacity(n) >= n
<1> DEFINE enough == {c \in Capacities : c >= n}
<1>1. enough \subseteq Nat
  BY CapacitiesAssumption
<1>2. CASE enough = {}
  BY <1>2 DEF Capacity
<1>3. CASE enough # {}
  <2>1. \E c \in enough : \A d \in enough : c <= d
    BY <1>1, <1>3, LeastNat
  <2>2. Capacity(n) = CHOOSE c \in enough : \A d \in enough : c <= d
    BY <1>3 DEF Capacity
  <2> HIDE DEF enough
  <2>3. Capacity(n) \in enough
    BY <2>1, <2>2
  <2> QED BY <1>1, <2>3 DEF enough
<1> QED BY <1>2, <1>3

(* A round of growth moves the head with the data.                         *)
LEMMA GrowthKeepsWritten ==
    ASSUME NEW b, IsBuffer(b)
    PROVE  /\ IsBuffer(GrowOnce(b))
           /\ GrowOnce(b).head >= b.head + 1
           /\ GrowOnce(b).minalign = b.minalign
           /\ Offset(GrowOnce(b)) = Offset(b)
           /\ Written(GrowOnce(b)) = Written(b)
<1> DEFINE n == Len(b.bytes)
           g == GrowOnce(b)
           bytes == IF n = 0 THEN Zeros(1) ELSE b.bytes \o b.bytes
           cap == IF b.cap >= NewLen(b) THEN b.cap ELSE Capacity(NewLen(b))
<1>1. b.bytes \in Seq(Bytes) /\ n \in Nat /\ b.head \in 0..n
  BY DEF IsBuffer, BufLen
<1>2. g = [bytes |-> bytes, cap |-> cap, head |-> b.head + Len(bytes) - n, minalign |-> b.minalign]
  <2> DEFINE e == growByteBuffer(b)
  <2>1. b = [bytes |-> b.bytes, cap |-> b.cap, head |-> b.head, minalign |-> b.minalign]
    BY DEF IsBuffer
  <2>2. e = [b EXCEPT !.bytes = bytes, !.cap = cap]
    <3>1. n = 0 => NewLen(b) = 1
      BY DEF NewLen, BufLen
    <3> QED BY <3>1 DEF growByteBuffer, Extended, BufLen
  <2> HIDE DEF e, cap, bytes
  <2>3. e = [bytes |-> bytes, cap |-> cap, head |-> b.head, minalign |-> b.minalign]
    BY <2>1, <2>2
  <2>4. g = [e EXCEPT !.head = e.head + Len(e.bytes) - n]
    BY DEF GrowOnce, BufLen, e
  <2> HIDE DEF g
  <2>5. g = [bytes |-> bytes, cap |-> cap, head |-> b.head + Len(bytes) - n, minalign |-> b.minalign]
    BY <2>3, <2>4
  <2> QED BY <2>5
<1>3. bytes \in Seq(Bytes) /\ Len(bytes) = IF n = 0 THEN 1 ELSE n + n
  <2>1. CASE n = 0
    <3>1. Zeros(1) = <<Zero>> /\ Zero \in Bytes
      BY DEF Zeros, Zero, Bytes
    <3>2. bytes = <<Zero>>
      BY <2>1, <3>1
    <3>3. <<Zero>> \in Seq(Bytes) /\ Len(<<Zero>>) = 1
      BY <3>1
    <3> HIDE DEF bytes
    <3> QED BY <2>1, <3>2, <3>3
  <2>2. CASE n # 0
    BY <1>1, <2>2
  <2> QED BY <2>1, <2>2
<1>4. SubSeq(bytes, (b.head + Len(bytes) - n) + 1, Len(bytes)) = SubSeq(b.bytes, b.head + 1, n)
  <2>1. CASE n = 0
    <3>1. b.bytes = << >> /\ b.head = 0
      BY <1>1, <2>1
    <3>2. SubSeq(Zeros(1), 2, 1) = << >> /\ SubSeq(b.bytes, 1, 0) = << >>
      BY <3>1 DEF Zeros
    <3> QED BY <1>3, <2>1, <3>1, <3>2
  <2>2. CASE n # 0
    <3>1. bytes = b.bytes \o b.bytes /\ Len(bytes) = n + n
      BY <1>3, <2>2
    <3>2. (b.head + (n + n) - n) + 1 = n + b.head + 1
      BY <1>1
    <3>3. SubSeq(b.bytes \o b.bytes, n + b.head + 1, n + n) = SubSeq(b.bytes, b.head + 1, n)
      BY <1>1, DoubledKeepsTheEnd
    <3> QED BY <3>1, <3>2, <3>3
  <2> QED BY <2>1, <2>2
<1>41. cap \in Nat /\ cap >= Len(bytes)
  <2>1. NewLen(b) \in Nat /\ NewLen(b) = Len(bytes)
    BY <1>1, <1>3 DEF NewLen, BufLen
  <2>2. Capacity(NewLen(b)) \in Nat /\ Capacity(NewLen(b)) >= NewLen(b)
    BY <2>1, CapacitySuffices
  <2> QED BY <2>1, <2>2 DEF IsBuffer
<1> HIDE DEF bytes, g, cap
<1>5. g.bytes = bytes /\ g.cap = cap /\ g.head = b.head + Len(bytes) - n /\ g.minalign = b.minalign
  BY <1>2
<1>51. Len(bytes) \in Nat /\ Len(bytes) >= n + 1 /\ bytes \in Seq(Bytes)
  BY <1>1, <1>3
<1>6. IsBuffer(g)
  <2>1. g = [bytes |-> g.bytes, cap |-> g.cap, head |-> g.head, minalign |-> g.minalign]
    BY <1>2, <1>5
  <2>2. g.bytes \in Seq(Bytes) /\ g.head \in 0..BufLen(g)
    BY <1>1, <1>5, <1>51 DEF BufLen
  <2>3. g.minalign \in {1, 2, 4, 8} /\ g.cap \in Nat /\ g.cap >= BufLen(g)
    BY <1>41, <1>5 DEF IsBuffer, BufLen
  <2> QED BY <2>1, <2>2, <2>3 DEF IsBuffer
<1>7. g.head >= b.head + 1
  BY <1>1, <1>5, <1>51
<1>8. Offset(g) = Offset(b)
  BY <1>1, <1>5, <1>51 DEF Offset, BufLen
<1>9. Written(g) = Written(b)
  BY <1>4, <1>5 DEF Written, BufLen
<1> QED BY <1>5, <1>6, <1>7, <1>8, <1>9 DEF g

(* Keeping track of the alignment does nothing else.                       *)
LEMMA TrackingKeepsWritten ==
    ASSUME NEW b, IsBuffer(b), NEW s \in {1, 2, 4, 8}
    PROVE  /\ IsBuffer(TrackAlignment(b, s))
           /\ TrackAlignment(b, s).head = b.head
           /\ TrackAlignment(b, s).minalign >= s
           /\ TrackAlignment(b, s).minalign >= b.minalign
           /\ Offset(TrackAlignment(b, s)) = Offset(b)
           /\ Written(TrackAlignment(b, s)) = Written(b)
<1> DEFINE t == TrackAlignment(b, s)
           m == IF s > b.minalign THEN s ELSE b.minalign
<1>1. t = [bytes |-> b.bytes, cap |-> b.cap, head |-> b.head, minalign |-> m]
  BY DEF IsBuffer, TrackAlignment
<1>2. m \in {1, 2, 4, 8} /\ m >= s /\ m >= b.minalign
  BY DEF IsBuffer
<1> HIDE DEF t, m
<1>3. t.bytes = b.bytes /\ t.cap = b.cap /\ t.head = b.head /\ t.minalign = m
  BY <1>1
<1>4. t = [bytes |-> t.bytes, cap |-> t.cap, head |-> t.head, minalign |-> t.minalign]
  BY <1>1, <1>3
<1>5. IsBuffer(t)
  BY <1>2, <1>3, <1>4 DEF IsBuffer, BufLen
<1> QED BY <1>2, <1>3, <1>5 DEF t, Offset, Written, BufLen

LEMMA PaddingIsSmall ==
    ASSUME NEW b, IsBuffer(b), NEW s \in {1, 2, 4, 8}, NEW a \in Nat
    PROVE  /\ Offset(b) \in Nat
           /\ Padding(b, s, a) \in 0..7
           /\ (Offset(b) + Padding(b, s, a) + a) % s = 0
<1>1. Offset(b) \in Nat
  BY DEF IsBuffer, Offset, BufLen
<1> DEFINE n == Offset(b) + a
           p == Padding(b, s, a)
<1>2. n \in Nat /\ p = (s - (n % s)) % s
  BY <1>1 DEF Padding
<1> HIDE DEF n, p
<1>3. p \in 0..7 /\ (n + p) % s = 0
  BY <1>2, PaddingAligns
<1>4. n + p = Offset(b) + p + a
  BY <1>1, <1>3 DEF n
<1> QED BY <1>1, <1>3, <1>4 DEF p

-----------------------------------------------------------------------------
(* A buffer counted from its end, where offsets count from.                *)

ByteAt(b, k) == b.bytes[BufLen(b) - k + 1]

(* c holds what b does, and perhaps more in front of it.                   *)
Keeps(b, c) ==
    /\ Offset(b) <= Offset(c)
    /\ \A k \in 1..Offset(b) : ByteAt(c, k) = ByteAt(b, k)

(* The n bytes of the scalar x stand at the offset k.                      *)
HasAt(b, k, n, x) ==
    /\ k \in n..Offset(b)
    /\ \A i \in 1..n : ByteAt(b, k - i + 1) = Scalar(n, x)[i]

LEMMA BufferFacts ==
    ASSUME NEW b, IsBuffer(b)
    PROVE  /\ BufLen(b) \in Nat /\ b.head \in Nat /\ Offset(b) \in Nat
           /\ BufLen(b) = b.head + Offset(b)
           /\ b.minalign \in {1, 2, 4, 8}
  BY DEF IsBuffer, BufLen, Offset

(* What is written, byte by byte.                                          *)
LEMMA WrittenBytes ==
    ASSUME NEW b, IsBuffer(b)
    PROVE  /\ Written(b) \in Seq(Bytes)
           /\ Len(Written(b)) = Offset(b)
           /\ \A k \in 1..Offset(b) : Written(b)[Offset(b) - k + 1] = ByteAt(b, k)
<1>1. b.bytes \in Seq(Bytes) /\ b.head \in Nat /\ b.head <= Len(b.bytes)
  BY DEF IsBuffer, BufLen
<1>2. Written(b) \in Seq(Bytes) /\ Len(Written(b)) = Offset(b)
  BY <1>1, EndType DEF Written, BufLen, Offset
<1>3. ASSUME NEW k \in 1..Offset(b)
      PROVE  Written(b)[Offset(b) - k + 1] = ByteAt(b, k)
  <2>1. Offset(b) - k + 1 \in 1..(Len(b.bytes) - b.head)
    BY <1>1, BufferFacts DEF Offset, BufLen
  <2>2. Written(b)[Offset(b) - k + 1] = b.bytes[b.head + (Offset(b) - k + 1)]
    BY <1>1, <2>1, EndParts DEF Written, BufLen
  <2>3. b.head + (Offset(b) - k + 1) = BufLen(b) - k + 1
    BY BufferFacts
  <2> QED BY <2>2, <2>3 DEF ByteAt
<1> QED BY <1>2, <1>3

LEMMA KeepsItself == ASSUME NEW b, IsBuffer(b) PROVE Keeps(b, b)
  BY BufferFacts DEF Keeps

LEMMA KeepsOn ==
    ASSUME NEW b, NEW c, NEW d, IsBuffer(b), IsBuffer(c), IsBuffer(d), Keeps(b, c), Keeps(c, d)
    PROVE  Keeps(b, d)
  BY BufferFacts DEF Keeps

LEMMA HasStill ==
    ASSUME NEW b, NEW c, IsBuffer(b), IsBuffer(c), Keeps(b, c),
           NEW k, NEW n \in Nat, NEW x, HasAt(b, k, n, x)
    PROVE  HasAt(c, k, n, x)
<1>1. k \in n..Offset(b) /\ Offset(b) \in Nat /\ Offset(c) \in Nat /\ Offset(b) <= Offset(c)
  BY BufferFacts DEF HasAt, Keeps
<1>2. ASSUME NEW i \in 1..n PROVE ByteAt(c, k - i + 1) = Scalar(n, x)[i]
  <2>1. k - i + 1 \in 1..Offset(b)
    BY <1>1
  <2> QED BY <2>1 DEF HasAt, Keeps
<1> QED BY <1>1, <1>2 DEF HasAt

(* What stands at an offset is what a reader finds at its position.        *)
LEMMA HeldIsRead ==
    ASSUME NEW b, IsBuffer(b), NEW k, NEW n \in Nat, NEW x \in Int, HasAt(b, k, n, x)
    PROVE  /\ Holds(b, BufLen(b) - k, n, x)
           /\ n > 0 => Get(b, BufLen(b) - k) = x
<1>1. /\ k \in Nat /\ n <= k /\ k <= BufLen(b) /\ BufLen(b) \in Nat
      /\ b.bytes \in Seq(Bytes) /\ Len(b.bytes) = BufLen(b)
  BY BufferFacts DEF HasAt, IsBuffer, BufLen
<1>2. Scalar(n, x) \in Seq(Bytes) /\ Len(Scalar(n, x)) = n
  BY ScalarBytes
<1> DEFINE p == BufLen(b) - k
           l == SubSeq(b.bytes, p + 1, p + n)
<1>3. p \in Nat /\ p + n <= BufLen(b)
  BY <1>1
<1>4. l \in Seq(Bytes) /\ Len(l) = n /\ \A i \in 1..n : l[i] = b.bytes[p + i]
  <2> HIDE DEF p
  <2> QED BY <1>1, <1>3, MiddleParts
<1>5. ASSUME NEW i \in 1..n PROVE l[i] = Scalar(n, x)[i]
  <2>1. BufLen(b) - (k - i + 1) + 1 = p + i
    BY <1>1
  <2>2. ByteAt(b, k - i + 1) = b.bytes[p + i]
    BY <2>1 DEF ByteAt
  <2> QED BY <1>4, <2>2 DEF HasAt
<1> HIDE DEF l
<1>6. l = Scalar(n, x)
  BY <1>2, <1>4, <1>5, SeqEqual
<1>7. Holds(b, p, n, x)
  BY <1>3, <1>6 DEF Holds, l
<1>8. ASSUME n > 0 PROVE Get(b, p) = x
  <2>1. b.bytes[p + 1] = Scalar(n, x)[1]
    <3>1. 1 \in 1..n
      BY <1>8
    <3>2. l[1] = b.bytes[p + 1]
      BY <1>4, <3>1
    <3> QED BY <1>5, <3>1, <3>2
  <2>2. Scalar(n, x)[1][1] = x
    <3>1. 1 \in 1..n
      BY <1>8
    <3> QED BY <3>1 DEF Scalar, Zeros, Zero
  <2> QED BY <2>1, <2>2 DEF Get
<1> QED BY <1>7, <1>8

(* Two buffers, of which the second has d in front.                        *)
LEMMA FrontKeeps ==
    ASSUME NEW b, NEW c, IsBuffer(b), IsBuffer(c),
           NEW d \in Seq(Bytes), Written(c) = d \o Written(b)
    PROVE  /\ Offset(c) = Offset(b) + Len(d)
           /\ Keeps(b, c)
           /\ \A i \in 1..Len(d) : ByteAt(c, Offset(c) - i + 1) = d[i]
<1>1. Offset(b) \in Nat /\ Offset(c) \in Nat /\ Len(d) \in Nat
  BY BufferFacts
<1>2. /\ Written(b) \in Seq(Bytes) /\ Len(Written(b)) = Offset(b)
      /\ Len(Written(c)) = Offset(c)
  BY WrittenBytes
<1>3. Offset(c) = Offset(b) + Len(d)
  <2>1. Len(d \o Written(b)) = Len(d) + Len(Written(b))
    BY <1>2, ConcatProperties, Zenon
  <2> QED BY <1>1, <1>2, <2>1
<1>4. ASSUME NEW k \in 1..Offset(b) PROVE ByteAt(c, k) = ByteAt(b, k)
  <2>0. k \in 1..Offset(c)
    BY <1>1, <1>3
  <2>1. Written(c)[Offset(c) - k + 1] = ByteAt(c, k) /\ Written(b)[Offset(b) - k + 1] = ByteAt(b, k)
    BY <2>0, WrittenBytes, Zenon
  <2>2. Offset(b) - k + 1 \in 1..Len(Written(b)) /\ Offset(c) - k + 1 = Len(d) + (Offset(b) - k + 1)
    BY <1>1, <1>2, <1>3
  <2>3. Written(c)[Len(d) + (Offset(b) - k + 1)] = Written(b)[Offset(b) - k + 1]
    BY <1>2, <2>2, ConcatParts
  <2> QED BY <2>1, <2>2, <2>3
<1>5. ASSUME NEW i \in 1..Len(d) PROVE ByteAt(c, Offset(c) - i + 1) = d[i]
  <2>0. i \in Nat /\ i >= 1 /\ i <= Len(d)
    BY <1>1
  <2>1. Offset(c) - i + 1 \in 1..Offset(c) /\ Offset(c) - (Offset(c) - i + 1) + 1 = i
    BY <1>1, <1>3, <2>0
  <2>2. Written(c)[i] = ByteAt(c, Offset(c) - i + 1)
    BY <2>1, WrittenBytes
  <2>3. Written(c)[i] = d[i]
    BY <1>2, ConcatParts
  <2> QED BY <2>2, <2>3
<1> QED BY <1>1, <1>3, <1>4, <1>5 DEF Keeps

LEMMA SameKeeps ==
    ASSUME NEW b, NEW c, IsBuffer(b), IsBuffer(c), Written(c) = Written(b)
    PROVE  Offset(c) = Offset(b) /\ Keeps(b, c)
<1>1. Offset(c) = Offset(b)
  BY WrittenBytes
<1>2. ASSUME NEW k \in 1..Offset(b) PROVE ByteAt(c, k) = ByteAt(b, k)
  BY <1>1, WrittenBytes
<1> QED BY <1>1, <1>2, BufferFacts DEF Keeps

-----------------------------------------------------------------------------
(* The operations, in these terms.                                         *)

Places(b, c, n, x) ==
    /\ IsBuffer(c) /\ Keeps(b, c)
    /\ Offset(c) = Offset(b) + n
    /\ HasAt(c, Offset(c), n, x)
    /\ c.head = b.head - n
    /\ c.minalign = b.minalign

LEMMA PlacePlaces ==
    ASSUME NEW b, IsBuffer(b), NEW n \in Nat, n <= b.head, NEW x \in Int
    PROVE  Places(b, Place(b, n, x), n, x)
<1> DEFINE c == Place(b, n, x)
           d == Scalar(n, x)
<1>1. /\ IsBuffer(c) /\ c.head = b.head - n /\ c.minalign = b.minalign
      /\ Offset(c) = Offset(b) + n /\ Written(c) = d \o Written(b)
  BY PlaceAddsInFront
<1>2. d \in Seq(Bytes) /\ Len(d) = n
  BY ScalarBytes
<1> HIDE DEF c, d
<1>3. Keeps(b, c) /\ \A i \in 1..n : ByteAt(c, Offset(c) - i + 1) = d[i]
  BY <1>1, <1>2, FrontKeeps
<1>4. HasAt(c, Offset(c), n, x)
  BY <1>1, <1>3, BufferFacts DEF HasAt, d
<1> QED BY <1>1, <1>3, <1>4 DEF Places, c

(* The buffers of the rounds of the loop of Prep are defined.              *)
LEMMA RoundsAreDefined ==
    ASSUME NEW b, NEW N \in Nat
    PROVE  \E g : g = [n \in 0..N |-> IF n = 0 THEN b ELSE GrowOnce(g[n - 1])]
<1> DEFINE upTo(n, g) == g = [m \in 0..n |-> IF m = 0 THEN b ELSE GrowOnce(g[m - 1])]
           T == {n \in 0..N : \E g : upTo(n, g)}
<1>1. 0 \in T
  <2> DEFINE g == [m \in 0..0 |-> b]
  <2>1. g = [m \in 0..0 |-> IF m = 0 THEN b ELSE GrowOnce(g[m - 1])]
    OBVIOUS
  <2>2. upTo(0, g)
    BY <2>1
  <2> HIDE DEF g, upTo
  <2> QED BY <2>2
<1>2. ASSUME NEW n \in 0..(N - 1), n \in T PROVE n + 1 \in T
  <2>1. PICK g : upTo(n, g)
    BY <1>2
  <2> DEFINE h == [m \in 0..(n + 1) |-> IF m = n + 1 THEN GrowOnce(g[n]) ELSE g[m]]
  <2>2. ASSUME NEW m \in 0..(n + 1)
        PROVE  h[m] = IF m = 0 THEN b ELSE GrowOnce(h[m - 1])
    <3>1. CASE m = n + 1
      <4>1. m # 0 /\ m - 1 = n /\ n \in 0..(n + 1) /\ n # n + 1
        BY <3>1
      <4>2. h[m] = GrowOnce(g[n]) /\ h[m - 1] = g[n]
        BY <3>1, <4>1
      <4> QED BY <4>1, <4>2
    <3>2. CASE m # n + 1
      <4>1. m \in 0..n
        BY <3>2
      <4>2. g[m] = IF m = 0 THEN b ELSE GrowOnce(g[m - 1])
        BY <2>1, <4>1
      <4>3. h[m] = g[m]
        BY <3>2
      <4>4. m # 0 => h[m - 1] = g[m - 1]
        BY <4>1
      <4> QED BY <4>2, <4>3, <4>4
    <3> QED BY <3>1, <3>2
  <2>3. upTo(n + 1, h)
    BY <2>2
  <2> HIDE DEF h, upTo
  <2> QED BY <2>3
<1> HIDE DEF T
<1>3. N \in T
  BY <1>1, <1>2, UpTo
<1> QED BY <1>3 DEF T

Grows(b, c) ==
    /\ IsBuffer(c) /\ Written(c) = Written(b)
    /\ c.head >= b.head
    /\ c.minalign = b.minalign

(* The loop makes the room that is needed and keeps all there is.          *)
LEMMA GrownGrows ==
    ASSUME NEW b, IsBuffer(b), NEW need \in Nat
    PROVE  Grows(b, Grown(b, need)) /\ Grown(b, need).head > need
<1> DEFINE N == need + 1
           grown == CHOOSE g : g = [n \in 0..N |-> IF n = 0 THEN b ELSE GrowOnce(g[n - 1])]
           enough(n) == /\ grown[n].head > need
                        /\ \A m \in 0..(n - 1) : grown[m].head <= need
<1>1. grown = [n \in 0..N |-> IF n = 0 THEN b ELSE GrowOnce(grown[n - 1])]
  <2>1. \E g : g = [n \in 0..N |-> IF n = 0 THEN b ELSE GrowOnce(g[n - 1])]
    <3>1. N \in Nat
      OBVIOUS
    <3> HIDE DEF N
    <3> QED BY <3>1, RoundsAreDefined, ZenonT(40)
  <2> QED BY <2>1
<1>2. Grown(b, need) = grown[CHOOSE n \in 0..N : enough(n)]
  BY DEF Grown
<1> HIDE DEF grown
<1>3. grown[0] = b /\ \A n \in 0..(N - 1) : grown[n + 1] = GrowOnce(grown[n])
  <2>1. grown[0] = b
    BY <1>1
  <2>2. ASSUME NEW n \in 0..(N - 1) PROVE grown[n + 1] = GrowOnce(grown[n])
    <3>1. n + 1 \in 0..N /\ n + 1 # 0 /\ (n + 1) - 1 = n
      OBVIOUS
    <3> HIDE DEF N
    <3> QED BY <1>1, <3>1
  <2> QED BY <2>1, <2>2
<1> DEFINE T == {n \in 0..N : Grows(b, grown[n]) /\ grown[n].head >= n}
<1>4. \A n \in 0..N : n \in T
  <2>1. 0 \in T
    BY <1>3, BufferFacts DEF Grows
  <2>2. ASSUME NEW n \in 0..(N - 1), n \in T PROVE n + 1 \in T
    <3>1. IsBuffer(grown[n]) /\ Grows(b, grown[n]) /\ grown[n].head >= n
      BY <2>2 DEF Grows
    <3>2. /\ IsBuffer(grown[n + 1])
          /\ grown[n + 1].head >= grown[n].head + 1
          /\ grown[n + 1].minalign = grown[n].minalign
          /\ Written(grown[n + 1]) = Written(grown[n])
      <4>1. grown[n + 1] = GrowOnce(grown[n])
        BY <1>3
      <4> HIDE DEF T, N
      <4> QED BY <3>1, <4>1, GrowthKeepsWritten
    <3>3. grown[n].head \in Nat /\ grown[n + 1].head \in Nat /\ b.head \in Nat
      BY <3>1, <3>2, BufferFacts
    <3>4. Grows(b, grown[n + 1])
      BY <3>1, <3>2, <3>3 DEF Grows
    <3> QED BY <3>1, <3>2, <3>3, <3>4
  <2>3. N \in Nat
    OBVIOUS
  <2> HIDE DEF T, N
  <2> QED BY <2>1, <2>2, <2>3, UpTo
<1>5. \A n \in 0..N : grown[n].head \in Nat
  BY <1>4, BufferFacts DEF Grows
<1>6. \E n \in 0..N : enough(n)
  <2> DEFINE more == {n \in 0..N : grown[n].head > need}
  <2>1. N \in more
    BY <1>4, <1>5
  <2>2. more \subseteq Nat /\ more # {}
    BY <2>1
  <2>3. PICK x \in more : \A y \in more : x <= y
    <3> HIDE DEF more
    <3> QED BY <2>2, LeastNat
  <2>4. ASSUME NEW m \in 0..(x - 1) PROVE grown[m].head <= need
    <3>1. m \in 0..N /\ m \notin more
      BY <2>3
    <3> QED BY <1>5, <3>1
  <2> QED BY <2>3, <2>4
<1> DEFINE k == CHOOSE n \in 0..N : enough(n)
<1>7. k \in 0..N /\ enough(k)
  <2> HIDE DEF N, enough
  <2> QED BY <1>6
<1> HIDE DEF k
<1>8. Grown(b, need) = grown[k]
  BY <1>2 DEF k
<1> QED BY <1>4, <1>7, <1>8

(* Prep: the padding stands in front of what there was, and in front of it *)
(* is room for what is to follow.                                          *)
Preps(b, c, s, a) ==
    /\ IsBuffer(c) /\ Keeps(b, c)
    /\ Offset(c) = Offset(b) + Padding(b, s, a)
    /\ (Offset(c) + a) % s = 0
    /\ c.head > s + a
    /\ c.head >= b.head - Padding(b, s, a)
    /\ c.minalign >= s /\ c.minalign >= b.minalign

LEMMA PrepPreps ==
    ASSUME NEW b, IsBuffer(b), NEW s \in {1, 2, 4, 8}, NEW a \in Nat
    PROVE  /\ Preps(b, Prep(b, s, a), s, a)
           /\ Prep(b, s, a).minalign = IF s > b.minalign THEN s ELSE b.minalign
<1> DEFINE t == TrackAlignment(b, s)
           p == Padding(b, s, a)
           need == Needs(b, s, a)
           g == Grown(t, need)
           c == Pad(g, p)
<1>1. Prep(b, s, a) = c
  BY DEF Prep
<1>2. p \in 0..7 /\ Offset(b) \in Nat /\ (Offset(b) + p + a) % s = 0
  BY PaddingIsSmall
<1>3. need \in Nat /\ need = p + s + a
  BY <1>2 DEF Needs
<1>4. /\ IsBuffer(t) /\ t.head = b.head /\ t.minalign >= s /\ t.minalign >= b.minalign
      /\ Offset(t) = Offset(b) /\ Written(t) = Written(b)
      /\ t.minalign = IF s > b.minalign THEN s ELSE b.minalign
  <2>1. t.minalign = IF s > b.minalign THEN s ELSE b.minalign
    BY DEF TrackAlignment, IsBuffer
  <2> HIDE DEF t
  <2> QED BY <2>1, TrackingKeepsWritten DEF t
<1> HIDE DEF t, need, p
<1>5. Grows(t, g) /\ g.head > need
  BY <1>3, <1>4, GrownGrows
<1> HIDE DEF g
<1>6. Keeps(b, g) /\ Offset(g) = Offset(b) /\ IsBuffer(g)
  BY <1>4, <1>5, SameKeeps DEF Grows
<1>7. g.head \in Nat /\ b.head \in Nat /\ g.head >= b.head /\ p \in Nat /\ p <= g.head
  BY <1>2, <1>3, <1>4, <1>5, <1>6, BufferFacts DEF Grows
<1>8. Places(g, c, p, 0)
  BY <1>6, <1>7, PlacePlaces DEF Pad
<1> HIDE DEF c
<1>9. IsBuffer(c) /\ Keeps(b, c)
  BY <1>6, <1>8, KeepsOn DEF Places
<1>10. Offset(c) = Offset(b) + p /\ c.head = g.head - p /\ c.minalign = t.minalign
  BY <1>5, <1>6, <1>8 DEF Places, Grows
<1>11. (Offset(c) + a) % s = 0
  BY <1>2, <1>10
<1>12. c.head > s + a /\ c.head >= b.head - p
  BY <1>3, <1>5, <1>7, <1>10
<1>13. Preps(b, c, s, a)
  BY <1>4, <1>9, <1>10, <1>11, <1>12 DEF Preps, p
<1> QED BY <1>1, <1>4, <1>10, <1>13

(* Prepend: the padding, and the scalar on a multiple of its size.         *)
Prepends(b, c, s, x) ==
    /\ IsBuffer(c) /\ Keeps(b, c)
    /\ Offset(c) = Offset(b) + Padding(b, s, 0) + s
    /\ Offset(c) % s = 0
    /\ HasAt(c, Offset(c), s, x)
    /\ c.head >= b.head - Padding(b, s, 0) - s
    /\ c.minalign >= s /\ c.minalign >= b.minalign

LEMMA MultipleAfterPlace ==
    ASSUME NEW s \in {1, 2, 4, 8}, NEW m \in Nat, (m + 0) % s = 0
    PROVE  (m + s) % s = 0
<1>1. CASE s = 1
  BY <1>1
<1>2. CASE s = 2
  BY <1>2
<1>3. CASE s = 4
  BY <1>3
<1>4. CASE s = 8
  BY <1>4
<1> QED BY <1>1, <1>2, <1>3, <1>4

LEMMA PlaceAfterPrep ==
    ASSUME NEW b, IsBuffer(b), NEW s \in {1, 2, 4, 8}, NEW p, Preps(b, p, s, 0),
           NEW c, NEW x, Places(p, c, s, x)
    PROVE  Prepends(b, c, s, x)
<1>1. Offset(b) \in Nat /\ Padding(b, s, 0) \in 0..7
  BY PaddingIsSmall
<1>2. IsBuffer(p) /\ IsBuffer(c) /\ Keeps(b, c)
  BY KeepsOn DEF Preps, Places
<1>3. Offset(p) = Offset(b) + Padding(b, s, 0) /\ Offset(c) = Offset(p) + s /\ (Offset(p) + 0) % s = 0
  BY DEF Preps, Places
<1>4. Offset(c) % s = 0
  BY <1>2, <1>3, BufferFacts, MultipleAfterPlace
<1>5. c.head >= b.head - Padding(b, s, 0) - s
  <2>1. p.head \in Nat /\ b.head \in Nat /\ c.head = p.head - s /\ p.head >= b.head - Padding(b, s, 0)
    BY <1>2, BufferFacts DEF Preps, Places
  <2> QED BY <1>1, <2>1
<1>6. c.minalign >= s /\ c.minalign >= b.minalign /\ HasAt(c, Offset(c), s, x)
  BY DEF Preps, Places
<1> QED BY <1>2, <1>3, <1>4, <1>5, <1>6 DEF Prepends

LEMMA PrependPrepends ==
    ASSUME NEW b, IsBuffer(b), NEW s \in {1, 2, 4, 8}, NEW x \in Int
    PROVE  Prepends(b, Prepend(b, s, x), s, x)
<1> DEFINE p == Prep(b, s, 0)
           c == Place(p, s, x)
<1>1. Preps(b, p, s, 0)
  BY PrepPreps
<1> HIDE DEF p
<1>2. IsBuffer(p) /\ s \in Nat /\ s <= p.head
  BY <1>1, BufferFacts DEF Preps
<1>3. Places(p, c, s, x)
  BY <1>2, PlacePlaces
<1> HIDE DEF c
<1>4. Prepends(b, c, s, x)
  BY <1>1, <1>3, PlaceAfterPrep
<1> QED BY <1>4 DEF Prepend, c, p

(* An offset is relative to where it stands.                               *)
LEMMA PrependUOffsetTPrepends ==
    ASSUME NEW b, IsBuffer(b), NEW off \in 0..Offset(b)
    PROVE  LET c == PrependUOffsetT(b, off) IN Prepends(b, c, SizeUOffsetT, Offset(c) - off)
<1> DEFINE p == Prep(b, 4, 0)
           x == Offset(p) - off + 4
           c == Place(p, 4, x)
<1>1. Preps(b, p, 4, 0)
  BY PrepPreps
<1> HIDE DEF p
<1>2. IsBuffer(p) /\ 4 <= p.head /\ Offset(p) \in Nat /\ off \in Int
  <2>1. IsBuffer(p) /\ p.head > 4 + 0
    BY <1>1 DEF Preps
  <2>2. p.head \in Nat /\ Offset(p) \in Nat /\ Offset(b) \in Nat
    BY <2>1, BufferFacts
  <2> QED BY <2>1, <2>2
<1>3. x \in Int
  BY <1>2
<1> HIDE DEF x
<1>4. Places(p, c, 4, x)
  BY <1>2, <1>3, PlacePlaces
<1>5. c = PrependUOffsetT(b, off)
  BY DEF PrependUOffsetT, SizeUOffsetT, p, x
<1> HIDE DEF c
<1>6. Prepends(b, c, 4, x)
  BY <1>1, <1>4, PlaceAfterPrep
<1>7. x = Offset(c) - off
  BY <1>2, <1>4 DEF Places, x
<1> QED BY <1>5, <1>6, <1>7 DEF SizeUOffsetT

(* Writing over a part changes that part.                                  *)
LEMMA OverElements ==
    ASSUME NEW s \in Seq(Bytes), NEW d \in Seq(Bytes), NEW pos \in Nat,
           pos + Len(d) <= Len(s)
    PROVE  /\ \A i \in 1..pos : Over(s, pos, d)[i] = s[i]
           /\ \A i \in 1..Len(d) : Over(s, pos, d)[pos + i] = d[i]
           /\ \A i \in 1..(Len(s) - (pos + Len(d))) :
                 Over(s, pos, d)[pos + Len(d) + i] = s[pos + Len(d) + i]
<1> DEFINE n == Len(d)
           l == Len(s)
           m == pos + n
           front == SubSeq(s, 1, pos)
           back == SubSeq(s, m + 1, l)
           fd == front \o d
           all == fd \o back
<1>1. n \in Nat /\ l \in Nat /\ m \in Nat /\ m <= l /\ pos <= l
  OBVIOUS
<1>2. front \in Seq(Bytes) /\ Len(front) = pos /\ \A i \in 1..pos : front[i] = s[i]
  <2>1. SubSeq(s, 0 + 1, 0 + pos) = front /\ 0 + pos <= Len(s)
    OBVIOUS
  <2> HIDE DEF front
  <2> QED BY <2>1, MiddleParts
<1>3. back \in Seq(Bytes) /\ \A i \in 1..(l - m) : back[i] = s[m + i]
  <2> HIDE DEF m
  <2> QED BY <1>1, EndType, EndParts
<1>4. Len(back) = l - m
  <2> HIDE DEF m
  <2> QED BY <1>1, EndType
<1>5. Over(s, pos, d) = all
  BY DEF Over
<1> HIDE DEF front, back
<1>6. /\ \A i \in 1..pos : fd[i] = front[i]
      /\ \A i \in 1..n : fd[pos + i] = d[i]
  <2> HIDE DEF fd, n
  <2>1. \A i \in 1..Len(front) : fd[i] = front[i]
    BY <1>2, ConcatParts DEF fd
  <2>2. \A i \in 1..Len(d) : fd[Len(front) + i] = d[i]
    BY <1>2, ConcatParts DEF fd
  <2> QED BY <1>2, <2>1, <2>2 DEF n
<1>7. fd \in Seq(Bytes) /\ Len(fd) = m
  BY <1>2, SMTT(30)
<1> HIDE DEF fd
<1>8. /\ \A i \in 1..m : all[i] = fd[i]
      /\ \A i \in 1..(l - m) : all[m + i] = back[i]
  <2> HIDE DEF m, l, all
  <2>1. \A i \in 1..Len(fd) : all[i] = fd[i]
    BY <1>3, <1>7, ConcatParts DEF all
  <2>2. \A i \in 1..Len(back) : all[Len(fd) + i] = back[i]
    BY <1>3, <1>7, ConcatParts DEF all
  <2> QED BY <1>4, <1>7, <2>1, <2>2
<1> HIDE DEF all
<1>9. \A i \in 1..pos : all[i] = s[i]
  <2>1. \A i \in 1..pos : i \in 1..m
    BY <1>1
  <2> HIDE DEF m
  <2> QED BY <1>2, <1>6, <1>8, <2>1
<1>10. \A i \in 1..n : all[pos + i] = d[i]
  <2>1. \A i \in 1..n : pos + i \in 1..m
    BY <1>1
  <2> HIDE DEF m, n
  <2> QED BY <1>6, <1>8, <2>1
<1>11. \A i \in 1..(l - m) : all[m + i] = s[m + i]
  <2> HIDE DEF m, l
  <2> QED BY <1>3, <1>8
<1> QED BY <1>5, <1>9, <1>10, <1>11

Overwrites(b, c, k, n, x) ==
    /\ IsBuffer(c) /\ Offset(c) = Offset(b)
    /\ c.head = b.head /\ c.minalign = b.minalign
    /\ HasAt(c, k, n, x)
    /\ \A j \in 1..Offset(b) : j \notin (k - n + 1)..k => ByteAt(c, j) = ByteAt(b, j)

LEMMA OverwriteOverwrites ==
    ASSUME NEW b, IsBuffer(b), NEW n \in Nat, NEW k \in n..Offset(b), NEW x \in Int
    PROVE  Overwrites(b, Overwrite(b, BufLen(b) - k, n, x), k, n, x)
<1> DEFINE d == Scalar(n, x)
<1>1. d \in Seq(Bytes) /\ Len(d) = n
  BY ScalarBytes
<1>2. PICK l \in Nat, o \in Nat :
         /\ BufLen(b) = l /\ Offset(b) = o /\ o <= l
         /\ b.bytes \in Seq(Bytes) /\ Len(b.bytes) = l
  <2>1. b.bytes \in Seq(Bytes) /\ Len(b.bytes) = BufLen(b)
    BY DEF IsBuffer, BufLen
  <2> QED BY <2>1, BufferFacts
<1> DEFINE pos == l - k
           over == Over(b.bytes, pos, d)
           c == Overwrite(b, pos, n, x)
<1>3. k \in n..o /\ pos \in Nat /\ pos + n <= l
  BY <1>2
<1>4. c = [bytes |-> over, cap |-> b.cap, head |-> b.head, minalign |-> b.minalign]
  <2>1. b = [bytes |-> b.bytes, cap |-> b.cap, head |-> b.head, minalign |-> b.minalign]
    BY DEF IsBuffer
  <2>2. c = [b EXCEPT !.bytes = over]
    BY DEF Overwrite
  <2> HIDE DEF c, over
  <2> QED BY <2>1, <2>2
<1> HIDE DEF d
<1>5. over \in Seq(Bytes) /\ Len(over) = l
  <2> HIDE DEF pos
  <2> QED BY <1>1, <1>2, <1>3, OverKeepsTheRest
<1>6. /\ \A i \in 1..pos : over[i] = b.bytes[i]
      /\ \A i \in 1..n : over[pos + i] = d[i]
      /\ \A i \in 1..(l - (pos + n)) : over[pos + n + i] = b.bytes[pos + n + i]
  <2> HIDE DEF pos
  <2>1. pos + Len(d) <= Len(b.bytes)
    BY <1>1, <1>2, <1>3
  <2>2. /\ \A i \in 1..pos : over[i] = b.bytes[i]
        /\ \A i \in 1..Len(d) : over[pos + i] = d[i]
        /\ \A i \in 1..(Len(b.bytes) - (pos + Len(d))) :
              over[pos + Len(d) + i] = b.bytes[pos + Len(d) + i]
    <3>1. pos \in Nat /\ d \in Seq(Bytes) /\ b.bytes \in Seq(Bytes)
      BY <1>1, <1>2, <1>3
    <3> QED BY <2>1, <3>1, OverElements, Zenon
  <2> HIDE DEF over
  <2> QED BY <1>1, <1>2, <2>2
<1> HIDE DEF over, c
<1>7. c.bytes = over /\ c.cap = b.cap /\ c.head = b.head /\ c.minalign = b.minalign
  BY <1>4
<1>8. IsBuffer(c)
  <2>1. c = [bytes |-> c.bytes, cap |-> c.cap, head |-> c.head, minalign |-> c.minalign]
    BY <1>4, <1>7
  <2> QED BY <1>2, <1>5, <1>7, <2>1 DEF IsBuffer, BufLen
<1>9. Offset(c) = o /\ BufLen(c) = l
  BY <1>2, <1>5, <1>7 DEF Offset, BufLen
<1>10. \A j \in 1..o : ByteAt(c, j) = over[l - j + 1] /\ ByteAt(b, j) = b.bytes[l - j + 1]
  BY <1>2, <1>7, <1>9 DEF ByteAt
<1>11. ASSUME NEW j \in 1..o, j \notin (k - n + 1)..k
       PROVE  ByteAt(c, j) = ByteAt(b, j)
  <2>1. CASE j > k
    <3>1. l - j + 1 \in 1..pos
      BY <1>2, <1>3, <2>1
    <3> QED BY <1>6, <1>10, <3>1
  <2>2. CASE j < k - n + 1
    <3>1. l - j + 1 - (pos + n) \in 1..(l - (pos + n)) /\ pos + n + (l - j + 1 - (pos + n)) = l - j + 1
      BY <1>2, <1>3, <2>2
    <3> HIDE DEF pos
    <3> QED BY <1>6, <1>10, <3>1
  <2> QED BY <1>3, <1>11, <2>1, <2>2
<1>12. HasAt(c, k, n, x)
  <2>1. ASSUME NEW i \in 1..n PROVE ByteAt(c, k - i + 1) = d[i]
    <3>1. k - i + 1 \in 1..o /\ l - (k - i + 1) + 1 = pos + i
      BY <1>2, <1>3
    <3> HIDE DEF pos
    <3> QED BY <1>6, <1>10, <3>1
  <2> QED BY <1>3, <1>9, <2>1 DEF HasAt, d
<1>13. Overwrites(b, c, k, n, x)
  BY <1>2, <1>7, <1>8, <1>9, <1>11, <1>12 DEF Overwrites
<1>14. c = Overwrite(b, BufLen(b) - k, n, x)
  BY <1>2 DEF c
<1> QED BY <1>13, <1>14

(* Buffers with nothing in them.                                           *)
LEMMA ZerosAreBytes ==
    ASSUME NEW n \in Nat
    PROVE  Zeros(n) \in Seq(Bytes) /\ Len(Zeros(n)) = n
  BY DEF Zeros, Zero, Bytes

LEMMA NewIsEmpty ==
    ASSUME NEW n \in Nat
    PROVE  IsBuffer(NewBuffer(n)) /\ Offset(NewBuffer(n)) = 0
<1>1. NewBuffer(n) = [bytes |-> Zeros(n), cap |-> n, head |-> n, minalign |-> 1]
  BY DEF NewBuffer
<1>2. Zeros(n) \in Seq(Bytes) /\ Len(Zeros(n)) = n
  BY ZerosAreBytes
<1> QED BY <1>1, <1>2 DEF IsBuffer, Offset, BufLen

LEMMA ResetIsEmpty ==
    ASSUME NEW b, IsBuffer(b)
    PROVE  IsBuffer(ResetBuffer(b)) /\ Offset(ResetBuffer(b)) = 0
<1> DEFINE c == ResetBuffer(b)
           z == Zeros(b.cap - BufLen(b))
           bytes == b.bytes \o z
<1>1. b.bytes \in Seq(Bytes) /\ BufLen(b) = Len(b.bytes) /\ b.cap \in Nat /\ b.cap - BufLen(b) \in Nat
  BY BufferFacts DEF IsBuffer, BufLen
<1>2. z \in Seq(Bytes) /\ Len(z) = b.cap - BufLen(b)
  BY <1>1, ZerosAreBytes
<1>3. c = [bytes |-> bytes, cap |-> b.cap, head |-> b.cap, minalign |-> 1]
  <2>1. b = [bytes |-> b.bytes, cap |-> b.cap, head |-> b.head, minalign |-> b.minalign]
    BY DEF IsBuffer
  <2>2. c = [b EXCEPT !.head = b.cap, !.minalign = 1, !.bytes = bytes]
    BY DEF ResetBuffer
  <2> HIDE DEF c, bytes
  <2> QED BY <2>1, <2>2
<1> HIDE DEF z
<1>4. bytes \in Seq(Bytes) /\ Len(bytes) = b.cap
  <2>1. Len(bytes) = Len(b.bytes) + Len(z) /\ bytes \in Seq(Bytes)
    BY <1>1, <1>2, ConcatProperties, Zenon
  <2> HIDE DEF bytes
  <2> QED BY <1>1, <1>2, <2>1
<1> HIDE DEF bytes, c
<1>5. IsBuffer(c) /\ Offset(c) = 0
  BY <1>1, <1>3, <1>4 DEF IsBuffer, Offset, BufLen
<1> QED BY <1>5 DEF c

(* What is kept is a suffix.                                               *)
LEMMA KeptIsSuffix ==
    ASSUME NEW b, NEW c, IsBuffer(b), IsBuffer(c), Keeps(b, c)
    PROVE  IsSuffix(Written(b), Written(c))
<1> DEFINE v == Reverse(Written(b))
           w == Reverse(Written(c))
<1>1. Offset(b) \in Nat /\ Offset(c) \in Nat /\ Offset(b) <= Offset(c)
  BY BufferFacts DEF Keeps
<1>2. ASSUME NEW d, IsBuffer(d)
      PROVE  /\ Reverse(Written(d)) \in Seq(Bytes) /\ Len(Reverse(Written(d))) = Offset(d)
             /\ \A k \in 1..Offset(d) : Reverse(Written(d))[k] = ByteAt(d, k)
  <2>1. Written(d) \in Seq(Bytes) /\ Len(Written(d)) = Offset(d) /\ Offset(d) \in Nat
    BY <1>2, WrittenBytes, BufferFacts
  <2>2. Reverse(Written(d)) = [k \in 1..Offset(d) |-> Written(d)[(Offset(d) - k) + 1]]
    BY <2>1 DEF Reverse
  <2>3. \A k \in 1..Offset(d) : Written(d)[(Offset(d) - k) + 1] \in Bytes
    BY <2>1
  <2>4. \A k \in 1..Offset(d) : Written(d)[(Offset(d) - k) + 1] = ByteAt(d, k)
    BY <1>2, WrittenBytes
  <2> QED BY <2>1, <2>2, <2>3, <2>4
<1>3. v \in Seq(Bytes) /\ Len(v) = Offset(b) /\ \A k \in 1..Offset(b) : v[k] = ByteAt(b, k)
  BY <1>2
<1>4. w \in Seq(Bytes) /\ Len(w) = Offset(c) /\ \A k \in 1..Offset(c) : w[k] = ByteAt(c, k)
  BY <1>2
<1>5. \A k \in 1..Offset(b) : v[k] = w[k]
  BY <1>1, <1>3, <1>4 DEF Keeps
<1> HIDE DEF v, w
<1>6. SubSeq(v, 0 + 1, 0 + Len(v)) = SubSeq(w, 0 + 1, 0 + Len(v))
  <2> DEFINE p == SubSeq(v, 0 + 1, 0 + Len(v))
             q == SubSeq(w, 0 + 1, 0 + Len(v))
  <2>1. p \in Seq(Bytes) /\ Len(p) = Len(v) /\ \A k \in 1..Len(v) : p[k] = v[0 + k]
    BY <1>1, <1>3, MiddleParts
  <2>2. q \in Seq(Bytes) /\ Len(q) = Len(v) /\ \A k \in 1..Len(v) : q[k] = w[0 + k]
    BY <1>1, <1>3, <1>4, MiddleParts
  <2> HIDE DEF p, q
  <2>3. \A k \in 1..Len(p) : p[k] = q[k]
    BY <1>3, <1>5, <2>1, <2>2
  <2>4. p = q
    BY <2>1, <2>2, <2>3, SeqEqual
  <2> QED BY <2>4 DEF p, q
<1>7. SubSeq(v, 1, Len(v)) = SubSeq(w, 1, Len(v)) /\ Len(v) <= Len(w)
  BY <1>1, <1>3, <1>4, <1>6
<1> QED BY <1>7 DEF IsSuffix, IsPrefix, v, w
=============================================================================
