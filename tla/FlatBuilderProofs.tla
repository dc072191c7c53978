--------------------------- MODULE FlatBuilderProofs ---------------------------
(***************************************************************************)
(* Proofs about FlatBuilder: everything a client makes stays in the        *)
(* buffer as it was made, and reads back, at every size of the buffer.     *)
(***************************************************************************)
EXTENDS FlatBuilder, FlatBytesProofs

(* The inductive invariant, in offsets.                                    *)

(* The number that starts at the offset k.                                 *)
NumAt(b, k) == ByteAt(b, k)[1]

(* The field o of an object stands at the offset k, as f was set.          *)
FieldAt(b, k, o, f) ==
    /\ k \in 1..Offset(b) /\ k % Alignment(o) = 0
    /\ f.value \in Int /\ f.target \in Int
    /\ IF f.target = 0 THEN HasAt(b, k, FieldSize[o + 1], f.value)
       ELSE HasAt(b, k, SizeUOffsetT, k - f.target)

(* The vtable at the offset vt leads to the fields of t, and to no others. *)
FieldsAt(b, vt, t) ==
    \A o \in Fields :
        IF o \in DOMAIN t.fields
        THEN /\ SlotOf(o) < NumAt(b, vt)
             /\ NumAt(b, vt - SlotOf(o)) # 0
             /\ FieldAt(b, t.at - NumAt(b, vt - SlotOf(o)), o, t.fields[o])
        ELSE SlotOf(o) < NumAt(b, vt) => NumAt(b, vt - SlotOf(o)) = 0

TableAt(b, vts, t) ==
    /\ DOMAIN t.fields \subseteq Fields
    /\ \E j \in DOMAIN vts :
          HasAt(b, t.at, SizeSOffsetT, vts[j] - t.at) /\ FieldsAt(b, vts[j], t)

VectorAt(b, v) ==
    /\ v.size \in {1, 2, 4, 8} /\ v.alignment \in {1, 2, 4, 8} /\ v.elems \in Seq(Int)
    /\ HasAt(b, v.at, SizeUOffsetT, Len(v.elems))
    /\ v.at % SizeUOffsetT = 0
    /\ (v.at - SizeUOffsetT) % v.alignment = 0
    /\ \A i \in 1..Len(v.elems) :
          HasAt(b, v.at - SizeUOffsetT - (i - 1) * v.size, v.size, v.elems[i])

TextAt(b, s) ==
    /\ s.text \in Texts
    /\ HasAt(b, s.at, SizeUOffsetT, TextLen[s.text])
    /\ s.at % SizeUOffsetT = 0
    /\ HasAt(b, s.at - SizeUOffsetT, TextLen[s.text], s.text)
    /\ s.kind = "string" => HasAt(b, s.at - SizeUOffsetT - TextLen[s.text], SizeByte, 0)

RootAt(m) == m.at - (IF m.prefixed THEN sizePrefixLength ELSE 0)
BufferAt(b, m) ==
    /\ m.root \in Nat /\ m.identifier \in Nat /\ m.prefixed \in BOOLEAN
    /\ m.prefixed => HasAt(b, m.at, SizeUint32, m.at - sizePrefixLength)
    /\ HasAt(b, RootAt(m), SizeUOffsetT, RootAt(m) - m.root)
    /\ m.identifier # 0 =>
          HasAt(b, RootAt(m) - SizeUOffsetT, fileIdentifierLength, m.identifier)

MadeAt(b, vts, m) ==
    /\ m.at \in SizeUOffsetT..Offset(b)
    /\ \/ m.kind = "table" /\ TableAt(b, vts, m)
       \/ m.kind = "vector" /\ VectorAt(b, m)
       \/ m.kind \in {"string", "bytes"} /\ TextAt(b, m)
       \/ m.kind = "buffer" /\ BufferAt(b, m)

(* The buffer knows how far what is in it has to be aligned.               *)
Tracked(b, m) ==
    /\ m.kind = "table" => /\ b.minalign >= SizeUOffsetT
                           /\ \A o \in DOMAIN m.fields : b.minalign >= Alignment(o)
    /\ m.kind = "vector" => b.minalign >= m.alignment

AllMade(b, vts, things) == \A m \in things : MadeAt(b, vts, m) /\ Tracked(b, m)

(* A vtable is within the buffer; its entries are less than its offset,    *)
(* so that it cannot lead an object written later beyond its beginning.    *)
IsVtable(b, vt) ==
    /\ vt \in Nat /\ vt <= Offset(b)
    /\ \E n \in 0..Len(FieldSize) :
          /\ NumAt(b, vt) = (n + VtableMetadataFields) * SizeVOffsetT
          /\ (n + VtableMetadataFields) * SizeVOffsetT <= vt
          /\ \A i \in 1..n : NumAt(b, vt - (i + 1) * SizeVOffsetT) \in 0..(vt - 1)

Differ(b, vt, vu) ==
    \/ NumAt(b, vt) # NumAt(b, vu)
    \/ \E k \in 2..(NumAt(b, vt) \div 2 - 1) : NumAt(b, vt - 2 * k) # NumAt(b, vu - 2 * k)

VtablesAt(b, vts) ==
    /\ vts \in Seq(Nat)
    /\ \A i \in DOMAIN vts : IsVtable(b, vts[i])
    /\ \A i, j \in DOMAIN vts : i # j => Differ(b, vts[i], vts[j])

(* A finished buffer is aligned for everything in it.                      *)
AlignedFor(m, t) ==
    /\ t.kind = "table" => \A o \in DOMAIN t.fields : m.at % Alignment(o) = 0
    /\ t.kind = "vector" => m.at % t.alignment = 0
InLine(things) ==
    \A m \in things : m.kind = "buffer" => \A t \in things : t.at < m.at => AlignedFor(m, t)

(* The object that is open: its fields are where its vtable says.          *)
OpenObject ==
    /\ open = [kind |-> "object", fields |-> open.fields]
    /\ DOMAIN open.fields \subseteq Fields
    /\ Len(vtable) = Len(FieldSize) /\ vtable \in Seq(Nat)
    /\ objectEnd <= Offset(buf)
    /\ \A o \in Fields :
          IF o \in DOMAIN open.fields
          THEN /\ vtable[o + 1] > objectEnd
               /\ FieldAt(buf, vtable[o + 1], o, open.fields[o])
               /\ buf.minalign >= Alignment(o)
          ELSE vtable[o + 1] = 0

(* The vector that is open: there is room for its other elements and its   *)
(* length, which will then be aligned.                                     *)
Remaining == (open.vector.num - Len(open.elems)) * open.vector.size
OpenVector ==
    /\ open = [kind |-> "vector", vector |-> open.vector, elems |-> open.elems]
    /\ open.vector \in Vectors /\ open.elems \in Seq(Values)
    /\ Len(open.elems) <= open.vector.num
    /\ buf.head >= Remaining + SizeUOffsetT
    /\ (Offset(buf) + Remaining) % SizeUOffsetT = 0
    /\ (Offset(buf) + Remaining) % open.vector.alignment = 0
    /\ buf.minalign >= open.vector.alignment
    /\ \A i \in 1..Len(open.elems) :
          HasAt(buf, Offset(buf) - (i - 1) * open.vector.size, open.vector.size, open.elems[i])

OpenInv ==
    /\ open.kind \in {"nothing", "spoiled", "object", "vector"}
    /\ nested \in BOOLEAN /\ (nested <=> open.kind # "nothing")
    /\ open.kind # "object" => vtable = <<>>
    /\ open.kind = "object" => OpenObject
    /\ open.kind = "vector" => OpenVector

SharedInv == DOMAIN sharedStrings \subseteq Texts /\ SharedStringsAreThere

(* All that is finished.                                                   *)
Contents ==
    /\ VtablesAt(buf, vtables)
    /\ AllMade(buf, vtables, made)
    /\ InLine(made)

IInv ==
    /\ IsBuffer(buf)
    /\ objectEnd \in Nat /\ finished \in BOOLEAN
    /\ Contents
    /\ OpenInv
    /\ SharedInv

-----------------------------------------------------------------------------
(* What stands in a buffer stands in one that keeps it.                    *)

LEMMA HasNum ==
    ASSUME NEW b, IsBuffer(b), NEW k, NEW n \in Nat \ {0}, NEW x \in Int, HasAt(b, k, n, x)
    PROVE  NumAt(b, k) = x
<1>1. Get(b, BufLen(b) - k) = x
  BY HeldIsRead
<1> QED BY <1>1 DEF Get, NumAt, ByteAt

LEMMA NumStill ==
    ASSUME NEW b, NEW c, Keeps(b, c), NEW k \in 1..Offset(b)
    PROVE  NumAt(c, k) = NumAt(b, k)
  BY DEF Keeps, NumAt

LEMMA SizesAreNumbers ==
    ASSUME NEW o \in Fields
    PROVE  FieldSize[o + 1] \in Nat \ {0} /\ Alignment(o) \in {1, 2, 4, 8}
<1>1. o + 1 \in DOMAIN FieldSize /\ FieldSize[o + 1] \in Nat \ {0}
  BY SizesAssumption DEF Fields
<1> QED BY <1>1, SizesAssumption DEF Alignment

LEMMA FieldStill ==
    ASSUME NEW b, NEW c, IsBuffer(b), IsBuffer(c), Keeps(b, c),
           NEW o \in Fields, NEW k, NEW f, FieldAt(b, k, o, f)
    PROVE  FieldAt(c, k, o, f)
<1>1. k \in 1..Offset(c)
  BY BufferFacts DEF FieldAt, Keeps
<1>2. FieldSize[o + 1] \in Nat
  BY SizesAreNumbers
<1>3. CASE f.target = 0
  <2>1. HasAt(b, k, FieldSize[o + 1], f.value)
    BY <1>3 DEF FieldAt
  <2>2. HasAt(c, k, FieldSize[o + 1], f.value)
    BY <1>2, <2>1, HasStill
  <2> QED BY <1>1, <1>3, <2>2 DEF FieldAt
<1>4. CASE f.target # 0
  <2>1. HasAt(b, k, SizeUOffsetT, k - f.target)
    BY <1>4 DEF FieldAt
  <2>2. HasAt(c, k, SizeUOffsetT, k - f.target)
    BY <2>1, HasStill DEF SizeUOffsetT
  <2> QED BY <1>1, <1>4, <2>2 DEF FieldAt
<1> QED BY <1>3, <1>4

(* The parts of a vtable are within the buffer.                            *)
LEMMA VtableParts ==
    ASSUME NEW b, IsBuffer(b), NEW vt, IsVtable(b, vt)
    PROVE  /\ vt \in 1..Offset(b) /\ NumAt(b, vt) \in Nat
           /\ \A k \in 2..(NumAt(b, vt) \div 2 - 1) : vt - 2 * k \in 1..Offset(b)
           /\ \A o \in Fields : SlotOf(o) < NumAt(b, vt) =>
                 /\ vt - SlotOf(o) \in 1..Offset(b)
                 /\ NumAt(b, vt - SlotOf(o)) \in 0..(vt - 1)
<1>1. Offset(b) \in Nat /\ vt \in Nat /\ vt <= Offset(b)
  BY BufferFacts DEF IsVtable
<1>2. PICK n \in 0..Len(FieldSize) :
         /\ NumAt(b, vt) = (n + 2) * 2 /\ (n + 2) * 2 <= vt
         /\ \A i \in 1..n : NumAt(b, vt - (i + 1) * 2) \in 0..(vt - 1)
  BY DEF IsVtable, VtableMetadataFields, SizeVOffsetT
<1>3. n \in Nat
  BY SizesAssumption
<1>4. vt \in 1..Offset(b) /\ NumAt(b, vt) \in Nat
  BY <1>1, <1>2, <1>3
<1>5. ASSUME NEW k \in 2..(NumAt(b, vt) \div 2 - 1) PROVE vt - 2 * k \in 1..Offset(b)
  <2>1. NumAt(b, vt) \div 2 - 1 = n + 1
    BY <1>2, <1>3
  <2>2. k \in 2..(n + 1)
    BY <2>1
  <2> QED BY <1>1, <1>2, <1>3, <2>2
<1>6. ASSUME NEW o \in Fields, SlotOf(o) < NumAt(b, vt)
      PROVE  /\ vt - SlotOf(o) \in 1..Offset(b)
             /\ NumAt(b, vt - SlotOf(o)) \in 0..(vt - 1)
  <2>1. SlotOf(o) = (o + 2) * 2 /\ o \in Nat
    BY SizesAssumption DEF SlotOf, VtableMetadataFields, SizeVOffsetT, Fields
  <2>2. o + 1 \in 1..n /\ vt - SlotOf(o) = vt - ((o + 1) + 1) * 2
    BY <1>1, <1>2, <1>3, <1>6, <2>1
  <2>3. NumAt(b, vt - SlotOf(o)) \in 0..(vt - 1)
    BY <1>2, <2>2
  <2>4. vt - SlotOf(o) \in 1..Offset(b)
    BY <1>1, <1>2, <1>3, <2>1, <2>2
  <2> QED BY <2>3, <2>4
<1> QED BY <1>4, <1>5, <1>6

LEMMA VtableStill ==
    ASSUME NEW b, NEW c, IsBuffer(b), IsBuffer(c), Keeps(b, c), NEW vt, IsVtable(b, vt)
    PROVE  IsVtable(c, vt)
<1>1. vt \in 1..Offset(b) /\ Offset(b) \in Nat /\ Offset(c) \in Nat /\ Offset(b) <= Offset(c)
  BY VtableParts, BufferFacts DEF Keeps
<1>2. PICK n \in 0..Len(FieldSize) :
         /\ NumAt(b, vt) = (n + 2) * 2 /\ (n + 2) * 2 <= vt
         /\ \A i \in 1..n : NumAt(b, vt - (i + 1) * 2) \in 0..(vt - 1)
  BY DEF IsVtable, VtableMetadataFields, SizeVOffsetT
<1>3. n \in Nat
  BY SizesAssumption
<1>4. NumAt(c, vt) = (n + 2) * 2
  BY <1>1, <1>2, NumStill
<1>5. ASSUME NEW i \in 1..n PROVE NumAt(c, vt - (i + 1) * 2) \in 0..(vt - 1)
  <2>1. vt - (i + 1) * 2 \in 1..Offset(b)
    BY <1>1, <1>2, <1>3
  <2> QED BY <1>2, <2>1, NumStill
<1> QED BY <1>1, <1>2, <1>4, <1>5 DEF IsVtable, VtableMetadataFields, SizeVOffsetT

LEMMA DifferStill ==
    ASSUME NEW b, NEW c, IsBuffer(b), IsBuffer(c), Keeps(b, c),
           NEW vt, IsVtable(b, vt), NEW vu, IsVtable(b, vu), Differ(b, vt, vu)
    PROVE  Differ(c, vt, vu)
<1>1. /\ vt \in 1..Offset(b) /\ vu \in 1..Offset(b)
      /\ \A k \in 2..(NumAt(b, vt) \div 2 - 1) : vt - 2 * k \in 1..Offset(b)
      /\ \A k \in 2..(NumAt(b, vu) \div 2 - 1) : vu - 2 * k \in 1..Offset(b)
  BY VtableParts
<1>2. NumAt(c, vt) = NumAt(b, vt) /\ NumAt(c, vu) = NumAt(b, vu)
  BY <1>1, NumStill
<1>3. CASE NumAt(b, vt) # NumAt(b, vu)
  BY <1>2, <1>3 DEF Differ
<1>4. CASE NumAt(b, vt) = NumAt(b, vu)
  <2>1. PICK k \in 2..(NumAt(b, vt) \div 2 - 1) : NumAt(b, vt - 2 * k) # NumAt(b, vu - 2 * k)
    BY <1>4 DEF Differ
  <2>2. NumAt(c, vt - 2 * k) = NumAt(b, vt - 2 * k) /\ NumAt(c, vu - 2 * k) = NumAt(b, vu - 2 * k)
    BY <1>1, <1>4, NumStill
  <2> QED BY <1>2, <2>1, <2>2 DEF Differ
<1> QED BY <1>3, <1>4

LEMMA VtablesStill ==
    ASSUME NEW b, NEW c, IsBuffer(b), IsBuffer(c), Keeps(b, c), NEW vts, VtablesAt(b, vts)
    PROVE  VtablesAt(c, vts)
  BY VtableStill, DifferStill DEF VtablesAt

LEMMA FieldsStill ==
    ASSUME NEW b, NEW c, IsBuffer(b), IsBuffer(c), Keeps(b, c),
           NEW vt, IsVtable(b, vt), NEW t, FieldsAt(b, vt, t)
    PROVE  FieldsAt(c, vt, t)
<1>1. NumAt(c, vt) = NumAt(b, vt)
  BY VtableParts, NumStill
<1>2. \A o \in Fields : SlotOf(o) < NumAt(b, vt) =>
         NumAt(c, vt - SlotOf(o)) = NumAt(b, vt - SlotOf(o))
  BY VtableParts, NumStill
<1>3. ASSUME NEW o \in Fields, o \in DOMAIN t.fields
      PROVE  /\ SlotOf(o) < NumAt(c, vt)
             /\ NumAt(c, vt - SlotOf(o)) # 0
             /\ FieldAt(c, t.at - NumAt(c, vt - SlotOf(o)), o, t.fields[o])
  <2>1. /\ SlotOf(o) < NumAt(b, vt)
        /\ NumAt(b, vt - SlotOf(o)) # 0
        /\ FieldAt(b, t.at - NumAt(b, vt - SlotOf(o)), o, t.fields[o])
    BY <1>3 DEF FieldsAt
  <2>2. FieldAt(c, t.at - NumAt(b, vt - SlotOf(o)), o, t.fields[o])
    BY <2>1, FieldStill
  <2> QED BY <1>1, <1>2, <2>1, <2>2
<1>4. ASSUME NEW o \in Fields, o \notin DOMAIN t.fields, SlotOf(o) < NumAt(c, vt)
      PROVE  NumAt(c, vt - SlotOf(o)) = 0
  BY <1>1, <1>2, <1>4 DEF FieldsAt
<1> QED BY <1>3, <1>4 DEF FieldsAt

LEMMA MadeStill ==
    ASSUME NEW b, NEW c, IsBuffer(b), IsBuffer(c), Keeps(b, c),
           NEW vts, VtablesAt(b, vts), NEW m, MadeAt(b, vts, m)
    PROVE  MadeAt(c, vts, m)
<1>1. m.at \in SizeUOffsetT..Offset(c)
  BY BufferFacts DEF MadeAt, Keeps, SizeUOffsetT
<1>2. CASE m.kind = "table" /\ TableAt(b, vts, m)
  <2>1. PICK j \in DOMAIN vts :
           HasAt(b, m.at, SizeSOffsetT, vts[j] - m.at) /\ FieldsAt(b, vts[j], m)
    BY <1>2 DEF TableAt
  <2>2. HasAt(c, m.at, SizeSOffsetT, vts[j] - m.at)
    BY <2>1, HasStill DEF SizeSOffsetT
  <2>3. FieldsAt(c, vts[j], m)
    BY <2>1, FieldsStill DEF VtablesAt
  <2>4. TableAt(c, vts, m)
    BY <1>2, <2>2, <2>3 DEF TableAt
  <2> QED BY <1>1, <1>2, <2>4 DEF MadeAt
<1>3. CASE m.kind = "vector" /\ VectorAt(b, m)
  <2>1. HasAt(c, m.at, SizeUOffsetT, Len(m.elems))
    BY <1>3, HasStill DEF VectorAt, SizeUOffsetT
  <2>2. ASSUME NEW i \in 1..Len(m.elems)
        PROVE  HasAt(c, m.at - SizeUOffsetT - (i - 1) * m.size, m.size, m.elems[i])
    <3>1. HasAt(b, m.at - SizeUOffsetT - (i - 1) * m.size, m.size, m.elems[i]) /\ m.size \in Nat
      BY <1>3 DEF VectorAt
    <3> QED BY <3>1, HasStill
  <2>3. VectorAt(c, m)
    BY <1>3, <2>1, <2>2 DEF VectorAt
  <2> QED BY <1>1, <1>3, <2>3 DEF MadeAt
<1>4. CASE m.kind \in {"string", "bytes"} /\ TextAt(b, m)
  <2>1. TextLen[m.text] \in Nat
    BY <1>4, SizesAssumption DEF TextAt
  <2>2. HasAt(c, m.at, SizeUOffsetT, TextLen[m.text])
    BY <1>4, HasStill DEF TextAt, SizeUOffsetT
  <2>3. HasAt(c, m.at - SizeUOffsetT, TextLen[m.text], m.text)
    BY <1>4, <2>1, HasStill DEF TextAt
  <2>4. m.kind = "string" => HasAt(c, m.at - SizeUOffsetT - TextLen[m.text], SizeByte, 0)
    BY <1>4, HasStill DEF TextAt, SizeByte
  <2>5. TextAt(c, m)
    BY <1>4, <2>2, <2>3, <2>4 DEF TextAt
  <2> QED BY <1>1, <1>4, <2>5 DEF MadeAt
<1>5. CASE m.kind = "buffer" /\ BufferAt(b, m)
  <2>1. m.prefixed => HasAt(c, m.at, SizeUint32, m.at - sizePrefixLength)
    BY <1>5, HasStill DEF BufferAt, SizeUint32
  <2>2. HasAt(c, RootAt(m), SizeUOffsetT, RootAt(m) - m.root)
    BY <1>5, HasStill DEF BufferAt, SizeUOffsetT
  <2>3. m.identifier # 0 =>
           HasAt(c, RootAt(m) - SizeUOffsetT, fileIdentifierLength, m.identifier)
    BY <1>5, HasStill DEF BufferAt, fileIdentifierLength
  <2>4. BufferAt(c, m)
    BY <1>5, <2>1, <2>2, <2>3 DEF BufferAt
  <2> QED BY <1>1, <1>5, <2>4 DEF MadeAt
<1> QED BY <1>2, <1>3, <1>4, <1>5 DEF MadeAt

(* c is b after some growth and some writing in front.                     *)
GrownTo(b, c) == IsBuffer(c) /\ Keeps(b, c) /\ c.minalign >= b.minalign

LEMMA GrownToOn ==
    ASSUME NEW b, NEW c, NEW d, IsBuffer(b), GrownTo(b, c), GrownTo(c, d)
    PROVE  GrownTo(b, d)
<1>1. Keeps(b, d)
  BY KeepsOn DEF GrownTo
<1>2. d.minalign >= b.minalign
  BY BufferFacts DEF GrownTo
<1> QED BY <1>1, <1>2 DEF GrownTo

LEMMA AllMadeStill ==
    ASSUME NEW b, NEW c, IsBuffer(b), GrownTo(b, c),
           NEW vts, VtablesAt(b, vts), NEW things, AllMade(b, vts, things)
    PROVE  AllMade(c, vts, things)
<1>1. IsBuffer(c) /\ Keeps(b, c) /\ c.minalign >= b.minalign
  BY DEF GrownTo
<1>2. ASSUME NEW m \in things PROVE MadeAt(c, vts, m)
  BY <1>1, MadeStill DEF AllMade
<1>3. ASSUME NEW m \in things PROVE Tracked(c, m)
  <2>1. Tracked(b, m) /\ MadeAt(b, vts, m)
    BY DEF AllMade
  <2>2. b.minalign \in Nat /\ c.minalign \in Nat
    BY <1>1, BufferFacts
  <2>3. ASSUME m.kind = "table"
        PROVE  c.minalign >= SizeUOffsetT /\ \A o \in DOMAIN m.fields : c.minalign >= Alignment(o)
    <3>1. \A o \in DOMAIN m.fields : Alignment(o) \in Nat
      BY <2>1, <2>3, SizesAreNumbers DEF MadeAt, TableAt
    <3> QED BY <1>1, <2>1, <2>2, <2>3, <3>1 DEF Tracked, SizeUOffsetT
  <2>4. ASSUME m.kind = "vector" PROVE c.minalign >= m.alignment
    <3>1. m.alignment \in Nat
      BY <2>1, <2>4 DEF MadeAt, VectorAt
    <3> QED BY <1>1, <2>1, <2>2, <2>4, <3>1 DEF Tracked
  <2> QED BY <2>3, <2>4 DEF Tracked
<1> QED BY <1>2, <1>3 DEF AllMade

(* A new thing in front of all others leaves every finished buffer in      *)
(* line.                                                                   *)
LEMMA InLineWithOneMore ==
    ASSUME NEW b, IsBuffer(b), NEW vts, NEW things, AllMade(b, vts, things), InLine(things),
           NEW x, x.at \in Nat, x.at > Offset(b),
           x.kind = "buffer" => \A t \in things : AlignedFor(x, t)
    PROVE  InLine(things \cup {x})
<1>1. Offset(b) \in Nat /\ \A m \in things : m.at \in Nat /\ m.at <= Offset(b)
  BY BufferFacts DEF AllMade, MadeAt, SizeUOffsetT
<1> SUFFICES ASSUME NEW m \in things \cup {x}, m.kind = "buffer",
                    NEW t \in things \cup {x}, t.at < m.at
             PROVE  AlignedFor(m, t)
  BY DEF InLine
<1>2. CASE m \in things
  <2>1. t \in things
    BY <1>1, <1>2
  <2> QED BY <1>2, <2>1 DEF InLine
<1>3. CASE m = x
  <2>1. t \in things
    BY <1>3
  <2> QED BY <1>3, <2>1
<1> QED BY <1>2, <1>3

-----------------------------------------------------------------------------
(* Steps that only add.                                                    *)

LEMMA GrownToItself == ASSUME NEW b, IsBuffer(b) PROVE GrownTo(b, b)
  BY KeepsItself, BufferFacts DEF GrownTo

LEMMA ContentsStay ==
    ASSUME IInv, GrownTo(buf, buf'), vtables' = vtables, made' = made
    PROVE  Contents'
<1>1. IsBuffer(buf) /\ VtablesAt(buf, vtables) /\ AllMade(buf, vtables, made) /\ InLine(made)
  BY DEF IInv, Contents
<1>2. IsBuffer(buf') /\ Keeps(buf, buf')
  BY DEF GrownTo
<1>3. VtablesAt(buf', vtables)
  BY <1>1, <1>2, VtablesStill
<1>4. AllMade(buf', vtables, made)
  BY <1>1, AllMadeStill
<1> QED BY <1>1, <1>3, <1>4 DEF Contents

LEMMA ContentsGainOne ==
    ASSUME IInv, GrownTo(buf, buf'), vtables' = vtables,
           NEW x, made' = made \cup {x},
           MadeAt(buf', vtables, x), Tracked(buf', x), x.at > Offset(buf),
           x.kind = "buffer" => \A t \in made : AlignedFor(x, t)
    PROVE  Contents'
<1>1. IsBuffer(buf) /\ VtablesAt(buf, vtables) /\ AllMade(buf, vtables, made) /\ InLine(made)
  BY DEF IInv, Contents
<1>2. IsBuffer(buf') /\ Keeps(buf, buf')
  BY DEF GrownTo
<1>3. VtablesAt(buf', vtables)
  BY <1>1, <1>2, VtablesStill
<1>4. AllMade(buf', vtables, made \cup {x})
  <2>1. AllMade(buf', vtables, made)
    BY <1>1, AllMadeStill
  <2> QED BY <2>1 DEF AllMade
<1>5. x.at \in Nat
  BY <1>2, BufferFacts DEF MadeAt, SizeUOffsetT
<1>6. InLine(made \cup {x})
  BY <1>1, <1>5, InLineWithOneMore
<1> QED BY <1>3, <1>4, <1>6 DEF Contents

LEMMA SharedStays ==
    ASSUME IInv, sharedStrings' = sharedStrings, made \subseteq made'
    PROVE  SharedInv'
  BY DEF IInv, SharedInv, SharedStringsAreThere

(* What is open stays open, when the buffer grows in front of an object.   *)
LEMMA OpenStays ==
    ASSUME IInv, GrownTo(buf, buf'), open.kind = "vector" => buf' = buf,
           UNCHANGED <<open, nested, vtable, objectEnd>>
    PROVE  OpenInv'
<1>1. OpenInv /\ IsBuffer(buf) /\ objectEnd \in Nat
  BY DEF IInv
<1>2. IsBuffer(buf') /\ Keeps(buf, buf') /\ buf'.minalign >= buf.minalign
  BY DEF GrownTo
<1>3. ASSUME open.kind = "object" PROVE OpenObject'
  <2>1. OpenObject
    BY <1>1, <1>3 DEF OpenInv
  <2>2. objectEnd <= Offset(buf')
    BY <1>1, <1>2, <2>1, BufferFacts DEF OpenObject, Keeps
  <2>3. ASSUME NEW o \in Fields, o \in DOMAIN open.fields
        PROVE  FieldAt(buf', vtable[o + 1], o, open.fields[o]) /\ buf'.minalign >= Alignment(o)
    <3>1. FieldAt(buf, vtable[o + 1], o, open.fields[o]) /\ buf.minalign >= Alignment(o)
      BY <2>1, <2>3 DEF OpenObject
    <3>2. FieldAt(buf', vtable[o + 1], o, open.fields[o])
      BY <1>1, <1>2, <3>1, FieldStill
    <3>3. buf'.minalign >= Alignment(o)
      <4>1. Alignment(o) \in Nat /\ buf.minalign \in Nat /\ buf'.minalign \in Nat
        BY <1>1, <1>2, BufferFacts, SizesAreNumbers
      <4> QED BY <1>2, <3>1, <4>1
    <3> QED BY <3>2, <3>3
  <2> QED BY <2>1, <2>2, <2>3 DEF OpenObject
<1>4. ASSUME open.kind = "vector" PROVE OpenVector'
  BY <1>1, <1>4 DEF OpenInv, OpenVector, Remaining
<1> QED BY <1>1, <1>3, <1>4 DEF OpenInv

-----------------------------------------------------------------------------
(* Objects.                                                                *)

LEMMA PanicPreserves == ASSUME IInv, UNCHANGED state PROVE IInv'
<1>1. UNCHANGED <<buf, vtable, objectEnd, vtables, nested, finished, sharedStrings, open, made>>
  BY DEF state
<1>2. Contents'
  BY <1>1, GrownToItself, ContentsStay DEF IInv
<1>3. OpenInv'
  BY <1>1, GrownToItself, OpenStays DEF IInv
<1>4. SharedInv'
  BY <1>1, SharedStays
<1> QED BY <1>1, <1>2, <1>3, <1>4 DEF IInv

LEMMA StartObjectPreserves ==
    ASSUME IInv, StartObject, ~nested
    PROVE  IInv' /\ GrownTo(buf, buf')
<1>1. /\ buf' = buf /\ vtables' = vtables /\ made' = made
      /\ finished' = finished /\ sharedStrings' = sharedStrings
      /\ nested' = TRUE /\ objectEnd' = Offset(buf)
      /\ vtable' = [i \in 1..Len(FieldSize) |-> 0]
      /\ open' = [kind |-> "object", fields |-> <<>>]
  BY DEF StartObject
<1>2. IsBuffer(buf) /\ Offset(buf) \in Nat
  BY BufferFacts DEF IInv
<1>3. GrownTo(buf, buf')
  BY <1>1, <1>2, GrownToItself
<1>4. Contents'
  BY <1>1, <1>3, ContentsStay
<1>5. SharedInv'
  BY <1>1, SharedStays
<1>6. OpenInv'
  <2>1. open'.kind = "object" /\ open'.fields = <<>> /\ DOMAIN open'.fields = {}
    BY <1>1
  <2>2. vtable' \in Seq(Nat) /\ Len(vtable') = Len(FieldSize)
    BY <1>1, SizesAssumption
  <2>3. \A o \in Fields : vtable'[o + 1] = 0
    BY <1>1, SizesAssumption DEF Fields
  <2>4. OpenObject'
    BY <1>1, <1>2, <2>1, <2>2, <2>3, SMTT(30) DEF OpenObject
  <2> QED BY <1>1, <2>1, <2>4 DEF OpenInv
<1> QED BY <1>1, <1>2, <1>3, <1>4, <1>5, <1>6 DEF IInv

(* A field is set: it stands in front of all there was.                    *)
LEMMA SetFieldPreserves ==
    ASSUME IInv, NEW o \in Fields, NEW f, CanSet(o), GrownTo(buf, buf'),
           Slot(o, buf'), Remember(o, f),
           FieldAt(buf', Offset(buf'), o, f), buf'.minalign >= Alignment(o),
           Offset(buf') > Offset(buf),
           UNCHANGED <<objectEnd, vtables, nested, finished, sharedStrings, made>>
    PROVE  IInv'
<1>1. IsBuffer(buf) /\ OpenInv /\ OpenObject /\ nested /\ objectEnd \in Nat
  BY DEF IInv, OpenInv, CanSet
<1>2. IsBuffer(buf') /\ Keeps(buf, buf') /\ Offset(buf) \in Nat /\ Offset(buf') \in Nat
  BY <1>1, BufferFacts DEF GrownTo
<1>3. Contents'
  BY ContentsStay
<1>4. SharedInv'
  BY SharedStays
<1> DEFINE fields == [i \in DOMAIN open.fields \cup {o} |-> IF i = o THEN f ELSE open.fields[i]]
<1>5. open' = [kind |-> "object", fields |-> fields]
  <2>1. open = [kind |-> "object", fields |-> open.fields]
    BY <1>1 DEF OpenObject
  <2>2. open' = [open EXCEPT !.fields = fields]
    BY DEF Remember
  <2> HIDE DEF fields
  <2> QED BY <2>1, <2>2
<1>6. open'.kind = "object" /\ open'.fields = fields
  BY <1>5
<1>7. vtable' = [vtable EXCEPT ![o + 1] = Offset(buf')]
  BY DEF Slot
<1>8. vtable \in Seq(Nat) /\ Len(vtable) = Len(FieldSize) /\ o + 1 \in 1..Len(FieldSize)
  BY <1>1, SizesAssumption DEF OpenObject, Fields
<1>9. vtable' \in Seq(Nat) /\ Len(vtable') = Len(FieldSize)
  BY <1>2, <1>7, <1>8
<1>10. \A p \in Fields : p + 1 \in 1..Len(FieldSize) /\ (p # o => p + 1 # o + 1)
  BY SizesAssumption DEF Fields
<1>11. vtable'[o + 1] = Offset(buf') /\ \A p \in Fields : p # o => vtable'[p + 1] = vtable[p + 1]
  BY <1>7, <1>8, <1>10
<1>12. ASSUME NEW p \in Fields, p \in DOMAIN fields
       PROVE  /\ vtable'[p + 1] > objectEnd'
              /\ FieldAt(buf', vtable'[p + 1], p, fields[p])
              /\ buf'.minalign >= Alignment(p)
  <2>1. CASE p = o
    <3>1. objectEnd <= Offset(buf)
      BY <1>1 DEF OpenObject
    <3>2. Offset(buf') > objectEnd
      BY <1>1, <1>2, <3>1
    <3> QED BY <1>11, <2>1, <3>2
  <2>2. CASE p # o
    <3>1. p \in DOMAIN open.fields /\ fields[p] = open.fields[p]
      BY <1>12, <2>2
    <3>2. /\ vtable[p + 1] > objectEnd
          /\ FieldAt(buf, vtable[p + 1], p, open.fields[p])
          /\ buf.minalign >= Alignment(p)
      BY <1>1, <3>1 DEF OpenObject
    <3>3. FieldAt(buf', vtable[p + 1], p, open.fields[p])
      BY <1>1, <1>2, <3>2, FieldStill
    <3>4. buf'.minalign >= Alignment(p)
      <4>1. Alignment(p) \in Nat /\ buf.minalign \in Nat /\ buf'.minalign \in Nat
        BY <1>1, <1>2, BufferFacts, SizesAreNumbers
      <4> QED BY <3>2, <4>1 DEF GrownTo
    <3> QED BY <1>11, <2>2, <3>1, <3>2, <3>3, <3>4
  <2> QED BY <2>1, <2>2
<1>13. ASSUME NEW p \in Fields, p \notin DOMAIN fields PROVE vtable'[p + 1] = 0
  BY <1>1, <1>11, <1>13 DEF OpenObject
<1>14. DOMAIN fields \subseteq Fields
  BY <1>1 DEF OpenObject
<1>15. objectEnd' <= Offset(buf')
  BY <1>1, <1>2 DEF OpenObject, Keeps
<1> HIDE DEF fields
<1>16. OpenObject'
  BY <1>5, <1>6, <1>9, <1>12, <1>13, <1>14, <1>15 DEF OpenObject
<1>17. OpenInv'
  BY <1>1, <1>6, <1>16 DEF OpenInv
<1> QED BY <1>1, <1>2, <1>3, <1>4, <1>17 DEF IInv

LEMMA PrependsGrows ==
    ASSUME NEW b, IsBuffer(b), NEW c, NEW s \in {1, 2, 4, 8}, NEW x, Prepends(b, c, s, x)
    PROVE  GrownTo(b, c) /\ Offset(c) > Offset(b) /\ Offset(c) \in 1..Offset(c)
<1>1. Padding(b, s, 0) \in 0..7 /\ Offset(b) \in Nat
  BY PaddingIsSmall
<1> QED BY <1>1 DEF Prepends, GrownTo

LEMMA PrependSlotPreserves ==
    ASSUME IInv, NEW o \in Fields, NEW x \in Values, PrependSlot(o, x, 0)
    PROVE  IInv' /\ GrownTo(buf, buf')
<1>0. IsBuffer(buf)
  BY DEF IInv
<1>1. CASE x = 0
  <2>1. UNCHANGED state
    BY <1>1 DEF PrependSlot, state
  <2>2. buf' = buf
    BY <2>1 DEF state
  <2> QED BY <1>0, <2>1, <2>2, PanicPreserves, GrownToItself
<1>2. CASE x # 0
  <2>1. /\ CanSet(o) /\ FieldSize[o + 1] = Alignment(o)
        /\ Slot(o, Prepend(buf, FieldSize[o + 1], x))
        /\ Remember(o, Field(x, 0))
        /\ UNCHANGED <<objectEnd, vtables, nested, finished, sharedStrings, made>>
    BY <1>2 DEF PrependSlot
  <2> DEFINE s == Alignment(o)
  <2>2. s \in {1, 2, 4, 8} /\ x \in Int
    BY SizesAreNumbers, ValuesAssumption
  <2>3. buf' = Prepend(buf, s, x) /\ Slot(o, buf')
    BY <2>1 DEF Slot
  <2>4. Prepends(buf, buf', s, x)
    BY <1>0, <2>2, <2>3, PrependPrepends
  <2>5. GrownTo(buf, buf') /\ Offset(buf') > Offset(buf) /\ Offset(buf') \in 1..Offset(buf')
    BY <1>0, <2>2, <2>4, PrependsGrows
  <2>6. FieldAt(buf', Offset(buf'), o, Field(x, 0))
    BY <2>1, <2>2, <2>4, <2>5 DEF FieldAt, Field, Prepends
  <2>7. buf'.minalign >= Alignment(o)
    BY <2>4 DEF Prepends
  <2> QED BY <2>1, <2>3, <2>5, <2>6, <2>7, SetFieldPreserves
<1> QED BY <1>1, <1>2

LEMMA OffsetsAreInside ==
    ASSUME IInv, NEW off \in Offsets
    PROVE  off \in 4..Offset(buf)
  BY DEF Offsets, IInv, Contents, AllMade, MadeAt, SizeUOffsetT

LEMMA PrependUOffsetTSlotPreserves ==
    ASSUME IInv, NEW o \in Fields, PrependSomeOffset(o)
    PROVE  IInv' /\ GrownTo(buf, buf')
<1>0. IsBuffer(buf)
  BY DEF IInv
<1>1. PICK off \in Offsets : PrependUOffsetTSlot(o, off)
  BY DEF PrependSomeOffset
<1>2. /\ CanSet(o) /\ FieldSize[o + 1] = 4
      /\ Slot(o, PrependUOffsetT(buf, off))
      /\ Remember(o, Field(0, off))
      /\ UNCHANGED <<objectEnd, vtables, nested, finished, sharedStrings, made>>
  BY <1>1 DEF PrependUOffsetTSlot, SizeUOffsetT
<1>3. off \in 4..Offset(buf) /\ Offset(buf) \in Nat
  BY <1>0, OffsetsAreInside, BufferFacts
<1>4. buf' = PrependUOffsetT(buf, off) /\ Slot(o, buf')
  BY <1>2 DEF Slot
<1>5. Prepends(buf, buf', 4, Offset(buf') - off)
  <2>1. off \in 0..Offset(buf)
    BY <1>3
  <2> QED BY <1>0, <1>4, <2>1, PrependUOffsetTPrepends DEF SizeUOffsetT
<1>6. GrownTo(buf, buf') /\ Offset(buf') > Offset(buf) /\ Offset(buf') \in 1..Offset(buf')
  BY <1>0, <1>5, PrependsGrows
<1>7. Alignment(o) = 4
  BY <1>2 DEF Alignment
<1>8. FieldAt(buf', Offset(buf'), o, Field(0, off))
  BY <1>2, <1>3, <1>5, <1>6, <1>7 DEF FieldAt, Field, Prepends, SizeUOffsetT
<1>9. buf'.minalign >= Alignment(o)
  BY <1>5, <1>7 DEF Prepends
<1> QED BY <1>2, <1>4, <1>6, <1>8, <1>9, SetFieldPreserves

LEMMA PrependStructSlotPreserves ==
    ASSUME IInv, NEW o \in Fields, NEW x \in Values, PrependStructSlot(o, x)
    PROVE  IInv' /\ GrownTo(buf, buf')
<1>0. IsBuffer(buf)
  BY DEF IInv
<1> DEFINE n == FieldSize[o + 1]
           p == Prep(buf, Alignment(o), n)
<1>1. /\ CanSet(o) /\ Slot(o, Place(p, n, x)) /\ Remember(o, Field(x, 0))
      /\ UNCHANGED <<objectEnd, vtables, nested, finished, sharedStrings, made>>
  BY DEF PrependStructSlot
<1>2. n \in Nat /\ n > 0 /\ Alignment(o) \in {1, 2, 4, 8} /\ x \in Int
  BY SizesAreNumbers, ValuesAssumption
<1> HIDE DEF n
<1>3. Preps(buf, p, Alignment(o), n)
  BY <1>0, <1>2, PrepPreps
<1> HIDE DEF p
<1>4. IsBuffer(p) /\ Keeps(buf, p) /\ n <= p.head /\ p.minalign >= buf.minalign
      /\ p.minalign >= Alignment(o) /\ (Offset(p) + n) % Alignment(o) = 0
  BY <1>2, <1>3, BufferFacts DEF Preps
<1>5. buf' = Place(p, n, x) /\ Slot(o, buf')
  BY <1>1 DEF Slot
<1>6. Places(p, buf', n, x)
  BY <1>2, <1>4, <1>5, PlacePlaces
<1>7. IsBuffer(buf') /\ Keeps(p, buf') /\ Offset(buf') = Offset(p) + n
      /\ HasAt(buf', Offset(buf'), n, x) /\ buf'.minalign = p.minalign
  BY <1>6 DEF Places
<1>8. GrownTo(buf, buf')
  BY <1>0, <1>4, <1>7, KeepsOn DEF GrownTo
<1>9. Offset(buf') > Offset(buf) /\ Offset(buf') \in 1..Offset(buf')
  <2>1. Offset(buf) \in Nat /\ Offset(p) \in Nat /\ Offset(buf) <= Offset(p)
    BY <1>0, <1>4, BufferFacts DEF Keeps
  <2> QED BY <1>2, <1>7, <2>1
<1>10. FieldAt(buf', Offset(buf'), o, Field(x, 0))
  BY <1>2, <1>4, <1>7, <1>9 DEF FieldAt, Field, n
<1>11. buf'.minalign >= Alignment(o)
  BY <1>4, <1>7
<1> QED BY <1>1, <1>5, <1>8, <1>9, <1>10, <1>11, SetFieldPreserves

-----------------------------------------------------------------------------
(* Vectors.                                                                *)

(* A second Prep, for an alignment, keeps the one the first made for 4.    *)
LEMMA AlignedTwice ==
    ASSUME NEW a \in {1, 2, 4, 8}, NEW n \in Nat, n % 4 = 0
    PROVE  /\ (a - (n % a)) % a \in Nat
           /\ (n + ((a - (n % a)) % a)) % 4 = 0
           /\ (n + ((a - (n % a)) % a)) % a = 0
           /\ a \in {1, 2} => (a - (n % a)) % a = 0
<1>1. CASE a = 1
  BY <1>1
<1>2. CASE a = 2
  BY <1>2
<1>3. CASE a = 4
  BY <1>3
<1>4. CASE a = 8
  BY <1>4
<1> QED BY <1>1, <1>2, <1>3, <1>4

LEMMA RoomForVector ==
    ASSUME NEW b, IsBuffer(b), NEW a \in {1, 2, 4, 8}, NEW n \in Nat
    PROVE  LET c == Prep(Prep(b, SizeUint32, n), a, n)
           IN /\ GrownTo(b, c)
              /\ c.head >= n + SizeUOffsetT
              /\ (Offset(c) + n) % SizeUOffsetT = 0
              /\ (Offset(c) + n) % a = 0
              /\ c.minalign >= a
<1> DEFINE p == Prep(b, 4, n)
           c == Prep(p, a, n)
<1>1. Preps(b, p, 4, n)
  BY PrepPreps
<1> HIDE DEF p
<1>2. IsBuffer(p) /\ GrownTo(b, p) /\ (Offset(p) + n) % 4 = 0 /\ p.head > 4 + n
  BY <1>1 DEF Preps, GrownTo
<1>3. Preps(p, c, a, n)
  BY <1>2, PrepPreps
<1> HIDE DEF c
<1>4. GrownTo(p, c)
  BY <1>3 DEF Preps, GrownTo
<1>5. GrownTo(b, c)
  BY <1>2, <1>4, GrownToOn
<1>6. PICK o \in Nat, q \in Nat, h \in Nat, g \in Nat :
         o = Offset(p) /\ q = Offset(c) /\ h = p.head /\ g = c.head
  BY <1>2, <1>3, BufferFacts DEF Preps
<1> DEFINE pad == (a - ((o + n) % a)) % a
<1>7. Padding(p, a, n) = pad
  BY <1>6 DEF Padding
<1>8. pad \in Nat /\ ((o + n) + pad) % 4 = 0 /\ ((o + n) + pad) % a = 0 /\ (a \in {1, 2} => pad = 0)
  BY <1>2, <1>6, AlignedTwice
<1> HIDE DEF pad
<1>9. q = o + pad /\ g > a + n /\ g >= h - pad /\ h > 4 + n
  BY <1>2, <1>3, <1>6, <1>7 DEF Preps
<1>10. q + n = (o + n) + pad
  BY <1>6, <1>8, <1>9
<1>11. g >= n + 4
  <2>1. CASE a \in {1, 2}
    <3>1. pad = 0
      BY <1>8, <2>1
    <3> QED BY <1>6, <1>9, <3>1
  <2>2. CASE a \in {4, 8}
    BY <1>6, <1>9, <2>2
  <2> QED BY <2>1, <2>2
<1>12. c.minalign >= a
  BY <1>3 DEF Preps
<1> QED BY <1>5, <1>6, <1>8, <1>10, <1>11, <1>12 DEF SizeUint32, SizeUOffsetT, p, c

LEMMA StartVectorPreserves ==
    ASSUME IInv, NEW v \in Vectors, StartVector(v), ~nested
    PROVE  IInv' /\ GrownTo(buf, buf')
<1> DEFINE n == v.size * v.num
<1>1. /\ buf' = Prep(Prep(buf, SizeUint32, n), v.alignment, n)
      /\ nested' = TRUE
      /\ open' = [kind |-> "vector", vector |-> v, elems |-> <<>>]
      /\ UNCHANGED <<vtable, objectEnd, vtables, finished, sharedStrings, made>>
  BY DEF StartVector
<1>2. v.size \in {1, 2, 4, 8} /\ v.num \in Nat /\ v.alignment \in {1, 2, 4, 8}
  BY SizesAssumption
<1>3. n \in Nat /\ (v.num - 0) * v.size = n
  <2>1. CASE v.size = 1
    BY <1>2, <2>1
  <2>2. CASE v.size = 2
    BY <1>2, <2>2
  <2>3. CASE v.size = 4
    BY <1>2, <2>3
  <2>4. CASE v.size = 8
    BY <1>2, <2>4
  <2> QED BY <1>2, <2>1, <2>2, <2>3, <2>4
<1> HIDE DEF n
<1>4. IsBuffer(buf) /\ OpenInv
  BY DEF IInv
<1>5. /\ GrownTo(buf, buf')
      /\ buf'.head >= n + SizeUOffsetT
      /\ (Offset(buf') + n) % SizeUOffsetT = 0
      /\ (Offset(buf') + n) % v.alignment = 0
      /\ buf'.minalign >= v.alignment
  BY <1>1, <1>2, <1>3, <1>4, RoomForVector
<1>6. Contents' /\ SharedInv'
  BY <1>1, <1>5, ContentsStay, SharedStays
<1>7. open'.kind = "vector" /\ open'.vector = v /\ open'.elems = <<>> /\ Len(<<>>) = 0
  BY <1>1
<1>8. Remaining' = n
  BY <1>3, <1>7 DEF Remaining
<1>9. OpenVector'
  BY <1>1, <1>2, <1>5, <1>7, <1>8 DEF OpenVector
<1>10. OpenInv'
  BY <1>1, <1>4, <1>7, <1>9 DEF OpenInv
<1> QED BY <1>1, <1>5, <1>6, <1>10 DEF IInv, GrownTo

(* An element that is no larger than the alignment needs no padding.       *)
LEMMA ElementFits ==
    ASSUME NEW s \in {1, 2, 4, 8}, NEW a \in {1, 2, 4, 8}, s <= a,
           NEW n \in Nat, NEW r \in Nat, (n + (r + 1) * s) % a = 0
    PROVE  /\ (s - ((n + 0) % s)) % s = 0
           /\ r * s \in Nat
           /\ (r + 1) * s = r * s + s
<1>1. CASE s = 1
  BY <1>1
<1>2. CASE s = 2
  <2>1. CASE a = 2
    BY <1>2, <2>1
  <2>2. CASE a = 4
    BY <1>2, <2>2
  <2>3. CASE a = 8
    BY <1>2, <2>3
  <2> QED BY <1>2, <2>1, <2>2, <2>3
<1>3. CASE s = 4
  <2>1. CASE a = 4
    BY <1>3, <2>1
  <2>2. CASE a = 8
    BY <1>3, <2>2
  <2> QED BY <1>3, <2>1, <2>2
<1>4. CASE s = 8
  BY <1>4
<1> QED BY <1>1, <1>2, <1>3, <1>4

LEMMA SeqOfMore ==
    ASSUME NEW S, NEW T, S \subseteq T, NEW q \in Seq(S)
    PROVE  q \in Seq(T)
<1>1. q \in [1..Len(q) -> T] /\ Len(q) \in Nat
  OBVIOUS
<1> QED BY <1>1

LEMMA StepBack ==
    ASSUME NEW s \in {1, 2, 4, 8}, NEW n \in Nat, NEW i \in Nat
    PROVE  (n + s) - (i + 1) * s = n - i * s /\ (n + s) - 0 * s = n + s
<1>1. CASE s = 1
  BY <1>1
<1>2. CASE s = 2
  BY <1>2
<1>3. CASE s = 4
  BY <1>3
<1>4. CASE s = 8
  BY <1>4
<1> QED BY <1>1, <1>2, <1>3, <1>4

LEMMA PrependElementPreserves ==
    ASSUME IInv, NEW x \in Values, PrependElement(x)
    PROVE  IInv' /\ GrownTo(buf, buf')
<1> DEFINE v == open.vector
           s == open.vector.size
           elems == open.elems
<1>1. /\ open.kind = "vector" /\ Len(elems) < v.num
      /\ buf' = Prepend(buf, s, x)
      /\ open' = [open EXCEPT !.elems = <<x>> \o elems]
      /\ UNCHANGED <<vtable, objectEnd, vtables, nested, finished, sharedStrings, made>>
  BY DEF PrependElement
<1>2. IsBuffer(buf) /\ OpenInv /\ OpenVector
  BY <1>1 DEF IInv, OpenInv
<1>3. /\ v \in Vectors /\ elems \in Seq(Values) /\ x \in Int /\ Values \subseteq Int
      /\ v.size \in {1, 2, 4, 8} /\ v.num \in Nat /\ v.alignment \in {1, 2, 4, 8}
      /\ v.size <= v.alignment
  BY <1>2, SizesAssumption, VectorsAssumption, ValuesAssumption DEF OpenVector
<1>4. open' = [kind |-> "vector", vector |-> v, elems |-> <<x>> \o elems]
  <2>1. open = [kind |-> "vector", vector |-> open.vector, elems |-> open.elems]
    BY <1>2 DEF OpenVector
  <2> QED BY <1>1, <2>1
<1>5. PICK l \in Nat, n \in Nat : l = Len(elems) /\ n = Offset(buf)
  BY <1>2, <1>3, BufferFacts
<1> DEFINE more == <<x>> \o elems
<1>6. more \in Seq(Values) /\ Len(more) = l + 1 /\ more[1] = x /\ \A i \in 1..l : more[i + 1] = elems[i]
  BY <1>3, <1>5
<1> HIDE DEF more
<1>7. open'.kind = "vector" /\ open'.vector = v /\ open'.elems = more
  BY <1>4 DEF more
<1> HIDE DEF v, elems, s
<1>8. PICK r \in Nat : r = v.num - l - 1
  BY <1>1, <1>3, <1>5
<1>9. Remaining = (r + 1) * s /\ Remaining' = r * s
  <2>1. v.num - l = r + 1 /\ v.num - (l + 1) = r
    BY <1>3, <1>8
  <2>2. Remaining = (v.num - l) * s
    BY <1>5 DEF Remaining, v, elems, s
  <2>3. Remaining' = (v.num - (l + 1)) * s
    BY <1>6, <1>7 DEF Remaining, s, v
  <2> QED BY <2>1, <2>2, <2>3
<1>10. s \in {1, 2, 4, 8} /\ s <= v.alignment
  BY <1>3 DEF s, v
<1>11. /\ (n + (r + 1) * s) % v.alignment = 0
       /\ (n + (r + 1) * s) % 4 = 0
       /\ buf.head >= (r + 1) * s + 4
       /\ buf.minalign >= v.alignment
       /\ \A i \in 1..l : HasAt(buf, n - (i - 1) * s, s, elems[i])
  BY <1>2, <1>5, <1>9 DEF OpenVector, SizeUOffsetT, v, s, elems
<1>12. Padding(buf, s, 0) = 0 /\ r * s \in Nat /\ (r + 1) * s = r * s + s
  <2>1. v.alignment \in {1, 2, 4, 8} /\ (n + (r + 1) * s) % v.alignment = 0 /\ n \in Nat /\ r \in Nat
    BY <1>3, <1>11
  <2>2. (s - ((n + 0) % s)) % s = 0 /\ r * s \in Nat /\ (r + 1) * s = r * s + s
    BY <1>10, <2>1, ElementFits
  <2> QED BY <1>5, <2>2 DEF Padding
<1>13. Prepends(buf, buf', s, x)
  BY <1>1, <1>2, <1>3, <1>10, PrependPrepends
<1>14. GrownTo(buf, buf')
  BY <1>2, <1>10, <1>13, PrependsGrows
<1>15. PICK t \in Nat : t = r * s
  BY <1>12
<1>16. Offset(buf') = n + s /\ HasAt(buf', n + s, s, x) /\ buf'.head >= buf.head - s
  <2>1. buf.head \in Nat
    BY <1>2, BufferFacts
  <2> QED BY <1>5, <1>10, <1>12, <1>13, <2>1 DEF Prepends
<1>17. /\ (Offset(buf') + Remaining') % 4 = 0
       /\ (Offset(buf') + Remaining') % v.alignment = 0
       /\ buf'.head >= Remaining' + 4
  <2>1. (n + s) + t = n + (t + s)
    BY <1>10
  <2>2. buf'.head \in Nat /\ buf.head \in Nat
    BY <1>2, <1>13, BufferFacts DEF Prepends
  <2>3. buf'.head >= t + 4
    BY <1>10, <1>11, <1>12, <1>15, <1>16, <2>2
  <2> QED BY <1>9, <1>11, <1>12, <1>15, <1>16, <2>1, <2>3
<1>18. ASSUME NEW i \in 1..(l + 1)
       PROVE  HasAt(buf', Offset(buf') - (i - 1) * s, s, more[i])
  <2>1. CASE i = 1
    <3>1. (n + s) - 0 * s = n + s /\ i - 1 = 0
      BY <1>10, <2>1, StepBack
    <3> QED BY <1>6, <1>16, <2>1, <3>1
  <2>2. CASE i # 1
    <3>1. PICK j \in 1..l : i = j + 1
      BY <2>2
    <3>2. HasAt(buf, n - (j - 1) * s, s, elems[j])
      BY <1>11
    <3>3. HasAt(buf', n - (j - 1) * s, s, elems[j])
      BY <1>2, <1>10, <1>14, <3>2, HasStill DEF GrownTo
    <3>4. (n + s) - ((j - 1) + 1) * s = n - (j - 1) * s /\ (j - 1) + 1 = i - 1
      <4>1. j - 1 \in Nat
        BY <3>1
      <4>2. (n + s) - ((j - 1) + 1) * s = n - (j - 1) * s
        BY <1>10, <4>1, StepBack
      <4> QED BY <3>1, <4>2
    <3>5. more[i] = elems[j]
      BY <1>6, <3>1
    <3> QED BY <1>16, <3>3, <3>4, <3>5
  <2> QED BY <2>1, <2>2
<1>19. buf'.minalign >= v.alignment
  <2>1. buf'.minalign \in Nat /\ buf.minalign \in Nat /\ buf'.minalign >= buf.minalign
    BY <1>2, <1>13, BufferFacts DEF Prepends
  <2>2. v.alignment \in Nat /\ buf.minalign >= v.alignment
    BY <1>3, <1>11
  <2> QED BY <2>1, <2>2
<1>20. OpenVector'
  <2>1. Len(more) <= v.num
    BY <1>1, <1>3, <1>5, <1>6
  <2>2. open' = [kind |-> "vector", vector |-> open'.vector, elems |-> open'.elems]
    BY <1>4, <1>7
  <2>3. \A i \in 1..Len(more) : HasAt(buf', Offset(buf') - (i - 1) * s, s, more[i])
    BY <1>6, <1>18
  <2> QED BY <1>3, <1>6, <1>7, <1>17, <1>19, <2>1, <2>2, <2>3 DEF OpenVector, SizeUOffsetT, s, v
<1>21. OpenInv'
  BY <1>1, <1>2, <1>7, <1>20 DEF OpenInv
<1>22. Contents' /\ SharedInv'
  BY <1>1, <1>14, ContentsStay, SharedStays
<1> QED BY <1>1, <1>14, <1>21, <1>22 DEF IInv, GrownTo

LEMMA EndVectorPreserves ==
    ASSUME IInv, EndVector, nested
    PROVE  IInv' /\ GrownTo(buf, buf')
<1> DEFINE v == open.vector
           x == [kind |-> "vector", at |-> Offset(buf'), size |-> v.size,
                 alignment |-> v.alignment, elems |-> open.elems]
<1>1. /\ open.kind = "vector" /\ Len(open.elems) = v.num
      /\ buf' = Place(buf, 4, v.num)
      /\ made' = made \cup {x}
      /\ nested' = FALSE /\ open' = NothingOpen
      /\ UNCHANGED <<vtable, objectEnd, vtables, finished, sharedStrings>>
  BY DEF EndVector, SizeUOffsetT
<1>2. IsBuffer(buf) /\ OpenInv /\ OpenVector
  BY <1>1 DEF IInv, OpenInv
<1>3. /\ v \in Vectors /\ open.elems \in Seq(Values) /\ Values \subseteq Int
      /\ v.size \in {1, 2, 4, 8} /\ v.num \in Nat /\ v.alignment \in {1, 2, 4, 8}
  BY <1>2, SizesAssumption, ValuesAssumption DEF OpenVector
<1>4. x.kind = "vector" /\ x.at = Offset(buf') /\ x.size = v.size
      /\ x.alignment = v.alignment /\ x.elems = open.elems
  OBVIOUS
<1> HIDE DEF x
<1>5. Remaining = 0
  <2>1. v.num - Len(open.elems) = 0
    BY <1>1, <1>3
  <2>2. 0 * v.size = 0
    BY <1>3
  <2> QED BY <2>1, <2>2 DEF Remaining
<1>6. PICK n \in Nat : n = Offset(buf) /\ n % 4 = 0 /\ n % v.alignment = 0
  <2>1. Offset(buf) \in Nat /\ Offset(buf) + 0 = Offset(buf)
    BY <1>2, BufferFacts
  <2> QED BY <1>2, <1>5, <2>1 DEF OpenVector, SizeUOffsetT
<1>7. 4 <= buf.head
  BY <1>2, <1>5, BufferFacts DEF OpenVector, SizeUOffsetT
<1>8. Places(buf, buf', 4, v.num)
  BY <1>1, <1>2, <1>3, <1>7, PlacePlaces
<1>9. IsBuffer(buf') /\ Keeps(buf, buf') /\ Offset(buf') = n + 4 /\ HasAt(buf', n + 4, 4, v.num)
      /\ buf'.minalign = buf.minalign
  BY <1>6, <1>8 DEF Places
<1>10. GrownTo(buf, buf')
  BY <1>2, <1>9, BufferFacts DEF GrownTo
<1>11. VectorAt(buf', x)
  <2>1. (n + 4) % 4 = 0 /\ (n + 4) - 4 = n
    BY <1>6
  <2>2. ASSUME NEW i \in 1..Len(open.elems)
        PROVE  HasAt(buf', n - (i - 1) * v.size, v.size, open.elems[i])
    <3>1. HasAt(buf, n - (i - 1) * v.size, v.size, open.elems[i])
      BY <1>2, <1>6 DEF OpenVector
    <3> QED BY <1>2, <1>3, <1>9, <3>1, HasStill
  <2>3. x.elems \in Seq(Int)
    BY <1>3, <1>4, SeqOfMore
  <2> QED BY <1>1, <1>3, <1>4, <1>6, <1>9, <2>1, <2>2, <2>3 DEF VectorAt, SizeUOffsetT
<1>12. MadeAt(buf', vtables, x)
  BY <1>4, <1>6, <1>9, <1>11 DEF MadeAt, SizeUOffsetT
<1>13. Tracked(buf', x)
  BY <1>2, <1>4, <1>9 DEF Tracked, OpenVector
<1>14. Contents'
  BY <1>1, <1>4, <1>6, <1>9, <1>10, <1>12, <1>13, ContentsGainOne
<1>15. SharedInv'
  BY <1>1, SharedStays
<1>16. OpenInv'
  BY <1>1, <1>2 DEF OpenInv, NothingOpen
<1> QED BY <1>1, <1>9, <1>10, <1>14, <1>15, <1>16 DEF IInv

-----------------------------------------------------------------------------
(* Strings.                                                                *)

(* The text and its length stand in front, the length on a multiple of 4.  *)
TextPlaced(b, c, s) ==
    /\ GrownTo(b, c)
    /\ Offset(c) = Offset(b) + TextLen[s] + SizeUOffsetT
    /\ Offset(c) % SizeUOffsetT = 0
    /\ HasAt(c, Offset(c), SizeUOffsetT, TextLen[s])
    /\ HasAt(c, Offset(c) - SizeUOffsetT, TextLen[s], s)

LEMMA TextIsPlaced ==
    ASSUME NEW b, IsBuffer(b), NEW s \in Texts,
           b.head >= TextLen[s] + 4, (Offset(b) + TextLen[s]) % 4 = 0
    PROVE  TextPlaced(b, WithText(b, s), s)
<1> DEFINE p == Place(b, TextLen[s], s)
           c == Place(p, 4, TextLen[s])
<1>1. PICK n \in Nat : n = TextLen[s]
  BY SizesAssumption
<1>2. n <= b.head /\ s \in Int /\ b.head \in Nat /\ Offset(b) \in Nat
  BY <1>1, BufferFacts, ValuesAssumption
<1>3. Places(b, p, n, s)
  BY <1>1, <1>2, PlacePlaces
<1> HIDE DEF p
<1>4. IsBuffer(p) /\ GrownTo(b, p) /\ Offset(p) = Offset(b) + n /\ p.head = b.head - n
      /\ HasAt(p, Offset(p), n, s)
  BY <1>3, BufferFacts DEF Places, GrownTo
<1>5. 4 <= p.head /\ n \in Int
  BY <1>1, <1>2, <1>4
<1>6. Places(p, c, 4, n)
  BY <1>1, <1>4, <1>5, PlacePlaces
<1> HIDE DEF c
<1>7. IsBuffer(c) /\ GrownTo(p, c) /\ Offset(c) = Offset(p) + 4 /\ HasAt(c, Offset(c), 4, n)
  BY <1>4, <1>6, BufferFacts DEF Places, GrownTo
<1>8. GrownTo(b, c)
  BY <1>4, <1>7, GrownToOn
<1>9. HasAt(c, Offset(p), n, s)
  BY <1>1, <1>4, <1>7, HasStill DEF GrownTo
<1>10. PICK o \in Nat : o = Offset(p)
  BY <1>4, BufferFacts
<1>11. Offset(c) - 4 = Offset(p) /\ Offset(c) % 4 = 0
  <2>1. o % 4 = 0 /\ Offset(c) = o + 4
    BY <1>1, <1>4, <1>7, <1>10
  <2> QED BY <1>10, <2>1
<1>12. Offset(c) = Offset(b) + n + 4
  BY <1>1, <1>2, <1>4, <1>7
<1> QED BY <1>1, <1>7, <1>8, <1>9, <1>11, <1>12 DEF TextPlaced, SizeUOffsetT, WithText, p, c

(* A text in front of the buffer is a thing made.                          *)
LEMMA AddTextPreserves ==
    ASSUME IInv, ~nested, NEW s \in Texts, NEW b, GrownTo(buf, b), TextPlaced(b, buf', s),
           NEW kind \in {"string", "bytes"}, kind = "string" => HasAt(b, Offset(b), SizeByte, 0),
           made' = made \cup {[kind |-> kind, at |-> Offset(buf'), text |-> s]},
           UNCHANGED <<vtable, objectEnd, vtables, nested, finished, open>>
    PROVE  GrownTo(buf, buf') /\ Contents' /\ OpenInv'
<1> DEFINE x == [kind |-> kind, at |-> Offset(buf'), text |-> s]
<1>1. x.kind = kind /\ x.at = Offset(buf') /\ x.text = s /\ made' = made \cup {x}
  OBVIOUS
<1> HIDE DEF x
<1>2. IsBuffer(buf) /\ OpenInv
  BY DEF IInv
<1>3. GrownTo(buf, buf') /\ GrownTo(b, buf') /\ IsBuffer(b) /\ IsBuffer(buf')
  BY <1>2, GrownToOn DEF TextPlaced, GrownTo
<1>4. PICK n \in Nat, o \in Nat, p \in Nat :
         n = TextLen[s] /\ o = Offset(buf) /\ p = Offset(b) /\ o <= p
  BY <1>2, <1>3, BufferFacts, SizesAssumption DEF GrownTo, Keeps
<1>5. /\ Offset(buf') = p + n + 4 /\ Offset(buf') % 4 = 0
      /\ HasAt(buf', Offset(buf'), 4, n) /\ HasAt(buf', Offset(buf') - 4, n, s)
  BY <1>4 DEF TextPlaced, SizeUOffsetT
<1>6. kind = "string" => HasAt(buf', Offset(buf') - 4 - n, 1, 0)
  <2>1. kind = "string" => HasAt(buf', p, 1, 0)
    BY <1>3, <1>4, HasStill DEF GrownTo, SizeByte
  <2>2. Offset(buf') - 4 - n = p
    BY <1>4, <1>5
  <2> QED BY <2>1, <2>2
<1>7. TextAt(buf', x)
  BY <1>1, <1>4, <1>5, <1>6 DEF TextAt, SizeUOffsetT, SizeByte
<1>8. MadeAt(buf', vtables, x)
  BY <1>1, <1>4, <1>5, <1>7 DEF MadeAt, SizeUOffsetT
<1>9. Tracked(buf', x)
  BY <1>1 DEF Tracked
<1>10. x.at > Offset(buf) /\ x.kind # "buffer"
  BY <1>1, <1>4, <1>5
<1>11. Contents'
  BY <1>1, <1>3, <1>8, <1>9, <1>10, ContentsGainOne
<1>12. OpenInv'
  BY <1>2, <1>3, OpenStays DEF OpenInv
<1> QED BY <1>3, <1>11, <1>12

LEMMA AddStringPreserves ==
    ASSUME IInv, ~nested, NEW s \in Texts, AddString(s)
    PROVE  /\ GrownTo(buf, buf') /\ Contents' /\ OpenInv'
           /\ [kind |-> "string", at |-> Offset(buf'), text |-> s] \in made'
           /\ Offset(buf') - 4 - TextLen[s] - 1 >= Offset(buf)
<1> DEFINE n == TextLen[s]
           p == Prep(buf, 4, n + 1)
           b == Place(p, 1, 0)
<1>1. n \in Nat
  BY SizesAssumption
<1> HIDE DEF n
<1>2. IsBuffer(buf)
  BY DEF IInv
<1>3. Preps(buf, p, 4, n + 1)
  BY <1>1, <1>2, PrepPreps
<1> HIDE DEF p
<1>4. PICK h \in Nat, o \in Nat : h = p.head /\ o = Offset(p) /\ h > 4 + (n + 1) /\ (o + (n + 1)) % 4 = 0
  BY <1>3, BufferFacts DEF Preps
<1>5. IsBuffer(p) /\ GrownTo(buf, p)
  BY <1>3 DEF Preps, GrownTo
<1>6. Places(p, b, 1, 0)
  BY <1>1, <1>4, <1>5, PlacePlaces
<1> HIDE DEF b
<1>7. IsBuffer(b) /\ GrownTo(p, b) /\ Offset(b) = o + 1 /\ b.head = h - 1 /\ HasAt(b, Offset(b), 1, 0)
  BY <1>4, <1>5, <1>6, BufferFacts DEF Places, GrownTo
<1>8. GrownTo(buf, b)
  BY <1>2, <1>5, <1>7, GrownToOn
<1>9. b.head >= n + 4 /\ (Offset(b) + n) % 4 = 0
  <2>1. (o + 1) + n = o + (n + 1)
    BY <1>1
  <2> QED BY <1>1, <1>4, <1>7, <2>1
<1>10. TextPlaced(b, WithText(b, s), s)
  BY <1>7, <1>9, TextIsPlaced DEF n
<1>11. buf' = WithText(b, s)
  BY DEF AddString, WithString, SizeUOffsetT, SizeByte, n, p, b
<1>12. /\ made' = made \cup {[kind |-> "string", at |-> Offset(buf'), text |-> s]}
       /\ UNCHANGED <<vtable, objectEnd, vtables, nested, finished, open>>
  BY DEF AddString
<1>13. GrownTo(buf, buf') /\ Contents' /\ OpenInv'
  BY <1>7, <1>8, <1>10, <1>11, <1>12, AddTextPreserves DEF SizeByte
<1>14. Offset(buf') - 4 - n - 1 >= Offset(buf)
  <2>1. Offset(buf) \in Nat /\ Offset(buf) <= o
    BY <1>2, <1>4, <1>5, BufferFacts DEF GrownTo, Keeps
  <2>2. Offset(buf') = Offset(b) + n + 4
    BY <1>10, <1>11 DEF TextPlaced, SizeUOffsetT, n
  <2> QED BY <1>1, <1>7, <2>1, <2>2
<1> QED BY <1>12, <1>13, <1>14 DEF n

LEMMA CreateStringPreserves ==
    ASSUME IInv, ~nested, NEW s \in Texts, CreateString(s)
    PROVE  IInv' /\ GrownTo(buf, buf')
<1>1. AddString(s) /\ sharedStrings' = sharedStrings
  BY DEF CreateString
<1>2. /\ made \subseteq made'
      /\ UNCHANGED <<objectEnd, finished>>
  BY <1>1 DEF AddString
<1>3. GrownTo(buf, buf') /\ Contents' /\ OpenInv'
  BY <1>1, AddStringPreserves
<1>4. SharedInv'
  BY <1>1, <1>2, SharedStays
<1> QED BY <1>2, <1>3, <1>4 DEF IInv, GrownTo

LEMMA CreateSharedStringPreserves ==
    ASSUME IInv, ~nested, NEW s \in Texts, s \notin DOMAIN sharedStrings, CreateSharedString(s)
    PROVE  IInv' /\ GrownTo(buf, buf')
<1>1. AddString(s)
  BY DEF CreateSharedString
<1>2. sharedStrings' = [t \in DOMAIN sharedStrings \cup {s} |->
                           IF t = s THEN Offset(buf') ELSE sharedStrings[t]]
  BY DEF CreateSharedString
<1>3. /\ made \subseteq made'
      /\ UNCHANGED <<objectEnd, finished>>
  BY <1>1 DEF AddString
<1>4. /\ GrownTo(buf, buf') /\ Contents' /\ OpenInv'
      /\ [kind |-> "string", at |-> Offset(buf'), text |-> s] \in made'
  BY <1>1, AddStringPreserves
<1>5. SharedInv'
  <2>1. SharedInv
    BY DEF IInv
  <2>2. DOMAIN sharedStrings' \subseteq Texts
    BY <1>2, <2>1 DEF SharedInv
  <2>3. ASSUME NEW t \in DOMAIN sharedStrings'
        PROVE  [kind |-> "string", at |-> sharedStrings'[t], text |-> t] \in made'
    <3>1. CASE t = s
      BY <1>2, <1>4, <3>1
    <3>2. CASE t # s
      BY <1>2, <1>3, <2>1, <2>3, <3>2 DEF SharedInv, SharedStringsAreThere
    <3> QED BY <3>1, <3>2
  <2> QED BY <2>2, <2>3 DEF SharedInv, SharedStringsAreThere
<1> QED BY <1>3, <1>4, <1>5 DEF IInv, GrownTo

LEMMA CreateByteVectorPreserves ==
    ASSUME IInv, ~nested, NEW s \in Texts, CreateByteVector(s)
    PROVE  IInv' /\ GrownTo(buf, buf') /\ Offset(buf') - 4 - TextLen[s] >= Offset(buf)
<1> DEFINE n == TextLen[s]
           b == Prep(buf, 4, n)
<1>1. n \in Nat
  BY SizesAssumption
<1>2. IsBuffer(buf)
  BY DEF IInv
<1> HIDE DEF n
<1>3. Preps(buf, b, 4, n)
  BY <1>1, <1>2, PrepPreps
<1> HIDE DEF b
<1>4. GrownTo(buf, b) /\ IsBuffer(b) /\ b.head >= n + 4 /\ (Offset(b) + n) % 4 = 0
  BY <1>1, <1>3, BufferFacts DEF Preps, GrownTo
<1>5. TextPlaced(b, WithText(b, s), s)
  BY <1>4, TextIsPlaced DEF n
<1>6. /\ buf' = WithText(b, s)
      /\ made' = made \cup {[kind |-> "bytes", at |-> Offset(buf'), text |-> s]}
      /\ UNCHANGED <<vtable, objectEnd, vtables, nested, finished, sharedStrings, open>>
  BY DEF CreateByteVector, SizeUOffsetT, n, b
<1>7. GrownTo(buf, buf') /\ Contents' /\ OpenInv'
  BY <1>4, <1>5, <1>6, AddTextPreserves
<1>8. SharedInv'
  BY <1>6, SharedStays
<1>9. Offset(buf') - 4 - n >= Offset(buf)
  <2>1. Offset(buf) \in Nat /\ Offset(b) \in Nat /\ Offset(buf) <= Offset(b)
    BY <1>2, <1>4, BufferFacts DEF GrownTo, Keeps
  <2>2. Offset(buf') = Offset(b) + n + 4
    BY <1>5, <1>6 DEF TextPlaced, SizeUOffsetT, n
  <2> QED BY <1>1, <2>1, <2>2
<1> QED BY <1>6, <1>7, <1>8, <1>9 DEF IInv, GrownTo, n

-----------------------------------------------------------------------------
(* The whole buffer.                                                       *)

PrefixOf(sizePrefix) == IF sizePrefix THEN sizePrefixLength ELSE 0

(* The identifier leaves room for what finish puts in front of it.         *)
Identified(c, rest, fid) ==
    /\ GrownTo(buf, c) /\ c.minalign = buf.minalign
    /\ fid = 0 => c = buf
    /\ fid # 0 => /\ HasAt(c, Offset(c), fileIdentifierLength, fid)
                  /\ Offset(c) - fileIdentifierLength >= Offset(buf)
                  /\ (Offset(c) + (SizeUOffsetT + rest)) % c.minalign = 0

LEMMA IdentifierIsPlaced ==
    ASSUME IsBuffer(buf), NEW fid \in Nat, NEW sizePrefix \in BOOLEAN
    PROVE  Identified(WithIdentifier(fid, sizePrefix), PrefixOf(sizePrefix), fid)
<1>1. CASE fid = 0
  BY <1>1, GrownToItself DEF WithIdentifier, Identified
<1>2. CASE fid # 0
  <2> DEFINE rest == PrefixOf(sizePrefix)
             p == Prep(buf, buf.minalign, 8 + rest)
             c == Place(p, 4, fid)
  <2>1. rest \in {0, 4} /\ buf.minalign \in {1, 2, 4, 8} /\ fid \in Int
    BY BufferFacts DEF PrefixOf, sizePrefixLength
  <2> HIDE DEF rest
  <2>2. WithIdentifier(fid, sizePrefix) = c
    <3>1. SizeUint32 + fileIdentifierLength + (IF sizePrefix THEN sizePrefixLength ELSE 0) = 8 + rest
      BY DEF SizeUint32, fileIdentifierLength, rest, PrefixOf, sizePrefixLength
    <3>2. WithIdentifier(fid, sizePrefix)
            = Place(Prep(buf, buf.minalign,
                         SizeUint32 + fileIdentifierLength
                            + (IF sizePrefix THEN sizePrefixLength ELSE 0)), fileIdentifierLength, fid)
      BY <1>2 DEF WithIdentifier
    <3> QED BY <3>1, <3>2 DEF fileIdentifierLength
  <2>3. Preps(buf, p, buf.minalign, 8 + rest) /\ p.minalign = buf.minalign
    BY <2>1, PrepPreps
  <2> HIDE DEF p
  <2>4. IsBuffer(p) /\ GrownTo(buf, p) /\ 4 <= p.head
        /\ (Offset(p) + (8 + rest)) % buf.minalign = 0
    BY <2>1, <2>3, BufferFacts DEF Preps, GrownTo
  <2>5. Places(p, c, 4, fid)
    BY <2>1, <2>4, PlacePlaces
  <2> HIDE DEF c
  <2>6. IsBuffer(c) /\ GrownTo(p, c) /\ Offset(c) = Offset(p) + 4 /\ HasAt(c, Offset(c), 4, fid)
        /\ c.minalign = buf.minalign
    BY <2>3, <2>4, <2>5, BufferFacts DEF Places, GrownTo
  <2>7. GrownTo(buf, c)
    BY <2>4, <2>6, GrownToOn
  <2>8. (Offset(c) + (4 + rest)) % c.minalign = 0
    <3>1. Offset(p) \in Nat
      BY <2>4, BufferFacts
    <3>2. Offset(c) + (4 + rest) = Offset(p) + (8 + rest)
      BY <2>1, <2>6, <3>1
    <3> QED BY <2>4, <2>6, <3>2
  <2>9. Offset(c) - 4 >= Offset(buf)
    <3>1. Offset(buf) \in Nat /\ Offset(p) \in Nat /\ Offset(buf) <= Offset(p)
      BY <2>4, BufferFacts DEF GrownTo, Keeps
    <3> QED BY <2>6, <3>1
  <2> QED BY <1>2, <2>2, <2>6, <2>7, <2>8, <2>9
         DEF Identified, SizeUOffsetT, fileIdentifierLength, rest
<1> QED BY <1>1, <1>2

(* What finish writes: the offset of the root, and the prefix.             *)
IsFinished(b, c, root, sizePrefix) ==
    LET at == Offset(c) - PrefixOf(sizePrefix)
    IN /\ GrownTo(b, c)
       /\ Offset(c) > Offset(b) /\ at - SizeUOffsetT >= Offset(b)
       /\ Offset(c) % b.minalign = 0
       /\ HasAt(c, at, SizeUOffsetT, at - root)
       /\ sizePrefix => HasAt(c, Offset(c), SizeUint32, at)
       /\ (Offset(b) + (SizeUOffsetT + PrefixOf(sizePrefix))) % b.minalign = 0
             => at - SizeUOffsetT = Offset(b)

LEMMA NoPadding ==
    ASSUME NEW m \in {4, 8}, NEW n \in Nat, NEW rest \in {0, 4}
    PROVE  /\ (n + (4 + rest)) % m = 0 => (4 - ((n + 0) % 4)) % 4 = 0
           /\ (n + (4 + rest)) % m = 0 => (m - ((n + (4 + rest)) % m)) % m = 0
<1>1. CASE m = 4
  <2>1. CASE rest = 0
    BY <1>1, <2>1
  <2>2. CASE rest = 4
    BY <1>1, <2>2
  <2> QED BY <2>1, <2>2
<1>2. CASE m = 8
  <2>1. CASE rest = 0
    BY <1>2, <2>1
  <2>2. CASE rest = 4
    BY <1>2, <2>2
  <2> QED BY <2>1, <2>2
<1> QED BY <1>1, <1>2

LEMMA FinishFinishes ==
    ASSUME NEW b, IsBuffer(b), b.minalign >= 4, NEW root \in 0..Offset(b), NEW sizePrefix \in BOOLEAN
    PROVE  IsFinished(b, FinishedBuffer(b, root, sizePrefix), root, sizePrefix)
<1> DEFINE rest == PrefixOf(sizePrefix)
           m == b.minalign
           p == Prep(b, m, 4 + rest)
           r == PrependUOffsetT(p, root)
           c == IF sizePrefix THEN Place(r, 4, Offset(r)) ELSE r
<1>1. rest \in {0, 4} /\ m \in {4, 8} /\ (sizePrefix => rest = 4) /\ (~sizePrefix => rest = 0)
  BY BufferFacts DEF PrefixOf, sizePrefixLength
<1>2. FinishedBuffer(b, root, sizePrefix) = c
  BY DEF FinishedBuffer, PrefixOf, SizeUOffsetT, SizeUint32
<1> HIDE DEF rest, m
<1>3. Preps(b, p, m, 4 + rest)
  <2>1. m \in {1, 2, 4, 8} /\ 4 + rest \in Nat
    BY <1>1
  <2> HIDE DEF p
  <2> QED BY <2>1, PrepPreps DEF p
<1> HIDE DEF p
<1>4. IsBuffer(p) /\ GrownTo(b, p)
  BY <1>3 DEF Preps, GrownTo
<1>5. PICK o \in Nat, n \in Nat, h \in Nat : o = Offset(b) /\ n = Offset(p) /\ h = p.head /\ o <= n
  BY <1>4, BufferFacts DEF GrownTo, Keeps
<1>6. /\ (n + (4 + rest)) % m = 0
      /\ h > m + (4 + rest)
      /\ n = o + ((m - ((o + (4 + rest)) % m)) % m)
  BY <1>3, <1>5 DEF Preps, Padding
<1>7. (4 - ((n + 0) % 4)) % 4 = 0
  BY <1>1, <1>6, NoPadding
<1>8. (o + (4 + rest)) % m = 0 => n = o
  <2>1. (o + (4 + rest)) % m = 0 => (m - ((o + (4 + rest)) % m)) % m = 0
    BY <1>1, NoPadding
  <2> QED BY <1>6, <2>1
<1>9. Prepends(p, r, 4, Offset(r) - root)
  <2>1. root \in 0..Offset(p)
    BY <1>5
  <2> QED BY <1>4, <2>1, PrependUOffsetTPrepends DEF SizeUOffsetT
<1> HIDE DEF r
<1>10. GrownTo(p, r) /\ IsBuffer(r) /\ GrownTo(b, r)
  <2>1. GrownTo(p, r)
    BY <1>4, <1>9, PrependsGrows
  <2> QED BY <1>4, <2>1, GrownToOn DEF GrownTo
<1>11. Offset(r) = n + 4 /\ HasAt(r, n + 4, 4, n + 4 - root) /\ r.head >= h - 4
  <2>1. Padding(p, 4, 0) = 0
    BY <1>5, <1>7 DEF Padding
  <2> QED BY <1>5, <1>9, <2>1 DEF Prepends
<1>12. CASE ~sizePrefix
  <2>1. c = r /\ rest = 0
    BY <1>1, <1>12
  <2>2. Offset(c) - rest = n + 4 /\ Offset(c) > o /\ (Offset(c) - rest) - 4 = n /\ n >= o
    BY <1>5, <1>11, <2>1
  <2>3. Offset(c) % m = 0
    BY <1>6, <1>11, <2>1
  <2> QED BY <1>2, <1>5, <1>8, <1>10, <1>11, <1>12, <2>1, <2>2, <2>3
         DEF IsFinished, SizeUOffsetT, rest, m
<1>13. CASE sizePrefix
  <2>1. c = Place(r, 4, n + 4) /\ rest = 4
    BY <1>1, <1>11, <1>13
  <2>2. 4 <= r.head
    <3>1. r.head \in Nat
      BY <1>10, BufferFacts
    <3> QED BY <1>1, <1>5, <1>6, <1>11, <3>1
  <2> HIDE DEF c
  <2>3. Places(r, c, 4, n + 4)
    BY <1>10, <2>1, <2>2, PlacePlaces
  <2>4. GrownTo(r, c) /\ Offset(c) = n + 4 + 4 /\ HasAt(c, Offset(c), 4, n + 4)
    BY <1>10, <1>11, <2>3, BufferFacts DEF Places, GrownTo
  <2>5. GrownTo(b, c)
    BY <1>10, <2>4, GrownToOn
  <2>6. HasAt(c, n + 4, 4, n + 4 - root)
    BY <1>10, <1>11, <2>4, HasStill DEF GrownTo
  <2>7. Offset(c) - rest = n + 4 /\ Offset(c) > o /\ (Offset(c) - rest) - 4 = n
    BY <1>5, <2>1, <2>4
  <2>8. Offset(c) % m = 0
    <3>1. Offset(c) = n + (4 + rest)
      BY <1>5, <2>1, <2>4
    <3> QED BY <1>6, <3>1
  <2> DEFINE at == Offset(c) - rest
  <2>9. at = n + 4
    BY <2>7
  <2>10. /\ HasAt(c, at, 4, at - root) /\ HasAt(c, Offset(c), 4, at)
         /\ (o + (4 + rest)) % m = 0 => at - 4 = o
         /\ at - 4 >= o
    BY <1>5, <1>8, <2>4, <2>6, <2>7, <2>9
  <2>11. Offset(c) > Offset(b)
    BY <1>5, <2>7
  <2> HIDE DEF at
  <2>12. IsFinished(b, c, root, sizePrefix)
    BY <1>5, <1>13, <2>5, <2>8, <2>10, <2>11
       DEF IsFinished, SizeUOffsetT, SizeUint32, rest, m, at
  <2> QED BY <1>2, <2>12
<1> QED BY <1>12, <1>13

(* A buffer aligned to minalign is aligned for all that is in it.          *)
LEMMA AlignedForAll ==
    ASSUME IInv, NEW t \in made, NEW x, x.at \in Nat, x.at % buf.minalign = 0
    PROVE  AlignedFor(x, t)
<1>1. MadeAt(buf, vtables, t) /\ Tracked(buf, t)
  BY DEF IInv, Contents, AllMade
<1>2. buf.minalign \in {1, 2, 4, 8}
  BY BufferFacts DEF IInv
<1>3. ASSUME NEW a \in {1, 2, 4, 8}, buf.minalign >= a PROVE x.at % a = 0
  <2>1. PICK n \in Nat, m \in {1, 2, 4, 8} : n = x.at /\ m = buf.minalign
    BY <1>2
  <2>2. n % m = 0 /\ a <= m
    BY <1>3, <2>1
  <2>3. n % a = 0
    <3>1. CASE a = 1
      BY <3>1
    <3>2. CASE a = 2
      <4>1. CASE m = 2
        BY <2>2, <3>2, <4>1
      <4>2. CASE m = 4
        BY <2>2, <3>2, <4>2
      <4>3. CASE m = 8
        BY <2>2, <3>2, <4>3
      <4> QED BY <2>2, <3>2, <4>1, <4>2, <4>3
    <3>3. CASE a = 4
      <4>1. CASE m = 4
        BY <2>2, <3>3, <4>1
      <4>2. CASE m = 8
        BY <2>2, <3>3, <4>2
      <4> QED BY <2>2, <3>3, <4>1, <4>2
    <3>4. CASE a = 8
      BY <2>2, <3>4
    <3> QED BY <3>1, <3>2, <3>3, <3>4
  <2> QED BY <2>1, <2>3
<1>4. ASSUME t.kind = "table", NEW o \in DOMAIN t.fields PROVE x.at % Alignment(o) = 0
  <2>1. o \in Fields
    BY <1>1, <1>4 DEF MadeAt, TableAt
  <2>2. Alignment(o) \in {1, 2, 4, 8} /\ buf.minalign >= Alignment(o)
    BY <1>1, <1>4, <2>1, SizesAreNumbers DEF Tracked
  <2> QED BY <1>3, <2>2
<1>5. ASSUME t.kind = "vector" PROVE x.at % t.alignment = 0
  <2>1. t.alignment \in {1, 2, 4, 8} /\ buf.minalign >= t.alignment
    BY <1>1, <1>5 DEF MadeAt, VectorAt, Tracked
  <2> QED BY <1>3, <2>1
<1> QED BY <1>4, <1>5 DEF AlignedFor

LEMMA FinishPreserves ==
    ASSUME IInv, NEW sizePrefix \in BOOLEAN, NEW fid \in Identifiers \cup {0},
           FinishSomeTable(sizePrefix, fid)
    PROVE  IInv' /\ GrownTo(buf, buf')
<1>1. PICK t \in Tables : Finish(t.at, sizePrefix, fid)
  BY DEF FinishSomeTable
<1> DEFINE c == WithIdentifier(fid, sizePrefix)
           rest == PrefixOf(sizePrefix)
<1>2. IsBuffer(buf) /\ OpenInv /\ fid \in Nat
  BY ValuesAssumption DEF IInv
<1>3. Identified(c, rest, fid)
  BY <1>2, IdentifierIsPlaced
<1> HIDE DEF c
<1>4. IsBuffer(c) /\ GrownTo(buf, c) /\ c.minalign = buf.minalign
  BY <1>3 DEF Identified, GrownTo
<1>5. CASE nested
  <2>1. /\ buf' = c
        /\ open' = IF fid # 0 /\ open.kind = "vector" THEN Spoiled ELSE open
        /\ UNCHANGED <<vtable, objectEnd, vtables, nested, finished, sharedStrings, made>>
    BY <1>1, <1>5 DEF Finish, c
  <2>2. Contents' /\ SharedInv'
    BY <1>4, <2>1, ContentsStay, SharedStays
  <2>3. OpenInv'
    <3>1. CASE fid # 0 /\ open.kind = "vector"
      <4>1. open' = [kind |-> "spoiled"]
        BY <2>1, <3>1 DEF Spoiled
      <4>2. open'.kind = "spoiled" /\ vtable = <<>>
        BY <1>2, <3>1, <4>1 DEF OpenInv
      <4> QED BY <1>2, <1>5, <2>1, <4>2 DEF OpenInv
    <3>2. CASE ~(fid # 0 /\ open.kind = "vector")
      <4>1. open' = open /\ (open.kind = "vector" => buf' = buf)
        BY <1>3, <2>1, <3>2 DEF Identified
      <4> QED BY <1>4, <2>1, <4>1, OpenStays
    <3> QED BY <3>1, <3>2
  <2> QED BY <1>4, <2>1, <2>2, <2>3 DEF IInv
<1>6. CASE ~nested
  <2> DEFINE x == [kind |-> "buffer", at |-> Offset(buf'), root |-> t.at,
                   prefixed |-> sizePrefix, identifier |-> fid]
  <2>1. /\ buf' = FinishedBuffer(c, t.at, sizePrefix)
        /\ finished' = TRUE
        /\ made' = made \cup {x}
        /\ UNCHANGED <<vtable, objectEnd, vtables, nested, sharedStrings, open>>
    BY <1>1, <1>6 DEF Finish, c
  <2>2. x.kind = "buffer" /\ x.at = Offset(buf') /\ x.root = t.at
        /\ x.prefixed = sizePrefix /\ x.identifier = fid
    OBVIOUS
  <2> HIDE DEF x
  <2>3. t \in made /\ t.at \in 4..Offset(buf) /\ buf.minalign >= 4
    BY <1>1 DEF Tables, IInv, Contents, AllMade, MadeAt, Tracked, SizeUOffsetT
  <2>4. PICK o \in Nat, n \in Nat, m \in Nat :
           o = Offset(buf) /\ n = Offset(c) /\ m = c.minalign /\ o <= n
    BY <1>2, <1>4, BufferFacts DEF GrownTo, Keeps
  <2>5. IsFinished(c, buf', t.at, sizePrefix)
    <3>1. t.at \in 0..Offset(c) /\ c.minalign >= 4
      BY <1>4, <2>3, <2>4
    <3> QED BY <1>4, <2>1, <3>1, FinishFinishes
  <2> DEFINE at == Offset(buf') - rest
  <2>6. /\ GrownTo(c, buf') /\ Offset(buf') > n /\ Offset(buf') % m = 0
        /\ HasAt(buf', at, 4, at - t.at)
        /\ sizePrefix => HasAt(buf', Offset(buf'), 4, at)
        /\ (n + (4 + rest)) % m = 0 => at - 4 = n
    BY <2>4, <2>5 DEF IsFinished, SizeUOffsetT, SizeUint32
  <2> HIDE DEF rest
  <2>7. GrownTo(buf, buf') /\ IsBuffer(buf')
    BY <1>2, <1>4, <2>6, GrownToOn DEF GrownTo
  <2>8. PICK p \in Nat : p = Offset(buf')
    BY <2>7, BufferFacts
  <2>9. RootAt(x) = at
    BY <2>2 DEF RootAt, rest, PrefixOf
  <2>10. BufferAt(buf', x)
    <3>1. sizePrefix => HasAt(buf', x.at, 4, x.at - 4)
      <4>1. sizePrefix => rest = 4
        BY DEF rest, PrefixOf, sizePrefixLength
      <4> QED BY <2>2, <2>6, <4>1
    <3>2. fid # 0 => HasAt(buf', at - 4, 4, fid)
      <4>1. ASSUME fid # 0 PROVE HasAt(buf', at - 4, 4, fid)
        <5>1. HasAt(c, n, 4, fid) /\ (n + (4 + rest)) % m = 0
          BY <1>3, <2>4, <4>1 DEF Identified, SizeUOffsetT, fileIdentifierLength
        <5>2. HasAt(buf', n, 4, fid)
          BY <1>4, <2>6, <2>7, <5>1, HasStill DEF GrownTo
        <5> QED BY <2>6, <5>1, <5>2
      <4> QED BY <4>1
    <3>3. x.root \in Nat /\ x.identifier \in Nat /\ x.prefixed \in BOOLEAN
      BY <1>2, <2>2, <2>3
    <3> HIDE DEF at
    <3> QED BY <2>2, <2>6, <2>9, <3>1, <3>2, <3>3
           DEF BufferAt, SizeUOffsetT, SizeUint32, sizePrefixLength, fileIdentifierLength
  <2>11. MadeAt(buf', vtables, x)
    <3>1. x.at \in 4..Offset(buf')
      BY <2>2, <2>3, <2>4, <2>6, <2>8
    <3> QED BY <2>2, <2>10, <3>1 DEF MadeAt, SizeUOffsetT
  <2>12. Tracked(buf', x)
    BY <2>2 DEF Tracked
  <2>13. x.at > Offset(buf) /\ \A u \in made : AlignedFor(x, u)
    <3>1. x.at \in Nat /\ x.at > Offset(buf)
      BY <2>2, <2>4, <2>6, <2>8
    <3>2. x.at % buf.minalign = 0
      BY <1>4, <2>2, <2>4, <2>6
    <3> QED BY <3>1, <3>2, AlignedForAll
  <2>14. Contents'
    BY <2>1, <2>7, <2>11, <2>12, <2>13, ContentsGainOne
  <2>15. SharedInv'
    BY <2>1, SharedStays
  <2>16. OpenInv'
    BY <1>2, <1>6, <2>1, <2>7, OpenStays DEF OpenInv
  <2> QED BY <2>1, <2>7, <2>14, <2>15, <2>16 DEF IInv
<1> QED BY <1>5, <1>6

LEMMA ResetPreserves ==
    ASSUME IInv, Reset
    PROVE  IInv' /\ Offset(buf') = 0
<1>1. /\ buf' = ResetBuffer(buf) /\ vtables' = <<>> /\ vtable' = <<>> /\ sharedStrings' = <<>>
      /\ nested' = FALSE /\ finished' = FALSE /\ open' = NothingOpen /\ made' = {}
      /\ objectEnd' = objectEnd
  BY DEF Reset
<1>2. IsBuffer(buf') /\ Offset(buf') = 0
  BY <1>1, ResetIsEmpty DEF IInv
<1>3. Contents'
  BY <1>1 DEF Contents, VtablesAt, AllMade, InLine
<1>4. OpenInv'
  BY <1>1 DEF OpenInv, NothingOpen
<1>5. SharedInv'
  BY <1>1 DEF SharedInv, SharedStringsAreThere
<1> QED BY <1>1, <1>2, <1>3, <1>4, <1>5 DEF IInv

-----------------------------------------------------------------------------
(* Vtables.                                                                *)

LEMMA TrimmedParts ==
    ASSUME NEW v \in Seq(Nat)
    PROVE  /\ Trimmed(v) \in Seq(Nat) /\ Len(Trimmed(v)) <= Len(v)
           /\ \A i \in 1..Len(Trimmed(v)) : Trimmed(v)[i] = v[i]
           /\ \A i \in (Len(Trimmed(v)) + 1)..Len(v) : v[i] = 0
<1> DEFINE last(n) == /\ n = 0 \/ v[n] # 0
                      /\ \A i \in (n + 1)..Len(v) : v[i] = 0
           T == {n \in 0..Len(v) : \A i \in (n + 1)..Len(v) : v[i] = 0}
<1>1. PICK l \in Nat : l = Len(v)
  OBVIOUS
<1>2. l \in T /\ T \subseteq Nat
  BY <1>1
<1>3. PICK n \in T : \A m \in T : n <= m
  <2> HIDE DEF T
  <2> QED BY <1>2, LeastNat
<1>4. n = 0 \/ v[n] # 0
  <2> SUFFICES ASSUME n # 0, v[n] = 0 PROVE FALSE
    OBVIOUS
  <2>1. n \in 1..l /\ n - 1 \in 0..l
    BY <1>1, <1>3
  <2>2. \A i \in ((n - 1) + 1)..l : v[i] = 0
    BY <1>1, <1>3, <2>1
  <2>3. n - 1 \in T
    BY <1>1, <2>1, <2>2
  <2> HIDE DEF T
  <2>4. n <= n - 1
    BY <1>3, <2>3
  <2> QED BY <2>1, <2>4
<1>5. n \in 0..Len(v) /\ last(n)
  BY <1>3, <1>4
<1> DEFINE k == CHOOSE m \in 0..Len(v) : last(m)
<1>6. k \in 0..Len(v) /\ last(k)
  <2> HIDE DEF last
  <2> QED BY <1>5
<1>7. Trimmed(v) = SubSeq(v, 1, k)
  BY DEF Trimmed
<1> HIDE DEF k, T
<1>8. k \in Nat /\ k <= l
  BY <1>1, <1>6
<1>9. SubSeq(v, 0 + 1, 0 + k) \in Seq(Nat) /\ Len(SubSeq(v, 0 + 1, 0 + k)) = k
      /\ \A i \in 1..k : SubSeq(v, 0 + 1, 0 + k)[i] = v[0 + i]
  BY <1>1, <1>8, MiddleParts
<1>10. 0 + 1 = 1 /\ 0 + k = k /\ \A i \in 1..k : 0 + i = i
  BY <1>8
<1>11. Trimmed(v) \in Seq(Nat) /\ Len(Trimmed(v)) = k /\ \A i \in 1..k : Trimmed(v)[i] = v[i]
  BY <1>7, <1>9, <1>10
<1> QED BY <1>1, <1>6, <1>8, <1>11

LEMMA EvenAfter ==
    ASSUME NEW k \in Nat, k % 4 = 0, NEW n \in Nat
    PROVE  (k + 2 * n) % 2 = 0
<1>1. PICK q \in Nat : k = 4 * q
  OBVIOUS
<1> DEFINE r == 2 * q + n
<1>2. k + 2 * n = 2 * r /\ r \in Nat
  BY <1>1
<1> HIDE DEF r
<1>3. (2 * r) % 2 = 0
  BY <1>2
<1> QED BY <1>2, <1>3

LEMMA PrependShort ==
    ASSUME NEW b, IsBuffer(b), Offset(b) % 2 = 0, NEW x \in Int
    PROVE  LET c == Prepend(b, SizeVOffsetT, x)
           IN GrownTo(b, c) /\ Offset(c) = Offset(b) + 2 /\ NumAt(c, Offset(c)) = x
<1> DEFINE c == Prepend(b, 2, x)
<1>1. Prepends(b, c, 2, x)
  BY PrependPrepends
<1> HIDE DEF c
<1>2. PICK n \in Nat : n = Offset(b) /\ n % 2 = 0
  BY BufferFacts
<1>3. Padding(b, 2, 0) = 0
  <2>1. (2 - ((n + 0) % 2)) % 2 = 0
    BY <1>2
  <2> QED BY <1>2, <2>1 DEF Padding
<1>4. Offset(c) = Offset(b) + 2 /\ GrownTo(b, c)
  BY <1>1, <1>2, <1>3, PrependsGrows DEF Prepends
<1>5. NumAt(c, Offset(c)) = x
  BY <1>1, HasNum DEF Prepends
<1> QED BY <1>4, <1>5 DEF SizeVOffsetT, c

AreEntries(g, b, E, N) ==
    g = [n \in 0..N |-> IF n = 0 THEN b ELSE Prepend(g[n - 1], SizeVOffsetT, E[N - n + 1])]

(* The buffers with more and more of the entries are defined.              *)
LEMMA EntriesAreDefined ==
    ASSUME NEW b, NEW E, NEW N \in Nat
    PROVE  \E g : AreEntries(g, b, E, N)
<1> DEFINE next(h, n) == Prepend(h, SizeVOffsetT, E[N - n + 1])
           upTo(n, g) == g = [m \in 0..n |-> IF m = 0 THEN b ELSE next(g[m - 1], m)]
           T == {n \in 0..N : \E g : upTo(n, g)}
<1> HIDE DEF next
<1>1. 0 \in T
  <2> DEFINE g == [m \in 0..0 |-> b]
  <2>1. g = [m \in 0..0 |-> IF m = 0 THEN b ELSE next(g[m - 1], m)]
    OBVIOUS
  <2>2. upTo(0, g)
    BY <2>1
  <2> HIDE DEF g, upTo
  <2> QED BY <2>2
<1>2. ASSUME NEW n \in 0..(N - 1), n \in T PROVE n + 1 \in T
  <2>1. PICK g : upTo(n, g)
    BY <1>2
  <2> DEFINE h == [m \in 0..(n + 1) |-> IF m = n + 1 THEN next(g[n], n + 1) ELSE g[m]]
  <2>2. ASSUME NEW m \in 0..(n + 1)
        PROVE  h[m] = IF m = 0 THEN b ELSE next(h[m - 1], m)
    <3>1. CASE m = n + 1
      <4>1. m # 0 /\ m - 1 = n /\ n \in 0..(n + 1) /\ n # n + 1
        BY <3>1
      <4>2. h[m] = next(g[n], n + 1) /\ h[m - 1] = g[n]
        BY <3>1, <4>1
      <4> QED BY <3>1, <4>1, <4>2
    <3>2. CASE m # n + 1
      <4>1. m \in 0..n
        BY <3>2
      <4>2. g[m] = IF m = 0 THEN b ELSE next(g[m - 1], m)
        BY <2>1, <4>1
      <4>3. h[m] = g[m]
        BY <3>2
      <4>4. m # 0 => h[m - 1] = g[m - 1]
        BY <4>1
      <4> QED BY <4>2, <4>3, <4>4
    <3> QED BY <3>1, <3>2
  <2>3. upTo(n + 1, h)
    BY <2>2
  <2> HIDE DEF h, upTo
  <2> QED BY <2>3
<1> HIDE DEF T
<1>3. N \in T
  BY <1>1, <1>2, UpTo
<1> QED BY <1>3 DEF T, next, AreEntries

EntryOf(off, objectOffset) == VOffsetT(IF off = 0 THEN 0 ELSE objectOffset - off)

(* The vtable stands in front, entry by entry.                             *)
HasVtable(b, w, v, objectOffset) ==
    /\ GrownTo(b, w) /\ Offset(w) = Offset(b) + 2 * (Len(v) + 2)
    /\ NumAt(w, Offset(w)) = VOffsetT((Len(v) + 2) * 2)
    /\ \A i \in 1..Len(v) :
          NumAt(w, Offset(w) - (i + 1) * 2) = EntryOf(v[i], objectOffset)

LEMMA VtableIsPlaced ==
    ASSUME NEW b, IsBuffer(b), Offset(b) % 4 = 0, objectEnd \in Nat,
           NEW v \in Seq(Nat), NEW oo \in Nat
    PROVE  HasVtable(b, WithVtable(b, v, oo), v, oo)
<1>1. PICK L \in Nat, k \in Nat : L = Len(v) /\ k = Offset(b) /\ k % 4 = 0
  BY BufferFacts
<1> DEFINE E == [i \in 1..L |-> EntryOf(v[i], oo)]
           next(h, n) == Prepend(h, SizeVOffsetT, EntryOf(v[L - n + 1], oo))
           entries == CHOOSE g : g = [n \in 0..L |-> IF n = 0 THEN b ELSE next(g[n - 1], n)]
           sized == Prepend(entries[L], SizeVOffsetT, VOffsetT(oo - objectEnd))
           w == Prepend(sized, SizeVOffsetT, VOffsetT((L + 2) * 2))
<1>2. WithVtable(b, v, oo) = w
  BY <1>1 DEF WithVtable, EntryOf, VtableMetadataFields, SizeVOffsetT
<1>3. \A i \in 1..L : E[i] = EntryOf(v[i], oo) /\ EntryOf(v[i], oo) \in Int
  BY <1>1 DEF EntryOf, VOffsetT
<1> HIDE DEF E
<1>4. \A g : \A n \in 1..L : next(g, n) = Prepend(g, SizeVOffsetT, E[L - n + 1])
  <2>1. \A n \in 1..L : L - n + 1 \in 1..L
    OBVIOUS
  <2> QED BY <1>3, <2>1
<1>5. entries = [n \in 0..L |-> IF n = 0 THEN b ELSE next(entries[n - 1], n)]
  <2>1. PICK g : g = [n \in 0..L |-> IF n = 0 THEN b
                                     ELSE Prepend(g[n - 1], SizeVOffsetT, E[L - n + 1])]
    <3>1. \E g : AreEntries(g, b, E, L)
      BY EntriesAreDefined
    <3> QED BY <3>1 DEF AreEntries
  <2>2. \A n \in 0..L : n = 0 \/ n \in 1..L
    OBVIOUS
  <2> HIDE DEF next
  <2>3. g = [n \in 0..L |-> IF n = 0 THEN b ELSE next(g[n - 1], n)]
    BY <1>4, <2>1, <2>2
  <2> QED BY <2>3
<1> HIDE DEF entries, next
<1>6. entries[0] = b /\ \A n \in 0..(L - 1) : entries[n + 1] = Prepend(entries[n], SizeVOffsetT, E[L - n])
  <2>1. entries[0] = b
    BY <1>5
  <2>2. ASSUME NEW n \in 0..(L - 1)
        PROVE  entries[n + 1] = Prepend(entries[n], SizeVOffsetT, E[L - n])
    <3>1. n + 1 \in 0..L /\ n + 1 \in 1..L /\ n + 1 # 0 /\ (n + 1) - 1 = n /\ L - (n + 1) + 1 = L - n
      OBVIOUS
    <3>2. entries[n + 1] = next(entries[n], n + 1)
      BY <1>5, <3>1
    <3> QED BY <1>4, <3>1, <3>2
  <2> QED BY <2>1, <2>2
<1> DEFINE good(n) == /\ GrownTo(b, entries[n])
                      /\ Offset(entries[n]) = k + 2 * n
                      /\ \A i \in (L - n + 1)..L : NumAt(entries[n], k + 2 * (L - i + 1)) = E[i]
           T == {n \in 0..L : good(n)}
<1>7. \A n \in 0..L : n \in T
  <2>1. 0 \in T
    BY <1>1, <1>6, GrownToItself
  <2>2. ASSUME NEW n \in 0..(L - 1), n \in T PROVE n + 1 \in T
    <3> DEFINE g == entries[n]
               h == entries[n + 1]
    <3>1. good(n) /\ n \in Nat /\ L - n \in 1..L
      BY <2>2
    <3>2. IsBuffer(g) /\ Offset(g) % 2 = 0 /\ E[L - n] \in Int
      <4>1. (k + 2 * n) % 2 = 0
        BY <1>1, <3>1, EvenAfter
      <4> QED BY <1>3, <3>1, <4>1 DEF GrownTo
    <3>3. GrownTo(g, h) /\ Offset(h) = Offset(g) + 2 /\ NumAt(h, Offset(h)) = E[L - n]
      <4>1. h = Prepend(g, SizeVOffsetT, E[L - n])
        BY <1>6
      <4> HIDE DEF g, h
      <4> QED BY <3>2, <4>1, PrependShort
    <3>4. GrownTo(b, h)
      BY <3>1, <3>3, GrownToOn
    <3>5. Offset(h) = k + 2 * (n + 1)
      BY <3>1, <3>3
    <3>6. ASSUME NEW i \in (L - (n + 1) + 1)..L
          PROVE  NumAt(h, k + 2 * (L - i + 1)) = E[i]
      <4>1. CASE i = L - n
        <5>1. k + 2 * (L - i + 1) = Offset(h)
          BY <3>1, <3>5, <4>1
        <5> QED BY <3>3, <4>1, <5>1
      <4>2. CASE i # L - n
        <5>1. i \in (L - n + 1)..L
          BY <3>1, <4>2
        <5>2. k + 2 * (L - i + 1) \in 1..Offset(g)
          BY <3>1, <5>1
        <5>3. NumAt(h, k + 2 * (L - i + 1)) = NumAt(g, k + 2 * (L - i + 1))
          BY <3>3, <5>2, NumStill DEF GrownTo
        <5> QED BY <3>1, <5>1, <5>3
      <4> QED BY <4>1, <4>2
    <3>7. good(n + 1) /\ n + 1 \in 0..L
      BY <3>4, <3>5, <3>6
    <3> HIDE DEF good
    <3> QED BY <3>7
  <2> HIDE DEF T
  <2> QED BY <2>1, <2>2, UpTo
<1> DEFINE e == entries[L]
<1>8. GrownTo(b, e) /\ Offset(e) = k + 2 * L /\ \A i \in 1..L : NumAt(e, k + 2 * (L - i + 1)) = E[i]
  <2>1. L \in T /\ L - L + 1 = 1
    BY <1>7
  <2> QED BY <2>1
<1> HIDE DEF e, T
<1>9. VOffsetT(oo - objectEnd) \in Int /\ VOffsetT((L + 2) * 2) \in Int
  BY DEF VOffsetT
<1>10. GrownTo(e, sized) /\ Offset(sized) = Offset(e) + 2
  <2>1. IsBuffer(e) /\ Offset(e) % 2 = 0
    <3>1. (k + 2 * L) % 2 = 0
      BY <1>1, EvenAfter
    <3> QED BY <1>8, <3>1 DEF GrownTo
  <2>2. sized = Prepend(e, SizeVOffsetT, VOffsetT(oo - objectEnd))
    BY DEF e
  <2> HIDE DEF sized
  <2> QED BY <1>9, <2>1, <2>2, PrependShort
<1> HIDE DEF sized
<1>11. GrownTo(sized, w) /\ Offset(w) = Offset(sized) + 2
       /\ NumAt(w, Offset(w)) = VOffsetT((L + 2) * 2)
  <2>1. IsBuffer(sized) /\ Offset(sized) % 2 = 0
    <3>1. (k + 2 * (L + 1)) % 2 = 0 /\ k + 2 * (L + 1) = k + 2 * L + 2
      BY <1>1, EvenAfter
    <3> QED BY <1>8, <1>10, <3>1 DEF GrownTo
  <2> QED BY <1>9, <2>1, PrependShort
<1> HIDE DEF w
<1>12. GrownTo(e, w) /\ GrownTo(b, w)
  <2>1. IsBuffer(e)
    BY <1>8 DEF GrownTo
  <2>2. GrownTo(e, w)
    BY <1>10, <1>11, <2>1, GrownToOn
  <2> QED BY <1>8, <2>2, GrownToOn
<1>13. Offset(w) = k + 2 * (L + 2)
  BY <1>8, <1>10, <1>11
<1>14. ASSUME NEW i \in 1..L
       PROVE  NumAt(w, Offset(w) - (i + 1) * 2) = EntryOf(v[i], oo)
  <2>1. Offset(w) - (i + 1) * 2 = k + 2 * (L - i + 1) /\ k + 2 * (L - i + 1) \in 1..Offset(e)
    BY <1>8, <1>13
  <2>2. NumAt(w, k + 2 * (L - i + 1)) = NumAt(e, k + 2 * (L - i + 1))
    BY <1>12, <2>1, NumStill DEF GrownTo
  <2> QED BY <1>3, <1>8, <2>1, <2>2
<1> QED BY <1>1, <1>2, <1>11, <1>12, <1>13, <1>14 DEF HasVtable

LEMMA EqualVtable ==
    ASSUME NEW b, IsBuffer(b), NEW vt \in Nat, NEW v \in Seq(Nat), NEW oo \in Nat
    PROVE  vtableEqual(b, v, oo, vt) <=>
              /\ NumAt(b, vt) = (Len(v) + 2) * 2
              /\ \A i \in 1..Len(v) :
                    \/ NumAt(b, vt - (i + 1) * 2) = 0 /\ v[i] = 0
                    \/ NumAt(b, vt - (i + 1) * 2) = oo - v[i]
<1>1. PICK l \in Nat : l = BufLen(b)
  BY BufferFacts
<1>2. \A k \in Int : Get(b, l - k) = NumAt(b, k)
  BY <1>1 DEF Get, NumAt, ByteAt
<1>3. \A i \in 1..Len(v) : /\ (l - vt) + (i + 1) * 2 = l - (vt - (i + 1) * 2)
                           /\ vt - (i + 1) * 2 \in Int
  OBVIOUS
<1>4. /\ Get(b, l - vt) = NumAt(b, vt)
      /\ \A i \in 1..Len(v) : Get(b, (l - vt) + (i + 1) * 2) = NumAt(b, vt - (i + 1) * 2)
  BY <1>2, <1>3
<1> QED BY <1>1, <1>4 DEF vtableEqual, VtableMetadataFields, SizeVOffsetT

(* What EndObject finds of the object it ends: the offsets of its fields   *)
(* in v, not too far from where the object begins.                         *)
Ends(v, fields) ==
    /\ v \in Seq(Nat) /\ Len(v) <= Len(FieldSize)
    /\ \A i \in 1..Len(v) : v[i] = 0 \/ (v[i] \in 1..Offset(buf) /\ Offset(buf) - v[i] < MaxObject)
    /\ DOMAIN fields \subseteq Fields
    /\ \A o \in Fields :
          IF o \in DOMAIN fields
          THEN /\ o + 1 \in 1..Len(v) /\ v[o + 1] # 0
               /\ FieldAt(buf, v[o + 1], o, fields[o])
               /\ buf.minalign >= Alignment(o)
          ELSE o + 1 \in 1..Len(v) => v[o + 1] = 0

FieldsOfOpen == IF open.kind = "object" THEN open.fields ELSE <<>>

LEMMA OpenEnds ==
    ASSUME IInv, open.kind \in {"object", "vector"}, ObjectIsShort
    PROVE  Ends(vtable, FieldsOfOpen)
<1>1. OpenInv /\ IsBuffer(buf) /\ objectEnd \in Nat
  BY DEF IInv
<1>2. Len(FieldSize) \in Nat /\ \A o \in Fields : o + 1 \in 1..Len(FieldSize)
  BY SizesAssumption DEF Fields
<1>3. CASE open.kind = "vector"
  <2>1. vtable = <<>> /\ FieldsOfOpen = <<>> /\ Len(<<>>) = 0 /\ <<>> \in Seq(Nat) /\ DOMAIN <<>> = {}
    BY <1>1, <1>3 DEF OpenInv, FieldsOfOpen
  <2> QED BY <1>2, <2>1 DEF Ends
<1>4. CASE open.kind = "object"
  <2>1. OpenObject /\ FieldsOfOpen = open.fields
    BY <1>1, <1>4 DEF OpenInv, FieldsOfOpen
  <2>2. vtable \in Seq(Nat) /\ Len(vtable) = Len(FieldSize) /\ DOMAIN open.fields \subseteq Fields
    BY <2>1 DEF OpenObject
  <2>3. PICK n \in Nat, e \in Nat : n = Offset(buf) /\ e = objectEnd /\ e <= n /\ n - e <= 65528
    BY <1>1, <1>4, <2>1, BufferFacts DEF OpenObject, ObjectIsShort, MaxObject
  <2>4. ASSUME NEW o \in Fields, o \in DOMAIN open.fields
        PROVE  /\ vtable[o + 1] \in 1..n /\ n - vtable[o + 1] < 65528
               /\ FieldAt(buf, vtable[o + 1], o, open.fields[o])
               /\ buf.minalign >= Alignment(o)
    <3>1. /\ vtable[o + 1] > e
          /\ FieldAt(buf, vtable[o + 1], o, open.fields[o])
          /\ buf.minalign >= Alignment(o)
      BY <2>1, <2>3, <2>4 DEF OpenObject
    <3>2. vtable[o + 1] \in 1..n
      BY <2>3, <3>1 DEF FieldAt
    <3> QED BY <2>3, <3>1, <3>2
  <2>5. \A o \in Fields : o \notin DOMAIN open.fields => vtable[o + 1] = 0
    BY <2>1 DEF OpenObject
  <2>6. ASSUME NEW i \in 1..Len(vtable)
        PROVE  vtable[i] = 0 \/ (vtable[i] \in 1..Offset(buf) /\ Offset(buf) - vtable[i] < MaxObject)
    <3>1. i - 1 \in Fields /\ (i - 1) + 1 = i
      BY <1>2, <2>2 DEF Fields
    <3> QED BY <2>3, <2>4, <2>5, <3>1 DEF MaxObject
  <2>7. ASSUME NEW o \in Fields, o \in DOMAIN open.fields
        PROVE  /\ o + 1 \in 1..Len(vtable) /\ vtable[o + 1] # 0
               /\ FieldAt(buf, vtable[o + 1], o, open.fields[o])
               /\ buf.minalign >= Alignment(o)
    <3>1. o + 1 \in 1..Len(vtable)
      BY <1>2, <2>2
    <3>2. vtable[o + 1] # 0
      BY <2>4, <2>7
    <3> QED BY <2>4, <2>7, <3>1, <3>2
  <2> QED BY <2>1, <2>2, <2>5, <2>6, <2>7 DEF Ends
<1> QED BY <1>3, <1>4

(* The same of the trimmed vtable.                                         *)
LEMMA TrimmedEnds ==
    ASSUME NEW v, NEW fields, Ends(v, fields)
    PROVE  Ends(Trimmed(v), fields)
<1> DEFINE t == Trimmed(v)
<1>1. /\ t \in Seq(Nat) /\ Len(t) <= Len(v)
      /\ \A i \in 1..Len(t) : t[i] = v[i]
      /\ \A i \in (Len(t) + 1)..Len(v) : v[i] = 0
      /\ v \in Seq(Nat)
  BY TrimmedParts DEF Ends
<1> HIDE DEF t
<1>2. PICK l \in Nat, m \in Nat : l = Len(v) /\ m = Len(t) /\ m <= l
  BY <1>1
<1>3. m <= Len(FieldSize)
  BY <1>2, SizesAssumption DEF Ends
<1>4. \A i \in 1..m : i \in 1..l /\ t[i] = v[i]
  BY <1>1, <1>2
<1>5. \A o \in Fields : o \in DOMAIN fields => o + 1 \in 1..m
  <2> SUFFICES ASSUME NEW o \in Fields, o \in DOMAIN fields, ~(o + 1 \in 1..m) PROVE FALSE
    OBVIOUS
  <2>1. o + 1 \in 1..l /\ v[o + 1] # 0
    BY <1>2 DEF Ends
  <2>2. o + 1 \in (m + 1)..l
    BY <1>2, <2>1
  <2> QED BY <1>1, <1>2, <2>1, <2>2
<1> QED BY <1>1, <1>2, <1>3, <1>4, <1>5 DEF Ends, t

(* What WriteVtable leaves: the object at oo, with a vtable that has the   *)
(* entries of v, and no vtable twice.                                      *)
Ended(c, vts, oo, v) ==
    /\ GrownTo(buf, c) /\ oo \in Nat /\ oo - 4 >= Offset(buf) /\ oo <= Offset(c) /\ c.minalign >= 4
    /\ VtablesAt(c, vts)
    /\ \A i \in DOMAIN vtables : i \in DOMAIN vts /\ vts[i] = vtables[i]
    /\ \A i \in DOMAIN vts : i \in DOMAIN vtables \/ vts[i] - NumAt(c, vts[i]) >= oo
    /\ \E j \in DOMAIN vts :
          /\ HasAt(c, oo, SizeSOffsetT, vts[j] - oo)
          /\ NumAt(c, vts[j]) = (Len(v) + 2) * 2
          /\ \A i \in 1..Len(v) :
                NumAt(c, vts[j] - (i + 1) * 2) = IF v[i] = 0 THEN 0 ELSE oo - v[i]

(* Where the object is, before its vtable is looked for.                   *)
Headed(b, oo) ==
    /\ GrownTo(buf, b) /\ oo = Offset(b) /\ oo \in Nat /\ oo % 4 = 0 /\ b.minalign >= 4
    /\ Offset(buf) \in Nat /\ oo - 4 >= Offset(buf) /\ oo - Offset(buf) <= 7

LEMMA HeaderIsPlaced ==
    ASSUME IsBuffer(buf)
    PROVE  Headed(PrependUOffsetT(buf, 0), Offset(PrependUOffsetT(buf, 0)))
<1> DEFINE b == PrependUOffsetT(buf, 0)
<1>1. PICK n \in Nat : n = Offset(buf)
  BY BufferFacts
<1>2. Prepends(buf, b, 4, Offset(b) - 0)
  <2>1. 0 \in 0..Offset(buf)
    BY <1>1
  <2> QED BY <2>1, PrependUOffsetTPrepends DEF SizeUOffsetT
<1> HIDE DEF b
<1>3. Padding(buf, 4, 0) \in 0..3
  BY <1>1 DEF Padding
<1>4. GrownTo(buf, b)
  BY <1>2, PrependsGrows
<1>5. PICK p \in 0..3 : p = Padding(buf, 4, 0)
  BY <1>3
<1>6. Offset(b) = n + p + 4 /\ Offset(b) % 4 = 0 /\ b.minalign >= 4
  BY <1>1, <1>2, <1>5 DEF Prepends
<1>7. Offset(b) \in Nat /\ Offset(b) - 4 >= n /\ Offset(b) - n <= 7
  BY <1>6
<1> QED BY <1>1, <1>4, <1>6, <1>7 DEF Headed, b

(* The offset to the vtable goes over the room for it, and over nothing    *)
(* else.                                                                   *)
LEMMA HeaderIsFilled ==
    ASSUME IsBuffer(buf), NEW b, NEW oo, Headed(b, oo), NEW w, GrownTo(b, w), NEW x \in Int
    PROVE  LET c == Overwrite(w, BufLen(w) - oo, SizeSOffsetT, x)
           IN /\ GrownTo(buf, c) /\ Offset(c) = Offset(w) /\ c.minalign >= 4
              /\ HasAt(c, oo, SizeSOffsetT, x)
              /\ \A k \in 1..Offset(w) : k <= Offset(buf) \/ k > oo => NumAt(c, k) = NumAt(w, k)
<1> DEFINE c == Overwrite(w, BufLen(w) - oo, 4, x)
<1>1. IsBuffer(b) /\ IsBuffer(w)
  BY DEF Headed, GrownTo
<1>2. PICK n \in Nat, p \in Nat : n = Offset(buf) /\ p = Offset(w) /\ oo \in Nat /\ oo - 4 >= n /\ oo <= p
  BY <1>1, BufferFacts DEF Headed, GrownTo, Keeps
<1>3. oo \in 4..Offset(w)
  BY <1>2
<1>4. Overwrites(w, c, oo, 4, x)
  BY <1>1, <1>3, OverwriteOverwrites
<1> HIDE DEF c
<1>5. IsBuffer(c) /\ Offset(c) = p /\ HasAt(c, oo, 4, x) /\ c.minalign = w.minalign
  BY <1>2, <1>4 DEF Overwrites
<1>6. \A k \in 1..p : k <= n \/ k > oo => ByteAt(c, k) = ByteAt(w, k)
  <2>1. \A k \in 1..p : k <= n \/ k > oo => k \notin (oo - 4 + 1)..oo
    BY <1>2
  <2> QED BY <1>2, <1>4, <2>1 DEF Overwrites
<1>7. GrownTo(buf, w)
  BY GrownToOn DEF Headed
<1>8. GrownTo(buf, c)
  <2>1. \A k \in 1..n : ByteAt(c, k) = ByteAt(buf, k)
    <3>1. \A k \in 1..n : k \in 1..p /\ k <= n
      BY <1>2
    <3> QED BY <1>2, <1>6, <1>7, <3>1 DEF GrownTo, Keeps
  <2>2. n <= p
    BY <1>2
  <2> QED BY <1>2, <1>5, <1>7, <2>1, <2>2 DEF GrownTo, Keeps
<1>9. c.minalign >= 4
  <2>1. w.minalign >= b.minalign /\ b.minalign >= 4 /\ w.minalign \in Nat /\ b.minalign \in Nat
    BY <1>1, BufferFacts DEF Headed, GrownTo
  <2> QED BY <1>5, <2>1
<1> QED BY <1>2, <1>5, <1>6, <1>8, <1>9 DEF SizeSOffsetT, c, NumAt

(* A vtable that is there already, as the search has found it: it has      *)
(* entries for the fields of this object and no others, because none of    *)
(* its entries reaches as far as the object.                               *)
LEMMA FoundEnds ==
    ASSUME IInv, NEW b, NEW oo, Headed(b, oo), NEW v, NEW fields, Ends(v, fields),
           NEW j \in DOMAIN vtables, vtableEqual(b, v, oo, vtables[j])
    PROVE  Ended(Overwrite(b, b.head, SizeSOffsetT, vtables[j] - oo), vtables, oo, v)
<1> DEFINE vt == vtables[j]
           c == Overwrite(b, b.head, SizeSOffsetT, vt - oo)
<1>1. IsBuffer(buf) /\ IsBuffer(b) /\ GrownTo(buf, b) /\ v \in Seq(Nat)
  BY DEF IInv, Headed, GrownTo, Ends
<1>2. VtablesAt(buf, vtables) /\ vtables \in Seq(Nat) /\ IsVtable(buf, vt) /\ vt \in Nat
  BY DEF IInv, Contents, VtablesAt
<1> HIDE DEF vt
<1>3. PICK n \in Nat : n = Offset(buf) /\ oo \in Nat /\ oo = Offset(b) /\ oo - 4 >= n
  BY DEF Headed
<1>4. b.head = BufLen(b) - oo
  BY <1>1, <1>3, BufferFacts
<1>5. /\ GrownTo(buf, c) /\ Offset(c) = oo /\ c.minalign >= 4
      /\ HasAt(c, oo, SizeSOffsetT, vt - oo)
  <2>1. GrownTo(b, b) /\ vt - oo \in Int
    BY <1>1, <1>2, <1>3, GrownToItself
  <2> QED BY <1>1, <1>3, <1>4, <2>1, HeaderIsFilled
<1> HIDE DEF c
<1>6. IsBuffer(c) /\ Keeps(buf, c) /\ Keeps(buf, b)
  BY <1>1, <1>5 DEF GrownTo
<1>7. /\ NumAt(b, vt) = (Len(v) + 2) * 2
      /\ \A i \in 1..Len(v) :
            \/ NumAt(b, vt - (i + 1) * 2) = 0 /\ v[i] = 0
            \/ NumAt(b, vt - (i + 1) * 2) = oo - v[i]
  BY <1>1, <1>2, <1>3, EqualVtable DEF vt
<1>8. IsVtable(b, vt) /\ IsVtable(c, vt) /\ VtablesAt(c, vtables)
  BY <1>1, <1>2, <1>6, VtableStill, VtablesStill
<1>9. vt \in 1..n /\ NumAt(b, vt) = NumAt(buf, vt) /\ NumAt(c, vt) = NumAt(buf, vt)
  BY <1>1, <1>2, <1>3, <1>6, VtableParts, NumStill
<1>10. PICK m \in Nat : m = Len(v)
  BY <1>1
<1>11. ASSUME NEW i \in 1..m
       PROVE  /\ vt - (i + 1) * 2 \in 1..n
              /\ NumAt(buf, vt - (i + 1) * 2) \in 0..(vt - 1)
  <2>1. PICK k \in 0..Len(FieldSize) :
           /\ NumAt(buf, vt) = (k + 2) * 2 /\ (k + 2) * 2 <= vt
           /\ \A h \in 1..k : NumAt(buf, vt - (h + 1) * 2) \in 0..(vt - 1)
    BY <1>2 DEF IsVtable, VtableMetadataFields, SizeVOffsetT
  <2>2. k \in Nat
    BY SizesAssumption
  <2>3. k = m
    BY <1>7, <1>9, <1>10, <2>1, <2>2
  <2> QED BY <1>9, <2>1, <2>3
<1>12. ASSUME NEW i \in 1..m
       PROVE  NumAt(c, vt - (i + 1) * 2) = IF v[i] = 0 THEN 0 ELSE oo - v[i]
  <2> DEFINE k == vt - (i + 1) * 2
  <2>1. k \in 1..n /\ NumAt(buf, k) \in 0..(vt - 1)
    BY <1>11
  <2>2. NumAt(b, k) = NumAt(buf, k) /\ NumAt(c, k) = NumAt(buf, k)
    BY <1>3, <1>6, <2>1, NumStill
  <2>3. (NumAt(b, k) = 0 /\ v[i] = 0) \/ NumAt(b, k) = oo - v[i]
    BY <1>7, <1>10
  <2>4. v[i] = 0 \/ v[i] \in 1..n
    BY <1>3, <1>10 DEF Ends
  <2> HIDE DEF k
  <2>5. CASE v[i] = 0
    <3>1. NumAt(b, k) # oo - v[i]
      BY <1>3, <1>9, <2>1, <2>2, <2>5
    <3> QED BY <2>2, <2>3, <2>5, <3>1 DEF k
  <2>6. CASE v[i] # 0
    BY <2>2, <2>3, <2>6 DEF k
  <2> QED BY <2>5, <2>6
<1>13. NumAt(c, vt) = (Len(v) + 2) * 2
  BY <1>7, <1>9
<1>14. oo - 4 >= Offset(buf) /\ oo <= Offset(c) /\ oo \in Nat
  BY <1>3, <1>5
<1> QED BY <1>5, <1>8, <1>10, <1>12, <1>13, <1>14 DEF Ended, vt, c

(* A vtable that is written because none was found differs from each.      *)
LEMMA NewDiffers ==
    ASSUME NEW b, IsBuffer(b), NEW c, IsBuffer(c), NEW v \in Seq(Nat), NEW oo \in Nat,
           NEW vt \in Nat, IsVtable(b, vt), ~vtableEqual(b, v, oo, vt),
           NumAt(c, vt) = NumAt(b, vt),
           \A k \in 1..Offset(b) : k < vt => NumAt(c, k) = NumAt(b, k),
           NEW new \in Nat, NumAt(c, new) = (Len(v) + 2) * 2,
           \A i \in 1..Len(v) : NumAt(c, new - (i + 1) * 2) = IF v[i] = 0 THEN 0 ELSE oo - v[i]
    PROVE  Differ(c, vt, new) /\ Differ(c, new, vt)
<1>1. PICK m \in Nat : m = Len(v)
  OBVIOUS
<1>2. CASE NumAt(c, vt) # NumAt(c, new)
  BY <1>2 DEF Differ
<1>3. CASE NumAt(c, vt) = NumAt(c, new)
  <2>1. NumAt(b, vt) = (m + 2) * 2
    BY <1>1, <1>3
  <2>2. PICK i \in 1..m :
           ~ \/ NumAt(b, vt - (i + 1) * 2) = 0 /\ v[i] = 0
             \/ NumAt(b, vt - (i + 1) * 2) = oo - v[i]
    BY <1>1, <2>1, EqualVtable
  <2>3. i + 1 \in 2..(((m + 2) * 2) \div 2 - 1) /\ (i + 1) * 2 = 2 * (i + 1)
    BY <1>1
  <2>4. vt - 2 * (i + 1) \in 1..Offset(b) /\ vt - 2 * (i + 1) < vt
    <3>1. vt - 2 * (i + 1) \in 1..Offset(b)
      BY <2>1, <2>3, VtableParts
    <3> QED BY <3>1
  <2>5. NumAt(c, vt - 2 * (i + 1)) = NumAt(b, vt - 2 * (i + 1))
    BY <2>4
  <2>6. NumAt(c, new - 2 * (i + 1)) = IF v[i] = 0 THEN 0 ELSE oo - v[i]
    BY <1>1, <2>3
  <2>7. NumAt(c, vt - 2 * (i + 1)) # NumAt(c, new - 2 * (i + 1))
    BY <2>2, <2>3, <2>5, <2>6
  <2>8. NumAt(c, vt) = (m + 2) * 2 /\ NumAt(c, new) = (m + 2) * 2
    BY <1>1, <1>3
  <2> DEFINE k == i + 1
  <2>9. k \in 2..(((m + 2) * 2) \div 2 - 1) /\ NumAt(c, vt - 2 * k) # NumAt(c, new - 2 * k)
    BY <2>3, <2>7
  <2> HIDE DEF k
  <2> QED BY <2>8, <2>9 DEF Differ
<1> QED BY <1>2, <1>3

LEMMA EntryIsDistance ==
    ASSUME NEW oo \in Nat, NEW n \in Nat, NEW x \in 1..n,
           n - x < 65528, oo - 4 >= n, oo - n <= 7
    PROVE  oo - x \in Nat /\ oo - x > 0 /\ EntryOf(x, oo) = oo - x
<1>1. oo - x \in Nat /\ oo - x > 0 /\ oo - x < 65536
  OBVIOUS
<1>2. (oo - x) % 65536 = oo - x /\ x # 0
  BY <1>1
<1> QED BY <1>1, <1>2 DEF EntryOf, VOffsetT

LEMMA IsVtableOf ==
    ASSUME NEW b, NEW vt \in Nat, vt <= Offset(b), NEW n \in 0..Len(FieldSize),
           NumAt(b, vt) = (n + 2) * 2, (n + 2) * 2 <= vt,
           \A i \in 1..n : NumAt(b, vt - (i + 1) * 2) \in 0..(vt - 1)
    PROVE  IsVtable(b, vt)
  BY DEF IsVtable, VtableMetadataFields, SizeVOffsetT

(* The vtable that is written when none was found.                         *)
LEMMA NewEnds ==
    ASSUME IInv, NEW b, NEW oo, Headed(b, oo), NEW v, NEW fields, Ends(v, fields),
           \A j \in DOMAIN vtables : ~vtableEqual(b, v, oo, vtables[j]),
           NEW w, HasVtable(b, w, v, oo)
    PROVE  Ended(Overwrite(w, BufLen(w) - oo, SizeSOffsetT, Offset(w) - oo),
                 Append(vtables, Offset(w)), oo, v)
<1> DEFINE vt == Offset(w)
           c == Overwrite(w, BufLen(w) - oo, SizeSOffsetT, vt - oo)
           vts == Append(vtables, vt)
<1>1. /\ IsBuffer(buf) /\ IsBuffer(b) /\ IsBuffer(w) /\ GrownTo(buf, b) /\ GrownTo(b, w)
      /\ v \in Seq(Nat)
  BY DEF IInv, Headed, GrownTo, HasVtable, Ends
<1>2. VtablesAt(buf, vtables) /\ vtables \in Seq(Nat) /\ \A j \in DOMAIN vtables : IsVtable(buf, vtables[j])
  BY DEF IInv, Contents, VtablesAt
<1>3. PICK n \in Nat, m \in Nat :
         n = Offset(buf) /\ m = Len(v) /\ oo \in Nat /\ oo = Offset(b) /\ oo - 4 >= n /\ oo - n <= 7
  BY <1>1 DEF Headed
<1>4. vt \in Nat /\ vt = oo + 2 * (m + 2) /\ NumAt(w, vt) = VOffsetT((m + 2) * 2)
      /\ \A i \in 1..m : NumAt(w, vt - (i + 1) * 2) = EntryOf(v[i], oo)
  BY <1>1, <1>3, BufferFacts DEF HasVtable
<1> HIDE DEF vt
<1>41. PICK p \in Nat : p = vt /\ p = oo + 2 * (m + 2) /\ oo \in Nat /\ oo - 4 >= n /\ oo - n <= 7
  BY <1>3, <1>4
<1>5. /\ GrownTo(buf, c) /\ Offset(c) = vt /\ c.minalign >= 4
      /\ HasAt(c, oo, SizeSOffsetT, vt - oo)
      /\ \A k \in 1..vt : k <= n \/ k > oo => NumAt(c, k) = NumAt(w, k)
  <2>1. vt - oo \in Int
    BY <1>3, <1>4
  <2> QED BY <1>1, <1>3, <2>1, HeaderIsFilled DEF vt
<1> HIDE DEF c
<1>6. IsBuffer(c) /\ Keeps(buf, c) /\ Keeps(buf, b)
  BY <1>1, <1>5 DEF GrownTo
<1>7. NumAt(c, vt) = (m + 2) * 2
  <2>1. m <= Len(FieldSize) /\ (Len(FieldSize) + 2) * 2 < 65536 /\ Len(FieldSize) \in Nat
    BY <1>3, FieldsAssumption, SizesAssumption DEF Ends, VtableMetadataFields, SizeVOffsetT
  <2>2. VOffsetT((m + 2) * 2) = (m + 2) * 2
    BY <2>1 DEF VOffsetT
  <2>3. NumAt(c, vt) = NumAt(w, vt)
    <3>1. p \in 1..p /\ p > oo
      BY <1>41
    <3> QED BY <1>41, <1>5, <3>1
  <2> QED BY <1>4, <2>2, <2>3
<1>8. ASSUME NEW i \in 1..m
      PROVE  /\ NumAt(c, vt - (i + 1) * 2) = IF v[i] = 0 THEN 0 ELSE oo - v[i]
             /\ NumAt(c, vt - (i + 1) * 2) \in 0..(vt - 1)
  <2>1. vt - (i + 1) * 2 \in 1..vt /\ vt - (i + 1) * 2 > oo
    BY <1>41
  <2>2. NumAt(c, vt - (i + 1) * 2) = EntryOf(v[i], oo)
    BY <1>4, <1>5, <2>1
  <2>3. v[i] = 0 \/ (v[i] \in 1..n /\ n - v[i] < 65528)
    BY <1>3 DEF Ends, MaxObject
  <2>4. CASE v[i] = 0
    <3>1. EntryOf(v[i], oo) = 0
      BY <2>4 DEF EntryOf, VOffsetT
    <3> QED BY <1>41, <2>2, <2>4, <3>1
  <2>5. CASE v[i] # 0
    <3>1. PICK x \in 1..n : x = v[i] /\ n - x < 65528
      BY <2>3, <2>5
    <3>2. oo - x \in Nat /\ oo - x > 0 /\ EntryOf(x, oo) = oo - x
      BY <1>41, <3>1, EntryIsDistance
    <3>3. oo - x \in 0..(p - 1)
      BY <1>41, <3>1, <3>2
    <3> QED BY <1>41, <2>2, <2>5, <3>1, <3>2, <3>3
  <2> QED BY <2>4, <2>5
<1>9. IsVtable(c, vt)
  <2>1. m \in 0..Len(FieldSize)
    BY <1>3, SizesAssumption DEF Ends
  <2>2. (m + 2) * 2 <= p /\ p <= p
    BY <1>41
  <2>3. vt \in Nat /\ (m + 2) * 2 <= vt /\ vt <= Offset(c)
    BY <1>41, <1>5, <2>2
  <2>4. \A i \in 1..m : NumAt(c, vt - (i + 1) * 2) \in 0..(vt - 1)
    BY <1>8
  <2> QED BY <1>7, <2>1, <2>3, <2>4, IsVtableOf
<1>10. ASSUME NEW j \in DOMAIN vtables
       PROVE  IsVtable(c, vtables[j]) /\ Differ(c, vtables[j], vt) /\ Differ(c, vt, vtables[j])
  <2> DEFINE vu == vtables[j]
  <2>1. IsVtable(buf, vu) /\ vu \in Nat /\ ~vtableEqual(b, v, oo, vu)
    BY <1>2 DEF IsVtable
  <2> HIDE DEF vu
  <2>2. IsVtable(b, vu) /\ IsVtable(c, vu)
    BY <1>1, <1>6, <2>1, VtableStill
  <2>3. vu \in 1..n
    BY <1>1, <1>3, <2>1, VtableParts
  <2>4. \A k \in 1..n : NumAt(c, k) = NumAt(b, k)
    BY <1>3, <1>6, NumStill
  <2>5. NumAt(c, vu) = NumAt(b, vu) /\ \A k \in 1..Offset(b) : k < vu => NumAt(c, k) = NumAt(b, k)
    BY <1>3, <2>3, <2>4
  <2>6. /\ NumAt(c, vt) = (Len(v) + 2) * 2
        /\ \A i \in 1..Len(v) : NumAt(c, vt - (i + 1) * 2) = IF v[i] = 0 THEN 0 ELSE oo - v[i]
    BY <1>3, <1>7, <1>8
  <2>7. IsBuffer(b) /\ IsBuffer(c) /\ v \in Seq(Nat) /\ oo \in Nat /\ vu \in Nat /\ vt \in Nat
    BY <1>1, <1>3, <1>4, <1>6, <2>1
  <2>8. Differ(c, vu, vt) /\ Differ(c, vt, vu)
    BY <2>1, <2>2, <2>5, <2>6, <2>7, NewDiffers, ZenonT(40)
  <2> QED BY <2>2, <2>8 DEF vu
<1>11. PICK l \in Nat : l = Len(vtables) /\ DOMAIN vtables = 1..l
  BY <1>2
<1>12. /\ vts \in Seq(Nat) /\ DOMAIN vts = 1..(l + 1) /\ vts[l + 1] = vt
       /\ \A i \in 1..l : vts[i] = vtables[i]
  BY <1>2, <1>4, <1>11
<1> HIDE DEF vts
<1>13. VtablesAt(c, vts)
  <2>1. ASSUME NEW i \in DOMAIN vts PROVE IsVtable(c, vts[i])
    <3>1. i \in 1..l \/ i = l + 1
      BY <1>12
    <3> QED BY <1>9, <1>10, <1>11, <1>12, <3>1
  <2>2. ASSUME NEW i \in DOMAIN vts, NEW j \in DOMAIN vts, i # j
        PROVE  Differ(c, vts[i], vts[j])
    <3>1. (i \in 1..l \/ i = l + 1) /\ (j \in 1..l \/ j = l + 1)
      BY <1>12
    <3>2. CASE i \in 1..l /\ j \in 1..l
      <4>1. VtablesAt(c, vtables)
        BY <1>1, <1>2, <1>6, VtablesStill
      <4> QED BY <1>11, <1>12, <2>2, <3>2, <4>1 DEF VtablesAt
    <3>3. CASE i = l + 1 /\ j \in 1..l
      BY <1>10, <1>11, <1>12, <3>3
    <3>4. CASE i \in 1..l /\ j = l + 1
      BY <1>10, <1>11, <1>12, <3>4
    <3> QED BY <2>2, <3>1, <3>2, <3>3, <3>4
  <2> QED BY <1>12, <2>1, <2>2 DEF VtablesAt
<1>14. l + 1 \in DOMAIN vts /\ \A i \in DOMAIN vtables : i \in DOMAIN vts /\ vts[i] = vtables[i]
  BY <1>11, <1>12
<1>15. oo \in Nat /\ oo - 4 >= Offset(buf) /\ oo <= Offset(c)
  <2>1. oo - 4 >= n /\ oo <= p
    BY <1>41
  <2> QED BY <1>3, <1>41, <1>5, <2>1
<1>16. /\ HasAt(c, oo, SizeSOffsetT, vts[l + 1] - oo)
       /\ NumAt(c, vts[l + 1]) = (Len(v) + 2) * 2
       /\ \A i \in 1..Len(v) :
             NumAt(c, vts[l + 1] - (i + 1) * 2) = IF v[i] = 0 THEN 0 ELSE oo - v[i]
  BY <1>3, <1>5, <1>7, <1>8, <1>12
<1>17. ASSUME NEW i \in DOMAIN vts, i \notin DOMAIN vtables
       PROVE  vts[i] - NumAt(c, vts[i]) >= oo
  <2>1. vts[i] = p
    BY <1>11, <1>12, <1>17, <1>41
  <2>2. p - (m + 2) * 2 >= oo
    BY <1>41
  <2> QED BY <1>7, <1>41, <2>1, <2>2
<1> QED BY <1>5, <1>13, <1>14, <1>15, <1>16, <1>17 DEF Ended, vt, c, vts

(* The search finds a vtable that is equal if there is one; no vtable is   *)
(* at the offset 0, which says that there is none.                         *)
LEMMA EqualIsFound ==
    ASSUME vtables \in Seq(Nat), \A i \in DOMAIN vtables : vtables[i] # 0,
           NEW b, NEW v, NEW oo
    PROVE  \/ /\ existingVtable(b, v, oo) = 0
              /\ \A j \in DOMAIN vtables : ~vtableEqual(b, v, oo, vtables[j])
           \/ /\ existingVtable(b, v, oo) # 0
              /\ \E j \in DOMAIN vtables : /\ existingVtable(b, v, oo) = vtables[j]
                                           /\ vtableEqual(b, v, oo, vtables[j])
<1> DEFINE equal == {i \in DOMAIN vtables : vtableEqual(b, v, oo, vtables[i])}
           j == CHOOSE i \in equal : \A k \in equal : k <= i
<1>1. existingVtable(b, v, oo) = IF equal = {} THEN 0 ELSE vtables[j]
  BY DEF existingVtable
<1>2. CASE equal = {}
  BY <1>1, <1>2
<1>3. CASE equal # {}
  <2>1. PICK l \in Nat : l = Len(vtables) /\ DOMAIN vtables = 1..l
    OBVIOUS
  <2>2. equal \subseteq 1..l
    BY <2>1
  <2> DEFINE T == {l - i : i \in equal}
  <2> HIDE DEF equal
  <2>3. T \subseteq Nat /\ T # {}
    <3>1. \A i \in equal : l - i \in Nat
      BY <2>2
    <3>2. PICK i \in equal : l - i \in T
      BY <1>3
    <3> QED BY <3>1, <3>2
  <2>4. PICK x \in T : \A y \in T : x <= y
    <3> HIDE DEF T
    <3> QED BY <2>3, LeastNat
  <2>5. PICK i \in equal : x = l - i
    BY <2>4
  <2>6. \A k \in equal : k <= i
    <3> SUFFICES ASSUME NEW k \in equal PROVE k <= i
      OBVIOUS
    <3>1. l - i <= l - k
      BY <2>4, <2>5
    <3> QED BY <2>2, <3>1
  <2>7. j \in equal
    BY <2>6
  <2> HIDE DEF j
  <2>8. j \in DOMAIN vtables /\ vtableEqual(b, v, oo, vtables[j])
    BY <2>7 DEF equal
  <2> QED BY <1>1, <1>3, <2>8
<1> QED BY <1>2, <1>3

LEMMA WriteVtableEnds ==
    ASSUME IInv, open.kind \in {"object", "vector"}, ObjectIsShort
    PROVE  Ended(WriteVtable.buf, WriteVtable.vtables, WriteVtable.at, Trimmed(vtable))
<1> DEFINE b == PrependUOffsetT(buf, 0)
           oo == Offset(b)
           v == Trimmed(vtable)
           e == existingVtable(b, v, oo)
           w == WithVtable(b, v, oo)
           found == [buf |-> Overwrite(b, b.head, SizeSOffsetT, e - oo),
                     vtables |-> vtables, at |-> oo]
           new == [buf |-> Overwrite(w, BufLen(w) - oo, SizeSOffsetT, Offset(w) - oo),
                   vtables |-> Append(vtables, Offset(w)), at |-> oo]
<1>1. WriteVtable = IF e = 0 THEN new ELSE found
  BY DEF WriteVtable
<1>2. IsBuffer(buf) /\ objectEnd \in Nat /\ VtablesAt(buf, vtables)
  BY DEF IInv, Contents
<1>3. Headed(b, oo)
  BY <1>2, HeaderIsPlaced
<1>4. Ends(v, FieldsOfOpen)
  BY OpenEnds, TrimmedEnds
<1>5. vtables \in Seq(Nat) /\ \A i \in DOMAIN vtables : vtables[i] # 0
  <2>1. ASSUME NEW i \in DOMAIN vtables PROVE vtables[i] # 0
    <3>1. vtables[i] \in 1..Offset(buf) /\ Offset(buf) \in Nat
      BY <1>2, VtableParts, BufferFacts DEF VtablesAt
    <3> QED BY <3>1
  <2> QED BY <1>2, <2>1 DEF VtablesAt
<1> HIDE DEF b, v
<1>6. \/ e = 0 /\ \A j \in DOMAIN vtables : ~vtableEqual(b, v, oo, vtables[j])
      \/ e # 0 /\ \E j \in DOMAIN vtables : e = vtables[j] /\ vtableEqual(b, v, oo, vtables[j])
  BY <1>5, EqualIsFound
<1>7. CASE e = 0
  <2>1. \A j \in DOMAIN vtables : ~vtableEqual(b, v, oo, vtables[j])
    BY <1>6, <1>7
  <2>2. HasVtable(b, w, v, oo)
    BY <1>2, <1>3, <1>4, VtableIsPlaced DEF Headed, GrownTo, Ends
  <2> HIDE DEF w, e
  <2>3. Ended(new.buf, new.vtables, oo, v)
    BY <1>3, <1>4, <2>1, <2>2, NewEnds
  <2>4. new.at = oo
    OBVIOUS
  <2>5. WriteVtable = new
    BY <1>1, <1>7
  <2> HIDE DEF new
  <2> QED BY <2>3, <2>4, <2>5 DEF v
<1>8. CASE e # 0
  <2>1. PICK j \in DOMAIN vtables : e = vtables[j] /\ vtableEqual(b, v, oo, vtables[j])
    BY <1>6, <1>8
  <2> HIDE DEF e
  <2>2. Ended(found.buf, found.vtables, oo, v)
    BY <1>3, <1>4, <2>1, FoundEnds
  <2>3. found.at = oo
    OBVIOUS
  <2>4. WriteVtable = found
    BY <1>1, <1>8
  <2> HIDE DEF found
  <2> QED BY <2>2, <2>3, <2>4 DEF v
<1> QED BY <1>7, <1>8

(* The table that was ended is there, with its fields and no others.       *)
LEMMA EndedIsMade ==
    ASSUME IsBuffer(buf), NEW c, NEW vts, NEW oo, NEW v, Ended(c, vts, oo, v),
           NEW fields, Ends(v, fields),
           NEW t, t.kind = "table", t.at = oo, t.fields = fields
    PROVE  MadeAt(c, vts, t) /\ Tracked(c, t)
<1>1. IsBuffer(c) /\ Keeps(buf, c) /\ c.minalign >= buf.minalign /\ GrownTo(buf, c)
  BY DEF Ended, GrownTo
<1>2. PICK n \in Nat, m \in Nat, p \in Nat :
         /\ n = Offset(buf) /\ m = Len(v) /\ p = Offset(c) /\ oo \in Nat
         /\ oo > n /\ oo <= p /\ oo >= 4
  <2>1. PICK j \in DOMAIN vts : HasAt(c, oo, SizeSOffsetT, vts[j] - oo)
    BY DEF Ended
  <2>2. oo \in 4..Offset(c)
    BY <2>1 DEF HasAt, SizeSOffsetT
  <2> QED BY <1>1, <2>2, BufferFacts DEF Ended, Ends
<1>3. PICK j \in DOMAIN vts :
         /\ HasAt(c, oo, SizeSOffsetT, vts[j] - oo)
         /\ NumAt(c, vts[j]) = (m + 2) * 2
         /\ \A i \in 1..m : NumAt(c, vts[j] - (i + 1) * 2) = IF v[i] = 0 THEN 0 ELSE oo - v[i]
  BY <1>2 DEF Ended
<1>4. PICK vt \in Nat : vt = vts[j]
  BY DEF Ended, VtablesAt
<1>5. \A o \in Fields : o \in Nat /\ SlotOf(o) = (o + 2) * 2
  BY SizesAssumption DEF Fields, SlotOf, VtableMetadataFields, SizeVOffsetT
<1>6. ASSUME NEW o \in Fields, o + 1 \in 1..m
      PROVE  NumAt(c, vt - SlotOf(o)) = IF v[o + 1] = 0 THEN 0 ELSE oo - v[o + 1]
  <2>1. vt - SlotOf(o) = vt - ((o + 1) + 1) * 2
    BY <1>5
  <2> QED BY <1>3, <1>4, <1>6, <2>1
<1>7. ASSUME NEW o \in Fields, o \in DOMAIN fields
      PROVE  /\ SlotOf(o) < NumAt(c, vt)
             /\ NumAt(c, vt - SlotOf(o)) # 0
             /\ FieldAt(c, oo - NumAt(c, vt - SlotOf(o)), o, fields[o])
             /\ c.minalign >= Alignment(o)
  <2>1. /\ o + 1 \in 1..m /\ v[o + 1] # 0
        /\ FieldAt(buf, v[o + 1], o, fields[o])
        /\ buf.minalign >= Alignment(o)
    BY <1>2, <1>7 DEF Ends
  <2>2. PICK x \in 1..n : x = v[o + 1]
    BY <1>2, <2>1 DEF FieldAt
  <2>3. NumAt(c, vt - SlotOf(o)) = oo - x
    BY <1>6, <2>1, <2>2
  <2>4. oo - x # 0 /\ oo - (oo - x) = x
    BY <1>2, <2>2
  <2>5. FieldAt(c, x, o, fields[o])
    BY <1>1, <2>1, <2>2, FieldStill
  <2>6. SlotOf(o) < NumAt(c, vt)
    BY <1>2, <1>3, <1>4, <1>5, <2>1, SMTT(30)
  <2>7. c.minalign >= Alignment(o)
    <3>1. Alignment(o) \in Nat /\ buf.minalign \in Nat /\ c.minalign \in Nat
      BY <1>1, BufferFacts, SizesAreNumbers
    <3> QED BY <1>1, <2>1, <3>1
  <2> QED BY <2>3, <2>4, <2>5, <2>6, <2>7
<1>8. ASSUME NEW o \in Fields, o \notin DOMAIN fields, SlotOf(o) < NumAt(c, vt)
      PROVE  NumAt(c, vt - SlotOf(o)) = 0
  <2>1. o + 1 \in 1..m
    BY <1>2, <1>3, <1>4, <1>5, <1>8
  <2>2. v[o + 1] = 0
    BY <1>2, <1>8, <2>1 DEF Ends
  <2> QED BY <1>6, <2>1, <2>2
<1>9. FieldsAt(c, vts[j], t)
  BY <1>4, <1>7, <1>8 DEF FieldsAt
<1>10. TableAt(c, vts, t)
  <2>1. DOMAIN t.fields \subseteq Fields
    BY DEF Ends
  <2> QED BY <1>3, <1>9, <2>1 DEF TableAt
<1>11. t.at \in SizeUOffsetT..Offset(c)
  BY <1>2 DEF SizeUOffsetT
<1>12. Tracked(c, t)
  <2>1. \A o \in DOMAIN t.fields : c.minalign >= Alignment(o)
    BY <1>7 DEF Ends
  <2>2. c.minalign >= SizeUOffsetT /\ t.kind # "vector"
    BY DEF Ended, SizeUOffsetT
  <2> QED BY <2>1, <2>2 DEF Tracked
<1> QED BY <1>10, <1>11, <1>12 DEF MadeAt

LEMMA MadeWithMoreVtables ==
    ASSUME NEW b, NEW vts, NEW more,
           \A i \in DOMAIN vts : i \in DOMAIN more /\ more[i] = vts[i],
           NEW things, AllMade(b, vts, things)
    PROVE  AllMade(b, more, things)
<1> SUFFICES ASSUME NEW m \in things, MadeAt(b, vts, m) PROVE MadeAt(b, more, m)
  BY DEF AllMade
<1>1. CASE m.kind = "table" /\ TableAt(b, vts, m)
  <2>1. TableAt(b, more, m)
    BY <1>1 DEF TableAt
  <2> QED BY <1>1, <2>1 DEF MadeAt
<1>2. CASE ~(m.kind = "table" /\ TableAt(b, vts, m))
  BY <1>2 DEF MadeAt
<1> QED BY <1>1, <1>2

LEMMA EndObjectPreserves ==
    ASSUME IInv, EndObject, nested
    PROVE  IInv' /\ GrownTo(buf, buf')
<1> DEFINE t == [kind |-> "table", at |-> WriteVtable.at, fields |-> FieldsOfOpen,
                 size |-> WriteVtable.at - objectEnd]
<1>1. /\ open.kind \in {"object", "vector"} /\ ObjectIsShort
      /\ buf' = WriteVtable.buf /\ vtables' = WriteVtable.vtables
      /\ made' = made \cup {t}
      /\ vtable' = <<>> /\ nested' = FALSE /\ open' = NothingOpen
      /\ objectEnd' = objectEnd /\ finished' = finished /\ sharedStrings' = sharedStrings
  BY DEF EndObject, FieldsOfOpen
<1> DEFINE v == Trimmed(vtable)
           oo == WriteVtable.at
<1>2. Ended(buf', vtables', oo, v)
  BY <1>1, WriteVtableEnds
<1>3. Ends(v, FieldsOfOpen)
  BY <1>1, OpenEnds, TrimmedEnds
<1>4. t.kind = "table" /\ t.at = oo /\ t.fields = FieldsOfOpen
  OBVIOUS
<1> HIDE DEF t, v, oo
<1>5. IsBuffer(buf) /\ VtablesAt(buf, vtables) /\ AllMade(buf, vtables, made) /\ InLine(made)
  BY DEF IInv, Contents
<1>6. MadeAt(buf', vtables', t) /\ Tracked(buf', t)
  BY <1>2, <1>3, <1>4, <1>5, EndedIsMade
<1>7. GrownTo(buf, buf') /\ IsBuffer(buf') /\ oo \in Nat /\ oo > Offset(buf)
  BY <1>2, <1>5, BufferFacts DEF Ended, GrownTo
<1>8. AllMade(buf', vtables', made)
  <2>1. AllMade(buf', vtables, made)
    BY <1>5, <1>7, AllMadeStill
  <2>2. \A i \in DOMAIN vtables : i \in DOMAIN vtables' /\ vtables'[i] = vtables[i]
    BY <1>2 DEF Ended
  <2> QED BY <2>1, <2>2, MadeWithMoreVtables
<1>9. Contents'
  <2>1. VtablesAt(buf', vtables')
    BY <1>2 DEF Ended
  <2>2. AllMade(buf', vtables', made \cup {t})
    BY <1>6, <1>8 DEF AllMade
  <2>3. InLine(made \cup {t})
    <3>1. t.kind # "buffer"
      BY <1>4
    <3> QED BY <1>4, <1>5, <1>7, <3>1, InLineWithOneMore
  <2> QED BY <1>1, <2>1, <2>2, <2>3 DEF Contents
<1>10. OpenInv'
  BY <1>1 DEF OpenInv, NothingOpen
<1>11. SharedInv'
  BY <1>1, SharedStays
<1>12. objectEnd' \in Nat /\ finished' \in BOOLEAN
  BY <1>1 DEF IInv
<1> QED BY <1>7, <1>9, <1>10, <1>11, <1>12 DEF IInv

-----------------------------------------------------------------------------
(* The invariant.                                                          *)

LEMMA InitEstablishes == Init => IInv
<1> SUFFICES ASSUME Init PROVE IInv
  OBVIOUS
<1>1. /\ buf = NewBuffer(InitialSize) /\ vtable = <<>> /\ objectEnd = 0 /\ vtables = <<>>
      /\ nested = FALSE /\ finished = FALSE /\ sharedStrings = <<>>
      /\ open = NothingOpen /\ made = {}
  BY DEF Init
<1>2. IsBuffer(buf)
  BY <1>1, NewIsEmpty, SizesAssumption
<1>3. Contents
  BY <1>1 DEF Contents, VtablesAt, AllMade, InLine
<1>4. OpenInv
  BY <1>1 DEF OpenInv, NothingOpen
<1>5. SharedInv
  BY <1>1 DEF SharedInv, SharedStringsAreThere
<1> QED BY <1>1, <1>2, <1>3, <1>4, <1>5 DEF IInv

(* A call that panics, or finds a shared string, leaves the buffer as it   *)
(* is; a step leaves it with all it holds, or empties it.                  *)
Preserved == IInv' /\ (GrownTo(buf, buf') \/ Offset(buf') = 0)

LEMMA UnchangedPreserves == ASSUME IInv, UNCHANGED state PROVE Preserved
<1>1. buf' = buf /\ IsBuffer(buf)
  BY DEF state, IInv
<1> QED BY <1>1, PanicPreserves, GrownToItself DEF Preserved

LEMMA NextPreserves == IInv /\ [Next]_vars => Preserved
<1> SUFFICES ASSUME IInv, [Next]_vars PROVE Preserved
  OBVIOUS
<1>1. nested \in BOOLEAN
  BY DEF IInv, OpenInv
<1>2. CASE StartObject
  <2>1. CASE nested
    BY <1>2, <2>1, UnchangedPreserves DEF StartObject, Panic
  <2>2. CASE ~nested
    BY <1>2, <2>2, StartObjectPreserves DEF Preserved
  <2> QED BY <2>1, <2>2
<1>3. CASE \E o \in Fields, x \in Values : PrependSlot(o, x, 0)
  BY <1>3, PrependSlotPreserves DEF Preserved
<1>4. CASE \E o \in Fields : PrependSomeOffset(o)
  BY <1>4, PrependUOffsetTSlotPreserves DEF Preserved
<1>5. CASE \E o \in Fields, x \in Values : PrependStructSlot(o, x)
  BY <1>5, PrependStructSlotPreserves DEF Preserved
<1>6. CASE EndObject
  <2>1. CASE nested
    BY <1>6, <2>1, EndObjectPreserves DEF Preserved
  <2>2. CASE ~nested
    BY <1>6, <2>2, UnchangedPreserves DEF EndObject, Panic
  <2> QED BY <2>1, <2>2
<1>7. ASSUME NEW v \in Vectors, StartVector(v) PROVE Preserved
  <2>1. CASE nested
    BY <1>7, <2>1, UnchangedPreserves DEF StartVector, Panic
  <2>2. CASE ~nested
    BY <1>7, <2>2, StartVectorPreserves DEF Preserved
  <2> QED BY <2>1, <2>2
<1>8. CASE \E x \in Values : PrependElement(x)
  BY <1>8, PrependElementPreserves DEF Preserved
<1>9. CASE EndVector
  <2>1. CASE nested
    BY <1>9, <2>1, EndVectorPreserves DEF Preserved
  <2>2. CASE ~nested
    BY <1>9, <2>2, UnchangedPreserves DEF EndVector, Panic
  <2> QED BY <2>1, <2>2
<1>10. ASSUME NEW s \in Texts, CreateString(s) PROVE Preserved
  <2>1. CASE nested
    BY <1>10, <2>1, UnchangedPreserves DEF CreateString, Panic
  <2>2. CASE ~nested
    BY <1>10, <2>2, CreateStringPreserves DEF Preserved
  <2> QED BY <2>1, <2>2
<1>11. ASSUME NEW s \in Texts, CreateSharedString(s) PROVE Preserved
  <2>1. CASE s \in DOMAIN sharedStrings
    BY <1>11, <2>1, UnchangedPreserves DEF CreateSharedString
  <2>2. CASE s \notin DOMAIN sharedStrings /\ nested
    BY <1>11, <2>2, UnchangedPreserves DEF CreateSharedString, Panic
  <2>3. CASE s \notin DOMAIN sharedStrings /\ ~nested
    BY <1>11, <2>3, CreateSharedStringPreserves DEF Preserved
  <2> QED BY <2>1, <2>2, <2>3
<1>12. ASSUME NEW s \in Texts, CreateByteVector(s) PROVE Preserved
  <2>1. CASE nested
    BY <1>12, <2>1, UnchangedPreserves DEF CreateByteVector, Panic
  <2>2. CASE ~nested
    BY <1>12, <2>2, CreateByteVectorPreserves DEF Preserved
  <2> QED BY <2>1, <2>2
<1>13. CASE \E sizePrefix \in BOOLEAN, fid \in Identifiers \cup {0} : FinishSomeTable(sizePrefix, fid)
  BY <1>13, FinishPreserves DEF Preserved
<1>14. CASE Reset
  BY <1>14, ResetPreserves DEF Preserved
<1>15. CASE UNCHANGED vars
  BY <1>15, UnchangedPreserves DEF vars, state
<1> QED
  BY <1>2, <1>3, <1>4, <1>5, <1>6, <1>7, <1>8, <1>9, <1>10, <1>11, <1>12, <1>13, <1>14, <1>15
  DEF Next

(* What a client has made stands in the buffer, at its offset, and what it *)
(* is making has room; vtables are whole and differ; finished buffers are  *)
(* aligned for what they hold (all calls of the Builder).                  *)
THEOREM BuilderInvariant == Spec => []IInv
<1>1. Init => IInv
  BY InitEstablishes
<1>2. IInv /\ [Next]_vars => IInv'
  BY NextPreserves DEF Preserved
<1> QED BY <1>1, <1>2, PTL DEF Spec

-----------------------------------------------------------------------------
(* What follows for a client.                                              *)

(* The state has its type (the fields of Builder).                         *)
THEOREM BuilderTypeOK == Spec => []TypeOK
<1>1. Init => ret \in {"ok", "panic"}
  BY DEF Init
<1>2. ret \in {"ok", "panic"} /\ [Next]_vars => (ret \in {"ok", "panic"})'
  BY DEF Next, vars, StartObject, PrependSlot, PrependSomeOffset, PrependUOffsetTSlot,
         PrependStructSlot, EndObject, StartVector, PrependElement, EndVector, CreateString,
         CreateSharedString, AddString, CreateByteVector, FinishSomeTable, Finish, Reset, Panic
<1>3. IInv /\ ret \in {"ok", "panic"} => TypeOK
  <2> SUFFICES ASSUME IInv, ret \in {"ok", "panic"} PROVE TypeOK
    OBVIOUS
  <2>1. IsBuffer(buf) /\ VtablesAt(buf, vtables) /\ OpenInv /\ Offset(buf) \in Nat
    BY BufferFacts DEF IInv, Contents
  <2>2. \A i \in DOMAIN vtables : vtables[i] \in 1..Offset(buf)
    BY <2>1, VtableParts DEF VtablesAt
  <2>3. ASSUME NEW i \in DOMAIN vtable PROVE vtable[i] \in 0..Offset(buf)
    <3>1. OpenObject
      BY <2>1, <2>3 DEF OpenInv
    <3>2. i \in 1..Len(FieldSize) /\ Len(FieldSize) \in Nat
      BY <3>1, SizesAssumption DEF OpenObject
    <3>3. i - 1 \in Fields /\ (i - 1) + 1 = i
      BY <3>2 DEF Fields
    <3>4. vtable[i] = 0 \/ vtable[i] \in 1..Offset(buf)
      BY <3>1, <3>3 DEF OpenObject, FieldAt
    <3> QED BY <2>1, <3>4
  <2> QED BY <2>1, <2>2, <2>3 DEF TypeOK, IInv, SharedInv, OpenInv, IsBuffer, Bytes
<1> QED BY <1>1, <1>2, <1>3, BuilderInvariant, PTL DEF Spec

(* A shared string is in the buffer that is being built, and is the string *)
(* it was asked for (CreateSharedString, Reset).                           *)
THEOREM SharedStringsStay == Spec => []SharedStringsAreThere
<1>1. IInv => SharedStringsAreThere
  BY DEF IInv, SharedInv
<1> QED BY <1>1, BuilderInvariant, PTL

(* No call changes or moves what was written, WriteVtable's filling of the *)
(* room in front of an object included, but Reset, which empties the       *)
(* buffer (Prep, EndVector, WriteVtable, Finish).                          *)
THEOREM BuilderKeepsWritten == Spec => WrittenStays
<1>1. IInv /\ [Next]_vars => Offset(buf') = 0 \/ IsSuffix(Written(buf), Written(buf'))
  <2> SUFFICES ASSUME IInv, [Next]_vars, GrownTo(buf, buf')
               PROVE  IsSuffix(Written(buf), Written(buf'))
    BY NextPreserves DEF Preserved
  <2> QED BY KeptIsSuffix DEF IInv, GrownTo
<1> QED BY <1>1, BuilderInvariant, PTL DEF Spec, WrittenStays

LEMMA GetIsNum ==
    ASSUME NEW b, IsBuffer(b), NEW k \in Int
    PROVE  Get(b, BufLen(b) - k) = NumAt(b, k)
<1>1. PICK l \in Nat : l = BufLen(b)
  BY BufferFacts
<1>2. (l - k) + 1 = l - k + 1
  BY <1>1
<1> QED BY <1>1, <1>2 DEF Get, NumAt, ByteAt

(* No vtable is there twice, so that the search of WriteVtable misses none *)
(* (WriteVtable, vtableEqual).                                             *)
THEOREM VtablesAreShared == Spec => []VtablesDiffer
<1>1. IInv => VtablesDiffer
  <2> SUFFICES ASSUME IInv, NEW i \in DOMAIN vtables, NEW j \in DOMAIN vtables, i # j
               PROVE  LET p == BufLen(buf) - vtables[i]
                          q == BufLen(buf) - vtables[j]
                      IN \/ Get(buf, p) # Get(buf, q)
                         \/ \E k \in 2..(Get(buf, p) \div 2 - 1) :
                               Get(buf, p + 2 * k) # Get(buf, q + 2 * k)
    BY DEF VtablesDiffer
  <2>1. IsBuffer(buf) /\ VtablesAt(buf, vtables)
    BY DEF IInv, Contents
  <2>2. PICK l \in Nat, vt \in Nat, vu \in Nat :
           l = BufLen(buf) /\ vt = vtables[i] /\ vu = vtables[j]
    BY <2>1, BufferFacts DEF VtablesAt
  <2>3. Get(buf, l - vt) = NumAt(buf, vt) /\ Get(buf, l - vu) = NumAt(buf, vu)
    BY <2>1, <2>2, GetIsNum
  <2>4. ASSUME NEW k \in 2..(NumAt(buf, vt) \div 2 - 1)
        PROVE  /\ Get(buf, (l - vt) + 2 * k) = NumAt(buf, vt - 2 * k)
               /\ Get(buf, (l - vu) + 2 * k) = NumAt(buf, vu - 2 * k)
    <3>1. /\ (l - vt) + 2 * k = l - (vt - 2 * k) /\ vt - 2 * k \in Int
          /\ (l - vu) + 2 * k = l - (vu - 2 * k) /\ vu - 2 * k \in Int
      OBVIOUS
    <3>2. \A h \in Int : Get(buf, l - h) = NumAt(buf, h)
      BY <2>1, <2>2, GetIsNum
    <3> QED BY <3>1, <3>2
  <2>5. Differ(buf, vt, vu)
    BY <2>1, <2>2 DEF VtablesAt
  <2> QED BY <2>2, <2>3, <2>4, <2>5 DEF Differ
<1> QED BY <1>1, BuilderInvariant, PTL

(* Strings, byte vectors and vectors read back at every later time, at     *)
(* their alignment (CreateString, StartVector, EndVector).                 *)
THEOREM VectorsAreReadBack == Spec => []VectorsReadBack
<1>1. IInv => VectorsReadBack
  <2> SUFFICES ASSUME IInv, NEW m \in made
               PROVE  LET pos == BufLen(buf) - m.at
                          data == pos + SizeUOffsetT
                      IN CASE m.kind = "vector" ->
                                  /\ Holds(buf, pos, SizeUOffsetT, Len(m.elems))
                                  /\ m.at % SizeUOffsetT = 0
                                  /\ (m.at - SizeUOffsetT) % m.alignment = 0
                                  /\ \A i \in DOMAIN m.elems :
                                        Holds(buf, data + (i - 1) * m.size, m.size, m.elems[i])
                           [] m.kind \in {"string", "bytes"} ->
                                  /\ Holds(buf, pos, SizeUOffsetT, TextLen[m.text])
                                  /\ m.at % SizeUOffsetT = 0
                                  /\ Holds(buf, data, TextLen[m.text], m.text)
                                  /\ m.kind = "string" =>
                                        Holds(buf, data + TextLen[m.text], SizeByte, 0)
                           [] OTHER -> TRUE
    BY DEF VectorsReadBack
  <2>1. IsBuffer(buf) /\ MadeAt(buf, vtables, m)
    BY DEF IInv, Contents, AllMade
  <2>2. PICK l \in Nat, a \in Nat : l = BufLen(buf) /\ a = m.at
    BY <2>1, BufferFacts DEF MadeAt, SizeUOffsetT
  <2>3. CASE m.kind = "vector"
    <3>1. VectorAt(buf, m)
      BY <2>1, <2>3 DEF MadeAt
    <3>2. Holds(buf, l - a, SizeUOffsetT, Len(m.elems))
      <4>1. Len(m.elems) \in Int /\ HasAt(buf, a, SizeUOffsetT, Len(m.elems))
        BY <2>2, <3>1 DEF VectorAt
      <4> QED BY <2>1, <2>2, <4>1, HeldIsRead DEF SizeUOffsetT
    <3>3. ASSUME NEW i \in DOMAIN m.elems
          PROVE  Holds(buf, l - a + SizeUOffsetT + (i - 1) * m.size, m.size, m.elems[i])
      <4>1. i \in 1..Len(m.elems) /\ m.elems[i] \in Int /\ m.size \in {1, 2, 4, 8}
        BY <3>1 DEF VectorAt
      <4>2. HasAt(buf, a - SizeUOffsetT - (i - 1) * m.size, m.size, m.elems[i])
        BY <2>2, <3>1, <4>1 DEF VectorAt
      <4>3. PICK q \in Int : q = (i - 1) * m.size
        BY <4>1
      <4>4. l - (a - SizeUOffsetT - q) = l - a + SizeUOffsetT + q
        BY DEF SizeUOffsetT
      <4>5. Holds(buf, l - (a - SizeUOffsetT - q), m.size, m.elems[i])
        BY <2>1, <2>2, <4>1, <4>2, <4>3, HeldIsRead
      <4> QED BY <4>3, <4>4, <4>5
    <3> QED BY <2>2, <2>3, <3>1, <3>2, <3>3 DEF VectorAt
  <2>4. CASE m.kind \in {"string", "bytes"}
    <3>1. TextAt(buf, m)
      BY <2>1, <2>4 DEF MadeAt
    <3>2. PICK n \in Nat : n = TextLen[m.text]
      BY <3>1, SizesAssumption DEF TextAt
    <3>3. m.text \in Int
      <4>1. m.text \in Texts
        BY <3>1 DEF TextAt
      <4>2. m.text \in Nat
        BY <4>1, ValuesAssumption
      <4> QED BY <4>2
    <3>4. Holds(buf, l - a, SizeUOffsetT, n)
      BY <2>1, <2>2, <3>1, <3>2, HeldIsRead DEF TextAt, SizeUOffsetT
    <3>5. Holds(buf, l - a + SizeUOffsetT, n, m.text)
      <4>1. HasAt(buf, a - SizeUOffsetT, n, m.text)
        BY <2>2, <3>1, <3>2 DEF TextAt
      <4>2. l - (a - SizeUOffsetT) = l - a + SizeUOffsetT
        BY DEF SizeUOffsetT
      <4>3. Holds(buf, l - (a - SizeUOffsetT), n, m.text)
        BY <2>1, <2>2, <3>3, <4>1, HeldIsRead
      <4> QED BY <4>2, <4>3
    <3>6. ASSUME m.kind = "string" PROVE Holds(buf, l - a + SizeUOffsetT + n, SizeByte, 0)
      <4>1. HasAt(buf, a - SizeUOffsetT - n, SizeByte, 0)
        BY <2>2, <3>1, <3>2, <3>6 DEF TextAt
      <4>2. l - (a - SizeUOffsetT - n) = l - a + SizeUOffsetT + n
        BY DEF SizeUOffsetT
      <4>3. Holds(buf, l - (a - SizeUOffsetT - n), SizeByte, 0)
        BY <2>1, <2>2, <4>1, HeldIsRead DEF SizeByte
      <4> QED BY <4>2, <4>3
    <3>7. m.at % SizeUOffsetT = 0
      BY <3>1 DEF TextAt
    <3> QED BY <2>2, <2>4, <3>2, <3>4, <3>5, <3>6, <3>7
  <2> QED BY <2>3, <2>4
<1> QED BY <1>1, BuilderInvariant, PTL

(* Table.Offset finds the entry of the vtable to which the object leads.   *)
LEMMA TableOffsetIs ==
    ASSUME NEW b, IsBuffer(b), NEW at \in Int, NEW vt \in Int,
           HasAt(b, at, SizeSOffsetT, vt - at), NEW s \in Int
    PROVE  TableOffset(b, BufLen(b) - at, s) = IF s < NumAt(b, vt) THEN NumAt(b, vt - s) ELSE 0
<1>1. PICK l \in Nat : l = BufLen(b)
  BY BufferFacts
<1>2. Get(b, l - at) = vt - at
  BY <1>1, HeldIsRead DEF SizeSOffsetT
<1>3. (l - at) - (vt - at) = l - vt /\ (l - vt) + s = l - (vt - s) /\ vt - s \in Int
  OBVIOUS
<1>4. Get(b, l - vt) = NumAt(b, vt) /\ Get(b, l - (vt - s)) = NumAt(b, vt - s)
  BY <1>1, <1>3, GetIsNum
<1> QED BY <1>1, <1>2, <1>3, <1>4 DEF TableOffset

LEMMA SameRemainder ==
    ASSUME NEW a \in {1, 2, 4, 8}, NEW l \in Nat, NEW k \in 0..l, k % a = 0
    PROVE  (l - k) % a = l % a
<1>1. CASE a = 1
  BY <1>1
<1>2. CASE a = 2
  BY <1>2
<1>3. CASE a = 4
  BY <1>3
<1>4. CASE a = 8
  BY <1>4
<1> QED BY <1>1, <1>2, <1>3, <1>4

(* What Table.Offset finds for a field of a table.                         *)
Found(t, o) == TableOffset(buf, BufLen(buf) - t.at, SlotOf(o))

LEMMA FieldIsFound ==
    ASSUME IInv, NEW t \in Tables, NEW o \in Fields
    PROVE  IF o \notin DOMAIN t.fields THEN Found(t, o) = 0
           ELSE /\ Found(t, o) \in Nat \ {0}
                /\ FieldAt(buf, t.at - Found(t, o), o, t.fields[o])
<1>1. IsBuffer(buf) /\ MadeAt(buf, vtables, t) /\ t.kind = "table" /\ VtablesAt(buf, vtables)
  BY DEF IInv, Contents, AllMade, Tables
<1>2. TableAt(buf, vtables, t) /\ t.at \in Int
  BY <1>1 DEF MadeAt, SizeUOffsetT
<1>3. PICK j \in DOMAIN vtables :
         HasAt(buf, t.at, SizeSOffsetT, vtables[j] - t.at) /\ FieldsAt(buf, vtables[j], t)
  BY <1>2 DEF TableAt
<1>4. PICK vt \in Nat : vt = vtables[j] /\ IsVtable(buf, vt)
  BY <1>1 DEF VtablesAt
<1>5. PICK s \in Int : s = SlotOf(o)
  BY SizesAssumption DEF Fields, SlotOf, VtableMetadataFields, SizeVOffsetT
<1>6. Found(t, o) = IF s < NumAt(buf, vt) THEN NumAt(buf, vt - s) ELSE 0
  BY <1>1, <1>2, <1>3, <1>4, <1>5, TableOffsetIs DEF Found
<1>7. CASE o \notin DOMAIN t.fields
  BY <1>3, <1>4, <1>5, <1>6, <1>7 DEF FieldsAt
<1>8. CASE o \in DOMAIN t.fields
  <2>1. /\ s < NumAt(buf, vt) /\ NumAt(buf, vt - s) # 0
        /\ FieldAt(buf, t.at - NumAt(buf, vt - s), o, t.fields[o])
    BY <1>3, <1>4, <1>5, <1>8 DEF FieldsAt
  <2>2. NumAt(buf, vt - s) \in 0..(vt - 1)
    BY <1>1, <1>4, <1>5, <2>1, VtableParts
  <2> QED BY <1>6, <1>8, <2>1, <2>2
<1> QED BY <1>7, <1>8

(* Every table ever ended reads back what it was given, and the default    *)
(* for every other field: with a vtable of its own or with that of another *)
(* table, and however the buffer has grown (WriteVtable, Table.Offset).    *)
THEOREM TablesAreReadBack == Spec => []TablesReadBack
<1>1. IInv => TablesReadBack
  <2> SUFFICES ASSUME IInv, NEW t \in Tables, NEW o \in Fields
               PROVE  LET pos == BufLen(buf) - t.at
                          off == Found(t, o)
                      IN IF o \notin DOMAIN t.fields THEN off = 0
                         ELSE /\ off # 0
                              /\ (pos + off) % Alignment(o) = BufLen(buf) % Alignment(o)
                              /\ IF t.fields[o].target = 0
                                 THEN Holds(buf, pos + off, FieldSize[o + 1], t.fields[o].value)
                                 ELSE Indirect(buf, pos + off) = BufLen(buf) - t.fields[o].target
    BY DEF TablesReadBack, Found
  <2>1. CASE o \notin DOMAIN t.fields
    BY <2>1, FieldIsFound
  <2>2. CASE o \in DOMAIN t.fields
    <3>1. IsBuffer(buf) /\ MadeAt(buf, vtables, t)
      BY DEF IInv, Contents, AllMade, Tables
    <3>2. PICK l \in Nat, a \in Nat : l = BufLen(buf) /\ a = t.at /\ a <= Offset(buf)
      BY <3>1, BufferFacts DEF MadeAt, SizeUOffsetT
    <3>3. PICK off \in Nat : off = Found(t, o) /\ off # 0 /\ FieldAt(buf, a - off, o, t.fields[o])
      BY <2>2, <3>2, FieldIsFound
    <3>4. PICK k \in Nat : k = a - off /\ k <= l /\ FieldAt(buf, k, o, t.fields[o])
      <4>1. a - off \in 1..Offset(buf) /\ Offset(buf) <= l /\ Offset(buf) \in Nat
        BY <3>1, <3>2, <3>3, BufferFacts DEF FieldAt
      <4> QED BY <3>3, <4>1
    <3>5. (l - a) + off = l - k
      BY <3>4
    <3>6. Alignment(o) \in {1, 2, 4, 8} /\ FieldSize[o + 1] \in Nat \ {0}
      BY SizesAreNumbers
    <3>7. (l - k) % Alignment(o) = l % Alignment(o)
      BY <3>4, <3>6, SameRemainder DEF FieldAt
    <3>8. CASE t.fields[o].target = 0
      <4>1. HasAt(buf, k, FieldSize[o + 1], t.fields[o].value) /\ t.fields[o].value \in Int
        BY <3>4, <3>8 DEF FieldAt
      <4>2. Holds(buf, l - k, FieldSize[o + 1], t.fields[o].value)
        BY <3>1, <3>2, <3>6, <4>1, HeldIsRead
      <4> QED BY <2>2, <3>2, <3>3, <3>5, <3>7, <3>8, <4>2
    <3>9. CASE t.fields[o].target # 0
      <4>1. PICK x \in Int : x = t.fields[o].target
        BY <3>4 DEF FieldAt
      <4>2. HasAt(buf, k, SizeUOffsetT, k - x)
        BY <3>4, <3>9, <4>1 DEF FieldAt
      <4>3. Get(buf, l - k) = k - x
        BY <3>1, <3>2, <4>2, HeldIsRead DEF SizeUOffsetT
      <4>4. Indirect(buf, l - k) = l - x
        BY <4>3 DEF Indirect
      <4> QED BY <2>2, <3>2, <3>3, <3>5, <3>7, <3>9, <4>1, <4>4
    <3> QED BY <3>8, <3>9
  <2> QED BY <2>1, <2>2
<1> QED BY <1>1, BuilderInvariant, PTL

LEMMA DifferenceOfMultiples ==
    ASSUME NEW a \in {1, 2, 4, 8}, NEW l \in Nat, NEW k \in 0..l, l % a = 0, k % a = 0
    PROVE  (l - k) % a = 0
  BY SameRemainder

(* A finished buffer leads to its root table, holds its identifier and its *)
(* size, and is aligned for every field and vector in it, however much was *)
(* put in front since (finish, GetRootAs, GetSizePrefixedRootAs).          *)
THEOREM BuffersAreReadBack == Spec => []BuffersReadBack
<1>1. IInv => BuffersReadBack
  <2> SUFFICES ASSUME IInv, NEW m \in made, m.kind = "buffer"
               PROVE  LET start == BufLen(buf) - m.at
                          pos == start + (IF m.prefixed THEN sizePrefixLength ELSE 0)
                      IN /\ m.prefixed => Holds(buf, start, SizeUint32, m.at - sizePrefixLength)
                         /\ Indirect(buf, pos) = BufLen(buf) - m.root
                         /\ m.identifier # 0 =>
                               Holds(buf, pos + SizeUOffsetT, fileIdentifierLength, m.identifier)
                         /\ \A t \in Tables : t.at < m.at =>
                               \A o \in DOMAIN t.fields :
                                  (BufLen(buf) - t.at + Found(t, o) - start) % Alignment(o) = 0
                         /\ \A v \in made : v.kind = "vector" /\ v.at < m.at =>
                               (m.at - (v.at - SizeUOffsetT)) % v.alignment = 0
    BY DEF BuffersReadBack, Found
  <2>1. IsBuffer(buf) /\ MadeAt(buf, vtables, m) /\ InLine(made)
    BY DEF IInv, Contents, AllMade
  <2>2. PICK l \in Nat, a \in Nat : l = BufLen(buf) /\ a = m.at
    BY <2>1, BufferFacts DEF MadeAt, SizeUOffsetT
  <2>3. BufferAt(buf, m)
    BY <2>1 DEF MadeAt
  <2>4. PICK p \in 0..4 : p = (IF m.prefixed THEN sizePrefixLength ELSE 0) /\ RootAt(m) = a - p
    BY <2>2 DEF RootAt, sizePrefixLength
  <2>5. m.prefixed => Holds(buf, l - a, SizeUint32, a - sizePrefixLength)
    <3>1. a - sizePrefixLength \in Int
      BY DEF sizePrefixLength
    <3> QED BY <2>1, <2>2, <2>3, <3>1, HeldIsRead DEF BufferAt, SizeUint32
  <2>6. Indirect(buf, (l - a) + p) = l - m.root
    <3>1. PICK r \in Nat : r = m.root /\ HasAt(buf, a - p, SizeUOffsetT, (a - p) - r)
      BY <2>3, <2>4 DEF BufferAt
    <3>2. Get(buf, l - (a - p)) = (a - p) - r
      BY <2>1, <2>2, <3>1, HeldIsRead DEF SizeUOffsetT
    <3>3. l - (a - p) = (l - a) + p /\ (l - a) + p + ((a - p) - r) = l - r
      OBVIOUS
    <3> QED BY <3>1, <3>2, <3>3 DEF Indirect
  <2>7. m.identifier # 0 =>
           Holds(buf, (l - a) + p + SizeUOffsetT, fileIdentifierLength, m.identifier)
    <3> SUFFICES ASSUME m.identifier # 0
                 PROVE  Holds(buf, (l - a) + p + SizeUOffsetT, fileIdentifierLength, m.identifier)
      OBVIOUS
    <3>1. /\ m.identifier \in Int
          /\ HasAt(buf, a - p - SizeUOffsetT, fileIdentifierLength, m.identifier)
      BY <2>3, <2>4 DEF BufferAt
    <3>2. Holds(buf, l - (a - p - SizeUOffsetT), fileIdentifierLength, m.identifier)
      BY <2>1, <2>2, <3>1, HeldIsRead DEF fileIdentifierLength
    <3>3. l - (a - p - SizeUOffsetT) = (l - a) + p + SizeUOffsetT
      BY DEF SizeUOffsetT
    <3> QED BY <3>2, <3>3
  <2>8. ASSUME NEW t \in Tables, t.at < m.at, NEW o \in DOMAIN t.fields
        PROVE  (l - t.at + Found(t, o) - (l - a)) % Alignment(o) = 0
    <3>1. MadeAt(buf, vtables, t) /\ t \in made /\ t.kind = "table"
      BY DEF IInv, Contents, AllMade, Tables
    <3>2. o \in Fields
      BY <3>1 DEF MadeAt, TableAt
    <3>3. Alignment(o) \in {1, 2, 4, 8} /\ a % Alignment(o) = 0
      BY <2>1, <2>2, <2>8, <3>1, <3>2, SizesAreNumbers DEF InLine, AlignedFor
    <3>4. PICK e \in Nat, off \in Nat : e = t.at /\ off = Found(t, o) /\ FieldAt(buf, e - off, o, t.fields[o])
      BY <3>1, <3>2, FieldIsFound DEF MadeAt, SizeUOffsetT
    <3>5. e - off \in 0..a /\ (e - off) % Alignment(o) = 0
      BY <2>2, <2>8, <3>4 DEF FieldAt
    <3>6. (a - (e - off)) % Alignment(o) = 0
      BY <3>3, <3>5, DifferenceOfMultiples
    <3>7. l - e + off - (l - a) = a - (e - off)
      OBVIOUS
    <3> QED BY <3>4, <3>6, <3>7
  <2>9. ASSUME NEW v \in made, v.kind = "vector", v.at < m.at
        PROVE  (a - (v.at - SizeUOffsetT)) % v.alignment = 0
    <3>1. MadeAt(buf, vtables, v) /\ VectorAt(buf, v)
      BY <2>9 DEF IInv, Contents, AllMade, MadeAt
    <3>2. a % v.alignment = 0 /\ v.alignment \in {1, 2, 4, 8} /\ (v.at - SizeUOffsetT) % v.alignment = 0
      BY <2>1, <2>2, <2>9, <3>1 DEF InLine, AlignedFor, VectorAt
    <3>3. v.at - SizeUOffsetT \in 0..a
      BY <2>2, <2>9, <3>1 DEF MadeAt, SizeUOffsetT
    <3> QED BY <3>2, <3>3, DifferenceOfMultiples
  <2> QED BY <2>2, <2>4, <2>5, <2>6, <2>7, <2>8, <2>9
<1> QED BY <1>1, BuilderInvariant, PTL
=============================================================================
