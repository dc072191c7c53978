---------------------------- MODULE FlatTableProofs ----------------------------
(***************************************************************************)
(* Proofs about FlatTable: what a receiver reads of a message and changes  *)
(* in it.  A change stays in its field because nothing in a buffer         *)
(* overlaps anything else.                                                 *)
(***************************************************************************)
EXTENDS FlatTable, FlatBuilderProofs

(* The bytes of a thing are those up to its offset, beyond that of its     *)
(* bottom.  A vector that was ended as an object has a header alone, and   *)
(* the objectEnd of an object before it.                                   *)
Bottom(m) ==
    CASE m.kind = "table" -> m.at - (IF DOMAIN m.fields = {} THEN SizeSOffsetT ELSE m.size)
      [] m.kind = "vector" -> m.at - SizeUOffsetT - Len(m.elems) * m.size
      [] m.kind \in {"string", "bytes"} ->
            m.at - SizeUOffsetT - TextLen[m.text] - (IF m.kind = "string" THEN SizeByte ELSE 0)
      [] m.kind = "buffer" ->
            RootAt(m) - SizeUOffsetT - (IF m.identifier = 0 THEN 0 ELSE fileIdentifierLength)

(* Where a reader finds the field o of a table.                            *)
At(b, t, o) == t.at - TableOffset(b, BufLen(b) - t.at, SlotOf(o))

AreFields(fields) ==
    /\ fields = [o \in DOMAIN fields |-> fields[o]]
    /\ \A o \in DOMAIN fields : fields[o] = [value |-> fields[o].value, target |-> fields[o].target]

(* The field o at the offset k, and the field p at the offset l.           *)
Clear(k, o, l, p) == k <= l - FieldSize[p + 1] \/ l <= k - FieldSize[o + 1]

(* The fields of a table are between its bottom and its header.            *)
LaidOut(b, t) ==
    /\ t = [kind |-> "table", at |-> t.at, fields |-> t.fields, size |-> t.size]
    /\ AreFields(t.fields) /\ t.size \in Int
    /\ \A o \in DOMAIN t.fields :
          /\ At(b, t, o) - FieldSize[o + 1] >= t.at - t.size
          /\ At(b, t, o) <= t.at - SizeSOffsetT
    /\ \A o, p \in DOMAIN t.fields : o # p => Clear(At(b, t, o), o, At(b, t, p), p)

(* A field that is an offset leads to something made.                      *)
Lead(things, fields) ==
    \A o \in DOMAIN fields : fields[o].target # 0 =>
        /\ FieldSize[o + 1] = SizeUOffsetT
        /\ \E m \in things : m.kind # "buffer" /\ m.at = fields[o].target

(* Things, and vtables, do not overlap.                                    *)
Apart(b, vts, things) ==
    /\ \A m, n \in things : m # n => m.at <= Bottom(n) \/ n.at <= Bottom(m)
    /\ \A m \in things, j \in DOMAIN vts :
          vts[j] <= Bottom(m) \/ m.at <= vts[j] - NumAt(b, vts[j])
    /\ \A t \in things : t.kind = "table" => LaidOut(b, t) /\ Lead(things, t.fields)

Below(k) == (\A m \in made : m.at <= k) /\ \A j \in DOMAIN vtables : vtables[j] <= k

(* What is open is in front of all that is finished.                       *)
OpenFieldsApart ==
    /\ Below(objectEnd)
    /\ AreFields(open.fields) /\ Lead(made, open.fields)
    /\ \A o \in DOMAIN open.fields : vtable[o + 1] - FieldSize[o + 1] >= objectEnd
    /\ \A o, p \in DOMAIN open.fields : o # p => Clear(vtable[o + 1], o, vtable[p + 1], p)
OpenApart ==
    /\ open.kind = "object" => OpenFieldsApart
    /\ open.kind = "vector" => Below(Offset(buf) - Len(open.elems) * open.vector.size)

ApartInv == Apart(buf, vtables, made) /\ OpenApart

(* A message, as a buffer that is full.                                    *)
View(m) == [bytes |-> m.bytes, cap |-> Len(m.bytes), head |-> 0, minalign |-> 8]

(* A message holds what it is said to hold.                                *)
Carries(b, vts, things) ==
    /\ \A j \in DOMAIN vts : IsVtable(b, vts[j])
    /\ \A m \in things : MadeAt(b, vts, m)
    /\ Apart(b, vts, things)

EndsWithRoot(m, prefixed) ==
    \E x \in m.made : x.kind = "buffer" /\ x.at = Len(m.bytes) /\ x.prefixed = prefixed

IsMessage(m) ==
    /\ m = [bytes |-> m.bytes, made |-> m.made, finish |-> m.finish]
    /\ IsBuffer(View(m))
    /\ \E vts \in Seq(Nat) : Carries(View(m), vts, m.made)
    /\ m.finish = "plain" => EndsWithRoot(m, FALSE)
    /\ m.finish = "prefixed" => EndsWithRoot(m, TRUE)

TableInv == IInv /\ ApartInv /\ IsMessage(message)

-----------------------------------------------------------------------------
(* Where the fields are.                                                   *)

LEMMA AtIs ==
    ASSUME NEW b, IsBuffer(b), NEW vts, \A j \in DOMAIN vts : IsVtable(b, vts[j]),
           NEW t, t.at \in Int, TableAt(b, vts, t)
    PROVE  \E vt \in Nat :
              /\ IsVtable(b, vt) /\ (\E j \in DOMAIN vts : vt = vts[j])
              /\ HasAt(b, t.at, SizeSOffsetT, vt - t.at) /\ FieldsAt(b, vt, t)
              /\ \A o \in Fields : TableOffset(b, BufLen(b) - t.at, SlotOf(o))
                    = IF SlotOf(o) < NumAt(b, vt) THEN NumAt(b, vt - SlotOf(o)) ELSE 0
<1>1. PICK j \in DOMAIN vts :
         HasAt(b, t.at, SizeSOffsetT, vts[j] - t.at) /\ FieldsAt(b, vts[j], t)
  BY DEF TableAt
<1>2. PICK vt \in Nat : vt = vts[j] /\ IsVtable(b, vt)
  BY DEF IsVtable
<1>3. ASSUME NEW o \in Fields
      PROVE  TableOffset(b, BufLen(b) - t.at, SlotOf(o))
                = IF SlotOf(o) < NumAt(b, vt) THEN NumAt(b, vt - SlotOf(o)) ELSE 0
  <2>1. SlotOf(o) \in Int
    BY SizesAssumption DEF Fields, SlotOf, VtableMetadataFields, SizeVOffsetT
  <2> QED BY <1>1, <1>2, <2>1, TableOffsetIs
<1> QED BY <1>1, <1>2, <1>3

(* A field that was set is found, as it was set; another is not.           *)
LEMMA FieldFound ==
    ASSUME NEW b, IsBuffer(b), NEW vts, \A j \in DOMAIN vts : IsVtable(b, vts[j]),
           NEW t, t.at \in Int, TableAt(b, vts, t), NEW o \in Fields
    PROVE  /\ o \in DOMAIN t.fields =>
                 /\ TableOffset(b, BufLen(b) - t.at, SlotOf(o)) \in Nat \ {0}
                 /\ At(b, t, o) \in Nat /\ FieldAt(b, At(b, t, o), o, t.fields[o])
           /\ o \notin DOMAIN t.fields => TableOffset(b, BufLen(b) - t.at, SlotOf(o)) = 0
<1>1. PICK vt \in Nat :
         /\ IsVtable(b, vt) /\ FieldsAt(b, vt, t)
         /\ \A p \in Fields : TableOffset(b, BufLen(b) - t.at, SlotOf(p))
               = IF SlotOf(p) < NumAt(b, vt) THEN NumAt(b, vt - SlotOf(p)) ELSE 0
  BY AtIs
<1>2. CASE o \in DOMAIN t.fields
  <2>1. /\ SlotOf(o) < NumAt(b, vt) /\ NumAt(b, vt - SlotOf(o)) # 0
        /\ FieldAt(b, t.at - NumAt(b, vt - SlotOf(o)), o, t.fields[o])
    BY <1>1, <1>2 DEF FieldsAt
  <2>2. NumAt(b, vt - SlotOf(o)) \in 0..(vt - 1)
    BY <1>1, <2>1, VtableParts
  <2>3. At(b, t, o) = t.at - NumAt(b, vt - SlotOf(o))
    BY <1>1, <2>1 DEF At
  <2>4. FieldAt(b, At(b, t, o), o, t.fields[o])
    BY <2>1, <2>3
  <2>5. At(b, t, o) \in Nat
    BY <2>4 DEF FieldAt
  <2> QED BY <1>1, <1>2, <2>1, <2>2, <2>4, <2>5
<1>3. CASE o \notin DOMAIN t.fields
  BY <1>1, <1>3 DEF FieldsAt
<1> QED BY <1>2, <1>3

(* The fields are found where they were as long as the table and its       *)
(* vtable stay.                                                            *)
SameIn(b, c, lo, hi) == \A k \in 1..Offset(b) : lo < k /\ k <= hi => ByteAt(c, k) = ByteAt(b, k)

LEMMA HasSame ==
    ASSUME NEW b, NEW c, IsBuffer(b), IsBuffer(c), Offset(b) <= Offset(c),
           NEW k, NEW n \in Nat, NEW x, HasAt(b, k, n, x),
           NEW lo \in Int, NEW hi \in Int, SameIn(b, c, lo, hi), lo <= k - n, k <= hi
    PROVE  HasAt(c, k, n, x)
<1>1. k \in n..Offset(b) /\ Offset(b) \in Nat /\ Offset(c) \in Nat
  BY BufferFacts DEF HasAt
<1>2. ASSUME NEW i \in 1..n PROVE ByteAt(c, k - i + 1) = Scalar(n, x)[i]
  <2>1. k - i + 1 \in 1..Offset(b) /\ lo < k - i + 1 /\ k - i + 1 <= hi
    BY <1>1
  <2> QED BY <2>1 DEF HasAt, SameIn
<1> QED BY <1>1, <1>2 DEF HasAt

LEMMA NumSame ==
    ASSUME NEW b, NEW c, NEW lo \in Int, NEW hi \in Int, SameIn(b, c, lo, hi),
           NEW k \in 1..Offset(b), lo < k, k <= hi
    PROVE  NumAt(c, k) = NumAt(b, k)
  BY DEF SameIn, NumAt

LEMMA VtableSame ==
    ASSUME NEW b, NEW c, IsBuffer(b), IsBuffer(c), Offset(b) <= Offset(c),
           NEW vt, IsVtable(b, vt), SameIn(b, c, vt - NumAt(b, vt), vt)
    PROVE  /\ IsVtable(c, vt) /\ NumAt(c, vt) = NumAt(b, vt)
           /\ \A o \in Fields : SlotOf(o) < NumAt(b, vt) =>
                 NumAt(c, vt - SlotOf(o)) = NumAt(b, vt - SlotOf(o))
<1>1. vt \in 1..Offset(b) /\ vt \in Nat /\ Offset(b) \in Nat /\ Offset(c) \in Nat
  BY VtableParts, BufferFacts
<1>2. PICK n \in 0..Len(FieldSize) :
         /\ NumAt(b, vt) = (n + 2) * 2 /\ (n + 2) * 2 <= vt
         /\ \A i \in 1..n : NumAt(b, vt - (i + 1) * 2) \in 0..(vt - 1)
  BY DEF IsVtable, VtableMetadataFields, SizeVOffsetT
<1>3. n \in Nat
  BY SizesAssumption
<1>4. PICK lo \in Int : lo = vt - (n + 2) * 2 /\ SameIn(b, c, lo, vt)
  BY <1>1, <1>2, <1>3
<1>5. NumAt(c, vt) = (n + 2) * 2
  <2>1. lo < vt /\ vt <= vt
    BY <1>1, <1>3, <1>4
  <2> QED BY <1>1, <1>2, <1>4, <2>1, NumSame
<1>6. ASSUME NEW i \in 1..n
      PROVE  NumAt(c, vt - (i + 1) * 2) = NumAt(b, vt - (i + 1) * 2)
  <2>1. vt - (i + 1) * 2 \in 1..Offset(b) /\ lo < vt - (i + 1) * 2 /\ vt - (i + 1) * 2 <= vt
    BY <1>1, <1>2, <1>3, <1>4
  <2> QED BY <1>1, <1>4, <2>1, NumSame
<1>7. IsVtable(c, vt)
  <2>1. vt <= Offset(c)
    BY <1>1
  <2>2. \A i \in 1..n : NumAt(c, vt - (i + 1) * 2) \in 0..(vt - 1)
    BY <1>2, <1>6
  <2> QED BY <1>1, <1>2, <1>5, <2>1, <2>2, IsVtableOf
<1>8. ASSUME NEW o \in Fields, SlotOf(o) < NumAt(b, vt)
      PROVE  NumAt(c, vt - SlotOf(o)) = NumAt(b, vt - SlotOf(o))
  <2>1. SlotOf(o) = (o + 2) * 2 /\ o \in Nat
    BY SizesAssumption DEF SlotOf, VtableMetadataFields, SizeVOffsetT, Fields
  <2>2. o + 1 \in 1..n /\ vt - SlotOf(o) = vt - ((o + 1) + 1) * 2
    BY <1>1, <1>2, <1>3, <1>8, <2>1
  <2> QED BY <1>6, <2>2
<1> QED BY <1>2, <1>5, <1>7, <1>8

VtablesSame(b, c, vts) ==
    \A j \in DOMAIN vts : IsVtable(b, vts[j]) /\ SameIn(b, c, vts[j] - NumAt(b, vts[j]), vts[j])

HeaderSame(b, c, t) == SameIn(b, c, t.at - SizeSOffsetT, t.at)

LEMMA FoundSame ==
    ASSUME NEW b, NEW c, IsBuffer(b), IsBuffer(c), Offset(b) <= Offset(c),
           NEW vts, VtablesSame(b, c, vts),
           NEW t, t.at \in Int, TableAt(b, vts, t), HeaderSame(b, c, t), NEW o \in Fields
    PROVE  /\ TableOffset(c, BufLen(c) - t.at, SlotOf(o)) = TableOffset(b, BufLen(b) - t.at, SlotOf(o))
           /\ At(c, t, o) = At(b, t, o)
<1>1. \A j \in DOMAIN vts : IsVtable(b, vts[j])
  BY DEF VtablesSame
<1>2. PICK vt \in Nat :
         /\ IsVtable(b, vt) /\ (\E j \in DOMAIN vts : vt = vts[j])
         /\ HasAt(b, t.at, SizeSOffsetT, vt - t.at)
         /\ \A p \in Fields : TableOffset(b, BufLen(b) - t.at, SlotOf(p))
               = IF SlotOf(p) < NumAt(b, vt) THEN NumAt(b, vt - SlotOf(p)) ELSE 0
  BY <1>1, AtIs
<1>3. SameIn(b, c, vt - NumAt(b, vt), vt)
  BY <1>2 DEF VtablesSame
<1>4. /\ NumAt(c, vt) = NumAt(b, vt)
      /\ SlotOf(o) < NumAt(b, vt) => NumAt(c, vt - SlotOf(o)) = NumAt(b, vt - SlotOf(o))
  BY <1>2, <1>3, VtableSame
<1>5. HasAt(c, t.at, SizeSOffsetT, vt - t.at)
  <2>1. SameIn(b, c, t.at - 4, t.at) /\ HasAt(b, t.at, 4, vt - t.at)
    BY <1>2 DEF HeaderSame, SizeSOffsetT
  <2>2. t.at - 4 \in Int /\ t.at - 4 <= t.at - 4 /\ t.at <= t.at
    OBVIOUS
  <2> QED BY <2>1, <2>2, HasSame DEF SizeSOffsetT
<1>6. SlotOf(o) \in Int
  BY SizesAssumption DEF Fields, SlotOf, VtableMetadataFields, SizeVOffsetT
<1>7. TableOffset(c, BufLen(c) - t.at, SlotOf(o))
         = IF SlotOf(o) < NumAt(c, vt) THEN NumAt(c, vt - SlotOf(o)) ELSE 0
  BY <1>5, <1>6, TableOffsetIs
<1>8. TableOffset(c, BufLen(c) - t.at, SlotOf(o)) = TableOffset(b, BufLen(b) - t.at, SlotOf(o))
  BY <1>2, <1>4, <1>7
<1> QED BY <1>8 DEF At

(* A table stays, with the same fields or with others in their places.     *)
LEMMA TableSame ==
    ASSUME NEW b, NEW c, IsBuffer(b), IsBuffer(c), Offset(b) <= Offset(c),
           NEW vts, VtablesSame(b, c, vts),
           NEW t, t.at \in Int, TableAt(b, vts, t), HeaderSame(b, c, t),
           NEW u, u.at = t.at, DOMAIN u.fields = DOMAIN t.fields,
           \A p \in DOMAIN t.fields : FieldAt(c, At(b, t, p), p, u.fields[p])
    PROVE  TableAt(c, vts, u)
<1>1. PICK j \in DOMAIN vts :
         HasAt(b, t.at, SizeSOffsetT, vts[j] - t.at) /\ FieldsAt(b, vts[j], t)
  BY DEF TableAt
<1>2. PICK vt \in Nat : vt = vts[j] /\ IsVtable(b, vt) /\ SameIn(b, c, vt - NumAt(b, vt), vt)
  BY DEF IsVtable, VtablesSame
<1>3. /\ NumAt(c, vt) = NumAt(b, vt)
      /\ \A p \in Fields : SlotOf(p) < NumAt(b, vt) =>
            NumAt(c, vt - SlotOf(p)) = NumAt(b, vt - SlotOf(p))
  BY <1>2, VtableSame
<1>4. HasAt(c, t.at, SizeSOffsetT, vt - t.at)
  <2>1. SameIn(b, c, t.at - 4, t.at) /\ HasAt(b, t.at, 4, vt - t.at)
    BY <1>1, <1>2 DEF HeaderSame, SizeSOffsetT
  <2>2. t.at - 4 \in Int /\ t.at - 4 <= t.at - 4 /\ t.at <= t.at
    OBVIOUS
  <2> QED BY <2>1, <2>2, HasSame DEF SizeSOffsetT
<1>5. ASSUME NEW p \in Fields, p \in DOMAIN t.fields
      PROVE  /\ SlotOf(p) < NumAt(c, vt) /\ NumAt(c, vt - SlotOf(p)) # 0
             /\ FieldAt(c, u.at - NumAt(c, vt - SlotOf(p)), p, u.fields[p])
  <2>1. SlotOf(p) < NumAt(b, vt) /\ NumAt(b, vt - SlotOf(p)) # 0
    BY <1>1, <1>2, <1>5 DEF FieldsAt
  <2>2. SlotOf(p) \in Int
    BY SizesAssumption DEF Fields, SlotOf, VtableMetadataFields, SizeVOffsetT
  <2>3. At(b, t, p) = t.at - NumAt(b, vt - SlotOf(p))
    BY <1>1, <1>2, <2>1, <2>2, TableOffsetIs DEF At
  <2>4. FieldAt(c, At(b, t, p), p, u.fields[p])
    BY <1>5
  <2> QED BY <1>3, <2>1, <2>3, <2>4
<1>6. ASSUME NEW p \in Fields, p \notin DOMAIN t.fields, SlotOf(p) < NumAt(c, vt)
      PROVE  NumAt(c, vt - SlotOf(p)) = 0
  BY <1>1, <1>2, <1>3, <1>6 DEF FieldsAt
<1>7. FieldsAt(c, vt, u)
  BY <1>5, <1>6 DEF FieldsAt
<1> QED BY <1>2, <1>4, <1>7 DEF TableAt

LEMMA LaidOutSame ==
    ASSUME NEW b, NEW c, NEW t, LaidOut(b, t), \A o \in DOMAIN t.fields : At(c, t, o) = At(b, t, o)
    PROVE  LaidOut(c, t)
  BY DEF LaidOut

LEMMA ApartSame ==
    ASSUME NEW b, NEW c, IsBuffer(b), IsBuffer(c), Offset(b) <= Offset(c),
           NEW vts, VtablesSame(b, c, vts),
           NEW things, Apart(b, vts, things), \A m \in things : MadeAt(b, vts, m),
           \A m \in things : m.kind = "table" => HeaderSame(b, c, m)
    PROVE  Apart(c, vts, things)
<1>1. \A j \in DOMAIN vts : NumAt(c, vts[j]) = NumAt(b, vts[j])
  BY VtableSame DEF VtablesSame
<1>2. ASSUME NEW t \in things, t.kind = "table" PROVE LaidOut(c, t)
  <2>1. MadeAt(b, vts, t) /\ HeaderSame(b, c, t)
    BY <1>2
  <2>2. TableAt(b, vts, t) /\ t.at \in Int
    BY <1>2, <2>1 DEF MadeAt, SizeUOffsetT
  <2>3. ASSUME NEW o \in DOMAIN t.fields PROVE At(c, t, o) = At(b, t, o)
    <3>1. o \in Fields
      BY <2>2 DEF TableAt
    <3> QED BY <2>1, <2>2, <3>1, FoundSame
  <2>4. LaidOut(b, t)
    BY <1>2 DEF Apart
  <2> QED BY <2>3, <2>4, LaidOutSame
<1> QED BY <1>1, <1>2 DEF Apart

(* A buffer that keeps another keeps things apart.                         *)
LEMMA KeptIsSame ==
    ASSUME NEW b, NEW c, Keeps(b, c), NEW lo, NEW hi
    PROVE  SameIn(b, c, lo, hi)
  BY DEF Keeps, SameIn

LEMMA ApartStill ==
    ASSUME NEW b, NEW c, IsBuffer(b), IsBuffer(c), Keeps(b, c),
           NEW vts, \A j \in DOMAIN vts : IsVtable(b, vts[j]),
           NEW things, Apart(b, vts, things), \A m \in things : MadeAt(b, vts, m)
    PROVE  Apart(c, vts, things)
<1>1. VtablesSame(b, c, vts)
  BY KeptIsSame DEF VtablesSame
<1>2. \A m \in things : HeaderSame(b, c, m)
  BY KeptIsSame DEF HeaderSame
<1>3. Offset(b) <= Offset(c)
  BY DEF Keeps
<1> QED BY <1>1, <1>2, <1>3, ApartSame

-----------------------------------------------------------------------------
(* The Builder keeps things apart.                                         *)

LEMMA AllBelow == ASSUME IInv PROVE Below(Offset(buf))
<1>1. \A m \in made : m.at <= Offset(buf)
  BY BufferFacts DEF IInv, Contents, AllMade, MadeAt, SizeUOffsetT
<1>2. \A j \in DOMAIN vtables : vtables[j] <= Offset(buf)
  BY DEF IInv, Contents, VtablesAt, IsVtable
<1> QED BY <1>1, <1>2 DEF Below

LEMMA ContentsParts ==
    ASSUME IInv
    PROVE  /\ IsBuffer(buf) /\ Offset(buf) \in Nat /\ vtables \in Seq(Nat)
           /\ \A j \in DOMAIN vtables : IsVtable(buf, vtables[j]) /\ vtables[j] \in Nat
           /\ \A m \in made : MadeAt(buf, vtables, m) /\ m.at \in Nat
  BY BufferFacts, SMTT(30) DEF IInv, Contents, AllMade, MadeAt, VtablesAt, IsVtable, SizeUOffsetT

LEMMA BelowMore ==
    ASSUME IInv, NEW k \in Int, NEW l \in Int, k <= l, Below(k)
    PROVE  Below(l)
  BY ContentsParts DEF Below

LEMMA ApartStays ==
    ASSUME IInv, Apart(buf, vtables, made), GrownTo(buf, buf')
    PROVE  Apart(buf', vtables, made)
  BY ContentsParts, ApartStill DEF GrownTo

(* A thing whose bottom is above all there is, but for its vtable.         *)
LEMMA ApartWithOneMore ==
    ASSUME NEW b, NEW vts, NEW things, Apart(b, vts, things), NEW x,
           \A m \in things : m.at <= Bottom(x),
           \A j \in DOMAIN vts : vts[j] <= Bottom(x) \/ x.at <= vts[j] - NumAt(b, vts[j]),
           x.kind = "table" => LaidOut(b, x) /\ Lead(things, x.fields)
    PROVE  Apart(b, vts, things \cup {x})
<1>1. ASSUME NEW m \in things \cup {x}, NEW n \in things \cup {x}, m # n
      PROVE  m.at <= Bottom(n) \/ n.at <= Bottom(m)
  BY <1>1 DEF Apart
<1>2. ASSUME NEW m \in things \cup {x}, NEW j \in DOMAIN vts
      PROVE  vts[j] <= Bottom(m) \/ m.at <= vts[j] - NumAt(b, vts[j])
  BY DEF Apart
<1>3. ASSUME NEW t \in things \cup {x}, t.kind = "table"
      PROVE  LaidOut(b, t) /\ Lead(things \cup {x}, t.fields)
  <2>1. LaidOut(b, t) /\ Lead(things, t.fields)
    BY <1>3 DEF Apart
  <2> QED BY <2>1 DEF Lead
<1> QED BY <1>1, <1>2, <1>3 DEF Apart

LEMMA ApartGainsOne ==
    ASSUME IInv, Apart(buf, vtables, made), GrownTo(buf, buf'), vtables' = vtables,
           NEW x, made' = made \cup {x}, x.kind # "table",
           NEW k \in Int, Below(k), Bottom(x) \in Int, k <= Bottom(x), open'.kind = "nothing"
    PROVE  ApartInv'
<1>1. Apart(buf', vtables, made)
  BY ApartStays
<1>2. Below(Bottom(x))
  BY BelowMore
<1>3. Apart(buf', vtables, made \cup {x})
  <2>1. (\A m \in made : m.at <= Bottom(x)) /\ \A j \in DOMAIN vtables : vtables[j] <= Bottom(x)
    BY <1>2 DEF Below
  <2> QED BY <1>1, <2>1, ApartWithOneMore
<1>4. OpenApart'
  BY DEF OpenApart
<1> QED BY <1>3, <1>4 DEF ApartInv

LEMMA StartObjectApart ==
    ASSUME IInv, ApartInv, StartObject, ~nested
    PROVE  ApartInv'
<1>1. /\ buf' = buf /\ vtables' = vtables /\ made' = made /\ objectEnd' = Offset(buf)
      /\ open' = [kind |-> "object", fields |-> <<>>]
  BY DEF StartObject
<1>2. open'.kind = "object" /\ open'.fields = <<>> /\ DOMAIN <<>> = {}
  BY <1>1
<1>3. Below(objectEnd)'
  BY <1>1, AllBelow DEF Below
<1>4. AreFields(<<>>)
  BY DEF AreFields
<1>5. Apart(buf, vtables, made)'
  BY <1>1 DEF ApartInv, Apart, Lead
<1>6. OpenFieldsApart'
  BY <1>2, <1>3, <1>4 DEF OpenFieldsApart, Lead
<1> QED BY <1>2, <1>5, <1>6 DEF ApartInv, OpenApart

(* A field that is set is above the others.                                *)
LEMMA SetFieldApart ==
    ASSUME IInv, ApartInv, NEW o \in Fields, NEW f, CanSet(o), GrownTo(buf, buf'),
           Slot(o, buf'), Remember(o, f), f = [value |-> f.value, target |-> f.target],
           Offset(buf') - FieldSize[o + 1] >= Offset(buf),
           f.target # 0 => /\ FieldSize[o + 1] = SizeUOffsetT
                           /\ \E m \in made : m.kind # "buffer" /\ m.at = f.target,
           UNCHANGED <<objectEnd, vtables, made>>
    PROVE  ApartInv'
<1>1. IsBuffer(buf) /\ OpenInv /\ OpenObject /\ objectEnd \in Nat
  BY DEF IInv, OpenInv, CanSet
<1>2. IsBuffer(buf') /\ Offset(buf) \in Nat /\ Offset(buf') \in Nat
  BY <1>1, BufferFacts DEF GrownTo
<1>3. OpenFieldsApart /\ Apart(buf, vtables, made)
  BY DEF ApartInv, OpenApart, CanSet
<1>4. Apart(buf', vtables, made)
  BY <1>3, ApartStays
<1> DEFINE fields == [i \in DOMAIN open.fields \cup {o} |-> IF i = o THEN f ELSE open.fields[i]]
<1>5. open' = [kind |-> "object", fields |-> fields]
  <2>1. open = [kind |-> "object", fields |-> open.fields]
    BY <1>1 DEF OpenObject
  <2>2. open' = [open EXCEPT !.fields = fields]
    BY DEF Remember
  <2> HIDE DEF fields
  <2> QED BY <2>1, <2>2
<1>6. open'.kind = "object" /\ open'.fields = fields
  BY <1>5
<1>7. DOMAIN fields = DOMAIN open.fields \cup {o} /\ o \notin DOMAIN open.fields
  BY DEF CanSet
<1>8. /\ fields[o] = f
      /\ \A p \in DOMAIN open.fields : fields[p] = open.fields[p]
  BY <1>7
<1>9. fields = [i \in DOMAIN fields |-> fields[i]]
  OBVIOUS
<1> HIDE DEF fields
<1>10. AreFields(fields)
  BY <1>3, <1>7, <1>8, <1>9 DEF AreFields, OpenFieldsApart
<1>11. Lead(made, fields)
  BY <1>3, <1>7, <1>8 DEF Lead, OpenFieldsApart
<1>12. vtable \in Seq(Nat) /\ Len(vtable) = Len(FieldSize) /\ DOMAIN open.fields \subseteq Fields
  BY <1>1 DEF OpenObject
<1>13. \A p \in Fields : p \in Int /\ p + 1 \in 1..Len(FieldSize) /\ FieldSize[p + 1] \in Nat \ {0}
  BY SizesAssumption, SizesAreNumbers DEF Fields
<1>14. vtable'[o + 1] = Offset(buf') /\ \A p \in Fields : p # o => vtable'[p + 1] = vtable[p + 1]
  <2>1. vtable' = [vtable EXCEPT ![o + 1] = Offset(buf')]
    BY DEF Slot
  <2>2. \A p \in Fields : p # o => p + 1 # o + 1
    BY <1>13
  <2> QED BY <1>12, <1>13, <2>1, <2>2
<1>15. ASSUME NEW p \in DOMAIN open.fields
       PROVE  /\ vtable'[p + 1] = vtable[p + 1] /\ vtable[p + 1] \in Nat
              /\ vtable[p + 1] <= Offset(buf') - FieldSize[o + 1]
              /\ vtable[p + 1] - FieldSize[p + 1] >= objectEnd
  <2>1. p \in Fields /\ p # o
    BY <1>7, <1>12
  <2>2. vtable[p + 1] \in 1..Offset(buf)
    BY <1>1, <2>1 DEF OpenObject, FieldAt
  <2>3. vtable[p + 1] - FieldSize[p + 1] >= objectEnd
    BY <1>3 DEF OpenFieldsApart
  <2> QED BY <1>2, <1>13, <1>14, <2>1, <2>2, <2>3
<1>16. Offset(buf') - FieldSize[o + 1] >= objectEnd
  <2>1. objectEnd <= Offset(buf)
    BY <1>1 DEF OpenObject
  <2> QED BY <1>1, <1>2, <1>13, <2>1
<1>17. \A p \in DOMAIN fields : vtable'[p + 1] - FieldSize[p + 1] >= objectEnd
  BY <1>7, <1>14, <1>15, <1>16
<1>18. ASSUME NEW p \in DOMAIN fields, NEW q \in DOMAIN fields, p # q
       PROVE  Clear(vtable'[p + 1], p, vtable'[q + 1], q)
  <2>1. CASE p = o
    BY <1>7, <1>14, <1>15, <1>18, <2>1 DEF Clear
  <2>2. CASE q = o
    BY <1>7, <1>14, <1>15, <1>18, <2>2 DEF Clear
  <2>3. CASE p # o /\ q # o
    BY <1>3, <1>7, <1>15, <1>18, <2>3 DEF Clear, OpenFieldsApart
  <2> QED BY <2>1, <2>2, <2>3
<1>19. Below(objectEnd)'
  BY <1>3 DEF OpenFieldsApart, Below
<1>20. OpenFieldsApart'
  BY <1>6, <1>10, <1>11, <1>17, <1>18, <1>19 DEF OpenFieldsApart
<1>21. OpenApart'
  BY <1>6, <1>20 DEF OpenApart
<1> QED BY <1>4, <1>21 DEF ApartInv

LEMMA PrependsInFront ==
    ASSUME NEW b, IsBuffer(b), NEW c, NEW s \in {1, 2, 4, 8}, NEW x, Prepends(b, c, s, x)
    PROVE  Offset(c) - s >= Offset(b)
<1>1. Padding(b, s, 0) \in 0..7 /\ Offset(b) \in Nat
  BY PaddingIsSmall
<1> QED BY <1>1 DEF Prepends

LEMMA PrependSlotApart ==
    ASSUME IInv, ApartInv, NEW o \in Fields, NEW x \in Values, PrependSlot(o, x, 0), GrownTo(buf, buf')
    PROVE  ApartInv'
<1>1. CASE x = 0
  <2>1. UNCHANGED <<buf, vtable, open, objectEnd, vtables, made>>
    BY <1>1 DEF PrependSlot
  <2> QED BY <2>1 DEF ApartInv, Apart, OpenApart, OpenFieldsApart, Below, Lead
<1>2. CASE x # 0
  <2>1. /\ CanSet(o) /\ FieldSize[o + 1] = Alignment(o)
        /\ Slot(o, Prepend(buf, FieldSize[o + 1], x))
        /\ Remember(o, Field(x, 0))
        /\ UNCHANGED <<objectEnd, vtables, made>>
    BY <1>2 DEF PrependSlot
  <2>2. FieldSize[o + 1] \in {1, 2, 4, 8} /\ x \in Int /\ IsBuffer(buf)
    BY <2>1, SizesAreNumbers, ValuesAssumption DEF IInv
  <2>3. buf' = Prepend(buf, FieldSize[o + 1], x) /\ Slot(o, buf')
    BY <2>1 DEF Slot
  <2>4. Offset(buf') - FieldSize[o + 1] >= Offset(buf)
    BY <2>2, <2>3, PrependPrepends, PrependsInFront
  <2>5. Field(x, 0) = [value |-> x, target |-> 0]
    BY DEF Field
  <2> QED BY <2>1, <2>3, <2>4, <2>5, SetFieldApart
<1> QED BY <1>1, <1>2

LEMMA PrependUOffsetTSlotApart ==
    ASSUME IInv, ApartInv, NEW o \in Fields, PrependSomeOffset(o), GrownTo(buf, buf')
    PROVE  ApartInv'
<1>1. PICK off \in Offsets : PrependUOffsetTSlot(o, off)
  BY DEF PrependSomeOffset
<1>2. /\ CanSet(o) /\ FieldSize[o + 1] = SizeUOffsetT
      /\ Slot(o, PrependUOffsetT(buf, off))
      /\ Remember(o, Field(0, off))
      /\ UNCHANGED <<objectEnd, vtables, made>>
  BY <1>1 DEF PrependUOffsetTSlot
<1>3. IsBuffer(buf) /\ off \in 0..Offset(buf)
  <2>1. IsBuffer(buf) /\ off \in 4..Offset(buf) /\ Offset(buf) \in Nat
    BY OffsetsAreInside, BufferFacts DEF IInv
  <2> QED BY <2>1
<1>4. buf' = PrependUOffsetT(buf, off) /\ Slot(o, buf')
  BY <1>2 DEF Slot
<1>5. Offset(buf') - FieldSize[o + 1] >= Offset(buf)
  <2>1. Prepends(buf, buf', 4, Offset(buf') - off)
    BY <1>3, <1>4, PrependUOffsetTPrepends DEF SizeUOffsetT
  <2> QED BY <1>2, <1>3, <2>1, PrependsInFront DEF SizeUOffsetT
<1>6. \E m \in made : m.kind # "buffer" /\ m.at = off
  BY DEF Offsets
<1>7. Field(0, off) = [value |-> 0, target |-> off]
  BY DEF Field
<1> QED BY <1>2, <1>4, <1>5, <1>6, <1>7, SetFieldApart

LEMMA PrependStructSlotApart ==
    ASSUME IInv, ApartInv, NEW o \in Fields, NEW x \in Values, PrependStructSlot(o, x),
           GrownTo(buf, buf')
    PROVE  ApartInv'
<1> DEFINE n == FieldSize[o + 1]
           p == Prep(buf, Alignment(o), n)
<1>1. /\ CanSet(o) /\ Slot(o, Place(p, n, x)) /\ Remember(o, Field(x, 0))
      /\ UNCHANGED <<objectEnd, vtables, made>>
  BY DEF PrependStructSlot
<1>2. IsBuffer(buf) /\ n \in Nat /\ n > 0 /\ Alignment(o) \in {1, 2, 4, 8} /\ x \in Int
  BY SizesAreNumbers, ValuesAssumption DEF IInv
<1> HIDE DEF n
<1>3. Preps(buf, p, Alignment(o), n)
  BY <1>2, PrepPreps
<1> HIDE DEF p
<1>4. IsBuffer(p) /\ n <= p.head /\ Offset(buf) <= Offset(p) /\ Offset(p) \in Nat /\ Offset(buf) \in Nat
  BY <1>2, <1>3, BufferFacts DEF Preps, Keeps
<1>5. buf' = Place(p, n, x) /\ Slot(o, buf')
  BY <1>1 DEF Slot
<1>6. Offset(buf') = Offset(p) + n
  BY <1>2, <1>4, <1>5, PlacePlaces DEF Places
<1>7. Offset(buf') - n >= Offset(buf)
  BY <1>2, <1>4, <1>6
<1>8. Field(x, 0) = [value |-> x, target |-> 0]
  BY DEF Field
<1> QED BY <1>1, <1>5, <1>7, <1>8, SetFieldApart DEF n

LEMMA StartVectorApart ==
    ASSUME IInv, ApartInv, NEW v \in Vectors, StartVector(v), ~nested, GrownTo(buf, buf')
    PROVE  ApartInv'
<1>1. /\ open' = [kind |-> "vector", vector |-> v, elems |-> <<>>]
      /\ vtables' = vtables /\ made' = made
  BY DEF StartVector
<1>2. open'.kind = "vector" /\ open'.vector = v /\ open'.elems = <<>> /\ Len(<<>>) = 0
  BY <1>1
<1>3. v.size \in {1, 2, 4, 8}
  BY SizesAssumption
<1>4. Offset(buf) \in Nat /\ Offset(buf') \in Nat /\ Offset(buf) <= Offset(buf')
  BY ContentsParts, BufferFacts DEF GrownTo, Keeps
<1>5. Below(Offset(buf') - 0 * v.size)
  <2>1. Offset(buf') - 0 * v.size = Offset(buf')
    BY <1>3, <1>4
  <2> QED BY <1>4, <2>1, AllBelow, BelowMore
<1>6. Apart(buf, vtables, made)'
  BY <1>1, ApartStays DEF ApartInv
<1>7. OpenApart'
  BY <1>1, <1>2, <1>5 DEF OpenApart, Below
<1> QED BY <1>6, <1>7 DEF ApartInv

LEMMA PrependElementApart ==
    ASSUME IInv, ApartInv, NEW x \in Values, PrependElement(x), GrownTo(buf, buf')
    PROVE  ApartInv'
<1> DEFINE s == open.vector.size
           elems == open.elems
<1>1. /\ open.kind = "vector"
      /\ buf' = Prepend(buf, s, x)
      /\ open' = [open EXCEPT !.elems = <<x>> \o elems]
      /\ vtables' = vtables /\ made' = made
  BY DEF PrependElement
<1>2. IsBuffer(buf) /\ OpenVector
  BY <1>1 DEF IInv, OpenInv
<1>3. s \in {1, 2, 4, 8} /\ elems \in Seq(Values) /\ x \in Int
  BY <1>2, SizesAssumption, ValuesAssumption DEF OpenVector
<1>4. PICK l \in Nat, n \in Nat : l = Len(elems) /\ n = Offset(buf)
  BY <1>2, <1>3, BufferFacts
<1>5. open'.kind = "vector" /\ open'.vector.size = s /\ Len(open'.elems) = l + 1
  <2>1. open = [kind |-> "vector", vector |-> open.vector, elems |-> open.elems]
    BY <1>2 DEF OpenVector
  <2>2. open' = [kind |-> "vector", vector |-> open.vector, elems |-> <<x>> \o elems]
    BY <1>1, <2>1
  <2>3. Len(<<x>> \o elems) = l + 1
    BY <1>3, <1>4
  <2> QED BY <2>2, <2>3
<1>6. Below(n - l * s)
  BY <1>1, <1>4 DEF ApartInv, OpenApart
<1> HIDE DEF s, elems
<1>7. PICK m \in Nat : m = Offset(buf') /\ m - s >= n
  <2>1. Prepends(buf, buf', s, x)
    BY <1>1, <1>2, <1>3, PrependPrepends
  <2>2. Offset(buf') - s >= Offset(buf)
    BY <1>2, <1>3, <2>1, PrependsInFront
  <2> QED BY <1>4, <2>1, <2>2, BufferFacts DEF Prepends
<1>8. Below(m - (l + 1) * s)
  <2>1. n - l * s \in Int /\ m - (l + 1) * s \in Int /\ n - l * s <= m - (l + 1) * s
    <3>1. CASE s = 1
      BY <1>7, <3>1
    <3>2. CASE s = 2
      BY <1>7, <3>2
    <3>3. CASE s = 4
      BY <1>7, <3>3
    <3>4. CASE s = 8
      BY <1>7, <3>4
    <3> QED BY <1>3, <3>1, <3>2, <3>3, <3>4
  <2> QED BY <1>6, <2>1, BelowMore
<1>9. Apart(buf, vtables, made)'
  BY <1>1, ApartStays DEF ApartInv
<1>10. OpenApart'
  BY <1>1, <1>5, <1>7, <1>8 DEF OpenApart, Below
<1> QED BY <1>9, <1>10 DEF ApartInv

LEMMA EndVectorApart ==
    ASSUME IInv, ApartInv, EndVector, nested, GrownTo(buf, buf')
    PROVE  ApartInv'
<1> DEFINE v == open.vector
           x == [kind |-> "vector", at |-> Offset(buf'), size |-> v.size,
                 alignment |-> v.alignment, elems |-> open.elems]
<1>1. /\ open.kind = "vector"
      /\ buf' = Place(buf, 4, v.num)
      /\ made' = made \cup {x}
      /\ open' = NothingOpen /\ vtables' = vtables
  BY DEF EndVector, SizeUOffsetT
<1>2. x.kind = "vector" /\ x.at = Offset(buf') /\ x.size = v.size /\ x.elems = open.elems
  OBVIOUS
<1> HIDE DEF x
<1>3. IsBuffer(buf) /\ OpenVector
  BY <1>1 DEF IInv, OpenInv
<1>4. v.size \in {1, 2, 4, 8} /\ v.num \in Nat /\ open.elems \in Seq(Values)
  BY <1>3, SizesAssumption DEF OpenVector
<1>5. PICK l \in Nat, n \in Nat : l = Len(open.elems) /\ n = Offset(buf)
  BY <1>3, <1>4, BufferFacts
<1>6. Offset(buf') = n + 4
  <2>1. 4 <= buf.head
    <3>1. Remaining \in Nat
      <4>1. PICK r \in Nat : r = v.num - l
        BY <1>3, <1>4, <1>5 DEF OpenVector
      <4>2. Remaining = r * v.size
        BY <1>5, <4>1 DEF Remaining
      <4> QED BY <1>4, <4>1, <4>2, SMTT(30)
    <3>2. buf.head \in Nat /\ buf.head >= Remaining + 4
      BY <1>3, BufferFacts DEF OpenVector, SizeUOffsetT
    <3> QED BY <3>1, <3>2
  <2> QED BY <1>1, <1>3, <1>4, <1>5, <2>1, PlacePlaces DEF Places
<1>7. PICK w \in Nat : w = l * v.size
  BY <1>4
<1>8. Bottom(x) = n - w
  <2>1. Bottom(x) = x.at - SizeUOffsetT - Len(x.elems) * x.size
    BY <1>2 DEF Bottom
  <2>2. Bottom(x) = (n + 4) - 4 - w
    BY <1>2, <1>5, <1>6, <1>7, <2>1 DEF SizeUOffsetT
  <2> QED BY <2>2
<1>9. Below(n - w)
  BY <1>1, <1>5, <1>7 DEF ApartInv, OpenApart
<1>10. open'.kind = "nothing" /\ x.kind # "table"
  BY <1>1, <1>2 DEF NothingOpen
<1>11. n - w \in Int /\ n - w <= n - w /\ Bottom(x) \in Int /\ n - w <= Bottom(x)
  BY <1>8
<1> QED BY <1>1, <1>9, <1>10, <1>11, ApartGainsOne DEF ApartInv

LEMMA AddTextApart ==
    ASSUME IInv, ApartInv, ~nested, GrownTo(buf, buf'), NEW s \in Texts,
           NEW kind \in {"string", "bytes"},
           Offset(buf') - 4 - TextLen[s] - (IF kind = "string" THEN 1 ELSE 0) >= Offset(buf),
           made' = made \cup {[kind |-> kind, at |-> Offset(buf'), text |-> s]},
           UNCHANGED <<vtables, open>>
    PROVE  ApartInv'
<1> DEFINE x == [kind |-> kind, at |-> Offset(buf'), text |-> s]
<1>1. x.kind = kind /\ x.at = Offset(buf') /\ x.text = s /\ made' = made \cup {x}
  OBVIOUS
<1> HIDE DEF x
<1>2. Offset(buf) \in Nat /\ Offset(buf') \in Nat /\ TextLen[s] \in Nat
  BY ContentsParts, BufferFacts, SizesAssumption DEF GrownTo
<1>3. Bottom(x) \in Int /\ Offset(buf) <= Bottom(x)
  <2>1. Bottom(x) = Offset(buf') - 4 - TextLen[s] - (IF kind = "string" THEN 1 ELSE 0)
    BY <1>1 DEF Bottom, SizeUOffsetT, SizeByte
  <2> QED BY <1>2, <2>1
<1>4. open'.kind = "nothing" /\ x.kind # "table"
  BY <1>1 DEF IInv, OpenInv
<1> QED BY <1>1, <1>2, <1>3, <1>4, AllBelow, ApartGainsOne DEF ApartInv

LEMMA AddStringApart ==
    ASSUME IInv, ApartInv, ~nested, NEW s \in Texts, AddString(s)
    PROVE  ApartInv'
<1>1. GrownTo(buf, buf') /\ Offset(buf') - 4 - TextLen[s] - 1 >= Offset(buf)
  BY AddStringPreserves
<1>2. /\ made' = made \cup {[kind |-> "string", at |-> Offset(buf'), text |-> s]}
      /\ UNCHANGED <<vtables, open>>
  BY DEF AddString
<1> QED BY <1>1, <1>2, AddTextApart

LEMMA CreateByteVectorApart ==
    ASSUME IInv, ApartInv, ~nested, NEW s \in Texts, CreateByteVector(s)
    PROVE  ApartInv'
<1>1. GrownTo(buf, buf') /\ Offset(buf') - 4 - TextLen[s] >= Offset(buf)
  BY CreateByteVectorPreserves
<1>2. Offset(buf') - 4 - TextLen[s] - 0 >= Offset(buf)
  BY <1>1, ContentsParts, BufferFacts, SizesAssumption DEF GrownTo
<1>3. /\ made' = made \cup {[kind |-> "bytes", at |-> Offset(buf'), text |-> s]}
      /\ UNCHANGED <<vtables, open>>
  BY DEF CreateByteVector
<1> QED BY <1>1, <1>2, <1>3, AddTextApart

LEMMA FinishApart ==
    ASSUME IInv, ApartInv, NEW sizePrefix \in BOOLEAN, NEW fid \in Identifiers \cup {0},
           FinishSomeTable(sizePrefix, fid), GrownTo(buf, buf')
    PROVE  ApartInv'
<1>1. PICK t \in Tables : Finish(t.at, sizePrefix, fid)
  BY DEF FinishSomeTable
<1> DEFINE c == WithIdentifier(fid, sizePrefix)
           rest == PrefixOf(sizePrefix)
<1>2. IsBuffer(buf) /\ OpenInv /\ fid \in Nat
  BY ValuesAssumption DEF IInv
<1>3. Identified(c, rest, fid)
  BY <1>2, IdentifierIsPlaced
<1> HIDE DEF c
<1>4. CASE nested
  <2>1. /\ buf' = c
        /\ open' = IF fid # 0 /\ open.kind = "vector" THEN Spoiled ELSE open
        /\ UNCHANGED <<vtable, objectEnd, vtables, made>>
    BY <1>1, <1>4 DEF Finish, c
  <2>2. Apart(buf, vtables, made)'
    BY <2>1, ApartStays DEF ApartInv
  <2>3. OpenApart'
    <3>1. CASE fid # 0 /\ open.kind = "vector"
      <4>1. open'.kind = "spoiled"
        BY <2>1, <3>1 DEF Spoiled
      <4> QED BY <4>1 DEF OpenApart
    <3>2. CASE ~(fid # 0 /\ open.kind = "vector")
      <4>1. open' = open /\ (open.kind = "vector" => buf' = buf)
        BY <1>3, <2>1, <3>2 DEF Identified
      <4>2. ASSUME open.kind = "object" PROVE OpenFieldsApart'
        <5>1. OpenFieldsApart
          BY <4>2 DEF ApartInv, OpenApart
        <5> QED BY <2>1, <4>1, <5>1 DEF OpenFieldsApart, Below, Lead
      <4>3. ASSUME open.kind = "vector"
            PROVE  Below(Offset(buf) - Len(open.elems) * open.vector.size)'
        BY <2>1, <4>1, <4>3 DEF ApartInv, OpenApart, Below
      <4> QED BY <4>1, <4>2, <4>3 DEF OpenApart
    <3> QED BY <3>1, <3>2
  <2> QED BY <2>2, <2>3 DEF ApartInv
<1>5. CASE ~nested
  <2> DEFINE x == [kind |-> "buffer", at |-> Offset(buf'), root |-> t.at,
                   prefixed |-> sizePrefix, identifier |-> fid]
  <2>1. /\ buf' = FinishedBuffer(c, t.at, sizePrefix)
        /\ made' = made \cup {x}
        /\ UNCHANGED <<vtables, open>>
    BY <1>1, <1>5 DEF Finish, c
  <2>2. x.kind = "buffer" /\ x.at = Offset(buf') /\ x.prefixed = sizePrefix /\ x.identifier = fid
    OBVIOUS
  <2> HIDE DEF x
  <2>3. t.at \in 4..Offset(buf) /\ buf.minalign >= 4
    BY <1>1 DEF Tables, IInv, Contents, AllMade, MadeAt, Tracked, SizeUOffsetT
  <2>4. PICK o \in Nat, n \in Nat, p \in Nat :
           o = Offset(buf) /\ n = Offset(c) /\ p = Offset(buf') /\ o <= n
    BY <1>2, <1>3, BufferFacts DEF Identified, GrownTo, Keeps
  <2>5. IsFinished(c, buf', t.at, sizePrefix)
    <3>1. IsBuffer(c) /\ t.at \in 0..Offset(c) /\ c.minalign >= 4
      BY <1>3, <2>3, <2>4 DEF Identified, GrownTo
    <3> QED BY <2>1, <3>1, FinishFinishes
  <2> DEFINE at == p - rest
  <2>6. at \in Int /\ at - 4 >= n /\ ((n + (4 + rest)) % c.minalign = 0 => at - 4 = n)
    <3>1. rest \in {0, 4}
      BY DEF PrefixOf, sizePrefixLength
    <3> HIDE DEF rest
    <3>2. at \in Int
      BY <3>1
    <3> QED BY <2>4, <2>5, <3>2 DEF IsFinished, SizeUOffsetT, rest
  <2>7. RootAt(x) = at
    BY <2>2, <2>4 DEF RootAt, PrefixOf
  <2> HIDE DEF at
  <2>8. Bottom(x) = at - 4 - (IF fid = 0 THEN 0 ELSE 4)
    BY <2>2, <2>7 DEF Bottom, SizeUOffsetT, fileIdentifierLength
  <2>9. fid # 0 => n - 4 >= o /\ at - 4 = n
    <3>1. fid # 0 => n - 4 >= o /\ (n + (4 + rest)) % c.minalign = 0
      BY <1>3, <2>4 DEF Identified, SizeUOffsetT, fileIdentifierLength
    <3> QED BY <2>6, <3>1
  <2>10. Bottom(x) \in Int /\ o <= Bottom(x)
    BY <2>4, <2>6, <2>8, <2>9
  <2>11. open'.kind = "nothing" /\ x.kind # "table"
    BY <1>2, <1>5, <2>1, <2>2 DEF OpenInv
  <2>12. Below(o)
    BY <2>4, AllBelow
  <2> QED BY <2>1, <2>4, <2>10, <2>11, <2>12, ApartGainsOne DEF ApartInv
<1> QED BY <1>2, <1>4, <1>5 DEF OpenInv

(* The fields of an object that was ended are where they were set.         *)
LEMMA EndedFieldIsAt ==
    ASSUME IsBuffer(buf), NEW c, NEW vts, NEW oo, NEW v, Ended(c, vts, oo, v),
           NEW fields, Ends(v, fields),
           NEW t, t.at = oo, t.fields = fields, NEW o \in DOMAIN fields
    PROVE  /\ o \in Fields /\ o + 1 \in 1..Len(v) /\ v[o + 1] \in 1..Offset(buf)
           /\ At(c, t, o) = v[o + 1]
<1>1. o \in Fields /\ o + 1 \in 1..Len(v) /\ v[o + 1] \in 1..Offset(buf) /\ v[o + 1] # 0
  BY DEF Ends
<1>2. IsBuffer(c) /\ oo \in Nat /\ Len(v) \in Nat
  BY DEF Ended, GrownTo, Ends
<1>3. PICK j \in DOMAIN vts :
         /\ HasAt(c, oo, SizeSOffsetT, vts[j] - oo)
         /\ NumAt(c, vts[j]) = (Len(v) + 2) * 2
         /\ \A i \in 1..Len(v) : NumAt(c, vts[j] - (i + 1) * 2) = IF v[i] = 0 THEN 0 ELSE oo - v[i]
  BY DEF Ended
<1>4. PICK vt \in Nat : vt = vts[j]
  BY DEF Ended, VtablesAt
<1>5. SlotOf(o) = (o + 2) * 2 /\ o \in Nat
  BY <1>1, SizesAssumption DEF SlotOf, VtableMetadataFields, SizeVOffsetT, Fields
<1>6. TableOffset(c, BufLen(c) - oo, SlotOf(o))
         = IF SlotOf(o) < NumAt(c, vt) THEN NumAt(c, vt - SlotOf(o)) ELSE 0
  <2>1. SlotOf(o) \in Int /\ oo \in Int
    BY <1>2, <1>5
  <2> QED BY <1>2, <1>3, <1>4, <2>1, TableOffsetIs
<1>7. SlotOf(o) < NumAt(c, vt)
  BY <1>1, <1>2, <1>3, <1>4, <1>5
<1>8. NumAt(c, vt - SlotOf(o)) = oo - v[o + 1]
  <2>1. vt - SlotOf(o) = vt - ((o + 1) + 1) * 2
    BY <1>5
  <2> QED BY <1>1, <1>3, <1>4, <2>1
<1>9. At(c, t, o) = oo - (oo - v[o + 1])
  BY <1>6, <1>7, <1>8 DEF At
<1>10. oo - (oo - v[o + 1]) = v[o + 1]
  <2>1. PICK x \in Nat : x = v[o + 1]
    BY <1>1
  <2> QED BY <1>2, <2>1
<1> QED BY <1>1, <1>9, <1>10

(* The object that is ended is in front of all there was, and so is its    *)
(* vtable, if it is a new one, in front of the object.                     *)
LEMMA EndObjectApart ==
    ASSUME IInv, ApartInv, EndObject, nested, GrownTo(buf, buf')
    PROVE  ApartInv'
<1> DEFINE oo == WriteVtable.at
           v == Trimmed(vtable)
           x == [kind |-> "table", at |-> oo, fields |-> FieldsOfOpen, size |-> oo - objectEnd]
<1>1. /\ open.kind \in {"object", "vector"} /\ ObjectIsShort
      /\ buf' = WriteVtable.buf /\ vtables' = WriteVtable.vtables
      /\ made' = made \cup {x} /\ open' = NothingOpen
  BY DEF EndObject, FieldsOfOpen
<1>2. Ended(buf', vtables', oo, v)
  BY <1>1, WriteVtableEnds
<1>3. Ends(vtable, FieldsOfOpen) /\ Ends(v, FieldsOfOpen)
  BY <1>1, OpenEnds, TrimmedEnds
<1>4. \A i \in 1..Len(v) : v[i] = vtable[i]
  BY <1>3, TrimmedParts DEF Ends
<1>5. /\ x = [kind |-> "table", at |-> x.at, fields |-> x.fields, size |-> x.size]
      /\ x.kind = "table" /\ x.at = oo /\ x.fields = FieldsOfOpen /\ x.size = oo - objectEnd
  OBVIOUS
<1> HIDE DEF x, v, oo
<1>6. PICK o \in Nat, n \in Nat, e \in Nat :
         o = oo /\ n = Offset(buf) /\ e = objectEnd /\ o - 4 >= n
  BY <1>2, ContentsParts DEF Ended, IInv
<1>7. IsBuffer(buf) /\ Below(n)
  BY <1>6, ContentsParts, AllBelow
<1>8. ASSUME NEW j \in DOMAIN vtables'
      PROVE  \/ j \in DOMAIN vtables /\ vtables'[j] = vtables[j] /\ vtables[j] <= n
             \/ vtables'[j] - NumAt(buf', vtables'[j]) >= o
  BY <1>2, <1>6, <1>7 DEF Ended, Below
<1>9. Apart(buf', vtables', made)
  <2>1. Apart(buf', vtables, made)
    BY ApartStays DEF ApartInv
  <2>2. ASSUME NEW m \in made, NEW j \in DOMAIN vtables'
        PROVE  vtables'[j] <= Bottom(m) \/ m.at <= vtables'[j] - NumAt(buf', vtables'[j])
    <3>1. CASE j \in DOMAIN vtables /\ vtables'[j] = vtables[j]
      BY <2>1, <3>1 DEF Apart
    <3>2. CASE vtables'[j] - NumAt(buf', vtables'[j]) >= o
      <4>1. m.at \in Nat /\ m.at <= n
        BY <1>7, ContentsParts DEF Below
      <4>2. PICK k \in Int : k = vtables'[j] - NumAt(buf', vtables'[j])
        <5>1. IsBuffer(buf') /\ IsVtable(buf', vtables'[j])
          BY <1>2 DEF Ended, VtablesAt, GrownTo
        <5> QED BY <5>1, VtableParts
      <4>3. m.at <= k
        BY <1>6, <3>2, <4>1, <4>2
      <4> QED BY <4>2, <4>3
    <3> QED BY <1>8, <3>1, <3>2
  <2> QED BY <2>1, <2>2 DEF Apart
<1>10. ASSUME open.kind = "object"
       PROVE  /\ OpenFieldsApart /\ FieldsOfOpen = open.fields /\ DOMAIN open.fields \subseteq Fields
              /\ e <= n
  <2>1. OpenFieldsApart /\ OpenObject
    BY <1>10 DEF ApartInv, OpenApart, IInv, OpenInv
  <2> QED BY <1>6, <1>10, <2>1 DEF FieldsOfOpen, OpenObject
<1>11. open.kind # "object" => FieldsOfOpen = <<>> /\ DOMAIN <<>> = {}
  BY DEF FieldsOfOpen
<1>12. Bottom(x) \in Int /\ Below(Bottom(x))
  <2>1. CASE DOMAIN FieldsOfOpen = {}
    <3>1. Bottom(x) = o - 4
      BY <1>5, <1>6, <2>1 DEF Bottom, SizeSOffsetT
    <3> QED BY <1>6, <1>7, <3>1, BelowMore
  <2>2. CASE DOMAIN FieldsOfOpen # {}
    <3>1. Below(e)
      BY <1>6, <1>10, <1>11, <2>2 DEF OpenFieldsApart
    <3>2. Bottom(x) = o - (o - e)
      BY <1>5, <1>6, <2>2 DEF Bottom
    <3>3. o - (o - e) = e
      OBVIOUS
    <3> QED BY <3>1, <3>2, <3>3
  <2> QED BY <2>1, <2>2
<1>13. LaidOut(buf', x) /\ Lead(made, x.fields)
  <2>1. CASE open.kind # "object"
    <3>1. AreFields(<<>>)
      BY DEF AreFields
    <3> QED BY <1>5, <1>6, <1>11, <2>1, <3>1 DEF LaidOut, Lead
  <2>2. CASE open.kind = "object"
    <3>1. ASSUME NEW p \in DOMAIN x.fields
          PROVE  /\ p \in Fields /\ At(buf', x, p) = vtable[p + 1]
                 /\ vtable[p + 1] \in 1..n
      <4>1. /\ p \in Fields /\ p + 1 \in 1..Len(v) /\ v[p + 1] \in 1..n /\ At(buf', x, p) = v[p + 1]
        BY <1>2, <1>3, <1>5, <1>6, <1>7, <3>1, EndedFieldIsAt
      <4> QED BY <1>4, <4>1
    <3>2. ASSUME NEW p \in DOMAIN x.fields
          PROVE  /\ At(buf', x, p) - FieldSize[p + 1] >= x.at - x.size
                 /\ At(buf', x, p) <= x.at - SizeSOffsetT
      <4>1. vtable[p + 1] - FieldSize[p + 1] >= e
        BY <1>5, <1>6, <1>10, <2>2 DEF OpenFieldsApart
      <4>2. x.at - x.size = e /\ x.at - SizeSOffsetT = o - 4
        BY <1>5, <1>6 DEF SizeSOffsetT
      <4> QED BY <1>6, <3>1, <4>1, <4>2
    <3>3. ASSUME NEW p \in DOMAIN x.fields, NEW q \in DOMAIN x.fields, p # q
          PROVE  Clear(At(buf', x, p), p, At(buf', x, q), q)
      BY <1>5, <1>10, <2>2, <3>1, <3>3 DEF OpenFieldsApart
    <3>4. AreFields(x.fields) /\ Lead(made, x.fields)
      BY <1>5, <1>10, <2>2 DEF OpenFieldsApart
    <3>5. x.size \in Int
      BY <1>5, <1>6
    <3> QED BY <1>5, <3>2, <3>3, <3>4, <3>5 DEF LaidOut
  <2> QED BY <2>1, <2>2
<1>14. \A m \in made : m.at <= Bottom(x)
  BY <1>12 DEF Below
<1>15. ASSUME NEW j \in DOMAIN vtables'
       PROVE  vtables'[j] <= Bottom(x) \/ x.at <= vtables'[j] - NumAt(buf', vtables'[j])
  <2>1. CASE j \in DOMAIN vtables /\ vtables'[j] = vtables[j]
    BY <1>12, <2>1 DEF Below
  <2>2. CASE vtables'[j] - NumAt(buf', vtables'[j]) >= o
    <3>1. PICK k \in Int : k = vtables'[j] - NumAt(buf', vtables'[j])
      <4>1. IsBuffer(buf') /\ IsVtable(buf', vtables'[j])
        BY <1>2 DEF Ended, VtablesAt, GrownTo
      <4> QED BY <4>1, VtableParts
    <3>2. o <= k
      BY <2>2, <3>1
    <3> QED BY <1>5, <1>6, <3>1, <3>2
  <2> QED BY <1>8, <2>1, <2>2
<1>16. Apart(buf', vtables', made \cup {x})
  BY <1>9, <1>13, <1>14, <1>15, ApartWithOneMore
<1>17. OpenApart'
  BY <1>1 DEF OpenApart, NothingOpen
<1> QED BY <1>1, <1>16, <1>17 DEF ApartInv

-----------------------------------------------------------------------------
LEMMA UnchangedApart == ASSUME ApartInv, UNCHANGED state PROVE ApartInv'
<1>1. UNCHANGED <<buf, vtable, objectEnd, vtables, open, made>>
  BY DEF state
<1>2. Apart(buf, vtables, made)'
  BY <1>1 DEF ApartInv
<1>3. OpenApart'
  BY <1>1 DEF ApartInv, OpenApart, OpenFieldsApart, Below
<1> QED BY <1>2, <1>3 DEF ApartInv

LEMMA InitApart == Init => ApartInv
<1> SUFFICES ASSUME Init PROVE ApartInv
  OBVIOUS
<1>1. made = {} /\ vtables = <<>> /\ open = NothingOpen
  BY DEF Init
<1> QED BY <1>1 DEF ApartInv, Apart, OpenApart, NothingOpen

LEMMA ResetApart == ASSUME Reset PROVE ApartInv'
<1>1. made' = {} /\ vtables' = <<>> /\ open' = NothingOpen
  BY DEF Reset
<1> QED BY <1>1 DEF ApartInv, Apart, OpenApart, NothingOpen

LEMMA NextApart == IInv /\ ApartInv /\ [Next]_vars => ApartInv'
<1> SUFFICES ASSUME IInv, ApartInv, [Next]_vars PROVE ApartInv'
  OBVIOUS
<1>1. nested \in BOOLEAN
  BY DEF IInv, OpenInv
<1>2. CASE StartObject
  <2>1. CASE nested
    BY <1>2, <2>1, UnchangedApart DEF StartObject, Panic
  <2>2. CASE ~nested
    BY <1>2, <2>2, StartObjectApart
  <2> QED BY <2>1, <2>2
<1>3. ASSUME NEW o \in Fields, NEW x \in Values, PrependSlot(o, x, 0) PROVE ApartInv'
  BY <1>3, PrependSlotPreserves, PrependSlotApart
<1>4. ASSUME NEW o \in Fields, PrependSomeOffset(o) PROVE ApartInv'
  BY <1>4, PrependUOffsetTSlotPreserves, PrependUOffsetTSlotApart
<1>5. ASSUME NEW o \in Fields, NEW x \in Values, PrependStructSlot(o, x) PROVE ApartInv'
  BY <1>5, PrependStructSlotPreserves, PrependStructSlotApart
<1>6. CASE EndObject
  <2>1. CASE nested
    BY <1>6, <2>1, EndObjectPreserves, EndObjectApart
  <2>2. CASE ~nested
    BY <1>6, <2>2, UnchangedApart DEF EndObject, Panic
  <2> QED BY <2>1, <2>2
<1>7. ASSUME NEW v \in Vectors, StartVector(v) PROVE ApartInv'
  <2>1. CASE nested
    BY <1>7, <2>1, UnchangedApart DEF StartVector, Panic
  <2>2. CASE ~nested
    BY <1>7, <2>2, StartVectorPreserves, StartVectorApart
  <2> QED BY <2>1, <2>2
<1>8. ASSUME NEW x \in Values, PrependElement(x) PROVE ApartInv'
  BY <1>8, PrependElementPreserves, PrependElementApart
<1>9. CASE EndVector
  <2>1. CASE nested
    BY <1>9, <2>1, EndVectorPreserves, EndVectorApart
  <2>2. CASE ~nested
    BY <1>9, <2>2, UnchangedApart DEF EndVector, Panic
  <2> QED BY <2>1, <2>2
<1>10. ASSUME NEW s \in Texts, CreateString(s) PROVE ApartInv'
  <2>1. CASE nested
    BY <1>10, <2>1, UnchangedApart DEF CreateString, Panic
  <2>2. CASE ~nested
    BY <1>10, <2>2, AddStringApart DEF CreateString
  <2> QED BY <2>1, <2>2
<1>11. ASSUME NEW s \in Texts, CreateSharedString(s) PROVE ApartInv'
  <2>1. CASE s \in DOMAIN sharedStrings
    BY <1>11, <2>1, UnchangedApart DEF CreateSharedString
  <2>2. CASE s \notin DOMAIN sharedStrings /\ nested
    BY <1>11, <2>2, UnchangedApart DEF CreateSharedString, Panic
  <2>3. CASE s \notin DOMAIN sharedStrings /\ ~nested
    BY <1>11, <2>3, AddStringApart DEF CreateSharedString
  <2> QED BY <2>1, <2>2, <2>3
<1>12. ASSUME NEW s \in Texts, CreateByteVector(s) PROVE ApartInv'
  <2>1. CASE nested
    BY <1>12, <2>1, UnchangedApart DEF CreateByteVector, Panic
  <2>2. CASE ~nested
    BY <1>12, <2>2, CreateByteVectorApart
  <2> QED BY <2>1, <2>2
<1>13. ASSUME NEW sizePrefix \in BOOLEAN, NEW fid \in Identifiers \cup {0},
              FinishSomeTable(sizePrefix, fid)
       PROVE  ApartInv'
  BY <1>13, FinishPreserves, FinishApart
<1>14. CASE Reset
  BY <1>14, ResetApart
<1>15. CASE UNCHANGED vars
  BY <1>15, UnchangedApart DEF vars, state
<1> QED
  BY <1>2, <1>3, <1>4, <1>5, <1>6, <1>7, <1>8, <1>9, <1>10, <1>11, <1>12, <1>13, <1>14, <1>15
  DEF Next

-----------------------------------------------------------------------------
(* What a sender sends is a message.                                       *)

LEMMA ViewOfWritten ==
    ASSUME NEW b, IsBuffer(b), NEW m, m.bytes = Written(b)
    PROVE  /\ IsBuffer(View(m)) /\ Keeps(b, View(m))
           /\ Len(m.bytes) = Offset(b) /\ Offset(View(m)) = Offset(b)
<1>1. m.bytes \in Seq(Bytes) /\ Len(m.bytes) = Offset(b) /\ Offset(b) \in Nat
  BY WrittenBytes, BufferFacts
<1>2. IsBuffer(View(m))
  BY <1>1 DEF View, IsBuffer, BufLen
<1>3. Written(View(m)) = SubSeq(m.bytes, 0 + 1, Len(m.bytes))
  BY DEF Written, View, BufLen
<1>4. SubSeq(m.bytes, 0 + 1, Len(m.bytes)) = m.bytes
  BY <1>1
<1>5. Offset(View(m)) = Offset(b) /\ Keeps(b, View(m))
  BY <1>2, <1>3, <1>4, SameKeeps
<1> QED BY <1>1, <1>2, <1>5

LEMMA NoMessageIsMessage == IsMessage(NoMessage)
<1>1. <<>> \in Seq(Nat) /\ <<>> \in Seq(Bytes) /\ Len(<<>>) = 0
  OBVIOUS
<1>2. IsBuffer(View(NoMessage))
  BY <1>1 DEF View, NoMessage, IsBuffer, BufLen
<1>3. Carries(View(NoMessage), <<>>, NoMessage.made)
  BY DEF Carries, NoMessage, Apart
<1> QED BY <1>1, <1>2, <1>3 DEF IsMessage, NoMessage

LEMMA SentIsMessage ==
    ASSUME IInv, ApartInv, Send, finished
    PROVE  IsMessage(message')
<1> DEFINE finish == CASE Finished(FALSE) -> "plain" [] Finished(TRUE) -> "prefixed" [] OTHER -> "stale"
<1>1. message' = [bytes |-> Written(buf), made |-> made, finish |-> finish]
  BY DEF Send, FinishedBytes
<1>2. (finish = "plain" => Finished(FALSE)) /\ (finish = "prefixed" => Finished(TRUE))
  OBVIOUS
<1> HIDE DEF finish
<1>3. message'.bytes = Written(buf) /\ message'.made = made /\ message'.finish = finish
  BY <1>1
<1>4. /\ IsBuffer(View(message')) /\ Keeps(buf, View(message')) /\ IsBuffer(buf)
      /\ Len(message'.bytes) = Offset(buf)
  BY <1>3, ViewOfWritten, ContentsParts
<1>5. VtablesAt(buf, vtables)
  BY DEF IInv, Contents
<1>6. Carries(View(message'), vtables, message'.made)
  <2>1. \A j \in DOMAIN vtables : IsVtable(View(message'), vtables[j])
    BY <1>4, <1>5, VtableStill DEF VtablesAt
  <2>2. \A m \in made : MadeAt(View(message'), vtables, m)
    BY <1>4, <1>5, ContentsParts, MadeStill
  <2>3. Apart(View(message'), vtables, made)
    BY <1>4, ContentsParts, ApartStill DEF ApartInv
  <2> QED BY <1>3, <2>1, <2>2, <2>3 DEF Carries
<1>7. \A prefixed \in BOOLEAN : Finished(prefixed) => EndsWithRoot(message', prefixed)
  BY <1>3, <1>4 DEF Finished, EndsWithRoot
<1>8. message' = [bytes |-> message'.bytes, made |-> message'.made, finish |-> message'.finish]
  BY <1>1
<1> QED BY <1>2, <1>3, <1>4, <1>6, <1>7, <1>8, ContentsParts DEF IsMessage

-----------------------------------------------------------------------------
(* A change stays in its field.                                            *)

LEMMA SameWithin ==
    ASSUME NEW b, NEW c, NEW lo \in Int, NEW hi \in Int, SameIn(b, c, lo, hi),
           NEW l \in Int, NEW h \in Int, lo <= l, h <= hi
    PROVE  SameIn(b, c, l, h)
  BY DEF SameIn

LEMMA SameOutside ==
    ASSUME NEW b, NEW c, IsBuffer(b), NEW n \in Nat, NEW k \in n..Offset(b), NEW x,
           Overwrites(b, c, k, n, x), NEW lo \in Int, NEW hi \in Int, k <= lo \/ hi <= k - n
    PROVE  SameIn(b, c, lo, hi)
<1>1. Offset(b) \in Nat
  BY BufferFacts
<1> SUFFICES ASSUME NEW j \in 1..Offset(b), lo < j, j <= hi PROVE ByteAt(c, j) = ByteAt(b, j)
  BY DEF SameIn
<1>2. j \notin (k - n + 1)..k
  BY <1>1
<1> QED BY <1>2 DEF Overwrites

LEMMA FieldSame ==
    ASSUME NEW b, NEW c, IsBuffer(b), IsBuffer(c), Offset(b) <= Offset(c),
           NEW o \in Fields, NEW k, NEW f, FieldAt(b, k, o, f),
           f.target # 0 => FieldSize[o + 1] = SizeUOffsetT,
           NEW lo \in Int, NEW hi \in Int, SameIn(b, c, lo, hi), lo <= k - FieldSize[o + 1], k <= hi
    PROVE  FieldAt(c, k, o, f)
<1>1. FieldSize[o + 1] \in Nat /\ k \in 1..Offset(c)
  BY BufferFacts, SizesAreNumbers DEF FieldAt
<1>2. CASE f.target = 0
  <2>1. HasAt(b, k, FieldSize[o + 1], f.value)
    BY <1>2 DEF FieldAt
  <2>2. HasAt(c, k, FieldSize[o + 1], f.value)
    BY <1>1, <2>1, HasSame
  <2> QED BY <1>1, <1>2, <2>2 DEF FieldAt
<1>3. CASE f.target # 0
  <2>1. HasAt(b, k, FieldSize[o + 1], k - f.target)
    BY <1>3 DEF FieldAt
  <2>2. HasAt(c, k, FieldSize[o + 1], k - f.target)
    BY <1>1, <2>1, HasSame
  <2> QED BY <1>1, <1>3, <2>2 DEF FieldAt
<1> QED BY <1>2, <1>3

(* The header of a table is above its bottom.                              *)
LEMMA HeaderIsAbove ==
    ASSUME NEW b, NEW m, m.kind = "table", LaidOut(b, m), m.at \in Int,
           DOMAIN m.fields \subseteq Fields,
           \A p \in DOMAIN m.fields : At(b, m, p) \in Int
    PROVE  /\ Bottom(m) \in Int /\ Bottom(m) <= m.at - SizeSOffsetT
           /\ DOMAIN m.fields # {} => Bottom(m) = m.at - m.size
<1>1. CASE DOMAIN m.fields = {}
  BY <1>1 DEF Bottom, SizeSOffsetT
<1>2. CASE DOMAIN m.fields # {}
  <2>1. Bottom(m) = m.at - m.size /\ m.size \in Int
    BY <1>2 DEF Bottom, LaidOut
  <2>2. PICK p \in DOMAIN m.fields : TRUE
    BY <1>2
  <2>3. PICK k \in Int, n \in Nat : k = At(b, m, p) /\ n = FieldSize[p + 1]
    BY SizesAreNumbers
  <2>4. k - n >= m.at - m.size /\ k <= m.at - SizeSOffsetT
    BY <2>3 DEF LaidOut
  <2> QED BY <1>2, <2>1, <2>3, <2>4 DEF SizeSOffsetT
<1> QED BY <1>1, <1>2

LEMMA TableStays ==
    ASSUME NEW b, NEW c, IsBuffer(b), IsBuffer(c), Offset(b) <= Offset(c),
           NEW vts, VtablesSame(b, c, vts),
           NEW m, m.kind = "table", m.at \in Int, TableAt(b, vts, m), LaidOut(b, m),
           \A p \in DOMAIN m.fields : m.fields[p].target # 0 => FieldSize[p + 1] = SizeUOffsetT,
           SameIn(b, c, Bottom(m), m.at)
    PROVE  TableAt(c, vts, m) /\ HeaderSame(b, c, m)
<1>1. DOMAIN m.fields \subseteq Fields
  BY DEF TableAt
<1>2. ASSUME NEW p \in DOMAIN m.fields
      PROVE  At(b, m, p) \in Nat /\ FieldAt(b, At(b, m, p), p, m.fields[p])
  BY <1>1, FieldFound DEF VtablesSame
<1>3. /\ Bottom(m) \in Int /\ Bottom(m) <= m.at - SizeSOffsetT
      /\ DOMAIN m.fields # {} => Bottom(m) = m.at - m.size
  BY <1>1, <1>2, HeaderIsAbove
<1>4. HeaderSame(b, c, m)
  BY <1>3, SameWithin DEF HeaderSame, SizeSOffsetT
<1>5. ASSUME NEW p \in DOMAIN m.fields PROVE FieldAt(c, At(b, m, p), p, m.fields[p])
  <2>1. At(b, m, p) - FieldSize[p + 1] >= Bottom(m) /\ At(b, m, p) <= m.at - SizeSOffsetT
    BY <1>3 DEF LaidOut
  <2>2. FieldSize[p + 1] \in Nat
    BY <1>1, SizesAreNumbers
  <2>3. Bottom(m) <= At(b, m, p) - FieldSize[p + 1] /\ At(b, m, p) <= m.at
    BY <1>2, <1>3, <2>1, <2>2 DEF SizeSOffsetT
  <2> QED BY <1>1, <1>2, <1>3, <2>3, FieldSame
<1> QED BY <1>4, <1>5, TableSame

LEMMA VectorStays ==
    ASSUME NEW b, NEW c, IsBuffer(b), IsBuffer(c), Offset(b) <= Offset(c),
           NEW m, m.kind = "vector", m.at \in Int, VectorAt(b, m), SameIn(b, c, Bottom(m), m.at)
    PROVE  VectorAt(c, m)
<1>1. m.size \in {1, 2, 4, 8} /\ m.elems \in Seq(Int)
  BY DEF VectorAt
<1>2. PICK l \in Nat : l = Len(m.elems)
  BY <1>1
<1>3. Bottom(m) = m.at - 4 - l * m.size /\ l * m.size \in Nat
  BY <1>1, <1>2 DEF Bottom, SizeUOffsetT
<1>4. HasAt(c, m.at, SizeUOffsetT, l)
  <2>1. Bottom(m) <= m.at - SizeUOffsetT /\ Bottom(m) \in Int
    BY <1>3 DEF SizeUOffsetT
  <2> QED BY <1>2, <2>1, HasSame DEF VectorAt, SizeUOffsetT
<1>5. ASSUME NEW i \in 1..l
      PROVE  HasAt(c, m.at - SizeUOffsetT - (i - 1) * m.size, m.size, m.elems[i])
  <2>1. HasAt(b, m.at - SizeUOffsetT - (i - 1) * m.size, m.size, m.elems[i])
    BY <1>2 DEF VectorAt
  <2>2. PICK r \in Nat, q \in Nat, s \in Nat :
           r = l * m.size /\ q = (i - 1) * m.size /\ s = m.size /\ q + s <= r
    <3>1. CASE m.size = 1
      BY <3>1
    <3>2. CASE m.size = 2
      BY <3>2
    <3>3. CASE m.size = 4
      BY <3>3
    <3>4. CASE m.size = 8
      BY <3>4
    <3> QED BY <1>1, <3>1, <3>2, <3>3, <3>4
  <2>3. PICK o \in Int, a \in Int : o = Bottom(m) /\ a = m.at /\ o = a - 4 - r
    BY <1>3, <2>2
  <2>4. o <= a - 4 - q - s /\ a - 4 - q <= a
    BY <2>2, <2>3
  <2>5. HasAt(b, a - 4 - q, s, m.elems[i])
    BY <2>1, <2>2, <2>3 DEF SizeUOffsetT
  <2>6. HasAt(c, a - 4 - q, s, m.elems[i])
    BY <2>3, <2>4, <2>5, HasSame
  <2> QED BY <2>2, <2>3, <2>6 DEF SizeUOffsetT
<1> QED BY <1>1, <1>2, <1>4, <1>5 DEF VectorAt

LEMMA TextStays ==
    ASSUME NEW b, NEW c, IsBuffer(b), IsBuffer(c), Offset(b) <= Offset(c),
           NEW m, m.kind \in {"string", "bytes"}, m.at \in Int, TextAt(b, m),
           SameIn(b, c, Bottom(m), m.at)
    PROVE  TextAt(c, m)
<1>1. PICK l \in Nat : l = TextLen[m.text]
  BY SizesAssumption DEF TextAt
<1>2. Bottom(m) = m.at - 4 - l - (IF m.kind = "string" THEN 1 ELSE 0)
  BY <1>1 DEF Bottom, SizeUOffsetT, SizeByte
<1>3. HasAt(c, m.at, SizeUOffsetT, l)
  BY <1>1, <1>2, HasSame DEF TextAt, SizeUOffsetT
<1>4. HasAt(c, m.at - SizeUOffsetT, l, m.text)
  BY <1>1, <1>2, HasSame DEF TextAt, SizeUOffsetT
<1>5. m.kind = "string" => HasAt(c, m.at - SizeUOffsetT - l, SizeByte, 0)
  BY <1>1, <1>2, HasSame DEF TextAt, SizeUOffsetT, SizeByte
<1> QED BY <1>1, <1>3, <1>4, <1>5 DEF TextAt

LEMMA BufferStays ==
    ASSUME NEW b, NEW c, IsBuffer(b), IsBuffer(c), Offset(b) <= Offset(c),
           NEW m, m.kind = "buffer", m.at \in Int, BufferAt(b, m), SameIn(b, c, Bottom(m), m.at)
    PROVE  BufferAt(c, m)
<1>1. PICK r \in Int : r = RootAt(m) /\ r <= m.at /\ (m.prefixed => r = m.at - 4)
  BY DEF RootAt, sizePrefixLength
<1>2. PICK o \in Int : o = Bottom(m) /\ o <= r - 4 /\ (m.identifier # 0 => o = r - 4 - 4)
  BY <1>1 DEF Bottom, SizeUOffsetT, fileIdentifierLength
<1>3. HasAt(c, r, SizeUOffsetT, r - m.root)
  BY <1>1, <1>2, HasSame DEF BufferAt, SizeUOffsetT
<1>4. m.prefixed => HasAt(c, m.at, SizeUint32, m.at - sizePrefixLength)
  BY <1>1, <1>2, HasSame DEF BufferAt, SizeUint32
<1>5. m.identifier # 0 => HasAt(c, r - SizeUOffsetT, fileIdentifierLength, m.identifier)
  BY <1>1, <1>2, HasSame DEF BufferAt, SizeUOffsetT, fileIdentifierLength
<1> QED BY <1>1, <1>3, <1>4, <1>5 DEF BufferAt

(* A thing stays where no byte of it has changed.                          *)
LEMMA MadeStays ==
    ASSUME NEW b, NEW c, IsBuffer(b), IsBuffer(c), Offset(b) <= Offset(c),
           NEW vts, VtablesSame(b, c, vts), NEW things, Apart(b, vts, things),
           NEW m \in things, MadeAt(b, vts, m), SameIn(b, c, Bottom(m), m.at)
    PROVE  /\ MadeAt(c, vts, m)
           /\ m.kind = "table" => HeaderSame(b, c, m)
<1>1. m.at \in Int /\ m.at \in SizeUOffsetT..Offset(c)
  BY BufferFacts DEF MadeAt, SizeUOffsetT
<1>2. CASE m.kind = "table"
  <2>1. TableAt(b, vts, m) /\ LaidOut(b, m) /\ Lead(things, m.fields)
    BY <1>2 DEF MadeAt, Apart
  <2>2. \A p \in DOMAIN m.fields : m.fields[p].target # 0 => FieldSize[p + 1] = SizeUOffsetT
    BY <2>1 DEF Lead
  <2>3. TableAt(c, vts, m) /\ HeaderSame(b, c, m)
    BY <1>1, <1>2, <2>1, <2>2, TableStays
  <2> QED BY <1>1, <1>2, <2>3 DEF MadeAt
<1>3. CASE m.kind = "vector"
  BY <1>1, <1>3, VectorStays DEF MadeAt
<1>4. CASE m.kind \in {"string", "bytes"}
  BY <1>1, <1>4, TextStays DEF MadeAt
<1>5. CASE m.kind = "buffer"
  BY <1>1, <1>5, BufferStays DEF MadeAt
<1> QED BY <1>2, <1>3, <1>4, <1>5 DEF MadeAt

(* A table in the place of another.                                        *)
LEMMA ApartChanged ==
    ASSUME NEW b, NEW vts, NEW things, Apart(b, vts, things), NEW t \in things,
           NEW u, u.at = t.at, Bottom(u) = Bottom(t), u.kind = "table", t.kind = "table",
           LaidOut(b, u), Lead(things, u.fields)
    PROVE  Apart(b, vts, (things \ {t}) \cup {u})
<1> DEFINE new == (things \ {t}) \cup {u}
<1>1. ASSUME NEW m \in new, NEW n \in new, m # n
      PROVE  m.at <= Bottom(n) \/ n.at <= Bottom(m)
  BY <1>1 DEF Apart
<1>2. ASSUME NEW m \in new, NEW j \in DOMAIN vts
      PROVE  vts[j] <= Bottom(m) \/ m.at <= vts[j] - NumAt(b, vts[j])
  BY DEF Apart
<1>3. ASSUME NEW m \in new, m.kind = "table"
      PROVE  LaidOut(b, m) /\ Lead(new, m.fields)
  <2>1. LaidOut(b, m) /\ Lead(things, m.fields)
    BY <1>3 DEF Apart
  <2>2. ASSUME NEW x \in things, x.kind # "buffer"
        PROVE  \E y \in new : y.kind # "buffer" /\ y.at = x.at
    <3>1. CASE x = t
      BY <3>1
    <3>2. CASE x # t
      BY <2>2, <3>2
    <3> QED BY <3>1, <3>2
  <2> HIDE DEF new
  <2> QED BY <2>1, <2>2 DEF Lead
<1> QED BY <1>1, <1>2, <1>3 DEF Apart

LEMMA BottomIsNumber ==
    ASSUME NEW b, IsBuffer(b), NEW vts, \A j \in DOMAIN vts : IsVtable(b, vts[j]),
           NEW things, Apart(b, vts, things), NEW m \in things, MadeAt(b, vts, m)
    PROVE  m.at \in Int /\ Bottom(m) \in Int
<1>1. m.at \in Int
  BY DEF MadeAt, SizeUOffsetT
<1>2. CASE m.kind = "table"
  <2>1. TableAt(b, vts, m) /\ LaidOut(b, m) /\ DOMAIN m.fields \subseteq Fields
    BY <1>2 DEF MadeAt, Apart, TableAt
  <2>2. \A p \in DOMAIN m.fields : At(b, m, p) \in Int
    BY <1>1, <2>1, FieldFound
  <2> QED BY <1>1, <1>2, <2>1, <2>2, HeaderIsAbove
<1>3. CASE m.kind = "vector"
  <2>1. VectorAt(b, m)
    BY <1>3 DEF MadeAt
  <2>2. m.size \in Int /\ Len(m.elems) \in Nat
    BY <2>1 DEF VectorAt
  <2> QED BY <1>1, <1>3, <2>2 DEF Bottom, SizeUOffsetT
<1>4. CASE m.kind \in {"string", "bytes"}
  <2>1. TextLen[m.text] \in Nat
    BY <1>4, SizesAssumption DEF MadeAt, TextAt
  <2> QED BY <1>1, <1>4, <2>1 DEF Bottom, SizeUOffsetT, SizeByte
<1>5. CASE m.kind = "buffer"
  BY <1>1, <1>5 DEF Bottom, RootAt, SizeUOffsetT, fileIdentifierLength, sizePrefixLength
<1> QED BY <1>1, <1>2, <1>3, <1>4, <1>5 DEF MadeAt

(* A field is overwritten: its table has the new value, everything else is *)
(* as it was.                                                              *)
LEMMA ChangeIsCarried ==
    ASSUME NEW b, IsBuffer(b), NEW vts, NEW things, Carries(b, vts, things),
           NEW t \in things, t.kind = "table", NEW o \in DOMAIN t.fields, t.fields[o].target = 0,
           NEW n \in Int, NEW c, Overwrites(b, c, At(b, t, o), FieldSize[o + 1], n),
           NEW u, u = [t EXCEPT !.fields[o].value = n]
    PROVE  Carries(c, vts, (things \ {t}) \cup {u})
<1>1. /\ \A j \in DOMAIN vts : IsVtable(b, vts[j])
      /\ \A m \in things : MadeAt(b, vts, m)
      /\ Apart(b, vts, things)
  BY DEF Carries
<1>2. /\ t.at \in SizeUOffsetT..Offset(b) /\ t.at \in Int
      /\ TableAt(b, vts, t) /\ LaidOut(b, t) /\ Lead(things, t.fields)
      /\ DOMAIN t.fields \subseteq Fields
  BY <1>1 DEF MadeAt, Apart, SizeUOffsetT, TableAt
<1>3. ASSUME NEW p \in DOMAIN t.fields
      PROVE  /\ At(b, t, p) \in Nat /\ FieldAt(b, At(b, t, p), p, t.fields[p])
             /\ FieldSize[p + 1] \in Nat \ {0}
  BY <1>1, <1>2, FieldFound, SizesAreNumbers
<1>4. PICK k \in Nat, s \in Nat, lo \in Int, at \in Int :
         /\ k = At(b, t, o) /\ s = FieldSize[o + 1] /\ lo = Bottom(t) /\ at = t.at
         /\ lo = t.at - t.size
  BY <1>2, <1>3, HeaderIsAbove
<1>5. k - s >= lo /\ k <= at - 4
  BY <1>2, <1>4 DEF LaidOut, SizeSOffsetT
<1>6. k \in s..Offset(b) /\ Overwrites(b, c, k, s, n)
  <2>1. HasAt(b, k, s, t.fields[o].value)
    BY <1>3, <1>4 DEF FieldAt
  <2> QED BY <1>4, <2>1 DEF HasAt
<1>7. IsBuffer(c) /\ Offset(c) = Offset(b) /\ HasAt(c, k, s, n) /\ Offset(b) \in Nat
      /\ Offset(b) <= Offset(c)
  BY <1>6, BufferFacts DEF Overwrites
<1>8. \A l \in Int, h \in Int : k <= l \/ h <= k - s => SameIn(b, c, l, h)
  BY <1>6, SameOutside
<1>9. VtablesSame(b, c, vts)
  <2>1. ASSUME NEW j \in DOMAIN vts
        PROVE  IsVtable(b, vts[j]) /\ SameIn(b, c, vts[j] - NumAt(b, vts[j]), vts[j])
    <3>1. PICK vt \in Int, l \in Int : vt = vts[j] /\ l = vts[j] - NumAt(b, vts[j])
      BY <1>1, VtableParts
    <3>2. vt <= lo \/ at <= l
      BY <1>1, <1>4, <3>1 DEF Apart
    <3>3. k <= l \/ vt <= k - s
      BY <1>4, <1>5, <3>2
    <3> QED BY <1>1, <1>8, <3>1, <3>3
  <2> QED BY <2>1 DEF VtablesSame
<1>10. HeaderSame(b, c, t)
  <2>1. k <= at - 4
    BY <1>5
  <2> QED BY <1>4, <1>8, <2>1 DEF HeaderSame, SizeSOffsetT
<1>11. ASSUME NEW m \in things, m # t
       PROVE  /\ MadeAt(c, vts, m)
              /\ m.kind = "table" => HeaderSame(b, c, m)
  <2>1. PICK h \in Int, l \in Int : h = m.at /\ l = Bottom(m)
    BY <1>1, BottomIsNumber
  <2>2. h <= lo \/ at <= l
    BY <1>1, <1>4, <1>11, <2>1 DEF Apart
  <2>3. k <= l \/ h <= k - s
    BY <1>4, <1>5, <2>2
  <2>4. SameIn(b, c, Bottom(m), m.at)
    BY <1>8, <2>1, <2>3
  <2> QED BY <1>1, <1>7, <1>9, <2>4, MadeStays
<1>12. /\ u = [kind |-> "table", at |-> u.at, fields |-> u.fields, size |-> u.size]
       /\ u.kind = "table" /\ u.at = t.at /\ u.size = t.size
       /\ DOMAIN u.fields = DOMAIN t.fields /\ u.fields = [p \in DOMAIN u.fields |-> u.fields[p]]
       /\ u.fields[o] = [value |-> n, target |-> 0]
       /\ \A p \in DOMAIN t.fields : p # o => u.fields[p] = t.fields[p]
  <2> DEFINE F == [t.fields EXCEPT ![o].value = n]
  <2>1. t = [kind |-> "table", at |-> t.at, fields |-> t.fields, size |-> t.size]
    BY <1>2 DEF LaidOut
  <2>2. u = [t EXCEPT !.fields = F]
    OBVIOUS
  <2>3. /\ t.fields = [p \in DOMAIN t.fields |-> t.fields[p]]
        /\ t.fields[o] = [value |-> t.fields[o].value, target |-> 0]
    BY <1>2 DEF LaidOut, AreFields
  <2>4. F[o] = [t.fields[o] EXCEPT !.value = n]
    BY <2>3
  <2>5. F[o] = [value |-> n, target |-> 0]
    BY <2>3, <2>4
  <2>6. DOMAIN F = DOMAIN t.fields /\ \A p \in DOMAIN t.fields : p # o => F[p] = t.fields[p]
    BY <2>3
  <2>7. F = [p \in DOMAIN F |-> F[p]]
    BY <2>3
  <2> HIDE DEF F
  <2>8. u = [kind |-> "table", at |-> t.at, fields |-> F, size |-> t.size]
    BY <2>1, <2>2
  <2>9. u.fields = F /\ u.kind = "table" /\ u.at = t.at /\ u.size = t.size
    BY <2>8
  <2>10. u = [kind |-> "table", at |-> u.at, fields |-> u.fields, size |-> u.size]
    BY <2>8, <2>9
  <2> QED BY <2>5, <2>6, <2>7, <2>9, <2>10
<1>13. ASSUME NEW p \in DOMAIN t.fields PROVE FieldAt(c, At(b, t, p), p, u.fields[p])
  <2>1. CASE p = o
    BY <1>3, <1>4, <1>7, <1>12, <2>1 DEF FieldAt
  <2>2. CASE p # o
    <3>1. PICK h \in Int, l \in Int : h = At(b, t, p) /\ l = At(b, t, p) - FieldSize[p + 1]
      BY <1>3
    <3>2. h <= k - s \/ k <= l
      BY <1>2, <1>4, <2>2, <3>1 DEF LaidOut, Clear
    <3>3. SameIn(b, c, l, h)
      BY <1>8, <3>2
    <3>4. t.fields[p].target # 0 => FieldSize[p + 1] = SizeUOffsetT
      BY <1>2 DEF Lead
    <3>5. FieldAt(c, At(b, t, p), p, t.fields[p])
      BY <1>2, <1>3, <1>7, <3>1, <3>3, <3>4, FieldSame
    <3> QED BY <1>12, <2>2, <3>5
  <2> QED BY <2>1, <2>2
<1>14. MadeAt(c, vts, u)
  <2>1. TableAt(c, vts, u)
    BY <1>2, <1>7, <1>9, <1>10, <1>12, <1>13, TableSame
  <2> QED BY <1>2, <1>7, <1>12, <2>1 DEF MadeAt
<1>15. Apart(c, vts, things)
  BY <1>1, <1>7, <1>9, <1>10, <1>11, ApartSame
<1>16. LaidOut(c, u)
  <2>1. LaidOut(c, t)
    BY <1>15 DEF Apart
  <2>2. \A p \in DOMAIN t.fields : At(c, u, p) = At(c, t, p)
    BY <1>12 DEF At
  <2>3. AreFields(u.fields)
    BY <1>12, <2>1 DEF AreFields, LaidOut
  <2> QED BY <1>12, <2>1, <2>2, <2>3 DEF LaidOut
<1>17. Lead(things, u.fields)
  BY <1>2, <1>12 DEF Lead
<1>18. Apart(c, vts, (things \ {t}) \cup {u})
  <2>1. Bottom(u) = Bottom(t)
    BY <1>12 DEF Bottom
  <2> QED BY <1>12, <1>15, <1>16, <1>17, <2>1, ApartChanged
<1>19. \A j \in DOMAIN vts : IsVtable(c, vts[j])
  BY <1>7, <1>9, VtableSame DEF VtablesSame
<1> QED BY <1>11, <1>14, <1>18, <1>19 DEF Carries

LEMMA MutatedIsMessage ==
    ASSUME IsMessage(message), NEW t \in Received, NEW o \in Fields, NEW n \in Values,
           Mutate(t, o, n)
    PROVE  IsMessage(message')
<1> DEFINE b == View(message)
           pos == PosOf(message, t)
           off == TableOffset(b, BufLen(b) - t.at, SlotOf(o))
           k == At(b, t, o)
           s == FieldSize[o + 1]
           c == Overwrite(b, BufLen(b) - k, s, n)
           u == [t EXCEPT !.fields[o].value = n]
           new == (message.made \ {t}) \cup {u}
<1>1. /\ message = [bytes |-> message.bytes, made |-> message.made, finish |-> message.finish]
      /\ IsBuffer(b)
  BY DEF IsMessage
<1>2. PICK vts \in Seq(Nat) : Carries(b, vts, message.made)
  BY DEF IsMessage
<1>3. /\ \A j \in DOMAIN vts : IsVtable(b, vts[j])
      /\ \A m \in message.made : MadeAt(b, vts, m)
      /\ Apart(b, vts, message.made)
  BY <1>2 DEF Carries
<1>4. t \in message.made /\ t.kind = "table"
  BY DEF Received
<1>5. t.at \in Int /\ TableAt(b, vts, t) /\ LaidOut(b, t) /\ Lead(message.made, t.fields)
  BY <1>3, <1>4 DEF MadeAt, Apart, SizeUOffsetT
<1>6. BufLen(b) = Len(message.bytes) /\ pos = BufLen(b) - t.at
  BY DEF View, BufLen, PosOf
<1>7. TableOffset(message, pos, SlotOf(o)) = off
  BY <1>6 DEF TableOffset, Get, View
<1>8. CASE off = 0
  BY <1>7, <1>8 DEF Mutate
<1>9. CASE off # 0
  <2>1. /\ o \in DOMAIN t.fields /\ k \in Nat /\ FieldAt(b, k, o, t.fields[o])
        /\ off \in Nat /\ k = t.at - off
    BY <1>1, <1>3, <1>5, <1>9, FieldFound DEF At
  <2>2. t.fields[o].target = 0
    BY <2>1 DEF Mutate
  <2>3. message' = [Mutated(message, pos, o, n) EXCEPT !.made = (@ \ {t}) \cup {u}]
    BY <1>7, <1>9 DEF Mutate
  <2> HIDE DEF off, k, s, u
  <2>4. s \in Nat \ {0} /\ k \in s..Offset(b) /\ Offset(b) \in Nat /\ n \in Int
    <3>1. HasAt(b, k, s, t.fields[o].value)
      BY <2>1, <2>2 DEF FieldAt, s
    <3>2. s \in Nat \ {0}
      BY SizesAreNumbers DEF s
    <3> QED BY <1>1, <3>1, <3>2, BufferFacts, ValuesAssumption DEF HasAt
  <2>5. Overwrites(b, c, k, s, n)
    BY <1>1, <2>4, OverwriteOverwrites
  <2>6. IsBuffer(c) /\ Offset(c) = Offset(b) /\ BufLen(c) = BufLen(b) /\ HasAt(c, k, s, n)
    <3>1. IsBuffer(c) /\ Offset(c) = Offset(b) /\ HasAt(c, k, s, n)
      BY <2>5 DEF Overwrites
    <3>2. c.head = b.head
      BY <2>5 DEF Overwrites
    <3> HIDE DEF c, b
    <3>3. BufLen(c) = c.head + Offset(c) /\ BufLen(b) = b.head + Offset(b)
      BY <1>1, <3>1, BufferFacts
    <3> QED BY <3>1, <3>2, <3>3
  <2> DEFINE bytes == Over(message.bytes, pos + off, Scalar(s, n))
  <2>7. message' = [bytes |-> bytes, made |-> new, finish |-> message.finish]
    <3>1. Mutated(message, pos, o, n) = [message EXCEPT !.bytes = bytes]
      BY <1>7 DEF Mutated, s
    <3> HIDE DEF bytes, pos
    <3> QED BY <1>1, <2>3, <3>1
  <2>8. View(message') = c
    <3>1. BufLen(b) - k = pos + off
      <4>1. PICK l \in Nat, a \in Int : l = BufLen(b) /\ a = t.at
        BY <1>1, <1>5, BufferFacts
      <4> QED BY <1>6, <2>1, <4>1
    <3>2. c = [b EXCEPT !.bytes = bytes]
      BY <3>1 DEF Overwrite, View
    <3> HIDE DEF bytes
    <3>3. c = [bytes |-> bytes, cap |-> Len(message.bytes), head |-> 0, minalign |-> 8]
      BY <3>2 DEF View
    <3>4. Len(bytes) = Len(message.bytes)
      BY <1>6, <2>6, <3>3 DEF BufLen
    <3> HIDE DEF c
    <3> QED BY <2>7, <3>3, <3>4 DEF View
  <2> HIDE DEF c, b, new, bytes, pos
  <2>9. Len(message'.bytes) = Len(message.bytes) /\ message'.made = new
        /\ message'.finish = message.finish
        /\ message' = [bytes |-> message'.bytes, made |-> message'.made, finish |-> message'.finish]
    <3>1. BufLen(c) = Len(message'.bytes)
      BY <2>8 DEF View, BufLen
    <3> QED BY <1>6, <2>6, <2>7, <3>1
  <2>10. Carries(c, vts, new)
    BY <1>1, <1>2, <1>4, <2>1, <2>2, <2>4, <2>5, ChangeIsCarried DEF new, u, k, s
  <2>11. \A prefixed : EndsWithRoot(message, prefixed) => EndsWithRoot(message', prefixed)
    BY <1>4, <2>9 DEF EndsWithRoot, new
  <2>12. message.finish = "plain" => EndsWithRoot(message, FALSE)
    BY DEF IsMessage
  <2>13. message.finish = "prefixed" => EndsWithRoot(message, TRUE)
    BY DEF IsMessage
  <2> QED BY <1>2, <2>6, <2>8, <2>9, <2>10, <2>11, <2>12, <2>13 DEF IsMessage
<1> QED BY <1>8, <1>9

-----------------------------------------------------------------------------
(* The invariant.                                                          *)

(* In the Builder nothing overlaps anything else, and what is open is in   *)
(* front of all that is finished; a message holds what its sender built    *)
(* and its receiver changed, at the places that its vtables say (the calls *)
(* of the Builder, FinishedBytes and the Mutate calls).                    *)
THEOREM TableInvariant == TableSpec => []TableInv
<1>1. TableInit => TableInv
  BY InitEstablishes, InitApart, NoMessageIsMessage DEF TableInit, TableInv
<1>2. TableInv /\ [TableNext]_tableVars => TableInv'
  <2> SUFFICES ASSUME TableInv, [TableNext]_tableVars PROVE TableInv'
    OBVIOUS
  <2>1. IInv /\ ApartInv /\ IsMessage(message)
    BY DEF TableInv
  <2>2. CASE [Next]_vars /\ UNCHANGED <<message, messages>>
    <3>1. IInv' /\ ApartInv'
      BY <2>1, <2>2, NextPreserves, NextApart DEF Preserved
    <3>2. IsMessage(message)'
      BY <2>1, <2>2
    <3> QED BY <3>1, <3>2 DEF TableInv
  <2>3. ASSUME UNCHANGED state, IsMessage(message') PROVE TableInv'
    BY <2>1, <2>3, PanicPreserves, UnchangedApart DEF TableInv
  <2>4. CASE Send
    <3>1. CASE finished
      <4>1. UNCHANGED state
        BY <2>4, <3>1 DEF Send, vars, state
      <4> QED BY <2>1, <2>3, <2>4, <3>1, <4>1, SentIsMessage
    <3>2. CASE ~finished
      BY <2>1, <2>3, <2>4, <3>2 DEF Send, Panic
    <3> QED BY <3>1, <3>2
  <2>5. ASSUME NEW t \in Received, NEW o \in Fields, NEW n \in Values, Mutate(t, o, n)
        PROVE  TableInv'
    <3>1. UNCHANGED state
      BY <2>5 DEF Mutate
    <3>2. IsMessage(message')
      BY <2>1, <2>5, MutatedIsMessage
    <3> QED BY <2>3, <3>1, <3>2
  <2>6. CASE UNCHANGED tableVars
    BY <2>2, <2>6 DEF tableVars
  <2> QED BY <2>2, <2>4, <2>5, <2>6 DEF TableNext
<1> QED BY <1>1, <1>2, PTL DEF TableSpec

-----------------------------------------------------------------------------
(* What follows for a receiver.                                            *)

(* What a message holds at an offset is what a receiver reads.             *)
LEMMA MessageGet ==
    ASSUME NEW m, IsBuffer(View(m)), NEW l \in Int, l = Len(m.bytes)
    PROVE  \A k \in Int, n \in Nat, x \in Int : HasAt(View(m), k, n, x) =>
              /\ Holds(m, l - k, n, x)
              /\ n > 0 => Get(m, l - k) = x
<1>1. BufLen(View(m)) = l /\ BufLen(m) = l
  BY DEF View, BufLen
<1> TAKE k \in Int, n \in Nat, x \in Int
<1> HAVE HasAt(View(m), k, n, x)
<1>2. /\ Holds(View(m), l - k, n, x)
      /\ n > 0 => Get(View(m), l - k) = x
  BY <1>1, HeldIsRead
<1>3. \A p : Holds(View(m), p, n, x) <=> Holds(m, p, n, x)
  BY <1>1 DEF Holds, View
<1>4. \A p : Get(View(m), p) = Get(m, p)
  BY DEF Get, View
<1> QED BY <1>2, <1>3, <1>4

(* A receiver gets the root table from the message: at its beginning, or   *)
(* behind a size prefix that counts the rest (Unmarshal, GetRootAs,        *)
(* GetSizePrefixedRootAs, GetSizePrefix).                                  *)
THEOREM MessagesHaveRoots == TableSpec => []MessageHasRoot
<1>1. IsMessage(message) => MessageHasRoot
  <2> SUFFICES ASSUME IsMessage(message) PROVE MessageHasRoot
    OBVIOUS
  <2>1. IsBuffer(View(message))
    BY DEF IsMessage
  <2>2. PICK l \in Nat : l = Len(message.bytes)
    BY <2>1, BufferFacts DEF View, BufLen
  <2>3. ASSUME NEW prefixed \in BOOLEAN, EndsWithRoot(message, prefixed)
        PROVE  \E x \in message.made : /\ x.kind = "buffer" /\ x.at = l /\ x.prefixed = prefixed
                                       /\ BufferAt(View(message), x)
    BY <2>2, <2>3 DEF IsMessage, Carries, MadeAt, EndsWithRoot
  <2>4. ASSUME message.finish = "plain" PROVE RootIs(message, Unmarshal(message))
    <3>1. PICK x \in message.made : /\ x.kind = "buffer" /\ x.at = l /\ x.prefixed = FALSE
                                    /\ BufferAt(View(message), x)
      BY <2>3, <2>4 DEF IsMessage
    <3>2. PICK r \in Nat : r = x.root /\ HasAt(View(message), l, 4, l - r)
      <4>1. RootAt(x) = l
        BY <3>1 DEF RootAt
      <4> QED BY <3>1, <4>1 DEF BufferAt, SizeUOffsetT
    <3>3. Get(message, l - l) = l - r
      <4>1. PICK y \in Int : y = l - r /\ HasAt(View(message), l, 4, y)
        BY <3>2
      <4>2. \A c, z \in Int : HasAt(View(message), c, 4, z) => Get(message, l - c) = z
        BY <2>1, <2>2, MessageGet
      <4> QED BY <4>1, <4>2
    <3>4. l - l = 0
      OBVIOUS
    <3> QED BY <2>2, <3>1, <3>2, <3>3, <3>4 DEF Unmarshal, RootIs
  <2>5. ASSUME message.finish = "prefixed"
        PROVE  /\ RootIs(message, SizePrefixedRoot(message))
               /\ SizePrefix(message) = l - sizePrefixLength
    <3>1. PICK x \in message.made : /\ x.kind = "buffer" /\ x.at = l /\ x.prefixed = TRUE
                                    /\ BufferAt(View(message), x)
      BY <2>3, <2>5 DEF IsMessage
    <3>2. PICK r \in Nat : /\ r = x.root /\ HasAt(View(message), l - 4, 4, (l - 4) - r)
                           /\ HasAt(View(message), l, 4, l - 4)
      <4>1. RootAt(x) = l - 4
        BY <3>1 DEF RootAt, sizePrefixLength
      <4> QED BY <3>1, <4>1 DEF BufferAt, SizeUOffsetT, SizeUint32, sizePrefixLength
    <3>3. Get(message, l - (l - 4)) = (l - 4) - r /\ Get(message, l - l) = l - 4
      BY <2>1, <2>2, <3>2, MessageGet
    <3>4. l - l = 0 /\ l - (l - 4) = 4 /\ 4 + ((l - 4) - r) = l - r
      OBVIOUS
    <3>5. SizePrefixedRoot(message) = l - r /\ SizePrefix(message) = l - 4
      BY <3>3, <3>4 DEF SizePrefixedRoot, SizePrefix, sizePrefixLength
    <3> QED BY <2>2, <3>1, <3>2, <3>5 DEF RootIs, sizePrefixLength
  <2> QED BY <2>2, <2>4, <2>5 DEF MessageHasRoot
<1> QED BY <1>1, TableInvariant, PTL DEF TableInv

(* A field of a table of a message is read as it was set, or found to be   *)
(* missing.                                                                *)
LEMMA MessageField ==
    ASSUME IsMessage(message), NEW t \in Received, NEW o \in Fields
    PROVE  LET pos == PosOf(message, t)
               off == TableOffset(message, pos, SlotOf(o))
           IN IF o \notin DOMAIN t.fields THEN off = 0
              ELSE /\ off # 0
                   /\ IF t.fields[o].target = 0
                      THEN /\ Get(message, pos + off) = t.fields[o].value
                           /\ Holds(message, pos + off, FieldSize[o + 1], t.fields[o].value)
                      ELSE /\ Indirect(message, pos + off) = Len(message.bytes) - t.fields[o].target
                           /\ \E m \in message.made :
                                 m.kind # "buffer" /\ m.at = t.fields[o].target
<1> DEFINE b == View(message)
           pos == PosOf(message, t)
           off == TableOffset(message, pos, SlotOf(o))
<1>1. IsBuffer(b)
  BY DEF IsMessage
<1>2. PICK vts \in Seq(Nat) : Carries(b, vts, message.made)
  BY DEF IsMessage
<1>3. /\ \A j \in DOMAIN vts : IsVtable(b, vts[j])
      /\ MadeAt(b, vts, t) /\ Apart(b, vts, message.made)
      /\ t \in message.made /\ t.kind = "table"
  BY <1>2 DEF Carries, Received
<1>4. t.at \in Int /\ TableAt(b, vts, t) /\ Lead(message.made, t.fields)
  BY <1>3 DEF MadeAt, Apart, SizeUOffsetT
<1>5. PICK l \in Nat, a \in Int : l = Len(message.bytes) /\ a = t.at
  BY <1>1, <1>4, BufferFacts DEF View, BufLen
<1>6. pos = l - a /\ TableOffset(b, BufLen(b) - t.at, SlotOf(o)) = off
  BY <1>5 DEF View, BufLen, PosOf, TableOffset, Get
<1> HIDE DEF pos, off
<1>7. CASE o \notin DOMAIN t.fields
  <2>1. off = 0
    BY <1>1, <1>3, <1>4, <1>6, <1>7, FieldFound
  <2> QED BY <1>7, <2>1 DEF off, pos
<1>8. CASE o \in DOMAIN t.fields
  <2>1. off \in Nat \ {0} /\ FieldAt(b, At(b, t, o), o, t.fields[o]) /\ At(b, t, o) = a - off
    BY <1>1, <1>3, <1>4, <1>5, <1>6, <1>8, FieldFound DEF At
  <2>2. PICK k \in Int : k = a - off /\ l - k = pos + off /\ FieldAt(b, k, o, t.fields[o])
    BY <1>6, <2>1
  <2>3. FieldSize[o + 1] \in Nat /\ FieldSize[o + 1] > 0
    BY SizesAreNumbers
  <2> HIDE DEF b
  <2>4. CASE t.fields[o].target = 0
    <3>1. t.fields[o].value \in Int /\ HasAt(b, k, FieldSize[o + 1], t.fields[o].value)
      BY <2>2, <2>4 DEF FieldAt
    <3>2. /\ Holds(message, l - k, FieldSize[o + 1], t.fields[o].value)
          /\ Get(message, l - k) = t.fields[o].value
      BY <1>1, <1>5, <2>3, <3>1, MessageGet DEF b
    <3> QED BY <1>8, <2>1, <2>2, <2>4, <3>2 DEF off, pos
  <2>5. CASE t.fields[o].target # 0
    <3>1. PICK x \in Int, y \in Int : x = t.fields[o].target /\ y = k - x /\ HasAt(b, k, 4, y)
      BY <2>2, <2>5 DEF FieldAt, SizeUOffsetT
    <3>2. Get(message, l - k) = y
      <4>1. \A c, z \in Int : HasAt(b, c, 4, z) => Get(message, l - c) = z
        BY <1>1, <1>5, MessageGet DEF b
      <4> QED BY <3>1, <4>1
    <3>3. Indirect(message, pos + off) = l - x
      <4>1. (l - k) + y = l - x
        BY <3>1
      <4> QED BY <2>2, <3>2, <4>1 DEF Indirect
    <3>4. \E m \in message.made : m.kind # "buffer" /\ m.at = x
      BY <1>4, <1>8, <2>5, <3>1 DEF Lead
    <3> QED BY <1>5, <1>8, <2>1, <2>5, <3>1, <3>3, <3>4 DEF off, pos
  <2> QED BY <2>4, <2>5
<1> QED BY <1>7, <1>8

(* A vector, or a text, is read behind its length.                         *)
LEMMA MessageVector ==
    ASSUME IsMessage(message), NEW m \in message.made, m.kind = "vector",
           NEW pos, NEW off, Indirect(message, pos + off) = Len(message.bytes) - m.at
    PROVE  /\ VectorLen(message, pos, off) = Len(m.elems)
           /\ \A i \in DOMAIN m.elems :
                 Holds(message, Vector(message, pos, off) + (i - 1) * m.size, m.size, m.elems[i])
<1> DEFINE b == View(message)
<1>1. IsBuffer(b)
  BY DEF IsMessage
<1>2. m.at \in Int /\ VectorAt(b, m)
  BY DEF IsMessage, Carries, MadeAt, SizeUOffsetT
<1>3. PICK l \in Nat, a \in Int : l = Len(message.bytes) /\ a = m.at
  BY <1>1, <1>2, BufferFacts DEF View, BufLen
<1> HIDE DEF b
<1>4. Get(message, l - a) = Len(m.elems)
  <2>1. Len(m.elems) \in Int /\ HasAt(b, a, 4, Len(m.elems))
    BY <1>2, <1>3 DEF VectorAt, SizeUOffsetT
  <2> QED BY <1>1, <1>3, <2>1, MessageGet DEF b
<1>5. ASSUME NEW i \in DOMAIN m.elems
      PROVE  Holds(message, l - a + 4 + (i - 1) * m.size, m.size, m.elems[i])
  <2>1. i \in 1..Len(m.elems) /\ m.elems[i] \in Int /\ m.size \in {1, 2, 4, 8}
    BY <1>2 DEF VectorAt
  <2>2. PICK q \in Int : q = (i - 1) * m.size
    BY <2>1
  <2>3. PICK k \in Int : k = a - 4 - q /\ HasAt(b, k, m.size, m.elems[i])
    BY <1>2, <1>3, <2>1, <2>2, SMTT(30) DEF VectorAt, SizeUOffsetT
  <2>4. l - k = l - a + 4 + q
    BY <2>3
  <2>5. Holds(message, l - k, m.size, m.elems[i])
    <3>1. PICK s \in Nat, y \in Int : s = m.size /\ y = m.elems[i]
      BY <2>1
    <3>2. HasAt(View(message), k, s, y)
      BY <2>3, <3>1 DEF b
    <3>3. \A h \in Int, n \in Nat, x \in Int : HasAt(View(message), h, n, x) =>
             Holds(message, l - h, n, x)
      BY <1>1, <1>3, MessageGet DEF b
    <3>4. Holds(message, l - k, s, y)
      BY <2>3, <3>2, <3>3
    <3> QED BY <3>1, <3>4
  <2> QED BY <2>2, <2>4, <2>5
<1>6. VectorLen(message, pos, off) = Len(m.elems) /\ Vector(message, pos, off) = l - a + 4
  BY <1>3, <1>4 DEF VectorLen, Vector, SizeUOffsetT
<1> QED BY <1>5, <1>6

LEMMA MessageText ==
    ASSUME IsMessage(message), NEW m \in message.made, m.kind \in {"string", "bytes"},
           NEW p, Indirect(message, p) = Len(message.bytes) - m.at
    PROVE  ByteVectorIs(message, p, m.text)
<1> DEFINE b == View(message)
<1>1. IsBuffer(b)
  BY DEF IsMessage
<1>2. m.at \in Int /\ TextAt(b, m)
  BY DEF IsMessage, Carries, MadeAt, SizeUOffsetT
<1>3. PICK l \in Nat, a \in Int, n \in Nat : l = Len(message.bytes) /\ a = m.at /\ n = TextLen[m.text]
  BY <1>1, <1>2, BufferFacts, SizesAssumption DEF View, BufLen, TextAt
<1>4. m.text \in Int
  <2>1. m.text \in Texts
    BY <1>2 DEF TextAt
  <2>2. m.text \in Nat
    BY <2>1, ValuesAssumption
  <2> QED BY <2>2
<1> HIDE DEF b
<1>5. Get(message, l - a) = n
  <2>1. HasAt(b, a, 4, n)
    BY <1>2, <1>3 DEF TextAt, SizeUOffsetT
  <2> QED BY <1>1, <1>3, <2>1, MessageGet DEF b
<1>6. Holds(message, l - a + 4, n, m.text)
  <2>1. PICK k \in Int : k = a - 4 /\ HasAt(b, k, n, m.text)
    BY <1>2, <1>3 DEF TextAt, SizeUOffsetT
  <2>2. Holds(message, l - k, n, m.text)
    BY <1>1, <1>3, <1>4, <2>1, MessageGet DEF b
  <2>3. l - k = l - a + 4
    BY <2>1
  <2> QED BY <2>2, <2>3
<1> QED BY <1>3, <1>5, <1>6 DEF ByteVectorIs, SizeUOffsetT

(* Every table of a message is read as its sender built it and its         *)
(* receiver changed it, whichever tables share its vtable: a change is in  *)
(* the one field it was made in, and reading follows the offsets to the    *)
(* vectors, texts and tables that were meant (Table.Offset and the Get,    *)
(* Mutate, Vector, String and Union calls).                                *)
THEOREM MessagesAreReadBack == TableSpec => []MessageReadsBack
<1>1. IsMessage(message) => MessageReadsBack
  <2> SUFFICES ASSUME IsMessage(message), NEW t \in Received, NEW o \in Fields
               PROVE  FieldReads(message, t, o)
    BY DEF MessageReadsBack
  <2> DEFINE pos == PosOf(message, t)
             off == TableOffset(message, pos, SlotOf(o))
             things == {m \in message.made : m.kind # "buffer" /\ m.at = t.fields[o].target}
             reads(m) == CASE m.kind = "table" -> Union(message, pos, off) = PosOf(message, m)
                           [] m.kind = "vector" ->
                                 /\ VectorLen(message, pos, off) = Len(m.elems)
                                 /\ \A i \in DOMAIN m.elems :
                                       Holds(message, Vector(message, pos, off) + (i - 1) * m.size,
                                             m.size, m.elems[i])
                           [] OTHER -> ByteVectorIs(message, pos + off, m.text)
  <2>1. FieldReads(message, t, o) =
           IF o \notin DOMAIN t.fields THEN GetSlot(message, pos, o, 0) = 0
           ELSE IF t.fields[o].target = 0
           THEN GetSlot(message, pos, o, 0) = t.fields[o].value /\
                Holds(message, pos + off, FieldSize[o + 1], t.fields[o].value)
           ELSE \E m \in things : reads(m)
    BY DEF FieldReads
  <2>2. GetSlot(message, pos, o, 0) = IF off = 0 THEN 0 ELSE Get(message, pos + off)
    BY DEF GetSlot
  <2>3. CASE o \notin DOMAIN t.fields
    <3>1. off = 0
      BY <2>3, MessageField
    <3> QED BY <2>1, <2>2, <2>3, <3>1
  <2>4. CASE o \in DOMAIN t.fields /\ t.fields[o].target = 0
    <3>1. /\ off # 0 /\ Get(message, pos + off) = t.fields[o].value
          /\ Holds(message, pos + off, FieldSize[o + 1], t.fields[o].value)
      BY <2>4, MessageField
    <3> HIDE DEF pos, off
    <3> QED BY <2>1, <2>2, <2>4, <3>1
  <2>5. CASE o \in DOMAIN t.fields /\ t.fields[o].target # 0
    <3>1. /\ Indirect(message, pos + off) = Len(message.bytes) - t.fields[o].target
          /\ \E m \in message.made : m.kind # "buffer" /\ m.at = t.fields[o].target
      BY <2>5, MessageField
    <3> HIDE DEF pos, off
    <3>2. PICK m \in message.made : m.kind # "buffer" /\ m.at = t.fields[o].target
      BY <3>1
    <3>3. Indirect(message, pos + off) = Len(message.bytes) - m.at
      BY <3>1, <3>2
    <3>4. ASSUME m.kind = "table" PROVE reads(m)
      BY <3>3, <3>4 DEF Union, PosOf
    <3>5. ASSUME m.kind = "vector" PROVE reads(m)
      BY <3>3, <3>5, MessageVector
    <3>6. ASSUME m.kind \in {"string", "bytes"} PROVE reads(m)
      BY <3>3, <3>6, MessageText
    <3>7. m.kind \in {"table", "vector", "string", "bytes"}
      BY <3>2 DEF IsMessage, Carries, MadeAt
    <3>8. reads(m)
      BY <3>4, <3>5, <3>6, <3>7
    <3> HIDE DEF reads
    <3> QED BY <2>1, <2>5, <3>2, <3>8
  <2> QED BY <2>3, <2>4, <2>5
<1> QED BY <1>1, TableInvariant, PTL DEF TableInv
=============================================================================
