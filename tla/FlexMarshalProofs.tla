-------------------------- MODULE FlexMarshalProofs --------------------------
(***************************************************************************)
(* SerializeBuffer: the bytes it writes for a document that the calls of   *)
(* the Builder have made lead a reader back to its elements, its           *)
(* structures and its widths.  Then Marshal, which calls AutoBuild and     *)
(* SerializeBuffer: what it returns reads as the value it was given.       *)
(***************************************************************************)
EXTENDS FlexMarshal, FlexBuilderProofs

-----------------------------------------------------------------------------
(* Sequences of sequences.                                                 *)

(* f[k] is what the first k sequences of ss come to when they are joined.  *)
Joins(f, ss, T) ==
    /\ f[0] = <<>>
    /\ \A k \in 0..Len(ss) : f[k] \in Seq(T)
    /\ \A k \in 1..Len(ss) : f[k] = f[k - 1] \o ss[k]

LEMMA FlattenIsDefined ==
    ASSUME NEW ss, NEW n \in Nat
    PROVE  \E g : g = [i \in 1..n |-> IF i = 1 THEN ss[i] ELSE g[i - 1] \o ss[i]]
<1> DEFINE solves(g, m) == g = [i \in 1..m |-> IF i = 1 THEN ss[i] ELSE g[i - 1] \o ss[i]]
           T == {m \in 0..n : \E g : solves(g, m)}
<1>1. 0 \in T
  <2>1. solves([i \in 1..0 |-> <<>>], 0)
    OBVIOUS
  <2> HIDE DEF solves
  <2> QED BY <2>1
<1>2. ASSUME NEW m \in 0..(n - 1), m \in T
      PROVE  m + 1 \in T
  <2>1. PICK g : solves(g, m)
    BY <1>2
  <2> DEFINE last == IF m = 0 THEN ss[1] ELSE g[m] \o ss[m + 1]
             h == [i \in 1..(m + 1) |-> IF i = m + 1 THEN last ELSE g[i]]
  <2>2. \A i \in 1..m : g[i] = IF i = 1 THEN ss[i] ELSE g[i - 1] \o ss[i]
    BY <2>1
  <2> HIDE DEF solves, last
  <2>3. h[m + 1] = last /\ \A i \in 1..m : h[i] = g[i]
    OBVIOUS
  <2>4. \A i \in 1..(m + 1) : h[i] = IF i = 1 THEN ss[i] ELSE h[i - 1] \o ss[i]
    <3> SUFFICES ASSUME NEW i \in 1..(m + 1)
                 PROVE  h[i] = IF i = 1 THEN ss[i] ELSE h[i - 1] \o ss[i]
      OBVIOUS
    <3> HIDE DEF h
    <3>1. CASE i = m + 1
      <4>1. m = 0 => i = 1
        BY <3>1
      <4>2. m # 0 => i # 1 /\ i - 1 = m /\ h[m] = g[m]
        BY <2>3, <3>1
      <4> QED BY <2>3, <3>1, <4>1, <4>2 DEF last
    <3>2. CASE i # m + 1
      <4>1. i \in 1..m /\ (i # 1 => i - 1 \in 1..m)
        BY <3>2
      <4> QED BY <2>2, <2>3, <4>1
    <3> QED BY <3>1, <3>2
  <2>5. h = [i \in 1..(m + 1) |-> h[i]]
    OBVIOUS
  <2> HIDE DEF h, last
  <2>6. solves(h, m + 1)
    BY <2>4, <2>5 DEF solves
  <2> QED BY <2>6
<1> HIDE DEF solves
<1>3. n \in T
  <2> HIDE DEF T
  <2> QED BY <1>1, <1>2, UpTo
<1>4. PICK g : solves(g, n)
  BY <1>3
<1> QED BY <1>4 DEF solves

LEMMA Flattened ==
    ASSUME NEW T, NEW ss \in Seq(Seq(T))
    PROVE  \E f : Joins(f, ss, T) /\ f[Len(ss)] = FlattenSeq(ss)
<1> DEFINE n == Len(ss)
           solves(g) == g = [i \in 1..n |-> IF i = 1 THEN ss[i] ELSE g[i - 1] \o ss[i]]
           F == CHOOSE g : solves(g)
           f == [k \in 0..n |-> IF k = 0 THEN <<>> ELSE F[k]]
           typed == {k \in 0..n : f[k] \in Seq(T)}
<1>1. n \in Nat /\ \A k \in 1..n : ss[k] \in Seq(T)
  BY ElementOfSeq, LenProperties
<1>2. FlattenSeq(ss) = IF n = 0 THEN ss ELSE F[n]
  BY DEF FlattenSeq
<1>3. solves(F)
  <2>1. \E g : solves(g)
    BY <1>1, FlattenIsDefined
  <2> HIDE DEF solves
  <2> QED BY <2>1
<1>4. \A i \in 1..n : F[i] = IF i = 1 THEN ss[i] ELSE F[i - 1] \o ss[i]
  <2> HIDE DEF F
  <2> QED BY <1>3
<1> HIDE DEF F, solves
<1>5. f[0] = <<>> /\ \A k \in 1..n : f[k] = F[k]
  BY <1>1
<1> HIDE DEF f
<1>6. \A k \in 1..n : f[k] = f[k - 1] \o ss[k]
  <2> SUFFICES ASSUME NEW k \in 1..n PROVE f[k] = f[k - 1] \o ss[k]
    OBVIOUS
  <2>1. CASE k = 1
    <3>1. <<>> \o ss[k] = ss[k]
      BY <1>1, ConcatEmptySeq
    <3>2. f[k] = ss[k]
      BY <1>4, <1>5, <2>1
    <3>3. f[k - 1] = <<>>
      BY <1>5, <2>1
    <3> QED BY <3>1, <3>2, <3>3
  <2>2. CASE k # 1
    <3>1. k - 1 \in 1..n
      BY <1>1, <2>2
    <3> QED BY <1>4, <1>5, <2>2, <3>1
  <2> QED BY <2>1, <2>2
<1>7. \A k \in 0..n : k \in typed
  <2>1. 0 \in typed
    <3>1. f[0] \in Seq(T)
      BY <1>5
    <3> QED BY <1>1, <3>1
  <2>2. ASSUME NEW k \in 0..(n - 1), k \in typed PROVE k + 1 \in typed
    <3>1. k + 1 \in 1..n /\ (k + 1) - 1 = k
      BY <1>1
    <3>2. f[k + 1] = f[k] \o ss[k + 1]
      BY <1>6, <3>1
    <3>3. f[k] \in Seq(T) /\ ss[k + 1] \in Seq(T)
      BY <1>1, <2>2, <3>1
    <3>4. f[k + 1] \in Seq(T)
      BY <3>2, <3>3
    <3> QED BY <3>1, <3>4
  <2> HIDE DEF typed
  <2> QED BY <1>1, <2>1, <2>2, UpTo
<1>8. Joins(f, ss, T)
  BY <1>5, <1>6, <1>7 DEF Joins
<1>9. f[n] = FlattenSeq(ss)
  <2>1. CASE n = 0
    <3>1. ss = <<>>
      BY <1>1, <2>1, EmptySeq
    <3> QED BY <1>2, <1>5, <2>1, <3>1
  <2>2. CASE n # 0
    BY <1>1, <1>2, <1>5, <2>2
  <2> QED BY <2>1, <2>2
<1> QED BY <1>8, <1>9

(* The sequence r is made of the sequences of ss, the k-th behind at[k].   *)
Pieces(r, ss, at) ==
    /\ \A k \in 1..Len(ss) : at[k] \in Nat
    /\ Len(ss) > 0 => at[1] = 0
    /\ \A k \in 2..Len(ss) : at[k] = at[k - 1] + Len(ss[k - 1])
    /\ Len(r) = IF Len(ss) = 0 THEN 0 ELSE at[Len(ss)] + Len(ss[Len(ss)])
    /\ \A k \in 1..Len(ss) : \A l \in 1..Len(ss[k]) :
          at[k] + l \in 1..Len(r) /\ r[at[k] + l] = ss[k][l]
    /\ \A j \in 1..Len(r) : \E k \in 1..Len(ss) : \E l \in 1..Len(ss[k]) : j = at[k] + l

LEMMA FlattenedPieces ==
    ASSUME NEW T, NEW ss \in Seq(Seq(T))
    PROVE  FlattenSeq(ss) \in Seq(T) /\ \E at : Pieces(FlattenSeq(ss), ss, at)
<1>1. PICK f : Joins(f, ss, T) /\ f[Len(ss)] = FlattenSeq(ss)
  BY Flattened
<1> DEFINE n == Len(ss)
           r == FlattenSeq(ss)
           at == [k \in 1..n |-> Len(f[k - 1])]
           finds(m) == \A k \in 1..m : \A l \in 1..Len(ss[k]) :
                          at[k] + l \in 1..Len(f[m]) /\ f[m][at[k] + l] = ss[k][l]
           covers(m) == \A j \in 1..Len(f[m]) :
                          \E k \in 1..m : \E l \in 1..Len(ss[k]) : j = at[k] + l
           good == {m \in 0..n : finds(m) /\ covers(m)}
<1>2. n \in Nat /\ f[n] = r
  BY <1>1, LenProperties
<1>3. \A k \in 1..n : ss[k] \in Seq(T) /\ Len(ss[k]) \in Nat
  BY ElementOfSeq, LenProperties
<1>4. /\ f[0] = <<>>
      /\ \A k \in 0..n : f[k] \in Seq(T) /\ Len(f[k]) \in Nat
      /\ \A k \in 1..n : f[k] = f[k - 1] \o ss[k]
  <2>1. /\ f[0] = <<>>
        /\ \A k \in 0..n : f[k] \in Seq(T)
        /\ \A k \in 1..n : f[k] = f[k - 1] \o ss[k]
    BY <1>1 DEF Joins
  <2> QED BY <2>1, LenProperties
<1> HIDE DEF r
<1>5. ASSUME NEW k \in 1..n
      PROVE  /\ Len(f[k]) = Len(f[k - 1]) + Len(ss[k])
             /\ \A i \in 1..Len(f[k]) : f[k][i] = IF i <= Len(f[k - 1]) THEN f[k - 1][i]
                                                  ELSE ss[k][i - Len(f[k - 1])]
  <2>1. k - 1 \in 0..n
    BY <1>2
  <2>2. f[k - 1] \in Seq(T) /\ ss[k] \in Seq(T) /\ f[k] = f[k - 1] \o ss[k]
    BY <1>3, <1>4, <2>1
  <2> HIDE DEF n
  <2> DEFINE x == f[k - 1]
             y == ss[k]
  <2>3. x \in Seq(T) /\ y \in Seq(T) /\ f[k] = x \o y
    BY <2>2
  <2> HIDE DEF x, y
  <2>4. /\ Len(x \o y) = Len(x) + Len(y)
        /\ \A i \in 1..(Len(x) + Len(y)) : (x \o y)[i] = IF i <= Len(x) THEN x[i] ELSE y[i - Len(x)]
    BY <2>3, ConcatProperties
  <2> QED BY <2>3, <2>4 DEF x, y
<1> HIDE DEF n
<1>6. \A k \in 1..n : at[k] = Len(f[k - 1]) /\ k - 1 \in 0..n /\ at[k] \in Nat
  BY <1>2, <1>4
<1> HIDE DEF at
<1>7. 0 \in good
  <2>1. Len(f[0]) = 0
    BY <1>4, EmptySeq
  <2> QED BY <1>2, <2>1
<1>8. ASSUME NEW m \in 0..(n - 1), m \in good
      PROVE  m + 1 \in good
  <2>1. /\ m \in Nat /\ m + 1 \in 1..n /\ (m + 1) - 1 = m /\ m \in 0..n /\ m + 1 \in 0..n
        /\ at[m + 1] = Len(f[m]) /\ Len(f[m]) \in Nat /\ Len(ss[m + 1]) \in Nat
    BY <1>2, <1>3, <1>4, <1>6
  <2>2. /\ Len(f[m + 1]) = Len(f[m]) + Len(ss[m + 1])
        /\ \A i \in 1..Len(f[m + 1]) : f[m + 1][i] = IF i <= Len(f[m]) THEN f[m][i]
                                                     ELSE ss[m + 1][i - Len(f[m])]
    BY <1>5, <2>1
  <2>3. finds(m) /\ covers(m)
    BY <1>8
  <2>4. PICK a \in Nat, d \in Nat : a = Len(f[m]) /\ d = Len(ss[m + 1]) /\ Len(f[m + 1]) = a + d
                                    /\ at[m + 1] = a
    BY <2>1, <2>2
  <2>5. ASSUME NEW k \in 1..(m + 1), NEW l \in 1..Len(ss[k])
        PROVE  at[k] + l \in 1..Len(f[m + 1]) /\ f[m + 1][at[k] + l] = ss[k][l]
    <3>1. CASE k = m + 1
      <4>1. l \in 1..d
        BY <2>4, <3>1
      <4>2. a + l \in 1..(a + d) /\ ~(a + l <= a) /\ (a + l) - a = l
        BY <4>1
      <4>3. f[m + 1][a + l] = ss[m + 1][l]
        BY <2>2, <2>4, <4>2
      <4> QED BY <2>4, <3>1, <4>2, <4>3
    <3>2. CASE k # m + 1
      <4>1. k \in 1..m
        BY <2>1, <3>2
      <4>2. at[k] + l \in 1..a /\ f[m][at[k] + l] = ss[k][l]
        BY <2>3, <2>4, <4>1
      <4>3. at[k] + l \in 1..(a + d) /\ at[k] + l <= a
        BY <4>2
      <4> QED BY <2>2, <2>4, <4>2, <4>3
    <3> QED BY <3>1, <3>2
  <2>6. ASSUME NEW j \in 1..Len(f[m + 1])
        PROVE  \E k \in 1..(m + 1) : \E l \in 1..Len(ss[k]) : j = at[k] + l
    <3>0. j \in 1..(a + d)
      BY <2>4
    <3>1. CASE j <= a
      <4>0. j \in 1..Len(f[m])
        BY <2>4, <3>0, <3>1
      <4>1. PICK k \in 1..m : \E l \in 1..Len(ss[k]) : j = at[k] + l
        BY <2>3, <4>0
      <4>2. k \in 1..(m + 1)
        BY <2>1
      <4> QED BY <4>1, <4>2
    <3>2. CASE ~(j <= a)
      <4>1. j - a \in 1..d /\ j = a + (j - a)
        BY <3>0, <3>2
      <4>2. m + 1 \in 1..(m + 1)
        BY <2>1
      <4>3. j - a \in 1..Len(ss[m + 1]) /\ j = at[m + 1] + (j - a)
        BY <2>4, <4>1
      <4> QED BY <4>2, <4>3
    <3> QED BY <3>1, <3>2
  <2>7. finds(m + 1) /\ covers(m + 1)
    BY <2>5, <2>6
  <2> QED BY <2>1, <2>7
<1>9. n \in good
  <2> HIDE DEF good
  <2>1. \A m \in 0..n : m \in good
    BY <1>2, <1>7, <1>8, UpTo
  <2> QED BY <1>2, <2>1
<1>10. finds(n) /\ covers(n)
  BY <1>9
<1>11. Len(r) = IF n = 0 THEN 0 ELSE at[n] + Len(ss[n])
  <2>1. CASE n = 0
    BY <1>2, <1>4, <2>1, EmptySeq
  <2>2. CASE n # 0
    <3>1. n \in 1..n
      BY <1>2, <2>2
    <3>2. Len(f[n]) = Len(f[n - 1]) + Len(ss[n]) /\ at[n] = Len(f[n - 1])
      BY <1>5, <1>6, <3>1
    <3> QED BY <1>2, <2>2, <3>2
  <2> QED BY <2>1, <2>2
<1>12. n > 0 => at[1] = 0
  <2>1. n > 0 => at[1] = Len(f[0])
    BY <1>2, <1>6
  <2> QED BY <1>4, <2>1, EmptySeq
<1>13. ASSUME NEW k \in 2..n
       PROVE  at[k] = at[k - 1] + Len(ss[k - 1])
  <2>1. k \in 1..n /\ k - 1 \in 1..n
    BY <1>2
  <2> QED BY <1>5, <1>6, <2>1
<1>14. Pieces(r, ss, at)
  BY <1>2, <1>6, <1>10, <1>11, <1>12, <1>13 DEF Pieces, n
<1>15. r \in Seq(T)
  BY <1>2, <1>4
<1> QED BY <1>14, <1>15 DEF r

-----------------------------------------------------------------------------
(* The document, as its serialization sees it.                             *)

DocInv == structs \in Seq(Structure) /\ IsTree(structs) /\ ToldInv /\ RootInv /\ Len(structs) > 0

ChildOf(id, x) == Owns(structs[id].children, x)

LEMMA DocFacts ==
    ASSUME DocInv
    PROVE  /\ Len(structs) \in Nat /\ DOMAIN structs = 1..Len(structs)
           /\ \A id \in 1..Len(structs) :
                 /\ structs[id] \in Structure /\ KeysTold(structs[id]) /\ Linked(structs[id])
                 /\ structs[id].elems \in Seq(Elem) /\ structs[id].keys \in Seq(Key)
                 /\ structs[id].children \in Seq(Nat)
                 /\ Len(structs[id].elems) \in Nat /\ Len(structs[id].keys) \in Nat
                 /\ Len(structs[id].children) \in Nat
                 /\ DOMAIN structs[id].elems = 1..Len(structs[id].elems)
                 /\ DOMAIN structs[id].keys = 1..Len(structs[id].keys)
                 /\ DOMAIN structs[id].children = 1..Len(structs[id].children)
<1>1. Len(structs) \in Nat /\ DOMAIN structs = 1..Len(structs)
  BY LenProperties DEF DocInv
<1>2. \A id \in 1..Len(structs) :
         structs[id] \in Structure /\ KeysTold(structs[id]) /\ Linked(structs[id])
  BY ElementOfSeq DEF DocInv, ToldInv, Told
<1>3. \A id \in 1..Len(structs) :
         /\ structs[id].elems \in Seq(Elem) /\ structs[id].keys \in Seq(Key)
         /\ structs[id].children \in Seq(Nat)
  BY <1>2 DEF Structure
<1> QED BY <1>1, <1>2, <1>3, LenProperties

(* A child is younger than its parent, which is its only one and has it    *)
(* once.                                                                   *)
LEMMA ChildFacts ==
    ASSUME DocInv, NEW id \in 1..Len(structs), NEW x, ChildOf(id, x)
    PROVE  /\ x \in (id + 1)..Len(structs)
           /\ \A y \in 1..Len(structs) : ChildOf(y, x) => y = id
           /\ \A c, d \in 1..Len(structs[id].children) :
                 structs[id].children[c] = x /\ structs[id].children[d] = x => c = d
           /\ IsParent(structs, id, x)
<1>1. /\ Len(structs) \in Nat /\ structs[id].children \in Seq(Nat) /\ BehindRoot(structs[id].children)
      /\ Len(structs[id].children) \in Nat /\ IsTree(structs)
  BY DocFacts DEF Linked, DocInv
<1>2. x \in Nat /\ x > 1
  BY <1>1, ElementOfSeq DEF ChildOf, Owns, BehindRoot, Root
<1>3. Mentions(structs[id], x)
  BY DEF ChildOf, Mentions
<1>4. x \in 2..Len(structs)
  BY <1>1, <1>2, <1>3 DEF IsTree
<1>5. PICK p \in 1..(x - 1) : IsParent(structs, p, x)
  BY <1>1, <1>4 DEF IsTree
<1>6. p \in 1..Len(structs)
  BY <1>1, <1>4
<1>7. \A y \in 1..Len(structs) : Mentions(structs[y], x) => y = p
  BY <1>5 DEF IsParent
<1>8. id = p
  BY <1>3, <1>7
<1>9. \A y \in 1..Len(structs) : ChildOf(y, x) => y = id
  BY <1>7, <1>8 DEF ChildOf, Mentions
<1>10. OwnsOnce(structs[id].children, x)
  BY <1>5, <1>8 DEF IsParent
<1>11. x \in (id + 1)..Len(structs)
  BY <1>1, <1>4, <1>5, <1>8
<1> QED BY <1>5, <1>8, <1>9, <1>10, <1>11 DEF OwnsOnce

(* What an offset leads to is a child of the structure around it.          *)
LEMMA TargetFacts ==
    ASSUME DocInv, NEW id \in 1..Len(structs), NEW i \in 1..Len(structs[id].elems),
           ~isInline(structs[id].elems[i].type)
    PROVE  /\ ChildOf(id, structs[id].elems[i].target)
           /\ \A y \in 1..Len(structs) : \A j \in 1..Len(structs[y].elems) :
                 structs[y].elems[j].target = structs[id].elems[i].target => y = id /\ j = i
<1> DEFINE x == structs[id].elems[i].target
<1>1. /\ Len(structs) \in Nat /\ structs[id].elems \in Seq(Elem) /\ AllSound(structs[id].elems)
      /\ IsTree(structs)
  BY DocFacts DEF Linked, DocInv
<1>2. x \in Nat /\ x # 0 /\ x # 1
  <2>1. structs[id].elems[i] \in Elem
    BY <1>1, ElementOfSeq
  <2>2. Sound(structs[id].elems[i])
    BY <1>1 DEF AllSound
  <2> QED BY <2>1, <2>2 DEF Sound, Root, NoStruct, Elem
<1>3. Mentions(structs[id], x)
  BY DEF Mentions, RefersTo
<1> HIDE DEF x
<1>4. x \in 2..Len(structs)
  BY <1>1, <1>2, <1>3 DEF IsTree
<1>5. PICK p \in 1..(x - 1) : IsParent(structs, p, x)
  BY <1>1, <1>4 DEF IsTree
<1>6. \A y \in 1..Len(structs) : Mentions(structs[y], x) => y = p
  BY <1>5 DEF IsParent
<1>7. id = p
  BY <1>3, <1>6
<1>8. RefersOnce(structs[id].elems, x, structs[x].vType) /\ OwnsOnce(structs[id].children, x)
  BY <1>5, <1>7 DEF IsParent
<1>9. ChildOf(id, x)
  BY <1>8 DEF OwnsOnce, ChildOf, Owns
<1>10. ASSUME NEW y \in 1..Len(structs), NEW j \in 1..Len(structs[y].elems),
              structs[y].elems[j].target = x
       PROVE  y = id /\ j = i
  <2>1. Mentions(structs[y], x)
    BY <1>10 DEF Mentions, RefersTo
  <2>2. y = id
    BY <1>6, <1>7, <2>1
  <2>3. structs[id].elems[i].target = x
    BY DEF x
  <2> QED BY <1>8, <1>10, <2>2, <2>3 DEF RefersOnce
<1> QED BY <1>9, <1>10 DEF x

-----------------------------------------------------------------------------
(* The order of the parts.                                                 *)

LEMMA DownFrom ==
    ASSUME NEW N \in Nat, NEW T, \A n \in 1..N : (\A k \in (n + 1)..N : k \in T) => n \in T
    PROVE  \A n \in 1..N : n \in T
<1> SUFFICES ASSUME NEW n \in 1..N, n \notin T PROVE FALSE
  OBVIOUS
<1> DEFINE missing == {m \in 0..N : (N - m) \in 1..N /\ (N - m) \notin T}
<1>1. missing \subseteq Nat
  OBVIOUS
<1>2. N - n \in missing
  <2>1. N - n \in 0..N /\ N - (N - n) = n
    OBVIOUS
  <2> QED BY <2>1
<1>3. PICK m \in missing : \A k \in missing : m <= k
  BY <1>1, <1>2, LeastNat
<1>4. m \in 0..N /\ (N - m) \in 1..N /\ (N - m) \notin T
  BY <1>3
<1>5. PICK k \in ((N - m) + 1)..N : k \notin T
  BY <1>4
<1>6. /\ N - k \in 0..N /\ N - (N - k) = k /\ k \in 1..N /\ N - k < m
  BY <1>4, <1>5
<1>7. N - k \in missing
  BY <1>5, <1>6
<1> QED BY <1>3, <1>4, <1>6, <1>7

InnerOf(F, id) == [c \in DOMAIN structs[id].children |-> F[structs[id].children[c]]]
OrderBy(F, id) == FlattenSeq(InnerOf(F, id)) \o KeyParts(id) \o <<WholeOf(id)>>

LEMMA OrderLooksBehind ==
    ASSUME DocInv, NEW id \in 1..Len(structs), NEW f, NEW g,
           \A x \in (id + 1)..Len(structs) : f[x] = g[x]
    PROVE  OrderBy(f, id) = OrderBy(g, id)
<1>1. DOMAIN structs[id].children = 1..Len(structs[id].children)
  BY DocFacts
<1>2. \A c \in DOMAIN structs[id].children : structs[id].children[c] \in (id + 1)..Len(structs)
  BY <1>1, ChildFacts DEF ChildOf, Owns
<1>3. InnerOf(f, id) = InnerOf(g, id)
  BY <1>2 DEF InnerOf
<1> QED BY <1>3 DEF OrderBy

LEMMA InnerFirstIs ==
    ASSUME DocInv
    PROVE  \A id \in 1..Len(structs) : InnerFirst[id] = OrderBy(InnerFirst, id)
<1> DEFINE N == Len(structs)
           orders(g, n) == \A id \in n..N : g[id] = OrderBy(g, id)
           T == {n \in 1..N : \E g : orders(g, n)}
           solves(g) == g = [id \in 1..N |-> OrderBy(g, id)]
<1>1. N \in Nat /\ DOMAIN structs = 1..N /\ N > 0
  BY DocFacts DEF DocInv
<1>2. ASSUME NEW n \in 1..N, \A k \in (n + 1)..N : k \in T
      PROVE  n \in T
  <2>1. PICK g : orders(g, n + 1)
    <3>1. CASE n = N
      <4>1. orders(0, n + 1)
        BY <1>1, <3>1
      <4> HIDE DEF orders
      <4> QED BY <4>1
    <3>2. CASE n # N
      <4>1. n + 1 \in (n + 1)..N
        <5>1. N \in Nat
          BY <1>1
        <5> HIDE DEF N
        <5> QED BY <3>2, <5>1
      <4>2. n + 1 \in T
        <5> HIDE DEF T
        <5> QED BY <1>2, <4>1
      <4> QED BY <4>2
    <3> QED BY <3>1, <3>2
  <2> DEFINE h == [id \in 1..N |-> IF id = n THEN OrderBy(g, n) ELSE g[id]]
  <2>2. h[n] = OrderBy(g, n) /\ \A x \in (n + 1)..N : h[x] = g[x]
    BY <1>1
  <2> HIDE DEF h
  <2>3. ASSUME NEW id \in n..N
        PROVE  h[id] = OrderBy(h, id)
    <3>1. id \in 1..Len(structs) /\ \A x \in (id + 1)..Len(structs) : h[x] = g[x]
      BY <1>1, <2>2
    <3>2. OrderBy(h, id) = OrderBy(g, id)
      BY <3>1, OrderLooksBehind
    <3>3. CASE id = n
      BY <2>2, <3>2, <3>3
    <3>4. CASE id # n
      <4>1. id \in (n + 1)..N
        BY <1>1, <3>4
      <4> QED BY <2>1, <2>2, <3>2, <4>1
    <3> QED BY <3>3, <3>4
  <2>4. orders(h, n)
    BY <2>3
  <2> HIDE DEF orders
  <2> QED BY <2>4
<1>3. 1 \in T
  <2> HIDE DEF T
  <2>1. \A n \in 1..N : n \in T
    BY <1>1, <1>2, DownFrom
  <2> QED BY <1>1, <2>1
<1>4. \E g : solves(g)
  <2>1. PICK g : orders(g, 1)
    BY <1>3
  <2> DEFINE h == [id \in 1..N |-> g[id]]
  <2>2. \A x \in 1..N : h[x] = g[x]
    OBVIOUS
  <2>3. h = [id \in 1..N |-> h[id]]
    OBVIOUS
  <2> HIDE DEF h
  <2>4. \A id \in 1..N : h[id] = OrderBy(h, id)
    <3> TAKE id \in 1..N
    <3>1. \A x \in (id + 1)..Len(structs) : h[x] = g[x]
      BY <1>1, <2>2
    <3>2. OrderBy(h, id) = OrderBy(g, id)
      BY <3>1, OrderLooksBehind
    <3> QED BY <2>1, <2>2, <3>2
  <2>5. solves(h)
    BY <2>3, <2>4
  <2> HIDE DEF solves
  <2> QED BY <2>5
<1>5. InnerFirst = CHOOSE g : solves(g)
  BY <1>1 DEF InnerFirst, OrderBy, InnerOf
<1>6. solves(InnerFirst)
  <2> HIDE DEF solves
  <2> QED BY <1>4, <1>5
<1> QED BY <1>6

AnyPart == Nat \X Int

(* What can be written in one piece.                                       *)
IsPart(p) ==
    /\ p \in AnyPart /\ p[1] \in 1..Len(structs)
    /\ \/ p[2] = 0
       \/ IsMap(structs[p[1]]) /\ p[2] = KeyVector
       \/ /\ IsMap(structs[p[1]])
          /\ \E i \in 1..Len(structs[p[1]].keys) : p[2] = structs[p[1]].keys[i].obj

(* What has to be written before p.                                        *)
Needs(p, q) ==
    \/ IsWhole(p) /\ \E i \in 1..Len(Of(p).elems) :
          ~isInline(Of(p).elems[i].type) /\ q = WholeOf(Of(p).elems[i].target)
    \/ IsWhole(p) /\ IsMap(Of(p)) /\ q = KeysOf(p[1])
    \/ IsKeyVector(p) /\ \E i \in 1..Len(Of(p).keys) : q = <<p[1], Of(p).keys[i].obj>>

Closed(r) == \A j \in 1..Len(r) : \A q : Needs(r[j], q) => \E k \in 1..(j - 1) : r[k] = q
Once(r) == \A j, k \in 1..Len(r) : r[j] = r[k] => j = k

(* The parts are those of id and of what is inside it.                     *)
Below(r, id) ==
    \A j \in 1..Len(r) :
        /\ r[j][1] >= id
        /\ r[j][1] # id =>
              \E k \in 1..Len(r) : r[k][1] < r[j][1] /\ ChildOf(r[k][1], r[j][1])

(* The keys of a map stand before their vector.                            *)
KeysBefore(r) ==
    \A j \in 1..Len(r) : IsKeyVector(r[j]) =>
        LET keys == Of(r[j]).keys IN
        /\ Len(keys) < j
        /\ \A i \in 1..Len(keys) : r[(j - 1) - Len(keys) + i] = <<r[j][1], keys[i].obj>>

(* The vector of its keys stands right before a map.                       *)
VectorBefore(r) ==
    \A j \in 1..Len(r) : IsWhole(r[j]) /\ IsMap(Of(r[j])) =>
        j > 1 /\ r[j - 1] = KeysOf(r[j][1])

Good(r, id) ==
    /\ r \in Seq(AnyPart) /\ \A j \in 1..Len(r) : IsPart(r[j])
    /\ Closed(r) /\ Once(r) /\ Below(r, id) /\ KeysBefore(r) /\ VectorBefore(r)
    /\ Len(r) \in Nat \ {0} /\ r[Len(r)] = WholeOf(id)

LEMMA KeyPartsAre ==
    ASSUME DocInv, NEW id \in 1..Len(structs)
    PROVE  /\ KeyParts(id) \in Seq(AnyPart)
           /\ ~IsMap(structs[id]) => Len(KeyParts(id)) = 0
           /\ IsMap(structs[id]) =>
                 /\ Len(KeyParts(id)) = Len(structs[id].keys) + 1
                 /\ KeyParts(id)[Len(structs[id].keys) + 1] = KeysOf(id)
                 /\ \A i \in 1..Len(structs[id].keys) :
                       KeyParts(id)[i] = <<id, structs[id].keys[i].obj>>
<1>1. CASE ~IsMap(structs[id])
  BY <1>1 DEF KeyParts
<1>2. CASE IsMap(structs[id])
  <2> DEFINE keys == structs[id].keys
             n == Len(keys)
             k == [i \in 1..n |-> <<id, keys[i].obj>>]
  <2>1. n \in Nat /\ keys \in Seq(Key) /\ DOMAIN keys = 1..n
    BY DocFacts
  <2> HIDE DEF keys, n
  <2>2. \A i \in 1..n : <<id, keys[i].obj>> \in AnyPart
    <3> TAKE i \in 1..n
    <3>1. keys[i] \in Key
      BY <2>1, ElementOfSeq DEF n
    <3> QED BY <3>1, DocFacts DEF AnyPart, Key
  <2>3. k \in Seq(AnyPart) /\ Len(k) = n /\ \A i \in 1..n : k[i] = <<id, keys[i].obj>>
    BY <2>1, <2>2
  <2> HIDE DEF k
  <2>4. KeyParts(id) = k \o <<KeysOf(id)>>
    BY <1>2, <2>1 DEF KeyParts, keys, k
  <2>5. <<KeysOf(id)>> \in Seq(AnyPart) /\ Len(<<KeysOf(id)>>) = 1 /\ <<KeysOf(id)>>[1] = KeysOf(id)
    BY DocFacts DEF AnyPart, KeysOf, KeyVector
  <2>6. /\ KeyParts(id) \in Seq(AnyPart) /\ Len(KeyParts(id)) = n + 1
        /\ \A i \in 1..(n + 1) : KeyParts(id)[i] = IF i <= n THEN k[i] ELSE <<KeysOf(id)>>[i - n]
    BY <2>3, <2>4, <2>5, ConcatProperties
  <2>7. KeyParts(id)[n + 1] = KeysOf(id)
    BY <2>1, <2>5, <2>6
  <2>8. \A i \in 1..n : KeyParts(id)[i] = <<id, keys[i].obj>>
    BY <2>1, <2>3, <2>6
  <2> QED BY <1>2, <2>6, <2>7, <2>8 DEF n, keys
<1> QED BY <1>1, <1>2

(* r consists of the sequences of ss, the keys of id and id.               *)
Composed(r, ss, at, a, n, id) ==
    /\ a \in Nat /\ n \in Nat /\ n = Len(KeyParts(id))
    /\ r \in Seq(AnyPart) /\ Len(r) = a + n + 1
    /\ \A k \in 1..Len(ss) : at[k] \in Nat
    /\ \A k \in 1..Len(ss) : \A l \in 1..Len(ss[k]) : at[k] + l \in 1..a /\ r[at[k] + l] = ss[k][l]
    /\ \A j \in 1..a : \E k \in 1..Len(ss) : \E l \in 1..Len(ss[k]) : j = at[k] + l
    /\ \A l \in 1..n : r[a + l] = KeyParts(id)[l]
    /\ r[a + n + 1] = WholeOf(id)

LEMMA OrderIsComposed ==
    ASSUME DocInv, NEW id \in 1..Len(structs), NEW F,
           \A c \in 1..Len(structs[id].children) : F[structs[id].children[c]] \in Seq(AnyPart)
    PROVE  /\ Len(InnerOf(F, id)) = Len(structs[id].children)
           /\ \A c \in 1..Len(structs[id].children) :
                 InnerOf(F, id)[c] = F[structs[id].children[c]]
           /\ \E at, a, n : Composed(OrderBy(F, id), InnerOf(F, id), at, a, n, id)
<1> DEFINE ss == InnerOf(F, id)
           m == Len(structs[id].children)
           f == FlattenSeq(ss)
           kp == KeyParts(id)
           w == <<WholeOf(id)>>
           n == Len(kp)
<1>1. m \in Nat /\ DOMAIN structs[id].children = 1..m
  BY DocFacts
<1>2. ss = [c \in 1..m |-> F[structs[id].children[c]]]
  BY <1>1 DEF InnerOf
<1> HIDE DEF ss
<1>3. ss \in Seq(Seq(AnyPart)) /\ Len(ss) = m /\ \A c \in 1..m : ss[c] = F[structs[id].children[c]]
  BY <1>1, <1>2
<1>4. f \in Seq(AnyPart) /\ \E at : Pieces(f, ss, at)
  BY <1>3, FlattenedPieces
<1>5. kp \in Seq(AnyPart)
  BY KeyPartsAre
<1>6. w \in Seq(AnyPart) /\ Len(w) = 1 /\ w[1] = WholeOf(id)
  BY DocFacts DEF AnyPart, WholeOf
<1>7. PICK at : Pieces(f, ss, at)
  BY <1>4
<1> DEFINE a == Len(f)
           fk == f \o kp
           r == fk \o w
<1> HIDE DEF f, kp, w
<1>8. a \in Nat /\ n \in Nat
  BY <1>4, <1>5, LenProperties
<1>9. /\ fk \in Seq(AnyPart) /\ Len(fk) = a + n
      /\ \A j \in 1..(a + n) : fk[j] = IF j <= a THEN f[j] ELSE kp[j - a]
  BY <1>4, <1>5, ConcatProperties
<1> HIDE DEF fk, a, n
<1>10. /\ r \in Seq(AnyPart) /\ Len(r) = (a + n) + 1
       /\ \A j \in 1..((a + n) + 1) : r[j] = IF j <= a + n THEN fk[j] ELSE w[j - (a + n)]
  <2>1. /\ r \in Seq(AnyPart) /\ Len(r) = Len(fk) + Len(w)
        /\ \A j \in 1..(Len(fk) + Len(w)) : r[j] = IF j <= Len(fk) THEN fk[j] ELSE w[j - Len(fk)]
    BY <1>6, <1>9, ConcatProperties
  <2> HIDE DEF r
  <2> QED BY <1>6, <1>8, <1>9, <2>1
<1> HIDE DEF r
<1>11. \A j \in 1..a : r[j] = f[j]
  <2> TAKE j \in 1..a
  <2>1. j \in 1..(a + n) /\ j \in 1..((a + n) + 1) /\ j <= a + n
    BY <1>8
  <2> QED BY <1>9, <1>10, <2>1
<1>12. \A l \in 1..n : r[a + l] = kp[l]
  <2> TAKE l \in 1..n
  <2>1. a + l \in 1..(a + n) /\ ~(a + l <= a) /\ (a + l) - a = l /\ a + l \in 1..((a + n) + 1)
        /\ a + l <= a + n
    BY <1>8
  <2> QED BY <1>9, <1>10, <2>1
<1>13. r[a + n + 1] = WholeOf(id)
  <2>1. /\ a + n + 1 \in 1..((a + n) + 1) /\ ~(a + n + 1 <= a + n)
        /\ (a + n + 1) - (a + n) = 1
    BY <1>8
  <2> QED BY <1>6, <1>10, <2>1
<1>14. /\ \A k \in 1..Len(ss) : at[k] \in Nat
       /\ \A k \in 1..Len(ss) : \A l \in 1..Len(ss[k]) : at[k] + l \in 1..a /\ r[at[k] + l] = ss[k][l]
       /\ \A j \in 1..a : \E k \in 1..Len(ss) : \E l \in 1..Len(ss[k]) : j = at[k] + l
  BY <1>7, <1>11 DEF Pieces, a
<1>15. Composed(r, ss, at, a, n, id)
  BY <1>8, <1>10, <1>12, <1>13, <1>14 DEF Composed, n, kp
<1>16. r = OrderBy(F, id)
  BY DEF r, fk, f, ss, kp, w, OrderBy
<1> QED BY <1>3, <1>15, <1>16 DEF ss

Apart(r, s) == \A j \in 1..Len(r), k \in 1..Len(s) : r[j][1] # s[k][1]

(* What is inside a structure is inside one of its children only.          *)
LEMMA SiblingsApart ==
    ASSUME DocInv, NEW id \in 1..Len(structs),
           NEW c \in 1..Len(structs[id].children), NEW d \in 1..Len(structs[id].children), c # d,
           NEW r, NEW s, Good(r, structs[id].children[c]), Good(s, structs[id].children[d])
    PROVE  Apart(r, s)
<1> DEFINE x == structs[id].children[c]
           y == structs[id].children[d]
           common == {z \in Nat : /\ \E j \in 1..Len(r) : r[j][1] = z
                                  /\ \E k \in 1..Len(s) : s[k][1] = z}
<1>1. Good(r, x) /\ Good(s, y) /\ ChildOf(id, x) /\ ChildOf(id, y)
  BY DEF ChildOf, Owns
<1>2. x # y
  BY <1>1, ChildFacts
<1> HIDE DEF x, y
<1>3. x > id /\ y > id /\ x \in Nat /\ y \in Nat
  <2>1. x > id /\ y > id /\ x \in 1..Len(structs) /\ y \in 1..Len(structs)
    BY <1>1, ChildFacts
  <2>2. Len(structs) \in Nat
    BY DocFacts
  <2> QED BY <2>1, <2>2
<1>4. /\ \A j \in 1..Len(r) : r[j][1] \in 1..Len(structs)
      /\ \A k \in 1..Len(s) : s[k][1] \in 1..Len(structs)
  BY <1>1 DEF Good, IsPart
<1>5. Below(r, x) /\ Below(s, y)
  BY <1>1 DEF Good
<1>6. \A v, w, z \in 1..Len(structs) : ChildOf(v, z) /\ ChildOf(w, z) => v = w
  BY ChildFacts
<1> SUFFICES ASSUME NEW j0 \in 1..Len(r), NEW k0 \in 1..Len(s), r[j0][1] = s[k0][1]
             PROVE  FALSE
  BY DEF Apart
<1>15. \A j \in 1..Len(r) : r[j][1] \in Nat
  <2>1. Len(structs) \in Nat
    BY DocFacts
  <2>2. 1..Len(structs) \subseteq Nat
    BY <2>1
  <2> QED BY <1>4, <2>2, Zenon
<1>16. \A j \in 1..Len(r), k \in 1..Len(s) : r[j][1] = s[k][1] => r[j][1] \in common
  BY <1>15
<1>7. common # {} /\ common \subseteq Nat
  BY <1>16
<1>8. PICK z \in common : \A w \in common : z <= w
  BY <1>7, LeastNat
<1>9. PICK j \in 1..Len(r) : r[j][1] = z
  BY <1>8
<1>10. PICK k \in 1..Len(s) : s[k][1] = z
  BY <1>8
<1> HIDE DEF common
<1>11. z \in 1..Len(structs) /\ id \in Nat /\ Len(structs) \in Nat
  BY <1>4, <1>9, DocFacts
<1>12. CASE z = x
  <2>1. PICK m \in 1..Len(s) : s[m][1] < z /\ ChildOf(s[m][1], z)
    BY <1>2, <1>5, <1>10, <1>12 DEF Below
  <2>2. s[m][1] >= y /\ s[m][1] \in 1..Len(structs)
    BY <1>4, <1>5 DEF Below
  <2>3. s[m][1] = id
    BY <1>1, <1>6, <1>11, <1>12, <2>1, <2>2
  <2> QED BY <1>3, <1>11, <2>2, <2>3
<1>13. CASE z = y
  <2>1. PICK m \in 1..Len(r) : r[m][1] < z /\ ChildOf(r[m][1], z)
    BY <1>2, <1>5, <1>9, <1>13 DEF Below
  <2>2. r[m][1] >= x /\ r[m][1] \in 1..Len(structs)
    BY <1>4, <1>5 DEF Below
  <2>3. r[m][1] = id
    BY <1>1, <1>6, <1>11, <1>13, <2>1, <2>2
  <2> QED BY <1>3, <1>11, <2>2, <2>3
<1>14. CASE z # x /\ z # y
  <2>1. PICK m \in 1..Len(r) : r[m][1] < z /\ ChildOf(r[m][1], z)
    BY <1>5, <1>9, <1>14 DEF Below
  <2>2. PICK n \in 1..Len(s) : s[n][1] < z /\ ChildOf(s[n][1], z)
    BY <1>5, <1>10, <1>14 DEF Below
  <2>3. r[m][1] \in 1..Len(structs) /\ s[n][1] \in 1..Len(structs)
    BY <1>4
  <2>4. r[m][1] = s[n][1]
    BY <1>6, <1>11, <2>1, <2>2, <2>3
  <2>5. r[m][1] \in common
    BY <1>16, <2>4
  <2>6. z <= r[m][1] /\ r[m][1] \in Nat /\ z \in Nat
    BY <1>7, <1>8, <1>15, <2>5
  <2> QED BY <2>1, <2>6
<1> QED BY <1>12, <1>13, <1>14

(* What a part needs is inside it.                                         *)
LEMMA NeedsInside ==
    ASSUME DocInv, NEW p, IsPart(p), NEW q, Needs(p, q)
    PROVE  \/ IsWhole(p) /\ \E c \in 1..Len(Of(p).children) : q = WholeOf(Of(p).children[c])
           \/ IsWhole(p) /\ IsMap(Of(p)) /\ q = KeysOf(p[1])
           \/ /\ IsKeyVector(p) /\ IsMap(Of(p))
              /\ \E i \in 1..Len(Of(p).keys) : q = <<p[1], Of(p).keys[i].obj>>
<1>1. p[1] \in 1..Len(structs)
  BY DEF IsPart
<1>2. CASE IsWhole(p) /\ \E i \in 1..Len(Of(p).elems) :
             ~isInline(Of(p).elems[i].type) /\ q = WholeOf(Of(p).elems[i].target)
  <2>1. PICK i \in 1..Len(Of(p).elems) :
             ~isInline(Of(p).elems[i].type) /\ q = WholeOf(Of(p).elems[i].target)
    BY <1>2
  <2>2. ChildOf(p[1], Of(p).elems[i].target)
    BY <1>1, <2>1, TargetFacts DEF Of
  <2> QED BY <1>2, <2>1, <2>2 DEF ChildOf, Owns, Of
<1>3. CASE IsWhole(p) /\ IsMap(Of(p)) /\ q = KeysOf(p[1])
  BY <1>3
<1>4. CASE IsKeyVector(p) /\ \E i \in 1..Len(Of(p).keys) : q = <<p[1], Of(p).keys[i].obj>>
  <2>1. IsMap(Of(p))
    <3>1. p[2] # 0
      BY <1>4 DEF IsKeyVector, KeyVector
    <3> QED BY <3>1 DEF IsPart, Of
  <2> QED BY <1>4, <2>1
<1> QED BY <1>2, <1>3, <1>4 DEF Needs

LEMMA KeyPartsApart ==
    ASSUME DocInv, NEW id \in 1..Len(structs)
    PROVE  /\ \A l \in 1..Len(KeyParts(id)) :
                 /\ IsPart(KeyParts(id)[l]) /\ KeyParts(id)[l][1] = id /\ KeyParts(id)[l][2] # 0
                 /\ IsMap(structs[id])
                 /\ KeyParts(id)[l][2] = KeyVector => l = Len(structs[id].keys) + 1
           /\ \A k, l \in 1..Len(KeyParts(id)) : KeyParts(id)[k] = KeyParts(id)[l] => k = l
<1> DEFINE n == Len(structs[id].keys)
           obj(i) == structs[id].keys[i].obj
           kp == KeyParts(id)
<1>1. n \in Nat /\ id \in Nat
  BY DocFacts
<1>2. /\ \A i \in 1..n : obj(i) \in 1..n
      /\ \A i, j \in 1..n : obj(i) = obj(j) => i = j
  BY DocFacts DEF KeysTold
<1>3. CASE ~IsMap(structs[id])
  BY <1>3, KeyPartsAre
<1>4. CASE IsMap(structs[id])
  <2>1. /\ Len(kp) = n + 1 /\ kp[n + 1] = <<id, -1>>
        /\ \A i \in 1..n : kp[i] = <<id, obj(i)>>
    BY <1>4, KeyPartsAre DEF KeysOf, KeyVector
  <2>2. ASSUME NEW l \in 1..Len(kp)
        PROVE  /\ IsPart(kp[l]) /\ kp[l][1] = id /\ kp[l][2] # 0
               /\ kp[l][2] = KeyVector => l = n + 1
    <3>1. CASE l = n + 1
      <4>1. kp[l] = <<id, -1>>
        BY <2>1, <3>1
      <4> HIDE DEF kp
      <4> QED BY <1>1, <1>4, <3>1, <4>1 DEF IsPart, KeyVector, AnyPart
    <3>2. CASE l # n + 1
      <4>1. l \in 1..n
        BY <1>1, <2>1, <3>2
      <4>2. kp[l] = <<id, obj(l)>> /\ obj(l) \in Int /\ obj(l) > 0
        BY <1>1, <1>2, <2>1, <4>1
      <4>3. kp[l][1] = id /\ kp[l][2] = obj(l) /\ kp[l] \in AnyPart
        BY <1>1, <4>2 DEF AnyPart
      <4> HIDE DEF kp
      <4>4. IsPart(kp[l])
        BY <1>4, <4>1, <4>3 DEF IsPart
      <4> HIDE DEF obj
      <4> QED BY <4>2, <4>3, <4>4 DEF KeyVector
    <3> QED BY <3>1, <3>2
  <2>3. ASSUME NEW k \in 1..Len(kp), NEW l \in 1..Len(kp), kp[k] = kp[l]
        PROVE  k = l
    <3>1. CASE k = n + 1
      BY <2>1, <2>2, <2>3, <3>1 DEF KeyVector
    <3>2. CASE l = n + 1
      BY <2>1, <2>2, <2>3, <3>2 DEF KeyVector
    <3>3. CASE k # n + 1 /\ l # n + 1
      <4>1. k \in 1..n /\ l \in 1..n
        BY <1>1, <2>1, <3>3
      <4>2. obj(k) = obj(l)
        BY <2>1, <2>3, <4>1
      <4> QED BY <1>2, <4>1, <4>2
    <3> QED BY <3>1, <3>2, <3>3
  <2> QED BY <1>4, <2>2, <2>3
<1> QED BY <1>3, <1>4

(* The order of id's parts is good if the orders behind id are.            *)
LEMMA ComposedIsGood ==
    ASSUME DocInv, NEW id \in 1..Len(structs), NEW F,
           \A x \in (id + 1)..Len(structs) : Good(F[x], x)
    PROVE  Good(OrderBy(F, id), id)
<1> DEFINE ch == structs[id].children
           ss == InnerOf(F, id)
           kp == KeyParts(id)
           K == Len(structs[id].keys)
           keys == structs[id].keys
<1>1. /\ id \in Nat /\ Len(structs) \in Nat /\ K \in Nat /\ Len(ch) \in Nat
  BY DocFacts
<1>2. \A c \in 1..Len(ch) : ChildOf(id, ch[c]) /\ ch[c] \in (id + 1)..Len(structs)
  BY ChildFacts DEF ChildOf, Owns
<1>3. \A c \in 1..Len(ch) : Good(F[ch[c]], ch[c])
  BY <1>2
<1>4. /\ Len(ss) = Len(ch)
      /\ \A c \in 1..Len(ch) : ss[c] = F[ch[c]]
      /\ \E at, a, n : Composed(OrderBy(F, id), ss, at, a, n, id)
  BY <1>3, OrderIsComposed DEF Good
<1> HIDE DEF ch, K, keys
<1> DEFINE r == OrderBy(F, id)
<1>5. PICK at, a, n : Composed(r, ss, at, a, n, id)
  BY <1>4
<1> HIDE DEF ss, r
<1>6. \A c \in 1..Len(ch) : Good(ss[c], ch[c])
  BY <1>3, <1>4
<1> HIDE DEF kp
<1>7. /\ a \in Nat /\ n \in Nat /\ n = Len(kp)
      /\ r \in Seq(AnyPart) /\ Len(r) = a + n + 1
      /\ \A c \in 1..Len(ch) : at[c] \in Nat
      /\ \A c \in 1..Len(ch) : \A l \in 1..Len(ss[c]) : at[c] + l \in 1..a /\ r[at[c] + l] = ss[c][l]
      /\ \A j \in 1..a : \E c \in 1..Len(ch) : \E l \in 1..Len(ss[c]) : j = at[c] + l
      /\ \A l \in 1..n : r[a + l] = kp[l]
      /\ r[a + n + 1] = WholeOf(id)
  <2>1. Len(ss) = Len(ch)
    BY <1>4
  <2>2. /\ a \in Nat /\ n \in Nat /\ n = Len(kp)
        /\ r \in Seq(AnyPart) /\ Len(r) = a + n + 1
        /\ \A c \in 1..Len(ss) : at[c] \in Nat
        /\ \A c \in 1..Len(ss) : \A l \in 1..Len(ss[c]) : at[c] + l \in 1..a /\ r[at[c] + l] = ss[c][l]
        /\ \A j \in 1..a : \E c \in 1..Len(ss) : \E l \in 1..Len(ss[c]) : j = at[c] + l
        /\ \A l \in 1..n : r[a + l] = kp[l]
        /\ r[a + n + 1] = WholeOf(id)
    BY <1>5, Zenon DEF Composed, kp
  <2> QED BY <2>1, <2>2, ZenonT(40)
<1>8. /\ \A l \in 1..n : /\ IsPart(kp[l]) /\ kp[l][1] = id /\ kp[l][2] # 0 /\ IsMap(structs[id])
                         /\ kp[l][2] = KeyVector => l = K + 1
      /\ \A k, l \in 1..n : kp[k] = kp[l] => k = l
      /\ IsMap(structs[id]) => /\ n = K + 1 /\ kp[K + 1] = KeysOf(id)
                               /\ \A i \in 1..K : kp[i] = <<id, keys[i].obj>>
  <2>1. n = Len(kp)
    BY <1>7
  <2> QED BY <2>1, KeyPartsApart, KeyPartsAre DEF kp, K, keys
<1>9. WholeOf(id)[1] = id /\ WholeOf(id)[2] = 0 /\ IsPart(WholeOf(id))
  BY <1>1 DEF WholeOf, IsPart, AnyPart
<1> DEFINE inner(j, c, l) == /\ c \in 1..Len(ch) /\ l \in 1..Len(ss[c]) /\ j = at[c] + l
                             /\ j \in 1..a /\ r[j] = ss[c][l]
           key(j, l) == l \in 1..n /\ j = a + l /\ r[j] = kp[l]
           whole(j) == j = a + n + 1 /\ r[j] = WholeOf(id)
<1>10. \A j \in 1..Len(r) : (\E c, l : inner(j, c, l)) \/ (\E l : key(j, l)) \/ whole(j)
  <2> TAKE j \in 1..Len(r)
  <2>1. CASE j \in 1..a
    <3>1. PICK c \in 1..Len(ch) : \E l \in 1..Len(ss[c]) : j = at[c] + l
      BY <1>7, <2>1
    <3>2. PICK l \in 1..Len(ss[c]) : j = at[c] + l
      BY <3>1
    <3>3. inner(j, c, l)
      BY <1>7, <2>1, <3>2
    <3> QED BY <3>3
  <2>2. CASE j \notin 1..a /\ j # a + n + 1
    <3>1. j - a \in 1..n /\ j = a + (j - a)
      BY <1>7, <2>2
    <3>2. key(j, j - a)
      BY <1>7, <3>1
    <3> QED BY <3>2
  <2>3. CASE j = a + n + 1
    BY <1>7, <2>3
  <2> QED BY <2>1, <2>2, <2>3
<1>11. ASSUME NEW c \in 1..Len(ch), NEW l \in 1..Len(ss[c])
       PROVE  inner(at[c] + l, c, l)
  BY <1>7
<1>12. ASSUME NEW j \in 1..Len(r), NEW c, NEW l, inner(j, c, l)
       PROVE  r[j][1] > id /\ r[j][1] \in Nat /\ IsPart(r[j])
  <2>1. Good(ss[c], ch[c]) /\ ch[c] > id /\ ch[c] \in Nat
    BY <1>1, <1>2, <1>6, <1>12
  <2>2. ss[c][l][1] >= ch[c] /\ IsPart(ss[c][l])
    BY <1>12, <2>1 DEF Good, Below
  <2>3. ss[c][l][1] \in Nat
    <3>1. 1..Len(structs) \subseteq Nat
      BY <1>1
    <3> QED BY <2>2, <3>1, Zenon DEF IsPart
  <2> QED BY <1>1, <1>12, <2>1, <2>2, <2>3
<1>13. ASSUME NEW j \in 1..Len(r), (\E l : key(j, l)) \/ whole(j)
       PROVE  r[j][1] = id /\ IsPart(r[j])
  BY <1>8, <1>9, <1>13
<1>14. \A j \in 1..Len(r) : IsPart(r[j])
  BY <1>10, <1>12, <1>13
<1>15. Once(r)
  <2>1. ASSUME NEW j \in 1..Len(r), NEW k \in 1..Len(r), r[j] = r[k],
               NEW c, NEW l, inner(j, c, l), NEW d, NEW m, inner(k, d, m)
        PROVE  j = k
    <3>0. /\ c \in 1..Len(ch) /\ l \in 1..Len(ss[c]) /\ j = at[c] + l /\ r[j] = ss[c][l]
          /\ d \in 1..Len(ch) /\ m \in 1..Len(ss[d]) /\ k = at[d] + m /\ r[k] = ss[d][m]
      BY <2>1
    <3>1. c = d
      <4> SUFFICES ASSUME c # d PROVE FALSE
        OBVIOUS
      <4>1. Good(ss[c], ch[c]) /\ Good(ss[d], ch[d])
        BY <1>6, <3>0
      <4>2. \A x \in 1..Len(ss[c]), y \in 1..Len(ss[d]) : ss[c][x][1] # ss[d][y][1]
        <5> DEFINE u == ss[c]
                   v == ss[d]
        <5>1. /\ Good(u, structs[id].children[c]) /\ Good(v, structs[id].children[d])
              /\ c \in 1..Len(structs[id].children) /\ d \in 1..Len(structs[id].children) /\ c # d
          BY <3>0, <4>1 DEF ch
        <5> HIDE DEF u, v
        <5>2. Apart(u, v)
          BY <5>1, SiblingsApart
        <5> QED BY <5>2 DEF Apart, u, v
      <4>3. ss[c][l] # ss[d][m]
        BY <3>0, <4>2
      <4> QED BY <2>1, <3>0, <4>3
    <3>2. Once(ss[c])
      BY <1>6, <3>0 DEF Good
    <3>3. l = m
      BY <2>1, <3>0, <3>1, <3>2 DEF Once
    <3> QED BY <3>0, <3>1, <3>3
  <2>2. ASSUME NEW j \in 1..Len(r), NEW c, NEW l, inner(j, c, l),
               NEW k \in 1..Len(r), (\E m : key(k, m)) \/ whole(k)
        PROVE  r[j] # r[k]
    <3>1. r[j][1] > id /\ r[j][1] \in Nat /\ r[k][1] = id
      BY <1>12, <1>13, <2>2
    <3> QED BY <1>1, <3>1
  <2>3. ASSUME NEW j \in 1..Len(r), NEW k \in 1..Len(r), r[j] = r[k],
               NEW l, key(j, l), NEW m, key(k, m)
        PROVE  j = k
    <3>1. /\ l \in 1..n /\ m \in 1..n /\ r[j] = kp[l] /\ r[k] = kp[m] /\ j = a + l /\ k = a + m
      BY <2>3
    <3>2. l = m
      BY <1>8, <2>3, <3>1
    <3> QED BY <3>1, <3>2
  <2>4. ASSUME NEW j \in 1..Len(r), NEW l, key(j, l), NEW k \in 1..Len(r), whole(k)
        PROVE  r[j] # r[k]
    BY <1>8, <1>9, <2>4
  <2>5. ASSUME NEW j \in 1..Len(r), NEW k \in 1..Len(r), whole(j), whole(k)
        PROVE  j = k
    BY <2>5
  <2> HIDE DEF inner, key, whole
  <2> SUFFICES ASSUME NEW j \in 1..Len(r), NEW k \in 1..Len(r), r[j] = r[k]
               PROVE  j = k
    BY DEF Once
  <2>6. CASE \E c, l : inner(j, c, l)
    BY <1>10, <2>1, <2>2, <2>6
  <2>7. CASE \E c, l : inner(k, c, l)
    BY <1>10, <2>1, <2>2, <2>7
  <2>8. CASE (\E l : key(j, l)) /\ \E m : key(k, m)
    BY <2>3, <2>8
  <2>9. CASE (\E l : key(j, l)) /\ whole(k)
    BY <2>4, <2>9
  <2>10. CASE (\E l : key(k, l)) /\ whole(j)
    BY <2>4, <2>10
  <2>11. CASE whole(j) /\ whole(k)
    BY <2>5, <2>11
  <2> QED BY <1>10, <2>6, <2>7, <2>8, <2>9, <2>10, <2>11
<1>16. Closed(r)
  <2> SUFFICES ASSUME NEW j \in 1..Len(r), NEW q, Needs(r[j], q)
               PROVE  \E k \in 1..(j - 1) : r[k] = q
    BY DEF Closed
  <2>1. CASE \E c, l : inner(j, c, l)
    <3>1. PICK c, l : inner(j, c, l)
      BY <2>1
    <3>2. Closed(ss[c]) /\ at[c] \in Nat
      BY <1>6, <1>7, <3>1 DEF Good
    <3>3. PICK m \in 1..(l - 1) : ss[c][m] = q
      BY <3>1, <3>2 DEF Closed
    <3>4. m \in 1..Len(ss[c]) /\ at[c] + m \in 1..(j - 1)
      <4>1. Len(ss[c]) \in Nat
        BY <1>6, <3>1 DEF Good
      <4>2. /\ l \in 1..Len(ss[c]) /\ j = at[c] + l
        BY <3>1
      <4> QED BY <3>2, <4>1, <4>2, SMTT(30)
    <3>5. r[at[c] + m] = q
      BY <1>7, <3>1, <3>3, <3>4
    <3> QED BY <3>4, <3>5
  <2>2. CASE \E l : key(j, l)
    <3>1. PICK l : key(j, l)
      BY <2>2
    <3>2. IsPart(r[j]) /\ r[j][1] = id /\ r[j][2] # 0
      BY <1>8, <3>1
    <3>3. IsKeyVector(r[j]) /\ \E i \in 1..K : q = <<id, keys[i].obj>>
      BY <3>2, NeedsInside DEF IsWhole, Of, K, keys
    <3>4. PICK i \in 1..K : q = <<id, keys[i].obj>>
      BY <3>3
    <3>5. l = K + 1 /\ n = K + 1 /\ kp[i] = q
      BY <1>8, <3>1, <3>3, <3>4 DEF IsKeyVector
    <3>6. i \in 1..n /\ a + i \in 1..(j - 1)
      <4>1. K \in Nat /\ a \in Nat /\ i \in 1..K /\ n = K + 1 /\ j = a + (K + 1)
        BY <1>1, <1>7, <3>1, <3>4, <3>5 DEF K
      <4> QED BY <4>1
    <3>7. r[a + i] = q
      BY <1>7, <3>5, <3>6
    <3> QED BY <3>6, <3>7
  <2>3. CASE whole(j)
    <3>1. r[j] = WholeOf(id) /\ j = a + n + 1 /\ IsPart(r[j])
      BY <1>9, <2>3
    <3>2. \/ \E c \in 1..Len(ch) : q = WholeOf(ch[c])
          \/ IsMap(structs[id]) /\ q = KeysOf(id)
      BY <1>9, <3>1, NeedsInside DEF IsKeyVector, KeyVector, Of, ch
    <3>3. CASE \E c \in 1..Len(ch) : q = WholeOf(ch[c])
      <4>1. PICK c \in 1..Len(ch) : q = WholeOf(ch[c])
        BY <3>3
      <4>2. Len(ss[c]) \in 1..Len(ss[c]) /\ ss[c][Len(ss[c])] = q
        BY <1>6, <4>1 DEF Good
      <4>3. r[at[c] + Len(ss[c])] = q /\ at[c] + Len(ss[c]) \in 1..a
        BY <1>7, <4>2
      <4>4. at[c] + Len(ss[c]) \in 1..(j - 1)
        BY <1>7, <3>1, <4>3
      <4> QED BY <4>3, <4>4
    <3>4. CASE IsMap(structs[id]) /\ q = KeysOf(id)
      <4>1. n = K + 1 /\ n \in 1..n /\ kp[n] = q
        BY <1>1, <1>8, <3>4
      <4>2. r[a + n] = kp[n]
        BY <1>7, <4>1
      <4>3. a + n \in 1..(j - 1)
        BY <1>7, <3>1, <4>1
      <4>4. r[a + n] = q
        BY <4>1, <4>2
      <4> QED BY <4>3, <4>4
    <3> QED BY <3>2, <3>3, <3>4
  <2> QED BY <1>10, <2>1, <2>2, <2>3
<1>17. Below(r, id)
  <2> SUFFICES ASSUME NEW j \in 1..Len(r)
               PROVE  /\ r[j][1] >= id
                      /\ r[j][1] # id =>
                            \E k \in 1..Len(r) : r[k][1] < r[j][1] /\ ChildOf(r[k][1], r[j][1])
    BY DEF Below
  <2>1. CASE \E c, l : inner(j, c, l)
    <3>1. PICK c, l : inner(j, c, l)
      BY <2>1
    <3>2. r[j][1] > id /\ r[j][1] \in Nat
      BY <1>12, <3>1
    <3>3. CASE ss[c][l][1] = ch[c]
      <4>1. r[j][1] = ch[c] /\ ChildOf(id, ch[c])
        BY <1>2, <3>1, <3>3
      <4>2. a + n + 1 \in 1..Len(r) /\ r[a + n + 1][1] = id
        BY <1>7, <1>9
      <4> QED BY <1>1, <3>2, <4>1, <4>2
    <3>4. CASE ss[c][l][1] # ch[c]
      <4>1. Below(ss[c], ch[c])
        BY <1>6, <3>1 DEF Good
      <4>2. PICK k \in 1..Len(ss[c]) : ss[c][k][1] < ss[c][l][1] /\ ChildOf(ss[c][k][1], ss[c][l][1])
        BY <3>1, <3>4, <4>1 DEF Below
      <4>3. at[c] + k \in 1..a /\ r[at[c] + k] = ss[c][k]
        BY <1>7, <3>1
      <4>4. at[c] + k \in 1..Len(r)
        BY <1>7, <4>3
      <4>5. r[at[c] + k][1] < r[j][1] /\ ChildOf(r[at[c] + k][1], r[j][1])
        BY <3>1, <4>2, <4>3
      <4> QED BY <1>1, <3>2, <4>4, <4>5
    <3> QED BY <3>3, <3>4
  <2>2. CASE (\E l : key(j, l)) \/ whole(j)
    BY <1>1, <1>13, <2>2
  <2> QED BY <1>10, <2>1, <2>2
<1>18. KeysBefore(r)
  <2> DEFINE ks(p) == structs[p[1]].keys
  <2> SUFFICES ASSUME NEW j \in 1..Len(r), IsKeyVector(r[j])
               PROVE  /\ Len(ks(r[j])) < j
                      /\ \A i \in 1..Len(ks(r[j])) :
                            r[(j - 1) - Len(ks(r[j])) + i] = <<r[j][1], ks(r[j])[i].obj>>
    BY DEF KeysBefore, Of
  <2>1. CASE \E c, l : inner(j, c, l)
    <3>1. PICK c, l : inner(j, c, l)
      BY <2>1
    <3>2. KeysBefore(ss[c]) /\ at[c] \in Nat /\ Len(ss[c]) \in Nat
      BY <1>6, <1>7, <3>1 DEF Good
    <3>3. Len(ks(r[j])) \in Nat
      BY <1>14, DocFacts DEF IsPart
    <3>4. PICK k \in Nat : k = Len(ks(r[j]))
      BY <3>3
    <3>5. /\ k < l
          /\ \A i \in 1..k : ss[c][(l - 1) - k + i] = <<r[j][1], ks(r[j])[i].obj>>
      BY <3>1, <3>2, <3>4 DEF KeysBefore, Of
    <3>6. ASSUME NEW i \in 1..k
          PROVE  r[(j - 1) - k + i] = <<r[j][1], ks(r[j])[i].obj>>
      <4>1. (l - 1) - k + i \in 1..Len(ss[c]) /\ at[c] + ((l - 1) - k + i) = (j - 1) - k + i
        <5>1. /\ l \in 1..Len(ss[c]) /\ j = at[c] + l /\ at[c] \in Nat /\ Len(ss[c]) \in Nat /\ k < l
          BY <3>1, <3>2, <3>5
        <5>2. PICK p \in Nat, o \in Nat : p = at[c] /\ o = Len(ss[c])
          BY <5>1
        <5>3. l \in 1..o /\ j = p + l
          BY <5>1, <5>2
        <5>4. (l - 1) - k + i \in 1..o /\ p + ((l - 1) - k + i) = (j - 1) - k + i
          BY <5>1, <5>3
        <5> QED BY <5>2, <5>4
      <4>2. r[at[c] + ((l - 1) - k + i)] = ss[c][(l - 1) - k + i]
        BY <1>7, <3>1, <4>1
      <4> QED BY <3>5, <4>1, <4>2
    <3>7. k < j
      BY <3>1, <3>2, <3>5
    <3> QED BY <3>4, <3>6, <3>7
  <2>2. CASE \E l : key(j, l)
    <3>1. PICK l : key(j, l)
      BY <2>2
    <3>2. r[j][1] = id /\ l = K + 1 /\ n = K + 1 /\ IsMap(structs[id])
      BY <1>8, <3>1 DEF IsKeyVector
    <3>3. K < j
      BY <1>1, <1>7, <3>1, <3>2
    <3>4. ASSUME NEW i \in 1..K
          PROVE  r[(j - 1) - K + i] = <<id, keys[i].obj>>
      <4>1. (j - 1) - K + i = a + i /\ i \in 1..n
        <5>1. K \in Nat /\ a \in Nat /\ j = a + (K + 1) /\ n = K + 1
          BY <1>1, <1>7, <3>1, <3>2 DEF K
        <5> QED BY <5>1
      <4>2. r[a + i] = kp[i]
        BY <1>7, <4>1
      <4> QED BY <1>8, <3>2, <4>1, <4>2
    <3> QED BY <3>2, <3>3, <3>4 DEF K, keys
  <2>3. CASE whole(j)
    BY <1>9, <2>3 DEF IsKeyVector, KeyVector
  <2> QED BY <1>10, <2>1, <2>2, <2>3
<1>19. Len(r) \in Nat \ {0} /\ r[Len(r)] = WholeOf(id)
  BY <1>7
<1>20. VectorBefore(r)
  <2> SUFFICES ASSUME NEW j \in 1..Len(r), IsWhole(r[j]), IsMap(structs[r[j][1]])
               PROVE  j > 1 /\ r[j - 1] = KeysOf(r[j][1])
    BY DEF VectorBefore, Of
  <2>1. CASE \E c, l : inner(j, c, l)
    <3>1. PICK c, l : inner(j, c, l)
      BY <2>1
    <3>2. VectorBefore(ss[c]) /\ at[c] \in Nat /\ Len(ss[c]) \in Nat
      BY <1>6, <1>7, <3>1 DEF Good
    <3>3. l \in 1..Len(ss[c]) /\ j = at[c] + l /\ r[j] = ss[c][l]
      BY <3>1
    <3>4. l > 1 /\ ss[c][l - 1] = KeysOf(r[j][1])
      <4>1. IsWhole(ss[c][l]) /\ IsMap(structs[ss[c][l][1]]) /\ ss[c][l][1] = r[j][1]
        BY <3>3
      <4>2. l > 1 /\ ss[c][l - 1] = KeysOf(ss[c][l][1])
        BY <3>2, <3>3, <4>1, Zenon DEF VectorBefore, Of
      <4> QED BY <4>1, <4>2
    <3>5. l - 1 \in 1..Len(ss[c]) /\ at[c] + (l - 1) = j - 1 /\ j > 1
      <4>1. PICK p \in Nat, o \in Nat : p = at[c] /\ o = Len(ss[c])
        BY <3>2
      <4>2. l \in 1..o /\ j = p + l /\ l > 1
        BY <3>3, <3>4, <4>1
      <4>3. l - 1 \in 1..o /\ p + (l - 1) = j - 1 /\ j > 1
        BY <4>2
      <4> QED BY <4>1, <4>3
    <3>6. r[at[c] + (l - 1)] = ss[c][l - 1]
      BY <1>7, <3>1, <3>5
    <3> QED BY <3>4, <3>5, <3>6
  <2>2. CASE \E l : key(j, l)
    BY <1>8, <2>2 DEF IsWhole
  <2>3. CASE whole(j)
    <3>1. IsMap(structs[id]) /\ j = a + n + 1 /\ r[j][1] = id
      BY <1>9, <2>3
    <3>2. n = K + 1 /\ n \in 1..n /\ kp[n] = KeysOf(id)
      BY <1>1, <1>8, <3>1
    <3>3. r[a + n] = kp[n]
      BY <1>7, <3>2
    <3>4. j - 1 = a + n /\ j > 1
      BY <1>1, <1>7, <3>1, <3>2
    <3> QED BY <3>1, <3>2, <3>3, <3>4
  <2> QED BY <1>10, <2>1, <2>2, <2>3
<1>21. Good(r, id)
  BY <1>7, <1>14, <1>15, <1>16, <1>17, <1>18, <1>19, <1>20 DEF Good
<1> QED BY <1>21 DEF r

(* Parts are written in a good order.                                      *)
LEMMA PartsAreGood ==
    ASSUME DocInv
    PROVE  Good(Parts, Root)
<1> DEFINE T == {x \in 1..Len(structs) : Good(InnerFirst[x], x)}
<1>1. Len(structs) \in Nat /\ Len(structs) > 0
  BY DocFacts DEF DocInv
<1>2. ASSUME NEW n \in 1..Len(structs), \A k \in (n + 1)..Len(structs) : k \in T
      PROVE  n \in T
  <2>1. \A x \in (n + 1)..Len(structs) : Good(InnerFirst[x], x)
    BY <1>2
  <2>2. Good(OrderBy(InnerFirst, n), n)
    BY <2>1, ComposedIsGood
  <2> QED BY <2>2, InnerFirstIs
<1>3. Root \in T
  <2> HIDE DEF T
  <2>1. \A n \in 1..Len(structs) : n \in T
    BY <1>1, <1>2, DownFrom
  <2> QED BY <1>1, <2>1 DEF Root
<1> QED BY <1>3 DEF Parts

-----------------------------------------------------------------------------
(* The elements of a part, as far as serialization does not change them:   *)
(* functions of the document S.                                            *)

Count(S, p) ==
    CASE IsWhole(p)     -> Len(S[p[1]].elems)
      [] IsKeyVector(p) -> Len(S[p[1]].keys)
      [] OTHER          -> (CHOOSE k \in ToSet(S[p[1]].keys) : k.obj = p[2]).name

TypeAt(S, p, i) ==
    CASE IsWhole(p) -> S[p[1]].elems[i].type [] IsKeyVector(p) -> KEY [] OTHER -> UINT

SizeAt(S, p, i) == IF IsWhole(p) THEN S[p[1]].elems[i].size ELSE b8

TargetAt(S, p, i) ==
    IF IsWhole(p) THEN WholeOf(S[p[1]].elems[i].target) ELSE <<p[1], S[p[1]].keys[i].obj>>

InlineAt(S, p, i) == isInline(TypeAt(S, p, i))

(* The offsets, as a function o of the parts they lead to.                 *)
OffsetIn(o, q) == IF q \in DOMAIN o THEN o[q] ELSE Unbound
Offset == [absIndex : Int, fieldSize : ByteSize, targetSize : ByteSize]
OffsetsTyped(o) == \A q \in AnyPart : OffsetIn(o, q) \in Offset

LEMMA PartKinds ==
    ASSUME DocInv, NEW p, IsPart(p)
    PROVE  /\ p = <<p[1], p[2]>> /\ p[1] \in 1..Len(structs) /\ p[2] \in Int
           /\ \/ IsWhole(p) /\ ~IsKeyVector(p) /\ ~IsKey(p)
              \/ ~IsWhole(p) /\ IsKeyVector(p) /\ ~IsKey(p) /\ IsMap(structs[p[1]])
              \/ /\ ~IsWhole(p) /\ ~IsKeyVector(p) /\ IsKey(p) /\ IsMap(structs[p[1]])
                 /\ \E i \in 1..Len(structs[p[1]].keys) : p[2] = structs[p[1]].keys[i].obj
<1>1. p = <<p[1], p[2]>> /\ p[1] \in 1..Len(structs) /\ p[2] \in Int
  BY DEF IsPart, AnyPart
<1>2. CASE p[2] = 0
  BY <1>1, <1>2 DEF IsWhole, IsKeyVector, IsKey, KeyVector
<1>3. CASE IsMap(structs[p[1]]) /\ p[2] = KeyVector
  BY <1>1, <1>3 DEF IsWhole, IsKeyVector, IsKey, KeyVector
<1>4. CASE /\ IsMap(structs[p[1]])
           /\ \E i \in 1..Len(structs[p[1]].keys) : p[2] = structs[p[1]].keys[i].obj
  <2>1. p[2] \in 1..Len(structs[p[1]].keys) /\ Len(structs[p[1]].keys) \in Nat
    BY <1>1, <1>4, DocFacts DEF KeysTold
  <2> QED BY <1>1, <1>4, <2>1 DEF IsWhole, IsKeyVector, IsKey, KeyVector
<1> QED BY <1>1, <1>2, <1>3, <1>4 DEF IsPart

LEMMA KeyNamed ==
    ASSUME DocInv, NEW id \in 1..Len(structs), NEW i \in 1..Len(structs[id].keys),
           NEW obj, obj = structs[id].keys[i].obj
    PROVE  (CHOOSE k \in ToSet(structs[id].keys) : k.obj = obj) = structs[id].keys[i]
<1> DEFINE keys == structs[id].keys
<1>1. /\ DOMAIN keys = 1..Len(keys)
      /\ \A k, l \in 1..Len(keys) : keys[k].obj = keys[l].obj => k = l
  BY DocFacts DEF KeysTold
<1> HIDE DEF keys
<1>2. keys[i] \in ToSet(keys)
  BY <1>1 DEF ToSet, keys
<1>3. obj = keys[i].obj /\ \A k \in ToSet(keys) : k.obj = obj => k = keys[i]
  BY <1>1 DEF ToSet, keys
<1>4. (CHOOSE k \in ToSet(keys) : k.obj = obj) = keys[i]
  BY <1>2, <1>3
<1> QED BY <1>4 DEF keys

LEMMA StaticTypes ==
    ASSUME DocInv, NEW p, IsPart(p)
    PROVE  /\ Count(structs, p) \in Nat
           /\ \A i \in 1..Count(structs, p) :
                 /\ TypeAt(structs, p, i) \in VarType
                 /\ SizeAt(structs, p, i) \in ByteSize
                 /\ ~InlineAt(structs, p, i) => TargetAt(structs, p, i) \in AnyPart
<1>1. /\ p[1] \in 1..Len(structs) /\ Len(structs) \in Nat
      /\ structs[p[1]].elems \in Seq(Elem) /\ Len(structs[p[1]].elems) \in Nat
      /\ structs[p[1]].keys \in Seq(Key) /\ Len(structs[p[1]].keys) \in Nat
  BY PartKinds, DocFacts
<1>2. CASE IsWhole(p) /\ ~IsKeyVector(p) /\ ~IsKey(p)
  <2>1. Count(structs, p) = Len(structs[p[1]].elems)
    BY <1>2 DEF Count
  <2>2. ASSUME NEW i \in 1..Len(structs[p[1]].elems)
        PROVE  /\ TypeAt(structs, p, i) \in VarType /\ SizeAt(structs, p, i) \in ByteSize
               /\ TargetAt(structs, p, i) \in AnyPart
    <3>1. structs[p[1]].elems[i] \in Elem
      BY <1>1, ElementOfSeq
    <3>2. TypeAt(structs, p, i) = structs[p[1]].elems[i].type
      BY <1>2 DEF TypeAt
    <3>3. SizeAt(structs, p, i) = structs[p[1]].elems[i].size
      BY <1>2 DEF SizeAt
    <3>4. TargetAt(structs, p, i) = <<structs[p[1]].elems[i].target, 0>>
      BY <1>2 DEF TargetAt, WholeOf
    <3> QED BY <3>1, <3>2, <3>3, <3>4 DEF Elem, AnyPart
  <2> QED BY <1>1, <2>1, <2>2
<1>3. CASE ~IsWhole(p) /\ IsKeyVector(p) /\ ~IsKey(p)
  <2>1. Count(structs, p) = Len(structs[p[1]].keys)
    BY <1>3 DEF Count
  <2>2. ASSUME NEW i \in 1..Len(structs[p[1]].keys)
        PROVE  /\ TypeAt(structs, p, i) \in VarType /\ SizeAt(structs, p, i) \in ByteSize
               /\ TargetAt(structs, p, i) \in AnyPart
    <3>1. structs[p[1]].keys[i] \in Key
      BY <1>1, ElementOfSeq
    <3>2. TypeAt(structs, p, i) = KEY /\ SizeAt(structs, p, i) = b8
      BY <1>3 DEF TypeAt, SizeAt
    <3>3. TargetAt(structs, p, i) = <<p[1], structs[p[1]].keys[i].obj>>
      BY <1>3 DEF TargetAt
    <3>4. KEY \in VarType /\ b8 \in ByteSize
      BY DEF VarType, KEY, ByteSize, b8, b64
    <3>5. structs[p[1]].keys[i].obj \in Int /\ p[1] \in Nat
      <4>1. structs[p[1]].keys[i].obj \in Nat
        BY <3>1 DEF Key
      <4> QED BY <1>1, <4>1 DEF AnyPart
    <3>6. TargetAt(structs, p, i) \in AnyPart
      BY <3>3, <3>5 DEF AnyPart
    <3> QED BY <3>2, <3>4, <3>6
  <2> QED BY <1>1, <2>1, <2>2
<1>4. CASE ~IsWhole(p) /\ ~IsKeyVector(p) /\ IsKey(p)
  <2>1. PICK j \in 1..Len(structs[p[1]].keys) : p[2] = structs[p[1]].keys[j].obj
    BY <1>4, PartKinds
  <2>2. structs[p[1]].keys[j] \in Key
    BY <1>1, ElementOfSeq
  <2>3. Count(structs, p) = structs[p[1]].keys[j].name
    <3>1. Count(structs, p) = (CHOOSE k \in ToSet(structs[p[1]].keys) : k.obj = p[2]).name
      BY <1>4 DEF Count
    <3>2. \A obj : obj = structs[p[1]].keys[j].obj =>
             (CHOOSE k \in ToSet(structs[p[1]].keys) : k.obj = obj) = structs[p[1]].keys[j]
      BY <1>1, KeyNamed, Zenon
    <3>3. (CHOOSE k \in ToSet(structs[p[1]].keys) : k.obj = p[2]) = structs[p[1]].keys[j]
      BY <2>1, <3>2, Zenon
    <3> QED BY <3>1, <3>3, Zenon
  <2>4. \A i : TypeAt(structs, p, i) = UINT /\ SizeAt(structs, p, i) = b8
    BY <1>4 DEF TypeAt, SizeAt
  <2>5. \A i : InlineAt(structs, p, i)
    BY <2>4 DEF InlineAt, isInline, UINT
  <2> QED BY <2>2, <2>3, <2>4, <2>5 DEF Key, VarType, UINT, ByteSize, b8, b64
<1> QED BY <1>2, <1>3, <1>4, PartKinds

(* The elements of a part of the document.                                 *)
LEMMA ElemsAre ==
    ASSUME DocInv, NEW p, IsPart(p)
    PROVE  Elems(p) = [i \in 1..Count(structs, p) |->
              IF InlineAt(structs, p, i)
              THEN [type |-> TypeAt(structs, p, i), size |-> SizeAt(structs, p, i), target |-> NoPart]
              ELSE Refers(TypeAt(structs, p, i), TargetAt(structs, p, i))]
<1>1. /\ p[1] \in 1..Len(structs)
      /\ DOMAIN structs[p[1]].elems = 1..Len(structs[p[1]].elems)
      /\ DOMAIN structs[p[1]].keys = 1..Len(structs[p[1]].keys)
  BY PartKinds, DocFacts
<1>2. CASE IsWhole(p) /\ ~IsKeyVector(p) /\ ~IsKey(p)
  <2>1. Elems(p) = [i \in DOMAIN Of(p).elems |-> LET e == Of(p).elems[i] IN
                       IF isInline(e.type)
                       THEN [type |-> e.type, size |-> e.size, target |-> NoPart]
                       ELSE Refers(e.type, WholeOf(e.target))]
    BY <1>2 DEF Elems
  <2>2. /\ Count(structs, p) = Len(structs[p[1]].elems)
        /\ \A i : /\ TypeAt(structs, p, i) = structs[p[1]].elems[i].type
                  /\ SizeAt(structs, p, i) = structs[p[1]].elems[i].size
                  /\ TargetAt(structs, p, i) = WholeOf(structs[p[1]].elems[i].target)
    BY <1>2 DEF Count, TypeAt, SizeAt, TargetAt
  <2> QED BY <1>1, <2>1, <2>2 DEF InlineAt, Of
<1>3. CASE ~IsWhole(p) /\ IsKeyVector(p) /\ ~IsKey(p)
  <2>1. Elems(p) = [i \in DOMAIN Of(p).keys |-> Refers(KEY, <<p[1], Of(p).keys[i].obj>>)]
    BY <1>3 DEF Elems
  <2>2. /\ Count(structs, p) = Len(structs[p[1]].keys)
        /\ \A i : /\ TypeAt(structs, p, i) = KEY
                  /\ TargetAt(structs, p, i) = <<p[1], structs[p[1]].keys[i].obj>>
    BY <1>3 DEF Count, TypeAt, TargetAt
  <2>3. ~isInline(KEY)
    BY DEF isInline, KEY, BOOL
  <2> QED BY <1>1, <2>1, <2>2, <2>3 DEF InlineAt, Of
<1>4. CASE ~IsWhole(p) /\ ~IsKeyVector(p) /\ IsKey(p)
  <2>1. IsKey(p)
    BY <1>4, PartKinds
  <2>2. Elems(p) = [i \in 1..NameOf(p) |-> [type |-> UINT, size |-> b8, target |-> NoPart]]
    BY <1>4, <2>1 DEF Elems
  <2>3. /\ Count(structs, p) = NameOf(p)
        /\ \A i : TypeAt(structs, p, i) = UINT /\ SizeAt(structs, p, i) = b8
    BY <1>4 DEF Count, TypeAt, SizeAt, NameOf, Of
  <2>4. isInline(UINT)
    BY DEF isInline, UINT
  <2> QED BY <2>2, <2>3, <2>4 DEF InlineAt
<1> QED BY <1>2, <1>3, <1>4, PartKinds

LEMMA TargetNeeded ==
    ASSUME DocInv, NEW p, IsPart(p), NEW i \in 1..Count(structs, p), ~InlineAt(structs, p, i)
    PROVE  Needs(p, TargetAt(structs, p, i)) /\ (IsWhole(p) \/ IsKeyVector(p))
<1>1. CASE IsWhole(p) /\ ~IsKeyVector(p) /\ ~IsKey(p)
  <2>1. /\ Count(structs, p) = Len(structs[p[1]].elems)
        /\ TypeAt(structs, p, i) = structs[p[1]].elems[i].type
        /\ TargetAt(structs, p, i) = WholeOf(structs[p[1]].elems[i].target)
    BY <1>1 DEF Count, TypeAt, TargetAt
  <2> QED BY <1>1, <2>1 DEF Needs, InlineAt, Of
<1>2. CASE ~IsWhole(p) /\ IsKeyVector(p) /\ ~IsKey(p)
  <2>1. /\ Count(structs, p) = Len(structs[p[1]].keys)
        /\ TargetAt(structs, p, i) = <<p[1], structs[p[1]].keys[i].obj>>
    BY <1>2 DEF Count, TargetAt
  <2> QED BY <1>2, <2>1 DEF Needs, Of
<1>3. CASE ~IsWhole(p) /\ ~IsKeyVector(p) /\ IsKey(p)
  <2>1. TypeAt(structs, p, i) = UINT
    BY <1>3 DEF TypeAt
  <2> QED BY <2>1 DEF InlineAt, isInline, UINT
<1> QED BY <1>1, <1>2, <1>3, PartKinds

(* A part is the target of one element of one part.                        *)
LEMMA TargetOnce ==
    ASSUME DocInv, NEW p, IsPart(p), NEW i \in 1..Count(structs, p), ~InlineAt(structs, p, i),
           NEW r, IsPart(r), NEW j \in 1..Count(structs, r), ~InlineAt(structs, r, j),
           TargetAt(structs, p, i) = TargetAt(structs, r, j)
    PROVE  p = r /\ i = j
<1> DEFINE t(q, k) == TargetAt(structs, q, k)
           whole(q) == IsWhole(q) /\ ~IsKeyVector(q) /\ ~IsKey(q)
           vector(q) == ~IsWhole(q) /\ IsKeyVector(q) /\ ~IsKey(q)
<1>1. \A q : whole(q) => /\ Count(structs, q) = Len(structs[q[1]].elems)
                         /\ \A k : /\ TypeAt(structs, q, k) = structs[q[1]].elems[k].type
                                   /\ t(q, k) = <<structs[q[1]].elems[k].target, 0>>
  BY DEF Count, TypeAt, TargetAt, WholeOf
<1>2. \A q : vector(q) => /\ Count(structs, q) = Len(structs[q[1]].keys)
                          /\ \A k : t(q, k) = <<q[1], structs[q[1]].keys[k].obj>>
  BY DEF Count, TargetAt
<1>3. /\ whole(p) \/ vector(p)
      /\ whole(r) \/ vector(r)
  BY TargetNeeded, PartKinds
<1>4. t(p, i) = t(r, j)
  OBVIOUS
<1>5. /\ p = <<p[1], p[2]>> /\ p[1] \in 1..Len(structs)
      /\ r = <<r[1], r[2]>> /\ r[1] \in 1..Len(structs)
  BY PartKinds
<1>6. \A q : (whole(q) => q[2] = 0) /\ (vector(q) => q[2] = KeyVector)
  BY DEF IsWhole, IsKeyVector
<1>7. ~InlineAt(structs, p, i) /\ ~InlineAt(structs, r, j)
  OBVIOUS
<1> HIDE DEF whole, vector, t
<1>8. CASE whole(p) /\ whole(r)
  <2> DEFINE a == p[1]
             c == r[1]
  <2>1. /\ i \in 1..Len(structs[a].elems) /\ j \in 1..Len(structs[c].elems)
        /\ ~isInline(structs[a].elems[i].type) /\ ~isInline(structs[c].elems[j].type)
    BY <1>1, <1>7, <1>8 DEF InlineAt
  <2>2. structs[a].elems[i].target = structs[c].elems[j].target
    BY <1>1, <1>4, <1>8, SMTT(30)
  <2>3. a \in 1..Len(structs) /\ c \in 1..Len(structs)
    BY <1>5
  <2> HIDE DEF a, c
  <2>4. a = c /\ i = j
    BY <2>1, <2>2, <2>3, TargetFacts
  <2> QED BY <1>5, <1>6, <1>8, <2>4 DEF a, c
<1>9. CASE vector(p) /\ vector(r)
  <2>1. p[1] = r[1] /\ structs[p[1]].keys[i].obj = structs[r[1]].keys[j].obj
    BY <1>2, <1>4, <1>9
  <2>2. i \in 1..Len(structs[p[1]].keys) /\ j \in 1..Len(structs[p[1]].keys)
    BY <1>2, <1>9, <2>1
  <2>3. KeysTold(structs[p[1]])
    BY <1>5, DocFacts
  <2>4. i = j
    BY <2>1, <2>2, <2>3 DEF KeysTold
  <2> QED BY <1>5, <1>6, <1>9, <2>1, <2>4
<1>10. \A q : IsPart(q) /\ vector(q) =>
          \A k \in 1..Count(structs, q) : t(q, k)[2] # 0
  <2> SUFFICES ASSUME NEW q, IsPart(q), vector(q), NEW k \in 1..Count(structs, q)
               PROVE  t(q, k)[2] # 0
    OBVIOUS
  <2>1. k \in 1..Len(structs[q[1]].keys) /\ t(q, k)[2] = structs[q[1]].keys[k].obj
    BY <1>2
  <2>2. KeysTold(structs[q[1]]) /\ Len(structs[q[1]].keys) \in Nat
    BY PartKinds, DocFacts
  <2>3. structs[q[1]].keys[k].obj \in 1..Len(structs[q[1]].keys)
    BY <2>1, <2>2 DEF KeysTold
  <2> QED BY <2>1, <2>2, <2>3
<1>11. \A q : whole(q) => \A k : t(q, k)[2] = 0
  BY <1>1
<1>12. ~(whole(p) /\ vector(r)) /\ ~(vector(p) /\ whole(r))
  BY <1>4, <1>10, <1>11
<1> QED BY <1>3, <1>8, <1>9, <1>12

-----------------------------------------------------------------------------
(* Widths.                                                                 *)

LEMMA MaxSize ==
    ASSUME NEW S \in SUBSET ByteSize, S # {}
    PROVE  Max(S) \in S /\ \A x \in S : x <= Max(S)
<1>1. S \subseteq 0..3
  BY DEF ByteSize, b8, b64
<1>2. \E m \in S : \A x \in S : m >= x
  <2>1. CASE 3 \in S
    BY <1>1, <2>1
  <2>2. CASE 3 \notin S /\ 2 \in S
    BY <1>1, <2>2
  <2>3. CASE 3 \notin S /\ 2 \notin S /\ 1 \in S
    BY <1>1, <2>3
  <2>4. CASE 3 \notin S /\ 2 \notin S /\ 1 \notin S
    <3>1. \A x \in S : x = 0
      <4> TAKE x \in S
      <4>1. x \in 0..3 /\ x # 3 /\ x # 2 /\ x # 1
        BY <1>1, <2>4
      <4> QED BY <4>1
    <3> QED BY <3>1
  <2> QED BY <2>1, <2>2, <2>3, <2>4
<1>3. Max(S) \in S /\ \A x \in S : Max(S) >= x
  BY <1>2 DEF Max
<1> QED BY <1>1, <1>3

LEMMA WidthInBytes ==
    ASSUME NEW s \in ByteSize
    PROVE  /\ B(s) \in {1, 2, 4, 8} /\ B(s) \in Nat
           /\ s = 0 => B(s) = 1
           /\ s = 1 => B(s) = 2
           /\ s >= 2 => B(s) >= 4
<1>1. B(0) = 1 /\ B(1) = 2 /\ B(2) = 4 /\ B(3) = 8
  BY SMT DEF B
<1>2. s \in {0, 1, 2, 3}
  BY DEF ByteSize, b8, b64
<1> QED BY <1>1, <1>2

LEMMA ElemSizes ==
    ASSUME DocInv, NEW p, IsPart(p), OffsetsTyped(offsetPtrs)
    PROVE  /\ DOMAIN Elems(p) = 1..Count(structs, p) /\ Len(Elems(p)) = Count(structs, p)
           /\ Count(structs, p) \in Nat
           /\ \A i \in 1..Count(structs, p) :
                 /\ Elems(p)[i].type = TypeAt(structs, p, i)
                 /\ Inlined(Elems(p)[i]) <=> InlineAt(structs, p, i)
                 /\ Elems(p)[i].size \in ByteSize
                 /\ InlineAt(structs, p, i) => Elems(p)[i].size = SizeAt(structs, p, i)
                 /\ ~InlineAt(structs, p, i) =>
                       /\ Elems(p)[i].target = TargetAt(structs, p, i)
                       /\ Elems(p)[i].size = OffsetOf(TargetAt(structs, p, i)).fieldSize
<1> DEFINE n == Count(structs, p)
           T(i) == TypeAt(structs, p, i)
           Z(i) == SizeAt(structs, p, i)
           Q(i) == TargetAt(structs, p, i)
           I(i) == InlineAt(structs, p, i)
<1>1. /\ n \in Nat
      /\ \A i \in 1..n : T(i) \in VarType /\ Z(i) \in ByteSize /\ (~I(i) => Q(i) \in AnyPart)
  BY StaticTypes
<1>2. Elems(p) = [i \in 1..n |-> IF I(i) THEN [type |-> T(i), size |-> Z(i), target |-> NoPart]
                                 ELSE Refers(T(i), Q(i))]
  BY ElemsAre
<1>3. \A i \in 1..n : I(i) <=> isInline(T(i))
  BY DEF InlineAt
<1> HIDE DEF n, T, Z, Q, I
<1>4. DOMAIN Elems(p) = 1..n /\ Len(Elems(p)) = n
  BY <1>1, <1>2
<1>5. ASSUME NEW i \in 1..n
      PROVE  /\ Elems(p)[i].type = T(i)
             /\ Inlined(Elems(p)[i]) <=> I(i)
             /\ Elems(p)[i].size \in ByteSize
             /\ I(i) => Elems(p)[i].size = Z(i)
             /\ ~I(i) => Elems(p)[i].target = Q(i) /\ Elems(p)[i].size = OffsetOf(Q(i)).fieldSize
  <2>1. CASE I(i)
    <3>1. Elems(p)[i] = [type |-> T(i), size |-> Z(i), target |-> NoPart]
      BY <1>2, <2>1
    <3> QED BY <1>1, <1>3, <2>1, <3>1 DEF Inlined
  <2>2. CASE ~I(i)
    <3>1. Elems(p)[i] = Refers(T(i), Q(i))
      BY <1>2, <2>2
    <3>2. /\ Elems(p)[i].type = T(i) /\ Elems(p)[i].target = Q(i)
          /\ Elems(p)[i].size = OffsetOf(Q(i)).fieldSize
      BY <3>1 DEF Refers
    <3>3. OffsetIn(offsetPtrs, Q(i)) \in Offset
      BY <1>1, <2>2 DEF OffsetsTyped
    <3>4. OffsetOf(Q(i)).fieldSize \in ByteSize
      BY <3>3 DEF OffsetIn, OffsetOf, Offset
    <3> QED BY <1>1, <1>3, <2>2, <3>2, <3>4 DEF Inlined
  <2> QED BY <2>1, <2>2
<1> QED BY <1>1, <1>4, <1>5 DEF n, T, Z, Q, I

LEMMA WidthIs ==
    ASSUME DocInv, NEW p, IsPart(p), OffsetsTyped(offsetPtrs)
    PROVE  /\ Width(p) \in ByteSize
           /\ \A i \in 1..Count(structs, p) : Elems(p)[i].size <= Width(p)
           /\ IsWhole(p) /\ IsMap(Of(p)) =>
                 b(uintSize(written[KeysOf(p[1])].index0)) <= Width(p)
           /\ ~(IsWhole(p) /\ IsMap(Of(p))) =>
                 Width(p) = b8 \/ \E i \in 1..Count(structs, p) : Width(p) = Elems(p)[i].size
<1> DEFINE sizes == {Elems(p)[i].size : i \in DOMAIN Elems(p)}
           S == {b8} \cup sizes
<1>1. /\ DOMAIN Elems(p) = 1..Count(structs, p)
      /\ \A i \in 1..Count(structs, p) : Elems(p)[i].size \in ByteSize
  BY ElemSizes
<1>2. b8 \in ByteSize
  BY DEF ByteSize, b8, b64
<1>3. S \in SUBSET ByteSize /\ S # {} /\ \A i \in 1..Count(structs, p) : Elems(p)[i].size \in S
  BY <1>1, <1>2
<1> HIDE DEF S, sizes
<1>4. WidthOfElems(p) = Max(S)
  BY DEF WidthOfElems, S, sizes
<1>8. WidthOfElems(p) = b8 \/ \E i \in 1..Count(structs, p) : WidthOfElems(p) = Elems(p)[i].size
  <2>1. WidthOfElems(p) \in S
    BY <1>3, <1>4, MaxSize
  <2> QED BY <1>1, <2>1 DEF S, sizes
<1>5. WidthOfElems(p) \in ByteSize /\ \A i \in 1..Count(structs, p) : Elems(p)[i].size <= WidthOfElems(p)
  BY <1>3, <1>4, MaxSize
<1>6. CASE IsWhole(p) /\ IsMap(Of(p))
  <2> DEFINE k == b(uintSize(written[KeysOf(p[1])].index0))
             R == {WidthOfElems(p), k}
  <2>1. k \in ByteSize
    BY DEF b, ByteSize, b8, b16, b64
  <2> HIDE DEF k
  <2>2. R \in SUBSET ByteSize /\ R # {} /\ WidthOfElems(p) \in R /\ k \in R
    BY <1>5, <2>1
  <2> HIDE DEF R
  <2>3. Width(p) = Max(R)
    BY <1>6 DEF Width, R, k
  <2>4. Width(p) \in ByteSize /\ WidthOfElems(p) <= Width(p) /\ k <= Width(p)
    BY <2>2, <2>3, MaxSize
  <2>5. \A i \in 1..Count(structs, p) : Elems(p)[i].size <= Width(p)
    BY <1>1, <1>5, <2>4 DEF ByteSize, b8, b64
  <2> QED BY <1>6, <2>4, <2>5 DEF k
<1>7. CASE ~(IsWhole(p) /\ IsMap(Of(p)))
  BY <1>5, <1>7, <1>8 DEF Width
<1> QED BY <1>6, <1>7

-----------------------------------------------------------------------------
(* Bytes.                                                                  *)

Bytes == AnyPart \X Int \X Int

LEMMA EqualPieces ==
    ASSUME NEW T, NEW ss \in Seq(Seq(T)), NEW W \in Nat, \A k \in 1..Len(ss) : Len(ss[k]) = W
    PROVE  /\ FlattenSeq(ss) \in Seq(T) /\ Len(FlattenSeq(ss)) = Len(ss) * W
           /\ \A k \in 1..Len(ss) : \A l \in 1..W :
                 /\ (k - 1) * W + l \in 1..Len(FlattenSeq(ss))
                 /\ FlattenSeq(ss)[(k - 1) * W + l] = ss[k][l]
<1> DEFINE r == FlattenSeq(ss)
           n == Len(ss)
<1>1. r \in Seq(T) /\ \E at : Pieces(r, ss, at)
  BY FlattenedPieces
<1>2. PICK at : Pieces(r, ss, at)
  BY <1>1
<1>3. n \in Nat
  BY LenProperties
<1> HIDE DEF r, n
<1>4. /\ \A k \in 1..n : Len(ss[k]) = W
      /\ n > 0 => at[1] = 0
      /\ \A k \in 2..n : at[k] = at[k - 1] + W
      /\ Len(r) = IF n = 0 THEN 0 ELSE at[n] + W
      /\ \A k \in 1..n : \A l \in 1..W : at[k] + l \in 1..Len(r) /\ r[at[k] + l] = ss[k][l]
  <2>1. \A k \in 1..n : Len(ss[k]) = W
    BY DEF n
  <2>2. \A k \in 2..n : k - 1 \in 1..n
    BY <1>3
  <2>3. n # 0 => n \in 1..n
    BY <1>3
  <2>4. \A k \in 2..n : at[k] = at[k - 1] + Len(ss[k - 1])
    BY <1>2 DEF Pieces, n
  <2>5. \A k \in 2..n : at[k] = at[k - 1] + W
    BY <2>1, <2>2, <2>4
  <2>6. Len(r) = IF n = 0 THEN 0 ELSE at[n] + Len(ss[n])
    BY <1>2 DEF Pieces, n
  <2>7. Len(r) = IF n = 0 THEN 0 ELSE at[n] + W
    BY <2>1, <2>3, <2>6
  <2>8. n > 0 => at[1] = 0
    BY <1>2 DEF Pieces, n
  <2>9. \A k \in 1..n : \A l \in 1..Len(ss[k]) : at[k] + l \in 1..Len(r) /\ r[at[k] + l] = ss[k][l]
    BY <1>2 DEF Pieces, n
  <2> QED BY <2>1, <2>5, <2>7, <2>8, <2>9
<1> DEFINE D == {k \in 0..n : k > 0 => at[k] = (k - 1) * W}
<1>5. 0 \in D
  BY <1>3
<1>6. ASSUME NEW k \in 0..(n - 1), k \in D
      PROVE  k + 1 \in D
  <2>1. k + 1 \in 1..n /\ k \in Nat /\ (k + 1) - 1 = k
    BY <1>3
  <2>2. CASE k = 0
    BY <1>3, <1>4, <2>1, <2>2
  <2>3. CASE k # 0
    <3>1. at[k] = (k - 1) * W
      BY <1>6, <2>1, <2>3
    <3>2. at[k + 1] = (k - 1) * W + W
      BY <1>4, <2>1, <2>3, <3>1
    <3>3. (k - 1) * W + W = k * W
      BY <2>1
    <3> QED BY <2>1, <3>2, <3>3
  <2> QED BY <2>2, <2>3
<1>7. \A k \in 0..n : k \in D
  <2> HIDE DEF D
  <2> QED BY <1>3, <1>5, <1>6, UpTo
<1>8. \A k \in 1..n : at[k] = (k - 1) * W
  BY <1>3, <1>7
<1>9. Len(r) = n * W
  <2>1. CASE n = 0
    BY <1>4, <2>1
  <2>2. CASE n # 0
    <3>1. n \in 1..n
      BY <1>3, <2>2
    <3>2. (n - 1) * W + W = n * W
      BY <1>3
    <3> QED BY <1>4, <1>8, <2>2, <3>1, <3>2
  <2> QED BY <2>1, <2>2
<1> QED BY <1>1, <1>4, <1>8, <1>9 DEF r, n

LEMMA LittleEndianType ==
    ASSUME NEW n \in Int, NEW width \in Nat
    PROVE  LittleEndian(n, width) \in Seq(Bytes) /\ Len(LittleEndian(n, width)) = width
<1> DEFINE v(k) == IF k <= 3 THEN (n \div 256^(k - 1)) % 256 ELSE 0
<1>1. ASSUME NEW k \in 1..width
      PROVE  v(k) \in Int
  <2>1. CASE k <= 3
    <3>1. k - 1 \in {0, 1, 2}
      BY <2>1
    <3>2. 256^0 = 1 /\ 256^1 = 256 /\ 256^2 = 256 * 256
      BY SMT
    <3>3. 256^(k - 1) \in Nat \ {0}
      <4>1. CASE k - 1 = 0
        <5>1. 256^(k - 1) = 1
          BY <3>2, <4>1, Zenon
        <5> QED BY <5>1
      <4>2. CASE k - 1 = 1
        <5>1. 256^(k - 1) = 256
          BY <3>2, <4>2, Zenon
        <5> QED BY <5>1
      <4>3. CASE k - 1 = 2
        <5>1. 256^(k - 1) = 256 * 256
          BY <3>2, <4>3, Zenon
        <5> QED BY <5>1
      <4> QED BY <3>1, <4>1, <4>2, <4>3
    <3> QED BY <2>1, <3>3, SMT
  <2>2. CASE ~(k <= 3)
    BY <2>2
  <2> QED BY <2>1, <2>2
<1>2. LittleEndian(n, width) = [k \in 1..width |-> Byte(v(k))]
  BY DEF LittleEndian
<1> HIDE DEF v
<1>3. \A k \in 1..width : Byte(v(k)) \in Bytes
  BY <1>1 DEF Byte, Bytes, NoPart, AnyPart
<1> QED BY <1>2, <1>3

(* y is u and then v, sequences over T.                                    *)
Joined(y, u, v, T) ==
    /\ y \in Seq(T) /\ Len(y) = Len(u) + Len(v)
    /\ \A j \in 1..Len(u) : y[j] = u[j]
    /\ \A j \in 1..Len(v) : y[Len(u) + j] = v[j]

LEMMA TwoJoined ==
    ASSUME NEW T, NEW u \in Seq(T), NEW v \in Seq(T)
    PROVE  Joined(u \o v, u, v, T)
<1>1. /\ u \o v \in Seq(T) /\ Len(u \o v) = Len(u) + Len(v)
      /\ \A j \in 1..(Len(u) + Len(v)) : (u \o v)[j] = IF j <= Len(u) THEN u[j] ELSE v[j - Len(u)]
  BY ConcatProperties
<1>2. PICK m \in Nat, n \in Nat : m = Len(u) /\ n = Len(v)
  BY LenProperties
<1>3. \A j \in 1..m : j \in 1..(m + n) /\ j <= m
  BY <1>2
<1>4. \A j \in 1..n : m + j \in 1..(m + n) /\ ~(m + j <= m) /\ (m + j) - m = j
  BY <1>2
<1>5. \A j \in 1..m : (u \o v)[j] = u[j]
  BY <1>1, <1>2, <1>3
<1>6. \A j \in 1..n : (u \o v)[m + j] = v[j]
  BY <1>1, <1>2, <1>4
<1> QED BY <1>1, <1>2, <1>5, <1>6 DEF Joined

AllJoined(x, p, q, r, s, t, T) ==
    /\ x \in Seq(T)
    /\ Len(x) = Len(p) + Len(q) + Len(r) + Len(s) + Len(t)
    /\ \A j \in 1..Len(p) : x[j] = p[j]
    /\ \A j \in 1..Len(q) : x[Len(p) + j] = q[j]
    /\ \A j \in 1..Len(r) : x[Len(p) + Len(q) + j] = r[j]
    /\ \A j \in 1..Len(s) : x[Len(p) + Len(q) + Len(r) + j] = s[j]
    /\ \A j \in 1..Len(t) : x[Len(p) + Len(q) + Len(r) + Len(s) + j] = t[j]

LEMMA FiveJoined ==
    ASSUME NEW T, NEW p \in Seq(T), NEW q \in Seq(T), NEW r \in Seq(T), NEW s \in Seq(T),
           NEW t \in Seq(T)
    PROVE  AllJoined(p \o q \o r \o s \o t, p, q, r, s, t, T)
<1> DEFINE a == p \o q
           c == a \o r
           d == c \o s
           x == d \o t
<1>2. Joined(a, p, q, T) /\ a \in Seq(T)
  <2>1. Joined(a, p, q, T)
    BY TwoJoined
  <2> QED BY <2>1 DEF Joined
<1> HIDE DEF a
<1>3. Joined(c, a, r, T) /\ c \in Seq(T)
  <2>1. Joined(c, a, r, T)
    BY TwoJoined, <1>2
  <2> QED BY <2>1 DEF Joined
<1> HIDE DEF c
<1>4. Joined(d, c, s, T) /\ d \in Seq(T)
  <2>1. Joined(d, c, s, T)
    BY TwoJoined, <1>3
  <2> QED BY <2>1 DEF Joined
<1> HIDE DEF d
<1>5. Joined(x, d, t, T) /\ x \in Seq(T)
  <2>1. Joined(x, d, t, T)
    BY TwoJoined, <1>4
  <2> QED BY <2>1 DEF Joined
<1> HIDE DEF x
<1>6. PICK k \in Nat, l \in Nat, m \in Nat, n \in Nat, o \in Nat :
          k = Len(p) /\ l = Len(q) /\ m = Len(r) /\ n = Len(s) /\ o = Len(t)
  BY LenProperties
<1>7. /\ Len(a) = k + l /\ Len(c) = (k + l) + m /\ Len(d) = ((k + l) + m) + n
      /\ Len(x) = (((k + l) + m) + n) + o
  BY <1>2, <1>3, <1>4, <1>5, <1>6 DEF Joined
<1>8. /\ \A j \in 1..(((k + l) + m) + n) : x[j] = d[j]
      /\ \A j \in 1..((k + l) + m) : d[j] = c[j]
      /\ \A j \in 1..(k + l) : c[j] = a[j]
      /\ \A j \in 1..k : a[j] = p[j]
      /\ \A j \in 1..l : a[k + j] = q[j]
      /\ \A j \in 1..m : c[(k + l) + j] = r[j]
      /\ \A j \in 1..n : d[((k + l) + m) + j] = s[j]
      /\ \A j \in 1..o : x[(((k + l) + m) + n) + j] = t[j]
  BY <1>2, <1>3, <1>4, <1>5, <1>6, <1>7 DEF Joined
<1>9. x \in Seq(T)
  BY <1>5
<1>10. \A j \in 1..k : x[j] = p[j]
  <2> TAKE j \in 1..k
  <2>1. j \in 1..(((k + l) + m) + n) /\ j \in 1..((k + l) + m) /\ j \in 1..(k + l)
    BY <1>6
  <2>2. x[j] = d[j] /\ d[j] = c[j] /\ c[j] = a[j] /\ a[j] = p[j]
    BY <1>8, <2>1, Zenon
  <2> QED BY <2>2
<1>11. \A j \in 1..l : x[k + j] = q[j]
  <2> TAKE j \in 1..l
  <2>1. k + j \in 1..(((k + l) + m) + n) /\ k + j \in 1..((k + l) + m) /\ k + j \in 1..(k + l)
    BY <1>6
  <2>2. x[k + j] = d[k + j] /\ d[k + j] = c[k + j] /\ c[k + j] = a[k + j] /\ a[k + j] = q[j]
    BY <1>8, <2>1, Zenon
  <2> QED BY <2>2
<1>12. \A j \in 1..m : x[(k + l) + j] = r[j]
  <2> TAKE j \in 1..m
  <2>1. (k + l) + j \in 1..(((k + l) + m) + n) /\ (k + l) + j \in 1..((k + l) + m)
    BY <1>6
  <2> QED BY <1>8, <2>1
<1>13. \A j \in 1..n : x[((k + l) + m) + j] = s[j]
  <2> TAKE j \in 1..n
  <2>1. ((k + l) + m) + j \in 1..(((k + l) + m) + n)
    BY <1>6
  <2> QED BY <1>8, <2>1
<1>14. AllJoined(x, p, q, r, s, t, T)
  BY <1>6, <1>7, <1>8, <1>9, <1>10, <1>11, <1>12, <1>13 DEF AllJoined
<1> QED BY <1>14 DEF x, d, c, a

(* What the last call wrote, in a buffer of a length.                      *)
WrittenTyped(w, length) ==
    \A q \in DOMAIN w :
        q \in AnyPart /\ w[q].index0 \in Nat /\ w[q].index0 <= length /\ w[q].bSize \in ByteSize

TypeIn(S, p) == IF IsWhole(p) THEN S[p[1]].vType ELSE IF IsKey(p) THEN KEY ELSE VECTOR_KEY
MapHead(S, p) == IsWhole(p) /\ IsMap(S[p[1]])
CountHead(S, p) == p # RootPart /\ TypeIn(S, p) # KEY

(* The state in which p can be written.                                    *)
Ready(p) ==
    /\ DocInv /\ IsPart(p) /\ OffsetsTyped(offsetPtrs)
    /\ buff \in Seq(Bytes) /\ WrittenTyped(written, Len(buff))
    /\ \A q : Needs(p, q) => q \in DOMAIN written
    /\ p = RootPart => Elems(p) # <<>>

LEMMA ReadyFacts ==
    ASSUME NEW p, Ready(p)
    PROVE  /\ Width(p) \in ByteSize /\ B(Width(p)) \in Nat /\ B(Width(p)) > 0
           /\ Len(Elems(p)) = Count(structs, p) /\ Count(structs, p) \in Nat
           /\ DOMAIN Elems(p) = 1..Count(structs, p)
           /\ Len(buff) \in Nat
           /\ MapHead(structs, p) =>
                 /\ p # RootPart /\ TypeIn(structs, p) = MAP
                 /\ KeysOf(p[1]) \in DOMAIN written
                 /\ written[KeysOf(p[1])].index0 \in Nat
                 /\ written[KeysOf(p[1])].bSize \in ByteSize
                 /\ B(written[KeysOf(p[1])].bSize) \in Nat
           /\ TypeOf(p) = TypeIn(structs, p)
<1>1. /\ DocInv /\ IsPart(p) /\ OffsetsTyped(offsetPtrs) /\ buff \in Seq(Bytes)
      /\ WrittenTyped(written, Len(buff)) /\ \A q : Needs(p, q) => q \in DOMAIN written
  BY DEF Ready
<1>2. Width(p) \in ByteSize /\ B(Width(p)) \in Nat /\ B(Width(p)) > 0
  <2>1. Width(p) \in ByteSize
    BY <1>1, WidthIs
  <2> QED BY <2>1, WidthInBytes
<1>3. /\ Len(Elems(p)) = Count(structs, p) /\ Count(structs, p) \in Nat
      /\ DOMAIN Elems(p) = 1..Count(structs, p)
  BY <1>1, ElemSizes
<1>4. Len(buff) \in Nat
  BY <1>1, LenProperties
<1>5. TypeOf(p) = TypeIn(structs, p)
  BY DEF TypeOf, TypeIn, Of
<1>6. ASSUME MapHead(structs, p)
      PROVE  /\ p # RootPart /\ TypeIn(structs, p) = MAP
             /\ KeysOf(p[1]) \in DOMAIN written
             /\ written[KeysOf(p[1])].index0 \in Nat
             /\ written[KeysOf(p[1])].bSize \in ByteSize
             /\ B(written[KeysOf(p[1])].bSize) \in Nat
  <2>1. Needs(p, KeysOf(p[1]))
    BY <1>6 DEF MapHead, Needs, Of
  <2>2. KeysOf(p[1]) \in DOMAIN written
    BY <1>1, <2>1
  <2>3. written[KeysOf(p[1])].index0 \in Nat /\ written[KeysOf(p[1])].bSize \in ByteSize
    BY <1>1, <2>2 DEF WrittenTyped
  <2>4. structs[p[1]].vType = MAP /\ IsWhole(p)
    BY <1>6 DEF MapHead, IsMap
  <2>5. p[1] # Root
    BY <1>1, <2>4 DEF DocInv, RootInv, MAP, NULL
  <2>6. p # RootPart
    BY <2>5 DEF RootPart, WholeOf
  <2> QED BY <2>2, <2>3, <2>4, <2>6, WidthInBytes DEF TypeIn
<1> QED BY <1>2, <1>3, <1>4, <1>5, <1>6

LEMMA HeadIs ==
    ASSUME NEW p, Ready(p), NEW W, W = B(Width(p))
    PROVE  LET keys == written[KeysOf(p[1])]
               h == Head0(p)
           IN  /\ h \in Seq(Bytes) /\ Len(h) \in Nat
               /\ MapHead(structs, p) =>
                     /\ Len(h) = 3 * W
                     /\ \A l \in 1..W : h[l] = LittleEndian(Len(buff) - keys.index0, W)[l]
                     /\ \A l \in 1..W : h[W + l] = LittleEndian(B(keys.bSize), W)[l]
                     /\ \A l \in 1..W : h[2 * W + l] = LittleEndian(Count(structs, p), W)[l]
               /\ ~MapHead(structs, p) /\ CountHead(structs, p) =>
                     /\ Len(h) = W
                     /\ \A l \in 1..W : h[l] = LittleEndian(Count(structs, p), W)[l]
               /\ ~CountHead(structs, p) => Len(h) = 0
<1> DEFINE keys == written[KeysOf(p[1])]
           x == LittleEndian(Len(buff) - keys.index0, W)
           y == LittleEndian(B(keys.bSize), W)
           z == LittleEndian(Count(structs, p), W)
           map == MapHead(structs, p)
           count == CountHead(structs, p)
           m == IF map THEN x \o y ELSE <<>>
           c == IF count THEN z ELSE <<>>
<1>1. /\ W \in Nat /\ Len(Elems(p)) = Count(structs, p) /\ Count(structs, p) \in Nat
      /\ Len(buff) \in Nat
      /\ map => /\ p # RootPart /\ TypeIn(structs, p) = MAP
                /\ keys.index0 \in Nat /\ B(keys.bSize) \in Nat
      /\ TypeOf(p) = TypeIn(structs, p)
  BY ReadyFacts
<1>2. Head0(p) = m \o c
  <2>1. HeadOfMap(p) = x \o y
    BY DEF HeadOfMap
  <2>2. (IsWhole(p) /\ IsMap(Of(p))) <=> map
    BY DEF MapHead, Of
  <2>3. (p = RootPart \/ TypeOf(p) = KEY) <=> ~count
    BY <1>1 DEF CountHead
  <2>4. LittleEndian(Len(Elems(p)), B(Width(p))) = z
    BY <1>1
  <2> HIDE DEF x, y, z, map, count
  <2>5. m = IF IsWhole(p) /\ IsMap(Of(p)) THEN HeadOfMap(p) ELSE <<>>
    BY <2>1, <2>2
  <2>6. c = IF p = RootPart \/ TypeOf(p) = KEY THEN <<>>
            ELSE LittleEndian(Len(Elems(p)), B(Width(p)))
    BY <2>3, <2>4
  <2> QED BY <2>5, <2>6 DEF Head0
<1>3. map => count
  BY <1>1 DEF CountHead, MAP, KEY
<1>4. map => x \in Seq(Bytes) /\ Len(x) = W /\ y \in Seq(Bytes) /\ Len(y) = W
  <2>1. map => Len(buff) - keys.index0 \in Int /\ B(keys.bSize) \in Int
    BY <1>1
  <2> QED BY <1>1, <2>1, LittleEndianType
<1>5. z \in Seq(Bytes) /\ Len(z) = W
  BY <1>1, LittleEndianType
<1> DEFINE h == Head0(p)
<1> HIDE DEF x, y, z, map, count, h, keys
<1>6. CASE map
  <2> DEFINE xy == x \o y
  <2>1. /\ xy \in Seq(Bytes) /\ Len(xy) = W + W
        /\ \A l \in 1..W : xy[l] = x[l]
        /\ \A l \in 1..W : xy[W + l] = y[l]
    <3>1. Joined(xy, x, y, Bytes)
      BY <1>4, <1>6, TwoJoined
    <3> QED BY <1>4, <1>6, <3>1 DEF Joined
  <2>2. h = xy \o z
    BY <1>2, <1>3, <1>6 DEF h
  <2> HIDE DEF xy
  <2>3. /\ h \in Seq(Bytes) /\ Len(h) = (W + W) + W
        /\ \A l \in 1..(W + W) : h[l] = xy[l]
        /\ \A l \in 1..W : h[(W + W) + l] = z[l]
    <3>1. Joined(h, xy, z, Bytes)
      BY <1>5, <2>1, <2>2, TwoJoined
    <3> QED BY <1>5, <2>1, <3>1 DEF Joined
  <2>4. 3 * W = (W + W) + W /\ 2 * W = W + W
    BY <1>1
  <2>5. \A l \in 1..W : l \in 1..(W + W) /\ W + l \in 1..(W + W)
    BY <1>1
  <2>6. /\ \A l \in 1..W : h[l] = x[l]
        /\ \A l \in 1..W : h[W + l] = y[l]
        /\ \A l \in 1..W : h[2 * W + l] = z[l]
    BY <2>1, <2>3, <2>4, <2>5
  <2>7. Len(h) = 3 * W /\ Len(h) \in Nat
    BY <1>1, <2>3, <2>4
  <2> QED BY <1>3, <1>6, <2>3, <2>6, <2>7 DEF x, y, z, h, map, count, keys
<1>7. CASE ~map /\ count
  <2>1. h = <<>> \o z
    BY <1>2, <1>7 DEF h
  <2>2. h = z
    BY <1>5, <2>1
  <2> QED BY <1>1, <1>5, <1>7, <2>2 DEF z, h, map, count
<1>8. CASE ~map /\ ~count
  <2>1. h = <<>> \o <<>>
    BY <1>2, <1>8 DEF h
  <2>2. h \in Seq(Bytes) /\ Len(h) = 0
    BY <2>1
  <2> QED BY <1>8, <2>2 DEF h, map, count
<1> QED BY <1>3, <1>6, <1>7, <1>8

(* The sequence s stands in x, behind z elements.                          *)
Stands(x, z, s) == \A j \in 1..Len(s) : z + j \in 1..Len(x) /\ x[z + j] = s[j]

LEMMA StandsWithin ==
    ASSUME NEW x, NEW s, NEW t, NEW y \in Int, NEW z \in Int, Len(t) \in Nat,
           Stands(x, z, s), Stands(s, y, t)
    PROVE  Stands(x, z + y, t)
<1> SUFFICES ASSUME NEW j \in 1..Len(t)
             PROVE  (z + y) + j \in 1..Len(x) /\ x[(z + y) + j] = t[j]
  BY DEF Stands
<1>1. y + j \in 1..Len(s) /\ s[y + j] = t[j]
  BY DEF Stands
<1>2. z + (y + j) \in 1..Len(x) /\ x[z + (y + j)] = s[y + j]
  BY <1>1 DEF Stands
<1>3. j \in Int /\ z + (y + j) = (z + y) + j
  OBVIOUS
<1> QED BY <1>1, <1>2, <1>3

LEMMA StandsLonger ==
    ASSUME NEW x, NEW y, NEW z, NEW s, Stands(x, z, s),
           Len(x) \in Nat, Len(y) \in Nat, Len(x) <= Len(y), \A j \in 1..Len(x) : y[j] = x[j]
    PROVE  Stands(y, z, s)
<1> SUFFICES ASSUME NEW j \in 1..Len(s)
             PROVE  z + j \in 1..Len(y) /\ y[z + j] = s[j]
  BY DEF Stands
<1>1. z + j \in 1..Len(x) /\ x[z + j] = s[j]
  BY DEF Stands
<1> QED BY <1>1

LEMMA BytesOfType ==
    ASSUME NEW p, Ready(p), NEW i \in 1..Count(structs, p)
    PROVE  /\ BytesOf(p, i) \in Seq(Bytes) /\ Len(BytesOf(p, i)) = B(Width(p))
           /\ InlineAt(structs, p, i) => BytesOf(p, i) = [k \in 1..B(Width(p)) |-> <<p, i, k>>]
           /\ ~InlineAt(structs, p, i) =>
                 /\ OffsetOf(TargetAt(structs, p, i)) \in Offset
                 /\ Distance(p, i) = Index0(p) + (i - 1) - OffsetOf(TargetAt(structs, p, i)).absIndex
                 /\ Distance(p, i) \in Int
                 /\ BytesOf(p, i) = LittleEndian(Distance(p, i), B(Width(p)))
<1> DEFINE W == B(Width(p))
           q == TargetAt(structs, p, i)
<1>1. /\ W \in Nat /\ Count(structs, p) \in Nat /\ Len(buff) \in Nat
      /\ DocInv /\ IsPart(p) /\ OffsetsTyped(offsetPtrs)
  BY ReadyFacts DEF Ready
<1>2. /\ Inlined(Elems(p)[i]) <=> InlineAt(structs, p, i)
      /\ ~InlineAt(structs, p, i) => Elems(p)[i].target = q
  BY <1>1, ElemSizes
<1>3. i \in Int /\ p \in AnyPart
  BY <1>1 DEF IsPart
<1> HIDE DEF W
<1>4. CASE InlineAt(structs, p, i)
  <2>1. BytesOf(p, i) = [k \in 1..W |-> <<p, i, k>>]
    BY <1>2, <1>4 DEF BytesOf, W
  <2>2. \A k \in 1..W : <<p, i, k>> \in Bytes
    BY <1>3 DEF Bytes
  <2>3. BytesOf(p, i) \in Seq(Bytes) /\ Len(BytesOf(p, i)) = W
    BY <1>1, <2>1, <2>2
  <2> QED BY <1>4, <2>1, <2>3 DEF W
<1>5. CASE ~InlineAt(structs, p, i)
  <2>1. BytesOf(p, i) = LittleEndian(Distance(p, i), W)
    BY <1>2, <1>5 DEF BytesOf, W
  <2>2. q \in AnyPart
    BY <1>1, <1>5, StaticTypes
  <2>3. OffsetOf(q) \in Offset
    BY <1>1, <2>2 DEF OffsetsTyped, OffsetIn, OffsetOf
  <2>4. OffsetOf(q).absIndex \in Int
    BY <2>3 DEF Offset
  <2>5. Distance(p, i) = Index0(p) + (i - 1) - OffsetOf(q).absIndex
    BY <1>2, <1>5 DEF Distance
  <2>6. Index0(p) \in Int
    <3>1. Len(Head0(p)) \in Nat
      BY HeadIs
    <3> QED BY <1>1, <3>1 DEF Index0
  <2>7. Distance(p, i) \in Int
    BY <1>3, <2>4, <2>5, <2>6
  <2>8. BytesOf(p, i) \in Seq(Bytes) /\ Len(BytesOf(p, i)) = W
    BY <1>1, <2>1, <2>7, LittleEndianType
  <2> QED BY <1>5, <2>1, <2>3, <2>5, <2>7, <2>8 DEF W
<1> QED BY <1>4, <1>5

LEMMA BodyIs ==
    ASSUME NEW p, Ready(p)
    PROVE  /\ Body(p) \in Seq(Bytes) /\ Len(Body(p)) = Count(structs, p) * B(Width(p))
           /\ \A i \in 1..Count(structs, p) : Stands(Body(p), (i - 1) * B(Width(p)), BytesOf(p, i))
<1> DEFINE n == Count(structs, p)
           W == B(Width(p))
           ss == [i \in 1..n |-> BytesOf(p, i)]
<1>1. n \in Nat /\ W \in Nat /\ DOMAIN Elems(p) = 1..n
  BY ReadyFacts
<1>2. \A i \in 1..n : BytesOf(p, i) \in Seq(Bytes) /\ Len(BytesOf(p, i)) = W
  BY BytesOfType
<1>3. Body(p) = FlattenSeq(ss)
  BY <1>1 DEF Body
<1> HIDE DEF n, W
<1>4. /\ ss \in Seq(Seq(Bytes)) /\ Len(ss) = n
      /\ \A i \in 1..n : ss[i] = BytesOf(p, i)
  BY <1>1, <1>2
<1> HIDE DEF ss
<1>5. \A i \in 1..Len(ss) : Len(ss[i]) = W
  BY <1>2, <1>4
<1>6. /\ FlattenSeq(ss) \in Seq(Bytes) /\ Len(FlattenSeq(ss)) = Len(ss) * W
      /\ \A k \in 1..Len(ss) : \A l \in 1..W :
            /\ (k - 1) * W + l \in 1..Len(FlattenSeq(ss))
            /\ FlattenSeq(ss)[(k - 1) * W + l] = ss[k][l]
  BY <1>1, <1>4, <1>5, EqualPieces
<1>7. \A i \in 1..n : Stands(Body(p), (i - 1) * W, BytesOf(p, i))
  <2> TAKE i \in 1..n
  <2>1. /\ Len(ss) = n /\ ss[i] = BytesOf(p, i) /\ Len(BytesOf(p, i)) = W
        /\ Body(p) = FlattenSeq(ss)
    BY <1>2, <1>3, <1>4
  <2>2. \A l \in 1..W : /\ (i - 1) * W + l \in 1..Len(Body(p))
                        /\ Body(p)[(i - 1) * W + l] = BytesOf(p, i)[l]
    BY <1>6, <2>1
  <2> QED BY <2>1, <2>2 DEF Stands
<1> QED BY <1>3, <1>4, <1>6, <1>7 DEF n, W

LEMMA TailIs ==
    ASSUME NEW p, Ready(p)
    PROVE  /\ Tail0(p) \in Seq(Bytes) /\ Len(Tail0(p)) \in Nat
           /\ \A i \in 1..Count(structs, p) : Context(p, i) =
                 Pack(TypeAt(structs, p, i),
                      IF InlineAt(structs, p, i) THEN Width(p)
                      ELSE OffsetOf(TargetAt(structs, p, i)).targetSize)
           /\ p = RootPart => Count(structs, p) > 0 /\ Len(Tail0(p)) = 2 /\ Tail0(p)[1] = Context(p, 1)
                            /\ Tail0(p)[2] = Byte(B(Width(p)))
           /\ p # RootPart /\ TypeIn(structs, p) \in {VECTOR, MAP} =>
                 /\ Len(Tail0(p)) = Count(structs, p)
                 /\ \A i \in 1..Count(structs, p) : Tail0(p)[i] = Context(p, i)
           /\ p # RootPart /\ TypeIn(structs, p) \in {STR, KEY} =>
                 Len(Tail0(p)) = 1 /\ Tail0(p)[1] = Byte(0)
           /\ p # RootPart /\ TypeIn(structs, p) \notin {STR, KEY, VECTOR, MAP} =>
                 Len(Tail0(p)) = 0
<1> DEFINE n == Count(structs, p)
           W == B(Width(p))
           t(i) == TypeAt(structs, p, i)
           size(i) == IF InlineAt(structs, p, i) THEN Width(p)
                      ELSE OffsetOf(TargetAt(structs, p, i)).targetSize
<1>1. /\ n \in Nat /\ W \in Nat /\ DOMAIN Elems(p) = 1..n /\ Len(Elems(p)) = n
      /\ Width(p) \in ByteSize
      /\ DocInv /\ IsPart(p) /\ OffsetsTyped(offsetPtrs)
      /\ TypeOf(p) = TypeIn(structs, p)
      /\ p = RootPart => Elems(p) # <<>>
  BY ReadyFacts DEF Ready
<1>2. \A i \in 1..n : Context(p, i) = Pack(t(i), size(i))
  <2> TAKE i \in 1..n
  <2>1. /\ Elems(p)[i].type = t(i)
        /\ Inlined(Elems(p)[i]) <=> InlineAt(structs, p, i)
        /\ ~InlineAt(structs, p, i) => Elems(p)[i].target = TargetAt(structs, p, i)
    BY <1>1, ElemSizes
  <2> QED BY <2>1 DEF Context
<1>3. \A i \in 1..n : t(i) \in Int /\ size(i) \in Int
  <2> TAKE i \in 1..n
  <2>1. t(i) \in VarType
    BY <1>1, StaticTypes
  <2>2. CASE InlineAt(structs, p, i)
    BY <1>1, <2>1, <2>2, SMTT(30) DEF VarType, VECTOR_BOOL, ByteSize, b8, b64
  <2>3. CASE ~InlineAt(structs, p, i)
    <3>1. OffsetOf(TargetAt(structs, p, i)) \in Offset
      BY <2>3, BytesOfType
    <3> QED BY <2>1, <2>3, <3>1 DEF VarType, VECTOR_BOOL, ByteSize, b8, b64, Offset
  <2> QED BY <2>2, <2>3
<1> HIDE DEF n, W, t, size
<1>4. \A v \in Int : Byte(v) \in Bytes
  BY DEF Byte, Bytes, NoPart, AnyPart
<1>5. \A i \in 1..n : Context(p, i) \in Bytes
  <2> TAKE i \in 1..n
  <2>1. 4 * t(i) + size(i) \in Int
    BY <1>3
  <2> QED BY <1>2, <1>4, <2>1 DEF Pack
<1>6. CASE p = RootPart
  <2>1. n > 0
    BY <1>1, <1>6
  <2>2. 1 \in 1..n
    BY <1>1, <2>1
  <2>3. Tail0(p) = <<Context(p, 1), Byte(W)>>
    <3>1. TypeOf(p) = NULL
      BY <1>1, <1>6 DEF TypeIn, RootPart, WholeOf, IsWhole, DocInv, RootInv
    <3>2. TypeOf(p) \notin {STR, KEY}
      BY <3>1 DEF NULL, STR, KEY
    <3> QED BY <1>6, <3>2 DEF Tail0, W
  <2>4. Context(p, 1) \in Bytes /\ Byte(W) \in Bytes
    BY <1>1, <1>4, <1>5, <2>2
  <2>5. /\ Tail0(p) \in Seq(Bytes) /\ Len(Tail0(p)) = 2 /\ Tail0(p)[1] = Context(p, 1)
        /\ Tail0(p)[2] = Byte(W)
    BY <2>3, <2>4
  <2> QED BY <1>2, <1>6, <2>1, <2>5 DEF n, t, size, W
<1>7. CASE p # RootPart /\ TypeIn(structs, p) \in {VECTOR, MAP}
  <2>1. Tail0(p) = [i \in 1..n |-> Context(p, i)]
    <3>1. TypeOf(p) \in {VECTOR, MAP} /\ TypeOf(p) \notin {STR, KEY}
      BY <1>1, <1>7 DEF VECTOR, MAP, STR, KEY
    <3> QED BY <1>1, <1>7, <3>1 DEF Tail0
  <2>2. /\ Tail0(p) \in Seq(Bytes) /\ Len(Tail0(p)) = n
        /\ \A i \in 1..n : Tail0(p)[i] = Context(p, i)
    BY <1>1, <1>5, <2>1
  <2>3. TypeIn(structs, p) \notin {STR, KEY}
    BY <1>7 DEF VECTOR, MAP, STR, KEY
  <2> QED BY <1>1, <1>2, <1>7, <2>2, <2>3 DEF n, t, size
<1>8. CASE p # RootPart /\ TypeIn(structs, p) \in {STR, KEY}
  <2>1. TypeIn(structs, p) \notin {VECTOR, MAP}
    BY <1>8 DEF VECTOR, MAP, STR, KEY
  <2>2. Tail0(p) = <<Byte(0)>>
    BY <1>1, <1>8, <2>1 DEF Tail0
  <2>3. Tail0(p) \in Seq(Bytes) /\ Len(Tail0(p)) = 1 /\ Tail0(p)[1] = Byte(0)
    BY <1>4, <2>2
  <2> QED BY <1>2, <1>8, <2>1, <2>3 DEF n, t, size
<1>9. CASE p # RootPart /\ TypeIn(structs, p) \notin {STR, KEY, VECTOR, MAP}
  <2>1. Tail0(p) = <<>>
    BY <1>1, <1>9 DEF Tail0
  <2>2. Tail0(p) \in Seq(Bytes) /\ Len(Tail0(p)) = 0
    BY <2>1
  <2> QED BY <1>2, <1>9, <2>2 DEF n, t, size
<1> QED BY <1>6, <1>7, <1>8, <1>9

LEMMA PaddingType ==
    ASSUME NEW p, Ready(p), NEW length \in Nat
    PROVE  Padding(p, length) \in Seq(Bytes)
<1> DEFINE m == (-length) % B(Width(p))
<1>1. Byte(0) \in Bytes
  BY DEF Byte, Bytes, NoPart, AnyPart
<1>2. m \in Nat
  <2>1. B(Width(p)) \in Nat \ {0}
    BY ReadyFacts
  <2> QED BY <2>1
<1> HIDE DEF m
<1>3. [k \in 1..m |-> Byte(0)] \in Seq(Bytes)
  BY <1>1, <1>2
<1> QED BY <1>3 DEF Padding, m

-----------------------------------------------------------------------------
(* How a part p lies in the buffer bf, if w is what was written of the     *)
(* document S.                                                             *)

ElemLaid(S, bf, w, p, i) ==
    LET W == B(w[p].bSize)
        at == w[p].index0 + (i - 1) * W
        q == TargetAt(S, p, i)
    IN  /\ InlineAt(S, p, i) =>
              SizeAt(S, p, i) <= w[p].bSize /\ Stands(bf, at, [k \in 1..W |-> <<p, i, k>>])
        /\ ~InlineAt(S, p, i) =>
              /\ q \in DOMAIN w /\ w[q].index0 <= w[p].index0
              /\ Stands(bf, at, LittleEndian(w[p].index0 + (i - 1) - w[q].index0, W))

ContextLaid(S, bf, w, p, i) ==
    Stands(bf, w[p].index0 + Count(S, p) * B(w[p].bSize) + (i - 1),
           <<Pack(TypeAt(S, p, i), w[IF InlineAt(S, p, i) THEN p ELSE TargetAt(S, p, i)].bSize)>>)

HeadLaid(S, bf, w, p) ==
    LET W == B(w[p].bSize)
        z == w[p].index0
        keys == w[KeysOf(p[1])]
    IN  /\ CountHead(S, p) => W <= z /\ Stands(bf, z - W, LittleEndian(Count(S, p), W))
        /\ MapHead(S, p) =>
              /\ KeysOf(p[1]) \in DOMAIN w /\ keys.index0 <= z - 3 * W
              /\ b(uintSize(keys.index0)) <= w[p].bSize
              /\ Stands(bf, z - 2 * W, LittleEndian(B(keys.bSize), W))
              /\ Stands(bf, z - 3 * W, LittleEndian((z - 3 * W) - keys.index0, W))

Laid(S, bf, w, p) ==
    /\ \A i \in 1..Count(S, p) : ElemLaid(S, bf, w, p, i)
    /\ p = RootPart =>
          /\ Count(S, p) > 0 /\ ContextLaid(S, bf, w, p, 1)
          /\ Stands(bf, w[p].index0 + Count(S, p) * B(w[p].bSize) + 1, <<Byte(B(w[p].bSize))>>)
    /\ p # RootPart /\ TypeIn(S, p) \in {VECTOR, MAP} =>
          \A i \in 1..Count(S, p) : ContextLaid(S, bf, w, p, i)
    /\ p # RootPart /\ TypeIn(S, p) \in {STR, KEY} =>
          Stands(bf, w[p].index0 + Count(S, p) * B(w[p].bSize), <<Byte(0)>>)
    /\ HeadLaid(S, bf, w, p)

(* It stays there when the buffer grows and more is written.               *)
LEMMA LaidStays ==
    ASSUME NEW S, NEW bf, NEW w, NEW p, Laid(S, bf, w, p), p \in DOMAIN w,
           NEW bg, NEW v,
           Len(bf) \in Nat, Len(bg) \in Nat, Len(bf) <= Len(bg),
           \A j \in 1..Len(bf) : bg[j] = bf[j],
           \A q \in DOMAIN w : q \in DOMAIN v /\ v[q] = w[q],
           Count(S, p) \in Nat
    PROVE  Laid(S, bg, v, p)
<1>1. \A z, s : Stands(bf, z, s) => Stands(bg, z, s)
  BY StandsLonger
<1>2. v[p] = w[p]
  OBVIOUS
<1>3. ASSUME NEW i \in 1..Count(S, p)
      PROVE  ElemLaid(S, bg, v, p, i)
  <2>1. ElemLaid(S, bf, w, p, i)
    BY DEF Laid
  <2>2. CASE InlineAt(S, p, i)
    BY <1>1, <1>2, <2>1, <2>2 DEF ElemLaid
  <2>3. CASE ~InlineAt(S, p, i)
    <3> DEFINE q == TargetAt(S, p, i)
    <3>1. q \in DOMAIN w
      BY <2>1, <2>3 DEF ElemLaid
    <3>2. q \in DOMAIN v /\ v[q] = w[q]
      BY <3>1
    <3> QED BY <1>1, <1>2, <2>1, <2>3, <3>2 DEF ElemLaid
  <2> QED BY <2>2, <2>3
<1>4. ASSUME NEW i \in 1..Count(S, p), ContextLaid(S, bf, w, p, i)
      PROVE  ContextLaid(S, bg, v, p, i)
  <2>1. ElemLaid(S, bf, w, p, i)
    BY DEF Laid
  <2> DEFINE q == IF InlineAt(S, p, i) THEN p ELSE TargetAt(S, p, i)
  <2>2. q \in DOMAIN w
    BY <2>1 DEF ElemLaid
  <2>3. v[q] = w[q]
    BY <2>2
  <2> QED BY <1>1, <1>2, <1>4, <2>3 DEF ContextLaid
<1>5. p = RootPart =>
         /\ Count(S, p) > 0 /\ ContextLaid(S, bg, v, p, 1)
         /\ Stands(bg, v[p].index0 + Count(S, p) * B(v[p].bSize) + 1, <<Byte(B(v[p].bSize))>>)
  <2> SUFFICES ASSUME p = RootPart
               PROVE  /\ Count(S, p) > 0 /\ ContextLaid(S, bg, v, p, 1)
                      /\ Stands(bg, v[p].index0 + Count(S, p) * B(v[p].bSize) + 1,
                                <<Byte(B(v[p].bSize))>>)
    OBVIOUS
  <2>1. /\ Count(S, p) > 0 /\ ContextLaid(S, bf, w, p, 1)
        /\ Stands(bf, w[p].index0 + Count(S, p) * B(w[p].bSize) + 1, <<Byte(B(w[p].bSize))>>)
    BY DEF Laid
  <2>2. 1 \in 1..Count(S, p)
    BY <2>1
  <2>3. ContextLaid(S, bg, v, p, 1)
    BY <1>4, <2>1, <2>2
  <2> QED BY <1>1, <1>2, <2>1, <2>3
<1>6. HeadLaid(S, bg, v, p)
  <2>1. HeadLaid(S, bf, w, p)
    BY DEF Laid
  <2>2. KeysOf(p[1]) \in DOMAIN w => KeysOf(p[1]) \in DOMAIN v /\ v[KeysOf(p[1])] = w[KeysOf(p[1])]
    OBVIOUS
  <2> QED BY <1>1, <1>2, <2>1, <2>2 DEF HeadLaid
<1>7. p # RootPart /\ TypeIn(S, p) \in {VECTOR, MAP} =>
         \A i \in 1..Count(S, p) : ContextLaid(S, bg, v, p, i)
  BY <1>4 DEF Laid
<1>8. p # RootPart /\ TypeIn(S, p) \in {STR, KEY} =>
         Stands(bg, v[p].index0 + Count(S, p) * B(v[p].bSize), <<Byte(0)>>)
  BY <1>1, <1>2 DEF Laid
<1> QED BY <1>3, <1>5, <1>6, <1>7, <1>8 DEF Laid

BytesWith(p) == buff \o Head0(p) \o Body(p) \o Tail0(p)
BuffWith(p) == BytesWith(p) \o Padding(p, Len(BytesWith(p)))

(* The pieces of a part, in the buffer it makes.                           *)
LEMMA PiecesStand ==
    ASSUME NEW p, Ready(p), NEW x, x = BuffWith(p)
    PROVE  /\ x \in Seq(Bytes) /\ Len(x) \in Nat /\ Len(buff) \in Nat /\ Len(buff) <= Len(x)
           /\ \A j \in 1..Len(buff) : x[j] = buff[j]
           /\ Index0(p) \in Nat /\ Len(buff) <= Index0(p) /\ Index0(p) <= Len(x)
           /\ Stands(x, Len(buff), Head0(p)) /\ Stands(x, Index0(p), Body(p))
           /\ Stands(x, Index0(p) + Count(structs, p) * B(Width(p)), Tail0(p))
           /\ Len(x) = Index0(p) + Count(structs, p) * B(Width(p)) + Len(Tail0(p))
                           + Len(Padding(p, Len(BytesWith(p))))
           /\ Len(BytesWith(p)) \in Nat
<1> DEFINE h == Head0(p)
           c == Body(p)
           t == Tail0(p)
           d == Padding(p, Len(BytesWith(p)))
<1>1. /\ buff \in Seq(Bytes) /\ h \in Seq(Bytes) /\ c \in Seq(Bytes) /\ t \in Seq(Bytes)
      /\ Len(c) = Count(structs, p) * B(Width(p))
  BY HeadIs, BodyIs, TailIs DEF Ready
<1>2. d \in Seq(Bytes)
  <2>1. BytesWith(p) \in Seq(Bytes)
    BY <1>1 DEF BytesWith
  <2>2. Len(BytesWith(p)) \in Nat
    BY <2>1
  <2> QED BY <2>2, PaddingType
<1>12. Len(BytesWith(p)) \in Nat
  <2>1. BytesWith(p) \in Seq(Bytes)
    BY <1>1 DEF BytesWith
  <2> QED BY <2>1
<1>3. x = buff \o h \o c \o t \o d
  BY DEF BuffWith, BytesWith
<1>4. Index0(p) = Len(buff) + Len(h)
  BY DEF Index0
<1> HIDE DEF h, c, t, d
<1>5. /\ x \in Seq(Bytes) /\ Len(x) = Len(buff) + Len(h) + Len(c) + Len(t) + Len(d)
      /\ \A j \in 1..Len(buff) : x[j] = buff[j]
      /\ \A j \in 1..Len(h) : x[Len(buff) + j] = h[j]
      /\ \A j \in 1..Len(c) : x[Len(buff) + Len(h) + j] = c[j]
      /\ \A j \in 1..Len(t) : x[Len(buff) + Len(h) + Len(c) + j] = t[j]
  <2>1. AllJoined(x, buff, h, c, t, d, Bytes)
    BY <1>1, <1>2, <1>3, FiveJoined
  <2> QED BY <2>1 DEF AllJoined
<1>6. PICK k \in Nat, l \in Nat, m \in Nat, n \in Nat, o \in Nat :
          k = Len(buff) /\ l = Len(h) /\ m = Len(c) /\ n = Len(t) /\ o = Len(d)
  BY <1>1, <1>2, LenProperties
<1>7. Len(x) = k + l + m + n + o /\ Index0(p) = k + l
  BY <1>4, <1>5, <1>6
<1>8. Stands(x, Len(buff), h)
  BY <1>5, <1>6, <1>7 DEF Stands
<1>9. Stands(x, Index0(p), c)
  BY <1>5, <1>6, <1>7 DEF Stands
<1>10. Stands(x, Index0(p) + Len(c), t)
  BY <1>5, <1>6, <1>7 DEF Stands
<1>11. Len(x) = Index0(p) + Len(c) + Len(t) + Len(d)
  BY <1>6, <1>7
<1> QED BY <1>1, <1>12, <1>5, <1>6, <1>7, <1>8, <1>9, <1>10, <1>11 DEF h, c, t, d

WrittenWith(p) ==
    [q \in {p} \cup DOMAIN written |->
        IF q = p
        THEN [start |-> Len(buff), index0 |-> Index0(p), bSize |-> Width(p)]
        ELSE written[q]]

LEMMA WrittenWithIs ==
    ASSUME NEW p
    PROVE  /\ DOMAIN WrittenWith(p) = DOMAIN written \cup {p}
           /\ WrittenWith(p)[p].start = Len(buff)
           /\ WrittenWith(p)[p].index0 = Index0(p) /\ WrittenWith(p)[p].bSize = Width(p)
           /\ \A q \in DOMAIN written : q # p => WrittenWith(p)[q] = written[q]
<1>1. WrittenWith(p)[p] = [start |-> Len(buff), index0 |-> Index0(p), bSize |-> Width(p)]
  BY DEF WrittenWith
<1>2. DOMAIN WrittenWith(p) = {p} \cup DOMAIN written
  BY DEF WrittenWith
<1>3. \A q \in DOMAIN written : q # p => WrittenWith(p)[q] = written[q]
  BY DEF WrittenWith
<1> QED BY <1>1, <1>2, <1>3

(* Where the part p, written as w says, begins, and that it ends at e; what *)
(* else than its elements decides on its width.                            *)
Begins(S, w, p) ==
    LET W == B(w[p].bSize) IN
    /\ w[p].start \in Nat
    /\ IsKey(p) \/ p = RootPart => w[p].index0 = w[p].start
    /\ IsKeyVector(p) => w[p].index0 = w[p].start + W
    /\ MapHead(S, p) => w[p].index0 = w[p].start + 3 * W

(* A text in the root.                                                     *)
TextInRoot(S, p) ==
    IsWhole(p) /\ S[p[1]].vType \in {STR, KEY} /\ Owns(S[Root].children, p[1])

Ends(S, w, p, e) ==
    LET W == B(w[p].bSize)
        z == w[p].index0
    IN  /\ IsKey(p) => e = z + Count(S, p) + 1
        /\ IsKeyVector(p) => z + Count(S, p) * W <= e /\ e < z + (Count(S, p) + 1) * W
        /\ p = RootPart => e = z + Count(S, p) * W + 2
        /\ TextInRoot(S, p) => e = z + Count(S, p) * W + 1

(* Without offsets, the width of p is that of an element.                  *)
ElemWide(S, w, p) ==
    ~MapHead(S, p) /\ (\A i \in 1..Count(S, p) : InlineAt(S, p, i)) =>
        w[p].bSize = b8 \/ \E i \in 1..Count(S, p) : w[p].bSize = SizeAt(S, p, i)

LEMMA PaddingIs ==
    ASSUME NEW p, Ready(p), NEW length \in Nat
    PROVE  /\ Len(Padding(p, length)) \in Nat /\ Len(Padding(p, length)) < B(Width(p))
           /\ ~Padded(p) => Len(Padding(p, length)) = 0
<1> DEFINE W == B(Width(p))
           m == (-length) % W
<1>1. W \in Nat /\ W > 0
  BY ReadyFacts
<1> HIDE DEF W
<1>2. m \in Nat /\ m < W
  BY <1>1
<1> HIDE DEF m
<1>3. CASE Elems(p) # <<>> /\ Padded(p)
  <2>1. Padding(p, length) = [k \in 1..m |-> Byte(0)]
    BY <1>3 DEF Padding, m, W
  <2>2. Len(Padding(p, length)) = m
    BY <1>2, <2>1
  <2> QED BY <1>2, <1>3, <2>2 DEF W
<1>4. CASE ~(Elems(p) # <<>> /\ Padded(p))
  <2>1. Padding(p, length) = <<>>
    BY <1>4 DEF Padding
  <2> QED BY <1>1, <2>1 DEF W
<1> QED BY <1>3, <1>4

LEMMA PartEnds ==
    ASSUME NEW p, Ready(p), NEW x, x = BuffWith(p), NEW w, w = WrittenWith(p)
    PROVE  Begins(structs, w, p) /\ Ends(structs, w, p, Len(x)) /\ ElemWide(structs, w, p)
<1> DEFINE n == Count(structs, p)
           W == B(Width(p))
           d == Len(Padding(p, Len(BytesWith(p))))
           z == Index0(p)
           t == Len(Tail0(p))
<1>1. w[p].start = Len(buff) /\ w[p].index0 = z /\ w[p].bSize = Width(p)
  BY WrittenWithIs
<1>2. /\ n \in Nat /\ W \in Nat /\ W > 0 /\ Len(buff) \in Nat /\ z \in Nat
      /\ Len(x) = z + n * W + t + d /\ Len(BytesWith(p)) \in Nat
      /\ Width(p) \in ByteSize /\ DocInv /\ IsPart(p) /\ OffsetsTyped(offsetPtrs)
  BY ReadyFacts, PiecesStand DEF Ready
<1>3. d \in Nat /\ d < W /\ (~Padded(p) => d = 0)
  BY <1>2, PaddingIs
<1>4. z = Len(buff) + Len(Head0(p))
  BY DEF Index0
<1>5. /\ MapHead(structs, p) => Len(Head0(p)) = 3 * W
      /\ ~MapHead(structs, p) /\ CountHead(structs, p) => Len(Head0(p)) = W
      /\ ~CountHead(structs, p) => Len(Head0(p)) = 0
  BY HeadIs
<1>6. /\ t \in Nat
      /\ p = RootPart => t = 2
      /\ p # RootPart /\ TypeIn(structs, p) \in {STR, KEY} => t = 1
      /\ p # RootPart /\ TypeIn(structs, p) \notin {STR, KEY, VECTOR, MAP} => t = 0
  BY TailIs
<1>7. \A i \in 1..n : /\ InlineAt(structs, p, i) => Elems(p)[i].size = SizeAt(structs, p, i)
                      /\ InlineAt(structs, p, i) <=> Inlined(Elems(p)[i])
  BY <1>2, ElemSizes
<1> HIDE DEF n, W, d, z, t
<1>8. CASE IsKey(p)
  <2>1. ~IsWhole(p) /\ ~IsKeyVector(p) /\ p # RootPart
    BY <1>2, <1>8, PartKinds DEF RootPart, WholeOf, IsWhole
  <2>2. TypeIn(structs, p) = KEY /\ ~MapHead(structs, p) /\ ~CountHead(structs, p)
    BY <1>8, <2>1 DEF TypeIn, MapHead, CountHead
  <2>3. \A i \in 1..n : Elems(p)[i].size = b8 /\ SizeAt(structs, p, i) = b8
    <3> TAKE i \in 1..n
    <3>1. TypeAt(structs, p, i) = UINT /\ SizeAt(structs, p, i) = b8
      BY <2>1 DEF TypeAt, SizeAt
    <3>2. InlineAt(structs, p, i)
      BY <3>1 DEF InlineAt, isInline, UINT
    <3> QED BY <1>7, <3>1, <3>2
  <2>4. Width(p) = b8
    <3>1. Width(p) = b8 \/ \E i \in 1..n : Width(p) = Elems(p)[i].size
      BY <1>2, <2>1, WidthIs DEF n
    <3> QED BY <2>3, <3>1
  <2>5. W = 1
    BY <1>2, <2>4, WidthInBytes DEF b8, W
  <2>6. z = Len(buff) /\ Len(x) = z + n + 1
    BY <1>2, <1>3, <1>4, <1>5, <1>6, <2>1, <2>2, <2>5
  <2>7. Begins(structs, w, p)
    BY <1>1, <1>2, <2>1, <2>2, <2>6 DEF Begins
  <2>8. Ends(structs, w, p, Len(x))
    BY <1>1, <2>1, <2>6 DEF Ends, TextInRoot, n
  <2>9. ElemWide(structs, w, p)
    BY <1>1, <2>4 DEF ElemWide
  <2> QED BY <2>7, <2>8, <2>9
<1>9. CASE IsKeyVector(p)
  <2>1. ~IsWhole(p) /\ ~IsKey(p) /\ p # RootPart
    BY <1>2, <1>9, PartKinds DEF RootPart, WholeOf, IsWhole
  <2>2. TypeIn(structs, p) = VECTOR_KEY /\ ~MapHead(structs, p) /\ CountHead(structs, p)
    BY <2>1 DEF TypeIn, MapHead, CountHead, VECTOR_KEY, KEY
  <2>3. z = Len(buff) + W /\ t = 0
    BY <1>4, <1>5, <1>6, <2>1, <2>2 DEF VECTOR_KEY, KEY, STR, VECTOR, MAP
  <2>4. n * W \in Nat /\ (n + 1) * W = n * W + W
    BY <1>2
  <2>5. z + n * W <= Len(x) /\ Len(x) < z + (n + 1) * W
    BY <1>2, <1>3, <2>3, <2>4
  <2>6. Begins(structs, w, p)
    BY <1>1, <1>2, <2>1, <2>2, <2>3 DEF Begins, W
  <2>7. Ends(structs, w, p, Len(x))
    BY <1>1, <2>1, <2>5 DEF Ends, TextInRoot, n, W
  <2>8. \A i \in 1..n : ~InlineAt(structs, p, i)
    BY <1>9, <2>1 DEF InlineAt, TypeAt, isInline, KEY, BOOL
  <2>9. n = 0 => Width(p) = b8
    BY <1>2, <2>1, WidthIs DEF n
  <2>10. ElemWide(structs, w, p)
    BY <1>1, <1>2, <2>8, <2>9 DEF ElemWide, n
  <2> QED BY <2>6, <2>7, <2>10
<1>10. CASE IsWhole(p) /\ ~IsKey(p) /\ ~IsKeyVector(p)
  <2>1. /\ MapHead(structs, p) => z = Len(buff) + 3 * W
        /\ p = RootPart => z = Len(buff)
    BY <1>2, <1>4, <1>5 DEF CountHead
  <2>2. Begins(structs, w, p)
    BY <1>1, <1>2, <1>10, <2>1 DEF Begins, W
  <2>3. p = RootPart => Len(x) = z + n * W + 2
    <3>1. p = RootPart => d = 0
      BY <1>3 DEF Padded
    <3> QED BY <1>2, <1>6, <3>1
  <2>4. TextInRoot(structs, p) => Len(x) = z + n * W + 1
    <3> SUFFICES ASSUME TextInRoot(structs, p) PROVE Len(x) = z + n * W + 1
      OBVIOUS
    <3>1. /\ p # RootPart /\ TypeIn(structs, p) \in {STR, KEY}
      BY <1>2, <1>10 DEF TextInRoot, TypeIn, RootPart, WholeOf, DocInv, RootInv, NULL, STR, KEY
    <3>2. ~Padded(p)
      BY <1>10 DEF TextInRoot, Padded, Owns, ToSet
    <3> QED BY <1>2, <1>3, <1>6, <3>1, <3>2
  <2>5. Ends(structs, w, p, Len(x))
    BY <1>1, <1>10, <2>3, <2>4 DEF Ends, n, W
  <2>6. ElemWide(structs, w, p)
    <3> SUFFICES ASSUME ~MapHead(structs, p), \A i \in 1..n : InlineAt(structs, p, i)
                 PROVE  Width(p) = b8 \/ \E i \in 1..n : Width(p) = SizeAt(structs, p, i)
      BY <1>1 DEF ElemWide, n
    <3>1. Width(p) = b8 \/ \E i \in 1..n : Width(p) = Elems(p)[i].size
      BY <1>2, WidthIs DEF n, MapHead, Of
    <3> QED BY <1>7, <3>1
  <2> QED BY <2>2, <2>5, <2>6
<1> QED BY <1>2, <1>8, <1>9, <1>10, PartKinds

(* The elements that refer to the targets of p know where these are.       *)
TargetsTold(p) ==
    \A i \in 1..Count(structs, p) : ~InlineAt(structs, p, i) =>
        LET q == TargetAt(structs, p, i) IN
        /\ q \in DOMAIN written /\ q # p
        /\ OffsetOf(q).absIndex = written[q].index0 /\ OffsetOf(q).targetSize = written[q].bSize

(* Serialization lays down a part.                                         *)
LEMMA PartLaid ==
    ASSUME NEW p, Ready(p), p \notin DOMAIN written, TargetsTold(p),
           NEW x, x = BuffWith(p), NEW w, w = WrittenWith(p)
    PROVE  Laid(structs, x, w, p)
<1> DEFINE n == Count(structs, p)
           W == B(Width(p))
           z == Index0(p)
           T(i) == TargetAt(structs, p, i)
           I(i) == InlineAt(structs, p, i)
<1>1. /\ x \in Seq(Bytes) /\ Len(x) \in Nat /\ Len(buff) \in Nat
      /\ z \in Nat /\ Len(buff) <= z
      /\ Stands(x, Len(buff), Head0(p)) /\ Stands(x, z, Body(p))
      /\ Stands(x, z + n * W, Tail0(p))
  BY PiecesStand
<1>2. /\ w[p].index0 = z /\ w[p].bSize = Width(p) /\ p \in DOMAIN w
      /\ \A q \in DOMAIN written : q # p => q \in DOMAIN w /\ w[q] = written[q]
  BY WrittenWithIs
<1>3. /\ n \in Nat /\ W \in Nat /\ W > 0 /\ Width(p) \in ByteSize
      /\ WrittenTyped(written, Len(buff)) /\ DocInv /\ IsPart(p) /\ OffsetsTyped(offsetPtrs)
      /\ TypeOf(p) = TypeIn(structs, p)
  BY ReadyFacts DEF Ready
<1>4. \A i \in 1..n : ~I(i) =>
         /\ T(i) \in DOMAIN written /\ w[T(i)] = written[T(i)] /\ T(i) \in DOMAIN w
         /\ OffsetOf(T(i)).absIndex = written[T(i)].index0
         /\ OffsetOf(T(i)).targetSize = written[T(i)].bSize
         /\ written[T(i)].index0 \in Nat /\ written[T(i)].index0 <= Len(buff)
  BY <1>2, <1>3 DEF TargetsTold, WrittenTyped
<1> HIDE DEF n, W, z, T, I
<1>5. ASSUME NEW i \in 1..n
      PROVE  ElemLaid(structs, x, w, p, i)
  <2>1. Stands(x, z + (i - 1) * W, BytesOf(p, i))
    <3>1. Stands(Body(p), (i - 1) * W, BytesOf(p, i)) /\ Len(BytesOf(p, i)) = W
      BY BodyIs, BytesOfType DEF n, W
    <3>2. (i - 1) * W \in Int
      BY <1>3
    <3> QED BY <1>1, <1>3, <3>1, <3>2, StandsWithin
  <2>2. CASE I(i)
    <3>1. BytesOf(p, i) = [k \in 1..W |-> <<p, i, k>>]
      BY <2>2, BytesOfType DEF n, W, I
    <3>2. SizeAt(structs, p, i) <= Width(p)
      BY <1>3, <2>2, ElemSizes, WidthIs DEF n, I
    <3> QED BY <1>2, <2>1, <2>2, <3>1, <3>2 DEF ElemLaid, I, W
  <2>3. CASE ~I(i)
    <3>1. /\ BytesOf(p, i) = LittleEndian(Distance(p, i), W)
          /\ Distance(p, i) = z + (i - 1) - OffsetOf(T(i)).absIndex
      BY <2>3, BytesOfType DEF n, W, I, T, z
    <3>2. Distance(p, i) = z + (i - 1) - w[T(i)].index0
      BY <1>4, <2>3, <3>1
    <3>3. w[T(i)].index0 <= z
      BY <1>1, <1>4, <2>3
    <3>4. Stands(x, z + (i - 1) * W, LittleEndian(z + (i - 1) - w[T(i)].index0, W))
      BY <2>1, <3>1, <3>2
    <3> QED BY <1>2, <1>4, <2>3, <3>3, <3>4 DEF ElemLaid, I, W, T
  <2> QED BY <2>2, <2>3
<1>6. ASSUME NEW i \in 1..n, i \in 1..Len(Tail0(p)), Tail0(p)[i] = Context(p, i)
      PROVE  ContextLaid(structs, x, w, p, i)
  <2> DEFINE s == w[IF I(i) THEN p ELSE T(i)].bSize
  <2>1. Context(p, i) = Pack(TypeAt(structs, p, i),
                             IF I(i) THEN Width(p) ELSE OffsetOf(T(i)).targetSize)
    BY TailIs DEF n, I, T
  <2>2. s = IF I(i) THEN Width(p) ELSE OffsetOf(T(i)).targetSize
    BY <1>2, <1>4
  <2> HIDE DEF s
  <2>3. (z + n * W) + i \in 1..Len(x) /\ x[(z + n * W) + i] = Pack(TypeAt(structs, p, i), s)
    BY <1>1, <1>6, <2>1, <2>2 DEF Stands
  <2>4. (z + n * W + (i - 1)) + 1 = (z + n * W) + i
    <3>1. z + n * W \in Int /\ i \in Int
      BY <1>1, <1>3
    <3> QED BY <3>1
  <2>5. Stands(x, z + n * W + (i - 1), <<Pack(TypeAt(structs, p, i), s)>>)
    BY <2>3, <2>4 DEF Stands
  <2> QED BY <1>2, <2>5 DEF ContextLaid, s, n, W, I, T
<1>7. p = RootPart =>
         /\ n > 0 /\ ContextLaid(structs, x, w, p, 1)
         /\ Stands(x, z + n * W + 1, <<Byte(W)>>)
  <2> SUFFICES ASSUME p = RootPart
               PROVE  /\ n > 0 /\ ContextLaid(structs, x, w, p, 1)
                      /\ Stands(x, z + n * W + 1, <<Byte(W)>>)
    OBVIOUS
  <2>1. /\ n > 0 /\ Len(Tail0(p)) = 2 /\ Tail0(p)[1] = Context(p, 1)
        /\ Tail0(p)[2] = Byte(W)
    BY TailIs DEF n, W
  <2>2. 1 \in 1..n /\ 1 \in 1..Len(Tail0(p)) /\ 2 \in 1..Len(Tail0(p))
    BY <1>3, <2>1
  <2>3. ContextLaid(structs, x, w, p, 1)
    BY <1>6, <2>1, <2>2
  <2>4. (z + n * W) + 2 \in 1..Len(x) /\ x[(z + n * W) + 2] = Byte(W)
    BY <1>1, <2>1, <2>2 DEF Stands
  <2>5. ((z + n * W) + 1) + 1 = (z + n * W) + 2
    <3>1. z + n * W \in Int
      BY <1>1, <1>3
    <3> QED BY <3>1
  <2>6. Stands(x, z + n * W + 1, <<Byte(W)>>)
    BY <2>4, <2>5 DEF Stands
  <2> QED BY <2>1, <2>3, <2>6
<1>8. p # RootPart /\ TypeIn(structs, p) \in {VECTOR, MAP} =>
         \A i \in 1..n : ContextLaid(structs, x, w, p, i)
  BY <1>6, TailIs DEF n
<1>9. p # RootPart /\ TypeIn(structs, p) \in {STR, KEY} => Stands(x, z + n * W, <<Byte(0)>>)
  <2> SUFFICES ASSUME p # RootPart, TypeIn(structs, p) \in {STR, KEY}
               PROVE  Stands(x, z + n * W, <<Byte(0)>>)
    OBVIOUS
  <2>1. Len(Tail0(p)) = 1 /\ Tail0(p)[1] = Byte(0)
    BY TailIs
  <2>2. (z + n * W) + 1 \in 1..Len(x) /\ x[(z + n * W) + 1] = Byte(0)
    BY <1>1, <2>1 DEF Stands
  <2> QED BY <2>2 DEF Stands
<1>10. HeadLaid(structs, x, w, p)
  <2> DEFINE k == KeysOf(p[1])
             h == Head0(p)
             map == MapHead(structs, p)
             count == CountHead(structs, p)
             L == Len(buff)
             u == LittleEndian(L - written[k].index0, W)
             v == LittleEndian(B(written[k].bSize), W)
             y == LittleEndian(n, W)
  <2>1. /\ map => /\ Len(h) = 3 * W
                  /\ \A l \in 1..W : h[l] = u[l]
                  /\ \A l \in 1..W : h[W + l] = v[l]
                  /\ \A l \in 1..W : h[2 * W + l] = y[l]
        /\ ~map /\ count => Len(h) = W /\ \A l \in 1..W : h[l] = y[l]
    BY HeadIs DEF n, W
  <2>2. z = L + Len(h)
    BY DEF Index0, z
  <2>3. map => /\ p # RootPart /\ TypeIn(structs, p) = MAP
               /\ k \in DOMAIN written /\ written[k].index0 \in Nat /\ written[k].index0 <= L
               /\ B(written[k].bSize) \in Nat
    BY <1>3, ReadyFacts DEF WrittenTyped
  <2>4. map => count
    BY <2>3 DEF CountHead, MAP, KEY
  <2>5. map => k # p /\ k \in DOMAIN w /\ w[k] = written[k]
    BY <1>2, <2>3
  <2>6. map => b(uintSize(written[k].index0)) <= Width(p)
    BY <1>3, WidthIs DEF MapHead, Of
  <2>7. Stands(x, L, h) /\ L \in Nat
    BY <1>1
  <2>8. Len(y) = W /\ (map => Len(u) = W /\ Len(v) = W)
    <3>1. Len(y) = W
      BY <1>3, LittleEndianType
    <3>2. map => L - written[k].index0 \in Int /\ B(written[k].bSize) \in Int
      BY <2>3, <2>7
    <3> QED BY <1>3, <3>1, <3>2, LittleEndianType
  <2> HIDE DEF k, h, map, count, L, u, v, y
  <2>9. ASSUME map
        PROVE  /\ Stands(x, z - 3 * W, u) /\ Stands(x, z - 2 * W, v) /\ Stands(x, z - W, y)
               /\ L = z - 3 * W /\ W <= z
    <3>1. Len(h) = 3 * W
      BY <2>1, <2>9
    <3>2. z = L + 3 * W
      BY <2>2, <3>1
    <3>3. \A l \in 1..W : /\ 0 + l \in 1..Len(h) /\ h[0 + l] = u[l]
                          /\ W + l \in 1..Len(h) /\ h[W + l] = v[l]
                          /\ 2 * W + l \in 1..Len(h) /\ h[2 * W + l] = y[l]
      BY <1>3, <2>1, <2>9, <3>1
    <3>4. Stands(h, 0, u) /\ Stands(h, W, v) /\ Stands(h, 2 * W, y)
      BY <2>8, <2>9, <3>3 DEF Stands
    <3>5. Stands(x, L + 0, u) /\ Stands(x, L + W, v) /\ Stands(x, L + 2 * W, y)
      <4>1. Len(u) \in Nat /\ Len(v) \in Nat /\ Len(y) \in Nat
        BY <1>3, <2>8, <2>9
      <4>2. 0 \in Int /\ W \in Int /\ 2 * W \in Int /\ L \in Int
        BY <1>3, <2>7
      <4>3. Stands(x, L + 0, u)
        BY <2>7, <3>4, <4>1, <4>2, StandsWithin
      <4>4. Stands(x, L + W, v)
        BY <2>7, <3>4, <4>1, <4>2, StandsWithin
      <4>5. Stands(x, L + 2 * W, y)
        BY <2>7, <3>4, <4>1, <4>2, StandsWithin
      <4> QED BY <4>3, <4>4, <4>5
    <3>6. L + 0 = z - 3 * W /\ L + W = z - 2 * W /\ L + 2 * W = z - W /\ L = z - 3 * W /\ W <= z
      BY <1>3, <2>7, <3>2
    <3> QED BY <3>5, <3>6
  <2>10. ASSUME ~map, count
         PROVE  Stands(x, z - W, y) /\ W <= z
    <3>1. Len(h) = W /\ \A l \in 1..W : h[l] = y[l]
      BY <2>1, <2>10
    <3>2. z - W = L /\ W <= z
      BY <1>3, <2>2, <2>7, <3>1
    <3>3. Stands(x, L, y)
      BY <2>7, <2>8, <3>1 DEF Stands
    <3> QED BY <3>2, <3>3
  <2>11. count => W <= z /\ Stands(x, z - W, y)
    BY <2>9, <2>10
  <2>12. map => /\ k \in DOMAIN w /\ w[k].index0 <= z - 3 * W
                /\ b(uintSize(w[k].index0)) <= Width(p)
                /\ Stands(x, z - 2 * W, LittleEndian(B(w[k].bSize), W))
                /\ Stands(x, z - 3 * W, LittleEndian((z - 3 * W) - w[k].index0, W))
    <3> SUFFICES ASSUME map
                 PROVE  /\ k \in DOMAIN w /\ w[k].index0 <= z - 3 * W
                        /\ b(uintSize(w[k].index0)) <= Width(p)
                        /\ Stands(x, z - 2 * W, LittleEndian(B(w[k].bSize), W))
                        /\ Stands(x, z - 3 * W, LittleEndian((z - 3 * W) - w[k].index0, W))
      OBVIOUS
    <3>1. w[k] = written[k] /\ L = z - 3 * W
      BY <2>5, <2>9
    <3>2. u = LittleEndian((z - 3 * W) - w[k].index0, W) /\ v = LittleEndian(B(w[k].bSize), W)
      BY <3>1 DEF u, v
    <3> QED BY <2>3, <2>5, <2>6, <2>9, <3>1, <3>2
  <2> QED BY <1>2, <2>11, <2>12 DEF HeadLaid, W, n, map, count, k, y
<1> QED BY <1>2, <1>5, <1>7, <1>8, <1>9, <1>10 DEF Laid, n, W

-----------------------------------------------------------------------------
(* The states of a call.                                                   *)

RefersIn(S, w, q) ==
    \E r \in DOMAIN w : \E i \in 1..Count(S, r) : ~InlineAt(S, r, i) /\ TargetAt(S, r, i) = q

(* The element that refers to a part knows where the part is until the     *)
(* structure around the element is written, and its width for ever.        *)
OffsetsKept(S, w, o) ==
    \A q \in DOMAIN w :
        /\ OffsetIn(o, q).targetSize = w[q].bSize
        /\ ~RefersIn(S, w, q) => OffsetIn(o, q).absIndex = w[q].index0

(* Where the j-th part of P starts, if n of them are written, in length    *)
(* bytes: each part behind the one before.                                 *)
StartAt(w, P, n, length, j) == IF j > n THEN length ELSE w[P[j]].start

Follows(S, w, P, n, length) ==
    \A j \in 1..n : /\ Begins(S, w, P[j]) /\ ElemWide(S, w, P[j])
                    /\ Ends(S, w, P[j], StartAt(w, P, n, length, j + 1))

(* The last call has written the first parts of a good order, and the      *)
(* others are still to be written, or it has come to its end.              *)
WrittenUpTo(P, n) ==
    /\ DOMAIN written = {P[k] : k \in 1..n}
    /\ todo = <<>> \/ todo = SubSeq(P, n + 1, Len(P))
    /\ Follows(structs, written, P, n, Len(buff))

Progress ==
    \/ DOMAIN written = {} /\ todo = <<>>
    \/ \E P : Good(P, Root) /\ \E n \in 0..Len(P) : WrittenUpTo(P, n)

LayInv ==
    /\ buff \in Seq(Bytes)
    /\ Progress
    /\ WrittenTyped(written, Len(buff))
    /\ OffsetsTyped(offsetPtrs)
    /\ OffsetsKept(structs, written, offsetPtrs)
    /\ \A q \in DOMAIN written : Laid(structs, buff, written, q)

LEMMA WrittenAreParts ==
    ASSUME Progress, NEW q \in DOMAIN written
    PROVE  IsPart(q)
<1>1. PICK P : Good(P, Root) /\ \E n \in 0..Len(P) : WrittenUpTo(P, n)
  BY DEF Progress
<1>2. PICK n \in 0..Len(P) : WrittenUpTo(P, n)
  BY <1>1
<1>3. Len(P) \in Nat /\ \A j \in 1..Len(P) : IsPart(P[j])
  BY <1>1 DEF Good
<1>4. PICK k \in 1..n : q = P[k]
  BY <1>2 DEF WrittenUpTo
<1>5. k \in 1..Len(P)
  BY <1>3
<1> QED BY <1>3, <1>4, <1>5

LEMMA RestOf ==
    ASSUME NEW T, NEW P \in Seq(T), NEW n \in 0..Len(P), NEW t, t = SubSeq(P, n + 1, Len(P)), t # <<>>
    PROVE  /\ n + 1 \in 1..Len(P) /\ Head(t) = P[n + 1]
           /\ Tail(t) = SubSeq(P, (n + 1) + 1, Len(P))
<1>1. Len(P) \in Nat /\ n \in Nat /\ n <= Len(P)
  BY LenProperties
<1>2. n # Len(P)
  <2> SUFFICES ASSUME n = Len(P) PROVE FALSE
    OBVIOUS
  <2>1. SubSeq(P, n + 1, Len(P)) = <<>>
    BY <1>1, SubSeqEmpty
  <2> QED BY <2>1
<1>3. n + 1 \in 1..Len(P) /\ Len(P) \in 1..Len(P) /\ n + 1 <= Len(P)
  BY <1>1, <1>2
<1>4. Head(SubSeq(P, n + 1, Len(P))) = P[n + 1] /\ Tail(SubSeq(P, n + 1, Len(P))) = SubSeq(P, (n + 1) + 1, Len(P))
  BY <1>1, <1>3, HeadTailOfSubSeq
<1> QED BY <1>3, <1>4

(* The next part can be written: what it needs is there, it is not, nothing *)
(* refers to it, and it can tell where what it refers to is.               *)
LEMMA NextIsReady ==
    ASSUME DocInv, LayInv, todo # <<>>, NEW p, p = Head(todo), p = RootPart => Elems(p) # <<>>
    PROVE  /\ Ready(p) /\ p \notin DOMAIN written /\ TargetsTold(p)
           /\ ~RefersIn(structs, written, p)
           /\ \E P : Good(P, Root) /\ \E n \in 0..(Len(P) - 1) :
                 /\ WrittenUpTo(P, n) /\ p = P[n + 1]
                 /\ Tail(todo) = SubSeq(P, (n + 1) + 1, Len(P))
<1>1. PICK P : Good(P, Root) /\ \E n \in 0..Len(P) : WrittenUpTo(P, n)
  BY DEF LayInv, Progress
<1>2. PICK n \in 0..Len(P) : WrittenUpTo(P, n)
  BY <1>1
<1>3. /\ P \in Seq(AnyPart) /\ Len(P) \in Nat /\ \A j \in 1..Len(P) : IsPart(P[j])
      /\ Closed(P) /\ Once(P)
  BY <1>1 DEF Good
<1>4. DOMAIN written = {P[k] : k \in 1..n} /\ todo = SubSeq(P, n + 1, Len(P))
  BY <1>2 DEF WrittenUpTo
<1>5. /\ n + 1 \in 1..Len(P) /\ p = P[n + 1]
      /\ Tail(todo) = SubSeq(P, (n + 1) + 1, Len(P))
  BY <1>3, <1>4, RestOf
<1>6. IsPart(p)
  BY <1>3, <1>5
<1>7. \A q : Needs(p, q) => q \in DOMAIN written
  <2> SUFFICES ASSUME NEW q, Needs(p, q) PROVE q \in DOMAIN written
    OBVIOUS
  <2>1. PICK k \in 1..((n + 1) - 1) : P[k] = q
    BY <1>3, <1>5 DEF Closed
  <2>2. k \in 1..n
    OBVIOUS
  <2> QED BY <1>4, <2>1, <2>2
<1>8. p \notin DOMAIN written
  <2> SUFFICES ASSUME p \in DOMAIN written PROVE FALSE
    OBVIOUS
  <2>1. PICK k \in 1..n : p = P[k]
    BY <1>4
  <2>2. k \in 1..Len(P) /\ k # n + 1
    BY <1>3, <1>5
  <2> QED BY <1>3, <1>5, <2>1, <2>2 DEF Once
<1>9. \A r \in DOMAIN written : ~Needs(r, p)
  <2> SUFFICES ASSUME NEW r \in DOMAIN written, Needs(r, p) PROVE FALSE
    OBVIOUS
  <2>1. PICK k \in 1..n : r = P[k]
    BY <1>4
  <2>2. k \in 1..Len(P)
    BY <1>3, <1>5
  <2>3. PICK m \in 1..(k - 1) : P[m] = p
    BY <1>3, <2>1, <2>2 DEF Closed
  <2>4. m \in 1..n
    OBVIOUS
  <2> QED BY <1>4, <1>8, <2>3, <2>4
<1>10. \A r \in DOMAIN written : IsPart(r)
  BY WrittenAreParts DEF LayInv
<1>11. ~RefersIn(structs, written, p)
  BY <1>9, <1>10, TargetNeeded DEF RefersIn
<1>12. Ready(p)
  BY <1>6, <1>7 DEF LayInv, Ready
<1>13. TargetsTold(p)
  <2> SUFFICES ASSUME NEW i \in 1..Count(structs, p), ~InlineAt(structs, p, i),
                      NEW q, q = TargetAt(structs, p, i)
               PROVE  /\ q \in DOMAIN written /\ q # p
                      /\ OffsetOf(q).absIndex = written[q].index0
                      /\ OffsetOf(q).targetSize = written[q].bSize
    BY DEF TargetsTold
  <2>1. Needs(p, q)
    BY <1>6, TargetNeeded
  <2>2. q \in DOMAIN written /\ q # p
    BY <1>7, <1>8, <2>1
  <2>3. ~RefersIn(structs, written, q)
    <3> SUFFICES ASSUME NEW r \in DOMAIN written, NEW j \in 1..Count(structs, r),
                        ~InlineAt(structs, r, j), TargetAt(structs, r, j) = q
                 PROVE  FALSE
      BY DEF RefersIn
    <3>1. p = r
      BY <1>6, <1>10, TargetOnce
    <3> QED BY <1>8, <3>1
  <2>4. /\ OffsetIn(offsetPtrs, q).targetSize = written[q].bSize
        /\ OffsetIn(offsetPtrs, q).absIndex = written[q].index0
    BY <2>2, <2>3 DEF LayInv, OffsetsKept
  <2> QED BY <2>2, <2>4 DEF OffsetIn, OffsetOf
<1>14. n \in 0..(Len(P) - 1)
  BY <1>3, <1>5
<1> QED BY <1>1, <1>2, <1>5, <1>8, <1>11, <1>12, <1>13, <1>14

LEMMA RenewedIs ==
    ASSUME NEW p, Ready(p), NEW o, o = RenewOffsets(p)
    PROVE  /\ OffsetIn(o, p).absIndex = Index0(p) /\ OffsetIn(o, p).targetSize = Width(p)
           /\ OffsetIn(o, p).fieldSize = OffsetOf(p).fieldSize
           /\ OffsetIn(o, p) \in Offset
           /\ \A q : q # p =>
                 \/ OffsetIn(o, q) = OffsetIn(offsetPtrs, q)
                 \/ /\ OffsetIn(o, q) \in Offset
                    /\ OffsetIn(o, q).targetSize = OffsetIn(offsetPtrs, q).targetSize
                    /\ \E i \in 1..Count(structs, p) :
                          /\ ~InlineAt(structs, p, i) /\ TargetAt(structs, p, i) = q
                          /\ OffsetIn(o, q).fieldSize = uintSize(Distance(p, i))
<1> DEFINE n == Count(structs, p)
           T(i) == TargetAt(structs, p, i)
           I(i) == InlineAt(structs, p, i)
           targets == {Elems(p)[i].target : i \in Offsets(p)} \ {p}
           new(q) == NewOffset(p, CHOOSE i \in Offsets(p) : Elems(p)[i].target = q)
           renewed == [OffsetOf(p) EXCEPT !.absIndex = Index0(p), !.targetSize = Width(p)]
<1>1. /\ DocInv /\ IsPart(p) /\ OffsetsTyped(offsetPtrs) /\ Width(p) \in ByteSize
      /\ Index0(p) \in Nat
  BY ReadyFacts, PiecesStand DEF Ready
<1>2. /\ DOMAIN Elems(p) = 1..n
      /\ \A i \in 1..n : /\ Inlined(Elems(p)[i]) <=> I(i)
                         /\ ~I(i) => Elems(p)[i].target = T(i)
  BY <1>1, ElemSizes
<1>3. \A i : i \in Offsets(p) <=> i \in 1..n /\ ~I(i)
  BY <1>2 DEF Offsets
<1>4. o = [q \in {p} \cup targets \cup DOMAIN offsetPtrs |->
             CASE q = p -> renewed
               [] q \in targets -> new(q)
               [] OTHER -> offsetPtrs[q]]
  BY DEF RenewOffsets
<1>5. OffsetOf(p) \in Offset
  <2>1. p \in AnyPart
    BY <1>1 DEF IsPart
  <2> QED BY <1>1, <2>1 DEF OffsetsTyped, OffsetIn, OffsetOf
<1>6. p \notin targets
  OBVIOUS
<1>7. \A q \in targets : q # p /\ \E i \in Offsets(p) : Elems(p)[i].target = q
  OBVIOUS
<1> HIDE DEF n, T, I, targets, new, renewed
<1>8. /\ renewed.absIndex = Index0(p) /\ renewed.targetSize = Width(p)
      /\ renewed.fieldSize = OffsetOf(p).fieldSize
      /\ renewed \in Offset
  <2> DEFINE f == OffsetOf(p)
  <2>1. f \in [absIndex : Int, fieldSize : ByteSize, targetSize : ByteSize]
    BY <1>5 DEF Offset
  <2>2. renewed = [f EXCEPT !.absIndex = Index0(p), !.targetSize = Width(p)]
    BY DEF renewed
  <2> HIDE DEF f
  <2>3. renewed = [absIndex |-> Index0(p), fieldSize |-> f.fieldSize, targetSize |-> Width(p)]
    BY <2>1, <2>2
  <2>4. /\ renewed.absIndex = Index0(p) /\ renewed.targetSize = Width(p)
        /\ renewed.fieldSize = f.fieldSize
        /\ renewed \in Offset
    BY <1>1, <2>1, <2>3 DEF Offset
  <2> QED BY <2>4 DEF f
<1>9. OffsetIn(o, p) = renewed
  <2>1. p \in DOMAIN o /\ o[p] = renewed
    BY <1>4, <1>6
  <2> QED BY <2>1 DEF OffsetIn
<1>10. ASSUME NEW q \in targets
       PROVE  /\ OffsetIn(o, q) \in Offset
              /\ OffsetIn(o, q).targetSize = OffsetIn(offsetPtrs, q).targetSize
              /\ \E i \in 1..n : /\ ~I(i) /\ T(i) = q
                                /\ OffsetIn(o, q).fieldSize = uintSize(Distance(p, i))
  <2>1. q # p /\ \E i \in Offsets(p) : Elems(p)[i].target = q
    BY <1>7
  <2>2. q \in DOMAIN o /\ o[q] = new(q)
    BY <1>4, <2>1
  <2>3. PICK i \in Offsets(p) : Elems(p)[i].target = q /\ new(q) = NewOffset(p, i)
    BY <2>1, Zenon DEF new
  <2>4. i \in 1..n /\ ~I(i) /\ T(i) = q
    BY <1>2, <1>3, <2>3
  <2>5. OffsetOf(q) \in Offset /\ Distance(p, i) \in Int
    BY <2>4, BytesOfType DEF n, I, T
  <2>6. NewOffset(p, i) = [absIndex |-> Distance(p, i), fieldSize |-> uintSize(Distance(p, i)),
                           targetSize |-> OffsetOf(q).targetSize]
    BY <2>3 DEF NewOffset
  <2>7. uintSize(Distance(p, i)) \in ByteSize
    BY DEF uintSize, ByteSize, b8, b64
  <2>8. OffsetIn(o, q) = NewOffset(p, i)
    BY <2>2, <2>3 DEF OffsetIn
  <2>9. /\ OffsetIn(o, q) \in Offset /\ OffsetIn(o, q).targetSize = OffsetOf(q).targetSize
        /\ OffsetIn(o, q).fieldSize = uintSize(Distance(p, i))
    BY <2>5, <2>6, <2>7, <2>8 DEF Offset
  <2> QED BY <2>4, <2>9 DEF OffsetIn, OffsetOf
<1>11. ASSUME NEW q, q # p, q \notin targets
       PROVE  OffsetIn(o, q) = OffsetIn(offsetPtrs, q)
  <2>1. CASE q \in DOMAIN offsetPtrs
    <3>1. q \in DOMAIN o /\ o[q] = offsetPtrs[q]
      BY <1>4, <1>11, <2>1
    <3> QED BY <2>1, <3>1 DEF OffsetIn
  <2>2. CASE q \notin DOMAIN offsetPtrs
    <3>1. q \notin DOMAIN o
      BY <1>4, <1>11, <2>2
    <3> QED BY <2>2, <3>1 DEF OffsetIn
  <2> QED BY <2>1, <2>2
<1> QED BY <1>8, <1>9, <1>10, <1>11 DEF n, T, I

LEMMA RenewedKeeps ==
    ASSUME NEW p, Ready(p), p \notin DOMAIN written, ~RefersIn(structs, written, p),
           OffsetsKept(structs, written, offsetPtrs),
           NEW o, o = RenewOffsets(p), NEW w, w = WrittenWith(p)
    PROVE  OffsetsTyped(o) /\ OffsetsKept(structs, w, o)
<1>1. /\ OffsetIn(o, p).absIndex = Index0(p) /\ OffsetIn(o, p).targetSize = Width(p)
      /\ OffsetIn(o, p) \in Offset
      /\ \A q : q # p =>
            \/ OffsetIn(o, q) = OffsetIn(offsetPtrs, q)
            \/ /\ OffsetIn(o, q) \in Offset
               /\ OffsetIn(o, q).targetSize = OffsetIn(offsetPtrs, q).targetSize
               /\ \E i \in 1..Count(structs, p) :
                     ~InlineAt(structs, p, i) /\ TargetAt(structs, p, i) = q
  BY RenewedIs
<1>2. OffsetsTyped(o)
  BY <1>1 DEF OffsetsTyped, Ready
<1>3. /\ DOMAIN w = DOMAIN written \cup {p}
      /\ w[p].index0 = Index0(p) /\ w[p].bSize = Width(p)
      /\ \A q \in DOMAIN written : q # p => w[q] = written[q]
  BY WrittenWithIs
<1>4. \A q : RefersIn(structs, written, q) => RefersIn(structs, w, q)
  BY <1>3 DEF RefersIn
<1>5. \A q : (\E i \in 1..Count(structs, p) :
                 ~InlineAt(structs, p, i) /\ TargetAt(structs, p, i) = q) => RefersIn(structs, w, q)
  BY <1>3 DEF RefersIn
<1>6. ASSUME NEW q \in DOMAIN w
      PROVE  /\ OffsetIn(o, q).targetSize = w[q].bSize
             /\ ~RefersIn(structs, w, q) => OffsetIn(o, q).absIndex = w[q].index0
  <2>1. CASE q = p
    BY <1>1, <1>3, <2>1
  <2>2. CASE q # p
    <3>1. /\ q \in DOMAIN written /\ w[q] = written[q]
          /\ OffsetIn(offsetPtrs, q).targetSize = written[q].bSize
          /\ ~RefersIn(structs, written, q) => OffsetIn(offsetPtrs, q).absIndex = written[q].index0
      BY <1>3, <2>2 DEF OffsetsKept
    <3> QED BY <1>1, <1>4, <1>5, <2>2, <3>1
  <2> QED BY <2>1, <2>2
<1> QED BY <1>2, <1>6 DEF OffsetsKept

-----------------------------------------------------------------------------
(* The steps.                                                              *)

LEMMA SamePartsGood ==
    ASSUME structs' = structs, NEW P, Good(P, Root)
    PROVE  Good(P, Root)'
<1>1. \A q : IsPart(q)' <=> IsPart(q)
  BY DEF IsPart
<1>2. \A q, r : Needs(q, r)' <=> Needs(q, r)
  BY DEF Needs, Of
<1>3. \A i, j : ChildOf(i, j)' <=> ChildOf(i, j)
  BY DEF ChildOf
<1>4. (Closed(P)' <=> Closed(P)) /\ (Once(P)' <=> Once(P))
  BY <1>2 DEF Closed, Once
<1>5. Below(P, Root)' <=> Below(P, Root)
  BY <1>3 DEF Below
<1>6. (KeysBefore(P)' <=> KeysBefore(P)) /\ (VectorBefore(P)' <=> VectorBefore(P))
  BY DEF KeysBefore, VectorBefore, Of
<1> QED BY <1>1, <1>4, <1>5, <1>6 DEF Good

LEMMA NextFollows ==
    ASSUME NEW P, NEW n \in Nat, NEW p, p = P[n + 1], Ready(p), p \notin DOMAIN written,
           DOMAIN written = {P[k] : k \in 1..n}, Follows(structs, written, P, n, Len(buff)),
           NEW w, w = WrittenWith(p), NEW x, x = BuffWith(p)
    PROVE  Follows(structs, w, P, n + 1, Len(x))
<1> DEFINE L == Len(buff)
<1>1. /\ w[p].start = L
      /\ \A q \in DOMAIN written : q # p => w[q] = written[q]
  BY WrittenWithIs
<1>2. Begins(structs, w, p) /\ Ends(structs, w, p, Len(x)) /\ ElemWide(structs, w, p)
  BY PartEnds
<1> HIDE DEF L
<1>3. ASSUME NEW j \in 1..n
      PROVE  /\ Begins(structs, w, P[j]) /\ ElemWide(structs, w, P[j])
             /\ Ends(structs, w, P[j], StartAt(w, P, n + 1, Len(x), j + 1))
  <2>1. P[j] \in DOMAIN written /\ P[j] # p
    OBVIOUS
  <2>2. w[P[j]] = written[P[j]]
    BY <1>1, <2>1
  <2>3. StartAt(w, P, n + 1, Len(x), j + 1) = StartAt(written, P, n, L, j + 1)
    <3>1. CASE j = n
      <4>1. ~(j + 1 > n + 1) /\ j + 1 > n /\ P[j + 1] = p
        BY <3>1
      <4> QED BY <1>1, <4>1 DEF StartAt
    <3>2. CASE j # n
      <4>1. j + 1 \in 1..n /\ ~(j + 1 > n + 1) /\ ~(j + 1 > n)
        BY <3>2
      <4>2. w[P[j + 1]] = written[P[j + 1]]
        BY <1>1, <4>1
      <4> QED BY <4>1, <4>2 DEF StartAt
    <3> QED BY <3>1, <3>2
  <2>4. /\ Begins(structs, written, P[j]) /\ ElemWide(structs, written, P[j])
        /\ Ends(structs, written, P[j], StartAt(written, P, n, L, j + 1))
    BY DEF Follows, L
  <2>5. Begins(structs, w, P[j])
    BY <2>2, <2>4 DEF Begins
  <2>6. ElemWide(structs, w, P[j])
    BY <2>2, <2>4 DEF ElemWide
  <2>7. Ends(structs, w, P[j], StartAt(w, P, n + 1, Len(x), j + 1))
    BY <2>2, <2>3, <2>4 DEF Ends
  <2> QED BY <2>5, <2>6, <2>7
<1>4. StartAt(w, P, n + 1, Len(x), (n + 1) + 1) = Len(x)
  BY DEF StartAt
<1>5. \A j \in 1..(n + 1) : j \in 1..n \/ j = n + 1
  OBVIOUS
<1> QED BY <1>2, <1>3, <1>4, <1>5 DEF Follows

LEMMA PartStep ==
    ASSUME DocInv, LayInv, SerializePart
    PROVE  LayInv'
<1> DEFINE p == Head(todo)
           o == RenewOffsets(p)
           w == WrittenWith(p)
           x == BuffWith(p)
<1>1. /\ todo # <<>> /\ (p = RootPart => Elems(p) # <<>>)
      /\ buff' = x /\ todo' = Tail(todo) /\ written' = w /\ offsetPtrs' = o
      /\ structs' = structs
  BY DEF SerializePart, WrittenWith, BuffWith, BytesWith, doc
<1> HIDE DEF p, o, w, x
<1>2. /\ Ready(p) /\ p \notin DOMAIN written /\ TargetsTold(p)
      /\ ~RefersIn(structs, written, p)
      /\ \E P : Good(P, Root) /\ \E n \in 0..(Len(P) - 1) :
            /\ WrittenUpTo(P, n) /\ p = P[n + 1]
            /\ Tail(todo) = SubSeq(P, (n + 1) + 1, Len(P))
  BY <1>1, NextIsReady DEF p
<1>3. /\ x \in Seq(Bytes) /\ Len(x) \in Nat /\ Len(buff) \in Nat /\ Len(buff) <= Len(x)
      /\ \A j \in 1..Len(buff) : x[j] = buff[j]
      /\ Index0(p) \in Nat /\ Index0(p) <= Len(x)
  BY <1>2, PiecesStand DEF x
<1>4. /\ DOMAIN w = DOMAIN written \cup {p}
      /\ w[p].index0 = Index0(p) /\ w[p].bSize = Width(p)
      /\ \A q \in DOMAIN written : q # p => w[q] = written[q]
  BY WrittenWithIs DEF w
<1>5. OffsetsTyped(o) /\ OffsetsKept(structs, w, o)
  <2>1. OffsetsKept(structs, written, offsetPtrs)
    BY DEF LayInv
  <2> QED BY <1>2, <2>1, RenewedKeeps DEF o, w
<1>6. Laid(structs, x, w, p)
  BY <1>2, PartLaid DEF x, w
<1>7. \A q \in DOMAIN written : Laid(structs, x, w, q)
  <2> TAKE q \in DOMAIN written
  <2>1. Laid(structs, buff, written, q) /\ Progress
    BY DEF LayInv
  <2>2. Count(structs, q) \in Nat
    BY <2>1, WrittenAreParts, StaticTypes
  <2>3. \A r \in DOMAIN written : r \in DOMAIN w /\ w[r] = written[r]
    BY <1>2, <1>4
  <2> QED BY <1>3, <2>1, <2>2, <2>3, LaidStays
<1>8. WrittenTyped(w, Len(x))
  <2>1. WrittenTyped(written, Len(buff))
    BY DEF LayInv
  <2>2. p \in AnyPart /\ Width(p) \in ByteSize
    BY <1>2, ReadyFacts DEF Ready, IsPart
  <2> QED BY <1>2, <1>3, <1>4, <2>1, <2>2 DEF WrittenTyped
<1>9. Progress'
  <2>1. PICK P : Good(P, Root) /\ \E n \in 0..(Len(P) - 1) :
            /\ WrittenUpTo(P, n) /\ p = P[n + 1]
            /\ Tail(todo) = SubSeq(P, (n + 1) + 1, Len(P))
    BY <1>2
  <2>2. PICK n \in 0..(Len(P) - 1) : /\ WrittenUpTo(P, n) /\ p = P[n + 1]
                                    /\ Tail(todo) = SubSeq(P, (n + 1) + 1, Len(P))
    BY <2>1
  <2>3. Good(P, Root)'
    BY <1>1, <2>1, SamePartsGood
  <2>4. n \in Nat /\ n + 1 \in 0..Len(P)
    <3>1. Len(P) \in Nat
      BY <2>1 DEF Good
    <3> QED BY <3>1
  <2>5. /\ DOMAIN written = {P[k] : k \in 1..n}
        /\ Follows(structs, written, P, n, Len(buff))
    BY <2>2 DEF WrittenUpTo
  <2>6. DOMAIN w = {P[k] : k \in 1..(n + 1)}
    <3>1. \A k : k \in 1..(n + 1) <=> k \in 1..n \/ k = n + 1
      BY <2>4
    <3> QED BY <1>4, <2>2, <2>5, <3>1
  <2>7. Follows(structs, w, P, n + 1, Len(x))
    BY <1>2, <2>2, <2>4, <2>5, NextFollows DEF x, w
  <2>8. WrittenUpTo(P, n + 1)'
    BY <1>1, <2>2, <2>6, <2>7 DEF WrittenUpTo
  <2> QED BY <2>3, <2>4, <2>8 DEF Progress
<1>10. \A q \in DOMAIN w : Laid(structs, x, w, q)
  BY <1>4, <1>6, <1>7
<1> QED BY <1>1, <1>3, <1>5, <1>8, <1>9, <1>10 DEF LayInv

(* The inductive invariant of serialization.                               *)
SInv == IInv /\ FormsInv /\ ToldInv /\ LayInv

LEMMA InvIsDoc ==
    ASSUME IInv, FormsInv, ToldInv
    PROVE  DocInv
<1>1. structs \in Seq(Structure) /\ IsTree(structs) /\ RootInv
  BY DEF IInv, TypeOK, FormsInv, Trees
<1>2. Len(structs) > 0
  <2>1. getHead \in 1..Len(structs) /\ Len(structs) \in Nat
    BY <1>1, HeadType DEF IInv
  <2> QED BY <2>1
<1> QED BY <1>1, <1>2 DEF DocInv

LEMMA NothingLaid ==
    ASSUME buff \in Seq(Bytes), DOMAIN written = {}, Progress, OffsetsTyped(offsetPtrs)
    PROVE  LayInv
BY DEF LayInv, WrittenTyped, OffsetsKept

LEMMA InitSInv ==
    ASSUME SerializeInit
    PROVE  SInv
<1>1. IInv /\ FormsInv /\ ToldInv
  BY InitIInv, InitForms, InitTold DEF SerializeInit
<1>2. buff \in Seq(Bytes) /\ DOMAIN written = {} /\ todo = <<>>
  BY DEF SerializeInit
<1>3. OffsetsTyped(offsetPtrs)
  <2>1. DOMAIN offsetPtrs = {}
    BY DEF SerializeInit
  <2> QED BY <2>1 DEF OffsetsTyped, OffsetIn, Unbound, Offset, ByteSize, b8, b64
<1>4. Progress
  BY <1>2 DEF Progress
<1> QED BY <1>1, <1>2, <1>3, <1>4, NothingLaid DEF SInv

LEMMA SameDocument ==
    ASSUME IInv, FormsInv, ToldInv, UNCHANGED doc, ret' \in {"ok", "error", "panic"}
    PROVE  IInv' /\ FormsInv' /\ ToldInv'
<1>1. IInv'
  BY DEF doc, IInv, TypeOK, StackInv, RootInv
<1>2. structs' = structs
  BY DEF doc
<1>3. FormsInv' /\ ToldInv'
  BY <1>2 DEF FormsInv, ToldInv
<1> QED BY <1>1, <1>3

LEMMA StepSInv ==
    ASSUME SInv, [SerializeNext]_all
    PROVE  SInv'
<1>0. /\ IInv /\ FormsInv /\ ToldInv /\ LayInv /\ DocInv
      /\ ret \in {"ok", "error", "panic"} /\ buff \in Seq(Bytes)
      /\ OffsetsTyped(offsetPtrs) /\ Progress
  BY InvIsDoc DEF SInv, IInv, TypeOK, LayInv
<1>1. CASE UNCHANGED all
  <2>1. UNCHANGED doc /\ ret' = ret
    BY <1>1 DEF all, vars, doc
  <2>2. IInv' /\ FormsInv' /\ ToldInv'
    BY <1>0, <2>1, SameDocument
  <2>3. /\ buff' = buff /\ todo' = todo /\ written' = written /\ offsetPtrs' = offsetPtrs
        /\ structs' = structs
    BY <1>1 DEF all, vars, output
  <2>4. Progress'
    BY <1>0, <2>3, SamePartsGood DEF Progress, WrittenUpTo
  <2>5. LayInv'
    BY <1>0, <2>3, <2>4 DEF LayInv
  <2> QED BY <2>2, <2>5 DEF SInv
<1>2. CASE Build
  <2>1. Next /\ todo' = <<>> /\ buff' = <<>> /\ written' = <<>> /\ offsetPtrs' = offsetPtrs
    BY <1>2 DEF Build
  <2>2. IInv' /\ FormsInv' /\ ToldInv'
    <3>1. Shaped
      BY <1>0, <2>1, StepShape DEF IInv, Shaped
    <3>2. FormStep
      BY <1>0, <2>1, StepForms, SmallIsForm
    <3> QED BY <1>0, <2>1, <3>1, <3>2, StepIInv, FormStepKeeps, ShapedTold
  <2>3. buff' \in Seq(Bytes) /\ DOMAIN written' = {}
    BY <2>1
  <2>4. OffsetsTyped(offsetPtrs)'
    BY <1>0, <2>1 DEF OffsetsTyped
  <2>5. Progress'
    BY <2>1, <2>3 DEF Progress
  <2>6. LayInv'
    BY <2>3, <2>4, <2>5 DEF LayInv, WrittenTyped, OffsetsKept
  <2> QED BY <2>2, <2>6 DEF SInv
<1>3. ASSUME NEW start \in {<<>>, buff}, SerializeBuffer(start)
      PROVE  SInv'
  <2>1. /\ buff' = start /\ todo' = Parts /\ written' = <<>> /\ offsetPtrs' = offsetPtrs
        /\ UNCHANGED vars
    BY <1>3 DEF SerializeBuffer
  <2>2. IInv' /\ FormsInv' /\ ToldInv'
    <3>1. UNCHANGED doc /\ ret' \in {"ok", "error", "panic"}
      BY <1>0, <2>1 DEF vars, doc
    <3> QED BY <1>0, <3>1, SameDocument
  <2>3. buff' \in Seq(Bytes) /\ DOMAIN written' = {}
    <3>1. <<>> \in Seq(Bytes)
      OBVIOUS
    <3>2. start \in Seq(Bytes)
      BY <1>0, <1>3, <3>1
    <3> QED BY <2>1, <3>2
  <2>4. OffsetsTyped(offsetPtrs)'
    BY <1>0, <2>1 DEF OffsetsTyped
  <2>5. Progress'
    <3> DEFINE P == Parts
    <3>1. Good(P, Root)
      BY <1>0, PartsAreGood
    <3>2. P \in Seq(AnyPart) /\ Len(P) \in Nat
      BY <3>1 DEF Good
    <3> HIDE DEF P
    <3>3. \A Q : Q = P => Good(Q, Root)'
      <4> SUFFICES ASSUME NEW Q, Q = P PROVE Good(Q, Root)'
        OBVIOUS
      <4>1. structs' = structs
        BY <2>1 DEF vars
      <4> QED BY <3>1, <4>1, SamePartsGood
    <3>4. PICK Q : Q = P
      OBVIOUS
    <3>5. SubSeq(Q, 0 + 1, Len(Q)) = Q
      BY <3>2, <3>4, SubSeqFull
    <3>6. 0 \in 0..Len(Q)
      BY <3>2, <3>4
    <3>7. DOMAIN written' = {Q[k] : k \in 1..0}
      BY <2>3
    <3>8. todo' = SubSeq(Q, 0 + 1, Len(Q))
      BY <2>1, <3>4, <3>5 DEF P
    <3>9. WrittenUpTo(Q, 0)'
      BY <3>7, <3>8 DEF WrittenUpTo, Follows
    <3> QED BY <3>3, <3>4, <3>6, <3>9 DEF Progress
  <2>6. LayInv'
    BY <2>3, <2>4, <2>5 DEF LayInv, WrittenTyped, OffsetsKept
  <2> QED BY <2>2, <2>6 DEF SInv
<1>4. CASE SerializePart
  <2>1. UNCHANGED doc /\ ret' = "ok"
    BY <1>4 DEF SerializePart
  <2> QED BY <1>0, <1>4, <2>1, SameDocument, PartStep DEF SInv
<1>5. CASE SerializeNothing
  <2>1. /\ UNCHANGED doc /\ ret' = "panic" /\ todo' = <<>>
        /\ buff' = buff /\ written' = written /\ offsetPtrs' = offsetPtrs
    BY <1>5 DEF SerializeNothing
  <2>2. structs' = structs
    BY <2>1 DEF doc
  <2>3. Progress'
    BY <1>0, <2>1, <2>2, SamePartsGood DEF Progress, WrittenUpTo
  <2>4. LayInv'
    BY <1>0, <2>1, <2>2, <2>3 DEF LayInv
  <2> QED BY <1>0, <2>1, <2>4, SameDocument DEF SInv
<1> QED BY <1>1, <1>2, <1>3, <1>4, <1>5 DEF SerializeNext, Serialize

(* What is written of the document lies in the buffer as the parts of the  *)
(* document want it, whatever the Builder was called for and however often *)
(* the document was serialized before.                                     *)
THEOREM SerializationInvariant == SerializeSpec => []SInv
  BY InitSInv, StepSInv, PTL DEF SerializeSpec

-----------------------------------------------------------------------------
(* Reading.                                                                *)

(* A number that fits in its width is read back.                           *)
LEMMA NumberReadsBack ==
    ASSUME NEW s \in ByteSize, NEW n \in Nat, Holds(n, s)
    PROVE  ReadUint(LittleEndian(n, B(s))) = n
<1> DEFINE W == B(s)
           x == LittleEndian(n, W)
           v(k) == IF k <= Len(x) THEN x[k][3] ELSE 0
<1>1. /\ W \in {1, 2, 4, 8} /\ (s = 0 => W = 1) /\ (s = 1 => W = 2) /\ (s >= 2 => W >= 4)
  BY WidthInBytes
<1>2. s \in {0, 1, 2, 3}
  BY DEF ByteSize, b8, b64
<1>3. Len(x) = W /\ \A k \in 1..W : x[k] = Byte(IF k <= 3 THEN (n \div 256^(k - 1)) % 256 ELSE 0)
  BY <1>1 DEF LittleEndian
<1>4. \A k \in 1..W : x[k][3] = IF k <= 3 THEN (n \div 256^(k - 1)) % 256 ELSE 0
  BY <1>3 DEF Byte
<1>5. 256^0 = 1 /\ 256^1 = 256 /\ 256^2 = 65536
  BY SMT
<1>6. ReadUint(x) = v(1) + 256 * v(2) + 65536 * v(3)
  BY DEF ReadUint
<1> HIDE DEF x, W, v
<1>7. /\ 1 \in 1..W => x[1][3] = (n \div 256^0) % 256
      /\ 2 \in 1..W => x[2][3] = (n \div 256^1) % 256
      /\ 3 \in 1..W => x[3][3] = (n \div 256^2) % 256
  <2>1. 1 - 1 = 0 /\ 2 - 1 = 1 /\ 3 - 1 = 2 /\ 1 <= 3 /\ 2 <= 3 /\ 3 <= 3
    OBVIOUS
  <2>2. 1 \in 1..W => x[1][3] = (n \div 256^(1 - 1)) % 256
    BY <1>4, <2>1
  <2>3. 2 \in 1..W => x[2][3] = (n \div 256^(2 - 1)) % 256
    BY <1>4, <2>1
  <2>4. 3 \in 1..W => x[3][3] = (n \div 256^(3 - 1)) % 256
    BY <1>4, <2>1
  <2> QED BY <2>1, <2>2, <2>3, <2>4
<1>8. CASE s = 0
  <2>1. W = 1 /\ n < 256
    <3>1. s = b8
      BY <1>8 DEF b8
    <3>2. n < 256
      BY <3>1, SMT DEF Holds, b8, b16
    <3> QED BY <1>1, <1>8, <3>2
  <2>2. v(1) = (n \div 1) % 256 /\ v(2) = 0 /\ v(3) = 0
    BY <1>3, <1>5, <1>7, <2>1 DEF v
  <2>3. (n \div 1) % 256 = n
    BY <2>1
  <2>4. ReadUint(x) = n
    BY <1>6, <2>2, <2>3, SMT
  <2> QED BY <2>4 DEF x, W
<1>9. CASE s = 1
  <2>1. W = 2 /\ n < 65536
    BY <1>1, <1>9 DEF Holds, b8, b16
  <2>2. v(1) = (n \div 1) % 256 /\ v(2) = (n \div 256) % 256 /\ v(3) = 0
    BY <1>3, <1>5, <1>7, <2>1 DEF v
  <2>3. ((n \div 1) % 256) + 256 * ((n \div 256) % 256) = n
    BY <2>1, SMT
  <2>4. ReadUint(x) = n
    BY <1>6, <2>2, <2>3, SMT
  <2> QED BY <2>4 DEF x, W
<1>10. CASE s >= 2
  <2>1. W \in {4, 8} /\ n < 16777216
    BY <1>1, <1>2, <1>10, SMT DEF Holds, b8, b16
  <2>2. v(1) = (n \div 1) % 256 /\ v(2) = (n \div 256) % 256 /\ v(3) = (n \div 65536) % 256
    <3>1. 1 \in 1..W /\ 2 \in 1..W /\ 3 \in 1..W /\ 1 <= W /\ 2 <= W /\ 3 <= W
      BY <1>1, <1>10
    <3> QED BY <1>3, <1>5, <1>7, <3>1 DEF v
  <2>3. ((n \div 1) % 256) + 256 * ((n \div 256) % 256) + 65536 * ((n \div 65536) % 256) = n
    BY <2>1, SMT
  <2>4. ReadUint(x) = n
    BY <1>6, <2>2, <2>3, SMT
  <2> QED BY <2>4 DEF x, W
<1> QED BY <1>2, <1>8, <1>9, <1>10

(* What stands in the buffer is what is found there.                       *)
LEMMA BytesFound ==
    ASSUME buff \in Seq(Bytes), NEW z \in Int, NEW s \in Seq(Bytes), NEW width \in Nat,
           Len(s) = width, Stands(buff, z, s)
    PROVE  BytesAt(z, width) = s
<1>1. \A j \in 1..width : z + j \in 1..Len(buff) /\ buff[z + j] = s[j]
  BY DEF Stands
<1>2. \A i \in (z + 1)..(z + width) : buff[i] \in Bytes
  <2> TAKE i \in (z + 1)..(z + width)
  <2>1. i - z \in 1..width /\ z + (i - z) = i
    OBVIOUS
  <2>2. i \in 1..Len(buff)
    BY <1>1, <2>1
  <2> QED BY <2>2, ElementOfSeq
<1> DEFINE t == SubSeq(buff, z + 1, z + width)
           m == z + 1
           n == z + width
<1>3. m \in Int /\ n \in Int
  OBVIOUS
<1>4. /\ t \in Seq(Bytes) /\ Len(t) = IF m <= n THEN n - m + 1 ELSE 0
      /\ \A i \in 1..(n - m + 1) : t[i] = buff[m + i - 1]
  <2> HIDE DEF m, n
  <2>1. \A i \in m..n : buff[i] \in Bytes
    BY <1>2 DEF m, n
  <2>2. /\ SubSeq(buff, m, n) \in Seq(Bytes) /\ Len(SubSeq(buff, m, n)) = IF m <= n THEN n - m + 1 ELSE 0
        /\ \A i \in 1..(n - m + 1) : SubSeq(buff, m, n)[i] = buff[m + i - 1]
    BY <1>3, <2>1, SubSeqProperties
  <2> QED BY <2>2 DEF m, n
<1>5. n - m + 1 = width /\ (m <= n <=> width > 0) /\ \A i \in 1..width : m + i - 1 = z + i
  OBVIOUS
<1> HIDE DEF t, m, n
<1>6. Len(t) = width
  BY <1>4, <1>5
<1>7. \A i \in 1..width : t[i] = s[i]
  BY <1>1, <1>4, <1>5
<1>8. t = s
  BY <1>4, <1>6, <1>7, SeqEqual
<1> QED BY <1>8 DEF BytesAt, t

(* What is known of a part that is written.                                *)
LEMMA WrittenFacts ==
    ASSUME SInv, NEW p \in DOMAIN written
    PROVE  /\ IsPart(p) /\ DocInv /\ buff \in Seq(Bytes) /\ Len(buff) \in Nat
           /\ written[p].index0 \in Nat /\ written[p].index0 <= Len(buff)
           /\ written[p].bSize \in ByteSize
           /\ B(written[p].bSize) \in Nat /\ B(written[p].bSize) > 0
           /\ Laid(structs, buff, written, p)
           /\ DOMAIN Elems(p) = 1..Count(structs, p) /\ Len(Elems(p)) = Count(structs, p)
           /\ Count(structs, p) \in Nat
           /\ \A i \in 1..Count(structs, p) :
                 /\ Elems(p)[i].type = TypeAt(structs, p, i)
                 /\ Inlined(Elems(p)[i]) <=> InlineAt(structs, p, i)
                 /\ InlineAt(structs, p, i) => Elems(p)[i].size = SizeAt(structs, p, i)
                 /\ ~InlineAt(structs, p, i) => Elems(p)[i].target = TargetAt(structs, p, i)
           /\ \A i : i \in Offsets(p) <=> i \in 1..Count(structs, p) /\ ~InlineAt(structs, p, i)
           /\ TypeOf(p) = TypeIn(structs, p)
<1>1. /\ DocInv /\ buff \in Seq(Bytes) /\ Progress /\ WrittenTyped(written, Len(buff))
      /\ OffsetsTyped(offsetPtrs) /\ Laid(structs, buff, written, p)
  BY InvIsDoc DEF SInv, LayInv
<1>2. IsPart(p)
  BY <1>1, WrittenAreParts
<1>3. /\ written[p].index0 \in Nat /\ written[p].index0 <= Len(buff)
      /\ written[p].bSize \in ByteSize
  BY <1>1 DEF WrittenTyped
<1>4. B(written[p].bSize) \in Nat /\ B(written[p].bSize) > 0
  BY <1>3, WidthInBytes
<1>5. /\ DOMAIN Elems(p) = 1..Count(structs, p) /\ Len(Elems(p)) = Count(structs, p)
      /\ Count(structs, p) \in Nat
      /\ \A i \in 1..Count(structs, p) :
            /\ Elems(p)[i].type = TypeAt(structs, p, i)
            /\ Inlined(Elems(p)[i]) <=> InlineAt(structs, p, i)
            /\ InlineAt(structs, p, i) => Elems(p)[i].size = SizeAt(structs, p, i)
            /\ ~InlineAt(structs, p, i) => Elems(p)[i].target = TargetAt(structs, p, i)
  BY <1>1, <1>2, ElemSizes
<1>6. TypeOf(p) = TypeIn(structs, p)
  BY DEF TypeOf, TypeIn, Of
<1>7. \A i : i \in Offsets(p) <=> i \in 1..Count(structs, p) /\ ~InlineAt(structs, p, i)
  BY <1>5 DEF Offsets
<1>8. Len(buff) \in Nat
  BY <1>1, LenProperties
<1> QED BY <1>1, <1>2, <1>3, <1>4, <1>5, <1>6, <1>7, <1>8

LEMMA ElementsAreThere ==
    ASSUME SInv
    PROVE  ElementsReadBack
<1> SUFFICES ASSUME NEW p \in DOMAIN written, NEW i \in DOMAIN Elems(p) \ Offsets(p)
             PROVE  /\ Elems(p)[i].size <= written[p].bSize
                    /\ Item(p, i) = [k \in 1..B(written[p].bSize) |-> <<p, i, k>>]
  BY DEF ElementsReadBack
<1> DEFINE W == B(written[p].bSize)
           s == [k \in 1..W |-> <<p, i, k>>]
<1>1. /\ buff \in Seq(Bytes) /\ W \in Nat /\ written[p].index0 \in Nat /\ p \in AnyPart
      /\ i \in 1..Count(structs, p) /\ InlineAt(structs, p, i)
      /\ Elems(p)[i].size = SizeAt(structs, p, i)
      /\ ElemLaid(structs, buff, written, p, i)
  BY WrittenFacts DEF Laid, IsPart
<1>2. /\ SizeAt(structs, p, i) <= written[p].bSize
      /\ Stands(buff, written[p].index0 + (i - 1) * W, s)
  BY <1>1 DEF ElemLaid
<1>3. s \in Seq(Bytes) /\ Len(s) = W
  <2>1. i \in Int
    BY <1>1
  <2>2. \A k \in 1..W : <<p, i, k>> \in Bytes
    BY <1>1, <2>1 DEF Bytes
  <2> HIDE DEF W
  <2> QED BY <1>1, <2>2
<1>4. written[p].index0 + (i - 1) * W \in Int
  BY <1>1
<1> HIDE DEF s, W
<1>5. BytesAt(written[p].index0 + (i - 1) * W, W) = s
  BY <1>1, <1>2, <1>3, <1>4, BytesFound
<1> QED BY <1>1, <1>2, <1>5 DEF Item, ItemAt, s, W

(* Whatever was serialized before it, no byte of an inline element is lost.*)
THEOREM ElementsAreReadBack == SerializeSpec => []ElementsReadBack
  BY ElementsAreThere, SerializationInvariant, PTL

LEMMA OffsetsAreRight ==
    ASSUME SInv
    PROVE  OffsetsLeadBack
<1> SUFFICES ASSUME NEW p \in DOMAIN written, NEW i \in Offsets(p), Unscaled(p, i), Fits(p, i)
             PROVE  Leads(p, i)
  BY DEF OffsetsLeadBack
<1> DEFINE size == written[p].bSize
           W == B(size)
           z == written[p].index0
           q == TargetAt(structs, p, i)
           t == written[q].index0
           D == z + (i - 1) - t
<1>1. /\ buff \in Seq(Bytes) /\ size \in ByteSize /\ W \in Nat /\ z \in Nat
      /\ i \in 1..Count(structs, p) /\ ~InlineAt(structs, p, i)
      /\ Elems(p)[i].target = q
      /\ ElemLaid(structs, buff, written, p, i)
  BY WrittenFacts DEF Laid
<1>2. q \in DOMAIN written /\ t <= z /\ Stands(buff, z + (i - 1) * W, LittleEndian(D, W))
  BY <1>1 DEF ElemLaid
<1>3. t \in Nat
  BY <1>2, WrittenFacts
<1>4. ItemAt(p, i) = z + (i - 1) * W
  BY DEF ItemAt
<1>5. (i - 1) * W = i - 1
  <2>1. i = 1 \/ size = b8
    BY DEF Unscaled
  <2>2. CASE i = 1
    BY <1>1, <2>2
  <2>3. CASE size = b8
    <3>1. W = 1
      BY <1>1, <2>3, WidthInBytes DEF b8
    <3> HIDE DEF W
    <3> QED BY <1>1, <3>1
  <2> QED BY <2>1, <2>2, <2>3
<1>6. i \in Nat /\ i >= 1
  BY <1>1
<1> HIDE DEF size, W, z, q, t, D
<1>7. D \in Nat /\ ItemAt(p, i) - t = D /\ ItemAt(p, i) - D = t
  BY <1>1, <1>2, <1>3, <1>4, <1>5, <1>6 DEF D
<1>8. Holds(D, size)
  BY <1>1, <1>7 DEF Fits, size, t
<1>9. ReadUint(LittleEndian(D, W)) = D
  BY <1>1, <1>7, <1>8, NumberReadsBack DEF W
<1>10. LittleEndian(D, W) \in Seq(Bytes) /\ Len(LittleEndian(D, W)) = W
  BY <1>1, <1>7, LittleEndianType
<1>11. BytesAt(z + (i - 1) * W, W) = LittleEndian(D, W)
  <2>1. z + (i - 1) * W \in Int
    BY <1>1, <1>5, <1>6
  <2> QED BY <1>1, <1>2, <1>10, <2>1, BytesFound
<1>12. Item(p, i) = LittleEndian(D, W)
  BY <1>4, <1>11 DEF Item, W, size
<1> QED BY <1>1, <1>7, <1>9, <1>12 DEF Leads, t

(* An offset that fits leads to its part from the first element of a       *)
(* structure and from all elements of a structure of single bytes.         *)
THEOREM OffsetsDoLeadBack == SerializeSpec => []OffsetsLeadBack
  BY OffsetsAreRight, SerializationInvariant, PTL

LEMMA ContextsAreRight ==
    ASSUME SInv
    PROVE  ContextsTellWidths
<1> SUFFICES ASSUME NEW p \in DOMAIN written, TypeOf(p) \in {VECTOR, MAP} \/ p = RootPart,
                    NEW i \in DOMAIN Elems(p), p = RootPart => i = 1
             PROVE  BytesAt(ItemAt(p, Len(Elems(p)) + 1) + (i - 1), 1)
                        = <<Pack(Elems(p)[i].type,
                                 written[IF Inlined(Elems(p)[i]) THEN p ELSE Elems(p)[i].target].bSize)>>
  BY DEF ContextsTellWidths
<1> DEFINE n == Count(structs, p)
           W == B(written[p].bSize)
           z == written[p].index0
           q == IF InlineAt(structs, p, i) THEN p ELSE TargetAt(structs, p, i)
           s == <<Pack(TypeAt(structs, p, i), written[q].bSize)>>
<1>1. /\ buff \in Seq(Bytes) /\ W \in Nat /\ z \in Nat /\ n \in Nat /\ Len(Elems(p)) = n
      /\ i \in 1..n /\ DocInv /\ IsPart(p) /\ TypeOf(p) = TypeIn(structs, p)
      /\ Elems(p)[i].type = TypeAt(structs, p, i)
      /\ Inlined(Elems(p)[i]) <=> InlineAt(structs, p, i)
      /\ ~InlineAt(structs, p, i) => Elems(p)[i].target = TargetAt(structs, p, i)
      /\ Laid(structs, buff, written, p)
  BY WrittenFacts
<1>2. ElemLaid(structs, buff, written, p, i) /\ ContextLaid(structs, buff, written, p, i)
  BY <1>1 DEF Laid
<1>3. q \in DOMAIN written
  BY <1>2 DEF ElemLaid
<1>4. written[q].bSize \in ByteSize
  <2> HIDE DEF q
  <2> QED BY <1>3, WrittenFacts
<1>5. TypeAt(structs, p, i) \in VarType
  BY <1>1, StaticTypes
<1>6. s \in Seq(Bytes) /\ Len(s) = 1
  <2>1. 4 * TypeAt(structs, p, i) + written[q].bSize \in Int
    <3> HIDE DEF q
    <3> QED BY <1>4, <1>5 DEF VarType, VECTOR_BOOL, ByteSize, b8, b64
  <2>2. Pack(TypeAt(structs, p, i), written[q].bSize) \in Bytes
    BY <2>1 DEF Pack, Byte, Bytes, NoPart, AnyPart
  <2> QED BY <2>2
<1>7. Stands(buff, z + n * W + (i - 1), s)
  BY <1>2 DEF ContextLaid
<1>8. ItemAt(p, n + 1) = z + n * W
  <2>1. (n + 1) - 1 = n
    BY <1>1
  <2> QED BY <2>1 DEF ItemAt
<1>9. z + n * W + (i - 1) \in Int
  BY <1>1
<1> HIDE DEF n, W, z, s
<1>10. BytesAt(z + n * W + (i - 1), 1) = s
  BY <1>1, <1>6, <1>7, <1>9, BytesFound
<1>11. BytesAt(ItemAt(p, Len(Elems(p)) + 1) + (i - 1), 1) = s
  BY <1>1, <1>8, <1>10
<1> QED BY <1>1, <1>11 DEF s

(* A context tells the type of its element and the width of its bytes.     *)
THEOREM ContextsDoTell == SerializeSpec => []ContextsTellWidths
  BY ContextsAreRight, SerializationInvariant, PTL

-----------------------------------------------------------------------------
(* The keys of a map.                                                      *)

(* The keys are long enough for their vector, which stands behind them, to *)
(* be more than 255 bytes behind the first.                                *)
Heavy(keys) ==
    \E at \in [0..Len(keys) -> Nat] :
        /\ \A i \in 1..Len(keys) : at[i] <= at[i - 1] + keys[i].name + 1
        /\ at[Len(keys)] >= at[0] + 252

(* More keys are as long and longer.                                       *)
LEMMA HeavyStays ==
    ASSUME NEW keys \in Seq(Key), NEW more \in Seq(Key), KeysGrow(keys, more), Heavy(keys)
    PROVE  Heavy(more)
<1>1. CASE more = keys
  BY <1>1
<1>2. CASE \E p, k : InsertedAt(more, keys, p, k)
  <2> DEFINE n == Len(keys)
  <2>1. PICK p, k : InsertedAt(more, keys, p, k)
    BY <1>2
  <2>2. PICK at \in [0..n -> Nat] :
            /\ \A i \in 1..n : at[i] <= at[i - 1] + keys[i].name + 1
            /\ at[n] >= at[0] + 252
    BY DEF Heavy
  <2> DEFINE bt == [j \in 0..(n + 1) |-> IF j < p THEN at[j] ELSE at[j - 1]]
  <2>3. /\ n \in Nat /\ p \in 1..(n + 1) /\ Len(more) = n + 1
        /\ \A i \in 1..(n + 1) :
              more[i] = IF i < p THEN keys[i] ELSE IF i = p THEN k ELSE keys[i - 1]
    BY <2>1 DEF InsertedAt
  <2>4. \A i \in 1..(n + 1) : more[i].name \in Nat
    <3> TAKE i \in 1..(n + 1)
    <3>1. more[i] \in Key
      BY <2>3, ElementOfSeq
    <3> QED BY <3>1 DEF Key
  <2> HIDE DEF n
  <2>5. \A j \in 0..(n + 1) : IF j < p THEN j \in 0..n ELSE j - 1 \in 0..n
    BY <2>3
  <2>6. bt \in [0..(n + 1) -> Nat]
    BY <2>2, <2>5
  <2>7. \A j \in 0..(n + 1) : bt[j] = IF j < p THEN at[j] ELSE at[j - 1]
    OBVIOUS
  <2> HIDE DEF bt
  <2>8. ASSUME NEW i \in 1..(n + 1)
        PROVE  bt[i] <= bt[i - 1] + more[i].name + 1
    <3>1. i \in 0..(n + 1) /\ i - 1 \in 0..(n + 1)
      BY <2>3
    <3>2. CASE i < p
      <4>1. i \in 1..n /\ i - 1 < p
        BY <2>3, <3>2
      <4>2. at[i] <= at[i - 1] + keys[i].name + 1
        BY <2>2, <4>1
      <4> QED BY <2>3, <2>7, <3>1, <3>2, <4>1, <4>2
    <3>3. CASE i = p
      <4>1. bt[i] = at[i - 1] /\ bt[i - 1] = at[i - 1]
        BY <2>3, <2>7, <3>1, <3>3
      <4>2. at[i - 1] \in Nat
        BY <2>2, <2>5, <3>1, <3>3
      <4> QED BY <2>4, <4>1, <4>2
    <3>4. CASE i > p
      <4>1. /\ i - 1 \in 1..n /\ ~(i < p) /\ ~(i - 1 < p)
            /\ more[i] = keys[i - 1]
        BY <2>3, <3>4
      <4>2. at[i - 1] <= at[(i - 1) - 1] + keys[i - 1].name + 1
        BY <2>2, <4>1
      <4>3. bt[i] = at[i - 1] /\ bt[i - 1] = at[(i - 1) - 1]
        BY <2>7, <3>1, <4>1
      <4> QED BY <4>1, <4>2, <4>3
    <3> QED BY <2>3, <3>2, <3>3, <3>4
  <2>9. bt[n + 1] >= bt[0] + 252
    <3>1. bt[n + 1] = at[n] /\ bt[0] = at[0]
      <4>1. 0 \in 0..(n + 1) /\ n + 1 \in 0..(n + 1) /\ 0 < p /\ ~(n + 1 < p) /\ (n + 1) - 1 = n
        BY <2>3
      <4> QED BY <2>7, <4>1
    <3> QED BY <2>2, <3>1
  <2>10. Len(more) = n + 1
    BY <2>3
  <2> QED BY <2>6, <2>8, <2>9, <2>10 DEF Heavy
<1> QED BY <1>1, <1>2 DEF KeysGrow

(* The keys of the map id stand where at says, the last one before e.      *)
InARow(S, w, id, at, e) ==
    LET keys == S[id].keys IN
    /\ at \in [0..Len(keys) -> Nat] /\ at[Len(keys)] = e
    /\ \A i \in 1..Len(keys) :
          /\ at[i] = at[i - 1] + keys[i].name + 1
          /\ <<id, keys[i].obj>> \in DOMAIN w
          /\ w[<<id, keys[i].obj>>].index0 = at[i - 1]

LEMMA RowIsLong ==
    ASSUME NEW S, NEW w, NEW id, NEW at, NEW e, InARow(S, w, id, at, e),
           S[id].keys \in Seq(Key), \A i \in 1..Len(S[id].keys) : S[id].keys[i].name # 0
    PROVE  /\ \A i \in 0..Len(S[id].keys) : at[i] >= at[0] + 2 * i
           /\ Heavy(S[id].keys) => e >= 252
           /\ e \in Nat /\ e >= 2 * Len(S[id].keys)
<1> DEFINE keys == S[id].keys
           n == Len(keys)
<1>1. /\ n \in Nat /\ at \in [0..n -> Nat] /\ at[n] = e
      /\ \A i \in 1..n : at[i] = at[i - 1] + keys[i].name + 1
  BY LenProperties DEF InARow
<1>2. \A i \in 1..n : keys[i].name \in Nat /\ keys[i].name >= 1
  <2> TAKE i \in 1..n
  <2>1. keys[i] \in Key
    BY ElementOfSeq
  <2> QED BY <2>1 DEF Key
<1> HIDE DEF keys, n
<1>3. \A i \in 0..n : at[i] >= at[0] + 2 * i
  <2> DEFINE T == {i \in 0..n : at[i] >= at[0] + 2 * i}
  <2>1. 0 \in T
    BY <1>1
  <2>2. ASSUME NEW i \in 0..(n - 1), i \in T
        PROVE  i + 1 \in T
    <3>1. i + 1 \in 1..n /\ i + 1 \in 0..n /\ (i + 1) - 1 = i /\ i \in 0..n
      BY <1>1
    <3>2. at[i + 1] = at[i] + keys[i + 1].name + 1 /\ keys[i + 1].name >= 1 /\ keys[i + 1].name \in Nat
      BY <1>1, <1>2, <3>1
    <3>3. at[i] \in Nat /\ at[0] \in Nat /\ at[i] >= at[0] + 2 * i
      BY <1>1, <2>2, <3>1
    <3>4. at[i + 1] >= at[0] + 2 * (i + 1)
      BY <3>1, <3>2, <3>3
    <3> QED BY <3>1, <3>4
  <2> HIDE DEF T
  <2>3. \A i \in 0..n : i \in T
    BY <1>1, <2>1, <2>2, UpTo
  <2> QED BY <2>3 DEF T
<1>4. ASSUME Heavy(keys)
      PROVE  e >= 252
  <2>1. PICK bt \in [0..n -> Nat] :
            /\ \A i \in 1..n : bt[i] <= bt[i - 1] + keys[i].name + 1
            /\ bt[n] >= bt[0] + 252
    BY <1>4 DEF Heavy, n
  <2> DEFINE T == {i \in 0..n : at[i] + bt[0] >= at[0] + bt[i]}
  <2>2. 0 \in T
    BY <1>1, <2>1
  <2>3. ASSUME NEW i \in 0..(n - 1), i \in T
        PROVE  i + 1 \in T
    <3>1. i + 1 \in 1..n /\ i + 1 \in 0..n /\ (i + 1) - 1 = i /\ i \in 0..n /\ 0 \in 0..n
      BY <1>1
    <3>2. /\ at[i + 1] = at[i] + keys[i + 1].name + 1
          /\ bt[i + 1] <= bt[i] + keys[i + 1].name + 1 /\ keys[i + 1].name \in Nat
      BY <1>1, <1>2, <2>1, <3>1
    <3>3. at[i] \in Nat /\ at[0] \in Nat /\ bt[i] \in Nat /\ bt[0] \in Nat /\ bt[i + 1] \in Nat
      BY <1>1, <2>1, <3>1
    <3>4. at[i] + bt[0] >= at[0] + bt[i]
      BY <2>3
    <3>5. at[i + 1] + bt[0] >= at[0] + bt[i + 1]
      <4>1. PICK a \in Nat, c \in Nat, d \in Nat, f \in Nat, g \in Nat, m \in Nat :
                /\ a = at[i] /\ c = at[0] /\ d = bt[i] /\ f = bt[0] /\ g = bt[i + 1]
                /\ m = keys[i + 1].name
        BY <3>2, <3>3
      <4>2. at[i + 1] = a + m + 1 /\ g <= d + m + 1 /\ a + f >= c + d
        <5>1. at[i + 1] = a + m + 1
          BY <3>2, <4>1
        <5>2. g <= d + m + 1
          BY <3>2, <4>1
        <5>3. a + f >= c + d
          BY <3>4, <4>1
        <5> QED BY <5>1, <5>2, <5>3
      <4>3. (a + m + 1) + f >= c + g
        BY <4>2
      <4> QED BY <4>1, <4>2, <4>3, Zenon
    <3> QED BY <3>1, <3>5
  <2> HIDE DEF T
  <2>4. \A i \in 0..n : i \in T
    BY <1>1, <2>2, <2>3, UpTo
  <2>5. at[n] + bt[0] >= at[0] + bt[n] /\ at[0] \in Nat /\ bt[0] \in Nat /\ at[n] \in Nat /\ bt[n] \in Nat
    BY <1>1, <2>1, <2>4 DEF T
  <2> QED BY <1>1, <2>1, <2>5
<1>5. e \in Nat /\ e >= 2 * n
  <2>1. n \in 0..n /\ 0 \in 0..n
    BY <1>1
  <2>2. at[n] >= at[0] + 2 * n /\ at[0] \in Nat /\ at[n] \in Nat
    BY <1>1, <1>3, <2>1
  <2> QED BY <1>1, <2>2
<1> QED BY <1>3, <1>4, <1>5 DEF keys, n

LEMMA KeyCount ==
    ASSUME DocInv, NEW id \in 1..Len(structs), NEW i \in 1..Len(structs[id].keys),
           NEW q, q = <<id, structs[id].keys[i].obj>>
    PROVE  IsKey(q) /\ Count(structs, q) = structs[id].keys[i].name
<1> DEFINE keys == structs[id].keys
<1>1. keys[i].obj \in 1..Len(keys) /\ Len(keys) \in Nat
  BY DocFacts DEF KeysTold
<1>2. q[1] = id /\ q[2] = keys[i].obj
  OBVIOUS
<1>3. IsKey(q) /\ ~IsWhole(q) /\ ~IsKeyVector(q)
  BY <1>1, <1>2 DEF IsKey, IsWhole, IsKeyVector, KeyVector
<1>4. Count(structs, q) = (CHOOSE k \in ToSet(structs[id].keys) : k.obj = q[2]).name
  BY <1>2, <1>3 DEF Count
<1>5. \A obj : obj = keys[i].obj => (CHOOSE k \in ToSet(keys) : k.obj = obj) = keys[i]
  BY KeyNamed, Zenon
<1>6. (CHOOSE k \in ToSet(keys) : k.obj = q[2]) = keys[i]
  BY <1>2, <1>5, Zenon
<1>7. Count(structs, q) = keys[i].name
  BY <1>4, <1>6, Zenon
<1> QED BY <1>3, <1>7

(* Behind the keys of a map, when they are written, its vector begins.     *)
LEMMA KeysInARow ==
    ASSUME DocInv, NEW P, Good(P, Root), NEW n \in 0..Len(P), WrittenUpTo(P, n),
           Len(buff) \in Nat,
           NEW j \in 1..Len(P), j <= n + 1, IsKeyVector(P[j]), NEW id, id = P[j][1]
    PROVE  id \in 1..Len(structs)
           /\ \E at : InARow(structs, written, id, at, StartAt(written, P, n, Len(buff), j))
<1> DEFINE keys == structs[id].keys
           K == Len(keys)
           start(m) == StartAt(written, P, n, Len(buff), m)
           q(i) == <<id, keys[i].obj>>
<1>1. /\ Len(P) \in Nat /\ IsPart(P[j]) /\ KeysBefore(P) /\ n \in Nat /\ n <= Len(P)
  BY DEF Good
<1>2. id \in 1..Len(structs) /\ K \in Nat
  BY <1>1, PartKinds, DocFacts
<1>3. K < j /\ \A i \in 1..K : P[(j - 1) - K + i] = q(i)
  BY <1>1 DEF KeysBefore, Of
<1>4. /\ DOMAIN written = {P[k] : k \in 1..n}
      /\ \A m \in 1..n : /\ Begins(structs, written, P[m])
                         /\ Ends(structs, written, P[m], start(m + 1))
  BY DEF WrittenUpTo, Follows
<1>5. \A m \in 1..n : start(m) = written[P[m]].start /\ start(m) \in Nat
  <2> TAKE m \in 1..n
  <2>1. Begins(structs, written, P[m]) /\ ~(m > n)
    BY <1>4
  <2> QED BY <2>1 DEF Begins, StartAt
<1>6. \A m \in 1..(n + 1) : start(m) \in Nat
  <2> TAKE m \in 1..(n + 1)
  <2>1. CASE m \in 1..n
    BY <1>5, <2>1
  <2>2. CASE m = n + 1
    BY <1>1, <2>2 DEF StartAt
  <2> QED BY <1>1, <2>1, <2>2
<1>7. \A i \in 1..K : IsKey(q(i)) /\ Count(structs, q(i)) = keys[i].name
  BY <1>2, KeyCount
<1> DEFINE at == [i \in 0..K |-> start((j - K) + i)]
<1> HIDE DEF keys, K, start, q
<1>8. \A i \in 0..K : (j - K) + i \in 1..(n + 1)
  BY <1>1, <1>2, <1>3
<1>9. at \in [0..K -> Nat] /\ \A i \in 0..K : at[i] = start((j - K) + i)
  BY <1>6, <1>8
<1> HIDE DEF at
<1>10. at[K] = start(j)
  <2>1. K \in 0..K /\ (j - K) + K = j
    BY <1>2
  <2> QED BY <1>9, <2>1
<1>11. ASSUME NEW i \in 1..K
       PROVE  /\ at[i] = at[i - 1] + keys[i].name + 1
              /\ q(i) \in DOMAIN written /\ written[q(i)].index0 = at[i - 1]
  <2> DEFINE m == (j - 1) - K + i
  <2>1. /\ m \in 1..n /\ (j - K) + i = m + 1 /\ (j - K) + (i - 1) = m
        /\ i \in 0..K /\ i - 1 \in 0..K
    <3>1. n \in Nat /\ K \in Nat /\ K < j /\ j \in Nat
      BY <1>1, <1>2, <1>3
    <3> QED BY <3>1
  <2>2. P[m] = q(i)
    BY <1>3
  <2> HIDE DEF m
  <2>3. at[i] = start(m + 1) /\ at[i - 1] = start(m)
    BY <1>9, <2>1
  <2>4. Begins(structs, written, q(i)) /\ Ends(structs, written, q(i), start(m + 1))
    BY <1>4, <2>1, <2>2
  <2>5. start(m) = written[q(i)].start
    BY <1>5, <2>1, <2>2
  <2>6. written[q(i)].index0 = written[q(i)].start
    BY <1>7, <2>4 DEF Begins
  <2>7. start(m + 1) = written[q(i)].index0 + keys[i].name + 1
    BY <1>7, <2>4 DEF Ends
  <2>8. q(i) \in DOMAIN written
    BY <1>4, <2>1, <2>2
  <2> QED BY <2>3, <2>5, <2>6, <2>7, <2>8
<1>12. InARow(structs, written, id, at, start(j))
  BY <1>9, <1>10, <1>11 DEF InARow, K, keys, q
<1> QED BY <1>2, <1>12 DEF start

-----------------------------------------------------------------------------
(* The widths that serialization knows of keys.                            *)

(* A size that is more than two bytes only for keys that are heavy.        *)
WideWhenHeavy(S, id, size) ==
    /\ size \in {b8, b16, b32}
    /\ size = b32 => id \in 1..Len(S) /\ Heavy(S[id].keys)

KeyFields(S, o) ==
    \A q \in AnyPart : IsKey(q) => WideWhenHeavy(S, q[1], OffsetIn(o, q).fieldSize)

KeyWidths(S, w) ==
    \A q \in DOMAIN w : IsKeyVector(q) => WideWhenHeavy(S, q[1], w[q].bSize)

RoomInv == KeyFields(structs, offsetPtrs) /\ KeyWidths(structs, written)

LEMMA VectorFits ==
    ASSUME NEW p, Ready(p), IsKeyVector(p), KeyFields(structs, offsetPtrs)
    PROVE  WideWhenHeavy(structs, p[1], Width(p))
<1> DEFINE keys == structs[p[1]].keys
<1>1. DocInv /\ IsPart(p) /\ OffsetsTyped(offsetPtrs)
  BY DEF Ready
<1>2. ~IsWhole(p) /\ p[1] \in 1..Len(structs)
  BY <1>1, PartKinds
<1>3. Count(structs, p) = Len(keys)
  BY <1>2 DEF Count
<1>4. Width(p) = b8 \/ \E i \in 1..Count(structs, p) : Width(p) = Elems(p)[i].size
  BY <1>1, <1>2, WidthIs
<1>5. CASE Width(p) = b8
  BY <1>5 DEF WideWhenHeavy, b8, b32
<1>6. ASSUME NEW i \in 1..Count(structs, p), Width(p) = Elems(p)[i].size
      PROVE  WideWhenHeavy(structs, p[1], Width(p))
  <2> DEFINE q == <<p[1], keys[i].obj>>
  <2>1. ~InlineAt(structs, p, i)
    BY <1>2 DEF InlineAt, TypeAt, isInline, KEY, BOOL
  <2>2. TargetAt(structs, p, i) = q
    BY <1>2 DEF TargetAt
  <2>3. Elems(p)[i].size = OffsetOf(q).fieldSize
    BY <1>1, <2>1, <2>2, ElemSizes
  <2>4. q \in AnyPart
    BY <1>1, <2>1, <2>2, StaticTypes
  <2>5. IsKey(q)
    BY <1>1, <1>2, <1>3, KeyCount
  <2>6. q[1] = p[1]
    OBVIOUS
  <2> HIDE DEF q
  <2>7. WideWhenHeavy(structs, q[1], OffsetIn(offsetPtrs, q).fieldSize)
    BY <2>4, <2>5 DEF KeyFields
  <2>8. OffsetIn(offsetPtrs, q).fieldSize = Width(p)
    BY <1>6, <2>3 DEF OffsetIn, OffsetOf
  <2> QED BY <2>6, <2>7, <2>8
<1> QED BY <1>4, <1>5, <1>6

(* The offsets of a vector of keys are long only if the keys are.          *)
LEMMA KeysAreNear ==
    ASSUME NEW p, Ready(p), IsKeyVector(p), TargetsTold(p), KeyFields(structs, offsetPtrs),
           NEW at, InARow(structs, written, p[1], at, Len(buff)),
           \A i \in 1..Len(structs[p[1]].keys) : structs[p[1]].keys[i].name # 0,
           NEW i \in 1..Count(structs, p)
    PROVE  WideWhenHeavy(structs, p[1], uintSize(Distance(p, i)))
<1> DEFINE keys == structs[p[1]].keys
           W == B(Width(p))
           q == <<p[1], keys[i].obj>>
<1>1. DocInv /\ IsPart(p) /\ OffsetsTyped(offsetPtrs)
  BY DEF Ready
<1>2. ~IsWhole(p) /\ p[1] \in 1..Len(structs) /\ ~IsKey(p) /\ p # RootPart
  BY <1>1, PartKinds DEF RootPart, WholeOf, IsWhole
<1>3. Count(structs, p) = Len(keys) /\ Len(keys) \in Nat /\ keys \in Seq(Key)
  BY <1>2, <1>1, DocFacts DEF Count
<1>4. W \in Nat /\ W <= 4
  <2>1. WideWhenHeavy(structs, p[1], Width(p)) /\ Width(p) \in ByteSize
    BY VectorFits, ReadyFacts
  <2>2. B(0) = 1 /\ B(1) = 2 /\ B(2) = 4
    BY SMT DEF B
  <2> QED BY <2>1, <2>2 DEF WideWhenHeavy, b8, b16, b32
<1>5. ~InlineAt(structs, p, i) /\ TargetAt(structs, p, i) = q
  BY <1>2 DEF InlineAt, TargetAt, TypeAt, isInline, KEY, BOOL
<1>6. Distance(p, i) = Index0(p) + (i - 1) - OffsetOf(q).absIndex
  BY <1>5, BytesOfType
<1>7. OffsetOf(q).absIndex = at[i - 1]
  <2>1. OffsetOf(q).absIndex = written[q].index0
    BY <1>5 DEF TargetsTold
  <2>2. written[q].index0 = at[i - 1]
    BY <1>3 DEF InARow
  <2> QED BY <2>1, <2>2
<1>8. Index0(p) = Len(buff) + W
  <2>1. CountHead(structs, p) /\ ~MapHead(structs, p)
    BY <1>2 DEF CountHead, MapHead, TypeIn, VECTOR_KEY, KEY
  <2>2. Len(Head0(p)) = W
    BY <2>1, HeadIs
  <2> QED BY <2>2 DEF Index0
<1>9. /\ at \in [0..Len(keys) -> Nat] /\ at[Len(keys)] = Len(buff)
      /\ \A k \in 1..Len(keys) : at[k] = at[k - 1] + keys[k].name + 1
  BY DEF InARow
<1>10. \A k \in 0..Len(keys) : at[k] >= at[0] + 2 * k
  BY <1>3, RowIsLong
<1> HIDE DEF keys, W, q
<1>11. CASE Distance(p, i) < 256
  BY <1>11 DEF WideWhenHeavy, uintSize, b8, b16, b32
<1>12. CASE ~(Distance(p, i) < 256)
  <2>1. i \in Nat /\ i >= 1 /\ i - 1 \in 0..Len(keys) /\ 0 \in 0..Len(keys) /\ Len(keys) \in 0..Len(keys)
    BY <1>3
  <2>2. at[i - 1] \in Nat /\ at[0] \in Nat /\ Len(buff) \in Nat /\ at[i - 1] >= at[0] + 2 * (i - 1)
    BY <1>9, <1>10, <2>1
  <2>3. Distance(p, i) = (Len(buff) + W) + (i - 1) - at[i - 1]
    BY <1>6, <1>7, <1>8
  <2>4. at[Len(keys)] >= at[0] + 252
    <3>1. PICK L \in Nat, a \in Nat, c \in Nat : L = Len(buff) /\ a = at[i - 1] /\ c = at[0]
      BY <2>2
    <3>2. Distance(p, i) = (L + W) + (i - 1) - a /\ a >= c + 2 * (i - 1)
      BY <2>2, <2>3, <3>1
    <3>3. (L + W) + (i - 1) - a >= 256
      BY <1>4, <1>12, <2>1, <3>2
    <3>4. L >= c + 252
      BY <1>4, <2>1, <3>2, <3>3
    <3> QED BY <1>9, <3>1, <3>4
  <2>5. \A k \in 1..Len(keys) : at[k] <= at[k - 1] + keys[k].name + 1
    <3> TAKE k \in 1..Len(keys)
    <3>1. at[k] = at[k - 1] + keys[k].name + 1 /\ k \in 0..Len(keys)
      BY <1>3, <1>9
    <3>2. at[k] \in Nat
      BY <1>9, <3>1
    <3> QED BY <3>1, <3>2
  <2>6. Heavy(keys)
    BY <1>9, <2>4, <2>5 DEF Heavy
  <2> QED BY <1>2, <1>12, <2>6 DEF WideWhenHeavy, uintSize, b8, b16, b32, keys
<1> QED BY <1>11, <1>12

LEMMA NamesAreThere ==
    ASSUME FormsInv, DocInv, NEW id \in 1..Len(structs)
    PROVE  /\ \A i \in 1..Len(structs[id].keys) : structs[id].keys[i].name # 0
           /\ ~IsMap(structs[id]) => structs[id].keys = <<>>
<1>1. structs[id] \in Form
  BY ElementOfSeq DEF FormsInv, Trees
<1>2. MapOK(structs[id])
  BY <1>1 DEF Form
<1>3. CASE IsMap(structs[id])
  BY <1>2, <1>3 DEF MapOK, KeysOK, KeysInOrder
<1>4. CASE ~IsMap(structs[id])
  <2>1. structs[id].keys = <<>>
    BY <1>2, <1>4 DEF MapOK
  <2>2. Len(structs[id].keys) = 0
    BY <2>1
  <2> QED BY <1>4, <2>1, <2>2
<1> QED BY <1>3, <1>4

LEMMA RoomPart ==
    ASSUME DocInv, FormsInv, LayInv, RoomInv, SerializePart
    PROVE  RoomInv'
<1> DEFINE p == Head(todo)
           o == RenewOffsets(p)
           w == WrittenWith(p)
<1>1. /\ todo # <<>> /\ (p = RootPart => Elems(p) # <<>>)
      /\ written' = w /\ offsetPtrs' = o /\ structs' = structs
  BY DEF SerializePart, WrittenWith, doc
<1> HIDE DEF p, o, w
<1>2. /\ Ready(p) /\ p \notin DOMAIN written /\ TargetsTold(p)
      /\ \E P : Good(P, Root) /\ \E n \in 0..(Len(P) - 1) :
            /\ WrittenUpTo(P, n) /\ p = P[n + 1]
            /\ Tail(todo) = SubSeq(P, (n + 1) + 1, Len(P))
  BY <1>1, NextIsReady DEF p
<1>3. /\ KeyFields(structs, offsetPtrs) /\ KeyWidths(structs, written)
      /\ IsPart(p) /\ Len(buff) \in Nat
  BY <1>2, ReadyFacts DEF RoomInv, Ready
<1>4. /\ OffsetIn(o, p).fieldSize = OffsetOf(p).fieldSize
      /\ \A q : q # p =>
            \/ OffsetIn(o, q) = OffsetIn(offsetPtrs, q)
            \/ \E i \in 1..Count(structs, p) :
                  /\ ~InlineAt(structs, p, i) /\ TargetAt(structs, p, i) = q
                  /\ OffsetIn(o, q).fieldSize = uintSize(Distance(p, i))
  BY <1>2, RenewedIs DEF o
<1>5. /\ DOMAIN w = DOMAIN written \cup {p} /\ w[p].bSize = Width(p)
      /\ \A q \in DOMAIN written : q # p => w[q] = written[q]
  BY WrittenWithIs DEF w
<1>6. ASSUME IsKeyVector(p), NEW i \in 1..Count(structs, p)
      PROVE  WideWhenHeavy(structs, p[1], uintSize(Distance(p, i)))
  <2>1. PICK P : Good(P, Root) /\ \E n \in 0..(Len(P) - 1) : WrittenUpTo(P, n) /\ p = P[n + 1]
    BY <1>2
  <2>2. PICK n \in 0..(Len(P) - 1) : WrittenUpTo(P, n) /\ p = P[n + 1]
    BY <2>1
  <2>3. Len(P) \in Nat
    BY <2>1 DEF Good
  <2>4. n \in 0..Len(P) /\ n + 1 \in 1..Len(P) /\ n + 1 <= n + 1 /\ n + 1 > n
    BY <2>3
  <2>5. PICK id : id = p[1]
    OBVIOUS
  <2>6. /\ id \in 1..Len(structs)
        /\ \E at : InARow(structs, written, id, at, StartAt(written, P, n, Len(buff), n + 1))
    BY <1>3, <1>6, <2>1, <2>2, <2>4, <2>5, KeysInARow
  <2>7. StartAt(written, P, n, Len(buff), n + 1) = Len(buff)
    BY <2>4 DEF StartAt
  <2>8. PICK at : InARow(structs, written, p[1], at, Len(buff))
    BY <2>5, <2>6, <2>7
  <2>9. \A k \in 1..Len(structs[p[1]].keys) : structs[p[1]].keys[k].name # 0
    BY <2>5, <2>6, NamesAreThere
  <2> QED BY <1>2, <1>3, <1>6, <2>8, <2>9, KeysAreNear
<1>7. ASSUME NEW q \in AnyPart, IsKey(q)
      PROVE  WideWhenHeavy(structs, q[1], OffsetIn(o, q).fieldSize)
  <2>1. WideWhenHeavy(structs, q[1], OffsetIn(offsetPtrs, q).fieldSize)
    BY <1>3, <1>7 DEF KeyFields
  <2>2. CASE q = p
    BY <1>4, <2>1, <2>2 DEF OffsetIn, OffsetOf
  <2>3. CASE OffsetIn(o, q) = OffsetIn(offsetPtrs, q)
    BY <2>1, <2>3
  <2>4. ASSUME NEW i \in 1..Count(structs, p), ~InlineAt(structs, p, i), TargetAt(structs, p, i) = q,
               OffsetIn(o, q).fieldSize = uintSize(Distance(p, i))
        PROVE  WideWhenHeavy(structs, q[1], OffsetIn(o, q).fieldSize)
    <3>1. IsWhole(p) \/ IsKeyVector(p)
      BY <1>2, <1>3, <2>4, TargetNeeded DEF Ready
    <3>2. ~IsWhole(p)
      <4> SUFFICES ASSUME IsWhole(p) PROVE FALSE
        OBVIOUS
      <4>1. q[2] = 0
        BY <2>4 DEF TargetAt, WholeOf
      <4> QED BY <1>7, <4>1 DEF IsKey
    <3>3. q[1] = p[1]
      BY <2>4, <3>2 DEF TargetAt
    <3> QED BY <1>6, <2>4, <3>1, <3>2, <3>3
  <2> QED BY <1>4, <2>2, <2>3, <2>4
<1>8. KeyFields(structs, o)
  BY <1>7 DEF KeyFields
<1>9. KeyWidths(structs, w)
  <2> SUFFICES ASSUME NEW q \in DOMAIN w, IsKeyVector(q)
               PROVE  WideWhenHeavy(structs, q[1], w[q].bSize)
    BY DEF KeyWidths
  <2>1. CASE q = p
    BY <1>2, <1>3, <1>5, <2>1, VectorFits
  <2>2. CASE q # p
    BY <1>3, <1>5, <2>2 DEF KeyWidths
  <2> QED BY <2>1, <2>2
<1> QED BY <1>1, <1>8, <1>9 DEF RoomInv

(* A call of the Builder keeps what is heavy.                              *)
LEMMA BuildKeepsHeavy ==
    ASSUME SInv, SInv', Next, NEW id \in 1..Len(structs), Heavy(structs[id].keys)
    PROVE  id \in 1..Len(structs') /\ Heavy(structs'[id].keys)
<1>1. IInv /\ FormsInv /\ DocInv /\ TypeOK /\ StackInv
  BY InvIsDoc DEF SInv, IInv
<1>2. Len(structs) \in Nat /\ id \in DOMAIN structs
  BY <1>1, DocFacts
<1>3. Len(structs') \in Nat /\ Len(structs) <= Len(structs')
  <2>1. Step
    BY <1>1, StepShape DEF IInv
  <2>2. CASE structs' = structs
    BY <1>2, <2>2
  <2>3. CASE EditedDoc
    BY <1>1, <1>2, <2>3, EditedDocProperties
  <2>4. CASE ExtendedDoc
    BY <1>1, <1>2, <2>4, ExtendedDocProperties
  <2> QED BY <2>1, <2>2, <2>3, <2>4 DEF Step
<1>4. id \in 1..Len(structs')
  BY <1>2, <1>3
<1>5. structs[id].keys \in Seq(Key)
  BY <1>1, DocFacts
<1>6. structs'[id].keys \in Seq(Key)
  <2>1. structs' \in Seq(Structure)
    BY DEF SInv, IInv, TypeOK
  <2>2. structs'[id] \in Structure
    BY <1>4, <2>1, ElementOfSeq
  <2> QED BY <2>2 DEF Structure
<1>7. IsMap(structs[id])
  <2> SUFFICES ASSUME ~IsMap(structs[id]) PROVE FALSE
    OBVIOUS
  <2>1. structs[id].keys = <<>>
    BY <1>1, NamesAreThere
  <2>2. Len(structs[id].keys) = 0
    BY <2>1
  <2>3. PICK at \in [0..0 -> Nat] : at[0] >= at[0] + 252
    BY <2>2 DEF Heavy
  <2>4. at[0] \in Nat
    OBVIOUS
  <2> QED BY <2>3, <2>4
<1>8. KeysGrow(structs[id].keys, structs'[id].keys)
  <2>1. Pairs(structs[id], structs'[id])
    BY <1>1, <1>2, StepPairs
  <2> QED BY <1>7, <2>1 DEF Pairs
<1> QED BY <1>4, <1>5, <1>6, <1>8, HeavyStays

LEMMA StepRoom ==
    ASSUME SInv, SInv', RoomInv, [SerializeNext]_all
    PROVE  RoomInv'
<1>1. /\ FormsInv /\ DocInv /\ LayInv
      /\ KeyFields(structs, offsetPtrs) /\ KeyWidths(structs, written)
  BY InvIsDoc DEF SInv, RoomInv
<1>2. CASE UNCHANGED all
  BY <1>1, <1>2 DEF all, vars, output, RoomInv, KeyFields, KeyWidths, WideWhenHeavy
<1>3. CASE Build
  <2>1. Next /\ written' = <<>> /\ offsetPtrs' = offsetPtrs
    BY <1>3 DEF Build
  <2>2. \A id, size : WideWhenHeavy(structs, id, size) => WideWhenHeavy(structs', id, size)
    BY <2>1, BuildKeepsHeavy DEF WideWhenHeavy
  <2>3. KeyFields(structs', offsetPtrs)
    BY <1>1, <2>2 DEF KeyFields
  <2>4. KeyWidths(structs', written')
    BY <2>1 DEF KeyWidths
  <2> QED BY <2>1, <2>3, <2>4 DEF RoomInv
<1>4. ASSUME NEW start \in {<<>>, buff}, SerializeBuffer(start)
      PROVE  RoomInv'
  <2>1. written' = <<>> /\ offsetPtrs' = offsetPtrs /\ structs' = structs
    BY <1>4 DEF SerializeBuffer, vars
  <2>2. KeyWidths(structs, written')
    BY <2>1 DEF KeyWidths
  <2> QED BY <1>1, <2>1, <2>2 DEF RoomInv
<1>5. CASE SerializePart
  BY <1>1, <1>5, RoomPart DEF RoomInv
<1>6. CASE SerializeNothing
  <2>1. written' = written /\ offsetPtrs' = offsetPtrs /\ structs' = structs
    BY <1>6 DEF SerializeNothing, doc
  <2> QED BY <1>1, <2>1 DEF RoomInv
<1> QED BY <1>2, <1>3, <1>4, <1>5, <1>6 DEF SerializeNext, Serialize

(* The width of a vector of keys is four bytes only behind long keys.      *)
THEOREM KeyRoomInvariant == SerializeSpec => []RoomInv
<1>1. ASSUME SerializeInit
      PROVE  RoomInv
  <2>1. DOMAIN offsetPtrs = {} /\ DOMAIN written = {}
    BY <1>1 DEF SerializeInit
  <2>2. KeyWidths(structs, written)
    BY <2>1 DEF KeyWidths
  <2>3. KeyFields(structs, offsetPtrs)
    BY <2>1 DEF KeyFields, WideWhenHeavy, OffsetIn, Unbound, b8, b16, b32
  <2> QED BY <2>2, <2>3 DEF RoomInv
<1>2. SInv /\ SInv' /\ RoomInv /\ [SerializeNext]_all => RoomInv'
  BY StepRoom
<1> QED BY <1>1, <1>2, SerializationInvariant, PTL DEF SerializeSpec

-----------------------------------------------------------------------------
(* Behind the vector of its keys, wherever that ends, a map begins: not so *)
(* far from the first key that the room made for the distance is too small.*)
LEMMA KeysInReach ==
    ASSUME SInv, RoomInv, NEW p \in DOMAIN written, MapHead(structs, p),
           written[p].index0 < 65536,
           NEW W, W = B(written[p].bSize), NEW first, first = written[KeysOf(p[1])].index0
    PROVE  /\ (written[p].index0 - 3 * W) - first \in Nat
           /\ Holds((written[p].index0 - 3 * W) - first, written[p].bSize)
<1> DEFINE v == KeysOf(p[1])
           V == B(written[v].bSize)
           K == Count(structs, v)
           z == written[p].index0
           D == (z - 3 * W) - first
<1>1. /\ DocInv /\ FormsInv /\ IsPart(p) /\ Laid(structs, buff, written, p) /\ Progress
      /\ z \in Nat /\ W \in Nat /\ W > 0 /\ written[p].bSize \in ByteSize /\ Len(buff) \in Nat
      /\ KeyWidths(structs, written)
  BY WrittenFacts DEF SInv, LayInv, RoomInv
<1>2. v \in DOMAIN written /\ first <= z - 3 * W /\ b(uintSize(first)) <= written[p].bSize
  BY <1>1 DEF Laid, HeadLaid
<1>3. /\ first \in Nat /\ written[v].bSize \in ByteSize /\ V \in Nat /\ V > 0 /\ K \in Nat
  BY <1>2, WrittenFacts
<1>4. v[1] = p[1] /\ IsKeyVector(v) /\ ~IsWhole(v) /\ ~IsKey(v) /\ v # RootPart
  BY DEF KeysOf, KeyVector, IsKeyVector, IsWhole, IsKey, RootPart, WholeOf
<1>5. K = Len(structs[p[1]].keys)
  BY <1>4 DEF Count
<1> HIDE DEF v, V, K, z, D
<1>6. D \in Nat
  BY <1>1, <1>2, <1>3 DEF D
<1>7. D < 65536
  <2>1. z < 65536
    BY DEF z
  <2>2. z \in Nat /\ W \in Nat /\ first \in Nat
    BY <1>1, <1>3
  <2> QED BY <2>1, <2>2 DEF D
<1>8. CASE written[p].bSize # b8
  <2>1. Holds(D, written[p].bSize)
    BY <1>1, <1>6, <1>7, <1>8 DEF Holds, ByteSize, b8, b16, b64
  <2> QED BY <1>6, <2>1 DEF D, z
<1>9. CASE written[p].bSize = b8
  <2>1. first < 256
    BY <1>2, <1>9 DEF b, uintSize, b8, b16
  <2>2. PICK P : Good(P, Root) /\ \E n \in 0..Len(P) : WrittenUpTo(P, n)
    BY <1>1 DEF Progress
  <2>3. PICK n \in 0..Len(P) : WrittenUpTo(P, n)
    BY <2>2
  <2>4. Len(P) \in Nat /\ VectorBefore(P) /\ Once(P)
    BY <2>2 DEF Good
  <2>5. /\ DOMAIN written = {P[k] : k \in 1..n}
        /\ Follows(structs, written, P, n, Len(buff))
    BY <2>3 DEF WrittenUpTo
  <2>6. PICK j \in 1..n : P[j] = p
    BY <2>5
  <2>7. j > 1 /\ P[j - 1] = v
    <3>1. j \in 1..Len(P) /\ IsWhole(P[j]) /\ IsMap(Of(P[j]))
      BY <2>4, <2>6 DEF MapHead, Of
    <3> QED BY <2>4, <2>6, <3>1 DEF VectorBefore, v
  <2>8. /\ j - 1 \in 1..n /\ (j - 1) + 1 = j /\ j - 1 \in 1..Len(P) /\ j - 1 <= n + 1
        /\ ~(j > n) /\ ~(j - 1 > n)
    BY <2>4, <2>7
  <2>9. /\ Begins(structs, written, p) /\ Begins(structs, written, v)
        /\ Ends(structs, written, v, StartAt(written, P, n, Len(buff), j))
    BY <2>5, <2>6, <2>7, <2>8 DEF Follows
  <2>10. StartAt(written, P, n, Len(buff), j) = written[p].start
         /\ StartAt(written, P, n, Len(buff), j - 1) = written[v].start
    BY <2>6, <2>7, <2>8 DEF StartAt
  <2>11. written[p].start \in Nat /\ z = written[p].start + 3 * W
    BY <2>9 DEF Begins, z
  <2>12. written[v].start \in Nat /\ first = written[v].start + V
    BY <1>4, <2>9 DEF Begins, V, v
  <2>13. written[p].start < first + (K + 1) * V
    BY <1>4, <2>9, <2>10 DEF Ends, V, v, K
  <2>14. PICK id : id = p[1]
    OBVIOUS
  <2>15. /\ id \in 1..Len(structs)
         /\ \E at : InARow(structs, written, id, at, written[v].start)
    <3>1. PICK i \in 1..Len(P) : i = j - 1
      BY <2>8
    <3>2. i <= n + 1 /\ IsKeyVector(P[i]) /\ id = P[i][1]
      BY <1>4, <2>7, <2>8, <2>14, <3>1
    <3>3. DocInv /\ Len(buff) \in Nat /\ Good(P, Root) /\ WrittenUpTo(P, n)
      BY <1>1, <2>2, <2>3
    <3>4. /\ id \in 1..Len(structs)
          /\ \E at : InARow(structs, written, id, at, StartAt(written, P, n, Len(buff), i))
      BY <3>2, <3>3, KeysInARow
    <3>5. StartAt(written, P, n, Len(buff), i) = written[v].start
      BY <2>10, <3>1
    <3> QED BY <3>4, <3>5
  <2>16. PICK at : InARow(structs, written, id, at, written[v].start)
    BY <2>15
  <2>17. /\ structs[id].keys \in Seq(Key)
         /\ \A i \in 1..Len(structs[id].keys) : structs[id].keys[i].name # 0
    BY <1>1, <2>15, NamesAreThere, DocFacts
  <2>18. /\ Heavy(structs[id].keys) => written[v].start >= 252
         /\ written[v].start >= 2 * Len(structs[id].keys)
    BY <2>16, <2>17, RowIsLong
  <2>19. WideWhenHeavy(structs, id, written[v].bSize)
    BY <1>1, <1>2, <1>4, <2>14 DEF KeyWidths
  <2>20. B(0) = 1 /\ B(1) = 2 /\ B(2) = 4
    BY SMT DEF B
  <2>21. V \in {1, 2, 4} /\ (V = 4 => written[v].start >= 252)
    BY <2>18, <2>19, <2>20 DEF WideWhenHeavy, V, b8, b16, b32
  <2>22. written[v].start >= 2 * K
    BY <1>5, <2>14, <2>18
  <2>23. D = written[p].start - first
    BY <1>1, <1>3, <2>11 DEF D
  <2>24. D < 256
    <3>1. PICK s \in Nat, t \in Nat, f \in Nat, k \in Nat, u \in Nat :
              s = written[p].start /\ t = written[v].start /\ f = first /\ k = K /\ u = V
      BY <1>3, <2>11, <2>12
    <3>2. /\ f = t + u /\ s < f + (k + 1) * u /\ f < 256 /\ u \in {1, 2, 4} /\ t >= 2 * k
          /\ u = 4 => t >= 252
      BY <2>1, <2>12, <2>13, <2>21, <2>22, <3>1
    <3>3. u \in {1, 2}
      BY <3>2
    <3>4. (k + 1) * u <= f
      <4>1. CASE u = 1
        BY <3>2, <4>1
      <4>2. CASE u = 2
        BY <3>2, <4>2
      <4> QED BY <3>3, <4>1, <4>2
    <3>5. s - f < 256
      BY <3>2, <3>4
    <3> QED BY <2>23, <3>1, <3>5
  <2>25. Holds(D, written[p].bSize)
    BY <1>9, <2>24 DEF Holds, b8, b16
  <2> QED BY <1>6, <2>25 DEF D, z
<1> QED BY <1>8, <1>9

LEMMA NumberFound ==
    ASSUME SInv, NEW s \in ByteSize, NEW n \in Nat, Holds(n, s), NEW z \in Int,
           Stands(buff, z, LittleEndian(n, B(s)))
    PROVE  ReadUint(BytesAt(z, B(s))) = n
<1>1. B(s) \in Nat
  BY WidthInBytes
<1>2. LittleEndian(n, B(s)) \in Seq(Bytes) /\ Len(LittleEndian(n, B(s))) = B(s)
  BY <1>1, LittleEndianType
<1>3. buff \in Seq(Bytes)
  BY DEF SInv, LayInv
<1>4. BytesAt(z, B(s)) = LittleEndian(n, B(s))
  BY <1>1, <1>2, <1>3, BytesFound
<1> QED BY <1>4, NumberReadsBack

LEMMA HeadsAreRight ==
    ASSUME SInv, RoomInv
    PROVE  HeadsReadBack
<1> SUFFICES ASSUME NEW p \in DOMAIN written, p # RootPart, TypeOf(p) # KEY,
                    NEW z, z = written[p].index0, NEW s, s = written[p].bSize, NEW W, W = B(s),
                    NEW keys, keys = written[KeysOf(p[1])]
             PROVE  /\ Holds(Len(Elems(p)), s) =>
                          ReadUint(BytesAt(z - 1 * W, W)) = Len(Elems(p))
                    /\ TypeOf(p) = MAP /\ z < 65536 =>
                          /\ ReadUint(BytesAt(z - 2 * W, W)) = B(keys.bSize)
                          /\ z - 3 * W - ReadUint(BytesAt(z - 3 * W, W)) = keys.index0
  BY DEF HeadsReadBack
<1>1. /\ z \in Nat /\ s \in ByteSize /\ W \in Nat /\ Len(Elems(p)) = Count(structs, p)
      /\ Count(structs, p) \in Nat /\ TypeOf(p) = TypeIn(structs, p) /\ IsPart(p)
      /\ HeadLaid(structs, buff, written, p)
  BY WrittenFacts DEF Laid
<1>2. CountHead(structs, p)
  BY <1>1 DEF CountHead
<1>3. ASSUME Holds(Len(Elems(p)), s)
      PROVE  ReadUint(BytesAt(z - 1 * W, W)) = Len(Elems(p))
  <2>1. Stands(buff, z - W, LittleEndian(Count(structs, p), W))
    BY <1>1, <1>2 DEF HeadLaid
  <2>2. z - W \in Int /\ z - 1 * W = z - W
    BY <1>1
  <2>3. ReadUint(BytesAt(z - W, W)) = Count(structs, p)
    BY <1>1, <1>3, <2>1, <2>2, NumberFound
  <2> QED BY <1>1, <2>2, <2>3
<1>4. ASSUME TypeOf(p) = MAP, z < 65536
      PROVE  /\ ReadUint(BytesAt(z - 2 * W, W)) = B(keys.bSize)
             /\ z - 3 * W - ReadUint(BytesAt(z - 3 * W, W)) = keys.index0
  <2>1. MapHead(structs, p)
    <3>1. IsWhole(p)
      BY <1>1, <1>4 DEF TypeIn, MAP, KEY, VECTOR_KEY
    <3> QED BY <1>1, <1>4, <3>1 DEF MapHead, TypeIn, IsMap
  <2>2. /\ KeysOf(p[1]) \in DOMAIN written /\ keys.index0 <= z - 3 * W
        /\ Stands(buff, z - 2 * W, LittleEndian(B(keys.bSize), W))
        /\ Stands(buff, z - 3 * W, LittleEndian((z - 3 * W) - keys.index0, W))
    BY <1>1, <2>1 DEF HeadLaid
  <2>3. keys.bSize \in ByteSize /\ keys.index0 \in Nat
    BY <2>2, WrittenFacts
  <2>4. B(keys.bSize) \in Nat /\ Holds(B(keys.bSize), s)
    <3>1. B(keys.bSize) \in {1, 2, 4, 8}
      BY <2>3, WidthInBytes
    <3> HIDE DEF B
    <3> QED BY <3>1 DEF Holds
  <2>5. z - 2 * W \in Int /\ z - 3 * W \in Int
    BY <1>1
  <2>6. (z - 3 * W) - keys.index0 \in Nat /\ Holds((z - 3 * W) - keys.index0, s)
    BY <1>4, <2>1, KeysInReach
  <2>7. ReadUint(BytesAt(z - 2 * W, W)) = B(keys.bSize)
    BY <1>1, <2>2, <2>4, <2>5, NumberFound
  <2>8. ReadUint(BytesAt(z - 3 * W, W)) = (z - 3 * W) - keys.index0
    BY <1>1, <2>2, <2>5, <2>6, NumberFound
  <2>9. (z - 3 * W) - ((z - 3 * W) - keys.index0) = keys.index0
    BY <2>3, <2>5
  <2> QED BY <2>7, <2>8, <2>9
<1> QED BY <1>3, <1>4

(* A reader finds the number of elements before the first of them, and the *)
(* keys of a map and their width.                                          *)
THEOREM HeadsDoReadBack == SerializeSpec => []HeadsReadBack
  BY HeadsAreRight, SerializationInvariant, KeyRoomInvariant, PTL

-----------------------------------------------------------------------------
(* Decoding.                                                               *)

(* When a call has returned, the root is the last that was written.        *)
LEMMA RootIsLast ==
    ASSUME SInv, Complete
    PROVE  \E P : Good(P, Root) /\ WrittenUpTo(P, Len(P))
<1>1. Progress /\ RootPart \in DOMAIN written
  BY DEF SInv, LayInv, Complete
<1>2. PICK P : Good(P, Root) /\ \E n \in 0..Len(P) : WrittenUpTo(P, n)
  BY <1>1 DEF Progress
<1>3. PICK n \in 0..Len(P) : WrittenUpTo(P, n)
  BY <1>2
<1>4. /\ Len(P) \in Nat \ {0} /\ P[Len(P)] = RootPart
      /\ \A j, k \in 1..Len(P) : P[j] = P[k] => j = k
  BY <1>2 DEF Good, Once, RootPart
<1>5. PICK k \in 1..n : RootPart = P[k]
  BY <1>1, <1>3 DEF WrittenUpTo
<1>6. k = Len(P)
  BY <1>4, <1>5
<1>7. n = Len(P)
  BY <1>4, <1>6
<1> QED BY <1>2, <1>3, <1>7

LEMMA WholeHas ==
    ASSUME NEW S, NEW p, IsWhole(p), NEW i
    PROVE  /\ TypeAt(S, p, i) = S[p[1]].elems[i].type
           /\ SizeAt(S, p, i) = S[p[1]].elems[i].size
           /\ TargetAt(S, p, i) = WholeOf(S[p[1]].elems[i].target)
           /\ Count(S, p) = Len(S[p[1]].elems)
<1>1. ~IsKeyVector(p)
  BY DEF IsWhole, IsKeyVector, KeyVector
<1> QED BY <1>1 DEF TypeAt, SizeAt, TargetAt, Count

LEMMA RootHas ==
    ASSUME NEW S
    PROVE  /\ TypeAt(S, RootPart, 1) = S[Root].elems[1].type
           /\ SizeAt(S, RootPart, 1) = S[Root].elems[1].size
           /\ TargetAt(S, RootPart, 1) = WholeOf(S[Root].elems[1].target)
           /\ Count(S, RootPart) = Len(S[Root].elems)
<1> DEFINE p == RootPart
<1>1. IsWhole(p) /\ p[1] = Root
  BY DEF RootPart, WholeOf, IsWhole
<1> HIDE DEF p
<1>2. /\ TypeAt(S, p, 1) = S[p[1]].elems[1].type
      /\ SizeAt(S, p, 1) = S[p[1]].elems[1].size
      /\ TargetAt(S, p, 1) = WholeOf(S[p[1]].elems[1].target)
      /\ Count(S, p) = Len(S[p[1]].elems)
  <2>1. ~IsKeyVector(p)
    BY <1>1 DEF IsWhole, IsKeyVector, KeyVector
  <2> QED BY <1>1, <2>1 DEF TypeAt, SizeAt, TargetAt, Count
<1>3. /\ TypeAt(S, p, 1) = S[Root].elems[1].type
      /\ SizeAt(S, p, 1) = S[Root].elems[1].size
      /\ TargetAt(S, p, 1) = WholeOf(S[Root].elems[1].target)
      /\ Count(S, p) = Len(S[Root].elems)
  BY <1>1, <1>2, Zenon
<1> QED BY <1>3 DEF p

(* The one element of the root, and what stands behind it.                 *)
LEMMA RootIsThere ==
    ASSUME SInv, Complete, NEW z, z = written[RootPart].index0,
           NEW s, s = written[RootPart].bSize, NEW W, W = B(s),
           NEW t, t = IF InlineAt(structs, RootPart, 1) THEN RootPart
                      ELSE TargetAt(structs, RootPart, 1)
    PROVE  /\ Count(structs, RootPart) = 1 /\ RootPart \in DOMAIN written /\ DocInv
           /\ z \in Nat /\ s \in ByteSize /\ W \in Nat /\ W > 0
           /\ RootElem.type = TypeAt(structs, RootPart, 1)
           /\ Inlined(RootElem) <=> InlineAt(structs, RootPart, 1)
           /\ InlineAt(structs, RootPart, 1) => RootElem.size = SizeAt(structs, RootPart, 1)
           /\ ~InlineAt(structs, RootPart, 1) => RootElem.target = TargetAt(structs, RootPart, 1)
           /\ t \in DOMAIN written /\ written[t].bSize \in ByteSize
           /\ Len(buff) = z + W + 2
           /\ buff[z + W + 1] = Pack(RootElem.type, written[t].bSize)
           /\ buff[z + W + 2] = Byte(W)
           /\ ElemLaid(structs, buff, written, RootPart, 1)
           /\ Begins(structs, written, RootPart) /\ ElemWide(structs, written, RootPart)
<1> DEFINE p == RootPart
           n == Count(structs, p)
<1>1. p \in DOMAIN written /\ Len(Elems(p)) = 1
  BY DEF Complete
<1>2. /\ n = Len(Elems(p)) /\ DocInv /\ z \in Nat /\ s \in ByteSize /\ W \in Nat /\ W > 0
      /\ Laid(structs, buff, written, p)
      /\ \A i \in 1..n : /\ Elems(p)[i].type = TypeAt(structs, p, i)
                         /\ Inlined(Elems(p)[i]) <=> InlineAt(structs, p, i)
                         /\ InlineAt(structs, p, i) => Elems(p)[i].size = SizeAt(structs, p, i)
                         /\ ~InlineAt(structs, p, i) => Elems(p)[i].target = TargetAt(structs, p, i)
  BY <1>1, WrittenFacts
<1>3. n = 1 /\ 1 \in 1..n
  BY <1>1, <1>2
<1>4. /\ RootElem.type = TypeAt(structs, p, 1)
      /\ Inlined(RootElem) <=> InlineAt(structs, p, 1)
      /\ InlineAt(structs, p, 1) => RootElem.size = SizeAt(structs, p, 1)
      /\ ~InlineAt(structs, p, 1) => RootElem.target = TargetAt(structs, p, 1)
  BY <1>2, <1>3 DEF RootElem
<1>5. /\ ElemLaid(structs, buff, written, p, 1) /\ ContextLaid(structs, buff, written, p, 1)
      /\ Stands(buff, z + n * W + 1, <<Byte(W)>>)
  BY <1>2, <1>3 DEF Laid
<1>6. t \in DOMAIN written
  BY <1>1, <1>5 DEF ElemLaid
<1>7. written[t].bSize \in ByteSize
  BY <1>6, WrittenFacts
<1>8. Stands(buff, z + n * W + (1 - 1), <<Pack(TypeAt(structs, p, 1), written[t].bSize)>>)
  BY <1>5 DEF ContextLaid
<1>9. PICK P : Good(P, Root) /\ WrittenUpTo(P, Len(P))
  BY RootIsLast
<1>10. Len(P) \in Nat \ {0} /\ P[Len(P)] = p
  BY <1>9 DEF Good, RootPart
<1>11. /\ Begins(structs, written, p) /\ ElemWide(structs, written, p)
       /\ Ends(structs, written, p, Len(buff))
  <2>1. Len(P) \in 1..Len(P) /\ Len(P) + 1 > Len(P)
    BY <1>10
  <2>2. StartAt(written, P, Len(P), Len(buff), Len(P) + 1) = Len(buff)
    BY <2>1 DEF StartAt
  <2>3. Follows(structs, written, P, Len(P), Len(buff))
    BY <1>9 DEF WrittenUpTo
  <2> QED BY <1>10, <2>1, <2>2, <2>3 DEF Follows
<1>12. Len(buff) = z + n * W + 2
  BY <1>11 DEF Ends
<1> HIDE DEF p, n
<1>13. n * W = W /\ z + W \in Int /\ z + n * W + (1 - 1) = z + W /\ (z + W + 1) + 1 = z + W + 2
  BY <1>2, <1>3
<1>14. buff[(z + W) + 1] = Pack(TypeAt(structs, p, 1), written[t].bSize)
  <2>1. Stands(buff, z + W, <<Pack(TypeAt(structs, p, 1), written[t].bSize)>>)
    BY <1>8, <1>13
  <2> QED BY <2>1 DEF Stands
<1>15. buff[(z + W + 1) + 1] = Byte(W)
  <2>1. Stands(buff, z + W + 1, <<Byte(W)>>)
    BY <1>5, <1>13
  <2> QED BY <2>1 DEF Stands
<1>16. Len(buff) = z + W + 2
  BY <1>12, <1>13
<1> QED BY <1>1, <1>2, <1>3, <1>4, <1>5, <1>6, <1>7, <1>11, <1>13, <1>14, <1>15, <1>16 DEF p, n

(* A reader takes the context apart and finds the element.                 *)
LEMMA NewRefIs ==
    ASSUME SInv, Complete, NEW z, z = written[RootPart].index0,
           NEW W, W = B(written[RootPart].bSize),
           NEW t, t = IF InlineAt(structs, RootPart, 1) THEN RootPart
                      ELSE TargetAt(structs, RootPart, 1)
    PROVE  NewRef = [vType |-> RootElem.type, bSize |-> written[t].bSize,
                     index0 |-> RootIndex(RootElem.type, z, W)]
<1> DEFINE n == Len(buff)
           context == ByteAt(n - 2)
           v == RootElem.type
           s == written[t].bSize
<1>1. /\ DocInv /\ z \in Nat /\ W \in Nat /\ n = z + W + 2 /\ s \in ByteSize
      /\ Count(structs, RootPart) = 1 /\ v = TypeAt(structs, RootPart, 1)
      /\ buff[z + W + 1] = Pack(v, s) /\ buff[z + W + 2] = Byte(W)
      /\ RootPart \in DOMAIN written
  BY RootIsThere
<1>2. v \in VarType
  <2>1. IsPart(RootPart) /\ 1 \in 1..Count(structs, RootPart)
    BY <1>1, WrittenFacts
  <2> QED BY <1>1, <2>1, StaticTypes
<1>3. v \in Nat /\ s \in 0..3
  <2>1. s \in ByteSize
    BY <1>1
  <2> HIDE DEF v, s
  <2>2. v \in Nat
    BY <1>2 DEF VarType, VECTOR_BOOL
  <2>3. s \in 0..3
    BY <2>1 DEF ByteSize, b8, b64
  <2> QED BY <2>2, <2>3
<1>4. ByteAt(n - 1) = W
  <2>1. (n - 1) + 1 = z + W + 2
    BY <1>1
  <2> QED BY <1>1, <2>1 DEF ByteAt, Byte
<1>5. context = 4 * v + s
  <2>1. (n - 2) + 1 = z + W + 1
    BY <1>1
  <2> QED BY <1>1, <2>1 DEF ByteAt, Pack, Byte
<1>6. (4 * v + s) \div 4 = v /\ (4 * v + s) % 4 = s
  <2> HIDE DEF v, s
  <2> QED BY <1>3
<1>7. n - 2 - W = z
  BY <1>1
<1>8. NewRef = [vType |-> ItemVarType(context), bSize |-> ItemByteSize(context),
                index0 |-> RootIndex(ItemVarType(context), n - 2 - W, W)]
  BY <1>4, Zenon DEF NewRef
<1>9. ItemVarType(context) = v /\ ItemByteSize(context) = s
  BY <1>5, <1>6 DEF ItemVarType, ItemByteSize
<1> HIDE DEF context, v, s, n
<1>10. NewRef = [vType |-> v, bSize |-> s, index0 |-> RootIndex(v, z, W)]
  BY <1>7, <1>8, <1>9, Zenon
<1> QED BY <1>10 DEF v, s

LEMMA ScalarsAreDecoded ==
    ASSUME SInv
    PROVE  ScalarsDecode
<1> SUFFICES ASSUME Complete, Inlined(RootElem)
             PROVE  Interface(NewRef) =
                        [vType |-> RootElem.type,
                         items |-> <<[k \in 1..B(RootElem.size) |-> <<RootPart, 1, k>>]>>]
  BY DEF ScalarsDecode
<1> DEFINE p == RootPart
           v == RootElem.type
           s == RootElem.size
           z == written[p].index0
           W == B(written[p].bSize)
<1>1. /\ DocInv /\ z \in Nat /\ written[p].bSize \in ByteSize /\ Count(structs, p) = 1
      /\ p \in DOMAIN written /\ InlineAt(structs, p, 1) /\ s = SizeAt(structs, p, 1)
      /\ v = TypeAt(structs, p, 1)
      /\ ElemLaid(structs, buff, written, p, 1) /\ ElemWide(structs, written, p)
  BY RootIsThere
<1>2. IsPart(p) /\ 1 \in 1..Count(structs, p) /\ DOMAIN Elems(p) = 1..Count(structs, p)
      /\ 1 \notin Offsets(p)
  <2>1. /\ IsPart(p) /\ DOMAIN Elems(p) = 1..Count(structs, p)
        /\ \A i \in 1..Count(structs, p) : i \in Offsets(p) <=> ~InlineAt(structs, p, i)
    BY <1>1, WrittenFacts
  <2>2. 1 \in 1..Count(structs, p)
    BY <1>1
  <2> QED BY <1>1, <2>1, <2>2
<1>3. isInline(v)
  BY <1>1 DEF InlineAt
<1>4. /\ v = structs[Root].elems[1].type /\ s = structs[Root].elems[1].size
      /\ Len(structs[Root].elems) = 1 /\ ~MapHead(structs, p)
  <2>1. IsWhole(p) /\ p[1] = Root
    BY DEF RootPart, WholeOf, IsWhole
  <2>2. structs[Root].vType = NULL
    BY <1>1 DEF DocInv, RootInv
  <2>3. /\ TypeAt(structs, p, 1) = structs[Root].elems[1].type
        /\ SizeAt(structs, p, 1) = structs[Root].elems[1].size
        /\ Count(structs, p) = Len(structs[Root].elems)
    BY RootHas, Zenon
  <2>4. ~MapHead(structs, p)
    <3>1. ~IsMap(structs[Root])
      BY <2>2 DEF IsMap, NULL, MAP
    <3> QED BY <2>1, <3>1 DEF MapHead
  <2> QED BY <1>1, <2>1, <2>3, <2>4
<1>5. Sized([type |-> v, size |-> s])
  <2>1. Root \in 1..Len(structs)
    BY <1>1, DocFacts DEF DocInv, Root
  <2>2. AllSound(structs[Root].elems)
    BY <1>1, <2>1, DocFacts DEF Linked
  <2>3. Sound(structs[Root].elems[1])
    BY <1>4, <2>2 DEF AllSound
  <2> QED BY <1>3, <1>4, <2>3 DEF Sound, Sized
<1>6. s \in ByteSize
  BY <1>1, <1>2, StaticTypes
<1>7. written[p].bSize = s
  <2>1. s <= written[p].bSize
    BY <1>1 DEF ElemLaid
  <2>2. written[p].bSize = b8 \/ written[p].bSize = s
    <3>1. \A i \in 1..Count(structs, p) : i = 1
      BY <1>1
    <3>2. \A i \in 1..Count(structs, p) : InlineAt(structs, p, i)
      BY <1>1, <3>1
    <3>3. written[p].bSize = b8 \/ \E i \in 1..Count(structs, p) : written[p].bSize = SizeAt(structs, p, i)
      BY <1>1, <1>4, <3>2 DEF ElemWide
    <3> QED BY <1>1, <3>1, <3>3
  <2> QED BY <1>6, <2>1, <2>2 DEF ByteSize, b8, b64
<1>8. BytesAt(z, W) = [k \in 1..W |-> <<p, 1, k>>]
  <2>1. Item(p, 1) = [k \in 1..W |-> <<p, 1, k>>]
    BY <1>1, <1>2, ElementsAreThere DEF ElementsReadBack
  <2>2. ItemAt(p, 1) = z
    <3>1. W \in Nat /\ z + (1 - 1) * W = z
      BY <1>1, WidthInBytes
    <3> QED BY <3>1 DEF ItemAt
  <2> QED BY <2>1, <2>2 DEF Item
<1> HIDE DEF p, v, s, z, W
<1>9. NewRef = [vType |-> v, bSize |-> s, index0 |-> z]
  <2>1. NewRef = [vType |-> v, bSize |-> written[p].bSize, index0 |-> RootIndex(v, z, W)]
    BY <1>1, NewRefIs DEF p, v, z, W
  <2>2. RootIndex(v, z, W) = z
    BY <1>1, <1>3 DEF RootIndex
  <2> QED BY <1>7, <2>1, <2>2
<1>10. Scalar(v, z, s) = BytesAt(z, W)
  <2>1. v = FLOAT => s \in {b32, b64}
    BY <1>5 DEF Sized
  <2>2. v = BOOL => B(s) = 1
    <3>1. v = BOOL => s = b8
      BY <1>5 DEF Sized
    <3> QED BY <1>6, <3>1, WidthInBytes DEF b8
  <2>3. W = B(s)
    BY <1>7 DEF W
  <2> QED BY <2>1, <2>2, <2>3 DEF Scalar
<1>11. Interface(NewRef) = [vType |-> v, items |-> <<Scalar(v, z, s)>>]
  BY <1>3, <1>9 DEF Interface
<1>12. W = B(s)
  BY <1>7 DEF W
<1> QED BY <1>8, <1>10, <1>11, <1>12 DEF v, s, p

(* A scalar in the root is decoded as it was encoded, wherever in the      *)
(* client's buffer the document starts (NewRef, Interface).                *)
THEOREM ScalarsAreReadBack == SerializeSpec => []ScalarsDecode
  BY ScalarsAreDecoded, SerializationInvariant, PTL

(* The structure in the root.                                              *)
LEMMA RootChildIs ==
    ASSUME SInv, Complete, ~InlineAt(structs, RootPart, 1),
           NEW c, c = structs[Root].elems[1].target
    PROVE  /\ c \in 2..Len(structs) /\ ChildOf(Root, c) /\ ~ChildOf(c, c)
           /\ TargetAt(structs, RootPart, 1) = WholeOf(c) /\ WholeOf(c) \in DOMAIN written
           /\ RootElem.target = WholeOf(c) /\ RootElem.type = structs[c].vType
           /\ \A x : ChildOf(Root, x) => x = c
<1>1. /\ DocInv /\ Count(structs, RootPart) = 1 /\ RootPart \in DOMAIN written
      /\ RootElem.type = TypeAt(structs, RootPart, 1)
      /\ RootElem.target = TargetAt(structs, RootPart, 1)
      /\ ElemLaid(structs, buff, written, RootPart, 1)
  BY RootIsThere
<1>3. /\ TypeAt(structs, RootPart, 1) = structs[Root].elems[1].type
      /\ TargetAt(structs, RootPart, 1) = WholeOf(c)
      /\ Len(structs[Root].elems) = 1
  <2>1. /\ TypeAt(structs, RootPart, 1) = structs[Root].elems[1].type
        /\ TargetAt(structs, RootPart, 1) = WholeOf(structs[Root].elems[1].target)
        /\ Count(structs, RootPart) = Len(structs[Root].elems)
    BY RootHas, Zenon
  <2> QED BY <1>1, <2>1
<1>4. Root \in 1..Len(structs) /\ 1 \in 1..Len(structs[Root].elems)
  BY <1>1, <1>3, DocFacts DEF DocInv, Root
<1>5. ~isInline(structs[Root].elems[1].type)
  BY <1>3 DEF InlineAt
<1>6. ChildOf(Root, c)
  BY <1>1, <1>4, <1>5, TargetFacts
<1>7. c \in (Root + 1)..Len(structs) /\ IsParent(structs, Root, c)
      /\ \A y \in 1..Len(structs) : ChildOf(y, c) => y = Root
  BY <1>1, <1>4, <1>6, ChildFacts
<1>8. c \in 2..Len(structs) /\ c \in 1..Len(structs) /\ c # Root
  BY <1>7 DEF Root
<1>9. RefersOnce(structs[Root].elems, c, structs[c].vType)
  BY <1>7 DEF IsParent
<1>10. structs[Root].elems[1].type = structs[c].vType
  BY <1>3, <1>9 DEF RefersOnce
<1>11. ASSUME NEW x, ChildOf(Root, x)
       PROVE  x = c
  <2>1. IsParent(structs, Root, x)
    BY <1>1, <1>4, <1>11, ChildFacts
  <2>2. RefersOnce(structs[Root].elems, x, structs[x].vType)
    BY <2>1 DEF IsParent
  <2>3. PICK i \in 1..Len(structs[Root].elems) :
           \A j \in 1..Len(structs[Root].elems) : structs[Root].elems[j].target = x <=> j = i
    BY <2>2 DEF RefersOnce
  <2>4. i = 1
    BY <1>3, <2>3
  <2> QED BY <1>4, <2>3, <2>4
<1>12. WholeOf(c) \in DOMAIN written
  BY <1>1, <1>3 DEF ElemLaid
<1> QED BY <1>1, <1>3, <1>6, <1>7, <1>8, <1>10, <1>11, <1>12

(* A key is one of bytes, in its structure and in the buffer.              *)
LEMMA KeyIs ==
    ASSUME SInv, NEW c \in 1..Len(structs), c # Root, structs[c].vType = KEY,
           NEW q, q = WholeOf(c), q \in DOMAIN written, Complete,
           NEW K, K = Count(structs, q), NEW z, z = written[q].index0
    PROVE  /\ K \in Nat /\ z \in Nat /\ written[q].bSize = b8
           /\ DOMAIN Elems(q) = 1..K
           /\ \A i \in 1..K : InlineAt(structs, q, i)
           /\ \A x : ~ChildOf(c, x)
           /\ \A i \in 1..K : Stands(buff, z + (i - 1), <<<<q, i, 1>>>>)
           /\ Stands(buff, z + K, <<Byte(0)>>)
<1>1. /\ DocInv /\ K \in Nat /\ z \in Nat /\ written[q].bSize \in ByteSize /\ IsPart(q)
      /\ DOMAIN Elems(q) = 1..K /\ Laid(structs, buff, written, q)
  BY WrittenFacts
<1>2. IsWhole(q) /\ q[1] = c /\ q # RootPart
  BY DEF IsWhole, WholeOf, RootPart
<1>3. K = Len(structs[c].elems)
  BY <1>2, WholeHas
<1>4. ContentsOK(structs[c])
  <2>1. structs[c] \in Form
    BY ElementOfSeq DEF SInv, FormsInv, Trees
  <2> QED BY <2>1 DEF Form
<1>5. /\ Restricted(KEY) /\ isUintTyped(KEY) /\ isBlobLike(KEY)
      /\ isInline(UINT) /\ ~IsMap(structs[c])
  BY DEF Restricted, isUintTyped, isBlobLike, isInline, KEY, UINT, IsMap, MAP
<1>6. \A i \in 1..K : structs[c].elems[i].type = UINT /\ structs[c].elems[i].size = b8
  <2> TAKE i \in 1..K
  <2>1. FitsIn(KEY, structs[c].elems[i])
    BY <1>3, <1>4, <1>5 DEF ContentsOK
  <2>2. allowsElemType(KEY, structs[c].elems[i].type) /\ allowsElemSize(KEY, structs[c].elems[i].size)
    BY <2>1 DEF FitsIn
  <2>3. ~isIntTyped(KEY) /\ ~isFloatTyped(KEY) /\ ~isBoolTyped(KEY) /\ KEY # VECTOR_KEY
        /\ KEY # VECTOR_STRING_DEPRECATED
    BY DEF isIntTyped, isFloatTyped, isBoolTyped, KEY, VECTOR_INT, VECTOR_INT2, VECTOR_INT3,
           VECTOR_INT4, INDIRECT_INT, VECTOR_FLOAT, VECTOR_FLOAT2, VECTOR_FLOAT3, VECTOR_FLOAT4,
           INDIRECT_FLOAT, VECTOR_BOOL, VECTOR_KEY, VECTOR_STRING_DEPRECATED
  <2>4. structs[c].elems[i].type = UINT
    BY <1>5, <2>2, <2>3 DEF allowsElemType
  <2> QED BY <1>5, <2>2, <2>4 DEF allowsElemSize
<1>7. \A i \in 1..K : InlineAt(structs, q, i) /\ SizeAt(structs, q, i) = b8
  <2> TAKE i \in 1..K
  <2>1. TypeAt(structs, q, i) = UINT /\ SizeAt(structs, q, i) = b8
    BY <1>2, <1>6, WholeHas
  <2> QED BY <1>5, <2>1 DEF InlineAt
<1>8. ElemWide(structs, written, q)
  <2>1. PICK P : Good(P, Root) /\ WrittenUpTo(P, Len(P))
    BY RootIsLast
  <2>2. \E j \in 1..Len(P) : q = P[j]
    BY <2>1 DEF WrittenUpTo
  <2>3. Follows(structs, written, P, Len(P), Len(buff))
    BY <2>1 DEF WrittenUpTo
  <2> QED BY <2>2, <2>3 DEF Follows
<1>9. written[q].bSize = b8
  <2>1. ~MapHead(structs, q)
    BY <1>2, <1>5 DEF MapHead
  <2> QED BY <1>7, <1>8, <2>1 DEF ElemWide
<1>10. B(written[q].bSize) = 1
  BY <1>9, WidthInBytes DEF ByteSize, b8, b64
<1>11. \A x : ~ChildOf(c, x)
  <2> SUFFICES ASSUME NEW x, ChildOf(c, x) PROVE FALSE
    OBVIOUS
  <2>1. IsParent(structs, c, x)
    BY <1>1, ChildFacts
  <2>2. RefersOnce(structs[c].elems, x, structs[x].vType) /\ x \in (c + 1)..Len(structs)
    BY <1>1, <2>1, ChildFacts DEF IsParent
  <2>3. PICK i \in 1..K : structs[c].elems[i].target = x
    BY <1>3, <2>2 DEF RefersOnce
  <2>4. FitsIn(KEY, structs[c].elems[i])
    BY <1>3, <1>4, <1>5, <2>3 DEF ContentsOK
  <2> QED BY <2>2, <2>3, <2>4 DEF FitsIn, NoStruct
<1>12. ASSUME NEW i \in 1..K
       PROVE  Stands(buff, z + (i - 1), <<<<q, i, 1>>>>)
  <2>1. ElemLaid(structs, buff, written, q, i)
    BY <1>1 DEF Laid
  <2>2. Stands(buff, z + (i - 1) * B(written[q].bSize), [k \in 1..B(written[q].bSize) |-> <<q, i, k>>])
    BY <1>7, <2>1 DEF ElemLaid
  <2>3. (i - 1) * 1 = i - 1
    BY <1>1
  <2>4. [k \in 1..1 |-> <<q, i, k>>] = <<<<q, i, 1>>>>
    OBVIOUS
  <2> QED BY <1>10, <2>2, <2>3, <2>4
<1>13. Stands(buff, z + K, <<Byte(0)>>)
  <2>1. TypeIn(structs, q) = KEY
    BY <1>2 DEF TypeIn
  <2>2. Stands(buff, z + K * B(written[q].bSize), <<Byte(0)>>)
    BY <1>1, <1>2, <2>1 DEF Laid
  <2>3. K * 1 = K
    BY <1>1
  <2> QED BY <1>10, <2>2, <2>3
<1> QED BY <1>1, <1>7, <1>9, <1>11, <1>12, <1>13

(* The bytes of the root, if it is an offset, tell where the item is.      *)
LEMMA RootOffsetIs ==
    ASSUME SInv, Complete, ~InlineAt(structs, RootPart, 1), Fits(RootPart, 1),
           NEW q, q = RootElem.target
    PROVE  NewRef = [vType |-> RootElem.type, bSize |-> written[q].bSize,
                     index0 |-> written[q].index0]
<1> DEFINE z == written[RootPart].index0
           W == B(written[RootPart].bSize)
<1>1. /\ RootPart \in DOMAIN written /\ Count(structs, RootPart) = 1
      /\ RootElem.target = TargetAt(structs, RootPart, 1) /\ z \in Nat /\ W \in Nat
      /\ RootElem.type = TypeAt(structs, RootPart, 1)
  BY RootIsThere
<1>2. 1 \in Offsets(RootPart)
  <2>1. \A i : i \in Offsets(RootPart) <=>
               i \in 1..Count(structs, RootPart) /\ ~InlineAt(structs, RootPart, i)
    BY <1>1, WrittenFacts
  <2>2. 1 \in 1..Count(structs, RootPart)
    BY <1>1
  <2> QED BY <2>1, <2>2
<1>3. Leads(RootPart, 1)
  <2>1. Unscaled(RootPart, 1)
    BY DEF Unscaled
  <2> QED BY <1>1, <1>2, <2>1, OffsetsAreRight DEF OffsetsLeadBack
<1>4. ItemAt(RootPart, 1) = z
  <2>1. z + (1 - 1) * W = z
    BY <1>1
  <2> QED BY <2>1 DEF ItemAt
<1>5. z - ReadUint(BytesAt(z, W)) = written[q].index0
  BY <1>3, <1>4 DEF Leads, Item, RootElem
<1>6. ~isInline(RootElem.type)
  BY <1>1 DEF InlineAt
<1>7. RootIndex(RootElem.type, z, W) = written[q].index0
  BY <1>5, <1>6 DEF RootIndex
<1>8. NewRef = [vType |-> RootElem.type, bSize |-> written[q].bSize,
                index0 |-> RootIndex(RootElem.type, z, W)]
  BY <1>1, NewRefIs DEF z, W
<1> QED BY <1>7, <1>8

(* How many items a reader counts in a text that ends at a zero.           *)
LEMMA CountedToZero ==
    ASSUME Len(buff) \in Nat, NEW z \in Int, NEW k \in z..(Len(buff) - 1),
           buff[k + 1] = Byte(0), \A j \in z..(k - 1) : buff[j + 1] # Byte(0)
    PROVE  IndexOfZero(z) = k
<1> DEFINE First(m) == /\ buff[m + 1] = Byte(0)
                       /\ \A j \in z..(m - 1) : buff[j + 1] # Byte(0)
<1>1. First(k)
  OBVIOUS
<1>2. ASSUME NEW m \in z..(Len(buff) - 1), First(m)
      PROVE  m = k
  <2>1. ~(m < k)
    BY <1>2
  <2>2. ~(k < m)
    BY <1>2
  <2> QED BY <2>1, <2>2
<1> HIDE DEF First
<1>3. (CHOOSE m \in z..(Len(buff) - 1) : First(m)) = k
  BY <1>1, <1>2
<1> QED BY <1>3 DEF IndexOfZero, First

LEMMA KeyCounted ==
    ASSUME NEW r, r.vType = KEY
    PROVE  /\ itemCount(r) = IndexOfZero(r.index0) - r.index0 + 1
           /\ ItemType(r) = UINT /\ Iterable(r)
           /\ Interface(r) = [vType |-> UINT, items |-> Slice(r)]
<1>1. /\ ~isInline(KEY) /\ ~isScalar(KEY) /\ ~isTuple(KEY) /\ ~isTriple(KEY) /\ ~isQuad(KEY)
      /\ KEY \notin {VECTOR, MAP, BLOB, STR} /\ isBlobLike(KEY)
  BY DEF isInline, isScalar, isTuple, isTriple, isQuad, isBlobLike, KEY, VECTOR, MAP, BLOB, STR, BOOL
<1>2. isUintTyped(KEY) /\ ~isIntTyped(KEY) /\ ~isFloatTyped(KEY)
  BY DEF isUintTyped, isIntTyped, isFloatTyped, isBlobLike, KEY, VECTOR_INT, VECTOR_INT2,
         VECTOR_INT3, VECTOR_INT4, INDIRECT_INT, VECTOR_FLOAT, VECTOR_FLOAT2, VECTOR_FLOAT3,
         VECTOR_FLOAT4, INDIRECT_FLOAT
<1>3. itemCount(r) = IndexOfZero(r.index0) - r.index0 + 1
  BY <1>1 DEF itemCount
<1>4. ItemType(r) = UINT
  BY <1>2 DEF ItemType
<1> QED BY <1>1, <1>3, <1>4 DEF Iterable, Interface

(* An item of a single byte.                                               *)
LEMMA SingleByte ==
    ASSUME NEW r, r.bSize = b8, r.index0 \in Int, NEW i \in Int
    PROVE  absItemOffset(r, i) = i
<1>1. B(r.bSize) = 1
  BY WidthInBytes DEF ByteSize, b8, b64
<1>2. i * 1 = i
  OBVIOUS
<1>3. relItemOffset(r, i) = r.index0 - i
  BY <1>1, <1>2 DEF relItemOffset
<1>4. r.index0 - (r.index0 - i) = i
  OBVIOUS
<1> QED BY <1>3, <1>4 DEF absItemOffset, absOffset

LEMMA KeysAreDecoded ==
    ASSUME SInv
    PROVE  KeysDecode
<1> DEFINE q == RootElem.target
           c == structs[Root].elems[1].target
           K == Count(structs, q)
<1> SUFFICES ASSUME Complete, RootElem.type = KEY, written[q].index0 = 0, Fits(RootPart, 1)
             PROVE  Interface(NewRef) =
                        [vType |-> UINT,
                         items |-> [i \in DOMAIN Elems(q) |-> <<<<q, i, 1>>>>] \o <<<<Byte(0)>>>>]
  BY DEF KeysDecode
<1>1. ~InlineAt(structs, RootPart, 1)
  <2>1. ~isInline(KEY)
    BY DEF isInline, KEY, BOOL
  <2>2. RootElem.type = TypeAt(structs, RootPart, 1)
    BY RootIsThere
  <2> QED BY <2>1, <2>2 DEF InlineAt
<1>2. /\ c \in 1..Len(structs) /\ c # Root /\ q = WholeOf(c) /\ q \in DOMAIN written
      /\ structs[c].vType = KEY
  <2>1. /\ c \in 2..Len(structs) /\ WholeOf(c) \in DOMAIN written
        /\ RootElem.target = WholeOf(c) /\ RootElem.type = structs[c].vType
    BY <1>1, RootChildIs
  <2> QED BY <2>1 DEF Root
<1>3. NewRef = [vType |-> KEY, bSize |-> written[q].bSize, index0 |-> 0]
  BY <1>1, RootOffsetIs
<1> HIDE DEF q, c
<1>4. /\ K \in Nat /\ written[q].bSize = b8 /\ DOMAIN Elems(q) = 1..K
      /\ \A i \in 1..K : Stands(buff, 0 + (i - 1), <<<<q, i, 1>>>>)
      /\ Stands(buff, 0 + K, <<Byte(0)>>)
  BY <1>2, KeyIs
<1>5. buff \in Seq(Bytes) /\ Len(buff) \in Nat /\ q \in AnyPart
  BY <1>2, WrittenFacts DEF IsPart
<1> HIDE DEF K
<1>6. /\ \A i \in 1..K : i \in 1..Len(buff) /\ buff[i] = <<q, i, 1>>
      /\ K + 1 \in 1..Len(buff) /\ buff[K + 1] = Byte(0)
  <2>1. ASSUME NEW at \in Int, NEW x, Stands(buff, at, <<x>>)
        PROVE  at + 1 \in 1..Len(buff) /\ buff[at + 1] = x
    <3>1. Len(<<x>>) = 1 /\ <<x>>[1] = x /\ 1 \in 1..1
      OBVIOUS
    <3> QED BY <2>1, <3>1 DEF Stands
  <2>2. ASSUME NEW i \in 1..K
        PROVE  i \in 1..Len(buff) /\ buff[i] = <<q, i, 1>>
    <3> DEFINE x == <<q, i, 1>>
    <3>1. Stands(buff, 0 + (i - 1), <<x>>)
      BY <1>4
    <3> HIDE DEF x
    <3>2. 0 + (i - 1) \in Int /\ 0 + (i - 1) + 1 = i
      BY <1>4
    <3>3. i \in 1..Len(buff) /\ buff[i] = x
      BY <2>1, <3>1, <3>2
    <3> QED BY <3>3 DEF x
  <2>3. K + 1 \in 1..Len(buff) /\ buff[K + 1] = Byte(0)
    <3>1. 0 + K \in Int /\ 0 + K + 1 = K + 1
      BY <1>4
    <3> QED BY <1>4, <2>1, <3>1
  <2> QED BY <2>2, <2>3
<1>7. \A i \in 1..K : <<q, i, 1>> # Byte(0)
  BY DEF Byte
<1>8. IndexOfZero(0) = K
  <2>1. K \in 0..(Len(buff) - 1)
    BY <1>4, <1>5, <1>6
  <2>2. ASSUME NEW j \in 0..(K - 1)
        PROVE  buff[j + 1] # Byte(0)
    <3>1. j + 1 \in 1..K
      BY <1>4
    <3> QED BY <1>6, <1>7, <3>1
  <2> QED BY <1>5, <1>6, <2>1, <2>2, CountedToZero
<1>9. itemCount(NewRef) = K + 1 /\ Interface(NewRef) = [vType |-> UINT, items |-> Slice(NewRef)]
      /\ ItemType(NewRef) = UINT
  <2>1. NewRef.vType = KEY /\ NewRef.index0 = 0
    BY <1>3
  <2>2. K - 0 + 1 = K + 1
    BY <1>4
  <2> QED BY <1>8, <2>1, <2>2, KeyCounted
<1>10. ASSUME NEW i \in 1..(K + 1)
       PROVE  Scalar(UINT, absItemOffset(NewRef, i - 1), NewRef.bSize) = <<buff[i]>>
  <2>1. NewRef.bSize = b8 /\ NewRef.index0 \in Int /\ i - 1 \in Int
    BY <1>3, <1>4
  <2>2. absItemOffset(NewRef, i - 1) = i - 1
    BY <2>1, SingleByte
  <2>3. Scalar(UINT, i - 1, b8) = BytesAt(i - 1, 1)
    <3>1. B(b8) = 1
      BY WidthInBytes DEF ByteSize, b8, b64
    <3>2. UINT # FLOAT /\ UINT # BOOL
      BY DEF UINT, FLOAT, BOOL
    <3> QED BY <3>1, <3>2 DEF Scalar
  <2>4. BytesAt(i - 1, 1) = <<buff[i]>>
    <3> DEFINE x == buff[i]
    <3>1. i \in 1..Len(buff) /\ (i - 1) + 1 = i /\ (i - 1) \in Int
      BY <1>4, <1>6
    <3>2. x \in Bytes
      BY <1>5, <3>1, ElementOfSeq
    <3>3. <<x>> \in Seq(Bytes) /\ Len(<<x>>) = 1 /\ <<x>>[1] = x
      BY <3>2
    <3>4. Stands(buff, i - 1, <<x>>)
      <4> HIDE DEF x
      <4>1. x = buff[i]
        BY DEF x
      <4> QED BY <3>1, <3>3, <4>1 DEF Stands
    <3> HIDE DEF x
    <3>5. BytesAt(i - 1, 1) = <<x>>
      BY <1>5, <3>1, <3>3, <3>4, BytesFound
    <3> QED BY <3>5 DEF x
  <2> QED BY <2>1, <2>2, <2>3, <2>4
<1>11. Slice(NewRef) = [i \in 1..(K + 1) |-> <<buff[i]>>]
  BY <1>9, <1>10 DEF Slice
<1>12. [i \in 1..K |-> <<<<q, i, 1>>>>] \o <<<<Byte(0)>>>> = [i \in 1..(K + 1) |-> <<buff[i]>>]
  <2> DEFINE T == Seq(Bytes)
             u == [i \in 1..K |-> <<<<q, i, 1>>>>]
             v == <<<<Byte(0)>>>>
             w == [i \in 1..(K + 1) |-> <<buff[i]>>]
  <2>1. \A i \in 1..(K + 1) : buff[i] \in Bytes
    BY <1>4, <1>5, <1>6, ElementOfSeq
  <2>2. /\ w \in Seq(T) /\ Len(w) = K + 1 /\ \A i \in 1..(K + 1) : w[i] = <<buff[i]>>
    BY <1>4, <2>1
  <2>3. /\ u \in Seq(T) /\ Len(u) = K /\ \A i \in 1..K : u[i] = <<buff[i]>>
    <3>1. \A i \in 1..K : <<<<q, i, 1>>>> = <<buff[i]>> /\ <<buff[i]>> \in T
      BY <1>4, <1>6, <2>1
    <3> QED BY <1>4, <3>1
  <2>4. /\ v \in Seq(T) /\ Len(v) = 1 /\ v[1] = <<buff[K + 1]>>
    <3>1. <<Byte(0)>> = <<buff[K + 1]>> /\ <<Byte(0)>> \in T
      BY <1>4, <1>6, <2>1
    <3> QED BY <3>1
  <2> HIDE DEF T, u, v, w
  <2>5. /\ u \o v \in Seq(T) /\ Len(u \o v) = K + 1
        /\ \A i \in 1..(K + 1) : (u \o v)[i] = IF i <= K THEN u[i] ELSE v[i - K]
    <3>1. /\ u \o v \in Seq(T) /\ Len(u \o v) = Len(u) + Len(v)
          /\ \A i \in 1..(Len(u) + Len(v)) :
                (u \o v)[i] = IF i <= Len(u) THEN u[i] ELSE v[i - Len(u)]
      BY <2>3, <2>4, ConcatProperties
    <3> QED BY <2>3, <2>4, <3>1, Zenon
  <2>6. ASSUME NEW i \in 1..(K + 1)
        PROVE  (u \o v)[i] = w[i]
    <3> DEFINE x == <<buff[i]>>
    <3>1. (u \o v)[i] = (IF i <= K THEN u[i] ELSE v[i - K]) /\ w[i] = x
      BY <2>2, <2>5
    <3>2. i \in 1..K => u[i] = x
      BY <2>3
    <3>3. i = K + 1 => v[1] = x
      BY <2>4
    <3> HIDE DEF x
    <3>4. (u \o v)[i] = x
      BY <1>4, <3>1, <3>2, <3>3
    <3> QED BY <3>1, <3>4
  <2>7. u \o v = w
    BY <2>2, <2>5, <2>6, SeqEqual
  <2> QED BY <2>7 DEF u, v, w
<1> QED BY <1>4, <1>9, <1>11, <1>12 DEF q

(* A key in front of the buffer is decoded to its bytes and the zero       *)
(* behind them, through the offset of the root (itemCount, UintSlice).     *)
THEOREM KeysAreReadBack == SerializeSpec => []KeysDecode
  BY KeysAreDecoded, SerializationInvariant, PTL

(* A number read from bytes that were written for one is not greater.      *)
LEMMA NumberRead ==
    ASSUME NEW s \in ByteSize, NEW n \in Nat,
           NEW x, x = LittleEndian(n, B(s))
    PROVE  ReadUint(x) \in Nat /\ ReadUint(x) <= n /\ (ReadUint(x) = 0 => x[1] = Byte(0))
<1> DEFINE W == B(s)
           v(k) == IF k <= Len(x) THEN x[k][3] ELSE 0
<1>1. W \in Nat /\ W >= 1
  BY WidthInBytes
<1> HIDE DEF W
<1>2. /\ Len(x) = W
      /\ \A k \in 1..W : x[k] = Byte(IF k <= 3 THEN (n \div 256^(k - 1)) % 256 ELSE 0)
  BY <1>1 DEF LittleEndian, W
<1>3. 256^(1 - 1) = 1 /\ 256^(2 - 1) = 256 /\ 256^(3 - 1) = 65536
  BY SMT
<1>4. /\ x[1] = Byte((n \div 1) % 256)
      /\ 2 <= W => x[2] = Byte((n \div 256) % 256)
      /\ 3 <= W => x[3] = Byte((n \div 65536) % 256)
  <2>1. x[1] = Byte((n \div 256^(1 - 1)) % 256)
    <3>1. 1 \in 1..W /\ 1 <= 3
      BY <1>1
    <3> QED BY <1>2, <3>1
  <2>2. 2 <= W => x[2] = Byte((n \div 256^(2 - 1)) % 256)
    <3>1. 2 <= W => 2 \in 1..W /\ 2 <= 3
      BY <1>1
    <3> QED BY <1>2, <3>1
  <2>3. 3 <= W => x[3] = Byte((n \div 256^(3 - 1)) % 256)
    <3>1. 3 <= W => 3 \in 1..W /\ 3 <= 3
      BY <1>1
    <3> QED BY <1>2, <3>1
  <2> QED BY <1>3, <2>1, <2>2, <2>3
<1>5. \A a : Byte(a)[3] = a
  BY DEF Byte
<1> DEFINE a == (n \div 1) % 256
           d == (n \div 256) % 256
           e == (n \div 65536) % 256
<1>6. a \in Nat /\ d \in Nat /\ e \in Nat /\ a + 256 * d + 65536 * e <= n
  OBVIOUS
<1>7. x[1] = Byte(a)
  BY <1>4
<1>8. v(1) = a /\ v(2) \in {0, d} /\ v(3) \in {0, e}
  <2> HIDE DEF a, d, e
  <2>1. (2 <= W => x[2] = Byte(d)) /\ (3 <= W => x[3] = Byte(e))
    BY <1>4 DEF d, e
  <2> QED BY <1>1, <1>2, <1>5, <1>7, <2>1
<1>9. ReadUint(x) = v(1) + 256 * v(2) + 65536 * v(3)
  BY DEF ReadUint
<1> HIDE DEF a, d, e, v
<1>10. ReadUint(x) \in Nat /\ ReadUint(x) <= n /\ (ReadUint(x) = 0 => a = 0)
  BY <1>6, <1>8, <1>9
<1> QED BY <1>7, <1>10

(* A root that holds an offset sends a reader back, whether the offset     *)
(* fits or not, and not beyond the beginning of the buffer.                *)
LEMMA RootSendsBack ==
    ASSUME SInv, Complete, ~InlineAt(structs, RootPart, 1),
           NEW z, z = written[RootPart].index0
    PROVE  \E v \in 0..z : /\ NewRef = [vType |-> RootElem.type,
                                        bSize |-> written[RootElem.target].bSize,
                                        index0 |-> z - v]
                           /\ v = 0 => buff[z + 1] = Byte(0)
<1> DEFINE s == written[RootPart].bSize
           W == B(s)
           q == TargetAt(structs, RootPart, 1)
           D == z + (1 - 1) - written[q].index0
           x == LittleEndian(D, W)
           v == ReadUint(x)
<1>1. /\ DocInv /\ z \in Nat /\ s \in ByteSize /\ W \in Nat /\ W > 0 /\ RootPart \in DOMAIN written
      /\ RootElem.type = TypeAt(structs, RootPart, 1) /\ RootElem.target = q
      /\ ElemLaid(structs, buff, written, RootPart, 1)
  BY RootIsThere
<1>2. q \in DOMAIN written /\ written[q].index0 <= z /\ Stands(buff, z + (1 - 1) * W, x)
  BY <1>1 DEF ElemLaid
<1>3. written[q].index0 \in Nat /\ buff \in Seq(Bytes) /\ Len(buff) \in Nat
  BY <1>2, WrittenFacts
<1> HIDE DEF q
<1>4. D \in 0..z
  BY <1>1, <1>2, <1>3
<1> HIDE DEF D
<1>5. v \in 0..z /\ (v = 0 => x[1] = Byte(0))
  <2> HIDE DEF s
  <2>1. x = LittleEndian(D, B(s))
    OBVIOUS
  <2> HIDE DEF x
  <2> QED BY <1>1, <1>4, <2>1, NumberRead
<1>6. x \in Seq(Bytes) /\ Len(x) = W
  BY <1>1, <1>4, LittleEndianType
<1> HIDE DEF W
<1>7. z + (1 - 1) * W = z /\ z \in Int
  BY <1>1
<1> HIDE DEF x
<1>8. Stands(buff, z, x)
  BY <1>2, <1>7
<1>9. BytesAt(z, W) = x
  BY <1>1, <1>3, <1>6, <1>7, <1>8, BytesFound
<1>10. buff[z + 1] = x[1]
  <2>1. 1 \in 1..Len(x)
    BY <1>1, <1>6
  <2> QED BY <1>8, <2>1 DEF Stands
<1>11. ~isInline(RootElem.type)
  BY <1>1 DEF InlineAt
<1>12. RootIndex(RootElem.type, z, W) = z - v
  BY <1>9, <1>11 DEF RootIndex
<1>13. NewRef = [vType |-> RootElem.type, bSize |-> written[q].bSize,
                 index0 |-> RootIndex(RootElem.type, z, W)]
  BY NewRefIs DEF q, W, s
<1>14. NewRef = [vType |-> RootElem.type, bSize |-> written[RootElem.target].bSize,
                 index0 |-> z - v]
  BY <1>1, <1>12, <1>13
<1> HIDE DEF v
<1> QED BY <1>5, <1>10, <1>14

(* The byte before a root that refers to a key is the end of that key.     *)
LEMMA KeyBeforeRoot ==
    ASSUME SInv, Complete, RootElem.type = KEY, ~InlineAt(structs, RootPart, 1),
           NEW z, z = written[RootPart].index0
    PROVE  z \in Nat \ {0} /\ z < Len(buff) /\ buff[z] = Byte(0)
<1> DEFINE c == structs[Root].elems[1].target
           q == WholeOf(c)
           K == Count(structs, q)
<1>1. /\ c \in 2..Len(structs) /\ q \in DOMAIN written /\ structs[c].vType = KEY
      /\ ChildOf(Root, c) /\ \A x : ChildOf(Root, x) => x = c
  BY RootChildIs
<1>2. /\ DocInv /\ z \in Nat /\ Begins(structs, written, RootPart) /\ RootPart \in DOMAIN written
      /\ z < Len(buff)
  <2>1. /\ DocInv /\ z \in Nat /\ Begins(structs, written, RootPart) /\ RootPart \in DOMAIN written
        /\ B(written[RootPart].bSize) \in Nat /\ Len(buff) = z + B(written[RootPart].bSize) + 2
    BY RootIsThere
  <2> QED BY <2>1
<1>3. c \in 1..Len(structs) /\ c # Root
  BY <1>1 DEF Root
<1> HIDE DEF c
<1>4. /\ K \in Nat /\ written[q].index0 \in Nat /\ written[q].bSize = b8
      /\ \A x : ~ChildOf(c, x)
      /\ Stands(buff, written[q].index0 + K, <<Byte(0)>>)
  BY <1>1, <1>3, KeyIs
<1>5. PICK P : Good(P, Root) /\ WrittenUpTo(P, Len(P))
  BY RootIsLast
<1> DEFINE n == Len(P)
<1>6. /\ n \in Nat \ {0} /\ P[n] = RootPart
      /\ \A j \in 1..n : IsPart(P[j])
      /\ \A j, k \in 1..n : P[j] = P[k] => j = k
      /\ \A j \in 1..n : P[j][1] # Root =>
            \E k \in 1..n : P[k][1] < P[j][1] /\ ChildOf(P[k][1], P[j][1])
  BY <1>5 DEF Good, Once, Below, RootPart
<1>7. Follows(structs, written, P, n, Len(buff)) /\ DOMAIN written = {P[k] : k \in 1..n}
  BY <1>5 DEF WrittenUpTo
<1> HIDE DEF n
<1>8. \A j \in 1..n : P[j][1] \in {Root, c}
  <2> DEFINE others == {x \in Nat : x \notin {Root, c} /\ \E j \in 1..n : P[j][1] = x}
  <2>1. \A j \in 1..n : P[j][1] \in Nat
    BY <1>6 DEF IsPart, AnyPart
  <2> SUFFICES ASSUME others # {} PROVE FALSE
    BY <2>1
  <2>2. PICK x \in others : \A y \in others : x <= y
    BY LeastNat
  <2>3. PICK j \in 1..n : P[j][1] = x
    BY <2>2
  <2>4. x \in Nat /\ x # Root /\ x # c
    BY <2>2
  <2>5. PICK k \in 1..n : P[k][1] < x /\ ChildOf(P[k][1], x)
    BY <1>6, <2>3, <2>4
  <2>6. P[k][1] \in {Root, c}
    <3>1. P[k][1] \in others => x <= P[k][1]
      BY <2>2
    <3>2. P[k][1] \notin others
      BY <2>1, <2>4, <2>5, <3>1
    <3> QED BY <2>1, <3>2
  <2> QED BY <1>1, <1>4, <2>4, <2>5, <2>6
<1>9. \A j \in 1..n : P[j] \in {RootPart, q}
  <2> TAKE j \in 1..n
  <2>1. IsPart(P[j]) /\ P[j][1] \in {Root, c}
    BY <1>6, <1>8
  <2>2. ~IsMap(structs[Root]) /\ ~IsMap(structs[c])
    BY <1>1, <1>2 DEF IsMap, DocInv, RootInv, NULL, KEY, MAP
  <2>3. P[j] = <<P[j][1], P[j][2]>> /\ P[j][2] = 0
    BY <2>1, <2>2 DEF IsPart, AnyPart
  <2> QED BY <2>1, <2>3 DEF RootPart, WholeOf
<1>10. RootPart # q
  BY <1>3 DEF RootPart, WholeOf
<1>11. PICK j \in 1..n : P[j] = q
  BY <1>1, <1>7
<1> HIDE DEF q
<1>12. n \in 1..n /\ n # j
  BY <1>6, <1>10, <1>11
<1>13. \A k \in 1..n : k = n \/ k = j
  BY <1>6, <1>9, <1>11, <1>12
<1>14. n = 2 /\ j = 1
  <2>1. 1 \in 1..n
    BY <1>6
  <2>2. j # n /\ j < n
    BY <1>12
  <2>3. j = 1
    BY <1>13, <2>1, <2>2
  <2>4. j + 1 \in 1..n /\ j + 1 # j
    BY <1>6, <2>2
  <2>5. n = j + 1
    BY <1>13, <2>4
  <2> QED BY <2>3, <2>5
<1>15. Ends(structs, written, q, z)
  <2>1. Ends(structs, written, P[1], StartAt(written, P, n, Len(buff), 1 + 1))
    BY <1>7, <1>14 DEF Follows
  <2>2. StartAt(written, P, n, Len(buff), 1 + 1) = written[P[2]].start
    BY <1>14 DEF StartAt
  <2>3. P[2] = RootPart /\ P[1] = q
    BY <1>6, <1>11, <1>14
  <2>4. written[RootPart].start = z
    BY <1>2 DEF Begins
  <2> QED BY <2>1, <2>2, <2>3, <2>4
<1>16. z = written[q].index0 + K + 1
  <2>1. TextInRoot(structs, q)
    <3>1. IsWhole(q) /\ q[1] = c
      BY DEF q, IsWhole, WholeOf
    <3> QED BY <1>1, <3>1 DEF TextInRoot, ChildOf
  <2>2. B(written[q].bSize) = 1
    BY <1>4, WidthInBytes DEF ByteSize, b8, b64
  <2>3. z = written[q].index0 + K * B(written[q].bSize) + 1
    BY <1>15, <2>1 DEF Ends
  <2>4. K * 1 = K
    BY <1>4
  <2> QED BY <2>2, <2>3, <2>4
<1> HIDE DEF K
<1>17. buff[(written[q].index0 + K) + 1] = Byte(0)
  <2>1. Len(<<Byte(0)>>) = 1 /\ <<Byte(0)>>[1] = Byte(0) /\ 1 \in 1..1
    OBVIOUS
  <2> QED BY <1>4, <2>1 DEF Stands
<1>18. z = (written[q].index0 + K) + 1 /\ z \in Nat \ {0}
  BY <1>4, <1>16
<1> QED BY <1>2, <1>17, <1>18

(* From any place before a zero a reader finds one.                        *)
LEMMA ZeroFound ==
    ASSUME Len(buff) \in Nat, NEW y \in Int, NEW m \in y..(Len(buff) - 1), buff[m + 1] = Byte(0)
    PROVE  IndexOfZero(y) \in y..(Len(buff) - 1)
<1> DEFINE zeros == {k \in Nat : y + k <= Len(buff) - 1 /\ buff[(y + k) + 1] = Byte(0)}
<1>1. m - y \in zeros
  <2>1. m - y \in Nat /\ y + (m - y) = m /\ m <= Len(buff) - 1
    OBVIOUS
  <2> QED BY <2>1
<1>2. PICK k \in zeros : \A l \in zeros : k <= l
  BY <1>1, LeastNat
<1>3. k \in Nat /\ y + k <= Len(buff) - 1 /\ buff[(y + k) + 1] = Byte(0)
  BY <1>2
<1>4. ASSUME NEW j \in y..((y + k) - 1), buff[j + 1] = Byte(0)
      PROVE  FALSE
  <2>1. j - y \in Nat /\ y + (j - y) = j /\ j <= Len(buff) - 1 /\ j - y < k
    BY <1>3
  <2>2. j - y \in zeros
    BY <1>4, <2>1
  <2> HIDE DEF zeros
  <2>3. k <= j - y
    BY <1>2, <2>2
  <2> QED BY <1>3, <2>1, <2>3
<1>5. y + k \in y..(Len(buff) - 1)
  BY <1>3
<1> HIDE DEF zeros
<1>6. IndexOfZero(y) = y + k
  BY <1>3, <1>4, <1>5, CountedToZero
<1> QED BY <1>5, <1>6

(* The elements of a part that is written lie in the buffer.               *)
LEMMA ElemsInside ==
    ASSUME SInv, NEW p \in DOMAIN written, NEW n \in 1..Count(structs, p)
    PROVE  n * B(written[p].bSize) <= Len(buff)
<1> DEFINE W == B(written[p].bSize)
           z == written[p].index0
           at == z + (n - 1) * W
           q == TargetAt(structs, p, n)
           x == IF InlineAt(structs, p, n) THEN [k \in 1..W |-> <<p, n, k>>]
                ELSE LittleEndian(z + (n - 1) - written[q].index0, W)
<1>1. /\ W \in {1, 2, 4, 8} /\ z \in Nat /\ Len(buff) \in Nat /\ n \in Nat
      /\ ElemLaid(structs, buff, written, p, n)
  <2>1. /\ written[p].bSize \in ByteSize /\ z \in Nat /\ Len(buff) \in Nat
        /\ Count(structs, p) \in Nat /\ Laid(structs, buff, written, p)
    BY WrittenFacts
  <2> QED BY <2>1, WidthInBytes DEF Laid
<1>2. Stands(buff, at, x)
  BY <1>1 DEF ElemLaid
<1>3. Len(x) = W
  BY <1>1 DEF LittleEndian
<1> HIDE DEF x, W, z
<1>4. at + W \in 1..Len(buff)
  <2>1. W \in 1..Len(x)
    BY <1>1, <1>3
  <2> QED BY <1>2, <2>1 DEF Stands
<1>5. n * W <= at + W
  <2>1. CASE W = 1
    BY <1>1, <2>1
  <2>2. CASE W = 2
    BY <1>1, <2>2
  <2>3. CASE W = 4
    BY <1>1, <2>3
  <2>4. CASE W = 8
    BY <1>1, <2>4
  <2> QED BY <1>1, <2>1, <2>2, <2>3, <2>4
<1>6. n * W \in Int /\ at \in Int
  BY <1>1
<1> HIDE DEF at
<1> QED BY <1>1, <1>4, <1>5, <1>6 DEF W

(* Where the first n items of a reference are sought.                      *)
LEMMA ItemsInside ==
    ASSUME NEW r, r.bSize \in ByteSize, r.index0 \in Int, Len(buff) \in Nat,
           NEW n \in Nat, n * B(r.bSize) <= Len(buff), NEW i \in 0..(n - 1)
    PROVE  /\ absItemOffset(r, i) \in Nat
           /\ InBuffer(absItemOffset(r, i), B(r.bSize))
<1> DEFINE W == B(r.bSize)
<1>1. W \in {1, 2, 4, 8}
  BY WidthInBytes
<1>2. absItemOffset(r, i) = r.index0 - (r.index0 - i * W)
  BY DEF absItemOffset, absOffset, relItemOffset
<1> HIDE DEF W
<1>3. i * W \in Nat /\ i * W + W <= n * W
  <2>1. CASE W = 1
    BY <2>1
  <2>2. CASE W = 2
    BY <2>2
  <2>3. CASE W = 4
    BY <2>3
  <2>4. CASE W = 8
    BY <2>4
  <2> QED BY <1>1, <2>1, <2>2, <2>3, <2>4
<1>4. absItemOffset(r, i) = i * W
  <2> DEFINE y == i * W
  <2>1. y \in Int
    BY <1>3
  <2> HIDE DEF y
  <2>2. r.index0 - (r.index0 - y) = y
    BY <2>1
  <2> QED BY <1>2, <2>2 DEF y
<1>5. n * W <= Len(buff) /\ n * W \in Int
  BY <1>1 DEF W
<1>6. i * W + W <= Len(buff)
  <2> DEFINE y == i * W
             m == n * W
  <2>1. y \in Nat /\ y + W <= m /\ m <= Len(buff) /\ m \in Int /\ W \in Nat
    BY <1>1, <1>3, <1>5
  <2> HIDE DEF y, m
  <2>2. y + W <= Len(buff)
    BY <2>1
  <2> QED BY <2>2 DEF y
<1> QED BY <1>3, <1>4, <1>6 DEF InBuffer, W

(* Index takes the position of an item for an index, and checks it as one. *)
LEMMA IndexInside ==
    ASSUME NEW r, r.bSize \in ByteSize, r.index0 \in Int, Len(buff) \in Nat, Iterable(r),
           NEW n \in Nat, itemCount(r) = n, n * B(r.bSize) <= Len(buff), NEW i \in 0..(n - 1)
    PROVE  Index(r, i) # Panics => InBuffer(Index(r, i), B(r.bSize))
<1> DEFINE k == absItemOffset(r, i)
<1>1. k \in Nat
  BY ItemsInside
<1>2. ~(i >= n)
  OBVIOUS
<1> HIDE DEF k
<1>3. CASE k >= n
  BY <1>2, <1>3 DEF Index, k
<1>4. CASE k < n
  <2>1. k \in 0..(n - 1) /\ ~(k >= n)
    BY <1>1, <1>4
  <2>2. Index(r, i) = absItemOffset(r, k)
    BY <1>2, <2>1 DEF Index, k
  <2>3. InBuffer(absItemOffset(r, k), B(r.bSize))
    BY <2>1, ItemsInside
  <2> QED BY <2>2, <2>3
<1> QED BY <1>1, <1>3, <1>4

(* What holds as many elements as its type says holds what is counted.     *)
LEMMA FixedCounted ==
    ASSUME NEW r, r.vType \in VarType, isFixedTypedVector(r.vType)
    PROVE  /\ itemCount(r) \in Nat \ {0} /\ Iterable(r) /\ ~isInline(r.vType)
           /\ \A s : s.vType = r.vType /\ isFull(s) => Len(s.elems) >= itemCount(r)
<1> DEFINE v == r.vType
<1>1. v \in 0..36
  BY DEF VarType, VECTOR_BOOL
<1> HIDE DEF v
<1>2. isFixedTypedVector(v)
  BY DEF v
<1>3. v \in 6..8 \cup 16..24 /\ ~isInline(v)
  BY <1>1, <1>2 DEF isFixedTypedVector, isScalar, isTuple, isTriple, isQuad, isInline, BOOL
<1>4. /\ itemCount(r) \in Nat \ {0}
      /\ \A s : s.vType = v /\ isFull(s) => Len(s.elems) >= itemCount(r)
  <2>1. CASE v \in 6..8
    <3>1. isScalar(v) /\ ~isTuple(v) /\ ~isTriple(v) /\ ~isQuad(v)
          /\ v \notin {VECTOR, MAP, BLOB, STR} /\ v # KEY
      BY <2>1 DEF isScalar, isTuple, isTriple, isQuad, VECTOR, MAP, BLOB, STR, KEY
    <3>2. itemCount(r) = 1
      BY <3>1 DEF itemCount, v
    <3> QED BY <3>1, <3>2 DEF isFull
  <2>2. CASE v \in 16..18
    <3>1. ~isScalar(v) /\ isTuple(v) /\ ~isTriple(v) /\ ~isQuad(v)
          /\ v \notin {VECTOR, MAP, BLOB, STR} /\ v # KEY
      BY <2>2 DEF isScalar, isTuple, isTriple, isQuad, VECTOR, MAP, BLOB, STR, KEY
    <3>2. itemCount(r) = 2
      BY <1>3, <3>1 DEF itemCount, v
    <3> QED BY <3>1, <3>2 DEF isFull
  <2>3. CASE v \in 19..21
    <3>1. ~isScalar(v) /\ ~isTuple(v) /\ isTriple(v) /\ ~isQuad(v)
          /\ v \notin {VECTOR, MAP, BLOB, STR} /\ v # KEY
      BY <2>3 DEF isScalar, isTuple, isTriple, isQuad, VECTOR, MAP, BLOB, STR, KEY
    <3>2. itemCount(r) = 3
      BY <1>3, <3>1 DEF itemCount, v
    <3> QED BY <3>1, <3>2 DEF isFull
  <2>4. CASE v \in 22..24
    <3>1. ~isScalar(v) /\ ~isTuple(v) /\ ~isTriple(v) /\ isQuad(v)
          /\ v \notin {VECTOR, MAP, BLOB, STR} /\ v # KEY
      BY <2>4 DEF isScalar, isTuple, isTriple, isQuad, VECTOR, MAP, BLOB, STR, KEY
    <3>2. itemCount(r) = 4
      BY <1>3, <3>1 DEF itemCount, v
    <3> QED BY <3>1, <3>2 DEF isFull
  <2> QED BY <1>3, <2>1, <2>2, <2>3, <2>4
<1>5. Iterable(r)
  BY DEF Iterable, isTypedVector
<1> QED BY <1>3, <1>4, <1>5 DEF v

LEMMA ReadsAreInside ==
    ASSUME SInv
    PROVE  ReadsStayInBuffer
<1> DEFINE r == NewRef
           z == written[RootPart].index0
           v == RootElem.type
           q == RootElem.target
           W == B(r.bSize)
           Itemised ==
               \A i \in 0..(itemCount(r) - 1) :
                   /\ InBuffer(absItemOffset(r, i), W)
                   /\ Index(r, i) # Panics => InBuffer(Index(r, i), W)
<1> SUFFICES ASSUME Complete, Countable(RootElem)
             PROVE  /\ Inlined(RootElem) => InBuffer(r.index0, W)
                    /\ v = KEY => r.index0 >= 0 /\ \E k \in r.index0..(Len(buff) - 1) :
                                                      buff[k + 1] = Byte(0)
                    /\ ~Inlined(RootElem) => Itemised
  BY DEF ReadsStayInBuffer
<1>1. /\ DocInv /\ z \in Nat /\ RootPart \in DOMAIN written
      /\ B(written[RootPart].bSize) \in Nat
      /\ Len(buff) = z + B(written[RootPart].bSize) + 2
      /\ Count(structs, RootPart) = 1 /\ v = TypeAt(structs, RootPart, 1)
  BY RootIsThere
<1>2. v \in VarType /\ Len(buff) \in Nat
  <2>1. IsPart(RootPart) /\ 1 \in 1..Count(structs, RootPart) /\ Len(buff) \in Nat
    BY <1>1, WrittenFacts
  <2> QED BY <1>1, <2>1, StaticTypes
<1>3. Inlined(RootElem) <=> InlineAt(structs, RootPart, 1)
  BY <1>1 DEF Inlined, InlineAt
<1>4. CASE Inlined(RootElem)
  <2>1. r = [vType |-> v, bSize |-> written[RootPart].bSize,
             index0 |-> RootIndex(v, z, B(written[RootPart].bSize))]
    BY <1>3, <1>4, NewRefIs
  <2>2. RootIndex(v, z, B(written[RootPart].bSize)) = z
    <3>1. isInline(v)
      BY <1>4 DEF Inlined
    <3> QED BY <1>1, <3>1 DEF RootIndex
  <2> HIDE DEF r, z
  <2>3. r.index0 = z /\ r.bSize = written[RootPart].bSize
    BY <2>1, <2>2
  <2>4. InBuffer(r.index0, W)
    BY <1>1, <2>3 DEF InBuffer
  <2>5. v # KEY
    BY <1>4 DEF Inlined, isInline, KEY, BOOL
  <2> QED BY <1>4, <2>4, <2>5
<1>5. CASE ~Inlined(RootElem)
  <2> DEFINE c == structs[Root].elems[1].target
  <2>1. PICK k \in 0..z : /\ r = [vType |-> v, bSize |-> written[q].bSize, index0 |-> z - k]
                          /\ k = 0 => buff[z + 1] = Byte(0)
    BY <1>3, <1>5, RootSendsBack
  <2>2. /\ c \in 2..Len(structs) /\ q = WholeOf(c) /\ q \in DOMAIN written
        /\ v = structs[c].vType
    BY <1>3, <1>5, RootChildIs
  <2>3. written[q].bSize \in ByteSize
    BY <2>2, WrittenFacts
  <2> HIDE DEF r, z, v, q, c
  <2>4. /\ r.vType = v /\ r.index0 = z - k /\ r.index0 \in 0..z /\ r.bSize \in ByteSize
        /\ r.bSize = written[q].bSize
    BY <1>1, <2>1, <2>3
  <2>5. v = KEY \/ (isFixedTypedVector(v) /\ isFull(structs[c]))
    <3>1. q[1] = c
      BY <2>2 DEF WholeOf
    <3>2. Of(q) = structs[c]
      BY <3>1 DEF Of
    <3> QED BY <1>5, <3>2 DEF Countable, v, q
  <2>6. SUFFICES /\ v = KEY => \E j \in r.index0..(Len(buff) - 1) : buff[j + 1] = Byte(0)
                 /\ \E n \in Nat : itemCount(r) = n /\ Iterable(r) /\ n * B(r.bSize) <= Len(buff)
    <3> SUFFICES Itemised
      BY <1>5, <2>4, <2>6
    <3>1. PICK n \in Nat : itemCount(r) = n /\ Iterable(r) /\ n * B(r.bSize) <= Len(buff)
      BY <2>6
    <3> TAKE i \in 0..(itemCount(r) - 1)
    <3>2. i \in 0..(n - 1) /\ r.index0 \in Int
      BY <2>4, <3>1
    <3> QED BY <1>2, <2>4, <3>1, <3>2, ItemsInside, IndexInside
  <2>7. CASE v = KEY
    <3>1. z \in Nat \ {0} /\ z < Len(buff) /\ buff[z] = Byte(0)
      BY <1>3, <1>5, <2>7, KeyBeforeRoot DEF z, v
    <3> DEFINE m == IF k = 0 THEN z ELSE z - 1
    <3>2. m \in r.index0..(Len(buff) - 1)
      BY <1>2, <2>4, <3>1
    <3>3. buff[m + 1] = Byte(0)
      <4>1. (z - 1) + 1 = z
        BY <3>1
      <4> QED BY <2>1, <3>1, <4>1
    <3> HIDE DEF m
    <3>4. r.index0 \in Int
      BY <2>4
    <3>5. IndexOfZero(r.index0) \in r.index0..(Len(buff) - 1)
      BY <1>2, <3>2, <3>3, <3>4, ZeroFound
    <3> DEFINE n == IndexOfZero(r.index0) - r.index0 + 1
    <3>6. n \in Nat /\ n <= Len(buff)
      BY <1>2, <2>4, <3>5
    <3>7. itemCount(r) = n /\ Iterable(r)
      BY <2>4, <2>7, KeyCounted
    <3>8. B(r.bSize) = 1
      <4>1. c \in 1..Len(structs) /\ c # Root
        BY <2>2 DEF Root
      <4>2. written[q].bSize = b8
        BY <2>2, <2>7, <4>1, KeyIs
      <4> QED BY <2>4, <4>2, WidthInBytes DEF ByteSize, b8, b64
    <3> HIDE DEF n
    <3>9. n * B(r.bSize) <= Len(buff)
      <4>1. n * 1 = n
        BY <3>6
      <4> QED BY <3>6, <3>8, <4>1
    <3> QED BY <3>2, <3>3, <3>6, <3>7, <3>9
  <2>8. CASE isFixedTypedVector(v) /\ isFull(structs[c])
    <3> DEFINE n == itemCount(r)
    <3>1. n \in Nat \ {0} /\ Iterable(r) /\ Len(structs[c].elems) >= n
      BY <1>2, <2>2, <2>4, <2>8, FixedCounted
    <3>2. Count(structs, q) = Len(structs[c].elems) /\ Count(structs, q) \in Nat
      <4>1. IsWhole(q) /\ q[1] = c
        BY <2>2 DEF IsWhole, WholeOf
      <4> QED BY <2>2, <4>1, WholeHas, WrittenFacts
    <3> HIDE DEF n
    <3>3. n \in 1..Count(structs, q)
      BY <3>1, <3>2
    <3>4. n * B(r.bSize) <= Len(buff)
      BY <2>2, <2>4, <3>3, ElemsInside
    <3>5. v # KEY
      BY <2>8 DEF isFixedTypedVector, isScalar, isTuple, isTriple, isQuad, KEY
    <3> QED BY <3>1, <3>4, <3>5 DEF n
  <2> QED BY <2>5, <2>7, <2>8
<1> QED BY <1>4, <1>5

(* The decoder reads no byte outside the buffer, through whatever offset   *)
(* the root has: not for the items, which it seeks from the beginning, not *)
(* for the end of a key, and not where Index takes a position for an index *)
(* (NewRef, itemCount, Index).                                             *)
THEOREM DecoderReadsInside == SerializeSpec => []ReadsStayInBuffer
  BY ReadsAreInside, SerializationInvariant, PTL

-----------------------------------------------------------------------------
(* What is read from the bytes.                                            *)

(* The value v is read at r, where R has the references for each value.    *)
ItemsRead(R, r, v) == \A i \in DOMAIN Entries(v) : ItemOf(r, i) \in R[Entries(v)[i].value]
EntriesRead(R, r, v) ==
    \A i \in KeptEntries(v) : \E j \in 1..CountOf(r) :
        KeyOf(r, j) = Entries(v)[i].key /\ ItemOf(r, j) \in R[Entries(v)[i].value]
KeysRead(r) == \A i, j \in 1..CountOf(r) : i < j => KeyOf(r, i) <= KeyOf(r, j)

IsRead(R, r, v) ==
    CASE Values[v].kind = "scalar" ->
            r.vType = Values[v].elem.type /\ IsScalar(Values[v].elem, r)
      [] Values[v].kind = "string" ->
            r.vType = STR /\ CountOf(r) = Values[v].text.narrow /\ IsText(r)
      [] Values[v].kind = "slice" ->
            r.vType = Values[v].vType /\ CountOf(r) = Len(Entries(v)) /\ ItemsRead(R, r, v)
      [] Values[v].kind = "map" ->
            /\ r.vType = MAP /\ CountOf(r) = Cardinality(KeptEntries(v))
            /\ EntriesRead(R, r, v) /\ KeysRead(r)
      [] OTHER -> FALSE

(* The more references there are for each value, the more is read.         *)
LEMMA ReadGrows ==
    ASSUME NEW R, NEW Q, \A w \in DOMAIN Values : R[w] \subseteq Q[w],
           NEW r, NEW v \in DOMAIN Values, IsRead(R, r, v)
    PROVE  IsRead(Q, r, v)
<1>1. \A i \in DOMAIN Entries(v) : Entries(v)[i].value \in DOMAIN Values
  BY EntryFacts
<1>2. ItemsRead(R, r, v) => ItemsRead(Q, r, v)
  BY <1>1 DEF ItemsRead
<1>3. EntriesRead(R, r, v) => EntriesRead(Q, r, v)
  BY <1>1 DEF EntriesRead, KeptEntries
<1> QED BY <1>2, <1>3 DEF IsRead

(* Reads has what its definition says.                                     *)
LEMMA ReadsDef ==
    \A v \in DOMAIN Values : Reads[v] = {r \in Refs : IsRead(Reads, r, v)}
<1> DEFINE D == DOMAIN Values
           fn(S) == [w \in D |-> {r \in Refs : <<w, r>> \in S}]
           pre(S) == {p \in D \X Refs : IsRead(fn(S), p[2], p[1])}
           least == {p \in D \X Refs : \A S \in SUBSET (D \X Refs) : pre(S) \subseteq S => p \in S}
           f == fn(least)
<1>1. ASSUME NEW S, NEW T, S \subseteq T PROVE pre(S) \subseteq pre(T)
  <2>1. \A w \in D : fn(S)[w] \subseteq fn(T)[w]
    BY <1>1
  <2> HIDE DEF fn
  <2> QED BY <2>1, ReadGrows
<1>2. \A S \in SUBSET (D \X Refs) : pre(S) \subseteq S => least \subseteq S
  <2> HIDE DEF pre
  <2> QED OBVIOUS
<1>3. pre(least) \subseteq least
  <2>0. pre(least) \subseteq D \X Refs
    OBVIOUS
  <2> SUFFICES ASSUME NEW p \in pre(least), NEW S \in SUBSET (D \X Refs), pre(S) \subseteq S
               PROVE  p \in S
    <3> HIDE DEF pre
    <3> QED BY <2>0
  <2> HIDE DEF pre, least
  <2> QED BY <1>1, <1>2
<1>4. least \subseteq pre(least)
  <2> SUFFICES pre(least) \in SUBSET (D \X Refs) /\ pre(pre(least)) \subseteq pre(least)
    <3> HIDE DEF pre, least
    <3> QED BY <1>2
  <2>1. pre(least) \in SUBSET (D \X Refs)
    OBVIOUS
  <2> HIDE DEF pre, least
  <2> QED BY <1>1, <1>3, <2>1
<1>5. \A w \in D : f[w] = {r \in Refs : IsRead(f, r, w)}
  <2> TAKE w \in D
  <2>1. f[w] = {r \in Refs : <<w, r>> \in least}
    OBVIOUS
  <2>2. least = pre(least)
    BY <1>3, <1>4
  <2>3. \A r \in Refs : <<w, r>> \in pre(least) <=> IsRead(f, r, w)
    <3> HIDE DEF least
    <3> QED OBVIOUS
  <2> HIDE DEF f, least, pre
  <2> QED BY <2>1, <2>2, <2>3
<1>6. f = [w \in D |-> {r \in Refs : IsRead(f, r, w)}]
  <2>1. f = [w \in D |-> f[w]]
    OBVIOUS
  <2> HIDE DEF f
  <2> QED BY <1>5, <2>1
<1> HIDE DEF f
<1> DEFINE solves(g) == g = [v \in DOMAIN Values |-> {r \in Refs : IsRead(g, r, v)}]
<1>7. solves(f)
  BY <1>6
<1>8. Reads = CHOOSE g : solves(g)
  BY DEF Reads, IsRead, ItemsRead, EntriesRead, KeysRead, KeptEntries
<1>9. solves(Reads)
  <2> HIDE DEF solves
  <2> QED BY <1>7, <1>8
<1> QED BY <1>9

(* The reference to a structure that is written, and to its i-th element.  *)
RefTo(id) ==
    [vType |-> structs[id].vType, bSize |-> written[WholeOf(id)].bSize,
     index0 |-> written[WholeOf(id)].index0]

RefIn(id, i) ==
    [vType |-> structs[id].elems[i].type, bSize |-> written[WholeOf(id)].bSize,
     index0 |-> written[WholeOf(id)].index0 + (i - 1) * B(written[WholeOf(id)].bSize)]

There(id) == id \in 2..Len(structs) /\ WholeOf(id) \in DOMAIN written

LEMMA RefIs ==
    ASSUME SInv, NEW id, There(id), NEW p, p = WholeOf(id), NEW r, r = RefTo(id),
           NEW W, W = B(r.bSize)
    PROVE  /\ p \in DOMAIN written /\ p # RootPart /\ IsWhole(p) /\ p[1] = id
           /\ DocInv /\ IsPart(p) /\ id \in 1..Len(structs)
           /\ r \in Refs /\ r.vType = structs[id].vType /\ r.bSize = written[p].bSize
           /\ r.index0 = written[p].index0 /\ r.index0 \in Nat /\ r.bSize \in ByteSize
           /\ W \in Nat /\ W > 0 /\ W = B(written[p].bSize)
           /\ Count(structs, p) = Len(structs[id].elems) /\ Len(structs[id].elems) \in Nat
           /\ Laid(structs, buff, written, p)
           /\ TypeOf(p) = structs[id].vType /\ TypeIn(structs, p) = structs[id].vType
           /\ Len(Elems(p)) = Count(structs, p) /\ DOMAIN Elems(p) = 1..Count(structs, p)
           /\ buff \in Seq(Bytes) /\ Len(buff) \in Nat
<1>1. p \in DOMAIN written /\ id \in 2..Len(structs)
  BY DEF There
<1>2. /\ IsPart(p) /\ DocInv /\ Len(buff) \in Nat /\ written[p].index0 \in Nat
      /\ written[p].index0 <= Len(buff) /\ written[p].bSize \in ByteSize
      /\ B(written[p].bSize) \in Nat /\ B(written[p].bSize) > 0
      /\ Laid(structs, buff, written, p) /\ TypeOf(p) = TypeIn(structs, p)
      /\ Len(Elems(p)) = Count(structs, p) /\ DOMAIN Elems(p) = 1..Count(structs, p)
      /\ buff \in Seq(Bytes)
  BY <1>1, WrittenFacts
<1>3. IsWhole(p) /\ p[1] = id /\ p # RootPart
  BY <1>1 DEF IsWhole, WholeOf, RootPart, Root
<1>4. id \in 1..Len(structs) /\ Len(structs[id].elems) \in Nat /\ structs[id] \in Structure
  BY <1>1, <1>2, DocFacts
<1>5. Count(structs, p) = Len(structs[id].elems)
  BY <1>3, WholeHas
<1>6. TypeIn(structs, p) = structs[id].vType /\ structs[id].vType \in VarType
  BY <1>3, <1>4 DEF TypeIn, Structure
<1>7. /\ r.vType = structs[id].vType /\ r.bSize = written[p].bSize
      /\ r.index0 = written[p].index0
  BY DEF RefTo
<1>8. r \in Refs
  <2>1. written[p].index0 \in 0..Len(buff)
    BY <1>2
  <2> QED BY <1>2, <1>6, <2>1 DEF RefTo, Refs
<1> QED BY <1>1, <1>2, <1>3, <1>4, <1>5, <1>6, <1>7, <1>8

(* A reader finds how many elements there are.                             *)
LEMMA CountIs ==
    ASSUME SInv, InReach, NEW id, There(id), structs[id].vType # KEY
    PROVE  CountOf(RefTo(id)) = Len(structs[id].elems)
<1> DEFINE p == WholeOf(id)
           r == RefTo(id)
           W == B(r.bSize)
<1>1. /\ p \in DOMAIN written /\ p # RootPart /\ IsWhole(p)
      /\ r.bSize = written[p].bSize /\ r.index0 = written[p].index0
      /\ r.index0 \in Nat /\ r.bSize \in ByteSize /\ W \in Nat
      /\ Count(structs, p) = Len(structs[id].elems) /\ Len(structs[id].elems) \in Nat
      /\ Laid(structs, buff, written, p) /\ TypeIn(structs, p) = structs[id].vType
      /\ Len(Elems(p)) = Count(structs, p)
  BY RefIs
<1> HIDE DEF p, r
<1>2. Holds(Len(structs[id].elems), r.bSize)
  BY <1>1 DEF InReach
<1>3. CountHead(structs, p) /\ HeadLaid(structs, buff, written, p)
  BY <1>1 DEF CountHead, Laid
<1>4. Stands(buff, r.index0 - W, LittleEndian(Len(structs[id].elems), W))
  BY <1>1, <1>3 DEF HeadLaid
<1>5. r.index0 - W \in Int
  BY <1>1
<1>6. ReadUint(BytesAt(r.index0 - W, W)) = Len(structs[id].elems)
  BY <1>1, <1>2, <1>4, <1>5, NumberFound
<1> QED BY <1>6 DEF CountOf, UintAt, r

(* The context of an element is taken apart again.                         *)
LEMMA ContextRead ==
    ASSUME NEW t \in VarType, NEW s \in ByteSize
    PROVE  ItemVarType(Pack(t, s)[3]) = t /\ ItemByteSize(Pack(t, s)[3]) = s
<1>1. Pack(t, s)[3] = 4 * t + s
  BY DEF Pack, Byte
<1>2. t \in Nat /\ s \in 0..3
  BY DEF VarType, VECTOR_BOOL, ByteSize, b8, b64
<1>3. (4 * t + s) \div 4 = t /\ (4 * t + s) % 4 = s
  BY <1>2
<1> QED BY <1>1, <1>3 DEF ItemVarType, ItemByteSize

(* The i-th item is the i-th element, or the structure that it refers to.  *)
LEMMA ItemIs ==
    ASSUME SInv, InReach, NEW id, There(id), structs[id].vType # KEY,
           NEW i \in 1..Len(structs[id].elems), NEW e, e = structs[id].elems[i],
           Untyped(structs[id].vType)
              \/ (isInline(e.type) /\ e.type = ItemType([vType |-> structs[id].vType]))
    PROVE  IF isInline(e.type) THEN ItemOf(RefTo(id), i) = RefIn(id, i)
           ELSE There(e.target) /\ ItemOf(RefTo(id), i) = RefTo(e.target)
<1> DEFINE p == WholeOf(id)
           r == RefTo(id)
           W == B(r.bSize)
           n == Len(structs[id].elems)
           q == WholeOf(e.target)
           at == r.index0 + (i - 1) * W
<1>1. /\ p \in DOMAIN written /\ p # RootPart /\ IsWhole(p) /\ p[1] = id
      /\ DocInv /\ id \in 1..Len(structs) /\ IsPart(p)
      /\ r.vType = structs[id].vType /\ r.bSize = written[p].bSize
      /\ r.index0 = written[p].index0 /\ r.index0 \in Nat /\ r.bSize \in ByteSize
      /\ W \in Nat /\ W > 0 /\ W = B(written[p].bSize)
      /\ Count(structs, p) = n /\ n \in Nat
      /\ Laid(structs, buff, written, p) /\ TypeIn(structs, p) = structs[id].vType
      /\ TypeOf(p) = structs[id].vType
      /\ DOMAIN Elems(p) = 1..Count(structs, p)
      /\ buff \in Seq(Bytes)
  BY RefIs
<1>2. CountOf(r) = n
  BY CountIs
<1>3. /\ TypeAt(structs, p, i) = e.type /\ TargetAt(structs, p, i) = q
      /\ InlineAt(structs, p, i) <=> isInline(e.type)
  BY <1>1, WholeHas DEF InlineAt
<1>4. e.type \in VarType
  BY <1>1, <1>3, StaticTypes
<1>5. at \in Int
  BY <1>1
<1>6. ASSUME ~isInline(e.type)
      PROVE  /\ There(e.target) /\ q \in DOMAIN written /\ written[q].bSize \in ByteSize
             /\ at - UintAt(at, W) = written[q].index0 /\ e.type = structs[e.target].vType
  <2>1. ElemLaid(structs, buff, written, p, i)
    BY <1>1 DEF Laid
  <2>2. q \in DOMAIN written
    BY <1>3, <1>6, <2>1 DEF ElemLaid
  <2>3. written[q].bSize \in ByteSize
    BY <2>2, WrittenFacts
  <2>4. ChildOf(id, e.target)
    BY <1>1, <1>6, TargetFacts
  <2>5. e.target \in (id + 1)..Len(structs) /\ IsParent(structs, id, e.target)
    BY <1>1, <2>4, ChildFacts
  <2>6. There(e.target)
    BY <1>1, <2>2, <2>5 DEF There
  <2>7. RefersOnce(structs[id].elems, e.target, structs[e.target].vType)
    BY <2>5 DEF IsParent
  <2>8. e.type = structs[e.target].vType
    BY <2>7 DEF RefersOnce
  <2>9. i \in Offsets(p) /\ Elems(p)[i].target = q
    BY <1>1, <1>3, <1>6, WrittenFacts
  <2>10. Leads(p, i)
    BY <1>1, <2>9, OffsetsAreRight DEF OffsetsLeadBack, InReach
  <2>11. ItemAt(p, i) = at
    BY <1>1 DEF ItemAt
  <2>12. at - UintAt(at, W) = written[q].index0
    BY <1>1, <2>9, <2>10, <2>11 DEF Leads, Item, UintAt
  <2> QED BY <2>2, <2>3, <2>6, <2>8, <2>12
<1>7. ASSUME Untyped(structs[id].vType)
      PROVE  /\ ItemVarType(ByteAt(r.index0 + n * W + i - 1)) = e.type
             /\ ItemByteSize(ByteAt(r.index0 + n * W + i - 1))
                   = IF isInline(e.type) THEN r.bSize ELSE written[q].bSize
  <2> DEFINE c == r.index0 + n * W + (i - 1)
             s == IF isInline(e.type) THEN r.bSize ELSE written[q].bSize
  <2>1. ContextLaid(structs, buff, written, p, i)
    BY <1>1, <1>7 DEF Laid, Untyped
  <2>2. Stands(buff, c, <<Pack(e.type, s)>>)
    BY <1>1, <1>3, <2>1 DEF ContextLaid
  <2>3. buff[c + 1] = Pack(e.type, s)
    BY <2>2 DEF Stands
  <2>4. c = r.index0 + n * W + i - 1
    BY <1>1
  <2>5. s \in ByteSize
    BY <1>1, <1>6
  <2> HIDE DEF c, s
  <2>6. ByteAt(c) = Pack(e.type, s)[3]
    BY <2>3 DEF ByteAt
  <2>7. ItemVarType(ByteAt(c)) = e.type /\ ItemByteSize(ByteAt(c)) = s
    BY <1>4, <2>5, <2>6, ContextRead
  <2> QED BY <2>4, <2>7 DEF s
<1>8. ItemType(r) = ItemType([vType |-> structs[id].vType])
  BY <1>1 DEF ItemType
<1> DEFINE type == IF Untyped(r.vType) THEN ItemVarType(ByteAt(r.index0 + n * W + i - 1)) ELSE ItemType(r)
           size == IF Untyped(r.vType) THEN ItemByteSize(ByteAt(r.index0 + n * W + i - 1)) ELSE r.bSize
<1>9. type = e.type
  BY <1>1, <1>7, <1>8
<1>10. size = IF isInline(e.type) THEN r.bSize ELSE written[q].bSize
  BY <1>1, <1>7
<1>11. ItemOf(r, i) = [vType |-> type, bSize |-> size,
                      index0 |-> at - (IF isInline(type) THEN 0 ELSE UintAt(at, W))]
  BY <1>2 DEF ItemOf
<1> HIDE DEF type, size
<1>12. CASE isInline(e.type)
  <2>1. at - 0 = at
    BY <1>5
  <2> QED BY <1>1, <1>9, <1>10, <1>11, <1>12, <2>1 DEF RefIn
<1>13. CASE ~isInline(e.type)
  BY <1>6, <1>9, <1>10, <1>11, <1>13 DEF RefTo
<1> QED BY <1>12, <1>13

(* A scalar is read where its element is.                                  *)
LEMMA ScalarIsRead ==
    ASSUME SInv, NEW id \in 1..Len(structs), WholeOf(id) \in DOMAIN written,
           NEW i \in 1..Len(structs[id].elems),
           NEW w \in DOMAIN Values, Values[w].kind = "scalar",
           structs[id].elems[i] = Inline(Values[w].elem)
    PROVE  isInline(structs[id].elems[i].type) /\ RefIn(id, i) \in Reads[w]
<1> DEFINE p == WholeOf(id)
           r == RefIn(id, i)
           W == B(written[p].bSize)
           elem == Values[w].elem
           at == written[p].index0 + (i - 1) * W
<1>1. /\ p \in DOMAIN written /\ IsWhole(p) /\ p[1] = id /\ DocInv /\ IsPart(p)
      /\ id \in 1..Len(structs) /\ written[p].index0 \in Nat /\ written[p].bSize \in ByteSize
      /\ W \in Nat /\ W > 0 /\ Count(structs, p) = Len(structs[id].elems)
      /\ Laid(structs, buff, written, p) /\ DOMAIN Elems(p) = 1..Count(structs, p)
      /\ Len(buff) \in Nat
  <2>1. IsWhole(p) /\ p[1] = id
    BY DEF WholeOf, IsWhole
  <2>2. Count(structs, p) = Len(structs[p[1]].elems)
    BY <2>1, WholeHas
  <2> HIDE DEF p
  <2> QED BY <2>1, <2>2, WrittenFacts DEF p
<1>2. /\ TypeAt(structs, p, i) = elem.type /\ SizeAt(structs, p, i) = elem.size
      /\ structs[id].elems[i].type = elem.type
  BY <1>1, WholeHas DEF Inline
<1>3. elem \in InlineElem
  BY ValuesAssumption
<1>4. isInline(elem.type) /\ elem.type \in VarType
  BY <1>3 DEF InlineElem, isInline, VarType, INT, UINT, FLOAT, BOOL, NULL, VECTOR_BOOL
<1>5. InlineAt(structs, p, i)
  BY <1>2, <1>4 DEF InlineAt
<1>6. i \in DOMAIN Elems(p) /\ Elems(p)[i].type = elem.type /\ Elems(p)[i].size = elem.size
      /\ i \notin Offsets(p)
  BY <1>1, <1>2, <1>5, WrittenFacts
<1>7. /\ elem.size <= written[p].bSize
      /\ BytesAt(at, W) = [k \in 1..W |-> <<p, i, k>>]
  <2>1. /\ Elems(p)[i].size <= written[p].bSize
        /\ Item(p, i) = [k \in 1..W |-> <<p, i, k>>]
    BY <1>1, <1>6, ElementsAreThere DEF ElementsReadBack
  <2> QED BY <1>6, <2>1 DEF Item, ItemAt
<1>8. at \in 0..Len(buff)
  <2> DEFINE s == [k \in 1..W |-> <<p, i, k>>]
  <2>1. ElemLaid(structs, buff, written, p, i)
    BY <1>1 DEF Laid
  <2>2. Stands(buff, at, s)
    BY <1>5, <2>1 DEF ElemLaid
  <2>3. Len(s) = W
    BY <1>1
  <2>4. at + 1 \in 1..Len(buff)
    <3> HIDE DEF s, at, W
    <3> QED BY <1>1, <2>2, <2>3 DEF Stands
  <2>5. at \in Int
    BY <1>1
  <2> HIDE DEF at
  <2> QED BY <1>1, <2>4, <2>5
<1>9. r.vType = elem.type /\ r.bSize = written[p].bSize /\ r.index0 = at
  BY <1>2 DEF RefIn
<1>10. r \in Refs
  BY <1>1, <1>2, <1>4, <1>8 DEF RefIn, Refs
<1> HIDE DEF p, r, at, elem, W
<1>11. IsScalar(elem, r)
  BY <1>1, <1>6, <1>7, <1>9 DEF IsScalar, W
<1>12. IsRead(Reads, r, w)
  BY <1>9, <1>11 DEF IsRead, elem
<1>13. r \in Reads[w]
  BY <1>10, <1>12, ReadsDef
<1> QED BY <1>2, <1>4, <1>13 DEF r

(* Of every part, what decides on its width.                               *)
LEMMA WrittenIsWide ==
    ASSUME SInv, NEW p \in DOMAIN written
    PROVE  ElemWide(structs, written, p)
<1>1. Progress
  BY DEF SInv, LayInv
<1>2. PICK P : Good(P, Root) /\ \E n \in 0..Len(P) : WrittenUpTo(P, n)
  BY <1>1 DEF Progress
<1>3. PICK n \in 0..Len(P) : WrittenUpTo(P, n)
  BY <1>2
<1> QED BY <1>3 DEF WrittenUpTo, Follows

RunesAt(p, z, n) == \A i \in 1..n : buff[z + i] = <<p, i, 1>>

(* A text is its bytes and the zero behind them.                           *)
LEMMA TextIs ==
    ASSUME SInv, NEW p \in DOMAIN written, p # RootPart, TypeIn(structs, p) \in {STR, KEY},
           NEW n, n = Count(structs, p),
           \A i \in 1..n : InlineAt(structs, p, i) /\ SizeAt(structs, p, i) = b8,
           NEW z, z = written[p].index0
    PROVE  /\ n \in Nat /\ z \in Nat /\ z + n + 1 <= Len(buff) /\ Len(buff) \in Nat
           /\ RunesAt(p, z, n)
           /\ buff[z + n + 1] = Byte(0)
           /\ IndexOfZero(z) - z = n
<1> DEFINE W == B(written[p].bSize)
<1>1. /\ IsPart(p) /\ n \in Nat /\ z \in Nat /\ written[p].bSize \in ByteSize
      /\ Laid(structs, buff, written, p) /\ Len(buff) \in Nat
  BY WrittenFacts
<1>2. ~MapHead(structs, p)
  BY DEF MapHead, TypeIn, IsMap, STR, KEY, MAP
<1>3. written[p].bSize = b8
  BY <1>2, WrittenIsWide DEF ElemWide
<1>4. W = 1
  BY <1>3, WidthInBytes DEF ByteSize, b8, b64
<1>5. ASSUME NEW i \in 1..n
      PROVE  z + i \in 1..Len(buff) /\ buff[z + i] = <<p, i, 1>>
  <2> DEFINE s == [k \in 1..W |-> <<p, i, k>>]
  <2>1. ElemLaid(structs, buff, written, p, i)
    BY <1>1 DEF Laid
  <2>2. Stands(buff, z + (i - 1) * W, s)
    BY <2>1 DEF ElemLaid
  <2>3. (i - 1) * 1 = i - 1
    BY <1>1
  <2>4. s = <<<<p, i, 1>>>>
    BY <1>4
  <2>5. Stands(buff, z + (i - 1), <<<<p, i, 1>>>>)
    BY <1>4, <2>2, <2>3, <2>4
  <2>6. (z + (i - 1)) + 1 = z + i
    BY <1>1
  <2> QED BY <2>5, <2>6 DEF Stands
<1>6. z + n + 1 \in 1..Len(buff) /\ buff[z + n + 1] = Byte(0)
  <2>1. Stands(buff, z + n * W, <<Byte(0)>>)
    BY <1>1 DEF Laid
  <2>2. n * 1 = n
    BY <1>1
  <2>3. Stands(buff, z + n, <<Byte(0)>>)
    BY <1>4, <2>1, <2>2
  <2>4. (z + n) + 1 = z + n + 1
    BY <1>1
  <2> QED BY <2>3, <2>4 DEF Stands
<1>7. \A j \in z..((z + n) - 1) : buff[j + 1] # Byte(0)
  <2> TAKE j \in z..((z + n) - 1)
  <2> DEFINE i == (j + 1) - z
  <2>1. i \in 1..n /\ z + i = j + 1
    BY <1>1
  <2>2. i # 0
    BY <2>1
  <2> HIDE DEF i
  <2>3. buff[j + 1] = <<p, i, 1>>
    BY <1>5, <2>1
  <2> QED BY <2>2, <2>3 DEF Byte
<1>8. z + n \in z..(Len(buff) - 1)
  BY <1>1, <1>6
<1>9. IndexOfZero(z) = z + n
  <2> DEFINE k == z + n
  <2>1. k \in z..(Len(buff) - 1) /\ \A j \in z..(k - 1) : buff[j + 1] # Byte(0)
    BY <1>7, <1>8
  <2>2. buff[k + 1] = Byte(0) /\ z \in Int
    BY <1>1, <1>6
  <2> HIDE DEF k
  <2>3. IndexOfZero(z) = k
    BY <1>1, <2>1, <2>2, CountedToZero
  <2> QED BY <2>3 DEF k
<1>10. (z + n) - z = n
  BY <1>1
<1>11. RunesAt(p, z, n)
  BY <1>5 DEF RunesAt
<1>12. z + n + 1 <= Len(buff)
  BY <1>1, <1>6
<1>13. IndexOfZero(z) - z = n
  BY <1>9, <1>10
<1> QED BY <1>1, <1>6, <1>11, <1>12, <1>13

(* The structure of a string has a rune for each that one byte holds.      *)
LEMMA StringIs ==
    ASSUME NEW text \in [narrow : Nat, wide : Nat], NEW s, s = AppendText(Empty(STR), text)
    PROVE  /\ s.vType = STR /\ Len(s.elems) = text.narrow
           /\ \A i \in 1..text.narrow : s.elems[i] = Rune(b8)
<1> DEFINE e == Empty(STR)
           n == text.narrow
<1>1. /\ e.vType = STR /\ e.elems = <<>>
      /\ isBlobLike(STR) /\ isUintTyped(STR)
      /\ ~isScalar(STR) /\ ~isTuple(STR) /\ ~isTriple(STR) /\ ~isQuad(STR)
  BY DEF Empty, isBlobLike, isUintTyped, isScalar, isTuple, isTriple, isQuad, STR
<1>2. /\ Rune(b8).type = UINT /\ Rune(b8).size = b8 /\ Rune(b16).size = b16 /\ b16 # b8
  BY DEF Rune, Inline, b8, b16
<1>3. allows(e, Rune(b8))
  <2>0. ~isIntTyped(STR) /\ ~isFloatTyped(STR) /\ ~isBoolTyped(STR) /\ STR # VECTOR_KEY
        /\ STR # VECTOR_STRING_DEPRECATED
    BY DEF isIntTyped, isFloatTyped, isBoolTyped, STR, VECTOR_INT, VECTOR_INT2, VECTOR_INT3,
           VECTOR_INT4, INDIRECT_INT, VECTOR_FLOAT, VECTOR_FLOAT2, VECTOR_FLOAT3, VECTOR_FLOAT4,
           INDIRECT_FLOAT, VECTOR_BOOL, VECTOR_KEY, VECTOR_STRING_DEPRECATED
  <2>1. allowsElemType(STR, UINT) /\ allowsElemSize(STR, b8)
    BY <1>1, <2>0 DEF allowsElemType, allowsElemSize
  <2>2. ~isFull(e)
    <3> HIDE DEF e
    <3> QED BY <1>1 DEF isFull
  <2> QED BY <1>1, <1>2, <2>1, <2>2 DEF allows
<1>4. ~allows(e, Rune(b16))
  BY <1>1, <1>2 DEF allows, allowsElemSize
<1>5. n \in Nat
  OBVIOUS
<1> HIDE DEF e, n
<1>6. Accepted(e, n, b8) = [i \in 1..n |-> Rune(b8)]
  BY <1>3 DEF Accepted
<1>7. Accepted(e, text.wide, b16) = <<>>
  BY <1>4 DEF Accepted
<1> DEFINE q == [i \in 1..n |-> Rune(b8)]
<1>8. q \in Seq({Rune(b8)})
  BY <1>5, IsASeq
<1>9. Len(q) = n
  BY <1>5
<1> HIDE DEF q
<1>10. <<>> \o q \o <<>> = q
  BY <1>8, ConcatEmptySeq
<1>11. s = [e EXCEPT !.elems = <<>> \o q \o <<>>]
  BY <1>1, <1>6, <1>7 DEF AppendText, e, n, q
<1>12. s.vType = STR /\ s.elems = q
  BY <1>1, <1>10, <1>11 DEF e, Empty
<1> QED BY <1>9, <1>12 DEF q, n

(* A string is read where its structure is.                                *)
LEMMA StringIsRead ==
    ASSUME SInv, InReach, NEW id, There(id), NEW v \in DOMAIN Values, Values[v].kind = "string",
           structs[id] = AppendText(Empty(STR), Values[v].text)
    PROVE  RefTo(id) \in Reads[v]
<1> DEFINE p == WholeOf(id)
           r == RefTo(id)
           n == Values[v].text.narrow
<1>1. Values[v].text \in [narrow : Nat, wide : Nat]
  BY ValuesAssumption
<1>2. /\ structs[id].vType = STR /\ Len(structs[id].elems) = n
      /\ \A i \in 1..n : structs[id].elems[i] = Rune(b8)
  BY <1>1, StringIs
<1>3. /\ p \in DOMAIN written /\ p # RootPart /\ IsWhole(p) /\ p[1] = id
      /\ r \in Refs /\ r.vType = STR /\ r.index0 = written[p].index0
      /\ Count(structs, p) = n /\ TypeOf(p) = STR /\ TypeIn(structs, p) = STR
      /\ Len(Elems(p)) = n /\ DOMAIN Elems(p) = 1..n
  BY <1>2, RefIs
<1>4. CountOf(r) = n
  <2>1. STR # KEY
    BY DEF STR, KEY
  <2> QED BY <1>2, <2>1, CountIs
<1>5. ASSUME NEW i \in 1..n
      PROVE  InlineAt(structs, p, i) /\ SizeAt(structs, p, i) = b8
  <2>1. TypeAt(structs, p, i) = UINT /\ SizeAt(structs, p, i) = b8
    BY <1>2, <1>3, <1>5, WholeHas DEF Rune, Inline
  <2> QED BY <2>1 DEF InlineAt, isInline, UINT
<1>6. /\ \A i \in 1..n : buff[r.index0 + i] = <<p, i, 1>>
      /\ buff[r.index0 + n + 1] = Byte(0)
  <2> HIDE DEF p
  <2>1. \A i \in 1..Count(structs, p) : InlineAt(structs, p, i) /\ SizeAt(structs, p, i) = b8
    BY <1>3, <1>5
  <2>2. TypeIn(structs, p) \in {STR, KEY} /\ p \in DOMAIN written /\ p # RootPart
    BY <1>3
  <2>3. /\ RunesAt(p, written[p].index0, Count(structs, p))
        /\ buff[written[p].index0 + Count(structs, p) + 1] = Byte(0)
    BY <2>1, <2>2, TextIs
  <2> QED BY <1>3, <2>3 DEF RunesAt
<1> HIDE DEF p, r, n
<1>7. IsText(r)
  BY <1>3, <1>4, <1>6 DEF IsText
<1>8. IsRead(Reads, r, v)
  BY <1>3, <1>4, <1>7 DEF IsRead, n
<1> QED BY <1>3, <1>8, ReadsDef DEF r

(* The i-th key of a map is read, and is its name.                         *)
LEMMA KeyIsRead ==
    ASSUME SInv, RoomInv, InReach, NEW id, There(id), IsMap(structs[id]),
           NEW i \in 1..Len(structs[id].keys)
    PROVE  KeyOf(RefTo(id), i) = structs[id].keys[i].name
<1> DEFINE p == WholeOf(id)
           r == RefTo(id)
           W == B(r.bSize)
           k == KeysOf(id)
           q == <<id, structs[id].keys[i].obj>>
           K == B(written[k].bSize)
           at == written[k].index0 + (i - 1) * K
<1>1. /\ p \in DOMAIN written /\ p # RootPart /\ IsWhole(p) /\ p[1] = id /\ DocInv
      /\ id \in 1..Len(structs) /\ TypeOf(p) = structs[id].vType
      /\ r.bSize = written[p].bSize /\ r.index0 = written[p].index0 /\ r.index0 \in Nat
      /\ Laid(structs, buff, written, p) /\ Len(buff) \in Nat
  BY RefIs
<1>2. TypeOf(p) = MAP /\ TypeOf(p) # KEY /\ MapHead(structs, p)
  BY <1>1 DEF IsMap, MAP, KEY, MapHead
<1>3. k \in DOMAIN written
  BY <1>1, <1>2 DEF Laid, HeadLaid
<1>4. r.index0 < 65536
  <2>1. written[p].index0 <= Len(buff)
    BY <1>1, WrittenFacts
  <2> QED BY <1>1, <2>1 DEF InReach
<1>5. /\ UintAt(r.index0 - 2 * W, W) = K
      /\ r.index0 - 3 * W - UintAt(r.index0 - 3 * W, W) = written[k].index0
  BY <1>1, <1>2, <1>4, HeadsAreRight DEF HeadsReadBack, UintAt
<1>6. /\ IsKeyVector(k) /\ ~IsWhole(k) /\ ~IsKey(k) /\ k[1] = id
  BY DEF IsKeyVector, IsWhole, IsKey, KeysOf, KeyVector
<1>7. /\ Count(structs, k) = Len(structs[id].keys) /\ TypeAt(structs, k, i) = KEY
      /\ TargetAt(structs, k, i) = q
  BY <1>6 DEF Count, TypeAt, TargetAt
<1>8. ~InlineAt(structs, k, i)
  BY <1>7 DEF InlineAt, isInline, KEY, BOOL
<1>9. i \in Offsets(k) /\ Elems(k)[i].target = q
  BY <1>3, <1>7, <1>8, WrittenFacts
<1>10. Leads(k, i)
  BY <1>3, <1>9, OffsetsAreRight DEF OffsetsLeadBack, InReach
<1>11. at - UintAt(at, K) = written[q].index0
  BY <1>9, <1>10 DEF Leads, Item, ItemAt, UintAt
<1>12. q \in DOMAIN written
  <2>1. ElemLaid(structs, buff, written, k, i)
    BY <1>3, <1>7, WrittenFacts DEF Laid
  <2> QED BY <1>7, <1>8, <2>1 DEF ElemLaid
<1>13. IsKey(q) /\ Count(structs, q) = structs[id].keys[i].name
  BY <1>1, KeyCount
<1>14. ~IsWhole(q) /\ ~IsKeyVector(q) /\ q # RootPart
  BY <1>13 DEF IsKey, IsWhole, IsKeyVector, KeyVector, RootPart, WholeOf
<1>15. TypeIn(structs, q) = KEY
  BY <1>13, <1>14 DEF TypeIn
<1>16. \A j \in 1..Count(structs, q) : InlineAt(structs, q, j) /\ SizeAt(structs, q, j) = b8
  <2> HIDE DEF q
  <2> QED BY <1>14 DEF InlineAt, TypeAt, SizeAt, isInline, UINT
<1>17. IndexOfZero(written[q].index0) - written[q].index0 = structs[id].keys[i].name
  BY <1>12, <1>13, <1>14, <1>15, <1>16, TextIs
<1>18. KeyOf(r, i) = IndexOfZero(written[q].index0) - written[q].index0
  BY <1>5, <1>11 DEF KeyOf
<1> QED BY <1>17, <1>18

(* What shows a value is read as that value.                               *)
LEMMA ShownIsRead ==
    ASSUME SInv, InReach, NEW id, There(id), structs[id].vType # KEY,
           NEW i \in 1..Len(structs[id].elems), NEW w \in DOMAIN Values,
           Shown(Described, structs[id].elems[i], w),
           Untyped(structs[id].vType)
              \/ (/\ Values[w].kind = "scalar"
                  /\ Values[w].elem.type = ItemType([vType |-> structs[id].vType])),
           \A c \in Described[w] : There(c) => RefTo(c) \in Reads[w]
    PROVE  ItemOf(RefTo(id), i) \in Reads[w]
<1> DEFINE e == structs[id].elems[i]
<1>1. CASE Values[w].kind = "scalar"
  <2>1. e = Inline(Values[w].elem)
    BY <1>1 DEF Shown
  <2>2. isInline(e.type) /\ RefIn(id, i) \in Reads[w]
    BY <1>1, <2>1, ScalarIsRead DEF There
  <2>3. e.type = Values[w].elem.type
    BY <2>1 DEF Inline
  <2>4. ItemOf(RefTo(id), i) = RefIn(id, i)
    BY <2>2, <2>3, ItemIs
  <2> QED BY <2>2, <2>4
<1>2. CASE Values[w].kind # "scalar"
  <2>1. ~isInline(e.type) /\ e.target \in Described[w]
    BY <1>2 DEF Shown
  <2>2. There(e.target) /\ ItemOf(RefTo(id), i) = RefTo(e.target)
    BY <1>2, <2>1, ItemIs
  <2> QED BY <2>1, <2>2
<1> QED BY <1>1, <1>2

(* The items of a typed vector have the type of its elements.              *)
LEMMA TypedItems ==
    ASSUME NEW n, NEW v \in SliceTypes \cup ArrayTypes(n), v # VECTOR, NEW t, allowsElemType(v, t)
    PROVE  t = ItemType([vType |-> v])
<1>1. v \in {VECTOR_INT, VECTOR_UINT, VECTOR_FLOAT, VECTOR_BOOL}
        \/ isScalar(v) \/ isTuple(v) \/ isTriple(v) \/ isQuad(v)
  BY DEF SliceTypes, ArrayTypes
<1>2. v \in VarType
  BY DEF SliceTypes, ArrayTypes, VarType, VECTOR, VECTOR_INT, VECTOR_UINT, VECTOR_FLOAT, VECTOR_BOOL
<1>3. isIntTyped(v) \/ isUintTyped(v) \/ isFloatTyped(v) \/ isBoolTyped(v)
  BY <1>1, <1>2 DEF isIntTyped, isUintTyped, isFloatTyped, isBoolTyped, isBlobLike, VarType,
     isScalar, isTuple, isTriple, isQuad,
     VECTOR_INT, VECTOR_UINT, VECTOR_FLOAT, VECTOR_BOOL, INDIRECT_INT, INDIRECT_UINT,
     INDIRECT_FLOAT, VECTOR_INT2, VECTOR_INT3, VECTOR_INT4, VECTOR_UINT2, VECTOR_UINT3,
     VECTOR_UINT4, VECTOR_FLOAT2, VECTOR_FLOAT3, VECTOR_FLOAT4
<1>4. /\ isIntTyped(v) => ~isUintTyped(v)
      /\ isBoolTyped(v) => ~isIntTyped(v) /\ ~isUintTyped(v) /\ ~isFloatTyped(v)
      /\ isFloatTyped(v) => ~isIntTyped(v) /\ ~isUintTyped(v)
      /\ isIntTyped(v) \/ isUintTyped(v) \/ isFloatTyped(v) \/ isBoolTyped(v) =>
            v # VECTOR_KEY /\ v # VECTOR_STRING_DEPRECATED
  BY DEF isIntTyped, isUintTyped, isFloatTyped, isBoolTyped, isBlobLike, BLOB, STR, KEY,
     VECTOR_KEY, VECTOR_STRING_DEPRECATED,
     VECTOR_INT, VECTOR_UINT, VECTOR_FLOAT, VECTOR_BOOL, INDIRECT_INT, INDIRECT_UINT,
     INDIRECT_FLOAT, VECTOR_INT2, VECTOR_INT3, VECTOR_INT4, VECTOR_UINT2, VECTOR_UINT3,
     VECTOR_UINT4, VECTOR_FLOAT2, VECTOR_FLOAT3, VECTOR_FLOAT4
<1> DEFINE r == [vType |-> v]
<1>5. r.vType = v
  OBVIOUS
<1> HIDE DEF r
<1>6. CASE isUintTyped(v)
  <2>1. t = UINT
    BY <1>4, <1>6 DEF allowsElemType
  <2> QED BY <1>4, <1>5, <1>6, <2>1 DEF ItemType, r
<1>7. CASE isIntTyped(v)
  <2>1. t = INT
    BY <1>4, <1>7 DEF allowsElemType
  <2> QED BY <1>4, <1>5, <1>7, <2>1 DEF ItemType, r
<1>8. CASE isFloatTyped(v)
  <2>1. t = FLOAT
    BY <1>4, <1>8 DEF allowsElemType
  <2> QED BY <1>4, <1>5, <1>8, <2>1 DEF ItemType, r
<1>9. CASE isBoolTyped(v)
  <2>1. t = BOOL
    BY <1>4, <1>9 DEF allowsElemType
  <2> QED BY <1>4, <1>5, <1>9, <2>1 DEF ItemType, r
<1> QED BY <1>3, <1>6, <1>7, <1>8, <1>9

(* A slice, and a map, is read where its structure is, if what is inside   *)
(* it is.                                                                  *)
LEMMA SliceIsRead ==
    ASSUME SInv, InReach, NEW id, There(id), NEW v \in DOMAIN Values, Values[v].kind = "slice",
           IsValue(Described, structs[id], v),
           \A w \in DOMAIN Values : w > v => \A c \in Described[w] : There(c) => RefTo(c) \in Reads[w]
    PROVE  RefTo(id) \in Reads[v]
<1> DEFINE r == RefTo(id)
           n == Len(structs[id].elems)
<1>1. /\ structs[id].vType = Values[v].vType /\ n = Len(Entries(v))
      /\ HasItems(Described, structs[id], v, DOMAIN Entries(v))
  BY DEF IsValue
<1>2. r \in Refs /\ r.vType = Values[v].vType
  BY <1>1, RefIs
<1>3. Values[v].vType \in SliceTypes \cup ArrayTypes(Len(Entries(v)))
  BY ValuesAssumption DEF Entries
<1>4. structs[id].vType # KEY
  BY <1>1, <1>3 DEF SliceTypes, ArrayTypes, KEY, VECTOR, VECTOR_INT, VECTOR_UINT, VECTOR_FLOAT,
     VECTOR_BOOL, isScalar, isTuple, isTriple, isQuad
<1>5. CountOf(r) = Len(Entries(v))
  BY <1>1, <1>4, CountIs
<1>6. ASSUME NEW i \in DOMAIN Entries(v), NEW w, w = Entries(v)[i].value
      PROVE  ItemOf(r, i) \in Reads[w]
  <2>1. w \in DOMAIN Values /\ w > v
    BY <1>6, EntryFacts, ValuesAssumption DEF Entries
  <2>2. i \in 1..n
    BY <1>1, EntriesAreSeq
  <2>3. Shown(Described, structs[id].elems[i], w)
    BY <1>1, <1>6 DEF HasItems
  <2>4. \/ Untyped(structs[id].vType)
        \/ /\ Values[w].kind = "scalar"
           /\ Values[w].elem.type = ItemType([vType |-> structs[id].vType])
    <3>1. CASE Values[v].vType = VECTOR
      BY <1>1, <3>1 DEF Untyped
    <3>2. CASE Values[v].vType # VECTOR
      <4>1. Values[w].kind = "scalar" /\ allowsElemType(Values[v].vType, Values[w].elem.type)
        BY <1>6, <3>2, ValuesAssumption DEF Entries
      <4>2. Values[w].elem.type = ItemType([vType |-> Values[v].vType])
        BY <1>3, <3>2, <4>1, TypedItems
      <4> QED BY <1>1, <4>1, <4>2
    <3> QED BY <3>1, <3>2
  <2>5. \A c \in Described[w] : There(c) => RefTo(c) \in Reads[w]
    BY <2>1
  <2> QED BY <1>4, <2>1, <2>2, <2>3, <2>4, <2>5, ShownIsRead
<1> HIDE DEF r
<1>7. ItemsRead(Reads, r, v)
  BY <1>6 DEF ItemsRead
<1>8. IsRead(Reads, r, v)
  BY <1>2, <1>5, <1>7 DEF IsRead
<1> QED BY <1>2, <1>8, ReadsDef DEF r

LEMMA MapIsRead ==
    ASSUME SInv, RoomInv, InReach, NEW id, There(id), NEW v \in DOMAIN Values,
           Values[v].kind = "map", IsValue(Described, structs[id], v),
           \A w \in DOMAIN Values : w > v => \A c \in Described[w] : There(c) => RefTo(c) \in Reads[w]
    PROVE  RefTo(id) \in Reads[v]
<1> DEFINE r == RefTo(id)
           n == Len(structs[id].elems)
<1>1. /\ structs[id].vType = MAP /\ n = Cardinality(KeptEntries(v))
      /\ HasEntries(Described, structs[id], v, KeptEntries(v))
  BY DEF IsValue
<1>2. /\ r \in Refs /\ r.vType = MAP /\ DocInv /\ id \in 1..Len(structs) /\ n \in Nat
  BY <1>1, RefIs
<1>3. MAP # KEY /\ Untyped(MAP) /\ IsMap(structs[id])
  BY <1>1 DEF MAP, KEY, Untyped, IsMap
<1>4. CountOf(r) = n
  BY <1>1, <1>3, CountIs
<1>5. /\ Len(structs[id].keys) = n /\ KeysInOrder(structs[id].keys)
      /\ DOMAIN structs[id].elems = 1..n
  <2>1. structs[id] \in Form
    BY <1>2, ElementOfSeq DEF SInv, FormsInv, Trees
  <2> QED BY <1>2, <1>3, <2>1, DocFacts DEF Form, MapOK, KeysOK
<1>6. \A j \in 1..n : KeyOf(r, j) = structs[id].keys[j].name
  BY <1>3, <1>5, KeyIsRead
<1>7. ASSUME NEW i \in KeptEntries(v), NEW w, w = Entries(v)[i].value
      PROVE  \E j \in 1..n : KeyOf(r, j) = Entries(v)[i].key /\ ItemOf(r, j) \in Reads[w]
  <2>1. w \in DOMAIN Values /\ w > v
    BY <1>7, EntryFacts, ValuesAssumption DEF Entries, KeptEntries
  <2>2. PICK j \in 1..n :
           structs[id].keys[j].name = Entries(v)[i].key /\ Shown(Described, structs[id].elems[j], w)
    BY <1>1, <1>5, <1>7 DEF HasEntries
  <2>3. \A c \in Described[w] : There(c) => RefTo(c) \in Reads[w]
    BY <2>1
  <2>4. ItemOf(r, j) \in Reads[w]
    BY <1>1, <1>3, <2>1, <2>2, <2>3, ShownIsRead
  <2> QED BY <1>6, <2>2, <2>4
<1>8. ASSUME NEW i \in 1..n, NEW j \in 1..n, i < j
      PROVE  KeyOf(r, i) <= KeyOf(r, j)
  <2>1. structs[id].keys[i].name \in Nat /\ structs[id].keys[j].name \in Nat
    <3>1. structs[id].keys \in Seq(Key)
      BY <1>2, DocFacts
    <3>2. structs[id].keys[i] \in Key /\ structs[id].keys[j] \in Key
      BY <1>5, <3>1, ElementOfSeq
    <3> QED BY <3>2 DEF Key
  <2>2. \/ structs[id].keys[i].name < structs[id].keys[j].name
        \/ structs[id].keys[i].name = structs[id].keys[j].name
    BY <1>5, <1>8 DEF KeysInOrder
  <2>3. structs[id].keys[i].name <= structs[id].keys[j].name
    <3> DEFINE x == structs[id].keys[i].name
               y == structs[id].keys[j].name
    <3> HIDE DEF x, y
    <3>1. x \in Nat /\ y \in Nat /\ (x < y \/ x = y)
      BY <2>1, <2>2 DEF x, y
    <3>2. x <= y
      BY <3>1
    <3> QED BY <3>2 DEF x, y
  <2> QED BY <1>6, <2>3
<1> HIDE DEF r, n
<1>9. EntriesRead(Reads, r, v) /\ KeysRead(r)
  BY <1>4, <1>7, <1>8 DEF EntriesRead, KeysRead
<1>10. IsRead(Reads, r, v)
  BY <1>1, <1>2, <1>4, <1>9 DEF IsRead
<1> QED BY <1>2, <1>10, ReadsDef DEF r

(* A structure that is what a value describes, written, is read as it.     *)
LEMMA DescribedIsRead ==
    ASSUME SInv, RoomInv, InReach
    PROVE  \A v \in DOMAIN Values : \A id \in Described[v] : There(id) => RefTo(id) \in Reads[v]
<1> DEFINE N == Len(Values)
           T == {v \in DOMAIN Values : \A id \in Described[v] : There(id) => RefTo(id) \in Reads[v]}
<1>1. N \in Nat /\ DOMAIN Values = 1..N
  BY ValuesAssumption
<1>2. ASSUME NEW v \in 1..N, \A k \in (v + 1)..N : k \in T
      PROVE  v \in T
  <2> SUFFICES ASSUME NEW id \in Described[v], There(id) PROVE RefTo(id) \in Reads[v]
    BY <1>1
  <2>1. v \in DOMAIN Values
    BY <1>1
  <2>2. IsValue(Described, structs[id], v)
    BY <2>1, DescribedDef DEF DescribedIsRight
  <2>3. \A w \in DOMAIN Values : w > v => \A c \in Described[w] : There(c) => RefTo(c) \in Reads[w]
    <3> TAKE w \in DOMAIN Values
    <3> HAVE w > v
    <3>1. w \in (v + 1)..N
      BY <1>1
    <3> QED BY <1>2, <3>1
  <2>4. CASE Values[v].kind = "string"
    <3>1. structs[id] = AppendText(Empty(STR), Values[v].text)
      BY <2>2, <2>4 DEF IsValue
    <3> QED BY <2>1, <2>4, <3>1, StringIsRead
  <2>5. CASE Values[v].kind = "slice"
    BY <2>1, <2>2, <2>3, <2>5, SliceIsRead
  <2>6. CASE Values[v].kind = "map"
    BY <2>1, <2>2, <2>3, <2>6, MapIsRead
  <2> QED BY <2>2, <2>4, <2>5, <2>6 DEF IsValue
<1> HIDE DEF T, N
<1>3. \A n \in 1..N : n \in T
  BY <1>1, <1>2, DownFrom
<1> QED BY <1>1, <1>3 DEF T

-----------------------------------------------------------------------------
(* Marshal: the value is built from scratch, and then written once.        *)

Blank == buff = <<>> /\ todo = <<>> /\ written = <<>> /\ offsetPtrs = <<>>

(* Nothing in the value is refused.                                        *)
Buildable == began.value # 0 /\ Keyed[began.value] /\ Known[began.value]

FromScratch ==
    began.value # 0 => began.stack = <<Root>> /\ began.size = 1 /\ began.head = Empty(NULL)

RootHolds ==
    /\ Len(structs[Root].elems) = 1
    /\ Values[began.value].kind = "scalar" =>
          structs[Root].elems[1] = Inline(Values[began.value].elem)

RootShows ==
    /\ Len(structs[Root].elems) = 1
    /\ Shown(Described, structs[Root].elems[1], began.value)

BuildPhase ==
    /\ calls = 0 /\ Blank /\ NestInv /\ BuiltInv /\ FromScratch
    /\ Buildable => AtStart \/ RootHolds

EncodePhase ==
    /\ calls = 1 /\ Idle /\ began.value \in DOMAIN Values
    /\ Buildable => RootShows /\ (todo # <<>> \/ RootPart \in DOMAIN written)

MarshalInv == SInv /\ RoomInv /\ CallsInv /\ (BuildPhase \/ EncodePhase)

LEMMA BlankIsLaid == Blank => LayInv /\ RoomInv
<1> SUFFICES ASSUME Blank PROVE LayInv /\ RoomInv
  OBVIOUS
<1>1. buff \in Seq(Bytes) /\ DOMAIN written = {} /\ todo = <<>> /\ DOMAIN offsetPtrs = {}
  BY DEF Blank
<1>2. OffsetsTyped(offsetPtrs)
  BY <1>1 DEF OffsetsTyped, OffsetIn, Unbound, Offset, ByteSize, b8, b64
<1>3. Progress
  BY <1>1 DEF Progress
<1>4. KeyWidths(structs, written)
  BY <1>1 DEF KeyWidths
<1>5. KeyFields(structs, offsetPtrs)
  BY <1>1 DEF KeyFields, WideWhenHeavy, OffsetIn, Unbound, b8, b16, b32
<1> QED BY <1>1, <1>2, <1>3, <1>4, <1>5, NothingLaid DEF RoomInv

(* The root of a new Builder takes any value.                              *)
LEMMA ScratchTakes ==
    ASSUME FromScratch, NestInv, Buildable
    PROVE  Applies /\ began.value \in DOMAIN Values
<1>1. /\ began.stack = <<Root>> /\ began.head = Empty(NULL) /\ began.size = 1
      /\ began.value \in DOMAIN Values
  BY DEF FromScratch, Buildable, NestInv
<1>2. Len(began.stack) = 1 /\ began.stack[1] = Root
  BY <1>1
<1>3. \A e : TakesElement(Root, Empty(NULL), e) /\ TakesOffset(Root, Empty(NULL), e)
  <2>1. Empty(NULL).vType # MAP /\ Empty(NULL).elems = <<>> /\ Empty(NULL).children = <<>>
    BY DEF Empty, NULL, MAP
  <2> QED BY <2>1 DEF TakesElement, TakesOffset
<1>4. ValueIsTaken
  BY <1>1, <1>2, <1>3 DEF ValueIsTaken
<1> QED BY <1>1, <1>4 DEF Applies, Buildable

(* A new call, and the state there was before all calls.                   *)
Scratch ==
    /\ SerializeInit /\ frames = <<>>
    /\ \/ call = NoCall /\ began = NotBegan
       \/ \E v \in DOMAIN Values :
             /\ call = [key |-> NoKey, value |-> v]
             /\ began = [value |-> v, stack |-> <<Root>>, head |-> Empty(NULL), size |-> 1]

LEMMA ScratchInv == Scratch => MarshalInv
<1> SUFFICES ASSUME Scratch PROVE MarshalInv
  OBVIOUS
<1>1. SerializeInit /\ frames = <<>>
  BY DEF Scratch
<1>2. SInv
  BY <1>1, InitSInv
<1>3. Blank /\ calls = 0
  BY <1>1 DEF SerializeInit, Blank
<1>4. RoomInv
  BY <1>3, BlankIsLaid
<1>5. /\ inProgress = <<Root>> /\ headIndex = 0 /\ structs = <<Empty(NULL)>>
  BY <1>1 DEF SerializeInit, Init
<1>6. CASE call = NoCall /\ began = NotBegan
  <2>1. began.value = 0
    BY <1>6 DEF NotBegan
  <2>2. CallsInv
    BY <1>1, <1>6 DEF CallsInv
  <2>3. NestInv /\ BuiltInv /\ FromScratch /\ ~Buildable
    BY <2>1 DEF NestInv, Applies, BuiltInv, Building, FromScratch, Buildable
  <2> QED BY <1>2, <1>3, <1>4, <2>2, <2>3 DEF MarshalInv, BuildPhase
<1>7. ASSUME NEW v \in DOMAIN Values, call = [key |-> NoKey, value |-> v],
             began = [value |-> v, stack |-> <<Root>>, head |-> Empty(NULL), size |-> 1]
      PROVE  MarshalInv
  <2>1. /\ began.value = v /\ began.stack = <<Root>> /\ began.head = Empty(NULL) /\ began.size = 1
    BY <1>7
  <2>2. CallsInv
    BY <1>1, <1>7 DEF CallsInv, Calls
  <2>3. HeadStructure = Empty(NULL) /\ Len(structs) = 1
    BY <1>5 DEF HeadStructure, getHead, Root
  <2>4. AtStart
    BY <1>1, <1>5, <1>7, <2>1, <2>3 DEF AtStart
  <2>5. Nested
    BY <1>1, <1>5, <2>1 DEF Nested
  <2>6. NestInv
    <3>1. began.stack \in Seq(Nat \ {0}) /\ Len(began.stack) >= 1
      BY <2>1 DEF Root
    <3> QED BY <2>1, <2>4, <2>5, <3>1 DEF NestInv
  <2>7. BuiltInv /\ FromScratch
    BY <2>1, <2>4 DEF BuiltInv, FromScratch
  <2> QED BY <1>2, <1>3, <1>4, <2>2, <2>4, <2>6, <2>7 DEF MarshalInv, BuildPhase
<1> QED BY <1>6, <1>7 DEF Scratch

(* The root takes the value, and then is left alone.                       *)
LEMMA RootTakesValue ==
    ASSUME BaseInv, Buildable, FromScratch, AtStart, Activation, began' = began
    PROVE  RootHolds'
<1>1. /\ frames = <<>> /\ call.value = began.value /\ call.key = NoKey
      /\ inProgress = <<Root>> /\ HeadStructure = Empty(NULL) /\ Len(structs) = 1
  BY DEF AtStart, FromScratch, Buildable
<1>2. call # NoCall /\ item = Values[began.value]
  BY <1>1 DEF NoCall, Buildable, item
<1>3. Applies /\ began.value \in DOMAIN Values
  BY ScratchTakes DEF BaseInv
<1>4. item.kind # "other"
  BY <1>2, <1>3, KnownDef DEF Buildable
<1>5. getHead = Root /\ Root = 1 /\ Len(Empty(NULL).elems) = 0 /\ Empty(NULL).elems = <<>>
  <2>1. headIndex + 1 = 1
    BY <1>1 DEF BaseInv, IInv, TypeOK
  <2> QED BY <1>1, <2>1 DEF getHead, Empty, Root
<1>6. structs \in Seq(Structure) /\ DOMAIN structs = {1}
  BY <1>1, LenProperties DEF BaseInv, IInv, TypeOK
<1>7. \A x : PutAt(<<>>, 0, x) = <<x>>
  BY DEF PutAt
<1>8. EndIndex(getHead, HeadStructure) = 0
  BY <1>5 DEF EndIndex
<1>9. CASE item.kind = "scalar"
  <2> DEFINE x == Inline(item.elem)
  <2>1. TakesScalar /\ HeadWithScalar = insertElement(Empty(NULL), x, 0)
    <3>1. TakesElement(Root, Empty(NULL), x)
      BY <1>5 DEF TakesElement, Empty, NULL, MAP
    <3> QED BY <1>1, <1>5, <1>8, <3>1 DEF TakesScalar, HeadWithScalar
  <2>2. HeadWithScalar.elems = <<x>>
    BY <1>5, <1>7, <2>1 DEF insertElement, Empty
  <2>3. AutoScalar
    BY <1>2, <1>9 DEF Activation, AutoString, AutoOther, EnterMap, EnterSlice, NextEntry, Leave,
                      Waiting
  <2>4. structs' = [structs EXCEPT ![getHead] = HeadWithScalar]
    BY <2>1, <2>3 DEF AutoScalar
  <2>5. structs'[Root].elems = <<x>>
    BY <1>5, <1>6, <2>2, <2>4
  <2> QED BY <1>2, <2>5 DEF RootHolds
<1>10. CASE item.kind # "scalar"
  <2>1. IsStructure(call.value) /\ item.kind \in {"string", "map", "slice"}
    <3>1. item.kind \in {"scalar", "string", "map", "slice", "other"}
      BY <1>2, <1>3, ValuesAssumption
    <3> QED BY <1>1, <1>2, <1>4, <1>10, <3>1 DEF IsStructure
  <2>2. TakesItem
    BY <1>2, <1>3, <2>1, IsTaken DEF BaseInv
  <2>3. PICK x : HeadWithItem.elems = <<x>>
    <3> DEFINE y == OffsetTo(NextId, TypeOfItem)
    <3>1. HeadWithItem = insertOffsetToObject(Empty(NULL), y, 0)
      BY <1>1, <1>8 DEF HeadWithItem, HeadWithOffset
    <3> HIDE DEF y
    <3>2. HeadWithItem.elems = <<y>>
      BY <1>5, <1>7, <3>1 DEF insertOffsetToObject, Empty
    <3> QED BY <3>2
  <2>4. AutoString \/ EnterMap \/ EnterSlice
    BY <1>2, <1>4, <1>10 DEF Activation, AutoScalar, AutoOther, NextEntry, Leave, Waiting
  <2>5. \E s : structs' = Append([structs EXCEPT ![getHead] = HeadWithItem], s)
    BY <2>2, <2>4 DEF AutoString, EnterMap, EnterSlice, PushAndEnd, Push
  <2>6. structs'[Root] = HeadWithItem
    <3> DEFINE q == [structs EXCEPT ![getHead] = HeadWithItem]
    <3>1. q = <<HeadWithItem>>
      BY <1>1, <1>5, <1>6
    <3>2. PICK s : structs' = Append(q, s)
      BY <2>5
    <3> QED BY <1>5, <3>1, <3>2
  <2>7. Values[began.value].kind # "scalar"
    BY <1>2, <1>10
  <2> QED BY <2>3, <2>6, <2>7 DEF RootHolds
<1> QED BY <1>9, <1>10

LEMMA RootIsKept ==
    ASSUME BaseInv, Buildable, FromScratch, ~AtStart, RootHolds, Activation, began' = began, Shaped
    PROVE  RootHolds'
<1>1. Applies
  BY ScratchTakes DEF BaseInv
<1>2. structs'[Root] = structs[Root]
  <2>1. CASE call = NoCall
    <3>1. structs' = structs
      BY <2>1 DEF Activation, AutoScalar, AutoString, AutoOther, EnterMap, EnterSlice, NextEntry,
                  Leave, Pop, Unwind, Panic, doc, vars
    <3> QED BY <3>1
  <2>2. CASE call # NoCall
    <3>1. frames # <<>>
      BY <1>1, <2>2 DEF BaseInv, NestInv, Within
    <3>2. /\ Len(frames) \in Nat /\ headIndex \in Nat
          /\ headIndex + 1 = Len(began.stack) + Len(frames)
      BY <1>1, NestedFacts DEF BaseInv
    <3>3. Len(began.stack) = 1
      BY DEF FromScratch, Buildable
    <3>4. Len(frames) # 0
      <4>1. frames \in Seq(Frames)
        BY DEF BaseInv, CallsInv
      <4> QED BY <3>1, <4>1, EmptySeq
    <3>5. 1 \in 1..headIndex
      BY <3>2, <3>3, <3>4
    <3>6. inProgress[1] < getHead /\ inProgress[1] = Root
      BY <3>5, HeadIsYoungest DEF BaseInv, IInv, StackInv
    <3>7. Root # getHead
      BY <3>6 DEF Root
    <3>8. Root \in DOMAIN structs
      BY HeadType, LenProperties DEF BaseInv, IInv, TypeOK, StackInv, Root
    <3> QED BY <3>7, <3>8, EndedStays DEF BaseInv, Shaped
  <2> QED BY <2>1, <2>2
<1> QED BY <1>2 DEF RootHolds

LEMMA BuildKeeps ==
    ASSUME SInv, CallsInv, BuildPhase, Activation, UNCHANGED output
    PROVE  MarshalInv'
<1>1. UNCHANGED began
  BY DEF Activation, AutoScalar, AutoString, AutoOther, EnterMap, EnterSlice, NextEntry, Leave, Return
<1>2. [AutoNext]_allVars /\ BaseInv /\ BuiltInv
  BY DEF AutoNext, SInv, BaseInv, BuildPhase
<1>3. Shaped
  BY <1>2, StepShaped
<1>4. IInv' /\ ToldInv' /\ FormsInv' /\ CallsInv' /\ NestInv' /\ BuiltInv'
  <2>1. IInv' /\ ToldInv'
    BY <1>2, <1>3, ShapedIInv, ShapedTold DEF BaseInv
  <2>2. FormsInv' /\ CallsInv' /\ NestInv' /\ BuiltInv'
    BY <1>2, AutoKeepsForms, StepCallsInv, StepNests, StepBuilds DEF BaseInv
  <2> QED BY <2>1, <2>2
<1>5. calls' = 0 /\ Blank'
  BY DEF output, Blank, BuildPhase
<1>6. LayInv' /\ RoomInv'
  <2>1. Blank' => LayInv' /\ RoomInv'
    BY BlankIsLaid, PTL
  <2> QED BY <1>5, <2>1
<1>7. FromScratch /\ FromScratch' /\ (Buildable' => Buildable)
  BY <1>1 DEF FromScratch, Buildable, BuildPhase
<1>8. Buildable' => RootHolds'
  <2> SUFFICES ASSUME Buildable' PROVE RootHolds'
    OBVIOUS
  <2>1. Buildable /\ (AtStart \/ RootHolds)
    BY <1>7 DEF BuildPhase
  <2> QED BY <1>1, <1>2, <1>3, <1>7, <2>1, RootTakesValue, RootIsKept
<1> QED BY <1>4, <1>5, <1>6, <1>7, <1>8 DEF MarshalInv, SInv, BuildPhase

(* What the root holds when AutoBuild has returned.                        *)
LEMMA RootIsShown ==
    ASSUME BaseInv, BuiltInv, FromScratch, Buildable, AtStart \/ RootHolds, Returned, ret = "ok"
    PROVE  RootShows
<1>1. Applies /\ began.value \in DOMAIN Values
  BY ScratchTakes DEF BaseInv
<1>2. RootHolds /\ ~AtStart
  BY DEF AtStart, Returned, Idle, NoCall
<1>3. CASE Values[began.value].kind = "scalar"
  BY <1>2, <1>3 DEF RootHolds, RootShows, Shown
<1>4. CASE Values[began.value].kind # "scalar"
  <2> DEFINE v == began.value
             e == structs[Root].elems[1]
  <2>1. IsStructure(v)
    <3>1. Values[v].kind # "other"
      BY <1>1, KnownDef DEF Buildable
    <3>2. Values[v].kind \in {"scalar", "string", "map", "slice", "other"}
      BY <1>1, ValuesAssumption
    <3> QED BY <1>4, <3>1, <3>2 DEF IsStructure
  <2>2. began.size = 1 /\ Client = Root
    <3>1. began.size = 1 /\ began.stack = <<Root>>
      BY DEF FromScratch, Buildable
    <3> QED BY <3>1 DEF Client
  <2>3. 2 \in Described[v]
    <3>1. 1 + 1 \in Described[v]
      BY <1>1, <2>1, <2>2, BuiltAtReturn DEF ValueIsBuilt, Applies, Buildable
    <3> QED BY <3>1
  <2>4. Started
    BY <1>1, <1>2, <2>1 DEF BuiltInv, Building, Buildable
  <2>5. /\ Len(structs) \in Nat /\ DOMAIN structs = 1..Len(structs) /\ IsTree(structs)
        /\ 1 < Len(structs) /\ Owns(structs[Root].children, 2)
    <3>1. 1 < Len(structs) /\ Owns(structs[Root].children, 1 + 1)
      BY <2>2, <2>4 DEF Started
    <3> QED BY <3>1, FormsFacts DEF BaseInv
  <2>6. IsParent(structs, Root, 2)
    <3>1. 2 \in 2..Len(structs) /\ 1..(2 - 1) = {1}
      BY <2>5
    <3> QED BY <2>5, <3>1 DEF IsTree, Root
  <2>7. e.target = 2 /\ e.type = structs[2].vType
    <3>1. RefersOnce(structs[Root].elems, 2, structs[2].vType) /\ Len(structs[Root].elems) = 1
      BY <1>2, <2>6 DEF IsParent, RootHolds
    <3> QED BY <3>1 DEF RefersOnce
  <2>8. IsValue(Described, structs[2], v)
    BY <1>1, <2>3, DescribedDef DEF DescribedIsRight
  <2>9. structs[2].vType \in Startable
    <3>1. CASE Values[v].kind = "string"
      BY <2>8, <3>1 DEF IsValue, AppendText, Empty, Startable
    <3>2. CASE Values[v].kind = "slice"
      <4>1. structs[2].vType \in SliceTypes \cup ArrayTypes(Len(Values[v].entries))
        BY <1>1, <2>8, <3>2, ValuesAssumption DEF IsValue
      <4> QED BY <4>1, SlicesStart
    <3>3. CASE Values[v].kind = "map"
      BY <2>8, <3>3 DEF IsValue, Startable
    <3> QED BY <2>1, <3>1, <3>2, <3>3 DEF IsStructure
  <2>10. ~isInline(e.type)
    BY <2>7, <2>9, StartableType
  <2> HIDE DEF e, v
  <2>11. Shown(Described, e, v)
    BY <1>4, <2>3, <2>7, <2>10 DEF Shown, v
  <2> QED BY <1>2, <2>11 DEF RootShows, RootHolds, e, v
<1> QED BY <1>3, <1>4

(* Described is about the structures alone.                                *)
LEMMA RootShowsOn ==
    ASSUME structs' = structs, began' = began, RootShows
    PROVE  RootShows'
<1>1. Described' = Described
  BY DEF Described
<1> HIDE DEF Described
<1>2. structs'[Root].elems[1] = structs[Root].elems[1] /\ Len(structs'[Root].elems) = 1
      /\ Shown(Described, structs[Root].elems[1], began.value)
  BY DEF RootShows
<1> QED BY <1>1, <1>2 DEF RootShows, Shown

LEMMA EncodeKeeps ==
    ASSUME MarshalInv, Encode
    PROVE  MarshalInv'
<1>1. /\ Returned /\ ret = "ok" /\ calls = 0 /\ SerializeBuffer(<<>>) /\ UNCHANGED auto
      /\ UNCHANGED vars
  BY DEF Encode, SerializeBuffer
<1>2. SInv /\ RoomInv /\ CallsInv /\ BuildPhase /\ BaseInv
  BY <1>1 DEF MarshalInv, EncodePhase, BuildPhase, BaseInv, SInv
<1>3. [SerializeNext]_all
  BY <1>1, <1>2 DEF SerializeNext, BuildPhase, Blank
<1>4. SInv' /\ RoomInv'
  BY <1>2, <1>3, StepSInv, StepRoom
<1>5. CallsInv' /\ Idle' /\ calls' = 1
  BY <1>1, <1>2 DEF CallsInv, auto, Returned, Idle, SerializeBuffer
<1>6. began' = began /\ began.value \in DOMAIN Values /\ structs' = structs
  BY <1>1, <1>2 DEF auto, Returned, BuildPhase, NestInv, vars
<1>7. todo' # <<>>
  <2>1. Good(Parts, Root) /\ todo' = Parts
    BY <1>1, <1>2, InvIsDoc, PartsAreGood DEF SInv, SerializeBuffer
  <2>2. Len(Parts) # 0
    BY <2>1 DEF Good
  <2> QED BY <2>1, <2>2
<1>8. Buildable' => RootShows'
  <2> SUFFICES ASSUME Buildable' PROVE RootShows'
    OBVIOUS
  <2>1. Buildable
    BY <1>6 DEF Buildable
  <2>2. RootShows
    BY <1>1, <1>2, <2>1, RootIsShown DEF BuildPhase
  <2> QED BY <1>6, <2>2, RootShowsOn
<1> QED BY <1>4, <1>5, <1>6, <1>7, <1>8 DEF MarshalInv, EncodePhase

LEMMA SerializeKeeps ==
    ASSUME MarshalInv, Serialize, UNCHANGED auto
    PROVE  MarshalInv'
<1>1. todo # <<>>
  BY DEF Serialize, SerializePart, SerializeNothing
<1>2. SInv /\ RoomInv /\ CallsInv /\ EncodePhase
  BY <1>1 DEF MarshalInv, BuildPhase, Blank
<1>3. SInv' /\ RoomInv'
  BY <1>2, StepSInv, StepRoom DEF SerializeNext
<1>4. CallsInv' /\ Idle' /\ calls' = 1 /\ began' = began /\ structs' = structs
      /\ began.value \in DOMAIN Values
  BY <1>2 DEF CallsInv, auto, Idle, EncodePhase, Serialize, SerializePart, SerializeNothing, doc
<1>5. ASSUME Buildable'
      PROVE  RootShows' /\ (todo' # <<>> \/ RootPart \in DOMAIN written')
  <2>1. RootShows
    BY <1>2, <1>4, <1>5 DEF Buildable, EncodePhase
  <2>2. DocInv /\ LayInv
    BY <1>2, InvIsDoc DEF SInv
  <2>3. Elems(RootPart) # <<>>
    <3>1. IsPart(RootPart)
      <4>1. Good(Parts, Root)
        BY <2>2, PartsAreGood
      <4> QED BY <4>1 DEF Good, RootPart
    <3>2. Len(Elems(RootPart)) = Count(structs, RootPart)
      BY <2>2, <3>1, ElemSizes DEF LayInv
    <3>3. Len(Elems(RootPart)) = 1
      BY <2>1, <3>2, RootHas DEF RootShows
    <3> QED BY <3>3
  <2>4. SerializePart
    BY <2>3 DEF Serialize, SerializeNothing
  <2> DEFINE p == Head(todo)
  <2>5. todo' = Tail(todo) /\ p \in DOMAIN written'
    BY <2>4 DEF SerializePart
  <2>6. PICK P : Good(P, Root) /\ \E n \in 0..(Len(P) - 1) :
                    p = P[n + 1] /\ Tail(todo) = SubSeq(P, (n + 1) + 1, Len(P))
    <3>1. p = RootPart => Elems(p) # <<>>
      BY <2>3
    <3> HIDE DEF p
    <3> QED BY <1>1, <2>2, <3>1, NextIsReady DEF p
  <2>7. PICK n \in 0..(Len(P) - 1) : p = P[n + 1] /\ Tail(todo) = SubSeq(P, (n + 1) + 1, Len(P))
    BY <2>6
  <2>8. Len(P) \in Nat \ {0} /\ P[Len(P)] = RootPart /\ P \in Seq(AnyPart)
    BY <2>6 DEF Good, RootPart
  <2> HIDE DEF p
  <2>9. ASSUME n + 1 = Len(P) PROVE RootPart \in DOMAIN written'
    BY <2>5, <2>7, <2>8, <2>9
  <2>10. ASSUME n + 1 # Len(P) PROVE todo' # <<>>
    <3>1. (n + 1) + 1 \in 1..Len(P)
      BY <2>7, <2>8, <2>10
    <3>2. Len(SubSeq(P, (n + 1) + 1, Len(P))) = Len(P) - (n + 1)
      BY <2>8, <3>1, SubSeqProperties
    <3>3. Len(P) - (n + 1) # 0
      BY <2>7, <2>8, <2>10
    <3>4. Len(todo') # 0
      <4>1. todo' = SubSeq(P, (n + 1) + 1, Len(P))
        BY <2>5, <2>7
      <4> QED BY <3>2, <3>3, <4>1
    <3> QED BY <3>4
  <2>11. todo' # <<>> \/ RootPart \in DOMAIN written'
    BY <2>9, <2>10
  <2>12. RootShows'
    BY <1>4, <2>1, RootShowsOn
  <2> QED BY <2>11, <2>12
<1> QED BY <1>2, <1>3, <1>4, <1>5 DEF MarshalInv, EncodePhase

LEMMA StutterKeeps ==
    ASSUME MarshalInv, UNCHANGED marshalVars
    PROVE  MarshalInv'
<1>1. SInv /\ RoomInv /\ CallsInv /\ [SerializeNext]_all /\ [AutoNext]_allVars
  BY DEF MarshalInv, marshalVars, all, allVars
<1>2. SInv' /\ RoomInv' /\ CallsInv'
  BY <1>1, StepSInv, StepRoom, StepCallsInv
<1>3. /\ UNCHANGED <<structs, inProgress, headIndex, frames, call, began, calls>>
      /\ UNCHANGED <<buff, todo, written, offsetPtrs>>
  BY DEF marshalVars, allVars, auto, vars, output
<1>4. CASE BuildPhase
  <2>1. NestInv' /\ BuiltInv'
    BY <1>1, <1>4, StepNests, StepBuilds DEF SInv, BuildPhase, BaseInv
  <2>2. (AtStart \/ RootHolds) => (AtStart \/ RootHolds)'
    BY <1>3 DEF AtStart, RootHolds, HeadStructure, getHead
  <2>3. calls' = 0 /\ Blank' /\ FromScratch' /\ (Buildable' => Buildable)
    BY <1>3, <1>4 DEF BuildPhase, Blank, FromScratch, Buildable
  <2> QED BY <1>2, <1>4, <2>1, <2>2, <2>3 DEF MarshalInv, BuildPhase
<1>5. CASE EncodePhase
  <2>1. calls' = 1 /\ Idle' /\ began'.value \in DOMAIN Values /\ (Buildable' => Buildable)
    BY <1>3, <1>5 DEF EncodePhase, Idle, Buildable
  <2>2. RootShows => RootShows'
    BY <1>3, RootShowsOn
  <2> QED BY <1>2, <1>3, <1>5, <2>1, <2>2 DEF MarshalInv, EncodePhase
<1> QED BY <1>4, <1>5 DEF MarshalInv

LEMMA StepMarshalInv ==
    ASSUME MarshalInv, [MarshalNext]_marshalVars
    PROVE  MarshalInv'
<1>1. ASSUME NEW v \in DOMAIN Values, Marshal(v) PROVE MarshalInv'
  <2>1. Scratch'
    BY <1>1 DEF Marshal, Scratch, SerializeInit, Init
  <2>2. Scratch' => MarshalInv'
    BY ScratchInv, PTL
  <2> QED BY <2>1, <2>2
<1>2. ASSUME Activation, UNCHANGED output PROVE MarshalInv'
  <2>1. BuildPhase
    BY <1>2 DEF MarshalInv, EncodePhase, Idle, Activation, AutoScalar, AutoString, AutoOther,
                EnterMap, EnterSlice, NextEntry, Leave, Waiting
  <2> QED BY <1>2, <2>1, BuildKeeps DEF MarshalInv
<1> QED BY <1>1, <1>2, EncodeKeeps, SerializeKeeps, StutterKeeps DEF MarshalNext

(* Of a Builder that is new, Marshal keeps: while AutoBuild is at work,    *)
(* nothing is written and the root is empty or holds the value; then the   *)
(* one call of SerializeBuffer writes all of what is described by it.      *)
THEOREM MarshalInvariance == MarshalSpec => []MarshalInv
<1>1. MarshalInit => MarshalInv
  BY ScratchInv DEF MarshalInit, AutoInit, Scratch
<1>2. MarshalInv /\ [MarshalNext]_marshalVars => MarshalInv'
  BY StepMarshalInv
<1> QED BY <1>1, <1>2, PTL DEF MarshalSpec

(* The value is read at the root.                                          *)
LEMMA RootIsRead ==
    ASSUME MarshalInv
    PROVE  MarshalReadsBack
<1> SUFFICES ASSUME Encoded, Keyed[began.value], Known[began.value], InReach
             PROVE  NewRef \in Reads[began.value]
  BY DEF MarshalReadsBack
<1> DEFINE v == began.value
           p == RootPart
           e == structs[Root].elems[1]
<1>1. SInv /\ RoomInv /\ EncodePhase /\ todo = <<>>
  BY DEF MarshalInv, Encoded, Done, BuildPhase
<1>2. v \in DOMAIN Values /\ v # 0
  <2>1. v \in DOMAIN Values
    BY <1>1 DEF EncodePhase
  <2> QED BY <2>1, ValuesAssumption
<1>3. RootShows /\ p \in DOMAIN written
  BY <1>1, <1>2 DEF EncodePhase, Buildable
<1>4. Len(structs[Root].elems) = 1 /\ Shown(Described, e, v)
  BY <1>3 DEF RootShows
<1>5. Len(Elems(p)) = 1
  <2>1. Len(Elems(p)) = Count(structs, p)
    BY <1>1, <1>3, WrittenFacts
  <2> QED BY <1>4, <2>1, RootHas
<1>6. Complete
  BY <1>1, <1>3, <1>5 DEF Complete
<1> DEFINE z == written[p].index0
           W == B(written[p].bSize)
<1>7. /\ DocInv /\ z \in Nat /\ W \in Nat /\ RootElem.type = TypeAt(structs, p, 1)
  BY <1>1, <1>6, RootIsThere
<1>8. RootElem.type = e.type
  BY <1>7, RootHas
<1>9. CASE Values[v].kind = "scalar"
  <2>1. e = Inline(Values[v].elem)
    BY <1>4, <1>9 DEF Shown
  <2>2. isInline(e.type) /\ RefIn(Root, 1) \in Reads[v]
    <3>1. Root \in 1..Len(structs)
      BY <1>7, DocFacts DEF DocInv, Root
    <3>2. WholeOf(Root) \in DOMAIN written /\ 1 \in 1..Len(structs[Root].elems)
      BY <1>3, <1>4 DEF RootPart
    <3> QED BY <1>1, <1>2, <1>9, <2>1, <3>1, <3>2, ScalarIsRead
  <2>3. InlineAt(structs, p, 1)
    BY <1>7, <1>8, <2>2 DEF InlineAt
  <2>4. NewRef = [vType |-> RootElem.type, bSize |-> written[p].bSize,
                  index0 |-> RootIndex(RootElem.type, z, W)]
    BY <1>1, <1>6, <2>3, NewRefIs
  <2>5. RootIndex(RootElem.type, z, W) = z
    <3>1. z - 0 = z
      BY <1>7
    <3> QED BY <1>8, <2>2, <3>1 DEF RootIndex
  <2>6. RefIn(Root, 1) = [vType |-> e.type, bSize |-> written[p].bSize, index0 |-> z]
    <3>1. z + (1 - 1) * W = z
      BY <1>7
    <3> QED BY <3>1 DEF RefIn, RootPart
  <2> QED BY <1>8, <2>2, <2>4, <2>5, <2>6
<1>10. CASE Values[v].kind # "scalar"
  <2> DEFINE c == e.target
  <2>1. ~isInline(e.type) /\ c \in Described[v]
    BY <1>4, <1>10 DEF Shown
  <2>2. ~InlineAt(structs, p, 1)
    BY <1>7, <1>8, <2>1 DEF InlineAt
  <2>3. /\ c \in 2..Len(structs) /\ WholeOf(c) \in DOMAIN written
        /\ RootElem.target = WholeOf(c) /\ RootElem.type = structs[c].vType
    BY <1>1, <1>6, <2>2, RootChildIs
  <2>4. Fits(p, 1)
    <3>1. 1 \in DOMAIN Elems(p) /\ RootElem = Elems(p)[1] /\ ~Inlined(RootElem)
      <4>1. 1 \in DOMAIN Elems(p)
        BY <1>1, <1>3, <1>5, WrittenFacts
      <4> QED BY <1>8, <2>1, <4>1 DEF RootElem, Inlined
    <3>2. 1 \in Offsets(p)
      BY <3>1 DEF Offsets
    <3> QED BY <1>3, <3>2 DEF InReach
  <2>5. NewRef = RefTo(c)
    <3>1. NewRef = [vType |-> RootElem.type, bSize |-> written[WholeOf(c)].bSize,
                    index0 |-> written[WholeOf(c)].index0]
      BY <1>1, <1>6, <2>2, <2>3, <2>4, RootOffsetIs
    <3> QED BY <2>3, <3>1 DEF RefTo
  <2>6. There(c)
    BY <2>3 DEF There
  <2> HIDE DEF c, v
  <2> QED BY <1>1, <1>2, <2>1, <2>5, <2>6, DescribedIsRead DEF v
<1> QED BY <1>9, <1>10

(* What Marshal returns reads, through all its maps and slices, as the     *)
(* value it was given.  It is what the two halves say together: the        *)
(* structure AutoBuild made first is what the value describes, and where   *)
(* it is written its items, keys and counts are found, and those of the    *)
(* structures inside it.                                                   *)
THEOREM MarshalIsReadBack == MarshalSpec => []MarshalReadsBack
  BY MarshalInvariance, RootIsRead, PTL
=============================================================================
