--------------------------- MODULE TextRowsProofs ---------------------------
(***************************************************************************)
(* The algebra of texts.  A position p cuts a text t into what is before   *)
(* it and what is after it, two texts whose concatenation is t and the     *)
(* first of which ends at p.  An insertion puts a payload between the two  *)
(* parts and a deletion takes the text between two positions out, so that  *)
(* everything undo relies on follows from concatenation being associative  *)
(* and cancellative.                                                       *)
(***************************************************************************)
EXTENDS TextRows, SequenceTheorems, WellFoundedInduction, TLAPS

Before(t, p) == SubSeq(t, 1, p.y) \o << Head0(t, p.x, p.y) >>
After(t, p)  == << Tail0(t, p.x, p.y) >> \o SubSeq(t, p.y + 2, NumRows(t))

-----------------------------------------------------------------------------
(* Least elements, and the induction along 0..k they give. *)
LEMMA Least ==
  ASSUME NEW G, G \subseteq Nat, G # {}
  PROVE  \E n \in G : \A k \in G : n <= k
<1>1. PICK n \in G : \A k \in G : ~ (<<k, n>> \in OpToRel(<, Nat))
  BY WFMin, NatLessThanWellFounded
<1>2. \A k \in G : ~(k < n)
  BY <1>1 DEF OpToRel
<1>3. QED  BY <1>2

LEMMA UpTo ==
  ASSUME NEW k \in Nat, NEW G, 0 \in G,
         \A i \in 0..(k - 1) : i \in G => i + 1 \in G
  PROVE  \A i \in 0..k : i \in G
<1> DEFINE Bad == { i \in 0..k : i \notin G }
<1>1. SUFFICES ASSUME Bad # {}  PROVE FALSE  OBVIOUS
<1>2. PICK n \in Bad : \A i \in Bad : n <= i
  <2>1. Bad \subseteq Nat  OBVIOUS
  <2> HIDE DEF Bad
  <2>2. QED  BY <1>1, <2>1, Least
<1>3. n # 0 /\ n \in 1..k  OBVIOUS
<1>4. n - 1 \in 0..(k - 1) /\ n - 1 \notin Bad  BY <1>2, <1>3
<1>5. n - 1 \in G  BY <1>3, <1>4
<1>6. (n - 1) + 1 \in G  BY <1>4, <1>5
<1>7. QED  BY <1>3, <1>6

-----------------------------------------------------------------------------
(* Sequences: the first n elements, those from the m-th on, two in a row. *)
LEMMA SeqFront ==
  ASSUME NEW S, NEW a \in Seq(S), NEW n \in 0..Len(a)
  PROVE  /\ SubSeq(a, 1, n) \in Seq(S)
         /\ Len(SubSeq(a, 1, n)) = n
         /\ \A i \in 1..n : SubSeq(a, 1, n)[i] = a[i]
OBVIOUS

LEMMA SeqBack ==
  ASSUME NEW S, NEW a \in Seq(S), NEW m \in 1..(Len(a) + 1)
  PROVE  /\ SubSeq(a, m, Len(a)) \in Seq(S)
         /\ Len(SubSeq(a, m, Len(a))) = Len(a) - m + 1
         /\ \A i \in m..Len(a) : SubSeq(a, m, Len(a))[i - m + 1] = a[i]
OBVIOUS

LEMMA SeqCat ==
  ASSUME NEW S, NEW a \in Seq(S), NEW b \in Seq(S)
  PROVE  /\ a \o b \in Seq(S)
         /\ Len(a \o b) = Len(a) + Len(b)
         /\ \A i \in 1..Len(a) : (a \o b)[i] = a[i]
         /\ \A i \in 1..Len(b) : (a \o b)[Len(a) + i] = b[i]
<1>1. Len(a) \in Nat /\ Len(b) \in Nat  BY LenProperties
<1>2. \A i \in 1..Len(b) : (a \o b)[Len(a) + i] = b[i]
  <2>1. TAKE i \in 1..Len(b)
  <2>2. /\ Len(a) + i \in 1..(Len(a) + Len(b))
        /\ (Len(a) + i) - Len(a) = i
        /\ ~(Len(a) + i <= Len(a))
    BY <1>1
  <2>3. QED  BY <2>2, ConcatProperties
<1>3. QED  BY <1>1, <1>2, ConcatProperties

LEMMA SeqJoin ==
  ASSUME NEW S, NEW b \in Seq(S), NEW a \in Seq(S)
  PROVE  /\ SubSeq(b \o a, 1, Len(b)) = b
         /\ SubSeq(b \o a, Len(b) + 1, Len(b \o a)) = a
<1>1. SubSeq(b \o a, 1, Len(b)) = b  OBVIOUS
<1>2. SubSeq(b \o a, Len(b) + 1, Len(b \o a)) = a  OBVIOUS
<1>3. QED  BY <1>1, <1>2

(* The first m - 1 elements of d, x, and the elements of e from the second on. *)
LEMMA SeqSplice ==
  ASSUME NEW S, NEW d \in Seq(S), NEW e \in Seq(S), NEW x \in S,
         NEW m \in Nat, Len(d) = m, m >= 1,
         NEW n \in Nat, Len(e) = n, n >= 1,
         NEW r, r = SubSeq(d, 1, Len(d) - 1) \o << x >> \o SubSeq(e, 2, Len(e))
  PROVE  /\ r \in Seq(S)
         /\ Len(r) = m + n - 1
         /\ \A i \in 1..(m - 1) : r[i] = d[i]
         /\ r[m] = x
         /\ \A i \in 2..n : r[m + i - 1] = e[i]
<1> DEFINE f  == SubSeq(d, 1, Len(d) - 1)
           b  == SubSeq(e, 2, Len(e))
           j  == << x >>
           fj == f \o j
<1>1. f \in Seq(S) /\ Len(f) = m - 1 /\ \A i \in 1..(m - 1) : f[i] = d[i]
  <2>1. m - 1 \in 0..Len(d)  OBVIOUS
  <2>2. f = SubSeq(d, 1, m - 1)  OBVIOUS
  <2> HIDE DEF f
  <2>3. QED  BY <2>1, <2>2, SeqFront
<1>2. b \in Seq(S) /\ Len(b) = n - 1 /\ \A i \in 2..n : b[i - 1] = e[i]
  <2>1. 2 \in 1..(Len(e) + 1)  OBVIOUS
  <2>2. /\ b \in Seq(S) /\ Len(b) = Len(e) - 2 + 1
        /\ \A i \in 2..Len(e) : b[i - 2 + 1] = e[i]
    BY <2>1, SeqBack
  <2> HIDE DEF b
  <2>3. QED  BY <2>2
<1>3. j \in Seq(S) /\ Len(j) = 1 /\ j[1] = x  OBVIOUS
<1> HIDE DEF f, b, j
<1>4. /\ fj \in Seq(S) /\ Len(fj) = Len(f) + Len(j)
      /\ \A i \in 1..Len(f) : fj[i] = f[i]
      /\ \A i \in 1..Len(j) : fj[Len(f) + i] = j[i]
  <2>1. f \in Seq(S) /\ j \in Seq(S)  BY <1>1, <1>3
  <2>2. QED  BY <2>1, SeqCat
<1> HIDE DEF fj
<1>5. Len(fj) = m /\ (\A i \in 1..(m - 1) : fj[i] = d[i]) /\ fj[m] = x
  BY <1>1, <1>3, <1>4
<1>6. r = fj \o b  BY DEF fj, f, j, b
<1>7. /\ r \in Seq(S) /\ Len(r) = Len(fj) + Len(b)
      /\ \A i \in 1..Len(fj) : r[i] = fj[i]
      /\ \A i \in 1..Len(b) : r[Len(fj) + i] = b[i]
  <2>1. fj \in Seq(S) /\ b \in Seq(S)  BY <1>2, <1>4
  <2>2. /\ fj \o b \in Seq(S) /\ Len(fj \o b) = Len(fj) + Len(b)
        /\ \A i \in 1..Len(fj) : (fj \o b)[i] = fj[i]
        /\ \A i \in 1..Len(b) : (fj \o b)[Len(fj) + i] = b[i]
    BY <2>1, SeqCat
  <2>3. QED  BY <1>6, <2>2
<1>8. Len(r) = m + n - 1  BY <1>2, <1>5, <1>7
<1>9. (\A i \in 1..(m - 1) : r[i] = d[i]) /\ r[m] = x  BY <1>5, <1>7
<1>10. \A i \in 2..n : r[m + i - 1] = e[i]
  <2>1. TAKE i \in 2..n
  <2>2. i - 1 \in 1..Len(b) /\ m + i - 1 = m + (i - 1)  BY <1>2
  <2>3. r[m + (i - 1)] = b[i - 1]  BY <2>2, <1>5, <1>7
  <2>4. QED  BY <2>2, <2>3, <1>2
<1>11. QED  BY <1>7, <1>8, <1>9, <1>10

-----------------------------------------------------------------------------
(* Concatenation *)

(* A text, element by element. *)
LEMMA TextElements ==
  ASSUME NEW t \in Text
  PROVE  /\ t \in Seq(Row)
         /\ Len(t) \in Nat /\ Len(t) >= 1
         /\ \A i \in 1..Len(t) : t[i] \in Row /\ Len(t[i]) \in Nat
<1>1. t \in Seq(Row) /\ t # <<>>  BY DEF Text
<1>2. Len(t) \in Nat /\ Len(t) >= 1  BY <1>1, EmptySeq
<1>3. QED  BY <1>1, <1>2 DEF Row

LEMMA TextFromSeq ==
  ASSUME NEW t \in Seq(Row), Len(t) >= 1
  PROVE  t \in Text
BY DEF Text

(* Two texts of the same rows are the same. *)
LEMMA TextEqual ==
  ASSUME NEW t \in Text, NEW u \in Text, Len(t) = Len(u),
         \A i \in 1..Len(t) : t[i] = u[i]
  PROVE  t = u
BY SeqEqual, TextElements

(* The rows of a concatenation. *)
ConcatFacts(d, e) ==
  /\ Concat(d, e) \in Text
  /\ Len(Concat(d, e)) = Len(d) + Len(e) - 1
  /\ \A i \in 1..(Len(d) - 1) : Concat(d, e)[i] = d[i]
  /\ Concat(d, e)[Len(d)] = d[Len(d)] \o e[1]
  /\ \A i \in 2..Len(e) : Concat(d, e)[Len(d) + i - 1] = e[i]

LEMMA ConcatElements ==
  ASSUME NEW d \in Text, NEW e \in Text
  PROVE  ConcatFacts(d, e)
<1>0. PICK m \in Nat, n \in Nat : m = Len(d) /\ n = Len(e)  BY TextElements
<1>1. /\ d \in Seq(Row) /\ e \in Seq(Row) /\ m >= 1 /\ n >= 1
      /\ d[m] \in Row /\ e[1] \in Row
  BY <1>0, TextElements
<1>2. d[m] \o e[1] \in Row  BY <1>1 DEF Row
<1>3. Concat(d, e) = SubSeq(d, 1, Len(d) - 1) \o << d[m] \o e[1] >> \o SubSeq(e, 2, Len(e))
  BY <1>0 DEF Concat
<1> DEFINE c == Concat(d, e)
           x == d[m] \o e[1]
<1> HIDE DEF c, x
<1>4. /\ c \in Seq(Row) /\ Len(c) = m + n - 1
      /\ \A i \in 1..(m - 1) : c[i] = d[i]
      /\ c[m] = x
      /\ \A i \in 2..n : c[m + i - 1] = e[i]
  <2>1. x \in Row /\ c = SubSeq(d, 1, Len(d) - 1) \o << x >> \o SubSeq(e, 2, Len(e))
    BY <1>2, <1>3 DEF c, x
  <2>2. Len(d) = m /\ Len(e) = n  BY <1>0
  <2>3. QED  BY <1>1, <2>1, <2>2, SeqSplice
<1>5. c \in Text  BY <1>1, <1>4, TextFromSeq
<1>6. QED  BY <1>0, <1>4, <1>5 DEF ConcatFacts, c, x

(* Concatenation of texts is associative, EmptyText is neutral. *)
LEMMA RowAssoc ==
  ASSUME NEW x \in Row, NEW y \in Row, NEW z \in Row
  PROVE  (x \o y) \o z = x \o (y \o z)
BY ConcatAssociative DEF Row

LEMMA RowsAssoc ==
  ASSUME NEW x \in Seq(Row), NEW y \in Seq(Row), NEW z \in Seq(Row)
  PROVE  (x \o y) \o z = x \o (y \o z)
BY ConcatAssociative

LEMMA ConcatAssoc ==
  ASSUME NEW d \in Text, NEW e \in Text, NEW f \in Text
  PROVE  Concat(Concat(d, e), f) = Concat(d, Concat(e, f))
<1> DEFINE de == Concat(d, e)
           ef == Concat(e, f)
           lhs == Concat(de, f)
           rhs == Concat(d, ef)
<1>1. PICK m \in Nat : Len(d) = m /\ m >= 1 /\ \A i \in 1..m : d[i] \in Row  BY TextElements
<1>2. PICK n \in Nat : Len(e) = n /\ n >= 1 /\ \A i \in 1..n : e[i] \in Row  BY TextElements
<1>3. PICK k \in Nat : Len(f) = k /\ k >= 1 /\ \A i \in 1..k : f[i] \in Row  BY TextElements
<1>4. /\ de \in Text /\ Len(de) = m + n - 1
      /\ \A i \in 1..(m - 1) : de[i] = d[i]
      /\ de[m] = d[m] \o e[1]
      /\ \A i \in 2..n : de[m + i - 1] = e[i]
  <2>1. ConcatFacts(d, e)  BY ConcatElements
  <2> HIDE DEF de
  <2>2. QED  BY <2>1, <1>1, <1>2 DEF ConcatFacts, de
<1>5. /\ ef \in Text /\ Len(ef) = n + k - 1
      /\ \A i \in 1..(n - 1) : ef[i] = e[i]
      /\ ef[n] = e[n] \o f[1]
      /\ \A i \in 2..k : ef[n + i - 1] = f[i]
  <2>1. ConcatFacts(e, f)  BY ConcatElements
  <2> HIDE DEF ef
  <2>2. QED  BY <2>1, <1>2, <1>3 DEF ConcatFacts, ef
<1>6. m + n - 1 \in Nat /\ n + k - 1 \in Nat  BY <1>1, <1>2, <1>3
<1> HIDE DEF de, ef
<1>7. /\ lhs \in Text /\ Len(lhs) = m + n - 1 + k - 1
      /\ \A i \in 1..(m + n - 1 - 1) : lhs[i] = de[i]
      /\ lhs[m + n - 1] = de[m + n - 1] \o f[1]
      /\ \A i \in 2..k : lhs[m + n - 1 + i - 1] = f[i]
  <2>1. ConcatFacts(de, f)  BY <1>4, ConcatElements
  <2>2. QED  BY <2>1, <1>3, <1>4 DEF ConcatFacts
<1>8. /\ rhs \in Text /\ Len(rhs) = m + (n + k - 1) - 1
      /\ \A i \in 1..(m - 1) : rhs[i] = d[i]
      /\ rhs[m] = d[m] \o ef[1]
      /\ \A i \in 2..(n + k - 1) : rhs[m + i - 1] = ef[i]
  <2>1. ConcatFacts(d, ef)  BY <1>5, ConcatElements
  <2>2. QED  BY <2>1, <1>1, <1>5 DEF ConcatFacts
<1> HIDE DEF lhs, rhs
<1>9. \A i \in 1..(m + n + k - 2) : lhs[i] = rhs[i]
  <2>1. SUFFICES ASSUME NEW i \in 1..(m + n + k - 2)
                 PROVE  lhs[i] = rhs[i]
    OBVIOUS
  <2>2. CASE i < m
    <3>1. i \in 1..(m - 1) /\ i \in 1..(m + n - 1 - 1)  BY <1>1, <1>2, <1>3, <2>2
    <3>2. QED  BY <3>1, <1>4, <1>7, <1>8
  <2>3. CASE i = m
    <3>1. CASE n = 1
      <4>1. lhs[m] = (d[m] \o e[1]) \o f[1]
        <5>1. m + n - 1 = m  BY <3>1
        <5>2. QED  BY <5>1, <1>4, <1>7
      <4>2. rhs[m] = d[m] \o (e[1] \o f[1])  BY <3>1, <1>5, <1>8
      <4>3. d[m] \in Row /\ e[1] \in Row /\ f[1] \in Row  BY <1>1, <1>2, <1>3
      <4>4. (d[m] \o e[1]) \o f[1] = d[m] \o (e[1] \o f[1])  BY <4>3, RowAssoc
      <4>5. QED  BY <2>3, <4>1, <4>2, <4>4
    <3>2. CASE n > 1
      <4>1. m \in 1..(m + n - 1 - 1) /\ 1 \in 1..(n - 1)  BY <3>2, <1>1
      <4>2. QED  BY <2>3, <4>1, <1>4, <1>5, <1>7, <1>8
    <3>3. QED  BY <3>1, <3>2, <1>2
  <2>4. CASE m < i /\ i < m + n - 1
    <3>1. PICK j \in 2..(n - 1) : i = m + j - 1
      <4>1. i - m + 1 \in 2..(n - 1) /\ i = m + (i - m + 1) - 1  BY <2>4, <1>1, <1>2
      <4>2. QED  BY <4>1
    <3>2. i \in 1..(m + n - 1 - 1) /\ j \in 2..n /\ j \in 2..(n + k - 1) /\ j \in 1..(n - 1)
      BY <2>4, <1>1, <1>2, <1>3
    <3>3. lhs[i] = e[j]  BY <3>1, <3>2, <1>4, <1>7
    <3>4. rhs[i] = e[j]  BY <3>1, <3>2, <1>5, <1>8
    <3>5. QED  BY <3>3, <3>4
  <2>5. CASE m < i /\ i = m + n - 1
    <3>1. n \in 2..n /\ n \in 2..(n + k - 1)  BY <2>5, <1>1, <1>2, <1>3
    <3>2. lhs[i] = e[n] \o f[1]  BY <3>1, <2>5, <1>4, <1>7
    <3>3. rhs[i] = e[n] \o f[1]  BY <3>1, <2>5, <1>5, <1>8
    <3>4. QED  BY <3>2, <3>3
  <2>6. CASE i > m + n - 1
    <3>1. PICK j \in 2..k : i = m + n - 1 + j - 1
      <4>1. i - m - n + 2 \in 2..k /\ i = m + n - 1 + (i - m - n + 2) - 1
        BY <2>6, <1>1, <1>2, <1>3
      <4>2. QED  BY <4>1
    <3>2. PICK l \in 2..(n + k - 1) : l = n + j - 1 /\ i = m + l - 1
      <4>1. n + j - 1 \in 2..(n + k - 1) /\ i = m + (n + j - 1) - 1  BY <3>1, <1>1, <1>2, <1>3
      <4>2. QED  BY <4>1
    <3>3. lhs[i] = f[j]  BY <3>1, <1>7
    <3>4. rhs[i] = ef[l]  BY <3>2, <1>8
    <3>5. ef[l] = f[j]  BY <3>2, <1>5
    <3>6. QED  BY <3>3, <3>4, <3>5
  <2>7. QED  BY <2>2, <2>3, <2>4, <2>5, <2>6, <1>1, <1>2, <1>3
<1>10. lhs = rhs
  <2>1. Len(lhs) = m + n + k - 2 /\ Len(rhs) = m + n + k - 2  BY <1>1, <1>2, <1>3, <1>7, <1>8
  <2>2. QED  BY <2>1, <1>7, <1>8, <1>9, TextEqual
<1>11. QED  BY <1>10 DEF lhs, rhs, de, ef

LEMMA ConcatEmpty ==
  ASSUME NEW d \in Text
  PROVE  /\ Concat(EmptyText, d) = d
         /\ Concat(d, EmptyText) = d
         /\ EmptyText \in Text
<1>1. PICK m \in Nat : Len(d) = m /\ m >= 1 /\ \A i \in 1..m : d[i] \in Row  BY TextElements
<1>2. EmptyText \in Text /\ Len(EmptyText) = 1 /\ EmptyText[1] = <<>>
  BY DEF EmptyText, Text, Row
<1> DEFINE z == EmptyText
<1> HIDE DEF z
<1>3. 1 \in Nat /\ z \in Text /\ Len(z) = 1 /\ z[1] = <<>>  BY <1>2 DEF z
<1>4. /\ Concat(z, d) \in Text /\ Len(Concat(z, d)) = 1 + m - 1
      /\ Concat(z, d)[1] = z[1] \o d[1]
      /\ \A i \in 2..m : Concat(z, d)[1 + i - 1] = d[i]
  <2>1. ConcatFacts(z, d)  BY <1>3, ConcatElements
  <2>2. QED  BY <2>1, <1>1, <1>3 DEF ConcatFacts
<1>5. /\ Concat(d, z) \in Text /\ Len(Concat(d, z)) = m + 1 - 1
      /\ \A i \in 1..(m - 1) : Concat(d, z)[i] = d[i]
      /\ Concat(d, z)[m] = d[m] \o z[1]
  <2>1. ConcatFacts(d, z)  BY <1>3, ConcatElements
  <2>2. QED  BY <2>1, <1>1, <1>3 DEF ConcatFacts
<1>6. z[1] \o d[1] = d[1] /\ d[m] \o z[1] = d[m]
  <2>1. d[1] \in Seq(Byte) /\ d[m] \in Seq(Byte)  BY <1>1 DEF Row
  <2>2. QED  BY <2>1, <1>3, ConcatEmptySeq
<1>7. \A i \in 1..m : Concat(z, d)[i] = d[i]
  <2>1. TAKE i \in 1..m
  <2>2. CASE i = 1  BY <2>2, <1>4, <1>6
  <2>3. CASE i # 1
    <3>1. i \in 2..m /\ 1 + i - 1 = i  BY <2>3
    <3>2. QED  BY <3>1, <1>4
  <2>4. QED  BY <2>2, <2>3
<1>8. \A i \in 1..m : Concat(d, z)[i] = d[i]  BY <1>1, <1>5, <1>6
<1>9. Concat(z, d) = d /\ Concat(d, z) = d
  BY <1>1, <1>4, <1>5, <1>7, <1>8, TextEqual
<1>10. QED  BY <1>2, <1>9 DEF z

-----------------------------------------------------------------------------
(* Cutting a text at a position *)

LEMMA RowCut ==
  ASSUME NEW r \in Row, NEW x \in 0..Len(r)
  PROVE  /\ SubSeq(r, 1, x) \in Row /\ Len(SubSeq(r, 1, x)) = x
         /\ SubSeq(r, x + 1, Len(r)) \in Row
         /\ SubSeq(r, 1, x) \o SubSeq(r, x + 1, Len(r)) = r
<1>1. r \in Seq(Byte) /\ Len(r) \in Nat  BY DEF Row
<1>2. SubSeq(r, 1, x) \in Row /\ Len(SubSeq(r, 1, x)) = x  BY <1>1, SeqFront DEF Row
<1>3. SubSeq(r, x + 1, Len(r)) \in Row
  <2>1. x + 1 \in 1..(Len(r) + 1)  BY <1>1
  <2>2. QED  BY <1>1, <2>1, SeqBack DEF Row
<1>4. SubSeq(r, 1, x) \o SubSeq(r, x + 1, Len(r)) = r
  <2>1. SubSeq(r, 1, x) \o SubSeq(r, x + 1, Len(r)) = SubSeq(r, 1, Len(r))
    <3>1. 1 \in 1..(Len(r) + 1) /\ x \in (1 - 1)..Len(r) /\ Len(r) \in x..Len(r)  BY <1>1
    <3>2. QED  BY <1>1, <3>1, ConcatAdjacentSubSeq
  <2>2. SubSeq(r, 1, Len(r)) = r  BY <1>1, SubSeqFull
  <2>3. QED  BY <2>1, <2>2
<1>5. QED  BY <1>2, <1>3, <1>4

LEMMA RowJoin ==
  ASSUME NEW b \in Row, NEW a \in Row
  PROVE  /\ SubSeq(b \o a, 1, Len(b)) = b
         /\ SubSeq(b \o a, Len(b) + 1, Len(b \o a)) = a
         /\ b \o a \in Row /\ Len(b \o a) = Len(b) + Len(a)
         /\ Len(b) <= Len(b \o a)
<1>1. b \in Seq(Byte) /\ a \in Seq(Byte)  BY DEF Row
<1>2. /\ b \o a \in Row /\ Len(b \o a) = Len(b) + Len(a)
      /\ Len(b) <= Len(b \o a)
  BY <1>1, SeqCat DEF Row
<1>3. QED  BY <1>1, <1>2, SeqJoin

(* The rows of the two parts. *)
CutFacts(t, p) ==
  /\ Before(t, p) \in Text /\ Len(Before(t, p)) = p.y + 1
  /\ \A i \in 1..p.y : Before(t, p)[i] = t[i]
  /\ Before(t, p)[p.y + 1] = SubSeq(t[p.y + 1], 1, p.x)
  /\ After(t, p) \in Text /\ Len(After(t, p)) = Len(t) - p.y
  /\ After(t, p)[1] = SubSeq(t[p.y + 1], p.x + 1, Len(t[p.y + 1]))
  /\ \A i \in 2..(Len(t) - p.y) : After(t, p)[i] = t[p.y + i]

LEMMA CutElements ==
  ASSUME NEW t \in Text, NEW p \in Position, InText(t, p)
  PROVE  CutFacts(t, p)
<1>1. /\ t \in Seq(Row) /\ Len(t) \in Nat
      /\ p.y \in 0..Len(t) /\ p.y < Len(t) /\ p.y + 1 \in 1..Len(t)
      /\ t[p.y + 1] \in Row /\ p.x \in 0..Len(t[p.y + 1])
  BY TextElements DEF Position, InText, NumRows, Size
<1> DEFINE front == SubSeq(t, 1, p.y)
           head  == SubSeq(t[p.y + 1], 1, p.x)
           tail  == SubSeq(t[p.y + 1], p.x + 1, Len(t[p.y + 1]))
           back  == SubSeq(t, p.y + 2, Len(t))
<1>2. head \in Row /\ tail \in Row  BY <1>1, RowCut
<1>3. front \in Seq(Row) /\ Len(front) = p.y /\ \A i \in 1..p.y : front[i] = t[i]
  BY <1>1, SeqFront
<1>4. /\ back \in Seq(Row) /\ Len(back) = Len(t) - (p.y + 2) + 1
      /\ \A i \in (p.y + 2)..Len(t) : back[i - (p.y + 2) + 1] = t[i]
  <2>1. p.y + 2 \in 1..(Len(t) + 1)  BY <1>1
  <2>2. QED  BY <1>1, <2>1, SeqBack
<1>5. Before(t, p) = front \o << head >> /\ After(t, p) = << tail >> \o back
  BY DEF Before, After, Head0, Tail0, RowAt, Size, NumRows
<1> HIDE DEF front, head, tail, back
<1>6. /\ << head >> \in Seq(Row) /\ Len(<< head >>) = 1 /\ << head >>[1] = head
      /\ << tail >> \in Seq(Row) /\ Len(<< tail >>) = 1 /\ << tail >>[1] = tail
  BY <1>2
<1> DEFINE h == << head >>
           l == << tail >>
<1>7. /\ h \in Seq(Row) /\ Len(h) = 1 /\ h[1] = head
      /\ l \in Seq(Row) /\ Len(l) = 1 /\ l[1] = tail
  BY <1>6
<1>8. Before(t, p) = front \o h /\ After(t, p) = l \o back  BY <1>5
<1> HIDE DEF h, l
<1>9. /\ front \o h \in Seq(Row) /\ Len(front \o h) = Len(front) + Len(h)
      /\ \A i \in 1..Len(front) : (front \o h)[i] = front[i]
      /\ \A i \in 1..Len(h) : (front \o h)[Len(front) + i] = h[i]
  <2>1. front \in Seq(Row) /\ h \in Seq(Row)  BY <1>3, <1>7
  <2>2. QED  BY <2>1, SeqCat
<1>10. /\ l \o back \in Seq(Row) /\ Len(l \o back) = Len(l) + Len(back)
       /\ \A i \in 1..Len(l) : (l \o back)[i] = l[i]
       /\ \A i \in 1..Len(back) : (l \o back)[Len(l) + i] = back[i]
  <2>1. l \in Seq(Row) /\ back \in Seq(Row)  BY <1>4, <1>7
  <2>2. QED  BY <2>1, SeqCat
<1> DEFINE b == Before(t, p)
           a == After(t, p)
<1> HIDE DEF b, a
<1>11. /\ b \in Seq(Row) /\ Len(b) = p.y + 1
       /\ \A i \in 1..p.y : b[i] = t[i]
       /\ b[p.y + 1] = head
  BY <1>1, <1>3, <1>7, <1>8, <1>9 DEF b
<1>12. a \in Seq(Row) /\ Len(a) = Len(t) - p.y /\ a[1] = tail
  <2>1. a = l \o back  BY <1>8 DEF a
  <2>2. a \in Seq(Row) /\ Len(a) = Len(t) - p.y  BY <2>1, <1>1, <1>4, <1>7, <1>10
  <2>3. 1 \in 1..Len(l)  BY <1>7
  <2>4. a[1] = tail  BY <2>1, <2>3, <1>7, <1>10
  <2>5. QED  BY <2>2, <2>4
<1>13. \A i \in 2..(Len(t) - p.y) : a[i] = t[p.y + i]
  <2>1. TAKE i \in 2..(Len(t) - p.y)
  <2>2. i - 1 \in 1..Len(back) /\ 1 + (i - 1) = i  BY <1>1, <1>4
  <2>3. a[i] = back[i - 1]  BY <2>2, <1>7, <1>8, <1>10 DEF a
  <2>4. p.y + i \in (p.y + 2)..Len(t) /\ (p.y + i) - (p.y + 2) + 1 = i - 1  BY <1>1
  <2>5. back[i - 1] = t[p.y + i]  BY <2>4, <1>4
  <2>6. QED  BY <2>3, <2>5
<1>14. b \in Text /\ a \in Text  BY <1>1, <1>11, <1>12, TextFromSeq
<1>15. QED  BY <1>11, <1>12, <1>13, <1>14 DEF CutFacts, b, a, head, tail

(* Every position cuts its text in two texts that make it up again, the     *)
(* first of which ends there.                                               *)
LEMMA Cut ==
  ASSUME NEW t \in Text, NEW p \in Position, InText(t, p)
  PROVE  Concat(Before(t, p), After(t, p)) = t /\ EndOf(Before(t, p)) = p
<1> DEFINE b == Before(t, p)
           a == After(t, p)
<1>1. CutFacts(t, p)  BY CutElements
<1> HIDE DEF b, a
<1>2. PICK n \in Nat : /\ n = Len(t) /\ n >= 1 /\ p.y \in 0..(n - 1)
                       /\ t[p.y + 1] \in Row /\ p.x \in 0..Len(t[p.y + 1])
                       /\ p = At(p.x, p.y)
  BY TextElements DEF Position, InText, NumRows, Size, At
<1>3. /\ b \in Text /\ Len(b) = p.y + 1 /\ a \in Text /\ Len(a) = n - p.y
      /\ \A i \in 1..p.y : b[i] = t[i]
      /\ b[p.y + 1] = SubSeq(t[p.y + 1], 1, p.x)
      /\ a[1] = SubSeq(t[p.y + 1], p.x + 1, Len(t[p.y + 1]))
      /\ \A i \in 2..(n - p.y) : a[i] = t[p.y + i]
  BY <1>1, <1>2 DEF CutFacts, b, a
<1>4. ConcatFacts(b, a)  BY <1>3, ConcatElements
<1> DEFINE c == Concat(b, a)
<1>5. /\ c \in Text /\ Len(c) = n
      /\ \A i \in 1..p.y : c[i] = b[i]
      /\ c[p.y + 1] = b[p.y + 1] \o a[1]
      /\ \A i \in 2..(n - p.y) : c[p.y + i] = a[i]
  <2> HIDE DEF c
  <2>1. /\ c \in Text /\ Len(c) = Len(b) + Len(a) - 1
        /\ \A i \in 1..(Len(b) - 1) : c[i] = b[i]
        /\ c[Len(b)] = b[Len(b)] \o a[1]
        /\ \A i \in 2..Len(a) : c[Len(b) + i - 1] = a[i]
    BY <1>4 DEF ConcatFacts, c
  <2>2. p.y + 1 - 1 = p.y /\ p.y + 1 + (n - p.y) - 1 = n  BY <1>2
  <2>3. Len(c) = n  BY <2>1, <2>2, <1>3
  <2>4. \A i \in 1..p.y : c[i] = b[i]
    <3>1. Len(b) = p.y + 1  BY <1>3
    <3>2. Len(b) - 1 = p.y  BY <3>1, <1>2
    <3>3. \A i \in 1..(Len(b) - 1) : c[i] = b[i]  BY <2>1
    <3>4. QED  BY <3>2, <3>3
  <2>5. c[p.y + 1] = b[p.y + 1] \o a[1]  BY <2>1, <1>3
  <2>6. \A i \in 2..(n - p.y) : c[p.y + i] = a[i]
    <3>1. TAKE i \in 2..(n - p.y)
    <3>2. c[p.y + 1 + i - 1] = a[i]  BY <2>1, <1>3
    <3>3. p.y + 1 + i - 1 = p.y + i  BY <1>2
    <3>4. QED  BY <3>2, <3>3
  <2>7. QED  BY <2>1, <2>3, <2>4, <2>5, <2>6
<1> HIDE DEF c
<1>6. c[p.y + 1] = t[p.y + 1]  BY <1>2, <1>3, <1>5, RowCut
<1>7. \A i \in 1..n : c[i] = t[i]
  <2>1. SUFFICES ASSUME NEW i \in 1..n  PROVE c[i] = t[i]  OBVIOUS
  <2>2. CASE i <= p.y  BY <2>2, <1>2, <1>3, <1>5
  <2>3. CASE i = p.y + 1  BY <2>3, <1>6
  <2>4. CASE i > p.y + 1
    <3>1. PICK j \in 2..(n - p.y) : i = p.y + j
      <4>1. i - p.y \in 2..(n - p.y) /\ i = p.y + (i - p.y)  BY <2>4, <1>2
      <4>2. QED  BY <4>1
    <3>2. QED  BY <3>1, <1>3, <1>5
  <2>5. QED  BY <2>2, <2>3, <2>4, <1>2
<1>8. c = t  BY <1>2, <1>5, <1>7, TextEqual
<1>9. EndOf(b) = p
  <2>1. Len(b[p.y + 1]) = p.x  BY <1>2, <1>3, RowCut
  <2>2. p.y + 1 - 1 = p.y  BY <1>2
  <2>3. EndOf(b) = At(Len(b[p.y + 1]), p.y)
    <3>0. NumRows(b) = p.y + 1  BY <1>3 DEF NumRows
    <3>1. NumRows(b) - 1 = p.y  BY <3>0, <1>2
    <3>2. EndOf(b) = At(Size(b, p.y), p.y)  BY <3>1 DEF EndOf
    <3>3. QED  BY <3>2 DEF Size
  <2>4. QED  BY <2>1, <2>3, <1>2
<1>10. QED  BY <1>8, <1>9 DEF c, b, a

(* A text that ends at p, put before another, is what p cuts off again. *)
LEMMA CutConcat ==
  ASSUME NEW b \in Text, NEW a \in Text, NEW p, p = EndOf(b)
  PROVE  /\ p \in Position /\ InText(Concat(b, a), p)
         /\ Before(Concat(b, a), p) = b
         /\ After(Concat(b, a), p) = a
<1> DEFINE t == Concat(b, a)
<1>1. PICK m \in Nat : /\ m = Len(b) /\ m >= 1 /\ \A i \in 1..m : b[i] \in Row /\ Len(b[i]) \in Nat
  BY TextElements
<1>2. PICK n \in Nat : /\ n = Len(a) /\ n >= 1 /\ \A i \in 1..n : a[i] \in Row /\ Len(a[i]) \in Nat
  BY TextElements
<1>3. p.x = Len(b[m]) /\ p.y = m - 1 /\ p = At(p.x, p.y)
  BY <1>1 DEF EndOf, At, NumRows, Size
<1> HIDE DEF t
<1>4. ConcatFacts(b, a)  BY ConcatElements
<1>5. /\ t \in Text /\ Len(t) = m + n - 1
      /\ \A i \in 1..(m - 1) : t[i] = b[i]
      /\ t[m] = b[m] \o a[1]
      /\ \A i \in 2..n : t[m + i - 1] = a[i]
  BY <1>1, <1>2, <1>4 DEF ConcatFacts, t
<1>6. /\ t[m] \in Row /\ Len(b[m]) <= Len(t[m])
      /\ SubSeq(t[m], 1, p.x) = b[m]
      /\ SubSeq(t[m], p.x + 1, Len(t[m])) = a[1]
  <2>1. b[m] \in Row /\ a[1] \in Row  BY <1>1, <1>2
  <2>2. /\ SubSeq(b[m] \o a[1], 1, Len(b[m])) = b[m]
        /\ SubSeq(b[m] \o a[1], Len(b[m]) + 1, Len(b[m] \o a[1])) = a[1]
        /\ b[m] \o a[1] \in Row /\ Len(b[m]) <= Len(b[m] \o a[1])
    BY <2>1, RowJoin
  <2>3. QED  BY <2>2, <1>3, <1>5
<1>7. p \in Position  BY <1>1, <1>3 DEF Position, At
<1>8. InText(t, p)
  <2>1. p.y + 1 = m /\ p.y < Len(t)  BY <1>1, <1>2, <1>3, <1>5
  <2>2. p.x <= Len(t[m])  BY <1>3, <1>6
  <2>3. QED  BY <2>1, <2>2 DEF InText, NumRows, Size
<1>9. CutFacts(t, p)  BY <1>5, <1>7, <1>8, CutElements
<1>10. p.y + 1 = m /\ Len(t) - p.y = n  BY <1>1, <1>2, <1>3, <1>5
<1> DEFINE bb == Before(t, p)
           aa == After(t, p)
<1> HIDE DEF bb, aa
<1>11. /\ bb \in Text /\ Len(bb) = m /\ (\A i \in 1..(m - 1) : bb[i] = t[i])
       /\ bb[m] = SubSeq(t[m], 1, p.x)
       /\ aa \in Text /\ Len(aa) = n
       /\ aa[1] = SubSeq(t[m], p.x + 1, Len(t[m]))
       /\ \A i \in 2..n : aa[i] = t[p.y + i]
  BY <1>3, <1>9, <1>10 DEF CutFacts, bb, aa
<1>12. bb = b
  <2>1. \A i \in 1..m : bb[i] = b[i]
    <3>1. SUFFICES ASSUME NEW i \in 1..m  PROVE bb[i] = b[i]  OBVIOUS
    <3>2. CASE i = m  BY <3>2, <1>6, <1>11
    <3>3. CASE i # m
      <4>1. i \in 1..(m - 1)  BY <3>3, <1>1
      <4>2. QED  BY <4>1, <1>5, <1>11
    <3>4. QED  BY <3>2, <3>3
  <2>2. QED  BY <2>1, <1>1, <1>11, TextEqual
<1>13. aa = a
  <2>1. \A i \in 1..n : aa[i] = a[i]
    <3>1. SUFFICES ASSUME NEW i \in 1..n  PROVE aa[i] = a[i]  OBVIOUS
    <3>2. CASE i = 1  BY <3>2, <1>6, <1>11
    <3>3. CASE i # 1
      <4>1. i \in 2..n /\ p.y + i = m + i - 1  BY <3>3, <1>2, <1>3
      <4>2. QED  BY <4>1, <1>5, <1>11
    <3>4. QED  BY <3>2, <3>3
  <2>2. QED  BY <2>1, <1>2, <1>11, TextEqual
<1>14. QED  BY <1>7, <1>8, <1>12, <1>13 DEF t, bb, aa

-----------------------------------------------------------------------------
(* The two edits as concatenations *)

(* Rows put before the first text, or after the second, stay there. *)
LEMMA ConcatPrefix ==
  ASSUME NEW f \in Seq(Row), NEW d \in Text, NEW e \in Text
  PROVE  Concat(f \o d, e) = f \o Concat(d, e) /\ f \o d \in Text
<1>1. /\ d \in Seq(Row) /\ e \in Seq(Row) /\ Len(d) \in Nat /\ Len(d) >= 1
      /\ Len(e) \in Nat /\ Len(e) >= 1 /\ d[Len(d)] \in Row /\ e[1] \in Row
      /\ Len(f) \in Nat
  BY TextElements
<1> DEFINE fd   == f \o d
           init == SubSeq(d, 1, Len(d) - 1)
           mid  == << d[Len(d)] \o e[1] >>
           rest == SubSeq(e, 2, Len(e))
<1>2. /\ fd \in Seq(Row) /\ Len(fd) = Len(f) + Len(d)
      /\ \A i \in 1..Len(d) : fd[Len(f) + i] = d[i]
  BY <1>1, SeqCat
<1>3. fd[Len(fd)] = d[Len(d)]
  <2>1. Len(d) \in 1..Len(d)  BY <1>1
  <2> HIDE DEF fd
  <2>2. QED  BY <2>1, <1>2
<1>4. SubSeq(fd, 1, Len(f) + Len(d) - 1) = f \o init
  <2>1. Len(f) + Len(d) - 1 \in Len(f)..(Len(f) + Len(d))  BY <1>1
  <2>2. SubSeq(fd, 1, Len(f) + Len(d) - 1) = f \o SubSeq(d, 1, Len(f) + Len(d) - 1 - Len(f))
    BY <2>1, <1>1, SubSeqOfConcat2
  <2>3. Len(f) + Len(d) - 1 - Len(f) = Len(d) - 1  BY <1>1
  <2>4. QED  BY <2>2, <2>3
<1>5. init \in Seq(Row) /\ mid \in Seq(Row) /\ rest \in Seq(Row)
  <2>1. Len(d) - 1 \in 0..Len(d)  BY <1>1
  <2>2. init \in Seq(Row)  BY <1>1, <2>1, SeqFront
  <2>3. 2 \in 1..(Len(e) + 1)  BY <1>1
  <2>4. rest \in Seq(Row)  BY <1>1, <2>3, SeqBack
  <2>5. d[Len(d)] \o e[1] \in Row  BY <1>1, RowJoin
  <2>6. QED  BY <2>2, <2>4, <2>5
<1>6. Concat(fd, e) = (f \o init) \o mid \o rest
  <2> HIDE DEF fd, init, rest
  <2>1. SubSeq(fd, 1, Len(fd) - 1) = f \o init  BY <1>2, <1>4
  <2>2. QED  BY <2>1, <1>3 DEF Concat, rest
<1>7. Concat(d, e) = init \o mid \o rest  BY DEF Concat
<1> HIDE DEF init, mid, rest
<1>8. ((f \o init) \o mid) \o rest = f \o ((init \o mid) \o rest)
  <2> DEFINE im == init \o mid
  <2>1. (f \o init) \o mid = f \o im  BY <1>5, RowsAssoc
  <2>2. im \in Seq(Row)  BY <1>5, SeqCat
  <2> HIDE DEF im
  <2>3. (f \o im) \o rest = f \o (im \o rest)  BY <1>5, <2>2, RowsAssoc
  <2>4. QED  BY <2>1, <2>3 DEF im
<1>9. fd \in Text
  <2> HIDE DEF fd
  <2>1. Len(fd) >= 1  BY <1>1, <1>2
  <2>2. QED  BY <2>1, <1>2, TextFromSeq
<1>10. QED  BY <1>6, <1>7, <1>8, <1>9

LEMMA ConcatSuffix ==
  ASSUME NEW d \in Text, NEW e \in Text, NEW g \in Seq(Row)
  PROVE  Concat(d, e \o g) = Concat(d, e) \o g /\ e \o g \in Text
<1>1. /\ d \in Seq(Row) /\ e \in Seq(Row) /\ Len(d) \in Nat /\ Len(d) >= 1
      /\ Len(e) \in Nat /\ Len(e) >= 1 /\ d[Len(d)] \in Row /\ e[1] \in Row
      /\ Len(g) \in Nat
  BY TextElements
<1> DEFINE eg   == e \o g
           init == SubSeq(d, 1, Len(d) - 1)
           mid  == << d[Len(d)] \o e[1] >>
           rest == SubSeq(e, 2, Len(e))
<1>2. /\ eg \in Seq(Row) /\ Len(eg) = Len(e) + Len(g)
      /\ \A i \in 1..Len(e) : eg[i] = e[i]
  BY <1>1, SeqCat
<1>3. eg[1] = e[1]
  <2>1. 1 \in 1..Len(e)  BY <1>1
  <2> HIDE DEF eg
  <2>2. QED  BY <2>1, <1>2
<1>4. init \in Seq(Row) /\ mid \in Seq(Row) /\ rest \in Seq(Row)
  <2>1. Len(d) - 1 \in 0..Len(d)  BY <1>1
  <2>2. init \in Seq(Row)  BY <1>1, <2>1, SeqFront
  <2>3. 2 \in 1..(Len(e) + 1)  BY <1>1
  <2>4. rest \in Seq(Row)  BY <1>1, <2>3, SeqBack
  <2>5. d[Len(d)] \o e[1] \in Row  BY <1>1, RowJoin
  <2>6. QED  BY <2>2, <2>4, <2>5
<1>5. SubSeq(eg, 2, Len(e) + Len(g)) = rest \o g
  <2>1. << e[1] >> \o rest = e
    <3>1. 1 \in 1..Len(e) /\ Len(e) \in 1..Len(e) /\ 1 + 1 = 2  BY <1>1
    <3>2. SubSeq(e, 1, Len(e)) = << e[1] >> \o SubSeq(e, 1 + 1, Len(e))
      BY <3>1, <1>1, SubSeqRecursiveFirst
    <3>3. SubSeq(e, 1, Len(e)) = e  BY <1>1, SubSeqFull
    <3>4. QED  BY <3>1, <3>2, <3>3
  <2> DEFINE one == << e[1] >>
  <2>2. one \in Seq(Row) /\ Len(one) = 1  BY <1>1
  <2> HIDE DEF rest, one
  <2>3. one \o (rest \o g) = eg
    <3>1. (one \o rest) \o g = one \o (rest \o g)  BY <1>1, <1>4, <2>2, RowsAssoc
    <3>2. QED  BY <2>1, <3>1 DEF one
  <2>4. rest \o g \in Seq(Row) /\ Len(rest \o g) \in Nat  BY <1>1, <1>4, SeqCat
  <2> DEFINE rg == rest \o g
  <2> HIDE DEF rg
  <2>5. rg \in Seq(Row) /\ eg = one \o rg  BY <2>3, <2>4 DEF rg
  <2> HIDE DEF eg
  <2>6. SubSeq(one \o rg, Len(one) + 1, Len(one \o rg)) = rg  BY <2>2, <2>5, SeqJoin
  <2>7. SubSeq(eg, Len(one) + 1, Len(eg)) = rg  BY <2>5, <2>6
  <2>8. Len(one) + 1 = 2  BY <2>2
  <2>9. SubSeq(eg, 2, Len(eg)) = rg  BY <2>7, <2>8, Zenon
  <2>10. Len(eg) = Len(e) + Len(g)  BY <1>2 DEF eg
  <2>11. QED  BY <2>9, <2>10, Zenon DEF rg
<1>6. Concat(d, eg) = init \o mid \o (rest \o g)
  <2> HIDE DEF eg, init, rest
  <2>1. SubSeq(eg, 2, Len(eg)) = rest \o g  BY <1>2, <1>5
  <2>2. QED  BY <2>1, <1>3 DEF Concat, init
<1>7. Concat(d, e) = init \o mid \o rest  BY DEF Concat
<1> HIDE DEF init, mid, rest
<1>8. (init \o mid) \o (rest \o g) = ((init \o mid) \o rest) \o g
  <2> DEFINE im == init \o mid
  <2>1. im \in Seq(Row)  BY <1>4, SeqCat
  <2> HIDE DEF im
  <2>2. im \o (rest \o g) = (im \o rest) \o g  BY <2>1, <1>4, RowsAssoc
  <2>3. QED  BY <2>2 DEF im
<1>9. eg \in Text
  <2> HIDE DEF eg
  <2>1. Len(eg) >= 1  BY <1>1, <1>2
  <2>2. QED  BY <2>1, <1>2, TextFromSeq
<1>10. QED  BY <1>6, <1>7, <1>8, <1>9

LEMMA PartsTyped ==
  ASSUME NEW t \in Text, NEW s \in Position, InText(t, s)
  PROVE  /\ SubSeq(t, 1, s.y) \in Seq(Row) /\ Len(SubSeq(t, 1, s.y)) = s.y
         /\ << Head0(t, s.x, s.y) >> \in Text
         /\ << Tail0(t, s.x, s.y) >> \in Text
         /\ SubSeq(t, s.y + 2, NumRows(t)) \in Seq(Row)
         /\ Before(t, s) \in Text /\ After(t, s) \in Text
<1>1. /\ t \in Seq(Row) /\ Len(t) \in Nat
      /\ s.y \in 0..Len(t) /\ s.y + 1 \in 1..Len(t)
      /\ t[s.y + 1] \in Row /\ s.x \in 0..Len(t[s.y + 1])
  BY TextElements DEF Position, InText, NumRows, Size
<1>2. SubSeq(t, 1, s.y) \in Seq(Row) /\ Len(SubSeq(t, 1, s.y)) = s.y  BY <1>1, SeqFront
<1>3. Head0(t, s.x, s.y) \in Row /\ Tail0(t, s.x, s.y) \in Row
  BY <1>1, RowCut DEF Head0, Tail0, RowAt, Size
<1>4. \A r \in Row : << r >> \in Text  BY DEF Text
<1>5. SubSeq(t, s.y + 2, NumRows(t)) \in Seq(Row)
  <2>1. s.y + 2 \in 1..(Len(t) + 1)  BY <1>1
  <2>2. QED  BY <1>1, <2>1, SeqBack DEF NumRows
<1>6. CutFacts(t, s)  BY CutElements
<1>7. QED  BY <1>2, <1>3, <1>4, <1>5, <1>6 DEF CutFacts

(* An insertion puts the payload between the two parts. *)
LEMMA InsertionIs ==
  ASSUME NEW t \in Text, NEW s \in Position, InText(t, s), NEW d \in Text
  PROVE  BulkInsert(t, s, d) = Concat(Concat(Before(t, s), d), After(t, s))
<1>1. /\ SubSeq(t, 1, s.y) \in Seq(Row)
      /\ << Head0(t, s.x, s.y) >> \in Text /\ << Tail0(t, s.x, s.y) >> \in Text
      /\ SubSeq(t, s.y + 2, NumRows(t)) \in Seq(Row)
      /\ Before(t, s) \in Text
  BY PartsTyped
<1>2. CASE d = EmptyText
  <2>1. BulkInsert(t, s, d) = t  BY <1>2 DEF BulkInsert
  <2>2. Concat(Before(t, s), d) = Before(t, s)  BY <1>1, <1>2, ConcatEmpty
  <2>3. Concat(Before(t, s), After(t, s)) = t  BY Cut
  <2>4. QED  BY <2>1, <2>2, <2>3
<1>3. CASE d # EmptyText
  <2> DEFINE front == SubSeq(t, 1, s.y)
             head  == << Head0(t, s.x, s.y) >>
             tail  == << Tail0(t, s.x, s.y) >>
             back  == SubSeq(t, s.y + 2, NumRows(t))
             hd    == Concat(head, d)
  <2>1. ~(s.y >= NumRows(t))
    <3>1. s.y \in Nat /\ NumRows(t) \in Nat /\ s.y < NumRows(t)
      BY TextElements DEF Position, InText, NumRows
    <3>2. QED  BY <3>1
  <2>2. BulkInsert(t, s, d) = front \o Concat(hd, tail) \o back
    BY <1>3, <2>1 DEF BulkInsert
  <2>3. Before(t, s) = front \o head /\ After(t, s) = tail \o back
    BY DEF Before, After
  <2> HIDE DEF front, head, tail, back
  <2>4. front \in Seq(Row) /\ head \in Text /\ tail \in Text /\ back \in Seq(Row)
    BY <1>1 DEF front, head, tail, back
  <2>5. Concat(front \o head, d) = front \o hd
    BY <2>4, ConcatPrefix
  <2>6. hd \in Text  BY <2>4, ConcatElements DEF ConcatFacts
  <2> HIDE DEF hd
  <2>7. Concat(front \o hd, tail) = front \o Concat(hd, tail) /\ front \o hd \in Text
    BY <2>4, <2>6, ConcatPrefix
  <2>8. Concat(front \o hd, tail \o back) = Concat(front \o hd, tail) \o back
    BY <2>4, <2>7, ConcatSuffix
  <2>9. QED  BY <2>2, <2>3, <2>5, <2>7, <2>8
<1>4. QED  BY <1>2, <1>3

(* A deletion leaves what is before its start and what is after its end. *)
LEMMA DeletionIs ==
  ASSUME NEW t \in Text, NEW s \in Position, InText(t, s),
         NEW e \in Position, InText(t, e), AtOrBefore(s, e)
  PROVE  /\ ClampRange(t, s, e) = << s, e >>
         /\ BulkDelete(t, s, e) = Concat(Before(t, s), After(t, e))
<1>1. /\ s.x \in Nat /\ s.y \in Nat /\ e.x \in Nat /\ e.y \in Nat
      /\ NumRows(t) \in Nat /\ s.y < NumRows(t) /\ e.y < NumRows(t)
      /\ s = At(s.x, s.y) /\ e = At(e.x, e.y)
      /\ Size(t, s.y) \in Nat /\ Size(t, e.y) \in Nat
      /\ s.x <= Size(t, s.y) /\ e.x <= Size(t, e.y)
  BY TextElements DEF Position, InText, NumRows, Size, At
<1>2. ~(s.y >= NumRows(t)) /\ ~(e.y >= NumRows(t)) /\ ~(s.x > Size(t, s.y)) /\ ~(e.x > Size(t, e.y))
      /\ ~(s.y = e.y /\ e.x < s.x)
  BY <1>1 DEF AtOrBefore
<1>3. ClampRange(t, s, e) = << s, e >>
  BY <1>1, <1>2 DEF ClampRange
<1> DEFINE front == SubSeq(t, 1, s.y)
           head  == Head0(t, s.x, s.y)
           tail  == Tail0(t, e.x, e.y)
           back  == SubSeq(t, e.y + 2, NumRows(t))
<1>4. BulkDelete(t, s, e) = front \o << head \o tail >> \o back
  <2> DEFINE r == ClampRange(t, s, e)
  <2>1. r[1] = s /\ r[2] = e  BY <1>3
  <2>2. BulkDelete(t, s, e)
          = SubSeq(t, 1, s.y) \o << Head0(t, r[1].x, s.y) \o Tail0(t, r[2].x, r[2].y) >>
            \o SubSeq(t, r[2].y + 2, NumRows(t))
    BY <1>2, Zenon DEF BulkDelete
  <2> HIDE DEF r
  <2>3. QED  BY <2>1, <2>2
<1>5. Before(t, s) = front \o << head >> /\ After(t, e) = << tail >> \o back
  BY DEF Before, After
<1>6. /\ front \in Seq(Row) /\ << head >> \in Text
      /\ << tail >> \in Text /\ back \in Seq(Row)
  BY PartsTyped
<1> HIDE DEF front, head, tail, back
<1>7. Concat(<< head >>, << tail >>) = << head \o tail >>
  <2> DEFINE h == << head >>
             l == << tail >>
  <2>1. h[1] = head /\ l[1] = tail /\ Len(h) = 1 /\ Len(l) = 1  OBVIOUS
  <2>2. ConcatFacts(h, l)  BY <1>6, ConcatElements
  <2> DEFINE c == Concat(h, l)
  <2> HIDE DEF h, l, c
  <2>3. c \in Text /\ Len(c) = 1 /\ c[1] = head \o tail
    BY <2>1, <2>2 DEF ConcatFacts, c
  <2>4. c \in Seq(Row)  BY <2>3, TextElements
  <2>5. c = << head \o tail >>  BY <2>3, <2>4
  <2>6. QED  BY <2>5 DEF c, h, l
<1> DEFINE h == << head >>
           l == << tail >>
<1>8. Concat(h, l) \in Text  BY <1>6, ConcatElements DEF ConcatFacts
<1> HIDE DEF h, l
<1>9. h \in Text /\ l \in Text  BY <1>6 DEF h, l
<1>10. Concat(front \o h, l) = front \o Concat(h, l) /\ front \o h \in Text
  BY <1>6, <1>9, ConcatPrefix
<1>11. Concat(front \o h, l \o back) = Concat(front \o h, l) \o back
  BY <1>6, <1>9, <1>10, ConcatSuffix
<1>12. QED  BY <1>3, <1>4, <1>5, <1>7, <1>10, <1>11 DEF h, l

(* Where a concatenation ends is where computeInsertEnd says. *)
LEMMA EndOfConcat ==
  ASSUME NEW b \in Text, NEW d \in Text
  PROVE  EndOf(Concat(b, d)) = ComputeInsertEnd(d, EndOf(b))
<1>1. PICK m \in Nat : m = Len(b) /\ m >= 1 /\ b[m] \in Row  BY TextElements
<1>2. PICK n \in Nat : n = Len(d) /\ n >= 1 /\ d[1] \in Row /\ d[n] \in Row  BY TextElements
<1> DEFINE c == Concat(b, d)
<1>3. ConcatFacts(b, d)  BY ConcatElements
<1>4. Len(c) = m + n - 1  BY <1>1, <1>2, <1>3 DEF ConcatFacts
<1>5. EndOf(c) = At(Len(c[m + n - 1]), m + n - 2)
  <2> HIDE DEF c
  <2>1. NumRows(c) - 1 = m + n - 2 /\ m + n - 2 + 1 = m + n - 1  BY <1>1, <1>2, <1>4 DEF NumRows
  <2>2. QED  BY <2>1 DEF EndOf, Size
<1>6. EndOf(b) = At(Len(b[m]), m - 1)
  <2>1. m - 1 + 1 = m  BY <1>1
  <2>2. QED  BY <2>1, <1>1 DEF EndOf, Size, NumRows
<1>7. ComputeInsertEnd(d, EndOf(b))
        = At((IF n = 1 THEN Len(b[m]) ELSE 0) + Len(d[n]), m - 1 + n - 1)
  BY <1>2, <1>6 DEF ComputeInsertEnd, At
<1>8. CASE n = 1
  <2>1. c[m] = b[m] \o d[1]  BY <1>1, <1>3 DEF ConcatFacts
  <2>2. Len(b[m] \o d[1]) = Len(b[m]) + Len(d[1])  BY <1>1, <1>2, RowJoin
  <2>3. m + n - 1 = m /\ m + n - 2 = m - 1 + n - 1  BY <1>8, <1>1
  <2>4. EndOf(c) = At(Len(b[m]) + Len(d[1]), m - 1 + n - 1)  BY <1>5, <2>1, <2>2, <2>3
  <2>5. QED  BY <2>4, <1>7, <1>8
<1>9. CASE n > 1
  <2>1. c[m + n - 1] = d[n]  BY <1>1, <1>2, <1>3, <1>9 DEF ConcatFacts
  <2>2. Len(d[n]) \in Nat  BY <1>2 DEF Row
  <2>3. 0 + Len(d[n]) = Len(d[n]) /\ m + n - 2 = m - 1 + n - 1 /\ n # 1  BY <2>2, <1>1, <1>9
  <2>4. QED  BY <2>1, <2>3, <1>5, <1>7
<1>10. QED  BY <1>8, <1>9, <1>2

-----------------------------------------------------------------------------
(* The text of a range *)

LEMMA CollectSameRow ==
  ASSUME NEW t \in Text, NEW s \in Position, InText(t, s),
         NEW e \in Position, InText(t, e), AtOrBefore(s, e), s.y = e.y
  PROVE  /\ CollectRegionText(t, s, e) \in Text
         /\ Concat(Before(t, s), CollectRegionText(t, s, e)) = Before(t, e)
<1> DEFINE row == t[s.y + 1]
           mid == SubSeq(row, s.x + 1, e.x)
           M   == << mid >>
           B   == Before(t, s)
           C   == Before(t, e)
<1>1. /\ s.x \in Nat /\ s.y \in Nat /\ e.x \in Nat /\ s.x <= e.x
      /\ row \in Row /\ Len(row) \in Nat /\ e.x <= Len(row) /\ s.y + 1 \in 1..Len(t)
  BY TextElements DEF Position, InText, NumRows, Size, AtOrBefore
<1>2. CollectRegionText(t, s, e) = M  BY DEF CollectRegionText, RowAt
<1>3. mid \in Row /\ SubSeq(row, 1, s.x) \o mid = SubSeq(row, 1, e.x)
  <2>1. 1 \in 1..(Len(row) + 1) /\ s.x \in (1 - 1)..Len(row) /\ e.x \in s.x..Len(row)
    BY <1>1
  <2>2. row \in Seq(Byte)  BY <1>1 DEF Row
  <2> HIDE DEF row
  <2>3. SubSeq(row, 1, s.x) \o mid = SubSeq(row, 1, e.x)
    BY <2>1, <2>2, ConcatAdjacentSubSeq
  <2>4. mid \in Seq(Byte)  BY <1>1, <2>2
  <2>5. QED  BY <2>3, <2>4 DEF Row
<1>5. CutFacts(t, s) /\ CutFacts(t, e)  BY CutElements
<1> HIDE DEF row, mid, B, C
<1>4. M \in Text /\ Len(M) = 1 /\ M[1] = mid  BY <1>3 DEF Text
<1> HIDE DEF M
<1>6. /\ B \in Text /\ Len(B) = s.y + 1 /\ (\A i \in 1..s.y : B[i] = t[i])
      /\ B[s.y + 1] = SubSeq(row, 1, s.x)
      /\ C \in Text /\ Len(C) = s.y + 1 /\ (\A i \in 1..s.y : C[i] = t[i])
      /\ C[s.y + 1] = SubSeq(row, 1, e.x)
  BY <1>5 DEF CutFacts, B, C, row
<1>7. ConcatFacts(B, M)  BY <1>4, <1>6, ConcatElements
<1> DEFINE D == Concat(B, M)
<1> HIDE DEF D
<1>8. /\ D \in Text /\ Len(D) = s.y + 1
      /\ \A i \in 1..s.y : D[i] = B[i]
      /\ D[s.y + 1] = B[s.y + 1] \o M[1]
  <2>0. Len(B) = s.y + 1  BY <1>6
  <2>1. Len(B) + 1 - 1 = s.y + 1 /\ Len(B) - 1 = s.y  BY <2>0, <1>1
  <2>2. /\ D \in Text /\ Len(D) = Len(B) + Len(M) - 1
        /\ \A i \in 1..(Len(B) - 1) : D[i] = B[i]
        /\ D[Len(B)] = B[Len(B)] \o M[1]
    BY <1>7 DEF ConcatFacts, D
  <2>3. QED  BY <2>1, <2>2, <1>4, <1>6
<1>9. \A i \in 1..Len(D) : D[i] = C[i]
  <2>1. SUFFICES ASSUME NEW i \in 1..(s.y + 1)  PROVE D[i] = C[i]  BY <1>8
  <2>2. CASE i = s.y + 1  BY <2>2, <1>3, <1>4, <1>6, <1>8
  <2>3. CASE i # s.y + 1
    <3>1. i \in 1..s.y  BY <2>3, <1>1
    <3>2. QED  BY <3>1, <1>6, <1>8
  <2>4. QED  BY <2>2, <2>3
<1>10. D = C
  <2>1. Len(D) = Len(C)  BY <1>6, <1>8
  <2>2. QED  BY <2>1, <1>6, <1>8, <1>9, TextEqual
<1>11. QED  BY <1>2, <1>4, <1>10 DEF D, B, C

LEMMA MiddleRows ==
  ASSUME NEW t \in Text, NEW y \in Nat, NEW z \in Nat, y < z, z < Len(t)
  PROVE  /\ SubSeq(t, y + 2, z) \in Seq(Row)
         /\ Len(SubSeq(t, y + 2, z)) = z - y - 1
         /\ \A i \in 1..(z - y - 1) : SubSeq(t, y + 2, z)[i] = t[y + 1 + i]
<1> DEFINE m == y + 2
           r == SubSeq(t, m, z)
<1>1. m \in Nat /\ m >= 1 /\ m <= z + 1 /\ m \in Int /\ z \in Int  OBVIOUS
<1>2. z - m + 1 = z - y - 1 /\ \A i \in Int : m + i - 1 = y + 1 + i  OBVIOUS
<1> HIDE DEF m
<1>3. \A i \in m..z : t[i] \in Row
  <2>1. \A i \in 1..Len(t) : t[i] \in Row  BY TextElements
  <2>2. Len(t) \in Nat  BY TextElements
  <2>3. \A i \in m..z : i \in 1..Len(t)  BY <1>1, <2>2
  <2>4. QED  BY <2>1, <2>3
<1> HIDE DEF r
<1>4. /\ r \in Seq(Row)
      /\ Len(r) = IF m <= z THEN z - m + 1 ELSE 0
      /\ \A i \in 1..(z - m + 1) : r[i] = t[m + i - 1]
  BY <1>1, <1>3, SubSeqProperties DEF r
<1>5. Len(r) = z - y - 1  BY <1>1, <1>2, <1>4
<1>6. \A i \in 1..(z - y - 1) : r[i] = t[y + 1 + i]  BY <1>2, <1>4
<1>7. QED  BY <1>4, <1>5, <1>6 DEF r, m

LEMMA CollectAcrossRows ==
  ASSUME NEW t \in Text, NEW s \in Position, InText(t, s),
         NEW e \in Position, InText(t, e), s.y < e.y
  PROVE  /\ CollectRegionText(t, s, e) \in Text
         /\ Concat(Before(t, s), CollectRegionText(t, s, e)) = Before(t, e)
<1> DEFINE top  == t[s.y + 1]
           bot  == t[e.y + 1]
           tail == SubSeq(top, s.x + 1, Len(top))
           head == SubSeq(bot, 1, e.x)
           mid  == SubSeq(t, s.y + 2, e.y)
           M    == CollectRegionText(t, s, e)
           B    == Before(t, s)
           C    == Before(t, e)
<1>1. /\ s.x \in Nat /\ s.y \in Nat /\ e.x \in Nat /\ e.y \in Nat /\ e.y < Len(t)
      /\ t \in Seq(Row) /\ Len(t) \in Nat
      /\ top \in Row /\ s.x \in 0..Len(top) /\ bot \in Row /\ e.x \in 0..Len(bot)
  BY TextElements DEF Position, InText, NumRows, Size
<1>2. M = << tail >> \o mid \o << head >>
  <2>1. s.y # e.y  BY <1>1
  <2>2. QED  BY <2>1 DEF CollectRegionText, Tail0, Head0, RowAt, Size
<1>3. tail \in Row /\ head \in Row /\ SubSeq(top, 1, s.x) \o tail = top
  BY <1>1, RowCut
<1>4. /\ mid \in Seq(Row) /\ Len(mid) = e.y - s.y - 1
      /\ \A i \in 1..(e.y - s.y - 1) : mid[i] = t[s.y + 1 + i]
  <2>1. s.y \in Nat /\ e.y \in Nat /\ e.y < Len(t)  BY <1>1
  <2> HIDE DEF M, B, C, top, bot, tail, head
  <2>2. QED  BY <2>1, MiddleRows
<1>5. CutFacts(t, s) /\ CutFacts(t, e)  BY CutElements
<1> HIDE DEF top, bot, tail, head, mid, B, C
<1> DEFINE l  == << tail >>
           h  == << head >>
           lm == l \o mid
<1>6. l \in Seq(Row) /\ Len(l) = 1 /\ l[1] = tail /\ h \in Seq(Row) /\ Len(h) = 1 /\ h[1] = head
  BY <1>3
<1>7. M = lm \o h  BY <1>2
<1> HIDE DEF l, h, M
<1>8. /\ lm \in Seq(Row) /\ Len(lm) = Len(l) + Len(mid)
      /\ (\A i \in 1..Len(l) : lm[i] = l[i])
      /\ \A i \in 1..Len(mid) : lm[Len(l) + i] = mid[i]
  <2>1. l \in Seq(Row) /\ mid \in Seq(Row)  BY <1>4, <1>6
  <2>2. QED  BY <2>1, SeqCat
<1> HIDE DEF lm
<1>9. /\ lm \o h \in Seq(Row) /\ Len(lm \o h) = Len(lm) + Len(h)
      /\ (\A i \in 1..Len(lm) : (lm \o h)[i] = lm[i])
      /\ \A i \in 1..Len(h) : (lm \o h)[Len(lm) + i] = h[i]
  <2>1. lm \in Seq(Row) /\ h \in Seq(Row)  BY <1>6, <1>8
  <2>2. QED  BY <2>1, SeqCat
<1> DEFINE k == e.y - s.y
<1>10. k \in Nat /\ k >= 1 /\ e.y = s.y + k  BY <1>1
<1> HIDE DEF k
<1>11. Len(mid) = k - 1 /\ \A i \in 1..(k - 1) : mid[i] = t[s.y + 1 + i]  BY <1>4 DEF k
<1>12. /\ Len(lm) = k /\ lm[1] = tail
       /\ \A i \in 2..k : lm[i] = t[s.y + i]
  <2>1. Len(lm) = k  BY <1>6, <1>8, <1>10, <1>11
  <2>2. lm[1] = tail  BY <1>6, <1>8
  <2>3. \A i \in 2..k : lm[i] = t[s.y + i]
    <3>1. TAKE i \in 2..k
    <3>2. i - 1 \in 1..(k - 1) /\ 1 + (i - 1) = i /\ s.y + 1 + (i - 1) = s.y + i  BY <1>1, <1>10
    <3>3. lm[1 + (i - 1)] = mid[i - 1]  BY <3>2, <1>6, <1>8, <1>11
    <3>4. mid[i - 1] = t[s.y + 1 + (i - 1)]  BY <3>2, <1>11
    <3>5. QED  BY <3>2, <3>3, <3>4
  <2>4. QED  BY <2>1, <2>2, <2>3
<1>13. /\ M \in Text /\ Len(M) = k + 1 /\ M[1] = tail
       /\ \A i \in 2..k : M[i] = t[s.y + i]
       /\ M[k + 1] = head
  <2>1. M \in Seq(Row) /\ Len(M) = k + 1  BY <1>6, <1>7, <1>9, <1>12
  <2>2. M \in Text  BY <2>1, <1>10, TextFromSeq
  <2>3. \A i \in 1..k : M[i] = lm[i]  BY <1>7, <1>9, <1>12
  <2>4. 1 \in 1..k  BY <1>10
  <2>5. M[k + 1] = head  BY <1>6, <1>7, <1>9, <1>12
  <2>6. \A i \in 2..k : M[i] = t[s.y + i]  BY <2>3, <1>12
  <2>7. QED  BY <2>1, <2>2, <2>3, <2>4, <2>5, <2>6, <1>12
<1>14. /\ B \in Text /\ Len(B) = s.y + 1 /\ (\A i \in 1..s.y : B[i] = t[i])
       /\ B[s.y + 1] = SubSeq(top, 1, s.x)
       /\ C \in Text /\ Len(C) = s.y + k + 1 /\ (\A i \in 1..(s.y + k) : C[i] = t[i])
       /\ C[s.y + k + 1] = head
  BY <1>5, <1>10 DEF CutFacts, B, C, top, bot, head
<1>15. ConcatFacts(B, M)  BY <1>13, <1>14, ConcatElements
<1> DEFINE D == Concat(B, M)
<1> HIDE DEF D
<1>16. /\ D \in Text /\ Len(D) = s.y + k + 1
       /\ \A i \in 1..s.y : D[i] = B[i]
       /\ D[s.y + 1] = B[s.y + 1] \o M[1]
       /\ \A i \in 2..(k + 1) : D[s.y + i] = M[i]
  <2>1. /\ D \in Text /\ Len(D) = Len(B) + Len(M) - 1
        /\ \A i \in 1..(Len(B) - 1) : D[i] = B[i]
        /\ D[Len(B)] = B[Len(B)] \o M[1]
        /\ \A i \in 2..Len(M) : D[Len(B) + i - 1] = M[i]
    BY <1>15 DEF ConcatFacts, D
  <2>2. s.y + 1 + (k + 1) - 1 = s.y + k + 1 /\ s.y + 1 - 1 = s.y  BY <1>1, <1>10
  <2>3. Len(D) = s.y + k + 1  BY <2>1, <2>2, <1>13, <1>14
  <2>4. \A i \in 1..s.y : D[i] = B[i]
    <3>0. Len(B) = s.y + 1  BY <1>14
    <3>1. Len(B) - 1 = s.y  BY <3>0, <1>1
    <3>2. \A i \in 1..(Len(B) - 1) : D[i] = B[i]  BY <2>1
    <3>3. QED  BY <3>1, <3>2
  <2>5. D[s.y + 1] = B[s.y + 1] \o M[1]  BY <2>1, <1>14
  <2>6. \A i \in 2..(k + 1) : D[s.y + i] = M[i]
    <3>1. TAKE i \in 2..(k + 1)
    <3>2. D[s.y + 1 + i - 1] = M[i]  BY <2>1, <1>13, <1>14
    <3>3. s.y + 1 + i - 1 = s.y + i  BY <1>1
    <3>4. QED  BY <3>2, <3>3
  <2>7. QED  BY <2>1, <2>3, <2>4, <2>5, <2>6
<1>17. \A i \in 1..(s.y + k + 1) : D[i] = C[i]
  <2>1. SUFFICES ASSUME NEW i \in 1..(s.y + k + 1)  PROVE D[i] = C[i]  OBVIOUS
  <2>2. CASE i <= s.y
    <3>1. i \in 1..s.y /\ i \in 1..(s.y + k)  BY <2>2, <1>1, <1>10
    <3>2. QED  BY <3>1, <1>14, <1>16
  <2>3. CASE i = s.y + 1
    <3>1. D[s.y + 1] = top  BY <1>3, <1>13, <1>14, <1>16
    <3>2. s.y + 1 \in 1..(s.y + k)  BY <1>1, <1>10
    <3>3. C[s.y + 1] = top  BY <3>2, <1>14 DEF top
    <3>4. QED  BY <2>3, <3>1, <3>3
  <2>4. CASE s.y + 1 < i /\ i <= s.y + k
    <3>1. PICK j \in 2..k : i = s.y + j
      <4>1. PICK a \in Nat : a = s.y  BY <1>1
      <4>2. PICK b \in Nat : b = k  BY <1>10
      <4>3. i - a \in 2..b /\ i = a + (i - a)  BY <2>4, <4>1, <4>2
      <4>4. QED  BY <4>1, <4>2, <4>3
    <3>2. j \in 2..(k + 1) /\ i \in 1..(s.y + k)  BY <2>4, <1>10
    <3>3. D[i] = M[j] /\ M[j] = t[s.y + j]  BY <3>1, <3>2, <1>13, <1>16
    <3>4. QED  BY <3>1, <3>2, <3>3, <1>14
  <2>5. CASE i = s.y + k + 1
    <3>1. k + 1 \in 2..(k + 1) /\ s.y + (k + 1) = s.y + k + 1  BY <1>1, <1>10
    <3>2. D[s.y + (k + 1)] = M[k + 1]  BY <3>1, <1>16
    <3>3. QED  BY <2>5, <3>1, <3>2, <1>13, <1>14
  <2>6. QED  BY <2>2, <2>3, <2>4, <2>5, <1>1, <1>10
<1>18. D = C  BY <1>14, <1>16, <1>17, TextEqual
<1>19. QED  BY <1>13, <1>18 DEF M, B, C, D

(* The text of a range joins what is before its start to what is after its  *)
(* end.                                                                     *)
LEMMA Collected ==
  ASSUME NEW t \in Text, NEW s \in Position, InText(t, s),
         NEW e \in Position, InText(t, e), AtOrBefore(s, e)
  PROVE  /\ CollectRegionText(t, s, e) \in Text
         /\ Concat(Before(t, s), CollectRegionText(t, s, e)) = Before(t, e)
         /\ ComputeInsertEnd(CollectRegionText(t, s, e), s) = e
<1> DEFINE M == CollectRegionText(t, s, e)
<1>1. M \in Text /\ Concat(Before(t, s), M) = Before(t, e)
  <2>1. CASE s.y = e.y  BY <2>1, CollectSameRow
  <2>2. CASE s.y # e.y
    <3>1. s.y < e.y  BY <2>2 DEF AtOrBefore
    <3>2. QED  BY <3>1, CollectAcrossRows
  <2>3. QED  BY <2>1, <2>2
<1> HIDE DEF M
<1>2. Before(t, s) \in Text /\ EndOf(Before(t, s)) = s /\ EndOf(Before(t, e)) = e
  BY PartsTyped, Cut
<1>3. ComputeInsertEnd(M, s) = e  BY <1>1, <1>2, EndOfConcat
<1>4. QED  BY <1>1, <1>3 DEF M

-----------------------------------------------------------------------------
(* What undo relies on *)

(* The range of an insertion: it lies in the new text, is ordered, and cuts *)
(* it where the payload begins and ends.                                    *)
LEMMA Inserted ==
  ASSUME NEW t \in Text, NEW s \in Position, InText(t, s), NEW d \in Text,
         NEW u, u = BulkInsert(t, s, d),
         NEW e, e = ComputeInsertEnd(d, s)
  PROVE  /\ u \in Text /\ e \in Position /\ AtOrBefore(s, e)
         /\ InText(u, s) /\ Before(u, s) = Before(t, s)
                         /\ After(u, s) = Concat(d, After(t, s))
         /\ InText(u, e) /\ Before(u, e) = Concat(Before(t, s), d)
                         /\ After(u, e) = After(t, s)
<1> DEFINE b == Before(t, s)
           a == After(t, s)
           bd == Concat(b, d)
           da == Concat(d, a)
<1>1. b \in Text /\ a \in Text /\ s = EndOf(b)  BY PartsTyped, Cut
<1>2. u = Concat(bd, a)  BY InsertionIs
<1> HIDE DEF b, a
<1>3. bd \in Text /\ da \in Text  BY <1>1, ConcatElements DEF ConcatFacts
<1>4. e = EndOf(bd)  BY <1>1, EndOfConcat
<1>5. Concat(bd, a) = Concat(b, da)  BY <1>1, ConcatAssoc
<1>6. u \in Text  BY <1>1, <1>2, <1>3, ConcatElements DEF ConcatFacts
<1> HIDE DEF bd, da
<1>7. e \in Position /\ InText(u, e) /\ Before(u, e) = bd /\ After(u, e) = a
  BY <1>1, <1>2, <1>3, <1>4, CutConcat
<1>8. InText(u, s) /\ Before(u, s) = b /\ After(u, s) = da
  <2>1. u = Concat(b, da)  BY <1>2, <1>5
  <2>2. QED  BY <2>1, <1>1, <1>3, CutConcat
<1>9. AtOrBefore(s, e)
  <2>1. PICK n \in Nat : n = Len(d) /\ n >= 1 /\ Len(d[n]) \in Nat  BY TextElements
  <2>2. e = At((IF n = 1 THEN s.x ELSE 0) + Len(d[n]), s.y + n - 1)
    BY <2>1 DEF ComputeInsertEnd
  <2>3. s.x \in Nat /\ s.y \in Nat  BY DEF Position
  <2>4. e.y = s.y + n - 1 /\ (n = 1 => e.x = s.x + Len(d[n]))  BY <2>2 DEF At
  <2>5. PICK k \in Nat : k = Len(d[n])  BY <2>1
  <2>6. CASE n = 1
    <3>1. e.y = s.y /\ e.x = s.x + k  BY <2>3, <2>4, <2>5, <2>6
    <3>2. s.x <= s.x + k  BY <2>3
    <3>3. QED  BY <3>1, <3>2 DEF AtOrBefore
  <2>7. CASE n > 1
    <3>1. s.y < s.y + n - 1  BY <2>3, <2>7
    <3>2. QED  BY <3>1, <2>4 DEF AtOrBefore
  <2>8. QED  BY <2>1, <2>6, <2>7
<1>10. QED  BY <1>6, <1>7, <1>8, <1>9 DEF bd, da, a, b

(* The range of a deletion: its start still cuts the text, with what was    *)
(* after the end behind it.                                                 *)
LEMMA Deleted ==
  ASSUME NEW t \in Text, NEW s \in Position, InText(t, s),
         NEW e \in Position, InText(t, e), AtOrBefore(s, e),
         NEW u, u = BulkDelete(t, s, e)
  PROVE  /\ u \in Text /\ InText(u, s)
         /\ Before(u, s) = Before(t, s) /\ After(u, s) = After(t, e)
<1> DEFINE b == Before(t, s)
           a == After(t, e)
<1>1. b \in Text /\ a \in Text /\ s = EndOf(b)  BY PartsTyped, Cut
<1>2. u = Concat(b, a)  BY DeletionIs
<1> HIDE DEF b, a
<1>3. u \in Text  BY <1>1, <1>2, ConcatElements DEF ConcatFacts
<1>4. InText(u, s) /\ Before(u, s) = b /\ After(u, s) = a  BY <1>1, <1>2, CutConcat
<1>5. QED  BY <1>3, <1>4 DEF b, a

(* A deletion is taken back by inserting what it removed. *)
LEMMA DeletionUndone ==
  ASSUME NEW t \in Text, NEW s \in Position, InText(t, s),
         NEW e \in Position, InText(t, e), AtOrBefore(s, e),
         NEW d, d = CollectRegionText(t, s, e)
  PROVE  /\ d \in Text /\ ComputeInsertEnd(d, s) = e
         /\ BulkInsert(BulkDelete(t, s, e), s, d) = t
<1> DEFINE u == BulkDelete(t, s, e)
<1>1. d \in Text /\ Concat(Before(t, s), d) = Before(t, e) /\ ComputeInsertEnd(d, s) = e
  BY Collected
<1>2. u \in Text /\ InText(u, s) /\ Before(u, s) = Before(t, s) /\ After(u, s) = After(t, e)
  BY Deleted
<1> HIDE DEF u
<1>3. BulkInsert(u, s, d) = Concat(Concat(Before(u, s), d), After(u, s))
  BY <1>1, <1>2, InsertionIs
<1>4. BulkInsert(u, s, d) = Concat(Before(t, e), After(t, e))
  BY <1>1, <1>2, <1>3
<1>5. QED  BY <1>1, <1>4, Cut DEF u

(* An insertion is taken back by deleting up to where it ended. *)
LEMMA InsertionUndone ==
  ASSUME NEW t \in Text, NEW s \in Position, InText(t, s), NEW d \in Text,
         NEW u, u = BulkInsert(t, s, d),
         NEW e, e = ComputeInsertEnd(d, s)
  PROVE  CollectRegionText(u, s, e) = d /\ BulkDelete(u, s, e) = t
<1>1. /\ u \in Text /\ e \in Position /\ AtOrBefore(s, e)
      /\ InText(u, s) /\ Before(u, s) = Before(t, s)
      /\ InText(u, e) /\ Before(u, e) = Concat(Before(t, s), d) /\ After(u, e) = After(t, s)
  BY Inserted
<1> DEFINE c == CollectRegionText(u, s, e)
           b == Before(t, s)
<1>2. c \in Text /\ Concat(b, c) = Concat(b, d)  BY <1>1, Collected
<1>3. b \in Text /\ s = EndOf(b)  BY PartsTyped, Cut
<1> HIDE DEF b, c
<1>4. After(Concat(b, c), s) = c /\ After(Concat(b, d), s) = d
  BY <1>2, <1>3, CutConcat
<1>5. c = d  BY <1>2, <1>4
<1>6. BulkDelete(u, s, e) = Concat(Before(u, s), After(u, e))  BY <1>1, DeletionIs
<1>7. BulkDelete(u, s, e) = Concat(Before(t, s), After(t, s))  BY <1>1, <1>6
<1>8. QED  BY <1>5, <1>7, Cut DEF c

(* Two insertions end to end are one. *)
LEMMA InsertionsJoined ==
  ASSUME NEW t \in Text, NEW s \in Position, InText(t, s), NEW d \in Text, NEW f \in Text,
         NEW e, e = ComputeInsertEnd(d, s)
  PROVE  /\ BulkInsert(BulkInsert(t, s, d), e, f) = BulkInsert(t, s, Concat(d, f))
         /\ ComputeInsertEnd(Concat(d, f), s) = ComputeInsertEnd(f, e)
<1> DEFINE u == BulkInsert(t, s, d)
           b == Before(t, s)
           a == After(t, s)
           df == Concat(d, f)
           bd == Concat(b, d)
<1>1. /\ u \in Text /\ e \in Position /\ InText(u, e)
      /\ Before(u, e) = bd /\ After(u, e) = a
  BY Inserted
<1>2. b \in Text /\ a \in Text /\ s = EndOf(b)  BY PartsTyped, Cut
<1> HIDE DEF u, b, a
<1>3. df \in Text /\ bd \in Text  BY <1>2, ConcatElements DEF ConcatFacts
<1>4. Concat(bd, f) = Concat(b, df)  BY <1>2, ConcatAssoc
<1>5. e = EndOf(bd)  BY <1>2, EndOfConcat
<1> HIDE DEF df, bd
<1>6. BulkInsert(u, e, f) = Concat(Concat(bd, f), a)  BY <1>1, InsertionIs
<1>7. BulkInsert(t, s, df) = Concat(Concat(b, df), a)  BY <1>3, InsertionIs DEF b, a
<1>8. ComputeInsertEnd(df, s) = EndOf(Concat(b, df))  BY <1>2, <1>3, EndOfConcat
<1>9. ComputeInsertEnd(f, e) = EndOf(Concat(bd, f))  BY <1>3, <1>5, EndOfConcat
<1>10. QED  BY <1>4, <1>6, <1>7, <1>8, <1>9 DEF u, df

-----------------------------------------------------------------------------
(* Positions under the two edits *)

LEMMA InsertMoves ==
  ASSUME NEW s \in Position, NEW e \in Position, AtOrBefore(s, e), NEW p \in Position
  PROVE  AdjustForInsert(p, s, e) \in Position
<1>1. /\ s.x \in Nat /\ s.y \in Nat /\ e.x \in Nat /\ e.y \in Nat /\ p.x \in Nat /\ p.y \in Nat
      /\ s.y <= e.y
  BY DEF Position, AtOrBefore
<1>2. CASE p.y < s.y \/ (p.y = s.y /\ p.x < s.x)  BY <1>2 DEF AdjustForInsert
<1>3. CASE ~(p.y < s.y \/ (p.y = s.y /\ p.x < s.x)) /\ p.y = s.y
  <2>1. p.x - s.x \in Nat /\ e.y - s.y \in Nat  BY <1>1, <1>3
  <2>2. e.x + (p.x - s.x) \in Nat /\ p.y + (e.y - s.y) \in Nat  BY <1>1, <2>1
  <2>3. QED  BY <2>2, <1>3 DEF AdjustForInsert, Position, At
<1>4. CASE ~(p.y < s.y \/ (p.y = s.y /\ p.x < s.x)) /\ p.y # s.y
  <2>1. p.y + (e.y - s.y) \in Nat  BY <1>1
  <2>2. QED  BY <2>1, <1>1, <1>4 DEF AdjustForInsert, Position, At
<1>5. QED  BY <1>2, <1>3, <1>4

LEMMA DeleteMoves ==
  ASSUME NEW s \in Position, NEW e \in Position, AtOrBefore(s, e), NEW p \in Position
  PROVE  AdjustForDelete(p, s, e) \in Position
<1>1. /\ s.x \in Nat /\ s.y \in Nat /\ e.x \in Nat /\ e.y \in Nat /\ p.x \in Nat /\ p.y \in Nat
      /\ s.y <= e.y
  BY DEF Position, AtOrBefore
<1>2. CASE AtOrBefore(p, s) \/ AtOrBefore(p, e)  BY <1>2 DEF AdjustForDelete
<1>3. CASE ~AtOrBefore(p, s) /\ ~AtOrBefore(p, e) /\ p.y = e.y
  <2>1. p.x - e.x \in Nat  BY <1>1, <1>3 DEF AtOrBefore
  <2>2. s.x + (p.x - e.x) \in Nat  BY <1>1, <2>1
  <2>3. QED  BY <2>2, <1>1, <1>3 DEF AdjustForDelete, Position, At
<1>4. CASE ~AtOrBefore(p, s) /\ ~AtOrBefore(p, e) /\ p.y # e.y
  <2>1. p.y > e.y  BY <1>1, <1>4 DEF AtOrBefore
  <2>2. p.y - (e.y - s.y) \in Nat  BY <1>1, <2>1
  <2>3. QED  BY <2>2, <1>1, <1>4 DEF AdjustForDelete, Position, At
<1>5. QED  BY <1>2, <1>3, <1>4

(* Neither edit swaps two positions. *)
LEMMA InsertKeepsOrder ==
  ASSUME NEW s \in Position, NEW e \in Position, AtOrBefore(s, e),
         NEW p \in Position, NEW q \in Position, AtOrBefore(p, q)
  PROVE  AtOrBefore(AdjustForInsert(p, s, e), AdjustForInsert(q, s, e))
<1>1. /\ s.x \in Nat /\ s.y \in Nat /\ e.x \in Nat /\ e.y \in Nat
      /\ p.x \in Nat /\ p.y \in Nat /\ q.x \in Nat /\ q.y \in Nat
      /\ s.y <= e.y /\ (s.y = e.y => s.x <= e.x)
      /\ p.y <= q.y /\ (p.y = q.y => p.x <= q.x)
  BY DEF Position, AtOrBefore
<1> DEFINE Stays(r) == r.y < s.y \/ (r.y = s.y /\ r.x < s.x)
<1>2. CASE Stays(p) /\ Stays(q)  BY <1>2 DEF AdjustForInsert
<1>3. CASE Stays(p) /\ ~Stays(q)
  <2>1. p = At(p.x, p.y)  BY DEF Position, At
  <2>2. p.y < s.y \/ (p.y = s.y /\ p.x < s.x)  BY <1>3
  <2>3. CASE q.y = s.y
    <3>1. AdjustForInsert(q, s, e) = At(e.x + (q.x - s.x), q.y + (e.y - s.y))
      BY <1>3, <2>3 DEF AdjustForInsert
    <3>2. q.x >= s.x  BY <1>1, <1>3, <2>3
    <3>3. p.y < q.y + (e.y - s.y) \/ (p.y = q.y + (e.y - s.y) /\ p.x <= e.x + (q.x - s.x))
      BY <1>1, <2>2, <2>3, <3>2
    <3>4. QED  BY <1>3, <3>1, <3>3 DEF AdjustForInsert, AtOrBefore, At
  <2>4. CASE q.y # s.y
    <3>1. AdjustForInsert(q, s, e) = At(q.x, q.y + (e.y - s.y))
      BY <1>3, <2>4 DEF AdjustForInsert
    <3>2. p.y < q.y + (e.y - s.y)  BY <1>1, <1>3, <2>2, <2>4
    <3>3. QED  BY <1>3, <3>1, <3>2 DEF AdjustForInsert, AtOrBefore, At
  <2>5. QED  BY <2>3, <2>4
<1>4. CASE ~Stays(p)
  <2>1. ~Stays(q)  BY <1>1, <1>4
  <2>2. AdjustForInsert(p, s, e) = IF p.y = s.y THEN At(e.x + (p.x - s.x), p.y + (e.y - s.y))
                                                ELSE At(p.x, p.y + (e.y - s.y))
    BY <1>4 DEF AdjustForInsert
  <2>3. AdjustForInsert(q, s, e) = IF q.y = s.y THEN At(e.x + (q.x - s.x), q.y + (e.y - s.y))
                                                ELSE At(q.x, q.y + (e.y - s.y))
    BY <2>1 DEF AdjustForInsert
  <2>4. CASE p.y = q.y
    <3>1. p.x <= q.x /\ e.x + (p.x - s.x) <= e.x + (q.x - s.x)  BY <1>1, <2>4
    <3>2. QED  BY <2>2, <2>3, <2>4, <3>1 DEF AtOrBefore, At
  <2>5. CASE p.y < q.y
    <3>1. p.y + (e.y - s.y) < q.y + (e.y - s.y)  BY <1>1, <2>5
    <3>2. QED  BY <2>2, <2>3, <3>1 DEF AtOrBefore, At
  <2>6. QED  BY <1>1, <2>4, <2>5
<1>5. QED  BY <1>2, <1>3, <1>4

LEMMA DeleteKeepsOrder ==
  ASSUME NEW s \in Position, NEW e \in Position, AtOrBefore(s, e),
         NEW p \in Position, NEW q \in Position, AtOrBefore(p, q)
  PROVE  AtOrBefore(AdjustForDelete(p, s, e), AdjustForDelete(q, s, e))
<1>1. /\ s.x \in Nat /\ s.y \in Nat /\ e.x \in Nat /\ e.y \in Nat
      /\ p.x \in Nat /\ p.y \in Nat /\ q.x \in Nat /\ q.y \in Nat
      /\ s.y <= e.y /\ (s.y = e.y => s.x <= e.x)
      /\ p.y <= q.y /\ (p.y = q.y => p.x <= q.x)
  BY DEF Position, AtOrBefore
<1>2. CASE AtOrBefore(q, s)
  <2>1. AtOrBefore(p, s)  BY <1>1, <1>2 DEF AtOrBefore
  <2>2. QED  BY <1>2, <2>1 DEF AdjustForDelete
<1>3. CASE ~AtOrBefore(q, s) /\ AtOrBefore(q, e)
  <2>1. AdjustForDelete(q, s, e) = s  BY <1>3 DEF AdjustForDelete
  <2>2. AtOrBefore(p, e)  BY <1>1, <1>3 DEF AtOrBefore
  <2>3. CASE AtOrBefore(p, s)  BY <2>1, <2>3 DEF AdjustForDelete
  <2>4. CASE ~AtOrBefore(p, s)
    <3>1. AdjustForDelete(p, s, e) = s  BY <2>2, <2>4 DEF AdjustForDelete
    <3>2. QED  BY <2>1, <3>1, <1>1 DEF AtOrBefore
  <2>5. QED  BY <2>3, <2>4
<1>4. CASE ~AtOrBefore(q, s) /\ ~AtOrBefore(q, e)
  <2> DEFINE q1 == IF q.y = e.y THEN At(s.x + (q.x - e.x), s.y) ELSE At(q.x, q.y - (e.y - s.y))
  <2>1. AdjustForDelete(q, s, e) = q1  BY <1>4 DEF AdjustForDelete
  <2>2. e.y <= q.y /\ (e.y = q.y => e.x < q.x)  BY <1>1, <1>4 DEF AtOrBefore
  <2>3. AtOrBefore(s, q1)
    <3>1. CASE q.y = e.y
      <4>1. s.x <= s.x + (q.x - e.x)  BY <1>1, <2>2, <3>1
      <4>2. QED  BY <3>1, <4>1 DEF AtOrBefore, At
    <3>2. CASE q.y # e.y
      <4>1. s.y < q.y - (e.y - s.y)  BY <1>1, <2>2, <3>2
      <4>2. QED  BY <3>2, <4>1 DEF AtOrBefore, At
    <3>3. QED  BY <3>1, <3>2
  <2>4. CASE AtOrBefore(p, s)
    <3>1. AdjustForDelete(p, s, e) = p  BY <2>4 DEF AdjustForDelete
    <3>2. q1.x \in Int /\ q1.y \in Int  BY <1>1 DEF At
    <3> HIDE DEF q1
    <3>3. AtOrBefore(p, q1)  BY <1>1, <2>3, <2>4, <3>2 DEF AtOrBefore
    <3>4. QED  BY <2>1, <3>1, <3>3
  <2>5. CASE ~AtOrBefore(p, s) /\ AtOrBefore(p, e)
    <3>1. AdjustForDelete(p, s, e) = s  BY <2>5 DEF AdjustForDelete
    <3> HIDE DEF q1
    <3>2. QED  BY <2>1, <2>3, <3>1
  <2>6. CASE ~AtOrBefore(p, s) /\ ~AtOrBefore(p, e)
    <3>1. AdjustForDelete(p, s, e)
            = IF p.y = e.y THEN At(s.x + (p.x - e.x), s.y) ELSE At(p.x, p.y - (e.y - s.y))
      BY <2>6 DEF AdjustForDelete
    <3>2. e.y <= p.y  BY <1>1, <2>6 DEF AtOrBefore
    <3>3. CASE p.y = q.y
      <4>1. p.x <= q.x /\ s.x + (p.x - e.x) <= s.x + (q.x - e.x)  BY <1>1, <3>3
      <4>2. QED  BY <2>1, <3>1, <3>3, <4>1 DEF AtOrBefore, At
    <3>4. CASE p.y < q.y
      <4>1. q.y # e.y  BY <1>1, <3>2, <3>4
      <4>2. s.y < q.y - (e.y - s.y) /\ p.y - (e.y - s.y) < q.y - (e.y - s.y)
        BY <1>1, <3>2, <3>4
      <4>3. QED  BY <2>1, <3>1, <4>1, <4>2 DEF AtOrBefore, At
    <3>5. QED  BY <1>1, <3>3, <3>4
  <2>7. QED  BY <2>4, <2>5, <2>6
<1>5. QED  BY <1>2, <1>3, <1>4

(* What two texts have in common before a position, or after one of each,   *)
(* holds the same positions.                                                *)
LEMMA CommonBefore ==
  ASSUME NEW t \in Text, NEW u \in Text, NEW s \in Position, InText(t, s), InText(u, s),
         Before(u, s) = Before(t, s),
         NEW p \in Position, InText(t, p), AtOrBefore(p, s)
  PROVE  InText(u, p)
<1>1. /\ s.x \in Nat /\ s.y \in Nat /\ p.x \in Nat /\ p.y \in Nat
      /\ s.y < Len(u) /\ Len(u) \in Nat /\ Len(t) \in Nat
      /\ p.y <= s.y /\ (p.y = s.y => p.x <= s.x)
  BY TextElements DEF Position, InText, NumRows, AtOrBefore
<1>2. CASE p.y < s.y
  <2>1. CutFacts(t, s) /\ CutFacts(u, s)  BY CutElements
  <2>2. p.y + 1 \in 1..s.y  BY <1>1, <1>2
  <2>3. t[p.y + 1] = u[p.y + 1]
    <3>1. Before(t, s)[p.y + 1] = t[p.y + 1]  BY <2>1, <2>2 DEF CutFacts
    <3>2. Before(u, s)[p.y + 1] = u[p.y + 1]  BY <2>1, <2>2 DEF CutFacts
    <3>3. QED  BY <3>1, <3>2
  <2>4. p.y < Len(u)  BY <1>1, <1>2
  <2>5. QED  BY <2>3, <2>4 DEF InText, Size, NumRows
<1>3. CASE p.y = s.y
  <2>1. Size(u, s.y) \in Nat /\ s.x <= Size(u, s.y)
    <3>1. s.y + 1 \in 1..Len(u)  BY <1>1
    <3>2. QED  BY <3>1, TextElements DEF InText, Size
  <2>2. p.x <= Size(u, s.y)  BY <1>1, <1>3, <2>1
  <2>3. QED  BY <1>1, <1>3, <2>2 DEF InText, NumRows
<1>4. QED  BY <1>1, <1>2, <1>3

LEMMA RowTail ==
  ASSUME NEW r \in Row, NEW x \in 0..Len(r), NEW n, n = Len(SubSeq(r, x + 1, Len(r)))
  PROVE  n = Len(r) - x /\ Len(r) \in Nat
<1>1. x + 1 \in 1..(Len(r) + 1) /\ r \in Seq(Byte) /\ Len(r) \in Nat  BY DEF Row
<1>2. n = Len(r) - (x + 1) + 1  BY <1>1, SeqBack
<1>3. QED  BY <1>1, <1>2

LEMMA CommonAfter ==
  ASSUME NEW t \in Text, NEW u \in Text, NEW s \in Position, InText(t, s),
         NEW e \in Position, InText(u, e),
         After(u, e) = After(t, s),
         NEW p \in Position, InText(t, p), AtOrBefore(s, p)
  PROVE  InText(u, IF p.y = s.y THEN At(e.x + (p.x - s.x), e.y)
                                ELSE At(p.x, e.y + (p.y - s.y)))
<1>1. /\ s.x \in Nat /\ s.y \in Nat /\ p.x \in Nat /\ p.y \in Nat /\ e.x \in Nat /\ e.y \in Nat
      /\ s.y <= p.y /\ (p.y = s.y => s.x <= p.x)
  BY DEF Position, AtOrBefore
<1>2. CutFacts(t, s) /\ CutFacts(u, e)  BY CutElements
<1>3. PICK n \in Nat, k \in Nat : n = Len(t) /\ k = Len(u) /\ p.y < n /\ s.y < n /\ e.y < k
  BY TextElements DEF InText, NumRows
<1>4. k - e.y = n - s.y  BY <1>2, <1>3 DEF CutFacts
<1>5. CASE p.y = s.y
  <2> DEFINE q == t[s.y + 1]
             r == u[e.y + 1]
  <2>1. q \in Row /\ s.x \in 0..Len(q) /\ r \in Row /\ e.x \in 0..Len(r) /\ p.x <= Len(q)
    <3>1. s.y + 1 \in 1..Len(t) /\ e.y + 1 \in 1..Len(u)  BY <1>1, <1>3
    <3>2. q \in Row /\ Len(q) \in Nat /\ r \in Row /\ Len(r) \in Nat  BY <3>1, TextElements
    <3>3. s.x <= Len(q) /\ e.x <= Len(r) /\ p.x <= Len(q)  BY <1>5 DEF InText, Size
    <3>4. QED  BY <1>1, <3>2, <3>3
  <2>2. SubSeq(r, e.x + 1, Len(r)) = SubSeq(q, s.x + 1, Len(q))  BY <1>2 DEF CutFacts
  <2> HIDE DEF q, r
  <2>3. Len(q) - s.x = Len(r) - e.x /\ Len(q) \in Nat /\ Len(r) \in Nat
    BY <2>1, <2>2, RowTail
  <2>4. e.x + (p.x - s.x) <= Len(r)  BY <1>1, <2>1, <2>3
  <2>5. QED  BY <1>3, <1>5, <2>4 DEF InText, Size, NumRows, At, r
<1>6. CASE p.y > s.y
  <2>1. PICK i \in Nat : i = p.y - s.y + 1  BY <1>1, <1>6
  <2>2. i \in 2..(n - s.y) /\ i \in 2..(k - e.y) /\ s.y + i = p.y + 1
        /\ e.y + i = e.y + (p.y - s.y) + 1 /\ e.y + (p.y - s.y) < k
    <3>1. p.y < n /\ s.y < n /\ e.y < k  BY <1>3
    <3>2. i \in 2..(n - s.y) /\ s.y + i = p.y + 1  BY <1>1, <1>6, <2>1, <3>1
    <3>3. e.y + i = e.y + (p.y - s.y) + 1  BY <1>1, <2>1
    <3>4. i \in 2..(k - e.y)  BY <3>2, <1>4
    <3>5. e.y + (p.y - s.y) < k  BY <1>1, <1>4, <3>1
    <3>6. QED  BY <3>2, <3>3, <3>4, <3>5
  <2>3. After(t, s)[i] = t[s.y + i]  BY <1>2, <1>3, <2>2 DEF CutFacts
  <2>4. After(u, e)[i] = u[e.y + i]  BY <1>2, <1>3, <2>2 DEF CutFacts
  <2>5. u[e.y + (p.y - s.y) + 1] = t[p.y + 1]  BY <2>2, <2>3, <2>4
  <2>6. p.x <= Len(t[p.y + 1])  BY DEF InText, Size
  <2>7. p.y # s.y  BY <1>1, <1>6
  <2>8. QED  BY <1>3, <2>2, <2>5, <2>6, <2>7 DEF InText, Size, NumRows, At
<1>7. QED  BY <1>1, <1>5, <1>6

(* A position of the text is a position of the text after either edit. *)
LEMMA InsertKeepsInText ==
  ASSUME NEW t \in Text, NEW s \in Position, InText(t, s), NEW d \in Text,
         NEW u, u = BulkInsert(t, s, d), NEW e, e = ComputeInsertEnd(d, s),
         NEW p \in Position, InText(t, p)
  PROVE  InText(u, AdjustForInsert(p, s, e))
<1>1. /\ u \in Text /\ e \in Position /\ AtOrBefore(s, e)
      /\ InText(u, s) /\ Before(u, s) = Before(t, s)
      /\ InText(u, e) /\ After(u, e) = After(t, s)
  BY Inserted
<1>2. s.x \in Nat /\ s.y \in Nat /\ p.x \in Nat /\ p.y \in Nat /\ e.y \in Nat
  BY <1>1 DEF Position
<1>3. CASE p.y < s.y \/ (p.y = s.y /\ p.x < s.x)
  <2>1. AtOrBefore(p, s)  BY <1>2, <1>3 DEF AtOrBefore
  <2>2. InText(u, p)  BY <1>1, <2>1, CommonBefore
  <2>3. QED  BY <1>3, <2>2 DEF AdjustForInsert
<1>4. CASE ~(p.y < s.y \/ (p.y = s.y /\ p.x < s.x))
  <2>1. AtOrBefore(s, p)  BY <1>2, <1>4 DEF AtOrBefore
  <2>2. InText(u, IF p.y = s.y THEN At(e.x + (p.x - s.x), e.y)
                               ELSE At(p.x, e.y + (p.y - s.y)))
    BY <1>1, <2>1, CommonAfter
  <2>3. p.y + (e.y - s.y) = e.y + (p.y - s.y) /\ (p.y = s.y => p.y + (e.y - s.y) = e.y)
    BY <1>2
  <2>4. QED  BY <1>4, <2>2, <2>3 DEF AdjustForInsert
<1>5. QED  BY <1>3, <1>4

LEMMA DeleteKeepsInText ==
  ASSUME NEW t \in Text, NEW s \in Position, InText(t, s),
         NEW e \in Position, InText(t, e), AtOrBefore(s, e),
         NEW u, u = BulkDelete(t, s, e),
         NEW p \in Position, InText(t, p)
  PROVE  InText(u, AdjustForDelete(p, s, e))
<1>1. /\ u \in Text /\ InText(u, s)
      /\ Before(u, s) = Before(t, s) /\ After(u, s) = After(t, e)
  BY Deleted
<1>2. s.x \in Nat /\ s.y \in Nat /\ p.x \in Nat /\ p.y \in Nat /\ e.x \in Nat /\ e.y \in Nat
  BY DEF Position
<1>3. CASE AtOrBefore(p, s)
  <2>1. InText(u, p)  BY <1>1, <1>3, CommonBefore
  <2>2. QED  BY <1>3, <2>1 DEF AdjustForDelete
<1>4. CASE ~AtOrBefore(p, s) /\ AtOrBefore(p, e)  BY <1>1, <1>4 DEF AdjustForDelete
<1>5. CASE ~AtOrBefore(p, s) /\ ~AtOrBefore(p, e)
  <2>1. AtOrBefore(e, p)  BY <1>2, <1>5 DEF AtOrBefore
  <2>2. InText(u, IF p.y = e.y THEN At(s.x + (p.x - e.x), s.y)
                               ELSE At(p.x, s.y + (p.y - e.y)))
    BY <1>1, <2>1, CommonAfter
  <2>3. p.y - (e.y - s.y) = s.y + (p.y - e.y)  BY <1>2
  <2>4. QED  BY <1>5, <2>2, <2>3 DEF AdjustForDelete
<1>6. QED  BY <1>3, <1>4, <1>5

LEMMA PositionsAre ==
  ASSUME NEW t \in Text, NEW p \in Positions(t)
  PROVE  p \in Position /\ InText(t, p)
<1>1. PICK y \in 0..(NumRows(t) - 1) : \E x \in 0..Size(t, y) : p = At(x, y)
  BY DEF Positions
<1>0. PICK x \in 0..Size(t, y) : p = At(x, y)  BY <1>1
<1>2. NumRows(t) \in Nat /\ Size(t, y) \in Nat
  <2>1. Len(t) \in Nat  BY TextElements
  <2>2. y + 1 \in 1..Len(t)  BY <2>1 DEF NumRows
  <2>3. QED  BY <2>1, <2>2, TextElements DEF NumRows, Size
<1>3. x \in Nat /\ y \in Nat /\ y < NumRows(t) /\ x <= Size(t, y)  BY <1>2
<1>4. QED  BY <1>0, <1>3 DEF Position, InText, At

=============================================================================
