--------------------------- MODULE RowEditsProofs ---------------------------
(***************************************************************************)
(* Proofs about RowEdits, for every set of bytes, holders and payloads and *)
(* every bound on the text: what TLC checks on texts of three short rows   *)
(* holds of every text.  The invariant is that the rows are a text and     *)
(* what is held lies in it; the rest is the algebra of TextRowsProofs and, *)
(* for the flat offsets, that the string of two texts put together is the  *)
(* two strings put together, and an offset the length of what is before it.*)
(***************************************************************************)
EXTENDS RowEdits, TextRowsProofs

Inv == TypeOK /\ HeldInText

-----------------------------------------------------------------------------
LEMMA Payloads ==
  ASSUME NEW d \in Payload
  PROVE  d \in Text
BY InsertAssumption

LEMMA InitOK == Init => Inv
<1>1. SUFFICES ASSUME Init  PROVE Inv  OBVIOUS
<1>2. rows \in Text  BY <1>1, ConcatEmpty DEF Init, EmptyText, Text, Row
<1>3. held \in [Holder -> Position \cup {NoPoint}] /\ \A h \in Holder : held[h] = NoPoint
  BY <1>1 DEF Init
<1>4. QED  BY <1>2, <1>3 DEF Inv, TypeOK, HeldInText

(* What an adjustment does to all that is held. *)
LEMMA HeldMoved ==
  ASSUME Inv, NEW s, NEW e, NEW is_delete,
         held' = HeldAfter(s, e, is_delete),
         \A p \in Position : InText(rows, p) =>
            LET q == AdjustPoint(p, s, e, is_delete) IN q \in Position /\ InText(rows', q)
  PROVE  held' \in [Holder -> Position \cup {NoPoint}] /\ HeldInText'
<1>1. held \in [Holder -> Position \cup {NoPoint}]  BY DEF Inv, TypeOK
<1>2. ASSUME NEW h \in Holder
      PROVE  /\ held'[h] \in Position \cup {NoPoint}
             /\ held'[h] # NoPoint => InText(rows', held'[h])
  <2>1. held'[h] = IF held[h] = NoPoint THEN NoPoint
                   ELSE AdjustPoint(held[h], s, e, is_delete)
    BY DEF HeldAfter
  <2>2. CASE held[h] = NoPoint  BY <2>1, <2>2
  <2>3. CASE held[h] # NoPoint
    <3>1. held[h] \in Position /\ InText(rows, held[h])
      BY <1>1, <2>3 DEF Inv, HeldInText
    <3>2. QED  BY <2>1, <2>3, <3>1
  <2>4. QED  BY <2>2, <2>3
<1>3. held' = [h \in Holder |-> held'[h]]  BY DEF HeldAfter
<1>4. QED  BY <1>2, <1>3 DEF HeldInText

LEMMA InsertKeeps ==
  ASSUME Inv, Insert
  PROVE  Inv'
<1>1. PICK s \in Positions(rows), d \in Payload : InsertAt(s, d)  BY DEF Insert
<1>2. rows \in Text /\ d \in Text /\ s \in Position /\ InText(rows, s)
  BY PositionsAre, Payloads DEF Inv, TypeOK
<1> DEFINE e == ComputeInsertEnd(d, s)
<1>3. rows' = BulkInsert(rows, s, d) /\ held' = HeldAfter(s, e, FALSE)
  BY <1>1 DEF InsertAt
<1>4. rows' \in Text /\ e \in Position /\ AtOrBefore(s, e)  BY <1>2, <1>3, Inserted
<1>5. ASSUME NEW p \in Position, InText(rows, p)
      PROVE  LET q == AdjustPoint(p, s, e, FALSE) IN q \in Position /\ InText(rows', q)
  <2>1. AdjustForInsert(p, s, e) \in Position  BY <1>2, <1>4, InsertMoves
  <2>2. InText(rows', AdjustForInsert(p, s, e))  BY <1>2, <1>3, <1>5, InsertKeepsInText
  <2>3. QED  BY <2>1, <2>2 DEF AdjustPoint
<1> HIDE DEF e
<1>6. held' \in [Holder -> Position \cup {NoPoint}] /\ HeldInText'
  BY <1>3, <1>5, HeldMoved
<1>7. QED  BY <1>4, <1>6 DEF Inv, TypeOK

LEMMA DeleteKeeps ==
  ASSUME Inv, Delete
  PROVE  Inv'
<1>1. PICK s \in Positions(rows), e \in Positions(rows) : AtOrBefore(s, e) /\ DeleteBetween(s, e)
  BY DEF Delete
<1>2. /\ rows \in Text /\ s \in Position /\ InText(rows, s)
      /\ e \in Position /\ InText(rows, e)
  BY PositionsAre DEF Inv, TypeOK
<1>3. rows' = BulkDelete(rows, s, e) /\ held' = HeldAfter(s, e, TRUE)
  <2> DEFINE r == ClampRange(rows, s, e)
  <2>1. r[1] = s /\ r[2] = e  BY <1>1, <1>2, DeletionIs
  <2> HIDE DEF r
  <2>2. QED  BY <1>1, <2>1 DEF DeleteBetween, r
<1>4. rows' \in Text  BY <1>1, <1>2, <1>3, Deleted
<1>5. ASSUME NEW p \in Position, InText(rows, p)
      PROVE  LET q == AdjustPoint(p, s, e, TRUE) IN q \in Position /\ InText(rows', q)
  <2>1. AdjustForDelete(p, s, e) \in Position  BY <1>1, <1>2, DeleteMoves
  <2>2. InText(rows', AdjustForDelete(p, s, e))
    BY <1>1, <1>2, <1>3, <1>5, DeleteKeepsInText
  <2>3. QED  BY <2>1, <2>2 DEF AdjustPoint
<1>6. held' \in [Holder -> Position \cup {NoPoint}] /\ HeldInText'
  BY <1>3, <1>5, HeldMoved
<1>7. QED  BY <1>4, <1>6 DEF Inv, TypeOK

LEMMA HoldKeeps ==
  ASSUME Inv, HoldOne
  PROVE  Inv'
<1>1. PICK h \in Holder, p \in Positions(rows) : HoldAt(h, p)  BY DEF HoldOne
<1>2. rows \in Text /\ p \in Position /\ InText(rows, p)  BY PositionsAre DEF Inv, TypeOK
<1>3. rows' = rows /\ held' = [held EXCEPT ![h] = p]  BY <1>1 DEF HoldAt
<1>4. held \in [Holder -> Position \cup {NoPoint}]  BY DEF Inv, TypeOK
<1>5. held' \in [Holder -> Position \cup {NoPoint}]  BY <1>2, <1>3, <1>4
<1>6. ASSUME NEW k \in Holder, held'[k] # NoPoint
      PROVE  InText(rows', held'[k])
  <2>1. CASE k = h  BY <1>2, <1>3, <1>4, <2>1
  <2>2. CASE k # h  BY <1>3, <1>4, <1>6, <2>2 DEF Inv, HeldInText
  <2>3. QED  BY <2>1, <2>2
<1>7. QED  BY <1>2, <1>3, <1>5, <1>6 DEF Inv, TypeOK, HeldInText

LEMMA NextKeeps == Inv /\ [Next]_rvars => Inv'
<1>1. SUFFICES ASSUME Inv, [Next]_rvars  PROVE Inv'  OBVIOUS
<1>2. CASE Insert  BY <1>1, <1>2, InsertKeeps
<1>3. CASE Delete  BY <1>1, <1>3, DeleteKeeps
<1>4. CASE HoldOne  BY <1>1, <1>4, HoldKeeps
<1>5. CASE UNCHANGED rvars  BY <1>1, <1>5 DEF Inv, TypeOK, HeldInText, rvars
<1>6. QED  BY <1>1, <1>2, <1>3, <1>4, <1>5 DEF Next

-----------------------------------------------------------------------------
(* The rows are always a text of at least one row, whatever is inserted and *)
(* deleted (struct buffer, numrows >= 1).                                   *)
THEOREM TypeCorrect == Spec => []TypeOK
<1>1. Inv => TypeOK  BY DEF Inv
<1>2. QED  BY <1>1, InitOK, NextKeeps, PTL DEF Spec

(* A position adjustPoint has moved is a position of the new text, however  *)
(* the edit joined or split rows.                                           *)
THEOREM HeldStaysInText == Spec => []HeldInText
<1>1. Inv => HeldInText  BY DEF Inv
<1>2. QED  BY <1>1, InitOK, NextKeeps, PTL DEF Spec

(* A replay restores the text: undoStep's deletion takes back an insertion, *)
(* its insertion a deletion, for every text, range and payload.             *)
THEOREM EditsAlwaysInvert == Spec => []EditsInvert
<1>1. ASSUME TypeOK  PROVE EditsInvert
  <2>0. rows \in Text  BY <1>1 DEF TypeOK
  <2>1. ASSUME NEW s \in Positions(rows), NEW e \in Positions(rows), AtOrBefore(s, e)
        PROVE  LET d == CollectRegionText(rows, s, e)
               IN  /\ ComputeInsertEnd(d, s) = e
                   /\ BulkInsert(BulkDelete(rows, s, e), s, d) = rows
    <3>1. s \in Position /\ InText(rows, s) /\ e \in Position /\ InText(rows, e)
      BY <2>0, PositionsAre
    <3>2. QED  BY <2>0, <2>1, <3>1, DeletionUndone
  <2>2. ASSUME NEW s \in Positions(rows), NEW d \in Payload
        PROVE  LET e == ComputeInsertEnd(d, s)
               IN  /\ CollectRegionText(BulkInsert(rows, s, d), s, e) = d
                   /\ BulkDelete(BulkInsert(rows, s, d), s, e) = rows
    <3>1. s \in Position /\ InText(rows, s) /\ d \in Text  BY <2>0, PositionsAre, Payloads
    <3>2. QED  BY <2>0, <3>1, InsertionUndone
  <2>3. QED  BY <2>1, <2>2 DEF EditsInvert
<1>2. QED  BY <1>1, TypeCorrect, PTL

(* Typing run together by undoMerge replays as what was typed: two          *)
(* insertions end to end are one, for every text and all payloads.          *)
THEOREM InsertionsAlwaysJoin == Spec => []InsertionsJoin
<1>1. ASSUME TypeOK  PROVE InsertionsJoin
  <2>1. ASSUME NEW s \in Positions(rows), NEW d \in Payload, NEW e \in Payload
        PROVE  LET joint == ComputeInsertEnd(d, s)
               IN  /\ BulkInsert(BulkInsert(rows, s, d), joint, e)
                        = BulkInsert(rows, s, Concat(d, e))
                   /\ ComputeInsertEnd(Concat(d, e), s) = ComputeInsertEnd(e, joint)
    <3>1. rows \in Text  BY <1>1 DEF TypeOK
    <3>2. s \in Position /\ InText(rows, s) /\ d \in Text /\ e \in Text
      BY <3>1, PositionsAre, Payloads
    <3>3. QED  BY <3>1, <3>2, InsertionsJoined
  <2>2. QED  BY <2>1 DEF InsertionsJoin
<1>2. QED  BY <1>1, TypeCorrect, PTL

-----------------------------------------------------------------------------
(* Where rows start, and their string *)

(* A way through V from c, the i-th step of it a step of R.                 *)
Way(f, j, V, c, R) ==
  /\ f \in [0..j -> V] /\ f[0] = c
  /\ \A i \in 1..j : <<i, f[i - 1], f[i]>> \in R

LEMMA Walk ==
  ASSUME NEW k \in Nat, NEW V, NEW c \in V, NEW R,
         \A i \in 1..k, x \in V : \E y \in V : <<i, x, y>> \in R
  PROVE  \E f : Way(f, k, V, c, R)
<1> DEFINE G == { j \in 0..k : \E f : Way(f, j, V, c, R) }
<1>1. 0 \in G
  <2> DEFINE f == [i \in 0..0 |-> c]
  <2>1. Way(f, 0, V, c, R)  BY DEF Way
  <2>2. QED  BY <2>1
<1>2. ASSUME NEW j \in 0..(k - 1), j \in G  PROVE j + 1 \in G
  <2>1. PICK f : Way(f, j, V, c, R)  BY <1>2
  <2>2. f[j] \in V /\ j + 1 \in 1..k  BY <2>1 DEF Way
  <2>3. PICK y \in V : <<j + 1, f[j], y>> \in R  BY <2>2
  <2> DEFINE g == [i \in 0..(j + 1) |-> IF i = j + 1 THEN y ELSE f[i]]
  <2>4. g \in [0..(j + 1) -> V] /\ g[0] = c  BY <2>1 DEF Way
  <2>5. ASSUME NEW i \in 1..(j + 1)  PROVE <<i, g[i - 1], g[i]>> \in R
    <3>1. CASE i = j + 1
      <4>1. g[i] = y /\ g[i - 1] = f[j]  BY <3>1
      <4>2. QED  BY <2>3, <3>1, <4>1
    <3>2. CASE i # j + 1
      <4>1. i \in 1..j /\ g[i] = f[i] /\ g[i - 1] = f[i - 1]  BY <3>2
      <4>2. <<i, f[i - 1], f[i]>> \in R  BY <2>1, <4>1 DEF Way
      <4>3. QED  BY <4>1, <4>2
    <3>3. QED  BY <3>1, <3>2
  <2>6. Way(g, j + 1, V, c, R)
    <3> HIDE DEF g
    <3>1. QED  BY <2>4, <2>5 DEF Way
  <2>7. QED  BY <2>2, <2>6
<1> HIDE DEF G
<1>3. k \in G
  <2>1. \A i \in 0..k : i \in G  BY <1>1, <1>2, UpTo
  <2>2. QED  BY <2>1
<1>4. QED  BY <1>3 DEF G

(* The function RowStart defines by recursion, up to row y.                 *)
Starts(f, t, y) ==
  f = [i \in 0..y |-> IF i = 0 THEN 0 ELSE f[i - 1] + Size(t, i - 1) + 1]

LEMMA StartsExist ==
  ASSUME NEW t \in Text, NEW y \in 0..Len(t)
  PROVE  \E f \in [0..y -> Nat] : Starts(f, t, y)
<1> DEFINE R == { s \in Nat \X Nat \X Nat : s[3] = s[2] + Size(t, s[1] - 1) + 1 }
<1>1. y \in Nat /\ \A i \in 1..y : Size(t, i - 1) \in Nat
  <2>1. Len(t) \in Nat /\ \A i \in 1..Len(t) : Len(t[i]) \in Nat  BY TextElements
  <2>2. \A i \in 1..y : i \in 1..Len(t) /\ (i - 1) + 1 = i  BY <2>1
  <2>3. QED  BY <2>1, <2>2 DEF Size
<1>2. ASSUME NEW i \in 1..y, NEW x \in Nat  PROVE \E z \in Nat : <<i, x, z>> \in R
  <2>1. PICK z \in Nat : z = x + Size(t, i - 1) + 1  BY <1>1
  <2>2. <<i, x, z>> \in R  BY <2>1
  <2>3. QED  BY <2>2
<1>3. PICK f \in [0..y -> Nat] : f[0] = 0 /\ \A i \in 1..y : <<i, f[i - 1], f[i]>> \in R
  <2> HIDE DEF R
  <2>1. 0 \in Nat  OBVIOUS
  <2>2. \E f : Way(f, y, Nat, 0, R)  BY <1>1, <1>2, <2>1, Walk
  <2>3. QED  BY <2>2 DEF Way
<1>4. \A i \in 1..y : f[i] = f[i - 1] + Size(t, i - 1) + 1  BY <1>3
<1> DEFINE h == [i \in 0..y |-> IF i = 0 THEN 0 ELSE f[i - 1] + Size(t, i - 1) + 1]
<1>5. \A i \in 0..y : f[i] = h[i]
  <2>1. ASSUME NEW i \in 0..y  PROVE f[i] = h[i]
    <3>1. CASE i = 0  BY <1>3, <3>1
    <3>2. CASE i # 0
      <4>1. i \in 1..y  BY <1>1, <3>2
      <4>2. QED  BY <1>4, <4>1
    <3>3. QED  BY <3>1, <3>2
  <2>2. QED  BY <2>1
<1>6. f = h
  <2>1. f = [i \in 0..y |-> f[i]] /\ h = [i \in 0..y |-> h[i]]  BY <1>3
  <2> HIDE DEF h
  <2>2. QED  BY <1>5, <2>1
<1>7. QED  BY <1>6 DEF Starts

(* It is the same function for every row it is asked for.                   *)
LEMMA StartsAgree ==
  ASSUME NEW t, NEW u, NEW y \in Nat, NEW z \in Nat, NEW f, NEW g,
         Starts(f, t, y), Starts(g, u, z),
         NEW k \in Nat, k <= y, k <= z, \A i \in 1..k : Size(t, i - 1) = Size(u, i - 1)
  PROVE  f[k] = g[k]
<1> DEFINE G == { j \in 0..k : f[j] = g[j] }
<1>1. \A i \in 0..y : f[i] = IF i = 0 THEN 0 ELSE f[i - 1] + Size(t, i - 1) + 1
  BY DEF Starts
<1>2. \A i \in 0..z : g[i] = IF i = 0 THEN 0 ELSE g[i - 1] + Size(u, i - 1) + 1
  BY DEF Starts
<1>3. 0 \in G  BY <1>1, <1>2
<1>4. ASSUME NEW i \in 0..(k - 1), i \in G  PROVE i + 1 \in G
  <2>1. PICK j \in 1..k : j = i + 1 /\ j - 1 = i  OBVIOUS
  <2>2. j \in 0..y /\ j \in 0..z /\ j # 0  BY <2>1
  <2>3. f[j] = f[j - 1] + Size(t, j - 1) + 1 /\ g[j] = g[j - 1] + Size(u, j - 1) + 1
    BY <1>1, <1>2, <2>2
  <2>4. f[j - 1] = g[j - 1]  BY <1>4, <2>1
  <2>5. f[j] = g[j]  BY <2>1, <2>3, <2>4
  <2>6. QED  BY <2>1, <2>5
<1> HIDE DEF G
<1>5. k \in G
  <2>1. \A i \in 0..k : i \in G  BY <1>3, <1>4, UpTo
  <2>2. QED  BY <2>1
<1>6. QED  BY <1>5 DEF G

StartFacts(t) ==
  /\ RowStart(t, 0) = 0
  /\ \A y \in 0..Len(t) : RowStart(t, y) \in Nat
  /\ \A y \in 0..(Len(t) - 1) : RowStart(t, y + 1) = RowStart(t, y) + Size(t, y) + 1

LEMMA StartOf ==
  ASSUME NEW t \in Text, NEW y \in 0..Len(t)
  PROVE  \E f \in [0..y -> Nat] : Starts(f, t, y) /\ RowStart(t, y) = f[y]
<1>1. PICK f : f = CHOOSE g : Starts(g, t, y)  OBVIOUS
<1>2. PICK g \in [0..y -> Nat] : Starts(g, t, y)  BY StartsExist
<1>3. Starts(f, t, y)  BY <1>1, <1>2
<1>4. RowStart(t, y) = f[y]  BY <1>1 DEF RowStart, Starts
<1>5. Len(t) \in Nat  BY TextElements
<1>6. f[y] = g[y]
  <2>1. y \in Nat /\ y <= y  BY <1>5
  <2>2. QED  BY <1>2, <1>3, <2>1, StartsAgree
<1>7. QED  BY <1>2, <1>4, <1>6

(* Where a row starts depends on the rows before it only.                   *)
LEMMA SameStart ==
  ASSUME NEW t \in Text, NEW u \in Text, NEW y \in Nat, y <= Len(t), y <= Len(u),
         \A i \in 1..y : t[i] = u[i]
  PROVE  RowStart(t, y) = RowStart(u, y)
<1>1. Len(t) \in Nat /\ Len(u) \in Nat  BY TextElements
<1>2. y \in 0..Len(t) /\ y \in 0..Len(u)  BY <1>1
<1>3. PICK f : Starts(f, t, y) /\ RowStart(t, y) = f[y]  BY <1>2, StartOf
<1>4. PICK g : Starts(g, u, y) /\ RowStart(u, y) = g[y]  BY <1>2, StartOf
<1>5. \A i \in 1..y : Size(t, i - 1) = Size(u, i - 1)
  <2>1. \A i \in 1..y : (i - 1) + 1 = i  OBVIOUS
  <2>2. QED  BY <2>1 DEF Size
<1>6. f[y] = g[y]  BY <1>3, <1>4, <1>5, StartsAgree
<1>7. QED  BY <1>3, <1>4, <1>6

LEMMA StartsAre ==
  ASSUME NEW t \in Text
  PROVE  StartFacts(t)
<1>1. Len(t) \in Nat  BY TextElements
<1>2. RowStart(t, 0) = 0
  <2>1. 0 \in 0..Len(t)  BY <1>1
  <2>2. PICK f : Starts(f, t, 0) /\ RowStart(t, 0) = f[0]  BY <2>1, StartOf
  <2>3. QED  BY <2>2 DEF Starts
<1>3. ASSUME NEW y \in 0..Len(t)  PROVE RowStart(t, y) \in Nat
  <2>1. PICK f \in [0..y -> Nat] : RowStart(t, y) = f[y]  BY StartOf
  <2>2. QED  BY <1>1, <2>1
<1>4. ASSUME NEW y \in 0..(Len(t) - 1)
      PROVE  RowStart(t, y + 1) = RowStart(t, y) + Size(t, y) + 1
  <2>1. PICK z \in 0..Len(t) : z = y + 1 /\ z - 1 = y /\ z \in Nat /\ z # 0  BY <1>1
  <2>2. PICK g : Starts(g, t, z) /\ RowStart(t, z) = g[z]  BY StartOf
  <2>3. y \in 0..Len(t) /\ y \in Nat /\ y <= z  BY <1>1, <2>1
  <2>4. PICK f : Starts(f, t, y) /\ RowStart(t, y) = f[y]  BY <2>3, StartOf
  <2>5. f[y] = g[y]
    <3>1. y <= y  BY <2>3
    <3>2. QED  BY <2>1, <2>2, <2>3, <2>4, <3>1, StartsAgree
  <2>6. g[z] = g[z - 1] + Size(t, z - 1) + 1
    <3>1. z \in 0..z  BY <2>1
    <3>2. g[z] = IF z = 0 THEN 0 ELSE g[z - 1] + Size(t, z - 1) + 1
      BY <2>2, <3>1 DEF Starts
    <3>3. QED  BY <2>1, <3>2
  <2>7. QED  BY <2>1, <2>2, <2>4, <2>5, <2>6
<1>5. QED  BY <1>2, <1>3, <1>4 DEF StartFacts

-----------------------------------------------------------------------------
(* The string of a text *)

Char == Byte \cup {NL}

(* u[y] is the string of the first y rows.                                  *)
StringIs(u, t) ==
  /\ u \in [1..Len(t) -> Seq(Char)]
  /\ u[1] = t[1]
  /\ \A y \in 2..Len(t) : u[y] = u[y - 1] \o <<NL>> \o t[y]
  /\ RowsToString(t) = u[Len(t)]

LEMMA RowsAreStrings ==
  ASSUME NEW t \in Text, NEW i \in 1..Len(t)
  PROVE  t[i] \in Seq(Char) /\ <<NL>> \in Seq(Char) /\ Len(<<NL>>) = 1
<1>1. t[i] \in Seq(Byte)  BY TextElements DEF Row
<1>2. QED  BY <1>1 DEF Char

(* The function RowsToString defines by recursion.                          *)
Joined(u, t) ==
  u = [y \in 1..Len(t) |-> IF y = 1 THEN t[1] ELSE u[y - 1] \o <<NL>> \o t[y]]

LEMMA JoinedTyped ==
  ASSUME NEW t \in Text, NEW u, Joined(u, t)
  PROVE  /\ u \in [1..Len(t) -> Seq(Char)]
         /\ u[1] = t[1]
         /\ \A y \in 2..Len(t) : u[y] = u[y - 1] \o <<NL>> \o t[y]
<1>1. Len(t) \in Nat /\ Len(t) >= 1  BY TextElements
<1>2. PICK k \in Nat : Len(t) = k + 1  BY <1>1
<1>3. \A y \in 1..Len(t) : u[y] = IF y = 1 THEN t[1] ELSE u[y - 1] \o <<NL>> \o t[y]
  BY DEF Joined
<1>4. u[1] = t[1] /\ \A y \in 2..Len(t) : u[y] = u[y - 1] \o <<NL>> \o t[y]
  <2>1. 1 \in 1..Len(t) /\ \A y \in 2..Len(t) : y \in 1..Len(t) /\ y # 1  BY <1>1
  <2>2. QED  BY <1>3, <2>1, Zenon
<1> DEFINE G == { j \in 0..k : u[j + 1] \in Seq(Char) }
<1>5. 0 \in G
  <2>1. 1 \in 1..Len(t)  BY <1>1
  <2>2. t[1] \in Seq(Char)  BY <2>1, RowsAreStrings
  <2>3. QED  BY <1>4, <2>2
<1>6. ASSUME NEW i \in 0..(k - 1), i \in G  PROVE i + 1 \in G
  <2>1. PICK y \in 2..Len(t) : y = i + 2 /\ y - 1 = i + 1 /\ y \in 1..Len(t)  BY <1>2
  <2>2. u[y - 1] \in Seq(Char)  BY <1>6, <2>1
  <2>3. t[y] \in Seq(Char) /\ <<NL>> \in Seq(Char)  BY <2>1, RowsAreStrings
  <2>4. u[y - 1] \o <<NL>> \o t[y] \in Seq(Char)  BY <2>2, <2>3
  <2>5. u[y] \in Seq(Char)  BY <1>4, <2>4
  <2>6. (i + 1) + 1 = y /\ i + 1 \in 0..k  BY <2>1
  <2>7. QED  BY <2>5, <2>6
<1>7. \A j \in 0..k : j \in G
  <2> HIDE DEF G
  <2>1. QED  BY <1>5, <1>6, UpTo
<1>8. \A y \in 1..Len(t) : u[y] \in Seq(Char)
  <2>1. ASSUME NEW y \in 1..Len(t)  PROVE u[y] \in Seq(Char)
    <3>1. PICK j \in 0..k : j + 1 = y
      <4>1. y - 1 \in 0..k /\ (y - 1) + 1 = y  BY <1>2
      <4>2. QED  BY <4>1
    <3>2. QED  BY <1>7, <3>1
  <2>2. QED  BY <2>1
<1>9. u = [y \in 1..Len(t) |-> u[y]]  BY DEF Joined
<1>10. QED  BY <1>4, <1>8, <1>9

LEMMA JoinedExists ==
  ASSUME NEW t \in Text
  PROVE  \E u : Joined(u, t)
<1>1. Len(t) \in Nat /\ Len(t) >= 1  BY TextElements
<1>2. PICK k \in Nat : Len(t) = k + 1  BY <1>1
<1> DEFINE V == Seq(Char)
           R == { s \in Nat \X V \X V : s[3] = s[2] \o <<NL>> \o t[s[1] + 1] }
<1>3. t[1] \in V
  <2>1. 1 \in 1..Len(t)  BY <1>1
  <2>2. QED  BY <2>1, RowsAreStrings
<1>4. ASSUME NEW i \in 1..k, NEW x \in V  PROVE \E z \in V : <<i, x, z>> \in R
  <2>1. i + 1 \in 1..Len(t) /\ i \in Nat  BY <1>2
  <2>2. t[i + 1] \in V /\ <<NL>> \in V  BY <2>1, RowsAreStrings
  <2>3. PICK r \in V, l \in V : r = t[i + 1] /\ l = <<NL>>  BY <2>2
  <2>4. x \o l \o r \in V  OBVIOUS
  <2>5. <<i, x, x \o l \o r>> \in R  BY <2>1, <2>3, <2>4
  <2>6. QED  BY <2>4, <2>5
<1>5. PICK f : /\ f \in [0..k -> V] /\ f[0] = t[1]
               /\ \A i \in 1..k : <<i, f[i - 1], f[i]>> \in R
  <2> HIDE DEF R, V
  <2>1. \E f : Way(f, k, V, t[1], R)  BY <1>3, <1>4, Walk
  <2>2. QED  BY <2>1 DEF Way
<1>6. \A i \in 1..k : f[i] = f[i - 1] \o <<NL>> \o t[i + 1]  BY <1>5
<1> DEFINE u == [y \in 1..Len(t) |-> f[y - 1]]
           h == [y \in 1..Len(t) |-> IF y = 1 THEN t[1] ELSE u[y - 1] \o <<NL>> \o t[y]]
<1>7. ASSUME NEW y \in 1..Len(t)  PROVE u[y] = h[y]
  <2>1. u[y] = f[y - 1]  OBVIOUS
  <2>2. CASE y = 1
    <3>1. u[y] = f[0] /\ h[y] = t[1]  BY <2>1, <2>2
    <3>2. QED  BY <1>5, <3>1
  <2>3. CASE y # 1
    <3>1. PICK i \in 1..k : i = y - 1 /\ i + 1 = y /\ i \in 1..Len(t)
      <4>1. y - 1 \in 1..k /\ (y - 1) + 1 = y /\ y - 1 \in 1..Len(t)  BY <1>2, <2>3
      <4>2. QED  BY <4>1
    <3>2. u[i] = f[i - 1]  BY <3>1
    <3>3. f[i] = f[i - 1] \o <<NL>> \o t[y]  BY <1>6, <3>1
    <3>4. h[y] = u[i] \o <<NL>> \o t[y]  BY <2>3, <3>1
    <3> HIDE DEF u, h
    <3>5. QED  BY <2>1, <3>1, <3>2, <3>3, <3>4
  <2>4. QED  BY <2>2, <2>3
<1>8. u = h
  <2>1. u = [y \in 1..Len(t) |-> u[y]] /\ h = [y \in 1..Len(t) |-> h[y]]  OBVIOUS
  <2> HIDE DEF u, h
  <2>2. QED  BY <1>7, <2>1
<1>9. Joined(u, t)
  <2> HIDE DEF u
  <2>1. QED  BY <1>8 DEF Joined
<1>10. QED  BY <1>9

LEMMA StringOf ==
  ASSUME NEW t \in Text
  PROVE  /\ \E u : StringIs(u, t)
         /\ RowsToString(t) \in Seq(Char) /\ Len(RowsToString(t)) \in Nat
<1>1. PICK u : u = CHOOSE v : Joined(v, t)  OBVIOUS
<1>2. Joined(u, t)  BY <1>1, JoinedExists
<1>3. RowsToString(t) = u[Len(t)]  BY <1>1 DEF RowsToString, Joined
<1>4. StringIs(u, t)  BY <1>2, <1>3, JoinedTyped DEF StringIs
<1>5. Len(t) \in 1..Len(t)  BY TextElements
<1>6. RowsToString(t) \in Seq(Char)  BY <1>4, <1>5 DEF StringIs
<1>7. QED  BY <1>4, <1>6

(* Its length is where a row after the last would start, less the newline   *)
(* there would be before it.                                                *)
LEMMA LengthIs ==
  ASSUME NEW t \in Text
  PROVE  Len(RowsToString(t)) = RowStart(t, Len(t)) - 1
<1>1. PICK u : StringIs(u, t)  BY StringOf
<1>2. StartFacts(t)  BY StartsAre
<1>3. PICK k \in Nat : Len(t) = k + 1  BY TextElements
<1> DEFINE G == { j \in 0..k : Len(u[j + 1]) = RowStart(t, j + 1) - 1 }
<1>4. 0 \in G
  <2>1. RowStart(t, 0 + 1) = RowStart(t, 0) + Size(t, 0) + 1 /\ RowStart(t, 0) = 0
    BY <1>2, <1>3 DEF StartFacts
  <2>2. Size(t, 0) = Len(t[1]) /\ Len(t[1]) \in Nat
    <3>1. 1 \in 1..Len(t)  BY <1>3
    <3>2. QED  BY <3>1, TextElements DEF Size
  <2>3. u[1] = t[1]  BY <1>1 DEF StringIs
  <2>4. QED  BY <2>1, <2>2, <2>3
<1>5. ASSUME NEW i \in 0..(k - 1), i \in G  PROVE i + 1 \in G
  <2>1. PICK y \in 2..Len(t) : y = i + 2 /\ y - 1 = i + 1 /\ y \in 1..Len(t)  BY <1>3
  <2>2. y - 1 \in 1..Len(t) /\ y - 1 \in 0..(Len(t) - 1) /\ (y - 1) + 1 = y /\ y - 1 \in 0..Len(t)
    BY <1>3, <2>1
  <2>3. PICK a : a = u[y - 1] /\ a \in Seq(Char)  BY <1>1, <2>2 DEF StringIs
  <2>4. PICK b : b = t[y] /\ b \in Seq(Char) /\ <<NL>> \in Seq(Char)  BY <2>1, RowsAreStrings
  <2>5. u[y] = a \o <<NL>> \o b  BY <1>1, <2>3, <2>4 DEF StringIs
  <2>6. Len(u[y]) = Len(a) + 1 + Len(b) /\ Len(a) \in Nat /\ Len(b) \in Nat
    BY <2>3, <2>4, <2>5
  <2>7. RowStart(t, y) = RowStart(t, y - 1) + Len(b) + 1 /\ RowStart(t, y - 1) \in Nat
    <3>1. RowStart(t, (y - 1) + 1) = RowStart(t, y - 1) + Size(t, y - 1) + 1
          /\ RowStart(t, y - 1) \in Nat
      BY <1>2, <2>2 DEF StartFacts
    <3>2. Size(t, y - 1) = Len(b)  BY <2>2, <2>4 DEF Size
    <3>3. QED  BY <2>2, <3>1, <3>2
  <2>8. Len(a) = RowStart(t, y - 1) - 1  BY <1>5, <2>1, <2>3
  <2>9. Len(u[y]) = RowStart(t, y) - 1  BY <2>6, <2>7, <2>8
  <2>10. (i + 1) + 1 = y /\ i + 1 \in 0..k  BY <2>1
  <2>11. QED  BY <2>9, <2>10
<1>6. k \in G
  <2> HIDE DEF G
  <2>1. \A j \in 0..k : j \in G  BY <1>4, <1>5, UpTo
  <2>2. QED  BY <2>1
<1>7. RowsToString(t) = u[k + 1]  BY <1>1, <1>3 DEF StringIs
<1>8. QED  BY <1>3, <1>6, <1>7

LEMMA CharsAssoc ==
  ASSUME NEW x \in Seq(Char), NEW y \in Seq(Char), NEW z \in Seq(Char)
  PROVE  (x \o y) \o z = x \o (y \o z)
BY ConcatAssociative

(* As far as the first text goes, the strings are the same.                 *)
GoesInto(u, v, m, e) == u[m] = v[m] \o e[1]

LEMMA StringBegins ==
  ASSUME NEW d \in Text, NEW e \in Text, NEW t \in Text, t = Concat(d, e),
         NEW u, StringIs(u, t), NEW v, StringIs(v, d),
         NEW m \in Nat, Len(d) = m
  PROVE  GoesInto(u, v, m, e)
<1> USE DEF GoesInto
<1>1. m >= 1 /\ Len(e) \in Nat /\ Len(e) >= 1 /\ m \in 1..Len(d)  BY TextElements
<1>2. /\ Len(t) = m + Len(e) - 1
      /\ \A i \in 1..(m - 1) : t[i] = d[i]
      /\ t[m] = d[m] \o e[1]
  BY ConcatElements DEF ConcatFacts
<1>3. d[m] \in Seq(Char) /\ <<NL>> \in Seq(Char)  BY <1>1, RowsAreStrings
<1>4. e[1] \in Seq(Char)
  <2>1. 1 \in 1..Len(e)  BY <1>1
  <2>2. QED  BY <2>1, RowsAreStrings
<1>5. CASE m = 1
  <2>1. u[1] = t[1] /\ v[1] = d[1]  BY DEF StringIs
  <2>2. QED  BY <1>2, <1>5, <2>1
<1>6. CASE m # 1
  <2>1. PICK k \in Nat : m = k + 2  BY <1>1, <1>6
  <2> DEFINE G == { j \in 0..k : u[j + 1] = v[j + 1] }
  <2>2. 0 \in G
    <3>1. t[1] = d[1]
      <4>1. 1 \in 1..(m - 1)  BY <2>1
      <4>2. QED  BY <1>2, <4>1
    <3>2. u[1] = t[1] /\ v[1] = d[1]  BY DEF StringIs
    <3>3. QED  BY <3>1, <3>2
  <2>3. ASSUME NEW i \in 0..(k - 1), i \in G  PROVE i + 1 \in G
    <3>1. PICK y \in 2..(m - 1) : y = i + 2 /\ y - 1 = i + 1  BY <2>1
    <3>2. y \in 2..Len(t) /\ y \in 2..Len(d) /\ y \in 1..(m - 1)  BY <1>1, <1>2, <3>1
    <3>3. u[y] = u[y - 1] \o <<NL>> \o t[y] /\ v[y] = v[y - 1] \o <<NL>> \o d[y]
      BY <3>2 DEF StringIs
    <3>4. t[y] = d[y]  BY <1>2, <3>2
    <3>5. u[y - 1] = v[y - 1]  BY <2>3, <3>1
    <3>6. u[y] = v[y]  BY <3>3, <3>4, <3>5
    <3>7. (i + 1) + 1 = y /\ i + 1 \in 0..k  BY <3>1
    <3>8. QED  BY <3>6, <3>7
  <2>4. k \in G
    <3> HIDE DEF G
    <3>1. \A j \in 0..k : j \in G  BY <2>1, <2>2, <2>3, UpTo
    <3>2. QED  BY <2>1, <3>1
  <2>5. u[m - 1] = v[m - 1]
    <3>1. k + 1 = m - 1  BY <2>1
    <3>2. QED  BY <2>4, <3>1
  <2>6. m \in 2..Len(t) /\ m \in 2..Len(d) /\ m - 1 \in 1..Len(d)  BY <1>1, <1>2, <2>1
  <2>7. u[m] = u[m - 1] \o <<NL>> \o t[m] /\ v[m] = v[m - 1] \o <<NL>> \o d[m]
    BY <2>6 DEF StringIs
  <2>8. v[m - 1] \in Seq(Char)  BY <2>6 DEF StringIs
  <2>9. PICK x \in Seq(Char), y \in Seq(Char), z \in Seq(Char) :
          x = v[m - 1] \o <<NL>> /\ y = d[m] /\ z = e[1]
    <3>1. v[m - 1] \o <<NL>> \in Seq(Char)  BY <1>3, <2>8
    <3>2. QED  BY <1>3, <1>4, <3>1
  <2>10. u[m] = x \o (y \o z) /\ v[m] = x \o y  BY <1>2, <2>5, <2>7, <2>9
  <2>11. u[m] = (x \o y) \o z  BY <2>10, CharsAssoc
  <2>12. QED  BY <2>9, <2>10, <2>11
<1>7. QED  BY <1>5, <1>6

(* The string of a text put together is the strings put together.           *)
LEMMA StringsJoin ==
  ASSUME NEW d \in Text, NEW e \in Text
  PROVE  RowsToString(Concat(d, e)) = RowsToString(d) \o RowsToString(e)
<1>1. PICK t \in Text : t = Concat(d, e)  BY ConcatElements DEF ConcatFacts
<1>2. PICK u : StringIs(u, t)  BY StringOf
<1>3. PICK v : StringIs(v, d)  BY StringOf
<1>4. PICK w : StringIs(w, e)  BY StringOf
<1>5. PICK m \in Nat : m = Len(d) /\ m >= 1  BY TextElements
<1>6. PICK k \in Nat : Len(e) = k + 1
  <2>1. Len(e) \in Nat /\ Len(e) >= 1  BY TextElements
  <2>2. Len(e) - 1 \in Nat /\ Len(e) = (Len(e) - 1) + 1  BY <2>1
  <2>3. QED  BY <2>2
<1>7. Len(t) = m + k /\ \A i \in 2..Len(e) : t[m + i - 1] = e[i]
  <2>1. Len(t) = Len(d) + Len(e) - 1 /\ \A i \in 2..Len(e) : t[Len(d) + i - 1] = e[i]
    BY <1>1, ConcatElements DEF ConcatFacts
  <2>2. QED  BY <1>5, <1>6, <2>1
<1>8. PICK x \in Seq(Char) : x = v[m]
  <2>1. m \in 1..Len(d)  BY <1>5
  <2>2. QED  BY <1>3, <2>1 DEF StringIs
<1> DEFINE G == { j \in 0..k : u[m + j] = x \o w[j + 1] }
<1>9. 0 \in G
  <2>1. Len(d) = m  BY <1>5
  <2>2. u[m] = v[m] \o e[1]
    <3>1. GoesInto(u, v, m, e)  BY <1>1, <1>2, <1>3, <2>1, StringBegins
    <3>2. QED  BY <3>1 DEF GoesInto
  <2>3. w[1] = e[1]  BY <1>4 DEF StringIs
  <2>4. u[m] = x \o w[1]  BY <1>8, <2>2, <2>3
  <2>5. m + 0 = m /\ 0 + 1 = 1 /\ 0 \in 0..k  OBVIOUS
  <2>6. u[m + 0] = x \o w[0 + 1]  BY <2>4, <2>5
  <2>7. QED  BY <2>5, <2>6
<1>10. ASSUME NEW i \in 0..(k - 1), i \in G  PROVE i + 1 \in G
  <2>1. PICK y \in 2..Len(e) : y = i + 2 /\ y - 1 = i + 1 /\ y \in 1..Len(e) /\ y - 1 \in 1..Len(e)
    BY <1>6
  <2>2. PICK z \in 2..Len(t) : z = m + y - 1 /\ z - 1 = m + i
    <3>1. m + y - 1 \in 2..Len(t) /\ (m + y - 1) - 1 = m + i  BY <1>5, <1>6, <1>7, <2>1
    <3>2. QED  BY <3>1
  <2>3. u[z] = u[z - 1] \o <<NL>> \o t[z]  BY <1>2, <2>2 DEF StringIs
  <2>4. w[y] = w[y - 1] \o <<NL>> \o e[y] /\ w[y - 1] \in Seq(Char)
    BY <1>4, <2>1 DEF StringIs
  <2>5. t[z] = e[y]  BY <1>7, <2>1, <2>2
  <2>6. u[z - 1] = x \o w[y - 1]  BY <1>10, <2>1, <2>2
  <2>7. PICK a \in Seq(Char), l \in Seq(Char), r \in Seq(Char) :
          a = w[y - 1] /\ l = <<NL>> /\ r = e[y]
    <3>1. e[y] \in Seq(Char) /\ <<NL>> \in Seq(Char)  BY <2>1, RowsAreStrings
    <3>2. QED  BY <2>4, <3>1
  <2>8. u[z] = ((x \o a) \o l) \o r /\ w[y] = (a \o l) \o r
    BY <2>3, <2>4, <2>5, <2>6, <2>7
  <2>9. a \o l \in Seq(Char)  OBVIOUS
  <2>10. (x \o a) \o l = x \o (a \o l)  BY CharsAssoc
  <2>11. (x \o (a \o l)) \o r = x \o ((a \o l) \o r)  BY <2>9, CharsAssoc
  <2>12. u[z] = x \o w[y]  BY <2>8, <2>10, <2>11
  <2>13. m + (i + 1) = z /\ (i + 1) + 1 = y /\ i + 1 \in 0..k  BY <2>1, <2>2
  <2>14. QED  BY <2>12, <2>13
<1>11. k \in G
  <2> HIDE DEF G
  <2>1. \A j \in 0..k : j \in G  BY <1>9, <1>10, UpTo
  <2>2. QED  BY <2>1
<1>12. /\ RowsToString(t) = u[m + k] /\ RowsToString(d) = x
       /\ RowsToString(e) = w[k + 1]
  BY <1>2, <1>3, <1>4, <1>5, <1>6, <1>7, <1>8 DEF StringIs
<1>13. QED  BY <1>1, <1>11, <1>12

LEMMA NoBytes ==
  /\ EmptyText \in Text /\ RowsToString(EmptyText) = <<>>
  /\ \A t \in Text : t # EmptyText => Len(RowsToString(t)) >= 1
<1>1. EmptyText \in Text  BY ConcatEmpty DEF EmptyText, Text, Row
<1>2. RowsToString(EmptyText) = <<>>
  <2>1. PICK u : StringIs(u, EmptyText)  BY <1>1, StringOf
  <2>2. Len(EmptyText) = 1 /\ EmptyText[1] = <<>>  BY DEF EmptyText
  <2>3. QED  BY <2>1, <2>2 DEF StringIs
<1>3. ASSUME NEW t \in Text, t # EmptyText  PROVE Len(RowsToString(t)) >= 1
  <2>1. Len(RowsToString(t)) = RowStart(t, Len(t)) - 1 /\ StartFacts(t)  BY LengthIs, StartsAre
  <2>2. PICK n \in Nat : Len(t) = n + 1  BY TextElements
  <2>3. /\ RowStart(t, n + 1) = RowStart(t, n) + Size(t, n) + 1
        /\ RowStart(t, n) \in Nat
    <3>1. n \in 0..(Len(t) - 1) /\ n \in 0..Len(t)  BY <2>2
    <3>2. QED  BY <2>1, <3>1 DEF StartFacts
  <2>4. Size(t, n) \in Nat
    <3>1. n + 1 \in 1..Len(t)  BY <2>2
    <3>2. QED  BY <3>1, TextElements DEF Size
  <2>5. CASE n = 0
    <3>1. Size(t, 0) # 0
      <4>1. SUFFICES ASSUME Len(t[1]) = 0  PROVE FALSE  BY DEF Size
      <4>2. 1 \in 1..Len(t)  BY <2>2
      <4>3. t[1] \in Seq(Byte)  BY <4>2, TextElements DEF Row
      <4>4. t[1] = <<>>  BY <4>1, <4>3
      <4>5. EmptyText[1] = <<>> /\ Len(EmptyText) = 1  BY DEF EmptyText
      <4>6. t = EmptyText  BY <1>1, <2>2, <2>5, <4>4, <4>5, TextEqual
      <4>7. QED  BY <1>3, <4>6
    <3>2. QED  BY <2>1, <2>2, <2>3, <2>4, <2>5, <3>1
  <2>6. CASE n # 0
    <3>1. PICK k \in Nat : n = k + 1  BY <2>6
    <3>2. RowStart(t, k + 1) = RowStart(t, k) + Size(t, k) + 1 /\ RowStart(t, k) \in Nat
      <4>1. k \in 0..(Len(t) - 1) /\ k \in 0..Len(t)  BY <2>2, <3>1
      <4>2. QED  BY <2>1, <4>1 DEF StartFacts
    <3>3. Size(t, k) \in Nat
      <4>1. k + 1 \in 1..Len(t)  BY <2>2, <3>1
      <4>2. QED  BY <4>1, TextElements DEF Size
    <3>4. QED  BY <2>1, <2>2, <2>3, <2>4, <3>1, <3>2, <3>3
  <2>7. QED  BY <2>5, <2>6
<1>4. QED  BY <1>1, <1>2, <1>3

-----------------------------------------------------------------------------
(* Offsets *)

LEMMA LengthsAdd ==
  ASSUME NEW b \in Text, NEW a \in Text, NEW t, t = Concat(b, a)
  PROVE  /\ t \in Text
         /\ RowsToString(t) = RowsToString(b) \o RowsToString(a)
         /\ Len(RowsToString(t)) = Len(RowsToString(b)) + Len(RowsToString(a))
<1>1. t \in Text  BY ConcatElements DEF ConcatFacts
<1>2. RowsToString(t) = RowsToString(b) \o RowsToString(a)  BY StringsJoin
<1>3. PICK x \in Seq(Char), y \in Seq(Char) : x = RowsToString(b) /\ y = RowsToString(a)
  BY StringOf
<1>4. Len(x \o y) = Len(x) + Len(y)  BY SeqCat
<1>5. QED  BY <1>1, <1>2, <1>3, <1>4

(* An offset is the number of bytes before it.                              *)
LEMMA OffsetIs ==
  ASSUME NEW t \in Text, NEW p \in Position, InText(t, p)
  PROVE  /\ BufOffset(t, p) = RowStart(t, p.y) + p.x
         /\ BufOffset(t, p) = Len(RowsToString(Before(t, p)))
         /\ BufOffset(t, p) \in Nat
<1>1. /\ Len(t) \in Nat /\ p.y \in Nat /\ p.x \in Nat /\ p.y < Len(t)
      /\ Size(t, p.y) \in Nat /\ p.x <= Size(t, p.y)
  <2>1. Len(t) \in Nat /\ p.y \in Nat /\ p.x \in Nat  BY TextElements DEF Position
  <2>2. p.y < Len(t) /\ p.x <= Size(t, p.y)  BY DEF InText, NumRows
  <2>3. p.y + 1 \in 1..Len(t)  BY <2>1, <2>2
  <2>4. Size(t, p.y) \in Nat  BY <2>3, TextElements DEF Size
  <2>5. QED  BY <2>1, <2>2, <2>4
<1>2. BufOffset(t, p) = RowStart(t, p.y) + p.x
  <2>1. ~(p.y > NumRows(t) - 1) /\ ~(p.x > Size(t, p.y))  BY <1>1 DEF NumRows
  <2>2. QED  BY <2>1 DEF BufOffset
<1>3. PICK b \in Text : /\ b = Before(t, p) /\ Len(b) = p.y + 1
                        /\ \A i \in 1..p.y : b[i] = t[i]
                        /\ b[p.y + 1] = SubSeq(t[p.y + 1], 1, p.x)
  BY CutElements DEF CutFacts
<1>4. Size(b, p.y) = p.x
  <2>1. p.y + 1 \in 1..Len(t)  BY <1>1
  <2>2. t[p.y + 1] \in Row /\ p.x \in 0..Len(t[p.y + 1])  BY <1>1, <2>1, TextElements DEF Size
  <2>3. Len(SubSeq(t[p.y + 1], 1, p.x)) = p.x  BY <2>2, RowCut
  <2>4. QED  BY <1>3, <2>3 DEF Size
<1>5. RowStart(b, p.y) = RowStart(t, p.y)
  <2>1. p.y <= Len(t) /\ p.y <= Len(b)  BY <1>1, <1>3
  <2>2. QED  BY <1>1, <1>3, <2>1, SameStart
<1>6. RowStart(b, p.y + 1) = RowStart(b, p.y) + Size(b, p.y) + 1 /\ RowStart(b, p.y) \in Nat
  <2>1. StartFacts(b)  BY StartsAre
  <2>2. p.y \in 0..(Len(b) - 1) /\ p.y \in 0..Len(b)  BY <1>1, <1>3
  <2>3. QED  BY <2>1, <2>2 DEF StartFacts
<1>7. Len(RowsToString(b)) = RowStart(b, p.y + 1) - 1  BY <1>3, LengthIs
<1>8. QED  BY <1>1, <1>2, <1>3, <1>4, <1>5, <1>6, <1>7

LEMMA OffsetAt ==
  ASSUME NEW b \in Text, NEW a \in Text, NEW t, t = Concat(b, a), NEW p, p = EndOf(b)
  PROVE  /\ p \in Position /\ InText(t, p)
         /\ BufOffset(t, p) = Len(RowsToString(b))
<1>1. t \in Text  BY LengthsAdd
<1>2. p \in Position /\ InText(t, p) /\ Before(t, p) = b  BY CutConcat
<1>3. QED  BY <1>1, <1>2, OffsetIs

(* What lies between two positions.                                         *)
Between(t, p, q, m) ==
  /\ m \in Text
  /\ Before(t, q) = Concat(Before(t, p), m) /\ After(t, p) = Concat(m, After(t, q))
  /\ q = ComputeInsertEnd(m, p)
  /\ BufOffset(t, q) = BufOffset(t, p) + Len(RowsToString(m))
  /\ p # q => m # EmptyText

LEMMA TextBetween ==
  ASSUME NEW t \in Text, NEW p \in Position, InText(t, p),
         NEW q \in Position, InText(t, q), AtOrBefore(p, q)
  PROVE  \E m : Between(t, p, q, m)
<1>1. PICK m \in Text : /\ m = CollectRegionText(t, p, q)
                        /\ Concat(Before(t, p), m) = Before(t, q)
                        /\ ComputeInsertEnd(m, p) = q
  BY Collected
<1>2. PICK b \in Text, a \in Text :
        /\ b = Before(t, p) /\ a = After(t, q) /\ Before(t, q) \in Text /\ After(t, p) \in Text
  BY PartsTyped
<1>3. Concat(Before(t, q), a) = t /\ EndOf(b) = p /\ EndOf(Before(t, q)) = q  BY <1>2, Cut
<1>4. After(t, p) = Concat(m, a)
  <2>1. Concat(b, Concat(m, a)) = t  BY <1>1, <1>2, <1>3, ConcatAssoc
  <2>2. Concat(m, a) \in Text  BY LengthsAdd
  <2>3. After(Concat(b, Concat(m, a)), p) = Concat(m, a)  BY <1>3, <2>2, CutConcat
  <2>4. QED  BY <2>1, <2>3
<1>5. BufOffset(t, q) = BufOffset(t, p) + Len(RowsToString(m))
  <2>1. BufOffset(t, p) = Len(RowsToString(b))
    <3>1. BufOffset(t, p) = Len(RowsToString(Before(t, p)))  BY OffsetIs
    <3>2. QED  BY <1>2, <3>1
  <2>2. BufOffset(t, q) = Len(RowsToString(Before(t, q)))  BY OffsetIs
  <2>3. PICK c : c = Before(t, q) /\ c = Concat(b, m)  BY <1>1, <1>2
  <2>4. Len(RowsToString(c)) = Len(RowsToString(b)) + Len(RowsToString(m))
    BY <2>3, LengthsAdd
  <2>5. QED  BY <2>1, <2>2, <2>3, <2>4
<1>6. ASSUME m = EmptyText  PROVE p = q
  <2>1. Concat(b, EmptyText) = b  BY ConcatEmpty
  <2>2. Before(t, q) = b  BY <1>1, <1>2, <1>6, <2>1
  <2>3. QED  BY <1>3, <2>2
<1>7. QED  BY <1>1, <1>2, <1>4, <1>5, <1>6 DEF Between

LEMMA OffsetsOrdered ==
  ASSUME NEW t \in Text, NEW p \in Position, InText(t, p), NEW q \in Position, InText(t, q)
  PROVE  /\ AtOrBefore(p, q) => BufOffset(t, p) <= BufOffset(t, q)
         /\ BufOffset(t, p) <= BufOffset(t, q) => AtOrBefore(p, q)
         /\ AtOrBefore(p, q) /\ p # q => BufOffset(t, p) < BufOffset(t, q)
<1>1. BufOffset(t, p) \in Nat /\ BufOffset(t, q) \in Nat  BY OffsetIs
<1>2. ASSUME NEW x \in Position, InText(t, x), NEW y \in Position, InText(t, y), AtOrBefore(x, y)
      PROVE  BufOffset(t, x) <= BufOffset(t, y) /\ (x # y => BufOffset(t, x) < BufOffset(t, y))
  <2>1. PICK m : Between(t, x, y, m)  BY <1>2, TextBetween
  <2>2. m \in Text /\ BufOffset(t, y) = BufOffset(t, x) + Len(RowsToString(m))
        /\ (x # y => m # EmptyText)
    BY <2>1 DEF Between
  <2>3. Len(RowsToString(m)) \in Nat  BY <2>2, StringOf
  <2>4. m # EmptyText => Len(RowsToString(m)) >= 1  BY <2>2, NoBytes
  <2>5. BufOffset(t, x) \in Nat  BY <1>2, OffsetIs
  <2>6. QED  BY <2>2, <2>3, <2>4, <2>5
<1>3. ASSUME BufOffset(t, p) <= BufOffset(t, q), ~AtOrBefore(p, q)  PROVE FALSE
  <2>1. p.x \in Nat /\ p.y \in Nat /\ q.x \in Nat /\ q.y \in Nat  BY DEF Position
  <2>2. AtOrBefore(q, p) /\ p # q  BY <1>3, <2>1 DEF AtOrBefore
  <2>3. BufOffset(t, q) < BufOffset(t, p)  BY <1>2, <2>2
  <2>4. QED  BY <1>1, <1>3, <2>3
<1>4. QED  BY <1>2, <1>3

LEMMA SameOffset ==
  ASSUME NEW t \in Text, NEW p \in Position, InText(t, p), NEW q \in Position, InText(t, q),
         BufOffset(t, p) = BufOffset(t, q)
  PROVE  p = q
<1>1. BufOffset(t, p) \in Nat /\ BufOffset(t, q) \in Nat  BY OffsetIs
<1>2. AtOrBefore(p, q)  BY <1>1, OffsetsOrdered
<1>3. QED  BY <1>1, <1>2, OffsetsOrdered

LEMMA OffsetWithin ==
  ASSUME NEW t \in Text, NEW p \in Position, InText(t, p)
  PROVE  BufOffset(t, p) \in 0..Len(RowsToString(t)) /\ BufTextLen(t) = Len(RowsToString(t))
<1>1. PICK b \in Text, a \in Text : b = Before(t, p) /\ a = After(t, p) /\ t = Concat(b, a)
  <2>1. Before(t, p) \in Text /\ After(t, p) \in Text  BY PartsTyped
  <2>2. t = Concat(Before(t, p), After(t, p))  BY Cut
  <2>3. QED  BY <2>1, <2>2
<1>2. Len(RowsToString(t)) = Len(RowsToString(b)) + Len(RowsToString(a))  BY <1>1, LengthsAdd
<1>3. Len(RowsToString(b)) \in Nat /\ Len(RowsToString(a)) \in Nat  BY StringOf
<1>4. BufOffset(t, p) = Len(RowsToString(b))
  <2>1. BufOffset(t, p) = Len(RowsToString(Before(t, p)))  BY OffsetIs
  <2>2. QED  BY <1>1, <2>1
<1>5. BufTextLen(t) = Len(RowsToString(t))  BY LengthIs DEF BufTextLen, NumRows
<1>6. QED  BY <1>2, <1>3, <1>4, <1>5

(* bufPos leads to a position of the text that has the offset.              *)
LEMMA PositionOf ==
  ASSUME NEW t \in Text, NEW off \in 0..BufTextLen(t), NEW p, p = BufPos(t, off)
  PROVE  p \in Position /\ InText(t, p) /\ BufOffset(t, p) = off
<1> DEFINE reaches(y) == off <= RowStart(t, y) + Size(t, y)
           G == { y \in 0..(NumRows(t) - 1) : reaches(y) }
<1>1. PICK n \in Nat : Len(t) = n + 1
  <2>1. Len(t) \in Nat /\ Len(t) >= 1  BY TextElements
  <2>2. Len(t) - 1 \in Nat /\ Len(t) = (Len(t) - 1) + 1  BY <2>1
  <2>3. QED  BY <2>2
<1>2. StartFacts(t) /\ NumRows(t) - 1 = n  BY <1>1, StartsAre DEF NumRows
<1>3. /\ RowStart(t, 0) = 0
      /\ \A y \in 0..n : /\ RowStart(t, y) \in Nat /\ Size(t, y) \in Nat
                         /\ RowStart(t, y + 1) = RowStart(t, y) + Size(t, y) + 1
  <2>1. ASSUME NEW y \in 0..n
        PROVE  /\ RowStart(t, y) \in Nat /\ Size(t, y) \in Nat
               /\ RowStart(t, y + 1) = RowStart(t, y) + Size(t, y) + 1
    <3>1. y \in 0..Len(t) /\ y \in 0..(Len(t) - 1) /\ y + 1 \in 1..Len(t)  BY <1>1
    <3>2. Size(t, y) \in Nat  BY <3>1, TextElements DEF Size
    <3>3. QED  BY <1>2, <3>1, <3>2 DEF StartFacts
  <2>2. QED  BY <1>2, <2>1 DEF StartFacts
<1>4. off \in Nat /\ off <= RowStart(t, n) + Size(t, n)
  <2>1. BufTextLen(t) = RowStart(t, n + 1) - 1  BY <1>1 DEF BufTextLen, NumRows
  <2>2. n \in 0..n  OBVIOUS
  <2>3. RowStart(t, n) \in Nat /\ Size(t, n) \in Nat
        /\ RowStart(t, n + 1) = RowStart(t, n) + Size(t, n) + 1
    BY <1>3, <2>2
  <2>4. QED  BY <2>1, <2>3
<1>5. n \in G /\ G \subseteq Nat  BY <1>2, <1>4
<1>6. PICK y \in G : \A z \in G : y <= z
  <2> HIDE DEF G
  <2>1. QED  BY <1>5, Least
<1>7. /\ y \in 0..(NumRows(t) - 1) /\ reaches(y)
      /\ \A z \in 0..(y - 1) : ~reaches(z)
  <2>1. y \in 0..(NumRows(t) - 1) /\ reaches(y)  BY <1>6
  <2>2. ASSUME NEW z \in 0..(y - 1), reaches(z)  PROVE FALSE
    <3>1. z \in 0..(NumRows(t) - 1)  BY <1>2, <2>1
    <3>2. z \in G  BY <2>2, <3>1
    <3>3. y <= z  BY <1>6, <3>2
    <3>4. QED  BY <1>2, <2>1, <3>3
  <2>3. QED  BY <2>1, <2>2
<1>8. PICK w : /\ w \in 0..(NumRows(t) - 1) /\ reaches(w)
               /\ \A z \in 0..(w - 1) : ~reaches(z)
               /\ p = At(off - RowStart(t, w), w)
  <2>1. PICK w : w = CHOOSE v \in 0..(NumRows(t) - 1) :
                       reaches(v) /\ \A z \in 0..(v - 1) : ~reaches(z)
    OBVIOUS
  <2>2. w \in 0..(NumRows(t) - 1) /\ reaches(w) /\ \A z \in 0..(w - 1) : ~reaches(z)
    <3> HIDE DEF reaches
    <3>1. QED  BY <1>7, <2>1
  <2>3. p = At(off - RowStart(t, w), w)  BY <1>7, <2>1 DEF BufPos
  <2>4. QED  BY <2>2, <2>3
<1>9. w \in 0..n /\ w \in Nat  BY <1>2, <1>8
<1>10. RowStart(t, w) <= off
  <2>1. CASE w = 0  BY <1>3, <1>4, <2>1
  <2>2. CASE w # 0
    <3>1. PICK z \in 0..n : z + 1 = w /\ z \in 0..(w - 1)
      <4>1. w - 1 \in 0..n /\ (w - 1) + 1 = w /\ w - 1 \in 0..(w - 1)  BY <1>9, <2>2
      <4>2. QED  BY <4>1
    <3>2. ~(off <= RowStart(t, z) + Size(t, z))  BY <1>8, <3>1
    <3>3. RowStart(t, w) = RowStart(t, z) + Size(t, z) + 1
          /\ RowStart(t, z) \in Nat /\ Size(t, z) \in Nat
      BY <1>3, <3>1
    <3>4. QED  BY <1>4, <3>2, <3>3
  <2>3. QED  BY <2>1, <2>2
<1>11. RowStart(t, w) \in Nat /\ Size(t, w) \in Nat /\ off <= RowStart(t, w) + Size(t, w)
  BY <1>3, <1>8, <1>9
<1>12. PICK x \in Nat : x = off - RowStart(t, w) /\ x <= Size(t, w)
  <2>1. off - RowStart(t, w) \in Nat /\ off - RowStart(t, w) <= Size(t, w)
    BY <1>4, <1>10, <1>11
  <2>2. QED  BY <2>1
<1>13. p = At(x, w)  BY <1>8, <1>12
<1>14. p \in Position /\ p.x = x /\ p.y = w  BY <1>9, <1>13 DEF At, Position
<1>15. InText(t, p)  BY <1>1, <1>9, <1>12, <1>14 DEF InText, NumRows
<1>16. BufOffset(t, p) = RowStart(t, w) + x  BY <1>14, <1>15, OffsetIs
<1>17. QED  BY <1>4, <1>11, <1>12, <1>14, <1>15, <1>16

LEMMA PositionsAll ==
  ASSUME NEW t \in Text, NEW p \in Position, InText(t, p)
  PROVE  p \in Positions(t)
<1>1. p.x \in Nat /\ p.y \in Nat /\ p = At(p.x, p.y)  BY DEF Position, At
<1>2. p.y < NumRows(t) /\ p.x <= Size(t, p.y) /\ NumRows(t) \in Nat
  BY TextElements DEF InText, NumRows
<1>3. p.y \in 0..(NumRows(t) - 1)  BY <1>1, <1>2
<1>4. Size(t, p.y) \in Nat
  <2>1. p.y + 1 \in 1..Len(t)  BY <1>1, <1>2 DEF NumRows
  <2>2. QED  BY <2>1, TextElements DEF Size
<1>5. p.x \in 0..Size(t, p.y)  BY <1>1, <1>2, <1>4
<1>6. QED  BY <1>1, <1>3, <1>5 DEF Positions

(* bufOffset and bufPos are inverse to each other, they keep the order of   *)
(* positions, and the last offset is bufTextLen, for every text a buffer    *)
(* can hold (the contract in buffer.h).                                     *)
THEOREM OffsetsAlwaysInverse == Spec => []OffsetsInverse
<1>1. ASSUME TypeOK  PROVE OffsetsInverse
  <2>1. rows \in Text  BY <1>1 DEF TypeOK
  <2>2. PICK t \in Text : t = rows  BY <2>1
  <2>3. BufTextLen(t) = Len(RowsToString(t))  BY LengthIs DEF BufTextLen, NumRows
  <2>4. ASSUME NEW p \in Positions(t)  PROVE BufPos(t, BufOffset(t, p)) = p
    <3>1. p \in Position /\ InText(t, p)  BY PositionsAre
    <3>2. PICK off \in 0..BufTextLen(t) : off = BufOffset(t, p)  BY <2>3, <3>1, OffsetWithin
    <3>3. PICK q : q = BufPos(t, off)  OBVIOUS
    <3>4. q \in Position /\ InText(t, q) /\ BufOffset(t, q) = off  BY <3>3, PositionOf
    <3>5. q = p  BY <3>1, <3>2, <3>4, SameOffset
    <3>6. QED  BY <3>2, <3>3, <3>5
  <2>5. ASSUME NEW off \in 0..BufTextLen(t)  PROVE BufOffset(t, BufPos(t, off)) = off
    BY PositionOf
  <2>6. ASSUME NEW p \in Positions(t), NEW q \in Positions(t)
        PROVE  AtOrBefore(p, q) <=> BufOffset(t, p) <= BufOffset(t, q)
    <3>1. p \in Position /\ InText(t, p) /\ q \in Position /\ InText(t, q)  BY PositionsAre
    <3>2. QED  BY <3>1, OffsetsOrdered
  <2>7. QED  BY <2>2, <2>3, <2>4, <2>5, <2>6 DEF OffsetsInverse
<1>2. QED  BY <1>1, TypeCorrect, PTL

-----------------------------------------------------------------------------
(* Edits of the string *)

InThree(w, x, y, z) ==
  /\ w \in Seq(Char) /\ Len(w) = Len(x) + Len(y) + Len(z)
  /\ SubSeq(w, 1, Len(x)) = x
  /\ SubSeq(w, Len(x) + 1, Len(x) + Len(y)) = y
  /\ SubSeq(w, Len(x) + Len(y) + 1, Len(w)) = z

LEMMA StringsCut ==
  ASSUME NEW x \in Seq(Char), NEW y \in Seq(Char), NEW z \in Seq(Char),
         NEW w, w = (x \o y) \o z
  PROVE  InThree(w, x, y, z)
<1>1. PICK v \in Seq(Char) : v = x \o y /\ Len(v) = Len(x) + Len(y)  BY SeqCat
<1>2. PICK u \in Seq(Char) : u = y \o z /\ Len(u) = Len(y) + Len(z)  BY SeqCat
<1>3. w = v \o z /\ w = x \o u /\ w \in Seq(Char)  BY <1>1, <1>2, CharsAssoc
<1>4. Len(x) \in Nat /\ Len(y) \in Nat /\ Len(z) \in Nat  OBVIOUS
<1>5. Len(w) = Len(x) + Len(y) + Len(z)
  <2>1. Len(w) = Len(v) + Len(z)  BY <1>3, SeqCat
  <2>2. QED  BY <1>1, <2>1
<1>6. SubSeq(w, 1, Len(x)) = x  BY <1>2, <1>3, SeqJoin
<1>7. SubSeq(w, Len(x) + Len(y) + 1, Len(w)) = z
  <2>1. SubSeq(v \o z, Len(v) + 1, Len(v \o z)) = z  BY SeqJoin
  <2>2. QED  BY <1>1, <1>3, <2>1
<1>8. SubSeq(w, Len(x) + 1, Len(x) + Len(y)) = y
  <2>1. SubSeq(v, Len(x) + 1, Len(v)) = y  BY <1>1, SeqJoin
  <2>2. PICK m \in Nat, n \in Nat : m = Len(x) + 1 /\ n = Len(v) /\ m >= 1 /\ n <= Len(w)
    BY <1>1, <1>4, <1>5
  <2>3. \A i \in 1..n : w[i] = v[i]
    <3>1. \A i \in 1..Len(v) : (v \o z)[i] = v[i]  BY SeqCat
    <3>2. QED  BY <1>3, <2>2, <3>1
  <2>4. SubSeq(w, m, n) = SubSeq(v, m, n)  BY <1>3, <2>2, <2>3
  <2>5. QED  BY <1>1, <2>1, <2>2, <2>4
<1>9. QED  BY <1>3, <1>5, <1>6, <1>7, <1>8 DEF InThree

(* A text that ends so many rows and columns after e, put at s.             *)
LEMMA EndMoved ==
  ASSUME NEW m \in Text, NEW s \in Position, NEW e \in Position,
         NEW p \in Position, p = ComputeInsertEnd(m, e)
  PROVE  /\ AtOrBefore(e, p)
         /\ ComputeInsertEnd(m, s) = IF p.y = e.y THEN At(s.x + (p.x - e.x), s.y)
                                                  ELSE At(p.x, p.y - (e.y - s.y))
<1>1. PICK n \in Nat, l \in Nat : Len(m) = n /\ n >= 1 /\ Len(m[Len(m)]) = l
  <2>1. Len(m) \in Nat /\ Len(m) >= 1 /\ Len(m[Len(m)]) \in Nat  BY TextElements
  <2>2. QED  BY <2>1
<1>2. /\ p = At((IF n = 1 THEN e.x ELSE 0) + l, e.y + n - 1)
      /\ ComputeInsertEnd(m, s) = At((IF n = 1 THEN s.x ELSE 0) + l, s.y + n - 1)
  BY <1>1 DEF ComputeInsertEnd
<1>3. s.x \in Nat /\ s.y \in Nat /\ e.x \in Nat /\ e.y \in Nat  BY DEF Position
<1>4. p.x = (IF n = 1 THEN e.x ELSE 0) + l /\ p.y = e.y + n - 1  BY <1>2 DEF At
<1>5. CASE n = 1
  <2>1. p.x = e.x + l /\ p.y = e.y  BY <1>3, <1>4, <1>5
  <2>2. ComputeInsertEnd(m, s) = At(s.x + l, s.y)  BY <1>2, <1>3, <1>5
  <2>3. s.x + (p.x - e.x) = s.x + l  BY <1>3, <2>1
  <2>4. QED  BY <1>3, <2>1, <2>2, <2>3 DEF AtOrBefore
<1>6. CASE n # 1
  <2>1. p.x = l /\ p.y = e.y + n - 1 /\ e.y < p.y  BY <1>1, <1>3, <1>4, <1>6
  <2>2. ComputeInsertEnd(m, s) = At(l, s.y + n - 1)  BY <1>2, <1>3, <1>6
  <2>3. p.y - (e.y - s.y) = s.y + n - 1 /\ p.y # e.y  BY <1>3, <2>1
  <2>4. QED  BY <2>1, <2>2, <2>3 DEF AtOrBefore
<1>7. QED  BY <1>5, <1>6

(* What an insertion makes of the string and of an offset.                  *)
Grown(t, s, d, u) ==
  \E x, y, z \in Seq(Char) :
    /\ y = RowsToString(d)
    /\ RowsToString(t) = x \o z /\ RowsToString(u) = (x \o y) \o z
    /\ Len(x) = BufOffset(t, s)

LEMMA StringGrows ==
  ASSUME NEW t \in Text, NEW s \in Position, InText(t, s), NEW d \in Text,
         NEW u, u = BulkInsert(t, s, d)
  PROVE  Grown(t, s, d, u)
<1>0. PICK b \in Text, a \in Text : b = Before(t, s) /\ a = After(t, s)  BY PartsTyped
<1>1. b = Before(t, s) /\ a = After(t, s) /\ t = Concat(b, a)  BY <1>0, Cut
<1>2. PICK c \in Text : c = Concat(b, d) /\ RowsToString(c) = RowsToString(b) \o RowsToString(d)
  BY LengthsAdd
<1>3. u = Concat(c, a)  BY <1>1, <1>2, InsertionIs
<1>4. RowsToString(u) = RowsToString(c) \o RowsToString(a)  BY <1>3, LengthsAdd
<1>5. RowsToString(t) = RowsToString(b) \o RowsToString(a)  BY <1>1, LengthsAdd
<1>6. PICK x \in Seq(Char), y \in Seq(Char), z \in Seq(Char) :
        x = RowsToString(b) /\ y = RowsToString(d) /\ z = RowsToString(a)
  BY StringOf
<1>7. Len(x) = BufOffset(t, s)
  <2>1. BufOffset(t, s) = Len(RowsToString(Before(t, s)))  BY OffsetIs
  <2>2. QED  BY <1>1, <1>6, <2>1
<1>8. RowsToString(t) = x \o z /\ RowsToString(u) = (x \o y) \o z
  BY <1>2, <1>4, <1>5, <1>6
<1>9. QED  BY <1>6, <1>7, <1>8 DEF Grown

LEMMA OffsetGrows ==
  ASSUME NEW t \in Text, NEW s \in Position, InText(t, s), NEW d \in Text,
         NEW u, u = BulkInsert(t, s, d), NEW e, e = ComputeInsertEnd(d, s),
         NEW p \in Position, InText(t, p),
         NEW q, q = AdjustForInsert(p, s, e)
  PROVE  BufOffset(u, q) = IF BufOffset(t, p) < BufOffset(t, s) THEN BufOffset(t, p)
                           ELSE BufOffset(t, p) + Len(RowsToString(d))
<1>1. PICK b \in Text, a \in Text :
        /\ b = Before(t, s) /\ a = After(t, s) /\ t = Concat(b, a) /\ EndOf(b) = s
  BY PartsTyped, Cut
<1>2. PICK c \in Text : /\ c = Concat(b, d)
                        /\ Len(RowsToString(c)) = Len(RowsToString(b)) + Len(RowsToString(d))
  BY LengthsAdd
<1>3. u = Concat(c, a)  BY <1>1, <1>2, InsertionIs
<1>4. EndOf(c) = e  BY <1>1, <1>2, EndOfConcat
<1>5. e \in Position
  <2>1. e \in Position  BY Inserted
  <2>2. QED  BY <2>1
<1>6. /\ s.x \in Nat /\ s.y \in Nat /\ p.x \in Nat /\ p.y \in Nat
      /\ e.x \in Nat /\ e.y \in Nat
  BY <1>5 DEF Position
<1>7. BufOffset(t, p) \in Nat /\ BufOffset(t, s) \in Nat /\ Len(RowsToString(d)) \in Nat
  BY OffsetIs, StringOf
<1>8. CASE AtOrBefore(s, p)
  <2>1. PICK m : Between(t, s, p, m)  BY <1>8, TextBetween
  <2>2. /\ m \in Text /\ a = Concat(m, After(t, p)) /\ p = ComputeInsertEnd(m, s)
        /\ BufOffset(t, p) = BufOffset(t, s) + Len(RowsToString(m))
    BY <1>1, <2>1 DEF Between
  <2>3. PICK z \in Text : z = After(t, p)  BY PartsTyped
  <2>4. PICK g \in Text : /\ g = Concat(c, m)
                          /\ Len(RowsToString(g)) = Len(RowsToString(c)) + Len(RowsToString(m))
    BY <2>2, LengthsAdd
  <2>5. u = Concat(g, z)  BY <1>3, <2>2, <2>3, <2>4, ConcatAssoc
  <2>6. EndOf(g) = ComputeInsertEnd(m, e)  BY <1>4, <2>2, <2>4, EndOfConcat
  <2>7. q = ComputeInsertEnd(m, e)
    <3>1. ComputeInsertEnd(m, e) = IF p.y = s.y THEN At(e.x + (p.x - s.x), e.y)
                                                ELSE At(p.x, p.y - (s.y - e.y))
      BY <1>5, <2>2, EndMoved
    <3>2. ~(p.y < s.y \/ (p.y = s.y /\ p.x < s.x))  BY <1>6, <1>8 DEF AtOrBefore
    <3>3. q = IF p.y = s.y THEN At(e.x + (p.x - s.x), p.y + (e.y - s.y))
                           ELSE At(p.x, p.y + (e.y - s.y))
      BY <3>2 DEF AdjustForInsert
    <3>4. p.y + (e.y - s.y) = p.y - (s.y - e.y) /\ (p.y = s.y => p.y + (e.y - s.y) = e.y)
      BY <1>6
    <3>5. QED  BY <3>1, <3>3, <3>4
  <2>8. BufOffset(u, q) = Len(RowsToString(g))  BY <2>5, <2>6, <2>7, OffsetAt
  <2>9. BufOffset(t, s) = Len(RowsToString(b))  BY <1>1, OffsetAt
  <2>10. Len(RowsToString(m)) \in Nat  BY <2>2, StringOf
  <2>11. QED  BY <1>2, <1>7, <2>2, <2>4, <2>8, <2>9, <2>10
<1>9. CASE ~AtOrBefore(s, p)
  <2>1. AtOrBefore(p, s) /\ p # s /\ (p.y < s.y \/ (p.y = s.y /\ p.x < s.x))
    BY <1>6, <1>9 DEF AtOrBefore
  <2>2. q = p  BY <2>1 DEF AdjustForInsert
  <2>3. PICK m : Between(t, p, s, m)  BY <2>1, TextBetween
  <2>4. PICK f \in Text : f = Before(t, p) /\ EndOf(f) = p  BY PartsTyped, Cut
  <2>5. m \in Text /\ b = Concat(f, m)  BY <1>1, <2>3, <2>4 DEF Between
  <2>6. PICK g \in Text : g = Concat(m, d)  BY <2>5, LengthsAdd
  <2>7. c = Concat(f, g)  BY <1>2, <2>5, <2>6, ConcatAssoc
  <2>8. PICK h \in Text : h = Concat(g, a)  BY LengthsAdd
  <2>9. u = Concat(f, h)  BY <1>3, <2>7, <2>8, ConcatAssoc
  <2>10. BufOffset(u, q) = Len(RowsToString(f))  BY <2>2, <2>4, <2>9, OffsetAt
  <2>11. BufOffset(t, p) = Len(RowsToString(f))
    <3>1. BufOffset(t, p) = Len(RowsToString(Before(t, p)))  BY OffsetIs
    <3>2. QED  BY <2>4, <3>1
  <2>12. BufOffset(t, p) < BufOffset(t, s)  BY <2>1, OffsetsOrdered
  <2>13. QED  BY <2>10, <2>11, <2>12
<1>10. QED  BY <1>8, <1>9

(* What a deletion makes of them.                                           *)
Shrunk(t, s, e, u) ==
  \E x, y, z \in Seq(Char) :
    /\ RowsToString(t) = (x \o y) \o z /\ RowsToString(u) = x \o z
    /\ Len(x) = BufOffset(t, s) /\ Len(x) + Len(y) = BufOffset(t, e)

LEMMA StringShrinks ==
  ASSUME NEW t \in Text, NEW s \in Position, InText(t, s),
         NEW e \in Position, InText(t, e), AtOrBefore(s, e),
         NEW u, u = BulkDelete(t, s, e)
  PROVE  Shrunk(t, s, e, u)
<1>1. PICK b \in Text, a \in Text : b = Before(t, s) /\ a = After(t, e)  BY PartsTyped
<1>2. PICK m : Between(t, s, e, m)  BY TextBetween
<1>3. m \in Text /\ Before(t, e) = Concat(b, m)
      /\ BufOffset(t, e) = BufOffset(t, s) + Len(RowsToString(m))
  BY <1>1, <1>2 DEF Between
<1>4. PICK c \in Text : c = Concat(b, m) /\ RowsToString(c) = RowsToString(b) \o RowsToString(m)
  BY <1>3, LengthsAdd
<1>5. t = Concat(c, a)
  <2>1. Concat(Before(t, e), After(t, e)) = t  BY Cut
  <2>2. QED  BY <1>1, <1>3, <1>4, <2>1
<1>6. u = Concat(b, a)  BY <1>1, DeletionIs
<1>7. /\ RowsToString(t) = RowsToString(c) \o RowsToString(a)
      /\ RowsToString(u) = RowsToString(b) \o RowsToString(a)
  BY <1>5, <1>6, LengthsAdd
<1>8. PICK x \in Seq(Char), y \in Seq(Char), z \in Seq(Char) :
        x = RowsToString(b) /\ y = RowsToString(m) /\ z = RowsToString(a)
  BY <1>3, StringOf
<1>9. Len(x) = BufOffset(t, s)
  <2>1. BufOffset(t, s) = Len(RowsToString(Before(t, s)))  BY OffsetIs
  <2>2. QED  BY <1>1, <1>8, <2>1
<1>10. Len(x) + Len(y) = BufOffset(t, e)  BY <1>3, <1>8, <1>9
<1>11. RowsToString(t) = (x \o y) \o z /\ RowsToString(u) = x \o z  BY <1>4, <1>7, <1>8
<1>12. QED  BY <1>9, <1>10, <1>11 DEF Shrunk

LEMMA OffsetShrinks ==
  ASSUME NEW t \in Text, NEW s \in Position, InText(t, s),
         NEW e \in Position, InText(t, e), AtOrBefore(s, e),
         NEW u, u = BulkDelete(t, s, e),
         NEW p \in Position, InText(t, p),
         NEW q, q = AdjustForDelete(p, s, e)
  PROVE  BufOffset(u, q) = IF BufOffset(t, p) <= BufOffset(t, s) THEN BufOffset(t, p)
                           ELSE IF BufOffset(t, p) <= BufOffset(t, e) THEN BufOffset(t, s)
                           ELSE BufOffset(t, p) - (BufOffset(t, e) - BufOffset(t, s))
<1>1. PICK b \in Text, a \in Text :
        /\ b = Before(t, s) /\ a = After(t, e) /\ EndOf(b) = s
  BY PartsTyped, Cut
<1>2. u = Concat(b, a)  BY <1>1, DeletionIs
<1>3. /\ BufOffset(t, p) \in Nat /\ BufOffset(t, s) \in Nat /\ BufOffset(t, e) \in Nat
  BY OffsetIs
<1>4. BufOffset(t, s) = Len(RowsToString(b))
  <2>1. BufOffset(t, s) = Len(RowsToString(Before(t, s)))  BY OffsetIs
  <2>2. QED  BY <1>1, <2>1
<1>5. CASE AtOrBefore(p, s)
  <2>1. q = p  BY <1>5 DEF AdjustForDelete
  <2>2. PICK m : Between(t, p, s, m)  BY <1>5, TextBetween
  <2>3. PICK f \in Text : f = Before(t, p) /\ EndOf(f) = p  BY PartsTyped, Cut
  <2>4. m \in Text /\ b = Concat(f, m)  BY <1>1, <2>2, <2>3 DEF Between
  <2>5. PICK g \in Text : g = Concat(m, a)  BY <2>4, LengthsAdd
  <2>6. u = Concat(f, g)  BY <1>2, <2>4, <2>5, ConcatAssoc
  <2>7. BufOffset(u, q) = Len(RowsToString(f))  BY <2>1, <2>3, <2>6, OffsetAt
  <2>8. BufOffset(t, p) = Len(RowsToString(f))
    <3>1. BufOffset(t, p) = Len(RowsToString(Before(t, p)))  BY OffsetIs
    <3>2. QED  BY <2>3, <3>1
  <2>9. BufOffset(t, p) <= BufOffset(t, s)  BY <1>5, OffsetsOrdered
  <2>10. QED  BY <2>7, <2>8, <2>9
<1>6. CASE ~AtOrBefore(p, s) /\ AtOrBefore(p, e)
  <2>1. q = s  BY <1>6 DEF AdjustForDelete
  <2>2. BufOffset(u, q) = Len(RowsToString(b))  BY <1>1, <1>2, <2>1, OffsetAt
  <2>3. ~(BufOffset(t, p) <= BufOffset(t, s))  BY <1>6, OffsetsOrdered
  <2>4. BufOffset(t, p) <= BufOffset(t, e)  BY <1>6, OffsetsOrdered
  <2>5. QED  BY <1>4, <2>2, <2>3, <2>4
<1>7. CASE ~AtOrBefore(p, s) /\ ~AtOrBefore(p, e)
  <2>1. AtOrBefore(e, p)
    <3>1. p.x \in Nat /\ p.y \in Nat /\ e.x \in Nat /\ e.y \in Nat  BY DEF Position
    <3>2. QED  BY <1>7, <3>1 DEF AtOrBefore
  <2>2. PICK m : Between(t, e, p, m)  BY <2>1, TextBetween
  <2>3. /\ m \in Text /\ a = Concat(m, After(t, p)) /\ p = ComputeInsertEnd(m, e)
        /\ BufOffset(t, p) = BufOffset(t, e) + Len(RowsToString(m))
    BY <1>1, <2>2 DEF Between
  <2>4. PICK z \in Text : z = After(t, p)  BY PartsTyped
  <2>5. PICK g \in Text : /\ g = Concat(b, m)
                          /\ Len(RowsToString(g)) = Len(RowsToString(b)) + Len(RowsToString(m))
    BY <2>3, LengthsAdd
  <2>6. u = Concat(g, z)  BY <1>2, <2>3, <2>4, <2>5, ConcatAssoc
  <2>7. EndOf(g) = ComputeInsertEnd(m, s)  BY <1>1, <2>3, <2>5, EndOfConcat
  <2>8. q = ComputeInsertEnd(m, s)
    <3>1. ComputeInsertEnd(m, s) = IF p.y = e.y THEN At(s.x + (p.x - e.x), s.y)
                                                ELSE At(p.x, p.y - (e.y - s.y))
      BY <2>3, EndMoved
    <3>2. QED  BY <1>7, <3>1 DEF AdjustForDelete
  <2>9. BufOffset(u, q) = Len(RowsToString(g))  BY <2>6, <2>7, <2>8, OffsetAt
  <2>10. ~(BufOffset(t, p) <= BufOffset(t, s)) /\ ~(BufOffset(t, p) <= BufOffset(t, e))
    BY <1>7, OffsetsOrdered
  <2>11. Len(RowsToString(m)) \in Nat  BY <2>3, StringOf
  <2>12. QED  BY <1>3, <1>4, <2>3, <2>5, <2>9, <2>10, <2>11
<1>8. QED  BY <1>5, <1>6, <1>7

-----------------------------------------------------------------------------
(* The refinement *)

(* What is held, as offsets.                                                *)
Offs(t, hd) == [h \in Holder |-> IF hd[h] = NoPoint THEN NoPoint ELSE BufOffset(t, hd[h])]

LEMMA OffsTyped ==
  ASSUME NEW t \in Text, NEW hd \in [Holder -> Position \cup {NoPoint}], NEW h \in Holder,
         hd[h] # NoPoint => InText(t, hd[h])
  PROVE  /\ hd[h] = NoPoint => Offs(t, hd)[h] = NoPoint
         /\ hd[h] # NoPoint => /\ hd[h] \in Position
                               /\ Offs(t, hd)[h] = BufOffset(t, hd[h])
                               /\ Offs(t, hd)[h] \in Nat /\ Offs(t, hd)[h] # NoPoint
<1>1. CASE hd[h] = NoPoint  BY <1>1 DEF Offs
<1>2. CASE hd[h] # NoPoint
  <2>1. hd[h] \in Position /\ InText(t, hd[h])  BY <1>2
  <2>2. BufOffset(t, hd[h]) \in Nat  BY <2>1, OffsetIs
  <2>3. Offs(t, hd)[h] = BufOffset(t, hd[h])  BY <1>2 DEF Offs
  <2>4. QED  BY <1>2, <2>1, <2>2, <2>3, UnsetAssumption
<1>3. QED  BY <1>1, <1>2

(* The offsets after an insertion of n bytes at i, and after a deletion.    *)
Pushed(m, i, n) == IF m = NoPoint \/ m < i THEN m ELSE m + n

Pulled(m, i, n) ==
  IF m = NoPoint \/ m <= i THEN m ELSE IF m <= i + n THEN i ELSE m - n

OffsPushed(t, old, u, new, i, n) ==
  Offs(u, new) = [h \in Holder |-> Pushed(Offs(t, old)[h], i, n)]

OffsPulled(t, old, u, new, i, n) ==
  Offs(u, new) = [h \in Holder |-> Pulled(Offs(t, old)[h], i, n)]

LEMMA InsertedOffs ==
  ASSUME Inv, NEW s \in Position, InText(rows, s), NEW d \in Text,
         NEW u, u = BulkInsert(rows, s, d),
         NEW hd, hd = HeldAfter(s, ComputeInsertEnd(d, s), FALSE),
         NEW i, i = BufOffset(rows, s), NEW n, n = Len(RowsToString(d))
  PROVE  OffsPushed(rows, held, u, hd, i, n)
<1>1. rows \in Text /\ held \in [Holder -> Position \cup {NoPoint}]
      /\ \A h \in Holder : held[h] # NoPoint => InText(rows, held[h])
  BY DEF Inv, TypeOK, HeldInText
<1>2. PICK t \in Text : t = rows  BY <1>1
<1>3. PICK e : e = ComputeInsertEnd(d, s)  OBVIOUS
<1>4. e \in Position /\ AtOrBefore(s, e)
  <2>1. InText(t, s) /\ u = BulkInsert(t, s, d)  BY <1>2
  <2>2. QED  BY <1>3, <2>1, Inserted
<1>5. ASSUME NEW h \in Holder  PROVE Offs(u, hd)[h] = Pushed(Offs(t, held)[h], i, n)
  <2>1. hd[h] = IF held[h] = NoPoint THEN NoPoint ELSE AdjustForInsert(held[h], s, e)
    BY <1>3 DEF HeldAfter, AdjustPoint
  <2>2. held[h] # NoPoint => InText(t, held[h])  BY <1>1, <1>2
  <2>3. CASE held[h] = NoPoint
    <3>1. Offs(t, held)[h] = NoPoint  BY <1>1, <2>2, <2>3, OffsTyped
    <3>2. Offs(u, hd)[h] = NoPoint  BY <2>1, <2>3 DEF Offs
    <3>3. QED  BY <3>1, <3>2 DEF Pushed
  <2>4. CASE held[h] # NoPoint
    <3>1. PICK p \in Position : /\ p = held[h] /\ InText(t, p)
                                /\ Offs(t, held)[h] = BufOffset(t, p)
                                /\ Offs(t, held)[h] # NoPoint
      BY <1>1, <2>2, <2>4, OffsTyped
    <3>2. PICK q : q = AdjustForInsert(p, s, e)  OBVIOUS
    <3>3. q \in Position  BY <1>4, <3>2, InsertMoves
    <3>4. hd[h] = q /\ q # NoPoint  BY <2>1, <2>4, <3>1, <3>2, <3>3, UnsetAssumption
    <3>5. BufOffset(u, q) = IF BufOffset(t, p) < BufOffset(t, s) THEN BufOffset(t, p)
                            ELSE BufOffset(t, p) + Len(RowsToString(d))
      <4>1. InText(t, s) /\ u = BulkInsert(t, s, d)  BY <1>2
      <4>2. QED  BY <1>3, <3>1, <3>2, <4>1, OffsetGrows
    <3>6. Offs(u, hd)[h] = BufOffset(u, q)  BY <3>4 DEF Offs
    <3>7. QED  BY <1>2, <3>1, <3>5, <3>6 DEF Pushed
  <2>5. QED  BY <2>3, <2>4
<1>6. Offs(u, hd) = [h \in Holder |-> Offs(u, hd)[h]]  BY DEF Offs
<1>7. QED  BY <1>2, <1>5, <1>6 DEF OffsPushed

LEMMA DeletedOffs ==
  ASSUME Inv, NEW s \in Position, InText(rows, s), NEW e \in Position, InText(rows, e),
         AtOrBefore(s, e), NEW u, u = BulkDelete(rows, s, e),
         NEW hd, hd = HeldAfter(s, e, TRUE),
         NEW i \in Nat, i = BufOffset(rows, s), NEW n \in Nat, i + n = BufOffset(rows, e)
  PROVE  OffsPulled(rows, held, u, hd, i, n)
<1>1. rows \in Text /\ held \in [Holder -> Position \cup {NoPoint}]
      /\ \A h \in Holder : held[h] # NoPoint => InText(rows, held[h])
  BY DEF Inv, TypeOK, HeldInText
<1>2. PICK t \in Text : t = rows  BY <1>1
<1>3. InText(t, s) /\ InText(t, e) /\ u = BulkDelete(t, s, e)  BY <1>2
<1>4. ASSUME NEW h \in Holder  PROVE Offs(u, hd)[h] = Pulled(Offs(t, held)[h], i, n)
  <2>1. hd[h] = IF held[h] = NoPoint THEN NoPoint ELSE AdjustForDelete(held[h], s, e)
    BY DEF HeldAfter, AdjustPoint
  <2>2. held[h] # NoPoint => InText(t, held[h])  BY <1>1, <1>2
  <2>3. CASE held[h] = NoPoint
    <3>1. Offs(t, held)[h] = NoPoint  BY <1>1, <2>2, <2>3, OffsTyped
    <3>2. Offs(u, hd)[h] = NoPoint  BY <2>1, <2>3 DEF Offs
    <3>3. QED  BY <3>1, <3>2 DEF Pulled
  <2>4. CASE held[h] # NoPoint
    <3>1. PICK p \in Position : /\ p = held[h] /\ InText(t, p)
                                /\ Offs(t, held)[h] = BufOffset(t, p)
                                /\ Offs(t, held)[h] # NoPoint
      BY <1>1, <2>2, <2>4, OffsTyped
    <3>2. PICK q : q = AdjustForDelete(p, s, e)  OBVIOUS
    <3>3. q \in Position  BY <3>2, DeleteMoves
    <3>4. hd[h] = q /\ q # NoPoint  BY <2>1, <2>4, <3>1, <3>2, <3>3, UnsetAssumption
    <3>5. BufOffset(u, q) =
            IF BufOffset(t, p) <= BufOffset(t, s) THEN BufOffset(t, p)
            ELSE IF BufOffset(t, p) <= BufOffset(t, e) THEN BufOffset(t, s)
            ELSE BufOffset(t, p) - (BufOffset(t, e) - BufOffset(t, s))
      BY <1>3, <3>1, <3>2, OffsetShrinks
    <3>6. Offs(u, hd)[h] = BufOffset(u, q)  BY <3>4 DEF Offs
    <3>7. BufOffset(t, e) - BufOffset(t, s) = n  BY <1>2
    <3>8. QED  BY <1>2, <3>1, <3>5, <3>6, <3>7 DEF Pulled
  <2>5. QED  BY <2>3, <2>4
<1>5. Offs(u, hd) = [h \in Holder |-> Offs(u, hd)[h]]  BY DEF Offs
<1>6. QED  BY <1>2, <1>4, <1>5 DEF OffsPulled

LEMMA InitFlat == Init => Flat!FlatInit
<1>1. SUFFICES ASSUME Init  PROVE Flat!FlatInit  OBVIOUS
<1>2. RowsToString(rows) = <<>>  BY <1>1, NoBytes DEF Init
<1>3. <<>> \in Seq(Byte \cup {NL})  OBVIOUS
<1>4. Offs(rows, held) = [h \in Holder |-> NoPoint]
  <2>1. \A h \in Holder : held[h] = NoPoint  BY <1>1 DEF Init
  <2>2. QED  BY <2>1 DEF Offs
<1>5. QED  BY <1>2, <1>3, <1>4 DEF Flat!FlatInit, Offs

LEMMA InsertIsPut ==
  ASSUME Inv, Insert
  PROVE  Flat!FlatNext
<1>1. PICK s \in Positions(rows), d \in Payload : InsertAt(s, d)  BY DEF Insert
<1>2. rows \in Text  BY DEF Inv, TypeOK
<1>3. s \in Position /\ InText(rows, s) /\ d \in Text /\ d # EmptyText
  BY <1>2, PositionsAre, InsertAssumption
<1>4. PICK u : u = rows' /\ u = BulkInsert(rows, s, d)  BY <1>1 DEF InsertAt
<1>5. PICK x \in Seq(Char), y \in Seq(Char), z \in Seq(Char) :
        /\ y = RowsToString(d)
        /\ RowsToString(rows) = x \o z /\ RowsToString(u) = (x \o y) \o z
        /\ Len(x) = BufOffset(rows, s)
  <2>1. Grown(rows, s, d, u)  BY <1>2, <1>3, <1>4, StringGrows
  <2>2. QED  BY <2>1 DEF Grown
<1>6. PICK i \in Nat, n \in Nat : i = Len(x) /\ n = Len(y)  OBVIOUS
<1>7. n >= 1  BY <1>3, <1>5, <1>6, NoBytes
<1>8. PICK w \in Seq(Char), v \in Seq(Char) : /\ w = RowsToString(rows) /\ v = RowsToString(u)
                                              /\ w = x \o z /\ v = (x \o y) \o z
  <2>1. x \o z \in Seq(Char) /\ (x \o y) \o z \in Seq(Char)  OBVIOUS
  <2>2. QED  BY <1>5, <2>1
<1>9. PICK l \in Nat : l = Len(z)  OBVIOUS
<1>10. /\ Len(w) = i + l /\ SubSeq(w, 1, i) = x /\ SubSeq(w, i + 1, Len(w)) = z
  <2>1. Len(x \o z) = Len(x) + Len(z)  BY SeqCat
  <2>2. SubSeq(x \o z, 1, Len(x)) = x /\ SubSeq(x \o z, Len(x) + 1, Len(x \o z)) = z  BY SeqJoin
  <2>3. QED  BY <1>6, <1>8, <1>9, <2>1, <2>2
<1>11. Len(v) = i + n + l /\ SubSeq(v, i + 1, i + n) = y
  <2>1. v = (x \o y) \o z  BY <1>8
  <2>2. InThree(v, x, y, z)  BY <2>1, StringsCut
  <2>3. QED  BY <1>6, <1>9, <2>2 DEF InThree
<1>12. v = SubSeq(w, 1, i) \o SubSeq(v, i + 1, i + n) \o SubSeq(w, i + 1, Len(w))
  BY <1>8, <1>10, <1>11
<1>13. OffsPushed(rows, held, u, held', i, n)
  <2>1. held' = HeldAfter(s, ComputeInsertEnd(d, s), FALSE)  BY <1>1 DEF InsertAt
  <2>2. i = BufOffset(rows, s) /\ n = Len(RowsToString(d))  BY <1>5, <1>6
  <2>3. QED  BY <1>3, <1>4, <2>1, <2>2, InsertedOffs
<1>14. i \in 0..Len(w) /\ n \in 1..(Len(v) - Len(w))  BY <1>7, <1>10, <1>11
<1>15. Flat!Put(i, SubSeq(RowsToString(rows'), i + 1, i + n))
  <2>1. Len(SubSeq(v, i + 1, i + n)) = n  BY <1>6, <1>11
  <2>2. RowsToString(rows') = v /\ RowsToString(rows) = w  BY <1>4, <1>8
  <2>3. Offs(rows', held') =
          [h \in Holder |->
             IF Offs(rows, held)[h] = NoPoint \/ Offs(rows, held)[h] < i
             THEN Offs(rows, held)[h] ELSE Offs(rows, held)[h] + Len(SubSeq(v, i + 1, i + n))]
    BY <1>4, <1>13, <2>1 DEF Pushed, OffsPushed
  <2>4. QED  BY <1>12, <2>2, <2>3 DEF Flat!Put, Offs
<1>16. /\ i \in 0..Len(RowsToString(rows))
       /\ n \in 1..(Len(RowsToString(rows')) - Len(RowsToString(rows)))
  <2>1. w = RowsToString(rows) /\ v = RowsToString(rows')  BY <1>4, <1>8
  <2>2. QED  BY <1>14, <2>1
<1>17. QED  BY <1>15, <1>16 DEF Flat!FlatNext

LEMMA DeleteIsRemove ==
  ASSUME Inv, Delete
  PROVE  Flat!FlatNext
<1>1. PICK s \in Positions(rows), e \in Positions(rows) :
        AtOrBefore(s, e) /\ DeleteBetween(s, e)
  BY DEF Delete
<1>2. rows \in Text  BY DEF Inv, TypeOK
<1>3. s \in Position /\ InText(rows, s) /\ e \in Position /\ InText(rows, e) /\ AtOrBefore(s, e)
  BY <1>1, <1>2, PositionsAre
<1>4. ClampRange(rows, s, e) = << s, e >>  BY <1>2, <1>3, DeletionIs
<1>5. s # e /\ rows' = BulkDelete(rows, s, e) /\ held' = HeldAfter(s, e, TRUE)
  BY <1>1, <1>4 DEF DeleteBetween
<1>6. PICK u : u = rows' /\ u = BulkDelete(rows, s, e)  BY <1>5
<1>7. PICK x \in Seq(Char), y \in Seq(Char), z \in Seq(Char) :
        /\ RowsToString(rows) = (x \o y) \o z /\ RowsToString(u) = x \o z
        /\ Len(x) = BufOffset(rows, s) /\ Len(x) + Len(y) = BufOffset(rows, e)
  <2>1. Shrunk(rows, s, e, u)  BY <1>2, <1>3, <1>6, StringShrinks
  <2>2. QED  BY <2>1 DEF Shrunk
<1>8. PICK i \in Nat, n \in Nat, l \in Nat : i = Len(x) /\ n = Len(y) /\ l = Len(z)  OBVIOUS
<1>9. PICK w \in Seq(Char), v \in Seq(Char) : /\ w = RowsToString(rows) /\ v = RowsToString(u)
                                              /\ w = (x \o y) \o z /\ v = x \o z
  <2>1. x \o z \in Seq(Char) /\ (x \o y) \o z \in Seq(Char)  OBVIOUS
  <2>2. QED  BY <1>7, <2>1
<1>10. /\ Len(w) = i + n + l /\ SubSeq(w, 1, i) = x /\ SubSeq(w, i + n + 1, Len(w)) = z
  <2>1. w = (x \o y) \o z  BY <1>9
  <2>2. InThree(w, x, y, z)  BY <2>1, StringsCut
  <2>3. QED  BY <1>8, <2>2 DEF InThree
<1>11. i = BufOffset(rows, s) /\ i + n = BufOffset(rows, e)  BY <1>7, <1>8
<1>12. n >= 1
  <2>1. BufOffset(rows, s) < BufOffset(rows, e)  BY <1>2, <1>3, <1>5, OffsetsOrdered
  <2>2. QED  BY <1>11, <2>1
<1>13. OffsPulled(rows, held, u, held', i, n)
  BY <1>3, <1>5, <1>6, <1>11, DeletedOffs
<1>14. i \in 0..Len(w) /\ n \in 1..(Len(w) - i)  BY <1>10, <1>12
<1>15. Flat!Remove(i, n)
  <2>1. RowsToString(rows)' = v /\ RowsToString(rows) = w  BY <1>6, <1>9
  <2>2. v = SubSeq(w, 1, i) \o SubSeq(w, i + n + 1, Len(w))  BY <1>9, <1>10
  <2>3. Offs(rows', held') =
          [h \in Holder |->
             IF Offs(rows, held)[h] = NoPoint \/ Offs(rows, held)[h] <= i
             THEN Offs(rows, held)[h]
             ELSE IF Offs(rows, held)[h] <= i + n THEN i
             ELSE Offs(rows, held)[h] - n]
    BY <1>6, <1>13 DEF Pulled, OffsPulled
  <2>4. QED  BY <2>1, <2>2, <2>3 DEF Flat!Remove, Offs
<1>16. QED  BY <1>9, <1>14, <1>15 DEF Flat!FlatNext

LEMMA HoldIsPlace ==
  ASSUME Inv, HoldOne
  PROVE  Flat!FlatNext
<1>1. PICK h \in Holder, p \in Positions(rows) : HoldAt(h, p)  BY DEF HoldOne
<1>2. rows \in Text /\ held \in [Holder -> Position \cup {NoPoint}]  BY DEF Inv, TypeOK
<1>3. p \in Position /\ InText(rows, p)  BY <1>2, PositionsAre
<1>4. held' = [held EXCEPT ![h] = p] /\ rows' = rows  BY <1>1 DEF HoldAt
<1>5. PICK i : i = BufOffset(rows, p)  OBVIOUS
<1>6. i \in 0..Len(RowsToString(rows))  BY <1>2, <1>3, <1>5, OffsetWithin
<1>7. p # NoPoint  BY <1>3, UnsetAssumption
<1>8. ASSUME NEW k \in Holder
      PROVE  Offs(rows', held')[k] = [Offs(rows, held) EXCEPT ![h] = i][k]
  <2>1. CASE k = h  BY <1>2, <1>4, <1>5, <1>7, <2>1 DEF Offs
  <2>2. CASE k # h  BY <1>2, <1>4, <2>2 DEF Offs
  <2>3. QED  BY <2>1, <2>2
<1>9. Offs(rows', held') = [Offs(rows, held) EXCEPT ![h] = i]
  <2>1. PICK f, g : /\ f = Offs(rows', held') /\ g = [Offs(rows, held) EXCEPT ![h] = i]
                    /\ f = [k \in Holder |-> f[k]] /\ g = [k \in Holder |-> g[k]]
    BY DEF Offs
  <2>2. QED  BY <1>8, <2>1
<1>10. Flat!Place(h, i)  BY <1>4, <1>9 DEF Flat!Place, Offs
<1>11. QED  BY <1>6, <1>10 DEF Flat!FlatNext

LEMMA StepIsFlat ==
  ASSUME Inv, [Next]_rvars
  PROVE  [Flat!FlatNext]_(Flat!fvars)
<1>1. CASE Insert  BY <1>1, InsertIsPut
<1>2. CASE Delete  BY <1>2, DeleteIsRemove
<1>3. CASE HoldOne  BY <1>3, HoldIsPlace
<1>4. CASE UNCHANGED rvars  BY <1>4 DEF rvars, Flat!fvars
<1>5. QED  BY <1>1, <1>2, <1>3, <1>4 DEF Next

(* The rows and the held positions implement a string and offsets into it:  *)
(* every splice of rows is the splice of their bytes, and what a mark, a    *)
(* ring slot or a register holds stays at the same byte, whatever rows the  *)
(* edit joins or splits (undo.c bulkInsert and bulkDelete with adjust.c).   *)
THEOREM RefinesFlatText == Spec => ImplementsFlatText
<1>1. Inv /\ [Next]_rvars => [Flat!FlatNext]_(Flat!fvars)  BY StepIsFlat
<1>2. QED
  BY <1>1, InitOK, NextKeeps, InitFlat, PTL DEF Spec, ImplementsFlatText, Flat!FlatSpec

=============================================================================
