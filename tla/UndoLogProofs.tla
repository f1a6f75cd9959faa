--------------------------- MODULE UndoLogProofs ---------------------------
(***************************************************************************)
(* Proofs about UndoLog, for every set of bytes, payloads, holders and     *)
(* windows and every bound.                                                *)
(*                                                                         *)
(* The properties of the lists are not inductive by themselves: that the   *)
(* head of the undo list fits the text says nothing of the record below    *)
(* it, which an undo exposes.  The invariant (Inv) says that behind the    *)
(* undo list lies a sequence of texts, each taken to the one above it by   *)
(* its record, down to a text loaded or saved, and likewise behind the     *)
(* redo list; that a step starts and ends on a text whose final newline is *)
(* in place; and that everything held lies in the text.                    *)
(*                                                                         *)
(* For the refinement of EditHistory the same texts are cut where the      *)
(* steps of the lists end (HInv): the texts at the cuts are the past and   *)
(* the future, whatever records lie between two of them.                   *)
(***************************************************************************)
EXTENDS UndoHistory, TextRowsProofs, FiniteSetTheorems, FunctionTheorems

(* A record with its flags as the mutation layer sets them: one that may    *)
(* take in the next edit is a step of its own.                              *)
Records == { r \in Record : r.nmerges <= MergeLimit /\ (r.append => ~r.paired) }

UndoList(list) ==
  /\ list \in Seq(Records)
  /\ list # <<>> => ~list[Len(list)].paired
  /\ \A i \in 2..Len(list) : ~list[i].append

RedoList(list) ==
  /\ list \in Seq(Records)
  /\ list # <<>> => ~list[1].paired
  /\ \A i \in 1..Len(list) : ~list[i].append

(* The record r stands for the bytes long has between r.start and r.end and *)
(* short has not.                                                           *)
Splice(r, long, short) ==
  \E b, a \in Text :
    /\ r.start = EndOf(b) /\ r.end = EndOf(Concat(b, r.data))
    /\ long = Concat(Concat(b, r.data), a)
    /\ short = Concat(b, a)

(* The edit recorded as r made new of old. *)
Makes(r, old, new) == IF r.delete THEN Splice(r, old, new) ELSE Splice(r, new, old)

(* T[0], T[1], ... are the texts an undo list leads back through. *)
UndoTexts(list, T) ==
  /\ T \in [0..Len(list) -> Text]
  /\ \A i \in 1..Len(list) : /\ Makes(list[i], T[i], T[i - 1])
                             /\ ~list[i].paired => Terminated(T[i])

(* ... and a redo list on to. *)
RedoTexts(list, T) ==
  /\ T \in [0..Len(list) -> Text]
  /\ \A i \in 1..Len(list) : /\ Makes(list[i], T[i - 1], T[i])
                             /\ i = Len(list) \/ ~list[i + 1].paired => Terminated(T[i])

UndoFits(list, t, base) == \E T : UndoTexts(list, T) /\ T[0] = t /\ T[Len(list)] \in base
RedoFits(list, t)       == \E T : RedoTexts(list, T) /\ T[0] = t

(* What the undo list may lead back to: before the first save, the file.   *)
Base == IF internal_mod THEN Text ELSE {disk}

HeldIn(m) ==
  /\ \A h \in Holder : m.tracked[h] # NoPoint => InText(m.rows, m.tracked[h])
  /\ \A w \in View : m.views[w].rowoff < NumRows(m.rows)

ViewState == [rowoff : Nat, skip : Nat]

State == [rows : Text, undo : Seq(Records), tracked : [Holder -> Position \cup {NoPoint}],
          views : [View -> ViewState]]

(* n holds the positions m holds, in the order m holds them. *)
Follows(m, n) ==
  \A h, k \in Holder :
    /\ m.tracked[h] # NoPoint /\ m.tracked[k] # NoPoint
    /\ AtOrBefore(m.tracked[h], m.tracked[k])
    => /\ n.tracked[h] # NoPoint /\ n.tracked[k] # NoPoint
       /\ AtOrBefore(n.tracked[h], n.tracked[k])

Sound(m) == m \in State /\ HeldIn(m)

Traced(m, base) == Sound(m) /\ UndoList(m.undo) /\ UndoFits(m.undo, m.rows, base)

Inv ==
  /\ TypeOK /\ HeldInText /\ CleanMatchesDisk /\ FinalNewline
  /\ UndoList(undo) /\ RedoList(redo)
  /\ UndoFits(undo, rows, Base) /\ RedoFits(redo, rows)

-----------------------------------------------------------------------------
(* Lists of records *)
LEMMA RecordFields ==
  ASSUME NEW r \in Records
  PROVE  /\ r \in Record
         /\ r.start \in Position /\ r.end \in Position /\ r.data \in Text
         /\ r.delete \in BOOLEAN /\ r.paired \in BOOLEAN /\ r.append \in BOOLEAN
         /\ r.nmerges \in Nat /\ r.nmerges <= MergeLimit
         /\ r.append => ~r.paired
BY DEF Records, Record

LEMMA EndTyped ==
  ASSUME NEW d \in Text, NEW s \in Position
  PROVE  ComputeInsertEnd(d, s) \in Position
<1>1. Len(d) \in Nat /\ Len(d) >= 1 /\ Len(d[Len(d)]) \in Nat  BY TextElements
<1>2. s.x \in Nat /\ s.y \in Nat  BY DEF Position
<1> DEFINE m == Len(d)  c == Len(d[Len(d)])
<1>3. m \in Nat /\ m >= 1 /\ c \in Nat
      /\ ComputeInsertEnd(d, s) = At((IF m = 1 THEN s.x ELSE 0) + c, s.y + m - 1)
  BY <1>1 DEF ComputeInsertEnd
<1> HIDE DEF m, c
<1>4. (IF m = 1 THEN s.x ELSE 0) + c \in Nat /\ s.y + m - 1 \in Nat  BY <1>2, <1>3
<1>5. QED  BY <1>3, <1>4 DEF At, Position

LEMMA NewRecordTyped ==
  ASSUME NEW s \in Position, NEW d \in Text, NEW delete \in BOOLEAN,
         NEW paired \in BOOLEAN, NEW append \in BOOLEAN, append => ~paired,
         NEW r, r = NewRecord(s, d, delete, paired, append)
  PROVE  /\ r \in Records
         /\ r.start = s /\ r.end = ComputeInsertEnd(d, s) /\ r.data = d
         /\ (r.delete <=> delete) /\ (r.paired <=> paired) /\ (r.append <=> append)
<1> DEFINE e == ComputeInsertEnd(d, s)
<1>1. e \in Position  BY EndTyped
<1>2. r = [start |-> s, end |-> e, data |-> d, delete |-> delete,
           paired |-> paired, append |-> append, nmerges |-> 0]
  BY DEF NewRecord
<1>3. MergeLimit \in Nat  BY BoundAssumption
<1> HIDE DEF e
<1>4. r \in Record  BY <1>1, <1>2 DEF Record
<1>5. r.nmerges = 0 /\ r.append = append /\ r.paired = paired  BY <1>2
<1>6. r \in Records  BY <1>3, <1>4, <1>5 DEF Records
<1>7. QED  BY <1>2, <1>6 DEF e

LEMMA ListElements ==
  ASSUME NEW list \in Seq(Records)
  PROVE  /\ Len(list) \in Nat
         /\ \A i \in 1..Len(list) : list[i] \in Records
         /\ list # <<>> <=> Len(list) > 0
OBVIOUS

(* Closing a run changes no more than the flag of the head, which no replay *)
(* looks at.                                                                *)
Alike(r, c) ==
  /\ c.start = r.start /\ c.end = r.end /\ c.data = r.data
  /\ c.delete = r.delete /\ c.paired = r.paired

LEMMA ClosedRecord ==
  ASSUME NEW r \in Records, NEW c, c = [r EXCEPT !.append = FALSE]
  PROVE  c \in Records /\ ~c.append /\ Alike(r, c)
BY DEF Records, Record, Alike

LEMMA AlikeMakes ==
  ASSUME NEW r, NEW c, Alike(r, c), NEW t, NEW u
  PROVE  Makes(r, t, u) <=> Makes(c, t, u)
BY DEF Alike, Makes, Splice

LEMMA CloseKeeps ==
  ASSUME NEW list, UndoList(list), NEW closed, closed = UndoCloseRun(list)
  PROVE  /\ UndoList(closed) /\ Len(closed) = Len(list)
         /\ \A i \in 1..Len(list) : ~closed[i].append /\ Alike(list[i], closed[i])
<1>0. list \in Seq(Records)  BY DEF UndoList
<1>1. CASE list = <<>>
  <2>1. closed = list  BY <1>1 DEF UndoCloseRun
  <2>2. Len(list) = 0  BY <1>1
  <2>3. \A i \in 1..Len(list) : ~closed[i].append /\ Alike(list[i], closed[i])  BY <2>2
  <2>4. QED  BY <2>1, <2>3
<1>2. CASE list # <<>>
  <2> DEFINE c == [list[1] EXCEPT !.append = FALSE]
  <2>1. Len(list) \in Nat /\ Len(list) > 0 /\ list[1] \in Records
    BY <1>0, <1>2, ListElements
  <2>2. closed = [list EXCEPT ![1] = c]  BY <1>2 DEF UndoCloseRun
  <2>3. c \in Records /\ ~c.append /\ Alike(list[1], c)
    BY <2>1, ClosedRecord
  <2> HIDE DEF c
  <2>4. /\ closed \in Seq(Records) /\ Len(closed) = Len(list)
        /\ closed[1] = c /\ \A i \in 2..Len(list) : closed[i] = list[i]
    BY <1>0, <2>1, <2>2, <2>3
  <2>5. ASSUME NEW i \in 1..Len(list)
        PROVE  ~closed[i].append /\ Alike(list[i], closed[i])
    <3>1. CASE i = 1  BY <2>3, <2>4, <3>1
    <3>2. CASE i # 1
      <4>1. i \in 2..Len(list)  BY <2>1, <3>2
      <4>2. closed[i] = list[i] /\ ~list[i].append  BY <2>4, <4>1 DEF UndoList
      <4>3. QED  BY <4>2 DEF Alike
    <3>3. QED  BY <3>1, <3>2
  <2>7. ~closed[Len(closed)].paired
    <3>1. Len(list) \in 1..Len(list)  BY <2>1
    <3>2. QED  BY <1>2, <2>4, <2>5, <3>1 DEF UndoList, Alike
  <2>8. \A i \in 2..Len(closed) : ~closed[i].append
    <3>1. \A i \in 2..Len(list) : i \in 1..Len(list)  BY <2>1
    <3>2. QED  BY <2>4, <2>5, <3>1
  <2>9. QED  BY <2>4, <2>5, <2>7, <2>8 DEF UndoList
<1>3. QED  BY <1>1, <1>2

-----------------------------------------------------------------------------
(* How recording changes the undo list: n records come on top, the first d  *)
(* are gone, and the others are what they were.                             *)
Atop(old, new, n, d) ==
  /\ n \in Nat /\ d <= Len(old) /\ Len(new) + d = Len(old) + n
  /\ \A i \in 1..(n - 1) : new[i].paired
  /\ \A i \in 1..(Len(old) - d) : Alike(old[i + d], new[i + n])

(* Records of the step that is there already, or none; a step of its own;   *)
(* and a step that takes the open one in.                                   *)
Extends(old, new) == new = old \/ \E n : n # 0 /\ Atop(old, new, n, 0) /\ new[n].paired
Begins(old, new)  == \E n : n # 0 /\ Atop(old, new, n, 0) /\ ~new[n].paired
Joins(old, new) ==
  \E n : /\ n # 0 /\ Atop(old, new, n, 1) /\ ~new[n].paired
         /\ old[1].append /\ ~old[1].paired /\ (n = 1 => new # old)

Grows(old, new) == Begins(old, new) \/ Joins(old, new)

(* A list with another record at its head. *)
HasHead(list, r, rest) ==
  /\ Len(list) = Len(rest) + 1 /\ list[1] = r
  /\ \A i \in 1..Len(rest) : list[i + 1] = rest[i]

LEMMA AtopTwice ==
  ASSUME NEW old \in Seq(Records), NEW a \in Seq(Records), NEW b \in Seq(Records),
         NEW n \in Nat, NEW d \in {0, 1}, Atop(old, a, n, d),
         NEW m \in Nat, m # 0, Atop(a, b, m, 0), b[m].paired,
         NEW l, l = n + m
  PROVE  Atop(old, b, l, d) /\ (n # 0 => (b[l].paired <=> a[n].paired))
<1>1. /\ Len(old) \in Nat /\ Len(a) \in Nat /\ Len(b) \in Nat
      /\ d <= Len(old) /\ Len(a) + d = Len(old) + n /\ Len(b) = Len(a) + m
      /\ \A i \in 1..(n - 1) : a[i].paired
      /\ \A i \in 1..(m - 1) : b[i].paired
  <2>1. Len(b) + 0 = Len(a) + m /\ Len(a) \in Nat /\ Len(b) \in Nat  BY ListElements DEF Atop
  <2>2. Len(b) = Len(a) + m  BY <2>1
  <2>3. QED  BY <2>1, <2>2, ListElements DEF Atop
<1>2. \A i \in 1..(Len(old) - d) : Alike(old[i + d], a[i + n])  BY DEF Atop
<1>3. \A i \in 1..Len(a) : Alike(a[i], b[i + m])
  <2>1. \A i \in 1..(Len(a) - 0) : Alike(a[i + 0], b[i + m])  BY DEF Atop
  <2>2. Len(a) - 0 = Len(a) /\ \A i \in 1..Len(a) : i + 0 = i  BY <1>1
  <2>3. QED  BY <2>1, <2>2
<1>4. n <= Len(a) /\ l \in Nat /\ Len(b) + d = Len(old) + l
  <2>1. PICK x \in Nat, y \in Nat, z \in Nat : x = Len(old) /\ y = Len(a) /\ z = Len(b)
    BY <1>1
  <2>2. d <= x /\ y + d = x + n /\ z = y + m /\ d \in Nat  BY <1>1, <2>1
  <2>3. n <= y /\ l \in Nat /\ z + d = x + l  BY <2>2
  <2>4. QED  BY <2>1, <2>3
<1>5. ASSUME NEW i \in 1..(l - 1)  PROVE b[i].paired
  <2>1. CASE i < m
    <3>1. i \in 1..(m - 1)  BY <2>1
    <3>2. QED  BY <1>1, <3>1
  <2>2. CASE i = m  BY <2>2
  <2>3. CASE i > m
    <3>1. PICK j \in 1..(n - 1) : i = j + m
      <4>1. i - m \in 1..(n - 1) /\ i = (i - m) + m  BY <2>3
      <4>2. QED  BY <4>1
    <3>2. j \in 1..Len(a)  BY <1>1, <1>4
    <3>3. a[j].paired /\ Alike(a[j], b[j + m])  BY <1>1, <1>3, <3>2
    <3>4. QED  BY <3>1, <3>3 DEF Alike
  <2>4. QED  BY <2>1, <2>2, <2>3
<1>6. ASSUME NEW i \in 1..(Len(old) - d)  PROVE Alike(old[i + d], b[i + l])
  <2>1. PICK j \in 1..Len(a) : j = i + n
    <3>1. i + n \in 1..Len(a)  BY <1>1
    <3>2. QED  BY <3>1
  <2>2. Alike(old[i + d], a[j]) /\ Alike(a[j], b[j + m])  BY <1>2, <1>3, <2>1
  <2>3. j + m = i + l  BY <2>1
  <2>4. QED  BY <2>2, <2>3 DEF Alike
<1>7. ASSUME n # 0  PROVE b[l].paired <=> a[n].paired
  <2>1. n \in 1..Len(a)  BY <1>4, <1>7
  <2>2. Alike(a[n], b[n + m])  BY <1>3, <2>1
  <2>3. QED  BY <2>2 DEF Alike
<1>8. QED  BY <1>1, <1>4, <1>5, <1>6, <1>7 DEF Atop

LEMMA ExtendsOn ==
  ASSUME NEW old \in Seq(Records), NEW a \in Seq(Records), NEW b \in Seq(Records),
         Extends(a, b)
  PROVE  /\ Extends(old, a) => Extends(old, b)
         /\ Grows(old, a) => Grows(old, b)
<1>1. CASE b = a  BY <1>1
<1>2. CASE b # a
  <2>1. PICK m : m # 0 /\ Atop(a, b, m, 0) /\ b[m].paired  BY <1>2 DEF Extends
  <2>2. m \in Nat  BY <2>1 DEF Atop
  <2>3. ASSUME Extends(old, a)  PROVE Extends(old, b)
    <3>1. CASE a = old  BY <2>1, <3>1 DEF Extends
    <3>2. CASE a # old
      <4>1. PICK n : n # 0 /\ Atop(old, a, n, 0) /\ a[n].paired  BY <2>3, <3>2 DEF Extends
      <4>2. n \in Nat  BY <4>1 DEF Atop
      <4>3. PICK l : l = n + m  OBVIOUS
      <4>4. Atop(old, b, l, 0) /\ b[l].paired  BY <2>1, <2>2, <4>1, <4>2, <4>3, AtopTwice
      <4>5. l # 0  BY <2>2, <4>1, <4>2, <4>3
      <4>6. QED  BY <4>4, <4>5 DEF Extends
    <3>3. QED  BY <3>1, <3>2
  <2>4. ASSUME Begins(old, a)  PROVE Begins(old, b)
    <3>1. PICK n : n # 0 /\ Atop(old, a, n, 0) /\ ~a[n].paired  BY <2>4 DEF Begins
    <3>2. n \in Nat  BY <3>1 DEF Atop
    <3>3. PICK l : l = n + m  OBVIOUS
    <3>4. Atop(old, b, l, 0) /\ ~b[l].paired  BY <2>1, <2>2, <3>1, <3>2, <3>3, AtopTwice
    <3>5. l # 0  BY <2>2, <3>1, <3>2, <3>3
    <3>6. QED  BY <3>4, <3>5 DEF Begins
  <2>5. ASSUME Joins(old, a)  PROVE Joins(old, b)
    <3>1. PICK n : /\ n # 0 /\ Atop(old, a, n, 1) /\ ~a[n].paired
                   /\ old[1].append /\ ~old[1].paired
      BY <2>5 DEF Joins
    <3>2. n \in Nat  BY <3>1 DEF Atop
    <3>3. PICK l : l = n + m  OBVIOUS
    <3>4. Atop(old, b, l, 1) /\ ~b[l].paired  BY <2>1, <2>2, <3>1, <3>2, <3>3, AtopTwice
    <3>5. l # 0 /\ l # 1  BY <2>1, <2>2, <3>1, <3>2, <3>3
    <3>6. QED  BY <3>1, <3>4, <3>5 DEF Joins
  <2>6. QED  BY <2>3, <2>4, <2>5 DEF Grows
<1>3. QED  BY <1>1, <1>2

(* One record more: paired to the step below it, a step of its own, or the  *)
(* one that takes the place of the head it was folded into.                 *)
LEMMA OneOnTop ==
  ASSUME NEW old \in Seq(Records), NEW new, NEW r, NEW rest,
         HasHead(new, r, rest), Len(rest) = Len(old),
         \A i \in 1..Len(old) : Alike(old[i], rest[i])
  PROVE  /\ r.paired => Extends(old, new)
         /\ ~r.paired => Grows(old, new)
<1>1. Len(old) \in Nat  BY ListElements
<1>2. Atop(old, new, 1, 0)
  <2>1. Len(new) + 0 = Len(old) + 1 /\ 0 <= Len(old)  BY <1>1 DEF HasHead
  <2>2. \A i \in 1..(Len(old) - 0) : Alike(old[i + 0], new[i + 1])
    <3>1. TAKE i \in 1..(Len(old) - 0)
    <3>2. i \in 1..Len(old) /\ i + 0 = i  BY <1>1
    <3>3. new[i + 1] = rest[i]  BY <3>2 DEF HasHead
    <3>4. QED  BY <3>2, <3>3
  <2>3. QED  BY <2>1, <2>2 DEF Atop
<1>3. new[1] = r  BY DEF HasHead
<1>4. QED  BY <1>2, <1>3 DEF Extends, Begins, Grows

LEMMA HeadReplaced ==
  ASSUME NEW old \in Seq(Records), old # <<>>, old[1].append, ~old[1].paired,
         NEW new, NEW r, ~r.paired, r # old[1], NEW rest,
         HasHead(new, r, rest), Len(old) = Len(rest) + 1, Len(rest) \in Nat,
         \A i \in 1..Len(rest) : rest[i] = old[i + 1]
  PROVE  Grows(old, new)
<1>1. Atop(old, new, 1, 1)
  <2>1. Len(new) + 1 = Len(old) + 1 /\ 1 <= Len(old)  BY DEF HasHead
  <2>2. \A i \in 1..(Len(old) - 1) : Alike(old[i + 1], new[i + 1])
    <3>1. TAKE i \in 1..(Len(old) - 1)
    <3>2. i \in 1..Len(rest)  OBVIOUS
    <3>3. new[i + 1] = old[i + 1]  BY <3>2 DEF HasHead
    <3>4. QED  BY <3>3 DEF Alike
  <2>3. QED  BY <2>1, <2>2 DEF Atop
<1>2. new[1] = r  BY DEF HasHead
<1>3. new # old  BY <1>2
<1>4. QED  BY <1>1, <1>2, <1>3 DEF Joins, Grows

-----------------------------------------------------------------------------
(* Merging *)
LEMMA SameCut ==
  ASSUME NEW b \in Text, NEW a \in Text, NEW c \in Text, NEW f \in Text,
         Concat(b, a) = Concat(c, f), EndOf(b) = EndOf(c)
  PROVE  b = c /\ a = f
<1>1. Before(Concat(b, a), EndOf(b)) = b /\ After(Concat(b, a), EndOf(b)) = a  BY CutConcat
<1>2. Before(Concat(c, f), EndOf(c)) = c /\ After(Concat(c, f), EndOf(c)) = f  BY CutConcat
<1>3. QED  BY <1>1, <1>2

LEMMA ConcatTyped ==
  ASSUME NEW d \in Text, NEW e \in Text
  PROVE  Concat(d, e) \in Text
BY ConcatElements DEF ConcatFacts

LEMMA MergedFields ==
  ASSUME NEW prev \in Records, NEW new \in Records, CanMerge(prev, new),
         NEW start \in Position, NEW data \in Text,
         start = IF Backspacing(prev, new) THEN new.start ELSE prev.start,
         data = IF Backspacing(prev, new) THEN Concat(new.data, prev.data)
                                          ELSE Concat(prev.data, new.data),
         NEW r, r = UndoMerge(prev, new)
  PROVE  /\ r \in Records /\ ~r.paired /\ r.delete = prev.delete
         /\ r.start = start /\ r.data = data /\ r.end = ComputeInsertEnd(data, start)
<1> DEFINE end == ComputeInsertEnd(data, start)
<1>1. end \in Position  BY EndTyped
<1>2. r = [prev EXCEPT !.start = start, !.data = data, !.nmerges = @ + 1, !.end = end]
  BY DEF UndoMerge
<1> HIDE DEF end
<1>3. prev \in Record /\ prev.nmerges \in Nat /\ MergeLimit \in Nat
  BY RecordFields, BoundAssumption
<1>4. ~prev.paired /\ prev.nmerges < MergeLimit  BY DEF CanMerge
<1>5. prev.nmerges + 1 \in Nat /\ prev.nmerges + 1 <= MergeLimit  BY <1>3, <1>4
<1>6. r = [start |-> start, end |-> end, data |-> data, delete |-> prev.delete,
           paired |-> prev.paired, append |-> prev.append, nmerges |-> prev.nmerges + 1]
  BY <1>2, <1>3 DEF Record
<1>7. r \in Record  BY <1>1, <1>3, <1>5, <1>6 DEF Record
<1>8. r \in Records  BY <1>4, <1>5, <1>6, <1>7 DEF Records
<1>9. QED  BY <1>4, <1>6, <1>8 DEF end

LEMMA MergedDiffers ==
  ASSUME NEW prev \in Records, NEW new, NEW r, r = UndoMerge(prev, new)
  PROVE  r # prev
<1>1. prev \in Record /\ prev.nmerges \in Nat  BY RecordFields
<1>2. r.nmerges = prev.nmerges + 1  BY <1>1 DEF UndoMerge, Record
<1>3. QED  BY <1>1, <1>2

(* What two records that merge made of a text, the merged record makes.     *)
LEMMA MergeMakes ==
  ASSUME NEW prev \in Records, NEW new \in Records, CanMerge(prev, new),
         NEW t0 \in Text, NEW t1 \in Text, NEW t2 \in Text,
         Makes(prev, t0, t1), Makes(new, t1, t2),
         NEW r, r = UndoMerge(prev, new)
  PROVE  r \in Records /\ ~r.paired /\ Makes(r, t0, t2)
<1>1. /\ prev.start \in Position /\ prev.end \in Position /\ prev.data \in Text
      /\ new.start \in Position /\ new.end \in Position /\ new.data \in Text
  BY RecordFields
<1>2. Concat(prev.data, new.data) \in Text /\ Concat(new.data, prev.data) \in Text
  BY <1>1, ConcatTyped
<1>3. prev.delete = new.delete /\ (Typing(prev, new) \/ ForwardDelete(prev, new) \/ Backspacing(prev, new))
  BY DEF CanMerge
<1>4. CASE Typing(prev, new)
  <2>1. ~new.delete /\ ~prev.delete /\ ~Backspacing(prev, new) /\ prev.end = new.start
    BY <1>3, <1>4 DEF Typing, Backspacing
  <2>2. /\ r \in Records /\ ~r.paired /\ ~r.delete
        /\ r.start = prev.start /\ r.data = Concat(prev.data, new.data)
        /\ r.end = ComputeInsertEnd(r.data, r.start)
    BY <1>1, <1>2, <2>1, MergedFields
  <2>3. Splice(prev, t1, t0) /\ Splice(new, t2, t1)  BY <2>1 DEF Makes
  <2>4. PICK b \in Text, a \in Text :
          /\ prev.start = EndOf(b) /\ prev.end = EndOf(Concat(b, prev.data))
          /\ t1 = Concat(Concat(b, prev.data), a) /\ t0 = Concat(b, a)
    BY <2>3 DEF Splice
  <2>5. PICK c \in Text, f \in Text :
          /\ new.start = EndOf(c)
          /\ t2 = Concat(Concat(c, new.data), f) /\ t1 = Concat(c, f)
    BY <2>3 DEF Splice
  <2>6. Concat(b, prev.data) \in Text  BY <1>1, ConcatTyped
  <2>7. c = Concat(b, prev.data) /\ f = a  BY <2>1, <2>4, <2>5, <2>6, SameCut
  <2>8. Concat(Concat(b, prev.data), new.data) = Concat(b, r.data)
    BY <1>1, <2>2, ConcatAssoc
  <2>9. r.end = EndOf(Concat(b, r.data))  BY <1>2, <2>2, <2>4, EndOfConcat
  <2>10. Splice(r, t2, t0)  BY <2>2, <2>4, <2>5, <2>7, <2>8, <2>9 DEF Splice
  <2>11. QED  BY <2>2, <2>10 DEF Makes
<1>5. CASE ForwardDelete(prev, new)
  <2>1. new.delete /\ prev.delete /\ ~Backspacing(prev, new) /\ prev.start = new.start
    BY <1>3, <1>5 DEF ForwardDelete, Backspacing
  <2>2. /\ r \in Records /\ ~r.paired /\ r.delete
        /\ r.start = prev.start /\ r.data = Concat(prev.data, new.data)
        /\ r.end = ComputeInsertEnd(r.data, r.start)
    BY <1>1, <1>2, <2>1, MergedFields
  <2>3. Splice(prev, t0, t1) /\ Splice(new, t1, t2)  BY <2>1 DEF Makes
  <2>4. PICK b \in Text, a \in Text :
          /\ prev.start = EndOf(b)
          /\ t0 = Concat(Concat(b, prev.data), a) /\ t1 = Concat(b, a)
    BY <2>3 DEF Splice
  <2>5. PICK c \in Text, f \in Text :
          /\ new.start = EndOf(c)
          /\ t1 = Concat(Concat(c, new.data), f) /\ t2 = Concat(c, f)
    BY <2>3 DEF Splice
  <2>6. PICK g \in Text : g = Concat(new.data, f) /\ t1 = Concat(c, g)
    <3>1. Concat(new.data, f) \in Text  BY <1>1, ConcatTyped
    <3>2. Concat(Concat(c, new.data), f) = Concat(c, Concat(new.data, f))  BY <1>1, ConcatAssoc
    <3>3. QED  BY <2>5, <3>1, <3>2
  <2>7. c = b /\ a = Concat(new.data, f)
    <3>1. Concat(c, g) = Concat(b, a) /\ EndOf(c) = EndOf(b)  BY <2>1, <2>4, <2>5, <2>6
    <3>2. c = b /\ g = a  BY <3>1, SameCut
    <3>3. QED  BY <2>6, <3>2
  <2>8. Concat(Concat(b, prev.data), Concat(new.data, f))
          = Concat(Concat(Concat(b, prev.data), new.data), f)
    <3>1. Concat(b, prev.data) \in Text  BY <1>1, ConcatTyped
    <3>2. QED  BY <1>1, <3>1, ConcatAssoc
  <2>9. Concat(Concat(b, prev.data), new.data) = Concat(b, r.data)
    BY <1>1, <2>2, ConcatAssoc
  <2>10. r.end = EndOf(Concat(b, r.data))  BY <1>2, <2>2, <2>4, EndOfConcat
  <2>11. Splice(r, t0, t2)
    BY <2>2, <2>4, <2>5, <2>7, <2>8, <2>9, <2>10 DEF Splice
  <2>12. QED  BY <2>2, <2>11 DEF Makes
<1>6. CASE Backspacing(prev, new)
  <2>1. new.delete /\ prev.delete /\ prev.start = new.end
    BY <1>3, <1>6 DEF Backspacing
  <2>2. /\ r \in Records /\ ~r.paired /\ r.delete
        /\ r.start = new.start /\ r.data = Concat(new.data, prev.data)
        /\ r.end = ComputeInsertEnd(r.data, r.start)
    BY <1>1, <1>2, <1>6, <2>1, MergedFields
  <2>3. Splice(prev, t0, t1) /\ Splice(new, t1, t2)  BY <2>1 DEF Makes
  <2>4. PICK b \in Text, a \in Text :
          /\ prev.start = EndOf(b)
          /\ t0 = Concat(Concat(b, prev.data), a) /\ t1 = Concat(b, a)
    BY <2>3 DEF Splice
  <2>5. PICK c \in Text, f \in Text :
          /\ new.start = EndOf(c) /\ new.end = EndOf(Concat(c, new.data))
          /\ t1 = Concat(Concat(c, new.data), f) /\ t2 = Concat(c, f)
    BY <2>3 DEF Splice
  <2>6. Concat(c, new.data) \in Text  BY <1>1, ConcatTyped
  <2>7. b = Concat(c, new.data) /\ a = f  BY <2>1, <2>4, <2>5, <2>6, SameCut
  <2>8. Concat(Concat(c, new.data), prev.data) = Concat(c, r.data)
    BY <1>1, <2>2, ConcatAssoc
  <2>9. r.end = EndOf(Concat(c, r.data))  BY <1>2, <2>2, <2>5, EndOfConcat
  <2>10. Splice(r, t0, t2)
    BY <2>2, <2>4, <2>5, <2>7, <2>8, <2>9 DEF Splice
  <2>11. QED  BY <2>2, <2>10 DEF Makes
<1>7. QED  BY <1>3, <1>4, <1>5, <1>6

-----------------------------------------------------------------------------
(* Pushing a record *)

LEMMA OnTop ==
  ASSUME NEW r \in Records, NEW rest, UndoList(rest),
         \A i \in 1..Len(rest) : ~rest[i].append,
         r.paired => rest # <<>>,
         NEW list, list = << r >> \o rest
  PROVE  UndoList(list) /\ list # <<>> /\ HasHead(list, r, rest)
<1>0. rest \in Seq(Records) /\ Len(rest) \in Nat /\ (rest # <<>> <=> Len(rest) > 0)
  BY ListElements DEF UndoList
<1>1. << r >> \in Seq(Records) /\ Len(<< r >>) = 1 /\ << r >>[1] = r  OBVIOUS
<1>2. /\ list \in Seq(Records) /\ Len(list) = 1 + Len(rest)
      /\ list[1] = r
      /\ \A i \in 1..Len(rest) : list[1 + i] = rest[i]
  <2> DEFINE one == << r >>
  <2>1. one \in Seq(Records) /\ Len(one) = 1 /\ one[1] = r /\ list = one \o rest  BY <1>1
  <2> HIDE DEF one
  <2>2. /\ list \in Seq(Records) /\ Len(list) = Len(one) + Len(rest)
        /\ \A i \in 1..Len(one) : list[i] = one[i]
        /\ \A i \in 1..Len(rest) : list[Len(one) + i] = rest[i]
    BY <1>0, <2>1, SeqCat
  <2>3. QED  BY <2>1, <2>2
<1>3. Len(list) > 0 /\ list # <<>>
  <2>1. Len(list) > 0  BY <1>0, <1>2
  <2>2. QED  BY <1>2, <2>1, ListElements
<1>4. \A i \in 2..Len(list) : ~list[i].append
  <2>1. TAKE i \in 2..Len(list)
  <2>2. PICK j \in 1..Len(rest) : i = 1 + j
    <3>1. i - 1 \in 1..Len(rest) /\ i = 1 + (i - 1)  BY <1>0, <1>2
    <3>2. QED  BY <3>1
  <2>3. list[i] = rest[j]  BY <1>2, <2>2
  <2>4. QED  BY <2>3
<1>5. ~list[Len(list)].paired
  <2>1. CASE rest = <<>>
    <3>1. Len(rest) = 0  BY <2>1
    <3>2. Len(list) = 1  BY <1>2, <3>1
    <3>3. QED  BY <1>2, <2>1, <3>2
  <2>2. CASE rest # <<>>
    <3>1. Len(rest) \in 1..Len(rest)  BY <1>0, <2>2
    <3>2. list[1 + Len(rest)] = rest[Len(rest)]  BY <1>2, <3>1
    <3>3. QED  BY <1>2, <2>2, <3>2 DEF UndoList
  <2>3. QED  BY <2>1, <2>2
<1>6. \A i \in 1..Len(rest) : list[i + 1] = rest[i]
  <2>1. \A i \in 1..Len(rest) : i + 1 = 1 + i  BY <1>0
  <2>2. QED  BY <1>2, <2>1
<1>7. Len(list) = Len(rest) + 1  BY <1>0, <1>2
<1>8. QED  BY <1>2, <1>3, <1>4, <1>5, <1>6, <1>7 DEF UndoList, HasHead

(* The list without its head. *)
LEMMA WithoutHead ==
  ASSUME NEW list, UndoList(list), list # <<>>, NEW rest, rest = Tail(list)
  PROVE  /\ UndoList(rest) /\ Len(list) = Len(rest) + 1 /\ Len(rest) \in Nat
         /\ \A i \in 1..Len(rest) : rest[i] = list[i + 1] /\ ~rest[i].append
<1>0. list \in Seq(Records) /\ Len(list) \in Nat /\ Len(list) > 0
  BY ListElements DEF UndoList
<1>1. /\ rest \in Seq(Records) /\ Len(rest) = Len(list) - 1
      /\ \A i \in 1..Len(rest) : rest[i] = list[i + 1]
  BY <1>0, HeadTailProperties
<1>2. \A i \in 1..Len(rest) : ~rest[i].append
  <2>1. \A i \in 1..Len(rest) : i + 1 \in 2..Len(list)  BY <1>0, <1>1
  <2>2. QED  BY <1>1, <2>1 DEF UndoList
<1>3. rest # <<>> => ~rest[Len(rest)].paired
  <2>1. HAVE rest # <<>>
  <2>2. Len(rest) \in Nat /\ Len(rest) > 0  BY <1>1, <2>1, ListElements
  <2>3. Len(rest) \in 1..Len(rest) /\ Len(rest) + 1 = Len(list)  BY <1>0, <1>1, <2>2
  <2>4. rest[Len(rest)] = list[Len(list)]  BY <1>1, <2>3
  <2>5. QED  BY <2>4 DEF UndoList
<1>4. \A i \in 2..Len(rest) : ~rest[i].append
  <2>1. Len(rest) \in Nat  BY <1>0, <1>1
  <2>2. \A i \in 2..Len(rest) : i \in 1..Len(rest)  BY <2>1
  <2>3. QED  BY <1>2, <2>2
<1>5. Len(list) = Len(rest) + 1 /\ Len(rest) \in Nat  BY <1>0, <1>1
<1>6. QED  BY <1>1, <1>2, <1>3, <1>4, <1>5 DEF UndoList

(* The texts behind a list are those behind the list without its first k    *)
(* records, and k more.                                                     *)
Below(R, T, k, l) == \A i \in 0..l : R[i] = T[i + k]

LEMMA TextsBelow ==
  ASSUME NEW list \in Seq(Records), NEW T, UndoTexts(list, T),
         NEW k \in 0..Len(list),
         NEW rest \in Seq(Records), Len(rest) = Len(list) - k,
         \A i \in 1..Len(rest) : Alike(list[i + k], rest[i])
  PROVE  \E R : /\ UndoTexts(rest, R) /\ R[0] = T[k] /\ R[Len(rest)] = T[Len(list)]
               /\ Below(R, T, k, Len(rest))
<1> DEFINE R == [i \in 0..Len(rest) |-> T[i + k]]
<1>0. Len(list) \in Nat /\ Len(rest) \in Nat /\ k \in Nat  BY ListElements
<1>1. T \in [0..Len(list) -> Text]  BY DEF UndoTexts
<1>2. \A i \in 0..Len(rest) : i + k \in 0..Len(list)  BY <1>0
<1>3. R \in [0..Len(rest) -> Text]  BY <1>1, <1>2
<1>4. ASSUME NEW i \in 1..Len(rest)
      PROVE  /\ Makes(rest[i], R[i], R[i - 1])
             /\ ~rest[i].paired => Terminated(R[i])
  <2>1. i + k \in 1..Len(list) /\ (i - 1) + k = (i + k) - 1 /\ i \in 0..Len(rest) /\ i - 1 \in 0..Len(rest)
    BY <1>0
  <2>2. R[i] = T[i + k] /\ R[i - 1] = T[(i + k) - 1]  BY <2>1
  <2>3. /\ Makes(list[i + k], T[i + k], T[(i + k) - 1])
        /\ ~list[i + k].paired => Terminated(T[i + k])
    BY <2>1 DEF UndoTexts
  <2>4. Alike(list[i + k], rest[i])  OBVIOUS
  <2>5. Makes(rest[i], T[i + k], T[(i + k) - 1])  BY <2>3, <2>4, AlikeMakes
  <2>6. QED  BY <2>2, <2>3, <2>4, <2>5 DEF Alike
<1>5. R[0] = T[k] /\ R[Len(rest)] = T[Len(list)]
  <2>1. 0 \in 0..Len(rest) /\ 0 + k = k /\ Len(rest) \in 0..Len(rest) /\ Len(rest) + k = Len(list)
    BY <1>0
  <2>2. QED  BY <2>1
<1>6. Below(R, T, k, Len(rest))  BY DEF Below
<1> HIDE DEF R
<1>7. QED  BY <1>3, <1>4, <1>5, <1>6 DEF UndoTexts

LEMMA CloseTexts ==
  ASSUME NEW list, UndoList(list), NEW T, UndoTexts(list, T),
         NEW closed, closed = UndoCloseRun(list)
  PROVE  UndoTexts(closed, T)
<1>1. Len(closed) = Len(list) /\ \A i \in 1..Len(list) : Alike(list[i], closed[i])
  BY CloseKeeps
<1>2. T \in [0..Len(closed) -> Text]  BY <1>1 DEF UndoTexts
<1>3. ASSUME NEW i \in 1..Len(closed)
      PROVE  /\ Makes(closed[i], T[i], T[i - 1])
             /\ ~closed[i].paired => Terminated(T[i])
  <2>1. Alike(list[i], closed[i]) /\ i \in 1..Len(list)  BY <1>1
  <2>2. Makes(list[i], T[i], T[i - 1]) /\ (~list[i].paired => Terminated(T[i]))
    BY <2>1 DEF UndoTexts
  <2>3. Makes(closed[i], T[i], T[i - 1])  BY <2>1, <2>2, AlikeMakes
  <2>4. QED  BY <2>1, <2>2, <2>3 DEF Alike
<1>4. QED  BY <1>2, <1>3 DEF UndoTexts

LEMMA CloseFits ==
  ASSUME NEW list, UndoList(list), NEW t, NEW base, UndoFits(list, t, base),
         NEW closed, closed = UndoCloseRun(list)
  PROVE  UndoFits(closed, t, base)
<1>1. PICK T : UndoTexts(list, T) /\ T[0] = t /\ T[Len(list)] \in base  BY DEF UndoFits
<1>2. Len(closed) = Len(list)  BY CloseKeeps
<1>3. UndoTexts(closed, T)  BY <1>1, CloseTexts
<1>4. QED  BY <1>1, <1>2, <1>3 DEF UndoFits

LEMMA FitsOnTop ==
  ASSUME NEW rest \in Seq(Records), NEW t, NEW base, UndoFits(rest, t, base),
         NEW r, NEW u \in Text, Makes(r, t, u), ~r.paired => Terminated(t),
         NEW list, HasHead(list, r, rest)
  PROVE  UndoFits(list, u, base)
<1>0. /\ Len(rest) \in Nat /\ Len(list) = Len(rest) + 1 /\ list[1] = r
      /\ \A i \in 1..Len(rest) : list[i + 1] = rest[i]
  BY DEF HasHead
<1>1. PICK T : UndoTexts(rest, T) /\ T[0] = t /\ T[Len(rest)] \in base  BY DEF UndoFits
<1>2. T \in [0..Len(rest) -> Text]  BY <1>1 DEF UndoTexts
<1> DEFINE R == [i \in 0..Len(list) |-> IF i = 0 THEN u ELSE T[i - 1]]
<1>3. R \in [0..Len(list) -> Text]
  <2>1. \A i \in 0..Len(list) : i # 0 => i - 1 \in 0..Len(rest)  BY <1>0
  <2>2. QED  BY <1>2, <2>1
<1>4. R[0] = u /\ R[Len(list)] = T[Len(rest)] /\ \A i \in 0..Len(rest) : R[i + 1] = T[i]
  <2>1. 0 \in 0..Len(list) /\ Len(list) \in 0..Len(list) /\ Len(list) # 0 /\ Len(list) - 1 = Len(rest)
    BY <1>0
  <2>2. \A i \in 0..Len(rest) : i + 1 \in 0..Len(list) /\ i + 1 # 0 /\ (i + 1) - 1 = i  BY <1>0
  <2>3. QED  BY <2>1, <2>2
<1> HIDE DEF R
<1>5. ASSUME NEW j \in 1..Len(list)
      PROVE  Makes(list[j], R[j], R[j - 1]) /\ (~list[j].paired => Terminated(R[j]))
  <2>1. CASE j = 1
    <3>1. R[0 + 1] = T[0]  BY <1>0, <1>4
    <3>2. R[1] = t /\ R[1 - 1] = u  BY <1>1, <1>4, <3>1
    <3>3. QED  BY <1>0, <2>1, <3>2
  <2>2. CASE j # 1
    <3>1. PICK i \in 1..Len(rest) : j = i + 1
      <4>1. j - 1 \in 1..Len(rest) /\ j = (j - 1) + 1  BY <1>0, <2>2
      <4>2. QED  BY <4>1
    <3>2. i \in 0..Len(rest) /\ i - 1 \in 0..Len(rest) /\ (i - 1) + 1 = j - 1  BY <1>0, <3>1
    <3>3. R[j] = T[i] /\ R[j - 1] = T[i - 1]  BY <1>4, <3>1, <3>2
    <3>4. Makes(rest[i], T[i], T[i - 1]) /\ (~rest[i].paired => Terminated(T[i]))
      BY <1>1 DEF UndoTexts
    <3>5. QED  BY <1>0, <3>1, <3>3, <3>4
  <2>3. QED  BY <2>1, <2>2
<1>6. UndoTexts(list, R)  BY <1>3, <1>5 DEF UndoTexts
<1>7. QED  BY <1>1, <1>4, <1>6 DEF UndoFits

(* Recording an edit keeps the list one that leads back, merged or not.     *)
LEMMA Pushed ==
  ASSUME NEW list, UndoList(list), NEW t \in Text, NEW base, UndoFits(list, t, base),
         NEW new \in Records, NEW u \in Text, Makes(new, t, u),
         new.paired => list # <<>>, ~new.paired => Terminated(t),
         NEW after, after = PushUndo(list, new)
  PROVE  /\ UndoList(after) /\ after # <<>> /\ UndoFits(after, u, base)
         /\ new.paired => Extends(list, after)
         /\ ~new.paired => Grows(list, after)
<1>0. list \in Seq(Records)  BY DEF UndoList
<1>1. CASE new.append /\ list # <<>> /\ CanMerge(list[1], new)
  <2> DEFINE rest == Tail(list)
             r    == UndoMerge(list[1], new)
  <2>1. /\ UndoList(rest) /\ Len(list) = Len(rest) + 1 /\ Len(rest) \in Nat
        /\ \A i \in 1..Len(rest) : rest[i] = list[i + 1] /\ ~rest[i].append
    BY <1>1, WithoutHead
  <2>2. after = << r >> \o rest  BY <1>1 DEF PushUndo
  <2>3. PICK T : UndoTexts(list, T) /\ T[0] = t /\ T[Len(list)] \in base  BY DEF UndoFits
  <2>4. list[1] \in Records /\ 1 \in 1..Len(list)  BY <1>0, <1>1, ListElements
  <2>5. T[1] \in Text /\ Makes(list[1], T[1], t) /\ (~list[1].paired => Terminated(T[1]))
    <3>1. 1 \in 0..Len(list) /\ 1 - 1 = 0  BY <2>1
    <3>2. QED  BY <2>3, <2>4, <3>1 DEF UndoTexts
  <2>6. r \in Records /\ ~r.paired /\ Makes(r, T[1], u)
    BY <1>1, <2>4, <2>5, MergeMakes
  <2>7. Terminated(T[1])  BY <1>1, <2>5 DEF CanMerge
  <2>8. UndoFits(rest, T[1], base)
    <3>1. /\ rest \in Seq(Records) /\ 1 \in 0..Len(list) /\ Len(rest) = Len(list) - 1
          /\ \A i \in 1..Len(rest) : Alike(list[i + 1], rest[i])
      BY <2>1 DEF UndoList, Alike
    <3> HIDE DEF rest
    <3>2. PICK R : UndoTexts(rest, R) /\ R[0] = T[1] /\ R[Len(rest)] = T[Len(list)]
      BY <1>0, <2>3, <3>1, TextsBelow
    <3>3. QED  BY <2>3, <3>2 DEF UndoFits
  <2> HIDE DEF rest, r
  <2>9. UndoList(after) /\ after # <<>> /\ HasHead(after, r, rest)
    <3>1. \A i \in 1..Len(rest) : ~rest[i].append  BY <2>1
    <3>2. r.paired => rest # <<>>  BY <2>6
    <3>3. r \in Records /\ UndoList(rest)  BY <2>1, <2>6
    <3>4. QED  BY <2>2, <3>1, <3>2, <3>3, OnTop
  <2>10. rest \in Seq(Records)  BY <2>1 DEF UndoList
  <2>11. UndoFits(after, u, base)  BY <2>6, <2>7, <2>8, <2>9, <2>10, FitsOnTop
  <2>12. Grows(list, after)
    <3>1. list[1].append /\ ~list[1].paired /\ ~new.paired  BY <1>1 DEF CanMerge
    <3>2. r # list[1]  BY <2>4, MergedDiffers DEF r
    <3>3. QED  BY <1>0, <1>1, <2>1, <2>6, <2>9, <3>1, <3>2, HeadReplaced
  <2>13. ~new.paired  BY <1>1 DEF CanMerge
  <2>14. QED  BY <2>9, <2>11, <2>12, <2>13
<1>2. CASE ~(new.append /\ list # <<>> /\ CanMerge(list[1], new))
  <2> DEFINE rest == UndoCloseRun(list)
  <2>1. /\ UndoList(rest) /\ Len(rest) = Len(list)
        /\ \A i \in 1..Len(rest) : ~rest[i].append /\ Alike(list[i], rest[i])
    BY CloseKeeps
  <2>2. UndoFits(rest, t, base)  BY CloseFits
  <2>3. after = << new >> \o rest  BY <1>2 DEF PushUndo
  <2> HIDE DEF rest
  <2>4. rest \in Seq(Records)  BY <2>1 DEF UndoList
  <2>5. new.paired => rest # <<>>  BY <1>0, <2>1, <2>4, ListElements
  <2>6. UndoList(after) /\ after # <<>> /\ HasHead(after, new, rest)
    <3>1. \A i \in 1..Len(rest) : ~rest[i].append  BY <2>1
    <3>2. QED  BY <2>1, <2>3, <2>5, <3>1, OnTop
  <2>7. UndoFits(after, u, base)  BY <2>2, <2>4, <2>6, FitsOnTop
  <2>8. /\ new.paired => Extends(list, after)
        /\ ~new.paired => Grows(list, after)
    <3>1. \A i \in 1..Len(list) : Alike(list[i], rest[i])  BY <2>1
    <3>2. QED  BY <1>0, <2>1, <2>6, <3>1, OneOnTop
  <2>9. QED  BY <2>6, <2>7, <2>8
<1>3. QED  BY <1>1, <1>2

-----------------------------------------------------------------------------
(* What an edit does to the positions held *)

(* Adjusting for s..e takes what lies in t to what lies in u, in order.     *)
Moves(t, u, s, e, is_delete) ==
  /\ \A p \in Position : InText(t, p) =>
       /\ AdjustPoint(p, s, e, is_delete) \in Position
       /\ InText(u, AdjustPoint(p, s, e, is_delete))
  /\ \A p, q \in Position : AtOrBefore(p, q) =>
       AtOrBefore(AdjustPoint(p, s, e, is_delete), AdjustPoint(q, s, e, is_delete))
  /\ \A v \in ViewState : v.rowoff < NumRows(t) =>
       /\ AdjustRowIndex(v, s, e, is_delete) \in ViewState
       /\ AdjustRowIndex(v, s, e, is_delete).rowoff < NumRows(u)

LEMMA RowsOfParts ==
  ASSUME NEW t \in Text, NEW p \in Position, InText(t, p)
  PROVE  /\ Before(t, p) \in Text /\ After(t, p) \in Text
         /\ Len(Before(t, p)) = p.y + 1 /\ Len(After(t, p)) = Len(t) - p.y
         /\ Len(t) \in Nat /\ p.y \in Nat /\ p.y < Len(t)
<1>1. /\ Before(t, p) \in Text /\ After(t, p) \in Text
      /\ Len(Before(t, p)) = p.y + 1 /\ Len(After(t, p)) = Len(t) - p.y
  BY CutElements DEF CutFacts
<1>2. Len(t) \in Nat /\ p.y \in Nat /\ p.y < Len(t)  BY TextElements DEF Position, InText, NumRows
<1>3. QED  BY <1>1, <1>2

LEMMA RowsOfConcat ==
  ASSUME NEW d \in Text, NEW e \in Text, NEW m \in Nat, Len(d) = m, NEW n \in Nat, Len(e) = n,
         NEW c, c = Concat(d, e)
  PROVE  c \in Text /\ Len(c) = m + n - 1
BY ConcatElements DEF ConcatFacts

LEMMA RowsAfterInsert ==
  ASSUME NEW t \in Text, NEW s \in Position, InText(t, s), NEW d \in Text,
         NEW u, u = BulkInsert(t, s, d), NEW e, e = ComputeInsertEnd(d, s)
  PROVE  NumRows(u) = NumRows(t) + (e.y - s.y)
<1> DEFINE b == Before(t, s)
           a == After(t, s)
           bd == Concat(b, d)
           lb == Len(b)  la == Len(a)  ld == Len(d)  lt == Len(t)  y == s.y
<1>1. b \in Text /\ a \in Text /\ lb = y + 1 /\ la = lt - y /\ y < lt
      /\ lt \in Nat /\ y \in Nat
  BY RowsOfParts
<1>2. ld \in Nat /\ ld >= 1 /\ lb \in Nat /\ la \in Nat  BY <1>1, TextElements
<1>3. u = Concat(bd, a)  BY InsertionIs
<1>4. e.y = y + ld - 1  BY DEF ComputeInsertEnd, At
<1>5. bd \in Text /\ Len(bd) = lb + ld - 1
  <2>1. b \in Text /\ Len(b) = lb /\ lb \in Nat /\ Len(d) = ld /\ ld \in Nat  BY <1>1, <1>2
  <2> HIDE DEF b, lb, ld
  <2>2. QED  BY <2>1, RowsOfConcat
<1> HIDE DEF bd
<1>6. PICK m \in Nat : m = Len(bd)  BY <1>5, TextElements
<1>7. Len(u) = m + la - 1
  <2>1. a \in Text /\ Len(a) = la /\ la \in Nat  BY <1>1, <1>2
  <2>2. bd \in Text /\ Len(bd) = m  BY <1>5, <1>6
  <2> HIDE DEF a, la
  <2>3. QED  BY <1>3, <2>1, <2>2, RowsOfConcat
<1>8. m = lb + ld - 1  BY <1>5, <1>6
<1> HIDE DEF lb, la, ld, lt, y
<1>9. m + la - 1 = lt + ((y + ld - 1) - y)  BY <1>1, <1>2, <1>8
<1>10. QED  BY <1>4, <1>7, <1>9 DEF NumRows, lt, y

LEMMA RowsAfterDelete ==
  ASSUME NEW t \in Text, NEW s \in Position, InText(t, s),
         NEW e \in Position, InText(t, e), AtOrBefore(s, e),
         NEW u, u = BulkDelete(t, s, e)
  PROVE  NumRows(u) = NumRows(t) - (e.y - s.y)
<1> DEFINE b == Before(t, s)
           a == After(t, e)
           lb == Len(b)  la == Len(a)  lt == Len(t)  y == s.y  z == e.y
<1>1. b \in Text /\ lb = y + 1 /\ y \in Nat  BY RowsOfParts
<1>2. a \in Text /\ la = lt - z /\ lt \in Nat /\ z \in Nat  BY RowsOfParts
<1>3. lb \in Nat /\ la \in Nat  BY <1>1, <1>2, TextElements
<1>4. u = Concat(b, a)  BY DeletionIs
<1>5. Len(u) = lb + la - 1
  <2>1. b \in Text /\ a \in Text /\ Len(b) = lb /\ Len(a) = la /\ lb \in Nat /\ la \in Nat
    BY <1>1, <1>2, <1>3
  <2> HIDE DEF b, a, lb, la
  <2>2. QED  BY <1>4, <2>1, RowsOfConcat
<1> HIDE DEF lb, la, lt, y, z
<1>6. lb + la - 1 = lt - (z - y)  BY <1>1, <1>2, <1>3
<1>7. QED  BY <1>5, <1>6 DEF NumRows, lt, y, z

LEMMA ViewTyped ==
  ASSUME NEW x \in Nat, NEW y \in Nat, NEW v, v = [rowoff |-> x, skip |-> y]
  PROVE  v \in ViewState /\ v.rowoff = x
BY DEF ViewState

LEMMA InsertionMoves ==
  ASSUME NEW t \in Text, NEW s \in Position, InText(t, s), NEW d \in Text,
         NEW u, u = BulkInsert(t, s, d), NEW e, e = ComputeInsertEnd(d, s)
  PROVE  Moves(t, u, s, e, FALSE)
<1>1. e \in Position /\ AtOrBefore(s, e) /\ u \in Text  BY Inserted
<1>2. NumRows(u) = NumRows(t) + (e.y - s.y)  BY RowsAfterInsert
<1>3. ASSUME NEW p \in Position, InText(t, p)
      PROVE  AdjustPoint(p, s, e, FALSE) \in Position /\ InText(u, AdjustPoint(p, s, e, FALSE))
  <2>1. AdjustForInsert(p, s, e) \in Position  BY <1>1, InsertMoves
  <2>2. InText(u, AdjustForInsert(p, s, e))  BY <1>3, InsertKeepsInText
  <2>3. QED  BY <2>1, <2>2 DEF AdjustPoint
<1>4. ASSUME NEW p \in Position, NEW q \in Position, AtOrBefore(p, q)
      PROVE  AtOrBefore(AdjustPoint(p, s, e, FALSE), AdjustPoint(q, s, e, FALSE))
  <2>1. AtOrBefore(AdjustForInsert(p, s, e), AdjustForInsert(q, s, e))
    BY <1>1, <1>4, InsertKeepsOrder
  <2>2. QED  BY <2>1 DEF AdjustPoint
<1>5. ASSUME NEW v \in ViewState, v.rowoff < NumRows(t)
      PROVE  /\ AdjustRowIndex(v, s, e, FALSE) \in ViewState
             /\ AdjustRowIndex(v, s, e, FALSE).rowoff < NumRows(u)
  <2>1. s.y \in Nat /\ e.y \in Nat /\ s.y <= e.y /\ v.rowoff \in Nat /\ v.skip \in Nat
        /\ NumRows(t) \in Nat
    BY <1>1, TextElements DEF Position, AtOrBefore, ViewState, NumRows
  <2>2. CASE v.rowoff > s.y
    <3> DEFINE w == [v EXCEPT !.rowoff = @ + (e.y - s.y)]
    <3>1. AdjustRowIndex(v, s, e, FALSE) = w  BY <2>2 DEF AdjustRowIndex
    <3>2. w = [rowoff |-> v.rowoff + (e.y - s.y), skip |-> v.skip]  BY DEF ViewState
    <3> HIDE DEF w
    <3>3. v.rowoff + (e.y - s.y) \in Nat /\ v.rowoff + (e.y - s.y) < NumRows(u)
      BY <1>2, <1>5, <2>1
    <3>4. w \in ViewState /\ w.rowoff = v.rowoff + (e.y - s.y)
      BY <2>1, <3>2, <3>3, ViewTyped
    <3>5. QED  BY <3>1, <3>3, <3>4
  <2>3. CASE ~(v.rowoff > s.y)
    <3>1. AdjustRowIndex(v, s, e, FALSE) = v  BY <2>3 DEF AdjustRowIndex
    <3>2. v.rowoff < NumRows(u)  BY <1>2, <1>5, <2>1
    <3>3. QED  BY <3>1, <3>2
  <2>4. QED  BY <2>2, <2>3
<1>6. QED  BY <1>3, <1>4, <1>5 DEF Moves

LEMMA DeletionMoves ==
  ASSUME NEW t \in Text, NEW s \in Position, InText(t, s),
         NEW e \in Position, InText(t, e), AtOrBefore(s, e),
         NEW u, u = BulkDelete(t, s, e)
  PROVE  Moves(t, u, s, e, TRUE)
<1>1. NumRows(u) = NumRows(t) - (e.y - s.y)  BY RowsAfterDelete
<1>2. ASSUME NEW p \in Position, InText(t, p)
      PROVE  AdjustPoint(p, s, e, TRUE) \in Position /\ InText(u, AdjustPoint(p, s, e, TRUE))
  <2>1. AdjustForDelete(p, s, e) \in Position  BY DeleteMoves
  <2>2. InText(u, AdjustForDelete(p, s, e))  BY <1>2, DeleteKeepsInText
  <2>3. QED  BY <2>1, <2>2 DEF AdjustPoint
<1>3. ASSUME NEW p \in Position, NEW q \in Position, AtOrBefore(p, q)
      PROVE  AtOrBefore(AdjustPoint(p, s, e, TRUE), AdjustPoint(q, s, e, TRUE))
  <2>1. AtOrBefore(AdjustForDelete(p, s, e), AdjustForDelete(q, s, e))
    BY <1>3, DeleteKeepsOrder
  <2>2. QED  BY <2>1 DEF AdjustPoint
<1>4. ASSUME NEW v \in ViewState, v.rowoff < NumRows(t)
      PROVE  /\ AdjustRowIndex(v, s, e, TRUE) \in ViewState
             /\ AdjustRowIndex(v, s, e, TRUE).rowoff < NumRows(u)
  <2>1. s.y \in Nat /\ e.y \in Nat /\ s.y <= e.y /\ v.rowoff \in Nat /\ v.skip \in Nat
        /\ NumRows(t) \in Nat /\ e.y < NumRows(t)
    BY TextElements DEF Position, AtOrBefore, ViewState, NumRows, InText
  <2>2. CASE v.rowoff <= s.y
    <3>1. AdjustRowIndex(v, s, e, TRUE) = v  BY <2>2 DEF AdjustRowIndex
    <3>2. v.rowoff < NumRows(u)  BY <1>1, <2>1, <2>2
    <3>3. QED  BY <3>1, <3>2
  <2>3. CASE v.rowoff > s.y /\ v.rowoff <= e.y
    <3>1. AdjustRowIndex(v, s, e, TRUE) = [rowoff |-> s.y, skip |-> 0]
      <4>1. ~(v.rowoff <= s.y)  BY <2>1, <2>3
      <4>2. QED  BY <2>3, <4>1 DEF AdjustRowIndex
    <3>2. s.y < NumRows(u)  BY <1>1, <2>1
    <3>3. 0 \in Nat  OBVIOUS
    <3>4. [rowoff |-> s.y, skip |-> 0] \in ViewState /\ [rowoff |-> s.y, skip |-> 0].rowoff = s.y
      BY <2>1, <3>3, ViewTyped
    <3>5. QED  BY <3>1, <3>2, <3>4
  <2>4. CASE v.rowoff > e.y
    <3> DEFINE w == [v EXCEPT !.rowoff = @ - (e.y - s.y)]
    <3>1. ~(v.rowoff <= s.y) /\ ~(v.rowoff <= e.y)  BY <2>1, <2>4
    <3>2. AdjustRowIndex(v, s, e, TRUE) = w  BY <3>1 DEF AdjustRowIndex
    <3>3. w = [rowoff |-> v.rowoff - (e.y - s.y), skip |-> v.skip]  BY DEF ViewState
    <3> HIDE DEF w
    <3>4. v.rowoff - (e.y - s.y) \in Nat /\ v.rowoff - (e.y - s.y) < NumRows(u)
      BY <1>1, <1>4, <2>1, <2>4
    <3>5. w \in ViewState /\ w.rowoff = v.rowoff - (e.y - s.y)
      BY <2>1, <3>3, <3>4, ViewTyped
    <3>6. QED  BY <3>2, <3>4, <3>5
  <2>5. v.rowoff <= s.y \/ (v.rowoff > s.y /\ v.rowoff <= e.y) \/ v.rowoff > e.y
    BY <2>1
  <2>6. QED  BY <2>2, <2>3, <2>4, <2>5
<1>5. QED  BY <1>2, <1>3, <1>4 DEF Moves

LEMMA StateTyped ==
  ASSUME NEW n, n = [rows |-> n.rows, undo |-> n.undo, tracked |-> n.tracked, views |-> n.views],
         n.rows \in Text, n.undo \in Seq(Records),
         n.tracked \in [Holder -> Position \cup {NoPoint}], n.views \in [View -> ViewState]
  PROVE  n \in State
BY DEF State

LEMMA StateFields ==
  ASSUME NEW m \in State
  PROVE  /\ m.rows \in Text /\ m.undo \in Seq(Records)
         /\ m.tracked \in [Holder -> Position \cup {NoPoint}]
         /\ m.views \in [View -> ViewState]
BY DEF State, ViewState

(* An edit and its adjustments keep a state sound. *)
Edited(m, n, u, s, e, is_delete) == n = [AdjustAllPoints(m, s, e, is_delete) EXCEPT !.rows = u]

LEMMA Adjusted ==
  ASSUME NEW m, Sound(m), NEW u \in Text, NEW s, NEW e, NEW is_delete,
         Moves(m.rows, u, s, e, is_delete),
         NEW n, Edited(m, n, u, s, e, is_delete)
  PROVE  Sound(n) /\ n.rows = u /\ n.undo = m.undo /\ Follows(m, n)
<1> DEFINE tr == [h \in Holder |-> IF m.tracked[h] = NoPoint THEN NoPoint
                                   ELSE AdjustPoint(m.tracked[h], s, e, is_delete)]
           vw == [w \in View |-> AdjustRowIndex(m.views[w], s, e, is_delete)]
<1>1. m \in State /\ HeldIn(m)  BY DEF Sound
<1>2. /\ m.rows \in Text /\ m.undo \in Seq(Records)
      /\ m.tracked \in [Holder -> Position \cup {NoPoint}]
      /\ m.views \in [View -> ViewState]
  BY <1>1, StateFields
<1>3. n = [rows |-> u, undo |-> m.undo, tracked |-> tr, views |-> vw]
  <2>1. AdjustAllPoints(m, s, e, is_delete) = [m EXCEPT !.tracked = tr, !.views = vw]
    BY DEF AdjustAllPoints
  <2>3. n = [AdjustAllPoints(m, s, e, is_delete) EXCEPT !.rows = u]  BY DEF Edited
  <2> HIDE DEF tr, vw
  <2>4. QED  BY <1>1, <2>1, <2>3 DEF State
<1>4. ASSUME NEW h \in Holder, m.tracked[h] # NoPoint
      PROVE  /\ m.tracked[h] \in Position
             /\ tr[h] = AdjustPoint(m.tracked[h], s, e, is_delete)
             /\ tr[h] \in Position /\ tr[h] # NoPoint /\ InText(u, tr[h])
  <2>1. m.tracked[h] \in Position /\ InText(m.rows, m.tracked[h])
    BY <1>1, <1>2, <1>4 DEF HeldIn
  <2>2. tr[h] = AdjustPoint(m.tracked[h], s, e, is_delete)  BY <1>4
  <2> HIDE DEF tr
  <2>3. tr[h] \in Position /\ InText(u, tr[h])  BY <2>1, <2>2 DEF Moves
  <2>4. QED  BY <2>1, <2>2, <2>3, NoPointAssumption
<1>5. tr \in [Holder -> Position \cup {NoPoint}]  BY <1>4
<1>6. ASSUME NEW w \in View  PROVE vw[w] \in ViewState /\ vw[w].rowoff < NumRows(u)
  <2>1. m.views[w] \in ViewState /\ m.views[w].rowoff < NumRows(m.rows)
    BY <1>1, <1>2 DEF HeldIn
  <2>2. vw[w] = AdjustRowIndex(m.views[w], s, e, is_delete)  OBVIOUS
  <2> HIDE DEF vw
  <2>3. QED  BY <2>1, <2>2 DEF Moves
<1>7. vw \in [View -> ViewState]  BY <1>6
<1>8. \A h \in Holder : tr[h] # NoPoint => InText(u, tr[h])
  <2>1. TAKE h \in Holder
  <2>2. m.tracked[h] = NoPoint => tr[h] = NoPoint  OBVIOUS
  <2> HIDE DEF tr
  <2>3. QED  BY <1>4, <2>2
<1> HIDE DEF tr, vw
<1>9. n \in State /\ n.rows = u /\ n.undo = m.undo /\ n.tracked = tr /\ n.views = vw
  <2>1. n.rows = u /\ n.undo = m.undo /\ n.tracked = tr /\ n.views = vw  BY <1>3
  <2>2. n = [rows |-> n.rows, undo |-> n.undo, tracked |-> n.tracked, views |-> n.views]
    BY <1>3
  <2>3. n \in State  BY <1>2, <1>5, <1>7, <2>1, <2>2, StateTyped
  <2>4. QED  BY <2>1, <2>3
<1>10. HeldIn(n)  BY <1>3, <1>6, <1>8 DEF HeldIn
<1>11. Follows(m, n)
  <2>1. SUFFICES ASSUME NEW h \in Holder, NEW k \in Holder,
                        m.tracked[h] # NoPoint, m.tracked[k] # NoPoint,
                        AtOrBefore(m.tracked[h], m.tracked[k])
                 PROVE  /\ n.tracked[h] # NoPoint /\ n.tracked[k] # NoPoint
                        /\ AtOrBefore(n.tracked[h], n.tracked[k])
    BY DEF Follows
  <2>2. n.tracked = tr  BY <1>3
  <2>3. /\ m.tracked[h] \in Position /\ tr[h] # NoPoint
        /\ tr[h] = AdjustPoint(m.tracked[h], s, e, is_delete)
    BY <1>4, <2>1
  <2>4. /\ m.tracked[k] \in Position /\ tr[k] # NoPoint
        /\ tr[k] = AdjustPoint(m.tracked[k], s, e, is_delete)
    BY <1>4, <2>1
  <2>5. AtOrBefore(tr[h], tr[k])  BY <2>1, <2>3, <2>4 DEF Moves
  <2>6. QED  BY <2>2, <2>3, <2>4, <2>5
<1>12. QED  BY <1>3, <1>9, <1>10, <1>11 DEF Sound

-----------------------------------------------------------------------------
(* Splices *)

LEMMA Inserting ==
  ASSUME NEW m, Sound(m), NEW s \in Position, InText(m.rows, s), NEW d \in Text,
         NEW n, n = InsertText(m, s, d)
  PROVE  /\ Sound(n) /\ n.rows = BulkInsert(m.rows, s, d) /\ n.undo = m.undo
         /\ Follows(m, n)
<1> DEFINE t == m.rows
           u == BulkInsert(t, s, d)
           e == ComputeInsertEnd(d, s)
<1>1. t \in Text  BY StateFields DEF Sound
<1>2. u \in Text /\ Moves(t, u, s, e, FALSE)  BY <1>1, Inserted, InsertionMoves
<1>3. n = [AdjustAllPoints(m, s, e, FALSE) EXCEPT !.rows = u]
  BY DEF InsertText
<1> HIDE DEF u, e
<1>4. PICK is_delete : is_delete = FALSE  OBVIOUS
<1>5. Moves(t, u, s, e, is_delete) /\ Edited(m, n, u, s, e, is_delete)
  BY <1>2, <1>3, <1>4 DEF Edited
<1>6. Sound(n) /\ n.rows = u /\ n.undo = m.undo /\ Follows(m, n)
  <2>1. u \in Text  BY <1>2
  <2>2. QED  BY <1>5, <2>1, Adjusted
<1>7. QED  BY <1>6 DEF u

LEMMA Deleting ==
  ASSUME NEW m, Sound(m), NEW s \in Position, InText(m.rows, s),
         NEW e \in Position, InText(m.rows, e), AtOrBefore(s, e),
         NEW n, n = DeleteText(m, s, e)
  PROVE  /\ Sound(n) /\ n.rows = BulkDelete(m.rows, s, e) /\ n.undo = m.undo
         /\ Follows(m, n)
<1> DEFINE t == m.rows
           u == BulkDelete(t, s, e)
           r == ClampRange(t, s, e)
<1>1. t \in Text  BY StateFields DEF Sound
<1>2. u \in Text /\ Moves(t, u, s, e, TRUE)  BY <1>1, Deleted, DeletionMoves
<1>3. r[1] = s /\ r[2] = e  BY <1>1, DeletionIs
<1>4. ~(s.y >= NumRows(t))
  <2>1. s.y \in Nat /\ NumRows(t) \in Nat /\ s.y < NumRows(t)
    BY <1>1, TextElements DEF InText, NumRows, Position
  <2>2. QED  BY <2>1
<1> HIDE DEF u, r
<1>5. n = [AdjustAllPoints(m, s, e, TRUE) EXCEPT !.rows = u]
  BY <1>3, <1>4 DEF DeleteText, u, r
<1>6. PICK is_delete : is_delete = TRUE  OBVIOUS
<1>7. Moves(t, u, s, e, is_delete) /\ Edited(m, n, u, s, e, is_delete)
  BY <1>2, <1>5, <1>6 DEF Edited
<1>8. Sound(n) /\ n.rows = u /\ n.undo = m.undo /\ Follows(m, n)
  <2>1. u \in Text  BY <1>2
  <2>2. QED  BY <1>7, <2>1, Adjusted
<1>9. QED  BY <1>8 DEF u

LEMMA InsertionSplices ==
  ASSUME NEW t \in Text, NEW s \in Position, InText(t, s), NEW d \in Text,
         NEW u, u = BulkInsert(t, s, d),
         NEW r, r.start = s, r.data = d, r.end = ComputeInsertEnd(d, s)
  PROVE  Splice(r, u, t)
<1> DEFINE b == Before(t, s)
           a == After(t, s)
<1>1. b \in Text /\ a \in Text  BY RowsOfParts
<1>2. t = Concat(b, a) /\ s = EndOf(b)  BY Cut
<1>3. u = Concat(Concat(b, d), a)  BY InsertionIs
<1>4. r.end = EndOf(Concat(b, d))
  <2> HIDE DEF b
  <2>1. QED  BY <1>1, <1>2, EndOfConcat
<1> HIDE DEF b, a
<1>5. QED  BY <1>1, <1>2, <1>3, <1>4 DEF Splice

LEMMA DeletionSplices ==
  ASSUME NEW t \in Text, NEW s \in Position, InText(t, s),
         NEW e \in Position, InText(t, e), AtOrBefore(s, e),
         NEW u, u = BulkDelete(t, s, e),
         NEW d, d = CollectRegionText(t, s, e),
         NEW r, r.start = s, r.data = d, r.end = ComputeInsertEnd(d, s)
  PROVE  Splice(r, t, u)
<1>1. u \in Text /\ InText(u, s)  BY Deleted
<1>2. d \in Text /\ BulkInsert(u, s, d) = t  BY DeletionUndone
<1>3. QED  BY <1>1, <1>2, InsertionSplices

(* A splice read backwards: where its range lies, and what the two edits    *)
(* undoStep can make of it do.                                              *)
LEMMA SpliceReplays ==
  ASSUME NEW r \in Records, NEW long \in Text, NEW short \in Text, Splice(r, long, short)
  PROVE  /\ InText(long, r.start) /\ InText(long, r.end) /\ InText(short, r.start)
         /\ AtOrBefore(r.start, r.end)
         /\ r.end = ComputeInsertEnd(r.data, r.start)
         /\ BulkInsert(short, r.start, r.data) = long
         /\ BulkDelete(long, r.start, r.end) = short
         /\ CollectRegionText(long, r.start, r.end) = r.data
<1>1. r.start \in Position /\ r.end \in Position /\ r.data \in Text  BY RecordFields
<1>2. PICK b \in Text, a \in Text :
        /\ r.start = EndOf(b) /\ r.end = EndOf(Concat(b, r.data))
        /\ long = Concat(Concat(b, r.data), a) /\ short = Concat(b, a)
  BY DEF Splice
<1>3. /\ InText(short, r.start) /\ Before(short, r.start) = b /\ After(short, r.start) = a
  BY <1>2, CutConcat
<1>4. r.end = ComputeInsertEnd(r.data, r.start)  BY <1>1, <1>2, EndOfConcat
<1>5. BulkInsert(short, r.start, r.data) = long  BY <1>1, <1>2, <1>3, InsertionIs
<1>6. /\ AtOrBefore(r.start, r.end) /\ InText(long, r.start) /\ InText(long, r.end)
  BY <1>1, <1>3, <1>4, <1>5, Inserted
<1>7. /\ CollectRegionText(long, r.start, r.end) = r.data
      /\ BulkDelete(long, r.start, r.end) = short
  BY <1>1, <1>3, <1>4, <1>5, InsertionUndone
<1>8. QED  BY <1>3, <1>4, <1>5, <1>6, <1>7

LEMMA FollowsTransitive ==
  ASSUME NEW m, NEW n, NEW q, Follows(m, n), Follows(n, q)
  PROVE  Follows(m, q)
BY DEF Follows

LEMMA FollowsSelf ==
  ASSUME NEW m
  PROVE  Follows(m, m)
BY DEF Follows

-----------------------------------------------------------------------------
(* Recorded mutations *)

LEMMA Pushing ==
  ASSUME NEW m, Sound(m), NEW rec,
         PushUndo(m.undo, rec) \in Seq(Records),
         NEW n, n = PushRecord(m, rec)
  PROVE  /\ Sound(n) /\ n.rows = m.rows /\ n.undo = PushUndo(m.undo, rec)
         /\ Follows(m, n)
<1> DEFINE l == PushUndo(m.undo, rec)
<1>2. m \in State /\ HeldIn(m)  BY DEF Sound
<1>3. n = [m EXCEPT !.undo = l]  BY DEF PushRecord
<1> HIDE DEF l
<1>4. n = [rows |-> m.rows, undo |-> l, tracked |-> m.tracked, views |-> m.views]
  BY <1>2, <1>3 DEF State
<1>5. n.rows = m.rows /\ n.undo = l /\ n.tracked = m.tracked /\ n.views = m.views
  BY <1>4
<1>6. n \in State
  <2>1. n = [rows |-> n.rows, undo |-> n.undo, tracked |-> n.tracked, views |-> n.views]
    BY <1>4
  <2>2. l \in Seq(Records)  BY DEF l
  <2>3. QED  BY <1>2, <1>5, <2>1, <2>2, StateFields, StateTyped
<1>7. HeldIn(n) /\ Follows(m, n)  BY <1>2, <1>5 DEF HeldIn, Follows
<1>8. QED  BY <1>5, <1>6, <1>7 DEF Sound, l

(* A deletion, an insertion, recorded and made. *)
Deletes(m, s, e, paired, append, n) ==
  n = DeleteText(PushRecord(m, NewRecord(s, CollectRegionText(m.rows, s, e), TRUE,
                                         paired, append)), s, e)

Inserts(m, s, d, paired, append, n) ==
  n = InsertText(PushRecord(m, NewRecord(s, d, FALSE, paired, append)), s, d)

LEMMA RecordDelete ==
  ASSUME NEW base, NEW m, Traced(m, base),
         NEW s \in Position, InText(m.rows, s),
         NEW e \in Position, InText(m.rows, e), AtOrBefore(s, e),
         NEW paired \in BOOLEAN, NEW append \in BOOLEAN, append => ~paired,
         paired => m.undo # <<>>, ~paired => Terminated(m.rows),
         NEW n, Deletes(m, s, e, paired, append, n)
  PROVE  /\ Traced(n, base) /\ n.undo # <<>> /\ n.rows = BulkDelete(m.rows, s, e)
         /\ Follows(m, n)
         /\ paired => Extends(m.undo, n.undo)
         /\ ~paired => Grows(m.undo, n.undo)
<1> DEFINE t == m.rows
           u == BulkDelete(t, s, e)
           d == CollectRegionText(t, s, e)
           rec == NewRecord(s, d, TRUE, paired, append)
           p == PushRecord(m, rec)
           l == PushUndo(m.undo, rec)
<1>1. Sound(m) /\ UndoList(m.undo) /\ UndoFits(m.undo, t, base)  BY DEF Traced
<1>2. t \in Text  BY <1>1, StateFields DEF Sound
<1>3. u \in Text  BY <1>2, Deleted
<1>4. d \in Text  BY <1>2, Collected
<1>5. /\ rec \in Records /\ rec.start = s /\ rec.data = d /\ rec.end = ComputeInsertEnd(d, s)
      /\ rec.delete /\ (rec.paired <=> paired)
  <2>1. PICK delete \in BOOLEAN : delete = TRUE  OBVIOUS
  <2>2. rec = NewRecord(s, d, delete, paired, append)  BY <2>1
  <2> HIDE DEF d, rec
  <2>3. /\ rec \in Records /\ rec.start = s /\ rec.data = d /\ rec.end = ComputeInsertEnd(d, s)
        /\ (rec.delete <=> delete) /\ (rec.paired <=> paired)
    BY <1>4, <2>2, NewRecordTyped
  <2>4. QED  BY <2>1, <2>3
<1>6. Splice(rec, t, u)
  <2> HIDE DEF rec
  <2>1. QED  BY <1>2, <1>5, DeletionSplices
<1>7. Makes(rec, t, u)  BY <1>5, <1>6 DEF Makes
<1>8. /\ UndoList(l) /\ l # <<>> /\ UndoFits(l, u, base)
      /\ paired => Extends(m.undo, l)
      /\ ~paired => Grows(m.undo, l)
  <2> HIDE DEF rec, u
  <2>1. QED  BY <1>1, <1>2, <1>3, <1>5, <1>7, Pushed
<1>9. n = DeleteText(p, s, e)  BY DEF Deletes
<1>10. Sound(p) /\ p.rows = t /\ p.undo = l /\ Follows(m, p)
  <2>1. l \in Seq(Records)  BY <1>8 DEF UndoList
  <2> HIDE DEF rec
  <2>2. QED  BY <1>1, <2>1, Pushing
<1> HIDE DEF p, l, rec
<1>11. Sound(n) /\ n.rows = BulkDelete(p.rows, s, e) /\ n.undo = p.undo /\ Follows(p, n)
  BY <1>9, <1>10, Deleting
<1>12. Follows(m, n)  BY <1>10, <1>11, FollowsTransitive
<1>13. QED  BY <1>8, <1>10, <1>11, <1>12 DEF Traced

LEMMA RecordInsert ==
  ASSUME NEW base, NEW m, Traced(m, base),
         NEW s \in Position, InText(m.rows, s), NEW d \in Text,
         NEW paired \in BOOLEAN, NEW append \in BOOLEAN, append => ~paired,
         paired => m.undo # <<>>, ~paired => Terminated(m.rows),
         NEW n, Inserts(m, s, d, paired, append, n)
  PROVE  /\ Traced(n, base) /\ n.undo # <<>> /\ n.rows = BulkInsert(m.rows, s, d)
         /\ Follows(m, n)
         /\ paired => Extends(m.undo, n.undo)
         /\ ~paired => Grows(m.undo, n.undo)
<1> DEFINE t == m.rows
           u == BulkInsert(t, s, d)
           rec == NewRecord(s, d, FALSE, paired, append)
           p == PushRecord(m, rec)
           l == PushUndo(m.undo, rec)
<1>1. Sound(m) /\ UndoList(m.undo) /\ UndoFits(m.undo, t, base)  BY DEF Traced
<1>2. t \in Text  BY <1>1, StateFields DEF Sound
<1>3. u \in Text  BY <1>2, Inserted
<1>5. /\ rec \in Records /\ rec.start = s /\ rec.data = d /\ rec.end = ComputeInsertEnd(d, s)
      /\ ~rec.delete /\ (rec.paired <=> paired)
  <2>1. PICK delete \in BOOLEAN : delete = FALSE  OBVIOUS
  <2>2. rec = NewRecord(s, d, delete, paired, append)  BY <2>1
  <2> HIDE DEF rec
  <2>3. /\ rec \in Records /\ rec.start = s /\ rec.data = d /\ rec.end = ComputeInsertEnd(d, s)
        /\ (rec.delete <=> delete) /\ (rec.paired <=> paired)
    BY <2>2, NewRecordTyped
  <2>4. QED  BY <2>1, <2>3
<1>6. Splice(rec, u, t)
  <2> HIDE DEF rec
  <2>1. QED  BY <1>2, <1>5, InsertionSplices
<1>7. Makes(rec, t, u)  BY <1>5, <1>6 DEF Makes
<1>8. /\ UndoList(l) /\ l # <<>> /\ UndoFits(l, u, base)
      /\ paired => Extends(m.undo, l)
      /\ ~paired => Grows(m.undo, l)
  <2> HIDE DEF rec, u
  <2>1. QED  BY <1>1, <1>2, <1>3, <1>5, <1>7, Pushed
<1>9. n = InsertText(p, s, d)  BY DEF Inserts
<1>10. Sound(p) /\ p.rows = t /\ p.undo = l /\ Follows(m, p)
  <2>1. l \in Seq(Records)  BY <1>8 DEF UndoList
  <2> HIDE DEF rec
  <2>2. QED  BY <1>1, <2>1, Pushing
<1> HIDE DEF p, l, rec
<1>11. Sound(n) /\ n.rows = BulkInsert(p.rows, s, d) /\ n.undo = p.undo /\ Follows(p, n)
  BY <1>9, <1>10, Inserting
<1>12. Follows(m, n)  BY <1>10, <1>11, FollowsTransitive
<1>13. QED  BY <1>8, <1>10, <1>11, <1>12 DEF Traced

-----------------------------------------------------------------------------
(* The final newline *)

LEMMA AtEnd ==
  ASSUME NEW t \in Text, NEW p, p = EndOf(t)
  PROVE  p \in Position /\ InText(t, p) /\ Before(t, p) = t /\ After(t, p) = EmptyText
<1>1. Concat(t, EmptyText) = t /\ EmptyText \in Text  BY ConcatEmpty
<1>2. /\ p \in Position /\ InText(Concat(t, EmptyText), p)
      /\ Before(Concat(t, EmptyText), p) = t /\ After(Concat(t, EmptyText), p) = EmptyText
  BY <1>1, CutConcat
<1>3. QED  BY <1>1, <1>2

LEMMA InsertAtEnd ==
  ASSUME NEW t \in Text, NEW d \in Text
  PROVE  BulkInsert(t, EndOf(t), d) = Concat(t, d) /\ Concat(t, d) \in Text
<1> DEFINE p == EndOf(t)
<1>1. p \in Position /\ InText(t, p) /\ Before(t, p) = t /\ After(t, p) = EmptyText
  BY AtEnd
<1> HIDE DEF p
<1>2. BulkInsert(t, p, d) = Concat(Concat(t, d), EmptyText)  BY <1>1, InsertionIs
<1>3. Concat(t, d) \in Text  BY ConcatTyped
<1>4. Concat(Concat(t, d), EmptyText) = Concat(t, d)  BY <1>3, ConcatEmpty
<1>5. QED  BY <1>2, <1>3, <1>4 DEF p

LEMMA BeforeTheEnd ==
  ASSUME NEW t \in Text, NEW p \in Position, InText(t, p)
  PROVE  AtOrBefore(p, EndOf(t))
<1> DEFINE n == Len(t)
<1>1. n \in Nat /\ n >= 1 /\ p.y \in Nat /\ p.x \in Nat /\ p.y < n /\ p.x <= Len(t[p.y + 1])
  BY TextElements DEF Position, InText, NumRows, Size
<1>2. EndOf(t) = At(Len(t[(n - 1) + 1]), n - 1)  BY DEF EndOf, Size, NumRows
<1> HIDE DEF n
<1>3. (n - 1) + 1 = n  BY <1>1
<1>4. CASE p.y = n - 1
  <2>1. p.y + 1 = n  BY <1>1, <1>4
  <2>2. EndOf(t).y = p.y /\ p.x <= EndOf(t).x  BY <1>1, <1>2, <1>3, <1>4, <2>1 DEF At
  <2>3. QED  BY <2>2 DEF AtOrBefore
<1>5. CASE p.y # n - 1
  <2>1. p.y < n - 1  BY <1>1, <1>5
  <2>2. p.y < EndOf(t).y  BY <1>2, <2>1 DEF At
  <2>3. QED  BY <2>2 DEF AtOrBefore
<1>6. QED  BY <1>4, <1>5

LEMMA NewLineTyped == NewLine \in Text /\ Len(NewLine) = 2 /\ NewLine[2] = <<>>
<1>1. <<>> \in Row  BY DEF Row
<1>2. NewLine \in Seq(Row) /\ Len(NewLine) = 2 /\ NewLine[2] = <<>>  BY <1>1 DEF NewLine
<1>3. QED  BY <1>2, TextFromSeq

LEMMA NewLineEnds ==
  ASSUME NEW t \in Text, NEW u, u = Concat(t, NewLine)
  PROVE  EndsInNewline(u)
<1> DEFINE n == Len(t)
<1>1. n \in Nat  BY TextElements
<1>2. u \in Text /\ Len(u) = n + 2 - 1
  <2>1. PICK k \in Nat : k = 2  OBVIOUS
  <2>2. Len(t) = n /\ Len(NewLine) = k /\ NewLine \in Text  BY <2>1, NewLineTyped
  <2> HIDE DEF n
  <2>3. u \in Text /\ Len(u) = n + k - 1  BY <1>1, <2>2, RowsOfConcat
  <2>4. QED  BY <2>1, <2>3
<1>3. u[n + 2 - 1] = <<>>
  <2>1. \A i \in 2..Len(NewLine) : u[Len(t) + i - 1] = NewLine[i]
    BY NewLineTyped, ConcatElements DEF ConcatFacts
  <2>2. 2 \in 2..Len(NewLine)  BY NewLineTyped
  <2>3. QED  BY <2>1, <2>2, NewLineTyped
<1>4. (Len(u) - 1) + 1 = n + 2 - 1  BY <1>1, <1>2
<1>5. u[(Len(u) - 1) + 1] = <<>>  BY <1>3, <1>4
<1>6. Len(u[(Len(u) - 1) + 1]) = 0
  <2>1. Len(<<>>) = 0  OBVIOUS
  <2>2. QED  BY <1>5, <2>1, Zenon
<1>7. QED  BY <1>6 DEF EndsInNewline, Size, NumRows

LEMMA Restored ==
  ASSUME NEW base, NEW m, Traced(m, base), m.undo # <<>>,
         NEW n, n = RestoreFinalNewline(m)
  PROVE  /\ Traced(n, base) /\ n.undo # <<>> /\ Terminated(n.rows) /\ Follows(m, n)
         /\ \A p \in Position : InText(m.rows, p) => InText(n.rows, p)
         /\ Extends(m.undo, n.undo)
<1>1. CASE Terminated(m.rows)
  <2>1. n = m  BY <1>1 DEF RestoreFinalNewline
  <2>2. QED  BY <1>1, <2>1, FollowsSelf DEF Extends
<1>2. CASE ~Terminated(m.rows)
  <2> DEFINE t == m.rows
             at == EndOf(t)
  <2>1. t \in Text  BY StateFields DEF Traced, Sound
  <2>2. at \in Position /\ InText(t, at)  BY <2>1, AtEnd
  <2>3. n = InsertText(PushRecord(m, NewRecord(at, NewLine, FALSE, TRUE, FALSE)), at, NewLine)
    BY <1>2 DEF RestoreFinalNewline
  <2>4. PICK paired \in BOOLEAN, append \in BOOLEAN : paired = TRUE /\ append = FALSE  OBVIOUS
  <2>5. Inserts(m, at, NewLine, paired, append, n)  BY <2>3, <2>4 DEF Inserts
  <2> HIDE DEF at
  <2>6. /\ Traced(n, base) /\ n.undo # <<>> /\ n.rows = BulkInsert(t, at, NewLine)
        /\ Follows(m, n) /\ Extends(m.undo, n.undo)
    <3>1. (append => ~paired) /\ (paired => m.undo # <<>>) /\ (~paired => Terminated(m.rows))
      BY <2>4
    <3>2. NewLine \in Text  BY NewLineTyped
    <3>3. /\ Traced(n, base) /\ n.undo # <<>> /\ n.rows = BulkInsert(m.rows, at, NewLine)
          /\ Follows(m, n) /\ (paired => Extends(m.undo, n.undo))
      BY <2>2, <2>5, <3>1, <3>2, RecordInsert
    <3>4. QED  BY <2>4, <3>3
  <2>7. n.rows \in Text /\ n.rows = Concat(t, NewLine)
    BY <2>1, <2>6, NewLineTyped, InsertAtEnd DEF at
  <2>8. Terminated(n.rows)  BY <2>1, <2>7, NewLineEnds DEF Terminated
  <2>9. ASSUME NEW p \in Position, InText(t, p)  PROVE InText(n.rows, p)
    <3>1. AtOrBefore(p, at)  BY <2>1, <2>9, BeforeTheEnd DEF at
    <3>2. InText(n.rows, at) /\ Before(n.rows, at) = Before(t, at)
      BY <2>1, <2>2, <2>6, NewLineTyped, Inserted
    <3>3. QED  BY <2>1, <2>2, <2>7, <2>9, <3>1, <3>2, CommonBefore
  <2>10. QED  BY <2>6, <2>8, <2>9
<1>3. QED  BY <1>1, <1>2

-----------------------------------------------------------------------------
(* Replacements *)

LEMMA EmptyEnd ==
  ASSUME NEW s \in Position
  PROVE  ComputeInsertEnd(EmptyText, s) = s
<1>1. Len(EmptyText) = 1 /\ EmptyText[1] = <<>> /\ Len(<<>>) = 0  BY DEF EmptyText
<1>2. s.x \in Nat /\ s.y \in Nat /\ s = At(s.x, s.y)  BY DEF Position, At
<1>3. Len(EmptyText[Len(EmptyText)]) = 0  BY <1>1, Zenon
<1>4. s.x + 0 = s.x /\ s.y + 1 - 1 = s.y  BY <1>2
<1>5. QED  BY <1>1, <1>2, <1>3, <1>4 DEF ComputeInsertEnd

(* The range s..e of t holds d instead. *)
With(t, s, e, d) == Concat(Concat(Before(t, s), d), After(t, e))

LEMMA Replaced ==
  ASSUME NEW base, NEW m, Traced(m, base),
         NEW s \in Position, InText(m.rows, s),
         NEW e \in Position, InText(m.rows, e), AtOrBefore(s, e),
         NEW repl \in Text, s # e \/ repl # EmptyText,
         NEW chain \in BOOLEAN, NEW coalesce \in BOOLEAN,
         chain => m.undo # <<>>, ~chain => Terminated(m.rows),
         NEW n, n = ReplaceText(m, s, e, repl, chain, coalesce)
  PROVE  /\ Traced(n, base) /\ n.undo # <<>> /\ Follows(m, n)
         /\ n.rows = With(m.rows, s, e, repl)
         /\ chain => Extends(m.undo, n.undo)
         /\ ~chain => Grows(m.undo, n.undo)
<1> DEFINE t == m.rows
           old == CollectRegionText(t, s, e)
           deletes == s # e
           inserts == repl # EmptyText
           b == Before(t, s)
           a == After(t, e)
<1>1. t \in Text  BY StateFields DEF Traced, Sound
<1>2. b \in Text /\ a \in Text  BY <1>1, RowsOfParts
<1>3. PICK append \in BOOLEAN : append = (coalesce /\ ~chain /\ ~(deletes /\ inserts))
  OBVIOUS
<1>4. append => ~chain /\ ~(deletes /\ inserts)  BY <1>3
<1> DEFINE deleted == IF ~deletes THEN m
                      ELSE DeleteText(PushRecord(m, NewRecord(s, old, TRUE, chain, append)), s, e)
<1>5. n = IF ~inserts THEN deleted
          ELSE InsertText(PushRecord(deleted, NewRecord(s, repl, FALSE, deletes \/ chain, append)),
                          s, repl)
  BY <1>3 DEF ReplaceText
<1>6. /\ Traced(deleted, base) /\ Follows(m, deleted)
      /\ deletes => /\ deleted.undo # <<>>
                    /\ chain => Extends(m.undo, deleted.undo)
                    /\ ~chain => Grows(m.undo, deleted.undo)
      /\ ~deletes => deleted = m
      /\ deleted.rows \in Text /\ InText(deleted.rows, s)
      /\ Before(deleted.rows, s) = b /\ After(deleted.rows, s) = a
  <2>1. CASE ~deletes
    <3>1. deleted = m  BY <2>1
    <3> HIDE DEF deleted
    <3>2. QED  BY <1>1, <2>1, <3>1, FollowsSelf
  <2>2. CASE deletes
    <3>1. Deletes(m, s, e, chain, append, deleted)  BY <2>2 DEF Deletes
    <3> HIDE DEF deleted, b, a, old, inserts, deletes
    <3>2. append => ~chain  BY <1>4
    <3>3. /\ Traced(deleted, base) /\ deleted.undo # <<>>
          /\ deleted.rows = BulkDelete(t, s, e) /\ Follows(m, deleted)
          /\ chain => Extends(m.undo, deleted.undo)
          /\ ~chain => Grows(m.undo, deleted.undo)
      BY <3>1, <3>2, RecordDelete
    <3>4. /\ deleted.rows \in Text /\ InText(deleted.rows, s)
          /\ Before(deleted.rows, s) = b /\ After(deleted.rows, s) = a
      BY <1>1, <3>3, Deleted DEF b, a
    <3>5. QED  BY <2>2, <3>3, <3>4
  <2>3. QED  BY <2>1, <2>2
<1> HIDE DEF deleted, b, a
<1>7. CASE ~inserts
  <2>1. n = deleted /\ deletes /\ repl = EmptyText  BY <1>5, <1>7
  <2>2. n.rows = Concat(b, a)  BY <1>6, <2>1, Cut
  <2>3. Concat(b, repl) = b  BY <1>2, <2>1, ConcatEmpty
  <2>4. QED  BY <1>6, <2>1, <2>2, <2>3 DEF With, b, a
<1>8. CASE inserts
  <2>1. PICK paired \in BOOLEAN : paired = (deletes \/ chain)  OBVIOUS
  <2>2. Inserts(deleted, s, repl, paired, append, n)  BY <1>5, <1>8, <2>1 DEF Inserts
  <2>3. paired => deleted.undo # <<>>  BY <1>6, <2>1
  <2>4. ~paired => Terminated(deleted.rows)  BY <1>6, <2>1
  <2>5. append => ~paired  BY <1>4, <1>8, <2>1
  <2>6. /\ Traced(n, base) /\ n.undo # <<>> /\ n.rows = BulkInsert(deleted.rows, s, repl)
        /\ Follows(deleted, n)
        /\ paired => Extends(deleted.undo, n.undo)
        /\ ~paired => Grows(deleted.undo, n.undo)
    <3>1. Traced(deleted, base) /\ InText(deleted.rows, s)  BY <1>6
    <3> HIDE DEF inserts, deletes
    <3>2. QED  BY <2>2, <2>3, <2>4, <2>5, <3>1, RecordInsert
  <2>7. n.rows = Concat(Concat(b, repl), a)  BY <1>6, <2>6, InsertionIs
  <2>8. Follows(m, n)  BY <1>6, <2>6, FollowsTransitive
  <2>9. (chain => Extends(m.undo, n.undo)) /\ (~chain => Grows(m.undo, n.undo))
    <3>1. CASE deletes
      <4>1. Extends(deleted.undo, n.undo)  BY <2>1, <2>6, <3>1
      <4>2. /\ m.undo \in Seq(Records) /\ deleted.undo \in Seq(Records)
            /\ n.undo \in Seq(Records)
        BY <1>6, <2>6 DEF Traced, UndoList
      <4>3. QED  BY <1>6, <3>1, <4>1, <4>2, ExtendsOn
    <3>2. CASE ~deletes  BY <1>6, <2>1, <2>6, <3>2
    <3>3. QED  BY <3>1, <3>2
  <2>10. QED  BY <2>6, <2>7, <2>8, <2>9 DEF With, b, a
<1>9. QED  BY <1>7, <1>8

(* A place of the text stays one when more is put behind the text. *)
LEMMA StillIn ==
  ASSUME NEW b \in Text, NEW a \in Text, NEW p \in Position, InText(b, p),
         NEW t, t = Concat(b, a)
  PROVE  t \in Text /\ InText(t, p)
<1> DEFINE s == EndOf(b)
<1>1. t \in Text  BY ConcatTyped
<1>2. s \in Position /\ InText(b, s) /\ Before(b, s) = b  BY AtEnd
<1>3. InText(t, s) /\ Before(t, s) = b  BY CutConcat
<1>4. AtOrBefore(p, s)  BY BeforeTheEnd
<1> HIDE DEF s
<1>5. QED  BY <1>1, <1>2, <1>3, <1>4, CommonBefore

LEMMA WithTyped ==
  ASSUME NEW t \in Text, NEW s \in Position, InText(t, s),
         NEW e \in Position, InText(t, e), NEW d \in Text,
         NEW u, u = With(t, s, e, d)
  PROVE  /\ u \in Text /\ InText(u, ComputeInsertEnd(d, s))
         /\ \A p \in Position : InText(Concat(Before(t, s), d), p) => InText(u, p)
<1> DEFINE b == Before(t, s)
           a == After(t, e)
           c == Concat(b, d)
<1>1. b \in Text /\ a \in Text /\ EndOf(b) = s  BY RowsOfParts, Cut
<1>2. u = Concat(c, a)  BY DEF With
<1> HIDE DEF b, a
<1>3. c \in Text  BY <1>1, ConcatTyped
<1>4. EndOf(c) = ComputeInsertEnd(d, s)  BY <1>1, EndOfConcat
<1> HIDE DEF c
<1>5. EndOf(c) \in Position /\ InText(c, EndOf(c))  BY <1>3, AtEnd
<1>6. \A p \in Position : InText(c, p) => u \in Text /\ InText(u, p)
  BY <1>1, <1>2, <1>3, StillIn
<1>7. QED  BY <1>4, <1>5, <1>6 DEF c, b

(* mutateReplaceEx, from a text whose final newline is in place or as one   *)
(* more record of the step before it.                                       *)
LEMMA Mutated ==
  ASSUME NEW base, NEW m, Traced(m, base),
         NEW s \in Position, InText(m.rows, s),
         NEW e \in Position, InText(m.rows, e), AtOrBefore(s, e),
         NEW repl \in Text, s # e \/ repl # EmptyText,
         NEW chain \in BOOLEAN, NEW coalesce \in BOOLEAN,
         chain => m.undo # <<>>, ~chain => Terminated(m.rows),
         NEW n, n = MutateReplaceEx(m, s, e, repl, chain, coalesce)
  PROVE  /\ Traced(n, base) /\ Terminated(n.rows) /\ Follows(m, n)
         /\ InText(n.rows, ComputeInsertEnd(repl, s))
         /\ \A p \in Position : InText(Concat(Before(m.rows, s), repl), p) => InText(n.rows, p)
         /\ chain => Extends(m.undo, n.undo)
         /\ ~chain => Grows(m.undo, n.undo)
<1> DEFINE r == ReplaceText(m, s, e, repl, chain, coalesce)
<1>1. n = RestoreFinalNewline(r)  BY DEF MutateReplaceEx
<1>2. /\ Traced(r, base) /\ r.undo # <<>> /\ Follows(m, r) /\ r.rows = With(m.rows, s, e, repl)
      /\ chain => Extends(m.undo, r.undo)
      /\ ~chain => Grows(m.undo, r.undo)
  BY Replaced
<1> HIDE DEF r
<1>3. /\ Traced(n, base) /\ Terminated(n.rows) /\ Follows(r, n)
      /\ \A p \in Position : InText(r.rows, p) => InText(n.rows, p)
      /\ Extends(r.undo, n.undo)
  BY <1>1, <1>2, Restored
<1>4. m.rows \in Text  BY StateFields DEF Traced, Sound
<1>5. /\ InText(r.rows, ComputeInsertEnd(repl, s))
      /\ \A p \in Position : InText(Concat(Before(m.rows, s), repl), p) => InText(r.rows, p)
  BY <1>2, <1>4, WithTyped
<1>6. ComputeInsertEnd(repl, s) \in Position  BY EndTyped
<1>7. Follows(m, n)  BY <1>2, <1>3, FollowsTransitive
<1>8. m.undo \in Seq(Records) /\ r.undo \in Seq(Records) /\ n.undo \in Seq(Records)
  BY <1>2, <1>3 DEF Traced, UndoList
<1>9. (chain => Extends(m.undo, n.undo)) /\ (~chain => Grows(m.undo, n.undo))
  BY <1>2, <1>3, <1>8, ExtendsOn
<1>10. QED  BY <1>3, <1>5, <1>6, <1>7, <1>9

-----------------------------------------------------------------------------
(* Rows added at the end *)

Blank(g, k) == g \in Seq(Row) /\ Len(g) = k /\ \A i \in 1..k : g[i] = <<>>

LEMMA BlankRows ==
  ASSUME NEW k \in Nat, NEW g, g = [i \in 1..k |-> <<>>]
  PROVE  Blank(g, k)
<1>1. <<>> \in Row  BY DEF Row
<1>2. g \in [1..k -> Row]  BY <1>1
<1>3. \A i \in 1..k : g[i] = <<>>  OBVIOUS
<1> HIDE DEF Blank
<1>4. g \in Seq(Row) /\ Len(g) = k  BY <1>2
<1>5. QED  BY <1>3, <1>4 DEF Blank

LEMMA BlankAppended ==
  ASSUME NEW t \in Text, NEW k \in Nat, NEW g, Blank(g, k),
         NEW d, NEW l \in Nat, l = k + 1, Blank(d, l)
  PROVE  d \in Text /\ Concat(t, d) = t \o g
<1>1. d \in Text
  <2>1. Len(d) >= 1  BY DEF Blank
  <2>2. QED  BY <2>1, TextFromSeq DEF Blank
<1>2. EmptyText \in Text /\ EmptyText \in Seq(Row) /\ Len(EmptyText) = 1 /\ EmptyText[1] = <<>>
  BY ConcatEmpty, TextElements DEF EmptyText
<1>3. g \in Seq(Row)  BY DEF Blank
<1> DEFINE c == EmptyText \o g
<1>4. /\ c \in Seq(Row) /\ Len(c) = Len(EmptyText) + Len(g)
      /\ \A i \in 1..Len(EmptyText) : c[i] = EmptyText[i]
      /\ \A i \in 1..Len(g) : c[Len(EmptyText) + i] = g[i]
  BY <1>2, <1>3, SeqCat
<1>5. Len(c) = l /\ c \in Text
  BY <1>2, <1>3, <1>4, ConcatSuffix DEF Blank
<1> HIDE DEF c
<1>6. \A i \in 1..l : c[i] = <<>>
  <2>1. TAKE i \in 1..l
  <2>2. CASE i = 1  BY <1>2, <1>4, <2>2
  <2>3. CASE i # 1
    <3>1. i - 1 \in 1..k /\ 1 + (i - 1) = i  BY <2>3
    <3>2. c[1 + (i - 1)] = g[i - 1]  BY <1>2, <1>4, <3>1 DEF Blank
    <3>3. QED  BY <3>1, <3>2 DEF Blank
  <2>4. QED  BY <2>2, <2>3
<1>7. d = c
  <2>1. Len(d) = Len(c) /\ \A i \in 1..Len(d) : d[i] = c[i]  BY <1>5, <1>6 DEF Blank
  <2>2. QED  BY <1>1, <1>5, <2>1, TextEqual
<1>8. Concat(t, c) = Concat(t, EmptyText) \o g  BY <1>2, <1>3, ConcatSuffix DEF c
<1>9. Concat(t, EmptyText) = t  BY ConcatEmpty
<1>10. QED  BY <1>1, <1>7, <1>8, <1>9

(* mutateExtendRows. *)
LEMMA Extended ==
  ASSUME NEW base, NEW m, Traced(m, base), Terminated(m.rows), NEW k \in Nat,
         NEW n, n = MutateExtendRows(m, k)
  PROVE  /\ Traced(n, base) /\ n.undo # <<>> /\ Follows(m, n)
         /\ Len(n.rows) = Len(m.rows) + k
         /\ \A p \in Position : InText(m.rows, p) => InText(n.rows, p)
         /\ Grows(m.undo, n.undo)
<1> DEFINE t   == m.rows
           g   == [i \in 1..k |-> <<>>]
           d   == [i \in 1..(k + 1) |-> <<>>]
           at  == EndOf(t)
           rec == NewRecord(at, d, FALSE, FALSE, FALSE)
<1>1. Sound(m) /\ m \in State /\ t \in Text  BY StateFields DEF Traced, Sound
<1>2. Blank(g, k)  BY BlankRows
<1>3. Blank(d, k + 1)
  <2>1. PICK l \in Nat : l = k + 1  OBVIOUS
  <2>2. d = [i \in 1..l |-> <<>>]  BY <2>1
  <2> HIDE DEF d
  <2>3. Blank(d, l)  BY <2>2, BlankRows
  <2>4. QED  BY <2>1, <2>3
<1>4. n = [AdjustAllPoints(PushRecord(m, rec), rec.start, rec.end, FALSE)
             EXCEPT !.rows = t \o g]
  BY DEF MutateExtendRows
<1> HIDE DEF g, d
<1>5. d \in Text /\ Concat(t, d) = t \o g
  <2>1. PICK l \in Nat : l = k + 1  OBVIOUS
  <2>2. Blank(d, l)  BY <1>3, <2>1
  <2>3. QED  BY <1>1, <1>2, <2>1, <2>2, BlankAppended
<1>6. BulkInsert(t, at, d) = t \o g /\ at \in Position /\ InText(t, at)
  BY <1>1, <1>5, InsertAtEnd, AtEnd
<1>7. rec.start = at /\ rec.end = ComputeInsertEnd(d, at)
  BY DEF NewRecord
<1>8. PushRecord(m, rec).rows = t
  <2> HIDE DEF rec
  <2>1. QED  BY <1>1 DEF PushRecord, State
<1>9. n = InsertText(PushRecord(m, rec), at, d)
  <2> HIDE DEF rec, at
  <2>1. QED  BY <1>4, <1>6, <1>7, <1>8 DEF InsertText
<1>10. PICK paired \in BOOLEAN : paired = FALSE  OBVIOUS
<1>11. Inserts(m, at, d, paired, paired, n)  BY <1>9, <1>10 DEF Inserts
<1> HIDE DEF at, rec
<1>12. /\ Traced(n, base) /\ n.undo # <<>> /\ n.rows = BulkInsert(m.rows, at, d)
       /\ Follows(m, n) /\ Grows(m.undo, n.undo)
  <2>1. (paired => ~paired) /\ (paired => m.undo # <<>>) /\ ~paired  BY <1>10
  <2>2. QED  BY <1>5, <1>6, <1>11, <2>1, RecordInsert
<1>13. n.rows = Concat(t, d)  BY <1>5, <1>6, <1>12
<1>14. Len(n.rows) = Len(t) + k
  <2>1. Len(t \o g) = Len(t) + Len(g)  BY <1>1, <1>2, TextElements, SeqCat DEF Blank
  <2>2. QED  BY <1>2, <1>6, <1>12, <2>1 DEF Blank
<1>15. \A p \in Position : InText(t, p) => InText(n.rows, p)
  BY <1>1, <1>5, <1>13, StillIn
<1>16. QED  BY <1>12, <1>14, <1>15

-----------------------------------------------------------------------------
(* What a step leaves behind *)

(* What the order of the held positions comes to over a step. *)
KeepsOrder ==
  \A h, k \in Holder :
    /\ tracked[h] # NoPoint /\ tracked[k] # NoPoint
    /\ AtOrBefore(tracked[h], tracked[k])
    => AtOrBefore(tracked'[h], tracked'[k])

LEMMA ListTyped ==
  ASSUME NEW list \in Seq(Records)
  PROVE  list \in Seq(Record)
<1>1. Records \subseteq Record  BY DEF Records
<1> HIDE DEF Records, Record
<1>2. list \in [1..Len(list) -> Records] /\ Len(list) \in Nat  OBVIOUS
<1>3. list \in [1..Len(list) -> Record]  BY <1>1, <1>2
<1>4. QED  BY <1>2, <1>3

LEMMA Settling ==
  ASSUME NEW m, Sound(m), rows' = m.rows, tracked' = m.tracked, views' = m.views,
         Terminated(m.rows), point' \in Position, InText(m.rows, point'),
         disk' \in Text, dirty' \in BOOLEAN, internal_mod' \in BOOLEAN, read_only' \in BOOLEAN,
         CleanMatchesDisk', UndoList(undo'), RedoList(redo'),
         UndoFits(undo', rows', Base'), RedoFits(redo', rows')
  PROVE  Inv'
<1>1. m \in State /\ HeldIn(m)  BY DEF Sound
<1>2. /\ rows' \in Text /\ tracked' \in [Holder -> Position \cup {NoPoint}]
      /\ views' \in [View -> ViewState]
  BY <1>1, StateFields
<1>3. undo' \in Seq(Record) /\ redo' \in Seq(Record)  BY ListTyped DEF UndoList, RedoList
<1>4. TypeOK'  BY <1>2, <1>3 DEF TypeOK, ViewState
<1>5. HeldInText'  BY <1>1 DEF HeldIn, HeldInText
<1>6. FinalNewline'  BY DEF FinalNewline
<1>7. QED  BY <1>4, <1>5, <1>6 DEF Inv

LEMMA FollowsOrder ==
  ASSUME NEW m, Follows(Current, m), tracked' = m.tracked
  PROVE  KeepsOrder
<1>1. Current.tracked = tracked  BY DEF Current
<1> HIDE DEF Current
<1>2. QED  BY <1>1 DEF Follows, KeepsOrder

LEMMA CurrentTraced ==
  ASSUME Inv, NEW base, UndoFits(undo, rows, base)
  PROVE  /\ Traced(Current, base) /\ Terminated(rows)
         /\ Current.rows = rows /\ Current.undo = undo
         /\ Current.tracked = tracked /\ Current.views = views
<1>1. /\ Current.rows = rows /\ Current.undo = undo
      /\ Current.tracked = tracked /\ Current.views = views
  BY DEF Current
<1>2. /\ rows \in Text /\ tracked \in [Holder -> Position \cup {NoPoint}]
      /\ views \in [View -> ViewState] /\ undo \in Seq(Records)
  BY DEF Inv, TypeOK, ViewState, UndoList
<1>3. Current \in State  BY <1>2 DEF Current, State
<1>4. HeldIn(Current)  BY <1>1 DEF HeldIn, Inv, HeldInText
<1>5. Traced(Current, base)  BY <1>1, <1>3, <1>4 DEF Traced, Sound, Inv
<1>6. QED  BY <1>1, <1>5 DEF Inv, FinalNewline

LEMMA NothingAhead ==
  ASSUME NEW t \in Text
  PROVE  RedoList(<<>>) /\ RedoFits(<<>>, t)
<1>1. Len(<<>>) = 0 /\ <<>> \in Seq(Records)  OBVIOUS
<1> DEFINE T == [i \in 0..0 |-> t]
<1>2. T \in [0..Len(<<>>) -> Text] /\ T[0] = t  BY <1>1
<1>3. RedoTexts(<<>>, T)  BY <1>1, <1>2 DEF RedoTexts
<1>4. QED  BY <1>1, <1>2, <1>3 DEF RedoList, RedoFits

LEMMA CommitKeeps ==
  ASSUME Inv, NEW m, Traced(m, Base), Terminated(m.rows), Follows(Current, m),
         NEW p \in Position, InText(m.rows, p), Commit(m, p)
  PROVE  Inv' /\ KeepsOrder
<1>1. /\ rows' = m.rows /\ undo' = m.undo /\ tracked' = m.tracked /\ views' = m.views
      /\ redo' = <<>> /\ dirty' = TRUE /\ point' = p
      /\ internal_mod' = internal_mod /\ read_only' = read_only /\ disk' = disk
  BY DEF Commit
<1>2. Sound(m) /\ UndoList(m.undo) /\ UndoFits(m.undo, m.rows, Base)  BY DEF Traced
<1>3. m.rows \in Text  BY <1>2, StateFields DEF Sound
<1>4. Base' = Base  BY <1>1 DEF Base
<1>5. disk \in Text /\ internal_mod \in BOOLEAN /\ read_only \in BOOLEAN  BY DEF Inv, TypeOK
<1>6. CleanMatchesDisk' /\ dirty' \in BOOLEAN  BY <1>1 DEF CleanMatchesDisk
<1>7. RedoList(redo') /\ RedoFits(redo', rows')  BY <1>1, <1>3, NothingAhead
<1>8. UndoList(undo') /\ UndoFits(undo', rows', Base')  BY <1>1, <1>2, <1>4
<1>9. point' \in Position /\ InText(m.rows, point')  BY <1>1
<1>10. disk' \in Text /\ internal_mod' \in BOOLEAN /\ read_only' \in BOOLEAN  BY <1>1, <1>5
<1>11. Inv'  BY <1>1, <1>2, <1>6, <1>7, <1>8, <1>9, <1>10, Settling
<1>12. KeepsOrder  BY <1>1, FollowsOrder
<1>13. QED  BY <1>11, <1>12

-----------------------------------------------------------------------------
(* The commands *)

(* The outcomes of a command that edits: it is refused, and only the cursor *)
(* moves, or it commits what it made, recorded in one step, new or open.    *)
Refused(p) ==
  /\ p \in Position /\ InText(rows, p) /\ point' = p
  /\ UNCHANGED <<rows, undo, redo, tracked, views, dirty, internal_mod, read_only, disk>>

Made(m, p, base) ==
  /\ Commit(m, p) /\ p \in Position /\ InText(m.rows, p)
  /\ Traced(m, base) /\ Terminated(m.rows) /\ Follows(Current, m)
  /\ Grows(undo, m.undo)

Outcome(base) == (\E p : Refused(p)) \/ (\E m, p : Made(m, p, base))

LEMMA EditMakes ==
  ASSUME Inv, NEW base, UndoFits(undo, rows, base),
         NEW s \in Position, InText(rows, s),
         NEW e \in Position, InText(rows, e), AtOrBefore(s, e),
         NEW repl \in Text, s # e \/ repl # EmptyText,
         NEW coalesce \in BOOLEAN,
         NEW p, p = ComputeInsertEnd(repl, s),
         Edit(s, e, repl, coalesce, p)
  PROVE  Outcome(base)
<1>1. /\ Traced(Current, base) /\ Terminated(rows)
      /\ Current.rows = rows /\ Current.undo = undo
  BY CurrentTraced
<1>2. p \in Position  BY EndTyped
<1>3. CASE DeletesOnlyFinalNewline(rows, s, e, repl)
  <2>1. /\ point' = p
        /\ UNCHANGED <<rows, undo, redo, tracked, views, dirty, internal_mod, read_only, disk>>
    BY <1>3 DEF Edit
  <2>2. p = s  BY <1>3, EmptyEnd DEF DeletesOnlyFinalNewline
  <2>3. Refused(p)  BY <1>2, <2>1, <2>2 DEF Refused
  <2>4. QED  BY <2>3 DEF Outcome
<1>4. CASE ~DeletesOnlyFinalNewline(rows, s, e, repl)
  <2>1. PICK chain \in BOOLEAN : chain = FALSE  OBVIOUS
  <2> DEFINE m == MutateReplaceEx(Current, s, e, repl, chain, coalesce)
  <2>2. Commit(m, p)  BY <1>4, <2>1 DEF Edit
  <2> HIDE DEF m
  <2>3. (chain => Current.undo # <<>>) /\ (~chain => Terminated(Current.rows))  BY <1>1, <2>1
  <2>4. InText(Current.rows, s) /\ InText(Current.rows, e)  BY <1>1
  <2>5. /\ Traced(m, base) /\ Terminated(m.rows) /\ Follows(Current, m)
        /\ InText(m.rows, ComputeInsertEnd(repl, s))
        /\ ~chain => Grows(Current.undo, m.undo)
    BY <1>1, <2>3, <2>4, Mutated DEF m
  <2>6. Made(m, p, base)  BY <1>1, <1>2, <2>1, <2>2, <2>5 DEF Made
  <2>7. QED  BY <2>6 DEF Outcome
<1>5. QED  BY <1>3, <1>4

LEMMA AtPosition ==
  ASSUME NEW x \in Nat, NEW y \in Nat
  PROVE  At(x, y) \in Position /\ At(x, y).x = x /\ At(x, y).y = y
BY DEF At, Position

LEMMA RowSize ==
  ASSUME NEW t \in Text, NEW y \in Nat, y < NumRows(t)
  PROVE  NumRows(t) \in Nat /\ Size(t, y) \in Nat
<1>1. Len(t) \in Nat  BY TextElements
<1>2. y + 1 \in 1..Len(t)  BY <1>1 DEF NumRows
<1>3. QED  BY <1>1, <1>2, TextElements DEF NumRows, Size

LEMMA NextPositionIs ==
  ASSUME NEW t \in Text, NEW p \in Position, InText(t, p), p # EndOf(t),
         NEW q, q = NextPosition(t, p)
  PROVE  q \in Position /\ InText(t, q) /\ AtOrBefore(p, q) /\ p # q
<1>1. p.x \in Nat /\ p.y \in Nat /\ p.y < NumRows(t) /\ p.x <= Size(t, p.y)
      /\ p = At(p.x, p.y)
  BY DEF Position, InText, At
<1>2. NumRows(t) \in Nat /\ Size(t, p.y) \in Nat  BY <1>1, RowSize
<1>3. CASE p.x = Size(t, p.y)
  <2>1. p.y # NumRows(t) - 1  BY <1>1, <1>3 DEF EndOf
  <2>2. p.y + 1 \in Nat /\ p.y + 1 < NumRows(t) /\ 0 \in Nat  BY <1>1, <1>2, <2>1
  <2>3. Size(t, p.y + 1) \in Nat  BY <2>2, RowSize
  <2>4. q = At(0, p.y + 1)  BY <1>3 DEF NextPosition
  <2>5. q \in Position /\ q.x = 0 /\ q.y = p.y + 1  BY <2>2, <2>4, AtPosition
  <2>6. QED  BY <1>1, <2>2, <2>3, <2>5 DEF InText, AtOrBefore
<1>4. CASE p.x # Size(t, p.y)
  <2>1. p.x + 1 \in Nat /\ p.x + 1 <= Size(t, p.y)  BY <1>1, <1>2, <1>4
  <2>2. q = At(p.x + 1, p.y)  BY <1>4 DEF NextPosition
  <2>3. q \in Position /\ q.x = p.x + 1 /\ q.y = p.y  BY <1>1, <2>1, <2>2, AtPosition
  <2>4. QED  BY <1>1, <2>1, <2>3 DEF InText, AtOrBefore
<1>5. QED  BY <1>3, <1>4

LEMMA PrevPositionIs ==
  ASSUME NEW t \in Text, NEW p \in Position, InText(t, p), p # At(0, 0),
         NEW q, q = PrevPosition(t, p)
  PROVE  q \in Position /\ InText(t, q) /\ AtOrBefore(q, p) /\ p # q
<1>1. p.x \in Nat /\ p.y \in Nat /\ p.y < NumRows(t) /\ p.x <= Size(t, p.y)
      /\ p = At(p.x, p.y)
  BY DEF Position, InText, At
<1>2. NumRows(t) \in Nat /\ Size(t, p.y) \in Nat  BY <1>1, RowSize
<1>3. CASE p.x > 0
  <2>1. p.x - 1 \in Nat /\ p.x - 1 <= Size(t, p.y)  BY <1>1, <1>2, <1>3
  <2>2. q = At(p.x - 1, p.y)  BY <1>3 DEF PrevPosition
  <2>3. q \in Position /\ q.x = p.x - 1 /\ q.y = p.y  BY <1>1, <2>1, <2>2, AtPosition
  <2>4. QED  BY <1>1, <2>1, <2>3 DEF InText, AtOrBefore
<1>4. CASE ~(p.x > 0)
  <2>1. p.y # 0  BY <1>1, <1>4
  <2>2. p.y - 1 \in Nat /\ p.y - 1 < NumRows(t)  BY <1>1, <1>2, <2>1
  <2>3. Size(t, p.y - 1) \in Nat  BY <2>2, RowSize
  <2>4. q = At(Size(t, p.y - 1), p.y - 1)  BY <1>4 DEF PrevPosition
  <2>5. q \in Position /\ q.x = Size(t, p.y - 1) /\ q.y = p.y - 1  BY <2>2, <2>3, <2>4, AtPosition
  <2>6. QED  BY <1>1, <2>2, <2>3, <2>5 DEF InText, AtOrBefore
<1>5. QED  BY <1>3, <1>4

LEMMA Reflexive ==
  ASSUME NEW p \in Position
  PROVE  AtOrBefore(p, p)
BY DEF AtOrBefore, Position

LEMMA TypedPayloads ==
  ASSUME NEW d \in TypedPayload
  PROVE  d \in Text /\ d # EmptyText
<1>1. CASE d = NewLine
  <2>1. NewLine # EmptyText  BY DEF NewLine, EmptyText
  <2>2. QED  BY <1>1, <2>1, NewLineTyped
<1>2. CASE d \in { << <<b>> >> : b \in Byte }
  <2>1. PICK b \in Byte : d = << <<b>> >>  BY <1>2
  <2>2. <<b>> \in Row /\ <<b>> # <<>>  BY DEF Row
  <2>3. d \in Seq(Row) /\ Len(d) = 1 /\ d[1] = <<b>>  BY <2>1, <2>2
  <2>4. d \in Text  BY <2>3, TextFromSeq
  <2>5. EmptyText[1] = <<>>  BY DEF EmptyText
  <2>6. d # EmptyText  BY <2>2, <2>3, <2>5
  <2>7. QED  BY <2>4, <2>6
<1>3. QED  BY <1>1, <1>2 DEF TypedPayload

LEMMA EmptyReplacement ==
  ASSUME NEW s \in Position
  PROVE  EmptyText \in Text /\ s = ComputeInsertEnd(EmptyText, s)
<1>1. EmptyText \in Text
  <2>1. EmptyText \in Seq(Row) /\ Len(EmptyText) = 1  BY DEF EmptyText, Row
  <2>2. QED  BY <2>1, TextFromSeq
<1>2. QED  BY <1>1, EmptyEnd

LEMMA CommandsMake ==
  ASSUME Inv, NEW base, UndoFits(undo, rows, base),
         Type \/ Insert \/ Delete \/ Erase \/ Kill \/ Replace
  PROVE  Outcome(base)
<1>0. rows \in Text  BY DEF Inv, TypeOK
<1>1. PICK coalesce \in BOOLEAN, alone \in BOOLEAN : coalesce = TRUE /\ alone = FALSE  OBVIOUS
<1>2. CASE Type
  <2>1. PICK p \in Positions(rows), d \in TypedPayload : TypeByte(p, d)  BY <1>2 DEF Type
  <2>2. p \in Position /\ InText(rows, p) /\ AtOrBefore(p, p)  BY <1>0, PositionsAre, Reflexive
  <2>3. d \in Text /\ d # EmptyText  BY TypedPayloads
  <2>4. Edit(p, p, d, coalesce, ComputeInsertEnd(d, p))  BY <1>1, <2>1 DEF TypeByte
  <2>5. QED  BY <2>2, <2>3, <2>4, EditMakes
<1>3. CASE Insert
  <2>1. PICK p \in Positions(rows), d \in Payload : InsertPayload(p, d)  BY <1>3 DEF Insert
  <2>2. p \in Position /\ InText(rows, p) /\ AtOrBefore(p, p)  BY <1>0, PositionsAre, Reflexive
  <2>3. d \in Text /\ d # EmptyText  BY PayloadAssumption
  <2>4. Edit(p, p, d, alone, ComputeInsertEnd(d, p))  BY <1>1, <2>1 DEF InsertPayload
  <2>5. QED  BY <2>2, <2>3, <2>4, EditMakes
<1>4. CASE Delete
  <2>1. PICK p \in Positions(rows) : DelChar(p)  BY <1>4 DEF Delete
  <2>2. p \in Position /\ InText(rows, p)  BY <1>0, PositionsAre
  <2>3. PICK q : q = NextPosition(rows, p)  OBVIOUS
  <2>4. p # EndOf(rows) /\ Edit(p, q, EmptyText, coalesce, p)  BY <1>1, <2>1, <2>3 DEF DelChar
  <2>5. q \in Position /\ InText(rows, q) /\ AtOrBefore(p, q) /\ p # q
    BY <1>0, <2>2, <2>3, <2>4, NextPositionIs
  <2>6. EmptyText \in Text /\ p = ComputeInsertEnd(EmptyText, p)  BY <2>2, EmptyReplacement
  <2>7. QED  BY <2>2, <2>4, <2>5, <2>6, EditMakes
<1>5. CASE Erase
  <2>1. PICK p \in Positions(rows) : BackSpace(p)  BY <1>5 DEF Erase
  <2>2. p \in Position /\ InText(rows, p)  BY <1>0, PositionsAre
  <2>3. PICK q : q = PrevPosition(rows, p)  OBVIOUS
  <2>4. p # At(0, 0) /\ Edit(q, p, EmptyText, coalesce, q)  BY <1>1, <2>1, <2>3 DEF BackSpace
  <2>5. q \in Position /\ InText(rows, q) /\ AtOrBefore(q, p) /\ q # p
    BY <1>0, <2>2, <2>3, <2>4, PrevPositionIs
  <2>6. EmptyText \in Text /\ q = ComputeInsertEnd(EmptyText, q)  BY <2>5, EmptyReplacement
  <2>7. QED  BY <2>2, <2>4, <2>5, <2>6, EditMakes
<1>6. CASE Kill
  <2>1. PICK s \in Positions(rows), e \in Positions(rows) : AtOrBefore(s, e) /\ DeleteRange(s, e)
    BY <1>6 DEF Kill
  <2>2. s \in Position /\ InText(rows, s) /\ e \in Position /\ InText(rows, e)
    BY <1>0, PositionsAre
  <2>3. s # e /\ Edit(s, e, EmptyText, alone, s)  BY <1>1, <2>1 DEF DeleteRange
  <2>4. EmptyText \in Text /\ s = ComputeInsertEnd(EmptyText, s)  BY <2>2, EmptyReplacement
  <2>5. QED  BY <2>1, <2>2, <2>3, <2>4, EditMakes
<1>7. CASE Replace
  <2>1. PICK s \in Positions(rows), e \in Positions(rows), d \in Payload :
          AtOrBefore(s, e) /\ ReplaceRange(s, e, d)
    BY <1>7 DEF Replace
  <2>2. s \in Position /\ InText(rows, s) /\ e \in Position /\ InText(rows, e)
    BY <1>0, PositionsAre
  <2>3. d \in Text /\ d # EmptyText  BY PayloadAssumption
  <2>4. s # e /\ Edit(s, e, d, alone, ComputeInsertEnd(d, s))  BY <1>1, <2>1 DEF ReplaceRange
  <2>5. QED  BY <2>1, <2>2, <2>3, <2>4, EditMakes
<1>8. QED  BY <1>2, <1>3, <1>4, <1>5, <1>6, <1>7

-----------------------------------------------------------------------------
(* Rectangles *)

LEMMA PadRow ==
  ASSUME NEW n \in Nat, NEW g, g = [j \in 1..n |-> Pad]
  PROVE  g \in Row /\ Len(g) = n
<1>1. g \in [1..n -> Byte]  BY ByteAssumption
<1>2. \A f \in [1..n -> Byte] : f \in Seq(Byte) /\ Len(f) = n  OBVIOUS
<1>3. QED  BY <1>1, <1>2 DEF Row

LEMMA FourParts ==
  ASSUME NEW b \in Row, NEW g \in Row, NEW r \in Row, r # <<>>, NEW a \in Row,
         NEW x \in Nat, Len(b) + Len(g) = x,
         NEW z, z = ((b \o g) \o r) \o a
  PROVE  z \in Row /\ Len(z) \in Nat /\ x < Len(z)
<1>1. PICK u : u = b \o g  OBVIOUS
<1>2. u \in Row /\ Len(u) = x  BY <1>1, RowJoin
<1>3. PICK v : v = u \o r  OBVIOUS
<1>4. v \in Row /\ Len(v) = x + Len(r)  BY <1>2, <1>3, RowJoin
<1>5. z = v \o a  BY <1>1, <1>3
<1>6. v \o a \in Row /\ Len(v \o a) = Len(v) + Len(a)  BY <1>4, RowJoin
<1>7. Len(r) \in Nat /\ Len(r) >= 1 /\ Len(a) \in Nat  BY DEF Row
<1>8. Len(v \o a) \in Nat /\ x < Len(v \o a)  BY <1>4, <1>6, <1>7
<1>9. QED  BY <1>5, <1>6, <1>8

LEMMA PaddedRow ==
  ASSUME NEW row \in Row, NEW x \in Nat, NEW r \in Row, r # <<>>,
         NEW pre, pre = (IF Len(row) < x THEN Len(row) ELSE x),
         NEW z, z = SubSeq(row, 1, pre) \o [j \in 1..(x - pre) |-> Pad] \o r
                    \o SubSeq(row, pre + 1, Len(row))
  PROVE  z \in Row /\ Len(z) \in Nat /\ x < Len(z)
<1>1. Len(row) \in Nat  BY DEF Row
<1>2. pre \in 0..Len(row) /\ pre <= x  BY <1>1
<1>3. PICK n \in Nat : n = x - pre
  <2>1. x - pre \in Nat  BY <1>1, <1>2
  <2>2. QED  BY <2>1, Zenon
<1>4. PICK b : b = SubSeq(row, 1, pre)  OBVIOUS
<1>5. PICK a : a = SubSeq(row, pre + 1, Len(row))  OBVIOUS
<1>6. PICK g : g = [j \in 1..n |-> Pad]  OBVIOUS
<1>7. b \in Row /\ Len(b) = pre /\ a \in Row  BY <1>2, <1>4, <1>5, RowCut
<1>8. g \in Row /\ Len(g) = n  BY <1>6, PadRow
<1>9. z = ((b \o g) \o r) \o a  BY <1>3, <1>4, <1>5, <1>6
<1>10. Len(b) + Len(g) = x  BY <1>1, <1>2, <1>3, <1>7, <1>8
<1>11. QED  BY <1>7, <1>8, <1>9, <1>10, FourParts

LEMMA RectangleTyped ==
  ASSUME NEW t \in Text, NEW x \in Nat, NEW y \in Nat, NEW rect \in Rectangle,
         y + Len(rect) <= Len(t),
         NEW d, d = RectangleRows(t, x, y, rect)
  PROVE  d \in Text /\ d # EmptyText /\ d[1] \in Row /\ Len(d[1]) \in Nat /\ x < Len(d[1])
<1>1. rect \in Text /\ \A i \in 1..Len(rect) : rect[i] # <<>>  BY RectangleAssumption
<1>2. Len(rect) \in Nat /\ Len(rect) >= 1 /\ \A i \in 1..Len(rect) : rect[i] \in Row
  BY <1>1, TextElements
<1>3. ASSUME NEW i \in 1..Len(rect)
      PROVE  d[i] \in Row /\ Len(d[i]) \in Nat /\ x < Len(d[i])
  <2>1. Len(t) \in Nat  BY TextElements
  <2>2. (y + i - 1) + 1 \in 1..Len(t)  BY <1>2, <2>1
  <2>3. PICK row : row = RowAt(t, y + i - 1)  OBVIOUS
  <2>4. row \in Row  BY <2>2, <2>3, TextElements DEF RowAt
  <2>5. PICK pre : pre = (IF Len(row) < x THEN Len(row) ELSE x)  OBVIOUS
  <2>6. d[i] = SubSeq(row, 1, pre) \o [j \in 1..(x - pre) |-> Pad] \o rect[i]
               \o SubSeq(row, pre + 1, Len(row))
    BY <2>3, <2>5 DEF RectangleRows
  <2>7. rect[i] \in Row /\ rect[i] # <<>>  BY <1>1, <1>2
  <2>8. QED  BY <2>4, <2>5, <2>6, <2>7, PaddedRow
<1>4. d \in [1..Len(rect) -> Row]
  <2>1. d = [i \in 1..Len(rect) |-> d[i]]  BY DEF RectangleRows
  <2>2. QED  BY <1>3, <2>1
<1>5. d \in Text
  <2>1. d \in Seq(Row) /\ Len(d) = Len(rect)  BY <1>2, <1>4
  <2>2. QED  BY <1>2, <2>1, TextFromSeq
<1>6. d[1] \in Row /\ Len(d[1]) \in Nat /\ x < Len(d[1])  BY <1>2, <1>3
<1>7. d # EmptyText
  <2>1. EmptyText[1] = <<>> /\ Len(<<>>) = 0  BY DEF EmptyText
  <2>2. d[1] # <<>>  BY <1>6, <2>1
  <2>3. QED  BY <2>1, <2>2
<1>8. QED  BY <1>5, <1>6, <1>7

LEMMA FirstRowHolds ==
  ASSUME NEW b \in Text, NEW d \in Text, NEW p \in Position, Len(b) = p.y + 1,
         p.x <= Len(d[1])
  PROVE  InText(Concat(b, d), p)
<1> DEFINE c == Concat(b, d)
<1>1. PICK y \in Nat : y = p.y  BY DEF Position
<1>2. PICK k \in Nat : k = Len(d) /\ k >= 1  BY TextElements
<1>3. Len(c) = Len(b) + Len(d) - 1 /\ c[Len(b)] = b[Len(b)] \o d[1]
  BY ConcatElements DEF ConcatFacts
<1> HIDE DEF c
<1>4. Len(c) = y + 1 + k - 1 /\ c[y + 1] = b[y + 1] \o d[1]  BY <1>1, <1>2, <1>3
<1>5. y < Len(c)  BY <1>1, <1>2, <1>4
<1>6. b[y + 1] \in Row /\ d[1] \in Row /\ Len(d[1]) \in Nat
  <2>1. y + 1 \in 1..Len(b)  BY <1>1
  <2>2. 1 \in 1..Len(d)  BY <1>2
  <2>3. QED  BY <2>1, <2>2, TextElements
<1>7. PICK f : f = b[y + 1]  OBVIOUS
<1>8. f \in Row /\ c[y + 1] = f \o d[1]  BY <1>4, <1>6, <1>7
<1>9. Len(f \o d[1]) = Len(f) + Len(d[1])  BY <1>6, <1>8, RowJoin
<1>10. Len(f) \in Nat /\ p.x \in Nat  BY <1>8 DEF Row, Position
<1>11. p.x <= Len(f) + Len(d[1])  BY <1>6, <1>10
<1>12. p.x <= Len(c[y + 1])  BY <1>8, <1>9, <1>11
<1>13. QED  BY <1>1, <1>5, <1>12 DEF c, InText, NumRows, Size

LEMMA RectangleMakes ==
  ASSUME Inv, NEW base, UndoFits(undo, rows, base), YankRect
  PROVE  Outcome(base)
<1>0. rows \in Text  BY DEF Inv, TypeOK
<1>1. PICK p \in Positions(rows), rect \in Rectangle : YankRectangle(p, rect)  BY DEF YankRect
<1>2. p \in Position /\ InText(rows, p)  BY <1>0, <1>1, PositionsAre
<1>3. p.x \in Nat /\ p.y \in Nat /\ p.y < Len(rows) /\ Len(rows) \in Nat
  BY <1>0, <1>2, TextElements DEF Position, InText, NumRows
<1>4. rect \in Text /\ Len(rect) \in Nat /\ Len(rect) >= 1  BY RectangleAssumption, TextElements
<1> DEFINE boty     == p.y + Len(rect) - 1
           missing  == boty - NumRows(rows) + 1
           extended == IF missing > 0 THEN MutateExtendRows(Current, missing) ELSE Current
           s        == At(0, p.y)
           e        == At(Size(extended.rows, boty), boty)
           repl     == RectangleRows(extended.rows, p.x, p.y, rect)
           m        == MutateReplaceEx(extended, s, e, repl, missing > 0, FALSE)
<1>5. Commit(m, p)  BY <1>1 DEF YankRectangle
<1>6. boty \in Nat /\ p.y <= boty /\ missing \in Int /\ (~(missing > 0) => boty < Len(rows))
      /\ (missing > 0 => missing \in Nat /\ boty + 1 = Len(rows) + missing)
  BY <1>3, <1>4 DEF NumRows
<1>7. Traced(Current, base) /\ Terminated(rows) /\ Current.rows = rows /\ Current.undo = undo
  BY CurrentTraced
<1>8. /\ Traced(extended, base) /\ Follows(Current, extended)
      /\ missing > 0 => extended.undo # <<>> /\ Grows(undo, extended.undo)
      /\ ~(missing > 0) => extended.undo = undo
      /\ ~(missing > 0) => Terminated(extended.rows)
      /\ InText(extended.rows, p) /\ boty < Len(extended.rows)
  <2>1. CASE missing > 0
    <3> DEFINE x == MutateExtendRows(Current, missing)
    <3>1. PICK k \in Nat : k = missing
      <4>1. missing \in Nat  BY <1>6, <2>1
      <4>2. QED  BY <4>1, Zenon
    <3>2. extended = MutateExtendRows(Current, k)  BY <2>1, <3>1
    <3>3. Terminated(Current.rows)  BY <1>7
    <3> HIDE DEF extended
    <3>4. /\ Traced(extended, base) /\ extended.undo # <<>> /\ Follows(Current, extended)
          /\ Len(extended.rows) = Len(Current.rows) + k
          /\ \A q \in Position : InText(Current.rows, q) => InText(extended.rows, q)
          /\ Grows(Current.undo, extended.undo)
      BY <1>7, <3>2, <3>3, Extended
    <3>5. Len(extended.rows) = boty + 1  BY <1>6, <1>7, <2>1, <3>1, <3>4
    <3>6. boty < Len(extended.rows)
      <4> HIDE DEF boty
      <4>1. QED  BY <1>6, <3>5
    <3>7. InText(extended.rows, p)  BY <1>2, <1>7, <3>4
    <3>8. QED  BY <1>7, <2>1, <3>4, <3>6, <3>7
  <2>2. CASE ~(missing > 0)
    <3>1. extended = Current  BY <2>2
    <3> HIDE DEF extended
    <3>2. boty < Len(extended.rows)  BY <1>6, <1>7, <2>2, <3>1
    <3>3. QED  BY <1>2, <1>7, <2>2, <3>1, <3>2, FollowsSelf
  <2>3. QED  BY <2>1, <2>2
<1> DEFINE t == extended.rows
<1>9. t \in Text  BY <1>8, StateFields DEF Traced, Sound
<1> HIDE DEF extended, missing
<1>10. /\ s \in Position /\ InText(t, s) /\ e \in Position /\ InText(t, e)
       /\ AtOrBefore(s, e) /\ s.y = p.y
  <2>1. 0 \in Nat /\ p.y < Len(t)  BY <1>8 DEF InText, NumRows
  <2>2. Size(t, boty) \in Nat /\ Size(t, p.y) \in Nat
    <3> HIDE DEF boty
    <3>1. QED  BY <1>3, <1>6, <1>8, <1>9, <2>1, RowSize DEF NumRows
  <2> HIDE DEF boty
  <2>3. s \in Position /\ s.x = 0 /\ s.y = p.y  BY <1>3, <2>1, AtPosition
  <2>4. e \in Position /\ e.x = Size(t, boty) /\ e.y = boty  BY <1>6, <2>2, AtPosition
  <2> HIDE DEF s, e
  <2>5. InText(t, s)  BY <2>1, <2>2, <2>3 DEF InText, NumRows
  <2>6. InText(t, e)  BY <1>8, <2>2, <2>4 DEF InText, NumRows
  <2>7. AtOrBefore(s, e)
    <3>1. s.y < e.y \/ (s.y = e.y /\ s.x <= e.x)  BY <1>3, <1>6, <2>2, <2>3, <2>4
    <3>2. QED  BY <3>1 DEF AtOrBefore
  <2>8. QED  BY <2>3, <2>4, <2>5, <2>6, <2>7
<1>11. /\ repl \in Text /\ repl # EmptyText
       /\ Len(repl[1]) \in Nat /\ p.x < Len(repl[1])
  <2>1. p.y + Len(rect) <= Len(t)
    <3>1. Len(t) \in Nat  BY <1>9, TextElements
    <3>2. boty < Len(t)  BY <1>8
    <3>3. QED  BY <1>3, <1>4, <3>1, <3>2
  <2>2. p.x \in Nat /\ p.y \in Nat  BY <1>3
  <2> HIDE DEF t
  <2>3. PICK d : d = RectangleRows(t, p.x, p.y, rect)  OBVIOUS
  <2>4. d \in Text /\ d # EmptyText /\ Len(d[1]) \in Nat /\ p.x < Len(d[1])
    BY <1>1, <1>9, <2>1, <2>2, <2>3, RectangleTyped
  <2>5. QED  BY <2>3, <2>4 DEF t
<1>12. PICK chain \in BOOLEAN, alone \in BOOLEAN : chain = (missing > 0) /\ alone = FALSE
  <2>1. (missing > 0) \in BOOLEAN  BY <1>6
  <2>2. QED  BY <2>1, Zenon
<1>13. m = MutateReplaceEx(extended, s, e, repl, chain, alone)  BY <1>12
<1> HIDE DEF m, s, e, repl
<1>14. /\ Traced(m, base) /\ Terminated(m.rows) /\ Follows(extended, m)
       /\ \A q \in Position : InText(Concat(Before(t, s), repl), q) => InText(m.rows, q)
       /\ chain => Extends(extended.undo, m.undo)
       /\ ~chain => Grows(extended.undo, m.undo)
  <2>1. (chain => extended.undo # <<>>) /\ (~chain => Terminated(extended.rows))
    BY <1>8, <1>12
  <2>2. QED  BY <1>8, <1>10, <1>11, <1>13, <2>1, Mutated
<1>15. InText(m.rows, p)
  <2>1. Before(t, s) \in Text /\ Len(Before(t, s)) = p.y + 1  BY <1>9, <1>10, RowsOfParts
  <2>2. p.x <= Len(repl[1])  BY <1>3, <1>11
  <2>3. InText(Concat(Before(t, s), repl), p)  BY <1>2, <1>11, <2>1, <2>2, FirstRowHolds
  <2>4. QED  BY <1>2, <1>14, <2>3
<1>16. Follows(Current, m)  BY <1>8, <1>14, FollowsTransitive
<1>17. Grows(undo, m.undo)
  <2>1. undo \in Seq(Records) /\ extended.undo \in Seq(Records) /\ m.undo \in Seq(Records)
    BY <1>7, <1>8, <1>14 DEF Traced, UndoList
  <2>2. CASE chain
    <3>1. Grows(undo, extended.undo) /\ Extends(extended.undo, m.undo)
      BY <1>8, <1>12, <1>14, <2>2
    <3>2. QED  BY <2>1, <3>1, ExtendsOn
  <2>3. CASE ~chain  BY <1>8, <1>12, <1>14, <2>3
  <2>4. QED  BY <2>2, <2>3
<1>18. Made(m, p, base)  BY <1>2, <1>5, <1>14, <1>15, <1>16, <1>17 DEF Made
<1>19. QED  BY <1>18 DEF Outcome

LEMMA EditingMakes ==
  ASSUME Inv, NEW base, UndoFits(undo, rows, base), Editing
  PROVE  Outcome(base)
<1>1. CASE Type \/ Insert \/ Delete \/ Erase \/ Kill \/ Replace  BY <1>1, CommandsMake
<1>2. CASE YankRect  BY <1>2, RectangleMakes
<1>3. QED  BY <1>1, <1>2 DEF Editing

LEMMA EditingKeeps ==
  ASSUME Inv, Editing
  PROVE  Inv' /\ (rows' # rows => KeepsOrder)
<1>1. UndoFits(undo, rows, Base)  BY DEF Inv
<1>2. Outcome(Base)  BY <1>1, EditingMakes
<1>3. CASE \E p : Refused(p)
  <2>1. PICK p : Refused(p)  BY <1>3
  <2>2. Inv'
    BY <2>1 DEF Refused, Inv, TypeOK, HeldInText, CleanMatchesDisk, FinalNewline, Base
  <2>3. QED  BY <2>1, <2>2 DEF Refused
<1>4. CASE \E m, p : Made(m, p, Base)
  <2>1. PICK m, p : Made(m, p, Base)  BY <1>4
  <2>2. QED  BY <2>1, CommitKeeps DEF Made
<1>5. QED  BY <1>2, <1>3, <1>4 DEF Outcome

-----------------------------------------------------------------------------
(* Replaying *)

(* Replaying r takes the text t to the text u. *)
Step(r, is_delete, t, u) == IF is_delete THEN Splice(r, t, u) ELSE Splice(r, u, t)

LEMMA Replaying ==
  ASSUME NEW m, Sound(m), NEW r \in Records, NEW is_delete \in BOOLEAN, NEW u \in Text,
         Step(r, is_delete, m.rows, u),
         NEW n, n = Replay(m, r, is_delete)
  PROVE  Sound(n) /\ n.rows = u /\ Follows(m, n)
<1>1. m.rows \in Text  BY StateFields DEF Sound
<1>2. r.start \in Position /\ r.end \in Position /\ r.data \in Text  BY RecordFields
<1>3. CASE is_delete
  <2>1. Splice(r, m.rows, u)  BY <1>3 DEF Step
  <2>2. /\ InText(m.rows, r.start) /\ InText(m.rows, r.end) /\ AtOrBefore(r.start, r.end)
        /\ BulkDelete(m.rows, r.start, r.end) = u
    BY <1>1, <2>1, SpliceReplays
  <2>3. n = DeleteText(m, r.start, r.end)  BY <1>3 DEF Replay
  <2>4. Sound(n) /\ n.rows = BulkDelete(m.rows, r.start, r.end) /\ Follows(m, n)
    BY <1>2, <2>2, <2>3, Deleting
  <2>5. QED  BY <2>2, <2>4
<1>4. CASE ~is_delete
  <2>1. Splice(r, u, m.rows)  BY <1>4 DEF Step
  <2>2. InText(m.rows, r.start) /\ BulkInsert(m.rows, r.start, r.data) = u
    BY <1>1, <2>1, SpliceReplays
  <2>3. n = InsertText(m, r.start, r.data)  BY <1>4 DEF Replay
  <2>4. Sound(n) /\ n.rows = BulkInsert(m.rows, r.start, r.data) /\ Follows(m, n)
    BY <1>2, <2>2, <2>3, Inserting
  <2>5. QED  BY <2>2, <2>4
<1>5. QED  BY <1>3, <1>4

(* The function ReplayAll defines by recursion, up to j. *)
Replays(f, m, list, j, is_redo) ==
  f = [i \in 0..j |-> IF i = 0 THEN m
                      ELSE Replay(f[i - 1], list[i], list[i].delete = is_redo)]

LEMMA ReplaysOn ==
  ASSUME NEW m, NEW list, NEW j \in Nat, NEW is_redo, NEW f, Replays(f, m, list, j, is_redo),
         NEW l \in Nat, l = j + 1
  PROVE  \E g : Replays(g, m, list, l, is_redo)
<1> DEFINE new == Replay(f[j], list[l], list[l].delete = is_redo)
           g   == [i \in 0..l |-> IF i = l THEN new ELSE f[i]]
           h   == [i \in 0..l |-> IF i = 0 THEN m
                                  ELSE Replay(g[i - 1], list[i], list[i].delete = is_redo)]
<1>1. \A i \in 0..j : f[i] = IF i = 0 THEN m
                             ELSE Replay(f[i - 1], list[i], list[i].delete = is_redo)
  BY DEF Replays
<1>2. ASSUME NEW i \in 0..l  PROVE g[i] = h[i]
  <2>1. CASE i = l
    <3>1. l \in 0..l /\ i # 0 /\ l - 1 = j /\ j \in 0..l /\ j # l  BY <2>1
    <3>2. g[i] = new /\ g[l - 1] = f[j]  BY <2>1, <3>1
    <3>3. h[i] = Replay(g[l - 1], list[l], list[l].delete = is_redo)  BY <2>1, <3>1
    <3> HIDE DEF g, h
    <3>4. QED  BY <3>2, <3>3
  <2>2. CASE i # l
    <3>1. i \in 0..j /\ g[i] = f[i]  BY <2>2
    <3>2. CASE i = 0
      <4>1. f[i] = m /\ h[i] = m  BY <1>1, <3>1, <3>2
      <4>2. QED  BY <3>1, <4>1
    <3>3. CASE i # 0
      <4>1. i - 1 \in 0..l /\ i - 1 # l  BY <2>2, <3>3
      <4>2. g[i - 1] = f[i - 1]  BY <4>1
      <4>3. f[i] = Replay(f[i - 1], list[i], list[i].delete = is_redo)  BY <1>1, <3>1, <3>3
      <4>4. h[i] = Replay(g[i - 1], list[i], list[i].delete = is_redo)  BY <3>3
      <4> HIDE DEF g, h
      <4>5. QED  BY <3>1, <4>2, <4>3, <4>4
    <3>4. QED  BY <3>2, <3>3
  <2>3. QED  BY <2>1, <2>2
<1>3. g = h
  <2>1. g = [i \in 0..l |-> g[i]] /\ h = [i \in 0..l |-> h[i]]  OBVIOUS
  <2> HIDE DEF g, h
  <2>2. QED  BY <1>2, <2>1
<1>4. Replays(g, m, list, l, is_redo)
  <2> HIDE DEF g
  <2>1. QED  BY <1>3 DEF Replays
<1>5. QED  BY <1>4

LEMMA ReplaysExist ==
  ASSUME NEW m, NEW list, NEW k \in Nat, NEW is_redo
  PROVE  \E f : Replays(f, m, list, k, is_redo)
<1> DEFINE G == { j \in 0..k : \E f : Replays(f, m, list, j, is_redo) }
<1>1. 0 \in G
  <2> DEFINE f == [i \in 0..0 |-> m]
  <2>1. Replays(f, m, list, 0, is_redo)  BY DEF Replays
  <2>2. QED  BY <2>1
<1>2. ASSUME NEW i \in 0..(k - 1), i \in G  PROVE i + 1 \in G
  <2>1. PICK f : Replays(f, m, list, i, is_redo)  BY <1>2
  <2>2. i \in Nat /\ i + 1 \in 0..k /\ i + 1 \in Nat  OBVIOUS
  <2>3. \A l \in Nat : l = i + 1 => \E g : Replays(g, m, list, l, is_redo)
    BY <2>1, <2>2, ReplaysOn
  <2>4. \E g : Replays(g, m, list, i + 1, is_redo)  BY <2>2, <2>3
  <2>5. QED  BY <2>2, <2>4
<1> HIDE DEF G
<1>3. k \in G
  <2>1. \A i \in 0..k : i \in G  BY <1>1, <1>2, UpTo
  <2>2. QED  BY <2>1
<1>4. QED  BY <1>3 DEF G

StepsAlong(m, list, T, k, is_redo) ==
  /\ Sound(m) /\ list \in Seq(Records) /\ k \in Nat /\ k <= Len(list)
  /\ T \in [0..k -> Text] /\ T[0] = m.rows
  /\ \A i \in 1..k : Step(list[i], list[i].delete = is_redo, T[i - 1], T[i])

LEMMA ReplayedAll ==
  ASSUME NEW m, NEW list, NEW k, NEW is_redo \in BOOLEAN, NEW T,
         StepsAlong(m, list, T, k, is_redo),
         NEW n, n = ReplayAll(m, list, k, is_redo)
  PROVE  Sound(n) /\ n.rows = T[k] /\ Follows(m, n)
<1> USE DEF StepsAlong
<1>1. PICK f : f = CHOOSE g : Replays(g, m, list, k, is_redo)  OBVIOUS
<1>2. Replays(f, m, list, k, is_redo)  BY <1>1, ReplaysExist
<1>3. n = f[k]  BY <1>1 DEF ReplayAll, Replays
<1>4. \A i \in 0..k : f[i] = IF i = 0 THEN m
                             ELSE Replay(f[i - 1], list[i], list[i].delete = is_redo)
  BY <1>2 DEF Replays
<1> DEFINE G == { j \in 0..k : Sound(f[j]) /\ f[j].rows = T[j] /\ Follows(m, f[j]) }
<1>5. 0 \in G
  <2>1. f[0] = m  BY <1>4
  <2>2. QED  BY <2>1, FollowsSelf
<1>6. ASSUME NEW i \in 0..(k - 1), i \in G  PROVE i + 1 \in G
  <2>1. PICK l \in 1..k : l = i + 1
    <3>1. i + 1 \in 1..k  OBVIOUS
    <3>2. QED  BY <3>1, Zenon
  <2>2. l \in 0..k /\ l # 0 /\ l - 1 = i /\ l \in 1..Len(list)  BY <2>1
  <2>3. Sound(f[i]) /\ f[i].rows = T[i] /\ Follows(m, f[i])  BY <1>6
  <2>4. list[l] \in Records  BY <2>2
  <2>5. PICK is_delete \in BOOLEAN : is_delete = (list[l].delete = is_redo)  OBVIOUS
  <2>6. f[l] = Replay(f[i], list[l], is_delete)
    <3>1. f[l] = Replay(f[l - 1], list[l], list[l].delete = is_redo)  BY <1>4, <2>2
    <3>2. QED  BY <2>2, <2>5, <3>1
  <2>7. Step(list[l], is_delete, f[i].rows, T[l])
    <3>1. Step(list[l], list[l].delete = is_redo, T[l - 1], T[l])  BY <2>1
    <3>2. QED  BY <2>2, <2>3, <2>5, <3>1
  <2>8. T[l] \in Text  BY <2>2
  <2>9. Sound(f[l]) /\ f[l].rows = T[l] /\ Follows(f[i], f[l])
    BY <2>3, <2>4, <2>6, <2>7, <2>8, Replaying
  <2>10. Follows(m, f[l])  BY <2>3, <2>9, FollowsTransitive
  <2>11. l \in G  BY <2>2, <2>9, <2>10
  <2>12. QED  BY <2>1, <2>11
<1> HIDE DEF G
<1>7. k \in G
  <2>1. \A i \in 0..k : i \in G  BY <1>5, <1>6, UpTo
  <2>2. QED  BY <2>1
<1>8. QED  BY <1>3, <1>7 DEF G

(* How far an undo or a redo goes: to the end of the step it is in. *)
LEMMA UndoGoes ==
  ASSUME NEW list, UndoList(list), list # <<>>, NEW k, k = UndoLength(list)
  PROVE  /\ k \in 1..Len(list) /\ ~list[k].paired
         /\ \A j \in 1..(k - 1) : list[j].paired
<1>1. list \in Seq(Records) /\ Len(list) \in Nat /\ Len(list) > 0
  BY ListElements DEF UndoList
<1> DEFINE G == { j \in 1..Len(list) : j = Len(list) \/ ~list[j].paired }
<1>2. G \subseteq Nat /\ Len(list) \in G  BY <1>1
<1> HIDE DEF G
<1>3. PICK n \in G : \A j \in G : n <= j  BY <1>2, Least
<1>4. n \in 1..Len(list) /\ (n = Len(list) \/ ~list[n].paired)  BY <1>3 DEF G
<1>5. \A j \in 1..(n - 1) : list[j].paired
  <2>1. TAKE j \in 1..(n - 1)
  <2>2. j \in 1..Len(list) /\ ~(n <= j)  BY <1>1, <1>4
  <2>3. j \notin G  BY <1>3, <2>2
  <2>4. QED  BY <2>2, <2>3 DEF G
<1>6. /\ k \in 1..Len(list)
      /\ \A j \in 1..(k - 1) : list[j].paired
      /\ k = Len(list) \/ ~list[k].paired
  BY <1>4, <1>5 DEF UndoLength
<1>7. ~list[k].paired  BY <1>6 DEF UndoList
<1>8. QED  BY <1>6, <1>7

LEMMA RedoGoes ==
  ASSUME NEW list, RedoList(list), list # <<>>, NEW k, k = RedoLength(list)
  PROVE  /\ k \in 1..Len(list)
         /\ \A j \in 2..k : list[j].paired
         /\ k = Len(list) \/ ~list[k + 1].paired
<1>1. list \in Seq(Records) /\ Len(list) \in Nat /\ Len(list) > 0
  BY ListElements DEF RedoList
<1> DEFINE G == { j \in 1..Len(list) : j = Len(list) \/ ~list[j + 1].paired }
<1>2. G \subseteq Nat /\ Len(list) \in G  BY <1>1
<1> HIDE DEF G
<1>3. PICK n \in G : \A j \in G : n <= j  BY <1>2, Least
<1>4. n \in 1..Len(list) /\ (n = Len(list) \/ ~list[n + 1].paired)  BY <1>3 DEF G
<1>5. \A j \in 2..n : list[j].paired
  <2>1. TAKE j \in 2..n
  <2>2. PICK i \in 1..Len(list) : j = i + 1 /\ ~(n <= i) /\ i # Len(list)
    <3>1. j - 1 \in 1..Len(list) /\ j = (j - 1) + 1 /\ ~(n <= j - 1) /\ j - 1 # Len(list)
      BY <1>1, <1>4
    <3>2. QED  BY <3>1
  <2>3. i \notin G  BY <1>3, <2>2
  <2>4. QED  BY <2>2, <2>3 DEF G
<1>6. /\ k \in 1..Len(list)
      /\ \A j \in 2..k : list[j].paired
      /\ k = Len(list) \/ ~list[k + 1].paired
  BY <1>4, <1>5 DEF RedoLength
<1>7. QED  BY <1>6

CatFacts(a, b, k, c) ==
  /\ c \in Seq(Records) /\ Len(c) = k + Len(b)
  /\ \A i \in 1..k : c[i] = a[i]
  /\ \A i \in 1..Len(b) : c[k + i] = b[i]

LEMMA RecordsCat ==
  ASSUME NEW a \in Seq(Records), NEW b \in Seq(Records), NEW k \in Nat, Len(a) = k,
         NEW c, c = a \o b
  PROVE  CatFacts(a, b, k, c)
<1>1. Len(b) \in Nat /\ c \in Seq(Records) /\ Len(c) = k + Len(b)  OBVIOUS
<1>2. \A i \in 1..k : c[i] = a[i]  OBVIOUS
<1>3. \A i \in 1..Len(b) : c[k + i] = b[i]
  <2>1. TAKE i \in 1..Len(b)
  <2>2. k + i \in 1..(k + Len(b)) /\ (k + i) - k = i /\ ~(k + i <= k)  BY <1>1
  <2>3. QED  BY <2>2, ConcatProperties
<1>4. QED  BY <1>1, <1>2, <1>3 DEF CatFacts

(* The lists an undo or a redo passes records between. *)
MovedFacts(from, to, k, list) ==
  /\ list \in Seq(Records) /\ Len(list) = k + Len(to)
  /\ \A i \in 1..k : Alike(from[k + 1 - i], list[i])
  /\ \A i \in 1..Len(to) : list[k + i] = to[i]
  /\ \A i \in 1..Len(list) : ~list[i].append

LEMMA ListMoved ==
  ASSUME NEW from \in Seq(Records), NEW to \in Seq(Records), NEW k \in 1..Len(from),
         \A i \in 1..Len(to) : ~to[i].append,
         NEW list, list = Moved(from, to, k)
  PROVE  MovedFacts(from, to, k, list)
<1>1. Len(from) \in Nat /\ Len(to) \in Nat /\ k \in Nat /\ k <= Len(from)  BY ListElements
<1>2. PICK one : one = [i \in 1..k |-> [from[k + 1 - i] EXCEPT !.append = FALSE]]  OBVIOUS
<1>3. ASSUME NEW i \in 1..k
      PROVE  one[i] \in Records /\ ~one[i].append /\ Alike(from[k + 1 - i], one[i])
  <2>1. PICK j \in 1..Len(from) : j = k + 1 - i
    <3>1. k + 1 - i \in 1..Len(from)  BY <1>1
    <3>2. QED  BY <3>1, Zenon
  <2>2. from[j] \in Records  OBVIOUS
  <2>3. one[i] = [from[j] EXCEPT !.append = FALSE]  BY <1>2, <2>1
  <2>4. QED  BY <2>1, <2>2, <2>3, ClosedRecord
<1>4. one \in Seq(Records) /\ Len(one) = k
  <2>1. one \in [1..k -> Records]  BY <1>2, <1>3
  <2>2. \A f \in [1..k -> Records] : f \in Seq(Records) /\ Len(f) = k  BY <1>1
  <2>3. QED  BY <2>1, <2>2
<1>5. list = one \o to  BY <1>2 DEF Moved
<1>6. /\ list \in Seq(Records) /\ Len(list) = k + Len(to)
      /\ \A i \in 1..k : list[i] = one[i]
      /\ \A i \in 1..Len(to) : list[k + i] = to[i]
  <2>1. k \in Nat  BY <1>1
  <2>2. CatFacts(one, to, k, list)  BY <1>4, <1>5, <2>1, RecordsCat
  <2>3. QED  BY <2>2 DEF CatFacts
<1>7. \A i \in 1..Len(list) : ~list[i].append
  <2>1. TAKE i \in 1..Len(list)
  <2>2. CASE i <= k
    <3>1. i \in 1..k  BY <1>1, <1>6, <2>2
    <3>2. QED  BY <1>3, <1>6, <3>1
  <2>3. CASE i > k
    <3>1. i - k \in 1..Len(to) /\ k + (i - k) = i  BY <1>1, <1>6, <2>3
    <3>2. list[k + (i - k)] = to[i - k]  BY <1>6, <3>1
    <3>3. QED  BY <3>1, <3>2
  <2>4. QED  BY <1>1, <2>2, <2>3
<1>8. QED  BY <1>3, <1>6, <1>7 DEF MovedFacts

(* ... and the texts behind them: those of the records moved, backwards.    *)
TextsMoved(T, U, k, l, W) ==
  /\ W \in [0..(k + l) -> Text]
  /\ \A i \in 0..k : W[i] = T[k - i]
  /\ \A i \in 0..l : W[k + i] = U[i]

LEMMA TextsMove ==
  ASSUME NEW n \in Nat, NEW T \in [0..n -> Text], NEW l \in Nat, NEW U \in [0..l -> Text],
         NEW k \in 0..n, U[0] = T[0]
  PROVE  \E W : TextsMoved(T, U, k, l, W)
<1> DEFINE W == [i \in 0..(k + l) |-> IF i <= k THEN T[k - i] ELSE U[i - k]]
<1>1. \A i \in 0..k : i \in 0..(k + l) /\ k - i \in 0..n  OBVIOUS
<1>2. \A i \in 0..(k + l) : ~(i <= k) => i - k \in 0..l  OBVIOUS
<1>3. W \in [0..(k + l) -> Text]
  <2>1. ASSUME NEW i \in 0..(k + l)
        PROVE  (IF i <= k THEN T[k - i] ELSE U[i - k]) \in Text
    BY <1>1, <1>2
  <2>2. QED  BY <2>1
<1>4. \A i \in 0..k : W[i] = T[k - i]  BY <1>1
<1>5. ASSUME NEW i \in 0..l  PROVE W[k + i] = U[i]
  <2>1. CASE i = 0
    <3>1. W[k] = T[0]
      <4>1. k \in 0..(k + l) /\ k - k = 0  OBVIOUS
      <4>2. QED  BY <4>1
    <3>2. k + i = k  BY <2>1
    <3>3. QED  BY <2>1, <3>1, <3>2
  <2>2. CASE i # 0
    <3>1. k + i \in 0..(k + l) /\ ~(k + i <= k) /\ (k + i) - k = i  BY <2>2
    <3>2. QED  BY <3>1
  <2>3. QED  BY <2>1, <2>2
<1> HIDE DEF W
<1>6. TextsMoved(T, U, k, l, W)  BY <1>3, <1>4, <1>5 DEF TextsMoved
<1>7. QED  BY <1>6

(* The list an undo or a redo leaves. *)
LEMMA RestIs ==
  ASSUME NEW list \in Seq(Records), NEW k \in 1..Len(list),
         NEW rest, rest = SubSeq(list, k + 1, Len(list))
  PROVE  /\ rest \in Seq(Records) /\ Len(rest) = Len(list) - k
         /\ \A i \in 1..Len(rest) : rest[i] = list[i + k]
<1>1. Len(list) \in Nat /\ k \in Nat /\ k + 1 \in 1..(Len(list) + 1)  BY ListElements
<1>2. rest \in Seq(Records) /\ Len(rest) = Len(list) - k
  <2>1. rest \in Seq(Records) /\ Len(rest) = Len(list) - (k + 1) + 1
    BY <1>1
  <2>2. QED  BY <1>1, <2>1
<1>3. ASSUME NEW i \in 1..Len(rest)  PROVE rest[i] = list[i + k]
  BY <1>1, <1>2
<1>4. QED  BY <1>2, <1>3

LEMMA UndoBelow ==
  ASSUME NEW list, UndoList(list), \A i \in 1..Len(list) : ~list[i].append,
         NEW T, UndoTexts(list, T), NEW base, T[Len(list)] \in base,
         NEW k \in 1..Len(list),
         NEW rest, rest = SubSeq(list, k + 1, Len(list))
  PROVE  UndoList(rest) /\ UndoFits(rest, T[k], base)
<1>1. list \in Seq(Records) /\ Len(list) \in Nat /\ k \in Nat  BY ListElements DEF UndoList
<1>2. /\ rest \in Seq(Records) /\ Len(rest) = Len(list) - k
      /\ \A i \in 1..Len(rest) : rest[i] = list[i + k]
  BY <1>1, RestIs
<1>3. rest # <<>> => ~rest[Len(rest)].paired
  <2>1. HAVE rest # <<>>
  <2>2. Len(rest) \in Nat /\ Len(rest) > 0  BY <1>2, <2>1, ListElements
  <2>3. Len(rest) \in 1..Len(rest) /\ Len(rest) + k = Len(list) /\ list # <<>>
    BY <1>1, <1>2, <2>2
  <2>4. rest[Len(rest)] = list[Len(list)]  BY <1>2, <2>3
  <2>5. QED  BY <2>3, <2>4 DEF UndoList
<1>4. \A i \in 2..Len(rest) : ~rest[i].append
  <2>1. TAKE i \in 2..Len(rest)
  <2>2. i \in 1..Len(rest) /\ i + k \in 1..Len(list)  BY <1>1, <1>2
  <2>3. QED  BY <1>2, <2>2
<1>5. UndoFits(rest, T[k], base)
  <2>1. \A i \in 1..Len(rest) : Alike(list[i + k], rest[i])  BY <1>2 DEF Alike
  <2>2. k \in 0..Len(list)  BY <1>1
  <2>3. list \in Seq(Records) /\ rest \in Seq(Records) /\ Len(rest) = Len(list) - k
    BY <1>1, <1>2
  <2>4. PICK R : /\ UndoTexts(rest, R) /\ R[0] = T[k] /\ R[Len(rest)] = T[Len(list)]
                 /\ Below(R, T, k, Len(rest))
    BY <2>1, <2>2, <2>3, TextsBelow
  <2>5. QED  BY <2>4 DEF UndoFits
<1>6. QED  BY <1>2, <1>3, <1>4, <1>5 DEF UndoList

LEMMA RedoBelow ==
  ASSUME NEW list, RedoList(list), NEW T, RedoTexts(list, T),
         NEW k \in 1..Len(list), k = Len(list) \/ ~list[k + 1].paired,
         NEW rest, rest = SubSeq(list, k + 1, Len(list))
  PROVE  /\ RedoList(rest) /\ RedoFits(rest, T[k])
         /\ \E R : RedoTexts(rest, R) /\ R[0] = T[k] /\ Below(R, T, k, Len(rest))
<1>1. list \in Seq(Records) /\ Len(list) \in Nat /\ k \in Nat  BY ListElements DEF RedoList
<1>2. /\ rest \in Seq(Records) /\ Len(rest) = Len(list) - k
      /\ \A i \in 1..Len(rest) : rest[i] = list[i + k]
  BY <1>1, RestIs
<1>3. rest # <<>> => ~rest[1].paired
  <2>1. HAVE rest # <<>>
  <2>2. Len(rest) \in Nat /\ Len(rest) > 0  BY <1>2, <2>1, ListElements
  <2>3. 1 \in 1..Len(rest) /\ 1 + k = k + 1 /\ k # Len(list)  BY <1>1, <1>2, <2>2
  <2>4. rest[1] = list[k + 1]  BY <1>2, <2>3
  <2>5. QED  BY <2>3, <2>4
<1>4. \A i \in 1..Len(rest) : ~rest[i].append
  <2>1. TAKE i \in 1..Len(rest)
  <2>2. i + k \in 1..Len(list)  BY <1>1, <1>2
  <2>3. QED  BY <1>2, <2>2 DEF RedoList
<1> DEFINE R == [i \in 0..Len(rest) |-> T[i + k]]
<1>5. T \in [0..Len(list) -> Text]  BY DEF RedoTexts
<1>6. \A i \in 0..Len(rest) : i + k \in 0..Len(list)  BY <1>1, <1>2
<1>7. R \in [0..Len(rest) -> Text]  BY <1>5, <1>6
<1>8. ASSUME NEW i \in 1..Len(rest)
      PROVE  /\ Makes(rest[i], R[i - 1], R[i])
             /\ i = Len(rest) \/ ~rest[i + 1].paired => Terminated(R[i])
  <2>1. PICK j \in 1..Len(list) : j = i + k
    <3>1. i + k \in 1..Len(list)  BY <1>1, <1>2
    <3>2. QED  BY <3>1
  <2>2. i - 1 \in 0..Len(rest) /\ (i - 1) + k = j - 1 /\ i \in 0..Len(rest)  BY <1>1, <1>2, <2>1
  <2>3. R[i] = T[j] /\ R[i - 1] = T[j - 1]  BY <2>1, <2>2
  <2>4. rest[i] = list[j]  BY <1>2, <2>1
  <2>5. /\ Makes(list[j], T[j - 1], T[j])
        /\ j = Len(list) \/ ~list[j + 1].paired => Terminated(T[j])
    BY DEF RedoTexts
  <2>6. i = Len(rest) => j = Len(list)  BY <1>1, <1>2, <2>1
  <2>7. i # Len(rest) => rest[i + 1] = list[j + 1]
    <3>1. HAVE i # Len(rest)
    <3>2. i + 1 \in 1..Len(rest) /\ (i + 1) + k = j + 1  BY <1>1, <1>2, <2>1, <3>1
    <3>3. QED  BY <1>2, <3>2
  <2> HIDE DEF R
  <2>8. QED  BY <2>3, <2>4, <2>5, <2>6, <2>7
<1>9. R[0] = T[k]
  <2>1. 0 \in 0..Len(rest) /\ 0 + k = k  BY <1>1, <1>2
  <2>2. QED  BY <2>1
<1>12. Below(R, T, k, Len(rest))  BY DEF Below
<1> HIDE DEF R
<1>10. RedoTexts(rest, R)  BY <1>7, <1>8 DEF RedoTexts
<1>11. QED  BY <1>2, <1>3, <1>4, <1>9, <1>10, <1>12 DEF RedoList, RedoFits

(* A step undone is one to redo. *)
LEMMA RedoGrows ==
  ASSUME NEW list, UndoList(list), NEW T, UndoTexts(list, T), Terminated(T[0]),
         NEW to, RedoList(to), NEW U, RedoTexts(to, U), U[0] = T[0],
         NEW k \in 1..Len(list), ~list[k].paired,
         NEW n, n = Moved(list, to, k)
  PROVE  /\ RedoList(n) /\ RedoFits(n, T[k])
         /\ \E W : RedoTexts(n, W) /\ W[0] = T[k] /\ TextsMoved(T, U, k, Len(to), W)
<1>1. list \in Seq(Records) /\ Len(list) \in Nat /\ k \in Nat /\ to \in Seq(Records)
      /\ Len(to) \in Nat /\ \A i \in 1..Len(to) : ~to[i].append
  BY ListElements DEF UndoList, RedoList
<1>2. /\ n \in Seq(Records) /\ Len(n) = k + Len(to)
      /\ \A i \in 1..k : Alike(list[k + 1 - i], n[i])
      /\ \A i \in 1..Len(to) : n[k + i] = to[i]
      /\ \A i \in 1..Len(n) : ~n[i].append
  <2>1. MovedFacts(list, to, k, n)  BY <1>1, ListMoved
  <2>2. QED  BY <2>1 DEF MovedFacts
<1>3. ~n[1].paired
  <2>1. 1 \in 1..k /\ k + 1 - 1 = k  BY <1>1
  <2>2. Alike(list[k], n[1])  BY <1>2, <2>1
  <2>3. QED  BY <2>2 DEF Alike
<1>5. PICK W : TextsMoved(T, U, k, Len(to), W)
  <2>1. T \in [0..Len(list) -> Text] /\ U \in [0..Len(to) -> Text] /\ k \in 0..Len(list)
    BY <1>1 DEF UndoTexts, RedoTexts
  <2>2. QED  BY <1>1, <2>1, TextsMove
<1>6. /\ W \in [0..Len(n) -> Text]
      /\ \A i \in 0..k : W[i] = T[k - i]
      /\ \A i \in 0..Len(to) : W[k + i] = U[i]
  BY <1>2, <1>5 DEF TextsMoved
<1>7. ASSUME NEW i \in 1..Len(n)
      PROVE  /\ Makes(n[i], W[i - 1], W[i])
             /\ i = Len(n) \/ ~n[i + 1].paired => Terminated(W[i])
  <2>1. CASE i <= k
    <3>1. PICK j \in 1..Len(list) : j = k + 1 - i
      <4>1. k + 1 - i \in 1..Len(list)  BY <1>1, <1>2, <2>1
      <4>2. QED  BY <4>1
    <3>2. i \in 0..k /\ i - 1 \in 0..k /\ i \in 1..k /\ k - i = j - 1 /\ k - (i - 1) = j
      BY <1>1, <1>2, <2>1, <3>1
    <3>3. W[i] = T[j - 1] /\ W[i - 1] = T[j]  BY <1>6, <3>2
    <3>4. Makes(list[j], T[j], T[j - 1])  BY DEF UndoTexts
    <3>5. Alike(list[j], n[i])  BY <1>2, <3>1, <3>2
    <3>6. Makes(n[i], W[i - 1], W[i])  BY <3>3, <3>4, <3>5, AlikeMakes
    <3>7. ASSUME i = Len(n) \/ ~n[i + 1].paired  PROVE Terminated(W[i])
      <4>1. CASE j = 1  BY <3>3, <4>1
      <4>2. CASE j # 1
        <5>1. PICK l \in 1..Len(list) : l = j - 1
          <6>1. j - 1 \in 1..Len(list)  BY <4>2
          <6>2. QED  BY <6>1
        <5>2. i + 1 \in 1..k /\ k + 1 - (i + 1) = l /\ i # Len(n)
          BY <1>1, <1>2, <3>1, <3>2, <5>1, <4>2
        <5>3. Alike(list[l], n[i + 1])  BY <1>2, <5>2
        <5>4. ~list[l].paired  BY <3>7, <5>2, <5>3 DEF Alike
        <5>5. Terminated(T[l])  BY <5>4 DEF UndoTexts
        <5>6. QED  BY <3>3, <5>1, <5>5
      <4>3. QED  BY <4>1, <4>2
    <3>8. QED  BY <3>6, <3>7
  <2>2. CASE i > k
    <3>1. PICK j \in 1..Len(to) : i = k + j
      <4>1. i - k \in 1..Len(to) /\ i = k + (i - k)  BY <1>1, <1>2, <2>2
      <4>2. QED  BY <4>1
    <3>2. j \in 0..Len(to) /\ j - 1 \in 0..Len(to) /\ i - 1 = k + (j - 1)  BY <1>1, <3>1
    <3>3. W[i] = U[j] /\ W[i - 1] = U[j - 1]  BY <1>6, <3>1, <3>2
    <3>4. n[i] = to[j]  BY <1>2, <3>1
    <3>5. /\ Makes(to[j], U[j - 1], U[j])
          /\ j = Len(to) \/ ~to[j + 1].paired => Terminated(U[j])
      BY DEF RedoTexts
    <3>6. i = Len(n) => j = Len(to)  BY <1>1, <1>2, <3>1
    <3>7. j # Len(to) => n[i + 1] = to[j + 1]
      <4>1. HAVE j # Len(to)
      <4>2. j + 1 \in 1..Len(to) /\ i + 1 = k + (j + 1)  BY <1>1, <3>1, <4>1
      <4>3. QED  BY <1>2, <4>2
    <3>8. QED  BY <3>3, <3>4, <3>5, <3>6, <3>7
  <2>3. QED  BY <1>1, <1>2, <2>1, <2>2
<1>8. W[0] = T[k]
  <2>1. 0 \in 0..k /\ k - 0 = k  BY <1>1
  <2>2. QED  BY <1>6, <2>1
<1>9. RedoTexts(n, W)  BY <1>6, <1>7 DEF RedoTexts
<1>10. QED  BY <1>2, <1>3, <1>5, <1>8, <1>9 DEF RedoList, RedoFits

(* A step redone is one to undo. *)
LEMMA UndoGrows ==
  ASSUME NEW list, RedoList(list), NEW T, RedoTexts(list, T), Terminated(T[0]),
         NEW to, UndoList(to), \A i \in 1..Len(to) : ~to[i].append,
         NEW U, UndoTexts(to, U), U[0] = T[0], NEW base, U[Len(to)] \in base,
         NEW k \in 1..Len(list),
         NEW n, n = Moved(list, to, k)
  PROVE  /\ UndoList(n) /\ UndoFits(n, T[k], base)
         /\ \E W : UndoTexts(n, W) /\ W[0] = T[k] /\ TextsMoved(T, U, k, Len(to), W)
<1>1. list \in Seq(Records) /\ Len(list) \in Nat /\ k \in Nat /\ to \in Seq(Records)
      /\ Len(to) \in Nat
  BY ListElements DEF UndoList, RedoList
<1>2. /\ n \in Seq(Records) /\ Len(n) = k + Len(to)
      /\ \A i \in 1..k : Alike(list[k + 1 - i], n[i])
      /\ \A i \in 1..Len(to) : n[k + i] = to[i]
      /\ \A i \in 1..Len(n) : ~n[i].append
  <2>1. MovedFacts(list, to, k, n)  BY <1>1, ListMoved
  <2>2. QED  BY <2>1 DEF MovedFacts
<1>3. ~n[Len(n)].paired
  <2>1. CASE Len(to) = 0
    <3>1. k \in 1..k /\ k + 1 - k = 1 /\ Len(n) = k  BY <1>1, <1>2, <2>1
    <3>2. Alike(list[1], n[k])  BY <1>2, <3>1
    <3>3. ~list[1].paired
      <4>1. list # <<>>  BY <1>1, ListElements
      <4>2. QED  BY <4>1 DEF RedoList
    <3>4. QED  BY <3>1, <3>2, <3>3 DEF Alike
  <2>2. CASE Len(to) # 0
    <3>1. Len(to) \in 1..Len(to) /\ to # <<>>  BY <1>1, <2>2
    <3>2. n[Len(n)] = to[Len(to)]  BY <1>2, <3>1
    <3>3. QED  BY <3>1, <3>2 DEF UndoList
  <2>3. QED  BY <2>1, <2>2
<1>5. PICK W : TextsMoved(T, U, k, Len(to), W)
  <2>1. T \in [0..Len(list) -> Text] /\ U \in [0..Len(to) -> Text] /\ k \in 0..Len(list)
    BY <1>1 DEF UndoTexts, RedoTexts
  <2>2. QED  BY <1>1, <2>1, TextsMove
<1>6. /\ W \in [0..Len(n) -> Text]
      /\ \A i \in 0..k : W[i] = T[k - i]
      /\ \A i \in 0..Len(to) : W[k + i] = U[i]
  BY <1>2, <1>5 DEF TextsMoved
<1>7. ASSUME NEW i \in 1..Len(n)
      PROVE  /\ Makes(n[i], W[i], W[i - 1])
             /\ ~n[i].paired => Terminated(W[i])
  <2>1. CASE i <= k
    <3>1. PICK j \in 1..Len(list) : j = k + 1 - i
      <4>1. k + 1 - i \in 1..Len(list)  BY <1>1, <1>2, <2>1
      <4>2. QED  BY <4>1
    <3>2. i \in 0..k /\ i - 1 \in 0..k /\ i \in 1..k /\ k - i = j - 1 /\ k - (i - 1) = j
      BY <1>1, <1>2, <2>1, <3>1
    <3>3. W[i] = T[j - 1] /\ W[i - 1] = T[j]  BY <1>6, <3>2
    <3>4. Makes(list[j], T[j - 1], T[j])  BY DEF RedoTexts
    <3>5. Alike(list[j], n[i])  BY <1>2, <3>1, <3>2
    <3>6. Makes(n[i], W[i], W[i - 1])  BY <3>3, <3>4, <3>5, AlikeMakes
    <3>7. ASSUME ~n[i].paired  PROVE Terminated(W[i])
      <4>1. CASE j = 1  BY <3>3, <4>1
      <4>2. CASE j # 1
        <5>1. PICK l \in 1..Len(list) : l = j - 1 /\ l + 1 = j
          <6>1. j - 1 \in 1..Len(list) /\ (j - 1) + 1 = j  BY <4>2
          <6>2. QED  BY <6>1
        <5>2. ~list[l + 1].paired  BY <3>5, <3>7, <5>1 DEF Alike
        <5>3. Terminated(T[l])  BY <5>2 DEF RedoTexts
        <5>4. QED  BY <3>3, <5>1, <5>3
      <4>3. QED  BY <4>1, <4>2
    <3>8. QED  BY <3>6, <3>7
  <2>2. CASE i > k
    <3>1. PICK j \in 1..Len(to) : i = k + j
      <4>1. i - k \in 1..Len(to) /\ i = k + (i - k)  BY <1>1, <1>2, <2>2
      <4>2. QED  BY <4>1
    <3>2. j \in 0..Len(to) /\ j - 1 \in 0..Len(to) /\ i - 1 = k + (j - 1)  BY <1>1, <3>1
    <3>3. W[i] = U[j] /\ W[i - 1] = U[j - 1]  BY <1>6, <3>1, <3>2
    <3>4. n[i] = to[j]  BY <1>2, <3>1
    <3>5. Makes(to[j], U[j], U[j - 1]) /\ (~to[j].paired => Terminated(U[j]))
      BY DEF UndoTexts
    <3>6. QED  BY <3>3, <3>4, <3>5
  <2>3. QED  BY <1>1, <1>2, <2>1, <2>2
<1>8. W[0] = T[k] /\ W[Len(n)] = U[Len(to)]
  <2>1. 0 \in 0..k /\ k - 0 = k /\ Len(to) \in 0..Len(to)  BY <1>1
  <2>2. QED  BY <1>2, <1>6, <2>1
<1>9. UndoTexts(n, W)  BY <1>6, <1>7 DEF UndoTexts
<1>10. \A i \in 2..Len(n) : ~n[i].append
  <2>1. Len(n) \in Nat  BY <1>1, <1>2
  <2>2. \A i \in 2..Len(n) : i \in 1..Len(n)  BY <2>1
  <2>3. QED  BY <1>2, <2>2
<1>11. QED  BY <1>2, <1>3, <1>5, <1>8, <1>9, <1>10 DEF UndoList, UndoFits

-----------------------------------------------------------------------------
(* Undo and redo *)

Leads(list, T, is_redo) ==
  \A i \in 1..Len(list) : IF is_redo THEN Makes(list[i], T[i - 1], T[i])
                                    ELSE Makes(list[i], T[i], T[i - 1])

LEMMA StepsReplayed ==
  ASSUME NEW m, Sound(m), NEW list \in Seq(Records), Len(list) \in Nat,
         NEW T \in [0..Len(list) -> Text], T[0] = m.rows,
         NEW is_redo \in BOOLEAN, Leads(list, T, is_redo),
         NEW k \in 1..Len(list), NEW n, n = ReplayAll(m, list, k, is_redo)
  PROVE  Sound(n) /\ n.rows = T[k] /\ Follows(m, n)
<1>1. PICK S : S = [i \in 0..k |-> T[i]]  OBVIOUS
<1>2. k \in Nat /\ k <= Len(list) /\ \A i \in 0..k : i \in 0..Len(list) /\ S[i] = T[i]
  BY <1>1
<1>3. S \in [0..k -> Text] /\ S[0] = m.rows /\ S[k] = T[k]
  <2>1. 0 \in 0..k /\ k \in 0..k  BY <1>2
  <2>2. \A i \in 0..k : T[i] \in Text  BY <1>2
  <2>3. S \in [0..k -> Text]  BY <1>1, <2>2
  <2>4. QED  BY <1>2, <2>1, <2>3
<1>4. ASSUME NEW i \in 1..k
      PROVE  Step(list[i], list[i].delete = is_redo, S[i - 1], S[i])
  <2>1. i \in 1..Len(list) /\ i \in 0..k /\ i - 1 \in 0..k  BY <1>2
  <2>2. S[i] = T[i] /\ S[i - 1] = T[i - 1]  BY <1>2, <2>1
  <2>3. IF is_redo THEN Makes(list[i], S[i - 1], S[i]) ELSE Makes(list[i], S[i], S[i - 1])
    BY <2>1, <2>2 DEF Leads
  <2>4. list[i].delete \in BOOLEAN
    <3>1. list[i] \in Records  BY <2>1
    <3>2. QED  BY <3>1, RecordFields
  <2>5. QED  BY <2>3, <2>4 DEF Makes, Step
<1>5. StepsAlong(m, list, S, k, is_redo)  BY <1>2, <1>3, <1>4 DEF StepsAlong
<1>6. Sound(n) /\ n.rows = S[k] /\ Follows(m, n)  BY <1>5, ReplayedAll
<1>7. QED  BY <1>3, <1>6

(* An undo goes back k records, to the end of a step, whatever texts lie    *)
(* behind the list.                                                         *)
GoesBack(list, T, k, m) ==
  /\ UndoList(list) /\ Len(list) = Len(undo) /\ Len(list) \in Nat /\ list \in Seq(Records)
  /\ \A i \in 1..Len(list) : ~list[i].append
  /\ UndoTexts(list, T)
  /\ k \in 1..Len(list) /\ ~list[k].paired
  /\ \A j \in 1..(k - 1) : list[j].paired
  /\ Sound(m) /\ m.rows = T[k] /\ Follows(Current, m)

LEMMA UndoReaches ==
  ASSUME Inv, undo # <<>>, NEW T, UndoTexts(undo, T), T[0] = rows,
         NEW list, list = UndoCloseRun(undo), NEW k, k = UndoLength(list),
         NEW is_redo \in BOOLEAN, is_redo = FALSE, NEW m, m = ReplayAll(Current, list, k, is_redo)
  PROVE  GoesBack(list, T, k, m)
<1>1. UndoList(undo) /\ UndoFits(undo, rows, Base) /\ is_redo \in BOOLEAN  BY DEF Inv
<1>2. /\ UndoList(list) /\ Len(list) = Len(undo)
      /\ \A i \in 1..Len(list) : ~list[i].append
  BY <1>1, CloseKeeps
<1>3. UndoTexts(list, T)  BY <1>1, CloseTexts
<1>4. list # <<>> /\ list \in Seq(Records) /\ Len(list) \in Nat
  <2>1. undo \in Seq(Records) /\ list \in Seq(Records)  BY <1>1, <1>2 DEF UndoList
  <2>2. Len(undo) > 0  BY <2>1, ListElements
  <2>3. QED  BY <1>2, <2>1, <2>2, ListElements
<1>5. k \in 1..Len(list) /\ ~list[k].paired /\ \A j \in 1..(k - 1) : list[j].paired
  BY <1>2, <1>4, UndoGoes
<1>6. Sound(m) /\ m.rows = T[k] /\ Follows(Current, m)
  <2>1. Sound(Current) /\ T[0] = Current.rows  BY <1>1, CurrentTraced DEF Traced
  <2>2. Leads(list, T, is_redo)  BY <1>3 DEF Leads, UndoTexts
  <2>3. T \in [0..Len(list) -> Text]  BY <1>3 DEF UndoTexts
  <2>4. QED  BY <1>1, <1>4, <1>5, <2>1, <2>2, <2>3, StepsReplayed
<1>7. QED  BY <1>2, <1>3, <1>4, <1>5, <1>6 DEF GoesBack

(* A redo goes on k records, to the end of a step.                          *)
GoesOn(T, k, m) ==
  /\ redo \in Seq(Records) /\ Len(redo) \in Nat /\ RedoList(redo)
  /\ k \in 1..Len(redo) /\ (k = Len(redo) \/ ~redo[k + 1].paired)
  /\ \A j \in 2..k : redo[j].paired
  /\ Sound(m) /\ m.rows = T[k] /\ Follows(Current, m)

LEMMA RedoReaches ==
  ASSUME Inv, redo # <<>>, NEW T, RedoTexts(redo, T), T[0] = rows,
         NEW k, k = RedoLength(redo),
         NEW is_redo \in BOOLEAN, is_redo = TRUE, NEW m, m = ReplayAll(Current, redo, k, is_redo)
  PROVE  GoesOn(T, k, m)
<1>1. RedoList(redo) /\ UndoFits(undo, rows, Base) /\ is_redo \in BOOLEAN  BY DEF Inv
<1>2. redo \in Seq(Records) /\ Len(redo) \in Nat  BY <1>1, ListElements DEF RedoList
<1>3. /\ k \in 1..Len(redo) /\ (k = Len(redo) \/ ~redo[k + 1].paired)
      /\ \A j \in 2..k : redo[j].paired
  BY <1>1, RedoGoes
<1>4. Sound(m) /\ m.rows = T[k] /\ Follows(Current, m)
  <2>1. Sound(Current) /\ T[0] = Current.rows  BY <1>1, CurrentTraced DEF Traced
  <2>2. Leads(redo, T, is_redo)  BY DEF Leads, RedoTexts
  <2>3. T \in [0..Len(redo) -> Text]  BY DEF RedoTexts
  <2>4. QED  BY <1>1, <1>2, <1>3, <2>1, <2>2, <2>3, StepsReplayed
<1>5. QED  BY <1>1, <1>2, <1>3, <1>4 DEF GoesOn

LEMMA UndoKeeps ==
  ASSUME Inv, DoUndo, undo # <<>>
  PROVE  Inv' /\ KeepsOrder
<1>1. PICK list : list = UndoCloseRun(undo)  OBVIOUS
<1>2. PICK k : k = UndoLength(list)  OBVIOUS
<1>3. PICK is_redo \in BOOLEAN : is_redo = FALSE  OBVIOUS
<1>4. PICK m : m = ReplayAll(Current, list, k, is_redo)  OBVIOUS
<1>5. /\ rows' = m.rows /\ tracked' = m.tracked /\ views' = m.views
      /\ undo' = UndoCloseRun(SubSeq(list, k + 1, Len(list)))
      /\ redo' = Moved(list, redo, k)
      /\ point' = IF list[k].delete THEN list[k].end ELSE list[k].start
      /\ dirty' = IF list[k].paired THEN internal_mod ELSE TRUE
      /\ internal_mod' = internal_mod /\ read_only' = read_only /\ disk' = disk
  BY <1>1, <1>2, <1>3, <1>4 DEF DoUndo
<1>6. UndoList(undo) /\ UndoFits(undo, rows, Base) /\ RedoList(redo) /\ RedoFits(redo, rows)
      /\ Terminated(rows) /\ rows \in Text
  BY DEF Inv, FinalNewline, TypeOK
<1>8. PICK T : UndoTexts(undo, T) /\ T[0] = rows /\ T[Len(undo)] \in Base
  BY <1>6 DEF UndoFits
<1>9. /\ UndoList(list) /\ Len(list) = Len(undo) /\ Len(list) \in Nat /\ list \in Seq(Records)
      /\ \A i \in 1..Len(list) : ~list[i].append
      /\ UndoTexts(list, T)
      /\ k \in 1..Len(list) /\ ~list[k].paired
      /\ Sound(m) /\ m.rows = T[k] /\ Follows(Current, m)
  <2>1. undo # <<>> /\ UndoTexts(undo, T) /\ T[0] = rows  BY <1>8
  <2>2. /\ list = UndoCloseRun(undo) /\ k = UndoLength(list)
        /\ is_redo = FALSE /\ m = ReplayAll(Current, list, k, is_redo)
    BY <1>1, <1>2, <1>3, <1>4
  <2>3. GoesBack(list, T, k, m)  BY <2>1, <2>2, UndoReaches
  <2>4. QED  BY <2>3 DEF GoesBack
<1>11. UndoTexts(list, T) /\ T[0] = rows /\ T[Len(list)] \in Base  BY <1>8, <1>9
<1>12. T \in [0..Len(list) -> Text]  BY <1>9 DEF UndoTexts
<1>13. T[k] \in Text /\ T[k - 1] \in Text /\ Makes(list[k], T[k], T[k - 1]) /\ Terminated(T[k])
  <2>1. k \in 0..Len(list) /\ k - 1 \in 0..Len(list)  BY <1>9
  <2>2. QED  BY <1>9, <1>11, <1>12, <2>1 DEF UndoTexts
<1>15. list[k] \in Records  BY <1>9
<1>16. point' \in Position /\ InText(m.rows, point')
  <2>1. list[k].start \in Position /\ list[k].end \in Position  BY <1>15, RecordFields
  <2>2. CASE list[k].delete
    <3>1. Splice(list[k], T[k], T[k - 1])  BY <1>13, <2>2 DEF Makes
    <3>2. InText(T[k], list[k].end)  BY <1>13, <1>15, <3>1, SpliceReplays
    <3>3. QED  BY <1>5, <1>9, <2>1, <2>2, <3>2
  <2>3. CASE ~list[k].delete
    <3>1. Splice(list[k], T[k - 1], T[k])  BY <1>13, <2>3 DEF Makes
    <3>2. InText(T[k], list[k].start)  BY <1>13, <1>15, <3>1, SpliceReplays
    <3>3. QED  BY <1>5, <1>9, <2>1, <2>3, <3>2
  <2>4. QED  BY <2>2, <2>3
<1>17. RedoList(redo') /\ RedoFits(redo', T[k])
  <2>1. PICK U : RedoTexts(redo, U) /\ U[0] = T[0]  BY <1>6, <1>11 DEF RedoFits
  <2>5. Terminated(T[0])  BY <1>6, <1>11
  <2>2. PICK n : n = Moved(list, redo, k)  OBVIOUS
  <2>3. RedoList(n) /\ RedoFits(n, T[k])
    BY <1>6, <1>9, <1>11, <2>1, <2>2, <2>5, RedoGrows
  <2>4. QED  BY <1>5, <2>2, <2>3
<1>18. UndoList(undo') /\ UndoFits(undo', T[k], Base)
  <2>1. PICK rest : rest = SubSeq(list, k + 1, Len(list))  OBVIOUS
  <2>2. UndoList(rest) /\ UndoFits(rest, T[k], Base)
    BY <1>9, <1>11, <2>1, UndoBelow
  <2>3. PICK closed : closed = UndoCloseRun(rest)  OBVIOUS
  <2>4. UndoList(closed)  BY <2>2, <2>3, CloseKeeps
  <2>5. UndoFits(closed, T[k], Base)  BY <2>2, <2>3, CloseFits
  <2>6. QED  BY <1>5, <2>1, <2>3, <2>4, <2>5
<1>19. Base' = Base  BY <1>5 DEF Base
<1>20. disk' \in Text /\ dirty' \in BOOLEAN /\ internal_mod' \in BOOLEAN /\ read_only' \in BOOLEAN
  BY <1>5, <1>9 DEF Inv, TypeOK
<1>21. CleanMatchesDisk'  BY <1>5, <1>9 DEF CleanMatchesDisk
<1>22. UndoFits(undo', rows', Base') /\ RedoFits(redo', rows') /\ Terminated(m.rows)
  BY <1>5, <1>13, <1>9, <1>17, <1>18, <1>19
<1>23. Inv'
  BY <1>5, <1>9, <1>16, <1>17, <1>18, <1>20, <1>21, <1>22, Settling
<1>24. KeepsOrder  BY <1>5, <1>9, FollowsOrder
<1>25. QED  BY <1>23, <1>24

LEMMA RedoKeeps ==
  ASSUME Inv, DoRedo, redo # <<>>
  PROVE  Inv' /\ KeepsOrder
<1>2. PICK k : k = RedoLength(redo)  OBVIOUS
<1>3. PICK is_redo \in BOOLEAN : is_redo = TRUE  OBVIOUS
<1>4. PICK m : m = ReplayAll(Current, redo, k, is_redo)  OBVIOUS
<1>5. /\ rows' = m.rows /\ tracked' = m.tracked /\ views' = m.views
      /\ undo' = Moved(redo, UndoCloseRun(undo), k)
      /\ redo' = SubSeq(redo, k + 1, Len(redo))
      /\ point' = IF redo[k].delete THEN redo[k].start ELSE redo[k].end
      /\ dirty' = TRUE
      /\ internal_mod' = internal_mod /\ read_only' = read_only /\ disk' = disk
  BY <1>2, <1>3, <1>4 DEF DoRedo
<1>6. UndoList(undo) /\ UndoFits(undo, rows, Base) /\ RedoList(redo) /\ RedoFits(redo, rows)
      /\ Terminated(rows) /\ rows \in Text
  BY DEF Inv, FinalNewline, TypeOK
<1>7. PICK to : to = UndoCloseRun(undo)  OBVIOUS
<1>8. /\ UndoList(to) /\ UndoFits(to, rows, Base)
      /\ \A i \in 1..Len(to) : ~to[i].append
  <2>1. /\ UndoList(to) /\ Len(to) = Len(undo)
        /\ \A i \in 1..Len(undo) : ~to[i].append
    BY <1>6, <1>7, CloseKeeps
  <2>2. UndoFits(to, rows, Base)  BY <1>6, <1>7, CloseFits
  <2>3. QED  BY <2>1, <2>2
<1>11. PICK T : RedoTexts(redo, T) /\ T[0] = rows  BY <1>6 DEF RedoFits
<1>9. /\ redo \in Seq(Records) /\ Len(redo) \in Nat
      /\ k \in 1..Len(redo) /\ (k = Len(redo) \/ ~redo[k + 1].paired)
      /\ Sound(m) /\ m.rows = T[k] /\ Follows(Current, m)
  <2>1. redo # <<>> /\ RedoTexts(redo, T) /\ T[0] = rows  BY <1>11
  <2>2. /\ k = RedoLength(redo) /\ is_redo = TRUE
        /\ m = ReplayAll(Current, redo, k, is_redo)
    BY <1>2, <1>3, <1>4
  <2>3. GoesOn(T, k, m)  BY <2>1, <2>2, RedoReaches
  <2>4. QED  BY <2>3 DEF GoesOn
<1>12. T \in [0..Len(redo) -> Text]  BY <1>11 DEF RedoTexts
<1>13. T[k] \in Text /\ T[k - 1] \in Text /\ Makes(redo[k], T[k - 1], T[k]) /\ Terminated(T[k])
  <2>1. k \in 0..Len(redo) /\ k - 1 \in 0..Len(redo)  BY <1>9
  <2>2. QED  BY <1>9, <1>11, <1>12, <2>1 DEF RedoTexts
<1>15. redo[k] \in Records  BY <1>9
<1>16. point' \in Position /\ InText(m.rows, point')
  <2>1. redo[k].start \in Position /\ redo[k].end \in Position  BY <1>15, RecordFields
  <2>2. CASE redo[k].delete
    <3>1. Splice(redo[k], T[k - 1], T[k])  BY <1>13, <2>2 DEF Makes
    <3>2. InText(T[k], redo[k].start)  BY <1>13, <1>15, <3>1, SpliceReplays
    <3>3. QED  BY <1>5, <1>9, <2>1, <2>2, <3>2
  <2>3. CASE ~redo[k].delete
    <3>1. Splice(redo[k], T[k], T[k - 1])  BY <1>13, <2>3 DEF Makes
    <3>2. InText(T[k], redo[k].end)  BY <1>13, <1>15, <3>1, SpliceReplays
    <3>3. QED  BY <1>5, <1>9, <2>1, <2>3, <3>2
  <2>4. QED  BY <2>2, <2>3
<1>17. RedoList(redo') /\ RedoFits(redo', T[k])
  <2>1. PICK rest : rest = SubSeq(redo, k + 1, Len(redo))  OBVIOUS
  <2>2. RedoList(rest) /\ RedoFits(rest, T[k])
    BY <1>6, <1>9, <1>11, <2>1, RedoBelow
  <2>3. QED  BY <1>5, <2>1, <2>2
<1>18. UndoList(undo') /\ UndoFits(undo', T[k], Base)
  <2>1. PICK U : UndoTexts(to, U) /\ U[0] = T[0] /\ U[Len(to)] \in Base
    BY <1>8, <1>11 DEF UndoFits
  <2>5. Terminated(T[0])  BY <1>6, <1>11
  <2>2. PICK n : n = Moved(redo, to, k)  OBVIOUS
  <2>3. UndoList(n) /\ UndoFits(n, T[k], Base)
    BY <1>6, <1>8, <1>9, <1>11, <2>1, <2>2, <2>5, UndoGrows
  <2>4. QED  BY <1>5, <1>7, <2>2, <2>3
<1>19. Base' = Base  BY <1>5 DEF Base
<1>20. disk' \in Text /\ dirty' \in BOOLEAN /\ internal_mod' \in BOOLEAN /\ read_only' \in BOOLEAN
  BY <1>5 DEF Inv, TypeOK
<1>21. CleanMatchesDisk'  BY <1>5 DEF CleanMatchesDisk
<1>22. UndoFits(undo', rows', Base') /\ RedoFits(redo', rows') /\ Terminated(m.rows)
  BY <1>5, <1>13, <1>9, <1>17, <1>18, <1>19
<1>23. Inv'
  BY <1>5, <1>9, <1>16, <1>17, <1>18, <1>20, <1>21, <1>22, Settling
<1>24. KeepsOrder  BY <1>5, <1>9, FollowsOrder
<1>25. QED  BY <1>23, <1>24

-----------------------------------------------------------------------------
(* The steps that leave the text alone *)

(* Such a step has only the parts it changes to answer for. *)
LEMMA TextKept ==
  ASSUME Inv, rows' = rows,
         tracked' \in [Holder -> Position \cup {NoPoint}],
         views' \in [View -> ViewState], HeldInText',
         point' \in Position, disk' \in Text, dirty' \in BOOLEAN,
         internal_mod' \in BOOLEAN, read_only' \in BOOLEAN, CleanMatchesDisk',
         UndoList(undo'), redo' = redo, UndoFits(undo', rows, Base')
  PROVE  Inv'
<1>1. undo' \in Seq(Record)  BY ListTyped DEF UndoList
<1>2. TypeOK'  BY <1>1 DEF Inv, TypeOK, ViewState
<1>3. FinalNewline' /\ RedoList(redo') /\ RedoFits(redo', rows')
  BY DEF Inv, FinalNewline
<1>4. QED  BY <1>2, <1>3 DEF Inv

LEMMA QuietKeeps ==
  ASSUME Inv,
         \/ DoUndo /\ undo = <<>>
         \/ DoRedo /\ redo = <<>>
         \/ SaveBuffer \/ ToggleReadOnly \/ Remember \/ Look
         \/ UNCHANGED vars
  PROVE  Inv' /\ rows' = rows
<1>1. /\ rows \in Text /\ disk \in Text /\ dirty \in BOOLEAN /\ internal_mod \in BOOLEAN
      /\ read_only \in BOOLEAN /\ point \in Position
      /\ tracked \in [Holder -> Position \cup {NoPoint}] /\ views \in [View -> ViewState]
      /\ HeldInText /\ CleanMatchesDisk
      /\ UndoList(undo) /\ UndoFits(undo, rows, Base)
  BY DEF Inv, TypeOK, ViewState
<1>2. CASE DoUndo /\ undo = <<>>
  <2>1. /\ dirty' = (dirty /\ internal_mod)
        /\ UNCHANGED <<rows, undo, redo, point, tracked, views, internal_mod, read_only, disk>>
    BY <1>2 DEF DoUndo, NothingToUndo
  <2>2. ~internal_mod => rows = disk
    <3>1. HAVE ~internal_mod
    <3>2. Base = {disk}  BY <3>1 DEF Base
    <3>3. UndoFits(undo, rows, {disk})  BY <1>1, <3>2
    <3>4. PICK T : T[0] = rows /\ T[Len(undo)] \in {disk}  BY <3>3 DEF UndoFits
    <3>5. Len(undo) = 0  BY <1>2
    <3>6. QED  BY <3>4, <3>5
  <2>3. CleanMatchesDisk'  BY <1>1, <2>1, <2>2 DEF CleanMatchesDisk
  <2>4. Base' = Base  BY <2>1 DEF Base
  <2>5. UndoFits(undo', rows, Base')  BY <1>1, <2>1, <2>4
  <2>6. HeldInText' /\ dirty' \in BOOLEAN  BY <1>1, <2>1 DEF HeldInText
  <2>7. Inv'  BY <1>1, <2>1, <2>3, <2>5, <2>6, TextKept
  <2>8. QED  BY <2>1, <2>7
<1>3. CASE DoRedo /\ redo = <<>>
  <2>1. /\ undo' = UndoCloseRun(undo)
        /\ UNCHANGED <<rows, redo, point, tracked, views, dirty, internal_mod, read_only, disk>>
    BY <1>3 DEF DoRedo
  <2>2. PICK closed : closed = UndoCloseRun(undo)  OBVIOUS
  <2>3. UndoList(closed)  BY <1>1, <2>2, CloseKeeps
  <2>4. UndoFits(closed, rows, Base)  BY <1>1, <2>2, CloseFits
  <2>5. Base' = Base  BY <2>1 DEF Base
  <2>6. UndoList(undo') /\ UndoFits(undo', rows, Base')  BY <2>1, <2>2, <2>3, <2>4, <2>5
  <2>7. CleanMatchesDisk' /\ HeldInText'  BY <1>1, <2>1 DEF CleanMatchesDisk, HeldInText
  <2>8. Inv'  BY <1>1, <2>1, <2>6, <2>7, TextKept
  <2>9. QED  BY <2>1, <2>8
<1>4. CASE SaveBuffer
  <2>1. /\ dirty' = FALSE /\ internal_mod' = TRUE /\ disk' = rows
        /\ UNCHANGED <<rows, undo, redo, point, tracked, views, read_only>>
    BY <1>4 DEF SaveBuffer
  <2>2. Base' = Text  BY <2>1 DEF Base
  <2>3. UndoFits(undo, rows, Text)
    <3>1. PICK T : UndoTexts(undo, T) /\ T[0] = rows  BY <1>1 DEF UndoFits
    <3>2. Len(undo) \in 0..Len(undo)
      <4>1. Len(undo) \in Nat  BY <1>1, ListElements DEF UndoList
      <4>2. QED  BY <4>1
    <3>3. T[Len(undo)] \in Text  BY <3>1, <3>2 DEF UndoTexts
    <3>4. QED  BY <3>1, <3>3 DEF UndoFits
  <2>4. CleanMatchesDisk' /\ HeldInText'  BY <1>1, <2>1 DEF CleanMatchesDisk, HeldInText
  <2>5. UndoList(undo') /\ UndoFits(undo', rows, Base')  BY <1>1, <2>1, <2>2, <2>3
  <2>6. Inv'  BY <1>1, <2>1, <2>4, <2>5, TextKept
  <2>7. QED  BY <2>1, <2>6
<1>5. CASE ToggleReadOnly
  <2>1. /\ read_only' = ~read_only
        /\ UNCHANGED <<rows, undo, redo, point, tracked, views, dirty, internal_mod, disk>>
    BY <1>5 DEF ToggleReadOnly
  <2>2. Base' = Base  BY <2>1 DEF Base
  <2>3. CleanMatchesDisk' /\ HeldInText'  BY <1>1, <2>1 DEF CleanMatchesDisk, HeldInText
  <2>4. UndoList(undo') /\ UndoFits(undo', rows, Base')  BY <1>1, <2>1, <2>2
  <2>5. Inv'  BY <1>1, <2>1, <2>3, <2>4, TextKept
  <2>6. QED  BY <2>1, <2>5
<1>6. CASE Remember
  <2>1. PICK h \in Holder, p \in Positions(rows) : Hold(h, p)  BY <1>6 DEF Remember
  <2>2. /\ tracked' = [tracked EXCEPT ![h] = p] /\ point' = p
        /\ UNCHANGED <<rows, undo, redo, views, dirty, internal_mod, read_only, disk>>
    BY <2>1 DEF Hold
  <2>3. p \in Position /\ InText(rows, p)  BY <1>1, PositionsAre
  <2>4. tracked' \in [Holder -> Position \cup {NoPoint}]  BY <1>1, <2>2, <2>3
  <2>5. HeldInText'
    <3>1. \A g \in Holder : tracked'[g] = IF g = h THEN p ELSE tracked[g]  BY <1>1, <2>2
    <3>2. QED  BY <1>1, <2>2, <2>3, <3>1 DEF HeldInText
  <2>6. Base' = Base  BY <2>2 DEF Base
  <2>7. CleanMatchesDisk'  BY <1>1, <2>2 DEF CleanMatchesDisk
  <2>8. UndoList(undo') /\ UndoFits(undo', rows, Base')  BY <1>1, <2>2, <2>6
  <2>9. Inv'  BY <1>1, <2>2, <2>3, <2>4, <2>5, <2>7, <2>8, TextKept
  <2>10. QED  BY <2>2, <2>9
<1>7. CASE Look
  <2>1. PICK w \in View, y \in 0..(NumRows(rows) - 1), k \in 0..MaxSkip : Scroll(w, y, k)
    BY <1>7 DEF Look
  <2>2. /\ views' = [views EXCEPT ![w] = [rowoff |-> y, skip |-> k]]
        /\ UNCHANGED <<rows, undo, redo, point, tracked, dirty, internal_mod, read_only, disk>>
    BY <2>1 DEF Scroll
  <2>3. y \in Nat /\ k \in Nat /\ y < NumRows(rows)
    <3>1. NumRows(rows) \in Nat /\ MaxSkip \in Nat
      BY <1>1, TextElements, BoundAssumption DEF NumRows
    <3>2. QED  BY <3>1
  <2>4. PICK v : v = [rowoff |-> y, skip |-> k]  OBVIOUS
  <2>5. v \in ViewState /\ v.rowoff < NumRows(rows)  BY <2>3, <2>4, ViewTyped
  <2>6. views' = [views EXCEPT ![w] = v]  BY <2>2, <2>4
  <2>7. views' \in [View -> ViewState]  BY <1>1, <2>5, <2>6
  <2>8. HeldInText'
    <3>1. \A x \in View : views'[x] = IF x = w THEN v ELSE views[x]  BY <1>1, <2>6
    <3>2. QED  BY <1>1, <2>2, <2>5, <3>1 DEF HeldInText
  <2>9. Base' = Base  BY <2>2 DEF Base
  <2>10. CleanMatchesDisk'  BY <1>1, <2>2 DEF CleanMatchesDisk
  <2>11. UndoList(undo') /\ UndoFits(undo', rows, Base')  BY <1>1, <2>2, <2>9
  <2>12. Inv'  BY <1>1, <2>2, <2>7, <2>8, <2>10, <2>11, TextKept
  <2>13. QED  BY <2>2, <2>12
<1>8. CASE UNCHANGED vars
  <2>1. Base' = Base  BY <1>8 DEF vars, Base
  <2>2. CleanMatchesDisk' /\ HeldInText'  BY <1>1, <1>8 DEF vars, CleanMatchesDisk, HeldInText
  <2>3. UndoList(undo') /\ UndoFits(undo', rows, Base')  BY <1>1, <1>8, <2>1 DEF vars
  <2>4. Inv'  BY <1>1, <1>8, <2>2, <2>3, TextKept DEF vars
  <2>5. QED  BY <1>8, <2>4 DEF vars
<1>9. QED  BY <1>2, <1>3, <1>4, <1>5, <1>6, <1>7, <1>8

-----------------------------------------------------------------------------
(* The invariant *)

LEMMA InitOK == Init => Inv
<1>1. SUFFICES ASSUME Init  PROVE Inv  OBVIOUS
<1>2. rows \in Text /\ Terminated(rows) /\ disk = rows
  BY <1>1, InitTextAssumption DEF Init
<1>3. /\ undo = <<>> /\ redo = <<>> /\ point = At(0, 0)
      /\ tracked = [h \in Holder |-> NoPoint]
      /\ views = [w \in View |-> [rowoff |-> 0, skip |-> 0]]
      /\ dirty = FALSE /\ internal_mod = FALSE /\ read_only = FALSE
  BY <1>1 DEF Init
<1>4. point \in Position /\ InText(rows, point)
  <2>1. 0 \in Nat /\ NumRows(rows) \in Nat /\ 0 < NumRows(rows)
    BY <1>2, TextElements DEF NumRows
  <2>2. Size(rows, 0) \in Nat  BY <1>2, <2>1, RowSize
  <2>3. point \in Position /\ point.x = 0 /\ point.y = 0  BY <1>3, <2>1, AtPosition
  <2>4. QED  BY <2>1, <2>2, <2>3 DEF InText
<1>5. PICK v : v = [rowoff |-> 0, skip |-> 0]  OBVIOUS
<1>6. v \in ViewState /\ v.rowoff < NumRows(rows)
  <2>1. 0 \in Nat /\ 0 < NumRows(rows)  BY <1>2, TextElements DEF NumRows
  <2>2. QED  BY <1>5, <2>1, ViewTyped
<1>7. views = [w \in View |-> v]  BY <1>3, <1>5
<1>8. views \in [View -> ViewState] /\ \A w \in View : views[w].rowoff < NumRows(rows)
  BY <1>6, <1>7
<1>9. TypeOK
  <2>1. <<>> \in Seq(Record)  OBVIOUS
  <2>2. QED  BY <1>2, <1>3, <1>4, <1>8, <2>1 DEF TypeOK, ViewState
<1>10. HeldInText  BY <1>3, <1>4, <1>8 DEF HeldInText
<1>11. UndoList(undo) /\ UndoFits(undo, rows, Base)
  <2>1. Len(<<>>) = 0 /\ <<>> \in Seq(Records)  OBVIOUS
  <2> DEFINE T == [i \in 0..0 |-> rows]
  <2>2. T \in [0..Len(<<>>) -> Text] /\ T[0] = rows /\ T[Len(<<>>)] = rows  BY <1>2, <2>1
  <2> HIDE DEF T
  <2>3. UndoTexts(<<>>, T)  BY <2>1, <2>2 DEF UndoTexts
  <2>4. rows \in Base  BY <1>2, <1>3 DEF Base
  <2>5. UndoFits(<<>>, rows, Base)  BY <2>2, <2>3, <2>4 DEF UndoFits
  <2>6. QED  BY <1>3, <2>1, <2>5 DEF UndoList
<1>12. RedoList(redo) /\ RedoFits(redo, rows)  BY <1>2, <1>3, NothingAhead
<1>13. QED
  BY <1>2, <1>9, <1>10, <1>11, <1>12 DEF Inv, CleanMatchesDisk, FinalNewline

LEMMA NextKeeps == Inv /\ [Next]_vars => Inv' /\ (rows' # rows => KeepsOrder)
<1>1. SUFFICES ASSUME Inv, [Next]_vars  PROVE Inv' /\ (rows' # rows => KeepsOrder)
  OBVIOUS
<1>2. CASE Editing  BY <1>1, <1>2, EditingKeeps
<1>4. CASE DoUndo
  <2>1. CASE undo = <<>>  BY <1>1, <1>4, <2>1, QuietKeeps
  <2>2. CASE undo # <<>>  BY <1>1, <1>4, <2>2, UndoKeeps
  <2>3. QED  BY <2>1, <2>2
<1>5. CASE DoRedo
  <2>1. CASE redo = <<>>  BY <1>1, <1>5, <2>1, QuietKeeps
  <2>2. CASE redo # <<>>  BY <1>1, <1>5, <2>2, RedoKeeps
  <2>3. QED  BY <2>1, <2>2
<1>6. CASE SaveBuffer \/ ToggleReadOnly \/ Remember \/ Look \/ UNCHANGED vars
  BY <1>1, <1>6, QuietKeeps
<1>7. QED  BY <1>1, <1>2, <1>4, <1>5, <1>6 DEF Next, Editing

LEMMA InvHolds == Spec => []Inv
<1>1. Inv /\ [Next]_vars => Inv'  BY NextKeeps
<1>2. QED  BY <1>1, InitOK, PTL DEF Spec

-----------------------------------------------------------------------------
(* Type correctness of the editing state, for every text and payload.       *)
THEOREM TypeCorrect == Spec => []TypeOK
<1>1. Inv => TypeOK  BY DEF Inv
<1>2. QED  BY <1>1, InvHolds, PTL

(* mutate.c's final-newline invariant holds after every command, undo and   *)
(* redo, though single records of a step leave texts that break it.         *)
THEOREM NewlineKept == Spec => []FinalNewline
<1>1. Inv => FinalNewline  BY DEF Inv
<1>2. QED  BY <1>1, InvHolds, PTL

(* A buffer shown as unmodified holds what its file was last known to hold  *)
(* (undo.c doUndo, buffer.c markBufferClean).                               *)
THEOREM CleanIsOnDisk == Spec => []CleanMatchesDisk
<1>1. Inv => CleanMatchesDisk  BY DEF Inv
<1>2. QED  BY <1>1, InvHolds, PTL

(* Marks, ring entries, registers and windows name places of the text after *)
(* any history of edits, undos and redos (adjust.c).                        *)
THEOREM HeldStaysInText == Spec => []HeldInText
<1>1. Inv => HeldInText  BY DEF Inv
<1>2. QED  BY <1>1, InvHolds, PTL

(* An undo and a redo always begin and end at the ends of steps (undo.c     *)
(* doUndo, doRedo and the paired flag).                                     *)
THEOREM StepsWhole == Spec => []PairsWhole
<1>1. Inv => PairsWhole  BY DEF Inv, PairsWhole, UndoList, RedoList
<1>2. QED  BY <1>1, InvHolds, PTL

(* Only the head of the undo list can take in an edit, and a run folds at   *)
(* most UNDO_MERGE_LIMIT of them (undo.c pushUndo, undoMerge).              *)
THEOREM RunsStayClosed == Spec => []RunsClosed
<1>1. ASSUME Inv  PROVE RunsClosed
  <2>1. UndoList(undo) /\ RedoList(redo)  BY <1>1 DEF Inv
  <2>2. \A i \in 1..Len(undo) : undo[i].nmerges <= MergeLimit /\ (undo[i].append => ~undo[i].paired)
    <3>1. TAKE i \in 1..Len(undo)
    <3>2. undo[i] \in Records  BY <2>1 DEF UndoList
    <3>3. QED  BY <3>2, RecordFields
  <2>3. QED  BY <2>1, <2>2 DEF RunsClosed, UndoList, RedoList
<1>2. QED  BY <1>1, InvHolds, PTL

(* What the lists would replay next always fits the text, byte for byte: an *)
(* undo or a redo is never clamped and never lands elsewhere (undo.c        *)
(* undoStep, bulkDelete).                                                   *)
THEOREM ReplaysFit == Spec => []RecordsFitText
<1>1. ASSUME Inv  PROVE RecordsFitText
  <2>0. /\ rows \in Text /\ UndoList(undo) /\ RedoList(redo)
        /\ UndoFits(undo, rows, Base) /\ RedoFits(redo, rows)
    BY <1>1 DEF Inv, TypeOK
  <2>1. ASSUME undo # <<>>  PROVE Fitting(undo[1], ~undo[1].delete)
    <3>1. PICK T : UndoTexts(undo, T) /\ T[0] = rows  BY <2>0 DEF UndoFits
    <3>2. undo \in Seq(Records) /\ Len(undo) \in Nat /\ Len(undo) > 0
      BY <2>0, <2>1, ListElements DEF UndoList
    <3>3. 1 \in 1..Len(undo) /\ 1 \in 0..Len(undo) /\ 1 - 1 = 0  BY <3>2
    <3>4. undo[1] \in Records /\ T[1] \in Text /\ Makes(undo[1], T[1], rows)
      BY <3>1, <3>2, <3>3 DEF UndoTexts
    <3>5. CASE undo[1].delete
      <4>1. Splice(undo[1], T[1], rows)  BY <3>4, <3>5 DEF Makes
      <4>2. InText(rows, undo[1].start)
            /\ undo[1].end = ComputeInsertEnd(undo[1].data, undo[1].start)
        BY <2>0, <3>4, <4>1, SpliceReplays
      <4>3. QED  BY <3>5, <4>2 DEF Fitting
    <3>6. CASE ~undo[1].delete
      <4>1. Splice(undo[1], rows, T[1])  BY <3>4, <3>6 DEF Makes
      <4>2. QED  BY <2>0, <3>4, <4>1, SpliceReplays DEF Fitting
    <3>7. QED  BY <3>5, <3>6
  <2>2. ASSUME redo # <<>>  PROVE Fitting(redo[1], redo[1].delete)
    <3>1. PICK T : RedoTexts(redo, T) /\ T[0] = rows  BY <2>0 DEF RedoFits
    <3>2. redo \in Seq(Records) /\ Len(redo) \in Nat /\ Len(redo) > 0
      BY <2>0, <2>2, ListElements DEF RedoList
    <3>3. 1 \in 1..Len(redo) /\ 1 \in 0..Len(redo) /\ 1 - 1 = 0  BY <3>2
    <3>4. redo[1] \in Records /\ T[1] \in Text /\ Makes(redo[1], rows, T[1])
      BY <3>1, <3>2, <3>3 DEF RedoTexts
    <3>5. CASE redo[1].delete
      <4>1. Splice(redo[1], rows, T[1])  BY <3>4, <3>5 DEF Makes
      <4>2. QED  BY <2>0, <3>4, <4>1, SpliceReplays DEF Fitting
    <3>6. CASE ~redo[1].delete
      <4>1. Splice(redo[1], T[1], rows)  BY <3>4, <3>6 DEF Makes
      <4>2. InText(rows, redo[1].start)
            /\ redo[1].end = ComputeInsertEnd(redo[1].data, redo[1].start)
        BY <2>0, <3>4, <4>1, SpliceReplays
      <4>3. QED  BY <3>6, <4>2 DEF Fitting
    <3>7. QED  BY <3>5, <3>6
  <2>3. QED  BY <2>1, <2>2 DEF RecordsFitText
<1>2. QED  BY <1>1, InvHolds, PTL

(* No edit, undo or redo ever swaps two held positions (adjust.c            *)
(* adjustPoint over all the splices of a step).                             *)
THEOREM OrderKept == Spec => HeldInOrder
<1>1. Inv /\ [Next]_vars => [rows' # rows => KeepsOrder]_vars  BY NextKeeps
<1>2. [rows' # rows => KeepsOrder]_vars =>
        [ rows' # rows =>
            \A h, k \in Holder :
              /\ tracked[h] # NoPoint /\ tracked[k] # NoPoint
              /\ AtOrBefore(tracked[h], tracked[k])
              => AtOrBefore(tracked'[h], tracked'[k]) ]_vars
  BY DEF KeepsOrder
<1>3. QED  BY <1>1, <1>2, InvHolds, PTL DEF Spec, HeldInOrder

-----------------------------------------------------------------------------
(* The steps of a list *)

(* B[1] < B[2] < ... < B[p] are where the steps of a list of l records end, *)
(* E the set of these places.                                               *)
Cuts(E, l, B, p) ==
  /\ p \in Nat /\ l \in Nat /\ B \in [0..p -> 0..l]
  /\ B[0] = 0 /\ B[p] = l
  /\ \A j \in 1..p : B[j - 1] < B[j] /\ B[j] \in E
  /\ \A j \in 1..p, i \in 1..l : B[j - 1] < i /\ i < B[j] => i \notin E

(* S[1], ..., S[p] are the texts at the ends of the steps, nearest first.   *)
Behind(E, l, T, p, S) ==
  \E B : Cuts(E, l, B, p) /\ \A j \in 1..p : S[j] = T[B[j]]

(* One step of n records more in front of l records. *)
Stacked(E, l, n, E2, l2) ==
  /\ l \in Nat /\ n \in Nat /\ n # 0 /\ l2 = l + n
  /\ n \in E2
  /\ \A i \in 1..(n - 1) : i \notin E2
  /\ \A i \in 1..l : (i + n \in E2) <=> (i \in E)

LEMMA StepAdded ==
  ASSUME NEW E, NEW l, NEW n, NEW E2, NEW l2, Stacked(E, l, n, E2, l2),
         NEW T, NEW T2, Below(T, T2, n, l),
         NEW p, NEW S, Behind(E, l, T, p, S),
         NEW q, q = p + 1, NEW S2, S2[1] = T[0], \A j \in 1..p : S2[j + 1] = S[j]
  PROVE  Behind(E2, l2, T2, q, S2)
<1>1. PICK B : Cuts(E, l, B, p) /\ \A j \in 1..p : S[j] = T[B[j]]  BY DEF Behind
<1>2. /\ p \in Nat /\ l \in Nat /\ n \in Nat /\ n # 0 /\ l2 = l + n /\ l2 \in Nat /\ q \in Nat
      /\ \A j \in 0..p : B[j] \in 0..l
      /\ B[0] = 0 /\ B[p] = l
  BY <1>1 DEF Cuts, Stacked
<1> DEFINE C == [j \in 0..q |-> IF j = 0 THEN 0 ELSE B[j - 1] + n]
<1>3. ASSUME NEW j \in 0..p  PROVE j + 1 \in 0..q /\ C[j + 1] = B[j] + n /\ B[j] + n \in 0..l2
  <2>1. j + 1 \in 0..q /\ j + 1 # 0 /\ (j + 1) - 1 = j  BY <1>2
  <2>2. C[j + 1] = B[j] + n  BY <2>1
  <2>3. B[j] \in 0..l  BY <1>2
  <2>4. QED  BY <1>2, <2>1, <2>2, <2>3
<1>4. C[0] = 0 /\ C[q] = l2
  <2>1. 0 \in 0..q /\ p \in 0..p  BY <1>2
  <2>2. C[0] = 0  BY <2>1
  <2>3. C[p + 1] = B[p] + n  BY <1>3, <2>1
  <2> HIDE DEF C
  <2>4. QED  BY <1>2, <2>2, <2>3
<1>5. C \in [0..q -> 0..l2]
  <2>1. ASSUME NEW j \in 0..q  PROVE C[j] \in 0..l2
    <3>1. CASE j = 0  BY <1>2, <1>4, <3>1
    <3>2. CASE j # 0
      <4>1. PICK i \in 0..p : i + 1 = j
        <5>1. j - 1 \in 0..p /\ (j - 1) + 1 = j  BY <1>2, <3>2
        <5>2. QED  BY <5>1
      <4> HIDE DEF C
      <4>2. QED  BY <1>3, <4>1
    <3>3. QED  BY <3>1, <3>2
  <2>2. C = [j \in 0..q |-> C[j]]  OBVIOUS
  <2> HIDE DEF C
  <2>3. QED  BY <2>1, <2>2
<1> HIDE DEF C
<1>6. ASSUME NEW j \in 1..q
      PROVE  /\ C[j - 1] < C[j] /\ C[j] \in E2
             /\ \A i \in 1..l2 : C[j - 1] < i /\ i < C[j] => i \notin E2
             /\ S2[j] = T2[C[j]]
  <2>1. CASE j = 1
    <3>1. C[1] = n /\ C[1 - 1] = 0
      <4>1. 0 \in 0..p  BY <1>2
      <4>2. C[0 + 1] = B[0] + n  BY <1>3, <4>1
      <4>3. QED  BY <1>2, <1>4, <4>2
    <3>2. n \in E2 /\ \A i \in 1..(n - 1) : i \notin E2  BY DEF Stacked
    <3>3. S2[1] = T2[n]
      <4>1. 0 \in 0..l /\ 0 + n = n  BY <1>2
      <4>2. T[0] = T2[0 + n]  BY <4>1 DEF Below
      <4>3. QED  BY <4>1, <4>2
    <3>4. ASSUME NEW i \in 1..l2, 0 < i /\ i < n  PROVE i \notin E2
      <4>1. i \in 1..(n - 1)  BY <1>2, <3>4
      <4>2. QED  BY <3>2, <4>1
    <3>5. 0 < n  BY <1>2
    <3>6. QED  BY <2>1, <3>1, <3>2, <3>3, <3>4, <3>5
  <2>2. CASE j # 1
    <3>1. PICK i \in 1..p : i + 1 = j /\ j - 1 = i
      <4>1. j - 1 \in 1..p /\ (j - 1) + 1 = j  BY <1>2, <2>2
      <4>2. QED  BY <4>1
    <3>2. PICK h \in 0..p : h + 1 = i /\ h = i - 1
      <4>1. i - 1 \in 0..p /\ (i - 1) + 1 = i  BY <1>2
      <4>2. QED  BY <4>1
    <3>3. i \in 0..p /\ B[i] \in 0..l /\ B[h] \in 0..l  BY <1>2, <3>1, <3>2
    <3>4. C[j] = B[i] + n /\ C[j - 1] = B[h] + n
      <4>1. C[i + 1] = B[i] + n /\ C[h + 1] = B[h] + n  BY <1>3, <3>2, <3>3
      <4>2. QED  BY <3>1, <3>2, <4>1
    <3>5. /\ B[h] < B[i] /\ B[i] \in E
          /\ \A x \in 1..l : B[h] < x /\ x < B[i] => x \notin E
      BY <1>1, <3>2 DEF Cuts
    <3>6. \A x \in 1..l : (x + n \in E2) <=> (x \in E)  BY DEF Stacked
    <3>7. B[i] \in 1..l /\ C[j - 1] < C[j]  BY <1>2, <3>3, <3>4, <3>5
    <3>8. C[j] \in E2  BY <3>4, <3>5, <3>6, <3>7
    <3>9. ASSUME NEW x \in 1..l2, C[j - 1] < x, x < C[j]  PROVE x \notin E2
      <4>1. PICK y \in 1..l : y + n = x /\ B[h] < y /\ y < B[i]
        <5>1. x - n \in 1..l /\ (x - n) + n = x /\ B[h] < x - n /\ x - n < B[i]
          BY <1>2, <3>3, <3>4, <3>9
        <5>2. QED  BY <5>1
      <4>2. QED  BY <3>5, <3>6, <4>1
    <3>10. S2[j] = T2[C[j]]
      <4>1. S2[j] = S[i] /\ S[i] = T[B[i]]  BY <1>1, <3>1
      <4>2. T[B[i]] = T2[B[i] + n]  BY <3>3 DEF Below
      <4>3. QED  BY <3>4, <4>1, <4>2
    <3>11. QED  BY <3>7, <3>8, <3>9, <3>10
  <2>3. QED  BY <2>1, <2>2
<1>7. Cuts(E2, l2, C, q)  BY <1>2, <1>4, <1>5, <1>6 DEF Cuts
<1>8. QED  BY <1>6, <1>7 DEF Behind

LEMMA StepTaken ==
  ASSUME NEW E, NEW l, NEW n, NEW E2, NEW l2, Stacked(E, l, n, E2, l2),
         NEW T, NEW T2, Below(T, T2, n, l),
         NEW q, NEW S2, Behind(E2, l2, T2, q, S2),
         NEW S, \A j \in 1..(q - 1) : S[j] = S2[j + 1],
         NEW p, p = q - 1
  PROVE  q \in Nat /\ q # 0 /\ S2[1] = T[0] /\ Behind(E, l, T, p, S)
<1>1. PICK C : Cuts(E2, l2, C, q) /\ \A j \in 1..q : S2[j] = T2[C[j]]  BY DEF Behind
<1>2. /\ q \in Nat /\ l \in Nat /\ n \in Nat /\ n # 0 /\ l2 = l + n /\ l2 \in Nat
      /\ \A j \in 0..q : C[j] \in 0..l2
      /\ C[0] = 0 /\ C[q] = l2
  BY <1>1 DEF Cuts, Stacked
<1>3. q # 0
  <2>1. l2 # 0  BY <1>2
  <2>2. QED  BY <1>2, <2>1
<1>4. p \in Nat /\ q = p + 1  BY <1>2, <1>3
<1>5. C[1] = n
  <2>1. 1 \in 1..q /\ 1 \in 0..q /\ 1 - 1 = 0  BY <1>2, <1>3
  <2>2. C[1] \in 0..l2 /\ 0 < C[1] /\ C[1] \in E2
    <3>1. C[1 - 1] < C[1] /\ C[1] \in E2  BY <1>1, <2>1 DEF Cuts
    <3>2. QED  BY <1>2, <2>1, <3>1
  <2>3. ~(C[1] < n)
    <3>1. SUFFICES ASSUME C[1] < n  PROVE FALSE  OBVIOUS
    <3>2. C[1] \in 1..(n - 1)  BY <1>2, <2>2, <3>1
    <3>3. QED  BY <2>2, <3>2 DEF Stacked
  <2>4. ~(n < C[1])
    <3>1. SUFFICES ASSUME n < C[1]  PROVE FALSE  OBVIOUS
    <3>2. n \in 1..l2 /\ C[1 - 1] < n  BY <1>2, <2>1
    <3>3. n \notin E2  BY <1>1, <2>1, <3>1, <3>2 DEF Cuts
    <3>4. QED  BY <3>3 DEF Stacked
  <2>5. QED  BY <1>2, <2>2, <2>3, <2>4
<1>6. \A j \in 0..p : C[j + 1] >= n
  <2> DEFINE G == { j \in 0..p : C[j + 1] >= n }
  <2>1. 0 \in G  BY <1>2, <1>4, <1>5
  <2>2. ASSUME NEW j \in 0..(p - 1), j \in G  PROVE j + 1 \in G
    <3>1. PICK h \in 1..p : h = j + 1
      <4>1. j + 1 \in 1..p  BY <1>4
      <4>2. QED  BY <4>1
    <3>2. PICK i \in 1..q : i = h + 1 /\ i - 1 = h
      <4>1. h + 1 \in 1..q /\ (h + 1) - 1 = h  BY <1>4
      <4>2. QED  BY <4>1
    <3>3. C[h] >= n  BY <2>2, <3>1
    <3>4. C[h] < C[i]
      <4>1. C[i - 1] < C[i]  BY <1>1 DEF Cuts
      <4>2. QED  BY <3>2, <4>1
    <3>5. h \in 0..q /\ i \in 0..q  BY <1>4
    <3>6. C[h] \in Int /\ C[i] \in Int  BY <1>2, <3>5
    <3>7. C[i] >= n  BY <1>2, <3>3, <3>4, <3>6
    <3>8. QED  BY <3>1, <3>2, <3>7
  <2> HIDE DEF G
  <2>3. \A j \in 0..p : j \in G  BY <1>4, <2>1, <2>2, UpTo
  <2>4. QED  BY <2>3 DEF G
<1> DEFINE B == [j \in 0..p |-> C[j + 1] - n]
<1>7. ASSUME NEW j \in 0..p  PROVE B[j] \in 0..l /\ C[j + 1] = B[j] + n
  <2>1. j + 1 \in 0..q  BY <1>4
  <2>2. C[j + 1] \in 0..l2 /\ C[j + 1] >= n  BY <1>2, <1>6, <2>1
  <2>3. B[j] = C[j + 1] - n  OBVIOUS
  <2> HIDE DEF B
  <2>4. QED  BY <1>2, <2>2, <2>3
<1>8. B \in [0..p -> 0..l]
  <2>1. B = [j \in 0..p |-> B[j]]  OBVIOUS
  <2> HIDE DEF B
  <2>2. QED  BY <1>7, <2>1
<1>9. B[0] = 0 /\ B[p] = l
  <2>1. 0 \in 0..p /\ p \in 0..p /\ 0 + 1 = 1  BY <1>4
  <2>2. B[0] = C[1] - n /\ B[p] = C[p + 1] - n  BY <2>1
  <2> HIDE DEF B
  <2>3. QED  BY <1>2, <1>4, <1>5, <2>2
<1> HIDE DEF B
<1>10. ASSUME NEW j \in 1..p
       PROVE  /\ B[j - 1] < B[j] /\ B[j] \in E
              /\ \A i \in 1..l : B[j - 1] < i /\ i < B[j] => i \notin E
              /\ S[j] = T[B[j]]
  <2>1. PICK i \in 1..q : i = j + 1 /\ i - 1 = j
    <3>1. j + 1 \in 1..q /\ (j + 1) - 1 = j  BY <1>4
    <3>2. QED  BY <3>1
  <2>2. PICK h \in 0..p : h = j - 1 /\ h + 1 = j
    <3>1. j - 1 \in 0..p /\ (j - 1) + 1 = j  BY <1>4
    <3>2. QED  BY <3>1
  <2>3. j \in 0..p  BY <1>4
  <2>4. /\ C[i] = B[j] + n /\ C[i - 1] = B[h] + n /\ B[j] \in 0..l /\ B[h] \in 0..l
    <3>1. C[j + 1] = B[j] + n /\ C[h + 1] = B[h] + n /\ B[j] \in 0..l /\ B[h] \in 0..l
      BY <1>7, <2>2, <2>3
    <3>2. QED  BY <2>1, <2>2, <3>1
  <2>5. /\ C[i - 1] < C[i] /\ C[i] \in E2
        /\ \A x \in 1..l2 : C[i - 1] < x /\ x < C[i] => x \notin E2
    BY <1>1 DEF Cuts
  <2>6. \A x \in 1..l : (x + n \in E2) <=> (x \in E)  BY DEF Stacked
  <2>7. B[h] < B[j] /\ B[j] \in 1..l  BY <1>2, <2>4, <2>5
  <2>8. B[j] \in E  BY <2>4, <2>5, <2>6, <2>7
  <2>9. ASSUME NEW x \in 1..l, B[h] < x, x < B[j]  PROVE x \notin E
    <3>1. x + n \in 1..l2 /\ C[i - 1] < x + n /\ x + n < C[i]  BY <1>2, <2>4, <2>9
    <3>2. QED  BY <2>5, <2>6, <3>1
  <2>10. S[j] = T[B[j]]
    <3>1. j \in 1..(q - 1)  BY <1>4
    <3>2. S[j] = S2[i] /\ S2[i] = T2[C[i]]  BY <1>1, <2>1, <3>1
    <3>3. T[B[j]] = T2[B[j] + n]  BY <2>4 DEF Below
    <3>4. QED  BY <2>4, <3>2, <3>3
  <2>11. QED  BY <2>2, <2>7, <2>8, <2>9, <2>10
<1>11. Cuts(E, l, B, p)  BY <1>2, <1>4, <1>8, <1>9, <1>10 DEF Cuts
<1>12. Behind(E, l, T, p, S)  BY <1>10, <1>11 DEF Behind
<1>13. S2[1] = T[0]
  <2>1. 1 \in 1..q /\ 0 \in 0..l /\ 0 + n = n  BY <1>2, <1>3
  <2>2. S2[1] = T2[C[1]]  BY <1>1, <2>1
  <2>3. T[0] = T2[0 + n]  BY <2>1 DEF Below
  <2>4. QED  BY <1>5, <2>1, <2>2, <2>3
<1>14. QED  BY <1>2, <1>3, <1>12, <1>13

LEMMA NothingBehind ==
  ASSUME NEW T, NEW S
  PROVE  Behind({}, 0, T, 0, S)
<1> DEFINE B == [j \in 0..0 |-> 0]
<1>1. B \in [0..0 -> 0..0] /\ B[0] = 0  OBVIOUS
<1> HIDE DEF B
<1>2. Cuts({}, 0, B, 0)  BY <1>1 DEF Cuts
<1>3. QED  BY <1>2 DEF Behind

LEMMA OneMore ==
  ASSUME NEW E, NEW l, NEW n, NEW E2, NEW l2, Stacked(E, l, n, E2, l2),
         E \subseteq 1..l, E2 \subseteq 1..l2
  PROVE  /\ Cardinality(E) \in Nat /\ Cardinality(E2) = Cardinality(E) + 1
<1>1. l \in Nat /\ n \in Nat /\ n # 0 /\ l2 = l + n  BY DEF Stacked
<1>2. IsFiniteSet(E) /\ Cardinality(E) \in Nat
  <2>1. IsFiniteSet(1..l)  BY <1>1, FS_Interval
  <2>2. IsFiniteSet(E)  BY <2>1, FS_Subset
  <2>3. QED  BY <2>2, FS_CardinalityType
<1> DEFINE F == { i \in E2 : i # n }
           f == [i \in E |-> i + n]
<1>3. \A i \in E : i + n \in F
  <2>1. TAKE i \in E
  <2>2. i \in 1..l /\ i + n # n  BY <1>1
  <2>3. i + n \in E2  BY <2>2 DEF Stacked
  <2>4. QED  BY <2>2, <2>3
<1>4. \A x \in F : \E i \in E : i + n = x
  <2>1. TAKE x \in F
  <2>2. x \in 1..l2 /\ x # n /\ x \in E2  OBVIOUS
  <2>3. ~(x < n)
    <3>1. SUFFICES ASSUME x < n  PROVE FALSE  OBVIOUS
    <3>2. x \in 1..(n - 1)  BY <1>1, <2>2, <3>1
    <3>3. QED  BY <2>2, <3>2 DEF Stacked
  <2>4. PICK i \in 1..l : i + n = x
    <3>1. x - n \in 1..l /\ (x - n) + n = x  BY <1>1, <2>2, <2>3
    <3>2. QED  BY <3>1
  <2>5. i \in E  BY <2>2, <2>4 DEF Stacked
  <2>6. QED  BY <2>4, <2>5
<1>5. f \in Bijection(E, F)
  <2>1. f \in [E -> F]  BY <1>3
  <2>2. \A i, j \in E : f[i] = f[j] => i = j
    <3>1. TAKE i, j \in E
    <3>2. i \in Int /\ j \in Int /\ f[i] = i + n /\ f[j] = j + n  OBVIOUS
    <3>3. QED  BY <1>1, <3>2
  <2>3. \A x \in F : \E i \in E : f[i] = x  BY <1>4
  <2> HIDE DEF f, F
  <2>4. QED  BY <2>1, <2>2, <2>3, Fun_IsBij
<1>6. E2 = F \cup {n} /\ n \notin F  BY DEF Stacked
<1> HIDE DEF f, F
<1>7. IsFiniteSet(F) /\ Cardinality(F) = Cardinality(E)
  BY <1>2, <1>5, FS_Bijection DEF ExistsBijection
<1>8. Cardinality(F \cup {n}) = Cardinality(F) + 1  BY <1>6, <1>7, FS_AddElement
<1>9. QED  BY <1>2, <1>6, <1>7, <1>8

-----------------------------------------------------------------------------
(* Where the steps of the two lists end. *)
UndoEnds(list) == { i \in 1..Len(list) : ~list[i].paired }
RedoEnds(list) == { i \in 1..Len(list) : i = Len(list) \/ ~list[i + 1].paired }

LEMMA StepStacks ==
  ASSUME NEW old \in Seq(Records), NEW new \in Seq(Records),
         NEW n, n # 0, Atop(old, new, n, 0), ~new[n].paired
  PROVE  Stacked(UndoEnds(old), Len(old), n, UndoEnds(new), Len(new))
<1>1. Len(old) \in Nat /\ Len(new) \in Nat /\ n \in Nat  BY ListElements DEF Atop
<1>2. Len(new) = Len(old) + n
  <2>1. Len(new) + 0 = Len(old) + n  BY DEF Atop
  <2>2. QED  BY <1>1, <2>1
<1>3. n \in UndoEnds(new)
  <2>1. n \in 1..Len(new)  BY <1>1, <1>2
  <2>2. QED  BY <2>1 DEF UndoEnds
<1>4. \A i \in 1..(n - 1) : i \notin UndoEnds(new)  BY DEF Atop, UndoEnds
<1>5. ASSUME NEW i \in 1..Len(old)
      PROVE  (i + n \in UndoEnds(new)) <=> (i \in UndoEnds(old))
  <2>1. i \in 1..(Len(old) - 0) /\ i + 0 = i /\ i + n \in 1..Len(new)  BY <1>1, <1>2
  <2>2. Alike(old[i], new[i + n])
    <3>1. Alike(old[i + 0], new[i + n])  BY <2>1 DEF Atop
    <3>2. QED  BY <2>1, <3>1
  <2>3. QED  BY <2>1, <2>2 DEF UndoEnds, Alike
<1>6. QED  BY <1>1, <1>2, <1>3, <1>4, <1>5 DEF Stacked

(* What a record made of a text is one text.                                *)
LEMMA MakesOne ==
  ASSUME NEW r \in Records, NEW t \in Text, NEW u \in Text, NEW v \in Text,
         Makes(r, t, u), Makes(r, t, v)
  PROVE  u = v
<1>1. CASE r.delete
  <2>1. Splice(r, t, u) /\ Splice(r, t, v)  BY <1>1 DEF Makes
  <2>2. BulkDelete(t, r.start, r.end) = u  BY <2>1, SpliceReplays
  <2>3. BulkDelete(t, r.start, r.end) = v  BY <2>1, SpliceReplays
  <2>4. QED  BY <2>2, <2>3
<1>2. CASE ~r.delete
  <2>1. Splice(r, u, t) /\ Splice(r, v, t)  BY <1>2 DEF Makes
  <2>2. BulkInsert(t, r.start, r.data) = u  BY <2>1, SpliceReplays
  <2>3. BulkInsert(t, r.start, r.data) = v  BY <2>1, SpliceReplays
  <2>4. QED  BY <2>2, <2>3
<1>3. QED  BY <1>1, <1>2

(* Behind the records two lists share lie the same texts, once the last one *)
(* is the same.                                                             *)
LEMMA SameTexts ==
  ASSUME NEW old \in Seq(Records), NEW new \in Seq(Records),
         NEW n, Atop(old, new, n, 0),
         NEW T, UndoTexts(old, T), NEW T2, UndoTexts(new, T2),
         T2[Len(new)] = T[Len(old)]
  PROVE  Below(T, T2, n, Len(old))
<1>1. PICK l \in Nat, l2 \in Nat : l = Len(old) /\ l2 = Len(new)  BY ListElements
<1>2. n \in Nat /\ l2 = l + n
  <2>1. n \in Nat /\ l2 + 0 = l + n  BY <1>1 DEF Atop
  <2>2. QED  BY <2>1
<1>3. /\ T \in [0..l -> Text] /\ T2 \in [0..l2 -> Text]
      /\ \A i \in 1..l : old[i] \in Records /\ Makes(old[i], T[i], T[i - 1])
      /\ \A i \in 1..l2 : Makes(new[i], T2[i], T2[i - 1])
  BY <1>1 DEF UndoTexts
<1>4. ASSUME NEW i \in 1..l  PROVE Alike(old[i], new[i + n])
  <2>1. i \in 1..(Len(old) - 0) /\ i + 0 = i  BY <1>1
  <2>2. Alike(old[i + 0], new[i + n])  BY <2>1 DEF Atop
  <2>3. QED  BY <2>1, <2>2
<1> DEFINE G == { j \in 0..l : T[l - j] = T2[l - j + n] }
<1>5. 0 \in G
  <2>1. l - 0 = l /\ l - 0 + n = l2  BY <1>2
  <2>2. QED  BY <1>1, <2>1
<1>6. ASSUME NEW j \in 0..(l - 1), j \in G  PROVE j + 1 \in G
  <2>1. PICK i \in 1..l : i = l - j /\ i - 1 = l - (j + 1) /\ i - 1 \in 0..l
    <3>1. l - j \in 1..l /\ (l - j) - 1 = l - (j + 1) /\ (l - j) - 1 \in 0..l  OBVIOUS
    <3>2. QED  BY <3>1
  <2>2. PICK h \in 1..l2 : h = i + n /\ h - 1 = i - 1 + n
    <3>1. i + n \in 1..l2 /\ (i + n) - 1 = i - 1 + n  BY <1>2
    <3>2. QED  BY <3>1
  <2>3. T[i] = T2[h]  BY <1>6, <2>1, <2>2
  <2>4. Makes(old[i], T[i], T[i - 1]) /\ Makes(new[h], T2[h], T2[h - 1]) /\ old[i] \in Records
    BY <1>3
  <2>5. Makes(old[i], T2[h], T2[h - 1])  BY <1>4, <2>2, <2>4, AlikeMakes
  <2>6. T[i] \in Text /\ T[i - 1] \in Text /\ T2[h - 1] \in Text
    <3>1. i \in 0..l /\ i - 1 \in 0..l /\ h - 1 \in 0..l2  BY <1>2
    <3>2. QED  BY <1>3, <3>1
  <2>7. T[i - 1] = T2[h - 1]
    <3>1. Makes(old[i], T[i], T[i - 1]) /\ Makes(old[i], T[i], T2[h - 1])  BY <2>3, <2>4, <2>5
    <3>2. QED  BY <2>4, <2>6, <3>1, MakesOne
  <2>8. j + 1 \in 0..l /\ T[l - (j + 1)] = T2[l - (j + 1) + n]  BY <2>1, <2>2, <2>7
  <2>9. QED  BY <2>8
<1> HIDE DEF G
<1>7. \A j \in 0..l : j \in G  BY <1>5, <1>6, UpTo
<1>8. ASSUME NEW i \in 0..l  PROVE T[i] = T2[i + n]
  <2>1. PICK j \in 0..l : l - j = i
    <3>1. l - i \in 0..l /\ l - (l - i) = i  OBVIOUS
    <3>2. QED  BY <3>1
  <2>2. QED  BY <1>7, <2>1 DEF G
<1>9. QED  BY <1>1, <1>8 DEF Below

(* A step recorded on its own: the text it started from comes behind it.    *)
LEMMA BeginsStep ==
  ASSUME NEW old \in Seq(Records), NEW new \in Seq(Records), Begins(old, new),
         NEW T, UndoTexts(old, T), NEW T2, UndoTexts(new, T2),
         T2[Len(new)] = T[Len(old)],
         NEW p, NEW S, Behind(UndoEnds(old), Len(old), T, p, S),
         NEW q, q = p + 1, NEW S2, S2[1] = T[0], \A j \in 1..p : S2[j + 1] = S[j]
  PROVE  /\ new # old
         /\ Steps(old) \in Nat /\ Steps(new) = Steps(old) + 1
         /\ Behind(UndoEnds(new), Len(new), T2, q, S2)
<1>1. PICK n : n # 0 /\ Atop(old, new, n, 0) /\ ~new[n].paired  BY DEF Begins
<1>2. PICK E, l, E2, l2 : /\ E = UndoEnds(old) /\ l = Len(old)
                          /\ E2 = UndoEnds(new) /\ l2 = Len(new)
  OBVIOUS
<1>3. Stacked(E, l, n, E2, l2)  BY <1>1, <1>2, StepStacks
<1>4. Below(T, T2, n, l)  BY <1>1, <1>2, SameTexts
<1>5. Behind(E2, l2, T2, q, S2)
  <2>1. Behind(E, l, T, p, S)  BY <1>2
  <2>2. QED  BY <1>3, <1>4, <2>1, StepAdded
<1>6. Cardinality(E) \in Nat /\ Cardinality(E2) = Cardinality(E) + 1
  <2>1. E \subseteq 1..l /\ E2 \subseteq 1..l2  BY <1>2 DEF UndoEnds
  <2>2. QED  BY <1>3, <2>1, OneMore
<1>7. Steps(old) = Cardinality(E) /\ Steps(new) = Cardinality(E2)
  BY <1>2 DEF Steps, UndoEnds
<1>8. new # old
  <2>1. l2 # l  BY <1>3 DEF Stacked
  <2>2. QED  BY <1>2, <2>1
<1>9. QED  BY <1>2, <1>5, <1>6, <1>7, <1>8

(* A step that takes in the open one: the same texts lie behind it.         *)
LEMMA JoinsStep ==
  ASSUME NEW old \in Seq(Records), NEW new \in Seq(Records), Joins(old, new),
         NEW T, UndoTexts(old, T), NEW T2, UndoTexts(new, T2),
         T2[Len(new)] = T[Len(old)],
         NEW p, NEW S, Behind(UndoEnds(old), Len(old), T, p, S)
  PROVE  /\ old # <<>> /\ old[1].append /\ new # old
         /\ Steps(old) \in Nat /\ Steps(new) = Steps(old)
         /\ Behind(UndoEnds(new), Len(new), T2, p, S)
<1>1. PICK n : /\ n # 0 /\ Atop(old, new, n, 1) /\ ~new[n].paired
               /\ old[1].append /\ ~old[1].paired /\ (n = 1 => new # old)
  BY DEF Joins
<1>2. PICK one \in Nat : one = 1  OBVIOUS
<1>3. PICK rest : rest = SubSeq(old, one + 1, Len(old))  OBVIOUS
<1>4. n \in Nat /\ Len(old) \in Nat /\ Len(new) \in Nat /\ 1 <= Len(old)
      /\ Len(new) + 1 = Len(old) + n
  BY <1>1, ListElements DEF Atop
<1>5. one \in 1..Len(old)  BY <1>2, <1>4
<1>6. /\ rest \in Seq(Records) /\ Len(rest) = Len(old) - one
      /\ \A i \in 1..Len(rest) : rest[i] = old[i + one]
  BY <1>3, <1>5, RestIs
<1>7. Len(rest) \in Nat /\ Len(rest) = Len(old) - 1  BY <1>2, <1>4, <1>6
<1>8. Atop(rest, old, one, 0) /\ ~old[one].paired
  <2>1. Len(old) + 0 = Len(rest) + one /\ 0 <= Len(rest)  BY <1>2, <1>4, <1>7
  <2>2. \A i \in 1..(one - 1) : old[i].paired  BY <1>2
  <2>3. \A i \in 1..(Len(rest) - 0) : Alike(rest[i + 0], old[i + one])
    <3>1. TAKE i \in 1..(Len(rest) - 0)
    <3>2. i \in 1..Len(rest) /\ i + 0 = i  BY <1>7
    <3>3. rest[i + 0] = old[i + one]  BY <1>6, <3>2
    <3>4. QED  BY <3>3 DEF Alike
  <2>4. QED  BY <1>1, <1>2, <2>1, <2>2, <2>3 DEF Atop
<1>9. Atop(rest, new, n, 0)
  <2>1. Len(new) + 0 = Len(rest) + n /\ 0 <= Len(rest)  BY <1>4, <1>7
  <2>2. \A i \in 1..(n - 1) : new[i].paired  BY <1>1 DEF Atop
  <2>3. \A i \in 1..(Len(rest) - 0) : Alike(rest[i + 0], new[i + n])
    <3>1. TAKE i \in 1..(Len(rest) - 0)
    <3>2. i \in 1..Len(rest) /\ i + 0 = i /\ i \in 1..(Len(old) - 1)  BY <1>4, <1>7
    <3>3. Alike(old[i + 1], new[i + n])  BY <1>1, <3>2 DEF Atop
    <3>4. rest[i + 0] = old[i + 1]  BY <1>2, <1>6, <3>2
    <3>5. QED  BY <3>3, <3>4
  <2>4. QED  BY <1>4, <2>1, <2>2, <2>3 DEF Atop
<1>10. PICK R : UndoTexts(rest, R) /\ R[Len(rest)] = T[Len(old)] /\ Below(R, T, one, Len(rest))
  <2>1. one \in 0..Len(old)  BY <1>4, <1>5
  <2>2. \A i \in 1..Len(rest) : Alike(old[i + one], rest[i])  BY <1>6 DEF Alike
  <2>3. rest \in Seq(Records) /\ Len(rest) = Len(old) - one  BY <1>6
  <2>4. PICK R : /\ UndoTexts(rest, R) /\ R[0] = T[one] /\ R[Len(rest)] = T[Len(old)]
                 /\ Below(R, T, one, Len(rest))
    BY <2>1, <2>2, <2>3, TextsBelow
  <2>5. QED  BY <2>4
<1>11. Below(R, T2, n, Len(rest))
  <2>1. T2[Len(new)] = R[Len(rest)]  BY <1>10
  <2>2. QED  BY <1>6, <1>9, <1>10, <2>1, SameTexts
<1>12. PICK E0, l0, E, l, E2, l2 :
         /\ E0 = UndoEnds(rest) /\ l0 = Len(rest)
         /\ E = UndoEnds(old) /\ l = Len(old)
         /\ E2 = UndoEnds(new) /\ l2 = Len(new)
  OBVIOUS
<1>13. Stacked(E0, l0, one, E, l)
  <2>1. one # 0  BY <1>2
  <2>2. QED  BY <1>6, <1>8, <1>12, <2>1, StepStacks
<1>14. Stacked(E0, l0, n, E2, l2)  BY <1>1, <1>6, <1>9, <1>12, StepStacks
<1>15. PICK S0 : S0 = [j \in 1..(p - 1) |-> S[j + 1]]  OBVIOUS
<1>16. PICK p0 : p0 = p - 1  OBVIOUS
<1>17. p \in Nat /\ p # 0 /\ S[1] = R[0] /\ Behind(E0, l0, R, p0, S0)
  <2>1. Behind(E, l, T, p, S) /\ Below(R, T, one, l0)  BY <1>10, <1>12
  <2>2. \A j \in 1..(p - 1) : S0[j] = S[j + 1]  BY <1>15
  <2>3. QED  BY <1>13, <1>16, <2>1, <2>2, StepTaken
<1>18. Behind(E2, l2, T2, p, S)
  <2>1. p = p0 + 1 /\ \A j \in 1..p0 : S[j + 1] = S0[j]  BY <1>15, <1>16, <1>17
  <2>2. Below(R, T2, n, l0)  BY <1>11, <1>12
  <2>3. QED  BY <1>14, <1>17, <2>1, <2>2, StepAdded
<1>19. /\ Cardinality(E0) \in Nat
       /\ Cardinality(E) = Cardinality(E0) + 1 /\ Cardinality(E2) = Cardinality(E0) + 1
  <2>1. E0 \subseteq 1..l0 /\ E \subseteq 1..l /\ E2 \subseteq 1..l2  BY <1>12 DEF UndoEnds
  <2>2. QED  BY <1>13, <1>14, <2>1, OneMore
<1>20. Steps(old) = Cardinality(E) /\ Steps(new) = Cardinality(E2)
  BY <1>12 DEF Steps, UndoEnds
<1>21. new # old
  <2>1. CASE n = 1  BY <1>1, <2>1
  <2>2. CASE n # 1
    <3>1. Len(new) # Len(old)  BY <1>4, <2>2
    <3>2. QED  BY <3>1
  <2>3. QED  BY <2>1, <2>2
<1>22. old # <<>>  BY <1>4, ListElements
<1>23. QED  BY <1>1, <1>12, <1>18, <1>19, <1>20, <1>21, <1>22

-----------------------------------------------------------------------------
(* The lists as undo and redo pass steps between them. *)

LEMMA CloseEnds ==
  ASSUME NEW list, UndoList(list), NEW closed, closed = UndoCloseRun(list)
  PROVE  UndoEnds(closed) = UndoEnds(list) /\ Len(closed) = Len(list)
<1>1. Len(closed) = Len(list) /\ \A i \in 1..Len(list) : Alike(list[i], closed[i])
  BY CloseKeeps
<1>2. QED  BY <1>1 DEF UndoEnds, Alike

LEMMA RestStacks ==
  ASSUME NEW list \in Seq(Records), NEW k \in 1..Len(list), ~list[k].paired,
         \A j \in 1..(k - 1) : list[j].paired,
         NEW rest, rest = SubSeq(list, k + 1, Len(list))
  PROVE  Stacked(UndoEnds(rest), Len(rest), k, UndoEnds(list), Len(list))
<1>1. /\ rest \in Seq(Records) /\ Len(rest) = Len(list) - k
      /\ \A i \in 1..Len(rest) : rest[i] = list[i + k]
  BY RestIs
<1>2. Len(list) \in Nat /\ Len(rest) \in Nat /\ k \in Nat /\ k # 0 /\ Len(list) = Len(rest) + k
  BY <1>1, ListElements
<1>3. k \in UndoEnds(list) /\ \A i \in 1..(k - 1) : i \notin UndoEnds(list)  BY DEF UndoEnds
<1>4. ASSUME NEW i \in 1..Len(rest)
      PROVE  (i + k \in UndoEnds(list)) <=> (i \in UndoEnds(rest))
  <2>1. i + k \in 1..Len(list) /\ rest[i] = list[i + k]  BY <1>1, <1>2
  <2>2. QED  BY <2>1 DEF UndoEnds
<1>5. QED  BY <1>2, <1>3, <1>4 DEF Stacked

LEMMA RestRedoStacks ==
  ASSUME NEW list \in Seq(Records), NEW k \in 1..Len(list),
         k = Len(list) \/ ~list[k + 1].paired, \A j \in 2..k : list[j].paired,
         NEW rest, rest = SubSeq(list, k + 1, Len(list))
  PROVE  Stacked(RedoEnds(rest), Len(rest), k, RedoEnds(list), Len(list))
<1>1. /\ rest \in Seq(Records) /\ Len(rest) = Len(list) - k
      /\ \A i \in 1..Len(rest) : rest[i] = list[i + k]
  BY RestIs
<1>2. Len(list) \in Nat /\ Len(rest) \in Nat /\ k \in Nat /\ k # 0 /\ Len(list) = Len(rest) + k
  BY <1>1, ListElements
<1>3. k \in RedoEnds(list)  BY DEF RedoEnds
<1>4. ASSUME NEW i \in 1..(k - 1)  PROVE i \notin RedoEnds(list)
  <2>1. i + 1 \in 2..k /\ i # Len(list)  BY <1>2
  <2>2. QED  BY <2>1 DEF RedoEnds
<1>5. ASSUME NEW i \in 1..Len(rest)
      PROVE  (i + k \in RedoEnds(list)) <=> (i \in RedoEnds(rest))
  <2>1. i + k \in 1..Len(list) /\ (i + k = Len(list) <=> i = Len(rest))  BY <1>2
  <2>2. ASSUME i # Len(rest)  PROVE rest[i + 1] = list[(i + k) + 1]
    <3>1. i + 1 \in 1..Len(rest) /\ (i + 1) + k = (i + k) + 1  BY <1>2, <2>2
    <3>2. rest[i + 1] = list[(i + 1) + k]  BY <1>1, <3>1
    <3>3. QED  BY <3>1, <3>2
  <2>3. QED  BY <2>1, <2>2 DEF RedoEnds
<1>6. QED  BY <1>2, <1>3, <1>4, <1>5 DEF Stacked

(* A step undone is the first step of the redo list,                        *)
LEMMA UndoneStacks ==
  ASSUME NEW from \in Seq(Records), NEW k \in 1..Len(from),
         \A j \in 1..(k - 1) : from[j].paired,
         NEW to, RedoList(to), NEW list, list = Moved(from, to, k)
  PROVE  Stacked(RedoEnds(to), Len(to), k, RedoEnds(list), Len(list))
<1>1. MovedFacts(from, to, k, list)
  <2>1. to \in Seq(Records) /\ \A i \in 1..Len(to) : ~to[i].append  BY DEF RedoList
  <2>2. QED  BY <2>1, ListMoved
<1>2. /\ Len(list) = k + Len(to)
      /\ \A i \in 1..k : Alike(from[k + 1 - i], list[i])
      /\ \A i \in 1..Len(to) : list[k + i] = to[i]
  BY <1>1 DEF MovedFacts
<1>3. Len(to) \in Nat /\ k \in Nat /\ k # 0 /\ Len(list) = Len(to) + k /\ Len(from) \in Nat
  <2>1. to \in Seq(Records)  BY DEF RedoList
  <2>2. Len(to) \in Nat /\ Len(from) \in Nat  BY <2>1, ListElements
  <2>3. QED  BY <1>2, <2>2
<1>4. k \in RedoEnds(list)
  <2>1. CASE Len(to) = 0
    <3>1. k = Len(list) /\ k \in 1..Len(list)  BY <1>3, <2>1
    <3>2. QED  BY <3>1 DEF RedoEnds
  <2>2. CASE Len(to) # 0
    <3>1. 1 \in 1..Len(to) /\ k \in 1..Len(list) /\ to # <<>>  BY <1>3, <2>2
    <3>2. ~list[k + 1].paired  BY <1>2, <3>1 DEF RedoList
    <3>3. QED  BY <3>1, <3>2 DEF RedoEnds
  <2>3. QED  BY <2>1, <2>2
<1>5. ASSUME NEW i \in 1..(k - 1)  PROVE i \notin RedoEnds(list)
  <2>1. i + 1 \in 1..k /\ i # Len(list)  BY <1>3
  <2>2. PICK j \in 1..(k - 1) : j = k + 1 - (i + 1)
    <3>1. k + 1 - (i + 1) \in 1..(k - 1)  BY <1>3
    <3>2. QED  BY <3>1
  <2>3. Alike(from[j], list[i + 1]) /\ from[j].paired  BY <1>2, <2>1, <2>2
  <2>4. QED  BY <2>1, <2>3 DEF RedoEnds, Alike
<1>6. ASSUME NEW i \in 1..Len(to)
      PROVE  (i + k \in RedoEnds(list)) <=> (i \in RedoEnds(to))
  <2>1. i + k \in 1..Len(list) /\ (i + k = Len(list) <=> i = Len(to))  BY <1>3
  <2>2. ASSUME i # Len(to)  PROVE to[i + 1] = list[(i + k) + 1]
    <3>1. i + 1 \in 1..Len(to) /\ k + (i + 1) = (i + k) + 1  BY <1>3, <2>2
    <3>2. list[k + (i + 1)] = to[i + 1]  BY <1>2, <3>1
    <3>3. QED  BY <3>1, <3>2
  <2>3. QED  BY <2>1, <2>2 DEF RedoEnds
<1>7. QED  BY <1>3, <1>4, <1>5, <1>6 DEF Stacked

(* and one redone the first step of the undo list.                          *)
LEMMA RedoneStacks ==
  ASSUME NEW from \in Seq(Records), NEW k \in 1..Len(from), ~from[1].paired,
         \A j \in 2..k : from[j].paired,
         NEW to \in Seq(Records), \A i \in 1..Len(to) : ~to[i].append,
         NEW list, list = Moved(from, to, k)
  PROVE  Stacked(UndoEnds(to), Len(to), k, UndoEnds(list), Len(list))
<1>1. MovedFacts(from, to, k, list)  BY ListMoved
<1>2. /\ Len(list) = k + Len(to)
      /\ \A i \in 1..k : Alike(from[k + 1 - i], list[i])
      /\ \A i \in 1..Len(to) : list[k + i] = to[i]
  BY <1>1 DEF MovedFacts
<1>3. Len(to) \in Nat /\ k \in Nat /\ k # 0 /\ Len(list) = Len(to) + k /\ Len(from) \in Nat
  <2>1. Len(to) \in Nat /\ Len(from) \in Nat  BY ListElements
  <2>2. QED  BY <1>2, <2>1
<1>4. k \in UndoEnds(list)
  <2>1. k \in 1..k /\ k + 1 - k = 1 /\ k \in 1..Len(list)  BY <1>3
  <2>2. Alike(from[1], list[k])  BY <1>2, <2>1
  <2>3. QED  BY <2>1, <2>2 DEF UndoEnds, Alike
<1>5. ASSUME NEW i \in 1..(k - 1)  PROVE i \notin UndoEnds(list)
  <2>1. i \in 1..k  BY <1>3
  <2>2. PICK j \in 2..k : j = k + 1 - i
    <3>1. k + 1 - i \in 2..k  BY <1>3
    <3>2. QED  BY <3>1
  <2>3. Alike(from[j], list[i]) /\ from[j].paired  BY <1>2, <2>1, <2>2
  <2>4. QED  BY <2>3 DEF UndoEnds, Alike
<1>6. ASSUME NEW i \in 1..Len(to)
      PROVE  (i + k \in UndoEnds(list)) <=> (i \in UndoEnds(to))
  <2>1. i + k \in 1..Len(list) /\ i + k = k + i  BY <1>3
  <2>2. list[i + k] = to[i]  BY <1>2, <2>1
  <2>3. QED  BY <2>1, <2>2 DEF UndoEnds
<1>7. QED  BY <1>3, <1>4, <1>5, <1>6 DEF Stacked

LEMMA MovedBelow ==
  ASSUME NEW T, NEW U, NEW k \in Nat, NEW l \in Nat, NEW W, TextsMoved(T, U, k, l, W)
  PROVE  Below(U, W, k, l)
<1>1. \A i \in 0..l : W[k + i] = U[i]  BY DEF TextsMoved
<1>2. \A i \in 0..l : k + i = i + k  OBVIOUS
<1>3. \A i \in 0..l : U[i] = W[i + k]  BY <1>1, <1>2
<1>4. QED  BY <1>3 DEF Below

-----------------------------------------------------------------------------
(* The texts an undo goes back to, read nearest first. *)
Backwards(q) == [j \in 1..Len(q) |-> q[Len(q) + 1 - j]]

(* r goes back to t first, and on from there as q does. *)
BackTo(q, r, t) ==
  /\ r \in Seq(Text) /\ Len(r) = Len(q) + 1
  /\ Backwards(r)[1] = t
  /\ \A j \in 1..Len(q) : Backwards(r)[j + 1] = Backwards(q)[j]

LEMMA LongerBack ==
  ASSUME NEW q \in Seq(Text), NEW t \in Text, NEW r, r = Append(q, t)
  PROVE  BackTo(q, r, t)
<1>1. /\ r \in Seq(Text) /\ Len(q) \in Nat /\ Len(r) = Len(q) + 1
      /\ r[Len(q) + 1] = t /\ \A i \in 1..Len(q) : r[i] = q[i]
  OBVIOUS
<1>2. Backwards(r)[1] = t
  <2>1. 1 \in 1..Len(r) /\ Len(r) + 1 - 1 = Len(q) + 1  BY <1>1
  <2>2. Backwards(r)[1] = r[Len(r) + 1 - 1]  BY <2>1 DEF Backwards
  <2>3. QED  BY <1>1, <2>1, <2>2
<1>3. ASSUME NEW j \in 1..Len(q)  PROVE Backwards(r)[j + 1] = Backwards(q)[j]
  <2>1. PICK i \in 1..Len(q) : i = Len(q) + 1 - j /\ Len(r) + 1 - (j + 1) = i
    <3>1. Len(q) + 1 - j \in 1..Len(q) /\ Len(r) + 1 - (j + 1) = Len(q) + 1 - j  BY <1>1
    <3>2. QED  BY <3>1
  <2>2. j + 1 \in 1..Len(r)  BY <1>1
  <2>3. Backwards(r)[j + 1] = r[i] /\ Backwards(q)[j] = q[i]  BY <2>1, <2>2 DEF Backwards
  <2>4. QED  BY <1>1, <2>3
<1>4. QED  BY <1>1, <1>2, <1>3 DEF BackTo

LEMMA ShorterBack ==
  ASSUME NEW q \in Seq(Text), Len(q) # 0, NEW r, r = SubSeq(q, 1, Len(q) - 1)
  PROVE  /\ r \in Seq(Text) /\ Len(q) \in Nat /\ Len(r) = Len(q) - 1
         /\ Backwards(q)[1] = q[Len(q)]
         /\ \A j \in 1..(Len(q) - 1) : Backwards(r)[j] = Backwards(q)[j + 1]
<1>1. Len(q) \in Nat /\ Len(q) - 1 \in Nat  OBVIOUS
<1>2. /\ r \in Seq(Text) /\ Len(r) = Len(q) - 1
      /\ \A i \in 1..Len(r) : r[i] = q[i]
  <2>1. PICK k \in Nat : k = Len(q) - 1  BY <1>1
  <2>2. k <= Len(q) /\ r = SubSeq(q, 1, k)  BY <1>1, <2>1
  <2>3. r \in Seq(Text) /\ Len(r) = k  BY <1>1, <2>1, <2>2
  <2>4. \A i \in 1..k : r[i] = q[i]  BY <1>1, <2>1, <2>2
  <2>5. QED  BY <2>1, <2>3, <2>4
<1>3. Backwards(q)[1] = q[Len(q)]
  <2>1. 1 \in 1..Len(q) /\ Len(q) + 1 - 1 = Len(q)  BY <1>1
  <2>2. Backwards(q)[1] = q[Len(q) + 1 - 1]  BY <2>1 DEF Backwards
  <2>3. QED  BY <2>1, <2>2
<1>4. ASSUME NEW j \in 1..(Len(q) - 1)  PROVE Backwards(r)[j] = Backwards(q)[j + 1]
  <2>1. PICK i \in 1..Len(r) : i = Len(r) + 1 - j /\ Len(q) + 1 - (j + 1) = i
    <3>1. Len(r) + 1 - j \in 1..Len(r) /\ Len(q) + 1 - (j + 1) = Len(r) + 1 - j  BY <1>1, <1>2
    <3>2. QED  BY <3>1
  <2>2. j + 1 \in 1..Len(q) /\ j \in 1..Len(r)  BY <1>1, <1>2
  <2>3. Backwards(r)[j] = r[i] /\ Backwards(q)[j + 1] = q[i]  BY <2>1, <2>2 DEF Backwards
  <2>4. QED  BY <1>2, <2>3
<1>5. QED  BY <1>1, <1>2, <1>3, <1>4

LEMMA LongerAhead ==
  ASSUME NEW q \in Seq(Text), NEW t \in Text, NEW r, r = << t >> \o q
  PROVE  /\ r \in Seq(Text) /\ Len(q) \in Nat /\ Len(r) = Len(q) + 1 /\ r[1] = t
         /\ \A j \in 1..Len(q) : r[j + 1] = q[j]
OBVIOUS

LEMMA ShorterAhead ==
  ASSUME NEW q \in Seq(Text), Len(q) # 0, NEW r, r = Tail(q)
  PROVE  /\ r \in Seq(Text) /\ Len(q) \in Nat /\ Len(r) = Len(q) - 1
         /\ \A j \in 1..(Len(q) - 1) : r[j] = q[j + 1]
OBVIOUS

-----------------------------------------------------------------------------
(* The history *)

(* q holds the texts an undo, a redo, goes to from t by list.               *)
PastIs(list, t, q) ==
  /\ q \in Seq(Text)
  /\ \E T : /\ UndoTexts(list, T) /\ T[0] = t
           /\ Behind(UndoEnds(list), Len(list), T, Len(q), Backwards(q))

FutureIs(list, t, q) ==
  /\ q \in Seq(Text)
  /\ \E T : /\ RedoTexts(list, T) /\ T[0] = t
           /\ Behind(RedoEnds(list), Len(list), T, Len(q), q)

Remembered == PastIs(undo, rows, past) /\ FutureIs(redo, rows, future)

HInv == Inv /\ Remembered

(* Whether the step on top can take in the next edit. *)
Open == undo # <<>> /\ undo[1].append

LEMMA OpenTyped ==
  ASSUME NEW list \in Seq(Records)
  PROVE  (list # <<>> /\ list[1].append) \in BOOLEAN
<1>1. CASE list = <<>>  BY <1>1
<1>2. CASE list # <<>>
  <2>1. 1 \in 1..Len(list)  BY <1>2, ListElements
  <2>2. list[1].append \in BOOLEAN  BY <2>1, RecordFields
  <2>3. QED  BY <2>2
<1>3. QED  BY <1>1, <1>2

LEMMA ClosedIsNotOpen ==
  ASSUME NEW list, UndoList(list), NEW closed, closed = UndoCloseRun(list)
  PROVE  (closed # <<>> /\ closed[1].append) = FALSE
<1>1. UndoList(closed) /\ Len(closed) = Len(list) /\ \A i \in 1..Len(list) : ~closed[i].append
  BY CloseKeeps
<1>2. CASE closed = <<>>  BY <1>2
<1>3. CASE closed # <<>>
  <2>1. 1 \in 1..Len(list)
    <3>1. closed \in Seq(Records)  BY <1>1 DEF UndoList
    <3>2. Len(closed) \in Nat /\ Len(closed) > 0  BY <1>3, <3>1, ListElements
    <3>3. QED  BY <1>1, <3>2
  <2>2. ~closed[1].append  BY <1>1, <2>1
  <2>3. QED  BY <2>2
<1>4. QED  BY <1>2, <1>3

LEMMA NoFuture ==
  ASSUME NEW t \in Text
  PROVE  FutureIs(<<>>, t, <<>>)
<1>1. Len(<<>>) = 0 /\ <<>> \in Seq(Text)  OBVIOUS
<1>2. PICK T : RedoTexts(<<>>, T) /\ T[0] = t  BY NothingAhead DEF RedoFits
<1>3. RedoEnds(<<>>) = {}  BY <1>1 DEF RedoEnds
<1>4. Behind(RedoEnds(<<>>), Len(<<>>), T, Len(<<>>), <<>>)  BY <1>1, <1>3, NothingBehind
<1>5. QED  BY <1>1, <1>2, <1>4 DEF FutureIs

LEMMA NoPast ==
  ASSUME NEW t \in Text
  PROVE  PastIs(<<>>, t, <<>>)
<1>1. Len(<<>>) = 0 /\ <<>> \in Seq(Text)  OBVIOUS
<1> DEFINE T == [i \in 0..0 |-> t]
<1>2. T \in [0..0 -> Text] /\ T[0] = t  OBVIOUS
<1> HIDE DEF T
<1>3. UndoTexts(<<>>, T)  BY <1>1, <1>2 DEF UndoTexts
<1>4. UndoEnds(<<>>) = {}  BY <1>1 DEF UndoEnds
<1>5. Behind(UndoEnds(<<>>), Len(<<>>), T, Len(<<>>), Backwards(<<>>))
  BY <1>1, <1>4, NothingBehind
<1>6. QED  BY <1>1, <1>2, <1>3, <1>5 DEF PastIs

(* What an edit makes of the history. *)
LEMMA EditRecorded ==
  ASSUME HInv, RecordedEdit
  PROVE  /\ PastIs(undo', rows', past') /\ FutureIs(redo', rows', future')
         /\ \/ UNCHANGED <<rows, undo, past, future>>
            \/ /\ future' = <<>>
               /\ past' = Append(past, rows) \/ (Open = TRUE /\ past' = past)
<1>1. Inv /\ PastIs(undo, rows, past) /\ FutureIs(redo, rows, future)
      /\ rows \in Text /\ undo \in Seq(Records)
  BY DEF HInv, Remembered, Inv, TypeOK, UndoList
<1>2. past \in Seq(Text) /\ Len(past) \in Nat  BY <1>1 DEF PastIs
<1>3. PICK T : /\ UndoTexts(undo, T) /\ T[0] = rows
               /\ Behind(UndoEnds(undo), Len(undo), T, Len(past), Backwards(past))
  BY <1>1 DEF PastIs
<1>4. PICK base : base = { T[Len(undo)] }  OBVIOUS
<1>5. UndoFits(undo, rows, base)  BY <1>3, <1>4 DEF UndoFits
<1>6. Outcome(base)  BY <1>1, <1>5, EditingMakes DEF RecordedEdit
<1>7. CASE \E p : Refused(p)
  <2>1. PICK p : Refused(p)  BY <1>7
  <2>2. rows' = rows /\ undo' = undo /\ redo' = redo  BY <2>1 DEF Refused
  <2>3. past' = past /\ future' = future  BY <2>2 DEF RecordedEdit
  <2>4. QED  BY <1>1, <2>2, <2>3
<1>8. CASE \E m, p : Made(m, p, base)
  <2>1. PICK m, p : Made(m, p, base)  BY <1>8
  <2>2. /\ rows' = m.rows /\ undo' = m.undo /\ redo' = <<>>
        /\ Traced(m, base) /\ Grows(undo, m.undo)
    BY <2>1 DEF Made, Commit
  <2>3. rows' \in Text /\ UndoList(undo') /\ UndoFits(undo', rows', base) /\ Grows(undo, undo')
    <3>1. Sound(m) /\ UndoList(m.undo) /\ UndoFits(m.undo, m.rows, base)
      BY <2>2 DEF Traced
    <3>2. m.rows \in Text  BY <3>1, StateFields DEF Sound
    <3>3. QED  BY <2>2, <3>1, <3>2
  <2>4. PICK list, t : list = undo' /\ t = rows'  OBVIOUS
  <2>5. list \in Seq(Records)  BY <2>3, <2>4 DEF UndoList
  <2>6. PICK T2 : UndoTexts(list, T2) /\ T2[0] = t /\ T2[Len(list)] = T[Len(undo)]
    <3>1. UndoFits(list, t, base)  BY <2>3, <2>4
    <3>2. QED  BY <1>4, <3>1 DEF UndoFits
  <2>7. CASE Begins(undo, list)
    <3>1. PICK q : q = Append(past, rows)  OBVIOUS
    <3>2. /\ q \in Seq(Text) /\ Len(q) = Len(past) + 1
          /\ Backwards(q)[1] = T[0]
          /\ \A j \in 1..Len(past) : Backwards(q)[j + 1] = Backwards(past)[j]
      <4>1. past \in Seq(Text) /\ rows \in Text  BY <1>1, <1>2
      <4>2. BackTo(past, q, rows)  BY <3>1, <4>1, LongerBack
      <4>3. T[0] = rows  BY <1>3
      <4>4. QED  BY <4>2, <4>3 DEF BackTo
    <3>3. /\ list # undo
          /\ Steps(undo) \in Nat /\ Steps(list) = Steps(undo) + 1
          /\ Behind(UndoEnds(list), Len(list), T2, Len(q), Backwards(q))
      BY <1>1, <1>3, <2>5, <2>6, <2>7, <3>2, BeginsStep
    <3>4. past' = q /\ future' = <<>>
      <4>1. undo' # undo /\ Steps(undo') > Steps(undo)  BY <2>4, <3>3
      <4>2. QED  BY <3>1, <4>1 DEF RecordedEdit
    <3>5. PastIs(list, t, q)  BY <2>6, <3>2, <3>3 DEF PastIs
    <3>6. FutureIs(redo', rows', future')  BY <2>2, <2>3, <3>4, NoFuture
    <3>7. QED  BY <2>4, <3>1, <3>4, <3>5, <3>6
  <2>8. CASE Joins(undo, list)
    <3>1. /\ undo # <<>> /\ undo[1].append /\ list # undo
          /\ Steps(undo) \in Nat /\ Steps(list) = Steps(undo)
          /\ Behind(UndoEnds(list), Len(list), T2, Len(past), Backwards(past))
      BY <1>1, <1>3, <2>5, <2>6, <2>8, JoinsStep
    <3>2. past' = past /\ future' = <<>>
      <4>1. undo' # undo /\ ~(Steps(undo') > Steps(undo))  BY <2>4, <3>1
      <4>2. QED  BY <4>1 DEF RecordedEdit
    <3>3. PastIs(list, t, past)  BY <1>2, <2>6, <3>1 DEF PastIs
    <3>4. FutureIs(redo', rows', future')  BY <2>2, <2>3, <3>2, NoFuture
    <3>5. Open = TRUE
      <4>1. Open  BY <3>1 DEF Open
      <4>2. (undo # <<>> /\ undo[1].append) \in BOOLEAN  BY <1>1, OpenTyped
      <4>3. QED  BY <4>1, <4>2 DEF Open
    <3>6. QED  BY <2>4, <3>2, <3>3, <3>4, <3>5
  <2>9. Grows(undo, list)  BY <2>3, <2>4
  <2>10. QED  BY <2>7, <2>8, <2>9 DEF Grows
<1>9. QED  BY <1>6, <1>7, <1>8 DEF Outcome

(* What an undo makes of it. *)
LEMMA UndoRecorded ==
  ASSUME HInv, RecordedUndo, undo # <<>>
  PROVE  /\ PastIs(undo', rows', past') /\ FutureIs(redo', rows', future')
         /\ past # <<>> /\ rows' = past[Len(past)]
         /\ past' = SubSeq(past, 1, Len(past) - 1)
         /\ future' = << rows >> \o future
         /\ Open' = FALSE
<1>1. Inv /\ PastIs(undo, rows, past) /\ FutureIs(redo, rows, future)
      /\ rows \in Text /\ UndoList(undo) /\ RedoList(redo) /\ Terminated(rows)
  BY DEF HInv, Remembered, Inv, TypeOK, FinalNewline
<1>2. /\ past \in Seq(Text) /\ Len(past) \in Nat /\ future \in Seq(Text) /\ Len(future) \in Nat
  BY <1>1 DEF PastIs, FutureIs
<1>3. PICK T : /\ UndoTexts(undo, T) /\ T[0] = rows
               /\ Behind(UndoEnds(undo), Len(undo), T, Len(past), Backwards(past))
  BY <1>1 DEF PastIs
<1>4. PICK U : /\ RedoTexts(redo, U) /\ U[0] = rows
               /\ Behind(RedoEnds(redo), Len(redo), U, Len(future), future)
  BY <1>1 DEF FutureIs
<1>5. PICK list : list = UndoCloseRun(undo)  OBVIOUS
<1>6. PICK k : k = UndoLength(list)  OBVIOUS
<1>7. PICK is_redo \in BOOLEAN : is_redo = FALSE  OBVIOUS
<1>8. PICK m : m = ReplayAll(Current, list, k, is_redo)  OBVIOUS
<1>9. PICK rest : rest = SubSeq(list, k + 1, Len(list))  OBVIOUS
<1>10. PICK closed, to : closed = UndoCloseRun(rest) /\ to = Moved(list, redo, k)  OBVIOUS
<1>11. /\ rows' = m.rows /\ undo' = closed /\ redo' = to
       /\ past' = SubSeq(past, 1, Len(past) - 1) /\ future' = << rows >> \o future
  BY <1>5, <1>6, <1>7, <1>8, <1>9, <1>10 DEF RecordedUndo, DoUndo
<1>12. /\ UndoList(list) /\ Len(list) = Len(undo) /\ Len(list) \in Nat /\ list \in Seq(Records)
       /\ \A i \in 1..Len(list) : ~list[i].append
       /\ UndoTexts(list, T)
       /\ k \in 1..Len(list) /\ ~list[k].paired
       /\ \A j \in 1..(k - 1) : list[j].paired
       /\ m.rows = T[k]
  <2>1. GoesBack(list, T, k, m)  BY <1>1, <1>3, <1>5, <1>6, <1>7, <1>8, UndoReaches
  <2>2. QED  BY <2>1 DEF GoesBack
<1>13. k \in Nat /\ k \in 0..Len(list)  BY <1>12
<1>14. UndoList(rest) /\ rest \in Seq(Records) /\ Len(rest) = Len(list) - k
       /\ \A i \in 1..Len(rest) : Alike(list[i + k], rest[i])
  <2>1. PICK base : base = { T[Len(list)] }  OBVIOUS
  <2>2. T[Len(list)] \in base  BY <2>1
  <2>3. UndoList(rest)  BY <1>9, <1>12, <2>2, UndoBelow
  <2>4. /\ rest \in Seq(Records) /\ Len(rest) = Len(list) - k
        /\ \A i \in 1..Len(rest) : rest[i] = list[i + k]
    BY <1>9, <1>12, RestIs
  <2>5. QED  BY <2>3, <2>4 DEF Alike
<1>15. PICK R : UndoTexts(rest, R) /\ R[0] = T[k] /\ Below(R, T, k, Len(rest))
  <2>1. PICK R : /\ UndoTexts(rest, R) /\ R[0] = T[k] /\ R[Len(rest)] = T[Len(list)]
                 /\ Below(R, T, k, Len(rest))
    BY <1>12, <1>13, <1>14, TextsBelow
  <2>2. QED  BY <2>1
<1>16. PICK E, l, E2, l2 : /\ E = UndoEnds(rest) /\ l = Len(rest)
                           /\ E2 = UndoEnds(list) /\ l2 = Len(list)
  OBVIOUS
<1>17. Stacked(E, l, k, E2, l2)  BY <1>9, <1>12, <1>16, RestStacks
<1>18. Behind(E2, l2, T, Len(past), Backwards(past))
  <2>1. UndoEnds(list) = UndoEnds(undo) /\ Len(list) = Len(undo)  BY <1>1, <1>5, CloseEnds
  <2>2. QED  BY <1>3, <1>16, <2>1
<1>19. PICK q : q = SubSeq(past, 1, Len(past) - 1)  OBVIOUS
<1>20. Len(past) # 0
  <2>1. PICK S : S = [j \in 1..(Len(past) - 1) |-> Backwards(past)[j + 1]]  OBVIOUS
  <2>2. \A j \in 1..(Len(past) - 1) : S[j] = Backwards(past)[j + 1]  BY <2>1
  <2>3. Below(R, T, k, l)  BY <1>15, <1>16
  <2>4. PICK p : p = Len(past) - 1  OBVIOUS
  <2>5. QED  BY <1>17, <1>18, <2>2, <2>3, <2>4, StepTaken
<1>21. /\ q \in Seq(Text) /\ Len(q) = Len(past) - 1
       /\ Backwards(past)[1] = past[Len(past)]
       /\ \A j \in 1..(Len(past) - 1) : Backwards(q)[j] = Backwards(past)[j + 1]
  BY <1>2, <1>19, <1>20, ShorterBack
<1>22. Backwards(past)[1] = R[0] /\ Behind(E, l, R, Len(q), Backwards(q))
  <2>1. Below(R, T, k, l)  BY <1>15, <1>16
  <2>2. QED  BY <1>17, <1>18, <1>21, <2>1, StepTaken
<1>23. PastIs(closed, T[k], q)
  <2>1. UndoTexts(closed, R)  BY <1>10, <1>14, <1>15, CloseTexts
  <2>2. UndoEnds(closed) = E /\ Len(closed) = l  BY <1>10, <1>14, <1>16, CloseEnds
  <2>3. QED  BY <1>15, <1>21, <1>22, <2>1, <2>2 DEF PastIs
<1>24. PICK W : RedoTexts(to, W) /\ W[0] = T[k] /\ TextsMoved(T, U, k, Len(redo), W)
  <2>1. Terminated(T[0]) /\ U[0] = T[0]  BY <1>1, <1>3, <1>4
  <2>2. QED  BY <1>1, <1>4, <1>10, <1>12, <2>1, RedoGrows
<1>25. PICK f : f = << rows >> \o future  OBVIOUS
<1>26. f \in Seq(Text) /\ Len(f) = Len(future) + 1 /\ f[1] = U[0]
       /\ \A j \in 1..Len(future) : f[j + 1] = future[j]
  BY <1>1, <1>2, <1>4, <1>25, LongerAhead
<1>27. FutureIs(to, T[k], f)
  <2>1. Stacked(RedoEnds(redo), Len(redo), k, RedoEnds(to), Len(to))
    BY <1>1, <1>10, <1>12, UndoneStacks
  <2>2. Below(U, W, k, Len(redo))
    <3>1. Len(redo) \in Nat  BY <1>1, ListElements DEF RedoList
    <3>2. QED  BY <1>13, <1>24, <3>1, MovedBelow
  <2>3. Behind(RedoEnds(to), Len(to), W, Len(f), f)
    BY <1>4, <1>26, <2>1, <2>2, StepAdded
  <2>4. QED  BY <1>24, <1>26, <2>3 DEF FutureIs
<1>28. rows' = past[Len(past)]  BY <1>11, <1>12, <1>15, <1>21, <1>22
<1>29. past # <<>>  BY <1>20
<1>30. Open' = FALSE
  <2>1. (closed # <<>> /\ closed[1].append) = FALSE  BY <1>10, <1>14, ClosedIsNotOpen
  <2>2. QED  BY <1>11, <2>1 DEF Open
<1>31. QED  BY <1>11, <1>12, <1>19, <1>23, <1>25, <1>27, <1>28, <1>29, <1>30

(* What a redo makes of it. *)
LEMMA RedoRecorded ==
  ASSUME HInv, RecordedRedo, redo # <<>>
  PROVE  /\ PastIs(undo', rows', past') /\ FutureIs(redo', rows', future')
         /\ future # <<>> /\ rows' = future[1]
         /\ future' = Tail(future) /\ past' = Append(past, rows)
         /\ Open' = FALSE
<1>1. Inv /\ PastIs(undo, rows, past) /\ FutureIs(redo, rows, future)
      /\ rows \in Text /\ UndoList(undo) /\ RedoList(redo) /\ Terminated(rows)
  BY DEF HInv, Remembered, Inv, TypeOK, FinalNewline
<1>2. /\ past \in Seq(Text) /\ Len(past) \in Nat /\ future \in Seq(Text) /\ Len(future) \in Nat
  BY <1>1 DEF PastIs, FutureIs
<1>3. PICK U : /\ UndoTexts(undo, U) /\ U[0] = rows
               /\ Behind(UndoEnds(undo), Len(undo), U, Len(past), Backwards(past))
  BY <1>1 DEF PastIs
<1>4. PICK T : /\ RedoTexts(redo, T) /\ T[0] = rows
               /\ Behind(RedoEnds(redo), Len(redo), T, Len(future), future)
  BY <1>1 DEF FutureIs
<1>5. PICK to : to = UndoCloseRun(undo)  OBVIOUS
<1>6. PICK k : k = RedoLength(redo)  OBVIOUS
<1>7. PICK is_redo \in BOOLEAN : is_redo = TRUE  OBVIOUS
<1>8. PICK m : m = ReplayAll(Current, redo, k, is_redo)  OBVIOUS
<1>9. PICK rest, list : rest = SubSeq(redo, k + 1, Len(redo)) /\ list = Moved(redo, to, k)
  OBVIOUS
<1>10. /\ rows' = m.rows /\ undo' = list /\ redo' = rest
       /\ past' = Append(past, rows) /\ future' = Tail(future)
  BY <1>5, <1>6, <1>7, <1>8, <1>9 DEF RecordedRedo, DoRedo
<1>11. /\ redo \in Seq(Records) /\ Len(redo) \in Nat
       /\ k \in 1..Len(redo) /\ (k = Len(redo) \/ ~redo[k + 1].paired)
       /\ \A j \in 2..k : redo[j].paired
       /\ m.rows = T[k]
  <2>1. GoesOn(T, k, m)  BY <1>1, <1>4, <1>6, <1>7, <1>8, RedoReaches
  <2>2. QED  BY <2>1 DEF GoesOn
<1>12. k \in Nat /\ ~redo[1].paired
  <2>1. redo # <<>>  OBVIOUS
  <2>2. QED  BY <1>1, <1>11, <2>1 DEF RedoList
<1>13. /\ UndoList(to) /\ to \in Seq(Records) /\ Len(to) \in Nat
       /\ \A i \in 1..Len(to) : ~to[i].append
       /\ UndoTexts(to, U)
       /\ Behind(UndoEnds(to), Len(to), U, Len(past), Backwards(past))
  <2>1. /\ UndoList(to) /\ Len(to) = Len(undo)
        /\ \A i \in 1..Len(undo) : ~to[i].append
    BY <1>1, <1>5, CloseKeeps
  <2>2. UndoTexts(to, U)  BY <1>1, <1>3, <1>5, CloseTexts
  <2>3. UndoEnds(to) = UndoEnds(undo) /\ Len(to) = Len(undo)  BY <1>1, <1>5, CloseEnds
  <2>4. to \in Seq(Records) /\ Len(to) \in Nat  BY <2>1, ListElements DEF UndoList
  <2>5. QED  BY <1>3, <2>1, <2>2, <2>3, <2>4
<1>14. UndoList(list)
       /\ \E W : UndoTexts(list, W) /\ W[0] = T[k] /\ TextsMoved(T, U, k, Len(to), W)
  <2>1. PICK base : base = { U[Len(to)] }  OBVIOUS
  <2>2. U[Len(to)] \in base /\ Terminated(T[0]) /\ U[0] = T[0]  BY <1>1, <1>3, <1>4, <2>1
  <2>3. QED  BY <1>1, <1>4, <1>9, <1>11, <1>13, <2>2, UndoGrows
<1>15. PICK W : UndoTexts(list, W) /\ W[0] = T[k] /\ TextsMoved(T, U, k, Len(to), W)
  BY <1>14
<1>16. PICK q : q = Append(past, rows)  OBVIOUS
<1>17. /\ q \in Seq(Text) /\ Len(q) = Len(past) + 1
       /\ Backwards(q)[1] = U[0]
       /\ \A j \in 1..Len(past) : Backwards(q)[j + 1] = Backwards(past)[j]
  <2>1. past \in Seq(Text) /\ rows \in Text  BY <1>1, <1>2
  <2>2. BackTo(past, q, rows)  BY <1>16, <2>1, LongerBack
  <2>3. U[0] = rows  BY <1>3
  <2>4. QED  BY <2>2, <2>3 DEF BackTo
<1>18. PastIs(list, T[k], q)
  <2>1. Stacked(UndoEnds(to), Len(to), k, UndoEnds(list), Len(list))
    BY <1>9, <1>11, <1>12, <1>13, RedoneStacks
  <2>2. Below(U, W, k, Len(to))  BY <1>12, <1>13, <1>15, MovedBelow
  <2>3. Behind(UndoEnds(list), Len(list), W, Len(q), Backwards(q))
    BY <1>13, <1>17, <2>1, <2>2, StepAdded
  <2>4. QED  BY <1>15, <1>17, <2>3 DEF PastIs
<1>19. PICK R : RedoTexts(rest, R) /\ R[0] = T[k] /\ Below(R, T, k, Len(rest))
  BY <1>1, <1>4, <1>9, <1>11, RedoBelow
<1>20. PICK E, l, E2, l2 : /\ E = RedoEnds(rest) /\ l = Len(rest)
                           /\ E2 = RedoEnds(redo) /\ l2 = Len(redo)
  OBVIOUS
<1>21. Stacked(E, l, k, E2, l2)  BY <1>9, <1>11, <1>20, RestRedoStacks
<1>22. Behind(E2, l2, T, Len(future), future) /\ Below(R, T, k, l)  BY <1>4, <1>19, <1>20
<1>23. Len(future) # 0
  <2>1. PICK S : S = [j \in 1..(Len(future) - 1) |-> future[j + 1]]  OBVIOUS
  <2>2. \A j \in 1..(Len(future) - 1) : S[j] = future[j + 1]  BY <2>1
  <2>3. PICK p : p = Len(future) - 1  OBVIOUS
  <2>4. QED  BY <1>21, <1>22, <2>2, <2>3, StepTaken
<1>24. PICK f : f = Tail(future)  OBVIOUS
<1>25. f \in Seq(Text) /\ Len(f) = Len(future) - 1
       /\ \A j \in 1..(Len(future) - 1) : f[j] = future[j + 1]
  BY <1>2, <1>23, <1>24, ShorterAhead
<1>26. future[1] = R[0] /\ Behind(E, l, R, Len(f), f)  BY <1>21, <1>22, <1>25, StepTaken
<1>27. FutureIs(rest, T[k], f)  BY <1>19, <1>20, <1>25, <1>26 DEF FutureIs
<1>28. rows' = future[1] /\ future # <<>>  BY <1>10, <1>11, <1>19, <1>23, <1>26
<1>29. Open' = FALSE
  <2>1. ~list[1].append
    <3>1. MovedFacts(redo, to, k, list)  BY <1>9, <1>11, <1>13, ListMoved
    <3>2. 1 \in 1..Len(list)  BY <1>11, <1>12, <1>13, <3>1 DEF MovedFacts
    <3>3. QED  BY <3>1, <3>2 DEF MovedFacts
  <2>2. QED  BY <1>10, <2>1 DEF Open
<1>30. QED  BY <1>10, <1>11, <1>16, <1>18, <1>24, <1>27, <1>28, <1>29

-----------------------------------------------------------------------------
(* The refinement *)

LEMMA BeginsRemembered ==
  ASSUME HInit
  PROVE  HInv /\ History!HistoryInit
<1>1. Init /\ past = <<>> /\ future = <<>>  BY DEF HInit
<1>2. Inv  BY <1>1, InitOK
<1>3. rows \in Text  BY <1>2 DEF Inv, TypeOK
<1>4. undo = <<>> /\ redo = <<>>  BY <1>1 DEF Init
<1>5. PastIs(undo, rows, past) /\ FutureIs(redo, rows, future)
  BY <1>1, <1>3, <1>4, NoPast, NoFuture
<1>6. HInv  BY <1>2, <1>5 DEF HInv, Remembered
<1>7. History!HistoryInit  BY <1>1, <1>3, <1>4 DEF History!HistoryInit
<1>8. QED  BY <1>6, <1>7

LEMMA RecordedIsNext ==
  ASSUME [HNext]_historyVars
  PROVE  [Next]_vars
<1>1. CASE RecordedEdit  BY <1>1 DEF RecordedEdit, Editing, Next
<1>2. CASE RecordedUndo  BY <1>2 DEF RecordedUndo, Next
<1>3. CASE RecordedRedo  BY <1>3 DEF RecordedRedo, Next
<1>4. CASE RecordedOther  BY <1>4 DEF RecordedOther, Others, Next
<1>5. CASE UNCHANGED historyVars  BY <1>5 DEF historyVars
<1>6. QED  BY <1>1, <1>2, <1>3, <1>4, <1>5 DEF HNext

(* Nothing the history is made of is touched. *)
Still == UNCHANGED <<rows, undo, redo, past, future>>

LEMMA OthersStill ==
  ASSUME RecordedOther \/ UNCHANGED historyVars
  PROVE  Still
<1>1. CASE RecordedOther
  <2>1. UNCHANGED <<past, future>>  BY <1>1 DEF RecordedOther
  <2>2. CASE SaveBuffer  BY <2>1, <2>2 DEF SaveBuffer, Still
  <2>3. CASE ToggleReadOnly  BY <2>1, <2>3 DEF ToggleReadOnly, Still
  <2>4. CASE Remember  BY <2>1, <2>4 DEF Remember, Hold, Still
  <2>5. CASE Look  BY <2>1, <2>5 DEF Look, Scroll, Still
  <2>6. QED  BY <1>1, <2>2, <2>3, <2>4, <2>5 DEF RecordedOther, Others
<1>2. CASE UNCHANGED historyVars  BY <1>2 DEF historyVars, vars, Still
<1>3. QED  BY <1>1, <1>2

(* A redo with nothing to redo closes the run of the undo list. *)
LEMMA OnlyCloses ==
  ASSUME HInv, RecordedRedo, redo = <<>>
  PROVE  /\ PastIs(undo', rows', past') /\ FutureIs(redo', rows', future')
         /\ UNCHANGED <<rows, past, future>>
         /\ Open' = FALSE
<1>1. /\ undo' = UndoCloseRun(undo)
      /\ UNCHANGED <<rows, redo, past, future>>
  BY DEF RecordedRedo, DoRedo
<1>2. UndoList(undo) /\ PastIs(undo, rows, past) /\ FutureIs(redo, rows, future)
  BY DEF HInv, Remembered, Inv
<1>3. PICK closed : closed = UndoCloseRun(undo)  OBVIOUS
<1>4. UndoEnds(closed) = UndoEnds(undo) /\ Len(closed) = Len(undo)
  BY <1>2, <1>3, CloseEnds
<1>5. PICK T : /\ UndoTexts(undo, T) /\ T[0] = rows
               /\ Behind(UndoEnds(undo), Len(undo), T, Len(past), Backwards(past))
  BY <1>2 DEF PastIs
<1>6. UndoTexts(closed, T)  BY <1>2, <1>3, <1>5, CloseTexts
<1>7. PastIs(closed, rows, past)  BY <1>2, <1>4, <1>5, <1>6 DEF PastIs
<1>8. (closed # <<>> /\ closed[1].append) = FALSE  BY <1>2, <1>3, ClosedIsNotOpen
<1>9. Open' = FALSE  BY <1>1, <1>3, <1>8 DEF Open
<1>10. QED  BY <1>1, <1>2, <1>3, <1>7, <1>9

LEMMA StaysRemembered ==
  ASSUME HInv, [HNext]_historyVars
  PROVE  HInv'
<1>1. Inv'
  <2>1. [Next]_vars  BY RecordedIsNext
  <2>2. QED  BY <2>1, NextKeeps DEF HInv
<1>2. PastIs(undo', rows', past') /\ FutureIs(redo', rows', future')
  <2>1. PastIs(undo, rows, past) /\ FutureIs(redo, rows, future)  BY DEF HInv, Remembered
  <2>2. CASE RecordedEdit  BY <2>2, EditRecorded
  <2>3. CASE RecordedUndo /\ undo # <<>>  BY <2>3, UndoRecorded
  <2>4. CASE RecordedUndo /\ undo = <<>>
    <3>1. Still  BY <2>4 DEF RecordedUndo, DoUndo, NothingToUndo, Still
    <3>2. QED  BY <2>1, <3>1 DEF Still
  <2>5. CASE RecordedRedo /\ redo # <<>>  BY <2>5, RedoRecorded
  <2>6. CASE RecordedRedo /\ redo = <<>>  BY <2>6, OnlyCloses
  <2>7. CASE RecordedOther \/ UNCHANGED historyVars
    <3>1. Still  BY <2>7, OthersStill
    <3>2. QED  BY <2>1, <3>1 DEF Still
  <2>8. QED  BY <2>2, <2>3, <2>4, <2>5, <2>6, <2>7 DEF HNext
<1>3. Remembered'  BY <1>2 DEF Remembered
<1>4. QED  BY <1>1, <1>3 DEF HInv

(* Each step of the program is a step of the history, or none. *)
LEMMA StepIsHistory ==
  ASSUME HInv, HInv', [HNext]_historyVars
  PROVE  [History!HistoryNext]_(History!hvars)
<1>1. rows' \in Text  BY DEF HInv, Inv, TypeOK
<1>2. Open' \in BOOLEAN
  <2>1. undo' \in Seq(Records)  BY DEF HInv, Inv, UndoList
  <2>2. PICK list : list = undo'  OBVIOUS
  <2>3. (list # <<>> /\ list[1].append) \in BOOLEAN  BY <2>1, <2>2, OpenTyped
  <2>4. QED  BY <2>2, <2>3 DEF Open
<1>3. CASE RecordedEdit
  <2>1. \/ UNCHANGED <<rows, undo, past, future>>
        \/ /\ future' = <<>>
           /\ past' = Append(past, rows) \/ (Open = TRUE /\ past' = past)
    BY <1>3, EditRecorded
  <2>2. CASE UNCHANGED <<rows, undo, past, future>>  BY <2>2 DEF History!hvars
  <2>3. CASE /\ future' = <<>>
             /\ past' = Append(past, rows) \/ (Open = TRUE /\ past' = past)
    <3>1. History!EditStep
      BY <1>1, <1>2, <2>3 DEF History!EditStep, History!NewStep, History!JoinStep, Open
    <3>2. QED  BY <3>1 DEF History!HistoryNext
  <2>4. QED  BY <2>1, <2>2, <2>3
<1>4. CASE RecordedUndo /\ undo # <<>>
  <2>1. History!UndoStep  BY <1>4, UndoRecorded DEF History!UndoStep, Open
  <2>2. QED  BY <2>1 DEF History!HistoryNext
<1>5. CASE RecordedUndo /\ undo = <<>>
  <2>1. Still  BY <1>5 DEF RecordedUndo, DoUndo, NothingToUndo, Still
  <2>2. QED  BY <2>1 DEF Still, History!hvars
<1>6. CASE RecordedRedo /\ redo # <<>>
  <2>1. History!RedoStep  BY <1>6, RedoRecorded DEF History!RedoStep, Open
  <2>2. QED  BY <2>1 DEF History!HistoryNext
<1>7. CASE RecordedRedo /\ redo = <<>>
  <2>1. History!CloseStep  BY <1>7, OnlyCloses DEF History!CloseStep, Open
  <2>2. QED  BY <2>1 DEF History!HistoryNext
<1>8. CASE RecordedOther \/ UNCHANGED historyVars
  <2>1. Still  BY <1>8, OthersStill
  <2>2. QED  BY <2>1 DEF Still, History!hvars
<1>9. QED  BY <1>3, <1>4, <1>5, <1>6, <1>7, <1>8 DEF HNext

(* The undo and redo lists implement the history of texts of EditHistory:   *)
(* an edit starts a step or grows the open one, an undo brings back exactly *)
(* the text its step started from, a redo the one it ended in, and nothing  *)
(* else changes what lies behind (undo.c and mutate.c together).            *)
THEOREM RefinesEditHistory == HSpec => ImplementsHistory
<1>1. HInit => HInv /\ History!HistoryInit  BY BeginsRemembered
<1>2. HInv /\ [HNext]_historyVars => HInv'  BY StaysRemembered
<1>3. HInv /\ HInv' /\ [HNext]_historyVars => [History!HistoryNext]_(History!hvars)
  BY StepIsHistory
<1>4. QED
  BY <1>1, <1>2, <1>3, PTL DEF HSpec, ImplementsHistory, History!HistorySpec

=============================================================================
