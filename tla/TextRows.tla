------------------------------ MODULE TextRows ------------------------------
(***************************************************************************)
(* The text of a buffer and the two edits every mutation is made of        *)
(* (undo.c: bulkInsert, bulkDelete, computeInsertEnd; mutate.c:            *)
(* collectRegionText), and how a position held somewhere else moves when   *)
(* the text under it changes (adjust.c).                                   *)
(*                                                                         *)
(* A text is a non-empty sequence of rows, as struct buffer keeps it       *)
(* (buf->row, numrows >= 1).  A payload (the bytes of an undo record, of a *)
(* kill, of a replacement) is a text too: k newlines separate k + 1        *)
(* fragments, so inserting a payload is the splice bulkInsertRaw performs  *)
(* and no scan for '\n' is left.  Rows count from 0 in the code: row y of  *)
(* the text t is t[y + 1].                                                 *)
(***************************************************************************)
EXTENDS Integers, Sequences

CONSTANT Byte       (* The bytes a row can hold: every byte but newline. *)

Row  == Seq(Byte)
Text == Seq(Row) \ {<<>>}

EmptyText == << <<>> >>           \* no bytes: one empty row
NewLine   == << <<>>, <<>> >>     \* the one byte '\n'

NumRows(t)  == Len(t)
RowAt(t, y) == t[y + 1]
Size(t, y)  == Len(t[y + 1])

(***************************************************************************)
(* Positions.  A position names a byte of a row, or the end of the row.    *)
(***************************************************************************)
Position == [x : Nat, y : Nat]
At(x, y) == [x |-> x, y |-> y]

InText(t, p) == p.y < NumRows(t) /\ p.x <= Size(t, p.y)

AtOrBefore(p, q) == p.y < q.y \/ (p.y = q.y /\ p.x <= q.x)

EndOf(t) == At(Size(t, NumRows(t) - 1), NumRows(t) - 1)

Positions(t) == UNION { { At(x, y) : x \in 0..Size(t, y) } : y \in 0..(NumRows(t) - 1) }

(* Where the payload d ends when it is inserted at s.  (Fault: the column   *)
(* counts on across newlines.)                                             *)
ComputeInsertEnd_ColumnKept(d, s) == At(s.x + Len(d[Len(d)]), s.y + Len(d) - 1)

ComputeInsertEnd(d, s) ==
  At((IF Len(d) = 1 THEN s.x ELSE 0) + Len(d[Len(d)]), s.y + Len(d) - 1)

(* The payload d followed by the payload e. *)
Concat(d, e) ==
  SubSeq(d, 1, Len(d) - 1) \o << d[Len(d)] \o e[1] >> \o SubSeq(e, 2, Len(e))

(* The bytes of row y from column x on, and those before column x. *)
Tail0(t, x, y) == SubSeq(RowAt(t, y), x + 1, Size(t, y))
Head0(t, x, y) == SubSeq(RowAt(t, y), 1, x)

(* The text between s and e. *)
CollectRegionText(t, s, e) ==
  IF s.y = e.y
  THEN << SubSeq(RowAt(t, s.y), s.x + 1, e.x) >>
  ELSE << Tail0(t, s.x, s.y) >> \o SubSeq(t, s.y + 2, e.y) \o << Head0(t, e.x, e.y) >>

(***************************************************************************)
(* The splice of bulkInsertRaw: the first fragment ends the row's prefix,  *)
(* the last one begins its suffix.  An insertion into a row that does not  *)
(* exist is ignored.  (Fault: no row is made for an empty suffix.)         *)
(***************************************************************************)
BulkInsert_EmptySuffixDropped(t, s, d) ==
  IF d = EmptyText \/ s.y >= NumRows(t)
  THEN t
  ELSE LET suffix == IF Tail0(t, s.x, s.y) = <<>> /\ d[Len(d)] = <<>>
                     THEN <<>> ELSE << d[Len(d)] \o Tail0(t, s.x, s.y) >>
           first  == Concat(<< Head0(t, s.x, s.y) >>, SubSeq(d, 1, Len(d) - 1))
       IN  IF Len(d) = 1
           THEN [t EXCEPT ![s.y + 1] = Head0(t, s.x, s.y) \o d[1] \o Tail0(t, s.x, s.y)]
           ELSE SubSeq(t, 1, s.y) \o first \o suffix \o SubSeq(t, s.y + 2, NumRows(t))

BulkInsert(t, s, d) ==
  IF d = EmptyText \/ s.y >= NumRows(t)
  THEN t
  ELSE SubSeq(t, 1, s.y)
       \o Concat(Concat(<< Head0(t, s.x, s.y) >>, d), << Tail0(t, s.x, s.y) >>)
       \o SubSeq(t, s.y + 2, NumRows(t))

(***************************************************************************)
(* The clamping bulkDelete applies to a range before it uses it, and the   *)
(* deletion itself: interior rows go, the prefix of the first row meets    *)
(* the suffix of the last.  (Fault: the last row's own row stays behind.)   *)
(***************************************************************************)
ClampRange(t, s, e) ==
  LET ey == IF e.y >= NumRows(t) THEN NumRows(t) - 1 ELSE e.y
      sx == IF s.x > Size(t, s.y) THEN Size(t, s.y) ELSE s.x
      ex == IF e.x > Size(t, ey) THEN Size(t, ey) ELSE e.x
  IN  << At(sx, s.y), At(IF s.y = ey /\ ex < sx THEN sx ELSE ex, ey) >>

BulkDelete_LastRowKept(t, s, e) ==
  IF s.y >= NumRows(t)
  THEN t
  ELSE LET r == ClampRange(t, s, e)
       IN  SubSeq(t, 1, s.y)
           \o << Head0(t, r[1].x, s.y) \o Tail0(t, r[2].x, r[2].y) >>
           \o SubSeq(t, IF s.y = r[2].y THEN s.y + 2 ELSE r[2].y + 1, NumRows(t))

BulkDelete(t, s, e) ==
  IF s.y >= NumRows(t)
  THEN t
  ELSE LET r == ClampRange(t, s, e)
       IN  SubSeq(t, 1, s.y)
           \o << Head0(t, r[1].x, s.y) \o Tail0(t, r[2].x, r[2].y) >>
           \o SubSeq(t, r[2].y + 2, NumRows(t))

(***************************************************************************)
(* adjust.c: where the position p is after the range s..e has been deleted *)
(* or inserted.  (Faults: a position inside the deletion is not clamped,   *)
(* or is clamped to its end; an insertion that splits its row leaves the   *)
(* columns of what follows alone.)                                         *)
(***************************************************************************)
AdjustForDelete_Unclamped(p, s, e) ==
  IF AtOrBefore(p, s) THEN p
  ELSE IF p.y <= e.y THEN At(s.x + (p.x - e.x), s.y)
  ELSE At(p.x, p.y - (e.y - s.y))

AdjustForDelete_ClampedToEnd(p, s, e) ==
  IF AtOrBefore(p, s) THEN p
  ELSE IF AtOrBefore(p, e) THEN e
  ELSE IF p.y = e.y THEN At(s.x + (p.x - e.x), s.y)
  ELSE At(p.x, p.y - (e.y - s.y))

AdjustForInsert_ColumnKept(p, s, e) ==
  IF p.y < s.y \/ (p.y = s.y /\ p.x < s.x) THEN p
  ELSE At(p.x, p.y + (e.y - s.y))

AdjustForDelete(p, s, e) ==
  IF AtOrBefore(p, s) THEN p
  ELSE IF AtOrBefore(p, e) THEN s
  ELSE IF p.y = e.y THEN At(s.x + (p.x - e.x), s.y)
  ELSE At(p.x, p.y - (e.y - s.y))

AdjustForInsert(p, s, e) ==
  IF p.y < s.y \/ (p.y = s.y /\ p.x < s.x) THEN p
  ELSE IF p.y = s.y THEN At(e.x + (p.x - s.x), p.y + (e.y - s.y))
  ELSE At(p.x, p.y + (e.y - s.y))

AdjustPoint(p, s, e, is_delete) ==
  IF is_delete THEN AdjustForDelete(p, s, e) ELSE AdjustForInsert(p, s, e)

(***************************************************************************)
(* The same for a window's top row, v.rowoff, and the sub-lines of that    *)
(* row scrolled out of view, v.skip: the deletion that removes the top row *)
(* takes its sub-lines with it.  (Fault: a top row inside the deletion is  *)
(* moved up like one below it.)                                            *)
(***************************************************************************)
AdjustRowIndex_NotCollapsed(v, s, e, is_delete) ==
  LET delta == IF is_delete THEN s.y - e.y ELSE e.y - s.y
  IN  IF v.rowoff <= s.y THEN v ELSE [v EXCEPT !.rowoff = @ + delta]

AdjustRowIndex(v, s, e, is_delete) ==
  LET delta == e.y - s.y
  IN  IF is_delete
      THEN IF v.rowoff <= s.y THEN v
           ELSE IF v.rowoff <= e.y THEN [rowoff |-> s.y, skip |-> 0]
           ELSE [v EXCEPT !.rowoff = @ - delta]
      ELSE IF v.rowoff > s.y THEN [v EXCEPT !.rowoff = @ + delta] ELSE v

=============================================================================
