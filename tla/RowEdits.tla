------------------------------ MODULE RowEdits ------------------------------
(***************************************************************************)
(* The rows of a buffer under the two primitives every mutation is made    *)
(* of, with the positions adjust.c keeps, seen through the flat offsets of *)
(* buffer.c (bufTextLen, bufOffset, bufPos) and fileio.c's rowsToString.   *)
(***************************************************************************)
EXTENDS TextRows

CONSTANTS
  NL,                (* The newline byte.                     *)
  Holder, NoPoint,   (* What holds a position; holding none.  *)
  Payload,           (* What is inserted.                     *)
  MaxRows, MaxCols   (* Bounds on the text.                   *)

ASSUME NLAssumption     == NL \notin Byte
ASSUME UnsetAssumption  == NoPoint \notin Position \cup Nat
ASSUME InsertAssumption == Payload \subseteq Text \ {EmptyText}
ASSUME LimitAssumption  == {MaxRows, MaxCols} \subseteq Nat

VARIABLES rows, held

rvars == <<rows, held>>

-----------------------------------------------------------------------------
(* Flat offsets *)

(* rowsToString: a newline between every two rows, none after the last. *)
RowsToString(t) ==
  LET upto[y \in 1..Len(t)] == IF y = 1 THEN t[1] ELSE upto[y - 1] \o <<NL>> \o t[y]
  IN  upto[Len(t)]

(* The offset of the first byte of row y. *)
RowStart(t, y) ==
  LET start[i \in 0..y] == IF i = 0 THEN 0 ELSE start[i - 1] + Size(t, i - 1) + 1
  IN  start[y]

BufTextLen(t) == RowStart(t, NumRows(t)) - 1

(* A position past a row's end counts as its end, one past the last row as *)
(* lying on the last row.                                                  *)
BufOffset(t, p) ==
  LET y == IF p.y > NumRows(t) - 1 THEN NumRows(t) - 1 ELSE p.y
      x == IF p.x > Size(t, y) THEN Size(t, y) ELSE p.x
  IN  RowStart(t, y) + x

(* The first row whose end the offset does not pass.  (Fault: the end of a  *)
(* row is taken for the start of the next.)                                 *)
BufPos_EndInNextRow(t, off) ==
  LET reaches(y) == off < RowStart(t, y) + Size(t, y)
      last       == NumRows(t) - 1
  IN  IF \E y \in 0..last : reaches(y)
      THEN LET y == CHOOSE y \in 0..last : reaches(y) /\ \A z \in 0..(y - 1) : ~reaches(z)
           IN  At(off - RowStart(t, y), y)
      ELSE EndOf(t)

BufPos(t, off) ==
  LET reaches(y) == off <= RowStart(t, y) + Size(t, y)
  IN  IF \E y \in 0..(NumRows(t) - 1) : reaches(y)
      THEN LET y == CHOOSE y \in 0..(NumRows(t) - 1) :
                      reaches(y) /\ \A z \in 0..(y - 1) : ~reaches(z)
           IN  At(off - RowStart(t, y), y)
      ELSE EndOf(t)

-----------------------------------------------------------------------------
HeldAfter(s, e, is_delete) ==
  [h \in Holder |-> IF held[h] = NoPoint THEN NoPoint
                    ELSE AdjustPoint(held[h], s, e, is_delete)]

Fits(t) == NumRows(t) <= MaxRows /\ \A y \in 0..(NumRows(t) - 1) : Size(t, y) <= MaxCols

(* bulkInsert and bulkDelete, tracked positions included. *)
InsertAt(s, d) ==
  /\ rows' = BulkInsert(rows, s, d) /\ Fits(rows')
  /\ held' = HeldAfter(s, ComputeInsertEnd(d, s), FALSE)

DeleteBetween(s, e) ==
  LET r == ClampRange(rows, s, e)
  IN  /\ s # e
      /\ rows' = BulkDelete(rows, s, e)
      /\ held' = HeldAfter(r[1], r[2], TRUE)

HoldAt(h, p) == held' = [held EXCEPT ![h] = p] /\ UNCHANGED rows

Init == rows = EmptyText /\ held = [h \in Holder |-> NoPoint]

Insert == \E s \in Positions(rows), d \in Payload : InsertAt(s, d)
Delete == \E s, e \in Positions(rows) : AtOrBefore(s, e) /\ DeleteBetween(s, e)
HoldOne == \E h \in Holder, p \in Positions(rows) : HoldAt(h, p)

Next == Insert \/ Delete \/ HoldOne

Spec == Init /\ [][Next]_rvars

-----------------------------------------------------------------------------
TypeOK == rows \in Text /\ held \in [Holder -> Position \cup {NoPoint}]

(* A held position names a place of the text after any edit, with no        *)
(* clamping: nothing in the mutation layer clamps what it has adjusted.     *)
HeldInText == \A h \in Holder : held[h] # NoPoint => InText(rows, held[h])

(* The rows and the positions adjustPoint maintains behave as a string and  *)
(* offsets into it: a splice of rows is the splice of their bytes, and a    *)
(* mark, a ring entry or a register keeps standing at the same byte,        *)
(* whatever rows the edit joins or splits (undo.c bulkInsert and bulkDelete *)
(* with adjust.c adjustPoint).                                              *)
Flat == INSTANCE FlatText WITH
          Char  <- Byte \cup {NL},
          Mark  <- Holder,
          Unset <- NoPoint,
          str   <- RowsToString(rows),
          offs  <- [h \in Holder |-> IF held[h] = NoPoint THEN NoPoint
                                     ELSE BufOffset(rows, held[h])]

ImplementsFlatText == Flat!FlatSpec

(* bufOffset and bufPos are inverse to each other on every text, its empty  *)
(* rows and row boundaries included, they respect the order of positions,   *)
(* and the last offset is the length bufTextLen reports (the contract in    *)
(* buffer.h).                                                               *)
OffsetsInverse ==
  /\ BufTextLen(rows) = Len(RowsToString(rows))
  /\ \A p \in Positions(rows) : BufPos(rows, BufOffset(rows, p)) = p
  /\ \A off \in 0..BufTextLen(rows) : BufOffset(rows, BufPos(rows, off)) = off
  /\ \A p, q \in Positions(rows) : AtOrBefore(p, q) <=> BufOffset(rows, p) <= BufOffset(rows, q)

(* What undoStep relies on: a deletion is taken back by inserting the text  *)
(* collectRegionText took from the range, an insertion by deleting up to    *)
(* computeInsertEnd, wherever rows are split or joined.                     *)
EditsInvert ==
  /\ \A s, e \in Positions(rows) : AtOrBefore(s, e) =>
       LET d == CollectRegionText(rows, s, e)
       IN  /\ ComputeInsertEnd(d, s) = e
           /\ BulkInsert(BulkDelete(rows, s, e), s, d) = rows
  /\ \A s \in Positions(rows), d \in Payload :
       LET e == ComputeInsertEnd(d, s)
       IN  /\ CollectRegionText(BulkInsert(rows, s, d), s, e) = d
           /\ BulkDelete(BulkInsert(rows, s, d), s, e) = rows

(* What undoMerge relies on: two insertions end to end are one insertion of *)
(* the two payloads, ending where the second does, so a record that took in *)
(* the next edit replays both.                                              *)
InsertionsJoin ==
  \A s \in Positions(rows), d, e \in Payload :
    LET joint == ComputeInsertEnd(d, s)
    IN  /\ BulkInsert(BulkInsert(rows, s, d), joint, e) = BulkInsert(rows, s, Concat(d, e))
        /\ ComputeInsertEnd(Concat(d, e), s) = ComputeInsertEnd(e, joint)

=============================================================================
