------------------------------ MODULE UndoLog ------------------------------
(***************************************************************************)
(* One buffer under editing: the mutation layer (mutate.c), the undo and   *)
(* redo lists it records into and replays from (undo.c), the positions it  *)
(* keeps up to date (adjust.c), and the commands that drive it (edit.c,    *)
(* region.c).  The editor is single-threaded, so a command is one action.  *)
(*                                                                         *)
(* Motion is folded into the commands: each one starts at any position p   *)
(* of the text, where the motion commands can have left the cursor, and    *)
(* leaves the cursor in "point".                                           *)
(***************************************************************************)
EXTENDS TextRows

CONSTANTS
  Holder,             (* Places that hold a position: mark, mark ring slot, *)
                      (* unfocused window, point register.                  *)
  View,               (* Windows showing the buffer.                        *)
  NoPoint,            (* What a holder holds when unset.                    *)
  Payload,            (* What yank, insert-file and replacements insert.    *)
  Rectangle,          (* Rectangle kills: rows of one width, none empty.    *)
  Pad,                (* The space byte a rectangle pads short rows with.   *)
  InitText,           (* The texts a buffer is loaded with.                 *)
  WantsFinalNewline,  (* TRUE for every buffer but the minibuffer.          *)
  MergeLimit,         (* UNDO_MERGE_LIMIT.                                  *)
  MaxRows, MaxCols,   (* Bounds on the text,                                *)
  MaxRecords,         (* on the undo list when an edit is made,             *)
  MaxSkip             (* and on the sub-lines a view can have skipped.      *)

ASSUME ByteAssumption      == Pad \in Byte
ASSUME PayloadAssumption   == Payload \subseteq Text \ {EmptyText}
ASSUME RectangleAssumption == \A r \in Rectangle : r \in Text /\ \A i \in 1..Len(r) : r[i] # <<>>
ASSUME FlagAssumption      == WantsFinalNewline \in BOOLEAN
ASSUME BoundAssumption     == {MergeLimit, MaxRows, MaxCols, MaxRecords, MaxSkip} \subseteq Nat
ASSUME NoPointAssumption   == NoPoint \notin Position

VARIABLES
  rows,          (* buf->row                                              *)
  undo, redo,    (* buf->undo, buf->redo: head first                      *)
  point,         (* buf->cx, buf->cy                                      *)
  tracked,       (* what each holder holds                                *)
  views,         (* each window's rowoff and skip_sublines                *)
  dirty, internal_mod, read_only,
  disk           (* the text last read from or written to the file        *)

vars == <<rows, undo, redo, point, tracked, views, dirty, internal_mod, read_only, disk>>

-----------------------------------------------------------------------------
(* Undo records *)

Record == [start : Position, end : Position, data : Text, delete : BOOLEAN,
           paired : BOOLEAN, append : BOOLEAN, nmerges : Nat]

NewRecord(s, d, delete, paired, append) ==
  [start |-> s, end |-> ComputeInsertEnd(d, s), data |-> d, delete |-> delete,
   paired |-> paired, append |-> append, nmerges |-> 0]

UndoCloseRun(list) ==
  IF list = <<>> THEN list ELSE [list EXCEPT ![1] = [@ EXCEPT !.append = FALSE]]

(* Whether new joins prev: typing, repeated C-d, or backspace. *)
Typing(prev, new)        == ~new.delete /\ prev.end = new.start
ForwardDelete(prev, new) == new.delete /\ prev.start = new.start
Backspacing(prev, new)   == new.delete /\ prev.start # new.start /\ prev.start = new.end

CanMerge(prev, new) ==
  /\ prev.append
  /\ prev.delete = new.delete
  /\ ~prev.paired /\ ~new.paired
  /\ prev.nmerges < MergeLimit
  /\ Typing(prev, new) \/ ForwardDelete(prev, new) \/ Backspacing(prev, new)

(* new folded into prev; a backspace goes in front, and the record then     *)
(* starts where new does.  (Fault: it starts where prev did.)               *)
UndoMerge_StartKept(prev, new) ==
  LET data == IF Backspacing(prev, new) THEN Concat(new.data, prev.data)
                                        ELSE Concat(prev.data, new.data)
  IN  [prev EXCEPT !.data = data, !.nmerges = @ + 1,
                   !.end = ComputeInsertEnd(data, prev.start)]

UndoMerge(prev, new) ==
  LET start == IF Backspacing(prev, new) THEN new.start ELSE prev.start
      data  == IF Backspacing(prev, new) THEN Concat(new.data, prev.data)
                                         ELSE Concat(prev.data, new.data)
  IN  [prev EXCEPT !.start = start, !.data = data, !.nmerges = @ + 1,
                   !.end = ComputeInsertEnd(data, start)]

(* A record that is not folded in closes the run.  (Fault: it leaves it open.) *)
PushUndo_RunLeftOpen(list, new) ==
  IF new.append /\ list # <<>> /\ CanMerge(list[1], new)
  THEN << UndoMerge(list[1], new) >> \o Tail(list)
  ELSE << new >> \o list

PushUndo(list, new) ==
  IF new.append /\ list # <<>> /\ CanMerge(list[1], new)
  THEN << UndoMerge(list[1], new) >> \o Tail(list)
  ELSE << new >> \o UndoCloseRun(list)

-----------------------------------------------------------------------------
(***************************************************************************)
(* What the mutation layer changes, as one record m: a command threads it  *)
(* through the mutations it makes, in the order it makes them.             *)
(***************************************************************************)
Current == [rows |-> rows, undo |-> undo, tracked |-> tracked, views |-> views]

AdjustAllPoints(m, s, e, is_delete) ==
  [m EXCEPT
     !.tracked = [h \in Holder |-> IF @[h] = NoPoint THEN NoPoint
                                   ELSE AdjustPoint(@[h], s, e, is_delete)],
     !.views   = [w \in View |-> AdjustRowIndex(@[w], s, e, is_delete)]]

(* bulkDelete and bulkInsert.  (Fault: the range is deleted, the positions  *)
(* in it are not told.)                                                     *)
DeleteText_Unadjusted(m, s, e) ==
  IF s.y >= NumRows(m.rows) THEN m ELSE [m EXCEPT !.rows = BulkDelete(m.rows, s, e)]

DeleteText(m, s, e) ==
  IF s.y >= NumRows(m.rows) THEN m
  ELSE LET r == ClampRange(m.rows, s, e)
       IN  [AdjustAllPoints(m, r[1], r[2], TRUE) EXCEPT !.rows = BulkDelete(m.rows, s, e)]

InsertText(m, s, d) ==
  [AdjustAllPoints(m, s, ComputeInsertEnd(d, s), FALSE)
     EXCEPT !.rows = BulkInsert(m.rows, s, d)]

PushRecord(m, rec) == [m EXCEPT !.undo = PushUndo(@, rec)]

BufferIsEmpty(t)   == t = EmptyText
EndsInNewline(t)   == Size(t, NumRows(t) - 1) = 0
Terminated(t)      == WantsFinalNewline => BufferIsEmpty(t) \/ EndsInNewline(t)

(* editorOpenBody gives a file without a final newline one. *)
ASSUME InitTextAssumption == InitText \subseteq { t \in Text : Terminated(t) }

(* The final row a mutation left non-empty is terminated again, as one more *)
(* record of the same undo step.  (Faults: it is not; as a step of its own.) *)
RestoreFinalNewline_Never(m) == m

RestoreFinalNewline_Unpaired(m) ==
  IF Terminated(m.rows) THEN m
  ELSE LET at == EndOf(m.rows)
       IN  InsertText(PushRecord(m, NewRecord(at, NewLine, FALSE, FALSE, FALSE)), at, NewLine)

RestoreFinalNewline(m) ==
  IF Terminated(m.rows) THEN m
  ELSE LET at == EndOf(m.rows)
       IN  InsertText(PushRecord(m, NewRecord(at, NewLine, FALSE, TRUE, FALSE)), at, NewLine)

(* Deleting exactly the newline that ends a non-empty last line is refused: *)
(* it would only be put back.                                               *)
DeletesOnlyFinalNewline(t, s, e, repl) ==
  /\ WantsFinalNewline
  /\ s # e /\ repl = EmptyText
  /\ NumRows(t) >= 2
  /\ EndsInNewline(t)
  /\ Size(t, NumRows(t) - 2) # 0
  /\ s = At(Size(t, NumRows(t) - 2), NumRows(t) - 2)
  /\ e = EndOf(t)

(* mutateReplaceEx on a writable buffer: delete s..e, insert repl at s, and *)
(* see to the final newline.                                                *)
ReplaceText(m, s, e, repl, chain, coalesce) ==
  LET old       == CollectRegionText(m.rows, s, e)
      deletes   == s # e
      inserts   == repl # EmptyText
      append    == coalesce /\ ~chain /\ ~(deletes /\ inserts)
      deleted   == IF ~deletes THEN m
                   ELSE DeleteText(PushRecord(m, NewRecord(s, old, TRUE, chain, append)), s, e)
      inserted  == IF ~inserts THEN deleted
                   ELSE InsertText(PushRecord(deleted,
                                     NewRecord(s, repl, FALSE, deletes \/ chain, append)),
                                   s, repl)
  IN  inserted

MutateReplaceEx(m, s, e, repl, chain, coalesce) ==
  RestoreFinalNewline(ReplaceText(m, s, e, repl, chain, coalesce))

(* mutateExtendRows: n empty rows after the last one. *)
MutateExtendRows(m, n) ==
  LET newlines == [i \in 1..(n + 1) |-> <<>>]
      at       == EndOf(m.rows)
      rec      == NewRecord(at, newlines, FALSE, FALSE, FALSE)
  IN  [AdjustAllPoints(PushRecord(m, rec), rec.start, rec.end, FALSE)
         EXCEPT !.rows = m.rows \o [i \in 1..n |-> <<>>]]

-----------------------------------------------------------------------------
(* Committing a mutation: what every mutation ends with. *)

Fits(t) ==
  /\ NumRows(t) <= MaxRows
  /\ \A y \in 0..(NumRows(t) - 1) : Size(t, y) <= MaxCols

(* An edit is made while there are fewer than MaxRecords records to undo. *)
HasRoom == Len(undo) < MaxRecords

Commit(m, p) ==
  /\ Fits(m.rows)
  /\ rows' = m.rows /\ undo' = m.undo /\ tracked' = m.tracked /\ views' = m.views
  /\ redo' = <<>>
  /\ dirty' = TRUE
  /\ point' = p
  /\ UNCHANGED <<internal_mod, read_only, disk>>

(* A command that edits s..e and leaves the cursor at p, refused when it    *)
(* asks for no more than the final newline: then only the cursor moves.     *)
Edit(s, e, repl, coalesce, p) ==
  /\ ~read_only /\ HasRoom
  /\ IF DeletesOnlyFinalNewline(rows, s, e, repl)
     THEN point' = p /\ UNCHANGED <<rows, undo, redo, tracked, views, dirty,
                                    internal_mod, read_only, disk>>
     ELSE Commit(MutateReplaceEx(Current, s, e, repl, FALSE, coalesce), p)

(* Self-insert and newline: one byte typed at p. *)
TypeByte(p, d) == Edit(p, p, d, TRUE, ComputeInsertEnd(d, p))

(* Yank, insert-file, a self-insert with a prefix argument. *)
InsertPayload(p, d) == Edit(p, p, d, FALSE, ComputeInsertEnd(d, p))

NextPosition(t, p) == IF p.x = Size(t, p.y) THEN At(0, p.y + 1) ELSE At(p.x + 1, p.y)
PrevPosition(t, p) == IF p.x > 0 THEN At(p.x - 1, p.y) ELSE At(Size(t, p.y - 1), p.y - 1)

DelChar(p) ==
  /\ p # EndOf(rows)
  /\ Edit(p, NextPosition(rows, p), EmptyText, TRUE, p)

BackSpace(p) ==
  /\ p # At(0, 0)
  /\ Edit(PrevPosition(rows, p), p, EmptyText, TRUE, PrevPosition(rows, p))

(* deleteRange: kill-region, kill-line and the other kills. *)
DeleteRange(s, e) == s # e /\ Edit(s, e, EmptyText, FALSE, s)

(* Query-replace, transpose, fill, case change of a region. *)
ReplaceRange(s, e, d) == s # e /\ Edit(s, e, d, FALSE, ComputeInsertEnd(d, s))

(* The rows the rectangle covers, each with its slice put in at column x. *)
RectangleRows(t, x, y, rect) ==
  [i \in 1..Len(rect) |->
     LET row == RowAt(t, y + i - 1)
         pre == IF Len(row) < x THEN Len(row) ELSE x
     IN  SubSeq(row, 1, pre) \o [j \in 1..(x - pre) |-> Pad] \o rect[i]
         \o SubSeq(row, pre + 1, Len(row))]

(* yankRectangle: rows the buffer lacks first, then the rectangle, paired   *)
(* to that extension when there was one.  (Fault: always paired.)           *)
YankRectangle_AlwaysPaired(p, rect) ==
  LET boty     == p.y + Len(rect) - 1
      missing  == boty - NumRows(rows) + 1
      extended == IF missing > 0 THEN MutateExtendRows(Current, missing) ELSE Current
      m        == MutateReplaceEx(extended, At(0, p.y), At(Size(extended.rows, boty), boty),
                                  RectangleRows(extended.rows, p.x, p.y, rect), TRUE, FALSE)
  IN  ~read_only /\ HasRoom /\ Commit(m, p)

YankRectangle(p, rect) ==
  LET boty     == p.y + Len(rect) - 1
      missing  == boty - NumRows(rows) + 1
      extended == IF missing > 0 THEN MutateExtendRows(Current, missing) ELSE Current
      m        == MutateReplaceEx(extended, At(0, p.y), At(Size(extended.rows, boty), boty),
                                  RectangleRows(extended.rows, p.x, p.y, rect),
                                  missing > 0, FALSE)
  IN  ~read_only /\ HasRoom /\ Commit(m, p)

-----------------------------------------------------------------------------
(* Undo and redo *)

(* undoStep: replay rec and put the cursor where it ends. *)
Replay(m, rec, is_delete) ==
  IF is_delete THEN DeleteText(m, rec.start, rec.end)
               ELSE InsertText(m, rec.start, rec.data)

(* How many records one undo (one redo) replays: an undo goes on past a     *)
(* paired record, a redo goes on to one.  (Fault: it stops short of it.)    *)
UndoLength(list) ==
  CHOOSE k \in 1..Len(list) :
    /\ \A j \in 1..(k - 1) : list[j].paired
    /\ k = Len(list) \/ ~list[k].paired

RedoLength_One(list) == 1

RedoLength(list) ==
  CHOOSE k \in 1..Len(list) :
    /\ \A j \in 2..k : list[j].paired
    /\ k = Len(list) \/ ~list[k + 1].paired

(* m after the first k records of list have been replayed. *)
ReplayAll(m, list, k, is_redo) ==
  LET after[i \in 0..k] ==
        IF i = 0 THEN m
        ELSE Replay(after[i - 1], list[i], list[i].delete = is_redo)
  IN  after[k]

(* The first k records of from, replayed, on top of to: each run is closed. *)
Moved(from, to, k) ==
  [i \in 1..k |-> [from[k + 1 - i] EXCEPT !.append = FALSE]] \o to

(* markBufferClean, reached when there is nothing left to undo: the text is *)
(* the one the file was read with unless it has been saved since.  (Fault:  *)
(* it is taken to be that in every case.)                                   *)
NothingToUndo_AlwaysClean ==
  /\ dirty' = FALSE
  /\ UNCHANGED <<rows, redo, point, tracked, views, internal_mod, read_only, disk>>

NothingToUndo ==
  /\ dirty' = (dirty /\ internal_mod)
  /\ UNCHANGED <<rows, redo, point, tracked, views, internal_mod, read_only, disk>>

DoUndo ==
  /\ ~read_only
  /\ IF undo = <<>>
     THEN NothingToUndo /\ UNCHANGED undo
     ELSE LET list == UndoCloseRun(undo)
              k    == UndoLength(list)
              m    == ReplayAll(Current, list, k, FALSE)
          IN  /\ rows' = m.rows /\ tracked' = m.tracked /\ views' = m.views
              /\ undo' = UndoCloseRun(SubSeq(list, k + 1, Len(list)))
              /\ redo' = Moved(list, redo, k)
              /\ point' = IF list[k].delete THEN list[k].end ELSE list[k].start
              /\ dirty' = IF list[k].paired THEN internal_mod ELSE TRUE
              /\ UNCHANGED <<internal_mod, read_only, disk>>

DoRedo ==
  /\ ~read_only
  /\ IF redo = <<>>
     THEN undo' = UndoCloseRun(undo)
          /\ UNCHANGED <<rows, redo, point, tracked, views, dirty, internal_mod, read_only, disk>>
     ELSE LET k == RedoLength(redo)
              m == ReplayAll(Current, redo, k, TRUE)
          IN  /\ rows' = m.rows /\ tracked' = m.tracked /\ views' = m.views
              /\ undo' = Moved(redo, UndoCloseRun(undo), k)
              /\ redo' = SubSeq(redo, k + 1, Len(redo))
              /\ point' = IF redo[k].delete THEN redo[k].start ELSE redo[k].end
              /\ dirty' = TRUE
              /\ UNCHANGED <<internal_mod, read_only, disk>>

-----------------------------------------------------------------------------
(* What surrounds the mutation layer *)

(* A save that reached the disk. *)
SaveBuffer ==
  /\ dirty' = FALSE /\ internal_mod' = TRUE /\ disk' = rows
  /\ UNCHANGED <<rows, undo, redo, point, tracked, views, read_only>>

ToggleReadOnly ==
  /\ read_only' = ~read_only
  /\ UNCHANGED <<rows, undo, redo, point, tracked, views, dirty, internal_mod, disk>>

(* set-mark, a push on the mark ring, a point register, a window left. *)
Hold(h, p) ==
  /\ tracked' = [tracked EXCEPT ![h] = p]
  /\ point' = p
  /\ UNCHANGED <<rows, undo, redo, views, dirty, internal_mod, read_only, disk>>

(* A window scrolls to a row of the text. *)
Scroll(w, y, k) ==
  /\ views' = [views EXCEPT ![w] = [rowoff |-> y, skip |-> k]]
  /\ UNCHANGED <<rows, undo, redo, point, tracked, dirty, internal_mod, read_only, disk>>

Init ==
  /\ rows \in InitText
  /\ disk = rows
  /\ undo = <<>> /\ redo = <<>>
  /\ point = At(0, 0)
  /\ tracked = [h \in Holder |-> NoPoint]
  /\ views = [w \in View |-> [rowoff |-> 0, skip |-> 0]]
  /\ dirty = FALSE /\ internal_mod = FALSE /\ read_only = FALSE

TypedPayload == { NewLine } \cup { << <<b>> >> : b \in Byte }

Type     == \E p \in Positions(rows), d \in TypedPayload : TypeByte(p, d)
Insert   == \E p \in Positions(rows), d \in Payload : InsertPayload(p, d)
Delete   == \E p \in Positions(rows) : DelChar(p)
Erase    == \E p \in Positions(rows) : BackSpace(p)
Kill     == \E s, e \in Positions(rows) : AtOrBefore(s, e) /\ DeleteRange(s, e)
Replace  == \E s, e \in Positions(rows), d \in Payload : AtOrBefore(s, e) /\ ReplaceRange(s, e, d)
YankRect == \E p \in Positions(rows), r \in Rectangle : YankRectangle(p, r)
Remember == \E h \in Holder, p \in Positions(rows) : Hold(h, p)
Look     == \E w \in View, y \in 0..(NumRows(rows) - 1), k \in 0..MaxSkip : Scroll(w, y, k)

Next ==
  \/ Type \/ Insert \/ Delete \/ Erase \/ Kill \/ Replace \/ YankRect
  \/ DoUndo \/ DoRedo
  \/ SaveBuffer \/ ToggleReadOnly \/ Remember \/ Look

Spec == Init /\ [][Next]_vars

-----------------------------------------------------------------------------
(* Type correctness of the editing state. *)
TypeOK ==
  /\ rows \in Text /\ disk \in Text
  /\ undo \in Seq(Record) /\ redo \in Seq(Record)
  /\ point \in Position
  /\ tracked \in [Holder -> Position \cup {NoPoint}]
  /\ views \in [View -> [rowoff : Nat, skip : Nat]]
  /\ dirty \in BOOLEAN /\ internal_mod \in BOOLEAN /\ read_only \in BOOLEAN

(* A record chained to the one before it (paired) always has one before it: *)
(* an undo never runs off the end of the list in the middle of a step, and  *)
(* a redo never starts in the middle of one (undo.c, doUndo and doRedo).    *)
PairsWhole ==
  /\ undo # <<>> => ~undo[Len(undo)].paired
  /\ redo # <<>> => ~redo[1].paired

(* Only the record at the head of the undo list can still take in an edit,  *)
(* and a run never folds more than UNDO_MERGE_LIMIT edits into it: an undo  *)
(* takes back one uninterrupted burst of bounded length (undo.c, pushUndo). *)
RunsClosed ==
  /\ \A i \in 2..Len(undo) : ~undo[i].append
  /\ \A i \in 1..Len(redo) : ~redo[i].append
  /\ \A i \in 1..Len(undo) : undo[i].nmerges <= MergeLimit /\ (undo[i].append => ~undo[i].paired)

(* The record each list would replay next describes the text as it is now:  *)
(* its range lies in the text and, where it is to be deleted, holds exactly *)
(* the record's bytes, so the clamping in bulkDelete never alters a replay. *)
Fitting(rec, is_delete) ==
  /\ rec.end = ComputeInsertEnd(rec.data, rec.start)
  /\ InText(rows, rec.start)
  /\ is_delete => InText(rows, rec.end)
                  /\ CollectRegionText(rows, rec.start, rec.end) = rec.data

RecordsFitText ==
  /\ undo # <<>> => Fitting(undo[1], ~undo[1].delete)
  /\ redo # <<>> => Fitting(redo[1], redo[1].delete)

(* mutate.c's final-newline invariant, after every command, undo and redo.  *)
FinalNewline == Terminated(rows)

(* A buffer shown as unmodified holds what its file was last known to hold: *)
(* undoing back to the text loaded cleans it only if that is still the text *)
(* on disk (undo.c doUndo, buffer.c markBufferClean).                       *)
CleanMatchesDisk == ~dirty => rows = disk

(* Every held position and every window's top row names a place of the text *)
(* after any command, with no clamping: windows out of focus, the ring and  *)
(* the registers are not clamped (adjust.c, buffer.c clampPositions).       *)
HeldInText ==
  /\ InText(rows, point)
  /\ \A h \in Holder : tracked[h] # NoPoint => InText(rows, tracked[h])
  /\ \A w \in View : views[w].rowoff < NumRows(rows)

(* An edit, an undo or a redo never swaps two held positions: what stood    *)
(* before something still stands before it or at it, so a region does not   *)
(* turn inside out (adjust.c adjustPoint over all the splices of a step).   *)
HeldInOrder ==
  [][ rows' # rows =>
        \A h, k \in Holder :
          /\ tracked[h] # NoPoint /\ tracked[k] # NoPoint
          /\ AtOrBefore(tracked[h], tracked[k])
          => AtOrBefore(tracked'[h], tracked'[k]) ]_vars

=============================================================================
