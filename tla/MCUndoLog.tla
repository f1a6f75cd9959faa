----------------------------- MODULE MCUndoLog -----------------------------
(* Small instances of UndoLog for TLC: what the holders and windows hold.  *)
EXTENDS UndoLog, TLC

CONSTANT a

MCPayload   == { << <<a>>, <<>> >> }
MCRectangle == { << <<a>>, <<a>> >> }
MCInitText  == { EmptyText, << <<a>>, <<>> >> }

(* What the places held depend on: nothing below reads the file's state.   *)
Places == <<rows, undo, redo, point, tracked, views>>

Symmetry == Permutations(Holder)

=============================================================================
