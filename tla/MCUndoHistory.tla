--------------------------- MODULE MCUndoHistory ---------------------------
(* Small instances of UndoHistory for TLC. *)
EXTENDS UndoHistory, TLC

CONSTANT a

MCPayload   == { << <<a>>, <<>> >> }
MCRectangle == { << <<a>>, <<a>> >> }
MCInitText  == { EmptyText, << <<a>>, <<>> >>, << <<a, a>>, <<>> >> }

=============================================================================
