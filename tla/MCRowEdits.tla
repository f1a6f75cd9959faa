---------------------------- MODULE MCRowEdits ----------------------------
(* A small instance of RowEdits for TLC: payloads with no, one and two     *)
(* newlines, with text before, between and after them.                     *)
EXTENDS RowEdits

CONSTANTS a, b

MCPayload == { << <<a>> >>, << <<b, a>> >>, NewLine, << <<a>>, <<b>> >>, << <<>>, <<b>>, <<>> >> }

=============================================================================
