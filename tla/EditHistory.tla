---------------------------- MODULE EditHistory ----------------------------
(***************************************************************************)
(* What undo promises a user.  Behind the text lie the texts an undo goes  *)
(* back to (past, oldest first) and the texts a redo goes on to (future,   *)
(* nearest first).  An edit either starts a step of its own or, while the  *)
(* step before it is open, grows that step; undo and redo move by whole    *)
(* steps, close the open one and never make a text of their own.           *)
(***************************************************************************)
EXTENDS Sequences, Naturals

CONSTANT Texts       (* The texts a buffer can hold. *)

VARIABLES text, past, future, open

hvars == <<text, past, future, open>>

HistoryInit == text \in Texts /\ past = <<>> /\ future = <<>> /\ open = FALSE

(* A first edit of a step, and one that joins the open step. *)
NewStep  == past' = Append(past, text)
JoinStep == open /\ past' = past

EditStep ==
  /\ text' \in Texts
  /\ NewStep \/ JoinStep
  /\ future' = <<>>
  /\ open' \in BOOLEAN

UndoStep ==
  /\ past # <<>>
  /\ text' = past[Len(past)]
  /\ past' = SubSeq(past, 1, Len(past) - 1)
  /\ future' = << text >> \o future
  /\ open' = FALSE

RedoStep ==
  /\ future # <<>>
  /\ text' = future[1]
  /\ future' = Tail(future)
  /\ past' = Append(past, text)
  /\ open' = FALSE

CloseStep == open' = FALSE /\ UNCHANGED <<text, past, future>>

HistoryNext == EditStep \/ UndoStep \/ RedoStep \/ CloseStep

HistorySpec == HistoryInit /\ [][HistoryNext]_hvars

=============================================================================
