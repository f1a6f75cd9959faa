------------------------------ MODULE MCRings ------------------------------
(* Rings of three kills and three marks.  The two meet in the commands that *)
(* kill and yank only, so one is explored to its bound while the other is   *)
(* short; and prompts, which leave the marks alone, before there are any.   *)
EXTENDS Rings

CONSTANTS a, b, r, z

Small ==
  /\ mark_ring_len = 0 \/ (kill_history = <<>> /\ undo = <<>>)
  /\ prompting => mark = Unset
=============================================================================
