------------------------------- MODULE MCKeys -------------------------------
(* Macros of about five keys: three, and C-x ). *)
EXTENDS Keys

(* The user ends the macro in time, and goes on from the main loop or from  *)
(* a prompt.                                                                *)
Small ==
  /\ e.recording /\ Len(e.macro) >= MaxKeys - 1 => Last(e.macro) = "C-x"
  /\ \/ e.macro = <<>> \/ e.recording \/ Playing(e)
     \/ e.stack \in {<<"main">>, <<"main", "prompt">>} /\ tty.state = "ground"
=============================================================================
