----------------------------- MODULE MCTerminal -----------------------------
(* Children that make the pipes fill, end early, or do not end. *)
EXTENDS Terminal

Plain == [reads |-> FALSE, outs |-> 0, errs |-> 0, header |-> 0, detaches |-> FALSE,
          ends |-> TRUE, traps |-> FALSE, stuck |-> FALSE]

MCProgram ==
  { [Plain EXCEPT !.reads = TRUE, !.outs = 2, !.errs = 1, !.header = 2],
    [Plain EXCEPT !.reads = TRUE, !.detaches = TRUE],
    [Plain EXCEPT !.ends = FALSE, !.outs = 1, !.traps = TRUE],
    [Plain EXCEPT !.ends = FALSE, !.stuck = TRUE],
    [Plain EXCEPT !.ends = FALSE, !.detaches = TRUE] }
=============================================================================
