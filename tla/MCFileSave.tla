----------------------------- MODULE MCFileSave -----------------------------
(* A buffer, its file and another process, with two texts of one size and  *)
(* the empty text.                                                         *)
EXTENDS FileSave, TLC

CONSTANTS empty, t1, t2

MCText    == {empty, t1, t2}
MCSize(c) == IF c \in {t1, t2} THEN 1 ELSE 0
MCSymmetry == Permutations({t1, t2})
=============================================================================
