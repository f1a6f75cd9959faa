----------------------------- MODULE MCFileLock -----------------------------
(* Two processes on one file; the first shows it in two buffers.           *)
EXTENDS FileLock

CONSTANTS e1, e2, b1, b2, c1

MCOwner == [b \in {b1, b2, c1} |-> IF b = c1 THEN e2 ELSE e1]
=============================================================================
