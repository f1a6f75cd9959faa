---------------------------- MODULE MCWorkspace ----------------------------
(* Three buffers at a time. *)
EXTENDS Workspace, TLC

CONSTANTS a1, a2, a3, f

Symmetry == Permutations(Address)
=============================================================================
