---------------------------- MODULE MarkRotation ----------------------------
(***************************************************************************)
(* What the mark and its ring promise (region.c, the comment of popMark):  *)
(* the last Limit marks set aside, newest last.  Popping moves point to    *)
(* the mark, the newest entry becomes the mark, and the mark goes to the   *)
(* back of the ring, so that popping again and again visits all of them.   *)
(***************************************************************************)
EXTENDS Naturals, Sequences, SequencesExt

CONSTANTS Position, Unset, Limit

VARIABLES point, mark, ring

(* The newest Limit entries of s. *)
Newest(s) == SubSeq(s, (IF Len(s) > Limit THEN Len(s) - Limit ELSE 0) + 1, Len(s))

Init == point \in Position /\ mark = Unset /\ ring = <<>>

(* A new mark: the old one is set aside. *)
Mark(p) ==
  /\ mark' = p
  /\ ring' = IF mark = Unset THEN ring ELSE Newest(Append(ring, mark))

Place(p) == mark' = p /\ UNCHANGED ring

Pop ==
  /\ mark # Unset
  /\ point' = mark
  /\ IF ring = <<>> THEN UNCHANGED <<mark, ring>>
     ELSE mark' = Last(ring) /\ ring' = <<mark>> \o Front(ring)

Next ==
  \/ \E p \in Position : (Mark(p) \/ Place(p)) /\ point' \in Position
  \/ Pop
  \/ point' \in Position /\ UNCHANGED <<mark, ring>>

Spec == Init /\ [][Next]_<<point, mark, ring>>
=============================================================================
