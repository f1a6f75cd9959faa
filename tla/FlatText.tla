------------------------------ MODULE FlatText ------------------------------
(***************************************************************************)
(* A buffer as its documentation speaks of it (buffer.h: "the flat offset  *)
(* space"): one string of bytes and offsets into it that follow the text   *)
(* they stand at.  An offset inside a deletion falls back to where the     *)
(* deletion starts; one exactly at an insertion goes after it.             *)
(***************************************************************************)
EXTENDS Integers, Sequences

CONSTANTS Char,      (* bytes, the newline among them *)
          Mark,      (* what holds an offset          *)
          Unset

VARIABLES str, offs

fvars == <<str, offs>>

FlatInit == str \in Seq(Char) /\ offs = [m \in Mark |-> Unset]

(* The n characters from offset i on are deleted. *)
Remove(i, n) ==
  /\ str' = SubSeq(str, 1, i) \o SubSeq(str, i + n + 1, Len(str))
  /\ offs' = [m \in Mark |-> IF offs[m] = Unset \/ offs[m] <= i THEN offs[m]
                             ELSE IF offs[m] <= i + n THEN i
                             ELSE offs[m] - n]

(* The string ins goes in at offset i. *)
Put(i, ins) ==
  /\ str' = SubSeq(str, 1, i) \o ins \o SubSeq(str, i + 1, Len(str))
  /\ offs' = [m \in Mark |-> IF offs[m] = Unset \/ offs[m] < i THEN offs[m]
                             ELSE offs[m] + Len(ins)]

Place(m, i) == offs' = [offs EXCEPT ![m] = i] /\ UNCHANGED str

(* What goes in at i is read off the new string. *)
FlatNext ==
  \/ \E i \in 0..Len(str) : \E n \in 1..(Len(str) - i) : Remove(i, n)
  \/ \E i \in 0..Len(str), n \in 1..(Len(str') - Len(str)) : Put(i, SubSeq(str', i + 1, i + n))
  \/ \E m \in Mark, i \in 0..Len(str) : Place(m, i)

FlatSpec == FlatInit /\ [][FlatNext]_fvars

=============================================================================
