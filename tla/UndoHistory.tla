---------------------------- MODULE UndoHistory ----------------------------
(***************************************************************************)
(* UndoLog with two history variables that the code does not keep: the     *)
(* texts each step of the undo list started from, oldest first, and the    *)
(* texts each step of the redo list ends in, nearest first.  They only     *)
(* record what has been on the screen; under them UndoLog implements       *)
(* EditHistory.                                                            *)
(***************************************************************************)
EXTENDS UndoLog, FiniteSets

VARIABLES past, future

historyVars == <<vars, past, future>>

(* The steps a list holds: each begins with the record not paired to one    *)
(* before it.                                                               *)
Steps(list) == Cardinality({ i \in 1..Len(list) : ~list[i].paired })

Editing == Type \/ Insert \/ Delete \/ Erase \/ Kill \/ Replace \/ YankRect
Others  == SaveBuffer \/ ToggleReadOnly \/ Remember \/ Look

RecordedEdit ==
  /\ Editing
  /\ IF undo' = undo
     THEN UNCHANGED <<past, future>>
     ELSE /\ past' = IF Steps(undo') > Steps(undo) THEN Append(past, rows) ELSE past
          /\ future' = <<>>

RecordedUndo ==
  /\ DoUndo
  /\ IF undo = <<>>
     THEN UNCHANGED <<past, future>>
     ELSE /\ past' = SubSeq(past, 1, Len(past) - 1)
          /\ future' = << rows >> \o future

RecordedRedo ==
  /\ DoRedo
  /\ IF redo = <<>>
     THEN UNCHANGED <<past, future>>
     ELSE /\ past' = Append(past, rows)
          /\ future' = Tail(future)

RecordedOther == Others /\ UNCHANGED <<past, future>>

HInit == Init /\ past = <<>> /\ future = <<>>
HNext == RecordedEdit \/ RecordedUndo \/ RecordedRedo \/ RecordedOther
HSpec == HInit /\ [][HNext]_historyVars

History == INSTANCE EditHistory WITH
             Texts <- Text,
             text  <- rows,
             open  <- undo # <<>> /\ undo[1].append

(* The two lists implement the history of texts of EditHistory: whatever    *)
(* records, merges and pairs a command took, one undo brings back the text  *)
(* the step started from, one redo the text it ended in, and nothing else   *)
(* changes what lies behind (undo.c and mutate.c together).                 *)
ImplementsHistory == History!HistorySpec

=============================================================================
