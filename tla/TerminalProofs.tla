--------------------------- MODULE TerminalProofs ---------------------------
(***************************************************************************)
(* Proofs about Terminal and the shell commands it runs: no key but one is *)
(* read in the wrong mode, no change of size is forgotten and no output is *)
(* lost, for any pipes, inputs and programs.                               *)
(***************************************************************************)
EXTENDS Terminal, TLAPS

EdState ==
  [pc : {"idle", "pump", "join", "reap"}, watch : BOOLEAN, len : Nat, left : Nat,
   in : BOOLEAN, out : BOOLEAN, err : BOOLEAN, stage : 0..3, got : Nat, naps : Nat]

ChildState ==
  [program : SUBSET Program, alive : BOOLEAN, in : BOOLEAN, out : BOOLEAN,
   read : Nat, wrote : Nat, erred : Nat, signal : {"none", "INT", "KILL"}]

PipeState == [in : 0..Capacity, out : 0..Capacity, err : 0..Capacity]

TermState ==
  [mode : {"raw", "cooked"}, stale : BOOLEAN, stopped : BOOLEAN,
   cont : BOOLEAN, winch : BOOLEAN, term : BOOLEAN]

SeenState == [late : Nat, unread : BOOLEAN]

ShellTyped ==
  /\ ed \in EdState /\ ed.left <= ed.len /\ ed.naps <= Naps
  /\ child \in ChildState /\ pipe \in PipeState /\ cg \in Nat

KeysTyped == at \in Where /\ term \in TermState /\ seen \in SeenState

Busy == ed.pc # "idle" /\ ed.stage = 0

(* What came out of the child is in the pipe or has been read, and at the   *)
(* end of an output there is no more to come.                               *)
OutputCounted ==
  /\ Busy => ed.got + pipe.out = child.wrote
  /\ Busy /\ ~ed.out => pipe.out = 0 /\ ~child.out
  /\ ed.pc = "join" => ed.stage = 0 /\ ~ed.out

(* What is to be fed is left, in the pipe, or has been read, and stdin is   *)
(* closed on nothing that is left.                                          *)
InputCounted ==
  /\ Busy /\ child.in => child.read + pipe.in + ed.left = ed.len
  /\ Busy /\ ~ed.in => ed.left = 0

ShellInv == ShellTyped /\ OutputCounted /\ InputCounted

(* A cooked terminal is about to be repaired, and a key read from one is    *)
(* followed by a look at the flag.                                          *)
WillRepair == term.mode = "cooked" => term.stopped \/ term.cont \/ at \in {"repair", "exited"}

LateKey ==
  seen.late # 0 =>
    /\ seen.late = 1 /\ term.mode = "cooked"
    /\ at \in {"command", "shell", "check", "repair", "exited"}

(* Between measuring and clearing the flag a resize is noted as unread.     *)
MeasuredInTime == at = "measured" /\ term.stale => seen.unread

KeysInv == KeysTyped /\ WillRepair /\ LateKey /\ MeasuredInTime /\ ResizeSeen

USE ProgramAssumption, CapacityAssumption

-----------------------------------------------------------------------------
(* Keys and signals *)

LEMMA KeysKept == KeysInv /\ [Next]_vars => KeysInv'
<1> SUFFICES ASSUME KeysInv, [Next]_vars  PROVE KeysInv'  OBVIOUS
<1> USE DEF KeysInv, KeysTyped, Where, TermState, SeenState, Running,
            WillRepair, LateKey, MeasuredInTime, ResizeSeen
<1>1. CASE UNCHANGED <<at, term, seen>>  BY <1>1
<1>2. CASE Suspend  BY <1>2 DEF Suspend, Woken
<1>3. CASE Resume  BY <1>3 DEF Resume, Woken
<1>4. CASE Resized  BY <1>4 DEF Resized, Woken
<1>5. CASE Terminate  BY <1>5 DEF Terminate, Woken
<1>6. CASE Check  BY <1>6 DEF Check
<1>7. CASE Repair  BY <1>7 DEF Repair
<1>8. CASE RepairEnds  BY <1>8 DEF RepairEnds
<1>9. CASE Resize  BY <1>9 DEF Resize
<1>10. CASE Block  BY <1>10 DEF Block
<1>11. CASE ReadKey  BY <1>11 DEF ReadKey
<1>12. CASE CommandEnds  BY <1>12 DEF CommandEnds
<1>13. CASE StartShell  BY <1>13 DEF StartShell
<1>14. CASE ShellStep  BY <1>14 DEF ShellStep
<1>15. QED
  BY <1>1, <1>2, <1>3, <1>4, <1>5, <1>6, <1>7, <1>8, <1>9, <1>10, <1>11, <1>12, <1>13, <1>14
  DEF Next, vars, Outside
-----------------------------------------------------------------------------
(* The child *)

LEMMA LeastIs ==
  ASSUME NEW i \in Nat, NEW j \in Nat
  PROVE  Least(i, j) \in Nat /\ Least(i, j) <= i /\ Least(i, j) <= j
BY DEF Least

LEMMA ChildKeeps == ShellInv /\ Child => ShellInv'
<1> SUFFICES ASSUME ShellInv, Child  PROVE ShellInv'  OBVIOUS
<1> USE DEF ShellInv, ShellTyped, OutputCounted, InputCounted, EdState, ChildState, PipeState, Busy
<1>1. CASE ChildReads  BY <1>1 DEF ChildReads, Reading
<1>2. CASE ChildSeesEOF  BY <1>2 DEF ChildSeesEOF
<1>3. CASE ChildWrites  BY <1>3 DEF ChildWrites
<1>4. CASE ChildDetaches  BY <1>4 DEF ChildDetaches
<1>5. CASE ChildEnds  BY <1>5 DEF ChildEnds, Dead
<1>6. CASE ChildIsKilled  BY <1>6 DEF ChildIsKilled, Dead
<1>7. QED  BY <1>1, <1>2, <1>3, <1>4, <1>5, <1>6 DEF Child

-----------------------------------------------------------------------------
(* The editor *)

LEMMA OverKeeps == ShellInv /\ Over => ShellInv'
BY DEF Over, Idle, NoChild, Empty, ShellInv, ShellTyped, OutputCounted, InputCounted,
       EdState, ChildState, PipeState, Busy

LEMMA CreateKeeps ==
  ASSUME NEW p \in Program, NEW len \in {0, InputLen}, NEW watch \in BOOLEAN,
         Create(p, len, watch)
  PROVE  ShellInv'
<1>1. ed' = [pc |-> "pump", watch |-> watch, len |-> len, left |-> len, in |-> TRUE,
             out |-> TRUE, err |-> TRUE, stage |-> 0, got |-> 0, naps |-> 0]
  BY DEF Create, Idle
<1>2. child' = [program |-> {p}, alive |-> TRUE, in |-> TRUE, out |-> TRUE,
                read |-> 0, wrote |-> 0, erred |-> 0, signal |-> "none"]
  BY DEF Create, NoChild
<1>3. pipe' = [in |-> 0, out |-> 0, err |-> 0] /\ cg' = 0  BY DEF Create, Empty
<1>4. len \in Nat  OBVIOUS
<1>5. ed' \in EdState  BY <1>1, <1>4 DEF EdState
<1>6. child' \in ChildState /\ pipe' \in PipeState  BY <1>2, <1>3 DEF ChildState, PipeState
<1>7. ShellTyped'  BY <1>1, <1>3, <1>4, <1>5, <1>6 DEF ShellTyped
<1>8. OutputCounted' /\ InputCounted'
  BY <1>1, <1>2, <1>3, <1>4 DEF OutputCounted, InputCounted, Busy
<1>9. QED  BY <1>7, <1>8 DEF ShellInv

LEMMA PumpKeeps == ShellInv /\ Pump => ShellInv'
<1> SUFFICES ASSUME ShellInv, Pump  PROVE ShellInv'  OBVIOUS
<1> DEFINE
      stage   == IF Readable("tty") THEN ed.stage + cg ELSE ed.stage
      abandon == Readable("tty") /\ stage >= 3
      out     == Readable("out") /\ ~abandon
      err     == Readable("err") /\ ~abandon
      feed    == IF Writable /\ ~abandon /\ child.in
                 THEN Least(ed.left, Capacity - pipe.in) ELSE 0
<1> USE DEF ShellInv, ShellTyped, EdState, ChildState, PipeState
<1>1. /\ cg' = IF Readable("tty") THEN 0 ELSE cg
      /\ child' = [child EXCEPT !.signal = Interrupted(stage)]
      /\ pipe' = [in  |-> pipe.in + feed,
                  out |-> IF out THEN 0 ELSE pipe.out,
                  err |-> IF err THEN 0 ELSE pipe.err]
      /\ ed' = [ed EXCEPT
           !.stage = Least(stage, 3),
           !.pc    = IF abandon THEN "reap" ELSE @,
           !.in    = @ /\ ~abandon,
           !.got   = IF out THEN @ + pipe.out ELSE @,
           !.out   = @ /\ ~(out /\ pipe.out = 0),
           !.err   = @ /\ ~(err /\ pipe.err = 0),
           !.left  = IF Writable /\ ~abandon /\ ~child.in THEN 0 ELSE @ - feed]
  BY DEF Pump
<1>2. stage \in Nat /\ stage >= ed.stage /\ (Readable("tty") => stage > 0)
  BY DEF Readable
<1>3. feed \in Nat /\ feed <= ed.left /\ pipe.in + feed <= Capacity
  <2>1. ed.left \in Nat /\ pipe.in \in Nat /\ pipe.in <= Capacity  OBVIOUS
  <2>2. Capacity - pipe.in \in Nat  BY <2>1
  <2> DEFINE l == Least(ed.left, Capacity - pipe.in)
  <2>3. l \in Nat /\ l <= ed.left /\ l <= Capacity - pipe.in  BY <2>1, <2>2, LeastIs
  <2>4. feed = l \/ feed = 0  OBVIOUS
  <2> HIDE DEF l, feed
  <2>5. QED  BY <2>1, <2>3, <2>4
<1>4. out => pipe.out > 0 \/ ~child.out  BY DEF Readable
<1>5. Interrupted(stage) \in {"none", "INT", "KILL"}  BY <1>2 DEF Interrupted
<1>6. ed.pc = "pump"  BY DEF Pump, Pumping
<1>7. Least(stage, 3) \in 0..3 /\ (stage # 0 => Least(stage, 3) # 0)
  BY <1>2 DEF Least
<1>8. stage = 0 => ed.stage = 0 /\ ~abandon  BY <1>2
<1>9. ~child.in => feed = 0  OBVIOUS
<1> HIDE DEF stage, abandon, out, err, feed
<1>10. ShellTyped'
  <2>1. child' \in ChildState  BY <1>1, <1>5
  <2>2. pipe' \in PipeState  BY <1>1, <1>3
  <2>3. cg' \in Nat  BY <1>1
  <2>4. ed'.left <= ed'.len /\ ed'.naps <= Naps  BY <1>1, <1>3
  <2>5. ed' \in EdState
    <3>1. /\ (IF abandon THEN "reap" ELSE ed.pc) \in {"idle", "pump", "join", "reap"}
          /\ (ed.in /\ ~abandon) \in BOOLEAN
          /\ (IF out THEN ed.got + pipe.out ELSE ed.got) \in Nat
          /\ (ed.out /\ ~(out /\ pipe.out = 0)) \in BOOLEAN
          /\ (ed.err /\ ~(err /\ pipe.err = 0)) \in BOOLEAN
      OBVIOUS
    <3>2. (IF Writable /\ ~abandon /\ ~child.in THEN 0 ELSE ed.left - feed) \in Nat
      BY <1>3
    <3> DEFINE a == IF abandon THEN "reap" ELSE ed.pc
               c == ed.in /\ ~abandon
               d == IF out THEN ed.got + pipe.out ELSE ed.got
               e == ed.out /\ ~(out /\ pipe.out = 0)
               f == ed.err /\ ~(err /\ pipe.err = 0)
               g == IF Writable /\ ~abandon /\ ~child.in THEN 0 ELSE ed.left - feed
               h == Least(stage, 3)
    <3>3. ed' = [ed EXCEPT !.stage = h, !.pc = a, !.in = c, !.got = d, !.out = e, !.err = f,
                           !.left = g]
      BY <1>1
    <3>4. /\ a \in {"idle", "pump", "join", "reap"} /\ d \in Nat /\ g \in Nat /\ h \in 0..3
          /\ c \in BOOLEAN /\ e \in BOOLEAN /\ f \in BOOLEAN
      BY <1>7, <3>1, <3>2
    <3> HIDE DEF a, c, d, e, f, g, h
    <3>5. QED  BY <3>3, <3>4
  <2>6. QED  BY <2>1, <2>2, <2>3, <2>4, <2>5
<1>11. OutputCounted'
  BY <1>1, <1>4, <1>6, <1>7, <1>8 DEF OutputCounted, Busy
<1>12. InputCounted'
  BY <1>1, <1>3, <1>6, <1>7, <1>8, <1>9 DEF InputCounted, Busy
<1>13. QED  BY <1>10, <1>11, <1>12

LEMMA EditorKeeps == ShellInv /\ Editor => ShellInv'
<1> SUFFICES ASSUME ShellInv, Editor  PROVE ShellInv'  OBVIOUS
<1> USE DEF ShellInv, ShellTyped, OutputCounted, InputCounted, EdState, ChildState, PipeState,
            Busy
<1>1. CASE CloseStdin
  <2>1. /\ ed' = [ed EXCEPT !.in = FALSE] /\ UNCHANGED <<child, pipe, cg>>
        /\ ed.stage > 0 \/ ed.left = 0
    BY <1>1 DEF CloseStdin, Fed
  <2>2. ed' \in EdState  BY <2>1
  <2>3. ShellTyped'  BY <2>1, <2>2
  <2>4. OutputCounted'  BY <2>1
  <2>5. InputCounted'  BY <2>1
  <2>6. QED  BY <2>3, <2>4, <2>5
<1>2. CASE PumpEnds
  <2> DEFINE next == IF ed.stage > 0 THEN "reap" ELSE "join"
  <2>1. /\ ed' = [ed EXCEPT !.pc = next, !.in = FALSE] /\ UNCHANGED <<child, pipe, cg>>
        /\ ed.pc = "pump" /\ ~ed.out /\ (ed.stage > 0 \/ ed.left = 0)
    BY <1>2 DEF PumpEnds, Pumping
  <2>2. next \in {"reap", "join"} /\ (next = "join" => ed.stage = 0)  OBVIOUS
  <2> HIDE DEF next
  <2>3. ed' \in EdState  BY <2>1, <2>2
  <2>4. ShellTyped'  BY <2>1, <2>3
  <2>5. OutputCounted'  BY <2>1, <2>2
  <2>6. InputCounted'  BY <2>1
  <2>7. QED  BY <2>4, <2>5, <2>6
<1>3. CASE Reap /\ ~Over  BY <1>3 DEF Reap, Nap
<1>4. QED  BY <1>1, <1>2, <1>3, OverKeeps, PumpKeeps DEF Editor, Join

LEMMA ShellKept == ShellInv /\ [Next]_vars => ShellInv'
<1> SUFFICES ASSUME ShellInv, [Next]_vars  PROVE ShellInv'  OBVIOUS
<1>1. CASE UNCHANGED svars
  BY <1>1 DEF svars, ShellInv, ShellTyped, OutputCounted, InputCounted, Busy
<1>2. CASE StartShell  BY <1>2, CreateKeeps DEF StartShell
<1>3. CASE ShellStep  BY <1>3, EditorKeeps DEF ShellStep
<1>4. CASE Cancel
  BY <1>4 DEF Cancel, ShellInv, ShellTyped, OutputCounted, InputCounted, Busy
<1>5. CASE Child  BY <1>5, ChildKeeps
<1>6. QED
  BY <1>1, <1>2, <1>3, <1>4, <1>5
  DEF Next, vars, Outside, Suspend, Resume, Resized, Terminate, Check, Repair, RepairEnds,
      Resize, Block, ReadKey, CommandEnds

-----------------------------------------------------------------------------
(* Theorems *)

LEMMA InitOK == Init => KeysInv /\ ShellInv
<1> SUFFICES ASSUME Init  PROVE KeysInv /\ ShellInv  OBVIOUS
<1>1. KeysInv
  BY DEF Init, KeysInv, KeysTyped, Where, TermState, SeenState, WillRepair, LateKey,
         MeasuredInTime, ResizeSeen
<1>2. ShellInv
  BY DEF Init, Idle, NoChild, Empty, ShellInv, ShellTyped, OutputCounted, InputCounted,
         EdState, ChildState, PipeState, Busy
<1>3. QED  BY <1>1, <1>2

(* The editor, the terminal, the child and the pipes are always in a state  *)
(* of their types; no pipe holds more than its capacity and no more is left *)
(* to feed than there was.                                                  *)
THEOREM TypeCorrect == Spec => []TypeOK
<1>1. KeysInv /\ ShellInv => TypeOK
  BY DEF KeysInv, KeysTyped, ShellInv, ShellTyped, TypeOK, EdState, PipeState, TermState
<1>2. QED  BY <1>1, InitOK, KeysKept, ShellKept, PTL DEF Spec

(* At most one key is read before the terminal is in raw mode again         *)
(* (terminal.c readKey, main.c handlePendingSignals), wherever the signals  *)
(* come.                                                                    *)
THEOREM RepairIsInTime == Spec => []RepairedInTime
<1>1. KeysInv => RepairedInTime
  BY DEF KeysInv, KeysTyped, SeenState, LateKey, RepairedInTime
<1>2. QED  BY <1>1, InitOK, KeysKept, PTL DEF Spec

(* A change of size is measured, or flagged, or came where the flag is      *)
(* cleared unread (main.c handlePendingSignals).                            *)
THEOREM ResizeIsSeen == Spec => []ResizeSeen
<1>1. KeysInv => ResizeSeen  BY DEF KeysInv
<1>2. QED  BY <1>1, InitOK, KeysKept, PTL DEF Spec

(* A command that is not cancelled shows all that its child wrote and feeds *)
(* it all of its input (pipe.c pumpSubprocessIO), whatever the capacity of  *)
(* the pipes and the program at the other end.                              *)
THEOREM NothingIsLost == Spec => []NothingLost
<1>1. ShellInv => NothingLost
  BY DEF ShellInv, ShellTyped, EdState, ChildState, PipeState, OutputCounted, InputCounted,
         Busy, NothingLost, AtEOF
<1>2. QED  BY <1>1, InitOK, ShellKept, PTL DEF Spec

=============================================================================
