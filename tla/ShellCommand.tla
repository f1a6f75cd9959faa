---------------------------- MODULE ShellCommand ----------------------------
(***************************************************************************)
(* A shell command: the pipes to a child process, pumpSubprocessIO and     *)
(* transformerPipeCmd of pipe.c, diffBufferWithFile, emil_subprocess.c.    *)
(*                                                                         *)
(* Pipes are counted, in units of what one read or write moves.  The child *)
(* is any program: what it is set on doing is picked when it is created,   *)
(* the order in which it reads and writes as it goes.                      *)
(***************************************************************************)
EXTENDS Naturals, FiniteSets

CONSTANTS
  Program,     (* What children do: records, see IsProgram.                 *)
  Capacity,    (* What a pipe holds.                                        *)
  InputLen,    (* strlen(input)                                             *)
  Naps         (* Tries to reap a child that was cancelled; 20.             *)

(* Whether it reads to the end of its input, what it writes and how much of *)
(* that before it reads, whether it closes its outputs long before it ends, *)
(* whether it ends by itself, traps SIGINT, or cannot even be killed.       *)
IsProgram(p) ==
  /\ p.outs \in Nat /\ p.errs \in Nat /\ p.header \in 0..p.outs
  /\ {p.reads, p.detaches, p.ends, p.traps, p.stuck} \subseteq BOOLEAN

ASSUME ProgramAssumption  == \A p \in Program : IsProgram(p)
ASSUME CapacityAssumption == Capacity \in Nat \ {0} /\ InputLen \in Nat /\ Naps \in Nat

VARIABLES
  ed,      (* the editor: where it is in the command, what is left to feed, *)
           (* which of its ends are open, cancel_stage, what it has read    *)
  child,   (* the child: its program, what it has read and written, whether *)
           (* its ends are open, the signal it got, whether it lives        *)
  pipe,    (* what is in each pipe                                          *)
  cg       (* C-g's typed and not read                                      *)

svars == <<ed, child, pipe, cg>>

Least(i, j) == IF i < j THEN i ELSE j

-----------------------------------------------------------------------------
(* The child *)

Live == child.alive /\ child.program # {}
Does == CHOOSE p \in child.program : TRUE

Reading == child.in /\ Does.reads /\ child.wrote >= Does.header

ChildReads ==
  /\ Live /\ Reading /\ pipe.in > 0
  /\ pipe' = [pipe EXCEPT !.in = @ - 1]
  /\ child' = [child EXCEPT !.read = @ + 1]
  /\ UNCHANGED <<ed, cg>>

AtEOF == pipe.in = 0 /\ ~ed.in

ChildSeesEOF ==
  /\ Live /\ Reading /\ AtEOF
  /\ child' = [child EXCEPT !.in = FALSE]
  /\ UNCHANGED <<ed, pipe, cg>>

ChildWrites ==
  /\ Live /\ child.out
  /\ \/ /\ child.wrote < Does.outs /\ pipe.out < Capacity
        /\ child' = [child EXCEPT !.wrote = @ + 1]
        /\ pipe' = [pipe EXCEPT !.out = @ + 1]
     \/ /\ child.erred < Does.errs /\ pipe.err < Capacity
        /\ child' = [child EXCEPT !.erred = @ + 1]
        /\ pipe' = [pipe EXCEPT !.err = @ + 1]
  /\ UNCHANGED <<ed, cg>>

ChildDetaches ==
  /\ Live /\ Does.detaches /\ child.out
  /\ child' = [child EXCEPT !.out = FALSE]
  /\ UNCHANGED <<ed, pipe, cg>>

Dead(c) == [c EXCEPT !.alive = FALSE, !.in = FALSE, !.out = FALSE]

ChildEnds ==
  /\ Live /\ Does.ends
  /\ Does.reads => ~child.in
  /\ child.out => child.wrote = Does.outs /\ child.erred = Does.errs
  /\ child' = Dead(child)
  /\ UNCHANGED <<ed, pipe, cg>>

ChildIsKilled ==
  /\ Live /\ ~Does.stuck
  /\ child.signal = "KILL" \/ (child.signal = "INT" /\ ~Does.traps)
  /\ child' = Dead(child)
  /\ UNCHANGED <<ed, pipe, cg>>

Child ==
  \/ ChildReads \/ ChildSeesEOF \/ ChildWrites \/ ChildDetaches
  \/ ChildEnds \/ ChildIsKilled

(* C-g is typed. *)
Cancel ==
  /\ ed.pc # "idle" /\ cg < 3
  /\ cg' = cg + 1
  /\ UNCHANGED <<ed, child, pipe>>

-----------------------------------------------------------------------------
(* The editor *)

Idle == [pc |-> "idle", watch |-> FALSE, len |-> 0, left |-> 0, in |-> FALSE, out |-> FALSE,
         err |-> FALSE, stage |-> 0, got |-> 0, naps |-> 0]

NoChild == [program |-> {}, alive |-> FALSE, in |-> FALSE, out |-> FALSE,
            read |-> 0, wrote |-> 0, erred |-> 0, signal |-> "none"]

Empty == [in |-> 0, out |-> 0, err |-> 0]

(* subprocess_create, with a region to feed it or without, interruptible    *)
(* (the shell) or not (diff).                                               *)
Create(p, len, watch) ==
  /\ ed' = [Idle EXCEPT !.pc = "pump", !.watch = watch, !.len = len, !.left = len,
                        !.in = TRUE, !.out = TRUE, !.err = TRUE]
  /\ child' = [NoChild EXCEPT !.program = {p}, !.alive = TRUE, !.in = TRUE, !.out = TRUE]
  /\ pipe' = Empty
  /\ cg' = 0

(* What select finds ready.  (Fault: while there is input to feed, output   *)
(* is not looked at.)                                                       *)
WantWrite    == ed.in /\ ed.stage = 0 /\ ed.left > 0
Writable     == WantWrite /\ (pipe.in < Capacity \/ ~child.in)
Readable_FeedFirst(s) ==
  CASE s = "out" -> ed.out /\ (pipe.out > 0 \/ ~child.out) /\ ~WantWrite
    [] s = "err" -> ed.err /\ (pipe.err > 0 \/ ~child.out) /\ ~WantWrite
    [] s = "tty" -> ed.watch /\ cg > 0

Readable(s) ==
  CASE s = "out" -> ed.out /\ (pipe.out > 0 \/ ~child.out)
    [] s = "err" -> ed.err /\ (pipe.err > 0 \/ ~child.out)
    [] s = "tty" -> ed.watch /\ cg > 0

(* Input is fed until it is used up.  (Fault: all but the last of it.)      *)
Fed_AllButOne == ed.stage > 0 \/ ed.left <= 1
Fed           == ed.stage > 0 \/ ed.left = 0

(* The loop goes on until both outputs are at their end.                    *)
Pumping == ed.pc = "pump" /\ (ed.out \/ ed.err \/ (ed.stage = 0 /\ ed.left > 0))

CloseStdin ==
  /\ Pumping /\ ed.in /\ Fed
  /\ ed' = [ed EXCEPT !.in = FALSE]
  /\ UNCHANGED <<child, pipe, cg>>

(* C-g: SIGINT, SIGKILL, and the third leaves the loop at once.  What is    *)
(* readable is read, what fits is written; nobody at the other end ends     *)
(* the feeding.  (Fault: there is no SIGKILL.)                              *)
Interrupted_IntOnly(stage) ==
  IF stage = 0 THEN child.signal ELSE "INT"

Interrupted(stage) ==
  CASE stage = 0 -> child.signal [] stage = 1 -> "INT" [] OTHER -> "KILL"

Pump ==
  /\ Pumping /\ ~(ed.in /\ Fed)
  /\ (\E s \in {"tty", "out", "err"} : Readable(s)) \/ Writable
  /\ LET stage   == IF Readable("tty") THEN ed.stage + cg ELSE ed.stage
         abandon == Readable("tty") /\ stage >= 3
         out     == Readable("out") /\ ~abandon
         err     == Readable("err") /\ ~abandon
         feed    == IF Writable /\ ~abandon /\ child.in
                    THEN Least(ed.left, Capacity - pipe.in) ELSE 0
     IN  /\ cg' = IF Readable("tty") THEN 0 ELSE cg
         /\ child' = [child EXCEPT !.signal = Interrupted(stage)]
         /\ pipe' = [in  |-> pipe.in + feed,
                     out |-> IF out THEN 0 ELSE pipe.out,
                     err |-> IF err THEN 0 ELSE pipe.err]
         /\ ed' = [ed EXCEPT
              !.stage = Least(stage, 3),
              !.pc    = IF abandon THEN "reap" ELSE @,
              !.in    = @ /\ ~abandon,
              !.got   = IF out THEN @ + pipe.out ELSE @,
              !.out   = @ /\ ~(out /\ pipe.out = 0),
              !.err   = @ /\ ~(err /\ pipe.err = 0),
              !.left  = IF Writable /\ ~abandon /\ ~child.in THEN 0 ELSE @ - feed]

PumpEnds ==
  /\ ed.pc = "pump" /\ ~Pumping
  /\ ed' = [ed EXCEPT !.pc = IF ed.stage > 0 THEN "reap" ELSE "join", !.in = FALSE]
  /\ UNCHANGED <<child, pipe, cg>>

(* The command is over.  A child that still runs is forgotten, and C-g's    *)
(* that were not read are keys.                                             *)
Over == ed' = Idle /\ child' = NoChild /\ pipe' = Empty /\ cg' = 0

(* subprocess_join blocks until the child has ended. *)
Join == ed.pc = "join" /\ ~child.alive /\ Over

(* subprocess_tryjoin does not, and is tried a few times.  (Fault: until    *)
(* the child has ended.)                                                    *)
Nap == ed' = [ed EXCEPT !.naps = @ + 1] /\ UNCHANGED <<child, pipe, cg>>

Reap_Forever == ed.pc = "reap" /\ IF child.alive THEN Nap ELSE Over

Reap == ed.pc = "reap" /\ IF child.alive /\ ed.naps < Naps THEN Nap ELSE Over

Editor == CloseStdin \/ Pump \/ PumpEnds \/ Join \/ Reap

-----------------------------------------------------------------------------
(* Output that is shown is all that the child wrote, and a child reads the  *)
(* end of its input after the whole of it, however the two take turns at    *)
(* pipes that fill up, unless the command is cancelled.                     *)
NothingLost ==
  /\ ed.pc # "idle" /\ ed.stage = 0 => ed.got + pipe.out = child.wrote
  /\ ed.pc = "join" => ed.got = child.wrote
  /\ ed.pc # "idle" /\ ed.stage = 0 /\ Live /\ Does.reads /\ child.in /\ AtEOF
     => child.read = ed.len

(* How many C-g's it takes.                                                 *)
Enough == IF ~Live THEN 1 ELSE IF Does.stuck THEN 3 ELSE IF Does.traps THEN 2 ELSE 1
=============================================================================
