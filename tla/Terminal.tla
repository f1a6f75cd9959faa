------------------------------ MODULE Terminal ------------------------------
(***************************************************************************)
(* The editor at its terminal: the signal handlers and                     *)
(* handlePendingSignals of main.c, the wait of readKey, applyRawMode and   *)
(* disableRawMode in terminal.c, and the shell commands of ShellCommand    *)
(* that it runs between keys.                                              *)
(*                                                                         *)
(* Handlers run between any two steps and mostly set flags.  A read that   *)
(* blocks returns when one has run; one that came just before it does not  *)
(* keep it from blocking.                                                  *)
(***************************************************************************)
EXTENDS ShellCommand

VARIABLES
  at,     (* where the editor is: see Where                                 *)
  term,   (* the mode of the terminal and whether its size has changed;     *)
          (* whether the process is stopped; got_sigcont, got_sigwinch,     *)
          (* got_sigterm or got_sighup                                      *)
  seen    (* history: keys read since the editor went on with the terminal  *)
          (* not its own, and whether a resize came where the flag is       *)
          (* cleared unread                                                 *)

vars == <<svars, at, term, seen>>

Where == {"check", "repair", "measured", "resize", "read", "blocked", "command",
          "shell", "exited"}

Running == ~term.stopped /\ at # "exited"

-----------------------------------------------------------------------------
(* Signals *)

(* A handler ran: a read that blocks returns, and readKey sees to it. *)
Woken == at' = IF at = "blocked" THEN "check" ELSE at

(* editorSuspend gives the terminal back; a stop can be discarded.          *)
Suspend ==
  /\ Running
  /\ \/ /\ term' = [term EXCEPT !.mode = "cooked", !.stopped = TRUE]
        /\ UNCHANGED at
     \/ /\ term' = [term EXCEPT !.mode = "cooked", !.cont = TRUE]
        /\ Woken
  /\ UNCHANGED <<svars, seen>>

(* fg: the shell has had the terminal. *)
Resume ==
  /\ term.stopped
  /\ term' = [term EXCEPT !.stopped = FALSE, !.cont = TRUE]
  /\ Woken
  /\ UNCHANGED <<svars, seen>>

Resized ==
  /\ at # "exited"
  /\ term' = [term EXCEPT !.stale = TRUE, !.winch = TRUE]
  /\ IF term.stopped THEN UNCHANGED at ELSE Woken
  /\ seen' = [seen EXCEPT !.unread = @ \/ at = "measured"]
  /\ UNCHANGED svars

Terminate ==
  /\ Running
  /\ term' = [term EXCEPT !.term = TRUE]
  /\ Woken
  /\ UNCHANGED <<svars, seen>>

-----------------------------------------------------------------------------
(* readKey *)

(* handlePendingSignals, on entering readKey and when its read was woken.   *)
(* (Fault: not on entering.)                                                *)
Check_OnlyWoken ==
  /\ Running /\ at = "check"
  /\ at' = "read"
  /\ UNCHANGED <<svars, term, seen>>

Check ==
  /\ Running /\ at = "check"
  /\ at' = IF term.term THEN "exited" ELSE IF term.cont THEN "repair"
           ELSE IF term.winch THEN "resize" ELSE "read"
  /\ term' = IF term.term THEN [term EXCEPT !.mode = "cooked"]
             ELSE IF term.cont THEN [term EXCEPT !.cont = FALSE]
             ELSE [term EXCEPT !.winch = FALSE]
  /\ UNCHANGED <<svars, seen>>

(* After SIGCONT: raw mode, the size, and then the flag of the resize.      *)
(* (Fault: the size is left to that flag.)                                  *)
Repair_ModeOnly ==
  /\ Running /\ at = "repair"
  /\ term' = [term EXCEPT !.mode = "raw"]
  /\ seen' = [late |-> 0, unread |-> FALSE]
  /\ at' = "measured"
  /\ UNCHANGED svars

Repair ==
  /\ Running /\ at = "repair"
  /\ term' = [term EXCEPT !.mode = "raw", !.stale = FALSE]
  /\ seen' = [late |-> 0, unread |-> FALSE]
  /\ at' = "measured"
  /\ UNCHANGED svars

RepairEnds ==
  /\ Running /\ at = "measured"
  /\ term' = [term EXCEPT !.winch = FALSE]
  /\ at' = "read"
  /\ UNCHANGED <<svars, seen>>

(* resizeScreen, the flag being cleared already. *)
Resize ==
  /\ Running /\ at = "resize"
  /\ term' = [term EXCEPT !.stale = FALSE]
  /\ seen' = [seen EXCEPT !.unread = FALSE]
  /\ at' = "read"
  /\ UNCHANGED svars

Block ==
  /\ Running /\ at = "read"
  /\ at' = "blocked"
  /\ UNCHANGED <<svars, term, seen>>

ReadKey ==
  /\ Running /\ at = "blocked"
  /\ at' = "command"
  /\ seen' = [seen EXCEPT !.late = IF term.mode = "raw" THEN 0 ELSE @ + 1]
  /\ UNCHANGED <<svars, term>>

-----------------------------------------------------------------------------
(* Commands *)

CommandEnds ==
  /\ Running /\ at = "command"
  /\ at' = "check"
  /\ UNCHANGED <<svars, term, seen>>

(* pipeCmd with or without a region; diffBufferWithFile, not to be          *)
(* interrupted.                                                             *)
StartShell ==
  /\ Running /\ at = "command"
  /\ \E p \in Program : \/ \E len \in {0, InputLen} : Create(p, len, TRUE)
                        \/ Create(p, 0, FALSE)
  /\ at' = "shell"
  /\ UNCHANGED <<term, seen>>

ShellStep ==
  /\ Running /\ at = "shell"
  /\ Editor
  /\ at' = IF ed'.pc = "idle" THEN "check" ELSE "shell"
  /\ UNCHANGED <<term, seen>>

(* The child and the user go their own way.                                 *)
Outside == (Child \/ Cancel) /\ UNCHANGED <<at, term, seen>>

-----------------------------------------------------------------------------
Init ==
  /\ ed = Idle /\ child = NoChild /\ pipe = Empty /\ cg = 0
  /\ at = "check"
  /\ term = [mode |-> "raw", stale |-> FALSE, stopped |-> FALSE,
             cont |-> FALSE, winch |-> FALSE, term |-> FALSE]
  /\ seen = [late |-> 0, unread |-> FALSE]

Next ==
  \/ Suspend \/ Resume \/ Resized \/ Terminate
  \/ Check \/ Repair \/ RepairEnds \/ Resize \/ Block \/ ReadKey
  \/ CommandEnds \/ StartShell \/ ShellStep \/ Outside
  \/ (at = "exited" /\ UNCHANGED vars)

(* While it is not stopped the editor goes on with its command, and the     *)
(* child with what it has to do.  Nobody need type, or send a signal.       *)
Fairness == WF_vars(ShellStep) /\ WF_vars(Child /\ UNCHANGED <<at, term, seen>>)

Spec == Init /\ [][Next]_vars /\ Fairness

-----------------------------------------------------------------------------
TypeOK ==
  /\ at \in Where
  /\ ed.naps <= Naps /\ ed.stage \in 0..3 /\ ed.left <= ed.len
  /\ \A s \in DOMAIN pipe : pipe[s] \in 0..Capacity
  /\ term.mode \in {"raw", "cooked"}
  /\ {term.stale, term.stopped, term.cont, term.winch, term.term} \subseteq BOOLEAN

(* After a suspension, or a stop that was discarded, at most one key is     *)
(* read before the terminal is in raw mode again: the one for which the     *)
(* read began as the signal came.                                           *)
RepairedInTime == seen.late <= 1

(* No change of the screen's size is forgotten: when it is not the one that *)
(* was measured, a flag says so or it is about to be measured.  Not so for  *)
(* one that came while handlePendingSignals cleared got_sigwinch unread.    *)
ResizeSeen ==
  term.stale => term.winch \/ term.cont \/ at \in {"repair", "resize"} \/ seen.unread

(* A command whose child ends by itself ends: editor and child never wait   *)
(* for each other at full pipes.                                            *)
ShellCompletes ==
  (at = "shell" /\ Live /\ Does.ends) ~> (at # "shell" \/ term.stopped)

(* C-g gets the editor back: at once from a program that heeds SIGINT, the  *)
(* second time from one that does not, the third from one that cannot be    *)
(* killed.                                                                  *)
CancelWorks ==
  (at = "shell" /\ ed.stage >= Enough) ~> (at # "shell" \/ term.stopped)
=============================================================================
