------------------------------ MODULE FileLock ------------------------------
(***************************************************************************)
(* The advisory lock on one file, wanted by the buffers of several emil    *)
(* processes (fileio.c, buffer.c).  A POSIX record lock belongs to the     *)
(* process: closing any descriptor of the file drops it, whichever buffer  *)
(* took it, so everything that opens and closes the file is followed by    *)
(* relockAll.  Between the close and relockAll other processes run.        *)
(*                                                                         *)
(* A process may show the file in several buffers (through a link, a       *)
(* revert, a save-as).  The file exists throughout; its text is in         *)
(* FileSave.                                                               *)
(***************************************************************************)
EXTENDS Naturals, FiniteSets

CONSTANTS
  Proc, Buffer,  (* The processes and all of their buffers,                *)
  Owner,         (* whose each buffer is,                                  *)
  Writer,        (* the processes with permission to write the file.       *)
  Unknown,       (* lock_blocked_pid -1: some process holds it.            *)
  Nil,           (* lock_blocked_pid 0: no warning; no buffer being saved. *)
  Faulty         (* The processes whose F_SETLK may fail for other reasons *)
                 (* than a conflict (EINTR, ENOLCK).                       *)

ASSUME OwnerAssumption  == Owner \in [Buffer -> Proc]
ASSUME WriterAssumption == Writer \subseteq Proc
ASSUME PidAssumption    == {Unknown, Nil} \cap Proc = {} /\ Unknown # Nil
ASSUME FaultAssumption  == Faulty \subseteq Proc

VARIABLES
  held,   (* the kernel's table: what each process has locked               *)
  buf,    (* the lock-related fields of each struct buffer                  *)
  stale,  (* whether the file has changed since the buffer was read         *)
  todo,   (* what relockAll has still to go through, in each process        *)
  opening, (* the buffer being opened, when its text has been read          *)
  saved,  (* the buffer being saved, when its write has been closed         *)
  (* History: not in the code.                                              *)
  chosen, (* read-only by the user's choice or by permission                *)
  lost    (* the processes where a lock call that failed has closed its     *)
          (* descriptor beside a lock held for another buffer, and no lock  *)
          (* was taken nor relockAll called since                           *)

lockVars == <<held, buf, stale, todo, opening, saved, chosen, lost>>

Mode   == {"none", "read", "write"}
Closed == [open |-> FALSE, dirty |-> FALSE, external_mod |-> FALSE, read_only |-> FALSE,
           by_lock |-> FALSE, lock_fd |-> "none", blocked |-> Nil]

Of(p)       == { b \in Buffer : Owner[b] = p }
Locked(p)   == { b \in Of(p) : buf[b].lock_fd # "none" }
Idle(p)     == todo[p] = {} /\ opening[p] = Nil /\ saved[p] = Nil

(* What the kernel lets p lock beside the others.                           *)
ModeOf(p)        == IF p \in Writer THEN "write" ELSE "read"
Conflicts(p, m)  == { q \in Proc \ {p} : held[q] = "write" \/ (held[q] # "none" /\ m = "write") }
(* F_GETLK for a write lock: what a conflict is reported as; it may be gone *)
(* by then.                                                                *)
Holders(p)       == Conflicts(p, "write") \cup {Unknown}

(* A descriptor of the file is closed in p, and relockAll is due.  (Fault:  *)
(* it is not called.)                                                       *)
CloseFile_NoRelock(p) == held' = [held EXCEPT ![p] = "none"] /\ UNCHANGED <<todo, lost>>

CloseFile(p) ==
  /\ held' = [held EXCEPT ![p] = "none"]
  /\ todo' = [todo EXCEPT ![p] = { b \in Of(p) : buf'[b].lock_fd # "none" }]
  /\ lost' = lost \ {p}

-----------------------------------------------------------------------------
(* editorOpen reads the file and closes it, ...                             *)
OpenFile(b) ==
  LET p == Owner[b] IN
  /\ Idle(p) /\ ~buf[b].open
  /\ UNCHANGED buf /\ CloseFile(p)
  /\ opening' = [opening EXCEPT ![p] = b]
  /\ UNCHANGED <<stale, saved, chosen>>

(* ... probes the lock through a second descriptor, and relockAll follows.  *)
(* A buffer that may not write the file is read-only for that, and one that *)
(* finds it locked for now.                                                 *)
OpenedAs(p, pid) ==
  [Closed EXCEPT !.open = TRUE, !.blocked = pid,
                 !.read_only = p \notin Writer \/ pid # Nil,
                 !.by_lock = p \in Writer /\ pid # Nil]

(* probeLock *)
Probed(p) == IF Conflicts(p, "write") = {} THEN {Nil} ELSE Conflicts(p, "write")

ProbeLock(p) ==
  LET b == opening[p] IN
  /\ b # Nil
  /\ \E pid \in Probed(p) : buf' = [buf EXCEPT ![b] = OpenedAs(p, pid)]
  /\ CloseFile(p)
  /\ opening' = [opening EXCEPT ![p] = Nil]
  /\ stale' = [stale EXCEPT ![b] = FALSE]
  /\ chosen' = [chosen EXCEPT ![b] = p \notin Writer]
  /\ UNCHANGED saved

(* lockFile into buffer b of process p, and what the caller makes of it: r  *)
(* is what the buffer is otherwise to be.  It closes its descriptor if it   *)
(* cannot have the lock, and leaves relockAll to the caller.                *)
Acquire(p, b, r) ==
  /\ Conflicts(p, ModeOf(p)) = {}
  /\ held' = [held EXCEPT ![p] = ModeOf(p)]
  /\ buf' = [buf EXCEPT ![b] = [r EXCEPT !.lock_fd = ModeOf(p), !.blocked = Nil]]

Conflict(p, b, r) ==
  /\ Conflicts(p, ModeOf(p)) # {}
  /\ held' = [held EXCEPT ![p] = "none"]
  /\ \E q \in Holders(p) : buf' = [buf EXCEPT ![b] = [r EXCEPT !.blocked = q]]

(* LOCK_RETRY or LOCK_UNAVAILABLE after the file was opened. *)
LockFails(p, b, r) ==
  /\ p \in Faulty
  /\ held' = [held EXCEPT ![p] = "none"]
  /\ buf' = [buf EXCEPT ![b] = r]

(* What becomes of lost when a failed call for b closes its descriptor.     *)
LostBeside(p, b) == IF Locked(p) \ {b} = {} THEN lost ELSE lost \cup {p}

(* markBufferDirty, on the first edit since the buffer was clean.  It does  *)
(* not call relockAll.                                                      *)
MarkDirty(b) ==
  LET p == Owner[b]
      r == [buf[b] EXCEPT !.dirty = TRUE]
  IN
  /\ Idle(p) /\ buf[b].open /\ ~buf[b].read_only /\ ~buf[b].dirty
  /\ IF buf[b].lock_fd # "none" \/ buf[b].external_mod
     THEN buf' = [buf EXCEPT ![b] = r] /\ UNCHANGED <<held, lost>>
     ELSE \/ Acquire(p, b, r) /\ lost' = lost \ {p}
          \/ Conflict(p, b, r) /\ UNCHANGED lost
          \/ LockFails(p, b, r) /\ lost' = LostBeside(p, b)
  /\ UNCHANGED <<stale, todo, opening, saved, chosen>>

(* releaseLock, as markBufferClean and destroyBuffer call it: b becomes r.  *)
Release(b, r) ==
  /\ buf' = [buf EXCEPT ![b] = r]
  /\ IF buf[b].lock_fd # "none" THEN CloseFile(Owner[b])
                               ELSE UNCHANGED <<held, todo, lost>>

Clean(r) == [r EXCEPT !.dirty = FALSE, !.lock_fd = "none", !.blocked = Nil]

(* Undoing back to the text loaded. *)
UndoBack(b) ==
  /\ Idle(Owner[b]) /\ buf[b].dirty /\ ~buf[b].read_only
  /\ Release(b, Clean(buf[b]))
  /\ UNCHANGED <<stale, opening, saved, chosen>>

(* killBuffer, and the old buffer of a revert. *)
Kill(b) ==
  /\ Idle(Owner[b]) /\ buf[b].open
  /\ Release(b, Closed)
  /\ stale' = [stale EXCEPT ![b] = FALSE] /\ chosen' = [chosen EXCEPT ![b] = FALSE]
  /\ UNCHANGED <<opening, saved>>

(* A save writes the file and closes it; relockAll; ...  The user has       *)
(* agreed to overwrite changes, if there were any.                          *)
WriteFile(b) ==
  /\ Idle(Owner[b]) /\ Owner[b] \in Writer
  /\ buf[b].dirty \/ buf[b].external_mod
  /\ UNCHANGED buf
  /\ CloseFile(Owner[b])
  /\ saved' = [saved EXCEPT ![Owner[b]] = b]
  /\ stale' = [c \in Buffer |-> IF c = b THEN stale[b] ELSE buf[c].open]
  /\ UNCHANGED <<opening, chosen>>

(* ... markBufferClean and a new baseline. *)
EndSave(p) ==
  LET b == saved[p] IN
  /\ b # Nil /\ todo[p] = {}
  /\ IF buf[b].dirty THEN Release(b, [Clean(buf[b]) EXCEPT !.external_mod = FALSE])
     ELSE /\ buf' = [buf EXCEPT ![b].external_mod = FALSE]
          /\ UNCHANGED <<held, todo, lost>>
  /\ saved' = [saved EXCEPT ![p] = Nil]
  /\ stale' = [stale EXCEPT ![b] = FALSE]
  /\ UNCHANGED <<opening, chosen>>

(* Any other command that opens the file and closes it: insert-file, a      *)
(* backup, a save that failed.                                              *)
Touch(p) ==
  /\ Idle(p) /\ Locked(p) # {}
  /\ UNCHANGED buf /\ CloseFile(p)
  /\ UNCHANGED <<stale, opening, saved, chosen>>

(* relockAll, at one buffer: the lock is ours again, ...                    *)
Relock(p, b) ==
  /\ b \in todo[p]
  /\ Conflicts(p, buf[b].lock_fd) = {}
  /\ held' = [held EXCEPT ![p] = buf[b].lock_fd]
  /\ todo' = [todo EXCEPT ![p] = @ \ {b}] /\ lost' = lost \ {p}
  /\ UNCHANGED <<buf, stale, opening, saved, chosen>>

(* ... or another process has taken it in between, ...  (Fault: nothing is  *)
(* said about it.)                                                          *)
RelockConflict_Silent(p, b) ==
  /\ b \in todo[p]
  /\ Conflicts(p, buf[b].lock_fd) # {}
  /\ buf' = [buf EXCEPT ![b].lock_fd = "none"]
  /\ held' = [held EXCEPT ![p] = "none"]
  /\ todo' = [todo EXCEPT ![p] = @ \ {b}]
  /\ UNCHANGED <<stale, opening, saved, chosen, lost>>

RelockConflict(p, b) ==
  /\ b \in todo[p]
  /\ Conflicts(p, buf[b].lock_fd) # {}
  /\ \E q \in Holders(p) :
       buf' = [buf EXCEPT ![b].blocked = q, ![b].lock_fd = "none"]
  /\ held' = [held EXCEPT ![p] = "none"]
  /\ todo' = [todo EXCEPT ![p] = @ \ {b}]
  /\ UNCHANGED <<stale, opening, saved, chosen, lost>>

(* ... or it cannot be had: closing the descriptor drops what the process   *)
(* had of it again through another buffer.                                  *)
RelockFails(p, b) ==
  /\ b \in todo[p] /\ p \in Faulty
  /\ buf' = [buf EXCEPT ![b].lock_fd = "none"]
  /\ held' = [held EXCEPT ![p] = "none"]
  /\ todo' = [todo EXCEPT ![p] = @ \ {b}] /\ lost' = LostBeside(p, b)
  /\ UNCHANGED <<stale, opening, saved, chosen>>

-----------------------------------------------------------------------------
(* The check on every redisplay of the focused buffer *)

(* Job 1 of checkFileModified: what the file's mtime and size show. *)
NoticeChange(b) ==
  /\ Idle(Owner[b]) /\ buf[b].open
  /\ stale[b] /\ ~buf[b].external_mod
  /\ buf' = [buf EXCEPT ![b].external_mod = TRUE]
  /\ UNCHANGED <<held, stale, todo, opening, saved, chosen, lost>>

(* clearLockWarning.  (Fault: a read-only buffer is made writable whoever   *)
(* made it read-only.)                                                      *)
WarningCleared_AnyReadOnly(r) ==
  [r EXCEPT !.blocked = Nil, !.read_only = FALSE, !.by_lock = FALSE]

WarningCleared(r) ==
  [r EXCEPT !.blocked = Nil, !.read_only = @ /\ ~r.by_lock, !.by_lock = FALSE]

(* Job 2: while a warning stands, a modified buffer tries for the lock and  *)
(* a clean one asks whether it is still held; relockAll follows both.       *)
(* (Fault: only modified buffers look.)                                     *)
PollLock_DirtyOnly(b) ==
  LET p == Owner[b] IN
  /\ Idle(p) /\ buf[b].dirty
  /\ buf[b].blocked # Nil /\ buf[b].lock_fd = "none" /\ ~buf[b].external_mod
  /\ ~stale[b]
  /\ \/ Acquire(p, b, WarningCleared(buf[b])) /\ UNCHANGED todo
     \/ Conflict(p, b, buf[b]) /\ todo' = [todo EXCEPT ![p] = Locked(p)]
  /\ lost' = lost \ {p}
  /\ UNCHANGED <<stale, opening, saved, chosen>>

PollLock(b) ==
  LET p == Owner[b] IN
  /\ Idle(p)
  /\ buf[b].blocked # Nil /\ buf[b].lock_fd = "none" /\ ~buf[b].external_mod
  /\ ~stale[b]
  /\ IF buf[b].dirty
     THEN /\ \/ Acquire(p, b, WarningCleared(buf[b])) /\ UNCHANGED todo
             \/ Conflict(p, b, buf[b]) /\ todo' = [todo EXCEPT ![p] = Locked(p)]
             \/ /\ \E r \in {buf[b], WarningCleared(buf[b])} : LockFails(p, b, r)
                /\ todo' = [todo EXCEPT ![p] = Locked(p)]
          /\ lost' = lost \ {p}
     ELSE /\ \E pid \in Probed(p) :
               buf' = [buf EXCEPT ![b] = IF pid = Nil THEN WarningCleared(@)
                                                       ELSE [@ EXCEPT !.blocked = pid]]
          /\ CloseFile(p)
  /\ UNCHANGED <<stale, opening, saved, chosen>>

CheckFile(b) == NoticeChange(b) \/ PollLock(b)

(* C-x C-q *)
ToggleReadOnly(b) ==
  /\ Idle(Owner[b]) /\ buf[b].open
  /\ buf' = [buf EXCEPT ![b].read_only = ~@, ![b].by_lock = FALSE]
  /\ chosen' = [chosen EXCEPT ![b] = ~buf[b].read_only]
  /\ UNCHANGED <<held, stale, todo, opening, saved, lost>>

(* The process exits or is killed, at whatever point it is. *)
Exit(p) ==
  /\ opening[p] # Nil \/ \E b \in Of(p) : buf[b].open
  /\ held' = [held EXCEPT ![p] = "none"]
  /\ buf' = [b \in Buffer |-> IF b \in Of(p) THEN Closed ELSE buf[b]]
  /\ stale' = [b \in Buffer |-> IF b \in Of(p) THEN FALSE ELSE stale[b]]
  /\ chosen' = [b \in Buffer |-> IF b \in Of(p) THEN FALSE ELSE chosen[b]]
  /\ todo' = [todo EXCEPT ![p] = {}] /\ lost' = lost \ {p}
  /\ opening' = [opening EXCEPT ![p] = Nil] /\ saved' = [saved EXCEPT ![p] = Nil]

-----------------------------------------------------------------------------
LockInit ==
  /\ held = [p \in Proc |-> "none"]
  /\ buf = [b \in Buffer |-> Closed]
  /\ stale = [b \in Buffer |-> FALSE]
  /\ todo = [p \in Proc |-> {}] /\ lost = {}
  /\ opening = [p \in Proc |-> Nil] /\ saved = [p \in Proc |-> Nil]
  /\ chosen = [b \in Buffer |-> FALSE]

RelockAll(p) ==
  /\ opening[p] = Nil
  /\ \E b \in Of(p) : Relock(p, b) \/ RelockConflict(p, b) \/ RelockFails(p, b)

LockNext ==
  \/ \E b \in Buffer : \/ OpenFile(b) \/ MarkDirty(b) \/ UndoBack(b) \/ Kill(b)
                       \/ WriteFile(b) \/ CheckFile(b) \/ ToggleReadOnly(b)
  \/ \E p \in Proc : ProbeLock(p) \/ RelockAll(p) \/ EndSave(p) \/ Touch(p) \/ Exit(p)

(* A command under way goes on, and the user comes back to each buffer, so  *)
(* that it is redisplayed, and checked, again and again between the         *)
(* commands.  Nothing makes a user edit or save.                            *)
Fairness ==
  /\ \A p \in Proc : WF_lockVars(ProbeLock(p) \/ RelockAll(p) \/ EndSave(p))
  /\ \A b \in Buffer : SF_lockVars(CheckFile(b))

LockSpec == LockInit /\ [][LockNext]_lockVars /\ Fairness

-----------------------------------------------------------------------------
BufferState ==
  [open : BOOLEAN, dirty : BOOLEAN, external_mod : BOOLEAN, read_only : BOOLEAN,
   by_lock : BOOLEAN, lock_fd : Mode, blocked : Proc \cup {Unknown, Nil}]

LockTypeOK ==
  /\ held \in [Proc -> Mode]
  /\ buf \in [Buffer -> BufferState]
  /\ stale \in [Buffer -> BOOLEAN] /\ chosen \in [Buffer -> BOOLEAN]
  /\ todo \in [Proc -> SUBSET Buffer] /\ lost \subseteq Proc
  /\ opening \in [Proc -> Buffer \cup {Nil}] /\ saved \in [Proc -> Buffer \cup {Nil}]
  /\ \A p \in Proc : opening[p] \in Of(p) \cup {Nil}

(* A buffer that believes it holds the lock does, whenever its process is   *)
(* between commands: descriptors closed for any other reason never cost it  *)
(* the lock silently (fileio.c relockAll: "Re-assert every advisory lock we *)
(* believe we hold").  The exception is a lock call of the same process     *)
(* that failed for another reason than a conflict (lost).                   *)
LocksAreHeld ==
  \A b \in Buffer :
    Idle(Owner[b]) /\ buf[b].lock_fd # "none" /\ Owner[b] \notin lost
    => held[Owner[b]] = buf[b].lock_fd

(* Without that exception (fileio.h: relockAll "Must be called after any    *)
(* operation that opens and closes a file").                                *)
BelievedLocksHeld ==
  \A b \in Buffer :
    Idle(Owner[b]) /\ buf[b].lock_fd # "none" => held[Owner[b]] = buf[b].lock_fd

(* While a buffer has unsaved edits and the file has not changed under it,  *)
(* it holds the lock or warns who does (emil.1, Advisory Locking): with     *)
(* LocksAreHeld, of two processes that may write and lock the file at most  *)
(* one edits unwarned.                                                      *)
EditsAnnounced ==
  \A b \in Buffer :
    /\ buf[b].dirty /\ ~buf[b].external_mod /\ ~stale[b]
    /\ Owner[b] \in Writer \ Faulty /\ Idle(Owner[b])
    => buf[b].lock_fd = "write" \/ buf[b].blocked # Nil

(* A buffer read-only by the user's choice, or for want of permission, is   *)
(* never made writable by a lock going away (emil.h, read_only_by_lock).    *)
ReadOnlyKept == \A b \in Buffer : buf[b].open /\ chosen[b] => buf[b].read_only

(* If no other process ever takes the lock again, a warning about it does   *)
(* not stand for ever (checkFileModified, job 2), where locking works.      *)
Free(p)         == \A q \in Proc \ {p} : held[q] = "none"
WarningsClear ==
  \A b \in { c \in Buffer : Owner[c] \notin Faulty } :
    []<>(Free(Owner[b]) => buf[b].blocked = Nil \/ buf[b].external_mod)

=============================================================================
