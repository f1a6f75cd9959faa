------------------------------ MODULE FileSave ------------------------------
(***************************************************************************)
(* One buffer and the file it visits, with the backup a save makes and     *)
(* another process that may replace or remove the file at any time         *)
(* (fileio.c).  A save is not one step: each system call is an action of   *)
(* its own, so that the other process, a failing call, a question put to   *)
(* the user or a crash can come between any two of them.                   *)
(*                                                                         *)
(* Texts are compared, never looked into.  Advisory locks are in FileLock. *)
(***************************************************************************)
EXTENDS Naturals, FiniteSets

CONSTANTS
  Text,       (* What a buffer or a file can hold.                          *)
  Torn,       (* What a file truncated or written in part holds.            *)
  None,       (* No file, no backup, no baseline.                           *)
  Size(_),    (* st_size of a text.                                         *)
  MaxClock,   (* Bound on time, which st_mtime counts in whole seconds,     *)
  MaxKept     (* and on the backups left by saves that failed.              *)

Content == Text \cup {Torn}

ASSUME TornAssumption  == Torn \notin Text
ASSUME NoneAssumption  ==
  /\ None \notin Content
  /\ None \notin [data : Content, mtime : Nat, durable : BOOLEAN]
  /\ None \notin [data : Content, durable : BOOLEAN]
ASSUME SizeAssumption  == \A c \in Content : Size(c) \in Nat
ASSUME BoundAssumption == MaxClock \in Nat /\ MaxKept \in Nat

VARIABLES
  text,          (* the buffer's text                                       *)
  loaded,        (* the text undoing everything leads back to               *)
  dirty, internal_mod, external_mod,
  baseline,      (* open_mtime and open_size, None when unset               *)
  file,          (* the file: its data, its mtime, whether they are durable *)
  backup,        (* the backup this save made: data, durable                *)
  kept,          (* what the backups left by earlier saves hold             *)
  clock,
  pc,            (* where in save() the editor is                           *)
  have_backup,
  damaged,       (* writeInPlace's report to the user                       *)
  (* History: not in the code.                                              *)
  stake,         (* the text this save put at risk, not yet safe elsewhere  *)
  unsafe,        (* the user settled for a save without a backup            *)
  raced,         (* another process wrote between two steps of this save    *)
  hurt,          (* this save has truncated the file                        *)
  foreign,       (* another process changed the file since emil last read,  *)
                 (* truncated or turned to it                               *)
  known,         (* the stamp of the file as emil last read it or wrote it  *)
                 (* whole under this name, None if it did neither           *)
  slipped,       (* the baseline was taken of another process's change      *)
  told,          (* and the user said to save nevertheless                  *)
  intact         (* since emil last read it or wrote it whole, under this   *)
                 (* name, emil has not opened the file for writing          *)

buffer  == <<text, loaded, dirty, internal_mod, external_mod, baseline>>
disk    == <<file, backup, kept>>
history == <<stake, unsafe, raced, hurt, foreign, known, slipped, told, intact>>
saving  == <<have_backup, damaged>>
vars    == <<buffer, disk, clock, pc, saving, history>>

Stamp(f) == [mtime |-> f.mtime, size |-> Size(f.data)]

(* What a file system may be left with by a crash: what was not flushed may *)
(* be there or not.                                                         *)
AfterCrash(f) == IF f = None THEN {None}
                 ELSE { [f EXCEPT !.data = c, !.durable = TRUE] :
                          c \in IF f.durable THEN {f.data} ELSE {f.data, Torn} }

-----------------------------------------------------------------------------
(* Loading and editing *)

Loaded(t) ==
  /\ text' = t /\ loaded' = t /\ baseline' = None
  /\ dirty' = FALSE /\ internal_mod' = FALSE /\ external_mod' = FALSE

(* editorOpen into a new buffer reads the file, if there is one, and closes *)
(* it, ...  (One that cannot be read is not visited, and revert then keeps  *)
(* the buffer it has.)                                                      *)
Load ==
  /\ pc = "load" /\ pc' = "record"
  /\ IF file = None THEN /\ \E t \in Text : Size(t) = 0 /\ Loaded(t)
                         /\ known' = None /\ intact' = FALSE
                    ELSE /\ Loaded(file.data)
                         /\ known' = Stamp(file) /\ intact' = TRUE
  /\ foreign' = FALSE /\ slipped' = FALSE /\ told' = FALSE
  /\ UNCHANGED <<disk, clock, saving, stake, unsafe, raced, hurt>>

(* ... and only then looks up its mtime and size, by name. *)
RecordBaseline ==
  /\ pc = "record" /\ pc' = "command"
  /\ baseline' = IF file = None \/ known = None THEN None ELSE Stamp(file)
  /\ slipped' = foreign
  /\ UNCHANGED <<text, loaded, dirty, internal_mod, external_mod, disk, clock, saving,
                 stake, unsafe, raced, hurt, foreign, known, told, intact>>

Edit(t) ==
  /\ pc = "command" /\ t # text
  /\ text' = t /\ dirty' = TRUE
  /\ UNCHANGED <<loaded, internal_mod, external_mod, baseline, disk, clock, pc,
                 saving, history>>

(* Undoing everything: doUndo calls markBufferClean unless a save has moved *)
(* the text on disk away from the text loaded.                              *)
UndoAll ==
  /\ pc = "command" /\ dirty
  /\ text' = loaded /\ dirty' = internal_mod
  /\ UNCHANGED <<loaded, internal_mod, external_mod, baseline, disk, clock, pc,
                 saving, history>>

(* revert: refused when there is no file to go back to, which may yet go    *)
(* before it is read.                                                       *)
Revert ==
  /\ pc = "command" /\ file # None
  /\ pc' = "load"
  /\ UNCHANGED <<buffer, disk, clock, saving, history>>

(* Job 1 of checkFileModified, from every redisplay, those that put a       *)
(* question to the user included.  A stat that fails or is cut short by the *)
(* 50 ms timer reports nothing.                                             *)
CheckFileModified ==
  /\ pc \in {"command", "ask changed", "ask unsafe", "ask retry"}
  /\ baseline # None /\ ~external_mod
  /\ file # None /\ Stamp(file) # baseline
  /\ external_mod' = TRUE
  /\ UNCHANGED <<text, loaded, dirty, internal_mod, baseline, disk, clock, pc, saving, history>>

-----------------------------------------------------------------------------
(* save *)

Unchanged_NewerOnly ==
  file # None /\ baseline # None /\ Stamp(file).mtime <= baseline.mtime

(* The file is as it was when emil last read or wrote it, as far as mtime   *)
(* and size tell.  (Fault: it is taken to be unless its mtime is newer.)    *)
FileUnchanged == file # None /\ Stamp(file) = baseline

(* saveBuffer returns: its locals and what was noted of this save go. *)
SaveReturns ==
  /\ pc' = "command" /\ have_backup' = FALSE /\ damaged' = FALSE
  /\ unsafe' = FALSE /\ raced' = FALSE /\ hurt' = FALSE

(* What a save begins with, once it is to be made. *)
BeginSave(skip_backup) ==
  /\ pc' = IF skip_backup THEN "truncate" ELSE "back up"
  /\ have_backup' = FALSE /\ damaged' = FALSE
  /\ unsafe' = skip_backup /\ raced' = FALSE /\ hurt' = FALSE

(* save: preSaveCheck asks, or the save begins, unless there are no changes *)
(* to be saved.                                                             *)
Save(skip_backup) ==
  /\ pc = "command"
  /\ \/ /\ baseline # None /\ ~FileUnchanged
        /\ external_mod' = TRUE
        /\ pc' = "ask changed" /\ unsafe' = skip_backup
        /\ UNCHANGED <<saving, raced, hurt>>
     \/ /\ baseline = None \/ FileUnchanged
        /\ dirty \/ external_mod
        /\ BeginSave(skip_backup)
        /\ UNCHANGED external_mod
  /\ UNCHANGED <<text, loaded, dirty, internal_mod, baseline, disk, clock,
                 stake, foreign, known, slipped, told, intact>>

(* confirmYN after "File has changed on disk since it was read". *)
AnswerChanged(yes) ==
  /\ pc = "ask changed"
  /\ IF yes THEN BeginSave(unsafe) /\ told' = TRUE
            ELSE SaveReturns /\ UNCHANGED told
  /\ UNCHANGED <<buffer, disk, clock, stake, foreign, known, slipped, intact>>

(* saveAs, and saveBuffer asking for a name: the buffer turns to another    *)
(* file f, which may exist, drops its baseline and saves at once.           *)
SaveAs(f) ==
  /\ pc = "command"
  /\ file' = f /\ kept' = {} /\ backup' = None
  /\ baseline' = None /\ external_mod' = FALSE
  /\ BeginSave(FALSE)
  /\ stake' = None /\ foreign' = FALSE /\ told' = FALSE /\ intact' = FALSE
  /\ known' = None /\ slipped' = FALSE
  /\ UNCHANGED <<text, loaded, dirty, internal_mod, clock>>

(* The stat that decides whether there is something to back up, and         *)
(* backup_create: an exclusive create, so no earlier backup is opened.      *)
CreateBackup ==
  /\ pc = "back up"
  /\ IF file = None
     THEN pc' = "truncate" /\ UNCHANGED backup
     ELSE pc' = "copy" /\ backup' = [data |-> Torn, durable |-> FALSE]
  /\ UNCHANGED <<buffer, file, kept, clock, saving, history>>

(* copyFd to the end of the file. *)
CopyBackup ==
  /\ pc = "copy" /\ file # None
  /\ backup' = [backup EXCEPT !.data = file.data]
  /\ pc' = "sync backup"
  /\ UNCHANGED <<buffer, file, kept, clock, saving, history>>

(* fsync and close: the backup is verified.  The directory is not flushed:  *)
(* that fsync of a new file makes its name durable too is assumed of the    *)
(* file system.  (Fault: the backup is not flushed.)                        *)
SyncBackup_CloseOnly ==
  /\ pc = "sync backup"
  /\ have_backup' = TRUE /\ pc' = "truncate"
  /\ UNCHANGED <<buffer, disk, clock, damaged, history>>

SyncBackup ==
  /\ pc = "sync backup"
  /\ backup' = [backup EXCEPT !.durable = TRUE]
  /\ have_backup' = TRUE /\ pc' = "truncate"
  /\ UNCHANGED <<buffer, file, kept, clock, damaged, history>>

(* Any of these calls fails: the partial backup is unlinked and the user is *)
(* asked.  Creating it fails too when every name for it is taken.           *)
BackupFails ==
  /\ pc \in {"back up", "copy", "sync backup"}
  /\ file # None \/ pc = "copy"
  /\ backup' = None /\ pc' = "ask unsafe"
  /\ UNCHANGED <<buffer, file, kept, clock, saving, history>>

AnswerUnsafe(yes) ==
  /\ pc = "ask unsafe"
  /\ IF yes THEN /\ pc' = "truncate" /\ unsafe' = TRUE
                 /\ UNCHANGED <<saving, raced, hurt>>
            ELSE SaveReturns
  /\ UNCHANGED <<buffer, disk, clock, stake, foreign, known, slipped, told, intact>>

(* writeInPlace: open with O_TRUNC, ... *)
Truncate ==
  /\ pc = "truncate"
  /\ file' = [data |-> Torn, mtime |-> clock, durable |-> FALSE]
  /\ damaged' = FALSE /\ hurt' = TRUE
  /\ stake' = IF stake = None /\ file # None /\ ~hurt /\ ~unsafe /\ ~raced
               THEN file.data ELSE stake
  /\ pc' = "write" /\ intact' = FALSE /\ foreign' = FALSE
  /\ UNCHANGED <<buffer, backup, kept, clock, have_backup,
                 unsafe, raced, known, slipped, told>>

(* ... write until all of the buffer is written, over what another process  *)
(* has put into the file meanwhile or, if it has put another file in its    *)
(* place, into one that has no name any more, ...                           *)
Write ==
  /\ pc = "write"
  /\ \/ file # None /\ file' = [data |-> text, mtime |-> clock, durable |-> FALSE]
     \/ foreign /\ UNCHANGED file
  /\ pc' = "sync"
  /\ UNCHANGED <<buffer, backup, kept, clock, saving, history>>

(* ... fsync and close.  Another process may have removed the name: the     *)
(* descriptor does not tell.                                                *)
Sync ==
  /\ pc = "sync"
  /\ file' = IF file = None THEN None ELSE [file EXCEPT !.durable = TRUE]
  /\ pc' = "unlink"
  /\ UNCHANGED <<buffer, backup, kept, clock, saving, history>>

(* The open fails: nothing was touched by this call, and damaged is reset,  *)
(* whatever an earlier one has done to the file.                            *)
TruncateFails ==
  /\ pc = "truncate"
  /\ damaged' = FALSE /\ pc' = "ask retry"
  /\ UNCHANGED <<buffer, disk, clock, have_backup, history>>

(* A write, fstat, fsync or close fails. *)
WriteFails ==
  /\ pc \in {"write", "sync"}
  /\ damaged' = TRUE /\ pc' = "ask retry"
  /\ UNCHANGED <<buffer, disk, clock, have_backup, history>>

(* "Retry? (y/n)": a retry writes again and makes no second backup; giving  *)
(* up leaves the backup where it is.                                        *)
AnswerRetry(yes) ==
  /\ pc = "ask retry"
  /\ IF yes THEN pc' = "truncate" /\ UNCHANGED <<saving, backup, kept, unsafe, raced, hurt>>
     ELSE /\ SaveReturns
          /\ kept' = IF backup = None THEN kept ELSE kept \cup {backup.data}
          /\ backup' = None
  /\ Cardinality(kept') <= MaxKept
  /\ UNCHANGED <<buffer, file, clock, stake, foreign, known, slipped, told, intact>>

(* Success: only the backup this save made is deleted. *)
UnlinkBackup ==
  /\ pc = "unlink"
  /\ backup' = IF have_backup THEN None ELSE backup
  /\ pc' = "stat"
  /\ UNCHANGED <<buffer, file, kept, clock, saving, history>>

FinishSave_NotClean ==
  /\ pc = "stat"
  /\ dirty' = FALSE /\ external_mod' = FALSE
  /\ baseline' = IF file = None THEN baseline ELSE Stamp(file)
  /\ SaveReturns
  /\ stake' = None /\ intact' = TRUE /\ told' = FALSE
  /\ slipped' = foreign /\ known' = IF foreign THEN known ELSE baseline'
  /\ UNCHANGED <<text, loaded, internal_mod, disk, clock, foreign>>

(* markBufferClean, the new baseline and the two flags.  (Fault: it does    *)
(* not note that the file has moved away from the text loaded.)             *)
FinishSave ==
  /\ pc = "stat"
  /\ dirty' = FALSE /\ external_mod' = FALSE /\ internal_mod' = TRUE
  /\ baseline' = IF file = None THEN baseline ELSE Stamp(file)
  /\ SaveReturns
  /\ stake' = None /\ intact' = TRUE /\ told' = FALSE
  /\ slipped' = foreign /\ known' = IF foreign THEN known ELSE baseline'
  /\ UNCHANGED <<text, loaded, disk, clock, foreign>>

-----------------------------------------------------------------------------
(* What happens around the editor *)

Tick ==
  /\ clock < MaxClock /\ clock' = clock + 1
  /\ UNCHANGED <<buffer, disk, pc, saving, history>>

(* Another process puts f in the place of the file; what was at stake in    *)
(* this one is no longer emil's to lose.                                    *)
Interfere(f) ==
  /\ f # file
  /\ file' = f
  /\ foreign' = TRUE /\ told' = FALSE
  /\ raced' = (pc \notin {"command", "load", "record", "dead", "ask changed"})
  /\ stake' = None
  /\ UNCHANGED <<buffer, backup, kept, clock, pc, have_backup, damaged,
                 unsafe, hurt, known, slipped, intact>>

(* The machine stops: the buffer is gone, but for the note of what it held, *)
(* which a save may have left on disk.                                      *)
Crash ==
  /\ pc # "dead" /\ pc' = "dead"
  /\ file' \in AfterCrash(file)
  /\ \E b \in AfterCrash(backup) :
       /\ kept' = IF b = None THEN kept ELSE kept \cup {b.data}
       /\ backup' = None
  /\ Cardinality(kept') <= MaxKept
  /\ have_backup' = FALSE /\ damaged' = FALSE
  /\ Loaded(text) /\ known' = None
  /\ unsafe' = FALSE /\ raced' = FALSE /\ hurt' = FALSE
  /\ foreign' = FALSE /\ slipped' = FALSE /\ told' = FALSE /\ intact' = FALSE
  /\ UNCHANGED <<clock, stake>>

(* emil is started on the file again, new or not. *)
Restart ==
  /\ pc = "dead" /\ pc' = "load"
  /\ stake' = IF file # None /\ file.data \in {stake, text} THEN None ELSE stake
  /\ UNCHANGED <<buffer, disk, clock, saving, unsafe, raced, hurt,
                 foreign, known, slipped, told, intact>>

-----------------------------------------------------------------------------
Files == [data : Text, mtime : 0..clock, durable : {TRUE}] \cup {None}

Init ==
  /\ clock = 0
  /\ file \in Files /\ backup = None /\ kept = {}
  /\ IF file = None THEN /\ text \in { t \in Text : Size(t) = 0 }
                         /\ baseline = None /\ intact = FALSE
                    ELSE text = file.data /\ baseline = Stamp(file) /\ intact = TRUE
  /\ loaded = text
  /\ dirty = FALSE /\ internal_mod = FALSE /\ external_mod = FALSE
  /\ pc = "command" /\ have_backup = FALSE /\ damaged = FALSE
  /\ stake = None /\ unsafe = FALSE /\ raced = FALSE /\ hurt = FALSE
  /\ known = baseline
  /\ foreign = FALSE /\ slipped = FALSE /\ told = FALSE

Command ==
  \/ \E t \in Text : Edit(t)
  \/ UndoAll \/ Revert
  \/ \E skip \in BOOLEAN : Save(skip)
  \/ \E f \in Files : SaveAs(f)

Answer == \E yes \in BOOLEAN : AnswerChanged(yes) \/ AnswerUnsafe(yes) \/ AnswerRetry(yes)

SaveStep ==
  \/ CreateBackup \/ CopyBackup \/ SyncBackup \/ BackupFails
  \/ Truncate \/ Write \/ Sync \/ TruncateFails \/ WriteFails
  \/ UnlinkBackup \/ FinishSave

Next ==
  \/ Command \/ Load \/ RecordBaseline \/ Answer \/ SaveStep \/ CheckFileModified
  \/ Tick \/ Crash \/ Restart
  \/ \E f \in Files : Interfere(f)

Spec == Init /\ [][Next]_vars

-----------------------------------------------------------------------------
Version == [data : Content, mtime : 0..MaxClock, durable : BOOLEAN] \cup {None}

TypeOK ==
  /\ text \in Content /\ loaded \in Content
  /\ {dirty, internal_mod, external_mod, have_backup, damaged} \subseteq BOOLEAN
  /\ {unsafe, raced, hurt, foreign, slipped, told, intact} \subseteq BOOLEAN
  /\ {baseline, known} \subseteq [mtime : 0..MaxClock, size : Nat] \cup {None}
  /\ file \in Version
  /\ backup \in [data : Content, durable : BOOLEAN] \cup {None}
  /\ kept \subseteq Content
  /\ clock \in 0..MaxClock
  /\ stake \in Content \cup {None}

(* The text a save replaces is never lost: from the moment the file is      *)
(* truncated until the new text is flushed to disk, whatever fails, however *)
(* often the user retries or gives up and wherever the machine stops, a     *)
(* backup holds it whole (fileio.c saveBuffer; emil.1: "After a failed      *)
(* save, a backup file of the pre-saved file state is left").               *)
Recoverable ==
  stake # None =>
    \/ stake \in kept
    \/ backup # None /\ backup.durable /\ backup.data = stake
    \/ file # None /\ file.durable /\ file.data \in {stake, text}

(* A text another process left in the file is overwritten only if the user  *)
(* said so, or mtime and size do not show that it is not the one emil last  *)
(* read or wrote, or it came after the check (raced), or a change before it *)
(* came between reading or writing the file and looking up its mtime and    *)
(* size (slipped).  fileio.c preSaveCheck.                                  *)
ChangeReported ==
  pc = "truncate" /\ foreign /\ ~raced /\ ~slipped
    => told \/ known = None \/ (file # None /\ Stamp(file) = known)

(* A buffer shown as unmodified holds what its file holds, unless another   *)
(* process has changed the file or a save of emil's failed half-way in it:  *)
(* however saves, failures, reverts and undos follow each other.            *)
CleanMatchesFile ==
  pc = "command" /\ intact /\ ~foreign /\ ~dirty => file # None /\ file.data = text

(* Without that last exception.  buffer.c: the lock is released "the moment *)
(* the buffer matches what's on disk", which is when markBufferClean runs.  *)
CleanIsOnDisk ==
  pc = "command" /\ baseline # None /\ ~foreign /\ ~dirty
    => file # None /\ file.data = text

=============================================================================
