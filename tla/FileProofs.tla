----------------------------- MODULE FileProofs -----------------------------
(***************************************************************************)
(* Proofs about FileLock and FileSave.                                     *)
(*                                                                         *)
(* FileLock, for any processes and buffers, whichever of the processes     *)
(* cannot rely on their lock calls: what a buffer believes of the lock is  *)
(* so but for the failed calls the code does not make up for, edits are    *)
(* announced, and read-only buffers stay so.  The                          *)
(* first needs more than it says: while relockAll is under way, the        *)
(* buffers it has gone through hold the lock already, and those it has not *)
(* believe in one of the kind their process takes (Beliefs, Pending); and  *)
(* that the kernel gives a process its own lock again needs the kernel's   *)
(* table to be free of conflicts (Kernel).                                 *)
(*                                                                         *)
(* FileSave: whatever fails, however often the user retries or gives up,   *)
(* whatever another process does and wherever the machine stops, the text  *)
(* a save replaces can be found, a change of the file that did not slip    *)
(* into the baseline is told of before it is overwritten, and a clean      *)
(* buffer holds what its file holds.                                       *)
(***************************************************************************)
EXTENDS FileLock, FileSave, TLAPS

-----------------------------------------------------------------------------
(* The lock *)

Kernel ==
  /\ \A p \in Proc : held[p] \in {"none", ModeOf(p)}
  /\ \A p, q \in Proc : p # q /\ held[p] = "write" => held[q] = "none"

Believes(b) ==
  buf[b].lock_fd # "none" =>
    /\ buf[b].lock_fd = ModeOf(Owner[b])
    /\ b \notin todo[Owner[b]] /\ Owner[b] \notin lost => held[Owner[b]] = buf[b].lock_fd

Beliefs == \A b \in Buffer : Believes(b)

Pending == \A p \in Proc : \A b \in todo[p] : Owner[b] = p /\ buf[b].lock_fd # "none"

LockInv == Kernel /\ Beliefs /\ Pending

(* EditsAnnounced of b at every step, those of relockAll included. *)
Announced(b) ==
  buf[b].dirty /\ ~buf[b].external_mod /\ ~stale[b] /\ Owner[b] \in Writer \ Faulty
  => buf[b].lock_fd # "none" \/ buf[b].blocked # Nil

(* A lock that goes away undoes by_lock only. *)
NotByLock(b) == buf[b].open /\ chosen[b] => buf[b].read_only /\ ~buf[b].by_lock

Shut(b) == buf[b].dirty => buf[b].open

Fields == \A b \in Buffer : Announced(b) /\ NotByLock(b) /\ Shut(b)

USE OwnerAssumption, WriterAssumption, PidAssumption, FaultAssumption

-----------------------------------------------------------------------------
(* Types *)

LEMMA Modes ==
  ASSUME NEW p \in Proc
  PROVE  ModeOf(p) \in {"write", "read"} /\ ModeOf(p) \in Mode
BY DEF ModeOf, Mode

LEMMA ClosedIs == Closed \in BufferState
BY DEF Closed, BufferState, Mode

LEMMA OpenedIs ==
  ASSUME NEW p \in Proc, NEW pid \in Probed(p)
  PROVE  OpenedAs(p, pid) \in BufferState
<1>1. pid \in Proc \cup {Nil}  BY DEF Probed, Conflicts
<1>2. QED  BY <1>1 DEF OpenedAs, Closed, BufferState, Mode

LEMMA ClearedIs ==
  ASSUME NEW r \in BufferState
  PROVE  WarningCleared(r) \in BufferState /\ Clean(r) \in BufferState
BY DEF WarningCleared, Clean, BufferState, Mode

LEMMA ChangedIs ==
  ASSUME NEW r \in BufferState, NEW v \in BOOLEAN
  PROVE  /\ [r EXCEPT !.dirty = v] \in BufferState
         /\ [r EXCEPT !.external_mod = v] \in BufferState
         /\ [r EXCEPT !.read_only = ~r.read_only, !.by_lock = FALSE] \in BufferState
<1>1. [r EXCEPT !.dirty = v] \in BufferState  BY DEF BufferState
<1>2. [r EXCEPT !.external_mod = v] \in BufferState  BY DEF BufferState
<1>3. [r EXCEPT !.read_only = ~r.read_only, !.by_lock = FALSE] \in BufferState
  BY DEF BufferState
<1>4. QED  BY <1>1, <1>2, <1>3

(* lockFile, whatever it answers, changes the one lock and the one buffer.  *)
LEMMA TriesKeepTypes ==
  ASSUME LockTypeOK, NEW b \in Buffer, NEW p \in Proc, NEW r \in BufferState,
         Acquire(p, b, r) \/ Conflict(p, b, r) \/ LockFails(p, b, r)
  PROVE  held' \in [Proc -> Mode] /\ buf' \in [Buffer -> BufferState]
<1>1. CASE Acquire(p, b, r)
  <2>1. [r EXCEPT !.lock_fd = ModeOf(p), !.blocked = Nil] \in BufferState
    BY Modes DEF BufferState
  <2>2. QED  BY <1>1, <2>1, Modes DEF Acquire, LockTypeOK
<1>2. CASE Conflict(p, b, r)
  <2>1. PICK q \in Holders(p) : buf' = [buf EXCEPT ![b] = [r EXCEPT !.blocked = q]]
    BY <1>2 DEF Conflict
  <2>2. q \in Proc \cup {Unknown, Nil}  BY DEF Holders, Conflicts
  <2>3. [r EXCEPT !.blocked = q] \in BufferState  BY <2>2 DEF BufferState
  <2>4. QED  BY <1>2, <2>1, <2>3 DEF Conflict, LockTypeOK, Mode
<1>3. CASE LockFails(p, b, r)  BY <1>3 DEF LockFails, LockTypeOK, Mode
<1>4. QED  BY <1>1, <1>2, <1>3

LEMMA ClosesKeepTypes ==
  ASSUME LockTypeOK, NEW p \in Proc, CloseFile(p)
  PROVE  held' \in [Proc -> Mode] /\ todo' \in [Proc -> SUBSET Buffer] /\ lost' \subseteq Proc
BY DEF CloseFile, LockTypeOK, Mode, Of

LEMMA ReleaseKeepsTypes ==
  ASSUME LockTypeOK, NEW b \in Buffer, NEW r \in BufferState, Release(b, r)
  PROVE  /\ held' \in [Proc -> Mode] /\ todo' \in [Proc -> SUBSET Buffer]
         /\ buf' \in [Buffer -> BufferState] /\ lost' \subseteq Proc
BY ClosesKeepTypes DEF Release, LockTypeOK

LEMMA LockTypeKept == LockTypeOK /\ [LockNext]_lockVars => LockTypeOK'
<1> SUFFICES ASSUME LockTypeOK, [LockNext]_lockVars  PROVE LockTypeOK'  OBVIOUS
<1> USE DEF LockTypeOK
<1>1. CASE UNCHANGED lockVars  BY <1>1 DEF lockVars
<1>2. ASSUME NEW b \in Buffer, OpenFile(b)  PROVE LockTypeOK'
  BY <1>2, ClosesKeepTypes DEF OpenFile, Of
<1>3. ASSUME NEW b \in Buffer, MarkDirty(b)  PROVE LockTypeOK'
  <2> DEFINE r == [buf[b] EXCEPT !.dirty = TRUE]
  <2>1. r \in BufferState /\ Owner[b] \in Proc  BY ChangedIs
  <2>2. CASE buf' = [buf EXCEPT ![b] = r] /\ UNCHANGED <<held, lost>>
    BY <1>3, <2>1, <2>2 DEF MarkDirty
  <2>3. CASE /\ Acquire(Owner[b], b, r) \/ Conflict(Owner[b], b, r) \/ LockFails(Owner[b], b, r)
             /\ lost' \in {lost \ {Owner[b]}, lost, LostBeside(Owner[b], b)}
    <3>1. held' \in [Proc -> Mode] /\ buf' \in [Buffer -> BufferState]
      <4> HIDE DEF r
      <4>1. QED  BY <2>1, <2>3, TriesKeepTypes
    <3>2. lost' \subseteq Proc  BY <2>1, <2>3 DEF LostBeside
    <3>3. QED  BY <1>3, <3>1, <3>2 DEF MarkDirty
  <2>4. QED  BY <1>3, <2>2, <2>3 DEF MarkDirty
<1>4. ASSUME NEW b \in Buffer, UndoBack(b)  PROVE LockTypeOK'
  BY <1>4, ClearedIs, ReleaseKeepsTypes DEF UndoBack
<1>5. ASSUME NEW b \in Buffer, Kill(b)  PROVE LockTypeOK'
  BY <1>5, ClosedIs, ReleaseKeepsTypes DEF Kill
<1>6. ASSUME NEW b \in Buffer, WriteFile(b)  PROVE LockTypeOK'
  <2>1. stale' \in [Buffer -> BOOLEAN]  BY <1>6 DEF WriteFile, BufferState
  <2>2. saved' \in [Proc -> Buffer \cup {Nil}]  BY <1>6 DEF WriteFile
  <2>3. QED  BY <1>6, <2>1, <2>2, ClosesKeepTypes DEF WriteFile
<1>7. ASSUME NEW b \in Buffer, NoticeChange(b)  PROVE LockTypeOK'
  <2>1. [buf[b] EXCEPT !.external_mod = TRUE] \in BufferState  BY ChangedIs
  <2>2. buf' = [buf EXCEPT ![b] = [buf[b] EXCEPT !.external_mod = TRUE]]
    BY <1>7 DEF NoticeChange
  <2>3. QED  BY <1>7, <2>1, <2>2 DEF NoticeChange
<1>8. ASSUME NEW b \in Buffer, PollLock(b)  PROVE LockTypeOK'
  <2>1. buf[b] \in BufferState /\ WarningCleared(buf[b]) \in BufferState
    BY ClearedIs
  <2>2. Locked(Owner[b]) \subseteq Buffer  BY DEF Locked, Of
  <2>3. CASE buf[b].dirty
    <3>1. \E r \in {buf[b], WarningCleared(buf[b])} :
            Acquire(Owner[b], b, r) \/ Conflict(Owner[b], b, r) \/ LockFails(Owner[b], b, r)
      BY <1>8, <2>3 DEF PollLock
    <3>2. held' \in [Proc -> Mode] /\ buf' \in [Buffer -> BufferState]
      BY <3>1, <2>1, TriesKeepTypes
    <3>3. todo' \in [Proc -> SUBSET Buffer] /\ lost' \subseteq Proc
      BY <1>8, <2>2, <2>3 DEF PollLock
    <3>4. QED  BY <1>8, <3>2, <3>3 DEF PollLock
  <2>4. CASE ~buf[b].dirty
    <3>1. PICK pid \in Probed(Owner[b]) :
            buf' = [buf EXCEPT ![b] = IF pid = Nil THEN WarningCleared(@)
                                                    ELSE [@ EXCEPT !.blocked = pid]]
      BY <1>8, <2>4 DEF PollLock
    <3>2. pid \in Proc \cup {Nil}  BY DEF Probed, Conflicts
    <3>3. [buf[b] EXCEPT !.blocked = pid] \in BufferState  BY <3>2 DEF BufferState
    <3>4. QED  BY <1>8, <2>1, <2>4, <3>1, <3>3, ClosesKeepTypes DEF PollLock
  <2>5. QED  BY <2>3, <2>4 
<1>9. ASSUME NEW b \in Buffer, ToggleReadOnly(b)  PROVE LockTypeOK'
  <2> DEFINE r == [buf[b] EXCEPT !.read_only = ~buf[b].read_only, !.by_lock = FALSE]
  <2>1. r \in BufferState  BY ChangedIs
  <2>2. buf' = [buf EXCEPT ![b] = r]  BY <1>9 DEF ToggleReadOnly
  <2>3. chosen' \in [Buffer -> BOOLEAN]  BY <1>9 DEF ToggleReadOnly, BufferState
  <2>4. QED  BY <1>9, <2>1, <2>2, <2>3 DEF ToggleReadOnly
<1>10. ASSUME NEW p \in Proc, RelockAll(p)  PROVE LockTypeOK'
  <2>1. PICK b \in Of(p) : Relock(p, b) \/ RelockConflict(p, b) \/ RelockFails(p, b)
    BY <1>10 DEF RelockAll
  <2>2. b \in Buffer /\ buf[b] \in BufferState  BY DEF Of
  <2>3. CASE Relock(p, b)  BY <2>2, <2>3 DEF Relock, BufferState
  <2>4. CASE RelockConflict(p, b)
    <3>1. PICK q \in Holders(p) :
            buf' = [buf EXCEPT ![b].blocked = q, ![b].lock_fd = "none"]
      BY <2>4 DEF RelockConflict
    <3>2. q \in Proc \cup {Unknown, Nil}  BY DEF Holders, Conflicts
    <3>3. buf' \in [Buffer -> BufferState]  BY <2>2, <3>1, <3>2 DEF BufferState, Mode
    <3>4. QED  BY <2>4, <3>3 DEF RelockConflict, Mode
  <2>5. CASE RelockFails(p, b)
    <3>1. lost' \subseteq Proc  BY <2>5 DEF RelockFails, LostBeside
    <3>2. QED  BY <2>2, <2>5, <3>1 DEF RelockFails, BufferState, Mode
  <2>6. QED  BY <2>1, <2>3, <2>4, <2>5
<1>11. ASSUME NEW p \in Proc, EndSave(p)  PROVE LockTypeOK'
  <2> DEFINE b == saved[p]
  <2>1. b \in Buffer /\ buf[b] \in BufferState  BY <1>11 DEF EndSave
  <2>2. [Clean(buf[b]) EXCEPT !.external_mod = FALSE] \in BufferState
    BY <2>1, ClearedIs DEF BufferState
  <2>3. /\ held' \in [Proc -> Mode] /\ todo' \in [Proc -> SUBSET Buffer]
        /\ buf' \in [Buffer -> BufferState] /\ lost' \subseteq Proc
    <3>1. CASE buf[b].dirty  BY <1>11, <2>1, <2>2, <3>1, ReleaseKeepsTypes DEF EndSave
    <3>2. CASE ~buf[b].dirty
      <4>1. [buf[b] EXCEPT !.external_mod = FALSE] \in BufferState  BY <2>1, ChangedIs
      <4>2. buf' = [buf EXCEPT ![b] = [buf[b] EXCEPT !.external_mod = FALSE]]
            /\ UNCHANGED <<held, todo, lost>>
        BY <1>11, <3>2 DEF EndSave
      <4>3. QED  BY <2>1, <4>1, <4>2
    <3>3. QED  BY <3>1, <3>2
  <2>4. QED  BY <1>11, <2>1, <2>3 DEF EndSave
<1>12. ASSUME NEW p \in Proc, Touch(p)  PROVE LockTypeOK'
  BY <1>12, ClosesKeepTypes DEF Touch
<1>13. ASSUME NEW p \in Proc, Exit(p)  PROVE LockTypeOK'
  <2>1. buf' \in [Buffer -> BufferState]  BY <1>13, ClosedIs DEF Exit
  <2>2. held' \in [Proc -> Mode]  BY <1>13 DEF Exit, Mode
  <2>3. QED  BY <1>13, <2>1, <2>2 DEF Exit
<1>14. ASSUME NEW p \in Proc, ProbeLock(p)  PROVE LockTypeOK'
  <2> DEFINE b == opening[p]
  <2>1. PICK pid \in Probed(p) : buf' = [buf EXCEPT ![b] = OpenedAs(p, pid)]
    BY <1>14 DEF ProbeLock
  <2>2. b \in Buffer  BY <1>14 DEF ProbeLock
  <2>3. buf' \in [Buffer -> BufferState]  BY <2>1, <2>2, OpenedIs
  <2>4. QED  BY <1>14, <2>2, <2>3, ClosesKeepTypes DEF ProbeLock
<1>15. QED
  BY <1>1, <1>2, <1>3, <1>4, <1>5, <1>6, <1>7, <1>8, <1>9, <1>10, <1>11, <1>12, <1>13, <1>14
  DEF LockNext, CheckFile

-----------------------------------------------------------------------------
(* The lock *)

(* What the kernel says no to. *)
LEMMA FreeIs ==
  ASSUME NEW p \in Proc, NEW m, Conflicts(p, m) = {}
  PROVE  \A q \in Proc : q # p => held[q] # "write" /\ (m = "write" => held[q] = "none")
BY DEF Conflicts

(* A process never conflicts with what it holds already. *)
LEMMA OwnLockFree ==
  ASSUME Kernel, NEW p \in Proc, held[p] = ModeOf(p)
  PROVE  Conflicts(p, ModeOf(p)) = {}
BY DEF Kernel, Conflicts, ModeOf

LEMMA KernelChanges ==
  ASSUME LockTypeOK, Kernel, NEW p \in Proc, NEW x, held' = [held EXCEPT ![p] = x],
         x = "none" \/ (x = ModeOf(p) /\ Conflicts(p, x) = {})
  PROVE  Kernel'
<1>1. \A q \in Proc : held'[q] = IF q = p THEN x ELSE held[q]  BY DEF LockTypeOK
<1>2. \A q \in Proc : held'[q] \in {"none", ModeOf(q)}  BY <1>1 DEF Kernel
<1>3. CASE x = "none"  BY <1>1, <1>2, <1>3 DEF Kernel
<1>4. CASE x = ModeOf(p) /\ Conflicts(p, x) = {}
  <2>1. \A q \in Proc : q # p => held[q] # "write" /\ (x = "write" => held[q] = "none")
    BY <1>4, FreeIs
  <2>2. QED  BY <1>1, <1>2, <2>1 DEF Kernel
<1>5. QED  BY <1>3, <1>4

(* Whose lock did not change, and whose buffer neither. *)
LEMMA OthersBelieve ==
  ASSUME LockTypeOK, NEW c \in Buffer, Believes(c), buf'[c].lock_fd = buf[c].lock_fd,
         held'[Owner[c]] = held[Owner[c]], todo'[Owner[c]] = todo[Owner[c]],
         Owner[c] \in lost => Owner[c] \in lost'
  PROVE  Believes(c)'
BY DEF Believes

(* A step of buffer b that leaves the locks of its process as they are. *)
LEMMA Unlocked ==
  ASSUME LockTypeOK, LockInv, UNCHANGED <<held, todo, lost>>,
         \A c \in Buffer : buf'[c].lock_fd = buf[c].lock_fd
  PROVE  LockInv'
<1>1. Kernel'  BY DEF LockInv, Kernel
<1>2. Beliefs'  BY OthersBelieve DEF LockInv, Beliefs
<1>3. Pending'  BY DEF LockInv, Pending, LockTypeOK
<1>4. QED  BY <1>1, <1>2, <1>3 DEF LockInv

LEMMA ClosesKeep ==
  ASSUME LockTypeOK, LockInv, NEW p \in Proc, CloseFile(p),
         \A c \in Buffer : Owner[c] # p => buf'[c] = buf[c],
         \A c \in Of(p) : buf'[c].lock_fd \in {"none", buf[c].lock_fd}
  PROVE  LockInv'
<1>1. Kernel'  BY KernelChanges DEF CloseFile, LockInv
<1>2. \A q \in Proc : todo'[q] = IF q = p THEN { b \in Of(p) : buf'[b].lock_fd # "none" }
                                          ELSE todo[q]
  BY DEF CloseFile, LockTypeOK
<1>3. \A q \in Proc : q # p => held'[q] = held[q] /\ (q \in lost => q \in lost')
  BY DEF CloseFile, LockTypeOK
<1>4. Pending'
  <2>1. ASSUME NEW q \in Proc, NEW b \in todo'[q]
        PROVE  Owner[b] = q /\ buf'[b].lock_fd # "none"
    <3>1. CASE q = p  BY <1>2, <2>1, <3>1 DEF Of
    <3>2. CASE q # p
      <4>1. b \in todo[q] /\ b \in Buffer  BY <1>2, <2>1, <3>2 DEF LockTypeOK
      <4>2. Owner[b] = q /\ buf[b].lock_fd # "none"  BY <4>1 DEF LockInv, Pending
      <4>3. QED  BY <3>2, <4>1, <4>2
    <3>3. QED  BY <3>1, <3>2
  <2>2. QED  BY <2>1 DEF Pending
<1>5. ASSUME NEW c \in Buffer  PROVE Believes(c)'
  <2>1. CASE Owner[c] = p
    <3>1. c \in Of(p)  BY <2>1 DEF Of
    <3>2. QED  BY <1>2, <2>1, <3>1 DEF LockInv, Beliefs, Believes
  <2>2. CASE Owner[c] # p  BY <1>2, <1>3, <2>2, OthersBelieve DEF LockInv, Beliefs
  <2>3. QED  BY <2>1, <2>2
<1>6. QED  BY <1>1, <1>4, <1>5 DEF LockInv, Beliefs

LEMMA ReleaseKeeps ==
  ASSUME LockTypeOK, LockInv, NEW b \in Buffer, NEW r, r.lock_fd = "none", Release(b, r)
  PROVE  LockInv'
<1>1. \A c \in Buffer : buf'[c] = IF c = b THEN r ELSE buf[c]  BY DEF Release, LockTypeOK
<1>2. CASE buf[b].lock_fd # "none"
  <2>1. CloseFile(Owner[b])  BY <1>2 DEF Release
  <2>2. Owner[b] \in Proc  OBVIOUS
  <2>3. QED  BY <1>1, <2>1, <2>2, ClosesKeep DEF Of
<1>3. CASE buf[b].lock_fd = "none"
  <2>1. UNCHANGED <<held, todo, lost>>  BY <1>3 DEF Release
  <2>2. QED  BY <1>1, <1>3, <2>1, Unlocked
<1>4. QED  BY <1>2, <1>3

(* Between commands a process that holds nothing has no buffer that thinks  *)
(* so, and one that holds something holds the lock it asks for.             *)
LEMMA IdleHolds ==
  ASSUME LockTypeOK, LockInv, NEW c \in Buffer, Idle(Owner[c]), buf[c].lock_fd # "none",
         Owner[c] \notin lost
  PROVE  /\ held[Owner[c]] = ModeOf(Owner[c])
         /\ Conflicts(Owner[c], ModeOf(Owner[c])) = {}
<1>1. Owner[c] \in Proc /\ held[Owner[c]] = ModeOf(Owner[c])
  BY DEF LockInv, Beliefs, Believes, Idle
<1>2. QED  BY <1>1, OwnLockFree DEF LockInv

(* lockFile by a buffer that holds no lock, whatever it answers. *)
LEMMA TriesKeep ==
  ASSUME LockTypeOK, LockInv, NEW b \in Buffer, NEW r \in BufferState,
         Idle(Owner[b]), buf[b].lock_fd = "none", r.lock_fd = "none",
         \/ Acquire(Owner[b], b, r) /\ UNCHANGED todo /\ lost' = lost \ {Owner[b]}
         \/ Conflict(Owner[b], b, r) /\ UNCHANGED <<todo, lost>>
         \/ LockFails(Owner[b], b, r) /\ UNCHANGED todo /\ lost' = LostBeside(Owner[b], b)
         \/ /\ Conflict(Owner[b], b, r) \/ LockFails(Owner[b], b, r)
            /\ todo' = [todo EXCEPT ![Owner[b]] = Locked(Owner[b])]
            /\ lost' = lost \ {Owner[b]}
  PROVE  LockInv'
<1> DEFINE p == Owner[b]
<1>0. p \in Proc /\ todo[p] = {}  BY DEF Idle
<1>00. \A q \in Proc : q # p /\ q \in lost => q \in lost'  BY DEF LostBeside
<1>1. CASE Acquire(p, b, r) /\ UNCHANGED todo
  <2>1. \A c \in Buffer : buf'[c] = IF c = b THEN [r EXCEPT !.lock_fd = ModeOf(p), !.blocked = Nil]
                                    ELSE buf[c]
    BY <1>1 DEF Acquire, LockTypeOK
  <2>2. buf'[b].lock_fd = ModeOf(p)  BY <2>1 DEF BufferState
  <2>3. Kernel'  BY <1>0, <1>1, KernelChanges DEF Acquire, LockInv
  <2>4. Pending'  BY <1>1, <2>1, <2>2, Modes DEF LockInv, Pending, LockTypeOK
  <2>5. \A q \in Proc : held'[q] = IF q = p THEN ModeOf(p) ELSE held[q]
    BY <1>1 DEF Acquire, LockTypeOK
  <2>6. ASSUME NEW c \in Buffer  PROVE Believes(c)'
    <3>1. CASE c = b  BY <1>1, <2>2, <2>5, <3>1 DEF Believes
    <3>2. CASE c # b /\ Owner[c] = p
      <4>1. buf'[c] = buf[c]  BY <2>1, <3>2
      <4>2. buf[c].lock_fd # "none" => buf[c].lock_fd = ModeOf(p)
        BY <3>2 DEF LockInv, Beliefs, Believes
      <4>3. QED  BY <2>5, <3>2, <4>1, <4>2 DEF Believes
    <3>3. CASE c # b /\ Owner[c] # p
      BY <1>00, <1>1, <2>1, <2>5, <3>3, OthersBelieve DEF LockInv, Beliefs
    <3>4. QED  BY <3>1, <3>2, <3>3
  <2>7. QED  BY <2>3, <2>4, <2>6 DEF LockInv, Beliefs
<1>2. ASSUME Conflict(p, b, r) \/ LockFails(p, b, r),
             \/ todo' = todo
             \/ todo' = [todo EXCEPT ![p] = Locked(p)]
      PROVE  LockInv'
  <2>1. /\ held' = [held EXCEPT ![p] = "none"]
        /\ buf'[b].lock_fd = "none"
        /\ \A c \in Buffer : c # b => buf'[c] = buf[c]
    <3>1. CASE Conflict(p, b, r)
      <4>1. PICK q \in Holders(p) : buf' = [buf EXCEPT ![b] = [r EXCEPT !.blocked = q]]
        BY <3>1 DEF Conflict
      <4>2. [r EXCEPT !.blocked = q].lock_fd = "none"  BY DEF BufferState
      <4>3. QED  BY <3>1, <4>1, <4>2 DEF Conflict, LockTypeOK
    <3>2. CASE LockFails(p, b, r)  BY <3>2 DEF LockFails, LockTypeOK
    <3>3. QED  BY <1>2, <3>1, <3>2
  <2>2. \A c \in Buffer : buf'[c].lock_fd = buf[c].lock_fd  BY <2>1
  <2>3. \A q \in Proc : q # p => held'[q] = held[q] /\ todo'[q] = todo[q]
    BY <1>2, <2>1 DEF LockTypeOK
  <2>4. todo'[p] \in {{}, Locked(p)}  BY <1>0, <1>2 DEF LockTypeOK
  <2>5. Kernel'  BY <1>0, <2>1, KernelChanges DEF LockInv
  <2>6. Pending'
    <3>1. ASSUME NEW q \in Proc, NEW c \in todo'[q]
          PROVE  Owner[c] = q /\ buf'[c].lock_fd # "none"
      <4>1. CASE q = p  BY <2>2, <2>4, <3>1, <4>1 DEF Locked, Of
      <4>2. CASE q # p
        <5>1. c \in todo[q] /\ c \in Buffer  BY <2>3, <3>1, <4>2 DEF LockTypeOK
        <5>2. QED  BY <2>2, <5>1 DEF LockInv, Pending
      <4>3. QED  BY <4>1, <4>2
    <3>2. QED  BY <3>1 DEF Pending
  <2>7. ASSUME NEW c \in Buffer, Owner[c] = p, buf[c].lock_fd # "none"
        PROVE  c \in todo'[p] \/ p \in lost'
    <3>1. c # b /\ c \in Locked(p)  BY <2>7 DEF Locked, Of
    <3>2. CASE todo' = [todo EXCEPT ![p] = Locked(p)]  BY <1>0, <3>1, <3>2 DEF LockTypeOK
    <3>3. CASE Conflict(p, b, r) /\ UNCHANGED lost
      BY <2>7, <3>3, IdleHolds DEF Conflict
    <3>4. CASE lost' = LostBeside(p, b)  BY <3>1, <3>4 DEF LostBeside
    <3>5. ~Acquire(p, b, r)
      <4>1. held'[p] = "none"  BY <1>0, <2>1 DEF LockTypeOK
      <4>2. Acquire(p, b, r) => held'[p] = ModeOf(p)  BY <1>0 DEF Acquire, LockTypeOK
      <4>3. QED  BY <1>0, <4>1, <4>2, Modes
    <3>6. \/ Acquire(p, b, r)
          \/ Conflict(p, b, r) /\ UNCHANGED lost
          \/ lost' = LostBeside(p, b)
          \/ todo' = [todo EXCEPT ![p] = Locked(p)]
      OBVIOUS
    <3> HIDE DEF p
    <3>7. QED  BY <3>2, <3>3, <3>4, <3>5, <3>6
  <2>8. ASSUME NEW c \in Buffer  PROVE Believes(c)'
    <3>1. CASE Owner[c] = p
      BY <2>2, <2>7, <3>1 DEF LockInv, Beliefs, Believes
    <3>2. CASE Owner[c] # p
      BY <1>00, <2>2, <2>3, <3>2, OthersBelieve DEF LockInv, Beliefs
    <3>3. QED  BY <3>1, <3>2
  <2>9. QED  BY <2>5, <2>6, <2>8 DEF LockInv, Beliefs
<1>3. QED  BY <1>1, <1>2

(* relockAll at one buffer. *)
LEMMA RelockKeeps ==
  ASSUME LockTypeOK, LockInv, NEW p \in Proc, RelockAll(p)
  PROVE  LockInv'
<1>1. PICK b \in Of(p) : Relock(p, b) \/ RelockConflict(p, b) \/ RelockFails(p, b)
  BY DEF RelockAll
<1>2. b \in Buffer /\ Owner[b] = p /\ b \in todo[p]
  BY <1>1 DEF Of, Relock, RelockConflict, RelockFails
<1>3. buf[b].lock_fd = ModeOf(p)
  BY <1>2 DEF LockInv, Pending, Beliefs, Believes
<1>4. \A q \in Proc : todo'[q] = IF q = p THEN todo[p] \ {b} ELSE todo[q]
  BY <1>1 DEF Relock, RelockConflict, RelockFails, LockTypeOK
<1>5. \A c \in Buffer : c # b => buf'[c] = buf[c]
  BY <1>1, <1>2 DEF Relock, RelockConflict, RelockFails, LockTypeOK
<1>0. \A q \in Proc : q # p /\ q \in lost => q \in lost'
  BY <1>1 DEF Relock, RelockConflict, RelockFails, LostBeside
<1>6. Pending'  BY <1>2, <1>4, <1>5 DEF LockInv, Pending, LockTypeOK
<1>7. CASE Relock(p, b)
  <2>1. Kernel'  BY <1>3, <1>7, KernelChanges DEF Relock, LockInv
  <2>2. \A q \in Proc : held'[q] = IF q = p THEN ModeOf(p) ELSE held[q]
    BY <1>3, <1>7 DEF Relock, LockTypeOK
  <2>3. ASSUME NEW c \in Buffer  PROVE Believes(c)'
    <3>1. buf'[c] = buf[c]  BY <1>7 DEF Relock
    <3>2. CASE Owner[c] = p  BY <2>2, <3>1, <3>2 DEF LockInv, Beliefs, Believes
    <3>3. CASE Owner[c] # p
      BY <1>0, <1>4, <2>2, <3>1, <3>3, OthersBelieve DEF LockInv, Beliefs
    <3>4. QED  BY <3>2, <3>3
  <2>4. QED  BY <1>6, <2>1, <2>3 DEF LockInv, Beliefs
<1>8. CASE RelockConflict(p, b) \/ RelockFails(p, b)
  <2>1. held' = [held EXCEPT ![p] = "none"]  BY <1>8 DEF RelockConflict, RelockFails
  <2>2. buf'[b].lock_fd = "none"
    <3>1. buf[b] \in BufferState  BY <1>2 DEF LockTypeOK
    <3>2. CASE RelockConflict(p, b)
      <4>1. PICK q \in Holders(p) :
              buf' = [buf EXCEPT ![b].blocked = q, ![b].lock_fd = "none"]
        BY <3>2 DEF RelockConflict
      <4>2. buf' = [buf EXCEPT ![b] = [buf[b] EXCEPT !.blocked = q, !.lock_fd = "none"]]
        BY <4>1
      <4>3. QED  BY <1>2, <3>1, <4>2 DEF BufferState, LockTypeOK
    <3>3. CASE RelockFails(p, b)
      <4>1. buf' = [buf EXCEPT ![b] = [buf[b] EXCEPT !.lock_fd = "none"]]
        BY <3>3 DEF RelockFails
      <4>2. QED  BY <1>2, <3>1, <4>1 DEF BufferState, LockTypeOK
    <3>4. QED  BY <1>8, <3>2, <3>3
  <2>3. Kernel'  BY <2>1, KernelChanges DEF LockInv
  <2>4. \A q \in Proc : q # p => held'[q] = held[q]  BY <2>1 DEF LockTypeOK
  <2>5. ASSUME NEW c \in Buffer, c # b, Owner[c] = p, buf[c].lock_fd # "none"
        PROVE  c \in todo'[p] \/ p \in lost'
    <3>1. SUFFICES ASSUME c \notin todo[p]  PROVE p \in lost'  BY <1>4, <2>5
    <3>2. CASE RelockConflict(p, b)
      <4>1. SUFFICES ASSUME p \notin lost  PROVE FALSE  BY <3>2 DEF RelockConflict
      <4>2. held[p] = ModeOf(p)  BY <2>5, <3>1, <4>1 DEF LockInv, Beliefs, Believes
      <4>3. QED  BY <1>3, <3>2, <4>2, OwnLockFree DEF LockInv, RelockConflict
    <3>3. CASE RelockFails(p, b)
      <4>1. c \in Locked(p) \ {b}  BY <2>5 DEF Locked, Of
      <4>2. QED  BY <3>3, <4>1 DEF RelockFails, LostBeside
    <3>4. QED  BY <1>8, <3>2, <3>3
  <2>6. ASSUME NEW c \in Buffer  PROVE Believes(c)'
    <3>1. CASE c = b  BY <2>2, <3>1 DEF Believes
    <3>2. CASE c # b /\ Owner[c] = p
      <4>1. buf'[c] = buf[c]  BY <1>5, <3>2
      <4>2. QED  BY <2>5, <3>2, <4>1 DEF LockInv, Beliefs, Believes
    <3>3. CASE Owner[c] # p
      <4>1. buf'[c] = buf[c] /\ Owner[c] \in Proc  BY <1>2, <1>5, <3>3
      <4>2. QED  BY <1>0, <1>4, <2>4, <3>3, <4>1, OthersBelieve DEF LockInv, Beliefs
    <3>4. QED  BY <3>1, <3>2, <3>3
  <2>7. QED  BY <1>6, <2>3, <2>6 DEF LockInv, Beliefs
<1>9. QED  BY <1>1, <1>7, <1>8

LEMMA LockKept == LockTypeOK /\ LockInv /\ [LockNext]_lockVars => LockInv'
<1> SUFFICES ASSUME LockTypeOK, LockInv, [LockNext]_lockVars  PROVE LockInv'  OBVIOUS
<1>0. buf \in [Buffer -> BufferState] /\ Owner \in [Buffer -> Proc]  BY DEF LockTypeOK
<1>1. CASE UNCHANGED lockVars  BY <1>1, Unlocked DEF lockVars
<1>2. ASSUME NEW b \in Buffer, OpenFile(b)  PROVE LockInv'
  BY <1>0, <1>2, ClosesKeep DEF OpenFile, Of
<1>3. ASSUME NEW b \in Buffer, MarkDirty(b)  PROVE LockInv'
  <2> DEFINE r == [buf[b] EXCEPT !.dirty = TRUE]
  <2>1. r \in BufferState /\ r.lock_fd = buf[b].lock_fd
    <3>1. r \in BufferState  BY <1>0, ChangedIs
    <3>2. r.lock_fd = buf[b].lock_fd  BY <1>0 DEF BufferState
    <3>3. QED  BY <3>1, <3>2
  <2>2. CASE buf' = [buf EXCEPT ![b] = r] /\ UNCHANGED <<held, lost>>
    BY <1>0, <1>3, <2>1, <2>2, Unlocked DEF MarkDirty
  <2>3. CASE /\ \/ Acquire(Owner[b], b, r) /\ lost' = lost \ {Owner[b]}
                \/ Conflict(Owner[b], b, r) /\ UNCHANGED lost
                \/ LockFails(Owner[b], b, r) /\ lost' = LostBeside(Owner[b], b)
             /\ buf[b].lock_fd = "none"
    <3>1. Idle(Owner[b]) /\ UNCHANGED todo  BY <1>3 DEF MarkDirty
    <3> HIDE DEF r
    <3>2. QED  BY <2>1, <2>3, <3>1, TriesKeep
  <2>4. QED  BY <1>3, <2>2, <2>3 DEF MarkDirty
<1>4. ASSUME NEW b \in Buffer, UndoBack(b)  PROVE LockInv'
  BY <1>0, <1>4, ReleaseKeeps DEF UndoBack, Clean, BufferState
<1>5. ASSUME NEW b \in Buffer, Kill(b)  PROVE LockInv'
  BY <1>5, ReleaseKeeps DEF Kill, Closed
<1>6. ASSUME NEW b \in Buffer, WriteFile(b)  PROVE LockInv'
  BY <1>0, <1>6, ClosesKeep DEF WriteFile, Of
<1>7. ASSUME NEW b \in Buffer, NoticeChange(b)  PROVE LockInv'
  <2>1. buf' = [buf EXCEPT ![b] = [buf[b] EXCEPT !.external_mod = TRUE]]
    BY <1>7 DEF NoticeChange
  <2>2. [buf[b] EXCEPT !.external_mod = TRUE].lock_fd = buf[b].lock_fd
    BY <1>0 DEF BufferState
  <2>3. \A c \in Buffer : buf'[c].lock_fd = buf[c].lock_fd  BY <1>0, <2>1, <2>2
  <2>4. QED  BY <1>7, <2>3, Unlocked DEF NoticeChange
<1>8. ASSUME NEW b \in Buffer, PollLock(b)  PROVE LockInv'
  <2>1. buf[b].lock_fd = "none" /\ Idle(Owner[b])  BY <1>8 DEF PollLock
  <2>2. WarningCleared(buf[b]) \in BufferState /\ WarningCleared(buf[b]).lock_fd = "none"
    BY <1>0, <2>1, ClearedIs DEF WarningCleared, BufferState
  <2>3. CASE buf[b].dirty
    <3>1. PICK r \in {buf[b], WarningCleared(buf[b])} :
            \/ Acquire(Owner[b], b, r) /\ UNCHANGED todo
            \/ /\ Conflict(Owner[b], b, r) \/ LockFails(Owner[b], b, r)
               /\ todo' = [todo EXCEPT ![Owner[b]] = Locked(Owner[b])]
      BY <1>8, <2>3 DEF PollLock
    <3>2. r \in BufferState /\ r.lock_fd = "none"  BY <1>0, <2>1, <2>2
    <3>3. lost' = lost \ {Owner[b]}  BY <1>8, <2>3 DEF PollLock
    <3>4. QED  BY <2>1, <3>1, <3>2, <3>3, TriesKeep
  <2>4. CASE ~buf[b].dirty
    <3>1. PICK pid \in Probed(Owner[b]) :
            buf' = [buf EXCEPT ![b] = IF pid = Nil THEN WarningCleared(@)
                                                    ELSE [@ EXCEPT !.blocked = pid]]
      BY <1>8, <2>4 DEF PollLock
    <3>2. [buf[b] EXCEPT !.blocked = pid].lock_fd = "none"  BY <1>0, <2>1 DEF BufferState
    <3>3. buf'[b].lock_fd = "none" /\ \A c \in Buffer : c # b => buf'[c] = buf[c]
      BY <1>0, <2>2, <3>1, <3>2
    <3>4. CloseFile(Owner[b]) /\ Owner[b] \in Proc  BY <1>0, <1>8, <2>4 DEF PollLock
    <3>5. QED  BY <3>3, <3>4, ClosesKeep DEF Of
  <2>5. QED  BY <2>3, <2>4
<1>9. ASSUME NEW b \in Buffer, ToggleReadOnly(b)  PROVE LockInv'
  <2> DEFINE r == [buf[b] EXCEPT !.read_only = ~buf[b].read_only, !.by_lock = FALSE]
  <2>1. r.lock_fd = buf[b].lock_fd  BY <1>0 DEF BufferState
  <2>2. buf' = [buf EXCEPT ![b] = r]  BY <1>9 DEF ToggleReadOnly
  <2>3. \A c \in Buffer : buf'[c].lock_fd = buf[c].lock_fd  BY <1>0, <2>1, <2>2
  <2>4. QED  BY <1>9, <2>3, Unlocked DEF ToggleReadOnly
<1>10. ASSUME NEW p \in Proc, RelockAll(p)  PROVE LockInv'  BY <1>10, RelockKeeps
<1>11. ASSUME NEW p \in Proc, EndSave(p)  PROVE LockInv'
  <2> DEFINE b == saved[p]
  <2>1. b \in Buffer  BY <1>11 DEF EndSave, LockTypeOK
  <2>2. CASE buf[b].dirty
    <3> DEFINE r == [Clean(buf[b]) EXCEPT !.external_mod = FALSE]
    <3>1. r.lock_fd = "none"  BY <1>0, <2>1 DEF Clean, BufferState
    <3>2. Release(b, r)  BY <1>11, <2>2 DEF EndSave
    <3> HIDE DEF r, b
    <3>3. QED  BY <2>1, <3>1, <3>2, ReleaseKeeps
  <2>3. CASE ~buf[b].dirty
    <3>1. buf' = [buf EXCEPT ![b] = [buf[b] EXCEPT !.external_mod = FALSE]]
          /\ UNCHANGED <<held, todo, lost>>
      BY <1>11, <2>3 DEF EndSave
    <3>2. [buf[b] EXCEPT !.external_mod = FALSE].lock_fd = buf[b].lock_fd
      BY <1>0, <2>1 DEF BufferState
    <3>3. \A c \in Buffer : buf'[c].lock_fd = buf[c].lock_fd  BY <1>0, <2>1, <3>1, <3>2
    <3>4. QED  BY <3>1, <3>3, Unlocked
  <2>4. QED  BY <2>2, <2>3
<1>12. ASSUME NEW p \in Proc, Touch(p)  PROVE LockInv'
  BY <1>0, <1>12, ClosesKeep DEF Touch, Of
<1>13. ASSUME NEW p \in Proc, Exit(p)  PROVE LockInv'
  <2>1. /\ held' = [held EXCEPT ![p] = "none"] /\ todo' = [todo EXCEPT ![p] = {}]
        /\ \A c \in Buffer : buf'[c] = IF Owner[c] = p THEN Closed ELSE buf[c]
    BY <1>13 DEF Exit, Of
  <2>2. Kernel'  BY <2>1, KernelChanges DEF LockInv
  <2>3. \A q \in Proc : todo'[q] = (IF q = p THEN {} ELSE todo[q])
                        /\ (q # p => held'[q] = held[q] /\ (q \in lost => q \in lost'))
    BY <1>13, <2>1 DEF LockTypeOK, Exit
  <2>4. ASSUME NEW q \in Proc, NEW c \in todo'[q]
        PROVE  Owner[c] = q /\ buf'[c].lock_fd # "none"
    <3>1. q # p /\ c \in todo[q] /\ c \in Buffer  BY <2>3, <2>4 DEF LockTypeOK
    <3>2. Owner[c] = q /\ buf[c].lock_fd # "none"  BY <3>1 DEF LockInv, Pending
    <3>3. QED  BY <2>1, <3>1, <3>2
  <2>5. ASSUME NEW c \in Buffer  PROVE Believes(c)'
    <3>1. CASE Owner[c] = p  BY <2>1, <3>1 DEF Believes, Closed
    <3>2. CASE Owner[c] # p
      <4>1. Owner[c] \in Proc /\ buf'[c] = buf[c]  BY <1>0, <2>1, <3>2
      <4>2. QED  BY <2>3, <3>2, <4>1, OthersBelieve DEF LockInv, Beliefs
    <3>3. QED  BY <3>1, <3>2
  <2>6. QED  BY <2>2, <2>4, <2>5 DEF LockInv, Beliefs, Pending
<1>14. ASSUME NEW p \in Proc, ProbeLock(p)  PROVE LockInv'
  <2>1. PICK pid \in Probed(p) : buf' = [buf EXCEPT ![opening[p]] = OpenedAs(p, pid)]
    BY <1>14 DEF ProbeLock
  <2>2. OpenedAs(p, pid).lock_fd = "none"  BY DEF OpenedAs, Closed
  <2>3. opening[p] \in Buffer /\ Owner[opening[p]] = p
    BY <1>14 DEF ProbeLock, LockTypeOK, Of
  <2>4. \A c \in Buffer : buf'[c].lock_fd \in {"none", buf[c].lock_fd}
    BY <1>0, <2>1, <2>2
  <2>5. \A c \in Buffer : Owner[c] # p => buf'[c] = buf[c]  BY <1>0, <2>1, <2>3
  <2>6. CloseFile(p)  BY <1>14 DEF ProbeLock
  <2>7. QED  BY <2>4, <2>5, <2>6, ClosesKeep DEF Of
<1>15. QED
  BY <1>1, <1>2, <1>3, <1>4, <1>5, <1>6, <1>7, <1>8, <1>9, <1>10, <1>11, <1>12, <1>13, <1>14
  DEF LockNext, CheckFile

-----------------------------------------------------------------------------
(* What is announced, and what is read-only *)

LEMMA SameFields ==
  ASSUME Fields, NEW c \in Buffer, buf'[c] = buf[c], stale'[c] = stale[c] \/ stale'[c] = TRUE,
         chosen'[c] = chosen[c]
  PROVE  Announced(c)' /\ NotByLock(c)' /\ Shut(c)'
BY DEF Fields, Announced, NotByLock, Shut

(* A step that turns one buffer, b, into r. *)
LEMMA OneBuffer ==
  ASSUME LockTypeOK, Fields, NEW b \in Buffer, NEW r, buf' = [buf EXCEPT ![b] = r],
         \A c \in Buffer : c # b => stale'[c] = stale[c] /\ chosen'[c] = chosen[c],
         r.dirty /\ ~r.external_mod /\ ~stale'[b] /\ Owner[b] \in Writer \ Faulty
           => r.lock_fd # "none" \/ r.blocked # Nil,
         r.open /\ chosen'[b] => r.read_only /\ ~r.by_lock,
         r.dirty => r.open
  PROVE  Fields'
<1>1. buf'[b] = r /\ \A c \in Buffer : c # b => buf'[c] = buf[c]  BY DEF LockTypeOK
<1>2. Announced(b)' /\ NotByLock(b)' /\ Shut(b)'  BY <1>1 DEF Announced, NotByLock, Shut
<1>3. \A c \in Buffer : c # b => Announced(c)' /\ NotByLock(c)' /\ Shut(c)'  BY <1>1, SameFields
<1>4. QED  BY <1>2, <1>3 DEF Fields

(* lockFile answers with the lock or with a warning, where it works. *)
LEMMA TriesAnnounce ==
  ASSUME LockTypeOK, Fields, NEW b \in Buffer, NEW r \in BufferState,
         UNCHANGED <<stale, chosen>>,
         Acquire(Owner[b], b, r) \/ Conflict(Owner[b], b, r) \/ LockFails(Owner[b], b, r),
         r.open /\ chosen[b] => r.read_only /\ ~r.by_lock,
         r.dirty => r.open
  PROVE  Fields'
<1>1. CASE Acquire(Owner[b], b, r)
  <2> DEFINE t == [r EXCEPT !.lock_fd = ModeOf(Owner[b]), !.blocked = Nil]
  <2>1. t.lock_fd # "none"  BY DEF BufferState, ModeOf
  <2>2. /\ t.open = r.open /\ t.read_only = r.read_only /\ t.by_lock = r.by_lock
        /\ t.dirty = r.dirty
    BY DEF BufferState
  <2>3. buf' = [buf EXCEPT ![b] = t]  BY <1>1 DEF Acquire
  <2> HIDE DEF t
  <2>4. QED  BY <2>1, <2>2, <2>3, OneBuffer
<1>2. CASE Conflict(Owner[b], b, r)
  <2>1. PICK q \in Holders(Owner[b]) :
          buf' = [buf EXCEPT ![b] = [r EXCEPT !.blocked = q]]
    BY <1>2 DEF Conflict
  <2>2. q # Nil  BY DEF Holders, Conflicts
  <2> DEFINE t == [r EXCEPT !.blocked = q]
  <2>3. /\ t.blocked = q /\ t.open = r.open /\ t.read_only = r.read_only
        /\ t.by_lock = r.by_lock /\ t.dirty = r.dirty
    BY DEF BufferState
  <2>4. buf' = [buf EXCEPT ![b] = t]  BY <2>1
  <2> HIDE DEF t
  <2>5. QED  BY <2>2, <2>3, <2>4, OneBuffer
<1>3. CASE LockFails(Owner[b], b, r)
  <2>1. buf' = [buf EXCEPT ![b] = r] /\ Owner[b] \in Faulty  BY <1>3 DEF LockFails
  <2>2. QED  BY <2>1, OneBuffer
<1>4. QED  BY <1>1, <1>2, <1>3

(* What WarningCleared, Clean and the commands make of one buffer. *)
LEMMA ClearedFields ==
  ASSUME NEW r \in BufferState
  PROVE  /\ r.read_only /\ ~r.by_lock
              => WarningCleared(r).read_only /\ ~WarningCleared(r).by_lock
         /\ WarningCleared(r).open = r.open /\ WarningCleared(r).dirty = r.dirty
         /\ Clean(r).open = r.open /\ ~Clean(r).dirty
         /\ Clean(r).read_only = r.read_only /\ Clean(r).by_lock = r.by_lock
BY DEF WarningCleared, Clean, BufferState

LEMMA ReleasedFields ==
  ASSUME LockTypeOK, Fields, NEW b \in Buffer, NEW r, Release(b, r), ~r.dirty,
         \A c \in Buffer : c # b => stale'[c] = stale[c] /\ chosen'[c] = chosen[c],
         r.open /\ chosen'[b] => r.read_only /\ ~r.by_lock
  PROVE  Fields'
<1>1. buf' = [buf EXCEPT ![b] = r]  BY DEF Release
<1>2. QED  BY <1>1, OneBuffer

LEMMA FieldsKept == LockTypeOK /\ Fields /\ [LockNext]_lockVars => Fields'
<1> SUFFICES ASSUME LockTypeOK, Fields, [LockNext]_lockVars  PROVE Fields'  OBVIOUS
<1>0. /\ buf \in [Buffer -> BufferState] /\ Owner \in [Buffer -> Proc]
      /\ stale \in [Buffer -> BOOLEAN] /\ chosen \in [Buffer -> BOOLEAN]
  BY DEF LockTypeOK
<1>00. \A b \in Buffer : /\ buf[b].open /\ chosen[b] => buf[b].read_only /\ ~buf[b].by_lock
                         /\ buf[b].dirty => buf[b].open
  BY DEF Fields, NotByLock, Shut
<1>1. CASE UNCHANGED lockVars
  BY <1>1, SameFields DEF lockVars, Fields
<1>2. ASSUME NEW b \in Buffer, OpenFile(b)  PROVE Fields'
  BY <1>2, SameFields DEF OpenFile, Fields
<1>3. ASSUME NEW b \in Buffer, MarkDirty(b)  PROVE Fields'
  <2> DEFINE r == [buf[b] EXCEPT !.dirty = TRUE]
  <2>1. r \in BufferState  BY <1>0, ChangedIs
  <2>2. /\ r.open = buf[b].open /\ r.read_only = buf[b].read_only /\ r.by_lock = buf[b].by_lock
        /\ r.lock_fd = buf[b].lock_fd /\ r.external_mod = buf[b].external_mod
    BY <1>0 DEF BufferState
  <2>3. UNCHANGED <<stale, chosen>> /\ buf[b].open  BY <1>3 DEF MarkDirty
  <2>4. CASE /\ buf' = [buf EXCEPT ![b] = r]
             /\ buf[b].lock_fd # "none" \/ buf[b].external_mod
    <3> HIDE DEF r
    <3>1. QED  BY <1>00, <2>2, <2>3, <2>4, OneBuffer
  <2>5. CASE Acquire(Owner[b], b, r) \/ Conflict(Owner[b], b, r) \/ LockFails(Owner[b], b, r)
    <3> HIDE DEF r
    <3>1. QED  BY <1>00, <2>1, <2>2, <2>3, <2>5, TriesAnnounce
  <2>6. QED  BY <1>3, <2>4, <2>5 DEF MarkDirty
<1>4. ASSUME NEW b \in Buffer, UndoBack(b)  PROVE Fields'
  <2>1. Release(b, Clean(buf[b])) /\ UNCHANGED <<stale, chosen>>  BY <1>4 DEF UndoBack
  <2>2. buf[b] \in BufferState  BY <1>0
  <2> DEFINE r == Clean(buf[b])
  <2>3. /\ ~r.dirty /\ r.open = buf[b].open
        /\ r.read_only = buf[b].read_only /\ r.by_lock = buf[b].by_lock
    BY <2>2, ClearedFields
  <2>4. Release(b, r)  BY <2>1
  <2> HIDE DEF r
  <2>5. QED  BY <1>00, <2>1, <2>3, <2>4, ReleasedFields
<1>5. ASSUME NEW b \in Buffer, Kill(b)  PROVE Fields'
  <2>1. ~Closed.dirty /\ ~Closed.open  BY DEF Closed
  <2>2. /\ Release(b, Closed)
        /\ \A c \in Buffer : c # b => stale'[c] = stale[c] /\ chosen'[c] = chosen[c]
    BY <1>0, <1>5 DEF Kill
  <2>3. QED  BY <2>1, <2>2, ReleasedFields
<1>6. ASSUME NEW b \in Buffer, WriteFile(b)  PROVE Fields'
  <2>1. ASSUME NEW c \in Buffer  PROVE Announced(c)' /\ NotByLock(c)' /\ Shut(c)'
    <3>1. buf'[c] = buf[c] /\ chosen'[c] = chosen[c]  BY <1>6 DEF WriteFile
    <3>2. CASE c = b  BY <1>6, <3>1, <3>2, SameFields DEF WriteFile
    <3>3. CASE c # b /\ buf[c].open  BY <1>6, <3>1, <3>3, SameFields DEF WriteFile
    <3>4. CASE c # b /\ ~buf[c].open
      <4>1. ~buf[c].dirty  BY <1>00, <3>4
      <4>2. QED  BY <3>1, <3>4, <4>1 DEF Announced, NotByLock, Shut
    <3>5. QED  BY <3>2, <3>3, <3>4
  <2>2. QED  BY <2>1 DEF Fields
<1>7. ASSUME NEW b \in Buffer, NoticeChange(b)  PROVE Fields'
  <2> DEFINE r == [buf[b] EXCEPT !.external_mod = TRUE]
  <2>1. /\ r.open = buf[b].open /\ r.read_only = buf[b].read_only /\ r.by_lock = buf[b].by_lock
        /\ r.external_mod
    BY <1>0 DEF BufferState
  <2>2. buf' = [buf EXCEPT ![b] = r] /\ UNCHANGED <<stale, chosen>> /\ buf[b].open
    BY <1>7 DEF NoticeChange
  <2> HIDE DEF r
  <2>3. QED  BY <1>00, <2>1, <2>2, OneBuffer
<1>8. ASSUME NEW b \in Buffer, PollLock(b)  PROVE Fields'
  <2>1. UNCHANGED <<stale, chosen>> /\ buf[b] \in BufferState  BY <1>0, <1>8 DEF PollLock
  <2>2. /\ WarningCleared(buf[b]) \in BufferState
        /\ WarningCleared(buf[b]).open /\ chosen[b]
             => WarningCleared(buf[b]).read_only /\ ~WarningCleared(buf[b]).by_lock
        /\ WarningCleared(buf[b]).dirty => WarningCleared(buf[b]).open
    BY <1>00, <2>1, ClearedIs, ClearedFields
  <2>3. CASE buf[b].dirty
    <3>1. PICK r \in {buf[b], WarningCleared(buf[b])} :
            Acquire(Owner[b], b, r) \/ Conflict(Owner[b], b, r) \/ LockFails(Owner[b], b, r)
      BY <1>8, <2>3 DEF PollLock
    <3>2. /\ r \in BufferState /\ (r.open /\ chosen[b] => r.read_only /\ ~r.by_lock)
          /\ r.dirty => r.open
      BY <1>00, <2>1, <2>2
    <3>3. QED  BY <2>1, <3>1, <3>2, TriesAnnounce
  <2>4. CASE ~buf[b].dirty
    <3>1. PICK pid \in Probed(Owner[b]) :
            buf' = [buf EXCEPT ![b] = IF pid = Nil THEN WarningCleared(@)
                                                    ELSE [@ EXCEPT !.blocked = pid]]
      BY <1>8, <2>4 DEF PollLock
    <3> DEFINE r == IF pid = Nil THEN WarningCleared(buf[b])
                                  ELSE [buf[b] EXCEPT !.blocked = pid]
    <3>2. buf' = [buf EXCEPT ![b] = r]  BY <3>1
    <3>3. ~r.dirty /\ (r.open /\ chosen[b] => r.read_only /\ ~r.by_lock)
      <4>1. CASE pid = Nil  BY <2>1, <2>2, <2>4, <4>1, ClearedFields
      <4>2. CASE pid # Nil
        <5>1. r = [buf[b] EXCEPT !.blocked = pid]  BY <4>2
        <5>2. /\ r.dirty = buf[b].dirty /\ r.open = buf[b].open
              /\ r.read_only = buf[b].read_only /\ r.by_lock = buf[b].by_lock
          BY <2>1, <5>1 DEF BufferState
        <5>3. QED  BY <1>00, <2>4, <5>2
      <4>3. QED  BY <4>1, <4>2
    <3> HIDE DEF r
    <3>4. QED  BY <2>1, <3>2, <3>3, OneBuffer
  <2>5. QED  BY <2>3, <2>4
<1>9. ASSUME NEW b \in Buffer, ToggleReadOnly(b)  PROVE Fields'
  <2> DEFINE r == [buf[b] EXCEPT !.read_only = ~buf[b].read_only, !.by_lock = FALSE]
  <2>1. /\ r.dirty = buf[b].dirty /\ r.external_mod = buf[b].external_mod
        /\ r.open = buf[b].open /\ r.lock_fd = buf[b].lock_fd /\ r.blocked = buf[b].blocked
        /\ r.read_only = ~buf[b].read_only /\ ~r.by_lock
    BY <1>0 DEF BufferState
  <2>2. /\ buf' = [buf EXCEPT ![b] = r] /\ UNCHANGED stale /\ buf[b].open
        /\ chosen' = [chosen EXCEPT ![b] = ~buf[b].read_only]
    BY <1>9 DEF ToggleReadOnly
  <2>3. Announced(b)  BY DEF Fields
  <2> HIDE DEF r
  <2>4. QED  BY <1>0, <2>1, <2>2, <2>3, OneBuffer DEF Announced
<1>10. ASSUME NEW p \in Proc, RelockAll(p)  PROVE Fields'
  <2>1. PICK b \in Of(p) : Relock(p, b) \/ RelockConflict(p, b) \/ RelockFails(p, b)
    BY <1>10 DEF RelockAll
  <2>2. b \in Buffer /\ buf[b] \in BufferState /\ Owner[b] = p  BY <1>0 DEF Of
  <2>3. CASE Relock(p, b)  BY <2>3, SameFields DEF Relock, Fields
  <2>4. CASE RelockConflict(p, b)
    <3>1. PICK q \in Holders(p) :
            buf' = [buf EXCEPT ![b].blocked = q, ![b].lock_fd = "none"]
      BY <2>4 DEF RelockConflict
    <3>2. q # Nil  BY DEF Holders, Conflicts
    <3> DEFINE r == [buf[b] EXCEPT !.blocked = q, !.lock_fd = "none"]
    <3>3. buf' = [buf EXCEPT ![b] = r] /\ UNCHANGED <<stale, chosen>>
      BY <2>4, <3>1 DEF RelockConflict
    <3>4. /\ r.blocked # Nil /\ r.open = buf[b].open /\ r.dirty = buf[b].dirty
          /\ r.read_only = buf[b].read_only /\ r.by_lock = buf[b].by_lock
      BY <2>2, <3>2 DEF BufferState
    <3> HIDE DEF r
    <3>5. QED  BY <1>00, <2>2, <3>3, <3>4, OneBuffer
  <2>5. CASE RelockFails(p, b)
    <3> DEFINE r == [buf[b] EXCEPT !.lock_fd = "none"]
    <3>1. buf' = [buf EXCEPT ![b] = r] /\ UNCHANGED <<stale, chosen>> /\ Owner[b] \in Faulty
      BY <2>2, <2>5 DEF RelockFails
    <3>2. /\ r.open = buf[b].open /\ r.dirty = buf[b].dirty
          /\ r.read_only = buf[b].read_only /\ r.by_lock = buf[b].by_lock
      BY <2>2 DEF BufferState
    <3> HIDE DEF r
    <3>3. QED  BY <1>00, <2>2, <3>1, <3>2, OneBuffer
  <2>6. QED  BY <2>1, <2>3, <2>4, <2>5
<1>11. ASSUME NEW p \in Proc, EndSave(p)  PROVE Fields'
  <2> DEFINE b == saved[p]
  <2>1. b \in Buffer /\ buf[b] \in BufferState  BY <1>0, <1>11 DEF EndSave, LockTypeOK
  <2>2. chosen' = chosen /\ stale' = [stale EXCEPT ![b] = FALSE]  BY <1>11 DEF EndSave
  <2>3. CASE buf[b].dirty
    <3> DEFINE r == [Clean(buf[b]) EXCEPT !.external_mod = FALSE]
    <3>1. /\ ~r.dirty /\ r.open = buf[b].open
          /\ r.read_only = buf[b].read_only /\ r.by_lock = buf[b].by_lock
      BY <2>1 DEF Clean, BufferState
    <3>2. Release(b, r)  BY <1>11, <2>3 DEF EndSave
    <3> HIDE DEF r, b
    <3>3. QED  BY <1>0, <1>00, <2>1, <2>2, <3>1, <3>2, ReleasedFields
  <2>4. CASE ~buf[b].dirty
    <3> DEFINE r == [buf[b] EXCEPT !.external_mod = FALSE]
    <3>1. buf' = [buf EXCEPT ![b] = r]  BY <1>11, <2>4 DEF EndSave
    <3>2. /\ ~r.dirty /\ r.open = buf[b].open
          /\ r.read_only = buf[b].read_only /\ r.by_lock = buf[b].by_lock
      BY <2>1, <2>4 DEF BufferState
    <3> HIDE DEF r, b
    <3>3. QED  BY <1>0, <1>00, <2>1, <2>2, <3>1, <3>2, OneBuffer
  <2>5. QED  BY <2>3, <2>4
<1>12. ASSUME NEW p \in Proc, Touch(p)  PROVE Fields'
  BY <1>12, SameFields DEF Touch, Fields
<1>13. ASSUME NEW p \in Proc, Exit(p)  PROVE Fields'
  <2>1. ASSUME NEW c \in Buffer  PROVE Announced(c)' /\ NotByLock(c)' /\ Shut(c)'
    <3>1. CASE Owner[c] = p
      <4>1. buf'[c] = Closed  BY <1>13, <3>1 DEF Exit, Of
      <4>2. QED  BY <4>1 DEF Closed, Announced, NotByLock, Shut
    <3>2. CASE Owner[c] # p
      BY <1>13, <3>2, SameFields DEF Exit, Of
    <3>3. QED  BY <3>1, <3>2
  <2>2. QED  BY <2>1 DEF Fields
<1>14. ASSUME NEW p \in Proc, ProbeLock(p)  PROVE Fields'
  <2> DEFINE b == opening[p]
  <2>1. PICK pid \in Probed(p) : buf' = [buf EXCEPT ![b] = OpenedAs(p, pid)]
    BY <1>14 DEF ProbeLock
  <2>2. b \in Buffer  BY <1>14 DEF ProbeLock, LockTypeOK
  <2> DEFINE r == OpenedAs(p, pid)
  <2>3. ~r.dirty /\ (p \notin Writer => r.read_only /\ ~r.by_lock)
    BY DEF OpenedAs, Closed
  <2>4. chosen'[b] = (p \notin Writer)
        /\ \A c \in Buffer : c # b => stale'[c] = stale[c] /\ chosen'[c] = chosen[c]
    BY <1>0, <1>14, <2>2 DEF ProbeLock
  <2>5. buf' = [buf EXCEPT ![b] = r]  BY <2>1
  <2> HIDE DEF r, b
  <2>6. QED  BY <2>2, <2>3, <2>4, <2>5, OneBuffer
<1>15. QED
  BY <1>1, <1>2, <1>3, <1>4, <1>5, <1>6, <1>7, <1>8, <1>9, <1>10, <1>11, <1>12, <1>13, <1>14
  DEF LockNext, CheckFile

-----------------------------------------------------------------------------
(* Theorems *)

LEMMA LockInitOK == LockInit => LockTypeOK /\ LockInv /\ Fields
<1> SUFFICES ASSUME LockInit  PROVE LockTypeOK /\ LockInv /\ Fields  OBVIOUS
<1>1. LockTypeOK  BY ClosedIs DEF LockInit, LockTypeOK, Mode
<1>2. LockInv
  BY DEF LockInit, LockInv, Kernel, Beliefs, Believes, Pending, Closed
<1>3. Fields  BY DEF LockInit, Fields, Announced, NotByLock, Shut, Closed
<1>4. QED  BY <1>1, <1>2, <1>3

(* Every field has its type after any steps of any processes. *)
THEOREM LockTypesCorrect == LockSpec => []LockTypeOK
BY LockInitOK, LockTypeKept, PTL DEF LockSpec

(* A buffer that believes it holds the lock does, whenever its process is   *)
(* between commands: relockAll makes up for every descriptor closed         *)
(* (fileio.c relockAll), for any number of processes and of buffers on the  *)
(* file; except after a lockFile that fails for want of more than the lock, *)
(* the one close that nothing follows.                                      *)
THEOREM LocksHeld == LockSpec => []LocksAreHeld
<1>1. LockInv => LocksAreHeld
  BY DEF LockInv, Beliefs, Believes, LocksAreHeld, Idle
<1>2. LockTypeOK /\ LockInv /\ [LockNext]_lockVars => LockInv'  BY LockKept
<1>3. QED  BY <1>1, <1>2, LockInitOK, LockTypeKept, PTL DEF LockSpec

(* Unsaved edits are locked or warned about, also when another process      *)
(* takes the lock in the middle of a command (fileio.c relockAll,           *)
(* checkFileModified).                                                      *)
THEOREM EditsAreAnnounced == LockSpec => []EditsAnnounced
<1>1. LockInv /\ Fields => EditsAnnounced
  BY DEF LockInv, Beliefs, Believes, Fields, Announced, EditsAnnounced, ModeOf
<1>2. LockTypeOK /\ LockInv /\ [LockNext]_lockVars => LockInv'  BY LockKept
<1>3. QED  BY <1>1, <1>2, LockInitOK, LockTypeKept, FieldsKept, PTL DEF LockSpec

(* A lock that goes away never makes a buffer writable that the user, or    *)
(* its file's permissions, made read-only (fileio.c clearLockWarning).      *)
THEOREM ReadOnlyIsKept == LockSpec => []ReadOnlyKept
<1>1. Fields => ReadOnlyKept  BY DEF Fields, NotByLock, ReadOnlyKept
<1>2. QED  BY <1>1, LockInitOK, LockTypeKept, FieldsKept, PTL DEF LockSpec

-----------------------------------------------------------------------------
(* The save *)

USE TornAssumption, NoneAssumption, SizeAssumption, BoundAssumption

Saving == {"back up", "copy", "sync backup", "ask unsafe", "truncate", "ask retry"}

(* The backup under way, and the one that is finished.                      *)
Copying ==
  /\ pc \in {"copy", "sync backup"} => backup # None
  /\ pc = "sync backup" /\ ~raced => file # None /\ backup.data = file.data

BackedUp ==
  pc \in {"truncate", "ask retry"} /\ ~hurt /\ ~unsafe /\ ~raced /\ file # None
    => backup # None /\ backup.durable /\ backup.data = file.data

(* What has been written is there, unless another process came between.     *)
Written ==
  /\ pc \in {"write", "sync", "unlink", "stat"} => hurt /\ ~intact
  /\ pc \in {"command", "load", "record", "ask changed", "dead"} => ~hurt
  /\ hurt /\ foreign => raced
  /\ pc \in {"write", "sync", "unlink", "stat"} /\ ~foreign => file # None
  /\ pc \in {"sync", "unlink", "stat"} /\ ~foreign => file.data = text
  /\ pc \in {"unlink", "stat"} /\ ~foreign => file.durable

(* A text that is at stake is in a backup left, in the backup of this save, *)
(* or replaced by one that is safely on disk.                               *)
Staked ==
  /\ raced => stake = None
  /\ stake # None =>
       \/ stake \in kept
       \/ /\ pc \in {"truncate", "write", "sync", "ask retry", "unlink"}
          /\ backup # None /\ backup.durable /\ backup.data = stake
       \/ /\ pc \in {"unlink", "stat", "dead"}
          /\ file # None /\ file.durable /\ file.data \in {stake, text}

(* Unless another process's change slipped in, the baseline is of the file  *)
(* that was read or written.                                                *)
Knowing ==
  /\ pc = "record" /\ ~foreign => known = IF file = None THEN None ELSE Stamp(file)
  /\ pc # "record" /\ ~slipped => baseline = known

(* A save that goes on has told the user of a change, or cannot tell.       *)
Told ==
  pc \in Saving /\ foreign /\ ~raced /\ ~slipped
    => told \/ known = None \/ (file # None /\ Stamp(file) = known)

(* While the file is what emil made it, a clean buffer agrees with it, and  *)
(* so does the text undoing everything leads to, unless internal_mod.       *)
Agreeing ==
  intact /\ ~foreign
    => /\ file # None
       /\ ~dirty => file.data = text
       /\ ~internal_mod => file.data = loaded

Parts == Copying /\ BackedUp /\ Written /\ Staked /\ Knowing /\ Told /\ Agreeing

-----------------------------------------------------------------------------
(* Types *)

LEMMA StampIs ==
  ASSUME NEW f \in [data : Content, mtime : 0..MaxClock, durable : BOOLEAN]
  PROVE  Stamp(f) \in [mtime : 0..MaxClock, size : Nat]
BY DEF Stamp

LEMMA FileIs == None \notin [data : Content, mtime : 0..MaxClock, durable : BOOLEAN]
<1>1. 0..MaxClock \subseteq Nat  OBVIOUS
<1>2. QED  BY <1>1

LEMMA FilesAre ==
  ASSUME TypeOK, NEW f \in Files
  PROVE  f \in Version
<1>1. CASE f = None  BY <1>1 DEF Version
<1>2. CASE f # None
  <2>1. f \in [data : Text, mtime : 0..clock, durable : {TRUE}]  BY <1>2 DEF Files
  <2>2. 0..clock \subseteq 0..MaxClock  BY DEF TypeOK
  <2>3. f \in [data : Content, mtime : 0..MaxClock, durable : BOOLEAN]
    BY <2>1, <2>2 DEF Content
  <2>4. QED  BY <2>3 DEF Version
<1>3. QED  BY <1>1, <1>2

LEMMA CrashedFile ==
  ASSUME NEW f \in Version, NEW g \in AfterCrash(f)
  PROVE  /\ g \in Version
         /\ f # None /\ f.durable => g # None /\ g.durable /\ g.data = f.data
<1>1. CASE f = None  BY <1>1 DEF AfterCrash, Version
<1>2. CASE f # None
  <2>1. f \in [data : Content, mtime : 0..MaxClock, durable : BOOLEAN]  BY <1>2 DEF Version
  <2>2. PICK c \in IF f.durable THEN {f.data} ELSE {f.data, Torn} :
          g = [f EXCEPT !.data = c, !.durable = TRUE]
    BY <1>2 DEF AfterCrash
  <2>3. c \in Content /\ (f.durable => c = f.data)  BY <2>1, <2>2 DEF Content
  <2>4. g \in [data : Content, mtime : 0..MaxClock, durable : BOOLEAN]  BY <2>1, <2>2, <2>3
  <2>5. g.durable /\ g.data = c  BY <2>1, <2>2
  <2>6. QED  BY <2>3, <2>4, <2>5, FileIs DEF Version
<1>3. QED  BY <1>1, <1>2

LEMMA CrashedBackup ==
  ASSUME NEW f \in [data : Content, durable : BOOLEAN] \cup {None}, NEW g \in AfterCrash(f)
  PROVE  /\ g \in [data : Content, durable : BOOLEAN] \cup {None}
         /\ f # None /\ f.durable => g # None /\ g.data = f.data
<1>1. CASE f = None  BY <1>1 DEF AfterCrash
<1>2. CASE f # None
  <2>1. f \in [data : Content, durable : BOOLEAN]  BY <1>2
  <2>2. PICK c \in IF f.durable THEN {f.data} ELSE {f.data, Torn} :
          g = [f EXCEPT !.data = c, !.durable = TRUE]
    BY <1>2 DEF AfterCrash
  <2>3. c \in Content /\ (f.durable => c = f.data)  BY <2>1, <2>2 DEF Content
  <2>4. g \in [data : Content, durable : BOOLEAN]  BY <2>1, <2>2, <2>3
  <2>5. g.data = c  BY <2>1, <2>2
  <2>6. QED  BY <2>3, <2>4, <2>5
<1>3. QED  BY <1>1, <1>2

LEMMA TypeKept == TypeOK /\ Copying /\ [Next]_vars => TypeOK'
<1> SUFFICES ASSUME TypeOK, Copying, [Next]_vars  PROVE TypeOK'  OBVIOUS
<1> USE DEF buffer, disk, history, saving, TypeOK
<1>1. CASE UNCHANGED vars  BY <1>1 DEF vars
<1>2. ASSUME NEW t \in Text, Edit(t)  PROVE TypeOK'  BY <1>2 DEF Edit, Content
<1>3. CASE UndoAll  BY <1>3 DEF UndoAll
<1>4. CASE Revert  BY <1>4 DEF Revert
<1>5. ASSUME NEW skip \in BOOLEAN, Save(skip)  PROVE TypeOK'
  BY <1>5 DEF Save, BeginSave
<1>6. ASSUME NEW f \in Files, SaveAs(f)  PROVE TypeOK'
  BY <1>6, FilesAre DEF SaveAs, BeginSave
<1>7. ASSUME NEW yes \in BOOLEAN, AnswerChanged(yes)  PROVE TypeOK'
  BY <1>7 DEF AnswerChanged, BeginSave, SaveReturns
<1>8. ASSUME NEW yes \in BOOLEAN, AnswerUnsafe(yes)  PROVE TypeOK'
  BY <1>8 DEF AnswerUnsafe, SaveReturns
<1>9. ASSUME NEW yes \in BOOLEAN, AnswerRetry(yes)  PROVE TypeOK'
  BY <1>9 DEF AnswerRetry, SaveReturns
<1>10. CASE CreateBackup
  <2>1. [data |-> Torn, durable |-> FALSE] \in [data : Content, durable : BOOLEAN]
    BY DEF Content
  <2>2. backup' \in [data : Content, durable : BOOLEAN] \cup {None}
    BY <1>10, <2>1 DEF CreateBackup
  <2>3. QED  BY <1>10, <2>2 DEF CreateBackup
<1>11. CASE CopyBackup  BY <1>11 DEF CopyBackup, Copying, Version
<1>12. CASE SyncBackup  BY <1>12 DEF SyncBackup, Copying
<1>13. CASE BackupFails  BY <1>13 DEF BackupFails
<1>14. CASE Truncate  BY <1>14 DEF Truncate, Version, Content
<1>15. CASE Write
  <2>1. file' \in {file, [data |-> text, mtime |-> clock, durable |-> FALSE]}
    BY <1>15 DEF Write
  <2>2. [data |-> text, mtime |-> clock, durable |-> FALSE] \in Version  BY DEF Version
  <2>3. QED  BY <1>15, <2>1, <2>2 DEF Write
<1>16. CASE Sync  BY <1>16 DEF Sync, Version
<1>17. CASE TruncateFails \/ WriteFails  BY <1>17 DEF TruncateFails, WriteFails
<1>18. CASE UnlinkBackup  BY <1>18 DEF UnlinkBackup
<1>19. CASE FinishSave  BY <1>19, StampIs DEF FinishSave, SaveReturns, Version
<1>20. CASE CheckFileModified  BY <1>20 DEF CheckFileModified
<1>21. CASE Tick  BY <1>21 DEF Tick
<1>22. CASE Crash
  <2>1. file' \in Version  BY <1>22, CrashedFile DEF Crash
  <2>2. kept' \subseteq Content /\ backup' = None
    BY <1>22, CrashedBackup DEF Crash
  <2>3. QED  BY <1>22, <2>1, <2>2 DEF Crash, Loaded
<1>23. CASE Restart  BY <1>23 DEF Restart, Content
<1>24. ASSUME NEW f \in Files, Interfere(f)  PROVE TypeOK'
  BY <1>24, FilesAre DEF Interfere
<1>25. CASE Load
  <2>1. CASE file = None
    <3>1. PICK t \in Text : Loaded(t)  BY <1>25, <2>1 DEF Load
    <3>2. QED  BY <1>25, <2>1, <3>1 DEF Load, Loaded, Content
  <2>2. CASE file # None
    <3>1. file.data \in Content /\ Stamp(file) \in [mtime : 0..MaxClock, size : Nat]
      BY <2>2, StampIs DEF Version
    <3>2. QED  BY <1>25, <2>2, <3>1 DEF Load, Loaded
  <2>3. QED  BY <2>1, <2>2
<1>26. CASE RecordBaseline  BY <1>26, StampIs DEF RecordBaseline, Version
<1>27. QED
  BY <1>25, <1>26, <1>1, <1>2, <1>3, <1>4, <1>5, <1>6, <1>7, <1>8, <1>9, <1>10, <1>11, <1>12, <1>13, <1>14,
     <1>15, <1>16, <1>17, <1>18, <1>19, <1>20, <1>21, <1>22, <1>23, <1>24
  DEF Next, Command, Answer, SaveStep
-----------------------------------------------------------------------------
(* The inductive invariant *)

LEMMA InvKept == TypeOK /\ Parts /\ [Next]_vars => Parts'
<1> SUFFICES ASSUME TypeOK, Parts, [Next]_vars  PROVE Parts'  OBVIOUS
<1> USE DEF buffer, disk, history, saving, Parts, Copying, BackedUp, Written, Staked,
            Knowing, Told, Agreeing, Saving
<1>0. CASE UNCHANGED <<buffer, disk, pc, saving, history>>
  <2>1. Copying' /\ BackedUp' /\ Written'  BY <1>0
  <2>2. Staked'  BY <1>0
  <2>3. Knowing' /\ Told' /\ Agreeing'  BY <1>0
  <2>4. QED  BY <2>1, <2>2, <2>3
<1>1. CASE UNCHANGED vars  BY <1>0, <1>1 DEF vars
<1>2. ASSUME NEW t \in Text, Edit(t)  PROVE Parts'  BY <1>2 DEF Edit
<1>3. CASE UndoAll  BY <1>3 DEF UndoAll
<1>4. CASE Revert  BY <1>4 DEF Revert
<1>5. ASSUME NEW skip \in BOOLEAN, Save(skip)  PROVE Parts'
  <2>1. CASE pc' = "ask changed"
    <3>1. /\ pc = "command" /\ UNCHANGED <<text, loaded, dirty, internal_mod, baseline, disk>>
          /\ UNCHANGED <<saving, raced, hurt, stake, foreign, known, slipped, told, intact>>
      BY <1>5, <2>1 DEF Save, BeginSave
    <3>2. Copying' /\ BackedUp' /\ Written' /\ Knowing' /\ Told' /\ Agreeing'
      BY <2>1, <3>1
    <3>3. Staked'  BY <2>1, <3>1
    <3>4. QED  BY <3>2, <3>3
  <2>2. CASE pc' # "ask changed"
    <3>1. /\ pc = "command" /\ BeginSave(skip)
          /\ baseline = None \/ (file # None /\ Stamp(file) = baseline)
          /\ UNCHANGED <<text, loaded, dirty, internal_mod, baseline, disk>>
          /\ UNCHANGED <<stake, foreign, known, slipped, told, intact>>
      BY <1>5, <2>2 DEF Save, FileUnchanged
    <3>2. Copying' /\ BackedUp' /\ Written' /\ Knowing' /\ Agreeing'
      BY <3>1 DEF BeginSave
    <3>3. Told'  BY <3>1 DEF BeginSave
    <3>4. Staked'  BY <3>1 DEF BeginSave
    <3>5. QED  BY <3>2, <3>3, <3>4
  <2>3. QED  BY <2>1, <2>2
<1>6. ASSUME NEW f \in Files, SaveAs(f)  PROVE Parts'
  BY <1>6 DEF SaveAs, BeginSave
<1>7. ASSUME NEW yes \in BOOLEAN, AnswerChanged(yes)  PROVE Parts'
  <2>1. CASE yes
    <3>1. pc' \in {"truncate", "back up"} /\ (pc' = "truncate" => unsafe')
      BY <1>7, <2>1 DEF AnswerChanged, BeginSave, TypeOK
    <3>2. QED  BY <1>7, <2>1, <3>1 DEF AnswerChanged, BeginSave
  <2>2. CASE ~yes  BY <1>7, <2>2 DEF AnswerChanged, SaveReturns
  <2>3. QED  BY <2>1, <2>2
<1>8. ASSUME NEW yes \in BOOLEAN, AnswerUnsafe(yes)  PROVE Parts'
  BY <1>8 DEF AnswerUnsafe, SaveReturns
<1>9. ASSUME NEW yes \in BOOLEAN, AnswerRetry(yes)  PROVE Parts'
  BY <1>9 DEF AnswerRetry, SaveReturns
<1>10. CASE CreateBackup
  <2>1. [data |-> Torn, durable |-> FALSE] \in [data : Content, durable : BOOLEAN]
    BY DEF Content
  <2>2. [data |-> Torn, durable |-> FALSE] # None  BY <2>1
  <2>3. QED  BY <1>10, <2>2 DEF CreateBackup
<1>11. CASE CopyBackup
  <2>1. /\ file # None /\ backup # None /\ pc' = "sync backup"
        /\ backup' = [backup EXCEPT !.data = file.data]
    BY <1>11 DEF CopyBackup
  <2>2. backup \in [data : Content, durable : BOOLEAN] /\ file.data \in Content
    BY <2>1 DEF TypeOK, Version
  <2>3. backup' \in [data : Content, durable : BOOLEAN] /\ backup'.data = file.data
    BY <2>1, <2>2
  <2>4. backup' # None  BY <2>3
  <2>5. QED  BY <1>11, <2>1, <2>3, <2>4 DEF CopyBackup
<1>12. CASE SyncBackup  BY <1>12 DEF SyncBackup, TypeOK
<1>13. CASE BackupFails  BY <1>13 DEF BackupFails
<1>14. CASE Truncate
  <2>1. file' = [data |-> Torn, mtime |-> clock, durable |-> FALSE]  BY <1>14 DEF Truncate
  <2>2. file' \in [data : Content, mtime : 0..MaxClock, durable : BOOLEAN]
    BY <2>1 DEF TypeOK, Content
  <2>3. file' # None  BY <2>2, FileIs
  <2>4. QED  BY <1>14, <2>3 DEF Truncate
<1>15. CASE Write
  <2>1. CASE file' = [data |-> text, mtime |-> clock, durable |-> FALSE]
    <3>1. file' \in [data : Content, mtime : 0..MaxClock, durable : BOOLEAN]
      BY <2>1 DEF TypeOK
    <3>2. file' # None /\ file'.data = text  BY <2>1, <3>1, FileIs
    <3>3. QED  BY <1>15, <3>2 DEF Write
  <2>2. CASE foreign /\ UNCHANGED file  BY <1>15, <2>2 DEF Write
  <2>3. QED  BY <1>15, <2>1, <2>2 DEF Write
<1>16. CASE Sync
  <2>1. ASSUME file # None
        PROVE  file' # None /\ file'.data = file.data /\ file'.durable
    <3>1. file \in [data : Content, mtime : 0..MaxClock, durable : BOOLEAN]
      BY <2>1 DEF TypeOK, Version
    <3>2. file' = [file EXCEPT !.durable = TRUE]  BY <1>16, <2>1 DEF Sync
    <3>3. file' \in [data : Content, mtime : 0..MaxClock, durable : BOOLEAN]  BY <3>1, <3>2
    <3>4. file' # None  BY <3>3, FileIs
    <3>5. QED  BY <3>1, <3>2, <3>4
  <2>2. QED  BY <1>16, <2>1 DEF Sync
<1>17. CASE TruncateFails \/ WriteFails
  <2>1. CASE TruncateFails  BY <2>1 DEF TruncateFails
  <2>2. CASE WriteFails  BY <2>2 DEF WriteFails
  <2>3. QED  BY <1>17, <2>1, <2>2
<1>18. CASE UnlinkBackup  BY <1>18 DEF UnlinkBackup
<1>19. CASE FinishSave  BY <1>19 DEF FinishSave, SaveReturns
<1>20. CASE CheckFileModified  BY <1>20 DEF CheckFileModified
<1>21. CASE Tick  BY <1>0, <1>21 DEF Tick
<1>22. CASE Crash  BY <1>22, CrashedFile, CrashedBackup DEF Crash, Loaded, TypeOK
<1>23. CASE Restart
  <2>1. /\ pc = "dead" /\ pc' = "load" /\ stake' \in {stake, None}
        /\ file # None /\ file.data \in {stake, text} => stake' = None
        /\ UNCHANGED <<buffer, disk, clock, saving, unsafe, raced, hurt, foreign, known,
                       slipped, told, intact>>
    BY <1>23 DEF Restart
  <2>2. Staked'  BY <2>1
  <2>3. Copying' /\ BackedUp' /\ Written' /\ Knowing' /\ Told'  BY <2>1
  <2>4. ~intact \/ foreign \/ pc' = "load"  BY <2>1
  <2>5. Agreeing'  BY <2>1
  <2>6. QED  BY <2>2, <2>3, <2>5
<1>24. ASSUME NEW f \in Files, Interfere(f)  PROVE Parts'
  BY <1>24 DEF Interfere
<1>25. CASE Load
  <2>1. CASE file = None
    <3>1. PICK t \in Text : Loaded(t)  BY <1>25, <2>1 DEF Load
    <3>2. QED  BY <1>25, <2>1, <3>1 DEF Load, Loaded
  <2>2. CASE file # None  BY <1>25, <2>2 DEF Load, Loaded
  <2>3. QED  BY <2>1, <2>2
<1>26. CASE RecordBaseline  BY <1>26 DEF RecordBaseline
<1>27. QED
  BY <1>25, <1>26, <1>1, <1>2, <1>3, <1>4, <1>5, <1>6, <1>7, <1>8, <1>9, <1>10, <1>11, <1>12, <1>13, <1>14,
     <1>15, <1>16, <1>17, <1>18, <1>19, <1>20, <1>21, <1>22, <1>23, <1>24
  DEF Next, Command, Answer, SaveStep
-----------------------------------------------------------------------------
(* Theorems *)

LEMMA InitOK == Init => TypeOK /\ Parts
<1> SUFFICES ASSUME Init  PROVE TypeOK /\ Parts  OBVIOUS
<1>1. file \in Version /\ clock \in 0..MaxClock
  <2>1. CASE file = None  BY <2>1 DEF Init, Version
  <2>2. CASE file # None
    <3>1. file \in [data : Text, mtime : 0..clock, durable : {TRUE}] /\ clock = 0
      BY <2>2 DEF Init, Files
    <3>2. 0..clock \subseteq 0..MaxClock  BY <3>1
    <3>3. file \in [data : Content, mtime : 0..MaxClock, durable : BOOLEAN]
      BY <3>1, <3>2 DEF Content
    <3>4. QED  BY <3>1, <3>2, <3>3 DEF Version
  <2>3. QED  BY <2>1, <2>2 DEF Init
<1>2. text \in Content /\ baseline \in [mtime : 0..MaxClock, size : Nat] \cup {None}
  <2>1. CASE file = None  BY <2>1 DEF Init, Content
  <2>2. CASE file # None  BY <1>1, <2>2, StampIs DEF Init, Version
  <2>3. QED  BY <2>1, <2>2
<1>3. TypeOK  BY <1>1, <1>2 DEF Init, TypeOK
<1>4. Parts
  BY DEF Init, Parts, Copying, BackedUp, Written, Staked, Knowing, Told, Agreeing,
     Saving
<1>5. QED  BY <1>3, <1>4

LEMMA Invariant == Spec => [](TypeOK /\ Parts)
<1>1. TypeOK /\ Parts /\ [Next]_vars => TypeOK' /\ Parts'
  BY TypeKept, InvKept DEF Parts
<1>2. QED  BY <1>1, InitOK, PTL DEF Spec

(* The buffer, the file, its backups and the flags have their types in any  *)
(* order of steps, failures, crashes and foreign writes.                    *)
THEOREM TypeCorrect == Spec => []TypeOK
BY Invariant, PTL

(* The text a save replaces is never lost (fileio.c saveBuffer): from the   *)
(* truncation until the new text is flushed a backup holds it whole, for    *)
(* any texts, through failures, retries, crashes and restarts.              *)
THEOREM AlwaysRecoverable == Spec => []Recoverable
<1>1. Parts => Recoverable  BY DEF Parts, Staked, Recoverable
<1>2. QED  BY <1>1, Invariant, PTL

(* A text another process left is overwritten only with the user's word,    *)
(* or where mtime and size do not tell it from the one read or written, or  *)
(* when it came after the check, or one before it came between the reading  *)
(* or writing and the stat after it (fileio.c preSaveCheck).                *)
THEOREM ChangesAreReported == Spec => []ChangeReported
<1>1. Parts => ChangeReported  BY DEF Parts, Told, Saving, ChangeReported
<1>2. QED  BY <1>1, Invariant, PTL

(* A buffer shown as unmodified holds what its file holds (buffer.c         *)
(* markBufferClean), unless another process has changed the file or emil    *)
(* failed in the middle of writing it.                                      *)
THEOREM CleanIsTheFile == Spec => []CleanMatchesFile
<1>1. Parts => CleanMatchesFile  BY DEF Parts, Agreeing, CleanMatchesFile
<1>2. QED  BY <1>1, Invariant, PTL

=============================================================================
