# emil: TLA+ models and proofs

emil is a terminal text editor in C in the tradition of emacs: one thread, one
command loop, buffers of rows, an undo log of record nodes, kill and mark rings,
windows, prompts, keyboard macros, shell pipes and file locks. This directory
models its core in TLA+, checks the models with TLC on small instances, and
proves with TLAPS, for every value of the constants, the facts the core rests on.

## The system

| Component | Source | State | Operations |
|---|---|---|---|
| Text and mutation primitives | `undo.c`, `mutate.c`, `adjust.c`, `buffer.c` | `buf->row`, `buf->numrows` | `bulkInsert`, `bulkDelete`, `collectRegionText`, `computeInsertEnd`, `adjustPoint`, `adjustRowIndex`, `bufOffset`, `bufPos`, `bufTextLen` |
| Undo log and editing commands | `undo.c`, `mutate.c`, `edit.c`, `region.c` | `buf->undo`, `buf->redo`, `dirty`, `internal_mod`, `read_only`, `cx`, `cy` | `mutateReplaceEx`, `mutateExtendRows`, `pushUndo`, `undoMerge`, `undoCloseRun`, `doUndo`, `doRedo`, and every editing command |
| Kill ring, mark ring, rectangles | `region.c`, `history.c` | `E.kill`, `kill_ring_pos`, `markx/marky`, `mark_ring` | `addToKillRing`, `yank`, `yankPop`, `markRingPush`, `popMark`, `killRectangle`, `yankRectangle`, `stringRectangle` |
| File I/O, saving, locking | `fileio.c`, `util.c` | `filename`, `lock_fd`, `external_mod`, `open_mtime`, the file, its backup | `editorOpen`, `saveBuffer`, `saveAs`, `revert`, `lockFile`, `releaseLock`, `relockAll`, `checkFileModified`, `backup_create` |
| Buffers | `buffer.c`, `register.c` | `E.headbuf`, `E.buf`, `E.lastVisitedBuffer`, registers | `newBuffer`, `destroyBuffer`, `killBuffer`, `switchToNamedBuffer`, `nextBuffer`, `previousBuffer` |
| Windows and display | `window.c`, `display.c`, `wrap.c` | `E.windows`, `focused`, `rowoff`, `skip_sublines` | split, delete, switch, `showPopupBuffer`, scrolling |
| Prompts and completion | `prompt.c`, `completion.c`, `history.c`, `palette.c` | `E.minibuf`, `E.edbuf`, histories | the nested prompt loop |
| Keymap and macros | `keymap.c`, `main.c` | `E.macro`, `E.recording`, `E.playback`, `E.uarg` | `recordKey`, playback, prefix arguments, the command loop |
| Input decoder | `decoder.c`, `terminal.c` | bytes of an unfinished sequence | the escape-sequence machine |
| Shell pipes | `pipe.c`, `emil_subprocess.c` | the child, the two pipes, the pump's offsets | write, read, cancel, join |
| Search and replace | `find.c`, `region.c` | none beyond the cursor | search, query-replace |
| Signals and the terminal | `main.c`, `terminal.c` | pending flags | resize, suspend, emergency save |
| Unicode, transforms, tags, byte buffers | `unicode.c`, `transform.c`, `ctags.c`, `base64.c`, `abuf.c`, `dbuf.c` | none | pure functions of bytes |

How they interact. A key reaches a command through the decoder and the keymap; a
command changes text only through the mutation layer (`mutate.c`), which pushes
undo records *before* each splice (`undo.c`), splices the rows with `bulkInsert`
and `bulkDelete`, and from inside those moves every position the editor holds in
that buffer (`adjust.c`: mark, mark ring, registers, cursors and top rows of
unfocused windows). Undo and redo replay the records with the same two splices.
The file layer reads `dirty` and sets it, and takes a lock at the
clean-to-dirty edge (`markBufferDirty`). Prompts run a nested command loop on
the minibuffer, which is an ordinary buffer without the final-newline rule.

### What is hard in it

* **Sequences of legal calls.** There is no concurrency inside a command; what is
  hard is that undo replays, much later, records made against texts that no longer
  exist, after merges, pairs and repairs. A record that no longer fits is silently
  clamped by `bulkDelete`: the user sees wrong text, no test sees an error.
* **Stale state.** Marks, ring slots, registers and windows hold positions across
  any number of edits and are never clamped once adjusted; registers and prompts
  hold buffer pointers; a file check holds an mtime.
* **Two actors.** Another process may lock or write the file between emil's check
  and its write; POSIX locks vanish when any descriptor of the file is closed.
* **Partial failure and crashes.** A write may fail half-way or the editor may die
  between truncating and finishing: the backup is then the only copy.
* **Waiting.** The pump between two pipes, a macro that ends inside a prompt, a
  signal between a test and a blocking read.

`PROJECT.json` lists each hazard at its line, with the property that covers it or
the reason none does yet.

### What makes each component correct

* Text: the rows are one string; a splice of rows is the splice of its bytes; the
  flat offsets of `buffer.h` are a bijection; a held position keeps its byte.
* Undo: the lists are a history of whole texts; one undo is one step, whatever
  records it took; a replay is never clamped; a clean buffer equals its file.
* Files: at every point of a save, crash included, the old or the new text is whole
  on disk; a buffer shown as unmodified holds its file; a change from outside is
  reported before it is overwritten.
* Locks: a buffer that believes it holds the lock holds it, whatever descriptors of
  the file were closed; unsaved edits are locked or warned about.
* Rings: yank-pop takes back the yank before it and nothing else; both rings visit
  all of their entries.
* Buffers and registers: nothing refers to a buffer that is gone; between commands
  one window has the focus, `E.buf` is on the screen and no popup is left.
* Keys and macros: a keystroke is one key however its bytes arrive; a replayed macro
  does what was recorded, is not disturbed from within, and ends.
* Shell commands and signals: editor and child never wait for each other; nothing
  they send each other is lost; C-g gives the editor back; the terminal is repaired
  before keys are read.

## The modules

| Module | What it is |
|---|---|
| `TextRows` | The pure core: texts, positions, `BulkInsert`, `BulkDelete`, `CollectRegionText`, `ComputeInsertEnd`, `AdjustPoint`, `AdjustRowIndex`. No variables. |
| `RowEdits` | A buffer's rows and held positions under single insertions and deletions, with `RowsToString`, `BufOffset`, `BufPos`, `BufTextLen`. |
| `FlatText` | Abstract: a string and offsets into it. `RowEdits` implements it. |
| `UndoLog` | The mutation layer, the undo and redo lists and the commands: the core of the project. |
| `EditHistory` | Abstract: a text, the texts an undo goes back to, the texts a redo goes on to. |
| `UndoHistory` | `UndoLog` with two history variables (the texts each step started from and ended in); under them it implements `EditHistory`. |
| `FileSave` | One buffer, its file and its backup; a save call by call, failures, crashes, another process. |
| `FileLock` | The record lock on one file, wanted by the buffers of several processes. |
| `Rings` | Kill ring, yank and yank-pop, text registers, mark ring. |
| `MarkRotation` | Abstract: the last marks in order, and popping as a rotation. `Rings` implements it. |
| `Workspace` | The buffer list, windows, focus, popups, prompts, palette, point registers, tag stack. |
| `Keys` | The input decoder, `readKey`, prefixes, prompts and keyboard macros. |
| `ShellCommand` | The child, the three pipes, the pump, cancellation, reaping. |
| `Terminal` | Signals, `readKey`'s wait and raw mode, composed with `ShellCommand` (it EXTENDS it). |
| `MC...` | Values for the constants, and state constraints. |
| `TextRowsProofs`, `RowEditsProofs`, `UndoLogProofs`, `FileProofs`, `WorkspaceProofs`, `TerminalProofs`, `RingsProofs`, `KeysProofs` | Lemmas, theorems and their proofs. |

### How the state corresponds to the code

* `rows` is `buf->row[0..numrows-1]`; row `y` is `rows[y + 1]`. The code keeps
  `numrows >= 1`, so `Text` has no empty sequence. Bytes are model values: nothing
  here depends on which byte it is, except newline, which never is in a row.
* A payload (`undo->data`, a kill, a replacement) is a text too: its newlines
  separate fragments. Inserting one is `Concat(Concat(before, payload), after)`.
* `undo` and `redo` are the linked lists from the head on, a record is
  `struct undo` without its capacity fields and links.
* `tracked[h]` is one holder of a position: the mark, a ring slot, a register, the
  cursor of an unfocused window. `views[w]` is `rowoff` and `skip_sublines`.
* `point` is where a command left `cx, cy`. Motion is folded in: each command
  starts at any position of the text.
* `disk` is the text last read or written. `editorOpenBody` normalises what it
  reads (a missing final newline is added, carriage returns dropped, the user
  told) without marking the buffer modified; `disk` is the normalised text, so
  `CleanMatchesDisk` speaks modulo that.
* Commands that consist of one mutation share an action: `DeleteRange` is every
  kill, `ReplaceRange` every replacement of a range (query-replace, transpose,
  fill, case), `InsertPayload` yank and insert-file. Several mutations under one
  command are several steps for the undo log, as they are in the code, except
  where the code pairs them (`yankRectangle`), and that action is whole.
* One command is one step: emil is single-threaded, and nothing observes a buffer
  in the middle of a command. Within a step the mutations are threaded through a
  record `m` in the order of the code (record pushed, splice, adjustment, final
  newline).

* `FileSave`: `pc` is where in `save()` or `editorOpen()` the editor is; every system call
  is an action, because the other process, a failure, a crash or a question can come in
  between. Opening, reverting and restarting read the file (`Load`) before they look up
  its mtime and size (`RecordBaseline`).
  A file is its data, its `st_mtime` in whole seconds and whether fsync has made it
  durable; `Torn` is what a truncated or half-written file holds. `baseline` is
  `open_mtime` and `open_size`. `stake` (history) is the text this save put at risk, `known`
  the stamp of what emil really read or wrote, `slipped` that the baseline is another's.
  `saveBuffer`'s early returns (a buffer that is not valid UTF-8, a macro being
  recorded) change no state and are left out.
* `FileLock`: `held[p]` is the kernel's table, `buf[b]` the lock-related fields of a
  buffer, `todo[p]` the buffers `relockAll` has still to go through: other processes
  run between the close and each of them, and between the reading of a file and the
  probe of its lock (`opening`). `lost` (history) has the processes where a failed call
  closed its descriptor beside another buffer's lock. `stale[b]` is that mtime or size show a
  change. `chosen[b]` (history) is that the user or the file's permission made the
  buffer read-only.
* `Rings`: a killed text is a model value; the text of the buffer is known by its undo
  steps. `mark_ring` is indexed from 0 as in the code. There are two buffers, the one
  edited and the minibuffer, each with its undo steps (`undo`, `below`): entering a prompt,
  the edits the prompt loop makes by itself and leaving it do not pass `processKeypress`,
  and so leave `kill_ring_pos` alone. Switching to a third buffer and the minibuffer's own
  marks are left out.
* `Workspace`: `ws` is `E.headbuf`'s list, the windows, the focused flags, `E.buf` and
  `E.lastVisitedBuffer`. A buffer *is* its address: a freed one is given to a later
  `newBuffer`, so a pointer that outlives its buffer would be found. A file with the
  name of one of emil's own buffers (`*scratch*`, `*Completions*`) is left out
  (`NameAssumption`): `findBufferByName` would take one for the other.
* `Keys`: whoever waits for a key is a frame of `e.stack`: the main loop, a prompt,
  `execMacro`, a command that reads one more key. `tty` is the decoder's state and
  the bytes of the keystroke still to come. The history `h` holds who got which key
  while recording and while playing.
* `ShellCommand`: pipes are counters up to `Capacity`. The child is any program of
  `Program`: it reads and writes in any order and may detach, trap or never end.
* `Terminal`: `at` is where the editor is between two keys; handlers run between any
  two steps.

Every mapped definition names its source lines in `PROJECT.json`.

## The runs

| Run | Instance | What it shows |
|---|---|---|
| `row_edits` | 2 bytes, up to 3 rows of 2, one holder, payloads with 0, 1 and 2 newlines: 6,709 states | The row splices implement `FlatText`; offsets and positions are inverse and order-preserving; every edit is inverted by what undo does; adjacent insertions join; held positions stay in the text |
| `undo_history` | 1 byte, up to 3 rows of 2, 2 records, merge limit 1: 85,114 states | The two lists implement `EditHistory`; steps are never torn; runs are closed and bounded; replays are never clamped; the final newline holds; a clean buffer holds what is on disk |
| `tracked` | 1 byte, up to 3 rows of 1, 2 holders, 1 window: 47,076 states | Held positions and window tops stay in the text and keep their order through every command, undo and redo |
| `file_save` | 3 texts, two of one size, 2 clock values, 1 backup kept: 4,660,000 states | The text a save replaces is recoverable at every point; changes from outside that mtime and size show are asked about; a clean buffer holds its file |
| `clean_after_failed_save` | as `file_save` | Violated: finding 1 |
| `file_lock` | 2 processes, 2 buffers of one and 1 of the other, lock calls of the former may fail: 306,000 states | Locks believed in are held, but for what a failed lock call beside them closed; where locking works edits are announced and warnings clear (liveness); read-only is kept |
| `lock_failure` | as `file_lock` | Violated: finding 2 |
| `rings` | 2 texts, 2 rectangles (one of width zero), rings of 3, 2 positions, 2 undo steps: 567,000 states | yank-pop replaces the yank, in and out of prompts, unless the prompt loop itself came in between; the kill ring is gone round in both directions; the circular mark ring implements `MarkRotation` |
| `yank_pop` | as `rings` | Violated: finding 3 |
| `workspace` | 3 addresses, 1 file name, 2 windows, tag stack of 1: 460,000 states | No reference to a freed buffer; after every command one window has the focus, it shows `E.buf` unless it is the first, `E.buf` is on the screen and no popup is; no command but an agreed kill and a revert drops unsaved edits |
| `keys` | 14 keystrokes, macros of 5 keys, 2 repetitions: 1,250,000 states | Keystrokes stay whole; a replay does what was recorded; playback is undisturbed and ends (liveness) |
| `terminal` | 5 programs, pipes of capacity 1, 2 units of input, 1 nap: 334,000 states | Terminal repaired and resizes seen in time; nothing lost in the pipes; commands complete and can be cancelled (liveness) |

Why the bounds are enough. All splices and adjustments distinguish at most: the
row before, the row of the range's start, an interior row, the row of its end, the
row after; and a column before, at and after each end. Three rows of two bytes
hold each of these. `undo_history` bounds the undo list when an edit is
*made* (`HasRoom`), so a list reaches `MaxRecords` and what the last command adds
(three records for a rectangle over missing rows); a merge limit of 1 makes a run
meet its limit; two initial bytes on a row let a backspace merge. Two records at
each end are enough for a pair, a run beside a closed run, and a redo list beside
an undo list. What the proofs cover needs no bound at all.

The file models need two texts of equal size (a change mtime and size do not show) and
one of another; two clock values tell "same second" from "later"; one kept backup is
enough to be mistaken for this save's. Two processes and two buffers in one of them
make every case of `relockAll` occur: its own other buffer, another process in between.
The faults are put into the process with two buffers, where a failed call can cost the
other buffer its lock; `EditsAnnounced` and `WarningsClear`, which are about processes
whose locking works, are then about the other one (the first is proved for any number).
`rings` enters prompts only while there are no marks, which prompts leave alone (`Small`).
Rings of three make a rotation differ from a swap and from its inverse. Three addresses
with one always in use make every freed address come back; `MaxWindows` 2 beside the
popups' own windows lets a popup open beside a split. `MaxKeys` 5 is three keys and the
`C-x )` that ends a macro, enough for a prompt opened and left, a command with a key of
its own, and a nested `C-x e`. A pipe of capacity one fills at once, so that both sides
block; larger pipes only block later.

Bounds that are not in the code: `MaxRows`, `MaxCols`, `MaxRecords`, `MaxSkip`,
`MaxClock`, `MaxKept`, `MaxEdits`, `MaxWindows`, `MaxKeys`, `MaxReps`. `HistoryMax`,
`MarkRingSize`, `JumpLimit` and `Naps` are limits of the code at smaller values. `rings`
and `keys` have a CONSTRAINT: the kill ring and the mark ring are explored to their
bounds while the other is short, and the user of `keys` ends a macro in time.
`MergeLimit` is `UNDO_MERGE_LIMIT`. `tracked` uses a VIEW of the variables that
decide what is held (the flags are left out) and symmetry of the two holders.
Deadlock is checked in all runs.

Fairness. `RowEdits`, `UndoLog`, `FileSave`, `Rings` and `Workspace` assume none: their
properties are safety, and a user owes an editor no progress. Where progress is owed:

* `FileLock`: `relockAll` and the end of a save are code that runs to its end (weak
  fairness). `checkFileModified` runs on every redisplay of the focused buffer, and the
  user comes back to each buffer: strong fairness, because other commands disable it in
  between. Nothing makes a user edit, undo or save.
* `Keys`: playing a macro needs nothing from outside (weak fairness of `Play`); typing
  and signals have none.
* `Terminal`: the editor goes on with a shell command while it is not stopped, and the
  child takes the steps it can take (weak fairness of both). Nobody has to type.

Each property of a passing run has a mutant in `PROJECT.json`: a plausible bug (suffix row dropped,
run left open, repair recorded as its own step, positions not adjusted, ...) under
which TLC finds it violated. The faulty operators stand beside the right ones.

### Findings

1. `src/buffer.c:33-34` has the buffer clean, and its lock released, when it "matches
   what's on disk". An edit, a save that fails after the file was truncated and is
   given up, and undoing everything mark the buffer clean (`src/undo.c:273` looks at
   `internal_mod`, which only a successful save sets) while the file is cut short. Run
   `clean_after_failed_save`, in whose trace the user skips the backup; with one, the
   old text is still in it (`Recoverable`).
2. `src/fileio.h:24-27` says `relockAll` "Must be called after any operation that opens
   and closes a file". A `lockFile` that fails for another reason than a conflict closes
   its descriptor (`src/fileio.c:187`), and `markBufferDirty` calls no `relockAll`: another
   buffer on the file goes on with a lock the kernel has dropped. Run `lock_failure`.
3. `src/region.c:458-461` has a `kill_ring_pos` that is not negative mean "the preceding
   user-level command was a yank or yank-pop". The prompt's own keys do not go through
   `processKeypress`, which alone resets it: after a kill, `C-s C-y RET`, the `M-y` undoes the
   last edit of the buffer searched. Run `yank_pop`. `C-y TAB M-y` in a prompt undoes the
   TAB; and a yank of a rectangle of width zero sets `kill_ring_pos` and records
   nothing, so that the yank-pop after it undoes the edit before.

### Seen while modelling, not among the runs

What the code does against its comments or documentation and the models allow. Where a
property would fail because of it, the property names the exception.

* `src/mutate.c:85-86` says of the newline `restoreFinalNewline` appends that "a row
  appended past the end of the buffer moves no tracked point". The code inserts it
  with `bulkInsert` at the end of the last row, and `adjustPoint` moves every point at or
  after an insertion: after a kill that runs off the end of the text, a mark at the start
  of the kill is moved to the appended row.
* `src/emil.h:147` says of `external_mod` "1 if file changed on disk since open/save".
  `editorOpenBody` reads and closes the file and only then looks up mtime and size by
  name; what another process writes in between becomes the baseline unread and is
  overwritten by the next save without a question (`slipped` in `ChangeReported`). What it
  writes between the check before a save and the truncation (`raced`) is overwritten too:
  nothing in the code could tell.
* `src/fileio.c:947` says of `writeInPlace` "On failure, set *damaged if the target file
  may now be damaged". It resets the flag before it opens the file: a retry whose open
  fails takes back the report of the attempt before it.
* `save-as` gives an unmodified buffer its new name and leaves it unmodified whether or
  not the write comes about; `C-x C-s` then answers "(No changes need to be saved)"
  (`src/CHANGELOG.md:95-96`) for a file that does not hold the text (`intact` in
  `CleanMatchesFile`).
* `src/window.c:169-170` and `src/fileio.c:272` speak of the "original (first) window" and
  "the focused buffer". A popup opened while the second window of a split is in use
  puts the focus on the first (`src/window.c:176`); nothing puts it back when the popup is
  closed, while `E.buf` is what the second shows. `ScreenRestored` says so of the first
  window alone.
* `src/decoder.c:26` says "no byte of a sequence is ever left queued to be misread as
  typed text". A signal right after the ESC of an arrow key leaves the rest of it to be
  inserted; `ESC` before a character of more than one byte (Alt with a non-ASCII letter)
  leaves the continuation byte likewise (`tty.cut` in `KeystrokeWhole`).
* `zapToChar` and the yes/no questions do not record the key they read; the replay gives
  them the next key of the macro. A signal after `C-q` inserts a byte and records -1.
  `src/prompt.c:208` takes -1 from `readKey` for "Interrupted by a signal" and reads again; at
  the end of a macro `readKey` returns -1 as well, so that a macro that was ended inside a
  prompt, played, never ends, and no key is read any more. `h.missed` marks these
  recordings, and `ReplayFaithful` and `PlaybackEnds` are stated for all others.
* The prefix `C-x` survives a prompt that is left by `RET` or `C-g`.
* A signal between `handlePendingSignals` and `read` is acted on one key later
  (`RepairedInTime` says one, not none); a SIGWINCH while `got_sigwinch` is cleared after
  SIGCONT is forgotten (`seen.unread`).
* The join after a child has closed its outputs cannot be interrupted, nor can a diff: no
  key is read then, so `CancelWorks` says nothing of it. SIGTERM and resizes are not
  acted on while the pump runs.
* `revert` throws unsaved edits away without a question. `NoEditsDropped` names it as
  the one command that does.

## The proofs

All of it holds for every set of bytes, payloads, rectangles, holders, windows,
processes, buffers, texts, keystrokes and programs, for rings and pipes of any size and
every bound; the constants are restricted only by the named assumptions of the modules:
payloads are texts and not empty (`PayloadAssumption`; the code returns early on an
empty one), rectangle kills have no empty row (`RectangleAssumption`), the pad is a byte
(`ByteAssumption`), bounds are naturals (`BoundAssumption`), "unset" is no position
(`NoPointAssumption`), a buffer is loaded with its final newline in place
(`InitTextAssumption`: `editorOpenBody` appends the row a file lacks), addresses are not
`NULL`, and no file has the name of a buffer of emil's own (`AddressAssumption`,
`OriginAssumption`, `NameAssumption`).

**`TextRowsProofs`** is the algebra of texts as rows. `Concat` is associative and
`EmptyText` neutral; every position cuts a text into two texts whose concatenation it is
(`Cut`); inserting or deleting is cutting and joining (`InsertionIs`, `DeletionIs`), so an
edit and its inverse cancel and adjacent edits join; `adjustPoint` keeps the order of two
positions and leads into the new text. It also has the induction along `0..k` that proofs
about recursive functions and about lists need (`Least`, `UpTo`), made from
`WellFoundedInduction`'s fact that `<` on the naturals is well-founded: the library's own
induction theorems take an operator, which the installed provers cannot instantiate.

**`RowEditsProofs`** uses it for single edits. The invariant is `TypeOK /\ HeldInText`,
which is inductive.

| Theorem | Property |
|---|---|
| `TypeCorrect` | `TypeOK` |
| `HeldStaysInText` | `HeldInText` |
| `EditsAlwaysInvert` | `EditsInvert` |
| `InsertionsAlwaysJoin` | `InsertionsJoin` |
| `OffsetsAlwaysInverse` | `OffsetsInverse` |
| `RefinesFlatText` | `ImplementsFlatText` |

The last two are about `RowsToString` and `BufOffset`, which are recursive functions along
the rows. That such a function exists is proved first (`Walk`); then, row by row, that the
string of a concatenation is the concatenation of the strings (`StringsJoin`). An offset is
the length of the string before the position (`OffsetIs`), hence increasing in the
position. Since inserting and deleting are cutting and joining, they put in or take out one
string of the whole, and a position after the edit moves by that string's length: the step
`FlatText` takes.

**`UndoLogProofs`** uses it for whole histories of commands.

| Theorem | Property |
|---|---|
| `TypeCorrect` | `TypeOK` |
| `NewlineKept` | `FinalNewline` |
| `CleanIsOnDisk` | `CleanMatchesDisk` |
| `HeldStaysInText` | `HeldInText` |
| `StepsWhole` | `PairsWhole` |
| `RunsStayClosed` | `RunsClosed` |
| `ReplaysFit` | `RecordsFitText` |
| `OrderKept` | `HeldInOrder` |
| `RefinesEditHistory` | `ImplementsHistory` |

Why an inductive invariant is needed: `RecordsFitText` speaks of the record at the head
of a list, and an undo exposes the record below it, of which the property says nothing;
`CleanMatchesDisk` depends on what *all* of the undo list leads back to. `Inv` therefore
adds to the properties what lies behind the lists:

* `UndoFits(undo, rows, Base)`: there are texts `T[0] = rows, T[1], ..., T[Len(undo)]`
  such that the edit recorded as `undo[i]` made `T[i - 1]` of `T[i]`, i.e. one of the two is
  `b . data . a` and the other `b . a` with `start`, `end` at the seams (`Splice`); the text
  before every unpaired record, where a step begins, has its final newline; and before
  the first save the last text is the file's (`Base`).
* `RedoFits(redo, rows)`: the same forwards.
* `UndoList`, `RedoList`: pairs, runs and their limit.

The argument. A mutation pushes its record before its splice, so a recorded edit puts a
text in front of the sequence (`Pushed`); a record folded into the head replaces the two
splices by one over the joined payload, in each of the three ways `undoMerge` joins
(`MergeMakes`). Replaying is the splice read the other way (`SpliceReplays`), so a replay
is never clamped. A command is then two or three of these (`Mutated`), with the final
newline restored at the end. An undo replays `k` records: by induction along `0..k` the
text reached is `T[k]` (`ReplayedAll`), the rest of the list still leads back from there
(`UndoKeeps`), and the moved records, reversed, lead on to where it started
(`RedoGrows`); redo is the mirror image (`RedoKeeps`, `UndoGrows`). The order of held
positions is preserved splice by splice (`Follows`), and so by any number of them.

`RefinesEditHistory` is about `HSpec` of `UndoHistory`, the editing model with the texts
users think in kept beside it. Its invariant `HInv` adds that these texts are the ones
behind the lists, cut where steps end: with `B[1] < ... < B[p]` the places of the unpaired
records (`Cuts`), the j-th past text is `T[B[j]]` (`Behind`, `PastIs`), and likewise the
future (`FutureIs`). A command's records are one step more (`StepAdded`) or, folded into the
head, grow the first step; an undo takes exactly the first step away and puts it in front
of the future.

**`FileProofs`**, saving: `AlwaysRecoverable` (`Recoverable`), `ChangesAreReported`
(`ChangeReported`), `CleanIsTheFile` (`CleanMatchesFile`), `TypeCorrect`. A statement about
the text at stake is not inductive: that a backup holds it when the file is truncated
follows from every call made before. `Parts` says it call by call: what the backup holds
while it is copied and when it is synced (`Copying`, `BackedUp`), what the file holds
while it is written (`Written`), where the text at stake is (`Staked`), what a save that
goes on has told the user (`Told`), and what a clean buffer and the end of its undo list
agree with (`Agreeing`), each unless another process came in between (`raced`, or `slipped`
when it came between reading or writing the file and looking up its mtime and size).
That the backup's fsync makes its directory entry durable too is assumed of the file
system (`SyncBackup`): the code does not flush the directory.
`SizeAssumption`, `TornAssumption` and `NoneAssumption` say that a size is a number and that
a torn text and "no file" are none of the texts.

Locking: `LocksHeld` (`LocksAreHeld`), `EditsAreAnnounced` (`EditsAnnounced`),
`ReadOnlyIsKept` (`ReadOnlyKept`), `LockTypesCorrect`, for any number of processes and buffers.
`LockInv` has what the kernel grants (`Kernel`), what each buffer believes except while
`relockAll` has still to come to it (`Beliefs`), and who is left to come to (`Pending`);
`Fields` repeats the properties of one buffer without the wait for `relockAll` to end.
No process's locking is assumed to work. `LocksAreHeld` excepts a process in which a lock
call has failed beside another buffer's lock and nothing has locked since (`lost`), which
is finding 2; `EditsAnnounced` is about processes whose locking works.

**`WorkspaceProofs`**: `NoDanglingReference` (`ReferencesLive`), `ScreenComesBack`
(`ScreenRestored`), `EditsStay` (`NoEditsDropped`), `WorkspaceTypesCorrect` (`TypeOK`), for
any number of addresses, files and windows. That the focused window shows `E.buf` is proved
for every window but the first, where a popup puts the focus; that only an
agreed kill and a revert drop edits says nothing of whether `revert` should ask. `ScreenRestored` speaks of the moments between
commands only; while a prompt, a preview or the palette is up it says nothing, and what it
takes to come back is what has to be found. `Inv` says it:

* `Sound`: what the list and the windows are at any time; `Once`: a popup is one buffer,
  in one window at most, so that one `closeSpecialBuffer` takes all of it away;
* `Popups`: a popup is there only while the prompt, the preview or the palette that opened
  it is;
* `Place`: one window has the focus, it is no popup's, and `E.buf` is on the screen or is
  the minibuffer of the open prompt. While the palette is up: the window it was opened from
  is still at its place, because the palette's own window is the last one and closing it
  moves no other, and the buffer it goes back to is on the screen or the minibuffer;
* `Others`: what a prompt goes back to is on the screen and stays there; no popup is
  modified, prompted from or jumped back to.

Between commands this is `Steady`, and each command, a kill with its popups and a revert
included, leads from `Steady` to `Steady`. That a freed address is given out again needs no
case of its own: `Sound` holds whatever the address was before.

**`TerminalProofs`**: `RepairIsInTime` (`RepairedInTime`), `ResizeIsSeen` (`ResizeSeen`),
`NothingIsLost` (`NothingLost`), `TypeCorrect`. Two invariants, since a shell command
leaves the signals alone and the other way round: `KeysInv` (a cooked terminal is about to be
repaired, a key read from one is followed by a look at the flag, a resize between measuring
and clearing is noted) and `ShellInv` (what the child wrote is in the pipe or read; what is
to be fed is left, in the pipe or read; an output is at its end only when it is empty).

**`RingsProofs`**: `YankPopIsRight` (`YankPopReplacesYank`), from `LastIsYank` (while a yank
can be popped, the step it recorded is the last one, unless the prompt loop has since
edited the minibuffer or been left: `strayed`, finding 3); `RefinesMarkRotation`
(`ImplementsMarkRotation`): with the sequence read off the array as its abstract state, a
push, a pop and a jump of the circular ring are those of `MarkRotation`, for rings of any
size. The slot of the i-th mark is a remainder; `SlotOf...` lemmas say which slots a push
overwrites and a rotation goes through. `RingGoesRound` (`CyclesThroughAll`): while a yank
can be popped its kill is one of the ring's (`InRing`), and the place reached after `i`
pops is `kill_ring_pos` plus or minus `i`, taken once round (`Place`), by induction along
the pops; so every kill is come to, and the last pop of a round comes back to the first.
`TypeCorrect`.

**`KeysProofs`**: `KeystrokesAreWhole` (`KeystrokeWhole`), `PlaybackIsUndisturbed`
(`PlaybackUndisturbed`), `ReplaysAreFaithful` (`ReplayFaithful`), `TypeCorrect`, for macros
and call stacks of any length and for all keystrokes at once. `TtyOK` lists what can be
under way: the decoder's state with the bytes still to come, for a keystroke read whole and for what is left of a torn one.
`EditorOK` adds to the types that nothing is recorded while a macro plays, that at most
one frame is a player, and that before the first key of a macro its player is on top: this
is why a nested `C-x (` or `C-x e` always meets `E.playback` other than 0. `StoryOK` says
that the macro still tells how it was recorded: there is a `Trace` of the places (call
stack and prefix) and positions the recording went through, key by key, each `Goes` from
the one before; and a replay is at one of them, with the same readers below it, the player
in between (`Under`). So the key it reads next is the next of the recording and meets the
same reader (`BelowReads`), and the macro's last key is the recording's.

### What is only model-checked, and why

Liveness (`WarningsClear`, `PlaybackEnds`, `ShellCompletes`, `CancelWorks`): fairness and
ENABLED are outside the prover. Every other property of the passing runs is the statement
of a theorem above; the properties the code violates are refuted by TLC.

## Not modelled, and why

* Commands that set `E.buf` from inside a prompt (`previous-buffer`, `next-buffer`, jump to
  a register): the prompt goes on with a buffer that is not `E.buf` (`src/prompt.c:148`
  says nothing else assigns it). `Workspace` gives those commands outside of prompts only.
* Drawing, wrapping, motion and Unicode widths, case tables, base64, growable buffers, tag
  lines, completion matching, display names: functions of bytes and columns with unit
  tests of their own in `src/tests/`, without state that outlives the call; no state
  modelled here depends on which bytes a row holds.
* Incremental search and query-replace as dialogues: the cursor is free to move in
  `UndoLog`, and each replacement is its `ReplaceRange`. Query-replace's keys are read
  below the command loop like those of `Keys`' frames.
* The columns `killRectangle` and `stringRectangle` cut out of each row; as edits they are
  `UndoLog`'s replacements.
* The undo list of a special buffer that is filled anew (`bufferResetRows`): it would join
  `Workspace` with `UndoLog`.
* The bytes a line ends with when a file is loaded: texts are values in `FileSave`.
* `C-u` and digits beyond the repetition count of a macro; clipboard export; fatal signals.

## What could come next

`Workspace` joined with `Keys`, so that
prompts dispatch every command; the yes/no questions and query-replace as frames of `Keys`.
