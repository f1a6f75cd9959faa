------------------------------- MODULE Rings -------------------------------
(***************************************************************************)
(* The kill ring with yank and yank-pop, the text registers and the mark   *)
(* ring (region.c, history.c, register.c; dispatchRegion and               *)
(* processKeypress in keymap.c).                                           *)
(*                                                                         *)
(* A killed text is a model value.  The text of the buffer is known by its *)
(* undo steps, as they stand: a kill for a step that yanked one, Edit for  *)
(* any other.  What one step does is UndoLog's, and so is how the marks    *)
(* move with the text: here a position is a number.                        *)
(*                                                                         *)
(* There are two buffers, one edited and the minibuffer.  Prompts are run  *)
(* by a loop of their own (prompt.c editorPrompt), which gives keys to     *)
(* processKeypress but not all of them.  The point and the marks are the   *)
(* edited buffer's; the minibuffer's are left out.                         *)
(***************************************************************************)
EXTENDS Naturals, Integers, Sequences, SequencesExt

CONSTANTS
  Plain, Rectangle,  (* The kills, kinds apart;                             *)
  Empty,             (* those of the rectangles that are of width zero.     *)
  NoKill, Edit,      (* E.kill.str = NULL; an undo step that yanked nothing *)
  Position, Unset,   (* The places of the text, and markx = -1.             *)
  HistoryMax,        (* HISTORY_MAX_ENTRIES                                 *)
  MarkRingSize,      (* MARK_RING_SIZE                                      *)
  MaxEdits           (* The undo steps considered.                          *)

Kill == Plain \cup Rectangle

ASSUME KillAssumption  == Plain \cap Rectangle = {} /\ {NoKill, Edit} \cap Kill = {}
ASSUME EmptyAssumption == Empty \subseteq Rectangle
ASSUME NameAssumption  == NoKill # Edit /\ Unset \notin Position
ASSUME LimitAssumption == {HistoryMax, MarkRingSize} \subseteq Nat \ {0} /\ MaxEdits \in Nat

VARIABLES
  kill,            (* E.kill                                               *)
  kill_history,    (* oldest first                                         *)
  kill_ring_pos,   (* from 0; -1 unless the last command was a yank        *)
  reverse,         (* yank_style_reverse                                   *)
  register,        (* the text in a register                               *)
  undo,            (* the undo steps of E.buf, oldest first                *)
  prompting,       (* whether E.buf is the minibuffer                      *)
  below,           (* the undo steps of the buffer prompted from           *)
  before, yanked,  (* History, while a yank can be popped: the steps before*)
  strayed,         (* it, whether it inserted anything, and whether the    *)
                   (* prompt loop has since edited the minibuffer or been  *)
                   (* left.                                                *)
  point, mark, mark_active, mark_ring, mark_ring_idx, mark_ring_len

killVars == <<kill, kill_history, kill_ring_pos, reverse, register>>
yankVars == <<before, yanked, strayed>>
bufVars  == <<prompting, below>>
textVars == <<undo, bufVars, yankVars>>
ringVars == <<mark_ring, mark_ring_idx, mark_ring_len>>
markVars == <<mark, mark_active, ringVars>>
vars     == <<killVars, textVars, point, markVars>>

(* What a command does to the point and the marks, unless in a prompt.      *)
InText(A) == IF prompting THEN UNCHANGED <<point, markVars>> ELSE A

-----------------------------------------------------------------------------
(* The kill ring *)

(* addHistoryWithRect: never what is there already at the end, and the      *)
(* oldest goes when there are too many.                                     *)
AddHistory(h, k) ==
  IF h # <<>> /\ Last(h) = k THEN h
  ELSE IF Len(h) = HistoryMax THEN Append(Tail(h), k) ELSE Append(h, k)

(* addToKillRing: an empty text never gets there.                           *)
AddToKillRing(k) ==
  kill_history' = IF k \in Empty THEN kill_history ELSE AddHistory(kill_history, k)

(* processKeypress, before any command that is no yank.  (Fault: it is left *)
(* to the commands that kill.)                                              *)
EndYank_Kept == UNCHANGED <<kill_ring_pos, yankVars>>

EndYank == kill_ring_pos' = -1 /\ before' = <<>> /\ yanked' = FALSE /\ strayed' = FALSE

HasRoom == Len(below) + Len(undo) < MaxEdits

Record(e) == HasRoom /\ undo' = Append(undo, e)

Region == prompting \/ (mark # Unset /\ mark # point)

(* killRegion, killLine, killRectangle ...: point and mark end up somewhere.*)
KillText(k) ==
  /\ k \in Rectangle => Region
  /\ kill' = k
  /\ AddToKillRing(k)
  /\ EndYank
  /\ Record(Edit)
  /\ InText(/\ mark_active' = FALSE
            /\ point' \in Position
            /\ mark' \in IF mark = Unset THEN {Unset} ELSE Position)
  /\ UNCHANGED <<reverse, register, bufVars, ringVars>>

(* copyRegion gives point and mark back; copyRectangle leaves them at its   *)
(* corners.                                                                 *)
Copied(k) == IF k \in Plain THEN UNCHANGED <<point, mark>>
                             ELSE point' \in Position /\ mark' \in Position

CopyText(k) ==
  /\ Region
  /\ kill' = k
  /\ AddToKillRing(k)
  /\ EndYank
  /\ InText(Copied(k) /\ mark_active' = FALSE)
  /\ UNCHANGED <<reverse, register, undo, bufVars, ringVars>>

(* regionToRegister, rectToRegister; incrementRegister adds to a plain one: *)
(* all go through the kill ring, and give E.kill back.                      *)
ToRegister(k, increment) ==
  /\ Region
  /\ increment => k \in Plain /\ register \in Plain
  /\ \E r \in IF increment THEN Plain ELSE {k} : register' = r
  /\ AddToKillRing(k)
  /\ EndYank
  /\ InText(Copied(k) /\ mark_active' = (mark_active /\ k \in Plain))
  /\ UNCHANGED <<kill, reverse, undo, bufVars, ringVars>>

(* yankInsert: a rectangle has a placement of its own, and one of width     *)
(* zero is refused.                                                         *)
YankInsert(k, rev) ==
  IF k \in Empty THEN UNCHANGED <<point, mark, mark_active>>
  ELSE IF k \in Rectangle THEN UNCHANGED <<point, mark>> /\ mark_active' = FALSE
  ELSE \E end \in Position :
         IF rev THEN mark' = end /\ mark_active' = FALSE /\ UNCHANGED point
                ELSE point' = end /\ UNCHANGED <<mark, mark_active>>

Inserted(steps, k) == IF k \in Empty THEN steps ELSE Append(steps, k)

YankAny(k, rev) ==
  /\ HasRoom
  /\ InText(YankInsert(k, rev))
  /\ undo' = Inserted(undo, k)
  /\ before' = undo /\ yanked' = (k \notin Empty) /\ strayed' = FALSE
  /\ reverse' = rev
  /\ kill_ring_pos' = IF kill_history = <<>> THEN 0 ELSE Len(kill_history) - 1
  /\ UNCHANGED <<kill, kill_history, register, bufVars, ringVars>>

Yank == kill # NoKill /\ \E rev \in BOOLEAN : YankAny(kill, rev)

(* insertRegister: yank with E.kill lent to the register's text.            *)
InsertRegister ==
  /\ register # NoKill
  /\ IF register \in Plain THEN YankAny(register, FALSE)
     ELSE /\ HasRoom
          /\ EndYank
          /\ InText(YankInsert(register, FALSE))
          /\ undo' = Inserted(undo, register)
          /\ UNCHANGED <<kill, kill_history, reverse, register, bufVars, ringVars>>

(* yankPop goes to the next older kill, or the next newer one.  (Fault: the *)
(* newest is not reached again from the oldest.)                            *)
NextPos_OlderStops(pos, newer) ==
  IF newer THEN (pos + 1) % Len(kill_history)
           ELSE IF pos = 0 THEN 0 ELSE pos - 1

NextPos(pos, newer) ==
  LET n == Len(kill_history) IN
  IF newer THEN (pos + 1) % n ELSE (pos + n - 1) % n

YankPop(newer) ==
  /\ kill_history # <<>> /\ kill_ring_pos # -1 /\ undo # <<>>
  /\ LET pos == NextPos(kill_ring_pos, newer)
         k   == kill_history[pos + 1]
     IN /\ kill_ring_pos' = pos
        /\ kill' = k
        /\ undo' = Inserted(Front(undo), k)
        /\ InText(YankInsert(k, reverse))
  /\ UNCHANGED <<kill_history, reverse, register, bufVars, yankVars, ringVars>>

(* Any other edit; undo. *)
OtherEdit ==
  /\ EndYank
  /\ Record(Edit)
  /\ InText(point' \in Position)
  /\ UNCHANGED <<kill, kill_history, reverse, register, bufVars, markVars>>

Undo ==
  /\ EndYank
  /\ undo # <<>> /\ undo' = Front(undo)
  /\ InText(point' \in Position)
  /\ UNCHANGED <<kill, kill_history, reverse, register, bufVars, markVars>>

-----------------------------------------------------------------------------
(* Prompts *)

(* A command asks for something.  In a prompt it is refused: see Move.      *)
EnterPrompt ==
  /\ ~prompting
  /\ EndYank
  /\ prompting' = TRUE /\ below' = undo /\ undo' = <<>>
  /\ UNCHANGED <<kill, kill_history, reverse, register, point, markVars>>

(* The keys the loop handles itself are no commands to processKeypress.     *)
(* Another line of the history, a completion, or the command asking again,  *)
(* replaces the text, ...                                                   *)
ReplaceMinibufferText ==
  /\ prompting
  /\ undo' = <<>> /\ before' = <<>>
  /\ UNCHANGED <<bufVars, yanked, strayed, killVars, point, markVars>>

(* ... TAB where nothing is completed, and RET at a directory's name, add   *)
(* to it, ...                                                               *)
PromptInsert ==
  /\ prompting
  /\ Record(Edit) /\ strayed' = TRUE
  /\ UNCHANGED <<bufVars, before, yanked, killVars, point, markVars>>

(* ... and RET, C-j, C-g and C-c go back to the buffer, where the command   *)
(* may then move and edit.                                                  *)
LeavePrompt ==
  /\ prompting /\ prompting' = FALSE /\ strayed' = TRUE
  /\ \E edits \in {<<>>, <<Edit>>} :
       Len(below \o edits) <= MaxEdits /\ undo' = below \o edits
  /\ below' = <<>>
  /\ point' \in Position
  /\ UNCHANGED <<before, yanked, killVars, markVars>>

-----------------------------------------------------------------------------
(* The mark ring *)

(* markRingPush; i is the slot.  (Fault: the length is not kept to the      *)
(* slots there are.)                                                        *)
MarkRingPush_LengthGrows ==
  IF mark = Unset THEN UNCHANGED ringVars
  ELSE /\ mark_ring' = [mark_ring EXCEPT ![mark_ring_idx] = mark]
       /\ mark_ring_idx' = (mark_ring_idx + 1) % MarkRingSize
       /\ mark_ring_len' = mark_ring_len + 1

MarkRingPush ==
  IF mark = Unset THEN UNCHANGED ringVars
  ELSE /\ mark_ring' = [mark_ring EXCEPT ![mark_ring_idx] = mark]
       /\ mark_ring_idx' = (mark_ring_idx + 1) % MarkRingSize
       /\ mark_ring_len' = IF mark_ring_len < MarkRingSize THEN mark_ring_len + 1
                                                           ELSE mark_ring_len

Other == UNCHANGED <<kill, kill_history, reverse, register, undo, bufVars>>

(* C-SPC; a second time at the same place it turns the region off.          *)
SetMark ==
  /\ ~prompting
  /\ EndYank /\ Other /\ UNCHANGED point
  /\ IF mark_active /\ mark = point
     THEN mark_active' = FALSE /\ UNCHANGED <<mark, ringVars>>
     ELSE MarkRingPush /\ mark' = point /\ mark_active' = TRUE

(* C-x SPC sets it where there is no region yet, and is no command to       *)
(* processKeypress.                                                         *)
RectangleMark ==
  /\ ~prompting /\ ~mark_active
  /\ MarkRingPush /\ mark' = point /\ mark_active' = TRUE
  /\ UNCHANGED <<killVars, textVars, point>>

(* setMarkSilent, before isearch, M-<, M->, goto-line, jump-to-register.    *)
Jump ==
  /\ ~prompting
  /\ EndYank /\ Other
  /\ MarkRingPush
  /\ mark' = point
  /\ point' \in Position
  /\ UNCHANGED mark_active

(* C-u C-SPC: each slot from the oldest on takes the entry before it, and   *)
(* the oldest the mark.                                                     *)
Slot(i) == (mark_ring_idx + MarkRingSize - mark_ring_len + i) % MarkRingSize

PopMark ==
  /\ ~prompting /\ mark # Unset
  /\ EndYank /\ Other
  /\ point' = mark
  /\ IF mark_ring_len = 0 THEN UNCHANGED <<mark, ringVars>>
     ELSE /\ mark' = mark_ring[Slot(mark_ring_len - 1)]
          /\ mark_ring' = [s \in DOMAIN mark_ring |->
               IF \E i \in 0..(mark_ring_len - 1) : s = Slot(i)
               THEN LET i == CHOOSE i \in 0..(mark_ring_len - 1) : s = Slot(i)
                    IN  IF i = 0 THEN mark ELSE mark_ring[Slot(i - 1)]
               ELSE mark_ring[s]]
          /\ UNCHANGED <<mark_ring_idx, mark_ring_len>>
  /\ mark_active' = FALSE

(* C-x C-x *)
SwapMark ==
  /\ ~prompting /\ mark # Unset
  /\ EndYank /\ Other
  /\ point' = mark /\ mark' = point /\ mark_active' = TRUE
  /\ UNCHANGED ringVars

(* Any other command; in a prompt, those on the minibuffer's marks too.     *)
Move ==
  /\ EndYank /\ Other
  /\ InText(point' \in Position)
  /\ UNCHANGED markVars

-----------------------------------------------------------------------------
Init ==
  /\ kill = NoKill /\ kill_history = <<>> /\ kill_ring_pos = -1
  /\ reverse = FALSE /\ register = NoKill
  /\ undo = <<>> /\ prompting = FALSE /\ below = <<>>
  /\ before = <<>> /\ yanked = FALSE /\ strayed = FALSE
  /\ point \in Position /\ mark = Unset /\ mark_active = FALSE
  /\ mark_ring = [i \in 0..(MarkRingSize - 1) |-> Unset]
  /\ mark_ring_idx = 0 /\ mark_ring_len = 0

Next ==
  \/ \E k \in Kill : KillText(k) \/ CopyText(k)
  \/ \E k \in Kill, i \in BOOLEAN : ToRegister(k, i)
  \/ Yank \/ InsertRegister
  \/ \E newer \in BOOLEAN : YankPop(newer)
  \/ OtherEdit \/ Undo
  \/ EnterPrompt \/ ReplaceMinibufferText \/ PromptInsert \/ LeavePrompt
  \/ SetMark \/ RectangleMark \/ Jump \/ PopMark \/ SwapMark \/ Move

Spec == Init /\ [][Next]_vars

-----------------------------------------------------------------------------
TypeOK ==
  /\ kill \in Kill \cup {NoKill} /\ register \in Kill \cup {NoKill}
  /\ kill_history \in Seq(Kill \ Empty) /\ Len(kill_history) <= HistoryMax
  /\ kill_ring_pos \in Int /\ kill_ring_pos >= -1
  /\ reverse \in BOOLEAN /\ mark_active \in BOOLEAN /\ yanked \in BOOLEAN
  /\ {undo, below, before} \subseteq Seq(Kill \cup {Edit})
  /\ prompting \in BOOLEAN /\ strayed \in BOOLEAN
  /\ point \in Position /\ mark \in Position \cup {Unset}
  /\ mark_ring \in [0..(MarkRingSize - 1) -> Position \cup {Unset}]
  /\ mark_ring_idx \in 0..(MarkRingSize - 1) /\ mark_ring_len \in 0..MarkRingSize

(* yank-pop takes back what the yank before it inserted and nothing else,   *)
(* through registers, prompts and other commands: the step it undoes is     *)
(* that yank's.  What the prompt loop does by itself in between is the      *)
(* exception (strayed).                                                     *)
Popping == \E newer \in BOOLEAN : YankPop(newer)

YankPopReplacesYank ==
  [][Popping /\ yanked /\ ~strayed => Front(undo) = before /\ Front(undo') = before]_vars

(* Without any exception: what yank-pop takes back is what a yank inserted, *)
(* no other edit.  region.c yankPop has the kill ring's position mean "the  *)
(* preceding user-level command was a yank or yank-pop".                    *)
YankPopTakesNoEdit == [][Popping => Last(undo) # Edit]_vars

(* Going round the ring, in either direction, comes to every kill (emil.1:  *)
(* "Successive yanks can cycle through previous kills").                    *)
CyclesThroughAll ==
  \A newer \in BOOLEAN :
    LET n == Len(kill_history)
        At[i \in 0..n] == IF i = 0 THEN kill_ring_pos ELSE NextPos(At[i - 1], newer)
    IN  kill_history # <<>> /\ kill_ring_pos # -1 => { At[i] : i \in 0..n } = 0..(n - 1)

(* The circular mark ring is the ring of the last marks.                    *)
Marks == INSTANCE MarkRotation WITH
           Limit <- MarkRingSize,
           ring  <- [i \in 1..mark_ring_len |-> mark_ring[Slot(i - 1)]]

ImplementsMarkRotation == Marks!Spec
=============================================================================
