----------------------------- MODULE Workspace -----------------------------
(***************************************************************************)
(* The buffer list, the windows, and who is current (buffer.c, window.c,   *)
(* switchToFile and revert in fileio.c, register.c, ctags.c, and what      *)
(* prompt.c, completion.c, palette.c and pipe.c do to them).               *)
(*                                                                         *)
(* A buffer is its address: one that has been freed is given to the next   *)
(* newBuffer.  What buffers hold is UndoLog's and FileSave's.  Commands    *)
(* that set E.buf are given outside of prompts only; the README says what  *)
(* they do inside one.                                                     *)
(***************************************************************************)
EXTENDS Naturals, Sequences, SequencesExt, FiniteSetsExt

CONSTANTS
  Address, Minibuf, Nil,       (* Where buffers are; E.minibuf; NULL.       *)
  File,                        (* The names of files;                       *)
  NoName, Scratch,             (* of the first buffer and of its successors;*)
  Completions, Preview, Palette,  (* of the popups                          *)
  Output, Shell,               (* and of the buffers that stay.             *)
  MaxWindows, JumpLimit        (* Windows a user makes; CTAGS_STACK_SIZE.   *)

Popup   == {Completions, Preview, Palette}
Special == Popup \cup {Scratch, Output, Shell}
Name    == File \cup Special \cup {NoName}

ASSUME AddressAssumption == {Minibuf, Nil} \cap Address = {} /\ Minibuf # Nil
ASSUME OriginAssumption  == Nil \notin [origin : Address \cup {Minibuf}, win : Nat]
(* No file has the name of a buffer of emil's own. *)
ASSUME NameAssumption ==
  /\ File \cap (Special \cup {NoName}) = {} /\ NoName \notin Special
  /\ {Scratch, Output, Shell} \cap Popup = {}
  /\ Completions # Preview /\ Completions # Palette /\ Preview # Palette
ASSUME LimitAssumption   == MaxWindows \in Nat \ {0} /\ JumpLimit \in Nat \ {0}

VARIABLES
  ws,        (* E: the list from headbuf and the filename of each buffer,   *)
             (* the windows, the focused flags, E.buf, E.lastVisitedBuffer  *)
  dirty,     (* the addresses of modified buffers                           *)
  edbuf,     (* E.edbuf of the prompt that is open, or Nil                  *)
  viewing,   (* whether view-register has its preview on show               *)
  palette,   (* where the palette was opened from, or Nil                   *)
  register,  (* the buffer a point register names, or Nil                   *)
  jstack,    (* the names the tag stack goes back to                        *)
  agreed     (* history: in the last step the user agreed to drop edits     *)

vars == <<ws, dirty, edbuf, viewing, palette, register, jstack, agreed>>

-----------------------------------------------------------------------------
(* Windows *)

Live(s)     == ToSet(s.list)
Free        == Address \ Live(ws)
NWindows(s) == Len(s.windows)

(* windowFocusedIdx *)
FocusedIdx(s) == IF s.focused = {} THEN 1 ELSE Min(s.focused)

Windows(s, b) == { i \in DOMAIN s.windows : s.windows[i] = b }

(* What previous-buffer and the others show in the focused windows.         *)
ShowFocused(s, b) ==
  [s EXCEPT !.buf = b,
            !.windows = [i \in DOMAIN @ |-> IF i \in s.focused THEN b ELSE @[i]]]

(* find-file and shell output show it in the first of them. *)
ShowCurrent(s, b) == [s EXCEPT !.buf = b, !.windows[FocusedIdx(s)] = b]

SwitchWindow(s) ==
  IF NWindows(s) = 1 THEN s
  ELSE LET i == FocusedIdx(s)
           j == (i % NWindows(s)) + 1
       IN  [s EXCEPT !.focused = (@ \ {i}) \cup {j}, !.buf = s.windows[j]]

CreateWindow(s) == [s EXCEPT !.windows = Append(@, s.buf)]

(* The focus leaves a window before it goes.  (Fault: it does not.)         *)
WithoutWindow(s, i) ==
  [s EXCEPT !.windows = RemoveAt(@, i),
            !.focused = { IF j > i THEN j - 1 ELSE j : j \in @ \ {i} }]

DestroyWindow_FocusKept(s, i) == IF NWindows(s) = 1 THEN s ELSE WithoutWindow(s, i)

DestroyWindow(s, i) ==
  IF NWindows(s) = 1 THEN s
  ELSE WithoutWindow(IF i = FocusedIdx(s) THEN SwitchWindow(s) ELSE s, i)

DestroyOtherWindows(s) ==
  IF NWindows(s) = 1 THEN s
  ELSE LET b == s.windows[FocusedIdx(s)]
       IN  [s EXCEPT !.windows = <<b>>, !.focused = {1}, !.buf = b]

(* showPopupBuffer: a new window takes the focus to the first one. *)
ShowPopup(s, b) ==
  IF Windows(s, b) # {} THEN s
  ELSE [s EXCEPT !.windows = Append(@, b), !.focused = {1}]

-----------------------------------------------------------------------------
(* Buffers *)

Named(s, n)    == { b \in Live(s) : s.name[b] = n }
IndexOf(s, b)    == CHOOSE i \in DOMAIN s.list : s.list[i] = b
NextInList(s, b) == LET i == IndexOf(s, b)
                    IN  IF i = Len(s.list) THEN Nil ELSE s.list[i + 1]
PrevInList(s, b) == LET i == IndexOf(s, b) IN  IF i = 1 THEN Nil ELSE s.list[i - 1]

(* destroyBuffer, once b has been unlinked. *)
Destroy(s, b) ==
  [s EXCEPT !.list = RemoveAt(@, IndexOf(s, b)), !.name[b] = Nil,
            !.last = IF @ = b THEN Nil ELSE @]

(* closeSpecialBuffer: with one window only, the buffer goes all the same.  *)
CloseSpecial(s, n) ==
  IF Named(s, n) = {} THEN s
  ELSE LET b  == CHOOSE b \in Named(s, n) : TRUE
           w  == IF Windows(s, b) = {} THEN s ELSE DestroyWindow(s, Min(Windows(s, b)))
           d  == Destroy(w, b)
       IN  IF w.buf = b
           THEN [d EXCEPT !.buf = IF NextInList(s, b) # Nil THEN NextInList(s, b)
                                  ELSE IF d.list # <<>> THEN d.list[1] ELSE Nil]
           ELSE d

(* newBuffer at a free address, put at the head of the list: the states it  *)
(* can lead to, with where the buffer is in them.                           *)
WithNew(s, n) ==
  { <<[s EXCEPT !.list = <<b>> \o @, !.name[b] = n], b>> : b \in Address \ Live(s) }

(* findBufferByName, findOrCreateSpecialBuffer: the same.                   *)
WithNamed(s, n) ==
  IF Named(s, n) # {} THEN {s} \X Named(s, n) ELSE WithNew(s, n)

Popped(s, n) == { ShowPopup(r[1], r[2]) : r \in WithNamed(s, n) }

(* Shell output and diffs go where they are on show, or to the current      *)
(* window.                                                                  *)
Route(s, b) ==
  IF Windows(s, b) = {} THEN ShowCurrent(s, b)
  ELSE LET e == Min(Windows(s, b))
           i == FocusedIdx(s)
       IN  [s EXCEPT !.buf = b, !.focused = IF e = i THEN @ ELSE (@ \ {i}) \cup {e}]

(* switchToFile: the buffer that has the file, or a new one if it opens. *)
SwitchToFile(s, n) ==
  { ShowCurrent(r[1], r[2]) : r \in WithNamed(s, n) } \cup IF Named(s, n) = {} THEN {s} ELSE {}

-----------------------------------------------------------------------------
(* Commands *)

Command == edbuf = Nil /\ ~viewing /\ palette = Nil
Modal   == UNCHANGED <<edbuf, viewing, palette>>
Quiet   == Modal /\ agreed' = FALSE
Rest    == UNCHANGED <<register, jstack>>

Edit ==
  /\ Command /\ Quiet /\ Rest
  /\ ws.name[ws.buf] \notin Special
  /\ dirty' = dirty \cup {ws.buf}
  /\ UNCHANGED ws

Save ==
  /\ Command /\ Quiet /\ Rest
  /\ ws.buf \in dirty
  /\ dirty' = dirty \ {ws.buf}
  /\ ws' \in IF ws.name[ws.buf] # NoName THEN {ws}
             ELSE { [ws EXCEPT !.name[ws.buf] = f] : f \in File }

WindowCommand ==
  /\ Command /\ Quiet /\ Rest
  /\ ws' \in {SwitchWindow(ws), DestroyWindow(ws, FocusedIdx(ws)), DestroyOtherWindows(ws)}
             \cup IF NWindows(ws) < MaxWindows THEN {CreateWindow(ws)} ELSE {}
  /\ UNCHANGED dirty

PreviousBuffer ==
  /\ Command /\ Quiet /\ Rest
  /\ ws' = ShowFocused(ws, IF NextInList(ws, ws.buf) = Nil THEN ws.list[1]
                                                           ELSE NextInList(ws, ws.buf))
  /\ UNCHANGED dirty

NextBuffer ==
  /\ Command /\ Quiet /\ Rest
  /\ ws' = ShowFocused(ws, IF ws.buf = ws.list[1] THEN Last(ws.list)
                                                  ELSE PrevInList(ws, ws.buf))
  /\ UNCHANGED dirty

(* killBufferNeedsConfirm *)
NeedsConfirm(b) == b \in dirty /\ ws.name[b] # NoName /\ ws.name[b] \notin Special

(* killBuffer: every window that shows it shows its successor, or the head  *)
(* of the list, or a new scratch buffer.  (Fault: only the current one.)    *)
Kill_OneWindow(s, scratch) ==
  LET b    == s.buf
      next == NextInList(s, b)
      to   == IF scratch # Nil THEN scratch ELSE IF next # Nil THEN next ELSE s.list[1]
  IN  Destroy(ShowCurrent(s, to), b)

Kill(s, scratch) ==
  LET b    == s.buf
      next == NextInList(s, b)
      to   == IF scratch # Nil THEN scratch ELSE IF next # Nil THEN next ELSE s.list[1]
      w    == [s EXCEPT !.windows = [i \in DOMAIN @ |-> IF @[i] = b THEN to ELSE @[i]],
                        !.buf = IF Windows(s, b) # {} THEN to ELSE @]
      d    == Destroy(w, b)
  IN  [d EXCEPT !.buf = IF @ = b THEN (IF next # Nil THEN next ELSE PrevInList(s, b)) ELSE @]

(* (Fault: it never asks.) *)
KillBuffer_Unasked ==
  /\ Command /\ Modal /\ Rest
  /\ agreed' = FALSE
  /\ dirty' = dirty \ {ws.buf}
  /\ ws' \in IF Len(ws.list) > 1 THEN {Kill(ws, Nil)}
             ELSE { Kill(r[1], r[2]) : r \in WithNew(ws, Scratch) }

KillBuffer ==
  /\ Command /\ Modal /\ Rest
  /\ agreed' = NeedsConfirm(ws.buf)
  /\ dirty' = dirty \ {ws.buf}
  /\ ws' \in IF Len(ws.list) > 1 THEN {Kill(ws, Nil)}
             ELSE { Kill(r[1], r[2]) : r \in WithNew(ws, Scratch) }

(* C-x r SPC, C-x r j: bufferAlive looks for the address in the list. *)
PointToRegister ==
  /\ Command /\ Quiet
  /\ register' = ws.buf
  /\ UNCHANGED <<ws, dirty, jstack>>

JumpToRegister ==
  /\ Command /\ Quiet
  /\ register # Nil
  /\ IF register \notin Live(ws) THEN register' = Nil /\ UNCHANGED ws
     ELSE /\ UNCHANGED register
          /\ ws' = IF ws.buf = register THEN ws ELSE ShowFocused(ws, register)
  /\ UNCHANGED <<dirty, jstack>>

(* ctagsJump, toggleHeaderBody: the place left is remembered by its name,   *)
(* the oldest goes.  (Fault: it stays.)                                     *)
PushLocation_Unbounded(stack, fn) == Append(stack, fn)

PushLocation(stack, fn) ==
  Append(IF Len(stack) = JumpLimit THEN Tail(stack) ELSE stack, fn)

CtagsJump ==
  /\ Command /\ Quiet /\ UNCHANGED <<dirty, register>>
  /\ jstack' = PushLocation(jstack, IF ws.name[ws.buf] = NoName THEN Scratch
                                    ELSE ws.name[ws.buf])
  /\ \E f \in File : ws' \in SwitchToFile(ws, f)

CtagsBack ==
  /\ Command /\ Quiet /\ UNCHANGED <<dirty, register>>
  /\ jstack # <<>> /\ jstack' = Front(jstack)
  /\ ws' \in SwitchToFile(ws, Last(jstack))

-----------------------------------------------------------------------------
(* Prompts *)

OpenPrompt ==
  /\ Command
  /\ edbuf' = ws.buf /\ ws' = [ws EXCEPT !.buf = Minibuf]
  /\ agreed' = FALSE
  /\ UNCHANGED <<dirty, viewing, palette>> /\ Rest

InPrompt == edbuf # Nil /\ palette = Nil

(* TAB, again and again. *)
ShowCompletions ==
  /\ InPrompt /\ Quiet /\ Rest
  /\ ws' \in Popped(ws, Completions)
  /\ UNCHANGED dirty

CloseCompletions ==
  /\ InPrompt /\ Quiet /\ Rest
  /\ ws' = CloseSpecial(ws, Completions)
  /\ UNCHANGED dirty

(* The prompt returns, and the command that opened it goes on: ...          *)
Returned == [CloseSpecial(ws, Completions) EXCEPT !.buf = edbuf]

Return ==
  /\ InPrompt
  /\ edbuf' = Nil /\ UNCHANGED <<viewing, palette>> /\ Rest

Cancel == Return /\ ws' = Returned /\ agreed' = FALSE /\ UNCHANGED dirty

FindFile == Return /\ agreed' = FALSE /\ UNCHANGED dirty
              /\ \E f \in File : ws' \in SwitchToFile(Returned, f)

(* switchToNamedBuffer *)
SwitchBuffer ==
  /\ Return /\ agreed' = FALSE /\ UNCHANGED dirty
  /\ \E b \in Live(Returned) \ {edbuf} :
       ws' = [ShowFocused(Returned, b) EXCEPT !.last = edbuf]

(* pipeCmd, diffBufferWithFile *)
ShellOutput ==
  /\ Return /\ agreed' = FALSE /\ UNCHANGED dirty
  /\ \E r \in WithNamed(Returned, Shell) : ws' = Route(r[1], r[2])

(* revert: a new buffer takes the place of the old one, if the file opens;  *)
(* nothing is asked about the edits of the old one.                         *)
Revert ==
  /\ Return
  /\ ws.name[edbuf] \in File
  /\ \E b \in Address \ Live(Returned) :
       LET put(c) == IF c = edbuf THEN b ELSE c
           s      == Returned
       IN  ws' = [s EXCEPT !.list = [i \in DOMAIN @ |-> put(@[i])],
                              !.windows = [i \in DOMAIN @ |-> put(@[i])],
                              !.name[b] = s.name[edbuf], !.name[edbuf] = Nil,
                              !.buf = b, !.last = IF @ = edbuf THEN Nil ELSE @]
  /\ dirty' = dirty \ {edbuf}
  /\ agreed' = FALSE

-----------------------------------------------------------------------------
(* Popups of their own *)

(* viewRegister, until a name is typed ... *)
ShowRegisterPreview ==
  /\ Command
  /\ ws' \in Popped(ws, Preview)
  /\ viewing' = TRUE /\ agreed' = FALSE
  /\ UNCHANGED <<dirty, edbuf, palette>> /\ Rest

(* ... or C-g. *)
ShowRegisterOutput ==
  /\ viewing /\ viewing' = FALSE /\ agreed' = FALSE
  /\ LET s == CloseSpecial(ws, Preview)
     IN  ws' \in {s} \cup { t \in Popped(s, Output) : NWindows(t) <= MaxWindows }
  /\ UNCHANGED <<dirty, edbuf, palette>> /\ Rest

(* expandPalette, from a buffer or from a prompt: its window is focused.    *)
ExpandPalette ==
  /\ palette = Nil /\ ~viewing
  /\ LET origin_win == FocusedIdx(ws)
     IN  /\ \E r \in WithNamed(ws, Palette) :
              LET p == ShowPopup(r[1], r[2])
                  w == Min(Windows(p, r[2]))
              IN  ws' = [p EXCEPT !.focused = (@ \ {origin_win}) \cup {w}, !.buf = r[2]]
         /\ palette' = [origin |-> ws.buf, win |-> origin_win]
  /\ agreed' = FALSE
  /\ UNCHANGED <<dirty, edbuf, viewing>> /\ Rest

(* restoreFocusTo, after a symbol or C-g. *)
RestoreFocus(s, origin, origin_win) ==
  LET target == IF Windows(s, origin) # {} THEN Min(Windows(s, origin))
                ELSE IF origin_win <= NWindows(s) THEN origin_win ELSE 1
  IN  [s EXCEPT !.focused = {target}, !.buf = origin]

ClosePalette ==
  /\ palette # Nil
  /\ ws' = RestoreFocus(CloseSpecial(ws, Palette), palette.origin, palette.win)
  /\ palette' = Nil
  /\ dirty' \in IF palette.origin = Minibuf \/ ws.name[palette.origin] \in Special THEN {dirty}
                ELSE {dirty, dirty \cup {palette.origin}}
  /\ agreed' = FALSE
  /\ UNCHANGED <<edbuf, viewing>> /\ Rest

-----------------------------------------------------------------------------
(* main: the nameless first buffer and a file named on the command line.    *)
Init ==
  /\ \E a, b \in Address, f \in File :
       /\ a # b
       /\ ws = [list |-> <<b, a>>, windows |-> <<b>>, focused |-> {1}, buf |-> b, last |-> Nil,
                name |-> [c \in Address |-> IF c = b THEN f ELSE IF c = a THEN NoName ELSE Nil]]
  /\ dirty = {}
  /\ edbuf = Nil /\ viewing = FALSE /\ palette = Nil
  /\ register = Nil /\ jstack = <<>> /\ agreed = FALSE

Next ==
  \/ Edit \/ Save \/ WindowCommand \/ PreviousBuffer \/ NextBuffer \/ KillBuffer
  \/ PointToRegister \/ JumpToRegister \/ CtagsJump \/ CtagsBack
  \/ OpenPrompt \/ ShowCompletions \/ CloseCompletions
  \/ Cancel \/ FindFile \/ SwitchBuffer \/ ShellOutput \/ Revert
  \/ ShowRegisterPreview \/ ShowRegisterOutput \/ ExpandPalette \/ ClosePalette

Spec == Init /\ [][Next]_vars

-----------------------------------------------------------------------------
State ==
  [list : Seq(Address), windows : Seq(Address), focused : SUBSET (Nat \ {0}),
   buf : Address \cup {Minibuf, Nil}, last : Address \cup {Nil},
   name : [Address -> Name \cup {Nil}]]

TypeOK ==
  /\ ws \in State /\ dirty \subseteq Live(ws)
  /\ edbuf \in Address \cup {Nil} /\ viewing \in BOOLEAN
  /\ palette \in [origin : Address \cup {Minibuf}, win : Nat] \cup {Nil}
  /\ register \in Address \cup {Nil} /\ jstack \in Seq(Name) /\ Len(jstack) <= JumpLimit
  /\ agreed \in BOOLEAN

(* No freed buffer is referred to: whatever is killed, reverted, popped up  *)
(* and closed, the current buffer, the one under a prompt or a palette, the *)
(* last one visited and the buffer of every window are in the list, once.   *)
ReferencesLive ==
  /\ ws.list # <<>> /\ IsInjective(ws.list)
  /\ ToSet(ws.windows) \subseteq Live(ws)
  /\ ws.buf \in Live(ws) \cup (IF edbuf # Nil THEN {Minibuf} ELSE {})
  /\ {ws.last, edbuf} \subseteq Live(ws) \cup {Nil}
  /\ palette # Nil => palette.origin \in Live(ws) \cup {Minibuf}

(* Between commands one window has the focus, the buffer that takes the     *)
(* typing is on the screen, and no popup of a command that has ended is.    *)
(* The focused window shows that buffer, unless it is the first: there a    *)
(* popup puts the focus, and closing the popup does not take it back.       *)
ScreenRestored ==
  Command => /\ \E i \in DOMAIN ws.windows :
                  ws.focused = {i} /\ (i # 1 => ws.windows[i] = ws.buf)
             /\ ws.buf \in ToSet(ws.windows)
             /\ \A b \in Live(ws) : ws.name[b] \notin Popup

(* A modified buffer that visits a file leaves the list only when it is the *)
(* current one and the user said yes to kill-buffer, or when revert, which  *)
(* does not ask, puts a buffer of the same file in its place: no popup, tag *)
(* jump, prompt or kill of another buffer drops one.                        *)
NoEditsDropped ==
  [][\A b \in dirty : ws.name[b] \in File /\ b \notin Live(ws)' =>
       \/ agreed' /\ b = ws.buf
       \/ Revert /\ b = edbuf]_vars
=============================================================================
