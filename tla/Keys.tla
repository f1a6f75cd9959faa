-------------------------------- MODULE Keys --------------------------------
(***************************************************************************)
(* From bytes to commands, and keyboard macros (decoder.c, readKey and its *)
(* byte sources in terminal.c, resolveBinding, processKeypress and         *)
(* execMacro in keymap.c, the loops of main.c and prompt.c that read keys).*)
(*                                                                         *)
(* Whoever reads keys is a frame of the call stack: the main loop, a       *)
(* prompt, a macro being played, a command that asks for one more key.     *)
(* The terminal sends a keystroke as bytes that can arrive far apart;      *)
(* while one is waited for a signal can come instead.                      *)
(***************************************************************************)
EXTENDS Naturals, Sequences, SequencesExt, FiniteSetsExt

CONSTANTS Keystroke,          (* What the user types, of the domain of Bytes *)
          MaxKeys, MaxReps    (* Keys of a macro; C-u n C-x e.               *)

(* What the terminal sends.  A key of one byte is that byte.                *)
Sequence ==
  [ Esc |-> <<"Esc">>,  Up |-> <<"Esc", "[", "A">>,   Up2 |-> <<"Esc", "O", "A">>,
    Home |-> <<"Esc", "[", "1", "~">>, F5 |-> <<"Esc", "[", "1", "5", "~">>,
    Zap |-> <<"Esc", "z">>,
    Uni |-> <<"lead", "cont">>,                       AltUni |-> <<"Esc", "lead", "cont">> ]
Letter == {"a", "(", ")", "e", "x", "r"}
Printable == Letter \cup {"[", "O", "A", "1", "5", "~", "z"}
Control == {"C-x", "C-q", "C-s", "C-g", "Ret"}

Bytes(k) == IF k \in DOMAIN Sequence THEN Sequence[k] ELSE <<k>>

(* What readKey returns: also the bare ESC token, Meta with a character     *)
(* that is bound to nothing, KEY_UNICODE_ERROR, and -1.                     *)
Key == Printable \cup Control \cup {"Up", "Home", "Zap", "Uni", "Bare", "Meta", "UniErr", "cont"}
Fail == "-1"

ASSUME KeystrokeAssumption == Keystroke \subseteq Letter \cup Control \cup DOMAIN Sequence
ASSUME BoundAssumption     == MaxKeys \in Nat \ {0} /\ MaxReps \in Nat \ {0}

VARIABLES
  tty,   (* the bytes of the keystroke still to come, where the decoder     *)
         (* is, and whether it was cut short                                *)
  e,     (* E: who reads keys, resolveBinding's prefix, E.recording,        *)
         (* E.macro.keys, E.playback and the repetitions execMacro has left *)
  h      (* history: the commands recorded and replayed, and whether all    *)
         (* that was read while recording is in the macro                   *)

vars == <<tty, e, h>>

Reader == Last(e.stack)

-----------------------------------------------------------------------------
(* The decoder: the state after a byte, or the key that is complete.        *)

Partial(d)  == [state |-> d, key |-> Fail]
Complete(k) == [state |-> "ground", key |-> k]

(* readKey, decodeEscapeSequence, decodeSS3 and decodeCSI: an unknown       *)
(* sequence is read to its last byte.                                       *)
Decode(d, b) ==
  CASE d = "ground"         -> (CASE b = "Esc"        -> Partial("esc")
                                  [] b = "lead"       -> Partial("utf8")
                                  [] OTHER            -> Complete(b))
    [] d = "utf8"           -> Complete(IF b = "cont" THEN "Uni" ELSE "UniErr")
    [] d = "esc"            -> (CASE b = "Esc"        -> Partial("esc")
                                  [] b = "["          -> Partial("csi")
                                  [] b = "O"          -> Partial("ss3")
                                  [] b = "z"          -> Complete("Zap")
                                  [] OTHER            -> Complete("Meta"))
    [] d = "ss3"            -> Complete(IF b = "A" THEN "Up" ELSE "Bare")
    [] d = "csi"            -> (CASE b = "A"          -> Complete("Up")
                                  [] b \in {"1", "5"} -> Partial("csi 1")
                                  [] OTHER            -> Complete("Bare"))
    [] d \in {"csi 1", "csi n"} ->
         (CASE b \in {"1", "5"}       -> Partial("csi n")
            [] b = "~" /\ d = "csi 1" -> Complete("Home")
            [] OTHER                  -> Complete("Bare"))

-----------------------------------------------------------------------------
(* Commands *)

Push(s, r) == [s EXCEPT !.stack = Append(@, r)]
Pop(s)     == [s EXCEPT !.stack = Front(@)]

(* E.buf == E.minibuf *)
InPrompt(s) == "prompt" \in ToSet(s.stack)
Playing(s)  == "macro" \in ToSet(s.stack)

(* recordKey; a character follows KEY_UNICODE as its bytes. *)
Entries(k) == IF k = "Uni" THEN <<"Uni", "bytes">> ELSE <<k>>

Record(s, k) == IF s.recording THEN [s EXCEPT !.macro = @ \o Entries(k)] ELSE s

(* dispatchMacro.  (Fault: C-x ( while a macro plays.) *)
BeginMacro_Anytime(s) ==
  IF s.recording THEN s ELSE [s EXCEPT !.recording = TRUE, !.macro = <<>>]

BeginMacro(s) ==
  IF s.playback # 0 \/ s.recording THEN s
  ELSE [s EXCEPT !.recording = TRUE, !.macro = <<>>]

EndMacro(s) == IF s.playback # 0 THEN s ELSE [s EXCEPT !.recording = FALSE]

ExecMacro(s, n) ==
  IF s.recording \/ s.playback # 0 \/ s.macro = <<>> THEN s
  ELSE [Push(s, "macro") EXCEPT !.reps = n]

(* What a key does after C-x, and what it does by itself.  A command that   *)
(* reads a key is a frame; editorPrompt refuses a second prompt.  C-x r and *)
(* the letter after it, which resolveBinding takes from the main loop too,  *)
(* are one key here.                                                        *)
CtrlX(s, k, n) ==
  LET t == [s EXCEPT !.prefix = FALSE]
  IN  CASE k = "(" -> BeginMacro(t) [] k = ")" -> EndMacro(t) [] k = "e" -> ExecMacro(t, n)
        [] k = "x" -> Push(t, "C-x x") [] k = "r" -> Push(t, "register")
        [] OTHER   -> t

Command(s, k, n) ==
  IF s.prefix THEN CtrlX(s, k, n)
  ELSE CASE k = "C-x" -> [s EXCEPT !.prefix = TRUE]
         [] k = "Zap" -> Push(s, "zap")
         [] k = "C-q" -> Push(s, "quoted")
         [] k = "C-s" -> IF InPrompt(s) THEN s ELSE Push(s, "prompt")
         [] OTHER     -> s

(* The key after C-x x, recorded where it is read.  (Fault: it is not.)     *)
SubKey_Unrecorded(s, k) == Pop(s)

SubKey(s, k) == Pop(IF k = Fail THEN s ELSE Record(s, k))

RegisterName == Printable \cup Control \cup {"Bare"}

(* The reader gets k, or -1: main and the prompt try again, the prompt      *)
(* takes some keys for itself whatever the prefix, getRegisterName goes on  *)
(* until it has a character, zapToChar does not record what it read.        *)
Deliver(s, k, n) ==
  CASE Reader = "main"     -> IF k = Fail THEN s ELSE Command(Record(s, k), k, n)
    [] Reader = "prompt"   -> IF k = Fail THEN s
                              ELSE IF k \in {"Ret", "C-g"} THEN Pop(Record(s, k))
                              ELSE IF k = "C-s" THEN Record(s, k)
                              ELSE Command(Record(s, k), k, n)
    [] Reader = "zap"      -> Pop(s)
    [] Reader = "quoted"   -> Pop(Record(s, k))
    [] Reader = "C-x x"    -> SubKey(s, k)
    [] Reader = "register" -> IF k \in RegisterName THEN Pop(Record(s, k)) ELSE s

(* What the history keeps of it: the key, and who acted on it.              *)
Where == IF Reader = "macro" THEN (IF InPrompt(e) THEN "prompt" ELSE "main") ELSE Reader

Log(k) ==
  LET entry  == <<Where, k>>
      begun  == ~e.recording /\ e'.recording
      add(l) == IF \/ k = Fail /\ Reader \in {"main", "prompt"}
                   \/ k \notin RegisterName /\ Reader = "register"
                THEN l ELSE Append(l, entry)
  IN  h' = [ did    |-> IF begun THEN <<>> ELSE IF e.recording THEN add(h.did) ELSE h.did,
             redone |-> IF Playing(e') /\ ~Playing(e) THEN <<>>
                        ELSE IF Playing(e) THEN add(h.redone) ELSE h.redone,
             missed |-> IF begun THEN e'.stack # <<"main">>
                        ELSE \/ h.missed
                             \/ /\ e.recording
                                /\ \/ Reader = "zap"
                                   \/ Reader = "C-x x" /\ k = Fail
                                   \/ ~e'.recording /\ e.stack # <<"main">> ]

-----------------------------------------------------------------------------
(* Keys from the terminal *)

AtTerminal == Reader # "macro" /\ e.playback = 0

Got(k) == (\E n \in 1..MaxReps : e' = Deliver(e, k, n)) /\ Log(k)

(* A byte is read: of the keystroke under way, of what was left of one, or  *)
(* the first of the next.                                                   *)
ReadByte(b, rest, cut) ==
  LET d == Decode(tty.state, b)
  IN  /\ tty' = [state |-> d.state, rest |-> rest,
                 cut |-> cut \/ (tty.state = "esc" /\ b = "lead")]
      /\ IF d.state = "ground" THEN Got(d.key) ELSE UNCHANGED <<e, h>>

Type(k) ==
  /\ AtTerminal /\ tty.rest = <<>>
  /\ Len(e.macro) < MaxKeys \/ ~e.recording
  /\ ReadByte(Head(Bytes(k)), Tail(Bytes(k)), FALSE)

Arrive ==
  /\ AtTerminal /\ tty.rest # <<>>
  /\ ReadByte(Head(tty.rest), Tail(tty.rest), tty.cut)

(* A signal while a byte is waited for: nothing read yet is -1, after a     *)
(* lone ESC it is the bare token; a sequence under way is never given up.   *)
(* (Fault: one under way is.)                                               *)
Signal_Abandons ==
  /\ AtTerminal
  /\ tty' = [tty EXCEPT !.state = "ground"]
  /\ Got(IF tty.state = "ground" THEN Fail ELSE "Bare")

Signal ==
  /\ AtTerminal
  /\ \/ tty.state = "ground" /\ Got(Fail) /\ UNCHANGED tty
     \/ tty.state = "esc" /\ Got("Bare") /\ tty' = [tty EXCEPT !.state = "ground", !.cut = TRUE]

-----------------------------------------------------------------------------
(* Keys from the macro *)

(* deserializeUnicode takes the bytes after KEY_UNICODE. *)
After(i) == i + Len(Entries(e.macro[i + 1]))

(* execMacro: the next key, ... *)
PlayKey ==
  /\ Reader = "macro" /\ e.playback < Len(e.macro)
  /\ LET k == e.macro[e.playback + 1]
     IN  /\ e' = Command([e EXCEPT !.playback = After(@)], k, 1)
         /\ Log(k)
  /\ UNCHANGED tty

(* ... and the end, once for each repetition.  (Fault: E.playback is not    *)
(* cleared after the last.)                                                 *)
PlayEnd_NotCleared ==
  /\ Reader = "macro" /\ e.playback >= Len(e.macro)
  /\ e' = IF e.reps > 1 THEN [e EXCEPT !.playback = 0, !.reps = @ - 1]
          ELSE [Pop(e) EXCEPT !.reps = 0]
  /\ h' = [h EXCEPT !.redone = <<>>]
  /\ UNCHANGED tty

PlayEnd ==
  /\ Reader = "macro" /\ e.playback >= Len(e.macro)
  /\ e' = IF e.reps > 1 THEN [e EXCEPT !.playback = 0, !.reps = @ - 1]
          ELSE [Pop(e) EXCEPT !.playback = 0, !.reps = 0]
  /\ h' = [h EXCEPT !.redone = <<>>]
  /\ UNCHANGED tty

(* readKey while a macro plays: past its end there is no key.  (Fault: the  *)
(* end is not looked at.)                                                   *)
ReadMacro_PastEnd ==
  /\ Reader # "macro" /\ e.playback # 0
  /\ LET k == IF e.playback >= Len(e.macro) THEN "Bare" ELSE e.macro[e.playback + 1]
     IN  /\ e' = Deliver([e EXCEPT !.playback = @ + 1], k, 1)
         /\ Log(k)
  /\ UNCHANGED tty

ReadMacro ==
  /\ Reader # "macro" /\ e.playback # 0
  /\ IF e.playback >= Len(e.macro) THEN e' = Deliver(e, Fail, 1) /\ Log(Fail)
     ELSE LET k == e.macro[e.playback + 1]
          IN  e' = Deliver([e EXCEPT !.playback = After(@)], k, 1) /\ Log(k)
  /\ UNCHANGED tty

Play == PlayKey \/ PlayEnd \/ ReadMacro

-----------------------------------------------------------------------------
Init ==
  /\ tty = [state |-> "ground", rest |-> <<>>, cut |-> FALSE]
  /\ e = [stack |-> <<"main">>, prefix |-> FALSE, recording |-> FALSE,
          macro |-> <<>>, playback |-> 0, reps |-> 0]
  /\ h = [did |-> <<>>, redone |-> <<>>, missed |-> FALSE]

Next == (\E k \in Keystroke : Type(k)) \/ Arrive \/ Signal \/ Play

(* What a macro does needs nothing from outside. *)
Fairness == WF_vars(Play)

Spec == Init /\ [][Next]_vars /\ Fairness

-----------------------------------------------------------------------------
State ==
  [stack : Seq({"main", "prompt", "macro", "zap", "quoted", "C-x x", "register"}),
   prefix : BOOLEAN, recording : BOOLEAN, macro : Seq(Key \cup {Fail, "bytes"}),
   playback : Nat, reps : 0..MaxReps]

(* Nothing is read past the end of the macro, nor the bytes of a character  *)
(* as keys.                                                                 *)
TypeOK ==
  /\ e \in State /\ e.stack # <<>> /\ e.stack[1] = "main"
  /\ e.playback <= Len(e.macro)
  /\ \A i \in DOMAIN e.macro : e.macro[i] = "bytes" => i > 1 /\ e.macro[i - 1] = "Uni"
  /\ e.playback \in 1..Len(e.macro) - 1 => e.macro[e.playback + 1] # "bytes"
  /\ tty.state \in {"ground", "esc", "csi", "csi 1", "csi n", "ss3", "utf8"}

(* The bytes of a keystroke are used up exactly when its key is returned,   *)
(* whenever they arrive and whatever signals come between: none is left to  *)
(* be read as text, and no later keystroke is swallowed.  Not so when a     *)
(* signal came after the first byte, or ESC was before a character of more  *)
(* than one byte.                                                           *)
KeystrokeWhole ==
  ~tty.cut => (tty.state = "ground" <=> tty.rest = <<>> /\ tty.state # "esc")

(* A macro that is played is neither recorded over nor started again from   *)
(* within, at any depth of prompts and commands that read keys.             *)
PlaybackUndisturbed ==
  [][Playing(e) => /\ e'.macro = e.macro /\ ~e'.recording
                   /\ Quantify(DOMAIN e'.stack, LAMBDA i : e'.stack[i] = "macro") <= 1]_vars

(* Played from where it was recorded, a macro does what was done then: each *)
(* key goes to the same reader, in prompts and after commands that read     *)
(* one, whatever signals came while it was recorded.  Not so when the       *)
(* recording missed a key (zap-to-char, a signal after C-x x) or began or   *)
(* ended in a prompt.                                                       *)
ReplayFaithful ==
  Playing(e) /\ e.stack[2] = "macro" /\ ~h.missed =>
    /\ IsPrefix(h.redone, h.did)
    /\ Reader = "macro" /\ e.playback = Len(e.macro) => h.redone = h.did

(* Such a macro always comes to its end, from wherever it is played. *)
PlaybackEnds == (e.playback # 0 /\ ~h.missed) ~> (e.playback = 0)
=============================================================================
