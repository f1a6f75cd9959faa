----------------------------- MODULE KeysProofs -----------------------------
(***************************************************************************)
(* Proofs about Keys: no keystroke is torn, no macro is disturbed while it *)
(* is played, and a replay does what was done when the macro was recorded, *)
(* for macros and stacks of readers of any length.                         *)
(***************************************************************************)
EXTENDS Keys, SequenceTheorems, FiniteSetTheorems, TLAPS

-----------------------------------------------------------------------------
(* The terminal *)

(* The decoder's state and the bytes still to come, for a keystroke that is *)
(* read whole, ...                                                          *)
Whole ==
  { <<"ground", <<>> >>, <<"esc", <<>> >>,
    <<"esc", <<"[", "A">> >>, <<"csi", <<"A">> >>,
    <<"esc", <<"O", "A">> >>, <<"ss3", <<"A">> >>,
    <<"esc", <<"[", "1", "~">> >>, <<"csi", <<"1", "~">> >>, <<"csi 1", <<"~">> >>,
    <<"esc", <<"[", "1", "5", "~">> >>, <<"csi", <<"1", "5", "~">> >>,
    <<"csi 1", <<"5", "~">> >>, <<"csi n", <<"~">> >>,
    <<"esc", <<"z">> >>, <<"utf8", <<"cont">> >>, <<"esc", <<"lead", "cont">> >> }

(* ... and for what is left of one that was cut short, read as text. *)
Torn ==
  { <<"ground", <<>> >>, <<"ground", <<"[", "A">> >>, <<"ground", <<"A">> >>,
    <<"ground", <<"O", "A">> >>, <<"ground", <<"[", "1", "~">> >>,
    <<"ground", <<"1", "~">> >>, <<"ground", <<"~">> >>,
    <<"ground", <<"[", "1", "5", "~">> >>, <<"ground", <<"1", "5", "~">> >>,
    <<"ground", <<"5", "~">> >>, <<"ground", <<"z">> >>,
    <<"ground", <<"lead", "cont">> >>, <<"ground", <<"cont">> >>,
    <<"utf8", <<"cont">> >> }

TtyOK ==
  /\ tty = [state |-> tty.state, rest |-> tty.rest, cut |-> tty.cut]
  /\ tty.cut \in BOOLEAN
  /\ tty.cut => <<tty.state, tty.rest>> \in Torn
  /\ ~tty.cut => <<tty.state, tty.rest>> \in Whole

LEMMA Ends ==
  ASSUME NEW a
  PROVE  /\ Head(<<a>>) = a /\ Tail(<<a>>) = <<>>
         /\ \A b : Head(<<a, b>>) = a /\ Tail(<<a, b>>) = <<b>>
         /\ \A b, c : Head(<<a, b, c>>) = a /\ Tail(<<a, b, c>>) = <<b, c>>
         /\ \A b, c, d : Head(<<a, b, c, d>>) = a /\ Tail(<<a, b, c, d>>) = <<b, c, d>>
         /\ \A b, c, d, f : Head(<<a, b, c, d, f>>) = a /\ Tail(<<a, b, c, d, f>>) = <<b, c, d, f>>
OBVIOUS

(* A byte read of a whole keystroke leaves the rest of it whole, or, after  *)
(* ESC before a long character, torn.                                       *)
LEMMA WholeStep ==
  ASSUME NEW st, NEW rest, <<st, rest>> \in Whole, rest # <<>>
  PROVE  LET d == Decode(st, Head(rest))
         IN  /\ st = "esc" /\ Head(rest) = "lead" => <<d.state, Tail(rest)>> \in Torn
             /\ ~(st = "esc" /\ Head(rest) = "lead") => <<d.state, Tail(rest)>> \in Whole
             /\ d.state = "ground" => d.key \in Key
<1>1. CASE st = "esc" /\ rest = <<"[", "A">>
  <2>1. Head(rest) = "[" /\ Tail(rest) = <<"A">>  BY <1>1, Ends
  <2>2. QED  BY <1>1, <2>1 DEF Whole, Torn, Decode, Partial, Complete, Key, Printable, Control, Letter
<1>2. CASE st = "csi" /\ rest = <<"A">>
  <2>1. Head(rest) = "A" /\ Tail(rest) = <<>>  BY <1>2, Ends
  <2>2. QED  BY <1>2, <2>1 DEF Whole, Torn, Decode, Partial, Complete, Key, Printable, Control, Letter
<1>3. CASE st = "esc" /\ rest = <<"O", "A">>
  <2>1. Head(rest) = "O" /\ Tail(rest) = <<"A">>  BY <1>3, Ends
  <2>2. QED  BY <1>3, <2>1 DEF Whole, Torn, Decode, Partial, Complete, Key, Printable, Control, Letter
<1>4. CASE st = "ss3" /\ rest = <<"A">>
  <2>1. Head(rest) = "A" /\ Tail(rest) = <<>>  BY <1>4, Ends
  <2>2. QED  BY <1>4, <2>1 DEF Whole, Torn, Decode, Partial, Complete, Key, Printable, Control, Letter
<1>5. CASE st = "esc" /\ rest = <<"[", "1", "~">>
  <2>1. Head(rest) = "[" /\ Tail(rest) = <<"1", "~">>  BY <1>5, Ends
  <2>2. QED  BY <1>5, <2>1 DEF Whole, Torn, Decode, Partial, Complete, Key, Printable, Control, Letter
<1>6. CASE st = "csi" /\ rest = <<"1", "~">>
  <2>1. Head(rest) = "1" /\ Tail(rest) = <<"~">>  BY <1>6, Ends
  <2>2. QED  BY <1>6, <2>1 DEF Whole, Torn, Decode, Partial, Complete, Key, Printable, Control, Letter
<1>7. CASE st = "csi 1" /\ rest = <<"~">>
  <2>1. Head(rest) = "~" /\ Tail(rest) = <<>>  BY <1>7, Ends
  <2>2. QED  BY <1>7, <2>1 DEF Whole, Torn, Decode, Partial, Complete, Key, Printable, Control, Letter
<1>8. CASE st = "esc" /\ rest = <<"[", "1", "5", "~">>
  <2>1. Head(rest) = "[" /\ Tail(rest) = <<"1", "5", "~">>  BY <1>8, Ends
  <2>2. Decode(st, Head(rest)) = Partial("csi")  BY <1>8, <2>1 DEF Decode
  <2>3. QED  BY <1>8, <2>1, <2>2 DEF Whole, Partial
<1>9. CASE st = "csi" /\ rest = <<"1", "5", "~">>
  <2>1. Head(rest) = "1" /\ Tail(rest) = <<"5", "~">>  BY <1>9, Ends
  <2>2. QED  BY <1>9, <2>1 DEF Whole, Torn, Decode, Partial, Complete, Key, Printable, Control, Letter
<1>10. CASE st = "csi 1" /\ rest = <<"5", "~">>
  <2>1. Head(rest) = "5" /\ Tail(rest) = <<"~">>  BY <1>10, Ends
  <2>2. QED  BY <1>10, <2>1 DEF Whole, Torn, Decode, Partial, Complete, Key, Printable, Control, Letter
<1>11. CASE st = "csi n" /\ rest = <<"~">>
  <2>1. Head(rest) = "~" /\ Tail(rest) = <<>>  BY <1>11, Ends
  <2>2. QED  BY <1>11, <2>1 DEF Whole, Torn, Decode, Partial, Complete, Key, Printable, Control, Letter
<1>12. CASE st = "esc" /\ rest = <<"z">>
  <2>1. Head(rest) = "z" /\ Tail(rest) = <<>>  BY <1>12, Ends
  <2>2. QED  BY <1>12, <2>1 DEF Whole, Torn, Decode, Partial, Complete, Key, Printable, Control, Letter
<1>13. CASE st = "utf8" /\ rest = <<"cont">>
  <2>1. Head(rest) = "cont" /\ Tail(rest) = <<>>  BY <1>13, Ends
  <2>2. QED  BY <1>13, <2>1 DEF Whole, Torn, Decode, Partial, Complete, Key, Printable, Control, Letter
<1>14. CASE st = "esc" /\ rest = <<"lead", "cont">>
  <2>1. Head(rest) = "lead" /\ Tail(rest) = <<"cont">>  BY <1>14, Ends
  <2>2. QED  BY <1>14, <2>1 DEF Whole, Torn, Decode, Partial, Complete, Key, Printable, Control, Letter
<1>15. QED  BY <1>1, <1>2, <1>3, <1>4, <1>5, <1>6, <1>7, <1>8, <1>9, <1>10, <1>11, <1>12, <1>13, <1>14 DEF Whole

LEMMA TornStep ==
  ASSUME NEW st, NEW rest, <<st, rest>> \in Torn, rest # <<>>
  PROVE  LET d == Decode(st, Head(rest))
         IN  /\ <<d.state, Tail(rest)>> \in Torn
             /\ d.state = "ground" => d.key \in Key
<1>1. CASE st = "ground" /\ rest = <<"[", "A">>
  <2>1. Head(rest) = "[" /\ Tail(rest) = <<"A">>  BY <1>1, Ends
  <2>2. QED  BY <1>1, <2>1 DEF Torn, Decode, Partial, Complete, Key, Printable, Control, Letter
<1>2. CASE st = "ground" /\ rest = <<"A">>
  <2>1. Head(rest) = "A" /\ Tail(rest) = <<>>  BY <1>2, Ends
  <2>2. QED  BY <1>2, <2>1 DEF Torn, Decode, Partial, Complete, Key, Printable, Control, Letter
<1>3. CASE st = "ground" /\ rest = <<"O", "A">>
  <2>1. Head(rest) = "O" /\ Tail(rest) = <<"A">>  BY <1>3, Ends
  <2>2. QED  BY <1>3, <2>1 DEF Torn, Decode, Partial, Complete, Key, Printable, Control, Letter
<1>4. CASE st = "ground" /\ rest = <<"[", "1", "~">>
  <2>1. Head(rest) = "[" /\ Tail(rest) = <<"1", "~">>  BY <1>4, Ends
  <2>2. QED  BY <1>4, <2>1 DEF Torn, Decode, Partial, Complete, Key, Printable, Control, Letter
<1>5. CASE st = "ground" /\ rest = <<"1", "~">>
  <2>1. Head(rest) = "1" /\ Tail(rest) = <<"~">>  BY <1>5, Ends
  <2>2. QED  BY <1>5, <2>1 DEF Torn, Decode, Partial, Complete, Key, Printable, Control, Letter
<1>6. CASE st = "ground" /\ rest = <<"~">>
  <2>1. Head(rest) = "~" /\ Tail(rest) = <<>>  BY <1>6, Ends
  <2>2. QED  BY <1>6, <2>1 DEF Torn, Decode, Partial, Complete, Key, Printable, Control, Letter
<1>7. CASE st = "ground" /\ rest = <<"[", "1", "5", "~">>
  <2>1. Head(rest) = "[" /\ Tail(rest) = <<"1", "5", "~">>  BY <1>7, Ends
  <2>2. QED  BY <1>7, <2>1 DEF Torn, Decode, Partial, Complete, Key, Printable, Control, Letter
<1>8. CASE st = "ground" /\ rest = <<"1", "5", "~">>
  <2>1. Head(rest) = "1" /\ Tail(rest) = <<"5", "~">>  BY <1>8, Ends
  <2>2. QED  BY <1>8, <2>1 DEF Torn, Decode, Partial, Complete, Key, Printable, Control, Letter
<1>9. CASE st = "ground" /\ rest = <<"5", "~">>
  <2>1. Head(rest) = "5" /\ Tail(rest) = <<"~">>  BY <1>9, Ends
  <2>2. QED  BY <1>9, <2>1 DEF Torn, Decode, Partial, Complete, Key, Printable, Control, Letter
<1>10. CASE st = "ground" /\ rest = <<"z">>
  <2>1. Head(rest) = "z" /\ Tail(rest) = <<>>  BY <1>10, Ends
  <2>2. QED  BY <1>10, <2>1 DEF Torn, Decode, Partial, Complete, Key, Printable, Control, Letter
<1>11. CASE st = "ground" /\ rest = <<"lead", "cont">>
  <2>1. Head(rest) = "lead" /\ Tail(rest) = <<"cont">>  BY <1>11, Ends
  <2>2. Decode(st, Head(rest)) = Partial("utf8")  BY <1>11, <2>1 DEF Decode
  <2>3. QED  BY <1>11, <2>1, <2>2 DEF Torn, Partial
<1>12. CASE st = "ground" /\ rest = <<"cont">>
  <2>1. Head(rest) = "cont" /\ Tail(rest) = <<>>  BY <1>12, Ends
  <2>2. QED  BY <1>12, <2>1 DEF Torn, Decode, Partial, Complete, Key, Printable, Control, Letter
<1>13. CASE st = "utf8" /\ rest = <<"cont">>
  <2>1. Head(rest) = "cont" /\ Tail(rest) = <<>>  BY <1>13, Ends
  <2>2. QED  BY <1>13, <2>1 DEF Torn, Decode, Partial, Complete, Key, Printable, Control, Letter
<1>14. QED  BY <1>1, <1>2, <1>3, <1>4, <1>5, <1>6, <1>7, <1>8, <1>9, <1>10, <1>11, <1>12, <1>13 DEF Torn

(* The first byte of a keystroke is read where nothing is left of the last  *)
(* one; all that can be under way then is a lone ESC.                       *)
LEMMA FirstByte ==
  ASSUME NEW st \in {"ground", "esc"}, NEW k \in Keystroke
  PROVE  LET b == Head(Bytes(k))
             d == Decode(st, b)
         IN  /\ st = "esc" /\ b = "lead" => <<d.state, Tail(Bytes(k))>> \in Torn
             /\ ~(st = "esc" /\ b = "lead") => <<d.state, Tail(Bytes(k))>> \in Whole
             /\ d.state = "ground" => d.key \in Key
<1> DEFINE b == Head(Bytes(k))
           r == Tail(Bytes(k))
<1>1. CASE k \notin DOMAIN Sequence
  <2>1. b = k /\ r = <<>>  BY <1>1, Ends DEF Bytes
  <2>2. k \in Letter \cup Control  BY <1>1, KeystrokeAssumption
  <2>3. k # "Esc" /\ k # "lead" /\ k \in Key
    BY <2>2 DEF Letter, Control, Key, Printable
  <2>4. Decode(st, b) = Complete(k) \/ Decode(st, b) = Complete("Meta")
    BY <2>1, <2>2, <2>3 DEF Decode, Letter, Control
  <2>5. Decode(st, b).state = "ground" /\ Decode(st, b).key \in Key
    BY <2>3, <2>4 DEF Complete, Key
  <2>6. <<"ground", <<>> >> \in Whole  BY DEF Whole
  <2>7. QED  BY <2>1, <2>3, <2>5, <2>6
<1>2. CASE k = "Uni"
  <2>1. Bytes(k) = <<"lead", "cont">>  BY <1>2 DEF Bytes, Sequence
  <2>2. b = "lead" /\ r = <<"cont">>  BY <2>1, Ends
  <2>3. st = "ground" => Decode(st, b) = Partial("utf8")  BY <2>2 DEF Decode
  <2>4. st = "esc" => Decode(st, b) = Complete("Meta")  BY <2>2 DEF Decode
  <2>5. <<"utf8", <<"cont">> >> \in Whole /\ <<"ground", <<"cont">> >> \in Torn
    BY DEF Whole, Torn
  <2>6. CASE st = "ground"
    <3>1. Decode(st, b).state = "utf8"  BY <2>3, <2>6 DEF Partial
    <3>2. QED  BY <2>2, <2>5, <2>6, <3>1
  <2>7. CASE st = "esc"
    <3>1. Decode(st, b).state = "ground" /\ Decode(st, b).key \in Key
      BY <2>4, <2>7 DEF Complete, Key
    <3>2. QED  BY <2>2, <2>5, <2>7, <3>1
  <2>8. QED  BY <2>6, <2>7
<1>3. CASE k \in DOMAIN Sequence \ {"Uni"}
  <2>1. b = "Esc" /\ <<"esc", r>> \in Whole
    <3>1. k \in {"Esc", "Up", "Up2", "Home", "F5", "Zap", "AltUni"}  BY <1>3 DEF Sequence
    <3>2. Bytes(k) = Sequence[k]  BY <1>3 DEF Bytes
    <3>3. CASE k = "Esc"
      <4>1. Bytes(k) = <<"Esc">>  BY <3>2, <3>3 DEF Sequence
      <4>2. QED  BY <4>1, Ends DEF Whole
    <3>4. CASE k = "Up"
      <4>1. Bytes(k) = <<"Esc", "[", "A">>  BY <3>2, <3>4 DEF Sequence
      <4>2. QED  BY <4>1, Ends DEF Whole
    <3>5. CASE k = "Up2"
      <4>1. Bytes(k) = <<"Esc", "O", "A">>  BY <3>2, <3>5 DEF Sequence
      <4>2. QED  BY <4>1, Ends DEF Whole
    <3>6. CASE k = "Home"
      <4>1. Bytes(k) = <<"Esc", "[", "1", "~">>  BY <3>2, <3>6 DEF Sequence
      <4>2. QED  BY <4>1, Ends DEF Whole
    <3>7. CASE k = "F5"
      <4>1. Bytes(k) = <<"Esc", "[", "1", "5", "~">>  BY <3>2, <3>7 DEF Sequence
      <4>2. QED  BY <4>1, Ends DEF Whole
    <3>8. CASE k = "Zap"
      <4>1. Bytes(k) = <<"Esc", "z">>  BY <3>2, <3>8 DEF Sequence
      <4>2. QED  BY <4>1, Ends DEF Whole
    <3>9. CASE k = "AltUni"
      <4>1. Bytes(k) = <<"Esc", "lead", "cont">>  BY <3>2, <3>9 DEF Sequence
      <4>2. QED  BY <4>1, Ends DEF Whole
    <3>10. QED  BY <3>1, <3>3, <3>4, <3>5, <3>6, <3>7, <3>8, <3>9
  <2>2. Decode(st, b) = Partial("esc")
    <3>1. CASE st = "ground"  BY <2>1, <3>1 DEF Decode
    <3>2. CASE st = "esc"  BY <2>1, <3>2 DEF Decode
    <3>3. QED  BY <3>1, <3>2
  <2>3. Decode(st, b).state = "esc"  BY <2>2 DEF Partial
  <2>4. QED  BY <2>1, <2>3
<1>4. QED  BY <1>1, <1>2, <1>3

LEMMA NothingLeft ==
  /\ \A st, rest : <<st, rest>> \in Whole => (st = "ground" <=> rest = <<>> /\ st # "esc")
  /\ \A st, rest : <<st, rest>> \in Torn /\ rest = <<>> => st = "ground"
<1>1. /\ \A a : <<a>> # <<>>
      /\ \A a, b : <<a, b>> # <<>>
      /\ \A a, b, c : <<a, b, c>> # <<>>
      /\ \A a, b, c, d : <<a, b, c, d>> # <<>>
  OBVIOUS
<1>2. ASSUME NEW st, NEW rest, <<st, rest>> \in Whole
      PROVE  st = "ground" <=> rest = <<>> /\ st # "esc"
  BY <1>1, <1>2 DEF Whole
<1>3. ASSUME NEW st, NEW rest, <<st, rest>> \in Torn
      PROVE  rest = <<>> => st = "ground"
  BY <1>1, <1>3 DEF Torn
<1>4. QED  BY <1>2, <1>3

(* A signal leaves what is under way where it is, or reads it as text.      *)
LEMMA Abandoned ==
  ASSUME NEW rest, <<"esc", rest>> \in Whole
  PROVE  <<"ground", rest>> \in Torn
BY DEF Whole, Torn

LEMMA TtyKept ==
  ASSUME TtyOK, [Next]_vars
  PROVE  TtyOK'
<1> USE DEF TtyOK
<1>1. ASSUME NEW k \in Keystroke, Type(k)  PROVE TtyOK'
  <2> DEFINE b == Head(Bytes(k))
             d == Decode(tty.state, b)
  <2>1. tty.state \in {"ground", "esc"}  BY <1>1, NothingLeft DEF Type
  <2>2. tty' = [state |-> d.state, rest |-> Tail(Bytes(k)),
                cut |-> FALSE \/ (tty.state = "esc" /\ b = "lead")]
    BY <1>1 DEF Type, ReadByte
  <2>3. QED  BY <2>1, <2>2, FirstByte
<1>2. ASSUME Arrive  PROVE TtyOK'
  <2> DEFINE b == Head(tty.rest)
             d == Decode(tty.state, b)
  <2>1. tty.rest # <<>>  BY <1>2 DEF Arrive
  <2>2. tty' = [state |-> d.state, rest |-> Tail(tty.rest),
                cut |-> tty.cut \/ (tty.state = "esc" /\ b = "lead")]
    BY <1>2 DEF Arrive, ReadByte
  <2>3. CASE tty.cut  BY <2>1, <2>2, <2>3, TornStep
  <2>4. CASE ~tty.cut  BY <2>1, <2>2, <2>4, WholeStep
  <2>5. QED  BY <2>3, <2>4
<1>3. ASSUME Signal  PROVE TtyOK'
  <2>1. CASE UNCHANGED tty  BY <2>1
  <2>2. CASE tty.state = "esc" /\ tty' = [tty EXCEPT !.state = "ground", !.cut = TRUE]
    <3>1. ~tty.cut  BY <2>2 DEF Torn
    <3>2. <<"ground", tty.rest>> \in Torn  BY <2>2, <3>1, Abandoned
    <3>3. tty' = [state |-> "ground", rest |-> tty.rest, cut |-> TRUE]  BY <2>2
    <3>4. QED  BY <3>2, <3>3
  <2>3. QED  BY <1>3, <2>1, <2>2 DEF Signal
<1>4. CASE Play  BY <1>4 DEF Play, PlayKey, PlayEnd, ReadMacro
<1>5. CASE UNCHANGED vars  BY <1>5 DEF vars
<1>6. QED  BY <1>1, <1>2, <1>3, <1>4, <1>5 DEF Next

LEMMA TtyInit == Init => TtyOK
BY DEF Init, TtyOK, Whole

(* No byte of a keystroke is left to be read as text and no keystroke is    *)
(* swallowed (decoder.c decodeEscapeSequence, terminal.c readKey), whatever the user *)
(* types and whenever the bytes and the signals come.                       *)
THEOREM KeystrokesAreWhole == Spec => []KeystrokeWhole
<1>1. TtyOK => KeystrokeWhole  BY NothingLeft DEF TtyOK, KeystrokeWhole
<1>2. QED  BY <1>1, TtyInit, TtyKept, PTL DEF Spec

-----------------------------------------------------------------------------
(* Readers and macros *)

Frame == {"main", "prompt", "macro", "zap", "quoted", "C-x x", "register"}

(* The main loop is at the bottom, and at most one macro is played. *)
StackOK(st) ==
  /\ st \in Seq(Frame) /\ st # <<>> /\ st[1] = "main"
  /\ \A i, j \in DOMAIN st : st[i] = "macro" /\ st[j] = "macro" => i = j

(* The bytes of a character stand after KEY_UNICODE and nowhere else. *)
MacroOK(m) ==
  /\ m \in Seq(Key \cup {Fail, "bytes"})
  /\ \A i \in DOMAIN m : m[i] = "bytes" <=> i > 1 /\ m[i - 1] = "Uni"
  /\ m # <<>> => m[Len(m)] # "Uni"

(* Between two keys of a macro. *)
Boundary(m, i) == i \in 0..Len(m) /\ (i \in 1..Len(m) - 1 => m[i + 1] # "bytes")

Good(s) ==
  /\ s \in State /\ StackOK(s.stack) /\ MacroOK(s.macro) /\ Boundary(s.macro, s.playback)
  /\ Playing(s) => ~s.recording
  /\ s.playback # 0 => Playing(s)

(* Before the first key of a macro only the player can go on. *)
Ready(s) == Playing(s) => s.playback # 0
Top(s)   == Playing(s) /\ s.playback = 0 => Last(s.stack) = "macro"

LEMMA PlayingIs ==
  ASSUME NEW s  PROVE Playing(s) <=> \E i \in DOMAIN s.stack : s.stack[i] = "macro"
BY DEF Playing, ToSet

(* A reader that is pushed or popped, other than a macro. *)
LEMMA MacroPush ==
  ASSUME NEW st \in Seq(Frame), NEW f \in Frame
  PROVE  (\E i \in DOMAIN Append(st, f) : Append(st, f)[i] = "macro")
         <=> f = "macro" \/ \E i \in DOMAIN st : st[i] = "macro"
<1> DEFINE t == Append(st, f)
<1>1. Len(st) \in Nat  OBVIOUS
<1>2. /\ t \in Seq(Frame) /\ Len(t) = Len(st) + 1 /\ t[Len(st) + 1] = f
      /\ \A i \in 1..Len(st) : t[i] = st[i]
  BY <1>1
<1>3. DOMAIN st = 1..Len(st) /\ DOMAIN t = 1..Len(st) + 1  BY <1>1, <1>2
<1> HIDE DEF t
<1>4. ASSUME NEW i \in DOMAIN t, t[i] = "macro"
      PROVE  f = "macro" \/ \E j \in DOMAIN st : st[j] = "macro"
  BY <1>1, <1>2, <1>3, <1>4
<1>5. ASSUME NEW i \in DOMAIN st, st[i] = "macro"  PROVE \E j \in DOMAIN t : t[j] = "macro"
  BY <1>1, <1>2, <1>3, <1>5
<1>6. f = "macro" => \E j \in DOMAIN t : t[j] = "macro"  BY <1>1, <1>2, <1>3
<1>7. (\E i \in DOMAIN t : t[i] = "macro") <=> f = "macro" \/ \E i \in DOMAIN st : st[i] = "macro"
  BY <1>4, <1>5, <1>6
<1>8. QED  BY <1>7 DEF t

LEMMA StackPush ==
  ASSUME NEW st, StackOK(st), NEW f \in Frame
  PROVE  /\ Append(st, f) \in Seq(Frame) /\ Append(st, f) # <<>> /\ Append(st, f)[1] = "main"
         /\ Last(Append(st, f)) = f
         /\ f # "macro" => StackOK(Append(st, f))
         /\ ~(\E i \in DOMAIN st : st[i] = "macro") => StackOK(Append(st, f))
<1> DEFINE t == Append(st, f)
<1>1. st \in Seq(Frame) /\ Len(st) \in Nat \ {0} /\ st[1] = "main"  BY DEF StackOK
<1>2. /\ t \in Seq(Frame) /\ Len(t) = Len(st) + 1 /\ t[Len(st) + 1] = f
      /\ \A i \in 1..Len(st) : t[i] = st[i]
  BY <1>1
<1>3. DOMAIN st = 1..Len(st) /\ DOMAIN t = 1..Len(st) + 1  BY <1>1, <1>2
<1>4. t # <<>> /\ t[1] = "main" /\ Last(t) = f
  <2>1. Len(t) # 0  BY <1>1, <1>2
  <2>2. QED  BY <1>1, <1>2, <2>1 DEF Last
<1> HIDE DEF t
<1>5. \A i, j \in DOMAIN st : st[i] = "macro" /\ st[j] = "macro" => i = j  BY DEF StackOK
<1>6. f # "macro" => StackOK(t)  BY <1>1, <1>2, <1>3, <1>4, <1>5 DEF StackOK
<1>7. ~(\E i \in DOMAIN st : st[i] = "macro") => StackOK(t)
  BY <1>1, <1>2, <1>3, <1>4 DEF StackOK
<1>8. QED  BY <1>2, <1>4, <1>6, <1>7 DEF t

LEMMA StackPop ==
  ASSUME NEW st, StackOK(st), Last(st) # "main"
  PROVE  /\ StackOK(Front(st))
         /\ Last(st) = "macro" => \A i \in DOMAIN Front(st) : Front(st)[i] # "macro"
         /\ Last(st) # "macro" => ((\E i \in DOMAIN Front(st) : Front(st)[i] = "macro")
                                   <=> \E i \in DOMAIN st : st[i] = "macro")
<1> DEFINE t == Front(st)
           n == Len(st) - 1
<1>1. st \in Seq(Frame) /\ Len(st) \in Nat \ {0} /\ st[1] = "main" /\ DOMAIN st = 1..Len(st)
  BY DEF StackOK
<1>2. n \in Nat \ {0} /\ Len(st) = n + 1 /\ st[n + 1] # "main"  BY <1>1 DEF Last
<1>3. t \in Seq(Frame) /\ Len(t) = n /\ \A i \in 1..n : t[i] = st[i]
  <2>1. \A i \in 1..n : st[i] \in Frame  BY <1>1, <1>2
  <2> DEFINE u == SubSeq(st, 1, n)
  <2>2. /\ u \in Seq(Frame)
        /\ Len(u) = (IF 1 <= n THEN n - 1 + 1 ELSE 0)
        /\ \A i \in 1..n - 1 + 1 : u[i] = st[1 + i - 1]
    <3> HIDE DEF n
    <3>1. QED  BY <1>2, <2>1, SubSeqProperties
  <2>3. t = u  BY DEF Front
  <2> HIDE DEF n, u, t
  <2>4. QED  BY <1>2, <2>2, <2>3
<1> HIDE DEF n, t
<1>4. DOMAIN t = 1..n /\ t # <<>> /\ t[1] = "main"
  <2>1. Len(t) # 0  BY <1>2, <1>3
  <2>2. QED  BY <1>1, <1>2, <1>3, <2>1
<1>5. \A i, j \in DOMAIN st : st[i] = "macro" /\ st[j] = "macro" => i = j  BY DEF StackOK
<1>6. StackOK(t)  BY <1>1, <1>2, <1>3, <1>4, <1>5 DEF StackOK
<1>7. Last(st) = st[n + 1]  BY <1>2 DEF Last
<1>8. Last(st) = "macro" => \A i \in DOMAIN t : t[i] # "macro"
  <2>1. SUFFICES ASSUME Last(st) = "macro", NEW i \in DOMAIN t, t[i] = "macro"  PROVE FALSE
    OBVIOUS
  <2>2. i \in DOMAIN st /\ n + 1 \in DOMAIN st /\ i # n + 1  BY <1>1, <1>2, <1>4
  <2>3. st[i] = "macro" /\ st[n + 1] = "macro"  BY <1>3, <1>4, <1>7, <2>1
  <2>4. QED  BY <1>5, <2>2, <2>3
<1>9. Last(st) # "macro" => ((\E i \in DOMAIN t : t[i] = "macro") <=> \E i \in DOMAIN st : st[i] = "macro")
  <2>1. ASSUME Last(st) # "macro", NEW i \in DOMAIN st, st[i] = "macro"
        PROVE  \E j \in DOMAIN t : t[j] = "macro"
    <3>1. i \in 1..n  BY <1>1, <1>2, <1>7, <2>1
    <3>2. QED  BY <1>3, <1>4, <2>1, <3>1
  <2>2. ASSUME NEW i \in DOMAIN t, t[i] = "macro"  PROVE \E j \in DOMAIN st : st[j] = "macro"
    BY <1>1, <1>2, <1>3, <1>4, <2>2
  <2>3. QED  BY <2>1, <2>2
<1>10. QED  BY <1>6, <1>8, <1>9 DEF t

(* A key that is recorded, a character with its bytes. *)
LEMMA MacroGrows ==
  ASSUME NEW m, MacroOK(m), NEW k \in Key \cup {Fail}
  PROVE  MacroOK(m \o Entries(k))
<1>1. m \in Seq(Key \cup {Fail, "bytes"}) /\ Len(m) \in Nat  BY DEF MacroOK
<1>2. k # "bytes"  BY DEF Key, Printable, Control, Letter, Fail
<1> DEFINE t == m \o Entries(k)
<1>3. CASE k = "Uni"
  <2>1. Entries(k) = <<"Uni", "bytes">>  BY <1>3 DEF Entries
  <2>2. "Uni" \in Key  BY DEF Key
  <2>3. /\ t \in Seq(Key \cup {Fail, "bytes"}) /\ Len(t) = Len(m) + 2
        /\ t[Len(m) + 1] = "Uni" /\ t[Len(m) + 2] = "bytes"
        /\ \A i \in 1..Len(m) : t[i] = m[i]
    BY <1>1, <2>1, <2>2
  <2> HIDE DEF t
  <2>4. DOMAIN t = 1..Len(m) + 2 /\ t # <<>>
    <3>1. Len(t) # 0  BY <1>1, <2>3
    <3>2. QED  BY <1>1, <2>3, <3>1
  <2>5. ASSUME NEW i \in DOMAIN t  PROVE t[i] = "bytes" <=> i > 1 /\ t[i - 1] = "Uni"
    <3>1. CASE i \in 1..Len(m)
      <4>1. m[i] = "bytes" <=> i > 1 /\ m[i - 1] = "Uni"  BY <1>1, <3>1 DEF MacroOK
      <4>2. i > 1 => i - 1 \in 1..Len(m)  BY <1>1, <3>1
      <4>3. QED  BY <2>3, <3>1, <4>1, <4>2
    <3>2. CASE i = Len(m) + 1
      <4>1. i > 1 => m # <<>> /\ i - 1 = Len(m) /\ i - 1 \in 1..Len(m)  BY <1>1, <3>2
      <4>2. i > 1 => t[i - 1] # "Uni"  BY <2>3, <4>1 DEF MacroOK
      <4>3. QED  BY <2>3, <3>2, <4>2
    <3>3. CASE i = Len(m) + 2
      <4>1. i > 1 /\ i - 1 = Len(m) + 1  BY <1>1, <3>3
      <4>2. QED  BY <2>3, <3>3, <4>1
    <3>4. QED  BY <1>1, <2>4, <3>1, <3>2, <3>3
  <2>6. QED  BY <2>3, <2>4, <2>5 DEF MacroOK, t
<1>4. CASE k # "Uni"
  <2>1. Entries(k) = <<k>>  BY <1>4 DEF Entries
  <2>2. /\ t \in Seq(Key \cup {Fail, "bytes"}) /\ Len(t) = Len(m) + 1
        /\ t[Len(m) + 1] = k
        /\ \A i \in 1..Len(m) : t[i] = m[i]
    BY <1>1, <2>1
  <2> HIDE DEF t
  <2>3. DOMAIN t = 1..Len(m) + 1 /\ t # <<>>
    <3>1. Len(t) # 0  BY <1>1, <2>2
    <3>2. QED  BY <1>1, <2>2, <3>1
  <2>4. ASSUME NEW i \in DOMAIN t  PROVE t[i] = "bytes" <=> i > 1 /\ t[i - 1] = "Uni"
    <3>1. CASE i \in 1..Len(m)
      <4>1. m[i] = "bytes" <=> i > 1 /\ m[i - 1] = "Uni"  BY <1>1, <3>1 DEF MacroOK
      <4>2. i > 1 => i - 1 \in 1..Len(m)  BY <1>1, <3>1
      <4>3. QED  BY <2>2, <3>1, <4>1, <4>2
    <3>2. CASE i = Len(m) + 1
      <4>1. i > 1 => m # <<>> /\ i - 1 = Len(m) /\ i - 1 \in 1..Len(m)  BY <1>1, <3>2
      <4>2. i > 1 => t[i - 1] # "Uni"  BY <2>2, <4>1 DEF MacroOK
      <4>3. QED  BY <1>2, <2>2, <3>2, <4>2
    <3>3. QED  BY <1>1, <2>3, <3>1, <3>2
  <2>5. QED  BY <1>4, <2>2, <2>3, <2>4 DEF MacroOK, t
<1>5. QED  BY <1>3, <1>4

(* The next key of a macro, and where the one after it is.  *)
LEMMA NextKey ==
  ASSUME NEW m, MacroOK(m), NEW i, Boundary(m, i), i < Len(m)
  PROVE  /\ m[i + 1] \in Key \cup {Fail}
         /\ Boundary(m, i + Len(Entries(m[i + 1]))) /\ i + Len(Entries(m[i + 1])) \in Nat \ {0}
<1>1. m \in Seq(Key \cup {Fail, "bytes"}) /\ Len(m) \in Nat /\ DOMAIN m = 1..Len(m)
  BY DEF MacroOK
<1>2. i \in Nat /\ i + 1 \in DOMAIN m  BY <1>1 DEF Boundary
<1>3. \A j \in DOMAIN m : m[j] = "bytes" <=> j > 1 /\ m[j - 1] = "Uni"  BY DEF MacroOK
<1>4. m[i + 1] # "bytes"
  <2>1. CASE i = 0  BY <1>2, <1>3, <2>1
  <2>2. CASE i # 0
    <3>1. i \in 1..Len(m) - 1  BY <1>1, <1>2, <2>2
    <3>2. QED  BY <3>1 DEF Boundary
  <2>3. QED  BY <2>1, <2>2
<1>5. m[i + 1] \in Key \cup {Fail}  BY <1>1, <1>2, <1>4
<1>6. CASE m[i + 1] = "Uni"
  <2>1. Len(Entries(m[i + 1])) = 2  BY <1>6 DEF Entries
  <2>2. i + 1 # Len(m)
    <3>1. i + 1 = Len(m) => m # <<>>  BY <1>1, <1>2
    <3>2. QED  BY <1>6, <3>1 DEF MacroOK
  <2>3. i + 2 \in DOMAIN m
    <3>1. i + 1 \in 1..Len(m)  BY <1>1, <1>2
    <3>2. i \in Nat /\ Len(m) \in Nat  BY <1>1, <1>2
    <3>3. i + 2 \in 1..Len(m)  BY <2>2, <3>1, <3>2, SMT
    <3>4. QED  BY <1>1, <3>3
  <2>4. m[i + 2] = "bytes"
    <3>1. i + 2 > 1 /\ (i + 2) - 1 = i + 1  BY <1>2
    <3>2. QED  BY <1>3, <1>6, <2>3, <3>1
  <2>5. i + 2 \in 1..Len(m) - 1 => m[i + 3] # "bytes"
    <3>1. i + 2 \in 1..Len(m) - 1 => i + 3 \in DOMAIN m /\ (i + 3) - 1 = i + 2  BY <1>1, <1>2
    <3>2. QED  BY <1>3, <2>4, <3>1
  <2>6. i + 2 \in 0..Len(m) /\ (i + 2) + 1 = i + 3  BY <1>1, <1>2, <2>3
  <2>7. QED  BY <1>2, <1>5, <2>1, <2>5, <2>6 DEF Boundary
<1>7. CASE m[i + 1] # "Uni"
  <2>1. Len(Entries(m[i + 1])) = 1  BY <1>7 DEF Entries
  <2>2. i + 1 \in 1..Len(m) - 1 => m[(i + 1) + 1] # "bytes"
    <3>1. i + 1 \in 1..Len(m) - 1 => (i + 1) + 1 \in DOMAIN m /\ ((i + 1) + 1) - 1 = i + 1  BY <1>1, <1>2
    <3>2. QED  BY <1>3, <1>7, <3>1
  <2>3. i + 1 \in 0..Len(m)  BY <1>1, <1>2
  <2>4. QED  BY <1>2, <1>5, <2>1, <2>2, <2>3 DEF Boundary
<1>8. QED  BY <1>6, <1>7
-----------------------------------------------------------------------------
(* What a key does *)

LEMMA GoodIs ==
  ASSUME NEW s, Good(s)
  PROVE  /\ s = [stack |-> s.stack, prefix |-> s.prefix, recording |-> s.recording,
                 macro |-> s.macro, playback |-> s.playback, reps |-> s.reps]
         /\ s.prefix \in BOOLEAN /\ s.recording \in BOOLEAN
         /\ s.playback \in Nat /\ s.reps \in 0..MaxReps
         /\ StackOK(s.stack) /\ MacroOK(s.macro)
BY DEF Good, State

LEMMA GoodMade ==
  ASSUME NEW st, StackOK(st), NEW m, MacroOK(m), NEW pb, Boundary(m, pb),
         NEW p \in BOOLEAN, NEW r \in BOOLEAN, NEW n \in 0..MaxReps,
         (\E i \in DOMAIN st : st[i] = "macro") => ~r,
         pb # 0 => \E i \in DOMAIN st : st[i] = "macro"
  PROVE  Good([stack |-> st, prefix |-> p, recording |-> r, macro |-> m,
               playback |-> pb, reps |-> n])
<1> DEFINE s == [stack |-> st, prefix |-> p, recording |-> r, macro |-> m,
                 playback |-> pb, reps |-> n]
<1>1. pb \in Nat
  <2>1. Len(m) \in Nat  BY DEF MacroOK
  <2>2. QED  BY <2>1 DEF Boundary
<1>2. s \in State  BY <1>1 DEF State, StackOK, MacroOK, Frame
<1>3. /\ s.stack = st /\ s.recording = r /\ s.macro = m /\ s.playback = pb
  OBVIOUS
<1> HIDE DEF s
<1>4. QED  BY <1>2, <1>3, PlayingIs DEF Good, s

(* A reader other than a macro comes on top or goes. *)
LEMMA PushOK ==
  ASSUME NEW s, Good(s), Ready(s), NEW f \in Frame \ {"macro"}
  PROVE  /\ Good(Push(s, f)) /\ Ready(Push(s, f)) /\ (Playing(Push(s, f)) <=> Playing(s))
         /\ Push(s, f).macro = s.macro /\ Push(s, f).recording = s.recording
<1> DEFINE t == Push(s, f)
           st == Append(s.stack, f)
<1>1. t = [stack |-> st, prefix |-> s.prefix, recording |-> s.recording,
           macro |-> s.macro, playback |-> s.playback, reps |-> s.reps]
  BY GoodIs DEF Push
<1>2. StackOK(s.stack) /\ f \in Frame /\ f # "macro"  BY GoodIs
<1>3. StackOK(st) /\ ((\E i \in DOMAIN st : st[i] = "macro")
                      <=> \E i \in DOMAIN s.stack : s.stack[i] = "macro")
  <2> DEFINE u == s.stack
  <2>1. StackOK(u)  BY <1>2
  <2> HIDE DEF u
  <2>2. StackOK(Append(u, f))  BY <1>2, <2>1, StackPush
  <2>3. u \in Seq(Frame)  BY <2>1 DEF StackOK
  <2>4. (\E i \in DOMAIN Append(u, f) : Append(u, f)[i] = "macro")
        <=> f = "macro" \/ \E i \in DOMAIN u : u[i] = "macro"
    BY <1>2, <2>3, MacroPush
  <2>5. QED  BY <1>2, <2>2, <2>4 DEF u
<1>4. t.stack = st /\ t.macro = s.macro /\ t.recording = s.recording /\ t.playback = s.playback
  BY <1>1
<1>5. Playing(t) <=> Playing(s)  BY <1>3, <1>4, PlayingIs
<1> HIDE DEF t, st
<1>6. Good(t)
  <2>1. (\E i \in DOMAIN st : st[i] = "macro") <=> Playing(s)  BY <1>3, PlayingIs
  <2>2. QED  BY <1>1, <1>3, <2>1, GoodIs, GoodMade DEF Good
<1>7. Ready(t)  BY <1>4, <1>5 DEF Ready
<1>8. QED  BY <1>4, <1>5, <1>6, <1>7 DEF t

LEMMA PopOK ==
  ASSUME NEW s, Good(s), Ready(s), Last(s.stack) \notin {"main", "macro"}
  PROVE  /\ Good(Pop(s)) /\ Ready(Pop(s)) /\ (Playing(Pop(s)) <=> Playing(s))
         /\ Pop(s).macro = s.macro /\ Pop(s).recording = s.recording
<1> DEFINE t == Pop(s)
           st == Front(s.stack)
<1>1. t = [stack |-> st, prefix |-> s.prefix, recording |-> s.recording,
           macro |-> s.macro, playback |-> s.playback, reps |-> s.reps]
  BY GoodIs DEF Pop
<1>2. StackOK(s.stack) /\ Last(s.stack) # "main" /\ Last(s.stack) # "macro"  BY GoodIs
<1>3. StackOK(st) /\ ((\E i \in DOMAIN st : st[i] = "macro")
                      <=> \E i \in DOMAIN s.stack : s.stack[i] = "macro")
  <2> DEFINE u == s.stack
  <2>1. StackOK(u) /\ Last(u) # "main" /\ Last(u) # "macro"  BY <1>2
  <2> HIDE DEF u
  <2>2. StackOK(Front(u))  BY <2>1, StackPop
  <2>3. (\E i \in DOMAIN Front(u) : Front(u)[i] = "macro") <=> \E i \in DOMAIN u : u[i] = "macro"
    BY <2>1, StackPop
  <2>4. QED  BY <2>2, <2>3 DEF u
<1>4. t.stack = st /\ t.macro = s.macro /\ t.recording = s.recording /\ t.playback = s.playback
  BY <1>1
<1>5. Playing(t) <=> Playing(s)  BY <1>3, <1>4, PlayingIs
<1> HIDE DEF t, st
<1>6. Good(t)
  <2>1. (\E i \in DOMAIN st : st[i] = "macro") <=> Playing(s)  BY <1>3, PlayingIs
  <2>2. QED  BY <1>1, <1>3, <2>1, GoodIs, GoodMade DEF Good
<1>7. Ready(t)  BY <1>4, <1>5 DEF Ready
<1>8. QED  BY <1>4, <1>5, <1>6, <1>7 DEF t

(* Nothing is recorded while a macro plays. *)
LEMMA RecordOK ==
  ASSUME NEW s, Good(s), Ready(s), NEW k \in Key \cup {Fail}
  PROVE  /\ Good(Record(s, k)) /\ Ready(Record(s, k))
         /\ Playing(s) => Record(s, k) = s
         /\ Record(s, k).stack = s.stack /\ (Playing(Record(s, k)) <=> Playing(s))
<1> DEFINE t == Record(s, k)
           m == s.macro \o Entries(k)
<1>1. CASE ~s.recording  BY <1>1 DEF Record
<1>2. CASE s.recording
  <2>1. t = [stack |-> s.stack, prefix |-> s.prefix, recording |-> s.recording,
             macro |-> m, playback |-> s.playback, reps |-> s.reps]
    <3>1. t = [s EXCEPT !.macro = m]  BY <1>2 DEF Record
    <3> HIDE DEF t, m
    <3>2. QED  BY <3>1, GoodIs
  <2>2. ~Playing(s) /\ s.playback = 0  BY <1>2 DEF Good
  <2>3. MacroOK(m)  BY GoodIs, MacroGrows
  <2>4. t.stack = s.stack /\ t.playback = 0  BY <2>1, <2>2
  <2>5. ~Playing(t)  BY <2>2, <2>4, PlayingIs
  <2> HIDE DEF t, m
  <2>6. Boundary(m, 0)
    <3>1. Len(m) \in Nat  BY <2>3 DEF MacroOK
    <3>2. QED  BY <3>1 DEF Boundary
  <2>7. Good(t)
    <3>1. ~\E i \in DOMAIN s.stack : s.stack[i] = "macro"  BY <2>2, PlayingIs
    <3>2. QED  BY <2>1, <2>2, <2>3, <2>6, <3>1, GoodIs, GoodMade
  <2>8. QED  BY <2>2, <2>4, <2>5, <2>7 DEF t, Ready
<1>3. QED  BY <1>1, <1>2, GoodIs

LEMMA PrefixOK ==
  ASSUME NEW s, Good(s), Ready(s), NEW p \in BOOLEAN
  PROVE  LET t == [s EXCEPT !.prefix = p]
         IN  /\ Good(t) /\ Ready(t) /\ (Playing(t) <=> Playing(s))
             /\ t.macro = s.macro /\ t.recording = s.recording
<1> DEFINE t == [s EXCEPT !.prefix = p]
<1>1. t = [stack |-> s.stack, prefix |-> p, recording |-> s.recording,
           macro |-> s.macro, playback |-> s.playback, reps |-> s.reps]
  BY GoodIs
<1>2. t.stack = s.stack /\ t.macro = s.macro /\ t.recording = s.recording /\ t.playback = s.playback
  BY <1>1
<1>3. Playing(t) <=> Playing(s)  BY <1>2, PlayingIs
<1> HIDE DEF t
<1>4. Good(t)
  <2>1. (\E i \in DOMAIN s.stack : s.stack[i] = "macro") <=> Playing(s)  BY PlayingIs
  <2>2. QED  BY <1>1, <2>1, GoodIs, GoodMade DEF Good
<1>5. QED  BY <1>2, <1>3, <1>4 DEF Ready, t

(* Commands of the keymap, C-x ( , C-x ) and C-x e among them. *)
LEMMA BeginOK ==
  ASSUME NEW s, Good(s), Ready(s)
  PROVE  LET t == BeginMacro(s)
         IN  /\ Good(t) /\ Ready(t)
             /\ Playing(s) => t.macro = s.macro /\ t.recording = s.recording
<1>1. CASE s.playback # 0 \/ s.recording  BY <1>1 DEF BeginMacro
<1>2. CASE s.playback = 0 /\ ~s.recording
  <2> DEFINE t == BeginMacro(s)
  <2>1. t = [stack |-> s.stack, prefix |-> s.prefix, recording |-> TRUE,
             macro |-> <<>>, playback |-> 0, reps |-> s.reps]
    <3>1. t = [s EXCEPT !.recording = TRUE, !.macro = <<>>]  BY <1>2 DEF BeginMacro
    <3>2. s = [stack |-> s.stack, prefix |-> s.prefix, recording |-> s.recording,
               macro |-> s.macro, playback |-> s.playback, reps |-> s.reps]
      BY GoodIs
    <3> HIDE DEF t
    <3>3. QED  BY <1>2, <3>1, <3>2
  <2>2. ~Playing(s)  BY <1>2 DEF Ready
  <2>3. MacroOK(<<>>) /\ Boundary(<<>>, 0)
    <3>1. Len(<<>>) = 0 /\ DOMAIN <<>> = {} /\ <<>> \in Seq(Key \cup {Fail, "bytes"})  OBVIOUS
    <3>2. QED  BY <3>1 DEF MacroOK, Boundary
  <2>4. ~\E i \in DOMAIN s.stack : s.stack[i] = "macro"  BY <2>2, PlayingIs
  <2> HIDE DEF t
  <2>5. Good(t)  BY <2>1, <2>3, <2>4, GoodIs, GoodMade
  <2>6. t.stack = s.stack  BY <2>1
  <2>7. ~Playing(t)  BY <2>4, <2>6, PlayingIs
  <2>8. QED  BY <2>2, <2>5, <2>7 DEF Ready, t
<1>3. s.playback \in Nat  BY GoodIs
<1>4. QED  BY <1>1, <1>2

LEMMA EndOK ==
  ASSUME NEW s, Good(s), Ready(s)
  PROVE  LET t == EndMacro(s)
         IN  /\ Good(t) /\ Ready(t)
             /\ Playing(s) => t.macro = s.macro /\ t.recording = s.recording
<1>1. CASE s.playback # 0  BY <1>1 DEF EndMacro
<1>2. CASE s.playback = 0
  <2> DEFINE t == EndMacro(s)
  <2>1. t = [stack |-> s.stack, prefix |-> s.prefix, recording |-> FALSE,
             macro |-> s.macro, playback |-> s.playback, reps |-> s.reps]
    <3>1. t = [s EXCEPT !.recording = FALSE]  BY <1>2 DEF EndMacro
    <3>2. s = [stack |-> s.stack, prefix |-> s.prefix, recording |-> s.recording,
               macro |-> s.macro, playback |-> s.playback, reps |-> s.reps]
      BY GoodIs
    <3> HIDE DEF t
    <3>3. QED  BY <3>1, <3>2
  <2>2. ~Playing(s)  BY <1>2 DEF Ready
  <2>3. ~\E i \in DOMAIN s.stack : s.stack[i] = "macro"  BY <2>2, PlayingIs
  <2> HIDE DEF t
  <2>4. Good(t)  BY <1>2, <2>1, <2>3, GoodIs, GoodMade DEF Good
  <2>5. t.stack = s.stack  BY <2>1
  <2>6. ~Playing(t)  BY <2>3, <2>5, PlayingIs
  <2>7. QED  BY <2>2, <2>4, <2>6 DEF Ready, t
<1>3. QED  BY <1>1, <1>2

(* A macro starts only where none plays, with its player on top. *)
LEMMA ExecOK ==
  ASSUME NEW s, Good(s), Ready(s), NEW n \in 1..MaxReps
  PROVE  LET t == ExecMacro(s, n)
         IN  /\ Good(t) /\ Top(t)
             /\ Playing(s) => t.macro = s.macro /\ t.recording = s.recording
<1>1. CASE s.recording \/ s.playback # 0 \/ s.macro = <<>>
  <2>1. Top(s)  BY DEF Top, Ready
  <2>2. QED  BY <1>1, <2>1 DEF ExecMacro
<1>2. CASE ~s.recording /\ s.playback = 0 /\ s.macro # <<>>
  <2> DEFINE t == ExecMacro(s, n)
             st == Append(s.stack, "macro")
  <2>1. t = [stack |-> st, prefix |-> s.prefix, recording |-> FALSE,
             macro |-> s.macro, playback |-> 0, reps |-> n]
    <3>1. t = [[s EXCEPT !.stack = st] EXCEPT !.reps = n]  BY <1>2 DEF ExecMacro, Push
    <3>2. s = [stack |-> s.stack, prefix |-> s.prefix, recording |-> s.recording,
               macro |-> s.macro, playback |-> s.playback, reps |-> s.reps]
      BY GoodIs
    <3>3. s.playback = 0 /\ s.recording = FALSE  BY <1>2, GoodIs
    <3> HIDE DEF t, st
    <3>4. [s EXCEPT !.stack = st] =
            [stack |-> st, prefix |-> s.prefix, recording |-> s.recording,
             macro |-> s.macro, playback |-> s.playback, reps |-> s.reps]
      BY <3>2
    <3>5. QED  BY <3>1, <3>3, <3>4
  <2>2. ~Playing(s)  BY <1>2 DEF Ready
  <2>3. ~\E i \in DOMAIN s.stack : s.stack[i] = "macro"  BY <2>2, PlayingIs
  <2>4. StackOK(st) /\ Last(st) = "macro"
    <3> DEFINE u == s.stack
    <3>1. StackOK(u) /\ ~(\E i \in DOMAIN u : u[i] = "macro") /\ "macro" \in Frame
      BY <2>3, GoodIs DEF Frame
    <3> HIDE DEF u
    <3>2. StackOK(Append(u, "macro")) /\ Last(Append(u, "macro")) = "macro"
      BY <3>1, StackPush
    <3>3. QED  BY <3>2 DEF u
  <2>5. Boundary(s.macro, 0)
    <3>1. Len(s.macro) \in Nat  BY GoodIs DEF MacroOK
    <3>2. QED  BY <3>1 DEF Boundary
  <2> HIDE DEF t, st
  <2>6. Good(t)
    <3>1. n \in 0..MaxReps  BY BoundAssumption
    <3>2. QED  BY <2>1, <2>4, <2>5, <3>1, GoodIs, GoodMade
  <2>7. Top(t)  BY <2>1, <2>4 DEF Top
  <2>8. QED  BY <2>2, <2>6, <2>7 DEF t
<1>3. QED  BY <1>1, <1>2

LEMMA CommandOK ==
  ASSUME NEW s, Good(s), Ready(s), NEW k \in Key \cup {Fail}, NEW n \in 1..MaxReps
  PROVE  LET t == Command(s, k, n)
         IN  /\ Good(t) /\ Top(t)
             /\ Playing(s) => t.macro = s.macro /\ t.recording = s.recording
<1>1. ASSUME NEW t, Ready(t)  PROVE Top(t)  BY <1>1 DEF Ready, Top
<1>2. {"C-x x", "register", "zap", "quoted", "prompt"} \subseteq Frame \ {"macro"}  BY DEF Frame
<1>3. CASE s.prefix
  <2> DEFINE t == [s EXCEPT !.prefix = FALSE]
  <2>1. /\ Good(t) /\ Ready(t) /\ (Playing(t) <=> Playing(s))
        /\ t.macro = s.macro /\ t.recording = s.recording
    BY PrefixOK
  <2>2. Command(s, k, n) = CtrlX(s, k, n)  BY <1>3 DEF Command
  <2>3. CtrlX(s, k, n) \in {BeginMacro(t), EndMacro(t), ExecMacro(t, n), Push(t, "C-x x"),
                            Push(t, "register"), t}
    BY DEF CtrlX
  <2> HIDE DEF t
  <2>4. CASE CtrlX(s, k, n) = BeginMacro(t)  BY <1>1, <2>1, <2>2, <2>4, BeginOK
  <2>5. CASE CtrlX(s, k, n) = EndMacro(t)  BY <1>1, <2>1, <2>2, <2>5, EndOK
  <2>6. CASE CtrlX(s, k, n) = ExecMacro(t, n)  BY <2>1, <2>2, <2>6, ExecOK
  <2>7. ASSUME NEW f \in {"C-x x", "register"}, CtrlX(s, k, n) = Push(t, f)
        PROVE  /\ Good(Push(t, f)) /\ Top(Push(t, f))
               /\ Push(t, f).macro = s.macro /\ Push(t, f).recording = s.recording
    <3>1. f \in Frame \ {"macro"}  BY <1>2
    <3>2. QED  BY <1>1, <2>1, <3>1, PushOK
  <2>8. CASE CtrlX(s, k, n) = t  BY <1>1, <2>1, <2>2, <2>8
  <2>9. QED  BY <2>2, <2>3, <2>4, <2>5, <2>6, <2>7, <2>8
<1>4. CASE ~s.prefix
  <2>1. Command(s, k, n) \in {[s EXCEPT !.prefix = TRUE], Push(s, "zap"), Push(s, "quoted"),
                              Push(s, "prompt"), s}
    BY <1>4 DEF Command
  <2>2. CASE Command(s, k, n) = [s EXCEPT !.prefix = TRUE]  BY <1>1, <2>2, PrefixOK
  <2>3. ASSUME NEW f \in {"zap", "quoted", "prompt"}
        PROVE  /\ Good(Push(s, f)) /\ Top(Push(s, f))
               /\ Push(s, f).macro = s.macro /\ Push(s, f).recording = s.recording
    <3>1. f \in Frame \ {"macro"}  BY <1>2
    <3>2. QED  BY <1>1, <3>1, PushOK
  <2>4. CASE Command(s, k, n) = s  BY <1>1, <2>4
  <2>5. QED  BY <2>1, <2>2, <2>3, <2>4
<1>5. QED  BY <1>3, <1>4

(* A reader other than the player gets a key, or -1. *)
LEMMA DeliverOK ==
  ASSUME NEW s, Good(s), Ready(s), s.stack = e.stack, Reader # "macro",
         NEW k \in Key \cup {Fail}, NEW n \in 1..MaxReps
  PROVE  LET t == Deliver(s, k, n)
         IN  /\ Good(t) /\ Top(t)
             /\ Playing(s) => t.macro = s.macro /\ t.recording = s.recording
<1> DEFINE r == Record(s, k)
<1>1. ASSUME NEW t, Ready(t)  PROVE Top(t)  BY <1>1 DEF Ready, Top
<1>2. /\ Good(r) /\ Ready(r) /\ (Playing(s) => r = s)
      /\ r.stack = s.stack /\ (Playing(r) <=> Playing(s))
  BY RecordOK
<1>3. Last(s.stack) = Reader  BY DEF Reader
<1>4. ASSUME Reader # "main"
      PROVE  /\ Good(Pop(s)) /\ Top(Pop(s))
             /\ Pop(s).macro = s.macro /\ Pop(s).recording = s.recording
             /\ Good(Pop(r)) /\ Top(Pop(r))
             /\ Pop(r).macro = r.macro /\ Pop(r).recording = r.recording
  <2>1. Last(s.stack) \notin {"main", "macro"}  BY <1>3, <1>4
  <2>2. Last(r.stack) \notin {"main", "macro"}  BY <1>2, <2>1
  <2> HIDE DEF r
  <2>3. QED  BY <1>1, <1>2, <2>1, <2>2, PopOK
<1>5. /\ Good(Command(r, k, n)) /\ Top(Command(r, k, n))
      /\ Playing(r) => /\ Command(r, k, n).macro = r.macro
                       /\ Command(r, k, n).recording = r.recording
  <2> HIDE DEF r
  <2>1. QED  BY <1>2, CommandOK
<1>6. Reader \in Frame
  <2>1. s.stack \in Seq(Frame) /\ s.stack # <<>>  BY GoodIs DEF StackOK
  <2>2. Len(s.stack) \in DOMAIN s.stack  BY <2>1
  <2>3. QED  BY <2>1, <2>2, <1>3 DEF Last
<1>7. CASE Reader = "main"
  <2>1. Deliver(s, k, n) \in {s, Command(r, k, n)}  BY <1>7 DEF Deliver
  <2>2. QED  BY <1>1, <1>2, <1>5, <2>1
<1>8. CASE Reader = "prompt"
  <2>1. Deliver(s, k, n) \in {s, Pop(r), r, Command(r, k, n)}  BY <1>8 DEF Deliver
  <2>2. QED  BY <1>1, <1>2, <1>4, <1>5, <1>8, <2>1
<1>9. CASE Reader = "zap"
  <2>1. Deliver(s, k, n) = Pop(s)  BY <1>9 DEF Deliver
  <2>2. QED  BY <1>4, <1>9, <2>1
<1>10. CASE Reader = "quoted"
  <2>1. Deliver(s, k, n) = Pop(r)  BY <1>10 DEF Deliver
  <2>2. QED  BY <1>2, <1>4, <1>10, <2>1
<1>11. CASE Reader = "C-x x"
  <2>1. Deliver(s, k, n) \in {Pop(s), Pop(r)}  BY <1>11 DEF Deliver, SubKey
  <2>2. QED  BY <1>2, <1>4, <1>11, <2>1
<1>12. CASE Reader = "register"
  <2>1. Deliver(s, k, n) \in {Pop(r), s}  BY <1>12 DEF Deliver
  <2>2. QED  BY <1>1, <1>2, <1>4, <1>12, <2>1
<1>13. QED
  <2>1. Reader \in {"main", "prompt", "zap", "quoted", "C-x x", "register"}
    BY <1>6 DEF Frame
  <2>2. QED  BY <2>1, <1>7, <1>8, <1>9, <1>10, <1>11, <1>12

(* The player has read a key. *)
LEMMA AdvanceOK ==
  ASSUME NEW s, Good(s), Playing(s), s.playback < Len(s.macro)
  PROVE  LET k == s.macro[s.playback + 1]
             t == [s EXCEPT !.playback = s.playback + Len(Entries(k))]
         IN  /\ k \in Key \cup {Fail} /\ Good(t) /\ Ready(t) /\ Playing(t)
             /\ t.stack = s.stack /\ t.macro = s.macro /\ t.recording = s.recording
             /\ t.prefix = s.prefix /\ t.playback = s.playback + Len(Entries(k))
<1> DEFINE k == s.macro[s.playback + 1]
           i == s.playback + Len(Entries(k))
           t == [s EXCEPT !.playback = i]
<1>1. MacroOK(s.macro) /\ Boundary(s.macro, s.playback)  BY DEF Good
<1>2. k \in Key \cup {Fail} /\ Boundary(s.macro, i) /\ i \in Nat \ {0}
  <2> DEFINE m == s.macro
             j == s.playback
  <2>1. MacroOK(m) /\ Boundary(m, j) /\ j < Len(m)  BY <1>1
  <2> HIDE DEF m, j
  <2>2. m[j + 1] \in Key \cup {Fail} /\ Boundary(m, j + Len(Entries(m[j + 1])))
        /\ j + Len(Entries(m[j + 1])) \in Nat \ {0}
    BY <2>1, NextKey
  <2>3. QED  BY <2>2 DEF m, j
<1> HIDE DEF k, i
<1>3. t = [stack |-> s.stack, prefix |-> s.prefix, recording |-> s.recording,
           macro |-> s.macro, playback |-> i, reps |-> s.reps]
  BY GoodIs
<1>4. /\ t.stack = s.stack /\ t.macro = s.macro /\ t.recording = s.recording
      /\ t.playback = i /\ t.prefix = s.prefix
  BY <1>3
<1>5. Playing(t)  BY <1>4, PlayingIs
<1> HIDE DEF t
<1>6. Good(t)
  <2>1. \E x \in DOMAIN s.stack : s.stack[x] = "macro"  BY PlayingIs
  <2>2. s.recording = FALSE  BY GoodIs DEF Good
  <2>3. QED  BY <1>2, <1>3, <2>1, <2>2, GoodIs, GoodMade
<1>7. QED  BY <1>2, <1>4, <1>5, <1>6 DEF t, i, k, Ready

-----------------------------------------------------------------------------
(* The steps *)

Undisturbed == Playing(e) => e'.macro = e.macro /\ ~e'.recording

EditorOK == Good(e) /\ Top(e)

LEMMA ReaderIsPlaying ==
  ASSUME Good(e), Reader = "macro"
  PROVE  Playing(e)
<1>1. e.stack \in Seq(Frame) /\ e.stack # <<>>  BY GoodIs DEF StackOK
<1>2. Len(e.stack) \in DOMAIN e.stack  BY <1>1
<1>3. QED  BY <1>2, PlayingIs DEF Reader, Last

(* A key from the terminal comes where nothing plays. *)
LEMMA GotOK ==
  ASSUME EditorOK, AtTerminal, NEW k \in Key \cup {Fail}, Got(k)
  PROVE  EditorOK' /\ Undisturbed
<1>1. PICK n \in 1..MaxReps : e' = Deliver(e, k, n)  BY DEF Got
<1>2. Good(e) /\ Reader # "macro" /\ e.playback = 0  BY DEF EditorOK, AtTerminal
<1>3. ~Playing(e)  BY <1>2 DEF EditorOK, Top, Reader
<1>4. Ready(e)  BY <1>3 DEF Ready
<1>5. Good(Deliver(e, k, n)) /\ Top(Deliver(e, k, n))  BY <1>2, <1>4, DeliverOK
<1>6. Good(e') /\ Top(e')  BY <1>1, <1>5
<1>7. QED  BY <1>3, <1>6 DEF EditorOK, Undisturbed

LEMMA PlayKeyOK ==
  ASSUME EditorOK, PlayKey
  PROVE  EditorOK' /\ Undisturbed
<1> DEFINE k == e.macro[e.playback + 1]
           s == [e EXCEPT !.playback = e.playback + Len(Entries(k))]
<1>1. Good(e) /\ Reader = "macro" /\ e.playback < Len(e.macro)  BY DEF EditorOK, PlayKey
<1>2. Playing(e)  BY <1>1, ReaderIsPlaying
<1>3. /\ k \in Key \cup {Fail} /\ Good(s) /\ Ready(s) /\ Playing(s)
      /\ s.macro = e.macro /\ s.recording = e.recording
  BY <1>1, <1>2, AdvanceOK
<1>4. s = [e EXCEPT !.playback = After(@)]  BY DEF After
<1>5. e' = Command(s, k, 1)  BY <1>4 DEF PlayKey
<1>6. 1 \in 1..MaxReps  BY BoundAssumption
<1> HIDE DEF k, s
<1>7. /\ Good(Command(s, k, 1)) /\ Top(Command(s, k, 1))
      /\ Command(s, k, 1).macro = s.macro /\ Command(s, k, 1).recording = s.recording
  BY <1>3, <1>6, CommandOK
<1>8. ~e.recording  BY <1>1, <1>2 DEF Good
<1>9. QED  BY <1>3, <1>5, <1>7, <1>8 DEF EditorOK, Undisturbed

(* What the end of a macro assigns. *)
IsRecord(s) ==
  s = [stack |-> s.stack, prefix |-> s.prefix, recording |-> s.recording,
       macro |-> s.macro, playback |-> s.playback, reps |-> s.reps]

LEMMA TwoFields ==
  ASSUME NEW s, IsRecord(s), NEW x, NEW y
  PROVE  [s EXCEPT !.playback = x, !.reps = y] =
           [stack |-> s.stack, prefix |-> s.prefix, recording |-> s.recording,
            macro |-> s.macro, playback |-> x, reps |-> y]
<1>1. [s EXCEPT !.playback = x, !.reps = y] = [[s EXCEPT !.playback = x] EXCEPT !.reps = y]
  OBVIOUS
<1> DEFINE v == [s EXCEPT !.playback = x]
<1>2. v = [stack |-> s.stack, prefix |-> s.prefix, recording |-> s.recording,
           macro |-> s.macro, playback |-> x, reps |-> s.reps]
  BY DEF IsRecord
<1> HIDE DEF v
<1>3. [v EXCEPT !.reps = y] =
        [stack |-> s.stack, prefix |-> s.prefix, recording |-> s.recording,
         macro |-> s.macro, playback |-> x, reps |-> y]
  BY <1>2
<1>4. QED  BY <1>1, <1>3 DEF v

LEMMA EndFields ==
  ASSUME NEW s, Good(s), s.recording = FALSE
  PROVE  /\ [s EXCEPT !.playback = 0, !.reps = s.reps - 1] =
               [stack |-> s.stack, prefix |-> s.prefix, recording |-> FALSE,
                macro |-> s.macro, playback |-> 0, reps |-> s.reps - 1]
         /\ [Pop(s) EXCEPT !.playback = 0, !.reps = 0] =
               [stack |-> Front(s.stack), prefix |-> s.prefix, recording |-> FALSE,
                macro |-> s.macro, playback |-> 0, reps |-> 0]
<1> DEFINE st == Front(s.stack)
           u == Pop(s)
<1>1. IsRecord(s)  BY GoodIs DEF IsRecord
<1>2. u = [s EXCEPT !.stack = st]  BY DEF Pop
<1> HIDE DEF st, u
<1>3. u = [stack |-> st, prefix |-> s.prefix, recording |-> s.recording,
           macro |-> s.macro, playback |-> s.playback, reps |-> s.reps]
  BY <1>1, <1>2 DEF IsRecord
<1>4. /\ IsRecord(u) /\ u.stack = st /\ u.prefix = s.prefix
      /\ u.recording = s.recording /\ u.macro = s.macro
  BY <1>3 DEF IsRecord
<1>5. [s EXCEPT !.playback = 0, !.reps = s.reps - 1] =
        [stack |-> s.stack, prefix |-> s.prefix, recording |-> s.recording,
         macro |-> s.macro, playback |-> 0, reps |-> s.reps - 1]
  BY <1>1, TwoFields
<1>6. [u EXCEPT !.playback = 0, !.reps = 0] =
        [stack |-> u.stack, prefix |-> u.prefix, recording |-> u.recording,
         macro |-> u.macro, playback |-> 0, reps |-> 0]
  BY <1>4, TwoFields
<1>7. QED  BY <1>4, <1>5, <1>6 DEF st, u

LEMMA PlayEndOK ==
  ASSUME EditorOK, PlayEnd
  PROVE  EditorOK' /\ Undisturbed
<1>1. Good(e) /\ Last(e.stack) = "macro"  BY DEF EditorOK, PlayEnd, Reader
<1>2. Playing(e) /\ e.recording = FALSE  BY <1>1, ReaderIsPlaying, GoodIs DEF Good, Reader
<1>3. Boundary(e.macro, 0)
  <2>1. Len(e.macro) \in Nat  BY <1>1, GoodIs DEF MacroOK
  <2>2. QED  BY <2>1 DEF Boundary
<1>4. CASE e.reps > 1
  <2> DEFINE t == [stack |-> e.stack, prefix |-> e.prefix, recording |-> FALSE,
                   macro |-> e.macro, playback |-> 0, reps |-> e.reps - 1]
  <2>1. e' = t
    <3>1. e' = [e EXCEPT !.playback = 0, !.reps = e.reps - 1]  BY <1>4 DEF PlayEnd
    <3>2. QED  BY <1>1, <1>2, <3>1, EndFields
  <2>2. e.reps - 1 \in 0..MaxReps
    <3>1. e.reps \in 0..MaxReps /\ MaxReps \in Nat  BY <1>1, GoodIs, BoundAssumption
    <3>2. QED  BY <1>4, <3>1
  <2>3. Good(t)  BY <1>1, <1>3, <2>2, GoodIs, GoodMade
  <2>4. Top(t)  BY <1>1 DEF Top
  <2>5. t.macro = e.macro /\ t.recording = FALSE  OBVIOUS
  <2> HIDE DEF t
  <2>6. QED  BY <2>1, <2>3, <2>4, <2>5 DEF EditorOK, Undisturbed
<1>5. CASE ~(e.reps > 1)
  <2> DEFINE st == Front(e.stack)
             t == [stack |-> st, prefix |-> e.prefix, recording |-> FALSE,
                   macro |-> e.macro, playback |-> 0, reps |-> 0]
  <2>1. e' = t
    <3>1. e' = [Pop(e) EXCEPT !.playback = 0, !.reps = 0]  BY <1>5 DEF PlayEnd
    <3>2. QED  BY <1>1, <1>2, <3>1, EndFields
  <2>2. StackOK(st) /\ ~\E i \in DOMAIN st : st[i] = "macro"
    <3> DEFINE u == e.stack
    <3>1. StackOK(u) /\ Last(u) = "macro" /\ Last(u) # "main"  BY <1>1, GoodIs
    <3> HIDE DEF u
    <3>2. StackOK(Front(u)) /\ \A i \in DOMAIN Front(u) : Front(u)[i] # "macro"
      BY <3>1, StackPop
    <3>3. QED  BY <3>2 DEF u
  <2>3. 0 \in 0..MaxReps  BY BoundAssumption
  <2>4. t.stack = st /\ t.macro = e.macro /\ t.recording = FALSE  OBVIOUS
  <2> HIDE DEF st
  <2>5. Good(t)  BY <1>1, <1>3, <2>2, <2>3, GoodIs, GoodMade
  <2> HIDE DEF t
  <2>6. ~Playing(t)  BY <2>2, <2>4, PlayingIs
  <2>7. QED  BY <2>1, <2>4, <2>5, <2>6 DEF EditorOK, Undisturbed, Top
<1>6. QED  BY <1>4, <1>5

LEMMA ReadMacroOK ==
  ASSUME EditorOK, ReadMacro
  PROVE  EditorOK' /\ Undisturbed
<1>1. Good(e) /\ Reader # "macro" /\ e.playback # 0  BY DEF EditorOK, ReadMacro
<1>2. Playing(e) /\ ~e.recording  BY <1>1 DEF Good
<1>3. 1 \in 1..MaxReps  BY BoundAssumption
<1>4. CASE e.playback >= Len(e.macro)
  <2>1. e' = Deliver(e, Fail, 1)  BY <1>4 DEF ReadMacro
  <2>2. Ready(e)  BY <1>1 DEF Ready
  <2>3. /\ Good(Deliver(e, Fail, 1)) /\ Top(Deliver(e, Fail, 1))
        /\ Deliver(e, Fail, 1).macro = e.macro /\ Deliver(e, Fail, 1).recording = e.recording
    BY <1>1, <1>2, <1>3, <2>2, DeliverOK
  <2>4. QED  BY <1>2, <2>1, <2>3 DEF EditorOK, Undisturbed
<1>5. CASE ~(e.playback >= Len(e.macro))
  <2> DEFINE k == e.macro[e.playback + 1]
             s == [e EXCEPT !.playback = e.playback + Len(Entries(k))]
  <2>1. e.playback < Len(e.macro)
    <3>1. e.playback \in Nat /\ Len(e.macro) \in Nat  BY <1>1, GoodIs DEF MacroOK
    <3>2. QED  BY <1>5, <3>1
  <2>2. /\ k \in Key \cup {Fail} /\ Good(s) /\ Ready(s) /\ Playing(s)
        /\ s.stack = e.stack /\ s.macro = e.macro /\ s.recording = e.recording
    BY <1>1, <1>2, <2>1, AdvanceOK
  <2>3. s = [e EXCEPT !.playback = After(@)]  BY DEF After
  <2>4. e' = Deliver(s, k, 1)  BY <1>5, <2>3 DEF ReadMacro
  <2> HIDE DEF k, s
  <2>5. /\ Good(Deliver(s, k, 1)) /\ Top(Deliver(s, k, 1))
        /\ Deliver(s, k, 1).macro = s.macro /\ Deliver(s, k, 1).recording = s.recording
    BY <1>1, <1>3, <2>2, DeliverOK
  <2>6. QED  BY <1>2, <2>2, <2>4, <2>5 DEF EditorOK, Undisturbed
<1>6. QED  BY <1>4, <1>5

(* A byte that completes a key gives a key that can be read. *)
LEMMA ByteRead ==
  ASSUME NEW b, NEW rest, NEW cut, ReadByte(b, rest, cut),
         LET d == Decode(tty.state, b) IN d.state = "ground" => d.key \in Key
  PROVE  UNCHANGED <<e, h>> \/ \E k \in Key \cup {Fail} : Got(k)
<1> DEFINE d == Decode(tty.state, b)
<1>1. CASE d.state = "ground"
  <2>1. Got(d.key) /\ d.key \in Key \cup {Fail}  BY <1>1 DEF ReadByte
  <2> HIDE DEF d
  <2>2. QED  BY <2>1
<1>2. CASE d.state # "ground"  BY <1>2 DEF ReadByte
<1>3. QED  BY <1>1, <1>2

LEMMA Steps ==
  ASSUME TtyOK, [Next]_vars
  PROVE  \/ UNCHANGED <<e, h>>
         \/ AtTerminal /\ \E k \in Key \cup {Fail} : Got(k)
         \/ PlayKey \/ PlayEnd \/ ReadMacro
<1> DEFINE Read == \/ UNCHANGED <<e, h>>
                   \/ AtTerminal /\ \E k \in Key \cup {Fail} : Got(k)
<1>1. ASSUME NEW k \in Keystroke, Type(k)  PROVE Read
  <2>1. tty.state \in {"ground", "esc"}  BY <1>1, NothingLeft DEF Type, TtyOK
  <2>2. LET d == Decode(tty.state, Head(Bytes(k))) IN d.state = "ground" => d.key \in Key
    BY <2>1, FirstByte
  <2>3. QED  BY <1>1, <2>2, ByteRead DEF Type
<1>2. ASSUME Arrive  PROVE Read
  <2>1. tty.rest # <<>> /\ AtTerminal /\ ReadByte(Head(tty.rest), Tail(tty.rest), tty.cut)
    BY <1>2 DEF Arrive
  <2>2. LET d == Decode(tty.state, Head(tty.rest)) IN d.state = "ground" => d.key \in Key
    <3>1. CASE tty.cut  BY <2>1, <3>1, TornStep DEF TtyOK
    <3>2. CASE ~tty.cut  BY <2>1, <3>2, WholeStep DEF TtyOK
    <3>3. QED  BY <3>1, <3>2
  <2>3. QED  BY <2>1, <2>2, ByteRead
<1>3. ASSUME Signal  PROVE Read
  <2>1. AtTerminal /\ (Got(Fail) \/ Got("Bare"))  BY <1>3 DEF Signal
  <2>2. "Bare" \in Key  BY DEF Key
  <2>3. QED  BY <2>1, <2>2
<1>4. CASE UNCHANGED vars  BY <1>4 DEF vars
<1>5. QED  BY <1>1, <1>2, <1>3, <1>4 DEF Next, Play

LEMMA EditorKept ==
  ASSUME EditorOK, TtyOK, [Next]_vars
  PROVE  EditorOK' /\ Undisturbed
<1>1. CASE UNCHANGED <<e, h>>
  <2>1. UNCHANGED e  BY <1>1
  <2>2. Playing(e) => ~e.recording  BY DEF EditorOK, Good
  <2>3. QED  BY <2>1, <2>2 DEF EditorOK, Undisturbed
<1>2. ASSUME NEW k \in Key \cup {Fail}, AtTerminal, Got(k)  PROVE EditorOK' /\ Undisturbed
  BY <1>2, GotOK
<1>3. QED  BY <1>1, <1>2, Steps, PlayKeyOK, PlayEndOK, ReadMacroOK

LEMMA EditorInit == Init => EditorOK
<1> SUFFICES ASSUME Init  PROVE EditorOK
  OBVIOUS
<1> DEFINE st == <<"main">>
<1>1. e = [stack |-> st, prefix |-> FALSE, recording |-> FALSE,
           macro |-> <<>>, playback |-> 0, reps |-> 0]
  BY DEF Init
<1>2. DOMAIN st = {1} /\ st[1] = "main" /\ st \in Seq(Frame) /\ st # <<>>  BY DEF Frame
<1> HIDE DEF st
<1>3. StackOK(st) /\ ~\E i \in DOMAIN st : st[i] = "macro"  BY <1>2 DEF StackOK
<1>4. MacroOK(<<>>) /\ Boundary(<<>>, 0)
  <2>1. Len(<<>>) = 0 /\ DOMAIN <<>> = {} /\ <<>> \in Seq(Key \cup {Fail, "bytes"})  OBVIOUS
  <2>2. QED  BY <2>1 DEF MacroOK, Boundary
<1>5. 0 \in 0..MaxReps  BY BoundAssumption
<1>6. Good(e)  BY <1>1, <1>3, <1>4, <1>5, GoodMade
<1>7. e.stack = st  BY <1>1
<1>8. ~Playing(e)  BY <1>3, <1>7, PlayingIs
<1>9. QED  BY <1>6, <1>8 DEF EditorOK, Top

(* Nothing is read past the end of a macro nor in the middle of a           *)
(* character, main is always the bottom of the call stack, and the decoder  *)
(* is in one of its states (keymap.c execMacro, terminal.c readKey).        *)
THEOREM TypeCorrect == Spec => []TypeOK
<1>1. EditorOK /\ TtyOK => TypeOK
  <2> SUFFICES ASSUME EditorOK, TtyOK  PROVE TypeOK
    OBVIOUS
  <2>1. Good(e)  BY DEF EditorOK
  <2>2. e \in State /\ e.stack # <<>> /\ e.stack[1] = "main"  BY <2>1 DEF Good, StackOK
  <2>3. e.playback <= Len(e.macro) /\ (e.playback \in 1..Len(e.macro) - 1 => e.macro[e.playback + 1] # "bytes")
    BY <2>1 DEF Good, Boundary
  <2>4. \A i \in DOMAIN e.macro : e.macro[i] = "bytes" => i > 1 /\ e.macro[i - 1] = "Uni"
    BY <2>1 DEF Good, MacroOK
  <2>5. tty.state \in {"ground", "esc", "csi", "csi 1", "csi n", "ss3", "utf8"}
    BY DEF TtyOK, Whole, Torn
  <2>6. QED  BY <2>2, <2>3, <2>4, <2>5 DEF TypeOK
<1>2. QED  BY <1>1, TtyInit, TtyKept, EditorInit, EditorKept, PTL DEF Spec

(* A macro is neither recorded over nor started again while it is played    *)
(* (keymap.c dispatchMacro, execMacro), at any depth of prompts and for     *)
(* macros of any length.                                                    *)
THEOREM PlaybackIsUndisturbed == Spec => PlaybackUndisturbed
<1>1. ASSUME EditorOK, EditorOK', Undisturbed
      PROVE  Playing(e) => /\ e'.macro = e.macro /\ ~e'.recording
                           /\ Quantify(DOMAIN e'.stack, LAMBDA i : e'.stack[i] = "macro") <= 1
  <2> DEFINE S == {i \in DOMAIN e'.stack : e'.stack[i] = "macro"}
  <2>1. \A i, j \in S : i = j  BY <1>1 DEF EditorOK, Good, StackOK
  <2>2. Cardinality(S) <= 1
    <3> HIDE DEF S
    <3>1. CASE S = {}  BY <3>1, FS_EmptySet
    <3>2. CASE S # {}
      <4>1. PICK x : S = {x}  BY <2>1, <3>2
      <4>2. Cardinality({x}) = 1  BY FS_Singleton
      <4>3. QED  BY <4>1, <4>2
    <3>3. QED  BY <3>1, <3>2
  <2>3. Quantify(DOMAIN e'.stack, LAMBDA i : e'.stack[i] = "macro") = Cardinality(S)
    BY DEF Quantify
  <2>4. QED  BY <1>1, <2>2, <2>3 DEF Undisturbed
<1>2. EditorOK /\ TtyOK /\ [Next]_vars => EditorOK' /\ Undisturbed  BY EditorKept
<1>3. QED  BY <1>1, <1>2, TtyInit, TtyKept, EditorInit, PTL DEF Spec, PlaybackUndisturbed

-----------------------------------------------------------------------------
(* Recording and replaying *)

(* Where a key finds the readers, and where it leaves them while a macro is *)
(* recorded or played.                                                      *)
At(s) == [stack |-> s.stack, prefix |-> s.prefix]

Does(at, k) ==
  IF at.prefix
  THEN [prefix |-> FALSE,
        stack  |-> IF k = "x" THEN Append(at.stack, "C-x x")
                   ELSE IF k = "r" THEN Append(at.stack, "register") ELSE at.stack]
  ELSE [prefix |-> k = "C-x",
        stack  |-> IF k = "Zap" THEN Append(at.stack, "zap")
                   ELSE IF k = "C-q" THEN Append(at.stack, "quoted")
                   ELSE IF k = "C-s" /\ "prompt" \notin ToSet(at.stack)
                   THEN Append(at.stack, "prompt") ELSE at.stack]

Goes(at, k) ==
  CASE Last(at.stack) = "main"   -> Does(at, k)
    [] Last(at.stack) = "prompt" -> IF k \in {"Ret", "C-g"}
                                    THEN [prefix |-> at.prefix, stack |-> Front(at.stack)]
                                    ELSE IF k = "C-s" THEN at ELSE Does(at, k)
    [] OTHER                     -> [prefix |-> at.prefix, stack |-> Front(at.stack)]

(* The keys a reader takes and records. *)
Taken(r, k) ==
  /\ r \in {"main", "prompt", "C-x x"} => k # Fail
  /\ r = "register" => k \in RegisterName
  /\ r # "zap"

LEMMA AtIs ==
  ASSUME NEW s, NEW t, s.stack = t.stack, s.prefix = t.prefix
  PROVE  At(s) = At(t)
BY DEF At

LEMMA FieldsOfPush ==
  ASSUME NEW s, Good(s), NEW f
  PROVE  /\ Push(s, f).stack = Append(s.stack, f) /\ Push(s, f).prefix = s.prefix
         /\ Push(s, f).recording = s.recording /\ Push(s, f).macro = s.macro
         /\ Push(s, f).playback = s.playback
<1> DEFINE st == Append(s.stack, f)
<1> HIDE DEF st
<1>1. Push(s, f) = [s EXCEPT !.stack = st]  BY DEF Push, st
<1>2. Push(s, f) = [stack |-> st, prefix |-> s.prefix, recording |-> s.recording,
                    macro |-> s.macro, playback |-> s.playback, reps |-> s.reps]
  BY <1>1, GoodIs
<1>3. QED  BY <1>2 DEF st

LEMMA FieldsOfPop ==
  ASSUME NEW s, Good(s)
  PROVE  /\ Pop(s).stack = Front(s.stack) /\ Pop(s).prefix = s.prefix
         /\ Pop(s).recording = s.recording /\ Pop(s).macro = s.macro
         /\ Pop(s).playback = s.playback
<1> DEFINE st == Front(s.stack)
<1> HIDE DEF st
<1>1. Pop(s) = [s EXCEPT !.stack = st]  BY DEF Pop, st
<1>2. Pop(s) = [stack |-> st, prefix |-> s.prefix, recording |-> s.recording,
                macro |-> s.macro, playback |-> s.playback, reps |-> s.reps]
  BY <1>1, GoodIs
<1>3. QED  BY <1>2 DEF st

LEMMA FieldsOfPrefix ==
  ASSUME NEW s, Good(s), NEW p \in BOOLEAN
  PROVE  LET t == [s EXCEPT !.prefix = p]
         IN  /\ t.stack = s.stack /\ t.prefix = p /\ t.recording = s.recording
             /\ t.macro = s.macro /\ t.playback = s.playback
<1>1. [s EXCEPT !.prefix = p] =
        [stack |-> s.stack, prefix |-> p, recording |-> s.recording,
         macro |-> s.macro, playback |-> s.playback, reps |-> s.reps]
  BY GoodIs
<1>2. QED  BY <1>1

LEMMA FieldsOfRecord ==
  ASSUME NEW s, Good(s), NEW k
  PROVE  LET t == Record(s, k)
         IN  /\ t.stack = s.stack /\ t.prefix = s.prefix /\ t.recording = s.recording
             /\ t.playback = s.playback
             /\ s.recording  => t.macro = s.macro \o Entries(k)
             /\ ~s.recording => t = s
<1>1. CASE ~s.recording  BY <1>1 DEF Record
<1>2. CASE s.recording
  <2> DEFINE m == s.macro \o Entries(k)
  <2> HIDE DEF m
  <2>1. Record(s, k) = [s EXCEPT !.macro = m]  BY <1>2 DEF Record, m
  <2>2. Record(s, k) = [stack |-> s.stack, prefix |-> s.prefix, recording |-> s.recording,
                        macro |-> m, playback |-> s.playback, reps |-> s.reps]
    BY <2>1, GoodIs
  <2>3. QED  BY <1>2, <2>2 DEF m
<1>3. QED  BY <1>1, <1>2

(* While a macro is recorded or played the keymap begins and plays none.    *)
LEMMA CommandIs ==
  ASSUME NEW s, Good(s), Ready(s), s.recording \/ s.playback # 0, NEW k, NEW n
  PROVE  LET t == Command(s, k, n)
         IN  /\ At(t) = Does(At(s), k) /\ t.macro = s.macro /\ t.playback = s.playback
             /\ s.recording /\ ~t.recording => t.prefix = FALSE /\ t.stack = s.stack
<1>1. /\ At(s).stack = s.stack /\ At(s).prefix = s.prefix
      /\ \A t : At(t) = [stack |-> t.stack, prefix |-> t.prefix]
  BY DEF At
<1>2. CASE s.prefix
  <2> DEFINE t == [s EXCEPT !.prefix = FALSE]
  <2>1. /\ t.stack = s.stack /\ t.prefix = FALSE /\ t.recording = s.recording
        /\ t.macro = s.macro /\ t.playback = s.playback
    BY FieldsOfPrefix
  <2>2. Good(t)  BY PrefixOK
  <2>3. Command(s, k, n) = CtrlX(s, k, n)  BY <1>2 DEF Command
  <2>4. CtrlX(s, k, n) = (CASE k = "(" -> BeginMacro(t) [] k = ")" -> EndMacro(t)
                            [] k = "e" -> ExecMacro(t, n)
                            [] k = "x" -> Push(t, "C-x x") [] k = "r" -> Push(t, "register")
                            [] OTHER -> t)
    BY DEF CtrlX
  <2>5. Does(At(s), k) =
          [prefix |-> FALSE,
           stack  |-> IF k = "x" THEN Append(s.stack, "C-x x")
                      ELSE IF k = "r" THEN Append(s.stack, "register") ELSE s.stack]
    BY <1>1, <1>2 DEF Does
  <2> HIDE DEF t
  <2>6. BeginMacro(t) = t /\ ExecMacro(t, n) = t
    BY <2>1 DEF BeginMacro, ExecMacro
  <2>7. CASE k = ")"
    <3>1. /\ EndMacro(t).stack = t.stack /\ EndMacro(t).prefix = t.prefix
          /\ EndMacro(t).macro = t.macro /\ EndMacro(t).playback = t.playback
      <4>1. CASE t.playback # 0  BY <4>1 DEF EndMacro
      <4>2. CASE t.playback = 0
        <5>1. EndMacro(t) = [t EXCEPT !.recording = FALSE]  BY <4>2 DEF EndMacro
        <5>2. EndMacro(t) = [stack |-> t.stack, prefix |-> t.prefix, recording |-> FALSE,
                             macro |-> t.macro, playback |-> t.playback, reps |-> t.reps]
          BY <2>2, <5>1, GoodIs
        <5>3. QED  BY <5>2
      <4>3. QED  BY <4>1, <4>2
    <3>2. Command(s, k, n) = EndMacro(t)  BY <2>3, <2>4, <2>7
    <3>3. QED  BY <1>1, <2>1, <2>5, <2>7, <3>1, <3>2
  <2>8. CASE k = "x"
    <3>1. Command(s, k, n) = Push(t, "C-x x")  BY <2>3, <2>4, <2>8
    <3>2. /\ Push(t, "C-x x").stack = Append(s.stack, "C-x x")
          /\ Push(t, "C-x x").prefix = FALSE /\ Push(t, "C-x x").recording = s.recording
          /\ Push(t, "C-x x").macro = s.macro /\ Push(t, "C-x x").playback = s.playback
      BY <2>1, <2>2, FieldsOfPush
    <3>3. Does(At(s), k) = [prefix |-> FALSE, stack |-> Append(s.stack, "C-x x")]
      BY <2>5, <2>8
    <3>4. QED  BY <1>1, <3>1, <3>2, <3>3
  <2>9. CASE k = "r"
    <3>1. Command(s, k, n) = Push(t, "register")  BY <2>3, <2>4, <2>9
    <3>2. /\ Push(t, "register").stack = Append(s.stack, "register")
          /\ Push(t, "register").prefix = FALSE /\ Push(t, "register").recording = s.recording
          /\ Push(t, "register").macro = s.macro /\ Push(t, "register").playback = s.playback
      BY <2>1, <2>2, FieldsOfPush
    <3>3. Does(At(s), k) = [prefix |-> FALSE, stack |-> Append(s.stack, "register")]
      BY <2>5, <2>9
    <3>4. QED  BY <1>1, <3>1, <3>2, <3>3
  <2>10. CASE k \notin {")", "x", "r"}
    <3>1. Command(s, k, n) = t  BY <2>3, <2>4, <2>6, <2>10
    <3>2. QED  BY <1>1, <2>1, <2>5, <2>10, <3>1
  <2>11. QED  BY <2>7, <2>8, <2>9, <2>10
<1>3. CASE ~s.prefix
  <2>1. Command(s, k, n) = (CASE k = "C-x" -> [s EXCEPT !.prefix = TRUE]
                              [] k = "Zap" -> Push(s, "zap") [] k = "C-q" -> Push(s, "quoted")
                              [] k = "C-s" -> (IF InPrompt(s) THEN s ELSE Push(s, "prompt"))
                              [] OTHER -> s)
    BY <1>3 DEF Command
  <2>2. Does(At(s), k) =
          [prefix |-> k = "C-x",
           stack  |-> IF k = "Zap" THEN Append(s.stack, "zap")
                      ELSE IF k = "C-q" THEN Append(s.stack, "quoted")
                      ELSE IF k = "C-s" /\ "prompt" \notin ToSet(s.stack)
                      THEN Append(s.stack, "prompt") ELSE s.stack]
    BY <1>1, <1>3 DEF Does
  <2>3. s.prefix = FALSE  BY <1>3, GoodIs
  <2>4. CASE k = "C-x"
    <3>1. Command(s, k, n) = [s EXCEPT !.prefix = TRUE]  BY <2>1, <2>4
    <3>2. (k = "C-x") = TRUE  BY <2>4
    <3>3. Does(At(s), k) = [prefix |-> TRUE, stack |-> s.stack]  BY <2>2, <2>4, <3>2
    <3>4. QED  BY <1>1, <3>1, <3>3, FieldsOfPrefix
  <2>5. CASE k # "C-x"
    <3>1. (k = "C-x") = FALSE  BY <2>5
    <3>2. Command(s, k, n) = s \/ \E f : Command(s, k, n) = Push(s, f)
      BY <2>1, <2>5
    <3>3. Command(s, k, n).stack = Does(At(s), k).stack
      <4>1. CASE k = "Zap"  BY <2>1, <2>2, <4>1, FieldsOfPush
      <4>2. CASE k = "C-q"  BY <2>1, <2>2, <4>2, FieldsOfPush
      <4>3. CASE k = "C-s" /\ InPrompt(s)  BY <2>1, <2>2, <4>3 DEF InPrompt
      <4>4. CASE k = "C-s" /\ ~InPrompt(s)  BY <2>1, <2>2, <4>4, FieldsOfPush DEF InPrompt
      <4>5. CASE k \notin {"Zap", "C-q", "C-s"}  BY <2>1, <2>2, <2>5, <4>5
      <4>6. QED  BY <4>1, <4>2, <4>3, <4>4, <4>5
    <3>4. /\ Command(s, k, n).prefix = s.prefix /\ Command(s, k, n).macro = s.macro
          /\ Command(s, k, n).playback = s.playback
          /\ Command(s, k, n).recording = s.recording
      BY <3>2, FieldsOfPush
    <3>5. Does(At(s), k) = [prefix |-> FALSE, stack |-> Does(At(s), k).stack]
      <4> DEFINE st == IF k = "Zap" THEN Append(s.stack, "zap")
                       ELSE IF k = "C-q" THEN Append(s.stack, "quoted")
                       ELSE IF k = "C-s" /\ "prompt" \notin ToSet(s.stack)
                       THEN Append(s.stack, "prompt") ELSE s.stack
      <4>1. Does(At(s), k) = [prefix |-> k = "C-x", stack |-> st]  BY <2>2
      <4> HIDE DEF st
      <4>2. Does(At(s), k) = [prefix |-> FALSE, stack |-> st]  BY <3>1, <4>1
      <4>3. QED  BY <4>2
    <3>6. QED  BY <1>1, <2>3, <3>3, <3>4, <3>5
  <2>6. QED  BY <2>4, <2>5
<1>4. QED  BY <1>2, <1>3

(* What a key does to the macro and the readers while a macro is recorded.  *)
LEMMA DeliverRecording ==
  ASSUME NEW s, Good(s), s.recording, s.stack = e.stack,
         NEW k \in Key \cup {Fail}, NEW n \in 1..MaxReps, Taken(Reader, k)
  PROVE  LET t == Deliver(s, k, n)
         IN  /\ At(t) = Goes(At(s), k) /\ t.macro = s.macro \o Entries(k)
             /\ ~t.recording => t.prefix = FALSE /\ t.stack = s.stack
<1> DEFINE r == Record(s, k)
<1>1. ~Playing(s) /\ Ready(s)  BY DEF Good, Ready
<1>2. Last(At(s).stack) = Reader /\ At(s).prefix = s.prefix /\ At(s).stack = s.stack
  BY DEF At, Reader
<1>3. /\ Good(r) /\ Ready(r) /\ r.stack = s.stack /\ r.prefix = s.prefix
      /\ r.recording = s.recording /\ r.macro = s.macro \o Entries(k)
  BY <1>1, RecordOK, FieldsOfRecord
<1>4. At(r) = At(s)  BY <1>3, AtIs
<1>5. Reader \in Frame /\ Reader # "macro"
  <2>1. s.stack \in Seq(Frame) /\ s.stack # <<>>  BY GoodIs DEF StackOK
  <2>2. Len(s.stack) \in DOMAIN s.stack  BY <2>1
  <2>3. Last(s.stack) \in Frame /\ Last(s.stack) # "macro"  BY <1>1, <2>1, <2>2, PlayingIs DEF Last
  <2>4. QED  BY <2>3 DEF Reader
<1> HIDE DEF r
<1>6. /\ At(Command(r, k, n)) = Does(At(s), k) /\ Command(r, k, n).macro = r.macro
      /\ ~Command(r, k, n).recording => /\ Command(r, k, n).prefix = FALSE
                                        /\ Command(r, k, n).stack = s.stack
  <2>1. Good(r) /\ Ready(r) /\ r.recording  BY <1>3
  <2>2. /\ At(Command(r, k, n)) = Does(At(r), k) /\ Command(r, k, n).macro = r.macro
        /\ r.recording /\ ~Command(r, k, n).recording
             => Command(r, k, n).prefix = FALSE /\ Command(r, k, n).stack = r.stack
    BY <2>1, CommandIs
  <2>3. QED  BY <1>3, <1>4, <2>1, <2>2
<1>7. /\ At(Pop(r)) = [prefix |-> s.prefix, stack |-> Front(s.stack)]
      /\ Pop(r).macro = r.macro /\ Pop(r).recording = s.recording
  <2>1. /\ Pop(r).stack = Front(s.stack) /\ Pop(r).prefix = s.prefix
        /\ Pop(r).macro = r.macro /\ Pop(r).recording = s.recording
    BY <1>3, FieldsOfPop
  <2>2. QED  BY <2>1 DEF At
<1>8. CASE Reader = "main"
  <2>1. Deliver(s, k, n) = Command(r, k, n)  BY <1>8 DEF Deliver, Taken, r
  <2>2. Goes(At(s), k) = Does(At(s), k)  BY <1>2, <1>8 DEF Goes
  <2>3. QED  BY <1>3, <1>6, <2>1, <2>2
<1>9. CASE Reader = "prompt"
  <2>1. Deliver(s, k, n) = IF k \in {"Ret", "C-g"} THEN Pop(r)
                           ELSE IF k = "C-s" THEN r ELSE Command(r, k, n)
    BY <1>9 DEF Deliver, Taken, r
  <2>2. Goes(At(s), k) = IF k \in {"Ret", "C-g"}
                         THEN [prefix |-> s.prefix, stack |-> Front(s.stack)]
                         ELSE IF k = "C-s" THEN At(s) ELSE Does(At(s), k)
    BY <1>2, <1>9 DEF Goes
  <2>3. CASE k \in {"Ret", "C-g"}  BY <1>3, <1>7, <2>1, <2>2, <2>3
  <2>4. CASE k = "C-s"  BY <1>3, <1>4, <2>1, <2>2, <2>4
  <2>5. CASE k \notin {"Ret", "C-g", "C-s"}  BY <1>3, <1>6, <2>1, <2>2, <2>5
  <2>6. QED  BY <2>3, <2>4, <2>5
<1>10. CASE Reader \in {"quoted", "C-x x", "register"}
  <2>1. Deliver(s, k, n) = Pop(r)  BY <1>10 DEF Deliver, SubKey, Taken, r
  <2>2. Goes(At(s), k) = [prefix |-> s.prefix, stack |-> Front(s.stack)]
    BY <1>2, <1>10 DEF Goes
  <2>3. QED  BY <1>3, <1>7, <2>1, <2>2
<1>11. QED  BY <1>5, <1>8, <1>9, <1>10 DEF Frame, Taken

(* The same key while a macro is played. *)
LEMMA DeliverPlaying ==
  ASSUME NEW s, Good(s), s.playback # 0, s.stack = e.stack,
         Reader \notin {"main", "macro"},
         NEW k \in Key \cup {Fail}, NEW n \in 1..MaxReps, Taken(Reader, k)
  PROVE  LET t == Deliver(s, k, n)
         IN  At(t) = Goes(At(s), k) /\ t.playback = s.playback
<1>1. Playing(s) /\ ~s.recording /\ Ready(s)  BY DEF Good, Ready
<1>2. Last(At(s).stack) = Reader /\ At(s).prefix = s.prefix /\ At(s).stack = s.stack
  BY DEF At, Reader
<1>3. Record(s, k) = s  BY <1>1 DEF Record
<1>4. Reader \in Frame
  <2>1. s.stack \in Seq(Frame) /\ s.stack # <<>>  BY GoodIs DEF StackOK
  <2>2. Len(s.stack) \in DOMAIN s.stack  BY <2>1
  <2>3. QED  BY <2>1, <2>2 DEF Last, Reader
<1>5. At(Command(s, k, n)) = Does(At(s), k) /\ Command(s, k, n).playback = s.playback
  BY <1>1, CommandIs
<1>6. At(Pop(s)) = [prefix |-> s.prefix, stack |-> Front(s.stack)] /\ Pop(s).playback = s.playback
  BY FieldsOfPop DEF At
<1>7. CASE Reader = "prompt"
  <2>1. Deliver(s, k, n) = IF k \in {"Ret", "C-g"} THEN Pop(s)
                           ELSE IF k = "C-s" THEN s ELSE Command(s, k, n)
    BY <1>3, <1>7 DEF Deliver, Taken
  <2>2. Goes(At(s), k) = IF k \in {"Ret", "C-g"}
                         THEN [prefix |-> s.prefix, stack |-> Front(s.stack)]
                         ELSE IF k = "C-s" THEN At(s) ELSE Does(At(s), k)
    BY <1>2, <1>7 DEF Goes
  <2>3. CASE k \in {"Ret", "C-g"}  BY <1>6, <2>1, <2>2, <2>3
  <2>4. CASE k = "C-s"  BY <2>1, <2>2, <2>4
  <2>5. CASE k \notin {"Ret", "C-g", "C-s"}  BY <1>5, <2>1, <2>2, <2>5
  <2>6. QED  BY <2>3, <2>4, <2>5
<1>8. CASE Reader \in {"quoted", "C-x x", "register"}
  <2>1. Deliver(s, k, n) = Pop(s)  BY <1>3, <1>8 DEF Deliver, SubKey, Taken
  <2>2. Goes(At(s), k) = [prefix |-> s.prefix, stack |-> Front(s.stack)]
    BY <1>2, <1>8 DEF Goes
  <2>3. QED  BY <1>6, <2>1, <2>2
<1>9. QED  BY <1>4, <1>7, <1>8 DEF Frame, Taken

LEMMA BeginFields ==
  ASSUME NEW s, IsRecord(s), NEW x, NEW y
  PROVE  [s EXCEPT !.recording = x, !.macro = y] =
           [stack |-> s.stack, prefix |-> s.prefix, recording |-> x,
            macro |-> y, playback |-> s.playback, reps |-> s.reps]
<1>1. [s EXCEPT !.recording = x, !.macro = y] = [[s EXCEPT !.recording = x] EXCEPT !.macro = y]
  OBVIOUS
<1> DEFINE v == [s EXCEPT !.recording = x]
<1>2. v = [stack |-> s.stack, prefix |-> s.prefix, recording |-> x,
           macro |-> s.macro, playback |-> s.playback, reps |-> s.reps]
  BY DEF IsRecord
<1> HIDE DEF v
<1>3. [v EXCEPT !.macro = y] =
        [stack |-> s.stack, prefix |-> s.prefix, recording |-> x,
         macro |-> y, playback |-> s.playback, reps |-> s.reps]
  BY <1>2
<1>4. QED  BY <1>1, <1>3 DEF v

(* Where none is recorded or played a key may begin one or play one, from   *)
(* C-x and in the same place.                                               *)
Starts(s, t) ==
  /\ t.recording  => t.macro = <<>> /\ t.stack = s.stack /\ t.prefix = FALSE
  /\ ~t.recording => t.macro = s.macro
  /\ Playing(t)   => /\ t.stack = Append(s.stack, "macro") /\ t.prefix = FALSE
                     /\ t.playback = 0

LEMMA CommandIdle ==
  ASSUME NEW s, Good(s), ~s.recording, ~Playing(s), NEW k, NEW n \in 1..MaxReps
  PROVE  Starts(s, Command(s, k, n))
<1>1. s.recording = FALSE /\ s.playback = 0 /\ Ready(s)  BY GoodIs DEF Good, Ready
<1>2. ASSUME NEW t, t.recording = FALSE, t.macro = s.macro, ~Playing(t)  PROVE Starts(s, t)
  BY <1>2 DEF Starts
<1>3. CASE s.prefix
  <2> DEFINE t == [s EXCEPT !.prefix = FALSE]
  <2>1. /\ t.stack = s.stack /\ t.prefix = FALSE /\ t.recording = FALSE
        /\ t.macro = s.macro /\ t.playback = 0
    BY <1>1, FieldsOfPrefix
  <2>2. Good(t) /\ Ready(t) /\ ~Playing(t)  BY <1>1, PrefixOK
  <2>3. Command(s, k, n) = CtrlX(s, k, n)  BY <1>3 DEF Command
  <2>4. CtrlX(s, k, n) \in {BeginMacro(t), EndMacro(t), ExecMacro(t, n), Push(t, "C-x x"),
                            Push(t, "register"), t}
    BY DEF CtrlX
  <2> HIDE DEF t
  <2>5. CASE CtrlX(s, k, n) = BeginMacro(t)
    <3>1. BeginMacro(t) = [t EXCEPT !.recording = TRUE, !.macro = <<>>]
      BY <2>1 DEF BeginMacro
    <3>2. IsRecord(t)  BY <2>2, GoodIs DEF IsRecord
    <3>3. [t EXCEPT !.recording = TRUE, !.macro = <<>>] =
            [stack |-> t.stack, prefix |-> t.prefix, recording |-> TRUE,
             macro |-> <<>>, playback |-> t.playback, reps |-> t.reps]
      BY <3>2, BeginFields
    <3>4. /\ BeginMacro(t).stack = t.stack /\ BeginMacro(t).prefix = t.prefix
          /\ BeginMacro(t).recording = TRUE /\ BeginMacro(t).macro = <<>>
      BY <3>1, <3>3
    <3>5. ~Playing(BeginMacro(t))  BY <2>2, <3>4, PlayingIs
    <3>6. QED  BY <2>1, <2>3, <2>5, <3>4, <3>5 DEF Starts
  <2>6. CASE CtrlX(s, k, n) = EndMacro(t)
    <3>1. EndMacro(t) = [t EXCEPT !.recording = FALSE]  BY <2>1 DEF EndMacro
    <3>2. EndMacro(t) = [stack |-> t.stack, prefix |-> t.prefix, recording |-> FALSE,
                         macro |-> t.macro, playback |-> t.playback, reps |-> t.reps]
      BY <2>2, <3>1, GoodIs
    <3>3. EndMacro(t).stack = t.stack /\ EndMacro(t).recording = FALSE /\ EndMacro(t).macro = t.macro
      BY <3>2
    <3>4. ~Playing(EndMacro(t))  BY <2>2, <3>3, PlayingIs
    <3>5. QED  BY <1>2, <2>1, <2>3, <2>6, <3>3, <3>4
  <2>7. CASE CtrlX(s, k, n) = ExecMacro(t, n)
    <3>1. CASE t.macro = <<>>
      <4>1. ExecMacro(t, n) = t  BY <3>1 DEF ExecMacro
      <4>2. QED  BY <1>2, <2>1, <2>2, <2>3, <2>7, <4>1
    <3>2. CASE t.macro # <<>>
      <4> DEFINE u == Push(t, "macro")
      <4>1. ExecMacro(t, n) = [u EXCEPT !.reps = n]  BY <2>1, <3>2 DEF ExecMacro
      <4> DEFINE st == Append(t.stack, "macro")
      <4> HIDE DEF st
      <4>2. u = [t EXCEPT !.stack = st]  BY DEF Push, st
      <4> HIDE DEF u
      <4>3. u = [stack |-> st, prefix |-> t.prefix, recording |-> t.recording,
                 macro |-> t.macro, playback |-> t.playback, reps |-> t.reps]
        BY <2>2, <4>2, GoodIs
      <4>4. ExecMacro(t, n) =
              [stack |-> st, prefix |-> t.prefix, recording |-> t.recording,
               macro |-> t.macro, playback |-> t.playback, reps |-> n]
        BY <4>1, <4>3
      <4>5. /\ ExecMacro(t, n).stack = st /\ ExecMacro(t, n).prefix = FALSE
            /\ ExecMacro(t, n).recording = FALSE /\ ExecMacro(t, n).macro = s.macro
            /\ ExecMacro(t, n).playback = 0
        BY <2>1, <4>4
      <4>6. st = Append(s.stack, "macro")  BY <2>1 DEF st
      <4>7. QED  BY <2>3, <2>7, <4>5, <4>6 DEF Starts
    <3>3. QED  BY <3>1, <3>2
  <2>8. ASSUME NEW f \in {"C-x x", "register"}  PROVE Starts(s, Push(t, f))
    <3>1. f \in Frame \ {"macro"}  BY DEF Frame
    <3>2. ~Playing(Push(t, f)) /\ Push(t, f).recording = FALSE /\ Push(t, f).macro = s.macro
      BY <2>1, <2>2, <3>1, PushOK
    <3>3. QED  BY <1>2, <3>2
  <2>9. CASE CtrlX(s, k, n) = t  BY <1>2, <2>1, <2>2, <2>3, <2>9
  <2>10. QED  BY <2>3, <2>4, <2>5, <2>6, <2>7, <2>8, <2>9
<1>4. CASE ~s.prefix
  <2>1. Command(s, k, n) \in {[s EXCEPT !.prefix = TRUE], Push(s, "zap"), Push(s, "quoted"),
                              Push(s, "prompt"), s}
    BY <1>4 DEF Command
  <2>2. CASE Command(s, k, n) = [s EXCEPT !.prefix = TRUE]
    <3> DEFINE t == [s EXCEPT !.prefix = TRUE]
    <3>1. t.recording = FALSE /\ t.macro = s.macro  BY <1>1, FieldsOfPrefix
    <3>2. ~Playing(t)  BY <1>1, PrefixOK
    <3> HIDE DEF t
    <3>3. Starts(s, t)  BY <1>2, <3>1, <3>2
    <3>4. QED  BY <2>2, <3>3 DEF t
  <2>3. ASSUME NEW f \in {"zap", "quoted", "prompt"}  PROVE Starts(s, Push(s, f))
    <3>1. f \in Frame \ {"macro"}  BY DEF Frame
    <3>2. ~Playing(Push(s, f)) /\ Push(s, f).recording = FALSE /\ Push(s, f).macro = s.macro
      BY <1>1, <3>1, PushOK
    <3>3. QED  BY <1>2, <3>2
  <2>4. CASE Command(s, k, n) = s  BY <1>1, <1>2, <2>4
  <2>5. QED  BY <2>1, <2>2, <2>3, <2>4
<1>5. QED  BY <1>3, <1>4

LEMMA DeliverIdle ==
  ASSUME NEW s, Good(s), ~s.recording, ~Playing(s), s.stack = e.stack,
         NEW k \in Key \cup {Fail}, NEW n \in 1..MaxReps
  PROVE  Starts(s, Deliver(s, k, n))
<1>1. Record(s, k) = s  BY DEF Record
<1>2. s.recording = FALSE /\ Ready(s)  BY GoodIs DEF Ready
<1>3. Starts(s, s)  BY <1>2 DEF Starts
<1>4. Starts(s, Command(s, k, n))  BY CommandIdle
<1>5. ASSUME Reader # "main"  PROVE Starts(s, Pop(s))
  <2>1. Last(s.stack) \notin {"main", "macro"}
    <3>1. s.stack \in Seq(Frame) /\ s.stack # <<>>  BY GoodIs DEF StackOK
    <3>2. Len(s.stack) \in DOMAIN s.stack  BY <3>1
    <3>3. QED  BY <1>5, <3>2, PlayingIs DEF Last, Reader
  <2>2. ~Playing(Pop(s)) /\ Pop(s).recording = FALSE /\ Pop(s).macro = s.macro
    BY <1>2, <2>1, PopOK
  <2>3. QED  BY <2>2 DEF Starts
<1>6. Reader \in Frame /\ Reader # "macro"
  <2>1. s.stack \in Seq(Frame) /\ s.stack # <<>>  BY GoodIs DEF StackOK
  <2>2. Len(s.stack) \in DOMAIN s.stack  BY <2>1
  <2>3. QED  BY <2>1, <2>2, PlayingIs DEF Last, Reader
<1>7. CASE Reader = "main"
  <2>1. Deliver(s, k, n) \in {s, Command(s, k, n)}  BY <1>1, <1>7 DEF Deliver
  <2>2. QED  BY <1>3, <1>4, <2>1
<1>8. CASE Reader # "main"
  <2>1. Deliver(s, k, n) \in {s, Command(s, k, n), Pop(s)}
    <3>1. Reader \in {"prompt", "zap", "quoted", "C-x x", "register"}  BY <1>6, <1>8 DEF Frame
    <3>2. QED  BY <1>1, <3>1 DEF Deliver, SubKey
  <2>2. QED  BY <1>3, <1>4, <1>5, <1>8, <2>1
<1>9. QED  BY <1>7, <1>8

-----------------------------------------------------------------------------
(* The call stack of a replay is that of the recording with the player      *)
(* above the main loop.                                                     *)
RecordedStack(st) ==
  /\ st \in Seq(Frame) /\ st # <<>> /\ st[1] = "main"
  /\ \A i \in DOMAIN st : i > 1 => st[i] \notin {"main", "macro"}

Below(st, t) ==
  /\ t \in Seq(Frame) /\ Len(t) = Len(st) + 1 /\ t[1] = "main" /\ t[2] = "macro"
  /\ \A i \in 2..Len(st) : t[i + 1] = st[i]

LEMMA RecordedAppend ==
  ASSUME NEW st, RecordedStack(st), NEW f \in Frame \ {"main", "macro"}
  PROVE  RecordedStack(Append(st, f))
<1> DEFINE t == Append(st, f)
<1>1. st \in Seq(Frame) /\ Len(st) \in Nat \ {0} /\ DOMAIN st = 1..Len(st)
      /\ st[1] = "main" /\ \A i \in 2..Len(st) : st[i] \notin {"main", "macro"}
  BY DEF RecordedStack
<1>2. /\ t \in Seq(Frame) /\ Len(t) = Len(st) + 1 /\ t[Len(st) + 1] = f
      /\ \A i \in 1..Len(st) : t[i] = st[i]
  BY <1>1
<1> HIDE DEF t
<1>3. t # <<>> /\ DOMAIN t = 1..Len(st) + 1
  <2>1. Len(t) # 0  BY <1>1, <1>2
  <2>2. QED  BY <1>1, <1>2, <2>1
<1>4. t[1] = "main"  BY <1>1, <1>2
<1>5. ASSUME NEW i \in DOMAIN t, i > 1  PROVE t[i] \notin {"main", "macro"}
  BY <1>1, <1>2, <1>3, <1>5
<1>6. QED  BY <1>2, <1>3, <1>4, <1>5 DEF RecordedStack, t

LEMMA FrontOf ==
  ASSUME NEW st \in Seq(Frame), Len(st) > 1
  PROVE  /\ Front(st) \in Seq(Frame) /\ Len(Front(st)) = Len(st) - 1
         /\ \A i \in 1..Len(st) - 1 : Front(st)[i] = st[i]
<1> DEFINE n == Len(st) - 1
           u == SubSeq(st, 1, n)
<1>1. n \in Nat \ {0} /\ \A i \in 1..n : st[i] \in Frame  OBVIOUS
<1>2. /\ u \in Seq(Frame)
      /\ Len(u) = (IF 1 <= n THEN n - 1 + 1 ELSE 0)
      /\ \A i \in 1..n - 1 + 1 : u[i] = st[1 + i - 1]
  <2> HIDE DEF n
  <2>1. QED  BY <1>1, SubSeqProperties
<1>3. Front(st) = u  BY DEF Front
<1> HIDE DEF u
<1>4. QED  BY <1>1, <1>2, <1>3

LEMMA RecordedFront ==
  ASSUME NEW st, RecordedStack(st), Last(st) # "main"
  PROVE  RecordedStack(Front(st)) /\ Len(st) > 1
<1> DEFINE t == Front(st)
<1>1. st \in Seq(Frame) /\ Len(st) \in Nat \ {0} /\ DOMAIN st = 1..Len(st)
      /\ st[1] = "main" /\ \A i \in 2..Len(st) : st[i] \notin {"main", "macro"}
  BY DEF RecordedStack
<1>2. Len(st) > 1  BY <1>1 DEF Last
<1>3. /\ t \in Seq(Frame) /\ Len(t) = Len(st) - 1
      /\ \A i \in 1..Len(st) - 1 : t[i] = st[i]
  BY <1>1, <1>2, FrontOf
<1> HIDE DEF t
<1>4. t # <<>> /\ DOMAIN t = 1..Len(st) - 1
  <2>1. Len(t) # 0  BY <1>1, <1>2, <1>3
  <2>2. QED  BY <1>1, <1>3, <2>1
<1>5. t[1] = "main"  BY <1>1, <1>2, <1>3
<1>6. ASSUME NEW i \in DOMAIN t, i > 1  PROVE t[i] \notin {"main", "macro"}
  BY <1>1, <1>3, <1>4, <1>6
<1>7. QED  BY <1>2, <1>3, <1>4, <1>5, <1>6 DEF RecordedStack, t

LEMMA BelowAppend ==
  ASSUME NEW st, RecordedStack(st), NEW t, Below(st, t), NEW f \in Frame
  PROVE  Below(Append(st, f), Append(t, f))
<1>1. st \in Seq(Frame) /\ Len(st) \in Nat \ {0}  BY DEF RecordedStack
<1>2. t \in Seq(Frame) /\ Len(t) = Len(st) + 1 /\ t[1] = "main" /\ t[2] = "macro"
      /\ \A i \in 2..Len(st) : t[i + 1] = st[i]
  BY DEF Below
<1> DEFINE sf == Append(st, f)
           tf == Append(t, f)
<1>3. /\ Len(sf) = Len(st) + 1 /\ sf[Len(st) + 1] = f
      /\ \A i \in 1..Len(st) : sf[i] = st[i]
  BY <1>1
<1>4. /\ tf \in Seq(Frame) /\ Len(tf) = Len(st) + 2 /\ tf[Len(st) + 2] = f
      /\ \A i \in 1..Len(st) + 1 : tf[i] = t[i]
  BY <1>1, <1>2
<1> HIDE DEF sf, tf
<1>5. ASSUME NEW i \in 2..Len(sf)  PROVE tf[i + 1] = sf[i]
  <2>1. CASE i = Len(st) + 1
    <3>1. i + 1 = Len(st) + 2  BY <1>1, <2>1
    <3>2. QED  BY <1>3, <1>4, <2>1, <3>1
  <2>2. CASE i # Len(st) + 1
    <3>1. i \in 2..Len(st) /\ i \in 1..Len(st) /\ i + 1 \in 1..Len(st) + 1
      BY <1>1, <1>3, <2>2
    <3>2. QED  BY <1>2, <1>3, <1>4, <3>1
  <2>3. QED  BY <2>1, <2>2
<1>6. tf[1] = "main" /\ tf[2] = "macro"  BY <1>1, <1>2, <1>4
<1>7. QED  BY <1>1, <1>3, <1>4, <1>5, <1>6 DEF Below, sf, tf

LEMMA BelowFront ==
  ASSUME NEW st, RecordedStack(st), Len(st) > 1, NEW t, Below(st, t)
  PROVE  Below(Front(st), Front(t))
<1>1. st \in Seq(Frame) /\ Len(st) \in Nat  BY DEF RecordedStack
<1>2. t \in Seq(Frame) /\ Len(t) = Len(st) + 1 /\ t[1] = "main" /\ t[2] = "macro"
      /\ \A i \in 2..Len(st) : t[i + 1] = st[i]
  BY DEF Below
<1> DEFINE sf == Front(st)
           tf == Front(t)
<1>3. Len(sf) = Len(st) - 1 /\ \A i \in 1..Len(st) - 1 : sf[i] = st[i]
  BY <1>1, FrontOf
<1>4. tf \in Seq(Frame) /\ Len(tf) = Len(st) /\ \A i \in 1..Len(st) : tf[i] = t[i]
  <2>1. Len(t) > 1 /\ Len(t) - 1 = Len(st)  BY <1>1, <1>2
  <2>2. QED  BY <1>2, <2>1, FrontOf
<1> HIDE DEF sf, tf
<1>5. ASSUME NEW i \in 2..Len(sf)  PROVE tf[i + 1] = sf[i]
  <2>1. i \in 2..Len(st) /\ i \in 1..Len(st) - 1 /\ i + 1 \in 1..Len(st)
    BY <1>1, <1>3
  <2>2. QED  BY <1>2, <1>3, <1>4, <2>1
<1>6. tf[1] = "main" /\ tf[2] = "macro"  BY <1>1, <1>2, <1>4
<1>7. QED  BY <1>1, <1>3, <1>4, <1>5, <1>6 DEF Below, sf, tf

(* Who reads a key of the replay, and whether a prompt is open, is what it  *)
(* was in the recording.                                                    *)
LEMMA BelowReads ==
  ASSUME NEW st, RecordedStack(st), NEW t, Below(st, t)
  PROVE  /\ Last(st) = "main" => st = <<"main">> /\ Last(t) = "macro"
         /\ Last(st) # "main" => Last(t) = Last(st) /\ Last(st) # "macro"
         /\ ("prompt" \in ToSet(st) <=> "prompt" \in ToSet(t))
<1>1. st \in Seq(Frame) /\ Len(st) \in Nat \ {0} /\ DOMAIN st = 1..Len(st) /\ st[1] = "main"
      /\ \A i \in 2..Len(st) : st[i] \notin {"main", "macro"}
  BY DEF RecordedStack
<1>2. t \in Seq(Frame) /\ Len(t) = Len(st) + 1 /\ DOMAIN t = 1..Len(t)
      /\ t[1] = "main" /\ t[2] = "macro" /\ \A i \in 2..Len(st) : t[i + 1] = st[i]
  BY DEF Below
<1>3. Len(st) = 1 => st = <<"main">> /\ Last(st) = "main" /\ Last(t) = "macro"
  <2>1. Len(st) = 1 => st = <<"main">>  BY <1>1
  <2>2. Len(st) = 1 => Last(st) = "main" /\ Last(t) = "macro"  BY <1>1, <1>2 DEF Last
  <2>3. QED  BY <2>1, <2>2
<1>4. Len(st) > 1 => Last(st) \notin {"main", "macro"} /\ Last(t) = Last(st)
  <2>1. Len(st) > 1 => Len(st) \in 2..Len(st)  BY <1>1
  <2>2. QED  BY <1>1, <1>2, <2>1 DEF Last
<1>5. "prompt" \in ToSet(st) <=> "prompt" \in ToSet(t)
  <2>1. ASSUME NEW i \in 1..Len(st), st[i] = "prompt"  PROVE \E j \in DOMAIN t : t[j] = "prompt"
    <3>1. i \in 2..Len(st) /\ i + 1 \in DOMAIN t  BY <1>1, <1>2, <2>1
    <3>2. QED  BY <1>2, <2>1, <3>1
  <2>2. ASSUME NEW j \in DOMAIN t, t[j] = "prompt"  PROVE \E i \in DOMAIN st : st[i] = "prompt"
    <3>1. j # 1 /\ j # 2  BY <1>2, <2>2
    <3>2. j - 1 \in 2..Len(st) /\ (j - 1) + 1 = j  BY <1>1, <1>2, <3>1
    <3>3. st[j - 1] = "prompt" /\ j - 1 \in DOMAIN st  BY <1>1, <1>2, <2>2, <3>2
    <3>4. QED  BY <3>3
  <2>3. QED  BY <1>1, <2>1, <2>2 DEF ToSet
<1>6. Len(st) = 1 \/ Len(st) > 1  BY <1>1
<1>7. QED  BY <1>3, <1>4, <1>5, <1>6

(* A place in the recording, and the same place in the replay. *)
Placed(a) ==
  /\ RecordedStack(a.stack) /\ a.prefix \in BOOLEAN
  /\ a = [prefix |-> a.prefix, stack |-> a.stack]

Under(a, b) == Below(a.stack, b.stack) /\ b.prefix = a.prefix

LEMMA DoesMoves ==
  ASSUME NEW a, NEW k
  PROVE  \/ Does(a, k).stack = a.stack
         \/ \E f \in Frame \ {"main", "macro"} : Does(a, k).stack = Append(a.stack, f)
<1> DEFINE st == Does(a, k).stack
<1>1. {"C-x x", "register", "zap", "quoted", "prompt"} \subseteq Frame \ {"main", "macro"}
  BY DEF Frame
<1>2. CASE a.prefix
  <2>1. st = IF k = "x" THEN Append(a.stack, "C-x x")
             ELSE IF k = "r" THEN Append(a.stack, "register") ELSE a.stack
    BY <1>2 DEF Does
  <2> HIDE DEF st
  <2>2. QED  BY <1>1, <2>1 DEF st
<1>3. CASE ~a.prefix
  <2>1. st = IF k = "Zap" THEN Append(a.stack, "zap")
             ELSE IF k = "C-q" THEN Append(a.stack, "quoted")
             ELSE IF k = "C-s" /\ "prompt" \notin ToSet(a.stack)
             THEN Append(a.stack, "prompt") ELSE a.stack
    BY <1>3 DEF Does
  <2> HIDE DEF st
  <2>2. QED  BY <1>1, <2>1 DEF st
<1>4. QED  BY <1>2, <1>3

LEMMA DoesKeeps ==
  ASSUME NEW a, Placed(a), NEW k
  PROVE  /\ Placed(Does(a, k))
         /\ \A b : Under(a, b) => Under(Does(a, k), Does(b, k))
<1> DEFINE st == Does(a, k).stack
           p  == Does(a, k).prefix
<1>1. a.prefix \in BOOLEAN /\ RecordedStack(a.stack)  BY DEF Placed
<1>2. Does(a, k) = [prefix |-> p, stack |-> st] /\ p \in BOOLEAN
  <2>1. \A q, u : LET d == [prefix |-> q, stack |-> u]
                  IN  d = [prefix |-> d.prefix, stack |-> d.stack]
    OBVIOUS
  <2>2. Does(a, k) = [prefix |-> p, stack |-> st]
    <3>1. \E q, u : Does(a, k) = [prefix |-> q, stack |-> u]
      <4>1. CASE a.prefix  BY <4>1 DEF Does
      <4>2. CASE ~a.prefix  BY <4>2 DEF Does
      <4>3. QED  BY <4>1, <4>2
    <3>2. QED  BY <2>1, <3>1
  <2>3. p = IF a.prefix THEN FALSE ELSE (k = "C-x")
    <3>1. CASE a.prefix  BY <3>1 DEF Does
    <3>2. CASE ~a.prefix  BY <3>2 DEF Does
    <3>3. QED  BY <3>1, <3>2
  <2>4. QED  BY <2>2, <2>3
<1>3. st = a.stack \/ \E f \in Frame \ {"main", "macro"} : st = Append(a.stack, f)
  BY DoesMoves
<1>4. Placed(Does(a, k))
  <2>1. RecordedStack(st)
    <3> HIDE DEF st
    <3>1. QED  BY <1>1, <1>3, RecordedAppend
  <2>2. QED  BY <1>2, <2>1 DEF Placed
<1>5. ASSUME NEW b, Under(a, b)  PROVE Under(Does(a, k), Does(b, k))
  <2>1. Below(a.stack, b.stack) /\ b.prefix = a.prefix  BY <1>5 DEF Under
  <2>2. "prompt" \in ToSet(a.stack) <=> "prompt" \in ToSet(b.stack)
    BY <1>1, <2>1, BelowReads
  <2>3. Does(b, k).prefix = Does(a, k).prefix
    <3>1. CASE a.prefix  BY <2>1, <3>1 DEF Does
    <3>2. CASE ~a.prefix  BY <2>1, <3>2 DEF Does
    <3>3. QED  BY <3>1, <3>2
  <2>4. \/ Does(a, k).stack = a.stack /\ Does(b, k).stack = b.stack
        \/ \E f \in Frame : /\ Does(a, k).stack = Append(a.stack, f)
                            /\ Does(b, k).stack = Append(b.stack, f)
    <3>1. {"C-x x", "register", "zap", "quoted", "prompt"} \subseteq Frame  BY DEF Frame
    <3>2. CASE a.prefix
      <4>1. CASE k = "x"  BY <2>1, <3>1, <3>2, <4>1 DEF Does
      <4>2. CASE k = "r"  BY <2>1, <3>1, <3>2, <4>2 DEF Does
      <4>3. CASE k \notin {"x", "r"}  BY <2>1, <3>2, <4>3 DEF Does
      <4>4. QED  BY <4>1, <4>2, <4>3
    <3>3. CASE ~a.prefix
      <4>1. CASE k = "Zap"  BY <2>1, <3>1, <3>3, <4>1 DEF Does
      <4>2. CASE k = "C-q"  BY <2>1, <3>1, <3>3, <4>2 DEF Does
      <4>3. CASE k = "C-s" /\ "prompt" \in ToSet(a.stack)  BY <2>1, <2>2, <3>3, <4>3 DEF Does
      <4>4. CASE k = "C-s" /\ "prompt" \notin ToSet(a.stack)
        BY <2>1, <2>2, <3>1, <3>3, <4>4 DEF Does
      <4>5. CASE k \notin {"Zap", "C-q", "C-s"}  BY <2>1, <3>3, <4>5 DEF Does
      <4>6. QED  BY <4>1, <4>2, <4>3, <4>4, <4>5
    <3>4. QED  BY <3>2, <3>3
  <2>5. Below(Does(a, k).stack, Does(b, k).stack)  BY <1>1, <2>1, <2>4, BelowAppend
  <2>6. QED  BY <2>3, <2>5 DEF Under
<1>6. QED  BY <1>4, <1>5

LEMMA GoesKeeps ==
  ASSUME NEW a, Placed(a), NEW k
  PROVE  /\ Placed(Goes(a, k))
         /\ \A b : Under(a, b) /\ Last(a.stack) # "main" => Under(Goes(a, k), Goes(b, k))
<1>1. RecordedStack(a.stack) /\ a.prefix \in BOOLEAN  BY DEF Placed
<1>2. CASE Last(a.stack) = "main" \/ (Last(a.stack) = "prompt" /\ k \notin {"Ret", "C-g", "C-s"})
  <2>1. Goes(a, k) = Does(a, k)  BY <1>2 DEF Goes
  <2>2. ASSUME NEW b, Under(a, b), Last(a.stack) # "main"  PROVE Under(Goes(a, k), Goes(b, k))
    <3>1. Last(b.stack) = "prompt"  BY <1>1, <1>2, <2>2, BelowReads DEF Under
    <3>2. Goes(b, k) = Does(b, k)  BY <1>2, <2>2, <3>1 DEF Goes
    <3>3. QED  BY <2>1, <2>2, <3>2, DoesKeeps
  <2>3. QED  BY <2>1, <2>2, DoesKeeps
<1>3. CASE Last(a.stack) = "prompt" /\ k = "C-s"
  <2>1. Goes(a, k) = a  BY <1>3 DEF Goes
  <2>2. ASSUME NEW b, Under(a, b)  PROVE Under(Goes(a, k), Goes(b, k))
    <3>1. Last(b.stack) = "prompt"  BY <1>1, <1>3, <2>2, BelowReads DEF Under
    <3>2. Goes(b, k) = b  BY <1>3, <3>1 DEF Goes
    <3>3. QED  BY <2>1, <2>2, <3>2
  <2>3. QED  BY <2>1, <2>2
<1>4. CASE Last(a.stack) # "main" /\ (Last(a.stack) = "prompt" => k \in {"Ret", "C-g"})
  <2>1. Goes(a, k) = [prefix |-> a.prefix, stack |-> Front(a.stack)]  BY <1>4 DEF Goes
  <2>2. RecordedStack(Front(a.stack)) /\ Len(a.stack) > 1  BY <1>1, <1>4, RecordedFront
  <2>3. Goes(a, k).stack = Front(a.stack) /\ Goes(a, k).prefix = a.prefix  BY <2>1
  <2>4. Placed(Goes(a, k))  BY <1>1, <2>1, <2>2, <2>3 DEF Placed
  <2>5. ASSUME NEW b, Under(a, b)  PROVE Under(Goes(a, k), Goes(b, k))
    <3>1. Last(b.stack) = Last(a.stack)  BY <1>1, <1>4, <2>5, BelowReads DEF Under
    <3>2. Goes(b, k) = [prefix |-> b.prefix, stack |-> Front(b.stack)]  BY <1>4, <3>1 DEF Goes
    <3>3. Goes(b, k).stack = Front(b.stack) /\ Goes(b, k).prefix = b.prefix  BY <3>2
    <3>4. Below(Front(a.stack), Front(b.stack)) /\ b.prefix = a.prefix
      BY <1>1, <2>2, <2>5, BelowFront DEF Under
    <3>5. QED  BY <2>3, <3>3, <3>4 DEF Under
  <2>6. QED  BY <2>4, <2>5
<1>5. QED  BY <1>2, <1>3, <1>4

-----------------------------------------------------------------------------
(* The places R and the positions P in the macro that a recording went      *)
(* through, key by key.                                                     *)
Start == [prefix |-> FALSE, stack |-> <<"main">>]
Entry == Frame \X (Key \cup {Fail})

Reads(m, a, p, entry, b, q) ==
  /\ p < Len(m) /\ m[p + 1] = entry[2]
  /\ entry[1] = Last(a.stack) /\ Taken(entry[1], entry[2])
  /\ b = Goes(a, entry[2]) /\ q = p + Len(Entries(entry[2]))

Trace(did, m, R, P) ==
  /\ R[0] = Start /\ P[0] = 0 /\ P[Len(did)] = Len(m)
  /\ \A i \in 0..Len(did) : Placed(R[i]) /\ P[i] \in Nat
  /\ \A i \in 1..Len(did) : Reads(m, R[i - 1], P[i - 1], did[i], R[i], P[i])

LEMMA StartPlaced ==
  Placed(Start) /\ Start.stack = <<"main">> /\ Start.prefix = FALSE
<1> DEFINE st == <<"main">>
<1>1. DOMAIN st = {1} /\ st[1] = "main" /\ st \in Seq(Frame) /\ st # <<>>  BY DEF Frame
<1>2. RecordedStack(st)
  <2> HIDE DEF st
  <2>1. QED  BY <1>1 DEF RecordedStack
<1>3. Start.stack = st /\ Start.prefix = FALSE /\ Start = [prefix |-> FALSE, stack |-> st]
  BY DEF Start
<1> HIDE DEF st
<1>4. QED  BY <1>2, <1>3 DEF Placed, st

LEMMA TraceEmpty == \E R, P : Trace(<<>>, <<>>, R, P) /\ R[0] = Start
<1> DEFINE R == [i \in {0} |-> Start]
           P == [i \in {0} |-> 0]
<1>1. R[0] = Start /\ P[0] = 0  OBVIOUS
<1>2. Len(<<>>) = 0 /\ 0..0 = {0} /\ 1..0 = {}  OBVIOUS
<1> HIDE DEF R, P
<1>3. Trace(<<>>, <<>>, R, P)  BY <1>1, <1>2, StartPlaced DEF Trace
<1>4. QED  BY <1>1, <1>3

LEMMA EntriesIs ==
  ASSUME NEW k
  PROVE  Entries(k) \in Seq({k, "bytes"}) /\ Len(Entries(k)) \in {1, 2} /\ Entries(k)[1] = k
<1>1. CASE k = "Uni"  BY <1>1 DEF Entries
<1>2. CASE k # "Uni"  BY <1>2 DEF Entries
<1>3. QED  BY <1>1, <1>2

(* One more key recorded. *)
LEMMA TraceAppend ==
  ASSUME NEW did \in Seq(Entry), NEW X, NEW m \in Seq(X), NEW R, NEW P, Trace(did, m, R, P),
         NEW k \in Key \cup {Fail}, NEW r \in Frame, r = Last(R[Len(did)].stack), Taken(r, k)
  PROVE  \E S, Q : /\ Trace(Append(did, <<r, k>>), m \o Entries(k), S, Q)
                   /\ S[Len(did) + 1] = Goes(R[Len(did)], k)
<1> DEFINE n == Len(did)
           b == Goes(R[n], k)
           q == Len(m) + Len(Entries(k))
           S == [i \in 0..n + 1 |-> IF i <= n THEN R[i] ELSE b]
           Q == [i \in 0..n + 1 |-> IF i <= n THEN P[i] ELSE q]
           d == Append(did, <<r, k>>)
           w == m \o Entries(k)
<1>1. n \in Nat /\ Len(m) \in Nat /\ q \in Nat /\ q > Len(m)
  <2> DEFINE l == Len(Entries(k))
  <2>1. l \in {1, 2}  BY EntriesIs
  <2>2. n \in Nat /\ Len(m) \in Nat  OBVIOUS
  <2>3. q = Len(m) + l  OBVIOUS
  <2> HIDE DEF l, n, q
  <2>4. QED  BY <2>1, <2>2, <2>3
<1>2. /\ Len(w) = q /\ w[Len(m) + 1] = k
      /\ \A i \in 1..Len(m) : w[i] = m[i]
  <2> DEFINE v == Entries(k)
  <2>1. v \in Seq({k, "bytes"}) /\ Len(v) \in {1, 2} /\ v[1] = k  BY EntriesIs
  <2> HIDE DEF v
  <2>2. QED  BY <2>1 DEF v
<1>3. <<r, k>> \in Entry  BY DEF Entry
<1>4. Len(d) = n + 1 /\ d[n + 1] = <<r, k>> /\ \A i \in 1..n : d[i] = did[i]
  BY <1>3
<1>5. /\ \A i \in 0..n : S[i] = R[i] /\ Q[i] = P[i]
      /\ S[n + 1] = b /\ Q[n + 1] = q
  <2>1. n + 1 \in 0..n + 1 /\ ~(n + 1 <= n)  BY <1>1
  <2>2. S[n + 1] = b /\ Q[n + 1] = q  BY <2>1
  <2>3. ASSUME NEW i \in 0..n  PROVE S[i] = R[i] /\ Q[i] = P[i]
    <3>1. i \in 0..n + 1 /\ i <= n  BY <1>1
    <3>2. QED  BY <3>1
  <2>4. QED  BY <2>2, <2>3
<1>6. /\ R[0] = Start /\ P[0] = 0 /\ P[n] = Len(m)
      /\ \A i \in 0..n : Placed(R[i]) /\ P[i] \in Nat
      /\ \A i \in 1..n : Reads(m, R[i - 1], P[i - 1], did[i], R[i], P[i])
  BY DEF Trace
<1>7. Placed(b)
  <2>1. Placed(R[n])  BY <1>1, <1>6
  <2>2. QED  BY <2>1, GoesKeeps
<1>8. b = Goes(R[n], k)  OBVIOUS
<1>9. q = P[n] + Len(Entries(k))  BY <1>6
<1> HIDE DEF n, b, q, S, Q, d, w
<1>10. S[0] = Start /\ Q[0] = 0 /\ Q[Len(d)] = Len(w)
  BY <1>1, <1>2, <1>4, <1>5, <1>6
<1>11. ASSUME NEW i \in 0..Len(d)  PROVE Placed(S[i]) /\ Q[i] \in Nat
  <2>1. CASE i \in 0..n  BY <1>5, <1>6, <2>1
  <2>2. CASE i = n + 1  BY <1>1, <1>5, <1>7, <2>2
  <2>3. QED  BY <1>1, <1>4, <2>1, <2>2
<1>12. ASSUME NEW i \in 1..Len(d)
       PROVE  Reads(w, S[i - 1], Q[i - 1], d[i], S[i], Q[i])
  <2>1. CASE i \in 1..n
    <3>1. i \in 0..n /\ i - 1 \in 0..n  BY <1>1, <2>1
    <3>2. /\ S[i - 1] = R[i - 1] /\ Q[i - 1] = P[i - 1] /\ S[i] = R[i] /\ Q[i] = P[i]
          /\ d[i] = did[i]
      BY <1>4, <1>5, <2>1, <3>1
    <3>3. Reads(m, R[i - 1], P[i - 1], did[i], R[i], P[i])  BY <1>6, <2>1
    <3>4. P[i - 1] \in Nat  BY <1>6, <3>1
    <3>5. P[i - 1] + 1 \in 1..Len(m) /\ P[i - 1] < Len(w)
      BY <1>1, <1>2, <3>3, <3>4 DEF Reads
    <3>6. w[P[i - 1] + 1] = m[P[i - 1] + 1]  BY <1>2, <3>5
    <3>7. Reads(w, R[i - 1], P[i - 1], did[i], R[i], P[i])  BY <3>3, <3>5, <3>6 DEF Reads
    <3>8. QED  BY <3>2, <3>7
  <2>2. CASE i = n + 1
    <3>1. i - 1 = n /\ n \in 0..n  BY <1>1, <2>2
    <3>2. /\ S[i - 1] = R[n] /\ Q[i - 1] = Len(m) /\ S[i] = b /\ Q[i] = q
          /\ d[i] = <<r, k>>
      BY <1>4, <1>5, <1>6, <2>2, <3>1
    <3>3. <<r, k>>[1] = r /\ <<r, k>>[2] = k  OBVIOUS
    <3>4. r = Last(R[n].stack)  BY DEF n
    <3>5. Len(m) < Len(w)  BY <1>1, <1>2
    <3>6. QED  BY <1>2, <1>6, <1>8, <1>9, <3>2, <3>3, <3>4, <3>5 DEF Reads
  <2>3. QED  BY <1>1, <1>4, <2>1, <2>2
<1>13. Trace(d, w, S, Q)  BY <1>10, <1>11, <1>12 DEF Trace
<1>14. QED  BY <1>5, <1>8, <1>13 DEF n, d, w

-----------------------------------------------------------------------------
(* What the history keeps of a recording and of its replay. *)
History == [did : Seq(Entry), redone : Seq(Entry), missed : BOOLEAN]

(* The replay s has come to place j of the recording. *)
Follows(s, did, redone, R, P, j) ==
  /\ Len(redone) = j /\ \A i \in 1..j : redone[i] = did[i]
  /\ s.playback = P[j] /\ Under(R[j], At(s))

Told(s, did, redone, R, P) ==
  /\ Trace(did, s.macro, R, P)
  /\ s.recording  => R[Len(did)] = At(s)
  /\ ~s.recording => R[Len(did)] = Start
  /\ Playing(s) /\ s.stack[2] = "macro" =>
       \E j \in 0..Len(did) : Follows(s, did, redone, R, P, j)

StoryOK ==
  /\ h \in History
  /\ ~h.missed => \E R, P : Told(e, h.did, h.redone, R, P)

(* A place before the last has a key to read, and none comes after the last.*)
LEMMA TraceStep ==
  ASSUME NEW did \in Seq(Entry), NEW m, Len(m) \in Nat, NEW R, NEW P, Trace(did, m, R, P),
         NEW j \in 0..Len(did)
  PROVE  /\ Placed(R[j]) /\ P[j] \in Nat
         /\ P[j] < Len(m) =>
              /\ j + 1 \in 1..Len(did)
              /\ Reads(m, R[j], P[j], did[j + 1], R[j + 1], P[j + 1])
              /\ did[j + 1] = <<Last(R[j].stack), m[P[j] + 1]>>
         /\ P[j] >= Len(m) => j = Len(did)
<1> DEFINE n == Len(did)
<1>1. n \in Nat  OBVIOUS
<1>2. Placed(R[j]) /\ P[j] \in Nat  BY DEF Trace
<1>3. P[n] = Len(m)  BY DEF Trace
<1>4. ASSUME j # n
      PROVE  /\ j + 1 \in 1..n
             /\ Reads(m, R[j], P[j], did[j + 1], R[j + 1], P[j + 1])
             /\ did[j + 1] = <<Last(R[j].stack), m[P[j] + 1]>>
  <2>1. j + 1 \in 1..n /\ (j + 1) - 1 = j  BY <1>1, <1>4
  <2>2. Reads(m, R[j], P[j], did[j + 1], R[j + 1], P[j + 1])  BY <2>1 DEF Trace
  <2>3. did[j + 1] \in Frame \X (Key \cup {Fail})  BY <2>1 DEF Entry
  <2>4. did[j + 1] = <<did[j + 1][1], did[j + 1][2]>>  BY <2>3
  <2>5. did[j + 1][1] = Last(R[j].stack) /\ did[j + 1][2] = m[P[j] + 1]  BY <2>2 DEF Reads
  <2>6. QED  BY <2>1, <2>2, <2>4, <2>5
<1>5. j # n => P[j] < Len(m)  BY <1>4 DEF Reads
<1>6. P[j] < Len(m) => j # n  BY <1>2, <1>3
<1>7. P[j] >= Len(m) => j = n  BY <1>2, <1>5
<1>8. QED  BY <1>2, <1>4, <1>6, <1>7

(* What Log keeps. *)
Logged(k) ==
  /\ k = Fail => Reader \notin {"main", "prompt"}
  /\ k \notin RegisterName => Reader # "register"

LEMMA LogIs ==
  ASSUME NEW k, Log(k)
  PROVE  LET begun == ~e.recording /\ e'.recording
             add(l) == IF Logged(k) THEN Append(l, <<Where, k>>) ELSE l
         IN  /\ h' = [did |-> h'.did, redone |-> h'.redone, missed |-> h'.missed]
             /\ h'.did = IF begun THEN <<>> ELSE IF e.recording THEN add(h.did) ELSE h.did
             /\ h'.redone = IF Playing(e') /\ ~Playing(e) THEN <<>>
                            ELSE IF Playing(e) THEN add(h.redone) ELSE h.redone
             /\ h'.missed = IF begun THEN e'.stack # <<"main">>
                            ELSE \/ h.missed
                                 \/ /\ e.recording
                                    /\ \/ Reader = "zap"
                                       \/ Reader = "C-x x" /\ k = Fail
                                       \/ ~e'.recording /\ e.stack # <<"main">>
<1> DEFINE entry == <<Where, k>>
           begun == ~e.recording /\ e'.recording
           skip  == \/ k = Fail /\ Reader \in {"main", "prompt"}
                    \/ k \notin RegisterName /\ Reader = "register"
           did    == IF begun THEN <<>>
                     ELSE IF e.recording THEN (IF skip THEN h.did ELSE Append(h.did, entry))
                     ELSE h.did
           redone == IF Playing(e') /\ ~Playing(e) THEN <<>>
                     ELSE IF Playing(e) THEN (IF skip THEN h.redone ELSE Append(h.redone, entry))
                     ELSE h.redone
           missed == IF begun THEN e'.stack # <<"main">>
                     ELSE \/ h.missed
                          \/ /\ e.recording
                             /\ \/ Reader = "zap"
                                \/ Reader = "C-x x" /\ k = Fail
                                \/ ~e'.recording /\ e.stack # <<"main">>
<1>1. h' = [did |-> did, redone |-> redone, missed |-> missed]  BY DEF Log
<1>2. skip <=> ~Logged(k)  BY DEF Logged
<1> HIDE DEF missed
<1>3. h'.did = did /\ h'.redone = redone /\ h'.missed = missed  BY <1>1
<1>4. h' = [did |-> h'.did, redone |-> h'.redone, missed |-> h'.missed]
  <2> HIDE DEF did, redone
  <2>1. QED  BY <1>1
<1> HIDE DEF skip
<1>5. QED  BY <1>2, <1>3, <1>4 DEF missed

(* The history stays one. *)
LEMMA HistoryKept ==
  ASSUME EditorOK, h \in History, NEW k \in Key \cup {Fail}, Log(k)
  PROVE  h' \in History
<1> DEFINE add(l) == IF Logged(k) THEN Append(l, <<Where, k>>) ELSE l
<1>1. Reader \in Frame
  <2>1. e.stack \in Seq(Frame) /\ e.stack # <<>>  BY GoodIs DEF EditorOK, StackOK
  <2>2. Len(e.stack) \in DOMAIN e.stack  BY <2>1
  <2>3. QED  BY <2>1, <2>2 DEF Last, Reader
<1>2. Where \in Frame  BY <1>1 DEF Where, Frame
<1>3. <<Where, k>> \in Entry  BY <1>2 DEF Entry
<1>4. h.did \in Seq(Entry) /\ h.redone \in Seq(Entry) /\ h.missed \in BOOLEAN  BY DEF History
<1>5. ASSUME NEW l \in Seq(Entry)  PROVE add(l) \in Seq(Entry)  BY <1>3
<1>6. <<>> \in Seq(Entry)  OBVIOUS
<1> HIDE DEF add
<1>7. h'.did \in {<<>>, h.did, add(h.did)} /\ h'.redone \in {<<>>, h.redone, add(h.redone)}
  BY LogIs DEF add
<1>8. h'.did \in Seq(Entry) /\ h'.redone \in Seq(Entry)  BY <1>4, <1>5, <1>6, <1>7
<1>9. h'.missed \in BOOLEAN  BY <1>4, LogIs
<1>10. h' = [did |-> h'.did, redone |-> h'.redone, missed |-> h'.missed]  BY LogIs
<1>11. QED  BY <1>8, <1>9, <1>10 DEF History

LEMMA ReaderIn == ASSUME EditorOK PROVE Reader \in Frame
<1>1. e.stack \in Seq(Frame) /\ e.stack # <<>>  BY GoodIs DEF EditorOK, StackOK
<1>2. Len(e.stack) \in DOMAIN e.stack  BY <1>1
<1>3. QED  BY <1>1, <1>2 DEF Last, Reader

LEMMA AppendIs ==
  ASSUME NEW b \in Seq(Frame), NEW f \in Frame
  PROVE  /\ Append(b, f) \in Seq(Frame) /\ Len(Append(b, f)) = Len(b) + 1
         /\ Append(b, f)[Len(b) + 1] = f /\ \A i \in 1..Len(b) : Append(b, f)[i] = b[i]
<1>1. Len(b) \in Nat  OBVIOUS
<1>2. QED  BY <1>1

LEMMA MacroAboveMain ==
  ASSUME NEW b \in Seq(Frame), Len(b) = 1, b[1] = "main"
  PROVE  Below(b, Append(b, "macro"))
<1>1. ASSUME NEW f \in Frame, f = "macro"  PROVE Below(b, Append(b, f))
  <2> DEFINE v == Append(b, f)
  <2>1. v \in Seq(Frame) /\ Len(v) = Len(b) + 1 /\ v[Len(b) + 1] = f
        /\ \A i \in 1..Len(b) : v[i] = b[i]
    BY AppendIs
  <2>2. 1 \in 1..Len(b) /\ Len(b) + 1 = 2  OBVIOUS
  <2> HIDE DEF v
  <2>3. v \in Seq(Frame) /\ Len(v) = Len(b) + 1 /\ v[1] = "main" /\ v[2] = "macro"
    BY <1>1, <2>1, <2>2
  <2>4. 2..Len(b) = {}  OBVIOUS
  <2>5. QED  BY <2>3, <2>4 DEF Below, v
<1>2. "macro" \in Frame  BY DEF Frame
<1>3. QED  BY <1>1, <1>2

(* A key where nothing is recorded or played. *)
LEMMA IdleStory ==
  ASSUME EditorOK, StoryOK, AtTerminal, e.recording = FALSE, NEW k \in Key \cup {Fail}, Got(k)
  PROVE  StoryOK'
<1>1. Good(e) /\ Reader # "macro" /\ e.playback = 0  BY DEF EditorOK, AtTerminal
<1>2. ~Playing(e)  BY <1>1 DEF EditorOK, Top, Reader
<1>3. PICK n \in 1..MaxReps : e' = Deliver(e, k, n) /\ Log(k)  BY DEF Got
<1>4. Starts(e, Deliver(e, k, n))  BY <1>1, <1>2, DeliverIdle
<1>5. Starts(e, e')  BY <1>3, <1>4
<1>6. h' \in History  BY <1>3, HistoryKept DEF StoryOK
<1>7. Good(e')  BY GotOK DEF EditorOK
<1>8. e'.recording \in BOOLEAN /\ e'.prefix \in BOOLEAN /\ (Playing(e') => ~e'.recording)
  BY <1>7, GoodIs DEF Good
<1>9. CASE e'.recording
  <2>1. h'.did = <<>> /\ h'.missed = (e'.stack # <<"main">>)  BY <1>3, <1>9, LogIs
  <2>2. e'.macro = <<>> /\ e'.prefix = FALSE  BY <1>5, <1>9 DEF Starts
  <2>3. ~Playing(e')  BY <1>8, <1>9
  <2>4. ASSUME ~h'.missed  PROVE \E R, P : Told(e', h'.did, h'.redone, R, P)
    <3>1. PICK R, P : Trace(<<>>, <<>>, R, P) /\ R[0] = Start  BY TraceEmpty
    <3>2. At(e') = Start  BY <2>1, <2>2, <2>4 DEF At, Start
    <3>3. Len(<<>>) = 0  OBVIOUS
    <3>4. Told(e', h'.did, h'.redone, R, P)
      BY <1>9, <2>1, <2>2, <2>3, <3>1, <3>2, <3>3 DEF Told
    <3>5. QED  BY <3>4
  <2>5. QED  BY <1>6, <2>4 DEF StoryOK
<1>10. CASE ~e'.recording
  <2>1. h'.did = h.did /\ (h'.missed = h.missed)  BY <1>3, <1>10, LogIs DEF StoryOK, History
  <2>2. e'.macro = e.macro  BY <1>5, <1>10 DEF Starts
  <2>3. ASSUME NEW R, NEW P, Told(e, h.did, h.redone, R, P),
               Playing(e'), e'.stack[2] = "macro"
        PROVE  Follows(e', h'.did, h'.redone, R, P, 0) /\ 0 \in 0..Len(h'.did)
    <3>1. e'.stack = Append(e.stack, "macro") /\ e'.prefix = FALSE /\ e'.playback = 0
      BY <1>5, <2>3 DEF Starts
    <3>2. e.stack = <<"main">>
      <4> DEFINE u == e.stack
      <4>1. StackOK(u) /\ ~(\E i \in DOMAIN u : u[i] = "macro") /\ Append(u, "macro")[2] = "macro"
        BY <1>1, <1>2, <2>3, <3>1, GoodIs, PlayingIs
      <4> HIDE DEF u
      <4>2. u \in Seq(Frame) /\ Len(u) \in Nat \ {0} /\ DOMAIN u = 1..Len(u) /\ u[1] = "main"
        BY <4>1 DEF StackOK
      <4>3. Len(u) = 1
        <5>1. CASE Len(u) > 1
          <6>1. 2 \in DOMAIN u /\ 2 \in 1..Len(u)  BY <4>2, <5>1
          <6>2. Append(u, "macro")[2] = u[2]  BY <4>2, <6>1
          <6>3. QED  BY <4>1, <6>1, <6>2
        <5>2. QED  BY <4>2, <5>1
      <4>4. u = <<"main">>  BY <4>2, <4>3
      <4>5. QED  BY <4>4 DEF u
    <3>3. h'.redone = <<>>  BY <1>2, <1>3, <2>3, LogIs
    <3>4. Below(<<"main">>, e'.stack)
      <4> DEFINE b == <<"main">>
                 v == Append(b, "macro")
      <4>1. e'.stack = v  BY <3>1, <3>2
      <4>2. b \in Seq(Frame) /\ Len(b) = 1 /\ b[1] = "main" /\ "macro" \in Frame  BY DEF Frame
      <4> HIDE DEF b
      <4>4. Below(b, v)  BY <4>2, MacroAboveMain
      <4>5. QED  BY <4>1, <4>4 DEF b
    <3>5. At(e').stack = e'.stack /\ At(e').prefix = FALSE  BY <3>1 DEF At
    <3>6. R[0] = Start /\ P[0] = 0  BY <2>3 DEF Told, Trace
    <3>7. Under(R[0], At(e'))  BY <3>4, <3>5, <3>6, StartPlaced DEF Under
    <3>8. Len(<<>>) = 0 /\ 1..0 = {}  OBVIOUS
    <3>9. 0 \in 0..Len(h'.did)
      <4>1. h'.did \in Seq(Entry)  BY <1>6 DEF History
      <4>2. QED  BY <4>1
    <3>10. QED  BY <3>1, <3>3, <3>6, <3>7, <3>8, <3>9 DEF Follows
  <2>4. ASSUME NEW R, NEW P, Told(e, h.did, h.redone, R, P)
        PROVE  Told(e', h'.did, h'.redone, R, P)
    <3>1. Trace(h'.did, e'.macro, R, P) /\ R[Len(h'.did)] = Start
      BY <2>1, <2>2, <2>4 DEF Told
    <3>2. QED  BY <1>10, <2>3, <2>4, <3>1 DEF Told
  <2>5. QED  BY <1>6, <2>1, <2>4 DEF StoryOK
<1>11. QED  BY <1>9, <1>10

(* A key while a macro is recorded. *)
LEMMA RecordingStory ==
  ASSUME EditorOK, StoryOK, AtTerminal, e.recording = TRUE, NEW k \in Key \cup {Fail}, Got(k)
  PROVE  StoryOK'
<1>1. Good(e) /\ Reader # "macro" /\ ~Playing(e)  BY DEF EditorOK, Good, AtTerminal
<1>2. PICK n \in 1..MaxReps : e' = Deliver(e, k, n) /\ Log(k)  BY DEF Got
<1>3. h' \in History  BY <1>2, HistoryKept DEF StoryOK
<1>4. h'.did = IF Logged(k) THEN Append(h.did, <<Reader, k>>) ELSE h.did
  <2>1. Where = Reader  BY <1>1 DEF Where
  <2>2. h'.did = IF Logged(k) THEN Append(h.did, <<Where, k>>) ELSE h.did  BY <1>2, LogIs
  <2>3. QED  BY <2>1, <2>2
<1> SUFFICES ASSUME ~h'.missed  PROVE \E R, P : Told(e', h'.did, h'.redone, R, P)
  BY <1>3 DEF StoryOK
<1>5. ~h.missed /\ Reader # "zap" /\ ~(Reader = "C-x x" /\ k = Fail)
      /\ (~e'.recording => e.stack = <<"main">>)
  <2> DEFINE lost == \/ h.missed
                     \/ /\ e.recording
                        /\ \/ Reader = "zap"
                           \/ Reader = "C-x x" /\ k = Fail
                           \/ ~e'.recording /\ e.stack # <<"main">>
  <2>1. h'.missed = lost  BY <1>2, LogIs
  <2>2. ~lost  BY <2>1
  <2>3. QED  BY <2>2
<1>6. PICK R, P : Told(e, h.did, h.redone, R, P)  BY <1>5 DEF StoryOK
<1>7. Trace(h.did, e.macro, R, P) /\ R[Len(h.did)] = At(e)  BY <1>6 DEF Told
<1>8. h.did \in Seq(Entry) /\ e.macro \in Seq(Key \cup {Fail, "bytes"})
  BY <1>1, GoodIs DEF StoryOK, History, MacroOK
<1>9. CASE Taken(Reader, k)
  <2>1. Logged(k)  BY <1>9 DEF Logged, Taken
  <2>2. /\ At(e') = Goes(At(e), k) /\ e'.macro = e.macro \o Entries(k)
        /\ ~e'.recording => e'.prefix = FALSE /\ e'.stack = e.stack
    BY <1>1, <1>2, <1>9, DeliverRecording
  <2>3. Reader = Last(R[Len(h.did)].stack)  BY <1>7 DEF At, Reader
  <2>4. PICK S, Q : /\ Trace(Append(h.did, <<Reader, k>>), e.macro \o Entries(k), S, Q)
                    /\ S[Len(h.did) + 1] = Goes(R[Len(h.did)], k)
    <3> DEFINE r == Reader
               d == h.did
               m == e.macro
               X == Key \cup {Fail, "bytes"}
    <3>1. r \in Frame /\ d \in Seq(Entry) /\ m \in Seq(X) /\ Trace(d, m, R, P)
          /\ r = Last(R[Len(d)].stack) /\ Taken(r, k)
      BY <1>7, <1>8, <1>9, <2>3, ReaderIn
    <3> HIDE DEF r, d, m, X
    <3>2. \E S, Q : /\ Trace(Append(d, <<r, k>>), m \o Entries(k), S, Q)
                    /\ S[Len(d) + 1] = Goes(R[Len(d)], k)
      BY <3>1, TraceAppend
    <3>3. QED  BY <3>2 DEF r, d, m
  <2>5. h'.did = Append(h.did, <<Reader, k>>)  BY <1>4, <2>1
  <2>6. Len(h'.did) = Len(h.did) + 1
    <3>1. <<Reader, k>> \in Entry  BY ReaderIn DEF Entry
    <3>2. QED  BY <1>8, <2>5, <3>1
  <2>7. S[Len(h'.did)] = At(e')  BY <1>7, <2>2, <2>4, <2>6
  <2>8. Trace(h'.did, e'.macro, S, Q)  BY <2>2, <2>4, <2>5
  <2>9. ~e'.recording => At(e') = Start  BY <1>5, <2>2 DEF At, Start
  <2>10. ~Playing(e')
    <3>1. h'.did \in Seq(Entry)  BY <1>3 DEF History
    <3>2. Len(h'.did) \in 0..Len(h'.did)  BY <3>1
    <3>3. Placed(At(e'))  BY <2>7, <2>8, <3>2 DEF Trace
    <3>4. RecordedStack(e'.stack)  BY <3>3 DEF Placed, At
    <3>5. ~\E i \in DOMAIN e'.stack : e'.stack[i] = "macro"
      <4> DEFINE u == e'.stack
      <4>1. RecordedStack(u)  BY <3>4
      <4> HIDE DEF u
      <4>2. u \in Seq(Frame) /\ DOMAIN u = 1..Len(u) /\ Len(u) \in Nat /\ u[1] = "main"
            /\ \A i \in DOMAIN u : i > 1 => u[i] # "macro"
        BY <4>1 DEF RecordedStack
      <4>3. ASSUME NEW i \in DOMAIN u  PROVE u[i] # "macro"
        <5>1. i = 1 \/ i > 1  BY <4>2
        <5>2. QED  BY <4>2, <5>1
      <4>4. QED  BY <4>3 DEF u
    <3>6. QED  BY <3>5, PlayingIs
  <2>11. Told(e', h'.did, h'.redone, S, Q)  BY <2>7, <2>8, <2>9, <2>10 DEF Told
  <2>12. QED  BY <2>11
<1>10. CASE ~Taken(Reader, k)
  <2>1. \/ Reader \in {"main", "prompt"} /\ k = Fail
        \/ Reader = "register" /\ k \notin RegisterName
    BY <1>5, <1>10 DEF Taken
  <2>2. e' = e  BY <1>2, <2>1 DEF Deliver
  <2>3. ~Logged(k)  BY <2>1 DEF Logged
  <2>4. h'.did = h.did  BY <1>4, <2>3
  <2>5. Told(e', h'.did, h'.redone, R, P)  BY <1>1, <1>6, <2>2, <2>4 DEF Told
  <2>6. QED  BY <2>5
<1>11. QED  BY <1>9, <1>10

(* A macro that is played in a prompt does not come to be played from the   *)
(* main loop.                                                               *)
LEMMA SecondStays ==
  ASSUME NEW st, StackOK(st), \E i \in DOMAIN st : st[i] = "macro", st[2] # "macro", NEW t,
         t = st \/ t = Front(st) \/ \E f \in Frame : t = Append(st, f)
  PROVE  t[2] # "macro"
<1>1. st \in Seq(Frame) /\ Len(st) \in Nat /\ DOMAIN st = 1..Len(st) /\ st[1] = "main"
  BY DEF StackOK
<1>2. PICK i \in DOMAIN st : st[i] = "macro"  OBVIOUS
<1>3. Len(st) > 2
  <2>1. i # 1 /\ i # 2  BY <1>1, <1>2
  <2>2. QED  BY <1>1, <2>1
<1>4. CASE t = st  BY <1>4
<1>5. CASE t = Front(st)
  <2>1. 2 \in 1..Len(st) - 1 /\ Len(st) > 1  BY <1>1, <1>3
  <2>2. \A x \in 1..Len(st) - 1 : Front(st)[x] = st[x]  BY <1>1, <2>1, FrontOf
  <2>3. QED  BY <1>5, <2>1, <2>2
<1>6. ASSUME NEW f \in Frame, t = Append(st, f)  PROVE t[2] # "macro"
  <2>1. 2 \in 1..Len(st)  BY <1>1, <1>3
  <2>2. \A x \in 1..Len(st) : Append(st, f)[x] = st[x]  BY <1>1, AppendIs
  <2>3. QED  BY <1>6, <2>1, <2>2
<1>7. QED  BY <1>4, <1>5, <1>6

(* What a step of a replay has to show. *)
LEMMA ReplayStep ==
  ASSUME EditorOK, StoryOK, EditorOK', e.recording = FALSE, e'.recording = FALSE,
         e'.macro = e.macro, Playing(e), NEW k \in Key \cup {Fail}, Log(k),
         e.stack[2] # "macro" => e'.stack[2] # "macro",
         \A R, P : \A j \in 0..Len(h.did) :
            /\ ~h.missed /\ Told(e, h.did, h.redone, R, P)
            /\ Follows(e, h.did, h.redone, R, P, j)
            => /\ j + 1 \in 1..Len(h.did) /\ Logged(k) /\ h.did[j + 1] = <<Where, k>>
               /\ e'.playback = P[j + 1] /\ Under(R[j + 1], At(e'))
  PROVE  StoryOK'
<1>1. h' \in History  BY HistoryKept DEF StoryOK
<1>2. h'.did = h.did /\ (h'.missed = h.missed)  BY LogIs DEF StoryOK, History
<1>3. h'.redone = IF Logged(k) THEN Append(h.redone, <<Where, k>>) ELSE h.redone  BY LogIs
<1>4. h.redone \in Seq(Entry) /\ h.did \in Seq(Entry)  BY DEF StoryOK, History
<1> SUFFICES ASSUME ~h.missed, NEW R, NEW P, Told(e, h.did, h.redone, R, P)
             PROVE  Told(e', h'.did, h'.redone, R, P)
  BY <1>1, <1>2 DEF StoryOK
<1>5. Trace(h'.did, e'.macro, R, P) /\ R[Len(h'.did)] = Start  BY <1>2 DEF Told
<1>6. ASSUME e'.stack[2] = "macro"
      PROVE  \E j \in 0..Len(h'.did) : Follows(e', h'.did, h'.redone, R, P, j)
  <2>1. PICK j \in 0..Len(h.did) : Follows(e, h.did, h.redone, R, P, j)  BY <1>6 DEF Told
  <2>2. /\ j + 1 \in 1..Len(h.did) /\ Logged(k) /\ h.did[j + 1] = <<Where, k>>
        /\ e'.playback = P[j + 1] /\ Under(R[j + 1], At(e'))
    BY <2>1
  <2>3. Len(h.redone) = j /\ \A i \in 1..j : h.redone[i] = h.did[i]  BY <2>1 DEF Follows
  <2>4. h'.redone = Append(h.redone, h.did[j + 1])  BY <1>3, <2>2
  <2>5. h.did[j + 1] \in Entry  BY <1>4, <2>2
  <2>6. Len(h'.redone) = j + 1 /\ \A i \in 1..j + 1 : h'.redone[i] = h.did[i]
    <3> DEFINE d == h.did
               r == h.redone
               x == d[j + 1]
               w == Append(r, x)
    <3>1. /\ r \in Seq(Entry) /\ x \in Entry /\ Len(r) = j /\ \A i \in 1..j : r[i] = d[i]
          /\ j \in Nat
      BY <1>4, <2>3, <2>5
    <3>2. x = d[j + 1]  OBVIOUS
    <3> HIDE DEF r, x, d
    <3>3. Len(w) = Len(r) + 1 /\ w[Len(r) + 1] = x /\ \A i \in 1..Len(r) : w[i] = r[i]
      BY <3>1, AppendProperties
    <3> HIDE DEF w
    <3>4. ASSUME NEW i \in 1..j + 1  PROVE w[i] = d[i]
      <4>1. CASE i = j + 1  BY <3>1, <3>2, <3>3, <4>1
      <4>2. CASE i # j + 1
        <5>1. i \in 1..j  BY <3>1, <4>2
        <5>2. QED  BY <3>1, <3>3, <5>1
      <4>3. QED  BY <4>1, <4>2
    <3>5. Len(w) = j + 1  BY <3>1, <3>3
    <3>6. QED  BY <2>4, <3>4, <3>5 DEF w, r, x, d
  <2>7. Follows(e', h'.did, h'.redone, R, P, j + 1)  BY <1>2, <2>2, <2>6 DEF Follows
  <2>8. j + 1 \in 0..Len(h'.did)
    <3>1. j + 1 \in 1..Len(h'.did)  BY <1>2, <2>2
    <3>2. QED  BY <3>1
  <2>9. QED  BY <2>7, <2>8
<1>7. QED  BY <1>5, <1>6 DEF Told

LEMMA LengthOfMacro ==
  ASSUME NEW s, Good(s)  PROVE Len(s.macro) \in Nat /\ s.playback \in Nat
BY GoodIs DEF MacroOK

(* execMacro's next key. *)
LEMMA PlayKeyStory ==
  ASSUME EditorOK, StoryOK, PlayKey
  PROVE  StoryOK'
<1> DEFINE k == e.macro[e.playback + 1]
           s == [e EXCEPT !.playback = e.playback + Len(Entries(k))]
<1>1. Good(e) /\ Reader = "macro" /\ e.playback < Len(e.macro)  BY DEF EditorOK, PlayKey
<1>2. Playing(e) /\ e.recording = FALSE  BY <1>1, ReaderIsPlaying, GoodIs DEF Good
<1>3. /\ k \in Key \cup {Fail} /\ Good(s) /\ Ready(s) /\ Playing(s)
      /\ s.stack = e.stack /\ s.macro = e.macro /\ s.recording = e.recording
      /\ s.prefix = e.prefix /\ s.playback = e.playback + Len(Entries(k))
  BY <1>1, <1>2, AdvanceOK
<1>4. s = [e EXCEPT !.playback = After(@)]  BY DEF After
<1>5. e' = Command(s, k, 1) /\ Log(k)  BY <1>4 DEF PlayKey
<1>6. k = e.macro[e.playback + 1]  OBVIOUS
<1>7. EditorOK' /\ Undisturbed  BY PlayKeyOK
<1>8. e'.recording = FALSE /\ e'.macro = e.macro
  <2>1. Good(e')  BY <1>7 DEF EditorOK
  <2>2. QED  BY <1>2, <1>7, <2>1, GoodIs DEF Undisturbed
<1> HIDE DEF k, s
<1>9. At(e') = Does(At(e), k) /\ e'.playback = s.playback
  <2>1. Good(s) /\ Ready(s) /\ s.playback # 0  BY <1>3 DEF Ready
  <2>2. ASSUME NEW n
        PROVE  At(Command(s, k, n)) = Does(At(s), k) /\ Command(s, k, n).playback = s.playback
    BY <2>1, CommandIs
  <2>3. At(s) = At(e)  BY <1>3, AtIs
  <2>4. QED  BY <1>5, <2>2, <2>3
<1>10. e'.stack = Does(At(e), k).stack /\ At(e).stack = e.stack  BY <1>9 DEF At
<1>11. e.stack[2] # "macro" => e'.stack[2] # "macro"
  <2>1. StackOK(e.stack) /\ \E i \in DOMAIN e.stack : e.stack[i] = "macro"
    BY <1>1, <1>2, GoodIs, PlayingIs
  <2>2. e'.stack = e.stack \/ \E f \in Frame : e'.stack = Append(e.stack, f)
    BY <1>10, DoesMoves
  <2>3. QED  BY <2>1, <2>2, SecondStays
<1>12. ASSUME NEW R, NEW P, NEW j \in 0..Len(h.did), Told(e, h.did, h.redone, R, P),
              Follows(e, h.did, h.redone, R, P, j)
       PROVE  /\ j + 1 \in 1..Len(h.did) /\ Logged(k) /\ h.did[j + 1] = <<Where, k>>
              /\ e'.playback = P[j + 1] /\ Under(R[j + 1], At(e'))
  <2>1. h.did \in Seq(Entry) /\ Trace(h.did, e.macro, R, P) /\ Len(e.macro) \in Nat
    BY <1>1, <1>12, LengthOfMacro DEF StoryOK, History, Told
  <2>2. e.playback = P[j] /\ Under(R[j], At(e))  BY <1>12 DEF Follows
  <2>3. /\ Placed(R[j]) /\ j + 1 \in 1..Len(h.did)
        /\ Reads(e.macro, R[j], P[j], h.did[j + 1], R[j + 1], P[j + 1])
        /\ h.did[j + 1] = <<Last(R[j].stack), k>>
    <3>1. P[j] < Len(e.macro) /\ e.macro[P[j] + 1] = k  BY <1>1, <1>6, <2>2
    <3>2. /\ Placed(R[j]) /\ j + 1 \in 1..Len(h.did)
          /\ Reads(e.macro, R[j], P[j], h.did[j + 1], R[j + 1], P[j + 1])
          /\ h.did[j + 1] = <<Last(R[j].stack), e.macro[P[j] + 1]>>
      <4> DEFINE d == h.did
                 m == e.macro
      <4>1. d \in Seq(Entry) /\ Trace(d, m, R, P) /\ Len(m) \in Nat /\ P[j] < Len(m)
            /\ j \in 0..Len(d)
        BY <2>1, <3>1
      <4> HIDE DEF d, m
      <4>2. /\ Placed(R[j]) /\ j + 1 \in 1..Len(d)
            /\ Reads(m, R[j], P[j], d[j + 1], R[j + 1], P[j + 1])
            /\ d[j + 1] = <<Last(R[j].stack), m[P[j] + 1]>>
        BY <4>1, TraceStep
      <4>3. QED  BY <4>2 DEF d, m
    <3>3. QED  BY <3>1, <3>2
  <2>4. Below(R[j].stack, e.stack) /\ RecordedStack(R[j].stack)
    BY <2>2, <2>3 DEF Under, At, Placed
  <2>5. Last(R[j].stack) = "main"  BY <1>1, <2>4, BelowReads DEF Reader
  <2>6. "prompt" \notin ToSet(e.stack)
    <3>1. R[j].stack = <<"main">>  BY <2>4, <2>5, BelowReads
    <3>2. "prompt" \notin ToSet(<<"main">>)  BY DEF ToSet
    <3>3. QED  BY <2>4, <3>1, <3>2, BelowReads
  <2>7. Where = "main"  BY <1>1, <2>6 DEF Where, InPrompt
  <2>8. Logged(k)  BY <1>1 DEF Logged
  <2>9. h.did[j + 1][2] = k  BY <2>3
  <2>10. R[j + 1] = Goes(R[j], k) /\ P[j + 1] = P[j] + Len(Entries(k))
    BY <2>3, <2>9 DEF Reads
  <2>11. Goes(R[j], k) = Does(R[j], k)  BY <2>5 DEF Goes
  <2>12. Under(R[j + 1], At(e'))  BY <1>9, <2>2, <2>3, <2>10, <2>11, DoesKeeps
  <2>13. e'.playback = P[j + 1]  BY <1>3, <1>9, <2>2, <2>10
  <2>14. QED  BY <2>3, <2>5, <2>7, <2>8, <2>12, <2>13
<1>13. QED  BY <1>2, <1>3, <1>5, <1>7, <1>8, <1>11, <1>12, ReplayStep

(* The end of a repetition, or of the replay. *)
LEMMA PlayEndStory ==
  ASSUME EditorOK, StoryOK, PlayEnd
  PROVE  StoryOK'
<1>1. Good(e) /\ Last(e.stack) = "macro" /\ Reader = "macro" /\ e.playback >= Len(e.macro)
  BY DEF EditorOK, PlayEnd, Reader
<1>2. Playing(e) /\ e.recording = FALSE  BY <1>1, ReaderIsPlaying, GoodIs DEF Good
<1>3. /\ h' \in History /\ h'.did = h.did /\ h'.redone = <<>> /\ (h'.missed = h.missed)
  <2>1. h' = [h EXCEPT !.redone = <<>>] /\ h \in History  BY DEF PlayEnd, StoryOK
  <2>2. <<>> \in Seq(Entry)  OBVIOUS
  <2>3. QED  BY <2>1, <2>2 DEF History
<1> SUFFICES ASSUME ~h.missed, NEW R, NEW P, Told(e, h.did, h.redone, R, P)
             PROVE  Told(e', h'.did, h'.redone, R, P)
  BY <1>3 DEF StoryOK
<1>4. Trace(h.did, e.macro, R, P) /\ R[Len(h.did)] = Start  BY <1>2 DEF Told
<1>5. CASE e.reps > 1
  <2>1. e' = [e EXCEPT !.playback = 0, !.reps = e.reps - 1]  BY <1>5 DEF PlayEnd
  <2>2. e' = [stack |-> e.stack, prefix |-> e.prefix, recording |-> FALSE,
              macro |-> e.macro, playback |-> 0, reps |-> e.reps - 1]
    BY <1>1, <1>2, <2>1, EndFields
  <2>3. /\ e'.stack = e.stack /\ e'.prefix = e.prefix /\ e'.recording = FALSE
        /\ e'.macro = e.macro /\ e'.playback = 0
    BY <2>2
  <2>4. At(e') = At(e)  BY <2>3, AtIs
  <2>5. ASSUME e.stack[2] = "macro"
        PROVE  0 \in 0..Len(h.did) /\ Follows(e', h.did, <<>>, R, P, 0)
    <3>1. PICK j \in 0..Len(h.did) : Follows(e, h.did, h.redone, R, P, j)
      BY <1>2, <2>5 DEF Told
    <3>2. e.playback = P[j] /\ Under(R[j], At(e))  BY <3>1 DEF Follows
    <3>3. h.did \in Seq(Entry) /\ Len(e.macro) \in Nat
      BY <1>1, LengthOfMacro DEF StoryOK, History
    <3>4. j = Len(h.did)  BY <1>1, <1>4, <3>2, <3>3, TraceStep
    <3>5. R[0] = Start /\ P[0] = 0  BY <1>4 DEF Trace
    <3>6. Under(R[0], At(e'))  BY <1>4, <2>4, <3>2, <3>4, <3>5
    <3>7. Len(<<>>) = 0 /\ 1..0 = {}  OBVIOUS
    <3>8. 0 \in 0..Len(h.did)  BY <3>3
    <3>9. QED  BY <2>3, <3>5, <3>6, <3>7, <3>8 DEF Follows
  <2>6. QED  BY <1>3, <1>4, <2>3, <2>5 DEF Told
<1>6. CASE ~(e.reps > 1)
  <2> DEFINE st == Front(e.stack)
  <2>1. e' = [Pop(e) EXCEPT !.playback = 0, !.reps = 0]  BY <1>6 DEF PlayEnd
  <2>2. e' = [stack |-> st, prefix |-> e.prefix, recording |-> FALSE,
              macro |-> e.macro, playback |-> 0, reps |-> 0]
    BY <1>1, <1>2, <2>1, EndFields
  <2>3. ~\E i \in DOMAIN st : st[i] = "macro"
    <3> DEFINE u == e.stack
    <3>1. StackOK(u) /\ Last(u) = "macro" /\ Last(u) # "main"  BY <1>1, GoodIs
    <3> HIDE DEF u
    <3>2. \A i \in DOMAIN Front(u) : Front(u)[i] # "macro"  BY <3>1, StackPop
    <3>3. QED  BY <3>2 DEF u
  <2> HIDE DEF st
  <2>4. e'.stack = st /\ e'.recording = FALSE /\ e'.macro = e.macro  BY <2>2
  <2>5. ~Playing(e')  BY <2>3, <2>4, PlayingIs
  <2>6. QED  BY <1>3, <1>4, <2>4, <2>5 DEF Told
<1>7. QED  BY <1>5, <1>6

(* Any key that is read while a macro plays moves the readers by one. *)
LEMMA DeliverMoves ==
  ASSUME NEW s, Good(s), s.playback # 0, s.stack = e.stack, Reader # "macro",
         NEW k, NEW n
  PROVE  LET t == Deliver(s, k, n).stack
         IN  t = s.stack \/ t = Front(s.stack) \/ \E f \in Frame : t = Append(s.stack, f)
<1>1. ~s.recording /\ Ready(s)  BY DEF Good, Ready
<1>2. Record(s, k) = s  BY <1>1 DEF Record
<1>3. Reader \in Frame
  <2>1. s.stack \in Seq(Frame) /\ s.stack # <<>>  BY GoodIs DEF StackOK
  <2>2. Len(s.stack) \in DOMAIN s.stack  BY <2>1
  <2>3. QED  BY <2>1, <2>2 DEF Last, Reader
<1>4. Reader \in {"main", "prompt", "zap", "quoted", "C-x x", "register"}  BY <1>3 DEF Frame
<1>5. Deliver(s, k, n) \in {s, Command(s, k, n), Pop(s)}
  BY <1>2, <1>4 DEF Deliver, SubKey
<1>6. Pop(s).stack = Front(s.stack)  BY FieldsOfPop
<1>7. Command(s, k, n).stack = s.stack
      \/ \E f \in Frame : Command(s, k, n).stack = Append(s.stack, f)
  <2>1. At(Command(s, k, n)) = Does(At(s), k)  BY <1>1, CommandIs
  <2>2. Command(s, k, n).stack = Does(At(s), k).stack /\ At(s).stack = s.stack
    BY <2>1 DEF At
  <2>3. QED  BY <2>2, DoesMoves
<1>8. QED  BY <1>5, <1>6, <1>7

(* A prompt or a command reads the next key of the macro. *)
LEMMA ReadMacroStory ==
  ASSUME EditorOK, StoryOK, ReadMacro
  PROVE  StoryOK'
<1>1. Good(e) /\ Reader # "macro" /\ e.playback # 0  BY DEF EditorOK, ReadMacro
<1>2. Playing(e) /\ e.recording = FALSE  BY <1>1, GoodIs DEF Good
<1>3. EditorOK' /\ Undisturbed  BY ReadMacroOK
<1>4. e'.recording = FALSE /\ e'.macro = e.macro
  <2>1. Good(e')  BY <1>3 DEF EditorOK
  <2>2. QED  BY <1>2, <1>3, <2>1, GoodIs DEF Undisturbed
<1>5. Len(e.macro) \in Nat /\ e.playback \in Nat  BY <1>1, LengthOfMacro
<1>6. StackOK(e.stack) /\ \E i \in DOMAIN e.stack : e.stack[i] = "macro"
  BY <1>1, <1>2, GoodIs, PlayingIs
<1>7. CASE e.playback >= Len(e.macro)
  <2>1. e' = Deliver(e, Fail, 1) /\ Log(Fail)  BY <1>7 DEF ReadMacro
  <2>2. e'.stack = e.stack \/ e'.stack = Front(e.stack)
        \/ \E f \in Frame : e'.stack = Append(e.stack, f)
    BY <1>1, <2>1, DeliverMoves
  <2>3. e.stack[2] # "macro" => e'.stack[2] # "macro"  BY <1>6, <2>2, SecondStays
  <2>4. ASSUME NEW R, NEW P, NEW j \in 0..Len(h.did), Told(e, h.did, h.redone, R, P),
               Follows(e, h.did, h.redone, R, P, j)
        PROVE  FALSE
    <3>1. h.did \in Seq(Entry) /\ Trace(h.did, e.macro, R, P) /\ R[Len(h.did)] = Start
      BY <1>2, <2>4 DEF StoryOK, History, Told
    <3>2. e.playback = P[j] /\ Under(R[j], At(e))  BY <2>4 DEF Follows
    <3>3. j = Len(h.did)  BY <1>5, <1>7, <3>1, <3>2, TraceStep
    <3>4. Below(<<"main">>, e.stack)  BY <3>1, <3>2, <3>3, StartPlaced DEF Under, At
    <3>5. RecordedStack(<<"main">>) /\ Last(<<"main">>) = "main"  BY StartPlaced DEF Placed, Last
    <3>6. Last(e.stack) = "macro"  BY <3>4, <3>5, BelowReads
    <3>7. QED  BY <1>1, <3>6 DEF Reader
  <2>5. Fail \in Key \cup {Fail}  OBVIOUS
  <2>6. QED  BY <1>2, <1>3, <1>4, <2>1, <2>3, <2>4, <2>5, ReplayStep
<1>8. CASE ~(e.playback >= Len(e.macro))
  <2> DEFINE k == e.macro[e.playback + 1]
             s == [e EXCEPT !.playback = e.playback + Len(Entries(k))]
  <2>1. e.playback < Len(e.macro)  BY <1>5, <1>8
  <2>2. /\ k \in Key \cup {Fail} /\ Good(s) /\ Ready(s) /\ Playing(s)
        /\ s.stack = e.stack /\ s.prefix = e.prefix
        /\ s.playback = e.playback + Len(Entries(k))
    BY <1>1, <1>2, <2>1, AdvanceOK
  <2>3. s = [e EXCEPT !.playback = After(@)]  BY DEF After
  <2>4. e' = Deliver(s, k, 1) /\ Log(k)  BY <1>8, <2>3 DEF ReadMacro
  <2>5. k = e.macro[e.playback + 1]  OBVIOUS
  <2> HIDE DEF k, s
  <2>6. Good(s) /\ s.playback # 0 /\ s.stack = e.stack  BY <2>2 DEF Ready
  <2>7. e'.stack = s.stack \/ e'.stack = Front(s.stack)
        \/ \E f \in Frame : e'.stack = Append(s.stack, f)
    <3>1. ASSUME NEW n
          PROVE  LET t == Deliver(s, k, n).stack
                 IN  t = s.stack \/ t = Front(s.stack) \/ \E f \in Frame : t = Append(s.stack, f)
      BY <1>1, <2>6, DeliverMoves
    <3>2. QED  BY <2>4, <3>1
  <2>8. e.stack[2] # "macro" => e'.stack[2] # "macro"  BY <1>6, <2>6, <2>7, SecondStays
  <2>9. ASSUME NEW R, NEW P, NEW j \in 0..Len(h.did), Told(e, h.did, h.redone, R, P),
               Follows(e, h.did, h.redone, R, P, j)
        PROVE  /\ j + 1 \in 1..Len(h.did) /\ Logged(k) /\ h.did[j + 1] = <<Where, k>>
               /\ e'.playback = P[j + 1] /\ Under(R[j + 1], At(e'))
    <3>1. h.did \in Seq(Entry) /\ Trace(h.did, e.macro, R, P)
      BY <2>9 DEF StoryOK, History, Told
    <3>2. e.playback = P[j] /\ Under(R[j], At(e))  BY <2>9 DEF Follows
    <3>3. P[j] < Len(e.macro) /\ e.macro[P[j] + 1] = k  BY <2>1, <2>5, <3>2
    <3>4. /\ Placed(R[j]) /\ j + 1 \in 1..Len(h.did)
          /\ Reads(e.macro, R[j], P[j], h.did[j + 1], R[j + 1], P[j + 1])
          /\ h.did[j + 1] = <<Last(R[j].stack), e.macro[P[j] + 1]>>
      <4> DEFINE d == h.did
                 m == e.macro
      <4>1. d \in Seq(Entry) /\ Trace(d, m, R, P) /\ Len(m) \in Nat /\ P[j] < Len(m)
            /\ j \in 0..Len(d)
        BY <1>5, <3>1, <3>3
      <4> HIDE DEF d, m
      <4>2. /\ Placed(R[j]) /\ j + 1 \in 1..Len(d)
            /\ Reads(m, R[j], P[j], d[j + 1], R[j + 1], P[j + 1])
            /\ d[j + 1] = <<Last(R[j].stack), m[P[j] + 1]>>
        BY <4>1, TraceStep
      <4>3. QED  BY <4>2 DEF d, m
    <3>5. Below(R[j].stack, e.stack) /\ RecordedStack(R[j].stack)
      BY <3>2, <3>4 DEF Under, At, Placed
    <3>6. Last(R[j].stack) # "main" /\ Last(R[j].stack) = Reader
      BY <1>1, <3>5, BelowReads DEF Reader
    <3>7. h.did[j + 1] = <<Reader, k>> /\ Where = Reader
      BY <1>1, <3>3, <3>4, <3>6 DEF Where
    <3>8. h.did[j + 1][1] = Reader /\ h.did[j + 1][2] = k  BY <3>7
    <3>9. Taken(Reader, k) /\ R[j + 1] = Goes(R[j], k) /\ P[j + 1] = P[j] + Len(Entries(k))
      BY <3>4, <3>8 DEF Reads
    <3>10. Logged(k)  BY <3>9 DEF Logged, Taken
    <3>11. At(e') = Goes(At(s), k) /\ e'.playback = s.playback
      <4>1. Good(s) /\ s.playback # 0 /\ s.stack = e.stack /\ Reader \notin {"main", "macro"}
            /\ k \in Key \cup {Fail} /\ Taken(Reader, k)
        BY <1>1, <2>2, <2>6, <3>6, <3>9
      <4>2. ASSUME NEW n \in 1..MaxReps
            PROVE  /\ At(Deliver(s, k, n)) = Goes(At(s), k)
                   /\ Deliver(s, k, n).playback = s.playback
        BY <4>1, DeliverPlaying
      <4>3. 1 \in 1..MaxReps  BY BoundAssumption
      <4>4. QED  BY <2>4, <4>2, <4>3
    <3>12. At(s) = At(e)  BY <2>2, AtIs
    <3>13. Under(R[j + 1], At(e'))  BY <3>2, <3>4, <3>6, <3>9, <3>11, <3>12, GoesKeeps
    <3>14. e'.playback = P[j + 1]  BY <2>2, <3>2, <3>9, <3>11
    <3>15. QED  BY <3>4, <3>7, <3>10, <3>13, <3>14
  <2>10. QED  BY <1>2, <1>3, <1>4, <2>2, <2>4, <2>8, <2>9, ReplayStep
<1>9. QED  BY <1>7, <1>8

LEMMA StoryInit == Init => StoryOK
<1> SUFFICES ASSUME Init  PROVE StoryOK
  OBVIOUS
<1>1. h = [did |-> <<>>, redone |-> <<>>, missed |-> FALSE]  BY DEF Init
<1>2. h.did = <<>> /\ h \in History
  <2>1. <<>> \in Seq(Entry)  OBVIOUS
  <2>2. QED  BY <1>1, <2>1 DEF History
<1>3. e.macro = <<>> /\ e.recording = FALSE  BY DEF Init
<1>4. ~Playing(e)
  <2>1. e.stack = <<"main">>  BY DEF Init
  <2>2. DOMAIN <<"main">> = {1} /\ <<"main">>[1] = "main"  OBVIOUS
  <2>3. QED  BY <2>1, <2>2, PlayingIs
<1>5. PICK R, P : Trace(<<>>, <<>>, R, P) /\ R[0] = Start  BY TraceEmpty
<1>6. Len(<<>>) = 0  OBVIOUS
<1>7. Told(e, h.did, h.redone, R, P)  BY <1>2, <1>3, <1>4, <1>5, <1>6 DEF Told
<1>8. QED  BY <1>2, <1>7 DEF StoryOK

LEMMA StoryKept ==
  ASSUME EditorOK, TtyOK, StoryOK, [Next]_vars
  PROVE  StoryOK'
<1>1. CASE UNCHANGED <<e, h>>  BY <1>1 DEF StoryOK
<1>2. ASSUME NEW k \in Key \cup {Fail}, AtTerminal, Got(k)  PROVE StoryOK'
  <2>1. e.recording \in BOOLEAN  BY GoodIs DEF EditorOK
  <2>2. QED  BY <1>2, <2>1, IdleStory, RecordingStory
<1>3. QED  BY <1>1, <1>2, Steps, PlayKeyStory, PlayEndStory, ReadMacroStory

LEMMA PrefixIs ==
  ASSUME NEW r \in Seq(Entry), NEW d \in Seq(Entry), Len(r) <= Len(d),
         \A i \in 1..Len(r) : r[i] = d[i]
  PROVE  IsPrefix(r, d)
<1> DEFINE n == Len(r)
           x == SubSeq(r, 1, n)
           y == SubSeq(d, 1, n)
<1>1. n \in Nat /\ Len(d) \in Nat  OBVIOUS
<1>2. (\A i \in 1..n : r[i] \in Entry) /\ \A i \in 1..n : d[i] \in Entry  BY <1>1
<1> HIDE DEF n
<1>3. x \in Seq(Entry) /\ Len(x) = (IF 1 <= n THEN n - 1 + 1 ELSE 0)
      /\ \A i \in 1..n - 1 + 1 : x[i] = r[1 + i - 1]
  BY <1>1, <1>2, SubSeqProperties
<1>4. y \in Seq(Entry) /\ Len(y) = (IF 1 <= n THEN n - 1 + 1 ELSE 0)
      /\ \A i \in 1..n - 1 + 1 : y[i] = d[1 + i - 1]
  BY <1>1, <1>2, SubSeqProperties
<1> HIDE DEF x, y
<1>5. Len(x) = n /\ Len(y) = n /\ \A i \in 1..n : x[i] = y[i]  BY <1>1, <1>3, <1>4 DEF n
<1>6. x = y  BY <1>3, <1>4, <1>5, SeqEqual
<1>7. QED  BY <1>6 DEF IsPrefix, x, y, n

(* A macro played from where it was recorded does what was done then, for   *)
(* every recording, however long, whatever prompts and commands read its    *)
(* keys and whatever signals came (keymap.c recordKey and execMacro,        *)
(* terminal.c readKey).                                                     *)
THEOREM ReplaysAreFaithful == Spec => []ReplayFaithful
<1>1. EditorOK /\ StoryOK => ReplayFaithful
  <2> SUFFICES ASSUME EditorOK, StoryOK, Playing(e), e.stack[2] = "macro", ~h.missed
               PROVE  /\ IsPrefix(h.redone, h.did)
                      /\ Reader = "macro" /\ e.playback = Len(e.macro) => h.redone = h.did
    BY DEF ReplayFaithful
  <2>1. PICK R, P : Told(e, h.did, h.redone, R, P)  BY DEF StoryOK
  <2>2. PICK j \in 0..Len(h.did) : Follows(e, h.did, h.redone, R, P, j)  BY <2>1 DEF Told
  <2>3. h.did \in Seq(Entry) /\ h.redone \in Seq(Entry)  BY DEF StoryOK, History
  <2>4. /\ Len(h.redone) = j /\ \A i \in 1..Len(h.redone) : h.redone[i] = h.did[i]
        /\ e.playback = P[j]
    BY <2>2 DEF Follows
  <2>5. IsPrefix(h.redone, h.did)
    <3> DEFINE r == h.redone
               d == h.did
    <3>1. r \in Seq(Entry) /\ d \in Seq(Entry) /\ Len(r) <= Len(d)
          /\ \A i \in 1..Len(r) : r[i] = d[i]
      BY <2>3, <2>4
    <3> HIDE DEF r, d
    <3>2. IsPrefix(r, d)  BY <3>1, PrefixIs
    <3>3. QED  BY <3>2 DEF r, d
  <2>6. ASSUME e.playback = Len(e.macro)  PROVE h.redone = h.did
    <3>1. Len(e.macro) \in Nat  BY LengthOfMacro DEF EditorOK
    <3>2. Trace(h.did, e.macro, R, P)  BY <2>1 DEF Told
    <3>3. j = Len(h.did)
      <4> DEFINE d == h.did
                 m == e.macro
      <4>1. d \in Seq(Entry) /\ Trace(d, m, R, P) /\ Len(m) \in Nat /\ P[j] >= Len(m)
            /\ j \in 0..Len(d)
        BY <2>3, <2>4, <2>6, <3>1, <3>2
      <4> HIDE DEF d, m
      <4>2. j = Len(d)  BY <4>1, TraceStep
      <4>3. QED  BY <4>2 DEF d
    <3>4. QED  BY <2>3, <2>4, <3>3, SeqEqual
  <2>7. QED  BY <2>5, <2>6
<1>2. QED  BY <1>1, TtyInit, TtyKept, EditorInit, EditorKept, StoryInit, StoryKept, PTL DEF Spec

=============================================================================
