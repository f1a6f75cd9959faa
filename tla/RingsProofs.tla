----------------------------- MODULE RingsProofs -----------------------------
(***************************************************************************)
(* Proofs about Rings: yank-pop takes back the yank it follows and goes    *)
(* round the whole kill ring, and the circular mark ring is the ring of    *)
(* the last marks of MarkRotation, for rings of any size.                  *)
(***************************************************************************)
EXTENDS Rings, SequenceTheorems, WellFoundedInduction, TLAPS

USE KillAssumption, EmptyAssumption, NameAssumption, LimitAssumption

(* While a yank can be popped, the step it recorded is the last, unless the *)
(* prompt loop has added one or gone back to the buffer.  The minibuffer's  *)
(* text may have been replaced since; then there is none.                   *)
LastIsYank == kill_ring_pos # -1 /\ yanked /\ ~strayed => Front(undo) = before

-----------------------------------------------------------------------------
(* Sequences and remainders *)

LEMMA ModIs ==
  ASSUME NEW n \in Nat \ {0}, NEW x \in Nat
  PROVE  /\ x % n \in 0..(n - 1)
         /\ x < n => x % n = x
         /\ n <= x /\ x < 2 * n => x % n = x - n
<1>1. x % n \in 0..(n - 1)  BY SMT
<1>2. x < n => x % n = x  BY SMT
<1>3. n <= x /\ x < 2 * n => x % n = x - n  BY SMT
<1>4. QED  BY <1>1, <1>2, <1>3

LEMMA FrontAppend ==
  ASSUME NEW S, NEW s \in Seq(S), NEW k \in S
  PROVE  /\ Append(s, k) \in Seq(S) /\ Append(s, k) # <<>>
         /\ Front(Append(s, k)) = s
BY DEF Front

LEMMA FrontOfEmpty == Front(<<>>) = <<>>
<1>1. Len(<<>>) - 1 \in Int /\ Len(<<>>) - 1 < 1  OBVIOUS
<1>2. QED  BY <1>1, SubSeqEmpty DEF Front

LEMMA FrontIs ==
  ASSUME NEW S, NEW s \in Seq(S)
  PROVE  /\ Front(s) \in Seq(S)
         /\ s = <<>> => Front(s) = <<>>
         /\ s # <<>> => Len(Front(s)) = Len(s) - 1 /\ Front(s) # s
<1>1. CASE s = <<>>  BY <1>1, FrontOfEmpty
<1>2. CASE s # <<>>
  <2> DEFINE n == Len(s) - 1
  <2>1. n \in Nat  BY <1>2
  <2>2. \A i \in 1..n : s[i] \in S  BY <2>1
  <2> DEFINE t == SubSeq(s, 1, n)
  <2>3. t \in Seq(S) /\ Len(t) = IF 1 <= n THEN n - 1 + 1 ELSE 0
    <3> HIDE DEF n
    <3>1. QED  BY <2>1, <2>2, SubSeqProperties
  <2>4. Front(s) = t  BY DEF Front
  <2>5. Len(t) = n
    <3> HIDE DEF n, t
    <3>1. QED  BY <2>1, <2>3
  <2> HIDE DEF t
  <2>6. QED  BY <1>2, <2>1, <2>3, <2>4, <2>5
<1>3. QED  BY <1>1, <1>2

-----------------------------------------------------------------------------
(* Types *)

LEMMA HistoryIs ==
  ASSUME NEW h \in Seq(Kill \ Empty), Len(h) <= HistoryMax, NEW k \in Kill \ Empty
  PROVE  AddHistory(h, k) \in Seq(Kill \ Empty) /\ Len(AddHistory(h, k)) <= HistoryMax
<1>1. Append(h, k) \in Seq(Kill \ Empty) /\ Len(Append(h, k)) = Len(h) + 1  OBVIOUS
<1>2. CASE Len(h) = HistoryMax
  <2>1. h # <<>>  BY <1>2
  <2>2. Tail(h) \in Seq(Kill \ Empty) /\ Len(Tail(h)) = Len(h) - 1  BY <2>1
  <2>3. Append(Tail(h), k) \in Seq(Kill \ Empty) /\ Len(Append(Tail(h), k)) = Len(h)
    BY <2>2
  <2>4. QED  BY <1>2, <2>3 DEF AddHistory
<1>3. CASE Len(h) # HistoryMax  BY <1>1, <1>3 DEF AddHistory
<1>4. QED  BY <1>2, <1>3

RingOK ==
  /\ mark_ring \in [0..(MarkRingSize - 1) -> Position \cup {Unset}]
  /\ mark_ring_idx \in 0..(MarkRingSize - 1) /\ mark_ring_len \in 0..MarkRingSize

KillsOK ==
  /\ kill \in Kill \cup {NoKill} /\ register \in Kill \cup {NoKill}
  /\ kill_history \in Seq(Kill \ Empty) /\ Len(kill_history) <= HistoryMax
  /\ kill_ring_pos \in Int /\ kill_ring_pos >= -1
  /\ reverse \in BOOLEAN

Steps == Seq(Kill \cup {Edit})

TextOK ==
  /\ undo \in Steps /\ below \in Steps /\ before \in Steps
  /\ prompting \in BOOLEAN /\ yanked \in BOOLEAN /\ strayed \in BOOLEAN

PointOK == point \in Position /\ mark \in Position \cup {Unset} /\ mark_active \in BOOLEAN

LEMMA TypeParts == TypeOK <=> RingOK /\ KillsOK /\ TextOK /\ PointOK
BY DEF TypeOK, RingOK, KillsOK, TextOK, Steps, PointOK

(* Everything a command does to the rings is one of a few things. *)
LEMMA KillAdded ==
  ASSUME KillsOK, NEW k \in Kill, AddToKillRing(k), EndYank,
         kill' \in Kill \cup {NoKill}, register' \in Kill \cup {NoKill}, UNCHANGED reverse
  PROVE  KillsOK'
<1>1. kill_history' \in Seq(Kill \ Empty) /\ Len(kill_history') <= HistoryMax
  BY HistoryIs DEF KillsOK, AddToKillRing
<1>2. QED  BY <1>1 DEF KillsOK, EndYank

LEMMA Recorded ==
  ASSUME TextOK, Record(Edit)
  PROVE  undo' \in Steps
<1>1. Edit \in Kill \cup {Edit} /\ undo \in Seq(Kill \cup {Edit})  BY DEF TextOK, Steps
<1>2. QED  BY <1>1, FrontAppend DEF Record, Steps

LEMMA TextEnds ==
  ASSUME TextOK, EndYank, undo' \in Steps, UNCHANGED bufVars
  PROVE  TextOK'
<1>1. <<>> \in Steps  BY DEF Steps
<1>2. QED  BY <1>1 DEF TextOK, EndYank, bufVars

LEMMA InsertedIs ==
  ASSUME NEW s \in Steps, NEW k \in Kill
  PROVE  Inserted(s, k) \in Steps
BY FrontAppend DEF Inserted, Steps

LEMMA YankInsertIs ==
  ASSUME PointOK, NEW k, NEW rev, InText(YankInsert(k, rev))
  PROVE  PointOK'
<1>1. CASE prompting  BY <1>1 DEF InText, PointOK, markVars
<1>2. CASE ~prompting  BY <1>2 DEF InText, PointOK, YankInsert
<1>3. QED  BY <1>1, <1>2

LEMMA CopiedIs ==
  ASSUME PointOK, NEW k, NEW active \in BOOLEAN, InText(Copied(k) /\ mark_active' = active)
  PROVE  PointOK'
<1>1. CASE prompting  BY <1>1 DEF InText, PointOK, markVars
<1>2. CASE ~prompting  BY <1>2 DEF InText, PointOK, Copied
<1>3. QED  BY <1>1, <1>2

LEMMA MovedIs ==
  ASSUME PointOK, InText(point' \in Position), UNCHANGED markVars
  PROVE  PointOK'
<1>1. CASE prompting  BY <1>1 DEF InText, PointOK, markVars
<1>2. CASE ~prompting  BY <1>2 DEF InText, PointOK, markVars
<1>3. QED  BY <1>1, <1>2

LEMMA PushIs == RingOK /\ PointOK /\ MarkRingPush => RingOK'
<1> SUFFICES ASSUME RingOK, PointOK, MarkRingPush  PROVE RingOK'  OBVIOUS
<1>1. CASE mark = Unset  BY <1>1 DEF RingOK, MarkRingPush, ringVars
<1>2. CASE mark # Unset
  <2>1. mark_ring' \in [0..(MarkRingSize - 1) -> Position \cup {Unset}]
    BY <1>2 DEF RingOK, PointOK, MarkRingPush
  <2>2. mark_ring_idx' \in 0..(MarkRingSize - 1)
    <3>1. mark_ring_idx + 1 \in Nat  BY DEF RingOK
    <3>2. QED  BY <1>2, <3>1, ModIs DEF MarkRingPush
  <2>3. mark_ring_len' \in 0..MarkRingSize  BY <1>2 DEF RingOK, MarkRingPush
  <2>4. QED  BY <2>1, <2>2, <2>3 DEF RingOK
<1>3. QED  BY <1>1, <1>2

LEMMA SlotIs ==
  ASSUME RingOK, NEW i \in 0..(mark_ring_len - 1)
  PROVE  Slot(i) \in 0..(MarkRingSize - 1)
<1>1. mark_ring_idx + MarkRingSize - mark_ring_len + i \in Nat  BY DEF RingOK
<1>2. QED  BY <1>1, ModIs DEF Slot

LEMMA PopIs ==
  ASSUME RingOK, PointOK, PopMark
  PROVE  RingOK' /\ PointOK'
<1>1. CASE mark_ring_len = 0  BY <1>1 DEF PopMark, RingOK, PointOK, ringVars
<1>2. CASE mark_ring_len # 0
  <2>1. mark_ring_len \in Nat \ {0}  BY <1>2 DEF RingOK
  <2>2. \A i \in 0..(mark_ring_len - 1) : mark_ring[Slot(i)] \in Position \cup {Unset}
    BY SlotIs DEF RingOK
  <2>3. mark_ring[Slot(mark_ring_len - 1)] \in Position \cup {Unset}
    <3>1. mark_ring_len - 1 \in 0..(mark_ring_len - 1)  BY <2>1
    <3>2. QED  BY <2>2, <3>1
  <2>4. PointOK'  BY <1>2, <2>3 DEF PopMark, PointOK
  <2> DEFINE old(s) == \E i \in 0..(mark_ring_len - 1) : s = Slot(i)
             at(s)  == CHOOSE i \in 0..(mark_ring_len - 1) : s = Slot(i)
             new(s) == IF old(s) THEN IF at(s) = 0 THEN mark ELSE mark_ring[Slot(at(s) - 1)]
                                 ELSE mark_ring[s]
  <2>5. mark_ring' = [s \in DOMAIN mark_ring |-> new(s)]  BY <1>2 DEF PopMark
  <2>6. ASSUME NEW s \in 0..(MarkRingSize - 1)  PROVE new(s) \in Position \cup {Unset}
    <3>1. CASE old(s)
      <4>1. at(s) \in 0..(mark_ring_len - 1)  BY <3>1
      <4> HIDE DEF at
      <4>2. at(s) = 0 \/ at(s) - 1 \in 0..(mark_ring_len - 1)  BY <2>1, <4>1
      <4>3. QED  BY <2>2, <3>1, <4>2 DEF PointOK
    <3>2. CASE ~old(s)  BY <3>2 DEF RingOK
    <3>3. QED  BY <3>1, <3>2
  <2> HIDE DEF new
  <2>7. RingOK'  BY <1>2, <2>5, <2>6 DEF RingOK, PopMark
  <2>8. QED  BY <2>4, <2>7
<1>3. QED  BY <1>1, <1>2
LEMMA YankIs ==
  ASSUME KillsOK, TextOK, PointOK, NEW k \in Kill, NEW rev \in BOOLEAN, YankAny(k, rev)
  PROVE  KillsOK' /\ TextOK' /\ PointOK'
<1>1. Len(kill_history) \in Nat  BY DEF KillsOK
<1>2. kill_ring_pos' \in Int /\ kill_ring_pos' >= -1
  <2>1. CASE kill_history = <<>>  BY <2>1 DEF YankAny
  <2>2. CASE kill_history # <<>>
    <3>1. kill_ring_pos' = Len(kill_history) - 1  BY <2>2 DEF YankAny
    <3>2. QED  BY <1>1, <3>1
  <2>3. QED  BY <2>1, <2>2
<1>3. KillsOK'  BY <1>2 DEF KillsOK, YankAny
<1>4. undo' \in Steps  BY InsertedIs DEF TextOK, YankAny
<1>5. TextOK'
  <2>1. before' = undo /\ yanked' \in BOOLEAN /\ strayed' \in BOOLEAN /\ UNCHANGED bufVars
    BY DEF YankAny
  <2>2. QED  BY <1>4, <2>1 DEF TextOK, bufVars
<1>6. PointOK'  BY YankInsertIs DEF YankAny
<1>7. QED  BY <1>3, <1>5, <1>6

(* The kill yank-pop goes to is in the ring, and never empty. *)
LEMMA PoppedIs ==
  ASSUME KillsOK, NEW newer \in BOOLEAN, kill_history # <<>>, kill_ring_pos # -1
  PROVE  /\ NextPos(kill_ring_pos, newer) \in 0..(Len(kill_history) - 1)
         /\ kill_history[NextPos(kill_ring_pos, newer) + 1] \in Kill \ Empty
<1> DEFINE n == Len(kill_history)
           pos == NextPos(kill_ring_pos, newer)
<1>1. n \in Nat \ {0} /\ kill_ring_pos \in Nat  BY DEF KillsOK
<1>2. pos \in 0..(n - 1)
  <2>1. kill_ring_pos + 1 \in Nat /\ kill_ring_pos + n - 1 \in Nat  BY <1>1
  <2>2. (kill_ring_pos + 1) % n \in 0..(n - 1) /\ (kill_ring_pos + n - 1) % n \in 0..(n - 1)
    BY <1>1, <2>1, ModIs
  <2>3. QED  BY <2>2 DEF NextPos
<1> HIDE DEF pos
<1>3. pos + 1 \in 1..n  BY <1>1, <1>2
<1>4. kill_history[pos + 1] \in Kill \ Empty  BY <1>3 DEF KillsOK
<1>5. QED  BY <1>2, <1>4 DEF pos

LEMMA YankPopIs ==
  ASSUME KillsOK, TextOK, PointOK, NEW newer \in BOOLEAN, YankPop(newer)
  PROVE  KillsOK' /\ TextOK' /\ PointOK'
<1> DEFINE pos == NextPos(kill_ring_pos, newer)
           k   == kill_history[pos + 1]
<1>1. /\ kill_history # <<>> /\ kill_ring_pos # -1
      /\ kill_ring_pos' = pos /\ kill' = k
      /\ undo' = Inserted(Front(undo), k) /\ InText(YankInsert(k, reverse))
      /\ UNCHANGED <<kill_history, reverse, register, bufVars, yankVars, ringVars>>
  BY DEF YankPop
<1>2. pos \in 0..(Len(kill_history) - 1) /\ k \in Kill \ Empty  BY <1>1, PoppedIs
<1> HIDE DEF k, pos
<1>3. kill_ring_pos' \in Int /\ kill_ring_pos' >= -1
  <2>1. Len(kill_history) \in Nat  BY DEF KillsOK
  <2>2. QED  BY <1>1, <1>2, <2>1
<1>4. KillsOK'  BY <1>1, <1>2, <1>3 DEF KillsOK
<1>5. undo' \in Steps
  <2>1. Front(undo) \in Steps  BY FrontIs DEF TextOK, Steps
  <2>2. QED  BY <1>1, <1>2, <2>1, InsertedIs
<1>6. TextOK'  BY <1>1, <1>5 DEF TextOK, bufVars, yankVars
<1>7. PointOK'  BY <1>1, YankInsertIs
<1>8. QED  BY <1>4, <1>6, <1>7

LEMMA TypeKept == TypeOK /\ [Next]_vars => TypeOK'
<1> DEFINE OK == RingOK /\ KillsOK /\ TextOK /\ PointOK
<1> SUFFICES ASSUME RingOK, KillsOK, TextOK, PointOK, [Next]_vars
             PROVE  RingOK' /\ KillsOK' /\ TextOK' /\ PointOK'
  BY DEF TypeOK, RingOK, KillsOK, TextOK, Steps, PointOK
<1>1. CASE UNCHANGED vars
  BY <1>1 DEF vars, killVars, textVars, bufVars, yankVars, ringVars, markVars,
              RingOK, KillsOK, TextOK, PointOK
<1>2. ASSUME NEW k \in Kill, KillText(k)  PROVE OK'
  <2>1. KillsOK'  BY <1>2, KillAdded DEF KillText, KillsOK
  <2>2. TextOK'  BY <1>2, Recorded, TextEnds DEF KillText
  <2>3. RingOK'  BY <1>2 DEF KillText, RingOK, ringVars
  <2>4. CASE prompting  BY <1>2, <2>1, <2>2, <2>3, <2>4 DEF KillText, InText, PointOK, markVars
  <2>5. CASE ~prompting  BY <1>2, <2>1, <2>2, <2>3, <2>5 DEF KillText, InText, PointOK
  <2>6. QED  BY <2>4, <2>5
<1>3. ASSUME NEW k \in Kill, CopyText(k)  PROVE OK'
  <2>1. KillsOK'  BY <1>3, KillAdded DEF CopyText, KillsOK
  <2>2. PointOK'  BY <1>3, CopiedIs DEF CopyText
  <2>3. RingOK'  BY <1>3 DEF CopyText, RingOK, ringVars
  <2>4. TextOK'  BY <1>3, TextEnds DEF CopyText, TextOK
  <2>5. QED  BY <2>1, <2>2, <2>3, <2>4
<1>4. ASSUME NEW k \in Kill, NEW i \in BOOLEAN, ToRegister(k, i)  PROVE OK'
  <2>1. register' \in Kill  BY <1>4 DEF ToRegister, Kill
  <2>2. KillsOK'  BY <1>4, <2>1, KillAdded DEF ToRegister, KillsOK
  <2>3. (mark_active /\ k \in Plain) \in BOOLEAN  OBVIOUS
  <2>4. PointOK'  BY <1>4, <2>3, CopiedIs DEF ToRegister
  <2>5. RingOK'  BY <1>4 DEF ToRegister, RingOK, ringVars
  <2>6. TextOK'  BY <1>4, TextEnds DEF ToRegister, TextOK
  <2>7. QED  BY <2>2, <2>4, <2>5, <2>6
<1>5. CASE Yank
  <2>1. PICK rev \in BOOLEAN : YankAny(kill, rev)  BY <1>5 DEF Yank
  <2>2. kill \in Kill  BY <1>5 DEF Yank, KillsOK
  <2>3. RingOK'  BY <2>1 DEF YankAny, RingOK, ringVars
  <2>4. QED  BY <2>1, <2>2, <2>3, YankIs
<1>6. CASE InsertRegister
  <2>1. register \in Kill  BY <1>6 DEF InsertRegister, KillsOK
  <2>2. CASE YankAny(register, FALSE)
    <3>1. RingOK'  BY <2>2 DEF YankAny, RingOK, ringVars
    <3>2. QED  BY <2>1, <2>2, <3>1, YankIs
  <2>3. CASE /\ EndYank /\ InText(YankInsert(register, FALSE))
             /\ undo' = Inserted(undo, register)
             /\ UNCHANGED <<kill, kill_history, reverse, register, bufVars, ringVars>>
    <3>1. undo' \in Steps  BY <2>1, <2>3, InsertedIs DEF TextOK
    <3>2. TextOK'  BY <2>3, <3>1, TextEnds
    <3>3. PointOK'  BY <2>3, YankInsertIs
    <3>4. KillsOK' /\ RingOK'  BY <2>3 DEF EndYank, KillsOK, RingOK, ringVars
    <3>5. QED  BY <3>2, <3>3, <3>4
  <2>4. QED  BY <1>6, <2>2, <2>3 DEF InsertRegister
<1>7. ASSUME NEW newer \in BOOLEAN, YankPop(newer)  PROVE OK'
  <2>1. RingOK'  BY <1>7 DEF YankPop, RingOK, ringVars
  <2>2. QED  BY <1>7, <2>1, YankPopIs
<1>8. CASE OtherEdit \/ Undo \/ Move
  <2>1. undo' \in Steps
    <3>1. CASE OtherEdit  BY <3>1, Recorded DEF OtherEdit
    <3>2. CASE Undo  BY <3>2, FrontIs DEF Undo, TextOK, Steps
    <3>3. CASE Move  BY <3>3 DEF Move, Other, TextOK
    <3>4. QED  BY <1>8, <3>1, <3>2, <3>3
  <2>2. /\ EndYank /\ InText(point' \in Position)
        /\ UNCHANGED <<kill, kill_history, reverse, register, bufVars, markVars>>
    BY <1>8 DEF OtherEdit, Undo, Move, Other
  <2>3. TextOK'  BY <2>1, <2>2, TextEnds
  <2>4. RingOK' /\ KillsOK'
    BY <2>2 DEF EndYank, RingOK, KillsOK, markVars, ringVars
  <2>5. QED  BY <2>2, <2>3, <2>4, MovedIs
<1>9. CASE EnterPrompt
  <2>1. <<>> \in Steps  BY DEF Steps
  <2>2. TextOK'  BY <1>9, <2>1 DEF EnterPrompt, EndYank, TextOK
  <2>3. RingOK' /\ KillsOK' /\ PointOK'
    BY <1>9 DEF EnterPrompt, EndYank, RingOK, KillsOK, PointOK, markVars, ringVars
  <2>4. QED  BY <2>2, <2>3
<1>10. CASE ReplaceMinibufferText \/ PromptInsert \/ LeavePrompt
  <2>1. TextOK'
    <3>1. CASE ReplaceMinibufferText
      <4>1. <<>> \in Steps  BY DEF Steps
      <4>2. QED  BY <3>1, <4>1 DEF ReplaceMinibufferText, TextOK, bufVars
    <3>2. CASE PromptInsert
      <4>1. undo' \in Steps  BY <3>2, Recorded DEF PromptInsert
      <4>2. QED  BY <3>2, <4>1 DEF PromptInsert, TextOK, bufVars
    <3>3. CASE LeavePrompt
      <4>1. PICK edits \in {<<>>, <<Edit>>} : undo' = below \o edits
        BY <3>3 DEF LeavePrompt
      <4>2. edits \in Steps /\ <<>> \in Steps
        <5>1. Edit \in Kill \cup {Edit}  OBVIOUS
        <5>2. <<Edit>> \in Seq(Kill \cup {Edit}) /\ <<>> \in Seq(Kill \cup {Edit})  BY <5>1
        <5>3. QED  BY <5>2 DEF Steps
      <4>3. undo' \in Steps  BY <4>1, <4>2, ConcatProperties DEF TextOK, Steps
      <4>4. QED  BY <3>3, <4>2, <4>3 DEF LeavePrompt, TextOK
    <3>4. QED  BY <1>10, <3>1, <3>2, <3>3
  <2>2. UNCHANGED killVars /\ UNCHANGED markVars /\ (point' = point \/ point' \in Position)
    BY <1>10 DEF ReplaceMinibufferText, PromptInsert, LeavePrompt
  <2>3. RingOK' /\ KillsOK' /\ PointOK'
    BY <2>2 DEF RingOK, KillsOK, PointOK, killVars, markVars, ringVars
  <2>4. QED  BY <2>1, <2>3
<1>11. ASSUME EndYank, Other  PROVE KillsOK' /\ TextOK'
  <2>1. KillsOK'  BY <1>11 DEF EndYank, Other, KillsOK
  <2>2. undo' \in Steps /\ UNCHANGED bufVars  BY <1>11 DEF Other, TextOK
  <2>3. QED  BY <1>11, <2>1, <2>2, TextEnds
<1>12. CASE SetMark
  <2>1. PointOK'  BY <1>12 DEF SetMark, PointOK
  <2>2. RingOK'  BY <1>12, PushIs DEF SetMark, RingOK, ringVars
  <2>3. QED  BY <1>11, <1>12, <2>1, <2>2 DEF SetMark
<1>13. CASE Jump
  BY <1>11, <1>13, PushIs DEF Jump, PointOK
<1>14. CASE PopMark  BY <1>11, <1>14, PopIs DEF PopMark
<1>15. CASE SwapMark
  <2>1. RingOK' /\ PointOK'  BY <1>15 DEF SwapMark, RingOK, PointOK, ringVars
  <2>2. QED  BY <1>11, <1>15, <2>1 DEF SwapMark
<1>16. CASE RectangleMark
  <2>1. RingOK' /\ PointOK'  BY <1>16, PushIs DEF RectangleMark, PointOK
  <2>2. KillsOK' /\ TextOK'
    BY <1>16 DEF RectangleMark, KillsOK, TextOK, killVars, textVars, bufVars, yankVars
  <2>3. QED  BY <2>1, <2>2
<1>17. QED
  BY <1>1, <1>2, <1>3, <1>4, <1>5, <1>6, <1>7, <1>8, <1>9, <1>10, <1>12, <1>13, <1>14, <1>15,
     <1>16
  DEF Next
-----------------------------------------------------------------------------
(* yank-pop *)

LEMMA YankLeavesLast ==
  ASSUME TextOK, NEW k \in Kill, NEW rev, YankAny(k, rev)
  PROVE  LastIsYank'
<1>0. undo \in Seq(Kill \cup {Edit})  BY DEF TextOK, Steps
<1>1. before' = undo /\ yanked' = (k \notin Empty) /\ undo' = Inserted(undo, k)
  BY DEF YankAny
<1>2. k \notin Empty => Front(Inserted(undo, k)) = undo
  BY <1>0, FrontAppend DEF Inserted
<1>3. QED  BY <1>1, <1>2 DEF LastIsYank

LEMMA PopLeavesLast ==
  ASSUME KillsOK, TextOK, NEW newer \in BOOLEAN, YankPop(newer)
  PROVE  /\ undo # <<>> /\ kill_ring_pos # -1 /\ UNCHANGED yankVars
         /\ Front(undo') = Front(undo)
<1> DEFINE k == kill_history[NextPos(kill_ring_pos, newer) + 1]
<1>1. k \in Kill \ Empty  BY PoppedIs DEF YankPop
<1>2. undo' = Inserted(Front(undo), k)  BY DEF YankPop
<1> HIDE DEF k
<1>3. Front(undo') = Front(undo)
  <2>1. Front(undo) \in Seq(Kill \cup {Edit})  BY FrontIs DEF TextOK, Steps
  <2>2. QED  BY <1>1, <1>2, <2>1, FrontAppend DEF Inserted
<1>4. QED  BY <1>3 DEF YankPop

LEMMA NoYankLeft == kill_ring_pos' = -1 => LastIsYank'
BY DEF LastIsYank

LEMMA LastKept == TypeOK /\ LastIsYank /\ [Next]_vars => LastIsYank'
<1> SUFFICES ASSUME KillsOK, TextOK, LastIsYank, [Next]_vars  PROVE LastIsYank'
  BY TypeParts
<1>1. CASE UNCHANGED vars  BY <1>1 DEF vars, killVars, textVars, yankVars, LastIsYank
<1>2. CASE EndYank  BY <1>2, NoYankLeft DEF EndYank
<1>3. CASE Yank  BY <1>3, YankLeavesLast DEF Yank, KillsOK
<1>4. CASE InsertRegister
  BY <1>2, <1>4, YankLeavesLast DEF InsertRegister, Kill
<1>5. CASE \E newer \in BOOLEAN : YankPop(newer)
  BY <1>5, PopLeavesLast DEF LastIsYank, YankPop, yankVars
<1>6. CASE ReplaceMinibufferText
  BY <1>6, FrontOfEmpty DEF ReplaceMinibufferText, LastIsYank
<1>7. CASE PromptInsert \/ LeavePrompt
  BY <1>7 DEF PromptInsert, LeavePrompt, LastIsYank
<1>8. CASE RectangleMark
  BY <1>8 DEF RectangleMark, killVars, textVars, yankVars, LastIsYank
<1>9. QED
  BY <1>1, <1>2, <1>3, <1>4, <1>5, <1>6, <1>7, <1>8
  DEF Next, KillText, CopyText, ToRegister, OtherEdit, Undo, EnterPrompt, SetMark, Jump, PopMark,
      SwapMark, Move

LEMMA PoppingRight ==
  TypeOK /\ LastIsYank
  => (Popping /\ yanked /\ ~strayed => Front(undo) = before /\ Front(undo') = before)
<1> SUFFICES ASSUME KillsOK, TextOK, LastIsYank, Popping, yanked, ~strayed
             PROVE  Front(undo) = before /\ Front(undo') = before
  BY TypeParts
<1>1. PICK newer \in BOOLEAN : YankPop(newer)  BY DEF Popping
<1>2. kill_ring_pos # -1 /\ Front(undo') = Front(undo)  BY <1>1, PopLeavesLast
<1>3. QED  BY <1>2 DEF LastIsYank

LEMMA InitOK == Init => TypeOK /\ LastIsYank
<1> SUFFICES ASSUME Init  PROVE TypeOK /\ LastIsYank  OBVIOUS
<1>1. RingOK  BY DEF Init, RingOK
<1>2. KillsOK
  <2>1. <<>> \in Seq(Kill \ Empty) /\ Len(<<>>) = 0  OBVIOUS
  <2>2. HistoryMax \in Nat /\ 0 <= HistoryMax  OBVIOUS
  <2>3. kill_history \in Seq(Kill \ Empty) /\ Len(kill_history) <= HistoryMax
    BY <2>1, <2>2 DEF Init
  <2>4. kill_ring_pos \in Int /\ kill_ring_pos >= -1  BY DEF Init
  <2>5. QED  BY <2>3, <2>4 DEF Init, KillsOK
<1>3. TextOK /\ PointOK /\ LastIsYank
  <2>1. <<>> \in Steps  BY DEF Steps
  <2>2. QED  BY <2>1 DEF Init, TextOK, PointOK, LastIsYank
<1>4. QED  BY <1>1, <1>2, <1>3, TypeParts

(* The rings hold what they may and no more than they may, and an empty     *)
(* text never gets into the kill ring.                                      *)
THEOREM TypeCorrect == Spec => []TypeOK
BY InitOK, TypeKept, PTL DEF Spec

(* yank-pop takes back what the yank before it inserted and nothing else    *)
(* (region.c yankPop), when the yank inserted anything and the prompt loop  *)
(* did nothing of its own since, for kill rings of any size and any steps   *)
(* between them.                                                            *)
THEOREM YankPopIsRight == Spec => YankPopReplacesYank
BY InitOK, TypeKept, LastKept, PoppingRight, PTL DEF Spec, YankPopReplacesYank
-----------------------------------------------------------------------------
(* The mark ring *)

MarkSeq == [i \in 1..mark_ring_len |-> mark_ring[Slot(i - 1)]]

LEMMA MarkSeqIs ==
  ASSUME RingOK
  PROVE  /\ MarkSeq \in Seq(Position \cup {Unset}) /\ Len(MarkSeq) = mark_ring_len
         /\ \A i \in 1..mark_ring_len : MarkSeq[i] = mark_ring[Slot(i - 1)]
<1>1. mark_ring_len \in Nat  BY DEF RingOK
<1>2. \A i \in 1..mark_ring_len : mark_ring[Slot(i - 1)] \in Position \cup {Unset}
  <2>1. SUFFICES ASSUME NEW i \in 1..mark_ring_len
                 PROVE  mark_ring[Slot(i - 1)] \in Position \cup {Unset}
    OBVIOUS
  <2>2. i - 1 \in 0..(mark_ring_len - 1)  BY <1>1
  <2>3. QED  BY <2>2, SlotIs DEF RingOK
<1>3. QED  BY <1>1, <1>2 DEF MarkSeq

LEMMA SameMarks == RingOK /\ UNCHANGED ringVars => UNCHANGED MarkSeq
BY DEF ringVars, MarkSeq, Slot

(* The slot of an entry, without the remainder. *)
SlotOf(idx, len, i) ==
  IF idx - len + i < 0 THEN idx - len + i + MarkRingSize ELSE idx - len + i

LEMMA SlotOfIs ==
  ASSUME NEW idx \in 0..(MarkRingSize - 1), NEW len \in 0..MarkRingSize, NEW i \in 0..len
  PROVE  (idx + MarkRingSize - len + i) % MarkRingSize = SlotOf(idx, len, i)
<1> DEFINE x == idx - len + i
           y == idx + MarkRingSize - len + i
<1>1. y \in Nat /\ y = x + MarkRingSize /\ x \in Int /\ x < MarkRingSize
      /\ MarkRingSize \in Nat \ {0}
  OBVIOUS
<1>2. SlotOf(idx, len, i) = IF x < 0 THEN x + MarkRingSize ELSE x  BY DEF SlotOf
<1> HIDE DEF x, y
<1>3. y % MarkRingSize = IF x < 0 THEN x + MarkRingSize ELSE x
  <2>1. CASE x < 0
    <3>1. y < MarkRingSize  BY <1>1, <2>1
    <3>2. QED  BY <1>1, <2>1, <3>1, ModIs
  <2>2. CASE x >= 0
    <3>1. MarkRingSize <= y /\ y < 2 * MarkRingSize  BY <1>1, <2>2
    <3>2. y % MarkRingSize = y - MarkRingSize  BY <1>1, <3>1, ModIs
    <3>3. QED  BY <1>1, <2>2, <3>2
  <2>3. QED  BY <1>1, <2>1, <2>2
<1>4. QED  BY <1>2, <1>3 DEF y

LEMMA SlotAt ==
  RingOK => \A i \in 0..mark_ring_len : Slot(i) = SlotOf(mark_ring_idx, mark_ring_len, i)
BY SlotOfIs DEF RingOK, Slot

LEMMA NextSlotAt ==
  RingOK' => \A i \in 0..mark_ring_len' : Slot(i)' = SlotOf(mark_ring_idx', mark_ring_len', i)
BY SlotOfIs DEF RingOK, Slot

(* No two entries share a slot, and none has the one that is written next   *)
(* while there is room.                                                     *)
LEMMA SlotsDiffer ==
  ASSUME NEW idx \in 0..(MarkRingSize - 1), NEW len \in 0..MarkRingSize,
         NEW i \in 0..len, NEW j \in 0..len, i < j, j - i < MarkRingSize
  PROVE  SlotOf(idx, len, i) # SlotOf(idx, len, j)
BY DEF SlotOf

LEMMA SlotAfter ==
  ASSUME NEW idx \in 0..(MarkRingSize - 1), NEW len \in 0..MarkRingSize, NEW i \in 0..len
  PROVE  LET next == IF idx + 1 < MarkRingSize THEN idx + 1 ELSE 0
         IN  /\ SlotOf(idx, len, len) = idx
             /\ len < MarkRingSize => SlotOf(next, len + 1, i) = SlotOf(idx, len, i)
             /\ len = MarkRingSize /\ i < len => SlotOf(next, len, i) = SlotOf(idx, len, i + 1)
BY DEF SlotOf

LEMMA SlotInRing ==
  ASSUME NEW idx \in 0..(MarkRingSize - 1), NEW len \in 0..MarkRingSize, NEW i \in 0..len
  PROVE  SlotOf(idx, len, i) \in 0..(MarkRingSize - 1)
BY DEF SlotOf

LEMMA PushRefines ==
  ASSUME RingOK, RingOK', mark \in Position, MarkRingPush
  PROVE  MarkSeq' = Marks!Newest(Append(MarkSeq, mark))
<1> DEFINE S   == Position \cup {Unset}
           n   == mark_ring_len
           idx == mark_ring_idx
           app == Append(MarkSeq, mark)
<1>1. /\ mark_ring' = [mark_ring EXCEPT ![idx] = mark]
      /\ mark_ring_idx' = (idx + 1) % MarkRingSize
      /\ mark_ring_len' = IF n < MarkRingSize THEN n + 1 ELSE n
  BY DEF MarkRingPush
<1>2. mark_ring_idx' = IF idx + 1 < MarkRingSize THEN idx + 1 ELSE 0
  <2>1. CASE idx + 1 < MarkRingSize
    <3>1. idx + 1 \in Nat  BY DEF RingOK
    <3>2. (idx + 1) % MarkRingSize = idx + 1  BY <2>1, <3>1, ModIs
    <3>3. QED  BY <1>1, <2>1, <3>2
  <2>2. CASE idx + 1 = MarkRingSize
    <3>1. idx + 1 \in Nat /\ idx + 1 < 2 * MarkRingSize  BY <2>2 DEF RingOK
    <3>2. (idx + 1) % MarkRingSize = 0  BY <2>2, <3>1, ModIs
    <3>3. QED  BY <1>1, <2>2, <3>2
  <2>3. QED  BY <2>1, <2>2 DEF RingOK
<1>3. /\ app \in Seq(S) /\ Len(app) = n + 1 /\ app[n + 1] = mark
      /\ \A i \in 1..n : app[i] = mark_ring[Slot(i - 1)]
  <2>1. MarkSeq \in Seq(S) /\ Len(MarkSeq) = n  BY MarkSeqIs
  <2>2. \A i \in 1..n : MarkSeq[i] = mark_ring[Slot(i - 1)]  BY MarkSeqIs
  <2>3. mark \in S  OBVIOUS
  <2> HIDE DEF S, n
  <2>4. app \in Seq(S) /\ Len(app) = n + 1 /\ app[n + 1] = mark  BY <2>1, <2>3
  <2>5. \A i \in 1..n : app[i] = MarkSeq[i]  BY <2>1, <2>3
  <2>6. QED  BY <2>2, <2>4, <2>5
<1>4. /\ MarkSeq' \in Seq(S) /\ Len(MarkSeq') = mark_ring_len'
      /\ \A i \in 1..mark_ring_len' : MarkSeq'[i] = mark_ring'[Slot(i - 1)']
  <2>1. \A i \in 1..mark_ring_len' : mark_ring'[Slot(i - 1)'] \in S
    <3>1. SUFFICES ASSUME NEW i \in 1..mark_ring_len'  PROVE mark_ring'[Slot(i - 1)'] \in S
      OBVIOUS
    <3>2. i - 1 \in 0..mark_ring_len' /\ i - 1 < mark_ring_len'  BY DEF RingOK
    <3>3. Slot(i - 1)' = SlotOf(mark_ring_idx', mark_ring_len', i - 1)  BY <3>2, NextSlotAt
    <3>4. Slot(i - 1)' \in 0..(MarkRingSize - 1)
      <4>1. mark_ring_idx' \in 0..(MarkRingSize - 1) /\ mark_ring_len' \in 0..MarkRingSize
        BY DEF RingOK
      <4>2. SlotOf(mark_ring_idx', mark_ring_len', i - 1) \in 0..(MarkRingSize - 1)
        BY <3>2, <4>1, SlotInRing
      <4>3. QED  BY <3>3, <4>2
    <3>5. QED  BY <3>4 DEF RingOK
  <2>2. mark_ring_len' \in Nat  BY DEF RingOK
  <2>3. QED  BY <2>1, <2>2 DEF MarkSeq
<1>5. n \in 0..MarkRingSize /\ idx \in 0..(MarkRingSize - 1)  BY DEF RingOK
<1>6. \A s \in 0..(MarkRingSize - 1) : mark_ring'[s] = IF s = idx THEN mark ELSE mark_ring[s]
  BY <1>1 DEF RingOK
<1>7. CASE n < MarkRingSize
  <2>1. mark_ring_len' = n + 1  BY <1>1, <1>7
  <2>2. ASSUME NEW i \in 1..(n + 1)  PROVE MarkSeq'[i] = app[i]
    <3>1. i - 1 \in 0..n  BY <1>5
    <3>2. Slot(i - 1)' = SlotOf(idx, n, i - 1)
      BY <1>2, <1>5, <1>7, <2>1, <3>1, SlotAfter, NextSlotAt
    <3>3. SlotOf(idx, n, i - 1) \in 0..(MarkRingSize - 1)  BY <1>5, <1>7, <3>1 DEF SlotOf
    <3>4. CASE i = n + 1
      <4>1. SlotOf(idx, n, i - 1) = idx  BY <1>5, <3>4 DEF SlotOf
      <4>2. QED  BY <1>3, <1>4, <1>6, <2>1, <3>2, <3>3, <3>4, <4>1
    <3>5. CASE i # n + 1
      <4>1. SlotOf(idx, n, i - 1) # idx  BY <1>5, <1>7, <3>1, <3>5 DEF SlotOf
      <4>2. Slot(i - 1) = SlotOf(idx, n, i - 1)  BY <3>1, SlotAt
      <4>3. i \in 1..n  BY <1>5, <3>5
      <4>4. QED  BY <1>3, <1>4, <1>6, <2>1, <3>2, <3>3, <4>1, <4>2, <4>3
    <3>6. QED  BY <3>4, <3>5
  <2>3. MarkSeq' = app
    <3> HIDE DEF app, S, n
    <3>1. QED  BY <1>3, <1>4, <2>1, <2>2, SeqEqual
  <2>4. Marks!Newest(app) = app
    <3> HIDE DEF app, n
    <3>1. Marks!Newest(app) = SubSeq(app, 1, Len(app))  BY <1>3, <1>5, <1>7 DEF Marks!Newest
    <3>2. QED  BY <1>3, <3>1
  <2>5. QED  BY <2>3, <2>4
<1>8. CASE n = MarkRingSize
  <2>1. mark_ring_len' = n  BY <1>1, <1>8
  <2>2. ASSUME NEW i \in 1..n  PROVE MarkSeq'[i] = app[i + 1]
    <3>1. i - 1 \in 0..n /\ i - 1 < n /\ i - 1 + 1 = i /\ i \in 0..n  BY <1>5
    <3>2. Slot(i - 1)' = SlotOf(idx, n, i)
      BY <1>2, <1>5, <1>8, <2>1, <3>1, SlotAfter, NextSlotAt
    <3>3. SlotOf(idx, n, i) \in 0..(MarkRingSize - 1)  BY <1>5, <1>8, <3>1 DEF SlotOf
    <3>4. CASE i = n
      <4>1. SlotOf(idx, n, i) = idx  BY <1>5, <3>4 DEF SlotOf
      <4>2. QED  BY <1>3, <1>4, <1>6, <2>1, <3>2, <3>3, <3>4, <4>1
    <3>5. CASE i # n
      <4>1. SlotOf(idx, n, i) # idx  BY <1>5, <1>8, <3>1, <3>5 DEF SlotOf
      <4>2. Slot(i) = SlotOf(idx, n, i)  BY <3>1, SlotAt
      <4>3. i + 1 \in 1..n /\ i + 1 - 1 = i  BY <1>5, <3>5
      <4>4. app[i + 1] = mark_ring[Slot(i + 1 - 1)]
        <5> HIDE DEF app, n
        <5>1. QED  BY <1>3, <4>3
      <4>5. QED  BY <1>4, <1>6, <2>1, <3>2, <3>3, <4>1, <4>2, <4>3, <4>4
    <3>6. QED  BY <3>4, <3>5
  <2>3. /\ Marks!Newest(app) \in Seq(S) /\ Len(Marks!Newest(app)) = n
        /\ \A i \in 1..n : Marks!Newest(app)[i] = app[i + 1]
    <3> HIDE DEF app, S, n
    <3>1. Marks!Newest(app) = SubSeq(app, 2, n + 1)  BY <1>3, <1>5, <1>8 DEF Marks!Newest
    <3>2. \A i \in 2..(n + 1) : app[i] \in S  BY <1>3, <1>5
    <3>3. n \in Nat /\ n >= 1  BY <1>5, <1>8
    <3>4. /\ SubSeq(app, 2, n + 1) \in Seq(S)
          /\ Len(SubSeq(app, 2, n + 1)) = IF 2 <= n + 1 THEN n + 1 - 2 + 1 ELSE 0
          /\ \A i \in 1..(n + 1 - 2 + 1) : SubSeq(app, 2, n + 1)[i] = app[2 + i - 1]
      BY <3>2, <3>3, SubSeqProperties
    <3>5. n + 1 - 2 + 1 = n /\ \A i \in 1..n : 2 + i - 1 = i + 1  BY <3>3
    <3>6. QED  BY <3>1, <3>3, <3>4, <3>5
  <2>4. QED
    <3> DEFINE new == Marks!Newest(app)
    <3>1. MarkSeq' \in Seq(S) /\ new \in Seq(S) /\ Len(MarkSeq') = Len(new)
      BY <1>4, <2>1, <2>3
    <3>2. \A i \in 1..Len(MarkSeq') : MarkSeq'[i] = new[i]
      BY <1>4, <2>1, <2>2, <2>3
    <3> HIDE DEF new, S
    <3>3. MarkSeq' = new  BY <3>1, <3>2, SeqEqual
    <3>4. QED  BY <3>3 DEF new
<1>9. QED  BY <1>5, <1>7, <1>8
LEMMA PopRefines ==
  ASSUME RingOK, mark_ring_len # 0, PopMark
  PROVE  /\ mark' = Last(MarkSeq)
         /\ mark \in Position => MarkSeq' = <<mark>> \o Front(MarkSeq)
<1> DEFINE S   == Position \cup {Unset}
           n   == mark_ring_len
           idx == mark_ring_idx
           old(s) == \E i \in 0..(n - 1) : s = Slot(i)
           at(s)  == CHOOSE i \in 0..(n - 1) : s = Slot(i)
           new(s) == IF old(s) THEN IF at(s) = 0 THEN mark ELSE mark_ring[Slot(at(s) - 1)]
                               ELSE mark_ring[s]
<1>1. /\ mark' = mark_ring[Slot(n - 1)]
      /\ mark_ring' = [s \in DOMAIN mark_ring |-> new(s)]
      /\ UNCHANGED <<mark_ring_idx, mark_ring_len>>
  BY DEF PopMark
<1>2. n \in 1..MarkRingSize /\ idx \in 0..(MarkRingSize - 1)  BY DEF RingOK
<1>3. /\ MarkSeq \in Seq(S) /\ Len(MarkSeq) = n
      /\ \A i \in 1..n : MarkSeq[i] = mark_ring[Slot(i - 1)]
  BY MarkSeqIs
<1>4. mark' = Last(MarkSeq)  BY <1>1, <1>2, <1>3 DEF Last
<1>5. \A i \in 0..(n - 1) : Slot(i)' = Slot(i)  BY <1>1 DEF Slot
<1>6. \A i, j \in 0..(n - 1) : Slot(i) = Slot(j) => i = j
  <2>1. SUFFICES ASSUME NEW i \in 0..(n - 1), NEW j \in 0..(n - 1), i < j
                 PROVE  Slot(i) # Slot(j)
    BY <1>2
  <2>2. i \in 0..n /\ j \in 0..n /\ j - i < MarkRingSize  BY <1>2
  <2>3. SlotOf(idx, n, i) # SlotOf(idx, n, j)  BY <1>2, <2>1, <2>2, SlotsDiffer
  <2>4. QED  BY <2>2, <2>3, SlotAt
<1>7. \A i \in 0..(n - 1) : old(Slot(i)) /\ at(Slot(i)) = i  BY <1>6
<1>8. ASSUME NEW i \in 1..n
      PROVE  mark_ring'[Slot(i - 1)] = IF i = 1 THEN mark ELSE MarkSeq[i - 1]
  <2>1. i - 1 \in 0..(n - 1)  BY <1>2
  <2>2. Slot(i - 1) \in DOMAIN mark_ring  BY <2>1, SlotIs DEF RingOK
  <2>3. new(Slot(i - 1)) = IF i - 1 = 0 THEN mark ELSE mark_ring[Slot(i - 1 - 1)]
    BY <1>7, <2>1
  <2>4. mark_ring'[Slot(i - 1)] = new(Slot(i - 1))
    <3> HIDE DEF new
    <3>1. QED  BY <1>1, <2>2
  <2>5. i # 1 => i - 1 \in 1..n  BY <1>2
  <2>6. QED  BY <1>3, <2>3, <2>4, <2>5
<1>9. ASSUME mark \in Position  PROVE MarkSeq' = <<mark>> \o Front(MarkSeq)
  <2> HIDE DEF old, at, new
  <2> DEFINE front == Front(MarkSeq)
             r     == <<mark>> \o front
  <2>1. /\ front \in Seq(S) /\ Len(front) = n - 1
        /\ \A i \in 1..(n - 1) : front[i] = MarkSeq[i]
    <3>1. n - 1 \in Nat /\ \A i \in 1..(n - 1) : MarkSeq[i] \in S  BY <1>2, <1>3
    <3>2. front = SubSeq(MarkSeq, 1, n - 1)  BY <1>3 DEF Front
    <3> HIDE DEF S, n, front
    <3>3. /\ SubSeq(MarkSeq, 1, n - 1) \in Seq(S)
          /\ Len(SubSeq(MarkSeq, 1, n - 1)) = IF 1 <= n - 1 THEN n - 1 - 1 + 1 ELSE 0
          /\ \A i \in 1..(n - 1 - 1 + 1) : SubSeq(MarkSeq, 1, n - 1)[i] = MarkSeq[1 + i - 1]
      BY <3>1, SubSeqProperties
    <3>4. Len(front) = n - 1  BY <3>1, <3>2, <3>3
    <3>5. n - 1 - 1 + 1 = n - 1 /\ \A i \in 1..(n - 1) : 1 + i - 1 = i  BY <3>1
    <3>6. QED  BY <3>2, <3>3, <3>4, <3>5
  <2>2. <<mark>> \in Seq(S) /\ Len(<<mark>>) = 1 /\ <<mark>>[1] = mark  BY <1>9
  <2> HIDE DEF S, front, n
  <2>3. /\ r \in Seq(S) /\ Len(r) = 1 + (n - 1)
        /\ \A i \in 1..(1 + (n - 1)) : r[i] = IF i <= 1 THEN <<mark>>[i] ELSE front[i - 1]
    BY <2>1, <2>2, ConcatProperties
  <2>4. Len(r) = n /\ \A i \in 1..n : r[i] = IF i = 1 THEN mark ELSE MarkSeq[i - 1]
    <3>1. 1 + (n - 1) = n /\ n \in Nat  BY <1>2
    <3> HIDE DEF r
    <3>2. ASSUME NEW i \in 1..n  PROVE r[i] = IF i = 1 THEN mark ELSE MarkSeq[i - 1]
      <4>1. CASE i = 1  BY <2>2, <2>3, <3>1, <4>1
      <4>2. CASE i # 1
        <5>1. i - 1 \in 1..(n - 1) /\ ~(i <= 1)  BY <3>1, <4>2
        <5>2. QED  BY <2>1, <2>3, <3>1, <4>2, <5>1
      <4>3. QED  BY <4>1, <4>2
    <3>3. QED  BY <2>3, <3>1, <3>2
  <2>5. MarkSeq' = [i \in 1..n |-> mark_ring'[Slot(i - 1)]]
    <3>1. mark_ring_len' = n  BY <1>1 DEF n
    <3>2. MarkSeq' = [i \in 1..n |-> mark_ring'[Slot(i - 1)']]  BY <3>1 DEF MarkSeq
    <3>3. \A i \in 1..n : Slot(i - 1)' = Slot(i - 1)  BY <1>1 DEF Slot
    <3>4. QED  BY <3>2, <3>3
  <2>6. \A i \in 1..n : mark_ring'[Slot(i - 1)] = r[i]  BY <1>8, <2>4
  <2>7. r = [i \in 1..n |-> r[i]]
    <3> HIDE DEF r
    <3>1. QED  BY <2>3, <2>4
  <2> HIDE DEF r
  <2>8. QED  BY <2>5, <2>6, <2>7 DEF r, front
<1>10. QED  BY <1>4, <1>9
(* Every command sets the mark and leaves the ring, pushes, or pops; in a   *)
(* prompt none does.                                                        *)
LEMMA MarkCommands ==
  ASSUME TypeOK, [Next]_vars
  PROVE  \/ UNCHANGED ringVars /\ (mark' \in Position \/ UNCHANGED mark)
         \/ MarkRingPush /\ mark' = point
         \/ PopMark /\ mark_ring_len # 0
<1> USE DEF ringVars, markVars, vars
<1> DEFINE Kept == UNCHANGED ringVars /\ (mark' \in Position \/ UNCHANGED mark)
<1>0. point \in Position  BY DEF TypeOK
<1>1. CASE UNCHANGED vars  BY <1>1
<1>2. ASSUME NEW k \in Kill, KillText(k)  PROVE Kept
  <2>1. CASE prompting  BY <1>2, <2>1 DEF KillText, InText
  <2>2. CASE ~prompting  BY <1>2, <2>2 DEF KillText, InText
  <2>3. QED  BY <2>1, <2>2
<1>3. ASSUME NEW k \in Kill, NEW i \in BOOLEAN, CopyText(k) \/ ToRegister(k, i)  PROVE Kept
  <2>1. CASE prompting  BY <1>3, <2>1 DEF CopyText, ToRegister, InText
  <2>2. CASE ~prompting  BY <1>3, <2>2 DEF CopyText, ToRegister, InText, Copied
  <2>3. QED  BY <2>1, <2>2
<1>4. ASSUME NEW k, NEW rev, InText(YankInsert(k, rev))
      PROVE  mark' \in Position \/ UNCHANGED mark
  <2>1. CASE prompting  BY <1>4, <2>1 DEF InText
  <2>2. CASE ~prompting  BY <1>4, <2>2 DEF InText, YankInsert
  <2>3. QED  BY <2>1, <2>2
<1>5. CASE Yank  BY <1>4, <1>5 DEF Yank, YankAny
<1>6. CASE InsertRegister  BY <1>4, <1>6 DEF InsertRegister, YankAny
<1>7. CASE \E newer \in BOOLEAN : YankPop(newer)  BY <1>4, <1>7 DEF YankPop
<1>8. CASE \/ OtherEdit \/ Undo \/ Move
           \/ EnterPrompt \/ ReplaceMinibufferText \/ PromptInsert \/ LeavePrompt
  BY <1>8
  DEF OtherEdit, Undo, Move, EnterPrompt, ReplaceMinibufferText, PromptInsert, LeavePrompt
<1>9. CASE SetMark \/ RectangleMark  BY <1>9 DEF SetMark, RectangleMark
<1>10. CASE Jump  BY <1>10 DEF Jump
<1>11. CASE PopMark  BY <1>11 DEF PopMark
<1>12. CASE SwapMark  BY <1>0, <1>12 DEF SwapMark
<1>13. QED
  BY <1>1, <1>2, <1>3, <1>5, <1>6, <1>7, <1>8, <1>9, <1>10, <1>11, <1>12 DEF Next

LEMMA StepRefines ==
  TypeOK /\ TypeOK' /\ [Next]_vars => [Marks!Next]_<<point, mark, MarkSeq>>
<1> SUFFICES ASSUME TypeOK, TypeOK', [Next]_vars
             PROVE  Marks!Next
  OBVIOUS
<1>1. /\ RingOK /\ RingOK' /\ point \in Position /\ point' \in Position
      /\ mark \in Position \cup {Unset}
  BY DEF TypeOK, RingOK
<1>2. CASE UNCHANGED ringVars /\ (mark' \in Position \/ UNCHANGED mark)
  <2>1. UNCHANGED MarkSeq  BY <1>1, <1>2, SameMarks
  <2>2. QED  BY <1>1, <1>2, <2>1 DEF Marks!Next, Marks!Place, MarkSeq
<1>3. CASE MarkRingPush /\ mark' = point
  <2>1. CASE mark = Unset
    <3>1. UNCHANGED ringVars  BY <1>3, <2>1 DEF MarkRingPush
    <3>2. QED  BY <1>1, <1>2, <1>3, <3>1
  <2>2. CASE mark # Unset
    <3>1. MarkSeq' = Marks!Newest(Append(MarkSeq, mark))  BY <1>1, <1>3, <2>2, PushRefines
    <3>2. Marks!Mark(point)  BY <1>3, <2>2, <3>1 DEF Marks!Mark, MarkSeq
    <3>3. QED  BY <1>1, <3>2 DEF Marks!Next
  <2>3. QED  BY <2>1, <2>2
<1>4. CASE PopMark /\ mark_ring_len # 0
  <2>1. mark \in Position /\ mark # Unset /\ point' = mark  BY <1>1, <1>4 DEF PopMark
  <2>2. mark' = Last(MarkSeq) /\ MarkSeq' = <<mark>> \o Front(MarkSeq)
    BY <1>1, <1>4, <2>1, PopRefines
  <2>3. MarkSeq # <<>>
    <3>1. Len(MarkSeq) = mark_ring_len  BY <1>1, MarkSeqIs
    <3>2. QED  BY <1>4, <3>1
  <2>4. Marks!Pop <=> /\ mark # Unset
                      /\ point' = mark
                      /\ IF MarkSeq = <<>> THEN UNCHANGED <<mark, MarkSeq>>
                         ELSE mark' = Last(MarkSeq) /\ MarkSeq' = <<mark>> \o Front(MarkSeq)
    BY DEF Marks!Pop, MarkSeq, Last, Front, Marks!Last, Marks!Front
  <2>5. Marks!Pop  BY <2>1, <2>2, <2>3, <2>4
  <2>6. QED  BY <2>5 DEF Marks!Next
<1>5. QED  BY <1>2, <1>3, <1>4, MarkCommands

LEMMA InitRefines == Init => Marks!Init
<1> SUFFICES ASSUME Init  PROVE Marks!Init  OBVIOUS
<1>1. mark_ring_len = 0  BY DEF Init
<1>2. MarkSeq = <<>>  BY <1>1 DEF MarkSeq
<1>3. QED  BY <1>2 DEF Init, Marks!Init, MarkSeq

(* The circular mark ring of region.c, an array with an index and a length, *)
(* is the sequence of the last marks, for rings of any size: pushing drops  *)
(* the oldest and popping goes round.                                       *)
THEOREM RefinesMarkRotation == Spec => ImplementsMarkRotation
<1>1. [Next]_vars /\ TypeOK /\ TypeOK' => [Marks!Next]_<<point, mark, MarkSeq>>
  BY StepRefines
<1>2. QED
  BY <1>1, InitOK, TypeKept, InitRefines, PTL DEF Spec, ImplementsMarkRotation, Marks!Spec, MarkSeq

-----------------------------------------------------------------------------
(* Going round the kill ring *)

LEMMA UpTo ==
  ASSUME NEW k \in Nat, NEW G, 0 \in G,
         \A i \in 0..(k - 1) : i \in G => i + 1 \in G
  PROVE  \A i \in 0..k : i \in G
<1> DEFINE Bad == { i \in 0..k : i \notin G }
<1>1. SUFFICES ASSUME Bad # {}  PROVE FALSE  OBVIOUS
<1>2. PICK n \in Bad : \A i \in Bad : ~(i < n)
  <2>1. Bad \subseteq Nat  OBVIOUS
  <2> HIDE DEF Bad
  <2>2. PICK n \in Bad : \A i \in Bad : ~ (<<i, n>> \in OpToRel(<, Nat))
    BY <1>1, <2>1, WFMin, NatLessThanWellFounded
  <2>3. QED  BY <2>1, <2>2 DEF OpToRel
<1>3. n # 0 /\ n \in 1..k  OBVIOUS
<1>4. n - 1 \in 0..(k - 1) /\ n - 1 \notin Bad  BY <1>2, <1>3
<1>5. n - 1 \in G  BY <1>3, <1>4
<1>6. (n - 1) + 1 \in G  BY <1>4, <1>5
<1>7. QED  BY <1>3, <1>6

(* While a yank can be popped, its kill is one of the ring's.               *)
InRing == kill_history # <<>> /\ kill_ring_pos # -1 => kill_ring_pos < Len(kill_history)

LEMMA InRingKept == TypeOK /\ InRing /\ [Next]_vars => InRing'
<1> SUFFICES ASSUME TypeOK, InRing, [Next]_vars  PROVE InRing'
  OBVIOUS
<1> USE DEF InRing
<1>0. KillsOK /\ kill_history \in Seq(Kill \ Empty)  BY TypeParts DEF TypeOK
<1>1. CASE kill_ring_pos' = -1  BY <1>1
<1>2. CASE UNCHANGED <<kill_history, kill_ring_pos>>  BY <1>2
<1>3. ASSUME NEW k \in Kill, NEW rev \in BOOLEAN, YankAny(k, rev)  PROVE InRing'
  <2>1. /\ kill_history' = kill_history
        /\ kill_ring_pos' = IF kill_history = <<>> THEN 0 ELSE Len(kill_history) - 1
    BY <1>3 DEF YankAny
  <2>2. Len(kill_history) \in Nat  BY <1>0
  <2>3. QED  BY <2>1, <2>2
<1>4. ASSUME NEW newer \in BOOLEAN, YankPop(newer)  PROVE InRing'
  <2>1. kill_history # <<>> /\ kill_ring_pos # -1 /\ kill_history' = kill_history
        /\ kill_ring_pos' = NextPos(kill_ring_pos, newer)
    BY <1>4 DEF YankPop
  <2>2. NextPos(kill_ring_pos, newer) \in 0..(Len(kill_history) - 1)  BY <1>0, <2>1, PoppedIs
  <2>3. Len(kill_history) \in Nat  BY <1>0
  <2>4. QED  BY <2>1, <2>2, <2>3
<1>5. CASE Yank
  <2>1. kill \in Kill  BY <1>5 DEF Yank, TypeOK
  <2>2. QED  BY <1>3, <1>5, <2>1 DEF Yank
<1>6. CASE InsertRegister
  <2>1. register \in Kill  BY <1>6 DEF InsertRegister, TypeOK
  <2>2. QED  BY <1>1, <1>3, <1>6, <2>1 DEF InsertRegister, EndYank
<1>7. CASE UNCHANGED vars  BY <1>2, <1>7 DEF vars, killVars
<1>8. CASE ReplaceMinibufferText \/ PromptInsert \/ LeavePrompt \/ RectangleMark
  BY <1>2, <1>8
  DEF ReplaceMinibufferText, PromptInsert, LeavePrompt, RectangleMark, killVars
<1>9. CASE \E k \in Kill : KillText(k) \/ CopyText(k)
  BY <1>1, <1>9 DEF KillText, CopyText, EndYank
<1>10. CASE \E k \in Kill, i \in BOOLEAN : ToRegister(k, i)
  BY <1>1, <1>10 DEF ToRegister, EndYank
<1>11. CASE OtherEdit \/ Undo \/ EnterPrompt
  BY <1>1, <1>11 DEF OtherEdit, Undo, EnterPrompt, EndYank
<1>12. CASE SetMark \/ Jump \/ PopMark \/ SwapMark \/ Move
  BY <1>1, <1>12 DEF SetMark, Jump, PopMark, SwapMark, Move, EndYank
<1>13. QED
  BY <1>4, <1>5, <1>6, <1>7, <1>8, <1>9, <1>10, <1>11, <1>12 DEF Next

(* The places yank-pop comes to one after the other.                        *)
Round(f, newer) ==
  f = [i \in 0..Len(kill_history) |->
         IF i = 0 THEN kill_ring_pos ELSE NextPos(f[i - 1], newer)]

(* The i-th of them, n being the kills there are and c the first place.     *)
Place(i, n, c, newer) ==
  IF newer THEN IF c + i < n THEN c + i ELSE c + i - n
           ELSE IF i <= c THEN c - i ELSE c - i + n

LEMMA PlaceIs ==
  ASSUME NEW n \in Nat \ {0}, NEW c \in 0..(n - 1), NEW newer \in BOOLEAN, NEW i \in 0..n
  PROVE  Place(i, n, c, newer) \in 0..(n - 1)
BY DEF Place

LEMMA NextPlace ==
  ASSUME KillsOK, NEW n, n = Len(kill_history), n # 0, NEW c \in 0..(n - 1),
         NEW newer \in BOOLEAN, NEW i \in 1..n
  PROVE  NextPos(Place(i - 1, n, c, newer), newer) = Place(i, n, c, newer)
<1>1. n \in Nat \ {0}  BY DEF KillsOK
<1>2. PICK j \in 0..n : j = i - 1 /\ i = j + 1  BY <1>1
<1>3. PICK p \in 0..(n - 1) : p = Place(j, n, c, newer)  BY <1>1, <1>2, PlaceIs
<1>4. CASE newer
  <2>1. (p + 1) % n = IF p + 1 < n THEN p + 1 ELSE 0
    <3>1. p + 1 < n => (p + 1) % n = p + 1  BY <1>1, ModIs
    <3>2. p + 1 = n => (p + 1) % n = 0
      <4>1. p + 1 = n => (p + 1) % n = (p + 1) - n  BY <1>1, ModIs
      <4>2. QED  BY <1>1, <4>1
    <3>3. QED  BY <1>1, <3>1, <3>2
  <2>2. p = IF c + j < n THEN c + j ELSE c + j - n  BY <1>3, <1>4 DEF Place
  <2>3. Place(i, n, c, newer) = IF c + i < n THEN c + i ELSE c + i - n  BY <1>4 DEF Place
  <2>4. (IF p + 1 < n THEN p + 1 ELSE 0) = IF c + i < n THEN c + i ELSE c + i - n
    BY <1>1, <1>2, <2>2
  <2>5. NextPos(p, newer) = (p + 1) % n  BY <1>4 DEF NextPos
  <2>6. QED  BY <1>2, <1>3, <2>1, <2>3, <2>4, <2>5
<1>5. CASE ~newer
  <2>1. (p + n - 1) % n = IF p = 0 THEN n - 1 ELSE p - 1
    <3>1. PICK x \in Nat : x = p + n - 1  BY <1>1
    <3>2. x < n => x % n = x  BY <1>1, ModIs
    <3>3. n <= x /\ x < 2 * n => x % n = x - n  BY <1>1, ModIs
    <3>4. x < 2 * n  BY <1>1, <3>1
    <3>5. QED  BY <1>1, <3>1, <3>2, <3>3, <3>4
  <2>2. p = IF j <= c THEN c - j ELSE c - j + n  BY <1>3, <1>5 DEF Place
  <2>3. Place(i, n, c, newer) = IF i <= c THEN c - i ELSE c - i + n  BY <1>5 DEF Place
  <2>4. (IF p = 0 THEN n - 1 ELSE p - 1) = IF i <= c THEN c - i ELSE c - i + n
    BY <1>1, <1>2, <2>2
  <2>5. NextPos(p, newer) = (p + n - 1) % n  BY <1>5 DEF NextPos
  <2>6. QED  BY <1>2, <1>3, <2>1, <2>3, <2>4, <2>5
<1>6. QED  BY <1>4, <1>5

LEMMA AllPlaces ==
  ASSUME NEW n \in Nat \ {0}, NEW c \in 0..(n - 1), NEW newer \in BOOLEAN
  PROVE  { Place(i, n, c, newer) : i \in 0..n } = 0..(n - 1)
<1>1. \A i \in 0..n : Place(i, n, c, newer) \in 0..(n - 1)  BY PlaceIs
<1>2. ASSUME NEW k \in 0..(n - 1)  PROVE \E i \in 0..n : Place(i, n, c, newer) = k
  <2>1. CASE newer
    <3>1. CASE c <= k
      <4>1. k - c \in 0..n /\ c + (k - c) = k  BY <3>1
      <4>2. Place(k - c, n, c, newer) = k  BY <2>1, <4>1 DEF Place
      <4>3. QED  BY <4>1, <4>2
    <3>2. CASE ~(c <= k)
      <4>1. k - c + n \in 0..n /\ c + (k - c + n) = k + n  BY <3>2
      <4>2. Place(k - c + n, n, c, newer) = k  BY <2>1, <4>1 DEF Place
      <4>3. QED  BY <4>1, <4>2
    <3>3. QED  BY <3>1, <3>2
  <2>2. CASE ~newer
    <3>1. CASE k <= c
      <4>1. c - k \in 0..n /\ c - k <= c /\ c - (c - k) = k  BY <3>1
      <4>2. Place(c - k, n, c, newer) = k  BY <2>2, <4>1 DEF Place
      <4>3. QED  BY <4>1, <4>2
    <3>2. CASE ~(k <= c)
      <4>1. c - k + n \in 0..n /\ ~(c - k + n <= c) /\ c - (c - k + n) + n = k  BY <3>2
      <4>2. Place(c - k + n, n, c, newer) = k  BY <2>2, <4>1 DEF Place
      <4>3. QED  BY <4>1, <4>2
    <3>3. QED  BY <3>1, <3>2
  <2>3. QED  BY <2>1, <2>2
<1>3. QED  BY <1>1, <1>2

LEMMA RoundIs ==
  ASSUME KillsOK, NEW n, n = Len(kill_history), n # 0, kill_ring_pos \in 0..(n - 1),
         NEW newer \in BOOLEAN, NEW f, f = CHOOSE g : Round(g, newer)
  PROVE  \A i \in 0..n : f[i] = Place(i, n, kill_ring_pos, newer)
<1>1. n \in Nat \ {0}  BY DEF KillsOK
<1>2. PICK c \in 0..(n - 1) : c = kill_ring_pos  OBVIOUS
<1>3. Place(0, n, c, newer) = c  BY <1>1 DEF Place
<1>4. Round(f, newer)
  <2> DEFINE g == [i \in 0..n |-> Place(i, n, c, newer)]
             h == [i \in 0..n |-> IF i = 0 THEN c ELSE NextPos(g[i - 1], newer)]
  <2>1. ASSUME NEW i \in 0..n  PROVE g[i] = h[i]
    <3>1. CASE i = 0  BY <1>3, <3>1
    <3>2. CASE i # 0
      <4>1. i \in 1..n /\ i - 1 \in 0..n  BY <1>1, <3>2
      <4>2. g[i - 1] = Place(i - 1, n, c, newer) /\ g[i] = Place(i, n, c, newer)  BY <4>1
      <4>3. NextPos(Place(i - 1, n, c, newer), newer) = Place(i, n, c, newer)
        BY <1>1, <4>1, NextPlace
      <4>4. h[i] = NextPos(g[i - 1], newer)  BY <3>2
      <4> HIDE DEF g, h
      <4>5. QED  BY <4>2, <4>3, <4>4
    <3>3. QED  BY <3>1, <3>2
  <2>2. g = h
    <3>1. g = [i \in 0..n |-> g[i]] /\ h = [i \in 0..n |-> h[i]]  OBVIOUS
    <3> HIDE DEF g, h
    <3>2. QED  BY <2>1, <3>1
  <2>3. Round(g, newer)
    <3> HIDE DEF g
    <3>1. QED  BY <1>2, <2>2 DEF Round
  <2>4. QED  BY <2>3
<1>5. \A i \in 0..n : f[i] = IF i = 0 THEN c ELSE NextPos(f[i - 1], newer)
  BY <1>2, <1>4 DEF Round
<1> DEFINE G == { i \in 0..n : f[i] = Place(i, n, c, newer) }
<1>6. 0 \in G  BY <1>1, <1>3, <1>5
<1>7. ASSUME NEW i \in 0..(n - 1), i \in G  PROVE i + 1 \in G
  <2>1. PICK j \in 1..n : j = i + 1 /\ j - 1 = i /\ j \in 0..n /\ j # 0  BY <1>1
  <2>2. f[j] = NextPos(f[j - 1], newer)  BY <1>5, <2>1
  <2>3. f[j - 1] = Place(j - 1, n, c, newer)  BY <1>7, <2>1
  <2>4. NextPos(Place(j - 1, n, c, newer), newer) = Place(j, n, c, newer)  BY <1>1, NextPlace
  <2>5. f[j] = Place(j, n, c, newer)  BY <2>2, <2>3, <2>4
  <2>6. QED  BY <2>1, <2>5
<1>8. \A i \in 0..n : i \in G
  <2> HIDE DEF G
  <2>1. QED  BY <1>1, <1>6, <1>7, UpTo
<1>9. QED  BY <1>2, <1>8

LEMMA RoundGoesThrough ==
  ASSUME TypeOK, InRing
  PROVE  CyclesThroughAll
<1>1. SUFFICES ASSUME NEW newer \in BOOLEAN, kill_history # <<>>, kill_ring_pos # -1,
                      NEW f, f = CHOOSE g : Round(g, newer)
               PROVE  { f[i] : i \in 0..Len(kill_history) } = 0..(Len(kill_history) - 1)
  BY DEF CyclesThroughAll, Round
<1>2. KillsOK  BY TypeParts
<1>3. PICK n \in Nat \ {0} : n = Len(kill_history)
  <2>1. Len(kill_history) \in Nat \ {0}  BY <1>1, <1>2 DEF KillsOK
  <2>2. QED  BY <2>1
<1>4. kill_ring_pos \in 0..(n - 1)
  <2>1. kill_ring_pos \in Int /\ kill_ring_pos >= -1 /\ kill_ring_pos < n
    BY <1>1, <1>3 DEF TypeOK, InRing
  <2>2. QED  BY <1>1, <1>3, <2>1
<1>5. PICK c \in 0..(n - 1) : c = kill_ring_pos  BY <1>4
<1>6. \A i \in 0..n : f[i] = Place(i, n, c, newer)
  BY <1>1, <1>2, <1>3, <1>4, <1>5, RoundIs
<1>7. { f[i] : i \in 0..n } = { Place(i, n, c, newer) : i \in 0..n }  BY <1>6
<1>8. { Place(i, n, c, newer) : i \in 0..n } = 0..(n - 1)  BY AllPlaces
<1>9. QED  BY <1>3, <1>7, <1>8

(* Popping yanks one after the other comes to every kill there is, in both  *)
(* directions and for rings of any size (region.c yankPop; the modulus of   *)
(* the step back has the ring's length added first).                        *)
THEOREM RingGoesRound == Spec => []CyclesThroughAll
<1>1. Init => InRing  BY DEF Init, InRing
<1>2. QED  BY <1>1, InitOK, TypeKept, InRingKept, RoundGoesThrough, PTL DEF Spec

=============================================================================
