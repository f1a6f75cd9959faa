--------------------------- MODULE WorkspaceProofs ---------------------------
(***************************************************************************)
(* Proofs about Workspace: for any number of buffers, windows and files,   *)
(* no freed buffer stays referred to, the screen is restored when a prompt *)
(* or popup ends but for the focus that a popup has put on the first       *)
(* window, and no step but revert drops the edits of a file unasked.       *)
(*                                                                         *)
(* The argument: Sound, what the list and the windows always are, is kept  *)
(* by every operation on windows and buffers; Level and Steady, what they  *)
(* are between commands, by every command; Inv adds what the prompt, the   *)
(* preview and the palette have put on the screen, so that closing them    *)
(* leads back to Steady.                                                   *)
(***************************************************************************)
EXTENDS Workspace, SequenceTheorems, WellFoundedInduction, TLAPS

USE AddressAssumption, OriginAssumption, NameAssumption, LimitAssumption

(* The list and the windows of a state: the list has its buffers once, the  *)
(* windows show buffers of it, some of them focused, and each has a name.   *)
Sound(s) ==
  /\ s \in State
  /\ s.list # <<>> /\ IsInjective(s.list)
  /\ s.windows # <<>> /\ ToSet(s.windows) \subseteq Live(s)
  /\ s.focused # {} /\ s.focused \subseteq DOMAIN s.windows
  /\ s.last \in Live(s) \cup {Nil}
  /\ \A b \in Live(s) : s.name[b] \in Name

-----------------------------------------------------------------------------
(* What the operators assign: the fields left alone, and the others.        *)

Record(s) ==
  s = [list |-> s.list, windows |-> s.windows, focused |-> s.focused,
       buf |-> s.buf, last |-> s.last, name |-> s.name]

LEMMA StateIs ==
  ASSUME NEW s \in State
  PROVE  /\ Record(s)
         /\ s.list \in Seq(Address) /\ s.windows \in Seq(Address)
         /\ s.focused \subseteq Nat \ {0} /\ s.buf \in Address \cup {Minibuf, Nil}
         /\ s.last \in Address \cup {Nil} /\ s.name \in [Address -> Name \cup {Nil}]
BY DEF State, Record

LEMMA RecordIs ==
  ASSUME NEW s, Record(s), s.list \in Seq(Address), s.windows \in Seq(Address),
         s.focused \subseteq Nat \ {0}, s.buf \in Address \cup {Minibuf, Nil},
         s.last \in Address \cup {Nil}, s.name \in [Address -> Name \cup {Nil}]
  PROVE  s \in State
BY DEF State, Record

LEMMA BufSet ==
  ASSUME NEW s \in State, NEW b, NEW t, t = [s EXCEPT !.buf = b]
  PROVE  /\ Record(t)
         /\ t.buf = b
         /\ t.list = s.list /\ t.windows = s.windows /\ t.focused = s.focused
         /\ t.last = s.last /\ t.name = s.name
BY DEF State, Record

LEMMA WithNewIs ==
  ASSUME NEW s \in State, NEW n \in Name, NEW r \in WithNew(s, n)
  PROVE  /\ r[2] \in Address \ Live(s)
         /\ r[1] \in State
         /\ r[1].list = <<r[2]>> \o s.list /\ r[1].name = [s.name EXCEPT ![r[2]] = n]
         /\ r[1].windows = s.windows /\ r[1].focused = s.focused
         /\ r[1].buf = s.buf /\ r[1].last = s.last
<1>1. PICK b \in Address \ Live(s) : r = <<[s EXCEPT !.list = <<b>> \o @, !.name[b] = n], b>>
  BY DEF WithNew
<1> DEFINE l == <<b>> \o s.list
           t == [s EXCEPT !.list = l, !.name[b] = n]
<1>2. r[1] = t /\ r[2] = b  BY <1>1
<1>3. /\ t \in State
      /\ t.list = l /\ t.name = [s.name EXCEPT ![b] = n]
      /\ t.windows = s.windows /\ t.focused = s.focused
      /\ t.buf = s.buf /\ t.last = s.last
  <2>1. b \in Address /\ l \in Seq(Address)  BY StateIs
  <2> HIDE DEF l
  <2>2. t.list = l /\ t.windows = s.windows /\ t.focused = s.focused
        /\ t.buf = s.buf /\ t.last = s.last
    BY DEF State
  <2>3. t.name = [s.name EXCEPT ![b] = n]  BY DEF State
  <2>4. t \in State  BY <2>1 DEF State
  <2> HIDE DEF t
  <2>5. QED  BY <2>2, <2>3, <2>4
<1> HIDE DEF t
<1>4. QED  BY <1>2, <1>3

-----------------------------------------------------------------------------
(* Sequences and least elements *)

LEMMA MinIs ==
  ASSUME NEW G, G \subseteq Nat, G # {}
  PROVE  Min(G) \in G
<1>1. PICK n \in G : \A k \in G : ~ (<<k, n>> \in OpToRel(<, Nat))
  BY WFMin, NatLessThanWellFounded
<1>2. \A k \in G : ~ (k < n)  BY <1>1 DEF OpToRel
<1>3. \A k \in G : n =< k  BY <1>2
<1>4. QED  BY <1>3 DEF Min

LEMMA RemoveAtIs ==
  ASSUME NEW S, NEW q \in Seq(S), NEW i \in 1..Len(q)
  PROVE  LET r == RemoveAt(q, i)
         IN  /\ r \in Seq(S) /\ Len(r) = Len(q) - 1
             /\ \A k \in 1..(Len(q) - 1) : r[k] = IF k < i THEN q[k] ELSE q[k + 1]
<1> DEFINE m == i - 1
           o == i + 1
           n == Len(q)
           a == SubSeq(q, 1, m)
           c == SubSeq(q, o, n)
<1>0. n \in Nat /\ m \in 0..n /\ o \in 1..(n + 1) /\ o = m + 2 /\ i = m + 1  OBVIOUS
<1>1. \A k \in 1..n : q[k] \in S  OBVIOUS
<1>2. RemoveAt(q, i) = a \o c  BY DEF RemoveAt
<1>3. a \in Seq(S) /\ Len(a) = m /\ \A k \in 1..m : a[k] = q[k]
  <2> HIDE DEF m, n
  <2>1. \A k \in 1..m : q[k] \in S  BY <1>0, <1>1
  <2>2. m \in Int /\ m - 1 + 1 = m  BY <1>0
  <2>3. QED  BY <1>0, <2>1, <2>2, SubSeqProperties
<1>4. c \in Seq(S) /\ Len(c) = n - o + 1 /\ \A k \in 1..(n - o + 1) : c[k] = q[o + k - 1]
  <2> HIDE DEF o, n
  <2>1. \A k \in o..n : q[k] \in S  BY <1>0, <1>1
  <2>2. o \in Int /\ n \in Int  BY <1>0
  <2>3. /\ c \in Seq(S)
        /\ Len(c) = IF o <= n THEN n - o + 1 ELSE 0
        /\ \A k \in 1..(n - o + 1) : c[k] = q[o + k - 1]
    BY <2>1, <2>2, SubSeqProperties
  <2>4. QED  BY <1>0, <2>3
<1> HIDE DEF m, o, n, a, c
<1>5. /\ a \o c \in Seq(S) /\ Len(a \o c) = Len(a) + Len(c)
      /\ \A k \in 1..(Len(a) + Len(c)) : (a \o c)[k] = IF k <= Len(a) THEN a[k] ELSE c[k - Len(a)]
  <2>1. a \in Seq(S) /\ c \in Seq(S)  BY <1>3, <1>4
  <2>2. QED  BY <2>1, ConcatProperties
<1>6. Len(a) + Len(c) = n - 1  BY <1>0, <1>3, <1>4
<1>7. ASSUME NEW k \in 1..(n - 1)
      PROVE  (a \o c)[k] = IF k < i THEN q[k] ELSE q[k + 1]
  <2>1. CASE k < i  BY <1>0, <1>3, <1>5, <1>6, <2>1
  <2>2. CASE ~(k < i)
    <3>1. k - m \in 1..(n - o + 1) /\ o + (k - m) - 1 = k + 1  BY <1>0, <2>2
    <3>2. (a \o c)[k] = c[k - m]  BY <1>0, <1>3, <1>5, <1>6, <2>2
    <3>3. QED  BY <1>4, <2>2, <3>1, <3>2
  <2>3. QED  BY <2>1, <2>2
<1>8. QED  BY <1>2, <1>5, <1>6, <1>7 DEF n

LEMMA ElementsAre ==
  ASSUME NEW S, NEW q \in Seq(S)
  PROVE  /\ DOMAIN q = 1..Len(q) /\ Len(q) \in Nat
         /\ q # <<>> <=> Len(q) >= 1
         /\ \A x : x \in ToSet(q) <=> \E k \in 1..Len(q) : q[k] = x
         /\ ToSet(q) \subseteq S
BY DEF ToSet

(* What is left when one element goes. *)
LEMMA Removed ==
  ASSUME NEW S, NEW q \in Seq(S), NEW i \in 1..Len(q)
  PROVE  /\ ToSet(RemoveAt(q, i)) \subseteq ToSet(q)
         /\ \A k \in 1..Len(q) : k # i => q[k] \in ToSet(RemoveAt(q, i))
         /\ \A x \in ToSet(RemoveAt(q, i)) : \E k \in 1..Len(q) : k # i /\ q[k] = x
         /\ IsInjective(q) => /\ IsInjective(RemoveAt(q, i))
                              /\ ToSet(RemoveAt(q, i)) = ToSet(q) \ {q[i]}
<1> DEFINE r == RemoveAt(q, i)
<1>1. /\ r \in Seq(S) /\ Len(r) = Len(q) - 1
      /\ \A k \in 1..(Len(q) - 1) : r[k] = IF k < i THEN q[k] ELSE q[k + 1]
  BY RemoveAtIs
<1> HIDE DEF r
<1>2. ASSUME NEW x \in ToSet(r)
      PROVE  \E k \in 1..Len(q) : k # i /\ q[k] = x
  <2>1. PICK k \in 1..Len(r) : r[k] = x  BY <1>1, <1>2, ElementsAre
  <2>2. CASE k < i  BY <1>1, <2>1, <2>2
  <2>3. CASE ~(k < i)  BY <1>1, <2>1, <2>3
  <2>4. QED  BY <2>2, <2>3
<1>3. ASSUME NEW k \in 1..Len(q), k # i
      PROVE  q[k] \in ToSet(r)
  <2>1. CASE k < i
    <3>1. k \in 1..Len(r) /\ r[k] = q[k]  BY <1>1, <2>1
    <3>2. QED  BY <1>1, <3>1, ElementsAre
  <2>2. CASE k > i
    <3> DEFINE j == k - 1
    <3>1. j \in 1..(Len(q) - 1) /\ ~(j < i) /\ j + 1 = k  BY <2>2
    <3> HIDE DEF j
    <3>2. j \in 1..Len(r) /\ r[j] = q[k]  BY <1>1, <3>1
    <3>3. QED  BY <1>1, <3>2, ElementsAre
  <2>3. QED  BY <1>3, <2>1, <2>2
<1>4. ToSet(r) \subseteq ToSet(q)  BY <1>2, ElementsAre
<1>5. ASSUME IsInjective(q)
      PROVE  IsInjective(r) /\ ToSet(r) = ToSet(q) \ {q[i]}
  <2>1. \A j, k \in 1..Len(q) : q[j] = q[k] => j = k  BY <1>5, ElementsAre DEF IsInjective
  <2>2. IsInjective(r)
    <3>1. SUFFICES ASSUME NEW j \in 1..Len(r), NEW k \in 1..Len(r), r[j] = r[k]  PROVE j = k
      BY <1>1, ElementsAre DEF IsInjective
    <3>2. r[j] = (IF j < i THEN q[j] ELSE q[j + 1]) /\ r[k] = (IF k < i THEN q[k] ELSE q[k + 1])
      BY <1>1
    <3>3. PICK a, c \in 1..Len(q) : q[a] = q[c] /\ (a = IF j < i THEN j ELSE j + 1)
                                    /\ (c = IF k < i THEN k ELSE k + 1)
      <4>1. (IF j < i THEN j ELSE j + 1) \in 1..Len(q) /\ (IF k < i THEN k ELSE k + 1) \in 1..Len(q)
        BY <1>1
      <4>2. q[IF j < i THEN j ELSE j + 1] = q[IF k < i THEN k ELSE k + 1]  BY <3>1, <3>2
      <4>3. QED  BY <4>1, <4>2
    <3>4. a = c  BY <2>1, <3>3
    <3>5. QED  BY <3>3, <3>4
  <2>3. ToSet(r) = ToSet(q) \ {q[i]}  BY <1>2, <1>3, <2>1, ElementsAre
  <2>4. QED  BY <2>2, <2>3
<1>6. QED  BY <1>2, <1>3, <1>4, <1>5 DEF r

-----------------------------------------------------------------------------
(* The list *)

(* Sound by its fields. *)
LEMMA SoundIs ==
  ASSUME NEW s, Sound(s)
  PROVE  /\ s \in State /\ s.list \in Seq(Address) /\ s.windows \in Seq(Address)
         /\ Live(s) \subseteq Address /\ ToSet(s.windows) \subseteq Live(s)
         /\ DOMAIN s.windows = 1..NWindows(s) /\ NWindows(s) \in Nat /\ NWindows(s) >= 1
         /\ \A i \in 1..NWindows(s) : s.windows[i] \in Live(s) /\ s.windows[i] \in ToSet(s.windows)
         /\ s.focused \subseteq 1..NWindows(s) /\ s.focused # {}
         /\ FocusedIdx(s) \in s.focused
<1>1. /\ s \in State /\ s.list \in Seq(Address) /\ s.windows \in Seq(Address)
      /\ s.focused \subseteq Nat \ {0}
  BY StateIs DEF Sound
<1>2. Live(s) \subseteq Address  BY <1>1, ElementsAre DEF Live
<1>3. /\ DOMAIN s.windows = 1..NWindows(s) /\ NWindows(s) \in Nat /\ NWindows(s) >= 1
      /\ \A i \in 1..NWindows(s) : s.windows[i] \in ToSet(s.windows)
  BY <1>1, ElementsAre DEF Sound, NWindows
<1>4. FocusedIdx(s) \in s.focused
  <2>1. s.focused \subseteq Nat /\ s.focused # {}  BY <1>1 DEF Sound
  <2>2. QED  BY <2>1, MinIs DEF FocusedIdx
<1>5. QED  BY <1>1, <1>2, <1>3, <1>4 DEF Sound

LEMMA IndexIs ==
  ASSUME NEW s, Sound(s), NEW b \in Live(s)
  PROVE  IndexOf(s, b) \in 1..Len(s.list) /\ s.list[IndexOf(s, b)] = b
<1>1. s.list \in Seq(Address)  BY SoundIs
<1>2. \E i \in DOMAIN s.list : s.list[i] = b  BY DEF Live, ToSet
<1>3. IndexOf(s, b) \in DOMAIN s.list /\ s.list[IndexOf(s, b)] = b  BY <1>2 DEF IndexOf
<1>4. QED  BY <1>1, <1>3

LEMMA NeighboursAre ==
  ASSUME NEW s, Sound(s), NEW b \in Live(s)
  PROVE  /\ NextInList(s, b) # Nil => NextInList(s, b) \in Live(s) \ {b}
         /\ NextInList(s, b) = Nil /\ Len(s.list) > 1 =>
              s.list[1] # b /\ PrevInList(s, b) \in Live(s) \ {b}
         /\ b # s.list[1] => PrevInList(s, b) \in Live(s) \ {b}
         /\ s.list[1] \in Live(s) /\ Last(s.list) \in Live(s)
<1> DEFINE q == s.list
           i == IndexOf(s, b)
<1>1. q \in Seq(Address) /\ q # <<>> /\ IsInjective(q)  BY SoundIs DEF Sound
<1>2. i \in 1..Len(q) /\ q[i] = b  BY IndexIs
<1>3. Len(q) \in Nat /\ Len(q) >= 1 /\ DOMAIN q = 1..Len(q)  BY <1>1
<1>4. \A k \in 1..Len(q) : q[k] \in Live(s) /\ q[k] \in Address  BY <1>1, ElementsAre DEF Live
<1>5. \A j, k \in 1..Len(q) : q[j] = q[k] => j = k  BY <1>1, <1>3 DEF IsInjective
<1>6. /\ NextInList(s, b) = IF i = Len(q) THEN Nil ELSE q[i + 1]
      /\ PrevInList(s, b) = IF i = 1 THEN Nil ELSE q[i - 1]
  BY DEF NextInList, PrevInList
<1>7. Last(s.list) \in Live(s)  BY <1>3, <1>4 DEF Last
<1> HIDE DEF q, i
<1>8. i # Len(q) => i + 1 \in 1..Len(q) /\ i + 1 # i
  <2> DEFINE n == Len(q)
  <2>1. n \in Nat /\ i \in 1..n  BY <1>2, <1>3
  <2> HIDE DEF n
  <2>2. i # n => i + 1 \in 1..n /\ i + 1 # i  BY <2>1
  <2>3. QED  BY <2>2 DEF n
<1>9. i # 1 => i - 1 \in 1..Len(q) /\ i - 1 # i  BY <1>2, <1>3
<1>10. NextInList(s, b) # Nil => NextInList(s, b) \in Live(s) \ {b}
  BY <1>2, <1>4, <1>5, <1>6, <1>8
<1>11. i # 1 => PrevInList(s, b) \in Live(s) \ {b}
  BY <1>2, <1>4, <1>5, <1>6, <1>9
<1>12. NextInList(s, b) = Nil => i = Len(q)  BY <1>4, <1>6, <1>8
<1>13. i = 1 <=> q[1] = b  BY <1>2, <1>3, <1>5
<1>14. q[1] \in Live(s)  BY <1>3, <1>4
<1>15. NextInList(s, b) = Nil /\ Len(q) > 1 => i # 1  BY <1>12
<1>16. QED  BY <1>7, <1>10, <1>11, <1>13, <1>14, <1>15 DEF q

(* destroyBuffer of a buffer that no window shows. *)
LEMMA DestroyKeeps ==
  ASSUME NEW s, Sound(s), NEW b \in Live(s), b \notin ToSet(s.windows),
         NEW t, t = Destroy(s, b)
  PROVE  /\ Sound(t) /\ Live(t) = Live(s) \ {b}
         /\ \A c \in Live(t) : t.name[c] = s.name[c]
         /\ t.windows = s.windows /\ t.focused = s.focused /\ t.buf = s.buf
         /\ t.last \in {s.last, Nil}
<1>1. /\ Record(t)
      /\ t.list = RemoveAt(s.list, IndexOf(s, b))
      /\ t.name = [s.name EXCEPT ![b] = Nil]
      /\ t.last = (IF s.last = b THEN Nil ELSE s.last)
      /\ t.windows = s.windows /\ t.focused = s.focused /\ t.buf = s.buf
  <2>1. s \in State  BY DEF Sound
  <2>2. QED  BY <2>1 DEF Destroy, State, Record
<1> DEFINE i == IndexOf(s, b)
<1>2. i \in 1..Len(s.list) /\ s.list[i] = b  BY IndexIs
<1>3. s.list \in Seq(Address) /\ IsInjective(s.list)  BY SoundIs DEF Sound
<1> HIDE DEF i
<1>4. RemoveAt(s.list, i) \in Seq(Address)  BY <1>2, <1>3, RemoveAtIs
<1>5. /\ IsInjective(RemoveAt(s.list, i))
      /\ ToSet(RemoveAt(s.list, i)) = ToSet(s.list) \ {b}
  BY <1>2, <1>3, Removed
<1>6. t.list \in Seq(Address) /\ IsInjective(t.list) /\ Live(t) = Live(s) \ {b}
  BY <1>1, <1>4, <1>5 DEF i, Live
<1>7. /\ s.name \in [Address -> Name \cup {Nil}] /\ s.last \in Address \cup {Nil}
      /\ s.windows \in Seq(Address) /\ s.focused \subseteq Nat \ {0}
      /\ s.buf \in Address \cup {Minibuf, Nil}
  BY StateIs DEF Sound
<1>8. t.name \in [Address -> Name \cup {Nil}] /\ \A c \in Live(t) : t.name[c] = s.name[c]
  BY <1>1, <1>6, <1>7, SoundIs
<1>9. t \in State  BY <1>1, <1>6, <1>7, <1>8, RecordIs
<1>10. t.windows # <<>> /\ ToSet(t.windows) \subseteq Live(t)  BY <1>1, <1>6 DEF Sound
<1>11. t.list # <<>>
  <2>1. PICK c \in Live(t) : TRUE  BY <1>10, <1>1, SoundIs
  <2>2. t.list # <<>>  BY <2>1 DEF Live, ToSet
  <2>3. QED  BY <2>2
<1>12. t.last \in Live(t) \cup {Nil} /\ t.last \in {s.last, Nil}  BY <1>1, <1>6 DEF Sound
<1>13. t.focused # {} /\ t.focused \subseteq DOMAIN t.windows  BY <1>1 DEF Sound
<1>14. \A c \in Live(t) : t.name[c] \in Name  BY <1>6, <1>8 DEF Sound
<1>15. Sound(t)  BY <1>6, <1>9, <1>10, <1>11, <1>12, <1>13, <1>14 DEF Sound
<1>16. QED  BY <1>1, <1>6, <1>8, <1>12, <1>15

-----------------------------------------------------------------------------
(* More about sequences *)

LEMMA FunctionIs ==
  ASSUME NEW S, NEW q, q \in Seq(S), NEW T, NEW v \in [DOMAIN q -> T]
  PROVE  v \in Seq(T) /\ Len(v) = Len(q) /\ DOMAIN v = 1..Len(q) /\ (q # <<>> => v # <<>>)
OBVIOUS

LEMMA AppendIs ==
  ASSUME NEW S, NEW q \in Seq(S), NEW x \in S
  PROVE  /\ Append(q, x) \in Seq(S) /\ Len(Append(q, x)) = Len(q) + 1
         /\ Append(q, x) # <<>>
         /\ \A i \in 1..Len(q) : Append(q, x)[i] = q[i]
         /\ Append(q, x)[Len(q) + 1] = x
         /\ ToSet(Append(q, x)) = ToSet(q) \cup {x}
<1> DEFINE r == Append(q, x)
<1>0. Len(q) \in Nat  OBVIOUS
<1>1. /\ r \in Seq(S) /\ Len(r) = Len(q) + 1
      /\ \A i \in 1..Len(q) : r[i] = q[i]
      /\ r[Len(q) + 1] = x
  BY <1>0
<1> HIDE DEF r
<1>1a. \A y : (y \in ToSet(r)) <=> (\E k \in 1..(Len(q) + 1) : r[k] = y)
  <2>1. DOMAIN r = 1..Len(r)  BY <1>1
  <2>2. QED  BY <1>1, <2>1 DEF ToSet
<1>2. ToSet(r) \subseteq ToSet(q) \cup {x}
  <2>1. SUFFICES ASSUME NEW y \in ToSet(r)  PROVE y \in ToSet(q) \cup {x}  OBVIOUS
  <2>2. PICK i \in 1..(Len(q) + 1) : r[i] = y  BY <1>1a
  <2>3. CASE i = Len(q) + 1  BY <1>1, <2>2, <2>3
  <2>4. CASE i # Len(q) + 1
    <3>1. i \in 1..Len(q) /\ q[i] = y  BY <1>0, <1>1, <2>2, <2>4
    <3>2. QED  BY <3>1, ElementsAre
  <2>5. QED  BY <2>3, <2>4
<1>3. x \in ToSet(r)
  <2>1. Len(q) + 1 \in 1..Len(r)  BY <1>0, <1>1
  <2>2. QED  BY <1>1, <2>1, ElementsAre
<1>4. ToSet(q) \subseteq ToSet(r)
  <2>1. SUFFICES ASSUME NEW y \in ToSet(q)  PROVE y \in ToSet(r)  OBVIOUS
  <2>2. PICK i \in 1..Len(q) : q[i] = y  BY ElementsAre
  <2>3. i \in 1..Len(r) /\ r[i] = y  BY <1>0, <1>1, <2>2
  <2>4. QED  BY <1>1, <2>3, ElementsAre
<1>5. r # <<>>  BY <1>0, <1>1
<1>6. QED  BY <1>1, <1>2, <1>3, <1>4, <1>5 DEF r

LEMMA PrependIs ==
  ASSUME NEW S, NEW q \in Seq(S), NEW x \in S
  PROVE  /\ <<x>> \o q \in Seq(S) /\ <<x>> \o q # <<>>
         /\ ToSet(<<x>> \o q) = ToSet(q) \cup {x}
         /\ x \notin ToSet(q) /\ IsInjective(q) => IsInjective(<<x>> \o q)
<1> DEFINE n == Len(q)
           r == <<x>> \o q
<1>0. n \in Nat  OBVIOUS
<1>1. /\ r \in Seq(S) /\ Len(r) = n + 1 /\ r[1] = x
      /\ \A i \in 1..n : r[i + 1] = q[i]
  <2>1. <<x>> \in Seq(S) /\ Len(<<x>>) = 1 /\ <<x>>[1] = x  OBVIOUS
  <2>2. /\ <<x>> \o q \in Seq(S) /\ Len(<<x>> \o q) = Len(<<x>>) + Len(q)
        /\ \A i \in 1..(Len(<<x>>) + Len(q)) :
             (<<x>> \o q)[i] = IF i <= Len(<<x>>) THEN <<x>>[i] ELSE q[i - Len(<<x>>)]
    BY <2>1, ConcatProperties
  <2> HIDE DEF n
  <2>3. /\ r \in Seq(S) /\ Len(r) = n + 1
        /\ \A i \in 1..(n + 1) : r[i] = IF i <= 1 THEN x ELSE q[i - 1]
    BY <1>0, <2>1, <2>2 DEF n
  <2>4. ASSUME NEW i \in 1..n  PROVE r[i + 1] = q[i]
    <3> DEFINE j == i + 1
    <3>1. j \in 1..(n + 1) /\ ~ (j <= 1) /\ j - 1 = i  BY <1>0
    <3> HIDE DEF j
    <3>2. r[j] = q[i]  BY <2>3, <3>1
    <3>3. QED  BY <3>2 DEF j
  <2>5. r[1] = x  BY <1>0, <2>3
  <2>6. QED  BY <2>3, <2>4, <2>5
<1> HIDE DEF n, r
<1>2. ASSUME NEW k \in 1..(n + 1), k # 1  PROVE k - 1 \in 1..n /\ r[k] = q[k - 1]
  <2> DEFINE j == k - 1
  <2>1. j \in 1..n /\ j + 1 = k  BY <1>0, <1>2
  <2> HIDE DEF j
  <2>2. j \in 1..n /\ r[k] = q[j]  BY <1>1, <2>1
  <2>3. QED  BY <2>2 DEF j
<1>2a. \A y : (y \in ToSet(r)) <=> (\E k \in 1..(n + 1) : r[k] = y)
  <2>1. DOMAIN r = 1..Len(r)  BY <1>1
  <2>2. QED  BY <1>1, <2>1 DEF ToSet
<1>3. ToSet(r) \subseteq ToSet(q) \cup {x}
  <2>1. SUFFICES ASSUME NEW y \in ToSet(r)  PROVE y \in ToSet(q) \cup {x}  OBVIOUS
  <2>2. PICK k \in 1..(n + 1) : r[k] = y  BY <1>2a
  <2>3. CASE k = 1  BY <1>1, <2>2, <2>3
  <2>4. CASE k # 1  BY <1>2, <2>2, <2>4, ElementsAre DEF n
  <2>5. QED  BY <2>3, <2>4
<1>4. ToSet(q) \subseteq ToSet(r)
  <2>1. SUFFICES ASSUME NEW y \in ToSet(q)  PROVE y \in ToSet(r)  OBVIOUS
  <2>2. PICK i \in 1..n : q[i] = y  BY ElementsAre DEF n
  <2>3. i + 1 \in 1..(n + 1) /\ r[i + 1] = y  BY <1>0, <1>1, <2>2
  <2>4. QED  BY <1>2a, <2>3
<1>5. x \in ToSet(r) /\ r # <<>>
  <2>1. 1 \in 1..(n + 1)  BY <1>0
  <2>2. x \in ToSet(r)  BY <1>1, <1>2a, <2>1
  <2>3. r # <<>>  BY <1>0, <1>1
  <2>4. QED  BY <2>2, <2>3
<1>6. ASSUME x \notin ToSet(q), IsInjective(q)  PROVE IsInjective(r)
  <2>1. SUFFICES ASSUME NEW i \in 1..(n + 1), NEW j \in 1..(n + 1), r[i] = r[j]  PROVE i = j
    BY <1>1, ElementsAre DEF IsInjective
  <2>2. \A k \in 1..n : q[k] # x  BY <1>6, ElementsAre DEF n
  <2>3. \A k, l \in 1..n : q[k] = q[l] => k = l  BY <1>6, ElementsAre DEF n, IsInjective
  <2>4. CASE i = 1 \/ j = 1  BY <1>1, <1>2, <2>1, <2>2, <2>4
  <2>5. CASE ~ (i = 1 \/ j = 1)
    <3>1. i - 1 \in 1..n /\ j - 1 \in 1..n /\ q[i - 1] = q[j - 1]  BY <1>2, <2>1, <2>5
    <3>2. i - 1 = j - 1  BY <2>3, <3>1
    <3>3. QED  BY <3>2
  <2>6. QED  BY <2>4, <2>5
<1>7. QED  BY <1>1, <1>3, <1>4, <1>5, <1>6 DEF r

LEMMA NextWindowIs ==
  ASSUME NEW n \in Nat, n > 1, NEW i \in 1..n
  PROVE  (i % n) + 1 \in (1..n) \ {i}
<1>1. CASE i = n  BY <1>1
<1>2. CASE i < n
  <2>1. i % n = i  BY <1>2
  <2>2. QED  BY <1>2, <2>1
<1>3. QED  BY <1>1, <1>2

-----------------------------------------------------------------------------
(* Windows that go *)

(* What stays the same in the buffer list. *)
SameList(s, t) == t.list = s.list /\ t.name = s.name /\ t.last = s.last

LEMMA SameListKeeps ==
  ASSUME NEW s, Sound(s), NEW t, Record(t), SameList(s, t),
         t.windows \in Seq(Address), t.windows # <<>>, ToSet(t.windows) \subseteq Live(s),
         t.focused # {}, t.focused \subseteq DOMAIN t.windows,
         t.buf \in Address \cup {Minibuf, Nil}
  PROVE  Sound(t) /\ Live(t) = Live(s)
<1>1. /\ s.list \in Seq(Address) /\ s.last \in Address \cup {Nil}
      /\ s.name \in [Address -> Name \cup {Nil}]
  BY StateIs DEF Sound
<1>2. t.focused \subseteq Nat \ {0}
  <2>1. DOMAIN t.windows = 1..Len(t.windows)  BY ElementsAre
  <2>2. QED  BY <2>1
<1>3. t \in State  BY <1>1, <1>2, RecordIs DEF SameList
<1>4. Live(t) = Live(s)  BY DEF SameList, Live
<1>5. QED  BY <1>3, <1>4 DEF Sound, SameList

(* The window that had the position k has this one when i is gone. *)
Moved(i, k) == IF k > i THEN k - 1 ELSE k

LEMMA MovedIs ==
  ASSUME NEW S, NEW q \in Seq(S), NEW i \in 1..Len(q), NEW k \in 1..Len(q), k # i
  PROVE  /\ Moved(i, k) \in 1..(Len(q) - 1)
         /\ RemoveAt(q, i)[Moved(i, k)] = q[k]
<1>1. \A j \in 1..(Len(q) - 1) : RemoveAt(q, i)[j] = IF j < i THEN q[j] ELSE q[j + 1]
  BY RemoveAtIs
<1>2. CASE k < i  BY <1>1, <1>2 DEF Moved
<1>3. CASE k > i
  <2> DEFINE j == k - 1
  <2>1. j \in 1..(Len(q) - 1) /\ ~ (j < i) /\ j + 1 = k  BY <1>3
  <2> HIDE DEF j
  <2>2. RemoveAt(q, i)[j] = q[k]  BY <1>1, <2>1
  <2>3. Moved(i, k) = j  BY <1>3, <2>1 DEF Moved
  <2>4. QED  BY <2>1, <2>2, <2>3
<1>4. QED  BY <1>2, <1>3

LEMMA FocusedIs ==
  ASSUME NEW s, NEW k \in Nat, s.focused = {k}
  PROVE  FocusedIdx(s) = k
<1>1. Min({k}) \in {k}  BY MinIs
<1>2. QED  BY <1>1 DEF FocusedIdx

(* switchWindow: the focus is on the next window. *)
LEMMA SwitchWindowKeeps ==
  ASSUME NEW s, Sound(s), NWindows(s) # 1, NEW t, t = SwitchWindow(s),
         NEW i, i = FocusedIdx(s)
  PROVE  /\ Sound(t) /\ Live(t) = Live(s) /\ Record(t) /\ SameList(s, t)
         /\ t.windows = s.windows
         /\ \E j \in (1..NWindows(s)) \ {i} :
              t.focused = (s.focused \ {i}) \cup {j} /\ t.buf = s.windows[j]
<1> DEFINE j == (i % NWindows(s)) + 1
<1>1. /\ Record(t)
      /\ t.focused = (s.focused \ {i}) \cup {j} /\ t.buf = s.windows[j]
      /\ t.list = s.list /\ t.windows = s.windows /\ t.last = s.last /\ t.name = s.name
  <2>1. s \in State  BY DEF Sound
  <2>2. QED  BY <2>1 DEF SwitchWindow, State, Record
<1>2. j \in (1..NWindows(s)) \ {i}
  <2>1. NWindows(s) \in Nat /\ NWindows(s) > 1 /\ i \in 1..NWindows(s)  BY SoundIs
  <2>2. QED  BY <2>1, NextWindowIs
<1> HIDE DEF j
<1>3. SameList(s, t)  BY <1>1 DEF SameList
<1>4. /\ t.windows \in Seq(Address) /\ t.windows # <<>> /\ ToSet(t.windows) \subseteq Live(s)
      /\ t.focused # {} /\ t.focused \subseteq DOMAIN t.windows
  BY <1>1, <1>2, SoundIs DEF Sound
<1>5. t.buf \in Address  BY <1>1, <1>2, SoundIs
<1>6. Sound(t) /\ Live(t) = Live(s)  BY <1>1, <1>3, <1>4, <1>5, SameListKeeps
<1>7. QED  BY <1>1, <1>2, <1>3, <1>6

LEMMA WithoutWindowKeeps ==
  ASSUME NEW s, Sound(s), NEW i \in 1..NWindows(s), NEW o \in s.focused, o # i,
         NEW t, t = WithoutWindow(s, i)
  PROVE  /\ Sound(t) /\ Live(t) = Live(s) /\ SameList(s, t) /\ t.buf = s.buf
         /\ t.windows = RemoveAt(s.windows, i) /\ NWindows(t) = NWindows(s) - 1
         /\ \A k \in 1..NWindows(s) : k # i =>
              /\ Moved(i, k) \in 1..NWindows(t) /\ t.windows[Moved(i, k)] = s.windows[k]
         /\ t.focused = { Moved(i, j) : j \in s.focused \ {i} }
         /\ \A x \in ToSet(t.windows) : \E k \in 1..NWindows(s) : k # i /\ s.windows[k] = x
<1>1. /\ Record(t)
      /\ t.windows = RemoveAt(s.windows, i)
      /\ t.focused = { IF j > i THEN j - 1 ELSE j : j \in s.focused \ {i} }
      /\ t.list = s.list /\ t.buf = s.buf /\ t.last = s.last /\ t.name = s.name
  <2>1. s \in State  BY DEF Sound
  <2>2. QED  BY <2>1 DEF WithoutWindow, State, Record
<1>2. s.windows \in Seq(Address) /\ i \in 1..Len(s.windows)  BY SoundIs DEF NWindows
<1>3. t.windows \in Seq(Address) /\ Len(t.windows) = Len(s.windows) - 1
  BY <1>1, <1>2, RemoveAtIs
<1>0. /\ ToSet(t.windows) \subseteq ToSet(s.windows)
      /\ \A x \in ToSet(t.windows) : \E k \in 1..NWindows(s) : k # i /\ s.windows[k] = x
  <2> DEFINE q == s.windows
  <2>1. q \in Seq(Address) /\ i \in 1..Len(q)  BY <1>2
  <2> HIDE DEF q
  <2>2. /\ ToSet(RemoveAt(q, i)) \subseteq ToSet(q)
        /\ \A x \in ToSet(RemoveAt(q, i)) : \E k \in 1..Len(q) : k # i /\ q[k] = x
    BY <2>1, Removed
  <2>3. QED  BY <1>1, <2>2 DEF q, NWindows
<1>4. ToSet(t.windows) \subseteq Live(s)
  <2>1. ToSet(s.windows) \subseteq Live(s)  BY DEF Sound
  <2>2. QED  BY <1>0, <2>1
<1>5. \A k \in 1..NWindows(s) : k # i =>
        Moved(i, k) \in 1..NWindows(t) /\ t.windows[Moved(i, k)] = s.windows[k]
  BY <1>1, <1>2, <1>3, MovedIs DEF NWindows
<1>6. t.focused = { Moved(i, j) : j \in s.focused \ {i} }  BY <1>1 DEF Moved
<1>7. s.focused \subseteq 1..NWindows(s) /\ NWindows(s) \in Nat  BY SoundIs
<1>8. t.focused \subseteq 1..NWindows(t)  BY <1>5, <1>6, <1>7
<1>9. Moved(i, o) \in t.focused  BY <1>6
<1>10. Len(t.windows) >= 1 /\ t.windows # <<>> /\ DOMAIN t.windows = 1..NWindows(t)
  <2>1. Len(t.windows) \in Nat /\ DOMAIN t.windows = 1..Len(t.windows)  BY <1>3
  <2>2. Moved(i, o) \in 1..Len(t.windows)  BY <1>8, <1>9 DEF NWindows
  <2>3. Len(t.windows) >= 1  BY <2>1, <2>2
  <2>4. QED  BY <1>3, <2>1, <2>3, ElementsAre DEF NWindows
<1>11. t.buf \in Address \cup {Minibuf, Nil}  BY <1>1, StateIs DEF Sound
<1>12. SameList(s, t)  BY <1>1 DEF SameList
<1>13. t.focused \subseteq DOMAIN t.windows /\ t.focused # {}  BY <1>8, <1>9, <1>10
<1>14. Sound(t) /\ Live(t) = Live(s)
  BY <1>1, <1>3, <1>4, <1>10, <1>11, <1>12, <1>13, SameListKeeps
<1>15. NWindows(t) = NWindows(s) - 1  BY <1>3 DEF NWindows
<1>16. QED  BY <1>0, <1>1, <1>5, <1>6, <1>12, <1>14, <1>15

(* destroyWindow: one window less, and where the focus and E.buf are then. *)
LEMMA DestroyWindowKeeps ==
  ASSUME NEW s, Sound(s), NWindows(s) # 1, NEW i \in 1..NWindows(s),
         NEW t, t = DestroyWindow(s, i)
  PROVE  /\ Sound(t) /\ Live(t) = Live(s) /\ SameList(s, t) /\ NWindows(t) = NWindows(s) - 1
         /\ \A k \in 1..NWindows(s) : k # i =>
              Moved(i, k) \in 1..NWindows(t) /\ t.windows[Moved(i, k)] = s.windows[k]
         /\ \A x \in ToSet(t.windows) : \E k \in 1..NWindows(s) : k # i /\ s.windows[k] = x
         /\ t.buf # s.buf => t.buf \in ToSet(t.windows)
         /\ \A k \in 1..NWindows(s) : k # i /\ s.focused = {k} =>
              t.focused = {Moved(i, k)} /\ t.buf = s.buf
         /\ s.focused = {i} => \E j \in 1..NWindows(t) : t.focused = {j} /\ t.buf = t.windows[j]
<1> DEFINE u == IF i = FocusedIdx(s) THEN SwitchWindow(s) ELSE s
<1>1. t = WithoutWindow(u, i)  BY DEF DestroyWindow
<1>2. CASE i = FocusedIdx(s)
  <2>1. u = SwitchWindow(s)  BY <1>2
  <2> HIDE DEF u
  <2>2. PICK j \in (1..NWindows(s)) \ {i} :
          u.focused = (s.focused \ {i}) \cup {j} /\ u.buf = s.windows[j]
    BY <1>2, <2>1, SwitchWindowKeeps
  <2>3. /\ Sound(u) /\ Live(u) = Live(s) /\ SameList(s, u) /\ u.windows = s.windows
    BY <1>2, <2>1, SwitchWindowKeeps
  <2>4. NWindows(u) = NWindows(s) /\ j \in u.focused /\ j # i  BY <2>2, <2>3 DEF NWindows
  <2>5. /\ Sound(t) /\ Live(t) = Live(u) /\ SameList(u, t) /\ t.buf = u.buf
        /\ NWindows(t) = NWindows(u) - 1
        /\ \A k \in 1..NWindows(u) : k # i =>
             Moved(i, k) \in 1..NWindows(t) /\ t.windows[Moved(i, k)] = u.windows[k]
        /\ t.focused = { Moved(i, k) : k \in u.focused \ {i} }
        /\ \A x \in ToSet(t.windows) : \E k \in 1..NWindows(u) : k # i /\ u.windows[k] = x
    BY <1>1, <2>3, <2>4, WithoutWindowKeeps
  <2>6. SameList(s, t)  BY <2>3, <2>5 DEF SameList
  <2>7. Moved(i, j) \in 1..NWindows(t) /\ t.buf = t.windows[Moved(i, j)]
    BY <2>2, <2>3, <2>4, <2>5
  <2>8. t.buf \in ToSet(t.windows)  BY <2>5, <2>7, SoundIs
  <2>9. s.focused = {i} => t.focused = {Moved(i, j)}  BY <2>2, <2>5
  <2>10. \A k \in 1..NWindows(s) : k # i => s.focused # {k}
    <3>1. FocusedIdx(s) \in s.focused  BY SoundIs
    <3>2. QED  BY <1>2, <3>1
  <2>11. QED  BY <2>3, <2>4, <2>5, <2>6, <2>7, <2>8, <2>9, <2>10
<1>3. CASE i # FocusedIdx(s)
  <2>1. u = s  BY <1>3
  <2> HIDE DEF u
  <2>2. FocusedIdx(s) \in s.focused  BY SoundIs
  <2>3. /\ Sound(t) /\ Live(t) = Live(s) /\ SameList(s, t) /\ t.buf = s.buf
        /\ NWindows(t) = NWindows(s) - 1
        /\ \A k \in 1..NWindows(s) : k # i =>
             Moved(i, k) \in 1..NWindows(t) /\ t.windows[Moved(i, k)] = s.windows[k]
        /\ t.focused = { Moved(i, k) : k \in s.focused \ {i} }
        /\ \A x \in ToSet(t.windows) : \E k \in 1..NWindows(s) : k # i /\ s.windows[k] = x
    BY <1>1, <1>3, <2>1, <2>2, WithoutWindowKeeps
  <2>4. s.focused # {i}  BY <1>3, <2>2
  <2>5. \A k \in 1..NWindows(s) : k # i /\ s.focused = {k} => t.focused = {Moved(i, k)}
    BY <2>3
  <2>6. QED  BY <2>3, <2>4, <2>5
<1>4. QED  BY <1>2, <1>3

-----------------------------------------------------------------------------
(* Commands: no popup, one window focused, ... *)
Level(s) ==
  /\ Sound(s) /\ \A b \in Live(s) : s.name[b] \notin Popup
  /\ \E i \in 1..NWindows(s) : s.focused = {i}

(* The window that has the focus shows b, unless it is the first. *)
Fits(s, b) == \A i \in s.focused : i # 1 => s.windows[i] = b

(* ... and on the screen, in its place, the current buffer. *)
Steady(s) == Level(s) /\ s.buf \in ToSet(s.windows) /\ Fits(s, s.buf)

LEMMA ShowCurrentKeeps ==
  ASSUME NEW s, Level(s), NEW b \in Live(s), NEW t, t = ShowCurrent(s, b)
  PROVE  Steady(t) /\ Live(t) = Live(s) /\ SameList(s, t) /\ t.buf = b
<1> DEFINE i == FocusedIdx(s)
<1>1. Sound(s) /\ s \in State  BY SoundIs DEF Level
<1>2. /\ Record(t)
      /\ t.windows = [s.windows EXCEPT ![i] = b] /\ t.buf = b
      /\ t.list = s.list /\ t.focused = s.focused /\ t.last = s.last /\ t.name = s.name
  BY <1>1 DEF ShowCurrent, State, Record
<1>3. /\ s.windows \in Seq(Address) /\ s.windows # <<>> /\ i \in 1..NWindows(s)
      /\ \A k \in 1..NWindows(s) : s.windows[k] \in Live(s)
      /\ DOMAIN s.windows = 1..NWindows(s) /\ Live(s) \subseteq Address
  BY <1>1, SoundIs DEF Sound
<1> HIDE DEF i
<1>4. t.windows \in [DOMAIN s.windows -> Live(s)]  BY <1>2, <1>3
<1>5. /\ t.windows \in Seq(Live(s)) /\ Len(t.windows) = NWindows(s) /\ t.windows # <<>>
      /\ DOMAIN t.windows = 1..NWindows(s)
  BY <1>3, <1>4, FunctionIs DEF NWindows
<1>6. t.windows \in Seq(Address) /\ ToSet(t.windows) \subseteq Live(s)  BY <1>3, <1>5, ElementsAre
<1>7. SameList(s, t)  BY <1>2 DEF SameList
<1>8. t.focused # {} /\ t.focused \subseteq DOMAIN t.windows  BY <1>1, <1>2, <1>5, SoundIs
<1>9. t.buf \in Address  BY <1>2, <1>3
<1>10. Sound(t) /\ Live(t) = Live(s)
  BY <1>1, <1>2, <1>5, <1>6, <1>7, <1>8, <1>9, SameListKeeps
<1>11. b \in ToSet(t.windows)
  <2>1. t.windows[i] = b /\ i \in DOMAIN t.windows  BY <1>2, <1>3, <1>5
  <2>2. QED  BY <2>1 DEF ToSet
<1>12. Level(t)  BY <1>2, <1>5, <1>10 DEF Level, NWindows
<1>13. Fits(t, b)
  <2>1. PICK k \in 1..NWindows(s) : s.focused = {k}  BY DEF Level
  <2>2. i \in s.focused  BY <1>1, SoundIs DEF i
  <2>3. t.windows[i] = b /\ t.focused = {i}  BY <1>2, <1>3, <2>1, <2>2
  <2>4. QED  BY <2>3 DEF Fits
<1>14. QED  BY <1>2, <1>7, <1>10, <1>11, <1>12, <1>13 DEF Steady

LEMMA ShowFocusedKeeps ==
  ASSUME NEW s, Level(s), NEW b \in Live(s), NEW t, t = ShowFocused(s, b)
  PROVE  Steady(t) /\ Live(t) = Live(s) /\ SameList(s, t) /\ t.buf = b
<1>1. Sound(s) /\ s \in State  BY SoundIs DEF Level
<1>2. /\ Record(t)
      /\ t.windows = [k \in DOMAIN s.windows |-> IF k \in s.focused THEN b ELSE s.windows[k]]
      /\ t.buf = b
      /\ t.list = s.list /\ t.focused = s.focused /\ t.last = s.last /\ t.name = s.name
  BY <1>1 DEF ShowFocused, State, Record
<1>3. /\ s.windows \in Seq(Address) /\ s.windows # <<>>
      /\ \A k \in 1..NWindows(s) : s.windows[k] \in Live(s)
      /\ DOMAIN s.windows = 1..NWindows(s) /\ Live(s) \subseteq Address
  BY <1>1, SoundIs DEF Sound
<1>4. t.windows \in [DOMAIN s.windows -> Live(s)]  BY <1>2, <1>3
<1>5. /\ t.windows \in Seq(Live(s)) /\ Len(t.windows) = NWindows(s) /\ t.windows # <<>>
      /\ DOMAIN t.windows = 1..NWindows(s)
  BY <1>3, <1>4, FunctionIs DEF NWindows
<1>6. t.windows \in Seq(Address) /\ ToSet(t.windows) \subseteq Live(s)  BY <1>3, <1>5, ElementsAre
<1>7. SameList(s, t)  BY <1>2 DEF SameList
<1>8. t.focused # {} /\ t.focused \subseteq DOMAIN t.windows  BY <1>1, <1>2, <1>5, SoundIs
<1>9. t.buf \in Address  BY <1>2, <1>3
<1>10. Sound(t) /\ Live(t) = Live(s)
  BY <1>1, <1>2, <1>5, <1>6, <1>7, <1>8, <1>9, SameListKeeps
<1>11. b \in ToSet(t.windows)
  <2>1. PICK i \in 1..NWindows(s) : s.focused = {i}  BY DEF Level
  <2>2. t.windows[i] = b /\ i \in DOMAIN t.windows  BY <1>2, <1>3, <1>5, <2>1
  <2>3. QED  BY <2>2 DEF ToSet
<1>12. Level(t)  BY <1>2, <1>5, <1>10 DEF Level, NWindows
<1>13. Fits(t, b)  BY <1>1, <1>2, SoundIs DEF Fits
<1>14. QED  BY <1>2, <1>7, <1>10, <1>11, <1>12, <1>13 DEF Steady

LEMMA SteadyIs ==
  ASSUME NEW s, Steady(s)
  PROVE  Level(s) /\ Sound(s) /\ s.buf \in Live(s) /\ \A b \in Live(s) : s.name[b] \notin Popup
BY SoundIs DEF Steady, Level

LEMMA WindowsKeep ==
  ASSUME NEW s, Steady(s),
         NEW t \in {SwitchWindow(s), DestroyWindow(s, FocusedIdx(s)),
                    DestroyOtherWindows(s), CreateWindow(s)}
  PROVE  Steady(t) /\ Live(t) = Live(s) /\ SameList(s, t)
<1>1. /\ Sound(s) /\ s \in State /\ s.buf \in Live(s) /\ s.buf \in ToSet(s.windows)
      /\ Live(s) \subseteq Address /\ s.windows \in Seq(Address)
      /\ ToSet(s.windows) \subseteq Live(s)
      /\ \A k \in 1..NWindows(s) : s.windows[k] \in Live(s)
  BY SteadyIs, SoundIs DEF Steady
<1>2. PICK i \in 1..NWindows(s) : s.focused = {i}  BY DEF Steady, Level
<1>3. FocusedIdx(s) = i /\ NWindows(s) \in Nat
  <2>1. i \in Nat  BY <1>1, SoundIs
  <2>2. QED  BY <1>1, <1>2, <2>1, FocusedIs, SoundIs
<1>4. SameList(s, s)  BY DEF SameList
<1>5. ASSUME NEW j \in 1..NWindows(t), Sound(t), SameList(s, t), t.focused = {j},
             t.buf \in ToSet(t.windows), j # 1 => t.windows[j] = t.buf
      PROVE  Steady(t) /\ Live(t) = Live(s)
  <2>1. Live(t) = Live(s)  BY <1>5 DEF SameList, Live
  <2>2. Level(t)  BY <1>5, <2>1 DEF Steady, Level, SameList
  <2>3. QED  BY <1>5, <2>1, <2>2 DEF Steady, Fits
<1>6. CASE t = SwitchWindow(s) /\ NWindows(s) # 1
  <2>1. /\ Sound(t) /\ SameList(s, t) /\ t.windows = s.windows
        /\ \E j \in (1..NWindows(s)) \ {i} :
             t.focused = (s.focused \ {i}) \cup {j} /\ t.buf = s.windows[j]
    BY <1>1, <1>3, <1>6, SwitchWindowKeeps
  <2>2. PICK j \in (1..NWindows(s)) \ {i} : t.focused = {j} /\ t.buf = s.windows[j]
    BY <1>2, <2>1
  <2>3. j \in 1..NWindows(t)  BY <2>1 DEF NWindows
  <2>4. t.buf \in ToSet(t.windows)  BY <2>1, <2>2, <2>3, SoundIs
  <2>5. QED  BY <1>5, <2>1, <2>2, <2>3, <2>4
<1>7. CASE t = DestroyWindow(s, FocusedIdx(s)) /\ NWindows(s) # 1
  <2>1. /\ Sound(t) /\ SameList(s, t)
        /\ \E j \in 1..NWindows(t) : t.focused = {j} /\ t.buf = t.windows[j]
    <3>1. Sound(s) /\ NWindows(s) # 1 /\ t = DestroyWindow(s, i) /\ s.focused = {i}
      BY <1>1, <1>2, <1>3, <1>7
    <3>2. QED  BY <3>1, DestroyWindowKeeps
  <2>2. PICK j \in 1..NWindows(t) : t.focused = {j} /\ t.buf = t.windows[j]  BY <2>1
  <2>3. t.buf \in ToSet(t.windows)  BY <2>1, <2>2, SoundIs
  <2>4. QED  BY <1>5, <2>1, <2>2, <2>3
<1>8. CASE t = DestroyOtherWindows(s) /\ NWindows(s) # 1
  <2> DEFINE b == s.windows[FocusedIdx(s)]
  <2>1. /\ Record(t)
        /\ t.windows = <<b>> /\ t.focused = {1} /\ t.buf = b
        /\ t.list = s.list /\ t.last = s.last /\ t.name = s.name
    BY <1>1, <1>8 DEF DestroyOtherWindows, State, Record
  <2>2. b \in Live(s) /\ b \in Address  BY <1>1, <1>3
  <2> HIDE DEF b
  <2>3. /\ t.windows \in Seq(Address) /\ t.windows # <<>> /\ Len(t.windows) = 1
        /\ DOMAIN t.windows = {1} /\ t.windows[1] = b
    BY <2>1, <2>2
  <2>4. ToSet(t.windows) = {b}  BY <2>3 DEF ToSet
  <2>5. SameList(s, t)  BY <2>1 DEF SameList
  <2>6. Sound(t)  BY <1>1, <2>1, <2>2, <2>3, <2>4, <2>5, SameListKeeps
  <2>7. 1 \in 1..NWindows(t)  BY <2>3 DEF NWindows
  <2>8. Steady(t) /\ Live(t) = Live(s)  BY <1>5, <2>1, <2>4, <2>5, <2>6, <2>7
  <2>9. QED  BY <2>5, <2>8
<1>9. CASE t = CreateWindow(s)
  <2>1. /\ Record(t)
        /\ t.windows = Append(s.windows, s.buf)
        /\ t.list = s.list /\ t.focused = s.focused /\ t.buf = s.buf
        /\ t.last = s.last /\ t.name = s.name
    BY <1>1, <1>9 DEF CreateWindow, State, Record
  <2>2. s.buf \in Address  BY <1>1
  <2>3. /\ t.windows \in Seq(Address) /\ t.windows # <<>>
        /\ Len(t.windows) = Len(s.windows) + 1
        /\ ToSet(t.windows) = ToSet(s.windows) \cup {s.buf}
    <3>1. s.windows \in Seq(Address) /\ t.windows = Append(s.windows, s.buf)  BY <1>1, <2>1
    <3>2. QED  BY <2>2, <3>1, AppendIs
  <2>4. SameList(s, t)  BY <2>1 DEF SameList
  <2>5. i \in 1..NWindows(t) /\ DOMAIN t.windows = 1..NWindows(t)
    BY <1>3, <2>3 DEF NWindows
  <2>6. t.focused # {} /\ t.focused \subseteq DOMAIN t.windows  BY <1>2, <2>1, <2>5
  <2>7. Sound(t)  BY <1>1, <2>1, <2>2, <2>3, <2>4, <2>6, SameListKeeps
  <2>8. i # 1 => t.windows[i] = t.buf
    <3>1. i # 1 => s.windows[i] = s.buf  BY <1>2 DEF Steady, Fits
    <3>2. s.windows \in Seq(Address) /\ t.windows = Append(s.windows, s.buf)
          /\ i \in 1..Len(s.windows)
      BY <1>1, <2>1 DEF NWindows
    <3>3. t.windows[i] = s.windows[i]  BY <2>2, <3>2, AppendIs
    <3>4. QED  BY <2>1, <3>1, <3>3
  <2>9. Steady(t) /\ Live(t) = Live(s)  BY <1>2, <1>5, <2>1, <2>3, <2>4, <2>5, <2>7, <2>8
  <2>10. QED  BY <2>4, <2>9
<1>10. CASE NWindows(s) = 1 /\ t # CreateWindow(s)
  <2>1. t = s  BY <1>10 DEF SwitchWindow, DestroyWindow, DestroyOtherWindows
  <2>2. QED  BY <1>4, <2>1
<1>11. QED  BY <1>6, <1>7, <1>8, <1>9, <1>10

(* Another buffer current, while no prompt is open. *)
LEMMA BufSetKeeps ==
  ASSUME NEW s, Level(s), NEW b \in ToSet(s.windows), Fits(s, b),
         NEW t, t = [s EXCEPT !.buf = b]
  PROVE  Steady(t) /\ Live(t) = Live(s) /\ SameList(s, t) /\ t.buf = b /\ t.windows = s.windows
<1>1. Sound(s) /\ s \in State  BY SoundIs DEF Level
<1>2. /\ Record(t) /\ t.buf = b
      /\ t.list = s.list /\ t.windows = s.windows /\ t.focused = s.focused
      /\ t.last = s.last /\ t.name = s.name
  BY <1>1, BufSet
<1>3. SameList(s, t)  BY <1>2 DEF SameList
<1>4. b \in Address  BY <1>1, SoundIs
<1>5. /\ t.windows \in Seq(Address) /\ t.windows # <<>> /\ ToSet(t.windows) \subseteq Live(s)
      /\ t.focused # {} /\ t.focused \subseteq DOMAIN t.windows
  BY <1>1, <1>2, SoundIs DEF Sound
<1>6. Sound(t) /\ Live(t) = Live(s)  BY <1>1, <1>2, <1>3, <1>4, <1>5, SameListKeeps
<1>7. Level(t)  BY <1>2, <1>6 DEF Level, NWindows
<1>8. Fits(t, b)  BY <1>2 DEF Fits
<1>9. QED  BY <1>2, <1>3, <1>6, <1>7, <1>8 DEF Steady

(* newBuffer: one buffer more. *)
LEMMA WithNewKeeps ==
  ASSUME NEW s, Sound(s), NEW n \in Name, NEW r \in WithNew(s, n)
  PROVE  /\ Sound(r[1]) /\ r[2] \in Address \ Live(s)
         /\ Live(r[1]) = Live(s) \cup {r[2]} /\ r[1].name[r[2]] = n
         /\ \A b \in Live(s) : r[1].name[b] = s.name[b]
         /\ r[1].windows = s.windows /\ r[1].focused = s.focused
         /\ r[1].buf = s.buf /\ r[1].last = s.last
<1> DEFINE t == r[1]
           b == r[2]
<1>1. s \in State  BY DEF Sound
<1>2. /\ b \in Address \ Live(s) /\ t \in State
      /\ t.list = <<b>> \o s.list /\ t.name = [s.name EXCEPT ![b] = n]
      /\ t.windows = s.windows /\ t.focused = s.focused /\ t.buf = s.buf /\ t.last = s.last
  BY <1>1, WithNewIs
<1> HIDE DEF t, b
<1>3. /\ t.list # <<>> /\ ToSet(t.list) = ToSet(s.list) \cup {b} /\ IsInjective(t.list)
  <2>1. s.list \in Seq(Address) /\ IsInjective(s.list) /\ b \notin ToSet(s.list) /\ b \in Address
    BY <1>2, SoundIs DEF Sound, Live
  <2>2. t.list = <<b>> \o s.list  BY <1>2
  <2>3. QED  BY <2>1, <2>2, PrependIs
<1>4. Live(t) = Live(s) \cup {b}  BY <1>3 DEF Live
<1>5. s.name \in [Address -> Name \cup {Nil}] /\ Live(s) \subseteq Address
  BY <1>1, StateIs, SoundIs
<1>6. t.name[b] = n /\ \A c \in Live(s) : t.name[c] = s.name[c]  BY <1>2, <1>5
<1>7. Sound(t)  BY <1>2, <1>3, <1>4, <1>6 DEF Sound
<1>8. QED  BY <1>2, <1>4, <1>6, <1>7 DEF t, b

(* A buffer of that name, which was there or is new. *)
LEMMA WithNamedKeeps ==
  ASSUME NEW s, Level(s), NEW n \in Name \ Popup, NEW r \in WithNamed(s, n)
  PROVE  /\ Level(r[1]) /\ r[2] \in Live(r[1]) /\ Live(s) \subseteq Live(r[1])
         /\ \A b \in Live(s) : r[1].name[b] = s.name[b]
         /\ r[1].windows = s.windows /\ r[1].focused = s.focused /\ r[1].buf = s.buf
<1>1. CASE Named(s, n) # {}
  <2>1. r \in {s} \X Named(s, n)  BY <1>1 DEF WithNamed
  <2>2. r[1] = s /\ r[2] \in Live(s)  BY <2>1 DEF Named
  <2>3. QED  BY <2>2
<1>2. CASE Named(s, n) = {}
  <2>1. r \in WithNew(s, n) /\ Sound(s) /\ n \in Name /\ n \notin Popup  BY <1>2 DEF WithNamed, Level
  <2>2. /\ Sound(r[1])
        /\ Live(r[1]) = Live(s) \cup {r[2]} /\ r[1].name[r[2]] = n
        /\ \A b \in Live(s) : r[1].name[b] = s.name[b]
        /\ r[1].windows = s.windows /\ r[1].focused = s.focused /\ r[1].buf = s.buf
    BY <2>1, WithNewKeeps
  <2>3. Level(r[1])  BY <2>2 DEF Level, NWindows
  <2>4. QED  BY <2>2, <2>3
<1>3. QED  BY <1>1, <1>2

LEMMA SwitchToFileKeeps ==
  ASSUME NEW s, Steady(s), NEW n \in Name \ Popup, NEW t \in SwitchToFile(s, n)
  PROVE  /\ Steady(t) /\ Live(s) \subseteq Live(t)
         /\ \A b \in Live(s) : t.name[b] = s.name[b]
<1>1. CASE t = s  BY <1>1
<1>2. CASE t # s
  <2>1. PICK r \in WithNamed(s, n) : t = ShowCurrent(r[1], r[2])  BY <1>2 DEF SwitchToFile
  <2>2. /\ Level(r[1]) /\ r[2] \in Live(r[1]) /\ Live(s) \subseteq Live(r[1])
        /\ \A b \in Live(s) : r[1].name[b] = s.name[b]
    BY WithNamedKeeps DEF Steady
  <2>3. Steady(t) /\ Live(t) = Live(r[1]) /\ SameList(r[1], t)  BY <2>1, <2>2, ShowCurrentKeeps
  <2>4. QED  BY <2>2, <2>3 DEF SameList
<1>3. QED  BY <1>1, <1>2

(* Where it is on show, or in the current window. *)
LEMMA RouteKeeps ==
  ASSUME NEW s, Level(s), NEW b \in Live(s), NEW t, t = Route(s, b)
  PROVE  Steady(t) /\ Live(t) = Live(s) /\ SameList(s, t)
<1>1. /\ Sound(s) /\ s \in State /\ DOMAIN s.windows = 1..NWindows(s) /\ NWindows(s) \in Nat
  BY SoundIs DEF Level
<1>2. CASE Windows(s, b) = {}
  <2>1. t = ShowCurrent(s, b)  BY <1>2 DEF Route
  <2>2. QED  BY <2>1, ShowCurrentKeeps
<1>3. CASE Windows(s, b) # {}
  <2> DEFINE e == Min(Windows(s, b))
             i == FocusedIdx(s)
  <2>1. e \in 1..NWindows(s) /\ s.windows[e] = b
    <3>1. Windows(s, b) \subseteq 1..NWindows(s)  BY <1>1 DEF Windows
    <3>2. e \in Windows(s, b)  BY <1>1, <1>3, <3>1, MinIs
    <3>3. QED  BY <1>1, <3>2 DEF Windows
  <2>2. s.focused = {i}
    <3>1. PICK k \in 1..NWindows(s) : s.focused = {k}  BY DEF Level
    <3>2. k \in Nat  BY <1>1
    <3>3. QED  BY <3>1, <3>2, FocusedIs
  <2>3. t = [s EXCEPT !.buf = b, !.focused = IF e = i THEN @ ELSE (@ \ {i}) \cup {e}]
    BY <1>3 DEF Route
  <2> HIDE DEF e, i
  <2>4. /\ Record(t) /\ t.buf = b
        /\ t.list = s.list /\ t.windows = s.windows /\ t.last = s.last /\ t.name = s.name
    BY <1>1, <2>3 DEF State, Record
  <2>5. t.focused = {e}
    <3>1. t.focused = IF e = i THEN s.focused ELSE (s.focused \ {i}) \cup {e}
      BY <1>1, <2>3 DEF State
    <3>2. QED  BY <2>2, <3>1
  <2>6. SameList(s, t)  BY <2>4 DEF SameList
  <2>7. /\ t.windows \in Seq(Address) /\ t.windows # <<>> /\ ToSet(t.windows) \subseteq Live(s)
        /\ t.focused # {} /\ t.focused \subseteq DOMAIN t.windows /\ b \in Address
    BY <1>1, <2>1, <2>4, <2>5, SoundIs DEF Sound
  <2>8. Sound(t) /\ Live(t) = Live(s)  BY <1>1, <2>4, <2>6, <2>7, SameListKeeps
  <2>9. e \in 1..NWindows(t) /\ t.windows[e] = b  BY <2>1, <2>4 DEF NWindows
  <2>10. Level(t)  BY <2>4, <2>5, <2>8, <2>9 DEF Level
  <2>11. b \in ToSet(t.windows)  BY <2>8, <2>9, SoundIs
  <2>12. Fits(t, b)  BY <2>5, <2>9 DEF Fits
  <2>13. QED  BY <2>4, <2>6, <2>8, <2>10, <2>11, <2>12 DEF Steady
<1>4. QED  BY <1>2, <1>3

(* killBuffer: every window that showed the buffer shows its successor. *)
LEMMA KillKeeps ==
  ASSUME NEW s, Steady(s), NEW c,
         c # Nil => c \in Live(s) \ {s.buf},
         c = Nil => Len(s.list) > 1,
         NEW t, t = Kill(s, c)
  PROVE  /\ Steady(t) /\ Live(t) = Live(s) \ {s.buf}
         /\ \A a \in Live(t) : t.name[a] = s.name[a]
<1> DEFINE b    == s.buf
           next == NextInList(s, b)
           to   == IF c # Nil THEN c ELSE IF next # Nil THEN next ELSE s.list[1]
           w    == [s EXCEPT !.windows = [i \in DOMAIN @ |-> IF @[i] = b THEN to ELSE @[i]],
                             !.buf = IF Windows(s, b) # {} THEN to ELSE @]
           v    == [i \in DOMAIN s.windows |-> IF s.windows[i] = b THEN to ELSE s.windows[i]]
           d    == Destroy(w, b)
           p    == PrevInList(s, b)
<1>1. t = [d EXCEPT !.buf = IF @ = b THEN (IF next # Nil THEN next ELSE p) ELSE @]
  BY DEF Kill
<1>2. /\ Sound(s) /\ s \in State /\ b \in Live(s) /\ b \in Address
      /\ DOMAIN s.windows = 1..NWindows(s) /\ NWindows(s) \in Nat
      /\ s.windows \in Seq(Address) /\ s.windows # <<>>
      /\ Live(s) \subseteq Address
      /\ \A k \in 1..NWindows(s) : s.windows[k] \in Live(s)
      /\ s.focused # {} /\ s.focused \subseteq DOMAIN s.windows
  BY SteadyIs, SoundIs DEF Sound
<1>3. to \in Live(s) \ {b}
  <2>1. CASE c # Nil  BY <2>1
  <2>2. CASE c = Nil
    <3>1. Len(s.list) > 1 /\ s.list[1] \in Live(s)  BY <1>2, <2>2, NeighboursAre
    <3>2. (next # Nil => next \in Live(s) \ {b}) /\ (next = Nil => s.list[1] # b)
      BY <1>2, <3>1, NeighboursAre
    <3>3. QED  BY <2>2, <3>1, <3>2
  <2>3. QED  BY <2>1, <2>2
<1>4. PICK k \in 1..NWindows(s) : s.windows[k] = b  BY <1>2, ElementsAre DEF Steady, NWindows
<1>5. Windows(s, b) # {}  BY <1>2, <1>4 DEF Windows
<1> HIDE DEF b, next, to, p
<1>6. /\ Record(w) /\ w.windows = v /\ w.buf = to
      /\ w.list = s.list /\ w.focused = s.focused /\ w.last = s.last /\ w.name = s.name
  <2>1. w = [s EXCEPT !.windows = v, !.buf = to]  BY <1>5
  <2> HIDE DEF v, w
  <2>2. QED  BY <1>2, <2>1 DEF State, Record
<1> HIDE DEF w
<1>7. w.windows \in [DOMAIN s.windows -> Live(s) \ {b}]  BY <1>2, <1>3, <1>6
<1>8. /\ w.windows \in Seq(Live(s) \ {b}) /\ Len(w.windows) = NWindows(s) /\ w.windows # <<>>
      /\ DOMAIN w.windows = 1..NWindows(s)
  BY <1>2, <1>7, FunctionIs DEF NWindows
<1>9. ToSet(w.windows) \subseteq Live(s) \ {b}  BY <1>8, ElementsAre
<1>10. w.windows \in Seq(Address)  BY <1>2, <1>8
<1>11. SameList(s, w)  BY <1>6 DEF SameList
<1>12. Sound(w) /\ Live(w) = Live(s)
  <2>1. w.focused # {} /\ w.focused \subseteq DOMAIN w.windows  BY <1>2, <1>6, <1>8
  <2>2. w.buf \in Address  BY <1>2, <1>3, <1>6
  <2>3. QED  BY <1>2, <1>6, <1>8, <1>9, <1>10, <1>11, <2>1, <2>2, SameListKeeps
<1>13. /\ Sound(d) /\ Live(d) = Live(s) \ {b}
       /\ \A a \in Live(d) : d.name[a] = s.name[a]
       /\ d.windows = w.windows /\ d.focused = s.focused /\ d.buf = to
  <2>1. b \in Live(w) /\ b \notin ToSet(w.windows)  BY <1>2, <1>9, <1>12
  <2>2. /\ Sound(d) /\ Live(d) = Live(w) \ {b}
        /\ \A a \in Live(d) : d.name[a] = w.name[a]
        /\ d.windows = w.windows /\ d.focused = w.focused /\ d.buf = w.buf
    BY <1>12, <2>1, DestroyKeeps
  <2>3. QED  BY <1>6, <1>12, <2>2
<1> HIDE DEF d
<1>14. Level(d)
  <2>1. \A a \in Live(d) : d.name[a] \notin Popup  BY <1>13, SteadyIs
  <2>2. PICK i \in 1..NWindows(s) : s.focused = {i}  BY DEF Steady, Level
  <2>3. i \in 1..NWindows(d) /\ d.focused = {i}  BY <1>8, <1>13, <2>2 DEF NWindows
  <2>4. QED  BY <1>13, <2>1, <2>3 DEF Level
<1>15. d.buf \in ToSet(d.windows)
  <2>1. w.windows[k] = to /\ k \in DOMAIN w.windows  BY <1>2, <1>4, <1>6, <1>8
  <2>2. QED  BY <1>13, <2>1 DEF ToSet
<1>16. t = [d EXCEPT !.buf = to]  BY <1>1, <1>3, <1>13
<1>17. Steady(t) /\ Live(t) = Live(d) /\ SameList(d, t)
  <2>1. to \in ToSet(d.windows)  BY <1>13, <1>15
  <2>2. Fits(d, to)
    <3>1. SUFFICES ASSUME NEW i \in s.focused, i # 1  PROVE w.windows[i] = to  BY <1>13 DEF Fits
    <3>2. s.windows[i] = b /\ i \in DOMAIN s.windows  BY <1>2, <3>1 DEF Steady, Fits, b
    <3>3. QED  BY <1>6, <3>2
  <2>3. QED  BY <1>14, <1>16, <2>1, <2>2, BufSetKeeps
<1>18. QED  BY <1>13, <1>17 DEF SameList, b

-----------------------------------------------------------------------------
(* Popups *)

(* A name of a popup is one buffer's, and one window's. *)
Once(s) ==
  /\ \A b, c \in Live(s) : s.name[b] \in Popup /\ s.name[b] = s.name[c] => b = c
  /\ \A i, j \in 1..NWindows(s) :
       s.windows[i] = s.windows[j] /\ s.name[s.windows[i]] \in Popup => i = j

Focus(s) == \E i \in 1..NWindows(s) : s.focused = {i} /\ s.name[s.windows[i]] \notin Popup

(* A buffer that stays, on the screen. *)
Shows(s, b) == b \in ToSet(s.windows) /\ s.name[b] \notin Popup

LEMMA LevelIs ==
  ASSUME NEW s, Sound(s)
  PROVE  Level(s) <=> /\ Once(s) /\ Focus(s)
                      /\ \A b \in Live(s) : s.name[b] \notin Popup
<1>1. \A i \in 1..NWindows(s) : s.windows[i] \in Live(s)  BY SoundIs
<1>2. QED  BY <1>1 DEF Level, Once, Focus

(* closeSpecialBuffer: the popup goes, and its window; the others stay.     *)
LEMMA CloseSpecialKeeps ==
  ASSUME NEW s, Sound(s), Once(s), NEW n \in Popup,
         NEW k \in 1..NWindows(s), s.name[s.windows[k]] # n,
         NEW t, t = CloseSpecial(s, n)
  PROVE  /\ Sound(t) /\ Once(t)
         /\ Live(t) = { b \in Live(s) : s.name[b] # n }
         /\ \A b \in Live(t) : t.name[b] = s.name[b]
         /\ \A b \in ToSet(s.windows) : s.name[b] # n => b \in ToSet(t.windows)
         /\ Focus(s) => Focus(t) /\ \A c : Fits(s, c) => Fits(t, c)
         /\ Focus(s) /\ (s.buf \in Live(s) => s.name[s.buf] # n) => t.buf = s.buf
         /\ s.windows[k] \in Live(t)
         /\ (\A i \in 1..NWindows(s) : s.name[s.windows[i]] = n => i = NWindows(s)) =>
              k \in 1..NWindows(t) /\ t.windows[k] = s.windows[k]
<1>0. /\ \A i \in 1..NWindows(s) : s.windows[i] \in Live(s) /\ s.windows[i] \in ToSet(s.windows)
      /\ DOMAIN s.windows = 1..NWindows(s) /\ NWindows(s) \in Nat
      /\ s.windows \in Seq(Address)
  BY SoundIs
<1>1. CASE Named(s, n) = {}
  <2>1. t = s  BY <1>1 DEF CloseSpecial
  <2>2. \A b \in Live(s) : s.name[b] # n  BY <1>1 DEF Named
  <2>3. QED  BY <1>0, <2>1, <2>2, SoundIs
<1>2. CASE Named(s, n) # {}
  <2> DEFINE b == CHOOSE b \in Named(s, n) : TRUE
             w == IF Windows(s, b) = {} THEN s ELSE DestroyWindow(s, Min(Windows(s, b)))
             d == Destroy(w, b)
             o == IF NextInList(s, b) # Nil THEN NextInList(s, b)
                  ELSE IF d.list # <<>> THEN d.list[1] ELSE Nil
  <2>1. t = IF w.buf = b THEN [d EXCEPT !.buf = o] ELSE d  BY <1>2 DEF CloseSpecial
  <2>2. b \in Named(s, n)  BY <1>2
  <2> HIDE DEF b
  <2>3. b \in Live(s) /\ s.name[b] = n /\ \A c \in Live(s) : s.name[c] = n => c = b
    BY <2>2 DEF Named, Once
  <2>4. \A i, j \in 1..NWindows(s) : s.windows[i] = b /\ s.windows[j] = b => i = j
    BY <1>0, <2>3 DEF Once
  <2>5. /\ Sound(w) /\ SameList(s, w) /\ Live(w) = Live(s)
        /\ \A c \in ToSet(w.windows) : c # b /\ c \in ToSet(s.windows)
        /\ \A c \in ToSet(s.windows) : c # b => c \in ToSet(w.windows)
        /\ Focus(s) => Focus(w) /\ w.buf = s.buf /\ \A c : Fits(s, c) => Fits(w, c)
        /\ \A i, j \in 1..NWindows(w) :
             w.windows[i] = w.windows[j] /\ s.name[w.windows[i]] \in Popup => i = j
        /\ (\A i \in 1..NWindows(s) : s.name[s.windows[i]] = n => i = NWindows(s)) =>
              k \in 1..NWindows(w) /\ w.windows[k] = s.windows[k]
    <3>1. CASE Windows(s, b) = {}
      <4>1. w = s  BY <3>1
      <4>2. b \notin ToSet(s.windows)  BY <1>0, <3>1 DEF Windows, ToSet
      <4>3. SameList(s, s)  BY DEF SameList
      <4> HIDE DEF w
      <4>4. QED  BY <1>0, <4>1, <4>2, <4>3, SoundIs DEF Once
    <3>2. CASE Windows(s, b) # {}
      <4> DEFINE m == Min(Windows(s, b))
      <4>1. m \in 1..NWindows(s) /\ s.windows[m] = b
        <5>1. Windows(s, b) \subseteq 1..NWindows(s) /\ Windows(s, b) \subseteq Nat
          BY <1>0 DEF Windows
        <5>2. m \in Windows(s, b)  BY <3>2, <5>1, MinIs
        <5>3. QED  BY <1>0, <5>2 DEF Windows
      <4>2. w = DestroyWindow(s, m)  BY <3>2
      <4> HIDE DEF m, w
      <4>3. k # m /\ NWindows(s) # 1  BY <1>0, <2>3, <4>1
      <4>4. /\ Sound(w) /\ Live(w) = Live(s) /\ SameList(s, w) /\ NWindows(w) = NWindows(s) - 1
            /\ \A j \in 1..NWindows(s) : j # m =>
                 Moved(m, j) \in 1..NWindows(w) /\ w.windows[Moved(m, j)] = s.windows[j]
            /\ \A x \in ToSet(w.windows) : \E j \in 1..NWindows(s) : j # m /\ s.windows[j] = x
        <5>1. Sound(s) /\ NWindows(s) # 1 /\ m \in 1..NWindows(s) /\ w = DestroyWindow(s, m)
          BY <4>1, <4>2, <4>3
        <5>2. QED  BY <5>1, DestroyWindowKeeps
      <4>4a. ASSUME NEW j \in 1..NWindows(s), j # m, s.focused = {j}
             PROVE  w.focused = {Moved(m, j)} /\ w.buf = s.buf
        <5>1. Sound(s) /\ NWindows(s) # 1 /\ m \in 1..NWindows(s) /\ w = DestroyWindow(s, m)
          BY <4>1, <4>2, <4>3
        <5>2. QED  BY <4>4a, <5>1, DestroyWindowKeeps
      <4>5. \A c \in ToSet(w.windows) : c # b /\ c \in ToSet(s.windows)
        BY <1>0, <2>4, <4>1, <4>4
      <4>6. ASSUME NEW c \in ToSet(s.windows), c # b  PROVE c \in ToSet(w.windows)
        <5>1. PICK j \in 1..NWindows(s) : s.windows[j] = c  BY <1>0 DEF ToSet
        <5>2. Moved(m, j) \in 1..NWindows(w) /\ w.windows[Moved(m, j)] = c  BY <4>1, <4>4, <4>6, <5>1
        <5>3. QED  BY <4>4, <5>2, SoundIs
      <4>7. ASSUME Focus(s)
            PROVE  Focus(w) /\ w.buf = s.buf /\ \A c : Fits(s, c) => Fits(w, c)
        <5>1. PICK j \in 1..NWindows(s) : s.focused = {j} /\ s.name[s.windows[j]] \notin Popup
          BY <4>7 DEF Focus
        <5>2. j # m  BY <2>3, <4>1, <5>1
        <5>3. /\ Moved(m, j) \in 1..NWindows(w) /\ w.windows[Moved(m, j)] = s.windows[j]
              /\ w.focused = {Moved(m, j)} /\ w.buf = s.buf
          BY <4>4, <4>4a, <5>1, <5>2
        <5>4. w.name = s.name  BY <4>4 DEF SameList
        <5>5. Focus(w)  BY <5>1, <5>3, <5>4 DEF Focus
        <5>6. ASSUME NEW c, Fits(s, c)  PROVE Fits(w, c)
          <6>1. j # 1 => s.windows[j] = c  BY <5>1, <5>6 DEF Fits
          <6>2. j = 1 => Moved(m, j) = 1  BY <1>0, <4>1, <5>2 DEF Moved
          <6>3. QED  BY <5>3, <6>1, <6>2 DEF Fits
        <5>7. QED  BY <5>3, <5>5, <5>6
      <4>8. ASSUME NEW i \in 1..NWindows(w), NEW j \in 1..NWindows(w),
                   w.windows[i] = w.windows[j], s.name[w.windows[i]] \in Popup
            PROVE  i = j
        <5> DEFINE back(a) == IF a < m THEN a ELSE a + 1
        <5>1. ASSUME NEW a \in 1..NWindows(w)
              PROVE  back(a) \in 1..NWindows(s) /\ w.windows[a] = s.windows[back(a)]
          <6>1. back(a) \in 1..NWindows(s) /\ back(a) # m /\ Moved(m, back(a)) = a
            BY <1>0, <4>1, <4>4 DEF Moved
          <6> HIDE DEF back
          <6>2. QED  BY <4>4, <6>1
        <5>2. back(i) = back(j)  BY <4>8, <5>1 DEF Once
        <5>3. QED  BY <1>0, <4>1, <4>4, <5>2
      <4>9. ASSUME \A i \in 1..NWindows(s) : s.name[s.windows[i]] = n => i = NWindows(s)
            PROVE  k \in 1..NWindows(w) /\ w.windows[k] = s.windows[k]
        <5>1. m = NWindows(s)  BY <2>3, <4>1, <4>9
        <5>2. Moved(m, k) = k  BY <1>0, <4>3, <5>1 DEF Moved
        <5>3. QED  BY <4>3, <4>4, <5>2
      <4>10. QED  BY <4>4, <4>5, <4>6, <4>7, <4>8, <4>9
    <3>3. QED  BY <3>1, <3>2
  <2> HIDE DEF w
  <2>6. /\ Sound(d) /\ Live(d) = Live(s) \ {b}
        /\ \A c \in Live(d) : d.name[c] = s.name[c]
        /\ d.windows = w.windows /\ d.focused = w.focused /\ d.buf = w.buf
    <3>1. b \in Live(w) /\ b \notin ToSet(w.windows)  BY <2>3, <2>5
    <3>2. /\ Sound(d) /\ Live(d) = Live(w) \ {b}
          /\ \A c \in Live(d) : d.name[c] = w.name[c]
          /\ d.windows = w.windows /\ d.focused = w.focused /\ d.buf = w.buf
      BY <2>5, <3>1, DestroyKeeps
    <3>3. QED  BY <2>5, <3>2 DEF SameList
  <2>7. o \in Live(d)
    <3>1. NextInList(s, b) # Nil => NextInList(s, b) \in Live(s) \ {b}  BY <2>3, NeighboursAre
    <3>2. d.list # <<>> /\ d.list[1] \in Live(d)
      <4>1. d.list # <<>> /\ d.list \in Seq(Address)  BY <2>6, SoundIs DEF Sound
      <4>2. 1 \in DOMAIN d.list  BY <4>1
      <4>3. QED  BY <4>1, <4>2 DEF Live, ToSet
    <3>3. QED  BY <2>6, <3>1, <3>2
  <2> HIDE DEF d, o
  <2>8. /\ Record(t) /\ SameList(d, t) /\ t.windows = d.windows /\ t.focused = d.focused
        /\ t.buf = IF w.buf = b THEN o ELSE d.buf
    <3>1. d \in State  BY <2>6 DEF Sound
    <3>2. CASE w.buf = b
      <4>1. t = [d EXCEPT !.buf = o]  BY <2>1, <3>2
      <4>2. Record(t) /\ t.buf = o /\ t.list = d.list /\ t.windows = d.windows
            /\ t.focused = d.focused /\ t.last = d.last /\ t.name = d.name
        BY <3>1, <4>1, BufSet
      <4>3. QED  BY <3>2, <4>2 DEF SameList
    <3>3. CASE w.buf # b
      <4>1. t = d  BY <2>1, <3>3
      <4>2. QED  BY <3>1, <3>3, <4>1, StateIs DEF SameList
    <3>4. QED  BY <3>2, <3>3
  <2>9. Sound(t) /\ Live(t) = Live(d)
    <3>1. /\ t.windows \in Seq(Address) /\ t.windows # <<>> /\ ToSet(t.windows) \subseteq Live(d)
          /\ t.focused # {} /\ t.focused \subseteq DOMAIN t.windows
      BY <2>6, <2>8, SoundIs DEF Sound
    <3>2. t.buf \in Address \cup {Minibuf, Nil}
      <4>1. d.buf \in Address \cup {Minibuf, Nil} /\ Live(d) \subseteq Address
        BY <2>6, SoundIs, StateIs
      <4>2. QED  BY <2>7, <2>8, <4>1
    <3>3. QED  BY <2>6, <2>8, <3>1, <3>2, SameListKeeps
  <2>10. /\ Live(t) = { c \in Live(s) : s.name[c] # n }
         /\ \A c \in Live(t) : t.name[c] = s.name[c]
    BY <2>3, <2>6, <2>8, <2>9 DEF SameList
  <2>11. t.windows = w.windows /\ t.focused = w.focused /\ NWindows(t) = NWindows(w)
    BY <2>6, <2>8 DEF NWindows
  <2>12. \A i \in 1..NWindows(t) : t.windows[i] \in Live(t)  BY <2>9, SoundIs
  <2>13. Once(t)  BY <2>5, <2>10, <2>11, <2>12 DEF Once
  <2>14. \A c \in ToSet(s.windows) : s.name[c] # n => c \in ToSet(t.windows)
    BY <2>3, <2>5, <2>11
  <2>15. Focus(s) => Focus(t) /\ \A c : Fits(s, c) => Fits(t, c)
    <3>1. Focus(s) => Focus(t)  BY <2>5, <2>10, <2>11, <2>12 DEF Focus, SameList
    <3>2. \A c : Fits(w, c) => Fits(t, c)  BY <2>11 DEF Fits
    <3>3. QED  BY <2>5, <3>1, <3>2
  <2>16. Focus(s) /\ (s.buf \in Live(s) => s.name[s.buf] # n) => t.buf = s.buf
    BY <2>3, <2>5, <2>6, <2>8
  <2>17. s.windows[k] \in Live(t)  BY <1>0, <2>10
  <2>18. QED  BY <2>5, <2>9, <2>10, <2>11, <2>13, <2>14, <2>15, <2>16, <2>17
<1>3. QED  BY <1>1, <1>2

(* showPopupBuffer of a buffer that no window shows: one window more.       *)
LEMMA ShowPopupKeeps ==
  ASSUME NEW s, Sound(s), NEW b \in Live(s), Windows(s, b) = {},
         NEW t, t = ShowPopup(s, b)
  PROVE  /\ Sound(t) /\ Live(t) = Live(s) /\ SameList(s, t) /\ t.buf = s.buf
         /\ NWindows(t) = NWindows(s) + 1 /\ t.focused = {1}
         /\ \A i \in 1..NWindows(s) : t.windows[i] = s.windows[i]
         /\ t.windows[NWindows(s) + 1] = b
         /\ ToSet(t.windows) = ToSet(s.windows) \cup {b}
<1>1. /\ s \in State /\ s.windows \in Seq(Address) /\ b \in Address
      /\ ToSet(s.windows) \subseteq Live(s) /\ NWindows(s) \in Nat
  BY SoundIs
<1>2. /\ Record(t)
      /\ t.windows = Append(s.windows, b) /\ t.focused = {1}
      /\ t.list = s.list /\ t.buf = s.buf /\ t.last = s.last /\ t.name = s.name
  BY <1>1 DEF ShowPopup, State, Record
<1>3. /\ t.windows \in Seq(Address) /\ t.windows # <<>>
      /\ Len(t.windows) = Len(s.windows) + 1
      /\ \A i \in 1..Len(s.windows) : t.windows[i] = s.windows[i]
      /\ t.windows[Len(s.windows) + 1] = b
      /\ ToSet(t.windows) = ToSet(s.windows) \cup {b}
  <2>1. s.windows \in Seq(Address) /\ b \in Address /\ t.windows = Append(s.windows, b)
    BY <1>1, <1>2
  <2>2. QED  BY <2>1, AppendIs
<1>4. SameList(s, t)  BY <1>2 DEF SameList
<1>5. NWindows(t) = NWindows(s) + 1  BY <1>3 DEF NWindows
<1>6. t.focused # {} /\ t.focused \subseteq DOMAIN t.windows
  <2>1. DOMAIN t.windows = 1..NWindows(t)  BY <1>3 DEF NWindows
  <2>2. QED  BY <1>1, <1>2, <1>5, <2>1
<1>7. t.buf \in Address \cup {Minibuf, Nil}  BY <1>1, <1>2, StateIs
<1>8. Sound(t) /\ Live(t) = Live(s)
  <2>1. ToSet(t.windows) \subseteq Live(s)  BY <1>1, <1>3
  <2>2. QED  BY <1>2, <1>3, <1>4, <1>6, <1>7, <2>1, SameListKeeps
<1>9. QED  BY <1>2, <1>3, <1>4, <1>5, <1>8 DEF NWindows

(* A popup on show, and no other. *)
LEMMA PoppedKeeps ==
  ASSUME NEW s, Sound(s), Once(s), Focus(s), NEW n \in Popup,
         \A b \in Live(s) : s.name[b] \in Popup => s.name[b] = n,
         NEW t \in Popped(s, n)
  PROVE  /\ Sound(t) /\ Once(t) /\ Focus(t)
         /\ \A b \in Live(t) : t.name[b] \in Popup => t.name[b] = n
         /\ Live(s) \subseteq Live(t) /\ \A b \in Live(s) : t.name[b] = s.name[b]
         /\ t.buf = s.buf /\ ToSet(s.windows) \subseteq ToSet(t.windows)
         /\ \A c : Fits(s, c) => Fits(t, c)
<1>1. PICK r \in WithNamed(s, n) : t = ShowPopup(r[1], r[2])  BY DEF Popped
<1> DEFINE u == r[1]
           b == r[2]
<1>2. n \in Name  BY DEF Name, Special
<1>3. /\ Sound(u) /\ b \in Live(u) /\ u.name[b] = n
      /\ \A c \in Live(u) : u.name[c] \in Popup => c = b
      /\ Live(s) \subseteq Live(u) /\ \A c \in Live(s) : u.name[c] = s.name[c]
      /\ u.windows = s.windows /\ u.focused = s.focused /\ u.buf = s.buf
  <2>1. CASE Named(s, n) # {}
    <3>1. r \in {s} \X Named(s, n)  BY <2>1 DEF WithNamed
    <3>2. u = s /\ b \in Live(s) /\ s.name[b] = n  BY <3>1 DEF Named
    <3> HIDE DEF u, b
    <3>3. QED  BY <3>2 DEF Once
  <2>2. CASE Named(s, n) = {}
    <3>1. r \in WithNew(s, n)  BY <2>2 DEF WithNamed
    <3>2. \A c \in Live(s) : s.name[c] \notin Popup  BY <2>2 DEF Named
    <3>3. /\ Sound(u) /\ Live(u) = Live(s) \cup {b} /\ u.name[b] = n
          /\ \A c \in Live(s) : u.name[c] = s.name[c]
          /\ u.windows = s.windows /\ u.focused = s.focused /\ u.buf = s.buf
      BY <1>2, <3>1, WithNewKeeps
    <3> HIDE DEF u, b
    <3>4. QED  BY <3>2, <3>3
  <2>3. QED  BY <2>1, <2>2
<1> HIDE DEF u, b
<1>4. t = ShowPopup(u, b)  BY <1>1 DEF u, b
<1>5. \A c \in Live(u) : u.name[c] \in Popup => u.name[c] = n  BY <1>3
<1>6. /\ \A i \in 1..NWindows(u) : u.windows[i] \in Live(u)
      /\ DOMAIN u.windows = 1..NWindows(u) /\ NWindows(u) \in Nat /\ NWindows(u) >= 1
      /\ \A i \in 1..NWindows(s) : s.windows[i] \in Live(s)
      /\ NWindows(u) = NWindows(s)
  BY <1>3, SoundIs DEF NWindows
<1>7. CASE Windows(u, b) # {}
  <2>1. t = u  BY <1>4, <1>7 DEF ShowPopup
  <2>2. Once(u)  BY <1>3, <1>6 DEF Once
  <2>3. Focus(u)
    <3>1. PICK i \in 1..NWindows(s) : s.focused = {i} /\ s.name[s.windows[i]] \notin Popup
      BY DEF Focus
    <3>2. i \in 1..NWindows(u) /\ u.focused = {i} /\ u.name[u.windows[i]] \notin Popup
      BY <1>3, <1>6, <3>1
    <3>3. QED  BY <3>2 DEF Focus
  <2>4. \A c : Fits(s, c) => Fits(u, c)  BY <1>3 DEF Fits
  <2>5. QED  BY <1>3, <1>5, <2>1, <2>2, <2>3, <2>4
<1>8. CASE Windows(u, b) = {}
  <2>1. /\ Sound(t) /\ Live(t) = Live(u) /\ SameList(u, t) /\ t.buf = u.buf
        /\ NWindows(t) = NWindows(u) + 1 /\ t.focused = {1}
        /\ \A i \in 1..NWindows(u) : t.windows[i] = u.windows[i]
        /\ t.windows[NWindows(u) + 1] = b
        /\ ToSet(t.windows) = ToSet(u.windows) \cup {b}
    BY <1>3, <1>4, <1>8, ShowPopupKeeps
  <2>2. t.name = u.name  BY <2>1 DEF SameList
  <2>3. \A i \in 1..NWindows(u) : t.windows[i] # b /\ t.name[t.windows[i]] \notin Popup
    <3>1. \A i \in 1..NWindows(u) : u.windows[i] # b  BY <1>6, <1>8 DEF Windows
    <3>2. QED  BY <1>3, <1>6, <2>1, <2>2, <3>1
  <2>4. \A i \in 1..NWindows(t) : t.name[t.windows[i]] \in Popup => i = NWindows(u) + 1
    BY <1>6, <2>1, <2>3
  <2>5. Once(t)  BY <1>3, <2>1, <2>2, <2>4 DEF Once
  <2>6. Focus(t)
    <3>1. 1 \in 1..NWindows(t) /\ 1 \in 1..NWindows(u)  BY <1>6, <2>1
    <3>2. QED  BY <2>1, <2>3, <3>1 DEF Focus
  <2>7. \A c : Fits(t, c)  BY <2>1 DEF Fits
  <2>8. QED  BY <1>3, <1>5, <2>1, <2>2, <2>5, <2>6, <2>7
<1>9. QED  BY <1>7, <1>8

(* What view-register leaves on show when it is done. *)
LEMMA OutputPopped ==
  ASSUME NEW s, Steady(s), NEW n \in Name \ Popup, NEW t \in Popped(s, n)
  PROVE  /\ Steady(t) /\ Live(s) \subseteq Live(t)
         /\ \A b \in Live(s) : t.name[b] = s.name[b]
<1>1. PICK r \in WithNamed(s, n) : t = ShowPopup(r[1], r[2])  BY DEF Popped
<1> DEFINE u == r[1]
           b == r[2]
<1>2. /\ Level(u) /\ b \in Live(u) /\ Live(s) \subseteq Live(u)
      /\ \A c \in Live(s) : u.name[c] = s.name[c]
      /\ u.windows = s.windows /\ u.focused = s.focused /\ u.buf = s.buf
  BY WithNamedKeeps DEF Steady
<1> HIDE DEF u, b
<1>3. t = ShowPopup(u, b)  BY <1>1 DEF u, b
<1>4. Steady(u)  BY <1>2 DEF Steady, Fits
<1>5. CASE Windows(u, b) # {}
  <2>1. t = u  BY <1>3, <1>5 DEF ShowPopup
  <2>2. QED  BY <1>2, <1>4, <2>1
<1>6. CASE Windows(u, b) = {}
  <2>1. Sound(u)  BY <1>2 DEF Level
  <2>2. /\ Sound(t) /\ Live(t) = Live(u) /\ SameList(u, t) /\ t.buf = u.buf
        /\ NWindows(t) = NWindows(u) + 1 /\ t.focused = {1}
        /\ ToSet(t.windows) = ToSet(u.windows) \cup {b}
    BY <1>2, <1>3, <1>6, <2>1, ShowPopupKeeps
  <2>3. t.name = u.name  BY <2>2 DEF SameList
  <2>4. 1 \in 1..NWindows(t)
    <3>1. NWindows(u) \in Nat  BY <2>1, SoundIs
    <3>2. QED  BY <2>2, <3>1
  <2>5. Level(t)  BY <1>2, <2>2, <2>3, <2>4 DEF Level
  <2>6. Steady(t)
    <3>1. Fits(t, t.buf)  BY <2>2 DEF Fits
    <3>2. QED  BY <1>4, <2>2, <2>5, <3>1 DEF Steady
  <2>7. QED  BY <1>2, <2>2, <2>3, <2>6
<1>7. QED  BY <1>5, <1>6

(* The prompt's popup gone, and what it was opened from current again.      *)
LEMMA Levelled ==
  ASSUME NEW s, Sound(s), Once(s), Focus(s), NEW n \in Popup,
         \A b \in Live(s) : s.name[b] \in Popup => s.name[b] = n,
         NEW t, t = CloseSpecial(s, n)
  PROVE  /\ Level(t) /\ Live(t) = { b \in Live(s) : s.name[b] \notin Popup }
         /\ \A b \in Live(t) : t.name[b] = s.name[b]
         /\ \A b \in ToSet(s.windows) : s.name[b] \notin Popup => b \in ToSet(t.windows)
         /\ (s.buf \in Live(s) => s.name[s.buf] \notin Popup) => t.buf = s.buf
         /\ \A c : Fits(s, c) => Fits(t, c)
<1>1. PICK k \in 1..NWindows(s) : s.name[s.windows[k]] \notin Popup  BY DEF Focus
<1>2. s.name[s.windows[k]] # n  BY <1>1
<1>3. /\ Sound(t) /\ Once(t)
      /\ Live(t) = { b \in Live(s) : s.name[b] # n }
      /\ \A b \in Live(t) : t.name[b] = s.name[b]
      /\ \A b \in ToSet(s.windows) : s.name[b] # n => b \in ToSet(t.windows)
      /\ Focus(t) /\ \A c : Fits(s, c) => Fits(t, c)
      /\ (s.buf \in Live(s) => s.name[s.buf] # n) => t.buf = s.buf
  BY <1>2, CloseSpecialKeeps
<1>4. \A b \in Live(s) : s.name[b] # n <=> s.name[b] \notin Popup  OBVIOUS
<1>5. Live(t) = { b \in Live(s) : s.name[b] \notin Popup }  BY <1>3, <1>4
<1>6. \A b \in Live(t) : t.name[b] \notin Popup  BY <1>3, <1>5
<1>7. Level(t)  BY <1>3, <1>6, LevelIs
<1>8. QED  BY <1>3, <1>4, <1>5, <1>7

(* restoreFocusTo, once the palette has gone. *)
LEMMA RestoreFocusKeeps ==
  ASSUME NEW s, Sound(s), Once(s), NEW o \in Address \cup {Minibuf},
         NEW k \in 1..NWindows(s), s.name[s.windows[k]] \notin Popup,
         o \in Address => Shows(s, o),
         NEW c, o = Minibuf /\ k # 1 => s.windows[k] = c,
         NEW t, t = RestoreFocus(s, o, k)
  PROVE  Sound(t) /\ Once(t) /\ Focus(t) /\ Live(t) = Live(s) /\ SameList(s, t)
         /\ t.buf = o /\ t.windows = s.windows
         /\ Fits(t, IF o = Minibuf THEN c ELSE o)
<1> DEFINE g == IF Windows(s, o) # {} THEN Min(Windows(s, o))
                ELSE IF k <= NWindows(s) THEN k ELSE 1
<1>1. t = [s EXCEPT !.focused = {g}, !.buf = o]  BY DEF RestoreFocus
<1>2. /\ DOMAIN s.windows = 1..NWindows(s) /\ NWindows(s) \in Nat /\ s \in State
      /\ \A i \in 1..NWindows(s) : s.windows[i] \in Address
  BY SoundIs
<1>3. g \in 1..NWindows(s) /\ s.name[s.windows[g]] \notin Popup
  <2>1. CASE Windows(s, o) # {}
    <3>1. Windows(s, o) \subseteq 1..NWindows(s)  BY <1>2 DEF Windows
    <3>2. g \in Windows(s, o)  BY <1>2, <2>1, <3>1, MinIs
    <3>3. g \in 1..NWindows(s) /\ s.windows[g] = o  BY <1>2, <3>2 DEF Windows
    <3>4. o \in Address  BY <1>2, <3>3
    <3>5. QED  BY <3>3, <3>4 DEF Shows
  <2>2. CASE Windows(s, o) = {}  BY <1>2, <2>2
  <2>3. QED  BY <2>1, <2>2
<1>3a. o \in Address => s.windows[g] = o
  <2>1. SUFFICES ASSUME o \in Address  PROVE s.windows[g] = o  OBVIOUS
  <2>2. PICK i \in DOMAIN s.windows : s.windows[i] = o  BY <2>1 DEF Shows, ToSet
  <2>3. Windows(s, o) # {} /\ Windows(s, o) \subseteq Nat  BY <1>2, <2>2 DEF Windows
  <2>4. g \in Windows(s, o)  BY <2>3, MinIs
  <2>5. QED  BY <2>4 DEF Windows
<1>3b. o = Minibuf => g = k
  <2>1. o = Minibuf => Windows(s, o) = {}  BY <1>2 DEF Windows
  <2>2. QED  BY <1>2, <2>1
<1> HIDE DEF g
<1>4. /\ Record(t) /\ t.buf = o /\ t.list = s.list /\ t.windows = s.windows
      /\ t.last = s.last /\ t.name = s.name
  BY <1>1, <1>2 DEF State, Record
<1>5. t.focused = {g}  BY <1>1, <1>2 DEF State
<1>6. SameList(s, t) /\ NWindows(t) = NWindows(s)  BY <1>4 DEF SameList, NWindows
<1>7. Sound(t) /\ Live(t) = Live(s)
  <2>1. /\ t.windows \in Seq(Address) /\ t.windows # <<>> /\ ToSet(t.windows) \subseteq Live(s)
        /\ t.focused # {} /\ t.focused \subseteq DOMAIN t.windows
    BY <1>2, <1>3, <1>4, <1>5, SoundIs DEF Sound
  <2>2. t.buf \in Address \cup {Minibuf, Nil}  BY <1>4
  <2>3. QED  BY <1>4, <1>6, <2>1, <2>2, SameListKeeps
<1>8. Focus(t)  BY <1>3, <1>4, <1>5, <1>6 DEF Focus
<1>9. Once(t)  BY <1>4, <1>6, <1>7 DEF Once
<1>10. Fits(t, IF o = Minibuf THEN c ELSE o)
  <2>1. CASE o = Minibuf
    <3>1. k # 1 => s.windows[k] = c  BY <2>1
    <3>2. QED  BY <1>3b, <1>4, <1>5, <2>1, <3>1 DEF Fits
  <2>2. CASE o # Minibuf
    <3>1. Fits(t, o)  BY <1>3a, <1>4, <1>5, <2>2 DEF Fits
    <3>2. QED  BY <2>2, <3>1
  <2>3. QED  BY <2>1, <2>2
<1>11. QED  BY <1>4, <1>6, <1>7, <1>8, <1>9, <1>10

(* expandPalette: the palette in the last window, the other focused windows *)
(* left as they were.                                                       *)
LEMMA PaletteKeeps ==
  ASSUME NEW s, Sound(s), Once(s), Focus(s), \A b \in Live(s) : s.name[b] # Palette,
         NEW r \in WithNamed(s, Palette), NEW p, p = ShowPopup(r[1], r[2]),
         NEW i, i = FocusedIdx(s),
         NEW e, e = Min(Windows(p, r[2])),
         NEW t, Record(t), SameList(p, t), t.windows = p.windows, t.buf = r[2],
         t.focused = (p.focused \ {i}) \cup {e}
  PROVE  /\ Sound(t) /\ Once(t) /\ t.buf \in Live(t)
         /\ Live(s) \subseteq Live(t) /\ \A b \in Live(s) : t.name[b] = s.name[b]
         /\ \A b \in Live(t) : b \in Live(s) \/ t.name[b] = Palette
         /\ ToSet(s.windows) \subseteq ToSet(t.windows)
         /\ i \in 1..NWindows(t) /\ t.name[t.windows[i]] \notin Popup
         /\ \A j \in 1..NWindows(t) : t.name[t.windows[j]] = Palette => j = NWindows(t)
         /\ \A c : Fits(s, c) => (i # 1 => t.windows[i] = c)
<1> DEFINE u == r[1]
           b == r[2]
<1>1. /\ Sound(u) /\ b \in Live(u) /\ b \notin Live(s) /\ Live(u) = Live(s) \cup {b}
      /\ u.name[b] = Palette /\ \A c \in Live(s) : u.name[c] = s.name[c]
      /\ u.windows = s.windows /\ u.focused = s.focused
  <2>1. Named(s, Palette) = {} /\ Palette \in Name  BY DEF Named, Name, Special, Popup
  <2>2. r \in WithNew(s, Palette)  BY <2>1 DEF WithNamed
  <2>3. /\ Sound(u) /\ b \in Address \ Live(s) /\ Live(u) = Live(s) \cup {b}
        /\ u.name[b] = Palette /\ \A c \in Live(s) : u.name[c] = s.name[c]
        /\ u.windows = s.windows /\ u.focused = s.focused
    BY <2>1, <2>2, WithNewKeeps
  <2> HIDE DEF u, b
  <2>4. QED  BY <2>3
<1>2. p = ShowPopup(u, b) /\ e = Min(Windows(p, b)) /\ t.buf = b  OBVIOUS
<1> HIDE DEF u, b
<1>3. /\ \A j \in 1..NWindows(u) : u.windows[j] \in Live(s) /\ u.windows[j] # b
      /\ DOMAIN u.windows = 1..NWindows(u) /\ NWindows(u) \in Nat
      /\ NWindows(u) = NWindows(s)
  BY <1>1, SoundIs DEF NWindows
<1>4. Windows(u, b) = {}  BY <1>3 DEF Windows
<1>5. /\ Sound(p) /\ Live(p) = Live(u) /\ SameList(u, p)
      /\ NWindows(p) = NWindows(u) + 1 /\ p.focused = {1}
      /\ \A j \in 1..NWindows(u) : p.windows[j] = u.windows[j]
      /\ p.windows[NWindows(u) + 1] = b
      /\ ToSet(p.windows) = ToSet(u.windows) \cup {b}
  BY <1>1, <1>2, <1>4, ShowPopupKeeps
<1>6. e = NWindows(p)
  <2>1. DOMAIN p.windows = 1..NWindows(p)  BY <1>5, SoundIs
  <2>2. Windows(p, b) \subseteq 1..NWindows(p) /\ Windows(p, b) \subseteq Nat
    BY <2>1 DEF Windows
  <2>3. NWindows(p) \in Windows(p, b)  BY <1>3, <1>5, <2>1 DEF Windows
  <2>4. e \in Windows(p, b)  BY <1>2, <2>2, <2>3, MinIs
  <2>5. p.windows[e] = b /\ e \in 1..NWindows(p)  BY <2>2, <2>4 DEF Windows
  <2>6. QED  BY <1>3, <1>5, <2>5
<1>7. t.buf = b /\ t.windows = p.windows /\ t.name = p.name  BY <1>2 DEF SameList
<1>8. t.focused = ({1} \ {i}) \cup {e}  BY <1>5
<1>9. SameList(p, t) /\ NWindows(t) = NWindows(p)  BY DEF NWindows
<1>10. Sound(t) /\ Live(t) = Live(p)
  <2>1. t.focused # {} /\ t.focused \subseteq DOMAIN t.windows
    <3>1. DOMAIN p.windows = 1..NWindows(p) /\ NWindows(p) \in Nat /\ NWindows(p) >= 1
      BY <1>5, SoundIs
    <3>2. DOMAIN t.windows = 1..e /\ e \in Nat /\ e >= 1  BY <1>6, <1>7, <3>1
    <3>3. QED  BY <1>8, <3>2
  <2>2. p.windows \in Seq(Address) /\ p.windows # <<>> /\ ToSet(p.windows) \subseteq Live(p)
    <3>1. Sound(p)  BY <1>5
    <3>2. QED  BY <3>1, SoundIs DEF Sound
  <2>3. b \in Address
    <3>1. Live(u) \subseteq Address  BY <1>1, SoundIs
    <3>2. QED  BY <1>1, <3>1
  <2>4. /\ Sound(p) /\ Record(t) /\ SameList(p, t) /\ t.windows \in Seq(Address)
        /\ t.windows # <<>> /\ ToSet(t.windows) \subseteq Live(p)
        /\ t.buf \in Address \cup {Minibuf, Nil}
    BY <1>5, <1>7, <1>9, <2>2, <2>3
  <2>5. QED  BY <2>1, <2>4, SameListKeeps
<1>11. t.name = u.name /\ Live(t) = Live(s) \cup {b}  BY <1>1, <1>5, <1>7, <1>10 DEF SameList
<1>12. /\ \A j \in 1..NWindows(u) : t.windows[j] = s.windows[j]
       /\ t.windows[NWindows(u) + 1] = b /\ NWindows(t) = NWindows(u) + 1
  BY <1>1, <1>5, <1>7, <1>9
<1>13. \A j \in 1..NWindows(t) : t.name[t.windows[j]] = Palette => j = NWindows(t)
  <2>1. \A j \in 1..NWindows(u) : t.name[t.windows[j]] = s.name[t.windows[j]] /\ t.windows[j] \in Live(s)
    BY <1>1, <1>3, <1>11, <1>12
  <2>2. QED  BY <1>3, <1>12, <2>1
<1>14. Once(t)
  <2>1. \A c, d \in Live(t) : t.name[c] \in Popup /\ t.name[c] = t.name[d] => c = d
    BY <1>1, <1>11 DEF Once
  <2>2. ASSUME NEW j \in 1..NWindows(t), NEW k \in 1..NWindows(t),
               t.windows[j] = t.windows[k], t.name[t.windows[j]] \in Popup
        PROVE  j = k
    <3>1. CASE j = NWindows(t) \/ k = NWindows(t)
      <4>1. t.windows[NWindows(t)] = b /\ t.name[b] = Palette  BY <1>1, <1>11, <1>12
      <4>2. t.name[t.windows[j]] = Palette /\ t.name[t.windows[k]] = Palette  BY <2>2, <3>1, <4>1
      <4>3. QED  BY <1>13, <4>2
    <3>2. CASE ~ (j = NWindows(t) \/ k = NWindows(t))
      <4>1. j \in 1..NWindows(s) /\ k \in 1..NWindows(s)  BY <1>3, <1>12, <3>2
      <4>2. t.windows[j] = s.windows[j] /\ t.windows[k] = s.windows[k] /\ s.windows[j] \in Live(s)
        BY <1>1, <1>3, <1>12, <4>1
      <4>3. t.name[s.windows[j]] = s.name[s.windows[j]]  BY <1>1, <1>11, <4>2
      <4>4. QED  BY <2>2, <4>1, <4>2, <4>3 DEF Once
    <3>3. QED  BY <3>1, <3>2
  <2>3. QED  BY <2>1, <2>2 DEF Once
<1>15. /\ i \in 1..NWindows(t) /\ t.name[t.windows[i]] \notin Popup
       /\ \A c : Fits(s, c) => (i # 1 => t.windows[i] = c)
  <2>1. PICK k \in 1..NWindows(s) : s.focused = {k} /\ s.name[s.windows[k]] \notin Popup
    BY DEF Focus
  <2>2. i = k
    <3>1. k \in Nat  BY <1>3, <2>1
    <3>2. QED  BY <2>1, <3>1, FocusedIs
  <2>3. k \in 1..NWindows(t) /\ t.windows[k] = s.windows[k] /\ s.windows[k] \in Live(s)
    BY <1>1, <1>3, <1>12, <2>1
  <2>4. \A c : Fits(s, c) => (i # 1 => t.windows[i] = c)  BY <2>1, <2>2, <2>3 DEF Fits
  <2>5. QED  BY <1>1, <1>11, <2>1, <2>2, <2>3, <2>4
<1>16. ToSet(s.windows) \subseteq ToSet(t.windows)  BY <1>1, <1>5, <1>7
<1>17. t.buf \in Live(t)  BY <1>7, <1>11
<1>18. \A c \in Live(s) : t.name[c] = s.name[c]  BY <1>1, <1>11
<1>19. \A c \in Live(t) : c \in Live(s) \/ t.name[c] = Palette  BY <1>1, <1>11
<1>20. QED  BY <1>10, <1>11, <1>13, <1>14, <1>15, <1>16, <1>17, <1>18, <1>19

(* revert: the new buffer is where the old one was. *)
LEMMA ReplaceKeeps ==
  ASSUME NEW s, Steady(s), NEW e, e = s.buf, NEW b \in Address \ Live(s),
         NEW l \in [DOMAIN s.list -> Address],
         \A i \in DOMAIN s.list : l[i] = IF s.list[i] = e THEN b ELSE s.list[i],
         NEW w \in [DOMAIN s.windows -> Address],
         \A i \in DOMAIN s.windows : w[i] = IF s.windows[i] = e THEN b ELSE s.windows[i],
         NEW m \in [Address -> Name \cup {Nil}], m[b] = s.name[e],
         \A c \in Live(s) \ {e} : m[c] = s.name[c],
         NEW a \in {s.last, Nil}, a # e,
         NEW t, Record(t), t.list = l, t.windows = w, t.focused = s.focused,
         t.buf = b, t.name = m, t.last = a
  PROVE  /\ Steady(t) /\ Live(t) = (Live(s) \ {e}) \cup {b}
         /\ \A c \in Live(s) \ {e} : t.name[c] = s.name[c]
<1>1. /\ Sound(s) /\ s \in State /\ s.list \in Seq(Address) /\ s.windows \in Seq(Address)
      /\ e \in Live(s) /\ Live(s) \subseteq Address /\ ToSet(s.windows) \subseteq Live(s)
      /\ DOMAIN s.windows = 1..NWindows(s)
      /\ \A c \in Live(s) : s.name[c] \notin Popup /\ s.name[c] \in Name
      /\ s.list # <<>> /\ s.windows # <<>> /\ IsInjective(s.list)
      /\ s.last \in Live(s) \cup {Nil}
      /\ s.name \in [Address -> Name \cup {Nil}]
  BY SteadyIs, SoundIs, StateIs DEF Sound
<1>2. e # b /\ e \in Address  BY <1>1
<1>3. /\ l \in Seq(Address) /\ l # <<>> /\ DOMAIN l = DOMAIN s.list
      /\ ToSet(l) = (Live(s) \ {e}) \cup {b}
  <2>1. \A i \in DOMAIN s.list : s.list[i] \in Live(s) /\ s.list[i] \in Address
    BY <1>1 DEF Live, ToSet
  <2>3. l \in Seq(Address) /\ l # <<>> /\ DOMAIN l = 1..Len(s.list)
    <3>1. s.list \in Seq(Address) /\ s.list # <<>>  BY <1>1
    <3>2. QED  BY <3>1, FunctionIs
  <2>4. DOMAIN l = DOMAIN s.list  OBVIOUS
  <2>5. ToSet(l) \subseteq (Live(s) \ {e}) \cup {b}  BY <2>1, <2>4 DEF ToSet
  <2>6. ASSUME NEW c \in Live(s) \ {e}  PROVE c \in ToSet(l)
    <3>1. PICK i \in DOMAIN s.list : s.list[i] = c  BY DEF Live, ToSet
    <3>2. l[i] = c /\ i \in DOMAIN l  BY <3>1
    <3>3. QED  BY <3>2 DEF ToSet
  <2>7. b \in ToSet(l)
    <3>1. PICK i \in DOMAIN s.list : s.list[i] = e  BY <1>1 DEF Live, ToSet
    <3>2. l[i] = b /\ i \in DOMAIN l  BY <3>1
    <3>3. QED  BY <3>2 DEF ToSet
  <2>8. QED  BY <2>3, <2>4, <2>5, <2>6, <2>7
<1>4. IsInjective(l)
  <2>1. \A i \in DOMAIN s.list : s.list[i] # b  BY DEF Live, ToSet
  <2>2. \A i, j \in DOMAIN s.list : s.list[i] = s.list[j] => i = j  BY <1>1 DEF IsInjective
  <2>3. ASSUME NEW i \in DOMAIN s.list, NEW j \in DOMAIN s.list, l[i] = l[j]  PROVE i = j
    <3>1. /\ l[i] = IF s.list[i] = e THEN b ELSE s.list[i]
          /\ l[j] = IF s.list[j] = e THEN b ELSE s.list[j]
      OBVIOUS
    <3>2. s.list[i] = s.list[j]  BY <2>1, <2>3, <3>1
    <3>3. QED  BY <2>2, <3>2
  <2>4. QED  BY <1>3, <2>3 DEF IsInjective
<1>5. /\ w \in Seq(Address) /\ w # <<>> /\ DOMAIN w = DOMAIN s.windows /\ Len(w) = NWindows(s)
      /\ ToSet(w) \subseteq (Live(s) \ {e}) \cup {b} /\ b \in ToSet(w)
  <2>1. \A i \in DOMAIN s.windows : s.windows[i] \in Live(s) /\ s.windows[i] \in Address
    BY <1>1 DEF ToSet
  <2>3. w \in Seq(Address) /\ w # <<>> /\ Len(w) = NWindows(s)
    <3>1. s.windows \in Seq(Address) /\ s.windows # <<>>  BY <1>1
    <3>2. QED  BY <3>1, FunctionIs DEF NWindows
  <2>4. DOMAIN w = DOMAIN s.windows  OBVIOUS
  <2>5. ToSet(w) \subseteq (Live(s) \ {e}) \cup {b}  BY <2>1, <2>4 DEF ToSet
  <2>6. b \in ToSet(w)
    <3>1. PICK i \in DOMAIN s.windows : s.windows[i] = e  BY DEF Steady, ToSet
    <3>2. w[i] = b /\ i \in DOMAIN w  BY <3>1
    <3>3. QED  BY <3>2 DEF ToSet
  <2>7. QED  BY <2>3, <2>4, <2>5, <2>6
<1>10. Live(t) = (Live(s) \ {e}) \cup {b}  BY <1>3 DEF Live
<1>11. a \in Live(t) \cup {Nil}  BY <1>1, <1>10
<1>12. t.focused # {} /\ t.focused \subseteq DOMAIN t.windows /\ t.focused \subseteq Nat \ {0}
  BY <1>1, <1>5, StateIs DEF Sound
<1>13. \A c \in Live(t) : t.name[c] \in Name /\ t.name[c] \notin Popup
  BY <1>1, <1>10
<1>14. t \in State
  <2>1. t.last \in Address \cup {Nil}  BY <1>1
  <2>2. /\ t.list \in Seq(Address) /\ t.windows \in Seq(Address) /\ t.buf \in Address
        /\ t.name \in [Address -> Name \cup {Nil}]
    BY <1>3, <1>5
  <2>3. QED  BY <1>12, <2>1, <2>2, RecordIs
<1>15. Sound(t)
  <2>1. t.list # <<>> /\ IsInjective(t.list) /\ t.windows # <<>>  BY <1>3, <1>4, <1>5
  <2>2. ToSet(t.windows) \subseteq Live(t) /\ t.last \in Live(t) \cup {Nil}
    BY <1>5, <1>10, <1>11
  <2>3. QED  BY <1>12, <1>13, <1>14, <2>1, <2>2 DEF Sound
<1>16. Level(t)
  <2>1. PICK i \in 1..NWindows(s) : s.focused = {i}  BY DEF Steady, Level
  <2>2. i \in 1..NWindows(t) /\ t.focused = {i}  BY <1>5, <2>1 DEF NWindows
  <2>3. QED  BY <1>13, <1>15, <2>2 DEF Level
<1>17. Steady(t)
  <2>1. \A i \in s.focused : i # 1 => s.windows[i] = e /\ i \in DOMAIN s.windows
    BY <1>1 DEF Steady, Fits, Sound
  <2>2. Fits(t, b)  BY <2>1 DEF Fits
  <2>3. QED  BY <1>5, <1>16, <2>2 DEF Steady
<1>18. QED  BY <1>10, <1>17

-----------------------------------------------------------------------------
(* The inductive invariant: whatever is open, the list and the windows are  *)
(* sound and a popup is on show once; ...                                   *)

(* ... a popup is there only while what opened it is; ...                   *)
Popups ==
  \A b \in Live(ws) :
    /\ ws.name[b] = Completions => edbuf # Nil
    /\ ws.name[b] = Preview => viewing
    /\ ws.name[b] = Palette => palette # Nil

(* ... one window has the focus and is not a popup's, the current buffer,   *)
(* or the one under the prompt, is on the screen and in that window if it   *)
(* is not the first; unless the palette is up: then the window it was       *)
(* opened from is still there, in its place, as the palette's own is the    *)
(* last one, and what it goes back to is on the screen; ...                 *)
Place ==
  IF palette = Nil
  THEN /\ Focus(ws)
       /\ IF edbuf = Nil THEN Shows(ws, ws.buf) /\ Fits(ws, ws.buf)
                         ELSE ws.buf = Minibuf /\ Fits(ws, edbuf)
  ELSE /\ palette.win \in 1..NWindows(ws) /\ ws.name[ws.windows[palette.win]] \notin Popup
       /\ \A i \in 1..NWindows(ws) : ws.name[ws.windows[i]] = Palette => i = NWindows(ws)
       /\ IF edbuf = Nil THEN Shows(ws, palette.origin)
          ELSE /\ palette.origin = Minibuf
               /\ palette.win # 1 => ws.windows[palette.win] = edbuf
       /\ ws.buf \in Live(ws)

(* ... and no popup is modified, prompted from or jumped back to. *)
Others ==
  /\ viewing => edbuf = Nil /\ palette = Nil
  /\ edbuf # Nil => Shows(ws, edbuf)
  /\ \A b \in dirty : ws.name[b] \notin Popup
  /\ jstack \in Seq(Name \ Popup)

Inv == TypeOK /\ Sound(ws) /\ Once(ws) /\ Popups /\ Place /\ Others

(* No edits of a file dropped by a step, but by a kill the user agreed to   *)
(* and by revert.                                                           *)
Dropless ==
  \A b \in dirty : ws.name[b] \in File /\ b \notin Live(ws') =>
    \/ agreed' /\ b = ws.buf
    \/ Revert /\ b = edbuf

LEMMA CommandIs ==
  ASSUME Inv, Command
  PROVE  /\ Steady(ws) /\ ws.buf \in Live(ws) /\ Live(ws) \subseteq Address
         /\ dirty \subseteq Live(ws) /\ register \in Address \cup {Nil} /\ viewing = FALSE
         /\ jstack \in Seq(Name \ Popup) /\ Len(jstack) <= JumpLimit
         /\ \A b \in Live(ws) : ws.name[b] \notin Popup /\ ws.name[b] \in Name
<1>1. /\ Sound(ws) /\ Once(ws) /\ Focus(ws) /\ ws.buf \in ToSet(ws.windows)
      /\ Fits(ws, ws.buf)
  BY DEF Inv, Command, Place, Shows
<1>2. \A b \in Live(ws) : ws.name[b] \notin Popup  BY DEF Inv, Command, Popups, Popup
<1>3. Level(ws)  BY <1>1, <1>2, LevelIs
<1>4. Steady(ws)  BY <1>1, <1>3 DEF Steady
<1>5. \A b \in Live(ws) : ws.name[b] \in Name  BY <1>1 DEF Sound
<1>6. dirty \subseteq Live(ws) /\ register \in Address \cup {Nil} /\ Len(jstack) <= JumpLimit
      /\ viewing = FALSE
  BY DEF Inv, TypeOK, Command
<1>7. jstack \in Seq(Name \ Popup)  BY DEF Inv, Others
<1>8. QED  BY <1>1, <1>2, <1>4, <1>5, <1>6, <1>7, SoundIs

LEMMA StacksAre ==
  ASSUME NEW q \in Seq(Name \ Popup)
  PROVE  q \in Seq(Name) /\ \A i \in DOMAIN q : q[i] \in Name \ Popup
OBVIOUS

LEMMA CommandAgain ==
  ASSUME Steady(ws'), edbuf' = Nil, viewing' = FALSE, palette' = Nil,
         dirty' \subseteq Live(ws'), register' \in Address \cup {Nil},
         jstack' \in Seq(Name \ Popup), Len(jstack') <= JumpLimit, agreed' \in BOOLEAN
  PROVE  Inv'
<1>1. /\ Sound(ws') /\ Level(ws') /\ ws'.buf \in ToSet(ws'.windows) /\ ws'.buf \in Live(ws')
      /\ \A b \in Live(ws') : ws'.name[b] \notin Popup
      /\ Fits(ws', ws'.buf)
  BY SteadyIs DEF Steady
<1>2. Once(ws') /\ Focus(ws')  BY <1>1, LevelIs
<1>3. ws' \in State  BY <1>1 DEF Sound
<1>4. jstack' \in Seq(Name)  BY StacksAre
<1>5. TypeOK'
  <2>1. dirty' \subseteq ToSet(ws'.list)  BY DEF Live
  <2>2. QED  BY <1>3, <1>4, <2>1 DEF TypeOK, Live
<1>6. Popups'
  <2>1. \A b \in ToSet(ws'.list) : ws'.name[b] \notin Popup  BY <1>1 DEF Live
  <2>2. QED  BY <2>1 DEF Popups, Popup, Live
<1>7. Place'
  <2>1. Shows(ws', ws'.buf)  BY <1>1 DEF Shows
  <2>2. QED  BY <1>1, <1>2, <2>1 DEF Place
<1>8. Others'
  <2>1. \A b \in dirty' : ws'.name[b] \notin Popup  BY <1>1
  <2>2. QED  BY <2>1 DEF Others
<1>9. QED  BY <1>1, <1>2, <1>5, <1>6, <1>7, <1>8 DEF Inv

(* A command that drops no buffer. *)
LEMMA QuietKeeps ==
  ASSUME Inv, Command, Quiet, Steady(ws'), Live(ws) \subseteq Live(ws'), dirty' \subseteq Live(ws'),
         register' \in Address \cup {Nil}, jstack' \in Seq(Name \ Popup), Len(jstack') <= JumpLimit
  PROVE  Inv' /\ Dropless
<1>1. dirty \subseteq Live(ws) /\ edbuf = Nil /\ viewing = FALSE /\ palette = Nil
  BY CommandIs DEF Command
<1>2. edbuf' = Nil /\ viewing' = FALSE /\ palette' = Nil /\ agreed' = FALSE
  BY <1>1 DEF Quiet, Modal
<1>3. agreed' \in BOOLEAN  BY <1>2
<1>4. Inv'  BY <1>2, <1>3, CommandAgain
<1>5. Dropless  BY <1>1 DEF Dropless
<1>6. QED  BY <1>4, <1>5

(* The same, with the register and the tag stack left alone. *)
LEMMA RestKeeps ==
  ASSUME Inv, Command, Quiet, Rest, Steady(ws'), Live(ws) \subseteq Live(ws'),
         dirty' \subseteq Live(ws')
  PROVE  Inv' /\ Dropless
<1>1. /\ register \in Address \cup {Nil} /\ jstack \in Seq(Name \ Popup)
      /\ Len(jstack) <= JumpLimit
  BY CommandIs
<1>2. register' = register /\ jstack' = jstack  BY DEF Rest
<1>3. register' \in Address \cup {Nil} /\ jstack' \in Seq(Name \ Popup) /\ Len(jstack') <= JumpLimit
  BY <1>1, <1>2
<1>4. QED  BY <1>3, QuietKeeps

-----------------------------------------------------------------------------
(* Commands *)

LEMMA EditKeeps == Inv /\ Edit => Inv' /\ Dropless
<1>1. SUFFICES ASSUME Inv, Edit  PROVE Inv' /\ Dropless  OBVIOUS
<1>2. Command /\ Quiet /\ Rest /\ ws' = ws /\ dirty' = dirty \cup {ws.buf}  BY <1>1 DEF Edit
<1>3. Steady(ws) /\ dirty \subseteq Live(ws) /\ ws.buf \in Live(ws)  BY <1>1, <1>2, CommandIs
<1>4. QED  BY <1>1, <1>2, <1>3, RestKeeps

LEMMA SaveKeeps == Inv /\ Save => Inv' /\ Dropless
<1>1. SUFFICES ASSUME Inv, Save  PROVE Inv' /\ Dropless  OBVIOUS
<1>2. Command /\ Quiet /\ Rest /\ dirty' = dirty \ {ws.buf}  BY <1>1 DEF Save
<1>3. /\ Steady(ws) /\ dirty \subseteq Live(ws) /\ ws.buf \in Live(ws)
      /\ \A b \in Live(ws) : ws.name[b] \notin Popup /\ ws.name[b] \in Name
      /\ Live(ws) \subseteq Address
  BY <1>1, <1>2, CommandIs
<1>4. CASE ws' = ws  BY <1>1, <1>2, <1>3, <1>4, RestKeeps
<1>5. ASSUME NEW f \in File, ws' = [ws EXCEPT !.name[ws.buf] = f]
      PROVE  Inv' /\ Dropless
  <2> DEFINE b == ws.buf
  <2>1. Sound(ws) /\ ws \in State /\ ws.name \in [Address -> Name \cup {Nil}]
    BY <1>3, SteadyIs, SoundIs, StateIs
  <2>2. /\ Record(ws')
        /\ ws'.list = ws.list /\ ws'.windows = ws.windows /\ ws'.focused = ws.focused
        /\ ws'.buf = ws.buf /\ ws'.last = ws.last
    BY <1>5, <2>1 DEF State, Record
  <2>3. ws'.name = [ws.name EXCEPT ![b] = f]  BY <1>5, <2>1 DEF State
  <2> HIDE DEF b
  <2>4. f \in Name /\ f \notin Popup  BY DEF Name, Special
  <2>5. Live(ws') = Live(ws)  BY <2>2 DEF Live
  <2>6. /\ ws'.name \in [Address -> Name \cup {Nil}]
        /\ \A c \in Live(ws') : ws'.name[c] \in Name /\ ws'.name[c] \notin Popup
    <3>1. f \in Name \cup {Nil} /\ ws'.name = [ws.name EXCEPT ![b] = f]  BY <2>3, <2>4
    <3>2. ws'.name \in [Address -> Name \cup {Nil}]  BY <2>1, <3>1
    <3>3. \A c \in Address : ws'.name[c] = f \/ ws'.name[c] = ws.name[c]  BY <2>1, <3>1
    <3>4. \A c \in Live(ws') : ws'.name[c] \in Name /\ ws'.name[c] \notin Popup
      <4>1. SUFFICES ASSUME NEW c \in Live(ws')
                     PROVE  ws'.name[c] \in Name /\ ws'.name[c] \notin Popup
        OBVIOUS
      <4>2. c \in Live(ws) /\ c \in Address  BY <1>3, <2>5
      <4>3. CASE ws'.name[c] = f  BY <2>4, <4>3
      <4>4. CASE ws'.name[c] = ws.name[c]  BY <1>3, <4>2, <4>4
      <4>5. QED  BY <3>3, <4>2, <4>3, <4>4
    <3>5. QED  BY <3>2, <3>4
  <2>7. ws' \in State
    <3>1. /\ ws.list \in Seq(Address) /\ ws.windows \in Seq(Address)
          /\ ws.focused \subseteq Nat \ {0} /\ ws.buf \in Address \cup {Minibuf, Nil}
          /\ ws.last \in Address \cup {Nil}
      BY <2>1, StateIs
    <3>2. QED  BY <2>2, <2>6, <3>1, RecordIs
  <2>8. Sound(ws')  BY <2>1, <2>2, <2>5, <2>6, <2>7 DEF Sound
  <2>9. Steady(ws')  BY <1>3, <2>2, <2>5, <2>6, <2>8 DEF Steady, Level, NWindows, Fits
  <2>10. QED  BY <1>1, <1>2, <1>3, <2>5, <2>9, RestKeeps
<1>6. QED  BY <1>1, <1>4, <1>5 DEF Save

LEMMA WindowCommandKeeps == Inv /\ WindowCommand => Inv' /\ Dropless
<1>1. SUFFICES ASSUME Inv, WindowCommand  PROVE Inv' /\ Dropless  OBVIOUS
<1>2. Command /\ Quiet /\ Rest /\ dirty' = dirty  BY <1>1 DEF WindowCommand
<1>3. Steady(ws) /\ dirty \subseteq Live(ws)  BY <1>1, <1>2, CommandIs
<1>4. ws' \in {SwitchWindow(ws), DestroyWindow(ws, FocusedIdx(ws)),
               DestroyOtherWindows(ws), CreateWindow(ws)}
  BY <1>1 DEF WindowCommand
<1>5. Steady(ws') /\ Live(ws') = Live(ws)  BY <1>3, <1>4, WindowsKeep
<1>6. QED  BY <1>1, <1>2, <1>3, <1>5, RestKeeps

LEMMA PreviousBufferKeeps == Inv /\ PreviousBuffer => Inv' /\ Dropless
<1>1. SUFFICES ASSUME Inv, PreviousBuffer  PROVE Inv' /\ Dropless  OBVIOUS
<1>2. Command /\ Quiet /\ Rest /\ dirty' = dirty  BY <1>1 DEF PreviousBuffer
<1>3. Steady(ws) /\ dirty \subseteq Live(ws) /\ ws.buf \in Live(ws)  BY <1>1, <1>2, CommandIs
<1> DEFINE b == IF NextInList(ws, ws.buf) = Nil THEN ws.list[1] ELSE NextInList(ws, ws.buf)
<1>4. ws' = ShowFocused(ws, b)  BY <1>1 DEF PreviousBuffer
<1>5. b \in Live(ws) /\ Level(ws)  BY <1>3, NeighboursAre, SteadyIs
<1> HIDE DEF b
<1>6. Steady(ws') /\ Live(ws') = Live(ws)  BY <1>4, <1>5, ShowFocusedKeeps
<1>7. QED  BY <1>1, <1>2, <1>3, <1>6, RestKeeps

LEMMA NextBufferKeeps == Inv /\ NextBuffer => Inv' /\ Dropless
<1>1. SUFFICES ASSUME Inv, NextBuffer  PROVE Inv' /\ Dropless  OBVIOUS
<1>2. Command /\ Quiet /\ Rest /\ dirty' = dirty  BY <1>1 DEF NextBuffer
<1>3. Steady(ws) /\ dirty \subseteq Live(ws) /\ ws.buf \in Live(ws)  BY <1>1, <1>2, CommandIs
<1> DEFINE b == IF ws.buf = ws.list[1] THEN Last(ws.list) ELSE PrevInList(ws, ws.buf)
<1>4. ws' = ShowFocused(ws, b)  BY <1>1 DEF NextBuffer
<1>5. b \in Live(ws) /\ Level(ws)  BY <1>3, NeighboursAre, SteadyIs
<1> HIDE DEF b
<1>6. Steady(ws') /\ Live(ws') = Live(ws)  BY <1>4, <1>5, ShowFocusedKeeps
<1>7. QED  BY <1>1, <1>2, <1>3, <1>6, RestKeeps

LEMMA KillBufferKeeps == Inv /\ KillBuffer => Inv' /\ Dropless
<1>1. SUFFICES ASSUME Inv, KillBuffer  PROVE Inv' /\ Dropless  OBVIOUS
<1>2. /\ Command /\ Modal /\ Rest /\ (agreed' = NeedsConfirm(ws.buf)) /\ dirty' = dirty \ {ws.buf}
      /\ ws' \in IF Len(ws.list) > 1 THEN {Kill(ws, Nil)}
                 ELSE { Kill(r[1], r[2]) : r \in WithNew(ws, Scratch) }
  BY <1>1 DEF KillBuffer
<1>3. /\ Steady(ws) /\ Sound(ws) /\ dirty \subseteq Live(ws) /\ ws.buf \in Live(ws)
      /\ register \in Address \cup {Nil} /\ jstack \in Seq(Name \ Popup)
      /\ Len(jstack) <= JumpLimit /\ viewing = FALSE
  BY <1>1, <1>2, CommandIs, SteadyIs
<1>4. Steady(ws') /\ Live(ws) \ {ws.buf} \subseteq Live(ws')
  <2>1. CASE Len(ws.list) > 1
    <3>1. ws' = Kill(ws, Nil)  BY <1>2, <2>1
    <3>2. Steady(ws') /\ Live(ws') = Live(ws) \ {ws.buf}  BY <1>3, <2>1, <3>1, KillKeeps
    <3>3. QED  BY <3>2
  <2>2. CASE ~ (Len(ws.list) > 1)
    <3>1. PICK r \in WithNew(ws, Scratch) : ws' = Kill(r[1], r[2])  BY <1>2, <2>2
    <3>2. Scratch \in Name /\ Scratch \notin Popup  BY DEF Name, Special
    <3>3. /\ Sound(r[1]) /\ r[2] \in Address \ Live(ws)
          /\ Live(r[1]) = Live(ws) \cup {r[2]} /\ r[1].name[r[2]] = Scratch
          /\ \A b \in Live(ws) : r[1].name[b] = ws.name[b]
          /\ r[1].windows = ws.windows /\ r[1].focused = ws.focused /\ r[1].buf = ws.buf
      BY <1>3, <3>1, <3>2, WithNewKeeps
    <3> DEFINE u == r[1]
               c == r[2]
    <3>4. Steady(u)
      <4>1. \A b \in Live(u) : u.name[b] \notin Popup  BY <1>3, <3>2, <3>3, SteadyIs
      <4>2. QED  BY <1>3, <3>3, <4>1 DEF Steady, Level, NWindows, Fits
    <3>5. c # Nil /\ c \in Live(u) \ {u.buf} /\ u.buf = ws.buf  BY <1>3, <3>3
    <3> HIDE DEF u, c
    <3>6. ws' = Kill(u, c)  BY <3>1 DEF u, c
    <3>7. Steady(ws') /\ Live(ws') = Live(u) \ {u.buf}  BY <3>4, <3>5, <3>6, KillKeeps
    <3>8. QED  BY <3>3, <3>5, <3>7 DEF u, c
  <2>3. QED  BY <2>1, <2>2
<1>5. agreed' \in BOOLEAN  BY <1>2 DEF NeedsConfirm
<1>6. /\ edbuf' = Nil /\ viewing' = FALSE /\ palette' = Nil /\ dirty' \subseteq Live(ws')
      /\ register' \in Address \cup {Nil} /\ jstack' \in Seq(Name \ Popup)
      /\ Len(jstack') <= JumpLimit
  BY <1>2, <1>3, <1>4 DEF Modal, Command, Rest
<1>7. Inv'  BY <1>4, <1>5, <1>6, CommandAgain
<1>8. ASSUME NEW b \in dirty, ws.name[b] \in File, b \notin Live(ws')
      PROVE  agreed' /\ b = ws.buf
  <2>1. b = ws.buf  BY <1>3, <1>4, <1>8
  <2>2. ws.name[b] # NoName /\ ws.name[b] \notin Special  BY <1>8
  <2>3. NeedsConfirm(ws.buf)  BY <2>1, <2>2 DEF NeedsConfirm
  <2>4. QED  BY <1>2, <2>1, <2>3
<1>9. QED  BY <1>7, <1>8 DEF Dropless

LEMMA PointToRegisterKeeps == Inv /\ PointToRegister => Inv' /\ Dropless
<1>1. SUFFICES ASSUME Inv, PointToRegister  PROVE Inv' /\ Dropless  OBVIOUS
<1>2. Command /\ Quiet /\ register' = ws.buf /\ ws' = ws /\ dirty' = dirty /\ jstack' = jstack
  BY <1>1 DEF PointToRegister
<1>3. /\ Steady(ws) /\ dirty \subseteq Live(ws) /\ ws.buf \in Address
      /\ jstack \in Seq(Name \ Popup) /\ Len(jstack) <= JumpLimit
  BY <1>1, <1>2, CommandIs
<1>4. QED  BY <1>1, <1>2, <1>3, QuietKeeps

LEMMA JumpToRegisterKeeps == Inv /\ JumpToRegister => Inv' /\ Dropless
<1>1. SUFFICES ASSUME Inv, JumpToRegister  PROVE Inv' /\ Dropless  OBVIOUS
<1>2. Command /\ Quiet /\ dirty' = dirty /\ jstack' = jstack  BY <1>1 DEF JumpToRegister
<1>3. /\ Steady(ws) /\ Level(ws) /\ dirty \subseteq Live(ws)
      /\ register \in Address \cup {Nil}
      /\ jstack \in Seq(Name \ Popup) /\ Len(jstack) <= JumpLimit
  BY <1>1, <1>2, CommandIs DEF Steady
<1>4. register' \in Address \cup {Nil}  BY <1>1, <1>3 DEF JumpToRegister
<1>5. Steady(ws') /\ Live(ws') = Live(ws)
  <2>1. CASE ws' = ws  BY <1>3, <2>1
  <2>2. CASE ws' # ws
    <3>1. register \in Live(ws) /\ ws' = ShowFocused(ws, register)
      BY <1>1, <2>2 DEF JumpToRegister
    <3>2. QED  BY <1>3, <3>1, ShowFocusedKeeps
  <2>3. QED  BY <2>1, <2>2
<1>6. jstack' \in Seq(Name \ Popup) /\ Len(jstack') <= JumpLimit /\ dirty' \subseteq Live(ws')
  BY <1>2, <1>3, <1>5
<1>7. QED  BY <1>1, <1>2, <1>4, <1>5, <1>6, QuietKeeps

LEMMA PushedIs ==
  ASSUME NEW S, NEW q \in Seq(S), Len(q) <= JumpLimit, NEW n \in S
  PROVE  PushLocation(q, n) \in Seq(S) /\ Len(PushLocation(q, n)) <= JumpLimit
<1>1. JumpLimit \in Nat \ {0} /\ Len(q) \in Nat  OBVIOUS
<1>2. CASE Len(q) = JumpLimit
  <2>1. Tail(q) \in Seq(S) /\ Len(Tail(q)) = Len(q) - 1  BY <1>1, <1>2
  <2> DEFINE u == Tail(q)
  <2>2. PushLocation(q, n) = Append(u, n)  BY <1>2 DEF PushLocation
  <2> HIDE DEF u
  <2>3. Append(u, n) \in Seq(S) /\ Len(Append(u, n)) = Len(u) + 1  BY <2>1 DEF u
  <2>4. QED  BY <1>1, <1>2, <2>1, <2>2, <2>3 DEF u
<1>3. CASE Len(q) # JumpLimit
  <2>1. PushLocation(q, n) = Append(q, n)  BY <1>3 DEF PushLocation
  <2>2. Append(q, n) \in Seq(S) /\ Len(Append(q, n)) = Len(q) + 1  OBVIOUS
  <2>3. QED  BY <1>1, <1>3, <2>1, <2>2
<1>4. QED  BY <1>2, <1>3

LEMMA CtagsJumpKeeps == Inv /\ CtagsJump => Inv' /\ Dropless
<1>1. SUFFICES ASSUME Inv, CtagsJump  PROVE Inv' /\ Dropless  OBVIOUS
<1> DEFINE n == IF ws.name[ws.buf] = NoName THEN Scratch ELSE ws.name[ws.buf]
<1>2. /\ Command /\ Quiet /\ dirty' = dirty /\ register' = register
      /\ jstack' = PushLocation(jstack, n)
      /\ \E f \in File : ws' \in SwitchToFile(ws, f)
  BY <1>1 DEF CtagsJump
<1>3. /\ Steady(ws) /\ dirty \subseteq Live(ws) /\ register \in Address \cup {Nil}
      /\ jstack \in Seq(Name \ Popup) /\ Len(jstack) <= JumpLimit
      /\ ws.name[ws.buf] \in Name \ Popup
  BY <1>1, <1>2, CommandIs
<1>4. n \in Name \ Popup  BY <1>3 DEF Name, Special
<1> HIDE DEF n
<1>5. jstack' \in Seq(Name \ Popup) /\ Len(jstack') <= JumpLimit  BY <1>2, <1>3, <1>4, PushedIs
<1>6. Steady(ws') /\ Live(ws) \subseteq Live(ws')
  <2>1. PICK f \in File : ws' \in SwitchToFile(ws, f)  BY <1>2
  <2>2. f \in Name \ Popup  BY DEF Name, Special
  <2>3. QED  BY <1>3, <2>1, <2>2, SwitchToFileKeeps
<1>7. QED  BY <1>1, <1>2, <1>3, <1>5, <1>6, QuietKeeps

LEMMA CtagsBackKeeps == Inv /\ CtagsBack => Inv' /\ Dropless
<1>1. SUFFICES ASSUME Inv, CtagsBack  PROVE Inv' /\ Dropless  OBVIOUS
<1>2. /\ Command /\ Quiet /\ dirty' = dirty /\ register' = register
      /\ jstack # <<>> /\ jstack' = Front(jstack)
      /\ ws' \in SwitchToFile(ws, Last(jstack))
  BY <1>1 DEF CtagsBack
<1>3. /\ Steady(ws) /\ dirty \subseteq Live(ws) /\ register \in Address \cup {Nil}
      /\ jstack \in Seq(Name \ Popup) /\ Len(jstack) <= JumpLimit
  BY <1>1, <1>2, CommandIs
<1> DEFINE S == Name \ Popup
<1>4. jstack' \in Seq(S) /\ Len(jstack') <= JumpLimit
  <2> DEFINE n == Len(jstack)
             m == n - 1
  <2>1. n \in Nat /\ n >= 1 /\ \A i \in 1..n : jstack[i] \in S  BY <1>2, <1>3
  <2>2. Front(jstack) = SubSeq(jstack, 1, m)  BY DEF Front
  <2>3. m \in Nat /\ \A i \in 1..m : jstack[i] \in S  BY <2>1
  <2> HIDE DEF m, S
  <2>4. m - 1 + 1 = m /\ m \in Int  BY <2>3
  <2>5. SubSeq(jstack, 1, m) \in Seq(S) /\ Len(SubSeq(jstack, 1, m)) = m
    BY <2>3, <2>4, SubSeqProperties
  <2>6. n <= JumpLimit /\ m <= n  BY <1>3, <2>1 DEF m
  <2>7. QED  BY <1>2, <2>1, <2>2, <2>3, <2>5, <2>6
<1>5. Last(jstack) \in S
  <2>1. Len(jstack) \in DOMAIN jstack  BY <1>2, <1>3
  <2>2. QED  BY <1>3, <2>1, StacksAre DEF Last
<1>6. Steady(ws') /\ Live(ws) \subseteq Live(ws')  BY <1>2, <1>3, <1>5, SwitchToFileKeeps
<1>7. QED  BY <1>1, <1>2, <1>3, <1>4, <1>6, QuietKeeps

-----------------------------------------------------------------------------
(* Prompts *)

LEMMA PromptIs ==
  ASSUME Inv, InPrompt
  PROVE  /\ Sound(ws) /\ Once(ws) /\ Focus(ws) /\ ws.buf = Minibuf /\ viewing = FALSE
         /\ edbuf \in Address /\ Shows(ws, edbuf) /\ Fits(ws, edbuf) /\ Live(ws) \subseteq Address
         /\ \A b \in Live(ws) : ws.name[b] \in Popup => ws.name[b] = Completions
         /\ dirty \subseteq Live(ws) /\ \A b \in dirty : ws.name[b] \notin Popup
         /\ register \in Address \cup {Nil} /\ jstack \in Seq(Name \ Popup)
         /\ Len(jstack) <= JumpLimit
<1>1. edbuf # Nil /\ palette = Nil  BY DEF InPrompt
<1>2. /\ edbuf \in Address /\ viewing \in BOOLEAN /\ dirty \subseteq Live(ws)
      /\ register \in Address \cup {Nil} /\ Len(jstack) <= JumpLimit
  BY <1>1 DEF Inv, TypeOK
<1>3. /\ viewing = FALSE /\ Shows(ws, edbuf) /\ jstack \in Seq(Name \ Popup)
      /\ \A b \in dirty : ws.name[b] \notin Popup
  BY <1>1, <1>2 DEF Inv, Others
<1>4. Sound(ws) /\ Once(ws) /\ Focus(ws) /\ ws.buf = Minibuf /\ Fits(ws, edbuf)
  BY <1>1 DEF Inv, Place
<1>5. \A b \in Live(ws) : ws.name[b] \in Popup => ws.name[b] = Completions
  BY <1>1, <1>3 DEF Inv, Popups, Popup
<1>6. QED  BY <1>2, <1>3, <1>4, <1>5, SoundIs

LEMMA Assembled ==
  ASSUME Sound(ws'), Once(ws'), Popups', Place', Others', dirty' \subseteq Live(ws'),
         edbuf' \in Address \cup {Nil}, viewing' \in BOOLEAN,
         palette' \in [origin : Address \cup {Minibuf}, win : Nat] \cup {Nil},
         register' \in Address \cup {Nil}, Len(jstack') <= JumpLimit, agreed' \in BOOLEAN
  PROVE  Inv'
<1>1. ws' \in State  BY DEF Sound
<1>2. jstack' \in Seq(Name)
  <2>1. jstack' \in Seq(Name \ Popup)  BY DEF Others
  <2>2. QED  BY <2>1, StacksAre
<1>3. TypeOK'
  <2>1. dirty' \subseteq ToSet(ws'.list)  BY DEF Live
  <2>2. QED  BY <1>1, <1>2, <2>1 DEF TypeOK, Live
<1>4. QED  BY <1>3 DEF Inv

LEMMA PromptAgain ==
  ASSUME Sound(ws'), Once(ws'), Focus(ws'), ws'.buf = Minibuf,
         edbuf' \in Address, viewing' = FALSE, palette' = Nil, Shows(ws', edbuf'), Fits(ws', edbuf'),
         \A b \in Live(ws') : ws'.name[b] \in Popup => ws'.name[b] = Completions,
         dirty' \subseteq Live(ws'), \A b \in dirty' : ws'.name[b] \notin Popup,
         register' \in Address \cup {Nil}, jstack' \in Seq(Name \ Popup),
         Len(jstack') <= JumpLimit, agreed' \in BOOLEAN
  PROVE  Inv'
<1>1. edbuf' # Nil  OBVIOUS
<1>2. Popups'
  <2>1. \A b \in ToSet(ws'.list) : ws'.name[b] \in Popup => ws'.name[b] = Completions  BY DEF Live
  <2>2. QED  BY <1>1, <2>1 DEF Popups, Popup, Live
<1>3. Place'  BY <1>1 DEF Place
<1>4. Others'  BY DEF Others
<1>5. QED  BY <1>2, <1>3, <1>4, Assembled

LEMMA OpenPromptKeeps == Inv /\ OpenPrompt => Inv' /\ Dropless
<1>1. SUFFICES ASSUME Inv, OpenPrompt  PROVE Inv' /\ Dropless  OBVIOUS
<1>2. /\ Command /\ edbuf' = ws.buf /\ ws' = [ws EXCEPT !.buf = Minibuf] /\ agreed' = FALSE
      /\ dirty' = dirty /\ viewing' = viewing /\ palette' = palette
      /\ register' = register /\ jstack' = jstack
  BY <1>1 DEF OpenPrompt, Rest
<1>3. /\ Steady(ws) /\ ws.buf \in Live(ws) /\ Live(ws) \subseteq Address
      /\ dirty \subseteq Live(ws) /\ register \in Address \cup {Nil} /\ viewing = FALSE
      /\ jstack \in Seq(Name \ Popup) /\ Len(jstack) <= JumpLimit
      /\ \A b \in Live(ws) : ws.name[b] \notin Popup
  BY <1>1, <1>2, CommandIs
<1>4. Sound(ws) /\ Once(ws) /\ Focus(ws) /\ ws \in State  BY <1>3, SteadyIs, LevelIs DEF Sound
<1>5. /\ Record(ws') /\ ws'.buf = Minibuf
      /\ ws'.list = ws.list /\ ws'.windows = ws.windows /\ ws'.focused = ws.focused
      /\ ws'.last = ws.last /\ ws'.name = ws.name
  BY <1>2, <1>4, BufSet
<1>6. SameList(ws, ws')  BY <1>5 DEF SameList
<1>7. Sound(ws') /\ Live(ws') = Live(ws)
  <2>1. /\ ws'.windows \in Seq(Address) /\ ws'.windows # <<>> /\ ToSet(ws'.windows) \subseteq Live(ws)
        /\ ws'.focused # {} /\ ws'.focused \subseteq DOMAIN ws'.windows
    BY <1>4, <1>5, SoundIs DEF Sound
  <2>2. ws'.buf \in Address \cup {Minibuf, Nil}  BY <1>5
  <2>3. QED  BY <1>4, <1>5, <1>6, <2>1, <2>2, SameListKeeps
<1>8. Once(ws') /\ Focus(ws')  BY <1>4, <1>5, <1>7 DEF Once, Focus, NWindows
<1>9. Shows(ws', edbuf') /\ Fits(ws', edbuf')  BY <1>2, <1>3, <1>5 DEF Shows, Fits, Steady
<1>10. edbuf' \in Address /\ viewing' = FALSE /\ palette' = Nil  BY <1>2, <1>3 DEF Command
<1>11. /\ \A b \in Live(ws') : ws'.name[b] \in Popup => ws'.name[b] = Completions
       /\ dirty' \subseteq Live(ws') /\ \A b \in dirty' : ws'.name[b] \notin Popup
  BY <1>2, <1>3, <1>5, <1>7
<1>12. /\ register' \in Address \cup {Nil} /\ jstack' \in Seq(Name \ Popup)
       /\ Len(jstack') <= JumpLimit /\ agreed' \in BOOLEAN
  BY <1>2, <1>3
<1>13. Inv'  BY <1>5, <1>7, <1>8, <1>9, <1>10, <1>11, <1>12, PromptAgain
<1>14. Dropless  BY <1>3, <1>7 DEF Dropless
<1>15. QED  BY <1>13, <1>14

(* What happens in a prompt. *)
LEMMA InPromptKeeps ==
  ASSUME Inv, InPrompt, Quiet, Rest, dirty' = dirty,
         Sound(ws'), Once(ws'), Focus(ws'), ws'.buf = Minibuf, edbuf \in ToSet(ws'.windows),
         Fits(ws', edbuf),
         \A b \in Live(ws') : ws'.name[b] \in Popup => ws'.name[b] = Completions,
         \A b \in Live(ws) : ws.name[b] \notin Popup => b \in Live(ws') /\ ws'.name[b] = ws.name[b]
  PROVE  Inv' /\ Dropless
<1>1. /\ viewing = FALSE /\ edbuf \in Address /\ Shows(ws, edbuf) /\ ToSet(ws.windows) \subseteq Live(ws)
      /\ dirty \subseteq Live(ws) /\ \A b \in dirty : ws.name[b] \notin Popup
      /\ register \in Address \cup {Nil} /\ jstack \in Seq(Name \ Popup)
      /\ Len(jstack) <= JumpLimit
  BY PromptIs, SoundIs
<1>2. /\ edbuf' = edbuf /\ viewing' = viewing /\ palette' = Nil /\ agreed' = FALSE
      /\ register' = register /\ jstack' = jstack
  BY DEF Quiet, Modal, Rest, InPrompt
<1>3. Shows(ws', edbuf') /\ Fits(ws', edbuf')  BY <1>1, <1>2 DEF Shows
<1>4. dirty' \subseteq Live(ws') /\ \A b \in dirty' : ws'.name[b] \notin Popup  BY <1>1
<1>5. /\ edbuf' \in Address /\ viewing' = FALSE /\ palette' = Nil
      /\ register' \in Address \cup {Nil} /\ jstack' \in Seq(Name \ Popup)
      /\ Len(jstack') <= JumpLimit /\ agreed' \in BOOLEAN
  BY <1>1, <1>2
<1>6. Inv'  BY <1>3, <1>4, <1>5, PromptAgain
<1>7. Dropless  BY <1>1 DEF Dropless
<1>8. QED  BY <1>6, <1>7

LEMMA ShowCompletionsKeeps == Inv /\ ShowCompletions => Inv' /\ Dropless
<1>1. SUFFICES ASSUME Inv, ShowCompletions  PROVE Inv' /\ Dropless  OBVIOUS
<1>2. InPrompt /\ Quiet /\ Rest /\ dirty' = dirty /\ ws' \in Popped(ws, Completions)
  BY <1>1 DEF ShowCompletions
<1>3. /\ Sound(ws) /\ Once(ws) /\ Focus(ws) /\ ws.buf = Minibuf /\ Shows(ws, edbuf)
      /\ Fits(ws, edbuf)
      /\ \A b \in Live(ws) : ws.name[b] \in Popup => ws.name[b] = Completions
  BY <1>1, <1>2, PromptIs
<1>4. Completions \in Popup  BY DEF Popup
<1>5. /\ Sound(ws') /\ Once(ws') /\ Focus(ws')
      /\ \A b \in Live(ws') : ws'.name[b] \in Popup => ws'.name[b] = Completions
      /\ Live(ws) \subseteq Live(ws') /\ \A b \in Live(ws) : ws'.name[b] = ws.name[b]
      /\ ws'.buf = ws.buf /\ ToSet(ws.windows) \subseteq ToSet(ws'.windows)
      /\ \A c : Fits(ws, c) => Fits(ws', c)
  BY <1>2, <1>3, <1>4, PoppedKeeps
<1>6. /\ ws'.buf = Minibuf /\ edbuf \in ToSet(ws'.windows) /\ Fits(ws', edbuf)
      /\ \A b \in Live(ws) : ws.name[b] \notin Popup => b \in Live(ws') /\ ws'.name[b] = ws.name[b]
  BY <1>3, <1>5 DEF Shows
<1>7. QED  BY <1>1, <1>2, <1>5, <1>6, InPromptKeeps

LEMMA CloseCompletionsKeeps == Inv /\ CloseCompletions => Inv' /\ Dropless
<1>1. SUFFICES ASSUME Inv, CloseCompletions  PROVE Inv' /\ Dropless  OBVIOUS
<1>2. InPrompt /\ Quiet /\ Rest /\ dirty' = dirty /\ ws' = CloseSpecial(ws, Completions)
  BY <1>1 DEF CloseCompletions
<1>3. /\ Sound(ws) /\ Once(ws) /\ Focus(ws) /\ ws.buf = Minibuf /\ Shows(ws, edbuf)
      /\ Fits(ws, edbuf)
      /\ \A b \in Live(ws) : ws.name[b] \in Popup => ws.name[b] = Completions
      /\ Minibuf \notin Live(ws)
  BY <1>1, <1>2, PromptIs
<1>4. Completions \in Popup  BY DEF Popup
<1>5. /\ Level(ws') /\ Live(ws') = { b \in Live(ws) : ws.name[b] \notin Popup }
      /\ \A b \in Live(ws') : ws'.name[b] = ws.name[b]
      /\ \A b \in ToSet(ws.windows) : ws.name[b] \notin Popup => b \in ToSet(ws'.windows)
      /\ (ws.buf \in Live(ws) => ws.name[ws.buf] \notin Popup) => ws'.buf = ws.buf
      /\ \A c : Fits(ws, c) => Fits(ws', c)
  BY <1>2, <1>3, <1>4, Levelled
<1>6. Sound(ws') /\ Once(ws') /\ Focus(ws')  BY <1>5, LevelIs DEF Level
<1>7. /\ ws'.buf = Minibuf /\ edbuf \in ToSet(ws'.windows) /\ Fits(ws', edbuf)
      /\ \A b \in Live(ws') : ws'.name[b] \in Popup => ws'.name[b] = Completions
      /\ \A b \in Live(ws) : ws.name[b] \notin Popup => b \in Live(ws') /\ ws'.name[b] = ws.name[b]
  BY <1>3, <1>5 DEF Shows
<1>8. QED  BY <1>1, <1>2, <1>6, <1>7, InPromptKeeps

(* The prompt gone, what it was opened from is on the screen and current. *)
LEMMA ReturnedIs ==
  ASSUME Inv, InPrompt
  PROVE  /\ Steady(Returned) /\ Returned.buf = edbuf /\ edbuf \in Live(Returned)
         /\ Live(Returned) = { b \in Live(ws) : ws.name[b] \notin Popup }
         /\ \A b \in Live(Returned) : Returned.name[b] = ws.name[b]
         /\ dirty \subseteq Live(Returned)
<1>1. /\ Sound(ws) /\ Once(ws) /\ Focus(ws) /\ Shows(ws, edbuf) /\ Fits(ws, edbuf)
      /\ \A b \in Live(ws) : ws.name[b] \in Popup => ws.name[b] = Completions
      /\ dirty \subseteq Live(ws) /\ \A b \in dirty : ws.name[b] \notin Popup
  BY PromptIs
<1>2. Completions \in Popup  BY DEF Popup
<1> DEFINE s == CloseSpecial(ws, Completions)
           t == [s EXCEPT !.buf = edbuf]
<1>3. /\ Level(s) /\ Live(s) = { b \in Live(ws) : ws.name[b] \notin Popup }
      /\ \A b \in Live(s) : s.name[b] = ws.name[b]
      /\ \A b \in ToSet(ws.windows) : ws.name[b] \notin Popup => b \in ToSet(s.windows)
      /\ Fits(s, edbuf)
  <2> HIDE DEF s
  <2>1. s = CloseSpecial(ws, Completions)  BY DEF s
  <2>2. QED  BY <1>1, <1>2, <2>1, Levelled
<1>4. edbuf \in ToSet(s.windows)  BY <1>1, <1>3 DEF Shows
<1>5. Returned = t  BY DEF Returned
<1> HIDE DEF s
<1>6. Steady(t) /\ Live(t) = Live(s) /\ SameList(s, t) /\ t.buf = edbuf
  BY <1>3, <1>4, BufSetKeeps
<1> HIDE DEF t
<1>7. edbuf \in Live(t)  BY <1>6, SteadyIs
<1>8. QED  BY <1>1, <1>3, <1>5, <1>6, <1>7 DEF SameList

(* The command that asked, when it drops no buffer. *)
LEMMA ReturnKeeps ==
  ASSUME Inv, Return, agreed' = FALSE, dirty' = dirty,
         Steady(ws'), Live(Returned) \subseteq Live(ws')
  PROVE  Inv' /\ Dropless
<1>1. /\ InPrompt /\ edbuf' = Nil /\ viewing' = viewing /\ palette' = palette
      /\ register' = register /\ jstack' = jstack
  BY DEF Return, Rest
<1>2. /\ viewing = FALSE /\ register \in Address \cup {Nil} /\ jstack \in Seq(Name \ Popup)
      /\ Len(jstack) <= JumpLimit
  BY <1>1, PromptIs
<1>3. dirty \subseteq Live(Returned)  BY <1>1, ReturnedIs
<1>4. palette' = Nil /\ agreed' \in BOOLEAN  BY <1>1 DEF InPrompt
<1>5. Inv'  BY <1>1, <1>2, <1>3, <1>4, CommandAgain
<1>6. Dropless  BY <1>3 DEF Dropless
<1>7. QED  BY <1>5, <1>6

LEMMA CancelKeeps == Inv /\ Cancel => Inv' /\ Dropless
<1>1. SUFFICES ASSUME Inv, Cancel  PROVE Inv' /\ Dropless  OBVIOUS
<1>2. Return /\ ws' = Returned /\ agreed' = FALSE /\ dirty' = dirty  BY <1>1 DEF Cancel
<1>3. Steady(Returned)  BY <1>1, <1>2, ReturnedIs DEF Return
<1>4. QED  BY <1>1, <1>2, <1>3, ReturnKeeps

LEMMA FindFileKeeps == Inv /\ FindFile => Inv' /\ Dropless
<1>1. SUFFICES ASSUME Inv, FindFile  PROVE Inv' /\ Dropless  OBVIOUS
<1>2. Return /\ agreed' = FALSE /\ dirty' = dirty  BY <1>1 DEF FindFile
<1>3. PICK f \in File : ws' \in SwitchToFile(Returned, f)  BY <1>1 DEF FindFile
<1>4. Steady(Returned)  BY <1>1, <1>2, ReturnedIs DEF Return
<1>5. f \in Name \ Popup  BY DEF Name, Special
<1>6. Steady(ws') /\ Live(Returned) \subseteq Live(ws')  BY <1>3, <1>4, <1>5, SwitchToFileKeeps
<1>7. QED  BY <1>1, <1>2, <1>6, ReturnKeeps

LEMMA SwitchBufferKeeps == Inv /\ SwitchBuffer => Inv' /\ Dropless
<1>1. SUFFICES ASSUME Inv, SwitchBuffer  PROVE Inv' /\ Dropless  OBVIOUS
<1>2. Return /\ agreed' = FALSE /\ dirty' = dirty  BY <1>1 DEF SwitchBuffer
<1>3. PICK b \in Live(Returned) \ {edbuf} : ws' = [ShowFocused(Returned, b) EXCEPT !.last = edbuf]
  BY <1>1 DEF SwitchBuffer
<1>4. Steady(Returned) /\ edbuf \in Live(Returned)  BY <1>1, <1>2, ReturnedIs DEF Return
<1> DEFINE u == ShowFocused(Returned, b)
<1>5. Steady(u) /\ Live(u) = Live(Returned)  BY <1>4, ShowFocusedKeeps DEF Steady
<1>6. ws' = [u EXCEPT !.last = edbuf]  BY <1>3
<1> HIDE DEF u
<1>7. Sound(u) /\ u \in State  BY <1>5, SteadyIs DEF Sound
<1>8. /\ Record(ws') /\ ws'.last = edbuf
      /\ ws'.list = u.list /\ ws'.windows = u.windows /\ ws'.focused = u.focused
      /\ ws'.buf = u.buf /\ ws'.name = u.name
  BY <1>6, <1>7 DEF State, Record
<1>9. Live(ws') = Live(u)  BY <1>8 DEF Live
<1>10. edbuf \in Live(ws') /\ edbuf \in Address  BY <1>4, <1>5, <1>7, <1>9, SoundIs
<1>11. ws' \in State
  <2>1. /\ u.list \in Seq(Address) /\ u.windows \in Seq(Address)
        /\ u.focused \subseteq Nat \ {0} /\ u.buf \in Address \cup {Minibuf, Nil}
        /\ u.name \in [Address -> Name \cup {Nil}]
    BY <1>7, StateIs
  <2>2. QED  BY <1>8, <1>10, <2>1, RecordIs
<1>12. Sound(ws')  BY <1>7, <1>8, <1>9, <1>10, <1>11 DEF Sound
<1>13. Steady(ws')  BY <1>5, <1>8, <1>9, <1>12 DEF Steady, Level, NWindows, Fits
<1>14. QED  BY <1>1, <1>2, <1>5, <1>9, <1>13, ReturnKeeps

LEMMA ShellOutputKeeps == Inv /\ ShellOutput => Inv' /\ Dropless
<1>1. SUFFICES ASSUME Inv, ShellOutput  PROVE Inv' /\ Dropless  OBVIOUS
<1>2. Return /\ agreed' = FALSE /\ dirty' = dirty  BY <1>1 DEF ShellOutput
<1>3. PICK r \in WithNamed(Returned, Shell) : ws' = Route(r[1], r[2])  BY <1>1 DEF ShellOutput
<1>4. Level(Returned)  BY <1>1, <1>2, ReturnedIs DEF Return, Steady
<1>5. Shell \in Name \ Popup  BY DEF Name, Special
<1>6. Level(r[1]) /\ r[2] \in Live(r[1]) /\ Live(Returned) \subseteq Live(r[1])
  BY <1>3, <1>4, <1>5, WithNamedKeeps
<1>7. Steady(ws') /\ Live(ws') = Live(r[1])  BY <1>3, <1>6, RouteKeeps
<1>8. QED  BY <1>1, <1>2, <1>6, <1>7, ReturnKeeps

LEMMA RevertKeeps == Inv /\ Revert => Inv' /\ Dropless
<1>1. SUFFICES ASSUME Inv, Revert  PROVE Inv' /\ Dropless  OBVIOUS
<1>2. Return /\ dirty' = dirty \ {edbuf} /\ agreed' = FALSE  BY <1>1 DEF Revert
<1>3. /\ InPrompt /\ edbuf' = Nil /\ viewing' = viewing /\ palette' = palette
      /\ register' = register /\ jstack' = jstack
  BY <1>2 DEF Return, Rest
<1>4. /\ viewing = FALSE /\ register \in Address \cup {Nil} /\ jstack \in Seq(Name \ Popup)
      /\ Len(jstack) <= JumpLimit
  BY <1>1, <1>3, PromptIs
<1> DEFINE s == Returned
<1>5. Steady(s) /\ s.buf = edbuf /\ dirty \subseteq Live(s)  BY <1>1, <1>3, ReturnedIs
<1>6. PICK b \in Address \ Live(s) :
        ws' = [s EXCEPT !.list = [i \in DOMAIN @ |-> IF @[i] = edbuf THEN b ELSE @[i]],
                        !.windows = [i \in DOMAIN @ |-> IF @[i] = edbuf THEN b ELSE @[i]],
                        !.name[b] = s.name[edbuf], !.name[edbuf] = Nil,
                        !.buf = b, !.last = IF @ = edbuf THEN Nil ELSE @]
  BY <1>1 DEF Revert
<1> HIDE DEF s
<1>7. Steady(ws') /\ Live(ws') = (Live(s) \ {edbuf}) \cup {b}
  <2> DEFINE l == [i \in DOMAIN s.list |-> IF s.list[i] = edbuf THEN b ELSE s.list[i]]
             w == [i \in DOMAIN s.windows |-> IF s.windows[i] = edbuf THEN b ELSE s.windows[i]]
             m == [[s.name EXCEPT ![b] = s.name[edbuf]] EXCEPT ![edbuf] = Nil]
             a == IF s.last = edbuf THEN Nil ELSE s.last
  <2>1. /\ Sound(s) /\ s \in State /\ edbuf \in Live(s) /\ edbuf \in Address
        /\ \A i \in DOMAIN s.list : s.list[i] \in Address
        /\ \A i \in DOMAIN s.windows : s.windows[i] \in Address
        /\ Live(s) \subseteq Address
        /\ s.name \in [Address -> Name \cup {Nil}] /\ s.name[edbuf] \in Name
    <3>1. Sound(s) /\ edbuf \in Live(s)  BY <1>5, SteadyIs
    <3>2. /\ s \in State /\ Live(s) \subseteq Address
          /\ s.list \in Seq(Address) /\ s.windows \in Seq(Address)
      BY <3>1, SoundIs
    <3>3. s.name \in [Address -> Name \cup {Nil}] /\ s.name[edbuf] \in Name
      BY <3>1, <3>2, StateIs DEF Sound
    <3>4. QED  BY <3>1, <3>2, <3>3
  <2>2. /\ l \in [DOMAIN s.list -> Address] /\ w \in [DOMAIN s.windows -> Address]
        /\ \A i \in DOMAIN s.list : l[i] = IF s.list[i] = edbuf THEN b ELSE s.list[i]
        /\ \A i \in DOMAIN s.windows : w[i] = IF s.windows[i] = edbuf THEN b ELSE s.windows[i]
    BY <2>1
  <2>3. ws' = [s EXCEPT !.list = l, !.windows = w,
                        !.name[b] = s.name[edbuf], !.name[edbuf] = Nil,
                        !.buf = b, !.last = IF @ = edbuf THEN Nil ELSE @]
    BY <1>6
  <2> HIDE DEF l, w
  <2>4. /\ Record(ws') /\ ws'.list = l /\ ws'.windows = w /\ ws'.focused = s.focused
        /\ ws'.buf = b
    BY <2>1, <2>3 DEF State, Record
  <2>5. ws'.name = m  BY <2>1, <2>3 DEF State
  <2>6. ws'.last = a  BY <2>1, <2>3 DEF State
  <2>7. m \in [Address -> Name \cup {Nil}]  BY <2>1
  <2>8. m[b] = s.name[edbuf] /\ \A c \in Live(s) \ {edbuf} : m[c] = s.name[c]  BY <2>1
  <2>9. a \in {s.last, Nil} /\ a # edbuf  BY <2>1
  <2> HIDE DEF m, a
  <2>10. edbuf = s.buf  BY <1>5
  <2>11. QED  BY <1>5, <2>2, <2>4, <2>5, <2>6, <2>7, <2>8, <2>9, <2>10, ReplaceKeeps
<1>8. dirty' \subseteq Live(ws')  BY <1>2, <1>5, <1>7
<1>9. palette' = Nil /\ agreed' \in BOOLEAN  BY <1>2, <1>3 DEF InPrompt
<1>10. Inv'  BY <1>3, <1>4, <1>7, <1>8, <1>9, CommandAgain
<1>11. \A c \in dirty : c \notin Live(ws') => c = edbuf  BY <1>5, <1>7
<1>12. QED  BY <1>1, <1>10, <1>11 DEF Dropless

-----------------------------------------------------------------------------
(* Popups of their own *)

LEMMA ShowRegisterPreviewKeeps == Inv /\ ShowRegisterPreview => Inv' /\ Dropless
<1>1. SUFFICES ASSUME Inv, ShowRegisterPreview  PROVE Inv' /\ Dropless  OBVIOUS
<1>2. /\ Command /\ ws' \in Popped(ws, Preview) /\ viewing' = TRUE /\ agreed' = FALSE
      /\ dirty' = dirty /\ edbuf' = edbuf /\ palette' = palette
      /\ register' = register /\ jstack' = jstack
  BY <1>1 DEF ShowRegisterPreview, Rest
<1>3. /\ Steady(ws) /\ dirty \subseteq Live(ws) /\ register \in Address \cup {Nil}
      /\ jstack \in Seq(Name \ Popup) /\ Len(jstack) <= JumpLimit
      /\ \A b \in Live(ws) : ws.name[b] \notin Popup
      /\ edbuf' = Nil /\ palette' = Nil
  BY <1>1, <1>2, CommandIs DEF Command
<1>4. Sound(ws) /\ Once(ws) /\ Focus(ws) /\ ws.buf \in Live(ws)
  BY <1>3, SteadyIs, LevelIs
<1>5. /\ Preview \in Popup /\ Preview # Completions /\ Preview # Palette
      /\ \A b \in Live(ws) : ws.name[b] \in Popup => ws.name[b] = Preview
  BY <1>3 DEF Popup
<1>6. /\ Sound(ws') /\ Once(ws') /\ Focus(ws')
      /\ \A b \in Live(ws') : ws'.name[b] \in Popup => ws'.name[b] = Preview
      /\ Live(ws) \subseteq Live(ws') /\ \A b \in Live(ws) : ws'.name[b] = ws.name[b]
      /\ ws'.buf = ws.buf /\ ToSet(ws.windows) \subseteq ToSet(ws'.windows)
      /\ \A c : Fits(ws, c) => Fits(ws', c)
  BY <1>2, <1>4, <1>5, PoppedKeeps
<1>7. Popups'
  <2>1. \A b \in ToSet(ws'.list) : ws'.name[b] \in Popup => ws'.name[b] = Preview
    BY <1>6 DEF Live
  <2>2. QED  BY <1>2, <1>5, <2>1 DEF Popups, Popup, Live
<1>8. Shows(ws', ws'.buf) /\ Fits(ws', ws'.buf)
  BY <1>3, <1>4, <1>6 DEF Shows, Steady
<1>9. Place'  BY <1>3, <1>6, <1>8 DEF Place
<1>10. Others'
  <2>1. \A b \in dirty' : ws'.name[b] \notin Popup  BY <1>2, <1>3, <1>6
  <2>2. jstack' \in Seq(Name \ Popup)  BY <1>2, <1>3
  <2>3. QED  BY <1>3, <2>1, <2>2 DEF Others
<1>11. /\ dirty' \subseteq Live(ws') /\ edbuf' \in Address \cup {Nil} /\ viewing' \in BOOLEAN
       /\ palette' \in [origin : Address \cup {Minibuf}, win : Nat] \cup {Nil}
       /\ register' \in Address \cup {Nil} /\ Len(jstack') <= JumpLimit /\ agreed' \in BOOLEAN
  BY <1>2, <1>3, <1>6
<1>12. Inv'  BY <1>6, <1>7, <1>9, <1>10, <1>11, Assembled
<1>13. Dropless  BY <1>3, <1>6 DEF Dropless
<1>14. QED  BY <1>12, <1>13

LEMMA ShowRegisterOutputKeeps == Inv /\ ShowRegisterOutput => Inv' /\ Dropless
<1>1. SUFFICES ASSUME Inv, ShowRegisterOutput  PROVE Inv' /\ Dropless  OBVIOUS
<1> DEFINE s == CloseSpecial(ws, Preview)
<1>2. /\ viewing /\ viewing' = FALSE /\ agreed' = FALSE
      /\ ws' = s \/ ws' \in Popped(s, Output)
      /\ dirty' = dirty /\ edbuf' = edbuf /\ palette' = palette
      /\ register' = register /\ jstack' = jstack
  BY <1>1 DEF ShowRegisterOutput, Rest
<1>3. edbuf = Nil /\ palette = Nil  BY <1>1, <1>2 DEF Inv, Others
<1>4. /\ Sound(ws) /\ Once(ws) /\ Focus(ws) /\ Shows(ws, ws.buf) /\ Fits(ws, ws.buf)
      /\ dirty \subseteq Live(ws) /\ \A b \in dirty : ws.name[b] \notin Popup
      /\ register \in Address \cup {Nil} /\ jstack \in Seq(Name \ Popup)
      /\ Len(jstack) <= JumpLimit
  BY <1>1, <1>3 DEF Inv, Place, Others, TypeOK
<1>5. /\ Preview \in Popup
      /\ \A b \in Live(ws) : ws.name[b] \in Popup => ws.name[b] = Preview
  BY <1>1, <1>3 DEF Inv, Popups, Popup
<1>6. /\ Level(s) /\ Live(s) = { b \in Live(ws) : ws.name[b] \notin Popup }
      /\ \A b \in ToSet(ws.windows) : ws.name[b] \notin Popup => b \in ToSet(s.windows)
      /\ (ws.buf \in Live(ws) => ws.name[ws.buf] \notin Popup) => s.buf = ws.buf
      /\ \A c : Fits(ws, c) => Fits(s, c)
  <2> HIDE DEF s
  <2>1. s = CloseSpecial(ws, Preview)  BY DEF s
  <2>2. QED  BY <1>4, <1>5, <2>1, Levelled
<1> HIDE DEF s
<1>7. Steady(s)  BY <1>4, <1>6 DEF Shows, Steady
<1>8. Output \in Name \ Popup  BY DEF Name, Special
<1>9. Steady(ws') /\ Live(s) \subseteq Live(ws')
  <2>1. CASE ws' = s  BY <1>7, <2>1
  <2>2. CASE ws' \in Popped(s, Output)  BY <1>7, <1>8, <2>2, OutputPopped
  <2>3. QED  BY <1>2, <2>1, <2>2
<1>10. dirty \subseteq Live(ws')  BY <1>4, <1>6, <1>9
<1>11. /\ edbuf' = Nil /\ viewing' = FALSE /\ palette' = Nil /\ dirty' \subseteq Live(ws')
       /\ register' \in Address \cup {Nil} /\ jstack' \in Seq(Name \ Popup)
       /\ Len(jstack') <= JumpLimit /\ agreed' \in BOOLEAN
  BY <1>2, <1>3, <1>4, <1>10
<1>12. Inv'  BY <1>9, <1>11, CommandAgain
<1>13. Dropless  BY <1>10 DEF Dropless
<1>14. QED  BY <1>12, <1>13

LEMMA ExpandPaletteKeeps == Inv /\ ExpandPalette => Inv' /\ Dropless
<1>1. SUFFICES ASSUME Inv, ExpandPalette  PROVE Inv' /\ Dropless  OBVIOUS
<1> DEFINE i == FocusedIdx(ws)
<1>2. /\ palette = Nil /\ ~ viewing /\ palette' = [origin |-> ws.buf, win |-> i]
      /\ agreed' = FALSE /\ dirty' = dirty /\ edbuf' = edbuf /\ viewing' = viewing
      /\ register' = register /\ jstack' = jstack
  BY <1>1 DEF ExpandPalette, Rest
<1>3. PICK r \in WithNamed(ws, Palette) :
        ws' = [ShowPopup(r[1], r[2]) EXCEPT
                 !.focused = (@ \ {i}) \cup {Min(Windows(ShowPopup(r[1], r[2]), r[2]))},
                 !.buf = r[2]]
  BY <1>1 DEF ExpandPalette
<1>4. /\ Sound(ws) /\ Once(ws) /\ Focus(ws)
      /\ dirty \subseteq Live(ws) /\ \A b \in dirty : ws.name[b] \notin Popup
      /\ register \in Address \cup {Nil} /\ jstack \in Seq(Name \ Popup)
      /\ Len(jstack) <= JumpLimit /\ viewing \in BOOLEAN /\ edbuf \in Address \cup {Nil}
      /\ IF edbuf = Nil THEN Shows(ws, ws.buf) ELSE ws.buf = Minibuf /\ Fits(ws, edbuf)
  BY <1>1, <1>2 DEF Inv, Place, Others, TypeOK
<1>5. /\ \A b \in Live(ws) : ws.name[b] # Palette /\ ws.name[b] # Preview
                             /\ (ws.name[b] = Completions => edbuf # Nil)
  BY <1>1, <1>2 DEF Inv, Popups
<1> HIDE DEF i
<1>6. /\ Sound(ws') /\ Once(ws') /\ ws'.buf \in Live(ws')
      /\ Live(ws) \subseteq Live(ws') /\ \A b \in Live(ws) : ws'.name[b] = ws.name[b]
      /\ \A b \in Live(ws') : b \in Live(ws) \/ ws'.name[b] = Palette
      /\ ToSet(ws.windows) \subseteq ToSet(ws'.windows)
      /\ i \in 1..NWindows(ws') /\ ws'.name[ws'.windows[i]] \notin Popup
      /\ \A j \in 1..NWindows(ws') : ws'.name[ws'.windows[j]] = Palette => j = NWindows(ws')
      /\ \A c : Fits(ws, c) => (i # 1 => ws'.windows[i] = c)
  <2> DEFINE p == ShowPopup(r[1], r[2])
             e == Min(Windows(p, r[2]))
  <2>1. ws' = [p EXCEPT !.focused = (@ \ {i}) \cup {e}, !.buf = r[2]]  BY <1>3
  <2>2. p = ShowPopup(r[1], r[2]) /\ i = FocusedIdx(ws) /\ e = Min(Windows(p, r[2]))  BY DEF i
  <2>3. p \in State
    <3>1. Sound(r[1]) /\ Windows(r[1], r[2]) = {} /\ r[2] \in Live(r[1])
      <4>1. Named(ws, Palette) = {} /\ Palette \in Name
        BY <1>5 DEF Named, Name, Special, Popup
      <4>2. r \in WithNew(ws, Palette)  BY <4>1 DEF WithNamed
      <4>3. /\ Sound(r[1]) /\ r[2] \in Address \ Live(ws) /\ Live(r[1]) = Live(ws) \cup {r[2]}
            /\ r[1].windows = ws.windows
        BY <1>4, <4>1, <4>2, WithNewKeeps
      <4>4. \A j \in DOMAIN ws.windows : ws.windows[j] \in Live(ws)  BY <1>4, SoundIs
      <4>5. QED  BY <4>3, <4>4 DEF Windows
    <3>2. Sound(p)  BY <2>2, <3>1, ShowPopupKeeps
    <3>3. QED  BY <3>2 DEF Sound
  <2> HIDE DEF p, e
  <2>4. /\ Record(ws') /\ ws'.windows = p.windows /\ ws'.buf = r[2] /\ SameList(p, ws')
    BY <2>1, <2>3 DEF State, Record, SameList
  <2>5. ws'.focused = (p.focused \ {i}) \cup {e}  BY <2>1, <2>3 DEF State
  <2>6. \A b \in Live(ws) : ws.name[b] # Palette  BY <1>5
  <2>7. QED  BY <1>4, <2>2, <2>4, <2>5, <2>6, PaletteKeeps
<1>7. /\ ToSet(ws.windows) \subseteq Live(ws) /\ Live(ws) \subseteq Address
      /\ NWindows(ws') \in Nat
  BY <1>4, <1>6, SoundIs
<1>8. ws.buf \in Address \cup {Minibuf} /\ i \in Nat
  <2>1. i \in Nat  BY <1>6, <1>7
  <2>2. QED  BY <1>4, <1>7, <2>1 DEF Shows
<1>9. palette' \in [origin : Address \cup {Minibuf}, win : Nat] /\ palette' # Nil
      /\ palette'.origin = ws.buf /\ palette'.win = i
  BY <1>2, <1>8
<1>10. Popups'
  <2>1. ASSUME NEW b \in ToSet(ws'.list)
        PROVE  /\ ws'.name[b] = Completions => edbuf' # Nil
               /\ ws'.name[b] # Preview
    <3>1. CASE b \in Live(ws)  BY <1>2, <1>5, <1>6, <3>1
    <3>2. CASE b \notin Live(ws)
      <4>1. ws'.name[b] = Palette  BY <1>6, <3>2 DEF Live
      <4>2. QED  BY <4>1
    <3>3. QED  BY <3>1, <3>2
  <2>2. QED  BY <1>9, <2>1 DEF Popups, Live
<1>11. Place'
  <2>1. edbuf' = Nil => Shows(ws', ws.buf)  BY <1>2, <1>4, <1>6, <1>7 DEF Shows
  <2>2. edbuf' # Nil => ws.buf = Minibuf /\ (i # 1 => ws'.windows[i] = edbuf')
    BY <1>2, <1>4, <1>6
  <2>3. QED  BY <1>6, <1>9, <2>1, <2>2 DEF Place
<1>12. Others'
  <2>1. \A b \in dirty' : ws'.name[b] \notin Popup  BY <1>2, <1>4, <1>6
  <2>2. edbuf' # Nil => Shows(ws', edbuf')
    <3>1. edbuf # Nil => Shows(ws, edbuf)  BY <1>1 DEF Inv, Others
    <3>2. QED  BY <1>2, <1>6, <1>7, <3>1 DEF Shows
  <2>3. QED  BY <1>2, <1>4, <2>1, <2>2 DEF Others
<1>13. /\ dirty' \subseteq Live(ws') /\ edbuf' \in Address \cup {Nil} /\ viewing' \in BOOLEAN
       /\ register' \in Address \cup {Nil} /\ Len(jstack') <= JumpLimit /\ agreed' \in BOOLEAN
  BY <1>2, <1>4, <1>6
<1>14. Inv'  BY <1>6, <1>9, <1>10, <1>11, <1>12, <1>13, Assembled
<1>15. Dropless  BY <1>4, <1>6 DEF Dropless
<1>16. QED  BY <1>14, <1>15

LEMMA ClosePaletteKeeps == Inv /\ ClosePalette => Inv' /\ Dropless
<1>1. SUFFICES ASSUME Inv, ClosePalette  PROVE Inv' /\ Dropless  OBVIOUS
<1> DEFINE s == CloseSpecial(ws, Palette)
           o == palette.origin
           k == palette.win
<1>2. /\ palette # Nil /\ ws' = RestoreFocus(s, o, k) /\ palette' = Nil /\ agreed' = FALSE
      /\ edbuf' = edbuf /\ viewing' = viewing /\ register' = register /\ jstack' = jstack
      /\ dirty' = dirty \/ /\ dirty' = dirty \cup {o} /\ o # Minibuf
  BY <1>1 DEF ClosePalette, Rest
<1>3. /\ Sound(ws) /\ Once(ws)
      /\ dirty \subseteq Live(ws) /\ \A b \in dirty : ws.name[b] \notin Popup
      /\ register \in Address \cup {Nil} /\ jstack \in Seq(Name \ Popup)
      /\ Len(jstack) <= JumpLimit /\ viewing = FALSE /\ edbuf \in Address \cup {Nil}
      /\ edbuf # Nil => Shows(ws, edbuf)
      /\ o \in Address \cup {Minibuf}
  BY <1>1, <1>2 DEF Inv, Others, TypeOK
<1>4. /\ k \in 1..NWindows(ws) /\ ws.name[ws.windows[k]] \notin Popup
      /\ \A i \in 1..NWindows(ws) : ws.name[ws.windows[i]] = Palette => i = NWindows(ws)
      /\ IF edbuf = Nil THEN Shows(ws, o)
         ELSE o = Minibuf /\ (k # 1 => ws.windows[k] = edbuf)
  BY <1>1, <1>2 DEF Inv, Place
<1>5. \A b \in Live(ws) : /\ ws.name[b] # Preview
                          /\ ws.name[b] = Completions => edbuf # Nil
  BY <1>1, <1>3 DEF Inv, Popups
<1>6. Palette \in Popup  BY DEF Popup
<1>7. /\ Sound(s) /\ Once(s) /\ Live(s) = { b \in Live(ws) : ws.name[b] # Palette }
      /\ \A b \in Live(s) : s.name[b] = ws.name[b]
      /\ \A b \in ToSet(ws.windows) : ws.name[b] # Palette => b \in ToSet(s.windows)
      /\ ws.windows[k] \in Live(s)
      /\ k \in 1..NWindows(s) /\ s.windows[k] = ws.windows[k]
  <2> HIDE DEF s, k
  <2>1. s = CloseSpecial(ws, Palette)  BY DEF s
  <2>2. ws.name[ws.windows[k]] # Palette  BY <1>4, <1>6
  <2>3. QED  BY <1>3, <1>4, <1>6, <2>1, <2>2, CloseSpecialKeeps
<1> HIDE DEF s, k, o
<1>8. ASSUME NEW b, Shows(ws, b)  PROVE Shows(s, b)
  <2>1. b \in ToSet(ws.windows) /\ ws.name[b] \notin Popup /\ b \in Live(ws)
    BY <1>3, <1>8, SoundIs DEF Shows
  <2>2. QED  BY <1>6, <1>7, <2>1 DEF Shows
<1>9. s.name[s.windows[k]] \notin Popup  BY <1>4, <1>7
<1>10. o \in Address => Shows(s, o)  BY <1>4, <1>8
<1>11. /\ Sound(ws') /\ Once(ws') /\ Focus(ws') /\ Live(ws') = Live(s) /\ SameList(s, ws')
       /\ ws'.buf = o /\ ws'.windows = s.windows
       /\ Fits(ws', IF o = Minibuf THEN edbuf ELSE o)
  <2>1. /\ Sound(s) /\ Once(s) /\ o \in Address \cup {Minibuf} /\ k \in 1..NWindows(s)
        /\ s.name[s.windows[k]] \notin Popup /\ (o \in Address => Shows(s, o))
        /\ ws' = RestoreFocus(s, o, k)
    BY <1>2, <1>3, <1>7, <1>9, <1>10
  <2>2. o = Minibuf /\ k # 1 => s.windows[k] = edbuf
    <3>1. edbuf = Nil => o \in Live(ws) /\ o # Minibuf  BY <1>3, <1>4, SoundIs DEF Shows
    <3>2. QED  BY <1>4, <1>7, <3>1
  <2>3. QED  BY <2>1, <2>2, RestoreFocusKeeps
<1>12. \A b : Shows(ws, b) => Shows(ws', b) /\ b \in Live(ws')
  <2>1. SUFFICES ASSUME NEW b, Shows(ws, b)  PROVE Shows(ws', b) /\ b \in Live(ws')  OBVIOUS
  <2>2. Shows(s, b)  BY <1>8, <2>1
  <2>3. Shows(ws', b)  BY <1>11, <2>2 DEF Shows, SameList
  <2>4. QED  BY <1>11, <2>3, SoundIs DEF Shows
<1>13. \A b \in Live(ws') : b \in Live(ws) /\ ws'.name[b] = ws.name[b] /\ ws.name[b] # Palette
  BY <1>7, <1>11 DEF SameList
<1>14. \A b \in Live(ws) : ws.name[b] # Palette => b \in Live(ws')  BY <1>7, <1>11
<1>15. dirty \subseteq Live(ws')  BY <1>3, <1>6, <1>14
<1>16. dirty' \subseteq Live(ws') /\ \A b \in dirty' : ws'.name[b] \notin Popup
  <2>1. o # Minibuf => Shows(ws', o) /\ o \in Live(ws')  BY <1>4, <1>12
  <2>2. \A b \in dirty : ws'.name[b] \notin Popup  BY <1>3, <1>13, <1>15
  <2>3. QED  BY <1>2, <1>15, <2>1, <2>2 DEF Shows
<1>17. /\ edbuf' = edbuf /\ viewing' = FALSE /\ palette' = Nil
       /\ register' \in Address \cup {Nil} /\ jstack' \in Seq(Name \ Popup)
       /\ Len(jstack') <= JumpLimit /\ agreed' \in BOOLEAN
  BY <1>2, <1>3
<1>18. \A b \in Live(ws') : ws'.name[b] \in Popup => edbuf # Nil /\ ws'.name[b] = Completions
  BY <1>5, <1>13 DEF Popup
<1>19. CASE edbuf = Nil
  <2>1. \A b \in Live(ws') : ws'.name[b] \notin Popup  BY <1>18, <1>19
  <2>2. Level(ws')  BY <1>11, <2>1, LevelIs
  <2>3. ws'.buf \in ToSet(ws'.windows)  BY <1>4, <1>11, <1>12, <1>19 DEF Shows
  <2>3a. Fits(ws', ws'.buf)
    <3>1. o # Minibuf  BY <1>4, <1>11, <1>12, <1>19, SoundIs
    <3>2. QED  BY <1>11, <3>1
  <2>4. Steady(ws')  BY <2>2, <2>3, <2>3a DEF Steady
  <2>5. edbuf' = Nil  BY <1>17, <1>19
  <2>6. Inv'  BY <1>16, <1>17, <2>4, <2>5, CommandAgain
  <2>7. QED  BY <1>15, <2>6 DEF Dropless
<1>20. CASE edbuf # Nil
  <2>1. ws'.buf = Minibuf /\ edbuf' \in Address  BY <1>3, <1>4, <1>11, <1>17, <1>20
  <2>2. Shows(ws', edbuf')  BY <1>3, <1>12, <1>17, <1>20
  <2>2a. Fits(ws', edbuf')  BY <1>4, <1>11, <1>17, <1>20
  <2>3. Inv'  BY <1>11, <1>16, <1>17, <1>18, <2>1, <2>2, <2>2a, PromptAgain
  <2>4. QED  BY <1>15, <2>3 DEF Dropless
<1>21. QED  BY <1>19, <1>20

-----------------------------------------------------------------------------
(* The specification *)

LEMMA InitOK == Init => Inv
<1>1. SUFFICES ASSUME Init  PROVE Inv  OBVIOUS
<1>2. PICK a \in Address, b \in Address, f \in File :
        /\ a # b
        /\ ws = [list |-> <<b, a>>, windows |-> <<b>>, focused |-> {1}, buf |-> b, last |-> Nil,
                 name |-> [c \in Address |-> IF c = b THEN f ELSE IF c = a THEN NoName ELSE Nil]]
  BY <1>1 DEF Init
<1>3. /\ f \in Name /\ NoName \in Name /\ f \notin Popup /\ NoName \notin Popup
  BY DEF Name, Special
<1>4. /\ ws.list = <<b, a>> /\ ws.windows = <<b>> /\ ws.focused = {1} /\ ws.buf = b
      /\ ws.last = Nil /\ Record(ws)
  BY <1>2 DEF Record
<1>5. /\ ws.name \in [Address -> Name \cup {Nil}] /\ ws.name[b] = f /\ ws.name[a] = NoName
  BY <1>2, <1>3
<1>6. /\ ws.list \in Seq(Address) /\ ws.list # <<>> /\ DOMAIN ws.list = 1..2
      /\ ws.list[1] = b /\ ws.list[2] = a
  BY <1>4
<1>7. ToSet(ws.list) = {a, b} /\ IsInjective(ws.list)  BY <1>2, <1>6 DEF ToSet, IsInjective
<1>8. /\ ws.windows \in Seq(Address) /\ ws.windows # <<>> /\ DOMAIN ws.windows = {1}
      /\ Len(ws.windows) = 1 /\ ws.windows[1] = b
  BY <1>4
<1>9. ToSet(ws.windows) = {b}  BY <1>8 DEF ToSet
<1>10. ws \in State
  <2>1. /\ ws.focused \subseteq Nat \ {0} /\ ws.buf \in Address \cup {Minibuf, Nil}
        /\ ws.last \in Address \cup {Nil}
    BY <1>4
  <2>2. QED  BY <1>4, <1>5, <1>6, <1>8, <2>1, RecordIs
<1>11. Live(ws) = {a, b}  BY <1>7 DEF Live
<1>12. \A c \in Live(ws) : ws.name[c] \in Name /\ ws.name[c] \notin Popup  BY <1>3, <1>5, <1>11
<1>13. Sound(ws)  BY <1>4, <1>6, <1>7, <1>8, <1>9, <1>10, <1>11, <1>12 DEF Sound
<1>14. Level(ws)
  <2>1. 1 \in 1..NWindows(ws)  BY <1>8 DEF NWindows
  <2>2. QED  BY <1>4, <1>12, <1>13, <2>1 DEF Level
<1>15. Steady(ws)  BY <1>4, <1>9, <1>14 DEF Steady, Fits
<1>16. Once(ws) /\ Focus(ws) /\ Shows(ws, ws.buf) /\ Fits(ws, ws.buf)
  <2>1. Once(ws) /\ Focus(ws)  BY <1>12, <1>13, <1>14, LevelIs
  <2>2. ws.buf \in Live(ws)  BY <1>15, SteadyIs
  <2>3. QED  BY <1>12, <1>15, <2>1, <2>2 DEF Shows, Steady
<1>17. /\ dirty = {} /\ edbuf = Nil /\ viewing = FALSE /\ palette = Nil
       /\ register = Nil /\ jstack = <<>> /\ agreed = FALSE
  BY <1>1 DEF Init
<1>18. TypeOK
  <2>1. jstack \in Seq(Name) /\ Len(jstack) <= JumpLimit  BY <1>17
  <2>2. QED  BY <1>10, <1>17, <2>1 DEF TypeOK
<1>19. Popups  BY <1>12 DEF Popups, Popup
<1>20. Place  BY <1>16, <1>17 DEF Place
<1>21. Others
  <2>1. jstack \in Seq(Name \ Popup)  BY <1>17
  <2>2. QED  BY <1>17, <2>1 DEF Others
<1>22. QED  BY <1>13, <1>16, <1>18, <1>19, <1>20, <1>21 DEF Inv

LEMMA StepKeeps == Inv /\ [Next]_vars => Inv' /\ (Dropless \/ UNCHANGED vars)
<1>1. SUFFICES ASSUME Inv, [Next]_vars  PROVE Inv' /\ (Dropless \/ UNCHANGED vars)
  OBVIOUS
<1>2. CASE UNCHANGED vars
  BY <1>1, <1>2 DEF vars, Inv, TypeOK, Popups, Place, Others, Sound, Once, Focus, Shows, Fits,
                    NWindows, Live
<1>3. CASE Next
  BY <1>1, <1>3, EditKeeps, SaveKeeps, WindowCommandKeeps, PreviousBufferKeeps,
     NextBufferKeeps, KillBufferKeeps, PointToRegisterKeeps, JumpToRegisterKeeps,
     CtagsJumpKeeps, CtagsBackKeeps, OpenPromptKeeps, ShowCompletionsKeeps,
     CloseCompletionsKeeps, CancelKeeps, FindFileKeeps, SwitchBufferKeeps,
     ShellOutputKeeps, RevertKeeps, ShowRegisterPreviewKeeps, ShowRegisterOutputKeeps,
     ExpandPaletteKeeps, ClosePaletteKeeps DEF Next
<1>4. QED  BY <1>1, <1>2, <1>3

LEMMA AlwaysInv == Spec => []Inv
<1>1. Inv /\ [Next]_vars => Inv'  BY StepKeeps
<1>2. QED  BY <1>1, InitOK, PTL DEF Spec

(* The types of E's fields: E.headbuf and what is reached from it, the      *)
(* windows, E.edbuf, the register and a tag stack of CTAGS_STACK_SIZE.      *)
THEOREM WorkspaceTypesCorrect == Spec => []TypeOK
<1>1. Inv => TypeOK  BY DEF Inv
<1>2. QED  BY <1>1, AlwaysInv, PTL

(* No freed buffer is referred to: what destroyBuffer frees is no window's, *)
(* nor E.buf, E.lastVisitedBuffer, E.edbuf or the palette's origin.         *)
THEOREM NoDanglingReference == Spec => []ReferencesLive
<1>1. Inv => ReferencesLive
  <2>1. SUFFICES ASSUME Inv  PROVE ReferencesLive  OBVIOUS
  <2>2. /\ Sound(ws) /\ ToSet(ws.windows) \subseteq Live(ws) /\ ws.list # <<>>
        /\ IsInjective(ws.list) /\ ws.last \in Live(ws) \cup {Nil}
    BY <2>1, SoundIs DEF Inv, Sound
  <2>3. edbuf \in Live(ws) \cup {Nil}  BY <2>1, <2>2 DEF Inv, Others, Shows
  <2>4. ws.buf \in Live(ws) \cup (IF edbuf # Nil THEN {Minibuf} ELSE {})
    BY <2>1, <2>2 DEF Inv, Place, Shows
  <2>5. palette # Nil => palette.origin \in Live(ws) \cup {Minibuf}
    BY <2>1, <2>2 DEF Inv, Place, Shows
  <2>6. QED  BY <2>2, <2>3, <2>4, <2>5 DEF ReferencesLive
<1>2. QED  BY <1>1, AlwaysInv, PTL

(* Whatever prompts, completions, previews and palettes came and went, with *)
(* closeSpecialBuffer and restoreFocusTo, between commands one window has   *)
(* the focus, the current buffer is shown, by that window unless it is the  *)
(* first, where showPopupBuffer puts the focus, and no popup is left.       *)
THEOREM ScreenComesBack == Spec => []ScreenRestored
<1>1. Inv => ScreenRestored
  <2>1. SUFFICES ASSUME Inv, Command
                 PROVE  /\ \E i \in DOMAIN ws.windows :
                             ws.focused = {i} /\ (i # 1 => ws.windows[i] = ws.buf)
                        /\ ws.buf \in ToSet(ws.windows)
                        /\ \A b \in Live(ws) : ws.name[b] \notin Popup
    BY DEF ScreenRestored
  <2>2. Steady(ws) /\ \A b \in Live(ws) : ws.name[b] \notin Popup  BY <2>1, CommandIs
  <2>3. DOMAIN ws.windows = 1..NWindows(ws)  BY <2>1, SoundIs DEF Inv
  <2>4. QED  BY <2>2, <2>3 DEF Steady, Level, Fits
<1>2. QED  BY <1>1, AlwaysInv, PTL

(* Only kill-buffer of the current buffer, when the user agreed, and revert *)
(* of the buffer it was asked for, without asking about its edits, take a   *)
(* modified buffer that visits a file off the list.                         *)
THEOREM EditsStay == Spec => NoEditsDropped
<1>1. Inv /\ [Next]_vars =>
        [\A b \in dirty : ws.name[b] \in File /\ b \notin Live(ws)' =>
            \/ agreed' /\ b = ws.buf
            \/ Revert /\ b = edbuf]_vars
  BY StepKeeps DEF Dropless, Live
<1>2. QED  BY <1>1, AlwaysInv, PTL DEF Spec, NoEditsDropped
=============================================================================
