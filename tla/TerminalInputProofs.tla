------------------------ MODULE TerminalInputProofs -------------------------
(***************************************************************************)
(* For any sizes of the buffers, any terminals and any threads: the keys   *)
(* come out of a terminal's FiFo as they were drawn, and no reader sleeps  *)
(* beside a key that nobody is about to take.                              *)
(***************************************************************************)
EXTENDS TerminalInput, SequenceTheorems, FiniteSetTheorems, TLAPS

Indices == 0..Size - 1

\* What can be in a FiFo, and where the console thread has such a key that is
\* drawn already.
Chars == {Key(kind, 0) : kind \in {"none", "letter", "capital", "newline", "backspace"}}
Hand == {"count", "get", "woken", "put"}

InputTypes ==
    /\ active_terminal_ \in Terminals
    /\ keyboard_buffer_ \in Seq(Keys)
    /\ input_buffer_ \in [Terminals -> [Indices -> Chars]]
    /\ ib_write_pos_ \in [Terminals -> Indices]
    /\ ib_read_pos_ \in [Terminals -> Indices]
    /\ pc \in [Threads -> {"poll", "write", "switch", "user"} \cup Hand]
    /\ out \in [Terminals -> Seq(Chars)]
    /\ echoed \in [Terminals -> Seq(Chars)]

\* The key in the hand of the console thread.
KeyInv ==
    /\ pc[Console] \in {"write"} \cup Hand => key \in Chars
    /\ pc[Console] = "switch" => key.n \in Terminals

InputInv == InputTypes /\ KeyInv /\ KeysComeOutAsEchoed

-----------------------------------------------------------------------------
(* Positions in a FiFo *)

\* The position after another, without the modulus.
LEMMA FollowingIs ==
  ASSUME NEW i \in Indices
  PROVE  /\ Following(i) = IF i + 1 = Size THEN 0 ELSE i + 1
         /\ Following(i) \in Indices
  BY InputAssumption DEF Following, Indices

\* How many keys there are between the positions, and where the i-th one is.
Used(w, r) == IF w > r THEN w - r - 1 ELSE w - r - 1 + Size
Place(r, i) == IF r + i < Size THEN r + i ELSE r + i - Size

\* The number of keys in a FiFo, without the modulus.
LEMMA UsedIs ==
  ASSUME NEW w \in Indices, NEW r \in Indices
  PROVE  (w - r - 1) % Size = Used(w, r) /\ Used(w, r) \in Indices /\ Used(w, r) \in Nat
  BY InputAssumption DEF Used, Indices

\* The position of the i-th key, without the modulus.
LEMMA PlaceIs ==
  ASSUME NEW r \in Indices, NEW i \in Indices
  PROVE  (r + i) % Size = Place(r, i) /\ Place(r, i) \in Indices
  BY InputAssumption DEF Place, Indices

\* The keys in buffer b between the positions, in these terms.
Line(b, w, r) == [i \in 1..Used(w, r) |-> b[Place(r, i)]]

\* The keys in a FiFo, read off its buffer.
LEMMA LineIs ==
  ASSUME NEW b \in [Indices -> Chars], NEW w \in Indices, NEW r \in Indices
  PROVE  /\ [i \in 1..(w - r - 1) % Size |-> b[(r + i) % Size]] = Line(b, w, r)
         /\ Line(b, w, r) \in Seq(Chars) /\ Len(Line(b, w, r)) = Used(w, r)
<1>1. Used(w, r) \in Indices /\ Used(w, r) \in Nat /\ (w - r - 1) % Size = Used(w, r)
  BY UsedIs
<1>2. \A i \in 1..Used(w, r) : (r + i) % Size = Place(r, i) /\ Place(r, i) \in Indices
  <2>1. \A i \in 1..Used(w, r) : i \in Indices
    BY <1>1, InputAssumption DEF Indices
  <2>2. QED
    BY <2>1, PlaceIs
<1>3. QED
  BY <1>1, <1>2 DEF Line

\* Append, entry by entry.
LEMMA AppendIs ==
  ASSUME NEW S, NEW q \in Seq(S), NEW k \in S
  PROVE  Append(q, k) = [i \in 1..Len(q) + 1 |-> IF i = Len(q) + 1 THEN k ELSE q[i]]
<1>1. Append(q, k) \in Seq(S) /\ Len(Append(q, k)) = Len(q) + 1 /\ Len(q) \in Nat
  OBVIOUS
<1>2. \A i \in 1..Len(q) + 1 : Append(q, k)[i] = IF i = Len(q) + 1 THEN k ELSE q[i]
  OBVIOUS
<1>3. Append(q, k) \in [1..Len(q) + 1 -> S]
  BY <1>1, LenProperties
<1>4. QED
  BY <1>2, <1>3

\* put, when there is room, adds a key at the end.
LEMMA LineAppends ==
  ASSUME NEW b \in [Indices -> Chars], NEW w \in Indices, NEW r \in Indices, w # r,
         NEW k \in Chars
  PROVE  Line([b EXCEPT ![w] = k], Following(w), r) = Append(Line(b, w, r), k)
<1> DEFINE n == Used(w, r)
           b2 == [b EXCEPT ![w] = k]
<1>1. n \in Indices /\ n \in Nat
  BY UsedIs
<1>2. Used(Following(w), r) = n + 1 /\ n + 1 < Size /\ Place(r, n + 1) = w
  <2>1. Following(w) = IF w + 1 = Size THEN 0 ELSE w + 1
    BY FollowingIs
  <2>2. QED
    BY <2>1, InputAssumption DEF Used, Place, Indices
<1>3. \A i \in 1..n : Place(r, i) # w /\ Place(r, i) \in Indices
  BY <1>1, InputAssumption DEF Used, Place, Indices
<1>4. Line(b, w, r) \in Seq(Chars) /\ Len(Line(b, w, r)) = n
  BY LineIs
<1>5. Line(b, w, r) = [i \in 1..n |-> b[Place(r, i)]]
  BY DEF Line
<1>6. b2[w] = k /\ \A i \in 1..n : b2[Place(r, i)] = b[Place(r, i)]
  BY <1>3
<1> HIDE DEF n, b2
<1>7. Line(b2, Following(w), r) = [i \in 1..n + 1 |-> b2[Place(r, i)]]
  BY <1>2 DEF Line
<1>8. Append(Line(b, w, r), k) = [i \in 1..n + 1 |-> IF i = n + 1 THEN k ELSE Line(b, w, r)[i]]
  BY <1>4, AppendIs
<1>9. \A i \in 1..n + 1 : b2[Place(r, i)] = IF i = n + 1 THEN k ELSE Line(b, w, r)[i]
  BY <1>1, <1>2, <1>5, <1>6
<1>10. QED
  BY <1>7, <1>8, <1>9 DEF b2

\* The rest of a sequence, one place further on.
LEMMA TailIs ==
  ASSUME NEW S, NEW s \in Seq(S), s # <<>>
  PROVE  Tail(s) = [i \in 1..Len(s) - 1 |-> s[i + 1]]
<1>1. Tail(s) \in Seq(S) /\ Len(Tail(s)) = Len(s) - 1 /\ Len(s) \in Nat
  OBVIOUS
<1>2. \A i \in 1..Len(s) - 1 : Tail(s)[i] = s[i + 1]
  OBVIOUS
<1>3. Tail(s) \in [1..Len(s) - 1 -> S]
  BY <1>1, LenProperties
<1>4. QED
  BY <1>2, <1>3

\* get, and put into a full buffer, take the key in front.
LEMMA LineTakes ==
  ASSUME NEW b \in [Indices -> Chars], NEW w \in Indices, NEW r \in Indices, w # Following(r)
  PROVE  /\ Line(b, w, r) # <<>>
         /\ Head(Line(b, w, r)) = b[Following(r)]
         /\ Line(b, w, Following(r)) = Tail(Line(b, w, r))
<1> DEFINE n == Used(w, r)
           f == Following(r)
<1>1. n \in Indices /\ n \in Nat
  BY UsedIs
<1>2. Used(w, f) = n - 1 /\ n > 0 /\ Place(r, 1) = f
  <2>1. f = (IF r + 1 = Size THEN 0 ELSE r + 1) /\ w # f
    BY FollowingIs
  <2>2. Size \in Nat /\ w \in Nat /\ r \in Nat /\ w < Size /\ r < Size
    BY InputAssumption DEF Indices
  <2>3. n = IF w > r THEN w - r - 1 ELSE w - r - 1 + Size
    BY DEF Used
  <2>4. Used(w, f) = IF w > f THEN w - f - 1 ELSE w - f - 1 + Size
    BY DEF Used
  <2> HIDE DEF n, f
  <2>5. CASE r + 1 = Size
    BY <2>1, <2>2, <2>3, <2>4, <2>5 DEF Place
  <2>6. CASE r + 1 # Size
    BY <2>1, <2>2, <2>3, <2>4, <2>6 DEF Place
  <2>7. QED
    BY <2>5, <2>6
<1>3. Line(b, w, r) \in Seq(Chars) /\ Len(Line(b, w, r)) = n
  BY LineIs
<1>4. \A i \in 1..n - 1 : Place(f, i) = Place(r, i + 1)
  <2>1. f = IF r + 1 = Size THEN 0 ELSE r + 1
    BY FollowingIs
  <2>2. n < Size
    BY <1>1, InputAssumption DEF Indices
  <2> HIDE DEF n, f
  <2>3. QED
    BY <1>1, <2>1, <2>2, InputAssumption DEF Place, Indices
<1>5. Line(b, w, r) = [i \in 1..n |-> b[Place(r, i)]]
  BY DEF Line
<1> HIDE DEF n, f
<1>6. Line(b, w, f) = [i \in 1..n - 1 |-> b[Place(r, i + 1)]]
  BY <1>2, <1>4 DEF Line
<1>7. Line(b, w, r) # <<>> /\ Head(Line(b, w, r)) = b[f]
  BY <1>1, <1>2, <1>3, <1>5
<1>8. Tail(Line(b, w, r)) = [i \in 1..n - 1 |-> Line(b, w, r)[i + 1]]
  BY <1>3, <1>7, TailIs
<1>9. \A i \in 1..n - 1 : Line(b, w, r)[i + 1] = b[Place(r, i + 1)]
  BY <1>1, <1>5
<1>10. QED
  BY <1>6, <1>7, <1>8, <1>9 DEF f

-----------------------------------------------------------------------------
(* Sequences *)

\* Moving the front of one sequence to the end of the one before it changes
\* nothing in what they are together.
LEMMA MoveFront ==
  ASSUME NEW S, NEW o \in Seq(S), NEW q \in Seq(S), q # <<>>
  PROVE  Append(o, Head(q)) \o Tail(q) = o \o q
<1>1. Len(q) \in Nat /\ Len(q) > 0 /\ Len(o) \in Nat
  BY EmptySeq
<1>2. Tail(q) \in Seq(S) /\ Len(Tail(q)) = Len(q) - 1
      /\ \A i \in 1..Len(q) - 1 : Tail(q)[i] = q[i + 1]
  BY <1>1
<1>3. Append(o, Head(q)) \in Seq(S) /\ Len(Append(o, Head(q))) = Len(o) + 1
      /\ Append(o, Head(q))[Len(o) + 1] = q[1]
      /\ \A i \in 1..Len(o) : Append(o, Head(q))[i] = o[i]
  BY <1>1
<1> DEFINE l == Append(o, Head(q)) \o Tail(q)
           m == o \o q
<1>4. l \in Seq(S) /\ m \in Seq(S) /\ Len(l) = Len(o) + Len(q) /\ Len(m) = Len(o) + Len(q)
  BY <1>1, <1>2, <1>3
<1>5. ASSUME NEW i \in 1..Len(o) + Len(q) PROVE l[i] = m[i]
  <2>1. CASE i <= Len(o)
    BY <1>1, <1>2, <1>3, <2>1
  <2>2. CASE i = Len(o) + 1
    BY <1>1, <1>2, <1>3, <2>2
  <2>3. CASE i > Len(o) + 1
    <3>1. l[i] = Tail(q)[i - (Len(o) + 1)]
      BY <1>1, <1>2, <1>3, <2>3
    <3>2. m[i] = q[i - Len(o)]
      BY <1>1, <2>3
    <3>3. i - (Len(o) + 1) \in 1..Len(q) - 1 /\ (i - (Len(o) + 1)) + 1 = i - Len(o)
      BY <1>1, <2>3
    <3>4. QED
      BY <1>2, <3>1, <3>2, <3>3
  <2>4. QED
    BY <1>1, <2>1, <2>2, <2>3
<1> HIDE DEF l, m
<1>6. l = m
  BY <1>4, <1>5
<1>7. QED
  BY <1>6 DEF l, m

\* A key at the end is at the end.
LEMMA PutBack ==
  ASSUME NEW S, NEW o \in Seq(S), NEW q \in Seq(S), NEW k \in S
  PROVE  /\ o \o Append(q, k) = Append(o \o q, k)
         /\ (o \o q) \o <<k>> = Append(o \o q, k)
<1>1. o \o q \in Seq(S)
  BY ConcatProperties
<1>2. (o \o q) \o <<k>> = Append(o \o q, k)
  BY <1>1, AppendIsConcat
<1>3. o \o Append(q, k) = o \o (q \o <<k>>)
  BY AppendIsConcat
<1>4. <<k>> \in Seq(S)
  OBVIOUS
<1>5. QED
  BY <1>2, <1>3, <1>4, ConcatAssociative

-----------------------------------------------------------------------------
(* The steps *)

\* The console thread is a thread and no reader.
LEMMA ConsoleIs == Console \in Threads /\ Readers \subseteq Threads /\ Console \notin Readers
  BY InputAssumption DEF Threads

\* Every displayable key has a character, every function key a terminal.
LEMMA KeyFacts ==
  ASSUME NEW k \in Keys
  PROVE  /\ IsDisplayable(k) => Remap(k) \in Chars
         /\ k.kind = "function" => k.n \in Terminals
<1>1. CASE \E kind \in {"letter", "newline", "backspace", "shift"} : k = Key(kind, 0)
  BY <1>1 DEF Key, IsDisplayable, Remap, Chars
<1>2. CASE \E n \in Terminals : k = Key("function", n)
  BY <1>2 DEF Key, IsDisplayable
<1>3. QED
  BY <1>1, <1>2 DEF Keys

\* The two views of the contents agree, before and after a step.
LEMMA ContentsNow ==
  ASSUME InputTypes, NEW t \in Terminals
  PROVE  /\ Contents(t) = Line(input_buffer_[t], ib_write_pos_[t], ib_read_pos_[t])
         /\ Contents(t) \in Seq(Chars)
         /\ input_buffer_[t] \in [Indices -> Chars]
         /\ ib_write_pos_[t] \in Indices /\ ib_read_pos_[t] \in Indices
         /\ out[t] \in Seq(Chars) /\ echoed[t] \in Seq(Chars)
<1>1. /\ input_buffer_[t] \in [Indices -> Chars]
      /\ ib_write_pos_[t] \in Indices /\ ib_read_pos_[t] \in Indices
      /\ out[t] \in Seq(Chars) /\ echoed[t] \in Seq(Chars)
  BY DEF InputTypes
<1>2. Contents(t) = Line(input_buffer_[t], ib_write_pos_[t], ib_read_pos_[t])
  BY <1>1, LineIs DEF Contents
<1>3. Contents(t) \in Seq(Chars)
  BY <1>1, <1>2, LineIs
<1>4. QED
  BY <1>1, <1>2, <1>3

\* The contents of a terminal's FiFo in the next state.
LEMMA ContentsNext ==
  ASSUME InputTypes', NEW t \in Terminals
  PROVE  Contents(t)' = Line(input_buffer_'[t], ib_write_pos_'[t], ib_read_pos_'[t])
  BY LineIs DEF InputTypes, Contents

\* A step that leaves a FiFo, what has left it and what was drawn alone, and
\* moves no key into or out of the console's hand.
LEMMA QuietInput ==
  ASSUME InputInv, UNCHANGED <<input_buffer_, ib_write_pos_, ib_read_pos_, out, echoed>>,
         active_terminal_' \in Terminals, keyboard_buffer_' \in Seq(Keys),
         pc' \in [Threads -> {"poll", "write", "switch", "user"} \cup Hand],
         KeyInv',
         \/ pc[Console] \in Hand /\ pc'[Console] \in Hand /\ UNCHANGED <<key, active_terminal_>>
         \/ pc[Console] \notin Hand /\ pc'[Console] \notin Hand
  PROVE  InputInv'
<1>1. InputTypes'
  BY DEF InputInv, InputTypes
<1>2. \A t \in Terminals : Contents(t)' = Contents(t)
  BY DEF Contents
<1>3. \A t \in Terminals : InHand(t)' = InHand(t)
  BY DEF InHand, Hand
<1>4. KeysComeOutAsEchoed'
  BY <1>2, <1>3 DEF KeysComeOutAsEchoed, InputInv
<1>5. QED
  BY <1>1, <1>4 DEF InputInv

\* A step of an interrupt or of a reader that takes nothing.
LEMMA OtherInput ==
  ASSUME InputInv,
         \/ \E k \in Keys : KeyPressed(k)
         \/ KeyReleased
         \/ \E x \in Readers : ReadLine(x) \/ WriteBackspace(x) \/ WaitToRead(x) \/ Backspace(x)
         \/ UNCHANGED vars
  PROVE  InputInv'
<1> USE DEF fifoVars, keyboardVars, Goto
<1>1. UNCHANGED <<input_buffer_, ib_write_pos_, ib_read_pos_, out, echoed, active_terminal_, key>>
  BY DEF KeyPressed, KeyReleased, ReadLine, WriteBackspace, WaitToRead, Backspace, vars
<1>2. keyboard_buffer_' \in Seq(Keys)
  <2>1. keyboard_buffer_ \in Seq(Keys)
    BY DEF InputInv, InputTypes
  <2>2. ASSUME NEW k \in Keys, KeyPressed(k) PROVE keyboard_buffer_' \in Seq(Keys)
    BY <2>1, <2>2, AppendProperties DEF KeyPressed
  <2>3. CASE UNCHANGED keyboard_buffer_
    BY <2>1, <2>3
  <2>4. QED
    BY <2>2, <2>3 DEF KeyReleased, ReadLine, WriteBackspace, WaitToRead, Backspace, vars
<1>3. /\ pc' \in [Threads -> {"poll", "write", "switch", "user"} \cup Hand]
      /\ pc'[Console] = pc[Console]
  <2>1. pc \in [Threads -> {"poll", "write", "switch", "user"} \cup Hand]
    BY DEF InputInv, InputTypes
  <2>2. ASSUME NEW x \in Readers, ReadLine(x) \/ WriteBackspace(x) \/ WaitToRead(x) \/ Backspace(x)
        PROVE  \E l \in {"user", "get", "woken", "count"} : pc' = [pc EXCEPT ![x] = l]
    BY <2>2, ConsoleIs DEF ReadLine, WriteBackspace, WaitToRead, Backspace, EndOfWrite
  <2>3. CASE \E x \in Readers : ReadLine(x) \/ WriteBackspace(x) \/ WaitToRead(x) \/ Backspace(x)
    <3>1. PICK x \in Readers, l \in {"user", "get", "woken", "count"} : pc' = [pc EXCEPT ![x] = l]
      BY <2>2, <2>3
    <3>2. x # Console /\ x \in Threads
      BY ConsoleIs
    <3>3. pc' \in [Threads -> {"poll", "write", "switch", "user"} \cup Hand]
      BY <2>1, <3>1 DEF Hand
    <3>4. CASE x = Console
      BY <2>1, <3>1, <3>2, <3>3, <3>4 DEF Hand
    <3>5. CASE x # Console
      <4>1. pc'[Console] = pc[Console]
        BY <2>1, <3>1, <3>5, ConsoleIs
      <4>2. QED
        BY <3>3, <4>1
    <3>6. QED
      BY <3>4, <3>5
  <2>4. CASE UNCHANGED pc
    BY <2>1, <2>4
  <2>5. QED
    BY <2>3, <2>4 DEF KeyPressed, KeyReleased, vars
<1>4. KeyInv'
  BY <1>1, <1>3 DEF InputInv, KeyInv
<1>5. active_terminal_' \in Terminals
  BY <1>1 DEF InputInv, InputTypes
<1>6. QED
  BY <1>1, <1>2, <1>3, <1>4, <1>5, QuietInput

\* The console's steps before a key is drawn, and while it waits to take one
\* back.
LEMMA ConsoleInput ==
  ASSUME InputInv, NextKey \/ SetActiveTerminal \/ WaitToRead(Console) \/ Backspace(Console)
  PROVE  InputInv'
<1> USE DEF fifoVars, keyboardVars, Goto
<1>1. UNCHANGED <<input_buffer_, ib_write_pos_, ib_read_pos_, out, echoed>>
  BY DEF NextKey, SetActiveTerminal, WaitToRead, Backspace
<1>2. /\ pc \in [Threads -> {"poll", "write", "switch", "user"} \cup Hand]
      /\ Console \in Threads
      /\ keyboard_buffer_ \in Seq(Keys) /\ active_terminal_ \in Terminals
  BY ConsoleIs DEF InputInv, InputTypes
<1>3. CASE NextKey
  <2> DEFINE k == Head(keyboard_buffer_)
  <2>1. /\ pc[Console] = "poll" /\ keyboard_buffer_ # <<>>
        /\ keyboard_buffer_' = Tail(keyboard_buffer_) /\ UNCHANGED active_terminal_
        /\ \/ IsDisplayable(k) /\ key' = Remap(k) /\ pc' = [pc EXCEPT ![Console] = "write"]
           \/ k.kind = "function" /\ key' = k /\ pc' = [pc EXCEPT ![Console] = "switch"]
           \/ UNCHANGED <<key, pc>>
    BY <1>3 DEF NextKey
  <2>2. k \in Keys /\ keyboard_buffer_' \in Seq(Keys)
    BY <1>2, <2>1, HeadTailProperties
  <2> HIDE DEF k
  <2>3. /\ IsDisplayable(k) => Remap(k) \in Chars
        /\ k.kind = "function" => k.n \in Terminals
    BY <2>2, KeyFacts
  <2>4. KeyInv'
    BY <1>2, <2>1, <2>3 DEF KeyInv, Hand
  <2>5. /\ pc' \in [Threads -> {"poll", "write", "switch", "user"} \cup Hand]
        /\ pc'[Console] \notin Hand /\ pc[Console] \notin Hand
    BY <1>2, <2>1 DEF Hand
  <2>6. QED
    BY <1>1, <1>2, <2>1, <2>2, <2>4, <2>5, QuietInput
<1>4. CASE SetActiveTerminal
  <2>1. /\ pc[Console] = "switch" /\ pc' = [pc EXCEPT ![Console] = "poll"]
        /\ active_terminal_' = key.n /\ UNCHANGED keyboard_buffer_
    BY <1>4 DEF SetActiveTerminal
  <2>2. active_terminal_' \in Terminals
    BY <2>1 DEF InputInv, KeyInv
  <2>3. /\ pc' \in [Threads -> {"poll", "write", "switch", "user"} \cup Hand]
        /\ pc'[Console] = "poll" /\ pc'[Console] \notin Hand /\ pc[Console] \notin Hand
    BY <1>2, <2>1 DEF Hand
  <2>4. KeyInv'
    BY <2>3 DEF KeyInv
  <2>5. QED
    BY <1>1, <1>2, <2>1, <2>2, <2>3, <2>4, QuietInput
<1>5. CASE WaitToRead(Console) \/ Backspace(Console)
  <2>1. /\ pc[Console] \in Hand /\ UNCHANGED <<key, active_terminal_, keyboard_buffer_>>
        /\ \E l \in {"woken", "get", "put"} : pc' = [pc EXCEPT ![Console] = l]
    BY <1>5 DEF WaitToRead, Backspace, EndOfWrite, Hand
  <2>2. /\ pc' \in [Threads -> {"poll", "write", "switch", "user"} \cup Hand]
        /\ pc'[Console] \in Hand
    BY <1>2, <2>1 DEF Hand
  <2>3. KeyInv'
    BY <2>1, <2>2 DEF InputInv, KeyInv, Hand
  <2>4. QED
    BY <1>1, <1>2, <2>1, <2>2, <2>3, QuietInput
<1>6. QED
  BY <1>3, <1>4, <1>5

\* A key is drawn.
LEMMA WriteInput ==
  ASSUME InputInv, Write
  PROVE  InputInv'
<1> USE DEF fifoVars, keyboardVars, Goto
<1> DEFINE a == active_terminal_
<1>1. /\ pc[Console] = "write" /\ echoed' = [echoed EXCEPT ![a] = Append(@, key)]
      /\ \E l \in {"count", "put"} : pc' = [pc EXCEPT ![Console] = l]
      /\ UNCHANGED <<input_buffer_, ib_write_pos_, ib_read_pos_, out, keyboard_buffer_,
                     active_terminal_, key>>
  BY DEF Write
<1>2. key \in Chars /\ a \in Terminals
  BY <1>1 DEF InputInv, KeyInv, InputTypes
<1>3. pc'[Console] \in {"count", "put"} /\ pc' \in [Threads -> {"poll", "write", "switch", "user"} \cup Hand]
  BY <1>1, ConsoleIs DEF InputInv, InputTypes, Hand
<1>4. echoed' \in [Terminals -> Seq(Chars)]
  <2>1. Append(echoed[a], key) \in Seq(Chars)
    BY <1>2, ContentsNow, AppendProperties DEF InputInv
  <2>2. QED
    BY <1>1, <2>1 DEF InputInv, InputTypes
<1>5. InputTypes'
  BY <1>1, <1>3, <1>4 DEF InputInv, InputTypes
<1>6. KeyInv'
  BY <1>1, <1>2, <1>3 DEF KeyInv
<1>7. \A t \in Terminals : Contents(t)' = Contents(t)
  BY <1>1 DEF Contents
<1>8. ASSUME NEW t \in Terminals
      PROVE  out'[t] \o Contents(t)' \o InHand(t)' = echoed'[t]
  <2>1. InHand(t) = <<>> /\ InHand(t)' = IF t = a THEN <<key>> ELSE <<>>
    BY <1>1, <1>3 DEF InHand
  <2>2. out[t] \in Seq(Chars) /\ Contents(t) \in Seq(Chars)
    BY ContentsNow DEF InputInv
  <2>3. out[t] \o Contents(t) = echoed[t]
    <3>1. out[t] \o Contents(t) \in Seq(Chars)
      BY <2>2, ConcatProperties
    <3>2. (out[t] \o Contents(t)) \o <<>> = out[t] \o Contents(t)
      BY <3>1, ConcatEmptySeq
    <3>3. QED
      BY <2>1, <3>2 DEF InputInv, KeysComeOutAsEchoed
  <2>4. CASE t = a
    <3>1. echoed'[t] = Append(echoed[t], key)
      BY <1>1, <1>2, <2>4 DEF InputInv, InputTypes
    <3>2. (out[t] \o Contents(t)) \o <<key>> = Append(out[t] \o Contents(t), key)
      BY <1>2, <2>2, PutBack
    <3>3. QED
      BY <1>1, <1>7, <2>1, <2>3, <2>4, <3>1, <3>2
  <2>5. CASE t # a
    BY <1>1, <1>7, <2>1, <2>2, <2>3, <2>5 DEF InputInv, InputTypes, KeysComeOutAsEchoed
  <2>6. QED
    BY <2>4, <2>5
<1>9. QED
  BY <1>5, <1>6, <1>8 DEF InputInv, KeysComeOutAsEchoed

\* A key is taken by a reader, or taken back by a backspace.
LEMMA TakeInput ==
  ASSUME InputInv, NEW x \in Threads, ReadCharacter(x) \/ TakeBack(x)
  PROVE  InputInv'
<1> USE DEF fifoVars, keyboardVars, Goto
<1> DEFINE a == Source(x)
           r == ib_read_pos_[a]
           w == ib_write_pos_[a]
           b == input_buffer_[a]
<1>1. /\ pc[x] \in {"get", "woken"} /\ w # Following(r)
      /\ ib_read_pos_' = [ib_read_pos_ EXCEPT ![a] = Following(@)]
      /\ out' = [out EXCEPT ![a] = Append(@, b[Following(r)])]
      /\ UNCHANGED <<input_buffer_, ib_write_pos_, echoed, keyboard_buffer_, active_terminal_, key>>
  BY DEF ReadCharacter, TakeBack, Take, NothingToRead
<1>2. a \in Terminals
  BY InputAssumption DEF Source, Threads, InputInv, InputTypes
<1>3. /\ b \in [Indices -> Chars] /\ w \in Indices /\ r \in Indices
      /\ Contents(a) = Line(b, w, r) /\ Contents(a) \in Seq(Chars) /\ out[a] \in Seq(Chars)
  BY <1>2, ContentsNow DEF InputInv
<1>4. Following(r) \in Indices
  BY <1>3, FollowingIs
<1>5. /\ pc' \in [Threads -> {"poll", "write", "switch", "user"} \cup Hand]
      /\ pc'[Console] = pc[Console] \/ (pc[Console] \in Hand /\ pc'[Console] \in Hand)
  <2>1. pc \in [Threads -> {"poll", "write", "switch", "user"} \cup Hand]
    BY DEF InputInv, InputTypes
  <2>2. CASE ReadCharacter(x)
    <3>1. PICK l \in {"user", "get"} : x # Console /\ pc' = [pc EXCEPT ![x] = l]
      BY <2>2, ConsoleIs DEF ReadCharacter
    <3>2. pc' \in [Threads -> {"poll", "write", "switch", "user"} \cup Hand]
      BY <2>1, <3>1 DEF Hand
    <3>3. pc'[Console] = pc[Console]
      BY <2>1, <3>1, ConsoleIs
    <3>4. QED
      BY <3>2, <3>3
  <2>3. CASE TakeBack(x)
    <3>1. PICK l \in {"put", "user"} :
            pc' = [pc EXCEPT ![x] = l] /\ (x = Console => l = "put")
      BY <2>3 DEF TakeBack, EndOfWrite
    <3>2. pc[x] \in Hand
      BY <1>1 DEF Hand
    <3>3. pc' \in [Threads -> {"poll", "write", "switch", "user"} \cup Hand]
      BY <2>1, <3>1 DEF Hand
    <3>4. CASE x = Console
      BY <2>1, <3>1, <3>2, <3>3, <3>4 DEF Hand
    <3>5. CASE x # Console
      <4>1. pc'[Console] = pc[Console]
        BY <2>1, <3>1, <3>5, ConsoleIs
      <4>2. QED
        BY <3>3, <4>1
    <3>6. QED
      BY <3>4, <3>5
  <2>4. QED
    BY <2>2, <2>3
<1> HIDE DEF a, r, w, b
<1>6. InputTypes'
  <2>1. Append(out[a], b[Following(r)]) \in Seq(Chars)
    BY <1>3, <1>4, AppendProperties
  <2>2. out' \in [Terminals -> Seq(Chars)]
    BY <1>1, <2>1 DEF InputInv, InputTypes
  <2>3. ib_read_pos_' \in [Terminals -> Indices]
    BY <1>1, <1>4 DEF InputInv, InputTypes, r
  <2>4. QED
    BY <1>1, <1>5, <2>2, <2>3 DEF InputInv, InputTypes
<1>7. KeyInv'
  BY <1>1, <1>5 DEF InputInv, KeyInv, Hand
<1>8. \A t \in Terminals : InHand(t)' = InHand(t)
  BY <1>1, <1>5 DEF InHand, Hand
<1>9. ASSUME NEW t \in Terminals
      PROVE  out'[t] \o Contents(t)' = out[t] \o Contents(t)
  <2>1. CASE t = a
    <3>1. Contents(t)' = Line(b, w, Following(r))
      BY <1>1, <1>2, <1>6, <2>1, ContentsNext DEF InputInv, InputTypes, b, w, r
    <3>2. /\ Contents(t) # <<>> /\ Head(Contents(t)) = b[Following(r)]
          /\ Contents(t)' = Tail(Contents(t))
      BY <1>1, <1>3, <2>1, <3>1, LineTakes
    <3>3. out'[t] = Append(out[t], Head(Contents(t)))
      BY <1>1, <1>2, <2>1, <3>2 DEF InputInv, InputTypes
    <3>4. QED
      BY <1>3, <2>1, <3>2, <3>3, MoveFront
  <2>2. CASE t # a
    <3>1. ib_read_pos_'[t] = ib_read_pos_[t] /\ out'[t] = out[t]
      BY <1>1, <2>2 DEF InputInv, InputTypes
    <3>2. Contents(t)' = Contents(t)
      BY <1>1, <1>6, <3>1, ContentsNow, ContentsNext DEF InputInv
    <3>3. QED
      BY <3>1, <3>2
  <2>3. QED
    BY <2>1, <2>2
<1>10. QED
  BY <1>1, <1>6, <1>7, <1>8, <1>9 DEF InputInv, KeysComeOutAsEchoed

\* The key in the console's hand goes to the end of the FiFo, whose oldest key
\* has left it before if it was full.
LEMMA PutInput ==
  ASSUME InputInv, Put
  PROVE  InputInv'
<1> USE DEF fifoVars, keyboardVars, Goto
<1> DEFINE a == active_terminal_
           r == ib_read_pos_[a]
           w == ib_write_pos_[a]
           b == input_buffer_[a]
<1>1. /\ pc[Console] = "put" /\ pc' = [pc EXCEPT ![Console] = "poll"]
      /\ input_buffer_' = [input_buffer_ EXCEPT ![a][w] = key]
      /\ ib_write_pos_' = [ib_write_pos_ EXCEPT ![a] = Following(@)]
      /\ UNCHANGED <<echoed, keyboard_buffer_, active_terminal_>>
  BY DEF Put
<1>2. a \in Terminals /\ key \in Chars
  BY <1>1 DEF InputInv, InputTypes, KeyInv, Hand
<1>3. /\ b \in [Indices -> Chars] /\ w \in Indices /\ r \in Indices
      /\ Contents(a) = Line(b, w, r) /\ Contents(a) \in Seq(Chars) /\ out[a] \in Seq(Chars)
  BY <1>2, ContentsNow DEF InputInv
<1>4. Following(r) \in Indices /\ Following(w) \in Indices /\ Following(r) # r
  <2>1. Following(r) = (IF r + 1 = Size THEN 0 ELSE r + 1) /\ Following(r) \in Indices
    BY <1>3, FollowingIs
  <2>2. Following(w) \in Indices
    BY <1>3, FollowingIs
  <2> HIDE DEF r, w
  <2>3. Following(r) # r
    BY <1>3, <2>1, InputAssumption DEF Indices
  <2>4. QED
    BY <2>1, <2>2, <2>3
<1>5. PICK s \in Indices, o \in Seq(Chars) :
        /\ s # w /\ ib_read_pos_' = [ib_read_pos_ EXCEPT ![a] = s] /\ out' = [out EXCEPT ![a] = o]
        /\ o \o Line(b, w, s) = out[a] \o Contents(a)
  <2>1. CASE w = r
    <3>1. /\ ib_read_pos_' = [ib_read_pos_ EXCEPT ![a] = Following(r)]
          /\ out' = [out EXCEPT ![a] = Append(out[a], Head(Contents(a)))]
      BY <2>1 DEF Put, Overwrite, IsFull
    <3>2. Contents(a) # <<>> /\ Line(b, w, Following(r)) = Tail(Contents(a))
      BY <1>3, <1>4, <2>1, LineTakes
    <3>3. Append(out[a], Head(Contents(a))) \in Seq(Chars)
      BY <1>3, <3>2, AppendProperties, HeadTailProperties
    <3>4. Append(out[a], Head(Contents(a))) \o Line(b, w, Following(r)) = out[a] \o Contents(a)
      BY <1>3, <3>2, MoveFront
    <3>5. QED
      BY <1>4, <2>1, <3>1, <3>3, <3>4
  <2>2. CASE w # r
    <3>1. UNCHANGED <<ib_read_pos_, out>>
      BY <2>2 DEF Put, Overwrite, IsFull
    <3>2. ib_read_pos_' = [ib_read_pos_ EXCEPT ![a] = r] /\ out' = [out EXCEPT ![a] = out[a]]
      BY <1>2, <3>1 DEF InputInv, InputTypes
    <3>3. QED
      BY <1>3, <2>2, <3>2
  <2>3. QED
    BY <2>1, <2>2
<1>6. /\ input_buffer_'[a] = [b EXCEPT ![w] = key] /\ ib_write_pos_'[a] = Following(w)
      /\ ib_read_pos_'[a] = s /\ out'[a] = o
      /\ \A t \in Terminals : t # a =>
            /\ input_buffer_'[t] = input_buffer_[t] /\ ib_write_pos_'[t] = ib_write_pos_[t]
            /\ ib_read_pos_'[t] = ib_read_pos_[t] /\ out'[t] = out[t]
  BY <1>1, <1>2, <1>5 DEF InputInv, InputTypes
<1>7. /\ pc' \in [Threads -> {"poll", "write", "switch", "user"} \cup Hand]
      /\ pc'[Console] = "poll"
  BY <1>1, ConsoleIs DEF InputInv, InputTypes
<1>8. KeyInv'
  BY <1>7 DEF KeyInv, Hand
<1> HIDE DEF r, w, b
<1>9. InputTypes'
  <2>1. [b EXCEPT ![w] = key] \in [Indices -> Chars]
    BY <1>2, <1>3
  <2>2. input_buffer_' \in [Terminals -> [Indices -> Chars]]
    BY <1>1, <1>3, <1>2 DEF InputInv, InputTypes
  <2>3. ib_write_pos_' \in [Terminals -> Indices]
    BY <1>1, <1>4 DEF InputInv, InputTypes, w
  <2>4. ib_read_pos_' \in [Terminals -> Indices] /\ out' \in [Terminals -> Seq(Chars)]
    BY <1>5 DEF InputInv, InputTypes
  <2>5. QED
    BY <1>1, <1>7, <2>2, <2>3, <2>4 DEF InputInv, InputTypes
<1>10. ASSUME NEW t \in Terminals
       PROVE  out'[t] \o Contents(t)' \o InHand(t)' = echoed'[t]
  <2>1. InHand(t)' = <<>> /\ InHand(t) = IF t = a THEN <<key>> ELSE <<>>
    BY <1>1, <1>7 DEF InHand
  <2>2. out[t] \o Contents(t) \o InHand(t) = echoed[t]
    BY DEF InputInv, KeysComeOutAsEchoed
  <2>3. CASE t = a
    <3>1. Line(b, w, s) \in Seq(Chars)
      BY <1>3, LineIs
    <3>2. Contents(t)' = Line([b EXCEPT ![w] = key], Following(w), s)
      BY <1>2, <1>6, <1>9, <2>3, ContentsNext
    <3>3. Contents(t)' = Append(Line(b, w, s), key)
      BY <1>2, <1>3, <1>5, <3>2, LineAppends
    <3>4. /\ o \o Append(Line(b, w, s), key) = Append(o \o Line(b, w, s), key)
          /\ (out[a] \o Contents(a)) \o <<key>> = Append(out[a] \o Contents(a), key)
      <4>1. o \o Append(Line(b, w, s), key) = Append(o \o Line(b, w, s), key)
        BY <1>2, <3>1, PutBack
      <4>2. (out[a] \o Contents(a)) \o <<key>> = Append(out[a] \o Contents(a), key)
        BY <1>2, <1>3, PutBack
      <4>3. QED
        BY <4>1, <4>2
    <3>5. out'[t] \o Contents(t)' = echoed[t]
      BY <1>5, <1>6, <2>1, <2>2, <2>3, <3>3, <3>4
    <3>6. echoed[t] \in Seq(Chars)
      BY ContentsNow DEF InputInv
    <3>7. QED
      BY <1>1, <2>1, <3>5, <3>6
  <2>4. CASE t # a
    <3>1. Contents(t)' = Contents(t)
      BY <1>6, <2>4 DEF Contents
    <3>2. QED
      BY <1>1, <1>6, <2>1, <2>2, <2>4, <3>1
  <2>5. QED
    BY <2>3, <2>4
<1>11. QED
  BY <1>8, <1>9, <1>10 DEF InputInv, KeysComeOutAsEchoed

-----------------------------------------------------------------------------
(* The theorem *)

\* At the start every FiFo is empty and nothing was echoed.
LEMMA InitInput == Init => InputInv
<1> SUFFICES ASSUME Init PROVE InputInv
  OBVIOUS
<1>1. InputTypes
  BY InputAssumption, ConsoleIs DEF Init, InputTypes, Indices, Chars, Hand
<1>2. KeyInv
  BY ConsoleIs DEF Init, KeyInv, Hand
<1>3. ASSUME NEW t \in Terminals PROVE out[t] \o Contents(t) \o InHand(t) = echoed[t]
  <2>1. Contents(t) = <<>>
    BY <1>1, ContentsNow, InputAssumption DEF Init, Line, Used
  <2>2. InHand(t) = <<>> /\ out[t] = <<>> /\ echoed[t] = <<>>
    BY ConsoleIs DEF Init, InHand
  <2>3. QED
    BY <2>1, <2>2
<1>4. QED
  BY <1>1, <1>2, <1>3 DEF InputInv, KeysComeOutAsEchoed

\* Every step keeps the echoed keys equal to those taken and those waiting.
LEMMA NextInput == InputInv /\ [Next]_vars => InputInv'
<1> SUFFICES ASSUME InputInv, [Next]_vars PROVE InputInv'
  OBVIOUS
<1>1. CASE ConsoleStep
  BY <1>1, ConsoleInput, WriteInput, PutInput DEF ConsoleStep
<1>2. ASSUME NEW x \in Threads, InKernel(x) PROVE InputInv'
  <2>1. x \in Readers \/ x = Console
    BY DEF Threads
  <2>2. QED
    BY <1>2, <2>1, OtherInput, ConsoleInput, TakeInput DEF InKernel
<1>3. QED
  BY <1>1, <1>2, OtherInput DEF Next

\* The keys drawn on a terminal are, in this order, those that have left its
\* FiFo, those in it and the one on its way: nothing that is drawn is lost or
\* doubled between the interrupt's ring and the readers, for FiFos of any size,
\* through overwriting, backspaces that take keys back, several readers and
\* switches of the terminal.
THEOREM KeysInOrder == Spec => []KeysComeOutAsEchoed
<1>1. InputInv => KeysComeOutAsEchoed
  BY DEF InputInv
<1>2. QED
  BY <1>1, InitInput, NextInput, PTL DEF Spec

-----------------------------------------------------------------------------
(* The waiters *)

\* The threads that a signal has woken and that have yet to look into the FiFo
\* of t.
Woken(t) == {x \in Threads : pc[x] = "woken" /\ ~Asleep(x) /\ Source(x) = t}

\* As long as a thread sleeps on a FiFo, there is for every key in it a thread
\* that is awake and will take it.  put signals one thread for a key, and a
\* reader that comes by may take that key: what is left to the woken thread is
\* to wait again, with nothing left behind for those that sleep.
Served == \A t \in Terminals :
    something_to_read_[t] # <<>> => Cardinality(Woken(t)) >= Len(Contents(t))

\* Who is in a condition's list waits on that FiFo, and is there once.
ListInv == \A t \in Terminals : \A i \in DOMAIN something_to_read_[t] :
    /\ pc[something_to_read_[t][i]] = "woken" /\ Source(something_to_read_[t][i]) = t
    /\ \A j \in DOMAIN something_to_read_[t] :
          something_to_read_[t][i] = something_to_read_[t][j] => i = j

WaitTypes == something_to_read_ \in [Terminals -> Seq(Threads)]
WaitInv == InputInv /\ WaitTypes /\ ListInv /\ Served

\* The set of the woken threads has a size.
LEMMA WokenFinite ==
  ASSUME NEW t
  PROVE  IsFiniteSet(Woken(t)) /\ Cardinality(Woken(t)) \in Nat
<1>1. IsFiniteSet(Threads)
  BY InputAssumption, FS_AddElement DEF Threads
<1>2. Woken(t) \in SUBSET Threads
  BY DEF Woken
<1>3. IsFiniteSet(Woken(t))
  BY <1>1, <1>2, FS_Subset
<1>4. QED
  BY <1>3, FS_CardinalityType

\* So it has in the next state.
LEMMA WokenNext ==
  ASSUME NEW t
  PROVE  Cardinality(Woken(t)') \in Nat
<1>1. IsFiniteSet(Threads)
  BY InputAssumption, FS_AddElement DEF Threads
<1>2. Woken(t)' \in SUBSET Threads
  BY DEF Woken
<1>3. QED
  BY <1>1, <1>2, FS_Subset, FS_CardinalityType

\* The number of keys in a FiFo, from its positions.
LEMMA LengthNow ==
  ASSUME InputTypes, NEW t \in Terminals
  PROVE  Len(Contents(t)) = Used(ib_write_pos_[t], ib_read_pos_[t]) /\ Len(Contents(t)) \in Nat
<1>1. /\ input_buffer_[t] \in [Indices -> Chars]
      /\ ib_write_pos_[t] \in Indices /\ ib_read_pos_[t] \in Indices
      /\ Contents(t) = Line(input_buffer_[t], ib_write_pos_[t], ib_read_pos_[t])
  BY ContentsNow
<1>2. Len(Line(input_buffer_[t], ib_write_pos_[t], ib_read_pos_[t]))
        = Used(ib_write_pos_[t], ib_read_pos_[t])
  BY <1>1, LineIs
<1>3. Used(ib_write_pos_[t], ib_read_pos_[t]) \in Nat
  BY <1>1, UsedIs
<1>4. QED
  BY <1>1, <1>2, <1>3

\* The number of keys in the next state.
LEMMA LengthNext ==
  ASSUME InputTypes', NEW t \in Terminals
  PROVE  /\ Len(Contents(t)') = Used(ib_write_pos_'[t], ib_read_pos_'[t])
         /\ Len(Contents(t)') \in Nat
<1>1. /\ input_buffer_'[t] \in [Indices -> Chars]
      /\ ib_write_pos_'[t] \in Indices /\ ib_read_pos_'[t] \in Indices
  BY DEF InputTypes
<1>2. Contents(t)' = Line(input_buffer_'[t], ib_write_pos_'[t], ib_read_pos_'[t])
  BY ContentsNext
<1>3. Len(Line(input_buffer_'[t], ib_write_pos_'[t], ib_read_pos_'[t]))
        = Used(ib_write_pos_'[t], ib_read_pos_'[t])
  BY <1>1, LineIs
<1>4. Used(ib_write_pos_'[t], ib_read_pos_'[t]) \in Nat
  BY <1>1, UsedIs
<1>5. QED
  BY <1>2, <1>3, <1>4

\* Everybody takes from a terminal.
LEMMA SourceIs == ASSUME InputTypes, NEW x \in Threads PROVE Source(x) \in Terminals
  BY InputAssumption DEF Source, Threads, InputTypes

\* A step that no waiter and no FiFo takes part in.
LEMMA QuietWait ==
  ASSUME WaitInv, InputInv',
         UNCHANGED <<something_to_read_, input_buffer_, ib_write_pos_, ib_read_pos_>>,
         \A x \in Threads : pc'[x] = "woken" <=> pc[x] = "woken",
         pc[Console] = "woken" => UNCHANGED active_terminal_
  PROVE  WaitInv'
<1>1. WaitTypes'
  BY DEF WaitInv, WaitTypes
<1>2. \A x \in Threads : pc[x] = "woken" => Source(x)' = Source(x)
  BY DEF Source
<1>3. \A x : Asleep(x)' = Asleep(x)
  BY DEF Asleep
<1>4. ASSUME NEW t \in Terminals
      PROVE  Woken(t)' = Woken(t) /\ Contents(t)' = Contents(t)
  BY <1>2, <1>3 DEF Woken, Contents
<1>5. Served'
  BY <1>4 DEF WaitInv, Served
<1>6. ListInv'
  <2>1. \A t \in Terminals : \A i \in DOMAIN something_to_read_[t] : something_to_read_[t][i] \in Threads
    BY DEF WaitInv, WaitTypes
  <2>2. QED
    BY <1>2, <2>1 DEF WaitInv, ListInv
<1>7. QED
  BY <1>1, <1>5, <1>6 DEF WaitInv

\* The steps outside the FiFos.
LEMMA OutsideWait ==
  ASSUME WaitInv, InputInv',
         \/ \E k \in Keys : KeyPressed(k)
         \/ KeyReleased
         \/ NextKey \/ Write \/ SetActiveTerminal
         \/ \E x \in Threads : Backspace(x)
         \/ \E x \in Readers : ReadLine(x) \/ WriteBackspace(x)
         \/ UNCHANGED vars
  PROVE  WaitInv'
<1> USE DEF fifoVars, keyboardVars, Goto
<1>1. UNCHANGED <<something_to_read_, input_buffer_, ib_write_pos_, ib_read_pos_>>
  BY DEF KeyPressed, KeyReleased, NextKey, Write, SetActiveTerminal, Backspace, ReadLine,
         WriteBackspace, vars
<1>2. pc[Console] = "woken" => UNCHANGED active_terminal_
  BY DEF KeyPressed, KeyReleased, NextKey, Write, SetActiveTerminal, Backspace, ReadLine,
         WriteBackspace, vars
<1>3. \/ UNCHANGED pc
      \/ \E x \in Threads, l \in {"poll", "write", "switch", "user", "count", "get", "put"} :
            pc[x] # "woken" /\ pc' = [pc EXCEPT ![x] = l]
  <2>1. CASE NextKey \/ Write \/ SetActiveTerminal
    BY <2>1, ConsoleIs DEF NextKey, Write, SetActiveTerminal
  <2>2. ASSUME NEW x \in Threads, Backspace(x) \/ ReadLine(x) \/ WriteBackspace(x)
        PROVE  \E l \in {"user", "get", "count", "put"} : pc[x] # "woken" /\ pc' = [pc EXCEPT ![x] = l]
    BY <2>2 DEF Backspace, ReadLine, WriteBackspace, EndOfWrite
  <2>3. QED
    BY <2>1, <2>2, ConsoleIs DEF KeyPressed, KeyReleased, vars
<1>4. \A x \in Threads : pc'[x] = "woken" <=> pc[x] = "woken"
  BY <1>3 DEF WaitInv, InputInv, InputTypes
<1>5. QED
  BY <1>1, <1>2, <1>4, QuietWait

\* get has a key, or backspace takes one back: the thread is not woken any
\* more, but there is one key less.
LEMMA TakeWait ==
  ASSUME WaitInv, InputInv', NEW x \in Threads, ReadCharacter(x) \/ TakeBack(x)
  PROVE  WaitInv'
<1> USE DEF fifoVars, keyboardVars, Goto
<1> DEFINE a == Source(x)
           r == ib_read_pos_[a]
           w == ib_write_pos_[a]
<1>1. /\ ~Asleep(x) /\ w # Following(r)
      /\ ib_read_pos_' = [ib_read_pos_ EXCEPT ![a] = Following(@)]
      /\ UNCHANGED <<something_to_read_, ib_write_pos_, active_terminal_>>
  BY DEF ReadCharacter, TakeBack, Take, NothingToRead
<1>2. PICK l \in {"user", "get", "put"} : pc' = [pc EXCEPT ![x] = l]
  BY DEF ReadCharacter, TakeBack, EndOfWrite
<1>3. a \in Terminals /\ r \in Indices /\ w \in Indices
  BY SourceIs, ContentsNow DEF WaitInv, InputInv
<1>4. /\ pc \in [Threads -> {"poll", "write", "switch", "user"} \cup Hand]
      /\ pc'[x] # "woken" /\ \A y \in Threads : y # x => pc'[y] = pc[y]
  BY <1>2 DEF WaitInv, InputInv, InputTypes
<1>5. WaitTypes'
  BY <1>1 DEF WaitInv, WaitTypes
<1>6. \A y : Asleep(y)' = Asleep(y) /\ Source(y)' = Source(y)
  BY <1>1 DEF Asleep, Source
<1>7. ListInv'
  <2>1. ASSUME NEW t \in Terminals, NEW i \in DOMAIN something_to_read_[t]
        PROVE  something_to_read_[t][i] \in Threads /\ something_to_read_[t][i] # x
    BY <1>1 DEF WaitInv, WaitTypes, Asleep
  <2>2. QED
    BY <1>1, <1>4, <1>6, <2>1 DEF WaitInv, ListInv
<1>8. \A t \in Terminals : Woken(t)' = Woken(t) \ {x}
  BY <1>4, <1>6 DEF Woken
<1>9. Used(w, Following(r)) = Used(w, r) - 1 /\ Used(w, r) \in Nat
  <2>1. Following(r) = IF r + 1 = Size THEN 0 ELSE r + 1
    BY <1>3, FollowingIs
  <2>2. Used(w, r) \in Nat
    BY <1>3, UsedIs
  <2> HIDE DEF r, w, a
  <2>3. QED
    BY <1>1, <1>3, <2>1, <2>2, InputAssumption DEF Used, Indices
<1>10. ASSUME NEW t \in Terminals, something_to_read_'[t] # <<>>
       PROVE  Cardinality(Woken(t)') >= Len(Contents(t)')
  <2>1. Cardinality(Woken(t)) >= Len(Contents(t))
    BY <1>1, <1>10 DEF WaitInv, Served
  <2>2. /\ Len(Contents(t)) = Used(ib_write_pos_[t], ib_read_pos_[t])
        /\ Len(Contents(t)') = Used(ib_write_pos_'[t], ib_read_pos_'[t])
        /\ Len(Contents(t)) \in Nat /\ Len(Contents(t)') \in Nat
    BY LengthNow, LengthNext DEF WaitInv, InputInv
  <2>3. Cardinality(Woken(t)) \in Nat /\ IsFiniteSet(Woken(t))
    BY WokenFinite
  <2>4. Cardinality(Woken(t) \ {x}) = IF x \in Woken(t) THEN Cardinality(Woken(t)) - 1
                                                         ELSE Cardinality(Woken(t))
    BY <2>3, FS_RemoveElement
  <2>5. CASE t = a
    <3>1. ib_read_pos_'[t] = Following(r) /\ ib_write_pos_'[t] = w
      BY <1>1, <1>3, <2>5 DEF WaitInv, InputInv, InputTypes
    <3>2. Len(Contents(t)') = Len(Contents(t)) - 1
      BY <1>9, <2>2, <2>5, <3>1
    <3>3. Cardinality(Woken(t)') >= Cardinality(Woken(t)) - 1
      <4>1. Woken(t)' = Woken(t) \ {x}
        BY <1>8
      <4>2. QED
        BY <2>3, <2>4, <4>1
    <3>4. Cardinality(Woken(t)') \in Nat
      BY WokenNext
    <3>5. QED
      BY <2>1, <2>2, <2>3, <3>2, <3>3, <3>4
  <2>6. CASE t # a
    <3>1. ib_read_pos_'[t] = ib_read_pos_[t] /\ ib_write_pos_'[t] = ib_write_pos_[t]
      BY <1>1, <2>6 DEF WaitInv, InputInv, InputTypes
    <3>2. x \notin Woken(t)
      BY <2>6 DEF Woken
    <3>3. QED
      BY <1>8, <2>1, <2>2, <2>4, <3>1, <3>2
  <2>7. QED
    BY <2>5, <2>6
<1>11. QED
  BY <1>5, <1>7, <1>10 DEF WaitInv, Served

\* get finds nothing: there is no key that the new waiter would have to be
\* woken for.
LEMMA WaitWait ==
  ASSUME WaitInv, InputInv', NEW x \in Threads, WaitToRead(x)
  PROVE  WaitInv'
<1> USE DEF fifoVars, keyboardVars, Goto
<1> DEFINE a == Source(x)
           q == something_to_read_[a]
<1>1. /\ ~Asleep(x) /\ ib_write_pos_[a] = Following(ib_read_pos_[a])
      /\ something_to_read_' = [something_to_read_ EXCEPT ![a] = Append(@, x)]
      /\ pc' = [pc EXCEPT ![x] = "woken"]
      /\ UNCHANGED <<input_buffer_, ib_write_pos_, ib_read_pos_, active_terminal_>>
  BY DEF WaitToRead, NothingToRead
<1>2. a \in Terminals /\ q \in Seq(Threads)
  BY SourceIs DEF WaitInv, InputInv, WaitTypes
<1>3. ib_write_pos_[a] \in Indices /\ ib_read_pos_[a] \in Indices
  BY <1>2, ContentsNow DEF WaitInv, InputInv
<1>4. \A t \in Terminals : Contents(t)' = Contents(t)
  BY <1>1 DEF Contents
<1>5. Len(Contents(a)) = 0
  <2>1. Len(Contents(a)) = Used(Following(ib_read_pos_[a]), ib_read_pos_[a])
    BY <1>1, <1>2, LengthNow DEF WaitInv, InputInv
  <2>2. \A i \in Indices : Used(Following(i), i) = 0
    BY FollowingIs, InputAssumption DEF Used, Indices
  <2>3. QED
    BY <1>3, <2>1, <2>2
<1>6. \A y \in Threads : pc'[y] = IF y = x THEN "woken" ELSE pc[y]
  BY <1>1 DEF WaitInv, InputInv, InputTypes
<1>7. /\ Append(q, x) \in Seq(Threads) /\ Len(Append(q, x)) = Len(q) + 1 /\ Len(q) \in Nat
      /\ Append(q, x)[Len(q) + 1] = x
      /\ \A i \in 1..Len(q) : Append(q, x)[i] = q[i]
  BY <1>2, AppendProperties
<1>8. /\ something_to_read_'[a] = Append(q, x)
      /\ \A t \in Terminals : t # a => something_to_read_'[t] = something_to_read_[t]
  BY <1>1, <1>2 DEF WaitInv, WaitTypes
<1> HIDE DEF a, q
<1>9. WaitTypes'
  BY <1>1, <1>2, <1>7 DEF WaitInv, WaitTypes, q
<1>10. \A y : Source(y)' = Source(y)
  BY <1>1 DEF Source
<1>11. \A i \in 1..Len(q) : q[i] # x
  BY <1>1, <1>2 DEF Asleep, q
<1>12. ASSUME NEW t \in Terminals, t # a PROVE Woken(t)' = Woken(t)
  <2>1. ASSUME NEW y \in Threads, y # x PROVE Asleep(y)' <=> Asleep(y)
    <3>1. \A u \in Terminals : DOMAIN something_to_read_[u] = 1..Len(something_to_read_[u])
                               /\ DOMAIN something_to_read_'[u] = 1..Len(something_to_read_'[u])
      BY <1>9 DEF WaitInv, WaitTypes
    <3>2. ASSUME NEW u \in Terminals
          PROVE  (\E i \in DOMAIN something_to_read_'[u] : something_to_read_'[u][i] = y)
                 <=> (\E i \in DOMAIN something_to_read_[u] : something_to_read_[u][i] = y)
      <4>1. CASE u = a
        <5>1. something_to_read_[u] = q /\ something_to_read_'[u] = Append(q, x)
          BY <1>8, <4>1 DEF q
        <5>2. DOMAIN something_to_read_[u] = 1..Len(q) /\ DOMAIN something_to_read_'[u] = 1..Len(q) + 1
          BY <1>7, <3>1, <5>1
        <5>3. (\E i \in 1..Len(q) + 1 : Append(q, x)[i] = y) <=> (\E i \in 1..Len(q) : q[i] = y)
          BY <1>7, <2>1
        <5>4. QED
          BY <5>1, <5>2, <5>3
      <4>2. CASE u # a
        BY <1>8, <4>2
      <4>3. QED
        BY <4>1, <4>2
    <3>3. QED
      BY <3>2 DEF Asleep
  <2>2. Source(x) # t
    BY <1>12 DEF a
  <2>3. QED
    BY <1>6, <1>10, <2>1, <2>2 DEF Woken
<1>13. Served'
  <2>1. ASSUME NEW t \in Terminals, something_to_read_'[t] # <<>>
        PROVE  Cardinality(Woken(t)') >= Len(Contents(t)')
    <3>1. CASE t = a
      <4>1. Cardinality(Woken(t)') \in Nat
        BY WokenNext
      <4>2. QED
        BY <1>4, <1>5, <3>1, <4>1
    <3>2. CASE t # a
      BY <1>4, <1>8, <1>12, <2>1, <3>2 DEF WaitInv, Served
    <3>3. QED
      BY <3>1, <3>2
  <2>2. QED
    BY <2>1 DEF Served
<1>14. ListInv'
  <2>1. ASSUME NEW t \in Terminals, t # a
        PROVE  \A i \in DOMAIN something_to_read_[t] :
                  something_to_read_[t][i] \in Threads /\ something_to_read_[t][i] # x
    BY <1>1 DEF WaitInv, WaitTypes, Asleep
  <2>2. \A i \in 1..Len(q) : /\ q[i] \in Threads /\ pc[q[i]] = "woken" /\ Source(q[i]) = a
                             /\ \A j \in 1..Len(q) : q[i] = q[j] => i = j
    BY <1>2 DEF WaitInv, ListInv, q
  <2>3. DOMAIN Append(q, x) = 1..Len(q) + 1
    BY <1>7
  <2>4. Source(x) = a
    BY DEF a
  <2>5. ASSUME NEW i \in 1..Len(q) + 1
        PROVE  /\ pc'[Append(q, x)[i]] = "woken" /\ Source(Append(q, x)[i]) = a
               /\ \A j \in 1..Len(q) + 1 : Append(q, x)[i] = Append(q, x)[j] => i = j
    BY <1>6, <1>7, <1>11, <2>2, <2>4
  <2>6. QED
    BY <1>6, <1>8, <1>10, <2>1, <2>3, <2>5 DEF WaitInv, ListInv
<1>15. QED
  BY <1>9, <1>13, <1>14 DEF WaitInv

\* put adds at most one key, and wakes a thread if one sleeps.
LEMMA PutWait ==
  ASSUME WaitInv, InputInv', Put
  PROVE  WaitInv'
<1> USE DEF fifoVars, keyboardVars, Goto
<1>0. PICK a \in Terminals : a = active_terminal_
  BY DEF WaitInv, InputInv, InputTypes
<1> DEFINE r == ib_read_pos_[a]
           w == ib_write_pos_[a]
           q == something_to_read_[a]
<1>1. /\ pc[Console] = "put" /\ pc' = [pc EXCEPT ![Console] = "poll"]
      /\ something_to_read_' = [something_to_read_ EXCEPT ![a] = IF q = <<>> THEN q ELSE Tail(q)]
      /\ input_buffer_' = [input_buffer_ EXCEPT ![a][w] = key]
      /\ ib_write_pos_' = [ib_write_pos_ EXCEPT ![a] = Following(@)]
      /\ ib_read_pos_' = IF w = r THEN [ib_read_pos_ EXCEPT ![a] = Following(@)] ELSE ib_read_pos_
      /\ UNCHANGED active_terminal_
  BY <1>0 DEF Put, SignalReader, Popped, Overwrite, IsFull
<1>2. a \in Terminals /\ q \in Seq(Threads)
  BY DEF WaitInv, InputInv, InputTypes, WaitTypes
<1>3. w \in Indices /\ r \in Indices
  BY <1>2, ContentsNow DEF WaitInv, InputInv
<1>4. \A y \in Threads : pc'[y] = "woken" <=> pc[y] = "woken"
  BY <1>1 DEF WaitInv, InputInv, InputTypes
<1>5. \A y : Source(y)' = Source(y)
  BY <1>1 DEF Source
<1>6. /\ something_to_read_'[a] = IF q = <<>> THEN q ELSE Tail(q)
      /\ ib_write_pos_'[a] = Following(w) /\ ib_read_pos_'[a] = IF w = r THEN Following(r) ELSE r
      /\ \A t \in Terminals : t # a =>
            /\ something_to_read_'[t] = something_to_read_[t]
            /\ input_buffer_'[t] = input_buffer_[t] /\ ib_write_pos_'[t] = ib_write_pos_[t]
            /\ ib_read_pos_'[t] = ib_read_pos_[t]
  BY <1>1, <1>2 DEF WaitInv, InputInv, InputTypes, WaitTypes
<1>7. Used(ib_write_pos_'[a], ib_read_pos_'[a]) <= Used(w, r) + 1
  <2>1. /\ Following(r) = IF r + 1 = Size THEN 0 ELSE r + 1
        /\ Following(w) = IF w + 1 = Size THEN 0 ELSE w + 1
    BY <1>3, FollowingIs
  <2> HIDE DEF r, w
  <2>2. CASE w = r
    BY <1>3, <1>6, <2>1, <2>2, InputAssumption DEF Used, Indices
  <2>3. CASE w # r
    BY <1>3, <1>6, <2>1, <2>3, InputAssumption DEF Used, Indices
  <2>4. QED
    BY <2>2, <2>3
<1>8. \A t \in Terminals : t # a => Contents(t)' = Contents(t)
  BY <1>6 DEF Contents
<1>9. \A u \in Terminals : DOMAIN something_to_read_[u] = 1..Len(something_to_read_[u])
  BY DEF WaitInv, WaitTypes
<1> HIDE DEF r, w, q
<1>10. CASE q = <<>>
  <2>1. UNCHANGED something_to_read_
    <3>1. \A t \in Terminals : something_to_read_'[t] = something_to_read_[t]
      BY <1>6, <1>10 DEF q
    <3>2. something_to_read_ \in [Terminals -> Seq(Threads)]
      BY DEF WaitInv, WaitTypes
    <3>3. QED
      BY <1>1, <1>10, <3>2 DEF q
  <2>2. \A y : Asleep(y)' = Asleep(y)
    BY <2>1 DEF Asleep
  <2>3. \A t \in Terminals : Woken(t)' = Woken(t)
    BY <1>4, <1>5, <2>2 DEF Woken
  <2>4. Served'
    BY <1>8, <1>10, <2>1, <2>3 DEF WaitInv, Served, q
  <2>5. \A t \in Terminals : \A i \in DOMAIN something_to_read_[t] : something_to_read_[t][i] \in Threads
    BY DEF WaitInv, WaitTypes
  <2>6. ListInv'
    BY <1>4, <1>5, <2>1, <2>5 DEF WaitInv, ListInv
  <2>7. QED
    BY <2>1, <2>4, <2>6 DEF WaitInv, WaitTypes
<1>11. CASE q # <<>>
  <2> DEFINE h == q[1]
  <2>1. /\ Tail(q) \in Seq(Threads) /\ Len(Tail(q)) = Len(q) - 1 /\ Len(q) \in Nat /\ Len(q) > 0
        /\ \A i \in 1..Len(q) - 1 : Tail(q)[i] = q[i + 1]
    BY <1>2, <1>11
  <2>2. something_to_read_'[a] = Tail(q)
    BY <1>6, <1>11
  <2>3. WaitTypes'
    BY <1>1, <1>2, <1>11, <2>1 DEF WaitInv, WaitTypes
  <2>4. \A u \in Terminals : DOMAIN something_to_read_'[u] = 1..Len(something_to_read_'[u])
    BY <2>3 DEF WaitTypes
  <2>5. \A i \in 1..Len(q) : /\ q[i] \in Threads /\ pc[q[i]] = "woken" /\ Source(q[i]) = a
                             /\ \A j \in 1..Len(q) : q[i] = q[j] => i = j
    BY <1>2 DEF WaitInv, ListInv, q
  <2>6. h \in Threads /\ pc[h] = "woken" /\ Source(h) = a
        /\ \A i \in 1..Len(q) - 1 : q[i + 1] # h
    BY <2>1, <2>5
  <2> HIDE DEF h
  <2>7. ASSUME NEW t \in Terminals, t # a, NEW i \in DOMAIN something_to_read_[t]
        PROVE  something_to_read_[t][i] # h
    BY <2>6, <2>7 DEF WaitInv, ListInv
  <2>8. Asleep(h)
    BY <1>2, <1>9, <2>1 DEF Asleep, q, h
  <2>9. ASSUME NEW y PROVE Asleep(y)' <=> Asleep(y) /\ y # h
    <3>1. ASSUME NEW u \in Terminals
          PROVE  (\E i \in DOMAIN something_to_read_'[u] : something_to_read_'[u][i] = y)
                 <=> y # h /\ (\E i \in DOMAIN something_to_read_[u] : something_to_read_[u][i] = y)
      <4>1. CASE u = a
        <5>1. DOMAIN something_to_read_'[u] = 1..Len(q) - 1 /\ DOMAIN something_to_read_[u] = 1..Len(q)
          BY <1>9, <2>1, <2>2, <2>4, <4>1 DEF q
        <5>2. ASSUME NEW i \in 1..Len(q) - 1, Tail(q)[i] = y
              PROVE  y # h /\ i + 1 \in 1..Len(q) /\ q[i + 1] = y
          BY <2>1, <2>6, <5>2
        <5>3. ASSUME NEW i \in 1..Len(q), q[i] = y, y # h
              PROVE  i - 1 \in 1..Len(q) - 1 /\ Tail(q)[i - 1] = y
          BY <2>1, <5>3 DEF h
        <5>4. something_to_read_[u] = q
          BY <4>1 DEF q
        <5>5. ASSUME \E i \in DOMAIN something_to_read_'[u] : something_to_read_'[u][i] = y
              PROVE  y # h /\ \E i \in DOMAIN something_to_read_[u] : something_to_read_[u][i] = y
          <6>1. PICK i \in 1..Len(q) - 1 : Tail(q)[i] = y
            BY <2>2, <4>1, <5>1, <5>5
          <6>2. QED
            BY <5>1, <5>2, <5>4, <6>1
        <5>6. ASSUME y # h, \E i \in DOMAIN something_to_read_[u] : something_to_read_[u][i] = y
              PROVE  \E i \in DOMAIN something_to_read_'[u] : something_to_read_'[u][i] = y
          <6>1. PICK i \in 1..Len(q) : q[i] = y
            BY <5>1, <5>4, <5>6
          <6>2. i - 1 \in 1..Len(q) - 1 /\ Tail(q)[i - 1] = y
            BY <5>3, <5>6, <6>1
          <6>3. QED
            BY <2>2, <4>1, <5>1, <6>2
        <5>7. QED
          BY <5>5, <5>6
      <4>2. CASE u # a
        BY <1>6, <2>7, <4>2
      <4>3. QED
        BY <4>1, <4>2
    <3>2. QED
      BY <3>1 DEF Asleep
  <2>10. Woken(a)' = Woken(a) \cup {h} /\ h \notin Woken(a)
    BY <1>4, <1>5, <2>6, <2>8, <2>9 DEF Woken
  <2>11. ASSUME NEW t \in Terminals, t # a PROVE Woken(t)' = Woken(t)
    BY <1>4, <1>5, <2>6, <2>9, <2>11 DEF Woken
  <2>12. Cardinality(Woken(a)') >= Len(Contents(a)')
    <3>1. Cardinality(Woken(a)) >= Len(Contents(a))
      BY <1>2, <1>11 DEF WaitInv, Served, q
    <3>2. /\ Len(Contents(a)) = Used(w, r) /\ Len(Contents(a)) \in Nat
          /\ Len(Contents(a)') = Used(ib_write_pos_'[a], ib_read_pos_'[a])
          /\ Len(Contents(a)') \in Nat
      BY <1>2, LengthNow, LengthNext DEF WaitInv, InputInv, w, r
    <3>3. Cardinality(Woken(a)) \in Nat /\ IsFiniteSet(Woken(a))
      BY WokenFinite
    <3>4. Cardinality(Woken(a) \cup {h}) = Cardinality(Woken(a)) + 1
      BY <2>10, <3>3, FS_AddElement
    <3>5. Cardinality(Woken(a)') = Cardinality(Woken(a)) + 1
      BY <2>10, <3>4
    <3>6. QED
      BY <1>7, <3>1, <3>2, <3>3, <3>5
  <2>13. Served'
    <3>1. ASSUME NEW t \in Terminals, something_to_read_'[t] # <<>>
          PROVE  Cardinality(Woken(t)') >= Len(Contents(t)')
      <4>1. CASE t = a
        BY <2>12, <4>1
      <4>2. CASE t # a
        BY <1>6, <1>8, <2>11, <3>1, <4>2 DEF WaitInv, Served
      <4>3. QED
        BY <4>1, <4>2
    <3>2. QED
      BY <3>1 DEF Served
  <2>14. ListInv'
    <3>1. ASSUME NEW i \in 1..Len(q) - 1
          PROVE  /\ pc'[Tail(q)[i]] = "woken" /\ Source(Tail(q)[i]) = a
                 /\ \A j \in 1..Len(q) - 1 : Tail(q)[i] = Tail(q)[j] => i = j
      <4>1. i + 1 \in 1..Len(q) /\ Tail(q)[i] = q[i + 1]
        BY <2>1
      <4>2. ASSUME NEW j \in 1..Len(q) - 1, Tail(q)[i] = Tail(q)[j] PROVE i = j
        <5>1. j + 1 \in 1..Len(q) /\ q[i + 1] = q[j + 1]
          BY <2>1, <4>1, <4>2
        <5>2. i + 1 = j + 1
          BY <2>5, <4>1, <5>1
        <5>3. QED
          BY <5>2
      <4>3. QED
        BY <1>4, <2>5, <4>1, <4>2
    <3>2. DOMAIN something_to_read_'[a] = 1..Len(q) - 1
      BY <1>2, <2>1, <2>2, <2>4
    <3>3. \A t \in Terminals : \A i \in DOMAIN something_to_read_[t] : something_to_read_[t][i] \in Threads
      BY DEF WaitInv, WaitTypes
    <3>4. ASSUME NEW t \in Terminals, NEW i \in DOMAIN something_to_read_'[t]
          PROVE  /\ pc'[something_to_read_'[t][i]] = "woken"
                 /\ Source(something_to_read_'[t][i]) = t
                 /\ \A j \in DOMAIN something_to_read_'[t] :
                       something_to_read_'[t][i] = something_to_read_'[t][j] => i = j
      <4>1. CASE t = a
        BY <2>2, <3>1, <3>2, <4>1
      <4>2. CASE t # a
        BY <1>4, <1>6, <3>3, <4>2 DEF WaitInv, ListInv
      <4>3. QED
        BY <4>1, <4>2
    <3>5. QED
      BY <1>1, <3>4 DEF ListInv, Source
  <2>15. QED
    BY <2>3, <2>13, <2>14 DEF WaitInv
<1>12. QED
  BY <1>10, <1>11

\* At the start nobody waits.
LEMMA InitWait == Init => WaitInv
<1> SUFFICES ASSUME Init PROVE WaitInv
  OBVIOUS
<1>1. \A t \in Terminals : something_to_read_[t] = <<>>
  BY DEF Init
<1>2. WaitTypes
  BY DEF Init, WaitTypes
<1>3. ListInv /\ Served
  BY <1>1 DEF ListInv, Served
<1>4. QED
  BY <1>2, <1>3, InitInput DEF WaitInv

\* Every step keeps a woken thread for every key beside a sleeping one.
LEMMA NextWait == WaitInv /\ [Next]_vars => WaitInv'
<1> SUFFICES ASSUME WaitInv, [Next]_vars PROVE WaitInv'
  OBVIOUS
<1>1. InputInv'
  BY NextInput DEF WaitInv
<1>2. CASE ConsoleStep
  BY <1>1, <1>2, OutsideWait, PutWait DEF ConsoleStep
<1>3. ASSUME NEW x \in Threads, InKernel(x) PROVE WaitInv'
  BY <1>1, <1>3, OutsideWait, TakeWait, WaitWait DEF InKernel
<1>4. QED
  BY <1>1, <1>2, <1>3, OutsideWait DEF Next

\* While threads sleep on the FiFo of a terminal, every key in it has a thread
\* that is awake and about to take one: no signal of put is lost, however
\* readers that never slept take keys meant for others, the buffer overflows,
\* backspaces take keys back and terminals are switched.  This is the safety
\* half of KeysAreServed; the other half is that the woken threads run.
THEOREM NoKeyIsStranded == Spec => []Served
<1>1. WaitInv => Served
  BY DEF WaitInv
<1>2. QED
  BY <1>1, InitWait, NextWait, PTL DEF Spec
=============================================================================
