----------------------------- MODULE PipeProofs -----------------------------
(***************************************************************************)
(* For any size of the buffer and any number of processes: a pipe is a     *)
(* first-in-first-out queue, and its buffer lives as long as it is needed. *)
(***************************************************************************)
EXTENDS Pipe, FiniteSetTheorems, SequenceTheorems, TLAPS

Indices == 0..Size - 1
PutLabels == {"put_check", "put_store", "put_advance"}
GetLabels == {"get_check", "get_load", "get_advance"}

\* The types that the argument about the bytes needs.
RingTypes ==
    /\ buffer_ \in [Indices -> Values \cup {NULL}]
    /\ write_pos_ \in Indices /\ read_pos_ \in Indices
    /\ pc \in [Procs -> Labels]
    /\ pos \in [Procs -> Indices]
    /\ c \in [Procs -> Values \cup {NULL}]
    /\ forking \in [Procs -> Procs \cup {NULL}]

\* The writer alone moves write_pos_, to which its byte goes; once it has seen
\* room there is room, as the reader only makes more.
PutInv ==
    \A p \in Procs :
        /\ pc[p] \in PutLabels => p = Writer /\ pos[p] = write_pos_ /\ c[p] \in Values
        /\ pc[p] \in {"put_store", "put_advance"} => write_pos_ # read_pos_
        /\ pc[p] = "put_advance" => buffer_[write_pos_] = c[p]

\* The reader alone moves read_pos_; once it has seen a byte the byte stays.
GetInv ==
    \A p \in Procs :
        /\ pc[p] \in GetLabels => p = Reader /\ pos[p] = Following(read_pos_)
        /\ pc[p] \in {"get_load", "get_advance"} => pos[p] # write_pos_
        /\ pc[p] = "get_advance" => c[p] = buffer_[pos[p]]

RingInv == RingTypes /\ PutInv /\ GetInv

-----------------------------------------------------------------------------
(* Positions in the ring *)

\* The position after i is i + 1, or 0 at the end of the buffer.
LEMMA FollowingIs ==
  ASSUME NEW i \in Indices
  PROVE  /\ Following(i) = IF i + 1 = Size THEN 0 ELSE i + 1
         /\ Following(i) \in Indices
  BY PipeAssumption DEF Following, Indices

\* How many bytes there are between the positions, and where the i-th one is.
Used(w, r) == IF w > r THEN w - r - 1 ELSE w - r - 1 + Size
Place(r, i) == IF r + i < Size THEN r + i ELSE r + i - Size

\* The number of bytes on the way, without the modulus.
LEMMA UsedIs ==
  ASSUME NEW w \in Indices, NEW r \in Indices
  PROVE  (w - r - 1) % Size = Used(w, r) /\ Used(w, r) \in Indices
  BY PipeAssumption DEF Used, Indices

\* The position of the i-th byte on the way, without the modulus.
LEMMA PlaceIs ==
  ASSUME NEW r \in Indices, NEW i \in Indices
  PROVE  (r + i) % Size = Place(r, i) /\ Place(r, i) \in Indices
  BY PipeAssumption DEF Place, Indices

\* The queue in these terms.
QueueOf(b, w, r) == [i \in 1..Used(w, r) |-> b[Place(r, i)]]

\* The refinement mapping is the queue read off the ring.
LEMMA QueueIs ==
  ASSUME NEW b \in [Indices -> Values \cup {NULL}], NEW w \in Indices, NEW r \in Indices
  PROVE  /\ [i \in 1..(w - r - 1) % Size |-> b[(r + i) % Size]] = QueueOf(b, w, r)
         /\ QueueOf(b, w, r) \in Seq(Values \cup {NULL}) /\ Len(QueueOf(b, w, r)) = Used(w, r)
<1>1. Used(w, r) \in Indices /\ (w - r - 1) % Size = Used(w, r)
  BY UsedIs
<1>2. \A i \in 1..Used(w, r) : (r + i) % Size = Place(r, i) /\ Place(r, i) \in Indices
  <2>1. \A i \in 1..Used(w, r) : i \in Indices
    BY <1>1, PipeAssumption DEF Indices
  <2>2. QED
    BY <2>1, PlaceIs
<1>3. \A i \in 1..Used(w, r) : b[Place(r, i)] \in Values \cup {NULL}
  BY <1>2
<1>4. Used(w, r) \in Nat
  BY <1>1, PipeAssumption DEF Indices
<1>5. QED
  BY <1>1, <1>2, <1>3, <1>4 DEF QueueOf

\* A byte at the write position that the writer has stored is put at the end.
LEMMA QueueAppends ==
  ASSUME NEW b \in [Indices -> Values \cup {NULL}], NEW w \in Indices, NEW r \in Indices, w # r
  PROVE  /\ Used(w, r) < Size - 1
         /\ QueueOf(b, Following(w), r) = Append(QueueOf(b, w, r), b[w])
<1> DEFINE n == Used(w, r)
<1>1. n \in Indices
  BY UsedIs
<1>2. Used(Following(w), r) = n + 1 /\ n + 1 < Size /\ Place(r, n + 1) = w
  <2>1. Following(w) = IF w + 1 = Size THEN 0 ELSE w + 1
    BY FollowingIs
  <2>2. QED
    BY <2>1, PipeAssumption DEF Used, Place, Indices
<1>3. QueueOf(b, w, r) \in Seq(Values \cup {NULL}) /\ Len(QueueOf(b, w, r)) = n
  BY QueueIs
<1>4. n \in Nat
  BY <1>1, PipeAssumption DEF Indices
<1> HIDE DEF n
<1>5. QueueOf(b, Following(w), r) = [i \in 1..n + 1 |-> b[Place(r, i)]]
  BY <1>2 DEF QueueOf
<1>6. QueueOf(b, w, r) = [i \in 1..n |-> b[Place(r, i)]]
  BY DEF QueueOf, n
<1>7. Append(QueueOf(b, w, r), b[w]) =
         [i \in 1..n + 1 |-> IF i = n + 1 THEN b[w] ELSE QueueOf(b, w, r)[i]]
  BY <1>3, <1>4
<1>8. \A i \in 1..n + 1 : b[Place(r, i)] = IF i = n + 1 THEN b[w] ELSE QueueOf(b, w, r)[i]
  BY <1>2, <1>4, <1>6
<1>9. n < Size - 1
  BY <1>2, <1>4, PipeAssumption
<1>10. QED
  BY <1>5, <1>7, <1>8, <1>9 DEF n

\* The rest of a sequence, one place further on.
LEMMA TailIs ==
  ASSUME NEW S, NEW s \in Seq(S), s # <<>>
  PROVE  Tail(s) = [i \in 1..Len(s) - 1 |-> s[i + 1]]
<1>1. Tail(s) \in Seq(S) /\ Len(Tail(s)) = Len(s) - 1 /\ Len(s) \in Nat
  OBVIOUS
<1>2. \A i \in 1..Len(s) - 1 : Tail(s)[i] = s[i + 1]
  OBVIOUS
<1>3. Tail(s) \in [1..Len(s) - 1 -> S]
  BY <1>1, LenProperties
<1>4. QED
  BY <1>2, <1>3

\* A byte after the read position is taken from the front.
LEMMA QueueTakes ==
  ASSUME NEW b \in [Indices -> Values \cup {NULL}], NEW w \in Indices, NEW r \in Indices,
         w # Following(r)
  PROVE  /\ QueueOf(b, w, r) # <<>>
         /\ Head(QueueOf(b, w, r)) = b[Following(r)]
         /\ QueueOf(b, w, Following(r)) = Tail(QueueOf(b, w, r))
<1> DEFINE n == Used(w, r)
           f == Following(r)
<1>1. n \in Indices
  BY UsedIs
<1>2. Used(w, f) = n - 1 /\ n > 0 /\ Place(r, 1) = f
  <2>1. f = (IF r + 1 = Size THEN 0 ELSE r + 1) /\ w # f
    BY FollowingIs
  <2>2. Size \in Nat /\ w \in Nat /\ r \in Nat /\ w < Size /\ r < Size
    BY PipeAssumption DEF Indices
  <2>3. n = IF w > r THEN w - r - 1 ELSE w - r - 1 + Size
    BY DEF Used
  <2>4. Used(w, f) = IF w > f THEN w - f - 1 ELSE w - f - 1 + Size
    BY DEF Used
  <2> HIDE DEF n, f
  <2>5. CASE r + 1 = Size
    BY <2>1, <2>2, <2>3, <2>4, <2>5 DEF Place
  <2>6. CASE r + 1 # Size
    BY <2>1, <2>2, <2>3, <2>4, <2>6 DEF Place
  <2>7. QED
    BY <2>5, <2>6
<1>3. QueueOf(b, w, r) \in Seq(Values \cup {NULL}) /\ Len(QueueOf(b, w, r)) = n
  BY QueueIs
<1>4. n \in Nat
  BY <1>1, PipeAssumption DEF Indices
<1>5. \A i \in 1..n - 1 : Place(f, i) = Place(r, i + 1)
  <2>1. f = IF r + 1 = Size THEN 0 ELSE r + 1
    BY FollowingIs
  <2>2. n < Size
    BY <1>1, PipeAssumption DEF Indices
  <2> HIDE DEF n, f
  <2>3. QED
    BY <1>4, <2>1, <2>2, PipeAssumption DEF Place, Indices
<1> HIDE DEF n, f
<1>6. QueueOf(b, w, f) = [i \in 1..n - 1 |-> b[Place(r, i + 1)]]
  BY <1>2, <1>5 DEF QueueOf
<1>7. QueueOf(b, w, r) = [i \in 1..n |-> b[Place(r, i)]]
  BY DEF QueueOf, n
<1>8. QueueOf(b, w, r) # <<>> /\ Head(QueueOf(b, w, r)) = b[f]
  BY <1>2, <1>3, <1>4, <1>7
<1>9. Tail(QueueOf(b, w, r)) = [i \in 1..n - 1 |-> QueueOf(b, w, r)[i + 1]]
  BY <1>3, <1>8, TailIs
<1>10. \A i \in 1..n - 1 : QueueOf(b, w, r)[i + 1] = b[Place(r, i + 1)]
  BY <1>4, <1>7
<1>11. QED
  BY <1>6, <1>8, <1>9, <1>10 DEF f

\* A byte stored at the write position changes nothing before it.
LEMMA QueueStays ==
  ASSUME NEW b \in [Indices -> Values \cup {NULL}], NEW w \in Indices, NEW r \in Indices, w # r,
         NEW v
  PROVE  QueueOf([b EXCEPT ![w] = v], w, r) = QueueOf(b, w, r)
<1>1. Used(w, r) \in Indices
  BY UsedIs
<1>2. \A i \in 1..Used(w, r) : Place(r, i) # w /\ Place(r, i) \in Indices
  BY <1>1, PipeAssumption DEF Used, Place, Indices
<1>3. QED
  BY <1>2 DEF QueueOf

-----------------------------------------------------------------------------
(* The bytes: invariant and refinement *)

\* The two views of the queue agree, before and after a step.
LEMMA QueueNow == RingTypes => queue = QueueOf(buffer_, write_pos_, read_pos_)
  BY QueueIs DEF RingTypes, queue

\* The same in the next state.
LEMMA QueueNext == RingTypes' => queue' = QueueOf(buffer_', write_pos_', read_pos_')
  BY QueueIs DEF RingTypes, queue

\* A new ring is the empty queue.
LEMMA InitRing == Init => RingInv /\ Q!Init
<1> SUFFICES ASSUME Init PROVE RingInv /\ Q!Init
  OBVIOUS
<1>1. RingTypes /\ PutInv /\ GetInv
  BY PipeAssumption DEF Init, RingTypes, PutInv, GetInv, Indices, Labels, PutLabels, GetLabels
<1>2. queue = <<>>
  BY <1>1, QueueNow, PipeAssumption DEF Init, QueueOf, Used
<1>3. QED
  BY <1>1, <1>2 DEF Init, RingInv, Q!Init

\* A step that moves nobody into put or get, nor the bytes.
LEMMA QuietRing ==
  ASSUME RingInv, pc' \in [Procs -> Labels],
         \A p \in Procs : pc'[p] \in PutLabels \cup GetLabels => pc'[p] = pc[p],
         forking' \in [Procs -> Procs \cup {NULL}],
         UNCHANGED <<ringVars, pos, c, got>>
  PROVE  RingInv' /\ UNCHANGED <<queue, got>>
<1> USE DEF ringVars
<1>1. RingTypes'
  BY DEF RingInv, RingTypes
<1>2. PutInv'
  BY DEF RingInv, PutInv, PutLabels
<1>3. GetInv'
  BY DEF RingInv, GetInv, GetLabels, Following
<1>4. UNCHANGED <<queue, got>>
  BY DEF queue
<1>5. QED
  BY <1>1, <1>2, <1>3, <1>4 DEF RingInv

\* put, byte by byte.
LEMMA PutRing ==
  ASSUME RingInv, NEW p \in Procs,
         (\E v \in Values : Put(p, v)) \/ PutCheck(p) \/ PutStore(p) \/ PutAdvance(p)
  PROVE  RingInv' /\ [Q!Next]_<<queue, got>>
<1> USE DEF Goto, Return, ringVars, countVars, callVars, PutLabels, GetLabels
<1>1. ASSUME NEW v \in Values, Put(p, v)
      PROVE  RingInv' /\ UNCHANGED <<queue, got>>
  <2>1. RingTypes'
    BY <1>1 DEF Put, RingInv, RingTypes, Labels
  <2>2. PutInv' /\ GetInv'
    BY <1>1 DEF Put, RingInv, RingTypes, PutInv, GetInv, Following
  <2>3. UNCHANGED <<queue, got>>
    BY <1>1 DEF Put, queue
  <2>4. QED
    BY <2>1, <2>2, <2>3 DEF RingInv
<1>2. CASE PutCheck(p)
  <2>1. RingTypes'
    <3>1. RingTypes /\ 0 \in Indices
      BY PipeAssumption DEF RingInv, Indices
    <3>2. /\ pc' \in [Procs -> Labels] /\ pos' \in [Procs -> Indices]
          /\ c' \in [Procs -> Values \cup {NULL}]
      BY <1>2, <3>1 DEF PutCheck, RingTypes, Labels
    <3>3. QED
      BY <1>2, <3>1, <3>2 DEF PutCheck, RingTypes
  <2>2. PutInv' /\ GetInv'
    BY <1>2 DEF PutCheck, IsFull, RingInv, RingTypes, PutInv, GetInv, Following
  <2>3. UNCHANGED <<queue, got>>
    BY <1>2 DEF PutCheck, queue
  <2>4. QED
    BY <2>1, <2>2, <2>3 DEF RingInv
<1>3. CASE PutStore(p)
  <2>1. RingTypes'
    BY <1>3 DEF PutStore, RingInv, RingTypes, Labels
  <2>2. PutInv' /\ GetInv'
    BY <1>3 DEF PutStore, RingInv, RingTypes, PutInv, GetInv, Following
  <2>3. buffer_' = [buffer_ EXCEPT ![write_pos_] = c[p]] /\ write_pos_ # read_pos_
    BY <1>3 DEF PutStore, RingInv, PutInv
  <2>4. UNCHANGED <<queue, got>>
    <3>1. queue = QueueOf(buffer_, write_pos_, read_pos_)
      BY QueueNow DEF RingInv
    <3>2. queue' = QueueOf(buffer_', write_pos_, read_pos_)
      BY <1>3, <2>1, QueueNext DEF PutStore
    <3>3. QueueOf(buffer_', write_pos_, read_pos_) = QueueOf(buffer_, write_pos_, read_pos_)
      BY <2>3, QueueStays DEF RingInv, RingTypes
    <3>4. QED
      BY <1>3, <3>1, <3>2, <3>3 DEF PutStore
  <2>5. QED
    BY <2>1, <2>2, <2>4 DEF RingInv
<1>4. CASE PutAdvance(p)
  <2>0. pos[p] = write_pos_ /\ write_pos_ # read_pos_ /\ c[p] \in Values /\ buffer_[write_pos_] = c[p]
        /\ write_pos_' = Following(write_pos_)
    BY <1>4 DEF PutAdvance, RingInv, PutInv
  <2>1. RingTypes'
    BY <1>4, <2>0, FollowingIs, PipeAssumption DEF PutAdvance, RingInv, RingTypes, Labels, Indices
  <2>2. Following(read_pos_) # Following(write_pos_)
    <3>1. write_pos_ \in Indices /\ read_pos_ \in Indices
      BY DEF RingInv, RingTypes
    <3>2. /\ Following(read_pos_) = IF read_pos_ + 1 = Size THEN 0 ELSE read_pos_ + 1
          /\ Following(write_pos_) = IF write_pos_ + 1 = Size THEN 0 ELSE write_pos_ + 1
      BY <3>1, FollowingIs
    <3>3. QED
      BY <2>0, <3>1, <3>2, PipeAssumption DEF Indices
  <2>3. PutInv' /\ GetInv'
    BY <1>4, <2>0, <2>2 DEF PutAdvance, RingInv, RingTypes, PutInv, GetInv, Following
  <2>4. Len(queue) < Size - 1 /\ queue' = Append(queue, c[p])
    <3>1. queue = QueueOf(buffer_, write_pos_, read_pos_)
      BY QueueNow DEF RingInv
    <3>2. queue' = QueueOf(buffer_, Following(write_pos_), read_pos_)
      BY <1>4, <2>0, <2>1, QueueNext DEF PutAdvance
    <3>3. Len(queue) = Used(write_pos_, read_pos_)
      BY <3>1, QueueIs DEF RingInv, RingTypes
    <3>4. /\ Used(write_pos_, read_pos_) < Size - 1
          /\ QueueOf(buffer_, Following(write_pos_), read_pos_) =
                Append(QueueOf(buffer_, write_pos_, read_pos_), buffer_[write_pos_])
      BY <2>0, QueueAppends DEF RingInv, RingTypes
    <3>5. QED
      BY <2>0, <3>1, <3>2, <3>3, <3>4
  <2>5. Q!Put(c[p])
    BY <1>4, <2>4 DEF PutAdvance, Q!Put
  <2>6. QED
    BY <2>0, <2>1, <2>3, <2>5 DEF RingInv, Q!Next
<1>5. QED
  BY <1>1, <1>2, <1>3, <1>4

\* get, byte by byte.
LEMMA GetRing ==
  ASSUME RingInv, NEW p \in Procs, Get(p) \/ GetCheck(p) \/ GetLoad(p) \/ GetAdvance(p)
  PROVE  RingInv' /\ [Q!Next]_<<queue, got>>
<1> USE DEF Goto, Return, ringVars, countVars, callVars, PutLabels, GetLabels
<1>1. CASE Get(p)
  <2>1. RingTypes'
    BY <1>1, FollowingIs DEF Get, RingInv, RingTypes, Labels
  <2>2. PutInv' /\ GetInv'
    BY <1>1 DEF Get, RingInv, RingTypes, PutInv, GetInv, Following
  <2>3. UNCHANGED <<queue, got>>
    BY <1>1 DEF Get, queue
  <2>4. QED
    BY <2>1, <2>2, <2>3 DEF RingInv
<1>2. CASE GetCheck(p)
  <2>1. RingTypes'
    <3>1. 0 \in Indices
      BY PipeAssumption DEF Indices
    <3>2. QED
      BY <1>2, <3>1 DEF GetCheck, RingInv, RingTypes, Labels
  <2>2. PutInv' /\ GetInv'
    BY <1>2 DEF GetCheck, IsEmpty, RingInv, RingTypes, PutInv, GetInv, Following
  <2>3. UNCHANGED <<queue, got>>
    BY <1>2 DEF GetCheck, queue
  <2>4. QED
    BY <2>1, <2>2, <2>3 DEF RingInv
<1>3. CASE GetLoad(p)
  <2>1. RingTypes'
    BY <1>3 DEF GetLoad, RingInv, RingTypes, Labels
  <2>2. PutInv' /\ GetInv'
    BY <1>3 DEF GetLoad, RingInv, RingTypes, PutInv, GetInv, Following
  <2>3. UNCHANGED <<queue, got>>
    BY <1>3 DEF GetLoad, queue
  <2>4. QED
    BY <2>1, <2>2, <2>3 DEF RingInv
<1>4. CASE GetAdvance(p)
  <2>0. /\ pos[p] = Following(read_pos_) /\ pos[p] # write_pos_ /\ c[p] = buffer_[pos[p]]
        /\ read_pos_' = Following(read_pos_)
    BY <1>4 DEF GetAdvance, RingInv, GetInv
  <2>1. RingTypes'
    BY <1>4, <2>0, FollowingIs, PipeAssumption DEF GetAdvance, RingInv, RingTypes, Labels, Indices
  <2>2. PutInv' /\ GetInv'
    BY <1>4, <2>0 DEF GetAdvance, RingInv, RingTypes, PutInv, GetInv, Following
  <2>3. queue # <<>> /\ Head(queue) = c[p] /\ queue' = Tail(queue)
    BY <1>4, <2>0, <2>1, QueueNow, QueueNext, QueueTakes DEF GetAdvance, RingInv, RingTypes
  <2>4. Q!Get
    BY <1>4, <2>3 DEF GetAdvance, Q!Get
  <2>5. QED
    BY <2>1, <2>2, <2>4 DEF RingInv, Q!Next
<1>5. QED
  BY <1>1, <1>2, <1>3, <1>4

\* Opening, fork and exit leave the bytes alone.
LEMMA LifeRing ==
  ASSUME RingInv, NEW p \in Procs,
         \/ OpenPipe(p) \/ \E child \in Procs : Fork(p, child)
         \/ ForkCount(p) \/ ForkDone(p) \/ ForkFails(p) \/ Exit(p) \/ ExitDelete(p)
  PROVE  RingInv' /\ UNCHANGED <<queue, got>>
<1> USE DEF Goto, ringVars, countVars, callVars, PutLabels, GetLabels, Labels, RingInv, RingTypes
<1>1. /\ pc' \in [Procs -> Labels]
      /\ \A q \in Procs : pc'[q] \in PutLabels \cup GetLabels => pc'[q] = pc[q]
  BY DEF OpenPipe, Fork, ForkCount, ForkDone, ForkFails, Exit, ExitDelete
<1>2. forking' \in [Procs -> Procs \cup {NULL}] /\ UNCHANGED <<ringVars, pos, c, got>>
  BY DEF OpenPipe, Fork, ForkCount, ForkDone, ForkFails, Exit, ExitDelete
<1>3. QED
  BY <1>1, <1>2, QuietRing

\* Every access to the ring is a step of the queue or none.
LEMMA NextRing == RingInv /\ [Next]_vars => RingInv' /\ [Q!Next]_<<queue, got>>
<1> SUFFICES ASSUME RingInv, [Next]_vars PROVE RingInv' /\ [Q!Next]_<<queue, got>>
  OBVIOUS
<1>1. CASE UNCHANGED vars
  BY <1>1, QuietRing DEF vars, ringVars, callVars, RingInv, RingTypes
<1>2. CASE Next
  BY <1>2, PutRing, GetRing, LifeRing DEF Next
<1>3. QED
  BY <1>1, <1>2

\* The RingBuffer that a reading and a writing process share without a lock is
\* a first-in-first-out queue of Size - 1 bytes, whatever its size, whatever
\* interleaving of the single accesses, and while others fork and exit.
THEOREM PipeIsQueue == Spec => ImplementsQueue
  BY InitRing, NextRing, PTL DEF Spec, ImplementsQueue, Q!Spec

-----------------------------------------------------------------------------
(* The life of the buffer *)

\* The processes that connected_proc_counter_ stands for: those with the pipe,
\* but for a child that is not counted yet and a process that has been.
Counted == {p \in pipes_ : pc[p] \notin {"born", "dying"}}

LifeTypes ==
    /\ pc \in [Procs -> Labels]
    /\ forking \in [Procs -> Procs \cup {NULL}]
    /\ pipes_ \subseteq Procs /\ IsFiniteSet(pipes_)
    /\ ring \in {"none", "alive", "deleted"}
    /\ failed \in BOOLEAN

\* The counter is right, or too high after a fork that failed.
CountInv ==
    /\ connected_proc_counter_ \in Nat
    /\ connected_proc_counter_ >= Cardinality(Counted)
    /\ failed = FALSE => connected_proc_counter_ = Cardinality(Counted)

\* The parent of a child that is being made has the pipe if the child has it,
\* and stays: an uncounted child is not alone.
ForkInv ==
    /\ \A p \in Procs : forking[p] # NULL =>
          /\ Alive(p)
          /\ pc[forking[p]] \in {"born", "counted"}
          /\ forking[p] \in pipes_ => p \in pipes_
    /\ \A p, q \in Procs : forking[p] = forking[q] /\ forking[p] # NULL => p = q
    /\ \A p \in Procs : pc[p] = "born" => \E q \in Procs : forking[q] = p

OwnersInv ==
    /\ \A p, q \in Procs : pc[p] = "dying" /\ pc[q] = "dying" => p = q
    /\ \A p \in pipes_ : pc[p] \notin {"none", "gone"}
    /\ pipes_ # {} => ring = "alive"
    /\ ring = "alive" /\ failed = FALSE => pipes_ # {}

LifeInv == LifeTypes /\ CountInv /\ ForkInv /\ OwnersInv

\* At the start nobody has the pipe.
LEMMA InitLife == Init => LifeInv
<1> SUFFICES ASSUME Init PROVE LifeInv
  OBVIOUS
<1>1. Counted = {} /\ pipes_ = {}
  BY DEF Init, Counted
<1>2. LifeTypes /\ CountInv
  <2>1. IsFiniteSet({}) /\ Cardinality({}) = 0
    BY FS_EmptySet
  <2>2. LifeTypes
    BY <1>1, <2>1, PipeAssumption DEF Init, LifeTypes, Labels
  <2>3. CountInv
    BY <1>1, <2>1 DEF Init, CountInv
  <2>4. QED
    BY <2>2, <2>3
<1>3. ForkInv /\ OwnersInv
  BY DEF Init, ForkInv, OwnersInv
<1>4. QED
  BY <1>2, <1>3 DEF LifeInv

\* The processes that are counted are finitely many.
LEMMA CountedFinite == LifeTypes => IsFiniteSet(Counted) /\ Cardinality(Counted) \in Nat
  BY FS_Subset, FS_CardinalityType DEF LifeTypes, Counted

\* A step of a thread inside read or write, or between user mode and there.
LEMMA CallLife ==
  ASSUME LifeInv, NEW p \in Procs, Alive(p), NEW l \in Labels,
         l \notin {"none", "born", "counted", "dying", "gone"},
         pc' = [pc EXCEPT ![p] = l], UNCHANGED <<countVars, forking, failed>>
  PROVE  LifeInv'
<1> USE DEF countVars, LifeInv
<1>1. LifeTypes'
  BY DEF LifeTypes
<1>2. Counted' = Counted
  BY DEF Counted, Alive, LifeTypes
<1>3. CountInv'
  BY <1>2 DEF CountInv
<1>4. ForkInv' /\ OwnersInv'
  BY DEF ForkInv, OwnersInv, LifeTypes, Alive
<1>5. QED
  BY <1>1, <1>3, <1>4

\* openPipe makes the buffer, with its maker counted.
LEMMA OpenLife == ASSUME LifeInv, NEW p \in Procs, OpenPipe(p) PROVE LifeInv'
<1> USE DEF LifeInv
<1>1. pipes_ = {} /\ pipes_' = {p} /\ UNCHANGED <<pc, forking, failed>> /\ pc[p] = "user"
      /\ connected_proc_counter_' = 1 /\ ring' = "alive"
  BY DEF OpenPipe, OwnersInv, callVars
<1>2. LifeTypes'
  BY <1>1, FS_Singleton DEF LifeTypes
<1>3. Counted' = {p}
  BY <1>1 DEF Counted
<1>4. CountInv'
  BY <1>1, <1>3, FS_Singleton DEF CountInv
<1>5. ForkInv' /\ OwnersInv'
  BY <1>1, PipeAssumption DEF ForkInv, OwnersInv, LifeTypes, Alive
<1>6. QED
  BY <1>2, <1>4, <1>5

\* The copy of pipes_ to a child that is not counted yet.
LEMMA ForkLife ==
  ASSUME LifeInv, NEW p \in Procs, NEW child \in Procs, Fork(p, child) PROVE LifeInv'
<1> USE DEF LifeInv
<1>0. /\ Alive(p) /\ forking[p] = NULL /\ pc[child] = "none"
      /\ forking' = [forking EXCEPT ![p] = child]
      /\ pipes_' = IF p \in pipes_ THEN pipes_ \cup {child} ELSE pipes_
      /\ pc' = [pc EXCEPT ![child] = "born"]
      /\ UNCHANGED <<connected_proc_counter_, ring, failed>>
  BY DEF Fork, Goto
<1>1. LifeTypes'
  BY <1>0, FS_AddElement DEF LifeTypes, Labels
<1>2. Counted' = Counted
  BY <1>0 DEF Counted, LifeTypes, OwnersInv
<1>3. CountInv'
  BY <1>0, <1>2 DEF CountInv
<1>4. ForkInv'
  <2>1. \A q \in Procs : forking[q] # child
    BY <1>0, PipeAssumption DEF ForkInv, LifeTypes
  <2>2. p # child /\ child # NULL
    BY <1>0, PipeAssumption DEF Alive
  <2>3. \A q \in Procs : forking'[q] = IF q = p THEN child ELSE forking[q]
    BY <1>0 DEF LifeTypes
  <2>4. \A q \in Procs : pc'[q] = IF q = child THEN "born" ELSE pc[q]
    BY <1>0 DEF LifeTypes
  <2>5. \A q \in Procs : forking'[q] # NULL =>
            /\ Alive(q)'
            /\ pc'[forking'[q]] \in {"born", "counted"}
            /\ forking'[q] \in pipes_' => q \in pipes_'
    <3>1. child \notin pipes_
      BY <1>0 DEF OwnersInv
    <3>2. QED
      BY <1>0, <2>1, <2>2, <2>3, <2>4, <3>1 DEF ForkInv, LifeTypes, Alive
  <2>6. \A q, r \in Procs : forking'[q] = forking'[r] /\ forking'[q] # NULL => q = r
    BY <2>1, <2>3 DEF ForkInv
  <2>7. \A q \in Procs : pc'[q] = "born" => \E r \in Procs : forking'[r] = q
    BY <1>0, <2>1, <2>3, <2>4, PipeAssumption DEF ForkInv
  <2>8. QED
    BY <2>5, <2>6, <2>7 DEF ForkInv
<1>5. OwnersInv'
  BY <1>0 DEF OwnersInv, LifeTypes
<1>6. QED
  BY <1>1, <1>3, <1>4, <1>5

\* incProcCount counts the child in while its parent still has the pipe.
LEMMA ForkCountLife == ASSUME LifeInv, NEW p \in Procs, ForkCount(p) PROVE LifeInv'
<1> USE DEF LifeInv
<1> DEFINE child == forking[p]
<1>0. /\ child \in Procs /\ pc[child] = "born" /\ pc' = [pc EXCEPT ![child] = "counted"]
      /\ connected_proc_counter_' = CountWith(child)
      /\ UNCHANGED <<ring, pipes_, forking, failed>>
  BY DEF ForkCount, Goto, LifeTypes
<1> HIDE DEF child
<1>1. LifeTypes'
  BY <1>0 DEF LifeTypes, Labels
<1>2. IF child \in pipes_ THEN Counted' = Counted \cup {child} /\ child \notin Counted
      ELSE Counted' = Counted
  BY <1>0 DEF Counted, LifeTypes
<1>3. CountInv'
  <2>1. IsFiniteSet(Counted) /\ Cardinality(Counted) \in Nat
    BY CountedFinite
  <2>2. child \in pipes_ => Cardinality(Counted') = Cardinality(Counted) + 1
    BY <1>2, <2>1, FS_AddElement
  <2>3. QED
    BY <1>0, <1>2, <2>1, <2>2 DEF CountInv, CountWith
<1>4. ForkInv' /\ OwnersInv'
  BY <1>0 DEF ForkInv, OwnersInv, LifeTypes, Alive, child
<1>5. QED
  BY <1>1, <1>3, <1>4

\* A fork that ends has counted its child, or is the failed one.
LEMMA ForkEndsLife == ASSUME LifeInv, NEW p \in Procs, ForkDone(p) \/ ForkFails(p) PROVE LifeInv'
<1> USE DEF LifeInv
<1> DEFINE child == forking[p]
<1>0. child \in Procs /\ pc[child] = "counted" /\ forking' = [forking EXCEPT ![p] = NULL]
      /\ UNCHANGED <<ring, connected_proc_counter_>>
  BY DEF ForkDone, ForkFails, LifeTypes, countVars
<1>1. CASE ForkDone(p)
  <2>1. UNCHANGED <<countVars, failed>> /\ pc' = [pc EXCEPT ![child] = "user"]
    BY <1>1 DEF ForkDone, Goto
  <2>2. LifeTypes'
    BY <1>0, <2>1, PipeAssumption DEF LifeTypes, Labels, countVars
  <2>3. Counted' = Counted
    BY <1>0, <2>1 DEF Counted, LifeTypes, countVars
  <2>4. CountInv'
    BY <2>1, <2>3 DEF CountInv, countVars
  <2>5. ForkInv'
    BY <1>0, <2>1, PipeAssumption DEF ForkInv, LifeTypes, Alive, countVars
  <2>6. OwnersInv'
    BY <1>0, <2>1 DEF OwnersInv, LifeTypes, countVars
  <2>7. QED
    BY <2>2, <2>4, <2>5, <2>6
<1>2. CASE ForkFails(p)
  <2>1. failed' = TRUE /\ pipes_' = pipes_ \ {child} /\ pc' = [pc EXCEPT ![child] = "gone"]
    BY <1>2 DEF ForkFails, Goto
  <2>2. LifeTypes'
    BY <1>0, <2>1, FS_RemoveElement, PipeAssumption DEF LifeTypes, Labels
  <2>3. Counted' = Counted \ {child}
    BY <1>0, <2>1 DEF Counted, LifeTypes
  <2>4. CountInv'
    <3>1. IsFiniteSet(Counted) /\ Cardinality(Counted) \in Nat
      BY CountedFinite
    <3>2. Cardinality(Counted') \in Nat /\ Cardinality(Counted') <= Cardinality(Counted)
      BY <2>3, <3>1, FS_Subset, FS_CardinalityType
    <3>3. QED
      BY <1>0, <2>1, <3>1, <3>2 DEF CountInv
  <2>5. ForkInv'
    BY <1>0, <2>1, PipeAssumption DEF ForkInv, LifeTypes, Alive
  <2>6. OwnersInv'
    BY <1>0, <2>1 DEF OwnersInv, LifeTypes
  <2>7. QED
    BY <2>2, <2>4, <2>5, <2>6
<1>3. QED
  BY <1>1, <1>2

\* A process leaves the count and learns whether it was the last.
LEMMA ExitLife == ASSUME LifeInv, NEW p \in Procs, Exit(p) PROVE LifeInv'
<1> USE DEF LifeInv
<1>0. /\ pc[p] = "user" /\ forking[p] = NULL /\ \A q \in Procs : pc[q] # "dying"
      /\ connected_proc_counter_' = connected_proc_counter_ - (IF p \in pipes_ THEN 1 ELSE 0)
      /\ pc' = [pc EXCEPT ![p] = "dying"]
      /\ UNCHANGED <<ring, pipes_, forking, failed>>
  BY DEF Exit, Goto
<1>1. LifeTypes'
  BY <1>0 DEF LifeTypes, Labels
<1>2. Counted' = Counted \ {p} /\ (p \in Counted <=> p \in pipes_)
  BY <1>0 DEF Counted, LifeTypes
<1>3. CountInv'
  <2>1. IsFiniteSet(Counted) /\ Cardinality(Counted) \in Nat
    BY CountedFinite
  <2>2. Cardinality(Counted') =
           IF p \in pipes_ THEN Cardinality(Counted) - 1 ELSE Cardinality(Counted)
    BY <1>2, <2>1, FS_RemoveElement
  <2>3. Cardinality(Counted') \in Nat
    BY <1>2, <2>1, FS_RemoveElement, FS_CardinalityType
  <2>4. QED
    BY <1>0, <2>1, <2>2, <2>3 DEF CountInv
<1>4. ForkInv'
  BY <1>0, PipeAssumption DEF ForkInv, LifeTypes, Alive
<1>5. OwnersInv'
  BY <1>0 DEF OwnersInv, LifeTypes
<1>6. QED
  BY <1>1, <1>3, <1>4, <1>5

\* If the last one that is counted is gone there is no child that is not
\* counted yet, as its parent would be.
LEMMA ExitDeleteLife == ASSUME LifeInv, NEW p \in Procs, ExitDelete(p) PROVE LifeInv'
<1> USE DEF LifeInv
<1>0. /\ pc[p] = "dying"
      /\ ring' = IF p \in pipes_ /\ connected_proc_counter_ = 0 THEN "deleted" ELSE ring
      /\ pipes_' = pipes_ \ {p}
      /\ pc' = [pc EXCEPT ![p] = "gone"]
      /\ UNCHANGED <<connected_proc_counter_, forking, failed>>
  BY DEF ExitDelete, Goto
<1>1. LifeTypes'
  BY <1>0, FS_RemoveElement DEF LifeTypes, Labels
<1>2. Counted' = Counted /\ p \notin Counted
  BY <1>0 DEF Counted, LifeTypes
<1>3. CountInv'
  BY <1>0, <1>2 DEF CountInv
<1>4. ForkInv'
  BY <1>0, PipeAssumption DEF ForkInv, LifeTypes, Alive
<1>5. pipes_' # {} => Counted # {}
  <2>1. ASSUME NEW q \in pipes_', q \notin Counted
        PROVE  Counted # {}
    <3>1. pc[q] = "born"
      BY <1>0, <2>1 DEF Counted, OwnersInv, LifeTypes
    <3>2. PICK r \in Procs : forking[r] = q
      BY <1>0, <2>1, <3>1 DEF ForkInv, LifeTypes
    <3>3. r \in pipes_ /\ Alive(r)
      BY <1>0, <2>1, <3>2, PipeAssumption DEF ForkInv, LifeTypes
    <3>4. QED
      BY <3>3 DEF Counted, Alive
  <2>2. QED
    BY <2>1
<1>6. Counted # {} <=> Cardinality(Counted) # 0
  BY CountedFinite, FS_EmptySet
<1>7. OwnersInv'
  <2>1. pipes_' # {} => ring' = "alive"
    BY <1>0, <1>5, <1>6, CountedFinite DEF CountInv, OwnersInv
  <2>2. ring' = "alive" /\ failed' = FALSE => pipes_' # {}
    <3>1. SUFFICES ASSUME ring' = "alive", failed = FALSE, pipes_ = {p}
                   PROVE  FALSE
      BY <1>0 DEF OwnersInv
    <3>2. Counted = {}
      BY <1>2, <3>1 DEF Counted
    <3>3. QED
      BY <1>0, <1>6, <3>1, <3>2 DEF CountInv
  <2>3. QED
    BY <1>0, <2>1, <2>2 DEF OwnersInv, LifeTypes
<1>8. QED
  BY <1>1, <1>3, <1>4, <1>7

\* Every step keeps the count right, or too high after a fork that failed.
LEMMA NextLife == LifeInv /\ [Next]_vars => LifeInv'
<1> SUFFICES ASSUME LifeInv, [Next]_vars PROVE LifeInv'
  OBVIOUS
<1>1. CASE UNCHANGED vars
  BY <1>1 DEF vars, countVars, callVars, LifeInv, LifeTypes, CountInv, Counted, ForkInv, OwnersInv, Alive
<1>2. ASSUME NEW p \in Procs,
             \/ \E v \in Values : Put(p, v)
             \/ PutCheck(p) \/ PutStore(p) \/ PutAdvance(p)
             \/ Get(p) \/ GetCheck(p) \/ GetLoad(p) \/ GetAdvance(p)
      PROVE  LifeInv'
  <2>1. PICK l \in {"user"} \cup PutLabels \cup GetLabels :
           pc' = [pc EXCEPT ![p] = l]
    BY <1>2 DEF Put, PutCheck, PutStore, PutAdvance, Get, GetCheck, GetLoad, GetAdvance, Goto,
                Return, PutLabels, GetLabels
  <2>2. pc[p] \in {"user"} \cup PutLabels \cup GetLabels /\ UNCHANGED <<countVars, forking, failed>>
    BY <1>2 DEF Put, PutCheck, PutStore, PutAdvance, Get, GetCheck, GetLoad, GetAdvance,
                PutLabels, GetLabels
  <2>3. QED
    BY <2>1, <2>2, CallLife DEF PutLabels, GetLabels, Labels, Alive
<1>3. QED
  BY <1>1, <1>2, OpenLife, ForkLife, ForkCountLife, ForkEndsLife, ExitLife, ExitDeleteLife DEF Next

\* However many processes fork and exit, and however their steps interleave, no
\* process with the pipe is left with a deleted buffer, and the buffer does not
\* outlive the processes unless a fork has failed.
THEOREM BufferLivesLongEnough == Spec => []BufferLives
<1>1. LifeInv => BufferLives
  BY DEF LifeInv, LifeTypes, OwnersInv, BufferLives
<1>2. QED
  BY <1>1, InitLife, NextLife, PTL DEF Spec

-----------------------------------------------------------------------------
(* The types *)

\* The two invariants together give every variable its type.
TypeInv == RingInv /\ LifeInv /\ got \in Values \cup {NULL}

\* Only a finished read changes got, to a byte of the buffer.
LEMMA NextTypes == TypeInv /\ [Next]_vars => TypeInv'
<1> SUFFICES ASSUME TypeInv, [Next]_vars PROVE TypeInv'
  OBVIOUS
<1>1. RingInv' /\ LifeInv'
  BY NextRing, NextLife DEF TypeInv
<1>2. got' = got \/ \E p \in Procs : got' = c[p]
  BY DEF Next, vars, OpenPipe, Put, PutCheck, PutStore, PutAdvance, Get, GetCheck, GetLoad,
         GetAdvance, Fork, ForkCount, ForkDone, ForkFails, Exit, ExitDelete
<1>3. got' \in Values \cup {NULL}
  BY <1>2 DEF TypeInv, RingInv, RingTypes
<1>4. QED
  BY <1>1, <1>3 DEF TypeInv

\* Every variable keeps its type; in particular both positions stay inside the
\* buffer, and the unsigned count of processes never goes below zero.
THEOREM PipeTypes == Spec => []TypeOK
<1>1. Init => TypeInv
  BY InitRing, InitLife DEF Init, TypeInv
<1>2. TypeInv => TypeOK
  BY DEF TypeInv, RingInv, RingTypes, LifeInv, LifeTypes, CountInv, TypeOK, Indices
<1>3. QED
  BY <1>1, <1>2, NextTypes, PTL DEF Spec
=============================================================================
