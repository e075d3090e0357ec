-------------------------- MODULE KernelHeapProofs --------------------------
(***************************************************************************)
(* Proofs about KernelHeap, for any size of the heap, header and           *)
(* alignment, any users and any requests.                                  *)
(*                                                                         *)
(* An operation of the heap is a composition of operators on heaps, so     *)
(* the invariant is stated of any heap h: Chain and Apart, the list, and   *)
(* Marked and Freed, the memory.  There are two lemmas about each          *)
(* operator, one on what it writes, pointwise, and one on what it keeps.   *)
(***************************************************************************)
EXTENDS KernelHeap, TLAPS

Values == Ids \cup {ZERO, HEADER}
Segs(h) == DOMAIN h.seg
End(h, a) == a + Header + h.seg[a].size

\* A record of the right shape.
HeapType(h) ==
    /\ h = [seg |-> h.seg, last |-> h.last, mem |-> h.mem]
    /\ h.seg = [a \in Segs(h) |-> h.seg[a]]
    /\ Segs(h) \subseteq Addrs
    /\ \A a \in Segs(h) : h.seg[a] \in Segments
    /\ h.last \in Addrs
    /\ h.mem \in [Addrs -> Values]

\* The pointers of a segment.
Forward(h, a) ==
    /\ h.seg[a].next = NULL => a = h.last /\ End(h, a) = HeapSize /\ h.seg[a].size > 0
    /\ h.seg[a].next # NULL => /\ h.seg[a].next = End(h, a)
                               /\ End(h, a) \in Segs(h)
                               /\ h.seg[End(h, a)].prev = a
Backward(h, a) ==
    /\ h.seg[a].prev = NULL <=> a = 0
    /\ h.seg[a].prev # NULL => /\ h.seg[a].prev \in Segs(h)
                               /\ h.seg[h.seg[a].prev].next = a

Chain(h) ==
    /\ 0 \in Segs(h)
    /\ h.last \in Segs(h) /\ h.seg[h.last].next = NULL
    /\ \A a \in Segs(h) : Forward(h, a) /\ Backward(h, a)

\* The segments do not overlap.
Apart(h) == \A a, b \in Segs(h) : a < b => End(h, a) <= b

\* The list is whole, whatever the memory holds.
Whole(h) == HeapType(h) /\ Chain(h) /\ Apart(h)

InHeader(h, c) == \E a \in Segs(h) : c \in Cells(a, Header)
Marked(h) == \A c \in Addrs : h.mem[c] = HEADER <=> InHeader(h, c)

Body(h, a) == Cells(a + Header, h.seg[a].size)
IsZero(h, a) == \A c \in Body(h, a) : h.mem[c] = ZERO
Freed(h) == \A a \in Segs(h) : ~h.seg[a].used /\ h.seg[a].freed_at => IsZero(h, a)

HeapOK(h) == Whole(h) /\ Marked(h) /\ Freed(h)

\* A user's block is in a used segment of its own, which is large enough.
BlockOK(i) ==
    blocks[i].ptr # NULL =>
        /\ SegmentOf(i) \in Segs(heap)
        /\ heap.seg[SegmentOf(i)].used
        /\ blocks[i].size <= heap.seg[SegmentOf(i)].size
        /\ \A c \in Cells(blocks[i].ptr, blocks[i].size) : heap.mem[c] = i

BlockInv ==
    /\ blocks \in [Ids -> [ptr : Int, size : Nat]]
    /\ \A i \in Ids : BlockOK(i)
    /\ \A i, j \in Ids : blocks[i].ptr = blocks[j].ptr /\ blocks[i].ptr # NULL => i = j

HeapInv == HeapOK(heap) /\ BlockInv

-----------------------------------------------------------------------------
(* Arithmetic *)

\* The rounding of allocateMemory never gives less than was asked for.
LEMMA AlignFacts ==
  ASSUME NEW n \in Nat
  PROVE  Align(n) \in Nat /\ n <= Align(n)
<1> DEFINE A == Alignment
           q == (n + A - 1) \div A
           r == (n + A - 1) % A
<1>1. A \in Nat /\ A > 0
  BY HeapAssumption
<1>2. n + A - 1 \in Nat
  BY <1>1
<1>3. q \in Nat /\ r \in 0..A - 1 /\ n + A - 1 = A * q + r
  BY <1>1, <1>2
<1>4. A * q = q * A /\ A * q \in Nat
  BY <1>1, <1>3
<1> HIDE DEF A, q, r
<1>5. q * A \in Nat /\ n <= q * A
  BY <1>1, <1>3, <1>4
<1>6. QED
  BY <1>5 DEF Align, A, q

\* The sizes and addresses of a heap.
LEMMA SegFacts ==
  ASSUME NEW h, Whole(h), NEW a \in Segs(h)
  PROVE  /\ a \in Nat /\ a < HeapSize /\ a \in Addrs
         /\ h.seg[a].size \in Nat
         /\ End(h, a) \in Nat /\ End(h, a) <= HeapSize
         /\ End(h, a) = a + Header + h.seg[a].size
         /\ h.seg[a].next \in Pointers /\ h.seg[a].prev \in Pointers
         /\ h.seg[a].used \in BOOLEAN /\ h.seg[a].freed_at \in BOOLEAN
         /\ Header \in Nat /\ Header > 0 /\ HeapSize \in Nat
<1>1. Header \in Nat /\ Header > 0 /\ HeapSize \in Nat
  BY HeapAssumption
<1>2. a \in Nat /\ a < HeapSize /\ a \in Addrs /\ h.seg[a] \in Segments
  BY <1>1 DEF Whole, HeapType, Addrs
<1>3. /\ h.seg[a].size \in Nat
      /\ h.seg[a].next \in Pointers /\ h.seg[a].prev \in Pointers
      /\ h.seg[a].used \in BOOLEAN /\ h.seg[a].freed_at \in BOOLEAN
  BY <1>2 DEF Segments
<1>4. End(h, a) \in Nat /\ End(h, a) <= HeapSize
  <2>1. Forward(h, a)
    BY DEF Whole, Chain
  <2>2. CASE h.seg[a].next = NULL
    BY <1>1, <2>1, <2>2 DEF Forward
  <2>3. CASE h.seg[a].next # NULL
    BY <1>1, <1>3, <2>1, <2>3 DEF Forward, Pointers, Addrs
  <2>4. QED
    BY <2>2, <2>3
<1>5. QED
  BY <1>1, <1>2, <1>3, <1>4 DEF End

\* A cell is in one segment at most, and not both in its header and its body.
LEMMA CellFacts ==
  ASSUME NEW h, Whole(h), NEW a \in Segs(h), NEW c \in Int
  PROVE  /\ c \in Body(h, a) => ~InHeader(h, c) /\ c \in Addrs
         /\ c \in Cells(a, Header) => c \in Addrs
         /\ \A b \in Segs(h) : c \in Body(h, a) /\ c \in Body(h, b) => a = b
<1>1. \A b \in Segs(h) : /\ b \in Nat /\ h.seg[b].size \in Nat
                         /\ End(h, b) = b + Header + h.seg[b].size
                         /\ End(h, b) <= HeapSize
                         /\ Header \in Nat /\ HeapSize \in Nat
  BY SegFacts
<1>2. \A b \in Segs(h) : a = b \/ End(h, a) <= b \/ End(h, b) <= a
  BY <1>1 DEF Whole, Apart
<1>3. QED
  BY <1>1, <1>2 DEF Body, Cells, InHeader, Addrs

-----------------------------------------------------------------------------
(* Changes that leave the list as it is *)

\* The same segments with the same sizes and pointers.
SameList(h, g) ==
    /\ Segs(g) = Segs(h) /\ g.last = h.last
    /\ \A x \in Segs(h) : /\ g.seg[x].size = h.seg[x].size
                          /\ g.seg[x].next = h.seg[x].next
                          /\ g.seg[x].prev = h.seg[x].prev

\* The list stays whole.
LEMMA SameListWhole ==
  ASSUME NEW h, NEW g, Whole(h), HeapType(g), SameList(h, g)
  PROVE  /\ Whole(g)
         /\ \A x \in Segs(h) : End(g, x) = End(h, x) /\ Body(g, x) = Body(h, x)
<1>1. \A x \in Segs(h) : End(g, x) = End(h, x) /\ Body(g, x) = Body(h, x)
  BY DEF SameList, End, Body
<1>2. \A x \in Segs(g) : Forward(g, x)
  BY <1>1 DEF SameList, Whole, Chain, Forward
<1>3. \A x \in Segs(g) : Backward(g, x)
  BY <1>1 DEF SameList, Whole, Chain, Backward
<1>4. Chain(g)
  BY <1>2, <1>3 DEF SameList, Whole, Chain
<1>5. Apart(g)
  BY <1>1 DEF SameList, Whole, Apart
<1>6. QED
  BY <1>1, <1>4, <1>5 DEF Whole

\* Writing to a member of the segment a other than its size and pointers.
LEMMA SetFreedAt ==
  ASSUME NEW h, Whole(h), NEW a \in Segs(h), NEW v \in BOOLEAN
  PROVE  LET g == [h EXCEPT !.seg[a].freed_at = v]
         IN  /\ HeapType(g) /\ SameList(h, g) /\ g.mem = h.mem
             /\ \A x \in Segs(h) : /\ g.seg[x].used = h.seg[x].used
                                   /\ g.seg[x].freed_at = IF x = a THEN v ELSE h.seg[x].freed_at
<1> DEFINE g == [h EXCEPT !.seg[a].freed_at = v]
           this == [h.seg[a] EXCEPT !.freed_at = v]
<1>0. h = [seg |-> h.seg, last |-> h.last, mem |-> h.mem]
  BY DEF Whole, HeapType
<1>1. /\ g.seg = [h.seg EXCEPT ![a] = this] /\ g.last = h.last /\ g.mem = h.mem
      /\ g = [seg |-> g.seg, last |-> g.last, mem |-> g.mem]
  BY <1>0
<1>2. /\ this \in Segments /\ this.size = h.seg[a].size /\ this.next = h.seg[a].next
      /\ this.prev = h.seg[a].prev /\ this.used = h.seg[a].used /\ this.freed_at = v
  BY DEF Whole, HeapType, Segments
<1> HIDE DEF g, this
<1>3. /\ Segs(g) = Segs(h) /\ g.seg = [x \in Segs(g) |-> g.seg[x]]
      /\ \A x \in Segs(h) : g.seg[x] = IF x = a THEN this ELSE h.seg[x]
  BY <1>1 DEF Segs, Whole, HeapType
<1>4. HeapType(g)
  BY <1>1, <1>2, <1>3 DEF HeapType, Whole
<1>5. QED
  BY <1>1, <1>2, <1>3, <1>4 DEF g, SameList

\* The same for used.
LEMMA SetUsed ==
  ASSUME NEW h, Whole(h), NEW a \in Segs(h), NEW v \in BOOLEAN
  PROVE  LET g == [h EXCEPT !.seg[a].used = v]
         IN  /\ HeapType(g) /\ SameList(h, g) /\ g.mem = h.mem
             /\ \A x \in Segs(h) : /\ g.seg[x].used = IF x = a THEN v ELSE h.seg[x].used
                                   /\ g.seg[x].freed_at = h.seg[x].freed_at
<1> DEFINE g == [h EXCEPT !.seg[a].used = v]
           this == [h.seg[a] EXCEPT !.used = v]
<1>0. h = [seg |-> h.seg, last |-> h.last, mem |-> h.mem]
  BY DEF Whole, HeapType
<1>1. /\ g.seg = [h.seg EXCEPT ![a] = this] /\ g.last = h.last /\ g.mem = h.mem
      /\ g = [seg |-> g.seg, last |-> g.last, mem |-> g.mem]
  BY <1>0
<1>2. /\ this \in Segments /\ this.size = h.seg[a].size /\ this.next = h.seg[a].next
      /\ this.prev = h.seg[a].prev /\ this.used = v /\ this.freed_at = h.seg[a].freed_at
  BY DEF Whole, HeapType, Segments
<1> HIDE DEF g, this
<1>3. /\ Segs(g) = Segs(h) /\ g.seg = [x \in Segs(g) |-> g.seg[x]]
      /\ \A x \in Segs(h) : g.seg[x] = IF x = a THEN this ELSE h.seg[x]
  BY <1>1 DEF Segs, Whole, HeapType
<1>4. HeapType(g)
  BY <1>1, <1>2, <1>3 DEF HeapType, Whole
<1>5. QED
  BY <1>1, <1>2, <1>3, <1>4 DEF g, SameList

\* The segment a is marked as unused.
LEMMA SetUnused ==
  ASSUME NEW h, Whole(h), NEW a \in Segs(h)
  PROVE  LET g == [h EXCEPT !.seg[a].used = FALSE]
         IN  /\ HeapType(g) /\ SameList(h, g) /\ g.mem = h.mem
             /\ \A x \in Segs(h) : /\ g.seg[x].used <=> h.seg[x].used /\ x # a
                                   /\ g.seg[x].freed_at = h.seg[x].freed_at
<1> DEFINE v == FALSE
           g == [h EXCEPT !.seg[a].used = v]
<1>1. v \in BOOLEAN
  OBVIOUS
<1> HIDE DEF v
<1>2. /\ HeapType(g) /\ SameList(h, g) /\ g.mem = h.mem
      /\ \A x \in Segs(h) : /\ g.seg[x].used = IF x = a THEN v ELSE h.seg[x].used
                            /\ g.seg[x].freed_at = h.seg[x].freed_at
  BY <1>1, SetUsed
<1>3. \A x \in Segs(h) : h.seg[x].used \in BOOLEAN
  BY SegFacts
<1> HIDE DEF g
<1>4. ~v
  BY DEF v
<1>5. \A x \in Segs(h) : g.seg[x].used <=> h.seg[x].used /\ x # a
  BY <1>2, <1>3, <1>4
<1>6. QED
  BY <1>2, <1>5 DEF g, v

\* Writing to memory.
LEMMA SetMem ==
  ASSUME NEW h, Whole(h), NEW mem \in [Addrs -> Values]
  PROVE  LET g == [h EXCEPT !.mem = mem]
         IN  HeapType(g) /\ SameList(h, g) /\ g.mem = mem /\ g.seg = h.seg
<1> DEFINE g == [h EXCEPT !.mem = mem]
<1>1. /\ g.seg = h.seg /\ g.last = h.last /\ g.mem = mem
      /\ g = [seg |-> g.seg, last |-> g.last, mem |-> g.mem]
  BY DEF Whole, HeapType
<1> HIDE DEF g
<1>2. HeapType(g)
  BY <1>1 DEF Whole, HeapType, Segs
<1>3. QED
  BY <1>1, <1>2 DEF g, SameList, Segs

-----------------------------------------------------------------------------
(* fillSegment *)

\* The memory after fillSegment, before a new header.
Zeroed(h, a, n, zero_check) ==
    IF zero_check THEN SetCells(h.mem, Cells(a + Header, n), ZERO) ELSE h.mem

\* What fillSegment writes when there is no room for another segment, ...
FilledWhole(h, g, a, n, z) ==
    /\ HeapType(g)
    /\ Segs(g) = Segs(h)
    /\ \A x \in Segs(h) : /\ g.seg[x].size = h.seg[x].size
                          /\ g.seg[x].next = h.seg[x].next
                          /\ g.seg[x].prev = h.seg[x].prev
                          /\ g.seg[x].freed_at = h.seg[x].freed_at
                          /\ g.seg[x].used <=> h.seg[x].used \/ x = a
    /\ g.last = h.last
    /\ g.mem = Zeroed(h, a, n, z)

\* ... and when there is: the free segment rest after a.
FilledSplit(h, g, a, n, z, rest) ==
    /\ HeapType(g)
    /\ rest \in Addrs /\ rest \notin Segs(h)
    /\ Segs(g) = Segs(h) \cup {rest}
    /\ g.seg[a] = [h.seg[a] EXCEPT !.used = TRUE, !.size = n, !.next = rest]
    /\ g.seg[rest] = NewSegment(a, h.seg[a].next, h.seg[a].size - n - Header)
    /\ \A x \in Segs(h) : x # a =>
          g.seg[x] = IF x = h.seg[a].next THEN [h.seg[x] EXCEPT !.prev = rest] ELSE h.seg[x]
    /\ g.last = IF h.seg[a].next = NULL THEN rest ELSE h.last
    /\ g.mem = SetCells(Zeroed(h, a, n, z), Cells(rest, Header), HEADER)

\* fillSegment writes these.
LEMMA FillWhole ==
  ASSUME NEW h, Whole(h), NEW a \in Segs(h), NEW n \in Nat, n <= h.seg[a].size,
         NEW z \in BOOLEAN, ~RoomForSegment(h.seg[a].size - n)
  PROVE  FilledWhole(h, FillSegment(h, a, n, z), a, n, z)
<1> DEFINE g == FillSegment(h, a, n, z)
           this == [h.seg[a] EXCEPT !.used = TRUE]
<1>1. this.size = h.seg[a].size
  BY DEF Whole, HeapType, Segments
<1>2. g = [h EXCEPT !.seg[a] = this, !.mem = Zeroed(h, a, n, z)]
  BY <1>1 DEF FillSegment, Zeroed
<1>3. Zeroed(h, a, n, z) \in [Addrs -> Values]
  BY DEF Whole, HeapType, Zeroed, SetCells, Values
<1>4. this \in Segments
  BY DEF Whole, HeapType, Segments
<1>5. /\ g.seg = [h.seg EXCEPT ![a] = this]
      /\ g.last = h.last /\ g.mem = Zeroed(h, a, n, z)
      /\ g = [seg |-> g.seg, last |-> g.last, mem |-> g.mem]
  BY <1>2 DEF Whole, HeapType
<1> HIDE DEF g
<1>6. Segs(g) = Segs(h) /\ g.seg = [x \in Segs(g) |-> g.seg[x]]
  BY <1>5 DEF Segs
<1>7. \A x \in Segs(h) : g.seg[x] = IF x = a THEN this ELSE h.seg[x]
  BY <1>5, <1>6 DEF Segs
<1>8. HeapType(g)
  BY <1>3, <1>4, <1>5, <1>6, <1>7 DEF HeapType, Whole
<1>9. /\ this.size = h.seg[a].size /\ this.next = h.seg[a].next /\ this.prev = h.seg[a].prev
      /\ this.freed_at = h.seg[a].freed_at /\ this.used = TRUE
  BY DEF Whole, HeapType, Segments
<1> HIDE DEF this
<1>10. QED
  BY <1>5, <1>6, <1>7, <1>8, <1>9 DEF g, FilledWhole

\* With room for another segment it splits the old one.
LEMMA FillSplit ==
  ASSUME NEW h, Whole(h), NEW a \in Segs(h), NEW n \in Nat, n <= h.seg[a].size,
         NEW z \in BOOLEAN, RoomForSegment(h.seg[a].size - n)
  PROVE  FilledSplit(h, FillSegment(h, a, n, z), a, n, z, a + Header + n)
<1> DEFINE g == FillSegment(h, a, n, z)
           rest == a + Header + n
           next == h.seg[a].next
           left == h.seg[a].size - n
           this == [h.seg[a] EXCEPT !.used = TRUE]
           first == [h.seg[a] EXCEPT !.used = TRUE, !.size = n, !.next = rest]
           new == NewSegment(a, next, left - Header)
           mem == SetCells(Zeroed(h, a, n, z), Cells(rest, Header), HEADER)
<1>1. this.size = h.seg[a].size /\ this.next = next /\ [this EXCEPT !.size = n, !.next = rest] = first
  BY DEF Whole, HeapType, Segments
<1>2. g = [seg |-> [x \in Segs(h) \cup {rest} |->
                      IF x = a THEN first
                      ELSE IF x = rest THEN new
                      ELSE IF x = next THEN [h.seg[x] EXCEPT !.prev = rest]
                      ELSE h.seg[x]],
           last |-> IF next = NULL THEN rest ELSE h.last,
           mem |-> mem]
  BY <1>1 DEF FillSegment, Segs, Zeroed
<1>3. /\ rest \in Addrs /\ rest # a /\ rest \notin Segs(h)
      /\ left - Header \in Nat /\ left - Header > 0 /\ left \in Nat
  <2>1. /\ a \in Nat /\ h.seg[a].size \in Nat /\ Header \in Nat /\ Header > 0 /\ HeapSize \in Nat
        /\ End(h, a) = a + Header + h.seg[a].size /\ End(h, a) <= HeapSize
    BY SegFacts
  <2>2. left > Header
    BY DEF RoomForSegment
  <2>3. rest > a /\ rest < End(h, a)
    BY <2>1, <2>2
  <2>4. rest \notin Segs(h)
    BY <2>1, <2>3 DEF Whole, Apart
  <2>5. QED
    BY <2>1, <2>2, <2>3, <2>4 DEF Addrs
<1>4. mem \in [Addrs -> Values]
  <2>1. Zeroed(h, a, n, z) \in [Addrs -> Values]
    BY DEF Whole, HeapType, Zeroed, SetCells, Values
  <2>2. QED
    BY <2>1 DEF SetCells, Values
<1>5. first \in Segments /\ new \in Segments
  BY <1>3 DEF Whole, HeapType, Segments, Pointers, NewSegment
<1>6. \A x \in Segs(h) : [h.seg[x] EXCEPT !.prev = rest] \in Segments /\ h.seg[x] \in Segments
  BY <1>3 DEF Whole, HeapType, Segments, Pointers
<1> HIDE DEF first, new, rest, mem
<1>7. /\ g.seg = [x \in Segs(h) \cup {rest} |->
                    IF x = a THEN first
                    ELSE IF x = rest THEN new
                    ELSE IF x = next THEN [h.seg[x] EXCEPT !.prev = rest]
                    ELSE h.seg[x]]
      /\ g.last = IF next = NULL THEN rest ELSE h.last
      /\ g.mem = mem
      /\ g = [seg |-> g.seg, last |-> g.last, mem |-> g.mem]
  BY <1>2
<1> HIDE DEF g
<1>8. /\ Segs(g) = Segs(h) \cup {rest} /\ g.seg = [x \in Segs(g) |-> g.seg[x]]
      /\ g.seg[a] = first /\ g.seg[rest] = new
      /\ \A x \in Segs(h) : x # a =>
            g.seg[x] = IF x = next THEN [h.seg[x] EXCEPT !.prev = rest] ELSE h.seg[x]
  BY <1>3, <1>7 DEF Segs
<1>9. HeapType(g)
  BY <1>3, <1>4, <1>5, <1>6, <1>7, <1>8 DEF HeapType, Whole
<1>10. QED
  BY <1>3, <1>7, <1>8, <1>9 DEF g, rest, first, new, mem, FilledSplit

\* Splitting a segment keeps the list whole.
LEMMA SplitChain ==
  ASSUME NEW h, Whole(h), NEW a \in Segs(h), NEW n \in Nat, n <= h.seg[a].size,
         NEW z \in BOOLEAN, RoomForSegment(h.seg[a].size - n)
  PROVE  Whole(FillSegment(h, a, n, z))
<1> DEFINE g == FillSegment(h, a, n, z)
           rest == a + Header + n
           next == h.seg[a].next
<1>0. FilledSplit(h, g, a, n, z, rest)
  BY FillSplit
<1> HIDE DEF g
<1>1. /\ HeapType(g) /\ rest \in Addrs /\ rest \notin Segs(h)
      /\ Segs(g) = Segs(h) \cup {rest}
      /\ g.seg[a] = [h.seg[a] EXCEPT !.used = TRUE, !.size = n, !.next = rest]
      /\ g.seg[rest] = NewSegment(a, next, h.seg[a].size - n - Header)
      /\ \A x \in Segs(h) : x # a =>
            g.seg[x] = IF x = next THEN [h.seg[x] EXCEPT !.prev = rest] ELSE h.seg[x]
      /\ g.last = IF next = NULL THEN rest ELSE h.last
  BY <1>0 DEF FilledSplit
<1>2. \A x \in Segs(h) : h.seg[x] \in Segments
  BY DEF Whole, HeapType
<1>3. /\ g.seg[a].size = n /\ g.seg[a].next = rest /\ g.seg[a].prev = h.seg[a].prev
      /\ g.seg[rest].size = h.seg[a].size - n - Header
      /\ g.seg[rest].next = next /\ g.seg[rest].prev = a
      /\ \A x \in Segs(h) : x # a => /\ g.seg[x].size = h.seg[x].size
                                     /\ g.seg[x].next = h.seg[x].next
                                     /\ g.seg[x].prev = IF x = next THEN rest ELSE h.seg[x].prev
  <2>1. /\ g.seg[a].size = n /\ g.seg[a].next = rest /\ g.seg[a].prev = h.seg[a].prev
    BY <1>1, <1>2 DEF Segments
  <2>2. /\ g.seg[rest].size = h.seg[a].size - n - Header
        /\ g.seg[rest].next = next /\ g.seg[rest].prev = a
    BY <1>1 DEF NewSegment
  <2>3. ASSUME NEW x \in Segs(h), x # a
        PROVE  /\ g.seg[x].size = h.seg[x].size
               /\ g.seg[x].next = h.seg[x].next
               /\ g.seg[x].prev = IF x = next THEN rest ELSE h.seg[x].prev
    <3>1. h.seg[x] \in Segments
      BY <1>2
    <3>2. CASE x = next
      <4>1. g.seg[x] = [h.seg[x] EXCEPT !.prev = rest]
        BY <1>1, <2>3, <3>2
      <4>2. QED
        BY <3>1, <3>2, <4>1 DEF Segments
    <3>3. CASE x # next
      BY <1>1, <2>3, <3>3
    <3>4. QED
      BY <3>2, <3>3
  <2>4. QED
    BY <2>1, <2>2, <2>3
<1>4. /\ \A x \in Segs(h) : /\ x \in Nat /\ h.seg[x].size \in Nat /\ x < HeapSize
                            /\ End(h, x) = x + Header + h.seg[x].size /\ End(h, x) \in Nat
                            /\ h.seg[x].next \in Pointers /\ h.seg[x].prev \in Pointers
      /\ Header \in Nat /\ Header > 0 /\ HeapSize \in Nat
      /\ h.seg[a].size - n > Header
  BY SegFacts, HeapAssumption DEF RoomForSegment
<1>5. /\ End(g, a) = rest /\ End(g, rest) = End(h, a)
      /\ \A x \in Segs(h) : x # a => End(g, x) = End(h, x)
      /\ rest \in Nat /\ rest > a /\ rest < End(h, a)
  BY <1>3, <1>4 DEF End
<1>6. \A x \in Segs(h) : Forward(h, x) /\ Backward(h, x)
  BY DEF Whole, Chain
<1>7. next # NULL => /\ next \in Segs(h) /\ next = End(h, a) /\ next > a /\ next # a
                     /\ next # rest
                     /\ h.seg[next].prev = a
  BY <1>1, <1>4, <1>5, <1>6 DEF Forward
<1>8. rest # NULL /\ a # NULL /\ NULL \notin Segs(g)
  BY <1>1, <1>4, <1>5 DEF NULL
<1> HIDE DEF rest, next
<1>9. ASSUME NEW x \in Segs(g) PROVE Forward(g, x)
  <2>1. CASE x = a
    BY <1>1, <1>3, <1>5, <1>8, <2>1 DEF Forward
  <2>2. CASE x = rest
    <3>1. CASE next = NULL
      <4>1. End(h, a) = HeapSize
        BY <1>6, <3>1 DEF Forward, next
      <4>2. g.seg[rest].size > 0
        BY <1>3, <1>4
      <4>3. QED
        BY <1>1, <1>3, <1>5, <2>2, <3>1, <4>1, <4>2 DEF Forward
    <3>2. CASE next # NULL
      BY <1>1, <1>3, <1>5, <1>7, <2>2, <3>2 DEF Forward
    <3>3. QED
      BY <3>1, <3>2
  <2>3. CASE x # a /\ x # rest
    <3>1. x \in Segs(h) /\ Forward(h, x)
      BY <1>1, <1>6, <2>3
    <3>2. CASE h.seg[x].next = NULL
      <4>1. x = h.last /\ h.seg[x].size > 0 /\ End(h, x) = HeapSize
        BY <3>1, <3>2 DEF Forward
      <4>2. next # NULL
        BY <1>6, <2>3, <4>1 DEF Forward, next
      <4>3. QED
        BY <1>1, <1>3, <1>5, <2>3, <3>1, <3>2, <4>1, <4>2 DEF Forward
    <3>3. CASE h.seg[x].next # NULL
      <4>1. /\ h.seg[x].next = End(h, x) /\ End(h, x) \in Segs(h)
            /\ h.seg[End(h, x)].prev = x
        BY <3>1, <3>3 DEF Forward
      <4>2. End(h, x) # next
        BY <1>7, <1>8, <2>3, <4>1, <1>1
      <4>3. g.seg[End(h, x)].prev = x
        BY <1>3, <4>1, <4>2
      <4>4. QED
        BY <1>1, <1>3, <1>5, <2>3, <3>1, <3>3, <4>1, <4>3 DEF Forward
    <3>4. QED
      BY <3>2, <3>3
  <2>4. QED
    BY <2>1, <2>2, <2>3
<1>10. ASSUME NEW x \in Segs(g) PROVE Backward(g, x)
  <2>1. CASE x = a
    <3>1. h.seg[a].prev # NULL => h.seg[a].prev \in Segs(h) /\ h.seg[h.seg[a].prev].next = a
      BY <1>6 DEF Backward
    <3>2. h.seg[a].next # a
      BY <1>7, <1>4, <1>8 DEF next
    <3>3. h.seg[a].prev # NULL => g.seg[h.seg[a].prev].next = a
      BY <1>3, <3>1, <3>2
    <3>4. QED
      BY <1>1, <1>3, <1>6, <2>1, <3>1, <3>3 DEF Backward
  <2>2. CASE x = rest
    <3>1. rest # 0
      BY <1>4, <1>5
    <3>2. QED
      BY <1>1, <1>3, <1>8, <2>2, <3>1 DEF Backward
  <2>3. CASE x # a /\ x # rest /\ x = next
    <3>1. x \in Segs(h) /\ x > a /\ x # 0
      BY <1>1, <1>4, <1>7, <2>3, <1>8
    <3>2. QED
      BY <1>1, <1>3, <1>8, <2>3, <3>1 DEF Backward
  <2>4. CASE x # a /\ x # rest /\ x # next
    <3>1. x \in Segs(h) /\ Backward(h, x) /\ g.seg[x].prev = h.seg[x].prev
      BY <1>1, <1>3, <1>6, <2>4
    <3>2. h.seg[x].prev # a
      BY <2>4, <3>1, <1>8 DEF Backward, next
    <3>3. QED
      BY <1>1, <1>3, <3>1, <3>2 DEF Backward
  <2>5. QED
    BY <2>1, <2>2, <2>3, <2>4
<1>11. Chain(g)
  <2>1. 0 \in Segs(g)
    BY <1>1 DEF Whole, Chain
  <2>2. g.last \in Segs(g) /\ g.seg[g.last].next = NULL
    <3>1. h.last \in Segs(h) /\ h.seg[h.last].next = NULL
      BY DEF Whole, Chain
    <3>2. next # NULL => h.last # a
      BY <3>1 DEF next
    <3>3. QED
      BY <1>1, <1>3, <3>1, <3>2
  <2>3. QED
    BY <1>9, <1>10, <2>1, <2>2 DEF Chain
<1>12. Apart(g)
  <2> SUFFICES ASSUME NEW x \in Segs(g), NEW y \in Segs(g), x < y PROVE End(g, x) <= y
    BY DEF Apart
  <2>1. \A u, v \in Segs(h) : u < v => End(h, u) <= v
    BY DEF Whole, Apart
  <2>2. CASE x \in Segs(h) /\ y \in Segs(h)
    BY <1>4, <1>5, <2>1, <2>2
  <2>3. CASE x = rest
    <3>1. y \in Segs(h) /\ y > a
      BY <1>1, <1>4, <1>5, <2>3
    <3>2. QED
      BY <1>5, <2>1, <2>3, <3>1
  <2>4. CASE x \in Segs(h) /\ y = rest
    <3>1. CASE x = a
      BY <1>5, <2>4, <3>1
    <3>2. CASE x # a
      <4>0. /\ x \in Nat /\ a \in Nat /\ rest \in Nat /\ End(h, x) \in Nat /\ End(h, a) \in Nat
            /\ x < rest /\ a < rest /\ rest < End(h, a) /\ End(g, x) = End(h, x)
        BY <1>4, <1>5, <2>4, <3>2
      <4>1. a < x => End(h, a) <= x
        BY <2>1, <2>4
      <4>2. x < a => End(h, x) <= a
        BY <2>1, <2>4
      <4>3. QED
        BY <2>4, <3>2, <4>0, <4>1, <4>2
    <3>3. QED
      BY <3>1, <3>2
  <2>5. QED
    BY <1>1, <2>2, <2>3, <2>4
<1>13. QED
  BY <1>1, <1>11, <1>12 DEF Whole, g

\* A used segment keeps its place, its size and what is in it.
Held(h, g, x) ==
    /\ x \in Segs(g) /\ g.seg[x].used /\ g.seg[x].size = h.seg[x].size
    /\ \A c \in Body(h, x) : g.mem[c] = h.mem[c]

\* All but a do.
Kept(h, g, a) == \A x \in Segs(h) : x # a /\ h.seg[x].used => Held(h, g, x)

\* The memory outside the body of a is not written by what fillSegment zeroes.
LEMMA ZeroedCells ==
  ASSUME NEW h, Whole(h), NEW a \in Segs(h), NEW n \in Nat, n <= h.seg[a].size, NEW z \in BOOLEAN
  PROVE  /\ Zeroed(h, a, n, z) \in [Addrs -> Values]
         /\ \A c \in Addrs : c \notin Body(h, a) => Zeroed(h, a, n, z)[c] = h.mem[c]
         /\ \A c \in Addrs : Zeroed(h, a, n, z)[c] \in {h.mem[c], ZERO}
         /\ \A c \in Cells(a + Header, n) :
               c \in Body(h, a) /\ c \in Addrs
               /\ Zeroed(h, a, n, z)[c] = IF z THEN ZERO ELSE h.mem[c]
<1>1. /\ a \in Nat /\ h.seg[a].size \in Nat /\ Header \in Nat
      /\ h.mem \in [Addrs -> Values]
  BY SegFacts DEF Whole, HeapType
<1>2. \A c \in Cells(a + Header, n) : c \in Body(h, a) /\ c \in Addrs
  <2>1. \A c \in Cells(a + Header, n) : c \in Int /\ c \in Body(h, a)
    BY <1>1 DEF Cells, Body
  <2>2. QED
    BY <2>1, CellFacts
<1>3. CASE z = TRUE
  BY <1>1, <1>2, <1>3 DEF Zeroed, SetCells, Values
<1>4. CASE z = FALSE
  BY <1>1, <1>2, <1>4 DEF Zeroed
<1>5. QED
  BY <1>3, <1>4

\* fillSegment keeps the list, the markers and the memory of other segments.
LEMMA FillKeeps ==
  ASSUME NEW h, HeapOK(h), NEW a \in Segs(h), NEW n \in Nat, n <= h.seg[a].size, NEW z \in BOOLEAN
  PROVE  LET g == FillSegment(h, a, n, z)
         IN  /\ HeapOK(g)
             /\ a \in Segs(g) /\ g.seg[a].used /\ n <= g.seg[a].size
             /\ Kept(h, g, a)
             /\ \A c \in Cells(a + Header, n) : g.mem[c] = IF z THEN ZERO ELSE h.mem[c]
<1> DEFINE g == FillSegment(h, a, n, z)
           rest == a + Header + n
           old == Zeroed(h, a, n, z)
<1>0. Whole(h) /\ Marked(h) /\ Freed(h)
  BY DEF HeapOK
<1>1. /\ \A c \in Addrs : c \notin Body(h, a) => old[c] = h.mem[c]
      /\ \A c \in Addrs : old[c] \in {h.mem[c], ZERO}
      /\ \A c \in Cells(a + Header, n) : c \in Addrs /\ old[c] = IF z THEN ZERO ELSE h.mem[c]
  BY <1>0, ZeroedCells
<1> HIDE DEF old, g
<1>2. \A x \in Segs(h) : x # a => \A c \in Body(h, x) : c \in Addrs /\ c \notin Body(h, a)
  <2>1. \A x \in Segs(h) : \A c \in Body(h, x) : c \in Int
    BY <1>0, SegFacts DEF Body, Cells
  <2>2. QED
    BY <1>0, <2>1, CellFacts
<1>3. \A c \in Addrs : old[c] = HEADER <=> InHeader(h, c)
  <2>1. ASSUME NEW c \in Addrs, c \in Body(h, a) PROVE old[c] # HEADER /\ ~InHeader(h, c)
    <3>1. c \in Int
      BY HeapAssumption DEF Addrs
    <3>2. ~InHeader(h, c)
      BY <1>0, <2>1, <3>1, CellFacts
    <3>3. QED
      BY <1>0, <1>1, <3>2, HeapAssumption DEF Marked
  <2>2. QED
    BY <1>0, <1>1, <2>1 DEF Marked
<1>4. CASE ~RoomForSegment(h.seg[a].size - n)
  <2>1. FilledWhole(h, g, a, n, z)
    BY <1>0, <1>4, FillWhole DEF g
  <2>2. /\ Segs(g) = Segs(h) /\ HeapType(g) /\ g.mem = old /\ g.last = h.last
        /\ \A x \in Segs(h) : /\ g.seg[x].size = h.seg[x].size
                              /\ g.seg[x].next = h.seg[x].next
                              /\ g.seg[x].prev = h.seg[x].prev
                              /\ g.seg[x].freed_at = h.seg[x].freed_at
                              /\ g.seg[x].used <=> h.seg[x].used \/ x = a
    BY <2>1 DEF FilledWhole, old
  <2>3. Whole(g) /\ \A x \in Segs(h) : Body(g, x) = Body(h, x)
    BY <1>0, <2>2, SameListWhole DEF SameList
  <2>4. Whole(g)
    BY <2>3
  <2>5. Marked(g)
    BY <1>3, <2>2 DEF Marked, InHeader
  <2>6. Freed(g)
    <3>1. ASSUME NEW x \in Segs(g), ~g.seg[x].used, g.seg[x].freed_at PROVE IsZero(g, x)
      <4>1. x \in Segs(h) /\ x # a /\ IsZero(h, x)
        BY <1>0, <2>2, <3>1 DEF Freed
      <4>2. QED
        BY <1>1, <1>2, <2>2, <2>3, <4>1 DEF IsZero
    <3>2. QED
      BY <3>1 DEF Freed
  <2>7. Kept(h, g, a)
    BY <1>1, <1>2, <2>2 DEF Kept, Held
  <2>8. \A c \in Cells(a + Header, n) : g.mem[c] = IF z THEN ZERO ELSE h.mem[c]
    BY <1>1, <2>2
  <2>9. QED
    BY <2>2, <2>4, <2>5, <2>6, <2>7, <2>8 DEF HeapOK, g
<1>5. CASE RoomForSegment(h.seg[a].size - n)
  <2>1. FilledSplit(h, g, a, n, z, rest) /\ Whole(g)
    BY <1>0, <1>5, FillSplit, SplitChain DEF g
  <2>2. /\ Segs(g) = Segs(h) \cup {rest} /\ rest \notin Segs(h)
        /\ g.mem = SetCells(old, Cells(rest, Header), HEADER)
    BY <2>1 DEF FilledSplit, old
  <2>3. /\ g.seg[a].used = TRUE /\ g.seg[a].size = n
        /\ g.seg[rest].freed_at = FALSE
    <3>1. /\ g.seg[a] = [h.seg[a] EXCEPT !.used = TRUE, !.size = n, !.next = rest]
          /\ g.seg[rest] = NewSegment(a, h.seg[a].next, h.seg[a].size - n - Header)
          /\ h.seg[a] \in Segments
      BY <1>0, <2>1 DEF FilledSplit, Whole, HeapType
    <3>2. QED
      BY <3>1 DEF NewSegment, Segments
  <2>4. ASSUME NEW x \in Segs(h), x # a
        PROVE  /\ g.seg[x].used = h.seg[x].used /\ g.seg[x].freed_at = h.seg[x].freed_at
               /\ g.seg[x].size = h.seg[x].size
    <3>1. /\ g.seg[x] = IF x = h.seg[a].next THEN [h.seg[x] EXCEPT !.prev = rest] ELSE h.seg[x]
          /\ h.seg[x] \in Segments
      BY <1>0, <2>1, <2>4 DEF FilledSplit, Whole, HeapType
    <3>2. QED
      BY <3>1 DEF Segments
  <2>5. \A c \in Addrs : g.mem[c] = IF c \in Cells(rest, Header) THEN HEADER ELSE old[c]
    BY <2>2 DEF SetCells
  <2>6. /\ \A c \in Cells(rest, Header) : c \in Body(h, a)
        /\ \A c \in Cells(a + Header, n) : c \notin Cells(rest, Header)
    BY <1>0, <1>5, SegFacts DEF Cells, Body, RoomForSegment
  <2>7. Marked(g)
    <3>1. \A c \in Addrs : InHeader(g, c) <=> InHeader(h, c) \/ c \in Cells(rest, Header)
      BY <2>2 DEF InHeader
    <3>2. QED
      BY <1>3, <2>5, <3>1 DEF Marked
  <2>8. \A x \in Segs(h) : x # a => \A c \in Body(h, x) : g.mem[c] = h.mem[c]
    BY <1>1, <1>2, <2>5, <2>6
  <2>9. Freed(g)
    <3>1. ASSUME NEW x \in Segs(g), ~g.seg[x].used, g.seg[x].freed_at PROVE IsZero(g, x)
      <4>1. x \in Segs(h) /\ x # a
        BY <2>2, <2>3, <3>1
      <4>2. IsZero(h, x) /\ Body(g, x) = Body(h, x)
        BY <1>0, <2>4, <3>1, <4>1 DEF Freed, Body
      <4>3. QED
        BY <2>8, <4>1, <4>2 DEF IsZero
    <3>2. QED
      BY <3>1 DEF Freed
  <2>10. Kept(h, g, a)
    BY <2>2, <2>4, <2>8 DEF Kept, Held
  <2>11. \A c \in Cells(a + Header, n) : g.mem[c] = IF z THEN ZERO ELSE h.mem[c]
    BY <1>1, <2>5, <2>6
  <2>12. QED
    BY <2>1, <2>2, <2>3, <2>7, <2>9, <2>10, <2>11 DEF HeapOK, g
<1>6. QED
  BY <1>4, <1>5 DEF g

-----------------------------------------------------------------------------
(* Allocation and writing *)

\* Memory written inside a used segment.
LEMMA WriteBody ==
  ASSUME NEW h, HeapOK(h), NEW a \in Segs(h), h.seg[a].used, NEW mem \in [Addrs -> Values],
         \A c \in Addrs : c \notin Body(h, a) => mem[c] = h.mem[c],
         \A c \in Addrs : c \in Body(h, a) => mem[c] # HEADER
  PROVE  LET g == [h EXCEPT !.mem = mem]
         IN  HeapOK(g) /\ g.seg = h.seg /\ g.mem = mem /\ Kept(h, g, a)
<1> DEFINE g == [h EXCEPT !.mem = mem]
<1>0. Whole(h) /\ Marked(h) /\ Freed(h)
  BY DEF HeapOK
<1>1. HeapType(g) /\ SameList(h, g) /\ g.mem = mem /\ g.seg = h.seg
  BY <1>0, SetMem
<1> HIDE DEF g
<1>2. Whole(g) /\ Segs(g) = Segs(h) /\ \A x \in Segs(h) : Body(g, x) = Body(h, x)
  BY <1>0, <1>1, SameListWhole DEF SameList
<1>3. \A x \in Segs(h) : \A c \in Body(h, x) : c \in Addrs /\ ~InHeader(h, c)
                                               /\ (x # a => c \notin Body(h, a))
  <2>1. \A x \in Segs(h) : \A c \in Body(h, x) : c \in Int
    BY <1>0, SegFacts DEF Body, Cells
  <2>2. QED
    BY <1>0, <2>1, CellFacts
<1>4. Marked(g)
  <2>1. \A c \in Addrs : InHeader(g, c) <=> InHeader(h, c)
    BY <1>2 DEF InHeader
  <2>2. QED
    BY <1>0, <1>1, <1>3, <2>1 DEF Marked
<1>5. Freed(g)
  BY <1>0, <1>1, <1>2, <1>3 DEF Freed, IsZero
<1>6. Kept(h, g, a)
  BY <1>1, <1>2, <1>3 DEF Kept, Held
<1>7. QED
  BY <1>1, <1>2, <1>4, <1>5, <1>6 DEF HeapOK, g

\* What a user writes to its block.
LEMMA WrittenKeeps ==
  ASSUME NEW h, HeapOK(h), NEW a \in Segs(h), h.seg[a].used, NEW i \in Ids,
         NEW size \in Nat, NEW kept \in Nat, size <= h.seg[a].size
  PROVE  LET g == Written(h, i, a + Header, size, kept)
         IN  /\ HeapOK(g) /\ g.seg = h.seg /\ Kept(h, g, a)
             /\ \A c \in Cells(a + Header, size) :
                   g.mem[c] = IF c < a + Header + kept THEN h.mem[c] ELSE i
<1> DEFINE cells == Cells(a + Header + kept, size - kept)
           mem == SetCells(h.mem, cells, i)
           g == Written(h, i, a + Header, size, kept)
<1>0. Whole(h) /\ h.mem \in [Addrs -> Values]
  BY DEF HeapOK, Whole, HeapType
<1>1. a \in Nat /\ Header \in Nat /\ h.seg[a].size \in Nat
  BY <1>0, SegFacts
<1>2. h = [seg |-> h.seg, last |-> h.last, mem |-> h.mem]
  BY <1>0 DEF Whole, HeapType
<1>3. g = [h EXCEPT !.mem = mem]
  BY <1>2 DEF Written
<1>4. mem \in [Addrs -> Values] /\ \A c \in Addrs : mem[c] = IF c \in cells THEN i ELSE h.mem[c]
  BY <1>0 DEF SetCells, Values
<1>5. /\ \A c \in cells : c \in Body(h, a)
      /\ \A c \in Cells(a + Header, size) : /\ c \in Body(h, a) /\ c \in Int
                                            /\ c < a + Header + kept <=> c \notin cells
  BY <1>1 DEF Cells, Body
<1>6. \A c \in Body(h, a) : c \in Addrs /\ h.mem[c] # HEADER
  <2>1. \A c \in Body(h, a) : c \in Int
    BY <1>1 DEF Body, Cells
  <2>2. QED
    BY <1>0, <2>1, CellFacts DEF HeapOK, Marked
<1> HIDE DEF cells, mem, g
<1>7. i # HEADER
  BY HeapAssumption
<1>8. /\ \A c \in Addrs : c \notin Body(h, a) => mem[c] = h.mem[c]
      /\ \A c \in Addrs : c \in Body(h, a) => mem[c] # HEADER
  BY <1>4, <1>5, <1>6, <1>7
<1>9. HeapOK(g) /\ g.seg = h.seg /\ g.mem = mem /\ Kept(h, g, a)
  BY <1>3, <1>4, <1>8, WriteBody
<1>10. \A c \in Cells(a + Header, size) : g.mem[c] = IF c < a + Header + kept THEN h.mem[c] ELSE i
  BY <1>4, <1>5, <1>6, <1>9
<1>11. QED
  BY <1>9, <1>10 DEF g

\* private_AllocateMemory.
LEMMA AllocateKeeps ==
  ASSUME NEW h, HeapOK(h), NEW a \in Segs(h), NEW n \in Nat, n <= h.seg[a].size
  PROVE  LET g == AllocateIn(h, a, n)
         IN  /\ HeapOK(g)
             /\ a \in Segs(g) /\ g.seg[a].used /\ n <= g.seg[a].size
             /\ Kept(h, g, a)
<1> DEFINE v == FALSE
           f == FillSegment(h, a, n, TRUE)
           g == [f EXCEPT !.seg[a].freed_at = v]
<1>1. v \in BOOLEAN /\ g = AllocateIn(h, a, n)
  BY DEF AllocateIn
<1>2. HeapOK(f) /\ a \in Segs(f) /\ f.seg[a].used /\ n <= f.seg[a].size /\ Kept(h, f, a)
  BY FillKeeps
<1> HIDE DEF v, f
<1>3. Whole(f) /\ Marked(f) /\ Freed(f)
  BY <1>2 DEF HeapOK
<1>4. /\ HeapType(g) /\ SameList(f, g) /\ g.mem = f.mem
      /\ \A x \in Segs(f) : /\ g.seg[x].used = f.seg[x].used
                            /\ g.seg[x].freed_at = IF x = a THEN v ELSE f.seg[x].freed_at
  BY <1>1, <1>2, <1>3, SetFreedAt
<1> HIDE DEF g
<1>5. Whole(g) /\ Segs(g) = Segs(f) /\ \A x \in Segs(f) : Body(g, x) = Body(f, x)
  BY <1>3, <1>4, SameListWhole DEF SameList
<1>6. Marked(g)
  BY <1>3, <1>4, <1>5 DEF Marked, InHeader
<1>7. Freed(g)
  BY <1>2, <1>3, <1>4, <1>5 DEF Freed, IsZero
<1>8. Kept(h, g, a)
  BY <1>2, <1>4 DEF Kept, Held, SameList
<1>9. n <= g.seg[a].size /\ g.seg[a].used
  BY <1>2, <1>4 DEF SameList
<1>10. QED
  BY <1>1, <1>2, <1>5, <1>6, <1>7, <1>8, <1>9 DEF HeapOK

-----------------------------------------------------------------------------
(* Merging *)

\* What joining b to the segment a before it writes.
Joined(h, g, a, b) ==
    /\ HeapType(g)
    /\ Segs(g) = Segs(h) \ {b} /\ a # b /\ b \in Segs(h)
    /\ g.mem = h.mem
    /\ g.last = IF h.seg[b].next = NULL THEN a ELSE h.last
    /\ g.seg[a].size = h.seg[a].size + Header + h.seg[b].size
    /\ g.seg[a].next = h.seg[b].next
    /\ g.seg[a].prev = h.seg[a].prev
    /\ g.seg[a].used = h.seg[a].used
    /\ g.seg[a].freed_at = h.seg[a].freed_at
    /\ \A x \in Segs(g) : x # a =>
          /\ g.seg[x].size = h.seg[x].size
          /\ g.seg[x].next = h.seg[x].next
          /\ g.seg[x].prev = IF x = h.seg[b].next THEN a ELSE h.seg[x].prev
          /\ g.seg[x].used = h.seg[x].used
          /\ g.seg[x].freed_at = h.seg[x].freed_at

\* A segment that follows another.
LEMMA NextFacts ==
  ASSUME NEW h, Whole(h), NEW a \in Segs(h), h.seg[a].next # NULL
  PROVE  LET b == h.seg[a].next
         IN  /\ b \in Segs(h) /\ b = End(h, a) /\ a < b /\ a # b /\ h.seg[b].prev = a
             /\ TrueSize(h, b) = Header + h.seg[b].size
<1> DEFINE b == h.seg[a].next
<1>1. b \in Segs(h) /\ b = End(h, a) /\ h.seg[b].prev = a
  BY DEF Whole, Chain, Forward
<1>2. /\ a \in Nat /\ b \in Nat /\ h.seg[a].size \in Nat /\ h.seg[b].size \in Nat
      /\ Header \in Nat /\ Header > 0
      /\ End(h, a) = a + Header + h.seg[a].size
      /\ End(h, b) = b + Header + h.seg[b].size
  BY <1>1, SegFacts
<1>3. a < b /\ a # b
  BY <1>1, <1>2
<1>4. TrueSize(h, b) = End(h, b) - b
  <2>1. Forward(h, b)
    BY <1>1 DEF Whole, Chain
  <2>2. QED
    BY <2>1 DEF Forward, TrueSize
<1>5. TrueSize(h, b) = Header + h.seg[b].size
  BY <1>2, <1>4
<1>6. QED
  BY <1>1, <1>3, <1>5

\* Join writes that.
LEMMA JoinWrites ==
  ASSUME NEW h, Whole(h), NEW a \in Segs(h), h.seg[a].next # NULL
  PROVE  Joined(h, Join(h, a, h.seg[a].next), a, h.seg[a].next)
<1> DEFINE b == h.seg[a].next
           g == Join(h, a, b)
           size == h.seg[a].size + TrueSize(h, b)
           this == [h.seg[a] EXCEPT !.size = size, !.next = h.seg[b].next]
           seg == [x \in Segs(h) \ {b} |->
                     IF x = a THEN this
                     ELSE IF x = h.seg[b].next THEN [h.seg[x] EXCEPT !.prev = a]
                     ELSE h.seg[x]]
           last == IF h.seg[b].next = NULL THEN a ELSE h.last
<1>1. /\ b \in Segs(h) /\ a # b /\ h.seg[a].size \in Nat /\ h.seg[b].size \in Nat
      /\ Header \in Nat /\ TrueSize(h, b) = Header + h.seg[b].size
      /\ h.seg[b].next \in Pointers /\ h.seg[a].prev \in Pointers /\ a \in Addrs
  BY NextFacts, SegFacts
<1>2. h = [seg |-> h.seg, last |-> h.last, mem |-> h.mem]
  BY DEF Whole, HeapType
<1>3. h.seg[a] \in Segments
  BY DEF Whole, HeapType
<1>4. [h.seg[a] EXCEPT !.size = @ + TrueSize(h, b), !.next = h.seg[b].next] = this
  BY <1>3 DEF Segments
<1>5. g = [h EXCEPT !.seg = seg, !.last = last]
  BY <1>4 DEF Join, LastAfterJoin, Segs
<1>6. size \in Nat /\ size = h.seg[a].size + Header + h.seg[b].size
  BY <1>1
<1> HIDE DEF size, b
<1>7. /\ this \in Segments /\ this.size = size /\ this.next = h.seg[b].next
      /\ this.prev = h.seg[a].prev /\ this.used = h.seg[a].used
      /\ this.freed_at = h.seg[a].freed_at
  BY <1>1, <1>3, <1>6 DEF Segments
<1>8. ASSUME NEW x \in Segs(h)
      PROVE  LET s == [h.seg[x] EXCEPT !.prev = a]
             IN  /\ s \in Segments /\ h.seg[x] \in Segments
                 /\ s.size = h.seg[x].size /\ s.next = h.seg[x].next /\ s.prev = a
                 /\ s.used = h.seg[x].used /\ s.freed_at = h.seg[x].freed_at
  <2>1. h.seg[x] \in Segments
    BY DEF Whole, HeapType
  <2>2. QED
    BY <1>1, <2>1 DEF Segments, Pointers
<1> HIDE DEF g, this, seg, last
<1>9. /\ g.seg = seg /\ g.last = last /\ g.mem = h.mem
      /\ g = [seg |-> g.seg, last |-> g.last, mem |-> g.mem]
  BY <1>2, <1>5
<1>10. /\ Segs(g) = Segs(h) \ {b} /\ g.seg = [x \in Segs(g) |-> g.seg[x]]
       /\ g.seg[a] = this
       /\ \A x \in Segs(g) : x # a =>
             g.seg[x] = IF x = h.seg[b].next THEN [h.seg[x] EXCEPT !.prev = a] ELSE h.seg[x]
  BY <1>1, <1>9 DEF Segs, seg
<1>11. HeapType(g)
  <2>1. Segs(g) \subseteq Addrs /\ g.mem \in [Addrs -> Values] /\ g.last \in Addrs
    BY <1>1, <1>9, <1>10 DEF Whole, HeapType, last
  <2>2. \A x \in Segs(g) : g.seg[x] \in Segments
    BY <1>7, <1>8, <1>10
  <2>3. QED
    BY <1>9, <1>10, <2>1, <2>2 DEF HeapType
<1>12. ASSUME NEW x \in Segs(g), x # a
       PROVE  /\ g.seg[x].size = h.seg[x].size
              /\ g.seg[x].next = h.seg[x].next
              /\ g.seg[x].prev = IF x = h.seg[b].next THEN a ELSE h.seg[x].prev
              /\ g.seg[x].used = h.seg[x].used
              /\ g.seg[x].freed_at = h.seg[x].freed_at
  <2>1. CASE x = h.seg[b].next
    <3>1. x \in Segs(h) /\ g.seg[x] = [h.seg[x] EXCEPT !.prev = a]
      BY <1>10, <1>12, <2>1
    <3>2. QED
      BY <1>8, <2>1, <3>1
  <2>2. CASE x # h.seg[b].next
    BY <1>10, <1>12, <2>2
  <2>3. QED
    BY <2>1, <2>2
<1>13. Joined(h, g, a, b)
  BY <1>1, <1>6, <1>7, <1>9, <1>10, <1>11, <1>12 DEF Joined, last
<1>14. QED
  BY <1>13 DEF g, b

\* Joining keeps the list whole.
LEMMA JoinChain ==
  ASSUME NEW h, NEW g, Whole(h), NEW a \in Segs(h), h.seg[a].next # NULL,
         Joined(h, g, a, h.seg[a].next)
  PROVE  Whole(g)
<1> DEFINE b == h.seg[a].next
           after == h.seg[b].next
<1>1. /\ b \in Segs(h) /\ b = End(h, a) /\ a < b /\ a # b /\ h.seg[b].prev = a
  BY NextFacts
<1>2. /\ HeapType(g) /\ Segs(g) = Segs(h) \ {b}
      /\ g.last = IF after = NULL THEN a ELSE h.last
      /\ g.seg[a].size = h.seg[a].size + Header + h.seg[b].size
      /\ g.seg[a].next = after /\ g.seg[a].prev = h.seg[a].prev
      /\ \A x \in Segs(g) : x # a =>
            /\ g.seg[x].size = h.seg[x].size
            /\ g.seg[x].next = h.seg[x].next
            /\ g.seg[x].prev = IF x = after THEN a ELSE h.seg[x].prev
  BY DEF Joined
<1>3. /\ \A x \in Segs(h) : /\ x \in Nat /\ h.seg[x].size \in Nat
                            /\ End(h, x) = x + Header + h.seg[x].size /\ End(h, x) \in Nat
      /\ Header \in Nat /\ Header > 0 /\ HeapSize \in Nat
  BY SegFacts, HeapAssumption
<1>4. \A x \in Segs(h) : Forward(h, x) /\ Backward(h, x)
  BY DEF Whole, Chain
<1>5. after # NULL => /\ after \in Segs(h) /\ after = End(h, b) /\ b < after /\ after # b
                      /\ h.seg[after].prev = b
  BY <1>1, NextFacts
<1>6. /\ End(g, a) = End(h, b) /\ a \in Segs(g)
      /\ \A x \in Segs(g) : x # a => End(g, x) = End(h, x)
  BY <1>1, <1>2, <1>3 DEF End
<1>7. after # NULL => after \in Segs(g) /\ after # a /\ after # 0
  BY <1>1, <1>2, <1>3, <1>5
<1> HIDE DEF b, after
<1>8. ASSUME NEW x \in Segs(g) PROVE Forward(g, x)
  <2>1. CASE x = a
    <3>1. CASE after = NULL
      <4>1. End(h, b) = HeapSize /\ h.seg[b].size > 0
        BY <1>1, <1>4, <3>1 DEF Forward, after
      <4>2. g.seg[a].size > 0
        BY <1>1, <1>2, <1>3, <4>1
      <4>3. QED
        BY <1>2, <1>6, <2>1, <3>1, <4>1, <4>2 DEF Forward
    <3>2. CASE after # NULL
      BY <1>2, <1>5, <1>6, <1>7, <2>1, <3>2 DEF Forward
    <3>3. QED
      BY <3>1, <3>2
  <2>2. CASE x # a
    <3>1. x \in Segs(h) /\ x # b /\ Forward(h, x) /\ g.seg[x].next = h.seg[x].next
      BY <1>2, <1>4, <2>2
    <3>2. CASE h.seg[x].next = NULL
      <4>1. x = h.last /\ h.seg[x].size > 0 /\ End(h, x) = HeapSize
        BY <3>1, <3>2 DEF Forward
      <4>2. after # NULL
        BY <1>1, <1>4, <3>1, <4>1 DEF Forward, after
      <4>3. QED
        BY <1>2, <1>6, <2>2, <3>1, <3>2, <4>1, <4>2 DEF Forward
    <3>3. CASE h.seg[x].next # NULL
      <4>1. /\ h.seg[x].next = End(h, x) /\ End(h, x) \in Segs(h)
            /\ h.seg[End(h, x)].prev = x
        BY <3>1, <3>3 DEF Forward
      <4>2. End(h, x) # b
        BY <1>1, <2>2, <4>1
      <4>3. End(h, x) # after
        BY <1>1, <1>4, <3>1, <3>3, <4>1 DEF Forward, after
      <4>4. End(h, x) \in Segs(g) /\ g.seg[End(h, x)].prev = x
        BY <1>2, <4>1, <4>2, <4>3
      <4>5. QED
        BY <1>2, <1>6, <2>2, <3>1, <3>3, <4>1, <4>4 DEF Forward
    <3>4. QED
      BY <3>2, <3>3
  <2>3. QED
    BY <2>1, <2>2
<1>9. ASSUME NEW x \in Segs(g) PROVE Backward(g, x)
  <2>1. CASE x # a /\ x = after
    <3>1. a # NULL /\ x # 0
      BY <1>3, <1>7, <2>1 DEF NULL
    <3>2. QED
      BY <1>2, <1>6, <2>1, <3>1 DEF Backward
  <2>2. CASE x = a \/ x # after
    <3>1. x \in Segs(h) /\ Backward(h, x) /\ g.seg[x].prev = h.seg[x].prev
      BY <1>2, <1>4, <2>2
    <3>2. CASE h.seg[x].prev # NULL
      <4>1. h.seg[x].prev \in Segs(h) /\ h.seg[h.seg[x].prev].next = x
        BY <3>1, <3>2 DEF Backward
      <4>2. h.seg[x].prev # b
        <5>1. x # a \/ after # a
          BY <1>7, <1>3, <1>2 DEF NULL
        <5>2. QED
          BY <2>2, <4>1, <5>1 DEF after
      <4>3. h.seg[x].prev # a
        BY <1>2, <4>1 DEF b
      <4>4. g.seg[h.seg[x].prev].next = x /\ h.seg[x].prev \in Segs(g)
        BY <1>2, <4>1, <4>2, <4>3
      <4>5. QED
        BY <3>1, <4>4 DEF Backward
    <3>3. CASE h.seg[x].prev = NULL
      BY <3>1, <3>3 DEF Backward
    <3>4. QED
      BY <3>2, <3>3
  <2>3. QED
    BY <2>1, <2>2
<1>10. Chain(g)
  <2>1. 0 \in Segs(g)
    BY <1>1, <1>2, <1>3 DEF Whole, Chain
  <2>2. g.last \in Segs(g) /\ g.seg[g.last].next = NULL
    <3>1. h.last \in Segs(h) /\ h.seg[h.last].next = NULL
      BY DEF Whole, Chain
    <3>2. h.last # a /\ (after # NULL => h.last # b)
      BY <3>1 DEF after, b
    <3>3. QED
      BY <1>2, <1>6, <3>1, <3>2
  <2>3. QED
    BY <1>8, <1>9, <2>1, <2>2 DEF Chain
<1>11. Apart(g)
  <2> SUFFICES ASSUME NEW x \in Segs(g), NEW y \in Segs(g), x < y PROVE End(g, x) <= y
    BY DEF Apart
  <2>1. \A u, v \in Segs(h) : u < v => End(h, u) <= v
    BY DEF Whole, Apart
  <2>2. x \in Segs(h) /\ y \in Segs(h) /\ y # b /\ x \in Nat /\ y \in Nat /\ b \in Nat
    BY <1>1, <1>2, <1>3
  <2>3. CASE x # a
    BY <1>6, <2>1, <2>2, <2>3
  <2>4. CASE x = a
    <3>1. End(h, a) <= y
      BY <2>1, <2>2, <2>4
    <3>2. b < y
      BY <1>1, <2>2, <3>1
    <3>3. QED
      BY <1>1, <1>6, <2>1, <2>2, <2>4, <3>2
  <2>5. QED
    BY <2>3, <2>4
<1>12. QED
  BY <1>2, <1>10, <1>11 DEF Whole

\* The heap g came from h by joining the segments around a to one, this; the
\* memory was written inside of it only.
MergedInto(h, g, a, this) ==
    /\ Whole(g) /\ this \in Segs(g) /\ Segs(g) \subseteq Segs(h)
    /\ \A x \in Segs(g) : x # this => /\ g.seg[x].size = h.seg[x].size
                                      /\ g.seg[x].used = h.seg[x].used
                                      /\ g.seg[x].freed_at = h.seg[x].freed_at
    /\ \A x \in Segs(h) : x \notin Segs(g) =>
          /\ x = a \/ ~h.seg[x].used
          /\ \A c \in Cells(x, Header) : c \in Body(g, this)
    /\ \A c \in Addrs : c \notin Body(g, this) => g.mem[c] = h.mem[c]
    /\ a \in Segs(g) => a = this
    /\ this = a \/ ~h.seg[this].used

\* Joining leaves the other segments as they were.
LEMMA JoinedFacts ==
  ASSUME NEW h, NEW g, NEW a, NEW b, Joined(h, g, a, b)
  PROVE  /\ Segs(g) = Segs(h) \ {b} /\ g.mem = h.mem
         /\ g.seg[a].size = h.seg[a].size + Header + h.seg[b].size
         /\ \A x \in Segs(g) : x # a => /\ g.seg[x].size = h.seg[x].size
                                        /\ g.seg[x].used = h.seg[x].used
                                        /\ g.seg[x].freed_at = h.seg[x].freed_at
  BY DEF Joined

\* Joining another segment to it.
LEMMA JoinMerges ==
  ASSUME NEW h, NEW f, NEW a, NEW this, NEW p \in Segs(f), MergedInto(h, f, a, this),
         f.seg[p].next # NULL, this \in {p, f.seg[p].next},
         p = a \/ ~h.seg[p].used,
         f.seg[p].next = a \/ ~h.seg[f.seg[p].next].used
  PROVE  LET g == Join(f, p, f.seg[p].next)
         IN  /\ MergedInto(h, g, a, p) /\ Joined(f, g, p, f.seg[p].next)
             /\ \A c \in Cells(f.seg[p].next, Header) : c \in Body(g, p)
<1> DEFINE b == f.seg[p].next
           g == Join(f, p, b)
<1>0. Whole(f)
  BY DEF MergedInto
<1>1. Joined(f, g, p, b) /\ b \in Segs(f) /\ b = End(f, p) /\ p # b
  BY <1>0, JoinWrites, NextFacts
<1> HIDE DEF g, b
<1>2. Whole(g)
  BY <1>0, <1>1, JoinChain DEF b
<1>3. /\ p \in Nat /\ b \in Nat /\ f.seg[p].size \in Nat /\ f.seg[b].size \in Nat /\ Header \in Nat
      /\ End(f, p) = p + Header + f.seg[p].size
  BY <1>0, <1>1, SegFacts
<1>4. /\ Segs(g) = Segs(f) \ {b} /\ g.mem = f.mem
      /\ g.seg[p].size = f.seg[p].size + Header + f.seg[b].size
      /\ \A x \in Segs(g) : x # p => /\ g.seg[x].size = f.seg[x].size
                                     /\ g.seg[x].used = f.seg[x].used
                                     /\ g.seg[x].freed_at = f.seg[x].freed_at
  <2>1. Joined(f, g, p, b)
    BY <1>1, Zenon
  <2>2. QED
    BY <2>1, JoinedFacts
<1>5. /\ \A c \in Cells(b, Header) : c \in Body(g, p)
      /\ \A c \in Body(f, p) : c \in Body(g, p)
      /\ \A c \in Body(f, b) : c \in Body(g, p)
  BY <1>1, <1>3, <1>4 DEF Cells, Body
<1>6. this = p \/ this = b
  BY DEF b
<1>7. \A c \in Body(f, this) : c \in Body(g, p)
  BY <1>5, <1>6
<1>8. p \in Segs(g) /\ Segs(g) \subseteq Segs(h) /\ (a \in Segs(g) => a = p)
  BY <1>1, <1>4, <1>6 DEF MergedInto
<1>9. \A x \in Segs(g) : x # p => /\ g.seg[x].size = h.seg[x].size
                                  /\ g.seg[x].used = h.seg[x].used
                                  /\ g.seg[x].freed_at = h.seg[x].freed_at
  BY <1>4, <1>6 DEF MergedInto
<1>10. ASSUME NEW x \in Segs(h), x \notin Segs(g)
       PROVE  (x = a \/ ~h.seg[x].used) /\ \A c \in Cells(x, Header) : c \in Body(g, p)
  <2>1. CASE x = b
    BY <1>5, <2>1 DEF b
  <2>2. CASE x # b
    BY <1>4, <1>7, <1>10, <2>2 DEF MergedInto
  <2>3. QED
    BY <2>1, <2>2
<1>11. \A c \in Addrs : c \notin Body(g, p) => g.mem[c] = h.mem[c]
  BY <1>4, <1>7 DEF MergedInto
<1>12. MergedInto(h, g, a, p)
  BY <1>2, <1>8, <1>9, <1>10, <1>11 DEF MergedInto
<1>13. QED
  BY <1>1, <1>5, <1>12 DEF g, b

\* Writing inside of it.
LEMMA MemMerges ==
  ASSUME NEW h, NEW f, NEW a, NEW this, MergedInto(h, f, a, this), NEW mem \in [Addrs -> Values],
         \A c \in Addrs : c \notin Body(f, this) => mem[c] = f.mem[c]
  PROVE  LET g == [f EXCEPT !.mem = mem]
         IN  MergedInto(h, g, a, this) /\ g.mem = mem /\ g.seg = f.seg
<1> DEFINE g == [f EXCEPT !.mem = mem]
<1>0. Whole(f) /\ this \in Segs(f)
  BY DEF MergedInto
<1>1. HeapType(g) /\ SameList(f, g) /\ g.mem = mem /\ g.seg = f.seg
  BY <1>0, SetMem
<1> HIDE DEF g
<1>2. Whole(g) /\ Segs(g) = Segs(f) /\ Body(g, this) = Body(f, this)
  BY <1>0, <1>1, SameListWhole DEF SameList
<1>3. MergedInto(h, g, a, this)
  BY <1>1, <1>2 DEF MergedInto
<1>4. QED
  BY <1>1, <1>3 DEF g

\* What mergeWithFollowingFreeSegment does to the segment this, with b after it.
FollowingMerged(f, g, this, b) ==
    /\ g.seg[this].used = f.seg[this].used
    /\ IsFree(f, b) =>
          /\ g.seg[this].size = f.seg[this].size + Header + f.seg[b].size
          /\ Segs(g) = Segs(f) \ {b} /\ b \in Segs(f)
          /\ g.mem = SetCells(f.mem, Cells(b, Header), ZERO)
    /\ ~IsFree(f, b) => g = f

\* It merges.
LEMMA FollowingMerges ==
  ASSUME NEW h, NEW f, NEW a, NEW this, MergedInto(h, f, a, this)
  PROVE  /\ MergedInto(h, MergeWithFollowing(f, this), a, this)
         /\ FollowingMerged(f, MergeWithFollowing(f, this), this, f.seg[this].next)
<1> DEFINE b == f.seg[this].next
           j == Join(f, this, b)
           mem == SetCells(f.mem, Cells(b, Header), ZERO)
           g == MergeWithFollowing(f, this)
<1>0. Whole(f) /\ this \in Segs(f)
  BY DEF MergedInto
<1>1. CASE ~IsFree(f, b)
  BY <1>1 DEF MergeWithFollowing, FollowingMerged
<1>2. CASE IsFree(f, b)
  <2>1. b # NULL /\ ~f.seg[b].used /\ b \in Segs(f) /\ b # this
    BY <1>0, <1>2, NextFacts DEF IsFree
  <2>2. ~h.seg[b].used
    BY <2>1 DEF MergedInto
  <2>3. this = a \/ ~h.seg[this].used
    BY DEF MergedInto
  <2>4. /\ MergedInto(h, j, a, this) /\ Joined(f, j, this, b)
        /\ \A c \in Cells(b, Header) : c \in Body(j, this)
    BY <1>0, <2>1, <2>2, <2>3, JoinMerges
  <2> HIDE DEF j, b
  <2>5. HeapType(j) /\ j.mem = f.mem /\ j.mem \in [Addrs -> Values]
    BY <2>4 DEF MergedInto, Whole, HeapType, Joined
  <2>6. /\ mem \in [Addrs -> Values]
        /\ \A c \in Addrs : mem[c] = IF c \in Cells(b, Header) THEN ZERO ELSE j.mem[c]
    BY <2>5 DEF SetCells, Values
  <2>7. \A c \in Addrs : c \notin Body(j, this) => mem[c] = j.mem[c]
    BY <2>4, <2>6
  <2>8. g = [j EXCEPT !.mem = mem]
    <3>1. g = [j EXCEPT !.mem = SetCells(@, Cells(b, Header), ZERO)]
      BY <1>2 DEF MergeWithFollowing, j, b
    <3>2. j = [seg |-> j.seg, last |-> j.last, mem |-> j.mem]
      BY <2>5 DEF HeapType
    <3>3. QED
      BY <2>5, <3>1, <3>2
  <2> HIDE DEF g, mem
  <2>9. MergedInto(h, g, a, this) /\ g.mem = mem /\ g.seg = j.seg
    BY <2>4, <2>6, <2>7, <2>8, MemMerges
  <2>10. /\ g.seg[this].used = f.seg[this].used
         /\ g.seg[this].size = f.seg[this].size + Header + f.seg[b].size
         /\ Segs(g) = Segs(f) \ {b}
    BY <2>4, <2>9 DEF Joined, Segs
  <2>11. QED
    BY <1>2, <2>1, <2>9, <2>10 DEF g, mem, b, FollowingMerged
<1>3. QED
  BY <1>1, <1>2

\* The merged heap is in order once its segment has no old header in it, and
\* is in use or zero.
LEMMA MergedOK ==
  ASSUME NEW h, NEW g, NEW a, NEW this, HeapOK(h), MergedInto(h, g, a, this),
         \A c \in Body(g, this) : g.mem[c] # HEADER,
         g.seg[this].used \/ IsZero(g, this)
  PROVE  HeapOK(g) /\ Kept(h, g, a)
<1>0. Whole(h) /\ Marked(h) /\ Freed(h) /\ Whole(g) /\ this \in Segs(g)
  BY DEF HeapOK, MergedInto
<1>1. \A x \in Segs(g) : \A c \in Body(g, x) :
         c \in Addrs /\ ~InHeader(g, c) /\ (x # this => c \notin Body(g, this))
  <2>1. \A x \in Segs(g) : \A c \in Body(g, x) : c \in Int
    BY <1>0, SegFacts DEF Body, Cells
  <2>2. QED
    BY <1>0, <2>1, CellFacts
<1>2. Marked(g)
  <2>1. ASSUME NEW c \in Addrs, c \notin Body(g, this)
        PROVE  InHeader(g, c) <=> InHeader(h, c)
    BY <2>1 DEF MergedInto, InHeader
  <2>2. QED
    BY <1>0, <1>1, <2>1 DEF Marked, MergedInto
<1>3. \A x \in Segs(g) : x # this => Body(g, x) = Body(h, x)
  BY DEF MergedInto, Body
<1>4. \A x \in Segs(g) : x # this => \A c \in Body(g, x) : g.mem[c] = h.mem[c]
  BY <1>1 DEF MergedInto
<1>5. Freed(g)
  <2>1. ASSUME NEW x \in Segs(g), x # this, ~g.seg[x].used, g.seg[x].freed_at
        PROVE  IsZero(g, x)
    <3>1. IsZero(h, x)
      BY <1>0, <2>1 DEF MergedInto, Freed
    <3>2. QED
      BY <1>3, <1>4, <2>1, <3>1 DEF IsZero
  <2>2. QED
    BY <2>1 DEF Freed
<1>6. Kept(h, g, a)
  <2>1. ASSUME NEW x \in Segs(h), x # a, h.seg[x].used PROVE x \in Segs(g) /\ x # this
    BY <2>1 DEF MergedInto
  <2>2. \A x \in Segs(g) : x # this => g.seg[x].used = h.seg[x].used /\ g.seg[x].size = h.seg[x].size
    BY DEF MergedInto
  <2>3. QED
    BY <1>3, <1>4, <2>1, <2>2 DEF Kept, Held
<1>7. QED
  BY <1>0, <1>2, <1>5, <1>6 DEF HeapOK

\* A block grows into the free segment that follows it.
LEMMA GrowKeeps ==
  ASSUME NEW h, HeapOK(h), NEW a \in Segs(h), h.seg[a].used
  PROVE  LET g == MergeWithFollowing(h, a)
             b == h.seg[a].next
         IN  /\ HeapOK(g) /\ a \in Segs(g) /\ g.seg[a].used /\ Kept(h, g, a)
             /\ IsFree(h, b) => g.seg[a].size = h.seg[a].size + Header + h.seg[b].size
             /\ \A c \in Body(h, a) : g.mem[c] = h.mem[c]
<1> DEFINE g == MergeWithFollowing(h, a)
           b == h.seg[a].next
<1>0. Whole(h) /\ Marked(h) /\ Freed(h)
  BY DEF HeapOK
<1>1. MergedInto(h, h, a, a)
  BY <1>0 DEF MergedInto
<1>2. MergedInto(h, g, a, a) /\ FollowingMerged(h, g, a, b)
  BY <1>1, FollowingMerges
<1> HIDE DEF g
<1> USE DEF FollowingMerged
<1>3. CASE ~IsFree(h, b)
  <2>1. Kept(h, h, a)
    BY DEF Kept, Held
  <2>2. QED
    BY <1>2, <1>3, <2>1 DEF g
<1>4. CASE IsFree(h, b)
  <2>1. Whole(g) /\ a \in Segs(g)
    BY <1>2 DEF MergedInto
  <2>2. \A c \in Addrs : g.mem[c] = IF c \in Cells(b, Header) THEN ZERO ELSE h.mem[c]
    BY <1>2, <1>4 DEF SetCells
  <2>3. \A c \in Body(g, a) : c \in Addrs /\ ~InHeader(g, c)
    <3>1. \A c \in Body(g, a) : c \in Int
      BY <2>1, SegFacts DEF Body, Cells
    <3>2. QED
      BY <2>1, <3>1, CellFacts
  <2>4. \A c \in Body(g, a) : g.mem[c] # HEADER
    <3>1. ASSUME NEW c \in Body(g, a), c \notin Cells(b, Header) PROVE ~InHeader(h, c)
      BY <1>2, <1>4, <2>3, <3>1 DEF InHeader
    <3>2. QED
      BY <1>0, <2>2, <2>3, <3>1, HeapAssumption DEF Marked
  <2>5. HeapOK(g) /\ Kept(h, g, a)
    BY <1>2, <2>4, MergedOK
  <2>6. \A c \in Body(h, a) : g.mem[c] = h.mem[c]
    <3>1. \A c \in Body(h, a) : c \in Int
      BY <1>0, SegFacts DEF Body, Cells
    <3>2. \A c \in Body(h, a) : c \in Addrs /\ ~InHeader(h, c)
      BY <1>0, <3>1, CellFacts
    <3>3. \A c \in Body(h, a) : c \notin Cells(b, Header)
      BY <1>2, <1>4, <3>2 DEF InHeader
    <3>4. QED
      BY <2>2, <3>2, <3>3
  <2>7. QED
    BY <1>2, <1>4, <2>1, <2>5, <2>6 DEF g
<1>5. QED
  BY <1>3, <1>4

\* freeSegment.
LEMMA FreeKeeps ==
  ASSUME NEW h, HeapOK(h), NEW a \in Segs(h)
  PROVE  HeapOK(FreeSegment(h, a)) /\ Kept(h, FreeSegment(h, a), a)
<1> DEFINE prev == h.seg[a].prev
           unused == [h EXCEPT !.seg[a].used = FALSE]
           this == IF IsFree(h, prev) THEN prev ELSE a
           joined == IF IsFree(h, prev) THEN Join(unused, prev, a) ELSE unused
           merged == MergeWithFollowing(joined, this)
           mem == ClearAll(merged, this, h.seg[a].size)
           cleared == [merged EXCEPT !.mem = mem]
           v == TRUE
           g == IF cleared.mem[a] = HEADER THEN [cleared EXCEPT !.seg[a].freed_at = v] ELSE cleared
<1>0. g = FreeSegment(h, a) /\ v \in BOOLEAN
  BY DEF FreeSegment
<1> HIDE DEF v
<1>1. Whole(h) /\ a \in Nat /\ Header \in Nat /\ Header > 0 /\ a \in Addrs
  BY SegFacts DEF HeapOK
<1>2. /\ HeapType(unused) /\ SameList(h, unused) /\ unused.mem = h.mem
      /\ \A x \in Segs(h) : /\ unused.seg[x].used <=> h.seg[x].used /\ x # a
                            /\ unused.seg[x].freed_at = h.seg[x].freed_at
  BY <1>1, SetUnused
<1> HIDE DEF unused
<1>3. Whole(unused) /\ Segs(unused) = Segs(h)
  BY <1>1, <1>2, SameListWhole DEF SameList
<1>4. MergedInto(h, unused, a, a) /\ ~unused.seg[a].used
  <2>1. \A x \in Segs(h) : h.seg[x].used \in BOOLEAN /\ unused.seg[x].used \in BOOLEAN
    BY <1>1, <1>3, SegFacts
  <2>2. \A x \in Segs(h) : x # a => unused.seg[x].used = h.seg[x].used
    BY <1>2, <2>1
  <2>3. QED
    BY <1>2, <1>3, <2>2 DEF MergedInto, SameList
<1>5. MergedInto(h, joined, a, this) /\ ~joined.seg[this].used
  <2>1. CASE IsFree(h, prev)
    <3>1. /\ prev # NULL /\ ~h.seg[prev].used /\ prev \in Segs(h) /\ h.seg[prev].next = a
      BY <1>1, <2>1 DEF IsFree, Whole, Chain, Backward
    <3>2. /\ prev \in Segs(unused) /\ unused.seg[prev].next = a /\ ~unused.seg[prev].used
      BY <1>2, <1>3, <3>1 DEF SameList
    <3>3. a # NULL
      BY <1>1 DEF NULL
    <3>4. MergedInto(h, joined, a, prev) /\ Joined(unused, joined, prev, a)
      BY <1>4, <2>1, <3>1, <3>2, <3>3, JoinMerges
    <3>5. ~joined.seg[prev].used
      <4> HIDE DEF joined
      <4>1. joined.seg[prev].used = unused.seg[prev].used
        BY <3>4 DEF Joined
      <4>2. QED
        BY <3>2, <4>1
    <3>6. this = prev
      BY <2>1
    <3> HIDE DEF joined, this
    <3>7. QED
      BY <3>4, <3>5, <3>6
  <2>2. CASE ~IsFree(h, prev)
    <3>1. joined = unused /\ this = a
      BY <2>2
    <3>2. QED
      BY <1>4, <3>1
  <2> HIDE DEF joined, this
  <2>3. QED
    BY <2>1, <2>2
<1> HIDE DEF joined, this
<1>6. MergedInto(h, merged, a, this) /\ ~merged.seg[this].used
  <2>1. MergedInto(h, merged, a, this) /\ FollowingMerged(joined, merged, this, joined.seg[this].next)
    BY <1>5, FollowingMerges
  <2>2. QED
    BY <1>5, <2>1 DEF FollowingMerged
<1> HIDE DEF merged
<1>7. Whole(merged) /\ this \in Segs(merged)
  BY <1>6 DEF MergedInto
<1>8. /\ mem \in [Addrs -> Values]
      /\ \A c \in Addrs : mem[c] = IF c \in Body(merged, this) THEN ZERO ELSE merged.mem[c]
  BY <1>7 DEF ClearAll, SetCells, Body, Values, Whole, HeapType
<1> HIDE DEF mem
<1>9. MergedInto(h, cleared, a, this) /\ cleared.mem = mem /\ cleared.seg = merged.seg
  BY <1>6, <1>8, MemMerges
<1> HIDE DEF cleared
<1>10. \A c \in Body(cleared, this) : c \in Addrs /\ cleared.mem[c] = ZERO
  <2>1. Body(cleared, this) = Body(merged, this)
    BY <1>9 DEF Body
  <2>2. \A c \in Body(merged, this) : c \in Int
    BY <1>7, SegFacts DEF Body, Cells
  <2>3. QED
    BY <1>7, <1>8, <1>9, <2>1, <2>2, CellFacts
<1>11. HeapOK(cleared) /\ Kept(h, cleared, a)
  <2>1. IsZero(cleared, this)
    BY <1>10 DEF IsZero
  <2>2. \A c \in Body(cleared, this) : cleared.mem[c] # HEADER
    BY <1>10, HeapAssumption
  <2>3. QED
    BY <1>9, <2>1, <2>2, MergedOK
<1>12. CASE cleared.mem[a] # HEADER
  BY <1>0, <1>11, <1>12
<1>13. CASE cleared.mem[a] = HEADER
  <2>0. g = [cleared EXCEPT !.seg[a].freed_at = v]
    BY <1>13
  <2> HIDE DEF g
  <2>1. a \in Cells(a, Header)
    BY <1>1 DEF Cells
  <2>2. a \notin Body(cleared, this)
    BY <1>10, <1>13, HeapAssumption
  <2>3. a \in Segs(cleared) /\ a = this
    BY <1>9, <2>1, <2>2 DEF MergedInto
  <2>4. Whole(cleared) /\ Marked(cleared) /\ Freed(cleared)
    BY <1>11 DEF HeapOK
  <2>5. /\ HeapType(g) /\ SameList(cleared, g) /\ g.mem = cleared.mem
        /\ \A x \in Segs(cleared) :
              /\ g.seg[x].used = cleared.seg[x].used
              /\ g.seg[x].freed_at = IF x = a THEN v ELSE cleared.seg[x].freed_at
    BY <1>0, <2>0, <2>3, <2>4, SetFreedAt
  <2>6. /\ Whole(g) /\ Segs(g) = Segs(cleared)
        /\ \A x \in Segs(cleared) : Body(g, x) = Body(cleared, x)
    BY <2>4, <2>5, SameListWhole DEF SameList
  <2>7. Marked(g)
    BY <2>4, <2>5, <2>6 DEF Marked, InHeader
  <2>8. Freed(g)
    <3>1. \A x \in Segs(g) : x # a /\ ~g.seg[x].used /\ g.seg[x].freed_at => IsZero(g, x)
      BY <2>4, <2>5, <2>6 DEF Freed, IsZero
    <3>2. IsZero(g, a)
      BY <1>10, <2>3, <2>5, <2>6 DEF IsZero
    <3>3. QED
      BY <3>1, <3>2 DEF Freed
  <2>9. Kept(h, g, a)
    BY <1>11, <2>5, <2>6 DEF Kept, Held, SameList
  <2>10. QED
    BY <1>0, <2>6, <2>7, <2>8, <2>9 DEF HeapOK
<1>14. QED
  BY <1>12, <1>13

-----------------------------------------------------------------------------
(* The operations *)

\* A segment held over two changes is held.
LEMMA HeldTrans ==
  ASSUME NEW h, NEW f, NEW g, NEW x, Held(h, f, x), Held(f, g, x)
  PROVE  Held(h, g, x)
<1>1. Body(f, x) = Body(h, x)
  BY DEF Held, Body
<1>2. QED
  BY <1>1 DEF Held

\* A user's block in a segment that is held stays as it is.
LEMMA BlockHeld ==
  ASSUME HeapInv, NEW g, NEW j \in Ids, blocks[j].ptr # NULL, Held(heap, g, SegmentOf(j))
  PROVE  /\ SegmentOf(j) \in Segs(g)
         /\ g.seg[SegmentOf(j)].used
         /\ blocks[j].size <= g.seg[SegmentOf(j)].size
         /\ \A c \in Cells(blocks[j].ptr, blocks[j].size) : g.mem[c] = j
<1> DEFINE a == SegmentOf(j)
<1>1. /\ a \in Segs(heap) /\ blocks[j].size <= heap.seg[a].size
      /\ \A c \in Cells(blocks[j].ptr, blocks[j].size) : heap.mem[c] = j
  BY DEF HeapInv, BlockInv, BlockOK
<1>2. /\ blocks[j].ptr \in Int /\ blocks[j].size \in Nat
      /\ heap.seg[a].size \in Nat /\ Header \in Nat /\ blocks[j].ptr = a + Header
  BY <1>1, SegFacts, HeapAssumption DEF HeapInv, HeapOK, BlockInv, SegmentOf
<1>3. \A c \in Cells(blocks[j].ptr, blocks[j].size) : c \in Body(heap, a)
  BY <1>1, <1>2 DEF Cells, Body
<1>4. QED
  BY <1>1, <1>3 DEF Held

\* The step of the user i, whose block is then at ptr: the others keep theirs.
LEMMA StepOf ==
  ASSUME HeapInv, NEW i \in Ids, NEW ptr \in Int, NEW size \in Nat, HeapOK(heap'),
         blocks' = [blocks EXCEPT ![i] = [ptr |-> ptr, size |-> size]],
         \A j \in Ids : j # i /\ blocks[j].ptr # NULL =>
             Held(heap, heap', SegmentOf(j)) /\ blocks[j].ptr # ptr,
         ptr # NULL =>
             /\ ptr - Header \in Segs(heap') /\ heap'.seg[ptr - Header].used
             /\ size <= heap'.seg[ptr - Header].size
             /\ \A c \in Cells(ptr, size) : heap'.mem[c] = i
  PROVE  HeapInv'
<1>1. /\ blocks \in [Ids -> [ptr : Int, size : Nat]]
      /\ \A j, k \in Ids : blocks[j].ptr = blocks[k].ptr /\ blocks[j].ptr # NULL => j = k
  BY DEF HeapInv, BlockInv
<1>2. /\ blocks'[i].ptr = ptr /\ blocks'[i].size = size
      /\ \A j \in Ids : j # i => blocks'[j] = blocks[j]
      /\ blocks' \in [Ids -> [ptr : Int, size : Nat]]
  BY <1>1
<1>3. BlockOK(i)'
  BY <1>2 DEF BlockOK, SegmentOf
<1>4. ASSUME NEW j \in Ids, j # i PROVE BlockOK(j)'
  <2>1. SegmentOf(j)' = SegmentOf(j)
    BY <1>2, <1>4 DEF SegmentOf
  <2>2. SUFFICES ASSUME blocks[j].ptr # NULL
                 PROVE  /\ SegmentOf(j) \in Segs(heap')
                        /\ heap'.seg[SegmentOf(j)].used
                        /\ blocks[j].size <= heap'.seg[SegmentOf(j)].size
                        /\ \A c \in Cells(blocks[j].ptr, blocks[j].size) : heap'.mem[c] = j
    BY <1>2, <1>4, <2>1 DEF BlockOK
  <2>3. QED
    BY <1>4, <2>2, BlockHeld
<1>5. \A j, k \in Ids : blocks'[j].ptr = blocks'[k].ptr /\ blocks'[j].ptr # NULL => j = k
  BY <1>1, <1>2
<1>6. QED
  BY <1>2, <1>3, <1>4, <1>5 DEF HeapInv, BlockInv

\* What a user knows of its block.
LEMMA OwnBlock ==
  ASSUME HeapInv, NEW i \in Ids, blocks[i].ptr # NULL
  PROVE  /\ SegmentOf(i) \in Segs(heap) /\ heap.seg[SegmentOf(i)].used
         /\ blocks[i].ptr = SegmentOf(i) + Header /\ blocks[i].ptr \in Int
         /\ SegmentOf(i) \in Nat /\ Header \in Nat
         /\ blocks[i].size \in Nat /\ heap.seg[SegmentOf(i)].size \in Nat
         /\ blocks[i].size <= heap.seg[SegmentOf(i)].size
         /\ \A c \in Cells(blocks[i].ptr, blocks[i].size) : heap.mem[c] = i
         /\ \A j \in Ids : j # i /\ blocks[j].ptr # NULL =>
               /\ SegmentOf(j) \in Segs(heap) /\ heap.seg[SegmentOf(j)].used
               /\ SegmentOf(j) # SegmentOf(i) /\ blocks[j].ptr # blocks[i].ptr
<1>1. BlockOK(i) /\ blocks \in [Ids -> [ptr : Int, size : Nat]] /\ Whole(heap)
  BY DEF HeapInv, BlockInv, HeapOK
<1>2. Header \in Nat
  BY HeapAssumption
<1>3. /\ SegmentOf(i) \in Segs(heap) /\ heap.seg[SegmentOf(i)].used
      /\ blocks[i].size <= heap.seg[SegmentOf(i)].size
      /\ \A c \in Cells(blocks[i].ptr, blocks[i].size) : heap.mem[c] = i
  BY <1>1 DEF BlockOK
<1>4. SegmentOf(i) \in Nat /\ heap.seg[SegmentOf(i)].size \in Nat
  BY <1>1, <1>3, SegFacts
<1>5. ASSUME NEW j \in Ids, j # i, blocks[j].ptr # NULL
      PROVE  /\ SegmentOf(j) \in Segs(heap) /\ heap.seg[SegmentOf(j)].used
             /\ SegmentOf(j) # SegmentOf(i) /\ blocks[j].ptr # blocks[i].ptr
  <2>1. blocks[j].ptr # blocks[i].ptr
    BY <1>5 DEF HeapInv, BlockInv
  <2>2. SegmentOf(j) # SegmentOf(i)
    BY <1>1, <1>2, <2>1 DEF SegmentOf
  <2>3. QED
    BY <1>5, <2>1, <2>2 DEF HeapInv, BlockInv, BlockOK
<1>6. QED
  BY <1>1, <1>2, <1>3, <1>4, <1>5 DEF SegmentOf

\* allocateMemory.
LEMMA AllocateStep ==
  ASSUME HeapInv, NEW i \in Ids, NEW size \in Requests, AllocateMemory(i, size)
  PROVE  HeapInv'
<1> DEFINE n == Align(size)
<1>1. PICK a \in Segs(heap) :
         /\ IsFirstFit(heap, n, a)
         /\ heap' = Written(AllocateIn(heap, a, n), i, a + Header, size, 0)
         /\ blocks' = [blocks EXCEPT ![i] = [ptr |-> a + Header, size |-> size]]
  BY DEF AllocateMemory, Segs
<1>2. ~heap.seg[a].used /\ n <= heap.seg[a].size
  <2>1. heap.seg[a].size \in Nat /\ size \in Nat
    BY SegFacts, HeapAssumption DEF HeapInv, HeapOK
  <2>2. n \in Nat
    BY <2>1, AlignFacts
  <2>3. QED
    BY <1>1, <2>1, <2>2 DEF IsFirstFit, Fits
<1>3. HeapOK(heap) /\ size \in Nat /\ n \in Nat /\ size <= n /\ a \in Nat /\ Header \in Nat
  BY AlignFacts, HeapAssumption, SegFacts DEF HeapInv, HeapOK
<1> DEFINE f == AllocateIn(heap, a, n)
<1>4. HeapOK(f) /\ a \in Segs(f) /\ f.seg[a].used /\ n <= f.seg[a].size /\ Kept(heap, f, a)
  BY <1>2, <1>3, AllocateKeeps
<1> HIDE DEF f, n
<1>5. f.seg[a].size \in Nat /\ size <= f.seg[a].size
  <2>1. f.seg[a].size \in Nat
    BY <1>4, SegFacts DEF HeapOK
  <2>2. QED
    BY <1>3, <1>4, <2>1
<1>6. /\ HeapOK(heap') /\ heap'.seg = f.seg /\ Kept(f, heap', a)
      /\ \A c \in Cells(a + Header, size) :
            heap'.mem[c] = IF c < a + Header + 0 THEN f.mem[c] ELSE i
  BY <1>1, <1>3, <1>4, <1>5, WrittenKeeps DEF f, n
<1>7. \A c \in Cells(a + Header, size) : heap'.mem[c] = i
  BY <1>3, <1>6 DEF Cells
<1>8. ASSUME NEW j \in Ids, j # i, blocks[j].ptr # NULL
      PROVE  Held(heap, heap', SegmentOf(j)) /\ blocks[j].ptr # a + Header
  <2>1. SegmentOf(j) \in Segs(heap) /\ heap.seg[SegmentOf(j)].used /\ blocks[j].ptr = SegmentOf(j) + Header
    BY <1>8, OwnBlock
  <2>2. SegmentOf(j) # a /\ SegmentOf(j) \in Nat
    BY <1>2, <1>8, <2>1, OwnBlock
  <2>3. Held(heap, f, SegmentOf(j))
    BY <1>4, <2>1, <2>2 DEF Kept
  <2>4. Held(f, heap', SegmentOf(j))
    BY <1>6, <2>2, <2>3 DEF Kept, Held
  <2>5. QED
    BY <1>3, <2>1, <2>2, <2>3, <2>4, HeldTrans
<1>9. PICK ptr \in Int : ptr = a + Header /\ ptr - Header = a
  BY <1>3
<1>10. /\ ptr - Header \in Segs(heap') /\ heap'.seg[ptr - Header].used
       /\ size <= heap'.seg[ptr - Header].size
       /\ \A c \in Cells(ptr, size) : heap'.mem[c] = i
  BY <1>4, <1>5, <1>6, <1>7, <1>9 DEF Segs
<1>11. \A j \in Ids : j # i /\ blocks[j].ptr # NULL =>
          Held(heap, heap', SegmentOf(j)) /\ blocks[j].ptr # ptr
  BY <1>8, <1>9
<1>12. blocks' = [blocks EXCEPT ![i] = [ptr |-> ptr, size |-> size]]
  BY <1>1, <1>9
<1>13. QED
  BY <1>3, <1>6, <1>10, <1>11, <1>12, StepOf

\* freeMemory.
LEMMA FreeStep ==
  ASSUME HeapInv, NEW i \in Ids, FreeMemory(i)
  PROVE  HeapInv'
<1> DEFINE a == SegmentOf(i)
<1>1. /\ blocks[i].ptr # NULL /\ heap' = FreeSegment(heap, a)
      /\ blocks' = [blocks EXCEPT ![i] = [ptr |-> NULL, size |-> 0]]
  BY DEF FreeMemory
<1>2. a \in Segs(heap)
  BY <1>1, OwnBlock
<1>3. HeapOK(heap') /\ Kept(heap, heap', a)
  BY <1>1, <1>2, FreeKeeps DEF HeapInv
<1>4. \A j \in Ids : j # i /\ blocks[j].ptr # NULL =>
         Held(heap, heap', SegmentOf(j)) /\ blocks[j].ptr # NULL
  BY <1>1, <1>3, OwnBlock DEF Kept
<1>5. NULL \in Int /\ 0 \in Nat
  BY DEF NULL
<1>6. QED
  BY <1>1, <1>3, <1>4, <1>5, StepOf

\* The segment of a block that stays where it is, cut or grown to size n.
LEMMA ResizeKeeps ==
  ASSUME NEW h, HeapOK(h), NEW a \in Segs(h), h.seg[a].used, NEW n \in Nat,
         n <= h.seg[a].size \/ GrowsInPlace(h, a, n)
  PROVE  LET g == Resized(h, a, n)
         IN  /\ HeapOK(g) /\ a \in Segs(g) /\ g.seg[a].used /\ n <= g.seg[a].size
             /\ Kept(h, g, a)
             /\ \A c \in Body(h, a) : c < a + Header + n => g.mem[c] = h.mem[c]
<1> DEFINE g == Resized(h, a, n)
<1>0. Whole(h) /\ h.seg[a].size \in Nat /\ a \in Nat /\ Header \in Nat
  BY SegFacts DEF HeapOK
<1>1. CASE n = h.seg[a].size
  <2>1. g = h /\ Kept(h, h, a)
    BY <1>1 DEF Resized, Kept, Held
  <2>2. QED
    BY <1>0, <1>1, <2>1
<1>2. CASE n < h.seg[a].size
  <2> DEFINE z == FALSE
             f == FillSegment(h, a, n, z)
  <2>0. n # h.seg[a].size /\ n <= h.seg[a].size
    BY <1>0, <1>2
  <2>1. g = f /\ z \in BOOLEAN /\ n <= h.seg[a].size
    BY <1>2, <2>0, Zenon DEF Resized
  <2>2. /\ HeapOK(f) /\ a \in Segs(f) /\ f.seg[a].used /\ n <= f.seg[a].size /\ Kept(h, f, a)
        /\ \A c \in Cells(a + Header, n) : f.mem[c] = h.mem[c]
    BY <2>1, FillKeeps
  <2> HIDE DEF f, g
  <2>3. \A c \in Body(h, a) : c < a + Header + n => c \in Cells(a + Header, n)
    BY <1>0 DEF Body, Cells
  <2>4. QED
    BY <2>1, <2>2, <2>3 DEF g
<1>3. CASE n > h.seg[a].size
  <2> DEFINE b == h.seg[a].next
             m == MergeWithFollowing(h, a)
             z == FALSE
             f == FillSegment(m, a, n, z)
  <2>0. n # h.seg[a].size /\ ~(n < h.seg[a].size)
    BY <1>0, <1>3
  <2>1. g = f /\ z \in BOOLEAN
    BY <2>0, Zenon DEF Resized
  <2>2. IsFree(h, b) /\ h.seg[b].size + h.seg[a].size >= n /\ b \in Segs(h)
    <3>1. GrowsInPlace(h, a, n)
      BY <1>0, <1>3
    <3>2. b # NULL
      BY <3>1 DEF GrowsInPlace, IsFree
    <3>3. QED
      BY <1>0, <3>1, <3>2, NextFacts DEF GrowsInPlace
  <2>3. /\ HeapOK(m) /\ a \in Segs(m) /\ m.seg[a].used /\ Kept(h, m, a)
        /\ m.seg[a].size = h.seg[a].size + Header + h.seg[b].size
        /\ \A c \in Body(h, a) : m.mem[c] = h.mem[c]
    BY <2>2, GrowKeeps
  <2>4. h.seg[b].size \in Nat
    BY <1>0, <2>2, SegFacts
  <2> HIDE DEF b, m
  <2>5. n <= m.seg[a].size
    BY <1>0, <2>2, <2>3, <2>4
  <2>6. /\ HeapOK(f) /\ a \in Segs(f) /\ f.seg[a].used /\ n <= f.seg[a].size /\ Kept(m, f, a)
        /\ \A c \in Cells(a + Header, n) : f.mem[c] = m.mem[c]
    BY <2>1, <2>3, <2>5, FillKeeps
  <2> HIDE DEF f, g
  <2>7. Kept(h, f, a)
    <3>1. ASSUME NEW x \in Segs(h), x # a, h.seg[x].used PROVE Held(h, f, x)
      <4>1. Held(h, m, x)
        BY <2>3, <3>1 DEF Kept
      <4>2. Held(m, f, x)
        BY <2>6, <3>1, <4>1 DEF Kept, Held
      <4>3. QED
        BY <4>1, <4>2, HeldTrans
    <3>2. QED
      BY <3>1 DEF Kept
  <2>8. \A c \in Body(h, a) : c < a + Header + n => c \in Cells(a + Header, n)
    BY <1>0 DEF Body, Cells
  <2>9. QED
    BY <2>1, <2>3, <2>6, <2>7, <2>8 DEF g
<1>4. QED
  BY <1>0, <1>1, <1>2, <1>3

\* reallocateMemory in place.
LEMMA ReallocateInPlaceStep ==
  ASSUME HeapInv, NEW i \in Ids, NEW size \in Requests, ReallocateInPlace(i, size)
  PROVE  HeapInv'
<1> DEFINE a == SegmentOf(i)
           n == Align(size)
           f == Resized(heap, a, n)
           kept == Lesser(size, blocks[i].size)
<1>1. /\ blocks[i].ptr # NULL
      /\ n <= heap.seg[a].size \/ GrowsInPlace(heap, a, n)
      /\ heap' = Written(f, i, blocks[i].ptr, size, kept)
      /\ blocks' = [blocks EXCEPT ![i].size = size]
  BY DEF ReallocateInPlace
<1>2. size \in Nat /\ n \in Nat /\ size <= n
  BY AlignFacts, HeapAssumption
<1>3. /\ a \in Segs(heap) /\ heap.seg[a].used /\ blocks[i].ptr = a + Header
      /\ a \in Nat /\ Header \in Nat /\ blocks[i].size \in Nat /\ heap.seg[a].size \in Nat
      /\ blocks[i].size <= heap.seg[a].size
      /\ \A c \in Cells(a + Header, blocks[i].size) : heap.mem[c] = i
  BY <1>1, OwnBlock
<1>4. /\ HeapOK(f) /\ a \in Segs(f) /\ f.seg[a].used /\ n <= f.seg[a].size /\ Kept(heap, f, a)
      /\ \A c \in Body(heap, a) : c < a + Header + n => f.mem[c] = heap.mem[c]
  BY <1>1, <1>2, <1>3, ResizeKeeps DEF HeapInv
<1>5. kept \in Nat /\ kept <= size /\ kept <= blocks[i].size
  BY <1>2, <1>3 DEF Lesser
<1> HIDE DEF f, n, kept
<1>6. f.seg[a].size \in Nat /\ size <= f.seg[a].size
  <2>1. f.seg[a].size \in Nat
    BY <1>4, SegFacts DEF HeapOK
  <2>2. QED
    BY <1>2, <1>4, <2>1
<1>7. /\ HeapOK(heap') /\ heap'.seg = f.seg /\ Kept(f, heap', a)
      /\ \A c \in Cells(a + Header, size) :
            heap'.mem[c] = IF c < a + Header + kept THEN f.mem[c] ELSE i
  BY <1>1, <1>2, <1>3, <1>4, <1>5, <1>6, WrittenKeeps
<1>8. ASSUME NEW c \in Cells(a + Header, size) PROVE heap'.mem[c] = i
  <2>1. c \in Int /\ c >= a + Header /\ c < a + Header + size /\ c < a + Header + n
    BY <1>2, <1>3 DEF Cells
  <2>2. CASE c < a + Header + kept
    <3>1. c \in Cells(a + Header, blocks[i].size) /\ c \in Body(heap, a)
      BY <1>3, <1>5, <2>1, <2>2 DEF Cells, Body
    <3>2. QED
      BY <1>3, <1>4, <1>7, <2>1, <2>2, <3>1
  <2>3. CASE ~(c < a + Header + kept)
    BY <1>7, <2>3
  <2>4. QED
    BY <2>2, <2>3
<1>9. ASSUME NEW j \in Ids, j # i, blocks[j].ptr # NULL
      PROVE  Held(heap, heap', SegmentOf(j)) /\ blocks[j].ptr # blocks[i].ptr
  <2>1. /\ SegmentOf(j) \in Segs(heap) /\ heap.seg[SegmentOf(j)].used
        /\ SegmentOf(j) # a /\ blocks[j].ptr # blocks[i].ptr
    BY <1>1, <1>9, OwnBlock
  <2>2. Held(heap, f, SegmentOf(j))
    BY <1>4, <2>1 DEF Kept
  <2>3. Held(f, heap', SegmentOf(j))
    BY <1>7, <2>1, <2>2 DEF Kept, Held
  <2>4. QED
    BY <2>1, <2>2, <2>3, HeldTrans
<1>10. a \in Segs(heap') /\ heap'.seg[a].used /\ size <= heap'.seg[a].size
  BY <1>4, <1>6, <1>7 DEF Segs
<1>11. blocks' = [blocks EXCEPT ![i] = [ptr |-> blocks[i].ptr, size |-> size]]
  <2>1. blocks \in [Ids -> [ptr : Int, size : Nat]]
    BY DEF HeapInv, BlockInv
  <2>2. [blocks[i] EXCEPT !.size = size] = [ptr |-> blocks[i].ptr, size |-> size]
    BY <2>1
  <2>3. blocks' = [blocks EXCEPT ![i] = [blocks[i] EXCEPT !.size = size]]
    BY <1>1, <2>1
  <2>4. QED
    BY <2>2, <2>3
<1>12. PICK ptr \in Int : ptr = blocks[i].ptr /\ ptr = a + Header /\ ptr - Header = a
  BY <1>3
<1>13. /\ ptr - Header \in Segs(heap') /\ heap'.seg[ptr - Header].used
       /\ size <= heap'.seg[ptr - Header].size
       /\ \A c \in Cells(ptr, size) : heap'.mem[c] = i
  BY <1>8, <1>10, <1>12
<1>14. \A j \in Ids : j # i /\ blocks[j].ptr # NULL =>
          Held(heap, heap', SegmentOf(j)) /\ blocks[j].ptr # ptr
  BY <1>9, <1>12
<1>15. blocks' = [blocks EXCEPT ![i] = [ptr |-> ptr, size |-> size]]
  BY <1>11, <1>12
<1>16. QED
  BY <1>2, <1>7, <1>13, <1>14, <1>15, StepOf

\* The memcpy of reallocateMemory, from the segment a to the larger b.
LEMMA CopyKeeps ==
  ASSUME NEW h, HeapOK(h), NEW a \in Segs(h), NEW b \in Segs(h), h.seg[b].used,
         h.seg[a].size <= h.seg[b].size
  PROVE  LET g == Copy(h, a, b)
         IN  /\ HeapOK(g) /\ g.seg = h.seg /\ Kept(h, g, b)
             /\ \A c \in Cells(b + Header, h.seg[a].size) : g.mem[c] = h.mem[c - b + a]
<1> DEFINE cells == Cells(b + Header, h.seg[a].size)
           mem == [c \in Addrs |-> IF c \in cells THEN h.mem[c - b + a] ELSE h.mem[c]]
           g == Copy(h, a, b)
<1>0. Whole(h) /\ h.mem \in [Addrs -> Values]
  BY DEF HeapOK, Whole, HeapType
<1>1. a \in Nat /\ b \in Nat /\ Header \in Nat /\ h.seg[a].size \in Nat /\ h.seg[b].size \in Nat
  BY <1>0, SegFacts
<1>2. g = [h EXCEPT !.mem = mem]
  BY DEF Copy
<1>3. \A c \in cells : c \in Body(h, b) /\ c - b + a \in Body(h, a)
  BY <1>1 DEF Cells, Body
<1>4. \A x \in Segs(h) : \A c \in Body(h, x) : c \in Addrs /\ h.mem[c] # HEADER
  <2>1. \A x \in Segs(h) : \A c \in Body(h, x) : c \in Int
    BY <1>0, SegFacts DEF Body, Cells
  <2>2. QED
    BY <1>0, <2>1, CellFacts DEF HeapOK, Marked
<1>5. \A c \in Addrs : mem[c] = IF c \in cells THEN h.mem[c - b + a] ELSE h.mem[c]
  OBVIOUS
<1>6. mem \in [Addrs -> Values]
  <2>1. \A c \in Addrs : mem[c] \in Values
    BY <1>0, <1>3, <1>4
  <2>2. QED
    BY <2>1
<1> HIDE DEF cells, mem, g
<1>7. /\ \A c \in Addrs : c \notin Body(h, b) => mem[c] = h.mem[c]
      /\ \A c \in Addrs : c \in Body(h, b) => mem[c] # HEADER
  BY <1>3, <1>4, <1>5
<1>8. HeapOK(g) /\ g.seg = h.seg /\ g.mem = mem /\ Kept(h, g, b)
  BY <1>2, <1>6, <1>7, WriteBody
<1>9. \A c \in cells : g.mem[c] = h.mem[c - b + a]
  BY <1>3, <1>4, <1>5, <1>8
<1>10. QED
  BY <1>8, <1>9 DEF g, cells

\* reallocateMemory to another place.
LEMMA ReallocateMovingStep ==
  ASSUME HeapInv, NEW i \in Ids, NEW size \in Requests, ReallocateMoving(i, size)
  PROVE  HeapInv'
<1> DEFINE a == SegmentOf(i)
           n == Align(size)
           kept == blocks[i].size
<1>1. PICK b \in Segs(heap) :
         /\ blocks[i].ptr # NULL /\ n > heap.seg[a].size
         /\ IsFirstFit(heap, n, b)
         /\ heap' = Written(FreeSegment(Copy(AllocateIn(heap, b, n), a, b), a),
                            i, b + Header, size, kept)
         /\ blocks' = [blocks EXCEPT ![i] = [ptr |-> b + Header, size |-> size]]
  BY DEF ReallocateMoving, Segs
<1>2. size \in Nat /\ n \in Nat /\ size <= n
  BY AlignFacts, HeapAssumption
<1>3. /\ a \in Segs(heap) /\ heap.seg[a].used
      /\ a \in Nat /\ Header \in Nat /\ kept \in Nat /\ heap.seg[a].size \in Nat
      /\ kept <= heap.seg[a].size
      /\ \A c \in Cells(a + Header, kept) : heap.mem[c] = i
  BY <1>1, OwnBlock
<1>4. /\ ~heap.seg[b].used /\ n <= heap.seg[b].size /\ b \in Nat /\ HeapOK(heap)
  <2>1. heap.seg[b].size \in Nat /\ b \in Nat
    BY SegFacts DEF HeapInv, HeapOK
  <2>2. QED
    BY <1>1, <1>2, <2>1 DEF IsFirstFit, Fits, HeapInv
<1>5. b # a
  BY <1>3, <1>4
<1> DEFINE f == AllocateIn(heap, b, n)
           k == Copy(f, a, b)
           e == FreeSegment(k, a)
<1> HIDE DEF n, a, kept
<1>6. HeapOK(f) /\ b \in Segs(f) /\ f.seg[b].used /\ n <= f.seg[b].size /\ Kept(heap, f, b)
  BY <1>2, <1>4, AllocateKeeps
<1>7. heap' = Written(e, i, b + Header, size, kept)
  BY <1>1
<1> HIDE DEF f
<1>8. Held(heap, f, a) /\ a \in Segs(f) /\ f.seg[a].size = heap.seg[a].size
  BY <1>3, <1>5, <1>6 DEF Kept, Held
<1>9. f.seg[b].size \in Nat /\ f.seg[a].size <= f.seg[b].size
  <2>1. f.seg[b].size \in Nat
    BY <1>6, SegFacts DEF HeapOK
  <2>2. QED
    BY <1>1, <1>2, <1>3, <1>6, <1>8, <2>1
<1>10. /\ HeapOK(k) /\ k.seg = f.seg /\ Kept(f, k, b)
       /\ \A c \in Cells(b + Header, f.seg[a].size) : k.mem[c] = f.mem[c - b + a]
  BY <1>6, <1>8, <1>9, CopyKeeps
<1> HIDE DEF k
<1>11. Segs(k) = Segs(f) /\ Body(k, b) = Body(f, b)
  BY <1>10 DEF Segs, Body
<1>12. HeapOK(e) /\ Kept(k, e, a)
  BY <1>8, <1>10, <1>11, FreeKeeps
<1> HIDE DEF e
<1>13. Held(k, e, b)
  BY <1>5, <1>6, <1>10, <1>11, <1>12 DEF Kept
<1>14. b \in Segs(e) /\ e.seg[b].used /\ e.seg[b].size = f.seg[b].size /\ size <= e.seg[b].size
  <2>1. b \in Segs(e) /\ e.seg[b].used /\ e.seg[b].size = f.seg[b].size
    BY <1>10, <1>13 DEF Held
  <2>2. QED
    BY <1>2, <1>6, <1>9, <2>1
<1>15. /\ HeapOK(heap') /\ heap'.seg = e.seg /\ Kept(e, heap', b)
       /\ \A c \in Cells(b + Header, size) :
             heap'.mem[c] = IF c < b + Header + kept THEN e.mem[c] ELSE i
  <2> DEFINE w == Written(e, i, b + Header, size, kept)
  <2>0. size \in Nat /\ kept \in Nat
    BY <1>2, <1>3
  <2>1. /\ HeapOK(w) /\ w.seg = e.seg /\ Kept(e, w, b)
        /\ \A c \in Cells(b + Header, size) :
              w.mem[c] = IF c < b + Header + kept THEN e.mem[c] ELSE i
    BY <1>12, <1>14, <2>0, WrittenKeeps
  <2>2. heap' = w
    BY <1>7
  <2> HIDE DEF w
  <2>3. QED
    BY <2>1, <2>2
<1>16. ASSUME NEW c \in Cells(b + Header, size) PROVE heap'.mem[c] = i
  <2>1. CASE c < b + Header + kept
    <3>1. c \in Int /\ c >= b + Header
      BY <1>2, <1>3, <1>4 DEF Cells
    <3>2. /\ c \in Cells(b + Header, f.seg[a].size) /\ c \in Body(k, b)
          /\ c - b + a \in Cells(a + Header, kept) /\ c - b + a \in Body(heap, a)
      <4>1. /\ f.seg[a].size \in Nat /\ kept <= f.seg[a].size
            /\ f.seg[a].size <= f.seg[b].size /\ f.seg[b].size \in Nat
        BY <1>3, <1>8, <1>9
      <4>2. a \in Int /\ b \in Int /\ Header \in Int /\ kept \in Int
        BY <1>3, <1>4
      <4>3. c \in Cells(b + Header, f.seg[a].size) /\ c \in Cells(b + Header, f.seg[b].size)
        BY <2>1, <3>1, <4>1, <4>2 DEF Cells
      <4>4. /\ c - b + a \in Cells(a + Header, kept)
            /\ c - b + a \in Cells(a + Header, f.seg[a].size)
        BY <2>1, <3>1, <4>1, <4>2 DEF Cells
      <4>5. QED
        BY <1>8, <1>11, <4>3, <4>4 DEF Body
    <3>3. e.mem[c] = k.mem[c] /\ k.mem[c] = f.mem[c - b + a]
      BY <1>10, <1>13, <3>2 DEF Held
    <3>4. f.mem[c - b + a] = heap.mem[c - b + a] /\ heap.mem[c - b + a] = i
      BY <1>3, <1>8, <3>2 DEF Held
    <3>5. QED
      BY <1>15, <2>1, <3>3, <3>4
  <2>2. CASE ~(c < b + Header + kept)
    BY <1>15, <2>2
  <2>3. QED
    BY <2>1, <2>2
<1>17. ASSUME NEW j \in Ids, j # i, blocks[j].ptr # NULL
       PROVE  Held(heap, heap', SegmentOf(j)) /\ blocks[j].ptr # b + Header
  <2> DEFINE x == SegmentOf(j)
  <2>1. /\ x \in Segs(heap) /\ heap.seg[x].used /\ x # a /\ x \in Nat
        /\ blocks[j].ptr = x + Header
    BY <1>1, <1>17, OwnBlock DEF a
  <2>2. x # b
    BY <1>4, <2>1
  <2> HIDE DEF x
  <2>3. Held(heap, f, x)
    BY <1>6, <2>1, <2>2 DEF Kept
  <2>4. Held(f, k, x)
    BY <1>10, <2>2, <2>3 DEF Kept, Held
  <2>5. Held(k, e, x)
    BY <1>12, <2>1, <2>4 DEF Kept, Held
  <2>6. Held(e, heap', x)
    BY <1>15, <2>2, <2>5 DEF Kept, Held
  <2>7. Held(heap, heap', x)
    BY <2>3, <2>4, <2>5, <2>6, HeldTrans
  <2>8. QED
    BY <1>3, <1>4, <2>1, <2>2, <2>7 DEF x
<1>18. PICK ptr \in Int : ptr = b + Header /\ ptr - Header = b
  BY <1>3, <1>4
<1>19. /\ ptr - Header \in Segs(heap') /\ heap'.seg[ptr - Header].used
       /\ size <= heap'.seg[ptr - Header].size
       /\ \A c \in Cells(ptr, size) : heap'.mem[c] = i
  BY <1>14, <1>15, <1>16, <1>18 DEF Segs
<1>20. \A j \in Ids : j # i /\ blocks[j].ptr # NULL =>
          Held(heap, heap', SegmentOf(j)) /\ blocks[j].ptr # ptr
  BY <1>17, <1>18
<1>21. blocks' = [blocks EXCEPT ![i] = [ptr |-> ptr, size |-> size]]
  BY <1>1, <1>18
<1>22. QED
  BY <1>2, <1>15, <1>19, <1>20, <1>21, StepOf

-----------------------------------------------------------------------------
(* The theorems *)

\* The constructor leaves a heap in order: a single free segment, and its
\* header alone in memory.
LEMMA InitHeap == Init => HeapInv
<1> SUFFICES ASSUME Init PROVE HeapInv
  OBVIOUS
<1> DEFINE s == NewSegment(NULL, NULL, HeapSize - Header)
<1>0. Header \in Nat /\ Header > 0 /\ HeapSize \in Nat /\ HeapSize > Header
  BY HeapAssumption
<1>1. /\ heap.seg = [a \in {0} |-> s] /\ heap.last = 0
      /\ heap.mem = [c \in Addrs |-> IF c < Header THEN HEADER ELSE ZERO]
      /\ heap = [seg |-> heap.seg, last |-> heap.last, mem |-> heap.mem]
  BY DEF Init
<1>2. Segs(heap) = {0} /\ heap.seg[0] = s /\ heap.seg = [a \in Segs(heap) |-> heap.seg[a]]
  BY <1>1 DEF Segs
<1>3. /\ s.size = HeapSize - Header /\ s.next = NULL /\ s.prev = NULL
      /\ s.used = FALSE /\ s.freed_at = FALSE /\ s \in Segments
  BY <1>0 DEF NewSegment, Segments, Pointers
<1> HIDE DEF s
<1>4. HeapType(heap)
  <2>1. 0 \in Addrs
    BY <1>0 DEF Addrs
  <2>2. heap.mem \in [Addrs -> Values]
    BY <1>1 DEF Values
  <2>3. QED
    BY <1>1, <1>2, <1>3, <2>1, <2>2 DEF HeapType
<1>5. Chain(heap) /\ Apart(heap)
  <2>1. End(heap, 0) = HeapSize /\ heap.seg[0].size > 0
    BY <1>0, <1>2, <1>3 DEF End
  <2>2. Forward(heap, 0) /\ Backward(heap, 0)
    BY <1>1, <1>2, <1>3, <2>1 DEF Forward, Backward
  <2>3. QED
    BY <1>1, <1>2, <1>3, <2>2 DEF Chain, Apart
<1>6. Marked(heap)
  <2>1. \A c \in Addrs : InHeader(heap, c) <=> c < Header
    BY <1>0, <1>2 DEF InHeader, Cells, Addrs
  <2>2. QED
    BY <1>1, <2>1, HeapAssumption DEF Marked
<1>7. Freed(heap)
  BY <1>2, <1>3 DEF Freed
<1>8. BlockInv
  <2>1. \A i \in Ids : blocks[i].ptr = NULL
    BY DEF Init
  <2>2. blocks \in [Ids -> [ptr : Int, size : Nat]]
    BY DEF Init, NULL
  <2>3. QED
    BY <2>1, <2>2 DEF BlockInv, BlockOK
<1>9. QED
  BY <1>4, <1>5, <1>6, <1>7, <1>8 DEF HeapInv, HeapOK, Whole

\* Every operation leaves it in order.
LEMMA NextHeap == HeapInv /\ [Next]_vars => HeapInv'
<1> SUFFICES ASSUME HeapInv, [Next]_vars PROVE HeapInv'
  OBVIOUS
<1>1. ASSUME NEW i \in Ids, FreeMemory(i) PROVE HeapInv'
  BY <1>1, FreeStep
<1>2. ASSUME NEW i \in Ids, NEW size \in Requests,
             AllocateMemory(i, size) \/ ReallocateInPlace(i, size) \/ ReallocateMoving(i, size)
      PROVE  HeapInv'
  BY <1>2, AllocateStep, ReallocateInPlaceStep, ReallocateMovingStep
<1>3. CASE UNCHANGED vars
  BY <1>3 DEF vars, HeapInv, BlockInv, BlockOK, SegmentOf
<1>4. QED
  BY <1>1, <1>2, <1>3 DEF Next

\* The invariant holds of every run.
LEMMA HeapInvariance == Spec => []HeapInv
  BY InitHeap, NextHeap, PTL DEF Spec

\* The first cell of a block is inside the heap, even of a block of size zero.
LEMMA BlockInside ==
  ASSUME NEW h, Whole(h), NEW a \in Segs(h)
  PROVE  a + Header < HeapSize
<1>1. /\ a \in Nat /\ h.seg[a].size \in Nat /\ Header \in Nat /\ HeapSize \in Nat
      /\ End(h, a) = a + Header + h.seg[a].size /\ Forward(h, a)
  BY SegFacts DEF Whole, Chain
<1>2. CASE h.seg[a].next = NULL
  BY <1>1, <1>2 DEF Forward
<1>3. CASE h.seg[a].next # NULL
  <2>1. End(h, a) \in Segs(h)
    BY <1>1, <1>3 DEF Forward
  <2>2. End(h, a) < HeapSize
    BY <2>1, SegFacts
  <2>3. QED
    BY <1>1, <2>2
<1>4. QED
  BY <1>2, <1>3

\* Whatever is asked for and released, in any order and at any sizes, the
\* segments of KernelMemoryManager are one list from first_ to last_ in both
\* directions, each beginning where the one before ends, up to kernel_break_.
THEOREM HeapListWhole == Spec => [](TypeOK /\ ListConsistent)
<1>1. HeapInv => TypeOK /\ ListConsistent
  <2> SUFFICES ASSUME HeapInv PROVE TypeOK /\ ListConsistent
    OBVIOUS
  <2>1. Whole(heap) /\ HeapType(heap) /\ Chain(heap)
    BY DEF HeapInv, HeapOK, Whole
  <2>2. ASSUME NEW i \in Ids PROVE blocks[i] \in [ptr : 0..HeapSize \cup {NULL}, size : Nat]
    <3>1. blocks[i] \in [ptr : Int, size : Nat]
      BY DEF HeapInv, BlockInv
    <3>2. blocks[i].ptr # NULL => blocks[i].ptr \in 0..HeapSize
      <4> SUFFICES ASSUME blocks[i].ptr # NULL PROVE blocks[i].ptr \in 0..HeapSize
        OBVIOUS
      <4>1. /\ SegmentOf(i) \in Segs(heap) /\ SegmentOf(i) \in Nat /\ Header \in Nat
            /\ blocks[i].ptr = SegmentOf(i) + Header
        BY OwnBlock
      <4>2. SegmentOf(i) + Header < HeapSize /\ HeapSize \in Nat
        BY <2>1, <4>1, BlockInside, HeapAssumption
      <4>3. QED
        BY <4>1, <4>2
    <3>3. QED
      BY <3>1, <3>2
  <2>3. TypeOK
    <3>1. blocks = [i \in Ids |-> blocks[i]]
      BY DEF HeapInv, BlockInv
    <3>2. QED
      BY <2>1, <2>2, <3>1 DEF TypeOK, HeapType, Segs, Values
  <2>4. 0 \in Segs(heap) /\ heap.seg[0].prev = NULL
    BY <2>1 DEF Chain, Backward
  <2>5. \A a \in Segs(heap) :
           IF heap.seg[a].next = NULL THEN a = heap.last /\ End(heap, a) = HeapSize
           ELSE /\ heap.seg[a].next = End(heap, a) /\ End(heap, a) \in Segs(heap)
                /\ heap.seg[End(heap, a)].prev = a
    BY <2>1 DEF Chain, Forward
  <2>6. QED
    BY <2>1, <2>3, <2>4, <2>5 DEF ListConsistent, Chain, Segs, End
<1>2. QED
  BY <1>1, HeapInvariance, PTL

\* No assertion of KernelMemoryManager on markers or on memory that must be
\* zero fails: what is handed out again holds no old header and no old contents.
THEOREM HeapAssertions == Spec => []AssertionsHold
<1>1. HeapInv => AssertionsHold
  <2> SUFFICES ASSUME HeapInv PROVE MarkersOk /\ FreedIsZero
    BY DEF AssertionsHold
  <2>1. Marked(heap) /\ Freed(heap)
    BY DEF HeapInv, HeapOK
  <2>2. QED
    BY <2>1 DEF Marked, InHeader, Freed, IsZero, Body, MarkersOk, FreedIsZero, Segs
<1>2. QED
  BY <1>1, HeapInvariance, PTL

\* Every block keeps what its user wrote, through its own reallocations and the
\* operations of all others, and its header is found when it is released.
THEOREM BlocksAreKept == Spec => []BlocksIntact
<1>1. HeapInv => BlocksIntact
  <2> SUFFICES ASSUME HeapInv, NEW i \in Ids, blocks[i].ptr # NULL
               PROVE  /\ blocks[i].ptr < HeapSize
                      /\ SegmentOf(i) \in DOMAIN heap.seg /\ heap.seg[SegmentOf(i)].used
                      /\ \A c \in Cells(blocks[i].ptr, blocks[i].size) : heap.mem[c] = i
    BY DEF BlocksIntact
  <2>1. /\ SegmentOf(i) \in Segs(heap) /\ heap.seg[SegmentOf(i)].used
        /\ blocks[i].ptr = SegmentOf(i) + Header
        /\ \A c \in Cells(blocks[i].ptr, blocks[i].size) : heap.mem[c] = i
    BY OwnBlock
  <2>2. blocks[i].ptr < HeapSize
    BY <2>1, BlockInside DEF HeapInv, HeapOK
  <2>3. QED
    BY <2>1, <2>2 DEF Segs
<1>2. QED
  BY <1>1, HeapInvariance, PTL
=============================================================================
