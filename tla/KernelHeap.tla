----------------------------- MODULE KernelHeap -----------------------------
(***************************************************************************)
(* The kernel heap: KernelMemoryManager with its list of MallocSegments    *)
(* inside the memory it manages.                                           *)
(*                                                                         *)
(* lock_ is held over each operation, so an operation is a single step.    *)
(* The heap does not grow (DYNAMIC_KMM is 0): a request for which there is *)
(* no room, and the release of the only block, make ksbrk halt the kernel. *)
(* An address is an offset from base_break_ in units the memory is         *)
(* accessed in; a cell of memory holds zero, a part of a header, or what   *)
(* its user wrote.                                                         *)
(***************************************************************************)
EXTENDS Integers

CONSTANTS
    HeapSize,   \* reserved_min_ (and reserved_max_)
    Header,     \* sizeof(MallocSegment)
    Alignment,  \* 16 bytes
    Ids,        \* the users of memory, who have a block each or none
    Requests,   \* the sizes they ask for
    ZERO, HEADER

Addrs == 0..HeapSize - 1
NULL == -1

ASSUME HeapAssumption ==
    /\ HeapSize \in Nat /\ Header \in Nat \ {0} /\ HeapSize > Header
    /\ Alignment \in Nat \ {0} /\ Requests \subseteq Nat
    /\ ZERO # HEADER /\ {ZERO, HEADER} \cap Ids = {}

VARIABLES
    heap,     \* [seg: the segments by address, last: last_, mem: the cells]
    blocks    \* [ptr, size] of every user's block, ptr = NULL if there is none

vars == <<heap, blocks>>

Pointers == Addrs \cup {NULL}
Segments == [size : Nat, used : BOOLEAN, next : Pointers, prev : Pointers, freed_at : BOOLEAN]

\* Every variable has its type.
TypeOK ==
    /\ DOMAIN heap.seg \subseteq Addrs
    /\ \A a \in DOMAIN heap.seg : heap.seg[a] \in Segments
    /\ heap.last \in Addrs
    /\ heap.mem \in [Addrs -> Ids \cup {ZERO, HEADER}]
    /\ blocks \in [Ids -> [ptr : 0..HeapSize \cup {NULL}, size : Nat]]

-----------------------------------------------------------------------------
(* Memory and segments *)

Cells(a, n) == a..a + n - 1
SetCells(mem, cells, x) == [c \in Addrs |-> IF c \in cells THEN x ELSE mem[c]]

\* The constructor of MallocSegment.
NewSegment(prev, next, size) ==
    [size |-> size, used |-> FALSE, next |-> next, prev |-> prev, freed_at |-> FALSE]

Init ==
    /\ heap = [seg |-> [a \in {0} |-> NewSegment(NULL, NULL, HeapSize - Header)],
               last |-> 0,
               mem |-> [c \in Addrs |-> IF c < Header THEN HEADER ELSE ZERO]]
    /\ blocks = [i \in Ids |-> [ptr |-> NULL, size |-> 0]]

\* (requested_size + 0xF) & ~0xF.
Align(n) == ((n + Alignment - 1) \div Alignment) * Alignment

\* findFreeSegment: the first in the list, which is in the order of addresses.
Fits(h, n) == {a \in DOMAIN h.seg : ~h.seg[a].used /\ h.seg[a].size >= n}
IsFirstFit(h, n, a) == a \in Fits(h, n) /\ \A b \in Fits(h, n) : a <= b

\* The condition of fillSegment for a segment after this one.
RoomForSegment(space_left) == space_left > Header

\* fillSegment(a, n, zero_check).
FillSegment(h, a, n, zero_check) ==
    LET this == [h.seg[a] EXCEPT !.used = TRUE]
        mem == IF zero_check THEN SetCells(h.mem, Cells(a + Header, n), ZERO) ELSE h.mem
        space_left == this.size - n
        rest == a + Header + n
    IN  IF ~RoomForSegment(space_left)
        THEN [h EXCEPT !.seg[a] = this, !.mem = mem]
        ELSE [seg |-> [x \in DOMAIN h.seg \cup {rest} |->
                         IF x = a THEN [this EXCEPT !.size = n, !.next = rest]
                         ELSE IF x = rest THEN NewSegment(a, this.next, space_left - Header)
                         ELSE IF x = this.next THEN [h.seg[x] EXCEPT !.prev = rest]
                         ELSE h.seg[x]],
              last |-> IF this.next = NULL THEN rest ELSE h.last,
              mem |-> SetCells(mem, Cells(rest, Header), HEADER)]

\* private_AllocateMemory in the free segment a.
AllocateIn(h, a, n) ==
    LET filled == FillSegment(h, a, n, TRUE) IN [filled EXCEPT !.seg[a].freed_at = FALSE]

\* What the segment next to a covers, up to the following one or kernel_break_.
TrueSize(h, a) == (IF h.seg[a].next = NULL THEN HeapSize ELSE h.seg[a].next) - a

\* Segment b, which follows a, becomes a part of a.
\* MUTANT: last_ is left as it is.
LastAsItIs(h, a, b) == h.last
LastAfterJoin(h, a, b) == IF h.seg[b].next = NULL THEN a ELSE h.last
Join(h, a, b) ==
    [h EXCEPT !.seg = [x \in DOMAIN h.seg \ {b} |->
                         IF x = a THEN [h.seg[a] EXCEPT !.size = @ + TrueSize(h, b),
                                                        !.next = h.seg[b].next]
                         ELSE IF x = h.seg[b].next THEN [h.seg[x] EXCEPT !.prev = a]
                         ELSE h.seg[x]],
              !.last = LastAfterJoin(h, a, b)]

IsFree(h, a) == a # NULL /\ ~h.seg[a].used

\* mergeWithFollowingFreeSegment, which clears the header of the other one.
MergeWithFollowing(h, a) ==
    LET b == h.seg[a].next
    IN  IF IsFree(h, b)
        THEN [Join(h, a, b) EXCEPT !.mem = SetCells(@, Cells(b, Header), ZERO)]
        ELSE h

\* The memset of freeSegment, after the merging.
\* MUTANT: only the memory that was in use is cleared.
ClearOld(h, a, size) == SetCells(h.mem, Cells(a + Header, size), ZERO)
ClearAll(h, a, size) == SetCells(h.mem, Cells(a + Header, h.seg[a].size), ZERO)

\* freeSegment(a), and freed_at_ if the header of a is still there.
FreeSegment(h, a) ==
    LET prev == h.seg[a].prev
        unused == [h EXCEPT !.seg[a].used = FALSE]
        this == IF IsFree(h, prev) THEN prev ELSE a
        merged == MergeWithFollowing(IF IsFree(h, prev) THEN Join(unused, prev, a) ELSE unused, this)
        cleared == [merged EXCEPT !.mem = ClearAll(merged, this, h.seg[a].size)]
    IN  IF cleared.mem[a] = HEADER THEN [cleared EXCEPT !.seg[a].freed_at = TRUE] ELSE cleared

-----------------------------------------------------------------------------
(* The operations *)

\* The user i of a block writes to all of it; kept is what it wrote before.
Written(h, i, ptr, size, kept) ==
    [h EXCEPT !.mem = SetCells(@, Cells(ptr + kept, size - kept), i)]

\* getSegmentFromAddress.
SegmentOf(i) == blocks[i].ptr - Header

\* (Also reallocateMemory of a null pointer.)
AllocateMemory(i, size) ==
    /\ blocks[i].ptr = NULL
    /\ \E a \in DOMAIN heap.seg :
          /\ IsFirstFit(heap, Align(size), a)
          /\ heap' = Written(AllocateIn(heap, a, Align(size)), i, a + Header, size, 0)
          /\ blocks' = [blocks EXCEPT ![i] = [ptr |-> a + Header, size |-> size]]

\* (Also reallocateMemory to size 0.)  When no used segment is left ksbrk is
\* called, and halts the kernel.
FreeMemory(i) ==
    /\ blocks[i].ptr # NULL /\ blocks[i].ptr < HeapSize
    /\ heap' = FreeSegment(heap, SegmentOf(i))
    /\ heap'.last # 0
    /\ blocks' = [blocks EXCEPT ![i] = [ptr |-> NULL, size |-> 0]]

\* reallocateMemory when the block stays where it is: it has the size already,
\* it is cut, or it grows into the free segment that follows.
GrowsInPlace(h, a, n) ==
    IsFree(h, h.seg[a].next) /\ h.seg[h.seg[a].next].size + h.seg[a].size >= n
Resized(h, a, n) ==
    IF n = h.seg[a].size THEN h
    ELSE IF n < h.seg[a].size THEN FillSegment(h, a, n, FALSE)
    ELSE FillSegment(MergeWithFollowing(h, a), a, n, FALSE)

Lesser(m, n) == IF m < n THEN m ELSE n

ReallocateInPlace(i, size) ==
    /\ blocks[i].ptr # NULL /\ size > 0
    /\ LET a == SegmentOf(i)
           n == Align(size)
       IN  /\ n <= heap.seg[a].size \/ GrowsInPlace(heap, a, n)
           /\ heap' = Written(Resized(heap, a, n), i, blocks[i].ptr, size,
                              Lesser(size, blocks[i].size))
    /\ blocks' = [blocks EXCEPT ![i].size = size]

\* It moves: the old segment is copied as a whole, then freed.
\* MUTANT: it is freed before it is copied.
CopyFreed(h, a, b) == [h EXCEPT !.mem = SetCells(@, Cells(b + Header, h.seg[a].size), ZERO)]
Copy(h, a, b) ==
    [h EXCEPT !.mem = [c \in Addrs |->
        IF c \in Cells(b + Header, h.seg[a].size) THEN h.mem[c - b + a] ELSE h.mem[c]]]

ReallocateMoving(i, size) ==
    /\ blocks[i].ptr # NULL /\ size > 0
    /\ LET a == SegmentOf(i)
           n == Align(size)
       IN  /\ n > heap.seg[a].size /\ ~GrowsInPlace(heap, a, n)
           /\ \E b \in DOMAIN heap.seg :
                 /\ IsFirstFit(heap, n, b)
                 /\ heap' = Written(FreeSegment(Copy(AllocateIn(heap, b, n), a, b), a),
                                    i, b + Header, size, blocks[i].size)
                 /\ blocks' = [blocks EXCEPT ![i] = [ptr |-> b + Header, size |-> size]]

Next ==
    \E i \in Ids :
        \/ FreeMemory(i)
        \/ \E size \in Requests :
              AllocateMemory(i, size) \/ ReallocateInPlace(i, size) \/ ReallocateMoving(i, size)

Spec == Init /\ [][Next]_vars

-----------------------------------------------------------------------------
(* Properties *)

\* The segments are a list in both directions from first_ to last_, in which
\* each begins where the one before ends and the last ends with the heap.
ListConsistent ==
    /\ 0 \in DOMAIN heap.seg /\ heap.seg[0].prev = NULL
    /\ heap.last \in DOMAIN heap.seg /\ heap.seg[heap.last].next = NULL
    /\ \A a \in DOMAIN heap.seg :
          LET s == heap.seg[a]
              end == a + Header + s.size
          IN  IF s.next = NULL THEN a = heap.last /\ end = HeapSize
              ELSE s.next = end /\ end \in DOMAIN heap.seg /\ heap.seg[end].prev = a

\* The markers: a header is whole as long as its segment is in the list, and
\* nothing else in memory looks like one.
MarkersOk ==
    \A c \in Addrs :
        heap.mem[c] = HEADER <=> \E a \in DOMAIN heap.seg : c \in Cells(a, Header)

\* A segment that knows where it was freed is zero.
FreedIsZero ==
    \A a \in DOMAIN heap.seg :
        ~heap.seg[a].used /\ heap.seg[a].freed_at =>
            \A c \in Cells(a + Header, heap.seg[a].size) : heap.mem[c] = ZERO

\* The assertions on markers ("memory corruption - probably 'write after
\* delete'") and that of fillSegment (KernelMemoryManager.cpp:248: memory that
\* is handed out again is zero) hold, whatever splits and merges went before.
AssertionsHold == MarkersOk /\ FreedIsZero

\* A block keeps what its user wrote, through the allocation, release and
\* reallocation of others and through its own reallocation, and freeMemory
\* will find it.
BlocksIntact ==
    \A i \in Ids : blocks[i].ptr # NULL =>
        /\ blocks[i].ptr < HeapSize
        /\ SegmentOf(i) \in DOMAIN heap.seg /\ heap.seg[SegmentOf(i)].used
        /\ \A c \in Cells(blocks[i].ptr, blocks[i].size) : heap.mem[c] = i
=============================================================================
