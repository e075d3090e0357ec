# kPanic: a verification project

kPanic is an operating system kernel for x86-64, grown from the SWEB teaching
kernel: preemptive kernel threads on one processor, user processes with POSIX-like
threads, `fork` with copy on write, `execv`, `waitpid`, pipes, and a small virtual
file system. This directory holds TLA+ models of the parts of it where many
threads or processes act on shared state, TLC runs that check them on small
instances, and TLAPS proofs for every value of the constants.

Paths below are relative to the repository; `kernel/` is `common/source/kernel/`,
`mm/` is `common/source/mm/`.

## 1. Inventory

The kernel runs system calls and page faults with interrupts enabled: a thread can
be preempted between any two instructions of the kernel, except while interrupts
or the scheduling are disabled. There is one processor, so single accesses to
memory are atomic and seen in order.

| Part | State | Operations | Correct if |
|---|---|---|---|
| **Locks** (`kernel/Lock, Mutex, Condition, MutexLock`) | test-and-set word, holder, list of waiters with its own spinlock; per thread: list of held locks, lock it waits on | acquire, acquireNonBlocking, release, wait, waitAndRelease, signal, broadcast; checks for deadlocks that are assertions | one holder at a time, no lost wakeup or signal, no false alarm of the checks, nobody stuck |
| **Scheduler** (`kernel/Scheduler, Thread, CleanupThread, SpinLock`) | thread list, thread states, times to wake up, `block_scheduling_` | schedule, sleep, wake, yield, sleepUntil, addNewThread, cleanupDeadThreads, the timer | a sleeping thread is woken by exactly one waker, or when its time has come; a ready thread gets its turn; a dead thread is deleted once; nobody waits while scheduling is blocked |
| **Threads of a process** (`kernel/UserProcess, UserThread, UThreadManager`) | thread list, next tid, who joins whom, return values, cancellation flags, `called_exit_` | pthread_create, exit, join, cancel; exit; the killing of siblings in execv; destruction by the cleanup thread | a joiner is always woken, no circle of joiners, exit reaches every thread and ends with the process deleted |
| **Copy on write** (`kernel/COWManager`, `mm/PageFaultHandler`, `mm/PageManager`, `ArchMemory`) | page tables, writeable bits, the processes that share each physical page, the table of used pages | fork, page fault (load, copy, take over), exit | no process sees the writes of another; pages are freed once, when the last sharer is gone; the sets name only processes that are there |
| **Processes** (`kernel/ProcessRegistry, Syscall`) | list and number of processes, a Condition per process, who has waited for whom, the last pid that died | start of programs, fork, createprocess, exit, waitpid of one and of any, shutdown | no missed death, no circle of waiting processes, unmount and shutdown after the last process |
| **Pipes and descriptors** (`kernel/UserProcess`, `util/RingBuffer.h`) | local descriptors, pipes with their ends, a ring buffer without locks shared after fork | open, close, pipe, read, write | bytes come out in order and once; the buffer is deleted with the last process |
| **Kernel heap** (`mm/KernelMemoryManager`) | list of segments | allocate, free, reallocate, grow | segments tile the heap and never overlap; a block keeps its contents; freed memory is zero |
| **Input** (`KeyboardManager`, `console/Console, Terminal`, `util/FiFo.h`) | ring of scancodes, shift key, active terminal, a FiFo with Mutex and Condition per terminal, the lock of the console | keyboard interrupt, echo, backspace, switch of terminals, readLine | programs get the keys the user saw, in order and once; nobody waits for a key that is there |
| **MinixFS** (`fs/minixfs`, `fs/VfsSyscall`) | bitmaps, inodes and zones in memory and on the disk, directory entries, open files | open, create, read, write, close, rm, mount, unmount | a file is the bytes written to it, also after a mount; no zone has two owners; a crash damages no file that was not being written |
| **Other file systems, loader, drivers, libc, other ports** | — | — | see section 9 |

How they interact. Every other part takes Mutexes and waits on Conditions, so the
models above the locks treat a block that one lock guards as one step; that
`Mutex` and `Condition` are monitors is what `KernelLocks` shows. A page fault or
system call of a process reads the copy-on-write sets; the last thread destroyed
by the cleanup thread runs `~UserProcess`, which leaves the sets, frees the
memory, leaves the registry and wakes whoever waits for the pid. `kill` and
`execv` use cancel and join on the other threads of their process. The scheduler
allocates from the heap while scheduling is blocked. Every thread of a process has
the terminal of its process, which `read` of descriptor 0 takes its lines from.

What is hard: a wakeup racing a thread that is about to sleep; a thread that exits,
is cancelled or created while its process is being killed; page faults, forks and
exits of processes that share a page; a Condition looked up before and used after a
lock is given up; iterators kept across a lock; the
heap lock held by a thread that can not run; positions of ring buffers that wrap
around; zones at the boundary between two levels of tables, and a disk on which only
part of an operation has arrived. `PROJECT.json` lists these hazards
line by line.

## 2. Plan

Done: `KernelLocks` with `Monitor`; `UserThreads`; `CopyOnWrite`, execv included;
`ProcessRegistry`; `Pipe` with `BoundedQueue`; `KernelHeap`;
`Scheduler` with the lock of the heap; `TerminalInput` with the console
and `FiFo`; each of these with a module of proofs. `MinixFS` with `ByteFiles`, checked
by TLC.

To do, most valuable first:

1. What else holds of `CopyOnWrite` with overlapping calls: which exceptions to the
   agreement of tables and sets a fault that was overtaken can leave.
2. An inductive invariant of `MinixFS` for the owners of zones that does not need
   the recursion over tables of zones.
3. Directories of `MinixFS`, and the calls of several threads into it.
4. The growth of stacks and two threads of one process in the fault handler.

## 3. Modules

| Module | Models | Extends / instantiates |
|---|---|---|
| `KernelLocks` | `Mutex`, `Condition`, `Lock`, `Scheduler::sleep/wake` | instantiates `Monitor` |
| `Monitor` | abstract: owners of mutexes and wait sets of conditions | |
| `MCKernelLocks` | constants for TLC | `KernelLocks` |
| `KernelLocksProofs` | proofs | `KernelLocks` |
| `UserThreads` | threads of one process | |
| `MCUserThreads` | the programs TLC runs | `UserThreads` |
| `UserThreadsProofs` | proofs | `UserThreads` |
| `CopyOnWrite` | memory of processes | |
| `MCCopyOnWrite` | symmetry for TLC | `CopyOnWrite` |
| `CopyOnWriteProofs` | proofs | `CopyOnWrite` |
| `ProcessRegistry` | processes, waitpid, shutdown | |
| `ProcessRegistryProofs` | proofs | `ProcessRegistry` |
| `Pipe` | a pipe between processes, with `RingBuffer` | instantiates `BoundedQueue` |
| `BoundedQueue` | abstract: a first-in-first-out queue with a capacity | |
| `PipeProofs` | proofs | `Pipe` |
| `KernelHeap` | `KernelMemoryManager` | |
| `MCKernelHeap` | symmetry for TLC | `KernelHeap` |
| `KernelHeapProofs` | proofs | `KernelHeap` |
| `Scheduler` | run queue, sleepers, `SpinLock` of the heap, cleanup | |
| `SchedulerProofs` | proofs | `Scheduler` |
| `MinixFS` | files of a Minix partition, in memory and on the disk | instantiates `ByteFiles` |
| `ByteFiles` | abstract: a file is the sequence of bytes written to it | |
| `MCMinixFS` | buffers and symmetry for TLC | `MinixFS` |
| `TerminalInput` | keyboard, console thread, terminals, `FiFo` | |
| `MCTerminalInput` | the terminal of each thread for TLC | `TerminalInput` |
| `TerminalInputProofs` | proofs | `TerminalInput` |

Definitions keep the names of the source; each `map` entry of `PROJECT.json` gives
the lines a definition stands for. An operator whose comment says MUTANT is a bug
one might plausibly introduce; it is used by no specification, only to confirm that
the property next to it in `PROJECT.json` would notice it. An assertion in the code
is a guard of the step that makes it, as a failing one halts the kernel, and a
conjunct of a property (`AssertionsHold`, `FaultingProcessShares`, `ZonesSuffice`).

### KernelLocks

State: for each lock the word `mutex_`, `held_by_`, `waiters_list_` and
`waiters_list_lock_`; for each thread its holding list, `lock_waiting_on_` and
`state_`; and the control state of its calls. One step is one access to memory that
another thread can see, or a block under the spinlock of the waiters list.
`Check, TestSet, TestSetAgain, CheckAgain, Own` are `Mutex::acquire`;
`Disown, Clear, LockWaitersList, Pop, Wake` are `release`; `CallWait,
LockWaitersList, Disown ... Push, Sleep, Resume` are `Condition::wait`, with the
complete `Mutex::release` it calls in the middle; `CallSignal, LockWaitersList,
Pop, Wake` are `signal` and `broadcast`. The waiters list is a sequence with the
thread popped next at its head. The holding list is a set: its order matters to
nobody. The walk of `checkForCircularDeadLock` is the set of threads it reaches, found
in one step: the code reads the lists of other threads one after the other and without
a lock (Lock.cpp:167), and what it makes of lists that change meanwhile is not explored.

Clients are any kernel code that nests mutexes in a fixed order (`Rank`) and holds
only the mutex of a condition when it waits on it. The order is an assumption on
the callers, as the code asserts on its violation. That nothing else is held in
`CallWait` is an assumption too: `Condition::wait` (Condition.cpp:43) only warns. Most
callers keep it; `Terminal::backspace` does not, as it waits in `FiFo::get` with the
console locked, which `TerminalInput` models and section 6 describes.

### UserThreads

State: what `UserProcess` and `UserThread` keep about threads, each thread's place
in the kernel, and the cleanup thread's list. `waiters_lock_` and
`thread_list_lock_` are monitors. `joinDeadlock`'s walk is reachability along
`waiting_list_`. A thread may be cancelled only when found in user mode
(`switch_to_userspace_`), by the scheduler or on entry to a system call. In the
page fault handler the flag is cleared before it is tested, so no cancellation
happens there; a fault is an `other` call. `kill` copies the thread list
(`tid_list_`), cancels and joins; `killThreadsSiblings` walks the list itself, a
sorted vector, so its iterator is a position that names another entry once one
before it is erased; past the end it is undefined behaviour, label `stray`.
`Forked` tells the constructor that leaves `cancelable_` unset (zero, as kernel
memory is handed out cleared).

### CopyOnWrite

State: page tables (`page_ppn`, `writeable`), `cow_map_`, used pages and their
contents, and each process's place. Each process has one thread. A fault tests
`ppnShared` twice before `handleCOWPageFault` locks; a fork visits page by page,
mapping into the child, making the parent's entry read-only, then adding both to
the set; an exit leaves all sets, then frees page by page; an execv starts with an
empty table (`SwapLoader`), then frees the pages of the old one (`old_ppn`) as an exit
does, but without leaving the sets. `left` is history: the pages it did not free
because they were shared. System calls and page faults run with interrupts enabled
(InterruptUtils.cpp:291, PageFaultHandler.cpp:41), so the steps of all processes
interleave freely. Contents are abstract values: `ZERO` for a loaded page, `FREED` for
the filling that `PageManager` checks for. Left out are the branch of the handler that
grows a stack (PageFaultHandler.cpp:122), its error exits, which exit the process as
`Exit` does, the translation buffer of the processor and the pages of page tables.

### ProcessRegistry

State: counters and maps of the registry, the life of each process (`phase`), the
place of each thread. Creation is the constructor of `UserProcess` in its
preemptible steps, failure included; `Exit` is `~UserProcess` up to `processExit`,
`RemoveFromWaitPIDMap` the rest. `checkWaitPidDeadlock` recurses through vectors
whose order the model leaves open: when it could meet both the caller and a pid
that is not there, either may come first. A Condition deleted between lookup and
wait is undefined behaviour: the kernel dies, or the memory is the Condition of
another process by then. `cond` says on whose Condition a thread sleeps; in the second
case it is not the process that the thread waits for, and the thread is in `stray`.

### Pipe

State: the fields of `RingBuffer`, the processes that have the pipe in `pipes_`, and
where the thread of each process that holds `pipes_lock_` is. One step is one access
to shared memory: `Put` (with `old_write_pos`), `PutCheck`, `PutStore`, `PutAdvance`
are one turn of the loop of `writeToPipe`, `Get`, `GetCheck`, `GetLoad`, `GetAdvance`
one of `readFromPipe`. `Fork` and `ForkCount` are the copy of `pipes_` in the
constructor of a child and `incProcCount`, `Exit` and `ExitDelete` the loop of
`~UserProcess`. The byte at `(read_pos_ + i) % Size` is the i-th on the way, so the
refinement mapping computes the queue from the positions; `PutAdvance` and
`GetAdvance` are its steps, all others stutter. `Reader` and `Writer` are the
process that reads and the one that writes: with two of a kind in different
processes nothing serialises them.

### KernelHeap

State: the segments by their address, `last_`, and every cell of the memory the heap
manages, so that a header overwritten, a block cleared, or old contents handed out
show. `lock_`, a `SpinLock`, is held over the whole of each operation, which
is one step. `FillSegment`, `Join`, `MergeWithFollowing`, `FreeSegment` follow the
functions of the same names; `Join` is the code that `freeSegment` and
`mergeWithFollowingFreeSegment` have in common. The walk from `first_` is the search
for the smallest address, which is right as `ListConsistent` shows the list to be in
that order. A user writes its mark to all of its block as soon as it has it.
`ksbrk` asserts `DYNAMIC_KMM`, which is 0 (`common/include/mm/PageManager.h:8`), so
an operation that calls it has no step: an allocation for which no segment is large
enough, and the release of the last block of all, where `freeSegment` compares the
size without header with `reserved_min_`.

### Scheduler

State: the thread list, `current`, `block_scheduling_`, thread states, what is left of
the time each sleeper asked for, and the holder of the heap's lock. Only the current
thread takes steps, one for each access that the
timer could come before or after; the timer, while scheduling is not blocked,
switches to the first runnable thread in the list and rotates it. `addNewThread` is
modelled up to each use of the heap: it takes and releases the lock of
`KernelMemoryManager` to be sure that nobody holds it while scheduling is blocked
(`BlockWithHeap`), then `push_back` may allocate. The cleanup thread copies up to
`DestroyMax` dead threads, erasing each from the list as it meets it (`EraseDead`) with
scheduling blocked, and deletes them after. Times are relative: `wakeUp` counts down
with the ticks, and a tick takes one of `Intervals` clocks. `SyscallSleep` and
`SleepUntil` are the two parts of a call of sleep, the second with its early return for
a time that has already come. The time itself is computed from an average of clocks
per tick that a calibration in `incTicks` keeps; this arithmetic is not modelled and the
time is any of `Durations`. The time used by each thread (`incAccTime`) and the
diversion of cancelled threads are left out of `schedule`.

### MinixFS

State on the disk: zones, inodes, the two bitmaps, the entries of the root directory;
in memory: the bitmaps with the positions from which the search for a free bit goes
on, the inodes that are loaded with their zones, and the open files. An inode has
`DIRECT` zones of its own, then a table of zones, then a table of tables; a zone has
`ZONE_SIZE` bytes and a table as many numbers. `SetZone, AddZone, Grown, WriteData,
ReadData, FreeZones` follow the functions of these names; `Create` and `Rm` write
inode and directory to the disk where the code does, everything else stays in memory
until the unmount. `Unmount` writes the bitmaps; `WriteInode` writes the header of the
next inode with its size and, as `readBytes` (MinixFSSuperblock.cpp:403) copies in the
wrong direction, with zone numbers of zero; `WriteNumbers` writes the zone numbers and
`WriteTable` one linking zone after the other; `Unmounted` ends it. `Crash` forgets the
memory between any two of these; `writing` then tells which inode is only there in
part, and such a disk is not mounted again in the model, as the tables of that inode
can hold anything. One call is one step, as in the tool `exe2minixfs`, which compiles
the same code; in the kernel neither `VfsSyscall` nor `MinixFS` takes a lock. So a
crash inside a single write or removal is not modelled.

`Flushed` is what `MinixStorageManager::flush` leaves of a bitmap: the last bits, if
their number is not a multiple of 8 (`BYTE`), are written as 0. `ImageAssumption` states
the sizes for which this does not matter to files: the number of inodes is a multiple
of 8, and there are at least as many blocks before the first data zone as bits in a
byte. Both hold of what mkfs.minix makes, and of both partitions of the image that the
repository comes with (21856 and 14960 inodes; 65535 and 44856 zones, the first data
zone being 696 and 945): the bits at the end of the zone bitmap are those of no zone,
set by mkfs.minix so that they are never allocated. After an unmount of the first
partition seven of them are free. The run has such a bit: `AllocateZone` may hand it out
when the disk is full, and the device then asserts on the access (`OnTheDisk`). The
refinement mapping reads all bytes of each file, from memory or as the next mount will
find them.

### TerminalInput

State: the ring of scancodes with the shift key, the active terminal, the FiFo of
each terminal with its positions and waiters, the thread that has locked the console
for drawing, the key in the hand of the console thread. A pass through the critical
section of the FiFo is one step; a thread that waits is in the sequence of its
condition until it is signalled, then tests again. `NextKey` is one turn of
`Console::Run`, `Write` the echo, `Put` the FiFo's put as `CharacterDevice` configures
it, which overwrites the oldest key. A backspace locks the console, asks
`countElementsAhead` (`Backspace`) and takes a key (`TakeBack`). `echoed` and `out`
are history.

## 4. Runs

| Run | Checks | Instance, distinct states |
|---|---|---|
| `locks` | mutual exclusion, assertions, no lost wakeup, no lost signal, the sleep/wake handshake, no deadlock inside the classes, refinement of `Monitor` | 3 threads, 2 mutexes, 1 condition, symmetric threads; 216,437 |
| `locks_fair` | a thread on a waiters list is taken off it | 3 threads, 1 mutex, 1 condition; 131,917 |
| `threads` | assertions, no circle of joiners, no lost join, nobody outlives the process, exit once, exit completes unless a call never returns | 3 threads, 3 programs; 110,152 |
| `cow` | no used page is left unmapped, except by execv; no process is in a set of sharers when its page table goes | 3 processes, 1 page each, 2 physical pages, all overlaps; 921,404 |
| `cow_freed_in_use` | **violated**: nobody writes to a free page | 2 processes, all overlaps |
| `cow_assertion` | **violated**: a process whose fault is handled is in the set of the page | 2 processes, all overlaps |
| `registry` | no circle of waiting processes, no missed death, waitpid(-1) reports a dead process, unmount last, shutdown | pids 0..3, one thread each, 2 programs; 511,916 |
| `pipe` | refinement of `BoundedQueue`, the buffer lives as long as a process has it and no longer | 3 processes, 4 positions, 2 values; 127,552 |
| `heap` | the list of segments, the assertions on markers and on zeroed memory, contents of blocks | 50 cells, header of 7, alignment 2, 3 users, requests of 0, 1, 4 and 9 cells; 346,990 |
| `scheduler` | scheduling is blocked briefly, the running thread exists, sleepers sleep long enough, nobody starves | 3 threads besides cleanup and idle; 123,468 |
| `minix` | owners of zones, enough zones, consistency of the disk at every moment, refinement of `ByteFiles` | 2 files, 1 descriptor, zones of 2 bytes, 8 data zones and one bit too many, 2 mounts, 2 creations, 4 writes; 793,710 |
| `input` | keys come out as echoed, nobody waits for what is there | 2 readers, 2 terminals, a FiFo of 3 positions, a ring of 2, 4 keys, 1 backspace written; 501,784 |

Bounds and why they are enough to meet the cases:

- locks: three threads are a holder, a releaser that has already given up the word
  and a late arrival, the smallest number for every race of the second test-and-set;
  two mutexes nest, so that circular waiting could arise; one condition with two
  waiters and a signaller.
- threads: `MaxTid = 2` gives three threads: a circle of three joiners, and for
  `execv` a sibling before and one after the erased entry. The programs restrict who
  calls what: in `JoinRing` no thread is joined by two others and in `ExitByOne` one
  thread calls exit, for the reasons in section 6.
- copy on write: three processes reach all cases of `handleCOWPageFault` (a set of
  one, two, more) and a fork, a fault and an exit that overlap; a second physical page
  is what a copy needs. Out of pages the kernel halts, so states beyond are not reached.
- registry: pid 0 is never waited for, so a circle of three needs pids 1 to 3.
- pipe: four positions hold three bytes, so both positions wrap around and meet; the
  third process lets one end exit while the pipe is passed on.
- heap: a cell is 8 bytes, so a header of 56 bytes and the alignment of 16 keep their
  ratio, in which a remainder can be too small for a header, exactly a header, or
  larger; three blocks have a used or free neighbour on both sides, at the start, in
  the middle and at the end of the heap.

- scheduler: three threads are one that holds the heap's lock, one that adds and one
  that dies; `DestroyMax = 1` leaves a dead thread for the next round; a time to sleep of
  3 with ticks of 2 outlasts a tick and ends between two, one of 0 has passed at once.
- minix: with one direct zone and two numbers in a table, the zones that four writes
  of one or three bytes add (at least one each) reach the indirect and the double
  indirect table, and writes start and end inside zones; two creations and a removal reuse
  numbers. A byte of a bitmap has two bits, so that the eleventh of the zones' is lost.
- input: a FiFo of three positions holds two keys, so four keys fill it, overwrite
  and wrap around; a line is two keys, so a reader returns with and without newline.

Deadlock checking is off everywhere: threads may all sleep until a user acts, all
processes may have ended, and the bounds end behaviours.

## 5. Fairness

The scheduler is round robin over all runnable threads, the cleanup thread among
them, so steps of a thread inside the kernel are weakly fair (`locks_fair`,
`threads`, `registry`). For mutexes we also assume that a holder comes to release
them, as kernel code does: strong fairness of `CallRelease`, since in between it may
wait or signal. Nothing is assumed to make a thread leave user mode in `threads`:
a cancelled thread is diverted by the scheduler, which is a kernel step. Nor is
anything assumed to make a call return that `threads` does not model (label `other`): a
thread in read or waitpid may block for ever, and is diverted in user mode only.
`ExitCompletes` says so: exit ends with the process deleted, or some thread stays in
such a call, for which kill waits. In
`registry` a program is assumed to end after finitely many calls, though between
two of them it may be in a call: strong fairness of `Exit`. `ShutsDown` makes
exceptions for a kernel that died and for threads that wait for something that may
never come: waitpid(-1) with no other process, createprocess with sleep while the
count stays up.

In `scheduler` the timer ticks and the processor executes the current thread, both
weakly fair; nothing is assumed of the order of threads, which is what `NobodyStarves`
is about. In `input` steps inside the kernel are weakly fair, typing and calls of
programs are not fair at all.

## 6. Where code and expectation part

The runs `cow_freed_in_use` and `cow_assertion` show counterexamples; the others of this
section were found with the same modules.

- `cow_freed_in_use`: between leaving the sets and freeing, the last sharer may take
  a page over, which the exiting process then frees under it.
- `cow_assertion`: two sharers write to a page at once. Both faults find it shared
  (PageFaultHandler.cpp:83); the one that is handled first copies the page, makes the
  other's entry writeable and takes both out of the set, and the second then fails the
  assertion that it is in the set (COWManager.cpp:79). If it comes a little later, at
  the first test, it finds the page not shared any more and exits the process for a
  write that was valid.
- Since a fault can change the entry of a process that is in the middle of a fork, a
  page can also be writeable and shared: the other sharer makes the parent's entry
  writeable again after the fork made it read-only, before it adds both to the set. So
  with overlapping calls nothing keeps the memory of processes apart for sure.
- Joining the killer: `kill` joins the other threads, but the join with a thread that
  waits for the killer is refused as a deadlock, and the killer then exits without a
  return value and without a signal (UserProcess.cpp:683). The joiner sleeps for ever,
  the process is never deleted: TLC refutes `ExitCompletes` for the program
  `{<<0, "create", NoTid>>, <<0, "kill", NoTid>>, <<1, "join", 0>>}`.
- `OnlyThreadThatSurvives` of `UserThreads`, refuted for `ExecvByMain`:
  `killThreadsSiblings` (:761) keeps an iterator while it releases the lock; when the
  joined thread is erased, the next entry is skipped and survives.
- `UnknownPidIsRefused` of `ProcessRegistry`, refuted with three pids: the search for
  circles looks up pids with `map::at` before it is tested that they exist.
- `UnmountKeepsFiles` of `MinixFS`, refuted with `Crashes = FALSE`: create two files,
  remove the first, unmount. `getInode` (MinixFSSuperblock.cpp:114) refuses inode
  numbers from the number of used inodes on, so the second file, whose number is now
  as large, is erased from the directory at the next mount, with a message that
  suspects an improper unmount (MinixFSInode.cpp:414).
- execv of a process that shares pages: it stays in the sets of its old pages, which
  the last sharer then does not free (`OnlyExecvLeaks`). Even without overlap a page
  can then be writeable and shared: fork, execv, load the same page again, fork; the
  first child's write finds the parent in the set of the old page and makes its entry
  writeable, which is that of the page it shares with the second child.
- A Condition that is deleted between `getCondToWait` and `wait` (UserThread.cpp:227-233):
  the kernel halts, or, if the memory is another process's Condition by then, the
  thread sleeps until that one dies. `NoDeathMissed` names these threads (`stray`) and
  shows that nobody else misses a death.
- backspace: `countElementsAhead` (FiFo.h:169, "Returns the number of elements in the
  fifo buffer") computes with unsigned numbers, so that an empty buffer whose positions
  have wrapped around counts as full; and a reader may take the last key between the
  count and the get. `backspace` then waits for a key with the console locked, and if
  it is the console thread nobody will put one. `KeysAreServed` names this case
  (`BackspaceWaits`). Also, it takes the oldest key where the user means the newest, a
  program that writes a backspace eats a key, and the typed backspace itself goes into
  the buffer as well.
- The shift key is looked at when the console thread gets to a key, not when the key
  is pressed. Two threads that read lines from one terminal share out its characters.

Served in turn is not the same as getting the mutex: `release` wakes a waiter but
hands nothing over, and a newcomer may win the test-and-set again and again. With two
nested mutexes TLC therefore refutes `WaitersAreServed`: the thread that holds the
outer one keeps losing the inner one, and whoever waits for the outer one waits for
ever. `locks_fair` uses one mutex.

Further disagreements that have no run of their own. Two threads that join the same
third thread pass the tests
in turn if the first has been signalled but has not run yet. Two threads can pass
the test of `called_exit_` in `kill` (UserProcess.cpp:632) before either sets it
(:639) and then share one `tid_list_`. The main thread of a forked process can not
be cancelled (`Forked = TRUE`), so that `exit` by another of its threads waits until
it exits by itself.

Of pipes: closing one end sets a copy of the entry of `pipes_` only
(UserProcess.cpp:905-938), so the end stays usable and the process stays in the
count; a fork that fails after the copy never counts itself out, and the buffer stays
(`BufferLives` leaves such runs out); `openPipe` increments `fd_num_` without
`fds_lock_`. Of the heap: a block that is cut before a free segment leaves two free
segments side by side until one of their neighbours is freed, so "free neighbours
are merged" is not an invariant. Of the clock: `clock` and sleep divide by
`getCurrentAVGClocksPerInterrupt` (Scheduler.cpp:331), which runs with interrupts
enabled. It is zero, or divides by zero itself, before the second tick; if a tick
starts a calibration, which sets `clocks_per_interrupt_` to 0, between the test at line
333 and the load at 335; and if the first calibration ends between the tests at 333 and
337. These are seen by reading, as the calibration is not modelled.

Of MinixFS: overlapping calls can get the same bit from `allocZone`, as it tests and
sets without a lock; the last bits of a bitmap whose size is not a multiple of 8 are
lost when it is written, so that zones beyond the end of the first partition can be
handed out; a crash in an unmount leaves an inode with a size and no zones, or with
tables that hold old data; `allocInode` does not end when all inodes are in use and its
search starts at 0; a new zone of the directory is not cleared. In `writeData` the
branch for a write after the end of a file would write zeros to the wrong zones;
`ZonesSuffice` shows that it is not reached, as there is no system call that moves the
offset. A forked process gets copies of the open files by value (UserProcess.cpp:85),
so that what it inherits reads no bytes.

## 7. What is proved

For any set of threads, locks, processes and pages and any size, unless a hypothesis
is named. Assumptions on constants are the named ASSUME of each component's module;
TLC evaluates them on every run.

- `KernelLocksProofs`: `MutualExclusion`, `NoLostWakeup`, `WakeOnlyPopped`,
  `NoLostSignal`, `AssertionsHold`, `NoDeadlockInLocks` and the refinement
  `ImplementsMonitor`. Assumed: a
  condition has a mutex and mutexes have ranks (`LocksAssumption`); that clients
  respect the ranks is in the guards of `CallAcquire` and `CallWait`. The invariants
  build on each other: types; who is inside a call on which
  lock; who holds the spinlock of a list (only then may the list change); who owns
  the word (`held_by_`, holding lists and the two gaps around them); where a
  dormant thread is listed. `NoLostWakeup` needs that a thread that
  will sleep tested the word with the list locked, so a releaser that clears it
  later must find the list changed. The circular check never fires because a thread
  that waits for `m` holds only smaller ranks, so the chain of holders rises.
  `NoDeadlockInLocks` looks at a state in which nobody can step. The wakee of a thread
  in `wake` is dormant or on its way to be, so that `wake` goes on; a thread that spins
  on a list lock has a holder inside the list's labels, all of which go on, except
  where `Condition::wait` releases its mutex with the condition's list locked, and
  there the list it spins on belongs to a mutex, whose holder goes on; a thread asleep
  on a free mutex contradicts `NoLostWakeup`. The property says with `CanStep` which
  guards keep a thread from its step, as the prover does not reach ENABLED; TLC finds
  `CanStep(t)` and `ENABLED Step(t)` equal in all the states of the run `locks`.
  For the refinement, mutual exclusion makes the owner that the mapping chooses
  unique; the winning test-and-set is the abstract acquire, the store that frees the
  word the abstract release or wait, the pop of a condition's list the notify, and
  all else stutters. It is this theorem that lets the other models treat a block
  under a mutex as one step.
- `UserThreadsProofs`: `JoinAcyclic`, `LiveThreadsListed` and `ExitsOnce`, for every
  program. A join adds an edge only if the walk from the caller does not meet the
  target; a set closed under the walk that does not hold the target separates old
  circles from the new edge. For the other two the invariant ties the thread list,
  the return values and the destroy list to where each thread is: only a thread in
  `exit` or later has left a value, only a dead one is erased. `AssertionsHold` and
  `NoLostJoin` do not hold for every program (section 6). They are proved under a
  hypothesis on `Programs` each, and both hold of the programs TLC runs: `OneJoiner`, no two
  threads wait for the same one (joins by `kill` and `execv` included), and
  `KillersNotJoined`, nobody waits for a thread that calls exit. The invariant adds that a sleeping
  joiner is the registered waiter of a thread that has not passed `exitThread`, and
  that the value a woken one comes for is still there.
- `ProcessRegistryProofs`: `WaitGraphAcyclic` and `NoDeathMissed` (the Condition a
  thread sleeps on has not been deleted, and is that of the process it waits for unless
  the thread is in `stray`). Entries of past
  waits stay in the graph; the same closed-set argument applies since an edge is
  added only if no path from its target leads back. `AnyPidIsDead` and
  `UnmountedLast`: `progs_running_` is the number of processes on `process_list_` at
  every step, each running process is on it, a creator's process is its own and on
  the list from `processStart` on, and a pid that died is never given out again.
- `SchedulerProofs`: `BlockedBriefly`. `block_scheduling_` is set while, and only
  while, the current thread is at a label inside the blocked section, so no other
  thread can have taken it there; the lock of the heap is held at its labels only, and
  `BlockWithHeap` leaves it free when `push_back` may need it. Two more facts keep
  this inductive: a thread to be added has not started and has one creator, and a
  thread to be destroyed has nothing left to do, so no step moves it back inside.
  `RunningThreadsExist`: every thread that was started is in `threads_` or in the
  list to be destroyed, through the rotation of `schedule` and the erasing of
  positions. `SleepsLongEnough`: whoever runs has no time left to wait, unless it has
  yet to give up the processor. The first runnable thread of the list is a
  least element, which the well-foundedness of the naturals provides. `SchedulerTypes`
  is `TypeOK`. `AlwaysSchedulable` is the assertion at Scheduler.cpp:102, that a
  schedulable thread is found: the idle thread is in the list at every step, in state
  Running and without a time to wait for. `RoundRobin` is an action property and the
  reason for `NobodyStarves`: a thread that can run is never overtaken. It moves up
  the list when the processor goes to another thread, and at every tick that finds
  scheduling unblocked, as the threads that `schedule` passes by cannot run; erasing
  dead threads and adding new ones leaves the order of the others alone.
- `CopyOnWriteProofs`, however calls overlap: types, `OnlyExecvLeaks` and
  `SharersAlive`, from what each fork, exit and execv has still to visit and from that a
  process in a set maps the page or left it in an execv. The invariant ties a child to
  the one fork that makes it, and a fault to an entry that nobody but the process
  itself replaces.
- `PipeProofs`: `ImplementsQueue` for any size of the ring, from the agreement of the
  positions with what each end has read before; modulus is replaced by a case
  distinction once, in `UsedIs` and `PlaceIs`. `BufferLives` for any processes: the
  counter is the number of those with the pipe, less a child not counted yet.
  `PipeTypes` follows: the positions stay in the ring and the count above zero.
- `KernelHeapProofs`: `ListConsistent`, `AssertionsHold` and `BlocksIntact` for any
  sizes of heap, header, alignment and requests. `HeapInv` says of the heap: each
  segment's neighbours point back to it and begin where it ends; of two segments the
  one at the lower address ends before the other begins; a cell holds a header's
  marker exactly if it is in one; a free segment that was used before is zero; the last
  segment is not empty. And of the users: each block is in a used segment of its own. One lemma per
  operator (`FillSegment`, `Join`, `FreeSegment`...) says that it keeps this and
  leaves every other used segment and its contents alone, and the steps compose them.
  The marker property is what needs the rest: a merge clears the markers of a segment
  that disappears and no other cell outside it.
- `TerminalInputProofs`: `KeysComeOutAsEchoed` for FiFos of any size and any readers,
  with the overwriting put and the backspace that takes a key back. `NoKeyIsStranded`
  is what `KeysAreServed` rests on: while somebody sleeps on a FiFo, there are at least
  as many woken threads that have yet to look into it as there are keys. `put` adds at
  most one key and wakes one sleeper; a thread that takes a key may be woken or not,
  but only a woken one lowers the number of the woken; and a thread goes to sleep on an
  empty FiFo only. The invariant adds that who is in a condition's list is there once
  and waits on that FiFo, which for the console thread needs that the terminal is not
  switched while it waits. Threads are finitely many (`InputAssumption`).

Only model-checked: everything temporal beyond invariants and refinements of safety
(`WaitersAreServed`, `ExitCompletes`, `ShutsDown`, `NobodyStarves`, `KeysAreServed`),
as liveness under fairness is out of the prover's reach (`Wakeups` and `Signals`,
`RoundRobin` and `NoKeyIsStranded` prove the part of it that is safety); and `MinixFS`
with its refinement, whose operators fold over the zones of a file and the bits of a
bitmap, so that a proof is an induction over data.

## 8. Abstractions

Names, contents of pages, executables and descriptors are abstract. Pids and tids
are bounded (`MaxPid`, `MaxTid`): creation fails beyond, as it does without memory.
Stacks of threads and their random placement, the contents of the screen and
debugging output are left out. In `UserThreads` the cleanup thread collects all dead
threads at once where the code stops after 1024 (`DestroyMax` of `Scheduler`).

## 9. Not modelled

- Directories other than the root, paths and mount points; RamFS and DeviceFS:
  sequential, without allocation or recovery.
- ELF parsing, key maps, formatting: conversions of data without state.
- The drivers of disks, serial ports and displays: their behaviour is that of
  hardware outside the repository.
- `ASLRStackManager` (UserProcess.cpp:281 only refuses a stack that is identical to
  another): its placement is random over addresses, with nothing to enumerate.
- `chardev.h`'s output FiFo, `FiFo::clear`, `peekAhead`, `acquireNonBlocking` of
  `SpinLock`, the growth of the heap (`DYNAMIC_KMM` is 0): no code reaches them.
- The vendored uSTL, the USB stack and the rest of the ARM ports, the 32-bit port, the
  readers of debug information in `utils`, and the user-space library and programs.
  These are the greater part of the repository's lines, so the share of lines that the
  map names stays small although the parts of the x86-64 kernel with shared state are
  nearly all there.
