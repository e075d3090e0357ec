-------------------------- MODULE SchedulerProofs ---------------------------
(***************************************************************************)
(* Scheduling is blocked by the thread that runs, which never has to wait, *)
(* no thread is chosen before its time or after its end, there is always   *)
(* one to choose, and nobody who can run is overtaken: for any set of      *)
(* threads, and any calibration of the clock.                              *)
(***************************************************************************)
EXTENDS Scheduler, WellFoundedInduction, SequenceTheorems, TLAPS

\* Where scheduling is blocked, where the lock of the heap is held, and where a
\* thread has one to add.
BlockLabels == {"add_release", "add_push", "add_realloc", "add_grown", "add_unlock",
                "clean_erase", "clean_unlock"}
HeapLabels == {"add_lock", "add_release", "add_realloc", "heap_locked", "clean_free"}
AddingLabels == AddLabels \ {"add_unlock"}

\* The types that the argument needs.  That current is a thread is not one of
\* them: only threads take steps.
Types ==
    /\ block_scheduling_ \in BOOLEAN
    /\ pc \in [Threads -> Labels]
    /\ state \in [Threads -> {"Running", "Sleeping", "ToBeDestroyed"}]
    /\ newThread \in [Threads -> UserThreads \cup {NULL}]

\* block_scheduling_ is set while, and only while, the current thread is at one
\* of these labels, and no other thread is.
BlockInv ==
    /\ block_scheduling_ = TRUE => current \in Threads /\ pc[current] \in BlockLabels
    /\ \A t \in Threads : pc[t] \in BlockLabels => block_scheduling_ = TRUE /\ current = t

\* The lock of the heap is held at these labels, and not when push_back may
\* need it.
HeapInv ==
    /\ \A t \in Threads : pc[t] \in HeapLabels <=> kmm = t
    /\ kmm \in Threads \cup {NULL}
    /\ \A t \in Threads : pc[t] = "add_push" => kmm = NULL

\* A thread to be added is not there yet, and is added once.
AddInv ==
    /\ \A t \in Threads : pc[t] \in AddingLabels => newThread[t] # NULL
    /\ \A t \in Threads : newThread[t] # NULL => pc[newThread[t]] = "none"
    /\ \A t, u \in Threads : newThread[t] = newThread[u] /\ newThread[t] # NULL => t = u

\* A thread that is to be destroyed has nothing left to do.
DeadInv ==
    /\ \A t \in Threads : state[t] = "ToBeDestroyed" => pc[t] = "dying"
    /\ \A t \in Threads \cap destroy_list : pc[t] = "dying"

Inv == Types /\ BlockInv /\ HeapInv /\ AddInv /\ DeadInv

-----------------------------------------------------------------------------
(* The least element of a set *)

Less == OpToRel(<, Nat)

\* The relation of the library's theorems is the order of numbers.
LEMMA LessIs == \A m, n \in Nat : <<m, n>> \in Less <=> m < n
  BY DEF Less, OpToRel

\* Nat is well founded, so that the first thread that is runnable, or dead, is
\* one of them.
LEMMA MinIs ==
  ASSUME NEW S \in SUBSET Nat, S # {}
  PROVE  Min(S) \in S /\ \A y \in S : Min(S) <= y
<1>1. IsWellFoundedOn(Less, Nat)
  BY NatLessThanWellFounded DEF Less
<1>2. PICK x \in S : \A y \in S : ~(<<y, x>> \in Less)
  BY <1>1, WFMin
<1>3. ASSUME NEW y \in S
      PROVE  x <= y
  <2>1. x \in Nat /\ y \in Nat
    OBVIOUS
  <2>2. ~(y < x)
    BY <1>2, <2>1, LessIs
  <2>3. QED
    BY <2>1, <2>2
<1>4. QED
  BY <1>3 DEF Min

-----------------------------------------------------------------------------
(* Blocking, the heap, and the threads that are added *)

\* The thread that the timer or a yield chooses finds scheduling as the last
\* one left it: with it blocked, the current thread stays.
LEMMA ScheduleKeepsBlock ==
  ASSUME Types, BlockInv, NEW w, Schedule(w)
  PROVE  (block_scheduling_ = TRUE => current' = current)
  BY DEF Schedule, Blocked, Types, queueVars

\* The cleanup and the idle thread are threads, and no user threads.
LEMMA ThreadFacts ==
  /\ NULL \notin Threads /\ Cleanup \in Threads /\ Idle \in Threads
  /\ UserThreads \subseteq Threads /\ Cleanup \notin UserThreads
  BY SchedulerAssumption DEF Threads, KernelThreads

\* The program starts with scheduling unblocked and the heap free.
LEMMA InitInv == ASSUME Init PROVE Inv
  BY ThreadFacts DEF Init, Inv, Types, BlockInv, HeapInv, AddInv, DeadInv, Labels, AddLabels,
     AddingLabels, BlockLabels, HeapLabels, Threads, KernelThreads

\* A step that leaves the heap, the threads and their states alone, and takes
\* the current thread to a label where nothing is blocked, held or added.
LEMMA QuietStep ==
  ASSUME Inv, NEW t \in Threads, current = t,
         NEW l \in Labels \ (BlockLabels \cup HeapLabels \cup AddingLabels \cup {"none"}),
         pc[t] \notin BlockLabels \cup HeapLabels \cup {"none"},
         pc[t] = "dying" => l = "dying",
         pc' = [pc EXCEPT ![t] = l],
         UNCHANGED <<block_scheduling_, kmm, state, newThread, destroy_list>>
  PROVE  Inv'
<1>1. Types' /\ BlockInv'
  BY DEF Inv, Types, BlockInv
<1>2. HeapInv'
  BY DEF Inv, Types, HeapInv, BlockLabels
<1>3. AddInv' /\ DeadInv'
  BY ThreadFacts DEF Inv, Types, AddInv, DeadInv
<1>4. QED
  BY <1>1, <1>2, <1>3 DEF Inv

\* The timer changes no thread's place; it chooses only when nothing is blocked.
LEMMA TickInv == ASSUME Inv, NEW d, Tick(d) PROVE Inv'
<1>1. block_scheduling_ = TRUE => current' = current
  BY ScheduleKeepsBlock DEF Inv, Tick
<1>2. UNCHANGED <<block_scheduling_, kmm, pc, newThread, destroy_list, state>>
  BY DEF Tick
<1>3. QED
  BY <1>1, <1>2 DEF Inv, Types, BlockInv, HeapInv, AddInv, DeadInv

\* A thread that does not hold the lock gets it, or yields and tries again.
LEMMA AcquireInv ==
  ASSUME Inv, NEW t \in Threads, current = t, NEW from, NEW to,
         \/ from = "add_kmm" /\ to = "add_lock"
         \/ from = "add_push" /\ to = "add_realloc"
         \/ from = "heap" /\ to = "heap_locked"
         \/ from = "clean_delete" /\ to = "clean_free",
         Acquire(t, from, to)
  PROVE  Inv'
<1>1. CASE kmm = NULL /\ kmm' = t /\ Goto(t, to) /\ UNCHANGED queueVars
  <2>0. UNCHANGED <<block_scheduling_, state, newThread, destroy_list, current>> /\ pc[t] = from
    BY <1>1 DEF Acquire, threadVars, queueVars
  <2>1. Types' /\ BlockInv'
    BY <1>1, <2>0 DEF Inv, Types, BlockInv, Goto, BlockLabels, Labels, AddLabels
  <2>2. HeapInv'
    BY <1>1, <2>0, ThreadFacts DEF Inv, Types, HeapInv, BlockInv, Goto, BlockLabels, HeapLabels
  <2>3. AddInv' /\ DeadInv'
    BY <1>1, <2>0, ThreadFacts DEF Inv, Types, AddInv, DeadInv, Goto, AddingLabels, AddLabels
  <2>4. QED
    BY <2>1, <2>2, <2>3 DEF Inv
<1>2. CASE kmm # NULL /\ YieldTo(t, from) /\ UNCHANGED kmm
  <2>1. pc' = pc /\ UNCHANGED <<block_scheduling_, state, newThread, destroy_list>>
    BY <1>2 DEF Acquire, YieldTo, Goto, Inv, Types, threadVars
  <2>2. block_scheduling_ = TRUE => current' = current
    BY <1>2, ScheduleKeepsBlock DEF YieldTo, Inv
  <2>3. QED
    BY <1>2, <2>1, <2>2 DEF Inv, Types, BlockInv, HeapInv, AddInv, DeadInv
<1>3. QED
  BY <1>1, <1>2 DEF Acquire

\* The release of the heap's lock, wherever it was taken.
LEMMA ReleaseInv ==
  ASSUME Inv, NEW t \in Threads, current = t, NEW from, NEW to,
         \/ from = "add_release" /\ to = "add_push"
         \/ from = "add_realloc" /\ to = "add_grown"
         \/ from = "heap_locked" /\ to = "run",
         Release(t, from, to)
  PROVE  Inv'
<1>0. /\ UNCHANGED <<block_scheduling_, state, newThread, destroy_list, current>>
      /\ pc[t] = from /\ kmm' = NULL /\ pc' = [pc EXCEPT ![t] = to]
  BY DEF Release, threadVars, queueVars, Goto
<1>1. Types' /\ BlockInv'
  BY <1>0 DEF Inv, Types, BlockInv, BlockLabels, Labels, AddLabels
<1>2. HeapInv'
  BY <1>0, ThreadFacts DEF Inv, Types, HeapInv, HeapLabels
<1>3. AddInv' /\ DeadInv'
  BY <1>0, ThreadFacts DEF Inv, Types, AddInv, DeadInv, AddingLabels, AddLabels
<1>4. QED
  BY <1>1, <1>2, <1>3 DEF Inv

\* Scheduling is blocked by one thread at a time.
LEMMA LockInv ==
  ASSUME Inv, NEW t \in Threads, current = t, NEW from, NEW to,
         \/ from = "add_lock" /\ to = "add_release"
         \/ from = "clean_lock" /\ to = "clean_erase",
         LockScheduling(t, from, to)
  PROVE  Inv'
<1>0. /\ UNCHANGED <<kmm, state, newThread, destroy_list, current>>
      /\ pc[t] = from /\ block_scheduling_ = FALSE /\ block_scheduling_' = TRUE
      /\ pc' = [pc EXCEPT ![t] = to]
  BY DEF LockScheduling, threadVars, queueVars, Goto
<1>1. Types' /\ BlockInv'
  BY <1>0 DEF Inv, Types, BlockInv, BlockLabels, Labels, AddLabels
<1>2. HeapInv'
  BY <1>0, ThreadFacts DEF Inv, Types, HeapInv, HeapLabels
<1>3. AddInv' /\ DeadInv'
  BY <1>0, ThreadFacts DEF Inv, Types, AddInv, DeadInv, AddingLabels, AddLabels
<1>4. QED
  BY <1>1, <1>2, <1>3 DEF Inv

\* Scheduling is unblocked by the thread that blocked it.
LEMMA UnlockInv ==
  ASSUME Inv, NEW t \in Threads, current = t, NEW from, NEW to,
         \/ from = "add_unlock" /\ to = "run"
         \/ from = "clean_unlock" /\ to = "clean_delete",
         UnlockScheduling(t, from, to)
  PROVE  Inv'
<1>0. /\ UNCHANGED <<kmm, state, newThread, destroy_list, current>>
      /\ pc[t] = from /\ block_scheduling_' = FALSE
      /\ pc' = [pc EXCEPT ![t] = to]
  BY DEF UnlockScheduling, threadVars, queueVars, Goto
<1>1. Types' /\ BlockInv'
  BY <1>0 DEF Inv, Types, BlockInv, BlockLabels, Labels, AddLabels
<1>2. HeapInv'
  BY <1>0, ThreadFacts DEF Inv, Types, HeapInv, HeapLabels
<1>3. AddInv' /\ DeadInv'
  BY <1>0, ThreadFacts DEF Inv, Types, AddInv, DeadInv, AddingLabels, AddLabels
<1>4. QED
  BY <1>1, <1>2, <1>3 DEF Inv

\* push_back makes the new thread run; no other thread is adding it.
LEMMA PushBackInv == ASSUME Inv, NEW t \in Threads, current = t, PushBack(t) PROVE Inv'
<1> DEFINE u == newThread[t]
<1>0. /\ UNCHANGED <<kmm, block_scheduling_, destroy_list, current>>
      /\ pc[t] \in {"add_push", "add_grown"}
      /\ state' = [state EXCEPT ![u] = "Running"]
      /\ pc' = [pc EXCEPT ![t] = "add_unlock", ![u] = "run"]
      /\ newThread' = [newThread EXCEPT ![t] = NULL]
  BY DEF PushBack
<1>1. u \in Threads /\ pc[u] = "none" /\ u # t
  BY <1>0, ThreadFacts DEF Inv, Types, AddInv, AddingLabels, AddLabels
<1>2. Types' /\ BlockInv'
  BY <1>0, <1>1 DEF Inv, Types, BlockInv, BlockLabels, Labels, AddLabels
<1>3. HeapInv'
  BY <1>0, <1>1 DEF Inv, Types, HeapInv, HeapLabels
<1>4. AddInv'
  BY <1>0, <1>1, ThreadFacts DEF Inv, Types, AddInv, AddingLabels, AddLabels
<1>5. DeadInv'
  BY <1>0, <1>1 DEF Inv, Types, DeadInv
<1>6. QED
  BY <1>2, <1>3, <1>4, <1>5 DEF Inv

\* A thread asks for another to be added.
LEMMA AddNewThreadInv ==
  ASSUME Inv, NEW t \in Threads, current = t, NEW u \in UserThreads, AddNewThread(t, u)
  PROVE  Inv'
<1>0. /\ UNCHANGED <<kmm, block_scheduling_, state, destroy_list, current>>
      /\ pc[t] = "run" /\ pc[u] = "none" /\ \A v \in Threads : newThread[v] # u
      /\ pc' = [pc EXCEPT ![t] = "add_kmm"]
      /\ newThread' = [newThread EXCEPT ![t] = u]
  BY DEF AddNewThread, threadVars, queueVars, Goto
<1>1. Types' /\ BlockInv'
  BY <1>0 DEF Inv, Types, BlockInv, BlockLabels, Labels, AddLabels
<1>2. HeapInv' /\ DeadInv'
  BY <1>0 DEF Inv, Types, HeapInv, HeapLabels, DeadInv
<1>3. AddInv'
  BY <1>0, ThreadFacts DEF Inv, Types, AddInv, AddingLabels, AddLabels
<1>4. QED
  BY <1>1, <1>2, <1>3 DEF Inv

\* Sleeping, waking and ending change states of threads that are not blocked.
LEMMA StateInv ==
  ASSUME Inv, NEW t \in Threads, current = t,
         Sleep(t) \/ Kill(t) \/ \E u \in UserThreads : Wake(t, u)
  PROVE  Inv'
<1>1. CASE \E u \in UserThreads : Wake(t, u)
  <2>1. PICK u \in UserThreads : Wake(t, u)
    BY <1>1
  <2>2. /\ UNCHANGED <<kmm, block_scheduling_, pc, newThread, destroy_list, current>>
        /\ state' = [state EXCEPT ![u] = "Running"]
    BY <2>1 DEF Wake, queueVars
  <2>3. QED
    BY <2>2 DEF Inv, Types, BlockInv, HeapInv, AddInv, DeadInv
<1>2. CASE Sleep(t) \/ Kill(t)
  <2>0. PICK s \in {"Sleeping", "ToBeDestroyed"}, l \in {"sleep", "dying"} :
          (s = "ToBeDestroyed" => l = "dying") /\ SetState(t, s, l)
    BY <1>2 DEF Sleep, Kill
  <2>1. /\ UNCHANGED <<kmm, block_scheduling_, newThread, destroy_list, current>>
        /\ pc[t] = "run" /\ pc' = [pc EXCEPT ![t] = l]
        /\ state' = [state EXCEPT ![t] = s]
    BY <2>0 DEF SetState, queueVars, Goto
  <2>2. Types' /\ BlockInv'
    BY <2>1 DEF Inv, Types, BlockInv, BlockLabels, Labels
  <2>3. HeapInv'
    BY <2>1 DEF Inv, Types, HeapInv, HeapLabels
  <2>4. AddInv' /\ DeadInv'
    BY <2>0, <2>1, ThreadFacts DEF Inv, Types, AddInv, DeadInv, AddingLabels, AddLabels
  <2>5. QED
    BY <2>2, <2>3, <2>4 DEF Inv
<1>3. QED
  BY <1>1, <1>2

\* Only threads that are to be destroyed are erased and deleted.
LEMMA CleanupInv ==
  ASSUME Inv, threads_ \in Seq(Threads), current = Cleanup, CleanupDeadThreads
  PROVE  Inv'
<1> USE ThreadFacts
<1>1. CASE LockScheduling(Cleanup, "clean_lock", "clean_erase")
  BY <1>1, LockInv
<1>2. CASE EraseDead
  <2>1. Dead \in SUBSET Nat /\ Dead # {}
    BY <1>2 DEF EraseDead, Dead
  <2>2. PICK i \in Dead : i = Min(Dead)
    BY <2>1, MinIs
  <2>3. threads_[i] \in Threads /\ state[threads_[i]] = "ToBeDestroyed"
    BY DEF Dead
  <2>4. /\ UNCHANGED <<kmm, block_scheduling_, newThread, state, pc, current>>
        /\ destroy_list' = destroy_list \cup {threads_[i]}
    BY <1>2, <2>2 DEF EraseDead, threadVars
  <2>5. QED
    BY <2>3, <2>4 DEF Inv, Types, BlockInv, HeapInv, AddInv, DeadInv
<1>3. CASE EraseDone
  <2>0. /\ UNCHANGED <<kmm, block_scheduling_, newThread, state, destroy_list, current>>
        /\ pc[Cleanup] = "clean_erase" /\ pc' = [pc EXCEPT ![Cleanup] = "clean_unlock"]
    BY <1>3 DEF EraseDone, threadVars, queueVars, Goto
  <2>1. Types' /\ BlockInv'
    BY <2>0 DEF Inv, Types, BlockInv, BlockLabels, Labels
  <2>2. HeapInv' /\ AddInv'
    BY <2>0 DEF Inv, Types, HeapInv, HeapLabels, AddInv, AddingLabels, AddLabels
  <2>3. DeadInv'
    BY <2>0 DEF Inv, Types, DeadInv
  <2>4. QED
    BY <2>1, <2>2, <2>3 DEF Inv
<1>4. CASE UnlockScheduling(Cleanup, "clean_unlock", "clean_delete")
  BY <1>4, UnlockInv
<1>5. CASE Acquire(Cleanup, "clean_delete", "clean_free")
  BY <1>5, AcquireInv
<1>6. CASE DeleteThread
  <2>0. PICK t \in destroy_list :
          /\ destroy_list' = destroy_list \ {t}
          /\ state' = [state EXCEPT ![t] = "Running"]
          /\ pc' = [pc EXCEPT ![t] = "none", ![Cleanup] = "clean_delete"]
    BY <1>6 DEF DeleteThread
  <2>1. /\ UNCHANGED <<block_scheduling_, newThread, current>> /\ kmm' = NULL
        /\ pc[Cleanup] = "clean_free" /\ t # Cleanup /\ (t \in Threads => pc[t] = "dying")
    BY <1>6 DEF DeleteThread, queueVars, Inv, DeadInv
  <2>2. Types' /\ BlockInv'
    BY <2>0, <2>1 DEF Inv, Types, BlockInv, BlockLabels, Labels
  <2>3. HeapInv'
    BY <2>0, <2>1 DEF Inv, Types, HeapInv, HeapLabels
  <2>4. AddInv'
    BY <2>0, <2>1 DEF Inv, Types, AddInv, AddingLabels, AddLabels
  <2>5. DeadInv'
    BY <2>0, <2>1 DEF Inv, Types, DeadInv
  <2>6. QED
    BY <2>2, <2>3, <2>4, <2>5 DEF Inv
<1>7. CASE CleanupDone
  <2>1. /\ pc[Cleanup] = "clean_delete" /\ pc' = [pc EXCEPT ![Cleanup] = "clean_lock"]
        /\ UNCHANGED <<block_scheduling_, kmm, state, newThread, destroy_list>>
    BY <1>7 DEF CleanupDone, YieldTo, Goto, threadVars
  <2>2. QED
    BY <2>1, QuietStep DEF Labels, BlockLabels, HeapLabels, AddingLabels, AddLabels
<1>8. QED
  BY <1>1, <1>2, <1>3, <1>4, <1>5, <1>6, <1>7 DEF CleanupDeadThreads

\* What a thread does of its own accord.
LEMMA CallInv == ASSUME Inv, NEW t \in Threads, current = t, Call(t) PROVE Inv'
<1> USE DEF Labels, BlockLabels, HeapLabels, AddingLabels, AddLabels
<1>1. CASE Yield(t)
  <2>1. /\ pc[t] = "run" /\ pc' = [pc EXCEPT ![t] = "run"]
        /\ UNCHANGED <<block_scheduling_, kmm, state, newThread, destroy_list>>
    BY <1>1 DEF Yield, YieldTo, Goto, threadVars
  <2>2. QED
    BY <2>1, QuietStep
<1>2. CASE Heap(t) \/ \E n \in Durations : SyscallSleep(t, n)
  <2>1. PICK l \in {"heap", "sleep_call"} :
          /\ pc[t] = "run" /\ pc' = [pc EXCEPT ![t] = l]
          /\ UNCHANGED <<block_scheduling_, kmm, state, newThread, destroy_list>>
    BY <1>2 DEF Heap, SyscallSleep, Goto, threadVars
  <2>2. QED
    BY <2>1, QuietStep
<1>3. CASE \E u \in UserThreads : AddNewThread(t, u)
  BY <1>3, AddNewThreadInv
<1>4. CASE Sleep(t) \/ Kill(t) \/ \E u \in UserThreads : Wake(t, u)
  BY <1>4, StateInv
<1>5. QED
  BY <1>1, <1>2, <1>3, <1>4 DEF Call

\* What a thread is in the middle of.
LEMMA ContinueInv ==
  ASSUME Inv, threads_ \in Seq(Threads), NEW t \in Threads, current = t, Continue(t)
  PROVE  Inv'
<1>1. CASE Add(t)
  <2>1. CASE \/ Acquire(t, "add_kmm", "add_lock") \/ Acquire(t, "add_push", "add_realloc")
    BY <2>1, AcquireInv
  <2>2. CASE LockScheduling(t, "add_lock", "add_release")
    BY <2>2, LockInv
  <2>3. CASE Release(t, "add_release", "add_push") \/ Release(t, "add_realloc", "add_grown")
    BY <2>3, ReleaseInv
  <2>4. CASE PushBack(t)
    BY <2>4, PushBackInv
  <2>5. CASE UnlockScheduling(t, "add_unlock", "run")
    BY <2>5, UnlockInv
  <2>6. QED
    BY <1>1, <2>1, <2>2, <2>3, <2>4, <2>5 DEF Add, BlockWithHeap
<1>2. CASE Acquire(t, "heap", "heap_locked")
  BY <1>2, AcquireInv
<1>3. CASE Release(t, "heap_locked", "run")
  BY <1>3, ReleaseInv
<1>4. CASE \/ SleepUntil(t) \/ YieldAfter(t, "sleep_until", "run")
           \/ YieldAfter(t, "sleep", "run") \/ YieldAfter(t, "dying", "dying")
  <2>1. PICK l \in {"run", "sleep_until", "dying"} :
          /\ pc[t] \in {"sleep_call", "sleep_until", "sleep", "dying"}
          /\ pc[t] = "dying" => l = "dying"
          /\ pc' = [pc EXCEPT ![t] = l]
          /\ UNCHANGED <<block_scheduling_, kmm, state, newThread, destroy_list>>
    BY <1>4 DEF SleepUntil, YieldAfter, YieldTo, Goto, threadVars
  <2>2. QED
    BY <2>1, QuietStep DEF Labels, BlockLabels, HeapLabels, AddingLabels, AddLabels
<1>5. CASE t = Cleanup /\ CleanupDeadThreads
  BY <1>5, CleanupInv
<1>6. QED
  BY <1>1, <1>2, <1>3, <1>4, <1>5 DEF Continue

\* Every step keeps the invariant.
LEMMA NextInv == ASSUME Inv, threads_ \in Seq(Threads), [Next]_vars PROVE Inv'
<1>1. CASE Timer
  BY <1>1, TickInv DEF Timer
<1>2. CASE \E t \in Threads : Run(t)
  BY <1>2, CallInv, ContinueInv DEF Run
<1>3. CASE UNCHANGED vars
  BY <1>3 DEF vars, queueVars, threadVars, Inv, Types, BlockInv, HeapInv, AddInv, DeadInv
<1>4. QED
  BY <1>1, <1>2, <1>3 DEF Next

-----------------------------------------------------------------------------
(* The list of threads *)

Listed == {threads_[i] : i \in DOMAIN threads_}

\* Every thread that exists is in the list, or waits for its deletion and is
\* dead.  The thread that runs is in the list.
ListInv ==
    /\ threads_ \in Seq(Threads)
    /\ current \in Listed
    /\ \A t \in Threads : pc[t] # "none" => t \in Listed \cup destroy_list
    /\ destroy_list \subseteq Threads /\ \A t \in destroy_list : state[t] = "ToBeDestroyed"

\* At the start the list holds the two kernel threads and one user thread.
LEMMA InitList == ASSUME Init PROVE ListInv
<1>1. PICK t \in UserThreads :
         /\ threads_ = <<Idle, t, Cleanup>>
         /\ pc = [u \in Threads |-> IF u = Cleanup THEN "clean_lock"
                                    ELSE IF u \in {Idle, t} THEN "run" ELSE "none"]
  BY DEF Init
<1>2. threads_ \in Seq(Threads) /\ DOMAIN threads_ = 1..3
  BY <1>1, ThreadFacts
<1>3. threads_[1] = Idle /\ threads_[2] = t /\ threads_[3] = Cleanup
  BY <1>1
<1>4. Listed = {Idle, t, Cleanup}
  <2>1. 1 \in DOMAIN threads_ /\ 2 \in DOMAIN threads_ /\ 3 \in DOMAIN threads_
    BY <1>2
  <2>2. \A i \in DOMAIN threads_ : i = 1 \/ i = 2 \/ i = 3
    BY <1>2
  <2>3. QED
    BY <1>3, <2>1, <2>2 DEF Listed
<1>5. QED
  BY <1>1, <1>2, <1>4 DEF Init, ListInv

\* A rotated list, entry by entry.
LEMMA RotateIs ==
  ASSUME threads_ \in Seq(Threads), NEW i \in DOMAIN threads_, NEW n, n = Len(threads_)
  PROVE  /\ n \in Nat /\ i \in 1..n /\ DOMAIN threads_ = 1..n
         /\ Rotate(i) \in Seq(Threads) /\ DOMAIN Rotate(i) = 1..n
         /\ \A j \in 1..n : Rotate(i)[j] = IF j <= n - i THEN threads_[i + j] ELSE threads_[j - (n - i)]
<1> DEFINE a == SubSeq(threads_, i + 1, n)
           b == SubSeq(threads_, 1, i)
<1>1. n \in Nat /\ i \in 1..n /\ DOMAIN threads_ = 1..n
  OBVIOUS
<1>2. /\ a \in Seq(Threads) /\ Len(a) = n - i
      /\ \A j \in 1..(n - i) : a[j] = threads_[i + j]
  BY <1>1
<1>3. /\ b \in Seq(Threads) /\ Len(b) = i
      /\ \A j \in 1..i : b[j] = threads_[j]
  BY <1>1
<1>4. Rotate(i) = a \o b
  BY DEF Rotate
<1> HIDE DEF a, b
<1>5. /\ Rotate(i) \in Seq(Threads) /\ DOMAIN Rotate(i) = 1..n
      /\ \A j \in 1..n : Rotate(i)[j] = IF j <= n - i THEN threads_[i + j] ELSE threads_[j - (n - i)]
  <2>1. /\ a \o b \in Seq(Threads) /\ Len(a \o b) = Len(a) + Len(b)
        /\ \A j \in 1..(Len(a) + Len(b)) : (a \o b)[j] = IF j <= Len(a) THEN a[j] ELSE b[j - Len(a)]
    BY <1>2, <1>3, ConcatProperties
  <2>2. Len(a) + Len(b) = n
    BY <1>1, <1>2, <1>3
  <2>3. ASSUME NEW j \in 1..n
        PROVE  (a \o b)[j] = IF j <= n - i THEN threads_[i + j] ELSE threads_[j - (n - i)]
    <3>1. (a \o b)[j] = IF j <= n - i THEN a[j] ELSE b[j - (n - i)]
      BY <1>2, <2>1, <2>2
    <3>2. j <= n - i => j \in 1..(n - i)
      BY <1>1
    <3>3. ~(j <= n - i) => j - (n - i) \in 1..i
      BY <1>1
    <3>4. QED
      BY <1>2, <1>3, <3>1, <3>2, <3>3
  <2>4. DOMAIN (a \o b) = 1..n
    BY <2>1, <2>2
  <2>5. QED
    BY <1>4, <2>1, <2>3, <2>4
<1>6. QED
  BY <1>1, <1>5

\* A rotated list lists the same threads.
LEMMA RotateLists ==
  ASSUME threads_ \in Seq(Threads), NEW i \in DOMAIN threads_
  PROVE  /\ Rotate(i) \in Seq(Threads)
         /\ {Rotate(i)[j] : j \in DOMAIN Rotate(i)} = Listed
<1>1. PICK n : n = Len(threads_)
  OBVIOUS
<1>2. n \in Nat /\ i \in 1..n /\ DOMAIN threads_ = 1..n
  BY <1>1, RotateIs
<1>3. /\ Rotate(i) \in Seq(Threads) /\ DOMAIN Rotate(i) = 1..n
      /\ \A j \in 1..n : Rotate(i)[j] = IF j <= n - i THEN threads_[i + j] ELSE threads_[j - (n - i)]
  BY <1>1, RotateIs
<1>4. ASSUME NEW j \in DOMAIN Rotate(i)
      PROVE  Rotate(i)[j] \in Listed
  <2>1. PICK k \in 1..n : Rotate(i)[j] = threads_[k]
    <3>1. j \in 1..n /\ (j <= n - i => i + j \in 1..n) /\ (~(j <= n - i) => j - (n - i) \in 1..n)
      BY <1>2, <1>3
    <3>2. QED
      BY <1>3, <3>1
  <2>2. QED
    BY <1>2, <2>1 DEF Listed
<1>5. ASSUME NEW k \in DOMAIN threads_
      PROVE  \E j \in DOMAIN Rotate(i) : Rotate(i)[j] = threads_[k]
  <2>1. CASE k <= i
    <3>1. k + (n - i) \in 1..n /\ ~(k + (n - i) <= n - i) /\ (k + (n - i)) - (n - i) = k
      BY <1>2, <2>1
    <3>2. QED
      BY <1>3, <3>1
  <2>2. CASE k > i
    <3>1. k - i \in 1..n /\ k - i <= n - i /\ i + (k - i) = k
      BY <1>2, <2>2
    <3>2. QED
      BY <1>3, <3>1
  <2>3. QED
    BY <1>2, <2>1, <2>2
<1>6. QED
  BY <1>3, <1>4, <1>5 DEF Listed

\* Scheduling chooses a thread of the list whose time has come, or leaves the
\* current one while it is blocked.
LEMMA ScheduleLists ==
  ASSUME ListInv, NEW w, Schedule(w)
  PROVE  /\ threads_' \in Seq(Threads) /\ Listed' = Listed
         /\ current' \in Listed
         /\ (block_scheduling_ = TRUE /\ current' = current) \/ w[current'] = 0
<1>1. CASE Blocked(block_scheduling_) /\ UNCHANGED queueVars
  BY <1>1 DEF Blocked, queueVars, ListInv, Listed
<1>2. CASE Choose(w)
  <2> DEFINE found == {i \in DOMAIN threads_ : Runnable(threads_[i], w)}
  <2>1. found \in SUBSET Nat /\ found # {}
    BY <1>2 DEF Choose, ListInv
  <2>2. PICK i \in found : i = Min(found)
    BY <2>1, MinIs
  <2>3. current' = threads_[i] /\ threads_' = Rotate(i) /\ i \in DOMAIN threads_ /\ w[threads_[i]] = 0
    BY <1>2, <2>2 DEF Choose, Runnable
  <2>4. Listed' = {Rotate(i)[j] : j \in DOMAIN Rotate(i)}
    BY <2>3 DEF Listed
  <2>5. QED
    BY <2>3, <2>4, RotateLists DEF ListInv, Listed
<1>3. QED
  BY <1>1, <1>2 DEF Schedule

\* A step that makes no thread, and changes the list at most by scheduling.
LEMMA PlainList ==
  ASSUME ListInv, \A u \in Threads : pc'[u] # "none" => pc[u] # "none",
         UNCHANGED <<destroy_list, state>>, NEW w, UNCHANGED queueVars \/ Schedule(w)
  PROVE  ListInv'
<1>1. CASE UNCHANGED queueVars
  BY <1>1 DEF queueVars, ListInv, Listed
<1>2. CASE Schedule(w)
  BY <1>2, ScheduleLists DEF ListInv
<1>3. QED
  BY <1>1, <1>2

\* The steps of that kind.
LEMMA PlainSteps ==
  ASSUME Inv, ListInv, NEW t \in Threads, NEW from, from # "none", NEW to,
         \/ Yield(t) \/ Heap(t)
         \/ (\E u \in UserThreads : AddNewThread(t, u)) \/ (\E n \in Durations : SyscallSleep(t, n))
         \/ Acquire(t, from, to) \/ Release(t, from, to)
         \/ LockScheduling(t, from, to) \/ UnlockScheduling(t, from, to)
         \/ YieldAfter(t, from, to) \/ SleepUntil(t)
         \/ (t = Cleanup /\ (EraseDone \/ CleanupDone))
  PROVE  ListInv'
<1> USE DEF Goto, YieldTo, queueVars, threadVars
<1>1. UNCHANGED <<destroy_list, state>> /\ pc[t] # "none" /\ \E l : pc' = [pc EXCEPT ![t] = l]
  <2>1. CASE \/ Yield(t) \/ Heap(t)
             \/ (\E u \in UserThreads : AddNewThread(t, u)) \/ (\E n \in Durations : SyscallSleep(t, n))
    BY <2>1 DEF Yield, Heap, AddNewThread, SyscallSleep
  <2>2. CASE Acquire(t, from, to)
    BY <2>2 DEF Acquire
  <2>3. CASE Release(t, from, to) \/ LockScheduling(t, from, to) \/ UnlockScheduling(t, from, to)
    BY <2>3 DEF Release, LockScheduling, UnlockScheduling
  <2>4. CASE YieldAfter(t, from, to) \/ SleepUntil(t) \/ (t = Cleanup /\ (EraseDone \/ CleanupDone))
    BY <2>4 DEF YieldAfter, SleepUntil, EraseDone, CleanupDone
  <2>5. QED
    BY <2>1, <2>2, <2>3, <2>4
<1>2. UNCHANGED queueVars \/ Schedule(wakeUp)
  BY DEF Yield, Heap, AddNewThread, SyscallSleep, Acquire, Release, LockScheduling, UnlockScheduling,
         YieldAfter, SleepUntil, EraseDone, CleanupDone
<1>3. \A v \in Threads : pc'[v] # "none" => pc[v] # "none"
  BY <1>1 DEF Inv, Types
<1>4. QED
  BY <1>1, <1>2, <1>3, PlainList

\* push_back adds a thread that was not in the list.
LEMMA PushBackList == ASSUME Inv, ListInv, NEW t \in Threads, PushBack(t) PROVE ListInv'
<1>0. PICK u \in Threads : u = newThread[t] /\ pc[u] = "none"
  BY ThreadFacts DEF PushBack, Inv, Types, AddInv, AddingLabels, AddLabels
<1>1. /\ threads_' = Append(threads_, u) /\ pc[t] # "none" /\ u # t
      /\ state' = [state EXCEPT ![u] = "Running"]
      /\ pc' = [pc EXCEPT ![t] = "add_unlock", ![u] = "run"]
      /\ UNCHANGED <<current, destroy_list>>
  BY <1>0 DEF PushBack
<1>2. threads_' \in Seq(Threads) /\ Listed' = Listed \cup {u}
  <2>1. /\ threads_' \in Seq(Threads) /\ DOMAIN threads_' = 1..(Len(threads_) + 1)
        /\ DOMAIN threads_ = 1..Len(threads_) /\ Len(threads_) \in Nat
        /\ \A i \in 1..Len(threads_) : threads_'[i] = threads_[i]
        /\ threads_'[Len(threads_) + 1] = u
    BY <1>1, AppendProperties DEF ListInv
  <2>2. \A i \in DOMAIN threads_' : i \in DOMAIN threads_ \/ i = Len(threads_) + 1
    BY <2>1
  <2>3. Len(threads_) + 1 \in DOMAIN threads_' /\ \A i \in DOMAIN threads_ : i \in DOMAIN threads_'
    BY <2>1
  <2>4. QED
    BY <2>1, <2>2, <2>3 DEF Listed
<1>3. u \notin destroy_list
  BY <1>0 DEF Inv, DeadInv
<1>4. QED
  BY <1>0, <1>1, <1>2, <1>3 DEF ListInv, Inv, Types

\* A change of a thread's state leaves the list as it is.
LEMMA StateList ==
  ASSUME Inv, ListInv, NEW t \in Threads, Sleep(t) \/ Kill(t) \/ \E u \in UserThreads : Wake(t, u)
  PROVE  ListInv'
<1>1. CASE \E u \in UserThreads : Wake(t, u)
  <2>1. PICK u \in UserThreads : Wake(t, u)
    BY <1>1
  <2>2. /\ UNCHANGED <<threads_, current, pc, destroy_list>>
        /\ state[u] = "Sleeping" /\ state' = [state EXCEPT ![u] = "Running"]
    BY <2>1 DEF Wake, queueVars
  <2>3. QED
    BY <2>2 DEF ListInv, Listed, Inv, Types
<1>2. CASE Sleep(t) \/ Kill(t)
  <2>1. PICK s, l : SetState(t, s, l)
    BY <1>2 DEF Sleep, Kill
  <2>2. /\ UNCHANGED <<threads_, current, destroy_list>>
        /\ pc[t] = "run" /\ pc' = [pc EXCEPT ![t] = l] /\ state' = [state EXCEPT ![t] = s]
    BY <2>1 DEF SetState, queueVars, Goto
  <2>3. t \notin destroy_list
    BY <2>2 DEF Inv, DeadInv
  <2>4. QED
    BY <2>2, <2>3 DEF ListInv, Listed, Inv, Types
<1>3. QED
  BY <1>1, <1>2

\* The list after a dead thread was erased, entry by entry.
LEMMA EraseIs ==
  ASSUME ListInv, EraseDead
  PROVE  \E i \in DOMAIN threads_ :
            /\ threads_[i] \in Threads /\ state[threads_[i]] = "ToBeDestroyed"
            /\ destroy_list' = destroy_list \cup {threads_[i]}
            /\ threads_' \in Seq(Threads)
            /\ \A k \in DOMAIN threads_ :
                  /\ k < i => k \in DOMAIN threads_' /\ threads_'[k] = threads_[k]
                  /\ k > i => k - 1 \in DOMAIN threads_' /\ threads_'[k - 1] = threads_[k]
<1>1. Dead \in SUBSET Nat /\ Dead # {}
  BY DEF EraseDead, Dead, ListInv
<1>2. PICK i \in Dead : i = Min(Dead)
  BY <1>1, MinIs
<1> DEFINE n == Len(threads_)
           a == SubSeq(threads_, 1, i - 1)
           b == SubSeq(threads_, i + 1, n)
<1>3. threads_' = a \o b /\ destroy_list' = destroy_list \cup {threads_[i]}
  BY <1>2 DEF EraseDead
<1>4. /\ threads_ \in Seq(Threads) /\ DOMAIN threads_ = 1..n /\ n \in Nat /\ i \in 1..n
      /\ threads_[i] \in Threads /\ state[threads_[i]] = "ToBeDestroyed"
  BY DEF ListInv, Dead
<1>5. a \in Seq(Threads) /\ Len(a) = i - 1 /\ \A j \in 1..(i - 1) : a[j] = threads_[j]
  BY <1>4
<1>6. b \in Seq(Threads) /\ Len(b) = n - i /\ \A j \in 1..(n - i) : b[j] = threads_[i + j]
  <2>1. i + 1 \in Int /\ n \in Int /\ \A j \in (i + 1)..n : threads_[j] \in Threads
    BY <1>4
  <2>2. /\ b \in Seq(Threads) /\ Len(b) = IF i + 1 <= n THEN n - (i + 1) + 1 ELSE 0
        /\ \A j \in 1..(n - (i + 1) + 1) : b[j] = threads_[i + 1 + j - 1]
    BY <2>1, SubSeqProperties
  <2> HIDE DEF n, b
  <2>3. n - (i + 1) + 1 = n - i /\ (i + 1 <= n \/ n - i = 0) /\ \A j \in 1..(n - i) : i + 1 + j - 1 = i + j
    <3>1. i \in Int /\ n \in Int /\ i <= n
      BY <1>4
    <3>2. QED
      BY <3>1
  <2>4. QED
    BY <2>2, <2>3
<1> HIDE DEF n, a, b
<1>7. /\ a \o b \in Seq(Threads) /\ Len(a \o b) = n - 1
      /\ \A j \in 1..(n - 1) : (a \o b)[j] = IF j <= i - 1 THEN a[j] ELSE b[j - (i - 1)]
  <2>1. /\ a \o b \in Seq(Threads) /\ Len(a \o b) = Len(a) + Len(b)
        /\ \A j \in 1..(Len(a) + Len(b)) : (a \o b)[j] = IF j <= Len(a) THEN a[j] ELSE b[j - Len(a)]
    BY <1>5, <1>6, ConcatProperties
  <2>2. Len(a) + Len(b) = n - 1
    BY <1>4, <1>5, <1>6
  <2>3. QED
    BY <1>5, <2>1, <2>2
<1>8. DOMAIN threads_' = 1..(n - 1)
  BY <1>3, <1>7
<1>9. ASSUME NEW k \in 1..n, k < i
      PROVE  k \in DOMAIN threads_' /\ threads_'[k] = threads_[k]
  <2>1. k \in 1..(n - 1) /\ k <= i - 1 /\ k \in 1..(i - 1)
    BY <1>4, <1>9
  <2>2. QED
    BY <1>3, <1>5, <1>7, <1>8, <2>1
<1>10. ASSUME NEW k \in 1..n, k > i
       PROVE  k - 1 \in DOMAIN threads_' /\ threads_'[k - 1] = threads_[k]
  <2>1. k - 1 \in 1..(n - 1) /\ ~(k - 1 <= i - 1) /\ (k - 1) - (i - 1) = k - i
    BY <1>4, <1>10
  <2>2. k - i \in 1..(n - i) /\ i + (k - i) = k
    BY <1>4, <1>10
  <2>3. QED
    BY <1>3, <1>6, <1>7, <1>8, <2>1, <2>2
<1>11. threads_' \in Seq(Threads)
  BY <1>3, <1>7
<1>12. QED
  BY <1>3, <1>4, <1>9, <1>10, <1>11

\* The dead thread that leaves the list of threads is not the cleanup thread.
LEMMA EraseList == ASSUME Inv, ListInv, current = Cleanup, EraseDead PROVE ListInv'
<1>1. PICK i \in DOMAIN threads_ :
         /\ threads_[i] \in Threads /\ state[threads_[i]] = "ToBeDestroyed"
         /\ destroy_list' = destroy_list \cup {threads_[i]}
         /\ threads_' \in Seq(Threads)
         /\ \A k \in DOMAIN threads_ :
               /\ k < i => k \in DOMAIN threads_' /\ threads_'[k] = threads_[k]
               /\ k > i => k - 1 \in DOMAIN threads_' /\ threads_'[k - 1] = threads_[k]
  BY EraseIs
<1>2. pc[Cleanup] = "clean_erase" /\ UNCHANGED <<current, state, pc>>
  BY DEF EraseDead, threadVars
<1>3. ASSUME NEW k \in DOMAIN threads_, k # i
      PROVE  threads_[k] \in Listed'
  <2>1. k < i \/ k > i
    BY <1>3 DEF ListInv
  <2>2. QED
    BY <1>1, <2>1 DEF Listed
<1>4. \A t \in Listed : t \in Listed' \cup destroy_list'
  BY <1>1, <1>3 DEF Listed
<1>5. Cleanup \in Listed'
  <2>1. threads_[i] # Cleanup
    BY <1>1, <1>2 DEF Inv, DeadInv
  <2>2. PICK k \in DOMAIN threads_ : threads_[k] = Cleanup
    BY DEF ListInv, Listed
  <2>3. QED
    BY <1>3, <2>1, <2>2
<1>6. QED
  BY <1>1, <1>2, <1>4, <1>5 DEF ListInv

\* A thread is deleted after it was erased.
LEMMA DeleteList == ASSUME Inv, ListInv, DeleteThread PROVE ListInv'
<1>1. PICK t \in destroy_list :
         /\ destroy_list' = destroy_list \ {t}
         /\ state' = [state EXCEPT ![t] = "Running"]
         /\ pc' = [pc EXCEPT ![t] = "none", ![Cleanup] = "clean_delete"]
  BY DEF DeleteThread
<1>2. UNCHANGED <<threads_, current>> /\ pc[Cleanup] = "clean_free" /\ t \in Threads /\ t # Cleanup
  BY <1>1 DEF DeleteThread, queueVars, Inv, DeadInv, ListInv
<1>3. QED
  BY <1>1, <1>2, ThreadFacts DEF ListInv, Listed, Inv, Types

\* Every step keeps the list of threads in order.
LEMMA NextList == ASSUME Inv, ListInv, [Next]_vars PROVE ListInv'
<1>1. CASE Timer
  <2>1. PICK d \in Intervals : Tick(d)
    BY <1>1 DEF Timer
  <2>2. Schedule(wakeUp') /\ UNCHANGED <<destroy_list, state, pc>>
    BY <2>1 DEF Tick
  <2>3. PICK w : w = wakeUp'
    OBVIOUS
  <2>4. QED
    BY <2>2, <2>3, PlainList
<1>2. ASSUME NEW t \in Threads, current = t, Call(t)
      PROVE  ListInv'
  <2>1. CASE \/ Yield(t) \/ Heap(t)
             \/ (\E u \in UserThreads : AddNewThread(t, u)) \/ (\E n \in Durations : SyscallSleep(t, n))
    BY <2>1, PlainSteps
  <2>2. QED
    BY <1>2, <2>1, StateList DEF Call
<1>3. ASSUME NEW t \in Threads, current = t, Continue(t)
      PROVE  ListInv'
  <2>1. CASE Add(t)
    BY <2>1, PlainSteps, PushBackList DEF Add, BlockWithHeap
  <2>2. CASE \/ Acquire(t, "heap", "heap_locked") \/ Release(t, "heap_locked", "run")
             \/ YieldAfter(t, "sleep_until", "run") \/ YieldAfter(t, "sleep", "run")
             \/ YieldAfter(t, "dying", "dying")
    BY <2>2, PlainSteps
  <2>3. CASE t = Cleanup /\ CleanupDeadThreads
    <3>1. CASE EraseDead \/ DeleteThread
      BY <1>3, <2>3, <3>1, EraseList, DeleteList
    <3>2. CASE \/ LockScheduling(t, "clean_lock", "clean_erase")
               \/ UnlockScheduling(t, "clean_unlock", "clean_delete")
               \/ Acquire(t, "clean_delete", "clean_free")
      BY <3>2, PlainSteps
    <3>3. CASE EraseDone \/ CleanupDone
      BY <2>3, <3>3, PlainSteps
    <3>4. QED
      BY <2>3, <3>1, <3>2, <3>3 DEF CleanupDeadThreads
  <2>4. CASE SleepUntil(t)
    <3>1. PICK from : from = "sleep_call"
      OBVIOUS
    <3>2. QED
      BY <2>4, <3>1, PlainSteps
  <2>5. QED
    BY <1>3, <2>1, <2>2, <2>3, <2>4 DEF Continue
<1>4. CASE UNCHANGED vars
  BY <1>4 DEF vars, queueVars, threadVars, ListInv, Listed
<1>5. QED
  BY <1>1, <1>2, <1>3, <1>4 DEF Next, Run

-----------------------------------------------------------------------------
(* Sleeping *)

\* A thread that runs has slept long enough, unless it is about to sleep, and
\* the time it asked for is the one it sleeps, once sleepUntil has set it.
WakeInv ==
    /\ wakeUp \in [Threads -> Nat] /\ asked \in [Threads -> Nat]
    /\ \A t \in Threads : IF pc[t] = "sleep_call" THEN wakeUp[t] = 0 ELSE asked[t] = wakeUp[t]
    /\ wakeUp[current] # 0 => pc[current] = "sleep_until"

\* A step that leaves the times and who is about to sleep alone, and that does
\* not return from sleepUntil, or that schedules.
LEMMA PlainWake ==
  ASSUME Inv, ListInv, WakeInv, UNCHANGED <<wakeUp, asked>>,
         \A t \in Threads : pc'[t] = "sleep_call" <=> pc[t] = "sleep_call",
         \/ UNCHANGED current /\ (pc[current] # "sleep_until" \/ UNCHANGED pc)
         \/ Schedule(wakeUp)
  PROVE  WakeInv'
<1>1. CASE UNCHANGED current /\ (pc[current] # "sleep_until" \/ UNCHANGED pc)
  BY <1>1 DEF WakeInv
<1>2. CASE Schedule(wakeUp)
  <2>1. block_scheduling_ = TRUE => wakeUp[current] = 0
    BY DEF Inv, BlockInv, BlockLabels, WakeInv
  <2>2. wakeUp[current'] = 0
    BY <1>2, <2>1, ScheduleLists
  <2>3. QED
    BY <2>2 DEF WakeInv
<1>3. QED
  BY <1>1, <1>2

\* A step of one thread from one label to another, neither of them sleep_call.
LEMMA SameSleepCalls ==
  ASSUME Inv, NEW t \in Threads, NEW l, l # "sleep_call", pc[t] # "sleep_call",
         pc' = [pc EXCEPT ![t] = l]
  PROVE  \A u \in Threads : pc'[u] = "sleep_call" <=> pc[u] = "sleep_call"
  BY DEF Inv, Types

\* No step lets a sleeper run before its time.
LEMMA NextWake == ASSUME Inv, ListInv, WakeInv, [Next]_vars PROVE WakeInv'
<1> USE DEF queueVars, threadVars, YieldTo
<1>0. current \in Threads
  BY DEF ListInv, Listed
<1>1. ASSUME NEW d \in Intervals, Tick(d)
      PROVE  WakeInv'
  <2>1. wakeUp' = Elapse(wakeUp, d) /\ asked' = Elapse(asked, d) /\ d \in Nat /\ UNCHANGED pc
    BY <1>1, SchedulerAssumption DEF Tick
  <2>2. \A t \in Threads : /\ wakeUp'[t] \in Nat /\ asked'[t] \in Nat
                           /\ wakeUp[t] = 0 => wakeUp'[t] = 0
                           /\ asked[t] = wakeUp[t] => asked'[t] = wakeUp'[t]
    BY <2>1 DEF Elapse, WakeInv
  <2>3. wakeUp' \in [Threads -> Nat] /\ asked' \in [Threads -> Nat]
    BY <2>1, <2>2 DEF Elapse
  <2>4. PICK w : w = wakeUp'
    OBVIOUS
  <2>5. current' = current \/ w[current'] = 0
    BY <1>1, <2>4, ScheduleLists DEF Tick
  <2>6. QED
    BY <1>0, <2>1, <2>2, <2>3, <2>4, <2>5 DEF WakeInv
<1>2. ASSUME NEW t \in Threads, current = t, Call(t)
      PROVE  WakeInv'
  <2>1. ASSUME NEW n \in Durations, SyscallSleep(t, n)
        PROVE  WakeInv'
    BY <1>2, <2>1, SchedulerAssumption DEF SyscallSleep, Goto, WakeInv, Inv, Types
  <2>2. CASE \/ Yield(t) \/ Heap(t) \/ Sleep(t) \/ Kill(t)
             \/ \E u \in UserThreads : AddNewThread(t, u) \/ Wake(t, u)
    <3>1. /\ pc[t] = "run" /\ UNCHANGED <<wakeUp, asked>>
          /\ UNCHANGED current \/ Schedule(wakeUp)
      BY <2>2 DEF Yield, Heap, Sleep, Kill, SetState, AddNewThread, Wake
    <3>2. UNCHANGED pc \/ \E l \in {"run", "heap", "sleep", "dying", "add_kmm"} :
                              pc' = [pc EXCEPT ![t] = l]
      BY <2>2 DEF Yield, Heap, Sleep, Kill, SetState, AddNewThread, Wake, Goto
    <3>3. \A u \in Threads : pc'[u] = "sleep_call" <=> pc[u] = "sleep_call"
      BY <3>1, <3>2, SameSleepCalls
    <3>4. QED
      BY <1>2, <3>1, <3>3, PlainWake
  <2>3. QED
    BY <1>2, <2>1, <2>2 DEF Call
<1>3. ASSUME NEW t \in Threads, current = t,
             NEW from, from \notin {"sleep_until", "sleep_call"}, NEW to, to # "sleep_call",
             \/ Acquire(t, from, to) \/ Release(t, from, to)
             \/ LockScheduling(t, from, to) \/ UnlockScheduling(t, from, to)
      PROVE  WakeInv'
  <2>1. /\ pc[t] = from /\ UNCHANGED <<wakeUp, asked>>
        /\ UNCHANGED current \/ Schedule(wakeUp)
    BY <1>3 DEF Acquire, Release, LockScheduling, UnlockScheduling
  <2>2. \E l \in {from, to} : pc' = [pc EXCEPT ![t] = l]
    BY <1>3 DEF Acquire, Release, LockScheduling, UnlockScheduling, Goto
  <2>3. \A u \in Threads : pc'[u] = "sleep_call" <=> pc[u] = "sleep_call"
    BY <1>3, <2>1, <2>2, SameSleepCalls
  <2>4. QED
    BY <1>3, <2>1, <2>3, PlainWake
<1>4. ASSUME NEW t \in Threads, current = t, Continue(t)
      PROVE  WakeInv'
  <2>1. CASE Add(t)
    <3>1. CASE PushBack(t)
      <4>1. /\ pc[t] \in {"add_push", "add_grown"} /\ UNCHANGED <<wakeUp, asked, current>>
            /\ pc' = [pc EXCEPT ![t] = "add_unlock", ![newThread[t]] = "run"]
        BY <3>1 DEF PushBack
      <4>2. newThread[t] \in Threads /\ pc[newThread[t]] = "none"
        BY <4>1 DEF Inv, Types, AddInv, AddingLabels, AddLabels, Threads
      <4>3. \A u \in Threads : pc'[u] = "sleep_call" <=> pc[u] = "sleep_call"
        BY <4>1, <4>2 DEF Inv, Types
      <4>4. QED
        BY <1>4, <4>1, <4>3, PlainWake
    <3>2. QED
      BY <1>3, <1>4, <2>1, <3>1 DEF Add, BlockWithHeap
  <2>2. CASE Acquire(t, "heap", "heap_locked") \/ Release(t, "heap_locked", "run")
    BY <1>3, <1>4, <2>2
  <2>3. CASE \/ YieldAfter(t, "sleep_until", "run") \/ YieldAfter(t, "sleep", "run")
             \/ YieldAfter(t, "dying", "dying")
    <3>1. pc[t] # "sleep_call" /\ \E l \in {"run", "dying"} : pc' = [pc EXCEPT ![t] = l]
      BY <2>3 DEF YieldAfter, Goto
    <3>2. \A u \in Threads : pc'[u] = "sleep_call" <=> pc[u] = "sleep_call"
      BY <3>1, SameSleepCalls
    <3>3. QED
      BY <2>3, <3>2, PlainWake DEF YieldAfter
  <2>4. CASE t = Cleanup /\ CleanupDeadThreads
    <3>1. CASE EraseDead
      BY <1>4, <3>1, PlainWake DEF EraseDead
    <3>2. CASE EraseDone \/ CleanupDone
      <4>1. /\ pc[t] \in {"clean_erase", "clean_delete"} /\ UNCHANGED <<wakeUp, asked>>
            /\ UNCHANGED current \/ Schedule(wakeUp)
        BY <2>4, <3>2 DEF EraseDone, CleanupDone
      <4>2. \E l \in {"clean_unlock", "clean_lock"} : pc' = [pc EXCEPT ![t] = l]
        BY <2>4, <3>2 DEF EraseDone, CleanupDone, Goto
      <4>3. \A u \in Threads : pc'[u] = "sleep_call" <=> pc[u] = "sleep_call"
        BY <4>1, <4>2, SameSleepCalls
      <4>4. QED
        BY <1>4, <4>1, <4>3, PlainWake
    <3>3. CASE DeleteThread
      <4>1. PICK d \in destroy_list : pc' = [pc EXCEPT ![d] = "none", ![Cleanup] = "clean_delete"]
        BY <3>3 DEF DeleteThread
      <4>2. pc[Cleanup] = "clean_free" /\ UNCHANGED <<wakeUp, asked, current>>
        BY <3>3 DEF DeleteThread
      <4>3. d \in Threads /\ pc[d] # "sleep_call"
        BY DEF Inv, Types, DeadInv, ListInv
      <4>4. \A u \in Threads : pc'[u] = "sleep_call" <=> pc[u] = "sleep_call"
        BY <4>1, <4>2, <4>3 DEF Inv, Types
      <4>5. QED
        BY <1>4, <2>4, <4>2, <4>4, PlainWake
    <3>4. CASE \/ LockScheduling(t, "clean_lock", "clean_erase")
               \/ UnlockScheduling(t, "clean_unlock", "clean_delete")
               \/ Acquire(t, "clean_delete", "clean_free")
      BY <1>3, <1>4, <3>4
    <3>5. QED
      BY <2>4, <3>1, <3>2, <3>3, <3>4 DEF CleanupDeadThreads
  <2>5. CASE SleepUntil(t)
    BY <1>4, <2>5 DEF SleepUntil, Goto, WakeInv, Inv, Types
  <2>6. QED
    BY <1>4, <2>1, <2>2, <2>3, <2>4, <2>5 DEF Continue
<1>5. CASE UNCHANGED vars
  BY <1>5 DEF vars, WakeInv
<1>6. QED
  BY <1>1, <1>2, <1>4, <1>5 DEF Next, Run, Timer

-----------------------------------------------------------------------------
(* What holds of every execution *)

SchedulerInv == Inv /\ ListInv /\ WakeInv

\* All parts of the invariant hold at the start.
LEMMA InitScheduler == Init => SchedulerInv
<1> SUFFICES ASSUME Init PROVE SchedulerInv
  OBVIOUS
<1>1. WakeInv
  BY DEF Init, WakeInv, Threads, KernelThreads
<1>2. QED
  BY <1>1, InitInv, InitList DEF SchedulerInv

\* The parts of the invariant carry each other from step to step.
LEMMA NextScheduler == SchedulerInv /\ [Next]_vars => SchedulerInv'
<1> SUFFICES ASSUME SchedulerInv, [Next]_vars PROVE SchedulerInv'
  OBVIOUS
<1>1. threads_ \in Seq(Threads)
  BY DEF SchedulerInv, ListInv
<1>2. QED
  BY <1>1, NextInv, NextList, NextWake DEF SchedulerInv

\* The invariant holds of every run.
LEMMA SchedulerInvariant == Spec => []SchedulerInv
  BY InitScheduler, NextScheduler, PTL DEF Spec

\* Whoever runs while scheduling is blocked can unblock it: lockScheduling does
\* not find it blocked, and push_back does not wait for the heap, whatever the
\* number of threads and whenever the timer comes.
THEOREM Unblocked == Spec => []BlockedBriefly
<1>1. SchedulerInv => BlockedBriefly
  BY DEF SchedulerInv, Inv, BlockInv, HeapInv, BlockLabels, BlockedBriefly
<1>2. QED
  BY <1>1, SchedulerInvariant, PTL

\* The thread that runs and the one that holds the lock of the heap are in the
\* list of the scheduler, every other one is or waits for its deletion, and one
\* that waits for it stays dead: cleanupDeadThreads never deletes a thread that
\* can still run, however often threads end and are made again.
THEOREM NoThreadLost == Spec => []RunningThreadsExist
<1>1. SchedulerInv => RunningThreadsExist
  <2> SUFFICES ASSUME SchedulerInv PROVE RunningThreadsExist
    OBVIOUS
  <2>1. kmm # NULL => kmm \in Listed
    <3> SUFFICES ASSUME kmm # NULL PROVE kmm \in Listed
      OBVIOUS
    <3>1. kmm \in Threads /\ pc[kmm] \in HeapLabels
      BY DEF SchedulerInv, Inv, HeapInv
    <3>2. kmm \notin destroy_list
      BY <3>1 DEF SchedulerInv, Inv, DeadInv, HeapLabels
    <3>3. QED
      BY <3>1, <3>2 DEF SchedulerInv, ListInv, HeapLabels
  <2>2. QED
    BY <2>1 DEF SchedulerInv, ListInv, Listed, RunningThreadsExist
<1>2. QED
  BY <1>1, SchedulerInvariant, PTL

\* sleepUntil returns only when the time is over, although the thread stays
\* Running: schedule() skips it, and cannot leave it running because it is not
\* blocked there.
THEOREM NobodyWakesEarly == Spec => []SleepsLongEnough
<1>1. SchedulerInv => SleepsLongEnough
  BY DEF SchedulerInv, ListInv, Listed, WakeInv, SleepsLongEnough
<1>2. QED
  BY <1>1, SchedulerInvariant, PTL

-----------------------------------------------------------------------------
(* The threads of the kernel itself *)

\* The cleanup and the idle thread are there and can run at any time.
KernelInv == \A t \in KernelThreads : state[t] = "Running" /\ wakeUp[t] = 0 /\ pc[t] # "none"

\* A step that puts no kernel thread to sleep and only takes the current thread
\* from one label to another.
LEMMA PlainKernel ==
  ASSUME Inv, KernelInv, NEW t \in Threads, NEW l, l # "none", pc' = [pc EXCEPT ![t] = l],
         UNCHANGED <<state, wakeUp>>
  PROVE  KernelInv'
  BY DEF Inv, Types, KernelInv, Threads

\* No step sends a kernel thread to sleep, kills it or deletes it.
LEMMA NextKernel == ASSUME Inv, ListInv, WakeInv, KernelInv, [Next]_vars PROVE KernelInv'
<1> USE DEF threadVars
<1>0. KernelThreads \subseteq Threads /\ KernelThreads \cap UserThreads = {}
  BY SchedulerAssumption DEF Threads
<1>1. ASSUME NEW d \in Intervals, Tick(d)
      PROVE  KernelInv'
  <2>1. wakeUp' = Elapse(wakeUp, d) /\ d \in Nat /\ UNCHANGED <<state, pc>>
    BY <1>1, SchedulerAssumption DEF Tick
  <2>2. \A t \in KernelThreads : wakeUp'[t] = 0
    BY <1>0, <2>1 DEF Elapse, KernelInv
  <2>3. QED
    BY <2>1, <2>2 DEF KernelInv
<1>2. ASSUME NEW t \in Threads, Call(t)
      PROVE  KernelInv'
  <2>1. CASE Yield(t) \/ Heap(t) \/ \E u \in UserThreads : AddNewThread(t, u)
    <3>1. \E l \in {"run", "heap", "add_kmm"} : pc' = [pc EXCEPT ![t] = l]
      BY <2>1 DEF Yield, YieldTo, Goto, Heap, AddNewThread
    <3>2. UNCHANGED <<state, wakeUp>>
      BY <2>1 DEF Yield, Heap, AddNewThread
    <3>3. QED
      BY <3>1, <3>2, PlainKernel
  <2>2. CASE \E u \in UserThreads : Wake(t, u)
    BY <1>0, <2>2 DEF Wake, Inv, Types, KernelInv
  <2>3. ASSUME NEW n \in Durations, SyscallSleep(t, n)
        PROVE  KernelInv'
    BY <1>0, <2>3 DEF SyscallSleep, Goto, Inv, Types, WakeInv, KernelInv
  <2>4. CASE Sleep(t) \/ Kill(t)
    <3>1. t \in UserThreads /\ UNCHANGED wakeUp
      BY <2>4 DEF Sleep, Kill, SetState
    <3>2. \A k \in KernelThreads : state'[k] = state[k] /\ pc'[k] = pc[k]
      BY <1>0, <2>4, <3>1 DEF Sleep, Kill, SetState, Goto, Inv, Types
    <3>3. QED
      BY <3>1, <3>2 DEF KernelInv
  <2>5. QED
    BY <1>2, <2>1, <2>2, <2>3, <2>4 DEF Call
<1>3. ASSUME NEW t \in Threads, NEW from, from # "none", NEW to, to # "none",
             \/ Acquire(t, from, to) \/ Release(t, from, to)
             \/ LockScheduling(t, from, to) \/ UnlockScheduling(t, from, to)
             \/ YieldAfter(t, from, to)
      PROVE  KernelInv'
  <2>1. (\E l \in {from, to} : pc' = [pc EXCEPT ![t] = l]) /\ UNCHANGED <<state, wakeUp>>
    BY <1>3 DEF Acquire, Release, LockScheduling, UnlockScheduling, YieldAfter, YieldTo, Goto
  <2>2. QED
    BY <1>3, <2>1, PlainKernel
<1>4. ASSUME NEW t \in Threads, Continue(t)
      PROVE  KernelInv'
  <2>1. CASE Add(t)
    <3>1. CASE PushBack(t)
      <4>1. newThread[t] \in UserThreads
        BY <3>1 DEF PushBack, Inv, Types, AddInv, AddingLabels, AddLabels
      <4>2. \A k \in KernelThreads : state'[k] = state[k] /\ (pc'[k] = pc[k] \/ pc'[k] = "add_unlock")
        BY <1>0, <3>1, <4>1 DEF PushBack, Inv, Types
      <4>3. QED
        BY <3>1, <4>2 DEF PushBack, KernelInv
    <3>2. QED
      BY <1>3, <2>1, <3>1 DEF Add, BlockWithHeap
  <2>2. CASE \/ Acquire(t, "heap", "heap_locked") \/ Release(t, "heap_locked", "run")
             \/ YieldAfter(t, "sleep_until", "run") \/ YieldAfter(t, "sleep", "run")
             \/ YieldAfter(t, "dying", "dying")
    BY <1>3, <2>2
  <2>3. CASE t = Cleanup /\ CleanupDeadThreads
    <3>1. CASE EraseDead
      BY <3>1 DEF EraseDead, KernelInv
    <3>2. CASE EraseDone \/ CleanupDone
      <4>1. \E l \in {"clean_unlock", "clean_lock"} : pc' = [pc EXCEPT ![t] = l]
        BY <2>3, <3>2 DEF EraseDone, CleanupDone, YieldTo, Goto
      <4>2. UNCHANGED <<state, wakeUp>>
        BY <3>2 DEF EraseDone, CleanupDone
      <4>3. QED
        BY <4>1, <4>2, PlainKernel
    <3>3. CASE DeleteThread
      <4>1. PICK u \in destroy_list :
               /\ state' = [state EXCEPT ![u] = "Running"]
               /\ pc' = [pc EXCEPT ![u] = "none", ![Cleanup] = "clean_delete"]
        BY <3>3 DEF DeleteThread
      <4>2. u \in Threads /\ u \notin KernelThreads
        BY DEF ListInv, KernelInv
      <4>3. \A k \in KernelThreads : state'[k] = state[k] /\ (pc'[k] = pc[k] \/ pc'[k] = "clean_delete")
        BY <1>0, <4>1, <4>2 DEF Inv, Types
      <4>4. QED
        BY <3>3, <4>3 DEF DeleteThread, KernelInv
    <3>4. CASE \/ LockScheduling(t, "clean_lock", "clean_erase")
               \/ UnlockScheduling(t, "clean_unlock", "clean_delete")
               \/ Acquire(t, "clean_delete", "clean_free")
      BY <1>3, <3>4
    <3>5. QED
      BY <2>3, <3>1, <3>2, <3>3, <3>4 DEF CleanupDeadThreads
  <2>4. CASE SleepUntil(t)
    BY <1>0, <2>4 DEF SleepUntil, Goto, Inv, Types, WakeInv, KernelInv
  <2>5. QED
    BY <1>4, <2>1, <2>2, <2>3, <2>4 DEF Continue
<1>5. CASE UNCHANGED vars
  BY <1>5 DEF vars, KernelInv
<1>6. QED
  BY <1>1, <1>2, <1>4, <1>5 DEF Next, Run, Timer

\* The kernel threads can run throughout, together with what the steps rest on.
LEMMA KernelInvariant == Spec => [](SchedulerInv /\ KernelInv)
<1>1. Init => KernelInv
  BY SchedulerAssumption DEF Init, KernelInv, Threads, KernelThreads
<1>2. SchedulerInv /\ KernelInv /\ [Next]_vars => KernelInv'
  BY NextKernel DEF SchedulerInv
<1>3. QED
  BY <1>1, <1>2, InitScheduler, NextScheduler, PTL DEF Spec

\* The variables of the scheduler have their types; in particular only user
\* threads are ever on the list of those to be destroyed.
THEOREM SchedulerTypes == Spec => []TypeOK
<1>1. SchedulerInv /\ KernelInv => TypeOK
  <2> SUFFICES ASSUME SchedulerInv, KernelInv PROVE TypeOK
    OBVIOUS
  <2>1. destroy_list \subseteq UserThreads
    BY DEF SchedulerInv, ListInv, KernelInv, Threads
  <2>2. current \in Threads /\ kmm \in Threads \cup {NULL}
    BY DEF SchedulerInv, ListInv, Listed, Inv, HeapInv
  <2>3. newThread \in [Threads -> Threads \cup {NULL}]
    BY ThreadFacts DEF SchedulerInv, Inv, Types
  <2>4. QED
    BY <2>1, <2>2, <2>3 DEF SchedulerInv, Inv, Types, ListInv, WakeInv, TypeOK
<1>2. QED
  BY <1>1, KernelInvariant, PTL

\* A thread in the list that can be chosen at the given times.
Schedulable(wake) == \E i \in DOMAIN threads_ : Runnable(threads_[i], wake)

\* The assertion "No schedulable thread found" of schedule() never fails, now or
\* at the next tick, whichever threads sleep, die, are added or deleted.
THEOREM AlwaysSchedulable == Spec => [](\A d \in Nat : Schedulable(Elapse(wakeUp, d)))
<1>1. SchedulerInv /\ KernelInv => \A d \in Nat : Schedulable(Elapse(wakeUp, d))
  <2> SUFFICES ASSUME SchedulerInv, KernelInv, NEW d \in Nat PROVE Schedulable(Elapse(wakeUp, d))
    OBVIOUS
  <2>1. Idle \in Threads /\ state[Idle] = "Running" /\ wakeUp[Idle] = 0 /\ pc[Idle] # "none"
    BY ThreadFacts DEF KernelInv, KernelThreads
  <2>2. Idle \in Listed
    BY <2>1 DEF SchedulerInv, ListInv
  <2>3. Elapse(wakeUp, d)[Idle] = 0
    BY <2>1 DEF Elapse
  <2>4. QED
    BY <2>1, <2>2, <2>3 DEF Listed, Schedulable, Runnable
<1>2. QED
  BY <1>1, KernelInvariant, PTL

-----------------------------------------------------------------------------
(* Round robin *)

\* A thread that can run and is not the one that runs next does not fall back in
\* the list; it moves up when the processor goes to another thread, and at every
\* tick at which scheduling is not blocked.
MovesUp ==
    \A i \in DOMAIN threads_ :
        Runnable(threads_[i], wakeUp') /\ threads_[i] # current' =>
            \E j \in 1..i :
                /\ j \in DOMAIN threads_' /\ threads_'[j] = threads_[i]
                /\ current' # current \/ (Timer /\ block_scheduling_ = FALSE) => j < i

\* The threads before the chosen one, which schedule() passes by, cannot run: all
\* others that can are behind it, and come that much closer to the front.
LEMMA ChooseMovesUp ==
  ASSUME ListInv, NEW w, Choose(w), NEW i \in DOMAIN threads_, Runnable(threads_[i], w),
         threads_[i] # current'
  PROVE  \E j \in 1..i : j \in DOMAIN threads_' /\ threads_'[j] = threads_[i] /\ j < i
<1> DEFINE found == {k \in DOMAIN threads_ : Runnable(threads_[k], w)}
<1>1. found \in SUBSET Nat /\ i \in found
  BY DEF ListInv
<1>2. PICK k \in found : k = Min(found) /\ k <= i
  BY <1>1, MinIs
<1>3. current' = threads_[k] /\ threads_' = Rotate(k)
  BY <1>2 DEF Choose
<1>4. k \in DOMAIN threads_ /\ k # i
  BY <1>3
<1>5. PICK n : n = Len(threads_)
  OBVIOUS
<1>6. /\ n \in Nat /\ k \in 1..n /\ DOMAIN threads_ = 1..n /\ DOMAIN Rotate(k) = 1..n
      /\ \A j \in 1..n : Rotate(k)[j] = IF j <= n - k THEN threads_[k + j] ELSE threads_[j - (n - k)]
  BY <1>4, <1>5, RotateIs DEF ListInv
<1> HIDE DEF found
<1>7. i - k \in 1..n /\ i - k <= n - k /\ k + (i - k) = i /\ i - k \in 1..i /\ i - k < i
  BY <1>2, <1>4, <1>6
<1>8. QED
  BY <1>3, <1>6, <1>7

\* A step that schedules, at the times that hold after it.
LEMMA ScheduleMovesUp ==
  ASSUME ListInv, Types, NEW w, w = wakeUp', Schedule(w)
  PROVE  MovesUp
<1>1. CASE Blocked(block_scheduling_) /\ UNCHANGED queueVars
  <2>1. UNCHANGED <<threads_, current>> /\ block_scheduling_ = TRUE
    BY <1>1 DEF Blocked, queueVars
  <2>2. \A i \in DOMAIN threads_ : i \in 1..i
    BY DEF ListInv
  <2>3. QED
    BY <2>1, <2>2 DEF MovesUp
<1>2. CASE Choose(w)
  BY <1>2, ChooseMovesUp DEF MovesUp
<1>3. QED
  BY <1>1, <1>2 DEF Schedule

\* A step between two ticks in which the current thread stays and keeps the list.
LEMMA StayingMovesUp ==
  ASSUME ListInv, UNCHANGED current, ~Timer,
         \A i \in DOMAIN threads_ : i \in DOMAIN threads_' /\ threads_'[i] = threads_[i]
  PROVE  MovesUp
<1>1. \A i \in DOMAIN threads_ : i \in 1..i
  BY DEF ListInv
<1>2. QED
  BY <1>1 DEF MovesUp

\* push_back adds behind all others, and what cleanupDeadThreads erases cannot run.
LEMMA ListMovesUp ==
  ASSUME Inv, ListInv, (\E t \in Threads : PushBack(t)) \/ EraseDead, ~Timer
  PROVE  MovesUp
<1>1. UNCHANGED current
  BY DEF PushBack, EraseDead
<1>2. ASSUME NEW t \in Threads, PushBack(t)
      PROVE  MovesUp
  <2>1. newThread[t] \in Threads
    BY <1>2, ThreadFacts DEF PushBack, Inv, Types, AddInv, AddingLabels, AddLabels
  <2>2. threads_' = Append(threads_, newThread[t])
    BY <1>2 DEF PushBack
  <2>3. \A i \in DOMAIN threads_ : i \in DOMAIN threads_' /\ threads_'[i] = threads_[i]
    BY <2>1, <2>2, AppendProperties DEF ListInv
  <2>4. QED
    BY <1>1, <2>3, StayingMovesUp
<1>3. CASE EraseDead
  <2>1. PICK e \in DOMAIN threads_ :
           /\ state[threads_[e]] = "ToBeDestroyed"
           /\ \A k \in DOMAIN threads_ :
                 /\ k < e => k \in DOMAIN threads_' /\ threads_'[k] = threads_[k]
                 /\ k > e => k - 1 \in DOMAIN threads_' /\ threads_'[k - 1] = threads_[k]
    BY <1>3, EraseIs
  <2>2. SUFFICES ASSUME NEW i \in DOMAIN threads_, state[threads_[i]] = "Running"
                 PROVE  \E j \in 1..i : j \in DOMAIN threads_' /\ threads_'[j] = threads_[i]
    BY <1>1 DEF MovesUp, Runnable
  <2>3. i \in Nat \ {0} /\ e \in Nat \ {0} /\ i # e
    BY <2>1, <2>2 DEF ListInv
  <2>4. CASE i < e
    BY <2>1, <2>3, <2>4
  <2>5. CASE i > e
    <3>1. i - 1 \in 1..i
      BY <2>3, <2>5
    <3>2. QED
      BY <2>1, <2>5, <3>1
  <2>6. QED
    BY <2>3, <2>4, <2>5
<1>4. QED
  BY <1>2, <1>3

\* The scheduler is a round robin, for any number of threads: nobody overtakes a
\* thread that can run.  (With the ticks that go on, this is why NobodyStarves.)
THEOREM RoundRobin == Spec => [][MovesUp]_vars
<1>1. ASSUME SchedulerInv, Next
      PROVE  MovesUp
  <2> USE DEF queueVars, threadVars
  <2>0. Inv /\ ListInv /\ Types
    BY <1>1 DEF SchedulerInv, Inv
  <2>1. CASE Timer
    <3>1. PICK d \in Intervals : Tick(d)
      BY <2>1 DEF Timer
    <3>2. PICK w : w = wakeUp'
      OBVIOUS
    <3>3. QED
      BY <2>0, <3>1, <3>2, ScheduleMovesUp DEF Tick
  <2>2. ASSUME ~Timer, UNCHANGED wakeUp, UNCHANGED <<threads_, current>> \/ Schedule(wakeUp)
        PROVE  MovesUp
    BY <2>0, <2>2, ScheduleMovesUp, StayingMovesUp
  <2>3. ASSUME NEW t \in Threads, Call(t), ~Timer
        PROVE  MovesUp
    <3>1. CASE \E n \in Durations : SyscallSleep(t, n)
      BY <2>0, <2>3, <3>1, StayingMovesUp DEF SyscallSleep
    <3>2. CASE Yield(t) \/ Heap(t) \/ Sleep(t) \/ Kill(t)
      BY <2>2, <2>3, <3>2 DEF Yield, YieldTo, Heap, Sleep, Kill, SetState
    <3>3. CASE \E u \in UserThreads : AddNewThread(t, u) \/ Wake(t, u)
      BY <2>2, <2>3, <3>3 DEF AddNewThread, Wake
    <3>4. QED
      BY <2>3, <3>1, <3>2, <3>3 DEF Call
  <2>4. ASSUME ~Timer, NEW t \in Threads, NEW from, NEW to,
               \/ Acquire(t, from, to) \/ Release(t, from, to)
               \/ LockScheduling(t, from, to) \/ UnlockScheduling(t, from, to)
               \/ YieldAfter(t, from, to)
        PROVE  MovesUp
    <3>1. CASE Acquire(t, from, to) \/ Release(t, from, to)
      BY <2>2, <2>4, <3>1 DEF Acquire, Release, YieldTo
    <3>2. CASE LockScheduling(t, from, to) \/ UnlockScheduling(t, from, to) \/ YieldAfter(t, from, to)
      BY <2>2, <2>4, <3>2 DEF LockScheduling, UnlockScheduling, YieldAfter, YieldTo
    <3>3. QED
      BY <2>4, <3>1, <3>2
  <2>5. ASSUME NEW t \in Threads, Continue(t), ~Timer
        PROVE  MovesUp
    <3>1. CASE Add(t)
      BY <2>0, <2>4, <2>5, <3>1, ListMovesUp DEF Add, BlockWithHeap
    <3>2. CASE \/ Acquire(t, "heap", "heap_locked") \/ Release(t, "heap_locked", "run")
               \/ YieldAfter(t, "sleep_until", "run") \/ YieldAfter(t, "sleep", "run")
               \/ YieldAfter(t, "dying", "dying")
      BY <2>4, <2>5, <3>2
    <3>3. CASE t = Cleanup /\ CleanupDeadThreads
      <4>1. CASE EraseDead
        BY <2>0, <2>5, <4>1, ListMovesUp
      <4>2. CASE EraseDone \/ DeleteThread \/ CleanupDone
        BY <2>2, <2>5, <4>2 DEF EraseDone, DeleteThread, CleanupDone, YieldTo
      <4>3. CASE \/ LockScheduling(t, "clean_lock", "clean_erase")
                 \/ UnlockScheduling(t, "clean_unlock", "clean_delete")
                 \/ Acquire(t, "clean_delete", "clean_free")
        BY <2>4, <2>5, <4>3
      <4>4. QED
        BY <3>3, <4>1, <4>2, <4>3 DEF CleanupDeadThreads
    <3>4. CASE SleepUntil(t)
      BY <2>0, <2>5, <3>4, StayingMovesUp DEF SleepUntil
    <3>5. QED
      BY <2>5, <3>1, <3>2, <3>3, <3>4 DEF Continue
  <2>6. QED
    BY <1>1, <2>1, <2>3, <2>5 DEF Next, Run
<1>2. SchedulerInv /\ [Next]_vars => [MovesUp]_vars
  BY <1>1
<1>3. QED
  BY <1>2, SchedulerInvariant, PTL DEF Spec
=============================================================================
