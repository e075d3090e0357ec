----------------------------- MODULE Scheduler -----------------------------
(***************************************************************************)
(* The run queue of the scheduler on its one processor: the timer and      *)
(* yield, threads that sleep for a time or until they are woken, threads   *)
(* that are added and destroyed while scheduling is blocked, and the       *)
(* spinlock of the kernel's heap.                                          *)
(*                                                                         *)
(* Only `current' takes steps; the timer may interrupt it between any two. *)
(* Times are relative to the present one: wakeUp[t] is how long t has      *)
(* still to sleep, and time passes at the ticks of the timer.              *)
(***************************************************************************)
EXTENDS Naturals, Sequences, FiniteSets, FiniteSetsExt

CONSTANTS
    UserThreads,              \* all threads but the two that follow
    Cleanup, Idle,            \* the threads the scheduler makes itself
    Intervals,                \* the clocks from one tick to the next
    Durations,                \* for how many clocks a thread sleeps
    DestroyMax,               \* the 1024 of cleanupDeadThreads
    NULL

KernelThreads == {Cleanup, Idle}
Threads == UserThreads \cup KernelThreads

ASSUME SchedulerAssumption ==
    /\ KernelThreads \cap UserThreads = {} /\ Cleanup # Idle /\ NULL \notin Threads
    /\ Intervals \subseteq Nat \ {0} /\ Intervals # {}
    /\ Durations \subseteq Nat
    /\ DestroyMax \in Nat \ {0}

VARIABLES
    threads_,            \* Scheduler::threads_
    current,             \* currentThread
    block_scheduling_,
    state,               \* Thread::state_
    wakeUp,              \* UserThread::time_to_wakeup_, 0 if it is over
    kmm,                 \* the thread that holds KernelMemoryManager::lock_
    pc,
    newThread,           \* the thread that addNewThread adds
    destroy_list,        \* the threads cleanupDeadThreads has still to delete
    asked                \* the argument of sleepUntil, and from then on, as a
                         \* history, what is left of that time

queueVars == <<threads_, current>>
threadVars == <<state, wakeUp, asked>>
vars == <<queueVars, block_scheduling_, threadVars, kmm, pc, newThread, destroy_list>>

\* Labels of addNewThread, of new and delete, of the rest of the calls of user
\* threads, and of the cleanup thread.
AddLabels == {"add_kmm", "add_lock", "add_release", "add_push", "add_realloc",
              "add_grown", "add_unlock"}
Labels == AddLabels \cup
    {"none", "run", "heap", "heap_locked", "sleep_call", "sleep_until", "sleep", "dying",
     "clean_lock", "clean_erase", "clean_unlock", "clean_delete", "clean_free"}

\* Every variable has its type.
TypeOK ==
    /\ threads_ \in Seq(Threads)
    /\ current \in Threads
    /\ block_scheduling_ \in BOOLEAN
    /\ state \in [Threads -> {"Running", "Sleeping", "ToBeDestroyed"}]
    /\ wakeUp \in [Threads -> Nat]
    /\ asked \in [Threads -> Nat]
    /\ kmm \in Threads \cup {NULL}
    /\ pc \in [Threads -> Labels]
    /\ newThread \in [Threads -> Threads \cup {NULL}]
    /\ destroy_list \subseteq UserThreads

\* main has added a thread and yields for the last time: the scheduler chooses
\* the head of its list, the cleanup thread.
Init ==
    /\ \E t \in UserThreads :
          /\ threads_ = <<Idle, t, Cleanup>>
          /\ pc = [u \in Threads |-> IF u = Cleanup THEN "clean_lock"
                                     ELSE IF u \in {Idle, t} THEN "run" ELSE "none"]
    /\ current = Cleanup
    /\ block_scheduling_ = FALSE
    /\ state = [t \in Threads |-> "Running"]
    /\ wakeUp = [t \in Threads |-> 0]
    /\ asked = [t \in Threads |-> 0]
    /\ kmm = NULL
    /\ newThread = [t \in Threads |-> NULL]
    /\ destroy_list = {}

Goto(t, label) == pc' = [pc EXCEPT ![t] = label]

-----------------------------------------------------------------------------
(* Scheduler::schedule *)

\* A user thread whose time has not come is skipped, whatever its state.
\* MUTANT: it is not.
RunnableAnyTime(t, wake) == state[t] = "Running"
Runnable(t, wake) == state[t] = "Running" /\ wake[t] = 0

\* The threads up to the chosen one go to the end of the list.
\* MUTANT: the list stays as it is.
Stay(i) == threads_
Rotate(i) == SubSeq(threads_, i + 1, Len(threads_)) \o SubSeq(threads_, 1, i)

Blocked(b) == b = TRUE

\* The first runnable thread is chosen (the code asserts that there is one).
Choose(wake) ==
    LET found == {i \in DOMAIN threads_ : Runnable(threads_[i], wake)}
    IN  /\ found # {}
        /\ current' = threads_[Min(found)]
        /\ threads_' = Rotate(Min(found))

Schedule(wake) ==
    \/ Blocked(block_scheduling_) /\ UNCHANGED queueVars
    \/ ~Blocked(block_scheduling_) /\ Choose(wake)

-----------------------------------------------------------------------------
(* The timer: irqHandler_0 *)

Elapse(f, d) == [t \in Threads |-> IF f[t] > d THEN f[t] - d ELSE 0]

\* d clocks have passed since the last tick.
Tick(d) ==
    /\ wakeUp' = Elapse(wakeUp, d)
    /\ asked' = Elapse(asked, d)
    /\ UNCHANGED state
    /\ Schedule(wakeUp')
    /\ UNCHANGED <<block_scheduling_, kmm, pc, newThread, destroy_list>>

-----------------------------------------------------------------------------
(* Scheduler::yield, and the threads that do nothing else *)

\* The thread goes on at the label when it is chosen again.
YieldTo(t, label) ==
    /\ Goto(t, label)
    /\ Schedule(wakeUp)

Yield(t) ==
    /\ pc[t] = "run"
    /\ YieldTo(t, "run")
    /\ UNCHANGED <<block_scheduling_, threadVars, kmm, newThread, destroy_list>>

-----------------------------------------------------------------------------
(* SpinLock: the lock of the kernel's heap *)

\* SpinLock::acquire yields until it gets the lock.
Acquire(t, from, to) ==
    /\ pc[t] = from
    /\ \/ kmm = NULL /\ kmm' = t /\ Goto(t, to) /\ UNCHANGED queueVars
       \/ kmm # NULL /\ YieldTo(t, from) /\ UNCHANGED kmm
    /\ UNCHANGED <<block_scheduling_, threadVars, newThread, destroy_list>>

\* SpinLock::release.
Release(t, from, to) ==
    /\ pc[t] = from
    /\ kmm' = NULL
    /\ Goto(t, to)
    /\ UNCHANGED <<queueVars, block_scheduling_, threadVars, newThread, destroy_list>>

\* A thread uses new or delete.
Heap(t) ==
    /\ pc[t] = "run" /\ t # Idle
    /\ Goto(t, "heap")
    /\ UNCHANGED <<queueVars, block_scheduling_, threadVars, kmm, newThread, destroy_list>>

-----------------------------------------------------------------------------
(* Scheduler::addNewThread *)

AddNewThread(t, u) ==
    /\ pc[t] = "run" /\ t # Idle /\ pc[u] = "none"
    /\ \A v \in Threads : newThread[v] # u
    /\ newThread' = [newThread EXCEPT ![t] = u]
    /\ Goto(t, "add_kmm")
    /\ UNCHANGED <<queueVars, block_scheduling_, threadVars, kmm, destroy_list>>

\* Scheduler::lockScheduling halts the kernel if it is locked already.
LockScheduling(t, from, to) ==
    /\ pc[t] = from
    /\ block_scheduling_ = FALSE
    /\ block_scheduling_' = TRUE
    /\ Goto(t, to)
    /\ UNCHANGED <<queueVars, threadVars, kmm, newThread, destroy_list>>

UnlockScheduling(t, from, to) ==
    /\ pc[t] = from
    /\ block_scheduling_' = FALSE
    /\ Goto(t, to)
    /\ UNCHANGED <<queueVars, threadVars, kmm, newThread, destroy_list>>

\* threads_.push_back, which may get a larger array from the heap first.
PushBack(t) ==
    LET u == newThread[t] IN
    /\ pc[t] \in {"add_push", "add_grown"}
    /\ threads_' = Append(threads_, u)
    /\ state' = [state EXCEPT ![u] = "Running"]
    /\ pc' = [pc EXCEPT ![t] = "add_unlock", ![u] = "run"]
    /\ newThread' = [newThread EXCEPT ![t] = NULL]
    /\ UNCHANGED <<current, block_scheduling_, wakeUp, asked, kmm, destroy_list>>

\* The lock of the heap is held when scheduling is blocked, so that no other
\* thread holds it from then on.
\* MUTANT: it is released too early.
ReleaseThenBlock(t) ==
    \/ Acquire(t, "add_kmm", "add_release")
    \/ Release(t, "add_release", "add_lock")
    \/ LockScheduling(t, "add_lock", "add_push")
BlockWithHeap(t) ==
    \/ Acquire(t, "add_kmm", "add_lock")
    \/ LockScheduling(t, "add_lock", "add_release")
    \/ Release(t, "add_release", "add_push")

Add(t) ==
    \/ BlockWithHeap(t)
    \/ Acquire(t, "add_push", "add_realloc") \/ Release(t, "add_realloc", "add_grown")
    \/ PushBack(t)
    \/ UnlockScheduling(t, "add_unlock", "run")

-----------------------------------------------------------------------------
(* Sleeping and ending *)

\* Syscall::sleep.  The time is the seconds asked for times an average that the
\* timer keeps (clocks per interrupt), which may be anything, even zero.
SyscallSleep(t, n) ==
    /\ pc[t] = "run" /\ t \in UserThreads
    /\ asked' = [asked EXCEPT ![t] = n]
    /\ Goto(t, "sleep_call")
    /\ UNCHANGED <<queueVars, block_scheduling_, state, wakeUp, kmm, newThread, destroy_list>>

\* UserThread::sleepUntil returns if the time is over, or else sets it, and then
\* yields with the thread running.  At the very clock of the time it does either.
SleepUntil(t) ==
    /\ pc[t] = "sleep_call" /\ t \in UserThreads
    /\ \/ asked[t] = 0 /\ Goto(t, "run") /\ UNCHANGED wakeUp
       \/ wakeUp' = [wakeUp EXCEPT ![t] = asked[t]] /\ Goto(t, "sleep_until")
    /\ UNCHANGED <<queueVars, block_scheduling_, state, asked, kmm, newThread, destroy_list>>

SetState(t, s, label) ==
    /\ pc[t] = "run" /\ t \in UserThreads
    /\ state' = [state EXCEPT ![t] = s]
    /\ Goto(t, label)
    /\ UNCHANGED <<queueVars, block_scheduling_, wakeUp, asked, kmm, newThread, destroy_list>>

\* Scheduler::sleep until another thread calls Scheduler::wake, and
\* Thread::kill of the thread itself.
Sleep(t) == SetState(t, "Sleeping", "sleep")
Kill(t) == SetState(t, "ToBeDestroyed", "dying")

YieldAfter(t, from, to) ==
    /\ pc[t] = from
    /\ YieldTo(t, to)
    /\ UNCHANGED <<block_scheduling_, threadVars, kmm, newThread, destroy_list>>

Wake(t, u) ==
    /\ pc[t] = "run" /\ t # Idle
    /\ state[u] = "Sleeping"
    /\ state' = [state EXCEPT ![u] = "Running"]
    /\ UNCHANGED <<queueVars, block_scheduling_, wakeUp, asked, kmm, pc, newThread, destroy_list>>

-----------------------------------------------------------------------------
(* Scheduler::cleanupDeadThreads *)

\* MUTANT: every thread that is not running.
NotRunning == {i \in DOMAIN threads_ : state[threads_[i]] # "Running"}
Dead == {i \in DOMAIN threads_ : state[threads_[i]] = "ToBeDestroyed"}

\* One round of the loop: the first dead thread moves from the list of threads
\* to the one on the stack, until that is full.
EraseDead ==
    LET i == Min(Dead) IN
    /\ pc[Cleanup] = "clean_erase"
    /\ Dead # {} /\ Cardinality(destroy_list) < DestroyMax
    /\ destroy_list' = destroy_list \cup {threads_[i]}
    /\ threads_' = SubSeq(threads_, 1, i - 1) \o SubSeq(threads_, i + 1, Len(threads_))
    /\ UNCHANGED <<current, block_scheduling_, threadVars, kmm, pc, newThread>>

EraseDone ==
    /\ pc[Cleanup] = "clean_erase"
    /\ Dead = {} \/ Cardinality(destroy_list) >= DestroyMax
    /\ Goto(Cleanup, "clean_unlock")
    /\ UNCHANGED <<queueVars, block_scheduling_, threadVars, kmm, newThread, destroy_list>>

\* delete of a thread, with the lock of the heap; it may be made again.
DeleteThread ==
    /\ pc[Cleanup] = "clean_free"
    /\ kmm' = NULL
    /\ \E t \in destroy_list :
          /\ destroy_list' = destroy_list \ {t}
          /\ state' = [state EXCEPT ![t] = "Running"]
          /\ pc' = [pc EXCEPT ![t] = "none", ![Cleanup] = "clean_delete"]
    /\ UNCHANGED <<queueVars, block_scheduling_, wakeUp, asked, newThread>>

CleanupDone ==
    /\ pc[Cleanup] = "clean_delete" /\ destroy_list = {}
    /\ YieldTo(Cleanup, "clean_lock")
    /\ UNCHANGED <<block_scheduling_, threadVars, kmm, newThread, destroy_list>>

CleanupDeadThreads ==
    \/ LockScheduling(Cleanup, "clean_lock", "clean_erase")
    \/ EraseDead \/ EraseDone
    \/ UnlockScheduling(Cleanup, "clean_unlock", "clean_delete")
    \/ destroy_list # {} /\ Acquire(Cleanup, "clean_delete", "clean_free")
    \/ DeleteThread
    \/ CleanupDone

-----------------------------------------------------------------------------
(* The specification *)

\* What the thread does of its own accord, and what it is in the middle of.
Call(t) ==
    \/ Yield(t) \/ Heap(t) \/ Sleep(t) \/ Kill(t)
    \/ \E u \in UserThreads : AddNewThread(t, u) \/ Wake(t, u)
    \/ \E n \in Durations : SyscallSleep(t, n)

Continue(t) ==
    \/ Add(t)
    \/ Acquire(t, "heap", "heap_locked") \/ Release(t, "heap_locked", "run")
    \/ SleepUntil(t) \/ YieldAfter(t, "sleep_until", "run")
    \/ YieldAfter(t, "sleep", "run") \/ YieldAfter(t, "dying", "dying")
    \/ t = Cleanup /\ CleanupDeadThreads

Run(t) == current = t /\ (Call(t) \/ Continue(t))

Timer == \E d \in Intervals : Tick(d)

Next == Timer \/ \E t \in Threads : Run(t)

\* The timer goes on ticking and the processor executes the current thread.
Fairness ==
    /\ WF_vars(Timer)
    /\ \A t \in Threads : WF_vars(current = t /\ Continue(t))

Spec == Init /\ [][Next]_vars /\ Fairness

-----------------------------------------------------------------------------
(* Properties *)

\* Whoever runs while scheduling is blocked can unblock it: lockScheduling
\* never finds it blocked ("How the Hell did the program flow get here then ?",
\* Scheduler.cpp:222), and nobody spins on the lock of the heap meanwhile, as
\* its holder could not run to release it (addNewThread allocates while
\* scheduling is blocked).
BlockedBriefly ==
    block_scheduling_ = TRUE =>
        /\ pc[current] \in {"add_release", "add_push", "add_realloc", "add_grown",
                            "add_unlock", "clean_erase", "clean_unlock"}
        /\ pc[current] = "add_push" => kmm = NULL

\* The thread that runs has not been destroyed, nor has one that holds the lock
\* of the heap, and none that will be deleted can be woken or run again.
RunningThreadsExist ==
    LET listed == {threads_[i] : i \in DOMAIN threads_} IN
    /\ current \in listed
    /\ kmm # NULL => kmm \in listed
    /\ \A t \in Threads : pc[t] # "none" => t \in listed \cup destroy_list
    /\ \A t \in destroy_list : state[t] = "ToBeDestroyed"

\* When sleepUntil returns, the thread has slept as long as it asked for,
\* although its state stays Running.
SleepsLongEnough == pc[current] = "run" => asked[current] = 0

\* A thread that is running, or that sleeps for a time, gets the processor.
NobodyStarves ==
    \A t \in Threads :
        (pc[t] # "none" /\ state[t] = "Running") ~> (current = t \/ state[t] # "Running")
=============================================================================
