---------------------------- MODULE KernelLocks ----------------------------
(***************************************************************************)
(* The blocking locks of the kernel: Mutex and Condition on top of Lock,   *)
(* and the Scheduler::sleep / Scheduler::wake handshake they rest on.      *)
(*                                                                         *)
(* Kernel code is preemptible, so every step below is one access to memory *)
(* another thread can see (or a block the waiters list lock protects), and *)
(* steps of different threads interleave freely.  pc[t] is the statement   *)
(* thread t executes next; "client" is kernel code outside these classes.  *)
(*                                                                         *)
(* An assertion of the code is the guard of the step that makes it (a      *)
(* failing assertion halts the kernel) and a conjunct of AssertionsHold.   *)
(***************************************************************************)
EXTENDS Naturals, Sequences, FiniteSets

CONSTANTS
    Threads,      \* Thread*
    Mutexes,      \* Mutex*
    Conditions,   \* Condition*
    CondMutex,    \* Condition::mutex_ of every condition
    Rank,         \* the order in which kernel code nests mutexes
    NULL          \* the null pointer

Locks == Mutexes \cup Conditions

ASSUME LocksAssumption ==
    /\ Mutexes \cap Conditions = {}
    /\ NULL \notin Threads \cup Locks
    /\ CondMutex \in [Conditions -> Mutexes]
    /\ Rank \in [Mutexes -> Nat]

VARIABLES
    mutex_,               \* Mutex::mutex_: the test-and-set word
    held_by_,             \* Lock::held_by_
    waiters_list_,        \* Lock::waiters_list_, longest waiting thread first
    waiters_list_lock_,   \* Lock::waiters_list_lock_: the list's spinlock
    holding_lock_list_,   \* Thread::holding_lock_list_, as a set
    lock_waiting_on_,     \* Thread::lock_waiting_on_
    state_,               \* Thread::state_
    pc,                   \* the next statement of each thread
    lock,                 \* `this' of the Lock method the thread executes
    cond,                 \* `this' of an enclosing Condition::wait, or NULL
    flag,                 \* re_acquire_mutex of wait, broadcast of signal
    wakee                 \* thread_to_be_woken_up

lockVars == <<mutex_, held_by_, waiters_list_, waiters_list_lock_>>
threadVars == <<holding_lock_list_, lock_waiting_on_, state_>>
callVars == <<pc, lock, cond, flag, wakee>>
vars == <<lockVars, threadVars, callVars>>

Labels == {"client",
           "check", "try", "acq_list", "retry", "recheck", "own",  \* acquire
           "check_nb", "try_nb",                                   \* acquireNonBlocking
           "disown", "clear", "rel_list", "rel_pop",               \* release
           "wait_list", "sig_list", "sig_pop",                     \* Condition
           "push", "sleep", "asleep",                              \* sleepAndRelease
           "wake"}                                                 \* Scheduler::wake

TypeOK ==
    /\ mutex_ \in [Mutexes -> {0, 1}]
    /\ held_by_ \in [Mutexes -> Threads \cup {NULL}]
    /\ waiters_list_ \in [Locks -> Seq(Threads)]
    /\ waiters_list_lock_ \in [Locks -> {0, 1}]
    /\ holding_lock_list_ \in [Threads -> SUBSET Mutexes]
    /\ lock_waiting_on_ \in [Threads -> Locks \cup {NULL}]
    /\ state_ \in [Threads -> {"Running", "Sleeping"}]
    /\ pc \in [Threads -> Labels]
    /\ lock \in [Threads -> Locks \cup {NULL}]
    /\ cond \in [Threads -> Conditions \cup {NULL}]
    /\ flag \in [Threads -> BOOLEAN]
    /\ wakee \in [Threads -> Threads \cup {NULL}]

-----------------------------------------------------------------------------
(* Helpers *)

OnList(t, l) == \E i \in 1..Len(waiters_list_[l]) : waiters_list_[l][i] = t

\* One call of checkForCircularDeadLock(u, _) recurses to every thread on the
\* waiters list of a lock u holds.
WaitsBehind(u, v) == \E m \in holding_lock_list_[u] : OnList(v, m)

\* Lock::checkForCircularDeadLock(t, start): the recursion meets a thread that
\* holds start, that is, every set of threads closed under it does.  The walk
\* takes no lock and may see lists of different moments; here it is one step.
CircularDeadLock(t, start) ==
    \A S \in SUBSET Threads :
        (/\ t \in S
         /\ \A u \in S, v \in Threads : WaitsBehind(u, v) => v \in S)
        => \E u \in S : start \in holding_lock_list_[u]

\* Lock::doChecksBeforeWaiting, interrupts being enabled in a system call.
ChecksBeforeWaiting(t, m) ==
    /\ lock_waiting_on_[t] = NULL
    /\ held_by_[m] # t
    /\ ~CircularDeadLock(t, m)

\* ArchThreads::testSetLock(mutex_, 1), as a store and as the value it returns.
Set(m) == mutex_' = [mutex_ EXCEPT ![m] = 1]

\* MUTANT: held_by_ is read in place of mutex_.
HolderIsNull(m) == held_by_[m] = NULL
WasFree(m) == mutex_[m] = 0

\* Lock::lockWaitersList, once its test-and-set wins, and unlockWaitersList.
\* MUTANTS: the list is entered without spinning; it is not unlocked.
EnterList(l) == waiters_list_lock_' = [waiters_list_lock_ EXCEPT ![l] = 1]
LeaveListLocked(l) == UNCHANGED waiters_list_lock_
LockList(l) ==
    /\ waiters_list_lock_[l] = 0
    /\ waiters_list_lock_' = [waiters_list_lock_ EXCEPT ![l] = 1]
UnlockList(l) == waiters_list_lock_' = [waiters_list_lock_ EXCEPT ![l] = 0]

\* Lock::pushFrontCurrentThreadToWaitersList, popBackThreadFromWaitersList: the
\* list is kept with the longest waiting thread, which is popped, at its head.
\* MUTANT: the pushed thread becomes the one that is popped first.
PushOldest(q, t) == <<t>> \o q
PushFront(q, t) == Append(q, t)

Goto(t, label) == pc' = [pc EXCEPT ![t] = label]

-----------------------------------------------------------------------------
Init ==
    /\ mutex_ = [m \in Mutexes |-> 0]
    /\ held_by_ = [m \in Mutexes |-> NULL]
    /\ waiters_list_ = [l \in Locks |-> <<>>]
    /\ waiters_list_lock_ = [l \in Locks |-> 0]
    /\ holding_lock_list_ = [t \in Threads |-> {}]
    /\ lock_waiting_on_ = [t \in Threads |-> NULL]
    /\ state_ = [t \in Threads |-> "Running"]
    /\ pc = [t \in Threads |-> "client"]
    /\ lock = [t \in Threads |-> NULL]
    /\ cond = [t \in Threads |-> NULL]
    /\ flag = [t \in Threads |-> FALSE]
    /\ wakee = [t \in Threads |-> NULL]

-----------------------------------------------------------------------------
(* Calls from kernel code.  Clients nest mutexes in increasing Rank and     *)
(* hold nothing but the condition's mutex when they wait on it.             *)

MayNest(t, m) == \A h \in holding_lock_list_[t] : Rank[h] < Rank[m]

\* Mutex::acquire and Mutex::acquireNonBlocking.
CallAcquire(t, m, label) ==
    /\ pc[t] = "client"
    /\ MayNest(t, m)
    /\ Goto(t, label)
    /\ lock' = [lock EXCEPT ![t] = m]
    /\ UNCHANGED <<lockVars, threadVars, cond, flag, wakee>>

\* Mutex::release, called by a thread on a mutex it holds.
CallRelease(t, m) ==
    /\ pc[t] = "client"
    /\ m \in holding_lock_list_[t]
    /\ Goto(t, "disown")
    /\ lock' = [lock EXCEPT ![t] = m]
    /\ UNCHANGED <<lockVars, threadVars, cond, flag, wakee>>

\* Condition::wait(re_acquire_mutex) and waitAndRelease, of a client that holds
\* only the mutex of the condition (with more, the code warns and goes on).
CallWait(t, c, re_acquire_mutex) ==
    /\ pc[t] = "client"
    /\ holding_lock_list_[t] = {CondMutex[c]}
    /\ held_by_[CondMutex[c]] = t
    /\ lock_waiting_on_[t] = NULL
    /\ Goto(t, "wait_list")
    /\ lock' = [lock EXCEPT ![t] = c]
    /\ cond' = [cond EXCEPT ![t] = c]
    /\ flag' = [flag EXCEPT ![t] = re_acquire_mutex]
    /\ UNCHANGED <<lockVars, threadVars, wakee>>

\* assert(mutex_->isHeldBy(currentThread)) of wait and signal.
\* MUTANT: the mutex is not required.
NeedNotHold(t, c) == TRUE
HoldsMutexOf(t, c) ==
    CondMutex[c] \in holding_lock_list_[t] /\ held_by_[CondMutex[c]] = t

\* Condition::signal(broadcast).
CallSignal(t, c, broadcast) ==
    /\ pc[t] = "client"
    /\ HoldsMutexOf(t, c)
    /\ Goto(t, "sig_list")
    /\ lock' = [lock EXCEPT ![t] = c]
    /\ flag' = [flag EXCEPT ![t] = broadcast]
    /\ UNCHANGED <<lockVars, threadVars, cond, wakee>>

-----------------------------------------------------------------------------
(* Mutex::acquire *)

\* doChecksBeforeWaiting, on entry.
Check(t) ==
    /\ pc[t] \in {"check", "check_nb"}
    /\ ChecksBeforeWaiting(t, lock[t])
    /\ \/ pc[t] = "check" /\ Goto(t, "try")
       \/ pc[t] = "check_nb" /\ Goto(t, "try_nb")
    /\ UNCHANGED <<lockVars, threadVars, lock, cond, flag, wakee>>

\* The test-and-set of the while condition; acquireNonBlocking gives up.
TestSet(t) ==
    /\ pc[t] \in {"try", "try_nb"}
    /\ Set(lock[t])
    /\ \/ WasFree(lock[t]) /\ Goto(t, "own")
       \/ ~WasFree(lock[t]) /\ pc[t] = "try" /\ Goto(t, "acq_list")
       \/ ~WasFree(lock[t]) /\ pc[t] = "try_nb" /\ Goto(t, "client")
    /\ UNCHANGED <<held_by_, waiters_list_, waiters_list_lock_, threadVars,
                   lock, cond, flag, wakee>>

\* MUTANT: the mutex is not tested again once the list is locked.
SleepWithoutSecondTest(t) ==
    /\ pc[t] = "retry"
    /\ Goto(t, "recheck")
    /\ UNCHANGED <<lockVars, threadVars, lock, cond, flag, wakee>>

\* The second test-and-set, made with the waiters list locked.
TestSetAgain(t) ==
    /\ pc[t] = "retry"
    /\ Set(lock[t])
    /\ \/ WasFree(lock[t]) /\ Goto(t, "own") /\ UnlockList(lock[t])
       \/ ~WasFree(lock[t]) /\ Goto(t, "recheck") /\ UNCHANGED waiters_list_lock_
    /\ UNCHANGED <<held_by_, waiters_list_, threadVars, lock, cond, flag, wakee>>

\* doChecksBeforeWaiting, once the thread is bound to sleep.
CheckAgain(t) ==
    /\ pc[t] = "recheck"
    /\ ChecksBeforeWaiting(t, lock[t])
    /\ Goto(t, "push")
    /\ UNCHANGED <<lockVars, threadVars, lock, cond, flag, wakee>>

\* assert(held_by_ == 0); pushFrontToCurrentThreadHoldingList; held_by_ = ...
Own(t) ==
    /\ pc[t] = "own"
    /\ held_by_[lock[t]] = NULL
    /\ held_by_' = [held_by_ EXCEPT ![lock[t]] = t]
    /\ holding_lock_list_' = [holding_lock_list_ EXCEPT ![t] = @ \cup {lock[t]}]
    /\ Goto(t, "client")
    /\ UNCHANGED <<mutex_, waiters_list_, waiters_list_lock_, lock_waiting_on_,
                   state_, lock, cond, flag, wakee>>

-----------------------------------------------------------------------------
(* Mutex::release *)

\* checkInvalidRelease; removeFromCurrentThreadHoldingList; held_by_ = 0.
Disown(t) ==
    /\ pc[t] = "disown"
    /\ held_by_[lock[t]] = t
    /\ held_by_' = [held_by_ EXCEPT ![lock[t]] = NULL]
    /\ holding_lock_list_' = [holding_lock_list_ EXCEPT ![t] = @ \ {lock[t]}]
    /\ Goto(t, "clear")
    /\ UNCHANGED <<mutex_, waiters_list_, waiters_list_lock_, lock_waiting_on_,
                   state_, lock, cond, flag, wakee>>

\* mutex_ = 0.
Clear(t) ==
    /\ pc[t] = "clear"
    /\ mutex_' = [mutex_ EXCEPT ![lock[t]] = 0]
    /\ Goto(t, "rel_list")
    /\ UNCHANGED <<held_by_, waiters_list_, waiters_list_lock_, threadVars,
                   lock, cond, flag, wakee>>

-----------------------------------------------------------------------------
(* Lock: the waiters list, sleeping and waking *)

\* lockWaitersList.  A waiting thread keeps the condition's list locked while
\* it releases the mutex.
LockWaitersList(t) ==
    /\ pc[t] \in {"acq_list", "rel_list", "sig_list", "wait_list"}
    /\ LockList(lock[t])
    /\ \/ pc[t] = "acq_list" /\ Goto(t, "retry") /\ UNCHANGED lock
       \/ pc[t] = "rel_list" /\ Goto(t, "rel_pop") /\ UNCHANGED lock
       \/ pc[t] = "sig_list" /\ Goto(t, "sig_pop") /\ UNCHANGED lock
       \/ /\ pc[t] = "wait_list"
          /\ Goto(t, "disown")
          /\ lock' = [lock EXCEPT ![t] = CondMutex[cond[t]]]
    /\ UNCHANGED <<mutex_, held_by_, waiters_list_, threadVars, cond, flag, wakee>>

\* What follows the release of a mutex: a thread in Condition::wait goes on to
\* sleep on the condition.
AfterRelease(t) ==
    \/ cond[t] = NULL /\ Goto(t, "client") /\ UNCHANGED lock
    \/ cond[t] # NULL /\ Goto(t, "push") /\ lock' = [lock EXCEPT ![t] = cond[t]]

\* popBackThreadFromWaitersList (the longest waiting thread); unlockWaitersList.
Pop(t) ==
    /\ pc[t] \in {"rel_pop", "sig_pop"}
    /\ UnlockList(lock[t])
    /\ \/ /\ waiters_list_[lock[t]] # <<>>
          /\ wakee' = [wakee EXCEPT ![t] = Head(waiters_list_[lock[t]])]
          /\ waiters_list_' = [waiters_list_ EXCEPT ![lock[t]] = Tail(@)]
          /\ Goto(t, "wake")
          /\ UNCHANGED lock
       \/ /\ waiters_list_[lock[t]] = <<>>
          /\ AfterRelease(t)
          /\ UNCHANGED <<wakee, waiters_list_>>
    /\ UNCHANGED <<mutex_, held_by_, threadVars, cond, flag>>

\* The loop condition of Scheduler::wake.
\* MUTANT: wake does not wait for the thread to sleep.
AlreadyOnList(t) == TRUE
IsSleeping(t) == state_[t] = "Sleeping"

\* Scheduler::wake: yield until the popped thread sleeps, then let it run.
\* A broadcast pops the next one.
Wake(t) ==
    /\ pc[t] = "wake"
    /\ IsSleeping(wakee[t])
    /\ state_' = [state_ EXCEPT ![wakee[t]] = "Running"]
    /\ wakee' = [wakee EXCEPT ![t] = NULL]
    /\ \/ lock[t] \in Conditions /\ flag[t] = TRUE /\ Goto(t, "sig_list") /\ UNCHANGED lock
       \/ ~(lock[t] \in Conditions /\ flag[t] = TRUE) /\ AfterRelease(t)
    /\ UNCHANGED <<lockVars, holding_lock_list_, lock_waiting_on_, cond, flag>>

\* sleepAndRelease: lock_waiting_on_ = this; push; unlockWaitersList.
Push(t) ==
    /\ pc[t] = "push"
    /\ lock_waiting_on_' = [lock_waiting_on_ EXCEPT ![t] = lock[t]]
    /\ waiters_list_' = [waiters_list_ EXCEPT ![lock[t]] = PushFront(@, t)]
    /\ UnlockList(lock[t])
    /\ Goto(t, "sleep")
    /\ UNCHANGED <<mutex_, held_by_, holding_lock_list_, state_,
                   lock, cond, flag, wakee>>

\* Scheduler::sleep.
Sleep(t) ==
    /\ pc[t] = "sleep"
    /\ state_' = [state_ EXCEPT ![t] = "Sleeping"]
    /\ Goto(t, "asleep")
    /\ UNCHANGED <<lockVars, holding_lock_list_, lock_waiting_on_,
                   lock, cond, flag, wakee>>

\* lock_waiting_on_ = 0 after the wakeup.
\* MUTANT: it is not reset.
KeepWaitingOn(t) == UNCHANGED lock_waiting_on_
ResetWaitingOn(t) == lock_waiting_on_' = [lock_waiting_on_ EXCEPT ![t] = NULL]

\* The scheduler runs the thread again: lock_waiting_on_ = 0, then the loop of
\* Mutex::acquire, or the tail of Condition::wait.
Resume(t) ==
    /\ pc[t] = "asleep"
    /\ state_[t] = "Running"
    /\ ResetWaitingOn(t)
    /\ \/ /\ cond[t] = NULL
          /\ Goto(t, "try")
          /\ UNCHANGED <<lock, cond>>
       \/ /\ cond[t] # NULL
          /\ \/ flag[t] = TRUE /\ Goto(t, "check")
             \/ flag[t] = FALSE /\ Goto(t, "client")
          /\ lock' = [lock EXCEPT ![t] = CondMutex[cond[t]]]
          /\ cond' = [cond EXCEPT ![t] = NULL]
    /\ UNCHANGED <<lockVars, holding_lock_list_, state_, flag, wakee>>

-----------------------------------------------------------------------------
\* The steps of a thread inside the lock classes.
Step(t) ==
    \/ Check(t) \/ TestSet(t) \/ TestSetAgain(t) \/ CheckAgain(t) \/ Own(t)
    \/ Disown(t) \/ Clear(t)
    \/ LockWaitersList(t) \/ Pop(t) \/ Wake(t) \/ Push(t) \/ Sleep(t) \/ Resume(t)

Call(t) ==
    \/ \E m \in Mutexes, label \in {"check", "check_nb"} : CallAcquire(t, m, label)
    \/ \E m \in Mutexes : CallRelease(t, m)
    \/ \E c \in Conditions, b \in BOOLEAN : CallWait(t, c, b) \/ CallSignal(t, c, b)

Next == \E t \in Threads : Step(t) \/ Call(t)

Spec == Init /\ [][Next]_vars

\* Every runnable thread runs again (round robin), and no client keeps a mutex
\* forever, whatever it does in between: kernel code ends.
Fairness ==
    \A t \in Threads :
        /\ WF_vars(Step(t))
        /\ \A m \in Mutexes : SF_vars(CallRelease(t, m))

FairSpec == Spec /\ Fairness
-----------------------------------------------------------------------------
(* Properties *)

\* The thread is between its successful test-and-set of m and `mutex_ = 0'.
Owns(t, m) ==
    \/ m \in holding_lock_list_[t]
    \/ lock[t] = m /\ pc[t] \in {"own", "clear"}

\* Mutual exclusion: at most one thread is between the test-and-set it won and
\* the store that frees the mutex, and the mutex is free exactly when none is.
MutualExclusion ==
    \A m \in Mutexes :
        /\ \A t, u \in Threads : Owns(t, m) /\ Owns(u, m) => t = u
        /\ mutex_[m] = 0 <=> \A t \in Threads : ~Owns(t, m)

\* No assertion of Lock, Mutex, Condition or Thread::setState fails when
\* clients nest mutexes in rank order: the checks before waiting, held_by_ == 0
\* on acquisition, held_by_ == currentThread on release and in wait and signal.
AssertionsHold ==
    \A t \in Threads :
        /\ pc[t] \in {"check", "check_nb", "recheck"} => ChecksBeforeWaiting(t, lock[t])
        /\ pc[t] \in {"acq_list", "wait_list"} => lock_waiting_on_[t] = NULL
        /\ pc[t] = "own" => held_by_[lock[t]] = NULL
        /\ pc[t] = "disown" => held_by_[lock[t]] = t
        /\ pc[t] = "client" => \A m \in holding_lock_list_[t] : held_by_[m] = t

\* A thread that tests mutex m again before it sleeps, or is about to be woken
\* to do so.
WillTest(t, m) ==
    /\ lock[t] = m
    /\ \/ pc[t] \in {"try", "acq_list", "retry"}
       \/ pc[t] = "asleep" /\ state_[t] = "Running"
       \/ pc[t] = "wake"

\* No wakeup is lost (Mutex::release, comment on the order of the two stores):
\* whenever m is free while a thread sleeps on it or is bound to, some thread
\* is on its way to pop the list or to test m.
NoLostWakeup ==
    \A m \in Mutexes :
        (/\ mutex_[m] = 0
         /\ \/ waiters_list_[m] # <<>>
            \/ \E t \in Threads : lock[t] = m /\ pc[t] \in {"recheck", "push"})
        => \E t \in Threads :
              WillTest(t, m) \/ (lock[t] = m /\ pc[t] \in {"rel_list", "rel_pop"})

\* No signal is lost: when signal looks at the waiters list, no thread that has
\* given up the mutex inside wait is still on its way to the list.
NoLostSignal ==
    \A t, u \in Threads :
        pc[t] = "sig_pop" /\ cond[u] = lock[t] => pc[u] \in {"sleep", "asleep", "wait_list"}

\* Between unlocking the list it is on and being woken.
Dormant(t) == pc[t] = "sleep" \/ (pc[t] = "asleep" /\ state_[t] = "Sleeping")

\* The handshake of sleepAndRelease and wake: a thread leaves Sleeping only
\* after a releaser or signaller took it off the list it slept on; it is then
\* on no list, and exactly one waker is responsible for it.
WakeOnlyPopped ==
    \A t \in Threads :
        /\ Dormant(t) <=> \/ \E l \in Locks : OnList(t, l)
                          \/ \E u \in Threads : wakee[u] = t
        /\ \A l \in Locks : OnList(t, l) => /\ l = lock_waiting_on_[t]
                                            /\ \A u \in Threads : wakee[u] # t
        /\ \A u, v \in Threads : wakee[u] = t /\ wakee[v] = t => u = v

\* Thread t has a step to take: the guards of Step(t), the assertions included.
CanStep(t) ==
    \/ pc[t] \in {"check", "check_nb", "recheck"} /\ ChecksBeforeWaiting(t, lock[t])
    \/ pc[t] = "own" /\ held_by_[lock[t]] = NULL
    \/ pc[t] = "disown" /\ held_by_[lock[t]] = t
    \/ pc[t] \in {"acq_list", "rel_list", "sig_list", "wait_list"} /\ waiters_list_lock_[lock[t]] = 0
    \/ pc[t] = "wake" /\ state_[wakee[t]] = "Sleeping"
    \/ pc[t] = "asleep" /\ state_[t] = "Running"
    \/ pc[t] \in {"try", "try_nb", "retry", "clear", "rel_pop", "sig_pop", "push", "sleep"}

\* The spinning on list locks, the yielding in wake and the nesting of a mutex
\* release inside Condition::wait never block each other: when no thread can
\* take a step in the lock classes, those that are inside them sleep on a
\* condition nobody signalled or on a mutex some thread really holds.
NoDeadlockInLocks ==
    (\A t \in Threads : ~CanStep(t))
    => \A t \in Threads :
          \/ pc[t] = "client"
          \/ /\ pc[t] = "asleep"
             /\ \/ lock[t] \in Conditions
                \/ held_by_[lock[t]] \in Threads \ {t}

\* The owner of a mutex, from the test-and-set it won to the freeing store.
owner ==
    [m \in Mutexes |-> IF \E t \in Threads : Owns(t, m)
                       THEN CHOOSE t \in Threads : Owns(t, m) ELSE NULL]

\* The threads inside Condition::wait on c that have freed the mutex and have
\* not been popped yet.
InWaitSet(t, c) ==
    \/ cond[t] = c /\ pc[t] \in {"rel_list", "rel_pop", "wake", "push"}
    \/ OnList(t, c)

waiting == [c \in Conditions |-> {t \in Threads : InWaitSet(t, c)}]

M == INSTANCE Monitor

\* The locks implement monitors: in particular Condition::wait gives up the
\* mutex and joins the wait set atomically, although the code does it in many
\* preemptible steps with a complete Mutex::release in the middle.
ImplementsMonitor == M!Spec

\* Waiting threads are served in turn: while a mutex is always given back, a
\* thread on its waiters list is eventually taken off it.  (Mutex::release hands
\* nothing over: a thread taken off can lose the mutex to a newcomer again and
\* again, and then whatever it holds itself is not given back.)
WaitersAreServed ==
    \A t \in Threads, m \in Mutexes : OnList(t, m) ~> ~OnList(t, m)
=============================================================================
