---------------------------- MODULE UserThreads ----------------------------
(***************************************************************************)
(* The threads of one UserProcess: pthread_create, pthread_exit,           *)
(* pthread_join, pthread_cancel, exit and the killing of siblings by       *)
(* execv, with the cleanup thread that destroys dead threads.              *)
(*                                                                         *)
(* waiters_lock_ and thread_list_lock_ are monitors (KernelLocks shows the *)
(* Mutex and Condition classes to be ones), so a block one of them guards  *)
(* is a single step.  pc[t] is where thread t is: "user" in user mode      *)
(* (switch_to_userspace_ = 1), another label in the kernel, "dead" in      *)
(* state ToBeDestroyed, "deleted" after its destructor.  A flag of the     *)
(* threads is the set of the threads in which it is true.                  *)
(***************************************************************************)
EXTENDS Integers, FiniteSets

CONSTANTS
    MaxTid,    \* bound: pthread_create fails, out of memory, after this tid
    Programs,  \* programs: sets of system calls <<caller, call, tid argument>>
    Forked     \* the process is the child of a fork

Tids == 0..MaxTid
NoTid == -1
Ops == {"other", "create", "exit_thread", "join", "cancel", "kill", "execv"}

ASSUME ThreadsAssumption ==
    /\ MaxTid \in Nat
    /\ \A calls \in Programs :
          /\ calls \subseteq Tids \X Ops \X (Tids \cup {NoTid})
          /\ \A c \in calls : c[2] \in {"join", "cancel"} => c[3] \in Tids
    /\ Forked \in BOOLEAN

VARIABLES
    program,         \* the calls the threads of the process may make
    next_tid_, thread_list_, called_exit_, tid_list_,
    waiting_list_,   \* who waits in joinThread for each tid, or NoTid
    ret_values_,     \* the tids whose return value is stored
    cancel_req_, cancelable_, exited_,
    pc,
    arg,             \* the tid a join, a cancel or execv is about
    back,            \* where joinThread returns to
    it,              \* the iterator of kill and of killThreadsSiblings
    destroy_list,    \* of Scheduler::cleanupDeadThreads
    alive            \* the UserProcess object exists

listVars == <<next_tid_, thread_list_, called_exit_, tid_list_>>
joinVars == <<waiting_list_, ret_values_, exited_>>
cancelVars == <<cancel_req_, cancelable_>>
callVars == <<arg, back, it>>
cleanupVars == <<destroy_list, alive>>
vars == <<program, listVars, joinVars, cancelVars, pc, callVars, cleanupVars>>

Labels == Ops \cup
    {"none", "user", "exit", "dead", "deleted",
     "join_wait", "join_resume",
     "kill_set", "kill_list", "kill_cancel", "kill_join",
     "execv_cancel", "execv_join", "execv_load", "stray"}

\* Every variable has its type.
TypeOK ==
    /\ program \in Programs
    /\ next_tid_ \in 1..MaxTid + 1
    /\ thread_list_ \subseteq Tids
    /\ called_exit_ \in BOOLEAN
    /\ tid_list_ \subseteq Tids
    /\ waiting_list_ \in [Tids -> Tids \cup {NoTid}]
    /\ ret_values_ \subseteq Tids
    /\ cancel_req_ \subseteq Tids /\ cancelable_ \subseteq Tids /\ exited_ \subseteq Tids
    /\ pc \in [Tids -> Labels]
    /\ arg \in [Tids -> Tids \cup {NoTid}]
    /\ back \in [Tids -> {"user", "kill_join", "execv"}]
    /\ it \in [Tids -> Nat]
    /\ destroy_list \subseteq Tids
    /\ alive \in BOOLEAN

\* The process has its main thread, tid 0.  A forked main thread is made by a
\* constructor that leaves cancelable_ as the heap has it, zero.
Init ==
    /\ program \in Programs
    /\ next_tid_ = 1
    /\ thread_list_ = {0}
    /\ called_exit_ = FALSE
    /\ tid_list_ = {}
    /\ waiting_list_ = [t \in Tids |-> NoTid]
    /\ ret_values_ = {}
    /\ cancel_req_ = {}
    /\ cancelable_ = IF Forked THEN {} ELSE {0}
    /\ exited_ = {}
    /\ pc = [t \in Tids |-> IF t = 0 THEN "user" ELSE "none"]
    /\ arg = [t \in Tids |-> NoTid]
    /\ back = [t \in Tids |-> "user"]
    /\ it = [t \in Tids |-> 0]
    /\ destroy_list = {}
    /\ alive = TRUE

Goto(t, label) == pc' = [pc EXCEPT ![t] = label]

-----------------------------------------------------------------------------
(* Entering the kernel *)

\* UserThread::shouldCancel.
ShouldCancel(t) == t \in cancelable_ /\ t \in cancel_req_

\* A cancelled thread found in user mode, by Scheduler::schedule when it is to
\* run again or by syscallHandler when it enters the kernel, is diverted to
\* exitThread(-1).
\* MUTANT: a thread in the kernel is diverted as well.
CancelledAnywhere(t) ==
    /\ pc[t] \notin {"none", "dead", "deleted"}
    /\ ShouldCancel(t)
    /\ cancelable_' = cancelable_ \ {t}
    /\ Goto(t, "exit_thread")
    /\ UNCHANGED <<listVars, joinVars, cancel_req_, callVars, cleanupVars>>
Cancelled(t) ==
    /\ pc[t] = "user"
    /\ ShouldCancel(t)
    /\ cancelable_' = cancelable_ \ {t}
    /\ Goto(t, "exit_thread")
    /\ UNCHANGED <<listVars, joinVars, cancel_req_, callVars, cleanupVars>>

\* syscallHandler dispatches a system call; it->begin() for execv.
Syscall(t, op, tid) ==
    /\ <<t, op, tid>> \in program
    /\ pc[t] = "user"
    /\ ~ShouldCancel(t)
    /\ Goto(t, op)
    /\ arg' = [arg EXCEPT ![t] = tid]
    /\ back' = [back EXCEPT ![t] = "user"]
    /\ it' = [it EXCEPT ![t] = 0]
    /\ UNCHANGED <<listVars, joinVars, cancelVars, cleanupVars>>

\* A system call that does none of the below returns, if it ever does: read of
\* stdin or of a pipe and waitpid may wait forever, cancelled or not.
Return(t) ==
    /\ pc[t] = "other"
    /\ Goto(t, "user")
    /\ UNCHANGED <<listVars, joinVars, cancelVars, callVars, cleanupVars>>

-----------------------------------------------------------------------------
(* createThread, exitThread *)

\* UserProcess::allocNextFreeTID: no tid from next_tid_ on is in the list.
AllocNextFreeTID == next_tid_

\* UserProcess::createThread, internalAddNewThread.
CreateThread(t) ==
    /\ pc[t] = "create"
    /\ \/ /\ called_exit_ = TRUE \/ next_tid_ > MaxTid
          /\ Goto(t, "user")
          /\ UNCHANGED <<next_tid_, thread_list_, cancelable_>>
       \/ /\ called_exit_ = FALSE /\ next_tid_ <= MaxTid
          /\ next_tid_' = next_tid_ + 1
          /\ thread_list_' = thread_list_ \cup {AllocNextFreeTID}
          /\ cancelable_' = cancelable_ \cup {AllocNextFreeTID}
          /\ pc' = [pc EXCEPT ![t] = "user", ![AllocNextFreeTID] = "user"]
    /\ UNCHANGED <<called_exit_, tid_list_, joinVars, cancel_req_, callVars, cleanupVars>>

\* UserProcess::exitThread, its block under waiters_lock_.  Its early return
\* would lead a cancelled thread nowhere: ExitsOnce says that it is not taken.
\* MUTANT: the joiner is signalled without a return value for it.
SignalOnly(t) == UNCHANGED ret_values_
StoreRetValue(t) == ret_values_' = ret_values_ \cup {t}
ExitThread(t) ==
    /\ pc[t] = "exit_thread"
    /\ t \notin ret_values_ /\ t \notin exited_
    /\ StoreRetValue(t)
    /\ exited_' = exited_ \cup {t}
    /\ pc' = [u \in Tids |-> IF u = t THEN "exit"
                             ELSE IF u = waiting_list_[t] THEN "join_resume" ELSE pc[u]]
    /\ UNCHANGED <<listVars, waiting_list_, cancelVars, callVars, cleanupVars>>

\* UserThread::exit: the thread becomes ToBeDestroyed and never runs again.
Exit(t) ==
    /\ pc[t] = "exit"
    /\ Goto(t, "dead")
    /\ UNCHANGED <<listVars, joinVars, cancelVars, callVars, cleanupVars>>

-----------------------------------------------------------------------------
(* joinThread, cancelThread *)

\* UserProcess::joinDeadlock: the walk along the waiters, starting with the one
\* that waits for caller, meets target; that is, every set that contains
\* caller and the waiter of each of its members contains target.
\* MUTANT: the walk stops after its first step.
DirectDeadlock(caller, target) == waiting_list_[caller] = target
JoinDeadlock(caller, target) ==
    \A S \in SUBSET Tids :
        (/\ caller \in S
         /\ \A u \in S : waiting_list_[u] # NoTid => waiting_list_[u] \in S)
        => target \in S

\* The tests of joinThread that make it return -1.
\* MUTANT: a thread that has exited already is waited for.
ForgetsExited(caller, tid) ==
    \/ tid = caller
    \/ /\ tid \notin ret_values_
       /\ tid \notin thread_list_ \/ waiting_list_[tid] # NoTid \/ JoinDeadlock(caller, tid)
JoinFails(caller, tid) ==
    \/ tid = caller
    \/ /\ tid \notin ret_values_
       /\ \/ tid \notin thread_list_
          \/ tid \in exited_
          \/ waiting_list_[tid] # NoTid
          \/ JoinDeadlock(caller, tid)

\* UserProcess::joinThread until it returns or sleeps in Condition::wait.
JoinThread(t) ==
    /\ pc[t] = "join"
    /\ LET tid == arg[t] IN
       \/ /\ JoinFails(t, tid)
          /\ Goto(t, back[t])
          /\ UNCHANGED <<ret_values_, waiting_list_>>
       \/ /\ ~JoinFails(t, tid) /\ tid \in ret_values_
          /\ ret_values_' = ret_values_ \ {tid}
          /\ Goto(t, back[t])
          /\ UNCHANGED waiting_list_
       \/ /\ ~JoinFails(t, tid) /\ tid \notin ret_values_
          /\ waiting_list_' = [waiting_list_ EXCEPT ![tid] = t]
          /\ Goto(t, "join_wait")
          /\ UNCHANGED ret_values_
    /\ UNCHANGED <<listVars, exited_, cancelVars, callVars, cleanupVars>>

\* UserProcess::joinThread after Condition::wait, with its two assertions.
JoinResume(t) ==
    /\ pc[t] = "join_resume"
    /\ waiting_list_[arg[t]] # NoTid
    /\ arg[t] \in ret_values_
    /\ waiting_list_' = [waiting_list_ EXCEPT ![arg[t]] = NoTid]
    /\ ret_values_' = ret_values_ \ {arg[t]}
    /\ Goto(t, back[t])
    /\ UNCHANGED <<listVars, exited_, cancelVars, callVars, cleanupVars>>

\* UserThread::isCancelableState; UserProcess::cancelThread of tid.
IsCancelableState(t) == pc[t] \notin {"dead", "deleted"}
CancelRequest(tid) ==
    cancel_req_' = IF tid \in thread_list_ /\ IsCancelableState(tid)
                   THEN cancel_req_ \cup {tid} ELSE cancel_req_

CancelThread(t) ==
    /\ pc[t] = "cancel"
    /\ CancelRequest(arg[t])
    /\ Goto(t, "user")
    /\ UNCHANGED <<listVars, joinVars, cancelable_, callVars, cleanupVars>>

-----------------------------------------------------------------------------
(* kill *)

\* The test of called_exit_ with which UserProcess::kill begins.
KillCheck(t) ==
    /\ pc[t] = "kill"
    /\ Goto(t, IF called_exit_ = TRUE THEN "exit" ELSE "kill_set")
    /\ UNCHANGED <<listVars, joinVars, cancelVars, callVars, cleanupVars>>

\* Threads can no longer be created once called_exit_ is set.
KillSet(t) ==
    /\ pc[t] = "kill_set"
    /\ called_exit_' = TRUE
    /\ tid_list_' = {}
    /\ Goto(t, "kill_list")
    /\ UNCHANGED <<next_tid_, thread_list_, joinVars, cancelVars, callVars, cleanupVars>>

\* The other threads are copied to tid_list_, whose order is that of the tids.
\* MUTANT: only the threads created before the caller are copied.
OlderThreads(t) == {u \in thread_list_ : u < t}
OtherThreads(t) == thread_list_ \ {t}
KillList(t) ==
    /\ pc[t] = "kill_list"
    /\ tid_list_' = OtherThreads(t)
    /\ it' = [it EXCEPT ![t] = 0]
    /\ Goto(t, "kill_cancel")
    /\ UNCHANGED <<next_tid_, thread_list_, called_exit_, joinVars, cancelVars,
                   arg, back, cleanupVars>>

\* The entries of tid_list_ that t has not come to; x is the next of them.
Rest(t) == {u \in tid_list_ : it[t] <= u}
IsNext(t, x) == x \in Rest(t) /\ \A u \in Rest(t) : x <= u

\* One round of the loop that cancels; an entry that is gone is erased.
KillCancel(t) ==
    /\ pc[t] = "kill_cancel"
    /\ \/ /\ Rest(t) = {}
          /\ it' = [it EXCEPT ![t] = 0]
          /\ Goto(t, "kill_join")
          /\ UNCHANGED <<tid_list_, cancel_req_>>
       \/ \E x \in Tids :
          /\ IsNext(t, x)
          /\ CancelRequest(x)
          /\ tid_list_' = IF x \in thread_list_ THEN tid_list_ ELSE tid_list_ \ {x}
          /\ it' = [it EXCEPT ![t] = x + 1]
          /\ UNCHANGED pc
    /\ UNCHANGED <<next_tid_, thread_list_, called_exit_, joinVars, cancelable_,
                   arg, back, cleanupVars>>

\* One round of the loop that joins; after it the caller exits, leaving no
\* return value.
KillJoin(t) ==
    /\ pc[t] = "kill_join"
    /\ \/ /\ Rest(t) = {}
          /\ Goto(t, "exit")
          /\ UNCHANGED callVars
       \/ \E x \in Tids :
          /\ IsNext(t, x)
          /\ arg' = [arg EXCEPT ![t] = x]
          /\ back' = [back EXCEPT ![t] = "kill_join"]
          /\ it' = [it EXCEPT ![t] = x + 1]
          /\ Goto(t, "join")
    /\ UNCHANGED <<listVars, joinVars, cancelVars, cleanupVars>>

-----------------------------------------------------------------------------
(* killThreadsSiblings and execv *)

\* thread_list_ is a sorted vector and the iterator a position in it, which
\* names another entry once one before it is erased.
EndOfList == Cardinality(thread_list_)
EntryAt(i, x) == x \in thread_list_ /\ Cardinality({u \in thread_list_ : u < x}) = i

\* The head of the loop, under thread_list_lock_.
ExecvNext(t) ==
    /\ pc[t] = "execv"
    /\ \/ it[t] = EndOfList /\ Goto(t, "execv_load") /\ UNCHANGED it
       \/ it[t] > EndOfList /\ Goto(t, "stray") /\ UNCHANGED it
       \/ EntryAt(it[t], t) /\ it' = [it EXCEPT ![t] = @ + 1] /\ UNCHANGED pc
       \/ /\ \E x \in Tids \ {t} : EntryAt(it[t], x)
          /\ Goto(t, "execv_cancel")
          /\ UNCHANGED it
    /\ UNCHANGED <<listVars, joinVars, cancelVars, arg, back, cleanupVars>>

\* cancel_thread(it->first): the lock is free, the entry is read again.
ExecvCancel(t) ==
    /\ pc[t] = "execv_cancel"
    /\ \/ it[t] >= EndOfList /\ Goto(t, "stray") /\ UNCHANGED cancel_req_
       \/ \E x \in Tids :
             EntryAt(it[t], x) /\ CancelRequest(x) /\ Goto(t, "execv_join")
    /\ UNCHANGED <<listVars, joinVars, cancelable_, callVars, cleanupVars>>

\* join_thread(it->first), and it++ for when it has returned.
ExecvJoin(t) ==
    /\ pc[t] = "execv_join"
    /\ \/ it[t] >= EndOfList /\ Goto(t, "stray") /\ UNCHANGED callVars
       \/ \E x \in Tids :
          /\ EntryAt(it[t], x)
          /\ arg' = [arg EXCEPT ![t] = x]
          /\ back' = [back EXCEPT ![t] = "execv"]
          /\ it' = [it EXCEPT ![t] = @ + 1]
          /\ Goto(t, "join")
    /\ UNCHANGED <<listVars, joinVars, cancelVars, cleanupVars>>

\* restructureProcessForExecv after the siblings are gone: whether the new
\* executable loads or not, the thread is back in user mode.
ExecvLoad(t) ==
    /\ pc[t] = "execv_load"
    /\ Goto(t, "user")
    /\ UNCHANGED <<listVars, joinVars, cancelVars, callVars, cleanupVars>>

-----------------------------------------------------------------------------
(* The cleanup thread *)

\* Scheduler::cleanupDeadThreads, its block with scheduling disabled.
Collect ==
    /\ destroy_list = {}
    /\ \E t \in Tids : pc[t] = "dead"
    /\ destroy_list' = {t \in Tids : pc[t] = "dead"}
    /\ UNCHANGED <<listVars, joinVars, cancelVars, pc, callVars, alive>>

\* The destructor of a thread: UserProcess::onThreadDestroyed, which deletes
\* the process with its last thread.
\* MUTANT: the process goes when no thread but main is left.
NoneButMain(list) == list \subseteq {0}
IsLastThread(list) == list = {}
OnThreadDestroyed(t) ==
    /\ t \in destroy_list
    /\ t \in thread_list_
    /\ destroy_list' = destroy_list \ {t}
    /\ thread_list_' = thread_list_ \ {t}
    /\ alive' = ~IsLastThread(thread_list_ \ {t})
    /\ Goto(t, "deleted")
    /\ UNCHANGED <<next_tid_, called_exit_, tid_list_, joinVars, cancelVars, callVars>>

-----------------------------------------------------------------------------
(* The specification *)

\* The steps of thread t that the kernel takes for it once it is scheduled.
KernelStep(t) ==
    \/ Cancelled(t) \/ Return(t) \/ CreateThread(t) \/ ExitThread(t) \/ Exit(t)
    \/ JoinThread(t) \/ JoinResume(t) \/ CancelThread(t)
    \/ KillCheck(t) \/ KillSet(t) \/ KillList(t) \/ KillCancel(t) \/ KillJoin(t)
    \/ ExecvNext(t) \/ ExecvCancel(t) \/ ExecvJoin(t) \/ ExecvLoad(t)

Next ==
    /\ \/ \E t \in Tids :
             \/ KernelStep(t)
             \/ \E op \in Ops, tid \in Tids \cup {NoTid} : Syscall(t, op, tid)
             \/ OnThreadDestroyed(t)
       \/ Collect
    /\ UNCHANGED program

Spec == Init /\ [][Next]_vars

\* The round robin of Scheduler::schedule reaches every runnable thread, the
\* cleanup thread among them.  Nothing makes a thread leave user mode, and
\* nothing makes a call other than those of this module return.
FairSpec ==
    /\ Spec
    /\ \A t \in Tids :
          /\ WF_vars(pc[t] # "other" /\ KernelStep(t) /\ UNCHANGED program)
          /\ WF_vars(OnThreadDestroyed(t) /\ UNCHANGED program)
    /\ WF_vars(Collect /\ UNCHANGED program)

-----------------------------------------------------------------------------
(* Properties *)

\* No assertion fails: a joiner that wakes up finds itself in waiting_list_ and
\* a return value (UserProcess.cpp:474-475), and a destroyed thread is in the
\* list of its process (UserProcess.cpp:243).
AssertionsHold ==
    /\ \A t \in Tids : pc[t] = "join_resume" =>
          waiting_list_[arg[t]] = t /\ arg[t] \in ret_values_
    /\ destroy_list \subseteq thread_list_

\* The waiters form no cycle, so that joined threads never all wait for each
\* other and the loop of joinDeadlock ends: no nonempty set of tids has all of
\* its waiters inside.
JoinAcyclic ==
    \A S \in SUBSET Tids :
        S # {} => \E t \in S : waiting_list_[t] \notin S

\* A thread asleep in joinThread waits for a thread that will still pass
\* exitThread and signal it (no return value of it is there or was taken).
NoLostJoin ==
    \A t \in Tids : pc[t] = "join_wait" =>
        /\ waiting_list_[arg[t]] = t
        /\ pc[arg[t]] \notin {"none", "exit", "dead", "deleted"}
        /\ arg[t] \notin exited_

\* A thread that can still run code is in the list of a process that exists.
LiveThreadsListed ==
    \A t \in Tids : pc[t] \notin {"none", "deleted"} => t \in thread_list_ /\ alive

\* A thread enters the guarded block of exitThread once: cancellation, which
\* may come at any time, never catches a thread that has already exited.
ExitsOnce ==
    \A t \in Tids : pc[t] = "exit_thread" => t \notin ret_values_ /\ t \notin exited_

\* exit terminates the process: it is deleted, with all its threads, unless one
\* of them stays forever in a call of another kind, where its cancellation does
\* not reach it (syscallHandler and schedule divert a thread in user mode only)
\* and kill waits for it in joinThread (UserProcess.cpp:674-683).
ExitCompletes ==
    called_exit_ ~> (~alive \/ \E t \in Tids : [](pc[t] = "other"))

\* The thread that called execv is the only one left when it replaces the
\* address space of the process.
OnlyThreadThatSurvives ==
    \A t \in Tids : pc[t] = "execv_load" =>
        \A u \in thread_list_ \ {t} : pc[u] \in {"exit", "dead"}
=============================================================================
