--------------------------- MODULE ProcessRegistry --------------------------
(***************************************************************************)
(* The processes of the system: ProcessRegistry, which starts the programs *)
(* and unmounts their partition when the last process is gone, fork and    *)
(* createprocess, the destruction of processes, and waitpid.               *)
(*                                                                         *)
(* The locks of the registry are monitors, so a block one of them guards   *)
(* is a single step.  Each process has the threads <<pid, slot>>; pc is    *)
(* where a thread, or the thread Registry, is: "user" in user mode.        *)
(* phase is the life of a process.  A failed assertion halts the kernel.   *)
(***************************************************************************)
EXTENDS Integers

CONSTANTS
    MaxPid,     \* bound: no process is made after this pid is handed out
    Slots,      \* the threads of a process
    Progs,      \* how many programs the registry starts
    Registry    \* the thread of ProcessRegistry::Run

Pids == 0..MaxPid
Threads == Pids \X Slots
Creators == Threads \cup {Registry}
NoPid == -1

ASSUME RegistryAssumption ==
    /\ MaxPid \in Nat /\ Progs \in Nat
    /\ Registry \notin Threads

VARIABLES
    pid_counter_, process_list_, progs_running_,
    waitpid_map_,           \* the pids with a Condition, keys of both maps
    wait_pid_map_helper_,   \* the pids each process has waited for
    last_dead_pid_,
    progs,                  \* the programs Run has still to start
    phase,                  \* of each process
    pc,
    arg,                    \* the pid a call makes or waits for
    op, count,              \* the kind of a creation, processCount() before it
    cond,                   \* the pid on whose Condition a thread sleeps
    stray,                  \* history: threads that used a deleted Condition
    halted

countVars == <<process_list_, progs_running_>>
waitVars == <<waitpid_map_, wait_pid_map_helper_, last_dead_pid_>>
callVars == <<arg, op, count>>
condVars == <<cond, stray, halted>>
vars == <<pid_counter_, countVars, waitVars, progs, phase, pc, callVars, condVars>>

Phases == {"none", "made", "running", "uncounted", "gone"}
Labels == {"none", "user", "start", "load",
           "add_thread", "sleep", "killed", "waitpid", "wait", "asleep", "asleep_any",
           "woken_any", "gone", "umount"}
Creations == {"fork", "createprocess", "createprocess_sleep"}

\* Every variable has its type.
TypeOK ==
    /\ pid_counter_ \in 0..MaxPid + 1
    /\ process_list_ \subseteq Pids
    /\ progs_running_ \in 0..MaxPid + 1
    /\ waitpid_map_ \subseteq Pids
    /\ wait_pid_map_helper_ \in [Pids -> SUBSET Pids]
    /\ last_dead_pid_ \in Pids
    /\ progs \in 0..Progs
    /\ phase \in [Pids -> Phases]
    /\ pc \in [Creators -> Labels]
    /\ arg \in [Creators -> Pids \cup {NoPid}]
    /\ op \in [Creators -> Creations]
    /\ count \in [Creators -> 0..MaxPid + 1]
    /\ cond \in [Threads -> Pids \cup {NoPid}]
    /\ stray \subseteq Threads
    /\ halted \in BOOLEAN

Init ==
    /\ pid_counter_ = 0
    /\ process_list_ = {}
    /\ progs_running_ = 0
    /\ waitpid_map_ = {}
    /\ wait_pid_map_helper_ = [p \in Pids |-> {}]
    /\ last_dead_pid_ = 0
    /\ progs = Progs
    /\ phase = [p \in Pids |-> "none"]
    /\ pc = [c \in Creators |-> IF c = Registry THEN "user" ELSE "none"]
    /\ arg = [c \in Creators |-> NoPid]
    /\ op = [c \in Creators |-> "createprocess"]
    /\ count = [c \in Creators |-> 0]
    /\ cond = [t \in Threads |-> NoPid]
    /\ stray = {}
    /\ halted = FALSE

Goto(c, label) == pc' = [pc EXCEPT ![c] = label]

\* The threads of set C end their calls, whose local variables are gone.
EndCall(C) ==
    /\ arg' = [c \in Creators |-> IF c \in C THEN NoPid ELSE arg[c]]
    /\ op' = [c \in Creators |-> IF c \in C THEN "createprocess" ELSE op[c]]
    /\ count' = [c \in Creators |-> IF c \in C THEN 0 ELSE count[c]]

-----------------------------------------------------------------------------
(* Making a process *)

\* A thread calls fork or createprocess, Run starts its next program;
\* getNewPID hands out the pid.  createprocess looks at processCount() before.
Create(c, kind) ==
    /\ pc[c] = "user"
    /\ pid_counter_ <= MaxPid
    /\ \/ c # Registry /\ UNCHANGED progs
       \/ c = Registry /\ kind = "createprocess" /\ progs > 0 /\ progs' = progs - 1
    /\ arg' = [arg EXCEPT ![c] = pid_counter_]
    /\ op' = [op EXCEPT ![c] = kind]
    /\ count' = [count EXCEPT ![c] = progs_running_]
    /\ phase' = [phase EXCEPT ![pid_counter_] = "made"]
    /\ pid_counter_' = pid_counter_ + 1
    /\ Goto(c, "start")
    /\ UNCHANGED <<countVars, waitVars, condVars>>

\* processStart, called by the constructor of UserProcess (nothing here reads
\* process_list_ between its insertion and the block under counter_lock_).
\* MUTANT: a fork is not counted.
CountCreateOnly(kind) == IF kind = "fork" THEN 0 ELSE 1
Increment(kind) == 1
ProcessStart(c) ==
    /\ pc[c] = "start"
    /\ process_list_' = process_list_ \cup {arg[c]}
    /\ progs_running_' = progs_running_ + Increment(op[c])
    /\ Goto(c, "load")
    /\ UNCHANGED <<pid_counter_, waitVars, progs, phase, callVars, condVars>>

\* addToWaitPIDMap, with its assertion, ends the constructor.
AddToWaitPIDMap(c) ==
    /\ pc[c] = "load"
    /\ arg[c] \notin waitpid_map_
    /\ waitpid_map_' = waitpid_map_ \cup {arg[c]}
    /\ wait_pid_map_helper_' = [wait_pid_map_helper_ EXCEPT ![arg[c]] = {}]
    /\ Goto(c, "add_thread")
    /\ UNCHANGED <<pid_counter_, countVars, last_dead_pid_, progs, phase, callVars, condVars>>

\* Scheduler::addNewThread; createprocess may then wait for the count to sink.
AddNewThread(c) ==
    /\ pc[c] = "add_thread"
    /\ phase' = [phase EXCEPT ![arg[c]] = "running"]
    /\ pc' = [d \in Creators |->
                IF d = c THEN IF op[c] = "createprocess_sleep" THEN "sleep" ELSE "user"
                ELSE IF d \in {arg[c]} \X Slots THEN "user" ELSE pc[d]]
    /\ EndCall({d \in {c} : op[d] # "createprocess_sleep"})
    /\ UNCHANGED <<pid_counter_, countVars, waitVars, progs, condVars>>

\* The loop of Syscall::createprocess yields until this step is possible.
CreateProcessDone(c) ==
    /\ pc[c] = "sleep"
    /\ progs_running_ <= count[c]
    /\ Goto(c, "user")
    /\ EndCall({c})
    /\ UNCHANGED <<pid_counter_, countVars, waitVars, progs, phase, condVars>>

-----------------------------------------------------------------------------
(* The end of a process *)

\* processExit: the last process signals all_processes_killed_.  newpc is pc
\* after the step but for that.
\* MUTANT: the count is tested before it is decremented.
NoneIsLeft == progs_running_ = 0
OneIsLeft == progs_running_ = 1
ProcessExit(p, newpc) ==
    /\ process_list_' = process_list_ \ {p}
    /\ progs_running_' = progs_running_ - 1
    /\ pc' = IF OneIsLeft /\ pc[Registry] = "asleep"
             THEN [newpc EXCEPT ![Registry] = "wait"] ELSE newpc

\* The executable does not load, or the first thread is not made.  After a
\* failed fork Syscall::fork uses the thread the child does not have,
\* and the page fault handler makes the process exit.
CreateFails(c) ==
    /\ pc[c] = "load"
    /\ ProcessExit(arg[c], [pc EXCEPT ![c] = IF op[c] = "fork" THEN "killed" ELSE
                                   IF op[c] = "createprocess_sleep" THEN "sleep" ELSE "user"])
    /\ phase' = [phase EXCEPT ![arg[c]] = "gone"]
    /\ EndCall({d \in {c} : op[d] # "createprocess_sleep"})
    /\ UNCHANGED <<pid_counter_, waitVars, progs, condVars>>

\* The process exits: all its threads are destroyed and the cleanup thread,
\* which deletes one process at a time, calls ~UserProcess, here as far as
\* processExit.
Exit(p) ==
    /\ phase[p] = "running"
    /\ \A q \in Pids : phase[q] # "uncounted"
    /\ \A s \in Slots : pc[<<p, s>>] \in {"user", "killed"}
    /\ ProcessExit(p, [c \in Creators |-> IF c \in {p} \X Slots THEN "gone" ELSE pc[c]])
    /\ phase' = [phase EXCEPT ![p] = "uncounted"]
    /\ UNCHANGED <<pid_counter_, waitVars, progs, callVars, condVars>>

\* removeFromWaitPIDMap broadcasts and deletes the Condition.  What others have
\* entered for p in wait_pid_map_helper_ stays.
\* MUTANTS: only one of the waiting threads is woken; waitpid(-1) is told of
\* the death before.
Sleepers(p) == {t \in Threads : pc[t] = "asleep" /\ cond[t] = p}
WakesOne(p) == {t \in Sleepers(p) : \A u \in Sleepers(p) : t[1] <= u[1]}
WakesAll(p) == Sleepers(p)
DeathBefore(p) == last_dead_pid_
LastDead(p) == p
RemoveFromWaitPIDMap(p) ==
    /\ phase[p] = "uncounted"
    /\ phase' = [phase EXCEPT ![p] = "gone"]
    /\ pc' = [c \in Creators |-> IF c \in WakesAll(p) THEN "user"
                                 ELSE IF pc[c] = "asleep_any" THEN "woken_any" ELSE pc[c]]
    /\ last_dead_pid_' = LastDead(p)
    /\ waitpid_map_' = waitpid_map_ \ {p}
    /\ wait_pid_map_helper_' = [wait_pid_map_helper_ EXCEPT ![p] = {}]
    /\ EndCall(WakesAll(p))
    /\ cond' = [t \in Threads |-> IF t \in WakesAll(p) THEN NoPid ELSE cond[t]]
    /\ UNCHANGED <<pid_counter_, countVars, progs, stray, halted>>

-----------------------------------------------------------------------------
(* Run *)

\* The loop around all_processes_killed_.wait(), once all the programs (or as
\* many as there are pids) have been started.
RunWait ==
    /\ \/ pc[Registry] = "user" /\ (progs = 0 \/ pid_counter_ > MaxPid)
       \/ pc[Registry] = "wait"
    /\ Goto(Registry, IF progs_running_ = 0 THEN "umount" ELSE "asleep")
    /\ UNCHANGED <<pid_counter_, countVars, waitVars, progs, phase, callVars, condVars>>

-----------------------------------------------------------------------------
(* waitpid *)

\* Syscall::waitpid refuses pid 0 and the caller's own.
WaitPid(t, p) ==
    /\ pc[t] = "user"
    /\ p # 0 /\ p # t[1]
    /\ arg' = [arg EXCEPT ![t] = p]
    /\ Goto(t, "waitpid")
    /\ UNCHANGED <<pid_counter_, countVars, waitVars, progs, phase, op, count, condVars>>

\* The pids that the recursion of checkWaitPidDeadlock can visit from p: those
\* in every set that contains p and what its members have waited for.
\* MUTANT: only what p itself has waited for.
VisitsDirect(p) == {p} \cup wait_pid_map_helper_[p]
Visits(p) ==
    {q \in Pids : \A S \in SUBSET Pids :
        p \in S /\ (\A x \in S : wait_pid_map_helper_[x] \subseteq S) => q \in S}

\* It meets a pid that is in no map any more, or never was: map::at asserts.
VisitsUnknown(p) == ~(Visits(p) \subseteq waitpid_map_)

\* getCondToWait.  If both a deadlock and an unknown pid are to be found, the
\* order of the vectors decides which one is first.
GetCondToWait(t) ==
    /\ pc[t] = "waitpid"
    /\ \/ /\ VisitsUnknown(arg[t])
          /\ halted' = TRUE
          /\ UNCHANGED <<pc, callVars, wait_pid_map_helper_>>
       \/ /\ t[1] \in Visits(arg[t])
          /\ Goto(t, "user")
          /\ EndCall({t})
          /\ UNCHANGED <<halted, wait_pid_map_helper_>>
       \/ /\ ~VisitsUnknown(arg[t]) /\ t[1] \notin Visits(arg[t])
          /\ wait_pid_map_helper_' = [wait_pid_map_helper_ EXCEPT ![t[1]] = @ \cup {arg[t]}]
          /\ Goto(t, "wait")
          /\ UNCHANGED <<callVars, halted>>
    /\ UNCHANGED <<pid_counter_, countVars, waitpid_map_, last_dead_pid_, progs, phase, cond, stray>>

\* waitForPid locks again and waits on the Condition.  If it has been deleted
\* in between, its memory is zero and the kernel dies of a null pointer, or it
\* is the Condition of another process by now, whose death the thread then
\* waits for.
WaitForPid(t) ==
    /\ pc[t] = "wait"
    /\ \/ /\ arg[t] \in waitpid_map_
          /\ cond' = [cond EXCEPT ![t] = arg[t]]
          /\ Goto(t, "asleep")
          /\ UNCHANGED <<stray, halted>>
       \/ /\ arg[t] \notin waitpid_map_
          /\ stray' = stray \cup {t}
          /\ \/ halted' = TRUE /\ UNCHANGED <<pc, cond>>
             \/ \E q \in waitpid_map_ : /\ cond' = [cond EXCEPT ![t] = q]
                                        /\ Goto(t, "asleep")
                                        /\ UNCHANGED halted
    /\ UNCHANGED <<pid_counter_, countVars, waitVars, progs, phase, callVars>>

\* waitForAnyPid until it sleeps, and after it is woken.
WaitForAnyPid(t) ==
    /\ pc[t] = "user"
    /\ Goto(t, "asleep_any")
    /\ UNCHANGED <<pid_counter_, countVars, waitVars, progs, phase, callVars, condVars>>

AnyPidDied(t) ==
    /\ pc[t] = "woken_any"
    /\ Goto(t, "user")
    /\ UNCHANGED <<pid_counter_, countVars, waitVars, progs, phase, callVars, condVars>>

-----------------------------------------------------------------------------
(* The specification *)

CreatorStep(c) ==
    \/ ProcessStart(c) \/ AddToWaitPIDMap(c)
    \/ AddNewThread(c) \/ CreateProcessDone(c) \/ CreateFails(c)

RegistryStep == Create(Registry, "createprocess") \/ CreatorStep(Registry) \/ RunWait

ThreadStep(t) == CreatorStep(t) \/ GetCondToWait(t) \/ WaitForPid(t) \/ AnyPidDied(t)

Syscall(t) ==
    \/ \E kind \in Creations : Create(t, kind)
    \/ \E p \in Pids : WaitPid(t, p)
    \/ WaitForAnyPid(t)


Next ==
    /\ halted = FALSE
    /\ \/ RegistryStep
       \/ \E t \in Threads : ThreadStep(t) \/ Syscall(t)
       \/ \E p \in Pids : Exit(p) \/ RemoveFromWaitPIDMap(p)

Spec == Init /\ [][Next]_vars

\* Every thread in the kernel is scheduled, and a program ends after finitely
\* many calls.
FairSpec ==
    /\ Spec
    /\ WF_vars(halted = FALSE /\ RegistryStep)
    /\ \A t \in Threads : WF_vars(halted = FALSE /\ ThreadStep(t))
    /\ WF_vars(halted = FALSE /\ \E p \in Pids : RemoveFromWaitPIDMap(p))
    /\ \A p \in Pids : SF_vars(halted = FALSE /\ Exit(p))

-----------------------------------------------------------------------------
(* Properties *)

\* No circle in wait_pid_map_helper_, whose entries outlive the wait they are
\* for: the recursion of checkWaitPidDeadlock ends, and processes that wait
\* for each other never do so in a circle.
WaitGraphAcyclic ==
    \A S \in SUBSET Pids :
        S # {} => \E p \in S : wait_pid_map_helper_[p] \cap S = {}

\* A thread in waitpid sleeps on a Condition that exists (it is not deleted with
\* a thread on its list, as Lock::~Lock asserts), and on the one of the process
\* it waits for, whose death is still to be announced.  The one way to miss a
\* death is to have used a Condition that was deleted between getCondToWait and
\* wait (UserThread.cpp:227-233): such a thread waits for another process.
NoDeathMissed ==
    \A t \in Threads : pc[t] = "asleep" =>
        /\ cond[t] \in waitpid_map_
        /\ cond[t] = arg[t] \/ t \in stray

\* waitpid(-1) returns the pid of a process that has ended.
AnyPidIsDead ==
    \A t \in Threads : pc[t] = "woken_any" => phase[last_dead_pid_] = "gone"

\* The partition of the programs is unmounted after the last process: none is
\* left that has memory to load from it, and none will be made.
UnmountedLast ==
    pc[Registry] = "umount" =>
        /\ process_list_ = {}
        /\ \A t \in Threads : pc[t] \in {"none", "gone"}

\* The system shuts down when the programs end, unless the kernel died, a thread
\* has used a deleted Condition (and may wait in a circle then), or a process
\* waits for any other to die when none is left, or for the number of processes
\* to sink: waitpid of a pid blocks nobody for ever.
ShutsDown ==
    \/ <>(pc[Registry] = "umount" \/ halted = TRUE \/ stray # {})
    \/ <>[](\E t \in Threads : pc[t] \in {"asleep_any", "sleep"})

\* waitpid returns -1 when the pid is not there ("NO SUCH PID FOUND",
\* UserThread.cpp:230): the lookup does not fail an assertion.
UnknownPidIsRefused ==
    \A t \in Threads : pc[t] = "waitpid" => ~VisitsUnknown(arg[t])
=============================================================================
