----------------------- MODULE ProcessRegistryProofs -----------------------
(***************************************************************************)
(* What waitpid guarantees for any number of processes and threads.        *)
(***************************************************************************)
EXTENDS ProcessRegistry, FiniteSetTheorems, TLAPS

\* The types the proofs need.
WaitTypes ==
    /\ pid_counter_ \in Nat
    /\ wait_pid_map_helper_ \in [Pids -> SUBSET Pids]
    /\ waitpid_map_ \subseteq Int
    /\ pc \in [Creators -> Labels]
    /\ arg \in [Creators -> Int]
    /\ cond \in [Threads -> Int]

WaitInv == WaitTypes /\ WaitGraphAcyclic /\ NoDeathMissed

-----------------------------------------------------------------------------
(* The wait graph *)

\* An edge to a pid from which the waiting process cannot be reached closes no
\* circle.  S is a set that shows it cannot.
LEMMA EdgeKeepsAcyclic ==
  ASSUME wait_pid_map_helper_ \in [Pids -> SUBSET Pids], WaitGraphAcyclic,
         NEW w \in Pids, NEW p, w \notin Visits(p),
         wait_pid_map_helper_' = [wait_pid_map_helper_ EXCEPT ![w] = @ \cup {p}]
  PROVE  WaitGraphAcyclic' /\ wait_pid_map_helper_' \in [Pids -> SUBSET Pids]
<1>1. PICK S \in SUBSET Pids : /\ p \in S
                               /\ \A x \in S : wait_pid_map_helper_[x] \subseteq S
                               /\ w \notin S
  BY DEF Visits
<1>2. wait_pid_map_helper_' \in [Pids -> SUBSET Pids]
  BY <1>1
<1>3. ASSUME NEW X \in SUBSET Pids, X # {}
      PROVE  \E q \in X : wait_pid_map_helper_'[q] \cap X = {}
  <2>1. CASE X \cap S # {}
    <3>1. PICK q \in X \cap S : wait_pid_map_helper_[q] \cap (X \cap S) = {}
      BY <2>1 DEF WaitGraphAcyclic
    <3>2. wait_pid_map_helper_[q] \subseteq S /\ q # w /\ q \in Pids
      BY <1>1, <3>1
    <3>3. wait_pid_map_helper_'[q] = wait_pid_map_helper_[q]
      BY <3>2
    <3>4. QED
      BY <3>1, <3>2, <3>3
  <2>2. CASE X \cap S = {}
    <3>1. PICK q \in X : wait_pid_map_helper_[q] \cap X = {}
      BY <1>3 DEF WaitGraphAcyclic
    <3>2. wait_pid_map_helper_'[q] \subseteq wait_pid_map_helper_[q] \cup {p}
      BY <1>3, <3>1
    <3>3. p \notin X
      BY <1>1, <2>2
    <3>4. QED
      BY <3>1, <3>2, <3>3
  <2>3. QED
    BY <2>1, <2>2
<1>4. QED
  BY <1>2, <1>3 DEF WaitGraphAcyclic

\* Emptying the entry of a process closes no circle either.
LEMMA EraseKeepsAcyclic ==
  ASSUME wait_pid_map_helper_ \in [Pids -> SUBSET Pids], WaitGraphAcyclic, NEW p,
         wait_pid_map_helper_' = [wait_pid_map_helper_ EXCEPT ![p] = {}]
  PROVE  WaitGraphAcyclic' /\ wait_pid_map_helper_' \in [Pids -> SUBSET Pids]
<1>1. wait_pid_map_helper_' \in [Pids -> SUBSET Pids]
  OBVIOUS
<1>2. \A q \in Pids : wait_pid_map_helper_'[q] \subseteq wait_pid_map_helper_[q]
  OBVIOUS
<1>3. ASSUME NEW X \in SUBSET Pids, X # {}
      PROVE  \E q \in X : wait_pid_map_helper_'[q] \cap X = {}
  <2>1. PICK q \in X : wait_pid_map_helper_[q] \cap X = {}
    BY <1>3 DEF WaitGraphAcyclic
  <2>2. QED
    BY <1>2, <2>1
<1>4. QED
  BY <1>1, <1>3 DEF WaitGraphAcyclic

-----------------------------------------------------------------------------
(* Sleepers *)

\* A step after which nobody sleeps who did not, with another argument, on
\* another Condition or on one that went away, keeps the sleepers where they are.
LEMMA SleepersKeep ==
  ASSUME NoDeathMissed,
         waitpid_map_ \subseteq waitpid_map_', UNCHANGED <<cond, stray>>,
         \A t \in Threads : pc'[t] = "asleep" => pc[t] = "asleep" /\ arg'[t] = arg[t]
  PROVE  NoDeathMissed'
  BY DEF NoDeathMissed

-----------------------------------------------------------------------------
(* The steps *)

\* Making a process disturbs no waiting thread.
LEMMA CreatorKeeps ==
  ASSUME WaitInv, NEW c \in Creators,
         CreatorStep(c) \/ \E kind \in Creations : Create(c, kind)
  PROVE  WaitInv'
<1> USE DEF WaitInv, WaitTypes, NoPid, Goto, Labels, countVars, waitVars, callVars, condVars
<1>1. Threads \subseteq Creators
  BY DEF Creators
<1>2. ASSUME NEW kind \in Creations, Create(c, kind)
      PROVE  WaitInv'
  <2>1. pid_counter_ \in Int /\ pid_counter_' \in Nat
    BY <1>2 DEF Create
  <2>2. WaitTypes'
    BY <1>2, <2>1 DEF Create
  <2>3. NoDeathMissed'
    BY <1>1, <1>2, SleepersKeep DEF Create
  <2>4. QED
    BY <1>2, <2>2, <2>3 DEF Create, WaitGraphAcyclic
<1>3. CASE ProcessStart(c)
  <2>1. NoDeathMissed'
    BY <1>1, <1>3, SleepersKeep DEF ProcessStart
  <2>2. QED
    BY <1>3, <2>1 DEF ProcessStart, WaitGraphAcyclic
<1>4. CASE AddToWaitPIDMap(c)
  <2>1. WaitGraphAcyclic' /\ wait_pid_map_helper_' \in [Pids -> SUBSET Pids]
    BY <1>4, EraseKeepsAcyclic DEF AddToWaitPIDMap
  <2>2. NoDeathMissed'
    BY <1>1, <1>4, SleepersKeep DEF AddToWaitPIDMap
  <2>3. waitpid_map_' \subseteq Int /\ pc' \in [Creators -> Labels]
    BY <1>4 DEF AddToWaitPIDMap
  <2>4. UNCHANGED <<pid_counter_, arg, cond>>
    BY <1>4 DEF AddToWaitPIDMap
  <2>5. QED
    BY <2>1, <2>2, <2>3, <2>4
<1>5. CASE AddNewThread(c)
  <2>1. WaitTypes'
    BY <1>5 DEF AddNewThread, EndCall
  <2>2. \A t \in Threads : pc'[t] = "asleep" => pc[t] = "asleep" /\ t # c
    BY <1>1, <1>5 DEF AddNewThread
  <2>3. \A t \in Threads : t # c => arg'[t] = arg[t]
    BY <1>1, <1>5 DEF AddNewThread, EndCall
  <2>4. NoDeathMissed'
    BY <1>5, <2>2, <2>3, SleepersKeep DEF AddNewThread
  <2>5. QED
    BY <1>5, <2>1, <2>4 DEF AddNewThread, WaitGraphAcyclic
<1>6. CASE CreateProcessDone(c)
  <2>1. WaitTypes'
    BY <1>6 DEF CreateProcessDone, EndCall
  <2>2. NoDeathMissed'
    BY <1>1, <1>6, SleepersKeep DEF CreateProcessDone, EndCall
  <2>3. QED
    BY <1>6, <2>1, <2>2 DEF CreateProcessDone, WaitGraphAcyclic
<1>7. CASE CreateFails(c)
  <2>1. PICK l \in {"user", "killed", "sleep"} :
           ProcessExit(arg[c], [pc EXCEPT ![c] = l])
    BY <1>7 DEF CreateFails
  <2>2. pc' = [pc EXCEPT ![c] = l] \/ pc' = [[pc EXCEPT ![c] = l] EXCEPT ![Registry] = "wait"]
    BY <2>1 DEF ProcessExit
  <2>3. pc' \in [Creators -> Labels]
    BY <2>2
  <2>4. \A t \in Threads : pc'[t] = "asleep" => pc[t] = "asleep" /\ t # c
    BY <1>1, <2>2, RegistryAssumption
  <2>5. arg' \in [Creators -> Int] /\ \A t \in Threads : t # c => arg'[t] = arg[t]
    BY <1>1, <1>7 DEF CreateFails, EndCall
  <2>6. NoDeathMissed'
    BY <1>7, <2>4, <2>5, SleepersKeep DEF CreateFails
  <2>7. QED
    BY <1>7, <2>3, <2>5, <2>6 DEF CreateFails, WaitGraphAcyclic
<1>8. QED
  BY <1>2, <1>3, <1>4, <1>5, <1>6, <1>7 DEF CreatorStep

\* The calls of waitpid keep the graph acyclic and sleep on what exists.
LEMMA WaitKeeps ==
  ASSUME WaitInv, NEW t \in Threads,
         \/ GetCondToWait(t) \/ WaitForPid(t) \/ AnyPidDied(t)
         \/ WaitForAnyPid(t) \/ \E p \in Pids : WaitPid(t, p)
  PROVE  WaitInv'
<1> USE DEF WaitInv, WaitTypes, NoPid, Goto, Labels, countVars, waitVars, callVars, condVars
<1>1. Threads \subseteq Creators
  BY DEF Creators
<1>2. CASE GetCondToWait(t)
  <2>1. /\ pc' \in [Creators -> Labels]
        /\ \A u \in Threads : pc'[u] = "asleep" => pc[u] = "asleep" /\ u # t
    BY <1>1, <1>2 DEF GetCondToWait
  <2>2. arg' \in [Creators -> Int] /\ \A u \in Threads : u # t => arg'[u] = arg[u]
    BY <1>1, <1>2 DEF GetCondToWait, EndCall
  <2>3. NoDeathMissed'
    BY <1>2, <2>1, <2>2, SleepersKeep DEF GetCondToWait
  <2>4. t[1] \in Pids
    BY <1>1 DEF Threads
  <2>5. WaitGraphAcyclic' /\ wait_pid_map_helper_' \in [Pids -> SUBSET Pids]
    <3>1. CASE UNCHANGED wait_pid_map_helper_
      BY <3>1 DEF WaitGraphAcyclic
    <3>2. CASE /\ t[1] \notin Visits(arg[t])
               /\ wait_pid_map_helper_' = [wait_pid_map_helper_ EXCEPT ![t[1]] = @ \cup {arg[t]}]
      BY <2>4, <3>2, EdgeKeepsAcyclic
    <3>3. QED
      BY <1>2, <3>1, <3>2 DEF GetCondToWait
  <2>6. QED
    BY <1>2, <2>1, <2>2, <2>3, <2>5 DEF GetCondToWait
<1>3. CASE WaitForPid(t)
  <2>1. WaitGraphAcyclic' /\ wait_pid_map_helper_' = wait_pid_map_helper_ /\ pid_counter_' = pid_counter_
        /\ waitpid_map_' = waitpid_map_
    BY <1>3 DEF WaitForPid, WaitGraphAcyclic
  <2>2. UNCHANGED arg
    BY <1>3 DEF WaitForPid
  <2>3. stray \subseteq stray'
    BY <1>3 DEF WaitForPid
  <2>4. CASE UNCHANGED <<pc, cond>>
    BY <2>1, <2>2, <2>3, <2>4 DEF NoDeathMissed
  <2>5. ASSUME NEW q \in waitpid_map_, cond' = [cond EXCEPT ![t] = q], Goto(t, "asleep"),
               q = arg[t] \/ t \in stray'
        PROVE  WaitInv'
    <3>1. WaitTypes'
      BY <2>1, <2>2, <2>5
    <3>2. ASSUME NEW u \in Threads, pc'[u] = "asleep"
          PROVE  cond'[u] \in waitpid_map_' /\ (cond'[u] = arg'[u] \/ u \in stray')
      BY <1>1, <2>1, <2>2, <2>3, <2>5, <3>2 DEF NoDeathMissed
    <3>3. QED
      BY <2>1, <3>1, <3>2 DEF NoDeathMissed
  <2>6. QED
    BY <1>3, <2>4, <2>5 DEF WaitForPid
<1>4. CASE AnyPidDied(t)
  <2>1. NoDeathMissed'
    BY <1>1, <1>4, SleepersKeep DEF AnyPidDied
  <2>2. QED
    BY <1>4, <2>1 DEF AnyPidDied, WaitGraphAcyclic
<1>5. CASE WaitForAnyPid(t)
  <2>1. NoDeathMissed'
    BY <1>1, <1>5, SleepersKeep DEF WaitForAnyPid
  <2>2. QED
    BY <1>5, <2>1 DEF WaitForAnyPid, WaitGraphAcyclic
<1>6. ASSUME NEW p \in Pids, WaitPid(t, p)
      PROVE  WaitInv'
  <2>0. p \in Int
    BY RegistryAssumption DEF Pids
  <2>1. NoDeathMissed'
    BY <1>1, <1>6, SleepersKeep DEF WaitPid
  <2>2. QED
    BY <1>6, <2>0, <2>1 DEF WaitPid, WaitGraphAcyclic
<1>7. QED
  BY <1>2, <1>3, <1>4, <1>5, <1>6

\* The end of a process wakes all who sleep on its Condition.
LEMMA EndKeeps ==
  ASSUME WaitInv, NEW p \in Pids, Exit(p) \/ RemoveFromWaitPIDMap(p)
  PROVE  WaitInv'
<1> USE DEF WaitInv, WaitTypes, NoPid, Goto, Labels, countVars, waitVars, callVars, condVars
<1>1. Threads \subseteq Creators
  BY DEF Creators
<1>2. CASE Exit(p)
  <2> DEFINE new == [c \in Creators |-> IF c \in {p} \X Slots THEN "gone" ELSE pc[c]]
  <2>1. pc' = new \/ pc' = [new EXCEPT ![Registry] = "wait"]
    BY <1>2 DEF Exit, ProcessExit
  <2>2. new \in [Creators -> Labels] /\ \A t \in Threads : new[t] = "asleep" => pc[t] = "asleep"
    BY <1>1
  <2> HIDE DEF new
  <2>3. pc' \in [Creators -> Labels] /\ \A t \in Threads : pc'[t] = "asleep" => pc[t] = "asleep"
    BY <1>1, <2>1, <2>2, RegistryAssumption
  <2>4. NoDeathMissed'
    BY <1>2, <2>3, SleepersKeep DEF Exit
  <2>5. QED
    BY <1>2, <2>3, <2>4 DEF Exit, WaitGraphAcyclic
<1>3. CASE RemoveFromWaitPIDMap(p)
  <2>1. WaitGraphAcyclic' /\ wait_pid_map_helper_' \in [Pids -> SUBSET Pids]
    BY <1>3, EraseKeepsAcyclic DEF RemoveFromWaitPIDMap
  <2>2. pc' \in [Creators -> Labels]
    BY <1>3 DEF RemoveFromWaitPIDMap
  <2>3. \A t \in Threads : pc'[t] = "asleep" => pc[t] = "asleep" /\ t \notin WakesAll(p)
    BY <1>1, <1>3 DEF RemoveFromWaitPIDMap
  <2>4. arg' \in [Creators -> Int] /\ \A t \in Threads : t \notin WakesAll(p) => arg'[t] = arg[t]
    BY <1>1, <1>3 DEF RemoveFromWaitPIDMap, EndCall
  <2>5. NoDeathMissed'
    <3>1. ASSUME NEW t \in Threads, pc'[t] = "asleep"
          PROVE  cond'[t] \in waitpid_map_' /\ (cond'[t] = arg'[t] \/ t \in stray')
      <4>1. pc[t] = "asleep" /\ t \notin WakesAll(p) /\ arg'[t] = arg[t] /\ cond'[t] = cond[t]
        BY <1>3, <2>3, <2>4, <3>1 DEF RemoveFromWaitPIDMap
      <4>2. cond[t] \in waitpid_map_ /\ cond[t] # p /\ (cond[t] = arg[t] \/ t \in stray)
        BY <4>1 DEF NoDeathMissed, WakesAll, Sleepers
      <4>3. QED
        BY <1>3, <4>1, <4>2 DEF RemoveFromWaitPIDMap
    <3>2. QED
      BY <3>1 DEF NoDeathMissed
  <2>6. cond' \in [Threads -> Int]
    BY <1>3 DEF RemoveFromWaitPIDMap
  <2>7. QED
    BY <1>3, <2>1, <2>2, <2>4, <2>5, <2>6 DEF RemoveFromWaitPIDMap
<1>4. QED
  BY <1>2, <1>3

\* The initial state.
LEMMA InitWait == Init => WaitInv
<1> SUFFICES ASSUME Init PROVE WaitInv
  OBVIOUS
<1>1. WaitTypes
  BY DEF Init, WaitTypes, Labels, NoPid
<1>2. WaitGraphAcyclic
  BY DEF Init, WaitGraphAcyclic
<1>3. NoDeathMissed
  BY DEF Init, NoDeathMissed, Creators
<1>4. QED
  BY <1>1, <1>2, <1>3 DEF WaitInv

\* Every step keeps the invariant.
LEMMA NextWait == WaitInv /\ [Next]_vars => WaitInv'
<1> SUFFICES ASSUME WaitInv, [Next]_vars PROVE WaitInv'
  OBVIOUS
<1>1. CASE RegistryStep
  <2>1. CASE RunWait
    <3>1. NoDeathMissed'
      BY <2>1, RegistryAssumption, SleepersKeep
         DEF RunWait, WaitInv, WaitTypes, Goto, Creators, waitVars, callVars, condVars
    <3>2. QED
      BY <2>1, <3>1
         DEF RunWait, WaitInv, WaitTypes, WaitGraphAcyclic, Goto, Labels, waitVars, callVars, condVars
  <2>2. Registry \in Creators
    BY DEF Creators
  <2>3. QED
    BY <1>1, <2>1, <2>2, CreatorKeeps DEF RegistryStep, Creations
<1>2. ASSUME NEW t \in Threads, ThreadStep(t) \/ Syscall(t)
      PROVE  WaitInv'
  BY <1>2, CreatorKeeps, WaitKeeps DEF ThreadStep, Syscall, Creators
<1>3. ASSUME NEW p \in Pids, Exit(p) \/ RemoveFromWaitPIDMap(p)
      PROVE  WaitInv'
  BY <1>3, EndKeeps
<1>4. CASE UNCHANGED vars
  BY <1>4 DEF vars, WaitInv, WaitTypes, WaitGraphAcyclic, NoDeathMissed, waitVars, callVars,
              condVars
<1>5. QED
  BY <1>1, <1>2, <1>3, <1>4 DEF Next

\* No circle ever arises among the pids in wait_pid_map_helper_, the entries
\* of waits that are over included: the recursion of checkWaitPidDeadlock
\* ends, and its answer is enough to keep processes from waiting in a circle.
THEOREM WaitsAcyclic == Spec => []WaitGraphAcyclic
<1>1. WaitInv => WaitGraphAcyclic
  BY DEF WaitInv
<1>2. QED
  BY <1>1, InitWait, NextWait, PTL DEF Spec

\* No thread sleeps on the Condition of a process that has ended, and one that
\* waits for p sleeps on the Condition of p, unless it has used a Condition that
\* was deleted between getCondToWait and wait.
THEOREM DeathsAreSeen == Spec => []NoDeathMissed
<1>1. WaitInv => NoDeathMissed
  BY DEF WaitInv
<1>2. QED
  BY <1>1, InitWait, NextWait, PTL DEF Spec

-----------------------------------------------------------------------------
(* The life of a process *)

\* Between getNewPID and addNewThread.
Building == {"start", "load", "add_thread"}

LifeTypes ==
    /\ pid_counter_ \in Nat
    /\ process_list_ \subseteq Pids
    /\ last_dead_pid_ \in Pids
    /\ phase \in [Pids -> Phases]
    /\ pc \in [Creators -> Labels]
    /\ arg \in [Creators -> Int]

\* A creator has a process of its own that nobody has started, and the pids to
\* be handed out are new.
MakeInv ==
    /\ \A c \in Creators : pc[c] \in Building => arg[c] \in Pids /\ phase[arg[c]] = "made"
    /\ \A c, d \in Creators :
          pc[c] \in Building /\ pc[d] \in Building /\ c # d => arg[c] # arg[d]
    /\ \A p \in Pids : p >= pid_counter_ => phase[p] = "none"

\* Only a running process has threads.
ThreadInv == \A t \in Threads : pc[t] \in {"none", "gone"} \/ phase[t[1]] = "running"

\* What is in process_list_.
ListInv ==
    /\ \A p \in process_list_ : phase[p] \in {"made", "running"}
    /\ \A p \in Pids : phase[p] = "running" => p \in process_list_
    /\ \A c \in Creators : pc[c] = "start" => arg[c] \notin process_list_
    /\ \A c \in Creators : pc[c] \in {"load", "add_thread"} => arg[c] \in process_list_

\* progs_running_ counts it.
CountInv == IsFiniteSet(process_list_) /\ progs_running_ = Cardinality(process_list_)

LifeInv ==
    /\ LifeTypes
    /\ MakeInv
    /\ ThreadInv
    /\ ListInv
    /\ CountInv
    /\ AnyPidIsDead
    /\ UnmountedLast

-----------------------------------------------------------------------------
(* What each step does to it *)

\* The thread <<p, s>> is one of process p.
LEMMA ThreadOf ==
  ASSUME NEW t \in Threads
  PROVE  /\ t \in Creators /\ t # Registry /\ t[1] \in Pids
         /\ \A p : t \in {p} \X Slots <=> t[1] = p
  BY RegistryAssumption DEF Threads, Creators

\* Pids are numbers, with the successor that next_pid_ takes.
LEMMA PidsAreNumbers == Pids \subseteq Nat
  BY RegistryAssumption DEF Pids

\* The registry is not one of the threads.
LEMMA RegistryIs == Registry \in Creators /\ \A p \in Pids : Registry \notin {p} \X Slots
  BY RegistryAssumption DEF Threads, Creators

\* A step that neither begins nor ends a process, nor the making of one.
LEMMA LifeKeeps ==
  ASSUME LifeInv,
         UNCHANGED <<pid_counter_, countVars, last_dead_pid_, phase>>,
         pc' \in [Creators -> Labels], arg' \in [Creators -> Int],
         \A c \in Creators : pc'[c] \in Building =>
            pc[c] \in Building /\ arg'[c] = arg[c] /\ (pc'[c] = "start" <=> pc[c] = "start"),
         \A t \in Threads : pc[t] \in {"none", "gone"} => pc'[t] = pc[t],
         \A t \in Threads : pc'[t] = "woken_any" => pc[t] = "woken_any",
         pc'[Registry] = "umount" => pc[Registry] = "umount" \/ progs_running_ = 0
  PROVE  LifeInv'
<1> USE DEF LifeInv, countVars
<1>1. LifeTypes'
  BY DEF LifeTypes
<1>2. MakeInv'
  BY DEF MakeInv
<1>3. ThreadInv'
  BY DEF ThreadInv
<1>4. ListInv'
  BY DEF ListInv, Building
<1>5. CountInv' /\ AnyPidIsDead'
  BY DEF CountInv, AnyPidIsDead
<1>6. UnmountedLast'
  <2>1. ASSUME progs_running_ = 0
        PROVE  process_list_ = {} /\ \A t \in Threads : pc[t] \in {"none", "gone"}
    <3>1. process_list_ = {}
      BY <2>1, FS_EmptySet DEF CountInv
    <3>2. QED
      BY <3>1, ThreadOf DEF ThreadInv, ListInv
  <2>2. QED
    BY <2>1 DEF UnmountedLast
<1>7. QED
  BY <1>1, <1>2, <1>3, <1>4, <1>5, <1>6

\* getNewPID hands out a pid nobody had.
LEMMA CreateLife ==
  ASSUME LifeInv, NEW c \in Creators, NEW kind \in Creations, Create(c, kind)
  PROVE  LifeInv'
<1> USE DEF LifeInv, LifeTypes, Goto, countVars, waitVars, condVars
<1> DEFINE q == pid_counter_
<1>1. q \in Pids /\ phase[q] = "none"
  BY RegistryAssumption DEF Create, Pids, MakeInv
<1>2. /\ pc' = [pc EXCEPT ![c] = "start"] /\ arg' = [arg EXCEPT ![c] = q]
      /\ phase' = [phase EXCEPT ![q] = "made"] /\ pid_counter_' = q + 1
      /\ UNCHANGED <<process_list_, progs_running_, last_dead_pid_>> /\ pc[c] = "user"
  BY DEF Create
<1> HIDE DEF q
<1>3. LifeTypes'
  BY <1>1, <1>2, PidsAreNumbers DEF Labels, Phases, q
<1>4. MakeInv'
  <2>1. \A p \in Pids : p >= pid_counter_' => phase'[p] = "none"
    BY <1>1, <1>2, PidsAreNumbers DEF MakeInv, q
  <2>2. ASSUME NEW d \in Creators, pc'[d] \in Building
        PROVE  arg'[d] \in Pids /\ phase'[arg'[d]] = "made"
    BY <1>1, <1>2, <2>2 DEF MakeInv
  <2>3. ASSUME NEW d \in Creators, NEW e \in Creators, pc'[d] \in Building, pc'[e] \in Building,
               d # e
        PROVE  arg'[d] # arg'[e]
    BY <1>1, <1>2, <2>3 DEF MakeInv
  <2>4. QED
    BY <2>1, <2>2, <2>3 DEF MakeInv
<1>5. ThreadInv'
  <2>1. ASSUME NEW t \in Threads, pc'[t] \notin {"none", "gone"}
        PROVE  phase'[t[1]] = "running"
    BY <1>1, <1>2, <2>1, ThreadOf DEF ThreadInv
  <2>2. QED
    BY <2>1 DEF ThreadInv
<1>6. ListInv'
  <2>1. q \notin process_list_
    BY <1>1 DEF ListInv
  <2>2. QED
    BY <1>1, <1>2, <2>1 DEF ListInv
<1>7. CountInv'
  BY <1>2 DEF CountInv
<1>8. AnyPidIsDead'
  BY <1>1, <1>2, ThreadOf DEF AnyPidIsDead
<1>9. UnmountedLast'
  <2>1. pc[Registry] # "umount" /\ pc'[Registry] # "umount"
    <3>1. CASE c = Registry
      BY <1>2, <3>1
    <3>2. CASE c # Registry
      BY <1>2, <3>2, RegistryIs DEF UnmountedLast, Creators
    <3>3. QED
      BY <3>1, <3>2
  <2>2. QED
    BY <2>1 DEF UnmountedLast
<1>10. QED
  BY <1>3, <1>4, <1>5, <1>6, <1>7, <1>8, <1>9

\* processStart counts the process once.
LEMMA StartLife ==
  ASSUME LifeInv, NEW c \in Creators, ProcessStart(c)
  PROVE  LifeInv'
<1> USE DEF LifeInv, LifeTypes, Goto, countVars, waitVars, callVars, condVars
<1> DEFINE q == arg[c]
<1>1. /\ pc[c] = "start" /\ pc' = [pc EXCEPT ![c] = "load"]
      /\ process_list_' = process_list_ \cup {q} /\ progs_running_' = progs_running_ + 1
      /\ UNCHANGED <<pid_counter_, last_dead_pid_, phase, arg>>
  BY DEF ProcessStart, Increment
<1>2. q \in Pids /\ phase[q] = "made" /\ q \notin process_list_
  BY <1>1 DEF MakeInv, ListInv, Building
<1> HIDE DEF q
<1>3. LifeTypes'
  BY <1>1, <1>2 DEF Labels
<1>4. MakeInv'
  BY <1>1 DEF MakeInv, Building
<1>5. ThreadInv'
  BY <1>1, ThreadOf DEF ThreadInv
<1>6. ListInv'
  <2>1. \A d \in Creators : pc'[d] = "start" => arg'[d] # q
    BY <1>1 DEF MakeInv, Building, q
  <2>2. \A d \in Creators : pc'[d] \in {"load", "add_thread"} => arg'[d] \in process_list_'
    BY <1>1 DEF ListInv, q
  <2>3. QED
    BY <1>1, <1>2, <2>1, <2>2 DEF ListInv
<1>7. CountInv'
  BY <1>1, <1>2, FS_AddElement DEF CountInv
<1>8. AnyPidIsDead'
  BY <1>1, ThreadOf DEF AnyPidIsDead
<1>9. UnmountedLast'
  <2>1. pc[Registry] # "umount" /\ pc'[Registry] # "umount"
    <3>1. CASE c = Registry
      BY <1>1, <3>1
    <3>2. CASE c # Registry
      BY <1>1, <3>2, RegistryIs DEF UnmountedLast, Creators
    <3>3. QED
      BY <3>1, <3>2
  <2>2. QED
    BY <2>1 DEF UnmountedLast
<1>10. QED
  BY <1>3, <1>4, <1>5, <1>6, <1>7, <1>8, <1>9

\* addNewThread gives the process its threads.
LEMMA ThreadLife ==
  ASSUME LifeInv, NEW c \in Creators, AddNewThread(c)
  PROVE  LifeInv'
<1> USE DEF LifeInv, LifeTypes, countVars, waitVars, condVars
<1> DEFINE q == arg[c]
<1>1. PICK l \in {"sleep", "user"} :
        pc' = [d \in Creators |-> IF d = c THEN l
                                  ELSE IF d \in {q} \X Slots THEN "user" ELSE pc[d]]
  BY DEF AddNewThread
<1>2. /\ pc[c] = "add_thread" /\ phase' = [phase EXCEPT ![q] = "running"]
      /\ UNCHANGED <<pid_counter_, process_list_, progs_running_, last_dead_pid_>>
  BY DEF AddNewThread
<1>3. /\ arg' \in [Creators -> Int]
      /\ \A d \in Creators : d # c => arg'[d] = arg[d]
  BY DEF AddNewThread, EndCall, NoPid
<1>4. q \in Pids /\ phase[q] = "made" /\ q \in process_list_
  BY <1>2 DEF MakeInv, ListInv, Building
<1> HIDE DEF q
<1>5. LifeTypes'
  BY <1>1, <1>2, <1>3, <1>4 DEF Labels, Phases
<1>6. \A d \in Creators : pc'[d] \in Building => d # c /\ pc[d] = pc'[d] /\ arg'[d] = arg[d]
  BY <1>1, <1>3 DEF Building
<1>7. \A d \in Creators : pc'[d] \in Building => arg[d] # q
  BY <1>2, <1>6 DEF MakeInv, Building, q
<1>8. MakeInv'
  <2>1. \A d \in Creators : pc'[d] \in Building => arg'[d] \in Pids /\ phase'[arg'[d]] = "made"
    BY <1>2, <1>6, <1>7 DEF MakeInv
  <2>2. \A d, e \in Creators :
          pc'[d] \in Building /\ pc'[e] \in Building /\ d # e => arg'[d] # arg'[e]
    BY <1>6 DEF MakeInv
  <2>3. \A p \in Pids : p >= pid_counter_' => phase'[p] = "none"
    BY <1>2, <1>4 DEF MakeInv
  <2>4. QED
    BY <2>1, <2>2, <2>3 DEF MakeInv
<1>9. ThreadInv'
  <2>1. ASSUME NEW t \in Threads, pc'[t] \notin {"none", "gone"}
        PROVE  phase'[t[1]] = "running"
    <3>1. t \in Creators /\ t[1] \in Pids /\ (t \in {q} \X Slots <=> t[1] = q)
      BY ThreadOf
    <3>2. CASE t[1] = q
      BY <1>2, <1>4, <3>2
    <3>3. CASE t[1] # q
      <4>1. pc[t] \notin {"none", "gone"}
        BY <1>1, <1>2, <2>1, <3>1, <3>3
      <4>2. QED
        BY <1>2, <3>1, <3>3, <4>1 DEF ThreadInv
    <3>4. QED
      BY <3>2, <3>3
  <2>2. QED
    BY <2>1 DEF ThreadInv
<1>10. ListInv'
  <2>1. \A p \in process_list_' : phase'[p] \in {"made", "running"}
    BY <1>2, <1>4 DEF ListInv
  <2>2. \A p \in Pids : phase'[p] = "running" => p \in process_list_'
    BY <1>2, <1>4 DEF ListInv
  <2>3. QED
    BY <1>2, <1>6, <2>1, <2>2 DEF ListInv, Building
<1>11. CountInv'
  BY <1>2 DEF CountInv
<1>12. AnyPidIsDead'
  <2>1. \A t \in Threads : pc'[t] = "woken_any" => pc[t] = "woken_any"
    BY <1>1, ThreadOf
  <2>2. QED
    BY <1>2, <1>4, <2>1 DEF AnyPidIsDead
<1>13. UnmountedLast'
  <2>1. pc[Registry] # "umount"
    BY <1>4 DEF UnmountedLast
  <2>2. pc'[Registry] # "umount"
    BY <1>1, <1>4, <2>1, RegistryIs
  <2>3. QED
    BY <2>2 DEF UnmountedLast
<1>14. QED
  BY <1>5, <1>8, <1>9, <1>10, <1>11, <1>12, <1>13

\* processExit, as one of the threads that make a process fails or as the
\* threads of a process have ended, takes a process that is counted off the
\* list.
LEMMA ExitLife ==
  ASSUME LifeInv, NEW q \in process_list_,
         NEW new \in [Creators -> Labels], NEW l \in {"gone", "uncounted"},
         ProcessExit(q, new), phase' = [phase EXCEPT ![q] = l],
         UNCHANGED <<pid_counter_, last_dead_pid_>>,
         arg' \in [Creators -> Int],
         \A d \in Creators : new[d] \in Building =>
            pc[d] = new[d] /\ arg'[d] = arg[d] /\ arg[d] # q,
         \A t \in Threads : pc[t] \in {"none", "gone"} => new[t] = pc[t],
         \A t \in Threads : t[1] = q => new[t] \in {"none", "gone"},
         \A t \in Threads : new[t] = "woken_any" => pc[t] = "woken_any",
         new[Registry] = "umount" => pc[Registry] = "umount"
  PROVE  LifeInv'
<1> USE DEF LifeInv, LifeTypes
<1>1. /\ process_list_' = process_list_ \ {q} /\ progs_running_' = progs_running_ - 1
      /\ pc' = new \/ pc' = [new EXCEPT ![Registry] = "wait"]
  BY DEF ProcessExit
<1>2. q \in Pids /\ phase[q] \in {"made", "running"}
  BY DEF ListInv
<1>3. pc' \in [Creators -> Labels]
  BY <1>1 DEF Labels
<1>4. LifeTypes'
  BY <1>1, <1>3 DEF Phases
<1>5. \A t \in Threads : pc'[t] = new[t]
  BY <1>1, ThreadOf
<1>6. \A d \in Creators : pc'[d] \in Building => new[d] = pc'[d]
  BY <1>1, RegistryIs DEF Building
<1>7. \A d \in Creators : pc'[d] \in Building => pc[d] = pc'[d] /\ arg'[d] = arg[d] /\ arg[d] # q
  BY <1>6
<1>8. MakeInv'
  <2>1. \A d \in Creators : pc'[d] \in Building => arg'[d] \in Pids /\ phase'[arg'[d]] = "made"
    BY <1>7 DEF MakeInv
  <2>2. \A d, e \in Creators :
          pc'[d] \in Building /\ pc'[e] \in Building /\ d # e => arg'[d] # arg'[e]
    BY <1>7 DEF MakeInv
  <2>3. \A p \in Pids : p >= pid_counter_' => phase'[p] = "none"
    BY <1>2 DEF MakeInv
  <2>4. QED
    BY <2>1, <2>2, <2>3 DEF MakeInv
<1>9. ThreadInv'
  BY <1>5, ThreadOf DEF ThreadInv
<1>10. ListInv'
  <2>1. \A p \in process_list_' : phase'[p] \in {"made", "running"}
    BY <1>1 DEF ListInv
  <2>2. \A p \in Pids : phase'[p] = "running" => p \in process_list_'
    BY <1>1 DEF ListInv
  <2>3. QED
    BY <1>1, <1>7, <2>1, <2>2 DEF ListInv, Building
<1>11. CountInv'
  BY <1>1, FS_RemoveElement DEF CountInv
<1>12. AnyPidIsDead'
  BY <1>2, <1>5 DEF AnyPidIsDead
<1>13. UnmountedLast'
  <2>1. pc[Registry] # "umount"
    BY DEF UnmountedLast
  <2>2. pc'[Registry] # "umount"
    BY <1>1, <2>1, RegistryIs
  <2>3. QED
    BY <2>2 DEF UnmountedLast
<1>14. QED
  BY <1>4, <1>8, <1>9, <1>10, <1>11, <1>12, <1>13

\* A process that could not be made has been counted and has no threads.
LEMMA FailLife ==
  ASSUME LifeInv, NEW c \in Creators, CreateFails(c)
  PROVE  LifeInv'
<1> USE DEF LifeInv, LifeTypes, waitVars, condVars
<1> DEFINE q == arg[c]
<1>1. PICK l \in {"user", "killed", "sleep"} : ProcessExit(q, [pc EXCEPT ![c] = l])
  BY DEF CreateFails
<1> DEFINE new == [pc EXCEPT ![c] = l]
<1>2. /\ pc[c] = "load" /\ phase' = [phase EXCEPT ![q] = "gone"]
      /\ UNCHANGED <<pid_counter_, last_dead_pid_>>
  BY DEF CreateFails
<1>3. /\ arg' \in [Creators -> Int]
      /\ \A d \in Creators : d # c => arg'[d] = arg[d]
  BY DEF CreateFails, EndCall, NoPid
<1>4. q \in process_list_ /\ phase[q] = "made"
  BY <1>2 DEF MakeInv, ListInv, Building
<1>5. new \in [Creators -> Labels]
  BY DEF Labels
<1>6. \A d \in Creators : new[d] \in Building =>
         pc[d] = new[d] /\ arg'[d] = arg[d] /\ arg[d] # q
  BY <1>2, <1>3 DEF MakeInv, Building
<1>7. \A t \in Threads : pc[t] \in {"none", "gone"} => new[t] = pc[t]
  BY <1>2, ThreadOf
<1>8. \A t \in Threads : t[1] = q => new[t] \in {"none", "gone"}
  BY <1>4, <1>7 DEF ThreadInv
<1>9. \A t \in Threads : new[t] = "woken_any" => pc[t] = "woken_any"
  BY ThreadOf
<1>10. new[Registry] = "umount" => pc[Registry] = "umount"
  BY RegistryIs
<1>11. ProcessExit(q, new)
  BY <1>1
<1> HIDE DEF new, q
<1>12. QED
  BY <1>2, <1>3, <1>4, <1>5, <1>6, <1>7, <1>8, <1>9, <1>10, <1>11, ExitLife

\* A process that exits is running.
LEMMA DeathLife ==
  ASSUME LifeInv, NEW p \in Pids, Exit(p)
  PROVE  LifeInv'
<1> USE DEF LifeInv, LifeTypes, waitVars, callVars, condVars
<1> DEFINE new == [c \in Creators |-> IF c \in {p} \X Slots THEN "gone" ELSE pc[c]]
<1>1. /\ phase[p] = "running" /\ phase' = [phase EXCEPT ![p] = "uncounted"]
      /\ UNCHANGED <<pid_counter_, last_dead_pid_, arg>> /\ ProcessExit(p, new)
  BY DEF Exit
<1>2. p \in process_list_
  BY <1>1 DEF ListInv
<1>3. new \in [Creators -> Labels]
  BY DEF Labels
<1>4. \A d \in Creators : new[d] \in Building => pc[d] = new[d] /\ arg'[d] = arg[d] /\ arg[d] # p
  BY <1>1 DEF MakeInv, Building
<1>5. \A t \in Threads : pc[t] \in {"none", "gone"} => new[t] = pc[t]
  <2>1. \A t \in Threads : t[1] = p => pc[t] \in {"user", "killed"}
    BY DEF Exit, Threads
  <2>2. QED
    BY <2>1, ThreadOf
<1>6. \A t \in Threads : t[1] = p => new[t] \in {"none", "gone"}
  BY ThreadOf
<1>7. \A t \in Threads : new[t] = "woken_any" => pc[t] = "woken_any"
  BY ThreadOf
<1>8. new[Registry] = "umount" => pc[Registry] = "umount"
  BY RegistryIs
<1> HIDE DEF new
<1>9. QED
  BY <1>1, <1>2, <1>3, <1>4, <1>5, <1>6, <1>7, <1>8, ExitLife

\* The process whose death is announced is gone.
LEMMA RemoveLife ==
  ASSUME LifeInv, NEW p \in Pids, RemoveFromWaitPIDMap(p)
  PROVE  LifeInv'
<1> USE DEF LifeInv, LifeTypes, countVars, condVars
<1>1. /\ phase[p] = "uncounted" /\ phase' = [phase EXCEPT ![p] = "gone"]
      /\ last_dead_pid_' = p /\ UNCHANGED <<pid_counter_, process_list_, progs_running_>>
  BY DEF RemoveFromWaitPIDMap, LastDead
<1>2. pc' = [c \in Creators |-> IF c \in WakesAll(p) THEN "user"
                                 ELSE IF pc[c] = "asleep_any" THEN "woken_any" ELSE pc[c]]
  BY DEF RemoveFromWaitPIDMap
<1>3. /\ arg' \in [Creators -> Int]
      /\ \A d \in Creators : d \notin WakesAll(p) => arg'[d] = arg[d]
  BY DEF RemoveFromWaitPIDMap, EndCall, NoPid
<1>4. \A d \in WakesAll(p) : d \in Threads /\ pc[d] = "asleep"
  BY DEF WakesAll, Sleepers
<1>5. LifeTypes'
  BY <1>1, <1>2, <1>3 DEF Labels, Phases
<1>6. \A d \in Creators : pc'[d] \in Building => pc[d] = pc'[d] /\ arg'[d] = arg[d]
  BY <1>2, <1>3 DEF Building
<1>7. MakeInv'
  BY <1>1, <1>6 DEF MakeInv
<1>8. \A t \in Threads : pc[t] \in {"none", "gone"} => pc'[t] = pc[t]
  BY <1>2, <1>4, ThreadOf
<1>9. ThreadInv'
  BY <1>1, <1>8, ThreadOf DEF ThreadInv
<1>10. ListInv'
  BY <1>1, <1>6 DEF ListInv, Building
<1>11. CountInv'
  BY <1>1 DEF CountInv
<1>12. AnyPidIsDead'
  BY <1>1 DEF AnyPidIsDead
<1>13. UnmountedLast'
  <2>1. pc'[Registry] = "umount" => pc[Registry] = "umount"
    BY <1>2, RegistryIs
  <2>2. QED
    BY <1>1, <1>8, <2>1 DEF UnmountedLast
<1>14. QED
  BY <1>5, <1>7, <1>9, <1>10, <1>11, <1>12, <1>13

\* The steps that neither begin nor end a process.
LEMMA CallLife ==
  ASSUME LifeInv, waitpid_map_ \subseteq Int, NEW t \in Creators,
         \/ AddToWaitPIDMap(t) \/ CreateProcessDone(t) \/ (t = Registry /\ RunWait)
         \/ t \in Threads /\ \/ GetCondToWait(t) \/ WaitForPid(t) \/ AnyPidDied(t)
                             \/ WaitForAnyPid(t) \/ \E p \in Pids : WaitPid(t, p)
  PROVE  LifeInv'
<1> USE DEF LifeInv, LifeTypes, countVars, waitVars, callVars, condVars, Goto
<1>1. UNCHANGED <<pid_counter_, countVars, last_dead_pid_, phase>>
  BY DEF AddToWaitPIDMap, CreateProcessDone, RunWait, GetCondToWait, WaitForPid, AnyPidDied,
         WaitForAnyPid, WaitPid
<1>2. PICK l \in Labels : /\ pc' = [pc EXCEPT ![t] = l]
                          /\ l \in Building => pc[t] = "load" /\ l = "add_thread" /\ UNCHANGED arg
                          /\ pc[t] \notin {"none", "gone", "umount"}
                          /\ l # "woken_any"
                          /\ l = "umount" => t = Registry /\ progs_running_ = 0
  <2>1. CASE AddToWaitPIDMap(t)
    BY <2>1 DEF AddToWaitPIDMap, Labels, Building
  <2>2. CASE CreateProcessDone(t)
    BY <2>2 DEF CreateProcessDone, Labels, Building
  <2>3. CASE t = Registry /\ RunWait
    <3>1. pc[t] \in {"user", "wait"}
      BY <2>3 DEF RunWait
    <3>2. PICK l \in {"umount", "asleep"} : /\ pc' = [pc EXCEPT ![t] = l]
                                            /\ l = "umount" => progs_running_ = 0
      BY <2>3 DEF RunWait
    <3>3. QED
      BY <2>3, <3>1, <3>2 DEF Labels, Building
  <2>4. CASE GetCondToWait(t)
    <3>1. pc[t] = "waitpid" /\ \E l \in {"waitpid", "user", "wait"} : pc' = [pc EXCEPT ![t] = l]
      <4>1. pc = [pc EXCEPT ![t] = pc[t]]
        OBVIOUS
      <4>2. QED
        BY <2>4, <4>1 DEF GetCondToWait
    <3>2. QED
      BY <3>1 DEF Labels, Building
  <2>5. CASE WaitForPid(t)
    <3>1. pc[t] = "wait" /\ \E l \in {"wait", "asleep"} : pc' = [pc EXCEPT ![t] = l]
      <4>1. pc = [pc EXCEPT ![t] = pc[t]]
        OBVIOUS
      <4>2. QED
        BY <2>5, <4>1 DEF WaitForPid
    <3>2. QED
      BY <3>1 DEF Labels, Building
  <2>6. CASE AnyPidDied(t)
    BY <2>6 DEF AnyPidDied, Labels, Building
  <2>7. CASE WaitForAnyPid(t)
    BY <2>7 DEF WaitForAnyPid, Labels, Building
  <2>8. CASE \E p \in Pids : WaitPid(t, p)
    BY <2>8 DEF WaitPid, Labels, Building
  <2>9. QED
    BY <2>1, <2>2, <2>3, <2>4, <2>5, <2>6, <2>7, <2>8
<1>4. \A d \in Creators : d # t => arg'[d] = arg[d]
  BY DEF AddToWaitPIDMap, CreateProcessDone, RunWait, GetCondToWait, WaitForPid, AnyPidDied,
         WaitForAnyPid, WaitPid, EndCall
<1>5. pc' \in [Creators -> Labels]
  BY <1>2
<1>6. \A d \in Creators : pc'[d] \in Building =>
            pc[d] \in Building /\ arg'[d] = arg[d] /\ (pc'[d] = "start" <=> pc[d] = "start")
  BY <1>2, <1>4 DEF Building
<1>7. \A u \in Threads : pc[u] \in {"none", "gone"} => pc'[u] = pc[u]
  BY <1>2, ThreadOf
<1>8. \A u \in Threads : pc'[u] = "woken_any" => pc[u] = "woken_any"
  BY <1>2, ThreadOf
<1>9. pc'[Registry] = "umount" => pc[Registry] = "umount" \/ progs_running_ = 0
  BY <1>2, RegistryIs
<1>10. arg' \in [Creators -> Int]
  <2>1. CASE WaitForPid(t)
    BY <2>1 DEF WaitForPid
  <2>2. CASE \E p \in Pids : WaitPid(t, p)
    BY <2>2, PidsAreNumbers DEF WaitPid
  <2>3. CASE ~WaitForPid(t) /\ ~\E p \in Pids : WaitPid(t, p)
    BY <2>3 DEF AddToWaitPIDMap, CreateProcessDone, RunWait, GetCondToWait, AnyPidDied,
         WaitForAnyPid, EndCall, NoPid
  <2>4. QED
    BY <2>1, <2>2, <2>3
<1>11. QED
  BY <1>1, <1>5, <1>6, <1>7, <1>8, <1>9, <1>10, LifeKeeps

\* The initial state.
LEMMA InitLife == Init => LifeInv
<1> SUFFICES ASSUME Init PROVE LifeInv
  OBVIOUS
<1> USE DEF Init
<1>1. LifeTypes
  BY RegistryAssumption DEF LifeTypes, Pids, Phases, Labels, NoPid
<1>2. MakeInv
  BY DEF MakeInv, Building
<1>3. ThreadInv
  BY ThreadOf DEF ThreadInv
<1>4. ListInv
  BY DEF ListInv
<1>5. CountInv
  BY FS_EmptySet DEF CountInv
<1>6. AnyPidIsDead
  BY ThreadOf DEF AnyPidIsDead
<1>7. UnmountedLast
  BY RegistryIs DEF UnmountedLast
<1>8. QED
  BY <1>1, <1>2, <1>3, <1>4, <1>5, <1>6, <1>7 DEF LifeInv

\* Every step keeps the invariant.
LEMMA NextLife == LifeInv /\ WaitInv /\ [Next]_vars => LifeInv'
<1> SUFFICES ASSUME LifeInv, WaitInv, [Next]_vars PROVE LifeInv'
  OBVIOUS
<1>1. ASSUME NEW c \in Creators, CreatorStep(c) PROVE LifeInv'
  BY <1>1, StartLife, CallLife, ThreadLife, FailLife DEF CreatorStep, WaitInv, WaitTypes
<1>2. CASE RegistryStep
  <2>1. CASE Create(Registry, "createprocess")
    BY <2>1, RegistryIs, CreateLife DEF Creations
  <2>2. CASE RunWait
    BY <2>2, RegistryIs, CallLife DEF WaitInv, WaitTypes
  <2>3. QED
    BY <1>1, <1>2, <2>1, <2>2, RegistryIs DEF RegistryStep
<1>3. ASSUME NEW t \in Threads, ThreadStep(t) \/ Syscall(t)
      PROVE  LifeInv'
  <2>1. t \in Creators
    BY ThreadOf
  <2>2. CASE ThreadStep(t)
    BY <1>1, <2>1, <2>2, CallLife DEF ThreadStep, WaitInv, WaitTypes
  <2>3. CASE Syscall(t)
    BY <2>1, <2>3, CallLife, CreateLife DEF Syscall, WaitInv, WaitTypes
  <2>4. QED
    BY <1>3, <2>2, <2>3
<1>4. ASSUME NEW p \in Pids, Exit(p) \/ RemoveFromWaitPIDMap(p)
      PROVE  LifeInv'
  BY <1>4, DeathLife, RemoveLife
<1>5. CASE UNCHANGED vars
  BY <1>5 DEF vars, countVars, waitVars, callVars, LifeInv, LifeTypes, MakeInv, ThreadInv,
     ListInv, CountInv, AnyPidIsDead, UnmountedLast
<1>6. QED
  BY <1>2, <1>3, <1>4, <1>5 DEF Next

\* What waitpid(-1) returns is the pid of a process that has ended and whose
\* pid is not used again, however late the woken thread reads last_dead_pid_.
THEOREM AnyPidReallyDied == Spec => []AnyPidIsDead
<1>1. LifeInv => AnyPidIsDead
  BY DEF LifeInv
<1>2. QED
  BY <1>1, InitWait, NextWait, InitLife, NextLife, PTL DEF Spec

\* ProcessRegistry::Run leaves its loop, and unmounts, after the last process:
\* progs_running_ is the number of processes on process_list_ at all times, in
\* whatever order forks, failed creations and deaths are counted.
THEOREM UnmountIsLast == Spec => []UnmountedLast
<1>1. LifeInv => UnmountedLast
  BY DEF LifeInv
<1>2. QED
  BY <1>1, InitWait, NextWait, InitLife, NextLife, PTL DEF Spec
=============================================================================
