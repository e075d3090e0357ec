------------------------- MODULE UserThreadsProofs -------------------------
(***************************************************************************)
(* What UserThreads guarantees to every program, whatever calls its        *)
(* threads make and however many of them there are.                        *)
(***************************************************************************)
EXTENDS UserThreads, TLAPS

\* A waiter in waiting_list_ is asleep in, or waking up from, the joinThread
\* that put it there.
WaitInv ==
    \A x, w \in Tids :
        waiting_list_[x] = w => pc[w] \in {"join_wait", "join_resume"} /\ arg[w] = x

\* A thread is in thread_list_ from its creation to its destruction, and the
\* process exists while it has a thread.
ListInv ==
    /\ \A t \in Tids : pc[t] \notin {"none", "deleted"} => t \in thread_list_
    /\ thread_list_ # {} => alive = TRUE
    /\ \A t \in destroy_list : pc[t] = "dead"

\* A thread that has passed exitThread is on its way to destruction.
ExitInv ==
    /\ ret_values_ \subseteq exited_
    /\ \A t \in exited_ : pc[t] \in {"exit", "dead", "deleted"}
    /\ \A t \in Tids : next_tid_ <= t => pc[t] = "none"

\* The labels of the threads that run code.
Live == Labels \ {"none", "dead", "deleted"}

\* NoTid is not a tid.
LEMMA TidFacts == NoTid \notin Tids /\ Tids \subseteq Int /\ 0 \in Tids
  BY ThreadsAssumption DEF NoTid, Tids

-----------------------------------------------------------------------------
(* Types *)

\* A step of the kernel on behalf of a thread keeps the types.
LEMMA KernelTypes ==
  ASSUME TypeOK, NEW t \in Tids, KernelStep(t), UNCHANGED program
  PROVE  TypeOK'
<1> USE TidFacts, ThreadsAssumption
    DEF TypeOK, Goto, listVars, joinVars, cancelVars, callVars, cleanupVars, Labels, Ops
<1>1. CASE Cancelled(t) \/ Return(t) \/ Exit(t) \/ ExecvLoad(t) \/ KillCheck(t)
  <2>1. \E l \in Labels : pc' = [pc EXCEPT ![t] = l]
    BY <1>1 DEF Cancelled, Return, Exit, ExecvLoad, KillCheck
  <2>2. pc' \in [Tids -> Labels]
    BY <2>1
  <2>3. /\ cancelable_' \subseteq Tids
        /\ UNCHANGED <<listVars, joinVars, cancel_req_, callVars, cleanupVars>>
    BY <1>1 DEF Cancelled, Return, Exit, ExecvLoad, KillCheck
  <2>4. QED
    BY <2>2, <2>3
<1>2. CASE CreateThread(t)
  <2>1. UNCHANGED <<called_exit_, tid_list_, joinVars, cancel_req_, callVars, cleanupVars>>
    BY <1>2 DEF CreateThread
  <2>2. CASE Goto(t, "user") /\ UNCHANGED <<next_tid_, thread_list_, cancelable_>>
    BY <2>1, <2>2
  <2>3. CASE /\ next_tid_ <= MaxTid
             /\ next_tid_' = next_tid_ + 1
             /\ thread_list_' = thread_list_ \cup {next_tid_}
             /\ cancelable_' = cancelable_ \cup {next_tid_}
             /\ pc' = [pc EXCEPT ![t] = "user", ![next_tid_] = "user"]
    <3>1. next_tid_ \in Tids /\ next_tid_' \in 1..MaxTid + 1
      BY <2>3 DEF Tids
    <3>2. pc' \in [Tids -> Labels]
      BY <2>3
    <3>3. QED
      BY <2>1, <2>3, <3>1, <3>2
  <2>4. QED
    BY <1>2, <2>2, <2>3 DEF CreateThread, AllocNextFreeTID
<1>3. CASE ExitThread(t)
  BY <1>3 DEF ExitThread, StoreRetValue
<1>4. CASE JoinThread(t)
  <2>1. pc' \in [Tids -> Labels]
    BY <1>4 DEF JoinThread
  <2>2. /\ ret_values_' = ret_values_ \/ ret_values_' = ret_values_ \ {arg[t]}
        /\ \/ waiting_list_' = waiting_list_
           \/ waiting_list_' = [waiting_list_ EXCEPT ![arg[t]] = t]
    BY <1>4 DEF JoinThread
  <2>3. UNCHANGED <<listVars, exited_, cancelVars, callVars, cleanupVars>>
    BY <1>4 DEF JoinThread
  <2>4. waiting_list_' \in [Tids -> Tids \cup {NoTid}]
    <3>1. CASE waiting_list_' = waiting_list_
      BY <3>1
    <3>2. CASE waiting_list_' = [waiting_list_ EXCEPT ![arg[t]] = t]
      BY <3>2
    <3>3. QED
      BY <2>2, <3>1, <3>2
  <2>5. ret_values_' \subseteq Tids
    BY <2>2
  <2>6. QED
    BY <2>1, <2>3, <2>4, <2>5
<1>5. CASE JoinResume(t)
  BY <1>5 DEF JoinResume
<1>6. CASE CancelThread(t)
  BY <1>6 DEF CancelThread, CancelRequest
<1>7. CASE KillSet(t)
  BY <1>7 DEF KillSet
<1>8. CASE KillList(t)
  BY <1>8 DEF KillList, OtherThreads
<1>9. ASSUME NEW x \in Tids PROVE x + 1 \in Nat
  BY DEF Tids
<1>10. CASE KillCancel(t)
  <2>1. CASE Rest(t) = {}
    <3>1. it' = [it EXCEPT ![t] = 0] /\ Goto(t, "kill_join") /\ UNCHANGED <<tid_list_, cancel_req_>>
      BY <1>10, <2>1 DEF KillCancel, IsNext
    <3>2. QED
      BY <1>10, <3>1 DEF KillCancel
  <2>2. ASSUME NEW x \in Tids, IsNext(t, x), CancelRequest(x),
               tid_list_' = IF x \in thread_list_ THEN tid_list_ ELSE tid_list_ \ {x},
               it' = [it EXCEPT ![t] = x + 1], UNCHANGED pc
        PROVE  TypeOK'
    BY <1>9, <1>10, <2>2 DEF KillCancel, CancelRequest
  <2>3. QED
    BY <1>10, <2>1, <2>2 DEF KillCancel
<1>11. CASE KillJoin(t)
  <2>1. it' \in [Tids -> Nat]
    BY <1>9, <1>11 DEF KillJoin
  <2>2. pc' \in [Tids -> Labels]
    BY <1>11 DEF KillJoin
  <2>3. arg' \in [Tids -> Tids \cup {NoTid}] /\ back' \in [Tids -> {"user", "kill_join", "execv"}]
    BY <1>11 DEF KillJoin
  <2>4. QED
    BY <1>11, <2>1, <2>2, <2>3 DEF KillJoin
<1>12. CASE ExecvNext(t)
  BY <1>12 DEF ExecvNext
<1>13. CASE ExecvCancel(t)
  <2>1. \E l \in Labels : pc' = [pc EXCEPT ![t] = l]
    BY <1>13 DEF ExecvCancel
  <2>2. pc' \in [Tids -> Labels]
    BY <2>1
  <2>3. cancel_req_' \subseteq Tids
    BY <1>13 DEF ExecvCancel, CancelRequest
  <2>4. UNCHANGED <<listVars, joinVars, cancelable_, callVars, cleanupVars>>
    BY <1>13 DEF ExecvCancel
  <2>5. QED
    BY <2>2, <2>3, <2>4
<1>14. CASE ExecvJoin(t)
  <2>1. it' \in [Tids -> Nat] /\ pc' \in [Tids -> Labels]
    BY <1>14 DEF ExecvJoin
  <2>2. arg' \in [Tids -> Tids \cup {NoTid}] /\ back' \in [Tids -> {"user", "kill_join", "execv"}]
    BY <1>14 DEF ExecvJoin
  <2>3. QED
    BY <1>14, <2>1, <2>2 DEF ExecvJoin
<1>15. QED
  BY <1>1, <1>2, <1>3, <1>4, <1>5, <1>6, <1>7, <1>8, <1>10, <1>11, <1>12, <1>13, <1>14
     DEF KernelStep

\* Every step keeps the types.
LEMMA TypeStep ==
  ASSUME TypeOK, [Next]_vars
  PROVE  TypeOK'
<1>0. UNCHANGED program
  BY DEF Next, vars
<1>1. CASE \E t \in Tids : KernelStep(t)
  BY <1>0, <1>1, KernelTypes
<1>2. ASSUME NEW t \in Tids, NEW op \in Ops, NEW tid \in Tids \cup {NoTid}, Syscall(t, op, tid)
      PROVE  TypeOK'
  BY <1>0, <1>2 DEF Syscall, TypeOK, Goto, Labels, listVars, joinVars, cancelVars, cleanupVars
<1>3. CASE \E t \in Tids : OnThreadDestroyed(t)
  BY <1>0, <1>3 DEF OnThreadDestroyed, TypeOK, Goto, Labels, joinVars, cancelVars, callVars
<1>4. CASE Collect
  BY <1>0, <1>4 DEF Collect, TypeOK, listVars, joinVars, cancelVars, callVars
<1>5. CASE UNCHANGED vars
  BY <1>5 DEF vars, TypeOK, listVars, joinVars, cancelVars, callVars, cleanupVars
<1>6. QED
  BY <1>1, <1>2, <1>3, <1>4, <1>5 DEF Next

-----------------------------------------------------------------------------
(* The wait graph of joinThread *)

\* A new edge that joinDeadlock allows closes no cycle.
LEMMA NewWaiter ==
  ASSUME TypeOK, JoinAcyclic, NEW t \in Tids, NEW x \in Tids, ~JoinDeadlock(t, x),
         waiting_list_' = [waiting_list_ EXCEPT ![x] = t]
  PROVE  JoinAcyclic'
<1>1. PICK R \in SUBSET Tids :
        /\ t \in R /\ x \notin R
        /\ \A u \in R : waiting_list_[u] # NoTid => waiting_list_[u] \in R
  BY DEF JoinDeadlock
<1>2. ASSUME NEW S \in SUBSET Tids, S # {}, \A u \in S : waiting_list_'[u] \in S
      PROVE  FALSE
  <2>1. \A u \in S : u # x => waiting_list_[u] \in S
    BY <1>2 DEF TypeOK
  <2>2. CASE x \notin S
    BY <1>2, <2>1, <2>2 DEF JoinAcyclic
  <2>3. CASE x \in S
    <3>1. t \in S
      BY <1>2, <2>3 DEF TypeOK
    <3>2. \A u \in S \cap R : waiting_list_[u] \in S \cap R
      BY <1>1, <2>1, TidFacts
    <3>3. S \cap R # {} /\ S \cap R \in SUBSET Tids
      BY <1>1, <3>1
    <3>4. QED
      BY <3>2, <3>3 DEF JoinAcyclic
  <2>4. QED
    BY <2>2, <2>3
<1>3. QED
  BY <1>2 DEF JoinAcyclic

\* Every step keeps the wait graph free of cycles.
LEMMA AcyclicStep ==
  ASSUME TypeOK, JoinAcyclic, [Next]_vars
  PROVE  JoinAcyclic'
<1> USE DEF listVars, joinVars, cancelVars, callVars, cleanupVars
<1>1. ASSUME NEW t \in Tids, JoinThread(t) PROVE JoinAcyclic'
  <2>1. CASE waiting_list_' = waiting_list_
    BY <2>1 DEF JoinAcyclic
  <2>2. CASE /\ ~JoinFails(t, arg[t]) /\ arg[t] \notin ret_values_
             /\ waiting_list_' = [waiting_list_ EXCEPT ![arg[t]] = t]
    <3>1. CASE arg[t] \in Tids
      BY <2>2, <3>1, NewWaiter DEF JoinFails
    <3>2. CASE arg[t] \notin Tids
      BY <2>1, <2>2, <3>2 DEF TypeOK
    <3>3. QED
      BY <3>1, <3>2
  <2>3. QED
    BY <1>1, <2>1, <2>2 DEF JoinThread
<1>2. ASSUME NEW t \in Tids, JoinResume(t) PROVE JoinAcyclic'
  <2>1. \A u \in Tids : waiting_list_'[u] \in {waiting_list_[u], NoTid}
    BY <1>2 DEF JoinResume, TypeOK
  <2>2. QED
    BY <2>1, TidFacts DEF JoinAcyclic
<1>3. ASSUME NEW t \in Tids, KernelStep(t), ~JoinThread(t), ~JoinResume(t)
      PROVE  waiting_list_' = waiting_list_
  BY <1>3 DEF KernelStep, Cancelled, Return, CreateThread, ExitThread, Exit, CancelThread,
              KillCheck, KillSet, KillList, KillCancel, KillJoin,
              ExecvNext, ExecvCancel, ExecvJoin, ExecvLoad
<1>4. CASE waiting_list_' = waiting_list_
  BY <1>4 DEF JoinAcyclic
<1>5. QED
  BY <1>1, <1>2, <1>3, <1>4 DEF Next, vars, Syscall, OnThreadDestroyed, Collect

-----------------------------------------------------------------------------
(* The life of a thread *)

\* A step other than these moves its own thread only, and only among the
\* labels of threads that run code.
LEMMA OwnStep ==
  ASSUME TypeOK, NEW t \in Tids, KernelStep(t),
         ~CreateThread(t), ~ExitThread(t), ~JoinThread(t), ~JoinResume(t)
  PROVE  /\ pc[t] \in Live \ {"join_wait", "join_resume"}
         /\ \E l \in (Live \ {"join_wait", "join_resume"}) \cup {"dead"} :
               pc' = [pc EXCEPT ![t] = l]
         /\ pc[t] = "exit" => pc'[t] = "dead"
         /\ UNCHANGED <<next_tid_, thread_list_, waiting_list_, ret_values_, exited_,
                        destroy_list, alive>>
         /\ \A u \in Tids : u # t => arg'[u] = arg[u]
<1> USE DEF TypeOK, Live, Labels, Ops, Goto, listVars, joinVars, cancelVars, callVars, cleanupVars
<1>1. CASE Cancelled(t) \/ Return(t) \/ Exit(t) \/ ExecvLoad(t) \/ KillCheck(t)
  BY <1>1 DEF Cancelled, Return, Exit, ExecvLoad, KillCheck
<1>2. CASE CancelThread(t) \/ KillSet(t) \/ KillList(t)
  BY <1>2 DEF CancelThread, KillSet, KillList
<1>3. CASE KillCancel(t)
  BY <1>3 DEF KillCancel
<1>4. CASE KillJoin(t)
  BY <1>4 DEF KillJoin
<1>5. CASE ExecvNext(t)
  BY <1>5 DEF ExecvNext
<1>6. CASE ExecvCancel(t) \/ ExecvJoin(t)
  BY <1>6 DEF ExecvCancel, ExecvJoin
<1>7. QED
  BY <1>1, <1>2, <1>3, <1>4, <1>5, <1>6 DEF KernelStep

LifeInv == WaitInv /\ ListInv /\ ExitInv

\* The invariants on the life of a thread survive a step of OwnStep's kind.
LEMMA OwnLife ==
  ASSUME TypeOK, LifeInv, NEW t \in Tids, KernelStep(t),
         ~CreateThread(t), ~ExitThread(t), ~JoinThread(t), ~JoinResume(t)
  PROVE  LifeInv'
<1>1. PICK l \in (Live \ {"join_wait", "join_resume"}) \cup {"dead"} :
         pc' = [pc EXCEPT ![t] = l]
  BY OwnStep
<1>2. /\ pc[t] \in Live \ {"join_wait", "join_resume"}
      /\ pc[t] = "exit" => pc'[t] = "dead"
      /\ UNCHANGED <<next_tid_, thread_list_, waiting_list_, ret_values_, exited_,
                     destroy_list, alive>>
      /\ \A u \in Tids : u # t => arg'[u] = arg[u]
  BY OwnStep
<1>3. WaitInv'
  BY <1>1, <1>2 DEF LifeInv, WaitInv, TypeOK, Live
<1>4. ListInv'
  BY <1>1, <1>2 DEF LifeInv, ListInv, TypeOK, Live
<1>5. ExitInv'
  BY <1>1, <1>2 DEF LifeInv, ExitInv, TypeOK, Live
<1>6. QED
  BY <1>3, <1>4, <1>5 DEF LifeInv

\* Creating a thread preserves them: its tid is fresh.
LEMMA CreateLife ==
  ASSUME TypeOK, LifeInv, NEW t \in Tids, CreateThread(t)
  PROVE  LifeInv'
<1>1. /\ pc[t] = "create"
      /\ UNCHANGED <<waiting_list_, ret_values_, exited_, arg, destroy_list, alive>>
  BY DEF CreateThread, joinVars, callVars, cleanupVars
<1>2. CASE pc' = [pc EXCEPT ![t] = "user"] /\ UNCHANGED <<next_tid_, thread_list_>>
  BY <1>1, <1>2 DEF LifeInv, WaitInv, ListInv, ExitInv, TypeOK
<1>3. CASE /\ next_tid_ <= MaxTid
           /\ next_tid_' = next_tid_ + 1
           /\ thread_list_' = thread_list_ \cup {next_tid_}
           /\ pc' = [pc EXCEPT ![t] = "user", ![next_tid_] = "user"]
  <2>1. next_tid_ \in Tids
    BY <1>3, ThreadsAssumption DEF Tids, TypeOK
  <2>2. pc[next_tid_] = "none" /\ t # next_tid_
    BY <1>1, <2>1, TidFacts DEF LifeInv, ExitInv
  <2>3. /\ pc'[t] = "user" /\ pc'[next_tid_] = "user"
        /\ \A u \in Tids : u # t /\ u # next_tid_ => pc'[u] = pc[u]
    BY <1>3, <2>1, <2>2 DEF TypeOK
  <2>4. WaitInv'
    BY <1>1, <2>2, <2>3 DEF LifeInv, WaitInv
  <2>5. ListInv'
    BY <1>1, <1>3, <2>2, <2>3 DEF LifeInv, ListInv, TypeOK
  <2>6. ExitInv'
    <3>1. \A u \in Tids : next_tid_' <= u => next_tid_ <= u /\ u # next_tid_ /\ u # t
      BY <1>1, <1>3, <2>2, TidFacts DEF LifeInv, ExitInv, TypeOK
    <3>2. QED
      BY <1>1, <2>2, <2>3, <3>1 DEF LifeInv, ExitInv, TypeOK
  <2>7. QED
    BY <2>4, <2>5, <2>6 DEF LifeInv
<1>4. QED
  BY <1>2, <1>3 DEF CreateThread, AllocNextFreeTID, Goto

\* So does exitThread: the thread it wakes up is in joinThread.
LEMMA ExitLife ==
  ASSUME TypeOK, LifeInv, NEW t \in Tids, ExitThread(t)
  PROVE  LifeInv'
<1>1. /\ pc[t] = "exit_thread" /\ pc'[t] = "exit"
      /\ ret_values_' = ret_values_ \cup {t} /\ exited_' = exited_ \cup {t}
      /\ UNCHANGED <<next_tid_, thread_list_, waiting_list_, arg, destroy_list, alive>>
  BY DEF ExitThread, StoreRetValue, listVars, callVars, cleanupVars
<1>2. \A u \in Tids : u # t =>
        \/ pc'[u] = pc[u]
        \/ pc[u] \in {"join_wait", "join_resume"} /\ pc'[u] = "join_resume"
  BY DEF ExitThread, LifeInv, WaitInv
<1>3. WaitInv'
  BY <1>1, <1>2 DEF LifeInv, WaitInv
<1>4. ListInv'
  BY <1>1, <1>2 DEF LifeInv, ListInv, TypeOK
<1>5. ExitInv'
  BY <1>1, <1>2 DEF LifeInv, ExitInv, TypeOK
<1>6. QED
  BY <1>3, <1>4, <1>5 DEF LifeInv

\* So does joinThread, on both sides of its wait.
LEMMA JoinLife ==
  ASSUME TypeOK, LifeInv, NEW t \in Tids, JoinThread(t) \/ JoinResume(t)
  PROVE  LifeInv'
<1>1. /\ pc[t] \in {"join", "join_resume"}
      /\ UNCHANGED <<next_tid_, thread_list_, exited_, arg, destroy_list, alive>>
      /\ ret_values_' \subseteq ret_values_
  BY DEF JoinThread, JoinResume, listVars, callVars, cleanupVars
<1>2. PICK l \in {"user", "kill_join", "execv", "join_wait"} : pc' = [pc EXCEPT ![t] = l]
  BY DEF JoinThread, JoinResume, Goto, TypeOK
<1>3. ListInv'
  BY <1>1, <1>2 DEF LifeInv, ListInv, TypeOK
<1>4. ExitInv'
  BY <1>1, <1>2 DEF LifeInv, ExitInv, TypeOK
<1>5. WaitInv'
  <2>1. CASE JoinThread(t) /\ waiting_list_' = waiting_list_
    BY <1>1, <1>2, <2>1 DEF JoinThread, LifeInv, WaitInv, TypeOK
  <2>2. CASE /\ JoinThread(t) /\ pc' = [pc EXCEPT ![t] = "join_wait"]
             /\ waiting_list_' = [waiting_list_ EXCEPT ![arg[t]] = t]
    BY <1>1, <2>2 DEF JoinThread, LifeInv, WaitInv, TypeOK
  <2>3. CASE JoinResume(t)
    <3>1. \A x \in Tids : waiting_list_'[x] = waiting_list_[x] \/ waiting_list_'[x] = NoTid
      BY <2>3 DEF JoinResume, TypeOK
    <3>2. \A x \in Tids : waiting_list_'[x] # t
      BY <2>3, TidFacts DEF JoinResume, LifeInv, WaitInv, TypeOK
    <3>3. QED
      BY <1>1, <1>2, <3>1, <3>2, TidFacts DEF LifeInv, WaitInv, TypeOK
  <2>4. QED
    BY <2>1, <2>2, <2>3 DEF JoinThread, Goto
<1>6. QED
  BY <1>3, <1>4, <1>5 DEF LifeInv

\* Every step preserves the invariants on the life of a thread.
LEMMA LifeStep ==
  ASSUME TypeOK, LifeInv, [Next]_vars
  PROVE  LifeInv'
<1>1. ASSUME NEW t \in Tids, KernelStep(t) PROVE LifeInv'
  BY <1>1, OwnLife, CreateLife, ExitLife, JoinLife
<1>2. ASSUME NEW t \in Tids, NEW op \in Ops, NEW tid \in Tids \cup {NoTid}, Syscall(t, op, tid)
      PROVE  LifeInv'
  <2>1. /\ pc[t] = "user" /\ pc' = [pc EXCEPT ![t] = op]
        /\ arg' = [arg EXCEPT ![t] = tid]
        /\ UNCHANGED <<listVars, joinVars, cleanupVars>>
    BY <1>2 DEF Syscall, Goto
  <2>2. op \notin {"none", "exit", "dead", "deleted", "join_wait", "join_resume"}
    BY DEF Ops
  <2>3. QED
    BY <2>1, <2>2 DEF LifeInv, WaitInv, ListInv, ExitInv, TypeOK, listVars, joinVars, cleanupVars
<1>3. ASSUME NEW t \in Tids, OnThreadDestroyed(t) PROVE LifeInv'
  <2>1. /\ pc[t] = "dead" /\ pc' = [pc EXCEPT ![t] = "deleted"]
        /\ destroy_list' = destroy_list \ {t} /\ thread_list_' = thread_list_ \ {t}
        /\ alive' = ~IsLastThread(thread_list_ \ {t})
        /\ UNCHANGED <<next_tid_, joinVars, arg>>
    BY <1>3 DEF OnThreadDestroyed, Goto, LifeInv, ListInv, callVars
  <2>2. WaitInv' /\ ExitInv'
    BY <2>1 DEF LifeInv, WaitInv, ExitInv, TypeOK, joinVars
  <2>3. ListInv'
    BY <2>1 DEF LifeInv, ListInv, TypeOK, IsLastThread
  <2>4. QED
    BY <2>2, <2>3 DEF LifeInv
<1>4. CASE Collect
  BY <1>4 DEF Collect, LifeInv, WaitInv, ListInv, ExitInv, listVars, joinVars, callVars
<1>5. CASE UNCHANGED vars
  BY <1>5 DEF vars, LifeInv, WaitInv, ListInv, ExitInv, listVars, joinVars, callVars, cleanupVars
<1>6. QED
  BY <1>1, <1>2, <1>3, <1>4, <1>5 DEF Next

-----------------------------------------------------------------------------
(* The theorems *)

\* The inductive invariant.
LEMMA Invariance == Spec => [](TypeOK /\ LifeInv /\ JoinAcyclic)
<1> DEFINE IndInv == TypeOK /\ LifeInv /\ JoinAcyclic
<1>1. Init => IndInv
  <2> SUFFICES ASSUME Init PROVE IndInv
    OBVIOUS
  <2>1. TypeOK
    <3>1. next_tid_ \in 1..MaxTid + 1
      BY ThreadsAssumption DEF Init
    <3>2. cancelable_ \subseteq Tids /\ called_exit_ \in BOOLEAN
      BY TidFacts DEF Init
    <3>3. QED
      BY <3>1, <3>2, TidFacts DEF Init, TypeOK, Labels, Ops
  <2>2. WaitInv /\ JoinAcyclic
    BY TidFacts DEF Init, WaitInv, JoinAcyclic
  <2>3. ListInv /\ ExitInv
    BY TidFacts DEF Init, ListInv, ExitInv
  <2>4. QED
    BY <2>1, <2>2, <2>3 DEF LifeInv
<1>2. IndInv /\ [Next]_vars => IndInv'
  BY TypeStep, LifeStep, AcyclicStep
<1>3. QED
  BY <1>1, <1>2, PTL DEF Spec

\* The join checks of the kernel prevent every circle of joining threads, in
\* any program: joinDeadlock always terminates and its answer is enough.
THEOREM NoJoinCycle == Spec => [](TypeOK /\ JoinAcyclic)
  BY Invariance, PTL

\* In any program a thread that can run is known to its process, and the
\* process outlives it.
THEOREM ThreadsListed == Spec => []LiveThreadsListed
<1>1. LifeInv => LiveThreadsListed
  BY DEF LifeInv, ListInv, LiveThreadsListed
<1>2. QED
  BY <1>1, Invariance, PTL

\* In any program no thread passes the guarded block of exitThread twice, so
\* that cancellation never revives a thread that has exited.
THEOREM SingleExit == Spec => []ExitsOnce
<1>1. LifeInv => ExitsOnce
  BY DEF LifeInv, ExitInv, ExitsOnce
<1>2. QED
  BY <1>1, Invariance, PTL

-----------------------------------------------------------------------------
(* Joins that are not lost *)

\* Program calls lets thread t call exit or execv, or w wait for thread x: in
\* pthread_join, or as it ends its siblings.
Kills(calls, t) == \E tid \in Tids \cup {NoTid} : <<t, "kill", tid>> \in calls
Execs(calls, t) == \E tid \in Tids \cup {NoTid} : <<t, "execv", tid>> \in calls
Joins(calls, w, x) == w # x /\ (<<w, "join", x>> \in calls \/ Kills(calls, w) \/ Execs(calls, w))

\* What pthread_join asks of a program: no two threads wait for the same one.
OneJoiner ==
    \A calls \in Programs : \A u, w, x \in Tids :
        Joins(calls, u, x) /\ Joins(calls, w, x) => u = w

\* Nobody waits for a thread that calls exit, which leaves no return value.
KillersNotJoined ==
    \A calls \in Programs : \A w, x \in Tids : Joins(calls, w, x) => ~Kills(calls, x)

KillLabels == {"kill", "kill_set", "kill_list", "kill_cancel", "kill_join"}
ExecvLabels == {"execv", "execv_cancel", "execv_join"}
JoinLabels == {"join", "join_wait", "join_resume"}

\* Which calls have brought a thread where it is, and which threads end
\* without passing exitThread.
CodeInv ==
    /\ \A t \in Tids : pc[t] \in KillLabels \/ back[t] = "kill_join" => Kills(program, t)
    /\ \A t \in Tids : pc[t] \in ExecvLabels \/ back[t] = "execv" => Execs(program, t)
    /\ \A t \in Tids : pc[t] \in JoinLabels =>
          arg[t] \in Tids /\ (arg[t] = t \/ Joins(program, t, arg[t]))
    /\ \A t \in Tids : pc[t] \in {"exit", "dead", "deleted"} => t \in exited_ \/ Kills(program, t)
    /\ \A t \in thread_list_ : pc[t] \notin {"none", "deleted"}

\* A joiner is the registered waiter of the thread it waits for.
SleepInv ==
    \A t \in Tids : pc[t] \in {"join_wait", "join_resume"} =>
        arg[t] # t /\ waiting_list_[arg[t]] = t

\* The thread a sleeping joiner waits for exists and has not passed exitThread.
AwaitInv ==
    \A t \in Tids : pc[t] = "join_wait" => arg[t] \notin exited_ /\ pc[arg[t]] # "none"

\* The return value a woken joiner comes for is still there.
ValueInv == \A t \in Tids : pc[t] = "join_resume" => arg[t] \in ret_values_

\* A step that moves one thread, to a label its calls allow, keeps CodeInv.
LEMMA CodeKeeps ==
  ASSUME TypeOK, CodeInv, NEW t \in Tids, NEW l \in Labels,
         pc' = [pc EXCEPT ![t] = l],
         UNCHANGED program, exited_ \subseteq exited_', thread_list_' \subseteq thread_list_,
         \A u \in Tids : u # t => arg'[u] = arg[u] /\ back'[u] = back[u],
         l \in KillLabels \/ back'[t] = "kill_join" => Kills(program, t),
         l \in ExecvLabels \/ back'[t] = "execv" => Execs(program, t),
         l \in JoinLabels => arg'[t] \in Tids /\ (arg'[t] = t \/ Joins(program, t, arg'[t])),
         l \in {"exit", "dead", "deleted"} => t \in exited_' \/ Kills(program, t),
         l \in {"none", "deleted"} => t \notin thread_list_'
  PROVE  CodeInv'
<1>1. pc'[t] = l /\ \A u \in Tids : u # t => pc'[u] = pc[u]
  BY DEF TypeOK
<1>2. \A u \in Tids : pc'[u] \in KillLabels \/ back'[u] = "kill_join" => Kills(program, u)
  BY <1>1 DEF CodeInv
<1>3. \A u \in Tids : pc'[u] \in ExecvLabels \/ back'[u] = "execv" => Execs(program, u)
  BY <1>1 DEF CodeInv
<1>4. \A u \in Tids : pc'[u] \in JoinLabels =>
          arg'[u] \in Tids /\ (arg'[u] = u \/ Joins(program, u, arg'[u]))
  BY <1>1 DEF CodeInv
<1>5. \A u \in Tids : pc'[u] \in {"exit", "dead", "deleted"} => u \in exited_' \/ Kills(program, u)
  BY <1>1 DEF CodeInv
<1>6. \A u \in thread_list_' : pc'[u] \notin {"none", "deleted"}
  BY <1>1 DEF CodeInv, TypeOK
<1>7. QED
  BY <1>2, <1>3, <1>4, <1>5, <1>6 DEF CodeInv

\* The steps of a thread other than creation and exitThread.
LEMMA CodeOwn ==
  ASSUME TypeOK, CodeInv, NEW t \in Tids, KernelStep(t), UNCHANGED program,
         ~CreateThread(t), ~ExitThread(t)
  PROVE  CodeInv'
<1> USE DEF Goto, listVars, joinVars, cancelVars, callVars, cleanupVars
<1>0. pc = [pc EXCEPT ![t] = pc[t]] /\ pc[t] \in Labels
  BY DEF TypeOK
<1>1. CASE Cancelled(t) \/ Return(t) \/ ExecvLoad(t) \/ CancelThread(t)
  <2>1. PICK l \in {"exit_thread", "user"} : pc' = [pc EXCEPT ![t] = l]
    BY <1>1 DEF Cancelled, Return, ExecvLoad, CancelThread
  <2>2. UNCHANGED <<exited_, thread_list_, arg, back>>
    BY <1>1 DEF Cancelled, Return, ExecvLoad, CancelThread
  <2>3. /\ l \in Labels /\ l \notin KillLabels \cup ExecvLabels \cup JoinLabels
        /\ l \notin {"exit", "dead", "deleted", "none"}
    BY DEF Labels, Ops, KillLabels, ExecvLabels, JoinLabels
  <2>4. back[t] = "kill_join" => Kills(program, t)
    BY DEF CodeInv
  <2>5. back[t] = "execv" => Execs(program, t)
    BY DEF CodeInv
  <2>6. QED
    BY <2>1, <2>2, <2>3, <2>4, <2>5, CodeKeeps
<1>2. CASE Exit(t)
  <2>1. pc' = [pc EXCEPT ![t] = "dead"] /\ UNCHANGED <<exited_, thread_list_, arg, back>>
    BY <1>2 DEF Exit
  <2>2. t \in exited_ \/ Kills(program, t)
    BY <1>2 DEF Exit, CodeInv
  <2>3. "dead" \in Labels /\ "dead" \notin KillLabels \cup ExecvLabels \cup JoinLabels
    BY DEF Labels, KillLabels, ExecvLabels, JoinLabels
  <2>4. back[t] = "kill_join" => Kills(program, t)
    BY DEF CodeInv
  <2>5. back[t] = "execv" => Execs(program, t)
    BY DEF CodeInv
  <2>6. QED
    BY <2>1, <2>2, <2>3, <2>4, <2>5, CodeKeeps
<1>3. CASE KillCheck(t) \/ KillSet(t) \/ KillList(t) \/ KillCancel(t) \/ KillJoin(t)
  <2>1. pc[t] \in KillLabels
    BY <1>3 DEF KillCheck, KillSet, KillList, KillCancel, KillJoin, KillLabels
  <2>2. Kills(program, t)
    BY <2>1 DEF CodeInv
  <2>3. PICK l \in KillLabels \cup {"exit", "join"} : pc' = [pc EXCEPT ![t] = l]
    BY <1>0, <1>3, <2>1 DEF KillCheck, KillSet, KillList, KillCancel, KillJoin, KillLabels
  <2>4. back'[t] # "execv" \/ back'[t] = back[t]
    BY <1>3 DEF KillCheck, KillSet, KillList, KillCancel, KillJoin, TypeOK
  <2>5. UNCHANGED <<exited_, thread_list_>>
    BY <1>3 DEF KillCheck, KillSet, KillList, KillCancel, KillJoin
  <2>6. \A u \in Tids : u # t => arg'[u] = arg[u] /\ back'[u] = back[u]
    BY <1>3 DEF KillCheck, KillSet, KillList, KillCancel, KillJoin, TypeOK
  <2>7. l \in JoinLabels => arg'[t] \in Tids
    <3>1. CASE KillJoin(t)
      BY <2>3, <3>1 DEF KillJoin, JoinLabels, TypeOK
    <3>2. CASE ~KillJoin(t)
      BY <1>3, <2>1, <2>3, <3>2
         DEF KillCheck, KillSet, KillList, KillCancel, KillLabels, JoinLabels, TypeOK
    <3>3. QED
      BY <3>1, <3>2
  <2>8. l \in Labels /\ l \notin ExecvLabels /\ l \notin {"none", "deleted"}
    BY DEF Labels, Ops, KillLabels, ExecvLabels
  <2>9. back'[t] = "execv" => Execs(program, t)
    BY <2>4 DEF CodeInv
  <2>10. l \in JoinLabels => arg'[t] = t \/ Joins(program, t, arg'[t])
    BY <2>2 DEF Joins
  <2>11. QED
    BY <2>2, <2>3, <2>5, <2>6, <2>7, <2>8, <2>9, <2>10, CodeKeeps
<1>4. CASE ExecvNext(t) \/ ExecvCancel(t) \/ ExecvJoin(t)
  <2>1. pc[t] \in ExecvLabels
    BY <1>4 DEF ExecvNext, ExecvCancel, ExecvJoin, ExecvLabels
  <2>2. Execs(program, t)
    BY <2>1 DEF CodeInv
  <2>3. PICK l \in ExecvLabels \cup {"execv_load", "stray", "join"} : pc' = [pc EXCEPT ![t] = l]
    BY <1>0, <1>4, <2>1 DEF ExecvNext, ExecvCancel, ExecvJoin, ExecvLabels
  <2>4. back'[t] # "kill_join" \/ back'[t] = back[t]
    BY <1>4 DEF ExecvNext, ExecvCancel, ExecvJoin, TypeOK
  <2>5. UNCHANGED <<exited_, thread_list_>>
    BY <1>4 DEF ExecvNext, ExecvCancel, ExecvJoin
  <2>6. \A u \in Tids : u # t => arg'[u] = arg[u] /\ back'[u] = back[u]
    BY <1>4 DEF ExecvNext, ExecvCancel, ExecvJoin, TypeOK
  <2>7. l \in JoinLabels => arg'[t] \in Tids
    <3>1. CASE ExecvJoin(t)
      BY <2>3, <3>1 DEF ExecvJoin, JoinLabels, TypeOK
    <3>2. CASE ~ExecvJoin(t)
      BY <1>4, <2>1, <2>3, <3>2 DEF ExecvNext, ExecvCancel, ExecvLabels, JoinLabels, TypeOK
    <3>3. QED
      BY <3>1, <3>2
  <2>8. /\ l \in Labels /\ l \notin KillLabels
        /\ l \notin {"exit", "dead", "deleted", "none"}
    BY DEF Labels, Ops, KillLabels, ExecvLabels
  <2>9. back'[t] = "kill_join" => Kills(program, t)
    BY <2>4 DEF CodeInv
  <2>10. l \in JoinLabels => arg'[t] = t \/ Joins(program, t, arg'[t])
    BY <2>2 DEF Joins
  <2>11. QED
    BY <2>2, <2>3, <2>5, <2>6, <2>7, <2>8, <2>9, <2>10, CodeKeeps
<1>5. CASE JoinThread(t) \/ JoinResume(t)
  <2>1. pc[t] \in JoinLabels
    BY <1>5 DEF JoinThread, JoinResume, JoinLabels
  <2>2. PICK l \in {back[t], "join_wait"} : pc' = [pc EXCEPT ![t] = l]
    BY <1>5 DEF JoinThread, JoinResume
  <2>3. UNCHANGED <<exited_, thread_list_, arg, back>>
    BY <1>5 DEF JoinThread, JoinResume
  <2>4. back[t] \in {"user", "kill_join", "execv"}
    BY DEF TypeOK
  <2>5. l \in Labels /\ l \notin {"exit", "dead", "deleted", "none"}
    BY <2>4 DEF Labels, Ops
  <2>6. l \in KillLabels \/ back'[t] = "kill_join" => Kills(program, t)
    BY <2>3, <2>4 DEF CodeInv, KillLabels
  <2>7. l \in ExecvLabels \/ back'[t] = "execv" => Execs(program, t)
    BY <2>3, <2>4 DEF CodeInv, ExecvLabels
  <2>8. arg'[t] \in Tids /\ (arg'[t] = t \/ Joins(program, t, arg'[t]))
    BY <2>1, <2>3 DEF CodeInv
  <2>9. QED
    BY <2>2, <2>3, <2>5, <2>6, <2>7, <2>8, CodeKeeps
<1>6. QED
  BY <1>1, <1>2, <1>3, <1>4, <1>5 DEF KernelStep

\* Every step keeps CodeInv.
LEMMA CodeStep ==
  ASSUME TypeOK, LifeInv, CodeInv, [Next]_vars
  PROVE  CodeInv'
<1>0. UNCHANGED program
  BY DEF Next, vars
<1>1. ASSUME NEW t \in Tids, CreateThread(t) PROVE CodeInv'
  <2>1. /\ pc[t] = "create" /\ UNCHANGED <<exited_, arg, back>>
    BY <1>1 DEF CreateThread, joinVars, callVars
  <2>2. CASE pc' = [pc EXCEPT ![t] = "user"] /\ UNCHANGED thread_list_
    <3>1. "user" \in Labels /\ "user" \notin KillLabels \cup ExecvLabels \cup JoinLabels
      BY DEF Labels, KillLabels, ExecvLabels, JoinLabels
    <3>2. /\ back[t] = "kill_join" => Kills(program, t)
          /\ back[t] = "execv" => Execs(program, t)
      BY DEF CodeInv
    <3>3. QED
      BY <1>0, <2>1, <2>2, <3>1, <3>2, CodeKeeps
  <2>3. CASE /\ next_tid_ <= MaxTid
             /\ thread_list_' = thread_list_ \cup {next_tid_}
             /\ pc' = [pc EXCEPT ![t] = "user", ![next_tid_] = "user"]
    <3>1. next_tid_ \in Tids
      BY <2>3, ThreadsAssumption DEF Tids, TypeOK
    <3>2. /\ pc'[t] = "user" /\ pc'[next_tid_] = "user"
          /\ \A u \in Tids : pc'[u] # "user" => pc'[u] = pc[u] /\ u # next_tid_
          /\ \A u \in Tids : u # t /\ u # next_tid_ => pc'[u] = pc[u]
      BY <2>3, <3>1 DEF TypeOK
    <3>3. \A u \in Tids : pc'[u] \in KillLabels \/ back'[u] = "kill_join" => Kills(program', u)
      BY <1>0, <2>1, <3>2 DEF CodeInv, KillLabels
    <3>4. \A u \in Tids : pc'[u] \in ExecvLabels \/ back'[u] = "execv" => Execs(program', u)
      BY <1>0, <2>1, <3>2 DEF CodeInv, ExecvLabels
    <3>5. \A u \in Tids : pc'[u] \in JoinLabels =>
             arg'[u] \in Tids /\ (arg'[u] = u \/ Joins(program', u, arg'[u]))
      BY <1>0, <2>1, <3>2 DEF CodeInv, JoinLabels
    <3>6. \A u \in Tids : pc'[u] \in {"exit", "dead", "deleted"} =>
             u \in exited_' \/ Kills(program', u)
      BY <1>0, <2>1, <3>2 DEF CodeInv
    <3>7. \A u \in thread_list_' : pc'[u] \notin {"none", "deleted"}
      BY <2>3, <3>2 DEF CodeInv, TypeOK
    <3>8. QED
      BY <3>3, <3>4, <3>5, <3>6, <3>7 DEF CodeInv
  <2>4. QED
    BY <1>1, <2>2, <2>3 DEF CreateThread, AllocNextFreeTID, Goto
<1>2. ASSUME NEW t \in Tids, ExitThread(t) PROVE CodeInv'
  <2>1. /\ pc'[t] = "exit" /\ exited_' = exited_ \cup {t}
        /\ UNCHANGED <<thread_list_, arg, back>>
    BY <1>2 DEF ExitThread, StoreRetValue, listVars, callVars
  <2>2. \A u \in Tids : u # t =>
          \/ pc'[u] = pc[u]
          \/ pc[u] \in {"join_wait", "join_resume"} /\ pc'[u] = "join_resume"
    BY <1>2 DEF ExitThread, LifeInv, WaitInv
  <2>3. \A u \in Tids : pc'[u] \in KillLabels \/ back'[u] = "kill_join" => Kills(program', u)
    BY <1>0, <2>1, <2>2 DEF CodeInv, KillLabels
  <2>4. \A u \in Tids : pc'[u] \in ExecvLabels \/ back'[u] = "execv" => Execs(program', u)
    BY <1>0, <2>1, <2>2 DEF CodeInv, ExecvLabels
  <2>5. \A u \in Tids : pc'[u] \in JoinLabels =>
           arg'[u] \in Tids /\ (arg'[u] = u \/ Joins(program', u, arg'[u]))
    BY <1>0, <2>1, <2>2 DEF CodeInv, JoinLabels
  <2>6. \A u \in Tids : pc'[u] \in {"exit", "dead", "deleted"} =>
           u \in exited_' \/ Kills(program', u)
    BY <1>0, <2>1, <2>2 DEF CodeInv
  <2>7. \A u \in thread_list_' : pc'[u] \notin {"none", "deleted"}
    BY <2>1, <2>2 DEF CodeInv, TypeOK
  <2>8. QED
    BY <2>3, <2>4, <2>5, <2>6, <2>7 DEF CodeInv
<1>3. ASSUME NEW t \in Tids, NEW op \in Ops, NEW tid \in Tids \cup {NoTid}, Syscall(t, op, tid)
      PROVE  CodeInv'
  <2>1. /\ pc' = [pc EXCEPT ![t] = op] /\ <<t, op, tid>> \in program
        /\ arg' = [arg EXCEPT ![t] = tid] /\ back' = [back EXCEPT ![t] = "user"]
        /\ UNCHANGED <<exited_, thread_list_>>
    BY <1>3 DEF Syscall, Goto, listVars, joinVars
  <2>2. op \in Labels /\ op \notin {"exit", "dead", "deleted", "none"}
    BY DEF Labels, Ops
  <2>3. op \in KillLabels => Kills(program, t)
    BY <2>1 DEF KillLabels, Kills, Ops
  <2>4. op \in ExecvLabels => Execs(program, t)
    BY <2>1 DEF ExecvLabels, Execs, Ops
  <2>5. op \in JoinLabels => arg'[t] \in Tids /\ (arg'[t] = t \/ Joins(program, t, arg'[t]))
    <3>1. CASE op = "join"
      <4>1. <<t, op, tid>>[2] \in {"join", "cancel"} /\ <<t, op, tid>>[3] = tid
        BY <3>1
      <4>2. tid \in Tids
        BY <2>1, <4>1, ThreadsAssumption DEF TypeOK
      <4>3. arg'[t] = tid
        BY <2>1 DEF TypeOK
      <4>4. QED
        BY <2>1, <3>1, <4>2, <4>3 DEF Joins
    <3>2. CASE op # "join"
      BY <3>2 DEF Ops, JoinLabels
    <3>3. QED
      BY <3>1, <3>2
  <2>6. back'[t] = "user" /\ \A u \in Tids : u # t => arg'[u] = arg[u] /\ back'[u] = back[u]
    BY <2>1 DEF TypeOK
  <2>7. QED
    BY <1>0, <2>1, <2>2, <2>3, <2>4, <2>5, <2>6, CodeKeeps
<1>4. ASSUME NEW t \in Tids, OnThreadDestroyed(t) PROVE CodeInv'
  <2>1. /\ pc' = [pc EXCEPT ![t] = "deleted"] /\ pc[t] = "dead"
        /\ thread_list_' = thread_list_ \ {t} /\ UNCHANGED <<exited_, arg, back>>
    BY <1>4 DEF OnThreadDestroyed, Goto, joinVars, callVars, LifeInv, ListInv
  <2>2. t \in exited_ \/ Kills(program, t)
    BY <2>1 DEF CodeInv
  <2>3. "deleted" \in Labels /\ "deleted" \notin KillLabels \cup ExecvLabels \cup JoinLabels
    BY DEF Labels, KillLabels, ExecvLabels, JoinLabels
  <2>4. /\ back[t] = "kill_join" => Kills(program, t)
        /\ back[t] = "execv" => Execs(program, t)
    BY DEF CodeInv
  <2>5. QED
    BY <1>0, <2>1, <2>2, <2>3, <2>4, CodeKeeps
<1>5. CASE Collect \/ UNCHANGED vars
  <2>1. UNCHANGED <<pc, arg, back, exited_, thread_list_>>
    BY <1>5 DEF Collect, vars, listVars, joinVars, callVars
  <2>2. QED
    BY <1>0, <2>1 DEF CodeInv
<1>6. QED
  BY <1>0, <1>1, <1>2, <1>3, <1>4, <1>5, CodeOwn DEF Next

\* A step that lets nobody into joinThread, nor wakes or loses a waiter there,
\* and takes no return value, keeps the invariants of the sleepers.
LEMMA SleepKeeps ==
  ASSUME TypeOK, SleepInv,
         UNCHANGED waiting_list_, ret_values_ \subseteq ret_values_',
         \A t \in Tids : pc'[t] \in {"join_wait", "join_resume"} =>
            pc[t] = pc'[t] /\ arg'[t] = arg[t]
  PROVE  SleepInv' /\ (ValueInv => ValueInv')
<1>1. SleepInv'
  BY DEF SleepInv
<1>2. ValueInv => ValueInv'
  BY DEF ValueInv
<1>3. QED
  BY <1>1, <1>2

\* Every step keeps the waiters registered, and, when no two threads wait for
\* the same one, their return values.
LEMMA SleepStep ==
  ASSUME TypeOK, LifeInv, CodeInv, SleepInv, [Next]_vars
  PROVE  SleepInv' /\ (OneJoiner /\ ValueInv => ValueInv')
<1>1. ASSUME NEW t \in Tids, KernelStep(t),
             ~CreateThread(t), ~ExitThread(t), ~JoinThread(t), ~JoinResume(t)
      PROVE  SleepInv' /\ (ValueInv => ValueInv')
  <2>1. PICK l \in (Live \ {"join_wait", "join_resume"}) \cup {"dead"} :
           pc' = [pc EXCEPT ![t] = l]
    BY <1>1, OwnStep
  <2>2. /\ UNCHANGED <<waiting_list_, ret_values_>>
        /\ \A u \in Tids : u # t => arg'[u] = arg[u]
    BY <1>1, OwnStep
  <2>3. \A u \in Tids : pc'[u] \in {"join_wait", "join_resume"} => u # t /\ pc[u] = pc'[u]
    BY <2>1 DEF TypeOK
  <2>4. QED
    BY <2>2, <2>3, SleepKeeps
<1>2. ASSUME NEW t \in Tids, CreateThread(t)
      PROVE  SleepInv' /\ (ValueInv => ValueInv')
  <2>1. UNCHANGED <<waiting_list_, ret_values_, arg>>
    BY <1>2 DEF CreateThread, joinVars, callVars
  <2>2. \A u \in Tids : pc'[u] \in {"join_wait", "join_resume"} => pc[u] = pc'[u]
    BY <1>2 DEF CreateThread, Goto, TypeOK
  <2>3. QED
    BY <2>1, <2>2, SleepKeeps
<1>3. ASSUME NEW t \in Tids, ExitThread(t)
      PROVE  SleepInv' /\ (ValueInv => ValueInv')
  <2>1. /\ ret_values_' = ret_values_ \cup {t} /\ UNCHANGED <<waiting_list_, arg>>
        /\ pc' = [u \in Tids |-> IF u = t THEN "exit"
                                 ELSE IF u = waiting_list_[t] THEN "join_resume" ELSE pc[u]]
    BY <1>3 DEF ExitThread, StoreRetValue, callVars
  <2>2. \A u \in Tids : u = waiting_list_[t] =>
           pc[u] \in {"join_wait", "join_resume"} /\ arg[u] = t
    BY DEF LifeInv, WaitInv
  <2>3. SleepInv'
    BY <2>1, <2>2 DEF SleepInv
  <2>4. ValueInv => ValueInv'
    BY <2>1, <2>2 DEF ValueInv
  <2>5. QED
    BY <2>3, <2>4
<1>4. ASSUME NEW t \in Tids, JoinThread(t)
      PROVE  SleepInv' /\ (OneJoiner /\ ValueInv => ValueInv')
  <2> DEFINE x == arg[t]
  <2>1. pc[t] = "join" /\ UNCHANGED arg
    BY <1>4 DEF JoinThread, callVars
  <2>2. x \in Tids /\ (x = t \/ Joins(program, t, x))
    BY <2>1 DEF CodeInv, JoinLabels
  <2>3. back[t] \notin {"join_wait", "join_resume"}
    BY DEF TypeOK
  <2>4. CASE /\ JoinFails(t, x) /\ pc' = [pc EXCEPT ![t] = back[t]]
             /\ UNCHANGED <<ret_values_, waiting_list_>>
    <3>1. \A u \in Tids : pc'[u] \in {"join_wait", "join_resume"} => pc[u] = pc'[u]
      BY <2>3, <2>4 DEF TypeOK
    <3>2. QED
      BY <2>1, <2>4, <3>1, SleepKeeps
  <2>5. CASE /\ ~JoinFails(t, x) /\ ret_values_' = ret_values_ \ {x}
             /\ pc' = [pc EXCEPT ![t] = back[t]] /\ UNCHANGED waiting_list_
    <3>1. \A u \in Tids : pc'[u] \in {"join_wait", "join_resume"} => pc[u] = pc'[u] /\ u # t
      BY <2>3, <2>5 DEF TypeOK
    <3>2. SleepInv'
      BY <2>1, <2>5, <3>1 DEF SleepInv
    <3>3. ASSUME OneJoiner, ValueInv, NEW u \in Tids, pc'[u] = "join_resume"
          PROVE  arg'[u] \in ret_values_'
      <4>1. pc[u] = "join_resume" /\ u # t
        BY <3>1, <3>3
      <4>2. arg[u] \in Tids /\ Joins(program, u, arg[u])
        BY <4>1 DEF CodeInv, JoinLabels, SleepInv
      <4>3. Joins(program, t, x)
        BY <2>2, <2>5 DEF JoinFails
      <4>4. arg[u] # x
        BY <2>2, <3>3, <4>1, <4>2, <4>3 DEF OneJoiner, TypeOK
      <4>5. QED
        BY <2>1, <2>5, <3>3, <4>1, <4>4 DEF ValueInv
    <3>4. QED
      BY <3>2, <3>3 DEF ValueInv
  <2>6. CASE /\ ~JoinFails(t, x) /\ x \notin ret_values_
             /\ waiting_list_' = [waiting_list_ EXCEPT ![x] = t]
             /\ pc' = [pc EXCEPT ![t] = "join_wait"] /\ UNCHANGED ret_values_
    <3>1. x # t /\ waiting_list_[x] = NoTid
      BY <2>6 DEF JoinFails
    <3>2. waiting_list_'[x] = t /\ \A y \in Tids : y # x => waiting_list_'[y] = waiting_list_[y]
      BY <2>2, <2>6 DEF TypeOK
    <3>3. \A u \in Tids : u # t => pc'[u] = pc[u]
      BY <2>6 DEF TypeOK
    <3>4. ASSUME NEW u \in Tids, pc'[u] \in {"join_wait", "join_resume"}
          PROVE  arg'[u] # u /\ waiting_list_'[arg'[u]] = u
      <4>1. CASE u = t
        BY <2>1, <3>1, <3>2, <4>1
      <4>2. CASE u # t
        <5>1. arg[u] # u /\ waiting_list_[arg[u]] = u /\ arg[u] \in Tids
          BY <3>3, <3>4, <4>2 DEF SleepInv, CodeInv, JoinLabels
        <5>2. arg[u] # x
          BY <3>1, <5>1, TidFacts
        <5>3. QED
          BY <2>1, <3>2, <5>1, <5>2
      <4>3. QED
        BY <4>1, <4>2
    <3>5. ValueInv => ValueInv'
      BY <2>1, <2>6, <3>3 DEF ValueInv, TypeOK
    <3>6. QED
      BY <3>4, <3>5 DEF SleepInv
  <2>7. QED
    BY <1>4, <2>4, <2>5, <2>6 DEF JoinThread, Goto
<1>5. ASSUME NEW t \in Tids, JoinResume(t)
      PROVE  SleepInv' /\ (ValueInv => ValueInv')
  <2>1. /\ pc[t] = "join_resume" /\ pc' = [pc EXCEPT ![t] = back[t]] /\ UNCHANGED arg
        /\ waiting_list_' = [waiting_list_ EXCEPT ![arg[t]] = NoTid]
        /\ ret_values_' = ret_values_ \ {arg[t]}
    BY <1>5 DEF JoinResume, Goto, callVars
  <2>2. arg[t] \in Tids /\ waiting_list_[arg[t]] = t
    BY <2>1 DEF SleepInv, CodeInv, JoinLabels
  <2>3. \A u \in Tids : pc'[u] \in {"join_wait", "join_resume"} => pc[u] = pc'[u] /\ u # t
    BY <2>1 DEF TypeOK
  <2>4. \A u \in Tids : pc'[u] \in {"join_wait", "join_resume"} =>
           arg[u] # arg[t] /\ arg[u] \in Tids
    BY <2>2, <2>3 DEF SleepInv, CodeInv, JoinLabels
  <2>5. SleepInv'
    BY <2>1, <2>2, <2>3, <2>4 DEF SleepInv, TypeOK
  <2>6. ValueInv => ValueInv'
    BY <2>1, <2>3, <2>4 DEF ValueInv
  <2>7. QED
    BY <2>5, <2>6
<1>6. ASSUME NEW t \in Tids, NEW op \in Ops, NEW tid \in Tids \cup {NoTid}, Syscall(t, op, tid)
      PROVE  SleepInv' /\ (ValueInv => ValueInv')
  <2>1. /\ pc' = [pc EXCEPT ![t] = op] /\ arg' = [arg EXCEPT ![t] = tid]
        /\ UNCHANGED <<waiting_list_, ret_values_>>
    BY <1>6 DEF Syscall, Goto, joinVars
  <2>2. op \notin {"join_wait", "join_resume"}
    BY DEF Ops
  <2>3. \A u \in Tids : pc'[u] \in {"join_wait", "join_resume"} =>
           pc[u] = pc'[u] /\ arg'[u] = arg[u]
    BY <2>1, <2>2 DEF TypeOK
  <2>4. QED
    BY <2>1, <2>3, SleepKeeps
<1>7. ASSUME NEW t \in Tids, OnThreadDestroyed(t)
      PROVE  SleepInv' /\ (ValueInv => ValueInv')
  <2>1. pc' = [pc EXCEPT ![t] = "deleted"] /\ UNCHANGED <<waiting_list_, ret_values_, arg>>
    BY <1>7 DEF OnThreadDestroyed, Goto, joinVars, callVars
  <2>2. \A u \in Tids : pc'[u] \in {"join_wait", "join_resume"} => pc[u] = pc'[u]
    BY <2>1 DEF TypeOK
  <2>3. QED
    BY <2>1, <2>2, SleepKeeps
<1>8. CASE Collect \/ UNCHANGED vars
  <2>1. UNCHANGED <<pc, arg, waiting_list_, ret_values_>>
    BY <1>8 DEF Collect, vars, joinVars, callVars
  <2>2. QED
    BY <2>1, SleepKeeps
<1>9. QED
  BY <1>1, <1>2, <1>3, <1>4, <1>5, <1>6, <1>7, <1>8 DEF Next

\* Every step keeps the target of a sleeping joiner.
LEMMA AwaitStep ==
  ASSUME TypeOK, LifeInv, CodeInv, SleepInv, AwaitInv, [Next]_vars
  PROVE  AwaitInv'
<1>0. ASSUME \A u \in Tids : pc'[u] = "none" => pc[u] = "none",
             UNCHANGED exited_,
             \A u \in Tids : pc'[u] = "join_wait" => pc[u] = "join_wait" /\ arg'[u] = arg[u]
      PROVE  AwaitInv'
  <2>1. \A u \in Tids : pc[u] = "join_wait" => arg[u] \in Tids
    BY DEF CodeInv, JoinLabels
  <2>2. QED
    BY <1>0, <2>1 DEF AwaitInv
<1>1. ASSUME NEW t \in Tids, KernelStep(t),
             ~CreateThread(t), ~ExitThread(t), ~JoinThread(t), ~JoinResume(t)
      PROVE  AwaitInv'
  <2>1. PICK l \in (Live \ {"join_wait", "join_resume"}) \cup {"dead"} :
           pc' = [pc EXCEPT ![t] = l]
    BY <1>1, OwnStep
  <2>2. UNCHANGED exited_ /\ \A u \in Tids : u # t => arg'[u] = arg[u]
    BY <1>1, OwnStep
  <2>3. \A u \in Tids : pc'[u] \in {"none", "join_wait"} => u # t /\ pc'[u] = pc[u]
    BY <2>1 DEF TypeOK, Live
  <2>4. QED
    BY <1>0, <2>2, <2>3
<1>2. ASSUME NEW t \in Tids, CreateThread(t) PROVE AwaitInv'
  <2>1. UNCHANGED <<exited_, arg>>
    BY <1>2 DEF CreateThread, joinVars, callVars
  <2>2. \A u \in Tids : pc'[u] \in {"none", "join_wait"} => pc'[u] = pc[u]
    BY <1>2 DEF CreateThread, Goto, TypeOK
  <2>3. QED
    BY <1>0, <2>1, <2>2
<1>3. ASSUME NEW t \in Tids, ExitThread(t) PROVE AwaitInv'
  <2>1. /\ exited_' = exited_ \cup {t} /\ UNCHANGED arg
        /\ pc' = [u \in Tids |-> IF u = t THEN "exit"
                                 ELSE IF u = waiting_list_[t] THEN "join_resume" ELSE pc[u]]
    BY <1>3 DEF ExitThread, callVars
  <2>2. ASSUME NEW u \in Tids, pc'[u] = "join_wait"
        PROVE  arg'[u] \notin exited_' /\ pc'[arg'[u]] # "none"
    <3>1. pc[u] = "join_wait" /\ u # waiting_list_[t]
      BY <2>1, <2>2
    <3>2. arg[u] # t /\ arg[u] \in Tids
      BY <3>1 DEF SleepInv, CodeInv, JoinLabels
    <3>3. QED
      BY <2>1, <3>1, <3>2 DEF AwaitInv
  <2>3. QED
    BY <2>2 DEF AwaitInv
<1>4. ASSUME NEW t \in Tids, JoinThread(t) \/ JoinResume(t) PROVE AwaitInv'
  <2>1. UNCHANGED <<exited_, arg, thread_list_>>
    BY <1>4 DEF JoinThread, JoinResume, listVars, callVars
  <2>2. back[t] \notin {"none", "join_wait"}
    BY DEF TypeOK
  <2>3. CASE pc' = [pc EXCEPT ![t] = back[t]]
    <3>1. \A u \in Tids : pc'[u] \in {"none", "join_wait"} => pc'[u] = pc[u]
      BY <2>2, <2>3 DEF TypeOK
    <3>2. QED
      BY <1>0, <2>1, <3>1
  <2>4. CASE /\ ~JoinFails(t, arg[t]) /\ arg[t] \notin ret_values_
             /\ pc' = [pc EXCEPT ![t] = "join_wait"] /\ pc[t] = "join"
    <3>1. arg[t] \in thread_list_ /\ arg[t] \notin exited_ /\ arg[t] # t
      BY <2>4 DEF JoinFails
    <3>2. pc[arg[t]] # "none" /\ arg[t] \in Tids
      BY <3>1 DEF CodeInv, TypeOK
    <3>3. \A u \in Tids : u # t => pc'[u] = pc[u]
      BY <2>4 DEF TypeOK
    <3>4. \A u \in Tids : pc[u] = "join_wait" => arg[u] \in Tids
      BY DEF CodeInv, JoinLabels
    <3>5. pc'[t] = "join_wait"
      BY <2>4 DEF TypeOK
    <3>6. QED
      BY <2>1, <3>1, <3>2, <3>3, <3>4, <3>5 DEF AwaitInv
  <2>5. QED
    BY <1>4, <2>3, <2>4 DEF JoinThread, JoinResume, Goto
<1>5. ASSUME NEW t \in Tids, NEW op \in Ops, NEW tid \in Tids \cup {NoTid}, Syscall(t, op, tid)
      PROVE  AwaitInv'
  <2>1. /\ pc' = [pc EXCEPT ![t] = op] /\ arg' = [arg EXCEPT ![t] = tid] /\ UNCHANGED exited_
    BY <1>5 DEF Syscall, Goto, joinVars
  <2>2. op \notin {"none", "join_wait"}
    BY DEF Ops
  <2>3. \A u \in Tids : pc'[u] \in {"none", "join_wait"} => pc'[u] = pc[u] /\ arg'[u] = arg[u]
    BY <2>1, <2>2 DEF TypeOK
  <2>4. QED
    BY <1>0, <2>1, <2>3
<1>6. ASSUME NEW t \in Tids, OnThreadDestroyed(t) PROVE AwaitInv'
  <2>1. pc' = [pc EXCEPT ![t] = "deleted"] /\ UNCHANGED <<exited_, arg>>
    BY <1>6 DEF OnThreadDestroyed, Goto, joinVars, callVars
  <2>2. \A u \in Tids : pc'[u] \in {"none", "join_wait"} => pc'[u] = pc[u]
    BY <2>1 DEF TypeOK
  <2>3. QED
    BY <1>0, <2>1, <2>2
<1>7. CASE Collect \/ UNCHANGED vars
  <2>1. UNCHANGED <<pc, arg, exited_>>
    BY <1>7 DEF Collect, vars, joinVars, callVars
  <2>2. QED
    BY <1>0, <2>1
<1>8. QED
  BY <1>1, <1>2, <1>3, <1>4, <1>5, <1>6, <1>7 DEF Next

\* What holds of the joiners in any program, and what in one that obeys the
\* rule of pthread_join.
LEMMA JoinInvariance ==
  /\ Spec => [](TypeOK /\ LifeInv /\ CodeInv /\ SleepInv /\ AwaitInv)
  /\ OneJoiner => (Spec => []ValueInv)
<1>1. Init => CodeInv /\ SleepInv /\ AwaitInv /\ ValueInv
  <2> SUFFICES ASSUME Init PROVE CodeInv /\ SleepInv /\ AwaitInv /\ ValueInv
    OBVIOUS
  <2>1. CodeInv
    BY TidFacts DEF Init, CodeInv, KillLabels, ExecvLabels, JoinLabels
  <2>2. SleepInv /\ AwaitInv /\ ValueInv
    BY TidFacts DEF Init, SleepInv, AwaitInv, ValueInv
  <2>3. QED
    BY <2>1, <2>2
<1>2. TypeOK /\ LifeInv /\ CodeInv /\ SleepInv /\ AwaitInv /\ [Next]_vars =>
         CodeInv' /\ SleepInv' /\ AwaitInv'
  BY CodeStep, SleepStep, AwaitStep
<1>3. Spec => [](TypeOK /\ LifeInv /\ CodeInv /\ SleepInv /\ AwaitInv)
  BY <1>1, <1>2, Invariance, PTL DEF Spec
<1>4. ASSUME OneJoiner PROVE Spec => []ValueInv
  <2>1. TypeOK /\ LifeInv /\ CodeInv /\ SleepInv /\ ValueInv /\ [Next]_vars => ValueInv'
    BY <1>4, SleepStep
  <2>2. QED
    BY <1>1, <1>3, <2>1, PTL DEF Spec
<1>5. QED
  BY <1>3, <1>4

\* In every program that has no two threads wait for the same one, the
\* assertions of joinThread after its wait and of onThreadDestroyed hold,
\* however the exits, the cancellations and the wake-ups are interleaved.
THEOREM JoinAssertions == OneJoiner => (Spec => []AssertionsHold)
<1>1. LifeInv /\ CodeInv /\ SleepInv /\ ValueInv /\ TypeOK => AssertionsHold
  BY DEF LifeInv, ListInv, SleepInv, ValueInv, AssertionsHold, TypeOK
<1>2. QED
  BY <1>1, JoinInvariance, PTL

\* In every program in which nobody waits for a thread that calls exit, a
\* thread asleep in joinThread waits for one that has still to pass exitThread
\* and is registered there as the one to signal.
THEOREM JoinsNotLost == KillersNotJoined => (Spec => []NoLostJoin)
<1> SUFFICES ASSUME KillersNotJoined PROVE Spec => []NoLostJoin
  OBVIOUS
<1>1. TypeOK /\ CodeInv /\ SleepInv /\ AwaitInv => NoLostJoin
  <2>1. ASSUME TypeOK, CodeInv, SleepInv, AwaitInv, NEW t \in Tids, pc[t] = "join_wait"
        PROVE  /\ waiting_list_[arg[t]] = t
               /\ pc[arg[t]] \notin {"none", "exit", "dead", "deleted"}
               /\ arg[t] \notin exited_
    <3>1. waiting_list_[arg[t]] = t /\ arg[t] \in Tids /\ Joins(program, t, arg[t])
      BY <2>1 DEF CodeInv, SleepInv, JoinLabels
    <3>2. ~Kills(program, arg[t])
      BY <2>1, <3>1 DEF KillersNotJoined, TypeOK
    <3>3. QED
      BY <2>1, <3>1, <3>2 DEF CodeInv, AwaitInv
  <2>2. QED
    BY <2>1 DEF NoLostJoin
<1>2. QED
  BY <1>1, JoinInvariance, PTL
=============================================================================
