------------------------- MODULE KernelLocksProofs -------------------------
(***************************************************************************)
(* Proofs about KernelLocks, for any threads, mutexes and conditions.      *)
(*                                                                         *)
(* The inductive invariant is IndInv, below.  Each of its parts is proved  *)
(* from the effects of the actions, stated pointwise in a lemma per action *)
(* (XxxEffect): what the step writes for the thread that takes it, and     *)
(* that it leaves the other threads alone (Frame).                         *)
(***************************************************************************)
EXTENDS KernelLocks, TLAPS

AcquireLabels == {"check", "try", "acq_list", "retry", "recheck", "own",
                  "check_nb", "try_nb"}
ReleaseLabels == {"disown", "clear", "rel_list", "rel_pop"}

\* What the thread's local variables hold at each of its statements.
ControlOK(t) ==
    /\ pc[t] \in AcquireLabels \cup {"client"} => cond[t] = NULL
    /\ pc[t] \in AcquireLabels \cup ReleaseLabels => lock[t] \in Mutexes
    /\ pc[t] \in ReleaseLabels \cup {"wake"} /\ cond[t] # NULL
          => lock[t] = CondMutex[cond[t]]
    /\ pc[t] = "wait_list" => cond[t] \in Conditions /\ lock[t] = cond[t]
    /\ pc[t] \in {"sig_list", "sig_pop"} => lock[t] \in Conditions /\ cond[t] = NULL
    /\ pc[t] \in {"push", "sleep", "asleep"} =>
          /\ lock[t] \in Locks
          /\ lock[t] \in Conditions => cond[t] = lock[t]
          /\ lock[t] \in Mutexes => cond[t] = NULL
    /\ pc[t] = "wake" => lock[t] \in Locks /\ wakee[t] \in Threads
    /\ pc[t] # "wake" => wakee[t] = NULL
    /\ pc[t] \in {"sleep", "asleep"} => lock_waiting_on_[t] = lock[t]
    /\ pc[t] \notin {"sleep", "asleep"} => lock_waiting_on_[t] = NULL
    /\ state_[t] = "Sleeping" => pc[t] = "asleep"

ControlInv == \A t \in Threads : ControlOK(t)

-----------------------------------------------------------------------------
(* Type correctness *)

\* Every label a step jumps to is one of Labels.
LEMMA LabelFacts ==
  /\ {"client", "check", "try", "acq_list", "retry", "recheck", "own"} \subseteq Labels
  /\ {"check_nb", "try_nb", "disown", "clear", "rel_list", "rel_pop"} \subseteq Labels
  /\ {"wait_list", "sig_list", "sig_pop", "push", "sleep", "asleep", "wake"} \subseteq Labels
  BY DEF Labels

\* The lock a thread works on is a lock, at every statement that uses it.
LEMMA LockFacts ==
  ASSUME TypeOK, ControlInv, NEW t \in Threads
  PROVE  /\ pc[t] \notin {"client"} => lock[t] \in Locks
         /\ cond[t] # NULL => /\ cond[t] \in Conditions \cap Locks
                              /\ CondMutex[cond[t]] \in Mutexes \cap Locks
<1>1. pc[t] \in Labels /\ ControlOK(t)
  BY DEF TypeOK, ControlInv
<1>2. pc[t] # "client" => lock[t] \in Locks
  BY <1>1 DEF Labels, ControlOK, AcquireLabels, ReleaseLabels, Locks
<1>3. cond[t] # NULL => cond[t] \in Conditions
  BY DEF TypeOK
<1>4. QED
  BY <1>2, <1>3, LocksAssumption DEF Locks

\* The types of the locks, of the threads and of the calls under way.
LockTypes ==
    /\ mutex_ \in [Mutexes -> {0, 1}]
    /\ held_by_ \in [Mutexes -> Threads \cup {NULL}]
    /\ waiters_list_ \in [Locks -> Seq(Threads)]
    /\ waiters_list_lock_ \in [Locks -> {0, 1}]

ThreadTypes ==
    /\ holding_lock_list_ \in [Threads -> SUBSET Mutexes]
    /\ lock_waiting_on_ \in [Threads -> Locks \cup {NULL}]
    /\ state_ \in [Threads -> {"Running", "Sleeping"}]

CallTypes ==
    /\ pc \in [Threads -> Labels]
    /\ lock \in [Threads -> Locks \cup {NULL}]
    /\ cond \in [Threads -> Conditions \cup {NULL}]
    /\ flag \in [Threads -> BOOLEAN]
    /\ wakee \in [Threads -> Threads \cup {NULL}]

\* A call goes from one label to another, at the same lock or a new one.
LEMMA CallMoves ==
  ASSUME CallTypes, NEW t \in Threads, NEW label \in Labels, Goto(t, label),
         \/ UNCHANGED lock
         \/ \E l \in Locks : lock' = [lock EXCEPT ![t] = l],
         UNCHANGED <<cond, flag, wakee>>
  PROVE  CallTypes'
  BY DEF CallTypes, Goto

\* The locks and threads that a step leaves alone keep their types.
LEMMA TypesKept ==
  /\ LockTypes /\ UNCHANGED lockVars => LockTypes'
  /\ ThreadTypes /\ UNCHANGED threadVars => ThreadTypes'
  BY DEF LockTypes, ThreadTypes, lockVars, threadVars

\* Every step of the lock classes keeps every variable in its type.
LEMMA TypeStep ==
  ASSUME TypeOK, ControlInv, NEW t \in Threads, Step(t) \/ Call(t)
  PROVE  TypeOK'
<1> DEFINE l == lock[t]
<1>0. /\ pc[t] # "client" => l \in Locks
      /\ cond[t] # NULL => cond[t] \in Locks /\ CondMutex[cond[t]] \in Locks
      /\ pc[t] = "wait_list" => cond[t] # NULL
      /\ pc[t] \in {"own", "disown", "clear"} => l \in Mutexes
  BY LockFacts, LocksAssumption DEF ControlInv, ControlOK, AcquireLabels, ReleaseLabels
<1> HIDE DEF l
<1> SUFFICES LockTypes' /\ ThreadTypes' /\ CallTypes'
  BY DEF TypeOK, LockTypes, ThreadTypes, CallTypes
<1>a. LockTypes /\ ThreadTypes /\ CallTypes
  BY DEF TypeOK, LockTypes, ThreadTypes, CallTypes
<1>1. CASE Check(t) \/ CheckAgain(t)
  <2>1. UNCHANGED <<lockVars, threadVars, lock, cond, flag, wakee>>
    BY <1>1 DEF Check, CheckAgain
  <2>2. PICK label \in Labels : Goto(t, label)
    BY <1>1, LabelFacts DEF Check, CheckAgain
  <2>3. QED
    BY <1>a, <2>1, <2>2, CallMoves, TypesKept
<1>2. CASE TestSet(t) \/ TestSetAgain(t)
  <2>1. /\ mutex_' = [mutex_ EXCEPT ![l] = 1]
        /\ UNCHANGED waiters_list_lock_ \/ UnlockList(l)
        /\ UNCHANGED <<held_by_, waiters_list_, threadVars, lock, cond, flag, wakee>>
    BY <1>2 DEF TestSet, TestSetAgain, Set, l
  <2>2. PICK label \in Labels : Goto(t, label)
    BY <1>2, LabelFacts DEF TestSet, TestSetAgain
  <2>3. LockTypes'
    BY <1>a, <2>1 DEF LockTypes, UnlockList
  <2>4. QED
    BY <1>a, <2>1, <2>2, <2>3, CallMoves, TypesKept
<1>3. CASE Own(t) \/ Disown(t)
  <2>1. /\ \E u \in Threads \cup {NULL} : held_by_' = [held_by_ EXCEPT ![l] = u]
        /\ \/ holding_lock_list_' = [holding_lock_list_ EXCEPT ![t] = @ \cup {l}]
           \/ holding_lock_list_' = [holding_lock_list_ EXCEPT ![t] = @ \ {l}]
        /\ l \in Mutexes
        /\ UNCHANGED <<mutex_, waiters_list_, waiters_list_lock_, lock_waiting_on_,
                       state_, lock, cond, flag, wakee>>
    BY <1>0, <1>3 DEF Own, Disown, l
  <2>2. PICK label \in Labels : Goto(t, label)
    BY <1>3, LabelFacts DEF Own, Disown
  <2>3. LockTypes'
    BY <1>a, <2>1 DEF LockTypes
  <2>4. ThreadTypes'
    BY <1>a, <2>1 DEF ThreadTypes
  <2>5. QED
    BY <1>a, <2>1, <2>2, <2>3, <2>4, CallMoves
<1>4. CASE Clear(t)
  <2>1. /\ mutex_' = [mutex_ EXCEPT ![l] = 0] /\ Goto(t, "rel_list") /\ "rel_list" \in Labels
        /\ UNCHANGED <<held_by_, waiters_list_, waiters_list_lock_, threadVars,
                       lock, cond, flag, wakee>>
    BY <1>4, LabelFacts DEF Clear, l
  <2>2. LockTypes'
    BY <1>a, <2>1 DEF LockTypes
  <2>3. QED
    BY <1>a, <2>1, <2>2, CallMoves, TypesKept
<1>5. CASE LockWaitersList(t)
  <2>1. /\ waiters_list_lock_' = [waiters_list_lock_ EXCEPT ![l] = 1]
        /\ UNCHANGED <<mutex_, held_by_, waiters_list_, threadVars, cond, flag, wakee>>
    BY <1>5 DEF LockWaitersList, LockList, l
  <2>2. UNCHANGED lock \/ \E m \in Locks : lock' = [lock EXCEPT ![t] = m]
    BY <1>0, <1>5 DEF LockWaitersList
  <2>3. PICK label \in Labels : Goto(t, label)
    BY <1>5, LabelFacts DEF LockWaitersList
  <2>4. LockTypes'
    BY <1>a, <2>1 DEF LockTypes
  <2>5. QED
    BY <1>a, <2>1, <2>2, <2>3, <2>4, CallMoves, TypesKept
<1>6. ASSUME AfterRelease(t)
      PROVE  /\ \E label \in Labels : Goto(t, label)
             /\ UNCHANGED lock \/ \E m \in Locks : lock' = [lock EXCEPT ![t] = m]
  BY <1>0, <1>6, LabelFacts DEF AfterRelease
<1>7. CASE Pop(t)
  <2>1. l \in Locks /\ waiters_list_[l] \in Seq(Threads)
    BY <1>0, <1>7, <1>a DEF Pop, LockTypes
  <2>2. /\ UnlockList(l)
        /\ UNCHANGED <<mutex_, held_by_, threadVars, cond, flag>>
    BY <1>7 DEF Pop, l
  <2>3. CASE waiters_list_[l] # <<>>
    <3>1. /\ wakee' = [wakee EXCEPT ![t] = Head(waiters_list_[l])]
          /\ waiters_list_' = [waiters_list_ EXCEPT ![l] = Tail(waiters_list_[l])]
          /\ pc' = [pc EXCEPT ![t] = "wake"] /\ UNCHANGED lock
      BY <1>7, <2>3 DEF Pop, Goto, l
    <3>2. Head(waiters_list_[l]) \in Threads /\ Tail(waiters_list_[l]) \in Seq(Threads)
      BY <2>1, <2>3
    <3>3. LockTypes'
      BY <1>a, <2>2, <3>1, <3>2 DEF LockTypes, UnlockList
    <3>4. CallTypes'
      BY <1>a, <2>2, <3>1, <3>2, LabelFacts DEF CallTypes
    <3>5. QED
      BY <1>a, <2>2, <3>3, <3>4, TypesKept
  <2>4. CASE waiters_list_[l] = <<>>
    <3>1. AfterRelease(t) /\ UNCHANGED <<wakee, waiters_list_>>
      BY <1>7, <2>4 DEF Pop, l
    <3>2. LockTypes'
      BY <1>a, <2>2, <3>1 DEF LockTypes, UnlockList
    <3>3. QED
      BY <1>6, <1>a, <2>2, <3>1, <3>2, CallMoves, TypesKept
  <2>5. QED
    BY <2>3, <2>4
<1>8. CASE Wake(t)
  <2>1. /\ state_' = [state_ EXCEPT ![wakee[t]] = "Running"]
        /\ wakee' = [wakee EXCEPT ![t] = NULL]
        /\ UNCHANGED <<lockVars, holding_lock_list_, lock_waiting_on_, cond, flag>>
    BY <1>8 DEF Wake
  <2>2. PICK label \in Labels : Goto(t, label)
    BY <1>6, <1>8, LabelFacts DEF Wake
  <2>3. UNCHANGED lock \/ \E m \in Locks : lock' = [lock EXCEPT ![t] = m]
    BY <1>6, <1>8 DEF Wake
  <2>4. ThreadTypes'
    BY <1>a, <2>1 DEF ThreadTypes
  <2>5. CallTypes'
    BY <1>a, <2>1, <2>2, <2>3 DEF CallTypes, Goto
  <2>6. QED
    BY <1>a, <2>1, <2>4, <2>5, TypesKept
<1>9. CASE Push(t)
  <2>1. /\ lock_waiting_on_' = [lock_waiting_on_ EXCEPT ![t] = l]
        /\ waiters_list_' = [waiters_list_ EXCEPT ![l] = Append(waiters_list_[l], t)]
        /\ UnlockList(l) /\ Goto(t, "sleep") /\ "sleep" \in Labels
        /\ UNCHANGED <<mutex_, held_by_, holding_lock_list_, state_, lock, cond, flag, wakee>>
    BY <1>9, LabelFacts DEF Push, PushFront, l
  <2>2. l \in Locks /\ Append(waiters_list_[l], t) \in Seq(Threads)
    BY <1>0, <1>9, <1>a DEF Push, LockTypes
  <2>3. LockTypes'
    BY <1>a, <2>1, <2>2 DEF LockTypes, UnlockList
  <2>4. ThreadTypes'
    BY <1>a, <2>1, <2>2 DEF ThreadTypes
  <2>5. QED
    BY <1>a, <2>1, <2>3, <2>4, CallMoves
<1>10. CASE Sleep(t)
  <2>1. /\ state_' = [state_ EXCEPT ![t] = "Sleeping"] /\ Goto(t, "asleep") /\ "asleep" \in Labels
        /\ UNCHANGED <<lockVars, holding_lock_list_, lock_waiting_on_, lock, cond, flag, wakee>>
    BY <1>10, LabelFacts DEF Sleep
  <2>2. ThreadTypes'
    BY <1>a, <2>1 DEF ThreadTypes
  <2>3. QED
    BY <1>a, <2>1, <2>2, CallMoves, TypesKept
<1>11. CASE Resume(t)
  <2>1. /\ lock_waiting_on_' = [lock_waiting_on_ EXCEPT ![t] = NULL]
        /\ UNCHANGED <<lockVars, holding_lock_list_, state_, flag, wakee>>
    BY <1>11 DEF Resume, ResetWaitingOn
  <2>2. PICK label \in Labels : Goto(t, label)
    BY <1>11, LabelFacts DEF Resume
  <2>3. \/ UNCHANGED <<lock, cond>>
        \/ /\ \E m \in Locks : lock' = [lock EXCEPT ![t] = m]
           /\ cond' = [cond EXCEPT ![t] = NULL]
    BY <1>0, <1>11 DEF Resume
  <2>4. ThreadTypes'
    BY <1>a, <2>1 DEF ThreadTypes
  <2>5. CallTypes'
    BY <1>a, <2>1, <2>2, <2>3 DEF CallTypes, Goto
  <2>6. QED
    BY <1>a, <2>1, <2>4, <2>5, TypesKept
<1>12. CASE Call(t)
  <2>1. UNCHANGED <<lockVars, threadVars>>
    BY <1>12 DEF Call, CallAcquire, CallRelease, CallWait, CallSignal
  <2>2. ASSUME NEW m \in Mutexes, NEW label \in {"check", "check_nb"}, CallAcquire(t, m, label)
        PROVE  CallTypes'
    BY <1>a, <2>2, LabelFacts, CallMoves DEF CallAcquire, Locks
  <2>3. ASSUME NEW m \in Mutexes, CallRelease(t, m)
        PROVE  CallTypes'
    BY <1>a, <2>3, LabelFacts, CallMoves DEF CallRelease, Locks
  <2>4. ASSUME NEW c \in Conditions, NEW b \in BOOLEAN, CallWait(t, c, b)
        PROVE  CallTypes'
    BY <1>a, <2>4, LabelFacts DEF CallWait, CallTypes, Goto, Locks
  <2>5. ASSUME NEW c \in Conditions, NEW b \in BOOLEAN, CallSignal(t, c, b)
        PROVE  CallTypes'
    BY <1>a, <2>5, LabelFacts DEF CallSignal, CallTypes, Goto, Locks
  <2>6. CallTypes'
    BY <1>12, <2>2, <2>3, <2>4, <2>5 DEF Call
  <2>7. QED
    BY <1>a, <2>1, <2>6, TypesKept
<1>13. QED
  BY <1>1, <1>2, <1>3, <1>4, <1>5, <1>7, <1>8, <1>9, <1>10, <1>11, <1>12 DEF Step

-----------------------------------------------------------------------------
(* Control state *)

\* The step leaves the other threads' local variables alone.
Frame(t) ==
    \A u \in Threads \ {t} :
        /\ pc'[u] = pc[u]
        /\ lock'[u] = lock[u]
        /\ cond'[u] = cond[u]
        /\ wakee'[u] = wakee[u]
        /\ lock_waiting_on_'[u] = lock_waiting_on_[u]
        /\ holding_lock_list_'[u] = holding_lock_list_[u]
        /\ state_'[u] = state_[u] \/ state_'[u] = "Running"

\* A thread a step does not run keeps its control state.
LEMMA FrameControl ==
  ASSUME ControlInv, NEW t \in Threads, Frame(t), ControlOK(t)'
  PROVE  ControlInv'
<1> SUFFICES ASSUME NEW u \in Threads, u # t
             PROVE  ControlOK(u)'
  BY DEF ControlInv
<1>1. ControlOK(u)
  BY DEF ControlInv
<1>2. QED
  BY <1>1 DEF Frame, ControlOK

\* A step of one thread runs no other thread (only Scheduler::wake writes
\* the state_ of another).
LEMMA FrameStep ==
  ASSUME TypeOK, NEW t \in Threads, Step(t) \/ Call(t)
  PROVE  Frame(t)
<1> USE DEF TypeOK, Goto, threadVars, lockVars, Frame
<1>1. CASE Check(t)
  BY <1>1 DEF Check
<1>2. CASE TestSet(t)
  BY <1>2 DEF TestSet
<1>3. CASE TestSetAgain(t)
  BY <1>3 DEF TestSetAgain
<1>4. CASE CheckAgain(t)
  BY <1>4 DEF CheckAgain
<1>5. CASE Own(t)
  BY <1>5 DEF Own
<1>6. CASE Disown(t)
  BY <1>6 DEF Disown
<1>7. CASE Clear(t)
  BY <1>7 DEF Clear
<1>8. CASE LockWaitersList(t)
  BY <1>8 DEF LockWaitersList
<1>9. CASE Pop(t)
  BY <1>9 DEF Pop, AfterRelease
<1>10. CASE Wake(t)
  BY <1>10 DEF Wake, AfterRelease
<1>11. CASE Push(t)
  BY <1>11 DEF Push
<1>12. CASE Sleep(t)
  BY <1>12 DEF Sleep
<1>13. CASE Resume(t)
  BY <1>13 DEF Resume, ResetWaitingOn
<1>14. CASE Call(t)
  <2>1. ASSUME NEW m \in Mutexes, NEW label \in {"check", "check_nb"}, CallAcquire(t, m, label)
        PROVE  Frame(t)
    BY <2>1 DEF CallAcquire
  <2>2. ASSUME NEW m \in Mutexes, CallRelease(t, m)
        PROVE  Frame(t)
    BY <2>2 DEF CallRelease
  <2>3. ASSUME NEW c \in Conditions, NEW b \in BOOLEAN, CallWait(t, c, b)
        PROVE  Frame(t)
    BY <2>3 DEF CallWait
  <2>4. ASSUME NEW c \in Conditions, NEW b \in BOOLEAN, CallSignal(t, c, b)
        PROVE  Frame(t)
    BY <2>4 DEF CallSignal
  <2>5. QED
    BY <1>14, <2>1, <2>2, <2>3, <2>4 DEF Call
<1>15. QED
  BY <1>1, <1>2, <1>3, <1>4, <1>5, <1>6, <1>7, <1>8, <1>9, <1>10, <1>11,
     <1>12, <1>13, <1>14 DEF Step

\* A step keeps the arguments of every call in progress well formed.
LEMMA ControlStep ==
  ASSUME TypeOK, ControlInv, NEW t \in Threads, Step(t) \/ Call(t)
  PROVE  ControlInv'
<1>0. Frame(t) /\ ControlOK(t)
  BY FrameStep DEF ControlInv
<1> SUFFICES ControlOK(t)'
  BY <1>0, FrameControl
<1> USE <1>0, LocksAssumption DEF TypeOK, Goto, threadVars, lockVars, ControlOK,
                                  AcquireLabels, ReleaseLabels
<1>1. CASE Check(t)
  BY <1>1 DEF Check
<1>2. CASE TestSet(t)
  BY <1>2 DEF TestSet
<1>3. CASE TestSetAgain(t)
  BY <1>3 DEF TestSetAgain
<1>4. CASE CheckAgain(t)
  BY <1>4 DEF CheckAgain, Locks
<1>5. CASE Own(t)
  BY <1>5 DEF Own
<1>6. CASE Disown(t)
  BY <1>6 DEF Disown
<1>7. CASE Clear(t)
  BY <1>7 DEF Clear
<1>8. CASE LockWaitersList(t)
  BY <1>8 DEF LockWaitersList
<1>9. CASE Pop(t)
  <2>1. lock[t] \in Locks /\ cond[t] \in Conditions \cup {NULL}
    BY <1>9 DEF Pop, Locks
  <2>2. CASE waiters_list_[lock[t]] # <<>>
    <3>1. Head(waiters_list_[lock[t]]) \in Threads
      BY <2>1, <2>2
    <3>2. QED
      BY <1>9, <2>1, <2>2, <3>1 DEF Pop
  <2>3. CASE waiters_list_[lock[t]] = <<>>
    BY <1>9, <2>1, <2>3 DEF Pop, AfterRelease, Locks
  <2>4. QED
    BY <2>2, <2>3
<1>10. CASE Wake(t)
  BY <1>10 DEF Wake, AfterRelease, Locks
<1>11. CASE Push(t)
  BY <1>11 DEF Push
<1>12. CASE Sleep(t)
  BY <1>12 DEF Sleep
<1>13. CASE Resume(t)
  <2>1. CASE cond[t] = NULL
    BY <1>13, <2>1 DEF Resume, ResetWaitingOn, Locks
  <2>2. CASE cond[t] # NULL
    BY <1>13, <2>2 DEF Resume, ResetWaitingOn, Locks
  <2>3. QED
    BY <2>1, <2>2
<1>14. CASE Call(t)
  <2>1. ASSUME NEW m \in Mutexes, NEW label \in {"check", "check_nb"}, CallAcquire(t, m, label)
        PROVE  ControlOK(t)'
    BY <2>1 DEF CallAcquire
  <2>2. ASSUME NEW m \in Mutexes, CallRelease(t, m)
        PROVE  ControlOK(t)'
    BY <2>2 DEF CallRelease
  <2>3. ASSUME NEW c \in Conditions, NEW b \in BOOLEAN, CallWait(t, c, b)
        PROVE  ControlOK(t)'
    BY <2>3 DEF CallWait
  <2>4. ASSUME NEW c \in Conditions, NEW b \in BOOLEAN, CallSignal(t, c, b)
        PROVE  ControlOK(t)'
    BY <2>4 DEF CallSignal
  <2>5. QED
    BY <1>14, <2>1, <2>2, <2>3, <2>4 DEF Call
<1>15. QED
  BY <1>1, <1>2, <1>3, <1>4, <1>5, <1>6, <1>7, <1>8, <1>9, <1>10, <1>11,
     <1>12, <1>13, <1>14 DEF Step

-----------------------------------------------------------------------------
(* Mutual exclusion *)

\* held_by_ and the holding lists agree.
HolderInv ==
    \A t \in Threads, m \in Mutexes : held_by_[m] = t <=> m \in holding_lock_list_[t]

\* Which mutexes a thread holds at each of its statements.
HoldingOK(t) ==
    /\ pc[t] \in {"own", "clear"} => lock[t] \notin holding_lock_list_[t]
    /\ pc[t] = "disown" => lock[t] \in holding_lock_list_[t]
    /\ pc[t] = "wait_list" => CondMutex[cond[t]] \in holding_lock_list_[t]
    /\ pc[t] \in {"sig_list", "sig_pop", "wake"} /\ lock[t] \in Conditions
          => CondMutex[lock[t]] \in holding_lock_list_[t]

HoldingInv == \A t \in Threads : HoldingOK(t)

\* The steps that change who owns a mutex.
OwnershipStep(t) == TestSet(t) \/ TestSetAgain(t) \/ Own(t) \/ Disown(t) \/ Clear(t)

\* The other steps leave the owners of all mutexes alone.
LEMMA OwnersUnchanged ==
  ASSUME TypeOK, ControlInv, NEW t \in Threads, Step(t) \/ Call(t), ~OwnershipStep(t)
  PROVE  /\ \A u \in Threads, m \in Mutexes : Owns(u, m)' <=> Owns(u, m)
         /\ UNCHANGED <<mutex_, held_by_, holding_lock_list_>>
<1>1. UNCHANGED <<mutex_, held_by_, holding_lock_list_>>
  BY DEF Step, Call, OwnershipStep, Check, CheckAgain, LockWaitersList, Pop, Wake, Push, Sleep,
         Resume, CallAcquire, CallRelease, CallWait, CallSignal, lockVars, threadVars
<1>2. pc[t] \notin {"own", "clear"} /\ pc'[t] \notin {"own", "clear"}
  BY DEF Step, Call, OwnershipStep, Check, CheckAgain, LockWaitersList, Pop, Wake, Push, Sleep,
         Resume, CallAcquire, CallRelease, CallWait, CallSignal, Goto, AfterRelease, TypeOK
<1>3. Frame(t)
  BY FrameStep
<1>4. QED
  BY <1>1, <1>2, <1>3 DEF Owns, Frame

\* A step keeps held_by_ the thread that owns the mutex, where it is set.
LEMMA HolderStep ==
  ASSUME TypeOK, ControlInv, HolderInv, HoldingInv, MutualExclusion,
         NEW t \in Threads, Step(t) \/ Call(t)
  PROVE  HolderInv'
<1>1. CASE ~OwnershipStep(t)
  BY <1>1, OwnersUnchanged DEF HolderInv
<1>2. CASE TestSet(t) \/ TestSetAgain(t) \/ Clear(t)
  BY <1>2 DEF TestSet, TestSetAgain, Clear, HolderInv, threadVars
<1>3. CASE Own(t)
  <2>1. lock[t] \in Mutexes /\ \A u \in Threads : lock[t] \notin holding_lock_list_[u]
    BY <1>3, LocksAssumption DEF Own, HolderInv, ControlInv, ControlOK, AcquireLabels
  <2>2. QED
    BY <1>3, <2>1 DEF Own, HolderInv, TypeOK
<1>4. CASE Disown(t)
  <2>1. lock[t] \in Mutexes
    BY <1>4 DEF Disown, ControlInv, ControlOK, ReleaseLabels
  <2>2. QED
    BY <1>4, <2>1, LocksAssumption DEF Disown, HolderInv, TypeOK
<1>5. QED
  BY <1>1, <1>2, <1>3, <1>4 DEF OwnershipStep

\* A step keeps at most one thread between a won test-and-set and the
\* store of Mutex::release.
LEMMA MutualExclusionStep ==
  ASSUME TypeOK, ControlInv, HolderInv, HoldingInv, MutualExclusion,
         NEW t \in Threads, Step(t) \/ Call(t)
  PROVE  MutualExclusion'
<1>0. Frame(t)
  BY FrameStep
<1>1. CASE ~OwnershipStep(t)
  BY <1>1, OwnersUnchanged DEF MutualExclusion
<1>2. CASE TestSet(t) \/ TestSetAgain(t)
  <2>1. lock[t] \in Mutexes /\ lock'[t] = lock[t] /\ pc[t] \notin {"own", "clear"}
    BY <1>2 DEF TestSet, TestSetAgain, ControlInv, ControlOK, AcquireLabels
  <2>2. mutex_' = [mutex_ EXCEPT ![lock[t]] = 1] /\ holding_lock_list_' = holding_lock_list_
    BY <1>2 DEF TestSet, TestSetAgain, Set, threadVars
  <2>3. CASE mutex_[lock[t]] = 0
    <3>1. pc'[t] = "own"
      BY <1>2, <2>3 DEF TestSet, TestSetAgain, WasFree, Goto, TypeOK
    <3>2. \A u \in Threads, m \in Mutexes : Owns(u, m)' <=> Owns(u, m) \/ (u = t /\ m = lock[t])
      BY <1>0, <2>1, <2>2, <3>1 DEF Owns, Frame
    <3>3. QED
      BY <2>1, <2>2, <2>3, <3>2 DEF MutualExclusion, TypeOK
  <2>4. CASE mutex_[lock[t]] # 0
    <3>1. pc'[t] \notin {"own", "clear"}
      BY <1>2, <2>4 DEF TestSet, TestSetAgain, WasFree, Goto, TypeOK
    <3>2. \A u \in Threads, m \in Mutexes : Owns(u, m)' <=> Owns(u, m)
      BY <1>0, <2>1, <2>2, <3>1 DEF Owns, Frame
    <3>3. mutex_' = mutex_
      BY <2>1, <2>2, <2>4 DEF TypeOK
    <3>4. QED
      BY <3>2, <3>3 DEF MutualExclusion
  <2>5. QED
    BY <2>3, <2>4
<1>3. CASE Own(t) \/ Disown(t)
  <2>1. lock[t] \in Mutexes /\ lock'[t] = lock[t] /\ mutex_' = mutex_
    BY <1>3 DEF Own, Disown, ControlInv, ControlOK, AcquireLabels, ReleaseLabels
  <2>2. \A u \in Threads, m \in Mutexes : Owns(u, m)' <=> Owns(u, m)
    <3>1. CASE Own(t)
      BY <1>0, <2>1, <3>1 DEF Own, Owns, Frame, Goto, TypeOK
    <3>2. CASE Disown(t)
      BY <1>0, <2>1, <3>2 DEF Disown, Owns, Frame, Goto, TypeOK, HoldingInv, HoldingOK
    <3>3. QED
      BY <1>3, <3>1, <3>2
  <2>3. QED
    BY <2>1, <2>2 DEF MutualExclusion
<1>4. CASE Clear(t)
  <2>1. lock[t] \in Mutexes /\ lock'[t] = lock[t] /\ pc[t] = "clear" /\ pc'[t] = "rel_list"
    BY <1>4 DEF Clear, ControlInv, ControlOK, ReleaseLabels, Goto, TypeOK
  <2>2. mutex_' = [mutex_ EXCEPT ![lock[t]] = 0] /\ holding_lock_list_' = holding_lock_list_
    BY <1>4 DEF Clear, threadVars
  <2>3. \A u \in Threads, m \in Mutexes : Owns(u, m)' <=> Owns(u, m) /\ ~(u = t /\ m = lock[t])
    BY <1>0, <2>1, <2>2 DEF Owns, Frame, HoldingInv, HoldingOK
  <2>4. Owns(t, lock[t])
    BY <2>1 DEF Owns
  <2>5. QED
    BY <2>1, <2>2, <2>3, <2>4 DEF MutualExclusion, TypeOK
<1>5. QED
  BY <1>1, <1>2, <1>3, <1>4 DEF OwnershipStep

\* A step keeps Thread::holding_lock_list_ the mutexes the thread holds.
LEMMA HoldingStep ==
  ASSUME TypeOK, ControlInv, HolderInv, HoldingInv, MutualExclusion,
         NEW t \in Threads, Step(t) \/ Call(t)
  PROVE  HoldingInv'
<1>0. Frame(t) /\ ControlOK(t) /\ HoldingOK(t)
  BY FrameStep DEF ControlInv, HoldingInv
<1> SUFFICES HoldingOK(t)'
  BY <1>0 DEF HoldingInv, HoldingOK, Frame
<1> USE <1>0, LocksAssumption DEF TypeOK, Goto, threadVars, lockVars, HoldingOK
<1>1. CASE Check(t) \/ CheckAgain(t)
  BY <1>1 DEF Check, CheckAgain
<1>2. CASE TestSet(t) \/ TestSetAgain(t)
  <2>1. lock[t] \in Mutexes
    BY <1>2 DEF TestSet, TestSetAgain, ControlOK, AcquireLabels
  <2>2. mutex_[lock[t]] = 0 => lock[t] \notin holding_lock_list_[t]
    BY <2>1 DEF MutualExclusion, Owns
  <2>3. QED
    BY <1>2, <2>2 DEF TestSet, TestSetAgain, WasFree
<1>3. CASE Own(t)
  BY <1>3 DEF Own
<1>4. CASE Disown(t)
  BY <1>4 DEF Disown
<1>5. CASE Clear(t)
  BY <1>5 DEF Clear
<1>6. CASE LockWaitersList(t)
  BY <1>6 DEF LockWaitersList
<1>7. CASE Pop(t)
  <2>1. pc[t] = "sig_pop" \/ lock[t] \notin Conditions
    BY <1>7 DEF Pop, ControlOK, ReleaseLabels
  <2>2. QED
    BY <1>7, <2>1 DEF Pop, AfterRelease
<1>8. CASE Wake(t)
  BY <1>8 DEF Wake, AfterRelease
<1>9. CASE Push(t) \/ Sleep(t)
  BY <1>9 DEF Push, Sleep
<1>10. CASE Resume(t)
  BY <1>10 DEF Resume
<1>11. CASE Call(t)
  <2>1. ASSUME NEW m \in Mutexes, NEW label \in {"check", "check_nb"}, CallAcquire(t, m, label)
        PROVE  HoldingOK(t)'
    BY <2>1 DEF CallAcquire
  <2>2. ASSUME NEW m \in Mutexes, CallRelease(t, m)
        PROVE  HoldingOK(t)'
    BY <2>2 DEF CallRelease
  <2>3. ASSUME NEW c \in Conditions, NEW b \in BOOLEAN, CallWait(t, c, b)
        PROVE  HoldingOK(t)'
    BY <2>3 DEF CallWait
  <2>4. ASSUME NEW c \in Conditions, NEW b \in BOOLEAN, CallSignal(t, c, b)
        PROVE  HoldingOK(t)'
    BY <2>4 DEF CallSignal, HoldsMutexOf
  <2>5. QED
    BY <1>11, <2>1, <2>2, <2>3, <2>4 DEF Call
<1>12. QED
  BY <1>1, <1>2, <1>3, <1>4, <1>5, <1>6, <1>7, <1>8, <1>9, <1>10, <1>11 DEF Step

-----------------------------------------------------------------------------
(* The spinlock of the waiters lists *)

\* The thread has the waiters list of l locked; in Condition::wait it keeps the
\* condition's list locked throughout the release of the mutex.
InList(t, l) ==
    \/ lock[t] = l /\ pc[t] \in {"retry", "recheck", "push", "rel_pop", "sig_pop"}
    \/ cond[t] = l /\ pc[t] \in {"disown", "clear", "rel_list", "rel_pop", "wake"}

ListLockInv ==
    \A l \in Locks :
        /\ \A t, u \in Threads : InList(t, l) /\ InList(u, l) => t = u
        /\ waiters_list_lock_[l] = 0 <=> \A t \in Threads : ~InList(t, l)

\* How a step changes the set of list locks its thread has.
ListStep(t) == LockWaitersList(t) \/ TestSetAgain(t) \/ Pop(t) \/ Push(t)

\* The steps other than Push and Pop leave every waiters list alone.
LEMMA ListsUnchanged ==
  ASSUME TypeOK, ControlInv, NEW t \in Threads, Step(t) \/ Call(t), ~ListStep(t)
  PROVE  /\ \A u \in Threads, l \in Locks : InList(u, l)' <=> InList(u, l)
         /\ UNCHANGED <<waiters_list_, waiters_list_lock_>>
<1>0. Frame(t) /\ ControlOK(t)
  BY FrameStep DEF ControlInv
<1>1. UNCHANGED <<waiters_list_, waiters_list_lock_>>
  BY DEF Step, Call, ListStep, Check, CheckAgain, TestSet, Own, Disown, Clear, Wake, Sleep,
         Resume, CallAcquire, CallRelease, CallWait, CallSignal, lockVars, threadVars
<1> SUFFICES \A l \in Locks : InList(t, l)' <=> InList(t, l)
  BY <1>0, <1>1 DEF InList, Frame
<1> USE LocksAssumption DEF InList, TypeOK, Goto, ControlOK, AcquireLabels, ReleaseLabels, Locks
<1>2. CASE Check(t) \/ CheckAgain(t) \/ TestSet(t) \/ Own(t)
  BY <1>0, <1>2 DEF Check, CheckAgain, TestSet, Own
<1>3. CASE Disown(t) \/ Clear(t)
  BY <1>0, <1>3 DEF Disown, Clear
<1>4. CASE Wake(t)
  BY <1>0, <1>4 DEF Wake, AfterRelease
<1>5. CASE Sleep(t)
  BY <1>0, <1>5 DEF Sleep
<1>6. CASE Resume(t)
  BY <1>0, <1>6 DEF Resume
<1>7. CASE Call(t)
  <2>1. pc[t] = "client" /\ pc'[t] \in {"check", "check_nb", "disown", "wait_list", "sig_list"}
    BY <1>7 DEF Call, CallAcquire, CallRelease, CallWait, CallSignal
  <2>2. pc'[t] = "disown" => cond'[t] = NULL
    BY <1>0, <1>7 DEF Call, CallAcquire, CallRelease, CallWait, CallSignal
  <2>3. QED
    BY <1>0, <2>1, <2>2
<1>8. QED
  BY <1>2, <1>3, <1>4, <1>5, <1>6, <1>7 DEF Step, ListStep

\* A step keeps at most one thread inside a waiters list.
LEMMA ListLockStep ==
  ASSUME TypeOK, ControlInv, ListLockInv, NEW t \in Threads, Step(t) \/ Call(t)
  PROVE  ListLockInv'
<1>0. Frame(t) /\ ControlOK(t)
  BY FrameStep DEF ControlInv
<1>1. CASE ~ListStep(t)
  BY <1>1, ListsUnchanged DEF ListLockInv
<1>2. CASE LockWaitersList(t)
  <2>1. lock[t] \in Locks /\ waiters_list_lock_[lock[t]] = 0
    BY <1>0, <1>2 DEF LockWaitersList, LockList, ControlOK, AcquireLabels, ReleaseLabels, Locks
  <2>2. waiters_list_lock_' = [waiters_list_lock_ EXCEPT ![lock[t]] = 1]
    BY <1>2 DEF LockWaitersList, LockList
  <2>3. \A u \in Threads, l \in Locks : InList(u, l)' <=> InList(u, l) \/ (u = t /\ l = lock[t])
    <3>1. \A l \in Locks : InList(t, l)' <=> InList(t, l) \/ l = lock[t]
      BY <1>0, <1>2, LocksAssumption
         DEF LockWaitersList, InList, Goto, TypeOK, ControlOK, AcquireLabels, ReleaseLabels, Locks
    <3>2. QED
      BY <1>0, <3>1 DEF InList, Frame
  <2>4. QED
    BY <2>1, <2>2, <2>3 DEF ListLockInv, TypeOK
<1>3. CASE Pop(t) \/ Push(t) \/ (TestSetAgain(t) /\ mutex_[lock[t]] = 0)
  <2>1. lock[t] \in Locks /\ InList(t, lock[t])
    BY <1>0, <1>3 DEF Pop, Push, TestSetAgain, InList, ControlOK, AcquireLabels, ReleaseLabels, Locks
  <2>2. waiters_list_lock_' = [waiters_list_lock_ EXCEPT ![lock[t]] = 0]
    BY <1>3 DEF Pop, Push, TestSetAgain, WasFree, UnlockList
  <2>3. \A u \in Threads, l \in Locks : InList(u, l)' <=> InList(u, l) /\ ~(u = t /\ l = lock[t])
    <3>1. \A l \in Locks : InList(t, l)' <=> InList(t, l) /\ l # lock[t]
      <4>1. CASE Pop(t)
        BY <1>0, <4>1, LocksAssumption
           DEF Pop, AfterRelease, InList, Goto, TypeOK, ControlOK, ReleaseLabels, Locks
      <4>2. CASE Push(t)
        BY <1>0, <4>2 DEF Push, InList, Goto, TypeOK
      <4>3. CASE TestSetAgain(t) /\ mutex_[lock[t]] = 0
        BY <1>0, <4>3 DEF TestSetAgain, WasFree, InList, Goto, TypeOK
      <4>4. QED
        BY <1>3, <4>1, <4>2, <4>3
    <3>2. QED
      BY <1>0, <3>1 DEF InList, Frame
  <2>4. QED
    BY <2>1, <2>2, <2>3 DEF ListLockInv, TypeOK
<1>4. CASE TestSetAgain(t) /\ mutex_[lock[t]] # 0
  <2>1. \A l \in Locks : InList(t, l)' <=> InList(t, l)
    BY <1>0, <1>4 DEF TestSetAgain, WasFree, InList, Goto, TypeOK
  <2>2. waiters_list_lock_' = waiters_list_lock_
    BY <1>4 DEF TestSetAgain, WasFree
  <2>3. QED
    BY <1>0, <2>1, <2>2 DEF ListLockInv, InList, Frame
<1>5. QED
  BY <1>1, <1>2, <1>3, <1>4 DEF ListStep

-----------------------------------------------------------------------------
(* The waiters lists and the threads on them *)

Distinct(l) ==
    \A i, j \in 1..Len(waiters_list_[l]) :
        waiters_list_[l][i] = waiters_list_[l][j] => i = j

\* A thread on a list is dormant on that lock and nobody is waking it yet.
ListedInv ==
    \A l \in Locks :
        /\ Distinct(l)
        /\ \A u \in Threads :
              OnList(u, l) => lock[u] = l /\ Dormant(u) /\ \A t \in Threads : wakee[t] # u

\* A popped thread is dormant on the lock of its only waker.
WakeeInv ==
    \A t, u \in Threads :
        wakee[t] = u => /\ Dormant(u)
                        /\ lock[u] = lock[t]
                        /\ \A v \in Threads : wakee[v] = u => v = t

\* A dormant thread is on its list, or a waker has it.
DormantInv ==
    \A u \in Threads :
        Dormant(u) => OnList(u, lock[u]) \/ \E t \in Threads : wakee[t] = u

QueueInv == ListedInv /\ WakeeInv /\ DormantInv

\* What popping the head of a list does to its elements.
LEMMA TailFacts ==
  ASSUME NEW S, NEW q \in Seq(S), q # <<>>
  PROVE  /\ Len(q) \in Nat /\ 1 <= Len(q)
         /\ Head(q) = q[1] /\ Head(q) \in S
         /\ Tail(q) \in Seq(S)
         /\ Len(Tail(q)) = Len(q) - 1
         /\ \A i \in 1..Len(q) - 1 : Tail(q)[i] = q[i + 1]
  OBVIOUS

\* What Lock::sleepAndRelease does to the membership of the lists.
LEMMA PushLists ==
  ASSUME TypeOK, ControlInv, NEW t \in Threads, Push(t)
  PROVE  /\ lock[t] \in Locks
         /\ \A u \in Threads, l \in Locks : OnList(u, l)' <=> OnList(u, l) \/ (u = t /\ l = lock[t])
         /\ ~OnList(t, lock[t]) /\ (\A l \in Locks : Distinct(l)) => \A l \in Locks : Distinct(l)'
<1>0. PICK k \in Locks : k = lock[t]
  BY DEF Push, ControlInv, ControlOK
<1> DEFINE q == waiters_list_[k]
<1>1. q \in Seq(Threads)
  BY <1>0 DEF TypeOK
<1>2. waiters_list_' = [waiters_list_ EXCEPT ![k] = Append(q, t)]
  BY <1>0 DEF Push, PushFront
<1>3. /\ waiters_list_'[k] = Append(q, t)
      /\ \A l \in Locks : l # k => waiters_list_'[l] = waiters_list_[l]
  BY <1>1, <1>2 DEF TypeOK
<1>4. /\ Len(q) \in Nat /\ Len(Append(q, t)) = Len(q) + 1
      /\ \A i \in 1..Len(q) : Append(q, t)[i] = q[i]
      /\ Append(q, t)[Len(q) + 1] = t
  BY <1>1
<1> HIDE DEF q
<1>5. \A u \in Threads : OnList(u, k)' <=> OnList(u, k) \/ u = t
  <2>1. ASSUME NEW u \in Threads, OnList(u, k)' PROVE OnList(u, k) \/ u = t
    <3>1. PICK i \in 1..Len(q) + 1 : Append(q, t)[i] = u
      BY <1>3, <1>4, <2>1 DEF OnList
    <3>2. QED
      BY <1>4, <3>1 DEF OnList, q
  <2>2. ASSUME NEW u \in Threads, OnList(u, k) PROVE OnList(u, k)'
    <3>1. PICK i \in 1..Len(q) : q[i] = u
      BY <2>2 DEF OnList, q
    <3>2. i \in 1..Len(q) + 1 /\ Append(q, t)[i] = u
      BY <1>4, <3>1
    <3>3. QED
      BY <1>3, <1>4, <3>2 DEF OnList
  <2>3. OnList(t, k)'
    BY <1>3, <1>4 DEF OnList
  <2>4. QED
    BY <2>1, <2>2, <2>3
<1>6. \A u \in Threads, l \in Locks : l # k => (OnList(u, l)' <=> OnList(u, l))
  BY <1>3 DEF OnList
<1>7. ASSUME ~OnList(t, k), \A l \in Locks : Distinct(l) PROVE \A l \in Locks : Distinct(l)'
  <2>1. Distinct(k)'
    BY <1>1, <1>3, <1>4, <1>7 DEF Distinct, OnList, q
  <2>2. \A l \in Locks : l # k => Distinct(l)'
    BY <1>3, <1>7 DEF Distinct
  <2>3. QED
    BY <2>1, <2>2
<1>8. QED
  BY <1>0, <1>5, <1>6, <1>7

\* What Lock::popBackThreadFromWaitersList does to the membership of the lists.
LEMMA PopLists ==
  ASSUME TypeOK, ControlInv, NEW t \in Threads, Pop(t), waiters_list_[lock[t]] # <<>>,
         \A l \in Locks : Distinct(l)
  PROVE  /\ lock[t] \in Locks
         /\ \A l \in Locks : Distinct(l)'
         /\ OnList(Head(waiters_list_[lock[t]]), lock[t])
         /\ \A u \in Threads, l \in Locks :
               OnList(u, l)' <=> OnList(u, l) /\ ~(u = Head(waiters_list_[lock[t]]) /\ l = lock[t])
<1>0. PICK k \in Locks : k = lock[t]
  BY DEF Pop, ControlInv, ControlOK, ReleaseLabels, Locks
<1> DEFINE q == waiters_list_[k]
<1>1. q \in Seq(Threads) /\ q # <<>>
  BY <1>0 DEF TypeOK
<1>2. waiters_list_' = [waiters_list_ EXCEPT ![k] = Tail(q)]
  BY <1>0 DEF Pop
<1>3. /\ waiters_list_'[k] = Tail(q)
      /\ \A l \in Locks : l # k => waiters_list_'[l] = waiters_list_[l]
  BY <1>1, <1>2 DEF TypeOK
<1>4. /\ Len(q) \in Nat /\ 1 <= Len(q)
      /\ Head(q) = q[1]
      /\ Len(Tail(q)) = Len(q) - 1
      /\ \A i \in 1..Len(q) - 1 : Tail(q)[i] = q[i + 1]
  BY <1>1, TailFacts
<1>5. \A i, j \in 1..Len(q) : q[i] = q[j] => i = j
  BY <1>1 DEF Distinct
<1> HIDE DEF q
<1>6. OnList(Head(q), k)
  BY <1>4 DEF OnList, q
<1>7. \A u \in Threads : OnList(u, k)' <=> OnList(u, k) /\ u # Head(q)
  <2>1. ASSUME NEW u \in Threads, OnList(u, k)' PROVE OnList(u, k) /\ u # Head(q)
    <3>1. PICK i \in 1..Len(q) - 1 : Tail(q)[i] = u
      BY <1>3, <1>4, <2>1 DEF OnList
    <3>2. i + 1 \in 1..Len(q) /\ 1 \in 1..Len(q) /\ i + 1 # 1 /\ q[i + 1] = u
      BY <1>4, <3>1
    <3>3. QED
      BY <1>4, <1>5, <3>2 DEF OnList, q
  <2>2. ASSUME NEW u \in Threads, OnList(u, k), u # Head(q) PROVE OnList(u, k)'
    <3>1. PICK i \in 1..Len(q) : q[i] = u
      BY <2>2 DEF OnList, q
    <3>2. i - 1 \in 1..Len(q) - 1 /\ Tail(q)[i - 1] = u
      BY <1>4, <2>2, <3>1
    <3>3. QED
      BY <1>3, <1>4, <3>2 DEF OnList
  <2>3. QED
    BY <2>1, <2>2
<1>8. \A u \in Threads, l \in Locks : l # k => (OnList(u, l)' <=> OnList(u, l))
  BY <1>3 DEF OnList
<1>9. Distinct(k)'
  <2>1. ASSUME NEW i \in 1..Len(q) - 1, NEW j \in 1..Len(q) - 1, Tail(q)[i] = Tail(q)[j]
        PROVE  i = j
    <3>1. i + 1 \in 1..Len(q) /\ j + 1 \in 1..Len(q) /\ q[i + 1] = q[j + 1]
      BY <1>4, <2>1
    <3>2. i + 1 = j + 1
      BY <1>5, <3>1
    <3>3. QED
      BY <1>4, <3>2
  <2>2. QED
    BY <1>3, <1>4, <2>1 DEF Distinct
<1>10. \A l \in Locks : l # k => Distinct(l)'
  BY <1>3 DEF Distinct
<1>11. QED
  BY <1>0, <1>6, <1>7, <1>8, <1>9, <1>10 DEF q

\* The steps that change a waiters list, a dormant thread or a waker.
QueueStep(t) == Pop(t) \/ Wake(t) \/ Push(t) \/ Sleep(t) \/ Resume(t)

\* The other steps leave the lists, the wakers and the dormant threads alone.
LEMMA QueueUnchanged ==
  ASSUME TypeOK, ControlInv, NEW t \in Threads, Step(t) \/ Call(t), ~QueueStep(t)
  PROVE  /\ UNCHANGED <<waiters_list_, wakee, state_>>
         /\ ~Dormant(t)
         /\ pc[t] # "wake"
         /\ \A u \in Threads : Dormant(u)' <=> Dormant(u)
<1>0. Frame(t)
  BY FrameStep
<1>1. UNCHANGED <<waiters_list_, wakee, state_>>
  BY DEF Step, Call, QueueStep, Check, CheckAgain, TestSet, TestSetAgain, Own, Disown, Clear,
         LockWaitersList, CallAcquire, CallRelease, CallWait, CallSignal, lockVars, threadVars
<1>2. pc[t] \notin {"sleep", "asleep", "wake"} /\ pc'[t] \notin {"sleep", "asleep"}
  BY DEF Step, Call, QueueStep, Check, CheckAgain, TestSet, TestSetAgain, Own, Disown, Clear,
         LockWaitersList, CallAcquire, CallRelease, CallWait, CallSignal, Goto, TypeOK
<1>3. QED
  BY <1>0, <1>1, <1>2 DEF Dormant, Frame

\* A step keeps waiting threads on exactly one list, or popped by one waker.
LEMMA QueueInvStep ==
  ASSUME TypeOK, ControlInv, QueueInv, NEW t \in Threads, Step(t) \/ Call(t)
  PROVE  QueueInv'
<1>0. Frame(t) /\ ControlOK(t)
  BY FrameStep DEF ControlInv
<1>1. \A u \in Threads : wakee[u] # t \/ Dormant(t)
  BY DEF QueueInv, WakeeInv
<1>2. CASE ~QueueStep(t)
  <2>1. /\ UNCHANGED <<waiters_list_, wakee>>
        /\ ~Dormant(t) /\ wakee[t] = NULL
        /\ \A u \in Threads : Dormant(u)' <=> Dormant(u)
    BY <1>0, <1>2, QueueUnchanged DEF ControlOK
  <2>2. \A l \in Locks : (Distinct(l)' <=> Distinct(l)) /\ \A u \in Threads : OnList(u, l)' <=> OnList(u, l)
    BY <2>1 DEF Distinct, OnList
  <2>3. \A u \in Threads : Dormant(u) => lock'[u] = lock[u]
    BY <1>0, <2>1 DEF Frame
  <2>4. \A u, v \in Threads : wakee[u] = v => lock'[u] = lock[u]
    BY <1>0, <2>1, LocksAssumption DEF Frame
  <2>5. ListedInv'
    BY <2>1, <2>2, <2>3 DEF QueueInv, ListedInv
  <2>6. WakeeInv'
    BY <2>1, <2>3, <2>4 DEF QueueInv, WakeeInv
  <2>7. ASSUME NEW u \in Threads, Dormant(u)'
        PROVE  (OnList(u, lock[u]) \/ \E v \in Threads : wakee[v] = u)'
    <3>1. PICK k \in Locks \cup {NULL} : k = lock[u]
      BY DEF TypeOK
    <3>2. Dormant(u) /\ lock'[u] = k
      BY <2>1, <2>3, <2>7, <3>1
    <3>3. OnList(u, k) => OnList(u, k)'
      BY <2>1 DEF OnList
    <3>4. QED
      BY <2>1, <3>1, <3>2, <3>3 DEF QueueInv, DormantInv, OnList
  <2>8. QED
    BY <2>5, <2>6, <2>7 DEF QueueInv, DormantInv
<1>3. CASE Pop(t) /\ waiters_list_[lock[t]] = <<>>
  <2>1. /\ UNCHANGED <<waiters_list_, wakee, state_>>
        /\ pc[t] \notin {"sleep", "asleep", "wake"} /\ pc'[t] \notin {"sleep", "asleep"}
    BY <1>3 DEF Pop, AfterRelease, Goto, TypeOK, threadVars
  <2>2. ~Dormant(t) /\ \A u \in Threads : Dormant(u)' <=> Dormant(u)
    BY <1>0, <2>1 DEF Dormant, Frame
  <2>3. \A u \in Threads : Dormant(u) => lock'[u] = lock[u]
    BY <1>0, <2>2 DEF Frame
  <2>4. \A u, v \in Threads : wakee[u] = v => lock'[u] = lock[u]
    BY <1>0, <2>1, LocksAssumption DEF Frame, ControlOK
  <2>5. \A l \in Locks : (Distinct(l)' <=> Distinct(l)) /\ \A u \in Threads : OnList(u, l)' <=> OnList(u, l)
    BY <2>1 DEF Distinct, OnList
  <2>6. ListedInv' /\ WakeeInv'
    BY <2>1, <2>2, <2>3, <2>4, <2>5 DEF QueueInv, ListedInv, WakeeInv
  <2>7. DormantInv'
    BY <2>1, <2>2, <2>3 DEF QueueInv, DormantInv, OnList
  <2>8. QED
    BY <2>6, <2>7 DEF QueueInv
<1>4. CASE Pop(t) /\ waiters_list_[lock[t]] # <<>>
  <2>1. PICK k \in Locks, h \in Threads : k = lock[t] /\ h = Head(waiters_list_[k])
    <3>1. lock[t] \in Locks
      BY <1>0, <1>4 DEF Pop, ControlOK, ReleaseLabels, Locks
    <3>2. waiters_list_[lock[t]] \in Seq(Threads)
      BY <3>1 DEF TypeOK
    <3>3. Head(waiters_list_[lock[t]]) \in Threads
      BY <1>4, <3>2
    <3>4. QED
      BY <3>1, <3>3
  <2>2. /\ lock' = lock /\ state_' = state_ /\ pc[t] \in {"rel_pop", "sig_pop"} /\ pc'[t] = "wake"
        /\ wakee' = [wakee EXCEPT ![t] = h]
    BY <1>4, <2>1 DEF Pop, Goto, TypeOK, threadVars
  <2>3. /\ \A l \in Locks : Distinct(l)'
        /\ OnList(h, k)
        /\ \A u \in Threads, l \in Locks : OnList(u, l)' <=> OnList(u, l) /\ ~(u = h /\ l = k)
    BY <1>4, <2>1, PopLists DEF QueueInv, ListedInv
  <2>4. lock[h] = k /\ Dormant(h) /\ \A u \in Threads : wakee[u] # h
    BY <2>3 DEF QueueInv, ListedInv
  <2>5. ~Dormant(t) /\ \A u \in Threads : Dormant(u)' <=> Dormant(u)
    BY <1>0, <2>2 DEF Dormant, Frame
  <2>6. \A u \in Threads : wakee'[u] = IF u = t THEN h ELSE wakee[u]
    BY <2>2 DEF TypeOK
  <2>7. ListedInv'
    BY <2>2, <2>3, <2>4, <2>5, <2>6 DEF QueueInv, ListedInv
  <2>8. WakeeInv'
    BY <2>1, <2>2, <2>4, <2>5, <2>6 DEF QueueInv, WakeeInv
  <2>9. ASSUME NEW u \in Threads, Dormant(u)'
        PROVE  (OnList(u, lock[u]) \/ \E v \in Threads : wakee[v] = u)'
    <3>1. PICK l \in Locks \cup {NULL} : l = lock[u]
      BY DEF TypeOK
    <3>2. lock'[u] = l /\ Dormant(u)
      BY <2>2, <2>5, <2>9, <3>1
    <3>3. CASE u = h
      BY <2>6, <3>3
    <3>4. CASE u # h /\ OnList(u, l) /\ l \in Locks
      BY <2>3, <3>2, <3>4
    <3>5. CASE \E v \in Threads : wakee[v] = u
      BY <2>6, <3>5, <1>0, <2>2, LocksAssumption DEF ControlOK
    <3>6. Dormant(u) => l \in Locks
      BY <3>1 DEF Dormant, ControlInv, ControlOK
    <3>7. QED
      BY <3>1, <3>2, <3>3, <3>4, <3>5, <3>6 DEF QueueInv, DormantInv
  <2>10. QED
    BY <2>7, <2>8, <2>9 DEF QueueInv, DormantInv
<1>5. CASE Wake(t)
  <2>1. PICK w \in Threads : wakee[t] = w
    BY <1>0, <1>5 DEF Wake, ControlOK
  <2>2. /\ UNCHANGED waiters_list_
        /\ \A u \in Threads : wakee'[u] = IF u = t THEN NULL ELSE wakee[u]
        /\ \A u \in Threads : state_'[u] = IF u = w THEN "Running" ELSE state_[u]
        /\ pc[t] = "wake" /\ pc'[t] \notin {"sleep", "asleep"}
    BY <1>5, <2>1 DEF Wake, AfterRelease, Goto, TypeOK, lockVars
  <2>3. Dormant(w) /\ lock[w] = lock[t] /\ \A v \in Threads : wakee[v] = w => v = t
    BY <2>1 DEF QueueInv, WakeeInv
  <2>4. w # t /\ pc[w] = "asleep"
    BY <1>5, <2>1, <2>2, <2>3 DEF Dormant, Wake, IsSleeping, ControlInv, ControlOK
  <2>5. \A u \in Threads : Dormant(u)' <=> Dormant(u) /\ u # w
    BY <1>0, <2>2, <2>4 DEF Dormant, Frame
  <2>6. \A u \in Threads : u # t => lock'[u] = lock[u]
    BY <1>0 DEF Frame
  <2>7. \A l \in Locks : ~OnList(w, l)
    BY <2>1 DEF QueueInv, ListedInv
  <2>8. ~Dormant(t)
    BY <2>2 DEF Dormant
  <2>9. \A l \in Locks : (Distinct(l)' <=> Distinct(l)) /\ \A u \in Threads : OnList(u, l)' <=> OnList(u, l)
    BY <2>2 DEF Distinct, OnList
  <2>10. ListedInv'
    BY <2>2, <2>5, <2>6, <2>7, <2>8, <2>9, LocksAssumption DEF QueueInv, ListedInv
  <2>11. WakeeInv'
    BY <2>2, <2>3, <2>5, <2>6, <2>8, LocksAssumption DEF QueueInv, WakeeInv
  <2>12. DormantInv'
    BY <2>1, <2>2, <2>5, <2>6, <2>8 DEF QueueInv, DormantInv, OnList
  <2>13. QED
    BY <2>10, <2>11, <2>12 DEF QueueInv
<1>6. CASE Push(t)
  <2>1. PICK k \in Locks : k = lock[t]
    BY <1>6, PushLists
  <2>2. /\ lock' = lock /\ wakee' = wakee /\ state_' = state_ /\ pc[t] = "push" /\ pc'[t] = "sleep"
    BY <1>6 DEF Push, Goto, TypeOK
  <2>3. ~Dormant(t) /\ Dormant(t)' /\ \A u \in Threads : u # t => (Dormant(u)' <=> Dormant(u))
    BY <1>0, <2>2 DEF Dormant, Frame
  <2>4. (\A l \in Locks : ~OnList(t, l)) /\ (\A u \in Threads : wakee[u] # t)
    BY <1>1, <2>3 DEF QueueInv, ListedInv
  <2>5. /\ \A l \in Locks : Distinct(l)'
        /\ \A u \in Threads, l \in Locks : OnList(u, l)' <=> OnList(u, l) \/ (u = t /\ l = k)
    BY <1>6, <2>1, <2>4, PushLists DEF QueueInv, ListedInv
  <2>6. ListedInv'
    BY <2>1, <2>2, <2>3, <2>4, <2>5 DEF QueueInv, ListedInv
  <2>7. WakeeInv'
    BY <2>2, <2>3, <2>4 DEF QueueInv, WakeeInv
  <2>8. ASSUME NEW u \in Threads, Dormant(u)'
        PROVE  (OnList(u, lock[u]) \/ \E v \in Threads : wakee[v] = u)'
    <3>1. PICK l \in Locks \cup {NULL} : l = lock[u]
      BY DEF TypeOK
    <3>2. u # t => Dormant(u) /\ l \in Locks
      BY <2>3, <2>8, <3>1 DEF Dormant, ControlInv, ControlOK
    <3>3. QED
      BY <2>1, <2>2, <2>5, <3>1, <3>2 DEF QueueInv, DormantInv
  <2>9. QED
    BY <2>6, <2>7, <2>8 DEF QueueInv, DormantInv
<1>7. CASE Sleep(t) \/ Resume(t)
  <2>1. /\ UNCHANGED <<waiters_list_, wakee>>
        /\ pc[t] \in {"sleep", "asleep"}
    BY <1>7 DEF Sleep, Resume, lockVars
  <2>2. \A u \in Threads : Dormant(u)' <=> Dormant(u)
    BY <1>0, <1>7 DEF Sleep, Resume, Dormant, Frame, Goto, TypeOK
  <2>3. \A u \in Threads : Dormant(u) => lock'[u] = lock[u]
    BY <1>0, <1>7 DEF Sleep, Resume, Dormant, Frame
  <2>4. \A u, v \in Threads : wakee[u] = v => lock'[u] = lock[u]
    BY <1>0, <2>1, LocksAssumption DEF Frame, ControlOK
  <2>5. \A l \in Locks : (Distinct(l)' <=> Distinct(l)) /\ \A u \in Threads : OnList(u, l)' <=> OnList(u, l)
    BY <2>1 DEF Distinct, OnList
  <2>6. ListedInv' /\ WakeeInv'
    BY <2>1, <2>2, <2>3, <2>4, <2>5 DEF QueueInv, ListedInv, WakeeInv
  <2>7. DormantInv'
    BY <2>1, <2>2, <2>3 DEF QueueInv, DormantInv, OnList
  <2>8. QED
    BY <2>6, <2>7 DEF QueueInv
<1>8. QED
  BY <1>2, <1>3, <1>4, <1>5, <1>6, <1>7 DEF QueueStep

-----------------------------------------------------------------------------
(* No lost wakeup *)

\* A thread sleeps on m or is bound to.
Bound(m) ==
    \/ waiters_list_[m] # <<>>
    \/ \E t \in Threads : lock[t] = m /\ pc[t] \in {"recheck", "push"}

\* A thread that will test m again, or pop the next thread that does.
Rescuer(t, m) == WillTest(t, m) \/ (lock[t] = m /\ pc[t] \in {"rel_list", "rel_pop"})

\* NoLostWakeup with the rescuing thread named.
LEMMA WakeupForm ==
  NoLostWakeup <=> \A m \in Mutexes : mutex_[m] = 0 /\ Bound(m) => \E t \in Threads : Rescuer(t, m)
  BY DEF NoLostWakeup, Bound, Rescuer

\* A thread stays a rescuer while others take steps.
LEMMA RescuerStays ==
  ASSUME NEW t \in Threads, Frame(t), NEW u \in Threads \ {t}, NEW m \in Mutexes, Rescuer(u, m)
  PROVE  Rescuer(u, m)'
  BY DEF Rescuer, WillTest, Frame

\* A step that neither frees m nor gives it a new sleeper keeps the property,
\* unless it takes the thread's own role of rescuer away.
LEMMA WakeupFrame ==
  ASSUME NEW m \in Mutexes, NEW t \in Threads, Frame(t),
         mutex_[m] = 0 /\ Bound(m) => \E u \in Threads : Rescuer(u, m),
         mutex_'[m] = 0 => mutex_[m] = 0, Bound(m)' => Bound(m),
         Rescuer(t, m) => Rescuer(t, m)'
  PROVE  (mutex_[m] = 0 /\ Bound(m) => \E u \in Threads : Rescuer(u, m))'
  BY RescuerStays

\* No step leaves a free mutex with waiters and nobody to wake or retry.
LEMMA WakeupStep ==
  ASSUME TypeOK, ControlInv, ListLockInv, QueueInv, NoLostWakeup,
         NEW t \in Threads, Step(t) \/ Call(t)
  PROVE  NoLostWakeup'
<1>0. Frame(t) /\ ControlOK(t)
  BY FrameStep DEF ControlInv
<1> SUFFICES ASSUME NEW m \in Mutexes
             PROVE  (mutex_[m] = 0 /\ Bound(m) => \E u \in Threads : Rescuer(u, m))'
  BY DEF NoLostWakeup, Bound, Rescuer
<1>1. mutex_[m] = 0 /\ Bound(m) => \E u \in Threads : Rescuer(u, m)
  BY WakeupForm
<1>2. m \in Locks /\ m \notin Conditions
  BY LocksAssumption DEF Locks
<1>3. CASE Check(t) \/ CheckAgain(t) \/ Own(t) \/ Disown(t) \/ Sleep(t)
  <2>1. UNCHANGED <<mutex_, waiters_list_, lock>>
    BY <1>3 DEF Check, CheckAgain, Own, Disown, Sleep, lockVars
  <2>2. /\ pc'[t] \in {"recheck", "push"} => pc[t] \in {"recheck", "push"}
        /\ ~Rescuer(t, m)
    BY <1>0, <1>3 DEF Check, CheckAgain, Own, Disown, Sleep, Rescuer, WillTest, Goto, TypeOK
  <2>3. Bound(m)' => Bound(m)
    BY <1>0, <2>1, <2>2 DEF Bound, Frame
  <2>4. QED
    BY <1>0, <1>1, <2>1, <2>2, <2>3, WakeupFrame
<1>4. CASE TestSet(t) \/ TestSetAgain(t)
  <2>1. /\ lock[t] \in Mutexes
        /\ UNCHANGED <<waiters_list_, lock>>
        /\ mutex_' = [mutex_ EXCEPT ![lock[t]] = 1]
    BY <1>0, <1>4 DEF TestSet, TestSetAgain, Set, ControlOK, AcquireLabels
  <2>2. CASE m = lock[t]
    BY <2>1, <2>2 DEF TypeOK
  <2>3. CASE m # lock[t]
    <3>1. mutex_'[m] = mutex_[m] /\ ~Rescuer(t, m)
      BY <2>1, <2>3 DEF TypeOK, Rescuer, WillTest
    <3>2. Bound(m)' => Bound(m)
      BY <1>0, <2>1, <2>3 DEF Bound, Frame
    <3>3. QED
      BY <1>0, <1>1, <3>1, <3>2, WakeupFrame
  <2>4. QED
    BY <2>2, <2>3
<1>5. CASE Clear(t)
  <2>1. /\ lock[t] \in Mutexes /\ UNCHANGED <<waiters_list_, lock>>
        /\ mutex_' = [mutex_ EXCEPT ![lock[t]] = 0] /\ pc[t] = "clear" /\ pc'[t] = "rel_list"
    BY <1>0, <1>5 DEF Clear, ControlOK, ReleaseLabels, Goto, TypeOK
  <2>2. CASE m = lock[t]
    BY <2>1, <2>2 DEF Rescuer
  <2>3. CASE m # lock[t]
    <3>1. mutex_'[m] = mutex_[m] /\ ~Rescuer(t, m)
      BY <2>1, <2>3 DEF TypeOK, Rescuer, WillTest
    <3>2. Bound(m)' => Bound(m)
      BY <1>0, <2>1, <2>3 DEF Bound, Frame
    <3>3. QED
      BY <1>0, <1>1, <3>1, <3>2, WakeupFrame
  <2>4. QED
    BY <2>2, <2>3
<1>6. CASE LockWaitersList(t)
  <2>1. UNCHANGED <<mutex_, waiters_list_>>
    BY <1>6 DEF LockWaitersList
  <2>2. /\ pc'[t] \notin {"recheck", "push"}
        /\ Rescuer(t, m) => Rescuer(t, m)'
    BY <1>0, <1>6 DEF LockWaitersList, Rescuer, WillTest, Goto, TypeOK
  <2>3. Bound(m)' => Bound(m)
    BY <1>0, <2>1, <2>2 DEF Bound, Frame
  <2>4. QED
    BY <1>0, <1>1, <2>1, <2>2, <2>3, WakeupFrame
<1>7. CASE Pop(t)
  <2>1. UNCHANGED mutex_ /\ pc[t] \in {"rel_pop", "sig_pop"}
    BY <1>7 DEF Pop
  <2>2. lock[t] \in Locks /\ waiters_list_[lock[t]] \in Seq(Threads)
    BY <1>0, <2>1 DEF ControlOK, ReleaseLabels, Locks, TypeOK
  <2>3. CASE waiters_list_[lock[t]] # <<>>
    <3>1. /\ pc'[t] = "wake" /\ lock' = lock
          /\ waiters_list_' = [waiters_list_ EXCEPT ![lock[t]] = Tail(waiters_list_[lock[t]])]
      BY <1>7, <2>3 DEF Pop, Goto, TypeOK
    <3>2. CASE m = lock[t]
      BY <3>1, <3>2 DEF Rescuer, WillTest
    <3>3. CASE m # lock[t]
      <4>1. waiters_list_'[m] = waiters_list_[m] /\ ~Rescuer(t, m)
        BY <1>2, <3>1, <3>3 DEF TypeOK, Rescuer, WillTest
      <4>2. Bound(m)' => Bound(m)
        BY <1>0, <3>1, <4>1 DEF Bound, Frame
      <4>3. QED
        BY <1>0, <1>1, <2>1, <4>1, <4>2, WakeupFrame
    <3>4. QED
      BY <3>2, <3>3
  <2>4. CASE waiters_list_[lock[t]] = <<>>
    <3>1. /\ UNCHANGED waiters_list_
          /\ \/ pc'[t] = "client" /\ lock'[t] = lock[t]
             \/ pc'[t] = "push" /\ lock'[t] = cond[t] /\ cond[t] \in Conditions
      BY <1>7, <2>4 DEF Pop, AfterRelease, Goto, TypeOK
    <3>2. Bound(m)' => Bound(m)
      BY <1>0, <1>2, <3>1 DEF Bound, Frame
    <3>3. CASE m = lock[t]
      <4>1. InList(t, m)
        BY <2>1, <3>3 DEF InList
      <4>2. \A u \in Threads : lock[u] = m /\ pc[u] \in {"recheck", "push"} => u = t
        BY <1>2, <4>1 DEF ListLockInv, InList
      <4>3. ~Bound(m)
        BY <2>1, <2>4, <3>3, <4>2 DEF Bound
      <4>4. QED
        BY <3>2, <4>3
    <3>4. CASE m # lock[t]
      <4>1. ~Rescuer(t, m)
        BY <3>4 DEF Rescuer, WillTest
      <4>2. QED
        BY <1>0, <1>1, <2>1, <3>2, <4>1, WakeupFrame
    <3>5. QED
      BY <3>3, <3>4
  <2>5. QED
    BY <2>3, <2>4
<1>8. CASE Wake(t)
  <2>1. PICK w \in Threads : wakee[t] = w
    BY <1>0, <1>8 DEF Wake, ControlOK
  <2>2. /\ UNCHANGED <<mutex_, waiters_list_>> /\ pc[t] = "wake"
        /\ state_[w] = "Sleeping" /\ state_'[w] = "Running"
        /\ \/ pc'[t] \in {"sig_list", "client"}
           \/ pc'[t] = "push" /\ lock'[t] = cond[t] /\ cond[t] \in Conditions
    BY <1>8, <2>1 DEF Wake, IsSleeping, AfterRelease, Goto, TypeOK, lockVars
  <2>3. Bound(m)' => Bound(m)
    BY <1>0, <1>2, <2>2 DEF Bound, Frame
  <2>4. CASE m = lock[t]
    <3>1. lock[w] = m /\ pc[w] = "asleep" /\ w # t
      BY <2>1, <2>2, <2>4 DEF QueueInv, WakeeInv, Dormant, ControlInv, ControlOK
    <3>2. Rescuer(w, m)'
      BY <1>0, <2>2, <3>1 DEF Rescuer, WillTest, Frame
    <3>3. QED
      BY <3>2
  <2>5. CASE m # lock[t]
    <3>1. ~Rescuer(t, m)
      BY <2>5 DEF Rescuer, WillTest
    <3>2. QED
      BY <1>0, <1>1, <2>2, <2>3, <3>1, WakeupFrame
  <2>6. QED
    BY <2>4, <2>5
<1>9. CASE Push(t)
  <2>1. /\ UNCHANGED <<mutex_, lock>> /\ pc[t] = "push"
        /\ waiters_list_' = [waiters_list_ EXCEPT ![lock[t]] = Append(waiters_list_[lock[t]], t)]
    BY <1>9 DEF Push, PushFront
  <2>2. ~Rescuer(t, m)
    BY <2>1 DEF Rescuer, WillTest
  <2>3. Bound(m)' => Bound(m)
    <3>1. CASE m = lock[t]
      BY <2>1, <3>1 DEF Bound
    <3>2. CASE m # lock[t]
      BY <1>0, <1>2, <2>1, <3>2 DEF Bound, Frame, TypeOK
    <3>3. QED
      BY <3>1, <3>2
  <2>4. QED
    BY <1>0, <1>1, <2>1, <2>2, <2>3, WakeupFrame
<1>10. CASE Resume(t)
  <2>1. UNCHANGED <<mutex_, waiters_list_>> /\ pc[t] = "asleep"
    BY <1>10 DEF Resume, lockVars
  <2>2. pc'[t] \notin {"recheck", "push"}
    BY <1>10 DEF Resume, Goto, TypeOK
  <2>3. Rescuer(t, m) => Rescuer(t, m)'
    <3>1. CASE lock[t] = m
      <4>1. cond[t] = NULL
        BY <1>0, <2>1, <3>1 DEF ControlOK
      <4>2. pc'[t] = "try" /\ lock'[t] = m
        BY <1>10, <3>1, <4>1 DEF Resume, Goto, TypeOK
      <4>3. QED
        BY <4>2 DEF Rescuer, WillTest
    <3>2. CASE lock[t] # m
      BY <3>2 DEF Rescuer, WillTest
    <3>3. QED
      BY <3>1, <3>2
  <2>4. Bound(m)' => Bound(m)
    BY <1>0, <2>1, <2>2 DEF Bound, Frame
  <2>5. QED
    BY <1>0, <1>1, <2>1, <2>3, <2>4, WakeupFrame
<1>11. CASE Call(t)
  <2>1. UNCHANGED <<mutex_, waiters_list_>> /\ pc[t] = "client"
    BY <1>11 DEF Call, CallAcquire, CallRelease, CallWait, CallSignal, lockVars
  <2>2. pc'[t] \notin {"recheck", "push"}
    BY <1>11 DEF Call, CallAcquire, CallRelease, CallWait, CallSignal, Goto, TypeOK
  <2>3. ~Rescuer(t, m)
    BY <2>1 DEF Rescuer, WillTest
  <2>4. Bound(m)' => Bound(m)
    BY <1>0, <2>1, <2>2 DEF Bound, Frame
  <2>5. QED
    BY <1>0, <1>1, <2>1, <2>3, <2>4, WakeupFrame
<1>12. QED
  BY <1>3, <1>4, <1>5, <1>6, <1>7, <1>8, <1>9, <1>10, <1>11 DEF Step

-----------------------------------------------------------------------------
(* Lock order *)

\* A thread asks only for mutexes above all it holds, and holds none while it
\* sleeps on a condition.
RankOK(t) ==
    /\ pc[t] \in {"check", "try", "acq_list", "retry", "recheck", "check_nb", "try_nb"}
          => MayNest(t, lock[t])
    /\ pc[t] \in {"push", "sleep", "asleep"} /\ lock[t] \in Mutexes => MayNest(t, lock[t])
    /\ pc[t] = "wait_list" => holding_lock_list_[t] = {CondMutex[cond[t]]}
    /\ pc[t] = "disown" /\ cond[t] # NULL => holding_lock_list_[t] = {lock[t]}
    /\ pc[t] \in {"clear", "rel_list", "rel_pop", "wake", "push", "sleep", "asleep"}
          /\ cond[t] # NULL => holding_lock_list_[t] = {}

RankInv == \A t \in Threads : RankOK(t)

\* A step keeps every thread nesting mutexes in rank order.
LEMMA RankStep ==
  ASSUME TypeOK, ControlInv, RankInv, NEW t \in Threads, Step(t) \/ Call(t)
  PROVE  RankInv'
<1>0. Frame(t) /\ ControlOK(t) /\ RankOK(t)
  BY FrameStep DEF ControlInv, RankInv
<1> SUFFICES RankOK(t)'
  BY <1>0 DEF RankInv, RankOK, MayNest, Frame
<1> USE <1>0, LocksAssumption DEF TypeOK, Goto, threadVars, lockVars, RankOK, MayNest
<1>1. CASE Check(t) \/ CheckAgain(t)
  BY <1>1 DEF Check, CheckAgain, ControlOK, AcquireLabels
<1>2. CASE TestSet(t) \/ TestSetAgain(t)
  BY <1>2 DEF TestSet, TestSetAgain
<1>3. CASE Own(t)
  BY <1>3 DEF Own
<1>4. CASE Disown(t)
  BY <1>4 DEF Disown
<1>5. CASE Clear(t)
  BY <1>5 DEF Clear
<1>6. CASE LockWaitersList(t)
  BY <1>6 DEF LockWaitersList, ControlOK
<1>7. CASE Pop(t)
  BY <1>7 DEF Pop, AfterRelease, ControlOK
<1>8. CASE Wake(t)
  BY <1>8 DEF Wake, AfterRelease, ControlOK
<1>9. CASE Push(t) \/ Sleep(t)
  BY <1>9 DEF Push, Sleep
<1>10. CASE Resume(t)
  <2>1. CASE cond[t] = NULL
    BY <1>10, <2>1 DEF Resume, ControlOK, Locks
  <2>2. CASE cond[t] # NULL
    BY <1>10, <2>2 DEF Resume
  <2>3. QED
    BY <2>1, <2>2
<1>11. CASE Call(t)
  <2>1. ASSUME NEW m \in Mutexes, NEW label \in {"check", "check_nb"}, CallAcquire(t, m, label)
        PROVE  RankOK(t)'
    BY <2>1 DEF CallAcquire
  <2>2. ASSUME NEW m \in Mutexes, CallRelease(t, m)
        PROVE  RankOK(t)'
    BY <2>2 DEF CallRelease, ControlOK
  <2>3. ASSUME NEW c \in Conditions, NEW b \in BOOLEAN, CallWait(t, c, b)
        PROVE  RankOK(t)'
    BY <2>3 DEF CallWait
  <2>4. ASSUME NEW c \in Conditions, NEW b \in BOOLEAN, CallSignal(t, c, b)
        PROVE  RankOK(t)'
    BY <2>4 DEF CallSignal
  <2>5. QED
    BY <1>11, <2>1, <2>2, <2>3, <2>4 DEF Call
<1>12. QED
  BY <1>1, <1>2, <1>3, <1>4, <1>5, <1>6, <1>7, <1>8, <1>9, <1>10, <1>11 DEF Step

\* The circular deadlock check stays silent: the threads all of whose mutexes
\* rank below m are closed under "waits behind", and none of them holds m.
LEMMA NoCircle ==
  ASSUME TypeOK, ControlInv, QueueInv, RankInv, NEW t \in Threads, NEW m \in Mutexes, MayNest(t, m)
  PROVE  ~CircularDeadLock(t, m)
<1> DEFINE S == {u \in Threads : MayNest(u, m)}
<1>1. t \in S /\ S \in SUBSET Threads
  OBVIOUS
<1>2. ASSUME NEW u \in S, NEW v \in Threads, WaitsBehind(u, v) PROVE v \in S
  <2>1. PICK n \in Mutexes : n \in holding_lock_list_[u] /\ OnList(v, n)
    BY <1>2 DEF WaitsBehind, TypeOK
  <2>2. lock[v] = n /\ pc[v] \in {"sleep", "asleep"}
    BY <2>1 DEF QueueInv, ListedInv, Dormant, Locks
  <2>3. MayNest(v, n) /\ Rank[n] < Rank[m]
    BY <2>1, <2>2 DEF RankInv, RankOK, MayNest
  <2>4. \A h \in holding_lock_list_[v] : h \in Mutexes /\ Rank[h] \in Nat
    BY LocksAssumption DEF TypeOK
  <2>5. QED
    BY <2>3, <2>4, LocksAssumption DEF MayNest
<1>3. \A u \in S : m \notin holding_lock_list_[u]
  BY LocksAssumption DEF MayNest
<1> HIDE DEF S
<1>4. QED
  BY <1>1, <1>2, <1>3 DEF CircularDeadLock

-----------------------------------------------------------------------------
(* The theorems *)

\* The inductive invariant.
IndInv ==
    /\ TypeOK /\ ControlInv /\ HolderInv /\ HoldingInv /\ MutualExclusion
    /\ ListLockInv /\ QueueInv /\ NoLostWakeup /\ RankInv

\* The inductive invariant holds when the locks are constructed.
LEMMA IndInvInit == Init => IndInv
<1> SUFFICES ASSUME Init PROVE IndInv
  OBVIOUS
<1>1. TypeOK
  BY LocksAssumption DEF Init, TypeOK, Locks, Labels
<1>2. ControlInv
  BY LocksAssumption DEF Init, ControlInv, ControlOK, AcquireLabels, ReleaseLabels
<1>3. HolderInv /\ HoldingInv
  BY LocksAssumption DEF Init, HolderInv, HoldingInv, HoldingOK
<1>4. MutualExclusion
  BY DEF Init, MutualExclusion, Owns
<1>5. ListLockInv
  BY DEF Init, ListLockInv, InList
<1>6. QueueInv
  <2>1. \A l \in Locks : Len(waiters_list_[l]) = 0
    BY DEF Init
  <2>2. \A l \in Locks : Distinct(l) /\ \A u \in Threads : ~OnList(u, l)
    BY <2>1 DEF OnList, Distinct
  <2>3. ListedInv
    BY <2>2 DEF ListedInv
  <2>4. WakeeInv
    BY LocksAssumption DEF Init, WakeeInv
  <2>5. DormantInv
    BY LocksAssumption DEF Init, DormantInv, Dormant
  <2>6. QED
    BY <2>2, <2>3, <2>4, <2>5 DEF QueueInv
<1>7. NoLostWakeup
  BY DEF Init, NoLostWakeup, Locks
<1>8. RankInv
  BY DEF Init, RankInv, RankOK, MayNest
<1>9. QED
  BY <1>1, <1>2, <1>3, <1>4, <1>5, <1>6, <1>7, <1>8 DEF IndInv

\* Every step, and stuttering, preserves the inductive invariant.
LEMMA IndInvStep == IndInv /\ [Next]_vars => IndInv'
<1> SUFFICES ASSUME IndInv, [Next]_vars PROVE IndInv'
  OBVIOUS
<1>1. CASE Next
  <2>1. PICK t \in Threads : Step(t) \/ Call(t)
    BY <1>1 DEF Next
  <2>2. QED
    BY <2>1, TypeStep, ControlStep, HolderStep, HoldingStep, MutualExclusionStep,
       ListLockStep, QueueInvStep, WakeupStep, RankStep DEF IndInv
<1>2. CASE UNCHANGED vars
  BY <1>2 DEF vars, lockVars, threadVars, callVars, IndInv, TypeOK, ControlInv, ControlOK,
              HolderInv, HoldingInv, HoldingOK, MutualExclusion, Owns, ListLockInv, InList,
              QueueInv, ListedInv, WakeeInv, DormantInv, Distinct, OnList, Dormant,
              NoLostWakeup, WillTest, RankInv, RankOK, MayNest
<1>3. QED
  BY <1>1, <1>2

\* The inductive invariant holds in every reachable state.
LEMMA Invariance == Spec => []IndInv
  BY IndInvInit, IndInvStep, PTL DEF Spec

\* Mutexes exclude, for any number of threads, mutexes and conditions: at most
\* one thread is between the test-and-set of Mutex::acquire it won and the
\* store of Mutex::release, and a mutex is free exactly when there is none.
THEOREM Exclusion == Spec => [](TypeOK /\ MutualExclusion)
<1>1. IndInv => TypeOK /\ MutualExclusion
  BY DEF IndInv
<1>2. QED
  BY <1>1, Invariance, PTL

\* No wakeup is lost: whenever a mutex is free while a thread sleeps on it or
\* is bound to, some thread is about to pop its list or to test it again.
THEOREM Wakeups == Spec => []NoLostWakeup
<1>1. IndInv => NoLostWakeup
  BY DEF IndInv
<1>2. QED
  BY <1>1, Invariance, PTL

\* Sleep and wake pair up: every dormant thread is on exactly one list or has
\* exactly one waker, and no thread that runs is on a list.
THEOREM Handshake == Spec => []WakeOnlyPopped
<1>1. IndInv => WakeOnlyPopped
  <2> SUFFICES ASSUME IndInv, NEW t \in Threads
               PROVE  /\ Dormant(t) <=> \/ \E l \in Locks : OnList(t, l)
                                        \/ \E u \in Threads : wakee[u] = t
                      /\ \A l \in Locks : OnList(t, l) => /\ l = lock_waiting_on_[t]
                                                          /\ \A u \in Threads : wakee[u] # t
                      /\ \A u, v \in Threads : wakee[u] = t /\ wakee[v] = t => u = v
    BY DEF WakeOnlyPopped
  <2>1. Dormant(t) => lock[t] \in Locks /\ lock_waiting_on_[t] = lock[t]
    BY DEF IndInv, ControlInv, ControlOK, Dormant
  <2>2. QED
    BY <2>1 DEF IndInv, QueueInv, ListedInv, WakeeInv, DormantInv
<1>2. QED
  BY <1>1, Invariance, PTL

\* No signal is lost: when Condition::signal looks at the list, every thread
\* that gave up the mutex in Condition::wait has been on it.
THEOREM Signals == Spec => []NoLostSignal
<1>1. IndInv => NoLostSignal
  <2> SUFFICES ASSUME IndInv, NEW t \in Threads, NEW u \in Threads,
                      pc[t] = "sig_pop", cond[u] = lock[t]
               PROVE  pc[u] \in {"sleep", "asleep", "wait_list"}
    BY DEF NoLostSignal
  <2>1. lock[t] \in Conditions /\ cond[t] = NULL /\ ControlOK(u) /\ pc[u] \in Labels
    BY DEF IndInv, ControlInv, ControlOK, TypeOK
  <2>2. InList(t, lock[t]) /\ u # t /\ cond[u] # NULL
    BY <2>1, LocksAssumption DEF InList, Locks
  <2>3. ~InList(u, lock[t])
    BY <2>1, <2>2 DEF IndInv, ListLockInv, Locks
  <2>4. pc[u] # "push"
    BY <2>1, <2>2, <2>3 DEF ControlOK, InList, Locks
  <2>5. QED
    BY <2>1, <2>2, <2>3, <2>4 DEF InList, ControlOK, AcquireLabels, Labels
<1>2. QED
  BY <1>1, Invariance, PTL

\* In a state of the inductive invariant every assertion of the lock classes
\* holds: NoCircle answers the one that searches for a circle of waiting threads.
LEMMA NoAssertionFails == IndInv => AssertionsHold
<1>1. IndInv => AssertionsHold
  <2> SUFFICES ASSUME IndInv, NEW t \in Threads
               PROVE  /\ pc[t] \in {"check", "check_nb", "recheck"} => ChecksBeforeWaiting(t, lock[t])
                      /\ pc[t] \in {"acq_list", "wait_list"} => lock_waiting_on_[t] = NULL
                      /\ pc[t] = "own" => held_by_[lock[t]] = NULL
                      /\ pc[t] = "disown" => held_by_[lock[t]] = t
                      /\ pc[t] = "client" => \A m \in holding_lock_list_[t] : held_by_[m] = t
    BY DEF AssertionsHold
  <2>1. ControlOK(t) /\ RankOK(t) /\ HoldingOK(t) /\ TypeOK
    BY DEF IndInv, ControlInv, RankInv, HoldingInv
  <2>2. ASSUME pc[t] \in {"check", "check_nb", "recheck"} PROVE ChecksBeforeWaiting(t, lock[t])
    <3>1. lock[t] \in Mutexes /\ lock_waiting_on_[t] = NULL /\ MayNest(t, lock[t])
      BY <2>1, <2>2 DEF ControlOK, AcquireLabels, RankOK
    <3>2. held_by_[lock[t]] # t
      BY <3>1, LocksAssumption DEF IndInv, HolderInv, MayNest
    <3>3. ~CircularDeadLock(t, lock[t])
      BY <3>1, NoCircle DEF IndInv
    <3>4. QED
      BY <3>1, <3>2, <3>3 DEF ChecksBeforeWaiting
  <2>3. ASSUME pc[t] = "own" PROVE held_by_[lock[t]] = NULL
    <3>1. lock[t] \in Mutexes /\ Owns(t, lock[t]) /\ lock[t] \notin holding_lock_list_[t]
      BY <2>1, <2>3 DEF ControlOK, AcquireLabels, HoldingOK, Owns
    <3>2. \A u \in Threads : held_by_[lock[t]] # u
      BY <3>1 DEF IndInv, HolderInv, MutualExclusion, Owns
    <3>3. QED
      BY <2>1, <3>1, <3>2 DEF TypeOK
  <2>4. pc[t] = "disown" => held_by_[lock[t]] = t
    BY <2>1 DEF IndInv, HolderInv, HoldingOK, ControlOK, ReleaseLabels
  <2>5. \A m \in holding_lock_list_[t] : held_by_[m] = t
    BY <2>1 DEF IndInv, HolderInv, TypeOK
  <2>6. pc[t] \in {"acq_list", "wait_list"} => lock_waiting_on_[t] = NULL
    BY <2>1 DEF ControlOK
  <2>7. QED
    BY <2>2, <2>3, <2>4, <2>5, <2>6
<1>2. QED
  BY <1>1

\* No assertion of the lock classes fails, the circular deadlock check among
\* them, as long as the kernel nests its mutexes in one order.
THEOREM Assertions == Spec => []AssertionsHold
  BY NoAssertionFails, Invariance, PTL

\* Where a thread can stand when nobody has a step to take.
LEMMA StuckLabels ==
  ASSUME IndInv, \A u \in Threads : ~CanStep(u), NEW t \in Threads
  PROVE  /\ pc[t] \in {"client", "acq_list", "rel_list", "sig_list", "wait_list", "asleep"}
         /\ pc[t] \notin {"client", "asleep"} => waiters_list_lock_[lock[t]] # 0
         /\ pc[t] = "asleep" => state_[t] = "Sleeping"
<1>1. AssertionsHold /\ TypeOK /\ ControlOK(t)
  BY NoAssertionFails DEF IndInv, ControlInv
<1>2. pc[t] \notin {"check", "check_nb", "recheck", "own", "disown"}
  BY <1>1 DEF AssertionsHold, CanStep
<1>3. pc[t] \notin {"try", "try_nb", "retry", "clear", "rel_pop", "sig_pop", "push", "sleep"}
  BY DEF CanStep
<1>4. ASSUME pc[t] = "wake" PROVE FALSE
  <2>1. wakee[t] \in Threads
    BY <1>1, <1>4 DEF ControlOK
  <2>2. Dormant(wakee[t])
    BY <2>1 DEF IndInv, QueueInv, WakeeInv
  <2>3. pc[wakee[t]] # "sleep"
    BY <2>1 DEF CanStep
  <2>4. QED
    BY <1>4, <2>2, <2>3 DEF Dormant, CanStep
<1>5. pc[t] \in {"acq_list", "rel_list", "sig_list", "wait_list"} => waiters_list_lock_[lock[t]] # 0
  BY DEF CanStep
<1>6. pc[t] = "asleep" => state_[t] = "Sleeping"
  BY <1>1 DEF CanStep, TypeOK
<1>7. pc[t] \in {"client", "acq_list", "rel_list", "sig_list", "wait_list", "asleep"}
  BY <1>1, <1>2, <1>3, <1>4 DEF TypeOK, Labels
<1>8. QED
  BY <1>5, <1>6, <1>7

\* Nobody spins on a list lock then: its holder would itself spin, in the
\* release inside Condition::wait, on the list of a mutex, whose holder moves.
LEMMA NobodySpins ==
  ASSUME IndInv, \A u \in Threads : ~CanStep(u), NEW t \in Threads
  PROVE  pc[t] \in {"client", "asleep"}
<1>1. ASSUME NEW u \in Threads, pc[u] \notin {"client", "asleep"}
      PROVE  \E v \in Threads :
                pc[v] = "rel_list" /\ cond[v] # NULL /\ cond[v] = lock[u] /\ lock[v] \in Mutexes
  <2>1. waiters_list_lock_[lock[u]] # 0 /\ lock[u] \in Locks
    BY <1>1, StuckLabels, LockFacts DEF IndInv
  <2>2. PICK v \in Threads : InList(v, lock[u])
    BY <2>1 DEF IndInv, ListLockInv
  <2>3. pc[v] \in {"client", "acq_list", "rel_list", "sig_list", "wait_list", "asleep"}
    BY StuckLabels
  <2>4. pc[v] = "rel_list" /\ cond[v] = lock[u]
    BY <2>2, <2>3 DEF InList
  <2>5. lock[v] \in Mutexes
    BY <2>4 DEF IndInv, ControlInv, ControlOK, ReleaseLabels
  <2>6. QED
    BY <2>1, <2>4, <2>5, LocksAssumption DEF Locks
<1>2. SUFFICES ASSUME pc[t] \notin {"client", "asleep"} PROVE FALSE
  OBVIOUS
<1>3. PICK v \in Threads : pc[v] = "rel_list" /\ lock[v] \in Mutexes
  BY <1>1, <1>2
<1>4. PICK w \in Threads : cond[w] # NULL /\ cond[w] = lock[v]
  BY <1>1, <1>3
<1>5. cond[w] \in Conditions
  BY <1>4 DEF IndInv, TypeOK
<1>6. QED
  BY <1>3, <1>4, <1>5, LocksAssumption

\* The lock classes never deadlock, for any threads, mutexes and conditions:
\* when no thread has a step to take in them, every thread inside them sleeps on
\* a condition, or on a mutex that another thread holds.
THEOREM NoDeadlock == Spec => []NoDeadlockInLocks
<1>1. IndInv => NoDeadlockInLocks
  <2> SUFFICES ASSUME IndInv, \A u \in Threads : ~CanStep(u), NEW t \in Threads,
                      pc[t] # "client"
               PROVE  /\ pc[t] = "asleep"
                      /\ \/ lock[t] \in Conditions
                         \/ held_by_[lock[t]] \in Threads \ {t}
    BY DEF NoDeadlockInLocks
  <2> DEFINE m == lock[t]
  <2>1. pc[t] = "asleep" /\ state_[t] = "Sleeping"
    BY NobodySpins, StuckLabels
  <2>2. m \in Locks
    BY <2>1 DEF IndInv, ControlInv, ControlOK
  <2>3. ASSUME m \in Mutexes PROVE held_by_[m] \in Threads \ {t}
    <3>1. \A u \in Threads : wakee[u] = NULL
      BY NobodySpins DEF IndInv, ControlInv, ControlOK
    <3>2. OnList(t, m)
      BY <2>1, <3>1, LocksAssumption DEF IndInv, QueueInv, DormantInv, Dormant
    <3>3. waiters_list_[m] # <<>>
      BY <3>2 DEF OnList
    <3>4. \A u \in Threads : ~Rescuer(u, m)
      BY NobodySpins, StuckLabels DEF Rescuer, WillTest
    <3>5. mutex_[m] # 0
      BY <2>3, <3>3, <3>4, WakeupForm DEF IndInv, Bound
    <3>6. PICK u \in Threads : Owns(u, m)
      BY <2>3, <3>5 DEF IndInv, MutualExclusion
    <3>7. m \in holding_lock_list_[u]
      BY <3>6, NobodySpins DEF Owns
    <3>8. held_by_[m] = u
      BY <2>3, <3>7 DEF IndInv, HolderInv
    <3>9. m \notin holding_lock_list_[t]
      BY <2>1, <2>3, LocksAssumption DEF IndInv, RankInv, RankOK, MayNest
    <3>10. QED
      BY <3>7, <3>8, <3>9
  <2>4. QED
    BY <2>1, <2>2, <2>3 DEF Locks
<1>2. QED
  BY <1>1, Invariance, PTL

-----------------------------------------------------------------------------
(* The locks implement monitors *)

\* The thread the refinement mapping chooses is the owner of the mutex.
OwnerMapped ==
    \A m \in Mutexes :
        /\ \A t \in Threads : Owns(t, m) => owner[m] = t
        /\ (\A t \in Threads : ~Owns(t, m)) => owner[m] = NULL

\* Mutual exclusion leaves it no choice.
LEMMA OwnerIs == MutualExclusion => OwnerMapped
<1> SUFFICES ASSUME MutualExclusion, NEW m \in Mutexes
             PROVE  /\ \A t \in Threads : Owns(t, m) => owner[m] = t
                    /\ (\A t \in Threads : ~Owns(t, m)) => owner[m] = NULL
  BY DEF OwnerMapped
<1>1. ASSUME NEW t \in Threads, Owns(t, m) PROVE owner[m] = t
  <2>1. \A u \in Threads : Owns(u, m) => u = t
    BY <1>1 DEF MutualExclusion
  <2>2. (CHOOSE u \in Threads : Owns(u, m)) = t
    BY <1>1, <2>1
  <2>3. QED
    BY <1>1, <2>2 DEF owner
<1>2. QED
  BY <1>1 DEF owner

\* The same after a step.
LEMMA OwnerIsNext == MutualExclusion' => OwnerMapped'
  BY OwnerIs, PTL

\* A mutex whose owners a step leaves alone keeps its owner in the image.
LEMMA OwnerSame ==
  ASSUME OwnerMapped, OwnerMapped', NEW m \in Mutexes,
         \A u \in Threads : Owns(u, m)' <=> Owns(u, m)
  PROVE  owner'[m] = owner[m]
<1>1. CASE \E t \in Threads : Owns(t, m)
  BY <1>1 DEF OwnerMapped
<1>2. CASE \A t \in Threads : ~Owns(t, m)
  BY <1>2 DEF OwnerMapped
<1>3. QED
  BY <1>1, <1>2

\* The image of a step that leaves all owners alone, and of one that changes
\* the owner of a single mutex.
LEMMA OwnerStep ==
  ASSUME OwnerMapped, OwnerMapped'
  PROVE  /\ (\A u \in Threads, m \in Mutexes : Owns(u, m)' <=> Owns(u, m)) => owner' = owner
         /\ \A k \in Mutexes :
               (\A u \in Threads, m \in Mutexes : m # k => (Owns(u, m)' <=> Owns(u, m)))
               => owner' = [owner EXCEPT ![k] = owner'[k]]
<1>1. owner = [m \in Mutexes |-> owner[m]] /\ owner' = [m \in Mutexes |-> owner'[m]]
  BY DEF owner
<1>2. ASSUME \A u \in Threads, m \in Mutexes : Owns(u, m)' <=> Owns(u, m)
      PROVE  owner' = owner
  <2>1. \A m \in Mutexes : owner'[m] = owner[m]
    BY <1>2, OwnerSame
  <2>2. QED
    BY <1>1, <2>1
<1>3. ASSUME NEW k \in Mutexes,
             \A u \in Threads, m \in Mutexes : m # k => (Owns(u, m)' <=> Owns(u, m))
      PROVE  owner' = [owner EXCEPT ![k] = owner'[k]]
  <2>1. \A m \in Mutexes : m # k => owner'[m] = owner[m]
    BY <1>3, OwnerSame
  <2>2. QED
    BY <1>1, <2>1
<1>4. QED
  BY <1>2, <1>3

\* A thread that neither sleeps nor is on its way to in Condition::wait is in
\* no wait set.
LEMMA NotWaiting ==
  ASSUME IndInv, NEW t \in Threads, ~Dormant(t),
         cond[t] = NULL \/ pc[t] \notin {"rel_list", "rel_pop", "wake", "push"}
  PROVE  M!Awake(t)
<1>1. \A c \in Conditions : ~OnList(t, c)
  BY DEF IndInv, QueueInv, ListedInv, Locks
<1>2. \A c \in Conditions : ~InWaitSet(t, c)
  BY <1>1, LocksAssumption DEF InWaitSet, Locks
<1>3. QED
  BY <1>2 DEF M!Awake, waiting

\* When a step leaves the lists of conditions and its own thread's place alone,
\* its image leaves the wait sets alone.
LEMMA WaitingSame ==
  ASSUME NEW t \in Threads, Frame(t),
         \A u \in Threads, c \in Conditions : OnList(u, c)' <=> OnList(u, c),
         \A c \in Conditions : InWaitSet(t, c)' <=> InWaitSet(t, c)
  PROVE  waiting' = waiting
<1>1. \A u \in Threads, c \in Conditions : InWaitSet(u, c)' <=> InWaitSet(u, c)
  BY DEF InWaitSet, Frame
<1>2. QED
  BY <1>1 DEF waiting

\* The winning test-and-set is the abstract Acquire; a failing one changes
\* nothing a client can see.
LEMMA MonitorAcquires ==
  ASSUME IndInv, IndInv', NEW t \in Threads, TestSet(t) \/ TestSetAgain(t)
  PROVE  \/ \E m \in Mutexes : M!Acquire(t, m)
         \/ UNCHANGED <<owner, waiting>>
<1>0. Frame(t) /\ ControlOK(t) /\ OwnerMapped /\ OwnerMapped'
  BY FrameStep, OwnerIs, OwnerIsNext DEF Step, IndInv, ControlInv
<1>1. /\ lock[t] \in Mutexes /\ lock'[t] = lock[t] /\ cond[t] = NULL /\ cond'[t] = NULL
      /\ pc[t] \in {"try", "try_nb", "retry"}
      /\ holding_lock_list_' = holding_lock_list_ /\ waiters_list_' = waiters_list_
  BY <1>0 DEF TestSet, TestSetAgain, ControlOK, AcquireLabels, threadVars
<1>2. waiting' = waiting
  <2>1. \A c \in Conditions : InWaitSet(t, c)' <=> InWaitSet(t, c)
    BY <1>1, LocksAssumption DEF InWaitSet, OnList, Locks
  <2>2. QED
    BY <1>0, <1>1, <2>1, WaitingSame DEF OnList
<1>3. CASE mutex_[lock[t]] = 0
  <2>1. pc'[t] = "own"
    BY <1>3 DEF TestSet, TestSetAgain, WasFree, Goto, IndInv, TypeOK
  <2>2. /\ \A u \in Threads, m \in Mutexes : m # lock[t] => (Owns(u, m)' <=> Owns(u, m))
        /\ Owns(t, lock[t])' /\ \A u \in Threads : ~Owns(u, lock[t])
    BY <1>0, <1>1, <1>3, <2>1 DEF Owns, Frame, IndInv, MutualExclusion
  <2>3. owner[lock[t]] = NULL /\ owner'[lock[t]] = t
    BY <1>0, <1>1, <2>2 DEF OwnerMapped
  <2>4. owner' = [owner EXCEPT ![lock[t]] = t]
    BY <1>0, <1>1, <2>2, <2>3, OwnerStep
  <2>5. M!Awake(t)
    BY <1>1, NotWaiting DEF Dormant
  <2>6. QED
    BY <1>1, <1>2, <2>3, <2>4, <2>5 DEF M!Acquire
<1>4. CASE mutex_[lock[t]] # 0
  <2>1. pc'[t] \notin {"own", "clear"}
    BY <1>4 DEF TestSet, TestSetAgain, WasFree, Goto, IndInv, TypeOK
  <2>2. \A u \in Threads, m \in Mutexes : Owns(u, m)' <=> Owns(u, m)
    BY <1>0, <1>1, <2>1 DEF Owns, Frame
  <2>3. QED
    BY <1>0, <1>2, <2>2, OwnerStep
<1>5. QED
  BY <1>3, <1>4

\* The store mutex_ = 0 is the abstract Release or, inside Condition::wait, the
\* abstract Wait.
LEMMA MonitorReleases ==
  ASSUME IndInv, IndInv', NEW t \in Threads, Clear(t)
  PROVE  \/ \E m \in Mutexes : M!Release(t, m)
         \/ \E c \in Conditions : M!Wait(t, c)
<1>0. Frame(t) /\ ControlOK(t) /\ OwnerMapped /\ OwnerMapped'
  BY FrameStep, OwnerIs, OwnerIsNext DEF Step, IndInv, ControlInv
<1>1. /\ lock[t] \in Mutexes /\ lock'[t] = lock[t] /\ cond'[t] = cond[t]
      /\ pc[t] = "clear" /\ pc'[t] = "rel_list"
      /\ holding_lock_list_' = holding_lock_list_ /\ waiters_list_' = waiters_list_
      /\ cond[t] # NULL => cond[t] \in Conditions /\ lock[t] = CondMutex[cond[t]]
  BY <1>0 DEF Clear, ControlOK, ReleaseLabels, threadVars, Goto, IndInv, TypeOK
<1>2. lock[t] \notin holding_lock_list_[t]
  BY <1>1 DEF IndInv, HoldingInv, HoldingOK
<1>3. /\ \A u \in Threads, m \in Mutexes : m # lock[t] => (Owns(u, m)' <=> Owns(u, m))
      /\ Owns(t, lock[t]) /\ ~Owns(t, lock[t])'
      /\ \A u \in Threads : Owns(u, lock[t])' => u # t /\ Owns(u, lock[t])
  BY <1>0, <1>1, <1>2 DEF Owns, Frame
<1>4. \A u \in Threads : ~Owns(u, lock[t])'
  BY <1>1, <1>3 DEF IndInv, MutualExclusion
<1>5. owner[lock[t]] = t /\ owner'[lock[t]] = NULL
  BY <1>0, <1>1, <1>3, <1>4 DEF OwnerMapped
<1>6. owner' = [owner EXCEPT ![lock[t]] = NULL]
  BY <1>0, <1>1, <1>3, <1>5, OwnerStep
<1>7. M!Awake(t)
  BY <1>1, NotWaiting DEF Dormant
<1>8. CASE cond[t] = NULL
  <2>1. \A c \in Conditions : InWaitSet(t, c)' <=> InWaitSet(t, c)
    BY <1>1, <1>8, LocksAssumption DEF InWaitSet, OnList, Locks
  <2>2. waiting' = waiting
    BY <1>0, <1>1, <2>1, WaitingSame DEF OnList
  <2>3. QED
    BY <1>1, <1>5, <1>6, <1>7, <2>2 DEF M!Release
<1>9. CASE cond[t] # NULL
  <2>1. \A c \in Conditions, u \in Threads :
           InWaitSet(u, c)' <=> InWaitSet(u, c) \/ (u = t /\ c = cond[t])
    BY <1>0, <1>1 DEF InWaitSet, OnList, Frame
  <2>2. \A c \in Conditions :
           waiting'[c] = IF c = cond[t] THEN waiting[c] \cup {t} ELSE waiting[c]
    BY <2>1 DEF waiting
  <2>3. waiting' = [waiting EXCEPT ![cond[t]] = @ \cup {t}]
    BY <2>2 DEF waiting
  <2>4. QED
    BY <1>1, <1>5, <1>6, <1>7, <1>9, <2>3 DEF M!Wait
<1>10. QED
  BY <1>8, <1>9

\* Taking a thread off the list of a condition is the abstract Notify.
LEMMA MonitorNotifies ==
  ASSUME IndInv, IndInv', NEW t \in Threads, Pop(t),
         pc[t] = "sig_pop", waiters_list_[lock[t]] # <<>>
  PROVE  \E c \in Conditions : M!Notify(t, c)
<1>0. Frame(t) /\ ControlOK(t) /\ OwnerMapped /\ OwnerMapped'
  BY FrameStep, OwnerIs, OwnerIsNext DEF Step, IndInv, ControlInv
<1> DEFINE c == lock[t]
           u == Head(waiters_list_[c])
<1>1. /\ c \in Conditions /\ c \in Locks /\ cond[t] = NULL /\ cond' = cond
      /\ pc'[t] = "wake" /\ CondMutex[c] \in Mutexes
  BY <1>0, LocksAssumption DEF ControlOK, Pop, Goto, IndInv, TypeOK, Locks
<1>2. owner' = owner
  <2>1. ~OwnershipStep(t)
    BY DEF OwnershipStep, TestSet, TestSetAgain, Own, Disown, Clear
  <2>2. \A v \in Threads, m \in Mutexes : Owns(v, m)' <=> Owns(v, m)
    BY <2>1, OwnersUnchanged DEF Step, IndInv
  <2>3. QED
    BY <1>0, <2>2, OwnerStep
<1>3. owner[CondMutex[c]] = t
  BY <1>0, <1>1 DEF IndInv, HoldingInv, HoldingOK, Owns, OwnerMapped
<1>4. M!Awake(t)
  BY NotWaiting DEF Dormant
<1>5. /\ u \in Threads /\ OnList(u, c)
      /\ \A v \in Threads, l \in Locks : OnList(v, l)' <=> OnList(v, l) /\ ~(v = u /\ l = c)
  <2>1. waiters_list_[c] \in Seq(Threads)
    BY <1>1 DEF IndInv, TypeOK
  <2>2. u \in Threads
    BY <2>1, TailFacts
  <2>3. QED
    BY <2>2, PopLists DEF IndInv, QueueInv, ListedInv
<1>6. u # t /\ pc[u] \in {"sleep", "asleep"}
  BY <1>1, <1>5 DEF IndInv, QueueInv, ListedInv, Dormant
<1> HIDE DEF c, u
<1>7. \A d \in Conditions, v \in Threads :
         InWaitSet(v, d)' <=> InWaitSet(v, d) /\ ~(v = u /\ d = c)
  BY <1>0, <1>1, <1>5, <1>6, LocksAssumption DEF InWaitSet, Frame, Locks
<1>8. u \in waiting[c]
  BY <1>1, <1>5 DEF waiting, InWaitSet
<1>9. \A d \in Conditions : waiting'[d] = IF d = c THEN waiting[d] \ {u} ELSE waiting[d]
  BY <1>7 DEF waiting
<1>10. waiting' = [waiting EXCEPT ![c] = @ \ {u}]
  BY <1>9 DEF waiting
<1>11. QED
  BY <1>1, <1>2, <1>3, <1>4, <1>8, <1>10 DEF M!Notify

\* The steps a client of the monitors does not see.
LEMMA MonitorStutters ==
  ASSUME IndInv, IndInv', NEW t \in Threads, Step(t) \/ Call(t),
         ~TestSet(t), ~TestSetAgain(t), ~Clear(t),
         ~(Pop(t) /\ pc[t] = "sig_pop" /\ waiters_list_[lock[t]] # <<>>)
  PROVE  UNCHANGED <<owner, waiting>>
<1>0. Frame(t) /\ ControlOK(t) /\ OwnerMapped /\ OwnerMapped'
  BY FrameStep, OwnerIs, OwnerIsNext DEF IndInv, ControlInv
<1>1. owner' = owner
  <2>1. \A u \in Threads, m \in Mutexes : Owns(u, m)' <=> Owns(u, m)
    <3>1. CASE Own(t)
      BY <1>0, <3>1 DEF Own, Owns, Frame, Goto, IndInv, TypeOK
    <3>2. CASE Disown(t)
      BY <1>0, <3>2 DEF Disown, Owns, Frame, Goto, IndInv, TypeOK, HoldingInv, HoldingOK
    <3>3. CASE ~Own(t) /\ ~Disown(t)
      BY <3>3, OwnersUnchanged DEF OwnershipStep, IndInv
    <3>4. QED
      BY <3>1, <3>2, <3>3
  <2>2. QED
    BY <1>0, <2>1, OwnerStep
<1> SUFFICES waiting' = waiting
  BY <1>1
<1>2. CASE Push(t)
  <2>0. \A u \in Threads, c \in Conditions :
           OnList(u, c)' <=> OnList(u, c) \/ (u = t /\ c = lock[t])
    BY <1>2, PushLists DEF IndInv, Locks
  <2>1. /\ pc[t] = "push" /\ pc'[t] = "sleep" /\ cond'[t] = cond[t]
        /\ lock[t] \in Conditions => cond[t] = lock[t]
        /\ lock[t] \in Mutexes => cond[t] = NULL
        /\ lock[t] \in Locks
    BY <1>0, <1>2 DEF Push, IndInv, Goto, TypeOK, ControlOK
  <2>2. \A u \in Threads, c \in Conditions : InWaitSet(u, c)' <=> InWaitSet(u, c)
    BY <1>0, <2>0, <2>1, LocksAssumption DEF InWaitSet, Frame, Locks
  <2>3. QED
    BY <2>2 DEF waiting
<1>3. CASE Pop(t) /\ waiters_list_[lock[t]] # <<>>
  <2>1. pc[t] = "rel_pop" /\ pc'[t] = "wake" /\ cond'[t] = cond[t] /\ lock[t] \notin Conditions
    BY <1>0, <1>3, LocksAssumption DEF Pop, Goto, IndInv, TypeOK, ControlOK, ReleaseLabels
  <2>2. \A u \in Threads, c \in Conditions : OnList(u, c)' <=> OnList(u, c)
    BY <1>3, <2>1, PopLists DEF IndInv, QueueInv, ListedInv, Locks
  <2>3. \A c \in Conditions : InWaitSet(t, c)' <=> InWaitSet(t, c)
    BY <2>1, <2>2 DEF InWaitSet
  <2>4. QED
    BY <1>0, <2>2, <2>3, WaitingSame
<1>4. CASE ~Push(t) /\ ~(Pop(t) /\ waiters_list_[lock[t]] # <<>>)
  <2>1. waiters_list_' = waiters_list_
    BY <1>4 DEF Step, Call, Check, CheckAgain, Own, Disown, LockWaitersList, Pop, Wake, Sleep,
                Resume, CallAcquire, CallRelease, CallWait, CallSignal, lockVars
  <2>2. ASSUME NEW c \in Conditions PROVE InWaitSet(t, c)' <=> InWaitSet(t, c)
    <3> SUFFICES (cond'[t] = c /\ pc'[t] \in {"rel_list", "rel_pop", "wake", "push"})
                 <=> (cond[t] = c /\ pc[t] \in {"rel_list", "rel_pop", "wake", "push"})
      BY <2>1 DEF InWaitSet, OnList
    <3> USE <1>0, LocksAssumption DEF IndInv, TypeOK, Goto, ControlOK, AcquireLabels,
                                      ReleaseLabels, Locks
    <3>1. CASE Check(t) \/ CheckAgain(t) \/ Own(t) \/ Disown(t)
      BY <3>1 DEF Check, CheckAgain, Own, Disown
    <3>2. CASE LockWaitersList(t)
      BY <3>2 DEF LockWaitersList
    <3>3. CASE Pop(t) \/ Wake(t)
      <4>1. UNCHANGED cond
        BY <3>3 DEF Pop, Wake
      <4>2. CASE cond[t] = NULL
        BY <4>1, <4>2
      <4>3. CASE cond[t] # NULL
        <5>1. pc[t] \in {"rel_pop", "wake"} /\ ~(lock[t] \in Conditions /\ pc[t] = "wake")
          BY <3>3, <4>3 DEF Pop, Wake
        <5>2. AfterRelease(t)
          BY <1>4, <3>3, <5>1 DEF Pop, Wake
        <5>3. pc'[t] = "push"
          BY <4>3, <5>2 DEF AfterRelease
        <5>4. QED
          BY <4>1, <5>1, <5>3
      <4>4. QED
        BY <4>2, <4>3
    <3>4. CASE Sleep(t) \/ Resume(t)
      BY <3>4 DEF Sleep, Resume
    <3>5. CASE Call(t)
      BY <3>5 DEF Call, CallAcquire, CallRelease, CallWait, CallSignal
    <3>6. QED
      BY <1>4, <3>1, <3>2, <3>3, <3>4, <3>5 DEF Step
  <2>3. QED
    BY <1>0, <2>1, <2>2, WaitingSame DEF OnList
<1>5. QED
  BY <1>2, <1>3, <1>4

\* Every step is a step of the monitors or one they do not see.
LEMMA MonitorStep == IndInv /\ IndInv' /\ [Next]_vars => [M!Next]_<<owner, waiting>>
<1> SUFFICES ASSUME IndInv, IndInv', [Next]_vars
             PROVE  M!Next \/ UNCHANGED <<owner, waiting>>
  OBVIOUS
<1>1. CASE UNCHANGED vars
  BY <1>1 DEF vars, lockVars, threadVars, callVars, owner, waiting, Owns, InWaitSet, OnList
<1>2. ASSUME NEW t \in Threads, Step(t) \/ Call(t)
      PROVE  M!Next \/ UNCHANGED <<owner, waiting>>
  <2>1. CASE TestSet(t) \/ TestSetAgain(t)
    BY <2>1, MonitorAcquires DEF M!Next
  <2>2. CASE Clear(t)
    BY <2>2, MonitorReleases DEF M!Next
  <2>3. CASE Pop(t) /\ pc[t] = "sig_pop" /\ waiters_list_[lock[t]] # <<>>
    BY <2>3, MonitorNotifies DEF M!Next
  <2>4. QED
    BY <1>2, <2>1, <2>2, <2>3, MonitorStutters
<1>3. QED
  BY <1>1, <1>2 DEF Next

\* At the start nobody owns a mutex or waits.
LEMMA MonitorInit == Init => M!Init
<1> SUFFICES ASSUME Init PROVE M!Init
  OBVIOUS
<1>1. \A t \in Threads : /\ \A m \in Mutexes : ~Owns(t, m)
                         /\ \A c \in Conditions : ~InWaitSet(t, c)
  BY DEF Init, Owns, InWaitSet, OnList, Locks
<1>2. QED
  BY <1>1 DEF M!Init, owner, waiting

\* Mutex and Condition implement monitors, for any threads, mutexes and
\* conditions: although Condition::wait releases the mutex in many preemptible
\* steps before its thread is on the list, no signal falls in between, and only
\* threads in the wait set are notified, by the owner of the mutex.
THEOREM LocksAreMonitors == Spec => ImplementsMonitor
  BY MonitorInit, MonitorStep, Invariance, PTL DEF Spec, ImplementsMonitor, M!Spec
=============================================================================
