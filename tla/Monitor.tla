------------------------------ MODULE Monitor ------------------------------
(***************************************************************************)
(* What the kernel's mutexes and conditions promise their clients: the     *)
(* monitors of Lampson and Redell.  A mutex has at most one owner; wait    *)
(* gives the mutex up and joins the condition's wait set in one step, so   *)
(* no notification falls in between; only the owner of the mutex notifies, *)
(* and only members of the wait set are notified.                          *)
(***************************************************************************)
CONSTANTS Threads, Mutexes, Conditions, CondMutex, NULL

VARIABLES
    owner,     \* the thread that owns each mutex, or NULL
    waiting    \* the wait set of each condition

Init ==
    /\ owner = [m \in Mutexes |-> NULL]
    /\ waiting = [c \in Conditions |-> {}]

Awake(t) == \A c \in Conditions : t \notin waiting[c]

Acquire(t, m) ==
    /\ Awake(t)
    /\ owner[m] = NULL
    /\ owner' = [owner EXCEPT ![m] = t]
    /\ UNCHANGED waiting

Release(t, m) ==
    /\ Awake(t)
    /\ owner[m] = t
    /\ owner' = [owner EXCEPT ![m] = NULL]
    /\ UNCHANGED waiting

Wait(t, c) ==
    /\ Awake(t)
    /\ owner[CondMutex[c]] = t
    /\ owner' = [owner EXCEPT ![CondMutex[c]] = NULL]
    /\ waiting' = [waiting EXCEPT ![c] = @ \cup {t}]

Notify(t, c) ==
    /\ Awake(t)
    /\ owner[CondMutex[c]] = t
    /\ \E u \in waiting[c] : waiting' = [waiting EXCEPT ![c] = @ \ {u}]
    /\ UNCHANGED owner

Next ==
    \E t \in Threads :
        \/ \E m \in Mutexes : Acquire(t, m) \/ Release(t, m)
        \/ \E c \in Conditions : Wait(t, c) \/ Notify(t, c)

Spec == Init /\ [][Next]_<<owner, waiting>>
=============================================================================
