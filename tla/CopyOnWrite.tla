---------------------------- MODULE CopyOnWrite ----------------------------
(***************************************************************************)
(* The memory of processes across fork: the page tables of ArchMemory, the *)
(* sets of sharing processes of COWManager, the page fault handler and the *)
(* reservation of physical pages by PageManager.                           *)
(*                                                                         *)
(* Every process has one thread, at pc[p]: "user" in user mode, "none" if  *)
(* the process does not exist, "born" until the fork that makes it is      *)
(* done, else in the kernel (in "exit_erase" and "exit_free" the cleanup   *)
(* thread acts for it).  Interrupts are enabled in system calls and page   *)
(* faults, so those of different processes interleave step by step; but    *)
(* cow_map_lock_ and the lock of PageManager are monitors, and a block one *)
(* of them guards is a single step.                                        *)
(***************************************************************************)
CONSTANTS
    Procs, Vpns, Ppns,
    Values,       \* what a page can hold
    ZERO, FREED,  \* the fillings of a new page and of one that is free
    NULL

ASSUME MemoryAssumption ==
    /\ NULL \notin Procs \cup Ppns \cup Values \cup {ZERO, FREED}
    /\ Procs # {}

VARIABLES
    page_ppn,    \* the page table entries of each process, NULL if not present
    writeable,   \* the pages of each process whose writeable bit is set
    cow_map_,    \* COWManager::cow_map_
    used,        \* PageManager::page_usage_table_
    content,     \* what each physical page holds
    pc, vpn,     \* of each process: where it is, the page it is about
    resolved,    \* the ppn handleCOWPageFault resolved before it locked
    child,       \* the process a fork makes
    todo,        \* the pages a fork, an exit or an execv has still to visit
    old_ppn,     \* the page table of the loader that an execv deletes
    left         \* history: the pages an execv did not free, until they are freed

tableVars == <<page_ppn, writeable>>
memoryVars == <<used, content>>
callVars == <<vpn, resolved, child, todo>>
execvVars == <<old_ppn, left>>
vars == <<tableVars, cow_map_, memoryVars, pc, callVars, execvVars>>

Labels == {"none", "born", "user", "valid", "shared", "handle",
           "fork", "fork_ro", "fork_add", "exit_erase", "exit_free",
           "execv_free"}

\* Every variable has its type.
TypeOK ==
    /\ page_ppn \in [Procs -> [Vpns -> Ppns \cup {NULL}]]
    /\ writeable \in [Procs -> SUBSET Vpns]
    /\ cow_map_ \in [Ppns -> SUBSET Procs]
    /\ used \subseteq Ppns
    /\ content \in [Ppns -> Values \cup {ZERO, FREED}]
    /\ pc \in [Procs -> Labels]
    /\ vpn \in [Procs -> Vpns \cup {NULL}]
    /\ resolved \in [Procs -> Ppns \cup {NULL}]
    /\ child \in [Procs -> Procs \cup {NULL}]
    /\ todo \in [Procs -> SUBSET Vpns]
    /\ old_ppn \in [Procs -> [Vpns -> Ppns \cup {NULL}]]
    /\ left \subseteq Ppns

NoPages == [v \in Vpns |-> NULL]

Init ==
    /\ page_ppn = [p \in Procs |-> NoPages]
    /\ writeable = [p \in Procs |-> {}]
    /\ cow_map_ = [n \in Ppns |-> {}]
    /\ used = {}
    /\ content = [n \in Ppns |-> FREED]
    /\ \E p \in Procs : pc = [q \in Procs |-> IF q = p THEN "user" ELSE "none"]
    /\ vpn = [p \in Procs |-> NULL]
    /\ resolved = [p \in Procs |-> NULL]
    /\ child = [p \in Procs |-> NULL]
    /\ todo = [p \in Procs |-> {}]
    /\ old_ppn = page_ppn
    /\ left = {}

Goto(p, label) == pc' = [pc EXCEPT ![p] = label]

\* The end of a call, whose local variables are gone.
EndCall(p) ==
    /\ vpn' = [vpn EXCEPT ![p] = NULL]
    /\ resolved' = [resolved EXCEPT ![p] = NULL]
    /\ child' = [child EXCEPT ![p] = NULL]
    /\ UNCHANGED todo

Mapped(p) == {v \in Vpns : page_ppn[p][v] # NULL}

-----------------------------------------------------------------------------
(* Accesses in user mode *)

Write(p, v, x) ==
    /\ pc[p] = "user"
    /\ page_ppn[p][v] # NULL /\ v \in writeable[p]
    /\ content' = [content EXCEPT ![page_ppn[p][v]] = x]
    /\ UNCHANGED <<tableVars, cow_map_, used, pc, callVars, execvVars>>

\* PageManager::allocPPN reserves a free page for what x fills it with.  (Out
\* of physical pages the kernel halts.)
AllocPPN(n, x) ==
    /\ n \notin used
    /\ used' = used \cup {n}
    /\ content' = [content EXCEPT ![n] = x]

\* ArchMemory::mapPage.
MapPage(p, v, n) ==
    /\ page_ppn' = [page_ppn EXCEPT ![p][v] = n]
    /\ writeable' = [writeable EXCEPT ![p] = @ \cup {v}]

\* A page that is not present: Loader::loadPage.
Load(p, v) ==
    /\ pc[p] = "user"
    /\ page_ppn[p][v] = NULL
    /\ \E n \in Ppns : AllocPPN(n, ZERO) /\ MapPage(p, v, n)
    /\ UNCHANGED <<cow_map_, pc, callVars, execvVars>>

\* A write to a present page that is not writeable raises a page fault.
Fault(p, v) ==
    /\ pc[p] = "user"
    /\ page_ppn[p][v] # NULL /\ v \notin writeable[p]
    /\ vpn' = [vpn EXCEPT ![p] = v]
    /\ Goto(p, "valid")
    /\ UNCHANGED <<tableVars, cow_map_, memoryVars, resolved, child, todo, execvVars>>

-----------------------------------------------------------------------------
(* The page fault handler *)

\* COWManager::ppnShared.
PpnShared(n) == cow_map_[n] # {}

\* PageFaultHandler::checkPageFaultIsValid: a fault on a present page that is
\* not shared exits the process.
CheckPageFaultIsValid(p) ==
    /\ pc[p] = "valid"
    /\ \/ PpnShared(page_ppn[p][vpn[p]]) /\ Goto(p, "shared") /\ UNCHANGED callVars
       \/ ~PpnShared(page_ppn[p][vpn[p]]) /\ Goto(p, "exit_erase") /\ EndCall(p)
    /\ UNCHANGED <<tableVars, cow_map_, memoryVars, execvVars>>

\* PageFaultHandler::handlePageFault tests it again and calls
\* handleCOWPageFault, which resolves the mapping before it locks.  A page that
\* is no longer shared is found mapped by loadPage, which changes nothing.
\* (A fault on an address that is not mapped is Load, or grows the stack of the
\* thread, which is left out; the error exits of the handler exit the process,
\* as Exit does.)
HandlePageFault(p) ==
    /\ pc[p] = "shared"
    /\ \/ /\ PpnShared(page_ppn[p][vpn[p]])
          /\ resolved' = [resolved EXCEPT ![p] = page_ppn[p][vpn[p]]]
          /\ Goto(p, "handle")
          /\ UNCHANGED <<vpn, child, todo>>
       \/ ~PpnShared(page_ppn[p][vpn[p]]) /\ Goto(p, "user") /\ EndCall(p)
    /\ UNCHANGED <<tableVars, cow_map_, memoryVars, execvVars>>

\* The process is the last of the set: it may write to the page.
\* MUTANT: it gets a copy, like a process that is not the last.
CopyLast(p, n) ==
    /\ \E new \in Ppns :
          AllocPPN(new, content[n]) /\ MapPage(p, vpn[p], new)
    /\ cow_map_' = [cow_map_ EXCEPT ![n] = @ \ {p}]
TakePage(p, n) ==
    /\ writeable' = [writeable EXCEPT ![p] = @ \cup {vpn[p]}]
    /\ cow_map_' = [cow_map_ EXCEPT ![n] = @ \ {p}]
    /\ UNCHANGED <<page_ppn, memoryVars>>

\* Others share the page: the process gets a copy.  If there is one other, its
\* entry for the address becomes writeable and it leaves the set too.  (After
\* an execv the other may map another page there, or none: the bit of an entry
\* that is not present is overwritten when it is mapped.)
LastOther(p, n) == {q \in Procs \ {p} : cow_map_[n] = {p, q}}
CopyPage(p, n) ==
    \E new \in Ppns :
        /\ AllocPPN(new, content[n])
        /\ page_ppn' = [page_ppn EXCEPT ![p][vpn[p]] = new]
        /\ writeable' = [q \in Procs |->
              IF q = p \/ (q \in LastOther(p, n) /\ page_ppn[q][vpn[p]] # NULL)
              THEN writeable[q] \cup {vpn[p]} ELSE writeable[q]]
        /\ cow_map_' = [cow_map_ EXCEPT ![n] = (@ \ {p}) \ LastOther(p, n)]

\* COWManager::handleCOWPageFault under cow_map_lock_, with its assertion.
HandleCOWPageFault(p) ==
    /\ pc[p] = "handle"
    /\ LET n == resolved[p] IN
          /\ p \in cow_map_[n]
          /\ \/ cow_map_[n] = {p} /\ TakePage(p, n)
             \/ cow_map_[n] # {p} /\ CopyPage(p, n)
    /\ Goto(p, "user")
    /\ EndCall(p)
    /\ UNCHANGED execvVars

-----------------------------------------------------------------------------
(* fork: ArchMemory::copyPagesToNewArchMemCOW *)

Fork(p, c) ==
    /\ pc[p] = "user" /\ pc[c] = "none"
    /\ child' = [child EXCEPT ![p] = c]
    /\ todo' = [todo EXCEPT ![p] = Mapped(p)]
    /\ pc' = [pc EXCEPT ![p] = "fork", ![c] = "born"]
    /\ UNCHANGED <<tableVars, cow_map_, memoryVars, vpn, resolved, execvVars>>

\* copyPageHierarchy maps the page of the parent into the child, read-only.
ForkMap(p) ==
    /\ pc[p] = "fork"
    /\ \E v \in todo[p] :
          /\ vpn' = [vpn EXCEPT ![p] = v]
          /\ page_ppn' = [page_ppn EXCEPT ![child[p]][v] = page_ppn[p][v]]
          /\ todo' = [todo EXCEPT ![p] = @ \ {v}]
    /\ Goto(p, "fork_ro")
    /\ UNCHANGED <<writeable, cow_map_, memoryVars, resolved, child, execvVars>>

\* The page becomes read-only in the parent.
MakeReadOnly(p) == [writeable EXCEPT ![p] = @ \ {vpn[p]}]
ForkReadOnly(p) ==
    /\ pc[p] = "fork_ro"
    /\ writeable' = MakeReadOnly(p)
    /\ Goto(p, "fork_add")
    /\ UNCHANGED <<page_ppn, cow_map_, memoryVars, callVars, execvVars>>

\* COWManager::addToCOWMap.
AddBoth(p) == {p, child[p]}
ForkAdd(p) ==
    /\ pc[p] = "fork_add"
    /\ cow_map_' = [cow_map_ EXCEPT ![page_ppn[p][vpn[p]]] = @ \cup AddBoth(p)]
    /\ Goto(p, "fork")
    /\ UNCHANGED <<tableVars, memoryVars, callVars, execvVars>>

ForkDone(p) ==
    /\ pc[p] = "fork"
    /\ todo[p] = {}
    /\ pc' = [pc EXCEPT ![p] = "user", ![child[p]] = "user"]
    /\ EndCall(p)
    /\ UNCHANGED <<tableVars, cow_map_, memoryVars, execvVars>>

-----------------------------------------------------------------------------
(* exit: UserProcess::~UserProcess *)

Exit(p) ==
    /\ pc[p] = "user"
    /\ Goto(p, "exit_erase")
    /\ UNCHANGED <<tableVars, cow_map_, memoryVars, callVars, execvVars>>

\* COWManager::eraseProcessFromCOWMap.  The cleanup thread deletes one process
\* at a time.
\* MUTANT: it looks for the process in the sets of the pages it maps.
EraseFromMapped(p) ==
    [n \in Ppns |-> cow_map_[n] \ {q \in {p} : \E v \in Vpns : page_ppn[q][v] = n}]
EraseFromSets(p) == [n \in Ppns |-> cow_map_[n] \ {p}]
EraseProcessFromCOWMap(p) ==
    /\ pc[p] = "exit_erase"
    /\ \A q \in Procs : pc[q] # "exit_free"
    /\ cow_map_' = EraseFromSets(p)
    /\ todo' = [todo EXCEPT ![p] = Mapped(p)]
    /\ Goto(p, "exit_free")
    /\ UNCHANGED <<tableVars, memoryVars, vpn, resolved, child, execvVars>>

\* PageManager::freePPN keeps a page that is shared.
KeepPPN(n) == PpnShared(n)
FreePPN(n) ==
    \/ KeepPPN(n) /\ UNCHANGED memoryVars
    \/ /\ ~KeepPPN(n) /\ n \in used
       /\ used' = used \ {n}
       /\ content' = [content EXCEPT ![n] = FREED]

\* One page of ArchMemory::~ArchMemory; freePPN asserts that it is used.
FreePage(p) ==
    /\ pc[p] = "exit_free"
    /\ \E v \in todo[p] :
          /\ FreePPN(page_ppn[p][v])
          /\ page_ppn' = [page_ppn EXCEPT ![p][v] = NULL]
          /\ writeable' = [writeable EXCEPT ![p] = @ \ {v}]
          /\ todo' = [todo EXCEPT ![p] = @ \ {v}]
    /\ left' = left \ (used \ used')
    /\ UNCHANGED <<cow_map_, pc, vpn, resolved, child, old_ppn>>

ExitDone(p) ==
    /\ pc[p] = "exit_free"
    /\ todo[p] = {}
    /\ Goto(p, "none")
    /\ UNCHANGED <<tableVars, cow_map_, memoryVars, callVars, execvVars>>

-----------------------------------------------------------------------------
(* execv: UserProcess::restructureProcessForExecv *)

\* The process gets a new loader, with an empty memory, and deletes the old
\* one.  It stays in the sets of cow_map_.  (The page of the arguments and the
\* first page of the stack, both new, are left out.)
SwapLoader(p) ==
    /\ page_ppn' = [page_ppn EXCEPT ![p] = NoPages]
    /\ writeable' = [writeable EXCEPT ![p] = {}]
Execv(p) ==
    /\ pc[p] = "user"
    /\ SwapLoader(p)
    /\ old_ppn' = [old_ppn EXCEPT ![p] = page_ppn[p]]
    /\ todo' = [todo EXCEPT ![p] = Mapped(p)]
    /\ Goto(p, "execv_free")
    /\ UNCHANGED <<cow_map_, memoryVars, vpn, resolved, child, left>>

\* One page of ArchMemory::~ArchMemory of the old loader.
ExecvFreePage(p) ==
    /\ pc[p] = "execv_free"
    /\ \E v \in todo[p] :
          /\ FreePPN(old_ppn[p][v])
          /\ old_ppn' = [old_ppn EXCEPT ![p][v] = NULL]
          /\ left' = (left \cup {old_ppn[p][v]}) \ (used \ used')
          /\ todo' = [todo EXCEPT ![p] = @ \ {v}]
    /\ UNCHANGED <<tableVars, cow_map_, pc, vpn, resolved, child>>

ExecvDone(p) ==
    /\ pc[p] = "execv_free"
    /\ todo[p] = {}
    /\ Goto(p, "user")
    /\ UNCHANGED <<tableVars, cow_map_, memoryVars, callVars, execvVars>>

-----------------------------------------------------------------------------
(* The specification *)

UserStep(p) ==
    \/ \E v \in Vpns : Load(p, v) \/ Fault(p, v) \/ \E x \in Values : Write(p, v, x)
    \/ \E c \in Procs : Fork(p, c)
    \/ Exit(p) \/ Execv(p)

KernelStep(p) ==
    \/ CheckPageFaultIsValid(p) \/ HandlePageFault(p) \/ HandleCOWPageFault(p)
    \/ ForkMap(p) \/ ForkReadOnly(p) \/ ForkAdd(p) \/ ForkDone(p)
    \/ EraseProcessFromCOWMap(p) \/ FreePage(p) \/ ExitDone(p)
    \/ ExecvFreePage(p) \/ ExecvDone(p)

Next == \E p \in Procs : UserStep(p) \/ KernelStep(p)

Spec == Init /\ [][Next]_vars

-----------------------------------------------------------------------------
(* Properties *)

\* handleCOWPageFault finds the process in the set of the page ("The current
\* process is not in the set of processes that share the ppn",
\* COWManager.cpp:79).
FaultingProcessShares ==
    \A p \in Procs : pc[p] = "handle" => p \in cow_map_[resolved[p]]

\* A process in a set of cow_map_ has not begun to delete its page table.
\* handleCOWPageFault sets a bit in the page table of the other sharer
\* (COWManager.cpp:125), so no set may outlive a process, not even the set of a
\* page that the process gave up by an execv or a copy.
SharersAlive ==
    \A n \in Ppns : \A p \in cow_map_[n] : pc[p] \notin {"none", "exit_free"}

\* Nobody writes to a free page ("Page modified after free",
\* PageManager.cpp:228).
FreePagesUntouched == \A n \in Ppns \ used : content[n] = FREED

\* The page is mapped by somebody, or an execv is about to free it.
InSomeTable(n) == \E p \in Procs, v \in Vpns : n \in {page_ppn[p][v], old_ppn[p][v]}

\* The last process that shares a page frees it, whatever overlaps.  The only
\* pages that nobody maps and nobody will free are those that an execv did not
\* free because they were shared: the process stays in their sets, so that the
\* last sharer keeps them too.
OnlyExecvLeaks == \A n \in used : InSomeTable(n) \/ n \in left
=============================================================================
