------------------------- MODULE CopyOnWriteProofs -------------------------
(***************************************************************************)
(* Copy on write for any number of processes and pages, however their      *)
(* faults, forks, exits and execvs overlap.                                *)
(***************************************************************************)
EXTENDS CopyOnWrite, TLAPS

ForkLabels == {"fork", "fork_ro", "fork_add"}
FaultLabels == {"valid", "shared", "handle"}

\* A process that forks has a child, which is nobody else's, and has given it
\* the pages that it has visited.
ForkInv ==
    /\ \A p \in Procs : pc[p] \in ForkLabels =>
          /\ child[p] \in Procs /\ pc[child[p]] = "born"
          /\ \A v \in todo[p] : page_ppn[p][v] # NULL
          /\ \A v \in Vpns : page_ppn[child[p]][v] = IF v \in todo[p] THEN NULL ELSE page_ppn[p][v]
    /\ \A p, q \in Procs :
          pc[p] \in ForkLabels /\ pc[q] \in ForkLabels /\ child[p] = child[q] => p = q
    /\ \A p \in Procs : pc[p] \in {"fork_ro", "fork_add"} =>
          vpn[p] \in Vpns /\ vpn[p] \notin todo[p] /\ page_ppn[p][vpn[p]] # NULL

\* A page fault is about a page that the process has.
FaultInv ==
    \A p \in Procs :
        /\ pc[p] \in FaultLabels => vpn[p] \in Vpns /\ page_ppn[p][vpn[p]] # NULL
        /\ pc[p] = "handle" => resolved[p] = page_ppn[p][vpn[p]]

\* A process that is gone has no pages and shares none, and one that goes has
\* those that it has still to visit.
ExitInv ==
    \A p \in Procs :
        /\ pc[p] = "none" => \A v \in Vpns : page_ppn[p][v] = NULL
        /\ pc[p] = "exit_free" => todo[p] = Mapped(p)
        /\ pc[p] \in {"none", "exit_free"} => \A n \in Ppns : p \notin cow_map_[n]

\* The old page table is there while execv visits it, and only then.
ExecvInv ==
    \A p \in Procs :
        /\ pc[p] # "execv_free" => \A v \in Vpns : old_ppn[p][v] = NULL
        /\ pc[p] = "execv_free" =>
              /\ \A v \in Vpns : page_ppn[p][v] = NULL
              /\ todo[p] = {v \in Vpns : old_ppn[p][v] # NULL}

\* A process in the set of a page has the page, or had it before an execv.
SetsInv ==
    \A n \in Ppns : \A p \in cow_map_[n] :
        n \in left \/ \E v \in Vpns : n \in {page_ppn[p][v], old_ppn[p][v]}

BaseInv == TypeOK /\ ForkInv /\ FaultInv /\ ExitInv /\ ExecvInv /\ SetsInv /\ OnlyExecvLeaks

-----------------------------------------------------------------------------
(* The steps *)

\* At the start nothing is mapped or shared.
LEMMA InitBase == Init => BaseInv
<1> SUFFICES ASSUME Init PROVE BaseInv
  OBVIOUS
<1>1. TypeOK
  BY DEF Init, TypeOK, Labels, NoPages
<1>2. ForkInv /\ FaultInv
  BY DEF Init, ForkInv, FaultInv, ForkLabels, FaultLabels
<1>3. ExitInv /\ ExecvInv
  BY DEF Init, ExitInv, ExecvInv, NoPages
<1>4. SetsInv /\ OnlyExecvLeaks
  BY DEF Init, SetsInv, OnlyExecvLeaks
<1>5. QED
  BY <1>1, <1>2, <1>3, <1>4 DEF BaseInv

\* A step of p that changes no table and no set: it may only go on to a label
\* that asks nothing of them, or where it has what the label asks.
LEMMA QuietBase ==
  ASSUME BaseInv, NEW p \in Procs, NEW l \in Labels, pc' = [pc EXCEPT ![p] = l],
         l \in {"user", "exit_erase", "valid", "shared", "handle"},
         pc[p] \in {"user", "valid", "shared", "handle"} \/ (pc[p] = "execv_free" /\ todo[p] = {}),
         vpn' \in [Procs -> Vpns \cup {NULL}], \A q \in Procs \ {p} : vpn'[q] = vpn[q],
         resolved' \in [Procs -> Ppns \cup {NULL}],
         \A q \in Procs \ {p} : resolved'[q] = resolved[q],
         child' \in [Procs -> Procs \cup {NULL}], \A q \in Procs \ {p} : child'[q] = child[q],
         l \in FaultLabels => vpn'[p] \in Vpns /\ page_ppn[p][vpn'[p]] # NULL,
         l = "handle" => resolved'[p] = page_ppn[p][vpn'[p]],
         UNCHANGED <<tableVars, cow_map_, memoryVars, todo, execvVars>>
  PROVE  BaseInv'
<1> USE DEF BaseInv, tableVars, memoryVars, execvVars
<1>1. TypeOK'
  BY DEF TypeOK
<1>2. ForkInv'
  BY DEF TypeOK, ForkInv, ForkLabels
<1>3. FaultInv'
  BY DEF TypeOK, FaultInv, FaultLabels
<1>4. ExitInv'
  BY DEF TypeOK, ExitInv, Mapped
<1>5. ExecvInv'
  BY DEF TypeOK, ExecvInv
<1>6. SetsInv' /\ OnlyExecvLeaks'
  BY DEF SetsInv, OnlyExecvLeaks, InSomeTable
<1>7. QED
  BY <1>1, <1>2, <1>3, <1>4, <1>5, <1>6

\* A write changes what a page holds.
LEMMA WriteBase ==
  ASSUME BaseInv, NEW p \in Procs, NEW v \in Vpns, NEW x \in Values, Write(p, v, x)
  PROVE  BaseInv'
<1> USE DEF BaseInv, Write, tableVars, callVars, execvVars
<1>1. TypeOK'
  BY DEF TypeOK
<1>2. ForkInv' /\ FaultInv' /\ ExitInv' /\ ExecvInv' /\ SetsInv' /\ OnlyExecvLeaks'
  BY DEF ForkInv, FaultInv, ExitInv, Mapped, ExecvInv, SetsInv, OnlyExecvLeaks, InSomeTable
<1>3. QED
  BY <1>1, <1>2

\* A page is loaded where there was none.
LEMMA LoadBase ==
  ASSUME BaseInv, NEW p \in Procs, NEW v \in Vpns, Load(p, v)
  PROVE  BaseInv'
<1> USE DEF BaseInv
<1>1. PICK n \in Ppns : AllocPPN(n, ZERO) /\ MapPage(p, v, n)
  BY DEF Load
<1>2. /\ pc[p] = "user" /\ page_ppn[p][v] = NULL /\ n # NULL
      /\ page_ppn' = [page_ppn EXCEPT ![p][v] = n]
      /\ writeable' = [writeable EXCEPT ![p] = @ \cup {v}]
      /\ used' = used \cup {n} /\ content' = [content EXCEPT ![n] = ZERO]
      /\ UNCHANGED <<cow_map_, pc, vpn, resolved, child, todo, old_ppn, left>>
  BY <1>1, MemoryAssumption DEF Load, AllocPPN, MapPage, callVars, execvVars
<1>3. \A q \in Procs, w \in Vpns :
         page_ppn'[q][w] = IF q = p /\ w = v THEN n ELSE page_ppn[q][w]
  BY <1>2 DEF TypeOK
<1>4. TypeOK'
  BY <1>2 DEF TypeOK
<1>5. ForkInv'
  BY <1>2, <1>3 DEF TypeOK, ForkInv, ForkLabels
<1>6. FaultInv'
  BY <1>2, <1>3 DEF TypeOK, FaultInv, FaultLabels
<1>7. ExitInv' /\ ExecvInv'
  BY <1>2, <1>3 DEF TypeOK, ExitInv, Mapped, ExecvInv
<1>8. \A m \in Ppns, q \in Procs, w \in Vpns : page_ppn[q][w] = m => page_ppn'[q][w] = m
  BY <1>2, <1>3, MemoryAssumption
<1>9. SetsInv'
  BY <1>2, <1>8 DEF TypeOK, SetsInv
<1>10. InSomeTable(n)'
  BY <1>3 DEF InSomeTable
<1>11. OnlyExecvLeaks'
  BY <1>2, <1>8, <1>10 DEF TypeOK, OnlyExecvLeaks, InSomeTable
<1>12. QED
  BY <1>4, <1>5, <1>6, <1>7, <1>9, <1>11

\* The page fault handler up to the lock of the sets.
LEMMA FaultBase ==
  ASSUME BaseInv, NEW p \in Procs,
         (\E v \in Vpns : Fault(p, v)) \/ CheckPageFaultIsValid(p) \/ HandlePageFault(p)
  PROVE  BaseInv'
<1> USE DEF Goto, EndCall, callVars
<1>1. ASSUME NEW v \in Vpns, Fault(p, v)
      PROVE  BaseInv'
  BY <1>1, QuietBase DEF Fault, Labels, FaultLabels, BaseInv, TypeOK
<1>2. CASE CheckPageFaultIsValid(p)
  <2>1. vpn[p] \in Vpns /\ page_ppn[p][vpn[p]] # NULL
    BY <1>2 DEF CheckPageFaultIsValid, BaseInv, FaultInv, FaultLabels
  <2>2. CASE Goto(p, "shared") /\ UNCHANGED callVars
    BY <1>2, <2>1, <2>2, QuietBase DEF CheckPageFaultIsValid, Labels, FaultLabels, BaseInv, TypeOK
  <2>3. CASE Goto(p, "exit_erase") /\ EndCall(p)
    BY <1>2, <2>3, QuietBase DEF CheckPageFaultIsValid, Labels, FaultLabels, BaseInv, TypeOK
  <2>4. QED
    BY <1>2, <2>2, <2>3 DEF CheckPageFaultIsValid
<1>3. CASE HandlePageFault(p)
  <2>1. vpn[p] \in Vpns /\ page_ppn[p][vpn[p]] # NULL
    BY <1>3 DEF HandlePageFault, BaseInv, FaultInv, FaultLabels
  <2>2. CASE /\ resolved' = [resolved EXCEPT ![p] = page_ppn[p][vpn[p]]]
             /\ Goto(p, "handle") /\ UNCHANGED <<vpn, child, todo>>
    <3>1. page_ppn[p][vpn[p]] \in Ppns
      BY <2>1 DEF BaseInv, TypeOK
    <3>2. QED
      BY <1>3, <2>1, <2>2, <3>1, QuietBase DEF HandlePageFault, Labels, FaultLabels, BaseInv, TypeOK
  <2>3. CASE Goto(p, "user") /\ EndCall(p)
    BY <1>3, <2>3, QuietBase DEF HandlePageFault, Labels, FaultLabels, BaseInv, TypeOK
  <2>4. QED
    BY <1>3, <2>2, <2>3 DEF HandlePageFault
<1>4. QED
  BY <1>1, <1>2, <1>3

\* The process takes the page or a copy of it.  It gives up the page only if
\* another process is in the set.
LEMMA HandleBase ==
  ASSUME BaseInv, NEW p \in Procs, HandleCOWPageFault(p)
  PROVE  BaseInv'
<1> USE DEF BaseInv
<1>0. PICK n \in Ppns, v \in Vpns : n = resolved[p] /\ v = vpn[p]
  BY DEF HandleCOWPageFault, FaultInv, FaultLabels, TypeOK
<1>1. /\ n = page_ppn[p][v] /\ p \in cow_map_[n]
      /\ pc[p] = "handle" /\ pc' = [pc EXCEPT ![p] = "user"]
      /\ vpn' = [vpn EXCEPT ![p] = NULL] /\ resolved' = [resolved EXCEPT ![p] = NULL]
      /\ child' = [child EXCEPT ![p] = NULL]
      /\ UNCHANGED <<todo, old_ppn, left>>
  BY <1>0 DEF HandleCOWPageFault, Goto, EndCall, execvVars, FaultInv, FaultLabels, TypeOK
<1>2. CASE TakePage(p, n)
  <2>1. /\ writeable' = [writeable EXCEPT ![p] = @ \cup {v}]
        /\ cow_map_' = [cow_map_ EXCEPT ![n] = @ \ {p}]
        /\ UNCHANGED <<page_ppn, used, content>>
    BY <1>0, <1>2 DEF TakePage, memoryVars
  <2>2. TypeOK'
    BY <1>1, <2>1 DEF TypeOK, Labels
  <2>3. ForkInv' /\ FaultInv'
    BY <1>1, <2>1 DEF TypeOK, ForkInv, FaultInv, ForkLabels, FaultLabels
  <2>4. ExitInv' /\ ExecvInv'
    BY <1>1, <2>1 DEF TypeOK, ExitInv, ExecvInv, Mapped
  <2>5. SetsInv'
    BY <1>1, <2>1 DEF TypeOK, SetsInv
  <2>6. OnlyExecvLeaks'
    BY <1>1, <2>1 DEF OnlyExecvLeaks, InSomeTable
  <2>7. QED
    BY <2>2, <2>3, <2>4, <2>5, <2>6
<1>3. CASE cow_map_[n] # {p} /\ CopyPage(p, n)
  <2>1. PICK new \in Ppns :
          /\ AllocPPN(new, content[n])
          /\ page_ppn' = [page_ppn EXCEPT ![p][v] = new]
          /\ writeable' = [q \in Procs |->
                IF q = p \/ (q \in LastOther(p, n) /\ page_ppn[q][v] # NULL)
                THEN writeable[q] \cup {v} ELSE writeable[q]]
          /\ cow_map_' = [cow_map_ EXCEPT ![n] = (@ \ {p}) \ LastOther(p, n)]
    BY <1>0, <1>3 DEF CopyPage
  <2>2. used' = used \cup {new} /\ content' = [content EXCEPT ![new] = content[n]] /\ new # NULL
    BY <2>1, MemoryAssumption DEF AllocPPN
  <2>3. \A q \in Procs, w \in Vpns :
           page_ppn'[q][w] = IF q = p /\ w = v THEN new ELSE page_ppn[q][w]
    BY <1>1, <2>1 DEF TypeOK
  <2>4. TypeOK'
    BY <1>1, <2>1, <2>2 DEF TypeOK, Labels
  <2>5. ForkInv'
    BY <1>1, <2>3 DEF TypeOK, ForkInv, ForkLabels
  <2>6. FaultInv'
    BY <1>1, <2>3 DEF TypeOK, FaultInv, FaultLabels
  <2>7. \A m \in Ppns : cow_map_'[m] \subseteq cow_map_[m] /\ p \notin cow_map_'[n]
    BY <1>1, <2>1 DEF TypeOK
  <2>8. ExitInv' /\ ExecvInv'
    BY <1>1, <2>3, <2>7 DEF TypeOK, ExitInv, ExecvInv, Mapped
  <2>9. SetsInv'
    <3>1. ASSUME NEW m \in Ppns, NEW q \in cow_map_'[m]
          PROVE  m \in left' \/ \E w \in Vpns : m \in {page_ppn'[q][w], old_ppn'[q][w]}
      <4>1. q \in cow_map_[m] /\ q \in Procs /\ (q # p \/ m # n)
        BY <2>7, <3>1 DEF TypeOK
      <4>2. \A w \in Vpns : page_ppn[q][w] = m => page_ppn'[q][w] = m
        BY <1>1, <2>3, <4>1
      <4>3. QED
        BY <1>1, <4>1, <4>2 DEF SetsInv
    <3>2. QED
      BY <3>1 DEF SetsInv
  <2>10. OnlyExecvLeaks'
    <3>1. InSomeTable(new)'
      BY <1>1, <2>3 DEF InSomeTable
    <3>2. InSomeTable(n)' \/ n \in left'
      <4>1. PICK q \in cow_map_[n] : q # p
        BY <1>1, <1>3
      <4>2. q \in Procs /\ \A w \in Vpns : page_ppn'[q][w] = page_ppn[q][w]
        BY <1>1, <2>3, <4>1 DEF TypeOK
      <4>3. QED
        BY <1>1, <4>1, <4>2 DEF SetsInv, InSomeTable
    <3>3. ASSUME NEW m \in used, m # n PROVE InSomeTable(m)' \/ m \in left'
      <4>1. left' = left /\ old_ppn' = old_ppn
        BY <1>1
      <4>2. CASE m \notin left
        <5>1. PICK q \in Procs, w \in Vpns : m \in {page_ppn[q][w], old_ppn[q][w]}
          BY <4>2 DEF OnlyExecvLeaks, InSomeTable
        <5>2. page_ppn[q][w] = m => page_ppn'[q][w] = m
          BY <1>1, <2>3, <3>3, <5>1
        <5>3. QED
          BY <4>1, <5>1, <5>2 DEF InSomeTable
      <4>3. QED
        BY <4>1, <4>2
    <3>4. QED
      BY <2>2, <3>1, <3>2, <3>3 DEF OnlyExecvLeaks
  <2>11. QED
    BY <2>4, <2>5, <2>6, <2>8, <2>9, <2>10
<1>4. QED
  BY <1>0, <1>2, <1>3 DEF HandleCOWPageFault

\* A process that was none becomes the child.
LEMMA ForkBase ==
  ASSUME BaseInv, NEW p \in Procs, NEW c \in Procs, Fork(p, c)
  PROVE  BaseInv'
<1> USE DEF BaseInv
<1>1. /\ pc[p] = "user" /\ pc[c] = "none" /\ p # c
      /\ child' = [child EXCEPT ![p] = c] /\ todo' = [todo EXCEPT ![p] = Mapped(p)]
      /\ pc' = [pc EXCEPT ![p] = "fork", ![c] = "born"]
      /\ UNCHANGED <<page_ppn, writeable, cow_map_, used, content, vpn, resolved, old_ppn, left>>
  BY DEF Fork, tableVars, memoryVars, execvVars
<1>2. Mapped(p) \subseteq Vpns /\ \A v \in Vpns : v \in Mapped(p) <=> page_ppn[p][v] # NULL
  BY DEF Mapped
<1>3. TypeOK'
  BY <1>1, <1>2 DEF TypeOK, Labels
<1>4. \A v \in Vpns : page_ppn[c][v] = NULL
  BY <1>1 DEF ExitInv
<1>5. ForkInv'
  BY <1>1, <1>2, <1>4 DEF TypeOK, ForkInv, ForkLabels
<1>6. FaultInv'
  BY <1>1 DEF TypeOK, FaultInv, FaultLabels
<1>7. ExitInv'
  BY <1>1 DEF TypeOK, ExitInv, Mapped
<1>8. ExecvInv'
  BY <1>1 DEF TypeOK, ExecvInv
<1>9. SetsInv' /\ OnlyExecvLeaks'
  BY <1>1 DEF SetsInv, OnlyExecvLeaks, InSomeTable
<1>10. QED
  BY <1>3, <1>5, <1>6, <1>7, <1>8, <1>9

\* The child gets a page where it had none.
LEMMA ForkMapBase ==
  ASSUME BaseInv, NEW p \in Procs, ForkMap(p)
  PROVE  BaseInv'
<1> USE DEF BaseInv
<1>1. PICK v \in todo[p], c \in Procs :
         /\ c = child[p] /\ pc[p] = "fork" /\ pc[c] = "born"
         /\ vpn' = [vpn EXCEPT ![p] = v]
         /\ page_ppn' = [page_ppn EXCEPT ![c][v] = page_ppn[p][v]]
         /\ todo' = [todo EXCEPT ![p] = @ \ {v}]
         /\ pc' = [pc EXCEPT ![p] = "fork_ro"]
         /\ UNCHANGED <<writeable, cow_map_, used, content, resolved, child, old_ppn, left>>
  BY DEF ForkMap, Goto, memoryVars, execvVars, ForkInv, ForkLabels
<1>2. p # c /\ v \in Vpns /\ page_ppn[p][v] \in Ppns /\ page_ppn[c][v] = NULL
  BY <1>1 DEF TypeOK, ForkInv, ForkLabels
<1>3. \A q \in Procs, w \in Vpns :
         page_ppn'[q][w] = IF q = c /\ w = v THEN page_ppn[p][v] ELSE page_ppn[q][w]
  BY <1>1, <1>2 DEF TypeOK
<1>4. TypeOK'
  BY <1>1, <1>2 DEF TypeOK, Labels
<1>5. ForkInv'
  <2>1. \A q \in Procs : q # p /\ pc[q] \in ForkLabels => child[q] # c
    BY <1>1 DEF ForkInv, ForkLabels
  <2>2. \A q \in Procs : pc'[q] \in ForkLabels => pc[q] \in ForkLabels /\ q # c
    BY <1>1 DEF TypeOK, ForkLabels
  <2>3. ASSUME NEW q \in Procs, pc'[q] \in ForkLabels
        PROVE  /\ child'[q] \in Procs /\ pc'[child'[q]] = "born"
               /\ \A w \in todo'[q] : page_ppn'[q][w] # NULL
               /\ \A w \in Vpns : page_ppn'[child'[q]][w] =
                     IF w \in todo'[q] THEN NULL ELSE page_ppn'[q][w]
    <3>1. /\ child[q] \in Procs /\ pc[child[q]] = "born"
          /\ \A w \in todo[q] : page_ppn[q][w] # NULL
          /\ \A w \in Vpns : page_ppn[child[q]][w] = IF w \in todo[q] THEN NULL ELSE page_ppn[q][w]
      BY <2>2, <2>3 DEF ForkInv
    <3>2. child'[q] \in Procs /\ pc'[child'[q]] = "born"
      BY <1>1, <3>1 DEF TypeOK
    <3>3. todo'[q] \subseteq todo[q] /\ todo[q] \subseteq Vpns /\ (q # p => todo'[q] = todo[q])
      BY <1>1 DEF TypeOK
    <3>4. \A w \in Vpns : page_ppn'[q][w] = page_ppn[q][w]
      BY <1>3, <2>2, <2>3
    <3>5. CASE q = p
      BY <1>1, <1>2, <1>3, <3>1, <3>2, <3>3, <3>4, <3>5 DEF TypeOK
    <3>6. CASE q # p
      BY <1>1, <1>3, <2>1, <2>2, <2>3, <3>1, <3>2, <3>3, <3>4, <3>6
    <3>7. QED
      BY <3>5, <3>6
  <2>4. \A q, r \in Procs :
           pc'[q] \in ForkLabels /\ pc'[r] \in ForkLabels /\ child'[q] = child'[r] => q = r
    BY <1>1, <2>2 DEF ForkInv
  <2>5. \A q \in Procs : pc'[q] \in {"fork_ro", "fork_add"} =>
           vpn'[q] \in Vpns /\ vpn'[q] \notin todo'[q] /\ page_ppn'[q][vpn'[q]] # NULL
    BY <1>1, <1>2, <1>3, MemoryAssumption DEF TypeOK, ForkInv
  <2>6. QED
    BY <2>3, <2>4, <2>5 DEF ForkInv
<1>6. FaultInv'
  BY <1>1, <1>3 DEF TypeOK, FaultInv, FaultLabels
<1>7. ExitInv' /\ ExecvInv'
  BY <1>1, <1>3 DEF TypeOK, ExitInv, Mapped, ExecvInv
<1>8. \A m \in Ppns, q \in Procs, w \in Vpns : page_ppn[q][w] = m => page_ppn'[q][w] = m
  BY <1>2, <1>3, MemoryAssumption
<1>9. SetsInv'
  BY <1>1, <1>8 DEF TypeOK, SetsInv
<1>10. OnlyExecvLeaks'
  BY <1>1, <1>8 DEF TypeOK, OnlyExecvLeaks, InSomeTable
<1>11. QED
  BY <1>4, <1>5, <1>6, <1>7, <1>9, <1>10

\* The parent loses the right to write, then both are put into the set.
LEMMA ForkReadOnlyBase ==
  ASSUME BaseInv, NEW p \in Procs, ForkReadOnly(p)
  PROVE  BaseInv'
<1> USE DEF BaseInv
<1>1. /\ pc[p] = "fork_ro" /\ pc' = [pc EXCEPT ![p] = "fork_add"]
      /\ writeable' = [writeable EXCEPT ![p] = @ \ {vpn[p]}]
      /\ UNCHANGED <<page_ppn, cow_map_, used, content, vpn, resolved, child, todo, old_ppn, left>>
  BY DEF ForkReadOnly, MakeReadOnly, Goto, memoryVars, callVars, execvVars
<1>2. TypeOK'
  BY <1>1 DEF TypeOK, Labels
<1>3. ForkInv' /\ FaultInv'
  BY <1>1 DEF TypeOK, ForkInv, FaultInv, ForkLabels, FaultLabels
<1>4. ExitInv' /\ ExecvInv'
  BY <1>1 DEF TypeOK, ExitInv, Mapped, ExecvInv
<1>5. SetsInv' /\ OnlyExecvLeaks'
  BY <1>1 DEF SetsInv, OnlyExecvLeaks, InSomeTable
<1>6. QED
  BY <1>2, <1>3, <1>4, <1>5

\* addToCOWMap puts both processes into the set of a page both map.
LEMMA ForkAddBase ==
  ASSUME BaseInv, NEW p \in Procs, ForkAdd(p)
  PROVE  BaseInv'
<1> USE DEF BaseInv
<1>1. PICK n \in Ppns, v \in Vpns, c \in Procs :
         /\ v = vpn[p] /\ n = page_ppn[p][v] /\ c = child[p] /\ n = page_ppn[c][v]
         /\ pc[p] = "fork_add" /\ pc[c] = "born"
  BY DEF ForkAdd, TypeOK, ForkInv, ForkLabels
<1>2. /\ cow_map_' = [cow_map_ EXCEPT ![n] = @ \cup {p, c}]
      /\ pc' = [pc EXCEPT ![p] = "fork"]
      /\ UNCHANGED <<page_ppn, writeable, used, content, vpn, resolved, child, todo, old_ppn, left>>
  BY <1>1 DEF ForkAdd, AddBoth, Goto, tableVars, memoryVars, callVars, execvVars
<1>3. TypeOK'
  BY <1>1, <1>2 DEF TypeOK, Labels
<1>4. ForkInv' /\ FaultInv'
  BY <1>1, <1>2 DEF TypeOK, ForkInv, FaultInv, ForkLabels, FaultLabels
<1>5. ExitInv' /\ ExecvInv'
  BY <1>1, <1>2 DEF TypeOK, ExitInv, Mapped, ExecvInv
<1>6. SetsInv'
  <2>1. ASSUME NEW m \in Ppns, NEW q \in cow_map_'[m]
        PROVE  m \in left' \/ \E w \in Vpns : m \in {page_ppn'[q][w], old_ppn'[q][w]}
    <3>1. q \in cow_map_[m] \/ (m = n /\ q \in {p, c})
      BY <1>2, <2>1 DEF TypeOK
    <3>2. CASE q \in cow_map_[m]
      BY <1>2, <3>2 DEF SetsInv
    <3>3. CASE m = n /\ q \in {p, c}
      BY <1>1, <1>2, <3>3
    <3>4. QED
      BY <3>1, <3>2, <3>3
  <2>2. QED
    BY <2>1 DEF SetsInv
<1>7. OnlyExecvLeaks'
  BY <1>1, <1>2 DEF OnlyExecvLeaks, InSomeTable
<1>8. QED
  BY <1>3, <1>4, <1>5, <1>6, <1>7

\* The child starts with its page table complete.
LEMMA ForkDoneBase ==
  ASSUME BaseInv, NEW p \in Procs, ForkDone(p)
  PROVE  BaseInv'
<1> USE DEF BaseInv
<1>1. PICK c \in Procs :
         /\ c = child[p] /\ pc[p] = "fork" /\ pc[c] = "born"
         /\ pc' = [pc EXCEPT ![p] = "user", ![c] = "user"]
         /\ vpn' = [vpn EXCEPT ![p] = NULL] /\ resolved' = [resolved EXCEPT ![p] = NULL]
         /\ child' = [child EXCEPT ![p] = NULL]
         /\ UNCHANGED <<page_ppn, writeable, cow_map_, used, content, todo, old_ppn, left>>
  BY DEF ForkDone, EndCall, tableVars, memoryVars, execvVars, ForkInv, ForkLabels
<1>2. TypeOK'
  BY <1>1 DEF TypeOK, Labels
<1>3. ForkInv'
  <2>1. \A q \in Procs : pc'[q] \in ForkLabels => pc[q] \in ForkLabels /\ q # p /\ q # c /\ child[q] # c
    BY <1>1 DEF TypeOK, ForkInv, ForkLabels
  <2>2. QED
    BY <1>1, <2>1 DEF TypeOK, ForkInv, ForkLabels
<1>4. FaultInv'
  BY <1>1 DEF TypeOK, FaultInv, FaultLabels
<1>5. ExitInv' /\ ExecvInv'
  <2>1. \A q \in Procs : IF q \in {p, c} THEN /\ pc'[q] = "user"
                                              /\ pc[q] \notin {"none", "exit_free", "execv_free"}
                         ELSE pc'[q] = pc[q]
    BY <1>1 DEF TypeOK
  <2>2. ExitInv'
    BY <1>1, <2>1 DEF ExitInv, Mapped
  <2>3. ExecvInv'
    <3>1. UNCHANGED <<page_ppn, todo, old_ppn>>
      BY <1>1
    <3>2. ASSUME NEW q \in Procs
          PROVE  pc'[q] = "execv_free" <=> pc[q] = "execv_free"
      BY <2>1
    <3>3. QED
      BY <3>1, <3>2 DEF ExecvInv
  <2>4. QED
    BY <2>2, <2>3
<1>6. SetsInv' /\ OnlyExecvLeaks'
  BY <1>1 DEF SetsInv, OnlyExecvLeaks, InSomeTable
<1>7. QED
  BY <1>2, <1>3, <1>4, <1>5, <1>6

\* A process that goes leaves the sets, then gives up its pages.
LEMMA EraseBase ==
  ASSUME BaseInv, NEW p \in Procs, EraseProcessFromCOWMap(p)
  PROVE  BaseInv'
<1> USE DEF BaseInv
<1>1. /\ pc[p] = "exit_erase" /\ pc' = [pc EXCEPT ![p] = "exit_free"]
      /\ cow_map_' = [n \in Ppns |-> cow_map_[n] \ {p}]
      /\ todo' = [todo EXCEPT ![p] = Mapped(p)]
      /\ UNCHANGED <<page_ppn, writeable, used, content, vpn, resolved, child, old_ppn, left>>
  BY DEF EraseProcessFromCOWMap, EraseFromSets, Goto, tableVars, memoryVars, execvVars
<1>2. Mapped(p) \subseteq Vpns /\ Mapped(p)' = Mapped(p)
  BY <1>1 DEF Mapped
<1>3. TypeOK'
  BY <1>1, <1>2 DEF TypeOK, Labels
<1>4. ForkInv'
  BY <1>1 DEF TypeOK, ForkInv, ForkLabels
<1>5. FaultInv' /\ ExecvInv'
  BY <1>1 DEF TypeOK, FaultInv, FaultLabels, ExecvInv
<1>6. ExitInv'
  BY <1>1, <1>2 DEF TypeOK, ExitInv, Mapped
<1>7. SetsInv' /\ OnlyExecvLeaks'
  BY <1>1 DEF TypeOK, SetsInv, OnlyExecvLeaks, InSomeTable
<1>8. QED
  BY <1>3, <1>4, <1>5, <1>6, <1>7

\* freePPN keeps a page that is in a set, and else frees it.
LEMMA FreePPNCases ==
  ASSUME TypeOK, NEW n \in Ppns, FreePPN(n)
  PROVE  \/ cow_map_[n] # {} /\ UNCHANGED <<used, content>>
         \/ /\ cow_map_[n] = {} /\ n \in used /\ used' = used \ {n}
            /\ content' = [content EXCEPT ![n] = FREED]
BY DEF FreePPN, KeepPPN, PpnShared, memoryVars

\* An exiting process frees a page only if its set is empty.
LEMMA FreePageBase ==
  ASSUME BaseInv, NEW p \in Procs, FreePage(p)
  PROVE  BaseInv'
<1> USE DEF BaseInv
<1>1. PICK v \in Vpns, n \in Ppns :
         /\ pc[p] = "exit_free" /\ todo[p] = Mapped(p) /\ v \in todo[p]
         /\ n = page_ppn[p][v] /\ FreePPN(n)
         /\ page_ppn' = [page_ppn EXCEPT ![p][v] = NULL]
         /\ writeable' = [writeable EXCEPT ![p] = @ \ {v}]
         /\ todo' = [todo EXCEPT ![p] = @ \ {v}]
         /\ left' = left \ (used \ used')
         /\ UNCHANGED <<cow_map_, pc, vpn, resolved, child, old_ppn>>
  <2>1. PICK v \in todo[p] :
           /\ FreePPN(page_ppn[p][v])
           /\ page_ppn' = [page_ppn EXCEPT ![p][v] = NULL]
           /\ writeable' = [writeable EXCEPT ![p] = @ \ {v}]
           /\ todo' = [todo EXCEPT ![p] = @ \ {v}]
    BY DEF FreePage
  <2>2. pc[p] = "exit_free" /\ todo[p] = Mapped(p)
    BY DEF FreePage, ExitInv
  <2>3. v \in Vpns /\ page_ppn[p][v] \in Ppns
    BY <2>1, <2>2 DEF TypeOK, Mapped
  <2>4. QED
    BY <2>1, <2>2, <2>3 DEF FreePage
<1>2. \A q \in Procs, w \in Vpns :
         page_ppn'[q][w] = IF q = p /\ w = v THEN NULL ELSE page_ppn[q][w]
  BY <1>1 DEF TypeOK
<1>3. \/ cow_map_[n] # {} /\ UNCHANGED <<used, content, left>>
      \/ /\ cow_map_[n] = {} /\ used' = used \ {n} /\ left' = left \ {n}
         /\ content' = [content EXCEPT ![n] = FREED]
  BY <1>1, FreePPNCases
<1>4. TypeOK'
  BY <1>1, <1>3 DEF TypeOK
<1>5. ForkInv'
  BY <1>1, <1>2 DEF TypeOK, ForkInv, ForkLabels
<1>6. FaultInv' /\ ExecvInv'
  BY <1>1, <1>2 DEF TypeOK, FaultInv, FaultLabels, ExecvInv
<1>7. ExitInv'
  <2>1. todo'[p] = Mapped(p)'
    BY <1>1, <1>2, MemoryAssumption DEF TypeOK, Mapped
  <2>2. \A q \in Procs : q # p => todo'[q] = todo[q] /\ Mapped(q)' = Mapped(q)
    BY <1>1, <1>2 DEF TypeOK, Mapped
  <2>3. QED
    BY <1>1, <1>2, <2>1, <2>2 DEF ExitInv
<1>8. \A m \in Ppns : p \notin cow_map_[m]
  BY <1>1 DEF ExitInv
<1>9. \A q \in Procs, w \in Vpns : q # p => page_ppn'[q][w] = page_ppn[q][w]
  BY <1>2
<1>10. SetsInv'
  BY <1>1, <1>3, <1>8, <1>9 DEF TypeOK, SetsInv
<1>11. OnlyExecvLeaks'
  <2>1. ASSUME cow_map_[n] # {}
        PROVE  InSomeTable(n)' \/ n \in left'
    <3>1. PICK q \in Procs : q \in cow_map_[n] /\ q # p
      BY <1>8, <2>1 DEF TypeOK
    <3>2. n \in left \/ \E w \in Vpns : n \in {page_ppn[q][w], old_ppn[q][w]}
      BY <3>1 DEF SetsInv
    <3>3. QED
      BY <1>1, <1>3, <1>9, <2>1, <3>1, <3>2 DEF InSomeTable
  <2>2. \A m \in used : m # n => InSomeTable(m)' \/ m \in left'
    BY <1>1, <1>2, <1>3 DEF TypeOK, OnlyExecvLeaks, InSomeTable
  <2>3. QED
    BY <1>3, <2>1, <2>2 DEF OnlyExecvLeaks
<1>12. QED
  BY <1>4, <1>5, <1>6, <1>7, <1>10, <1>11

\* A process that is gone maps nothing and is in no set.
LEMMA ExitDoneBase ==
  ASSUME BaseInv, NEW p \in Procs, ExitDone(p)
  PROVE  BaseInv'
<1> USE DEF BaseInv
<1>1. /\ pc[p] = "exit_free" /\ todo[p] = {} /\ pc' = [pc EXCEPT ![p] = "none"]
      /\ UNCHANGED <<page_ppn, writeable, cow_map_, used, content, vpn, resolved, child, todo,
                     old_ppn, left>>
  BY DEF ExitDone, Goto, tableVars, memoryVars, callVars, execvVars
<1>2. \A v \in Vpns : page_ppn[p][v] = NULL
  BY <1>1 DEF ExitInv, Mapped
<1>3. TypeOK'
  BY <1>1 DEF TypeOK, Labels
<1>4. ForkInv' /\ FaultInv'
  BY <1>1 DEF TypeOK, ForkInv, FaultInv, ForkLabels, FaultLabels
<1>5. ExitInv' /\ ExecvInv'
  BY <1>1, <1>2 DEF TypeOK, ExitInv, Mapped, ExecvInv
<1>6. SetsInv' /\ OnlyExecvLeaks'
  BY <1>1 DEF SetsInv, OnlyExecvLeaks, InSomeTable
<1>7. QED
  BY <1>3, <1>4, <1>5, <1>6

\* execv moves the table aside.
LEMMA ExecvBase ==
  ASSUME BaseInv, NEW p \in Procs, Execv(p)
  PROVE  BaseInv'
<1> USE DEF BaseInv
<1>1. /\ pc[p] = "user" /\ pc' = [pc EXCEPT ![p] = "execv_free"]
      /\ page_ppn' = [page_ppn EXCEPT ![p] = NoPages]
      /\ writeable' = [writeable EXCEPT ![p] = {}]
      /\ old_ppn' = [old_ppn EXCEPT ![p] = page_ppn[p]]
      /\ todo' = [todo EXCEPT ![p] = Mapped(p)]
      /\ UNCHANGED <<cow_map_, used, content, vpn, resolved, child, left>>
  BY DEF Execv, SwapLoader, Goto, memoryVars
<1>2. \A q \in Procs, w \in Vpns :
         /\ page_ppn'[q][w] = IF q = p THEN NULL ELSE page_ppn[q][w]
         /\ old_ppn'[q][w] = IF q = p THEN page_ppn[q][w] ELSE old_ppn[q][w]
  BY <1>1 DEF TypeOK, NoPages
<1>3. TypeOK'
  <2>1. NoPages \in [Vpns -> Ppns \cup {NULL}] /\ Mapped(p) \subseteq Vpns
    BY DEF NoPages, Mapped
  <2>2. QED
    BY <1>1, <2>1 DEF TypeOK, Labels
<1>4. ForkInv' /\ FaultInv'
  BY <1>1, <1>2 DEF TypeOK, ForkInv, FaultInv, ForkLabels, FaultLabels
<1>5. ExitInv'
  <2>1. \A q \in Procs : q # p => todo'[q] = todo[q] /\ Mapped(q)' = Mapped(q) /\ pc'[q] = pc[q]
    BY <1>1, <1>2 DEF TypeOK, Mapped
  <2>2. QED
    BY <1>1, <1>2, <2>1 DEF TypeOK, ExitInv
<1>6. ExecvInv'
  BY <1>1, <1>2 DEF TypeOK, ExecvInv, Mapped
<1>7. \A w \in Vpns : old_ppn[p][w] = NULL
  BY <1>1 DEF ExecvInv
<1>8. \A m \in Ppns, q \in Procs, w \in Vpns :
         m \in {page_ppn[q][w], old_ppn[q][w]} => m \in {page_ppn'[q][w], old_ppn'[q][w]}
  BY <1>2, <1>7, MemoryAssumption
<1>9. SetsInv' /\ OnlyExecvLeaks'
  BY <1>1, <1>8 DEF TypeOK, SetsInv, OnlyExecvLeaks, InSomeTable
<1>10. QED
  BY <1>3, <1>4, <1>5, <1>6, <1>9

\* execv frees a page of the old table, or leaves it in its set.
LEMMA ExecvFreePageBase ==
  ASSUME BaseInv, NEW p \in Procs, ExecvFreePage(p)
  PROVE  BaseInv'
<1> USE DEF BaseInv
<1>1. PICK v \in Vpns, n \in Ppns :
         /\ pc[p] = "execv_free" /\ v \in todo[p]
         /\ n = old_ppn[p][v] /\ FreePPN(n)
         /\ old_ppn' = [old_ppn EXCEPT ![p][v] = NULL]
         /\ left' = (left \cup {n}) \ (used \ used')
         /\ todo' = [todo EXCEPT ![p] = @ \ {v}]
         /\ UNCHANGED <<page_ppn, writeable, cow_map_, pc, vpn, resolved, child>>
  <2>1. PICK v \in todo[p] :
           /\ FreePPN(old_ppn[p][v])
           /\ old_ppn' = [old_ppn EXCEPT ![p][v] = NULL]
           /\ left' = (left \cup {old_ppn[p][v]}) \ (used \ used')
           /\ todo' = [todo EXCEPT ![p] = @ \ {v}]
    BY DEF ExecvFreePage
  <2>2. pc[p] = "execv_free" /\ v \in Vpns /\ old_ppn[p][v] \in Ppns
    BY <2>1 DEF ExecvFreePage, TypeOK, ExecvInv
  <2>3. QED
    BY <2>1, <2>2 DEF ExecvFreePage, tableVars
<1>2. \A q \in Procs, w \in Vpns :
         old_ppn'[q][w] = IF q = p /\ w = v THEN NULL ELSE old_ppn[q][w]
  BY <1>1 DEF TypeOK
<1>3. \/ cow_map_[n] # {} /\ UNCHANGED <<used, content>> /\ left' = left \cup {n}
      \/ /\ cow_map_[n] = {} /\ used' = used \ {n} /\ left' = left \ {n}
         /\ content' = [content EXCEPT ![n] = FREED]
  BY <1>1, FreePPNCases
<1>4. TypeOK'
  BY <1>1, <1>3 DEF TypeOK
<1>5. ForkInv' /\ FaultInv'
  BY <1>1 DEF TypeOK, ForkInv, FaultInv, ForkLabels, FaultLabels
<1>6. ExitInv'
  BY <1>1 DEF TypeOK, ExitInv, Mapped
<1>7. ExecvInv'
  BY <1>1, <1>2, MemoryAssumption DEF TypeOK, ExecvInv
<1>8. SetsInv'
  BY <1>1, <1>2, <1>3 DEF TypeOK, SetsInv
<1>9. OnlyExecvLeaks'
  BY <1>1, <1>2, <1>3 DEF TypeOK, OnlyExecvLeaks, InSomeTable
<1>10. QED
  BY <1>4, <1>5, <1>6, <1>7, <1>8, <1>9

\* The invariant speaks of the variables only.
LEMMA StutterBase == BaseInv /\ UNCHANGED vars => BaseInv'
BY DEF BaseInv, vars, tableVars, memoryVars, callVars, execvVars, TypeOK, ForkInv, FaultInv,
       ExitInv, Mapped, ExecvInv, SetsInv, OnlyExecvLeaks, InSomeTable

\* Every step of every process, overlapping or not, keeps the base invariant.
LEMMA NextBase == BaseInv /\ [Next]_vars => BaseInv'
<1> SUFFICES ASSUME BaseInv, [Next]_vars
             PROVE  BaseInv'
  OBVIOUS
<1>1. CASE UNCHANGED vars
  BY <1>1, StutterBase
<1>2. ASSUME NEW p \in Procs, UserStep(p)
      PROVE  BaseInv'
  <2>1. CASE \E v \in Vpns : Load(p, v) \/ \E x \in Values : Write(p, v, x)
    BY <2>1, LoadBase, WriteBase
  <2>2. CASE \E v \in Vpns : Fault(p, v)
    BY <2>2, FaultBase
  <2>3. CASE (\E c \in Procs : Fork(p, c)) \/ Execv(p)
    BY <2>3, ForkBase, ExecvBase
  <2>4. CASE Exit(p)
    BY <2>4, QuietBase DEF Exit, Goto, Labels, FaultLabels, callVars, BaseInv, TypeOK
  <2>5. QED
    BY <1>2, <2>1, <2>2, <2>3, <2>4 DEF UserStep
<1>3. ASSUME NEW p \in Procs, KernelStep(p)
      PROVE  BaseInv'
  <2>1. CASE ExecvDone(p)
    BY <2>1, QuietBase DEF ExecvDone, Goto, Labels, FaultLabels, callVars, BaseInv, TypeOK
  <2>2. QED
    BY <1>3, <2>1, FaultBase, HandleBase, ForkMapBase, ForkReadOnlyBase, ForkAddBase,
       ForkDoneBase, EraseBase, FreePageBase, ExitDoneBase, ExecvFreePageBase DEF KernelStep
<1>4. QED
  BY <1>1, <1>2, <1>3 DEF Next

\* Every variable of the memory of processes has its type.
THEOREM TypeCorrect == Spec => []TypeOK
<1>1. BaseInv => TypeOK
  BY DEF BaseInv
<1>2. QED
  BY <1>1, InitBase, NextBase, PTL DEF Spec

\* However page faults, forks, exits and execvs overlap, a page that nobody
\* maps any more is free, unless an execv gave it up while it was shared.
THEOREM LastSharerFrees == Spec => []OnlyExecvLeaks
<1>1. BaseInv => OnlyExecvLeaks
  BY DEF BaseInv
<1>2. QED
  BY <1>1, InitBase, NextBase, PTL DEF Spec

\* Whatever overlaps, a process in a set of sharers has not begun to delete its
\* page table, which handleCOWPageFault writes to from other processes.
THEOREM SharersHaveTables == Spec => []SharersAlive
<1>1. BaseInv => SharersAlive
  BY DEF BaseInv, TypeOK, ExitInv, SharersAlive
<1>2. QED
  BY <1>1, InitBase, NextBase, PTL DEF Spec
=============================================================================
