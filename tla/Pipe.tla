-------------------------------- MODULE Pipe --------------------------------
(***************************************************************************)
(* A pipe: the RingBuffer that processes share after fork, and the count   *)
(* of the processes connected to it.                                       *)
(*                                                                         *)
(* RingBuffer has no lock of its own for its bytes.  pipes_lock_ lets one  *)
(* thread of a process at a time into read and write, so pc[p] is where    *)
(* that thread is; threads of different processes, and a fork by another   *)
(* thread, interleave with it between any two accesses to memory.  (close  *)
(* changes a copy of the entry in pipes_ only: the process keeps both ends *)
(* and its place in the count.)                                            *)
(***************************************************************************)
EXTENDS Integers, Sequences

CONSTANTS
    Procs,
    Reader, Writer,   \* the processes that read and write: one of each
    Size,             \* PIPE_BUF_SIZE
    Values,           \* bytes
    NULL

ASSUME PipeAssumption ==
    /\ Reader \in Procs /\ Writer \in Procs
    /\ Size \in Nat /\ Size > 1
    /\ NULL \notin Procs \cup Values

VARIABLES
    buffer_, write_pos_, read_pos_,
    connected_proc_counter_,
    ring,       \* the RingBuffer: "none" yet, "alive" or "deleted"
    pipes_,     \* the processes with the pipe in their map
    pc,
    pos, c,     \* old_write_pos or new_read_pos, and the byte, of each process
    forking,    \* the child that a thread of the process is making, or NULL
    got,        \* the byte read last
    failed      \* some fork has failed

ringVars == <<buffer_, write_pos_, read_pos_>>
countVars == <<connected_proc_counter_, ring, pipes_>>
callVars == <<pc, pos, c>>
vars == <<ringVars, countVars, callVars, forking, got, failed>>

Labels == {"none", "born", "counted", "user", "put_check", "put_store", "put_advance",
           "get_check", "get_load", "get_advance", "dying", "gone"}

\* Every variable has its type.
TypeOK ==
    /\ buffer_ \in [0..Size - 1 -> Values \cup {NULL}]
    /\ write_pos_ \in 0..Size - 1 /\ read_pos_ \in 0..Size - 1
    /\ connected_proc_counter_ \in Nat
    /\ ring \in {"none", "alive", "deleted"}
    /\ pipes_ \subseteq Procs
    /\ pc \in [Procs -> Labels]
    /\ pos \in [Procs -> 0..Size - 1]
    /\ c \in [Procs -> Values \cup {NULL}]
    /\ forking \in [Procs -> Procs \cup {NULL}]
    /\ got \in Values \cup {NULL}
    /\ failed \in BOOLEAN

\* The constructor of RingBuffer: byte i is at read_pos_ + i, up to write_pos_.
Init ==
    /\ buffer_ = [i \in 0..Size - 1 |-> NULL]
    /\ write_pos_ = 1 /\ read_pos_ = 0
    /\ connected_proc_counter_ = 0
    /\ ring = "none"
    /\ pipes_ = {}
    /\ \E p \in Procs : pc = [q \in Procs |-> IF q = p THEN "user" ELSE "none"]
    /\ pos = [p \in Procs |-> 0]
    /\ c = [p \in Procs |-> NULL]
    /\ forking = [p \in Procs |-> NULL]
    /\ got = NULL
    /\ failed = FALSE

Goto(p, label) == pc' = [pc EXCEPT ![p] = label]

\* read or write returns.
Return(p) ==
    /\ Goto(p, "user")
    /\ pos' = [pos EXCEPT ![p] = 0]
    /\ c' = [c EXCEPT ![p] = NULL]

\* UserProcess::openPipe, with incProcCount.
OpenPipe(p) ==
    /\ pc[p] = "user"
    /\ ring = "none"
    /\ ring' = "alive"
    /\ pipes_' = pipes_ \cup {p}
    /\ connected_proc_counter_' = 1
    /\ UNCHANGED <<ringVars, callVars, forking, got, failed>>

-----------------------------------------------------------------------------
(* writeToPipe and RingBuffer::put *)

\* write begins, or goes on with its next byte.
Put(p, v) ==
    /\ pc[p] = "user" /\ p \in pipes_ /\ p = Writer
    /\ Goto(p, "put_check")
    /\ pos' = [pos EXCEPT ![p] = write_pos_]
    /\ c' = [c EXCEPT ![p] = v]
    /\ UNCHANGED <<ringVars, countVars, forking, got, failed>>

\* The position after i.
Following(i) == (i + 1) % Size

\* The buffer is full if the write position has met the read position.
IsFull(p) == pos[p] = read_pos_
PutCheck(p) ==
    /\ pc[p] = "put_check"
    /\ \/ IsFull(p) /\ Return(p)
       \/ ~IsFull(p) /\ Goto(p, "put_store") /\ UNCHANGED <<pos, c>>
    /\ UNCHANGED <<ringVars, countVars, forking, got, failed>>

PutStore(p) ==
    /\ pc[p] = "put_store"
    /\ buffer_' = [buffer_ EXCEPT ![pos[p]] = c[p]]
    /\ Goto(p, "put_advance")
    /\ UNCHANGED <<write_pos_, read_pos_, countVars, pos, c, forking, got, failed>>

PutAdvance(p) ==
    /\ pc[p] = "put_advance"
    /\ write_pos_' = Following(pos[p])
    /\ Return(p)
    /\ UNCHANGED <<buffer_, read_pos_, countVars, forking, got, failed>>

-----------------------------------------------------------------------------
(* readFromPipe and RingBuffer::get *)

Get(p) ==
    /\ pc[p] = "user" /\ p \in pipes_ /\ p = Reader
    /\ Goto(p, "get_check")
    /\ pos' = [pos EXCEPT ![p] = Following(read_pos_)]
    /\ UNCHANGED <<ringVars, countVars, c, forking, got, failed>>

\* Nothing new to read.
\* MUTANT: the positions are taken to meet in an empty buffer.
PositionsMeet(p) == write_pos_ = read_pos_
IsEmpty(p) == write_pos_ = pos[p]
GetCheck(p) ==
    /\ pc[p] = "get_check"
    /\ \/ IsEmpty(p) /\ Return(p)
       \/ ~IsEmpty(p) /\ Goto(p, "get_load") /\ UNCHANGED <<pos, c>>
    /\ UNCHANGED <<ringVars, countVars, forking, got, failed>>

GetLoad(p) ==
    /\ pc[p] = "get_load"
    /\ c' = [c EXCEPT ![p] = buffer_[pos[p]]]
    /\ Goto(p, "get_advance")
    /\ UNCHANGED <<ringVars, countVars, pos, forking, got, failed>>

GetAdvance(p) ==
    /\ pc[p] = "get_advance"
    /\ read_pos_' = pos[p]
    /\ got' = c[p]
    /\ Return(p)
    /\ UNCHANGED <<buffer_, write_pos_, countVars, forking, failed>>

-----------------------------------------------------------------------------
(* fork and exit *)

Alive(p) == pc[p] \notin {"none", "born", "counted", "dying", "gone"}

\* The constructor of the child copies pipes_, without pipes_lock_.
Fork(p, child) ==
    /\ Alive(p) /\ forking[p] = NULL /\ pc[child] = "none"
    /\ forking' = [forking EXCEPT ![p] = child]
    /\ pipes_' = IF p \in pipes_ THEN pipes_ \cup {child} ELSE pipes_
    /\ Goto(child, "born")
    /\ UNCHANGED <<ringVars, connected_proc_counter_, ring, pos, c, got, failed>>

\* incProcCount for every pipe copied.
\* MUTANT: it is not called.
CountNone(p) == connected_proc_counter_
CountWith(p) == IF p \in pipes_ THEN connected_proc_counter_ + 1 ELSE connected_proc_counter_
ForkCount(p) ==
    /\ forking[p] # NULL /\ pc[forking[p]] = "born"
    /\ connected_proc_counter_' = CountWith(forking[p])
    /\ Goto(forking[p], "counted")
    /\ UNCHANGED <<ringVars, ring, pipes_, pos, c, forking, got, failed>>

ForkDone(p) ==
    /\ forking[p] # NULL /\ pc[forking[p]] = "counted"
    /\ Goto(forking[p], "user")
    /\ forking' = [forking EXCEPT ![p] = NULL]
    /\ UNCHANGED <<ringVars, countVars, pos, c, got, failed>>

\* The executable does not load: the child is given up without decProcCount.
ForkFails(p) ==
    /\ forking[p] # NULL /\ pc[forking[p]] = "counted"
    /\ Goto(forking[p], "gone")
    /\ forking' = [forking EXCEPT ![p] = NULL]
    /\ pipes_' = pipes_ \ {forking[p]}
    /\ failed' = TRUE
    /\ UNCHANGED <<ringVars, connected_proc_counter_, ring, pos, c, got>>

\* ~UserProcess, run by the cleanup thread when no thread is left: decProcCount,
Exit(p) ==
    /\ pc[p] = "user" /\ forking[p] = NULL
    /\ \A q \in Procs : pc[q] # "dying"
    /\ connected_proc_counter_' = connected_proc_counter_ - (IF p \in pipes_ THEN 1 ELSE 0)
    /\ Goto(p, "dying")
    /\ UNCHANGED <<ringVars, ring, pipes_, pos, c, forking, got, failed>>

\* and the test of getProcCount, without its lock.
ExitDelete(p) ==
    /\ pc[p] = "dying"
    /\ ring' = IF p \in pipes_ /\ connected_proc_counter_ = 0 THEN "deleted" ELSE ring
    /\ pipes_' = pipes_ \ {p}
    /\ Goto(p, "gone")
    /\ UNCHANGED <<ringVars, connected_proc_counter_, pos, c, forking, got, failed>>

Next ==
    \E p \in Procs :
        \/ OpenPipe(p)
        \/ \E v \in Values : Put(p, v)
        \/ PutCheck(p) \/ PutStore(p) \/ PutAdvance(p)
        \/ Get(p) \/ GetCheck(p) \/ GetLoad(p) \/ GetAdvance(p)
        \/ \E child \in Procs : Fork(p, child)
        \/ ForkCount(p) \/ ForkDone(p) \/ ForkFails(p)
        \/ Exit(p) \/ ExitDelete(p)

Spec == Init /\ [][Next]_vars

-----------------------------------------------------------------------------
(* Properties *)

\* The buffer outlives its users, but not by much: nobody reads from or writes
\* to a deleted RingBuffer, forks and exits of other processes going on; and
\* when all the processes are gone and no fork has failed, so is the buffer.
BufferLives ==
    /\ pipes_ # {} => ring = "alive"
    /\ (\A p \in Procs : pc[p] \in {"none", "gone"}) /\ failed = FALSE => ring # "alive"

\* The bytes in the buffer, oldest first.
queue ==
    [i \in 1..(write_pos_ - read_pos_ - 1) % Size |-> buffer_[(read_pos_ + i) % Size]]

Q == INSTANCE BoundedQueue WITH Capacity <- Size - 1

\* With one reading and one writing process the buffer without locks is a
\* queue: no byte is lost, doubled, reordered or read before it is written.
ImplementsQueue == Q!Spec
=============================================================================
