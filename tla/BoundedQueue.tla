---------------------------- MODULE BoundedQueue ----------------------------
(***************************************************************************)
(* What a pipe promises: bytes come out in the order they were put in,     *)
(* each of them once, and at most Capacity of them are on the way.         *)
(***************************************************************************)
EXTENDS Naturals, Sequences

CONSTANTS Values, Capacity, NULL

VARIABLES
    queue,   \* the bytes on the way
    got      \* the last byte that came out

Init == queue = <<>> /\ got = NULL

Put(v) ==
    /\ Len(queue) < Capacity
    /\ queue' = Append(queue, v)
    /\ UNCHANGED got

Get ==
    /\ queue # <<>>
    /\ got' = Head(queue)
    /\ queue' = Tail(queue)

Next == Get \/ \E v \in Values : Put(v)

Spec == Init /\ [][Next]_<<queue, got>>
=============================================================================
