--------------------------- MODULE MCKernelLocks ---------------------------
(* Small instances of KernelLocks for TLC. *)
EXTENDS KernelLocks, TLC

CONSTANTS m1, m2, c1

\* Every condition belongs to mutex m1; mutexes nest in the order m1, m2.
MCCondMutex == [c \in Conditions |-> m1]
MCRank == [m \in Mutexes |-> IF m = m1 THEN 1 ELSE 2]

ThreadSymmetry == Permutations(Threads)
=============================================================================
