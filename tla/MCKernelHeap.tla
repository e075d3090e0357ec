---------------------------- MODULE MCKernelHeap ----------------------------
(* The instance of KernelHeap for TLC.                                      *)
EXTENDS KernelHeap, TLC

Symmetry == Permutations(Ids)
=============================================================================
