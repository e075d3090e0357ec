--------------------------- MODULE MCCopyOnWrite ---------------------------
(* Instances of CopyOnWrite for TLC.                                        *)
EXTENDS CopyOnWrite, TLC

Symmetry == Permutations(Procs) \cup Permutations(Ppns)
=============================================================================
