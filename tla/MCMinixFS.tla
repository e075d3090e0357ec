----------------------------- MODULE MCMinixFS -----------------------------
(* The buffers written in the runs of TLC, less and more than a zone, and the *)
(* symmetry of names.                                                          *)
EXTENDS MinixFS, TLC

SmallBuffers == {<<7>>, <<8, 9, 8>>}

Symmetry == Permutations(Names)
=============================================================================
