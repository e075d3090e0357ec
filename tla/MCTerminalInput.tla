-------------------------- MODULE MCTerminalInput ---------------------------
(* All user threads read from the first terminal. *)
EXTENDS TerminalInput

MCTerminalOf == [x \in Readers |-> 0]
=============================================================================
