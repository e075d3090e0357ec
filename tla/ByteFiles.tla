----------------------------- MODULE ByteFiles -----------------------------
(***************************************************************************)
(* What a file system promises: a file is the sequence of bytes that was   *)
(* written to it, and stays so while the files are unmounted.  If the      *)
(* power fails, a file may be lost or cut.                                 *)
(***************************************************************************)
EXTENDS Naturals, Sequences, SequencesExt

CONSTANTS Names, Buffers, NONE

VARIABLES
    content,   \* the bytes of each file, NONE if there is no such file
    mounted,
    intact     \* no file was removed and the power never failed

vars == <<content, mounted, intact>>

Init ==
    /\ content = [f \in Names |-> NONE]
    /\ mounted = FALSE /\ intact = TRUE

Create(f) ==
    /\ mounted = TRUE /\ content[f] = NONE
    /\ content' = [content EXCEPT ![f] = <<>>]
    /\ UNCHANGED <<mounted, intact>>

Delete(f) ==
    /\ mounted = TRUE /\ content[f] # NONE
    /\ content' = [content EXCEPT ![f] = NONE]
    /\ intact' = FALSE
    /\ UNCHANGED mounted

\* The bytes from position o on become those of buf.
Overlay(bytes, o, buf) ==
    SubSeq(bytes, 1, o) \o buf \o SubSeq(bytes, o + Len(buf) + 1, Len(bytes))

Write(f, buf) ==
    /\ mounted = TRUE /\ content[f] # NONE
    /\ \E o \in 0 .. Len(content[f]) :
          content' = [content EXCEPT ![f] = Overlay(content[f], o, buf)]
    /\ UNCHANGED <<mounted, intact>>

Mount ==
    /\ mounted = FALSE /\ mounted' = TRUE
    /\ UNCHANGED <<content, intact>>

\* Once a file has been removed, others may be missing after an unmount.
Unmount ==
    /\ mounted = TRUE /\ mounted' = FALSE
    /\ \A f \in Names : content'[f] = content[f] \/ (intact = FALSE /\ content'[f] = NONE)
    /\ UNCHANGED intact

Crash ==
    /\ mounted = TRUE /\ mounted' = FALSE
    /\ intact' = FALSE
    /\ \A f \in Names :
          \/ content'[f] = NONE
          \/ content[f] # NONE /\ content'[f] # NONE /\ IsPrefix(content'[f], content[f])

Next ==
    \/ \E f \in Names : Create(f) \/ Delete(f) \/ \E buf \in Buffers : Write(f, buf)
    \/ Mount \/ Unmount \/ Crash

Spec == Init /\ [][Next]_vars
=============================================================================
