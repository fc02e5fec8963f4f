------------------------------ MODULE CopyFile ------------------------------
(***************************************************************************)
(* What the bootstrapbox cp utility promises for one regular file          *)
(* (spec.md section 4.9): before any data is copied the destination may be *)
(* removed (-f) or emptied (truncate or create); after that it only grows, *)
(* and always holds a prefix of the source; success is reported only when  *)
(* it holds the whole source.  Failure may be reported at any point.       *)
(*                                                                         *)
(* CopyFd (the system-call level model of copy_file and copyfd.c) maps     *)
(* onto this module with INSTANCE ... WITH, and its runs check Spec as a   *)
(* PROPERTY.                                                               *)
(***************************************************************************)
EXTENDS Naturals, Sequences

CONSTANTS
    Sources,  \* the source contents a behaviour may start with
    NoFile    \* the destination path does not exist

VARIABLES
    source,   \* contents of the source file (never changes)
    dest,     \* contents of the destination path, or NoFile
    phase     \* "prepare", "copy", "ok" or "fail"

vars == <<source, dest, phase>>

Prefixes(s) == {SubSeq(s, 1, k) : k \in 0..Len(s)}

Init ==
    /\ source \in Sources
    /\ phase = "prepare"

\* The destination is unlinked before it is recreated.
Remove ==
    /\ phase = "prepare"
    /\ dest' = NoFile
    /\ UNCHANGED <<source, phase>>

\* The destination is opened empty and the copy begins.
Start ==
    /\ phase = "prepare"
    /\ dest' = <<>>
    /\ phase' = "copy"
    /\ UNCHANGED source

\* Some more bytes of the source reach the destination, in order.
Grow ==
    /\ phase = "copy"
    /\ dest \in Prefixes(source)
    /\ \E p \in Prefixes(source) :
          /\ Len(p) > Len(dest)
          /\ dest' = p
    /\ UNCHANGED <<source, phase>>

Succeed ==
    /\ phase = "copy"
    /\ dest = source
    /\ phase' = "ok"
    /\ UNCHANGED <<source, dest>>

Fail ==
    /\ phase \in {"prepare", "copy"}
    /\ phase' = "fail"
    /\ UNCHANGED <<source, dest>>

Next == Remove \/ Start \/ Grow \/ Succeed \/ Fail

Spec == Init /\ [][Next]_vars

=============================================================================
