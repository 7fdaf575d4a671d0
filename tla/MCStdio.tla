------------------------------- MODULE MCStdio -------------------------------
(***************************************************************************)
(* Instances of Stdio for TLC: two threads that lock stdin, and one of     *)
(* them stdout, twice.                                                     *)
(***************************************************************************)
EXTENDS Stdio

CONSTANTS in1, in2, out1, out2, t1, t2

MCEndOf == [h \in Handles |-> IF h \in {in1, in2} THEN "stdin" ELSE "stdout"]
MCThreadOf == [h \in Handles |-> IF h = in2 THEN t2 ELSE t1]
\* Partial reads, and a pipe out that is full or empty.
MCCapacity == [e \in Ends |-> IF e = "stdin" THEN 2 ELSE 1]
MCInherited == [e \in Ends |-> FALSE]
==============================================================================
