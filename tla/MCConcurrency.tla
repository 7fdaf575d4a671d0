--------------------------- MODULE MCConcurrency ---------------------------
(***************************************************************************)
(* Instances of Concurrency for TLC.                                       *)
(***************************************************************************)
EXTENDS Concurrency, TLC

\* Names of futures of the same kind, and request ids, are interchangeable.
Symmetry ==
    Permutations(Detached) \cup Permutations(Futures \ Detached) \cup Permutations(Ids)
============================================================================
