----------------------------- MODULE MCMainLoop -----------------------------
(***************************************************************************)
(* Instances of MainLoop for TLC.                                          *)
(***************************************************************************)
EXTENDS MainLoop, TLC

CONSTANTS MaxNotify, MaxEmit, MaxNotice, MaxStray, MaxBad, MaxBreak

\* How often the environment does each of its other things.
MCBudget ==
    [t \in {"notify", "emit", "notice", "stray", "bad", "break"} |->
        CASE t = "notify" -> MaxNotify
          [] t = "emit" -> MaxEmit
          [] t = "notice" -> MaxNotice
          [] t = "stray" -> MaxStray
          [] t = "bad" -> MaxBad
          [] t = "break" -> MaxBreak]

Symmetry == Permutations(Requests) \cup Permutations(Requesters)
=============================================================================
