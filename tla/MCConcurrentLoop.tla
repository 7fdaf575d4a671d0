-------------------------- MODULE MCConcurrentLoop --------------------------
(***************************************************************************)
(* Instances of ConcurrentLoop for TLC.                                    *)
(***************************************************************************)
EXTENDS ConcurrentLoop, TLC

CONSTANTS MaxNotice, MaxBad, MaxBreak

\* The sockets only send requests here; how often the rest happens.
MCBudget ==
    [t \in {"notify", "emit", "notice", "stray", "bad", "break"} |->
        CASE t = "notice" -> MaxNotice
          [] t = "bad" -> MaxBad
          [] t = "break" -> MaxBreak
          [] OTHER -> 0]
=============================================================================
