----------------------- MODULE MCWatchdogIncidents ------------------------
(* A small instance of the watchdogs: one failure and one death of w1.     *)
EXTENDS WatchdogIncidents

MCFlips == [r \in Roots |-> 1]
=============================================================================
