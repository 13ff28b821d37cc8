---------------------------- MODULE MCRouterTurn ----------------------------
(* Instance of RouterTurn for TLC: the bounds, and which of the turns      *)
(* await a website recheck, are in the .cfg files.                         *)
EXTENDS RouterTurn
=============================================================================
