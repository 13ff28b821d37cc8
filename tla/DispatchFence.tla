---------------------------- MODULE DispatchFence ----------------------------
(***************************************************************************)
(* What the attempt ledger of the workflow execution engine promises about *)
(* the runs it asks the Router for (packages/workflow-execution, the       *)
(* one-attempt fence and the write-ahead rule): runs of a node visit are   *)
(* numbered, a run is fenced in the ledger before the Router is asked for  *)
(* it, and the Router is asked at most once and only for the newest run.   *)
(* WorkflowExecution implements this through crashes, recoveries, owner    *)
(* resumes and pollers that race.                                          *)
(***************************************************************************)
EXTENDS Naturals

CONSTANTS Visits, Gens

VARIABLES
  gen,     \* visit -> the newest run planned, 0 before the first
  fenced,  \* visit -> is it in the ledger as started
  sends    \* visit -> run -> requests made to the Router

fenceVars == <<gen, fenced, sends>>

FenceInit ==
  /\ gen = [v \in Visits |-> 0]
  /\ fenced = [v \in Visits |-> FALSE]
  /\ sends = [v \in Visits |-> [g \in Gens |-> 0]]

(* A new run is planned, whatever became of the one before. *)
PlanRun(v) ==
  /\ gen' = [gen EXCEPT ![v] = @ + 1]
  /\ fenced' = [fenced EXCEPT ![v] = FALSE]
  /\ UNCHANGED sends

FenceRun(v) ==
  /\ gen[v] \in Gens /\ ~fenced[v]
  /\ fenced' = [fenced EXCEPT ![v] = TRUE]
  /\ UNCHANGED <<gen, sends>>

SendRun(v) ==
  /\ gen[v] \in Gens /\ fenced[v]
  /\ sends[v][gen[v]] = 0
  /\ sends' = [sends EXCEPT ![v][gen[v]] = 1]
  /\ UNCHANGED <<gen, fenced>>

FenceNext == \E v \in Visits : PlanRun(v) \/ FenceRun(v) \/ SendRun(v)

FenceSpec == FenceInit /\ [][FenceNext]_fenceVars
=============================================================================
