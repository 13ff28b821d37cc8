----------------------- MODULE MCWorkflowExecution ------------------------
(***************************************************************************)
(* Small instances of the workflow execution engine in one run.  A         *)
(* behaviour moves one visit, the plain or the managed one, and either one *)
(* poller goes deep (owner resumes up to MaxGen, crashes) or two pollers   *)
(* race within the smaller bounds PairGen and PairVersion, without crash.  *)
(***************************************************************************)
EXTENDS WorkflowExecution

CONSTANTS PairGen, PairVersion, First

VARIABLES pair, focus

mcVars == <<vars, pair, focus>>

MCInit ==
  /\ Init
  /\ focus \in Visits
  /\ pair \in (IF focus \in Managed THEN {FALSE} ELSE BOOLEAN)

Bounded ==
  /\ \A v \in Visits \ {focus} :
       att'[v] = att[v] /\ ver'[v] = ver[v] /\ \A p \in Pollers : op'[p] # Idle => op'[p].v # v
  /\ IF pair
     THEN crashes' = 0 /\ att'[focus].gen <= PairGen /\ ver'[focus] <= PairVersion
     ELSE \A p \in Pollers \ {First} : op'[p] = Idle

MCNext == Next /\ Bounded /\ UNCHANGED <<pair, focus>>

MCSpec == MCInit /\ [][MCNext]_mcVars
=============================================================================
