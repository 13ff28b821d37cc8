---------------------------- MODULE MCProgress ----------------------------
(***************************************************************************)
(* What must happen in the end in the smaller components, in small         *)
(* instances and one run.  They share no state: the initial state chooses  *)
(* a part, and a behaviour moves that part alone.  Init, Next and vars are *)
(* those of the watchdogs, which this module extends; the other parts are  *)
(* instances.                                                              *)
(*   slots      slot accounting: two sessions, failing appends             *)
(*   paging     the watchdogs: no overlap, a fault, the manifest changes   *)
(*   ingress    notifications: two requests for one delivery               *)
(*   workflow   workflow execution: one poller that may crash              *)
(*   registry   process registry: one caller, two generations              *)
(*   chain      route chain: one message of any kind, all its retries      *)
(***************************************************************************)
EXTENDS WatchdogIncidents, TLC

VARIABLES
  part,
  now, enabled, activation, created, open, lastEnd, log, engine, session, cursor, todo, cand,
  up, record, readable, req, inflight, attempt, told, answers, calls, admitted, crashes, niFaults,
  att, tail, lock, op, weCrashes, turn, world, ver, cases, weCalls, used, wakes, corrupt,
  slot, entry, proc, os, caller, dispose,
  msg, prompts, child, gen

Accounting == INSTANCE SlotAccounting WITH
  Slots <- {1, 2}, RefireGap <- 1, MaxBackfill <- 2, AppendFails <- TRUE,
  Catchups <- {TRUE}, MaxTime <- 2, MaxSessions <- 2

(* Each root appears once, and stays. *)
MCFlips == [r \in Roots |-> 1]

Ingress == INSTANCE NotificationIngress WITH
  Requests <- {"a", "b"}, Keys <- {"k"}, Hashes <- {"h"}, Wide <- {},
  MaxCrashes <- 1, MaxFaults <- 1, faults <- niFaults

Workflow == INSTANCE WorkflowExecution WITH
  Visits <- {"v"}, Pollers <- {"p"}, None <- "none", Managed <- {}, MaxAttempts <- 1,
  ManagedLimit <- 1, MaxGen <- 2, MaxVersion <- 2, MaxCrashes <- 1,
  crashes <- weCrashes, calls <- weCalls

Registry == INSTANCE ProcessRegistry WITH
  Callers <- {"a"}, Routes <- {"r"}, Default <- "r", Plain <- "plain", MaxGens <- 2

Chain == INSTANCE RouteChain WITH
  Messages <- {"m"}, Modes <- [m |-> {"turn", "deliver", "custody"}], Routes <- 2,
  MaxRetries <- 1, MaxGens <- 3, proc <- child

slotVars ==
  <<now, enabled, activation, created, open, lastEnd, log, engine, session, cursor, todo, cand>>
dogVars == vars
ingressVars ==
  <<up, record, readable, req, inflight, attempt, told, answers, calls, admitted, crashes, niFaults>>
workflowVars ==
  <<att, tail, lock, op, weCrashes, turn, world, ver, cases, weCalls, used, wakes, corrupt>>
registryVars == <<slot, entry, proc, os, caller, dispose>>
chainVars == <<msg, prompts, child, gen>>
allVars == <<part, slotVars, dogVars, ingressVars, workflowVars, registryVars, chainVars>>

ProgressInit ==
  /\ part \in {"slots", "paging", "ingress", "workflow", "registry", "chain"}
  /\ Init /\ Accounting!Init /\ Ingress!Init /\ Workflow!Init /\ Registry!Init /\ Chain!Init

InSlots ==
  part = "slots" /\ UNCHANGED <<part, dogVars, ingressVars, workflowVars, registryVars, chainVars>>

InPaging ==
  part = "paging" /\ UNCHANGED <<part, slotVars, ingressVars, workflowVars, registryVars, chainVars>>

InIngress ==
  part = "ingress" /\ UNCHANGED <<part, slotVars, dogVars, workflowVars, registryVars, chainVars>>

InWorkflow ==
  part = "workflow" /\ UNCHANGED <<part, slotVars, dogVars, ingressVars, registryVars, chainVars>>

InRegistry ==
  part = "registry" /\ UNCHANGED <<part, slotVars, dogVars, ingressVars, workflowVars, chainVars>>

InChain ==
  part = "chain" /\ UNCHANGED <<part, slotVars, dogVars, ingressVars, workflowVars, registryVars>>

ProgressNext ==
  \/ InSlots /\ Accounting!Next
  \/ InPaging /\ Next
  \/ InIngress /\ Ingress!Next
  \/ InWorkflow /\ Workflow!Next
  \/ InRegistry /\ Registry!Next
  \/ InChain /\ Chain!Next

IngressProgress ==
  \/ \E r \in {"a", "b"} : Ingress!Reserve(r) \/ Ingress!SettleUnresolved(r)
  \/ Ingress!AttemptEnds("k") \/ Ingress!Settle("k") \/ Ingress!Resolve("k")

(* The fairness of each part.  A behaviour has one part, so fairness of    *)
(* one action of each part is fairness of their disjunction.  For the      *)
(* ingress and for the ends of runs this asks for less than their modules  *)
(* do: that one of these steps is taken while one is possible.             *)
ProgressFairness ==
  /\ SF_allVars(\/ InSlots /\ Accounting!AccountMissed(TRUE)
                \/ InPaging /\ Load("w1")
                \/ InWorkflow /\ Workflow!Escalate("p") /\ op'["p"].step = "escalated")
  /\ SF_allVars(\/ InSlots /\ Accounting!TickSkip(TRUE)
                \/ InPaging /\ Load("w2")
                \/ InWorkflow /\ Workflow!Observe("p", "v"))
  /\ SF_allVars(\/ InSlots /\ Accounting!Reserve(TRUE)
                \/ InWorkflow /\ Workflow!AdmitAtLimit("p", "v"))
  /\ WF_allVars(\/ InSlots /\ Accounting!AccountDone
                \/ InPaging /\ Run("w1")
                \/ InIngress /\ IngressProgress
                \/ InWorkflow /\ Workflow!Continues("p"))
  /\ WF_allVars(\/ InSlots /\ Accounting!Catchup
                \/ InPaging /\ Run("w2")
                \/ InWorkflow /\ (Workflow!RunEnds("v", 1) \/ Workflow!RunEnds("v", 2))
                \/ InRegistry /\ Registry!Progress
                \/ InChain /\ Chain!Step("m"))
  /\ WF_allVars(\/ InSlots /\ Accounting!TickScan
                \/ InChain /\ Chain!DeadlinePasses("m"))

ProgressSpec == ProgressInit /\ [][ProgressNext]_allVars /\ ProgressFairness

-----------------------------------------------------------------------------
(* While the engine is up, the newest elapsed slot is accounted for in the *)
(* end (SlotAccounting).                                                   *)
NewestSlotAccounted == Accounting!NewestSlotAccounted

(* Every request for a notification is answered, also when the Router is   *)
(* silent (NotificationIngress).                                           *)
Answered == Ingress!Answered

(* Attempts settle, and the attempt limit reaches the owner                *)
(* (WorkflowExecution).                                                    *)
AttemptsSettle == Workflow!AttemptsSettle /\ Workflow!LimitEscalates

(* Every startup promise settles and disposal ends (StartupsSettle of      *)
(* ProcessRegistry), and every route chain ends (ChainsEnd of RouteChain). *)
(* In one formula: a behaviour moves one of the two.                       *)
Waiting == Registry!Unsettled \/ Chain!Trying

WaitsEnd == Waiting ~> ~Waiting
=============================================================================
