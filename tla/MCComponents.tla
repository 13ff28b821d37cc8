--------------------------- MODULE MCComponents ---------------------------
(***************************************************************************)
(* Safety of the smaller components, in small instances and one run.  They *)
(* share no state: the initial state chooses a part, and a behaviour moves *)
(* that part alone.  Init, Next and vars are those of the process registry,*)
(* which this module extends; the other parts are instances.               *)
(*   pair       the occurrence engine: two jobs due under a limit of one   *)
(*   recurring  the occurrence engine: a recurring job with retries        *)
(*   slots      slot accounting: two sessions, failing appends             *)
(*   overlap    the watchdogs: their runs overlap and one dies             *)
(*   episodes   the watchdogs: roots come and go, the manifest changes     *)
(*   ingress    notifications: three requests for one delivery             *)
(*   rotation   credentials: four operations, one after the other          *)
(*   execution  development executions: two of them, one worktree          *)
(*   registry   process registry: two callers, two routes                  *)
(*   chain      route chain: a turn and a delivery share the process       *)
(*   retries    route chain: one message of any kind, all its retries      *)
(***************************************************************************)
EXTENDS ProcessRegistry, Sequences, TLC

VARIABLES
  part,
  now, jobs, occ, fences, engine, cand, run, restarts, ops, turn,
  slotNow, enabled, activation, created, open, lastEnd, log, slotEngine, session, cursor,
  todo, slotCand,
  fact, disposed, route, inc, out, stale, dogRun, sent, fresh, misread, faults,
  up, record, readable, req, inflight, attempt, told, answers, calls, admitted, crashes, niFaults,
  db, store, bak, lock, receipts, op, lastSecret, applied, rolled, cpFaults, lost,
  led, alive, exits, timers, handler, left, deUp, runs, deCrashes,
  msg, prompts, child, gen

Pair == INSTANCE SchedulerEngine WITH
  Jobs <- {"j", "k"}, Agents <- {"a"}, Kind <- [j \in {"j", "k"} |-> "cron"],
  Slots <- [j \in {"j", "k"} |-> {1}], RetryAuto <- [j \in {"j", "k"} |-> FALSE],
  DeleteAfterRun <- [j \in {"j", "k"} |-> FALSE], EveryMs <- 2, RefireGap <- 0, Grace <- 1,
  Timeout <- 1, OneShotBackoff <- <<1>>, RecurringBackoff <- <<1>>, Concurrency <- 1,
  LeaseLoss <- FALSE, MaxTime <- 2, MaxRev <- 1, MaxChain <- 0, MaxRestarts <- 0, MaxOps <- 0

Recurring == INSTANCE SchedulerEngine WITH
  Jobs <- {"j"}, Agents <- {"a"}, Kind <- [j \in {"j"} |-> "cron"],
  Slots <- [j \in {"j"} |-> {1, 2}], RetryAuto <- [j \in {"j"} |-> TRUE],
  DeleteAfterRun <- [j \in {"j"} |-> FALSE], EveryMs <- 2, RefireGap <- 0, Grace <- 1,
  Timeout <- 1, OneShotBackoff <- <<1>>, RecurringBackoff <- <<1>>, Concurrency <- 2,
  LeaseLoss <- FALSE, MaxTime <- 3, MaxRev <- 1, MaxChain <- 1, MaxRestarts <- 0, MaxOps <- 0

Accounting == INSTANCE SlotAccounting WITH
  Slots <- {1, 2, 3}, RefireGap <- 1, MaxBackfill <- 2, AppendFails <- TRUE,
  Catchups <- {TRUE, FALSE}, MaxTime <- 4, MaxSessions <- 2,
  now <- slotNow, engine <- slotEngine, cand <- slotCand

Overlapping == INSTANCE WatchdogIncidents WITH
  OccRoots <- {"f"}, CtlRoots <- {}, DogRoots <- {"dog"}, MaxFlips <- [r \in {"f", "dog"} |-> 1],
  MaxFaults <- 1, MaxRoutes <- 0, Overlap <- TRUE, Targeted <- {}, run <- dogRun

Episodic == INSTANCE WatchdogIncidents WITH
  OccRoots <- {"f"}, CtlRoots <- {"c"}, DogRoots <- {}, MaxFlips <- [r \in {"f", "c"} |-> 3],
  MaxFaults <- 0, MaxRoutes <- 1, Overlap <- FALSE, Targeted <- {}, run <- dogRun

Ingress == INSTANCE NotificationIngress WITH
  Requests <- {"a", "b", "c"}, Keys <- {"k"}, Hashes <- {"h", "i"}, Wide <- {},
  MaxCrashes <- 1, MaxFaults <- 1, faults <- niFaults

Rotation == INSTANCE CredentialProvisioning WITH
  Ops <- {"a", "b", "c", "d"}, Overlap <- FALSE, MaxFaults <- 2,
  fresh <- lastSecret, faults <- cpFaults

Execution == INSTANCE DevelopmentExecution WITH
  Execs <- {"a", "b"}, Keys <- {"k"}, NoKey <- "none", MaxWorktrees <- 1, MaxContinues <- 1,
  MaxCrashes <- 1, up <- deUp, crashes <- deCrashes

Chain == INSTANCE RouteChain WITH
  Messages <- {"m", "n"}, Modes <- [m |-> {"turn"}, n |-> {"deliver"}], Routes <- 2,
  MaxRetries <- 1, MaxGens <- 2, proc <- child

Retries == INSTANCE RouteChain WITH
  Messages <- {"m"}, Modes <- [m |-> {"turn", "deliver", "custody"}], Routes <- 2,
  MaxRetries <- 2, MaxGens <- 5, proc <- child

engineVars == <<now, jobs, occ, fences, engine, cand, run, restarts, ops, turn>>
slotVars ==
  <<slotNow, enabled, activation, created, open, lastEnd, log, slotEngine, session, cursor,
    todo, slotCand>>
dogVars == <<fact, disposed, route, inc, out, stale, dogRun, sent, fresh, misread, faults>>
ingressVars ==
  <<up, record, readable, req, inflight, attempt, told, answers, calls, admitted, crashes, niFaults>>
rotationVars == <<db, store, bak, lock, receipts, op, lastSecret, applied, rolled, cpFaults, lost>>
executionVars == <<led, alive, exits, timers, handler, left, deUp, runs, deCrashes>>
registryVars == vars
chainVars == <<msg, prompts, child, gen>>
allVars ==
  <<part, engineVars, slotVars, dogVars, ingressVars, rotationVars, executionVars, registryVars,
    chainVars>>

ComponentsInit ==
  /\ part \in {"pair", "recurring", "slots", "overlap", "episodes", "ingress", "rotation",
               "execution", "registry", "chain", "retries"}
  /\ IF part = "recurring" THEN Recurring!Init ELSE Pair!Init
  /\ IF part = "episodes" THEN Episodic!Init ELSE Overlapping!Init
  /\ Accounting!Init /\ Ingress!Init /\ Rotation!Init /\ Execution!Init
  /\ Init
  /\ IF part = "retries" THEN Retries!Init ELSE Chain!Init
  /\ part # "rotation" => store = 0

InEngine ==
  UNCHANGED <<part, slotVars, dogVars, ingressVars, rotationVars, executionVars, registryVars,
              chainVars>>

InSlots ==
  UNCHANGED <<part, engineVars, dogVars, ingressVars, rotationVars, executionVars, registryVars,
              chainVars>>

InDogs ==
  UNCHANGED <<part, engineVars, slotVars, ingressVars, rotationVars, executionVars, registryVars,
              chainVars>>

InIngress ==
  UNCHANGED <<part, engineVars, slotVars, dogVars, rotationVars, executionVars, registryVars,
              chainVars>>

InRotation ==
  UNCHANGED <<part, engineVars, slotVars, dogVars, ingressVars, executionVars, registryVars,
              chainVars>>

InExecution ==
  UNCHANGED <<part, engineVars, slotVars, dogVars, ingressVars, rotationVars, registryVars,
              chainVars>>

InRegistry ==
  UNCHANGED <<part, engineVars, slotVars, dogVars, ingressVars, rotationVars, executionVars,
              chainVars>>

InChain ==
  UNCHANGED <<part, engineVars, slotVars, dogVars, ingressVars, rotationVars, executionVars,
              registryVars>>

ComponentsNext ==
  \/ part = "pair" /\ Pair!Next /\ InEngine
  \/ part = "recurring" /\ Recurring!Next /\ InEngine
  \/ part = "slots" /\ Accounting!Next /\ InSlots
  \/ part = "overlap" /\ Overlapping!Next /\ InDogs
  \/ part = "episodes" /\ Episodic!Next /\ InDogs
  \/ part = "ingress" /\ Ingress!Next /\ InIngress
  \/ part = "rotation" /\ Rotation!Next /\ InRotation
  \/ part = "execution" /\ Execution!Next /\ InExecution
  \/ part = "registry" /\ Next /\ InRegistry
  \/ part = "chain" /\ Chain!Next /\ InChain
  \/ part = "retries" /\ Retries!Next /\ InChain

ComponentsSpec == ComponentsInit /\ [][ComponentsNext]_allVars

-----------------------------------------------------------------------------
(* Two jobs that fall due together run one after the other under a limit   *)
(* of one; a recurring job has one open occurrence and one live turn at a  *)
(* time, its ledger tells the truth, and the document loads                *)
(* (SchedulerEngine).                                                      *)
EngineSafe ==
  /\ part = "pair" => Pair!ConcurrencyBound
  /\ part = "recurring" =>
       /\ Recurring!TypeOK /\ Recurring!SingleLiveTurn /\ Recurring!SingleOpenOccurrence
       /\ Recurring!DocumentValid /\ Recurring!LedgerTruth

(* The watchdog of the scheduler: a slot written off as missed never runs, *)
(* and no session records a slot twice (SlotAccounting); the incident file *)
(* that two processes and their crashes write stays one that loads, and    *)
(* the chat shows nothing twice but after an accepted send that was        *)
(* reported as failed (WatchdogIncidents).                                 *)
WatchdogSafe ==
  /\ Accounting!TypeOK /\ Accounting!MissedNeverRuns /\ Accounting!RecordedOncePerSession
  /\ part = "overlap" => Overlapping!TypeOK /\ Overlapping!IncidentSafe
  /\ part = "episodes" => Episodic!TypeOK /\ Episodic!IncidentSafe

(* Only the owner closes an incident, after a run that did not see it, and *)
(* a closed incident of an occurrence stays closed (WatchdogIncidents); a  *)
(* development execution has one terminal state (DevelopmentExecution).    *)
NothingReopens ==
  [][/\ part = "overlap" => Overlapping!ClosesTruthfullyStep
     /\ part = "episodes" => Episodic!ClosesTruthfullyStep
     /\ part = "execution" => Execution!OneTerminalStep]_allVars

(* A notification is delivered once, its record tells the truth and every  *)
(* request hears it (NotificationIngress).                                 *)
IngressSafe == Ingress!TypeOK /\ Ingress!IngressSafe

(* The database and the store never hold different secrets unless a        *)
(* receipt says so, and then no operation goes on (CredentialProvisioning).*)
CredentialSafe == Rotation!TypeOK /\ Rotation!NoSilentSplit /\ Rotation!SplitStops

(* An execution has one writer, keeps its worktree while it has one, and   *)
(* answers what is queued (DevelopmentExecution).                          *)
ExecutionSafe == Execution!TypeOK /\ Execution!ExecutionSafe

(* A message is prompted again only after a failure that its process       *)
(* reported and that left no text, and what callers and dead letters say   *)
(* of it is true (RouteChain).                                             *)
RouteSafe ==
  /\ part = "chain" => Chain!TypeOK /\ Chain!RouteSafe
  /\ part = "retries" => Retries!TypeOK /\ Retries!RouteSafe
=============================================================================
