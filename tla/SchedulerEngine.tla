--------------------------- MODULE SchedulerEngine ---------------------------
(***************************************************************************)
(* The occurrence engine of packages/scheduler.  A job definition produces *)
(* durable occurrences; each occurrence stands for at most one agent turn  *)
(* and every decision is taken from the occurrence ledger of the jobs      *)
(* document, which is only ever changed by locked read-modify-write        *)
(* mutations (store.mutateDoc): one such mutation is one step here.  What  *)
(* happens between two mutations (a scan and the reservation it leads to,  *)
(* an invocation and the writeback of its outcome, a timeout and the late  *)
(* result) is interleaved with everything else: control operations of the  *)
(* CLI, settlements by the operator, the policy and the agent itself, the  *)
(* end of turns in the Router, a crash of the engine.                      *)
(*                                                                         *)
(* An occurrence is identified by its logical coordinates                  *)
(*   <<job, scheduleRevision, nominal slot, n>>                            *)
(* where n = 0 is the natural (or catch-up) occurrence of the slot and     *)
(* n + 1 is the retry of n: the retry coordinate is the direct             *)
(* predecessor's identity, so a chain is determined by its first slot.     *)
(* Time is counted in small steps.                                         *)
(***************************************************************************)
EXTENDS Naturals, Sequences, FiniteSets

CONSTANTS
  Jobs,            \* job ids
  Agents,          \* agent ids a job may belong to
  Kind,            \* Kind[j]: "cron", "every" or "at"
  Slots,           \* Slots[j]: the nominal slot times of job j
  RetryAuto,       \* RetryAuto[j]: job.retry.auto
  DeleteAfterRun,  \* DeleteAfterRun[j]: job.deleteAfterRun
  EveryMs,         \* period of an "every" job
  RefireGap,       \* MIN_REFIRE_GAP_MS
  Grace,           \* atCatchupGraceMs
  Timeout,         \* execution deadline after admission
  OneShotBackoff,  \* ONE_SHOT_RETRY_BACKOFF_MS
  RecurringBackoff,\* RECURRING_RETRY_BACKOFF_MS
  Concurrency,     \* the engine's concurrency limit
  LeaseLoss,       \* whether the engine lease may be lost
  MaxTime,         \* bound on the clock
  MaxRev,          \* bound on schedule revisions
  MaxChain,        \* bound on retries of one slot
  MaxRestarts,     \* bound on the ends of an engine: crash, stop, lease loss
  MaxOps           \* bound on control operations after a job's creation

Kinds == {"cron", "every", "at"}
Times == 0..MaxTime
Ids == {id \in Jobs \X (1..MaxRev) \X Times \X (0..MaxChain) : id[3] \in Slots[id[1]]}

ASSUME EngineAssumption ==
  /\ Agents # {}
  /\ Kind \in [Jobs -> Kinds]
  /\ Slots \in [Jobs -> SUBSET Times]
  /\ RetryAuto \in [Jobs -> BOOLEAN]
  /\ DeleteAfterRun \in [Jobs -> BOOLEAN]
  /\ EveryMs \in Nat /\ RefireGap \in Nat /\ Grace \in Nat
  /\ Timeout \in Nat \ {0}
  /\ OneShotBackoff \in Seq(Nat \ {0}) /\ OneShotBackoff # <<>>
  /\ RecurringBackoff \in Seq(Nat \ {0}) /\ RecurringBackoff # <<>>
  /\ Concurrency \in Nat \ {0}
  /\ LeaseLoss \in BOOLEAN
  /\ MaxTime \in Nat /\ MaxRev \in Nat \ {0} /\ MaxChain \in Nat
  /\ MaxRestarts \in Nat /\ MaxOps \in Nat

(* A schedule of kind "at" is one instant (normalizeSchedule). *)
ASSUME OneShotAssumption ==
  \A j \in Jobs : Kind[j] = "at" => \A s, t \in Slots[j] : s = t

VARIABLES
  now,     \* the clock
  jobs,    \* job definitions of the document
  occ,     \* occurrence ledger of the document
  fences,  \* fenced jobs of the document
  engine,  \* phase of the engine that holds the lease
  cand,    \* candidates of the scan in progress
  run,     \* runOccurrence activations, volatile
  restarts,\* how often an engine has ended
  ops,     \* how many control operations were made
  turn     \* what the Router's turn for each occurrence really does

doc == <<jobs, occ, fences>>
vars == <<now, jobs, occ, fences, engine, cand, run, restarts, ops, turn>>

States == {"absent", "admitted", "running", "succeeded", "failed", "outcome_unknown"}

(* Answers of the invoker, by what classifyOccurrenceOutcome tells apart:  *)
(* success; a Router envelope failed / not_admitted; an error with         *)
(* started = false; an error with termination evidence; outcome_unknown    *)
(* with a trusted termination proof; everything else.  "timeout" is the    *)
(* engine's own deadline.                                                  *)
Answers == {"ok", "envelope", "unstarted", "proofError", "proofUnknown", "bare"}

Phases == {"none", "reserved", "invoked", "write", "settle", "watch"}

OccRecord ==
  [state : States, late : BOOLEAN, term : BOOLEAN, owner : Agents,
   admittedAt : Times, endedAt : Times, termAt : Times]

JobRecord ==
  [present : BOOLEAN, enabled : BOOLEAN, rev : 0..MaxRev, activation : Times, agent : Agents]

RunRecord ==
  [phase : Phases, own : BOOLEAN, started : BOOLEAN, mark : BOOLEAN,
   answer : Answers \cup {"timeout"}]

CandRecord == [kind : {"natural", "catchup", "retry"}, id : Ids, own : BOOLEAN]

SomeAgent == CHOOSE ag \in Agents : TRUE

NoOcc == [state |-> "absent", late |-> FALSE, term |-> FALSE, owner |-> SomeAgent,
          admittedAt |-> 0, endedAt |-> 0, termAt |-> 0]

NoJob == [present |-> FALSE, enabled |-> FALSE, rev |-> 0, activation |-> 0, agent |-> SomeAgent]

NoRun == [phase |-> "none", own |-> FALSE, started |-> FALSE, mark |-> FALSE, answer |-> "bare"]

-----------------------------------------------------------------------------
(* The occurrence ledger: occurrence-model.js and eligibility.js. *)

Present(r) == r.state # "absent"

(* isUnresolvedUnknown *)
Unresolved(r) == r.state = "outcome_unknown" /\ ~r.late /\ ~r.term

(* isTerminalRecord *)
Terminal(r) == r.state \in {"succeeded", "failed"} \/ (r.state = "outcome_unknown" /\ r.term)

(* operationalEndedAt; endedAt is admittedAt until it is written. *)
OpEnd(r) == IF r.term THEN r.termAt ELSE r.endedAt

OfJob == [j \in Jobs |-> {id \in Ids : id[1] = j}]

(* rebuildFences *)
RebuildFences(o) == {j \in Jobs : \E id \in OfJob[j] : Unresolved(o[id])}

(* Mutant: a reservation that has not started yet is overlooked. *)
HasOpenMut(j) == \E id \in OfJob[j] : occ[id].state \in {"running", "outcome_unknown"}

(* hasNonTerminalOccurrence *)
HasOpen(j) == \E id \in OfJob[j] : Present(occ[id]) /\ ~Terminal(occ[id])

(* latestTerminalOccurrence: of equal ends the later entry of the ledger. *)
IsLatest(id) ==
  /\ Terminal(occ[id])
  /\ \A other \in OfJob[id[1]] :
       Terminal(occ[other]) =>
         \/ OpEnd(occ[other]) < OpEnd(occ[id])
         \/ /\ OpEnd(occ[other]) = OpEnd(occ[id])
            /\ occ[other].admittedAt <= occ[id].admittedAt

(* backoffForRetry: the index is capped at the last entry of the table. *)
Backoff(j, n) ==
  LET table == IF Kind[j] = "at" THEN OneShotBackoff ELSE RecurringBackoff
  IN  table[IF n < Len(table) THEN n + 1 ELSE Len(table)]

(* Mutant: the activation boundary is forgotten. *)
NaturalDueMut(j, s) ==
  /\ s \in Slots[j] /\ s <= now
  /\ \A t \in Slots[j] : t <= now => t <= s
  /\ \A id \in OfJob[j] : IsLatest(id) => s > OpEnd(occ[id]) + RefireGap

(* naturalCandidate: slot s is the most recent slot of j and is due. *)
NaturalDue(j, s) ==
  /\ s \in Slots[j] /\ s <= now
  /\ \A t \in Slots[j] : t <= now => t <= s
  /\ s > jobs[j].activation
  /\ \A id \in OfJob[j] : IsLatest(id) => s > OpEnd(occ[id]) + RefireGap
  /\ Kind[j] = "every" => \A id \in OfJob[j] : IsLatest(id) => now >= OpEnd(occ[id]) + EveryMs
  /\ Kind[j] = "at" => now <= s + Grace

(* Mutant: whatever ended last is retried. *)
RetryPendingMut(j, pred) ==
  RetryAuto[j] /\ pred \in OfJob[j] /\ IsLatest(pred) /\ pred[2] = jobs[j].rev

(* retryCandidate, with a predecessor of the current revision ... *)
RetryPending(j, pred) ==
  /\ RetryAuto[j]
  /\ pred \in OfJob[j] /\ IsLatest(pred)
  /\ occ[pred].state = "failed"
  /\ pred[2] = jobs[j].rev

(* ... and due: the backoff counts from endedAt. *)
RetryDue(j, pred) ==
  RetryPending(j, pred) /\ now >= occ[pred].endedAt + Backoff(j, pred[4])

RetryOf(pred) == <<pred[1], pred[2], pred[3], pred[4] + 1>>

-----------------------------------------------------------------------------
(* Settlements: the locked mutations that resolve an outcome_unknown. *)

(* One-shot completion of applyJobCompletion and applyLateCompletion. *)
SucceedOneShot(job, j) ==
  IF Kind[j] # "at" THEN job
  ELSE IF DeleteAfterRun[j] THEN [job EXCEPT !.present = FALSE]
  ELSE [job EXCEPT !.enabled = FALSE]

(* A failed one-shot stays enabled only while its retries last. *)
FailOneShot(job, id) ==
  IF Kind[id[1]] = "at" /\ ~(RetryAuto[id[1]] /\ id[4] < Len(OneShotBackoff))
  THEN [job EXCEPT !.enabled = FALSE] ELSE job

(* applyJobCompletion *)
Completion(job, id, to) ==
  CASE to = "succeeded" -> SucceedOneShot(job, id[1])
    [] to = "failed" -> FailOneShot(job, id)
    [] OTHER -> job

(* Mutant: the fence is left to the next sweep. *)
LateSettleFenceMut(id, to) ==
  IF occ[id].state = "outcome_unknown" /\ ~occ[id].late
  THEN /\ occ' = [occ EXCEPT ![id] = [@ EXCEPT !.state = to, !.late = TRUE, !.endedAt = now]]
       /\ UNCHANGED <<fences, jobs>>
  ELSE UNCHANGED doc

(* applyLateSettlement and the business branches of the reconcile          *)
(* operations: a late outcome of an occurrence that has none yet.  A late  *)
(* failure does not touch the job.                                         *)
LateSettle(id, to) ==
  IF occ[id].state = "outcome_unknown" /\ ~occ[id].late
  THEN /\ occ' = [occ EXCEPT ![id] = [@ EXCEPT !.state = to, !.late = TRUE, !.endedAt = now]]
       /\ fences' = RebuildFences(occ')
       /\ jobs' = IF to = "succeeded"
                  THEN [jobs EXCEPT ![id[1]] = SucceedOneShot(@, id[1])] ELSE jobs
  ELSE UNCHANGED doc

(* The termination annotation itself: the business state stays unknown. *)
TerminationWrite(id) ==
  /\ occ' = [occ EXCEPT ![id] = [@ EXCEPT !.term = TRUE, !.termAt = now, !.endedAt = now]]
  /\ fences' = RebuildFences(occ')
  /\ jobs' = IF Kind[id[1]] = "at" THEN [jobs EXCEPT ![id[1]].enabled = FALSE] ELSE jobs

OwnerMatches(id) == jobs[id[1]].present /\ jobs[id[1]].agent = occ[id].owner

(* applyTerminationSettlement: settle once, by the owner, with a fence. *)
TerminationSettle(id) ==
  IF Unresolved(occ[id]) /\ OwnerMatches(id) /\ id[1] \in fences
  THEN TerminationWrite(id)
  ELSE UNCHANGED doc

-----------------------------------------------------------------------------
(* Control operations (control.js); they run in any process at any time. *)

Quiet == UNCHANGED <<now, engine, cand, run, restarts, ops, turn>>

(* createOrReconcileJobOp, submitOneShotOp: a fresh id. *)
CreateJob(j, ag, on) ==
  /\ jobs[j].rev = 0
  /\ jobs' = [jobs EXCEPT ![j] = [present |-> TRUE, enabled |-> on, rev |-> 1,
                                  activation |-> now, agent |-> ag]]
  /\ UNCHANGED <<occ, fences>> /\ Quiet

(* An operation on an existing job definition. *)
Control(j, job) ==
  /\ jobs[j].present
  /\ ops < MaxOps /\ ops' = ops + 1
  /\ jobs' = [jobs EXCEPT ![j] = job]
  /\ UNCHANGED <<now, occ, fences, engine, cand, run, restarts, turn>>

(* updateJobOp with a semantic change: a new revision, activated now. *)
UpdateJob(j, ag, on) ==
  /\ jobs[j].rev < MaxRev
  /\ Control(j, [present |-> TRUE, enabled |-> on, rev |-> jobs[j].rev + 1,
                 activation |-> now, agent |-> ag])

(* enableJobOp: only future slots become eligible. *)
EnableJob(j) ==
  ~jobs[j].enabled /\ Control(j, [jobs[j] EXCEPT !.enabled = TRUE, !.activation = now])

DisableJob(j) ==
  jobs[j].enabled /\ Control(j, [jobs[j] EXCEPT !.enabled = FALSE])

(* deleteJobOp removes the definition only. *)
DeleteJob(j) == Control(j, [jobs[j] EXCEPT !.present = FALSE])

-----------------------------------------------------------------------------
(* External: the Router's turns.  A turn that was requested is live until  *)
(* it ends in one of four ways; a turn that was refused never ran.         *)

Ended == {"ok", "failed", "refused", "dead"}

TurnEnds(id, how) ==
  /\ turn[id] = "live"
  /\ turn' = [turn EXCEPT ![id] = how]
  /\ UNCHANGED <<now, jobs, occ, fences, engine, cand, run, restarts, ops>>

(* The invoker and the Router's readback are truthful: which answers a     *)
(* turn allows.  "bare" (a lost connection, an unproven error) is always   *)
(* possible.                                                               *)
Truthful(id, a) ==
  CASE a = "ok" -> turn[id] = "ok"
    [] a = "envelope" -> turn[id] \in {"failed", "refused"}
    [] a = "unstarted" -> turn[id] = "refused"
    [] a \in {"proofError", "proofUnknown"} -> turn[id] = "dead"
    [] OTHER -> TRUE
-----------------------------------------------------------------------------
(* The engine: scheduler.js.  The lease admits one engine (module          *)
(* OwnerLock), so "down" means that no process holds it.                   *)

(* The job is enabled, not fenced, and has no occurrence in flight. *)
Admissible(j) == jobs[j].present /\ jobs[j].enabled /\ j \notin fences /\ ~HasOpen(j)

(* Bound: an admission leaves room for its deadline on the clock. *)
Room == now + Timeout <= MaxTime

Natural(j, kind) ==
  {[kind |-> kind, id |-> <<j, jobs[j].rev, s, 0>>, own |-> TRUE] : s \in {t \in Slots[j] : NaturalDue(j, t)}}

(* _tickOnce: a pending retry is admitted when due and meanwhile keeps     *)
(* the natural schedule of the job waiting.                                *)
TickCandidates(j) ==
  IF ~Admissible(j) THEN {}
  ELSE LET pending == {p \in OfJob[j] : RetryPending(j, p)}
       IN  IF pending # {}
           THEN {[kind |-> "retry", id |-> RetryOf(p), own |-> TRUE] :
                   p \in {q \in pending : RetryDue(j, q) /\ q[4] < MaxChain}}
           ELSE Natural(j, "natural")

CatchupCandidates(j) == IF Admissible(j) THEN Natural(j, "catchup") ELSE {}

(* Mutant: recovery puts unresolved occurrences back for admission. *)
StartRequeueMut ==
  /\ engine = "down"
  /\ occ' = [id \in Ids |->
               IF occ[id].state \in {"admitted", "running"} THEN NoOcc ELSE occ[id]]
  /\ fences' = RebuildFences(occ')
  /\ engine' \in {"catchup", "idle"}
  /\ UNCHANGED <<now, jobs, cand, run, restarts, ops, turn>>

(* start(): lease, then the recovery sweep in one mutation.  Catch-up is   *)
(* optional.                                                               *)
Start ==
  /\ engine = "down"
  /\ occ' = [id \in Ids |->
               IF occ[id].state \in {"admitted", "running"}
               THEN [occ[id] EXCEPT !.state = "outcome_unknown"] ELSE occ[id]]
  /\ fences' = RebuildFences(occ')
  /\ engine' \in {"catchup", "idle"}
  /\ UNCHANGED <<now, jobs, cand, run, restarts, ops, turn>>

(* A scan of this engine adds to what a superseded engine still has. *)
Scan(phase, found) ==
  /\ engine = phase
  /\ cand' = cand \cup found
  /\ engine' = "admit"
  /\ UNCHANGED <<now, jobs, occ, fences, run, restarts, ops, turn>>

(* _startupCatchup *)
CatchupScan ==
  Scan("catchup", IF Room THEN UNION {CatchupCandidates(j) : j \in Jobs} ELSE {})

(* _tickOnce; a tick that finds nothing changes nothing. *)
TickScan ==
  /\ Room /\ UNION {TickCandidates(j) : j \in Jobs} # {}
  /\ Scan("idle", UNION {TickCandidates(j) : j \in Jobs})

(* The runs an engine counts against its concurrency limit. *)
Inflight(own) ==
  {id \in Ids : run[id].own = own /\ run[id].phase \in {"reserved", "invoked", "write", "settle"}}

(* reserveOccurrence: eligibility is decided again under the lock, on the  *)
(* latest document, with the candidate of a scan that may be stale.        *)
Eligible(c) ==
  LET j == c.id[1] IN
  /\ occ[c.id].state = "absent"
  /\ Admissible(j)
  /\ jobs[j].rev = c.id[2]
  /\ IF c.kind = "retry"
     THEN \E p \in OfJob[j] : RetryDue(j, p) /\ RetryOf(p) = c.id
     ELSE NaturalDue(j, c.id[3])

Reserve(c) ==
  /\ occ' = [occ EXCEPT ![c.id] =
               [state |-> "admitted", late |-> FALSE, term |-> FALSE,
                owner |-> jobs[c.id[1]].agent,
                admittedAt |-> now, endedAt |-> now, termAt |-> 0]]
  /\ run' = [run EXCEPT ![c.id] = [NoRun EXCEPT !.phase = "reserved", !.own = c.own]]

(* Mutant: the concurrency limit is checked by the scan only. *)
AdmitMut(c) ==
  /\ c \in cand
  /\ c.own => engine = "admit"
  /\ cand' = cand \ {c}
  /\ IF Eligible(c) /\ Room THEN Reserve(c) ELSE UNCHANGED <<occ, run>>
  /\ UNCHANGED <<now, jobs, fences, engine, restarts, ops, turn>>

(* The admission loop of a scan, one candidate at a time; at the           *)
(* concurrency limit the rest of the candidates is dropped.                *)
Admit(c) ==
  LET full == Cardinality(Inflight(c.own)) >= Concurrency IN
  /\ c \in cand
  /\ c.own => engine = "admit"
  /\ cand' = IF full THEN {d \in cand : d.own # c.own} ELSE cand \ {c}
  /\ IF ~full /\ Eligible(c) /\ Room THEN Reserve(c) ELSE UNCHANGED <<occ, run>>
  /\ UNCHANGED <<now, jobs, fences, engine, restarts, ops, turn>>

ScanDone ==
  /\ engine = "admit"
  /\ \A c \in cand : ~c.own
  /\ engine' = "idle"
  /\ UNCHANGED <<now, jobs, occ, fences, cand, run, restarts, ops, turn>>

(* An engine ends: the lease is free for the next one. *)
EngineEnds ==
  /\ engine # "down" /\ restarts < MaxRestarts
  /\ engine' = "down"
  /\ restarts' = restarts + 1
  /\ UNCHANGED <<now, jobs, occ, fences, ops, turn>>

(* stop(): after the last run; a watcher of a late result may remain. *)
Stop ==
  /\ engine = "idle" /\ Inflight(TRUE) = {}
  /\ EngineEnds
  /\ UNCHANGED <<cand, run>>

(* A crash loses everything that is not in the document. *)
Crash ==
  /\ EngineEnds
  /\ cand' = {c \in cand : ~c.own}
  /\ run' = [id \in Ids |-> IF run[id].own THEN NoRun ELSE run[id]]

(* _assertEngineLeaseHeld fails: the engine halts, its process lives on    *)
(* with the runs and the candidates it has.                                *)
LeaseLost ==
  /\ LeaseLoss
  /\ EngineEnds
  /\ cand' = {[c EXCEPT !.own = FALSE] : c \in cand}
  /\ run' = [id \in Ids |-> [run[id] EXCEPT !.own = FALSE]]

-----------------------------------------------------------------------------
(* runOccurrence (occurrence.js). *)

(* invokeWithDeadline: the turn is requested. *)
Invoke(id) ==
  /\ run[id].phase = "reserved"
  /\ run' = [run EXCEPT ![id].phase = "invoked"]
  /\ turn' = [turn EXCEPT ![id] = "live"]
  /\ UNCHANGED <<now, jobs, occ, fences, engine, cand, restarts, ops>>

(* onStart: the flag is set at once, the ledger write is not awaited. *)
OnStart(id) ==
  /\ ~run[id].started
  /\ \/ run[id].phase = "invoked"
     \/ run[id].phase = "write" /\ run[id].answer = "timeout"
  /\ run' = [run EXCEPT ![id] = [@ EXCEPT !.started = TRUE, !.mark = TRUE]]
  /\ UNCHANGED <<now, jobs, occ, fences, engine, cand, restarts, ops, turn>>

(* markOccurrenceRunning, the write: only an admitted record moves. *)
MarkRunning(id) ==
  /\ run[id].mark
  /\ run' = [run EXCEPT ![id] = [@ EXCEPT !.mark = FALSE]]
  /\ occ' = IF occ[id].state = "admitted"
            THEN [occ EXCEPT ![id].state = "running"] ELSE occ
  /\ UNCHANGED <<now, jobs, fences, engine, cand, restarts, ops, turn>>

(* The invocation settles before the deadline. *)
Answer(id, a) ==
  /\ run[id].phase = "invoked"
  /\ Truthful(id, a)
  /\ run' = [run EXCEPT ![id] = [@ EXCEPT !.phase = "write", !.answer = a]]
  /\ UNCHANGED <<now, jobs, occ, fences, engine, cand, restarts, ops, turn>>

(* Mutant: the deadline is armed by the start evidence. *)
DeadlineMut(id) ==
  /\ run[id].phase = "invoked" /\ run[id].started
  /\ now >= occ[id].admittedAt + Timeout
  /\ run' = [run EXCEPT ![id] = [@ EXCEPT !.phase = "write", !.answer = "timeout"]]
  /\ UNCHANGED <<now, jobs, occ, fences, engine, cand, restarts, ops, turn>>

(* The deadline fires first; the turn itself is not stopped by it. *)
Deadline(id) ==
  /\ run[id].phase = "invoked"
  /\ now >= occ[id].admittedAt + Timeout
  /\ run' = [run EXCEPT ![id] = [@ EXCEPT !.phase = "write", !.answer = "timeout"]]
  /\ UNCHANGED <<now, jobs, occ, fences, engine, cand, restarts, ops, turn>>

(* Mutant: an error is a failure. *)
ClassifyMut(a, started) ==
  CASE a = "ok" -> "succeeded"
    [] a = "timeout" -> "outcome_unknown"
    [] OTHER -> "failed"

(* classifyOccurrenceOutcome: no failure without proof. *)
Classify(a, started) ==
  CASE a = "ok" -> "succeeded"
    [] a \in {"envelope", "proofError"} -> "failed"
    [] a = "unstarted" /\ ~started -> "failed"
    [] OTHER -> "outcome_unknown"

(* Mutant: the outcome is written whatever the record says by now. *)
WriteOutcomeMut(id) ==
  /\ run[id].phase = "write"
  /\ occ' = [occ EXCEPT ![id] = [@ EXCEPT !.state = Classify(run[id].answer, run[id].started), !.endedAt = now]]
  /\ fences' = RebuildFences(occ')
  /\ run' = [run EXCEPT ![id] = NoRun]
  /\ UNCHANGED <<now, jobs, engine, cand, restarts, ops, turn>>

(* writeOccurrenceOutcome.  A record that is still open takes the outcome; *)
(* one that is already in that state only completes the job; any other     *)
(* transition is illegal, throws, and the crash guard's own write is a     *)
(* no-op or throws too.  A start-evidence write that is still pending can  *)
(* no longer change anything after this one.                               *)
WriteOutcome(id) ==
  LET to == Classify(run[id].answer, run[id].started)
      open == occ[id].state \in {"admitted", "running"}
      legal == open \/ occ[id].state = to
      next == CASE ~legal -> "none"
                [] legal /\ run[id].answer = "proofUnknown" -> "settle"
                [] legal /\ run[id].answer = "timeout" -> "watch"
                [] OTHER -> "none"
  IN /\ run[id].phase = "write"
     /\ occ' = IF open THEN [occ EXCEPT ![id] = [@ EXCEPT !.state = to, !.endedAt = now]] ELSE occ
     /\ fences' = RebuildFences(occ')
     /\ jobs' = IF legal THEN [jobs EXCEPT ![id[1]] = Completion(@, id, to)] ELSE jobs
     /\ run' = [run EXCEPT ![id] = IF next = "none" THEN NoRun ELSE [@ EXCEPT !.phase = next, !.mark = FALSE]]
     /\ UNCHANGED <<now, engine, cand, restarts, ops, turn>>

(* applyTrustedTermination after the writeback. *)
SettleProof(id) ==
  /\ run[id].phase = "settle"
  /\ TerminationSettle(id)
  /\ run' = [run EXCEPT ![id] = NoRun]
  /\ UNCHANGED <<now, engine, cand, restarts, ops, turn>>

(* watchLateSettlement: the timed-out invocation settles after all.        *)
LateResult(id, a) ==
  /\ run[id].phase = "watch"
  /\ Truthful(id, a)
  /\ CASE a = "ok" -> LateSettle(id, "succeeded")
       [] a \in {"envelope", "unstarted", "proofError"} -> LateSettle(id, "failed")
       [] a = "proofUnknown" -> TerminationSettle(id)
       [] OTHER -> UNCHANGED doc
  /\ run' = [run EXCEPT ![id] = NoRun]
  /\ UNCHANGED <<now, engine, cand, restarts, ops, turn>>
-----------------------------------------------------------------------------
(* Reconciliation of an outcome_unknown. *)

(* Mutant: a termination without a business outcome is not consulted. *)
ReadbackMut(id) ==
  /\ engine = "idle"
  /\ Unresolved(occ[id]) /\ jobs[id[1]].present
  /\ CASE turn[id] = "ok" -> LateSettle(id, "succeeded")
       [] turn[id] \in {"failed", "refused"} -> LateSettle(id, "failed")
       [] OTHER -> FALSE
  /\ Quiet

(* reconcileTrustedReadbacks, at the start of a tick: the Router's         *)
(* published disposition of the exact turn.                                *)
Readback(id) ==
  /\ engine = "idle"
  /\ Unresolved(occ[id]) /\ jobs[id[1]].present
  /\ CASE turn[id] = "ok" -> LateSettle(id, "succeeded")
       [] turn[id] \in {"failed", "refused"} -> LateSettle(id, "failed")
       [] turn[id] = "dead" -> TerminationSettle(id)
       [] OTHER -> FALSE
  /\ Quiet

(* The turn has ended, or no process will ever request it. *)
NeverRunning(id) == turn[id] \in Ended \/ (turn[id] = "none" /\ run[id].phase = "none")

(* reconcileOccurrence: the operator's evidence is assumed to be right.    *)
OperatorReconcile(id, to) ==
  /\ occ[id].state = "outcome_unknown" /\ ~occ[id].late
  /\ CASE to = "succeeded" -> turn[id] = "ok" /\ LateSettle(id, to)
       [] to = "failed" -> NeverRunning(id) /\ turn[id] # "ok" /\ LateSettle(id, to)
       [] OTHER -> /\ Unresolved(occ[id]) /\ NeverRunning(id)
                   /\ jobs[id[1]].present
                   /\ TerminationWrite(id)
  /\ Quiet

(* autoReconcileOccurrences: never for a one-shot, only for the owner's    *)
(* own exact evidence, which is read again under the lock.                 *)
AutoReconcile(id) ==
  /\ Kind[id[1]] # "at" /\ OwnerMatches(id)
  /\ occ[id].state = "outcome_unknown" /\ ~occ[id].late
  /\ CASE turn[id] = "ok" -> LateSettle(id, "succeeded")
       [] turn[id] = "failed" -> LateSettle(id, "failed")
       [] turn[id] = "dead" -> Unresolved(occ[id]) /\ TerminationWrite(id)
       [] OTHER -> FALSE
  /\ Quiet

(* self_ops reconcile_turn: termination only. *)
SelfReconcile(id) ==
  /\ OwnerMatches(id) /\ Unresolved(occ[id])
  /\ turn[id] = "dead"
  /\ TerminationWrite(id)
  /\ Quiet

-----------------------------------------------------------------------------
Advance ==
  /\ now < MaxTime
  /\ now' = now + 1
  /\ UNCHANGED <<jobs, occ, fences, engine, cand, run, restarts, ops, turn>>

Init ==
  /\ now = 0
  /\ jobs = [j \in Jobs |-> NoJob]
  /\ occ = [id \in Ids |-> NoOcc]
  /\ fences = {}
  /\ engine = "down"
  /\ cand = {}
  /\ run = [id \in Ids |-> NoRun]
  /\ restarts = 0
  /\ ops = 0
  /\ turn = [id \in Ids |-> "none"]

ControlNext ==
  \E j \in Jobs :
    \/ \E ag \in Agents, on \in BOOLEAN : CreateJob(j, ag, on) \/ UpdateJob(j, ag, on)
    \/ EnableJob(j) \/ DisableJob(j) \/ DeleteJob(j)

EngineNext ==
  \/ Start \/ CatchupScan \/ TickScan \/ ScanDone
  \/ \E c \in cand : Admit(c)
  \/ Stop \/ Crash \/ LeaseLost

RunNext(id) ==
  \/ Invoke(id) \/ OnStart(id) \/ MarkRunning(id) \/ Deadline(id)
  \/ WriteOutcome(id) \/ SettleProof(id)
  \/ \E a \in Answers : Answer(id, a) \/ LateResult(id, a)

ReconcileNext(id) ==
  \/ Readback(id) \/ AutoReconcile(id) \/ SelfReconcile(id)
  \/ \E to \in {"succeeded", "failed", "terminated"} : OperatorReconcile(id, to)

Next ==
  \/ Advance
  \/ ControlNext
  \/ EngineNext
  \/ \E id \in Ids :
       \/ RunNext(id) \/ ReconcileNext(id)
       \/ \E how \in Ended : TurnEnds(id, how)

Spec == Init /\ [][Next]_vars

(* Fairness of one engine: the next engine starts, ticks and admissions    *)
(* go on, an activation of runOccurrence takes its next step (its deadline *)
(* timer at the latest), and the readback of a tick gets its answer.       *)
(* Nothing is assumed of the turns, the operator or the control            *)
(* operations.                                                             *)
FairSpec ==
  /\ Spec
  /\ WF_vars(Advance)
  /\ WF_vars(Start) /\ WF_vars(CatchupScan) /\ WF_vars(TickScan) /\ WF_vars(ScanDone)
  /\ WF_vars(\E c \in cand : Admit(c))
  /\ \A id \in Ids :
       /\ WF_vars(Invoke(id)) /\ WF_vars(Deadline(id))
       /\ WF_vars(WriteOutcome(id)) /\ WF_vars(SettleProof(id))
       /\ WF_vars(Readback(id))

-----------------------------------------------------------------------------
TypeOK ==
  /\ now \in Times
  /\ jobs \in [Jobs -> JobRecord]
  /\ occ \in [Ids -> OccRecord]
  /\ fences \subseteq Jobs
  /\ engine \in {"down", "catchup", "idle", "admit"}
  /\ cand \subseteq CandRecord
  /\ run \in [Ids -> RunRecord]
  /\ restarts \in 0..MaxRestarts
  /\ ops \in 0..MaxOps
  /\ turn \in [Ids -> {"none", "live"} \cup Ended]

(* Whatever crashes, times out, answers late or is reconciled meanwhile,   *)
(* no two turns of one job are ever live in the Router at the same time.   *)
SingleLiveTurn ==
  \A j \in Jobs : \A a, b \in OfJob[j] : turn[a] = "live" /\ turn[b] = "live" => a = b

(* At most one occurrence of a job is without a terminal record, so the    *)
(* fence of a job is the fence of one occurrence.                          *)
SingleOpenOccurrence ==
  \A j \in Jobs : \A a, b \in OfJob[j] :
    /\ Present(occ[a]) /\ ~Terminal(occ[a])
    /\ Present(occ[b]) /\ ~Terminal(occ[b])
    => a = b

(* Every committed document passes the checks store.js makes on each       *)
(* mutation and each load (a document that fails them stops every tick):   *)
(* the stored fences are those the ledger implies, the predecessor of a    *)
(* retry exists and failed, and the settlement fields fit the state.       *)
DocumentValid ==
  /\ fences = RebuildFences(occ)
  /\ \A id \in Ids : Present(occ[id]) =>
       /\ id[4] > 0 => occ[<<id[1], id[2], id[3], id[4] - 1>>].state = "failed"
       /\ occ[id].late => occ[id].state \in {"succeeded", "failed"}
       /\ occ[id].term => occ[id].state = "outcome_unknown" \/ occ[id].late
       /\ occ[id].endedAt >= occ[id].admittedAt

(* The ledger never claims more than the turn proves: a success ran to its *)
(* end, and a failed or terminated occurrence is not running and will not  *)
(* run.                                                                    *)
LedgerTruth ==
  \A id \in Ids :
    /\ occ[id].state = "succeeded" => turn[id] = "ok"
    /\ occ[id].state = "failed" => turn[id] \notin {"live", "ok"}
    /\ Terminal(occ[id]) => NeverRunning(id) \/ run[id].phase = "watch"

(* The engine never has more activations of runOccurrence in flight than   *)
(* its limit, although it starts them without waiting and the scan decided *)
(* before the earlier ones of the same tick were counted.                  *)
ConcurrencyBound == Cardinality(Inflight(TRUE)) <= Concurrency

(* Settle once: a business outcome is final, whoever writes next; a        *)
(* termination settlement is never moved or withdrawn.                     *)
SettleOnce ==
  [][\A id \in Ids :
       /\ occ[id].state \in {"succeeded", "failed"} => occ'[id] = occ[id]
       /\ occ[id].term => occ'[id].term /\ occ'[id].termAt = occ[id].termAt]_vars

(* An occurrence is invoked at most once, also across restarts and retried *)
(* scans: a turn that was requested is never requested again.              *)
InvokedOnce ==
  [][\A id \in Ids : turn[id] \in Ended => turn'[id] = turn[id]]_vars

(* No backfill: a natural or catch-up admission is for a slot later than   *)
(* every earlier admission of the job and than its activation.             *)
NoBackfill ==
  [][\A id \in Ids :
       ~Present(occ[id]) /\ Present(occ'[id]) /\ id[4] = 0 =>
         /\ id[3] > jobs[id[1]].activation
         /\ \A other \in OfJob[id[1]] : Present(occ[other]) => occ[other].admittedAt < id[3]]_vars

(* A one-shot that succeeded is never run again in the same revision, also *)
(* when it is enabled again or a retry was pending.                        *)
OneShotSucceedsOnce ==
  [][\A id, done \in Ids :
       /\ ~Present(occ[id]) /\ Present(occ'[id])
       /\ Kind[id[1]] = "at" /\ done[1] = id[1] /\ done[2] = id[2]
       => occ[done].state # "succeeded"]_vars

(* Automatic retries of a one-shot stop at the end of the backoff table    *)
(* (30 s, 60 s, 5 min: at most three).                                     *)
OneShotRetryBound ==
  \A id \in Ids : Kind[id[1]] = "at" /\ Present(occ[id]) => id[4] <= Len(OneShotBackoff)

(* An occurrence never stays admitted or running: it gets an outcome, or   *)
(* the deadline or the recovery sweep makes it unknown.                    *)
OpenSettles ==
  \A id \in Ids :
    occ[id].state \in {"admitted", "running"} ~> occ[id].state \notin {"admitted", "running"}

(* Self-heal: an unknown occurrence whose turn has ended is settled, and   *)
(* its fence released, unless its job was deleted, or the job changed      *)
(* hands, in which case only the operator can release it.                  *)
UnknownHeals ==
  \A id \in Ids :
    Unresolved(occ[id]) /\ turn[id] \in Ended
      ~> \/ ~Unresolved(occ[id])
         \/ ~OwnerMatches(id)

=============================================================================
