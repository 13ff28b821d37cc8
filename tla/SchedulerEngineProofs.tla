------------------------- MODULE SchedulerEngineProofs -------------------------
(***************************************************************************)
(* Theorems about the occurrence engine for any jobs, schedules, backoff   *)
(* tables and bounds.                                                      *)
(***************************************************************************)
EXTENDS SchedulerEngine, FiniteSetTheorems, WellFoundedInduction, TLAPS

(* The components of an occurrence identity. *)
LEMMA IdParts ==
  ASSUME NEW id \in Ids
  PROVE  id[1] \in Jobs /\ id[2] \in 1..MaxRev /\ id[3] \in Times /\ id[4] \in 0..MaxChain
  BY DEF Ids

(* The default records are records of their type. *)
LEMMA Defaults == NoOcc \in OccRecord /\ NoJob \in JobRecord /\ NoRun \in RunRecord
<1>1. SomeAgent \in Agents
  BY EngineAssumption DEF SomeAgent
<1>2. 0 \in Times /\ 0 \in 0..MaxRev
  BY EngineAssumption DEF Times
<1> QED BY <1>1, <1>2 DEF NoOcc, NoJob, NoRun, OccRecord, JobRecord, RunRecord, States, Phases, Answers

(* The retry coordinate of an occurrence below the chain bound exists. *)
LEMMA RetryIsId ==
  ASSUME NEW p \in Ids, p[4] < MaxChain
  PROVE  RetryOf(p) \in Ids
  BY EngineAssumption DEF Ids, RetryOf

(* A job definition that exists has a revision. *)
Revised == \A j \in Jobs : jobs[j].present => jobs[j].rev # 0

TypeInv == TypeOK /\ Revised

(* What a completion may do to a job: the definition may go, be disabled,  *)
(* or stay; its revision stays.                                            *)
Completes(job, new) ==
  new \in JobRecord /\ new.rev = job.rev /\ (new.present => job.present)

(* applyJobCompletion and applyLateCompletion only complete a job. *)
LEMMA CompletionType ==
  ASSUME NEW id \in Ids, NEW job \in JobRecord, NEW to
  PROVE  Completes(job, Completion(job, id, to)) /\ Completes(job, SucceedOneShot(job, id[1]))
<1>1. Completes(job, SucceedOneShot(job, id[1]))
  BY DEF SucceedOneShot, JobRecord, Completes
<1>2. Completes(job, FailOneShot(job, id))
  BY DEF FailOneShot, JobRecord, Completes
<1>3. Completes(job, job)
  BY DEF Completes
<1> QED BY <1>1, <1>2, <1>3 DEF Completion

(* Completing one job keeps the table of jobs well typed. *)
LEMMA JobsType ==
  ASSUME TypeInv, NEW j \in Jobs, NEW new, Completes(jobs[j], new),
         jobs' = [jobs EXCEPT ![j] = new]
  PROVE  jobs' \in [Jobs -> JobRecord] /\ Revised'
<1>1. jobs \in [Jobs -> JobRecord] /\ new \in JobRecord
  BY DEF TypeInv, TypeOK, Completes
<1>2. jobs' \in [Jobs -> JobRecord]
  BY <1>1
<1>3. ASSUME NEW k \in Jobs, jobs'[k].present PROVE jobs'[k].rev # 0
  <2>1. CASE k = j
    BY <1>1, <1>3, <2>1 DEF TypeInv, Revised, Completes
  <2>2. CASE k # j
    BY <1>1, <1>3, <2>2 DEF TypeInv, Revised
  <2> QED BY <2>1, <2>2
<1> QED BY <1>2, <1>3 DEF Revised

(* A settlement keeps the document well typed. *)
LEMMA SettleType ==
  ASSUME TypeInv, NEW id \in Ids, NEW to \in {"succeeded", "failed"},
         LateSettle(id, to) \/ TerminationSettle(id) \/ TerminationWrite(id)
  PROVE  /\ jobs' \in [Jobs -> JobRecord] /\ Revised'
         /\ occ' \in [Ids -> OccRecord]
         /\ fences' \subseteq Jobs
<1>1. id[1] \in Jobs /\ jobs[id[1]] \in JobRecord
  BY IdParts DEF TypeInv, TypeOK
<1>2. RebuildFences(occ') \subseteq Jobs
  BY DEF RebuildFences
<1>3. CASE UNCHANGED doc
  BY <1>3 DEF doc, TypeInv, TypeOK, Revised
<1>o. occ[id] \in OccRecord /\ now \in Times /\ to \in States
  BY DEF TypeInv, TypeOK, States
<1>4. CASE TerminationWrite(id)
  <2>1. [occ[id] EXCEPT !.term = TRUE, !.termAt = now, !.endedAt = now] \in OccRecord
    BY <1>o DEF OccRecord
  <2>2. occ' \in [Ids -> OccRecord]
    BY <1>4, <2>1 DEF TerminationWrite, TypeInv, TypeOK
  <2>3. Completes(jobs[id[1]], [jobs[id[1]] EXCEPT !.enabled = FALSE])
    BY <1>1 DEF Completes, JobRecord
  <2>4. jobs' \in [Jobs -> JobRecord] /\ Revised'
    <3>1. CASE Kind[id[1]] = "at"
      <4>1. jobs' = [jobs EXCEPT ![id[1]] = [jobs[id[1]] EXCEPT !.enabled = FALSE]]
        BY <1>4, <3>1 DEF TerminationWrite
      <4> QED BY <1>1, <2>3, <4>1, JobsType
    <3>2. CASE Kind[id[1]] # "at"
      BY <1>4, <3>2 DEF TerminationWrite, TypeInv, TypeOK, Revised
    <3> QED BY <3>1, <3>2
  <2> QED BY <1>2, <1>4, <2>2, <2>4 DEF TerminationWrite
<1>5. CASE LateSettle(id, to) /\ ~UNCHANGED doc
  <2>1. [occ[id] EXCEPT !.state = to, !.late = TRUE, !.endedAt = now] \in OccRecord
    BY <1>o DEF OccRecord
  <2>2. occ' \in [Ids -> OccRecord]
    BY <1>5, <2>1 DEF LateSettle, TypeInv, TypeOK
  <2>3. Completes(jobs[id[1]], SucceedOneShot(jobs[id[1]], id[1]))
    BY <1>1, CompletionType
  <2>4. jobs' \in [Jobs -> JobRecord] /\ Revised'
    <3>1. CASE to = "succeeded"
      <4>1. jobs' = [jobs EXCEPT ![id[1]] = SucceedOneShot(jobs[id[1]], id[1])]
        BY <1>5, <3>1 DEF LateSettle
      <4> QED BY <1>1, <2>3, <4>1, JobsType
    <3>2. CASE to # "succeeded"
      BY <1>5, <3>2 DEF LateSettle, TypeInv, TypeOK, Revised
    <3> QED BY <3>1, <3>2
  <2> QED BY <1>2, <1>5, <2>2, <2>4 DEF LateSettle
<1> QED BY <1>3, <1>4, <1>5 DEF TerminationSettle

-----------------------------------------------------------------------------
(* The initial state is well typed. *)
LEMMA InitType == Init => TypeOK
<1>1. Init => now \in Times /\ restarts \in 0..MaxRestarts /\ ops \in 0..MaxOps
  BY EngineAssumption DEF Init, Times
<1> QED BY <1>1, Defaults DEF Init, TypeOK

(* A scan only finds candidates with an identity within the bounds. *)
LEMMA CandidateType ==
  ASSUME TypeOK, NEW j \in Jobs, jobs[j].rev \in 1..MaxRev
  PROVE  TickCandidates(j) \subseteq CandRecord /\ CatchupCandidates(j) \subseteq CandRecord
<1>1. ASSUME NEW kind \in {"natural", "catchup"}, NEW c \in Natural(j, kind)
      PROVE  c \in CandRecord
  <2>1. PICK s \in Slots[j] : c = [kind |-> kind, id |-> <<j, jobs[j].rev, s, 0>>, own |-> TRUE]
    BY <1>1 DEF Natural
  <2>2. <<j, jobs[j].rev, s, 0>> \in Ids
    BY EngineAssumption DEF Ids
  <2> QED BY <2>1, <2>2 DEF CandRecord
<1>2. ASSUME NEW c \in TickCandidates(j), c \notin Natural(j, "natural")
      PROVE  c \in CandRecord
  <2>1. PICK p \in Ids : p[4] < MaxChain /\ c = [kind |-> "retry", id |-> RetryOf(p), own |-> TRUE]
    BY <1>2 DEF TickCandidates, OfJob
  <2>2. RetryOf(p) \in Ids
    BY <2>1, RetryIsId
  <2> QED BY <2>1, <2>2 DEF CandRecord
<1>3. ASSUME NEW c \in CatchupCandidates(j) PROVE c \in Natural(j, "catchup")
  BY <1>3 DEF CatchupCandidates
<1> QED BY <1>1, <1>2, <1>3

(* Control operations keep the types and give every job a revision. *)
LEMMA ControlType == TypeInv /\ ControlNext => TypeInv'
<1> SUFFICES ASSUME TypeInv, ControlNext PROVE TypeInv'
  OBVIOUS
<1>j. PICK j \in Jobs :
        \/ \E ag \in Agents, on \in BOOLEAN : CreateJob(j, ag, on) \/ UpdateJob(j, ag, on)
        \/ EnableJob(j) \/ DisableJob(j) \/ DeleteJob(j)
  BY DEF ControlNext
<1>0. 1 \in 0..MaxRev /\ jobs[j] \in JobRecord /\ now \in Times
  BY EngineAssumption DEF TypeInv, TypeOK
<1>a. ASSUME NEW job \in JobRecord, job.present => job.rev # 0,
             jobs' = [jobs EXCEPT ![j] = job]
      PROVE  jobs' \in [Jobs -> JobRecord] /\ Revised'
  BY <1>a DEF TypeInv, TypeOK, Revised
<1>1. ASSUME NEW ag \in Agents, NEW on \in BOOLEAN, CreateJob(j, ag, on) PROVE TypeInv'
  <2>1. [present |-> TRUE, enabled |-> on, rev |-> 1, activation |-> now, agent |-> ag] \in JobRecord
    BY <1>0 DEF JobRecord
  <2>r. [present |-> TRUE, enabled |-> on, rev |-> 1, activation |-> now, agent |-> ag].rev # 0
    OBVIOUS
  <2>2. jobs' \in [Jobs -> JobRecord] /\ Revised'
    BY <1>a, <1>1, <2>1, <2>r DEF CreateJob
  <2> QED BY <1>1, <2>2 DEF CreateJob, Quiet, TypeInv, TypeOK
<1>2. ASSUME NEW job \in JobRecord, Control(j, job), job.present => job.rev # 0
      PROVE  TypeInv'
  <2>1. ops' \in 0..MaxOps
    BY <1>2, EngineAssumption DEF Control, TypeInv, TypeOK
  <2> QED BY <1>a, <1>2, <2>1 DEF Control, TypeInv, TypeOK
<1>3. ASSUME NEW ag \in Agents, NEW on \in BOOLEAN, UpdateJob(j, ag, on) PROVE TypeInv'
  <2>1. jobs[j].rev \in 0..MaxRev
    BY <1>0 DEF JobRecord
  <2>2. jobs[j].rev + 1 \in 0..MaxRev /\ jobs[j].rev + 1 # 0
    BY <1>3, <2>1, EngineAssumption DEF UpdateJob
  <2>3. [present |-> TRUE, enabled |-> on, rev |-> jobs[j].rev + 1,
         activation |-> now, agent |-> ag] \in JobRecord
    BY <1>0, <2>2 DEF JobRecord
  <2> QED BY <1>2, <1>3, <2>2, <2>3 DEF UpdateJob
<1>4. CASE EnableJob(j)
  <2>1. [jobs[j] EXCEPT !.enabled = TRUE, !.activation = now] \in JobRecord
    BY <1>0 DEF JobRecord
  <2>2. [jobs[j] EXCEPT !.enabled = TRUE, !.activation = now].rev = jobs[j].rev
    BY <1>0 DEF JobRecord
  <2> QED BY <1>2, <1>4, <2>1, <2>2 DEF EnableJob, Control, TypeInv, Revised
<1>5. CASE DisableJob(j)
  <2>1. [jobs[j] EXCEPT !.enabled = FALSE] \in JobRecord
    BY <1>0 DEF JobRecord
  <2>2. [jobs[j] EXCEPT !.enabled = FALSE].rev = jobs[j].rev
    BY <1>0 DEF JobRecord
  <2> QED BY <1>2, <1>5, <2>1, <2>2 DEF DisableJob, Control, TypeInv, Revised
<1>6. CASE DeleteJob(j)
  <2>1. [jobs[j] EXCEPT !.present = FALSE] \in JobRecord
    BY <1>0 DEF JobRecord
  <2>2. ~[jobs[j] EXCEPT !.present = FALSE].present
    BY <1>0 DEF JobRecord
  <2> QED BY <1>2, <1>6, <2>1, <2>2 DEF DeleteJob
<1> QED BY <1>j, <1>1, <1>3, <1>4, <1>5, <1>6

(* Start, scans, admissions and every way an engine ends keep the types. *)
LEMMA EngineType == TypeInv /\ EngineNext => TypeInv'
<1> SUFFICES ASSUME TypeInv, EngineNext PROVE TypeInv'
  OBVIOUS
<1>1. CASE Start
  <2>1. ASSUME NEW r \in OccRecord PROVE [r EXCEPT !.state = "outcome_unknown"] \in OccRecord
    BY DEF OccRecord, States
  <2>2. occ' \in [Ids -> OccRecord]
    BY <1>1, <2>1 DEF Start, TypeInv, TypeOK
  <2>3. fences' \subseteq Jobs
    BY <1>1 DEF Start, RebuildFences
  <2> QED BY <1>1, <2>2, <2>3 DEF Start, TypeInv, TypeOK, Revised
<1>2. CASE CatchupScan \/ TickScan
  <2>1. ASSUME NEW j \in Jobs, Admissible(j) PROVE jobs[j].rev \in 1..MaxRev
    <3>1. jobs[j].rev \in 0..MaxRev /\ jobs[j].rev # 0
      BY <2>1 DEF Admissible, TypeInv, TypeOK, Revised, JobRecord
    <3> QED BY <3>1, EngineAssumption
  <2>2. ASSUME NEW j \in Jobs
        PROVE  TickCandidates(j) \subseteq CandRecord /\ CatchupCandidates(j) \subseteq CandRecord
    <3>1. CASE Admissible(j)
      BY <2>1, <3>1, CandidateType DEF TypeInv
    <3>2. CASE ~Admissible(j)
      BY <3>2 DEF TickCandidates, CatchupCandidates
    <3> QED BY <3>1, <3>2
  <2>3. cand' \subseteq CandRecord
    BY <1>2, <2>2 DEF CatchupScan, TickScan, Scan, TypeInv, TypeOK
  <2> QED BY <1>2, <2>3 DEF CatchupScan, TickScan, Scan, TypeInv, TypeOK, Revised
<1>3. CASE ScanDone
  BY <1>3 DEF ScanDone, TypeInv, TypeOK, Revised
<1>4. ASSUME NEW c \in cand, Admit(c) PROVE TypeInv'
  <2>1. cand' \subseteq CandRecord /\ c \in CandRecord
    BY <1>4 DEF Admit, TypeInv, TypeOK
  <2>2. c.id \in Ids /\ c.id[1] \in Jobs /\ c.own \in BOOLEAN
    BY <2>1, IdParts DEF CandRecord
  <2>3. ASSUME Reserve(c) PROVE occ' \in [Ids -> OccRecord] /\ run' \in [Ids -> RunRecord]
    <3>1. 0 \in Times /\ now \in Times /\ jobs[c.id[1]].agent \in Agents
      BY <2>2, EngineAssumption DEF TypeInv, TypeOK, JobRecord, Times
    <3>2. [state |-> "admitted", late |-> FALSE, term |-> FALSE, owner |-> jobs[c.id[1]].agent,
           admittedAt |-> now, endedAt |-> now, termAt |-> 0] \in OccRecord
      BY <3>1 DEF OccRecord, States
    <3>3. [NoRun EXCEPT !.phase = "reserved", !.own = c.own] \in RunRecord
      BY <2>2, Defaults DEF RunRecord, Phases
    <3> QED BY <2>2, <2>3, <3>2, <3>3 DEF Reserve, TypeInv, TypeOK
  <2>4. occ' \in [Ids -> OccRecord] /\ run' \in [Ids -> RunRecord]
    BY <1>4, <2>3 DEF Admit, TypeInv, TypeOK
  <2> QED BY <1>4, <2>1, <2>4 DEF Admit, TypeInv, TypeOK, Revised
<1>5. CASE Stop \/ Crash \/ LeaseLost
  <2>1. restarts' \in 0..MaxRestarts
    <3>1. restarts < MaxRestarts /\ restarts' = restarts + 1
      BY <1>5 DEF Stop, Crash, LeaseLost, EngineEnds
    <3>2. restarts \in 0..MaxRestarts
      BY DEF TypeInv, TypeOK
    <3> QED BY <3>1, <3>2, EngineAssumption
  <2>2. ASSUME NEW c \in CandRecord PROVE [c EXCEPT !.own = FALSE] \in CandRecord
    BY DEF CandRecord
  <2>3. cand' \subseteq CandRecord
    <3>1. cand \subseteq CandRecord
      BY DEF TypeInv, TypeOK
    <3>2. CASE Stop \/ Crash
      BY <3>1, <3>2 DEF Stop, Crash
    <3>3. CASE LeaseLost
      BY <2>2, <3>1, <3>3 DEF LeaseLost
    <3> QED BY <1>5, <3>2, <3>3
  <2>4. ASSUME NEW r \in RunRecord PROVE [r EXCEPT !.own = FALSE] \in RunRecord
    BY DEF RunRecord
  <2>5. run' \in [Ids -> RunRecord]
    <3>1. run \in [Ids -> RunRecord]
      BY DEF TypeInv, TypeOK
    <3>2. CASE Stop \/ Crash
      BY <3>1, <3>2, Defaults DEF Stop, Crash
    <3>3. CASE LeaseLost
      BY <2>4, <3>1, <3>3 DEF LeaseLost
    <3> QED BY <1>5, <3>2, <3>3
  <2> QED
    BY <1>5, <2>1, <2>3, <2>5 DEF Stop, Crash, LeaseLost, EngineEnds, TypeInv, TypeOK, Revised
<1> QED BY <1>1, <1>2, <1>3, <1>4, <1>5 DEF EngineNext

(* Every step of runOccurrence keeps the types. *)
LEMMA RunType ==
  ASSUME TypeInv, NEW id \in Ids, RunNext(id)
  PROVE  TypeInv'
<1>r. run \in [Ids -> RunRecord] /\ run[id] \in RunRecord
  BY DEF TypeInv, TypeOK
<1>n. NoRun \in RunRecord
  BY Defaults
<1>1. CASE Invoke(id)
  <2>1. [run[id] EXCEPT !.phase = "invoked"] \in RunRecord
    BY <1>r DEF RunRecord, Phases
  <2>2. run' \in [Ids -> RunRecord]
    BY <1>r, <1>1, <2>1 DEF Invoke
  <2>3. turn' \in [Ids -> {"none", "live"} \cup Ended]
    BY <1>1 DEF Invoke, TypeInv, TypeOK
  <2> QED BY <1>1, <2>2, <2>3 DEF Invoke, TypeInv, TypeOK, Revised
<1>2. CASE OnStart(id)
  <2>1. [run[id] EXCEPT !.started = TRUE, !.mark = TRUE] \in RunRecord
    BY <1>r DEF RunRecord
  <2>2. run' \in [Ids -> RunRecord]
    BY <1>r, <1>2, <2>1 DEF OnStart
  <2> QED BY <1>2, <2>2 DEF OnStart, TypeInv, TypeOK, Revised
<1>3. CASE MarkRunning(id)
  <2>1. [run[id] EXCEPT !.mark = FALSE] \in RunRecord
    BY <1>r DEF RunRecord
  <2>2. run' \in [Ids -> RunRecord]
    BY <1>r, <1>3, <2>1 DEF MarkRunning
  <2>3. occ \in [Ids -> OccRecord] /\ [occ[id] EXCEPT !.state = "running"] \in OccRecord
    BY DEF TypeInv, TypeOK, OccRecord, States
  <2>4. occ' \in [Ids -> OccRecord]
    BY <1>3, <2>3 DEF MarkRunning
  <2> QED BY <1>3, <2>2, <2>4 DEF MarkRunning, TypeInv, TypeOK, Revised
<1>4. ASSUME NEW a \in Answers \cup {"timeout"},
             run' = [run EXCEPT ![id] = [@ EXCEPT !.phase = "write", !.answer = a]],
             UNCHANGED <<now, jobs, occ, fences, engine, cand, restarts, ops, turn>>
      PROVE  TypeInv'
  <2>1. [run[id] EXCEPT !.phase = "write", !.answer = a] \in RunRecord
    BY <1>r DEF RunRecord, Phases
  <2>2. run' \in [Ids -> RunRecord]
    BY <1>r, <1>4, <2>1
  <2> QED BY <1>4, <2>2 DEF TypeInv, TypeOK, Revised
<1>5. CASE Deadline(id)
  BY <1>4, <1>5 DEF Deadline
<1>6. ASSUME NEW a \in Answers, Answer(id, a) PROVE TypeInv'
  BY <1>4, <1>6 DEF Answer
<1>7. CASE WriteOutcome(id)
  <2> DEFINE to == Classify(run[id].answer, run[id].started)
             open == occ[id].state \in {"admitted", "running"}
  <2>1. to \in States
    BY DEF Classify, States
  <2>2. occ \in [Ids -> OccRecord] /\ now \in Times /\ id[1] \in Jobs /\ jobs[id[1]] \in JobRecord
    BY IdParts DEF TypeInv, TypeOK
  <2>3. [occ[id] EXCEPT !.state = to, !.endedAt = now] \in OccRecord
    BY <2>1, <2>2 DEF OccRecord
  <2>4. occ' = IF open THEN [occ EXCEPT ![id] = [@ EXCEPT !.state = to, !.endedAt = now]] ELSE occ
    BY <1>7 DEF WriteOutcome
  <2>5. occ' \in [Ids -> OccRecord]
    BY <2>2, <2>3, <2>4
  <2>6. fences' \subseteq Jobs
    BY <1>7 DEF WriteOutcome, RebuildFences
  <2>7. Completes(jobs[id[1]], Completion(jobs[id[1]], id, to))
    BY <2>2, CompletionType
  <2>8. jobs' = jobs \/ jobs' = [jobs EXCEPT ![id[1]] = Completion(jobs[id[1]], id, to)]
    BY <1>7 DEF WriteOutcome
  <2>9. jobs' \in [Jobs -> JobRecord] /\ Revised'
    <3>1. CASE jobs' = jobs
      BY <3>1 DEF TypeInv, TypeOK, Revised
    <3>2. CASE jobs' = [jobs EXCEPT ![id[1]] = Completion(jobs[id[1]], id, to)]
      BY <2>2, <2>7, <3>2, JobsType
    <3> QED BY <2>8, <3>1, <3>2
  <2>10. \E r \in RunRecord : run' = [run EXCEPT ![id] = r]
    <3>1. ASSUME NEW ph \in Phases PROVE [run[id] EXCEPT !.phase = ph, !.mark = FALSE] \in RunRecord
      BY <1>r DEF RunRecord
    <3>2. \E ph \in Phases : \/ run' = [run EXCEPT ![id] = NoRun]
                            \/ run' = [run EXCEPT ![id] = [run[id] EXCEPT !.phase = ph, !.mark = FALSE]]
      BY <1>7 DEF WriteOutcome, Phases
    <3> QED BY <1>n, <3>1, <3>2
  <2>11. run' \in [Ids -> RunRecord]
    BY <1>r, <2>10
  <2> QED BY <1>7, <2>5, <2>6, <2>9, <2>11 DEF WriteOutcome, TypeInv, TypeOK
<1>8. ASSUME LateSettle(id, "succeeded") \/ LateSettle(id, "failed") \/ TerminationSettle(id) \/ UNCHANGED doc,
             run' = [run EXCEPT ![id] = NoRun],
             UNCHANGED <<now, engine, cand, restarts, ops, turn>>
      PROVE  TypeInv'
  <2>1. run' \in [Ids -> RunRecord]
    BY <1>r, <1>n, <1>8
  <2>2. /\ jobs' \in [Jobs -> JobRecord] /\ Revised'
        /\ occ' \in [Ids -> OccRecord] /\ fences' \subseteq Jobs
    <3>1. CASE UNCHANGED doc
      BY <3>1 DEF doc, TypeInv, TypeOK, Revised
    <3> QED BY <1>8, <3>1, SettleType
  <2> QED BY <1>8, <2>1, <2>2 DEF TypeInv, TypeOK
<1>9. CASE SettleProof(id)
  BY <1>8, <1>9 DEF SettleProof
<1>10. ASSUME NEW a \in Answers, LateResult(id, a) PROVE TypeInv'
  BY <1>8, <1>10 DEF LateResult
<1> QED BY <1>1, <1>2, <1>3, <1>5, <1>6, <1>7, <1>9, <1>10 DEF RunNext

(* Every reconciliation keeps the types. *)
LEMMA ReconcileType ==
  ASSUME TypeInv, NEW id \in Ids, ReconcileNext(id)
  PROVE  TypeInv'
<1>1. LateSettle(id, "succeeded") \/ LateSettle(id, "failed") \/ TerminationSettle(id) \/ TerminationWrite(id)
  BY DEF ReconcileNext, Readback, AutoReconcile, SelfReconcile, OperatorReconcile
<1>2. Quiet
  BY DEF ReconcileNext, Readback, AutoReconcile, SelfReconcile, OperatorReconcile
<1> QED BY <1>1, <1>2, SettleType DEF Quiet, TypeInv, TypeOK

(* Every step keeps the types. *)
LEMMA TypeStep == TypeInv /\ [Next]_vars => TypeInv'
<1> SUFFICES ASSUME TypeInv, [Next]_vars PROVE TypeInv'
  OBVIOUS
<1>1. CASE UNCHANGED vars
  BY <1>1 DEF vars, TypeInv, TypeOK, Revised
<1>2. CASE Advance
  <2>1. now' \in Times
    BY <1>2, EngineAssumption DEF Advance, Times, TypeInv, TypeOK
  <2> QED BY <1>2, <2>1 DEF Advance, TypeInv, TypeOK, Revised
<1>3. ASSUME NEW id \in Ids, NEW how \in Ended, TurnEnds(id, how) PROVE TypeInv'
  <2>1. turn' \in [Ids -> {"none", "live"} \cup Ended]
    BY <1>3 DEF TurnEnds, TypeInv, TypeOK
  <2> QED BY <1>3, <2>1 DEF TurnEnds, TypeInv, TypeOK, Revised
<1> QED
  BY <1>1, <1>2, <1>3, ControlType, EngineType, RunType, ReconcileType DEF Next

(* Type correctness of the occurrence engine: the jobs document, the       *)
(* volatile runs and the candidates keep their types in every behaviour.   *)
THEOREM TypeCorrect == Spec => []TypeOK
<1>1. Init => TypeInv
  BY InitType DEF Init, TypeInv, Revised, NoJob
<1>2. TypeInv => TypeOK
  BY DEF TypeInv
<1> QED BY <1>1, <1>2, TypeStep, PTL DEF Spec

-----------------------------------------------------------------------------
(* The inductive invariant behind the safety theorems, per occurrence. *)

Open(r) == Present(r) /\ ~Terminal(r)

IdInv(id) ==
  (* A turn that is live, or still to be requested, keeps its record open. *)
  /\ turn[id] = "live" \/ run[id].phase = "reserved" => Open(occ[id])
  /\ run[id].phase = "reserved" => turn[id] = "none"
  /\ run[id].phase \in {"invoked", "write", "settle", "watch"} => turn[id] # "none"
  /\ ~Present(occ[id]) => turn[id] = "none" /\ run[id].phase = "none"
  (* What is about to be written is true, and stays true until then. *)
  /\ run[id].phase = "write" => Truthful(id, run[id].answer)
  /\ run[id].phase = "settle" => turn[id] = "dead"
  (* Only an occurrence with an outcome has a termination settlement. *)
  /\ occ[id].term => occ[id].state \in {"outcome_unknown", "succeeded", "failed"}
  (* The ledger claims no more than the turn proves. *)
  /\ occ[id].state = "succeeded" => turn[id] = "ok"
  /\ occ[id].state = "failed" => turn[id] \notin {"live", "ok"}

SafeInv == (\A id \in Ids : IdInv(id)) /\ SingleOpenOccurrence

(* An occurrence a step does not touch keeps its invariant. *)
LEMMA Untouched ==
  ASSUME NEW id \in Ids, IdInv(id),
         occ'[id] = occ[id], run'[id].phase = run[id].phase, run'[id].answer = run[id].answer,
         turn'[id] = turn[id]
  PROVE  IdInv(id)'
  BY DEF IdInv, Open, Present, Terminal, Truthful

(* A step that opens no occurrence keeps at most one of a job open. *)
LEMMA NoneOpened ==
  ASSUME SingleOpenOccurrence, \A id \in Ids : Open(occ[id])' => Open(occ[id])
  PROVE  SingleOpenOccurrence'
  BY DEF SingleOpenOccurrence, Open, OfJob

(* What a settlement does to the record it settles. *)
LEMMA SettleEffect ==
  ASSUME TypeInv, NEW id \in Ids, NEW to \in {"succeeded", "failed"},
         LateSettle(id, to)
  PROVE  /\ \A x \in Ids \ {id} : occ'[x] = occ[x]
         /\ \/ occ'[id] = occ[id]
            \/ /\ occ[id].state = "outcome_unknown"
               /\ occ'[id].state = to
               /\ occ'[id].term = occ[id].term /\ occ'[id].termAt = occ[id].termAt
<1>1. occ \in [Ids -> OccRecord] /\ occ[id] \in OccRecord
  BY DEF TypeInv, TypeOK
<1>2. CASE UNCHANGED doc
  BY <1>2 DEF doc
<1>3. CASE /\ occ[id].state = "outcome_unknown"
           /\ occ' = [occ EXCEPT ![id] = [@ EXCEPT !.state = to, !.late = TRUE, !.endedAt = now]]
  BY <1>1, <1>3 DEF OccRecord
<1> QED BY <1>2, <1>3 DEF LateSettle

(* What a termination settlement does to the record it settles. *)
LEMMA TerminationEffect ==
  ASSUME TypeInv, NEW id \in Ids,
         TerminationSettle(id) \/ (TerminationWrite(id) /\ Unresolved(occ[id]))
  PROVE  /\ \A x \in Ids \ {id} : occ'[x] = occ[x]
         /\ \/ occ'[id] = occ[id]
            \/ /\ Unresolved(occ[id])
               /\ occ'[id].state = "outcome_unknown" /\ occ'[id].term
<1>1. occ \in [Ids -> OccRecord] /\ occ[id] \in OccRecord
  BY DEF TypeInv, TypeOK
<1>2. CASE UNCHANGED doc
  BY <1>2 DEF doc
<1>3. CASE TerminationWrite(id) /\ Unresolved(occ[id])
  BY <1>1, <1>3 DEF TerminationWrite, OccRecord, Unresolved
<1> QED BY <1>2, <1>3 DEF TerminationSettle

(* A settlement whose evidence is right keeps the invariant. *)
LEMMA SettleSafe ==
  ASSUME TypeInv, SafeInv, NEW id \in Ids,
         UNCHANGED turn,
         run' = run \/ run' = [run EXCEPT ![id] = NoRun],
         \/ LateSettle(id, "succeeded") /\ turn[id] = "ok"
         \/ LateSettle(id, "failed") /\ NeverRunning(id) /\ turn[id] # "ok"
         \/ /\ TerminationSettle(id) \/ (TerminationWrite(id) /\ Unresolved(occ[id]))
            /\ NeverRunning(id)
         \/ UNCHANGED doc
  PROVE  SafeInv'
<1>r. run \in [Ids -> RunRecord]
  BY DEF TypeInv, TypeOK
<1>p. run'[id].phase \in {run[id].phase, "none"} /\ (run'[id].phase # "none" => run'[id] = run[id])
  BY <1>r DEF NoRun
<1>x. \A x \in Ids \ {id} : occ'[x] = occ[x] /\ run'[x] = run[x] /\ turn'[x] = turn[x]
  <2>1. \A x \in Ids \ {id} : occ'[x] = occ[x]
    BY SettleEffect, TerminationEffect DEF doc
  <2> QED BY <1>r, <2>1
<1>i. IdInv(id)
  BY DEF SafeInv
<1>1. CASE occ'[id] = occ[id]
  <2>1. IdInv(id)'
    BY <1>1, <1>i, <1>p DEF IdInv, Open, Present, Terminal, Truthful
  <2>2. \A x \in Ids : Open(occ[x])' => Open(occ[x])
    BY <1>1, <1>x DEF Open, Present, Terminal
  <2> QED BY <1>x, <2>1, <2>2, Untouched, NoneOpened DEF SafeInv
<1>2. CASE occ'[id] # occ[id]
  <2>1. occ[id].state = "outcome_unknown"
    BY <1>2, SettleEffect, TerminationEffect DEF doc, Unresolved
  <2>2. \/ occ'[id].state = "succeeded" /\ turn[id] = "ok"
        \/ occ'[id].state = "failed" /\ NeverRunning(id) /\ turn[id] # "ok"
        \/ occ'[id].state = "outcome_unknown" /\ ~Terminal(occ[id]) /\ NeverRunning(id)
    BY <1>2, SettleEffect, TerminationEffect DEF doc, Unresolved, Terminal
  <2>3. turn'[id] = turn[id] /\ turn[id] # "live" /\ run[id].phase # "reserved"
    BY <1>i, <2>2 DEF IdInv, NeverRunning, Ended
  <2>4. IdInv(id)'
    BY <1>i, <1>p, <2>1, <2>2, <2>3 DEF IdInv, Open, Present, Terminal, Truthful, NeverRunning, Ended
  <2>5. ~Terminal(occ[id]) => Open(occ[id])
    BY <2>1 DEF Open, Present
  <2>6. Open(occ[id])' => Open(occ[id])
    <3>1. CASE occ'[id].state \in {"succeeded", "failed"}
      BY <3>1 DEF Open, Terminal
    <3>2. CASE occ'[id].state = "outcome_unknown"
      BY <2>2, <2>5, <3>2
    <3> QED BY <2>2, <3>1, <3>2
  <2>7. \A x \in Ids : Open(occ[x])' => Open(occ[x])
    BY <1>x, <2>6 DEF Open, Present, Terminal
  <2> QED BY <1>x, <2>4, <2>7, Untouched, NoneOpened DEF SafeInv
<1> QED BY <1>1, <1>2

(* Start, admission and every way an engine ends keep the invariant. *)
LEMMA EngineSafe == TypeInv /\ SafeInv /\ EngineNext => SafeInv'
<1> SUFFICES ASSUME TypeInv, SafeInv, EngineNext PROVE SafeInv'
  OBVIOUS
<1>t. occ \in [Ids -> OccRecord] /\ run \in [Ids -> RunRecord] /\ cand \subseteq CandRecord
  BY DEF TypeInv, TypeOK
(* The sweep turns open records into unresolved ones, which are open too. *)
<1>1. CASE Start
  <2>1. ASSUME NEW x \in Ids
        PROVE  /\ occ'[x].term = occ[x].term
               /\ occ'[x].state = IF occ[x].state \in {"admitted", "running"}
                                  THEN "outcome_unknown" ELSE occ[x].state
    BY <1>1, <1>t DEF Start, OccRecord
  <2>2. ASSUME NEW x \in Ids PROVE IdInv(x)' /\ (Open(occ[x])' => Open(occ[x]))
    <3>1. IdInv(x) /\ UNCHANGED <<turn, run>>
      BY <1>1 DEF SafeInv, Start
    <3> QED BY <2>1, <3>1 DEF IdInv, Open, Present, Terminal, Truthful
  <2> QED BY <2>2, NoneOpened DEF SafeInv
<1>2. CASE CatchupScan \/ TickScan \/ ScanDone \/ Stop
  <2>1. UNCHANGED <<occ, run, turn>>
    BY <1>2 DEF CatchupScan, TickScan, Scan, ScanDone, Stop, EngineEnds
  <2> QED BY <2>1, Untouched, NoneOpened DEF SafeInv
<1>3. ASSUME NEW c \in cand, Admit(c) PROVE SafeInv'
  <2>1. CASE UNCHANGED <<occ, run>>
    <3>1. UNCHANGED turn
      BY <1>3 DEF Admit
    <3> QED BY <2>1, <3>1, Untouched, NoneOpened DEF SafeInv
  (* The record is new, no turn was requested for it, and the job has no   *)
  (* other open one.                                                       *)
  <2>2. CASE Eligible(c) /\ Reserve(c)
    <3>1. c.id \in Ids /\ c.id[1] \in Jobs /\ UNCHANGED turn
      BY <1>t, <1>3, IdParts DEF CandRecord, Admit
    <3>2. ~Present(occ[c.id]) /\ ~HasOpen(c.id[1])
      BY <2>2 DEF Eligible, Admissible, Present
    <3>3. IdInv(c.id)
      BY <3>1 DEF SafeInv
    <3>4. turn[c.id] = "none"
      BY <3>2, <3>3 DEF IdInv
    <3>5. /\ occ'[c.id].state = "admitted" /\ occ'[c.id].term = FALSE
          /\ run'[c.id].phase = "reserved"
      BY <1>t, <2>2, <3>1 DEF Reserve, NoRun
    <3>6. IdInv(c.id)'
      BY <3>1, <3>4, <3>5 DEF IdInv, Open, Present, Terminal
    <3>7. \A x \in Ids \ {c.id} : occ'[x] = occ[x] /\ run'[x] = run[x] /\ turn'[x] = turn[x]
      BY <1>t, <2>2, <3>1 DEF Reserve
    <3>8. \A x \in OfJob[c.id[1]] : ~Open(occ[x])
      BY <3>2 DEF HasOpen, Open
    <3>9. ASSUME NEW j \in Jobs, NEW a \in OfJob[j], NEW b \in OfJob[j],
                 Open(occ[a])', Open(occ[b])'
          PROVE  a = b
      <4>0. a \in Ids /\ b \in Ids /\ a[1] = j /\ b[1] = j
        BY <3>9 DEF OfJob
      <4>1. ASSUME NEW x \in OfJob[j], x \in Ids, x[1] = j, x # c.id, Open(occ[x])'
            PROVE  Open(occ[x]) /\ j # c.id[1]
        BY <3>7, <3>8, <4>1 DEF Open, Present, Terminal
      <4>2. CASE j = c.id[1]
        BY <3>9, <4>0, <4>1, <4>2
      <4>3. CASE j # c.id[1]
        <5>1. a # c.id /\ b # c.id
          BY <4>0, <4>3
        <5> QED BY <3>9, <4>0, <4>1, <5>1 DEF SafeInv, SingleOpenOccurrence, Open
      <4> QED BY <4>2, <4>3
    <3>10. SingleOpenOccurrence'
      BY <3>9 DEF SingleOpenOccurrence, Open
    <3> QED BY <3>6, <3>7, <3>10, Untouched DEF SafeInv
  <2> QED BY <1>3, <2>1, <2>2 DEF Admit
<1>4. CASE Crash
  <2>1. UNCHANGED <<occ, turn>>
    BY <1>4 DEF Crash, EngineEnds
  <2>2. ASSUME NEW x \in Ids PROVE run'[x] = run[x] \/ run'[x].phase = "none"
    BY <1>4 DEF Crash, NoRun
  <2>3. ASSUME NEW x \in Ids PROVE IdInv(x)'
    <3>1. IdInv(x)
      BY DEF SafeInv
    <3>2. CASE run'[x] = run[x]
      BY <2>1, <3>1, <3>2, Untouched
    <3>3. CASE run'[x].phase = "none"
      BY <2>1, <3>1, <3>3 DEF IdInv, Open, Present, Terminal
    <3> QED BY <2>2, <3>2, <3>3
  <2> QED BY <2>1, <2>3, NoneOpened DEF SafeInv
<1>5. CASE LeaseLost
  <2>1. UNCHANGED <<occ, turn>>
    BY <1>5 DEF LeaseLost, EngineEnds
  <2>2. ASSUME NEW x \in Ids
        PROVE  run'[x].phase = run[x].phase /\ run'[x].answer = run[x].answer
    BY <1>5, <1>t DEF LeaseLost, RunRecord
  <2> QED BY <2>1, <2>2, Untouched, NoneOpened DEF SafeInv
<1> QED BY <1>1, <1>2, <1>3, <1>4, <1>5 DEF EngineNext

(* A step that touches one occurrence only, and does not open it. *)
LEMMA OneTouched ==
  ASSUME SafeInv, NEW id \in Ids,
         \A x \in Ids \ {id} : occ'[x] = occ[x] /\ run'[x] = run[x] /\ turn'[x] = turn[x],
         IdInv(id)', Open(occ[id])' => Open(occ[id])
  PROVE  SafeInv'
<1>1. \A x \in Ids : IdInv(x)'
  BY Untouched DEF SafeInv
<1>2. \A x \in Ids : Open(occ[x])' => Open(occ[x])
  BY DEF Open, Present, Terminal
<1> QED BY <1>1, <1>2, NoneOpened DEF SafeInv

(* Every step of runOccurrence keeps the invariant. *)
LEMMA RunSafe ==
  ASSUME TypeInv, SafeInv, NEW id \in Ids, RunNext(id)
  PROVE  SafeInv'
<1>t. /\ occ \in [Ids -> OccRecord] /\ run \in [Ids -> RunRecord]
      /\ turn \in [Ids -> {"none", "live"} \cup Ended]
      /\ occ[id] \in OccRecord /\ run[id] \in RunRecord
  BY DEF TypeInv, TypeOK
<1>i. IdInv(id)
  BY DEF SafeInv
<1>1. CASE Invoke(id)
  <2>1. \A x \in Ids \ {id} : occ'[x] = occ[x] /\ run'[x] = run[x] /\ turn'[x] = turn[x]
    BY <1>1, <1>t DEF Invoke
  <2>2. run'[id].phase = "invoked" /\ turn'[id] = "live" /\ occ' = occ
    BY <1>1, <1>t DEF Invoke, RunRecord
  <2>3. Open(occ[id])
    BY <1>1, <1>i DEF Invoke, IdInv
  <2>4. IdInv(id)' /\ (Open(occ[id])' => Open(occ[id]))
    BY <1>i, <2>2, <2>3 DEF IdInv, Open, Present, Terminal
  <2> QED BY <2>1, <2>4, OneTouched
<1>2. CASE OnStart(id)
  <2>1. \A x \in Ids : run'[x].phase = run[x].phase /\ run'[x].answer = run[x].answer
    BY <1>2, <1>t DEF OnStart, RunRecord
  <2> QED BY <1>2, <2>1, Untouched, NoneOpened DEF OnStart, SafeInv
<1>3. CASE MarkRunning(id)
  <2>1. \A x \in Ids \ {id} : occ'[x] = occ[x] /\ run'[x] = run[x] /\ turn'[x] = turn[x]
    BY <1>3, <1>t DEF MarkRunning
  <2>2. run'[id].phase = run[id].phase /\ run'[id].answer = run[id].answer /\ turn' = turn
    BY <1>3, <1>t DEF MarkRunning, RunRecord
  <2>3. /\ occ'[id].term = occ[id].term
        /\ occ'[id].state = IF occ[id].state = "admitted" THEN "running" ELSE occ[id].state
    BY <1>3, <1>t DEF MarkRunning, OccRecord
  <2>4. IdInv(id)' /\ (Open(occ[id])' => Open(occ[id]))
    BY <1>i, <2>2, <2>3 DEF IdInv, Open, Present, Terminal, Truthful
  <2> QED BY <2>1, <2>4, OneTouched
<1>4. ASSUME NEW a, Truthful(id, a), run[id].phase = "invoked",
             run' = [run EXCEPT ![id] = [@ EXCEPT !.phase = "write", !.answer = a]],
             UNCHANGED <<occ, turn>>
      PROVE  SafeInv'
  <2>1. \A x \in Ids \ {id} : occ'[x] = occ[x] /\ run'[x] = run[x] /\ turn'[x] = turn[x]
    BY <1>4, <1>t
  <2>2. run'[id].phase = "write" /\ run'[id].answer = a
    BY <1>4, <1>t DEF RunRecord
  <2>3. IdInv(id)' /\ (Open(occ[id])' => Open(occ[id]))
    BY <1>4, <1>i, <2>2 DEF IdInv, Open, Present, Terminal, Truthful
  <2> QED BY <2>1, <2>3, OneTouched
<1>5. CASE Deadline(id)
  BY <1>4, <1>5 DEF Deadline, Truthful
<1>6. ASSUME NEW a \in Answers, Answer(id, a) PROVE SafeInv'
  BY <1>4, <1>6 DEF Answer
(* The outcome that is written is one the turn proves. *)
<1>7. CASE WriteOutcome(id)
  <2> DEFINE a == run[id].answer
             to == Classify(a, run[id].started)
             open == occ[id].state \in {"admitted", "running"}
  <2>1. run[id].phase = "write" /\ UNCHANGED turn
    BY <1>7 DEF WriteOutcome
  <2>2. Truthful(id, a) /\ turn[id] # "none"
    BY <1>i, <2>1 DEF IdInv
  <2>3. /\ to \in {"succeeded", "failed", "outcome_unknown"}
        /\ to = "succeeded" => turn[id] = "ok"
        /\ to = "failed" => turn[id] \in {"failed", "refused", "dead"}
    BY <2>2 DEF Classify, Truthful
  <2>4. occ' = IF open THEN [occ EXCEPT ![id] = [@ EXCEPT !.state = to, !.endedAt = now]] ELSE occ
    BY <1>7 DEF WriteOutcome
  <2>5. /\ occ'[id].term = occ[id].term
        /\ occ'[id].state = IF open THEN to ELSE occ[id].state
        /\ \A x \in Ids \ {id} : occ'[x] = occ[x]
    BY <1>t, <2>4 DEF OccRecord
  <2>6. /\ \A x \in Ids \ {id} : run'[x] = run[x]
        /\ run'[id].phase \in {"none", "watch", "settle"}
        /\ run'[id].phase = "settle" => a = "proofUnknown"
    <3>1. \/ run' = [run EXCEPT ![id] = NoRun]
          \/ run' = [run EXCEPT ![id] = [run[id] EXCEPT !.phase = "watch", !.mark = FALSE]]
          \/ a = "proofUnknown" /\ run' = [run EXCEPT ![id] = [run[id] EXCEPT !.phase = "settle", !.mark = FALSE]]
      BY <1>7 DEF WriteOutcome
    <3>2. CASE run' = [run EXCEPT ![id] = NoRun]
      BY <1>t, <3>2 DEF NoRun
    <3>3. CASE run' = [run EXCEPT ![id] = [run[id] EXCEPT !.phase = "watch", !.mark = FALSE]]
      BY <1>t, <3>3 DEF RunRecord
    <3>4. CASE a = "proofUnknown" /\ run' = [run EXCEPT ![id] = [run[id] EXCEPT !.phase = "settle", !.mark = FALSE]]
      BY <1>t, <3>4 DEF RunRecord
    <3> QED BY <3>1, <3>2, <3>3, <3>4
  <2>7. a = "proofUnknown" => turn[id] = "dead"
    BY <2>2 DEF Truthful
  <2>8. ~Present(occ[id]) => FALSE
    BY <1>i, <2>1 DEF IdInv
  <2>9. IdInv(id)'
    BY <1>i, <2>1, <2>2, <2>3, <2>5, <2>6, <2>7, <2>8 DEF IdInv, Open, Present, Terminal
  <2>10. Open(occ[id])' => Open(occ[id])
    BY <1>i, <2>5, <2>8 DEF IdInv, Open, Present, Terminal
  <2> QED BY <2>1, <2>5, <2>6, <2>9, <2>10, OneTouched
<1>8. CASE SettleProof(id)
  <2>1. NeverRunning(id)
    BY <1>i, <1>8 DEF SettleProof, IdInv, NeverRunning, Ended
  <2> QED BY <1>8, <2>1, SettleSafe DEF SettleProof
<1>9. ASSUME NEW a \in Answers, LateResult(id, a) PROVE SafeInv'
  <2>1. Truthful(id, a) /\ UNCHANGED turn /\ run' = [run EXCEPT ![id] = NoRun]
    BY <1>9 DEF LateResult
  <2>2. CASE a = "ok"
    <3>1. turn[id] = "ok" /\ LateSettle(id, "succeeded")
      BY <1>9, <2>1, <2>2 DEF LateResult, Truthful
    <3> QED BY <2>1, <3>1, SettleSafe
  <2>3. CASE a \in {"envelope", "unstarted", "proofError"}
    <3>1. turn[id] \in {"failed", "refused", "dead"} /\ LateSettle(id, "failed")
      BY <1>9, <2>1, <2>3 DEF LateResult, Truthful
    <3>2. NeverRunning(id) /\ turn[id] # "ok"
      BY <3>1 DEF NeverRunning, Ended
    <3> QED BY <2>1, <3>1, <3>2, SettleSafe
  <2>4. CASE a = "proofUnknown"
    <3>1. turn[id] = "dead" /\ TerminationSettle(id)
      BY <1>9, <2>1, <2>4 DEF LateResult, Truthful
    <3>2. NeverRunning(id)
      BY <3>1 DEF NeverRunning, Ended
    <3> QED BY <2>1, <3>1, <3>2, SettleSafe
  <2>5. CASE a = "bare"
    <3>1. UNCHANGED doc
      BY <1>9, <2>5 DEF LateResult
    <3> QED BY <2>1, <3>1, SettleSafe
  <2> QED BY <2>2, <2>3, <2>4, <2>5 DEF Answers
<1> QED BY <1>1, <1>2, <1>3, <1>5, <1>6, <1>7, <1>8, <1>9 DEF RunNext

(* Every reconciliation rests on evidence, and keeps the invariant. *)
LEMMA ReconcileSafe ==
  ASSUME TypeInv, SafeInv, NEW id \in Ids, ReconcileNext(id)
  PROVE  SafeInv'
<1>1. UNCHANGED <<run, turn>>
  BY DEF ReconcileNext, Readback, AutoReconcile, SelfReconcile, OperatorReconcile, Quiet
<1>2. \/ LateSettle(id, "succeeded") /\ turn[id] = "ok"
      \/ LateSettle(id, "failed") /\ NeverRunning(id) /\ turn[id] # "ok"
      \/ /\ TerminationSettle(id) \/ (TerminationWrite(id) /\ Unresolved(occ[id]))
         /\ NeverRunning(id)
  <2>1. CASE Readback(id)
    BY <2>1 DEF Readback, NeverRunning, Ended
  <2>2. CASE AutoReconcile(id)
    BY <2>2 DEF AutoReconcile, NeverRunning, Ended
  <2>3. CASE SelfReconcile(id)
    BY <2>3 DEF SelfReconcile, NeverRunning, Ended
  <2>4. ASSUME NEW to \in {"succeeded", "failed", "terminated"}, OperatorReconcile(id, to)
        PROVE  \/ LateSettle(id, "succeeded") /\ turn[id] = "ok"
               \/ LateSettle(id, "failed") /\ NeverRunning(id) /\ turn[id] # "ok"
               \/ TerminationWrite(id) /\ Unresolved(occ[id]) /\ NeverRunning(id)
    BY <2>4 DEF OperatorReconcile
  <2> QED BY <2>1, <2>2, <2>3, <2>4 DEF ReconcileNext
<1> QED BY <1>1, <1>2, SettleSafe

(* Every step keeps the inductive invariant. *)
LEMMA SafeStep == TypeInv /\ SafeInv /\ [Next]_vars => SafeInv'
<1> SUFFICES ASSUME TypeInv, SafeInv, [Next]_vars PROVE SafeInv'
  OBVIOUS
<1>1. CASE UNCHANGED vars \/ Advance \/ ControlNext
  <2>1. UNCHANGED <<occ, run, turn>>
    BY <1>1 DEF vars, Advance, ControlNext, CreateJob, UpdateJob, EnableJob, DisableJob, DeleteJob,
       Control, Quiet
  <2> QED BY <2>1, Untouched, NoneOpened DEF SafeInv
<1>2. ASSUME NEW id \in Ids, NEW how \in Ended, TurnEnds(id, how) PROVE SafeInv'
  <2>1. turn \in [Ids -> {"none", "live"} \cup Ended]
    BY DEF TypeInv, TypeOK
  <2>2. \A x \in Ids \ {id} : occ'[x] = occ[x] /\ run'[x] = run[x] /\ turn'[x] = turn[x]
    BY <1>2, <2>1 DEF TurnEnds
  <2>3. UNCHANGED <<occ, run>> /\ turn[id] = "live" /\ turn'[id] \in Ended /\ IdInv(id)
    BY <1>2, <2>1 DEF TurnEnds, SafeInv
  <2>4. IdInv(id)' /\ (Open(occ[id])' => Open(occ[id]))
    BY <2>3 DEF IdInv, Open, Present, Terminal, Truthful, Ended
  <2> QED BY <2>2, <2>4, OneTouched
<1> QED BY <1>1, <1>2, EngineSafe, RunSafe, ReconcileSafe DEF Next

(* The initial state satisfies the inductive invariant. *)
LEMMA InitSafe == Init => TypeInv /\ SafeInv
<1>1. Init => TypeInv
  BY InitType DEF Init, TypeInv, Revised, NoJob
<1>2. Init => SafeInv
  BY DEF Init, SafeInv, IdInv, SingleOpenOccurrence, OfJob, Open, Present, Terminal, NoOcc, NoRun
<1> QED BY <1>1, <1>2

-----------------------------------------------------------------------------
(* At most one occurrence of a job has no terminal record, for any jobs,   *)
(* schedules, bounds and backoff tables (reserveOccurrence, sweep, every   *)
(* settlement).                                                            *)
THEOREM OneOpenOccurrence == Spec => []SingleOpenOccurrence
<1>1. SafeInv => SingleOpenOccurrence
  BY DEF SafeInv
<1> QED BY <1>1, InitSafe, TypeStep, SafeStep, PTL DEF Spec

(* No two turns of one job are ever live in the Router at the same time:   *)
(* a live turn keeps its record open, and at most one is open.             *)
THEOREM OneLiveTurn == Spec => []SingleLiveTurn
<1>1. SafeInv => SingleLiveTurn
  BY DEF SafeInv, IdInv, Open, SingleOpenOccurrence, SingleLiveTurn, OfJob
<1> QED BY <1>1, InitSafe, TypeStep, SafeStep, PTL DEF Spec

(* The ledger never claims more than the turn proves. *)
THEOREM LedgerIsTrue == Spec => []LedgerTruth
<1>1. ASSUME TypeInv, SafeInv PROVE LedgerTruth
  <2> SUFFICES ASSUME NEW id \in Ids, Terminal(occ[id])
               PROVE  NeverRunning(id) \/ run[id].phase = "watch"
    BY <1>1 DEF SafeInv, IdInv, LedgerTruth
  <2>1. IdInv(id) /\ turn[id] \in {"none", "live"} \cup Ended /\ run[id].phase \in Phases
    BY <1>1 DEF SafeInv, TypeInv, TypeOK, RunRecord
  <2> QED BY <2>1 DEF IdInv, Open, NeverRunning, Phases
<1> QED BY <1>1, InitSafe, TypeStep, SafeStep, PTL DEF Spec

(* A turn that has ended is never requested again, also across restarts. *)
THEOREM RequestedOnce == Spec => InvokedOnce
<1> DEFINE Once == \A id \in Ids : turn[id] \in Ended => turn'[id] = turn[id]
<1>1. ASSUME TypeInv, SafeInv, [Next]_vars PROVE [Once]_vars
  <2> SUFFICES ASSUME Next, NEW id \in Ids, turn[id] \in Ended PROVE turn'[id] = turn[id]
    BY <1>1
  <2>t. turn \in [Ids -> {"none", "live"} \cup Ended]
    BY <1>1 DEF TypeInv, TypeOK
  <2>1. CASE UNCHANGED turn
    BY <2>1
  <2>2. ASSUME NEW x \in Ids, Invoke(x) PROVE turn'[id] = turn[id]
    <3>1. turn[x] = "none"
      BY <1>1, <2>2 DEF SafeInv, IdInv, Invoke
    <3> QED BY <2>t, <2>2, <3>1 DEF Invoke, Ended
  <2>3. ASSUME NEW x \in Ids, NEW how \in Ended, TurnEnds(x, how) PROVE turn'[id] = turn[id]
    BY <2>t, <2>3 DEF TurnEnds, Ended
  <2>4. \/ UNCHANGED turn
        \/ \E x \in Ids : Invoke(x)
        \/ \E x \in Ids, how \in Ended : TurnEnds(x, how)
    BY DEF Next, Advance, ControlNext, CreateJob, UpdateJob, EnableJob, DisableJob, DeleteJob,
       Control, Quiet, EngineNext, Start, CatchupScan, TickScan, Scan, ScanDone, Admit, Stop, Crash,
       LeaseLost, EngineEnds, RunNext, OnStart, MarkRunning, Deadline, WriteOutcome, SettleProof,
       Answer, LateResult, ReconcileNext, Readback, AutoReconcile, SelfReconcile, OperatorReconcile
  <2> QED BY <2>1, <2>2, <2>3, <2>4
<1> QED BY <1>1, InitSafe, TypeStep, SafeStep, PTL DEF Spec, InvokedOnce

(* A business outcome is final and a termination settlement is never moved *)
(* or withdrawn, whoever writes next.                                      *)
THEOREM SettledOnce == Spec => SettleOnce
<1> DEFINE Final(id) == /\ occ[id].state \in {"succeeded", "failed"} => occ'[id] = occ[id]
                        /\ occ[id].term => occ'[id].term /\ occ'[id].termAt = occ[id].termAt
<1>1. ASSUME TypeInv, SafeInv, [Next]_vars PROVE [\A id \in Ids : Final(id)]_vars
  <2> SUFFICES ASSUME Next, NEW id \in Ids PROVE Final(id)
    BY <1>1
  <2>t. occ \in [Ids -> OccRecord] /\ occ[id] \in OccRecord
    BY <1>1 DEF TypeInv, TypeOK
  <2>i. IdInv(id)
    BY <1>1 DEF SafeInv
  <2>1. CASE occ'[id] = occ[id]
    BY <2>1
  <2>2. CASE Start
    <3>1. occ'[id].term = occ[id].term /\ occ'[id].termAt = occ[id].termAt
      BY <2>2, <2>t DEF Start, OccRecord
    <3>2. occ[id].state \in {"succeeded", "failed"} => occ'[id] = occ[id]
      BY <2>2, <2>t DEF Start
    <3> QED BY <3>1, <3>2
  <2>3. ASSUME NEW c \in cand, Admit(c) PROVE Final(id)
    <3>1. CASE occ' = occ
      BY <3>1
    <3>2. CASE Eligible(c) /\ Reserve(c)
      <4>1. c.id = id => occ[id].state = "absent"
        BY <3>2 DEF Eligible
      <4>2. c.id # id => occ'[id] = occ[id]
        BY <2>t, <3>2 DEF Reserve
      <4> QED BY <2>i, <4>1, <4>2 DEF IdInv
    <3> QED BY <2>3, <3>1, <3>2 DEF Admit
  <2>4. ASSUME NEW x \in Ids, MarkRunning(x) \/ WriteOutcome(x) PROVE Final(id)
    <3>1. \/ occ' = occ
          \/ /\ occ[x].state \in {"admitted", "running"}
             /\ x # id => occ'[id] = occ[id]
      <4>1. CASE MarkRunning(x)
        BY <2>t, <4>1 DEF MarkRunning
      <4>2. CASE WriteOutcome(x)
        <5>1. \/ occ' = occ
              \/ /\ occ[x].state \in {"admitted", "running"}
                 /\ \E r : occ' = [occ EXCEPT ![x] = r]
          BY <4>2 DEF WriteOutcome
        <5> QED BY <2>t, <5>1
      <4> QED BY <2>4, <4>1, <4>2
    <3> QED BY <2>i, <3>1 DEF IdInv
  <2>5. ASSUME NEW x \in Ids,
               \/ LateSettle(x, "succeeded") \/ LateSettle(x, "failed")
               \/ TerminationSettle(x) \/ (TerminationWrite(x) /\ Unresolved(occ[x]))
        PROVE  Final(id)
    <3>1. CASE x # id
      BY <1>1, <2>5, <3>1, SettleEffect, TerminationEffect
    <3>2. CASE x = id
      BY <1>1, <2>5, <3>2, SettleEffect, TerminationEffect DEF Unresolved
    <3> QED BY <3>1, <3>2
  <2>6. \/ occ' = occ
        \/ Start
        \/ \E c \in cand : Admit(c)
        \/ \E x \in Ids : \/ MarkRunning(x) \/ WriteOutcome(x)
                          \/ LateSettle(x, "succeeded") \/ LateSettle(x, "failed")
                          \/ TerminationSettle(x)
                          \/ TerminationWrite(x) /\ Unresolved(occ[x])
    <3>1. CASE Advance \/ ControlNext
      BY <3>1 DEF Advance, ControlNext, CreateJob, UpdateJob, EnableJob, DisableJob, DeleteJob, Control
    <3>2. CASE EngineNext
      BY <3>2 DEF EngineNext, CatchupScan, TickScan, Scan, ScanDone, Stop, Crash, LeaseLost, EngineEnds
    <3>3. ASSUME NEW x \in Ids, RunNext(x)
          PROVE  \/ occ' = occ \/ MarkRunning(x) \/ WriteOutcome(x)
                 \/ LateSettle(x, "succeeded") \/ LateSettle(x, "failed") \/ TerminationSettle(x)
      BY <3>3 DEF RunNext, Invoke, OnStart, Deadline, Answer, SettleProof, LateResult, doc
    <3>4. ASSUME NEW x \in Ids, ReconcileNext(x)
          PROVE  \/ LateSettle(x, "succeeded") \/ LateSettle(x, "failed")
                 \/ TerminationSettle(x) \/ (TerminationWrite(x) /\ Unresolved(occ[x]))
      BY <3>4 DEF ReconcileNext, Readback, AutoReconcile, SelfReconcile, OperatorReconcile
    <3>5. ASSUME NEW x \in Ids, NEW how \in Ended, TurnEnds(x, how) PROVE occ' = occ
      BY <3>5 DEF TurnEnds
    <3> QED BY <3>1, <3>2, <3>3, <3>4, <3>5 DEF Next
  <2> QED BY <2>1, <2>2, <2>3, <2>4, <2>5, <2>6
<1> QED BY <1>1, InitSafe, TypeStep, SafeStep, PTL DEF Spec, SettleOnce

-----------------------------------------------------------------------------
(* The document: every committed one is valid, an admission never reaches  *)
(* back behind an earlier one, a one-shot that succeeded is not run again, *)
(* and the engine keeps its concurrency limit.  This rests on an invariant *)
(* of the ledger that orders the times of each occurrence and the          *)
(* occurrences of a chain.                                                 *)

(* A set of natural numbers has a least element ... *)
LEMMA Least ==
  ASSUME NEW T, T \subseteq Nat, T # {}
  PROVE  \E n \in T : \A m \in T : n <= m
<1> DEFINE Less == {ss \in Nat \X Nat : ss[1] < ss[2]}
<1>1. IsWellFoundedOn(Less, Nat)
  BY NatLessThanWellFounded DEF OpToRel
<1>2. PICK n \in T : \A m \in T : ~ (<<m, n>> \in Less)
  <2> HIDE DEF Less
  <2> QED BY <1>1, WFMin
<1>3. ASSUME NEW m \in T PROVE n <= m
  <2>1. m \in Nat /\ n \in Nat /\ <<m, n>> \in Nat \X Nat
    OBVIOUS
  <2>2. ~ (m < n)
    BY <1>2, <2>1
  <2> QED BY <2>1, <2>2
<1> QED BY <1>3

(* ... and a set of times a greatest. *)
LEMMA Greatest ==
  ASSUME NEW T, T \subseteq Times, T # {}
  PROVE  \E n \in T : \A m \in T : m <= n
<1> DEFINE D == {MaxTime - t : t \in T}
<1>1. MaxTime \in Nat /\ \A t \in T : t \in Nat /\ t <= MaxTime
  BY EngineAssumption DEF Times
<1>2. D \subseteq Nat /\ D # {}
  BY <1>1
<1>3. PICK d \in D : \A e \in D : d <= e
  <2> HIDE DEF D
  <2> QED BY <1>2, Least
<1>4. PICK n \in T : d = MaxTime - n
  OBVIOUS
<1>5. ASSUME NEW m \in T PROVE m <= n
  <2>1. MaxTime - m \in D
    OBVIOUS
  <2>2. d <= MaxTime - m
    BY <1>3, <2>1
  <2> QED BY <1>1, <1>4, <2>2
<1> QED BY <1>5

-----------------------------------------------------------------------------
(* The inductive invariant of the document. *)

(* Two occurrences of one slot: links of one chain of retries. *)
SameSlot(a, b) == a[1] = b[1] /\ a[2] = b[2] /\ a[3] = b[3]

(* The settlement fields of a record fit its state, and its times are in   *)
(* order: slot, admission, termination settlement, outcome.                *)
Fits(id) ==
  Present(occ[id]) =>
    /\ occ[id].late => occ[id].state \in {"succeeded", "failed"}
    /\ occ[id].term => occ[id].state = "outcome_unknown" \/ occ[id].late
    /\ id[3] <= occ[id].admittedAt
    /\ occ[id].admittedAt <= occ[id].endedAt
    /\ occ[id].endedAt <= now
    /\ occ[id].term => occ[id].admittedAt <= occ[id].termAt /\ occ[id].termAt <= occ[id].endedAt

(* Every earlier link of a chain failed, and ended before the later one    *)
(* was admitted.                                                           *)
Chained(a, b) ==
  SameSlot(a, b) /\ a[4] < b[4] /\ Present(occ[b]) =>
    occ[a].state = "failed" /\ occ[a].endedAt < occ[b].admittedAt

(* A candidate of the schedule itself is the first link of its chain. *)
Scanned == \A c \in cand : c.kind # "retry" => c.id[4] = 0

DocInv ==
  /\ \A id \in Ids : Fits(id)
  /\ \A a, b \in Ids : Chained(a, b)
  /\ Scanned
  /\ fences = RebuildFences(occ)

-----------------------------------------------------------------------------
(* What a step that admits nothing may do to a record: start evidence, the *)
(* outcome or the sweep move an open one, a late outcome or a termination  *)
(* settlement an unknown one.                                              *)
Moved(id) ==
  \/ occ'[id] = occ[id]
  \/ /\ occ[id].state \in {"admitted", "running"}
     /\ occ'[id].state \in {"running", "succeeded", "failed", "outcome_unknown"}
     /\ occ'[id].late = occ[id].late /\ occ'[id].term = occ[id].term
     /\ occ'[id].admittedAt = occ[id].admittedAt
     /\ occ'[id].endedAt \in {occ[id].endedAt, now}
  \/ /\ occ[id].state = "outcome_unknown" /\ occ[id].late = FALSE
     /\ occ'[id].state \in {"succeeded", "failed"} /\ occ'[id].late = TRUE
     /\ occ'[id].term = occ[id].term /\ occ'[id].termAt = occ[id].termAt
     /\ occ'[id].admittedAt = occ[id].admittedAt
     /\ occ'[id].endedAt = now
  \/ /\ Unresolved(occ[id])
     /\ occ'[id].state = "outcome_unknown" /\ occ'[id].late = FALSE
     /\ occ'[id].term = TRUE /\ occ'[id].termAt = now
     /\ occ'[id].admittedAt = occ[id].admittedAt
     /\ occ'[id].endedAt = now

(* Settlements move the record they settle, and leave the fences right. *)
LEMMA SettleMoves ==
  ASSUME TypeInv, NEW id \in Ids, NEW to \in {"succeeded", "failed"},
         LateSettle(id, to), NEW x \in Ids
  PROVE  Moved(x)
<1>1. occ \in [Ids -> OccRecord] /\ occ[id] \in OccRecord
  BY DEF TypeInv, TypeOK
<1>2. CASE UNCHANGED doc
  BY <1>2 DEF doc, Moved
<1>3. CASE /\ occ[id].state = "outcome_unknown" /\ ~occ[id].late
           /\ occ' = [occ EXCEPT ![id] = [@ EXCEPT !.state = to, !.late = TRUE, !.endedAt = now]]
  <2>1. CASE x # id
    BY <1>1, <1>3, <2>1 DEF Moved
  <2>2. CASE x = id
    <3>1. occ'[id] = [occ[id] EXCEPT !.state = to, !.late = TRUE, !.endedAt = now]
      BY <1>1, <1>3
    <3>2. occ[id].late = FALSE
      BY <1>1, <1>3 DEF OccRecord
    <3> QED BY <1>1, <1>3, <2>2, <3>1, <3>2 DEF Moved, OccRecord
  <2> QED BY <2>1, <2>2
<1> QED BY <1>2, <1>3 DEF LateSettle

LEMMA TerminationMoves ==
  ASSUME TypeInv, NEW id \in Ids,
         TerminationSettle(id) \/ (TerminationWrite(id) /\ Unresolved(occ[id])), NEW x \in Ids
  PROVE  Moved(x)
<1>1. occ \in [Ids -> OccRecord] /\ occ[id] \in OccRecord
  BY DEF TypeInv, TypeOK
<1>2. CASE UNCHANGED doc
  BY <1>2 DEF doc, Moved
<1>3. CASE TerminationWrite(id) /\ Unresolved(occ[id])
  <2>0. occ' = [occ EXCEPT ![id] = [@ EXCEPT !.term = TRUE, !.termAt = now, !.endedAt = now]]
    BY <1>3 DEF TerminationWrite
  <2>1. CASE x # id
    BY <1>1, <2>0, <2>1 DEF Moved
  <2>2. CASE x = id
    <3>1. occ'[id] = [occ[id] EXCEPT !.term = TRUE, !.termAt = now, !.endedAt = now]
      BY <1>1, <2>0
    <3>2. occ[id].late = FALSE /\ occ[id].state = "outcome_unknown"
      BY <1>1, <1>3 DEF OccRecord, Unresolved
    <3> QED BY <1>1, <1>3, <2>2, <3>1, <3>2 DEF Moved, OccRecord
  <2> QED BY <2>1, <2>2
<1> QED BY <1>2, <1>3 DEF TerminationSettle

(* Start evidence and outcomes move an open record only. *)
LEMMA OutcomeMoves ==
  ASSUME TypeInv, NEW id \in Ids, MarkRunning(id) \/ WriteOutcome(id), NEW x \in Ids
  PROVE  Moved(x)
<1>1. occ \in [Ids -> OccRecord] /\ occ[id] \in OccRecord
  BY DEF TypeInv, TypeOK
<1>2. ASSUME occ[id].state \in {"admitted", "running"},
             \A y \in Ids \ {id} : occ'[y] = occ[y],
             occ'[id].state \in {"running", "succeeded", "failed", "outcome_unknown"},
             occ'[id].late = occ[id].late, occ'[id].term = occ[id].term,
             occ'[id].admittedAt = occ[id].admittedAt, occ'[id].endedAt \in {occ[id].endedAt, now}
      PROVE  Moved(x)
  <2>1. Moved(id)
    BY <1>2 DEF Moved
  <2>2. x # id => Moved(x)
    BY <1>2 DEF Moved
  <2> QED BY <2>1, <2>2
<1>3. CASE MarkRunning(id)
  <2>1. CASE occ' = occ
    BY <2>1 DEF Moved
  <2>2. CASE occ[id].state = "admitted" /\ occ' = [occ EXCEPT ![id].state = "running"]
    <3>1. occ'[id] = [occ[id] EXCEPT !.state = "running"] /\ \A y \in Ids \ {id} : occ'[y] = occ[y]
      BY <1>1, <2>2
    <3> QED BY <1>1, <1>2, <2>2, <3>1 DEF OccRecord
  <2> QED BY <1>3, <2>1, <2>2 DEF MarkRunning
<1>4. CASE WriteOutcome(id)
  <2> DEFINE to == Classify(run[id].answer, run[id].started)
  <2>1. to \in {"succeeded", "failed", "outcome_unknown"}
    BY DEF Classify
  <2>2. \/ occ' = occ
        \/ /\ occ[id].state \in {"admitted", "running"}
           /\ occ' = [occ EXCEPT ![id] = [@ EXCEPT !.state = to, !.endedAt = now]]
    BY <1>4 DEF WriteOutcome
  <2> HIDE DEF to
  <2>3. CASE occ' = occ
    BY <2>3 DEF Moved
  <2>4. CASE /\ occ[id].state \in {"admitted", "running"}
             /\ occ' = [occ EXCEPT ![id] = [@ EXCEPT !.state = to, !.endedAt = now]]
    <3>1. /\ occ'[id] = [occ[id] EXCEPT !.state = to, !.endedAt = now]
          /\ \A y \in Ids \ {id} : occ'[y] = occ[y]
      BY <1>1, <2>4
    <3> QED BY <1>1, <1>2, <2>1, <2>4, <3>1 DEF OccRecord
  <2> QED BY <2>2, <2>3, <2>4
<1> QED BY <1>3, <1>4

(* The recovery sweep moves open records only. *)
LEMMA SweepMoves == ASSUME TypeInv, Start, NEW x \in Ids PROVE Moved(x)
<1>1. occ[x] \in OccRecord
  BY DEF TypeInv, TypeOK
<1>2. occ'[x] = IF occ[x].state \in {"admitted", "running"}
                THEN [occ[x] EXCEPT !.state = "outcome_unknown"] ELSE occ[x]
  BY DEF Start
<1> QED BY <1>1, <1>2 DEF Moved, OccRecord

(* Every step admits one occurrence or only moves records. *)
LEMMA LedgerSteps ==
  ASSUME TypeInv, [Next]_vars
  PROVE  \/ \A x \in Ids : Moved(x)
         \/ \E c \in cand : Admit(c) /\ Eligible(c) /\ Reserve(c)
<1>0. ASSUME occ' = occ PROVE \A x \in Ids : Moved(x)
  BY <1>0 DEF Moved
<1>s. ASSUME NEW id \in Ids, NEW x \in Ids,
             \/ LateSettle(id, "succeeded") \/ LateSettle(id, "failed")
             \/ TerminationSettle(id) \/ (TerminationWrite(id) /\ Unresolved(occ[id]))
      PROVE  Moved(x)
  <2>1. CASE LateSettle(id, "succeeded")
    BY <2>1, SettleMoves
  <2>2. CASE LateSettle(id, "failed")
    BY <2>2, SettleMoves
  <2>3. CASE TerminationSettle(id) \/ (TerminationWrite(id) /\ Unresolved(occ[id]))
    BY <2>3, TerminationMoves
  <2> QED BY <1>s, <2>1, <2>2, <2>3
<1>1. CASE UNCHANGED vars \/ Advance \/ ControlNext
  BY <1>0, <1>1 DEF vars, Advance, ControlNext, CreateJob, UpdateJob, EnableJob, DisableJob, DeleteJob, Control
<1>2. CASE EngineNext
  <2>1. \/ Start \/ occ' = occ
        \/ \E c \in cand : Admit(c) /\ Eligible(c) /\ Reserve(c)
    BY <1>2 DEF EngineNext, CatchupScan, TickScan, Scan, ScanDone, Admit, Stop, Crash, LeaseLost, EngineEnds
  <2> QED BY <1>0, <2>1, SweepMoves
<1>3. ASSUME NEW id \in Ids, RunNext(id) PROVE \A x \in Ids : Moved(x)
  <2>1. \/ occ' = occ \/ MarkRunning(id) \/ WriteOutcome(id)
        \/ LateSettle(id, "succeeded") \/ LateSettle(id, "failed") \/ TerminationSettle(id)
    BY <1>3 DEF RunNext, Invoke, OnStart, Deadline, Answer, SettleProof, LateResult, doc
  <2>2. CASE MarkRunning(id) \/ WriteOutcome(id)
    BY <2>2, OutcomeMoves
  <2> QED BY <1>0, <1>s, <2>1, <2>2
<1>4. ASSUME NEW id \in Ids, ReconcileNext(id) PROVE \A x \in Ids : Moved(x)
  <2>1. \/ LateSettle(id, "succeeded") \/ LateSettle(id, "failed")
        \/ TerminationSettle(id) \/ (TerminationWrite(id) /\ Unresolved(occ[id]))
    BY <1>4 DEF ReconcileNext, Readback, AutoReconcile, SelfReconcile, OperatorReconcile
  <2> QED BY <1>s, <2>1
<1>5. ASSUME NEW id \in Ids, NEW how \in Ended, TurnEnds(id, how) PROVE \A x \in Ids : Moved(x)
  BY <1>0, <1>5 DEF TurnEnds
<1> QED BY <1>1, <1>2, <1>3, <1>4, <1>5 DEF Next

(* An admission writes one new record; the others stay. *)
LEMMA Admission ==
  ASSUME TypeInv, NEW c \in cand, Admit(c), Eligible(c), Reserve(c)
  PROVE  /\ c \in CandRecord /\ c.id \in Ids /\ c.id[1] \in Jobs
         /\ occ[c.id].state = "absent"
         /\ occ'[c.id].state = "admitted" /\ occ'[c.id].late = FALSE /\ occ'[c.id].term = FALSE
         /\ occ'[c.id].admittedAt = now /\ occ'[c.id].endedAt = now
         /\ \A x \in Ids \ {c.id} : occ'[x] = occ[x]
         /\ UNCHANGED <<now, jobs, fences>>
         /\ cand' \subseteq cand
<1>1. occ \in [Ids -> OccRecord] /\ cand \subseteq CandRecord
  BY DEF TypeInv, TypeOK
<1>2. c \in CandRecord /\ c.id \in Ids /\ c.id[1] \in Jobs
  BY <1>1, IdParts DEF CandRecord
<1> QED BY <1>1, <1>2 DEF Admit, Eligible, Reserve

-----------------------------------------------------------------------------
(* The clock does not run backwards. *)
LEMMA ClockStep ==
  ASSUME TypeInv, [Next]_vars
  PROVE  now \in Nat /\ now' \in Nat /\ now <= now'
<1>1. now \in Nat
  BY EngineAssumption DEF TypeInv, TypeOK, Times
<1>2. CASE Advance
  BY <1>1, <1>2 DEF Advance
<1>3. CASE now' = now
  BY <1>1, <1>3
<1>4. Advance \/ now' = now
  BY DEF Next, vars, ControlNext, CreateJob, UpdateJob, EnableJob, DisableJob, DeleteJob,
     Control, Quiet, EngineNext, Start, CatchupScan, TickScan, Scan, ScanDone, Admit, Stop, Crash,
     LeaseLost, EngineEnds, RunNext, Invoke, OnStart, MarkRunning, Deadline, WriteOutcome, SettleProof,
     Answer, LateResult, ReconcileNext, Readback, AutoReconcile, SelfReconcile, OperatorReconcile, TurnEnds
<1> QED BY <1>2, <1>3, <1>4

(* The times of a record are numbers. *)
LEMMA TimesAreNat ==
  ASSUME TypeInv, NEW x \in Ids
  PROVE  /\ occ[x] \in OccRecord
         /\ occ[x].admittedAt \in Nat /\ occ[x].endedAt \in Nat /\ occ[x].termAt \in Nat
         /\ x[3] \in Nat /\ x[4] \in Nat
<1>1. occ[x] \in OccRecord
  BY DEF TypeInv, TypeOK
<1>2. Times \subseteq Nat /\ 0..MaxChain \subseteq Nat
  BY EngineAssumption DEF Times
<1>3. x[3] \in Times /\ x[4] \in 0..MaxChain
  BY IdParts
<1> QED BY <1>1, <1>2, <1>3 DEF OccRecord

-----------------------------------------------------------------------------
(* A moved record still fits, and a failure is final. *)
LEMMA FitsMoved ==
  ASSUME TypeInv, [Next]_vars, NEW x \in Ids, Fits(x), Moved(x)
  PROVE  /\ Fits(x)'
         /\ Present(occ[x])' <=> Present(occ[x])
         /\ occ'[x].admittedAt = occ[x].admittedAt \/ ~Present(occ[x])
         /\ occ[x].state = "failed" => occ'[x] = occ[x]
<1>1. now \in Nat /\ now' \in Nat /\ now <= now'
  BY ClockStep
<1>2. /\ occ[x] \in OccRecord
      /\ occ[x].admittedAt \in Nat /\ occ[x].endedAt \in Nat /\ occ[x].termAt \in Nat /\ x[3] \in Nat
  BY TimesAreNat
<1>3. occ[x].late \in BOOLEAN /\ occ[x].term \in BOOLEAN
  BY <1>2 DEF OccRecord
<1>4. CASE occ'[x] = occ[x]
  BY <1>1, <1>2, <1>4 DEF Fits, Present
<1>5. CASE /\ occ[x].state \in {"admitted", "running"}
           /\ occ'[x].state \in {"running", "succeeded", "failed", "outcome_unknown"}
           /\ occ'[x].late = occ[x].late /\ occ'[x].term = occ[x].term
           /\ occ'[x].admittedAt = occ[x].admittedAt
           /\ occ'[x].endedAt \in {occ[x].endedAt, now}
  <2>1. occ[x].late = FALSE /\ occ[x].term = FALSE
    BY <1>3, <1>5 DEF Fits, Present
  <2> QED BY <1>1, <1>2, <1>5, <2>1 DEF Fits, Present
<1>6. CASE /\ occ[x].state = "outcome_unknown" /\ occ[x].late = FALSE
           /\ occ'[x].state \in {"succeeded", "failed"} /\ occ'[x].late = TRUE
           /\ occ'[x].term = occ[x].term /\ occ'[x].termAt = occ[x].termAt
           /\ occ'[x].admittedAt = occ[x].admittedAt
           /\ occ'[x].endedAt = now
  BY <1>1, <1>2, <1>6 DEF Fits, Present
<1>7. CASE /\ Unresolved(occ[x])
           /\ occ'[x].state = "outcome_unknown" /\ occ'[x].late = FALSE
           /\ occ'[x].term = TRUE /\ occ'[x].termAt = now
           /\ occ'[x].admittedAt = occ[x].admittedAt
           /\ occ'[x].endedAt = now
  BY <1>1, <1>2, <1>7 DEF Fits, Present, Unresolved
<1> QED BY <1>4, <1>5, <1>6, <1>7 DEF Moved

(* Steps that only move records keep the order of the times. *)
LEMMA MovesKeep ==
  ASSUME TypeInv, [Next]_vars, \A x \in Ids : Fits(x), \A a, b \in Ids : Chained(a, b),
         \A x \in Ids : Moved(x)
  PROVE  /\ \A x \in Ids : Fits(x)'
         /\ \A a, b \in Ids : Chained(a, b)'
<1>1. \A x \in Ids : Fits(x)'
  BY FitsMoved
<1>2. ASSUME NEW a \in Ids, NEW b \in Ids, SameSlot(a, b), a[4] < b[4], Present(occ[b])'
      PROVE  occ'[a].state = "failed" /\ occ'[a].endedAt < occ'[b].admittedAt
  <2>1. Present(occ[b]) /\ occ'[b].admittedAt = occ[b].admittedAt
    BY <1>2, FitsMoved
  <2>2. occ[a].state = "failed" /\ occ[a].endedAt < occ[b].admittedAt
    BY <1>2, <2>1 DEF Chained
  <2>3. occ'[a] = occ[a]
    BY <2>2, FitsMoved
  <2> QED BY <2>1, <2>2, <2>3
<1>3. \A a, b \in Ids : Chained(a, b)'
  BY <1>2 DEF Chained, SameSlot
<1> QED BY <1>1, <1>3

(* A due retry: the failure it follows, and that it ended in the past. *)
LEMMA RetryFacts ==
  ASSUME TypeInv, \A x \in Ids : Fits(x), NEW p \in Ids, RetryDue(p[1], p)
  PROVE  /\ occ[p].state = "failed" /\ occ[p].endedAt < now /\ p[3] <= now /\ IsLatest(p)
         /\ p[2] = jobs[p[1]].rev
<1>1. occ[p].state = "failed" /\ IsLatest(p) /\ now >= occ[p].endedAt + Backoff(p[1], p[4])
      /\ p[2] = jobs[p[1]].rev
  BY DEF RetryDue, RetryPending
<1>2. p[4] \in Nat /\ occ[p].endedAt \in Nat /\ p[3] \in Nat /\ occ[p].admittedAt \in Nat /\ now \in Nat
  BY TimesAreNat, EngineAssumption DEF TypeInv, TypeOK, Times
<1>3. Backoff(p[1], p[4]) \in Nat \ {0}
  <2> DEFINE table == IF Kind[p[1]] = "at" THEN OneShotBackoff ELSE RecurringBackoff
             n == IF p[4] < Len(table) THEN p[4] + 1 ELSE Len(table)
  <2>1. table \in Seq(Nat \ {0}) /\ table # <<>>
    BY EngineAssumption
  <2>2. Len(table) \in Nat \ {0} /\ n \in 1..Len(table)
    <3> HIDE DEF table
    <3>1. Len(table) \in Nat \ {0}
      BY <2>1
    <3> QED BY <1>2, <3>1
  <2>3. table[n] \in Nat \ {0}
    <3> HIDE DEF table, n
    <3> QED BY <2>1, <2>2
  <2> QED BY <2>3 DEF Backoff
<1>4. p[3] <= occ[p].admittedAt /\ occ[p].admittedAt <= occ[p].endedAt
  BY <1>1 DEF Fits, Present
<1> QED BY <1>1, <1>2, <1>3, <1>4

(* What the second look under the lock has established of an admission. *)
LEMMA AdmittedAs ==
  ASSUME TypeInv, \A x \in Ids : Fits(x), Scanned,
         NEW c \in cand, c.id \in Ids, Eligible(c)
  PROVE  /\ c.id[3] <= now /\ c.id[2] = jobs[c.id[1]].rev
         /\ \/ c.id[4] = 0 /\ NaturalDue(c.id[1], c.id[3])
            \/ \E p \in Ids : /\ RetryDue(p[1], p)
                              /\ SameSlot(p, c.id) /\ c.id[4] = p[4] + 1
<1>1. jobs[c.id[1]].rev = c.id[2]
  BY DEF Eligible
<1>2. CASE c.kind # "retry"
  BY <1>1, <1>2 DEF Eligible, Scanned, NaturalDue
<1>3. CASE c.kind = "retry"
  <2>1. PICK p \in OfJob[c.id[1]] : RetryDue(c.id[1], p) /\ RetryOf(p) = c.id
    BY <1>3 DEF Eligible
  <2>2. p \in Ids /\ p[1] = c.id[1]
    BY <2>1, IdParts DEF OfJob
  <2>3. SameSlot(p, c.id) /\ c.id[4] = p[4] + 1
    BY <2>1, <2>2 DEF SameSlot, RetryOf
  <2>4. RetryDue(p[1], p)
    BY <2>1, <2>2
  <2>5. p[3] <= now /\ c.id[3] = p[3]
    BY <2>2, <2>3, <2>4, RetryFacts DEF SameSlot
  <2> QED BY <1>1, <2>2, <2>3, <2>4, <2>5
<1> QED BY <1>2, <1>3

(* An admission keeps the order of the times: a retry follows its failed   *)
(* predecessor, which ended before now.                                    *)
LEMMA AdmissionKeeps ==
  ASSUME TypeInv, DocInv, NEW c \in cand, Admit(c), Eligible(c), Reserve(c)
  PROVE  /\ \A x \in Ids : Fits(x)'
         /\ \A a, b \in Ids : Chained(a, b)'
<1>d. (\A x \in Ids : Fits(x)) /\ (\A a, b \in Ids : Chained(a, b)) /\ Scanned
  BY DEF DocInv
<1>1. /\ c.id \in Ids /\ occ[c.id].state = "absent"
      /\ occ'[c.id].state = "admitted" /\ occ'[c.id].late = FALSE /\ occ'[c.id].term = FALSE
      /\ occ'[c.id].admittedAt = now /\ occ'[c.id].endedAt = now
      /\ now' = now
  BY Admission
<1>2. \A x \in Ids \ {c.id} : occ'[x] = occ[x]
  BY Admission
<1>3. /\ c.id[3] <= now
      /\ \/ c.id[4] = 0
         \/ \E p \in Ids : RetryDue(p[1], p) /\ SameSlot(p, c.id) /\ c.id[4] = p[4] + 1
  BY <1>1, <1>d, AdmittedAs
<1>n. now \in Nat
  BY EngineAssumption DEF TypeInv, TypeOK, Times
<1>4. ASSUME NEW x \in Ids PROVE Fits(x)'
  <2>1. CASE x = c.id
    BY <1>1, <1>3, <1>n, <2>1 DEF Fits
  <2>2. CASE x # c.id
    BY <1>1, <1>2, <1>d, <2>2 DEF Fits, Present
  <2> QED BY <2>1, <2>2
<1>5. ASSUME NEW a \in Ids, NEW b \in Ids, SameSlot(a, b), a[4] < b[4], Present(occ[b])'
      PROVE  occ'[a].state = "failed" /\ occ'[a].endedAt < occ'[b].admittedAt
  <2>0. a[4] \in Nat /\ b[4] \in Nat
    BY TimesAreNat
  <2>1. CASE b # c.id
    <3>1. occ'[b] = occ[b] /\ Present(occ[b])
      BY <1>2, <1>5, <2>1 DEF Present
    <3>2. occ[a].state = "failed" /\ occ[a].endedAt < occ[b].admittedAt
      BY <1>5, <1>d, <3>1 DEF Chained
    <3>3. a # c.id
      BY <1>1, <3>2
    <3> QED BY <1>2, <3>1, <3>2, <3>3
  <2>2. CASE b = c.id
    <3>1. PICK p \in Ids : RetryDue(p[1], p) /\ SameSlot(p, c.id) /\ c.id[4] = p[4] + 1
      BY <1>3, <1>5, <2>0, <2>2
    <3>2. occ[p].state = "failed" /\ occ[p].endedAt < now
      BY <1>d, <3>1, RetryFacts
    <3>3. p[4] \in Nat /\ occ[p].admittedAt \in Nat /\ occ[p].endedAt \in Nat /\ occ[a].endedAt \in Nat
      BY TimesAreNat
    <3>4. a[4] = p[4] \/ a[4] < p[4]
      BY <1>5, <2>0, <2>2, <3>1, <3>3
    <3>5. SameSlot(a, p)
      BY <1>5, <2>2, <3>1 DEF SameSlot
    <3>6. occ[a].state = "failed" /\ occ[a].endedAt < now
      <4>1. CASE a[4] = p[4]
        <5>1. a = p
          BY <3>5, <4>1 DEF SameSlot, Ids
        <5> QED BY <3>2, <5>1
      <4>2. CASE a[4] < p[4]
        <5>1. Present(occ[p]) /\ occ[p].admittedAt <= occ[p].endedAt
          BY <1>d, <3>2 DEF Fits, Present
        <5>2. occ[a].state = "failed" /\ occ[a].endedAt < occ[p].admittedAt
          BY <1>d, <3>5, <4>2, <5>1 DEF Chained
        <5> QED BY <1>n, <3>2, <3>3, <5>1, <5>2
      <4> QED BY <3>4, <4>1, <4>2
    <3>7. a # c.id
      BY <1>1, <3>6
    <3> QED BY <1>1, <1>2, <2>2, <3>6, <3>7
  <2> QED BY <2>1, <2>2
<1>6. \A a, b \in Ids : Chained(a, b)'
  BY <1>5 DEF Chained, SameSlot
<1> QED BY <1>4, <1>6

(* The candidates of a scan are natural ones, or retries. *)
LEMMA ScannedKept == ASSUME TypeInv, Scanned, [Next]_vars PROVE Scanned'
<1>t. cand \subseteq CandRecord
  BY DEF TypeInv, TypeOK
<1>1. CASE cand' \subseteq cand
  BY <1>1 DEF Scanned
<1>2. CASE CatchupScan \/ TickScan
  <2>1. ASSUME NEW j \in Jobs, NEW c \in TickCandidates(j) \cup CatchupCandidates(j), c.kind # "retry"
        PROVE  c.id[4] = 0
    <3>1. c \in Natural(j, "natural") \/ c \in Natural(j, "catchup")
      BY <2>1 DEF TickCandidates, CatchupCandidates
    <3> QED BY <3>1 DEF Natural
  <2>2. \A c \in cand' : c \in cand \/ \E j \in Jobs : c \in TickCandidates(j) \cup CatchupCandidates(j)
    BY <1>2 DEF CatchupScan, TickScan, Scan
  <2> QED BY <2>1, <2>2 DEF Scanned
<1>3. CASE LeaseLost
  <2>1. ASSUME NEW d \in cand PROVE [d EXCEPT !.own = FALSE].kind = d.kind /\ [d EXCEPT !.own = FALSE].id = d.id
    BY <1>t DEF CandRecord
  <2>2. ASSUME NEW c \in cand', c.kind # "retry" PROVE c.id[4] = 0
    <3>1. PICK d \in cand : c = [d EXCEPT !.own = FALSE]
      BY <1>3 DEF LeaseLost
    <3>2. c.kind = d.kind /\ c.id = d.id
      BY <2>1, <3>1
    <3> QED BY <2>2, <3>2 DEF Scanned
  <2> QED BY <2>2 DEF Scanned
<1>4. cand' \subseteq cand \/ CatchupScan \/ TickScan \/ LeaseLost
  <2>1. CASE Advance \/ ControlNext \/ UNCHANGED vars
    BY <2>1 DEF vars, Advance, ControlNext, CreateJob, UpdateJob, EnableJob, DisableJob, DeleteJob, Control, Quiet
  <2>2. CASE EngineNext
    BY <2>2 DEF EngineNext, Start, ScanDone, Admit, Stop, Crash
  <2>3. ASSUME NEW id \in Ids, RunNext(id) PROVE cand' = cand
    BY <2>3 DEF RunNext, Invoke, OnStart, MarkRunning, Deadline, WriteOutcome, SettleProof, Answer, LateResult
  <2>4. ASSUME NEW id \in Ids, ReconcileNext(id) PROVE cand' = cand
    BY <2>4 DEF ReconcileNext, Readback, AutoReconcile, SelfReconcile, OperatorReconcile, Quiet
  <2>5. ASSUME NEW id \in Ids, NEW how \in Ended, TurnEnds(id, how) PROVE cand' = cand
    BY <2>5 DEF TurnEnds
  <2> QED BY <2>1, <2>2, <2>3, <2>4, <2>5 DEF Next
<1> QED BY <1>1, <1>2, <1>3, <1>4

(* A step that makes no record unknown and settles none needs no rebuild. *)
LEMMA FencesStand ==
  ASSUME fences = RebuildFences(occ), UNCHANGED fences,
         \A x \in Ids : Unresolved(occ[x])' <=> Unresolved(occ[x])
  PROVE  fences' = RebuildFences(occ')
  BY DEF RebuildFences, OfJob, Unresolved

(* The stored fences are the ones the ledger implies, after every step. *)
LEMMA FencesKept ==
  ASSUME TypeInv, fences = RebuildFences(occ), [Next]_vars
  PROVE  fences' = RebuildFences(occ')
<1>t. occ \in [Ids -> OccRecord]
  BY DEF TypeInv, TypeOK
<1>1. ASSUME UNCHANGED <<occ, fences>> PROVE fences' = RebuildFences(occ')
  BY <1>1
<1>2. ASSUME NEW id \in Ids, MarkRunning(id) PROVE fences' = RebuildFences(occ')
  <2>1. \A x \in Ids : Unresolved(occ[x])' <=> Unresolved(occ[x])
    BY <1>2, <1>t DEF MarkRunning, OccRecord, Unresolved
  <2> QED BY <1>2, <2>1, FencesStand DEF MarkRunning
<1>3. ASSUME NEW c \in cand, Admit(c) PROVE fences' = RebuildFences(occ')
  <2>1. CASE Eligible(c) /\ Reserve(c)
    <3>1. \A x \in Ids : Unresolved(occ[x])' <=> Unresolved(occ[x])
      BY <1>3, <2>1, Admission DEF Unresolved
    <3> QED BY <1>3, <3>1, FencesStand DEF Admit
  <2>2. CASE UNCHANGED <<occ, run>>
    BY <1>3, <2>2 DEF Admit
  <2> QED BY <1>3, <2>1, <2>2 DEF Admit
<1>4. CASE UNCHANGED vars \/ Advance \/ ControlNext
  BY <1>1, <1>4 DEF vars, Advance, ControlNext, CreateJob, UpdateJob, EnableJob, DisableJob, DeleteJob, Control
<1>5. CASE EngineNext
  <2>1. CASE Start
    BY <2>1 DEF Start
  <2> QED BY <1>1, <1>3, <1>5, <2>1
      DEF EngineNext, CatchupScan, TickScan, Scan, ScanDone, Stop, Crash, LeaseLost, EngineEnds
<1>s. ASSUME NEW id \in Ids,
             \/ LateSettle(id, "succeeded") \/ LateSettle(id, "failed")
             \/ TerminationSettle(id) \/ TerminationWrite(id) \/ UNCHANGED doc
      PROVE  fences' = RebuildFences(occ')
  BY <1>1, <1>s DEF LateSettle, TerminationSettle, TerminationWrite, doc
<1>6. ASSUME NEW id \in Ids, RunNext(id) PROVE fences' = RebuildFences(occ')
  <2>1. CASE WriteOutcome(id)
    BY <2>1 DEF WriteOutcome
  <2>2. CASE SettleProof(id) \/ \E a \in Answers : LateResult(id, a)
    BY <1>s, <2>2 DEF SettleProof, LateResult
  <2> QED BY <1>1, <1>2, <1>6, <2>1, <2>2 DEF RunNext, Invoke, OnStart, Deadline, Answer
<1>7. ASSUME NEW id \in Ids, ReconcileNext(id) PROVE fences' = RebuildFences(occ')
  BY <1>s, <1>7 DEF ReconcileNext, Readback, AutoReconcile, SelfReconcile, OperatorReconcile
<1>8. ASSUME NEW id \in Ids, NEW how \in Ended, TurnEnds(id, how) PROVE fences' = RebuildFences(occ')
  BY <1>1, <1>8 DEF TurnEnds
<1> QED BY <1>4, <1>5, <1>6, <1>7, <1>8 DEF Next

-----------------------------------------------------------------------------
(* The document invariant holds initially, and every step keeps it. *)
LEMMA DocInit == Init => DocInv
<1> SUFFICES ASSUME Init PROVE DocInv
  OBVIOUS
<1>1. \A x \in Ids : occ[x] = NoOcc
  BY DEF Init
<1>2. \A x \in Ids : Fits(x)
  BY <1>1 DEF Fits, Present, NoOcc
<1>3. \A a, b \in Ids : Chained(a, b)
  BY <1>1 DEF Chained, Present, NoOcc
<1>4. fences = RebuildFences(occ)
  BY <1>1 DEF Init, RebuildFences, OfJob, Unresolved, NoOcc
<1> QED BY <1>2, <1>3, <1>4 DEF Init, DocInv, Scanned

LEMMA DocStep == TypeInv /\ DocInv /\ [Next]_vars => DocInv'
<1> SUFFICES ASSUME TypeInv, DocInv, [Next]_vars PROVE DocInv'
  OBVIOUS
<1>1. Scanned' /\ fences' = RebuildFences(occ')
  BY ScannedKept, FencesKept DEF DocInv
<1>2. (\A x \in Ids : Fits(x)') /\ (\A a, b \in Ids : Chained(a, b)')
  <2>1. CASE \A x \in Ids : Moved(x)
    BY <2>1, MovesKeep DEF DocInv
  <2>2. ASSUME NEW c \in cand, Admit(c), Eligible(c), Reserve(c)
        PROVE  (\A x \in Ids : Fits(x)') /\ (\A a, b \in Ids : Chained(a, b)')
    BY <2>2, AdmissionKeeps
  <2> QED BY <2>1, <2>2, LedgerSteps
<1> QED BY <1>1, <1>2 DEF DocInv

(* Every committed document passes the checks of store.js: the stored      *)
(* fences are those the ledger implies, the predecessor of a retry exists  *)
(* and failed, the settlement fields fit the state and an occurrence does  *)
(* not end before it was admitted.                                         *)
THEOREM DocumentsAreValid == Spec => []DocumentValid
<1>1. ASSUME TypeInv, DocInv PROVE DocumentValid
  <2> SUFFICES ASSUME NEW id \in Ids, Present(occ[id])
               PROVE  /\ id[4] > 0 => occ[<<id[1], id[2], id[3], id[4] - 1>>].state = "failed"
                      /\ occ[id].late => occ[id].state \in {"succeeded", "failed"}
                      /\ occ[id].term => occ[id].state = "outcome_unknown" \/ occ[id].late
                      /\ occ[id].endedAt >= occ[id].admittedAt
    BY <1>1 DEF DocInv, DocumentValid
  <2>1. Fits(id)
    BY <1>1 DEF DocInv
  <2>2. occ[id].admittedAt \in Nat /\ occ[id].endedAt \in Nat /\ id[4] \in Nat
    BY <1>1, TimesAreNat
  <2>3. ASSUME id[4] > 0 PROVE occ[<<id[1], id[2], id[3], id[4] - 1>>].state = "failed"
    <3> DEFINE pred == <<id[1], id[2], id[3], id[4] - 1>>
    <3>1. pred \in Ids
      BY <2>2, <2>3, EngineAssumption DEF Ids
    <3>2. SameSlot(pred, id) /\ pred[4] < id[4]
      BY <2>2 DEF SameSlot
    <3>3. Chained(pred, id)
      BY <1>1, <3>1 DEF DocInv
    <3> QED BY <3>2, <3>3 DEF Chained
  <2> QED BY <2>1, <2>2, <2>3 DEF Fits
<1> QED BY <1>1, InitSafe, DocInit, TypeStep, DocStep, PTL DEF Spec

-----------------------------------------------------------------------------
(* latestTerminalOccurrence finds one if there is any, and nothing of the  *)
(* job ended after it.                                                     *)
LEMMA LatestExists ==
  ASSUME TypeInv, NEW j \in Jobs, NEW x \in OfJob[j], Terminal(occ[x])
  PROVE  \E l \in OfJob[j] : IsLatest(l) /\ OpEnd(occ[x]) <= OpEnd(occ[l])
<1> DEFINE Done == {y \in OfJob[j] : Terminal(occ[y])}
           Ends == {OpEnd(occ[y]) : y \in Done}
<1>1. ASSUME NEW y \in OfJob[j]
      PROVE  y \in Ids /\ y[1] = j /\ occ[y].admittedAt \in Times /\ OpEnd(occ[y]) \in Times
  <2>1. y \in Ids /\ y[1] = j
    BY DEF OfJob
  <2>2. occ[y] \in OccRecord
    BY <2>1 DEF TypeInv, TypeOK
  <2> QED BY <2>1, <2>2 DEF OpEnd, OccRecord
<1>2. Ends \subseteq Times /\ Ends # {}
  BY <1>1
<1>3. PICK end \in Ends : \A m \in Ends : m <= end
  <2> HIDE DEF Ends
  <2> QED BY <1>2, Greatest
<1> DEFINE Last == {y \in Done : OpEnd(occ[y]) = end}
           Starts == {occ[y].admittedAt : y \in Last}
<1>4. Starts \subseteq Times /\ Starts # {}
  BY <1>1
<1>5. PICK start \in Starts : \A m \in Starts : m <= start
  <2> HIDE DEF Starts
  <2> QED BY <1>4, Greatest
<1>6. PICK l \in Last : occ[l].admittedAt = start
  OBVIOUS
<1>7. l \in OfJob[j] /\ Terminal(occ[l]) /\ OpEnd(occ[l]) = end /\ l[1] = j
  BY <1>1, <1>6
<1>8. ASSUME NEW other \in OfJob[j], Terminal(occ[other])
      PROVE  /\ OpEnd(occ[other]) <= end
             /\ OpEnd(occ[other]) = end => occ[other].admittedAt <= start
  <2>1. other \in Done /\ OpEnd(occ[other]) \in Ends
    BY <1>8
  <2>2. ASSUME OpEnd(occ[other]) = end PROVE occ[other].admittedAt <= start
    <3>1. occ[other].admittedAt \in Starts
      BY <2>1, <2>2
    <3> HIDE DEF Starts
    <3> QED BY <1>5, <3>1
  <2> QED BY <1>3, <2>1, <2>2
<1>9. \A t \in Times : t \in Nat
  BY EngineAssumption DEF Times
<1>10. end \in Nat /\ \A y \in OfJob[j] : OpEnd(occ[y]) \in Nat
  BY <1>1, <1>2, <1>9
<1> HIDE DEF Done, Ends, Last, Starts
<1>11. IsLatest(l)
  <2> SUFFICES ASSUME NEW other \in OfJob[j], Terminal(occ[other])
               PROVE  \/ OpEnd(occ[other]) < OpEnd(occ[l])
                      \/ /\ OpEnd(occ[other]) = OpEnd(occ[l])
                         /\ occ[other].admittedAt <= occ[l].admittedAt
    BY <1>7 DEF IsLatest
  <2> QED BY <1>6, <1>7, <1>8, <1>10
<1> QED BY <1>7, <1>8, <1>11

(* An occurrence is admitted before it ends. *)
LEMMA AdmittedBeforeEnd ==
  ASSUME TypeInv, DocInv, NEW x \in Ids, Present(occ[x])
  PROVE  occ[x].admittedAt <= OpEnd(occ[x]) /\ OpEnd(occ[x]) <= occ[x].endedAt
<1>1. Fits(x) /\ occ[x].endedAt \in Nat
  BY TimesAreNat DEF DocInv
<1> QED BY <1>1 DEF Fits, OpEnd

(* A slot that is due lies after every earlier admission of the job. *)
LEMMA NaturalIsLater ==
  ASSUME TypeInv, DocInv, NEW j \in Jobs, NEW s, NaturalDue(j, s), ~HasOpen(j),
         NEW other \in OfJob[j], Present(occ[other])
  PROVE  OpEnd(occ[other]) < s /\ occ[other].admittedAt < s
<1>1. Terminal(occ[other]) /\ other \in Ids
  BY DEF HasOpen, OfJob
<1>2. PICK l \in OfJob[j] : IsLatest(l) /\ OpEnd(occ[other]) <= OpEnd(occ[l])
  BY <1>1, LatestExists
<1>3. s > OpEnd(occ[l]) + RefireGap
  BY <1>2 DEF NaturalDue
<1>4. s \in Nat /\ RefireGap \in Nat
  BY EngineAssumption DEF NaturalDue, Times
<1>5. l \in Ids /\ \A x \in Ids : OpEnd(occ[x]) \in Nat
  BY TimesAreNat DEF OpEnd, OfJob
<1>6. occ[other].admittedAt <= OpEnd(occ[other]) /\ occ[other].admittedAt \in Nat
  BY <1>1, AdmittedBeforeEnd, TimesAreNat
<1> QED BY <1>1, <1>2, <1>3, <1>4, <1>5, <1>6

(* A record that appears was admitted by this step. *)
LEMMA NewRecord ==
  ASSUME TypeInv, DocInv, [Next]_vars, NEW id \in Ids, ~Present(occ[id]), Present(occ[id])'
  PROVE  \E c \in cand : Admit(c) /\ Eligible(c) /\ Reserve(c) /\ c.id = id
<1>1. ~Moved(id)
  BY FitsMoved DEF DocInv
<1>2. PICK c \in cand : Admit(c) /\ Eligible(c) /\ Reserve(c)
  BY <1>1, LedgerSteps
<1>3. c.id = id
  BY <1>2, Admission DEF Present
<1> QED BY <1>2, <1>3

-----------------------------------------------------------------------------
(* No backfill: a natural or catch-up admission is for a slot later than   *)
(* every earlier admission of the job and than its activation, although    *)
(* the scan that found it may be stale (naturalCandidate, decided again by *)
(* reserveOccurrence under the lock).                                      *)
THEOREM NothingIsBackfilled == Spec => NoBackfill
<1> DEFINE Later(id) ==
             ~Present(occ[id]) /\ Present(occ'[id]) /\ id[4] = 0 =>
               /\ id[3] > jobs[id[1]].activation
               /\ \A other \in OfJob[id[1]] : Present(occ[other]) => occ[other].admittedAt < id[3]
<1>1. ASSUME TypeInv, DocInv, [Next]_vars PROVE [\A id \in Ids : Later(id)]_vars
  <2> SUFFICES ASSUME NEW id \in Ids, ~Present(occ[id]), Present(occ'[id]), id[4] = 0
               PROVE  /\ id[3] > jobs[id[1]].activation
                      /\ \A other \in OfJob[id[1]] : Present(occ[other]) => occ[other].admittedAt < id[3]
    OBVIOUS
  <2>1. PICK c \in cand : Admit(c) /\ Eligible(c) /\ Reserve(c) /\ c.id = id
    BY <1>1, NewRecord DEF Present
  <2>2. (\A x \in Ids : Fits(x)) /\ Scanned
    BY <1>1 DEF DocInv
  <2>3. NaturalDue(id[1], id[3])
    <3>1. CASE \E p \in Ids : RetryDue(p[1], p) /\ SameSlot(p, id) /\ id[4] = p[4] + 1
      BY <1>1, <3>1, TimesAreNat
    <3> QED BY <1>1, <2>1, <2>2, <3>1, AdmittedAs
  <2>4. ~HasOpen(id[1]) /\ id[1] \in Jobs
    BY <2>1, IdParts DEF Eligible, Admissible
  <2> QED BY <1>1, <2>3, <2>4, NaturalIsLater DEF NaturalDue
<1> QED BY <1>1, InitSafe, DocInit, TypeStep, DocStep, PTL DEF Spec, NoBackfill

(* A one-shot that succeeded is never run again in the same revision: its  *)
(* slot is not later than its own admission, and the failures of its chain *)
(* are older than the success, so none of them is the latest.              *)
THEOREM OneShotsSucceedOnce == Spec => OneShotSucceedsOnce
<1> DEFINE Final(id, done) ==
             /\ ~Present(occ[id]) /\ Present(occ'[id])
             /\ Kind[id[1]] = "at" /\ done[1] = id[1] /\ done[2] = id[2]
             => occ[done].state # "succeeded"
<1>1. ASSUME TypeInv, DocInv, [Next]_vars PROVE [\A id, done \in Ids : Final(id, done)]_vars
  <2> SUFFICES ASSUME NEW id \in Ids, NEW done \in Ids, ~Present(occ[id]), Present(occ'[id]),
                      Kind[id[1]] = "at", done[1] = id[1], done[2] = id[2],
                      occ[done].state = "succeeded"
               PROVE  FALSE
    OBVIOUS
  <2>1. PICK c \in cand : Admit(c) /\ Eligible(c) /\ Reserve(c) /\ c.id = id
    BY <1>1, NewRecord DEF Present
  <2>2. (\A x \in Ids : Fits(x)) /\ (\A a, b \in Ids : Chained(a, b)) /\ Scanned
    BY <1>1 DEF DocInv
  <2>3. ~HasOpen(id[1]) /\ id[1] \in Jobs
    BY <2>1, IdParts DEF Eligible, Admissible
  <2>4. done[3] = id[3]
    BY OneShotAssumption, <2>3 DEF Ids
  <2>5. Present(occ[done]) /\ Terminal(occ[done]) /\ done \in OfJob[id[1]]
    BY <2>3 DEF Present, Terminal, OfJob
  <2>6. CASE NaturalDue(id[1], id[3])
    <3>1. occ[done].admittedAt < done[3]
      BY <1>1, <2>3, <2>4, <2>5, <2>6, NaturalIsLater
    <3>2. done[3] <= occ[done].admittedAt
      BY <2>2, <2>5 DEF Fits
    <3> QED BY <1>1, <3>1, <3>2, TimesAreNat
  <2>7. ASSUME NEW p \in Ids, RetryDue(p[1], p), SameSlot(p, id) PROVE FALSE
    <3>1. occ[p].state = "failed" /\ IsLatest(p)
      BY <1>1, <2>2, <2>7, RetryFacts
    <3>2. SameSlot(done, p) /\ SameSlot(p, done)
      BY <2>4, <2>7 DEF SameSlot
    <3>3. p[4] \in Nat /\ done[4] \in Nat /\ p[4] # done[4]
      <4>1. p[4] = done[4] => p = done
        BY <3>2 DEF SameSlot, Ids
      <4> QED BY <1>1, <3>1, <4>1, TimesAreNat
    <3>4. CASE done[4] < p[4]
      BY <2>2, <3>1, <3>2, <3>4 DEF Chained, Present
    <3>5. CASE p[4] < done[4]
      <4>1. occ[p].endedAt < occ[done].admittedAt
        BY <2>2, <2>5, <3>2, <3>5 DEF Chained
      <4>2. OpEnd(occ[p]) <= occ[p].endedAt /\ occ[done].admittedAt <= OpEnd(occ[done])
        BY <1>1, <2>5, <3>1, AdmittedBeforeEnd DEF Present
      <4>3. OpEnd(occ[done]) <= OpEnd(occ[p])
        <5>1. done \in OfJob[p[1]]
          BY <2>5, <2>7 DEF SameSlot
        <5>2. OpEnd(occ[done]) < OpEnd(occ[p]) \/ OpEnd(occ[done]) = OpEnd(occ[p])
          BY <2>5, <3>1, <5>1 DEF IsLatest
        <5>3. OpEnd(occ[done]) \in Nat /\ OpEnd(occ[p]) \in Nat
          BY <1>1, TimesAreNat DEF OpEnd
        <5> QED BY <5>2, <5>3
      <4>4. /\ OpEnd(occ[done]) \in Nat /\ OpEnd(occ[p]) \in Nat
            /\ occ[p].endedAt \in Nat /\ occ[done].admittedAt \in Nat
        BY <1>1, TimesAreNat DEF OpEnd
      <4> QED BY <4>1, <4>2, <4>3, <4>4
    <3> QED BY <3>3, <3>4, <3>5
  <2> QED BY <1>1, <2>1, <2>2, <2>6, <2>7, AdmittedAs
<1> QED BY <1>1, InitSafe, DocInit, TypeStep, DocStep, PTL DEF Spec, OneShotSucceedsOnce

-----------------------------------------------------------------------------
(* The runs this engine counts are finitely many, within its limit. *)
Bounded == IsFiniteSet(Inflight(TRUE)) /\ ConcurrencyBound

(* The limit holds of fewer runs, and of one run more while there is room. *)
LEMMA WithinLimit ==
  ASSUME NEW S, NEW T, IsFiniteSet(S), NEW x,
         \/ T \subseteq S /\ Cardinality(S) <= Concurrency
         \/ T \subseteq S \cup {x} /\ ~ (Cardinality(S) >= Concurrency)
  PROVE  IsFiniteSet(T) /\ Cardinality(T) <= Concurrency
<1> DEFINE U == S \cup {x}
<1>1. Cardinality(S) \in Nat /\ Concurrency \in Nat
  BY FS_CardinalityType, EngineAssumption
<1>2. IsFiniteSet(U) /\ Cardinality(U) <= Cardinality(S) + 1 /\ Cardinality(U) \in Nat
  BY <1>1, FS_AddElement
<1>3. ASSUME NEW V, IsFiniteSet(V), T \subseteq V, Cardinality(V) <= Concurrency, Cardinality(V) \in Nat
      PROVE  IsFiniteSet(T) /\ Cardinality(T) <= Concurrency
  <2>1. IsFiniteSet(T) /\ Cardinality(T) <= Cardinality(V)
    BY <1>3, FS_Subset
  <2>2. Cardinality(T) \in Nat
    BY <2>1, FS_CardinalityType
  <2> QED BY <1>1, <1>3, <2>1, <2>2
<1>4. CASE T \subseteq S /\ Cardinality(S) <= Concurrency
  BY <1>1, <1>3, <1>4
<1>5. CASE T \subseteq S \cup {x} /\ ~ (Cardinality(S) >= Concurrency)
  <2>1. T \subseteq U /\ Cardinality(S) + 1 <= Concurrency
    BY <1>1, <1>5
  <2> HIDE DEF U
  <2>2. Cardinality(U) <= Concurrency
    BY <1>1, <1>2, <2>1
  <2> QED BY <1>2, <1>3, <2>1, <2>2
<1> QED BY <1>4, <1>5

(* One of the runs of this engine that count. *)
Counts(x) == run[x].own = TRUE /\ run[x].phase \in {"reserved", "invoked", "write", "settle"}

LEMMA FewerCount ==
  ASSUME \A x \in Ids : Counts(x)' => Counts(x)
  PROVE  Inflight(TRUE)' \subseteq Inflight(TRUE)
  BY DEF Inflight, Counts

(* A step of runOccurrence never brings a run back among those counted. *)
LEMMA RunCounts ==
  ASSUME TypeInv, NEW id \in Ids, RunNext(id), NEW x \in Ids, Counts(x)'
  PROVE  Counts(x)
<1>t. run \in [Ids -> RunRecord] /\ run[id] \in RunRecord
  BY DEF TypeInv, TypeOK
<1>1. ASSUME run' = [run EXCEPT ![id] = NoRun] PROVE Counts(x)
  BY <1>1, <1>t DEF Counts, NoRun
<1>2. ASSUME NEW r \in RunRecord, run' = [run EXCEPT ![id] = r], r.own = run[id].own,
             \/ r.phase = run[id].phase
             \/ run[id].phase \in {"reserved", "invoked", "write", "settle"}
      PROVE  Counts(x)
  BY <1>2, <1>t DEF Counts
<1>3. CASE Invoke(id)
  <2>1. [run[id] EXCEPT !.phase = "invoked"] \in RunRecord
        /\ [run[id] EXCEPT !.phase = "invoked"].own = run[id].own
    BY <1>t DEF RunRecord, Phases
  <2> QED BY <1>2, <1>3, <2>1 DEF Invoke
<1>4. CASE OnStart(id)
  <2>1. /\ [run[id] EXCEPT !.started = TRUE, !.mark = TRUE] \in RunRecord
        /\ [run[id] EXCEPT !.started = TRUE, !.mark = TRUE].own = run[id].own
        /\ [run[id] EXCEPT !.started = TRUE, !.mark = TRUE].phase = run[id].phase
    BY <1>t DEF RunRecord
  <2> QED BY <1>2, <1>4, <2>1 DEF OnStart
<1>5. CASE MarkRunning(id)
  <2>1. /\ [run[id] EXCEPT !.mark = FALSE] \in RunRecord
        /\ [run[id] EXCEPT !.mark = FALSE].own = run[id].own
        /\ [run[id] EXCEPT !.mark = FALSE].phase = run[id].phase
    BY <1>t DEF RunRecord
  <2> QED BY <1>2, <1>5, <2>1 DEF MarkRunning
<1>6. ASSUME NEW a \in Answers \cup {"timeout"}, run[id].phase = "invoked",
             run' = [run EXCEPT ![id] = [@ EXCEPT !.phase = "write", !.answer = a]]
      PROVE  Counts(x)
  <2>1. /\ [run[id] EXCEPT !.phase = "write", !.answer = a] \in RunRecord
        /\ [run[id] EXCEPT !.phase = "write", !.answer = a].own = run[id].own
    BY <1>t DEF RunRecord, Phases
  <2> QED BY <1>2, <1>6, <2>1
<1>7. CASE WriteOutcome(id)
  <2>1. \/ run' = [run EXCEPT ![id] = NoRun]
        \/ \E ph \in {"settle", "watch"} : run' = [run EXCEPT ![id] = [run[id] EXCEPT !.phase = ph, !.mark = FALSE]]
    BY <1>7 DEF WriteOutcome
  <2>2. run[id].phase = "write"
    BY <1>7 DEF WriteOutcome
  <2>3. ASSUME NEW ph \in {"settle", "watch"}
        PROVE  /\ [run[id] EXCEPT !.phase = ph, !.mark = FALSE] \in RunRecord
               /\ [run[id] EXCEPT !.phase = ph, !.mark = FALSE].own = run[id].own
    BY <1>t DEF RunRecord, Phases
  <2> QED BY <1>1, <1>2, <2>1, <2>2, <2>3
<1>8. CASE SettleProof(id) \/ \E a \in Answers : LateResult(id, a)
  BY <1>1, <1>8 DEF SettleProof, LateResult
<1>9. CASE Deadline(id) \/ \E a \in Answers : Answer(id, a)
  BY <1>6, <1>9 DEF Deadline, Answer
<1> QED BY <1>3, <1>4, <1>5, <1>7, <1>8, <1>9 DEF RunNext

(* Every step but an admission keeps the runs that count, or drops some. *)
LEMMA OnlyAdmissionAdds ==
  ASSUME TypeInv, [Next]_vars, ~ \E c \in cand : Admit(c) /\ Reserve(c) /\ ~ (Cardinality(Inflight(c.own)) >= Concurrency)
  PROVE  Inflight(TRUE)' \subseteq Inflight(TRUE)
<1>t. run \in [Ids -> RunRecord]
  BY DEF TypeInv, TypeOK
<1>1. CASE run' = run
  BY <1>1 DEF Inflight
<1>2. CASE Advance \/ ControlNext \/ UNCHANGED vars
  BY <1>1, <1>2 DEF vars, Advance, ControlNext, CreateJob, UpdateJob, EnableJob, DisableJob, DeleteJob, Control, Quiet
<1>3. CASE Crash
  <2>1. \A x \in Ids : Counts(x)' => Counts(x)
    BY <1>3 DEF Crash, Counts, NoRun
  <2> QED BY <2>1, FewerCount
<1>4. CASE LeaseLost
  <2>1. \A x \in Ids : ~Counts(x)'
    BY <1>4, <1>t DEF LeaseLost, Counts, RunRecord
  <2> QED BY <2>1, FewerCount
<1>5. ASSUME NEW c \in cand, Admit(c) PROVE run' = run
  BY <1>5 DEF Admit
<1>6. CASE EngineNext
  BY <1>1, <1>3, <1>4, <1>5, <1>6 DEF EngineNext, Start, CatchupScan, TickScan, Scan, ScanDone, Stop, EngineEnds
<1>7. ASSUME NEW id \in Ids, RunNext(id) PROVE Inflight(TRUE)' \subseteq Inflight(TRUE)
  BY <1>7, RunCounts, FewerCount
<1>8. ASSUME NEW id \in Ids, ReconcileNext(id) PROVE run' = run
  BY <1>8 DEF ReconcileNext, Readback, AutoReconcile, SelfReconcile, OperatorReconcile, Quiet
<1>9. ASSUME NEW id \in Ids, NEW how \in Ended, TurnEnds(id, how) PROVE run' = run
  BY <1>9 DEF TurnEnds
<1> QED BY <1>1, <1>2, <1>6, <1>7, <1>8, <1>9 DEF Next

(* The engine never has more runs in flight than its limit, although a     *)
(* scan starts them without waiting: each admission counts again (the      *)
(* admission loop of _tickOnce and _startupCatchup).                       *)
THEOREM ConcurrencyIsBounded == Spec => []ConcurrencyBound
<1>1. Init => Bounded
  <2> SUFFICES ASSUME Init PROVE Bounded
    OBVIOUS
  <2>1. Inflight(TRUE) = {}
    BY DEF Init, Inflight, NoRun
  <2>2. IsFiniteSet(Inflight(TRUE)) /\ Cardinality(Inflight(TRUE)) = 0
    BY <2>1, FS_EmptySet
  <2>3. 0 <= Concurrency
    BY EngineAssumption
  <2> QED BY <2>2, <2>3 DEF Bounded, ConcurrencyBound
<1>2. ASSUME TypeInv, Bounded, [Next]_vars PROVE Bounded'
  <2> DEFINE S == Inflight(TRUE)
  <2>0. IsFiniteSet(S) /\ Cardinality(S) <= Concurrency
    BY <1>2 DEF Bounded, ConcurrencyBound
  <2>1. CASE S' \subseteq S
    <3>1. IsFiniteSet(S') /\ Cardinality(S') <= Concurrency
      <4> HIDE DEF S
      <4> QED BY <2>0, <2>1, WithinLimit
    <3> QED BY <3>1 DEF Bounded, ConcurrencyBound
  <2>2. ASSUME NEW c \in cand, Reserve(c), ~ (Cardinality(Inflight(c.own)) >= Concurrency)
        PROVE  Bounded'
    <3>1. run \in [Ids -> RunRecord] /\ c \in CandRecord
      BY <1>2 DEF TypeInv, TypeOK
    <3>2. c.id \in Ids /\ c.own \in BOOLEAN
      BY <3>1 DEF CandRecord
    <3>3. /\ \A x \in Ids \ {c.id} : run'[x] = run[x]
          /\ run'[c.id].own = c.own
      BY <2>2, <3>1, <3>2 DEF Reserve, NoRun
    <3>4. CASE c.own = TRUE
      <4>1. S' \subseteq S \cup {c.id}
        BY <3>3 DEF Inflight
      <4>2. ~ (Cardinality(S) >= Concurrency)
        BY <2>2, <3>4
      <4>3. IsFiniteSet(S') /\ Cardinality(S') <= Concurrency
        <5> HIDE DEF S
        <5> QED BY <2>0, <4>1, <4>2, WithinLimit
      <4> QED BY <4>3 DEF Bounded, ConcurrencyBound
    <3>5. CASE c.own = FALSE
      <4>1. S' \subseteq S
        BY <3>3, <3>5 DEF Inflight
      <4> QED BY <2>1, <4>1
    <3> QED BY <3>2, <3>4, <3>5
  <2> QED BY <1>2, <2>1, <2>2, OnlyAdmissionAdds
<1>3. Bounded => ConcurrencyBound
  BY DEF Bounded
<1> QED BY <1>1, <1>2, <1>3, InitSafe, TypeStep, PTL DEF Spec

=============================================================================
