------------------------- MODULE WorkflowExecution -------------------------
(***************************************************************************)
(* The workflow execution engine (packages/workflow-execution/src): the    *)
(* pollers that turn due node visits of svc-workflow into Agent runs, and  *)
(* the append-only attempt ledger they share.                              *)
(*                                                                         *)
(* A ledger mutation replays the file under the FIFO and the OwnerLock, so *)
(* att is what the file replays to and "lock" is that exclusion            *)
(* (ExecutionLedger.mutate; OwnerLock is a module of its own).  Admission, *)
(* recovery and the continuation of a planned resume hold the lock across  *)
(* awaits: one action per append or external call.  The reconcile passes   *)
(* read without the lock and commit under it: Observe, Probe, Commit.      *)
(* A poller does its operations in any order; the code's order within one  *)
(* poll is one of them.                                                    *)
(*                                                                         *)
(* Clocks are left out: an attempt may be found stale, a retry delay over  *)
(* or a check due at any time after delivery.  The revision numbers of     *)
(* recovery and readback checks, and the records that change neither state *)
(* nor phase (recovery_checked, recovery_authorized, a repeated            *)
(* resolution_blocked, progress_checkpoint), are left out with them.       *)
(***************************************************************************)
EXTENDS Naturals, Sequences, FiniteSets

CONSTANTS
  Visits,        \* node visits
  Pollers,       \* engines, of one or of several processes
  None,          \* no holder of the ledger lock
  Managed,       \* the visits resolveManagedAttempt classifies as managed
  MaxAttempts,   \* maxAttemptsPerVisit
  ManagedLimit,  \* the limit of a managed visit (3 in the code)
  MaxGen,        \* bound: generations of a visit
  MaxVersion,    \* bound: workflow_state_version
  MaxCrashes     \* bound: crashes of a poller

ASSUME WorkflowAssumption ==
  /\ None \notin Pollers
  /\ Managed \subseteq Visits
  /\ MaxAttempts \in Nat \ {0} /\ ManagedLimit \in Nat \ {0}
  /\ MaxGen \in Nat \ {0} /\ MaxVersion \in Nat \ {0} /\ MaxCrashes \in Nat

VARIABLES
  att,       \* visit -> the attempt the ledger projects
  tail,      \* end of attempts.jsonl: clean, torn, or a record without its newline
  lock,      \* the poller inside a ledger mutation, or None
  op,        \* poller -> the operation it is in
  crashes,
  turn,      \* visit -> generation -> Router's turn record of requestId = attemptId
  world,     \* visit -> svc-workflow: current, terminal (instance ended), moved
  ver,       \* visit -> workflow_state_version
  cases,     \* visit -> sequence of assistance cases [req, res, by]
  calls,     \* visit -> generation -> deliverRun invocations (history)
  used,      \* visit -> sequence of the cases that authorised a generation (history)
  wakes,     \* visit -> escalation_requested records (history)
  corrupt    \* an event was appended to an unsealed tail (history)

ledgerVars == <<att, tail, corrupt, wakes, used>>
worldVars == <<world, ver, cases>>
routerVars == <<turn, calls>>
vars == <<att, tail, lock, op, crashes, turn, world, ver, cases, calls, used, wakes, corrupt>>

Gens == 1..MaxGen
Pending == {"settlement", "baseline", "version"}
Idle == [step |-> "idle"]

NoAttempt ==
  [state |-> "NONE", phase |-> "none", gen |-> 0, judgment |-> "none", started |-> FALSE,
   delivered |-> FALSE, version |-> 0, base |-> 0, resume |-> FALSE, case |-> 0,
   escalated |-> FALSE, readback |-> "none"]

Init ==
  /\ att = [v \in Visits |-> NoAttempt]
  /\ tail = "clean" /\ lock = None /\ corrupt = FALSE /\ crashes = 0
  /\ op = [p \in Pollers |-> Idle]
  /\ turn = [v \in Visits |-> [g \in Gens |-> "never_existed"]]
  /\ world = [v \in Visits |-> "current"]
  /\ ver = [v \in Visits |-> 1]
  /\ cases = [v \in Visits |-> <<>>]
  /\ calls = [v \in Visits |-> [g \in Gens |-> 0]]
  /\ used = [v \in Visits |-> <<>>]
  /\ wakes = [v \in Visits |-> 0]

-----------------------------------------------------------------------------
(* The ledger: mutate(), #appendEvent and what the events project to. *)

Goto(p, o) == op' = [op EXCEPT ![p] = o]

(* A poller that is between operations enters mutate(). *)
Enters(p) == op[p].step = "idle" /\ lock = None

(* Mutant: load() leaves the end of the file as it is. *)
RepairMut == tail' = tail

(* load({ repairTornTail: true }): a torn record is truncated, a complete  *)
(* one gets its newline.                                                   *)
Repair == tail' = "clean"

(* #appendEvent, then applyLedgerEvent: visit v's attempt becomes a. *)
Write(v, a) ==
  /\ att' = [att EXCEPT ![v] = a]
  /\ corrupt' = (corrupt \/ tail # "clean")

(* The last append of an operation that holds the lock. *)
WriteAndLeave(p, v, a) ==
  /\ Write(v, a)
  /\ lock' = None
  /\ Goto(p, Idle)

Planned(a, base, c) ==
  [NoAttempt EXCEPT !.state = "ACTIVE", !.phase = "planned", !.gen = a.gen + 1,
                    !.base = base, !.resume = (c # 0), !.case = IF c # 0 THEN c ELSE a.case]

Blocked(a) == [a EXCEPT !.phase = "resolution_blocked"]

Refused(a) == [a EXCEPT !.state = "NEEDS_REVIEW", !.phase = "recovery_refused"]

Started(a) == [a EXCEPT !.phase = "delivery_started", !.started = TRUE]

Failed(a) == [a EXCEPT !.state = "NEEDS_REVIEW", !.phase = "delivery_failed"]

Delivered(a, version) ==
  [a EXCEPT !.phase = "run_delivered", !.delivered = TRUE, !.version = version]

Reconciled(a, state, judgment) ==
  [a EXCEPT !.state = state, !.phase = "reconciled", !.judgment = judgment]

StaleSuperseded(a) ==
  [a EXCEPT !.state = "SETTLED", !.phase = "stale_superseded", !.judgment = "stale_no_progress"]

(* applyReadbackEvent: the result of a check, or its registration. *)
ReadbackChecked(a, result) ==
  IF result = "closed"
  THEN [a EXCEPT !.state = "SETTLED", !.judgment = "business_commitment_observed",
                 !.readback = "closed"]
  ELSE [a EXCEPT !.readback = result]

(* readbackCategory: the recurring read an attempt is owned by, if any. *)
ReadbackCategory(a) ==
  IF ~a.delivered \/ a.state = "SETTLED" THEN "none"
  ELSE IF a.readback \in Pending THEN a.readback
  ELSE IF a.judgment = "settle_check_unavailable" THEN "settlement"
  ELSE IF /\ \/ a.state = "ACTIVE" /\ a.phase = "run_delivered"
             \/ a.judgment = "run_ended_no_submission"
          /\ a.version = 0
       THEN "baseline" ELSE "none"

-----------------------------------------------------------------------------
(* Admission of a due intent: admitDueIntent and beginAttemptIfAbsent. *)

LimitOf(v) == IF v \in Managed THEN ManagedLimit ELSE MaxAttempts

StaleReentry(a) ==
  a.state \in {"SETTLED", "NEEDS_REVIEW"} /\ a.judgment = "stale_no_progress"

(* Mutant: the Router is not asked whether the turn is over. *)
QuiescentMut(t) == TRUE

(* hasQuiescentTurn: the predecessor's turn is over and its fence is not   *)
(* still active.  "fenced" is settled with the registry cleanup not yet    *)
(* proven, "lost" is an evicted record or one of an earlier Router run.    *)
Quiescent(t) == t \in {"settled", "lost", "never_existed"}

(* ownerResumeEligible and canOwnerResume. *)
OwnerResume(v, a) ==
  /\ a.state = "NEEDS_REVIEW" /\ a.phase = "reconciled"
  /\ a.judgment = "run_ended_no_submission" /\ a.delivered /\ a.base # 0
  /\ turn[v][a.gen] \in {"settled", "fenced"}

(* Mutant: only the resolution of the case is checked. *)
ValidEvidenceMut(v, a, c, base) ==
  LET k == cases[v][c] IN k.res > k.req /\ k.res <= base /\ k.by \in {0, a.gen}

(* validateOwnerAssistanceResumeEvidence and the consumed-case check of    *)
(* ownerResumePlanIsValid.                                                 *)
ValidEvidence(v, a, c, base) ==
  LET k == cases[v][c] IN
    /\ c # a.case
    /\ k.req > a.base /\ k.res > k.req /\ k.res <= base
    /\ k.by \in {0, a.gen}

(* The one-attempt fence: a new visit, a stale attempt below the limit     *)
(* whose turn is quiescent, or an ended run an owner may resume.           *)
MayMint(v, a, resume) ==
  \/ ~resume /\ a.state = "NONE"
  \/ /\ ~resume /\ StaleReentry(a)
     /\ a.gen + 1 <= LimitOf(v)
     /\ Quiescent(turn[v][a.gen])
  \/ resume /\ OwnerResume(v, a) /\ (v \in Managed => a.gen + 1 <= LimitOf(v))

(* The checks of the fence, and prepareAttemptPlan's read of the instance, *)
(* which must be active and at this visit.                                 *)
AdmitBegin(p, v) ==
  /\ Enters(p)
  /\ att[v].gen < MaxGen
  /\ world[v] = "current"
  /\ \E resume \in BOOLEAN :
       /\ MayMint(v, att[v], resume)
       /\ Goto(p, [step |-> "plan", v |-> v, base |-> ver[v], resume |-> resume])
  /\ lock' = p
  /\ Repair
  /\ UNCHANGED <<att, corrupt, wakes, used, crashes, worldVars, routerVars>>

(* attempt_limit_reached: nothing is minted and the engine escalates. *)
AdmitAtLimit(p, v) ==
  /\ Enters(p)
  /\ \/ StaleReentry(att[v])
     \/ OwnerResume(v, att[v]) /\ v \in Managed
  /\ att[v].gen + 1 > LimitOf(v)
  /\ ~att[v].escalated
  /\ Repair
  /\ Goto(p, [step |-> "escalate", v |-> v, seen |-> att[v]])
  /\ UNCHANGED <<att, lock, corrupt, wakes, used, crashes, worldVars, routerVars>>

(* attempt_planned.  An owner resume needs the evidence of a resolved      *)
(* case; without it the admission ends without an append.                  *)
AdmitPlan(p) ==
  LET o == op[p]
      Mint(c) == /\ Write(o.v, Planned(att[o.v], o.base, c))
                 /\ used' = IF c = 0 THEN used ELSE [used EXCEPT ![o.v] = Append(@, c)]
                 /\ Goto(p, [step |-> "resolve", v |-> o.v])
                 /\ UNCHANGED lock
  IN
  /\ o.step = "plan"
  /\ \/ ~o.resume /\ Mint(0)
     \/ /\ o.resume
        /\ \E c \in DOMAIN cases[o.v] : ValidEvidence(o.v, att[o.v], c, o.base) /\ Mint(c)
     \/ /\ o.resume
        /\ lock' = None /\ Goto(p, Idle)
        /\ UNCHANGED <<att, corrupt, used>>
  /\ UNCHANGED <<tail, wakes, crashes, worldVars, routerVars>>

(* resolvePrincipalToAgent: resolved, blocked, or an exception. *)
AdmitResolve(p) ==
  LET v == op[p].v IN
  /\ op[p].step = "resolve"
  /\ \/ /\ Goto(p, [step |-> "fence", v |-> v, mode |-> "admit"])
        /\ UNCHANGED <<att, corrupt, lock>>
     \/ \E a \in {Blocked(att[v]), Failed(att[v])} : WriteAndLeave(p, v, a)
  /\ UNCHANGED <<tail, wakes, used, crashes, worldVars, routerVars>>

(* Mutant: the Router is called before the write-ahead record. *)
WriteAheadMut(p) ==
  LET o == op[p] IN
  /\ o.step = "fence"
  /\ att[o.v].phase \in {"planned", "resolution_blocked"} /\ ~att[o.v].started
  /\ Goto(p, [o EXCEPT !.step = "deliver"])
  /\ UNCHANGED <<att, corrupt, tail, lock, wakes, used, crashes, worldVars, routerVars>>

(* delivery_started, durable before the Router is called. *)
WriteAhead(p) ==
  LET o == op[p] IN
  /\ o.step = "fence"
  /\ att[o.v].phase \in {"planned", "resolution_blocked"} /\ ~att[o.v].started
  /\ Write(o.v, Started(att[o.v]))
  /\ Goto(p, [o EXCEPT !.step = "deliver"])
  /\ UNCHANGED <<tail, lock, wakes, used, crashes, worldVars, routerVars>>

(* Mutant: a call that fails is made again. *)
DeliverMut(p) ==
  LET o == op[p]  g == att[o.v].gen IN
  /\ o.step = "deliver"
  /\ calls' = [calls EXCEPT ![o.v][g] = @ + 1]
  /\ \/ /\ turn' = [turn EXCEPT ![o.v][g] = "pending"]
        /\ Goto(p, [o EXCEPT !.step = "record"])
     \/ calls[o.v][g] < 2 /\ UNCHANGED <<turn, op>>
  /\ UNCHANGED <<att, corrupt, lock, tail, wakes, used, crashes, worldVars>>

(* deliverRun: accepted, rejected, or an exception that leaves open        *)
(* whether the run was accepted.  A recovery lets the exception pass and   *)
(* records nothing; the other two record delivery_failed.                  *)
Deliver(p) ==
  LET o == op[p]  g == att[o.v].gen
      Accepted == turn' = [turn EXCEPT ![o.v][g] = "pending"]
  IN
  /\ o.step = "deliver"
  /\ calls' = [calls EXCEPT ![o.v][g] = @ + 1]
  /\ \/ /\ Accepted
        /\ Goto(p, [o EXCEPT !.step = "record"])
        /\ UNCHANGED <<att, corrupt, lock>>
     \/ UNCHANGED turn /\ WriteAndLeave(p, o.v, Failed(att[o.v]))
     \/ /\ Accepted \/ UNCHANGED turn
        /\ IF o.mode = "recover"
           THEN lock' = None /\ Goto(p, Idle) /\ UNCHANGED <<att, corrupt>>
           ELSE WriteAndLeave(p, o.v, Failed(att[o.v]))
  /\ UNCHANGED <<tail, wakes, used, crashes, worldVars>>

(* run_delivered, with the version sampled at dispatch when the read gave  *)
(* one; a recovery does not sample.                                        *)
RecordDelivered(p) ==
  LET o == op[p] IN
  /\ o.step = "record"
  /\ \E version \in IF o.mode = "recover" THEN {0} ELSE {0, ver[o.v]} :
       WriteAndLeave(p, o.v, Delivered(att[o.v], version))
  /\ UNCHANGED <<tail, wakes, used, crashes, worldVars, routerVars>>

-----------------------------------------------------------------------------
(* recoverAttempt, by an operator or by the automatic consumer: a blocked  *)
(* attempt the Router has never heard of, still at its visit.              *)

RecoverBegin(p, v, auto) ==
  LET a == att[v] IN
  /\ Enters(p)
  /\ a.state = "ACTIVE" /\ a.phase = "resolution_blocked" /\ ~a.started /\ ~a.delivered
  /\ turn[v][a.gen] = "never_existed"
  /\ Repair
  /\ \/ /\ world[v] \in IF auto THEN {"current"} ELSE {"current", "terminal"}
        /\ lock' = p
        /\ Goto(p, [step |-> "authorized", v |-> v])
        /\ UNCHANGED <<att, corrupt>>
     \/ /\ auto => world[v] # "current"  \* moved, ended, or unreadable for an operator
        /\ att' = [att EXCEPT ![v] = Refused(a)]
        /\ UNCHANGED <<lock, op, corrupt>>
  /\ UNCHANGED <<wakes, used, crashes, worldVars, routerVars>>

(* The principal is resolved once more after recovery_authorized. *)
RecoverResolve(p) ==
  LET v == op[p].v IN
  /\ op[p].step = "authorized"
  /\ \/ /\ Goto(p, [step |-> "fence", v |-> v, mode |-> "recover"])
        /\ UNCHANGED <<att, corrupt, lock>>
     \/ WriteAndLeave(p, v, Blocked(att[v]))
  /\ UNCHANGED <<tail, wakes, used, crashes, worldVars, routerVars>>

(* continuePlannedOwnerResume: a resume that was planned and not fenced    *)
(* when its poller died, while the instance has not moved since.           *)
ContinueResume(p, v) ==
  LET a == att[v] IN
  /\ Enters(p)
  /\ a.state = "ACTIVE" /\ a.phase = "planned" /\ a.resume /\ ~a.started
  /\ turn[v][a.gen] = "never_existed"
  /\ world[v] = "current" /\ ver[v] = a.base
  /\ lock' = p
  /\ Repair
  /\ Goto(p, [step |-> "fence", v |-> v, mode |-> "continue"])
  /\ UNCHANGED <<att, corrupt, wakes, used, crashes, worldVars, routerVars>>

-----------------------------------------------------------------------------
(* reconcileOnce and readbacks.reconcile. *)

(* A fresh snapshot of one attempt and the Router's answer for its turn,   *)
(* which may be unavailable.                                               *)
Observe(p, v) ==
  LET a == att[v] IN
  /\ Enters(p)
  /\ \/ a.state = "ACTIVE" /\ a.phase # "resolution_blocked"
     \/ ReadbackCategory(a) # "none"
     \/ a.state = "NEEDS_REVIEW" /\ a.judgment = "run_ended_no_submission" /\ ~a.resume
  /\ \E t \in IF a.delivered THEN {turn[v][a.gen], "undefined"} ELSE {"undefined"} :
       Goto(p, [step |-> "probe", v |-> v, seen |-> a, turn |-> t])
  /\ UNCHANGED <<ledgerVars, lock, crashes, worldVars, routerVars>>

(* What a pass may record, and what the record does to the attempt. *)
Verdict(state, judgment) == [kind |-> "reconciled", state |-> state, judgment |-> judgment]
Supersede == [kind |-> "stale"]
Readback(result) == [kind |-> "readback", result |-> result]

Apply(a, w) ==
  CASE w.kind = "reconciled" -> Reconciled(a, w.state, w.judgment)
    [] w.kind = "stale" -> StaleSuperseded(a)
    [] w.kind = "readback" -> ReadbackChecked(a, w.result)

(* judgeStale: the visit is current and the version the one at dispatch;   *)
(* another version is only rescheduled.                                    *)
StaleVerdicts(v, a) ==
  IF world[v] # "current" THEN {}
  ELSE IF ver[v] = a.version THEN {Supersede}
  ELSE {Readback("version")}

(* Mutant: an unreadable instance counts as settled. *)
SettleVerdictsMut(v, a, t) ==
  {IF world[v] = "moved"
   THEN Verdict("SETTLED", "business_commitment_observed")
   ELSE IF t \in {"settled", "fenced"}
   THEN Verdict("NEEDS_REVIEW", "run_ended_no_submission")
   ELSE Verdict("NEEDS_REVIEW", "run_outcome_unknown"),
   Verdict("SETTLED", "business_commitment_observed")}

(* probeSettle and judgeAttempt for a turn that is over or lost; the read  *)
(* may be unavailable.                                                     *)
SettleVerdicts(v, a, t) ==
  {IF world[v] = "moved"
   THEN Verdict("SETTLED", "business_commitment_observed")
   ELSE IF t \in {"settled", "fenced"}
   THEN Verdict("NEEDS_REVIEW", "run_ended_no_submission")
   ELSE Verdict("NEEDS_REVIEW", "run_outcome_unknown"),
   Verdict("NEEDS_REVIEW", "settle_check_unavailable")}

(* check(): what a due readback observes. *)
ReadbackVerdicts(v, a, category) ==
  {IF world[v] # "current" THEN Readback("closed")
   ELSE IF category = "version" /\ ver[v] = a.version THEN Readback("revalidated")
   ELSE Readback(category),
   Readback(category)}

(* Mutant: only a delivered run that is known to be over is judged. *)
VerdictsMut(v, a, t) ==
  IF a.state = "ACTIVE" /\ a.phase = "run_delivered" /\ t \in {"settled", "fenced", "lost"}
  THEN SettleVerdicts(v, a, t) ELSE {}

(* What the pass would record for the attempt it saw. *)
Verdicts(v, a, t) ==
  LET category == ReadbackCategory(a) IN
  IF category # "none"
  THEN IF a.readback \in Pending THEN ReadbackVerdicts(v, a, category) ELSE {Readback(category)}
  ELSE IF a.state = "ACTIVE"
  THEN IF a.phase # "run_delivered" \/ t = "undefined"
       THEN {Verdict("NEEDS_REVIEW", "delivery_unverified")}
       ELSE IF t = "pending"
       THEN IF a.resume THEN {} ELSE StaleVerdicts(v, a)
       ELSE SettleVerdicts(v, a, t)
  ELSE IF a.judgment = "run_ended_no_submission" /\ ~a.resume
  THEN StaleVerdicts(v, a) ELSE {}

AtLimit(v, a) == a.gen >= LimitOf(v)

(* The read of the instance, without the lock.  A terminal stale attempt   *)
(* at the limit is escalated instead of superseded.                        *)
Probe(p) ==
  LET o == op[p]  verdicts == Verdicts(o.v, o.seen, o.turn) IN
  /\ o.step = "probe"
  /\ \/ verdicts = {} /\ Goto(p, Idle)
     \/ \E w \in verdicts :
          IF w.kind = "stale" /\ o.seen.state = "NEEDS_REVIEW" /\ AtLimit(o.v, o.seen)
          THEN Goto(p, IF o.seen.escalated THEN Idle
                       ELSE [step |-> "escalate", v |-> o.v, seen |-> o.seen])
          ELSE Goto(p, [step |-> "commit", v |-> o.v, seen |-> o.seen, verdict |-> w])
  /\ UNCHANGED <<ledgerVars, lock, crashes, worldVars, routerVars>>

(* Mutant: the attempt is not compared with the one observed. *)
SameMut(a, seen, kind) == a.state # "NONE"

(* staleObservation and the compare-and-set of recordReconciled,           *)
(* recordStaleSuperseded and recordReadback.                               *)
Same(a, seen, kind) ==
  /\ a.gen = seen.gen /\ a.phase = seen.phase /\ a.state = seen.state
  /\ kind = "readback" => a.readback = seen.readback

(* The commit; a run superseded while it looked alive is escalated when it *)
(* was the last one allowed.                                               *)
Commit(p) ==
  LET o == op[p]  v == o.v  w == o.verdict IN
  /\ o.step = "commit"
  /\ lock = None
  /\ Repair
  /\ IF Same(att[v], o.seen, w.kind)
     THEN /\ att' = [att EXCEPT ![v] = Apply(@, w)]
          /\ Goto(p, IF w.kind = "stale" /\ AtLimit(v, o.seen) /\ ~o.seen.escalated
                     THEN [step |-> "escalate", v |-> v, seen |-> o.seen] ELSE Idle)
     ELSE UNCHANGED att /\ Goto(p, Idle)
  /\ UNCHANGED <<lock, corrupt, wakes, used, crashes, worldVars, routerVars>>

(* The call to svc-workflow: it fails, or opens an assistance case for     *)
(* this attempt unless one is open already.                                *)
Escalate(p) ==
  LET o == op[p]  v == o.v
      known == \E c \in DOMAIN cases[v] : cases[v][c].by = o.seen.gen
  IN
  /\ o.step = "escalate"
  /\ \/ Goto(p, Idle) /\ UNCHANGED worldVars
     \/ /\ known \/ ver[v] < MaxVersion
        /\ Goto(p, [o EXCEPT !.step = "escalated"])
        /\ IF known THEN UNCHANGED <<ver, cases>>
           ELSE /\ ver' = [ver EXCEPT ![v] = @ + 1]
                /\ cases' = [cases EXCEPT ![v] =
                               Append(@, [req |-> ver[v] + 1, res |-> 0, by |-> o.seen.gen])]
        /\ UNCHANGED world
  /\ UNCHANGED <<ledgerVars, lock, crashes, routerVars>>

(* Mutant: the fact is recorded whatever the ledger holds by now. *)
RecordEscalationMut(p) ==
  LET o == op[p]  v == o.v IN
  /\ o.step = "escalated"
  /\ lock = None
  /\ Repair
  /\ Goto(p, Idle)
  /\ att' = [att EXCEPT ![v].escalated = TRUE]
  /\ wakes' = [wakes EXCEPT ![v] = @ + 1]
  /\ UNCHANGED <<lock, corrupt, used, crashes, worldVars, routerVars>>

(* recordEscalationRequested: once, and only for the attempt observed. *)
RecordEscalation(p) ==
  LET o == op[p]  v == o.v IN
  /\ o.step = "escalated"
  /\ lock = None
  /\ Repair
  /\ Goto(p, Idle)
  /\ IF att[v].gen = o.seen.gen /\ att[v].state # "ACTIVE" /\ ~att[v].escalated
     THEN /\ att' = [att EXCEPT ![v].escalated = TRUE]
          /\ wakes' = [wakes EXCEPT ![v] = @ + 1]
     ELSE UNCHANGED <<att, wakes>>
  /\ UNCHANGED <<lock, corrupt, used, crashes, worldVars, routerVars>>

(* A poller dies; the lock it held is reaped.  If it was appending, the    *)
(* file may end in a torn record or in one without its newline.            *)
Crash(p) ==
  /\ op[p].step # "idle"
  /\ crashes < MaxCrashes
  /\ crashes' = crashes + 1
  /\ Goto(p, Idle)
  /\ IF lock = p \/ (lock = None /\ op[p].step \in {"commit", "escalated"})
     THEN lock' = None /\ tail' \in {"clean", "torn", "unsealed"}
     ELSE UNCHANGED <<lock, tail>>
  /\ UNCHANGED <<att, corrupt, wakes, used, worldVars, routerVars>>

-----------------------------------------------------------------------------
(* The Router's turn records and svc-workflow, as the engine uses them. *)

RunEnds(v, g) ==
  /\ turn[v][g] = "pending"
  /\ \E t \in {"settled", "fenced", "lost"} : turn' = [turn EXCEPT ![v][g] = t]
  /\ UNCHANGED <<ledgerVars, lock, op, crashes, worldVars, calls>>

(* The fence of a settled turn is cleared, or its record evicted; only the *)
(* latest attempt's record is looked at.                                   *)
TurnForgotten(v) ==
  /\ att[v].gen > 0
  /\ LET g == att[v].gen IN
       \/ turn[v][g] = "fenced" /\ turn' = [turn EXCEPT ![v][g] = "settled"]
       \/ turn[v][g] = "settled" /\ turn' = [turn EXCEPT ![v][g] = "lost"]
  /\ UNCHANGED <<ledgerVars, lock, op, crashes, worldVars, calls>>

(* The visit's transition is committed, by a run or by anyone else, or the *)
(* instance ends.                                                          *)
WorldMoves(v) ==
  /\ world[v] = "current" /\ ver[v] < MaxVersion
  /\ ver' = [ver EXCEPT ![v] = @ + 1]
  /\ \E w \in {"terminal", "moved"} : world' = [world EXCEPT ![v] = w]
  /\ UNCHANGED <<ledgerVars, lock, op, crashes, cases, routerVars>>

(* The assignee asks for assistance; the owner resolves a case: both move  *)
(* the version.                                                            *)
CaseMoves(v) ==
  /\ world[v] = "current" /\ ver[v] < MaxVersion
  /\ ver' = [ver EXCEPT ![v] = @ + 1]
  /\ \/ cases' = [cases EXCEPT ![v] = Append(@, [req |-> ver[v] + 1, res |-> 0, by |-> 0])]
     \/ \E c \in DOMAIN cases[v] :
          /\ cases[v][c].res = 0
          /\ cases' = [cases EXCEPT ![v][c].res = ver[v] + 1]
  /\ UNCHANGED <<ledgerVars, lock, op, crashes, world, routerVars>>

-----------------------------------------------------------------------------
(* The steps of a poller that is inside an operation. *)
Continues(p) ==
  \/ AdmitPlan(p) \/ AdmitResolve(p) \/ WriteAhead(p) \/ Deliver(p) \/ RecordDelivered(p)
  \/ RecoverResolve(p) \/ Probe(p) \/ Commit(p) \/ Escalate(p) \/ RecordEscalation(p)

Next ==
  \/ \E p \in Pollers :
       \/ Continues(p) \/ Crash(p)
       \/ \E v \in Visits :
            \/ AdmitBegin(p, v) \/ AdmitAtLimit(p, v) \/ ContinueResume(p, v) \/ Observe(p, v)
            \/ \E auto \in BOOLEAN : RecoverBegin(p, v, auto)
  \/ \E v \in Visits :
       \/ WorldMoves(v) \/ CaseMoves(v) \/ TurnForgotten(v)
       \/ \E g \in Gens : RunEnds(v, g)

Spec == Init /\ [][Next]_vars

(* The fairness of the poll loop: every tick runs a whole pass, so each    *)
(* kind of operation is begun again and again, and an operation that has   *)
(* begun goes on; svc-workflow answers an escalation in the end; a run     *)
(* ends (the Router's turn deadline).                                      *)
FairSpec ==
  /\ Spec
  /\ \A p \in Pollers :
       /\ WF_vars(Continues(p))
       /\ SF_vars(Escalate(p) /\ op'[p].step = "escalated")
       /\ \A v \in Visits :
            SF_vars(Observe(p, v)) /\ SF_vars(AdmitAtLimit(p, v))
  /\ \A v \in Visits, g \in Gens : WF_vars(RunEnds(v, g))
-----------------------------------------------------------------------------
ReadbackStates == {"none", "closed", "revalidated"} \cup Pending

Attempts ==
  [state : {"NONE", "ACTIVE", "SETTLED", "NEEDS_REVIEW"},
   phase : {"none", "planned", "resolution_blocked", "recovery_refused", "delivery_started",
            "delivery_failed", "run_delivered", "reconciled", "stale_superseded"},
   gen : 0..MaxGen,
   judgment : {"none", "delivery_unverified", "business_commitment_observed",
               "settle_check_unavailable", "run_ended_no_submission", "run_outcome_unknown",
               "stale_no_progress"},
   started : BOOLEAN, delivered : BOOLEAN, version : Nat, base : Nat, resume : BOOLEAN,
   case : Nat, escalated : BOOLEAN,
   readback : ReadbackStates]

TypeOK ==
  /\ att \in [Visits -> Attempts]
  /\ tail \in {"clean", "torn", "unsealed"}
  /\ lock \in Pollers \cup {None}
  /\ crashes \in 0..MaxCrashes
  /\ turn \in [Visits -> [Gens -> {"never_existed", "pending", "settled", "fenced", "lost"}]]
  /\ world \in [Visits -> {"current", "terminal", "moved"}]
  /\ ver \in [Visits -> 1..MaxVersion]
  /\ calls \in [Visits -> [Gens -> Nat]]
  /\ corrupt \in BOOLEAN

(* The write-ahead fence: whatever the Router has been asked to run is in  *)
(* the ledger as delivery_started, so a crash between the call and its     *)
(* record never looks like "never sent", and reconcileDeliveryEvidence may *)
(* answer NOT_SENT for an attempt without it.                              *)
WriteAheadFence ==
  \A v \in Visits : \A g \in Gens :
    calls[v][g] > 0 => g < att[v].gen \/ (g = att[v].gen /\ att[v].started)

(* Across crashes, recoveries, continued resumes and concurrent pollers    *)
(* the Router is asked at most once to run an attempt, and only for the    *)
(* newest attempt of a visit that the ledger has fenced: the engine        *)
(* implements DispatchFence.                                               *)
Dispatch == INSTANCE DispatchFence WITH
  gen <- [v \in Visits |-> att[v].gen],
  fenced <- [v \in Visits |-> att[v].started],
  sends <- calls

DispatchImplemented == Dispatch!FenceSpec

(* No two runs of a node visit are in flight together: a new generation    *)
(* starts only after the Router has shown the old run to be over.          *)
OneLiveRun ==
  \A v \in Visits : Cardinality({g \in Gens : turn[v][g] = "pending"}) <= 1

(* The ledger reports a business commitment only when the instance has     *)
(* really left the visit (or ended).                                       *)
CommitmentTruth ==
  \A v \in Visits :
    att[v].judgment = "business_commitment_observed" => world[v] # "current"

(* A resolved assistance case authorises one generation, although the      *)
(* ledger remembers only the last case it consumed.                        *)
CaseUsedOnce ==
  \A v \in Visits : \A i, j \in DOMAIN used[v] : used[v][i] = used[v][j] => i = j

(* The attempt limit: only an owner's resume passes it, on a managed visit *)
(* not even that; a visit asks for its owner's attention at most once, and *)
(* not before its last allowed attempt.                                    *)
LimitHeld ==
  \A v \in Visits :
    /\ att[v].gen > LimitOf(v) => att[v].resume
    /\ v \in Managed => att[v].gen <= LimitOf(v)
    /\ wakes[v] <= 1 /\ (wakes[v] = 1 => att[v].gen >= LimitOf(v))

(* No event is appended to an unterminated line: the ledger a crash tears  *)
(* stays readable.                                                         *)
TailSealed == ~corrupt

(* A verdict changes the generation it was formed for: within a generation *)
(* a terminal attempt never becomes ACTIVE again, a SETTLED one keeps its  *)
(* judgment, and only a stale or an ended one gets a successor.            *)
TerminalIsFinal ==
  [][\A v \in Visits :
       /\ att[v].state \in {"SETTLED", "NEEDS_REVIEW"} /\ att'[v].gen = att[v].gen =>
            /\ att'[v].state \in {"SETTLED", att[v].state}
            /\ att[v].state = "SETTLED" => att'[v].judgment = att[v].judgment
       /\ att'[v].gen # att[v].gen =>
            /\ att'[v].gen = att[v].gen + 1
            /\ att[v].judgment \in {"none", "stale_no_progress", "run_ended_no_submission"}]_vars

(* An attempt whose delivery a crash left open is closed for review, and a *)
(* delivered one whose run is over is judged or owned by a readback.       *)
AttemptsSettle ==
  \A v \in Visits :
    (att[v].state = "ACTIVE" /\ att[v].phase # "resolution_blocked")
      ~> (att[v].state # "ACTIVE" \/ att[v].phase = "resolution_blocked"
            \/ att[v].readback \in Pending)

(* A visit whose last allowed attempt went stale is escalated, unless it   *)
(* moves on by itself: the refused mint finds what a crash forgot.         *)
LimitEscalates ==
  \A v \in Visits :
    (StaleReentry(att[v]) /\ att[v].gen >= LimitOf(v))
      ~> (att[v].escalated \/ ver[v] = MaxVersion)

=============================================================================
