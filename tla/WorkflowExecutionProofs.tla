----------------------- MODULE WorkflowExecutionProofs -----------------------
(***************************************************************************)
(* For any visits, pollers, limits and bounds: the workflow execution      *)
(* engine is type correct, keeps the write-ahead fence, and implements     *)
(* DispatchFence.                                                          *)
(***************************************************************************)
EXTENDS WorkflowExecution, FiniteSetTheorems, TLAPS

Turns == {"never_existed", "pending", "settled", "fenced", "lost"}

Case == [req : Nat, res : Nat, by : Nat]

(* What a reconcile pass may have decided to record. *)
VerdictRecords ==
  [kind : {"reconciled"}, state : {"SETTLED", "NEEDS_REVIEW"},
   judgment : {"delivery_unverified", "business_commitment_observed",
               "settle_check_unavailable", "run_ended_no_submission", "run_outcome_unknown"}]
  \cup [kind : {"stale"}]
  \cup [kind : {"readback"}, result : ReadbackStates]

(* The operation a poller is in. *)
Ops ==
  {Idle}
  \cup [step : {"plan"}, v : Visits, base : Nat, resume : BOOLEAN]
  \cup [step : {"resolve", "authorized"}, v : Visits]
  \cup [step : {"fence", "deliver", "record"}, v : Visits, mode : {"admit", "recover", "continue"}]
  \cup [step : {"probe"}, v : Visits, seen : Attempts, turn : Turns \cup {"undefined"}]
  \cup [step : {"commit"}, v : Visits, seen : Attempts, verdict : VerdictRecords]
  \cup [step : {"escalate", "escalated"}, v : Visits, seen : Attempts]

(* Inside these steps a poller holds the ledger lock. *)
Holding == {"plan", "resolve", "authorized", "fence", "deliver", "record"}

LockHeld == \A p \in Pollers : op[p].step \in Holding => lock = p

(* Between the checks of the fence and the plan no run is numbered. *)
RoomToPlan == \A p \in Pollers : op[p].step = "plan" => att[op[p].v].gen < MaxGen

(* A run the ledger says something of has a number. *)
Numbered ==
  /\ \A v \in Visits :
       att[v].delivered \/ att[v].started \/ att[v].phase \in {"planned", "resolution_blocked"}
         => att[v].gen # 0
  /\ \A p \in Pollers :
       op[p].step \in {"resolve", "authorized", "fence", "deliver", "record"}
         => att[op[p].v].gen # 0

TypeInv == TypeOK /\ op \in [Pollers -> Ops] /\ cases \in [Visits -> Seq(Case)]

-----------------------------------------------------------------------------
(* The attempts an event projects to are attempts. *)
LEMMA AttemptTypes ==
  ASSUME NEW a \in Attempts
  PROVE  /\ Blocked(a) \in Attempts /\ Refused(a) \in Attempts /\ Started(a) \in Attempts
         /\ Failed(a) \in Attempts
         /\ \A version \in Nat : Delivered(a, version) \in Attempts
         /\ \A base, c \in Nat : a.gen + 1 \in 0..MaxGen => Planned(a, base, c) \in Attempts
<1>1. Blocked(a) \in Attempts /\ Refused(a) \in Attempts /\ Failed(a) \in Attempts
  BY DEF Attempts, Blocked, Refused, Failed
<1>4. Started(a) \in Attempts
  BY DEF Attempts, Started
<1>2. \A version \in Nat : Delivered(a, version) \in Attempts
  BY DEF Attempts, Delivered
<1>3. ASSUME NEW base \in Nat, NEW c \in Nat, a.gen + 1 \in 0..MaxGen
      PROVE  Planned(a, base, c) \in Attempts
  <2>1. a.case \in Nat
    BY DEF Attempts
  <2> QED BY <1>3, <2>1, ZenonT(30) DEF Attempts, Planned, NoAttempt, ReadbackStates
<1> QED BY <1>1, <1>2, <1>3, <1>4

(* A verdict that is recorded leaves the run's number and its fence alone. *)
LEMMA ApplyKeeps ==
  ASSUME NEW a \in Attempts, NEW w \in VerdictRecords
  PROVE  /\ Apply(a, w) \in Attempts
         /\ Apply(a, w).gen = a.gen /\ Apply(a, w).started = a.started
         /\ Apply(a, w).phase \in {a.phase, "reconciled", "stale_superseded"}
<1>1. CASE w.kind = "reconciled"
  <2>1. Apply(a, w) = Reconciled(a, w.state, w.judgment)
    BY <1>1 DEF Apply
  <2>2. w.state \in {"SETTLED", "NEEDS_REVIEW"}
        /\ w.judgment \in {"delivery_unverified", "business_commitment_observed",
               "settle_check_unavailable", "run_ended_no_submission", "run_outcome_unknown"}
    BY <1>1 DEF VerdictRecords
  <2> QED BY <2>1, <2>2, ZenonT(30) DEF Reconciled, Attempts
<1>2. CASE w.kind = "stale"
  <2>1. Apply(a, w) = StaleSuperseded(a)
    BY <1>2 DEF Apply
  <2> QED BY <2>1, ZenonT(30) DEF StaleSuperseded, Attempts
<1>3. CASE w.kind = "readback"
  <2>1. Apply(a, w) = ReadbackChecked(a, w.result)
    BY <1>3 DEF Apply
  <2>2. w.result \in ReadbackStates
    BY <1>3 DEF VerdictRecords
  <2>3. CASE w.result = "closed"
    <3>1. "closed" \in ReadbackStates
      BY DEF ReadbackStates
    <3> QED BY <2>1, <2>3, <3>1 DEF ReadbackChecked, Attempts
  <2>4. CASE w.result # "closed"
    <3>1. Apply(a, w) = [a EXCEPT !.readback = w.result]
      BY <2>1, <2>4 DEF ReadbackChecked
    <3> QED BY <2>2, <3>1 DEF Attempts
  <2> QED BY <2>3, <2>4
<1> QED BY <1>1, <1>2, <1>3 DEF VerdictRecords

(* What Probe may decide is one of these records. *)
LEMMA VerdictTypes ==
  ASSUME NEW v \in Visits, NEW a \in Attempts, NEW t, NEW w \in Verdicts(v, a, t)
  PROVE  w \in VerdictRecords
<1>1. ReadbackCategory(a) \in {"none"} \cup Pending
  BY DEF ReadbackCategory, Pending
<1>2. StaleVerdicts(v, a) \subseteq VerdictRecords
  BY DEF StaleVerdicts, Supersede, Readback, VerdictRecords, ReadbackStates, Pending
<1>3. SettleVerdicts(v, a, t) \subseteq VerdictRecords
  BY DEF SettleVerdicts, Verdict, VerdictRecords
<1>4. ASSUME NEW category \in Pending PROVE ReadbackVerdicts(v, a, category) \subseteq VerdictRecords
  BY <1>4 DEF ReadbackVerdicts, Readback, VerdictRecords, ReadbackStates
<1>5. ASSUME NEW category \in Pending PROVE Readback(category) \in VerdictRecords
  BY <1>5 DEF Readback, VerdictRecords, ReadbackStates
<1>6. Verdict("NEEDS_REVIEW", "delivery_unverified") \in VerdictRecords
  BY DEF Verdict, VerdictRecords
<1> QED BY <1>1, <1>2, <1>3, <1>4, <1>5, <1>6 DEF Verdicts

(* The initial state is well typed. *)
LEMMA InitType == Init => TypeInv
<1> SUFFICES ASSUME Init PROVE TypeInv
  OBVIOUS
<1>1. att \in [Visits -> Attempts]
  BY WorkflowAssumption DEF Init, NoAttempt, Attempts, ReadbackStates
<1>2. ver \in [Visits -> 1..MaxVersion] /\ crashes \in 0..MaxCrashes
  BY WorkflowAssumption DEF Init
<1>3. TypeOK
  BY <1>1, <1>2 DEF Init, TypeOK
<1>4. op \in [Pollers -> Ops]
  BY DEF Init, Ops
<1>5. cases \in [Visits -> Seq(Case)]
  BY DEF Init
<1> QED BY <1>3, <1>4, <1>5 DEF TypeInv

-----------------------------------------------------------------------------
(* The parts of the typed state, as the steps below use them. *)
LEMMA TypeParts ==
  ASSUME TypeInv
  PROVE  /\ att \in [Visits -> Attempts] /\ lock \in Pollers \cup {None}
         /\ op \in [Pollers -> Ops] /\ ver \in [Visits -> Nat]
         /\ \A p \in Pollers : op[p] # Idle => op[p].v \in Visits /\ att[op[p].v] \in Attempts
<1>1. att \in [Visits -> Attempts] /\ lock \in Pollers \cup {None} /\ op \in [Pollers -> Ops]
  BY DEF TypeInv, TypeOK
<1>2. ver \in [Visits -> Nat]
  BY WorkflowAssumption DEF TypeInv, TypeOK
<1>3. ASSUME NEW p \in Pollers, op[p] # Idle PROVE op[p].v \in Visits
  BY <1>1, <1>3 DEF Ops
<1> QED BY <1>1, <1>2, <1>3

(* The shape of an operation that escalates. *)
LEMMA EscalateOp ==
  ASSUME NEW o \in Ops, o.step \in {"escalate", "escalated"}
  PROVE  o \in [step : {"escalate", "escalated"}, v : Visits, seen : Attempts]
<1>1. o \notin [step : {"plan"}, v : Visits, base : Nat, resume : BOOLEAN]
  OBVIOUS
<1>2. o \notin [step : {"resolve", "authorized"}, v : Visits]
  OBVIOUS
<1>3. o \notin [step : {"fence", "deliver", "record"}, v : Visits,
                mode : {"admit", "recover", "continue"}]
  OBVIOUS
<1>4. o \notin [step : {"probe"}, v : Visits, seen : Attempts, turn : Turns \cup {"undefined"}]
  OBVIOUS
<1>5. o \notin [step : {"commit"}, v : Visits, seen : Attempts, verdict : VerdictRecords]
  OBVIOUS
<1>6. o # Idle
  BY DEF Idle
<1> QED BY <1>1, <1>2, <1>3, <1>4, <1>5, <1>6 DEF Ops

(* A write of an attempt keeps the ledger well typed. *)
LEMMA WriteType ==
  ASSUME TypeInv, NEW v \in Visits, NEW a \in Attempts, Write(v, a)
  PROVE  att' \in [Visits -> Attempts] /\ corrupt' \in BOOLEAN
  BY DEF Write, TypeInv, TypeOK

(* Moving a poller to an operation keeps the pollers well typed. *)
LEMMA GotoType ==
  ASSUME TypeInv, NEW p \in Pollers, NEW o \in Ops, Goto(p, o)
  PROVE  op' \in [Pollers -> Ops]
  BY DEF Goto, TypeInv

(* Admission keeps the types. *)
LEMMA AdmitType ==
  ASSUME TypeInv, LockHeld, RoomToPlan, NEW p \in Pollers, NEW v \in Visits,
         AdmitBegin(p, v) \/ AdmitAtLimit(p, v) \/ AdmitPlan(p) \/ AdmitResolve(p)
  PROVE  TypeInv'
<1> USE DEF Enters, Repair
<1>1. CASE AdmitBegin(p, v)
  <2>1. \E resume \in BOOLEAN :
          Goto(p, [step |-> "plan", v |-> v, base |-> ver[v], resume |-> resume])
    BY <1>1 DEF AdmitBegin
  <2>2. \A resume \in BOOLEAN : [step |-> "plan", v |-> v, base |-> ver[v], resume |-> resume] \in Ops
    BY TypeParts DEF Ops
  <2>3. op' \in [Pollers -> Ops]
    BY <2>1, <2>2, GotoType
  <2> QED BY <1>1, <2>3 DEF AdmitBegin, TypeInv, TypeOK, worldVars, routerVars
<1>2. CASE AdmitAtLimit(p, v)
  <2>1. [step |-> "escalate", v |-> v, seen |-> att[v]] \in Ops
    BY TypeParts DEF Ops
  <2>2. op' \in [Pollers -> Ops]
    BY <1>2, <2>1, GotoType DEF AdmitAtLimit
  <2> QED BY <1>2, <2>2 DEF AdmitAtLimit, TypeInv, TypeOK, worldVars, routerVars
<1>3. CASE AdmitPlan(p)
  <2> DEFINE o == op[p]
  <2>1. o \in [step : {"plan"}, v : Visits, base : Nat, resume : BOOLEAN]
    BY <1>3, TypeParts DEF AdmitPlan, Ops, Idle
  <2>2. [step |-> "resolve", v |-> o.v] \in Ops /\ Idle \in Ops
    BY <2>1 DEF Ops
  <2>3. op' \in [Pollers -> Ops]
    BY <1>3, <2>2, GotoType DEF AdmitPlan
  <2>4. lock' \in Pollers \cup {None}
    BY <1>3, TypeParts DEF AdmitPlan
  <2>5. att' \in [Visits -> Attempts] /\ corrupt' \in BOOLEAN
    <3>1. CASE \E c \in {0} \cup DOMAIN cases[o.v] : Write(o.v, Planned(att[o.v], o.base, c))
      <4>1. PICK c \in {0} \cup DOMAIN cases[o.v] : Write(o.v, Planned(att[o.v], o.base, c))
        BY <3>1
      <4>2. c \in Nat
        BY <2>1, <4>1 DEF TypeInv
      <4>3. att[o.v] \in Attempts /\ att[o.v].gen < MaxGen
        BY <1>3, <2>1, TypeParts DEF AdmitPlan, RoomToPlan
      <4>4. att[o.v].gen + 1 \in 0..MaxGen
        BY <4>3, WorkflowAssumption DEF Attempts
      <4>5. Planned(att[o.v], o.base, c) \in Attempts
        BY <2>1, <4>2, <4>3, <4>4, AttemptTypes
      <4> QED BY <2>1, <4>1, <4>5, WriteType
    <3>2. CASE UNCHANGED <<att, corrupt>>
      BY <3>2 DEF TypeInv, TypeOK
    <3> QED BY <1>3, <3>1, <3>2 DEF AdmitPlan
  <2> QED BY <1>3, <2>3, <2>4, <2>5 DEF AdmitPlan, TypeInv, TypeOK, worldVars, routerVars
<1>4. CASE AdmitResolve(p)
  <2> DEFINE v0 == op[p].v
  <2>1. v0 \in Visits /\ att[v0] \in Attempts /\ Idle \in Ops
        /\ [step |-> "fence", v |-> v0, mode |-> "admit"] \in Ops
    BY <1>4, TypeParts DEF AdmitResolve, Ops, Idle
  <2>2. Blocked(att[v0]) \in Attempts /\ Failed(att[v0]) \in Attempts
    BY <2>1, AttemptTypes
  <2>3. op' \in [Pollers -> Ops]
    BY <1>4, <2>1, GotoType DEF AdmitResolve, WriteAndLeave
  <2>4. att' \in [Visits -> Attempts] /\ corrupt' \in BOOLEAN /\ lock' \in Pollers \cup {None}
    BY <1>4, <2>1, <2>2, WriteType DEF AdmitResolve, WriteAndLeave, TypeInv, TypeOK
  <2> QED BY <1>4, <2>3, <2>4 DEF AdmitResolve, TypeInv, TypeOK, worldVars, routerVars
<1> QED BY <1>1, <1>2, <1>3, <1>4

(* The write-ahead record and the call to the Router keep the types. *)
LEMMA DispatchType ==
  ASSUME TypeInv, NEW p \in Pollers, WriteAhead(p) \/ Deliver(p) \/ RecordDelivered(p)
  PROVE  TypeInv'
<1> DEFINE o == op[p]
<1>1. o \in [step : {"fence", "deliver", "record"}, v : Visits, mode : {"admit", "recover", "continue"}]
  BY TypeParts DEF WriteAhead, Deliver, RecordDelivered, Ops, Idle
<1>2. o.v \in Visits /\ att[o.v] \in Attempts /\ ver[o.v] \in Nat
  BY <1>1, TypeParts
<1>3. [o EXCEPT !.step = "deliver"] \in Ops /\ [o EXCEPT !.step = "record"] \in Ops /\ Idle \in Ops
  BY <1>1 DEF Ops
<1>4. CASE WriteAhead(p)
  <2>1. att' \in [Visits -> Attempts] /\ corrupt' \in BOOLEAN
    BY <1>2, <1>4, AttemptTypes, WriteType DEF WriteAhead
  <2>2. op' \in [Pollers -> Ops]
    BY <1>3, <1>4, GotoType DEF WriteAhead
  <2> QED BY <1>4, <2>1, <2>2 DEF WriteAhead, TypeInv, TypeOK, worldVars, routerVars
<1>5. CASE Deliver(p)
  <2>1. att' \in [Visits -> Attempts] /\ corrupt' \in BOOLEAN
    <3>1. CASE Write(o.v, Failed(att[o.v]))
      BY <1>2, <3>1, AttemptTypes, WriteType
    <3>2. CASE UNCHANGED <<att, corrupt>>
      BY <3>2 DEF TypeInv, TypeOK
    <3> QED BY <1>5, <3>1, <3>2 DEF Deliver, WriteAndLeave
  <2>2. op' \in [Pollers -> Ops]
    BY <1>3, <1>5, GotoType DEF Deliver, WriteAndLeave
  <2>3. lock' \in Pollers \cup {None}
    BY <1>5, TypeParts DEF Deliver, WriteAndLeave
  <2> DEFINE g == att[o.v].gen
  <2>4. turn' \in [Visits -> [Gens -> Turns]]
    <3>1. turn' = turn \/ turn' = [turn EXCEPT ![o.v] = [@ EXCEPT ![g] = "pending"]]
      BY <1>5 DEF Deliver
    <3>2. turn \in [Visits -> [Gens -> Turns]] /\ "pending" \in Turns
      BY DEF TypeInv, TypeOK, Turns
    <3>3. [turn[o.v] EXCEPT ![g] = "pending"] \in [Gens -> Turns]
      BY <1>2, <3>2
    <3> QED BY <3>1, <3>2, <3>3
  <2>5. calls' \in [Visits -> [Gens -> Nat]]
    <3>1. calls' = [calls EXCEPT ![o.v] = [calls[o.v] EXCEPT ![g] = calls[o.v][g] + 1]]
      BY <1>5 DEF Deliver
    <3>2. calls \in [Visits -> [Gens -> Nat]]
      BY DEF TypeInv, TypeOK
    <3>3. [calls[o.v] EXCEPT ![g] = calls[o.v][g] + 1] \in [Gens -> Nat]
      <4>1. g \in Gens => calls[o.v][g] + 1 \in Nat
        BY <1>2, <3>2
      <4> QED BY <1>2, <3>2, <4>1
    <3> QED BY <3>1, <3>2, <3>3
  <2> QED BY <1>5, <2>1, <2>2, <2>3, <2>4, <2>5 DEF Deliver, TypeInv, TypeOK, worldVars, Turns
<1>6. CASE RecordDelivered(p)
  <2>1. att' \in [Visits -> Attempts] /\ corrupt' \in BOOLEAN
    <3>1. PICK version \in Nat : Write(o.v, Delivered(att[o.v], version))
      BY <1>2, <1>6 DEF RecordDelivered, WriteAndLeave
    <3> QED BY <1>2, <3>1, AttemptTypes, WriteType
  <2>2. op' \in [Pollers -> Ops] /\ lock' \in Pollers \cup {None}
    BY <1>3, <1>6, GotoType DEF RecordDelivered, WriteAndLeave
  <2> QED BY <1>6, <2>1, <2>2 DEF RecordDelivered, TypeInv, TypeOK, worldVars, routerVars
<1> QED BY <1>4, <1>5, <1>6

(* Recovery and the continuation of a resume keep the types. *)
LEMMA RecoverType ==
  ASSUME TypeInv, NEW p \in Pollers, NEW v \in Visits, NEW auto \in BOOLEAN,
         RecoverBegin(p, v, auto) \/ RecoverResolve(p) \/ ContinueResume(p, v)
  PROVE  TypeInv'
<1> USE DEF Repair
<1>1. CASE RecoverBegin(p, v, auto)
  <2>1. att' \in [Visits -> Attempts]
    BY <1>1, TypeParts, AttemptTypes DEF RecoverBegin
  <2>2. [step |-> "authorized", v |-> v] \in Ops
    BY DEF Ops
  <2>3. op' \in [Pollers -> Ops] /\ lock' \in Pollers \cup {None}
    BY <1>1, <2>2, TypeParts, GotoType DEF RecoverBegin
  <2>4. corrupt' \in BOOLEAN
    BY <1>1 DEF RecoverBegin, TypeInv, TypeOK
  <2> QED BY <1>1, <2>1, <2>3, <2>4 DEF RecoverBegin, TypeInv, TypeOK, worldVars, routerVars
<1>2. CASE RecoverResolve(p)
  <2> DEFINE v0 == op[p].v
  <2>1. v0 \in Visits /\ att[v0] \in Attempts /\ Idle \in Ops
        /\ [step |-> "fence", v |-> v0, mode |-> "recover"] \in Ops
    BY <1>2, TypeParts DEF RecoverResolve, Ops, Idle
  <2>2. op' \in [Pollers -> Ops]
    BY <1>2, <2>1, GotoType DEF RecoverResolve, WriteAndLeave
  <2>3. att' \in [Visits -> Attempts] /\ corrupt' \in BOOLEAN /\ lock' \in Pollers \cup {None}
    BY <1>2, <2>1, AttemptTypes, WriteType DEF RecoverResolve, WriteAndLeave, TypeInv, TypeOK
  <2> QED BY <1>2, <2>2, <2>3 DEF RecoverResolve, TypeInv, TypeOK, worldVars, routerVars
<1>3. CASE ContinueResume(p, v)
  <2>1. [step |-> "fence", v |-> v, mode |-> "continue"] \in Ops
    BY DEF Ops
  <2>2. op' \in [Pollers -> Ops]
    BY <1>3, <2>1, GotoType DEF ContinueResume
  <2> QED BY <1>3, <2>2 DEF ContinueResume, TypeInv, TypeOK, worldVars, routerVars
<1> QED BY <1>1, <1>2, <1>3

(* The reconcile passes keep the types. *)
LEMMA ReconcileType ==
  ASSUME TypeInv, Numbered, NEW p \in Pollers, NEW v \in Visits,
         Observe(p, v) \/ Probe(p) \/ Commit(p) \/ Escalate(p) \/ RecordEscalation(p)
  PROVE  TypeInv'
<1> USE DEF Repair
<1> DEFINE o == op[p]
<1>0. Idle \in Ops
  BY DEF Ops
<1>1. CASE Observe(p, v)
  <2>1. PICK t \in Turns \cup {"undefined"} :
          Goto(p, [step |-> "probe", v |-> v, seen |-> att[v], turn |-> t])
    <3>1. \A g \in Gens : turn[v][g] \in Turns
      BY DEF TypeInv, TypeOK, Turns
    <3>2. att[v].delivered => att[v].gen \in Gens
      BY TypeParts DEF Numbered, Attempts, Gens
    <3> QED BY <1>1, <3>1, <3>2 DEF Observe
  <2>2. [step |-> "probe", v |-> v, seen |-> att[v], turn |-> t] \in Ops
    BY TypeParts DEF Ops
  <2>3. op' \in [Pollers -> Ops]
    BY <2>1, <2>2, GotoType
  <2> QED BY <1>1, <2>3 DEF Observe, TypeInv, TypeOK, worldVars, routerVars, ledgerVars
<1>2. CASE Probe(p)
  <2>1. o \in [step : {"probe"}, v : Visits, seen : Attempts, turn : Turns \cup {"undefined"}]
    BY <1>2, TypeParts DEF Probe, Ops, Idle
  <2>2. [step |-> "escalate", v |-> o.v, seen |-> o.seen] \in Ops
    BY <2>1 DEF Ops
  <2>3. \A w \in Verdicts(o.v, o.seen, o.turn) :
          [step |-> "commit", v |-> o.v, seen |-> o.seen, verdict |-> w] \in Ops
    BY <2>1, VerdictTypes DEF Ops
  <2>4. op' \in [Pollers -> Ops]
    BY <1>2, <1>0, <2>2, <2>3, GotoType DEF Probe
  <2> QED BY <1>2, <2>4 DEF Probe, TypeInv, TypeOK, worldVars, routerVars, ledgerVars
<1>3. CASE Commit(p)
  <2>1. o \in [step : {"commit"}, v : Visits, seen : Attempts, verdict : VerdictRecords]
    BY <1>3, TypeParts DEF Commit, Ops, Idle
  <2>2. Apply(att[o.v], o.verdict) \in Attempts
    BY <2>1, TypeParts, ApplyKeeps
  <2>3. att' \in [Visits -> Attempts]
    BY <1>3, <2>1, <2>2, TypeParts DEF Commit
  <2>4. [step |-> "escalate", v |-> o.v, seen |-> o.seen] \in Ops
    BY <2>1 DEF Ops
  <2>5. op' \in [Pollers -> Ops]
    BY <1>0, <1>3, <2>4, GotoType DEF Commit
  <2> QED BY <1>3, <2>3, <2>5 DEF Commit, TypeInv, TypeOK, worldVars, routerVars
<1>4. CASE Escalate(p)
  <2>1. o \in [step : {"escalate", "escalated"}, v : Visits, seen : Attempts]
    BY <1>4, TypeParts, EscalateOp DEF Escalate
  <2>2. [o EXCEPT !.step = "escalated"] \in Ops
    BY <2>1 DEF Ops
  <2>3. op' \in [Pollers -> Ops]
    BY <1>0, <1>4, <2>2, GotoType DEF Escalate
  <2>4. ver' \in [Visits -> 1..MaxVersion]
    <3>1. ver[o.v] \in 1..MaxVersion
      BY <2>1 DEF TypeInv, TypeOK
    <3>2. CASE UNCHANGED ver
      BY <3>2 DEF TypeInv, TypeOK
    <3>3. CASE ver' = [ver EXCEPT ![o.v] = ver[o.v] + 1] /\ ver[o.v] < MaxVersion
      <4>1. ver[o.v] + 1 \in 1..MaxVersion
        BY <3>1, <3>3, WorkflowAssumption
      <4> QED BY <3>3, <4>1 DEF TypeInv, TypeOK
    <3> QED BY <1>4, <3>2, <3>3 DEF Escalate, worldVars
  <2>5. cases' \in [Visits -> Seq(Case)]
    <3>1. [req |-> ver[o.v] + 1, res |-> 0, by |-> o.seen.gen] \in Case
      BY <2>1, TypeParts, WorkflowAssumption DEF Case, Attempts
    <3>2. Append(cases[o.v], [req |-> ver[o.v] + 1, res |-> 0, by |-> o.seen.gen]) \in Seq(Case)
      BY <2>1, <3>1 DEF TypeInv
    <3> QED BY <1>4, <2>1, <3>2 DEF Escalate, TypeInv, worldVars
  <2>6. world' \in [Visits -> {"current", "terminal", "moved"}]
    BY <1>4 DEF Escalate, TypeInv, TypeOK, worldVars
  <2> QED BY <1>4, <2>3, <2>4, <2>5, <2>6 DEF Escalate, TypeInv, TypeOK, routerVars, ledgerVars
<1>5. CASE RecordEscalation(p)
  <2>1. o \in [step : {"escalate", "escalated"}, v : Visits, seen : Attempts]
    BY <1>5, TypeParts DEF RecordEscalation, Ops, Idle
  <2>2. \A a \in Attempts : [a EXCEPT !.escalated = TRUE] \in Attempts
    BY DEF Attempts
  <2>3. att' \in [Visits -> Attempts]
    BY <1>5, <2>1, <2>2, TypeParts DEF RecordEscalation
  <2>4. op' \in [Pollers -> Ops]
    BY <1>0, <1>5, GotoType DEF RecordEscalation
  <2> QED BY <1>5, <2>3, <2>4 DEF RecordEscalation, TypeInv, TypeOK, worldVars, routerVars
<1> QED BY <1>1, <1>2, <1>3, <1>4, <1>5

(* The death of a poller keeps the types. *)
LEMMA CrashType == ASSUME TypeInv, NEW p \in Pollers, Crash(p) PROVE TypeInv'
<1>1. op' \in [Pollers -> Ops]
  BY GotoType DEF Crash, Ops
<1>2. crashes' \in 0..MaxCrashes
  BY WorkflowAssumption DEF Crash, TypeInv, TypeOK
<1>3. lock' \in Pollers \cup {None} /\ tail' \in {"clean", "torn", "unsealed"}
  BY DEF Crash, TypeInv, TypeOK
<1> QED BY <1>1, <1>2, <1>3 DEF Crash, TypeInv, TypeOK, worldVars, routerVars

(* The end of a run and the moves of svc-workflow keep the types. *)
LEMMA OutsideType ==
  ASSUME TypeInv, NEW v \in Visits,
         (\E g \in Gens : RunEnds(v, g)) \/ TurnForgotten(v) \/ WorldMoves(v) \/ CaseMoves(v)
  PROVE  TypeInv'
<1>2. CASE (\E g \in Gens : RunEnds(v, g)) \/ TurnForgotten(v)
  <2>1. turn' \in [Visits -> [Gens -> Turns]]
    <3>1. \E n : \E t \in Turns : turn' = [turn EXCEPT ![v] = [turn[v] EXCEPT ![n] = t]]
      BY <1>2 DEF RunEnds, TurnForgotten, Turns
    <3>2. turn \in [Visits -> [Gens -> Turns]]
      BY DEF TypeInv, TypeOK, Turns
    <3>3. \A n : \A t \in Turns : [turn[v] EXCEPT ![n] = t] \in [Gens -> Turns]
      BY <3>2
    <3> QED BY <3>1, <3>2, <3>3
  <2> QED BY <1>2, <2>1 DEF RunEnds, TurnForgotten, TypeInv, TypeOK, Turns, worldVars, ledgerVars
<1>3. CASE WorldMoves(v) \/ CaseMoves(v)
  <2>1. ver' \in [Visits -> 1..MaxVersion]
    <3>1. \A x \in 1..MaxVersion : x < MaxVersion => x + 1 \in 1..MaxVersion
      BY WorkflowAssumption
    <3> QED BY <1>3, <3>1 DEF WorldMoves, CaseMoves, TypeInv, TypeOK
  <2>2. world' \in [Visits -> {"current", "terminal", "moved"}]
    BY <1>3 DEF WorldMoves, CaseMoves, TypeInv, TypeOK
  <2>3. cases' \in [Visits -> Seq(Case)]
    <3>1. cases[v] \in Seq(Case) /\ ver[v] + 1 \in Nat
      BY TypeParts DEF TypeInv
    <3>2. Append(cases[v], [req |-> ver[v] + 1, res |-> 0, by |-> 0]) \in Seq(Case)
      BY <3>1 DEF Case
    <3>3. ASSUME NEW c \in DOMAIN cases[v]
          PROVE  [cases[v] EXCEPT ![c] = [cases[v][c] EXCEPT !.res = ver[v] + 1]] \in Seq(Case)
      <4>1. cases[v][c] \in Case
        BY <3>1
      <4>2. [cases[v][c] EXCEPT !.res = ver[v] + 1] \in Case
        BY <3>1, <4>1 DEF Case
      <4> QED BY <3>1, <4>2
    <3>4. CASE cases' = [cases EXCEPT ![v] = Append(@, [req |-> ver[v] + 1, res |-> 0, by |-> 0])]
      BY <3>2, <3>4 DEF TypeInv
    <3>5. CASE \E c \in DOMAIN cases[v] :
                 cases' = [cases EXCEPT ![v] =
                             [cases[v] EXCEPT ![c] = [cases[v][c] EXCEPT !.res = ver[v] + 1]]]
      BY <3>3, <3>5 DEF TypeInv
    <3>6. CASE UNCHANGED cases
      BY <3>6 DEF TypeInv
    <3> QED BY <1>3, <3>4, <3>5, <3>6 DEF WorldMoves, CaseMoves
  <2> QED BY <1>3, <2>1, <2>2, <2>3 DEF WorldMoves, CaseMoves, TypeInv, TypeOK, routerVars, ledgerVars
<1> QED BY <1>2, <1>3

-----------------------------------------------------------------------------
(* A step of one poller, in any of its operations. *)
PollerStep(p) ==
  \/ Continues(p) \/ Crash(p)
  \/ \E v \in Visits :
       \/ AdmitBegin(p, v) \/ AdmitAtLimit(p, v) \/ ContinueResume(p, v) \/ Observe(p, v)
       \/ \E auto \in BOOLEAN : RecoverBegin(p, v, auto)

(* A poller that is about to call the Router has fenced a run the Router   *)
(* has not been asked for.                                                 *)
ReadyToSend ==
  \A p \in Pollers :
    op[p].step = "deliver" =>
      LET a == att[op[p].v] IN a.started /\ calls[op[p].v][a.gen] = 0

IInv == TypeInv /\ LockHeld /\ RoomToPlan /\ Numbered /\ WriteAheadFence /\ ReadyToSend

(* What the invariant says of one poller. *)
Local(p) ==
  LET a == att[op[p].v] IN
  /\ op[p].step \in Holding => lock = p
  /\ op[p].step = "plan" => a.gen < MaxGen
  /\ op[p].step \in {"resolve", "authorized", "fence", "deliver", "record"} => a.gen # 0
  /\ op[p].step = "deliver" => a.started /\ calls[op[p].v][a.gen] = 0

(* What it says of one visit. *)
RunTruth(v) ==
  /\ att[v].delivered \/ att[v].started \/ att[v].phase \in {"planned", "resolution_blocked"}
       => att[v].gen # 0
  /\ \A g \in Gens :
       calls[v][g] > 0 => g < att[v].gen \/ (g = att[v].gen /\ att[v].started)

LEMMA IInvParts ==
  /\ IInv <=> TypeInv /\ (\A p \in Pollers : Local(p)) /\ (\A v \in Visits : RunTruth(v))
  /\ IInv' <=> TypeInv' /\ (\A p \in Pollers : Local(p)') /\ (\A v \in Visits : RunTruth(v)')
  BY DEF IInv, Local, RunTruth, LockHeld, RoomToPlan, Numbered, WriteAheadFence, ReadyToSend

(* A step keeps the number and the fence of every run, and calls no one. *)
RunsKept ==
  /\ \A v \in Visits : att'[v].gen = att[v].gen /\ att'[v].started = att[v].started
  /\ calls' = calls

-----------------------------------------------------------------------------
(* The types are kept by every step. *)
LEMMA TypeStep == ASSUME IInv, Next PROVE TypeInv'
<1>1. ASSUME NEW p \in Pollers, Continues(p) PROVE TypeInv'
  <2>1. ASSUME NEW v \in Visits PROVE TypeInv'
    BY <1>1, AdmitType, DispatchType, RecoverType, ReconcileType DEF Continues, IInv
  <2>2. op[p].step # "idle"
    BY <1>1 DEF Continues, AdmitPlan, AdmitResolve, WriteAhead, Deliver, RecordDelivered,
                RecoverResolve, Probe, Commit, Escalate, RecordEscalation
  <2>3. op[p].v \in Visits
    BY <2>2, TypeParts DEF IInv, Idle
  <2> QED BY <2>1, <2>3
<1>2. ASSUME NEW p \in Pollers, NEW v \in Visits,
             AdmitBegin(p, v) \/ AdmitAtLimit(p, v) \/ ContinueResume(p, v) \/ Observe(p, v)
      PROVE  TypeInv'
  BY <1>2, AdmitType, RecoverType, ReconcileType DEF IInv
<1>3. ASSUME NEW p \in Pollers, NEW v \in Visits, NEW auto \in BOOLEAN, RecoverBegin(p, v, auto)
      PROVE  TypeInv'
  BY <1>3, RecoverType DEF IInv
<1>4. ASSUME NEW v \in Visits,
             WorldMoves(v) \/ CaseMoves(v) \/ TurnForgotten(v) \/ \E g \in Gens : RunEnds(v, g)
      PROVE  TypeInv'
  BY <1>4, OutsideType DEF IInv
<1>5. ASSUME NEW p \in Pollers, Crash(p) PROVE TypeInv'
  BY <1>5, CrashType DEF IInv
<1> QED BY <1>1, <1>2, <1>3, <1>4, <1>5 DEF Next

(* While a poller holds the lock, a step of another leaves it, the ledger  *)
(* and the Router's calls alone.                                           *)
LEMMA Exclusion ==
  ASSUME IInv, NEW p \in Pollers, PollerStep(p), NEW q \in Pollers, q # p
  PROVE  /\ op'[q] = op[q]
         /\ op[q].step \in Holding => lock' = lock /\ att' = att /\ calls' = calls
<1> USE DEF Goto, WriteAndLeave
<1>1. op'[q] = op[q]
  <2>1. op \in [Pollers -> Ops]
    BY TypeParts DEF IInv
  <2>2. (\E o : op' = [op EXCEPT ![p] = o]) \/ op' = op
    BY DEF PollerStep, Continues, Crash, AdmitPlan, AdmitResolve, WriteAhead, Deliver,
           RecordDelivered, RecoverResolve, Probe, Commit, Escalate, RecordEscalation,
           AdmitBegin, AdmitAtLimit, ContinueResume, Observe, RecoverBegin
  <2> QED BY <2>1, <2>2
<1>2. ASSUME op[q].step \in Holding PROVE lock' = lock /\ att' = att /\ calls' = calls
  <2>1. lock = q /\ lock # None
    BY <1>2, WorkflowAssumption DEF IInv, LockHeld
  <2>2. op[p].step \notin Holding
    BY <2>1 DEF IInv, LockHeld
  <2> QED BY <2>1, <2>2
      DEF PollerStep, Continues, Crash, AdmitPlan, AdmitResolve, WriteAhead, Deliver,
          RecordDelivered, RecoverResolve, Probe, Commit, Escalate, RecordEscalation, Enters,
          AdmitBegin, AdmitAtLimit, ContinueResume, Observe, RecoverBegin, Holding,
          ledgerVars, routerVars
<1> QED BY <1>1, <1>2

-----------------------------------------------------------------------------
(* What the events that number and fence no run leave as it was. *)
SameRunIn(b, a) == b.gen = a.gen /\ b.started = a.started

LEMMA EventKeeps ==
  ASSUME NEW a \in Attempts
  PROVE  /\ SameRunIn(Blocked(a), a) /\ SameRunIn(Refused(a), a) /\ SameRunIn(Failed(a), a)
         /\ \A version : SameRunIn(Delivered(a, version), a)
         /\ SameRunIn([a EXCEPT !.escalated = TRUE], a)
         /\ [a EXCEPT !.escalated = TRUE].delivered = a.delivered
         /\ [a EXCEPT !.escalated = TRUE].phase = a.phase
  BY DEF Attempts, Blocked, Refused, Failed, Delivered, SameRunIn

(* A recorded verdict says nothing of a delivery. *)
LEMMA ApplyDelivered ==
  ASSUME NEW a \in Attempts, NEW w \in VerdictRecords
  PROVE  Apply(a, w).delivered = a.delivered
  BY DEF Attempts, VerdictRecords, Apply, Reconciled, StaleSuperseded, ReadbackChecked

(* A step that writes nothing keeps what the invariant says of the visits. *)
LEMMA NothingWritten ==
  ASSUME IInv, att' = att, calls' = calls
  PROVE  RunsKept /\ \A v \in Visits : RunTruth(v)'
<1>1. \A v \in Visits : RunTruth(v)
  BY IInvParts
<1> QED BY <1>1 DEF RunsKept, RunTruth

(* So does the write of an event that numbers and fences no run. *)
LEMMA QuietWrite ==
  ASSUME IInv, NEW v \in Visits, NEW a \in Attempts,
         att' = [att EXCEPT ![v] = a], calls' = calls,
         SameRunIn(a, att[v]),
         a.delivered \/ a.phase \in {"planned", "resolution_blocked"} => a.gen # 0
  PROVE  RunsKept /\ \A w \in Visits : RunTruth(w)'
<1>1. \A w \in Visits : RunTruth(w)
  BY IInvParts
<1>2. att \in [Visits -> Attempts]
  BY TypeParts DEF IInv
<1>3. ASSUME NEW w \in Visits PROVE att'[w] = IF w = v THEN a ELSE att[w]
  BY <1>2
<1>4. RunsKept
  BY <1>3 DEF RunsKept, SameRunIn
<1>5. ASSUME NEW w \in Visits PROVE RunTruth(w)'
  BY <1>1, <1>3 DEF RunTruth, SameRunIn
<1> QED BY <1>4, <1>5

(* A poller that goes back between operations holds nothing. *)
LEMMA IdleLocal ==
  ASSUME IInv, NEW p \in Pollers, NEW o, Goto(p, o),
         o.step \in {"idle", "probe", "commit", "escalate", "escalated"}
  PROVE  Local(p)'
<1>1. op'[p] = o
  BY TypeParts DEF Goto, IInv
<1> QED BY <1>1 DEF Local, Holding

(* What a step that numbers, fences and sends nothing does to the invariant. *)
QuietStep(p) == RunsKept /\ Local(p)' /\ \A w \in Visits : RunTruth(w)'

LEMMA BeginIsQuiet ==
  ASSUME IInv, NEW p \in Pollers, NEW v \in Visits, NEW auto \in BOOLEAN,
         \/ AdmitBegin(p, v) \/ AdmitAtLimit(p, v) \/ ContinueResume(p, v) \/ Observe(p, v)
         \/ RecoverBegin(p, v, auto)
  PROVE  QuietStep(p)
<1>0. op \in [Pollers -> Ops] /\ att[v] \in Attempts /\ att[v].gen \in 0..MaxGen /\ RunTruth(v)
      /\ att \in [Visits -> Attempts]
  BY TypeParts, IInvParts DEF IInv, Attempts
<1>1. CASE AdmitBegin(p, v)
  <2>1. \E resume \in BOOLEAN :
          op'[p] = [step |-> "plan", v |-> v, base |-> ver[v], resume |-> resume]
    BY <1>0, <1>1 DEF AdmitBegin, Goto
  <2>2. att' = att /\ calls' = calls /\ lock' = p /\ att[v].gen < MaxGen
    BY <1>1 DEF AdmitBegin, routerVars
  <2>3. Local(p)'
    BY <2>1, <2>2 DEF Local, Holding
  <2> QED BY <2>2, <2>3, NothingWritten DEF QuietStep
<1>2. CASE AdmitAtLimit(p, v)
  <2>1. att' = att /\ calls' = calls /\ Goto(p, [step |-> "escalate", v |-> v, seen |-> att[v]])
    BY <1>2 DEF AdmitAtLimit, routerVars
  <2> QED BY <2>1, IdleLocal, NothingWritten DEF QuietStep
<1>3. CASE ContinueResume(p, v)
  <2>1. op'[p] = [step |-> "fence", v |-> v, mode |-> "continue"]
    BY <1>0, <1>3 DEF ContinueResume, Goto
  <2>2. att' = att /\ calls' = calls /\ lock' = p /\ att[v].phase = "planned"
    BY <1>3 DEF ContinueResume, routerVars
  <2>3. Local(p)'
    BY <1>0, <2>1, <2>2 DEF Local, Holding, RunTruth
  <2> QED BY <2>2, <2>3, NothingWritten DEF QuietStep
<1>4. CASE Observe(p, v)
  <2>1. PICK t : Goto(p, [step |-> "probe", v |-> v, seen |-> att[v], turn |-> t])
    BY <1>4 DEF Observe
  <2>2. att' = att /\ calls' = calls
    BY <1>4 DEF Observe, ledgerVars, routerVars
  <2> QED BY <2>1, <2>2, IdleLocal, NothingWritten DEF QuietStep
<1>5. CASE RecoverBegin(p, v, auto)
  <2>1. calls' = calls /\ att[v].phase = "resolution_blocked" /\ op[p].step = "idle"
    BY <1>5 DEF RecoverBegin, routerVars, Enters
  <2>2. CASE lock' = p /\ Goto(p, [step |-> "authorized", v |-> v]) /\ att' = att
    <3>1. op'[p] = [step |-> "authorized", v |-> v]
      BY <1>0, <2>2 DEF Goto
    <3>2. Local(p)'
      BY <1>0, <2>1, <2>2, <3>1 DEF Local, Holding, RunTruth
    <3> QED BY <2>1, <2>2, <3>2, NothingWritten DEF QuietStep
  <2>3. CASE att' = [att EXCEPT ![v] = Refused(att[v])] /\ UNCHANGED <<lock, op>>
    <3>1. Local(p)'
      BY <2>1, <2>3 DEF Local, Holding
    <3>2. Refused(att[v]) \in Attempts /\ SameRunIn(Refused(att[v]), att[v])
      BY <1>0, AttemptTypes, EventKeeps
    <3>3. Refused(att[v]).gen # 0
      BY <1>0, <2>1, <3>2 DEF RunTruth, SameRunIn
    <3> QED BY <2>1, <2>3, <3>1, <3>2, <3>3, QuietWrite DEF QuietStep
  <2> QED BY <1>5, <2>2, <2>3 DEF RecoverBegin
<1> QED BY <1>1, <1>2, <1>3, <1>4, <1>5

(* The principal is resolved, or the attempt is blocked or has failed. *)
LEMMA ResolveIsQuiet ==
  ASSUME IInv, NEW p \in Pollers, AdmitResolve(p) \/ RecoverResolve(p)
  PROVE  QuietStep(p)
<1> DEFINE v == op[p].v
<1>0. op \in [Pollers -> Ops] /\ att \in [Visits -> Attempts] /\ Local(p)
      /\ op[p].step \in {"resolve", "authorized"} /\ calls' = calls
  BY TypeParts, IInvParts DEF IInv, AdmitResolve, RecoverResolve, routerVars
<1>1. v \in Visits /\ att[v] \in Attempts /\ lock = p /\ att[v].gen # 0
  BY <1>0, TypeParts DEF IInv, Local, Holding, Idle
<1>2. CASE att' = att /\ lock' = lock
           /\ \E mode \in {"admit", "recover"} : Goto(p, [step |-> "fence", v |-> v, mode |-> mode])
  <2>1. PICK mode : op'[p] = [step |-> "fence", v |-> v, mode |-> mode]
    BY <1>0, <1>2 DEF Goto
  <2>2. Local(p)'
    BY <1>1, <1>2, <2>1 DEF Local, Holding
  <2> QED BY <1>0, <1>2, <2>2, NothingWritten DEF QuietStep
<1>3. CASE \E a \in {Blocked(att[v]), Failed(att[v])} : WriteAndLeave(p, v, a)
  <2>1. PICK a \in {Blocked(att[v]), Failed(att[v])} : WriteAndLeave(p, v, a)
    BY <1>3
  <2>2. a \in Attempts /\ SameRunIn(a, att[v])
    BY <1>1, AttemptTypes, EventKeeps
  <2>3. att' = [att EXCEPT ![v] = a] /\ Goto(p, Idle)
    BY <2>1 DEF WriteAndLeave, Write
  <2>4. a.gen # 0
    BY <1>1, <2>2 DEF SameRunIn
  <2>5. Local(p)'
    BY <2>3, IdleLocal DEF Idle
  <2> QED BY <1>0, <1>1, <2>2, <2>3, <2>4, <2>5, QuietWrite DEF QuietStep
<1> QED BY <1>2, <1>3 DEF AdmitResolve, RecoverResolve

(* run_delivered is recorded of the run that was sent. *)
LEMMA RecordIsQuiet ==
  ASSUME IInv, NEW p \in Pollers, RecordDelivered(p) PROVE QuietStep(p)
<1> DEFINE v == op[p].v
<1>0. att \in [Visits -> Attempts] /\ Local(p) /\ op[p].step = "record" /\ calls' = calls
  BY TypeParts, IInvParts DEF IInv, RecordDelivered, routerVars
<1>1. v \in Visits /\ att[v] \in Attempts /\ ver[v] \in Nat /\ att[v].gen # 0
  BY <1>0, TypeParts DEF IInv, Local, Idle
<1>2. PICK version \in Nat : WriteAndLeave(p, v, Delivered(att[v], version))
  BY <1>1 DEF RecordDelivered
<1>3. att' = [att EXCEPT ![v] = Delivered(att[v], version)] /\ Goto(p, Idle)
  BY <1>2 DEF WriteAndLeave, Write
<1> DEFINE a == Delivered(att[v], version)
<1>4. a \in Attempts /\ SameRunIn(a, att[v])
  BY <1>1, AttemptTypes, EventKeeps
<1>5. a.gen # 0
  BY <1>1, <1>4 DEF SameRunIn
<1>6. Local(p)'
  BY <1>3, IdleLocal DEF Idle
<1> QED BY <1>0, <1>1, <1>3, <1>4, <1>5, <1>6, QuietWrite DEF QuietStep

(* The reconcile passes and a crash. *)
LEMMA PassIsQuiet ==
  ASSUME IInv, NEW p \in Pollers,
         Probe(p) \/ Commit(p) \/ Escalate(p) \/ RecordEscalation(p) \/ Crash(p)
  PROVE  QuietStep(p)
<1> DEFINE v == op[p].v
<1>0. att \in [Visits -> Attempts] /\ op[p].step # "idle" /\ calls' = calls
  BY TypeParts DEF IInv, Probe, Commit, Escalate, RecordEscalation, Crash, routerVars
<1>1. v \in Visits /\ att[v] \in Attempts /\ RunTruth(v)
  BY <1>0, TypeParts, IInvParts DEF IInv, Idle
<1>2. PICK o : Goto(p, o) /\ o.step \in {"idle", "commit", "escalate", "escalated"}
  <2>1. Idle.step = "idle"
    BY DEF Idle
  <2>2. CASE Goto(p, Idle)
    BY <2>1, <2>2
  <2>3. CASE \E u, seen, w : Goto(p, [step |-> "commit", v |-> u, seen |-> seen, verdict |-> w])
    BY <2>3
  <2>4. CASE \E u, seen : Goto(p, [step |-> "escalate", v |-> u, seen |-> seen])
    BY <2>4
  <2>5. CASE Escalate(p) /\ Goto(p, [op[p] EXCEPT !.step = "escalated"])
    <3>1. op[p] \in [step : {"escalate", "escalated"}, v : Visits, seen : Attempts]
      BY <2>5, TypeParts, EscalateOp DEF IInv, Escalate
    <3>2. [op[p] EXCEPT !.step = "escalated"].step = "escalated"
      BY <3>1
    <3> QED BY <2>5, <3>2
  <2> QED BY <2>2, <2>3, <2>4, <2>5 DEF Probe, Commit, Escalate, RecordEscalation, Crash
<1>3. Local(p)'
  BY <1>2, IdleLocal
<1>4. CASE att' = att
  BY <1>0, <1>3, <1>4, NothingWritten DEF QuietStep
<1>5. CASE Commit(p) /\ att' = [att EXCEPT ![v] = Apply(att[v], op[p].verdict)]
  <2> DEFINE a == Apply(att[v], op[p].verdict)
  <2>1. op[p].verdict \in VerdictRecords
    BY <1>5, TypeParts DEF IInv, Commit, Ops, Idle
  <2>2. a \in Attempts /\ SameRunIn(a, att[v]) /\ a.delivered = att[v].delivered
        /\ a.phase \in {att[v].phase, "reconciled", "stale_superseded"}
    BY <1>1, <2>1, ApplyKeeps, ApplyDelivered DEF SameRunIn
  <2>3. a.delivered \/ a.phase \in {"planned", "resolution_blocked"} => a.gen # 0
    BY <1>1, <2>2 DEF RunTruth, SameRunIn
  <2> HIDE DEF a
  <2>4. att' = [att EXCEPT ![v] = a]
    BY <1>5 DEF a
  <2> QED BY <1>0, <1>1, <1>3, <2>2, <2>3, <2>4, QuietWrite DEF QuietStep
<1>6. CASE att' = [att EXCEPT ![v] = [att[v] EXCEPT !.escalated = TRUE]]
  <2> DEFINE a == [att[v] EXCEPT !.escalated = TRUE]
  <2>1. \A b \in Attempts : [b EXCEPT !.escalated = TRUE] \in Attempts
    BY DEF Attempts
  <2>2. a \in Attempts /\ SameRunIn(a, att[v])
        /\ a.delivered = att[v].delivered /\ a.phase = att[v].phase
    BY <1>1, <2>1, EventKeeps
  <2>3. a.delivered \/ a.phase \in {"planned", "resolution_blocked"} => a.gen # 0
    BY <1>1, <2>2 DEF RunTruth, SameRunIn
  <2> HIDE DEF a
  <2>4. att' = [att EXCEPT ![v] = a]
    BY <1>6 DEF a
  <2> QED BY <1>0, <1>1, <1>3, <2>2, <2>3, <2>4, QuietWrite DEF QuietStep
<1> QED BY <1>0, <1>4, <1>5, <1>6
     DEF Probe, Commit, Escalate, RecordEscalation, Crash, ledgerVars

-----------------------------------------------------------------------------
(* The state of DispatchFence, and its steps on one visit. *)
FenceSteps == [Dispatch!FenceNext]_(Dispatch!fenceVars)

LEMMA KeptRuns == ASSUME RunsKept PROVE FenceSteps
  BY DEF RunsKept, FenceSteps, Dispatch!fenceVars

LEMMA RunMoves ==
  ASSUME NEW v \in Visits, Dispatch!PlanRun(v) \/ Dispatch!FenceRun(v) \/ Dispatch!SendRun(v)
  PROVE  FenceSteps
<1>1. Dispatch!FenceNext
  BY DEF Dispatch!FenceNext
<1> QED BY <1>1 DEF FenceSteps

(* A run is planned, or the admission ends without one. *)
LEMMA PlanNumbers ==
  ASSUME IInv, NEW p \in Pollers, AdmitPlan(p), NEW v \in Visits, op[p].v = v
  PROVE  FenceSteps /\ Local(p)' /\ \A w \in Visits : RunTruth(w)'
<1>0. att \in [Visits -> Attempts] /\ Local(p) /\ op[p].step = "plan" /\ calls' = calls
      /\ \A w \in Visits : RunTruth(w)
  BY TypeParts, IInvParts DEF IInv, AdmitPlan, routerVars
<1>1. v \in Visits /\ att[v] \in Attempts /\ att[v].gen \in Nat /\ lock = p
  BY <1>0, TypeParts DEF IInv, Idle, Attempts, Local, Holding
<1>2. CASE att' = att /\ Goto(p, Idle)
  <2>1. Local(p)'
    BY <1>2, IdleLocal DEF Idle
  <2> QED BY <1>0, <1>2, <2>1, NothingWritten, KeptRuns
<1>3. CASE \E c : Write(v, Planned(att[v], op[p].base, c)) /\ Goto(p, [step |-> "resolve", v |-> v])
                 /\ UNCHANGED lock
  <2>1. PICK c : Write(v, Planned(att[v], op[p].base, c)) /\ Goto(p, [step |-> "resolve", v |-> v])
                 /\ UNCHANGED lock
    BY <1>3
  <2> DEFINE a == Planned(att[v], op[p].base, c)
  <2>2. a.gen = att[v].gen + 1 /\ a.started = FALSE
    BY DEF Planned, NoAttempt
  <2> HIDE DEF a
  <2>3. att' = [att EXCEPT ![v] = a]
    BY <2>1 DEF Write, a
  <2>4. \A w \in Visits : att'[w] = IF w = v THEN a ELSE att[w]
    BY <1>0, <2>3
  <2>5. op'[p] = [step |-> "resolve", v |-> v]
    BY <2>1, TypeParts DEF Goto, IInv
  <2>6. Local(p)'
    BY <1>1, <2>1, <2>2, <2>4, <2>5 DEF Local, Holding
  <2>7. ASSUME NEW w \in Visits PROVE RunTruth(w)'
    <3>1. CASE w = v
      <4>1. ASSUME NEW g \in Gens, calls[v][g] > 0 PROVE g < att[v].gen + 1
        BY <1>0, <1>1, <4>1 DEF RunTruth, Gens
      <4> QED BY <1>0, <1>1, <2>2, <2>4, <3>1, <4>1 DEF RunTruth
    <3>2. CASE w # v
      BY <1>0, <2>4, <3>2 DEF RunTruth
    <3> QED BY <3>1, <3>2
  <2>8. Dispatch!PlanRun(v)
    BY <1>0, <1>1, <2>2, <2>4 DEF Dispatch!PlanRun
  <2>9. FenceSteps
    BY <1>1, <2>8, RunMoves
  <2> QED BY <2>6, <2>7, <2>9
<1> QED BY <1>0, <1>2, <1>3 DEF AdmitPlan

(* The write-ahead record fences the newest run. *)
LEMMA WriteAheadFences ==
  ASSUME IInv, NEW p \in Pollers, WriteAhead(p), NEW v \in Visits, op[p].v = v
  PROVE  FenceSteps /\ Local(p)' /\ \A w \in Visits : RunTruth(w)'
<1> DEFINE a == Started(att[v])
<1>0. att \in [Visits -> Attempts] /\ Local(p) /\ op[p].step = "fence" /\ calls' = calls
      /\ (\A w \in Visits : RunTruth(w)) /\ lock' = lock
  BY TypeParts, IInvParts DEF IInv, WriteAhead, routerVars
<1>1. v \in Visits /\ att[v] \in Attempts /\ lock = p /\ att[v].gen \in Gens
      /\ calls[v] \in [Gens -> Nat]
  BY <1>0, TypeParts DEF IInv, Idle, Attempts, Local, Holding, Gens, TypeInv, TypeOK
<1>2. op[p] \in [step : {"fence", "deliver", "record"}, v : Visits,
                 mode : {"admit", "recover", "continue"}]
  BY <1>0, TypeParts DEF IInv, Ops, Idle
<1>3. a.gen = att[v].gen /\ a.started /\ ~att[v].started
  BY <1>1 DEF Started, Attempts, WriteAhead
<1> HIDE DEF a
<1>4. \A w \in Visits : att'[w] = IF w = v THEN a ELSE att[w]
  BY <1>0 DEF WriteAhead, Write, a
<1>5. op'[p].step = "deliver" /\ op'[p].v = v
  BY <1>2, TypeParts DEF WriteAhead, Goto, IInv
<1>6. calls[v][att[v].gen] = 0
  <2>1. calls[v][att[v].gen] \in Nat
    BY <1>1
  <2>2. ~(calls[v][att[v].gen] > 0)
    <3>1. ~(att[v].gen < att[v].gen)
      BY <1>1, WorkflowAssumption DEF Gens
    <3> QED BY <1>0, <1>1, <1>3, <3>1 DEF RunTruth
  <2> QED BY <2>1, <2>2
<1>7. Local(p)'
  BY <1>0, <1>1, <1>3, <1>4, <1>5, <1>6 DEF Local, Holding, Gens
<1>8. ASSUME NEW w \in Visits PROVE RunTruth(w)'
  BY <1>0, <1>1, <1>3, <1>4 DEF RunTruth, Gens
<1>9. Dispatch!FenceRun(v)
  BY <1>0, <1>1, <1>3, <1>4 DEF Dispatch!FenceRun
<1>10. FenceSteps
  BY <1>1, <1>9, RunMoves
<1> QED BY <1>7, <1>8, <1>10

(* The Router is asked for the run that is fenced, for the first time. *)
LEMMA DeliverSends ==
  ASSUME IInv, NEW p \in Pollers, Deliver(p), NEW v \in Visits, op[p].v = v
  PROVE  FenceSteps /\ Local(p)' /\ \A w \in Visits : RunTruth(w)'
<1> DEFINE g == att[v].gen
<1>0. att \in [Visits -> Attempts] /\ Local(p) /\ op[p].step = "deliver"
      /\ (\A w \in Visits : RunTruth(w)) /\ calls \in [Visits -> [Gens -> Nat]]
  BY TypeParts, IInvParts DEF IInv, Deliver, TypeInv, TypeOK
<1>1. v \in Visits /\ att[v] \in Attempts /\ lock = p /\ g \in Gens
      /\ att[v].started /\ calls[v][g] = 0
  BY <1>0, TypeParts DEF IInv, Idle, Attempts, Local, Holding, Gens
<1>2. op[p] \in [step : {"fence", "deliver", "record"}, v : Visits,
                 mode : {"admit", "recover", "continue"}]
  BY <1>0, TypeParts DEF IInv, Ops, Idle
<1>3. calls' = [calls EXCEPT ![v] = [calls[v] EXCEPT ![g] = 1]]
  BY <1>0, <1>1 DEF Deliver
<1>4. \A w \in Visits : att'[w].gen = att[w].gen /\ att'[w].started = att[w].started
      /\ (att'[w].delivered \/ att'[w].phase \in {"planned", "resolution_blocked"}
            => att'[w].gen # 0)
  <2>1. CASE att' = att
    BY <1>0, <2>1 DEF RunTruth
  <2>2. CASE att' = [att EXCEPT ![v] = Failed(att[v])]
    <3>1. SameRunIn(Failed(att[v]), att[v])
      BY <1>1, EventKeeps
    <3>2. \A w \in Visits : att'[w] = IF w = v THEN Failed(att[v]) ELSE att[w]
      BY <1>0, <2>2
    <3>3. g # 0
      BY <1>1 DEF Gens
    <3> QED BY <1>0, <3>1, <3>2, <3>3 DEF SameRunIn, RunTruth
  <2> QED BY <2>1, <2>2 DEF Deliver, WriteAndLeave, Write
<1>5. Local(p)'
  <2>1. CASE Goto(p, [op[p] EXCEPT !.step = "record"]) /\ UNCHANGED lock
    <3>1. op'[p].step = "record" /\ op'[p].v = v
      BY <1>2, <2>1, TypeParts DEF Goto, IInv
    <3> QED BY <1>1, <1>4, <2>1, <3>1 DEF Local, Holding, Gens
  <2>2. CASE Goto(p, Idle)
    BY <2>2, IdleLocal DEF Idle
  <2> QED BY <2>1, <2>2 DEF Deliver, WriteAndLeave
<1>6. ASSUME NEW w \in Visits PROVE RunTruth(w)'
  <2>1. RunTruth(w)
    BY <1>0
  <2>2. CASE w = v
    <3>1. \A h \in Gens : calls'[v][h] = IF h = g THEN 1 ELSE calls[v][h]
      BY <1>0, <1>1, <1>3
    <3> QED BY <1>1, <1>4, <2>1, <2>2, <3>1 DEF RunTruth, Gens
  <2>3. CASE w # v
    <3>1. calls'[w] = calls[w]
      BY <1>0, <1>3, <2>3
    <3> QED BY <1>4, <2>1, <3>1 DEF RunTruth
  <2> QED BY <2>2, <2>3
<1>7. Dispatch!SendRun(v)
  BY <1>0, <1>1, <1>3, <1>4 DEF Dispatch!SendRun
<1> QED BY <1>1, <1>5, <1>6, <1>7, RunMoves

-----------------------------------------------------------------------------
(* Every step of a poller keeps the invariant and is a step of             *)
(* DispatchFence.                                                          *)
LEMMA PollerKeeps ==
  ASSUME IInv, NEW p \in Pollers, PollerStep(p)
  PROVE  FenceSteps /\ (\A q \in Pollers : Local(q)') /\ \A w \in Visits : RunTruth(w)'
<1>1. FenceSteps /\ Local(p)' /\ \A w \in Visits : RunTruth(w)'
  <2>1. CASE AdmitPlan(p) \/ WriteAhead(p) \/ Deliver(p)
    <3>1. op[p].step # "idle"
      BY <2>1 DEF AdmitPlan, WriteAhead, Deliver
    <3>2. PICK v \in Visits : op[p].v = v
      BY <3>1, TypeParts DEF IInv, Idle
    <3> QED BY <2>1, <3>2, PlanNumbers, WriteAheadFences, DeliverSends
  <2>2. CASE QuietStep(p)
    BY <2>2, KeptRuns DEF QuietStep
  <2> QED BY <2>1, <2>2, BeginIsQuiet, ResolveIsQuiet, RecordIsQuiet, PassIsQuiet
          DEF PollerStep, Continues
<1>2. ASSUME NEW q \in Pollers, q # p PROVE Local(q)'
  <2>1. Local(q)
    BY IInvParts
  <2>2. op'[q] = op[q] /\ (op[q].step \in Holding => lock' = lock /\ att' = att /\ calls' = calls)
    BY <1>2, Exclusion
  <2> QED BY <2>1, <2>2 DEF Local, Holding
<1> QED BY <1>1, <1>2

LEMMA InvStep == ASSUME IInv, [Next]_vars PROVE IInv' /\ FenceSteps
<1>1. CASE Next
  <2>1. TypeInv'
    BY <1>1, TypeStep
  <2>2. CASE \E p \in Pollers : PollerStep(p)
    BY <2>1, <2>2, PollerKeeps, IInvParts
  <2>3. CASE UNCHANGED <<att, lock, op, calls>>
    <3>1. FenceSteps /\ \A w \in Visits : RunTruth(w)'
      BY <2>3, NothingWritten, KeptRuns
    <3>2. \A p \in Pollers : Local(p)
      BY IInvParts
    <3>3. \A p \in Pollers : Local(p)'
      BY <2>3, <3>2 DEF Local
    <3> QED BY <2>1, <3>1, <3>3, IInvParts
  <2> QED BY <1>1, <2>2, <2>3
      DEF Next, PollerStep, WorldMoves, CaseMoves, TurnForgotten, RunEnds, ledgerVars, routerVars
<1>2. CASE UNCHANGED vars
  BY <1>2 DEF vars, IInv, TypeInv, TypeOK, LockHeld, RoomToPlan, Numbered, WriteAheadFence,
              ReadyToSend, FenceSteps, Dispatch!fenceVars
<1> QED BY <1>1, <1>2

LEMMA InvInit == Init => IInv
<1> SUFFICES ASSUME Init PROVE IInv
  OBVIOUS
<1>1. TypeInv
  BY InitType
<1>2. LockHeld /\ RoomToPlan /\ ReadyToSend
  BY DEF Init, Idle, LockHeld, RoomToPlan, ReadyToSend, Holding
<1>3. Numbered /\ WriteAheadFence
  BY DEF Init, Idle, NoAttempt, Numbered, WriteAheadFence
<1> QED BY <1>1, <1>2, <1>3 DEF IInv

(* The ledger, the lock, the operations and the records keep their types   *)
(* through every step of every poller.                                     *)
THEOREM TypeCorrect == Spec => []TypeOK
<1>1. IInv => TypeOK
  BY DEF IInv, TypeInv
<1> QED BY <1>1, InvInit, InvStep, PTL DEF Spec

(* Whatever the Router has been asked to run is fenced in the ledger.      *)
THEOREM WriteAheadCorrect == Spec => []WriteAheadFence
<1>1. IInv => WriteAheadFence
  BY DEF IInv
<1> QED BY <1>1, InvInit, InvStep, PTL DEF Spec

(* The engine implements DispatchFence: each run is asked for at most      *)
(* once, after its fence, and only while it is the newest of its visit.    *)
THEOREM DispatchCorrect == Spec => DispatchImplemented
<1>1. Init => Dispatch!FenceInit
  BY DEF Init, NoAttempt, Dispatch!FenceInit
<1>2. IInv /\ [Next]_vars => [Dispatch!FenceNext]_(Dispatch!fenceVars)
  BY InvStep DEF FenceSteps
<1> QED BY <1>1, <1>2, InvInit, InvStep, PTL
    DEF Spec, DispatchImplemented, Dispatch!FenceSpec

-----------------------------------------------------------------------------
(* Safety: the runs of a visit never overlap, the ledger's verdicts are    *)
(* true and final, a resolved case authorises one run, the attempt limit   *)
(* holds, and no event is appended to a torn line.                         *)

Terminal == {"SETTLED", "NEEDS_REVIEW"}

(* A snapshot of an attempt is of one the ledger has had. *)
Snapshot(seen, a) == seen.gen <= a.gen /\ (seen.gen = a.gen => seen.resume = a.resume)

(* A verdict that says the business commitment was seen. *)
Commits(w) ==
  \/ w.kind = "reconciled" /\ w.judgment = "business_commitment_observed"
  \/ w.kind = "readback" /\ w.result = "closed"

(* The cases that authorised the runs of a visit so far: each is requested *)
(* before the newest run was based, and none is there twice.               *)
CasesSpent(v) ==
  /\ \A i \in DOMAIN used[v] :
       used[v][i] \in DOMAIN cases[v] /\ cases[v][used[v][i]].req <= att[v].base
  /\ \A i, j \in DOMAIN used[v] : used[v][i] = used[v][j] => i = j

(* The limit, and how often the visit has asked for its owner: an attempt  *)
(* that has lost the mark of its escalation is one an owner has resumed.   *)
LimitKept(v) ==
  LET a == att[v] IN
  /\ a.gen > LimitOf(v) => a.resume
  /\ v \in Managed => a.gen <= LimitOf(v)
  /\ wakes[v] = 1 => a.gen >= LimitOf(v)
  /\ wakes[v] = 1 => a.escalated \/ (v \notin Managed /\ a.resume)

(* What the invariant says of one visit. *)
VisitSafe(v) ==
  LET a == att[v] IN
  /\ a.state = "NONE" => a.gen = 0 /\ a.judgment = "none"
  /\ a.judgment = "stale_no_progress" => ~a.resume
  /\ a.judgment = "business_commitment_observed" => world[v] # "current"
  /\ \A g \in Gens : turn[v][g] = "pending" => g = a.gen
  /\ a.base <= ver[v]
  /\ CasesSpent(v)
  /\ LimitKept(v)

(* What it says of the operation a poller is in: what was true when the    *)
(* operation read it and must still be true when it is used.               *)
OpSafe(p) ==
  LET o == op[p]  v == o.v  a == att[v] IN
  /\ o.step \in Holding => tail = "clean"
  /\ o.step = "plan" =>
       /\ \A g \in Gens : turn[v][g] # "pending"
       /\ a.judgment \in {"none", "stale_no_progress", "run_ended_no_submission"}
       /\ ~o.resume \/ v \in Managed => a.gen + 1 <= LimitOf(v)
       /\ a.base <= o.base /\ o.base <= ver[v]
  /\ o.step \in {"resolve", "authorized", "fence", "deliver", "record"} => a.state = "ACTIVE"
  /\ o.step \in {"probe", "commit"} => o.seen.state # "SETTLED"
  /\ o.step \in {"probe", "commit", "escalate", "escalated"} => Snapshot(o.seen, a)
  /\ o.step = "commit" =>
       /\ o.verdict.kind = "reconciled" => o.seen.state = "ACTIVE"
       /\ o.verdict.kind = "stale" => ~o.seen.resume
       /\ Commits(o.verdict) => world[v] # "current"
  /\ o.step \in {"escalate", "escalated"} =>
       o.seen.gen >= LimitOf(v) /\ (o.seen.resume => v \in Managed)

HistoryType == used \in [Visits -> Seq(Nat)] /\ wakes \in [Visits -> {0, 1}]

SafeInv ==
  /\ HistoryType /\ ~corrupt
  /\ \A v \in Visits : VisitSafe(v)
  /\ \A p \in Pollers : OpSafe(p)

SInv == IInv /\ SafeInv

-----------------------------------------------------------------------------
(* What an event may make of visit v's attempt b, unless it plans a run.   *)
EventSafe(v, b, a) ==
  /\ a.gen = b.gen /\ a.base = b.base /\ a.resume = b.resume /\ (b.escalated => a.escalated)
  /\ a.state = "NONE" => b.state = "NONE" /\ a.judgment = b.judgment
  /\ a.judgment # b.judgment =>
       /\ a.judgment = "stale_no_progress" => ~a.resume
       /\ a.judgment = "business_commitment_observed" => world[v] # "current"
  /\ b.state \in Terminal =>
       a.state \in {"SETTLED", b.state} /\ (b.state = "SETTLED" => a.judgment = b.judgment)

(* What a step may do to the Router's turns and to svc-workflow. *)
Outside(v) ==
  /\ \A g \in Gens : turn'[v][g] = "pending" => turn[v][g] = "pending" \/ g = att[v].gen
  /\ world[v] # "current" => world'[v] # "current"
  /\ ver[v] <= ver'[v]
  /\ \A c \in DOMAIN cases[v] : c \in DOMAIN cases'[v] /\ cases'[v][c].req = cases[v][c].req

(* A visit's attempt is kept, or succeeded by the next one. *)
Grown(v) ==
  /\ \/ att'[v].gen = att[v].gen /\ att'[v].resume = att[v].resume
     \/ att'[v].gen = att[v].gen + 1
  /\ world[v] # "current" => world'[v] # "current"
  /\ ver[v] <= ver'[v]

(* TerminalIsFinal of one visit. *)
Final(v) ==
  /\ att[v].state \in {"SETTLED", "NEEDS_REVIEW"} /\ att'[v].gen = att[v].gen =>
       /\ att'[v].state \in {"SETTLED", att[v].state}
       /\ att[v].state = "SETTLED" => att'[v].judgment = att[v].judgment
  /\ att'[v].gen # att[v].gen =>
       /\ att'[v].gen = att[v].gen + 1
       /\ att[v].judgment \in {"none", "stale_no_progress", "run_ended_no_submission"}

VisitStep(v) == VisitSafe(v)' /\ Grown(v) /\ Final(v)

(* What is proved of every step of a poller. *)
SafeStep(p) ==
  /\ HistoryType' /\ ~corrupt'
  /\ \A v \in Visits : VisitStep(v)
  /\ OpSafe(p)'

-----------------------------------------------------------------------------
(* The typed parts of the state, and what the invariant says of them. *)
LEMMA Parts ==
  ASSUME SInv
  PROVE  /\ IInv /\ TypeInv /\ HistoryType /\ ~corrupt
         /\ att \in [Visits -> Attempts] /\ op \in [Pollers -> Ops] /\ ver \in [Visits -> Nat]
         /\ \A v \in Visits : VisitSafe(v) /\ att[v] \in Attempts /\ ver[v] \in Nat
         /\ \A p \in Pollers : OpSafe(p) /\ op[p] \in Ops
  BY TypeParts DEF SInv, SafeInv, IInv

LEMMA Counts ==
  ASSUME NEW a \in Attempts
  PROVE  a.gen \in Nat /\ a.base \in Nat /\ a.resume \in BOOLEAN /\ a.escalated \in BOOLEAN
         /\ a.started \in BOOLEAN /\ a.delivered \in BOOLEAN
  BY WorkflowAssumption DEF Attempts

LEMMA LimitType == ASSUME NEW v PROVE LimitOf(v) \in Nat \ {0}
  BY WorkflowAssumption DEF LimitOf

(* A visit on which nothing but such an event happens stays safe. *)
LEMMA VisitKept ==
  ASSUME SInv, NEW v \in Visits, att'[v] \in Attempts, ver'[v] \in Nat,
         EventSafe(v, att[v], att'[v]), Outside(v),
         used'[v] = used[v], wakes'[v] = wakes[v]
  PROVE  VisitStep(v)
<1> DEFINE b == att[v]  a == att'[v]
<1>1. VisitSafe(v) /\ b \in Attempts /\ ver[v] \in Nat
  BY Parts
<1>2. b.gen \in Nat /\ b.base \in Nat /\ a.gen = b.gen /\ a.base = b.base /\ a.resume = b.resume
      /\ LimitOf(v) \in Nat
  BY <1>1, Counts, LimitType DEF EventSafe
<1>3. CasesSpent(v)'
  BY <1>1, <1>2 DEF CasesSpent, VisitSafe, Outside
<1>4. LimitKept(v)'
  BY <1>1, <1>2 DEF LimitKept, VisitSafe, EventSafe, LimitOf
<1>5. a.base <= ver'[v]
  BY <1>1, <1>2 DEF VisitSafe, Outside
<1>6. VisitSafe(v)'
  BY <1>1, <1>2, <1>3, <1>4, <1>5 DEF VisitSafe, EventSafe, Outside
<1>7. Grown(v) /\ Final(v)
  BY <1>1, <1>2 DEF Grown, Final, EventSafe, Outside, Terminal
<1> QED BY <1>6, <1>7 DEF VisitStep

(* The state of the Router and of svc-workflow is left alone. *)
LEMMA OutsideKept ==
  ASSUME SInv, NEW v \in Visits, UNCHANGED <<turn, world, ver, cases>>
  PROVE  Outside(v)
<1>1. ver[v] \in Nat
  BY Parts
<1> QED BY <1>1 DEF Outside

(* No event: every visit stays safe. *)
LEMMA NoEvent ==
  ASSUME SInv, att' = att, used' = used, wakes' = wakes, corrupt' = corrupt,
         ver' \in [Visits -> Nat], \A v \in Visits : Outside(v)
  PROVE  HistoryType' /\ ~corrupt' /\ \A v \in Visits : VisitStep(v)
<1>1. HistoryType' /\ ~corrupt'
  BY Parts DEF HistoryType
<1>2. ASSUME NEW v \in Visits PROVE VisitStep(v)
  <2>1. EventSafe(v, att[v], att'[v])
    BY DEF EventSafe
  <2>2. att'[v] \in Attempts /\ ver'[v] \in Nat
    BY Parts
  <2> QED BY <2>1, <2>2, VisitKept
<1> QED BY <1>1, <1>2

(* One such event: every visit stays safe. *)
LEMMA OneEvent ==
  ASSUME SInv, NEW v \in Visits, NEW a \in Attempts, EventSafe(v, att[v], a),
         att' = [att EXCEPT ![v] = a], UNCHANGED <<used, wakes, worldVars>>,
         ~corrupt', \A w \in Visits : Outside(w)
  PROVE  HistoryType' /\ ~corrupt' /\ \A w \in Visits : VisitStep(w)
<1>1. HistoryType' /\ ~corrupt'
  BY Parts DEF HistoryType
<1>2. ASSUME NEW w \in Visits PROVE VisitStep(w)
  <2>1. att'[w] = IF w = v THEN a ELSE att[w]
    BY Parts
  <2>2. att'[w] \in Attempts /\ ver'[w] \in Nat
    BY <2>1, Parts DEF worldVars
  <2>3. EventSafe(w, att[w], att'[w])
    BY <2>1 DEF EventSafe
  <2> QED BY <2>2, <2>3, VisitKept DEF worldVars
<1> QED BY <1>1, <1>2

(* The events written of an ACTIVE attempt. *)
LEMMA ActiveEvents ==
  ASSUME NEW v \in Visits, NEW b \in Attempts, b.state = "ACTIVE"
  PROVE  /\ EventSafe(v, b, Blocked(b)) /\ EventSafe(v, b, Refused(b))
         /\ EventSafe(v, b, Started(b)) /\ EventSafe(v, b, Failed(b))
         /\ \A version : EventSafe(v, b, Delivered(b, version))
         /\ Started(b).state = "ACTIVE"
  BY DEF EventSafe, Terminal, Attempts, Blocked, Refused, Started, Failed, Delivered

(* A poller that goes back between operations has read nothing. *)
LEMMA IdleSafe == ASSUME NEW p, op'[p].step = "idle" PROVE OpSafe(p)'
  BY DEF OpSafe, Holding

LEMMA WentIdle ==
  ASSUME SInv, NEW p \in Pollers, Goto(p, Idle) PROVE OpSafe(p)'
<1>1. op'[p].step = "idle"
  BY Parts DEF Goto, Idle
<1> QED BY <1>1, IdleSafe

(* A poller that holds the lock is inside a mutation of a clean file. *)
LEMMA HoldsClean ==
  ASSUME SInv, NEW p \in Pollers, op[p].step \in Holding, NEW v, NEW a, Write(v, a)
  PROVE  ~corrupt'
  BY Parts DEF Write, OpSafe

(* What a poller has read stays true of visits that are kept or grow. *)
LEMMA OpKept ==
  ASSUME SInv, NEW p \in Pollers, op'[p] = op[p],
         ver' \in [Visits -> Nat], \A v \in Visits : att'[v] \in Attempts /\ Grown(v),
         op[p].step \in Holding =>
           /\ tail' = "clean" /\ att' = att
           /\ \A v \in Visits : \A g \in Gens : turn'[v][g] = "pending" => turn[v][g] = "pending"
  PROVE  OpSafe(p)'
<1> DEFINE o == op[p]  v == o.v
<1>1. OpSafe(p) /\ o \in Ops
  BY Parts
<1>2. CASE o = Idle
  BY <1>2, IdleSafe DEF Idle
<1>3. CASE o.step = "plan"
  <2>1. v \in Visits /\ o.base \in Nat /\ ver[v] \in Nat /\ ver'[v] \in Nat /\ att'[v] = att[v]
    BY <1>3, Parts DEF Ops, Idle, Holding
  <2>2. o.base <= ver'[v]
    BY <1>1, <1>3, <2>1 DEF OpSafe, Grown
  <2>3. \A g \in Gens : turn'[v][g] # "pending"
    BY <1>1, <1>3, <2>1 DEF OpSafe, Holding
  <2> QED BY <1>1, <1>3, <2>1, <2>2, <2>3 DEF OpSafe, Holding
<1>4. CASE o.step \in {"resolve", "authorized", "fence", "deliver", "record"}
  BY <1>1, <1>4 DEF OpSafe, Holding
<1>5. CASE o.step \in {"probe", "commit", "escalate", "escalated"}
  <2>1. v \in Visits /\ o.seen \in Attempts /\ o \notin {Idle}
    BY <1>1, <1>5 DEF Ops, Idle
  <2>2. att[v].gen \in Nat /\ att'[v].gen \in Nat /\ o.seen.gen \in Nat
    BY <2>1, Parts, Counts
  <2>3. Snapshot(o.seen, att'[v])
    BY <1>1, <1>5, <2>1, <2>2 DEF OpSafe, Grown, Snapshot
  <2> QED BY <1>1, <1>5, <2>1, <2>3 DEF OpSafe, Holding, Grown
<1> QED BY <1>1, <1>2, <1>3, <1>4, <1>5 DEF Ops

-----------------------------------------------------------------------------
(* A run may be numbered only while no run of the visit is in flight, and  *)
(* within the limit unless an owner resumes.                               *)
LEMMA MintSafe ==
  ASSUME SInv, NEW v \in Visits, NEW resume \in BOOLEAN, MayMint(v, att[v], resume)
  PROVE  /\ \A g \in Gens : turn[v][g] # "pending"
         /\ att[v].judgment \in {"none", "stale_no_progress", "run_ended_no_submission"}
         /\ ~resume \/ v \in Managed => att[v].gen + 1 <= LimitOf(v)
<1>1. VisitSafe(v) /\ att[v].gen \in Nat /\ LimitOf(v) \in Nat \ {0}
  BY Parts, Counts, LimitType
<1>2. CASE ~resume /\ att[v].state = "NONE"
  BY <1>1, <1>2 DEF VisitSafe, Gens
<1>3. CASE ~resume /\ StaleReentry(att[v]) /\ att[v].gen + 1 <= LimitOf(v)
           /\ Quiescent(turn[v][att[v].gen])
  BY <1>1, <1>3 DEF VisitSafe, StaleReentry, Quiescent
<1>4. CASE resume /\ OwnerResume(v, att[v]) /\ (v \in Managed => att[v].gen + 1 <= LimitOf(v))
  BY <1>1, <1>4 DEF VisitSafe, OwnerResume
<1> QED BY <1>2, <1>3, <1>4 DEF MayMint

(* A poller begins an operation, or refuses a recovery. *)
LEMMA BeginSafe ==
  ASSUME SInv, NEW p \in Pollers, NEW v \in Visits, NEW auto \in BOOLEAN,
         \/ AdmitBegin(p, v) \/ AdmitAtLimit(p, v) \/ ContinueResume(p, v) \/ Observe(p, v)
         \/ RecoverBegin(p, v, auto)
  PROVE  SafeStep(p)
<1>0. /\ op \in [Pollers -> Ops] /\ att \in [Visits -> Attempts] /\ VisitSafe(v)
      /\ att[v] \in Attempts /\ att[v].gen \in Nat /\ LimitOf(v) \in Nat \ {0}
      /\ ver[v] \in Nat /\ ~corrupt
  BY Parts, Counts, LimitType
<1>a. UNCHANGED <<turn, world, ver, cases, used, wakes, corrupt>>
  BY DEF AdmitBegin, AdmitAtLimit, ContinueResume, Observe, RecoverBegin, worldVars, routerVars,
         ledgerVars
<1>e. ~corrupt'
  BY <1>0, <1>a
<1>b. \A w \in Visits : Outside(w)
  BY <1>a, OutsideKept
<1>c. ver' \in [Visits -> Nat]
  BY <1>a, Parts
<1>d. att' = att => HistoryType' /\ ~corrupt' /\ \A w \in Visits : VisitStep(w)
  BY <1>a, <1>b, <1>c, NoEvent
<1>1. CASE AdmitBegin(p, v)
  <2>1. PICK resume \in BOOLEAN :
          /\ MayMint(v, att[v], resume)
          /\ op'[p] = [step |-> "plan", v |-> v, base |-> ver[v], resume |-> resume]
    BY <1>0, <1>1 DEF AdmitBegin, Goto
  <2>2. att' = att /\ tail' = "clean"
    BY <1>1 DEF AdmitBegin, Repair
  <2>3. /\ \A g \in Gens : turn[v][g] # "pending"
        /\ att[v].judgment \in {"none", "stale_no_progress", "run_ended_no_submission"}
        /\ ~resume \/ v \in Managed => att[v].gen + 1 <= LimitOf(v)
    BY <2>1, MintSafe
  <2>4. att[v].base <= ver[v] /\ ver[v] <= ver[v]
    BY <1>0 DEF VisitSafe
  <2>5. OpSafe(p)'
    BY <1>a, <2>1, <2>2, <2>3, <2>4 DEF OpSafe, LimitOf
  <2> QED BY <1>d, <2>2, <2>5 DEF SafeStep
<1>2. CASE AdmitAtLimit(p, v)
  <2>1. att' = att /\ op'[p] = [step |-> "escalate", v |-> v, seen |-> att[v]]
    BY <1>0, <1>2 DEF AdmitAtLimit, Goto
  <2>2. att[v].gen >= LimitOf(v)
    BY <1>0, <1>2 DEF AdmitAtLimit
  <2>3. att[v].resume => v \in Managed
    BY <1>0, <1>2 DEF AdmitAtLimit, VisitSafe, StaleReentry
  <2>4. Snapshot(att[v], att[v])
    BY <1>0 DEF Snapshot
  <2>5. OpSafe(p)'
    BY <2>1, <2>2, <2>3, <2>4 DEF OpSafe, Holding, LimitOf
  <2> QED BY <1>d, <2>1, <2>5 DEF SafeStep
<1>3. CASE ContinueResume(p, v)
  <2>1. /\ att' = att /\ tail' = "clean" /\ att[v].state = "ACTIVE"
        /\ op'[p] = [step |-> "fence", v |-> v, mode |-> "continue"]
    BY <1>0, <1>3 DEF ContinueResume, Goto, Repair
  <2>2. OpSafe(p)'
    BY <2>1 DEF OpSafe
  <2> QED BY <1>d, <2>1, <2>2 DEF SafeStep
<1>4. CASE Observe(p, v)
  <2>1. PICK t : op'[p] = [step |-> "probe", v |-> v, seen |-> att[v], turn |-> t]
    BY <1>0, <1>4 DEF Observe, Goto
  <2>2. att' = att /\ att[v].state # "SETTLED"
    BY <1>4 DEF Observe, ReadbackCategory, ledgerVars
  <2>3. Snapshot(att[v], att[v])
    BY <1>0 DEF Snapshot
  <2>4. OpSafe(p)'
    BY <2>1, <2>2, <2>3 DEF OpSafe, Holding
  <2> QED BY <1>d, <2>2, <2>4 DEF SafeStep
<1>5. CASE RecoverBegin(p, v, auto)
  <2>1. CASE Goto(p, [step |-> "authorized", v |-> v]) /\ att' = att
    <3>1. op'[p] = [step |-> "authorized", v |-> v] /\ tail' = "clean" /\ att[v].state = "ACTIVE"
      BY <1>0, <1>5, <2>1 DEF Goto, RecoverBegin, Repair
    <3>2. OpSafe(p)'
      BY <2>1, <3>1 DEF OpSafe
    <3> QED BY <1>d, <2>1, <3>2 DEF SafeStep
  <2>2. CASE att' = [att EXCEPT ![v] = Refused(att[v])] /\ op' = op
    <3>1. op'[p].step = "idle" /\ att[v].state = "ACTIVE"
      BY <1>5, <2>2 DEF RecoverBegin, Enters
    <3>2. Refused(att[v]) \in Attempts /\ EventSafe(v, att[v], Refused(att[v]))
      BY <1>0, <3>1, AttemptTypes, ActiveEvents
    <3>3. HistoryType' /\ ~corrupt' /\ \A w \in Visits : VisitStep(w)
      BY <1>a, <1>b, <1>e, <2>2, <3>2, OneEvent DEF worldVars
    <3> QED BY <3>1, <3>3, IdleSafe DEF SafeStep
  <2> QED BY <1>5, <2>1, <2>2 DEF RecoverBegin
<1> QED BY <1>1, <1>2, <1>3, <1>4, <1>5

-----------------------------------------------------------------------------
(* A planned run succeeds one that may have a successor, is based where    *)
(* the instance was read, and takes a case no earlier run has taken.       *)
LEMMA PlanVisit ==
  ASSUME SInv, NEW p \in Pollers, op[p].step = "plan", NEW v \in Visits, op[p].v = v,
         NEW c \in Nat,
         \/ c = 0 /\ ~op[p].resume /\ used' = used
         \/ /\ op[p].resume
            /\ c \in DOMAIN cases[v] /\ ValidEvidence(v, att[v], c, op[p].base)
            /\ used' = [used EXCEPT ![v] = Append(@, c)],
         att' = [att EXCEPT ![v] = Planned(att[v], op[p].base, c)],
         UNCHANGED <<turn, wakes, worldVars>>
  PROVE  HistoryType' /\ VisitStep(v)
<1> DEFINE a == Planned(att[v], op[p].base, c)  b == att[v]
<1>0. /\ VisitSafe(v) /\ OpSafe(p) /\ HistoryType /\ b \in Attempts /\ ver[v] \in Nat
      /\ b.gen \in Nat /\ b.base \in Nat /\ LimitOf(v) \in Nat \ {0}
      /\ att \in [Visits -> Attempts] /\ cases[v] \in Seq(Case)
  BY Parts, Counts, LimitType DEF TypeInv
<1>1. op[p].base \in Nat /\ op[p].resume \in BOOLEAN
  BY Parts DEF Ops, Idle
<1>2. /\ \A g \in Gens : turn[v][g] # "pending"
      /\ b.judgment \in {"none", "stale_no_progress", "run_ended_no_submission"}
      /\ ~op[p].resume \/ v \in Managed => b.gen + 1 <= LimitOf(v)
      /\ b.base <= op[p].base /\ op[p].base <= ver[v]
  BY <1>0 DEF OpSafe
<1>3. /\ a.gen = b.gen + 1 /\ a.base = op[p].base /\ a.resume = (c # 0) /\ a.escalated = FALSE
      /\ a.state = "ACTIVE" /\ a.judgment = "none"
  BY DEF Planned, NoAttempt
<1>4. att'[v] = a
  BY <1>0
<1> HIDE DEF a
<1>5. op[p].resume <=> c # 0
  BY <1>0
<1>c. \A k \in DOMAIN cases[v] : cases[v][k].req \in Nat /\ cases[v][k].res \in Nat
  <2>1. \A k \in DOMAIN cases[v] : cases[v][k] \in Case
    BY <1>0
  <2> QED BY <2>1 DEF Case
<1>6. LimitKept(v)'
  <2>1. LimitKept(v) /\ wakes'[v] = wakes[v]
    BY <1>0 DEF VisitSafe
  <2>2. c = 0 \/ v \in Managed => b.gen + 1 <= LimitOf(v)
    BY <1>2, <1>5
  <2>3. wakes[v] = 1 => b.gen >= LimitOf(v)
    BY <2>1 DEF LimitKept
  <2>4. ~(b.gen >= LimitOf(v) /\ b.gen + 1 <= LimitOf(v))
    BY <1>0
  <2>5. wakes[v] = 1 => c # 0 /\ v \notin Managed
    BY <2>2, <2>3, <2>4
  <2>6. /\ b.gen + 1 > LimitOf(v) => c # 0
        /\ b.gen >= LimitOf(v) => b.gen + 1 >= LimitOf(v)
    BY <1>0, <2>2
  <2>7. LimitOf(v)' = LimitOf(v)
    BY DEF LimitOf
  <2> QED BY <1>3, <1>4, <2>1, <2>2, <2>3, <2>5, <2>6, <2>7 DEF LimitKept
<1>7. HistoryType' /\ CasesSpent(v)'
  <2>1. CASE c = 0 /\ used' = used
    <3> QED BY <1>0, <1>1, <1>2, <1>3, <1>4, <1>c, <2>1
            DEF HistoryType, CasesSpent, VisitSafe, worldVars
  <2>2. CASE /\ c \in DOMAIN cases[v] /\ ValidEvidence(v, b, c, op[p].base)
             /\ used' = [used EXCEPT ![v] = Append(@, c)]
    <3> DEFINE u == used[v]
    <3>1. u \in Seq(Nat) /\ used'[v] = Append(u, c) /\ HistoryType'
      BY <1>0, <2>2 DEF HistoryType
    <3>3. cases[v][c].req > b.base /\ cases[v][c].req <= op[p].base
      BY <1>0, <1>1, <1>c, <2>2 DEF ValidEvidence
    <3>4. \A i \in DOMAIN u : /\ u[i] \in DOMAIN cases[v] /\ cases[v][u[i]].req <= b.base
                              /\ cases[v][u[i]].req <= op[p].base /\ u[i] # c
      BY <1>0, <1>1, <1>2, <1>c, <3>3 DEF VisitSafe, CasesSpent
    <3>5. \A i, j \in DOMAIN u : u[i] = u[j] => i = j
      BY <1>0 DEF VisitSafe, CasesSpent
    <3> HIDE DEF u
    <3>6. /\ DOMAIN Append(u, c) = DOMAIN u \cup {Len(u) + 1}
          /\ Append(u, c)[Len(u) + 1] = c
          /\ \A i \in DOMAIN u : Append(u, c)[i] = u[i]
      BY <3>1
    <3>7. \A i \in DOMAIN Append(u, c) :
            Append(u, c)[i] \in DOMAIN cases[v] /\ cases[v][Append(u, c)[i]].req <= op[p].base
      BY <2>2, <3>3, <3>4, <3>6
    <3>8. \A i, j \in DOMAIN Append(u, c) : Append(u, c)[i] = Append(u, c)[j] => i = j
      BY <3>4, <3>5, <3>6
    <3>9. CasesSpent(v)'
      BY <1>3, <1>4, <3>1, <3>7, <3>8 DEF CasesSpent, worldVars
    <3> QED BY <3>1, <3>9
  <2> QED BY <2>1, <2>2
<1>8. VisitSafe(v)'
  BY <1>2, <1>3, <1>4, <1>6, <1>7 DEF VisitSafe, worldVars
<1>9. Grown(v) /\ Final(v)
  BY <1>0, <1>2, <1>3, <1>4 DEF Grown, Final, worldVars
<1> QED BY <1>7, <1>8, <1>9 DEF VisitStep

LEMMA PlanSafe == ASSUME SInv, NEW p \in Pollers, AdmitPlan(p) PROVE SafeStep(p)
<1> DEFINE o == op[p]
<1>0. /\ o.step = "plan" /\ OpSafe(p) /\ o \in Ops /\ op \in [Pollers -> Ops] /\ ~corrupt
      /\ tail' = tail /\ wakes' = wakes /\ att \in [Visits -> Attempts]
      /\ UNCHANGED <<turn, world, ver, cases>>
  BY Parts DEF AdmitPlan, worldVars, routerVars
<1>1. o.v \in Visits /\ o.resume \in BOOLEAN /\ tail' = "clean"
  BY <1>0 DEF Ops, Idle, OpSafe, Holding
<1>v. PICK v \in Visits : o.v = v
  BY <1>1
<1>2. ver' \in [Visits -> Nat] /\ (\A w \in Visits : Outside(w))
  BY <1>0, Parts, OutsideKept
<1>3. CASE Goto(p, Idle) /\ UNCHANGED <<att, corrupt, used>>
  BY <1>0, <1>2, <1>3, NoEvent, WentIdle DEF SafeStep
<1>4. CASE \E c \in Nat :
             /\ \/ c = 0 /\ ~o.resume /\ used' = used
                \/ /\ o.resume
                   /\ c \in DOMAIN cases[v] /\ ValidEvidence(v, att[v], c, o.base)
                   /\ used' = [used EXCEPT ![v] = Append(@, c)]
             /\ Write(v, Planned(att[v], o.base, c))
             /\ Goto(p, [step |-> "resolve", v |-> v])
  <2>1. PICK c \in Nat :
             /\ \/ c = 0 /\ ~o.resume /\ used' = used
                \/ /\ o.resume
                   /\ c \in DOMAIN cases[v] /\ ValidEvidence(v, att[v], c, o.base)
                   /\ used' = [used EXCEPT ![v] = Append(@, c)]
             /\ Write(v, Planned(att[v], o.base, c))
             /\ Goto(p, [step |-> "resolve", v |-> v])
    BY <1>4
  <2> DEFINE a == Planned(att[v], o.base, c)
  <2>2. att' = [att EXCEPT ![v] = a] /\ op'[p] = [step |-> "resolve", v |-> v]
    BY <1>0, <2>1 DEF Write, Goto
  <2>3. ~corrupt'
    BY <1>0, <2>1, HoldsClean DEF Holding
  <2>4. HistoryType' /\ VisitStep(v)
    BY <1>0, <1>v, <2>1, <2>2, PlanVisit DEF worldVars
  <2>5. a.state = "ACTIVE"
    BY DEF Planned, NoAttempt
  <2> HIDE DEF a
  <2>6. att'[v] = a /\ \A w \in Visits : w # v => att'[w] = att[w]
    BY <1>0, <2>2
  <2>7. ASSUME NEW w \in Visits, w # v PROVE VisitStep(w)
    <3>1. EventSafe(w, att[w], att'[w])
      BY <2>6, <2>7 DEF EventSafe
    <3>2. used'[w] = used[w] /\ wakes'[w] = wakes[w]
      BY <1>0, <2>1, <2>7, Parts DEF HistoryType
    <3>3. att'[w] \in Attempts /\ ver'[w] \in Nat
      BY <1>2, <2>6, <2>7, Parts
    <3> QED BY <1>2, <3>1, <3>2, <3>3, VisitKept
  <2>8. OpSafe(p)'
    BY <1>1, <2>2, <2>5, <2>6 DEF OpSafe
  <2> QED BY <2>3, <2>4, <2>7, <2>8 DEF SafeStep
<1>5. \A c \in DOMAIN cases[v] : c \in Nat /\ c # 0
  BY Parts DEF TypeInv
<1> QED BY <1>0, <1>v, <1>3, <1>4, <1>5 DEF AdmitPlan

(* One event of an ACTIVE attempt, by the poller that holds the lock. *)
LEMMA HolderWrites ==
  ASSUME SInv, NEW p \in Pollers, NEW a,
         op[p].step \in {"resolve", "authorized", "fence", "deliver", "record"},
         Write(op[p].v, a),
         LET b == att[op[p].v] IN
           \/ a \in {Blocked(b), Failed(b), Started(b)}
           \/ \E version \in Nat : a = Delivered(b, version),
         UNCHANGED <<used, wakes, worldVars>>, \A w \in Visits : Outside(w)
  PROVE  HistoryType' /\ ~corrupt' /\ \A w \in Visits : VisitStep(w)
<1> DEFINE v == op[p].v  b == att[v]
<1>1. v \in Visits /\ b \in Attempts /\ b.state = "ACTIVE"
  BY Parts DEF Ops, Idle, OpSafe
<1>2. a \in Attempts /\ EventSafe(v, b, a)
  BY <1>1, AttemptTypes, ActiveEvents
<1>3. ~corrupt'
  BY HoldsClean DEF Holding
<1>4. att' = [att EXCEPT ![v] = a]
  BY DEF Write
<1> QED BY <1>1, <1>2, <1>3, <1>4, OneEvent

(* The poller that holds the lock goes on with the same attempt. *)
LEMMA HolderGoesOn ==
  ASSUME SInv, NEW p \in Pollers,
         op[p].step \in {"resolve", "authorized", "fence", "deliver", "record"},
         op'[p].step \in {"fence", "deliver", "record"}, op'[p].v = op[p].v,
         tail' = tail, att'[op[p].v].state = "ACTIVE"
  PROVE  OpSafe(p)'
<1>1. tail = "clean"
  BY Parts DEF OpSafe, Holding
<1> QED BY <1>1 DEF OpSafe, Holding

LEMMA ResolveSafe ==
  ASSUME SInv, NEW p \in Pollers, AdmitResolve(p) \/ RecoverResolve(p)
  PROVE  SafeStep(p)
<1> DEFINE v == op[p].v
<1>0. /\ op[p].step \in {"resolve", "authorized"} /\ OpSafe(p) /\ op \in [Pollers -> Ops]
      /\ tail' = tail /\ UNCHANGED <<turn, world, ver, cases, used, wakes>>
  BY Parts DEF AdmitResolve, RecoverResolve, worldVars, routerVars
<1>1. ver' \in [Visits -> Nat] /\ (\A w \in Visits : Outside(w))
  BY <1>0, Parts, OutsideKept
<1>2. CASE UNCHANGED <<att, corrupt>>
           /\ \E mode : Goto(p, [step |-> "fence", v |-> v, mode |-> mode])
  <2>1. op'[p].step = "fence" /\ op'[p].v = v
    BY <1>0, <1>2 DEF Goto
  <2>2. att'[v].state = "ACTIVE"
    BY <1>0, <1>2 DEF OpSafe
  <2>3. OpSafe(p)'
    BY <1>0, <2>1, <2>2, HolderGoesOn
  <2> QED BY <1>0, <1>1, <1>2, <2>3, NoEvent DEF SafeStep
<1>3. CASE \E a \in {Blocked(att[v]), Failed(att[v])} : WriteAndLeave(p, v, a)
  <2>1. PICK a \in {Blocked(att[v]), Failed(att[v])} : Write(v, a) /\ Goto(p, Idle)
    BY <1>3 DEF WriteAndLeave
  <2>2. HistoryType' /\ ~corrupt' /\ \A w \in Visits : VisitStep(w)
    BY <1>0, <1>1, <2>1, HolderWrites DEF worldVars
  <2> QED BY <2>1, <2>2, WentIdle DEF SafeStep
<1> QED BY <1>2, <1>3 DEF AdmitResolve, RecoverResolve

(* The record before the call, the call, and the record after it. *)
LEMMA DispatchSafe ==
  ASSUME SInv, NEW p \in Pollers, WriteAhead(p) \/ Deliver(p) \/ RecordDelivered(p)
  PROVE  SafeStep(p)
<1> DEFINE o == op[p]  v == o.v  g == att[v].gen
<1>0. /\ o.step \in {"fence", "deliver", "record"} /\ OpSafe(p) /\ op \in [Pollers -> Ops]
      /\ tail' = tail /\ UNCHANGED <<world, ver, cases, used, wakes>>
  BY Parts DEF WriteAhead, Deliver, RecordDelivered, worldVars, routerVars
<1>1. o \in [step : {"fence", "deliver", "record"}, v : Visits,
             mode : {"admit", "recover", "continue"}]
  BY <1>0 DEF Ops, Idle
<1>2. /\ v \in Visits /\ att[v] \in Attempts /\ att[v].state = "ACTIVE" /\ ver[v] \in Nat
      /\ att \in [Visits -> Attempts] /\ ver' \in [Visits -> Nat]
  BY <1>0, <1>1, Parts DEF OpSafe
<1>3. \A w \in Visits : Outside(w)
  <2>1. CASE turn' = turn
    BY <1>0, <2>1, OutsideKept
  <2>2. CASE turn' = [turn EXCEPT ![v] = [turn[v] EXCEPT ![g] = "pending"]]
    <3> SUFFICES ASSUME NEW w \in Visits PROVE Outside(w)
      OBVIOUS
    <3>1. turn \in [Visits -> [Gens -> Turns]] /\ ver[w] \in Nat
      BY Parts DEF TypeInv, TypeOK, Turns
    <3>2. ASSUME NEW h \in Gens, turn'[w][h] = "pending"
          PROVE  turn[w][h] = "pending" \/ h = att[w].gen
      BY <1>2, <2>2, <3>1, <3>2
    <3> QED BY <1>0, <3>1, <3>2 DEF Outside
  <2> QED BY <2>1, <2>2 DEF WriteAhead, Deliver, RecordDelivered, routerVars
<1>4. CASE WriteAhead(p)
  <2>1. op'[p] = [o EXCEPT !.step = "deliver"] /\ Write(v, Started(att[v]))
    BY <1>0, <1>4 DEF WriteAhead, Goto
  <2>2. op'[p].step = "deliver" /\ op'[p].v = v
    BY <1>1, <2>1
  <2>3. att'[v].state = "ACTIVE"
    BY <1>2, <2>1, ActiveEvents DEF Write
  <2>4. OpSafe(p)'
    BY <1>0, <2>2, <2>3, HolderGoesOn
  <2>5. HistoryType' /\ ~corrupt' /\ \A w \in Visits : VisitStep(w)
    BY <1>0, <1>3, <2>1, HolderWrites DEF worldVars
  <2> QED BY <2>4, <2>5 DEF SafeStep
<1>5. CASE UNCHANGED <<att, corrupt>> /\ op'[p] = [o EXCEPT !.step = "record"]
  <2>1. op'[p].step = "record" /\ op'[p].v = v
    BY <1>1, <1>5
  <2>2. OpSafe(p)'
    BY <1>0, <1>2, <1>5, <2>1, HolderGoesOn
  <2> QED BY <1>0, <1>2, <1>3, <1>5, <2>2, NoEvent DEF SafeStep
<1>6. CASE UNCHANGED <<att, corrupt>> /\ Goto(p, Idle)
  BY <1>0, <1>2, <1>3, <1>6, NoEvent, WentIdle DEF SafeStep
<1>7. CASE WriteAndLeave(p, v, Failed(att[v]))
  <2>1. Write(v, Failed(att[v])) /\ Goto(p, Idle)
    BY <1>7 DEF WriteAndLeave
  <2>2. HistoryType' /\ ~corrupt' /\ \A w \in Visits : VisitStep(w)
    BY <1>0, <1>3, <2>1, HolderWrites DEF worldVars
  <2> QED BY <2>1, <2>2, WentIdle DEF SafeStep
<1>8. CASE \E version \in Nat : WriteAndLeave(p, v, Delivered(att[v], version))
  <2>1. PICK version \in Nat : Write(v, Delivered(att[v], version)) /\ Goto(p, Idle)
    BY <1>8 DEF WriteAndLeave
  <2>2. HistoryType' /\ ~corrupt' /\ \A w \in Visits : VisitStep(w)
    BY <1>0, <1>3, <2>1, HolderWrites DEF worldVars
  <2> QED BY <2>1, <2>2, WentIdle DEF SafeStep
<1>9. CASE Deliver(p)
  <2>1. \/ UNCHANGED <<att, corrupt>> /\ Goto(p, [o EXCEPT !.step = "record"])
        \/ UNCHANGED <<att, corrupt>> /\ Goto(p, Idle)
        \/ WriteAndLeave(p, v, Failed(att[v]))
    BY <1>9 DEF Deliver
  <2> QED BY <1>0, <1>5, <1>6, <1>7, <2>1 DEF Goto
<1>10. CASE RecordDelivered(p)
  BY <1>2, <1>8, <1>10 DEF RecordDelivered
<1> QED BY <1>4, <1>9, <1>10

-----------------------------------------------------------------------------
(* What a pass decides to record: an outcome of a run only for an ACTIVE   *)
(* attempt, staleness never for a resumed one, and the commitment only     *)
(* when the instance was seen to have left the visit.                      *)
LEMMA VerdictSafe ==
  ASSUME NEW v, NEW a, NEW t, NEW w \in Verdicts(v, a, t)
  PROVE  /\ w.kind = "reconciled" => a.state = "ACTIVE"
         /\ w.kind = "stale" => ~a.resume
         /\ Commits(w) => world[v] # "current"
<1> DEFINE ok(u) == /\ u.kind = "reconciled" => a.state = "ACTIVE"
                    /\ u.kind = "stale" => ~a.resume
                    /\ Commits(u) => world[v] # "current"
<1>1. ASSUME NEW u \in StaleVerdicts(v, a), ~a.resume PROVE ok(u)
  BY <1>1 DEF StaleVerdicts, Supersede, Readback, Commits
<1>2. ASSUME NEW u \in SettleVerdicts(v, a, t), a.state = "ACTIVE" PROVE ok(u)
  BY <1>2 DEF SettleVerdicts, Verdict, Commits
<1>3. ASSUME NEW category \in Pending, NEW u \in ReadbackVerdicts(v, a, category) PROVE ok(u)
  BY <1>3 DEF ReadbackVerdicts, Readback, Commits, Pending
<1>4. ASSUME NEW category \in Pending PROVE ok(Readback(category))
  BY <1>4 DEF Readback, Commits, Pending
<1>5. ASSUME a.state = "ACTIVE" PROVE ok(Verdict("NEEDS_REVIEW", "delivery_unverified"))
  BY <1>5 DEF Verdict, Commits
<1>6. ReadbackCategory(a) \in {"none"} \cup Pending
  BY DEF ReadbackCategory, Pending
<1> HIDE DEF ok
<1>7. ok(w)
  BY <1>1, <1>2, <1>3, <1>4, <1>5, <1>6 DEF Verdicts
<1> QED BY <1>7 DEF ok

LEMMA ProbeSafe == ASSUME SInv, NEW p \in Pollers, Probe(p) PROVE SafeStep(p)
<1> DEFINE o == op[p]  v == o.v  seen == o.seen
<1>0. /\ o.step = "probe" /\ OpSafe(p) /\ op \in [Pollers -> Ops]
      /\ UNCHANGED <<att, corrupt, used, wakes, turn, world, ver, cases>>
  BY Parts DEF Probe, ledgerVars, worldVars, routerVars
<1>1. HistoryType' /\ ~corrupt' /\ \A w \in Visits : VisitStep(w)
  BY <1>0, Parts, OutsideKept, NoEvent
<1>2. v \in Visits /\ Snapshot(seen, att[v]) /\ seen.state # "SETTLED"
  BY <1>0, Parts DEF OpSafe, Ops, Idle
<1>3. CASE \E w \in Verdicts(v, seen, o.turn) :
             Goto(p, [step |-> "commit", v |-> v, seen |-> seen, verdict |-> w])
  <2>1. PICK w \in Verdicts(v, seen, o.turn) :
             op'[p] = [step |-> "commit", v |-> v, seen |-> seen, verdict |-> w]
    BY <1>0, <1>3 DEF Goto
  <2>2. /\ w.kind = "reconciled" => seen.state = "ACTIVE"
        /\ w.kind = "stale" => ~seen.resume
        /\ Commits(w) => world[v] # "current"
    BY VerdictSafe
  <2>3. OpSafe(p)'
    BY <1>0, <1>2, <2>1, <2>2 DEF OpSafe, Holding
  <2> QED BY <1>1, <2>3 DEF SafeStep
<1>4. CASE /\ Goto(p, [step |-> "escalate", v |-> v, seen |-> seen])
           /\ AtLimit(v, seen) /\ \E w \in Verdicts(v, seen, o.turn) : w.kind = "stale"
  <2>1. op'[p] = [step |-> "escalate", v |-> v, seen |-> seen] /\ ~seen.resume
    BY <1>0, <1>4, VerdictSafe DEF Goto
  <2>2. OpSafe(p)'
    BY <1>0, <1>2, <1>4, <2>1 DEF OpSafe, Holding, AtLimit, LimitOf
  <2> QED BY <1>1, <2>2 DEF SafeStep
<1>5. CASE Goto(p, Idle)
  BY <1>1, <1>5, WentIdle DEF SafeStep
<1> QED BY <1>3, <1>4, <1>5 DEF Probe

(* A verdict is recorded only of the attempt it was formed for. *)
LEMMA VerdictEvent ==
  ASSUME NEW v, NEW b \in Attempts, NEW seen, NEW w \in VerdictRecords,
         Same(b, seen, w.kind), Snapshot(seen, b), seen.state # "SETTLED",
         w.kind = "reconciled" => seen.state = "ACTIVE",
         w.kind = "stale" => ~seen.resume,
         Commits(w) => world[v] # "current"
  PROVE  EventSafe(v, b, Apply(b, w))
<1>1. b.gen = seen.gen /\ b.state = seen.state /\ b.resume = seen.resume
  BY DEF Same, Snapshot
<1>2. CASE w.kind = "reconciled"
  <2>1. Apply(b, w) = Reconciled(b, w.state, w.judgment)
    BY <1>2 DEF Apply
  <2>2. w.state \in {"SETTLED", "NEEDS_REVIEW"} /\ w.judgment # "stale_no_progress"
    BY <1>2 DEF VerdictRecords
  <2> QED BY <1>1, <1>2, <2>1, <2>2 DEF EventSafe, Reconciled, Attempts, Terminal, Commits
<1>3. CASE w.kind = "stale"
  <2>1. Apply(b, w) = StaleSuperseded(b)
    BY <1>3 DEF Apply
  <2> QED BY <1>1, <1>3, <2>1 DEF EventSafe, StaleSuperseded, Attempts, Terminal
<1>4. CASE w.kind = "readback"
  <2>1. Apply(b, w) = ReadbackChecked(b, w.result)
    BY <1>4 DEF Apply
  <2>2. CASE w.result = "closed"
    BY <1>1, <1>4, <2>1, <2>2 DEF EventSafe, ReadbackChecked, Attempts, Terminal, Commits
  <2>3. CASE w.result # "closed"
    BY <1>1, <1>4, <2>1, <2>3 DEF EventSafe, ReadbackChecked, Attempts, Terminal
  <2> QED BY <2>2, <2>3
<1> QED BY <1>2, <1>3, <1>4 DEF VerdictRecords

LEMMA CommitSafe == ASSUME SInv, NEW p \in Pollers, Commit(p) PROVE SafeStep(p)
<1> DEFINE o == op[p]  v == o.v  seen == o.seen  w == o.verdict
<1>0. /\ o.step = "commit" /\ OpSafe(p) /\ op \in [Pollers -> Ops]
      /\ UNCHANGED <<corrupt, used, wakes, turn, world, ver, cases>>
  BY Parts DEF Commit, worldVars, routerVars
<1>1. /\ o \in [step : {"commit"}, v : Visits, seen : Attempts, verdict : VerdictRecords]
      /\ ver' \in [Visits -> Nat] /\ ~corrupt'
  BY <1>0, Parts DEF Ops, Idle
<1>2. /\ v \in Visits /\ att[v] \in Attempts /\ att \in [Visits -> Attempts]
      /\ w \in VerdictRecords
  BY <1>1, Parts
<1>3. \A u \in Visits : Outside(u)
  BY <1>0, OutsideKept
<1>4. CASE att' = att /\ Goto(p, Idle)
  BY <1>0, <1>1, <1>3, <1>4, NoEvent, WentIdle DEF SafeStep
<1>5. CASE /\ Same(att[v], seen, w.kind) /\ att' = [att EXCEPT ![v] = Apply(att[v], w)]
           /\ Goto(p, IF w.kind = "stale" /\ AtLimit(v, seen) /\ ~seen.escalated
                      THEN [step |-> "escalate", v |-> v, seen |-> seen] ELSE Idle)
  <2> DEFINE a == Apply(att[v], w)
  <2>1. a \in Attempts
    BY <1>2, ApplyKeeps
  <2>2. EventSafe(v, att[v], a)
    BY <1>0, <1>2, <1>5, VerdictEvent DEF OpSafe
  <2> HIDE DEF a
  <2>3. att' = [att EXCEPT ![v] = a]
    BY <1>5 DEF a
  <2>4. HistoryType' /\ ~corrupt' /\ \A u \in Visits : VisitStep(u)
    BY <1>0, <1>1, <1>2, <1>3, <2>1, <2>2, <2>3, OneEvent DEF worldVars
  <2>5. CASE Goto(p, Idle)
    BY <2>4, <2>5, WentIdle DEF SafeStep
  <2>6. CASE /\ w.kind = "stale" /\ AtLimit(v, seen)
             /\ Goto(p, [step |-> "escalate", v |-> v, seen |-> seen])
    <3>1. op'[p] = [step |-> "escalate", v |-> v, seen |-> seen]
      BY <1>0, <2>6 DEF Goto
    <3>2. att'[v] = a
      BY <1>2, <2>3
    <3>3. Snapshot(seen, att'[v])
      BY <1>0, <2>2, <3>2 DEF OpSafe, EventSafe, Snapshot
    <3>4. ~seen.resume
      BY <1>0, <2>6 DEF OpSafe
    <3>5. OpSafe(p)'
      BY <2>6, <3>1, <3>3, <3>4 DEF OpSafe, Holding, AtLimit, LimitOf
    <3> QED BY <2>4, <3>5 DEF SafeStep
  <2> QED BY <1>5, <2>5, <2>6
<1> QED BY <1>4, <1>5 DEF Commit

-----------------------------------------------------------------------------
(* svc-workflow moves on: versions grow, no case is forgotten. *)
LEMMA CasesGrow ==
  ASSUME SInv, NEW v \in Visits, UNCHANGED <<turn, world>>,
         ver' = [ver EXCEPT ![v] = @ + 1],
         \/ \E k \in Case : cases' = [cases EXCEPT ![v] = Append(@, k)]
         \/ \E c \in DOMAIN cases[v], n \in Nat : cases' = [cases EXCEPT ![v][c].res = n]
  PROVE  \A w \in Visits : Outside(w)
<1> SUFFICES ASSUME NEW w \in Visits PROVE Outside(w)
  OBVIOUS
<1>1. ver \in [Visits -> Nat] /\ ver[w] \in Nat /\ cases \in [Visits -> Seq(Case)]
  BY Parts DEF TypeInv
<1>2. ver[w] <= ver'[w]
  BY <1>1
<1>3. ASSUME NEW c \in DOMAIN cases[w]
      PROVE  c \in DOMAIN cases'[w] /\ cases'[w][c].req = cases[w][c].req
  <2>1. cases[w] \in Seq(Case) /\ cases[v] \in Seq(Case) /\ cases[w][c] \in Case
    BY <1>1
  <2>2. CASE \E k \in Case : cases' = [cases EXCEPT ![v] = Append(cases[v], k)]
    <3>1. PICK k \in Case : cases' = [cases EXCEPT ![v] = Append(cases[v], k)]
      BY <2>2
    <3>2. cases'[w] = IF w = v THEN Append(cases[v], k) ELSE cases[w]
      BY <1>1, <3>1
    <3> QED BY <2>1, <3>2
  <2>3. CASE \E d \in DOMAIN cases[v], n \in Nat :
               cases' = [cases EXCEPT ![v] = [cases[v] EXCEPT ![d] = [cases[v][d] EXCEPT !.res = n]]]
    <3>1. PICK d \in DOMAIN cases[v], n \in Nat :
               cases' = [cases EXCEPT ![v] = [cases[v] EXCEPT ![d] = [cases[v][d] EXCEPT !.res = n]]]
      BY <2>3
    <3>2. cases'[w] = IF w = v THEN [cases[v] EXCEPT ![d] = [cases[v][d] EXCEPT !.res = n]]
                      ELSE cases[w]
      BY <1>1, <3>1
    <3>3. [cases[w][c] EXCEPT !.res = n].req = cases[w][c].req
      BY <2>1 DEF Case
    <3> QED BY <2>1, <3>2, <3>3
  <2> QED BY <2>2, <2>3
<1> QED BY <1>2, <1>3 DEF Outside

LEMMA EscalateSafe == ASSUME SInv, TypeInv', NEW p \in Pollers, Escalate(p) PROVE SafeStep(p)
<1> DEFINE o == op[p]  v == o.v
<1>0. /\ o.step = "escalate" /\ OpSafe(p) /\ op \in [Pollers -> Ops]
      /\ UNCHANGED <<att, corrupt, used, wakes, turn>>
  BY Parts DEF Escalate, ledgerVars, routerVars
<1>1. o \in [step : {"escalate", "escalated"}, v : Visits, seen : Attempts]
  BY <1>0, Parts, EscalateOp
<1>2. v \in Visits /\ o.seen.gen \in Nat /\ ver[v] \in Nat /\ ver' \in [Visits -> Nat]
  BY <1>1, Parts, Counts, TypeParts, WorkflowAssumption DEF TypeInv, TypeOK
<1>3. \A w \in Visits : Outside(w)
  <2>1. CASE UNCHANGED <<world, ver, cases>>
    BY <1>0, <2>1, OutsideKept
  <2>2. CASE /\ world' = world /\ ver' = [ver EXCEPT ![v] = @ + 1]
             /\ cases' = [cases EXCEPT ![v] =
                            Append(@, [req |-> ver[v] + 1, res |-> 0, by |-> o.seen.gen])]
    <3>1. [req |-> ver[v] + 1, res |-> 0, by |-> o.seen.gen] \in Case
      BY <1>2 DEF Case
    <3> QED BY <1>0, <1>2, <2>2, <3>1, CasesGrow
  <2> QED BY <2>1, <2>2 DEF Escalate, worldVars
<1>4. HistoryType' /\ ~corrupt' /\ \A w \in Visits : VisitStep(w)
  BY <1>0, <1>2, <1>3, NoEvent
<1>5. CASE Goto(p, Idle)
  BY <1>4, <1>5, WentIdle DEF SafeStep
<1>6. CASE Goto(p, [o EXCEPT !.step = "escalated"])
  <2>1. op'[p].step = "escalated" /\ op'[p].v = v /\ op'[p].seen = o.seen
    BY <1>0, <1>1, <1>6 DEF Goto
  <2>2. OpSafe(p)'
    BY <1>0, <2>1 DEF OpSafe, Holding, LimitOf
  <2> QED BY <1>4, <2>2 DEF SafeStep
<1> QED BY <1>5, <1>6 DEF Escalate

(* The fact of an escalation is recorded once: it is gone from the attempt *)
(* only where an owner has resumed, and there nobody asks again.           *)
LEMMA RecordEscalationSafe ==
  ASSUME SInv, NEW p \in Pollers, RecordEscalation(p) PROVE SafeStep(p)
<1> DEFINE o == op[p]
<1>0. /\ o.step = "escalated" /\ OpSafe(p) /\ op \in [Pollers -> Ops] /\ Goto(p, Idle)
      /\ UNCHANGED <<corrupt, used, turn, world, ver, cases>> /\ ~corrupt'
  BY Parts DEF RecordEscalation, worldVars, routerVars
<1>1. o \in [step : {"escalate", "escalated"}, v : Visits, seen : Attempts]
  BY <1>0, Parts, EscalateOp
<1>v. PICK v \in Visits : o.v = v
  BY <1>1
<1> DEFINE b == att[v]
<1>2. /\ b \in Attempts /\ att \in [Visits -> Attempts] /\ HistoryType
      /\ VisitSafe(v) /\ ver' \in [Visits -> Nat] /\ b.gen \in Nat /\ LimitOf(v) \in Nat
  BY <1>0, Parts, Counts, LimitType
<1>3. \A w \in Visits : Outside(w)
  BY <1>0, OutsideKept
<1>4. CASE att' = att /\ wakes' = wakes
  BY <1>0, <1>2, <1>3, <1>4, NoEvent, WentIdle DEF SafeStep
<1>5. CASE /\ b.gen = o.seen.gen /\ ~b.escalated
           /\ att' = [att EXCEPT ![v] = [b EXCEPT !.escalated = TRUE]]
           /\ wakes' = [wakes EXCEPT ![v] = wakes[v] + 1]
  <2> DEFINE a == [b EXCEPT !.escalated = TRUE]
  <2>1. /\ a.gen = b.gen /\ a.base = b.base /\ a.resume = b.resume /\ a.escalated = TRUE
        /\ a.state = b.state /\ a.judgment = b.judgment /\ a \in Attempts
    BY <1>2 DEF Attempts
  <2> HIDE DEF a
  <2>2. \A w \in Visits : att'[w] = IF w = v THEN a ELSE att[w]
    BY <1>2, <1>5 DEF a
  <2>3. b.gen >= LimitOf(v) /\ (b.resume => v \in Managed)
    BY <1>0, <1>v, <1>5 DEF OpSafe, Snapshot
  <2>4. wakes[v] = 0
    BY <1>2, <1>5, <2>3 DEF VisitSafe, LimitKept, HistoryType
  <2>5. \A w \in Visits : wakes'[w] = IF w = v THEN 1 ELSE wakes[w]
    BY <1>2, <1>5, <2>4 DEF HistoryType
  <2>6. HistoryType'
    BY <1>0, <1>2, <1>5, <2>4 DEF HistoryType
  <2>7. ASSUME NEW w \in Visits, w # v PROVE VisitStep(w)
    <3>1. EventSafe(w, att[w], att'[w])
      BY <2>2, <2>7 DEF EventSafe
    <3>2. att'[w] \in Attempts /\ ver'[w] \in Nat
      BY <1>2, <2>2, <2>7
    <3> QED BY <1>0, <1>3, <2>5, <2>7, <3>1, <3>2, VisitKept
  <2>8. VisitStep(v)
    <3>1. att'[v] = a /\ wakes'[v] = 1 /\ UNCHANGED <<used, turn, world, ver, cases>>
      BY <1>0, <1>2, <2>2, <2>5
    <3>2. LimitKept(v)'
      BY <1>2, <2>1, <2>3, <3>1 DEF LimitKept, VisitSafe, LimitOf
    <3>3. CasesSpent(v)'
      BY <1>2, <2>1, <3>1 DEF CasesSpent, VisitSafe
    <3>4. VisitSafe(v)'
      BY <1>2, <2>1, <3>1, <3>2, <3>3 DEF VisitSafe
    <3>5. Grown(v) /\ Final(v)
      BY <1>2, <1>3, <2>1, <3>1 DEF Grown, Final, Outside
    <3> QED BY <3>4, <3>5 DEF VisitStep
  <2> QED BY <1>0, <2>6, <2>7, <2>8, WentIdle DEF SafeStep
<1> QED BY <1>v, <1>4, <1>5 DEF RecordEscalation

LEMMA CrashSafe == ASSUME SInv, NEW p \in Pollers, Crash(p) PROVE SafeStep(p)
<1>1. UNCHANGED <<att, corrupt, used, wakes, turn, world, ver, cases>> /\ Goto(p, Idle)
  BY DEF Crash, worldVars, routerVars
<1>2. \A w \in Visits : Outside(w)
  BY <1>1, OutsideKept
<1> QED BY <1>1, <1>2, Parts, NoEvent, WentIdle DEF SafeStep

-----------------------------------------------------------------------------
(* While a poller holds the lock, a step of another leaves the turns and a *)
(* clean file as they are.                                                 *)
LEMMA StillClean ==
  ASSUME IInv, NEW p \in Pollers, PollerStep(p), NEW q \in Pollers, q # p,
         op[q].step \in Holding, tail = "clean"
  PROVE  tail' = "clean" /\ turn' = turn
<1>1. lock = q /\ lock # None
  BY WorkflowAssumption DEF IInv, LockHeld
<1>2. op[p].step \notin Holding
  BY <1>1 DEF IInv, LockHeld
<1> QED BY <1>1, <1>2
    DEF PollerStep, Continues, Crash, AdmitPlan, AdmitResolve, WriteAhead, Deliver,
        RecordDelivered, RecoverResolve, Probe, Commit, Escalate, RecordEscalation, Enters,
        AdmitBegin, AdmitAtLimit, ContinueResume, Observe, RecoverBegin, Holding, Repair,
        ledgerVars, routerVars

(* A step of a poller keeps what the invariant says of every other. *)
LEMMA PollerSafe ==
  ASSUME SInv, TypeInv', NEW p \in Pollers, PollerStep(p)
  PROVE  SafeInv' /\ \A v \in Visits : Final(v)
<1>1. SafeStep(p)
  <2>1. CASE Continues(p)
    BY <2>1, PlanSafe, ResolveSafe, DispatchSafe, ProbeSafe, CommitSafe, EscalateSafe,
       RecordEscalationSafe DEF Continues
  <2>2. CASE Crash(p)
    BY <2>2, CrashSafe
  <2>3. CASE \E v \in Visits :
               \/ AdmitBegin(p, v) \/ AdmitAtLimit(p, v) \/ ContinueResume(p, v) \/ Observe(p, v)
               \/ \E auto \in BOOLEAN : RecoverBegin(p, v, auto)
    BY <2>3, BeginSafe
  <2> QED BY <2>1, <2>2, <2>3 DEF PollerStep
<1>2. \A v \in Visits : VisitSafe(v)' /\ Grown(v) /\ Final(v)
  BY <1>1 DEF SafeStep, VisitStep
<1>3. ver' \in [Visits -> Nat] /\ att' \in [Visits -> Attempts]
  BY WorkflowAssumption DEF TypeInv, TypeOK
<1>4. ASSUME NEW q \in Pollers, q # p PROVE OpSafe(q)'
  <2>1. op'[q] = op[q] /\ (op[q].step \in Holding => att' = att)
    BY <1>4, Parts, Exclusion
  <2>2. op[q].step \in Holding => tail' = "clean" /\ turn' = turn
    <3>1. op[q].step \in Holding => tail = "clean"
      BY Parts DEF OpSafe
    <3> QED BY <1>4, <3>1, Parts, StillClean
  <2> QED BY <1>2, <1>3, <2>1, <2>2, OpKept
<1> QED BY <1>1, <1>2, <1>4 DEF SafeStep, SafeInv

(* The end of a run and the moves of svc-workflow. *)
LEMMA OutsideSafe ==
  ASSUME SInv, TypeInv', UNCHANGED <<att, tail, op, corrupt, used, wakes>>,
         \A v \in Visits : Outside(v),
         \A v \in Visits : \A g \in Gens : turn'[v][g] = "pending" => turn[v][g] = "pending"
  PROVE  SafeInv' /\ \A v \in Visits : Final(v)
<1>1. ver' \in [Visits -> Nat] /\ att' \in [Visits -> Attempts]
  BY WorkflowAssumption DEF TypeInv, TypeOK
<1>2. HistoryType' /\ ~corrupt' /\ \A v \in Visits : VisitStep(v)
  BY <1>1, NoEvent
<1>3. ASSUME NEW q \in Pollers PROVE OpSafe(q)'
  <2>1. op[q].step \in Holding => tail' = "clean"
    BY Parts DEF OpSafe
  <2> QED BY <1>1, <1>2, <2>1, OpKept DEF VisitStep
<1> QED BY <1>2, <1>3 DEF SafeInv, VisitStep

LEMMA TurnMoves ==
  ASSUME SInv, NEW v \in Visits, NEW h, NEW t \in Turns \ {"pending"},
         turn' = [turn EXCEPT ![v][h] = t], UNCHANGED <<world, ver, cases>>
  PROVE  /\ \A w \in Visits : Outside(w)
         /\ \A w \in Visits : \A g \in Gens :
              turn'[w][g] = "pending" => turn[w][g] = "pending"
<1>1. turn \in [Visits -> [Gens -> Turns]]
  BY Parts DEF TypeInv, TypeOK, Turns
<1>2. ASSUME NEW w \in Visits, NEW g \in Gens, turn'[w][g] = "pending"
      PROVE  turn[w][g] = "pending"
  BY <1>1, <1>2
<1>3. ASSUME NEW w \in Visits PROVE Outside(w)
  <2>1. ver[w] \in Nat
    BY Parts
  <2> QED BY <1>2, <2>1 DEF Outside
<1> QED BY <1>2, <1>3

LEMMA SafeInit == Init => SafeInv
<1> SUFFICES ASSUME Init PROVE SafeInv
  OBVIOUS
<1>1. HistoryType /\ ~corrupt
  BY DEF Init, HistoryType
<1>2. ASSUME NEW v \in Visits PROVE VisitSafe(v)
  <2>1. att[v] = NoAttempt /\ used[v] = <<>> /\ wakes[v] = 0 /\ ver[v] = 1
        /\ \A g \in Gens : turn[v][g] = "never_existed"
    BY DEF Init
  <2>2. LimitOf(v) \in Nat \ {0}
    BY LimitType
  <2> QED BY <2>1, <2>2 DEF VisitSafe, CasesSpent, LimitKept, NoAttempt
<1>3. ASSUME NEW p \in Pollers PROVE OpSafe(p)
  BY DEF Init, Idle, OpSafe, Holding
<1> QED BY <1>1, <1>2, <1>3 DEF SafeInv

LEMMA SafeNext ==
  ASSUME SInv, [Next]_vars PROVE SInv' /\ [\A v \in Visits : Final(v)]_vars
<1>0. IInv' /\ TypeInv'
  BY InvStep DEF SInv, IInv
<1>1. CASE \E p \in Pollers : PollerStep(p)
  BY <1>0, <1>1, PollerSafe DEF SInv
<1>2. CASE \E v \in Visits : WorldMoves(v)
  <2>1. PICK v \in Visits : WorldMoves(v)
    BY <1>2
  <2>2. \A w \in Visits : Outside(w)
    <3>1. ver \in [Visits -> Nat] /\ world \in [Visits -> {"current", "terminal", "moved"}]
      BY Parts DEF TypeInv, TypeOK
    <3>2. ASSUME NEW w \in Visits PROVE ver[w] <= ver'[w] /\ (world[w] # "current" => world'[w] # "current")
      BY <2>1, <3>1 DEF WorldMoves
    <3> QED BY <2>1, <3>2 DEF Outside, WorldMoves, routerVars
  <2> QED BY <1>0, <2>1, <2>2, OutsideSafe DEF WorldMoves, SInv, ledgerVars, routerVars
<1>3. CASE \E v \in Visits : CaseMoves(v)
  <2>1. PICK v \in Visits : CaseMoves(v)
    BY <1>3
  <2>2. \A w \in Visits : Outside(w)
    <3>1. ver[v] + 1 \in Nat
      BY Parts
    <3>2. [req |-> ver[v] + 1, res |-> 0, by |-> 0] \in Case
      BY <3>1 DEF Case
    <3>3. \/ \E k \in Case : cases' = [cases EXCEPT ![v] = Append(@, k)]
          \/ \E c \in DOMAIN cases[v], n \in Nat : cases' = [cases EXCEPT ![v][c].res = n]
      BY <2>1, <3>1, <3>2 DEF CaseMoves
    <3> QED BY <2>1, <3>3, CasesGrow DEF CaseMoves, routerVars
  <2> QED BY <1>0, <2>1, <2>2, OutsideSafe DEF CaseMoves, SInv, ledgerVars, routerVars
<1>4. CASE \E v \in Visits : TurnForgotten(v) \/ \E g \in Gens : RunEnds(v, g)
  <2>1. PICK v \in Visits : TurnForgotten(v) \/ \E g \in Gens : RunEnds(v, g)
    BY <1>4
  <2>2. \E h : \E t \in Turns \ {"pending"} : turn' = [turn EXCEPT ![v][h] = t]
    BY <2>1 DEF TurnForgotten, RunEnds, Turns
  <2> QED BY <1>0, <2>1, <2>2, TurnMoves, OutsideSafe
          DEF TurnForgotten, RunEnds, SInv, ledgerVars, worldVars
<1>5. CASE UNCHANGED vars
  <2>1. SafeInv'
    BY <1>5 DEF vars, SInv, SafeInv, HistoryType, VisitSafe, CasesSpent, LimitKept, OpSafe
  <2> QED BY <1>0, <1>5, <2>1 DEF SInv
<1> QED BY <1>1, <1>2, <1>3, <1>4, <1>5 DEF Next, PollerStep

-----------------------------------------------------------------------------
LEMMA SafeAlways == Spec => []SInv
<1>1. Init => SInv
  BY InvInit, SafeInit DEF SInv
<1>2. SInv /\ [Next]_vars => SInv'
  BY SafeNext
<1> QED BY <1>1, <1>2, PTL DEF Spec

(* Two runs of a node visit are never in flight together, however many     *)
(* pollers admit, recover and reconcile and wherever they crash.           *)
THEOREM OneRunAtATime == Spec => []OneLiveRun
<1>1. SInv => OneLiveRun
  <2> SUFFICES ASSUME SInv, NEW v \in Visits
               PROVE  Cardinality({g \in Gens : turn[v][g] = "pending"}) <= 1
    BY DEF OneLiveRun
  <2>1. {g \in Gens : turn[v][g] = "pending"} \subseteq {att[v].gen}
    BY Parts DEF VisitSafe
  <2>2. IsFiniteSet({att[v].gen}) /\ Cardinality({att[v].gen}) = 1
    BY FS_Singleton
  <2> QED BY <2>1, <2>2, FS_Subset, FS_CardinalityType
<1> QED BY <1>1, SafeAlways, PTL

(* A commitment in the ledger is one that was made in svc-workflow.        *)
THEOREM CommitmentIsTrue == Spec => []CommitmentTruth
<1>1. SInv => CommitmentTruth
  BY Parts DEF CommitmentTruth, VisitSafe
<1> QED BY <1>1, SafeAlways, PTL

(* No resolved case authorises two runs, though the ledger remembers only  *)
(* the last one.                                                           *)
THEOREM CasesUsedOnce == Spec => []CaseUsedOnce
<1>1. SInv => CaseUsedOnce
  BY Parts DEF CaseUsedOnce, VisitSafe, CasesSpent
<1> QED BY <1>1, SafeAlways, PTL

(* The limit on attempts is held, and a visit asks for its owner once.     *)
THEOREM LimitIsHeld == Spec => []LimitHeld
<1>1. SInv => LimitHeld
  <2> SUFFICES ASSUME SInv, NEW v \in Visits PROVE LimitKept(v) /\ wakes[v] <= 1
    BY DEF LimitHeld, LimitKept
  <2>1. wakes[v] \in {0, 1}
    BY Parts DEF HistoryType
  <2>2. wakes[v] <= 1
    BY <2>1
  <2> QED BY <2>2, Parts DEF VisitSafe
<1> QED BY <1>1, SafeAlways, PTL

(* Whatever a crash leaves at the end of the file, it is sealed before the *)
(* next event.                                                             *)
THEOREM TailIsSealed == Spec => []TailSealed
<1>1. SInv => TailSealed
  BY Parts DEF TailSealed
<1> QED BY <1>1, SafeAlways, PTL

(* A terminal attempt stays terminal and a settled one keeps its judgment  *)
(* within its generation.                                                  *)
THEOREM VerdictsAreFinal == Spec => TerminalIsFinal
<1>1. SInv /\ [Next]_vars => [\A v \in Visits : Final(v)]_vars
  BY SafeNext
<1> QED BY <1>1, SafeAlways, PTL DEF Spec, TerminalIsFinal, Final

=============================================================================
