---------------------------- MODULE SlotAccounting ----------------------------
(***************************************************************************)
(* Slot accounting of the scheduler                                        *)
(* (packages/scheduler/src/watchdog/slot-accounting.js and the recording   *)
(* paths of scheduler.js): every elapsed slot of an enabled job is to end  *)
(* in an occurrence or in a durable record of why it did not run.          *)
(*                                                                         *)
(* Jobs are accounted for one by one and share no state, so this module    *)
(* follows one recurring job without automatic retries.  An engine session *)
(* keeps a cursor, the newest slot it has accounted for; the records are   *)
(* appended to a log on disk, and an append may fail.                      *)
(***************************************************************************)
EXTENDS Naturals, FiniteSets

CONSTANTS
  Slots,        \* nominal slot times of the job
  RefireGap,    \* MIN_REFIRE_GAP_MS
  MaxBackfill,  \* MAX_BACKFILL_SLOTS
  AppendFails,  \* whether an append to the run log may fail
  Catchups,     \* values the catchup option of start() may have
  MaxTime,      \* bound on the clock
  MaxSessions   \* bound on engine sessions

Times == 0..MaxTime

VARIABLES
  now,         \* the clock
  enabled,     \* job.enabled
  activation,  \* job.revisionActivatedAtMs
  created,     \* slots that have an occurrence
  open,        \* whether the latest occurrence has no terminal record
  lastEnd,     \* operational end of the latest terminal occurrence, 0 if none
  log,         \* durable records <<slot, classification, session>>
  engine,      \* phase of the engine
  session,     \* number of the engine session
  cursor,      \* newest slot accounted for in this session, 0 if none
  todo,        \* missed slots the downtime loop has not handled yet
  cand         \* slot of the candidate being reserved, 0 if none

vars == <<now, enabled, activation, created, open, lastEnd, log, engine, session,
          cursor, todo, cand>>

job == <<now, enabled, activation, created, open, lastEnd>>

Classes == {"ADMISSION_REJECTED", "SKIPPED_POLICY", "MISSED_BEFORE_OCCURRENCE", "ENGINE_HALTED"}

Greatest(S) == CHOOSE s \in S : \A t \in S : t <= s

Newer(S, s) == {t \in S : t > s}

-----------------------------------------------------------------------------
Elapsed == {s \in Slots : s <= now}

(* latestPastSlot; 0 when no slot has elapsed *)
Latest == IF Elapsed = {} THEN 0 ELSE Greatest(Elapsed)

(* jobSlotAccountingFloorMs, naturalLowerBoundMs and the lower bound of    *)
(* accountDowntimeSlots: activation, or the last end and the refire gap.   *)
Floor ==
  LET gapFloor == IF lastEnd = 0 THEN 0 ELSE lastEnd + RefireGap
  IN  IF gapFloor > activation THEN gapFloor ELSE activation

(* naturalCandidate under the checks of the tick *)
Due(s) == enabled /\ ~open /\ s = Latest /\ s > Floor

(* enumerateElapsedSlots above the floor: the newest MaxBackfill + 1. *)
Enumerated == {s \in Elapsed : s > Floor /\ Cardinality(Newer(Elapsed, s)) <= MaxBackfill}

(* accountDowntimeSlots: the newest is left to the catch-up. *)
Missed == IF enabled /\ ~open THEN {s \in Enumerated : s # Latest} ELSE {}

(* Mutant: the cursor moves whether or not the append succeeded. *)
AppendMarkMut(s, class, ok) ==
  /\ ok \/ AppendFails
  /\ log' = IF ok THEN log \cup {<<s, class, session>>} ELSE log
  /\ cursor' = s

(* Mutant: the cursor is never moved by a record. *)
AppendNoMarkMut(s, class, ok) ==
  /\ ok \/ AppendFails
  /\ log' = IF ok THEN log \cup {<<s, class, session>>} ELSE log
  /\ UNCHANGED cursor

(* recordSlotAccounting, and the cursor that moves when it succeeded. *)
Append(s, class, ok) ==
  /\ ok \/ AppendFails
  /\ log' = IF ok THEN log \cup {<<s, class, session>>} ELSE log
  /\ cursor' = IF ok THEN s ELSE cursor

(* _recordSlot: once per session, and only slots above the floor. *)
RecordSlot(s, class, ok) ==
  IF s > cursor /\ s > Floor THEN Append(s, class, ok) ELSE UNCHANGED <<log, cursor>>

-----------------------------------------------------------------------------
(* start(): the recovery sweep leaves an open occurrence open (as an       *)
(* unknown), then the downtime loop, on the document of the sweep.         *)
Start ==
  /\ engine = "down" /\ session < MaxSessions
  /\ engine' = "account"
  /\ session' = session + 1
  /\ cursor' = 0
  /\ todo' = Missed
  /\ cand' = 0
  /\ UNCHANGED <<job, log>>

(* One iteration of the loop over the missed slots, newest first. *)
AccountMissed(ok) ==
  /\ engine = "account" /\ todo # {}
  /\ LET s == Greatest(todo) IN
       /\ todo' = todo \ {s}
       /\ IF s > cursor THEN Append(s, "MISSED_BEFORE_OCCURRENCE", ok)
          ELSE UNCHANGED <<log, cursor>>
  /\ UNCHANGED <<job, engine, session, cand>>

AccountDone ==
  /\ engine = "account" /\ todo = {}
  /\ \E catchup \in Catchups : engine' = IF catchup THEN "catchup" ELSE "idle"
  /\ UNCHANGED <<job, log, session, cursor, todo, cand>>

(* A reservation that succeeds. *)
Admitted(s) ==
  /\ created' = created \cup {s}
  /\ open' = TRUE
  /\ UNCHANGED <<now, enabled, activation, lastEnd>>

(* _startupCatchup: the cursor is not moved. *)
Catchup ==
  /\ engine = "catchup"
  /\ engine' = "idle"
  /\ IF Due(Latest) THEN Admitted(Latest) ELSE UNCHANGED job
  /\ UNCHANGED <<log, session, cursor, todo, cand>>

(* _tickOnce, the scan: a slot that is not run is recorded. *)
TickSkip(ok) ==
  /\ engine = "idle" /\ enabled /\ ~Due(Latest)
  /\ RecordSlot(Latest, "SKIPPED_POLICY", ok)
  /\ UNCHANGED <<job, engine, session, todo, cand>>

TickScan ==
  /\ engine = "idle" /\ Due(Latest)
  /\ engine' = "reserve"
  /\ cand' = Latest
  /\ UNCHANGED <<job, log, session, cursor, todo>>

(* _tickOnce, the admission: decided again under the lock; a refusal is    *)
(* recorded, an admission moves the cursor.                                *)
Reserve(ok) ==
  /\ engine = "reserve"
  /\ engine' = "idle"
  /\ cand' = 0
  /\ IF Due(cand)
     THEN Admitted(cand) /\ cursor' = (IF cand > cursor THEN cand ELSE cursor) /\ UNCHANGED log
     ELSE RecordSlot(cand, "ADMISSION_REJECTED", ok) /\ UNCHANGED job
  /\ UNCHANGED <<session, todo>>

(* A tick that finds the lease lost: the last act of this session. *)
TickHalted(ok) ==
  /\ engine = "idle" /\ engine' = "halted"
  /\ IF enabled THEN RecordSlot(Latest, "ENGINE_HALTED", ok) ELSE UNCHANGED <<log, cursor>>
  /\ UNCHANGED <<job, session, todo, cand>>

(* A crash or a stop; the cursor is volatile. *)
Crash ==
  /\ engine # "down"
  /\ engine' = "down" /\ todo' = {} /\ cand' = 0
  /\ UNCHANGED <<job, log, session, cursor>>

-----------------------------------------------------------------------------
(* The occurrence gets its terminal record (occurrence engine). *)
Settle ==
  /\ open /\ open' = FALSE
  /\ lastEnd' = now
  /\ UNCHANGED <<now, enabled, activation, created, log, engine, session, cursor, todo, cand>>

(* enableJobOp, disableJobOp *)
Toggle ==
  /\ enabled' = ~enabled
  /\ activation' = IF enabled THEN activation ELSE now
  /\ UNCHANGED <<now, created, open, lastEnd, log, engine, session, cursor, todo, cand>>

Advance ==
  /\ now < MaxTime /\ now' = now + 1
  /\ UNCHANGED <<enabled, activation, created, open, lastEnd, log, engine, session, cursor, todo, cand>>

Init ==
  /\ now = 0 /\ enabled = TRUE /\ activation = 0
  /\ created = {} /\ open = FALSE /\ lastEnd = 0
  /\ log = {}
  /\ engine = "down" /\ session = 0 /\ cursor = 0 /\ todo = {} /\ cand = 0

Record(ok) == AccountMissed(ok) \/ TickSkip(ok) \/ Reserve(ok) \/ TickHalted(ok)

Next ==
  \/ Start \/ AccountDone \/ Catchup \/ TickScan \/ Crash
  \/ \E ok \in BOOLEAN : Record(ok)
  \/ Settle \/ Toggle \/ Advance

Spec == Init /\ [][Next]_vars

(* The timer keeps ticking, and an append that is tried again and again    *)
(* succeeds at last.  No fairness of the clock: it may rest at any time.   *)
FairSpec ==
  /\ Spec
  /\ SF_vars(AccountMissed(TRUE)) /\ WF_vars(AccountDone) /\ WF_vars(Catchup)
  /\ WF_vars(TickScan) /\ SF_vars(TickSkip(TRUE)) /\ SF_vars(Reserve(TRUE))
-----------------------------------------------------------------------------
TypeOK ==
  /\ now \in Times /\ enabled \in BOOLEAN /\ activation \in Times
  /\ created \subseteq Slots /\ open \in BOOLEAN /\ lastEnd \in Times
  /\ log \subseteq Slots \X Classes \X (1..MaxSessions)
  /\ engine \in {"down", "account", "catchup", "idle", "reserve", "halted"}
  /\ session \in 0..MaxSessions
  /\ cursor \in Slots \cup {0} /\ todo \subseteq Slots /\ cand \in Slots \cup {0}

Recorded == {r[1] : r \in log}

(* A slot that was written off as missed never runs: the downtime loop     *)
(* leaves the one slot that catch-up or the first tick may still admit.    *)
MissedNeverRuns ==
  \A r \in log : r[2] = "MISSED_BEFORE_OCCURRENCE" => r[1] \notin created

(* Within one engine session a slot is recorded at most once, whatever the *)
(* mixture of downtime loop, skips, refusals and failed appends.           *)
RecordedOncePerSession ==
  \A r, q \in log : r[1] = q[1] /\ r[3] = q[3] => r = q

(* While an engine is up, the newest elapsed slot of an enabled job is     *)
(* accounted for in the end, failed appends notwithstanding, unless it is  *)
(* overtaken (by a newer slot, a run that ends later, the job's disabling, *)
(* or the end of the engine).                                              *)
NewestSlotAccounted ==
  \A s \in Slots :
    (engine = "idle" /\ enabled /\ s = Latest /\ s > Floor)
      ~> \/ s \in created \cup Recorded
         \/ s # Latest \/ s <= Floor \/ ~enabled
         \/ engine \in {"down", "halted"}

(* "Everything OLDER [than the catch-up candidate] is durably accounted as *)
(* missed": the downtime loop passes over no missed slot without a durable *)
(* record of it, when no append fails.                                     *)
OlderSlotsAccounted ==
  [][\A s \in todo \ todo' : engine' = "account" => s \in Recorded']_vars

=============================================================================
