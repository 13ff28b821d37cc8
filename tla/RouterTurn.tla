------------------------------ MODULE RouterTurn ------------------------------
(***************************************************************************)
(* Prompt execution of one agent in the router                             *)
(* (packages/agent-router/src/process and .../src/reconciliation): the     *)
(* turn queue, the write of a prompt to the agent's child process, the     *)
(* lines the child sends back, the deadlines, the outcome_unknown fence,   *)
(* the recovery by shutdown, the child's exit, and the restart of the      *)
(* router on its durable reconciliation records.                           *)
(*                                                                         *)
(* The router is one JavaScript thread.  A handler that writes the durable *)
(* store several times is split at the writes, because the router can be   *)
(* killed between two of them: todo is the rest of the running handler,    *)
(* and while it is not empty only the crash and the child can move.        *)
(*                                                                         *)
(* A process tracks at most one execution: a second prompt is refused      *)
(* while the first is in flight or fenced.                                 *)
(***************************************************************************)
EXTENDS Naturals, Sequences, FiniteSets

CONSTANTS
  MaxTurns,     \* bound on minted turn executions
  MaxGens,      \* bound on process generations
  MaxQueue,     \* MAX_QUEUED_TURNS_PER_PROCESS
  MaxRestarts,  \* bound on router restarts
  WebTurns      \* turns with a website control, whose write awaits a recheck

Handles == 1..MaxTurns
Gens == 1..MaxGens

ASSUME RouterAssumption ==
  /\ MaxTurns \in Nat /\ MaxGens \in Nat /\ MaxRestarts \in Nat
  /\ MaxQueue \in Nat \ {0}
  /\ WebTurns \subseteq Handles

VARIABLES
  rec,       \* handle -> durable reconciliation record
  cur,       \* the handle in the executions map, 0 if none
  ex,        \* its TurnExecution
  fences,    \* activeUnknownFences of the process
  queue,     \* length of turnQueueEntries
  proc,      \* the process object of the agent's lifecycle slot
  rechecks,  \* turns whose promptWrite awaits the recheck
  todo,      \* rest of the running handler
  restarts,  \* number of router restarts: the runtime epoch
  alive,     \* generations whose child process is running (external)
  truth      \* what really happened to a prompt (external)

vars == <<rec, cur, ex, fences, queue, proc, rechecks, todo, restarts, alive, truth>>

child == <<alive, truth>>

Direct == {"completed", "failed", "not_admitted"}
Late == {"late_completed", "late_failed", "terminated_without_outcome"}
Ended == {"ok", "failed", "aborted"}

NoRecord ==
  [st |-> "absent", gen |-> 0, epoch |-> 0, written |-> FALSE, unknown |-> FALSE,
   outcome |-> "none", term |-> "none", fence |-> "none", claim |-> FALSE,
   cleanup |-> FALSE, abandoned |-> "no"]

(* wait: the pending request entry or its late-receipt tombstone; events:  *)
(* how many of turn/start, user/message and turn/end have been parsed;     *)
(* idle: the last idle status, before (stale) or past the turn/start.      *)
NewExecution ==
  [wait |-> "none", receipt |-> FALSE, events |-> 0, idle |-> "none",
   unknown |-> FALSE, check |-> FALSE]

Init ==
  /\ rec = [h \in Handles |-> NoRecord]
  /\ cur = 0
  /\ ex = NewExecution
  /\ fences = {}
  /\ queue = 0
  /\ proc = [state |-> "none", gen |-> 0]
  /\ rechecks = {}
  /\ todo = <<>>
  /\ restarts = 0
  /\ alive = {}
  /\ truth = [h \in Handles |-> "none"]

-----------------------------------------------------------------------------
Doing(op, h) == todo # <<>> /\ Head(todo) = <<op, h>>

Unminted == {h \in Handles : rec[h].st = "absent"}

(* admissionBlockerForAgent *)
Blocks(h) == rec[h].unknown /\ rec[h].fence # "cleared" /\ rec[h].abandoned = "no"

Blocked == \E h \in Handles : Blocks(h)

(* turnInFlight: until terminal or unknown, and until promptWrite returns. *)
InFlight == cur # 0 /\ (~ex.unknown \/ cur \in rechecks)

(* Between two event-loop tasks: no handler is running, and drainTurnQueue *)
(* has left nothing in the queue of a process that is not busy.            *)
Quiet == todo = <<>> /\ (queue > 0 => InFlight)

(* The process that owns h is still the one in the slot. *)
Owned(h) == proc.state # "none" /\ proc.gen = rec[h].gen

(* feedExecution and the replay: nothing is fed before the receipt binds.  *)
TerminalSeen == ex.receipt /\ ex.events = 3

(* exactTurnOutcome of the parsed turn/end, which carries the real reason. *)
ExactOutcome(h) ==
  CASE truth[h] = "ok" -> "completed" [] truth[h] = "failed" -> "failed" [] OTHER -> "none"

LateOutcome(o) ==
  CASE o = "completed" -> "late_completed"
    [] o = "failed" -> "late_failed"
    [] OTHER -> "terminated_without_outcome"

Settled(r, outcome, term) == [r EXCEPT !.st = "settled", !.outcome = outcome, !.term = term]

(* Mutant: the last settlement wins. *)
SettleDirectMut(h, outcome, term) ==
  rec' = IF rec[h].st = "settled" \/ ~rec[h].unknown
         THEN [rec EXCEPT ![h] = Settled(@, outcome, term)] ELSE rec

(* settleDirect: ignored when settled, throws when already unknown. *)
SettleDirect(h, outcome, term) ==
  rec' = IF rec[h].st = "open" /\ ~rec[h].unknown
         THEN [rec EXCEPT ![h] = Settled(@, outcome, term)] ELSE rec

(* settleLate: the first settlement wins. *)
SettleLate(h, outcome, term) ==
  rec' = IF rec[h].st = "open" THEN [rec EXCEPT ![h] = Settled(@, outcome, term)] ELSE rec

(* finishExecution *)
Finish(h) ==
  /\ cur' = IF cur = h THEN 0 ELSE cur
  /\ ex' = IF cur = h THEN NewExecution ELSE ex

(* Mutant: the queued turns wait behind the fence. *)
MarkUnknownMut(h, e, rest) ==
  /\ rec' = [rec EXCEPT ![h].unknown = TRUE, ![h].fence = "active", ![h].claim = FALSE,
                        ![h].abandoned = "no"]
  /\ ex' = [e EXCEPT !.unknown = TRUE]
  /\ fences' = fences \cup {h}
  /\ queue' = queue
  /\ todo' = <<<<"try", h>>>> \o rest

(* markOutcomeUnknown, installUnknownFence and the rejection of the queue; *)
(* rest is what the handler still does.                                    *)
MarkUnknown(h, e, rest) ==
  /\ rec' = [rec EXCEPT ![h].unknown = TRUE, ![h].fence = "active", ![h].claim = FALSE,
                        ![h].abandoned = "no"]
  /\ ex' = [e EXCEPT !.unknown = TRUE]
  /\ fences' = fences \cup {h}
  /\ queue' = 0
  /\ todo' = <<<<"try", h>>>> \o rest
-----------------------------------------------------------------------------
(* Admission and the write of the prompt.                                  *)

(* ensureRunning on an EMPTY slot, up to READY; a generation is a child. *)
Spawn ==
  /\ Quiet /\ proc.state = "none" /\ proc.gen < MaxGens /\ ~Blocked
  /\ proc' = [state |-> "READY", gen |-> proc.gen + 1]
  /\ alive' = alive \cup {proc.gen + 1}
  /\ UNCHANGED <<rec, cur, ex, fences, queue, rechecks, todo, restarts, truth>>

(* preAdmissionError *)
Admitting == proc.state = "READY" /\ fences = {} /\ ~Blocked

(* enqueuePromptExecution of a turn() or a deliver() *)
Enqueue ==
  /\ Quiet /\ Admitting /\ queue < MaxQueue /\ queue < Cardinality(Unminted)
  /\ queue' = queue + 1
  /\ UNCHANGED <<rec, cur, ex, fences, proc, rechecks, todo, restarts, child>>

(* drainTurnQueue and runPromptExecution: the second gate, the mint, and   *)
(* the write of the prompt unless it awaits the website recheck.           *)
StartTurn(h) ==
  /\ todo = <<>> /\ queue > 0 /\ ~InFlight /\ Admitting
  /\ h \in Unminted /\ \A g \in Unminted : h <= g
  /\ queue' = queue - 1
  /\ rec' = [rec EXCEPT ![h] = [NoRecord EXCEPT !.st = "open", !.gen = proc.gen,
                                                !.epoch = restarts]]
  /\ cur' = h
  /\ ex' = NewExecution
  /\ rechecks' = rechecks \cup ({h} \cap WebTurns)
  /\ todo' = IF h \in WebTurns THEN <<>> ELSE <<<<"attempt", h>>, <<"send", h>>>>
  /\ UNCHANGED <<fences, proc, restarts, child>>

(* The recheck resolves, or throws (a definitive rejection by the caller). *)
Recheck(h) ==
  /\ Quiet /\ h \in rechecks
  /\ rechecks' = rechecks \ {h}
  /\ \/ todo' = <<<<"attempt", h>>, <<"send", h>>>>
     \/ todo' = <<<<"reject", h>>>>
  /\ UNCHANGED <<rec, cur, ex, fences, queue, proc, restarts, child>>

(* Mutant: the attempt is recorded after the write, not before. *)
AttemptMut(h) ==
  /\ Doing("attempt", h)
  /\ todo' = Tail(todo)
  /\ UNCHANGED <<rec, cur, ex, fences, queue, proc, rechecks, restarts, child>>

(* markPromptWriteAttempted *)
Attempt(h) ==
  /\ Doing("attempt", h)
  /\ rec' = [rec EXCEPT ![h].written = TRUE]
  /\ todo' = Tail(todo)
  /\ UNCHANGED <<cur, ex, fences, queue, proc, rechecks, restarts, child>>

(* request(): the bytes enter the pipe of the child, if it is there. *)
Send(h) ==
  /\ Doing("send", h) /\ Owned(h)
  /\ ex' = [ex EXCEPT !.wait = "pending"]
  /\ truth' = IF rec[h].gen \in alive THEN [truth EXCEPT ![h] = "piped"] ELSE truth
  /\ todo' = Tail(todo)
  /\ UNCHANGED <<rec, cur, fences, queue, proc, rechecks, restarts, alive>>

(* request() rejects before the write (frozen input, unwritable stdin, an  *)
(* expired deadline, the cap on pending requests), or promptWrite threw:   *)
(* handleExecutionCallerError settles directly and always finishes.  An    *)
(* unwritable stdin then drains the process (onStdinBroken).               *)
Reject(h) ==
  /\ Doing("send", h) \/ Doing("reject", h)
  /\ \E o \in {"not_admitted", "failed"} : SettleDirect(h, o, "none")
  /\ Finish(h)
  /\ \/ todo' = Tail(todo)
     \/ Doing("send", h) /\ Owned(h) /\ todo' = <<<<"drain", 0>>>>
  /\ UNCHANGED <<fences, queue, proc, rechecks, restarts, child>>

-----------------------------------------------------------------------------
(* The lines of the child.  A line is parsed while the process object is   *)
(* in its slot, also while it drains; lines for no execution are ignored.  *)

Parsing == Quiet /\ proc.state # "none" /\ cur # 0

(* onRpcResponse with a messageId: in time, or late through the tombstone; *)
(* the ring is replayed and the settlement tried.                          *)
Receipt ==
  /\ Parsing /\ truth[cur] \in Ended \cup {"live"} /\ ex.wait # "none"
  /\ ex' = [ex EXCEPT !.receipt = TRUE, !.wait = "none"]
  /\ todo' = <<<<"try", cur>>>>
  /\ UNCHANGED <<rec, cur, fences, queue, proc, rechecks, restarts, child>>

(* An error response settles the turn; after the deadline it is dropped. *)
ErrorResponse ==
  /\ Parsing /\ truth[cur] = "refused" /\ ex.wait # "none"
  /\ IF ex.wait = "pending"
     THEN SettleDirect(cur, "failed", "none") /\ Finish(cur)
     ELSE ex' = [ex EXCEPT !.wait = "none"] /\ UNCHANGED <<rec, cur>>
  /\ UNCHANGED <<fences, queue, proc, rechecks, todo, restarts, child>>

(* onSessionEvent: turn/start, user/message, turn/end, in this order. *)
SessionEvent ==
  /\ Parsing /\ ex.events < 3
  /\ truth[cur] \in Ended \/ (truth[cur] = "live" /\ ex.events < 2)
  /\ ex' = [ex EXCEPT !.events = @ + 1]
  /\ todo' = IF ex.receipt /\ ex.events = 2 THEN <<<<"try", cur>>>> ELSE <<>>
  /\ UNCHANGED <<rec, cur, fences, queue, proc, rechecks, restarts, child>>

(* onSessionStatus: an idle line left over from before the turn, or the    *)
(* one that follows it, which may overtake the turn/end.                   *)
SessionIdle ==
  /\ Parsing
  /\ ex' = [ex EXCEPT !.idle = IF ex.events = 0 THEN "stale" ELSE "past"]
  /\ ex' # ex
  /\ ex.events > 0 => truth[cur] \in Ended
  /\ todo' = IF TerminalSeen \/ ex.unknown THEN <<<<"try", cur>>>> ELSE <<>>
  /\ UNCHANGED <<rec, cur, fences, queue, proc, rechecks, restarts, child>>

-----------------------------------------------------------------------------
(* trySettleExecution                                                      *)

(* Exact terminal and an idle past the turn's start. *)
ExactTermination == TerminalSeen /\ ex.idle = "past"

(* Mutant: any idle counts, also one from before the turn. *)
StartedThenIdleMut == ex.unknown /\ ex.receipt /\ ex.events = 2 /\ ex.idle # "none"

(* Started, correlated by its user/message, idle past the start, but no    *)
(* turn/end.                                                               *)
StartedThenIdle == ex.unknown /\ ex.receipt /\ ex.events = 2 /\ ex.idle = "past"

(* Nothing is proven; termination without an outcome is looked at again    *)
(* once the parser's batch is over (setImmediate).                         *)
TryNothing(h) ==
  /\ Doing("try", h) /\ ~ExactTermination
  /\ ex' = [ex EXCEPT !.check = @ \/ StartedThenIdle]
  /\ todo' = Tail(todo)
  /\ UNCHANGED <<rec, cur, fences, queue, proc, rechecks, restarts, child>>

(* In time and with an outcome. *)
TryDirect(h) ==
  /\ Doing("try", h) /\ ExactTermination /\ ~ex.unknown /\ ExactOutcome(h) # "none"
  /\ SettleDirect(h, ExactOutcome(h), "idle")
  /\ Finish(h)
  /\ todo' = Tail(todo)
  /\ UNCHANGED <<fences, queue, proc, rechecks, restarts, child>>

(* Terminated without an outcome: unknown becomes visible first. *)
TryNoOutcome(h) ==
  /\ Doing("try", h) /\ ExactTermination /\ ~ex.unknown /\ ExactOutcome(h) = "none"
  /\ MarkUnknown(h, ex, Tail(todo))
  /\ UNCHANGED <<cur, proc, rechecks, restarts, child>>

(* Late settlement, then releaseFence. *)
TryLate(h) ==
  /\ Doing("try", h) /\ ExactTermination /\ ex.unknown
  /\ SettleLate(h, LateOutcome(ExactOutcome(h)), "idle")
  /\ Finish(h)
  /\ todo' = <<<<"clear", h>>>> \o Tail(todo)
  /\ UNCHANGED <<fences, queue, proc, rechecks, restarts, child>>

(* The setImmediate callback. *)
TerminationOnlyCheck ==
  /\ Quiet /\ cur # 0 /\ ex.check
  /\ SettleLate(cur, "terminated_without_outcome", "startedIdle")
  /\ Finish(cur)
  /\ todo' = <<<<"clear", cur>>>>
  /\ UNCHANGED <<fences, queue, proc, rechecks, restarts, child>>

(* releaseFence: markFenceCleared, which demands a settled record with     *)
(* termination evidence, then the fence of the process.                    *)
ReleaseFence(h) ==
  /\ Doing("clear", h) /\ rec[h].st = "settled" /\ rec[h].term # "none"
  /\ rec' = [rec EXCEPT ![h].fence = "cleared"]
  /\ fences' = fences \ {h}
  /\ todo' = Tail(todo)
  /\ UNCHANGED <<cur, ex, queue, proc, rechecks, restarts, child>>

-----------------------------------------------------------------------------
(* Deadlines, draining and recovery.                                       *)

(* The receipt deadline leaves a tombstone; admission is unproven. *)
ReceiptTimeout ==
  /\ Quiet /\ cur # 0 /\ ex.wait = "pending"
  /\ LET e == [ex EXCEPT !.wait = "tombstone"] IN
       IF ex.unknown
       THEN ex' = e /\ UNCHANGED <<rec, fences, queue, todo>>
       ELSE MarkUnknown(cur, e, <<>>)
  /\ UNCHANGED <<cur, proc, rechecks, restarts, child>>

(* The turn deadline or the caller's wait bound, armed at the receipt. *)
TurnTimeout ==
  /\ Quiet /\ cur # 0 /\ ex.receipt /\ ~ex.unknown
  /\ MarkUnknown(cur, ex, <<>>)
  /\ UNCHANGED <<cur, proc, rechecks, restarts, child>>

(* rejectAllPending leaves no tombstone. *)
PendingRejected == [ex EXCEPT !.wait = IF @ = "pending" THEN "none" ELSE @]

(* fatal(), onStdinBroken() and performShutdown(): REAP, DRAINING, queue   *)
(* and pending rejected, the execution unknown, the child told to go.      *)
Drain ==
  /\ Quiet /\ proc.state = "READY"
  /\ proc' = [proc EXCEPT !.state = "DRAINING"]
  /\ IF cur # 0 /\ ~ex.unknown
     THEN MarkUnknown(cur, PendingRejected, <<>>)
     ELSE ex' = PendingRejected /\ queue' = 0 /\ UNCHANGED <<rec, fences, todo>>
  /\ UNCHANGED <<cur, rechecks, restarts, child>>

(* onStdinBroken right after a write on an unwritable stdin was refused:   *)
(* the execution is finished, the queue is rejected.                       *)
StdinBroken ==
  /\ Doing("drain", 0)
  /\ proc' = [proc EXCEPT !.state = "DRAINING"]
  /\ queue' = 0
  /\ todo' = <<>>
  /\ UNCHANGED <<rec, cur, ex, fences, rechecks, restarts, child>>

(* recoverUnknownExecution at the hard deadline: claimRecovery ... *)
Recover ==
  /\ Quiet /\ cur # 0 /\ ex.unknown /\ ~rec[cur].claim
  /\ rec' = [rec EXCEPT ![cur].claim = TRUE]
  /\ todo' = <<<<"commit", cur>>>>
  /\ UNCHANGED <<cur, ex, fences, queue, proc, rechecks, restarts, child>>

(* Mutant: the claim is committed and the shutdown forgotten. *)
CommitMut(h) ==
  /\ Doing("commit", h)
  /\ todo' = Tail(todo)
  /\ UNCHANGED <<rec, cur, ex, fences, queue, proc, rechecks, restarts, child>>

(* ... then commitRecoveryShutdown and the shutdown, or markRecoveryBlocked *)
(* when the process is no longer READY.                                    *)
Commit(h) ==
  /\ Doing("commit", h)
  /\ proc' = [proc EXCEPT !.state = "DRAINING"]
  /\ ex' = PendingRejected
  /\ todo' = Tail(todo)
  /\ UNCHANGED <<rec, cur, fences, queue, rechecks, restarts, child>>

-----------------------------------------------------------------------------
(* onChildExit: unknown visible, settlement, registry cleanup, fence.      *)

ExitSteps(h) == <<<<"exitSettle", h>>, <<"cleanup", h>>, <<"clear", h>>, <<"exited", 0>>>>

ChildExit ==
  /\ Quiet /\ proc.state # "none" /\ proc.gen \notin alive
  /\ proc' = [proc EXCEPT !.state = "DRAINING"]
  /\ IF cur = 0
     THEN todo' = <<<<"exited", 0>>>> /\ UNCHANGED <<rec, ex, fences, queue>>
     ELSE IF ex.unknown
     THEN todo' = ExitSteps(cur) /\ ex' = PendingRejected /\ UNCHANGED <<rec, fences, queue>>
     ELSE MarkUnknown(cur, PendingRejected, ExitSteps(cur))
  /\ UNCHANGED <<cur, rechecks, restarts, child>>

(* C-017: a parsed exact outcome takes precedence over the exit. *)
ExitSettle(h) ==
  /\ Doing("exitSettle", h)
  /\ SettleLate(h, IF TerminalSeen THEN LateOutcome(ExactOutcome(h))
                   ELSE "terminated_without_outcome", "exit")
  /\ Finish(h)
  /\ todo' = Tail(todo)
  /\ UNCHANGED <<fences, queue, proc, rechecks, restarts, child>>

(* casEmpty, and the registry_cleanup action in the record. *)
RegistryCleanup(h) ==
  /\ Doing("cleanup", h)
  /\ rec' = [rec EXCEPT ![h].cleanup = TRUE]
  /\ todo' = Tail(todo)
  /\ UNCHANGED <<cur, ex, fences, queue, proc, rechecks, restarts, child>>

Exited ==
  /\ Doing("exited", 0)
  /\ proc' = [proc EXCEPT !.state = "none"]
  /\ fences' = {}
  /\ queue' = 0
  /\ todo' = Tail(todo)
  /\ UNCHANGED <<rec, cur, ex, rechecks, restarts, child>>

-----------------------------------------------------------------------------
(* Restart on the durable records, and the administrator.                  *)

(* restoreCrashInterruptedRecords *)
Restored(r) ==
  CASE r.st = "settled" /\ r.unknown /\ r.fence = "active" /\ r.term # "none"
         /\ (~r.claim \/ r.cleanup) -> [r EXCEPT !.fence = "cleared"]
    [] r.st = "open" /\ ~r.unknown /\ r.written -> [r EXCEPT !.unknown = TRUE, !.fence = "active"]
    [] r.st = "open" /\ ~r.unknown /\ ~r.written ->
         [Settled(r, "not_admitted", "none") EXCEPT !.fence = "cleared"]
    [] OTHER -> r

(* The router dies, also in the middle of a handler, and starts again: the *)
(* records are restored, the rest is lost.  The children are not adopted   *)
(* and not killed.                                                         *)
Restart ==
  /\ restarts < MaxRestarts
  /\ restarts' = restarts + 1
  /\ rec' = [h \in Handles |-> Restored(rec[h])]
  /\ cur' = 0
  /\ ex' = NewExecution
  /\ fences' = {}
  /\ queue' = 0
  /\ proc' = [proc EXCEPT !.state = "none"]
  /\ rechecks' = {}
  /\ todo' = <<>>
  /\ UNCHANGED child

(* POST /agent-process/turn-abandonment on an EMPTY slot.  Without durable *)
(* termination evidence the owner has to accept the risk explicitly.  At   *)
(* most one record blocks, so the stamps are one write.                    *)
Abandon(risk) ==
  /\ Quiet /\ proc.state = "none" /\ Blocked
  /\ risk \/ \A h \in Handles : Blocks(h) => rec[h].term # "none"
  /\ rec' = [h \in Handles |->
               IF Blocks(h) THEN [rec[h] EXCEPT !.abandoned = IF risk THEN "risk" ELSE "proven"]
               ELSE rec[h]]
  /\ UNCHANGED <<cur, ex, fences, queue, proc, rechecks, todo, restarts, child>>

-----------------------------------------------------------------------------
(* The child process (external).                                           *)

router == <<rec, cur, ex, fences, queue, proc, rechecks, todo, restarts>>

(* A prompt is held by a child that can still run it. *)
Held(h) == truth[h] \in {"piped", "live"} /\ rec[h].gen \in alive

(* It reads a prompt and accepts or refuses it, ... *)
ChildReads(h) ==
  /\ truth[h] = "piped" /\ rec[h].gen \in alive
  /\ \E t \in {"live", "refused"} : truth' = [truth EXCEPT ![h] = t]
  /\ UNCHANGED <<router, alive>>

(* ... ends the turn, ... *)
ChildEnds(h) ==
  /\ truth[h] = "live" /\ rec[h].gen \in alive
  /\ \E t \in Ended : truth' = [truth EXCEPT ![h] = t]
  /\ UNCHANGED <<router, alive>>

(* ... and dies at any time. *)
ChildDies(g) ==
  /\ g \in alive
  /\ alive' = alive \ {g}
  /\ UNCHANGED <<router, truth>>

-----------------------------------------------------------------------------
(* The rest of a handler that has begun, and the start of a queued turn. *)
Continue ==
  \/ Exited \/ StdinBroken
  \/ \E h \in Handles :
       \/ StartTurn(h) \/ Attempt(h) \/ Send(h) \/ Reject(h)
       \/ TryNothing(h) \/ TryDirect(h) \/ TryNoOutcome(h) \/ TryLate(h) \/ ReleaseFence(h)
       \/ Commit(h) \/ ExitSettle(h) \/ RegistryCleanup(h)

Next ==
  \/ Continue
  \/ Spawn \/ Enqueue \/ Receipt \/ ErrorResponse \/ SessionEvent \/ SessionIdle
  \/ TerminationOnlyCheck \/ ReceiptTimeout \/ TurnTimeout \/ Drain \/ Recover
  \/ ChildExit \/ Restart
  \/ \E h \in Handles : Recheck(h) \/ ChildReads(h) \/ ChildEnds(h)
  \/ \E risk \in BOOLEAN : Abandon(risk)
  \/ \E g \in Gens : ChildDies(g)

Spec == Init /\ [][Next]_vars

(* Handlers run to their end, the timers fire, the exit callback is called, *)
(* and a draining child goes: it is killed when its grace is over.  Nothing *)
(* is assumed of the child's answers.                                       *)
FairSpec ==
  /\ Spec
  /\ WF_vars(Continue)
  /\ WF_vars(ReceiptTimeout) /\ WF_vars(TurnTimeout)
  /\ WF_vars(Recover) /\ WF_vars(TerminationOnlyCheck)
  /\ WF_vars(ChildExit)
  /\ WF_vars(proc.state = "DRAINING" /\ ChildDies(proc.gen))

-----------------------------------------------------------------------------
(* The shape of the state. *)
TypeOK ==
  /\ rec \in [Handles ->
       [st : {"absent", "open", "settled"}, gen : 0..MaxGens, epoch : 0..MaxRestarts,
        written : BOOLEAN, unknown : BOOLEAN, outcome : Direct \cup Late \cup {"none"},
        term : {"none", "idle", "startedIdle", "exit"}, fence : {"none", "active", "cleared"},
        claim : BOOLEAN, cleanup : BOOLEAN, abandoned : {"no", "proven", "risk"}]]
  /\ cur \in 0..MaxTurns
  /\ ex \in [wait : {"none", "pending", "tombstone"}, receipt : BOOLEAN, events : 0..3,
             idle : {"none", "stale", "past"}, unknown : BOOLEAN, check : BOOLEAN]
  /\ fences \subseteq Handles /\ rechecks \subseteq WebTurns
  /\ queue \in 0..MaxQueue
  /\ proc \in [state : {"none", "READY", "DRAINING"}, gen : 0..MaxGens]
  /\ todo \in Seq({"attempt", "send", "reject", "drain", "try", "clear", "commit",
                   "exitSettle", "cleanup", "exited"} \X (0..MaxTurns))
  /\ restarts \in 0..MaxRestarts
  /\ alive \subseteq Gens
  /\ truth \in [Handles -> {"none", "piped", "refused", "live"} \cup Ended]

(* Two prompts of one agent are never in the hands of live children at the *)
(* same time, across deadlines, shutdowns, exits and restarts at any point *)
(* of a handler: the fence keeps the next prompt out until the earlier     *)
(* turn has provably ended, unless the owner accepted the risk.            *)
OneTurnAtATime ==
  \A h, k \in Handles :
    (h # k /\ Held(h) /\ Held(k)) => "risk" \in {rec[h].abandoned, rec[k].abandoned}

(* What a settled record claims is what happened: a success or a failure   *)
(* was one, a turn reported as not admitted never reached the child, and a *)
(* turn with termination evidence runs no more.                            *)
SettlementTruth ==
  \A h \in Handles :
    /\ rec[h].outcome \in {"completed", "late_completed"} => truth[h] = "ok"
    /\ rec[h].outcome = "late_failed" => truth[h] = "failed"
    /\ rec[h].outcome = "failed" => truth[h] \in {"failed", "refused", "none"}
    /\ rec[h].outcome = "not_admitted" => truth[h] = "none"
    /\ rec[h].term # "none" => ~Held(h)

(* A prompt waits in the queue only of a READY and unfenced process: the   *)
(* fence and the shutdown reject every queued prompt, so that none is sent *)
(* after the fence is lifted.                                              *)
QueueOnlyWhenOpen == queue > 0 => Admitting

(* settleDirect and settleLate settle once: later evidence, an exit during *)
(* the recheck of a write or a restart never rewrites a settlement.        *)
SettleOnce ==
  [][\A h \in Handles : rec[h].st = "settled" =>
       /\ rec'[h].st = "settled" /\ rec'[h].outcome = rec[h].outcome
       /\ rec'[h].term = rec[h].term]_vars

(* A turn that became unknown is settled and its fence lifted, whatever    *)
(* the child does, unless the router is restarted first.  (Turns with a    *)
(* website recheck are excluded: see ExitSettles.)                         *)
UnknownResolves ==
  \A h \in Handles \ WebTurns :
    (rec[h].unknown /\ rec[h].epoch = restarts)
      ~> (rec[h].fence = "cleared" \/ rec[h].epoch # restarts)

(* The exit of the child settles every execution of its generation: an     *)
(* open record of this runtime has its process in the slot.                *)
ExitSettles ==
  Quiet => \A h \in Handles :
             (rec[h].st = "open" /\ rec[h].epoch = restarts) => Owned(h)

=============================================================================
