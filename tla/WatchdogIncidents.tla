-------------------------- MODULE WatchdogIncidents --------------------------
(***************************************************************************)
(* The incident file of the scheduler watchdog and the runs of its two     *)
(* processes (packages/scheduler/src/watchdog: incident-lifecycle.js,      *)
(* durable-state.js, delivery.js, routing.js, the staleness rule of        *)
(* delivery-projection.js; scripts/scheduler-watchdog.mjs:                 *)
(* processIncidentNotifications).                                          *)
(*                                                                         *)
(* A run loads the file, commits the lifecycle transitions with their      *)
(* outbox intents, and then pages one intent after the other: it commits   *)
(* the delivery binding, commits OUTCOME_UNKNOWN, sends, and commits the   *)
(* result.  Every commit compares the generation of the file; a run that   *)
(* loses throws and ends.  The private-state lock makes a commit atomic.   *)
(* The detectors are the environment: a root has a fact or has none.       *)
(* Subsumption by parents and stuck pairs is left out.                     *)
(***************************************************************************)
EXTENDS Naturals, Sequences, FiniteSets, SequencesExt

CONSTANTS
  OccRoots,      \* roots bound to one occurrence, of w1
  CtlRoots,      \* other roots of w1
  DogRoots,      \* roots about w1 itself, of w2
  MaxFlips,      \* bound: root -> how often it appears and vanishes
  MaxFaults,     \* bound: runs that die, and calls to the provider that fail
  MaxRoutes,     \* bound: changes of the routing manifest
  Overlap,       \* may the runs of the two overlap?  (They take seconds of minutes.)
  Targeted       \* occurrence roots whose job has a failure target of its own

Roles == {"w1", "w2"}
Roots == OccRoots \cup CtlRoots \cup DogRoots

ASSUME WatchdogAssumption == IsFiniteSet(Roots) /\ MaxFlips \in [Roots -> Nat]

Owns(p, r) == (p = "w2") <=> (r \in DogRoots)
Episodes(r) == 1..((MaxFlips[r] + 1) \div 2)
Keys == UNION {{r} \X Episodes(r) \X {"OPEN", "ACKNOWLEDGED", "RECOVERED"} : r \in Roots}

VARIABLES
  fact,      \* root -> changes of what the detectors say of it, from absent
  disposed,  \* roots whose failure an operator has reconciled
  route,     \* the routing manifest: its generation, and whether it is valid
  inc,       \* file: root -> [life, episode, delivery], or None
  out,       \* file: notification key -> [delivery, binding, tried], or None
  stale,     \* processes in a run whose generation (hash) of the file is not the current one
  run,       \* process -> its run
  sent,      \* notification key -> messages the chat shows (provider)
  fresh,     \* keys the provider still recognises
  misread,   \* keys accepted by a send that reported FAILED (history)
  faults

vars == <<fact, disposed, route, inc, out, stale, run, sent, fresh, misread, faults>>
file == <<inc, out, stale>>
env == <<fact, disposed, route>>
chat == <<sent, fresh, misread>>

None == [life |-> "none"]
Idle == [pc |-> "idle"]

Init ==
  /\ fact = [r \in Roots |-> 0] /\ disposed = {}
  /\ route = [sha |-> 1, valid |-> TRUE]
  /\ inc = [r \in Roots |-> None]
  /\ out = [k \in Keys |-> None]
  /\ stale = {}
  /\ run = [p \in Roles |-> Idle]
  /\ sent = [k \in Keys |-> 0] /\ fresh = {} /\ misread = {} /\ faults = 0

Fault == faults < MaxFaults /\ faults' = faults + 1
Goto(p, s) == run' = [run EXCEPT ![p] = s]
Reported == {r \in Roots : fact[r] % 2 = 1}
Episode(r) == IF inc[r] = None THEN 0 ELSE inc[r].episode
Current(r) == <<r, inc[r].episode, inc[r].life>>
Attempted == {"DELIVERED", "OUTCOME_UNKNOWN", "FAILED"}

-----------------------------------------------------------------------------
(* The detectors, the operator, the manifest, the provider's window. *)

FactChanges(r) ==
  /\ fact[r] < MaxFlips[r]
  /\ fact' = [fact EXCEPT ![r] = @ + 1]
  /\ UNCHANGED <<disposed, route, file, run, chat, faults>>

Dispose(r) ==
  /\ r \in OccRoots \cap Reported /\ r \notin disposed
  /\ disposed' = disposed \cup {r}
  /\ UNCHANGED <<fact, route, file, run, chat, faults>>

(* The deployment replaces the manifest; a broken one cannot be used. *)
RouteChanges ==
  /\ route.sha < 1 + MaxRoutes
  /\ \E v \in BOOLEAN : route' = [sha |-> route.sha + 1, valid |-> v]
  /\ UNCHANGED <<fact, disposed, file, run, chat, faults>>

(* It matters only while the intent may be sent again. *)
Expire(k) ==
  /\ k \in fresh /\ out[k].delivery # "DELIVERED"
  /\ fresh' = fresh \ {k}
  /\ UNCHANGED <<env, file, run, sent, misread, faults>>

-----------------------------------------------------------------------------
(* A run. *)

(* loadIncidentState, after the findings of the run are known. *)
Load(p) ==
  /\ run[p] = Idle
  /\ ~Overlap => \A q \in Roles : run[q] = Idle
  /\ stale' = stale \ {p}
  /\ Goto(p, [pc |-> "transition", seen |-> {r \in Reported : Owns(p, r)},
              done |-> {r \in Reported \cap disposed : Owns(p, r)}])
  /\ UNCHANGED <<env, inc, out, chat, faults>>

Pending == [life |-> "intent", delivery |-> "PENDING", binding |-> 0, tried |-> FALSE]
Rec(life, n) == [life |-> life, episode |-> n, delivery |-> "PENDING"]

(* Mutant: a root that is closed and seen again always opens an episode. *)
OpensMut(r, seen) == r \in seen /\ inc[r].life # "OPEN"

(* updateIncidentState: a root that is seen opens, unless it is open, or   *)
(* it is bound to an occurrence and was closed before.                     *)
Opens(r, seen) ==
  /\ r \in seen
  /\ inc[r] = None \/ (inc[r].life # "OPEN" /\ r \notin OccRoots)

(* An open one, also one that has just opened for the first time, closes   *)
(* as ACKNOWLEDGED when its failure was disposed of.                       *)
Acknowledges(r, seen, done) ==
  r \in seen /\ r \in done /\ (inc[r] = None \/ inc[r].life = "OPEN")

(* One that is no longer seen closes as RECOVERED in a run of its owner. *)
Recovers(p, r, seen) == inc[r].life = "OPEN" /\ r \notin seen /\ Owns(p, r)

(* updateAlertState. *)
NewInc(p, r) ==
  LET s == run[p].seen  d == run[p].done IN
  IF Acknowledges(r, s, d) THEN Rec("ACKNOWLEDGED", IF inc[r] = None THEN 1 ELSE inc[r].episode)
  ELSE IF Opens(r, s) THEN Rec("OPEN", Episode(r) + 1)
  ELSE IF Recovers(p, r, s) THEN Rec("RECOVERED", inc[r].episode)
  ELSE inc[r]

Mints(p, k) ==
  LET r == k[1]  s == run[p].seen IN
  /\ out[k] = None
  /\ \/ k[3] = "OPEN" /\ Opens(r, s) /\ k[2] = Episode(r) + 1
     \/ k[3] = NewInc(p, r).life /\ k[2] = NewInc(p, r).episode /\ NewInc(p, r) # inc[r]

(* retryableOutboxIntents of this producer, without the openings whose     *)
(* incident has left OPEN (stale_new_incident_recovered).                  *)
Retryable(p, newInc, newOut) ==
  {k \in Keys :
     /\ Owns(p, k[1]) /\ newOut[k] # None /\ newOut[k].delivery # "DELIVERED"
     /\ k[3] = "OPEN" => newInc[k[1]].life = "OPEN" /\ newInc[k[1]].episode = k[2]}

(* commitIncidentState, when the file is still the one p knows. *)
Outdated(p) == {q \in Roles \ {p} : run[q] # Idle}
Commit(p) == p \notin stale /\ stale' = Outdated(p)

(* The transitions and their intents are one commit.  The hash stays when  *)
(* nothing changed and no open incident was seen (lastSeenAt).             *)
Transition(p) ==
  LET newInc == [r \in Roots |-> NewInc(p, r)]
      newOut == [k \in Keys |-> IF Mints(p, k) THEN Pending ELSE out[k]]
      same == newInc = inc /\ newOut = out /\ \A r \in run[p].seen : inc[r].life # "OPEN"
  IN
  /\ run[p].pc = "transition" /\ p \notin stale
  /\ inc' = newInc /\ out' = newOut
  /\ stale' = IF same THEN stale ELSE Outdated(p)
  /\ \E q \in SetToSeqs(Retryable(p, newInc, newOut)) :
       Goto(p, IF q = <<>> THEN Idle ELSE [pc |-> "next", queue |-> q])
  /\ UNCHANGED <<env, chat, faults>>

(* Another process has committed in between: the run throws and ends. *)
Lose(p) ==
  /\ p \in stale /\ run[p].pc \in {"transition", "bind", "mark", "settle"}
  /\ Goto(p, Idle) /\ stale' = stale \ {p}
  /\ UNCHANGED <<env, inc, out, chat, faults>>

Key(p) == Head(run[p].queue)
Skip(p) ==
  Goto(p, IF Len(run[p].queue) = 1 THEN Idle ELSE [pc |-> "next", queue |-> Tail(run[p].queue)])
At(p, pc) == Goto(p, [pc |-> pc, queue |-> run[p].queue, sha |-> run[p].sha])
Result(p, d) == Goto(p, [pc |-> "settle", queue |-> run[p].queue, delivery |-> d])

(* validateIncidentDeliveryBindings: the manifest is valid, and every      *)
(* binding in the outbox, also of what was delivered, is the one this      *)
(* process would make now.  w2 knows no jobs and resolves the target of a  *)
(* job to the ops target.                                                  *)
Authorized(p) ==
  /\ route.valid
  /\ \A k \in Keys : out[k] # None /\ out[k].binding # 0 =>
       out[k].binding = route.sha /\ (k[1] \in Targeted => p = "w1")

(* The next intent: it is skipped, or its next step is chosen. *)
Decide(p) ==
  LET i == out[Key(p)] IN
  /\ run[p].pc = "next"
  /\ IF ~Authorized(p) THEN Skip(p)
     ELSE Goto(p, [pc |-> IF i.binding = 0 THEN "bind"
                          ELSE IF i.delivery = "OUTCOME_UNKNOWN" THEN "readback" ELSE "mark",
                   queue |-> run[p].queue, sha |-> route.sha])
  /\ UNCHANGED <<env, file, chat, faults>>

(* bindNotificationDelivery and its commit. *)
Bind(p) ==
  /\ run[p].pc = "bind" /\ Commit(p)
  /\ out' = [out EXCEPT ![Key(p)].binding = run[p].sha]
  /\ At(p, "mark")
  /\ UNCHANGED <<env, inc, chat, faults>>

(* markNotificationDelivery: the intent, and its incident when the intent  *)
(* is the incident's last transition.                                      *)
MarkDelivery(k, d) ==
  /\ out' = [out EXCEPT ![k].delivery = d, ![k].tried = @ \/ d = "OUTCOME_UNKNOWN"]
  /\ inc' = IF Current(k[1]) = k THEN [inc EXCEPT ![k[1]].delivery = d] ELSE inc

(* Mutant: the attempt is not committed before the message is sent. *)
MarkMut(p) ==
  /\ run[p].pc = "mark"
  /\ At(p, "send")
  /\ UNCHANGED <<env, file, chat, faults>>

(* OUTCOME_UNKNOWN is committed before the message is sent. *)
Mark(p) ==
  /\ run[p].pc = "mark" /\ Commit(p)
  /\ MarkDelivery(Key(p), "OUTCOME_UNKNOWN")
  /\ At(p, "send")
  /\ UNCHANGED <<env, chat, faults>>

(* The provider accepts a message; one it recognises is not shown again. *)
Accept(k) ==
  /\ sent' = IF k \in fresh THEN sent ELSE [sent EXCEPT ![k] = @ + 1]
  /\ fresh' = fresh \cup {k}

(* feishuAlert, three attempts: what the last one reports is the result.   *)
(* An accepted message whose answer is lost is FAILED when a later attempt *)
(* gets no token.                                                          *)
Send(p) ==
  LET k == Key(p) IN
  /\ run[p].pc = "send"
  /\ \/ Accept(k) /\ Result(p, "DELIVERED") /\ UNCHANGED <<misread, faults>>
     \/ Fault /\ UNCHANGED chat /\ Result(p, "FAILED")
     \/ Fault /\ UNCHANGED chat /\ Result(p, "OUTCOME_UNKNOWN")
     \/ Fault /\ Accept(k) /\ UNCHANGED misread /\ Result(p, "OUTCOME_UNKNOWN")
     \/ Fault /\ Accept(k) /\ misread' = misread \cup {k} /\ Result(p, "FAILED")
  /\ UNCHANGED <<env, file>>

(* Mutant: an attempt the chat does not show stays unknown. *)
ReadbackStuckMut(p) ==
  /\ run[p].pc = "readback"
  /\ Result(p, IF sent[Key(p)] > 0 THEN "DELIVERED" ELSE "OUTCOME_UNKNOWN")
  /\ UNCHANGED <<env, file, chat, faults>>

(* recoverNotificationDelivery: the chat is read back first; a readback    *)
(* that fails leaves OUTCOME_UNKNOWN.                                      *)
Readback(p) ==
  /\ run[p].pc = "readback"
  /\ \/ sent[Key(p)] > 0 /\ Result(p, "DELIVERED") /\ UNCHANGED faults
     \/ sent[Key(p)] = 0 /\ At(p, "send") /\ UNCHANGED faults
     \/ Fault /\ Result(p, "OUTCOME_UNKNOWN")
  /\ UNCHANGED <<env, file, chat>>

Settle(p) ==
  /\ run[p].pc = "settle" /\ Commit(p)
  /\ MarkDelivery(Key(p), run[p].delivery)
  /\ Skip(p)
  /\ UNCHANGED <<env, chat, faults>>

(* The process dies, or finds the lock of the file taken. *)
Die(p) ==
  /\ run[p] # Idle /\ Fault
  /\ Goto(p, Idle) /\ stale' = stale \ {p}
  /\ UNCHANGED <<env, inc, out, chat>>

Run(p) ==
  Load(p) \/ Transition(p) \/ Decide(p) \/ Bind(p) \/ Mark(p) \/ Send(p) \/ Readback(p)
    \/ Settle(p) \/ Lose(p)

Next ==
  \/ \E p \in Roles : Run(p) \/ Die(p)
  \/ \E r \in Roots : FactChanges(r) \/ Dispose(r)
  \/ RouteChanges
  \/ \E k \in Keys : Expire(k)

Spec == Init /\ [][Next]_vars

(* launchd starts each process again and again, and a run proceeds. *)
Fairness == \A p \in Roles : WF_vars(Run(p)) /\ SF_vars(Load(p))
FairSpec == Spec /\ Fairness
-----------------------------------------------------------------------------
Intents == {k \in Keys : out[k] # None}

TypeOK ==
  /\ \A r \in Roots : inc[r] # None =>
       inc[r].life \in {"OPEN", "ACKNOWLEDGED", "RECOVERED"} /\ inc[r].episode \in Episodes(r)
  /\ \A k \in Intents : out[k].delivery \in Attempted \cup {"PENDING"}
  /\ stale \subseteq Roles

(* validateIncidentState never refuses the file two processes write: every *)
(* incident has the intent of its last transition, and both tell the same  *)
(* delivery; no episode has both an acknowledgment and a recovery.         *)
FileLoads ==
  /\ \A r \in Roots : inc[r] # None =>
       Current(r) \in Intents /\ out[Current(r)].delivery = inc[r].delivery
  /\ \A r \in Roots : \A n \in Episodes(r) :
       ~(<<r, n, "ACKNOWLEDGED">> \in Intents /\ <<r, n, "RECOVERED">> \in Intents)

(* A message is sent only behind a durable attempt, and what is recorded   *)
(* as delivered was sent.                                                  *)
PagesOnRecord ==
  \A k \in Keys :
    /\ sent[k] > 0 => k \in Intents /\ out[k].tried /\ out[k].binding # 0
    /\ k \in Intents /\ out[k].delivery = "DELIVERED" => sent[k] > 0

(* The Owner sees a transition twice only when an accepted send was        *)
(* reported as failed and the provider's window passed before the retry.   *)
DuplicatesExplained == \A k \in Keys : sent[k] > 1 => k \in misread

IncidentSafe == FileLoads /\ PagesOnRecord /\ DuplicatesExplained

(* An incident recovers only in a run of its owner that did not see it,    *)
(* and a closed incident of an occurrence never changes again but for its  *)
(* delivery.                                                               *)
ClosesTruthfullyStep ==
  \A r \in Roots :
    /\ inc[r].life = "OPEN" /\ inc'[r].life = "RECOVERED" =>
         \E p \in Roles : Owns(p, r) /\ run[p].pc = "transition" /\ r \notin run[p].seen
    /\ r \in OccRoots /\ inc[r] # None /\ inc[r].life # "OPEN" =>
         inc'[r].life = inc[r].life /\ inc'[r].episode = inc[r].episode

(* While the manifest stays as it is, the opening of an incident is        *)
(* delivered or the incident closes.                                       *)
Unpaged(r) == inc[r] # None /\ inc[r].life = "OPEN" /\ inc[r].delivery # "DELIVERED" /\ route.sha = 1
OpeningPaged == \A r \in Roots : Unpaged(r) ~> ~Unpaged(r)

(* "W2 death alerts from W1", and "stale past grace -> Feishu alert"       *)
(* (scheduler-watchdog.mjs): the death of w1 is paged.                     *)
WatcherDeathPaged == \A r \in DogRoots : Unpaged(r) ~> ~Unpaged(r)
=============================================================================
