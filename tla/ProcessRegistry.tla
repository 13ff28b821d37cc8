--------------------------- MODULE ProcessRegistry ---------------------------
(***************************************************************************)
(* The process registry of the router (packages/agent-router/src,          *)
(* process-registry*.js with process/spawn.js and process/shutdown.js):    *)
(* the lifecycle slot of one agent, the generations of its child process,  *)
(* and the callers that ask for a running process, with a route or without.*)
(*                                                                         *)
(* The router is one JavaScript thread: an action is one event-loop task.  *)
(* A caller whose promise has settled goes on before the next task, so     *)
(* every other action waits for Quiet.  Every startup entry has its own    *)
(* generation: a slot entry is the generation and its state, and the slot  *)
(* keeps the last generation issued while it is EMPTY.                     *)
(*                                                                         *)
(* What a turn does is the subject of RouterTurn; here a process has no    *)
(* turn, turns in flight or queued, or one of unknown outcome (which       *)
(* fences the agent until its termination is proven).                      *)
(***************************************************************************)
EXTENDS Naturals, FiniteSets

CONSTANTS
  Callers,
  Routes,   \* route identities
  Default,  \* the route, one of Routes, a caller without one spawns
  Plain,    \* no wanted route: ensureRunning (not one of Routes)
  MaxGens   \* bound: generations

VARIABLES
  slot,    \* the entry of lifecycleSlots, and the last generation issued
  entry,   \* generation -> its startup entry: route, result promise, bootstrap stage
  proc,    \* generation -> AgentProcess
  os,      \* generation -> the child process (external)
  caller,  \* caller -> where its request stands
  dispose  \* no, waiting, done

vars == <<slot, entry, proc, os, caller, dispose>>

ASSUME RegistryAssumption == Default \in Routes /\ Plain \notin Routes /\ MaxGens \in Nat

Gens == 1..MaxGens
Idle == [pc |-> "idle"]

Init ==
  /\ slot = [st |-> "EMPTY", gen |-> 0]
  /\ entry = [g \in Gens |-> [stage |-> "none", route |-> Default, result |-> "open"]]
  /\ proc = [g \in Gens |-> [state |-> "none", exit |-> FALSE, turn |-> "none", stop |-> "no",
                             killed |-> FALSE, blocked |-> FALSE, failed |-> FALSE]]
  /\ os = [g \in Gens |-> "none"]
  /\ caller = [c \in Callers |-> Idle]
  /\ dispose = "no"

-----------------------------------------------------------------------------
(* Where a caller that waits may go on. *)
Resumes(c) ==
  LET q == caller[c] IN
  \/ q.pc \in {"result", "startup"} /\ entry[q.gen].result # "open"
  \/ q.pc = "shutdown" /\ proc[q.gen].state = "EXITED"

Quiet == \A c \in Callers : ~Resumes(c)

(* assertRecoveryAdmission: an unknown turn fences the agent. *)
Fenced == \E g \in Gens : proc[g].turn = "unknown"

(* hasExactDeathEvidence: the exit was observed, or the pid is not found.  *)
(* A zombie still answers the probe.                                       *)
DeathEvidence(g) == proc[g].exit \/ proc[g].state = "EXITED" \/ os[g] = "reaped"

Owns(s, g, states) == s.gen = g /\ s.st \in states

(* Mutant: delete first, the fence later. *)
CasReapMut(g) ==
  IF Owns(slot, g, {"STARTUP", "READY"}) THEN [slot EXCEPT !.st = "EMPTY"] ELSE slot

(* casReapSlot: the exact STARTUP or READY entry becomes the REAP fence. *)
CasReap(g) ==
  IF Owns(slot, g, {"STARTUP", "READY"}) THEN [slot EXCEPT !.st = "REAP"] ELSE slot

(* settleStartupEntry: the result promise settles once. *)
Settle(g, result) ==
  entry' = [entry EXCEPT ![g].result = IF @ = "open" THEN result ELSE @,
                         ![g].stage = "over"]

(* Pending requests are rejected, a turn in flight becomes unknown. *)
Draining(p) ==
  [p EXCEPT !.state = "DRAINING", !.turn = IF @ = "busy" THEN "unknown" ELSE @]

(* fatal: the fence, DRAINING, and SIGKILL to the exact owned child; a     *)
(* startup that waits is rejected.                                         *)
Fatal(g) ==
  /\ slot' = CasReap(g)
  /\ proc' = [proc EXCEPT ![g] = [Draining(@) EXCEPT !.killed = @ \/ Owns(slot', g, {"REAP"})]]
  /\ Settle(g, "failed")

(* performShutdown up to its request: the fence, DRAINING, and the grace   *)
(* begins; refused when the fence is not this process's.                   *)
Shutdown(g) ==
  IF proc[g].exit \/ proc[g].stop # "no" THEN UNCHANGED <<slot, proc, entry>>
  ELSE /\ slot' = CasReap(g)
       /\ proc' = [proc EXCEPT ![g] =
                     [Draining(@) EXCEPT !.stop = IF Owns(slot', g, {"REAP"}) THEN "grace"
                                                  ELSE "refused"]]
       /\ Settle(g, "failed")

-----------------------------------------------------------------------------
(* ensureRunning and ensureRunningForRoute. *)

(* installStartupSlot: the next generation; the bootstrap begins.  A       *)
(* caller beyond MaxGens gives up.                                         *)
Install(c, want) ==
  LET g == slot.gen + 1 IN
  IF g > MaxGens
  THEN /\ caller' = [caller EXCEPT ![c] = Idle]
       /\ slot' = [slot EXCEPT !.st = "EMPTY"]
       /\ UNCHANGED entry
  ELSE /\ slot' = [st |-> "STARTUP", gen |-> g]
       /\ entry' = [entry EXCEPT ![g].stage = "boot",
                                 ![g].route = IF want = Plain THEN Default ELSE want]
       /\ caller' = [caller EXCEPT ![c] = [pc |-> "result", gen |-> g]]

Suits(want, g) == ~proc[g].failed /\ want \in {Plain, entry[g].route}

(* resolveSlot, and the slot read of ensureRunning, which differs in that  *)
(* it shares a startup without looking at the slot again.                  *)
Resolve(c, want, seen) ==
  LET g == slot.gen
      visited == seen \cup {<<g, slot.st>>}
      Goes(q) == caller' = [caller EXCEPT ![c] = q]
      Waits(pc) == Goes([pc |-> pc, gen |-> g, want |-> want, seen |-> visited])
  IN
  \/ /\ slot.st # "EMPTY" /\ <<g, slot.st>> \in seen
     /\ Goes([pc |-> "stalled"])
     /\ UNCHANGED <<slot, proc, entry>>
  \/ /\ slot.st = "EMPTY" \/ (slot.st = "READY" /\ DeathEvidence(g) /\ <<g, "READY">> \notin seen)
     /\ Install(c, want)
     /\ UNCHANGED proc
  \/ /\ slot.st = "READY" /\ <<g, "READY">> \notin seen /\ ~DeathEvidence(g)
     /\ \/ /\ Suits(want, g)
           /\ Goes([pc |-> "holds", gen |-> g])
           /\ UNCHANGED <<slot, proc, entry>>
        \/ /\ ~Suits(want, g) /\ proc[g].turn = "busy"
           /\ Goes(Idle)
           /\ UNCHANGED <<slot, proc, entry>>
        \/ /\ ~Suits(want, g) /\ proc[g].turn # "busy"
           /\ Shutdown(g)
           /\ Waits("shutdown")
  \/ /\ slot.st = "STARTUP" /\ <<g, "STARTUP">> \notin seen
     /\ Waits(IF want = Plain /\ seen = {} THEN "result" ELSE "startup")
     /\ UNCHANGED <<slot, proc, entry>>
  \/ /\ slot.st = "REAP" /\ <<g, "REAP">> \notin seen
     /\ Goes(Idle)
     /\ UNCHANGED <<slot, proc, entry>>

Request(c) ==
  /\ Quiet /\ caller[c].pc = "idle"
  /\ dispose = "no" /\ ~Fenced
  /\ \E want \in Routes \cup {Plain} : Resolve(c, want, {})
  /\ UNCHANGED <<os, dispose>>

(* A waiting caller goes on: with the shared startup, or with another look *)
(* at the slot (the gates of Request are not asked again).                 *)
Resume(c) ==
  LET q == caller[c] IN
  /\ Resumes(c)
  /\ IF q.pc = "result"
     THEN /\ caller' = [caller EXCEPT ![c] = IF entry[q.gen].result = "ready"
                                             THEN [pc |-> "holds", gen |-> q.gen] ELSE Idle]
          /\ UNCHANGED <<slot, proc, entry>>
     ELSE Resolve(c, q.want, q.seen)
  /\ UNCHANGED <<os, dispose>>

-----------------------------------------------------------------------------
(* bootstrapStartup and startProcessForSlot. *)

(* Mutant: the promise is left to the bootstrap. *)
FailNoChildMut(g) ==
  /\ slot' = IF Owns(slot, g, {"STARTUP"}) THEN [slot EXCEPT !.st = "EMPTY"] ELSE slot
  /\ entry' = [entry EXCEPT ![g].stage = "over"]

(* failNoChildStartup: only this exact entry without a process is cleaned. *)
FailNoChild(g) ==
  /\ slot' = IF Owns(slot, g, {"STARTUP"}) THEN [slot EXCEPT !.st = "EMPTY"] ELSE slot
  /\ Settle(g, "failed")

(* workspaceBootstrap.ensure returned: the rest up to the initialize       *)
(* request is one task.  A preparation may throw, the spawn may throw, or  *)
(* leave a child object with or without an OS process.                     *)
Boot(g) ==
  /\ Quiet /\ entry[g].stage = "boot"
  /\ \/ FailNoChild(g) /\ UNCHANGED <<proc, os>>
     \/ /\ dispose = "no"
        /\ FailNoChild(g)
        /\ proc' = [proc EXCEPT ![g].state = "EXITED", ![g].exit = TRUE]
        /\ UNCHANGED os
     \/ /\ dispose = "no"
        /\ entry' = [entry EXCEPT ![g].stage = "spawned"]
        /\ proc' = [proc EXCEPT ![g].state = "INITIALIZING"]
        /\ \E child \in {"running", "nopid"} : os' = [os EXCEPT ![g] = child]
        /\ UNCHANGED slot
  /\ UNCHANGED <<caller, dispose>>

(* ready() succeeds, and only the exact STARTUP entry becomes READY. *)
Initialized(g) ==
  /\ Quiet /\ proc[g].state = "INITIALIZING" /\ os[g] = "running"
  /\ IF Owns(slot, g, {"STARTUP"})
     THEN /\ slot' = [slot EXCEPT !.st = "READY"]
          /\ proc' = [proc EXCEPT ![g].state = "READY"]
          /\ Settle(g, "ready")
     ELSE Fatal(g)
  /\ UNCHANGED <<os, caller, dispose>>

(* The initialize deadline or error, a child error, a broken stdin. *)
ProcessFails(g) ==
  /\ Quiet /\ proc[g].state \in {"INITIALIZING", "READY", "DRAINING"}
  /\ ~proc[g].exit /\ ~proc[g].killed
  /\ Fatal(g)
  /\ UNCHANGED <<os, caller, dispose>>

(* The error event of a child without a pid: casStartupEmpty is refused    *)
(* (the child object is owned), EXITED, and reapExitedSlot cleans the slot *)
(* when the exit promise resolves.                                         *)
NoChild(g) ==
  /\ Quiet /\ os[g] = "nopid"
  /\ os' = [os EXCEPT ![g] = "gone"]
  /\ proc' = [proc EXCEPT ![g].state = "EXITED", ![g].exit = TRUE]
  /\ slot' = IF Owns(slot, g, {"STARTUP", "READY", "REAP"}) THEN [slot EXCEPT !.st = "EMPTY"]
             ELSE slot
  /\ Settle(g, "failed")
  /\ UNCHANGED <<caller, dispose>>

-----------------------------------------------------------------------------
(* Shutdown, recovery and exit. *)

(* The reap of an unknown turn, and the retirement of a process whose      *)
(* transport failed.                                                       *)
Retire(g) ==
  /\ Quiet /\ proc[g].state = "READY"
  /\ proc[g].turn = "unknown" \/ (proc[g].failed /\ proc[g].turn = "none")
  /\ Shutdown(g)
  /\ UNCHANGED <<os, caller, dispose>>

(* The grace is over: one SIGKILL, to the owner of the fence. *)
GraceExpires(g) ==
  /\ Quiet /\ proc[g].stop = "grace" /\ ~proc[g].exit
  /\ proc' = [proc EXCEPT ![g].stop = "wait", ![g].killed = @ \/ Owns(slot, g, {"REAP"})]
  /\ UNCHANGED <<slot, entry, os, caller, dispose>>

(* The child ends, of itself or because it was told to. *)
ChildEnds(g) ==
  /\ Quiet /\ os[g] = "running"
  /\ os' = [os EXCEPT ![g] = "zombie"]
  /\ UNCHANGED <<slot, entry, proc, caller, dispose>>

(* The OS process is collected before its exit callback has run. *)
Collected(g) ==
  /\ Quiet /\ os[g] = "zombie"
  /\ os' = [os EXCEPT ![g] = "reaped"]
  /\ UNCHANGED <<slot, entry, proc, caller, dispose>>

(* onChildExit.  When the slot is no longer this process's the cleanup is  *)
(* blocked: the process never becomes EXITED and its turn stays fenced.    *)
ChildExit(g) ==
  LET s == IF proc[g].state = "DRAINING" THEN slot ELSE CasReap(g)
      cleaned == Owns(s, g, {"REAP"})
  IN
  /\ Quiet /\ os[g] \in {"zombie", "reaped"}
  /\ os' = [os EXCEPT ![g] = "gone"]
  /\ slot' = IF cleaned THEN [s EXCEPT !.st = "EMPTY"] ELSE s
  /\ proc' = [proc EXCEPT ![g] =
                IF cleaned THEN [@ EXCEPT !.state = "EXITED", !.exit = TRUE, !.turn = "none"]
                ELSE [Draining(@) EXCEPT !.exit = TRUE, !.blocked = TRUE]]
  /\ Settle(g, "failed")
  /\ UNCHANGED <<caller, dispose>>

(* dispose: a startup without a process fails, a process is shut down. *)
Dispose ==
  /\ Quiet /\ dispose = "no"
  /\ dispose' = "waiting"
  /\ LET g == slot.gen IN
       \/ slot.st = "EMPTY" /\ UNCHANGED <<slot, proc, entry>>
       \/ slot.st = "STARTUP" /\ entry[g].stage = "boot" /\ FailNoChild(g) /\ UNCHANGED proc
       \/ slot.st # "EMPTY" /\ entry[g].stage # "boot" /\ Shutdown(g)
  /\ UNCHANGED <<os, caller>>

Disposed ==
  /\ Quiet /\ dispose = "waiting"
  /\ \A g \in Gens : proc[g].state \in {"none", "EXITED"} \/ proc[g].blocked
  /\ dispose' = "done"
  /\ UNCHANGED <<slot, entry, proc, os, caller>>

-----------------------------------------------------------------------------
(* Turns. *)

(* The caller prompts the process it was given; it may be gone by now. *)
TurnBegins(c) ==
  LET g == caller[c].gen IN
  /\ Quiet /\ caller[c].pc = "holds"
  /\ caller' = [caller EXCEPT ![c] = Idle]
  /\ proc' = IF proc[g].state = "READY" /\ proc[g].turn = "none" /\ ~proc[g].failed /\ ~Fenced
             THEN [proc EXCEPT ![g].turn = "busy"] ELSE proc
  /\ UNCHANGED <<slot, entry, os, dispose>>

(* A turn ends, fails in the transport, or passes its deadline; an unknown *)
(* one may still be settled by its late outcome.                           *)
TurnEnds(g) ==
  /\ Quiet /\ proc[g].state = "READY" /\ proc[g].turn # "none"
  /\ \/ \E failed \in BOOLEAN :
          proc' = [proc EXCEPT ![g].turn = "none", ![g].failed = @ \/ failed]
     \/ proc[g].turn = "busy" /\ proc' = [proc EXCEPT ![g].turn = "unknown"]
  /\ UNCHANGED <<slot, entry, os, caller, dispose>>

-----------------------------------------------------------------------------
(* What the runtime sees to: bootstraps return, the initialize deadline,   *)
(* the grace, and the events of a child that was killed.                   *)
Progress ==
  \/ \E c \in Callers : Resume(c)
  \/ \E g \in Gens :
       \/ Boot(g) \/ Initialized(g) \/ NoChild(g) \/ GraceExpires(g) \/ ChildExit(g)
       \/ proc[g].state = "INITIALIZING" /\ ProcessFails(g)
       \/ proc[g].killed /\ ChildEnds(g)
  \/ Disposed

Next ==
  \/ Dispose \/ Disposed
  \/ \E c \in Callers : Request(c) \/ Resume(c) \/ TurnBegins(c)
  \/ \E g \in Gens :
       \/ Boot(g) \/ Initialized(g) \/ ProcessFails(g) \/ NoChild(g)
       \/ Retire(g) \/ GraceExpires(g) \/ ChildEnds(g) \/ Collected(g) \/ ChildExit(g)
       \/ TurnEnds(g)

Spec == Init /\ [][Next]_vars

(* Every step of Progress happens a bounded number of times, so fairness   *)
(* of their disjunction is fairness of each.                               *)
FairSpec == Spec /\ WF_vars(Progress)

-----------------------------------------------------------------------------
TypeOK ==
  /\ slot \in [st : {"EMPTY", "STARTUP", "READY", "REAP"}, gen : 0..MaxGens]
  /\ entry \in [Gens -> [stage : {"none", "boot", "spawned", "over"}, route : Routes,
                         result : {"open", "ready", "failed"}]]
  /\ proc \in [Gens -> [state : {"none", "INITIALIZING", "READY", "DRAINING", "EXITED"},
                        exit : BOOLEAN, turn : {"none", "busy", "unknown"},
                        stop : {"no", "grace", "wait", "refused"}, killed : BOOLEAN,
                        blocked : BOOLEAN, failed : BOOLEAN]]
  /\ os \in [Gens -> {"none", "nopid", "running", "zombie", "reaped", "gone"}]
  /\ dispose \in {"no", "waiting", "done"}

(* No child outlives its slot: while an OS process of the agent runs, the  *)
(* slot is its generation's, so there is one child at a time and disposal  *)
(* reaches it.                                                             *)
NoOrphan == \A g \in Gens : os[g] = "running" => slot.gen = g /\ slot.st # "EMPTY"

(* The guard against a slot that does not converge                         *)
(* (AGENT_PROCESS_SLOT_STALLED) never fires for a real process.            *)
NoStall == \A c \in Callers : caller[c].pc # "stalled"

(* What ensureRunning promises: an agent has one child at a time, the one  *)
(* its slot names, and every caller that waits can go on.                  *)
RegistrySafe == TypeOK /\ NoOrphan /\ NoStall

(* Every startup promise settles, also under disposal, spawn errors and    *)
(* exits, and disposal ends.                                               *)
Unsettled ==
  \/ \E g \in Gens : entry[g].stage # "none" /\ entry[g].result = "open"
  \/ dispose = "waiting"

StartupsSettle == Unsettled ~> ~Unsettled
=============================================================================
