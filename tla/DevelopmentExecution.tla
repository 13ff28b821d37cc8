------------------------ MODULE DevelopmentExecution ------------------------
(***************************************************************************)
(* The development execution engine and its append-only ledger             *)
(* (packages/development-execution) with the writer authority it keeps for *)
(* its own suite (writerAuthorityRetired: false; with the default every    *)
(* writing operation refuses and the ledger never changes).                *)
(*                                                                         *)
(* A handler runs to its end without an await, but it appends several      *)
(* lines and starts or kills a process in between, and the owning process  *)
(* may die after any of them: each of these steps is an action, and        *)
(* "handler" says which one comes next.  Memory is what a replay of the    *)
(* ledger gives, so one record per execution stands for both.              *)
(***************************************************************************)
EXTENDS Naturals, Sequences, FiniteSets

CONSTANTS
  Execs,          \* executions that may be created
  Keys,           \* dedupe keys with their caller
  NoKey,          \* a start without a dedupe key
  MaxWorktrees,   \* maxWorktrees of the one repository
  MaxContinues,   \* bound: instructions queued for one execution
  MaxCrashes      \* bound: crashes of the owning process

VARIABLES
  led,       \* execution -> its projection, or Unborn
  alive,     \* live backend processes <<execution, run>>
  exits,     \* exits this process has yet to handle <<execution, run, outcome>>
  timers,    \* executions whose timeout is armed (memory)
  handler,   \* the next step of the running handler
  left,      \* executions the recovery has yet to look at
  up,        \* whether the owning process runs
  runs,      \* execution -> backend runs started so far (history)
  crashes

vars == <<led, alive, exits, timers, handler, left, up, runs, crashes>>

Terminal == {"SUCCEEDED", "FAILED", "CANCELLED", "OUTCOME_UNKNOWN"}
Unborn == [state |-> "unborn"]
Born(e) == led[e] # Unborn
Open(e) == Born(e) /\ led[e].state \notin Terminal
Pending(e) == {n \in DOMAIN led[e].queue : led[e].queue[n] = "pending"}

Outcomes == {"session", "nosession", "nonzero", "signal"}

Idle == [pc |-> "idle"]
At(p, e) == [pc |-> p, exec |-> e]
Killing(e, s) == [pc |-> "kill", exec |-> e, outcome |-> s]
Closing(e, s) == [pc |-> "close", exec |-> e, outcome |-> s]

Init ==
  /\ led = [e \in Execs |-> Unborn]
  /\ alive = {} /\ exits = {} /\ timers = {} /\ handler = Idle /\ left = {} /\ up = TRUE
  /\ runs = [e \in Execs |-> 0] /\ crashes = 0

(* The event loop is free. *)
Free == up /\ handler = Idle /\ left = {}

(* start: the dedupe key is looked up among all the executions and the     *)
(* open ones of the repository are counted before anything is written.     *)
Start(e, k) ==
  /\ Free /\ ~Born(e)
  /\ k = NoKey \/ \A f \in Execs : Born(f) => led[f].key # k
  /\ Cardinality({f \in Execs : Open(f)}) < MaxWorktrees
  /\ led' = [led EXCEPT ![e] = [state |-> "undefined", key |-> k, run |-> 0, queue |-> <<>>]]
  /\ handler' = At("starting", e)
  /\ UNCHANGED <<alive, exits, timers, left, up, runs, crashes>>

(* continue: an instruction for a RUNNING execution is queued.  WAITING    *)
(* lasts only inside the handler of an exit, or until a recovery.          *)
Continue(e) ==
  /\ Free /\ Born(e) /\ led[e].state = "RUNNING"
  /\ Len(led[e].queue) < MaxContinues
  /\ led' = [led EXCEPT ![e].queue = Append(@, "pending")]
  /\ UNCHANGED <<alive, exits, timers, handler, left, up, runs, crashes>>

(* cancel, and the timeout: the recorded process is killed first. *)
Cancel(e) ==
  /\ Free /\ Open(e)
  /\ handler' = Killing(e, "CANCELLED")
  /\ UNCHANGED <<led, alive, exits, timers, left, up, runs, crashes>>

Timeout(e) ==
  /\ Free /\ e \in timers
  /\ timers' = timers \ {e}
  /\ handler' = IF Open(e) THEN Killing(e, "FAILED") ELSE Idle
  /\ UNCHANGED <<led, alive, exits, left, up, runs, crashes>>

(* A backend process ends; only the process that started it hears of it. *)
BackendEnds(e, n, outcome) ==
  /\ <<e, n>> \in alive
  /\ alive' = alive \ {<<e, n>>}
  /\ exits' = IF up /\ e \in timers THEN exits \cup {<<e, n, outcome>>} ELSE exits
  /\ UNCHANGED <<led, timers, handler, left, up, runs, crashes>>

(* #onBackendExit returns at once when the execution is terminal. *)
Handles(e) == Open(e)

(* #onBackendExit: exit 0 with a queued instruction and a session resumes  *)
(* the backend with the oldest one, and ends the execution otherwise.      *)
OnExit(e, n, outcome) ==
  /\ Free /\ <<e, n, outcome>> \in exits
  /\ exits' = exits \ {<<e, n, outcome>>}
  /\ timers' = IF Handles(e) THEN timers \ {e} ELSE timers
  /\ handler' = IF ~Handles(e) THEN Idle
                ELSE IF outcome \in {"error", "signal"} THEN Closing(e, "OUTCOME_UNKNOWN")
                ELSE IF outcome = "nonzero" THEN Closing(e, "FAILED")
                ELSE IF Pending(e) # {} /\ outcome = "session" THEN At("waiting", e)
                ELSE Closing(e, "SUCCEEDED")
  /\ UNCHANGED <<led, alive, left, up, runs, crashes>>

(* The handler goes from the step p to the step q of a launch. *)
Launch(e, p, q) == up /\ handler = At(p, e) /\ handler' = q

StateLine(e, s) == led' = [led EXCEPT ![e].state = s]

(* ExecutionLedger.append refuses a second terminal line. *)
TerminalLine(e, s) == IF Open(e) THEN StateLine(e, s) ELSE UNCHANGED led

(* The oldest pending instruction gets its disposition. *)
Dispose(e, d) ==
  \E n \in Pending(e) :
    /\ \A m \in Pending(e) : n <= m
    /\ led' = [led EXCEPT ![e].queue[n] = d]

Starting(e) ==
  /\ Launch(e, "starting", At("spawn", e)) /\ StateLine(e, "STARTING")
  /\ UNCHANGED <<alive, exits, timers, left, up, runs, crashes>>

Waiting(e) ==
  /\ Launch(e, "waiting", At("deliver", e)) /\ StateLine(e, "WAITING")
  /\ UNCHANGED <<alive, exits, timers, left, up, runs, crashes>>

(* #deliverNextContinue: the line is on disk before the backend resumes. *)
Deliver(e) ==
  /\ Launch(e, "deliver", At("spawn", e)) /\ Dispose(e, "delivered")
  /\ UNCHANGED <<alive, exits, timers, left, up, runs, crashes>>

(* backend.run: a spawn that fails ends in an error. *)
Spawn(e) ==
  /\ Launch(e, "spawn", At("running", e))
  /\ runs' = [runs EXCEPT ![e] = @ + 1]
  /\ timers' = timers \cup {e}
  /\ \/ alive' = alive \cup {<<e, runs[e] + 1>>} /\ UNCHANGED exits
     \/ exits' = exits \cup {<<e, runs[e] + 1, "error">>} /\ UNCHANGED alive
  /\ UNCHANGED <<led, left, up, crashes>>

(* The line with the process id follows the start of the process. *)
Running(e) ==
  /\ Launch(e, "running", Idle)
  /\ led' = [led EXCEPT ![e].state = "RUNNING", ![e].run = runs[e]]
  /\ UNCHANGED <<alive, exits, timers, left, up, runs, crashes>>

Kill(e, s) ==
  /\ up /\ handler = Killing(e, s) /\ handler' = Closing(e, s)
  /\ alive' = alive \ {<<e, led[e].run>>}
  /\ exits' = IF <<e, led[e].run>> \in alive /\ e \in timers
              THEN exits \cup {<<e, led[e].run, "signal">>} ELSE exits
  /\ UNCHANGED <<led, timers, left, up, runs, crashes>>

(* Mutant: the terminal line is appended, the queue is left as it is. *)
CloseMut(e, s) ==
  /\ up /\ handler = Closing(e, s) /\ handler' = Idle
  /\ TerminalLine(e, s)
  /\ UNCHANGED <<alive, exits, timers, left, up, runs, crashes>>

(* #failPendingContinues, line by line, then #appendTerminal. *)
Close(e, s) ==
  /\ up /\ handler = Closing(e, s)
  /\ \/ Dispose(e, "undelivered") /\ UNCHANGED handler
     \/ Pending(e) = {} /\ handler' = Idle /\ TerminalLine(e, s)
  /\ UNCHANGED <<alive, exits, timers, left, up, runs, crashes>>

(* The owning process dies; the backends it started live on. *)
Crash ==
  /\ up /\ crashes < MaxCrashes
  /\ up' = FALSE /\ crashes' = crashes + 1
  /\ handler' = Idle /\ left' = {} /\ exits' = {} /\ timers' = {}
  /\ UNCHANGED <<led, alive, runs>>

(* The constructor replays the ledger and looks at the executions. *)
Restart ==
  /\ ~up
  /\ up' = TRUE
  /\ left' = {e \in Execs : Born(e)}
  /\ UNCHANGED <<led, alive, exits, timers, handler, runs, crashes>>

(* #recoverOrphans, one execution: open, and the recorded process is not   *)
(* alive at the moment it is looked at.                                    *)
Orphan(e) == Open(e) /\ <<e, led[e].run>> \notin alive

Recover(e) ==
  /\ up /\ handler = Idle /\ e \in left
  /\ left' = left \ {e}
  /\ handler' = IF Orphan(e) THEN Closing(e, "OUTCOME_UNKNOWN") ELSE Idle
  /\ UNCHANGED <<led, alive, exits, timers, up, runs, crashes>>

Step(e) ==
  \/ Starting(e) \/ Waiting(e) \/ Deliver(e) \/ Spawn(e) \/ Running(e) \/ Recover(e)
  \/ \E s \in Terminal : Kill(e, s) \/ Close(e, s)

Next ==
  \/ \E e \in Execs :
       \/ \E k \in Keys \cup {NoKey} : Start(e, k)
       \/ Continue(e) \/ Cancel(e) \/ Timeout(e) \/ Step(e)
       \/ \E n \in 1..runs[e] :
            \/ \E o \in Outcomes : BackendEnds(e, n, o)
            \/ \E o \in Outcomes \cup {"error"} : OnExit(e, n, o)
  \/ Crash \/ Restart

Spec == Init /\ [][Next]_vars
-----------------------------------------------------------------------------
TypeOK ==
  /\ \A e \in Execs : Born(e) =>
       /\ led[e].state \in Terminal \cup {"undefined", "STARTING", "RUNNING", "WAITING"}
       /\ led[e].run <= runs[e]
       /\ \A n \in DOMAIN led[e].queue : led[e].queue[n] \in {"pending", "delivered", "undelivered"}
  /\ timers \subseteq Execs

(* "A disposition that can never deliver must say so": a terminal          *)
(* execution has no instruction left without a disposition, also when the  *)
(* process died in the middle of closing it.                               *)
QueueAnswered == \A e \in Execs : Born(e) /\ ~Open(e) => Pending(e) = {}

(* An execution reported as succeeded, failed or cancelled has no backend  *)
(* process that still writes into its worktree; only OUTCOME_UNKNOWN may.  *)
NoWriterBehindTerminal ==
  \A e \in Execs : Born(e) /\ led[e].state \in {"SUCCEEDED", "FAILED", "CANCELLED"} =>
    \A n \in 1..runs[e] : <<e, n>> \notin alive

(* One backend process at a time writes into a worktree. *)
OneWriter == \A e \in Execs : Cardinality({n \in 1..runs[e] : <<e, n>> \in alive}) <= 1

(* The repository's worktrees in use never exceed its capacity. *)
CapacityKept == Cardinality({e \in Execs : Open(e)}) <= MaxWorktrees

ExecutionSafe == QueueAnswered /\ NoWriterBehindTerminal /\ OneWriter /\ CapacityKept

(* Exactly one terminal disposition: what a late exit, a timeout, a cancel *)
(* or a recovery does never changes one.                                   *)
OneTerminalStep == \A e \in Execs : Born(e) /\ ~Open(e) => led'[e] = led[e]
=============================================================================
