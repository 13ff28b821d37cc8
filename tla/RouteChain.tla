----------------------------- MODULE RouteChain -----------------------------
(***************************************************************************)
(* The ordered route chain of the router (packages/agent-router/src,       *)
(* route-chain.js with process/delivery-resilience.js): the messages for   *)
(* one agent, each tried on the agent's routes in order, with bounded      *)
(* retries on one route, by one child process at a time.                   *)
(*                                                                         *)
(* A message is a turn whose caller waits for the reply, a delivery whose  *)
(* caller gets the receipt only, or a delivery in custody (a conversation  *)
(* source, a website inquiry, a native goal continuation), which is never  *)
(* prompted again once accepted.                                           *)
(*                                                                         *)
(* Startup and shutdown of the process are the subject of ProcessRegistry, *)
(* the turn protocol is the subject of RouterTurn: here a spawn succeeds   *)
(* or fails in one step, and a prompt is running, of unknown outcome, or   *)
(* over.  A strict request is one with a single route; the canary seam,    *)
(* off by default, is left out.                                            *)
(***************************************************************************)
EXTENDS Naturals, Sequences

CONSTANTS
  Messages,
  Modes,       \* message -> the kinds it may be of: turn, deliver, custody
  Routes,      \* the number of routes in the chain
  MaxRetries,  \* retries on one route; the code has two
  MaxGens      \* bound: generations of the child process

VARIABLES
  msg,     \* message -> where its chain stands and what its caller was told
  prompts, \* message -> the prompts written for it, in order
  proc,    \* the child process in the agent's slot
  gen      \* the last generation issued

vars == <<msg, prompts, proc, gen>>

Idle ==
  [pc |-> "idle", mode |-> "turn", route |-> 1, retry |-> 0, gen |-> 0, err |-> "stop",
   late |-> FALSE, told |-> "none", letters |-> {}]

Init ==
  /\ msg = [m \in Messages |-> Idle]
  /\ prompts = [m \in Messages |-> <<>>]
  /\ proc = [st |-> "none", route |-> 1, failed |-> FALSE]
  /\ gen = 0

-----------------------------------------------------------------------------
Last(m) == prompts[m][Len(prompts[m])]

(* The prompt of m that its process has not settled. *)
Open(m, outs) == prompts[m] # <<>> /\ Last(m).out \in outs

(* An unknown turn fences the agent.  Once it is fenced its queue is empty *)
(* and turnInFlight false: the process is not busy.                        *)
Fenced == \E m \in Messages : Open(m, {"unknown"})
Busy == \E m \in Messages : Open(m, {"running"}) \/ (msg[m].pc = "queued" /\ msg[m].gen = gen)

(* preAdmissionError, on the process that m has acquired. *)
Admits(m) == msg[m].gen = gen /\ proc.st = "ready" /\ ~proc.failed /\ ~Fenced

(* The attempt of q throws.  After an accepted delivery nobody is waiting: *)
(* the failure is logged.  Otherwise the class of the error and the        *)
(* deadline decide whether the next route is tried.                        *)
Over(q, told) == [Idle EXCEPT !.pc = "done", !.mode = q.mode, !.told = told, !.letters = q.letters]

Thrown(q, class) ==
  IF q.told = "accepted" THEN Over(q, "accepted")
  ELSE IF class = "hop" /\ q.route < Routes /\ ~q.late
    THEN [Idle EXCEPT !.pc = "acquire", !.mode = q.mode, !.route = q.route + 1, !.letters = q.letters]
    ELSE Over(q, "error")

Throw(m, class) == msg' = [msg EXCEPT ![m] = Thrown(@, class)]

(* The retries have ended: the dead letter is written, or that fails. *)
Exhaust(m) ==
  \E written \in BOOLEAN :
    LET q == IF written THEN [msg[m] EXCEPT !.letters = @ \cup {msg[m].route}] ELSE msg[m]
    IN msg' = [msg EXCEPT ![m] = Thrown(q, q.err)]

Start(m) ==
  /\ msg[m].pc = "idle"
  /\ \E mode \in Modes[m] : msg' = [msg EXCEPT ![m].pc = "acquire", ![m].mode = mode]
  /\ UNCHANGED <<prompts, proc, gen>>

(* The one deadline of the chain. *)
DeadlinePasses(m) ==
  /\ msg[m].pc \notin {"idle", "done"} /\ ~msg[m].late
  /\ msg' = [msg EXCEPT ![m].late = TRUE]
  /\ UNCHANGED <<prompts, proc, gen>>

-----------------------------------------------------------------------------
(* Acquiring a process for the route. *)
Acquires(m) == msg[m].pc = "acquire" /\ ~msg[m].late

Reuse(m) ==
  /\ Acquires(m) /\ ~Fenced
  /\ proc.st = "ready" /\ ~proc.failed /\ proc.route = msg[m].route
  /\ msg' = [msg EXCEPT ![m].pc = "prepare", ![m].gen = gen]
  /\ UNCHANGED <<prompts, proc, gen>>

Spawn(m) ==
  /\ Acquires(m) /\ ~Fenced
  /\ proc.st = "none" /\ gen < MaxGens
  /\ gen' = gen + 1
  /\ proc' = [st |-> "ready", route |-> msg[m].route, failed |-> FALSE]
  /\ msg' = [msg EXCEPT ![m].pc = "prepare", ![m].gen = gen + 1]
  /\ UNCHANGED prompts

(* No child, or a provider error of initialize: the next route.  A timeout *)
(* of initialize: the end.  A fenced agent admits nothing on any route.    *)
SpawnFails(m) ==
  /\ Acquires(m) /\ ~Fenced /\ proc.st = "none"
  /\ \E class \in {"hop", "stop"} : Throw(m, class)
  /\ UNCHANGED <<prompts, proc, gen>>

AcquireFenced(m) ==
  /\ Acquires(m) /\ Fenced
  /\ Throw(m, "hop")
  /\ UNCHANGED <<prompts, proc, gen>>

(* The process is on another route or quarantined, and idle.  A message    *)
(* that is preparing on it does not make it busy.                          *)
RouteSwitch(m) ==
  /\ Acquires(m) /\ ~Fenced
  /\ proc.st = "ready" /\ (proc.failed \/ proc.route # msg[m].route) /\ ~Busy
  /\ proc' = [proc EXCEPT !.st = "draining"]
  /\ UNCHANGED <<msg, prompts, gen>>

-----------------------------------------------------------------------------
(* Preparing the session, and the queue of the process. *)
Prepared(m) ==
  /\ msg[m].pc = "prepare" /\ Admits(m) /\ ~msg[m].late
  /\ msg' = [msg EXCEPT ![m].pc = "queued"]
  /\ UNCHANGED <<prompts, proc, gen>>

(* A timeout or a wrong acknowledgement: an error that was not admitted;   *)
(* an exit, a shutdown or a transport failure: one that stops the chain.   *)
(* The generation is quarantined and retired.                              *)
PrepareFails(m) ==
  /\ msg[m].pc = "prepare"
  /\ \E err \in {"hop", "stop"} :
       msg' = [msg EXCEPT ![m].pc = "retire", ![m].err = err]
  /\ proc' = IF msg[m].gen = gen THEN [proc EXCEPT !.failed = TRUE] ELSE proc
  /\ UNCHANGED <<prompts, gen>>

(* Prepared past the deadline. *)
PreparedLate(m) ==
  /\ msg[m].pc = "prepare" /\ Admits(m) /\ msg[m].late
  /\ Throw(m, "stop")
  /\ UNCHANGED <<prompts, proc, gen>>

(* The gate before prepare, after it, or at the write of the prompt. *)
NotAdmitted(m) ==
  /\ msg[m].pc \in {"prepare", "queued"} /\ ~Admits(m)
  /\ Throw(m, "hop")
  /\ UNCHANGED <<prompts, proc, gen>>

WritePrompt(m) ==
  /\ msg[m].pc = "queued" /\ Admits(m)
  /\ \A n \in Messages : ~Open(n, {"running"})
  /\ prompts' = [prompts EXCEPT ![m] =
       Append(@, [route |-> msg[m].route, gen |-> gen, effect |-> "none", out |-> "running"])]
  /\ msg' = [msg EXCEPT ![m].pc = "turn"]
  /\ UNCHANGED <<proc, gen>>

-----------------------------------------------------------------------------
(* The prompt and its end. *)
Outcome(m, out) == prompts' = [prompts EXCEPT ![m][Len(prompts[m])].out = out]

(* The child calls a tool, or says something (external). *)
ChildActs(m) ==
  /\ Open(m, {"running", "unknown"})
  /\ \E effect \in {"tool", "text"} :
       /\ Last(m).effect \notin {effect, "text"}
       /\ prompts' = [prompts EXCEPT ![m][Len(prompts[m])].effect = effect]
  /\ UNCHANGED <<msg, proc, gen>>

(* The child answers the prompt of a delivery: the caller has its receipt. *)
Receipt(m) ==
  /\ msg[m].pc = "turn" /\ Open(m, {"running"})
  /\ msg[m].mode # "turn" /\ msg[m].told = "none"
  /\ msg' = [msg EXCEPT ![m].told = "accepted"]
  /\ UNCHANGED <<prompts, proc, gen>>

(* The child rejects the prompt, or not a byte of it was written. *)
Refused(m) ==
  /\ msg[m].pc = "turn" /\ Open(m, {"running"})
  /\ msg[m].told = "none" /\ Last(m).effect = "none"
  /\ Outcome(m, "refused") /\ Throw(m, "hop")
  /\ UNCHANGED <<proc, gen>>

(* A turn/end and idle arrive, of a prompt that was accepted. *)
Ends(m) == Open(m, {"running"}) /\ (msg[m].mode = "turn" \/ msg[m].told = "accepted")

Completes(m) ==
  /\ Ends(m)
  /\ Outcome(m, "ok")
  /\ msg' = [msg EXCEPT ![m] = Over(@, IF @.told = "none" THEN "ok" ELSE @.told)]
  /\ UNCHANGED <<proc, gen>>

(* classifyAttemptFailure of a failed turn that was admitted.  It is tried *)
(* on the next route for a quota error without assistant text; the proof   *)
(* that is asked for does not look at tool calls.                          *)
FailureClass(m, quota) == IF quota /\ Last(m).effect # "text" THEN "hop" ELSE "stop"

ProviderFails(m) ==
  /\ Ends(m)
  /\ Outcome(m, "failed")
  /\ IF msg[m].pc = "turn"
     THEN \E quota \in BOOLEAN : Throw(m, FailureClass(m, quota))
     ELSE UNCHANGED msg
  /\ UNCHANGED <<proc, gen>>

(* A connection failure quarantines the generation.  The same route is     *)
(* tried again only when the event log shows that nothing came of the      *)
(* prompt (markTransportRetryEvidence); a gap in the log denies it.        *)
RetryProvenMut(m, gap) == ~gap \* mutant: any event counts as harmless

RetryProven(m, gap) == Last(m).effect = "none" /\ ~gap

ConnectionFails(m) ==
  /\ Ends(m)
  /\ Outcome(m, "cut")
  /\ proc' = [proc EXCEPT !.failed = TRUE]
  /\ \E gap \in BOOLEAN :
       IF msg[m].pc # "turn" THEN UNCHANGED msg
       ELSE IF ~RetryProven(m, gap) THEN Throw(m, "stop")
       ELSE IF msg[m].mode = "custody" THEN Exhaust(m)
       ELSE msg' = [msg EXCEPT ![m].pc = "retire", ![m].err = "stop"]
  /\ UNCHANGED gen

(* No outcome by the deadline of the turn or of its caller, or no receipt: *)
(* the caller that waits is told so, the agent is fenced.                  *)
BecomesUnknown(m) ==
  /\ Open(m, {"running"})
  /\ Outcome(m, "unknown")
  /\ IF msg[m].pc = "turn" /\ msg[m].told = "none" THEN Throw(m, "stop") ELSE UNCHANGED msg
  /\ UNCHANGED <<proc, gen>>

(* The late end of an unknown turn.  Without an exact outcome it rejects a *)
(* delivery whose completion is awaited.                                   *)
LateEnd(m) ==
  /\ Open(m, {"unknown"})
  /\ Outcome(m, "late")
  /\ \/ UNCHANGED msg
     \/ msg[m].pc = "turn" /\ Throw(m, "stop")
  /\ UNCHANGED <<proc, gen>>

(* Recovery at the hard deadline of an unknown turn. *)
Recover(m) ==
  /\ Open(m, {"unknown"}) /\ proc.st = "ready"
  /\ proc' = [proc EXCEPT !.st = "draining"]
  /\ UNCHANGED <<msg, prompts, gen>>

-----------------------------------------------------------------------------
(* Retiring the generation and trying again. *)
RetireShuts(m) ==
  /\ msg[m].pc = "retire" /\ msg[m].gen = gen /\ proc.st = "ready"
  /\ \A n \in Messages : ~Open(n, {"running", "unknown"})
  /\ proc' = [proc EXCEPT !.st = "draining"]
  /\ UNCHANGED <<msg, prompts, gen>>

(* The exit is real: another attempt after a delay, or no more of them. *)
Retired(m) ==
  /\ msg[m].pc = "retire" /\ (msg[m].gen # gen \/ proc.st = "none") /\ ~msg[m].late
  /\ \/ Exhaust(m)
     \/ msg[m].retry < MaxRetries /\ msg' = [msg EXCEPT ![m].pc = "backoff"]
  /\ UNCHANGED <<prompts, proc, gen>>

BackoffOver(m) ==
  /\ msg[m].pc = "backoff" /\ ~msg[m].late
  /\ msg' = [msg EXCEPT ![m].pc = "acquire", ![m].gen = 0, ![m].err = "stop", ![m].retry = @ + 1]
  /\ UNCHANGED <<prompts, proc, gen>>

(* The deadline ends a wait.  It does not end a wait in the queue, and the *)
(* completion of an accepted delivery is not awaited any longer.           *)
Expires(m) ==
  /\ msg[m].late
  /\ \/ msg[m].pc = "acquire" /\ Throw(m, "stop")
     \/ msg[m].pc \in {"retire", "backoff"} /\ Exhaust(m)
     \/ msg[m].pc = "turn" /\ msg[m].told = "accepted" /\ Throw(m, "stop")
  /\ UNCHANGED <<prompts, proc, gen>>

(* The child exits, told to or by itself.  A turn that it leaves behind    *)
(* has no outcome.                                                         *)
ProcExits ==
  /\ proc.st # "none"
  /\ proc' = [proc EXCEPT !.st = "none", !.failed = FALSE]
  /\ prompts' = [m \in Messages |->
       IF Open(m, {"running", "unknown"})
       THEN [prompts[m] EXCEPT ![Len(prompts[m])].out = "lost"] ELSE prompts[m]]
  /\ msg' = [m \in Messages |->
       IF Open(m, {"running", "unknown"}) /\ msg[m].pc = "turn"
       THEN Thrown(msg[m], "stop") ELSE msg[m]]
  /\ UNCHANGED gen

-----------------------------------------------------------------------------
Step(m) ==
  \/ Reuse(m) \/ Spawn(m) \/ SpawnFails(m) \/ AcquireFenced(m) \/ RouteSwitch(m)
  \/ Prepared(m) \/ PrepareFails(m) \/ PreparedLate(m) \/ NotAdmitted(m) \/ WritePrompt(m)
  \/ Receipt(m) \/ Refused(m) \/ Completes(m) \/ ProviderFails(m) \/ ConnectionFails(m)
  \/ BecomesUnknown(m) \/ RetireShuts(m) \/ Retired(m) \/ BackoffOver(m) \/ Expires(m)

Next ==
  \/ \E m \in Messages :
       Start(m) \/ DeadlinePasses(m) \/ Step(m) \/ ChildActs(m) \/ LateEnd(m) \/ Recover(m)
  \/ ProcExits

Spec == Init /\ [][Next]_vars

(* Each message's attempt goes on: timers fire, prompts reach their        *)
(* deadline, and the deadline of the chain passes.  The recovery of an     *)
(* unknown turn and the exit of a process that drains are not needed.      *)
Fairness ==
  \A m \in Messages : WF_vars(DeadlinePasses(m)) /\ WF_vars(Step(m))

-----------------------------------------------------------------------------
TypeOK ==
  /\ \A m \in Messages :
       /\ msg[m].pc \in {"idle", "acquire", "prepare", "queued", "turn", "retire", "backoff", "done"}
       /\ msg[m].mode \in Modes[m] \cup {"turn"} /\ msg[m].route \in 1..Routes
       /\ msg[m].retry \in 0..MaxRetries /\ msg[m].gen \in 0..gen
       /\ msg[m].told \in {"none", "accepted", "ok", "error"} /\ msg[m].letters \subseteq 1..Routes
  /\ proc.st \in {"none", "ready", "draining"} /\ gen \in 0..MaxGens

(* How a prompt may have ended that is followed by another of its message. *)
Reported == {"failed", "cut", "refused"}

(* Every earlier prompt of a message has ended in a failure that its       *)
(* process reported: none is running, unknown, lost or answered when the   *)
(* message is prompted again, and the new prompt goes to a newer           *)
(* generation (retire, markTransportRetryEvidence, the route gate).  On    *)
(* the same route nothing at all had come of the earlier prompt; on the    *)
(* next route it had said nothing.                                         *)
NoReplay ==
  \A m \in Messages : \A i, j \in 1..Len(prompts[m]) :
    LET p == prompts[m][i]
        q == prompts[m][j]
    IN i < j => /\ p.out \in Reported /\ p.gen < q.gen /\ p.route <= q.route
                /\ p.effect \in (IF p.route = q.route THEN {"none"} ELSE {"none", "tool"})

(* A message in custody is not prompted again once it was accepted (the    *)
(* refusal of perform, delivery-resilience.js:113).                        *)
CustodyKept ==
  \A m \in Messages : \A i \in 1..(Len(prompts[m]) - 1) :
    msg[m].mode = "custody" => prompts[m][i].out = "refused"

(* A generation whose connection failed under one message is prompted for  *)
(* no other one (CTR-R4 of AGENT_DELIVERY_RESILIENCE_V1: a bad process is  *)
(* not used again).                                                        *)
QuarantineHolds ==
  \A m, n \in Messages : \A i \in 1..Len(prompts[n]) :
    Open(m, {"running"}) /\ prompts[n][i].out = "cut" => prompts[n][i].gen # Last(m).gen

(* What a caller is told is true: a reply comes from the last prompt; an   *)
(* error is not told of a message that is being answered or was; an        *)
(* acknowledged message was prompted, and not refused.                     *)
AnswerTruth ==
  \A m \in Messages :
    /\ msg[m].told = "ok" => Open(m, {"ok"})
    /\ msg[m].told = "error" => ~Open(m, {"ok", "running"})
    /\ msg[m].told = "accepted" =>
         \E i \in 1..Len(prompts[m]) : prompts[m][i].out # "refused"

(* Who sends a message again that a dead letter asks to send again does    *)
(* not have it done twice on that route: nothing came of its prompts       *)
(* there (exhausted, delivery-resilience.js:71).                           *)
LetterTruth ==
  \A m \in Messages : \A i \in 1..Len(prompts[m]) :
    prompts[m][i].route \in msg[m].letters =>
      prompts[m][i].out \in Reported /\ prompts[m][i].effect = "none"

RouteSafe == NoReplay /\ CustodyKept /\ QuarantineHolds /\ AnswerTruth /\ LetterTruth

(* Every chain ends, and with it its caller's wait: acquisition, retiring  *)
(* and the delays are bounded by the deadline, a queue by the turns before *)
(* it.                                                                     *)
Trying == \E m \in Messages : msg[m].pc \notin {"idle", "done"}

ChainsEnd == Trying ~> ~Trying
=============================================================================
