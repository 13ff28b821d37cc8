--------------------------- MODULE RouteChainProofs ---------------------------
(***************************************************************************)
(* For any messages, kinds, routes, retries and generations: the route     *)
(* chain is type correct and safe (RouteSafe).                             *)
(***************************************************************************)
EXTENDS RouteChain, SequenceTheorems, TLAPS

Kinds == {"turn", "deliver", "custody"}

RouteAssumption ==
  /\ Routes \in Nat \ {0} /\ MaxRetries \in Nat /\ MaxGens \in Nat
  /\ Modes \in [Messages -> SUBSET Kinds]

Waiting == {"acquire", "prepare", "queued", "retire", "backoff"}

Msgs ==
  [pc : Waiting \cup {"idle", "turn", "done"}, mode : Kinds, route : 1..Routes,
   retry : 0..MaxRetries, gen : 0..MaxGens, err : {"hop", "stop"}, late : BOOLEAN,
   told : {"none", "accepted", "ok", "error"}, letters : SUBSET (1..Routes)]

Prompts ==
  [route : 1..Routes, gen : 0..MaxGens, effect : {"none", "tool", "text"},
   out : {"running", "ok", "failed", "cut", "refused", "unknown", "late", "lost"}]

Procs == [st : {"none", "ready", "draining"}, route : 1..Routes, failed : BOOLEAN]

TypeInv ==
  /\ msg \in [Messages -> Msgs] /\ prompts \in [Messages -> Seq(Prompts)]
  /\ proc \in Procs /\ gen \in 0..MaxGens

-----------------------------------------------------------------------------
(* The invariant of one message: q its entry of msg, P its prompts, pr the *)
(* process and g the last generation.                                      *)
Running(P) == P # <<>> /\ P[Len(P)].out = "running"
Unsettled(P) == P # <<>> /\ P[Len(P)].out \in {"running", "unknown"}

(* What the prompts have to do with the process.                           *)
History(P, pr, g) ==
  /\ \A i \in 1..Len(P) :
       /\ P[i].gen <= g
       /\ P[i].gen = g /\ pr.st # "none" => P[i].route = pr.route
       /\ P[i].gen = g /\ pr.st # "none" /\ P[i].out = "cut" => pr.failed
  /\ Unsettled(P) => P[Len(P)].gen = g /\ pr.st # "none"

(* p came to nothing that forbids a prompt r after it.                     *)
Follows(p, r) ==
  /\ p.out \in Reported /\ p.gen < r.gen /\ p.route <= r.route
  /\ p.effect \in (IF p.route = r.route THEN {"none"} ELSE {"none", "tool"})

Ordered(P) == \A i, j \in 1..Len(P) : i < j => Follows(P[i], P[j])
Custody(q, P) == \A i \in 1..(Len(P) - 1) : q.mode = "custody" => P[i].out = "refused"

Answers(q, P) ==
  /\ q.told = "ok" => P # <<>> /\ P[Len(P)].out = "ok"
  /\ q.told = "error" => P = <<>> \/ P[Len(P)].out \notin {"ok", "running"}
  /\ q.told = "accepted" => \E i \in 1..Len(P) : P[i].out # "refused"

Letters(q, P) ==
  \A i \in 1..Len(P) : P[i].route \in q.letters => P[i].out \in Reported /\ P[i].effect = "none"

(* p allows another prompt on the route that q is on.                      *)
Harmless(p, q) ==
  /\ p.out \in Reported /\ p.route <= q.route
  /\ p.effect \in (IF p.route = q.route THEN {"none"} ELSE {"none", "tool"})
  /\ q.mode = "custody" => p.out = "refused"

(* Where the chain stands.                                                 *)
Stage(q, P, pr, g) ==
  /\ q.gen <= g
  /\ q.pc = "idle" => P = <<>> /\ q.told = "none" /\ q.letters = {}
  /\ q.pc \in Waiting \cup {"turn"} =>
       q.told \in {"none", "accepted"} /\ \A r \in q.letters : r < q.route
  /\ q.pc = "done" => q.told # "none"
  /\ q.pc \notin {"retire", "backoff"} => q.err = "stop"
  /\ q.pc = "backoff" => q.retry < MaxRetries
  /\ q.pc \in Waiting => \A i \in 1..Len(P) : Harmless(P[i], q)
  /\ q.pc \in {"acquire", "backoff"} =>
       \A i \in 1..Len(P) : P[i].gen < g \/ pr.st = "none" \/ P[i].route < q.route
  /\ q.pc \in {"prepare", "queued"} =>
       /\ \A i \in 1..Len(P) : P[i].gen < q.gen
       /\ q.gen = g /\ pr.st # "none" => pr.route = q.route
  /\ q.pc = "retire" => \A i \in 1..Len(P) : P[i].gen <= q.gen
  /\ q.pc = "turn" =>
       /\ P # <<>> /\ P[Len(P)].route = q.route /\ P[Len(P)].gen = q.gen
       /\ P[Len(P)].out \in {"running", "unknown", "late"}
       /\ P[Len(P)].out # "running" => q.told = "accepted"
       /\ \A i \in 1..(Len(P) - 1) : Harmless(P[i], q) /\ P[i].gen < q.gen

Sound(q, P, pr, g) ==
  /\ History(P, pr, g) /\ Ordered(P) /\ Custody(q, P) /\ Answers(q, P) /\ Letters(q, P)
  /\ Stage(q, P, pr, g)

(* One prompt at a time.                                                   *)
OneRunning == \A m, n \in Messages : Running(prompts[m]) /\ Running(prompts[n]) => m = n

IInv ==
  /\ TypeInv /\ OneRunning /\ QuarantineHolds
  /\ \A m \in Messages : Sound(msg[m], prompts[m], proc, gen)

-----------------------------------------------------------------------------
(* Sequences of prompts: the last one rewritten, and one appended.         *)
Rewritten(P, P2) ==
  /\ P # <<>> /\ P2 \in Seq(Prompts) /\ Len(P2) = Len(P) /\ Len(P) \in Nat \ {0}
  /\ \A i \in 1..(Len(P) - 1) : P2[i] = P[i]
  /\ P2[Len(P)].route = P[Len(P)].route /\ P2[Len(P)].gen = P[Len(P)].gen

LEMMA LastPrompt ==
  ASSUME NEW P \in Seq(Prompts), P # <<>>
  PROVE  Len(P) \in Nat \ {0} /\ P[Len(P)] \in Prompts
BY EmptySeq, LenProperties, ElementOfSeq

LEMMA RewriteLast ==
  ASSUME NEW P \in Seq(Prompts), P # <<>>, NEW p \in Prompts,
         p.route = P[Len(P)].route, p.gen = P[Len(P)].gen
  PROVE  Rewritten(P, [P EXCEPT ![Len(P)] = p]) /\ [P EXCEPT ![Len(P)] = p][Len(P)] = p
<1>1. Len(P) \in 1..Len(P)
  BY LastPrompt
<1> DEFINE P2 == [P EXCEPT ![Len(P)] = p]
<1>2. P2 \in Seq(Prompts) /\ Len(P2) = Len(P)
      /\ \A j \in 1..Len(P) : P2[j] = IF j = Len(P) THEN p ELSE P[j]
  BY <1>1, ExceptSeq
<1> HIDE DEF P2
<1>3. Rewritten(P, P2) /\ P2[Len(P)] = p
  BY <1>1, <1>2, LastPrompt DEF Rewritten
<1> QED BY <1>3 DEF P2

Outs == {"running", "ok", "failed", "cut", "refused", "unknown", "late", "lost"}

LEMMA RewriteFacts ==
  ASSUME NEW P, NEW P2, Rewritten(P, P2)
  PROVE  /\ Len(P2) = Len(P) /\ Len(P) \in Nat \ {0} /\ P # <<>>
         /\ \A i \in 1..Len(P) : P2[i].gen = P[i].gen
         /\ \A i \in 1..Len(P) : i # Len(P) => P2[i] = P[i]
<1>1. \A i \in 1..Len(P) : i # Len(P) => i \in 1..(Len(P) - 1)
  BY DEF Rewritten
<1> QED BY <1>1 DEF Rewritten

LEMMA Amended ==
  ASSUME TypeInv, NEW m \in Messages, prompts[m] # <<>>, NEW p \in Prompts,
         p.route = Last(m).route, p.gen = Last(m).gen,
         prompts' = [prompts EXCEPT ![m] = [@ EXCEPT ![Len(prompts[m])] = p]]
  PROVE  /\ Rewritten(prompts[m], prompts'[m]) /\ prompts'[m][Len(prompts[m])] = p
         /\ \A n \in Messages : n # m => prompts'[n] = prompts[n]
<1> DEFINE P == prompts[m]
<1>1. P \in Seq(Prompts) /\ P # <<>> /\ Last(m) = P[Len(P)]
  BY DEF TypeInv, Last
<1>2. prompts'[m] = [P EXCEPT ![Len(P)] = p] /\ \A n \in Messages : n # m => prompts'[n] = prompts[n]
  BY DEF TypeInv
<1> HIDE DEF P
<1>3. Rewritten(P, [P EXCEPT ![Len(P)] = p]) /\ [P EXCEPT ![Len(P)] = p][Len(P)] = p
  BY <1>1, RewriteLast
<1> QED BY <1>2, <1>3 DEF P

LEMMA OutcomeRewrites ==
  ASSUME TypeInv, NEW m \in Messages, prompts[m] # <<>>, NEW out \in Outs, Outcome(m, out)
  PROVE  /\ Rewritten(prompts[m], prompts'[m])
         /\ prompts'[m][Len(prompts[m])].out = out
         /\ prompts'[m][Len(prompts[m])].effect = Last(m).effect
         /\ \A n \in Messages : n # m => prompts'[n] = prompts[n]
<1> DEFINE p == [Last(m) EXCEPT !.out = out]
<1>1. Last(m) \in Prompts
  BY LastPrompt DEF TypeInv, Last
<1>2. p \in Prompts /\ p.route = Last(m).route /\ p.gen = Last(m).gen
      /\ p.effect = Last(m).effect /\ p.out = out
  BY <1>1 DEF Prompts, Outs
<1>3. prompts' = [prompts EXCEPT ![m] = [@ EXCEPT ![Len(prompts[m])] = p]]
  BY DEF Outcome, Last
<1> HIDE DEF p
<1> QED BY <1>2, <1>3, Amended

-----------------------------------------------------------------------------
(* The last prompt ends, or does something: what was sound of the earlier  *)
(* ones still is.                                                          *)
LEMMA RewriteKeeps ==
  ASSUME NEW P, NEW P2, NEW q, NEW q2, NEW pr, NEW pr2, NEW g,
         Rewritten(P, P2), Unsettled(P),
         History(P, pr, g), Ordered(P), Custody(q, P), Letters(q, P),
         q2.mode = q.mode, q2.letters = q.letters,
         pr2.st = pr.st, pr2.route = pr.route, pr.failed => pr2.failed,
         P2[Len(P)].out = "cut" => pr2.failed
  PROVE  History(P2, pr2, g) /\ Ordered(P2) /\ Custody(q2, P2) /\ Letters(q2, P2)
<1>1. /\ Len(P2) = Len(P) /\ Len(P) \in Nat \ {0} /\ \A i \in 1..(Len(P) - 1) : P2[i] = P[i]
      /\ P2[Len(P)].route = P[Len(P)].route /\ P2[Len(P)].gen = P[Len(P)].gen
  BY DEF Rewritten
<1>2. /\ \A i \in 1..Len(P) : P2[i].route = P[i].route /\ P2[i].gen = P[i].gen
      /\ \A i \in 1..Len(P) : i # Len(P) => P2[i] = P[i]
  BY <1>1
<1>3. History(P2, pr2, g)
  BY <1>1, <1>2 DEF History, Unsettled
<1>4. Ordered(P2)
  BY <1>1, <1>2 DEF Ordered, Follows
<1>5. Custody(q2, P2)
  BY <1>1 DEF Custody
<1>6. Letters(q2, P2)
  BY <1>1, <1>2 DEF Letters, Unsettled, Reported
<1> QED BY <1>3, <1>4, <1>5, <1>6

(* A chain that ends.                                                      *)
LEMMA IdleTypes ==
  ASSUME RouteAssumption
  PROVE  Idle \in Msgs /\ Idle.err = "stop" /\ Idle.gen = 0 /\ Idle.told = "none"
BY DEF Idle, Msgs, Kinds, RouteAssumption

LEMMA OverKeeps ==
  ASSUME RouteAssumption, NEW q \in Msgs, NEW told \in {"accepted", "ok", "error"},
         NEW P, NEW pr, NEW g \in Nat,
         History(P, pr, g), Ordered(P), Custody(q, P), Letters(q, P),
         told = "ok" => P # <<>> /\ P[Len(P)].out = "ok",
         told = "error" => P = <<>> \/ P[Len(P)].out \notin {"ok", "running"},
         told = "accepted" => \E i \in 1..Len(P) : P[i].out # "refused"
  PROVE  Over(q, told) \in Msgs /\ Sound(Over(q, told), P, pr, g)
<1> DEFINE q2 == Over(q, told)
<1>1. /\ q2 \in Msgs /\ q2.pc = "done" /\ q2.mode = q.mode /\ q2.told = told
      /\ q2.letters = q.letters /\ q2.gen = 0 /\ q2.err = "stop"
  BY IdleTypes DEF Over, Msgs
<1> HIDE DEF q2
<1>2. Custody(q2, P) /\ Letters(q2, P) /\ Answers(q2, P)
  BY <1>1 DEF Custody, Letters, Answers
<1>3. Stage(q2, P, pr, g)
  BY <1>1 DEF Stage, Waiting
<1>4. q2 \in Msgs /\ Sound(q2, P, pr, g)
  BY <1>1, <1>2, <1>3 DEF Sound
<1> QED BY <1>4 DEF q2

(* An attempt that throws: the chain ends, or goes on to the next route    *)
(* when all its prompts allow that.                                        *)
LEMMA StopKeeps ==
  ASSUME RouteAssumption, NEW q \in Msgs, NEW P, NEW pr, NEW g \in Nat,
         History(P, pr, g), Ordered(P), Custody(q, P), Letters(q, P),
         q.told = "accepted" => \E i \in 1..Len(P) : P[i].out # "refused",
         q.told # "accepted" => P = <<>> \/ P[Len(P)].out \notin {"ok", "running"}
  PROVE  Thrown(q, "stop") \in Msgs /\ Sound(Thrown(q, "stop"), P, pr, g)
<1>1. CASE q.told = "accepted"
  BY <1>1, OverKeeps DEF Thrown
<1>2. CASE q.told # "accepted"
  BY <1>2, OverKeeps DEF Thrown
<1> QED BY <1>1, <1>2

LEMMA HopKeeps ==
  ASSUME RouteAssumption, NEW q \in Msgs, NEW class \in {"hop", "stop"},
         NEW P \in Seq(Prompts), NEW pr, NEW g \in Nat,
         History(P, pr, g), Ordered(P), Custody(q, P), Letters(q, P),
         \A r \in q.letters : r <= q.route,
         q.told = "accepted" => \E i \in 1..Len(P) : P[i].out # "refused",
         \A i \in 1..Len(P) :
           /\ P[i].out \in Reported /\ P[i].route <= q.route /\ P[i].effect # "text"
           /\ q.mode = "custody" => P[i].out = "refused"
  PROVE  Thrown(q, class) \in Msgs /\ Sound(Thrown(q, class), P, pr, g)
<1>1. P = <<>> \/ P[Len(P)].out \notin {"ok", "running"}
  BY LastPrompt DEF Reported
<1>2. CASE q.told # "accepted" /\ class = "hop" /\ q.route < Routes /\ ~q.late
  <2> DEFINE q2 == Thrown(q, class)
  <2>1. /\ q2 \in Msgs /\ q2.pc = "acquire" /\ q2.mode = q.mode /\ q2.told = "none"
        /\ q2.letters = q.letters /\ q2.gen = 0 /\ q2.err = "stop" /\ q2.route = q.route + 1
    <3>1. q.route + 1 \in 1..Routes
      BY <1>2 DEF Msgs, RouteAssumption
    <3> QED BY <1>2, <3>1, IdleTypes DEF Thrown, Msgs, Waiting
  <2> HIDE DEF q2
  <2>2. q.route \in Nat /\ (\A r \in q.letters : r \in Nat)
        /\ \A i \in 1..Len(P) : P[i] \in Prompts
    BY ElementOfSeq DEF Msgs, RouteAssumption
  <2>3. \A i \in 1..Len(P) : P[i].route \in Nat /\ P[i].effect \in {"none", "tool"}
    BY <2>2 DEF Prompts
  <2>4. Custody(q2, P) /\ Letters(q2, P) /\ Answers(q2, P)
    BY <2>1 DEF Custody, Letters, Answers
  <2>5. Stage(q2, P, pr, g)
    BY <2>1, <2>2, <2>3 DEF Stage, Waiting, Harmless
  <2>6. q2 \in Msgs /\ Sound(q2, P, pr, g)
    BY <2>1, <2>4, <2>5 DEF Sound
  <2> QED BY <2>6 DEF q2
<1>3. CASE ~(q.told # "accepted" /\ class = "hop" /\ q.route < Routes /\ ~q.late)
  <2>1. Thrown(q, class) = Thrown(q, "stop")
    BY <1>3 DEF Thrown
  <2> QED BY <1>1, <2>1, StopKeeps
<1> QED BY <1>2, <1>3

-----------------------------------------------------------------------------
(* The process changes; the messages stay.                                 *)
LEMMA ProcKeeps ==
  ASSUME NEW q, NEW P, NEW pr, NEW pr2, NEW g, Sound(q, P, pr, g),
         pr2.route = pr.route, pr2.st = "none" <=> pr.st = "none", pr.failed => pr2.failed
  PROVE  Sound(q, P, pr2, g)
<1>1. History(P, pr2, g)
  BY DEF Sound, History
<1>2. Stage(q, P, pr2, g)
  BY DEF Sound, Stage
<1> QED BY <1>1, <1>2 DEF Sound

LEMMA SpawnKeeps ==
  ASSUME RouteAssumption, NEW q \in Msgs, NEW P \in Seq(Prompts), NEW pr, NEW pr2, NEW g \in Nat,
         Sound(q, P, pr, g), pr.st = "none"
  PROVE  Sound(q, P, pr2, g + 1)
<1>1. q.gen \in Nat /\ \A i \in 1..Len(P) : P[i].gen \in Nat /\ P[i].gen <= g
  <2>1. \A i \in 1..Len(P) : P[i] \in Prompts
    BY ElementOfSeq
  <2>2. q.gen \in Nat /\ \A i \in 1..Len(P) : P[i].gen \in Nat
    BY <2>1 DEF Prompts, Msgs, RouteAssumption
  <2> QED BY <2>2 DEF Sound, History
<1>2. History(P, pr2, g + 1)
  BY <1>1 DEF Sound, History
<1>3. Stage(q, P, pr2, g + 1)
  BY <1>1 DEF Sound, Stage
<1> QED BY <1>2, <1>3 DEF Sound

LEMMA ExitKeeps ==
  ASSUME NEW q, NEW P, NEW pr, NEW pr2, NEW g,
         Sound(q, P, pr, g), ~Unsettled(P), pr2.st = "none"
  PROVE  Sound(q, P, pr2, g)
<1>1. History(P, pr2, g)
  BY DEF Sound, History
<1>2. Stage(q, P, pr2, g)
  BY DEF Sound, Stage
<1> QED BY <1>1, <1>2 DEF Sound

(* Only a turn that runs and a chain that has ended have a prompt that is  *)
(* not settled.                                                            *)
LEMMA WhereUnsettled ==
  ASSUME NEW q \in Msgs, NEW P \in Seq(Prompts), NEW pr, NEW g,
         Stage(q, P, pr, g), Unsettled(P)
  PROVE  q.pc \in {"turn", "done"}
<1>1. Len(P) \in 1..Len(P)
  BY LastPrompt DEF Unsettled
<1>2. P # <<>> /\ P[Len(P)].out \notin Reported
  BY DEF Unsettled, Reported
<1> QED BY <1>1, <1>2 DEF Stage, Harmless, Msgs

(* The last prompt changes, and the chain stays where it is.               *)
LEMMA StayKeeps ==
  ASSUME NEW q \in Msgs, NEW P \in Seq(Prompts), NEW P2, NEW pr, NEW pr2, NEW g,
         Sound(q, P, pr, g), Unsettled(P), Rewritten(P, P2),
         pr2.st = pr.st, pr2.route = pr.route, pr.failed => pr2.failed,
         P2[Len(P)].out = "cut" => pr2.failed,
         P2[Len(P)].out # "refused",
         q.told = "error" => P2[Len(P)].out \notin {"ok", "running"},
         q.pc = "turn" =>
           /\ P2[Len(P)].out \in {"running", "unknown", "late"}
           /\ P2[Len(P)].out # "running" => q.told = "accepted"
  PROVE  Sound(q, P2, pr2, g)
<1>1. /\ Len(P2) = Len(P) /\ Len(P) \in Nat \ {0} /\ \A i \in 1..(Len(P) - 1) : P2[i] = P[i]
      /\ P2[Len(P)].route = P[Len(P)].route /\ P2[Len(P)].gen = P[Len(P)].gen
      /\ P2 \in Seq(Prompts)
  BY DEF Rewritten
<1>2. P2 # <<>>
  BY <1>1, EmptySeq
<1>3. History(P2, pr2, g) /\ Ordered(P2) /\ Custody(q, P2) /\ Letters(q, P2)
  BY RewriteKeeps DEF Sound
<1>4. Answers(q, P2)
  <2>1. q.told # "ok"
    BY DEF Sound, Answers, Unsettled
  <2>2. ASSUME q.told = "accepted" PROVE \E i \in 1..Len(P2) : P2[i].out # "refused"
    BY <1>1
  <2> QED BY <1>1, <2>1, <2>2 DEF Answers
<1>5. Stage(q, P2, pr2, g)
  <2>1. q.pc \in {"turn", "done"}
    BY WhereUnsettled DEF Sound
  <2> QED BY <1>1, <1>2, <2>1 DEF Sound, Stage, Waiting
<1> QED BY <1>3, <1>4, <1>5 DEF Sound

(* The last prompt ends, and its attempt throws without a next route.      *)
LEMMA EndKeeps ==
  ASSUME RouteAssumption,
         NEW q \in Msgs, NEW P \in Seq(Prompts), NEW P2, NEW pr, NEW pr2, NEW g \in Nat,
         Sound(q, P, pr, g), Unsettled(P), Rewritten(P, P2),
         pr2.st = pr.st, pr2.route = pr.route, pr.failed => pr2.failed,
         P2[Len(P)].out = "cut" => pr2.failed,
         P2[Len(P)].out \notin {"ok", "running"}, P2[Len(P)].out = "refused" => q.told # "accepted"
  PROVE  Thrown(q, "stop") \in Msgs /\ Sound(Thrown(q, "stop"), P2, pr2, g)
<1>1. Len(P2) = Len(P) /\ Len(P) \in 1..Len(P)
  BY DEF Rewritten
<1>2. History(P2, pr2, g) /\ Ordered(P2) /\ Custody(q, P2) /\ Letters(q, P2)
  BY RewriteKeeps DEF Sound
<1> QED BY <1>1, <1>2, StopKeeps

-----------------------------------------------------------------------------
(* A step of one message: it is enough to look at that message.            *)
ProcMoves ==
  \/ /\ gen' = gen /\ proc'.route = proc.route /\ (proc'.st = "none" <=> proc.st = "none")
     /\ proc.failed => proc'.failed
  \/ proc.st = "none" /\ gen' = gen + 1

LEMMA Others ==
  ASSUME RouteAssumption, IInv, ProcMoves, NEW n \in Messages
  PROVE  Sound(msg[n], prompts[n], proc', gen')
<1>1. msg[n] \in Msgs /\ prompts[n] \in Seq(Prompts) /\ gen \in Nat /\ Sound(msg[n], prompts[n], proc, gen)
  BY DEF IInv, TypeInv, RouteAssumption
<1>2. CASE proc.st = "none" /\ gen' = gen + 1
  BY <1>1, <1>2, SpawnKeeps
<1>3. CASE ~(proc.st = "none" /\ gen' = gen + 1)
  BY <1>1, <1>3, ProcKeeps DEF ProcMoves
<1> QED BY <1>2, <1>3

LEMMA ChainMoves ==
  ASSUME RouteAssumption, IInv, ProcMoves, proc' \in Procs, gen' \in 0..MaxGens,
         NEW m \in Messages, NEW q \in Msgs,
         msg' = [msg EXCEPT ![m] = q], prompts' = prompts,
         Sound(q, prompts[m], proc', gen')
  PROVE  IInv'
<1>1. TypeInv'
  BY DEF IInv, TypeInv
<1>2. OneRunning' /\ QuarantineHolds'
  BY DEF IInv, OneRunning, Running, QuarantineHolds, Open, Last
<1>3. ASSUME NEW n \in Messages PROVE Sound(msg[n], prompts[n], proc, gen)'
  <2>1. CASE n = m
    BY <2>1 DEF IInv, TypeInv
  <2>2. CASE n # m
    <3>1. msg'[n] = msg[n] /\ prompts'[n] = prompts[n]
      BY <2>2 DEF IInv, TypeInv
    <3> QED BY <3>1, Others
  <2> QED BY <2>1, <2>2
<1> QED BY <1>1, <1>2, <1>3 DEF IInv

LEMMA PromptMoves ==
  ASSUME RouteAssumption, IInv, ProcMoves, proc' \in Procs, gen' = gen,
         NEW m \in Messages, NEW q \in Msgs, msg' = [msg EXCEPT ![m] = q],
         prompts' \in [Messages -> Seq(Prompts)], Rewritten(prompts[m], prompts'[m]),
         \A n \in Messages : n # m => prompts'[n] = prompts[n],
         Unsettled(prompts[m]),
         prompts'[m][Len(prompts[m])].out \in {"running", "cut"} => Running(prompts[m]),
         Sound(q, prompts'[m], proc', gen')
  PROVE  IInv'
<1> DEFINE P == prompts[m]
           P2 == prompts'[m]
<1>1. TypeInv'
  BY DEF IInv, TypeInv
<1>2. /\ Len(P2) = Len(P) /\ Len(P) \in Nat \ {0} /\ P # <<>>
      /\ \A i \in 1..Len(P) : P2[i].gen = P[i].gen
      /\ \A i \in 1..Len(P) : i # Len(P) => P2[i] = P[i]
  BY RewriteFacts
<1>3. \A n \in Messages : Running(prompts'[n]) =>
        Running(prompts[n]) /\ prompts'[n][Len(prompts'[n])].gen = prompts[n][Len(prompts[n])].gen
  BY <1>2 DEF Running
<1>4. OneRunning'
  BY <1>3 DEF IInv, OneRunning
<1>5. QuarantineHolds'
  <2> SUFFICES ASSUME NEW a \in Messages, NEW n \in Messages, NEW i \in 1..Len(prompts'[n]),
                      Running(prompts'[a]), prompts'[n][i].out = "cut"
               PROVE  prompts'[n][i].gen # prompts'[a][Len(prompts'[a])].gen
    BY DEF QuarantineHolds, Open, Last, Running
  <2>1. Running(prompts[a]) /\ prompts'[a][Len(prompts'[a])].gen = prompts[a][Len(prompts[a])].gen
    BY <1>3
  <2>2. CASE n = m /\ i = Len(P)
    <3>1. Running(prompts[m])
      BY <2>2
    <3>2. a = m
      BY <2>1, <3>1 DEF IInv, OneRunning
    <3> QED BY <1>2, <2>2, <3>2 DEF Running
  <2>3. CASE ~(n = m /\ i = Len(P))
    <3>1. i \in 1..Len(prompts[n]) /\ prompts[n][i].out = "cut" /\ prompts'[n][i].gen = prompts[n][i].gen
      BY <1>2, <2>3
    <3> QED BY <2>1, <3>1 DEF IInv, QuarantineHolds, Open, Last, Running
  <2> QED BY <2>2, <2>3
<1>6. ASSUME NEW n \in Messages PROVE Sound(msg[n], prompts[n], proc, gen)'
  <2>1. CASE n = m
    BY <2>1 DEF IInv, TypeInv
  <2>2. CASE n # m
    <3>1. msg'[n] = msg[n] /\ prompts'[n] = prompts[n]
      BY <2>2 DEF IInv, TypeInv
    <3> QED BY <3>1, Others
  <2> QED BY <2>1, <2>2
<1> QED BY <1>1, <1>4, <1>5, <1>6 DEF IInv

LEMMA Here ==
  ASSUME RouteAssumption, IInv, NEW m \in Messages
  PROVE  /\ msg[m] \in Msgs /\ prompts[m] \in Seq(Prompts) /\ Sound(msg[m], prompts[m], proc, gen)
         /\ gen \in Nat /\ gen \in 0..MaxGens /\ proc \in Procs
         /\ msg \in [Messages -> Msgs] /\ prompts \in [Messages -> Seq(Prompts)] /\ TypeInv
BY DEF IInv, TypeInv, RouteAssumption

-----------------------------------------------------------------------------
(* The steps that leave the prompts alone.                                 *)
LEMMA Carry ==
  ASSUME NEW q, NEW q2, NEW P, NEW pr, NEW pr2, NEW g, NEW g2, Sound(q, P, pr, g),
         q2.mode = q.mode, q2.told = q.told, q2.letters = q.letters,
         History(P, pr2, g2), Stage(q2, P, pr2, g2)
  PROVE  Sound(q2, P, pr2, g2)
BY DEF Sound, Custody, Answers, Letters

LEMMA StartKeeps ==
  ASSUME RouteAssumption, IInv, NEW m \in Messages, Start(m) PROVE IInv'
<1> DEFINE q == msg[m]
<1>1. PICK mode \in Modes[m] :
        /\ q.pc = "idle" /\ UNCHANGED <<prompts, proc, gen>>
        /\ msg' = [msg EXCEPT ![m] = [q EXCEPT !.pc = "acquire", !.mode = mode]]
  BY DEF Start
<1> DEFINE q2 == [q EXCEPT !.pc = "acquire", !.mode = mode]
<1>2. q \in Msgs /\ mode \in Kinds /\ Sound(q, prompts[m], proc, gen)
  BY Here DEF RouteAssumption
<1>3. /\ q2 \in Msgs /\ q2.pc = "acquire" /\ q2.told = q.told /\ q2.letters = q.letters
      /\ q2.gen = q.gen /\ q2.err = q.err
  <2> HIDE DEF q
  <2> QED BY <1>2 DEF Msgs, Waiting
<1>4. prompts[m] = <<>> /\ Len(prompts[m]) = 0
  BY <1>1, <1>2 DEF Sound, Stage
<1>5. Sound(q2, prompts[m], proc, gen)
  <2> HIDE DEF q2
  <2>1. Stage(q2, prompts[m], proc, gen)
    BY <1>1, <1>2, <1>3, <1>4 DEF Sound, Stage, Waiting
  <2>2. Custody(q2, prompts[m]) /\ Letters(q2, prompts[m]) /\ Answers(q2, prompts[m])
    BY <1>1, <1>2, <1>3, <1>4 DEF Sound, Stage, Custody, Letters, Answers
  <2> QED BY <1>2, <2>1, <2>2 DEF Sound
<1> HIDE DEF q2
<1> QED BY <1>1, <1>3, <1>5, Here, ChainMoves DEF ProcMoves, q2

LEMMA LateKeeps ==
  ASSUME RouteAssumption, IInv, NEW m \in Messages, DeadlinePasses(m) PROVE IInv'
<1> DEFINE q == msg[m]
           q2 == [q EXCEPT !.late = TRUE]
<1>1. UNCHANGED <<prompts, proc, gen>> /\ msg' = [msg EXCEPT ![m] = q2]
  BY DEF DeadlinePasses
<1>2. q \in Msgs /\ Sound(q, prompts[m], proc, gen)
  BY Here
<1>3. /\ q2 \in Msgs /\ q2.pc = q.pc /\ q2.mode = q.mode /\ q2.told = q.told
      /\ q2.letters = q.letters /\ q2.gen = q.gen /\ q2.err = q.err /\ q2.retry = q.retry
      /\ q2.route = q.route
  <2> HIDE DEF q
  <2> QED BY <1>2 DEF Msgs
<1> HIDE DEF q2, q
<1>4. Stage(q2, prompts[m], proc, gen)
  BY <1>2, <1>3 DEF Sound, Stage, Harmless
<1>5. Sound(q2, prompts[m], proc, gen)
  BY <1>2, <1>3, <1>4, Carry DEF Sound
<1> QED BY <1>1, <1>3, <1>5, Here, ChainMoves DEF ProcMoves

(* A message that waits moves to another waiting step on its route.        *)
LEMMA WaitMoves ==
  ASSUME RouteAssumption, IInv, ProcMoves, proc' \in Procs, gen' \in 0..MaxGens,
         NEW m \in Messages, NEW q2 \in Msgs,
         msg' = [msg EXCEPT ![m] = q2], prompts' = prompts,
         msg[m].pc \in Waiting, q2.pc \in Waiting,
         q2.mode = msg[m].mode, q2.told = msg[m].told, q2.letters = msg[m].letters,
         q2.route = msg[m].route, q2.gen <= gen',
         q2.pc \notin {"retire", "backoff"} => q2.err = "stop",
         q2.pc = "backoff" => q2.retry < MaxRetries,
         q2.pc \in {"acquire", "backoff"} =>
           \A i \in 1..Len(prompts[m]) :
             prompts[m][i].gen < gen' \/ proc'.st = "none" \/ prompts[m][i].route < q2.route,
         q2.pc \in {"prepare", "queued"} =>
           /\ \A i \in 1..Len(prompts[m]) : prompts[m][i].gen < q2.gen
           /\ q2.gen = gen' /\ proc'.st # "none" => proc'.route = q2.route,
         q2.pc = "retire" => \A i \in 1..Len(prompts[m]) : prompts[m][i].gen <= q2.gen
  PROVE  IInv'
<1>1. Sound(msg[m], prompts[m], proc', gen')
  BY Others
<1>2. \A i \in 1..Len(prompts[m]) : Harmless(prompts[m][i], q2)
  BY <1>1 DEF Sound, Stage, Harmless
<1>3. Stage(q2, prompts[m], proc', gen')
  BY <1>1, <1>2 DEF Sound, Stage, Waiting
<1>4. Sound(q2, prompts[m], proc', gen')
  BY <1>1, <1>3, Carry DEF Sound
<1> QED BY <1>4, ChainMoves

LEMMA Numbers ==
  ASSUME RouteAssumption, IInv, NEW m \in Messages
  PROVE  /\ msg[m].route \in Nat /\ msg[m].gen \in Nat
         /\ \A i \in 1..Len(prompts[m]) :
              prompts[m][i] \in Prompts /\ prompts[m][i].gen \in Nat /\ prompts[m][i].route \in Nat
<1>1. msg[m].route \in Nat /\ msg[m].gen \in Nat
  BY Here DEF Msgs, RouteAssumption
<1>2. \A i \in 1..Len(prompts[m]) : prompts[m][i] \in Prompts
  BY Here, ElementOfSeq
<1>3. \A p \in Prompts : p.gen \in Nat /\ p.route \in Nat
  BY DEF Prompts, RouteAssumption
<1> QED BY <1>1, <1>2, <1>3

LEMMA ProcOnly ==
  ASSUME RouteAssumption, IInv, ProcMoves, proc' \in Procs, gen' \in 0..MaxGens,
         msg' = msg, prompts' = prompts
  PROVE  IInv'
<1>1. TypeInv'
  BY DEF IInv, TypeInv
<1>2. OneRunning' /\ QuarantineHolds'
  BY DEF IInv, OneRunning, Running, QuarantineHolds, Open, Last
<1>3. \A n \in Messages : Sound(msg[n], prompts[n], proc, gen)'
  BY Others
<1> QED BY <1>1, <1>2, <1>3 DEF IInv

LEMMA DrainKeeps ==
  ASSUME RouteAssumption, IInv, NEW m \in Messages,
         RouteSwitch(m) \/ Recover(m) \/ RetireShuts(m)
  PROVE  IInv'
<1>1. /\ UNCHANGED <<msg, prompts, gen>> /\ proc.st = "ready"
      /\ proc' = [proc EXCEPT !.st = "draining"]
  BY DEF RouteSwitch, Recover, RetireShuts
<1>2. proc \in Procs /\ gen \in 0..MaxGens
  BY Here
<1>3. proc' \in Procs /\ ProcMoves
  BY <1>1, <1>2 DEF Procs, ProcMoves
<1> QED BY <1>1, <1>2, <1>3, ProcOnly

LEMMA ReuseKeeps ==
  ASSUME RouteAssumption, IInv, NEW m \in Messages, Reuse(m) PROVE IInv'
<1> DEFINE q == msg[m]
           q2 == [q EXCEPT !.pc = "prepare", !.gen = gen]
<1>1. /\ UNCHANGED <<prompts, proc, gen>> /\ msg' = [msg EXCEPT ![m] = q2]
      /\ q.pc = "acquire" /\ proc.st = "ready" /\ proc.route = q.route
  BY DEF Reuse, Acquires
<1>2. q \in Msgs /\ Sound(q, prompts[m], proc, gen) /\ gen \in Nat /\ gen \in 0..MaxGens /\ proc \in Procs
  BY Here
<1>3. /\ q2 \in Msgs /\ q2.pc = "prepare" /\ q2.mode = q.mode /\ q2.told = q.told
      /\ q2.letters = q.letters /\ q2.gen = gen /\ q2.err = q.err /\ q2.route = q.route
  <2> HIDE DEF q
  <2> QED BY <1>2 DEF Msgs, Waiting
<1> HIDE DEF q2
<1>4. \A i \in 1..Len(prompts[m]) : prompts[m][i].gen < gen
  <2> SUFFICES ASSUME NEW i \in 1..Len(prompts[m]) PROVE prompts[m][i].gen < gen
    OBVIOUS
  <2>1. prompts[m][i].gen < gen \/ prompts[m][i].route < q.route
    BY <1>1, <1>2 DEF Sound, Stage
  <2>2. /\ prompts[m][i].gen \in Nat /\ prompts[m][i].gen <= gen
        /\ prompts[m][i].gen = gen => prompts[m][i].route = q.route
    BY <1>1, <1>2, Numbers DEF Sound, History
  <2> QED BY <1>2, <2>1, <2>2, Numbers
<1>5. q.err = "stop" /\ q.pc \in Waiting /\ q2.pc \in Waiting /\ ProcMoves
  BY <1>1, <1>2, <1>3 DEF Sound, Stage, Waiting, ProcMoves
<1>6. gen' = gen /\ proc' = proc /\ prompts' = prompts /\ q2.gen <= gen'
  BY <1>1, <1>2, <1>3
<1> QED BY <1>1, <1>2, <1>3, <1>4, <1>5, <1>6, WaitMoves

LEMMA SpawnMoves ==
  ASSUME RouteAssumption, IInv, NEW m \in Messages, Spawn(m) PROVE IInv'
<1> DEFINE q == msg[m]
           q2 == [q EXCEPT !.pc = "prepare", !.gen = gen + 1]
<1>1. /\ prompts' = prompts /\ gen' = gen + 1 /\ gen < MaxGens /\ msg' = [msg EXCEPT ![m] = q2]
      /\ proc' = [st |-> "ready", route |-> q.route, failed |-> FALSE]
      /\ q.pc = "acquire" /\ proc.st = "none"
  BY DEF Spawn, Acquires
<1>2. q \in Msgs /\ Sound(q, prompts[m], proc, gen) /\ gen \in Nat /\ gen' \in 0..MaxGens
  BY <1>1, Here DEF RouteAssumption
<1>3. /\ q2 \in Msgs /\ q2.pc = "prepare" /\ q2.mode = q.mode /\ q2.told = q.told
      /\ q2.letters = q.letters /\ q2.gen = gen + 1 /\ q2.err = q.err /\ q2.route = q.route
  <2>1. gen + 1 \in 0..MaxGens
    BY <1>1, <1>2
  <2> HIDE DEF q
  <2> QED BY <1>2, <2>1 DEF Msgs, Waiting
<1> HIDE DEF q2
<1>4. \A i \in 1..Len(prompts[m]) : prompts[m][i].gen < gen + 1
  BY <1>2, Numbers DEF Sound, History
<1>5. proc' \in Procs /\ proc'.route = q.route
  BY <1>1, <1>2 DEF Procs, Msgs
<1>6. q.err = "stop" /\ q.pc \in Waiting /\ q2.pc \in Waiting /\ ProcMoves /\ q2.gen <= gen'
  BY <1>1, <1>2, <1>3 DEF Sound, Stage, Waiting, ProcMoves
<1> QED BY <1>1, <1>2, <1>3, <1>4, <1>5, <1>6, WaitMoves

LEMMA PreparedKeeps ==
  ASSUME RouteAssumption, IInv, NEW m \in Messages, Prepared(m) PROVE IInv'
<1> DEFINE q == msg[m]
           q2 == [q EXCEPT !.pc = "queued"]
<1>1. UNCHANGED <<prompts, proc, gen>> /\ msg' = [msg EXCEPT ![m] = q2] /\ q.pc = "prepare"
  BY DEF Prepared
<1>2. q \in Msgs /\ Sound(q, prompts[m], proc, gen) /\ gen \in 0..MaxGens /\ proc \in Procs
  BY Here
<1>3. /\ q2 \in Msgs /\ q2.pc = "queued" /\ q2.mode = q.mode /\ q2.told = q.told
      /\ q2.letters = q.letters /\ q2.gen = q.gen /\ q2.err = q.err /\ q2.route = q.route
  <2> HIDE DEF q
  <2> QED BY <1>2 DEF Msgs, Waiting
<1> HIDE DEF q2
<1>4. q.pc \in Waiting /\ q2.pc \in Waiting /\ ProcMoves
  BY <1>1, <1>3 DEF Waiting, ProcMoves
<1>5. /\ q2.err = "stop" /\ q2.gen <= gen
      /\ \A i \in 1..Len(prompts[m]) : prompts[m][i].gen < q2.gen
      /\ q2.gen = gen /\ proc.st # "none" => proc.route = q2.route
  BY <1>1, <1>2, <1>3 DEF Sound, Stage
<1> QED BY <1>1, <1>2, <1>3, <1>4, <1>5, WaitMoves

LEMMA PrepareFailsKeeps ==
  ASSUME RouteAssumption, IInv, NEW m \in Messages, PrepareFails(m) PROVE IInv'
<1> DEFINE q == msg[m]
<1>1. PICK err \in {"hop", "stop"} : msg' = [msg EXCEPT ![m] = [q EXCEPT !.pc = "retire", !.err = err]]
  BY DEF PrepareFails
<1> DEFINE q2 == [q EXCEPT !.pc = "retire", !.err = err]
<1>2. /\ prompts' = prompts /\ gen' = gen /\ q.pc = "prepare"
      /\ proc' = IF q.gen = gen THEN [proc EXCEPT !.failed = TRUE] ELSE proc
  BY DEF PrepareFails
<1>3. q \in Msgs /\ Sound(q, prompts[m], proc, gen) /\ gen \in 0..MaxGens /\ proc \in Procs
  BY Here
<1>4. /\ q2 \in Msgs /\ q2.pc = "retire" /\ q2.mode = q.mode /\ q2.told = q.told
      /\ q2.letters = q.letters /\ q2.gen = q.gen /\ q2.route = q.route
  <2> HIDE DEF q
  <2> QED BY <1>3 DEF Msgs, Waiting
<1>5. proc' \in Procs /\ ProcMoves
  BY <1>2, <1>3 DEF Procs, ProcMoves
<1> HIDE DEF q2
<1>6. q.pc \in Waiting /\ q2.pc \in Waiting
  BY <1>2, <1>4 DEF Waiting
<1>7. q2.gen <= gen /\ \A i \in 1..Len(prompts[m]) : prompts[m][i].gen <= q2.gen
  BY <1>2, <1>3, <1>4, Numbers DEF Sound, Stage
<1> QED BY <1>1, <1>2, <1>3, <1>4, <1>5, <1>6, <1>7, WaitMoves DEF q2

LEMMA BackoffKeeps ==
  ASSUME RouteAssumption, IInv, NEW m \in Messages, UNCHANGED <<prompts, proc, gen>>,
         msg[m].pc = "retire", msg[m].gen # gen \/ proc.st = "none", msg[m].retry < MaxRetries,
         msg' = [msg EXCEPT ![m].pc = "backoff"]
  PROVE  IInv'
<1> DEFINE q == msg[m]
           q2 == [q EXCEPT !.pc = "backoff"]
<1>1. q \in Msgs /\ Sound(q, prompts[m], proc, gen) /\ gen \in 0..MaxGens /\ proc \in Procs
  BY Here
<1>2. /\ q2 \in Msgs /\ q2.pc = "backoff" /\ q2.mode = q.mode /\ q2.told = q.told
      /\ q2.letters = q.letters /\ q2.gen = q.gen /\ q2.route = q.route /\ q2.retry = q.retry
  <2> HIDE DEF q
  <2> QED BY <1>1 DEF Msgs, Waiting
<1> HIDE DEF q2
<1>3. q.pc \in Waiting /\ q2.pc \in Waiting /\ ProcMoves
  BY <1>2 DEF Waiting, ProcMoves
<1>4. q2.gen <= gen /\ \A i \in 1..Len(prompts[m]) : prompts[m][i].gen < gen \/ proc.st = "none"
  BY <1>1, <1>2, Numbers, Here DEF Sound, Stage
<1> QED BY <1>1, <1>2, <1>3, <1>4, WaitMoves DEF q2

LEMMA BackoffOverKeeps ==
  ASSUME RouteAssumption, IInv, NEW m \in Messages, BackoffOver(m) PROVE IInv'
<1> DEFINE q == msg[m]
           q2 == [q EXCEPT !.pc = "acquire", !.gen = 0, !.err = "stop", !.retry = @ + 1]
<1>1. UNCHANGED <<prompts, proc, gen>> /\ msg' = [msg EXCEPT ![m] = q2] /\ q.pc = "backoff"
  BY DEF BackoffOver
<1>2. q \in Msgs /\ Sound(q, prompts[m], proc, gen) /\ gen \in 0..MaxGens /\ proc \in Procs
  BY Here
<1>3. q.retry + 1 \in 0..MaxRetries /\ 0 \in 0..MaxGens
  BY <1>1, <1>2 DEF Sound, Stage, Msgs, RouteAssumption
<1>4. /\ q2 \in Msgs /\ q2.pc = "acquire" /\ q2.mode = q.mode /\ q2.told = q.told
      /\ q2.letters = q.letters /\ q2.gen = 0 /\ q2.err = "stop" /\ q2.route = q.route
  <2> HIDE DEF q
  <2> QED BY <1>2, <1>3 DEF Msgs, Waiting
<1> HIDE DEF q2
<1>5. q.pc \in Waiting /\ q2.pc \in Waiting /\ ProcMoves
  BY <1>1, <1>4 DEF Waiting, ProcMoves
<1>6. /\ q2.gen <= gen
      /\ \A i \in 1..Len(prompts[m]) :
           prompts[m][i].gen < gen \/ proc.st = "none" \/ prompts[m][i].route < q2.route
  BY <1>1, <1>2, <1>4 DEF Sound, Stage
<1> QED BY <1>1, <1>2, <1>4, <1>5, <1>6, WaitMoves

-----------------------------------------------------------------------------
(* A waiting attempt throws.                                               *)
LEMMA WaitThrows ==
  ASSUME RouteAssumption, IInv, NEW m \in Messages, NEW q \in Msgs, NEW class \in {"hop", "stop"},
         UNCHANGED <<prompts, proc, gen>>, msg' = [msg EXCEPT ![m] = Thrown(q, class)],
         msg[m].pc \in Waiting, q.route = msg[m].route, q.mode = msg[m].mode, q.told = msg[m].told,
         q.letters \subseteq msg[m].letters \cup {msg[m].route}
  PROVE  IInv'
<1> DEFINE P == prompts[m]
<1>1. P \in Seq(Prompts) /\ Sound(msg[m], P, proc, gen) /\ gen \in Nat /\ gen \in 0..MaxGens /\ proc \in Procs
  BY Here
<1>2. \A i \in 1..Len(P) : Harmless(P[i], msg[m])
  BY <1>1 DEF Sound, Stage
<1>3. Letters(q, P)
  BY <1>1, <1>2 DEF Sound, Letters, Harmless
<1>4. \A r \in q.letters : r <= q.route
  BY <1>1, Numbers DEF Sound, Stage, Msgs, RouteAssumption
<1>5. \A i \in 1..Len(P) :
        /\ P[i].out \in Reported /\ P[i].route <= q.route /\ P[i].effect # "text"
        /\ q.mode = "custody" => P[i].out = "refused"
  BY <1>2 DEF Harmless
<1>6. /\ q.told = "accepted" => \E i \in 1..Len(P) : P[i].out # "refused"
      /\ History(P, proc, gen) /\ Ordered(P) /\ Custody(q, P)
  BY <1>1 DEF Sound, Answers, Custody
<1>7. Thrown(q, class) \in Msgs /\ Sound(Thrown(q, class), P, proc, gen)
  <2> HIDE DEF P
  <2> QED BY <1>1, <1>3, <1>4, <1>5, <1>6, HopKeeps
<1> QED BY <1>1, <1>7, ChainMoves DEF ProcMoves

LEMMA ThrowKeeps ==
  ASSUME RouteAssumption, IInv, NEW m \in Messages,
         SpawnFails(m) \/ AcquireFenced(m) \/ PreparedLate(m) \/ NotAdmitted(m)
  PROVE  IInv'
<1>1. msg[m].pc \in Waiting /\ UNCHANGED <<prompts, proc, gen>>
  BY DEF SpawnFails, AcquireFenced, PreparedLate, NotAdmitted, Acquires, Waiting
<1>2. PICK class \in {"hop", "stop"} : msg' = [msg EXCEPT ![m] = Thrown(msg[m], class)]
  BY DEF SpawnFails, AcquireFenced, PreparedLate, NotAdmitted, Throw
<1> QED BY <1>1, <1>2, Here, WaitThrows

LEMMA ExhaustKeeps ==
  ASSUME RouteAssumption, IInv, NEW m \in Messages, msg[m].pc \in Waiting,
         Exhaust(m), UNCHANGED <<prompts, proc, gen>>
  PROVE  IInv'
<1>1. PICK written \in BOOLEAN :
        msg' = [msg EXCEPT ![m] =
          Thrown(IF written THEN [msg[m] EXCEPT !.letters = @ \cup {msg[m].route}] ELSE msg[m], msg[m].err)]
  <2>1. \A l : [msg[m] EXCEPT !.letters = l].err = msg[m].err
    BY Here DEF Msgs
  <2> QED BY <2>1 DEF Exhaust
<1> DEFINE q == IF written THEN [msg[m] EXCEPT !.letters = @ \cup {msg[m].route}] ELSE msg[m]
<1>2. /\ q \in Msgs /\ q.route = msg[m].route /\ q.mode = msg[m].mode /\ q.told = msg[m].told
      /\ q.letters \subseteq msg[m].letters \cup {msg[m].route} /\ msg[m].err \in {"hop", "stop"}
  <2> HIDE DEF Msgs
  <2>1. msg[m] \in Msgs
    BY Here
  <2> QED BY <2>1 DEF Msgs
<1> HIDE DEF q
<1> QED BY <1>1, <1>2, WaitThrows DEF q

-----------------------------------------------------------------------------
(* The steps of a prompt.                                                  *)
LEMMA OpenPrompt ==
  ASSUME RouteAssumption, IInv, NEW m \in Messages, Unsettled(prompts[m])
  PROVE  /\ prompts[m] # <<>> /\ Len(prompts[m]) \in 1..Len(prompts[m])
         /\ Last(m) = prompts[m][Len(prompts[m])] /\ Last(m) \in Prompts
         /\ msg[m].pc \in {"turn", "done"}
<1>1. prompts[m] # <<>>
  BY DEF Unsettled
<1>2. msg[m].pc \in {"turn", "done"}
  BY Here, WhereUnsettled DEF Sound
<1> QED BY <1>1, <1>2, Here, LastPrompt DEF Last

LEMMA ActsKeeps ==
  ASSUME RouteAssumption, IInv, NEW m \in Messages, ChildActs(m) PROVE IInv'
<1>1. Unsettled(prompts[m]) /\ UNCHANGED <<msg, proc, gen>>
  BY DEF ChildActs, Open, Last, Unsettled
<1>2. PICK effect \in {"tool", "text"} :
        prompts' = [prompts EXCEPT ![m][Len(prompts[m])].effect = effect]
  BY DEF ChildActs
<1> DEFINE p == [Last(m) EXCEPT !.effect = effect]
<1>3. p \in Prompts /\ p.route = Last(m).route /\ p.gen = Last(m).gen /\ p.out = Last(m).out
  BY <1>1, OpenPrompt DEF Prompts
<1>4. prompts' = [prompts EXCEPT ![m] = [@ EXCEPT ![Len(prompts[m])] = p]]
  BY <1>2 DEF Last
<1> HIDE DEF p
<1>5. /\ Rewritten(prompts[m], prompts'[m]) /\ prompts'[m][Len(prompts[m])] = p
      /\ \A n \in Messages : n # m => prompts'[n] = prompts[n]
  BY <1>1, <1>3, <1>4, Here, OpenPrompt, Amended
<1>6. prompts' \in [Messages -> Seq(Prompts)]
  BY <1>4, <1>5, Here DEF Rewritten
<1>7. prompts'[m][Len(prompts[m])].out = prompts[m][Len(prompts[m])].out
  BY <1>1, <1>3, <1>5, OpenPrompt
<1>8. Sound(msg[m], prompts'[m], proc', gen')
  <2>1. prompts[m][Len(prompts[m])].out \in {"running", "unknown"}
    BY <1>1 DEF Unsettled
  <2>2. /\ msg[m].told = "error" => prompts[m][Len(prompts[m])].out \notin {"ok", "running"}
        /\ msg[m].pc = "turn" /\ prompts[m][Len(prompts[m])].out # "running" =>
             msg[m].told = "accepted"
    BY <1>1, Here, OpenPrompt DEF Sound, Answers, Stage
  <2> QED BY <1>1, <1>5, <1>7, <2>1, <2>2, Here, StayKeeps
<1>9. msg' = [msg EXCEPT ![m] = msg[m]] /\ ProcMoves /\ proc' \in Procs
  BY <1>1, Here DEF ProcMoves
<1>10. prompts'[m][Len(prompts[m])].out \in {"running", "cut"} => Running(prompts[m])
  BY <1>1, <1>7 DEF Unsettled, Running
<1> QED BY <1>1, <1>5, <1>6, <1>8, <1>9, <1>10, Here, PromptMoves

(* The prompt of m ends with out.                                          *)
LEMMA EndOfPrompt ==
  ASSUME RouteAssumption, IInv, NEW m \in Messages, Unsettled(prompts[m]),
         NEW out \in Outs \ {"running"}, Outcome(m, out), out = "cut" => Running(prompts[m]),
         ProcMoves, proc' \in Procs, gen' = gen,
         NEW q \in Msgs, msg' = [msg EXCEPT ![m] = q],
         Sound(q, prompts'[m], proc', gen')
  PROVE  IInv'
<1>1. /\ Rewritten(prompts[m], prompts'[m]) /\ prompts'[m][Len(prompts[m])].out = out
      /\ \A n \in Messages : n # m => prompts'[n] = prompts[n]
  BY Here, OpenPrompt, OutcomeRewrites
<1>2. prompts' \in [Messages -> Seq(Prompts)]
  <2>1. prompts' = [prompts EXCEPT ![m] = prompts'[m]]
    BY Here DEF Outcome
  <2> QED BY <1>1, <2>1, Here DEF Rewritten
<1> QED BY <1>1, <1>2, PromptMoves

(* It ends, and the chain ends with it or stays where it is.               *)
LEMMA EndThrows ==
  ASSUME RouteAssumption, IInv, NEW m \in Messages, Unsettled(prompts[m]),
         NEW out \in {"failed", "cut", "unknown", "late"}, Outcome(m, out),
         out = "cut" => Running(prompts[m]) /\ proc'.failed,
         proc' \in Procs, gen' = gen, proc'.st = proc.st, proc'.route = proc.route,
         proc.failed => proc'.failed, Throw(m, "stop")
  PROVE  IInv'
<1>1. /\ Rewritten(prompts[m], prompts'[m]) /\ prompts'[m][Len(prompts[m])].out = out
  BY Here, OpenPrompt, OutcomeRewrites DEF Outs
<1>2. Thrown(msg[m], "stop") \in Msgs /\ Sound(Thrown(msg[m], "stop"), prompts'[m], proc', gen')
  BY <1>1, Here, EndKeeps
<1> QED BY <1>2, EndOfPrompt DEF Throw, ProcMoves, Outs

LEMMA EndStays ==
  ASSUME RouteAssumption, IInv, NEW m \in Messages, Unsettled(prompts[m]),
         NEW out \in {"failed", "cut", "unknown", "late"}, Outcome(m, out),
         out = "cut" => Running(prompts[m]) /\ proc'.failed,
         proc' \in Procs, gen' = gen, proc'.st = proc.st, proc'.route = proc.route,
         proc.failed => proc'.failed, msg' = msg,
         msg[m].pc = "turn" => out \in {"unknown", "late"} /\ msg[m].told = "accepted"
  PROVE  IInv'
<1>1. /\ Rewritten(prompts[m], prompts'[m]) /\ prompts'[m][Len(prompts[m])].out = out
  BY Here, OpenPrompt, OutcomeRewrites DEF Outs
<1>2. Sound(msg[m], prompts'[m], proc', gen')
  BY <1>1, Here, StayKeeps
<1>3. msg' = [msg EXCEPT ![m] = msg[m]]
  BY Here
<1> QED BY <1>2, <1>3, Here, EndOfPrompt DEF ProcMoves, Outs

LEMMA ReceiptKeeps ==
  ASSUME RouteAssumption, IInv, NEW m \in Messages, Receipt(m) PROVE IInv'
<1> DEFINE q == msg[m]
           q2 == [q EXCEPT !.told = "accepted"]
           P == prompts[m]
<1>1. /\ UNCHANGED <<prompts, proc, gen>> /\ msg' = [msg EXCEPT ![m] = q2]
      /\ q.pc = "turn" /\ Running(P) /\ q.told = "none"
  BY DEF Receipt, Open, Last, Running
<1>2. q \in Msgs /\ Sound(q, P, proc, gen) /\ gen \in 0..MaxGens /\ proc \in Procs
  BY Here
<1>3. /\ q2 \in Msgs /\ q2.pc = "turn" /\ q2.mode = q.mode /\ q2.told = "accepted"
      /\ q2.letters = q.letters /\ q2.gen = q.gen /\ q2.err = q.err /\ q2.route = q.route
  <2> HIDE DEF q
  <2> QED BY <1>1, <1>2 DEF Msgs
<1>4. Len(P) \in 1..Len(P) /\ P[Len(P)].out = "running"
  BY <1>1, OpenPrompt DEF Running, Unsettled
<1> HIDE DEF q2
<1>5. Custody(q2, P) /\ Letters(q2, P)
  BY <1>2, <1>3 DEF Sound, Custody, Letters
<1>6. Answers(q2, P)
  <2>1. P[Len(P)].out # "refused"
    BY <1>4
  <2> HIDE DEF P
  <2> QED BY <1>3, <1>4, <2>1 DEF Answers
<1>7. Stage(q2, P, proc, gen)
  <2> HIDE DEF P
  <2> QED BY <1>1, <1>2, <1>3 DEF Sound, Stage, Waiting, Harmless
<1>8. Sound(q2, P, proc, gen)
  BY <1>2, <1>5, <1>6, <1>7 DEF Sound
<1> QED BY <1>1, <1>2, <1>3, <1>8, ChainMoves DEF ProcMoves

(* It ends, and the next route is tried.                                   *)
LEMMA EndHops ==
  ASSUME RouteAssumption, IInv, NEW m \in Messages, NEW out \in {"failed", "refused"},
         msg[m].pc = "turn", msg[m].told = "none", Last(m).effect # "text", Running(prompts[m]),
         msg[m].mode = "custody" => out = "refused",
         Outcome(m, out), Throw(m, "hop"), UNCHANGED <<proc, gen>>
  PROVE  IInv'
<1> DEFINE q == msg[m]
           P == prompts[m]
           P2 == prompts'[m]
<1>1. Unsettled(P) /\ q.pc = "turn" /\ q.told = "none" /\ (q.mode = "custody" => out = "refused")
  BY DEF Running, Unsettled
<1>2. q \in Msgs /\ P \in Seq(Prompts) /\ Sound(q, P, proc, gen) /\ gen \in Nat /\ proc \in Procs
  BY Here
<1>3. Rewritten(P, P2) /\ P2[Len(P)].out = out /\ P2[Len(P)].effect # "text"
  BY <1>1, Here, OpenPrompt, OutcomeRewrites DEF Outs
<1>4. q.route \in Nat /\ q.mode \in Kinds /\ (\A r \in q.letters : r \in Nat)
      /\ \A i \in 1..Len(P) : P[i].route \in Nat
  BY <1>2, Numbers DEF Msgs, RouteAssumption
<1> HIDE DEF P, P2, q
<1>5. History(P2, proc, gen) /\ Ordered(P2) /\ Custody(q, P2) /\ Letters(q, P2)
  BY <1>1, <1>2, <1>3, RewriteKeeps DEF Sound
<1>6. \A i \in 1..Len(P2) :
        /\ P2[i].out \in Reported /\ P2[i].route <= q.route /\ P2[i].effect # "text"
        /\ q.mode = "custody" => P2[i].out = "refused"
  <2>1. P[Len(P)].route = q.route /\ \A i \in 1..(Len(P) - 1) : Harmless(P[i], q)
    BY <1>1, <1>2 DEF Sound, Stage
  <2>2. Len(P2) = Len(P) /\ Len(P) \in Nat \ {0} /\ P2[Len(P)].route = P[Len(P)].route
        /\ \A i \in 1..(Len(P) - 1) : P2[i] = P[i]
    BY <1>3 DEF Rewritten
  <2> SUFFICES ASSUME NEW i \in 1..Len(P)
               PROVE  /\ P2[i].out \in Reported /\ P2[i].route <= q.route /\ P2[i].effect # "text"
                      /\ q.mode = "custody" => P2[i].out = "refused"
    BY <2>2
  <2>3. CASE i = Len(P)
    BY <1>1, <1>3, <1>4, <2>1, <2>2, <2>3 DEF Reported
  <2>4. CASE i # Len(P)
    <3>1. i \in 1..(Len(P) - 1)
      BY <2>2, <2>4
    <3> QED BY <2>1, <2>2, <3>1 DEF Harmless
  <2> QED BY <2>3, <2>4
<1>7. \A r \in q.letters : r <= q.route
  BY <1>1, <1>2, <1>4 DEF Sound, Stage
<1>8. Thrown(q, "hop") \in Msgs /\ Sound(Thrown(q, "hop"), P2, proc, gen)
  <2>1. P2 \in Seq(Prompts)
    BY <1>3 DEF Rewritten
  <2> QED BY <1>1, <1>2, <1>5, <1>6, <1>7, <2>1, HopKeeps
<1> QED BY <1>1, <1>2, <1>8, EndOfPrompt DEF P, P2, q, ProcMoves, Outs, Throw

LEMMA RefusedKeeps ==
  ASSUME RouteAssumption, IInv, NEW m \in Messages, Refused(m) PROVE IInv'
<1>1. Running(prompts[m]) /\ Last(m).effect # "text"
  BY DEF Refused, Open, Last, Running
<1> QED BY <1>1, EndHops DEF Refused

LEMMA CompletesKeeps ==
  ASSUME RouteAssumption, IInv, NEW m \in Messages, Completes(m) PROVE IInv'
<1> DEFINE q == msg[m]
           told == IF q.told = "none" THEN "ok" ELSE q.told
           P == prompts[m]
           P2 == prompts'[m]
<1>1. /\ UNCHANGED <<proc, gen>> /\ Running(P) /\ Unsettled(P) /\ Outcome(m, "ok")
      /\ q.mode = "turn" \/ q.told = "accepted"
      /\ msg' = [msg EXCEPT ![m] = Over(q, told)]
  BY DEF Completes, Ends, Open, Last, Running, Unsettled
<1>2. q \in Msgs /\ P \in Seq(Prompts) /\ Sound(q, P, proc, gen) /\ gen \in Nat /\ proc \in Procs
      /\ q.pc \in {"turn", "done"}
  BY <1>1, Here, OpenPrompt
<1>3. /\ Rewritten(P, P2) /\ P2[Len(P)].out = "ok"
  BY <1>1, Here, OpenPrompt, OutcomeRewrites DEF Outs
<1> HIDE DEF P, P2, q
<1>4. History(P2, proc, gen) /\ Ordered(P2) /\ Custody(q, P2) /\ Letters(q, P2)
  BY <1>1, <1>2, <1>3, RewriteKeeps DEF Sound
<1>5. told \in {"accepted", "ok"}
  <2>1. q.told \in {"none", "accepted", "ok", "error"}
    BY <1>2 DEF Msgs
  <2> QED BY <1>1, <1>2, <2>1 DEF Sound, Answers, Running
<1>6. Len(P2) = Len(P) /\ Len(P2) \in 1..Len(P2) /\ P2 # <<>> /\ P2[Len(P2)].out = "ok"
  <2>1. Len(P2) = Len(P) /\ Len(P) \in Nat \ {0} /\ P2 \in Seq(Prompts)
    BY <1>3 DEF Rewritten
  <2> QED BY <1>3, <2>1, EmptySeq
<1> HIDE DEF told
<1>7. Over(q, told) \in Msgs /\ Sound(Over(q, told), P2, proc, gen)
  <2>1. \E i \in 1..Len(P2) : P2[i].out # "refused"
    BY <1>6
  <2> QED BY <1>2, <1>4, <1>5, <1>6, <2>1, OverKeeps
<1> QED BY <1>1, <1>2, <1>7, EndOfPrompt DEF P, P2, q, ProcMoves, Outs

LEMMA ProviderFailsKeeps ==
  ASSUME RouteAssumption, IInv, NEW m \in Messages, ProviderFails(m) PROVE IInv'
<1>1. /\ UNCHANGED <<proc, gen>> /\ Running(prompts[m]) /\ Unsettled(prompts[m])
      /\ Outcome(m, "failed") /\ (msg[m].mode = "turn" \/ msg[m].told = "accepted")
  BY DEF ProviderFails, Ends, Open, Last, Running, Unsettled
<1>2. proc \in Procs
  BY Here
<1>3. CASE msg[m].pc # "turn"
  <2>1. msg' = msg
    BY <1>3 DEF ProviderFails
  <2> QED BY <1>1, <1>2, <1>3, <2>1, EndStays
<1>4. CASE msg[m].pc = "turn"
  <2>1. PICK quota \in BOOLEAN : Throw(m, FailureClass(m, quota))
    BY <1>4 DEF ProviderFails
  <2>2. CASE Throw(m, "stop")
    BY <1>1, <1>2, <2>2, EndThrows
  <2>3. CASE ~Throw(m, "stop")
    <3>1. Throw(m, "hop") /\ Last(m).effect # "text"
      BY <2>1, <2>3 DEF FailureClass
    <3>2. msg[m].told # "accepted"
      <4>1. msg[m].told = "accepted" => Thrown(msg[m], "hop") = Thrown(msg[m], "stop")
        BY DEF Thrown
      <4> QED BY <2>3, <3>1, <4>1 DEF Throw
    <3>3. msg[m].told = "none" /\ msg[m].mode # "custody"
      BY <1>1, <1>4, <3>2, Here DEF Sound, Stage
    <3> QED BY <1>1, <1>4, <3>1, <3>3, EndHops
  <2> QED BY <2>2, <2>3
<1> QED BY <1>3, <1>4

LEMMA UnknownKeeps ==
  ASSUME RouteAssumption, IInv, NEW m \in Messages, BecomesUnknown(m) PROVE IInv'
<1>1. /\ UNCHANGED <<proc, gen>> /\ Unsettled(prompts[m]) /\ Outcome(m, "unknown")
      /\ IF msg[m].pc = "turn" /\ msg[m].told = "none" THEN Throw(m, "stop") ELSE msg' = msg
  BY DEF BecomesUnknown, Open, Last, Unsettled
<1>2. proc \in Procs /\ (msg[m].pc = "turn" => msg[m].told \in {"none", "accepted"})
  BY Here DEF Sound, Stage
<1> QED BY <1>1, <1>2, EndThrows, EndStays

LEMMA LateEndKeeps ==
  ASSUME RouteAssumption, IInv, NEW m \in Messages, LateEnd(m) PROVE IInv'
<1>1. /\ UNCHANGED <<proc, gen>> /\ Unsettled(prompts[m]) /\ Outcome(m, "late")
      /\ prompts[m][Len(prompts[m])].out = "unknown" /\ (msg' = msg \/ Throw(m, "stop"))
  BY DEF LateEnd, Open, Last, Unsettled
<1>2. proc \in Procs /\ (msg[m].pc = "turn" => msg[m].told = "accepted")
  BY <1>1, Here DEF Sound, Stage
<1> QED BY <1>1, <1>2, EndThrows, EndStays

LEMMA RetiredKeeps ==
  ASSUME RouteAssumption, IInv, NEW m \in Messages, Retired(m) PROVE IInv'
<1>1. msg[m].pc \in Waiting
  BY DEF Retired, Waiting
<1> QED BY <1>1, ExhaustKeeps, BackoffKeeps DEF Retired

LEMMA ExpiresKeeps ==
  ASSUME RouteAssumption, IInv, NEW m \in Messages, Expires(m) PROVE IInv'
<1> DEFINE q == msg[m]
<1>1. UNCHANGED <<prompts, proc, gen>>
  BY DEF Expires
<1>2. CASE q.pc = "acquire" /\ Throw(m, "stop")
  <2>1. q.pc \in Waiting
    BY <1>2 DEF Waiting
  <2> QED BY <1>1, <1>2, <2>1, Here, WaitThrows DEF Throw
<1>3. CASE q.pc \in {"retire", "backoff"} /\ Exhaust(m)
  <2>1. q.pc \in Waiting
    BY <1>3 DEF Waiting
  <2> QED BY <1>1, <1>3, <2>1, ExhaustKeeps
<1>4. CASE q.pc = "turn" /\ q.told = "accepted" /\ Throw(m, "stop")
  <2>1. /\ q \in Msgs /\ gen \in Nat /\ History(prompts[m], proc, gen) /\ Ordered(prompts[m])
        /\ Custody(q, prompts[m]) /\ Letters(q, prompts[m])
        /\ \E i \in 1..Len(prompts[m]) : prompts[m][i].out # "refused"
    BY <1>4, Here DEF Sound, Answers
  <2>2. Thrown(q, "stop") \in Msgs /\ Sound(Thrown(q, "stop"), prompts[m], proc, gen)
    BY <1>4, <2>1, StopKeeps
  <2> QED BY <1>1, <1>4, <2>2, Here, ChainMoves DEF Throw, ProcMoves
<1> QED BY <1>2, <1>3, <1>4 DEF Expires

(* The connection of the turn fails, and nothing came of its prompt.       *)
LEMMA CutFacts ==
  ASSUME RouteAssumption, IInv, NEW m \in Messages, ConnectionFails(m),
         msg[m].pc = "turn", Last(m).effect = "none"
  PROVE  LET q == msg[m]
             P == prompts[m]
             P2 == prompts'[m]
         IN /\ Rewritten(P, P2) /\ P2[Len(P)].out = "cut" /\ P2[Len(P)].effect = "none"
            /\ History(P2, proc', gen) /\ Ordered(P2) /\ Custody(q, P2) /\ Letters(q, P2)
            /\ q.err = "stop" /\ (q.told = "accepted" => \E i \in 1..Len(P2) : P2[i].out # "refused")
            /\ \A i \in 1..Len(P2) :
                 /\ P2[i].out \in Reported /\ P2[i].route <= q.route /\ P2[i].gen <= q.gen
                 /\ P2[i].effect \in (IF P2[i].route = q.route THEN {"none"} ELSE {"none", "tool"})
<1> DEFINE q == msg[m]
           P == prompts[m]
           P2 == prompts'[m]
<1>1. Unsettled(P) /\ Outcome(m, "cut") /\ proc' = [proc EXCEPT !.failed = TRUE]
  BY DEF ConnectionFails, Ends, Open, Last, Unsettled
<1>2. /\ Sound(q, P, proc, gen) /\ q.pc = "turn"
      /\ proc'.st = proc.st /\ proc'.route = proc.route /\ proc'.failed
  BY <1>1, Here DEF Procs
<1>3. Rewritten(P, P2) /\ P2[Len(P)].out = "cut" /\ P2[Len(P)].effect = "none"
  BY <1>1, Here, OpenPrompt, OutcomeRewrites DEF Outs
<1>4. q.route \in Nat /\ q.gen \in Nat
  BY Numbers
<1> HIDE DEF P, P2, q
<1>5. History(P2, proc', gen) /\ Ordered(P2) /\ Custody(q, P2) /\ Letters(q, P2)
  BY <1>1, <1>2, <1>3, RewriteKeeps DEF Sound
<1>6. /\ P[Len(P)].route = q.route /\ P[Len(P)].gen = q.gen /\ q.err = "stop"
      /\ \A i \in 1..(Len(P) - 1) : Harmless(P[i], q) /\ P[i].gen < q.gen
  BY <1>2 DEF Sound, Stage
<1>7. Len(P2) = Len(P) /\ Len(P) \in Nat \ {0} /\ P2[Len(P)].route = P[Len(P)].route
      /\ P2[Len(P)].gen = P[Len(P)].gen /\ \A i \in 1..(Len(P) - 1) : P2[i] = P[i]
  BY <1>3 DEF Rewritten
<1>8. ASSUME NEW i \in 1..Len(P)
      PROVE  /\ P2[i].out \in Reported /\ P2[i].route <= q.route
             /\ P2[i].effect \in (IF P2[i].route = q.route THEN {"none"} ELSE {"none", "tool"})
             /\ P2[i].gen = q.gen \/ P2[i].gen < q.gen
  <2>1. CASE i = Len(P)
    BY <1>3, <1>4, <1>6, <1>7, <2>1 DEF Reported
  <2>2. CASE i # Len(P)
    <3>1. i \in 1..(Len(P) - 1)
      BY <1>7, <2>2
    <3> QED BY <1>6, <1>7, <3>1 DEF Harmless
  <2> QED BY <2>1, <2>2
<1>9. Len(P2) \in 1..Len(P2) /\ P2[Len(P2)].out # "refused"
  BY <1>3, <1>7
<1>10. \A i \in 1..Len(P2) : P2[i].gen <= q.gen
  <2>1. \A i \in 1..Len(P2) : P2[i].gen \in Nat
    <3>1. \A i \in 1..Len(P2) : P2[i] \in Prompts
      BY <1>3, ElementOfSeq DEF Rewritten
    <3> QED BY <3>1 DEF Prompts, RouteAssumption
  <2> QED BY <1>4, <1>7, <1>8, <2>1
<1> QED BY <1>3, <1>5, <1>6, <1>7, <1>8, <1>9, <1>10 DEF P, P2, q

LEMMA CutInCustody ==
  ASSUME RouteAssumption, IInv, NEW m \in Messages, ConnectionFails(m),
         msg[m].pc = "turn", Last(m).effect = "none", msg[m].told = "accepted", Exhaust(m)
  PROVE  \E q \in Msgs : msg' = [msg EXCEPT ![m] = q] /\ Sound(q, prompts'[m], proc', gen)
<1> DEFINE P2 == prompts'[m]
<1>1. PICK written \in BOOLEAN :
        msg' = [msg EXCEPT ![m] =
          Thrown(IF written THEN [msg[m] EXCEPT !.letters = @ \cup {msg[m].route}] ELSE msg[m], msg[m].err)]
  <2>1. \A l : [msg[m] EXCEPT !.letters = l].err = msg[m].err
    BY Here DEF Msgs
  <2> QED BY <2>1 DEF Exhaust
<1> DEFINE q == IF written THEN [msg[m] EXCEPT !.letters = @ \cup {msg[m].route}] ELSE msg[m]
<1>2. /\ q \in Msgs /\ q.mode = msg[m].mode /\ q.told = "accepted"
      /\ q.letters \subseteq msg[m].letters \cup {msg[m].route}
  <2> HIDE DEF Msgs
  <2>1. msg[m] \in Msgs
    BY Here
  <2> QED BY <2>1 DEF Msgs
<1>3. /\ History(P2, proc', gen) /\ Ordered(P2) /\ Custody(msg[m], P2) /\ Letters(msg[m], P2)
      /\ msg[m].err = "stop" /\ (\E i \in 1..Len(P2) : P2[i].out # "refused")
      /\ \A i \in 1..Len(P2) : P2[i].out \in Reported /\ (P2[i].route = msg[m].route => P2[i].effect = "none")
  BY CutFacts
<1> HIDE DEF q, P2
<1>4. Custody(q, P2) /\ Letters(q, P2)
  BY <1>2, <1>3 DEF Custody, Letters
<1>5. Thrown(q, "stop") \in Msgs /\ Sound(Thrown(q, "stop"), P2, proc', gen)
  BY <1>2, <1>3, <1>4, Here, StopKeeps
<1> QED BY <1>1, <1>3, <1>5 DEF q, P2

LEMMA CutRetires ==
  ASSUME RouteAssumption, IInv, NEW m \in Messages, ConnectionFails(m),
         msg[m].pc = "turn", Last(m).effect = "none", msg[m].mode # "custody",
         msg' = [msg EXCEPT ![m].pc = "retire", ![m].err = "stop"]
  PROVE  \E q \in Msgs : msg' = [msg EXCEPT ![m] = q] /\ Sound(q, prompts'[m], proc', gen)
<1> DEFINE P2 == prompts'[m]
           q == msg[m]
           q2 == [q EXCEPT !.pc = "retire", !.err = "stop"]
<1>1. q \in Msgs /\ Sound(q, prompts[m], proc, gen)
  BY Here
<1>2. /\ q2 \in Msgs /\ q2.pc = "retire" /\ q2.mode = q.mode /\ q2.told = q.told
      /\ q2.letters = q.letters /\ q2.gen = q.gen /\ q2.route = q.route
  <2> HIDE DEF q
  <2> QED BY <1>1 DEF Msgs, Waiting
<1>3. /\ History(P2, proc', gen) /\ Ordered(P2) /\ Custody(q, P2) /\ Letters(q, P2)
      /\ (q.told = "accepted" => \E i \in 1..Len(P2) : P2[i].out # "refused")
      /\ \A i \in 1..Len(P2) :
           /\ P2[i].out \in Reported /\ P2[i].route <= q.route /\ P2[i].gen <= q.gen
           /\ P2[i].effect \in (IF P2[i].route = q.route THEN {"none"} ELSE {"none", "tool"})
  BY CutFacts
<1>4. msg' = [msg EXCEPT ![m] = q2]
  OBVIOUS
<1>5. q.told \in {"none", "accepted"} /\ q.gen <= gen /\ (\A r \in q.letters : r < q.route)
  BY <1>1 DEF Sound, Stage
<1> HIDE DEF q2, P2
<1>6. Custody(q2, P2) /\ Letters(q2, P2) /\ Answers(q2, P2)
  BY <1>2, <1>3, <1>5 DEF Custody, Letters, Answers
<1>7. Stage(q2, P2, proc', gen)
  BY <1>2, <1>3, <1>5 DEF Stage, Harmless, Waiting
<1> QED BY <1>2, <1>3, <1>4, <1>6, <1>7 DEF Sound, P2

LEMMA ConnectionFailsKeeps ==
  ASSUME RouteAssumption, IInv, NEW m \in Messages, ConnectionFails(m) PROVE IInv'
<1>1. /\ gen' = gen /\ Running(prompts[m]) /\ Unsettled(prompts[m]) /\ Outcome(m, "cut")
      /\ proc' = [proc EXCEPT !.failed = TRUE] /\ (msg[m].mode = "turn" \/ msg[m].told = "accepted")
  BY DEF ConnectionFails, Ends, Open, Last, Running, Unsettled
<1>2. proc' \in Procs /\ proc'.st = proc.st /\ proc'.route = proc.route /\ proc'.failed
  BY <1>1, Here DEF Procs
<1>3. CASE msg[m].pc # "turn"
  <2>1. msg' = msg
    BY <1>3 DEF ConnectionFails
  <2> QED BY <1>1, <1>2, <1>3, <2>1, EndStays
<1>4. CASE msg[m].pc = "turn"
  <2>1. CASE Throw(m, "stop")
    BY <1>1, <1>2, <2>1, EndThrows
  <2>2. CASE ~Throw(m, "stop")
    <3>1. /\ Last(m).effect = "none"
          /\ \/ msg[m].mode = "custody" /\ Exhaust(m)
             \/ msg[m].mode # "custody" /\ msg' = [msg EXCEPT ![m].pc = "retire", ![m].err = "stop"]
      BY <1>4, <2>2 DEF ConnectionFails, RetryProven
    <3>2. PICK q \in Msgs : msg' = [msg EXCEPT ![m] = q] /\ Sound(q, prompts'[m], proc', gen)
      BY <1>1, <1>4, <3>1, CutInCustody, CutRetires
    <3> QED BY <1>1, <1>2, <3>2, EndOfPrompt DEF ProcMoves, Outs
  <2> QED BY <2>1, <2>2
<1> QED BY <1>3, <1>4

-----------------------------------------------------------------------------
(* A prompt is written.                                                    *)
LEMMA AppendKeeps ==
  ASSUME RouteAssumption, NEW q \in Msgs, NEW q2, NEW P \in Seq(Prompts), NEW r \in Prompts,
         NEW pr, NEW g \in Nat, Sound(q, P, pr, g),
         q.pc = "queued", q.gen = g, pr.st # "none", r.route = q.route, r.gen = g,
         r.effect = "none", r.out = "running",
         q2.pc = "turn", q2.mode = q.mode, q2.route = q.route, q2.gen = q.gen, q2.err = q.err,
         q2.told = q.told, q2.letters = q.letters
  PROVE  Sound(q2, Append(P, r), pr, g)
<1> DEFINE P2 == Append(P, r)
<1>1. /\ Len(P) \in Nat /\ Len(P2) = Len(P) + 1 /\ P2[Len(P2)] = r /\ P2 # <<>>
      /\ \A i \in 1..Len(P) : P2[i] = P[i]
  BY AppendProperties, LenProperties
<1> HIDE DEF P2
<1>2. \A i \in 1..Len(P2) : i = Len(P2) \/ i \in 1..Len(P)
  BY <1>1
<1>3. Len(P2) - 1 = Len(P) /\ Len(P2) \in 1..Len(P2)
  BY <1>1
<1>4. /\ \A i \in 1..Len(P) : Harmless(P[i], q) /\ P[i].gen < g
      /\ pr.route = q.route /\ q.told \in {"none", "accepted"} /\ q.err = "stop"
      /\ \A l \in q.letters : l < q.route
  BY DEF Sound, Stage, Waiting
<1>5. History(P2, pr, g)
  <2>1. \A i \in 1..Len(P2) :
          /\ P2[i].gen <= g
          /\ P2[i].gen = g /\ pr.st # "none" => P2[i].route = pr.route
          /\ P2[i].gen = g /\ pr.st # "none" /\ P2[i].out = "cut" => pr.failed
    BY <1>1, <1>2, <1>4 DEF Sound, History
  <2> QED BY <1>1, <2>1 DEF History
<1>6. Ordered(P2)
  <2> SUFFICES ASSUME NEW i \in 1..Len(P2), NEW j \in 1..Len(P2), i < j PROVE Follows(P2[i], P2[j])
    BY DEF Ordered
  <2>1. i \in 1..Len(P)
    BY <1>1
  <2>2. CASE j = Len(P2)
    BY <1>1, <1>4, <2>1, <2>2 DEF Harmless, Follows
  <2>3. CASE j \in 1..Len(P)
    BY <1>1, <2>1, <2>3 DEF Sound, Ordered
  <2> QED BY <1>2, <2>2, <2>3
<1>7. Custody(q2, P2)
  BY <1>1, <1>3, <1>4 DEF Custody, Harmless
<1>8. Letters(q2, P2)
  <2> SUFFICES ASSUME NEW i \in 1..Len(P2), P2[i].route \in q.letters
               PROVE  P2[i].out \in Reported /\ P2[i].effect = "none"
    BY DEF Letters
  <2>1. i # Len(P2)
    <3>1. q.route \in Nat
      BY DEF Msgs, RouteAssumption
    <3> QED BY <1>1, <1>4, <3>1
  <2> QED BY <1>1, <1>2, <2>1 DEF Sound, Letters
<1>9. Answers(q2, P2)
  <2>1. P2[Len(P2)].out # "refused"
    BY <1>1
  <2> QED BY <1>3, <1>4, <2>1 DEF Answers
<1>10. Stage(q2, P2, pr, g)
  <2>1. \A i \in 1..(Len(P2) - 1) : Harmless(P2[i], q2) /\ P2[i].gen < q2.gen
    BY <1>1, <1>3, <1>4 DEF Harmless
  <2> QED BY <1>1, <1>4, <2>1 DEF Stage, Waiting
<1>11. Sound(q2, P2, pr, g)
  BY <1>5, <1>6, <1>7, <1>8, <1>9, <1>10 DEF Sound
<1> QED BY <1>11 DEF P2

LEMMA WriteKeeps ==
  ASSUME RouteAssumption, IInv, NEW m \in Messages, WritePrompt(m) PROVE IInv'
<1> DEFINE q == msg[m]
           q2 == [q EXCEPT !.pc = "turn"]
           r == [route |-> q.route, gen |-> gen, effect |-> "none", out |-> "running"]
<1>1. /\ UNCHANGED <<proc, gen>> /\ msg' = [msg EXCEPT ![m] = q2]
      /\ prompts' = [prompts EXCEPT ![m] = Append(@, r)]
      /\ q.pc = "queued" /\ q.gen = gen /\ proc.st = "ready" /\ ~proc.failed
      /\ \A n \in Messages : ~Running(prompts[n])
  BY DEF WritePrompt, Admits, Open, Last, Running
<1>2. q \in Msgs /\ prompts[m] \in Seq(Prompts) /\ Sound(q, prompts[m], proc, gen)
      /\ gen \in Nat /\ gen \in 0..MaxGens
  BY Here
<1>3. /\ q2 \in Msgs /\ q2.pc = "turn" /\ q2.mode = q.mode /\ q2.route = q.route /\ q2.gen = q.gen
      /\ q2.err = q.err /\ q2.told = q.told /\ q2.letters = q.letters
  <2> HIDE DEF q
  <2> QED BY <1>2 DEF Msgs
<1>4. r \in Prompts /\ r.out = "running" /\ r.gen = gen /\ r.route = q.route /\ r.effect = "none"
  BY <1>2 DEF Prompts, Msgs
<1> HIDE DEF q2, r
<1>5. /\ prompts'[m] = Append(prompts[m], r) /\ msg'[m] = q2
      /\ \A n \in Messages : n # m => prompts'[n] = prompts[n] /\ msg'[n] = msg[n]
  BY <1>1, Here
<1>6. Sound(q2, prompts'[m], proc', gen')
  BY <1>1, <1>2, <1>3, <1>4, <1>5, AppendKeeps
<1>7. /\ Len(prompts[m]) \in Nat /\ Len(prompts'[m]) = Len(prompts[m]) + 1
      /\ prompts'[m][Len(prompts'[m])] = r /\ prompts'[m] \in Seq(Prompts)
      /\ \A i \in 1..Len(prompts[m]) : prompts'[m][i] = prompts[m][i]
  <2> DEFINE P == prompts[m]
  <2>1. P \in Seq(Prompts) /\ prompts'[m] = Append(P, r)
    BY <1>2, <1>5
  <2> HIDE DEF P
  <2>2. /\ Len(P) \in Nat /\ Len(Append(P, r)) = Len(P) + 1 /\ Append(P, r)[Len(Append(P, r))] = r
        /\ Append(P, r) \in Seq(Prompts) /\ \A i \in 1..Len(P) : Append(P, r)[i] = P[i]
    BY <1>4, <2>1, AppendProperties, LenProperties
  <2> QED BY <2>1, <2>2 DEF P
<1>8. TypeInv'
  BY <1>1, <1>3, <1>5, <1>7, Here DEF TypeInv
<1>9. \A n \in Messages : Running(prompts'[n]) => n = m
  BY <1>1, <1>5
<1>10. QuarantineHolds'
  <2> SUFFICES ASSUME NEW a \in Messages, NEW n \in Messages, NEW i \in 1..Len(prompts'[n]),
                      Running(prompts'[a]), prompts'[n][i].out = "cut"
               PROVE  prompts'[n][i].gen # prompts'[a][Len(prompts'[a])].gen
    BY DEF QuarantineHolds, Open, Last, Running
  <2>1. prompts'[a][Len(prompts'[a])].gen = gen
    BY <1>4, <1>7, <1>9
  <2>2. i \in 1..Len(prompts[n]) /\ prompts[n][i].out = "cut" /\ prompts'[n][i] = prompts[n][i]
    <3>1. CASE n = m
      <4>1. i # Len(prompts'[m])
        BY <1>4, <1>7, <3>1
      <4> QED BY <1>7, <3>1, <4>1
    <3>2. CASE n # m
      BY <1>5, <3>2
    <3> QED BY <3>1, <3>2
  <2>3. prompts[n][i].gen # gen
    BY <1>1, <2>2, Here DEF Sound, History
  <2> QED BY <2>1, <2>2, <2>3
<1>11. ASSUME NEW n \in Messages PROVE Sound(msg[n], prompts[n], proc, gen)'
  <2>1. CASE n = m
    BY <1>5, <1>6, <2>1
  <2>2. CASE n # m
    BY <1>1, <1>5, <2>2, Others DEF ProcMoves
  <2> QED BY <2>1, <2>2
<1> QED BY <1>8, <1>9, <1>10, <1>11 DEF IInv, OneRunning

-----------------------------------------------------------------------------
(* The exit of the child is a step of every message.                       *)
LEMMA LostKeeps ==
  ASSUME RouteAssumption, NEW q \in Msgs, NEW P \in Seq(Prompts), NEW pr, NEW pr2, NEW g \in Nat,
         Sound(q, P, pr, g), Unsettled(P), pr2.st = "none"
  PROVE  LET P2 == [P EXCEPT ![Len(P)].out = "lost"]
             q2 == IF q.pc = "turn" THEN Thrown(q, "stop") ELSE q
         IN P2 \in Seq(Prompts) /\ q2 \in Msgs /\ ~Unsettled(P2) /\ Sound(q2, P2, pr2, g)
<1> DEFINE p == [P[Len(P)] EXCEPT !.out = "lost"]
           P2 == [P EXCEPT ![Len(P)] = p]
           q2 == IF q.pc = "turn" THEN Thrown(q, "stop") ELSE q
<1>1. P # <<>> /\ P[Len(P)] \in Prompts
  BY LastPrompt DEF Unsettled
<1>2. p \in Prompts /\ p.route = P[Len(P)].route /\ p.gen = P[Len(P)].gen /\ p.out = "lost"
  BY <1>1 DEF Prompts
<1> HIDE DEF p
<1>3. Rewritten(P, P2) /\ P2[Len(P)] = p
  BY <1>1, <1>2, RewriteLast
<1> HIDE DEF P2
<1>4. P2[Len(P)].out = "lost" /\ P2 \in Seq(Prompts) /\ Len(P2) = Len(P)
  BY <1>2, <1>3 DEF Rewritten
<1>5. q2 \in Msgs /\ Sound(q2, P2, pr, g)
  <2>1. CASE q.pc = "turn"
    BY <1>3, <1>4, <2>1, EndKeeps
  <2>2. CASE q.pc # "turn"
    BY <1>3, <1>4, <2>2, StayKeeps
  <2> QED BY <2>1, <2>2
<1>6. ~Unsettled(P2)
  BY <1>4 DEF Unsettled
<1> HIDE DEF q2
<1>7. Sound(q2, P2, pr2, g)
  BY <1>5, <1>6, ExitKeeps
<1> QED BY <1>4, <1>5, <1>6, <1>7 DEF P2, p, q2

LEMMA ProcExitsKeeps ==
  ASSUME RouteAssumption, IInv, ProcExits PROVE IInv'
<1>1. /\ gen' = gen /\ proc' \in Procs /\ proc'.st = "none"
      /\ prompts' = [m \in Messages |->
           IF Unsettled(prompts[m]) THEN [prompts[m] EXCEPT ![Len(prompts[m])].out = "lost"] ELSE prompts[m]]
      /\ msg' = [m \in Messages |->
           IF Unsettled(prompts[m]) /\ msg[m].pc = "turn" THEN Thrown(msg[m], "stop") ELSE msg[m]]
  <2>1. proc \in Procs
    BY DEF IInv, TypeInv
  <2>2. \A m \in Messages : Open(m, {"running", "unknown"}) <=> Unsettled(prompts[m])
    BY DEF Open, Last, Unsettled
  <2>3. gen' = gen /\ proc' = [proc EXCEPT !.st = "none", !.failed = FALSE]
    BY DEF ProcExits
  <2>4. proc' \in Procs /\ proc'.st = "none"
    BY <2>1, <2>3 DEF Procs
  <2> QED BY <2>2, <2>3, <2>4 DEF ProcExits
<1>2. ASSUME NEW m \in Messages
      PROVE  /\ msg'[m] \in Msgs /\ prompts'[m] \in Seq(Prompts) /\ ~Unsettled(prompts'[m])
             /\ Sound(msg'[m], prompts'[m], proc', gen')
  <2> DEFINE P == prompts[m]
             q == msg[m]
  <2>1. q \in Msgs /\ P \in Seq(Prompts) /\ Sound(q, P, proc, gen) /\ gen \in Nat
    BY Here
  <2>2. CASE Unsettled(P)
    <3>1. /\ prompts'[m] = [P EXCEPT ![Len(P)].out = "lost"]
          /\ msg'[m] = IF q.pc = "turn" THEN Thrown(q, "stop") ELSE q
      BY <1>1, <2>2
    <3> HIDE DEF P, q
    <3> DEFINE P2 == [P EXCEPT ![Len(P)].out = "lost"]
               q2 == IF q.pc = "turn" THEN Thrown(q, "stop") ELSE q
    <3>2. P2 \in Seq(Prompts) /\ q2 \in Msgs /\ ~Unsettled(P2) /\ Sound(q2, P2, proc', gen)
      BY <1>1, <2>1, <2>2, LostKeeps
    <3>3. prompts'[m] = P2 /\ msg'[m] = q2 /\ gen' = gen
      BY <1>1, <3>1
    <3> HIDE DEF P2, q2
    <3> QED BY <3>2, <3>3
  <2>3. CASE ~Unsettled(P)
    <3>1. prompts'[m] = P /\ msg'[m] = q
      BY <1>1, <2>3
    <3> HIDE DEF P, q
    <3> QED BY <1>1, <2>1, <2>3, <3>1, ExitKeeps
  <2> QED BY <2>2, <2>3
<1>3. TypeInv'
  <2>1. gen' \in 0..MaxGens
    BY <1>1 DEF IInv, TypeInv
  <2> QED BY <1>1, <1>2, <2>1 DEF TypeInv
<1>4. \A m \in Messages : ~Running(prompts'[m])
  BY <1>2 DEF Running, Unsettled
<1>5. OneRunning' /\ QuarantineHolds'
  BY <1>4 DEF OneRunning, QuarantineHolds, Open, Last, Running
<1> QED BY <1>2, <1>3, <1>5 DEF IInv

-----------------------------------------------------------------------------
LEMMA InvInit == ASSUME RouteAssumption, Init PROVE IInv
<1>1. Idle \in Msgs /\ Idle.pc = "idle" /\ Idle.told = "none" /\ Idle.letters = {} /\ Idle.gen = 0
      /\ Idle.err = "stop"
  BY IdleTypes DEF Idle
<1>2. proc \in Procs /\ gen \in 0..MaxGens /\ gen = 0
  BY DEF Init, Procs, RouteAssumption
<1>3. \A m \in Messages : msg[m] = Idle /\ prompts[m] = <<>> /\ Len(prompts[m]) = 0
  BY DEF Init
<1>4. TypeInv
  BY <1>1, <1>2 DEF Init, TypeInv
<1>5. OneRunning /\ QuarantineHolds
  BY <1>3 DEF OneRunning, Running, QuarantineHolds, Open
<1>6. ASSUME NEW m \in Messages PROVE Sound(msg[m], prompts[m], proc, gen)
  <2>1. History(prompts[m], proc, gen) /\ Ordered(prompts[m]) /\ Custody(msg[m], prompts[m])
    BY <1>3 DEF History, Unsettled, Ordered, Custody
  <2>2. Answers(msg[m], prompts[m]) /\ Letters(msg[m], prompts[m])
    BY <1>1, <1>3 DEF Answers, Letters
  <2>3. Stage(msg[m], prompts[m], proc, gen)
    BY <1>1, <1>2, <1>3 DEF Stage, Waiting
  <2> QED BY <2>1, <2>2, <2>3 DEF Sound
<1> QED BY <1>4, <1>5, <1>6 DEF IInv

LEMMA InvStep == ASSUME RouteAssumption, IInv, [Next]_vars PROVE IInv'
<1>1. ASSUME NEW m \in Messages, Step(m) PROVE IInv'
  <2>1. CASE Reuse(m) BY <2>1, ReuseKeeps
  <2>2. CASE Spawn(m) BY <2>2, SpawnMoves
  <2>3. CASE SpawnFails(m) \/ AcquireFenced(m) \/ PreparedLate(m) \/ NotAdmitted(m) BY <2>3, ThrowKeeps
  <2>4. CASE RouteSwitch(m) \/ RetireShuts(m) BY <2>4, DrainKeeps
  <2>5. CASE Prepared(m) BY <2>5, PreparedKeeps
  <2>6. CASE PrepareFails(m) BY <2>6, PrepareFailsKeeps
  <2>7. CASE WritePrompt(m) BY <2>7, WriteKeeps
  <2>8. CASE Receipt(m) BY <2>8, ReceiptKeeps
  <2>9. CASE Refused(m) BY <2>9, RefusedKeeps
  <2>10. CASE Completes(m) BY <2>10, CompletesKeeps
  <2>11. CASE ProviderFails(m) BY <2>11, ProviderFailsKeeps
  <2>12. CASE ConnectionFails(m) BY <2>12, ConnectionFailsKeeps
  <2>13. CASE BecomesUnknown(m) BY <2>13, UnknownKeeps
  <2>14. CASE Retired(m) BY <2>14, RetiredKeeps
  <2>15. CASE BackoffOver(m) BY <2>15, BackoffOverKeeps
  <2>16. CASE Expires(m) BY <2>16, ExpiresKeeps
  <2> QED BY <1>1, <2>1, <2>2, <2>3, <2>4, <2>5, <2>6, <2>7, <2>8, <2>9, <2>10, <2>11, <2>12,
             <2>13, <2>14, <2>15, <2>16 DEF Step
<1>2. ASSUME NEW m \in Messages, Start(m) PROVE IInv'
  BY <1>2, StartKeeps
<1>3. ASSUME NEW m \in Messages, DeadlinePasses(m) PROVE IInv'
  BY <1>3, LateKeeps
<1>4. ASSUME NEW m \in Messages, ChildActs(m) PROVE IInv'
  BY <1>4, ActsKeeps
<1>5. ASSUME NEW m \in Messages, LateEnd(m) PROVE IInv'
  BY <1>5, LateEndKeeps
<1>6. ASSUME NEW m \in Messages, Recover(m) PROVE IInv'
  BY <1>6, DrainKeeps
<1>7. CASE ProcExits
  BY <1>7, ProcExitsKeeps
<1>8. CASE UNCHANGED vars
  <2>1. msg' = msg /\ prompts' = prompts /\ proc' = proc /\ gen' = gen
    BY <1>8 DEF vars
  <2>2. ProcMoves /\ proc' \in Procs /\ gen' \in 0..MaxGens
    BY <2>1 DEF ProcMoves, IInv, TypeInv
  <2> QED BY <2>1, <2>2, ProcOnly
<1> QED BY <1>1, <1>2, <1>3, <1>4, <1>5, <1>6, <1>7, <1>8 DEF Next

(* A message is of a kind it may be of: only its start gives it one.       *)
ModeInv == \A m \in Messages : msg[m].mode \in Modes[m] \cup {"turn"}

LEMMA ThrownMode ==
  ASSUME RouteAssumption, NEW q \in Msgs, NEW class
  PROVE  Thrown(q, class).mode = q.mode
<1>1. \A told : Over(q, told).mode = q.mode
  BY DEF Over, Idle
<1> QED BY <1>1 DEF Thrown, Idle

KindKept(m) ==
  \E q : msg' = [msg EXCEPT ![m] = q] /\ q.mode \in Modes[m] \cup {msg[m].mode}

LEMMA ThrowKind ==
  ASSUME RouteAssumption, IInv, NEW m \in Messages, NEW class, Throw(m, class)
  PROVE  KindKept(m)
<1>1. msg' = [msg EXCEPT ![m] = Thrown(msg[m], class)] /\ Thrown(msg[m], class).mode = msg[m].mode
  BY Here, ThrownMode DEF Throw
<1> QED BY <1>1 DEF KindKept

LEMMA ExhaustKind ==
  ASSUME RouteAssumption, IInv, NEW m \in Messages, Exhaust(m)
  PROVE  KindKept(m)
<1>1. PICK written \in BOOLEAN :
        LET q == IF written THEN [msg[m] EXCEPT !.letters = @ \cup {msg[m].route}] ELSE msg[m]
        IN msg' = [msg EXCEPT ![m] = Thrown(q, q.err)]
  BY DEF Exhaust
<1> DEFINE q == IF written THEN [msg[m] EXCEPT !.letters = @ \cup {msg[m].route}] ELSE msg[m]
<1>2. q \in Msgs /\ q.mode = msg[m].mode
  <2>1. msg[m] \in Msgs
    BY Here
  <2> QED BY <2>1 DEF Msgs
<1>3. msg' = [msg EXCEPT ![m] = Thrown(q, q.err)]
  BY <1>1
<1> HIDE DEF q
<1>4. Thrown(q, q.err).mode = msg[m].mode
  BY <1>2, ThrownMode
<1> QED BY <1>3, <1>4 DEF KindKept

LEMMA StepKind ==
  ASSUME RouteAssumption, IInv, NEW m \in Messages, Step(m)
  PROVE  KindKept(m)
<1>1. msg \in [Messages -> Msgs] /\ msg[m] \in Msgs
  BY Here
<1>2. CASE msg' = msg
  <2>1. msg' = [msg EXCEPT ![m] = msg[m]]
    BY <1>1, <1>2
  <2> QED BY <2>1 DEF KindKept
<1>3. CASE Throw(m, "hop") \/ Throw(m, "stop")
  BY <1>3, ThrowKind
<1>4. CASE Exhaust(m)
  BY <1>4, ExhaustKind
<1>5. CASE Reuse(m)
  <2> DEFINE q == [msg[m] EXCEPT !.pc = "prepare", !.gen = gen]
  <2>1. msg' = [msg EXCEPT ![m] = q] /\ q.mode = msg[m].mode
    BY <1>1, <1>5 DEF Reuse, Msgs
  <2> HIDE DEF q
  <2> QED BY <2>1 DEF KindKept
<1>6. CASE Spawn(m)
  <2> DEFINE q == [msg[m] EXCEPT !.pc = "prepare", !.gen = gen + 1]
  <2>1. msg' = [msg EXCEPT ![m] = q] /\ q.mode = msg[m].mode
    BY <1>1, <1>6 DEF Spawn, Msgs
  <2> HIDE DEF q
  <2> QED BY <2>1 DEF KindKept
<1>7. CASE Prepared(m)
  <2> DEFINE q == [msg[m] EXCEPT !.pc = "queued"]
  <2>1. msg' = [msg EXCEPT ![m] = q] /\ q.mode = msg[m].mode
    BY <1>1, <1>7 DEF Prepared, Msgs
  <2> HIDE DEF q
  <2> QED BY <2>1 DEF KindKept
<1>8. CASE PrepareFails(m)
  <2>1. PICK err \in {"hop", "stop"} : msg' = [msg EXCEPT ![m].pc = "retire", ![m].err = err]
    BY <1>8 DEF PrepareFails
  <2> DEFINE q == [msg[m] EXCEPT !.pc = "retire", !.err = err]
  <2>2. msg' = [msg EXCEPT ![m] = q] /\ q.mode = msg[m].mode
    BY <1>1, <2>1 DEF Msgs
  <2> HIDE DEF q
  <2> QED BY <2>2 DEF KindKept
<1>9. CASE WritePrompt(m)
  <2> DEFINE q == [msg[m] EXCEPT !.pc = "turn"]
  <2>1. msg' = [msg EXCEPT ![m] = q] /\ q.mode = msg[m].mode
    BY <1>1, <1>9 DEF WritePrompt, Msgs
  <2> HIDE DEF q
  <2> QED BY <2>1 DEF KindKept
<1>10. CASE Receipt(m)
  <2> DEFINE q == [msg[m] EXCEPT !.told = "accepted"]
  <2>1. msg' = [msg EXCEPT ![m] = q] /\ q.mode = msg[m].mode
    BY <1>1, <1>10 DEF Receipt, Msgs
  <2> HIDE DEF q
  <2> QED BY <2>1 DEF KindKept
<1>11. CASE BackoffOver(m)
  <2> DEFINE q == [msg[m] EXCEPT !.pc = "acquire", !.gen = 0, !.err = "stop", !.retry = @ + 1]
  <2>1. msg' = [msg EXCEPT ![m] = q] /\ q.mode = msg[m].mode
    BY <1>1, <1>11 DEF BackoffOver, Msgs
  <2> HIDE DEF q
  <2> QED BY <2>1 DEF KindKept
<1>12. CASE Completes(m)
  <2> DEFINE q == Over(msg[m], IF msg[m].told = "none" THEN "ok" ELSE msg[m].told)
  <2>1. msg' = [msg EXCEPT ![m] = q] /\ q.mode = msg[m].mode
    BY <1>12 DEF Completes, Over, Idle
  <2> HIDE DEF q
  <2> QED BY <2>1 DEF KindKept
<1>13. CASE msg' = [msg EXCEPT ![m].pc = "retire", ![m].err = "stop"]
  <2> DEFINE q == [msg[m] EXCEPT !.pc = "retire", !.err = "stop"]
  <2>1. msg' = [msg EXCEPT ![m] = q] /\ q.mode = msg[m].mode
    BY <1>1, <1>13 DEF Msgs
  <2> HIDE DEF q
  <2> QED BY <2>1 DEF KindKept
<1>14. CASE msg' = [msg EXCEPT ![m].pc = "backoff"]
  <2> DEFINE q == [msg[m] EXCEPT !.pc = "backoff"]
  <2>1. msg' = [msg EXCEPT ![m] = q] /\ q.mode = msg[m].mode
    BY <1>1, <1>14 DEF Msgs
  <2> HIDE DEF q
  <2> QED BY <2>1 DEF KindKept
<1>15. CASE SpawnFails(m) \/ AcquireFenced(m) \/ RouteSwitch(m) \/ PreparedLate(m) \/ NotAdmitted(m)
            \/ Refused(m) \/ RetireShuts(m)
  BY <1>2, <1>3, <1>15
     DEF SpawnFails, AcquireFenced, RouteSwitch, PreparedLate, NotAdmitted, Refused, RetireShuts
<1>16. CASE ProviderFails(m) \/ ConnectionFails(m) \/ BecomesUnknown(m)
  BY <1>2, <1>3, <1>4, <1>13, <1>16 DEF ProviderFails, ConnectionFails, BecomesUnknown, FailureClass
<1>17. CASE Retired(m) \/ Expires(m)
  BY <1>3, <1>4, <1>14, <1>17 DEF Retired, Expires
<1> QED BY <1>5, <1>6, <1>7, <1>8, <1>9, <1>10, <1>11, <1>12, <1>15, <1>16, <1>17 DEF Step

LEMMA KindsKept ==
  ASSUME RouteAssumption, IInv, ModeInv, [Next]_vars
  PROVE  ModeInv'
<1>1. ASSUME NEW m \in Messages, KindKept(m) PROVE ModeInv'
  <2>1. PICK q : msg' = [msg EXCEPT ![m] = q] /\ q.mode \in Modes[m] \cup {msg[m].mode}
    BY <1>1 DEF KindKept
  <2>2. msg'[m] = q /\ \A n \in Messages : n # m => msg'[n] = msg[n]
    BY <2>1 DEF IInv, TypeInv
  <2> QED BY <2>1, <2>2 DEF ModeInv
<1>2. CASE msg' = msg
  BY <1>2 DEF ModeInv
<1>3. ASSUME NEW m \in Messages, Step(m) PROVE ModeInv'
  BY <1>1, <1>3, StepKind
<1>4. ASSUME NEW m \in Messages, Start(m) PROVE ModeInv'
  <2>1. PICK mode \in Modes[m] : msg' = [msg EXCEPT ![m].pc = "acquire", ![m].mode = mode]
    BY <1>4 DEF Start
  <2> DEFINE q == [msg[m] EXCEPT !.pc = "acquire", !.mode = mode]
  <2>2. msg' = [msg EXCEPT ![m] = q] /\ q.mode = mode
    <3>1. msg[m] \in Msgs
      BY Here
    <3> QED BY <2>1, <3>1 DEF Msgs
  <2> HIDE DEF q
  <2>3. KindKept(m)
    BY <2>2 DEF KindKept
  <2> QED BY <1>1, <2>3
<1>5. ASSUME NEW m \in Messages, DeadlinePasses(m) PROVE ModeInv'
  <2> DEFINE q == [msg[m] EXCEPT !.late = TRUE]
  <2>1. msg' = [msg EXCEPT ![m] = q] /\ q.mode = msg[m].mode
    <3>1. msg[m] \in Msgs
      BY Here
    <3> QED BY <1>5, <3>1 DEF DeadlinePasses, Msgs
  <2> HIDE DEF q
  <2>2. KindKept(m)
    BY <2>1 DEF KindKept
  <2> QED BY <1>1, <2>2
<1>6. ASSUME NEW m \in Messages, ChildActs(m) \/ LateEnd(m) \/ Recover(m) PROVE ModeInv'
  BY <1>1, <1>2, <1>6, ThrowKind DEF ChildActs, LateEnd, Recover
<1>7. CASE ProcExits
  <2>1. \A m \in Messages : msg'[m].mode = msg[m].mode
    BY <1>7, Here, ThrownMode DEF ProcExits
  <2> QED BY <2>1 DEF ModeInv
<1> QED BY <1>2, <1>3, <1>4, <1>5, <1>6, <1>7 DEF Next, vars

LEMMA InvTypes == ASSUME RouteAssumption, IInv, ModeInv PROVE TypeOK
<1>1. proc.st \in {"none", "ready", "draining"} /\ gen \in 0..MaxGens
  BY DEF IInv, TypeInv, Procs
<1>2. ASSUME NEW m \in Messages PROVE msg[m].gen \in 0..gen
  BY Here, Numbers DEF Sound, Stage
<1>3. ASSUME NEW m \in Messages
      PROVE  /\ msg[m].pc \in {"idle", "acquire", "prepare", "queued", "turn", "retire", "backoff", "done"}
             /\ msg[m].route \in 1..Routes /\ msg[m].retry \in 0..MaxRetries
             /\ msg[m].told \in {"none", "accepted", "ok", "error"} /\ msg[m].letters \subseteq 1..Routes
  BY Here DEF Msgs, Waiting
<1> QED BY <1>1, <1>2, <1>3 DEF TypeOK, ModeInv

LEMMA InvSafe == ASSUME RouteAssumption, IInv PROVE RouteSafe
<1>1. \A m \in Messages : Ordered(prompts[m]) /\ Custody(msg[m], prompts[m])
                          /\ Answers(msg[m], prompts[m]) /\ Letters(msg[m], prompts[m])
  BY DEF IInv, Sound
<1>2. NoReplay
  BY <1>1 DEF NoReplay, Ordered, Follows
<1>3. CustodyKept
  BY <1>1 DEF CustodyKept, Custody
<1>4. AnswerTruth
  BY <1>1 DEF AnswerTruth, Answers, Open, Last
<1>5. LetterTruth
  BY <1>1 DEF LetterTruth, Letters
<1> QED BY <1>2, <1>3, <1>4, <1>5 DEF RouteSafe, IInv

-----------------------------------------------------------------------------
LEMMA SpecInv == ASSUME RouteAssumption PROVE Spec => [](IInv /\ ModeInv)
<1>1. Init => IInv /\ ModeInv
  BY InvInit DEF Init, Idle, ModeInv
<1>2. IInv /\ ModeInv /\ [Next]_vars => (IInv /\ ModeInv)'
  BY InvStep, KindsKept
<1> QED BY <1>1, <1>2, PTL DEF Spec

(* Every field of a chain, the process and its generation has its type:    *)
(* the route and the retries stay within the bounds of the agent's chain   *)
(* and of the retry policy, and no chain is on a generation that was not   *)
(* issued.                                                                 *)
THEOREM TypeCorrect == ASSUME RouteAssumption PROVE Spec => []TypeOK
<1>1. IInv /\ ModeInv => TypeOK
  BY InvTypes
<1> QED BY <1>1, SpecInv, PTL

(* For any number of messages, routes, retries and generations: a message  *)
(* is prompted again only after failures that its process reported, on a   *)
(* newer generation and with nothing that came of the earlier prompt to    *)
(* forbid it; a message in custody is not prompted again once accepted; a  *)
(* generation whose connection failed is used for no other message; what a *)
(* caller is told is true; and a dead letter is written only for a route   *)
(* on which nothing came of the message.                                   *)
THEOREM RouteCorrect == ASSUME RouteAssumption PROVE Spec => []RouteSafe
<1>1. IInv /\ ModeInv => RouteSafe
  BY InvSafe
<1> QED BY <1>1, SpecInv, PTL
=============================================================================
