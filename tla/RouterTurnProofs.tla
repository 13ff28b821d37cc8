-------------------------- MODULE RouterTurnProofs --------------------------
(***************************************************************************)
(* For any number of turns, process generations and restarts: the prompts  *)
(* of one agent never overlap, settlements are true and final, and nothing *)
(* waits behind a fence.                                                   *)
(***************************************************************************)
EXTENDS RouterTurn, TLAPS

Records ==
  [st : {"absent", "open", "settled"}, gen : 0..MaxGens, epoch : 0..MaxRestarts,
   written : BOOLEAN, unknown : BOOLEAN, outcome : Direct \cup Late \cup {"none"},
   term : {"none", "idle", "startedIdle", "exit"}, fence : {"none", "active", "cleared"},
   claim : BOOLEAN, cleanup : BOOLEAN, abandoned : {"no", "proven", "risk"}]

Executions ==
  [wait : {"none", "pending", "tombstone"}, receipt : BOOLEAN, events : 0..3,
   idle : {"none", "stale", "past"}, unknown : BOOLEAN, check : BOOLEAN]

Processes == [state : {"none", "READY", "DRAINING"}, gen : 0..MaxGens]

Steps ==
  {"attempt", "send", "reject", "drain", "try", "clear", "commit", "exitSettle", "cleanup",
   "exited"} \X (0..MaxTurns)

Truths == {"none", "piped", "refused", "live"} \cup Ended

(* What is left of ExitSteps after the first of them, the second, ... *)
Settling(h) == <<<<"cleanup", h>>, <<"clear", h>>, <<"exited", 0>>>>
Cleaning(h) == <<<<"clear", h>>, <<"exited", 0>>>>
Leaving == <<<<"exited", 0>>>>

(* Every handler that has not run to its end is one of these, for one      *)
(* handle: what it does next, and the rest.                                *)
Shape ==
  \/ todo = <<>>
  \/ \E h \in Handles :
       \/ Doing("attempt", h) /\ Tail(todo) = <<<<"send", h>>>>
       \/ (Doing("send", h) \/ Doing("reject", h) \/ Doing("commit", h)) /\ Tail(todo) = <<>>
       \/ Doing("try", h) /\ Tail(todo) \in {<<>>, ExitSteps(h)}
       \/ Doing("clear", h) /\ Tail(todo) \in {<<>>, ExitSteps(h), Leaving}
       \/ Doing("exitSettle", h) /\ Tail(todo) = Settling(h)
       \/ Doing("cleanup", h) /\ Tail(todo) = Cleaning(h)
  \/ (Doing("drain", 0) \/ Doing("exited", 0)) /\ Tail(todo) = <<>>

(* The exit of the child is still to be settled for h. *)
Exiting(h) ==
  \/ Doing("exitSettle", h)
  \/ (Doing("try", h) \/ Doing("clear", h)) /\ Tail(todo) = ExitSteps(h)

(* h waits for its recheck, or is about to be written or rejected. *)
Writing(h) == Doing("attempt", h) \/ Doing("send", h) \/ Doing("reject", h)

Awaiting(h) == h \in rechecks \/ Writing(h)

(* What a record says of its turn. *)
Recorded(h) ==
  LET r == rec[h] IN
  /\ r.st = "absent" => r = NoRecord
  /\ r.st # "settled" => r.outcome = "none" /\ r.term = "none"
  /\ r.st = "settled" => r.outcome \in Direct \/ r.term # "none"
  /\ r.st = "open" /\ ~r.unknown => h = cur
  /\ r.unknown /\ r.fence = "cleared" => r.term # "none"
  /\ r.abandoned = "proven" => r.term # "none"
  /\ r.gen <= proc.gen
  /\ truth[h] # "none" => r.written

(* SettlementTruth of one turn. *)
TrueOf(h) ==
  /\ rec[h].outcome \in {"completed", "late_completed"} => truth[h] = "ok"
  /\ rec[h].outcome = "late_failed" => truth[h] = "failed"
  /\ rec[h].outcome = "failed" => truth[h] \in {"failed", "refused", "none"}
  /\ rec[h].outcome = "not_admitted" => truth[h] = "none"
  /\ rec[h].term # "none" => ~Held(h)

(* A prompt that is still to be written has not reached the child. *)
Unsent(h) ==
  Awaiting(h) =>
    /\ rec[h].st # "absent" /\ truth[h] = "none"
    /\ Owned(h) => h = cur \/ rec[h].gen \notin alive
    /\ Writing(h) => h \notin rechecks
    /\ Doing("send", h) => rec[h].written

(* The tracked execution is open, and what was parsed of it has happened. *)
Tracked ==
  cur # 0 =>
    /\ rec[cur].st = "open" /\ Owned(cur) /\ rec[cur].unknown = ex.unknown
    /\ ex.unknown => cur \in fences
    /\ ex.receipt \/ ex.events # 0 => truth[cur] \in Ended \cup {"live"}
    /\ ex.events = 3 \/ ex.idle = "past" \/ ex.check => truth[cur] \in Ended

(* One turn at most is tracked or blocks the next. *)
OneDanger ==
  /\ \A h, k \in Handles : Blocks(h) /\ Blocks(k) => h = k
  /\ \A h \in Handles : Blocks(h) /\ cur # 0 => h = cur

(* What the rest of a handler relies on. *)
Handler ==
  /\ Shape
  /\ \A h \in Handles :
       /\ Doing("try", h) \/ Doing("commit", h) => cur = h
       /\ Doing("commit", h) => ex.unknown
       /\ Exiting(h) => /\ proc.state # "none" /\ proc.gen \notin alive
                        /\ IF cur = h THEN TRUE ELSE cur = 0 /\ rec[h].st = "settled"
       /\ Doing("cleanup", h) \/ (Doing("clear", h) /\ Tail(todo) = Leaving) => cur = 0
       /\ Doing("cleanup", h) => rec[h].st = "settled"
  /\ Doing("exited", 0) => cur = 0
  /\ Doing("drain", 0) => proc.state # "none"

SafeInv ==
  /\ \A h \in Handles : Recorded(h) /\ TrueOf(h) /\ Unsent(h)
  /\ Tracked /\ OneDanger /\ Handler /\ QueueOnlyWhenOpen
  /\ \A g \in alive : g <= proc.gen

RInv == TypeOK /\ SafeInv

-----------------------------------------------------------------------------
(* The parts of the typed state. *)
LEMMA Parts ==
  ASSUME TypeOK
  PROVE  /\ rec \in [Handles -> Records] /\ ex \in Executions /\ proc \in Processes
         /\ todo \in Seq(Steps) /\ truth \in [Handles -> Truths]
         /\ cur \in 0..MaxTurns /\ (cur # 0 => cur \in Handles) /\ queue \in 0..MaxQueue
         /\ proc.gen \in Nat /\ proc.state \in {"none", "READY", "DRAINING"}
         /\ \A h \in Handles : rec[h] \in Records /\ rec[h].gen \in Nat /\ truth[h] \in Truths
         /\ alive \subseteq Gens /\ \A g \in alive : g \in Nat /\ g # 0
<1>1. /\ rec \in [Handles -> Records] /\ ex \in Executions /\ proc \in Processes
      /\ todo \in Seq(Steps) /\ truth \in [Handles -> Truths]
      /\ cur \in 0..MaxTurns /\ queue \in 0..MaxQueue /\ alive \subseteq Gens
  BY DEF TypeOK, Records, Executions, Processes, Steps, Truths
<1>2. proc.gen \in Nat /\ proc.state \in {"none", "READY", "DRAINING"}
  BY <1>1, RouterAssumption DEF Processes
<1>3. \A r \in Records : r.gen \in Nat
  BY RouterAssumption DEF Records
<1>4. cur # 0 => cur \in Handles
  BY <1>1, RouterAssumption DEF Handles
<1>5. \A g \in Gens : g \in Nat /\ g # 0
  BY RouterAssumption DEF Gens
<1> QED BY <1>1, <1>2, <1>3, <1>4, <1>5

(* The handler has just become: op for h, then s. *)
Now(op, h, s) == todo' # <<>> /\ Head(todo') = <<op, h>> /\ Tail(todo') = s

LEMMA Tuples ==
  ASSUME NEW a, NEW b, NEW c, NEW d
  PROVE  /\ <<a>> # <<>> /\ Head(<<a>>) = a /\ Tail(<<a>>) = <<>>
         /\ <<a, b>> # <<>> /\ Head(<<a, b>>) = a /\ Tail(<<a, b>>) = <<b>>
         /\ <<a, b, c>> # <<>> /\ Head(<<a, b, c>>) = a /\ Tail(<<a, b, c>>) = <<b, c>>
         /\ <<a, b, c, d>> # <<>> /\ Head(<<a, b, c, d>>) = a
         /\ Tail(<<a, b, c, d>>) = <<b, c, d>>
  OBVIOUS

LEMMA Before ==
  ASSUME NEW S, NEW a \in S, NEW s \in Seq(S)
  PROVE  <<a>> \o s # <<>> /\ Head(<<a>> \o s) = a /\ Tail(<<a>> \o s) = s
  OBVIOUS

LEMMA Ends ==
  ASSUME NEW h
  PROVE  /\ ExitSteps(h) # <<>> /\ ExitSteps(h) # Leaving /\ Leaving # <<>>
         /\ Head(ExitSteps(h)) = <<"exitSettle", h>>
         /\ Tail(ExitSteps(h)) = Settling(h)
         /\ Head(Settling(h)) = <<"cleanup", h>> /\ Tail(Settling(h)) = Cleaning(h)
         /\ Head(Cleaning(h)) = <<"clear", h>> /\ Tail(Cleaning(h)) = Leaving
         /\ Head(Leaving) = <<"exited", 0>> /\ Tail(Leaving) = <<>>
         /\ Settling(h) # <<>> /\ Cleaning(h) # <<>>
         /\ ExitSteps(h) \in Seq({"attempt", "send", "reject", "drain", "try", "clear", "commit",
                                  "exitSettle", "cleanup", "exited"} \X {h, 0})
<1>1. /\ Len(ExitSteps(h)) = 4 /\ Len(Leaving) = 1
      /\ Len(Settling(h)) = 3 /\ Len(Cleaning(h)) = 2
  BY DEF ExitSteps, Settling, Cleaning, Leaving
<1>2. Len(<<>>) = 0
  OBVIOUS
<1> QED BY <1>1, <1>2, Tuples DEF ExitSteps, Settling, Cleaning, Leaving

LEMMA NowDoing ==
  ASSUME NEW op, NEW h, NEW s, Now(op, h, s)
  PROVE  /\ \A o, k : Doing(o, k)' <=> o = op /\ k = h
         /\ Tail(todo)' = s
  BY DEF Now, Doing

LEMMA IdleDoing == ASSUME todo' = <<>> PROVE \A o, k : ~Doing(o, k)'
  BY DEF Doing

(* What is left of a handler once its next step is done. *)
LEMMA Rest ==
  ASSUME Shape, NEW h \in Handles
  PROVE  /\ Doing("attempt", h) => Tail(todo) = <<<<"send", h>>>>
         /\ Doing("send", h) \/ Doing("reject", h) \/ Doing("commit", h) => Tail(todo) = <<>>
         /\ Doing("try", h) => Tail(todo) \in {<<>>, ExitSteps(h)}
         /\ Doing("clear", h) => Tail(todo) \in {<<>>, ExitSteps(h), Leaving}
         /\ Doing("exitSettle", h) =>
              Tail(todo) = Settling(h)
         /\ Doing("cleanup", h) => Tail(todo) = Cleaning(h)
         /\ Doing("exited", 0) => Tail(todo) = <<>>
<1> DEFINE Is(o, k) == todo # <<>> /\ Head(todo) = <<o, k>>
<1>1. \A o, k : Doing(o, k) <=> Is(o, k)
  BY DEF Doing
<1>2. \A o, k, o2, k2 : Is(o, k) /\ Is(o2, k2) => o = o2 /\ k = k2
  OBVIOUS
<1>3. \A o, k : Is(o, k) => todo # <<>>
  OBVIOUS
<1> HIDE DEF Is
<1> QED BY <1>1, <1>2, <1>3 DEF Shape

-----------------------------------------------------------------------------
(* A step that ends in a legal handler keeps what the handlers rely on. *)
NoWriting == \A h \in Handles : ~Writing(h)'

LEMMA ToIdle == ASSUME todo' = <<>> PROVE Handler' /\ NoWriting
  BY IdleDoing DEF Handler, Shape, Exiting, Writing, NoWriting

LEMMA ToTry ==
  ASSUME NEW h \in Handles, NEW s \in {<<>>, ExitSteps(h)}, Now("try", h, s), cur' = h,
         s = ExitSteps(h) => proc'.state # "none" /\ proc'.gen \notin alive'
  PROVE  Handler' /\ NoWriting
<1>1. (\A o, k : Doing(o, k)' <=> o = "try" /\ k = h) /\ Tail(todo)' = s
  BY NowDoing
<1>2. Shape'
  BY <1>1 DEF Shape
<1>3. NoWriting
  BY <1>1 DEF Writing, NoWriting
<1> QED BY <1>1, <1>2, <1>3 DEF Handler, Exiting

LEMMA ToClear ==
  ASSUME NEW h \in Handles, NEW s \in {<<>>, ExitSteps(h), Leaving}, Now("clear", h, s),
         s = Leaving => cur' = 0,
         s = ExitSteps(h) => /\ proc'.state # "none" /\ proc'.gen \notin alive'
                             /\ cur' = 0 /\ rec'[h].st = "settled"
  PROVE  Handler' /\ NoWriting
<1>1. (\A o, k : Doing(o, k)' <=> o = "clear" /\ k = h) /\ Tail(todo)' = s
  BY NowDoing
<1>2. Shape'
  BY <1>1 DEF Shape
<1>3. NoWriting
  BY <1>1 DEF Writing, NoWriting
<1> QED BY <1>1, <1>2, <1>3 DEF Handler, Exiting

LEMMA ToExitSettle ==
  ASSUME NEW h \in Handles, Now("exitSettle", h, Settling(h)),
         proc'.state # "none", proc'.gen \notin alive',
         cur' # h => cur' = 0 /\ rec'[h].st = "settled"
  PROVE  Handler' /\ NoWriting
<1>1. (\A o, k : Doing(o, k)' <=> o = "exitSettle" /\ k = h) /\ Tail(todo)' = Settling(h)
  BY NowDoing
<1>2. Shape'
  BY <1>1 DEF Shape
<1>3. NoWriting
  BY <1>1 DEF Writing, NoWriting
<1> QED BY <1>1, <1>2, <1>3 DEF Handler, Exiting

LEMMA ToCleanup ==
  ASSUME NEW h \in Handles, Now("cleanup", h, Cleaning(h)), cur' = 0, rec'[h].st = "settled"
  PROVE  Handler' /\ NoWriting
<1>1. (\A o, k : Doing(o, k)' <=> o = "cleanup" /\ k = h) /\ Tail(todo)' = Cleaning(h)
  BY NowDoing
<1>2. Shape'
  BY <1>1 DEF Shape
<1>3. NoWriting
  BY <1>1 DEF Writing, NoWriting
<1> QED BY <1>1, <1>2, <1>3 DEF Handler, Exiting

LEMMA ToLeave ==
  ASSUME Now("exited", 0, <<>>), cur' = 0
  PROVE  Handler' /\ NoWriting
<1>1. (\A o, k : Doing(o, k)' <=> o = "exited" /\ k = 0) /\ Tail(todo)' = <<>>
  BY NowDoing
<1>2. Shape'
  BY <1>1 DEF Shape
<1>3. NoWriting
  BY <1>1 DEF Writing, NoWriting
<1> QED BY <1>1, <1>2, <1>3 DEF Handler, Exiting

LEMMA ToCommit ==
  ASSUME NEW h \in Handles, Now("commit", h, <<>>), cur' = h, ex'.unknown
  PROVE  Handler' /\ NoWriting
<1>1. (\A o, k : Doing(o, k)' <=> o = "commit" /\ k = h) /\ Tail(todo)' = <<>>
  BY NowDoing
<1>2. Shape'
  BY <1>1 DEF Shape
<1>3. NoWriting
  BY <1>1 DEF Writing, NoWriting
<1> QED BY <1>1, <1>2, <1>3 DEF Handler, Exiting

LEMMA ToDrain ==
  ASSUME Now("drain", 0, <<>>), proc'.state # "none"
  PROVE  Handler' /\ NoWriting
<1>1. (\A o, k : Doing(o, k)' <=> o = "drain" /\ k = 0) /\ Tail(todo)' = <<>>
  BY NowDoing
<1>2. Shape'
  BY <1>1 DEF Shape
<1>3. NoWriting
  BY <1>1 DEF Writing, NoWriting
<1> QED BY <1>1, <1>2, <1>3 DEF Handler, Exiting

(* A prompt is about to be written or rejected. *)
LEMMA ToWrite ==
  ASSUME NEW h \in Handles, NEW op,
         \/ op = "attempt" /\ Now(op, h, <<<<"send", h>>>>)
         \/ op \in {"send", "reject"} /\ Now(op, h, <<>>)
  PROVE  /\ Handler' /\ \A k : Writing(k)' <=> k = h
         /\ \A k : Doing("send", k)' <=> op = "send" /\ k = h
<1>1. /\ \A o, k : Doing(o, k)' <=> o = op /\ k = h
      /\ Tail(todo)' = IF op = "attempt" THEN <<<<"send", h>>>> ELSE <<>>
  BY NowDoing
<1>2. Shape'
  BY <1>1 DEF Shape
<1>3. \A k : Writing(k)' <=> k = h
  BY <1>1 DEF Writing
<1> QED BY <1>1, <1>2, <1>3 DEF Handler, Exiting

-----------------------------------------------------------------------------
(* Type correctness.  Every change of a record or of an execution keeps    *)
(* its type.                                                               *)
LEMMA RecordTypes ==
  ASSUME NEW r \in Records, NEW g \in 0..MaxGens, NEW e \in 0..MaxRestarts
  PROVE  /\ NoRecord \in Records
         /\ [NoRecord EXCEPT !.st = "open", !.gen = g, !.epoch = e] \in Records
         /\ [r EXCEPT !.written = TRUE] \in Records
         /\ [r EXCEPT !.unknown = TRUE, !.fence = "active", !.claim = FALSE,
                      !.abandoned = "no"] \in Records
         /\ [r EXCEPT !.fence = "cleared"] \in Records
         /\ [r EXCEPT !.claim = TRUE] \in Records
         /\ [r EXCEPT !.cleanup = TRUE] \in Records
         /\ \A a \in {"proven", "risk"} : [r EXCEPT !.abandoned = a] \in Records
         /\ Restored(r) \in Records
<1>1. NoRecord \in Records
  BY RouterAssumption DEF Records, NoRecord
<1>2. [NoRecord EXCEPT !.st = "open", !.gen = g, !.epoch = e] \in Records
  BY <1>1 DEF Records
<1>3. /\ [r EXCEPT !.written = TRUE] \in Records
      /\ [r EXCEPT !.unknown = TRUE, !.fence = "active", !.claim = FALSE,
                   !.abandoned = "no"] \in Records
      /\ [r EXCEPT !.fence = "cleared"] \in Records
      /\ [r EXCEPT !.claim = TRUE] \in Records
      /\ [r EXCEPT !.cleanup = TRUE] \in Records
  BY DEF Records
<1>4. \A a \in {"proven", "risk"} : [r EXCEPT !.abandoned = a] \in Records
  BY DEF Records
<1>5. [r EXCEPT !.unknown = TRUE, !.fence = "active"] \in Records
  BY DEF Records
<1>6. [Settled(r, "not_admitted", "none") EXCEPT !.fence = "cleared"] \in Records
  BY DEF Records, Settled, Direct
<1>7. Restored(r) \in Records
  BY <1>3, <1>5, <1>6, Zenon DEF Restored
<1> QED BY <1>1, <1>2, <1>3, <1>4, <1>7

LEMMA SettledType ==
  ASSUME NEW r \in Records, NEW o \in Direct \cup Late,
         NEW t \in {"none", "idle", "startedIdle", "exit"}
  PROVE  Settled(r, o, t) \in Records
  BY DEF Records, Settled

LEMMA ExecutionTypes ==
  ASSUME NEW e \in Executions
  PROVE  /\ NewExecution \in Executions
         /\ [e EXCEPT !.wait = "pending"] \in Executions
         /\ [e EXCEPT !.wait = "none"] \in Executions
         /\ [e EXCEPT !.wait = "tombstone"] \in Executions
         /\ [e EXCEPT !.receipt = TRUE, !.wait = "none"] \in Executions
         /\ [e EXCEPT !.unknown = TRUE] \in Executions
         /\ [e EXCEPT !.check = e.check \/ StartedThenIdle] \in Executions
         /\ e.events < 3 => [e EXCEPT !.events = e.events + 1] \in Executions
         /\ \A i \in {"stale", "past"} : [e EXCEPT !.idle = i] \in Executions
<1>1. e.events \in Nat /\ e.check \in BOOLEAN
  BY DEF Executions
<1>2. (e.check \/ StartedThenIdle) \in BOOLEAN
  OBVIOUS
<1>3. NewExecution \in Executions
  BY DEF Executions, NewExecution
<1>4. \A b \in BOOLEAN : [e EXCEPT !.check = b] \in Executions
  BY DEF Executions
<1>5. \A n \in 0..3 : [e EXCEPT !.events = n] \in Executions
  BY DEF Executions
<1>6. e.events < 3 => e.events + 1 \in 0..3
  BY <1>1
<1>7. /\ [e EXCEPT !.wait = "pending"] \in Executions
      /\ [e EXCEPT !.wait = "none"] \in Executions
      /\ [e EXCEPT !.wait = "tombstone"] \in Executions
      /\ [e EXCEPT !.receipt = TRUE, !.wait = "none"] \in Executions
      /\ [e EXCEPT !.unknown = TRUE] \in Executions
      /\ \A i \in {"stale", "past"} : [e EXCEPT !.idle = i] \in Executions
  BY DEF Executions
<1> QED BY <1>2, <1>3, <1>4, <1>5, <1>6, <1>7

Typed ==
  /\ rec \in [Handles -> Records] /\ cur \in 0..MaxTurns /\ ex \in Executions
  /\ fences \subseteq Handles /\ rechecks \subseteq WebTurns /\ queue \in 0..MaxQueue
  /\ proc \in Processes /\ todo \in Seq(Steps) /\ restarts \in 0..MaxRestarts
  /\ alive \subseteq Gens /\ truth \in [Handles -> Truths]

LEMMA TypedForm == (TypeOK <=> Typed) /\ (TypeOK' <=> Typed')
<1>1. TypeOK <=> Typed
  BY DEF TypeOK, Typed, Records, Executions, Processes, Steps, Truths
<1>2. TypeOK' <=> Typed'
  BY DEF TypeOK, Typed, Records, Executions, Processes, Steps, Truths
<1> QED BY <1>1, <1>2

LEMMA HandleRange == \A h \in Handles : h \in 0..MaxTurns /\ h \in Nat /\ h # 0
  BY RouterAssumption DEF Handles

LEMMA StepTypes ==
  ASSUME NEW h \in 0..MaxTurns, NEW s \in Seq(Steps)
  PROVE  /\ <<>> \in Seq(Steps) /\ (s # <<>> => Tail(s) \in Seq(Steps))
         /\ \A o \in {"attempt", "send", "reject", "drain", "try", "clear", "commit"} :
              <<<<o, h>>>> \in Seq(Steps) /\ <<<<o, h>>>> \o s \in Seq(Steps)
         /\ <<<<"attempt", h>>, <<"send", h>>>> \in Seq(Steps)
         /\ ExitSteps(h) \in Seq(Steps) /\ Leaving \in Seq(Steps)
         /\ <<<<"drain", 0>>>> \in Seq(Steps)
<1>1. 0 \in 0..MaxTurns
  BY RouterAssumption
<1>2. \A o \in {"attempt", "send", "reject", "drain", "try", "clear", "commit", "exitSettle",
               "cleanup", "exited"}, k \in 0..MaxTurns : <<o, k>> \in Steps
  BY DEF Steps
<1>3. <<<<"attempt", h>>, <<"send", h>>>> \in Seq(Steps)
  BY <1>2
<1>4. \A o \in {"attempt", "send", "reject", "drain", "try", "clear", "commit"} :
        <<<<o, h>>>> \in Seq(Steps)
  BY <1>2
<1>5. ExitSteps(h) \in Seq(Steps)
  BY <1>1, <1>2 DEF ExitSteps
<1>6. Leaving \in Seq(Steps) /\ <<<<"drain", 0>>>> \in Seq(Steps)
  BY <1>1, <1>2 DEF Leaving
<1> QED BY <1>3, <1>4, <1>5, <1>6

(* The operators that several actions share. *)
LEMMA SettleTypes ==
  ASSUME Typed, NEW h \in Handles, NEW o \in Direct \cup Late,
         NEW t \in {"none", "idle", "startedIdle", "exit"},
         SettleDirect(h, o, t) \/ SettleLate(h, o, t), Finish(h)
  PROVE  rec' \in [Handles -> Records] /\ cur' \in 0..MaxTurns /\ ex' \in Executions
<1>1. Settled(rec[h], o, t) \in Records
  BY SettledType DEF Typed
<1>2. rec' \in [Handles -> Records]
  BY <1>1 DEF SettleDirect, SettleLate, Typed
<1>3. NewExecution \in Executions
  BY DEF NewExecution, Executions
<1> QED BY <1>2, <1>3, RouterAssumption DEF Finish, Typed

LEMMA MarkTypes ==
  ASSUME Typed, NEW h \in Handles, NEW e \in Executions, NEW s \in Seq(Steps),
         MarkUnknown(h, e, s)
  PROVE  /\ rec' \in [Handles -> Records] /\ ex' \in Executions /\ fences' \subseteq Handles
         /\ queue' \in 0..MaxQueue /\ todo' \in Seq(Steps)
<1>1. [rec[h] EXCEPT !.unknown = TRUE, !.fence = "active", !.claim = FALSE,
                     !.abandoned = "no"] \in Records
<2>1. rec[h] \in Records
  BY DEF Typed
<2> QED BY <2>1 DEF Records
<1>2. [e EXCEPT !.unknown = TRUE] \in Executions
  BY DEF Executions
<1>3. <<<<"try", h>>>> \o s \in Seq(Steps)
  BY StepTypes, HandleRange
<1> QED BY <1>1, <1>2, <1>3, RouterAssumption DEF Typed, MarkUnknown

LEMMA PendingType == ASSUME ex \in Executions PROVE PendingRejected \in Executions
<1>1. [ex EXCEPT !.wait = "none"] \in Executions /\ [ex EXCEPT !.wait = ex.wait] \in Executions
  BY DEF Executions
<1> QED BY <1>1 DEF PendingRejected

LEMMA Outcomes ==
  ASSUME NEW h
  PROVE  /\ ExactOutcome(h) # "none" => ExactOutcome(h) \in Direct
         /\ LateOutcome(ExactOutcome(h)) \in Late
         /\ "terminated_without_outcome" \in Late
         /\ {"failed", "not_admitted"} \subseteq Direct
  BY DEF ExactOutcome, LateOutcome, Direct, Late

LEMMA CurHandle == ASSUME Typed, cur # 0 PROVE cur \in Handles
  BY RouterAssumption DEF Typed, Handles

LEMMA ContinueTypes ==
  ASSUME Typed, NEW h \in Handles,
         \/ StartTurn(h) \/ Attempt(h) \/ Send(h) \/ Reject(h)
         \/ TryNothing(h) \/ TryDirect(h) \/ TryNoOutcome(h) \/ TryLate(h) \/ ReleaseFence(h)
         \/ Commit(h) \/ ExitSettle(h) \/ RegistryCleanup(h)
  PROVE  Typed'
<1> DEFINE Same == /\ cur \in 0..MaxTurns /\ ex \in Executions /\ fences \subseteq Handles
                   /\ rechecks \subseteq WebTurns /\ queue \in 0..MaxQueue
                   /\ proc \in Processes /\ restarts \in 0..MaxRestarts /\ alive \subseteq Gens
                   /\ truth \in [Handles -> Truths] /\ rec \in [Handles -> Records]
<1>1. Same /\ todo \in Seq(Steps) /\ rec[h] \in Records /\ h \in 0..MaxTurns
  BY HandleRange DEF Typed
<1>2. todo # <<>> => Tail(todo) \in Seq(Steps)
  BY <1>1, StepTypes
<1>3. /\ proc.gen \in 0..MaxGens
      /\ \A s \in {"none", "READY", "DRAINING"} : [proc EXCEPT !.state = s] \in Processes
  BY <1>1 DEF Processes
<1>4. ASSUME NEW r \in Records PROVE [rec EXCEPT ![h] = r] \in [Handles -> Records]
  BY <1>1
<1>5. 0 \in 0..MaxQueue /\ 0 \in 0..MaxTurns
  BY RouterAssumption
<1>8. CASE StartTurn(h)
  <2>1. [NoRecord EXCEPT !.st = "open", !.gen = proc.gen, !.epoch = restarts] \in Records
    BY <1>1, <1>3, RecordTypes
  <2>2. rec' \in [Handles -> Records]
    BY <1>4, <1>8, <2>1 DEF StartTurn
  <2>3. queue' \in 0..MaxQueue
    BY <1>1, <1>8, RouterAssumption DEF StartTurn
  <2>4. todo' \in Seq(Steps)
    BY <1>1, <1>8, StepTypes DEF StartTurn
  <2>5. ex' \in Executions
    BY <1>1, <1>8, ExecutionTypes DEF StartTurn
  <2> QED BY <1>1, <1>8, <2>2, <2>3, <2>4, <2>5 DEF StartTurn, Typed, child
<1>9. CASE Attempt(h)
  <2>1. [rec[h] EXCEPT !.written = TRUE] \in Records
    BY <1>1 DEF Records
  <2>2. rec' \in [Handles -> Records]
    BY <1>1, <1>9, <2>1 DEF Attempt
  <2> QED BY <1>1, <1>2, <1>9, <2>2 DEF Attempt, Doing, Typed, child
<1>10. CASE Send(h)
  <2>1. [ex EXCEPT !.wait = "pending"] \in Executions
    BY <1>1, ExecutionTypes
  <2>2. truth' \in [Handles -> Truths]
    BY <1>1, <1>10 DEF Send, Truths
  <2> QED BY <1>1, <1>2, <1>10, <2>1, <2>2 DEF Send, Doing, Typed, child
<1>11. CASE Reject(h)
  <2>1. PICK o \in {"not_admitted", "failed"} : SettleDirect(h, o, "none")
    BY <1>11 DEF Reject
  <2>2. rec' \in [Handles -> Records] /\ cur' \in 0..MaxTurns /\ ex' \in Executions
    BY <1>11, <2>1, SettleTypes, Outcomes DEF Reject
  <2>3. todo' \in Seq(Steps)
    BY <1>1, <1>2, <1>11, StepTypes DEF Reject, Doing
  <2> QED BY <1>1, <1>11, <2>2, <2>3 DEF Reject, Typed, child
<1>12. CASE TryNothing(h)
  <2>1. ex' \in Executions
    BY <1>1, <1>12, ExecutionTypes DEF TryNothing
  <2> QED BY <1>1, <1>2, <1>12, <2>1 DEF TryNothing, Doing, Typed, child
<1>13. CASE TryDirect(h)
  <2>1. rec' \in [Handles -> Records] /\ cur' \in 0..MaxTurns /\ ex' \in Executions
    BY <1>13, SettleTypes, Outcomes DEF TryDirect
  <2> QED BY <1>1, <1>2, <1>13, <2>1 DEF TryDirect, Doing, Typed, child
<1>14. CASE TryNoOutcome(h)
  <2>1. Tail(todo) \in Seq(Steps)
    BY <1>2, <1>14 DEF TryNoOutcome, Doing
  <2>2. /\ rec' \in [Handles -> Records] /\ ex' \in Executions /\ fences' \subseteq Handles
        /\ queue' \in 0..MaxQueue /\ todo' \in Seq(Steps)
    BY <1>1, <1>14, <2>1, MarkTypes DEF TryNoOutcome
  <2> QED BY <1>1, <1>14, <2>2 DEF TryNoOutcome, Typed, child
<1>15. CASE TryLate(h)
  <2>1. rec' \in [Handles -> Records] /\ cur' \in 0..MaxTurns /\ ex' \in Executions
    BY <1>15, SettleTypes, Outcomes DEF TryLate
  <2>2. todo' \in Seq(Steps)
    BY <1>1, <1>2, <1>15, StepTypes DEF TryLate, Doing
  <2> QED BY <1>1, <1>15, <2>1, <2>2 DEF TryLate, Typed, child
<1>16. CASE ReleaseFence(h)
  <2>1. [rec[h] EXCEPT !.fence = "cleared"] \in Records
    BY <1>1 DEF Records
  <2>2. rec' \in [Handles -> Records]
    BY <1>1, <1>16, <2>1 DEF ReleaseFence
  <2> QED BY <1>1, <1>2, <1>16, <2>2 DEF ReleaseFence, Doing, Typed, child
<1>17. CASE Commit(h)
  BY <1>1, <1>2, <1>3, <1>17, PendingType DEF Commit, Doing, Typed, child
<1>18. CASE ExitSettle(h)
  <2>1. rec' \in [Handles -> Records] /\ cur' \in 0..MaxTurns /\ ex' \in Executions
    BY <1>18, SettleTypes, Outcomes DEF ExitSettle
  <2> QED BY <1>1, <1>2, <1>18, <2>1 DEF ExitSettle, Doing, Typed, child
<1>19. CASE RegistryCleanup(h)
  <2>1. [rec[h] EXCEPT !.cleanup = TRUE] \in Records
    BY <1>1 DEF Records
  <2>2. rec' \in [Handles -> Records]
    BY <1>1, <1>19, <2>1 DEF RegistryCleanup
  <2> QED BY <1>1, <1>2, <1>19, <2>2 DEF RegistryCleanup, Doing, Typed, child
<1> QED BY <1>8, <1>9, <1>10, <1>11, <1>12, <1>13, <1>14, <1>15, <1>16, <1>17, <1>18, <1>19

LEMMA OtherTypes ==
  ASSUME Typed,
         \/ Spawn \/ Enqueue \/ Receipt \/ ErrorResponse \/ SessionEvent \/ SessionIdle
         \/ TerminationOnlyCheck \/ ReceiptTimeout \/ TurnTimeout \/ Drain \/ Recover
         \/ ChildExit \/ Restart \/ Exited \/ StdinBroken
         \/ \E h \in Handles : Recheck(h) \/ ChildReads(h) \/ ChildEnds(h)
         \/ \E risk \in BOOLEAN : Abandon(risk)
         \/ \E g \in Gens : ChildDies(g)
         \/ UNCHANGED vars
  PROVE  Typed'
<1> DEFINE Same == /\ cur \in 0..MaxTurns /\ ex \in Executions /\ fences \subseteq Handles
                   /\ rechecks \subseteq WebTurns /\ queue \in 0..MaxQueue
                   /\ proc \in Processes /\ restarts \in 0..MaxRestarts /\ alive \subseteq Gens
                   /\ truth \in [Handles -> Truths] /\ rec \in [Handles -> Records]
                   /\ todo \in Seq(Steps)
<1>1. Same /\ \A h \in Handles : rec[h] \in Records
  BY DEF Typed
<1>2. cur # 0 => cur \in Handles
  BY CurHandle
<1>3. /\ proc.gen \in 0..MaxGens
      /\ \A s \in {"none", "READY", "DRAINING"} : [proc EXCEPT !.state = s] \in Processes
  BY <1>1 DEF Processes
<1>4. 0 \in 0..MaxQueue /\ 0 \in 0..MaxTurns /\ <<>> \in Seq(Steps)
  BY RouterAssumption
<1>5. PendingRejected \in Executions /\ NewExecution \in Executions
  BY <1>1, PendingType, ExecutionTypes
<1>6. /\ <<<<"try", cur>>>> \in Seq(Steps) /\ <<<<"commit", cur>>>> \in Seq(Steps)
      /\ <<<<"clear", cur>>>> \in Seq(Steps) /\ ExitSteps(cur) \in Seq(Steps)
      /\ <<<<"exited", 0>>>> \in Seq(Steps)
  BY <1>1, <1>4, StepTypes DEF Leaving
<1>7. CASE Spawn
  <2>1. proc.gen + 1 \in Gens /\ proc.gen + 1 \in 0..MaxGens
    BY <1>3, <1>7, RouterAssumption DEF Spawn, Gens
  <2>2. [state |-> "READY", gen |-> proc.gen + 1] \in Processes
    BY <2>1 DEF Processes
  <2> QED BY <1>1, <1>7, <2>1, <2>2 DEF Spawn, Typed
<1>8. CASE Enqueue
  <2>1. queue + 1 \in 0..MaxQueue
    BY <1>1, <1>8, RouterAssumption DEF Enqueue
  <2> QED BY <1>1, <1>8, <2>1 DEF Enqueue, Typed, child
<1>9. CASE Receipt
  <2>1. ex' \in Executions
    BY <1>1, <1>9, ExecutionTypes DEF Receipt
  <2> QED BY <1>1, <1>6, <1>9, <2>1 DEF Receipt, Typed, child
<1>10. CASE ErrorResponse
  <2>1. cur \in Handles
    BY <1>2, <1>10 DEF ErrorResponse, Parsing
  <2>2. CASE SettleDirect(cur, "failed", "none") /\ Finish(cur)
    <3>1. rec' \in [Handles -> Records] /\ cur' \in 0..MaxTurns /\ ex' \in Executions
      BY <2>1, <2>2, SettleTypes, Outcomes
    <3> QED BY <1>1, <1>10, <3>1 DEF ErrorResponse, Typed, child
  <2>3. CASE ex' = [ex EXCEPT !.wait = "none"] /\ UNCHANGED <<rec, cur>>
    <3>1. ex' \in Executions
      BY <1>1, <2>3, ExecutionTypes
    <3> QED BY <1>1, <1>10, <2>3, <3>1 DEF ErrorResponse, Typed, child
  <2> QED BY <1>10, <2>2, <2>3 DEF ErrorResponse
<1>11. CASE SessionEvent
  <2>1. ex' \in Executions
    BY <1>1, <1>11, ExecutionTypes DEF SessionEvent
  <2> QED BY <1>1, <1>4, <1>6, <1>11, <2>1 DEF SessionEvent, Typed, child
<1>12. CASE SessionIdle
  <2>1. ex' \in Executions
    BY <1>1, <1>12, ExecutionTypes DEF SessionIdle
  <2> QED BY <1>1, <1>4, <1>6, <1>12, <2>1 DEF SessionIdle, Typed, child
<1>13. CASE TerminationOnlyCheck
  <2>1. rec' \in [Handles -> Records] /\ cur' \in 0..MaxTurns /\ ex' \in Executions
    BY <1>2, <1>13, SettleTypes, Outcomes DEF TerminationOnlyCheck
  <2> QED BY <1>1, <1>6, <1>13, <2>1 DEF TerminationOnlyCheck, Typed, child
<1>14. CASE ReceiptTimeout
  <2>1. [ex EXCEPT !.wait = "tombstone"] \in Executions
    BY <1>1, ExecutionTypes
  <2>2. CASE ex.unknown
    BY <1>1, <1>14, <2>1, <2>2 DEF ReceiptTimeout, Typed, child
  <2>3. CASE ~ex.unknown
    <3>1. MarkUnknown(cur, [ex EXCEPT !.wait = "tombstone"], <<>>)
      BY <1>14, <2>3 DEF ReceiptTimeout
    <3>2. /\ rec' \in [Handles -> Records] /\ ex' \in Executions /\ fences' \subseteq Handles
          /\ queue' \in 0..MaxQueue /\ todo' \in Seq(Steps)
      BY <1>2, <1>4, <1>14, <2>1, <3>1, MarkTypes DEF ReceiptTimeout
    <3> QED BY <1>1, <1>14, <3>2 DEF ReceiptTimeout, Typed, child
  <2> QED BY <2>2, <2>3
<1>15. CASE TurnTimeout
  <2>1. /\ rec' \in [Handles -> Records] /\ ex' \in Executions /\ fences' \subseteq Handles
        /\ queue' \in 0..MaxQueue /\ todo' \in Seq(Steps)
    BY <1>1, <1>2, <1>4, <1>15, MarkTypes DEF TurnTimeout
  <2> QED BY <1>1, <1>15, <2>1 DEF TurnTimeout, Typed, child
<1>16. CASE Drain
  <2>1. CASE cur # 0 /\ MarkUnknown(cur, PendingRejected, <<>>)
    <3>1. /\ rec' \in [Handles -> Records] /\ ex' \in Executions /\ fences' \subseteq Handles
          /\ queue' \in 0..MaxQueue /\ todo' \in Seq(Steps)
      BY <1>2, <1>4, <1>5, <2>1, MarkTypes
    <3> QED BY <1>1, <1>3, <1>16, <3>1 DEF Drain, Typed, child
  <2>2. CASE ex' = PendingRejected /\ queue' = 0 /\ UNCHANGED <<rec, fences, todo>>
    BY <1>1, <1>3, <1>4, <1>5, <1>16, <2>2 DEF Drain, Typed, child
  <2> QED BY <1>16, <2>1, <2>2 DEF Drain
<1>17. CASE Recover
  <2>1. cur \in Handles /\ rec[cur] \in Records
    BY <1>1, <1>2, <1>17 DEF Recover
  <2>2. [rec[cur] EXCEPT !.claim = TRUE] \in Records
    BY <2>1 DEF Records
  <2>3. rec' \in [Handles -> Records]
    BY <1>1, <1>17, <2>2 DEF Recover
  <2> QED BY <1>1, <1>6, <1>17, <2>3 DEF Recover, Typed, child
<1>18. CASE ChildExit
  <2>1. CASE cur = 0
    BY <1>1, <1>3, <1>6, <1>18, <2>1 DEF ChildExit, Typed, child
  <2>2. CASE cur # 0 /\ ex.unknown
    BY <1>1, <1>3, <1>5, <1>6, <1>18, <2>2 DEF ChildExit, Typed, child
  <2>3. CASE cur # 0 /\ ~ex.unknown
    <3>1. MarkUnknown(cur, PendingRejected, ExitSteps(cur))
      BY <1>18, <2>3 DEF ChildExit
    <3>2. /\ rec' \in [Handles -> Records] /\ ex' \in Executions /\ fences' \subseteq Handles
          /\ queue' \in 0..MaxQueue /\ todo' \in Seq(Steps)
      BY <1>2, <1>5, <1>6, <2>3, <3>1, MarkTypes
    <3> QED BY <1>1, <1>3, <1>18, <3>2 DEF ChildExit, Typed, child
  <2> QED BY <2>1, <2>2, <2>3
<1>19. CASE Restart
  <2>1. \A h \in Handles : Restored(rec[h]) \in Records
    BY <1>1, <1>3, RecordTypes
  <2>2. restarts' \in 0..MaxRestarts
    BY <1>1, <1>19, RouterAssumption DEF Restart
  <2>3. rec' \in [Handles -> Records]
    BY <1>19, <2>1 DEF Restart
  <2> QED BY <1>1, <1>3, <1>4, <1>5, <1>19, <2>2, <2>3 DEF Restart, Typed, child
<1>20. CASE \E h \in Handles : Recheck(h)
  <2>1. PICK h \in Handles : Recheck(h)
    BY <1>20
  <2>2. todo' \in Seq(Steps)
    BY <1>4, <2>1, StepTypes, HandleRange DEF Recheck
  <2> QED BY <1>1, <2>1, <2>2 DEF Recheck, Typed, child
<1>21. CASE \E h \in Handles : ChildReads(h) \/ ChildEnds(h)
  <2>1. truth' \in [Handles -> Truths]
    BY <1>1, <1>21 DEF ChildReads, ChildEnds, Truths, Ended
  <2> QED BY <1>1, <1>21, <2>1 DEF ChildReads, ChildEnds, Typed, router
<1>22. CASE \E risk \in BOOLEAN : Abandon(risk)
  <2>1. PICK a \in {"proven", "risk"} :
          rec' = [h \in Handles |-> IF Blocks(h) THEN [rec[h] EXCEPT !.abandoned = a] ELSE rec[h]]
    BY <1>22 DEF Abandon
  <2>2. ASSUME NEW r \in Records PROVE [r EXCEPT !.abandoned = a] \in Records
    BY DEF Records
  <2>3. rec' \in [Handles -> Records]
    BY <1>1, <2>1, <2>2
  <2> QED BY <1>1, <1>22, <2>3 DEF Abandon, Typed, child
<1>23. CASE \E g \in Gens : ChildDies(g)
  BY <1>1, <1>23 DEF ChildDies, Typed, router
<1>24. CASE UNCHANGED vars
  BY <1>1, <1>24 DEF vars, Typed
<1>25. CASE Exited
  <2>1. Tail(todo) \in Seq(Steps)
    BY <1>1, <1>25 DEF Exited, Doing
  <2> QED BY <1>1, <1>3, <1>4, <1>25, <2>1 DEF Exited, Typed, child
<1>26. CASE StdinBroken
  BY <1>1, <1>3, <1>4, <1>26 DEF StdinBroken, Typed, child
<1> QED BY <1>7, <1>8, <1>9, <1>10, <1>11, <1>12, <1>13, <1>14, <1>15, <1>16, <1>17, <1>18,
           <1>19, <1>20, <1>21, <1>22, <1>23, <1>24, <1>25, <1>26

LEMMA TypeInit == Init => TypeOK
<1> SUFFICES ASSUME Init PROVE Typed
  BY TypedForm
<1>1. NoRecord \in Records
  BY RouterAssumption DEF Records, NoRecord
<1>3. NewExecution \in Executions
  BY DEF Executions, NewExecution
<1>2. proc \in Processes
  BY RouterAssumption DEF Init, Processes
<1> QED BY <1>1, <1>2, <1>3, RouterAssumption DEF Init, Typed, Truths

LEMMA TypeStep == TypeOK /\ [Next]_vars => TypeOK'
<1> SUFFICES ASSUME Typed, [Next]_vars PROVE Typed'
  BY TypedForm
<1>1. CASE Continue
  BY <1>1, ContinueTypes, OtherTypes DEF Continue
<1> QED BY <1>1, OtherTypes DEF Next

(* The records, the process and the rest of a handler keep their form in   *)
(* every state the router can reach.                                       *)
THEOREM TypeCorrect == Spec => []TypeOK
  BY TypeInit, TypeStep, PTL DEF Spec

-----------------------------------------------------------------------------
(* What the steps have in common.  The ledger is what is durable, and what *)
(* the children did.                                                       *)
Ledger ==
  /\ \A h \in Handles : Recorded(h) /\ TrueOf(h)
  /\ OneDanger
  /\ \A g \in alive : g <= proc.gen

LEMMA LedgerOf ==
  /\ SafeInv <=> Ledger /\ (\A h \in Handles : Unsent(h)) /\ Tracked /\ Handler /\ QueueOnlyWhenOpen
  /\ SafeInv' <=> /\ Ledger' /\ (\A h \in Handles : Unsent(h)') /\ Tracked' /\ Handler'
                  /\ QueueOnlyWhenOpen'
  BY DEF SafeInv, Ledger

LEMMA LedgerStays ==
  ASSUME Ledger, UNCHANGED <<rec, cur, truth>>, proc'.gen = proc.gen, alive' \subseteq alive
  PROVE  Ledger'
<1>1. ASSUME NEW h \in Handles PROVE Recorded(h)' /\ TrueOf(h)'
  BY DEF Ledger, Recorded, TrueOf, Held
<1>2. OneDanger'
  BY DEF Ledger, OneDanger, Blocks
<1> QED BY <1>1, <1>2 DEF Ledger

LEMMA UnsentStays ==
  ASSUME \A h \in Handles : Unsent(h), NoWriting, rechecks' \subseteq rechecks,
         \A h \in Handles : /\ rec'[h].gen = rec[h].gen
                            /\ rec'[h].st = "absent" => rec[h].st = "absent"
                            /\ h \in rechecks => truth'[h] = truth[h],
         proc'.gen = proc.gen, proc'.state # "none" => proc.state # "none",
         alive' \subseteq alive,
         \A h \in Handles : h \in rechecks /\ h = cur /\ cur' # h => rec[h].gen \notin alive
  PROVE  \A h \in Handles : Unsent(h)'
<1> SUFFICES ASSUME NEW h \in Handles, h \in rechecks' PROVE Unsent(h)'
  BY DEF Unsent, Awaiting, NoWriting
<1>1. Unsent(h) /\ h \in rechecks /\ ~Writing(h)'
  BY DEF NoWriting
<1>2. rec[h].st # "absent" /\ truth[h] = "none"
  BY <1>1 DEF Unsent, Awaiting
<1>3. Owned(h) => h = cur \/ rec[h].gen \notin alive
  BY <1>1 DEF Unsent, Awaiting
<1>4. Owned(h)' => Owned(h)
  BY DEF Owned
<1> QED BY <1>1, <1>2, <1>3, <1>4 DEF Unsent, Writing

LEMMA HandlerStays ==
  ASSUME Handler, UNCHANGED <<rec, cur, ex, proc, todo>>, alive' \subseteq alive
  PROVE  Handler'
<1>1. Shape'
  BY DEF Handler, Shape, Doing
<1> QED BY <1>1 DEF Handler, Exiting, Doing

LEMMA QueueStays ==
  ASSUME QueueOnlyWhenOpen, queue' > 0 => queue > 0, proc'.state = proc.state,
         fences' \subseteq fences, \A h \in Handles : Blocks(h)' => Blocks(h)
  PROVE  QueueOnlyWhenOpen'
  BY DEF QueueOnlyWhenOpen, Admitting, Blocked

LEMMA QueueEmpty == ASSUME queue' = 0 PROVE QueueOnlyWhenOpen'
  BY DEF QueueOnlyWhenOpen

(* A fenced process has an empty queue. *)
LEMMA NoQueue ==
  ASSUME Typed, Tracked, QueueOnlyWhenOpen, cur # 0, ex.unknown
  PROVE  queue = 0
<1>1. cur \in fences
  BY DEF Tracked
<1> QED BY <1>1 DEF QueueOnlyWhenOpen, Admitting, Typed

LEMMA TrackedStays ==
  ASSUME Tracked, UNCHANGED <<rec, cur, truth>>, proc'.gen = proc.gen, proc'.state # "none",
         fences \subseteq fences', ex'.unknown = ex.unknown, ex'.receipt = ex.receipt,
         ex'.events = ex.events, ex'.idle = ex.idle, ex'.check = ex.check
  PROVE  Tracked'
  BY DEF Tracked, Owned

(* markOutcomeUnknown of the tracked execution. *)
LEMMA MarkKeeps ==
  ASSUME TypeOK, SafeInv, cur # 0, ~ex.unknown, NEW e \in Executions, NEW s \in {<<>>, ExitSteps(cur)},
         MarkUnknown(cur, e, s), UNCHANGED <<cur, rechecks, alive, truth>>,
         e.receipt = ex.receipt, e.events = ex.events, e.idle = ex.idle, e.check = ex.check,
         proc'.gen = proc.gen, proc'.state # "none", s = ExitSteps(cur) => proc.gen \notin alive
  PROVE  SafeInv'
<1>1. /\ cur \in Handles /\ \A h \in Handles : rec[h] \in Records
      /\ rec \in [Handles -> Records]
  BY Parts
<1>2. Ledger /\ (\A h \in Handles : Unsent(h)) /\ Tracked /\ QueueOnlyWhenOpen
  BY LedgerOf
<1>3. rec[cur].st = "open" /\ ~rec[cur].unknown /\ Owned(cur)
  BY <1>2 DEF Tracked
<1>4. \A h \in Handles : h # cur => rec'[h] = rec[h]
  BY <1>1 DEF MarkUnknown
<1>5. /\ rec'[cur].st = "open" /\ rec'[cur].unknown /\ rec'[cur].fence = "active"
      /\ rec'[cur].abandoned = "no" /\ rec'[cur].outcome = rec[cur].outcome
      /\ rec'[cur].term = rec[cur].term /\ rec'[cur].gen = rec[cur].gen
      /\ rec'[cur].written = rec[cur].written
  BY <1>1, <1>3 DEF MarkUnknown, Records
<1>6. ASSUME NEW h \in Handles PROVE Recorded(h)' /\ TrueOf(h)'
  <2>1. Recorded(h) /\ TrueOf(h)
    BY <1>2 DEF Ledger
  <2>2. CASE h = cur
    BY <1>3, <1>5, <2>1, <2>2 DEF Recorded, TrueOf, Held
  <2>3. CASE h # cur
    BY <1>4, <2>1, <2>3 DEF Recorded, TrueOf, Held
  <2> QED BY <2>2, <2>3
<1>7. OneDanger'
  <2>1. \A h \in Handles : Blocks(h)' => h = cur
    BY <1>2, <1>4 DEF Ledger, OneDanger, Blocks
  <2> QED BY <2>1 DEF OneDanger
<1>8. Ledger'
  BY <1>2, <1>6, <1>7 DEF Ledger
<1>9. Now("try", cur, s)
  <2>1. s \in Seq(Steps)
    <3>1. <<>> \in Seq(Steps) /\ cur \in 0..MaxTurns
      BY <1>1, HandleRange
    <3>2. ExitSteps(cur) \in Seq(Steps)
      BY <3>1, StepTypes
    <3> QED BY <3>1, <3>2
  <2>2. <<"try", cur>> \in Steps
    BY <1>1, HandleRange DEF Steps
  <2> QED BY <2>1, <2>2, Before DEF MarkUnknown, Now
<1>10. Handler' /\ NoWriting
  BY <1>1, <1>9, ToTry
<1>11. \A h \in Handles : Unsent(h)'
  <2>1. \A h \in Handles : rec'[h].gen = rec[h].gen /\ (rec'[h].st = "absent" => rec[h].st = "absent")
    BY <1>4, <1>5
  <2> QED BY <1>2, <1>3, <1>10, <2>1, UnsentStays DEF Owned
<1>12. Tracked'
  <2>1. ex'.unknown /\ ex'.receipt = e.receipt /\ ex'.events = e.events /\ ex'.idle = e.idle
        /\ ex'.check = e.check
    BY DEF MarkUnknown, Executions
  <2>2. cur \in fences'
    BY DEF MarkUnknown
  <2> QED BY <1>2, <1>3, <1>5, <2>1, <2>2 DEF Tracked, Owned
<1>13. QueueOnlyWhenOpen'
  BY QueueEmpty DEF MarkUnknown
<1> QED BY <1>8, <1>10, <1>11, <1>12, <1>13, LedgerOf

(* What may be said of a turn when it is settled. *)
Claims(h, o, t) ==
  /\ o \in Direct \/ t # "none"
  /\ o \in {"completed", "late_completed"} => truth[h] = "ok"
  /\ o = "late_failed" => truth[h] = "failed"
  /\ o = "failed" => truth[h] \in {"failed", "refused", "none"}
  /\ o = "not_admitted" => truth[h] = "none"
  /\ t # "none" => ~Held(h)

(* A settlement and finishExecution. *)
LEMMA SettleKeeps ==
  ASSUME TypeOK, SafeInv, NEW h \in Handles, NEW o \in Direct \cup Late,
         NEW t \in {"none", "idle", "startedIdle", "exit"},
         SettleDirect(h, o, t) \/ SettleLate(h, o, t), Finish(h), rec[h].st = "open" => Claims(h, o, t),
         UNCHANGED <<fences, queue, proc, rechecks, alive, truth>>,
         h = cur /\ h \in rechecks => rec[h].gen \notin alive, NoWriting
  PROVE  /\ Ledger' /\ (\A k \in Handles : Unsent(k)') /\ Tracked' /\ QueueOnlyWhenOpen'
         /\ cur' # h /\ (cur # h => cur' = cur)
         /\ (SettleLate(h, o, t) \/ ~rec[h].unknown) /\ rec[h].st # "absent" => rec'[h].st = "settled"
<1>1. /\ \A k \in Handles : rec[k] \in Records
      /\ rec \in [Handles -> Records] /\ h # 0
  BY Parts, HandleRange
<1>2. Ledger /\ (\A k \in Handles : Unsent(k)) /\ Tracked /\ QueueOnlyWhenOpen
  BY LedgerOf
<1>3. \A k \in Handles : k # h => rec'[k] = rec[k]
  BY <1>1 DEF SettleDirect, SettleLate
<1>4. \/ rec'[h] = rec[h] /\ ~(rec[h].st = "open" /\ ~rec[h].unknown)
      \/ rec'[h] = Settled(rec[h], o, t) /\ rec[h].st = "open"
  BY <1>1 DEF SettleDirect, SettleLate
<1>5. LET r == Settled(rec[h], o, t) IN
        /\ r.st = "settled" /\ r.outcome = o /\ r.term = t /\ r.gen = rec[h].gen
        /\ r.unknown = rec[h].unknown /\ r.fence = rec[h].fence /\ r.abandoned = rec[h].abandoned
        /\ r.written = rec[h].written
  BY <1>1 DEF Records, Settled
<1>6. cur' # h /\ (cur # h => cur' = cur /\ ex' = ex) /\ (cur = h => cur' = 0)
  BY <1>1 DEF Finish
<1>7. ASSUME NEW k \in Handles PROVE Recorded(k)' /\ TrueOf(k)'
  <2>1. Recorded(k) /\ TrueOf(k)
    BY <1>2 DEF Ledger
  <2>2. CASE k # h
    BY <1>3, <1>6, <2>1, <2>2 DEF Recorded, TrueOf, Held
  <2>3. CASE k = h /\ rec'[h] = rec[h] /\ ~(rec[h].st = "open" /\ ~rec[h].unknown)
    BY <2>1, <2>3 DEF Recorded, TrueOf, Held
  <2>4. CASE k = h /\ rec'[h] = Settled(rec[h], o, t) /\ rec[h].st = "open"
    <3>1. Claims(h, o, t) /\ Claims(h, o, t)'
      BY <1>5, <2>4 DEF Claims, Held
    <3>2. rec'[h].term = "none" => rec[h].term = "none"
      BY <2>1, <2>4 DEF Recorded
    <3> QED BY <1>5, <2>1, <2>4, <3>1, <3>2 DEF Recorded, TrueOf, Held, Claims
  <2> QED BY <1>4, <2>2, <2>3, <2>4
<1>8. \A k \in Handles : Blocks(k)' <=> Blocks(k)
  BY <1>3, <1>4, <1>5 DEF Blocks
<1>9. OneDanger'
  BY <1>2, <1>6, <1>8 DEF Ledger, OneDanger
<1>10. Ledger'
  BY <1>2, <1>7, <1>9 DEF Ledger
<1>11. \A k \in Handles : Unsent(k)'
  <2>1. \A k \in Handles : rec'[k].gen = rec[k].gen /\ (rec'[k].st = "absent" => rec[k].st = "absent")
    BY <1>3, <1>4, <1>5
  <2> QED BY <1>2, <1>6, <2>1, UnsentStays
<1>12. Tracked'
  <2>1. CASE cur = h \/ cur = 0
    BY <1>6, <2>1 DEF Tracked
  <2>2. CASE cur # h /\ cur # 0
    <3>1. cur \in Handles /\ rec'[cur] = rec[cur] /\ cur' = cur /\ ex' = ex
      BY <1>3, <1>6, <2>2, Parts
    <3> QED BY <1>2, <2>2, <3>1 DEF Tracked, Owned
  <2> QED BY <2>1, <2>2
<1>13. QueueOnlyWhenOpen'
  BY <1>2, <1>8, QueueStays
<1>14. (SettleLate(h, o, t) \/ ~rec[h].unknown) /\ rec[h].st # "absent" => rec'[h].st = "settled"
  <2>1. rec[h].st \in {"absent", "open", "settled"}
    BY <1>1 DEF Records
  <2> QED BY <1>1, <1>5, <2>1 DEF SettleDirect, SettleLate
<1> QED BY <1>6, <1>10, <1>11, <1>12, <1>13, <1>14

LEMMA TrackedBy ==
  ASSUME NEW h, cur' = h, rec'[h].st = "open", Owned(h)', rec'[h].unknown = ex'.unknown,
         ex'.unknown => h \in fences',
         ex'.receipt \/ ex'.events # 0 => truth'[h] \in Ended \cup {"live"},
         ex'.events = 3 \/ ex'.idle = "past" \/ ex'.check => truth'[h] \in Ended
  PROVE  Tracked'
  BY DEF Tracked, Owned

LEMMA TrackedIs ==
  ASSUME Tracked, cur # 0
  PROVE  /\ rec[cur].st = "open" /\ Owned(cur) /\ rec[cur].unknown = ex.unknown
         /\ ex.unknown => cur \in fences
         /\ ex.receipt \/ ex.events # 0 => truth[cur] \in Ended \cup {"live"}
         /\ ex.events = 3 \/ ex.idle = "past" \/ ex.check => truth[cur] \in Ended
  BY DEF Tracked

-----------------------------------------------------------------------------
(* Each step keeps the invariant.  First admission and the write.          *)
LEMMA Ground ==
  ASSUME RInv
  PROVE  /\ TypeOK /\ Typed /\ SafeInv
         /\ Ledger /\ (\A h \in Handles : Unsent(h)) /\ Tracked /\ Handler /\ QueueOnlyWhenOpen
         /\ cur \in 0..MaxTurns /\ (cur # 0 => cur \in Handles)
         /\ \A h \in Handles : h # 0
         /\ todo \in Seq(Steps) /\ queue \in Nat /\ proc.gen \in Nat
         /\ \A h \in Handles : rec[h] \in Records /\ rec[h].gen \in Nat
         /\ rec \in [Handles -> Records] /\ ex \in Executions /\ proc \in Processes
         /\ truth \in [Handles -> Truths]
<1>1. TypeOK /\ SafeInv
  BY DEF RInv
<1>2. queue \in Nat
  BY <1>1, Parts, RouterAssumption
<1> QED BY <1>1, <1>2, TypedForm, LedgerOf, Parts, HandleRange

LEMMA SpawnSafe == RInv /\ Spawn => SafeInv'
<1> SUFFICES ASSUME RInv, Spawn PROVE SafeInv'
  OBVIOUS
<1>1. cur = 0 /\ queue' = 0
  BY Ground DEF Spawn, Tracked, Owned, QueueOnlyWhenOpen, Admitting
<1>2. proc'.gen = proc.gen + 1 /\ proc'.state = "READY"
  BY DEF Spawn
<1>3. \A h \in Handles : rec[h].gen <= proc.gen /\ rec[h].gen \in Nat
  BY Ground DEF Ledger, Recorded
<1>4. \A h \in Handles : (Held(h)' <=> Held(h)) /\ ~Owned(h)'
  BY <1>2, <1>3, Ground DEF Spawn, Held, Owned
<1>5. ASSUME NEW h \in Handles PROVE Recorded(h)' /\ TrueOf(h)'
  <2>1. rec'[h].gen <= proc'.gen
    BY <1>2, <1>3, Ground DEF Spawn
  <2> QED BY <1>4, <2>1, Ground DEF Ledger, Recorded, TrueOf, Spawn
<1>6. Ledger'
  <2>1. \A g \in alive' : g <= proc'.gen
    <3>1. \A g \in alive : g \in Nat /\ g <= proc.gen
      BY Ground, Parts DEF Ledger
    <3> QED BY <1>2, <3>1, Ground DEF Spawn
  <2>2. OneDanger'
    BY Ground DEF Spawn, Ledger, OneDanger, Blocks
  <2> QED BY <1>5, <2>1, <2>2 DEF Ledger
<1>7. Handler' /\ NoWriting
  BY ToIdle DEF Spawn, Quiet
<1>8. \A h \in Handles : Unsent(h)'
  <2> SUFFICES ASSUME NEW h \in Handles PROVE Unsent(h)'
    OBVIOUS
  <2>1. Unsent(h) /\ ~Writing(h)'
    BY <1>7, Ground DEF NoWriting
  <2> QED BY <1>4, <2>1 DEF Unsent, Awaiting, Writing, Spawn
<1>9. Tracked' /\ QueueOnlyWhenOpen'
  BY <1>1, QueueEmpty DEF Spawn, Tracked
<1> QED BY <1>6, <1>7, <1>8, <1>9, LedgerOf

LEMMA EnqueueSafe == RInv /\ Enqueue => SafeInv'
<1> SUFFICES ASSUME RInv, Enqueue PROVE SafeInv'
  OBVIOUS
<1>1. Ledger'
  BY Ground, LedgerStays DEF Enqueue, child
<1>2. Handler' /\ NoWriting
  BY ToIdle DEF Enqueue, Quiet
<1>3. \A h \in Handles : Unsent(h)'
  BY <1>2, Ground, UnsentStays DEF Enqueue, child
<1>4. Tracked'
  BY Ground DEF Enqueue, child, Tracked, Owned
<1>5. QueueOnlyWhenOpen'
  BY DEF Enqueue, QueueOnlyWhenOpen, Admitting, Blocked, Blocks
<1> QED BY <1>1, <1>2, <1>3, <1>4, <1>5, LedgerOf

LEMMA RecheckSafe == ASSUME RInv, NEW h \in Handles, Recheck(h) PROVE SafeInv'
<1>1. Ledger'
  BY Ground, LedgerStays DEF Recheck, child
<1>2. PICK op \in {"attempt", "reject"} :
        IF op = "attempt" THEN Now(op, h, <<<<"send", h>>>>) ELSE Now(op, h, <<>>)
  <2>1. ASSUME todo' = <<<<"attempt", h>>, <<"send", h>>>>
        PROVE  Now("attempt", h, <<<<"send", h>>>>)
    BY <2>1, Tuples DEF Now
  <2>2. ASSUME todo' = <<<<"reject", h>>>> PROVE Now("reject", h, <<>>)
    BY <2>2, Tuples DEF Now
  <2> QED BY <2>1, <2>2 DEF Recheck
<1>3. /\ Handler' /\ \A k : Writing(k)' <=> k = h
      /\ \A k : ~Doing("send", k)'
  BY <1>2, ToWrite
<1>4. \A k \in Handles : Unsent(k)'
  <2> SUFFICES ASSUME NEW k \in Handles PROVE Unsent(k)'
    OBVIOUS
  <2>1. Unsent(k) /\ (Awaiting(k)' => k \in rechecks)
    BY <1>3, Ground DEF Awaiting, Recheck
  <2> QED BY <1>3, <2>1 DEF Unsent, Awaiting, Recheck, Owned, child
<1>5. Tracked' /\ QueueOnlyWhenOpen'
  BY Ground, QueueStays DEF Recheck, child, Tracked, Owned, Blocks
<1> QED BY <1>1, <1>3, <1>4, <1>5, LedgerOf

LEMMA AttemptSafe == ASSUME RInv, NEW h \in Handles, Attempt(h) PROVE SafeInv'
<1>1. \A k \in Handles : k # h => rec'[k] = rec[k]
  BY Ground DEF Attempt
<1>2. /\ rec'[h].st = rec[h].st /\ rec'[h].gen = rec[h].gen /\ rec'[h].unknown = rec[h].unknown
      /\ rec'[h].outcome = rec[h].outcome /\ rec'[h].term = rec[h].term
      /\ rec'[h].fence = rec[h].fence /\ rec'[h].abandoned = rec[h].abandoned
      /\ rec'[h].written
  BY Ground DEF Attempt, Records
<1>3. rec[h].st # "absent"
  BY Ground DEF Attempt, Unsent, Awaiting, Writing
<1>4. ASSUME NEW k \in Handles PROVE Recorded(k)' /\ TrueOf(k)'
  <2>1. Recorded(k) /\ TrueOf(k)
    BY Ground DEF Ledger
  <2>2. CASE k = h
    BY <1>2, <1>3, <2>1, <2>2 DEF Recorded, TrueOf, Held, Attempt, child
  <2>3. CASE k # h
    BY <1>1, <2>1, <2>3 DEF Recorded, TrueOf, Held, Attempt, child
  <2> QED BY <2>2, <2>3
<1>5. \A k \in Handles : Blocks(k)' <=> Blocks(k)
  BY <1>1, <1>2 DEF Blocks
<1>6. Ledger'
  BY <1>4, <1>5, Ground DEF Ledger, OneDanger, Attempt, child
<1>7. /\ Handler' /\ \A k : Writing(k)' <=> k = h
  <2>1. todo' = <<<<"send", h>>>>
    BY Ground, Rest DEF Attempt, Handler
  <2>2. Now("send", h, <<>>)
    BY <2>1, Tuples DEF Now
  <2> QED BY <2>2, ToWrite
<1>8. \A k \in Handles : Unsent(k)'
  <2> SUFFICES ASSUME NEW k \in Handles PROVE Unsent(k)'
    OBVIOUS
  <2>1. Unsent(k) /\ Unsent(h) /\ Writing(h)
    BY Ground DEF Attempt, Writing
  <2>2. Awaiting(k)' => Awaiting(k)
    BY <1>7, <2>1 DEF Awaiting, Attempt
  <2>3. Doing("send", k)' => k = h
    BY <1>7 DEF Writing
  <2>4. Awaiting(k) => k = h \/ ~Writing(k)'
    BY <1>7
  <2> QED BY <1>1, <1>2, <2>1, <2>2, <2>3, <2>4 DEF Unsent, Attempt, Owned, child
<1>9. Tracked' /\ QueueOnlyWhenOpen'
  <2>1. QueueOnlyWhenOpen'
    BY <1>5, Ground, QueueStays DEF Attempt
  <2>2. CASE cur = 0
    BY <2>1, <2>2 DEF Attempt, Tracked
  <2>3. CASE cur # 0
    <3>1. cur \in Handles
      BY <2>3, Ground
    <3> QED BY <1>1, <1>2, <2>1, <2>3, <3>1, Ground DEF Attempt, Tracked, Owned, child
  <2> QED BY <2>2, <2>3
<1> QED BY <1>6, <1>7, <1>8, <1>9, LedgerOf

LEMMA StartTurnSafe == ASSUME RInv, NEW h \in Handles, StartTurn(h) PROVE SafeInv'
<1>1. fences = {} /\ ~Blocked /\ proc.state = "READY" /\ h # 0
  BY Ground DEF StartTurn, Admitting
<1>2. cur = 0
  BY <1>1, Ground DEF StartTurn, InFlight, Tracked
<1>3. rec[h] = NoRecord /\ truth[h] = "none"
  BY Ground DEF StartTurn, Unminted, Ledger, Recorded, NoRecord
<1>4. h \notin rechecks
  BY <1>3, Ground DEF Unsent, Awaiting, NoRecord
<1>5. \A k \in Handles : k # h => rec'[k] = rec[k]
  BY Ground DEF StartTurn
<1>6. /\ rec'[h].st = "open" /\ rec'[h].unknown = FALSE /\ rec'[h].outcome = "none"
      /\ rec'[h].term = "none" /\ rec'[h].gen = proc.gen /\ rec'[h].abandoned = "no"
  BY Ground DEF StartTurn, NoRecord
<1>7. cur' = h /\ UNCHANGED <<proc, alive, truth, fences>>
  BY DEF StartTurn, child
<1>8. ASSUME NEW k \in Handles PROVE Recorded(k)' /\ TrueOf(k)'
  <2>1. Recorded(k) /\ TrueOf(k)
    BY Ground DEF Ledger
  <2>2. CASE k = h
    <3>1. rec'[k].gen <= proc'.gen
      BY <1>6, <1>7, <2>2, Ground
    <3>2. Recorded(k)'
      BY <1>3, <1>6, <1>7, <2>2, <3>1 DEF Recorded
    <3>3. TrueOf(k)'
      BY <1>6, <2>2 DEF TrueOf
    <3> QED BY <3>2, <3>3
  <2>3. CASE k # h
    <3>1. k # 0
      BY Ground
    <3> QED BY <1>2, <1>5, <1>7, <2>1, <2>3, <3>1 DEF Recorded, TrueOf, Held
  <2> QED BY <2>2, <2>3
<1>9. \A k \in Handles : ~Blocks(k)'
  BY <1>1, <1>5, <1>6 DEF Blocks, Blocked
<1>10. Ledger'
  BY <1>7, <1>8, <1>9, Ground DEF Ledger, OneDanger
<1>11. Handler' /\ (\A k : Writing(k)' => k = h /\ h \notin WebTurns) /\ \A k : ~Doing("send", k)'
  <2>1. CASE h \in WebTurns
    BY <2>1, ToIdle, IdleDoing DEF StartTurn, Writing
  <2>2. CASE h \notin WebTurns
    <3>1. Now("attempt", h, <<<<"send", h>>>>)
      BY <2>2, Tuples DEF StartTurn, Now
    <3> QED BY <2>2, <3>1, ToWrite
  <2> QED BY <2>1, <2>2
<1>12. \A k \in Handles : Unsent(k)'
  <2> SUFFICES ASSUME NEW k \in Handles PROVE Unsent(k)'
    OBVIOUS
  <2>1. rechecks' \subseteq rechecks \cup {h} /\ (h \in rechecks' => h \in WebTurns)
    BY <1>4 DEF StartTurn
  <2>2. CASE k = h
    BY <1>3, <1>6, <1>7, <1>11, <2>1, <2>2 DEF Unsent
  <2>3. CASE k # h
    <3>1. Awaiting(k)' => k \in rechecks
      BY <1>11, <2>1, <2>3 DEF Awaiting
    <3>2. Unsent(k) /\ k # 0
      BY Ground
    <3> QED BY <1>2, <1>5, <1>7, <1>11, <2>3, <3>1, <3>2 DEF Unsent, Awaiting, Owned
  <2> QED BY <2>2, <2>3
<1>13. Tracked'
  <2>1. ex' = NewExecution
    BY DEF StartTurn
  <2>2. /\ ex'.unknown = FALSE /\ ex'.receipt = FALSE /\ ex'.events = 0 /\ ex'.idle = "none"
        /\ ex'.check = FALSE
    BY <2>1 DEF NewExecution
  <2>3. Owned(h)'
    BY <1>1, <1>6, <1>7 DEF Owned
  <2>4. 0 # 3 /\ "none" # "past"
    OBVIOUS
  <2> QED BY <1>6, <1>7, <2>2, <2>3, <2>4, TrackedBy
<1>14. QueueOnlyWhenOpen'
  BY <1>1, <1>7, <1>9 DEF QueueOnlyWhenOpen, Admitting, Blocked
<1> QED BY <1>10, <1>11, <1>12, <1>13, <1>14, LedgerOf

LEMMA SendSafe == ASSUME RInv, NEW h \in Handles, Send(h) PROVE SafeInv'
<1>1. /\ truth[h] = "none" /\ rec[h].written /\ h \notin rechecks /\ Owned(h)
      /\ h = cur \/ rec[h].gen \notin alive
  BY Ground DEF Send, Unsent, Awaiting, Writing
<1>2. \A k \in Handles : k # h => truth'[k] = truth[k]
  BY Ground DEF Send
<1>3. truth'[h] = truth[h] \/ (truth'[h] = "piped" /\ h = cur)
  BY <1>1, Ground DEF Send
<1>4. UNCHANGED <<rec, cur, fences, queue, proc, rechecks, alive>>
  BY DEF Send
<1>5. ASSUME NEW k \in Handles PROVE Recorded(k)' /\ TrueOf(k)'
  <2>1. Recorded(k) /\ TrueOf(k)
    BY Ground DEF Ledger
  <2>2. CASE truth'[k] = truth[k]
    <3>1. Held(k)' <=> Held(k)
      BY <1>4, <2>2 DEF Held
    <3>2. Recorded(k)'
      BY <1>4, <2>1, <2>2 DEF Recorded
    <3>3. TrueOf(k)'
      BY <1>4, <2>1, <2>2, <3>1 DEF TrueOf
    <3> QED BY <3>2, <3>3
  <2>3. CASE truth'[k] # truth[k]
    <3>1. k = cur /\ rec[k].st = "open" /\ rec[k].written /\ k # 0 /\ k = h
      BY <1>1, <1>2, <1>3, <2>3, Ground DEF Tracked
    <3>2. rec[k].outcome = "none" /\ rec[k].term = "none"
      BY <2>1, <3>1 DEF Recorded
    <3>3. TrueOf(k)'
      BY <1>4, <3>2 DEF TrueOf
    <3>4. Recorded(k)'
      BY <1>4, <2>1, <3>1 DEF Recorded
    <3> QED BY <3>3, <3>4
  <2> QED BY <2>2, <2>3
<1>6. Ledger'
  BY <1>4, <1>5, Ground DEF Ledger, OneDanger, Blocks
<1>7. Handler' /\ NoWriting
  BY Ground, Rest, ToIdle DEF Send, Handler
<1>8. \A k \in Handles : Unsent(k)'
  BY <1>1, <1>2, <1>4, <1>7, Ground, UnsentStays
<1>9. Tracked'
  <2>1. /\ ex'.unknown = ex.unknown /\ ex'.receipt = ex.receipt /\ ex'.events = ex.events
        /\ ex'.idle = ex.idle /\ ex'.check = ex.check
    BY Ground DEF Send, Executions
  <2>2. cur # 0 /\ truth'[cur] # truth[cur] => cur = h /\ truth[cur] = "none"
    BY <1>1, <1>2, Ground
  <2>3. "none" \notin Ended \cup {"live"}
    BY DEF Ended
  <2>4. CASE cur = 0
    BY <1>4, <2>4 DEF Tracked
  <2>5. CASE cur # 0
    <3>1. /\ rec[cur].st = "open" /\ Owned(cur) /\ rec[cur].unknown = ex.unknown
          /\ ex.unknown => cur \in fences
          /\ ex.receipt \/ ex.events # 0 => truth'[cur] \in Ended \cup {"live"}
          /\ ex.events = 3 \/ ex.idle = "past" \/ ex.check => truth'[cur] \in Ended
      BY <2>2, <2>3, <2>5, Ground, TrackedIs
    <3>2. Owned(cur)'
      BY <1>4, <3>1 DEF Owned
    <3> QED BY <1>4, <2>1, <3>1, <3>2, TrackedBy
  <2> QED BY <2>4, <2>5
<1>10. QueueOnlyWhenOpen'
  BY <1>4, Ground, QueueStays DEF Blocks
<1> QED BY <1>6, <1>7, <1>8, <1>9, <1>10, LedgerOf

LEMMA RejectSafe == ASSUME RInv, NEW h \in Handles, Reject(h) PROVE SafeInv'
<1>1. PICK o \in {"not_admitted", "failed"} : SettleDirect(h, o, "none")
  BY DEF Reject
<1>2. truth[h] = "none" /\ h \notin rechecks
  BY Ground DEF Reject, Unsent, Awaiting, Writing
<1>3. Claims(h, o, "none") /\ o \in Direct \cup Late
  BY <1>2 DEF Claims, Direct
<1>4. Handler' /\ NoWriting
  <2>1. Tail(todo) = <<>>
    BY Ground, Rest DEF Reject, Handler
  <2>2. CASE todo' = Tail(todo)
    BY <2>1, <2>2, ToIdle
  <2>3. CASE Owned(h) /\ todo' = <<<<"drain", 0>>>>
    <3>1. Now("drain", 0, <<>>)
      BY <2>3, Tuples DEF Now
    <3> QED BY <2>3, <3>1, ToDrain DEF Reject, Owned
  <2> QED BY <2>2, <2>3 DEF Reject
<1>5. Ledger' /\ (\A k \in Handles : Unsent(k)') /\ Tracked' /\ QueueOnlyWhenOpen'
  BY <1>1, <1>2, <1>3, <1>4, Ground, SettleKeeps DEF Reject, child
<1> QED BY <1>4, <1>5, LedgerOf

-----------------------------------------------------------------------------
(* The lines of the child and the settlement. *)
LEMMA ParsedKeeps ==
  ASSUME RInv, UNCHANGED <<rec, cur, fences, queue, proc, rechecks, restarts, child>>, cur # 0,
         ex'.unknown = ex.unknown,
         ex'.receipt \/ ex'.events # 0 => truth[cur] \in Ended \cup {"live"},
         ex'.events = 3 \/ ex'.idle = "past" \/ ex'.check => truth[cur] \in Ended,
         Handler', NoWriting
  PROVE  SafeInv'
<1>1. UNCHANGED <<rec, cur, fences, queue, proc, rechecks, alive, truth>>
  BY DEF child
<1>2. Ledger'
  BY <1>1, Ground, LedgerStays
<1>3. \A h \in Handles : Unsent(h)'
  BY <1>1, Ground, UnsentStays
<1>4. Tracked'
  <2>1. /\ rec[cur].st = "open" /\ Owned(cur) /\ rec[cur].unknown = ex.unknown
        /\ ex.unknown => cur \in fences
    BY Ground, TrackedIs
  <2>2. Owned(cur)'
    BY <1>1, <2>1 DEF Owned
  <2> QED BY <1>1, <2>1, <2>2, TrackedBy
<1>5. QueueOnlyWhenOpen'
  BY <1>1, Ground, QueueStays DEF Blocks
<1> QED BY <1>2, <1>3, <1>4, <1>5, LedgerOf

LEMMA NowTry ==
  ASSUME RInv, cur # 0, todo' = <<<<"try", cur>>>>, UNCHANGED cur
  PROVE  Handler' /\ NoWriting
<1>1. Now("try", cur, <<>>)
  BY Tuples DEF Now
<1>2. cur \in Handles /\ <<>> # ExitSteps(cur)
  BY Ground, Ends
<1> QED BY <1>1, <1>2, ToTry

LEMMA ReceiptSafe == RInv /\ Receipt => SafeInv'
<1> SUFFICES ASSUME RInv, Receipt PROVE SafeInv'
  OBVIOUS
<1>1. cur # 0 /\ truth[cur] \in Ended \cup {"live"}
  BY DEF Receipt, Parsing
<1>2. /\ ex'.unknown = ex.unknown /\ ex'.events = ex.events /\ ex'.idle = ex.idle
      /\ ex'.check = ex.check
  BY Ground DEF Receipt, Executions
<1>3. Handler' /\ NoWriting
  BY <1>1, NowTry DEF Receipt
<1> QED BY <1>1, <1>2, <1>3, Ground, TrackedIs, ParsedKeeps DEF Receipt

LEMMA ErrorResponseSafe == RInv /\ ErrorResponse => SafeInv'
<1> SUFFICES ASSUME RInv, ErrorResponse PROVE SafeInv'
  OBVIOUS
<1>1. cur # 0 /\ cur \in Handles /\ truth[cur] = "refused"
  BY Ground DEF ErrorResponse, Parsing
<1>2. Handler' /\ NoWriting
  BY ToIdle DEF ErrorResponse, Parsing, Quiet
<1>3. CASE SettleDirect(cur, "failed", "none") /\ Finish(cur)
  <2>1. Claims(cur, "failed", "none") /\ "failed" \in Direct \cup Late
    BY <1>1 DEF Claims, Direct
  <2>2. cur \notin rechecks
    BY <1>1, Ground DEF Unsent, Awaiting
  <2>3. Ledger' /\ (\A k \in Handles : Unsent(k)') /\ Tracked' /\ QueueOnlyWhenOpen'
    BY <1>1, <1>2, <1>3, <2>1, <2>2, Ground, SettleKeeps DEF ErrorResponse, child
  <2> QED BY <1>2, <2>3, LedgerOf
<1>4. CASE ex' = [ex EXCEPT !.wait = "none"] /\ UNCHANGED <<rec, cur>>
  <2>1. /\ ex'.unknown = ex.unknown /\ ex'.events = ex.events /\ ex'.idle = ex.idle
        /\ ex'.check = ex.check /\ ex'.receipt = ex.receipt
    BY <1>4, Ground DEF Executions
  <2> QED BY <1>1, <1>2, <1>4, <2>1, Ground, TrackedIs, ParsedKeeps DEF ErrorResponse
<1> QED BY <1>3, <1>4 DEF ErrorResponse

LEMMA SessionEventSafe == RInv /\ SessionEvent => SafeInv'
<1> SUFFICES ASSUME RInv, SessionEvent PROVE SafeInv'
  OBVIOUS
<1>1. cur # 0 /\ truth[cur] \in Ended \cup {"live"} /\ ex.events \in 0..3
  BY Ground DEF SessionEvent, Parsing, Executions
<1>2. /\ ex'.unknown = ex.unknown /\ ex'.events = ex.events + 1 /\ ex'.idle = ex.idle
      /\ ex'.check = ex.check
  BY Ground DEF SessionEvent, Executions
<1>3. ex'.events = 3 => truth[cur] \in Ended
  BY <1>1, <1>2 DEF SessionEvent
<1>4. Handler' /\ NoWriting
  BY <1>1, NowTry, ToIdle DEF SessionEvent
<1> QED BY <1>1, <1>2, <1>3, <1>4, Ground, TrackedIs, ParsedKeeps DEF SessionEvent

LEMMA SessionIdleSafe == RInv /\ SessionIdle => SafeInv'
<1> SUFFICES ASSUME RInv, SessionIdle PROVE SafeInv'
  OBVIOUS
<1>1. cur # 0 /\ ex.events \in 0..3
  BY Ground DEF SessionIdle, Parsing, Executions
<1>2. /\ ex'.unknown = ex.unknown /\ ex'.events = ex.events /\ ex'.receipt = ex.receipt
      /\ ex'.check = ex.check
      /\ ex'.idle = IF ex.events = 0 THEN "stale" ELSE "past"
  BY Ground DEF SessionIdle, Executions
<1>3. ex'.idle = "past" => truth[cur] \in Ended
  BY <1>1, <1>2 DEF SessionIdle
<1>4. Handler' /\ NoWriting
  BY <1>1, NowTry, ToIdle DEF SessionIdle
<1> QED BY <1>1, <1>2, <1>3, <1>4, Ground, TrackedIs, ParsedKeeps DEF SessionIdle

(* The handler has settled or passed h by, and goes on with what the exit  *)
(* of the child left it.                                                   *)
LEMMA TryEnds ==
  ASSUME RInv, NEW h \in Handles, Doing("try", h), todo' = Tail(todo), UNCHANGED <<proc, child>>,
         cur' = h \/ (cur' = 0 /\ rec'[h].st = "settled")
  PROVE  Handler' /\ NoWriting
<1>1. Tail(todo) \in {<<>>, ExitSteps(h)}
  BY Ground, Rest DEF Handler
<1>2. CASE Tail(todo) = <<>>
  BY <1>2, ToIdle
<1>3. CASE Tail(todo) = ExitSteps(h)
  <2>1. Now("exitSettle", h, Settling(h))
    BY <1>3, Ends DEF Now
  <2>2. proc.state # "none" /\ proc.gen \notin alive
    BY <1>3, Ground DEF Handler, Exiting
  <2> QED BY <2>1, <2>2, ToExitSettle DEF child
<1> QED BY <1>1, <1>2, <1>3

LEMMA TryNothingSafe == ASSUME RInv, NEW h \in Handles, TryNothing(h) PROVE SafeInv'
<1>1. cur = h /\ cur # 0
  BY Ground DEF TryNothing, Handler
<1>2. /\ ex'.unknown = ex.unknown /\ ex'.events = ex.events /\ ex'.receipt = ex.receipt
      /\ ex'.idle = ex.idle
  BY Ground DEF TryNothing, Executions
<1>3. ex'.check => ex.check \/ ex.idle = "past"
  BY Ground DEF TryNothing, Executions, StartedThenIdle
<1>4. Handler' /\ NoWriting
  BY <1>1, TryEnds DEF TryNothing
<1> QED BY <1>1, <1>2, <1>3, <1>4, Ground, TrackedIs, ParsedKeeps DEF TryNothing

(* What is parsed of the tracked turn bears out the outcome it is given. *)
LEMMA ParsedClaims ==
  ASSUME RInv, cur # 0, ex.events = 3 \/ ex.idle = "past" \/ ex.check,
         NEW t \in {"idle", "startedIdle", "exit"}
  PROVE  /\ cur \notin rechecks
         /\ ExactOutcome(cur) # "none" => Claims(cur, ExactOutcome(cur), t)
         /\ Claims(cur, LateOutcome(ExactOutcome(cur)), t)
         /\ Claims(cur, "terminated_without_outcome", t)
<1>1. truth[cur] \in Ended /\ cur \in Handles
  BY Ground, TrackedIs
<1>2. ~Held(cur)
  BY <1>1 DEF Held, Ended
<1>3. cur \notin rechecks
  BY <1>1, Ground DEF Unsent, Awaiting, Ended
<1>4. Claims(cur, "terminated_without_outcome", t)
  BY <1>2 DEF Claims
<1>5. Claims(cur, LateOutcome(ExactOutcome(cur)), t)
  BY <1>1, <1>2 DEF Claims, LateOutcome, ExactOutcome, Ended
<1>6. ExactOutcome(cur) # "none" => Claims(cur, ExactOutcome(cur), t)
  BY <1>1, <1>2 DEF Claims, ExactOutcome, Ended
<1> QED BY <1>3, <1>4, <1>5, <1>6

LEMMA TryDirectSafe == ASSUME RInv, NEW h \in Handles, TryDirect(h) PROVE SafeInv'
<1>1. cur = h /\ cur # 0 /\ ex.events = 3 /\ ~ex.unknown
  BY Ground DEF TryDirect, Handler, ExactTermination, TerminalSeen
<1>2. /\ ExactOutcome(h) \in Direct \cup Late /\ Claims(h, ExactOutcome(h), "idle")
      /\ h \notin rechecks
  BY <1>1, ParsedClaims, Outcomes DEF TryDirect
<1>3. rec[h].st = "open" /\ ~rec[h].unknown
  BY <1>1, Ground, TrackedIs
<1>4. cur' = 0 /\ rec'[h].st = "settled"
  <2>1. rec'[h] = Settled(rec[h], ExactOutcome(h), "idle")
    BY <1>3, Ground DEF TryDirect, SettleDirect
  <2>2. rec[h] \in Records
    BY Ground
  <2> QED BY <1>1, <2>1, <2>2 DEF TryDirect, Finish, Settled, Records
<1>5. Handler' /\ NoWriting
  BY <1>4, TryEnds DEF TryDirect
<1>6. Ledger' /\ (\A k \in Handles : Unsent(k)') /\ Tracked' /\ QueueOnlyWhenOpen'
  BY <1>2, <1>5, Ground, SettleKeeps DEF TryDirect, child
<1> QED BY <1>5, <1>6, LedgerOf

LEMMA TryNoOutcomeSafe == ASSUME RInv, NEW h \in Handles, TryNoOutcome(h) PROVE SafeInv'
<1>1. cur = h /\ cur # 0 /\ ~ex.unknown
  BY Ground DEF TryNoOutcome, Handler
<1>2. Tail(todo) \in {<<>>, ExitSteps(cur)}
  BY <1>1, Ground, Rest DEF TryNoOutcome, Handler
<1>3. Tail(todo) = ExitSteps(cur) => proc.gen \notin alive
  BY <1>1, Ground DEF TryNoOutcome, Handler, Exiting
<1>4. proc.state # "none"
  BY <1>1, Ground, TrackedIs DEF Owned
<1>5. MarkUnknown(cur, ex, Tail(todo))
  BY <1>1 DEF TryNoOutcome
<1>6. UNCHANGED <<cur, rechecks, alive, truth, proc>>
  BY DEF TryNoOutcome, child
<1> QED BY <1>1, <1>2, <1>3, <1>4, <1>5, <1>6, Ground, MarkKeeps

LEMMA TryLateSafe == ASSUME RInv, NEW h \in Handles, TryLate(h) PROVE SafeInv'
<1>1. cur = h /\ cur # 0 /\ ex.events = 3
  BY Ground DEF TryLate, Handler, ExactTermination, TerminalSeen
<1>2. LET o == LateOutcome(ExactOutcome(h)) IN
        o \in Direct \cup Late /\ Claims(h, o, "idle") /\ h \notin rechecks
  BY <1>1, ParsedClaims, Outcomes
<1>3. cur' = 0 /\ rec'[h].st = "settled"
  <2>1. rec[h].st = "open" /\ rec[h] \in Records
    BY <1>1, Ground, TrackedIs
  <2>2. rec'[h] = Settled(rec[h], LateOutcome(ExactOutcome(h)), "idle")
    BY <2>1, Ground DEF TryLate, SettleLate
  <2> QED BY <1>1, <2>1, <2>2 DEF TryLate, Finish, Settled, Records
<1>4. Handler' /\ NoWriting
  <2>1. Tail(todo) \in {<<>>, ExitSteps(h)} /\ ExitSteps(h) # Leaving /\ Leaving # <<>>
    BY Ground, Rest, Ends DEF TryLate, Handler
  <2>2. Tail(todo) = ExitSteps(h) => proc.state # "none" /\ proc.gen \notin alive
    BY Ground DEF TryLate, Handler, Exiting
  <2>3. Now("clear", h, Tail(todo))
    <3>1. Tail(todo) \in Seq(Steps)
      BY Ground DEF TryLate, Doing
    <3>2. <<"clear", h>> \in Steps
      BY HandleRange DEF Steps
    <3> QED BY <3>1, <3>2, Before DEF TryLate, Now
  <2> QED BY <1>3, <2>1, <2>2, <2>3, ToClear DEF TryLate, child
<1>5. Ledger' /\ (\A k \in Handles : Unsent(k)') /\ Tracked' /\ QueueOnlyWhenOpen'
  BY <1>2, <1>4, Ground, SettleKeeps DEF TryLate, child
<1> QED BY <1>4, <1>5, LedgerOf

LEMMA TerminationOnlyCheckSafe == RInv /\ TerminationOnlyCheck => SafeInv'
<1> SUFFICES ASSUME RInv, TerminationOnlyCheck PROVE SafeInv'
  OBVIOUS
<1>1. cur # 0 /\ ex.check /\ cur \in Handles
  BY Ground DEF TerminationOnlyCheck
<1>2. Claims(cur, "terminated_without_outcome", "startedIdle") /\ cur \notin rechecks
  BY <1>1, ParsedClaims
<1>3. Handler' /\ NoWriting
  <2>1. Now("clear", cur, <<>>)
    BY Tuples DEF TerminationOnlyCheck, Now
  <2>2. <<>> # Leaving /\ <<>> # ExitSteps(cur)
    BY Ends
  <2> QED BY <1>1, <2>1, <2>2, ToClear
<1>4. Ledger' /\ (\A k \in Handles : Unsent(k)') /\ Tracked' /\ QueueOnlyWhenOpen'
  BY <1>1, <1>2, <1>3, Ground, SettleKeeps, Outcomes DEF TerminationOnlyCheck, child
<1> QED BY <1>3, <1>4, LedgerOf

(* A record is stamped: its fence is lifted, its recovery claimed, or its  *)
(* registry entry cleaned up.                                              *)
LEMMA StampKeeps ==
  ASSUME RInv, NEW h \in Handles, \A k \in Handles : k # h => rec'[k] = rec[k],
         rec[h].st # "absent", rec'[h].st = rec[h].st, rec'[h].gen = rec[h].gen,
         rec'[h].written = rec[h].written, rec'[h].unknown = rec[h].unknown,
         rec'[h].outcome = rec[h].outcome, rec'[h].term = rec[h].term,
         rec'[h].abandoned = rec[h].abandoned,
         rec'[h].fence = rec[h].fence \/ (rec'[h].fence = "cleared" /\ rec[h].term # "none"),
         UNCHANGED <<cur, ex, queue, proc, rechecks, restarts, child>>,
         fences' \subseteq fences, cur \in fences => cur \in fences', NoWriting, Handler'
  PROVE  SafeInv'
<1>1. UNCHANGED <<cur, ex, queue, proc, rechecks, alive, truth>>
  BY DEF child
<1>2. ASSUME NEW k \in Handles PROVE Recorded(k)' /\ TrueOf(k)'
  <2>1. Recorded(k) /\ TrueOf(k)
    BY Ground DEF Ledger
  <2>2. CASE k = h
    BY <1>1, <2>1, <2>2 DEF Recorded, TrueOf, Held
  <2>3. CASE k # h
    BY <1>1, <2>1, <2>3 DEF Recorded, TrueOf, Held
  <2> QED BY <2>2, <2>3
<1>3. \A k \in Handles : Blocks(k)' => Blocks(k)
  BY DEF Blocks
<1>4. Ledger'
  BY <1>1, <1>2, <1>3, Ground DEF Ledger, OneDanger
<1>5. \A k \in Handles : Unsent(k)'
  BY <1>1, Ground, UnsentStays
<1>6. Tracked'
  <2>1. CASE cur = 0
    BY <1>1, <2>1 DEF Tracked
  <2>2. CASE cur # 0
    <3>1. /\ rec[cur].st = "open" /\ Owned(cur) /\ rec[cur].unknown = ex.unknown
          /\ ex.unknown => cur \in fences'
          /\ ex.receipt \/ ex.events # 0 => truth[cur] \in Ended \cup {"live"}
          /\ ex.events = 3 \/ ex.idle = "past" \/ ex.check => truth[cur] \in Ended
          /\ cur \in Handles
      BY <2>2, Ground, TrackedIs
    <3>2. rec'[cur].st = "open" /\ rec'[cur].unknown = ex.unknown /\ rec'[cur].gen = rec[cur].gen
      BY <3>1
    <3>3. Owned(cur)'
      BY <1>1, <3>1, <3>2 DEF Owned
    <3> QED BY <1>1, <3>1, <3>2, <3>3, TrackedBy
  <2> QED BY <2>1, <2>2
<1>7. QueueOnlyWhenOpen'
  BY <1>1, <1>3, Ground, QueueStays
<1> QED BY <1>4, <1>5, <1>6, <1>7, LedgerOf

LEMMA ReleaseFenceSafe == ASSUME RInv, NEW h \in Handles, ReleaseFence(h) PROVE SafeInv'
<1>1. rec[h].st = "settled" /\ rec[h].term # "none"
  BY DEF ReleaseFence
<1>2. cur # h
  BY <1>1, Ground, TrackedIs
<1>3. /\ rec'[h].st = rec[h].st /\ rec'[h].gen = rec[h].gen /\ rec'[h].written = rec[h].written
      /\ rec'[h].unknown = rec[h].unknown /\ rec'[h].outcome = rec[h].outcome
      /\ rec'[h].term = rec[h].term /\ rec'[h].abandoned = rec[h].abandoned
      /\ rec'[h].fence = "cleared"
  BY Ground DEF ReleaseFence, Records
<1>4. \A k \in Handles : k # h => rec'[k] = rec[k]
  BY Ground DEF ReleaseFence
<1>5. Handler' /\ NoWriting
  <2>1. Tail(todo) \in {<<>>, ExitSteps(h), Leaving}
    BY Ground, Rest DEF ReleaseFence, Handler
  <2>2. CASE Tail(todo) = <<>>
    BY <2>2, ToIdle DEF ReleaseFence
  <2>3. CASE Tail(todo) = ExitSteps(h)
    <3>1. Now("exitSettle", h, Settling(h))
      BY <2>3, Ends DEF ReleaseFence, Now
    <3>2. proc.state # "none" /\ proc.gen \notin alive /\ cur = 0
      BY <1>2, <2>3, Ground DEF ReleaseFence, Handler, Exiting
    <3> QED BY <1>1, <1>2, <1>3, <3>1, <3>2, ToExitSettle DEF ReleaseFence, child
  <2>4. CASE Tail(todo) = Leaving
    <3>1. Now("exited", 0, <<>>)
      BY <2>4, Ends DEF ReleaseFence, Now
    <3>2. cur = 0
      BY <2>4, Ground DEF ReleaseFence, Handler
    <3> QED BY <3>1, <3>2, ToLeave DEF ReleaseFence
  <2> QED BY <2>1, <2>2, <2>3, <2>4
<1>6. fences' \subseteq fences /\ (cur \in fences => cur \in fences')
  BY <1>2 DEF ReleaseFence
<1> QED BY <1>1, <1>3, <1>4, <1>5, <1>6, StampKeeps DEF ReleaseFence

LEMMA RegistryCleanupSafe == ASSUME RInv, NEW h \in Handles, RegistryCleanup(h) PROVE SafeInv'
<1>1. cur = 0 /\ Tail(todo) = Cleaning(h) /\ rec[h].st = "settled"
  BY Ground, Rest DEF RegistryCleanup, Handler
<1>2. Handler' /\ NoWriting
  <2>1. Now("clear", h, Leaving) /\ Leaving # ExitSteps(h)
    BY <1>1, Ends DEF RegistryCleanup, Now
  <2> QED BY <1>1, <2>1, ToClear DEF RegistryCleanup
<1>3. /\ rec'[h].st = rec[h].st /\ rec'[h].gen = rec[h].gen /\ rec'[h].written = rec[h].written
      /\ rec'[h].unknown = rec[h].unknown /\ rec'[h].outcome = rec[h].outcome
      /\ rec'[h].term = rec[h].term /\ rec'[h].abandoned = rec[h].abandoned
      /\ rec'[h].fence = rec[h].fence
  BY Ground DEF RegistryCleanup, Records
<1>4. \A k \in Handles : k # h => rec'[k] = rec[k]
  BY Ground DEF RegistryCleanup
<1> QED BY <1>1, <1>2, <1>3, <1>4, StampKeeps DEF RegistryCleanup

LEMMA RecoverSafe == RInv /\ Recover => SafeInv'
<1> SUFFICES ASSUME RInv, Recover PROVE SafeInv'
  OBVIOUS
<1>1. cur \in Handles /\ cur # 0 /\ ex.unknown
  BY Ground DEF Recover
<1>2. rec[cur].st = "open" /\ rec[cur] \in Records
  BY <1>1, Ground, TrackedIs
<1>3. /\ rec'[cur].st = rec[cur].st /\ rec'[cur].gen = rec[cur].gen
      /\ rec'[cur].written = rec[cur].written
      /\ rec'[cur].unknown = rec[cur].unknown /\ rec'[cur].outcome = rec[cur].outcome
      /\ rec'[cur].term = rec[cur].term /\ rec'[cur].abandoned = rec[cur].abandoned
      /\ rec'[cur].fence = rec[cur].fence
  BY <1>1, <1>2, Ground DEF Recover, Records
<1>4. \A k \in Handles : k # cur => rec'[k] = rec[k]
  BY Ground DEF Recover
<1>5. Handler' /\ NoWriting
  <2>1. Now("commit", cur, <<>>)
    BY Tuples DEF Recover, Now
  <2> QED BY <1>1, <2>1, ToCommit DEF Recover
<1> QED BY <1>1, <1>2, <1>3, <1>4, <1>5, StampKeeps DEF Recover

-----------------------------------------------------------------------------
(* The deadlines, the shutdown and the exit of the child. *)
LEMMA Waits ==
  ASSUME ex \in Executions, NEW w
  PROVE  LET e == [ex EXCEPT !.wait = w] IN
           /\ e.receipt = ex.receipt /\ e.events = ex.events /\ e.idle = ex.idle
           /\ e.check = ex.check /\ e.unknown = ex.unknown
  BY DEF Executions

LEMMA Pendings ==
  ASSUME ex \in Executions
  PROVE  LET e == PendingRejected IN
           /\ e.receipt = ex.receipt /\ e.events = ex.events /\ e.idle = ex.idle
           /\ e.check = ex.check /\ e.unknown = ex.unknown /\ e \in Executions
<1>1. PendingRejected \in Executions
  BY PendingType
<1> QED BY <1>1 DEF Executions, PendingRejected

LEMMA ReceiptTimeoutSafe == RInv /\ ReceiptTimeout => SafeInv'
<1> SUFFICES ASSUME RInv, ReceiptTimeout PROVE SafeInv'
  OBVIOUS
<1> DEFINE e == [ex EXCEPT !.wait = "tombstone"]
<1>1. cur # 0 /\ UNCHANGED <<cur, proc, rechecks, restarts, child>> /\ todo = <<>>
  BY DEF ReceiptTimeout, Quiet
<1>2. /\ e.receipt = ex.receipt /\ e.events = ex.events /\ e.idle = ex.idle
      /\ e.check = ex.check /\ e.unknown = ex.unknown /\ e \in Executions
  BY Ground, Waits, ExecutionTypes
<1>3. CASE ex.unknown
  <2>1. ex' = e /\ UNCHANGED <<rec, fences, queue, todo>>
    BY <1>3 DEF ReceiptTimeout
  <2>2. Handler' /\ NoWriting
    BY <1>1, <2>1, ToIdle
  <2> HIDE DEF e
  <2> QED BY <1>1, <1>2, <2>1, <2>2, Ground, TrackedIs, ParsedKeeps
<1>4. CASE ~ex.unknown
  <2>1. MarkUnknown(cur, e, <<>>)
    BY <1>4 DEF ReceiptTimeout
  <2>2. proc.state # "none" /\ <<>> # ExitSteps(cur)
    BY <1>1, Ground, TrackedIs, Ends DEF Owned
  <2>3. UNCHANGED <<cur, rechecks, alive, truth, proc>>
    BY <1>1 DEF child
  <2> HIDE DEF e
  <2> QED BY <1>1, <1>2, <1>4, <2>1, <2>2, <2>3, Ground, MarkKeeps
<1> QED BY <1>3, <1>4

LEMMA TurnTimeoutSafe == RInv /\ TurnTimeout => SafeInv'
<1> SUFFICES ASSUME RInv, TurnTimeout PROVE SafeInv'
  OBVIOUS
<1>1. /\ cur # 0 /\ ~ex.unknown /\ UNCHANGED <<cur, rechecks, alive, truth, proc>>
      /\ MarkUnknown(cur, ex, <<>>)
  BY DEF TurnTimeout, child
<1>2. proc.state # "none" /\ <<>> # ExitSteps(cur)
  BY <1>1, Ground, TrackedIs, Ends DEF Owned
<1> QED BY <1>1, <1>2, Ground, MarkKeeps

(* The process leaves READY and its queue is empty: nothing else changes.  *)
LEMMA DrainKeeps ==
  ASSUME RInv, UNCHANGED <<rec, cur, rechecks, restarts, child>>, fences \subseteq fences',
         cur = 0 \/ ex' = PendingRejected, queue' = 0, proc'.gen = proc.gen,
         cur # 0 => proc'.state # "none",
         proc'.state # "none" => proc.state # "none", Handler', NoWriting
  PROVE  SafeInv'
<1>1. UNCHANGED <<rec, cur, rechecks, alive, truth>>
  BY DEF child
<1>2. Ledger'
  BY <1>1, Ground, LedgerStays
<1>3. \A h \in Handles : Unsent(h)'
  BY <1>1, Ground, UnsentStays
<1>4. Tracked'
  <2>1. CASE cur = 0
    BY <1>1, <2>1 DEF Tracked
  <2>2. CASE cur # 0
    BY <1>1, <2>2, Ground, Pendings, TrackedStays
  <2> QED BY <2>1, <2>2
<1> QED BY <1>2, <1>3, <1>4, QueueEmpty, LedgerOf

LEMMA DrainSafe == RInv /\ Drain => SafeInv'
<1> SUFFICES ASSUME RInv, Drain PROVE SafeInv'
  OBVIOUS
<1>1. /\ proc'.state = "DRAINING" /\ proc'.gen = proc.gen /\ todo = <<>>
      /\ UNCHANGED <<cur, rechecks, restarts, child>> /\ proc.state = "READY"
  BY Ground DEF Drain, Quiet, Processes
<1>2. CASE cur # 0 /\ ~ex.unknown
  <2>1. MarkUnknown(cur, PendingRejected, <<>>) /\ <<>> # ExitSteps(cur)
    BY <1>2, Ends DEF Drain
  <2> QED BY <1>1, <1>2, <2>1, Ground, Pendings, MarkKeeps DEF child
<1>3. CASE ex' = PendingRejected /\ queue' = 0 /\ UNCHANGED <<rec, fences, todo>>
  <2>1. Handler' /\ NoWriting
    BY <1>1, <1>3, ToIdle
  <2> QED BY <1>1, <1>3, <2>1, DrainKeeps
<1> QED BY <1>2, <1>3 DEF Drain

LEMMA StdinBrokenSafe == RInv /\ StdinBroken => SafeInv'
<1> SUFFICES ASSUME RInv, StdinBroken PROVE SafeInv'
  OBVIOUS
<1>1. /\ proc'.state = "DRAINING" /\ proc'.gen = proc.gen /\ proc.state # "none"
      /\ queue' = 0 /\ UNCHANGED <<rec, cur, ex, fences, rechecks, restarts, child>>
  BY Ground DEF StdinBroken, Processes, Handler
<1>2. Handler' /\ NoWriting
  BY ToIdle DEF StdinBroken
<1>3. Ledger'
  BY <1>1, Ground, LedgerStays DEF child
<1>4. \A h \in Handles : Unsent(h)'
  BY <1>1, <1>2, Ground, UnsentStays DEF child
<1>5. Tracked'
  BY <1>1, Ground, TrackedStays DEF child
<1> QED BY <1>1, <1>2, <1>3, <1>4, <1>5, QueueEmpty, LedgerOf

LEMMA CommitSafe == ASSUME RInv, NEW h \in Handles, Commit(h) PROVE SafeInv'
<1>1. cur = h /\ ex.unknown /\ cur # 0
  BY Ground DEF Commit, Handler
<1>2. Handler' /\ NoWriting
  BY Ground, Rest, ToIdle DEF Commit, Handler
<1>3. proc'.state = "DRAINING" /\ proc'.gen = proc.gen /\ proc.state # "none"
  BY <1>1, Ground, TrackedIs DEF Commit, Processes, Owned
<1>4. queue' = 0
  BY <1>1, Ground, NoQueue DEF Commit
<1> QED BY <1>2, <1>3, <1>4, DrainKeeps DEF Commit

LEMMA ChildExitSafe == RInv /\ ChildExit => SafeInv'
<1> SUFFICES ASSUME RInv, ChildExit PROVE SafeInv'
  OBVIOUS
<1>1. /\ proc'.state = "DRAINING" /\ proc'.gen = proc.gen /\ proc.state # "none"
      /\ UNCHANGED <<cur, rechecks, restarts, child>> /\ proc.gen \notin alive
      /\ queue > 0 => InFlight
  BY Ground DEF ChildExit, Processes, Quiet
<1>2. CASE cur # 0 /\ ~ex.unknown
  <2>1. MarkUnknown(cur, PendingRejected, ExitSteps(cur))
    BY <1>2 DEF ChildExit
  <2> QED BY <1>1, <1>2, <2>1, Ground, Pendings, MarkKeeps DEF child
<1>3. CASE cur = 0
  <2>1. queue' = 0 /\ UNCHANGED <<rec, ex, fences>>
    BY <1>1, <1>3, Ground DEF ChildExit, InFlight
  <2>2. Handler' /\ NoWriting
    <3>1. Now("exited", 0, <<>>)
      BY <1>3, Tuples DEF ChildExit, Now
    <3> QED BY <1>1, <1>3, <3>1, ToLeave
  <2> QED BY <1>1, <1>3, <2>1, <2>2, DrainKeeps
<1>4. CASE cur # 0 /\ ex.unknown
  <2>1. queue' = 0 /\ ex' = PendingRejected /\ UNCHANGED <<rec, fences>>
    BY <1>4, Ground, NoQueue DEF ChildExit
  <2>2. Handler' /\ NoWriting
    <3>1. Now("exitSettle", cur, Settling(cur))
      BY <1>4, Ends DEF ChildExit, Now
    <3> QED BY <1>1, <1>4, <3>1, Ground, ToExitSettle DEF child
  <2> QED BY <1>1, <1>4, <2>1, <2>2, DrainKeeps
<1> QED BY <1>2, <1>3, <1>4

LEMMA ExitSettleSafe == ASSUME RInv, NEW h \in Handles, ExitSettle(h) PROVE SafeInv'
<1> DEFINE o == IF TerminalSeen THEN LateOutcome(ExactOutcome(h)) ELSE "terminated_without_outcome"
<1>1. /\ proc.gen \notin alive /\ proc.state # "none"
      /\ IF cur = h THEN TRUE ELSE cur = 0 /\ rec[h].st = "settled"
  BY Ground DEF ExitSettle, Handler, Exiting
<1>2. cur = h => rec[h].st = "open" /\ rec[h].gen \notin alive
  BY <1>1, Ground, TrackedIs DEF Owned
<1>3. o \in Direct \cup Late
  BY Outcomes
<1>4. rec[h].st = "open" => Claims(h, o, "exit")
  <2> SUFFICES ASSUME rec[h].st = "open" PROVE Claims(h, o, "exit")
    OBVIOUS
  <2>1. cur = h /\ ~Held(h) /\ cur # 0
    BY <1>1, <1>2, Ground DEF Held
  <2>2. CASE TerminalSeen
    BY <2>1, <2>2, ParsedClaims DEF TerminalSeen
  <2>3. CASE ~TerminalSeen
    BY <2>1, <2>3 DEF Claims
  <2> QED BY <2>2, <2>3
<1>5. SettleLate(h, o, "exit") /\ Finish(h)
  BY DEF ExitSettle
<1> HIDE DEF o
<1>6. cur' = 0 /\ rec'[h].st = "settled"
  <2>1. cur' = 0
    BY <1>1, <1>5, Ground DEF Finish
  <2>2. CASE rec[h].st = "open"
    <3>1. rec'[h] = Settled(rec[h], o, "exit") /\ rec[h] \in Records
      BY <1>5, <2>2, Ground DEF SettleLate
    <3> QED BY <2>1, <3>1 DEF Settled, Records
  <2>3. CASE rec[h].st # "open"
    BY <1>1, <1>2, <1>5, <2>1, <2>3 DEF SettleLate
  <2> QED BY <2>2, <2>3
<1>7. Handler' /\ NoWriting
  <2>1. Tail(todo) = Settling(h)
    BY Ground, Rest DEF ExitSettle, Handler
  <2>2. Now("cleanup", h, Cleaning(h))
    BY <2>1, Ends DEF ExitSettle, Now
  <2> QED BY <1>6, <2>2, ToCleanup
<1>8. Ledger' /\ (\A k \in Handles : Unsent(k)') /\ Tracked' /\ QueueOnlyWhenOpen'
  BY <1>2, <1>3, <1>4, <1>5, <1>7, Ground, SettleKeeps DEF ExitSettle, child
<1> QED BY <1>7, <1>8, LedgerOf

LEMMA ExitedSafe == RInv /\ Exited => SafeInv'
<1> SUFFICES ASSUME RInv, Exited PROVE SafeInv'
  OBVIOUS
<1>1. /\ proc'.state = "none" /\ proc'.gen = proc.gen /\ queue' = 0 /\ cur = 0
      /\ UNCHANGED <<rec, cur, ex, rechecks, restarts, child>>
  BY Ground DEF Exited, Processes, Handler
<1>2. Handler' /\ NoWriting
  <2>1. Tail(todo) = <<>>
    <3> DEFINE Is(p, k) == todo # <<>> /\ Head(todo) = <<p, k>>
    <3>1. \A p, k : Doing(p, k) <=> Is(p, k)
      BY DEF Doing
    <3>2. \A p, k, p2, k2 : Is(p, k) /\ Is(p2, k2) => p = p2 /\ k = k2
      OBVIOUS
    <3>3. \A p, k : Is(p, k) => todo # <<>>
      OBVIOUS
    <3> HIDE DEF Is
    <3> QED BY <3>1, <3>2, <3>3, Ground DEF Exited, Handler, Shape
  <2> QED BY <2>1, ToIdle DEF Exited
<1>3. Ledger'
  BY <1>1, Ground, LedgerStays DEF child
<1>4. \A h \in Handles : Unsent(h)'
  BY <1>1, <1>2, Ground, UnsentStays DEF child
<1>5. Tracked'
  BY <1>1 DEF Tracked
<1> QED BY <1>1, <1>2, <1>3, <1>4, <1>5, QueueEmpty, LedgerOf

-----------------------------------------------------------------------------
(* The restart, the administrator and the child. *)
LEMMA RestoredRecord ==
  ASSUME NEW r \in Records
  PROVE  LET s == Restored(r) IN
           /\ s.gen = r.gen /\ s.written = r.written /\ s.abandoned = r.abandoned
           /\ s.st = "absent" => s = r
           /\ ~(s.st = "open" /\ ~s.unknown)
           /\ \/ s.outcome = r.outcome /\ s.term = r.term /\ (s.st = r.st)
              \/ /\ r.st = "open" /\ ~r.unknown /\ ~r.written
                 /\ s.outcome = "not_admitted" /\ s.term = "none" /\ s.st = "settled"
           /\ s.unknown /\ s.fence = "cleared" => r.unknown /\ (r.fence = "cleared" \/ r.term # "none")
           /\ s.unknown /\ s.fence # "cleared" =>
                (r.unknown /\ r.fence # "cleared") \/ (r.st = "open" /\ ~r.unknown)
<1>1. CASE r.st = "settled" /\ r.unknown /\ r.fence = "active" /\ r.term # "none"
             /\ (~r.claim \/ r.cleanup)
  <2>1. Restored(r) = [r EXCEPT !.fence = "cleared"]
    BY <1>1, Zenon DEF Restored
  <2> QED BY <1>1, <2>1 DEF Records
<1>2. CASE r.st = "open" /\ ~r.unknown /\ r.written
  <2>1. Restored(r) = [r EXCEPT !.unknown = TRUE, !.fence = "active"]
    BY <1>2 DEF Restored
  <2> QED BY <1>2, <2>1 DEF Records
<1>3. CASE r.st = "open" /\ ~r.unknown /\ ~r.written
  <2>1. Restored(r) = [Settled(r, "not_admitted", "none") EXCEPT !.fence = "cleared"]
    BY <1>3 DEF Restored
  <2> QED BY <1>3, <2>1 DEF Records, Settled
<1>4. CASE /\ ~(r.st = "settled" /\ r.unknown /\ r.fence = "active" /\ r.term # "none"
                /\ (~r.claim \/ r.cleanup))
           /\ ~(r.st = "open" /\ ~r.unknown)
  <2>1. Restored(r) = r
    BY <1>4 DEF Restored
  <2> QED BY <1>4, <2>1
<1> QED BY <1>1, <1>2, <1>3, <1>4

LEMMA RestartSafe == RInv /\ Restart => SafeInv'
<1> SUFFICES ASSUME RInv, Restart PROVE SafeInv'
  OBVIOUS
<1>1. /\ proc'.state = "none" /\ proc'.gen = proc.gen /\ queue' = 0 /\ cur' = 0
      /\ rechecks' = {} /\ todo' = <<>> /\ alive' = alive /\ truth' = truth
  BY Ground DEF Restart, Processes, child
<1>2. \A h \in Handles : rec'[h] = Restored(rec[h]) /\ rec[h] \in Records
  BY Ground DEF Restart
<1>3. ASSUME NEW h \in Handles PROVE Recorded(h)' /\ TrueOf(h)'
  <2> DEFINE s == rec'[h]
  <2>1. Recorded(h) /\ TrueOf(h)
    BY Ground DEF Ledger
  <2>2. /\ s.gen = rec[h].gen /\ s.written = rec[h].written /\ s.abandoned = rec[h].abandoned
        /\ s.st = "absent" => s = rec[h]
        /\ ~(s.st = "open" /\ ~s.unknown)
        /\ s.unknown /\ s.fence = "cleared" =>
             rec[h].unknown /\ (rec[h].fence = "cleared" \/ rec[h].term # "none")
    BY <1>2, RestoredRecord
  <2>3. \/ s.outcome = rec[h].outcome /\ s.term = rec[h].term /\ (s.st = rec[h].st)
        \/ /\ rec[h].st = "open" /\ ~rec[h].unknown /\ ~rec[h].written
           /\ s.outcome = "not_admitted" /\ s.term = "none" /\ s.st = "settled"
    BY <1>2, RestoredRecord
  <2> HIDE DEF s
  <2>4. Held(h)' <=> Held(h)
    BY <1>1, <2>2 DEF Held, s
  <2>5. CASE s.outcome = rec[h].outcome /\ s.term = rec[h].term /\ (s.st = rec[h].st)
    <3>1. Recorded(h)'
      BY <1>1, <2>1, <2>2, <2>5 DEF Recorded, s
    <3>2. TrueOf(h)'
      BY <1>1, <2>1, <2>4, <2>5 DEF TrueOf, s
    <3> QED BY <3>1, <3>2
  <2>6. CASE /\ rec[h].st = "open" /\ ~rec[h].unknown /\ ~rec[h].written
             /\ s.outcome = "not_admitted" /\ s.term = "none" /\ s.st = "settled"
    <3>1. truth[h] = "none" /\ rec[h].term = "none"
      BY <2>1, <2>6 DEF Recorded
    <3>2. Recorded(h)'
      BY <1>1, <2>1, <2>2, <2>6, <3>1 DEF Recorded, s, Direct
    <3>3. TrueOf(h)'
      BY <1>1, <2>6, <3>1 DEF TrueOf, s
    <3> QED BY <3>2, <3>3
  <2> QED BY <2>3, <2>5, <2>6
<1>4. \A h \in Handles : Blocks(h)' => Blocks(h) \/ (rec[h].st = "open" /\ ~rec[h].unknown)
  BY <1>2, RestoredRecord DEF Blocks
<1>5. \A h \in Handles : rec[h].st = "open" /\ ~rec[h].unknown => h = cur
  BY Ground DEF Ledger, Recorded
<1>6. \A h \in Handles : h # 0
  BY Ground
<1>7. \A h \in Handles : Blocks(h) /\ cur # 0 => h = cur
  BY Ground DEF Ledger, OneDanger
<1>8. OneDanger'
  BY <1>1, <1>4, <1>5, <1>6, <1>7, Ground DEF Ledger, OneDanger
<1>9. Ledger'
  BY <1>1, <1>3, <1>8, Ground DEF Ledger
<1>10. Handler' /\ NoWriting
  BY <1>1, ToIdle
<1>11. \A h \in Handles : Unsent(h)'
  BY <1>1, <1>10 DEF Unsent, Awaiting, NoWriting
<1>12. Tracked'
  BY <1>1 DEF Tracked
<1> QED BY <1>1, <1>9, <1>10, <1>11, <1>12, QueueEmpty, LedgerOf

LEMMA AbandonSafe == ASSUME RInv, NEW risk \in BOOLEAN, Abandon(risk) PROVE SafeInv'
<1>1. PICK a \in {"proven", "risk"} :
        /\ rec' = [h \in Handles |-> IF Blocks(h) THEN [rec[h] EXCEPT !.abandoned = a] ELSE rec[h]]
        /\ a = "proven" => \A h \in Handles : Blocks(h) => rec[h].term # "none"
  BY DEF Abandon
<1>2. /\ UNCHANGED <<cur, ex, fences, queue, proc, rechecks, alive, truth>> /\ todo' = <<>>
      /\ proc.state = "none"
  BY DEF Abandon, Quiet, child
<1>3. cur = 0
  BY <1>2, Ground, TrackedIs DEF Owned
<1>4. \A h \in Handles : ~Blocks(h) => rec'[h] = rec[h]
  BY <1>1
<1>5. ASSUME NEW h \in Handles, Blocks(h)
      PROVE  /\ rec'[h].st = rec[h].st /\ rec'[h].gen = rec[h].gen
             /\ rec'[h].written = rec[h].written /\ rec'[h].unknown = rec[h].unknown
             /\ rec'[h].outcome = rec[h].outcome /\ rec'[h].term = rec[h].term
             /\ rec'[h].abandoned = a /\ rec'[h].fence = rec[h].fence
  <2>1. rec'[h] = [rec[h] EXCEPT !.abandoned = a] /\ rec[h] \in Records
    BY <1>1, <1>5, Ground
  <2> QED BY <2>1 DEF Records
<1>6. ASSUME NEW h \in Handles PROVE Recorded(h)' /\ TrueOf(h)'
  <2>1. Recorded(h) /\ TrueOf(h)
    BY Ground DEF Ledger
  <2>2. CASE Blocks(h)
    <3>1. Held(h)' <=> Held(h)
      BY <1>2, <1>5, <2>2 DEF Held
    <3>2. rec[h].st # "absent"
      BY <2>1, <2>2 DEF Recorded, Blocks, NoRecord
    <3>3. Recorded(h)'
      BY <1>1, <1>2, <1>5, <2>1, <2>2, <3>2 DEF Recorded
    <3>4. TrueOf(h)'
      BY <1>2, <1>5, <2>1, <2>2, <3>1 DEF TrueOf
    <3> QED BY <3>3, <3>4
  <2>3. CASE ~Blocks(h)
    BY <1>2, <1>4, <2>1, <2>3 DEF Recorded, TrueOf, Held
  <2> QED BY <2>2, <2>3
<1>7. \A h \in Handles : ~Blocks(h)'
  BY <1>4, <1>5 DEF Blocks
<1>8. Ledger'
  BY <1>2, <1>6, <1>7, Ground DEF Ledger, OneDanger
<1>9. Handler' /\ NoWriting
  BY <1>2, ToIdle
<1>10. \A h \in Handles : Unsent(h)'
  <2>1. \A h \in Handles : rec'[h].gen = rec[h].gen /\ (rec'[h].st = "absent" => rec[h].st = "absent")
    BY <1>4, <1>5
  <2> QED BY <1>2, <1>9, <2>1, Ground, UnsentStays
<1>11. Tracked' /\ QueueOnlyWhenOpen'
  BY <1>2, <1>3, <1>7, Ground, QueueStays DEF Tracked
<1> QED BY <1>8, <1>9, <1>10, <1>11, LedgerOf

(* The child only moves what it holds. *)
LEMMA ChildMoves ==
  ASSUME RInv, NEW h \in Handles, truth[h] \in {"piped", "live"}, rec[h].gen \in alive,
         NEW t \in {"live", "refused"} \cup Ended, truth[h] = "live" => t \in Ended,
         truth' = [truth EXCEPT ![h] = t], UNCHANGED <<router, alive>>
  PROVE  SafeInv'
<1>1. UNCHANGED <<rec, cur, ex, fences, queue, proc, rechecks, todo, alive>>
  BY DEF router
<1>2. \A k \in Handles : k # h => truth'[k] = truth[k]
  BY Ground
<1>3. truth'[h] = t /\ truth[h] # "none" /\ truth[h] \notin Ended
  BY Ground DEF Ended
<1>4. rec[h].term = "none"
  BY Ground DEF Ledger, TrueOf, Held
<1>5. rec[h].outcome \notin {"completed", "late_completed", "late_failed", "failed", "not_admitted"}
  BY <1>3, Ground DEF Ledger, TrueOf
<1>6. ASSUME NEW k \in Handles PROVE Recorded(k)' /\ TrueOf(k)'
  <2>1. Recorded(k) /\ TrueOf(k)
    BY Ground DEF Ledger
  <2>2. CASE k = h
    <3>1. Recorded(k)'
      BY <1>1, <1>3, <2>1, <2>2 DEF Recorded
    <3>2. TrueOf(k)'
      BY <1>1, <1>4, <1>5, <2>2 DEF TrueOf
    <3> QED BY <3>1, <3>2
  <2>3. CASE k # h
    BY <1>1, <1>2, <2>1, <2>3 DEF Recorded, TrueOf, Held
  <2> QED BY <2>2, <2>3
<1>7. Ledger'
  BY <1>1, <1>6, Ground DEF Ledger, OneDanger, Blocks
<1>8. \A k \in Handles : Unsent(k)'
  <2> SUFFICES ASSUME NEW k \in Handles PROVE Unsent(k)'
    OBVIOUS
  <2>1. Unsent(k) /\ (Awaiting(k)' <=> Awaiting(k))
    BY <1>1, Ground DEF Awaiting, Writing, Doing
  <2>2. Awaiting(k) => k # h
    BY <1>3, <2>1 DEF Unsent
  <2> QED BY <1>1, <1>2, <2>1, <2>2 DEF Unsent, Owned, Writing, Doing
<1>9. Handler'
  BY <1>1, Ground, HandlerStays
<1>10. Tracked'
  <2>1. CASE cur = 0
    BY <1>1, <2>1 DEF Tracked
  <2>2. CASE cur # 0
    <3>1. /\ rec[cur].st = "open" /\ Owned(cur) /\ rec[cur].unknown = ex.unknown
          /\ ex.unknown => cur \in fences
          /\ ex.receipt \/ ex.events # 0 => truth[cur] \in Ended \cup {"live"}
          /\ ex.events = 3 \/ ex.idle = "past" \/ ex.check => truth[cur] \in Ended
          /\ cur \in Handles
      BY <2>2, Ground, TrackedIs
    <3>2. /\ truth[cur] \in Ended \cup {"live"} => truth'[cur] \in Ended \cup {"live"}
          /\ truth[cur] \in Ended => truth'[cur] \in Ended
      BY <1>2, <1>3, <3>1
    <3>3. Owned(cur)'
      BY <1>1, <3>1 DEF Owned
    <3> QED BY <1>1, <3>1, <3>2, <3>3, TrackedBy
  <2> QED BY <2>1, <2>2
<1>11. QueueOnlyWhenOpen'
  BY <1>1, Ground, QueueStays DEF Blocks
<1> QED BY <1>7, <1>8, <1>9, <1>10, <1>11, LedgerOf

LEMMA ChildReadsSafe == ASSUME RInv, NEW h \in Handles, ChildReads(h) PROVE SafeInv'
<1>1. PICK t \in {"live", "refused"} : truth' = [truth EXCEPT ![h] = t]
  BY DEF ChildReads
<1> QED BY <1>1, ChildMoves DEF ChildReads

LEMMA ChildEndsSafe == ASSUME RInv, NEW h \in Handles, ChildEnds(h) PROVE SafeInv'
<1>1. PICK t \in Ended : truth' = [truth EXCEPT ![h] = t]
  BY DEF ChildEnds
<1> QED BY <1>1, ChildMoves DEF ChildEnds

LEMMA ChildDiesSafe ==
  ASSUME RInv, UNCHANGED <<router, truth>>, alive' \subseteq alive
  PROVE  SafeInv'
<1>1. UNCHANGED <<rec, cur, ex, fences, queue, proc, rechecks, todo, truth>>
  BY DEF router
<1>2. Ledger'
  BY <1>1, Ground, LedgerStays
<1>3. Handler'
  BY <1>1, Ground, HandlerStays
<1>4. \A k \in Handles : Unsent(k)'
  <2> SUFFICES ASSUME NEW k \in Handles PROVE Unsent(k)'
    OBVIOUS
  <2>1. Unsent(k) /\ (Awaiting(k)' <=> Awaiting(k)) /\ (Writing(k)' <=> Writing(k))
    BY <1>1, Ground DEF Awaiting, Writing, Doing
  <2>2. (Doing("send", k)' <=> Doing("send", k)) /\ (Owned(k)' <=> Owned(k))
    BY <1>1 DEF Doing, Owned
  <2> QED BY <1>1, <2>1, <2>2 DEF Unsent
<1>5. Tracked' /\ QueueOnlyWhenOpen'
  BY <1>1, Ground, QueueStays DEF Tracked, Owned, Blocks
<1> QED BY <1>2, <1>3, <1>4, <1>5, LedgerOf

LEMMA SafeInit == Init => SafeInv
<1> SUFFICES ASSUME Init PROVE SafeInv
  OBVIOUS
<1>1. cur = 0 /\ todo = <<>> /\ rechecks = {} /\ queue = 0 /\ alive = {} /\ proc.gen = 0
  BY DEF Init
<1>2. \A h \in Handles : rec[h] = NoRecord /\ truth[h] = "none"
  BY DEF Init
<1>3. ASSUME NEW h \in Handles PROVE Recorded(h) /\ TrueOf(h)
  BY <1>1, <1>2 DEF Recorded, TrueOf, NoRecord
<1>4. \A h \in Handles : ~Blocks(h)
  BY <1>2 DEF Blocks, NoRecord
<1>5. Ledger
  BY <1>1, <1>3, <1>4 DEF Ledger, OneDanger
<1>6. \A o, h : ~Doing(o, h)
  BY <1>1 DEF Doing
<1>7. Handler /\ \A h \in Handles : Unsent(h)
  BY <1>1, <1>6 DEF Handler, Shape, Exiting, Unsent, Awaiting, Writing
<1>8. Tracked /\ QueueOnlyWhenOpen
  BY <1>1 DEF Tracked, QueueOnlyWhenOpen
<1> QED BY <1>5, <1>7, <1>8, LedgerOf

LEMMA SafeStep == RInv /\ [Next]_vars => SafeInv'
<1> SUFFICES ASSUME RInv, [Next]_vars PROVE SafeInv'
  OBVIOUS
<1>1. CASE Continue
  <2>1. CASE Exited \/ StdinBroken
    BY <2>1, ExitedSafe, StdinBrokenSafe
  <2>2. ASSUME NEW h \in Handles,
               \/ StartTurn(h) \/ Attempt(h) \/ Send(h) \/ Reject(h)
               \/ TryNothing(h) \/ TryDirect(h) \/ TryNoOutcome(h) \/ TryLate(h)
               \/ ReleaseFence(h) \/ Commit(h) \/ ExitSettle(h) \/ RegistryCleanup(h)
        PROVE  SafeInv'
    BY <2>2, StartTurnSafe, AttemptSafe, SendSafe, RejectSafe, TryNothingSafe, TryDirectSafe,
       TryNoOutcomeSafe, TryLateSafe, ReleaseFenceSafe, CommitSafe, ExitSettleSafe,
       RegistryCleanupSafe
  <2> QED BY <1>1, <2>1, <2>2 DEF Continue
<1>2. CASE \/ Spawn \/ Enqueue \/ Receipt \/ ErrorResponse \/ SessionEvent \/ SessionIdle
           \/ TerminationOnlyCheck \/ ReceiptTimeout \/ TurnTimeout \/ Drain \/ Recover
           \/ ChildExit \/ Restart
  BY <1>2, SpawnSafe, EnqueueSafe, ReceiptSafe, ErrorResponseSafe, SessionEventSafe,
     SessionIdleSafe, TerminationOnlyCheckSafe, ReceiptTimeoutSafe, TurnTimeoutSafe, DrainSafe,
     RecoverSafe, ChildExitSafe, RestartSafe
<1>3. CASE \E h \in Handles : Recheck(h) \/ ChildReads(h) \/ ChildEnds(h)
  BY <1>3, RecheckSafe, ChildReadsSafe, ChildEndsSafe
<1>4. CASE \E risk \in BOOLEAN : Abandon(risk)
  BY <1>4, AbandonSafe
<1>5. CASE \E g \in Gens : ChildDies(g)
  BY <1>5, ChildDiesSafe DEF ChildDies
<1>6. CASE UNCHANGED vars
  BY <1>6, ChildDiesSafe DEF vars, router
<1> QED BY <1>1, <1>2, <1>3, <1>4, <1>5, <1>6 DEF Next

LEMMA Inductive == Spec => []RInv
<1>1. Init => RInv
  BY TypeInit, SafeInit DEF RInv
<1>2. RInv /\ [Next]_vars => RInv'
  BY TypeStep, SafeStep DEF RInv
<1> QED BY <1>1, <1>2, PTL DEF Spec

-----------------------------------------------------------------------------
(* A prompt in the hands of a live child is tracked, or its record blocks  *)
(* the next turn, or the owner has accepted the risk.                      *)
LEMMA HeldIsKnown ==
  ASSUME RInv, NEW h \in Handles, Held(h)
  PROVE  h = cur \/ Blocks(h) \/ rec[h].abandoned = "risk"
<1>1. Recorded(h) /\ TrueOf(h) /\ rec[h] \in Records
  BY Ground DEF Ledger
<1>2. rec[h].term = "none" /\ truth[h] \in {"piped", "live"}
  BY <1>1 DEF TrueOf, Held
<1>3. rec[h].outcome \notin Direct
  BY <1>1, <1>2 DEF TrueOf, Direct
<1>4. rec[h].st = "open"
  BY <1>1, <1>2, <1>3 DEF Recorded, Records, NoRecord
<1> QED BY <1>1, <1>2, <1>4 DEF Recorded, Blocks, Records

(* Two prompts of one agent are never in the hands of live children at the *)
(* same time, whatever the children, the deadlines, the restarts and the   *)
(* administrator do, unless the owner accepted the risk.                   *)
THEOREM TurnsDoNotOverlap == Spec => []OneTurnAtATime
<1>1. RInv => OneTurnAtATime
  <2> SUFFICES ASSUME RInv, NEW h \in Handles, NEW k \in Handles, h # k, Held(h), Held(k),
                      rec[h].abandoned # "risk", rec[k].abandoned # "risk"
               PROVE  FALSE
    BY DEF OneTurnAtATime
  <2>1. (h = cur \/ Blocks(h)) /\ (k = cur \/ Blocks(k)) /\ h # 0 /\ k # 0
    BY HeldIsKnown, Ground
  <2> QED BY <2>1, Ground DEF Ledger, OneDanger
<1> QED BY <1>1, Inductive, PTL

(* Every settlement of a record says what happened to the prompt, and a    *)
(* turn with termination evidence runs no more.                            *)
THEOREM SettlementsAreTrue == Spec => []SettlementTruth
<1>1. RInv => SettlementTruth
  BY Ground DEF Ledger, TrueOf, SettlementTruth
<1> QED BY <1>1, Inductive, PTL

(* Nothing waits in the queue of a process that is fenced, blocked or no   *)
(* longer READY.                                                           *)
THEOREM NothingWaitsBehindAFence == Spec => []QueueOnlyWhenOpen
<1>1. RInv => QueueOnlyWhenOpen
  BY Ground
<1> QED BY <1>1, Inductive, PTL

-----------------------------------------------------------------------------
(* No step touches a settled record's verdict. *)
Kept(h) ==
  rec[h].st = "settled" =>
    rec'[h].st = "settled" /\ rec'[h].outcome = rec[h].outcome /\ rec'[h].term = rec[h].term

LEMMA KeptIf ==
  ASSUME NEW h, rec'[h].st = rec[h].st, rec'[h].outcome = rec[h].outcome,
         rec'[h].term = rec[h].term
  PROVE  Kept(h)
  BY DEF Kept

LEMMA KeptBySettlement ==
  ASSUME TypeOK, NEW h, NEW o, NEW t, SettleDirect(h, o, t) \/ SettleLate(h, o, t),
         NEW k \in Handles
  PROVE  Kept(k)
<1>1. CASE rec' = rec
  BY <1>1, KeptIf
<1>2. CASE rec[h].st = "open" /\ rec' = [rec EXCEPT ![h] = Settled(@, o, t)]
  <2>1. CASE k = h
    BY <1>2, <2>1 DEF Kept
  <2>2. CASE k # h
    <3>1. rec'[k] = rec[k]
      BY <1>2, <2>2, Parts
    <3> QED BY <3>1, KeptIf
  <2> QED BY <2>1, <2>2
<1> QED BY <1>1, <1>2 DEF SettleDirect, SettleLate

LEMMA KeptByMark ==
  ASSUME TypeOK, NEW h, NEW e, NEW s, MarkUnknown(h, e, s), NEW k \in Handles
  PROVE  Kept(k)
<1>1. rec[k] \in Records /\ rec \in [Handles -> Records]
  BY Parts
<1>2. rec'[k].st = rec[k].st /\ rec'[k].outcome = rec[k].outcome /\ rec'[k].term = rec[k].term
  BY <1>1 DEF MarkUnknown, Records
<1> QED BY <1>2, KeptIf

LEMMA KeptByTurn ==
  ASSUME TypeOK, NEW h \in Handles, NEW k \in Handles,
         \/ StartTurn(h) \/ Attempt(h) \/ Send(h) \/ Reject(h)
         \/ TryNothing(h) \/ TryDirect(h) \/ TryNoOutcome(h) \/ TryLate(h) \/ ReleaseFence(h)
         \/ Commit(h) \/ ExitSettle(h) \/ RegistryCleanup(h) \/ Recheck(h)
         \/ ChildReads(h) \/ ChildEnds(h)
  PROVE  Kept(k)
<1>1. rec[k] \in Records /\ rec \in [Handles -> Records]
  BY Parts
<1>2. CASE StartTurn(h)
  BY <1>1, <1>2 DEF StartTurn, Unminted, Kept
<1>3. CASE Attempt(h) \/ ReleaseFence(h) \/ RegistryCleanup(h)
  <2>1. \/ rec' = [rec EXCEPT ![h].written = TRUE]
        \/ rec' = [rec EXCEPT ![h].fence = "cleared"]
        \/ rec' = [rec EXCEPT ![h].cleanup = TRUE]
    BY <1>3 DEF Attempt, ReleaseFence, RegistryCleanup
  <2>2. rec'[k].st = rec[k].st /\ rec'[k].outcome = rec[k].outcome /\ rec'[k].term = rec[k].term
    <3>1. CASE rec' = [rec EXCEPT ![h].written = TRUE]
      BY <1>1, <3>1 DEF Records
    <3>2. CASE rec' = [rec EXCEPT ![h].fence = "cleared"]
      BY <1>1, <3>2 DEF Records
    <3>3. CASE rec' = [rec EXCEPT ![h].cleanup = TRUE]
      BY <1>1, <3>3 DEF Records
    <3> QED BY <2>1, <3>1, <3>2, <3>3
  <2> QED BY <2>2, KeptIf
<1>4. CASE \/ Send(h) \/ TryNothing(h) \/ Commit(h) \/ Recheck(h) \/ ChildReads(h) \/ ChildEnds(h)
  BY <1>4, KeptIf DEF Send, TryNothing, Commit, Recheck, ChildReads, ChildEnds, router
<1>5. CASE Reject(h) \/ TryDirect(h) \/ TryLate(h) \/ ExitSettle(h)
  BY <1>5, KeptBySettlement DEF Reject, TryDirect, TryLate, ExitSettle
<1>6. CASE TryNoOutcome(h)
  BY <1>6, KeptByMark DEF TryNoOutcome
<1> QED BY <1>2, <1>3, <1>4, <1>5, <1>6

LEMMA KeptByRouter ==
  ASSUME TypeOK, NEW k \in Handles,
         \/ Spawn \/ Enqueue \/ Receipt \/ ErrorResponse \/ SessionEvent \/ SessionIdle
         \/ TerminationOnlyCheck \/ ReceiptTimeout \/ TurnTimeout \/ Drain \/ Recover
         \/ ChildExit \/ Restart \/ Exited \/ StdinBroken
         \/ \E risk \in BOOLEAN : Abandon(risk)
         \/ \E g \in Gens : ChildDies(g)
         \/ UNCHANGED vars
  PROVE  Kept(k)
<1>1. rec[k] \in Records /\ rec \in [Handles -> Records]
  BY Parts
<1>2. CASE \/ Spawn \/ Enqueue \/ Receipt \/ SessionEvent \/ SessionIdle \/ Exited \/ StdinBroken
           \/ \E g \in Gens : ChildDies(g)
           \/ UNCHANGED vars
  BY <1>2, KeptIf DEF Spawn, Enqueue, Receipt, SessionEvent, SessionIdle, Exited, StdinBroken,
                      ChildDies, router, vars
<1>3. CASE ErrorResponse \/ TerminationOnlyCheck
  BY <1>3, KeptBySettlement, KeptIf DEF ErrorResponse, TerminationOnlyCheck
<1>4. CASE ReceiptTimeout \/ TurnTimeout \/ Drain \/ ChildExit
  <2>1. rec' = rec \/ \E h, e, s : MarkUnknown(h, e, s)
    BY <1>4 DEF ReceiptTimeout, TurnTimeout, Drain, ChildExit
  <2> QED BY <2>1, KeptByMark, KeptIf
<1>5. CASE Recover
  <2>1. rec'[k].st = rec[k].st /\ rec'[k].outcome = rec[k].outcome /\ rec'[k].term = rec[k].term
    BY <1>1, <1>5 DEF Recover, Records
  <2> QED BY <2>1, KeptIf
<1>6. CASE Restart
  <2>1. rec'[k] = Restored(rec[k])
    BY <1>6 DEF Restart
  <2> QED BY <1>1, <2>1, RestoredRecord DEF Kept
<1>7. CASE \E risk \in BOOLEAN : Abandon(risk)
  <2>1. PICK a \in {"proven", "risk"} :
          rec' = [h \in Handles |-> IF Blocks(h) THEN [rec[h] EXCEPT !.abandoned = a] ELSE rec[h]]
    BY <1>7 DEF Abandon
  <2>2. rec'[k] \in {rec[k], [rec[k] EXCEPT !.abandoned = a]}
    BY <2>1
  <2>3. rec'[k].st = rec[k].st /\ rec'[k].outcome = rec[k].outcome /\ rec'[k].term = rec[k].term
    BY <1>1, <2>2 DEF Records
  <2> QED BY <2>3, KeptIf
<1> QED BY <1>2, <1>3, <1>4, <1>5, <1>6, <1>7

(* A settlement is final: no later evidence, no exit during the recheck of *)
(* a write and no restart rewrites an outcome or its termination evidence. *)
THEOREM SettlementsAreFinal == Spec => SettleOnce
<1> DEFINE Once == \A h \in Handles : rec[h].st = "settled" =>
                     /\ rec'[h].st = "settled" /\ rec'[h].outcome = rec[h].outcome
                     /\ rec'[h].term = rec[h].term
<1>1. TypeOK /\ [Next]_vars => [Once]_vars
  <2> SUFFICES ASSUME TypeOK, [Next]_vars, NEW k \in Handles PROVE Kept(k)
    BY DEF Kept
  <2> QED BY KeptByTurn, KeptByRouter DEF Next, Continue
<1>2. Spec => [][Once]_vars
  BY <1>1, TypeCorrect, PTL DEF Spec
<1> QED BY <1>2 DEF SettleOnce

=============================================================================
