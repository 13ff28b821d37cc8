---------------------------- MODULE ServiceProofs ----------------------------
(***************************************************************************)
(* Theorems about three parts that keep a document of their own: the       *)
(* notification ingress and, in the last two parts, the credentials of     *)
(* agents and the development executions.                                  *)
(* For any number of requests, keys, payloads, crashes and failed writes:  *)
(* a recorded notification is delivered once at most, its record is true,  *)
(* and whoever is told an outcome is told the recorded one.  For any       *)
(* operations and failing steps: a rotation never builds on a split of the *)
(* database and the store, and leaves none without a receipt.  For any     *)
(* executions and crashes: a terminal execution has no writer, no          *)
(* unanswered instruction and no second disposition.                       *)
(***************************************************************************)
EXTENDS NotificationIngress, FiniteSetTheorems, SequenceTheorems, TLAPS

(* Requests turned away before they named a delivery, and the others. *)
Unnamed == [pc : {"idle", "done"}, answer : {"none"} \cup Verdicts]

Named ==
  [pc : {"reserving", "joined", "unresolved", "done", "lost"},
   key : Keys, hash : Hashes, answer : Answers]

Recorded == [state : States, hash : Hashes]

(* What the record, the attempt and the history of one delivery say of     *)
(* each other.                                                             *)
KeySafe(k) ==
  /\ calls[k] \in {0, 1} /\ admitted[k] \in {0, 1}
  /\ record[k] = NoRecord => calls[k] = 0 /\ k \notin inflight
  /\ calls[k] = 0 => answers[k] = "none"
  /\ answers[k] \in {"none", "proven"} => admitted[k] = 0
  /\ answers[k] = "accepted" => admitted[k] = 1
  /\ k \in inflight <=> attempt[k] # "none"
  /\ attempt[k] # "none" /\ told[k] = "none" => record[k].state = "reserved" /\ calls[k] = 1
  /\ told[k] # "none" => k \in inflight
  /\ told[k] \in Terminal => record[k].state = told[k]
  /\ up = FALSE => k \notin inflight
  /\ answers[k] = "lost" => k \notin inflight
  /\ "delivered" \in {record[k].state, attempt[k]} => answers[k] = "accepted"
  /\ "failed_no_admission" \in {record[k].state, attempt[k]} => answers[k] = "proven"

(* A request waits for the attempt of its payload; whoever found a record  *)
(* without an attempt finds none later; and an answer is the record.       *)
ReqSafe(r) ==
  LET q == req[r] IN
  /\ q.pc = "joined" => q.key \in inflight /\ record[q.key].hash = q.hash
  /\ q.pc = "unresolved" =>
       /\ q.key \notin inflight /\ record[q.key].hash = q.hash
       /\ record[q.key].state \in {"reserved", "outcome_unknown"}
  /\ q.answer \in Terminal =>
       q \in Named /\ record[q.key].state = q.answer /\ record[q.key].hash = q.hash

IInv ==
  /\ TypeOK
  /\ \A k \in Keys : KeySafe(k)
  /\ \A r \in Requests : ReqSafe(r)

-----------------------------------------------------------------------------
(* Words and types. *)

(* No verdict of authentication is an outcome of a delivery. *)
LEMMA VerdictNames == Verdicts \subseteq {"ok", "401", "403", "503"}
<1>1. SUFFICES ASSUME NEW c \in BOOLEAN, NEW b \in BOOLEAN, NEW a \in AuthAnswers,
                      NEW allowed \in BOOLEAN
               PROVE  Authenticated(c, b, a, allowed) \in {"ok", "401", "403", "503"}
  BY DEF Verdicts
<1> QED BY DEF Authenticated, Verified, AuthAnswers

LEMMA Words ==
  /\ States = {"reserved", "delivered", "failed_no_admission", "outcome_unknown"}
  /\ Terminal = {"delivered", "failed_no_admission", "outcome_unknown"}
  /\ Answers = {"none", "conflict", "500", "expired",
                "delivered", "failed_no_admission", "outcome_unknown"}
BY DEF States, Terminal, Answers

LEMMA Typed ==
  ASSUME TypeOK
  PROVE  /\ req \in [Requests -> Unnamed \cup Named]
         /\ record \in [Keys -> Recorded \cup {NoRecord}]
BY DEF TypeOK, Unnamed, Named, Recorded

(* A request on its way has named its delivery; so has one with an outcome. *)
LEMMA OnItsWay ==
  ASSUME TypeOK, NEW r \in Requests,
         req[r].pc \in {"reserving", "joined", "unresolved", "lost"} \/ req[r].answer \in Terminal
  PROVE  req[r] \in Named
<1>1. req[r] \in Unnamed \cup Named  BY Typed
<1> QED BY <1>1, VerdictNames, Words DEF Unnamed

LEMMA Known ==
  ASSUME TypeOK, NEW k \in Keys
  PROVE  /\ record[k] \in Recorded \cup {NoRecord}
         /\ record[k] # NoRecord <=> record[k] \in Recorded
         /\ record[k].state \in States <=> record[k] \in Recorded
         /\ record[k] \in Recorded => record[k].state \in States /\ record[k].hash \in Hashes
         /\ record[k] = NoRecord => record[k].state = "none"
<1>1. record[k] \in Recorded \cup {NoRecord}  BY Typed
<1> QED BY <1>1, Words DEF Recorded, NoRecord

(* The record of a request that moves on. *)
LEMMA Moved ==
  ASSUME NEW q \in Named
  PROVE  /\ q \in Unnamed \cup Named /\ q.key \in Keys /\ q.hash \in Hashes /\ q.answer \in Answers
         /\ \A p \in {"reserving", "joined", "unresolved", "done", "lost"} :
              LET n == [q EXCEPT !.pc = p]
              IN  n \in Named /\ n.pc = p /\ n.key = q.key /\ n.hash = q.hash /\ n.answer = q.answer
         /\ \A a \in Answers :
              LET n == [q EXCEPT !.pc = "done", !.answer = a]
              IN  n \in Named /\ n.pc = "done" /\ n.key = q.key /\ n.hash = q.hash /\ n.answer = a
         /\ \A a \in Answers :
              LET n == [q EXCEPT !.answer = a]
              IN  n \in Named /\ n.pc = q.pc /\ n.key = q.key /\ n.hash = q.hash /\ n.answer = a
BY DEF Named

-----------------------------------------------------------------------------
(* What the mutations do: one lemma per user of Enqueue. *)

(* The mutation is committed and its caller goes on, or it fails: before   *)
(* the rename, or after it.                                                *)
Ended(r, a) == [req[r] EXCEPT !.pc = "done", !.answer = a]
Turned(r, p) == [req[r] EXCEPT !.pc = p]
Put(r, n) == req' = [req EXCEPT ![r] = n]

WithReserved(r) ==
  [record EXCEPT ![req[r].key] = [state |-> "reserved", hash |-> req[r].hash]]

Begun(r) ==
  LET k == req[r].key IN
  /\ record[k] = NoRecord /\ record' = WithReserved(r)
  /\ Put(r, Turned(r, "joined"))
  /\ inflight' = inflight \cup {k}
  /\ attempt' = [attempt EXCEPT ![k] = "calling"]
  /\ calls' = [calls EXCEPT ![k] = @ + 1]

Thrown(r) ==
  /\ \/ record' = record
     \/ record[req[r].key] = NoRecord /\ record' = WithReserved(r)
  /\ Put(r, Ended(r, "500"))
  /\ UNCHANGED <<inflight, attempt, calls>>

Repeated(r) ==
  LET k == req[r].key IN
  /\ record[k] # NoRecord
  /\ UNCHANGED <<record, inflight, attempt, calls>>
  /\ \/ Put(r, Ended(r, "conflict"))
     \/ /\ record[k].hash = req[r].hash
        /\ \/ record[k].state \in Terminal /\ Put(r, Ended(r, record[k].state))
           \/ k \in inflight /\ Put(r, Turned(r, "joined"))
           \/ /\ k \notin inflight /\ record[k].state \notin Terminal
              /\ Put(r, Turned(r, "unresolved"))

LEMMA ReserveMoves ==
  ASSUME NEW r \in Requests, Reserve(r)
  PROVE  /\ up /\ req[r].pc = "reserving" /\ UNCHANGED <<up, told, answers, admitted>>
         /\ Begun(r) \/ Thrown(r) \/ Repeated(r)
<1>1. up /\ req[r].pc = "reserving" /\ UNCHANGED <<up, told, answers, admitted>>
  BY DEF Reserve
<1>2. \A p : [req EXCEPT ![r].pc = p] = [req EXCEPT ![r] = Turned(r, p)]
  BY DEF Turned
<1>3. \A a : [req EXCEPT ![r] = [@ EXCEPT !.pc = "done", !.answer = a]]
               = [req EXCEPT ![r] = Ended(r, a)]
  BY DEF Ended
<1>4. CASE record[req[r].key] = NoRecord
  <2>1. Begun(r) \/ Thrown(r)
    BY <1>2, <1>3, <1>4 DEF Reserve, Enqueue, Answer, Begun, Thrown, WithReserved, Put
  <2> QED BY <1>1, <2>1
<1>5. CASE record[req[r].key] # NoRecord
  <2>1. Repeated(r) \/ Thrown(r)
    BY <1>2, <1>3, <1>5 DEF Reserve, Enqueue, Answer, Repeated, Thrown, Put
  <2> QED BY <1>1, <2>1
<1> QED BY <1>4, <1>5

LEMMA SettleUnresolvedMoves ==
  ASSUME NEW r \in Requests, SettleUnresolved(r)
  PROVE  /\ up /\ req[r].pc = "unresolved"
         /\ UNCHANGED <<up, inflight, attempt, told, answers, calls, admitted>>
         /\ \/ /\ record' = Settled(req[r].key, "outcome_unknown")
               /\ Put(r, Ended(r, "outcome_unknown"))
            \/ /\ record' = record \/ record' = Settled(req[r].key, "outcome_unknown")
               /\ Put(r, Ended(r, "500"))
BY DEF SettleUnresolved, Enqueue, Answer, Put, Ended

LEMMA SettleMoves ==
  ASSUME NEW k \in Keys, Settle(k)
  PROVE  /\ up /\ attempt[k] \in Terminal /\ told[k] = "none"
         /\ UNCHANGED <<up, req, inflight, attempt, answers, calls, admitted>>
         /\ \/ /\ record' = Settled(k, attempt[k])
               /\ told' = [told EXCEPT ![k] = attempt[k]]
            \/ /\ record' = record \/ record' = Settled(k, attempt[k])
               /\ told' = [told EXCEPT ![k] = "500"]
BY DEF Settle, Enqueue

LEMMA PutTyped ==
  ASSUME TypeOK, NEW r \in Requests, NEW n \in Unnamed \cup Named, Put(r, n)
  PROVE  /\ req' \in [Requests -> Unnamed \cup Named]
         /\ req'[r] = n /\ \A s \in Requests \ {r} : req'[s] = req[s]
BY Typed DEF Put

LEMMA EndedNamed ==
  ASSUME NEW r \in Requests, req[r] \in Named, NEW a \in Answers
  PROVE  /\ Ended(r, a) \in Named
         /\ Ended(r, a).pc = "done" /\ Ended(r, a).answer = a
         /\ Ended(r, a).key = req[r].key /\ Ended(r, a).hash = req[r].hash
BY DEF Ended, Named

LEMMA TurnedNamed ==
  ASSUME NEW r \in Requests, req[r] \in Named,
         NEW p \in {"reserving", "joined", "unresolved", "done", "lost"}
  PROVE  /\ Turned(r, p) \in Named
         /\ Turned(r, p).pc = p /\ Turned(r, p).answer = req[r].answer
         /\ Turned(r, p).key = req[r].key /\ Turned(r, p).hash = req[r].hash
BY DEF Turned, Named

LEMMA SettledTyped ==
  ASSUME TypeOK, NEW k \in Keys, NEW x \in Terminal
  PROVE  /\ Settled(k, x) \in [Keys -> Recorded \cup {NoRecord}]
         /\ \A j \in Keys \ {k} : Settled(k, x)[j] = record[j]
         /\ record[k].state # "reserved" => Settled(k, x)[k] = record[k]
         /\ record[k].state = "reserved" =>
              Settled(k, x)[k].state = x /\ Settled(k, x)[k].hash = record[k].hash
<1>1. record \in [Keys -> Recorded \cup {NoRecord}]  BY Typed
<1>2. CASE record[k].state # "reserved"
  BY <1>1, <1>2 DEF Settled
<1>3. CASE record[k].state = "reserved"
  <2>1. record[k] \in Recorded  BY <1>3, Known, Words
  <2> DEFINE n == [record[k] EXCEPT !.state = x]
  <2>2. n \in Recorded /\ n.state = x /\ n.hash = record[k].hash
    BY <2>1, Words DEF Recorded
  <2>3. Settled(k, x) = [record EXCEPT ![k] = n]
    BY <1>3 DEF Settled
  <2> HIDE DEF n
  <2> QED BY <1>1, <1>3, <2>2, <2>3
<1> QED BY <1>2, <1>3

LEMMA ReservedTyped ==
  ASSUME TypeOK, NEW r \in Requests, req[r] \in Named
  PROVE  /\ WithReserved(r) \in [Keys -> Recorded \cup {NoRecord}]
         /\ WithReserved(r)[req[r].key] = [state |-> "reserved", hash |-> req[r].hash]
         /\ \A j \in Keys \ {req[r].key} : WithReserved(r)[j] = record[j]
<1>1. [state |-> "reserved", hash |-> req[r].hash] \in Recorded
  BY Words, Moved DEF Recorded
<1>2. record \in [Keys -> Recorded \cup {NoRecord}] /\ req[r].key \in Keys
  BY Typed, Moved
<1> QED BY <1>1, <1>2 DEF WithReserved

-----------------------------------------------------------------------------
(* Every step keeps the types. *)

(* The types, with the requests and records named as in this module. *)
LEMMA TypeNamed ==
  TypeOK <=>
    /\ record \in [Keys -> Recorded \cup {NoRecord}]
    /\ req \in [Requests -> Unnamed \cup Named]
    /\ inflight \subseteq Keys
    /\ attempt \in [Keys -> {"none", "calling"} \cup Terminal]
    /\ told \in [Keys -> {"none", "500"} \cup Terminal]
    /\ answers \in [Keys -> {"none", "accepted", "proven", "error", "lost"}]
    /\ calls \in [Keys -> Nat] /\ admitted \in [Keys -> Nat]
BY DEF TypeOK, Recorded, Unnamed, Named

LEMMA TypeNamedNext ==
  TypeOK' <=>
    /\ record' \in [Keys -> Recorded \cup {NoRecord}]
    /\ req' \in [Requests -> Unnamed \cup Named]
    /\ inflight' \subseteq Keys
    /\ attempt' \in [Keys -> {"none", "calling"} \cup Terminal]
    /\ told' \in [Keys -> {"none", "500"} \cup Terminal]
    /\ answers' \in [Keys -> {"none", "accepted", "proven", "error", "lost"}]
    /\ calls' \in [Keys -> Nat] /\ admitted' \in [Keys -> Nat]
BY DEF TypeOK, Recorded, Unnamed, Named

LEMMA TypeInit == Init => TypeOK
<1> SUFFICES ASSUME Init PROVE TypeOK
  OBVIOUS
<1>1. [pc |-> "idle", answer |-> "none"] \in Unnamed
  BY DEF Unnamed
<1> QED BY <1>1, TypeNamed, Words DEF Init

(* A request arrives: turned away, or for a delivery, waiting for the      *)
(* attempt of its payload or for the store.                                *)
LEMMA ArriveMoves ==
  ASSUME NEW r \in Requests, Arrive(r)
  PROVE  /\ up /\ req[r].pc = "idle"
         /\ UNCHANGED <<up, record, inflight, attempt, told, answers, calls, admitted>>
         /\ \E n \in Unnamed \cup Named :
              /\ Put(r, n)
              /\ \/ n \in Unnamed
                 \/ /\ n \in Named /\ n.answer = "none" /\ n.pc \in {"reserving", "joined"}
                    /\ n.pc = "joined" => n.key \in inflight /\ record[n.key].hash = n.hash
<1>1. PICK k \in Keys, h \in Hashes, verdict \in Verdicts :
        req' = [req EXCEPT ![r] =
          IF verdict # "ok"
          THEN [pc |-> "done", answer |-> verdict]
          ELSE [pc |-> IF k \in inflight /\ record[k].hash = h THEN "joined" ELSE "reserving",
                key |-> k, hash |-> h, answer |-> "none"]]
  BY DEF Arrive
<1>2. CASE verdict # "ok"
  <2>1. [pc |-> "done", answer |-> verdict] \in Unnamed
    BY DEF Unnamed
  <2> QED BY <1>1, <1>2, <2>1 DEF Arrive, Put
<1>3. CASE verdict = "ok"
  <2> DEFINE n == [pc |-> IF k \in inflight /\ record[k].hash = h THEN "joined" ELSE "reserving",
                   key |-> k, hash |-> h, answer |-> "none"]
  <2>1. /\ n \in Named /\ n.answer = "none" /\ n.pc \in {"reserving", "joined"}
        /\ n.pc = "joined" => n.key \in inflight /\ record[n.key].hash = n.hash
    BY Words DEF Named
  <2>2. Put(r, n)
    BY <1>1, <1>3 DEF Put
  <2> HIDE DEF n
  <2> QED BY <2>1, <2>2 DEF Arrive
<1> QED BY <1>2, <1>3

(* A sweep drops some settled records that nobody waits for, with their    *)
(* history, or none.                                                       *)
LEMMA SweepMoves ==
  ASSUME TypeOK, Sweep
  PROVE  /\ up /\ UNCHANGED <<up, inflight, attempt, told>>
         /\ \E G \in SUBSET Keys :
              /\ \A k \in G : record[k].state \in Terminal /\ ~Awaited(k)
              /\ record' = [k \in Keys |-> IF k \in G THEN NoRecord ELSE record[k]]
              /\ calls' = [k \in Keys |-> IF k \in G THEN 0 ELSE calls[k]]
              /\ admitted' = [k \in Keys |-> IF k \in G THEN 0 ELSE admitted[k]]
              /\ answers' = [k \in Keys |-> IF k \in G THEN "none" ELSE answers[k]]
              /\ req' = [r \in Requests |->
                   IF req[r].answer \in Terminal /\ req[r].key \in G
                   THEN [req[r] EXCEPT !.answer = "expired"] ELSE req[r]]
<1>1. PICK S \in SUBSET Keys \ {{}} :
        /\ Swept(S) /\ \A k \in S : ~Awaited(k)
        /\ Enqueue(Without(record, S), TRUE, TRUE)
        /\ LET gone == {k \in S : record'[k] = NoRecord}
               Reset(f, x) == [k \in Keys |-> IF k \in gone THEN x ELSE f[k]]
           IN /\ calls' = Reset(calls, 0) /\ admitted' = Reset(admitted, 0)
              /\ answers' = Reset(answers, "none")
              /\ req' = [r \in Requests |->
                   IF req[r].answer \in Terminal /\ req[r].key \in gone
                   THEN [req[r] EXCEPT !.answer = "expired"] ELSE req[r]]
  BY DEF Sweep
<1> DEFINE G == {k \in S : record'[k] = NoRecord}
<1>2. \A k \in G : record[k].state \in Terminal /\ ~Awaited(k)
  BY <1>1 DEF Swept
<1>3. record' = [k \in Keys |-> IF k \in G THEN NoRecord ELSE record[k]]
  <2>1. record \in [Keys -> Recorded \cup {NoRecord}] /\ \A k \in S : record[k] # NoRecord
    BY <1>1, Typed, Known, Words DEF Swept
  <2>2. record' = record \/ record' = Without(record, S)
    BY <1>1 DEF Enqueue
  <2> QED BY <2>1, <2>2 DEF Without
<1>4. /\ calls' = [k \in Keys |-> IF k \in G THEN 0 ELSE calls[k]]
      /\ admitted' = [k \in Keys |-> IF k \in G THEN 0 ELSE admitted[k]]
      /\ answers' = [k \in Keys |-> IF k \in G THEN "none" ELSE answers[k]]
      /\ req' = [r \in Requests |->
           IF req[r].answer \in Terminal /\ req[r].key \in G
           THEN [req[r] EXCEPT !.answer = "expired"] ELSE req[r]]
  BY <1>1
<1> HIDE DEF G
<1>5. G \in SUBSET Keys  BY DEF G
<1> QED BY <1>2, <1>3, <1>4, <1>5 DEF Sweep

LEMMA TypeStep == IInv /\ [Next]_vars => TypeOK'
<1> SUFFICES ASSUME IInv, [Next]_vars PROVE TypeOK'
  OBVIOUS
<1>0. TypeOK  BY DEF IInv
<1> USE <1>0
<1> USE Words
<1>1. ASSUME NEW r \in Requests, Arrive(r) PROVE TypeOK'
  <2>1. PICK n \in Unnamed \cup Named : Put(r, n)  BY <1>1, ArriveMoves
  <2>2. req' \in [Requests -> Unnamed \cup Named]  BY <2>1, PutTyped
  <2> QED BY <1>1, <2>2, ArriveMoves, TypeNamed, TypeNamedNext
<1>2. ASSUME NEW r \in Requests, Reserve(r) PROVE TypeOK'
  <2>1. req[r] \in Named  BY <1>2, ReserveMoves, OnItsWay
  <2>2. CASE Begun(r)
    <3>1. Turned(r, "joined") \in Named  BY <2>1, TurnedNamed
    <3>2. req' \in [Requests -> Unnamed \cup Named]
      BY <2>2, <3>1, PutTyped DEF Begun
    <3>3. record' \in [Keys -> Recorded \cup {NoRecord}] /\ req[r].key \in Keys
      BY <2>1, <2>2, ReservedTyped, Moved DEF Begun
    <3>4. /\ inflight' \subseteq Keys
          /\ attempt' \in [Keys -> {"none", "calling"} \cup Terminal]
          /\ calls' \in [Keys -> Nat]
      BY <2>2, <3>3, TypeNamed DEF Begun
    <3> QED BY <1>2, <3>2, <3>3, <3>4, ReserveMoves, TypeNamed, TypeNamedNext
  <2>3. CASE Thrown(r)
    <3>1. Ended(r, "500") \in Named  BY <2>1, EndedNamed
    <3>2. req' \in [Requests -> Unnamed \cup Named]
      BY <2>3, <3>1, PutTyped DEF Thrown
    <3>3. record' \in [Keys -> Recorded \cup {NoRecord}]
      BY <2>1, <2>3, ReservedTyped, Typed DEF Thrown
    <3> QED BY <1>2, <2>3, <3>2, <3>3, ReserveMoves, TypeNamed, TypeNamedNext DEF Thrown
  <2>4. CASE Repeated(r)
    <3>1. /\ Ended(r, "conflict") \in Named
          /\ \A a \in Terminal : Ended(r, a) \in Named
          /\ Turned(r, "joined") \in Named /\ Turned(r, "unresolved") \in Named
      <4>1. \A a \in Terminal \cup {"conflict"} : Ended(r, a) \in Named  BY <2>1, EndedNamed
      <4>2. Turned(r, "joined") \in Named /\ Turned(r, "unresolved") \in Named
        BY <2>1, TurnedNamed
      <4> QED BY <4>1, <4>2
    <3>2. req' \in [Requests -> Unnamed \cup Named]
      BY <2>4, <3>1, PutTyped DEF Repeated
    <3> QED BY <1>2, <2>4, <3>2, ReserveMoves, TypeNamed, TypeNamedNext DEF Repeated
  <2> QED BY <1>2, <2>2, <2>3, <2>4, ReserveMoves
<1>3. ASSUME NEW r \in Requests, SettleUnresolved(r) PROVE TypeOK'
  <2>1. req[r] \in Named  BY <1>3, SettleUnresolvedMoves, OnItsWay
  <2>2. Ended(r, "500") \in Named /\ Ended(r, "outcome_unknown") \in Named
    BY <2>1, EndedNamed
  <2>3. req' \in [Requests -> Unnamed \cup Named]
    BY <1>3, <2>2, SettleUnresolvedMoves, PutTyped
  <2>4. record' \in [Keys -> Recorded \cup {NoRecord}]
    <3>1. req[r].key \in Keys /\ "outcome_unknown" \in Terminal  BY <2>1, Moved
    <3>2. Settled(req[r].key, "outcome_unknown") \in [Keys -> Recorded \cup {NoRecord}]
      BY <3>1, SettledTyped
    <3> QED BY <1>3, <3>2, SettleUnresolvedMoves, Typed
  <2> QED BY <1>3, <2>3, <2>4, SettleUnresolvedMoves, TypeNamed, TypeNamedNext
<1>4. ASSUME NEW k \in Keys, RouterAnswers(k) PROVE TypeOK'
  BY <1>4, TypeNamed, TypeNamedNext DEF RouterAnswers
<1>5. ASSUME NEW k \in Keys, AttemptEnds(k) PROVE TypeOK'
  <2>1. answers[k] \in {"none", "accepted", "proven", "error"}
    BY <1>5, TypeNamed DEF AttemptEnds, IInv, KeySafe
  <2>2. Outcome(k) \in Terminal  BY <2>1 DEF Outcome
  <2> QED BY <1>5, <2>2, TypeNamed, TypeNamedNext DEF AttemptEnds
<1>6. ASSUME NEW k \in Keys, Settle(k) PROVE TypeOK'
  <2>1. record' \in [Keys -> Recorded \cup {NoRecord}]
    <3>1. attempt[k] \in Terminal  BY <1>6, SettleMoves
    <3>2. Settled(k, attempt[k]) \in [Keys -> Recorded \cup {NoRecord}]  BY <3>1, SettledTyped
    <3> QED BY <1>6, <3>2, SettleMoves, Typed
  <2> QED BY <1>6, <2>1, SettleMoves, TypeNamed, TypeNamedNext
<1>7. ASSUME NEW k \in Keys, Resolve(k) PROVE TypeOK'
  <2>1. told[k] \in Answers  BY <1>7, TypeNamed DEF Resolve
  <2>2. \A s \in Requests : req[s].pc = "joined" =>
          [req[s] EXCEPT !.pc = "done", !.answer = told[k]] \in Named
    <3> SUFFICES ASSUME NEW s \in Requests, req[s].pc = "joined"
                 PROVE  [req[s] EXCEPT !.pc = "done", !.answer = told[k]] \in Named
      OBVIOUS
    <3>1. req[s] \in Named  BY OnItsWay
    <3> QED BY <2>1, <3>1 DEF Named
  <2>3. req' \in [Requests -> Unnamed \cup Named]
    BY <1>7, <2>2, TypeNamed DEF Resolve
  <2> QED BY <1>7, <2>3, TypeNamed, TypeNamedNext DEF Resolve
<1>8. ASSUME Sweep PROVE TypeOK'
  <2>1. \A s \in Requests : req[s].answer \in Terminal =>
          [req[s] EXCEPT !.answer = "expired"] \in Named
    BY OnItsWay, Moved
  <2> QED BY <1>8, <2>1, SweepMoves, TypeNamed, TypeNamedNext
<1>9. ASSUME Crash PROVE TypeOK'
  <2>1. \A s \in Requests : req[s].pc \notin {"idle", "done"} =>
          [req[s] EXCEPT !.pc = "lost"] \in Named
    <3> SUFFICES ASSUME NEW s \in Requests, req[s].pc \notin {"idle", "done"}
                 PROVE  [req[s] EXCEPT !.pc = "lost"] \in Named
      OBVIOUS
    <3>1. req[s] \in Named  BY Typed DEF Unnamed
    <3> QED BY <3>1, Moved
  <2>2. req' \in [Requests -> Unnamed \cup Named]
    BY <1>9, <2>1, TypeNamed DEF Crash
  <2> QED BY <1>9, <2>2, TypeNamed, TypeNamedNext DEF Crash
<1>10. ASSUME Boot PROVE TypeOK'
  <2>1. \A k \in Keys : Migrated(k) \in Recorded \cup {NoRecord}
    BY Known, Typed DEF Migrated, Recorded
  <2> QED BY <1>10, <2>1, TypeNamed, TypeNamedNext DEF Boot
<1>11. ASSUME UNCHANGED vars PROVE TypeOK'
  BY <1>11, TypeNamed, TypeNamedNext DEF vars
<1> QED
  BY <1>1, <1>2, <1>3, <1>4, <1>5, <1>6, <1>7, <1>8, <1>9, <1>10, <1>11 DEF Next

-----------------------------------------------------------------------------
(* What a step leaves alone stays safe. *)

LEMMA KeyKept ==
  ASSUME NEW k \in Keys, KeySafe(k),
         record'[k] = record[k], attempt'[k] = attempt[k], told'[k] = told[k],
         answers'[k] = answers[k], calls'[k] = calls[k], admitted'[k] = admitted[k],
         k \in inflight' <=> k \in inflight, up' = up
  PROVE  KeySafe(k)'
BY DEF KeySafe

(* A request that a step does not move: the record it names is not there   *)
(* yet, or stays, or settles to the outcome of its attempt or to unknown.  *)
LEMMA ReqKept ==
  ASSUME TypeOK, TypeOK', NEW s \in Requests, ReqSafe(s), req'[s] = req[s],
         req[s] \in Named =>
           LET k == req[s].key IN
           /\ KeySafe(k)
           /\ \/ record[k] = NoRecord
              \/ /\ k \in inflight' <=> k \in inflight
                 /\ \/ record'[k] = record[k]
                    \/ /\ record[k].state = "reserved" /\ record'[k].hash = record[k].hash
                       /\ record'[k].state = "outcome_unknown" \/ k \in inflight
  PROVE  ReqSafe(s)'
<1>1. CASE req[s] \notin Named
  BY <1>1, OnItsWay DEF ReqSafe
<1>2. CASE req[s] \in Named
  <2> DEFINE k == req[s].key
  <2>1. k \in Keys  BY <1>2, Moved
  <2>2. CASE record[k] = NoRecord
    <3>1. record[k].state = "none" /\ k \notin inflight
      BY <1>2, <2>1, <2>2, Known DEF KeySafe
    <3> QED BY <2>2, <3>1, Words DEF ReqSafe
  <2>3. CASE record[k] # NoRecord /\ record'[k] = record[k]
    BY <1>2, <2>3 DEF ReqSafe
  <2>4. CASE record[k] # NoRecord /\ record'[k] # record[k]
    <3>1. /\ record[k].state = "reserved" /\ record'[k].hash = record[k].hash
          /\ record'[k].state = "outcome_unknown" \/ k \in inflight
          /\ k \in inflight' <=> k \in inflight
      BY <1>2, <2>4
    <3> QED BY <3>1, Words DEF ReqSafe
  <2> QED BY <2>2, <2>3, <2>4
<1> QED BY <1>1, <1>2

(* A request that a step does not move, when no record moves. *)
LEMMA ReqStays ==
  ASSUME TypeOK, NEW s \in Requests, ReqSafe(s), UNCHANGED <<record, inflight>>,
         req'[s] = req[s]
  PROVE  ReqSafe(s)'
BY DEF ReqSafe

LEMMA InvInit == Init => IInv
<1> SUFFICES ASSUME Init PROVE IInv
  OBVIOUS
<1>1. TypeOK  BY TypeInit
<1>2. ASSUME NEW k \in Keys PROVE KeySafe(k)
  <2>1. record[k].state = "none"  BY DEF Init, NoRecord
  <2> QED BY <2>1, Words DEF Init, KeySafe
<1>3. ASSUME NEW r \in Requests PROVE ReqSafe(r)
  BY Words DEF Init, ReqSafe
<1> QED BY <1>1, <1>2, <1>3 DEF IInv

-----------------------------------------------------------------------------
(* Every step keeps what the deliveries and the requests rely on. *)

LEMMA ArriveKeeps ==
  ASSUME IInv, TypeOK', NEW r \in Requests, Arrive(r)
  PROVE  (\A k \in Keys : KeySafe(k)') /\ \A s \in Requests : ReqSafe(s)'
<1>1. TypeOK /\ UNCHANGED <<up, record, inflight, attempt, told, answers, calls, admitted>>
  BY ArriveMoves DEF IInv
<1>2. ASSUME NEW k \in Keys PROVE KeySafe(k)'
  BY <1>1, KeyKept DEF IInv
<1>3. PICK n \in Unnamed \cup Named :
        /\ Put(r, n)
        /\ \/ n \in Unnamed
           \/ /\ n \in Named /\ n.answer = "none" /\ n.pc \in {"reserving", "joined"}
              /\ n.pc = "joined" => n.key \in inflight /\ record[n.key].hash = n.hash
  BY ArriveMoves
<1>4. req'[r] = n /\ \A s \in Requests \ {r} : req'[s] = req[s]
  BY <1>1, <1>3, PutTyped
<1>5. ReqSafe(r)'
  <2>1. n.pc # "unresolved" /\ n.answer \notin Terminal
    BY <1>3, VerdictNames, Words DEF Unnamed
  <2>2. n.pc = "joined" => n.key \in inflight /\ record[n.key].hash = n.hash
    BY <1>3 DEF Unnamed
  <2> QED BY <1>1, <1>4, <2>1, <2>2 DEF ReqSafe
<1>6. ASSUME NEW s \in Requests \ {r} PROVE ReqSafe(s)'
  BY <1>1, <1>4, ReqStays DEF IInv
<1> QED BY <1>2, <1>5, <1>6

(* The first reservation starts the attempt. *)
LEMMA BegunKeeps ==
  ASSUME IInv, TypeOK', NEW r \in Requests, Reserve(r), Begun(r)
  PROVE  (\A k \in Keys : KeySafe(k)') /\ \A s \in Requests : ReqSafe(s)'
<1>1. TypeOK /\ up /\ req[r].pc = "reserving" /\ UNCHANGED <<up, told, answers, admitted>>
  BY ReserveMoves DEF IInv
<1>0. req[r] \in Named /\ req[r].key \in Keys  BY <1>1, OnItsWay, Moved
<1>2. PICK k \in Keys : k = req[r].key  BY <1>0
<1>3. /\ record'[k] = [state |-> "reserved", hash |-> req[r].hash]
      /\ \A j \in Keys \ {k} : record'[j] = record[j]
  BY <1>0, <1>1, <1>2, ReservedTyped DEF Begun
<1>4. /\ record[k] = NoRecord /\ record[k].state = "none" /\ k \notin inflight
      /\ calls[k] = 0 /\ answers[k] = "none" /\ admitted[k] = 0 /\ told[k] = "none"
  BY <1>1, <1>2, Known, TypeNamed DEF Begun, IInv, KeySafe
<1>5. /\ inflight' = inflight \cup {k} /\ attempt'[k] = "calling" /\ calls'[k] = 1
      /\ \A j \in Keys \ {k} : attempt'[j] = attempt[j] /\ calls'[j] = calls[j]
  BY <1>1, <1>2, <1>4, TypeNamed DEF Begun
<1>6. /\ req'[r] \in Named /\ req'[r].pc = "joined" /\ req'[r].key = k
      /\ req'[r].hash = req[r].hash /\ req'[r].answer = req[r].answer
      /\ \A s \in Requests \ {r} : req'[s] = req[s]
  <2>1. /\ Turned(r, "joined") \in Named /\ Turned(r, "joined").pc = "joined"
        /\ Turned(r, "joined").answer = req[r].answer
        /\ Turned(r, "joined").key = k /\ Turned(r, "joined").hash = req[r].hash
    BY <1>0, <1>2, TurnedNamed
  <2>2. Put(r, Turned(r, "joined"))  BY DEF Begun
  <2> QED BY <1>1, <2>1, <2>2, PutTyped
<1>7. KeySafe(k)'
  <2>1. record'[k].state = "reserved" /\ record'[k] # NoRecord  BY <1>3 DEF NoRecord
  <2>2. /\ calls'[k] = 1 /\ answers'[k] = "none" /\ admitted'[k] = 0 /\ told'[k] = "none"
        /\ k \in inflight' /\ attempt'[k] = "calling" /\ up'
    BY <1>1, <1>4, <1>5
  <2> QED BY <2>1, <2>2, Words DEF KeySafe
<1>8. ASSUME NEW j \in Keys \ {k} PROVE KeySafe(j)'
  BY <1>1, <1>3, <1>5, <1>8, KeyKept DEF IInv
<1>9. ReqSafe(r)'
  <2>1. req[r].answer \notin Terminal
    BY <1>2, <1>4, Words DEF IInv, ReqSafe
  <2> QED BY <1>3, <1>5, <1>6, <2>1 DEF ReqSafe
<1>10. ASSUME NEW s \in Requests \ {r} PROVE ReqSafe(s)'
  <2>1. ASSUME req[s] \in Named
        PROVE  LET j == req[s].key IN
               KeySafe(j) /\ (\/ record[j] = NoRecord
                              \/ record'[j] = record[j] /\ (j \in inflight' <=> j \in inflight))
    <3>1. req[s].key \in Keys  BY <2>1, Moved
    <3> QED BY <1>3, <1>4, <1>5, <3>1 DEF IInv
  <2> QED BY <1>1, <1>6, <2>1, ReqKept DEF IInv
<1> QED BY <1>2, <1>7, <1>8, <1>9, <1>10

(* A reservation that threw, perhaps after the rename: no attempt. *)
LEMMA ThrownKeeps ==
  ASSUME IInv, TypeOK', NEW r \in Requests, Reserve(r), Thrown(r)
  PROVE  (\A k \in Keys : KeySafe(k)') /\ \A s \in Requests : ReqSafe(s)'
<1>1. /\ TypeOK /\ up /\ req[r].pc = "reserving"
      /\ UNCHANGED <<up, told, answers, admitted, inflight, attempt, calls>>
  BY ReserveMoves DEF IInv, Thrown
<1>0. req[r] \in Named /\ req[r].key \in Keys  BY <1>1, OnItsWay, Moved
<1>2. PICK k \in Keys : k = req[r].key  BY <1>0
<1>3. /\ \/ record'[k] = record[k]
         \/ record[k] = NoRecord /\ record'[k] = [state |-> "reserved", hash |-> req[r].hash]
      /\ \A j \in Keys \ {k} : record'[j] = record[j]
  BY <1>0, <1>1, <1>2, ReservedTyped DEF Thrown
<1>4. req'[r].pc = "done" /\ req'[r].answer = "500" /\ \A s \in Requests \ {r} : req'[s] = req[s]
  <2>1. /\ Ended(r, "500") \in Named /\ Ended(r, "500").pc = "done"
        /\ Ended(r, "500").answer = "500"
    BY <1>0, <1>2, EndedNamed, Words
  <2>2. Put(r, Ended(r, "500"))  BY DEF Thrown
  <2> QED BY <1>1, <2>1, <2>2, PutTyped
<1>5. KeySafe(k)'
  <2>1. CASE record'[k] = record[k]
    BY <1>1, <1>2, <2>1, KeyKept DEF IInv
  <2>2. CASE record[k] = NoRecord /\ record'[k] = [state |-> "reserved", hash |-> req[r].hash]
    <3>1. record'[k].state = "reserved" /\ record'[k] # NoRecord
      BY <2>2 DEF NoRecord
    <3>2. /\ k \notin inflight /\ calls[k] = 0 /\ answers[k] = "none" /\ admitted[k] = 0
          /\ attempt[k] = "none" /\ told[k] = "none"
      BY <1>1, <1>2, <2>2, TypeNamed DEF IInv, KeySafe
    <3>3. /\ k \notin inflight' /\ calls'[k] = 0 /\ answers'[k] = "none" /\ admitted'[k] = 0
          /\ attempt'[k] = "none" /\ told'[k] = "none"
      BY <1>1, <3>2
    <3> QED BY <3>1, <3>3, Words DEF KeySafe
  <2> QED BY <1>3, <2>1, <2>2
<1>6. ASSUME NEW j \in Keys \ {k} PROVE KeySafe(j)'
  BY <1>1, <1>3, <1>6, KeyKept DEF IInv
<1>7. ReqSafe(r)'
  BY <1>4, Words DEF ReqSafe
<1>8. ASSUME NEW s \in Requests \ {r} PROVE ReqSafe(s)'
  <2>1. ASSUME req[s] \in Named
        PROVE  LET j == req[s].key IN
               /\ KeySafe(j) /\ (j \in inflight' <=> j \in inflight)
               /\ record[j] = NoRecord \/ record'[j] = record[j]
    <3>1. req[s].key \in Keys  BY <2>1, Moved
    <3> QED BY <1>1, <1>3, <3>1 DEF IInv
  <2> QED BY <1>1, <1>4, <2>1, ReqKept DEF IInv
<1> QED BY <1>2, <1>5, <1>6, <1>7, <1>8

(* A repeated request: a conflict, the recorded outcome, the attempt that  *)
(* is in flight, or a record without one.                                  *)
LEMMA RepeatedKeeps ==
  ASSUME IInv, TypeOK', NEW r \in Requests, Reserve(r), Repeated(r)
  PROVE  (\A k \in Keys : KeySafe(k)') /\ \A s \in Requests : ReqSafe(s)'
<1>1. /\ TypeOK /\ req[r].pc = "reserving"
      /\ UNCHANGED <<up, record, told, answers, admitted, inflight, attempt, calls>>
  BY ReserveMoves DEF IInv, Repeated
<1>0. req[r] \in Named /\ req[r].key \in Keys  BY <1>1, OnItsWay, Moved
<1>2. PICK k \in Keys : k = req[r].key  BY <1>0
<1>3. PICK n \in Named :
        /\ Put(r, n) /\ n.key = k /\ n.hash = req[r].hash
        /\ \/ n.pc = "done" /\ n.answer = "conflict"
           \/ /\ record[k].hash = n.hash
              /\ \/ n.pc = "done" /\ record[k].state \in Terminal /\ n.answer = record[k].state
                 \/ n.pc = "joined" /\ n.answer = req[r].answer /\ k \in inflight
                 \/ /\ n.pc = "unresolved" /\ n.answer = req[r].answer /\ k \notin inflight
                    /\ record[k].state \notin Terminal
  <2>1. CASE Put(r, Ended(r, "conflict"))
    <3>1. "conflict" \in Answers  BY Words
    <3> QED BY <1>0, <1>2, <2>1, <3>1, EndedNamed
  <2>2. CASE /\ record[k].hash = req[r].hash /\ record[k].state \in Terminal
             /\ Put(r, Ended(r, record[k].state))
    <3>1. record[k].state \in Answers  BY <2>2, Words
    <3> QED BY <1>0, <1>2, <2>2, <3>1, EndedNamed
  <2>3. CASE record[k].hash = req[r].hash /\ k \in inflight /\ Put(r, Turned(r, "joined"))
    BY <1>0, <1>2, <2>3, TurnedNamed
  <2>4. CASE /\ record[k].hash = req[r].hash /\ k \notin inflight /\ record[k].state \notin Terminal
             /\ Put(r, Turned(r, "unresolved"))
    BY <1>0, <1>2, <2>4, TurnedNamed
  <2> QED BY <1>2, <2>1, <2>2, <2>3, <2>4 DEF Repeated
<1>4. req'[r] = n /\ \A s \in Requests \ {r} : req'[s] = req[s]
  BY <1>1, <1>3, PutTyped
<1>5. ASSUME NEW j \in Keys PROVE KeySafe(j)'
  BY <1>1, KeyKept DEF IInv
<1>6. ReqSafe(r)'
  <2>1. record'[k] = record[k] /\ inflight' = inflight /\ record[k].state \in States
    <3>1. record[k] # NoRecord  BY <1>2 DEF Repeated
    <3> QED BY <1>1, <3>1, Known
  <2>2. req[r].answer \in Terminal => record[k].state = req[r].answer /\ record[k].hash = req[r].hash
    BY <1>2 DEF IInv, ReqSafe
  <2>3. n.pc = "joined" => k \in inflight /\ record[k].hash = n.hash
    BY <1>3
  <2>4. n.pc = "unresolved" =>
          /\ k \notin inflight /\ record[k].hash = n.hash
          /\ record[k].state \in {"reserved", "outcome_unknown"}
    BY <1>3, <2>1, Words
  <2>5. n.answer \in Terminal => record[k].state = n.answer /\ record[k].hash = n.hash
    BY <1>3, <2>2, Words
  <2> QED BY <1>3, <1>4, <2>1, <2>3, <2>4, <2>5 DEF ReqSafe
<1>7. ASSUME NEW s \in Requests \ {r} PROVE ReqSafe(s)'
  BY <1>1, <1>4, ReqStays DEF IInv
<1> QED BY <1>5, <1>6, <1>7

(* A record without an attempt is settled as unknown: its attempt, if there *)
(* was one, is over, and none can start while the record is there.         *)
LEMMA SettleUnresolvedKeeps ==
  ASSUME IInv, TypeOK', NEW r \in Requests, SettleUnresolved(r)
  PROVE  (\A k \in Keys : KeySafe(k)') /\ \A s \in Requests : ReqSafe(s)'
<1>1. /\ TypeOK /\ req[r].pc = "unresolved"
      /\ UNCHANGED <<up, told, answers, admitted, inflight, attempt, calls>>
  BY SettleUnresolvedMoves DEF IInv
<1>0. req[r] \in Named /\ req[r].key \in Keys  BY <1>1, OnItsWay, Moved
<1>2. PICK k \in Keys : k = req[r].key  BY <1>0
<1>3. /\ k \notin inflight /\ record[k].hash = req[r].hash
      /\ record[k].state \in {"reserved", "outcome_unknown"}
  BY <1>1, <1>2 DEF IInv, ReqSafe
<1>4. /\ \A j \in Keys \ {k} : record'[j] = record[j]
      /\ \/ record'[k] = record[k]
         \/ /\ record[k].state = "reserved" /\ record'[k].state = "outcome_unknown"
            /\ record'[k].hash = record[k].hash
  BY <1>1, <1>2, SettleUnresolvedMoves, SettledTyped, Words
<1>5. /\ \A s \in Requests \ {r} : req'[s] = req[s]
      /\ req'[r] \in Named /\ req'[r].pc = "done" /\ req'[r].key = k /\ req'[r].hash = req[r].hash
      /\ \/ req'[r].answer = "500"
         \/ req'[r].answer = "outcome_unknown" /\ record' = Settled(k, "outcome_unknown")
  <2>1. "500" \in Answers /\ "outcome_unknown" \in Answers  BY Words
  <2>2. Ended(r, "500") \in Named /\ Ended(r, "outcome_unknown") \in Named
    BY <1>0, <2>1, EndedNamed
  <2>3. \/ Put(r, Ended(r, "500"))
        \/ Put(r, Ended(r, "outcome_unknown")) /\ record' = Settled(k, "outcome_unknown")
    BY <1>2, SettleUnresolvedMoves
  <2> QED BY <1>0, <1>1, <1>2, <2>1, <2>2, <2>3, PutTyped, EndedNamed
<1>6. KeySafe(k)'
  <2>1. CASE record'[k] = record[k]
    BY <1>1, <2>1, KeyKept DEF IInv
  <2>2. CASE record'[k].state = "outcome_unknown"
    <3>1. record'[k] # NoRecord  BY <2>2 DEF NoRecord
    <3>2. KeySafe(k) /\ attempt[k] = "none" /\ told[k] = "none"
      BY <1>1, <1>3, TypeNamed DEF IInv, KeySafe
    <3> QED BY <1>1, <1>3, <2>2, <3>1, <3>2, Words DEF KeySafe
  <2> QED BY <1>4, <2>1, <2>2
<1>7. ASSUME NEW j \in Keys \ {k} PROVE KeySafe(j)'
  BY <1>1, <1>4, <1>7, KeyKept DEF IInv
<1>8. ReqSafe(r)'
  <2>1. CASE req'[r].answer = "500"
    BY <1>5, <2>1, Words DEF ReqSafe
  <2>2. CASE req'[r].answer = "outcome_unknown" /\ record' = Settled(k, "outcome_unknown")
    <3>1. record'[k].state = "outcome_unknown" /\ record'[k].hash = req[r].hash
      BY <1>1, <1>3, <2>2, SettledTyped, Words
    <3> QED BY <1>5, <2>2, <3>1 DEF ReqSafe
  <2> QED BY <1>5, <2>1, <2>2
<1>9. ASSUME NEW s \in Requests \ {r} PROVE ReqSafe(s)'
  <2>1. ASSUME req[s] \in Named
        PROVE  LET j == req[s].key IN
               /\ KeySafe(j) /\ (j \in inflight' <=> j \in inflight)
               /\ \/ record'[j] = record[j]
                  \/ /\ record[j].state = "reserved" /\ record'[j].hash = record[j].hash
                     /\ record'[j].state = "outcome_unknown"
    <3>1. req[s].key \in Keys  BY <2>1, Moved
    <3> QED BY <1>1, <1>4, <3>1 DEF IInv
  <2> QED BY <1>1, <1>5, <2>1, ReqKept DEF IInv
<1> QED BY <1>6, <1>7, <1>8, <1>9

LEMMA RouterAnswersKeeps ==
  ASSUME IInv, TypeOK', NEW k \in Keys, RouterAnswers(k)
  PROVE  (\A j \in Keys : KeySafe(j)') /\ \A s \in Requests : ReqSafe(s)'
<1>1. /\ TypeOK /\ UNCHANGED <<up, record, req, told, inflight, attempt, calls>>
      /\ calls[k] > 0 /\ answers[k] = "none"
  BY DEF IInv, RouterAnswers
<1>2. PICK a \in {"accepted", "proven", "error"}, in \in {0, 1} :
        /\ a = "accepted" => in = 1
        /\ a = "proven" => in = 0
        /\ admitted' = [admitted EXCEPT ![k] = @ + in]
        /\ answers' = [answers EXCEPT ![k] = a]
  BY DEF RouterAnswers
<1>3. KeySafe(k) /\ admitted[k] = 0  BY <1>1 DEF IInv, KeySafe
<1>4. /\ admitted'[k] = in /\ answers'[k] = a
      /\ \A j \in Keys \ {k} : admitted'[j] = admitted[j] /\ answers'[j] = answers[j]
  BY <1>1, <1>2, <1>3, TypeNamed
<1>5. KeySafe(k)'
  BY <1>1, <1>2, <1>3, <1>4 DEF KeySafe
<1>6. ASSUME NEW j \in Keys \ {k} PROVE KeySafe(j)'
  BY <1>1, <1>4, <1>6, KeyKept DEF IInv
<1>7. ASSUME NEW s \in Requests PROVE ReqSafe(s)'
  BY <1>1, ReqStays DEF IInv
<1> QED BY <1>5, <1>6, <1>7

LEMMA AttemptEndsKeeps ==
  ASSUME IInv, TypeOK', NEW k \in Keys, AttemptEnds(k)
  PROVE  (\A j \in Keys : KeySafe(j)') /\ \A s \in Requests : ReqSafe(s)'
<1>1. /\ TypeOK /\ UNCHANGED <<up, record, req, told, inflight, answers, admitted, calls>>
      /\ attempt[k] = "calling" /\ attempt' = [attempt EXCEPT ![k] = Outcome(k)]
  BY DEF IInv, AttemptEnds
<1>2. KeySafe(k) /\ answers[k] \in {"none", "accepted", "proven", "error"}
  BY <1>1, TypeNamed DEF IInv, KeySafe
<1>3. /\ Outcome(k) \in Terminal
      /\ Outcome(k) = "delivered" => answers[k] = "accepted"
      /\ Outcome(k) = "failed_no_admission" => answers[k] = "proven"
  BY <1>2, Words DEF Outcome
<1>4. attempt'[k] = Outcome(k) /\ \A j \in Keys \ {k} : attempt'[j] = attempt[j]
  BY <1>1, TypeNamed
<1>5. KeySafe(k)'
  BY <1>1, <1>2, <1>3, <1>4, Words DEF KeySafe
<1>6. ASSUME NEW j \in Keys \ {k} PROVE KeySafe(j)'
  BY <1>1, <1>4, <1>6, KeyKept DEF IInv
<1>7. ASSUME NEW s \in Requests PROVE ReqSafe(s)'
  BY <1>1, ReqStays DEF IInv
<1> QED BY <1>5, <1>6, <1>7

(* The attempt settles its record: reserved until now, as only this        *)
(* attempt, and no request that found no attempt, can have settled it.     *)
LEMMA SettleKeeps ==
  ASSUME IInv, TypeOK', NEW k \in Keys, Settle(k)
  PROVE  (\A j \in Keys : KeySafe(j)') /\ \A s \in Requests : ReqSafe(s)'
<1>1. /\ TypeOK /\ UNCHANGED <<up, req, inflight, attempt, answers, admitted, calls>>
      /\ attempt[k] \in Terminal /\ told[k] = "none"
  BY SettleMoves DEF IInv
<1>2. /\ KeySafe(k) /\ k \in inflight /\ record[k].state = "reserved" /\ calls[k] = 1
  BY <1>1, Words DEF IInv, KeySafe
<1>3. /\ \A j \in Keys \ {k} : record'[j] = record[j] /\ told'[j] = told[j]
      /\ \/ /\ record'[k].state = attempt[k] /\ record'[k].hash = record[k].hash
            /\ told'[k] \in {attempt[k], "500"}
         \/ record'[k] = record[k] /\ told'[k] = "500"
  <2>1. /\ \A j \in Keys \ {k} : Settled(k, attempt[k])[j] = record[j]
        /\ Settled(k, attempt[k])[k].state = attempt[k]
        /\ Settled(k, attempt[k])[k].hash = record[k].hash
    BY <1>1, <1>2, SettledTyped
  <2> QED BY <1>1, <2>1, SettleMoves, TypeNamed
<1>4. KeySafe(k)'
  <2>1. record'[k] # NoRecord  BY <1>1, <1>2, <1>3, Words DEF NoRecord
  <2>2. /\ told'[k] # "none"
        /\ told'[k] \in Terminal => record'[k].state = told'[k]
        /\ record'[k].state \in {"reserved", attempt[k]}
    BY <1>1, <1>2, <1>3, Words
  <2>3. /\ attempt'[k] = attempt[k] /\ attempt[k] # "none" /\ answers'[k] = answers[k]
        /\ calls'[k] = calls[k] /\ admitted'[k] = admitted[k] /\ inflight' = inflight /\ up' = up
    BY <1>1, Words
  <2>4. /\ "delivered" \in {record'[k].state, attempt'[k]} => answers'[k] = "accepted"
        /\ "failed_no_admission" \in {record'[k].state, attempt'[k]} => answers'[k] = "proven"
    BY <2>2, <2>3, <1>2 DEF KeySafe
  <2> QED BY <1>2, <2>1, <2>2, <2>3, <2>4 DEF KeySafe
<1>5. ASSUME NEW j \in Keys \ {k} PROVE KeySafe(j)'
  BY <1>1, <1>3, <1>5, KeyKept DEF IInv
<1>6. ASSUME NEW s \in Requests PROVE ReqSafe(s)'
  <2>1. ASSUME req[s] \in Named
        PROVE  LET j == req[s].key IN
               /\ KeySafe(j) /\ (j \in inflight' <=> j \in inflight)
               /\ \/ record'[j] = record[j]
                  \/ /\ record[j].state = "reserved" /\ record'[j].hash = record[j].hash
                     /\ j \in inflight
    <3>1. req[s].key \in Keys  BY <2>1, Moved
    <3> QED BY <1>1, <1>2, <1>3, <3>1 DEF IInv
  <2> QED BY <1>1, <2>1, ReqKept DEF IInv
<1> QED BY <1>4, <1>5, <1>6

(* Whoever joined the attempt is answered what it came to. *)
LEMMA ResolveKeeps ==
  ASSUME IInv, TypeOK', NEW k \in Keys, Resolve(k)
  PROVE  (\A j \in Keys : KeySafe(j)') /\ \A s \in Requests : ReqSafe(s)'
<1>1. /\ TypeOK /\ UNCHANGED <<up, record, answers, admitted, calls>> /\ told[k] # "none"
      /\ inflight' = inflight \ {k}
      /\ attempt'[k] = "none" /\ told'[k] = "none"
      /\ \A j \in Keys \ {k} : attempt'[j] = attempt[j] /\ told'[j] = told[j]
  BY TypeNamed DEF IInv, Resolve
<1>2. KeySafe(k) /\ told[k] \in Answers
  BY <1>1, TypeNamed, Words DEF IInv
<1>3. KeySafe(k)'
  BY <1>1, <1>2, Words DEF KeySafe
<1>4. ASSUME NEW j \in Keys \ {k} PROVE KeySafe(j)'
  BY <1>1, <1>4, KeyKept DEF IInv
<1>5. ASSUME NEW s \in Requests PROVE ReqSafe(s)'
  <2>1. ReqSafe(s)  BY DEF IInv
  <2>2. CASE req[s].pc = "joined" /\ req[s].key = k
    <3> DEFINE n == [req[s] EXCEPT !.pc = "done", !.answer = told[k]]
    <3>1. req[s] \in Named  BY <1>1, <2>2, OnItsWay
    <3>2. /\ n \in Named /\ n.pc = "done" /\ n.answer = told[k]
          /\ n.key = k /\ n.hash = req[s].hash
      BY <1>2, <2>2, <3>1 DEF Named
    <3>3. req'[s] = n  BY <2>2 DEF Resolve
    <3> HIDE DEF n
    <3>4. /\ record'[k].hash = req[s].hash
          /\ told[k] \in Terminal => record'[k].state = told[k]
      BY <1>1, <1>2, <2>1, <2>2 DEF ReqSafe, KeySafe
    <3> QED BY <3>2, <3>3, <3>4 DEF ReqSafe
  <2>3. CASE ~(req[s].pc = "joined" /\ req[s].key = k)
    <3>1. req'[s] = req[s]  BY <2>3 DEF Resolve
    <3> QED BY <1>1, <2>1, <2>3, <3>1 DEF ReqSafe
  <2> QED BY <2>2, <2>3
<1> QED BY <1>3, <1>4, <1>5

(* A dropped record takes its history along; nobody waits for it. *)
LEMMA SweepKeeps ==
  ASSUME IInv, TypeOK', Sweep
  PROVE  (\A j \in Keys : KeySafe(j)') /\ \A s \in Requests : ReqSafe(s)'
<1>1. TypeOK /\ UNCHANGED <<up, inflight, attempt, told>>
  BY SweepMoves DEF IInv
<1>2. PICK G \in SUBSET Keys :
        /\ \A k \in G : record[k].state \in Terminal /\ ~Awaited(k)
        /\ record' = [k \in Keys |-> IF k \in G THEN NoRecord ELSE record[k]]
        /\ calls' = [k \in Keys |-> IF k \in G THEN 0 ELSE calls[k]]
        /\ admitted' = [k \in Keys |-> IF k \in G THEN 0 ELSE admitted[k]]
        /\ answers' = [k \in Keys |-> IF k \in G THEN "none" ELSE answers[k]]
        /\ req' = [r \in Requests |->
             IF req[r].answer \in Terminal /\ req[r].key \in G
             THEN [req[r] EXCEPT !.answer = "expired"] ELSE req[r]]
  BY <1>1, SweepMoves
<1>3. ASSUME NEW k \in G PROVE k \notin inflight /\ attempt[k] = "none" /\ told[k] = "none"
  <2>1. k \in Keys /\ told[k] = "none" /\ record[k].state # "reserved"
    BY <1>2, Words DEF Awaited
  <2> QED BY <2>1 DEF IInv, KeySafe
<1>4. ASSUME NEW k \in Keys PROVE KeySafe(k)'
  <2>1. CASE k \in G
    <3>1. /\ record'[k] = NoRecord /\ record'[k].state = "none" /\ calls'[k] = 0
          /\ admitted'[k] = 0 /\ answers'[k] = "none"
      BY <1>2, <2>1 DEF NoRecord
    <3>2. k \notin inflight' /\ attempt'[k] = "none" /\ told'[k] = "none"
      BY <1>1, <1>3, <2>1
    <3> QED BY <3>1, <3>2, Words DEF KeySafe
  <2>2. CASE k \notin G
    <3>1. /\ record'[k] = record[k] /\ calls'[k] = calls[k]
          /\ admitted'[k] = admitted[k] /\ answers'[k] = answers[k]
      BY <1>2, <2>2
    <3> QED BY <1>1, <3>1, KeyKept DEF IInv
  <2> QED BY <2>1, <2>2
<1>5. ASSUME NEW s \in Requests PROVE ReqSafe(s)'
  <2>1. ReqSafe(s)  BY DEF IInv
  <2>2. CASE req[s].answer \in Terminal /\ req[s].key \in G
    <3> DEFINE n == [req[s] EXCEPT !.answer = "expired"]
    <3>1. req[s] \in Named  BY <1>1, <2>2, OnItsWay
    <3>2. n.pc = req[s].pc /\ n.answer = "expired" /\ n.key = req[s].key
      BY <3>1 DEF Named
    <3>3. req'[s] = n  BY <1>2, <2>2
    <3> HIDE DEF n
    <3>4. n.pc # "joined"
      BY <1>3, <2>1, <2>2, <3>2 DEF ReqSafe
    <3>5. n.pc # "unresolved"
      BY <1>2, <2>2, <3>2 DEF Awaited
    <3> QED BY <3>2, <3>3, <3>4, <3>5, Words DEF ReqSafe
  <2>3. CASE ~(req[s].answer \in Terminal /\ req[s].key \in G)
    <3>1. req'[s] = req[s]  BY <1>2, <2>3
    <3>2. CASE req[s] \notin Named
      BY <1>1, <2>1, <3>1, <3>2, OnItsWay DEF ReqSafe
    <3>3. CASE req[s] \in Named
      <4>1. req[s].key \in Keys  BY <3>3, Moved
      <4>2. req[s].key \in G => req[s].pc \notin {"joined", "unresolved"}
        BY <1>2, <1>3, <2>1 DEF ReqSafe, Awaited
      <4>3. req[s].key \notin G => record'[req[s].key] = record[req[s].key]
        BY <1>2, <4>1
      <4> QED BY <1>1, <2>1, <2>3, <3>1, <4>2, <4>3 DEF ReqSafe
    <3> QED BY <3>2, <3>3
  <2> QED BY <2>2, <2>3
<1> QED BY <1>4, <1>5

(* A crash ends every attempt; the Router may have admitted a call that    *)
(* was not answered.                                                       *)
LEMMA CrashKeeps ==
  ASSUME IInv, TypeOK', Crash
  PROVE  (\A j \in Keys : KeySafe(j)') /\ \A s \in Requests : ReqSafe(s)'
<1>1. TypeOK /\ UNCHANGED <<record, calls>> /\ inflight' = {}
  BY DEF IInv, Crash
<1>2. ASSUME NEW k \in Keys PROVE KeySafe(k)'
  <2>1. KeySafe(k)  BY DEF IInv
  <2>2. attempt'[k] = "none" /\ told'[k] = "none"  BY DEF Crash
  <2>3. CASE calls[k] > 0 /\ answers[k] = "none"
    <3>1. admitted'[k] \in {0, 1} /\ answers'[k] = "lost"
      BY <2>1, <2>3 DEF Crash, KeySafe
    <3> QED BY <1>1, <2>1, <2>2, <2>3, <3>1, Words DEF KeySafe
  <2>4. CASE ~(calls[k] > 0 /\ answers[k] = "none")
    <3>1. admitted'[k] = admitted[k] /\ answers'[k] = answers[k]
      BY <2>4 DEF Crash
    <3> QED BY <1>1, <2>1, <2>2, <3>1, Words DEF KeySafe
  <2> QED BY <2>3, <2>4
<1>3. ASSUME NEW s \in Requests PROVE ReqSafe(s)'
  <2>1. ReqSafe(s)  BY DEF IInv
  <2>2. CASE req[s].pc \in {"idle", "done"}
    <3>1. req'[s] = req[s]  BY <2>2 DEF Crash
    <3> QED BY <1>1, <2>1, <2>2, <3>1 DEF ReqSafe
  <2>3. CASE req[s].pc \notin {"idle", "done"}
    <3> DEFINE n == [req[s] EXCEPT !.pc = "lost"]
    <3>1. req[s] \in Named  BY <1>1, <2>3, Typed DEF Unnamed
    <3>2. /\ n \in Named /\ n.pc = "lost" /\ n.answer = req[s].answer
          /\ n.key = req[s].key /\ n.hash = req[s].hash
      BY <3>1 DEF Named
    <3>3. req'[s] = n  BY <2>3 DEF Crash
    <3> HIDE DEF n
    <3> QED BY <1>1, <2>1, <3>2, <3>3 DEF ReqSafe
  <2> QED BY <2>2, <2>3
<1> QED BY <1>2, <1>3

(* What was in flight when the process died is unknown. *)
LEMMA BootKeeps ==
  ASSUME IInv, TypeOK', Boot
  PROVE  (\A j \in Keys : KeySafe(j)') /\ \A s \in Requests : ReqSafe(s)'
<1>1. /\ TypeOK /\ UNCHANGED <<req, inflight, attempt, told, answers, calls, admitted>>
  BY DEF IInv, Boot
<1>2. ASSUME NEW k \in Keys
      PROVE  \/ record'[k] = record[k]
             \/ /\ record[k].state = "reserved" /\ record'[k].state = "outcome_unknown"
                /\ record'[k].hash = record[k].hash
  <2>1. record'[k] = Migrated(k)  BY DEF Boot
  <2>2. CASE record[k].state # "reserved"
    BY <2>1, <2>2 DEF Migrated
  <2>3. CASE record[k].state = "reserved"
    <3>1. record[k] \in Recorded  BY <1>1, <2>3, Known, Words
    <3> QED BY <2>1, <2>3, <3>1 DEF Migrated, Recorded
  <2> QED BY <2>2, <2>3
<1>3. ASSUME NEW k \in Keys PROVE k \notin inflight /\ attempt[k] = "none" /\ told[k] = "none"
  BY DEF IInv, KeySafe, Boot
<1>4. ASSUME NEW k \in Keys PROVE KeySafe(k)'
  <2>1. KeySafe(k) /\ k \notin inflight /\ attempt[k] = "none" /\ told[k] = "none"
    BY <1>3 DEF IInv
  <2>2. CASE record'[k] = record[k]
    BY <1>1, <2>1, <2>2 DEF KeySafe
  <2>3. CASE record'[k].state = "outcome_unknown"
    <3>1. record'[k] # NoRecord  BY <2>3 DEF NoRecord
    <3> QED BY <1>1, <2>1, <2>3, <3>1, Words DEF KeySafe
  <2> QED BY <1>2, <2>2, <2>3
<1>5. ASSUME NEW s \in Requests PROVE ReqSafe(s)'
  <2>1. ASSUME req[s] \in Named
        PROVE  LET j == req[s].key IN
               /\ KeySafe(j) /\ (j \in inflight' <=> j \in inflight)
               /\ \/ record'[j] = record[j]
                  \/ /\ record[j].state = "reserved" /\ record'[j].hash = record[j].hash
                     /\ record'[j].state = "outcome_unknown"
    <3>1. req[s].key \in Keys  BY <2>1, Moved
    <3> QED BY <1>1, <1>2, <3>1 DEF IInv
  <2>2. req'[s] = req[s] /\ ReqSafe(s)  BY <1>1 DEF IInv
  <2> QED BY <1>1, <2>1, <2>2, ReqKept
<1> QED BY <1>4, <1>5

LEMMA InvNext == IInv /\ [Next]_vars => IInv'
<1> SUFFICES ASSUME IInv, [Next]_vars PROVE IInv'
  OBVIOUS
<1>1. TypeOK /\ TypeOK'  BY TypeStep DEF IInv
<1>2. (\A k \in Keys : KeySafe(k)') /\ \A s \in Requests : ReqSafe(s)'
  <2>1. ASSUME NEW r \in Requests, Reserve(r)
        PROVE  (\A k \in Keys : KeySafe(k)') /\ \A s \in Requests : ReqSafe(s)'
    BY <1>1, <2>1, ReserveMoves, BegunKeeps, ThrownKeeps, RepeatedKeeps
  <2>2. ASSUME UNCHANGED vars
        PROVE  (\A k \in Keys : KeySafe(k)') /\ \A s \in Requests : ReqSafe(s)'
    <3>1. UNCHANGED <<up, record, req, inflight, attempt, told, answers, calls, admitted>>
      BY <2>2 DEF vars
    <3> QED BY <1>1, <3>1, KeyKept, ReqStays DEF IInv
  <2> QED
    BY <1>1, <2>1, <2>2, ArriveKeeps, SettleUnresolvedKeeps, RouterAnswersKeeps,
       AttemptEndsKeeps, SettleKeeps, ResolveKeeps, SweepKeeps, CrashKeeps, BootKeeps DEF Next
<1> QED BY <1>1, <1>2 DEF IInv

LEMMA Invariant == Spec => []IInv
<1> QED BY InvInit, InvNext, PTL DEF Spec

-----------------------------------------------------------------------------
(* The records, the requests, the attempts and the answers stay in their   *)
(* sets: requests named or turned away, records reserved or settled        *)
(* (idempotency-record.js); and an attempt always comes to an outcome.     *)
THEOREM TypeCorrect == Spec => []TypeOK
<1>1. IInv => TypeOK  BY DEF IInv
<1> QED BY <1>1, Invariant, PTL

(* Concurrent requests, retries, failed writes and restarts never make the *)
(* Router deliver a recorded notification twice; the record tells the      *)
(* truth about admission; and two requests for one delivery are never told *)
(* two outcomes (deliver-handler.js, idempotency.js).                      *)
THEOREM IngressCorrect == Spec => []IngressSafe
<1>1. IInv => DeliveredAtMostOnce
  BY DEF IInv, KeySafe, DeliveredAtMostOnce
<1>2. IInv => RecordTruth
  BY DEF IInv, KeySafe, RecordTruth
<1>3. IInv => AnswersAgree
  BY DEF IInv, ReqSafe, AnswersAgree
<1>4. IInv => IngressSafe
  BY <1>1, <1>2, <1>3 DEF IngressSafe
<1> QED BY <1>4, Invariant, PTL

-----------------------------------------------------------------------------
(* Credential provisioning: a theory of its own, about one agent. *)
CONSTANTS Ops, Overlap, OpFaults
VARIABLES db, store, bak, lock, receipts, op, fresh, applied, rolled, opFaults, lost

CP == INSTANCE CredentialProvisioning WITH MaxFaults <- OpFaults, faults <- opFaults

(* Operations are finitely many processes; none is called like a state of *)
(* the lock.                                                               *)
OperationAssumption == IsFiniteSet(Ops) /\ "free" \notin Ops /\ "stale" \notin Ops

Rotating == {"apply", "swap", "rollback", "restore", "readStore", "verify", "unverified"}

Secrets(n) == [secret : 1..n, salt : 1..n]

(* The local states of an operation while n secrets have been generated. *)
Steps(n) ==
  [pc : {"idle", "client", "done"}]
    \cup [pc : {"write"}, secret : 1..n]
    \cup [pc : {"gate"}, hash : Secrets(n), split : BOOLEAN]
    \cup [pc : Rotating, id : CP!Ids, new : 1..n, split : BOOLEAN]

(* Operations that have generated a secret, or never will. *)
Early == {"idle", "client", "gate"}
Spent == {o \in Ops : op[o].pc \notin Early}

ProvisioningTyped ==
  /\ fresh \in Nat /\ fresh <= 1 + Cardinality(Spent)
  /\ db = CP!NoHash \/ db \in Secrets(fresh)
  /\ store \in 0..fresh
  /\ bak \in [CP!Ids -> 0..fresh]
  /\ lock \in Ops \cup {"free", "stale"}
  /\ op \in [Ops -> Steps(fresh)]
  /\ \A o \in Ops : op[o].pc \in {"gate"} \cup Rotating => db # CP!NoHash
  /\ receipts \in Seq([id : CP!Ids, outcome : CP!Outcomes])

LEMMA StepShape ==
  ASSUME NEW n \in Nat, NEW s \in Steps(n)
  PROVE  /\ s.pc \in {"idle", "client", "done", "write", "gate"} \cup Rotating
         /\ s.pc = "idle" => s = CP!Idle
         /\ s.pc = "write" => s.secret \in 1..n
         /\ s.pc = "gate" => s.hash \in Secrets(n) /\ s.split \in BOOLEAN
         /\ s.pc \in Rotating => /\ s.id \in CP!Ids /\ s.new \in 1..n /\ s.split \in BOOLEAN
                                 /\ s = [pc |-> s.pc, id |-> s.id, new |-> s.new, split |-> s.split]
BY DEF Steps, Rotating, CP!Idle

LEMMA SecretsAreSome == ASSUME NEW n \in Nat, NEW h \in Secrets(n) PROVE h # CP!NoHash
BY DEF Secrets, CP!NoHash

LEMMA StepsGrow == ASSUME NEW n \in Nat, NEW m \in Nat, n <= m PROVE Steps(n) \subseteq Steps(m)
<1>1. 1..n \subseteq 1..m
  OBVIOUS
<1> QED BY <1>1 DEF Steps, Secrets

(* There are no more secrets than operations, and the one at the start. *)
LEMMA SecretsAreFew ==
  ASSUME OperationAssumption, ProvisioningTyped
  PROVE  /\ fresh <= Cardinality(Ops) + 1 /\ Cardinality(Ops) \in Nat
         /\ \A h \in Secrets(fresh) : CP!Id(h) \in CP!Ids
<1>1. Spent \subseteq Ops /\ IsFiniteSet(Ops)
  BY DEF Spent, OperationAssumption
<1>2. Cardinality(Spent) <= Cardinality(Ops) /\ Cardinality(Spent) \in Nat /\ Cardinality(Ops) \in Nat
  BY <1>1, FS_Subset, FS_CardinalityType
<1>3. fresh \in Nat /\ fresh <= Cardinality(Ops) + 1
  BY <1>2 DEF ProvisioningTyped
<1>4. 1..fresh \subseteq 0..Cardinality(Ops) + 1
  BY <1>2, <1>3
<1>5. ASSUME NEW h \in Secrets(fresh) PROVE CP!Id(h) \in CP!Ids
  <2>1. h.secret \in 1..fresh /\ h.salt \in 1..fresh
    BY DEF Secrets
  <2> DEFINE A == 0..(Cardinality(Ops) + 1)
  <2>2. h.secret \in A /\ h.salt \in A
    BY <1>4, <2>1
  <2>3. CP!Ids = A \X A
    BY Zenon DEF CP!Ids, CP!Cardinality, Cardinality
  <2> HIDE DEF A
  <2> QED BY <2>2, <2>3 DEF CP!Id
<1> QED BY <1>2, <1>3, <1>5

(* What one step of one operation may do to the types. *)
LEMMA TypesKept ==
  ASSUME OperationAssumption, ProvisioningTyped, NEW o \in Ops, NEW s \in Steps(fresh'), CP!Goto(o, s),
         \/ fresh' = fresh
         \/ fresh' = fresh + 1 /\ op[o].pc \in Early,
         fresh' # fresh \/ op[o].pc \notin Early => s.pc \notin Early,
         db' = CP!NoHash \/ db' \in Secrets(fresh'), store' \in 0..fresh',
         db # CP!NoHash \/ s.pc \in {"gate"} \cup Rotating => db' # CP!NoHash,
         bak' = bak \/ \E i \in CP!Ids, v \in 0..fresh' : bak' = [bak EXCEPT ![i] = v],
         lock' \in Ops \cup {"free", "stale"},
         \/ receipts' = receipts
         \/ \E r \in [id : CP!Ids, outcome : CP!Outcomes] : receipts' = Append(receipts, r)
  PROVE  ProvisioningTyped'
<1>1. fresh \in Nat /\ fresh' \in Nat /\ fresh <= fresh'
  BY DEF ProvisioningTyped
<1>2. /\ op' \in [Ops -> Steps(fresh')] /\ op'[o] = s /\ \A p \in Ops : p # o => op'[p] = op[p]
  <2>1. op' = [op EXCEPT ![o] = s] /\ op \in [Ops -> Steps(fresh)]
    BY DEF CP!Goto, ProvisioningTyped
  <2> QED BY <1>1, <2>1, StepsGrow
<1>3. bak' \in [CP!Ids -> 0..fresh']
  <2>1. 0..fresh \subseteq 0..fresh' /\ bak \in [CP!Ids -> 0..fresh]
    BY <1>1 DEF ProvisioningTyped
  <2>2. bak \in [CP!Ids -> 0..fresh']
    BY <2>1
  <2> QED BY <2>2
<1>4. receipts' \in Seq([id : CP!Ids, outcome : CP!Outcomes])
  <2>1. PICK R : R = [id : CP!Ids, outcome : CP!Outcomes]
    OBVIOUS
  <2>2. receipts \in Seq(R)
    BY <2>1 DEF ProvisioningTyped
  <2>3. receipts' = receipts \/ \E r \in R : receipts' = Append(receipts, r)
    BY <2>1
  <2>4. receipts' \in Seq(R)
    BY <2>2, <2>3, AppendProperties
  <2> QED BY <2>1, <2>4
<1>5. fresh' <= 1 + Cardinality(Spent')
  <2>1. Spent' = {p \in Ops : op'[p].pc \notin Early}
    BY DEF Spent, Early
  <2>2. IsFiniteSet(Spent) /\ IsFiniteSet(Spent')
    <3>1. Spent \subseteq Ops /\ Spent' \subseteq Ops /\ IsFiniteSet(Ops)
      BY <2>1 DEF Spent, OperationAssumption
    <3> QED BY <3>1, FS_Subset
  <2>3. Cardinality(Spent) \in Nat /\ Cardinality(Spent') \in Nat
    BY <2>2, FS_CardinalityType
  <2>4. fresh <= 1 + Cardinality(Spent)
    BY DEF ProvisioningTyped
  <2>5. CASE fresh' = fresh
    <3>1. Spent \subseteq Spent'
      BY <1>2, <2>1 DEF Spent
    <3>2. Cardinality(Spent) <= Cardinality(Spent')
      BY <2>2, <3>1, FS_Subset
    <3> QED BY <1>1, <2>3, <2>4, <2>5, <3>2
  <2>6. CASE fresh' # fresh
    <3>1. fresh' = fresh + 1 /\ o \notin Spent
      BY <2>6 DEF Spent
    <3>2. s.pc \notin Early
      BY <2>6
    <3>3. Spent \cup {o} \subseteq Spent'
      BY <1>2, <2>1, <3>2 DEF Spent
    <3>4. Cardinality(Spent \cup {o}) = Cardinality(Spent) + 1 /\ IsFiniteSet(Spent \cup {o})
      BY <2>2, <3>1, FS_AddElement
    <3>5. Cardinality(Spent \cup {o}) <= Cardinality(Spent')
      BY <2>2, <3>3, FS_Subset
    <3> QED BY <1>1, <2>3, <2>4, <3>1, <3>4, <3>5
  <2> QED BY <2>5, <2>6
<1>6. \A p \in Ops : op'[p].pc \in {"gate"} \cup Rotating => db' # CP!NoHash
  BY <1>2 DEF ProvisioningTyped
<1> QED BY <1>1, <1>2, <1>3, <1>4, <1>5, <1>6 DEF ProvisioningTyped

(* Two shapes of step recur: an operation that ends, and one that goes on  *)
(* to the next part of its plan.                                           *)
LEMMA EndIsStep == ASSUME NEW n \in Nat PROVE [pc |-> "done"] \in Steps(n)
BY DEF Steps

LEMMA NextIsStep ==
  ASSUME NEW n \in Nat, NEW s \in Steps(n), s.pc \in Rotating, NEW p \in Rotating
  PROVE  [s EXCEPT !.pc = p] \in Steps(n) /\ [s EXCEPT !.pc = p].pc = p
         /\ [s EXCEPT !.pc = p].id = s.id /\ [s EXCEPT !.pc = p].new = s.new
         /\ [s EXCEPT !.pc = p].split = s.split
<1>1. s = [pc |-> s.pc, id |-> s.id, new |-> s.new, split |-> s.split]
      /\ s.id \in CP!Ids /\ s.new \in 1..n /\ s.split \in BOOLEAN
  BY StepShape
<1>2. PICK t : t = [s EXCEPT !.pc = p]
  OBVIOUS
<1>3. t = [pc |-> p, id |-> s.id, new |-> s.new, split |-> s.split]
  BY <1>1, <1>2, Zenon
<1>4. t \in [pc : Rotating, id : CP!Ids, new : 1..n, split : BOOLEAN]
  BY <1>1, <1>3
<1>5. t.pc = p /\ t.id = s.id /\ t.new = s.new /\ t.split = s.split
  BY <1>3
<1> QED BY <1>2, <1>4, <1>5 DEF Steps

-----------------------------------------------------------------------------
LEMMA EnsureTyped ==
  ASSUME OperationAssumption, ProvisioningTyped, NEW o \in Ops,
         CP!EnsureBegin(o) \/ CP!EnsureClient(o) \/ CP!EnsureWrite(o)
  PROVE  ProvisioningTyped'
<1>1. fresh \in Nat /\ op[o] \in Steps(fresh) /\ [pc |-> "done"] \in Steps(fresh) /\ fresh + 1 \in Nat
      /\ [pc |-> "done"] \in Steps(fresh + 1)
  BY EndIsStep DEF ProvisioningTyped
<1>2. "done" \notin Early
  BY DEF Early
<1>3. CASE CP!EnsureBegin(o)
  <2>1. op[o].pc \in Early
    BY <1>3 DEF CP!EnsureBegin, CP!Idle, Early
  <2>2. PICK s \in {[pc |-> "done"], [pc |-> "client"]} : CP!Goto(o, s)
    BY <1>3 DEF CP!EnsureBegin, CP!Ends
  <2>3. s \in Steps(fresh) /\ s.pc \notin {"gate"} \cup Rotating
    BY <2>2 DEF Steps, Rotating
  <2> QED BY <1>3, <2>1, <2>2, <2>3, TypesKept DEF CP!EnsureBegin, ProvisioningTyped
<1>4. CASE CP!EnsureClient(o)
  <2>1. op[o].pc \in Early
    BY <1>4 DEF CP!EnsureClient, Early
  <2>2. CP!Hash(fresh + 1) \in Secrets(fresh + 1) /\ 0..fresh \subseteq 0..fresh + 1
    BY <1>1 DEF CP!Hash, Secrets
  <2>3. /\ UNCHANGED <<store, bak, receipts>> /\ lock' \in {lock, "free"}
        /\ \/ fresh' = fresh /\ db' = db
           \/ fresh' = fresh + 1 /\ db' = CP!Hash(fresh + 1)
    BY <1>4 DEF CP!EnsureClient
  <2>4. PICK s : /\ CP!Goto(o, s)
                 /\ \/ s = [pc |-> "done"]
                    \/ s = [pc |-> "write", secret |-> fresh + 1] /\ fresh' = fresh + 1
    BY <1>4 DEF CP!EnsureClient, CP!Ends
  <2>5. s \in Steps(fresh') /\ s.pc \notin Early \cup Rotating
    <3>1. CASE s = [pc |-> "done"]
      BY <1>1, <2>3, <3>1 DEF Early, Rotating
    <3>2. CASE s = [pc |-> "write", secret |-> fresh + 1] /\ fresh' = fresh + 1
      <4>1. fresh + 1 \in 1..(fresh + 1)
        BY <1>1
      <4> QED BY <3>2, <4>1 DEF Steps, Early, Rotating
    <3> QED BY <2>4, <3>1, <3>2
  <2>6. store' \in 0..fresh' /\ (db' = CP!NoHash \/ db' \in Secrets(fresh'))
        /\ lock' \in Ops \cup {"free", "stale"}
    BY <1>1, <2>2, <2>3 DEF ProvisioningTyped
  <2>7. db # CP!NoHash => db' # CP!NoHash
    BY <1>1, <2>2, <2>3, SecretsAreSome
  <2>8. s.pc # "gate"
    BY <2>4
  <2> QED BY <2>1, <2>3, <2>4, <2>5, <2>6, <2>7, <2>8, TypesKept
<1>5. CASE CP!EnsureWrite(o)
  <2>1. op[o].secret \in 1..fresh
    BY <1>1, <1>5, StepShape DEF CP!EnsureWrite
  <2>2. store' \in 0..fresh
    BY <1>1, <1>5, <2>1 DEF CP!EnsureWrite, ProvisioningTyped
  <2>3. UNCHANGED <<db, bak, receipts, fresh>> /\ lock' = "free" /\ CP!Goto(o, [pc |-> "done"])
    BY <1>5 DEF CP!EnsureWrite, CP!Ends
  <2>4. [pc |-> "done"].pc \notin {"gate"} \cup Rotating
    BY DEF Rotating
  <2> QED BY <1>1, <1>2, <2>2, <2>3, <2>4, TypesKept DEF ProvisioningTyped
<1> QED BY <1>3, <1>4, <1>5

LEMMA GateTyped ==
  ASSUME OperationAssumption, ProvisioningTyped, NEW o \in Ops, CP!ReadDb(o) \/ CP!Gate(o)
  PROVE  ProvisioningTyped'
<1>1. fresh \in Nat /\ op[o] \in Steps(fresh) /\ [pc |-> "done"] \in Steps(fresh) /\ fresh + 1 \in Nat
      /\ (op[o].pc = "gate" => op[o].hash \in Secrets(fresh) /\ op[o].split \in BOOLEAN)
  BY EndIsStep, StepShape DEF ProvisioningTyped
<1>2. CASE CP!ReadDb(o)
  <2>1. PICK b \in BOOLEAN : CP!Goto(o, [pc |-> "gate", hash |-> db, split |-> b])
    BY <1>2 DEF CP!ReadDb
  <2>2. db \in Secrets(fresh) /\ db # CP!NoHash /\ op[o].pc \in Early
    BY <1>2 DEF CP!ReadDb, ProvisioningTyped, CP!Idle, Early
  <2>3. [pc |-> "gate", hash |-> db, split |-> b] \in Steps(fresh)
    BY <2>2 DEF Steps
  <2>4. UNCHANGED <<db, store, bak, lock, receipts, fresh>>
    BY <1>2 DEF CP!ReadDb
  <2> QED BY <1>1, <2>1, <2>2, <2>3, <2>4, TypesKept DEF ProvisioningTyped
<1>3. CASE CP!Gate(o)
  <2>1. op[o].pc = "gate" /\ op[o].pc \in Early /\ UNCHANGED <<db, store, bak, lock>>
    BY <1>3 DEF CP!Gate, Early
  <2>2. CP!Id(op[o].hash) \in CP!Ids
    BY <1>1, <2>1, SecretsAreFew
  <2>3. store \in 0..fresh /\ bak \in [CP!Ids -> 0..fresh] /\ (db = CP!NoHash \/ db \in Secrets(fresh))
        /\ lock \in Ops \cup {"free", "stale"}
    BY DEF ProvisioningTyped
  <2>4. CASE CP!Goto(o, [pc |-> "done"]) /\ fresh' = fresh
             /\ (receipts' = receipts
                   \/ receipts' = Append(receipts, [id |-> CP!Id(op[o].hash), outcome |-> "GATE_REFUSED"]))
    <3>1. \/ receipts' = receipts
          \/ \E r \in [id : CP!Ids, outcome : CP!Outcomes] : receipts' = Append(receipts, r)
      BY <2>2, <2>4 DEF CP!Outcomes
    <3>2. [pc |-> "done"].pc \notin Early /\ [pc |-> "done"].pc \notin {"gate"} \cup Rotating
      BY DEF Early, Rotating
    <3> QED BY <1>1, <2>1, <2>3, <2>4, <3>1, <3>2, TypesKept
  <2>5. CASE fresh' = fresh + 1 /\ receipts' = receipts
             /\ CP!Goto(o, [pc |-> "apply", id |-> CP!Id(op[o].hash), new |-> fresh + 1,
                            split |-> op[o].split])
    <3>1. PICK s : s = [pc |-> "apply", id |-> CP!Id(op[o].hash), new |-> fresh + 1,
                        split |-> op[o].split]
      OBVIOUS
    <3>2. s.pc \in Rotating /\ s.pc \notin Early /\ s.id \in CP!Ids /\ fresh + 1 \in 1..(fresh + 1)
      BY <1>1, <2>2, <3>1 DEF Rotating, Early
    <3>3. s \in [pc : Rotating, id : CP!Ids, new : 1..(fresh + 1), split : BOOLEAN]
      BY <1>1, <2>1, <2>2, <3>1, <3>2 DEF Rotating
    <3>4. 0..fresh \subseteq 0..(fresh + 1) /\ 1..fresh \subseteq 1..(fresh + 1)
      BY <1>1
    <3>5. Secrets(fresh) \subseteq Secrets(fresh + 1)
      BY <3>4 DEF Secrets
    <3>6. db # CP!NoHash
      BY <2>1 DEF ProvisioningTyped
    <3>7. s \in Steps(fresh + 1) /\ store' \in 0..(fresh + 1)
          /\ (db' = CP!NoHash \/ db' \in Secrets(fresh + 1)) /\ lock' \in Ops \cup {"free", "stale"}
      BY <2>1, <2>3, <3>3, <3>4, <3>5 DEF Steps
    <3> QED BY <2>1, <2>5, <3>1, <3>2, <3>6, <3>7, TypesKept
  <2> QED BY <1>3, <2>4, <2>5 DEF CP!Gate, CP!Receipt, CP!Ends
<1> QED BY <1>2, <1>3

(* The steps behind the gate move within the plan or end it. *)
LEMMA PlanTyped ==
  ASSUME OperationAssumption, ProvisioningTyped, NEW o \in Ops, op[o].pc \in Rotating,
         fresh' = fresh,
         \/ CP!Goto(o, [pc |-> "done"])
         \/ \E p \in Rotating : CP!Goto(o, [op[o] EXCEPT !.pc = p]),
         db' \in Secrets(fresh),
         store' \in 0..fresh,
         bak' = bak \/ \E v \in 0..fresh : bak' = [bak EXCEPT ![op[o].id] = v],
         lock' \in {lock, "stale"},
         \/ receipts' = receipts
         \/ \E c \in CP!Outcomes : receipts' = Append(receipts, [id |-> op[o].id, outcome |-> c])
  PROVE  ProvisioningTyped'
<1>1. fresh \in Nat /\ op[o] \in Steps(fresh) /\ op[o].id \in CP!Ids
  BY StepShape DEF ProvisioningTyped
<1>2. PICK s \in Steps(fresh) : CP!Goto(o, s) /\ s.pc \notin Early
  <2>1. CASE CP!Goto(o, [pc |-> "done"])
    <3>1. [pc |-> "done"].pc \notin Early
      BY DEF Early
    <3> QED BY <1>1, <2>1, <3>1, EndIsStep
  <2>2. ASSUME NEW p \in Rotating, CP!Goto(o, [op[o] EXCEPT !.pc = p])
        PROVE  \E s \in Steps(fresh) : CP!Goto(o, s) /\ s.pc \notin Early
    <3>1. p \notin Early
      BY DEF Rotating, Early
    <3>2. [op[o] EXCEPT !.pc = p] \in Steps(fresh) /\ [op[o] EXCEPT !.pc = p].pc = p
      BY <1>1, NextIsStep
    <3> QED BY <2>2, <3>1, <3>2
  <2> QED BY <2>1, <2>2
<1>3. \/ receipts' = receipts
      \/ \E r \in [id : CP!Ids, outcome : CP!Outcomes] : receipts' = Append(receipts, r)
  BY <1>1
<1>4. lock' \in Ops \cup {"free", "stale"}
  BY DEF ProvisioningTyped
<1>5. bak' = bak \/ \E i \in CP!Ids, v \in 0..fresh' : bak' = [bak EXCEPT ![i] = v]
  BY <1>1
<1>6. db' # CP!NoHash
  BY <1>1, SecretsAreSome
<1> QED BY <1>1, <1>2, <1>3, <1>4, <1>5, <1>6, TypesKept

LEMMA ApplyTyped ==
  ASSUME OperationAssumption, ProvisioningTyped, NEW o \in Ops, CP!Apply(o) PROVE ProvisioningTyped'
<1>1. fresh \in Nat /\ op[o] \in Steps(fresh) /\ op[o].pc \in Rotating /\ op[o].new \in 1..fresh
  <2>1. op[o].pc \in Rotating
    BY DEF CP!Apply, Rotating
  <2> QED BY <2>1, StepShape DEF ProvisioningTyped
<1>2. db' = db \/ db' = CP!Hash(op[o].new)
  BY DEF CP!Apply
<1>3. CP!Hash(op[o].new) \in Secrets(fresh)
  BY <1>1 DEF CP!Hash, Secrets
<1>4. /\ CP!Goto(o, [pc |-> "done"]) \/ CP!Goto(o, [op[o] EXCEPT !.pc = "swap"])
      /\ UNCHANGED <<store, bak, lock, fresh>>
      /\ \/ receipts' = receipts
         \/ receipts' = Append(receipts, [id |-> op[o].id, outcome |-> "REFUSED_EXTERNAL_PREREQUISITE"])
  BY DEF CP!Apply, CP!Receipt, CP!Ends
<1> QED BY <1>1, <1>2, <1>3, <1>4, PlanTyped DEF ProvisioningTyped, Rotating, CP!Outcomes

LEMMA SwapTyped ==
  ASSUME OperationAssumption, ProvisioningTyped, NEW o \in Ops, CP!Swap(o) PROVE ProvisioningTyped'
<1>1. fresh \in Nat /\ op[o].pc \in Rotating /\ op[o].new \in 1..fresh
  <2>1. op[o].pc \in Rotating
    BY DEF CP!Swap, Rotating
  <2> QED BY <2>1, StepShape DEF ProvisioningTyped
<1>2. /\ CP!Goto(o, [op[o] EXCEPT !.pc = "readStore"]) \/ CP!Goto(o, [op[o] EXCEPT !.pc = "rollback"])
      /\ UNCHANGED <<db, lock, fresh, receipts>>
      /\ store' \in {store, op[o].new}
      /\ bak' = bak \/ bak' = [bak EXCEPT ![op[o].id] = store]
  BY DEF CP!Swap
<1>3. store \in 0..fresh /\ store' \in 0..fresh
  BY <1>1, <1>2 DEF ProvisioningTyped
<1> QED BY <1>1, <1>2, <1>3, PlanTyped DEF ProvisioningTyped, Rotating

LEMMA RollbackTyped ==
  ASSUME OperationAssumption, ProvisioningTyped, NEW o \in Ops, CP!Rollback(o) PROVE ProvisioningTyped'
<1>1. fresh \in Nat /\ op[o].pc \in Rotating /\ bak[op[o].id] \in 0..fresh
  <2>1. op[o].pc \in Rotating
    BY DEF CP!Rollback, Rotating
  <2> QED BY <2>1, StepShape DEF ProvisioningTyped
<1>2. /\ CP!Goto(o, [op[o] EXCEPT !.pc = "restore"]) \/ CP!Goto(o, [pc |-> "done"])
      /\ UNCHANGED <<store, bak, lock, fresh>>
      /\ \/ receipts' = receipts
         \/ receipts' = Append(receipts, [id |-> op[o].id, outcome |-> "SPLIT_STATE_OPEN"])
  BY DEF CP!Rollback, CP!Receipt, CP!Ends
<1>3. db' = db \/ (bak[op[o].id] # 0 /\ db.secret # bak[op[o].id]
                   /\ db' = [db EXCEPT !.secret = bak[op[o].id]])
  BY DEF CP!Rollback
<1>4. db' \in Secrets(fresh)
  BY <1>1, <1>3 DEF ProvisioningTyped, Secrets
<1> QED BY <1>1, <1>2, <1>4, PlanTyped DEF ProvisioningTyped, Rotating, CP!Outcomes

LEMMA RestoreTyped ==
  ASSUME OperationAssumption, ProvisioningTyped, NEW o \in Ops, CP!Restore(o) PROVE ProvisioningTyped'
<1>1. fresh \in Nat /\ op[o].pc \in Rotating /\ bak[op[o].id] \in 0..fresh /\ 0 \in 0..fresh
      /\ db \in Secrets(fresh)
  <2>1. op[o].pc \in Rotating
    BY DEF CP!Restore, Rotating
  <2> QED BY <2>1, StepShape DEF ProvisioningTyped
<1>2. /\ CP!Goto(o, [pc |-> "done"]) /\ UNCHANGED <<db, lock, fresh>>
      /\ store' \in {store, bak[op[o].id]} /\ (bak' = bak \/ bak' = [bak EXCEPT ![op[o].id] = 0])
      /\ \E c \in CP!Outcomes : receipts' = Append(receipts, [id |-> op[o].id, outcome |-> c])
  BY DEF CP!Restore, CP!Receipt, CP!Ends, CP!Outcomes
<1>3. store' \in 0..fresh
  BY <1>1, <1>2 DEF ProvisioningTyped
<1> QED BY <1>1, <1>2, <1>3, PlanTyped

LEMMA VerifyTyped ==
  ASSUME OperationAssumption, ProvisioningTyped, NEW o \in Ops, CP!ReadStore(o) \/ CP!Verify(o)
  PROVE  ProvisioningTyped'
<1>1. op[o].pc \in Rotating
  BY DEF CP!ReadStore, CP!Verify, Rotating
<1>2. UNCHANGED <<db, store, bak, lock, fresh>> /\ store \in 0..fresh /\ db \in Secrets(fresh)
  BY <1>1 DEF CP!ReadStore, CP!Verify, ProvisioningTyped
<1>3. \/ CP!Goto(o, [pc |-> "done"])
      \/ \E p \in Rotating : CP!Goto(o, [op[o] EXCEPT !.pc = p])
  BY DEF CP!ReadStore, CP!Verify, CP!Receipt, CP!Ends, Rotating
<1>4. \/ receipts' = receipts
      \/ \E c \in CP!Outcomes : receipts' = Append(receipts, [id |-> op[o].id, outcome |-> c])
  BY DEF CP!ReadStore, CP!Verify, CP!Receipt, CP!Outcomes
<1> QED BY <1>1, <1>2, <1>3, <1>4, PlanTyped

LEMMA CrashTyped ==
  ASSUME OperationAssumption, ProvisioningTyped, NEW o \in Ops, CP!Crash(o) \/ CP!CrashLocked(o)
  PROVE  ProvisioningTyped'
<1>1. fresh \in Nat /\ op[o] \in Steps(fresh) /\ [pc |-> "done"] \in Steps(fresh)
      /\ [pc |-> "done"].pc \notin Early \cup {"gate"} \cup Rotating
  BY EndIsStep DEF ProvisioningTyped, Early, Rotating
<1>2. CASE CP!Crash(o)
  <2>1. CP!Goto(o, [pc |-> "done"]) /\ UNCHANGED <<db, store, bak, receipts, fresh>>
        /\ lock' \in {lock, "stale"}
    BY <1>2 DEF CP!Crash, CP!Ends
  <2> QED BY <1>1, <2>1, TypesKept DEF ProvisioningTyped
<1>3. CASE CP!CrashLocked(o)
  <2>1. op[o].pc \in Rotating
    BY <1>3 DEF CP!CrashLocked, Rotating
  <2>2. op[o].new \in 1..fresh /\ bak[op[o].id] \in 0..fresh /\ 0 \in 0..fresh /\ db \in Secrets(fresh)
        /\ store \in 0..fresh
    BY <1>1, <2>1, StepShape DEF ProvisioningTyped
  <2>3. /\ CP!Goto(o, [pc |-> "done"]) /\ UNCHANGED <<db, receipts, fresh>> /\ lock' = "stale"
        /\ store' \in {store, op[o].new, bak[op[o].id]}
        /\ \/ bak' = bak \/ bak' = [bak EXCEPT ![op[o].id] = 0]
           \/ bak' = [bak EXCEPT ![op[o].id] = store]
    BY <1>3 DEF CP!CrashLocked, CP!Ends
  <2>4. store' \in 0..fresh
    BY <2>2, <2>3
  <2> QED BY <2>1, <2>2, <2>3, <2>4, PlanTyped
<1> QED BY <1>2, <1>3

LEMMA ProvisioningStep ==
  ASSUME OperationAssumption, ProvisioningTyped, CP!Next PROVE ProvisioningTyped'
BY EnsureTyped, GateTyped, ApplyTyped, SwapTyped, RollbackTyped, RestoreTyped, VerifyTyped, CrashTyped
   DEF CP!Next

LEMMA ProvisioningInit == ASSUME OperationAssumption, CP!Init PROVE ProvisioningTyped
<1>1. fresh \in {0, 1} /\ store \in 0..fresh /\ (db = CP!NoHash \/ db \in Secrets(fresh))
  BY DEF CP!Init, CP!Hash, Secrets
<1>2. bak \in [CP!Ids -> 0..fresh]
  BY <1>1 DEF CP!Init
<1>3. op = [o \in Ops |-> [pc |-> "idle"]] /\ [pc |-> "idle"] \in Steps(fresh)
      /\ [pc |-> "idle"].pc \notin {"gate"} \cup Rotating
  BY DEF CP!Init, CP!Idle, Steps, Rotating
<1>4. op \in [Ops -> Steps(fresh)] /\ \A o \in Ops : op[o].pc \notin {"gate"} \cup Rotating
  BY <1>3
<1>5. Cardinality(Spent) = 0
  <2>1. Spent = {}
    BY <1>3 DEF Spent, Early
  <2> QED BY <2>1, FS_EmptySet
<1>6. receipts = <<>> /\ lock = "free"
  BY DEF CP!Init
<1>7. fresh <= 1 + Cardinality(Spent)
  BY <1>1, <1>5
<1> QED BY <1>1, <1>2, <1>4, <1>6, <1>7 DEF ProvisioningTyped

-----------------------------------------------------------------------------
(* A rotation that began on a split nobody was working on: as long as it   *)
(* has not met the gate, nothing that is under way changes the credential, *)
(* and whoever is before the gate has seen the split too.                  *)
Frozen == \E o \in Ops : op[o].pc = "gate" /\ op[o].split = TRUE

SplitInv ==
  /\ Frozen =>
       /\ db.secret # store
       /\ \A p \in Ops : /\ op[p].pc \in {"idle", "client", "gate", "done"}
                         /\ op[p].pc = "gate" => op[p].hash = db
  /\ \A o \in Ops : op[o].pc \in Rotating => op[o].split = FALSE

Step(o) ==
  \/ CP!EnsureBegin(o) \/ CP!EnsureClient(o) \/ CP!EnsureWrite(o) \/ CP!ReadDb(o) \/ CP!Gate(o)
  \/ CP!Apply(o) \/ CP!Swap(o) \/ CP!Rollback(o) \/ CP!Restore(o) \/ CP!ReadStore(o) \/ CP!Verify(o)
  \/ CP!Crash(o) \/ CP!CrashLocked(o)

(* A step of a plan ends it or stays in it. *)
LEMMA PlanGoes ==
  ASSUME NEW o \in Ops,
         \/ CP!Apply(o) \/ CP!Swap(o) \/ CP!Rollback(o) \/ CP!Restore(o) \/ CP!ReadStore(o)
         \/ CP!Verify(o) \/ CP!CrashLocked(o)
  PROVE  /\ op[o].pc \in Rotating
         /\ \/ CP!Goto(o, [pc |-> "done"])
            \/ \E p \in Rotating : CP!Goto(o, [op[o] EXCEPT !.pc = p])
BY DEF CP!Apply, CP!Swap, CP!Rollback, CP!Restore, CP!ReadStore, CP!Verify, CP!CrashLocked,
       CP!Receipt, CP!Ends, Rotating

LEMMA GotoIs ==
  ASSUME ProvisioningTyped, NEW o \in Ops, NEW s, CP!Goto(o, s)
  PROVE  op'[o] = s /\ \A p \in Ops : p # o => op'[p] = op[p]
BY DEF CP!Goto, ProvisioningTyped

(* While the split is looked at, only operations without effect go on. *)
LEMMA FrozenGoes ==
  ASSUME OperationAssumption, ProvisioningTyped, SplitInv, Frozen, NEW o \in Ops, Step(o)
  PROVE  /\ UNCHANGED <<db, store>>
         /\ \E s : /\ CP!Goto(o, s) /\ s.pc \in {"client", "gate", "done"}
                   /\ s.pc = "gate" => s.hash = db
<1>1. /\ db.secret # store /\ db # CP!NoHash /\ op[o].pc \in {"idle", "client", "gate", "done"}
      /\ (op[o].pc = "gate" => op[o].hash = db)
  BY DEF SplitInv, Frozen, ProvisioningTyped
<1>2. CASE CP!EnsureBegin(o)
  BY <1>2 DEF CP!EnsureBegin, CP!Ends
<1>3. CASE CP!EnsureClient(o)
  BY <1>1, <1>3 DEF CP!EnsureClient, CP!Ends
<1>4. CASE CP!ReadDb(o)
  <2>1. PICK b : CP!Goto(o, [pc |-> "gate", hash |-> db, split |-> b])
    BY <1>4 DEF CP!ReadDb
  <2>2. PICK s : s = [pc |-> "gate", hash |-> db, split |-> b]
    OBVIOUS
  <2>3. s.pc = "gate" /\ s.hash = db
    BY <2>2
  <2> QED BY <1>4, <2>1, <2>2, <2>3 DEF CP!ReadDb
<1>5. CASE CP!Gate(o)
  <2>1. ~CP!GatePasses(op[o].hash)
    BY <1>1, <1>5 DEF CP!Gate, CP!GatePasses
  <2> QED BY <1>5, <2>1 DEF CP!Gate, CP!Receipt, CP!Ends
<1>6. CASE CP!Crash(o)
  BY <1>6 DEF CP!Crash, CP!Ends
<1>7. CASE CP!EnsureWrite(o)
  BY <1>1, <1>7 DEF CP!EnsureWrite
<1>8. CASE \/ CP!Apply(o) \/ CP!Swap(o) \/ CP!Rollback(o) \/ CP!Restore(o) \/ CP!ReadStore(o)
           \/ CP!Verify(o) \/ CP!CrashLocked(o)
  BY <1>1, <1>8, PlanGoes DEF Rotating
<1> QED BY <1>2, <1>3, <1>4, <1>5, <1>6, <1>7, <1>8 DEF Step

(* A step of an operation past the gate, or to it, never carries a split.  *)
LEMMA SplitGoes ==
  ASSUME OperationAssumption, ProvisioningTyped, SplitInv, NEW o \in Ops, Step(o)
  PROVE  \E s : /\ CP!Goto(o, s)
                /\ s.pc \in Rotating => s.split = FALSE
                /\ s.pc = "gate" => CP!ReadDb(o) /\ s.hash = db
                                    /\ s.split = (~CP!Linked /\ \A p \in Ops : op[p].pc \in {"idle", "done"})
<1>1. fresh \in Nat /\ op[o] \in Steps(fresh)
  BY DEF ProvisioningTyped
<1>2. [pc |-> "done"].pc \notin {"gate"} \cup Rotating /\ [pc |-> "client"].pc \notin {"gate"} \cup Rotating
      /\ "write" \notin {"gate"} \cup Rotating
  BY DEF Rotating
<1>3. CASE CP!EnsureBegin(o) \/ CP!Crash(o) \/ CP!EnsureWrite(o)
  BY <1>2, <1>3 DEF CP!EnsureBegin, CP!Crash, CP!EnsureWrite, CP!Ends
<1>4. CASE CP!EnsureClient(o)
  BY <1>2, <1>4 DEF CP!EnsureClient, CP!Ends
<1>5. CASE CP!ReadDb(o)
  <2>1. PICK b : b = (~CP!Linked /\ \A p \in Ops : op[p].pc \in {"idle", "done"})
    OBVIOUS
  <2>2. PICK s : s = [pc |-> "gate", hash |-> db, split |-> b]
    OBVIOUS
  <2>3. s.pc = "gate" /\ s.hash = db /\ s.split = b
    BY <2>2
  <2>4. CP!Goto(o, s)
    BY <1>5, <2>1, <2>2, Zenon DEF CP!ReadDb
  <2>5. s.pc \notin Rotating
    BY <2>3 DEF Rotating
  <2> QED BY <1>5, <2>1, <2>3, <2>4, <2>5, Zenon
<1>6. CASE CP!Gate(o)
  <2>1. CASE CP!Goto(o, [pc |-> "done"])
    BY <1>2, <2>1
  <2>2. CASE /\ CP!GatePasses(op[o].hash)
             /\ CP!Goto(o, [pc |-> "apply", id |-> CP!Id(op[o].hash), new |-> fresh + 1,
                            split |-> op[o].split])
    <3>1. op[o].pc = "gate" /\ op[o].split \in BOOLEAN
      BY <1>1, <1>6, StepShape DEF CP!Gate
    <3>2. op[o].split = FALSE
      BY <2>2, <3>1 DEF SplitInv, Frozen, CP!GatePasses
    <3>3. PICK s : s = [pc |-> "apply", id |-> CP!Id(op[o].hash), new |-> fresh + 1,
                        split |-> op[o].split]
      OBVIOUS
    <3>4. s.pc = "apply" /\ s.split = FALSE
      BY <3>2, <3>3
    <3> QED BY <2>2, <3>3, <3>4
  <2> QED BY <1>6, <2>1, <2>2 DEF CP!Gate, CP!Receipt, CP!Ends
<1>7. CASE \/ CP!Apply(o) \/ CP!Swap(o) \/ CP!Rollback(o) \/ CP!Restore(o) \/ CP!ReadStore(o)
           \/ CP!Verify(o) \/ CP!CrashLocked(o)
  <2>1. op[o].pc \in Rotating /\ op[o].split = FALSE
    BY <1>7, PlanGoes DEF SplitInv
  <2>2. CASE CP!Goto(o, [pc |-> "done"])
    BY <1>2, <2>2
  <2>3. ASSUME NEW p \in Rotating, CP!Goto(o, [op[o] EXCEPT !.pc = p])
        PROVE  \E s : CP!Goto(o, s) /\ s.pc # "gate" /\ s.split = FALSE
    <3>1. PICK s : s = [op[o] EXCEPT !.pc = p]
      OBVIOUS
    <3>2. s.pc = p /\ s.split = FALSE
      BY <1>1, <2>1, <3>1, NextIsStep
    <3>3. p # "gate"
      BY DEF Rotating
    <3> QED BY <2>3, <3>1, <3>2, <3>3
  <2> QED BY <1>7, <2>2, <2>3, PlanGoes
<1> QED BY <1>3, <1>4, <1>5, <1>6, <1>7 DEF Step

LEMMA SplitStep ==
  ASSUME OperationAssumption, ProvisioningTyped, SplitInv, CP!Next PROVE SplitInv'
<1>1. PICK o \in Ops : Step(o)
  BY DEF CP!Next, Step
<1>2. PICK s : /\ CP!Goto(o, s)
               /\ s.pc \in Rotating => s.split = FALSE
               /\ s.pc = "gate" =>
                    /\ CP!ReadDb(o) /\ s.hash = db
                    /\ s.split = (~CP!Linked /\ \A p \in Ops : op[p].pc \in {"idle", "done"})
  BY <1>1, SplitGoes
<1>3. op'[o] = s /\ \A p \in Ops : p # o => op'[p] = op[p]
  BY <1>2, GotoIs
<1>4. \A p \in Ops : op'[p].pc \in Rotating => op'[p].split = FALSE
  BY <1>2, <1>3 DEF SplitInv
<1>5. CASE Frozen
  <2>1. /\ UNCHANGED <<db, store>>
        /\ s.pc \in {"client", "gate", "done"} /\ (s.pc = "gate" => s.hash = db)
    <3>1. PICK q : /\ CP!Goto(o, q) /\ q.pc \in {"client", "gate", "done"}
                   /\ q.pc = "gate" => q.hash = db
      BY <1>1, <1>5, FrozenGoes
    <3>2. q = s
      BY <1>3, <3>1, GotoIs
    <3> QED BY <1>1, <1>5, <3>1, <3>2, FrozenGoes
  <2>2. \A p \in Ops : op'[p].pc \in {"idle", "client", "gate", "done"}
                       /\ (op'[p].pc = "gate" => op'[p].hash = db')
    BY <1>3, <1>5, <2>1 DEF SplitInv
  <2>3. db'.secret # store'
    BY <1>5, <2>1 DEF SplitInv
  <2> QED BY <1>4, <2>2, <2>3 DEF SplitInv
<1>6. CASE ~Frozen
  <2>1. ASSUME Frozen'
        PROVE  /\ s.pc = "gate" /\ s.split = TRUE
    <3>1. PICK p \in Ops : op'[p].pc = "gate" /\ op'[p].split = TRUE
      BY <2>1 DEF Frozen
    <3>2. p = o
      BY <1>3, <1>6, <3>1 DEF Frozen
    <3> QED BY <1>3, <3>1, <3>2
  <2>2. ASSUME Frozen'
        PROVE  /\ db'.secret # store'
               /\ \A p \in Ops : op'[p].pc \in {"idle", "client", "gate", "done"}
                                 /\ (op'[p].pc = "gate" => op'[p].hash = db')
    <3>1. CP!ReadDb(o) /\ s.hash = db /\ db' = db /\ store' = store /\ s.pc = "gate"
      BY <1>2, <2>1, <2>2 DEF CP!ReadDb
    <3>2. ~CP!Linked /\ \A p \in Ops : op[p].pc \in {"idle", "done"}
      BY <1>2, <2>1, <2>2
    <3> QED BY <1>3, <3>1, <3>2 DEF CP!Linked
  <2> QED BY <1>4, <2>2 DEF SplitInv
<1> QED BY <1>5, <1>6

-----------------------------------------------------------------------------
(* One rotation at a time, beside any bootstraps. *)
InRotation(o) == op[o].pc \in {"gate"} \cup Rotating

(* A bootstrap holds the lock while there is no entry, a rotation has one. *)
(* What is applied under an operation id was applied to an older salt, so  *)
(* no id is applied or rolled back twice; what a rollback restores is in   *)
(* the backup.                                                             *)
OperationSafe(o) ==
  /\ op[o].pc \in {"client", "write"} => lock = o /\ store = 0
  /\ op[o].pc = "write" => db # CP!NoHash /\ op[o].secret = db.secret
  /\ op[o].pc = "gate" => op[o].hash = db
  /\ op[o].pc \in Rotating => store # 0
  /\ op[o].pc = "apply" => op[o].id = CP!Id(db) /\ db.salt < op[o].new
  /\ op[o].pc \in {"swap", "rollback"} => op[o].id \in applied /\ op[o].id \notin rolled
  /\ op[o].pc = "restore" => bak[op[o].id] # 0 /\ db.secret = bak[op[o].id]
  /\ op[o].pc = "verify" => store = op[o].new

AloneInv ==
  /\ \A o, p \in Ops : InRotation(o) /\ InRotation(p) => o = p
  /\ \A o \in Ops : OperationSafe(o)
  /\ applied \subseteq CP!Ids /\ rolled \subseteq applied /\ \A i \in applied : i[2] < db.salt

LEMMA RestIsSafe ==
  ASSUME NEW o \in Ops, op'[o].pc \in {"idle", "done"} PROVE OperationSafe(o)' /\ ~InRotation(o)'
BY DEF OperationSafe, InRotation, Rotating

(* A step of one operation leaves the others safe. *)
LEMMA OthersSafe ==
  ASSUME OperationAssumption, ProvisioningTyped, AloneInv, NEW o \in Ops, Step(o),
         NEW p \in Ops, p # o
  PROVE  OperationSafe(p)'
<1>1. op'[p] = op[p]
  <2>1. \E s : CP!Goto(o, s)
    BY DEF Step, CP!EnsureBegin, CP!EnsureClient, CP!EnsureWrite, CP!ReadDb, CP!Gate, CP!Apply, CP!Swap,
           CP!Rollback, CP!Restore, CP!ReadStore, CP!Verify, CP!Crash, CP!CrashLocked, CP!Receipt, CP!Ends
  <2> QED BY <2>1, GotoIs
<1>2. OperationSafe(p) /\ OperationSafe(o) /\ "free" # p
  BY DEF AloneInv, OperationAssumption
<1>3. op[p].pc \in {"gate"} \cup Rotating => db # CP!NoHash
  BY DEF ProvisioningTyped
<1>4. fresh \in Nat /\ op[p].pc \in {"idle", "client", "done", "write", "gate"} \cup Rotating
  BY StepShape DEF ProvisioningTyped
<1>5. CASE UNCHANGED <<db, store, bak, applied, rolled>>
           /\ (lock' = lock \/ lock = o \/ lock = "free" \/ op[p].pc \notin {"client", "write"})
  BY <1>1, <1>2, <1>5 DEF OperationSafe
<1>6. CASE CP!EnsureBegin(o) \/ CP!ReadDb(o) \/ CP!Gate(o) \/ CP!ReadStore(o) \/ CP!Verify(o) \/ CP!Crash(o)
  <2>1. UNCHANGED <<db, store, bak, applied, rolled>> /\ (lock' = lock \/ lock = o \/ lock = "free")
    BY <1>6 DEF CP!EnsureBegin, CP!ReadDb, CP!Gate, CP!ReadStore, CP!Verify, CP!Crash
  <2> QED BY <1>5, <2>1
<1>7. CASE CP!EnsureClient(o)
  <2>1. lock = o /\ UNCHANGED <<store, bak, applied, rolled>> /\ (db' = db \/ db = CP!NoHash)
    BY <1>2, <1>7 DEF CP!EnsureClient, OperationSafe
  <2>2. CASE db' = db
    BY <1>5, <2>1, <2>2
  <2>3. CASE db = CP!NoHash
    <3>1. op[p].pc \in {"idle", "done"}
      BY <1>2, <1>3, <1>4, <2>1, <2>3 DEF OperationSafe
    <3> QED BY <1>1, <3>1, RestIsSafe
  <2> QED BY <2>1, <2>2, <2>3
<1>8. CASE CP!EnsureWrite(o)
  <2>1. lock = o /\ store = 0 /\ UNCHANGED <<db, bak, applied, rolled>>
    BY <1>2, <1>8 DEF CP!EnsureWrite, OperationSafe
  <2>2. op[p].pc \in {"idle", "done", "gate"}
    BY <1>2, <1>4, <2>1 DEF OperationSafe
  <2>3. op[p].pc = "gate" => op[p].hash = db
    BY <1>2 DEF OperationSafe
  <2> QED BY <1>1, <2>1, <2>2, <2>3 DEF OperationSafe, Rotating
<1>9. CASE CP!Apply(o) \/ CP!Swap(o) \/ CP!Rollback(o) \/ CP!Restore(o) \/ CP!CrashLocked(o)
  <2>1. op[o].pc \in Rotating
    BY <1>9, PlanGoes
  <2>2. store # 0
    BY <1>2, <2>1 DEF OperationSafe
  <2>3. ~InRotation(p)
    BY <2>1 DEF AloneInv, InRotation
  <2>4. op[p].pc \in {"idle", "done"}
    BY <1>2, <1>4, <2>2, <2>3 DEF OperationSafe, InRotation
  <2> QED BY <1>1, <2>4, RestIsSafe
<1> QED BY <1>6, <1>7, <1>8, <1>9 DEF Step

(* Every step but one to the gate starts where a rotation already is. *)
LEMMA OneRotation ==
  ASSUME OperationAssumption, ProvisioningTyped, AloneInv, Overlap = FALSE, NEW o \in Ops, Step(o)
  PROVE  \A q, p \in Ops : (InRotation(q) /\ InRotation(p) => q = p)'
<1>1. PICK s : CP!Goto(o, s) /\ (s.pc \in {"gate"} \cup Rotating => CP!ReadDb(o) \/ InRotation(o))
  <2>1. CASE CP!EnsureBegin(o) \/ CP!EnsureClient(o) \/ CP!EnsureWrite(o) \/ CP!Crash(o)
    <3>1. PICK s : CP!Goto(o, s) /\ s.pc \in {"client", "write", "done"}
      BY <2>1 DEF CP!EnsureBegin, CP!EnsureClient, CP!EnsureWrite, CP!Crash, CP!Ends
    <3> QED BY <3>1 DEF Rotating
  <2>2. CASE CP!ReadDb(o)
    BY <2>2 DEF CP!ReadDb
  <2>3. CASE CP!Gate(o)
    BY <2>3 DEF CP!Gate, CP!Receipt, CP!Ends, InRotation
  <2>4. CASE \/ CP!Apply(o) \/ CP!Swap(o) \/ CP!Rollback(o) \/ CP!Restore(o) \/ CP!ReadStore(o)
             \/ CP!Verify(o) \/ CP!CrashLocked(o)
    BY <2>4, PlanGoes DEF InRotation
  <2> QED BY <2>1, <2>2, <2>3, <2>4 DEF Step
<1>2. op'[o] = s /\ \A p \in Ops : p # o => op'[p] = op[p]
  BY <1>1, GotoIs
<1>3. \A p \in Ops : p # o => (InRotation(p)' <=> InRotation(p))
  BY <1>2 DEF InRotation
<1>4. ASSUME NEW p \in Ops, p # o, InRotation(p), InRotation(o)' PROVE FALSE
  <2>1. s.pc \in {"gate"} \cup Rotating
    BY <1>2, <1>4 DEF InRotation
  <2>2. ~InRotation(o)
    BY <1>4 DEF AloneInv
  <2>3. CP!ReadDb(o)
    BY <1>1, <2>1, <2>2
  <2>4. op[p].pc \in {"idle", "client", "write", "done"}
    BY <2>3 DEF CP!ReadDb
  <2> QED BY <1>4, <2>4 DEF InRotation, Rotating
<1>5. ASSUME NEW q \in Ops, NEW p \in Ops, InRotation(q)', InRotation(p)' PROVE q = p
  BY <1>3, <1>4, <1>5 DEF AloneInv
<1> QED BY <1>5

(* What the operation that steps is left with, action by action. *)
SaltsSafe == applied \subseteq CP!Ids /\ rolled \subseteq applied /\ \A i \in applied : i[2] < db.salt

LEMMA EndSafe ==
  ASSUME ProvisioningTyped, NEW o \in Ops, CP!Goto(o, [pc |-> "done"]) PROVE OperationSafe(o)'
<1>1. op'[o].pc = "done"
  BY GotoIs
<1> QED BY <1>1, RestIsSafe

LEMMA EnsureSafe ==
  ASSUME OperationAssumption, ProvisioningTyped, AloneInv, NEW o \in Ops,
         CP!EnsureBegin(o) \/ CP!EnsureClient(o) \/ CP!EnsureWrite(o) \/ CP!Crash(o)
  PROVE  OperationSafe(o)' /\ SaltsSafe'
<1>1. OperationSafe(o) /\ SaltsSafe /\ fresh \in Nat
  BY DEF AloneInv, SaltsSafe, ProvisioningTyped
<1>2. CASE db' = db \/ (db = CP!NoHash /\ db' = CP!Hash(fresh + 1))
  <2>1. applied' = applied /\ rolled' = rolled
    BY DEF CP!EnsureBegin, CP!EnsureClient, CP!EnsureWrite, CP!Crash
  <2>2. SaltsSafe'
    <3>1. CASE db' = db
      BY <1>1, <2>1, <3>1 DEF SaltsSafe
    <3>2. CASE db = CP!NoHash /\ db' = CP!Hash(fresh + 1)
      <4>1. db.salt = 0 /\ db'.salt = fresh + 1
        BY <3>2 DEF CP!NoHash, CP!Hash
      <4>2. ASSUME NEW i \in applied PROVE i[2] < db'.salt
        <5>1. i[2] \in Nat
          BY <1>1 DEF SaltsSafe, CP!Ids
        <5> QED BY <1>1, <4>1, <5>1 DEF SaltsSafe
      <4> QED BY <1>1, <2>1, <4>2 DEF SaltsSafe
    <3> QED BY <1>2, <3>1, <3>2
  <2>3. CASE CP!Goto(o, [pc |-> "done"])
    BY <2>2, <2>3, EndSafe
  <2>4. CASE CP!EnsureBegin(o) /\ ~CP!Goto(o, [pc |-> "done"])
    <3>1. CP!Goto(o, [pc |-> "client"]) /\ lock' = o /\ store' = 0
      BY <2>4 DEF CP!EnsureBegin, CP!Ends
    <3>2. op'[o].pc = "client"
      BY <3>1, GotoIs
    <3> QED BY <2>2, <3>1, <3>2 DEF OperationSafe, Rotating
  <2>5. CASE CP!EnsureClient(o) /\ ~CP!Goto(o, [pc |-> "done"])
    <3>1. CP!Goto(o, [pc |-> "write", secret |-> fresh + 1]) /\ db' = CP!Hash(fresh + 1)
          /\ UNCHANGED <<lock, store>> /\ lock = o /\ store = 0
      BY <1>1, <2>5 DEF CP!EnsureClient, CP!Ends, OperationSafe
    <3>2. op'[o].pc = "write" /\ op'[o].secret = fresh + 1
      BY <3>1, GotoIs
    <3>3. db'.secret = fresh + 1 /\ db' # CP!NoHash
      BY <1>1, <3>1 DEF CP!Hash, CP!NoHash
    <3> QED BY <2>2, <3>1, <3>2, <3>3 DEF OperationSafe, Rotating
  <2> QED BY <2>3, <2>4, <2>5 DEF CP!EnsureBegin, CP!EnsureWrite, CP!Crash, CP!Ends
<1> QED BY <1>2 DEF CP!EnsureBegin, CP!EnsureClient, CP!EnsureWrite, CP!Crash

LEMMA GateSafe ==
  ASSUME OperationAssumption, ProvisioningTyped, AloneInv, NEW o \in Ops, CP!ReadDb(o) \/ CP!Gate(o)
  PROVE  OperationSafe(o)' /\ SaltsSafe'
<1>1. OperationSafe(o) /\ SaltsSafe /\ fresh \in Nat /\ UNCHANGED <<db, store, applied, rolled>>
  BY DEF AloneInv, SaltsSafe, ProvisioningTyped, CP!ReadDb, CP!Gate
<1>2. SaltsSafe'
  BY <1>1 DEF SaltsSafe
<1>3. CASE CP!ReadDb(o)
  <2>1. PICK b : CP!Goto(o, [pc |-> "gate", hash |-> db, split |-> b])
    BY <1>3 DEF CP!ReadDb
  <2>2. PICK s : s = [pc |-> "gate", hash |-> db, split |-> b]
    OBVIOUS
  <2>3. op'[o].pc = "gate" /\ op'[o].hash = db
    BY <2>1, <2>2, GotoIs
  <2> QED BY <1>1, <1>2, <2>3 DEF OperationSafe, Rotating
<1>4. CASE CP!Gate(o) /\ CP!Goto(o, [pc |-> "done"])
  BY <1>2, <1>4, EndSafe
<1>5. CASE CP!Gate(o) /\ ~CP!Goto(o, [pc |-> "done"])
  <2>1. store # 0 /\ op[o].pc = "gate"
        /\ CP!Goto(o, [pc |-> "apply", id |-> CP!Id(op[o].hash), new |-> fresh + 1, split |-> op[o].split])
    BY <1>5 DEF CP!Gate, CP!Receipt, CP!Ends
  <2>2. PICK s : s = [pc |-> "apply", id |-> CP!Id(op[o].hash), new |-> fresh + 1, split |-> op[o].split]
    OBVIOUS
  <2>3. s.pc = "apply" /\ s.id = CP!Id(op[o].hash) /\ s.new = fresh + 1
    BY <2>2
  <2>4. op'[o].pc = "apply" /\ op'[o].id = CP!Id(db) /\ op'[o].new = fresh + 1
    BY <1>1, <2>1, <2>2, <2>3, GotoIs DEF OperationSafe
  <2>5. db \in Secrets(fresh)
    BY <2>1 DEF ProvisioningTyped
  <2>6. db.salt < fresh + 1
    BY <1>1, <2>5 DEF Secrets
  <2>7. CP!Id(db)' = CP!Id(db)
    BY <1>1 DEF CP!Id
  <2> QED BY <1>1, <1>2, <2>1, <2>4, <2>6, <2>7 DEF OperationSafe, Rotating
<1> QED BY <1>3, <1>4, <1>5

(* A plan that goes on keeps its operation id and its secret. *)
LEMMA PlanStays ==
  ASSUME ProvisioningTyped, NEW o \in Ops, op[o].pc \in Rotating, NEW p \in Rotating,
         CP!Goto(o, [op[o] EXCEPT !.pc = p])
  PROVE  op'[o].pc = p /\ op'[o].id = op[o].id /\ op'[o].new = op[o].new
<1>1. op'[o] = [op[o] EXCEPT !.pc = p]
  BY GotoIs
<1>2. fresh \in Nat /\ op[o] \in Steps(fresh)
  BY DEF ProvisioningTyped
<1> QED BY <1>1, <1>2, NextIsStep

LEMMA ApplySafe ==
  ASSUME OperationAssumption, ProvisioningTyped, AloneInv, NEW o \in Ops, CP!Apply(o)
  PROVE  OperationSafe(o)' /\ SaltsSafe'
<1>1. /\ OperationSafe(o) /\ SaltsSafe /\ op[o].pc = "apply" /\ op[o].pc \in Rotating
      /\ fresh \in Nat /\ op[o].id \in CP!Ids /\ op[o].new \in 1..fresh /\ db \in Secrets(fresh)
  <2>1. op[o].pc = "apply" /\ op[o].pc \in Rotating
    BY DEF CP!Apply, Rotating
  <2>2. fresh \in Nat /\ op[o] \in Steps(fresh)
    BY DEF ProvisioningTyped
  <2> QED BY <2>1, <2>2, StepShape DEF AloneInv, SaltsSafe, ProvisioningTyped
<1>2. op[o].id[2] = db.salt /\ db.salt < op[o].new /\ db.salt \in Nat /\ store # 0
  BY <1>1 DEF OperationSafe, CP!Id, Secrets
<1>3. op[o].id \notin applied
  BY <1>1, <1>2 DEF SaltsSafe
<1>4. \A i \in applied \cup {op[o].id} : i[2] < op[o].new
  <2>1. ASSUME NEW i \in applied PROVE i[2] < op[o].new
    <3>1. i[2] \in Nat /\ i[2] < db.salt
      BY <1>1 DEF SaltsSafe, CP!Ids
    <3> QED BY <1>1, <1>2, <3>1
  <2> QED BY <1>2, <2>1
<1>5. rolled' = rolled /\ store' = store
      /\ \/ db' = CP!Hash(op[o].new) /\ applied' = applied \cup {op[o].id}
         \/ db' = db /\ applied' = applied /\ CP!Goto(o, [pc |-> "done"])
  BY <1>3 DEF CP!Apply, CP!Receipt, CP!Ends
<1>6. SaltsSafe'
  <2>1. CP!Hash(op[o].new).salt = op[o].new
    BY DEF CP!Hash
  <2> QED BY <1>1, <1>4, <1>5, <2>1 DEF SaltsSafe
<1>7. CASE CP!Goto(o, [pc |-> "done"])
  BY <1>6, <1>7, EndSafe
<1>8. CASE ~CP!Goto(o, [pc |-> "done"])
  <2>1. CP!Goto(o, [op[o] EXCEPT !.pc = "swap"]) /\ applied' = applied \cup {op[o].id}
    BY <1>5, <1>8 DEF CP!Apply, CP!Receipt, CP!Ends
  <2>2. op'[o].pc = "swap" /\ op'[o].id = op[o].id
    BY <1>1, <2>1, PlanStays DEF Rotating
  <2>3. op[o].id \notin rolled
    BY <1>1, <1>3 DEF SaltsSafe
  <2> QED BY <1>2, <1>5, <1>6, <2>1, <2>2, <2>3 DEF OperationSafe
<1> QED BY <1>7, <1>8

LEMMA SwapSafe ==
  ASSUME OperationAssumption, ProvisioningTyped, AloneInv, NEW o \in Ops, CP!Swap(o)
  PROVE  OperationSafe(o)' /\ SaltsSafe'
<1>1. /\ OperationSafe(o) /\ SaltsSafe /\ op[o].pc = "swap" /\ op[o].pc \in Rotating
      /\ fresh \in Nat /\ op[o].new \in 1..fresh
  <2>1. op[o].pc = "swap" /\ op[o].pc \in Rotating
    BY DEF CP!Swap, Rotating
  <2>2. fresh \in Nat /\ op[o] \in Steps(fresh)
    BY DEF ProvisioningTyped
  <2> QED BY <2>1, <2>2, StepShape DEF AloneInv, SaltsSafe
<1>2. UNCHANGED <<db, applied, rolled>> /\ store' \in {store, op[o].new}
  BY DEF CP!Swap
<1>3. SaltsSafe'
  BY <1>1, <1>2 DEF SaltsSafe
<1>4. store' # 0
  BY <1>1, <1>2 DEF OperationSafe
<1>5. PICK p \in {"readStore", "rollback"} : CP!Goto(o, [op[o] EXCEPT !.pc = p])
  BY DEF CP!Swap
<1>6. op'[o].pc = p /\ op'[o].id = op[o].id
  BY <1>1, <1>5, PlanStays DEF Rotating
<1> QED BY <1>1, <1>2, <1>3, <1>4, <1>6 DEF OperationSafe

LEMMA RollbackSafe ==
  ASSUME OperationAssumption, ProvisioningTyped, AloneInv, NEW o \in Ops, CP!Rollback(o)
  PROVE  OperationSafe(o)' /\ SaltsSafe'
<1>1. /\ OperationSafe(o) /\ SaltsSafe /\ op[o].pc = "rollback" /\ op[o].pc \in Rotating
      /\ fresh \in Nat /\ db \in Secrets(fresh)
  <2>1. op[o].pc = "rollback" /\ op[o].pc \in Rotating
    BY DEF CP!Rollback, Rotating
  <2> QED BY <2>1 DEF AloneInv, SaltsSafe, ProvisioningTyped
<1>2. store # 0 /\ op[o].id \in applied /\ op[o].id \notin rolled
  BY <1>1 DEF OperationSafe
<1>3. UNCHANGED <<store, bak, applied>> /\ rolled' \subseteq rolled \cup {op[o].id}
      /\ (db' = db \/ db' = [db EXCEPT !.secret = bak[op[o].id]])
  BY DEF CP!Rollback
<1>4. db'.salt = db.salt
  BY <1>1, <1>3 DEF Secrets
<1>5. SaltsSafe'
  BY <1>1, <1>2, <1>3, <1>4 DEF SaltsSafe
<1>6. CASE CP!Goto(o, [pc |-> "done"])
  BY <1>5, <1>6, EndSafe
<1>7. CASE ~CP!Goto(o, [pc |-> "done"])
  <2>1. /\ bak[op[o].id] # 0 /\ CP!Goto(o, [op[o] EXCEPT !.pc = "restore"])
        /\ IF db.secret = bak[op[o].id] \/ op[o].id \in rolled THEN UNCHANGED <<db, rolled>>
           ELSE db' = [db EXCEPT !.secret = bak[op[o].id]] /\ rolled' = rolled \cup {op[o].id}
    BY <1>7 DEF CP!Rollback, CP!Receipt, CP!Ends
  <2>2. db'.secret = bak[op[o].id]
    BY <1>1, <1>2, <2>1 DEF Secrets
  <2>3. op'[o].pc = "restore" /\ op'[o].id = op[o].id
    BY <1>1, <2>1, PlanStays DEF Rotating
  <2> QED BY <1>2, <1>3, <1>5, <2>1, <2>2, <2>3 DEF OperationSafe
<1> QED BY <1>6, <1>7

LEMMA TailSafe ==
  ASSUME OperationAssumption, ProvisioningTyped, AloneInv, NEW o \in Ops,
         CP!Restore(o) \/ CP!ReadStore(o) \/ CP!Verify(o) \/ CP!CrashLocked(o)
  PROVE  OperationSafe(o)' /\ SaltsSafe'
<1>1. OperationSafe(o) /\ SaltsSafe /\ UNCHANGED <<db, applied, rolled>> /\ op[o].pc \in Rotating
  BY PlanGoes DEF AloneInv, SaltsSafe, CP!Restore, CP!ReadStore, CP!Verify, CP!CrashLocked
<1>2. SaltsSafe'
  BY <1>1 DEF SaltsSafe
<1>3. CASE CP!Restore(o) \/ CP!Verify(o) \/ CP!CrashLocked(o)
  <2>1. CP!Goto(o, [pc |-> "done"])
    BY <1>3 DEF CP!Restore, CP!Verify, CP!CrashLocked, CP!Receipt, CP!Ends
  <2> QED BY <1>2, <2>1, EndSafe
<1>4. CASE CP!ReadStore(o)
  <2>1. PICK p \in {"verify", "unverified"} : /\ CP!Goto(o, [op[o] EXCEPT !.pc = p])
                                              /\ p = "verify" => store = op[o].new
    BY <1>4 DEF CP!ReadStore
  <2>2. op'[o].pc = p /\ op'[o].new = op[o].new /\ store' = store
    BY <1>1, <1>4, <2>1, PlanStays DEF Rotating, CP!ReadStore
  <2> QED BY <1>1, <1>2, <2>1, <2>2 DEF OperationSafe
<1> QED BY <1>3, <1>4

LEMMA AloneStep ==
  ASSUME OperationAssumption, ProvisioningTyped, AloneInv, Overlap = FALSE, CP!Next PROVE AloneInv'
<1>1. PICK o \in Ops : Step(o)
  BY DEF CP!Next, Step
<1>2. OperationSafe(o)' /\ SaltsSafe'
  BY <1>1, EnsureSafe, GateSafe, ApplySafe, SwapSafe, RollbackSafe, TailSafe DEF Step
<1>3. \A p \in Ops : OperationSafe(p)'
  BY <1>1, <1>2, OthersSafe
<1>4. \A q, p \in Ops : (InRotation(q) /\ InRotation(p) => q = p)'
  BY <1>1, OneRotation
<1> QED BY <1>2, <1>3, <1>4 DEF AloneInv, SaltsSafe

-----------------------------------------------------------------------------
(* A split without a receipt is somebody's work in progress. *)
Flagged == CP!Has({"SPLIT_STATE_OPEN", "VERIFY_INCOMPLETE"})

AtWork(o) == op[o].pc \in {"write"} \cup (Rotating \ {"apply"})

SilentInv == lost = FALSE /\ db # CP!NoHash /\ ~Flagged => CP!Linked \/ \E o \in Ops : AtWork(o)

LEMMA FlagStays ==
  ASSUME ProvisioningTyped, NEW r \in [id : CP!Ids, outcome : CP!Outcomes],
         receipts' = Append(receipts, r)
  PROVE  /\ Flagged => Flagged'
         /\ r.outcome \in {"SPLIT_STATE_OPEN", "VERIFY_INCOMPLETE"} => Flagged'
<1>1. PICK R : R = [id : CP!Ids, outcome : CP!Outcomes]
  OBVIOUS
<1>2. receipts \in Seq(R) /\ r \in R
  BY <1>1 DEF ProvisioningTyped
<1>3. /\ Len(receipts') = Len(receipts) + 1 /\ Len(receipts) \in Nat
      /\ DOMAIN receipts = 1..Len(receipts) /\ DOMAIN receipts' = 1..(Len(receipts) + 1)
      /\ \A n \in 1..Len(receipts) : receipts'[n] = receipts[n]
      /\ receipts'[Len(receipts) + 1] = r
  BY <1>2, AppendProperties
<1>4. Flagged => Flagged'
  BY <1>3 DEF Flagged, CP!Has
<1>5. r.outcome \in {"SPLIT_STATE_OPEN", "VERIFY_INCOMPLETE"} => Flagged'
  BY <1>3 DEF Flagged, CP!Has
<1> QED BY <1>4, <1>5

(* Whoever else is at work stays at it. *)
LEMMA OthersWork ==
  ASSUME ProvisioningTyped, NEW o \in Ops, NEW s, CP!Goto(o, s), ~AtWork(o), \E p \in Ops : AtWork(p)
  PROVE  (\E p \in Ops : AtWork(p))'
<1>1. PICK p \in Ops : AtWork(p)
  OBVIOUS
<1>2. op'[p] = op[p]
  BY <1>1, GotoIs
<1> QED BY <1>1, <1>2 DEF AtWork

LEMMA EarlySilent ==
  ASSUME OperationAssumption, ProvisioningTyped, AloneInv, SilentInv, NEW o \in Ops,
         CP!EnsureBegin(o) \/ CP!EnsureClient(o) \/ CP!EnsureWrite(o) \/ CP!ReadDb(o) \/ CP!Gate(o)
  PROVE  SilentInv'
<1>1. fresh \in Nat /\ OperationSafe(o)
  BY DEF ProvisioningTyped, AloneInv
<1>2. CASE CP!EnsureBegin(o) \/ CP!ReadDb(o) \/ CP!Gate(o)
  <2>1. /\ ~AtWork(o) /\ UNCHANGED <<db, store, lost>>
        /\ \E s : CP!Goto(o, s)
    BY <1>2 DEF CP!EnsureBegin, CP!ReadDb, CP!Gate, CP!Receipt, CP!Ends, AtWork, Rotating, CP!Idle
  <2>2. Flagged => Flagged'
    <3>1. CASE receipts' = receipts
      BY <3>1 DEF Flagged, CP!Has
    <3>2. CASE receipts' # receipts
      <4>1. op[o].pc = "gate"
            /\ receipts' = Append(receipts, [id |-> CP!Id(op[o].hash), outcome |-> "GATE_REFUSED"])
        BY <1>2, <3>2 DEF CP!EnsureBegin, CP!ReadDb, CP!Gate, CP!Receipt
      <4>2. op[o].hash \in Secrets(fresh)
        BY <1>1, <4>1, StepShape DEF ProvisioningTyped
      <4>3. CP!Id(op[o].hash) \in CP!Ids
        BY <4>2, SecretsAreFew
      <4>4. [id |-> CP!Id(op[o].hash), outcome |-> "GATE_REFUSED"] \in [id : CP!Ids, outcome : CP!Outcomes]
        BY <4>3 DEF CP!Outcomes
      <4> QED BY <4>1, <4>4, FlagStays
    <3> QED BY <3>1, <3>2
  <2> QED BY <2>1, <2>2, OthersWork DEF SilentInv, CP!Linked
<1>3. CASE CP!EnsureClient(o)
  <2>1. ~AtWork(o) /\ UNCHANGED <<store, receipts>> /\ \E s : CP!Goto(o, s)
    BY <1>3 DEF CP!EnsureClient, CP!Ends, AtWork, Rotating
  <2>2. CASE UNCHANGED <<db, lost>>
    <3>1. Flagged' <=> Flagged
      BY <2>1 DEF Flagged, CP!Has
    <3> QED BY <2>1, <2>2, <3>1, OthersWork DEF SilentInv, CP!Linked
  <2>3. CASE lost' = TRUE
    BY <2>3 DEF SilentInv
  <2>4. CASE CP!Goto(o, [pc |-> "write", secret |-> fresh + 1])
    <3>1. op'[o].pc = "write"
      BY <2>4, GotoIs
    <3> QED BY <3>1 DEF SilentInv, AtWork
  <2> QED BY <1>3, <2>2, <2>3, <2>4 DEF CP!EnsureClient
<1>4. CASE CP!EnsureWrite(o)
  <2>1. lost' = TRUE \/ (store' = op[o].secret /\ db' = db /\ op[o].secret = db.secret)
    BY <1>1, <1>4 DEF CP!EnsureWrite, OperationSafe
  <2> QED BY <2>1 DEF SilentInv, CP!Linked
<1> QED BY <1>2, <1>3, <1>4

LEMMA LateSilent ==
  ASSUME OperationAssumption, ProvisioningTyped, AloneInv, SilentInv, NEW o \in Ops,
         \/ CP!Apply(o) \/ CP!Swap(o) \/ CP!Rollback(o) \/ CP!Restore(o) \/ CP!ReadStore(o) \/ CP!Verify(o)
         \/ CP!Crash(o) \/ CP!CrashLocked(o)
  PROVE  SilentInv'
<1>1. CASE lost' = TRUE
  BY <1>1 DEF SilentInv
<1>2. ASSUME op[o].pc \in Rotating, NEW p \in Rotating \ {"apply"}, CP!Goto(o, [op[o] EXCEPT !.pc = p])
      PROVE  SilentInv'
  <2>1. op'[o].pc = p
    BY <1>2, PlanStays
  <2> QED BY <2>1 DEF SilentInv, AtWork
<1>3. ASSUME op[o].pc \in Rotating, NEW c \in {"SPLIT_STATE_OPEN", "VERIFY_INCOMPLETE"},
             receipts' = Append(receipts, [id |-> op[o].id, outcome |-> c])
      PROVE  SilentInv'
  <2>1. op[o].id \in CP!Ids
    BY <1>3, StepShape DEF ProvisioningTyped
  <2>2. PICK r : r = [id |-> op[o].id, outcome |-> c]
    OBVIOUS
  <2>3. r \in [id : CP!Ids, outcome : CP!Outcomes] /\ r.outcome = c
    BY <2>1, <2>2 DEF CP!Outcomes
  <2> QED BY <1>3, <2>2, <2>3, FlagStays DEF SilentInv
<1>4. CASE CP!Crash(o) \/ CP!CrashLocked(o)
  BY <1>1, <1>4 DEF CP!Crash, CP!CrashLocked
<1>5. CASE CP!Apply(o)
  <2>1. op[o].pc \in Rotating /\ (CP!Goto(o, [op[o] EXCEPT !.pc = "swap"]) \/ lost' = TRUE)
    BY <1>5 DEF CP!Apply, Rotating
  <2> QED BY <1>1, <1>2, <2>1 DEF Rotating
<1>6. CASE CP!Swap(o)
  <2>1. /\ op[o].pc \in Rotating
        /\ CP!Goto(o, [op[o] EXCEPT !.pc = "readStore"]) \/ CP!Goto(o, [op[o] EXCEPT !.pc = "rollback"])
    BY <1>6 DEF CP!Swap, Rotating
  <2> QED BY <1>2, <2>1 DEF Rotating
<1>7. CASE CP!Rollback(o)
  <2>1. /\ op[o].pc \in Rotating
        /\ \/ CP!Goto(o, [op[o] EXCEPT !.pc = "restore"])
           \/ receipts' = Append(receipts, [id |-> op[o].id, outcome |-> "SPLIT_STATE_OPEN"])
    BY <1>7 DEF CP!Rollback, CP!Receipt, Rotating
  <2> QED BY <1>2, <1>3, <2>1 DEF Rotating
<1>8. CASE CP!Restore(o)
  <2>1. /\ op[o].pc \in Rotating /\ db' = db
        /\ \/ store' = bak[op[o].id] /\ op[o].pc = "restore"
           \/ receipts' = Append(receipts, [id |-> op[o].id, outcome |-> "SPLIT_STATE_OPEN"])
    BY <1>8 DEF CP!Restore, CP!Receipt, Rotating
  <2>2. CASE store' = bak[op[o].id] /\ op[o].pc = "restore"
    <3>1. db'.secret = store'
      BY <2>1, <2>2 DEF AloneInv, OperationSafe
    <3> QED BY <3>1 DEF SilentInv, CP!Linked
  <2> QED BY <1>3, <2>1, <2>2
<1>9. CASE CP!ReadStore(o)
  <2>1. /\ op[o].pc \in Rotating
        /\ CP!Goto(o, [op[o] EXCEPT !.pc = "verify"]) \/ CP!Goto(o, [op[o] EXCEPT !.pc = "unverified"])
    BY <1>9 DEF CP!ReadStore, Rotating
  <2> QED BY <1>2, <2>1 DEF Rotating
<1>10. CASE CP!Verify(o)
  <2>1. /\ op[o].pc \in Rotating /\ db' = db /\ store' = store
        /\ \/ op[o].pc = "verify" /\ db = CP!Hash(op[o].new)
           \/ receipts' = Append(receipts, [id |-> op[o].id, outcome |-> "VERIFY_INCOMPLETE"])
    BY <1>10 DEF CP!Verify, CP!Receipt, Rotating
  <2>2. CASE op[o].pc = "verify" /\ db = CP!Hash(op[o].new)
    <3>1. db'.secret = store'
      BY <2>1, <2>2 DEF AloneInv, OperationSafe, CP!Hash
    <3> QED BY <3>1 DEF SilentInv, CP!Linked
  <2> QED BY <1>3, <2>1, <2>2
<1> QED BY <1>4, <1>5, <1>6, <1>7, <1>8, <1>9, <1>10

LEMMA SilentStep ==
  ASSUME OperationAssumption, ProvisioningTyped, AloneInv, SilentInv, CP!Next PROVE SilentInv'
BY EarlySilent, LateSilent DEF CP!Next

-----------------------------------------------------------------------------
LEMMA StutterKeeps ==
  ASSUME UNCHANGED CP!vars
  PROVE  /\ ProvisioningTyped => ProvisioningTyped'
         /\ SplitInv => SplitInv'
         /\ AloneInv => AloneInv'
         /\ SilentInv => SilentInv'
<1>1. /\ db' = db /\ store' = store /\ bak' = bak /\ lock' = lock /\ receipts' = receipts /\ op' = op
      /\ fresh' = fresh /\ applied' = applied /\ rolled' = rolled /\ lost' = lost
  BY DEF CP!vars
<1>2. ProvisioningTyped => ProvisioningTyped'
  BY <1>1 DEF ProvisioningTyped, Spent
<1>3. SplitInv => SplitInv'
  BY <1>1 DEF SplitInv, Frozen
<1>4. AloneInv => AloneInv'
  BY <1>1 DEF AloneInv, OperationSafe, InRotation, CP!Id
<1>5. SilentInv => SilentInv'
  BY <1>1 DEF SilentInv, AtWork, Flagged, CP!Has, CP!Linked
<1> QED BY <1>2, <1>3, <1>4, <1>5

LEMMA SplitsInit == ASSUME CP!Init PROVE SplitInv
BY DEF CP!Init, CP!Idle, SplitInv, Frozen, Rotating

LEMMA AloneInit == ASSUME CP!Init PROVE AloneInv /\ SilentInv
<1>1. \A o \in Ops : op[o].pc = "idle"
  BY DEF CP!Init, CP!Idle
<1>2. applied = {} /\ rolled = {} /\ (db = CP!NoHash \/ (db = CP!Hash(1) /\ store = 1))
  BY DEF CP!Init
<1>3. AloneInv
  BY <1>1, <1>2 DEF AloneInv, OperationSafe, InRotation, Rotating
<1>4. SilentInv
  BY <1>2 DEF SilentInv, CP!Linked, CP!Hash
<1> QED BY <1>3, <1>4

LEMMA ProvisioningAlways == ASSUME OperationAssumption PROVE CP!Spec => []ProvisioningTyped
<1>1. CP!Init => ProvisioningTyped
  BY ProvisioningInit
<1>2. ProvisioningTyped /\ [CP!Next]_(CP!vars) => ProvisioningTyped'
  BY ProvisioningStep, StutterKeeps
<1> QED BY <1>1, <1>2, PTL DEF CP!Spec

(* The secrets, the lock and the receipts of the credential stay in their  *)
(* sets, and a rotation that began on a split nobody was working on never  *)
(* gets past the gate (rotation-seam.js), for any operations, overlapping  *)
(* or not, and any faults.                                                 *)
THEOREM SplitsAreStopped ==
  ASSUME OperationAssumption PROVE CP!Spec => [](CP!TypeOK /\ CP!SplitStops)
<1>1. CP!Init => ProvisioningTyped /\ SplitInv
  BY ProvisioningInit, SplitsInit
<1>2. ProvisioningTyped /\ SplitInv /\ [CP!Next]_(CP!vars) => SplitInv'
  BY SplitStep, StutterKeeps
<1>3. ASSUME ProvisioningTyped, SplitInv PROVE CP!TypeOK /\ CP!SplitStops
  <2>1. fresh \in Nat /\ (db = CP!NoHash \/ db \in Secrets(fresh))
    BY <1>3 DEF ProvisioningTyped
  <2>2. db.secret \in 0..fresh
    BY <2>1 DEF Secrets, CP!NoHash
  <2>3. PICK R : R = [id : CP!Ids, outcome : CP!Outcomes]
    OBVIOUS
  <2>4. receipts \in Seq(R)
    BY <1>3, <2>3 DEF ProvisioningTyped
  <2>5. \A n \in DOMAIN receipts : receipts[n] \in R
    BY <2>4
  <2>6. \A n \in DOMAIN receipts : receipts[n].outcome \in CP!Outcomes
    BY <2>3, <2>5
  <2>7. CP!SplitStops
    BY <1>3 DEF SplitInv, CP!SplitStops, Rotating
  <2> QED BY <1>3, <2>2, <2>6, <2>7 DEF ProvisioningTyped, CP!TypeOK
<1> QED BY <1>1, <1>2, <1>3, ProvisioningAlways, PTL DEF CP!Spec

(* executeRotation, one at a time, beside any number of bootstraps of      *)
(* ensureAgentCredential: a split between the Auth database and the store  *)
(* has a receipt, unless a process died or a call failed with an effect    *)
(* nobody knows.                                                           *)
THEOREM SplitsAreFlagged ==
  ASSUME OperationAssumption, Overlap = FALSE PROVE CP!Spec => []CP!NoSilentSplit
<1>1. CP!Init => AloneInv /\ SilentInv
  BY AloneInit
<1>2. ProvisioningTyped /\ AloneInv /\ SilentInv /\ [CP!Next]_(CP!vars) => AloneInv' /\ SilentInv'
  BY AloneStep, SilentStep, StutterKeeps
<1>3. ASSUME ProvisioningTyped, SilentInv PROVE CP!NoSilentSplit
  <2>1. SUFFICES ASSUME CP!Quiet, ~lost, db # CP!NoHash, ~Flagged PROVE CP!Linked
    BY DEF CP!NoSilentSplit, Flagged
  <2>2. ~\E o \in Ops : AtWork(o)
    BY <2>1 DEF CP!Quiet, AtWork, Rotating
  <2> QED BY <1>3, <2>1, <2>2 DEF SilentInv
<1> QED BY <1>1, <1>2, <1>3, ProvisioningAlways, PTL DEF CP!Spec

-----------------------------------------------------------------------------
(* The development executions: one writer, its worktree, its queue         *)
(* (DevelopmentExecution).                                                 *)
CONSTANTS Execs, DedupeKeys, NoKey, MaxWorktrees, MaxContinues, OwnerCrashes

VARIABLES led, alive, exits, timers, handler, left, owning, runs, ownerCrashes

DE == INSTANCE DevelopmentExecution WITH
  Keys <- DedupeKeys, MaxCrashes <- OwnerCrashes, up <- owning, crashes <- ownerCrashes

(* Which executions there can be is bounded, and so are the worktrees. *)
WorktreeAssumption == IsFiniteSet(Execs) /\ MaxWorktrees \in Nat

Dispositions == {"pending", "delivered", "undelivered"}
ExecutionStates == DE!Terminal \cup {"undefined", "STARTING", "RUNNING", "WAITING"}

Record ==
  [state : ExecutionStates, key : DedupeKeys \cup {NoKey}, run : Nat, queue : Seq(Dispositions)]

LaunchSteps == {"starting", "waiting", "deliver", "spawn", "running"}

Handlers ==
  {DE!Idle} \cup [pc : LaunchSteps, exec : Execs]
    \cup [pc : {"kill", "close"}, exec : Execs, outcome : DE!Terminal]

ExecutionTyped ==
  /\ led \in [Execs -> Record \cup {DE!Unborn}]
  /\ runs \in [Execs -> Nat]
  /\ \A e \in Execs : DE!Born(e) => led[e].run <= runs[e]
  /\ timers \subseteq Execs /\ left \subseteq Execs
  /\ handler \in Handlers

(* A process and the exit that tells of its end are those of the last run, *)
(* a run has one exit, and never both.                                     *)
LastRun(e) ==
  /\ \A n : <<e, n>> \in alive => DE!Born(e) /\ n = runs[e]
  /\ \A n, o : <<e, n, o>> \in exits => DE!Born(e) /\ n = runs[e]
  /\ \A n, o, m, p : <<e, n, o>> \in exits /\ <<e, m, p>> \in exits => o = p
  /\ \A n, o, m : <<e, n, o>> \in exits => <<e, m>> \notin alive

Running(e) == \E n : <<e, n>> \in alive
Exited(e) == \E n, o : <<e, n, o>> \in exits

(* What the running handler relies on between two of its steps. *)
HandlerSafe ==
  /\ handler # DE!Idle => owning /\ DE!Open(handler.exec)
  /\ handler # DE!Idle /\ left # {} => handler.pc = "close" /\ handler.outcome = "OUTCOME_UNKNOWN"
  /\ handler.pc \in LaunchSteps \ {"running"} => ~Running(handler.exec) /\ ~Exited(handler.exec)
  /\ handler.pc = "close" /\ handler.outcome # "OUTCOME_UNKNOWN" => ~Running(handler.exec)

(* The ledger knows the live process of an open execution, unless a        *)
(* handler or the recovery is on its way to it.                            *)
ProcessKnown(e) ==
  owning /\ DE!Open(e) /\ e \notin left /\ handler # DE!At("running", e)
    /\ handler # DE!Closing(e, "OUTCOME_UNKNOWN")
    => \A n : <<e, n>> \in alive => n = led[e].run

(* What a terminal line leaves behind. *)
Closed(e) ==
  DE!Born(e) /\ ~DE!Open(e) =>
    /\ DE!Pending(e) = {}
    /\ led[e].state # "OUTCOME_UNKNOWN" => ~Running(e)

OpenOnes == {e \in Execs : DE!Open(e)}

ExecutionInv ==
  /\ ExecutionTyped
  /\ HandlerSafe
  /\ \A e \in Execs : LastRun(e) /\ ProcessKnown(e) /\ Closed(e)
  /\ Cardinality(OpenOnes) <= MaxWorktrees

-----------------------------------------------------------------------------
LEMMA LaunchNames ==
  ASSUME NEW e \in Execs, NEW p \in LaunchSteps
  PROVE  DE!At(p, e) \in Handlers /\ DE!At(p, e).pc = p /\ DE!At(p, e).exec = e
BY DEF DE!At, Handlers

LEMMA EndNames ==
  ASSUME NEW e \in Execs, NEW s \in DE!Terminal
  PROVE  /\ DE!Killing(e, s) \in Handlers /\ DE!Closing(e, s) \in Handlers
         /\ DE!Killing(e, s).pc = "kill" /\ DE!Closing(e, s).pc = "close"
         /\ DE!Killing(e, s).exec = e /\ DE!Closing(e, s).exec = e
         /\ DE!Killing(e, s).outcome = s /\ DE!Closing(e, s).outcome = s
BY DEF DE!Killing, DE!Closing, Handlers

LEMMA IdleNames == DE!Idle \in Handlers /\ DE!Idle.pc = "idle"
BY DEF DE!Idle, Handlers

(* The next step tells what the handler is. *)
LEMMA HandlerIs ==
  ASSUME NEW h \in Handlers
  PROVE  /\ h.pc = "idle" <=> h = DE!Idle
         /\ h # DE!Idle => h.exec \in Execs
         /\ h.pc \in {"kill", "close"} => h.outcome \in DE!Terminal
         /\ h.pc = "close" => h = DE!Closing(h.exec, h.outcome)
         /\ h.pc \in LaunchSteps => h = DE!At(h.pc, h.exec)
BY DEF DE!At, DE!Closing, DE!Idle, Handlers, LaunchSteps

LEMMA BornTyped ==
  ASSUME ExecutionTyped, NEW e \in Execs
  PROVE  /\ DE!Born(e) <=> led[e] \in Record
         /\ DE!Born(e) => /\ led[e].state \in ExecutionStates /\ led[e].run \in Nat
                          /\ led[e].queue \in Seq(Dispositions)
         /\ runs[e] \in Nat
<1>1. led[e] \in Record \cup {DE!Unborn}
  BY DEF ExecutionTyped
<1>2. DE!Unborn \notin Record
  BY DEF DE!Unborn, Record, ExecutionStates, DE!Terminal
<1> QED BY <1>1, <1>2 DEF DE!Born, Record, ExecutionTyped

(* A state line changes the state of its execution. *)
LEMMA LineMoves ==
  ASSUME ExecutionTyped, NEW e \in Execs, DE!Born(e), NEW s \in ExecutionStates, DE!StateLine(e, s)
  PROVE  /\ led' \in [Execs -> Record \cup {DE!Unborn}]
         /\ DE!Born(e)' /\ led'[e] = [led[e] EXCEPT !.state = s] /\ led'[e].state = s
         /\ led'[e].run = led[e].run /\ led'[e].queue = led[e].queue
         /\ \A f \in Execs \ {e} : led'[f] = led[f]
<1>1. led[e] \in Record
  BY BornTyped
<1>2. [led[e] EXCEPT !.state = s] \in Record
  BY <1>1 DEF Record
<1>3. led' = [led EXCEPT ![e] = [led[e] EXCEPT !.state = s]]
  BY DEF DE!StateLine
<1>4. led \in [Execs -> Record \cup {DE!Unborn}]
  BY DEF ExecutionTyped
<1>5. led' \in [Execs -> Record \cup {DE!Unborn}] /\ led'[e] = [led[e] EXCEPT !.state = s]
      /\ \A f \in Execs \ {e} : led'[f] = led[f]
  BY <1>2, <1>3, <1>4
<1>6. led'[e].state = s /\ led'[e].run = led[e].run /\ led'[e].queue = led[e].queue
  BY <1>1, <1>5 DEF Record
<1>7. led'[e] # DE!Unborn
  BY <1>6 DEF DE!Unborn, ExecutionStates, DE!Terminal
<1> QED BY <1>5, <1>6, <1>7 DEF DE!Born

(* A change of the queue, too, leaves an execution what it is. *)
LEMMA QueueMoves ==
  ASSUME ExecutionTyped, NEW e \in Execs, DE!Born(e), NEW q \in Seq(Dispositions),
         led' = [led EXCEPT ![e].queue = q]
  PROVE  /\ led' \in [Execs -> Record \cup {DE!Unborn}]
         /\ DE!Born(e)' /\ led'[e].state = led[e].state /\ led'[e].run = led[e].run
         /\ \A f \in Execs \ {e} : led'[f] = led[f]
<1>1. led[e] \in Record
  BY BornTyped
<1>2. [led[e] EXCEPT !.queue = q] \in Record
  BY <1>1 DEF Record
<1>3. led \in [Execs -> Record \cup {DE!Unborn}]
  BY DEF ExecutionTyped
<1>4. led' = [led EXCEPT ![e] = [led[e] EXCEPT !.queue = q]]
  OBVIOUS
<1>5. led' \in [Execs -> Record \cup {DE!Unborn}] /\ led'[e] = [led[e] EXCEPT !.queue = q]
      /\ \A f \in Execs \ {e} : led'[f] = led[f]
  BY <1>2, <1>3, <1>4
<1>6. led'[e].state = led[e].state /\ led'[e].run = led[e].run
  BY <1>1, <1>5 DEF Record
<1>7. led'[e] # DE!Unborn
  BY <1>1, <1>6 DEF DE!Unborn, Record, ExecutionStates, DE!Terminal
<1> QED BY <1>5, <1>6, <1>7 DEF DE!Born

LEMMA DisposeMoves ==
  ASSUME ExecutionTyped, NEW e \in Execs, DE!Born(e), NEW d \in Dispositions, DE!Dispose(e, d)
  PROVE  /\ led' \in [Execs -> Record \cup {DE!Unborn}]
         /\ DE!Born(e)' /\ led'[e].state = led[e].state /\ led'[e].run = led[e].run
         /\ \A f \in Execs \ {e} : led'[f] = led[f]
<1>1. led[e].queue \in Seq(Dispositions)
  BY BornTyped
<1>2. PICK n \in DOMAIN led[e].queue : led' = [led EXCEPT ![e].queue[n] = d]
  BY DEF DE!Dispose, DE!Pending
<1>3. PICK q : q = [led[e].queue EXCEPT ![n] = d]
  OBVIOUS
<1>4. q \in Seq(Dispositions)
  BY <1>1, <1>2, <1>3, ExceptSeq
<1>5. led' = [led EXCEPT ![e].queue = q]
  BY <1>2, <1>3
<1> QED BY <1>4, <1>5, QueueMoves

-----------------------------------------------------------------------------
(* An execution whose record stays, and which gets no process and no exit. *)
LEMMA ExecutionKept ==
  ASSUME NEW f, LastRun(f), Closed(f), led'[f] = led[f], runs'[f] = runs[f],
         \A n : <<f, n>> \in alive' => <<f, n>> \in alive,
         \A n, o : <<f, n, o>> \in exits' => <<f, n, o>> \in exits
  PROVE  /\ LastRun(f)' /\ Closed(f)'
         /\ DE!Born(f)' <=> DE!Born(f)
         /\ DE!Open(f)' <=> DE!Open(f)
         /\ ~Running(f) => ~Running(f)'
         /\ ~Exited(f) => ~Exited(f)'
<1>1. DE!Born(f)' <=> DE!Born(f)
  BY DEF DE!Born
<1>2. DE!Open(f)' <=> DE!Open(f)
  BY <1>1 DEF DE!Open
<1>3. LastRun(f)'
  BY <1>1 DEF LastRun
<1>4. ~Running(f) => ~Running(f)'
  BY DEF Running
<1>5. Closed(f)'
  BY <1>1, <1>2, <1>4 DEF Closed, DE!Pending
<1> QED BY <1>1, <1>2, <1>3, <1>4, <1>5 DEF Exited

(* An open execution whose record changes while its processes and exits    *)
(* stay.                                                                   *)
LEMMA RecordKept ==
  ASSUME NEW f, LastRun(f), DE!Born(f)', runs'[f] = runs[f], alive' = alive, exits' = exits,
         DE!Born(f) \/ (~Running(f) /\ ~Exited(f))
  PROVE  LastRun(f)' /\ (Running(f)' <=> Running(f)) /\ (Exited(f)' <=> Exited(f))
BY DEF LastRun, Running, Exited

LEMMA StartKeeps ==
  ASSUME WorktreeAssumption, ExecutionInv, NEW e \in Execs, NEW k \in DedupeKeys \cup {NoKey},
         DE!Start(e, k)
  PROVE  ExecutionInv'
<1>1. PICK r : r = [state |-> "undefined", key |-> k, run |-> 0, queue |-> <<>>]
  OBVIOUS
<1>2. r \in Record /\ r.state = "undefined" /\ r.run = 0
  BY <1>1 DEF Record, ExecutionStates
<1>3. /\ led' \in [Execs -> Record \cup {DE!Unborn}] /\ led'[e] = r
      /\ \A f \in Execs \ {e} : led'[f] = led[f]
  BY <1>1, <1>2 DEF DE!Start, ExecutionInv, ExecutionTyped
<1>4. /\ handler' = DE!At("starting", e) /\ left' = {} /\ owning' = TRUE /\ left = {} /\ owning
      /\ handler = DE!Idle /\ ~DE!Born(e)
      /\ UNCHANGED <<alive, exits, runs, timers>>
  BY DEF DE!Start, DE!Free, ExecutionInv
<1>5. ~Running(e) /\ ~Exited(e)
  BY <1>4 DEF Running, Exited, ExecutionInv, LastRun
<1>6. DE!Born(e)' /\ DE!Open(e)'
  BY <1>2, <1>3 DEF DE!Born, DE!Open, DE!Unborn, DE!Terminal
<1>7. \A f \in Execs \ {e} : /\ LastRun(f)' /\ Closed(f)'
                            /\ (DE!Born(f)' <=> DE!Born(f)) /\ (DE!Open(f)' <=> DE!Open(f))
  BY <1>3, <1>4, ExecutionKept DEF ExecutionInv
<1>8. LastRun(e)' /\ ~Running(e)' /\ ~Exited(e)'
  BY <1>4, <1>5, <1>6, RecordKept DEF ExecutionInv
<1>9. "starting" \in LaunchSteps \ {"running"}
  BY DEF LaunchSteps
<1>10. handler' \in Handlers /\ handler'.pc = "starting" /\ handler'.exec = e
  <2>1. "starting" \in LaunchSteps
    BY <1>9
  <2> QED BY <1>4, <2>1, LaunchNames
<1>11. ExecutionTyped'
  <2>1. \A f \in Execs : (DE!Born(f) => led[f].run <= runs[f])'
    <3>1. runs[e] \in Nat
      BY DEF ExecutionInv, ExecutionTyped
    <3> QED BY <1>2, <1>3, <1>4, <1>7, <3>1 DEF ExecutionInv, ExecutionTyped
  <2> QED BY <1>3, <1>4, <1>10, <2>1 DEF ExecutionInv, ExecutionTyped
<1>12. HandlerSafe'
  BY <1>4, <1>6, <1>8, <1>10 DEF HandlerSafe
<1>13. \A f \in Execs : ProcessKnown(f)'
  <2>1. ASSUME NEW f \in Execs \ {e}, NEW n, DE!Open(f)', <<f, n>> \in alive' PROVE n = led'[f].run
    <3>1. handler # DE!At("running", f) /\ handler # DE!Closing(f, "OUTCOME_UNKNOWN")
      BY <1>4 DEF DE!Idle, DE!At, DE!Closing
    <3>2. DE!Open(f) /\ <<f, n>> \in alive /\ f \notin left /\ led'[f] = led[f]
      BY <1>3, <1>4, <1>7, <2>1
    <3> QED BY <1>4, <3>1, <3>2 DEF ProcessKnown, ExecutionInv
  <2> QED BY <1>8, <2>1 DEF ProcessKnown, Running
<1>14. Cardinality(OpenOnes)' <= MaxWorktrees
  <2>1. Cardinality(OpenOnes) < MaxWorktrees
    BY Zenon DEF DE!Start, DE!Cardinality, Cardinality, OpenOnes
  <2>2. OpenOnes' = OpenOnes \cup {e} /\ e \notin OpenOnes
    BY <1>4, <1>6, <1>7 DEF OpenOnes, DE!Open
  <2>3. IsFiniteSet(OpenOnes)
    BY FS_Subset DEF WorktreeAssumption, OpenOnes
  <2>4. Cardinality(OpenOnes') = Cardinality(OpenOnes) + 1 /\ Cardinality(OpenOnes) \in Nat
    BY <2>2, <2>3, FS_AddElement, FS_CardinalityType
  <2> QED BY <2>1, <2>4 DEF WorktreeAssumption
<1>15. Closed(e)'
  BY <1>6 DEF Closed
<1> QED BY <1>7, <1>8, <1>11, <1>12, <1>13, <1>14, <1>15 DEF ExecutionInv

(* The open executions are no more than before. *)
LEMMA CapacityKept ==
  ASSUME WorktreeAssumption, ExecutionInv, \A f \in Execs : DE!Open(f)' => DE!Open(f)
  PROVE  (Cardinality(OpenOnes) <= MaxWorktrees)'
<1>1. OpenOnes' \subseteq OpenOnes
  BY DEF OpenOnes
<1>2. IsFiniteSet(OpenOnes)
  BY FS_Subset DEF WorktreeAssumption, OpenOnes
<1>3. Cardinality(OpenOnes') <= Cardinality(OpenOnes) /\ IsFiniteSet(OpenOnes')
  BY <1>1, <1>2, FS_Subset
<1>4. Cardinality(OpenOnes') \in Nat /\ Cardinality(OpenOnes) \in Nat
  BY <1>2, <1>3, FS_CardinalityType
<1> QED BY <1>3, <1>4 DEF ExecutionInv, WorktreeAssumption

(* The handler works on another execution, if it works at all. *)
LEMMA KnownKept ==
  ASSUME NEW f, ProcessKnown(f), led'[f] = led[f], owning' => owning, f \in left => f \in left',
         \A n : <<f, n>> \in alive' => <<f, n>> \in alive,
         handler = DE!Idle \/ handler.exec # f
  PROVE  ProcessKnown(f)'
<1>1. DE!Open(f)' => DE!Open(f)
  BY DEF DE!Open, DE!Born
<1>2. handler # DE!At("running", f) /\ handler # DE!Closing(f, "OUTCOME_UNKNOWN")
  BY DEF DE!Idle, DE!At, DE!Closing
<1> QED BY <1>1, <1>2 DEF ProcessKnown

(* A line for an open execution; nothing but its record and the handler    *)
(* changes.                                                                *)
LEMMA LineKeeps ==
  ASSUME WorktreeAssumption, ExecutionInv, NEW e \in Execs, DE!Open(e),
         led' \in [Execs -> Record \cup {DE!Unborn}], DE!Born(e)', led'[e].run <= runs[e],
         \A f \in Execs \ {e} : led'[f] = led[f], handler' \in Handlers,
         UNCHANGED <<alive, exits, timers, left, owning, runs>>,
         handler = DE!Idle \/ handler.exec = e
  PROVE  /\ ExecutionTyped'
         /\ \A f \in Execs : LastRun(f)'
         /\ \A f \in Execs \ {e} : Closed(f)' /\ ProcessKnown(f)'
         /\ Running(e)' <=> Running(e)
         /\ Exited(e)' <=> Exited(e)
         /\ (Cardinality(OpenOnes) <= MaxWorktrees)'
<1>1. \A f \in Execs \ {e} : /\ LastRun(f)' /\ Closed(f)'
                            /\ (DE!Born(f)' <=> DE!Born(f)) /\ (DE!Open(f)' <=> DE!Open(f))
  BY ExecutionKept DEF ExecutionInv
<1>2. LastRun(e)' /\ (Running(e)' <=> Running(e)) /\ (Exited(e)' <=> Exited(e))
  BY RecordKept DEF ExecutionInv, DE!Open
<1>3. ExecutionTyped'
  <2>1. \A f \in Execs : (DE!Born(f) => led[f].run <= runs[f])'
    BY <1>1 DEF ExecutionInv, ExecutionTyped
  <2> QED BY <2>1 DEF ExecutionInv, ExecutionTyped
<1>4. \A f \in Execs \ {e} : ProcessKnown(f)'
  BY KnownKept DEF ExecutionInv
<1>5. (Cardinality(OpenOnes) <= MaxWorktrees)'
  BY <1>1, CapacityKept
<1> QED BY <1>1, <1>2, <1>3, <1>4, <1>5

LEMMA ContinueKeeps ==
  ASSUME WorktreeAssumption, ExecutionInv, NEW e \in Execs, DE!Continue(e)
  PROVE  ExecutionInv'
<1>1. PICK q : q = Append(led[e].queue, "pending")
  OBVIOUS
<1>2. /\ DE!Born(e) /\ led[e].state = "RUNNING" /\ DE!Open(e)
      /\ handler = DE!Idle /\ left = {} /\ owning
      /\ led' = [led EXCEPT ![e].queue = q]
      /\ UNCHANGED <<alive, exits, timers, handler, left, owning, runs>>
  BY <1>1 DEF DE!Continue, DE!Free, DE!Open, DE!Terminal
<1>3. q \in Seq(Dispositions)
  <2>1. led[e].queue \in Seq(Dispositions) /\ "pending" \in Dispositions
    BY <1>2, BornTyped DEF ExecutionInv, Dispositions
  <2> QED BY <1>1, <2>1
<1>4. /\ led' \in [Execs -> Record \cup {DE!Unborn}]
      /\ DE!Born(e)' /\ led'[e].state = led[e].state /\ led'[e].run = led[e].run
      /\ \A f \in Execs \ {e} : led'[f] = led[f]
  BY <1>2, <1>3, QueueMoves DEF ExecutionInv
<1>5. DE!Open(e)' /\ led'[e].run <= runs[e] /\ handler' \in Handlers
  BY <1>2, <1>4, IdleNames DEF DE!Open, ExecutionInv, ExecutionTyped
<1>6. /\ ExecutionTyped' /\ \A f \in Execs : LastRun(f)'
      /\ \A f \in Execs \ {e} : Closed(f)' /\ ProcessKnown(f)'
      /\ (Cardinality(OpenOnes) <= MaxWorktrees)'
  BY <1>2, <1>4, <1>5, LineKeeps
<1>7. HandlerSafe'
  BY <1>2, IdleNames DEF HandlerSafe, LaunchSteps
<1>8. ProcessKnown(e)'
  <2>1. ProcessKnown(e) /\ handler # DE!At("running", e) /\ handler # DE!Closing(e, "OUTCOME_UNKNOWN")
    BY <1>2 DEF ExecutionInv, DE!Idle, DE!At, DE!Closing
  <2> QED BY <1>2, <1>4, <2>1 DEF ProcessKnown
<1>9. Closed(e)'
  BY <1>5 DEF Closed
<1> QED BY <1>6, <1>7, <1>8, <1>9 DEF ExecutionInv

LEMMA LaunchKeeps ==
  ASSUME WorktreeAssumption, ExecutionInv, NEW e \in Execs,
         DE!Starting(e) \/ DE!Waiting(e) \/ DE!Deliver(e)
  PROVE  ExecutionInv'
<1>1. PICK p \in LaunchSteps \ {"running"}, q \in LaunchSteps \ {"running"} :
        handler = DE!At(p, e) /\ handler' = DE!At(q, e)
  BY DEF DE!Starting, DE!Waiting, DE!Deliver, DE!Launch, LaunchSteps
<1>2. /\ handler.pc = p /\ handler.exec = e /\ handler # DE!Idle
      /\ handler' \in Handlers /\ handler'.pc = q /\ handler'.exec = e /\ handler' # DE!Idle
  BY <1>1, LaunchNames DEF DE!Idle, LaunchSteps
<1>3. UNCHANGED <<alive, exits, timers, left, owning, runs>>
  BY DEF DE!Starting, DE!Waiting, DE!Deliver
<1>4. DE!Open(e) /\ DE!Born(e) /\ owning /\ left = {} /\ ~Running(e) /\ ~Exited(e)
  BY <1>1, <1>2 DEF ExecutionInv, HandlerSafe, LaunchSteps, DE!Open
<1>5. /\ led' \in [Execs -> Record \cup {DE!Unborn}]
      /\ DE!Born(e)' /\ led'[e].run = led[e].run /\ led'[e].state \notin DE!Terminal
      /\ \A f \in Execs \ {e} : led'[f] = led[f]
  <2>1. CASE DE!Starting(e) \/ DE!Waiting(e)
    <3>1. PICK s \in {"STARTING", "WAITING"} : DE!StateLine(e, s)
      BY <2>1 DEF DE!Starting, DE!Waiting
    <3>2. s \in ExecutionStates /\ s \notin DE!Terminal
      BY <3>1 DEF ExecutionStates, DE!Terminal
    <3> QED BY <1>4, <3>1, <3>2, LineMoves DEF ExecutionInv
  <2>2. CASE DE!Deliver(e)
    <3>1. DE!Dispose(e, "delivered") /\ "delivered" \in Dispositions
      BY <2>2 DEF DE!Deliver, Dispositions
    <3> QED BY <1>4, <3>1, DisposeMoves DEF ExecutionInv, DE!Open
  <2> QED BY <2>1, <2>2
<1>6. DE!Open(e)' /\ led'[e].run <= runs[e]
  BY <1>4, <1>5 DEF DE!Open, ExecutionInv, ExecutionTyped
<1>7. /\ ExecutionTyped' /\ \A f \in Execs : LastRun(f)'
      /\ \A f \in Execs \ {e} : Closed(f)' /\ ProcessKnown(f)'
      /\ ~Running(e)' /\ ~Exited(e)'
      /\ (Cardinality(OpenOnes) <= MaxWorktrees)'
  BY <1>2, <1>3, <1>4, <1>5, <1>6, LineKeeps
<1>8. HandlerSafe'
  BY <1>2, <1>3, <1>4, <1>6, <1>7 DEF HandlerSafe, LaunchSteps
<1>9. ProcessKnown(e)'
  BY <1>7 DEF ProcessKnown, Running
<1>10. Closed(e)'
  BY <1>6 DEF Closed
<1> QED BY <1>7, <1>8, <1>9, <1>10 DEF ExecutionInv

LEMMA RunningKeeps ==
  ASSUME WorktreeAssumption, ExecutionInv, NEW e \in Execs, DE!Running(e) PROVE ExecutionInv'
<1>1. /\ handler = DE!At("running", e) /\ handler' = DE!Idle
      /\ led' = [led EXCEPT ![e].state = "RUNNING", ![e].run = runs[e]]
      /\ UNCHANGED <<alive, exits, timers, left, owning, runs>>
  BY DEF DE!Running, DE!Launch
<1>2. /\ handler.pc = "running" /\ handler.exec = e /\ handler # DE!Idle
      /\ handler' \in Handlers /\ handler'.pc = "idle"
  <2>1. "running" \in LaunchSteps
    BY DEF LaunchSteps
  <2> QED BY <1>1, <2>1, LaunchNames, IdleNames DEF DE!Idle, DE!At
<1>3. DE!Open(e) /\ DE!Born(e) /\ led[e] \in Record /\ runs[e] \in Nat
  BY <1>2, BornTyped DEF ExecutionInv, HandlerSafe, DE!Open
<1>4. PICK r : r = [[led[e] EXCEPT !.state = "RUNNING"] EXCEPT !.run = runs[e]]
  OBVIOUS
<1>5. r \in Record /\ r.state = "RUNNING" /\ r.run = runs[e]
  <2>1. "RUNNING" \in ExecutionStates
    BY DEF ExecutionStates
  <2> QED BY <1>3, <1>4, <2>1 DEF Record
<1>6. /\ led' \in [Execs -> Record \cup {DE!Unborn}] /\ led'[e] = r
      /\ \A f \in Execs \ {e} : led'[f] = led[f]
  <2>1. led \in [Execs -> Record \cup {DE!Unborn}]
    BY DEF ExecutionInv, ExecutionTyped
  <2>2. led' = [led EXCEPT ![e] = r]
    BY <1>1, <1>4, <2>1
  <2> QED BY <1>5, <2>1, <2>2
<1>7. DE!Born(e)' /\ DE!Open(e)' /\ led'[e].run <= runs[e]
  BY <1>3, <1>5, <1>6 DEF DE!Born, DE!Open, DE!Unborn, DE!Terminal
<1>8. /\ ExecutionTyped' /\ \A f \in Execs : LastRun(f)'
      /\ \A f \in Execs \ {e} : Closed(f)' /\ ProcessKnown(f)'
      /\ (Cardinality(OpenOnes) <= MaxWorktrees)'
  BY <1>1, <1>2, <1>3, <1>6, <1>7, LineKeeps
<1>9. HandlerSafe'
  BY <1>1, <1>2 DEF HandlerSafe, LaunchSteps
<1>10. ProcessKnown(e)' /\ Closed(e)'
  <2>1. \A n : <<e, n>> \in alive' => n = led'[e].run
    BY <1>1, <1>5, <1>6 DEF ExecutionInv, LastRun
  <2> QED BY <1>7, <2>1 DEF ProcessKnown, Closed
<1> QED BY <1>8, <1>9, <1>10 DEF ExecutionInv

LEMMA CloseKeeps ==
  ASSUME WorktreeAssumption, ExecutionInv, NEW e \in Execs, NEW s \in DE!Terminal, DE!Close(e, s)
  PROVE  ExecutionInv'
<1>1. handler = DE!Closing(e, s) /\ UNCHANGED <<alive, exits, timers, left, owning, runs>>
  BY DEF DE!Close
<1>2. handler.pc = "close" /\ handler.exec = e /\ handler.outcome = s /\ handler # DE!Idle
  BY <1>1, EndNames DEF DE!Idle
<1>3. DE!Open(e) /\ DE!Born(e)
  BY <1>2 DEF ExecutionInv, HandlerSafe, DE!Open
<1>4. /\ s # "OUTCOME_UNKNOWN" => ~Running(e)
      /\ led[e].run <= runs[e] /\ handler \in Handlers
  BY <1>2, <1>3 DEF ExecutionInv, ExecutionTyped, HandlerSafe
<1>5. CASE DE!Dispose(e, "undelivered") /\ handler' = handler
  <2>1. /\ led' \in [Execs -> Record \cup {DE!Unborn}]
        /\ DE!Born(e)' /\ led'[e].state = led[e].state /\ led'[e].run = led[e].run
        /\ \A f \in Execs \ {e} : led'[f] = led[f]
    BY <1>3, <1>5, DisposeMoves DEF ExecutionInv, Dispositions
  <2>2. DE!Open(e)' /\ led'[e].run <= runs[e]
    BY <1>3, <1>4, <2>1 DEF DE!Open
  <2>3. /\ ExecutionTyped' /\ \A f \in Execs : LastRun(f)'
        /\ \A f \in Execs \ {e} : Closed(f)' /\ ProcessKnown(f)'
        /\ Running(e)' <=> Running(e)
        /\ (Cardinality(OpenOnes) <= MaxWorktrees)'
    BY <1>1, <1>2, <1>3, <1>4, <1>5, <2>1, <2>2, LineKeeps
  <2>4. HandlerSafe'
    BY <1>1, <1>2, <1>5, <2>2, <2>3 DEF ExecutionInv, HandlerSafe, LaunchSteps
  <2>5. ProcessKnown(e)'
    <3>1. CASE s = "OUTCOME_UNKNOWN"
      BY <1>1, <1>5, <3>1 DEF ProcessKnown
    <3>2. CASE s # "OUTCOME_UNKNOWN"
      BY <1>3, <1>4, <2>3, <3>2 DEF ProcessKnown, Running
    <3> QED BY <3>1, <3>2
  <2> QED BY <2>2, <2>3, <2>4, <2>5 DEF ExecutionInv, Closed
<1>6. CASE DE!Pending(e) = {} /\ handler' = DE!Idle /\ DE!StateLine(e, s)
  <2>1. /\ led' \in [Execs -> Record \cup {DE!Unborn}]
        /\ DE!Born(e)' /\ led'[e].state = s /\ led'[e].run = led[e].run
        /\ led'[e].queue = led[e].queue
        /\ \A f \in Execs \ {e} : led'[f] = led[f]
    BY <1>3, <1>6, LineMoves DEF ExecutionInv, ExecutionStates
  <2>2. ~DE!Open(e)' /\ led'[e].run <= runs[e] /\ handler' \in Handlers
    BY <1>4, <1>6, <2>1, IdleNames DEF DE!Open
  <2>3. /\ ExecutionTyped' /\ \A f \in Execs : LastRun(f)'
        /\ \A f \in Execs \ {e} : Closed(f)' /\ ProcessKnown(f)'
        /\ Running(e)' <=> Running(e)
        /\ (Cardinality(OpenOnes) <= MaxWorktrees)'
    BY <1>1, <1>2, <1>3, <2>1, <2>2, LineKeeps
  <2>4. HandlerSafe'
    BY <1>6, IdleNames DEF HandlerSafe, LaunchSteps
  <2>5. ProcessKnown(e)'
    BY <2>2 DEF ProcessKnown
  <2>6. Closed(e)'
    <3>1. DE!Pending(e)' = {}
      BY <1>6, <2>1 DEF DE!Pending
    <3>2. led'[e].state # "OUTCOME_UNKNOWN" => ~Running(e)'
      BY <1>2, <2>1, <2>3 DEF ExecutionInv, HandlerSafe
    <3> QED BY <3>1, <3>2 DEF Closed
  <2> QED BY <2>3, <2>4, <2>5, <2>6 DEF ExecutionInv
<1> QED BY <1>3, <1>5, <1>6 DEF DE!Close, DE!TerminalLine

-----------------------------------------------------------------------------
(* No record changes, and nothing is started. *)
LEMMA LedgerKept ==
  ASSUME WorktreeAssumption, ExecutionInv, led' = led, runs' = runs,
         alive' \subseteq alive, exits' \subseteq exits,
         timers' \subseteq Execs, left' \subseteq Execs, handler' \in Handlers
  PROVE  /\ ExecutionTyped'
         /\ \A f \in Execs : LastRun(f)' /\ Closed(f)'
         /\ \A f : /\ (DE!Born(f)' <=> DE!Born(f)) /\ (DE!Open(f)' <=> DE!Open(f))
                   /\ (~Running(f) => ~Running(f)') /\ (~Exited(f) => ~Exited(f)')
         /\ (Cardinality(OpenOnes) <= MaxWorktrees)'
<1>1. \A f : (DE!Born(f)' <=> DE!Born(f)) /\ (DE!Open(f)' <=> DE!Open(f))
  BY DEF DE!Born, DE!Open
<1>2. \A f : (~Running(f) => ~Running(f)') /\ (~Exited(f) => ~Exited(f)')
  BY DEF Running, Exited
<1>3. \A f \in Execs : LastRun(f)' /\ Closed(f)'
  BY ExecutionKept DEF ExecutionInv
<1>4. ExecutionTyped'
  BY <1>1 DEF ExecutionInv, ExecutionTyped
<1>5. (Cardinality(OpenOnes) <= MaxWorktrees)'
  BY <1>1, CapacityKept
<1> QED BY <1>1, <1>2, <1>3, <1>4, <1>5

(* cancel and the timeout go on to kill the process of an open execution. *)
LEMMA KillingKeeps ==
  ASSUME WorktreeAssumption, ExecutionInv, NEW e \in Execs, DE!Cancel(e) \/ DE!Timeout(e)
  PROVE  ExecutionInv'
<1>1. /\ owning /\ handler = DE!Idle /\ left = {}
      /\ UNCHANGED <<led, alive, exits, left, owning, runs>> /\ timers' \subseteq timers
  BY DEF DE!Cancel, DE!Timeout, DE!Free
<1>2. \/ handler' = DE!Idle
      \/ DE!Open(e) /\ \E s \in {"CANCELLED", "FAILED"} : handler' = DE!Killing(e, s)
  BY DEF DE!Cancel, DE!Timeout
<1>3. \/ handler' = DE!Idle
      \/ DE!Open(e) /\ handler' # DE!Idle /\ handler'.pc = "kill" /\ handler'.exec = e
  BY <1>2, EndNames DEF DE!Terminal, DE!Idle
<1>4. handler' \in Handlers
  BY <1>2, EndNames, IdleNames DEF DE!Terminal
<1>5. /\ ExecutionTyped' /\ \A f \in Execs : LastRun(f)' /\ Closed(f)'
      /\ \A f : DE!Open(f)' <=> DE!Open(f)
      /\ (Cardinality(OpenOnes) <= MaxWorktrees)'
  BY <1>1, <1>4, LedgerKept DEF ExecutionInv, ExecutionTyped
<1>6. HandlerSafe'
  BY <1>1, <1>3, <1>5, IdleNames DEF HandlerSafe, LaunchSteps
<1>7. \A f \in Execs : ProcessKnown(f)'
  BY <1>1, KnownKept DEF ExecutionInv
<1> QED BY <1>5, <1>6, <1>7 DEF ExecutionInv

LEMMA OnExitKeeps ==
  ASSUME WorktreeAssumption, ExecutionInv, NEW e \in Execs, NEW n, NEW o, DE!OnExit(e, n, o)
  PROVE  ExecutionInv'
<1>1. /\ owning /\ handler = DE!Idle /\ left = {} /\ <<e, n, o>> \in exits
      /\ exits' = exits \ {<<e, n, o>>} /\ timers' \subseteq timers
      /\ UNCHANGED <<led, alive, left, owning, runs>>
  BY DEF DE!OnExit, DE!Free
<1>2. \/ handler' = DE!Idle
      \/ DE!Open(e) /\ handler' = DE!At("waiting", e)
      \/ DE!Open(e) /\ \E s \in DE!Terminal : handler' = DE!Closing(e, s)
  BY DEF DE!OnExit, DE!Handles, DE!Terminal
<1>3. \/ handler' = DE!Idle
      \/ DE!Open(e) /\ handler' # DE!Idle /\ handler'.pc \in {"waiting", "close"} /\ handler'.exec = e
  BY <1>2, EndNames, LaunchNames DEF LaunchSteps, DE!Idle
<1>4. handler' \in Handlers
  BY <1>2, EndNames, LaunchNames, IdleNames DEF LaunchSteps
<1>5. /\ ExecutionTyped' /\ \A f \in Execs : LastRun(f)' /\ Closed(f)'
      /\ \A f : DE!Open(f)' <=> DE!Open(f)
      /\ ~Running(e) => ~Running(e)'
      /\ (Cardinality(OpenOnes) <= MaxWorktrees)'
  BY <1>1, <1>4, LedgerKept DEF ExecutionInv, ExecutionTyped
<1>6. ~Running(e)' /\ ~Exited(e)'
  <2>1. \A m : <<e, m>> \notin alive
    BY <1>1 DEF ExecutionInv, LastRun
  <2>2. \A m, p : <<e, m, p>> \in exits => m = n /\ p = o
    BY <1>1 DEF ExecutionInv, LastRun
  <2> QED BY <1>1, <1>5, <2>1, <2>2 DEF Running, Exited
<1>7. HandlerSafe'
  BY <1>1, <1>3, <1>5, <1>6, IdleNames DEF HandlerSafe, LaunchSteps
<1>8. \A f \in Execs : ProcessKnown(f)'
  BY <1>1, KnownKept DEF ExecutionInv
<1> QED BY <1>5, <1>7, <1>8 DEF ExecutionInv

LEMMA RecoverKeeps ==
  ASSUME WorktreeAssumption, ExecutionInv, NEW e \in Execs, DE!Recover(e) PROVE ExecutionInv'
<1>1. /\ owning /\ handler = DE!Idle /\ e \in left /\ left' = left \ {e}
      /\ UNCHANGED <<led, alive, exits, timers, owning, runs>>
  BY DEF DE!Recover
<1>2. \/ handler' = DE!Idle /\ ~DE!Orphan(e)
      \/ DE!Orphan(e) /\ handler' = DE!Closing(e, "OUTCOME_UNKNOWN")
  BY DEF DE!Recover
<1>3. "OUTCOME_UNKNOWN" \in DE!Terminal
  BY DEF DE!Terminal
<1>4. handler' \in Handlers
  BY <1>2, <1>3, EndNames, IdleNames
<1>5. /\ ExecutionTyped' /\ \A f \in Execs : LastRun(f)' /\ Closed(f)'
      /\ \A f : DE!Open(f)' <=> DE!Open(f)
      /\ (Cardinality(OpenOnes) <= MaxWorktrees)'
  BY <1>1, <1>4, LedgerKept DEF ExecutionInv, ExecutionTyped
<1>6. HandlerSafe'
  <2>1. CASE handler' = DE!Idle
    BY <2>1, IdleNames DEF HandlerSafe, LaunchSteps
  <2>2. CASE DE!Orphan(e) /\ handler' = DE!Closing(e, "OUTCOME_UNKNOWN")
    <3>1. handler'.pc = "close" /\ handler'.exec = e /\ handler'.outcome = "OUTCOME_UNKNOWN"
      BY <1>3, <2>2, EndNames
    <3> QED BY <1>1, <1>5, <2>2, <3>1 DEF HandlerSafe, LaunchSteps, DE!Orphan
  <2> QED BY <1>2, <2>1, <2>2
<1>7. ASSUME NEW f \in Execs \ {e} PROVE ProcessKnown(f)'
  BY <1>1, KnownKept DEF ExecutionInv
<1>8. ProcessKnown(e)'
  <2>1. CASE DE!Orphan(e)
    BY <1>2, <2>1 DEF ProcessKnown
  <2>2. CASE ~DE!Orphan(e)
    <3>1. DE!Open(e) => <<e, led[e].run>> \in alive
      BY <2>2 DEF DE!Orphan
    <3>2. \A n : <<e, n>> \in alive => n = runs[e]
      BY DEF ExecutionInv, LastRun
    <3> QED BY <1>1, <1>5, <3>1, <3>2 DEF ProcessKnown
  <2> QED BY <2>1, <2>2
<1> QED BY <1>5, <1>6, <1>7, <1>8 DEF ExecutionInv

LEMMA CrashKeepsExecutions ==
  ASSUME WorktreeAssumption, ExecutionInv, DE!Crash PROVE ExecutionInv'
<1>1. /\ UNCHANGED <<led, alive, runs>> /\ exits' = {} /\ timers' = {} /\ left' = {}
      /\ handler' = DE!Idle /\ owning' = FALSE
  BY DEF DE!Crash
<1>2. /\ ExecutionTyped' /\ \A f \in Execs : LastRun(f)' /\ Closed(f)'
      /\ (Cardinality(OpenOnes) <= MaxWorktrees)'
  BY <1>1, IdleNames, LedgerKept DEF ExecutionInv
<1>3. HandlerSafe' /\ \A f \in Execs : ProcessKnown(f)'
  BY <1>1, IdleNames DEF HandlerSafe, LaunchSteps, ProcessKnown
<1> QED BY <1>2, <1>3 DEF ExecutionInv

LEMMA RestartKeeps ==
  ASSUME WorktreeAssumption, ExecutionInv, DE!Restart PROVE ExecutionInv'
<1>1. /\ UNCHANGED <<led, alive, exits, timers, handler, runs>> /\ ~owning
      /\ left' = {e \in Execs : DE!Born(e)}
  BY DEF DE!Restart
<1>2. handler = DE!Idle
  BY <1>1 DEF ExecutionInv, HandlerSafe
<1>3. /\ ExecutionTyped' /\ \A f \in Execs : LastRun(f)' /\ Closed(f)'
      /\ \A f : DE!Open(f)' <=> DE!Open(f)
      /\ (Cardinality(OpenOnes) <= MaxWorktrees)'
  BY <1>1, LedgerKept DEF ExecutionInv, ExecutionTyped
<1>4. HandlerSafe'
  BY <1>1, <1>2, IdleNames DEF HandlerSafe, LaunchSteps
<1>5. \A f \in Execs : ProcessKnown(f)'
  BY <1>1, <1>3 DEF ProcessKnown, DE!Open
<1> QED BY <1>3, <1>4, <1>5 DEF ExecutionInv

(* A process of e ends, and its exit may be heard. *)
LEMMA ProcessEnds ==
  ASSUME WorktreeAssumption, ExecutionInv, NEW e \in Execs, NEW n, NEW o, <<e, n>> \in alive,
         alive' = alive \ {<<e, n>>}, exits' = exits \/ exits' = exits \cup {<<e, n, o>>},
         UNCHANGED <<led, timers, left, runs>>, handler' \in Handlers
  PROVE  /\ ExecutionTyped'
         /\ \A f \in Execs : LastRun(f)' /\ Closed(f)'
         /\ \A f : /\ (DE!Open(f)' <=> DE!Open(f)) /\ (~Running(f) => ~Running(f)')
                   /\ ~Running(f) /\ ~Exited(f) => ~Exited(f)'
         /\ ~Running(e)'
         /\ (Cardinality(OpenOnes) <= MaxWorktrees)'
<1>1. \A f : (DE!Born(f)' <=> DE!Born(f)) /\ (DE!Open(f)' <=> DE!Open(f))
  BY DEF DE!Born, DE!Open
<1>2. DE!Born(e) /\ \A m : <<e, m>> \in alive => m = n
  BY DEF ExecutionInv, LastRun
<1>3. n = runs[e] /\ \A m, p : <<e, m, p>> \notin exits
  BY DEF ExecutionInv, LastRun
<1>4. \A f : ~Running(f) => ~Running(f)'
  BY DEF Running
<1>5. ~Running(e)' /\ Running(e)
  BY <1>2 DEF Running
<1>6. \A f : f # e => \A m, p : <<f, m, p>> \in exits' => <<f, m, p>> \in exits
  OBVIOUS
<1>7. \A f \in Execs \ {e} : LastRun(f)' /\ Closed(f)'
  BY <1>6, ExecutionKept DEF ExecutionInv
<1>8. LastRun(e)'
  <2>1. \A m, p : <<e, m, p>> \in exits' => m = n /\ p = o
    BY <1>3
  <2>2. \A m : <<e, m>> \notin alive'
    BY <1>5 DEF Running
  <2> QED BY <1>1, <1>2, <1>3, <2>1, <2>2 DEF LastRun
<1>9. Closed(e)'
  BY <1>1, <1>5 DEF ExecutionInv, Closed, DE!Pending
<1>10. \A f : ~Running(f) /\ ~Exited(f) => ~Exited(f)'
  BY <1>5, <1>6 DEF Exited
<1>11. ExecutionTyped'
  BY <1>1 DEF ExecutionInv, ExecutionTyped
<1>12. (Cardinality(OpenOnes) <= MaxWorktrees)'
  BY <1>1, CapacityKept
<1> QED BY <1>1, <1>4, <1>5, <1>7, <1>8, <1>9, <1>10, <1>11, <1>12

LEMMA BackendEndsKeeps ==
  ASSUME WorktreeAssumption, ExecutionInv, NEW e \in Execs, NEW n, NEW o, DE!BackendEnds(e, n, o)
  PROVE  ExecutionInv'
<1>1. /\ <<e, n>> \in alive /\ alive' = alive \ {<<e, n>>}
      /\ exits' = exits \/ exits' = exits \cup {<<e, n, o>>}
      /\ UNCHANGED <<led, timers, handler, left, owning, runs>>
  BY DEF DE!BackendEnds
<1>2. handler' \in Handlers
  BY <1>1 DEF ExecutionInv, ExecutionTyped
<1>3. /\ ExecutionTyped' /\ \A f \in Execs : LastRun(f)' /\ Closed(f)'
      /\ \A f : /\ (DE!Open(f)' <=> DE!Open(f)) /\ (~Running(f) => ~Running(f)')
                /\ ~Running(f) /\ ~Exited(f) => ~Exited(f)'
      /\ (Cardinality(OpenOnes) <= MaxWorktrees)'
  BY <1>1, <1>2, ProcessEnds
<1>4. HandlerSafe'
  BY <1>1, <1>3 DEF ExecutionInv, HandlerSafe
<1>5. \A f \in Execs : ProcessKnown(f)'
  BY <1>1, <1>3 DEF ExecutionInv, ProcessKnown
<1> QED BY <1>3, <1>4, <1>5 DEF ExecutionInv

LEMMA KillKeeps ==
  ASSUME WorktreeAssumption, ExecutionInv, NEW e \in Execs, NEW s \in DE!Terminal, DE!Kill(e, s)
  PROVE  ExecutionInv'
<1>1. /\ owning /\ handler = DE!Killing(e, s) /\ handler' = DE!Closing(e, s)
      /\ alive' = alive \ {<<e, led[e].run>>}
      /\ \/ exits' = exits
         \/ <<e, led[e].run>> \in alive /\ exits' = exits \cup {<<e, led[e].run, "signal">>}
      /\ UNCHANGED <<led, timers, left, owning, runs>>
  BY DEF DE!Kill
<1>2. /\ handler.pc = "kill" /\ handler.exec = e /\ handler # DE!Idle
      /\ handler' \in Handlers /\ handler'.pc = "close" /\ handler'.exec = e /\ handler'.outcome = s
  BY <1>1, EndNames, IdleNames
<1>3. DE!Open(e) /\ left = {}
  BY <1>2 DEF ExecutionInv, HandlerSafe
<1>4. \A n : <<e, n>> \in alive => n = led[e].run
  <2>1. handler # DE!At("running", e) /\ handler # DE!Closing(e, "OUTCOME_UNKNOWN")
    BY <1>1 DEF DE!Killing, DE!At, DE!Closing
  <2> QED BY <1>1, <1>3, <2>1 DEF ExecutionInv, ProcessKnown
<1>5. /\ ExecutionTyped' /\ \A f \in Execs : LastRun(f)' /\ Closed(f)'
      /\ \A f : DE!Open(f)' <=> DE!Open(f)
      /\ ~Running(e)'
      /\ (Cardinality(OpenOnes) <= MaxWorktrees)'
  <2>1. CASE <<e, led[e].run>> \in alive
    BY <1>1, <1>2, <2>1, ProcessEnds
  <2>2. CASE <<e, led[e].run>> \notin alive
    <3>1. alive' = alive /\ exits' = exits /\ ~Running(e)
      BY <1>1, <1>4, <2>2 DEF Running
    <3> QED BY <1>1, <1>2, <3>1, LedgerKept DEF ExecutionInv, ExecutionTyped
  <2> QED BY <2>1, <2>2
<1>6. HandlerSafe'
  BY <1>1, <1>2, <1>3, <1>5 DEF HandlerSafe, LaunchSteps
<1>7. ASSUME NEW f \in Execs \ {e} PROVE ProcessKnown(f)'
  BY <1>1, <1>2, KnownKept DEF ExecutionInv
<1>8. ProcessKnown(e)'
  BY <1>5 DEF ProcessKnown, Running
<1> QED BY <1>5, <1>6, <1>7, <1>8 DEF ExecutionInv

LEMMA SpawnKeeps ==
  ASSUME WorktreeAssumption, ExecutionInv, NEW e \in Execs, DE!Spawn(e) PROVE ExecutionInv'
<1>1. /\ owning /\ handler = DE!At("spawn", e) /\ handler' = DE!At("running", e)
      /\ runs' = [runs EXCEPT ![e] = @ + 1] /\ timers' = timers \cup {e}
      /\ \/ alive' = alive \cup {<<e, runs[e] + 1>>} /\ exits' = exits
         \/ exits' = exits \cup {<<e, runs[e] + 1, "error">>} /\ alive' = alive
      /\ UNCHANGED <<led, left, owning>>
  BY DEF DE!Spawn, DE!Launch
<1>2. /\ handler.pc = "spawn" /\ handler.exec = e /\ handler # DE!Idle
      /\ handler' \in Handlers /\ handler'.pc = "running" /\ handler'.exec = e /\ handler' # DE!Idle
  <2>1. "spawn" \in LaunchSteps /\ "running" \in LaunchSteps
    BY DEF LaunchSteps
  <2> QED BY <1>1, <2>1, LaunchNames, IdleNames DEF DE!Idle, DE!At
<1>3. DE!Open(e) /\ DE!Born(e) /\ left = {} /\ ~Running(e) /\ ~Exited(e)
  BY <1>2 DEF ExecutionInv, HandlerSafe, LaunchSteps, DE!Open
<1>4. \A f : (DE!Born(f)' <=> DE!Born(f)) /\ (DE!Open(f)' <=> DE!Open(f))
  BY <1>1 DEF DE!Born, DE!Open
<1>5. /\ runs' \in [Execs -> Nat] /\ runs'[e] = runs[e] + 1 /\ runs[e] \in Nat
      /\ \A f \in Execs \ {e} : runs'[f] = runs[f]
  BY <1>1 DEF ExecutionInv, ExecutionTyped
<1>6. \A f \in Execs \ {e} : LastRun(f)' /\ Closed(f)'
  BY <1>1, <1>5, ExecutionKept DEF ExecutionInv
<1>7. LastRun(e)'
  <2>1. PICK r : r = runs[e] + 1
    OBVIOUS
  <2>2. \/ alive' = alive \cup {<<e, r>>} /\ exits' = exits
        \/ exits' = exits \cup {<<e, r, "error">>} /\ alive' = alive
    BY <1>1, <2>1
  <2>3. ASSUME NEW n, <<e, n>> \in alive' PROVE n = r
    <3>1. <<e, n>> \notin alive
      BY <1>3 DEF Running
    <3>2. <<e, n>> = <<e, r>>
      BY <2>2, <2>3, <3>1
    <3> QED BY <3>2
  <2>4. ASSUME NEW n, NEW o, <<e, n, o>> \in exits' PROVE n = r /\ o = "error"
    <3>1. <<e, n, o>> \notin exits
      BY <1>3 DEF Exited
    <3>2. <<e, n, o>> = <<e, r, "error">>
      BY <2>2, <2>4, <3>1
    <3> QED BY <3>2
  <2>5. \A n, o, m : ~(<<e, n, o>> \in exits' /\ <<e, m>> \in alive')
    BY <1>3, <2>2 DEF Running, Exited
  <2> QED BY <1>3, <1>4, <1>5, <2>1, <2>3, <2>4, <2>5 DEF LastRun
<1>8. Closed(e)'
  BY <1>3, <1>4 DEF Closed
<1>9. ExecutionTyped'
  <2>1. \A f \in Execs : (DE!Born(f) => led[f].run <= runs[f])'
    <3>1. ASSUME NEW f \in Execs, DE!Born(f) PROVE led[f].run <= runs'[f]
      BY <1>5, <3>1, BornTyped DEF ExecutionInv, ExecutionTyped
    <3> QED BY <1>1, <1>4, <3>1
  <2> QED BY <1>1, <1>2, <1>5, <2>1 DEF ExecutionInv, ExecutionTyped
<1>10. HandlerSafe'
  BY <1>1, <1>2, <1>3, <1>4 DEF HandlerSafe, LaunchSteps
<1>11. ASSUME NEW f \in Execs \ {e} PROVE ProcessKnown(f)'
  BY <1>1, <1>2, KnownKept DEF ExecutionInv
<1>12. ProcessKnown(e)'
  BY <1>1 DEF ProcessKnown
<1>13. (Cardinality(OpenOnes) <= MaxWorktrees)'
  BY <1>4, CapacityKept
<1> QED BY <1>6, <1>7, <1>8, <1>9, <1>10, <1>11, <1>12, <1>13 DEF ExecutionInv

-----------------------------------------------------------------------------
LEMMA ExecutionInit == ASSUME WorktreeAssumption, DE!Init PROVE ExecutionInv
<1>1. /\ led = [e \in Execs |-> DE!Unborn] /\ alive = {} /\ exits = {} /\ timers = {}
      /\ handler = DE!Idle /\ left = {} /\ runs = [e \in Execs |-> 0]
  BY DEF DE!Init
<1>2. \A e : e \in Execs => ~DE!Born(e) /\ ~DE!Open(e)
  BY <1>1 DEF DE!Born, DE!Open
<1>3. ExecutionTyped
  BY <1>1, <1>2, IdleNames DEF ExecutionTyped
<1>4. \A e \in Execs : LastRun(e) /\ ProcessKnown(e) /\ Closed(e)
  BY <1>1, <1>2 DEF LastRun, ProcessKnown, Closed
<1>5. HandlerSafe
  BY <1>1, IdleNames DEF HandlerSafe, LaunchSteps
<1>6. OpenOnes = {}
  BY <1>2 DEF OpenOnes
<1>7. Cardinality(OpenOnes) <= MaxWorktrees
  BY <1>6, FS_EmptySet DEF WorktreeAssumption
<1> QED BY <1>3, <1>4, <1>5, <1>7 DEF ExecutionInv

LEMMA ExecutionNext ==
  ASSUME WorktreeAssumption, ExecutionInv, [DE!Next]_(DE!vars) PROVE ExecutionInv'
<1>1. ASSUME UNCHANGED DE!vars PROVE ExecutionInv'
  <2>1. UNCHANGED <<led, alive, exits, timers, handler, left, owning, runs>>
    BY <1>1 DEF DE!vars
  <2>2. /\ ExecutionTyped' /\ \A f \in Execs : LastRun(f)' /\ Closed(f)'
        /\ \A f : (DE!Open(f)' <=> DE!Open(f)) /\ (~Running(f) => ~Running(f)')
             /\ (~Exited(f) => ~Exited(f)')
        /\ (Cardinality(OpenOnes) <= MaxWorktrees)'
    BY <2>1, LedgerKept DEF ExecutionInv, ExecutionTyped
  <2>3. HandlerSafe' /\ \A f \in Execs : ProcessKnown(f)'
    BY <2>1, <2>2 DEF ExecutionInv, HandlerSafe, ProcessKnown
  <2> QED BY <2>2, <2>3 DEF ExecutionInv
<1>2. ASSUME NEW e \in Execs, DE!Step(e) PROVE ExecutionInv'
  BY <1>2, LaunchKeeps, SpawnKeeps, RunningKeeps, RecoverKeeps, KillKeeps, CloseKeeps DEF DE!Step
<1>3. ASSUME NEW e \in Execs,
             \/ \E k \in DedupeKeys \cup {NoKey} : DE!Start(e, k)
             \/ DE!Continue(e) \/ DE!Cancel(e) \/ DE!Timeout(e)
             \/ \E n \in 1..runs[e] : \/ \E o \in DE!Outcomes : DE!BackendEnds(e, n, o)
                                      \/ \E o \in DE!Outcomes \cup {"error"} : DE!OnExit(e, n, o)
      PROVE  ExecutionInv'
  BY <1>3, StartKeeps, ContinueKeeps, KillingKeeps, BackendEndsKeeps, OnExitKeeps
<1> QED BY <1>1, <1>2, <1>3, CrashKeepsExecutions, RestartKeeps DEF DE!Next

LEMMA ExecutionAlways == ASSUME WorktreeAssumption PROVE DE!Spec => []ExecutionInv
<1>1. DE!Init => ExecutionInv
  BY ExecutionInit
<1>2. ExecutionInv /\ [DE!Next]_(DE!vars) => ExecutionInv'
  BY ExecutionNext
<1> QED BY <1>1, <1>2, PTL DEF DE!Spec

(* The engine of development executions, for any number of executions,     *)
(* worktrees, instructions and crashes of the owning process: a terminal   *)
(* execution leaves no instruction unanswered, one that is reported as     *)
(* succeeded, failed or cancelled has no process that still writes, a      *)
(* worktree has one writer, and the capacity of the repository holds.      *)
THEOREM ExecutionsAreSafe ==
  ASSUME WorktreeAssumption PROVE DE!Spec => [](DE!TypeOK /\ DE!ExecutionSafe)
<1>1. ASSUME ExecutionInv PROVE DE!TypeOK /\ DE!ExecutionSafe
  <2>1. DE!TypeOK
    <3>1. ASSUME NEW e \in Execs, DE!Born(e)
          PROVE  /\ led[e].state \in DE!Terminal \cup {"undefined", "STARTING", "RUNNING", "WAITING"}
                 /\ led[e].run <= runs[e]
                 /\ \A n \in DOMAIN led[e].queue : led[e].queue[n] \in Dispositions
      <4>1. led[e].queue \in Seq(Dispositions) /\ led[e].state \in ExecutionStates
        BY <1>1, <3>1, BornTyped DEF ExecutionInv
      <4> QED BY <1>1, <3>1, <4>1 DEF ExecutionInv, ExecutionTyped, ExecutionStates
    <3> QED BY <1>1, <3>1 DEF DE!TypeOK, Dispositions, ExecutionInv, ExecutionTyped
  <2>2. DE!QueueAnswered
    BY <1>1 DEF ExecutionInv, Closed, DE!QueueAnswered
  <2>3. DE!NoWriterBehindTerminal
    <3>1. ASSUME NEW e \in Execs, DE!Born(e), led[e].state \in {"SUCCEEDED", "FAILED", "CANCELLED"}
          PROVE  ~Running(e)
      BY <1>1, <3>1 DEF ExecutionInv, Closed, DE!Open, DE!Terminal
    <3> QED BY <3>1 DEF DE!NoWriterBehindTerminal, Running
  <2>4. DE!OneWriter
    <3>1. SUFFICES ASSUME NEW e \in Execs
                   PROVE  Cardinality({n \in 1..runs[e] : <<e, n>> \in alive}) <= 1
      BY Zenon DEF DE!OneWriter, DE!Cardinality, Cardinality
    <3>2. {n \in 1..runs[e] : <<e, n>> \in alive} \subseteq {runs[e]}
      BY <1>1 DEF ExecutionInv, LastRun
    <3>3. IsFiniteSet({runs[e]}) /\ Cardinality({runs[e]}) = 1
      BY FS_Singleton
    <3> QED BY <3>2, <3>3, FS_Subset
  <2>5. DE!CapacityKept
    <3>1. Cardinality(OpenOnes) <= MaxWorktrees
      BY <1>1 DEF ExecutionInv
    <3> QED BY <3>1, Zenon DEF DE!CapacityKept, OpenOnes, DE!Cardinality, Cardinality
  <2> QED BY <2>1, <2>2, <2>3, <2>4, <2>5 DEF DE!ExecutionSafe
<1> QED BY <1>1, ExecutionAlways, PTL

(* Exactly one terminal disposition (engine.js, ledger.js): no late exit,  *)
(* timeout, cancellation or recovery changes the record of a terminal      *)
(* execution.                                                              *)
THEOREM DispositionIsFinal ==
  ASSUME WorktreeAssumption PROVE DE!Spec => [][DE!OneTerminalStep]_(DE!vars)
<1>1. ASSUME ExecutionInv, [DE!Next]_(DE!vars) PROVE [DE!OneTerminalStep]_(DE!vars)
  <2>1. SUFFICES ASSUME NEW e \in Execs, DE!Born(e), ~DE!Open(e), DE!Next PROVE led'[e] = led[e]
    BY <1>1 DEF DE!OneTerminalStep
  <2>2. led \in [Execs -> Record \cup {DE!Unborn}]
    BY <1>1 DEF ExecutionInv, ExecutionTyped
  <2>3. \A f \in Execs, p \in LaunchSteps : handler = DE!At(p, f) => f # e
    BY <1>1, <2>1, LaunchNames DEF ExecutionInv, HandlerSafe, DE!Idle, DE!At
  <2>4. \A f \in Execs, s \in DE!Terminal : handler = DE!Closing(f, s) => f # e
    BY <1>1, <2>1, EndNames DEF ExecutionInv, HandlerSafe, DE!Idle, DE!Closing
  <2>5. ASSUME NEW f \in Execs, NEW s, DE!StateLine(f, s), f # e PROVE led'[e] = led[e]
    BY <2>2, <2>5 DEF DE!StateLine
  <2>6. ASSUME NEW f \in Execs, NEW d, DE!Dispose(f, d), f # e PROVE led'[e] = led[e]
    BY <2>2, <2>6 DEF DE!Dispose
  <2>7. ASSUME NEW f \in Execs, DE!Step(f) PROVE led'[e] = led[e]
    <3>1. CASE DE!Starting(f) \/ DE!Waiting(f) \/ DE!Deliver(f)
      BY <2>3, <2>5, <2>6, <3>1 DEF DE!Starting, DE!Waiting, DE!Deliver, DE!Launch, LaunchSteps
    <3>2. CASE DE!Running(f)
      BY <2>2, <2>3, <3>2 DEF DE!Running, DE!Launch, LaunchSteps
    <3>3. CASE \E s \in DE!Terminal : DE!Close(f, s)
      BY <2>4, <2>5, <2>6, <3>3 DEF DE!Close, DE!TerminalLine
    <3>4. CASE DE!Spawn(f) \/ DE!Recover(f) \/ \E s \in DE!Terminal : DE!Kill(f, s)
      BY <3>4 DEF DE!Spawn, DE!Recover, DE!Kill
    <3> QED BY <2>7, <3>1, <3>2, <3>3, <3>4 DEF DE!Step
  <2>8. ASSUME NEW f \in Execs, DE!Continue(f) PROVE led'[e] = led[e]
    <3>1. f # e
      BY <2>1, <2>8 DEF DE!Continue, DE!Open, DE!Terminal
    <3> QED BY <2>2, <2>8, <3>1 DEF DE!Continue
  <2>9. ASSUME NEW f \in Execs, NEW k, DE!Start(f, k) PROVE led'[e] = led[e]
    BY <2>1, <2>2, <2>9 DEF DE!Start
  <2> QED BY <2>1, <2>7, <2>8, <2>9
        DEF DE!Next, DE!Cancel, DE!Timeout, DE!BackendEnds, DE!OnExit, DE!Crash, DE!Restart
<1> QED BY <1>1, ExecutionAlways, PTL DEF DE!Spec

=============================================================================
