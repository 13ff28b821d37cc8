------------------------ MODULE NotificationIngress ------------------------
(***************************************************************************)
(* The notification ingress (packages/notification-ingress/src): requests  *)
(* to deliver one notification, made idempotent by a durable record per    *)
(* (caller, requestId).                                                    *)
(*                                                                         *)
(* enqueue() runs one mutation at a time and the handler that awaited it   *)
(* goes on before the next one starts (the queue subscribes to the result  *)
(* first), so a mutation and its continuation up to the next await are one *)
(* action.  Mutations are taken in any order.  Times are left out: the     *)
(* deadline of an attempt may pass, and a terminal record be old enough to *)
(* be swept, at any moment; but a request is answered within the retention *)
(* of a record (retentionMs, seven days by default).                       *)
(***************************************************************************)
EXTENDS Naturals, FiniteSets

CONSTANTS
  Requests,     \* HTTP requests to /v1/deliver
  Keys,         \* (callerPrincipalId, requestId)
  Hashes,       \* canonical payload hashes
  Wide,         \* keys with two or more UTF-8 bytes beyond their UTF-16 length
  MaxCrashes,   \* bound: crashes of the process
  MaxFaults     \* bound: failed lock acquisitions and persists

VARIABLES
  up,           \* the process runs
  record,       \* key -> the durable record
  readable,     \* the document on disk is valid JSON
  req,          \* request -> [pc, key, hash, answer]
  inflight,     \* the keys with an attempt in this process
  attempt,      \* key -> the attempt: none, calling, or the outcome it came to
  told,         \* key -> what its promise resolves with: none, an outcome, 500
  answers,      \* key -> the Router's answer to the call, or none
  calls, admitted,  \* key -> deliver() calls; of them, admitted (history, of the record)
  crashes, faults

vars ==
  <<up, record, readable, req, inflight, attempt, told, answers, calls, admitted, crashes, faults>>

States == {"reserved", "delivered", "failed_no_admission", "outcome_unknown"}
Terminal == States \ {"reserved"}
NoRecord == [state |-> "none", hash |-> "none"]

Init ==
  /\ up = TRUE /\ readable = TRUE
  /\ record = [k \in Keys |-> NoRecord]
  /\ req = [r \in Requests |-> [pc |-> "idle", answer |-> "none"]]
  /\ inflight = {}
  /\ attempt = [k \in Keys |-> "none"] /\ told = [k \in Keys |-> "none"]
  /\ answers = [k \in Keys |-> "none"]
  /\ calls = [k \in Keys |-> 0] /\ admitted = [k \in Keys |-> 0]
  /\ crashes = 0 /\ faults = 0

-----------------------------------------------------------------------------
(* Authentication: what one request is answered before anything else. *)

(* createServiceAuthVerifier.verify: what the token endpoint's answer to   *)
(* the caller's credential shows; allowlistResult for a valid one.         *)
Verified(answer, allowed) ==
  CASE answer = "token" -> IF allowed THEN "ok" ELSE "403"
    [] answer = "invalid" -> "401"
    [] answer \in {"unreachable", "not_json", "no_token", "unavailable", "unknown_error"} -> "503"

AuthAnswers == {"token", "invalid", "unreachable", "not_json", "no_token", "unavailable",
                "unknown_error"}

(* loadAuthConfig, parseBasicCredential and the verifier, in this order. *)
Authenticated(configured, basic, answer, allowed) ==
  IF ~configured THEN "503" ELSE IF ~basic THEN "401" ELSE Verified(answer, allowed)

Verdicts ==
  {Authenticated(c, b, a, allowed) : c \in BOOLEAN, b \in BOOLEAN, a \in AuthAnswers,
                                     allowed \in BOOLEAN}

Answer(r, a) == req' = [req EXCEPT ![r] = [@ EXCEPT !.pc = "done", !.answer = a]]

(* handleDeliver up to its first mutation.  A request for a delivery that  *)
(* is in flight with the same payload waits for that attempt.              *)
Arrive(r) ==
  /\ up /\ req[r].pc = "idle"
  /\ \E k \in Keys, h \in Hashes, verdict \in Verdicts :
       req' = [req EXCEPT ![r] =
         IF verdict # "ok"
         THEN [pc |-> "done", answer |-> verdict]
         ELSE [pc |-> IF k \in inflight /\ record[k].hash = h THEN "joined" ELSE "reserving",
               key |-> k, hash |-> h, answer |-> "none"]]
  /\ UNCHANGED <<up, record, readable, inflight, attempt, told, answers, calls, admitted, crashes, faults>>

-----------------------------------------------------------------------------
(* The durable document. *)

(* serializeDocument and persistSync: the text is written as UTF-8 and     *)
(* then cut to its length in UTF-16 units, which spares only the final     *)
(* newline.                                                                *)
Persisted(rec) == \A k \in Wide : rec[k] = NoRecord

(* enqueue(): the lock, the document read again, the mutation, the atomic  *)
(* replacement.  It fails on an unreadable document, on the lock or before *)
(* the rename, leaving the disk as it was, and also after the rename.      *)
Enqueue(rec, Done, Failed) ==
  \/ /\ readable
     /\ record' = rec /\ readable' = Persisted(rec)
     /\ Done /\ UNCHANGED faults
  \/ /\ ~readable
     /\ Failed /\ UNCHANGED <<record, readable, faults>>
  \/ /\ readable /\ faults < MaxFaults
     /\ faults' = faults + 1
     /\ Failed
     /\ \/ UNCHANGED <<record, readable>>
        \/ record' = rec /\ readable' = Persisted(rec)

(* reserve() and what handleDeliver does with its answer.  A new key is    *)
(* reserved durably before the Router is called.                           *)
Reserve(r) ==
  LET k == req[r].key  h == req[r].hash
      Go(pc) == req' = [req EXCEPT ![r].pc = pc]
      Stays == UNCHANGED <<inflight, attempt, calls>>
      Reserved == [record EXCEPT ![k] = [state |-> "reserved", hash |-> h]]
      Started ==
        /\ Go("joined")
        /\ inflight' = inflight \cup {k}
        /\ attempt' = [attempt EXCEPT ![k] = "calling"]
        /\ calls' = [calls EXCEPT ![k] = @ + 1]
      Known ==
        /\ Stays
        /\ IF record[k].hash # h THEN Answer(r, "conflict")
           ELSE IF record[k].state \in Terminal THEN Answer(r, record[k].state)
           ELSE IF k \in inflight THEN Go("joined") ELSE Go("unresolved")
      Error == Answer(r, "500") /\ Stays
  IN
  /\ up /\ req[r].pc = "reserving"
  /\ IF record[k] = NoRecord
     THEN Enqueue(Reserved, Started, Error)
     ELSE Enqueue(record, Known, Error)
  /\ UNCHANGED <<up, told, answers, admitted, crashes>>

(* settle(): only a reserved record changes. *)
Settled(k, state) ==
  IF record[k].state = "reserved" THEN [record EXCEPT ![k].state = state] ELSE record

(* settleUnresolvedReserved: a reserved record without an attempt. *)
SettleUnresolved(r) ==
  LET k == req[r].key IN
  /\ up /\ req[r].pc = "unresolved"
  /\ Enqueue(Settled(k, "outcome_unknown"), Answer(r, "outcome_unknown"), Answer(r, "500"))
  /\ UNCHANGED <<up, inflight, attempt, told, answers, calls, admitted, crashes>>

-----------------------------------------------------------------------------
(* The attempt: attemptRouterDelivery and runAttempt. *)

(* The Router answers, in time or late: accepted, refused with a code that *)
(* proves there was no admission, or an error that proves nothing.         *)
RouterAnswers(k) ==
  /\ up /\ calls[k] > 0 /\ answers[k] = "none"
  /\ \E a \in {"accepted", "proven", "error"}, in \in {0, 1} :
       /\ a = "accepted" => in = 1
       /\ a = "proven" => in = 0
       /\ admitted' = [admitted EXCEPT ![k] = @ + in]
       /\ answers' = [answers EXCEPT ![k] = a]
  /\ UNCHANGED <<up, record, readable, req, inflight, attempt, told, calls, crashes, faults>>

(* Mutant: a deadline is taken for a proof that nothing was admitted. *)
OutcomeMut(k) ==
  CASE answers[k] = "accepted" -> "delivered"
    [] answers[k] \in {"proven", "none"} -> "failed_no_admission"
    [] answers[k] = "error" -> "outcome_unknown"

(* The outcome the attempt comes to: an answer that proves nothing, and no *)
(* answer in time, are unknown.                                            *)
Outcome(k) ==
  CASE answers[k] = "accepted" -> "delivered"
    [] answers[k] = "proven" -> "failed_no_admission"
    [] answers[k] \in {"error", "none"} -> "outcome_unknown"

(* Mutant: no deadline: only an answer of the Router ends the attempt. *)
AttemptEndsMut(k) ==
  /\ up /\ attempt[k] = "calling" /\ answers[k] # "none"
  /\ attempt' = [attempt EXCEPT ![k] = Outcome(k)]
  /\ UNCHANGED <<up, record, readable, req, inflight, told, answers, calls, admitted, crashes, faults>>

(* The first of the Router's answer and the deadline decides the outcome. *)
AttemptEnds(k) ==
  /\ up /\ attempt[k] = "calling"
  /\ attempt' = [attempt EXCEPT ![k] = Outcome(k)]
  /\ UNCHANGED <<up, record, readable, req, inflight, told, answers, calls, admitted, crashes, faults>>

(* The outcome is made durable before anybody is told. *)
Settle(k) ==
  LET Told(a) == told' = [told EXCEPT ![k] = a] IN
  /\ up /\ attempt[k] \in Terminal /\ told[k] = "none"
  /\ Enqueue(Settled(k, attempt[k]), Told(attempt[k]), Told("500"))
  /\ UNCHANGED <<up, req, inflight, attempt, answers, calls, admitted, crashes>>

(* The attempt's promise resolves some turns of the event loop later:      *)
(* whoever joined it is answered, and it is no longer in flight.           *)
Resolve(k) ==
  /\ up /\ told[k] # "none"
  /\ inflight' = inflight \ {k}
  /\ attempt' = [attempt EXCEPT ![k] = "none"]
  /\ told' = [told EXCEPT ![k] = "none"]
  /\ req' = [r \in Requests |->
       IF req[r].pc = "joined" /\ req[r].key = k
       THEN [req[r] EXCEPT !.pc = "done", !.answer = told[k]] ELSE req[r]]
  /\ UNCHANGED <<up, record, readable, answers, calls, admitted, crashes, faults>>

-----------------------------------------------------------------------------
(* Retention, crash and boot. *)

(* sweepTerminalSync drops terminal records only. *)
Swept(S) == S \subseteq {k \in Keys : record[k].state \in Terminal}

Without(rec, S) == [k \in Keys |-> IF k \in S THEN NoRecord ELSE rec[k]]

(* A record outlives, by its retention, whoever found it reserved and has  *)
(* its mutation in the queue, and an attempt that has settled and is still *)
(* to resolve.                                                             *)
Awaited(k) ==
  \/ told[k] # "none"
  \/ \E r \in Requests : req[r].pc = "unresolved" /\ req[r].key = k

(* sweepNow.  The history of a dropped record is dropped with it. *)
Sweep ==
  /\ up
  /\ \E S \in SUBSET Keys \ {{}} :
       /\ Swept(S) /\ \A k \in S : ~Awaited(k)
       /\ Enqueue(Without(record, S), TRUE, TRUE)
       /\ LET gone == {k \in S : record'[k] = NoRecord}
              Reset(f, x) == [k \in Keys |-> IF k \in gone THEN x ELSE f[k]]
          IN /\ calls' = Reset(calls, 0) /\ admitted' = Reset(admitted, 0)
             /\ answers' = Reset(answers, "none")
             /\ req' = [r \in Requests |->
                  IF req[r].answer \in Terminal /\ req[r].key \in gone
                  THEN [req[r] EXCEPT !.answer = "expired"] ELSE req[r]]
  /\ UNCHANGED <<up, inflight, attempt, told, crashes>>

Crash ==
  /\ up /\ crashes < MaxCrashes
  /\ up' = FALSE /\ crashes' = crashes + 1
  /\ inflight' = {}
  /\ attempt' = [k \in Keys |-> "none"] /\ told' = attempt'
  /\ req' = [r \in Requests |->
       IF req[r].pc \in {"idle", "done"} THEN req[r] ELSE [req[r] EXCEPT !.pc = "lost"]]
  /\ admitted' \in [Keys -> 0..2]
  /\ \A k \in Keys :
       admitted'[k] \in {admitted[k]} \cup
         (IF calls[k] > 0 /\ answers[k] = "none" THEN {admitted[k] + 1} ELSE {})
  /\ answers' = [k \in Keys |-> IF calls[k] > 0 /\ answers[k] = "none" THEN "lost" ELSE answers[k]]
  /\ UNCHANGED <<record, readable, calls, faults>>

(* migrateUnresolvedSync: what was in flight is outcome_unknown. *)
Migrated(k) ==
  IF record[k].state = "reserved" THEN [record[k] EXCEPT !.state = "outcome_unknown"] ELSE record[k]

(* The constructor: an unreadable document throws and nothing is mounted. *)
Boot ==
  /\ ~up /\ readable
  /\ up' = TRUE
  /\ record' = [k \in Keys |-> Migrated(k)]
  /\ readable' = Persisted(record')
  /\ UNCHANGED <<req, inflight, attempt, told, answers, calls, admitted, crashes, faults>>

Next ==
  \/ \E r \in Requests : Arrive(r) \/ Reserve(r) \/ SettleUnresolved(r)
  \/ \E k \in Keys : RouterAnswers(k) \/ AttemptEnds(k) \/ Settle(k) \/ Resolve(k)
  \/ Sweep \/ Crash \/ Boot

Spec == Init /\ [][Next]_vars

(* The event loop runs queued mutations and continuations, and timers fire *)
(* (the attempt's deadline).  The Router need not answer.                  *)
Fairness ==
  /\ \A r \in Requests : WF_vars(Reserve(r)) /\ WF_vars(SettleUnresolved(r))
  /\ \A k \in Keys : WF_vars(AttemptEnds(k)) /\ WF_vars(Settle(k)) /\ WF_vars(Resolve(k))

FairSpec == Spec /\ Fairness
-----------------------------------------------------------------------------
Answers == {"none", "conflict", "500", "expired"} \cup Terminal

TypeOK ==
  /\ record \in [Keys -> [state : States, hash : Hashes] \cup {NoRecord}]
  /\ req \in [Requests ->
       [pc : {"idle", "done"}, answer : {"none"} \cup Verdicts] \cup
       [pc : {"reserving", "joined", "unresolved", "done", "lost"},
        key : Keys, hash : Hashes, answer : Answers]]
  /\ inflight \subseteq Keys
  /\ attempt \in [Keys -> {"none", "calling"} \cup Terminal]
  /\ told \in [Keys -> {"none", "500"} \cup Terminal]
  /\ answers \in [Keys -> {"none", "accepted", "proven", "error", "lost"}]
  /\ calls \in [Keys -> Nat] /\ admitted \in [Keys -> Nat]

(* Concurrent requests, retries after an error, failed writes and restarts *)
(* never make the Router deliver a recorded request twice.                 *)
DeliveredAtMostOnce == \A k \in Keys : calls[k] <= 1

(* The record tells the truth about admission: "delivered" was admitted,   *)
(* and what is recorded as failed before admission never was.              *)
RecordTruth ==
  \A k \in Keys :
    /\ record[k].state = "delivered" => admitted[k] = 1
    /\ record[k].state = "failed_no_admission" => admitted[k] = 0

(* Whoever is told an outcome is told the recorded one: two requests for   *)
(* the same delivery never hear two outcomes, as long as it is retained.   *)
AnswersAgree ==
  \A r \in Requests :
    req[r].answer \in Terminal /\ record[req[r].key] # NoRecord
      => \/ record[req[r].key].hash # req[r].hash
         \/ record[req[r].key].state = req[r].answer

(* The safety of one delivery: made once at most, recorded truthfully and  *)
(* answered alike to whoever asks.                                         *)
IngressSafe == DeliveredAtMostOnce /\ RecordTruth /\ AnswersAgree

(* A request is answered, also when the Router never answers, unless the   *)
(* process dies.                                                           *)
Answered ==
  \A r \in Requests :
    req[r].pc \in {"reserving", "joined", "unresolved"} ~> req[r].pc \in {"done", "lost"}

(* Every replacement of the document leaves one that can be read again     *)
(* (C-IDM-003): the authority is not lost by a write of its own.           *)
StoreReadable == readable
=============================================================================
