---------------------- MODULE CredentialProvisioning -----------------------
(***************************************************************************)
(* The credential of one agent (packages/agent-credential-provisioning):   *)
(* ensureAgentCredential creates the Auth client and its one store entry,  *)
(* executeRotation replaces the secret in the Auth database and then in    *)
(* the store.  Both are command-line operations of an operator; several    *)
(* may run at once.                                                        *)
(*                                                                         *)
(* A secret is a number; the database holds the hash of one, whose salt is *)
(* told apart because the operation id is derived from the hash.  The      *)
(* store lock is the O_EXCL file of withCredentialStoreLock, which nobody  *)
(* breaks: a crash leaves it behind.  A backup and the replacement of the  *)
(* store under one hold of the lock are one action.                        *)
(***************************************************************************)
EXTENDS Naturals, FiniteSets, Sequences

CONSTANTS
  Ops,          \* operations, each run once
  Overlap,      \* whether two rotations may run at once
  MaxFaults     \* bound: failing calls and crashes

VARIABLES
  db,           \* the client row: NoHash, or [secret, salt]
  store,        \* the store entry: 0, or a secret
  bak,          \* operation id -> the secret in its preimage backup, or 0
  lock,         \* the store lock: "free", an operation, or "stale"
  receipts,     \* the receipt ledger: sequence of [id, outcome]
  op,           \* operation -> its local state
  fresh,        \* the last secret generated
  applied,      \* operation ids the seam function of the database has run
  rolled,       \* operation ids whose rollback, under an id of its own, it has run
  faults,
  lost          \* a crash, or a failed call whose effect is unknown (history)

vars == <<db, store, bak, lock, receipts, op, fresh, applied, rolled, faults, lost>>

NoHash == [secret |-> 0, salt |-> 0]
Hash(s) == [secret |-> s, salt |-> s]

(* planRotation: the id is derived from the client and the hash. *)
Id(h) == <<h.secret, h.salt>>

Ids == (0..Cardinality(Ops) + 1) \X (0..Cardinality(Ops) + 1)
Idle == [pc |-> "idle"]

Init ==
  /\ \/ db = NoHash /\ store = 0 /\ fresh = 0
     \/ db = Hash(1) /\ store = 1 /\ fresh = 1
  /\ bak = [i \in Ids |-> 0]
  /\ lock = "free" /\ receipts = <<>> /\ applied = {} /\ rolled = {}
  /\ op = [o \in Ops |-> Idle]
  /\ faults = 0 /\ lost = FALSE

Goto(o, r) == op' = [op EXCEPT ![o] = r]
Ends(o) == Goto(o, [pc |-> "done"])
Fault == faults < MaxFaults /\ faults' = faults + 1
Receipt(o, i, outcome) ==
  /\ receipts' = Append(receipts, [id |-> i, outcome |-> outcome])
  /\ Ends(o)
Has(outcomes) == \E n \in DOMAIN receipts : receipts[n].outcome \in outcomes

(* latestByOperation *)
Latest(i) ==
  LET mine == {n \in DOMAIN receipts : receipts[n].id = i} IN
  IF mine = {} THEN "none"
  ELSE receipts[CHOOSE n \in mine : \A m \in mine : m <= n].outcome

(* The gate and the swap see one secret in the database and the store. *)
Linked == db.secret = store

-----------------------------------------------------------------------------
(* ensureAgentCredential: everything happens under the store lock. *)

(* The store is read under the lock; an entry that is present ends it. *)
EnsureBegin(o) ==
  /\ op[o] = Idle /\ lock = "free"
  /\ IF store # 0 THEN Ends(o) /\ UNCHANGED lock
     ELSE lock' = o /\ Goto(o, [pc |-> "client"])
  /\ UNCHANGED <<db, store, bak, receipts, fresh, applied, rolled, faults, lost>>

(* ensurePrincipal and ensureClient.  A client that exists already ends    *)
(* the bootstrap; a call may fail with or without its effect.              *)
EnsureClient(o) ==
  /\ op[o].pc = "client"
  /\ \/ /\ db # NoHash
        /\ lock' = "free" /\ Ends(o) /\ UNCHANGED <<db, fresh, faults, lost>>
     \/ /\ db = NoHash
        /\ fresh' = fresh + 1 /\ db' = Hash(fresh + 1)
        /\ Goto(o, [pc |-> "write", secret |-> fresh + 1])
        /\ UNCHANGED <<lock, faults, lost>>
     \/ /\ Fault /\ lost' = TRUE
        /\ lock' = "free" /\ Ends(o)
        /\ \/ UNCHANGED <<db, fresh>>
           \/ db = NoHash /\ fresh' = fresh + 1 /\ db' = Hash(fresh + 1)
  /\ UNCHANGED <<store, bak, receipts, applied, rolled>>

(* writeCredentialForAgent, the readback and verifyCredential, whose       *)
(* result changes nothing.                                                 *)
EnsureWrite(o) ==
  /\ op[o].pc = "write"
  /\ lock' = "free" /\ Ends(o)
  /\ \/ store' = op[o].secret /\ UNCHANGED <<faults, lost>>
     \/ Fault /\ lost' = TRUE /\ store' \in {store, op[o].secret}
  /\ UNCHANGED <<db, bak, receipts, fresh, applied, rolled>>

-----------------------------------------------------------------------------
(* executeRotation: GATE, PLAN, GENERATE, APPLY, VERIFY, RECEIPT. *)

(* readDbState, before the store is read.  "split" records whether the     *)
(* operation began on a split that nobody was working on (history).        *)
ReadDb(o) ==
  /\ op[o] = Idle /\ db # NoHash
  /\ Overlap \/ \A p \in Ops : op[p].pc \in {"idle", "client", "write", "done"}
  /\ Goto(o, [pc |-> "gate", hash |-> db,
              split |-> ~Linked /\ \A p \in Ops : op[p].pc \in {"idle", "done"}])
  /\ UNCHANGED <<db, store, bak, lock, receipts, fresh, applied, rolled, faults, lost>>

(* evaluateSeamGate: the store secret hashes to the database hash under    *)
(* its own salt.                                                           *)
GatePasses(h) == store # 0 /\ h.secret = store

(* The gate, and a replay of the operation id: one that COMPLETED answers  *)
(* without a mutation, one that needs reconciliation is refused.           *)
Gate(o) ==
  LET h == op[o].hash  i == Id(h) IN
  /\ op[o].pc = "gate"
  /\ IF store = 0 THEN Ends(o) /\ UNCHANGED <<receipts, fresh>>
     ELSE IF ~GatePasses(h) THEN Receipt(o, i, "GATE_REFUSED") /\ UNCHANGED fresh
     ELSE IF Latest(i) \in {"COMPLETED", "SPLIT_STATE_OPEN", "ROLLED_BACK", "VERIFY_INCOMPLETE"}
     THEN Ends(o) /\ UNCHANGED <<receipts, fresh>>
     ELSE /\ fresh' = fresh + 1
          /\ Goto(o, [pc |-> "apply", id |-> i, new |-> fresh + 1, split |-> op[o].split])
          /\ UNCHANGED receipts
  /\ UNCHANGED <<db, store, bak, lock, applied, rolled, faults, lost>>

(* applyDbRotation: the seam function runs an operation id once and only   *)
(* answers "replayed" after that.  A refusal or a failure of the channel,  *)
(* whose effect is unknown, is receipted.                                  *)
Apply(o) ==
  LET i == op[o].id
      Run == IF i \in applied THEN UNCHANGED <<db, applied>>
             ELSE db' = Hash(op[o].new) /\ applied' = applied \cup {i}
  IN
  /\ op[o].pc = "apply"
  /\ \/ Run /\ Goto(o, [op[o] EXCEPT !.pc = "swap"]) /\ UNCHANGED <<receipts, faults, lost>>
     \/ /\ Fault /\ lost' = TRUE
        /\ Run \/ UNCHANGED <<db, applied>>
        /\ Receipt(o, i, "REFUSED_EXTERNAL_PREREQUISITE")
  /\ UNCHANGED <<store, bak, lock, fresh, rolled>>

(* The store swap.  It may fail before the backup (the lock is taken, the  *)
(* copy fails), with the backup made, or after the rename.                 *)
Swap(o) ==
  LET i == op[o].id
      Backup == bak' = [bak EXCEPT ![i] = store]
      Then(pc) == Goto(o, [op[o] EXCEPT !.pc = pc])
  IN
  /\ op[o].pc = "swap"
  /\ \/ /\ lock = "free"
        /\ Backup /\ store' = op[o].new /\ Then("readStore") /\ UNCHANGED faults
     \/ /\ \/ lock # "free" /\ UNCHANGED faults
           \/ Fault
        /\ UNCHANGED <<bak, store>> /\ Then("rollback")
     \/ /\ lock = "free" /\ Fault
        /\ Backup /\ store' \in {store, op[o].new} /\ Then("rollback")
  /\ UNCHANGED <<db, lock, receipts, fresh, applied, rolled, lost>>

(* The rollback after a failed swap: the database goes back to the secret  *)
(* of the backup, under the live salt and an operation id of its own.      *)
(* Without a backup it is not called.                                      *)
Rollback(o) ==
  LET i == op[o].id  s == bak[i] IN
  /\ op[o].pc = "rollback"
  /\ \/ /\ s # 0
        /\ Goto(o, [op[o] EXCEPT !.pc = "restore"])
        /\ IF db.secret = s \/ i \in rolled THEN UNCHANGED <<db, rolled>>
           ELSE db' = [db EXCEPT !.secret = s] /\ rolled' = rolled \cup {i}
        /\ UNCHANGED <<receipts, faults>>
     \/ /\ (s = 0 /\ UNCHANGED faults) \/ Fault
        /\ Receipt(o, i, "SPLIT_STATE_OPEN")
        /\ UNCHANGED <<db, rolled>>
  /\ UNCHANGED <<store, bak, lock, fresh, applied, lost>>

(* Mutant: a rolled back database is receipted as such without the store.  *)
RestoreMut(o) ==
  LET i == op[o].id IN
  /\ op[o].pc = "restore"
  /\ Receipt(o, i, "ROLLED_BACK")
  /\ \/ /\ lock = "free" /\ bak[i] # 0
        /\ store' = bak[i] /\ bak' = [bak EXCEPT ![i] = 0] /\ UNCHANGED faults
     \/ /\ lock # "free" \/ bak[i] = 0
        /\ UNCHANGED <<store, bak, faults>>
     \/ Fault /\ UNCHANGED <<store, bak>>
  /\ UNCHANGED <<db, lock, fresh, applied, rolled, lost>>

(* The backup is renamed onto the store; both halves make ROLLED_BACK. *)
Restore(o) ==
  LET i == op[o].id IN
  /\ op[o].pc = "restore"
  /\ \/ /\ lock = "free" /\ bak[i] # 0
        /\ store' = bak[i] /\ bak' = [bak EXCEPT ![i] = 0]
        /\ Receipt(o, i, "ROLLED_BACK") /\ UNCHANGED faults
     \/ /\ ((lock # "free" \/ bak[i] = 0) /\ UNCHANGED faults) \/ Fault
        /\ Receipt(o, i, "SPLIT_STATE_OPEN") /\ UNCHANGED <<store, bak>>
  /\ UNCHANGED <<db, lock, fresh, applied, rolled, lost>>

(* VERIFY: the store is read, then the database; a failing mint, call or   *)
(* read leaves the verification incomplete.                                *)
ReadStore(o) ==
  /\ op[o].pc = "readStore"
  /\ Goto(o, [op[o] EXCEPT !.pc = IF store = op[o].new THEN "verify" ELSE "unverified"])
  /\ UNCHANGED <<db, store, bak, lock, receipts, fresh, applied, rolled, faults, lost>>

Verify(o) ==
  LET i == op[o].id IN
  /\ op[o].pc \in {"verify", "unverified"}
  /\ \/ /\ op[o].pc = "verify" /\ db = Hash(op[o].new)
        /\ Receipt(o, i, "COMPLETED") /\ UNCHANGED faults
     \/ /\ \/ (op[o].pc = "unverified" \/ db # Hash(op[o].new)) /\ UNCHANGED faults
           \/ Fault
        /\ Receipt(o, i, "VERIFY_INCOMPLETE")
  /\ UNCHANGED <<db, store, bak, lock, fresh, applied, rolled, lost>>

(* The process of an operation dies; a lock it holds stays.  The swap and  *)
(* the restore hold it only inside one action: they may die in it.         *)
Crash(o) ==
  /\ op[o].pc \notin {"idle", "done"} /\ Fault
  /\ Ends(o) /\ lost' = TRUE
  /\ lock' = IF lock = o THEN "stale" ELSE lock
  /\ UNCHANGED <<db, store, bak, receipts, fresh, applied, rolled>>

CrashLocked(o) ==
  LET i == op[o].id IN
  /\ op[o].pc \in {"swap", "restore"} /\ lock = "free" /\ Fault
  /\ Ends(o) /\ lost' = TRUE /\ lock' = "stale"
  /\ IF op[o].pc = "swap"
     THEN bak' = [bak EXCEPT ![i] = store] /\ store' \in {store, op[o].new}
     ELSE \/ UNCHANGED <<store, bak>>
          \/ bak[i] # 0 /\ store' = bak[i] /\ bak' = [bak EXCEPT ![i] = 0]
  /\ UNCHANGED <<db, receipts, fresh, applied, rolled>>

Next ==
  \E o \in Ops :
    \/ EnsureBegin(o) \/ EnsureClient(o) \/ EnsureWrite(o)
    \/ ReadDb(o) \/ Gate(o) \/ Apply(o) \/ Swap(o) \/ Rollback(o) \/ Restore(o)
    \/ ReadStore(o) \/ Verify(o) \/ Crash(o) \/ CrashLocked(o)

Spec == Init /\ [][Next]_vars
-----------------------------------------------------------------------------
Outcomes == {"COMPLETED", "REFUSED_EXTERNAL_PREREQUISITE", "ROLLED_BACK", "SPLIT_STATE_OPEN",
             "GATE_REFUSED", "VERIFY_INCOMPLETE"}

TypeOK ==
  /\ store \in 0..fresh /\ db.secret \in 0..fresh
  /\ lock \in Ops \cup {"free", "stale"}
  /\ \A n \in DOMAIN receipts : receipts[n].outcome \in Outcomes

Quiet == \A o \in Ops : op[o].pc \in {"idle", "done"}

(* "never a silent split" (rotation-seam.js): when rotations and           *)
(* bootstraps with failing steps have ended without a crash, the store and *)
(* the database hold the same secret or a receipt says that they may not.  *)
NoSilentSplit ==
  Quiet /\ ~lost /\ db # NoHash =>
    Linked \/ Has({"SPLIT_STATE_OPEN", "VERIFY_INCOMPLETE"})

(* A split that nobody is working on is never built upon: a rotation that  *)
(* begins on one, also one a crash left, is stopped by the gate.           *)
SplitStops ==
  \A o \in Ops : op[o].pc \in {"apply", "swap", "rollback", "restore", "readStore", "verify"}
    => ~op[o].split

(* What happens to the two halves of a credential. *)
CredentialSafe == NoSilentSplit /\ SplitStops
=============================================================================
