---------------------------- MODULE WatchdogProofs ---------------------------
(***************************************************************************)
(* Theorems about the watchdog: about the incident file of its two         *)
(* processes, for any roots, any number of episodes and runs, overlapping  *)
(* or not (the file always loads, nothing is paged without a durable       *)
(* attempt, and nothing is shown twice without the one reason there is),   *)
(* and, in the last part, about slot accounting, for any slots and any     *)
(* number of sessions (what is written off never runs, and no session      *)
(* records a slot twice).                                                  *)
(***************************************************************************)
EXTENDS WatchdogIncidents, FiniteSetTheorems, TLAPS

Deliveries == Attempted \cup {"PENDING"}

Incidents ==
  [life : {"OPEN", "ACKNOWLEDGED", "RECOVERED"}, episode : Nat \ {0}, delivery : Deliveries]

Notices == [life : {"intent"}, delivery : Deliveries, binding : Nat, tried : BOOLEAN]

Looking == [pc : {"transition"}, seen : SUBSET Roots, done : SUBSET OccRoots]
Deciding == [pc : {"next"}, queue : Seq(Keys)]
Delivering == [pc : {"bind", "mark", "readback", "send"}, queue : Seq(Keys), sha : Nat \ {0}]
Settling == [pc : {"settle"}, queue : Seq(Keys), delivery : Attempted]
Paging == Deciding \cup Delivering \cup Settling

Typed ==
  /\ fact \in [Roots -> Nat] /\ \A r \in Roots : fact[r] <= MaxFlips[r]
  /\ disposed \subseteq OccRoots
  /\ route \in [sha : Nat \ {0}, valid : BOOLEAN]
  /\ inc \in [Roots -> Incidents \cup {None}]
  /\ out \in [Keys -> Notices \cup {None}]
  /\ stale \subseteq Roles
  /\ run \in [Roles -> {Idle} \cup Looking \cup Paging]
  /\ sent \in [Keys -> Nat] /\ fresh \subseteq Keys /\ misread \subseteq Keys

-----------------------------------------------------------------------------
(* What the outbox and the chat say of one notification: the chat shows it *)
(* only behind a durable attempt that is bound to a route, what is on      *)
(* record as delivered was shown, and what is on record as failed was not, *)
(* unless its answer was misread.                                          *)
KeySafe(k) ==
  /\ out[k] = None => sent[k] = 0
  /\ out[k] # None =>
       /\ sent[k] > 0 => out[k].tried
       /\ out[k].tried => out[k].binding # 0
       /\ out[k].tried <=> out[k].delivery # "PENDING"
       /\ out[k].delivery = "DELIVERED" => sent[k] > 0
       /\ out[k].delivery = "FAILED" /\ sent[k] > 0 => k \in misread
  /\ sent[k] > 1 => k \in misread
  /\ k \in fresh => sent[k] > 0

(* An incident has the notice of its last transition, both with the same   *)
(* delivery, and as many episodes as its root has come and gone; no notice *)
(* is of a later transition than the incident's.                           *)
RootSafe(r) ==
  LET i == inc[r] IN
  /\ i # None =>
       /\ Current(r) \in Keys /\ out[Current(r)] # None
       /\ out[Current(r)].delivery = i.delivery
       /\ 2 * i.episode - 1 <= fact[r]
       /\ i.life = "RECOVERED" => 2 * i.episode <= fact[r]
       /\ i.life = "ACKNOWLEDGED" => r \in OccRoots
  /\ \A k \in Keys : k[1] = r /\ out[k] # None =>
       /\ i # None /\ k[2] <= i.episode
       /\ k[2] = i.episode => k[3] \in {"OPEN", i.life}
  /\ \A n \in Episodes(r) :
       ~(<<r, n, "ACKNOWLEDGED">> \in Intents /\ <<r, n, "RECOVERED">> \in Intents)

(* What a run has seen of a root of its own is still behind the incident:  *)
(* nobody else moves the incident.                                         *)
SeenSafe(p, r) ==
  LET i == inc[r] IN
  /\ r \in run[p].seen =>
       1 <= fact[r] /\ (i # None /\ i.life = "RECOVERED" => 2 * i.episode + 1 <= fact[r])
  /\ r \notin run[p].seen => (i # None /\ i.life = "OPEN" => 2 * i.episode <= fact[r])

(* The notices a run still has to page are its own, each there once, and   *)
(* none is delivered yet.                                                  *)
QueueSafe(p) ==
  LET q == run[p].queue IN
  /\ Len(q) > 0
  /\ \A n \in 1..Len(q) :
       Owns(p, q[n][1]) /\ out[q[n]] # None /\ out[q[n]].delivery # "DELIVERED"
  /\ \A n, m \in 1..Len(q) : n # m => q[n] # q[m]

(* What each step of a run has established for the notice it is at. *)
HeadSafe(p) ==
  LET k == Key(p) IN
  /\ run[p].pc = "bind" => out[k].binding = 0
  /\ run[p].pc = "mark" => out[k].binding # 0
  /\ run[p].pc \in {"mark", "send"} => (sent[k] > 0 => k \in misread)
  /\ run[p].pc \in {"readback", "send", "settle"} => out[k].delivery = "OUTCOME_UNKNOWN"
  /\ run[p].pc = "settle" =>
       /\ run[p].delivery = "DELIVERED" => sent[k] > 0
       /\ run[p].delivery = "FAILED" /\ sent[k] > 0 => k \in misread

RunSafe(p) ==
  /\ run[p] \in Looking =>
       /\ \A r \in run[p].seen : Owns(p, r)
       /\ \A r \in Roots : Owns(p, r) => SeenSafe(p, r)
  /\ run[p] \in Paging => QueueSafe(p) /\ HeadSafe(p)

IInv ==
  /\ Typed
  /\ \A k \in Keys : KeySafe(k)
  /\ \A r \in Roots : RootSafe(r)
  /\ \A p \in Roles : RunSafe(p)

-----------------------------------------------------------------------------
(* Lemmas about keys, owners and records. *)

LEMMA KeyParts ==
  ASSUME NEW k \in Keys
  PROVE  /\ k[1] \in Roots /\ k[2] \in Episodes(k[1]) /\ k[2] \in Nat \ {0}
         /\ k[3] \in {"OPEN", "ACKNOWLEDGED", "RECOVERED"} /\ k = <<k[1], k[2], k[3]>>
<1>1. PICK r \in Roots : k \in {r} \X Episodes(r) \X {"OPEN", "ACKNOWLEDGED", "RECOVERED"}
  BY DEF Keys
<1>2. k[1] = r /\ k[2] \in Episodes(r) /\ k[3] \in {"OPEN", "ACKNOWLEDGED", "RECOVERED"}
      /\ k = <<k[1], k[2], k[3]>>
  BY <1>1
<1> QED BY <1>2, WatchdogAssumption DEF Episodes

(* An episode that the root has come to has its keys. *)
LEMMA EpisodeKey ==
  ASSUME NEW r \in Roots, NEW n \in Nat \ {0}, 2 * n - 1 <= MaxFlips[r],
         NEW life \in {"OPEN", "ACKNOWLEDGED", "RECOVERED"}
  PROVE  <<r, n, life>> \in Keys /\ n \in Episodes(r)
<1>1. MaxFlips[r] \in Nat
  BY WatchdogAssumption
<1>2. n <= (MaxFlips[r] + 1) \div 2 /\ (MaxFlips[r] + 1) \div 2 \in Int
  BY <1>1
<1>3. n \in Episodes(r)
  BY <1>2 DEF Episodes
<1>4. <<r, n, life>> \in {r} \X Episodes(r) \X {"OPEN", "ACKNOWLEDGED", "RECOVERED"}
  BY <1>3
<1> QED BY <1>3, <1>4 DEF Keys

LEMMA OneOwner ==
  ASSUME NEW p \in Roles, NEW q \in Roles, p # q, NEW r, Owns(p, r)
  PROVE  ~Owns(q, r)
  BY DEF Roles, Owns

LEMMA NoticeKinds ==
  ASSUME NEW n \in Notices \cup {None}
  PROVE  n # None => /\ n \in Notices /\ n.delivery \in Deliveries /\ n.binding \in Nat
                     /\ n.tried \in BOOLEAN
  BY DEF Notices

LEMMA IncidentKinds ==
  ASSUME NEW i \in Incidents \cup {None}
  PROVE  /\ i # None => /\ i \in Incidents /\ i.episode \in Nat \ {0} /\ i.delivery \in Deliveries
                        /\ i.life \in {"OPEN", "ACKNOWLEDGED", "RECOVERED"}
         /\ i = None <=> i.life = "none"
  BY DEF Incidents, None

(* The step of a run is told by its pc. *)
LEMMA RunKinds ==
  ASSUME NEW s \in {Idle} \cup Looking \cup Paging
  PROVE  /\ s.pc \in {"idle", "transition", "next", "bind", "mark", "readback", "send", "settle"}
         /\ s.pc = "idle" <=> s = Idle
         /\ s.pc = "transition" <=> s \in Looking
         /\ s.pc \in {"next", "bind", "mark", "readback", "send", "settle"} <=> s \in Paging
         /\ s \in Paging => s.queue \in Seq(Keys)
         /\ s \in Looking => s.seen \subseteq Roots /\ s.done \subseteq OccRoots
         /\ s.pc \in {"bind", "mark", "readback", "send"} <=> s \in Delivering
         /\ s \in Delivering => s.sha \in Nat \ {0}
         /\ s.pc = "settle" <=> s \in Settling
         /\ s \in Settling => s.delivery \in Attempted
  BY DEF Idle, Looking, Paging, Deciding, Delivering, Settling

(* What the process is at. *)
LEMMA Heads ==
  ASSUME IInv, NEW p \in Roles, run[p] \in Paging
  PROVE  /\ run[p].queue \in Seq(Keys) /\ Len(run[p].queue) \in Nat /\ Len(run[p].queue) > 0
         /\ Key(p) = run[p].queue[1] /\ Key(p) \in Keys /\ Owns(p, Key(p)[1])
         /\ out[Key(p)] # None /\ out[Key(p)] \in Notices /\ out[Key(p)].delivery # "DELIVERED"
         /\ KeySafe(Key(p)) /\ QueueSafe(p) /\ HeadSafe(p)
<1>1. run[p].queue \in Seq(Keys)
  BY RunKinds DEF IInv, Typed
<1>2. QueueSafe(p) /\ HeadSafe(p)
  BY DEF IInv, RunSafe
<1>3. Len(run[p].queue) > 0 /\ Len(run[p].queue) \in Nat
  BY <1>1, <1>2 DEF QueueSafe
<1>4. Key(p) = run[p].queue[1] /\ Key(p) \in Keys
  BY <1>1, <1>3 DEF Key
<1>5. Owns(p, Key(p)[1]) /\ out[Key(p)] # None /\ out[Key(p)].delivery # "DELIVERED"
  BY <1>2, <1>3, <1>4 DEF QueueSafe
<1>6. out[Key(p)] \in Notices
  BY <1>4, <1>5, NoticeKinds DEF IInv, Typed
<1>7. KeySafe(Key(p))
  BY <1>4 DEF IInv
<1> QED BY <1>1, <1>2, <1>3, <1>4, <1>5, <1>6, <1>7

-----------------------------------------------------------------------------
(* What a step that does not concern it leaves of a notice, a root, a run. *)

LEMMA KeyFrame ==
  ASSUME IInv, NEW k \in Keys, out'[k] = out[k], sent'[k] = sent[k], fresh' \subseteq fresh,
         k \in misread => k \in misread'
  PROVE  KeySafe(k)'
<1>1. KeySafe(k)
  BY DEF IInv
<1> QED BY <1>1 DEF KeySafe

LEMMA RootFrame ==
  ASSUME IInv, NEW r \in Roots, inc'[r] = inc[r], fact[r] <= fact'[r], fact'[r] \in Nat,
         \A k \in Keys : k[1] = r => out'[k] = out[k]
  PROVE  RootSafe(r)'
<1>1. RootSafe(r) /\ fact[r] \in Nat /\ inc[r] \in Incidents \cup {None}
  BY DEF IInv, Typed
<1>2. Current(r)' = Current(r) /\ Current(r)[1] = r
  BY DEF Current
<1>3. inc[r] # None => out'[Current(r)] = out[Current(r)]
  BY <1>1, <1>2 DEF RootSafe
<1>4. \A n \in Episodes(r), life \in {"ACKNOWLEDGED", "RECOVERED"} :
        <<r, n, life>> \in Intents' => <<r, n, life>> \in Intents
  <2>1. TAKE n \in Episodes(r), life \in {"ACKNOWLEDGED", "RECOVERED"}
  <2>2. <<r, n, life>>[1] = r
    OBVIOUS
  <2> QED BY <2>2 DEF Intents
<1>5. inc[r] # None =>
        /\ 2 * inc[r].episode - 1 <= fact'[r]
        /\ inc[r].life = "RECOVERED" => 2 * inc[r].episode <= fact'[r]
  <2> SUFFICES ASSUME inc[r] # None
               PROVE  /\ 2 * inc[r].episode - 1 <= fact'[r]
                      /\ inc[r].life = "RECOVERED" => 2 * inc[r].episode <= fact'[r]
    OBVIOUS
  <2>1. inc[r].episode \in Nat \ {0}
    BY <1>1, IncidentKinds
  <2> QED BY <1>1, <2>1 DEF RootSafe
<1> QED BY <1>1, <1>2, <1>3, <1>4, <1>5 DEF RootSafe

LEMMA RunFrame ==
  ASSUME IInv, NEW p \in Roles, run'[p] = run[p],
         \A k \in Keys : Owns(p, k[1]) => /\ out'[k] = out[k] /\ sent'[k] = sent[k]
                                          /\ k \in misread => k \in misread',
         \A r \in Roots : Owns(p, r) => /\ inc'[r] = inc[r] /\ fact[r] <= fact'[r]
                                        /\ fact'[r] \in Nat
  PROVE  RunSafe(p)'
<1>1. CASE run[p] \in Looking
  <2>1. run[p] \notin Paging
    BY <1>1 DEF Looking, Paging, Deciding, Delivering, Settling
  <2>2. ASSUME NEW r \in Roots, Owns(p, r) PROVE SeenSafe(p, r)'
    <3>1. SeenSafe(p, r) /\ fact[r] \in Nat /\ inc[r] \in Incidents \cup {None}
      BY <1>1, <2>2 DEF IInv, RunSafe, Typed
    <3>2. inc'[r] = inc[r] /\ fact[r] <= fact'[r] /\ fact'[r] \in Nat
      BY <2>2
    <3>3. inc[r] # None => inc[r].episode \in Nat
      BY <3>1, IncidentKinds
    <3> QED BY <3>1, <3>2, <3>3 DEF SeenSafe
  <2> QED BY <1>1, <2>1, <2>2 DEF IInv, RunSafe
<1>2. CASE run[p] \in Paging
  <2>1. run[p] \notin Looking
    BY <1>2 DEF Looking, Paging, Deciding, Delivering, Settling
  <2>2. /\ Key(p)' = Key(p) /\ Key(p) \in Keys /\ Owns(p, Key(p)[1]) /\ QueueSafe(p) /\ HeadSafe(p)
        /\ run[p].queue \in Seq(Keys)
    BY <1>2, Heads DEF Key
  <2>3. QueueSafe(p)'
    <3>1. PICK q \in Seq(Keys) : q = run[p].queue
      BY <2>2
    <3>2. Len(q) \in Nat /\ \A n \in 1..Len(q) : q[n] \in Keys
      BY <3>1
    <3>3. run'[p].queue = q
      BY <3>1
    <3>4. /\ Len(q) > 0
          /\ \A n \in 1..Len(q) :
               Owns(p, q[n][1]) /\ out[q[n]] # None /\ out[q[n]].delivery # "DELIVERED"
          /\ \A n, m \in 1..Len(q) : n # m => q[n] # q[m]
      BY <2>2, <3>1, Zenon DEF QueueSafe
    <3>5. \A n \in 1..Len(q) : out'[q[n]] = out[q[n]]
      BY <3>2, <3>4
    <3> QED BY <3>3, <3>4, <3>5, Zenon DEF QueueSafe
  <2>4. HeadSafe(p)'
    BY <2>2 DEF HeadSafe
  <2> QED BY <2>1, <2>3, <2>4 DEF RunSafe
<1>3. CASE run[p] \notin Looking \cup Paging
  BY <1>3 DEF RunSafe
<1> QED BY <1>1, <1>2, <1>3

-----------------------------------------------------------------------------
LEMMA InvInit == Init => IInv
<1> SUFFICES ASSUME Init PROVE IInv
  OBVIOUS
<1>1. Typed
  <2>1. \A r \in Roots : fact[r] <= MaxFlips[r]
    BY WatchdogAssumption DEF Init
  <2>2. route \in [sha : Nat \ {0}, valid : BOOLEAN]
    BY DEF Init
  <2> QED BY <2>1, <2>2 DEF Init, Typed
<1>2. \A k \in Keys : KeySafe(k)
  BY DEF Init, KeySafe
<1>3. ASSUME NEW r \in Roots PROVE RootSafe(r)
  BY <1>3 DEF Init, RootSafe, Intents
<1>4. ASSUME NEW p \in Roles PROVE RunSafe(p)
  <2>1. run[p] = Idle /\ Idle \notin Looking \cup Paging
    BY DEF Init, Idle, Looking, Paging, Deciding, Delivering, Settling
  <2> QED BY <2>1 DEF RunSafe
<1> QED BY <1>1, <1>2, <1>3, <1>4 DEF IInv

-----------------------------------------------------------------------------
(* The detectors, the operator, the manifest, the provider's window. *)

LEMMA FactChangesKeeps == ASSUME IInv, NEW r \in Roots, FactChanges(r) PROVE IInv'
<1>1. /\ Typed /\ fact \in [Roots -> Nat] /\ fact[r] < MaxFlips[r] /\ MaxFlips[r] \in Nat
      /\ fact' = [fact EXCEPT ![r] = fact[r] + 1]
      /\ UNCHANGED <<disposed, route, inc, out, stale, run, sent, fresh, misread>>
  BY WatchdogAssumption DEF IInv, Typed, FactChanges, file, chat
<1>2. \A x \in Roots : fact'[x] \in Nat /\ fact[x] <= fact'[x] /\ fact'[x] <= MaxFlips[x]
  BY <1>1 DEF Typed
<1>3. fact' \in [Roots -> Nat]
  BY <1>1
<1>4. Typed'
  BY <1>1, <1>2, <1>3 DEF Typed
<1>5. \A k \in Keys : KeySafe(k)'
  BY <1>1, KeyFrame
<1>6. \A x \in Roots : RootSafe(x)'
  BY <1>1, <1>2, RootFrame
<1>7. \A p \in Roles : RunSafe(p)'
  BY <1>1, <1>2, RunFrame
<1> QED BY <1>4, <1>5, <1>6, <1>7 DEF IInv

(* A step that changes nothing of the file, the runs and what was sent. *)
LEMMA EnvKeeps ==
  ASSUME IInv, UNCHANGED <<fact, inc, out, run, sent, misread>>, fresh' \subseteq fresh,
         stale' \subseteq Roles, disposed' \subseteq OccRoots,
         route' \in [sha : Nat \ {0}, valid : BOOLEAN]
  PROVE  IInv'
<1>1. Typed /\ \A r \in Roots : fact[r] \in Nat
  BY DEF IInv, Typed
<1>2. Typed'
  BY <1>1 DEF Typed
<1>3. \A k \in Keys : KeySafe(k)'
  BY KeyFrame
<1>4. \A r \in Roots : RootSafe(r)'
  BY <1>1, RootFrame
<1>5. \A p \in Roles : RunSafe(p)'
  BY <1>1, RunFrame
<1> QED BY <1>2, <1>3, <1>4, <1>5 DEF IInv

LEMMA DisposeKeeps == ASSUME IInv, NEW r \in Roots, Dispose(r) PROVE IInv'
  BY EnvKeeps DEF IInv, Typed, Dispose, file, chat

LEMMA RouteChangesKeeps == ASSUME IInv, RouteChanges PROVE IInv'
<1>1. route' \in [sha : Nat \ {0}, valid : BOOLEAN]
  BY DEF IInv, Typed, RouteChanges
<1> QED BY <1>1, EnvKeeps DEF IInv, Typed, RouteChanges, file, chat

LEMMA ExpireKeeps == ASSUME IInv, NEW k \in Keys, Expire(k) PROVE IInv'
  BY EnvKeeps DEF IInv, Typed, Expire, env, file

-----------------------------------------------------------------------------
(* The runs: those that load, die, lose or decide. *)

(* A run whose step leaves the file and the chat alone. *)
LEMMA RunMoves ==
  ASSUME IInv, NEW p \in Roles, UNCHANGED <<fact, disposed, route, inc, out, sent, fresh, misread>>,
         stale' \subseteq Roles,
         NEW s \in {Idle} \cup Looking \cup Paging, run' = [run EXCEPT ![p] = s], RunSafe(p)'
  PROVE  IInv'
<1>1. Typed /\ (\A r \in Roots : fact[r] \in Nat) /\ run \in [Roles -> {Idle} \cup Looking \cup Paging]
  BY DEF IInv, Typed
<1>2. Typed'
  BY <1>1 DEF Typed
<1>3. \A k \in Keys : KeySafe(k)'
  BY KeyFrame
<1>4. \A r \in Roots : RootSafe(r)'
  BY <1>1, RootFrame
<1>5. ASSUME NEW q \in Roles PROVE RunSafe(q)'
  <2>1. CASE q = p
    BY <2>1
  <2>2. CASE q # p
    <3>1. run'[q] = run[q]
      BY <1>1, <2>2
    <3> QED BY <1>1, <3>1, RunFrame
  <2> QED BY <2>1, <2>2
<1> QED BY <1>2, <1>3, <1>4, <1>5 DEF IInv

(* A run that ends has nothing to keep. *)
LEMMA RunEnds ==
  ASSUME IInv, NEW p \in Roles, UNCHANGED <<fact, disposed, route, inc, out, sent, fresh, misread>>,
         stale' \subseteq Roles, Goto(p, Idle)
  PROVE  IInv'
<1>1. run'[p] = Idle /\ run' = [run EXCEPT ![p] = Idle]
  BY DEF Goto, IInv, Typed
<1>2. Idle \notin Looking \cup Paging
  BY DEF Idle, Looking, Paging, Deciding, Delivering, Settling
<1>3. RunSafe(p)'
  BY <1>1, <1>2 DEF RunSafe
<1> QED BY <1>1, <1>3, RunMoves

LEMMA LoseKeeps == ASSUME IInv, NEW p \in Roles, Lose(p) PROVE IInv'
  BY RunEnds DEF IInv, Typed, Lose, env, chat

LEMMA DieKeeps == ASSUME IInv, NEW p \in Roles, Die(p) PROVE IInv'
  BY RunEnds DEF IInv, Typed, Die, env, chat

(* A root that is present has come once more than it has gone. *)
LEMMA Parity ==
  ASSUME NEW f \in Nat, NEW n \in Nat
  PROVE  /\ f % 2 = 1 => 1 <= f /\ (2 * n <= f => 2 * n + 1 <= f)
         /\ f % 2 # 1 => (2 * n - 1 <= f => 2 * n <= f)
  OBVIOUS

LEMMA LoadKeeps == ASSUME IInv, NEW p \in Roles, Load(p) PROVE IInv'
<1>1. PICK s : s = [pc |-> "transition", seen |-> {r \in Reported : Owns(p, r)},
                    done |-> {r \in Reported \cap disposed : Owns(p, r)}]
  OBVIOUS
<1>2. /\ Typed /\ run' = [run EXCEPT ![p] = s] /\ stale' \subseteq Roles
      /\ UNCHANGED <<fact, disposed, route, inc, out, sent, fresh, misread>>
  BY <1>1 DEF IInv, Typed, Load, Goto, env, chat
<1>3. Reported \subseteq Roots /\ disposed \subseteq OccRoots
  BY <1>2 DEF Typed, Reported
<1>4. s \in Looking /\ s.seen = {r \in Reported : Owns(p, r)}
  BY <1>1, <1>3 DEF Looking
<1>5. s \notin Paging /\ run'[p] = s
  BY <1>2, <1>4 DEF Looking, Paging, Deciding, Delivering, Settling, Typed
<1>6. ASSUME NEW r \in Roots, Owns(p, r) PROVE SeenSafe(p, r)'
  <2>1. RootSafe(r) /\ fact[r] \in Nat /\ inc[r] \in Incidents \cup {None}
    BY <1>2 DEF IInv, Typed
  <2>2. inc'[r] = inc[r] /\ fact'[r] = fact[r] /\ (r \in run'[p].seen <=> fact[r] % 2 = 1)
    BY <1>2, <1>4, <1>5, <1>6 DEF Reported
  <2>3. CASE inc[r] = None
    BY <2>1, <2>2, <2>3, Parity DEF SeenSafe
  <2>4. CASE inc[r] # None
    <3>1. inc[r].episode \in Nat
      BY <2>1, <2>4, IncidentKinds
    <3>2. /\ 2 * inc[r].episode - 1 <= fact[r]
          /\ inc[r].life = "RECOVERED" => 2 * inc[r].episode <= fact[r]
      BY <2>1, <2>4 DEF RootSafe
    <3>3. /\ fact[r] % 2 = 1 => 1 <= fact[r]
                                /\ (2 * inc[r].episode <= fact[r] => 2 * inc[r].episode + 1 <= fact[r])
          /\ fact[r] % 2 # 1 => (2 * inc[r].episode - 1 <= fact[r] => 2 * inc[r].episode <= fact[r])
      BY <2>1, <3>1, Parity
    <3> QED BY <2>2, <3>2, <3>3 DEF SeenSafe
  <2> QED BY <2>3, <2>4
<1>7. RunSafe(p)'
  BY <1>4, <1>5, <1>6 DEF RunSafe
<1> QED BY <1>2, <1>4, <1>7, RunMoves

(* The rest of the queue after its head. *)
LEMMA Rest ==
  ASSUME NEW q \in Seq(Keys), Len(q) > 1
  PROVE  /\ Tail(q) \in Seq(Keys) /\ Len(Tail(q)) = Len(q) - 1
         /\ \A n \in 1..Len(Tail(q)) : n + 1 \in 1..Len(q) /\ Tail(q)[n] = q[n + 1]
  OBVIOUS

(* After the head of its queue a run goes on with the rest, or ends. *)
LEMMA SkipEffect ==
  ASSUME IInv, NEW p \in Roles, run[p] \in Paging, Skip(p),
         \A k \in Keys : k # Key(p) => out'[k] = out[k]
  PROVE  \E s \in {Idle} \cup Deciding : run' = [run EXCEPT ![p] = s] /\ RunSafe(p)'
<1>0. PICK q \in Seq(Keys) : q = run[p].queue
  BY Heads
<1>1. /\ Len(q) \in Nat /\ Len(q) > 0 /\ Key(p) = q[1] /\ QueueSafe(p)
      /\ run \in [Roles -> {Idle} \cup Looking \cup Paging]
  BY <1>0, Heads DEF IInv, Typed
<1>2. CASE Len(q) = 1
  <2>1. run' = [run EXCEPT ![p] = Idle] /\ run'[p] = Idle
    BY <1>0, <1>1, <1>2 DEF Skip, Goto
  <2>2. Idle \notin Looking \cup Paging
    BY DEF Idle, Looking, Paging, Deciding, Delivering, Settling
  <2> QED BY <2>1, <2>2 DEF RunSafe
<1>3. CASE Len(q) > 1
  <2>1. PICK t \in Seq(Keys) :
          /\ t = Tail(q) /\ Len(t) = Len(q) - 1
          /\ \A n \in 1..Len(t) : n + 1 \in 1..Len(q) /\ t[n] = q[n + 1]
    BY <1>1, <1>3, Rest
  <2>2. PICK s \in Deciding : s = [pc |-> "next", queue |-> t]
    BY <2>1 DEF Deciding
  <2>3. run' = [run EXCEPT ![p] = s] /\ run'[p] = s /\ s.queue = t /\ s.pc = "next"
    <3>1. Len(run[p].queue) # 1 /\ Tail(run[p].queue) = t
      BY <1>0, <1>1, <1>3, <2>1
    <3>2. run' = [run EXCEPT ![p] = [pc |-> "next", queue |-> t]]
      BY <3>1 DEF Skip, Goto
    <3>3. s.queue = t /\ s.pc = "next" /\ run' = [run EXCEPT ![p] = s]
      BY <2>2, <3>2
    <3> QED BY <1>1, <3>3
  <2>4. ASSUME NEW n \in 1..Len(t)
        PROVE  Owns(p, t[n][1]) /\ out'[t[n]] # None /\ out'[t[n]].delivery # "DELIVERED"
    <3>1. n + 1 \in 1..Len(q) /\ t[n] = q[n + 1] /\ 1 \in 1..Len(q) /\ n + 1 # 1
      BY <1>1, <2>1
    <3>2. q[n + 1] # q[1] /\ q[n + 1] \in Keys
      BY <1>0, <1>1, <3>1 DEF QueueSafe
    <3>3. out'[q[n + 1]] = out[q[n + 1]]
      BY <1>1, <3>2
    <3> QED BY <1>0, <1>1, <3>1, <3>3 DEF QueueSafe
  <2>5. ASSUME NEW n \in 1..Len(t), NEW m \in 1..Len(t), n # m PROVE t[n] # t[m]
    <3>1. n + 1 \in 1..Len(q) /\ m + 1 \in 1..Len(q) /\ n + 1 # m + 1
          /\ t[n] = q[n + 1] /\ t[m] = q[m + 1]
      BY <2>1, <2>5
    <3> QED BY <1>0, <1>1, <3>1 DEF QueueSafe
  <2>6. Len(t) > 0 /\ run'[p].queue = t
    BY <1>1, <1>3, <2>1, <2>3
  <2>7. QueueSafe(p)'
    BY <2>4, <2>5, <2>6 DEF QueueSafe
  <2>8. HeadSafe(p)'
    BY <2>3 DEF HeadSafe
  <2>9. s \notin Looking
    BY <2>3 DEF Looking
  <2> QED BY <2>3, <2>7, <2>8, <2>9 DEF RunSafe
<1>4. Len(q) = 1 \/ Len(q) > 1
  <2>1. Len(q) \in Nat /\ Len(q) > 0
    BY <1>1
  <2>2. \A n \in Nat : n > 0 => n = 1 \/ n > 1
    OBVIOUS
  <2> QED BY <2>1, <2>2, Zenon
<1> QED BY <1>2, <1>3, <1>4

(* A run that stays at the head of its queue keeps the queue. *)
LEMMA QueueStays ==
  ASSUME IInv, NEW p \in Roles, run[p] \in Paging, run'[p].queue = run[p].queue,
         \A k \in Keys : k # Key(p) => out'[k] = out[k],
         out'[Key(p)] # None, out'[Key(p)].delivery # "DELIVERED"
  PROVE  QueueSafe(p)' /\ Key(p)' = Key(p)
<1>1. PICK q \in Seq(Keys) : q = run[p].queue
  BY Heads
<1>2. Len(q) > 0 /\ Key(p) = q[1] /\ QueueSafe(p) /\ run'[p].queue = q
  BY <1>1, Heads
<1>3. ASSUME NEW n \in 1..Len(q)
      PROVE  Owns(p, q[n][1]) /\ out'[q[n]] # None /\ out'[q[n]].delivery # "DELIVERED"
  <2>1. Owns(p, q[n][1]) /\ out[q[n]] # None /\ out[q[n]].delivery # "DELIVERED" /\ q[n] \in Keys
    BY <1>1, <1>2 DEF QueueSafe
  <2>2. CASE q[n] = Key(p)
    BY <2>1, <2>2
  <2>3. CASE q[n] # Key(p)
    <3>1. out'[q[n]] = out[q[n]]
      BY <2>1, <2>3
    <3> QED BY <2>1, <3>1
  <2> QED BY <2>2, <2>3
<1>4. \A n, m \in 1..Len(q) : n # m => q[n] # q[m]
  BY <1>1, <1>2 DEF QueueSafe
<1>5. QueueSafe(p)'
  BY <1>2, <1>3, <1>4 DEF QueueSafe
<1>6. Key(p)' = Key(p)
  BY DEF Key
<1> QED BY <1>5, <1>6

LEMMA DecideKeeps == ASSUME IInv, NEW p \in Roles, Decide(p) PROVE IInv'
<1>1. /\ run[p].pc = "next" /\ stale' \subseteq Roles /\ run \in [Roles -> {Idle} \cup Looking \cup Paging]
      /\ UNCHANGED <<fact, disposed, route, inc, out, stale, sent, fresh, misread>>
      /\ route.sha \in Nat \ {0}
  BY DEF IInv, Typed, Decide, env, file, chat
<1>2. run[p] \in Paging
  BY <1>1, RunKinds
<1>3. CASE ~Authorized(p)
  <2>1. Skip(p)
    BY <1>3 DEF Decide
  <2>2. PICK s \in {Idle} \cup Deciding : run' = [run EXCEPT ![p] = s] /\ RunSafe(p)'
    BY <1>1, <1>2, <2>1, SkipEffect
  <2> QED BY <1>1, <2>2, RunMoves DEF Paging
<1>4. CASE Authorized(p)
  <2>1. PICK c : c = IF out[Key(p)].binding = 0 THEN "bind"
                     ELSE IF out[Key(p)].delivery = "OUTCOME_UNKNOWN" THEN "readback" ELSE "mark"
    OBVIOUS
  <2>2. PICK s : s = [pc |-> c, queue |-> run[p].queue, sha |-> route.sha]
    OBVIOUS
  <2>3. run' = [run EXCEPT ![p] = s]
    BY <1>4, <2>1, <2>2 DEF Decide, Goto
  <2>4. s \in Delivering /\ s.pc = c /\ s.queue = run[p].queue
    BY <1>1, <1>2, <2>1, <2>2, Heads DEF Delivering
  <2>5. s \in Paging /\ s \notin Looking /\ run'[p] = s
    BY <1>1, <2>1, <2>3, <2>4 DEF Paging, Looking
  <2>6. QueueSafe(p)' /\ Key(p)' = Key(p)
    BY <1>1, <1>2, <2>4, <2>5, Heads, QueueStays
  <2>7. HeadSafe(p)'
    <3>1. /\ KeySafe(Key(p)) /\ out[Key(p)] # None /\ out[Key(p)].delivery # "DELIVERED"
          /\ out[Key(p)].delivery \in Deliveries
      BY <1>2, Heads, NoticeKinds
    <3>2. run'[p].pc = c /\ out' = out /\ sent' = sent /\ misread' = misread
      BY <1>1, <2>4, <2>5
    <3>3. c = "bind" => out[Key(p)].binding = 0
      BY <2>1
    <3>4. c = "mark" => /\ out[Key(p)].binding # 0
                        /\ out[Key(p)].delivery \in {"PENDING", "FAILED"}
      BY <2>1, <3>1 DEF Deliveries, Attempted
    <3>5. c = "readback" => out[Key(p)].delivery = "OUTCOME_UNKNOWN"
      BY <2>1
    <3>6. c = "mark" => (sent[Key(p)] > 0 => Key(p) \in misread)
      BY <3>1, <3>4 DEF KeySafe
    <3>7. c \in {"bind", "mark", "readback"}
      BY <2>1
    <3> QED BY <2>6, <3>2, <3>3, <3>4, <3>5, <3>6, <3>7 DEF HeadSafe
  <2>8. RunSafe(p)'
    BY <2>5, <2>6, <2>7 DEF RunSafe
  <2> QED BY <1>1, <2>3, <2>5, <2>8, RunMoves
<1> QED BY <1>3, <1>4

-----------------------------------------------------------------------------
(* The commits of a delivery: the notice at the head of the queue, and its *)
(* incident when the notice is of the incident's last transition.          *)
LEMMA EditKeeps ==
  ASSUME IInv, NEW p \in Roles, run[p] \in Paging,
         UNCHANGED <<fact, disposed, route, sent, fresh, misread>>, stale' \subseteq Roles,
         NEW k \in Keys, k = Key(p), NEW n \in Notices, out' = [out EXCEPT ![k] = n],
         inc' = IF Current(k[1]) = k THEN [inc EXCEPT ![k[1]].delivery = n.delivery] ELSE inc,
         sent[k] > 0 => n.tried, n.tried => n.binding # 0, n.tried <=> n.delivery # "PENDING",
         n.delivery = "DELIVERED" => sent[k] > 0,
         n.delivery = "FAILED" /\ sent[k] > 0 => k \in misread,
         NEW s \in {Idle} \cup Looking \cup Paging, run' = [run EXCEPT ![p] = s], RunSafe(p)'
  PROVE  IInv'
<1>1. /\ Typed /\ out \in [Keys -> Notices \cup {None}] /\ inc \in [Roots -> Incidents \cup {None}]
      /\ run \in [Roles -> {Idle} \cup Looking \cup Paging]
      /\ out[k] # None /\ Owns(p, k[1]) /\ KeySafe(k)
      /\ \A r \in Roots : fact[r] \in Nat
  BY Heads DEF IInv, Typed
<1>2. /\ out'[k] = n /\ n # None /\ n.delivery \in Deliveries
      /\ \A x \in Keys : x # k => out'[x] = out[x]
  BY <1>1 DEF Notices, None
<1>3. \A x \in Keys : out'[x] # None <=> out[x] # None
  BY <1>1, <1>2
<1>4. k[1] \in Roots /\ k[2] \in Nat \ {0} /\ k[3] \in {"OPEN", "ACKNOWLEDGED", "RECOVERED"}
      /\ k = <<k[1], k[2], k[3]>>
  BY KeyParts
<1>5. Current(k[1]) = k => /\ inc[k[1]] # None /\ inc[k[1]] \in Incidents
                           /\ inc[k[1]].episode = k[2] /\ inc[k[1]].life = k[3]
  <2>1. Current(k[1]) = k => inc[k[1]].episode = k[2] /\ inc[k[1]].life = k[3]
    BY <1>4 DEF Current
  <2>2. None.life = "none"
    BY DEF None
  <2> QED BY <1>1, <1>4, <2>1, <2>2
<1>6. PICK e : e = [life |-> inc[k[1]].life, episode |-> inc[k[1]].episode, delivery |-> n.delivery]
  OBVIOUS
<1>7. Current(k[1]) = k => e \in Incidents /\ inc' = [inc EXCEPT ![k[1]] = e]
  <2> SUFFICES ASSUME Current(k[1]) = k PROVE e \in Incidents /\ inc' = [inc EXCEPT ![k[1]] = e]
    OBVIOUS
  <2>1. e \in Incidents
    BY <1>2, <1>5, <1>6 DEF Incidents
  <2>2. e = [inc[k[1]] EXCEPT !.delivery = n.delivery]
    BY <1>5, <1>6 DEF Incidents
  <2>3. inc' = [inc EXCEPT ![k[1]] = [inc[k[1]] EXCEPT !.delivery = n.delivery]]
    BY <1>1, <1>4
  <2> QED BY <2>1, <2>2, <2>3
<1>8. inc' \in [Roots -> Incidents \cup {None}]
  BY <1>1, <1>4, <1>7
<1>9. ASSUME NEW r \in Roots
      PROVE  /\ r # k[1] \/ Current(k[1]) # k => inc'[r] = inc[r]
             /\ r = k[1] /\ Current(k[1]) = k => inc'[r] = e
  BY <1>1, <1>4, <1>7
<1>10. Typed'
  <2>1. out' \in [Keys -> Notices \cup {None}]
    BY <1>1
  <2>2. run' \in [Roles -> {Idle} \cup Looking \cup Paging]
    BY <1>1
  <2> QED BY <1>1, <1>8, <2>1, <2>2 DEF Typed
<1>11. ASSUME NEW x \in Keys PROVE KeySafe(x)'
  <2>1. CASE x = k
    BY <1>1, <1>2, <2>1 DEF KeySafe
  <2>2. CASE x # k
    BY <1>2, <2>2, KeyFrame
  <2> QED BY <2>1, <2>2
<1>12. ASSUME NEW r \in Roots PROVE RootSafe(r)'
  <2>1. CASE r # k[1]
    <3>1. \A x \in Keys : x[1] = r => out'[x] = out[x]
      BY <1>2, <2>1
    <3> QED BY <1>1, <1>9, <2>1, <3>1, RootFrame
  <2>2. CASE r = k[1] /\ Current(k[1]) # k
    <3>1. inc'[r] = inc[r] /\ Current(r)' = Current(r) /\ Intents' = Intents
      BY <1>3, <1>9, <2>2 DEF Current, Intents
    <3>2. RootSafe(r)
      BY DEF IInv
    <3>3. inc[r] # None => out'[Current(r)] = out[Current(r)]
      BY <1>2, <2>2, <3>2 DEF RootSafe
    <3> QED BY <1>3, <3>1, <3>2, <3>3 DEF RootSafe
  <2>3. CASE r = k[1] /\ Current(k[1]) = k
    <3>1. /\ inc'[r] = e /\ inc[r] # None /\ Current(r) = k /\ Intents' = Intents /\ e # None
          /\ e.life = inc[r].life /\ e.episode = inc[r].episode /\ e.delivery = n.delivery
      BY <1>3, <1>5, <1>6, <1>7, <1>9, <2>3, IncidentKinds DEF Intents
    <3>2. Current(r)' = k
      BY <3>1 DEF Current
    <3>3. RootSafe(r)
      BY DEF IInv
    <3> QED BY <1>2, <1>3, <3>1, <3>2, <3>3 DEF RootSafe
  <2> QED BY <2>1, <2>2, <2>3
<1>13. ASSUME NEW q \in Roles PROVE RunSafe(q)'
  <2>1. CASE q = p
    BY <2>1
  <2>2. CASE q # p
    <3>1. run'[q] = run[q] /\ ~Owns(q, k[1])
      BY <1>1, <2>2, OneOwner
    <3>2. \A x \in Keys : Owns(q, x[1]) => out'[x] = out[x]
      BY <1>2, <3>1
    <3>3. \A r \in Roots : Owns(q, r) => inc'[r] = inc[r]
      BY <1>9, <3>1
    <3> QED BY <1>1, <3>1, <3>2, <3>3, RunFrame
  <2> QED BY <2>1, <2>2
<1> QED BY <1>10, <1>11, <1>12, <1>13 DEF IInv

LEMMA BindKeeps == ASSUME IInv, NEW p \in Roles, Bind(p) PROVE IInv'
<1>1. /\ Typed /\ run[p].pc = "bind" /\ run[p] \in {Idle} \cup Looking \cup Paging
      /\ stale' \subseteq Roles /\ inc' = inc
      /\ UNCHANGED <<fact, disposed, route, sent, fresh, misread>>
  BY DEF IInv, Typed, Bind, Commit, Outdated, env, chat
<1>2. run[p] \in Paging /\ run[p] \in Delivering /\ run[p].sha \in Nat \ {0}
  BY <1>1, RunKinds
<1>3. PICK k \in Keys : k = Key(p)
  BY <1>2, Heads
<1>4. /\ out[k] \in Notices /\ out[k] # None /\ out[k].delivery # "DELIVERED" /\ KeySafe(k) /\ HeadSafe(p)
      /\ run[p].queue \in Seq(Keys) /\ Owns(p, k[1])
  BY <1>2, <1>3, Heads
<1>5. out[k].binding = 0 /\ (sent[k] > 0 => k \in misread) /\ out[k].tried = FALSE
      /\ out[k].delivery = "PENDING" /\ ~(sent[k] > 0)
  <2>1. out[k].binding = 0
    BY <1>1, <1>3, <1>4 DEF HeadSafe
  <2>2. ~out[k].tried /\ out[k].tried \in BOOLEAN
    BY <1>4, <2>1 DEF KeySafe, Notices
  <2> QED BY <1>4, <2>1, <2>2 DEF KeySafe
<1>6. PICK n : n = [life |-> "intent", delivery |-> out[k].delivery, binding |-> run[p].sha,
                    tried |-> out[k].tried]
  OBVIOUS
<1>7. n \in Notices /\ n.delivery = "PENDING" /\ n.binding # 0 /\ n.tried = FALSE
  <2>1. out[k].delivery \in Deliveries /\ out[k].tried \in BOOLEAN
    BY <1>4, NoticeKinds
  <2> QED BY <1>2, <1>5, <1>6, <2>1 DEF Notices
<1>8. out' = [out EXCEPT ![k] = n]
  <2>1. n = [out[k] EXCEPT !.binding = run[p].sha]
    BY <1>4, <1>6 DEF Notices
  <2>2. out' = [out EXCEPT ![k] = [out[k] EXCEPT !.binding = run[p].sha]]
    BY <1>3 DEF Bind
  <2> QED BY <2>1, <2>2
<1>9. inc' = IF Current(k[1]) = k THEN [inc EXCEPT ![k[1]].delivery = n.delivery] ELSE inc
  <2> SUFFICES ASSUME Current(k[1]) = k PROVE inc = [inc EXCEPT ![k[1]].delivery = "PENDING"]
    BY <1>1, <1>7
  <2>1. k[1] \in Roots /\ k[3] # "none" /\ k[3] = inc[k[1]].life
    BY KeyParts DEF Current
  <2>2. inc[k[1]] # None /\ inc[k[1]] \in Incidents
    BY <1>1, <2>1 DEF Typed, None
  <2>3. inc[k[1]].delivery = "PENDING"
    BY <1>5, <2>1, <2>2 DEF IInv, RootSafe
  <2>4. inc[k[1]] = [inc[k[1]] EXCEPT !.delivery = "PENDING"]
    BY <2>2, <2>3 DEF Incidents
  <2>5. inc = [inc EXCEPT ![k[1]] = inc[k[1]]]
    BY <1>1, <2>1 DEF Typed
  <2> QED BY <2>4, <2>5
<1>10. PICK s : s = [pc |-> "mark", queue |-> run[p].queue, sha |-> run[p].sha]
  OBVIOUS
<1>11. /\ run' = [run EXCEPT ![p] = s] /\ s \in Delivering /\ s \in Paging /\ s \notin Looking
       /\ run'[p] = s /\ s.pc = "mark" /\ s.queue = run[p].queue
  BY <1>1, <1>2, <1>4, <1>10 DEF Bind, At, Goto, Paging, Looking, Delivering, Typed
<1>12. \A x \in Keys : x # Key(p) => out'[x] = out[x]
  BY <1>1, <1>3, <1>8 DEF Typed
<1>13. out'[k] = n /\ n # None
  BY <1>1, <1>7, <1>8 DEF Typed, Notices, None
<1>14. QueueSafe(p)' /\ Key(p)' = k
  BY <1>2, <1>3, <1>7, <1>11, <1>12, <1>13, QueueStays
<1>15. HeadSafe(p)'
  BY <1>1, <1>5, <1>7, <1>11, <1>13, <1>14 DEF HeadSafe
<1>16. RunSafe(p)'
  BY <1>11, <1>14, <1>15 DEF RunSafe
<1> QED BY <1>1, <1>2, <1>3, <1>5, <1>7, <1>8, <1>9, <1>11, <1>16, EditKeeps

LEMMA MarkEffect ==
  ASSUME IInv, NEW k \in Keys, out[k] # None, NEW d \in Attempted, MarkDelivery(k, d),
         out[k].tried \/ d = "OUTCOME_UNKNOWN"
  PROVE  \E n \in Notices :
           /\ out' = [out EXCEPT ![k] = n]
           /\ n.delivery = d /\ n.binding = out[k].binding /\ n.tried = TRUE
           /\ inc' = IF Current(k[1]) = k THEN [inc EXCEPT ![k[1]].delivery = n.delivery] ELSE inc
<1>1. out[k] \in Notices /\ out \in [Keys -> Notices \cup {None}]
  BY DEF IInv, Typed
<1>0. PICK t \in BOOLEAN : t = (out[k].tried \/ d = "OUTCOME_UNKNOWN")
  OBVIOUS
<1>2. PICK n : n = [life |-> "intent", delivery |-> d, binding |-> out[k].binding, tried |-> t]
  OBVIOUS
<1>3. n \in Notices /\ n.delivery = d /\ n.binding = out[k].binding
  <2>1. out[k].binding \in Nat /\ out[k].tried \in BOOLEAN /\ d \in Deliveries
    BY <1>1 DEF Notices, Deliveries
  <2> QED BY <1>2, <2>1 DEF Notices
<1>4. n.tried = TRUE
  <2>1. n.tried \in BOOLEAN
    BY <1>3, NoticeKinds DEF Notices
  <2>2. n.tried
    BY <1>0, <1>2
  <2> QED BY <2>1, <2>2
<1>5. out' = [out EXCEPT ![k] = n]
  <2>1. n = [out[k] EXCEPT !.delivery = d, !.tried = t]
    <3>1. PICK m : m = [life |-> "intent", delivery |-> d, binding |-> out[k].binding,
                        tried |-> out[k].tried]
      OBVIOUS
    <3>2. m = [out[k] EXCEPT !.delivery = d]
      BY <1>1, <3>1 DEF Notices
    <3>3. n = [m EXCEPT !.tried = t]
      BY <1>2, <3>1
    <3> QED BY <3>2, <3>3
  <2>2. out' = [out EXCEPT ![k] = [out[k] EXCEPT !.delivery = d, !.tried = t]]
    BY <1>0, <1>1 DEF MarkDelivery, Notices
  <2> QED BY <2>1, <2>2
<1> QED BY <1>3, <1>4, <1>5 DEF MarkDelivery

LEMMA MarkKeeps == ASSUME IInv, NEW p \in Roles, Mark(p) PROVE IInv'
<1>1. /\ Typed /\ run[p].pc = "mark" /\ run[p] \in {Idle} \cup Looking \cup Paging
      /\ stale' \subseteq Roles
      /\ UNCHANGED <<fact, disposed, route, sent, fresh, misread>>
  BY DEF IInv, Typed, Mark, Commit, Outdated, env, chat
<1>2. run[p] \in Paging /\ run[p] \in Delivering /\ run[p].sha \in Nat \ {0}
  BY <1>1, RunKinds
<1>3. PICK k \in Keys : k = Key(p)
  BY <1>2, Heads
<1>4. /\ out[k] \in Notices /\ out[k] # None /\ HeadSafe(p) /\ run[p].queue \in Seq(Keys)
  BY <1>2, <1>3, Heads
<1>5. out[k].binding # 0 /\ (sent[k] > 0 => k \in misread)
  BY <1>1, <1>3, <1>4 DEF HeadSafe
<1>6. PICK n \in Notices :
        /\ out' = [out EXCEPT ![k] = n]
        /\ n.delivery = "OUTCOME_UNKNOWN" /\ n.binding = out[k].binding /\ n.tried = TRUE
        /\ inc' = IF Current(k[1]) = k THEN [inc EXCEPT ![k[1]].delivery = n.delivery] ELSE inc
  BY <1>3, <1>4, MarkEffect DEF Mark, Attempted
<1>7. PICK s : s = [pc |-> "send", queue |-> run[p].queue, sha |-> run[p].sha]
  OBVIOUS
<1>8. /\ run' = [run EXCEPT ![p] = s] /\ s \in Paging /\ s \notin Looking
      /\ run'[p] = s /\ s.pc = "send" /\ s.queue = run[p].queue
  BY <1>1, <1>2, <1>4, <1>7 DEF Mark, At, Goto, Paging, Looking, Delivering, Typed
<1>9. \A x \in Keys : x # Key(p) => out'[x] = out[x]
  BY <1>1, <1>3, <1>6 DEF Typed
<1>10. out'[k] = n /\ n # None
  BY <1>1, <1>6 DEF Typed, Notices, None
<1>11. QueueSafe(p)' /\ Key(p)' = k
  BY <1>2, <1>3, <1>6, <1>8, <1>9, <1>10, QueueStays
<1>12. HeadSafe(p)'
  BY <1>1, <1>5, <1>6, <1>8, <1>10, <1>11 DEF HeadSafe
<1>13. RunSafe(p)'
  BY <1>8, <1>11, <1>12 DEF RunSafe
<1> QED BY <1>1, <1>2, <1>3, <1>5, <1>6, <1>8, <1>13, EditKeeps

LEMMA SettleKeeps == ASSUME IInv, NEW p \in Roles, Settle(p) PROVE IInv'
<1>1. /\ Typed /\ run[p].pc = "settle" /\ run[p] \in {Idle} \cup Looking \cup Paging
      /\ stale' \subseteq Roles
      /\ UNCHANGED <<fact, disposed, route, sent, fresh, misread>>
  BY DEF IInv, Typed, Settle, Commit, Outdated, env, chat
<1>2. run[p] \in Paging /\ run[p].delivery \in Attempted
  BY <1>1, RunKinds
<1>3. PICK k \in Keys : k = Key(p)
  BY <1>2, Heads
<1>4. out[k] # None /\ KeySafe(k) /\ HeadSafe(p)
  BY <1>2, <1>3, Heads
<1>5. /\ out[k].tried /\ out[k].binding # 0
      /\ run[p].delivery = "DELIVERED" => sent[k] > 0
      /\ run[p].delivery = "FAILED" /\ sent[k] > 0 => k \in misread
  BY <1>1, <1>3, <1>4 DEF HeadSafe, KeySafe
<1>6. PICK n \in Notices :
        /\ out' = [out EXCEPT ![k] = n]
        /\ n.delivery = run[p].delivery /\ n.binding = out[k].binding /\ n.tried = TRUE
        /\ inc' = IF Current(k[1]) = k THEN [inc EXCEPT ![k[1]].delivery = n.delivery] ELSE inc
  BY <1>2, <1>3, <1>4, <1>5, MarkEffect DEF Settle
<1>7. \A x \in Keys : x # Key(p) => out'[x] = out[x]
  BY <1>1, <1>3, <1>6 DEF Typed
<1>8. PICK s \in {Idle} \cup Deciding : run' = [run EXCEPT ![p] = s] /\ RunSafe(p)'
  BY <1>2, <1>7, SkipEffect DEF Settle
<1>9. s \in {Idle} \cup Looking \cup Paging /\ n.delivery # "PENDING"
  BY <1>2, <1>6 DEF Paging, Attempted
<1> QED BY <1>1, <1>2, <1>3, <1>5, <1>6, <1>8, <1>9, EditKeeps

-----------------------------------------------------------------------------
(* The chat: a message is sent, or what it shows is read back. *)
LEMMA ChatKeeps ==
  ASSUME IInv, NEW p \in Roles, run[p] \in Paging,
         UNCHANGED <<fact, disposed, route, inc, out, stale>>,
         NEW k \in Keys, k = Key(p), out[k].delivery = "OUTCOME_UNKNOWN",
         NEW m \in Nat, sent[k] <= m, sent' = [sent EXCEPT ![k] = m],
         fresh' \subseteq fresh \cup {k}, k \in fresh' => m > 0,
         misread \subseteq misread', misread' \subseteq misread \cup {k}, m > 1 => k \in misread',
         NEW d \in Attempted, Result(p, d),
         d = "DELIVERED" => m > 0, d = "FAILED" /\ m > 0 => k \in misread'
  PROVE  IInv'
<1>1. /\ Typed /\ sent \in [Keys -> Nat] /\ run \in [Roles -> {Idle} \cup Looking \cup Paging]
      /\ out[k] # None /\ Owns(p, k[1]) /\ KeySafe(k) /\ run[p].queue \in Seq(Keys)
      /\ out[k].delivery # "DELIVERED" /\ \A r \in Roots : fact[r] \in Nat
  BY Heads DEF IInv, Typed
<1>2. sent'[k] = m /\ sent' \in [Keys -> Nat] /\ \A x \in Keys : x # k => sent'[x] = sent[x]
  BY <1>1
<1>3. PICK s : s = [pc |-> "settle", queue |-> run[p].queue, delivery |-> d]
  OBVIOUS
<1>4. /\ run' = [run EXCEPT ![p] = s] /\ s \in Paging /\ s \notin Looking
      /\ run'[p] = s /\ s.pc = "settle" /\ s.queue = run[p].queue /\ s.delivery = d
  BY <1>1, <1>3 DEF Result, Goto, Paging, Looking, Settling
<1>5. Typed'
  <2>1. run' \in [Roles -> {Idle} \cup Looking \cup Paging]
    BY <1>1, <1>4
  <2>2. fresh' \subseteq Keys /\ misread' \subseteq Keys
    BY <1>1 DEF Typed
  <2> QED BY <1>1, <1>2, <2>1, <2>2 DEF Typed
<1>6. ASSUME NEW x \in Keys PROVE KeySafe(x)'
  <2>1. CASE x = k
    <3>1. out[k].tried /\ out[k].binding # 0
      BY <1>1 DEF KeySafe
    <3> QED BY <1>1, <1>2, <2>1, <3>1 DEF KeySafe
  <2>2. CASE x # k
    <3>1. KeySafe(x) /\ sent'[x] = sent[x] /\ (x \in misread' <=> x \in misread)
          /\ (x \in fresh' => x \in fresh)
      BY <1>2, <2>2 DEF IInv
    <3> QED BY <3>1 DEF KeySafe
  <2> QED BY <2>1, <2>2
<1>7. \A r \in Roots : RootSafe(r)'
  BY <1>1, RootFrame
<1>8. ASSUME NEW q \in Roles PROVE RunSafe(q)'
  <2>1. CASE q = p
    <3>1. QueueSafe(p)' /\ Key(p)' = k
      BY <1>1, <1>4, QueueStays
    <3>2. HeadSafe(p)'
      BY <1>2, <1>4, <3>1 DEF HeadSafe
    <3> QED BY <1>4, <2>1, <3>1, <3>2 DEF RunSafe
  <2>2. CASE q # p
    <3>1. run'[q] = run[q] /\ ~Owns(q, k[1])
      BY <1>1, <1>4, <2>2, OneOwner
    <3>2. \A x \in Keys : Owns(q, x[1]) => sent'[x] = sent[x]
      BY <1>2, <3>1
    <3> QED BY <1>1, <3>1, <3>2, RunFrame
  <2> QED BY <2>1, <2>2
<1> QED BY <1>5, <1>6, <1>7, <1>8 DEF IInv

(* A message the provider recognises is not shown again. *)
LEMMA AcceptEffect ==
  ASSUME IInv, NEW k \in Keys, Accept(k)
  PROVE  \E m \in Nat : /\ sent' = [sent EXCEPT ![k] = m] /\ sent[k] <= m /\ m > 0
                        /\ m > 1 => sent[k] > 0
<1>1. sent \in [Keys -> Nat] /\ sent[k] \in Nat /\ KeySafe(k)
  BY DEF IInv, Typed
<1>2. PICK m \in Nat : m = IF k \in fresh THEN sent[k] ELSE sent[k] + 1
  BY <1>1
<1>3. sent' = [sent EXCEPT ![k] = m]
  BY <1>1, <1>2 DEF Accept
<1>4. sent[k] <= m /\ m > 0 /\ (m > 1 => sent[k] > 0)
  BY <1>1, <1>2 DEF KeySafe
<1> QED BY <1>3, <1>4

LEMMA SendKeeps == ASSUME IInv, NEW p \in Roles, Send(p) PROVE IInv'
<1>1. /\ Typed /\ run[p].pc = "send" /\ run[p] \in {Idle} \cup Looking \cup Paging
      /\ UNCHANGED <<fact, disposed, route, inc, out, stale>>
  BY DEF IInv, Typed, Send, env, file
<1>2. run[p] \in Paging
  BY <1>1, RunKinds
<1>3. PICK k \in Keys : k = Key(p)
  BY <1>2, Heads
<1>4. /\ out[k].delivery = "OUTCOME_UNKNOWN" /\ (sent[k] > 0 => k \in misread)
      /\ sent \in [Keys -> Nat] /\ sent[k] \in Nat /\ KeySafe(k) /\ misread \subseteq Keys
  BY <1>1, <1>2, <1>3, Heads DEF HeadSafe, Typed
<1>5. CASE Accept(k) /\ Result(p, "DELIVERED") /\ misread' = misread
  <2>1. PICK m \in Nat : /\ sent' = [sent EXCEPT ![k] = m] /\ sent[k] <= m /\ m > 0
                         /\ m > 1 => sent[k] > 0
    BY <1>5, AcceptEffect
  <2> QED BY <1>1, <1>2, <1>3, <1>4, <1>5, <2>1, ChatKeeps DEF Accept, Attempted
<1>6. ASSUME NEW d \in {"FAILED", "OUTCOME_UNKNOWN"}, UNCHANGED chat, Result(p, d) PROVE IInv'
  <2>0. PICK m \in Nat : m = sent[k]
    BY <1>4
  <2>1. sent' = [sent EXCEPT ![k] = m] /\ fresh' = fresh /\ misread' = misread /\ sent[k] <= m
    BY <1>4, <1>6, <2>0 DEF chat
  <2>2. /\ m > 1 => k \in misread'
        /\ k \in fresh' => m > 0
        /\ d = "FAILED" /\ m > 0 => k \in misread'
        /\ d \in Attempted /\ d # "DELIVERED"
    BY <1>4, <1>6, <2>0, <2>1 DEF KeySafe, Attempted
  <2> QED BY <1>1, <1>2, <1>3, <1>4, <1>6, <2>1, <2>2, ChatKeeps
<1>7. CASE Accept(k) /\ UNCHANGED misread /\ Result(p, "OUTCOME_UNKNOWN")
  <2>1. PICK m \in Nat : /\ sent' = [sent EXCEPT ![k] = m] /\ sent[k] <= m /\ m > 0
                         /\ m > 1 => sent[k] > 0
    BY <1>7, AcceptEffect
  <2> QED BY <1>1, <1>2, <1>3, <1>4, <1>7, <2>1, ChatKeeps DEF Accept, Attempted
<1>8. CASE Accept(k) /\ misread' = misread \cup {k} /\ Result(p, "FAILED")
  <2>1. PICK m \in Nat : /\ sent' = [sent EXCEPT ![k] = m] /\ sent[k] <= m /\ m > 0
                         /\ m > 1 => sent[k] > 0
    BY <1>8, AcceptEffect
  <2> QED BY <1>1, <1>2, <1>3, <1>4, <1>8, <2>1, ChatKeeps DEF Accept, Attempted
<1> QED BY <1>3, <1>5, <1>6, <1>7, <1>8 DEF Send

LEMMA ReadbackKeeps == ASSUME IInv, NEW p \in Roles, Readback(p) PROVE IInv'
<1>1. /\ Typed /\ run[p].pc = "readback" /\ run[p] \in {Idle} \cup Looking \cup Paging
      /\ UNCHANGED <<fact, disposed, route, inc, out, stale, sent, fresh, misread>>
  BY DEF IInv, Typed, Readback, env, file, chat
<1>2. run[p] \in Paging /\ run[p] \in Delivering /\ run[p].sha \in Nat \ {0}
  BY <1>1, RunKinds
<1>3. PICK k \in Keys : k = Key(p)
  BY <1>2, Heads
<1>4. /\ out[k].delivery = "OUTCOME_UNKNOWN" /\ out[k] # None /\ run[p].queue \in Seq(Keys)
      /\ sent \in [Keys -> Nat] /\ sent[k] \in Nat /\ KeySafe(k)
  BY <1>1, <1>2, <1>3, Heads DEF HeadSafe, Typed
<1>5. ASSUME NEW d \in {"DELIVERED", "OUTCOME_UNKNOWN"}, d = "DELIVERED" => sent[k] > 0, Result(p, d)
      PROVE  IInv'
  <2>0. PICK m \in Nat : m = sent[k]
    BY <1>4
  <2>1. sent' = [sent EXCEPT ![k] = m] /\ sent[k] <= m
    BY <1>1, <1>4, <2>0
  <2>2. /\ m > 1 => k \in misread'
        /\ k \in fresh' => m > 0
        /\ d = "DELIVERED" => m > 0
        /\ d \in Attempted /\ d # "FAILED"
    BY <1>1, <1>4, <1>5, <2>0 DEF KeySafe, Attempted
  <2> QED BY <1>1, <1>2, <1>3, <1>4, <1>5, <2>1, <2>2, ChatKeeps
<1>6. CASE sent[k] = 0 /\ At(p, "send")
  <2>1. PICK s : s = [pc |-> "send", queue |-> run[p].queue, sha |-> run[p].sha]
    OBVIOUS
  <2>2. /\ run' = [run EXCEPT ![p] = s] /\ s \in Paging /\ s \notin Looking
        /\ run'[p] = s /\ s.pc = "send" /\ s.queue = run[p].queue
    BY <1>1, <1>2, <1>4, <1>6, <2>1 DEF At, Goto, Paging, Looking, Delivering, Typed
  <2>3. QueueSafe(p)' /\ Key(p)' = k
    BY <1>1, <1>2, <1>3, <1>4, <2>2, QueueStays
  <2>4. HeadSafe(p)'
    BY <1>1, <1>4, <1>6, <2>2, <2>3 DEF HeadSafe
  <2>5. RunSafe(p)'
    BY <2>2, <2>3, <2>4 DEF RunSafe
  <2> QED BY <1>1, <2>2, <2>5, RunMoves DEF Typed
<1> QED BY <1>3, <1>5, <1>6 DEF Readback

-----------------------------------------------------------------------------
(* There are finitely many keys, so a queue of some of them is a sequence. *)

LEMMA KeysFinite == IsFiniteSet(Keys)
<1> DEFINE Lives == {"OPEN", "ACKNOWLEDGED", "RECOVERED"}
           Of(r) == {r} \X Episodes(r) \X Lives
           All == {Of(r) : r \in Roots}
<1>1. IsFiniteSet(Lives)
  <2>1. IsFiniteSet({}) /\ IsFiniteSet({} \cup {"OPEN"})
    BY FS_EmptySet, FS_AddElement
  <2>2. IsFiniteSet(({} \cup {"OPEN"}) \cup {"ACKNOWLEDGED"})
    BY <2>1, FS_AddElement
  <2>3. IsFiniteSet((({} \cup {"OPEN"}) \cup {"ACKNOWLEDGED"}) \cup {"RECOVERED"})
    BY <2>2, FS_AddElement
  <2>4. Lives = (({} \cup {"OPEN"}) \cup {"ACKNOWLEDGED"}) \cup {"RECOVERED"}
    OBVIOUS
  <2> QED BY <2>3, <2>4
<1> HIDE DEF Lives
<1>2. ASSUME NEW r \in Roots PROVE IsFiniteSet(Of(r))
  <2>1. IsFiniteSet(Episodes(r))
    <3>1. (MaxFlips[r] + 1) \div 2 \in Int
      BY WatchdogAssumption
    <3> QED BY <3>1, FS_Interval DEF Episodes
  <2>2. IsFiniteSet(Episodes(r) \X Lives)
    BY <1>1, <2>1, FS_Product
  <2>3. PICK f : f = [x \in Episodes(r) \X Lives |-> <<r, x[1], x[2]>>]
    OBVIOUS
  <2>4. f \in Surjection(Episodes(r) \X Lives, Of(r))
    <3>1. f \in [Episodes(r) \X Lives -> Of(r)]
      BY <2>3
    <3>2. ASSUME NEW t \in Of(r) PROVE \E x \in Episodes(r) \X Lives : f[x] = t
      <4>1. t[1] = r /\ t[2] \in Episodes(r) /\ t[3] \in Lives /\ t = <<t[1], t[2], t[3]>>
        OBVIOUS
      <4>2. <<t[2], t[3]>> \in Episodes(r) \X Lives /\ f[<<t[2], t[3]>>] = <<r, t[2], t[3]>>
        BY <2>3, <4>1
      <4> QED BY <4>1, <4>2
    <3> QED BY <3>1, <3>2 DEF Surjection
  <2> QED BY <2>2, <2>4, FS_Surjection
<1>3. IsFiniteSet(All)
  <2>1. PICK f : f = [r \in Roots |-> Of(r)]
    OBVIOUS
  <2>2. f \in Surjection(Roots, All)
    BY <2>1 DEF Surjection
  <2> QED BY <2>2, FS_Surjection, WatchdogAssumption
<1>4. IsFiniteSet(UNION All)
  BY <1>2, <1>3, FS_UNION
<1> QED BY <1>4 DEF Keys, Lives

LEMMA Queues ==
  ASSUME NEW S, S \subseteq Keys, NEW q \in SetToSeqs(S)
  PROVE  /\ q \in Seq(Keys) /\ (q # <<>> => Len(q) > 0)
         /\ \A n \in 1..Len(q) : q[n] \in S
         /\ \A n, m \in 1..Len(q) : n # m => q[n] # q[m]
<1>1. IsFiniteSet(S)
  BY KeysFinite, FS_Subset
<1>2. PICK c \in Nat : c = Cardinality(S)
  BY <1>1, FS_CardinalityType
<1>3. q \in [1..c -> S] /\ \A n, m \in 1..c : n # m => q[n] # q[m]
  BY <1>2 DEF SetToSeqs
<1>4. q \in Seq(Keys) /\ Len(q) = c
  BY <1>3
<1>5. c = 0 => q = <<>>
  BY <1>3, <1>4
<1> QED BY <1>3, <1>4, <1>5

-----------------------------------------------------------------------------
(* The transitions: what becomes of one root of the run. *)

LEMMA NotOwned ==
  ASSUME IInv, NEW p \in Roles, run[p] \in Looking, NEW r \in Roots, ~Owns(p, r)
  PROVE  NewInc(p, r) = inc[r] /\ \A k \in Keys : k[1] = r => ~Mints(p, k)
<1>1. r \notin run[p].seen
  BY DEF IInv, RunSafe
<1>2. NewInc(p, r) = inc[r] /\ ~Opens(r, run[p].seen)
  BY <1>1 DEF NewInc, Acknowledges, Opens, Recovers
<1> QED BY <1>2 DEF Mints

(* It stays, or it moves on: to a transition there is a key for, and that  *)
(* has no notice yet.                                                      *)
LEMMA Moves ==
  ASSUME IInv, NEW p \in Roles, run[p] \in Looking, NEW r \in Roots, Owns(p, r),
         NEW n, n = NewInc(p, r), NEW i, i = inc[r]
  PROVE  \/ n = i /\ ~Opens(r, run[p].seen)
         \/ /\ n \in Incidents /\ n.delivery = "PENDING" /\ n # i
            /\ 2 * n.episode - 1 <= fact[r]
            /\ n.life = "RECOVERED" => 2 * n.episode <= fact[r]
            /\ n.life = "ACKNOWLEDGED" => r \in OccRoots
            /\ Opens(r, run[p].seen) => n.episode = Episode(r) + 1
            /\ i # None => \/ i.episode < n.episode
                           \/ i.episode = n.episode /\ i.life = "OPEN" /\ n.life # "OPEN"
<1>1. /\ i \in Incidents \cup {None} /\ fact[r] \in Nat /\ run[p].done \subseteq OccRoots
      /\ SeenSafe(p, r) /\ RootSafe(r)
  BY RunKinds DEF IInv, Typed, RunSafe
<1>2. /\ i # None => /\ i \in Incidents /\ i.episode \in Nat \ {0}
                     /\ i.life \in {"OPEN", "ACKNOWLEDGED", "RECOVERED"}
                     /\ 2 * i.episode - 1 <= fact[r]
                     /\ i.life = "ACKNOWLEDGED" => r \in OccRoots
      /\ i = None => i.life = "none"
  BY <1>1, IncidentKinds DEF RootSafe
<1>3. ASSUME NEW life \in {"OPEN", "ACKNOWLEDGED", "RECOVERED"}, NEW e \in Nat \ {0}
      PROVE  /\ Rec(life, e) \in Incidents /\ Rec(life, e).delivery = "PENDING"
             /\ Rec(life, e).episode = e /\ Rec(life, e).life = life
  BY DEF Rec, Incidents, Deliveries
<1>4. CASE Acknowledges(r, run[p].seen, run[p].done)
  <2>1. PICK e \in Nat \ {0} : e = IF i = None THEN 1 ELSE i.episode
    BY <1>2
  <2>2. n = Rec("ACKNOWLEDGED", e) /\ r \in run[p].seen /\ r \in OccRoots
        /\ (i = None \/ i.life = "OPEN")
    BY <1>1, <1>4, <2>1 DEF NewInc, Acknowledges
  <2>3. n \in Incidents /\ n.delivery = "PENDING" /\ n.episode = e /\ n.life = "ACKNOWLEDGED"
    BY <1>3, <2>2
  <2>4. 2 * e - 1 <= fact[r]
    <3>1. 1 <= fact[r]
      BY <1>1, <2>2 DEF SeenSafe
    <3> QED BY <1>1, <1>2, <2>1, <3>1
  <2>5. Opens(r, run[p].seen) => e = Episode(r) + 1
    BY <2>1, <2>2 DEF Opens, Episode
  <2>6. i # None => i.episode = e /\ i.life = "OPEN"
    BY <2>1, <2>2
  <2>7. n # i
    BY <1>2, <2>2, <2>3
  <2> QED BY <2>2, <2>3, <2>4, <2>5, <2>6, <2>7
<1>5. CASE ~Acknowledges(r, run[p].seen, run[p].done) /\ Opens(r, run[p].seen)
  <2>1. PICK e \in Nat \ {0} : e = Episode(r) + 1
    BY <1>2 DEF Episode
  <2>2. n = Rec("OPEN", e) /\ r \in run[p].seen /\ (i = None \/ (i.life # "OPEN" /\ r \notin OccRoots))
    BY <1>5, <2>1 DEF NewInc, Opens
  <2>3. n \in Incidents /\ n.delivery = "PENDING" /\ n.episode = e /\ n.life = "OPEN"
    BY <1>3, <2>2
  <2>4. 2 * e - 1 <= fact[r]
    <3>1. CASE i = None
      <4>1. e = 1 /\ 1 <= fact[r]
        BY <1>1, <2>1, <2>2, <3>1 DEF SeenSafe, Episode
      <4> QED BY <1>1, <4>1
    <3>2. CASE i # None
      <4>1. i.life = "RECOVERED"
        BY <1>2, <2>2, <3>2
      <4>2. 2 * i.episode + 1 <= fact[r] /\ e = i.episode + 1
        BY <1>1, <2>1, <2>2, <3>2, <4>1 DEF SeenSafe, Episode
      <4> QED BY <1>1, <1>2, <3>2, <4>2
    <3> QED BY <3>1, <3>2
  <2>5. i # None => i.episode < e
    BY <1>2, <2>1 DEF Episode
  <2>6. n # i
    BY <1>2, <2>3, <2>5
  <2> QED BY <2>1, <2>3, <2>4, <2>5, <2>6
<1>6. CASE ~Acknowledges(r, run[p].seen, run[p].done) /\ ~Opens(r, run[p].seen)
           /\ Recovers(p, r, run[p].seen)
  <2>1. n = Rec("RECOVERED", i.episode) /\ i.life = "OPEN" /\ i # None /\ r \notin run[p].seen
    BY <1>2, <1>6 DEF NewInc, Recovers
  <2>2. /\ n \in Incidents /\ n.delivery = "PENDING" /\ n.episode = i.episode
        /\ n.life = "RECOVERED"
    BY <1>2, <1>3, <2>1
  <2>3. 2 * i.episode <= fact[r]
    BY <1>1, <2>1 DEF SeenSafe
  <2> QED BY <1>2, <1>6, <2>1, <2>2, <2>3
<1>7. CASE ~Acknowledges(r, run[p].seen, run[p].done) /\ ~Opens(r, run[p].seen)
           /\ ~Recovers(p, r, run[p].seen)
  BY <1>7 DEF NewInc
<1> QED BY <1>4, <1>5, <1>6, <1>7

(* The notices a move mints are of the episode the root is then in. *)
LEMMA Minted ==
  ASSUME IInv, NEW p \in Roles, run[p] \in Looking, NEW k \in Keys, Mints(p, k)
  PROVE  LET n == NewInc(p, k[1]) IN
           /\ Owns(p, k[1]) /\ n # inc[k[1]] /\ n # None /\ out[k] = None
           /\ k[2] = n.episode /\ k[3] \in {"OPEN", n.life}
<1>1. k[1] \in Roots
  BY KeyParts
<1>2. PICK n : n = NewInc(p, k[1])
  OBVIOUS
<1>3. Owns(p, k[1])
  BY <1>1, NotOwned
<1>4. /\ out[k] = None
      /\ \/ k[3] = "OPEN" /\ Opens(k[1], run[p].seen) /\ k[2] = Episode(k[1]) + 1
         \/ k[3] = n.life /\ k[2] = n.episode /\ n # inc[k[1]]
  BY <1>2 DEF Mints
<1>5. \/ n = inc[k[1]] /\ ~Opens(k[1], run[p].seen)
      \/ /\ n \in Incidents /\ n # inc[k[1]]
         /\ Opens(k[1], run[p].seen) => n.episode = Episode(k[1]) + 1
  BY <1>1, <1>2, <1>3, Moves
<1>6. None \notin Incidents
  BY DEF None, Incidents
<1> QED BY <1>2, <1>3, <1>4, <1>5, <1>6

LEMMA RootMoves ==
  ASSUME IInv, NEW p \in Roles, run[p] \in Looking, NEW r \in Roots, fact' = fact,
         inc'[r] = NewInc(p, r),
         \A k \in Keys : out'[k] = IF Mints(p, k) THEN Pending ELSE out[k]
  PROVE  RootSafe(r)' /\ inc'[r] \in Incidents \cup {None}
<1>1. /\ inc[r] \in Incidents \cup {None} /\ fact[r] \in Nat /\ fact[r] <= MaxFlips[r]
      /\ MaxFlips[r] \in Nat /\ RootSafe(r)
  BY WatchdogAssumption DEF IInv, Typed
<1>2. CASE inc'[r] = inc[r]
  <2>1. ASSUME NEW k \in Keys, k[1] = r PROVE out'[k] = out[k]
    BY <1>2, <2>1, Minted
  <2> QED BY <1>1, <1>2, <2>1, RootFrame
<1>3. CASE inc'[r] # inc[r]
  <2>0. PICK n : n = NewInc(p, r)
    OBVIOUS
  <2>1. Owns(p, r)
    BY <1>3, NotOwned
  <2>2. /\ inc'[r] = n /\ n \in Incidents /\ n.delivery = "PENDING" /\ n # None
        /\ n.episode \in Nat \ {0} /\ n.life \in {"OPEN", "ACKNOWLEDGED", "RECOVERED"}
        /\ 2 * n.episode - 1 <= fact[r]
        /\ n.life = "RECOVERED" => 2 * n.episode <= fact[r]
        /\ n.life = "ACKNOWLEDGED" => r \in OccRoots
        /\ inc[r] # None => \/ inc[r].episode < n.episode
                            \/ inc[r].episode = n.episode /\ inc[r].life = "OPEN" /\ n.life # "OPEN"
    BY <1>3, <2>0, <2>1, Moves DEF Incidents, None
  <2>3. PICK c : c = <<r, n.episode, n.life>>
    OBVIOUS
  <2>4. c \in Keys /\ c[1] = r /\ c[2] = n.episode /\ c[3] = n.life /\ Current(r)' = c
    <3>1. 2 * n.episode - 1 <= MaxFlips[r]
      BY <1>1, <2>2
    <3> QED BY <2>2, <2>3, <3>1, EpisodeKey DEF Current
  <2>5. ASSUME NEW k \in Keys, k[1] = r, out[k] # None
        PROVE  k[2] <= n.episode /\ (k[2] = n.episode => k[3] = "OPEN") /\ k # c
    <3>1. inc[r] # None /\ k[2] <= inc[r].episode /\ (k[2] = inc[r].episode => k[3] \in {"OPEN", inc[r].life})
      BY <1>1, <2>5 DEF RootSafe
    <3>2. k[2] \in Nat /\ inc[r].episode \in Nat
      BY <1>1, <3>1, KeyParts, IncidentKinds
    <3>3. k[2] <= n.episode /\ (k[2] = n.episode => k[3] = "OPEN" /\ n.life # "OPEN")
      BY <2>2, <3>1, <3>2
    <3> QED BY <2>4, <3>3
  <2>6. out'[c] = Pending /\ Pending # None /\ Pending.delivery = "PENDING"
    <3>1. out[c] = None
      BY <2>4, <2>5
    <3>2. Mints(p, c)
      BY <1>3, <2>0, <2>2, <2>4, <3>1 DEF Mints
    <3> QED BY <2>4, <3>2 DEF Pending, None
  <2>7. ASSUME NEW k \in Keys, k[1] = r, out'[k] # None
        PROVE  k[2] <= n.episode /\ (k[2] = n.episode => k[3] \in {"OPEN", n.life})
    <3>1. CASE Mints(p, k)
      <4>1. k[2] = n.episode /\ k[3] \in {"OPEN", n.life}
        BY <2>0, <2>7, <3>1, Minted
      <4> QED BY <2>2, <4>1
    <3>2. CASE ~Mints(p, k)
      BY <2>5, <2>7, <3>2
    <3> QED BY <3>1, <3>2
  <2>8. ASSUME NEW m \in Episodes(r), <<r, m, "ACKNOWLEDGED">> \in Intents',
               <<r, m, "RECOVERED">> \in Intents'
        PROVE  FALSE
    <3>1. PICK a \in Keys : a = <<r, m, "ACKNOWLEDGED">> /\ out'[a] # None
      BY <2>8 DEF Intents
    <3>2. PICK b \in Keys : b = <<r, m, "RECOVERED">> /\ out'[b] # None
      BY <2>8 DEF Intents
    <3>3. /\ a[1] = r /\ a[2] = m /\ a[3] = "ACKNOWLEDGED"
          /\ b[1] = r /\ b[2] = m /\ b[3] = "RECOVERED"
      BY <3>1, <3>2
    <3>4. m # n.episode
      BY <2>7, <3>1, <3>2, <3>3
    <3>5. ~Mints(p, a) /\ ~Mints(p, b)
      BY <2>0, <3>3, <3>4, Minted
    <3>6. a \in Intents /\ b \in Intents
      BY <3>1, <3>2, <3>5 DEF Intents
    <3> QED BY <1>1, <3>1, <3>2, <3>6 DEF RootSafe
  <2> QED BY <1>1, <2>2, <2>4, <2>6, <2>7, <2>8 DEF RootSafe
<1> QED BY <1>2, <1>3

LEMMA TransitionKeeps == ASSUME IInv, NEW p \in Roles, Transition(p) PROVE IInv'
<1>1. /\ Typed /\ run \in [Roles -> {Idle} \cup Looking \cup Paging]
      /\ run[p].pc = "transition" /\ UNCHANGED <<fact, disposed, route, sent, fresh, misread>>
      /\ stale' \subseteq Roles
      /\ \A r \in Roots : fact[r] \in Nat
  BY DEF IInv, Typed, Transition, Outdated, env, chat
<1>2. run[p] \in Looking
  BY <1>1, RunKinds
<1>3. inc' = [r \in Roots |-> NewInc(p, r)]
      /\ out' = [k \in Keys |-> IF Mints(p, k) THEN Pending ELSE out[k]]
  BY DEF Transition
<1>4. \A k \in Keys : out'[k] = IF Mints(p, k) THEN Pending ELSE out[k]
  BY <1>3
<1>5. PICK q \in SetToSeqs(Retryable(p, inc', out')) :
        run' = [run EXCEPT ![p] = IF q = <<>> THEN Idle ELSE [pc |-> "next", queue |-> q]]
  BY <1>3 DEF Transition, Goto
<1>6. /\ q \in Seq(Keys) /\ (q # <<>> => Len(q) > 0)
      /\ \A n \in 1..Len(q) : q[n] \in Retryable(p, inc', out')
      /\ \A n, m \in 1..Len(q) : n # m => q[n] # q[m]
  <2>1. Retryable(p, inc', out') \subseteq Keys
    BY DEF Retryable
  <2> QED BY <2>1, Queues
<1>7. PICK s \in {Idle} \cup Deciding : s = IF q = <<>> THEN Idle ELSE [pc |-> "next", queue |-> q]
  BY <1>6 DEF Deciding
<1>8. run' = [run EXCEPT ![p] = s] /\ run'[p] = s /\ run' \in [Roles -> {Idle} \cup Looking \cup Paging]
  BY <1>1, <1>5, <1>7 DEF Paging
<1>9. \A r \in Roots : RootSafe(r)' /\ inc'[r] \in Incidents \cup {None}
  BY <1>1, <1>2, <1>3, <1>4, RootMoves
<1>10. Typed'
  <2>1. inc' \in [Roots -> Incidents \cup {None}]
    BY <1>3, <1>9
  <2>2. Pending \in Notices
    BY DEF Pending, Notices, Deliveries
  <2>3. out' \in [Keys -> Notices \cup {None}]
    BY <1>1, <1>3, <2>2 DEF Typed
  <2> QED BY <1>1, <1>8, <2>1, <2>3 DEF Typed
<1>11. ASSUME NEW k \in Keys PROVE KeySafe(k)'
  <2>1. CASE Mints(p, k)
    <3>1. out'[k] = Pending /\ out[k] = None /\ KeySafe(k)
      BY <1>4, <2>1, Minted, <1>2 DEF IInv
    <3> QED BY <1>1, <3>1 DEF KeySafe, Pending, None
  <2>2. CASE ~Mints(p, k)
    BY <1>1, <1>4, <2>2, KeyFrame
  <2> QED BY <2>1, <2>2
<1>12. ASSUME NEW o \in Roles PROVE RunSafe(o)'
  <2>1. CASE o = p
    <3>1. CASE q = <<>>
      <4>1. Idle \notin Looking \cup Paging
        BY DEF Idle, Looking, Paging, Deciding, Delivering, Settling
      <4> QED BY <1>7, <1>8, <2>1, <3>1, <4>1 DEF RunSafe
    <3>2. CASE q # <<>>
      <4>1. s = [pc |-> "next", queue |-> q]
        BY <1>7, <3>2
      <4>2. run'[p].queue = q /\ run'[p].pc = "next" /\ s \notin Looking
        BY <1>8, <4>1 DEF Looking
      <4>3. ASSUME NEW n \in 1..Len(q)
            PROVE  Owns(p, q[n][1]) /\ out'[q[n]] # None /\ out'[q[n]].delivery # "DELIVERED"
        BY <1>6 DEF Retryable
      <4>4. QueueSafe(p)'
        BY <1>6, <3>2, <4>2, <4>3 DEF QueueSafe
      <4>5. HeadSafe(p)'
        BY <4>2 DEF HeadSafe
      <4> QED BY <1>8, <2>1, <4>2, <4>4, <4>5 DEF RunSafe
    <3> QED BY <3>1, <3>2
  <2>2. CASE o # p
    <3>1. run'[o] = run[o]
      BY <1>1, <1>8, <2>2
    <3>2. \A r \in Roots : Owns(o, r) => ~Owns(p, r)
      BY <2>2, OneOwner
    <3>3. \A k \in Keys : Owns(o, k[1]) => out'[k] = out[k]
      BY <1>2, <1>4, <3>2, KeyParts, Minted
    <3>4. \A r \in Roots : Owns(o, r) => inc'[r] = inc[r]
      BY <1>2, <1>3, <3>2, NotOwned
    <3> QED BY <1>1, <3>1, <3>3, <3>4, RunFrame
  <2> QED BY <2>1, <2>2
<1> QED BY <1>9, <1>10, <1>11, <1>12 DEF IInv

-----------------------------------------------------------------------------
LEMMA InvStep == IInv /\ [Next]_vars => IInv'
<1> SUFFICES ASSUME IInv, [Next]_vars PROVE IInv'
  OBVIOUS
<1>1. ASSUME NEW p \in Roles, Run(p) \/ Die(p) PROVE IInv'
  BY <1>1, LoadKeeps, TransitionKeeps, DecideKeeps, BindKeeps, MarkKeeps, SendKeeps, ReadbackKeeps,
     SettleKeeps, LoseKeeps, DieKeeps DEF Run
<1>2. ASSUME NEW r \in Roots, FactChanges(r) \/ Dispose(r) PROVE IInv'
  BY <1>2, FactChangesKeeps, DisposeKeeps
<1>3. CASE RouteChanges
  BY <1>3, RouteChangesKeeps
<1>4. ASSUME NEW k \in Keys, Expire(k) PROVE IInv'
  BY <1>4, ExpireKeeps
<1>5. CASE UNCHANGED vars
  BY <1>5, EnvKeeps DEF IInv, Typed, vars
<1> QED BY <1>1, <1>2, <1>3, <1>4, <1>5 DEF Next

LEMMA InvSafe == IInv => TypeOK /\ IncidentSafe
<1> SUFFICES ASSUME IInv PROVE TypeOK /\ IncidentSafe
  OBVIOUS
<1>1. ASSUME NEW r \in Roots, inc[r] # None
      PROVE  /\ inc[r].life \in {"OPEN", "ACKNOWLEDGED", "RECOVERED"} /\ inc[r].episode \in Episodes(r)
             /\ Current(r) \in Intents /\ out[Current(r)].delivery = inc[r].delivery
  <2>1. RootSafe(r) /\ inc[r] \in Incidents \cup {None}
    BY DEF IInv, Typed
  <2>2. PICK k \in Keys : k = Current(r) /\ out[k] # None
    BY <1>1, <2>1 DEF RootSafe
  <2>3. k[1] = r /\ k[2] = inc[r].episode /\ k[2] \in Episodes(k[1])
    BY <2>2, KeyParts DEF Current
  <2> QED BY <1>1, <2>1, <2>2, <2>3, IncidentKinds DEF RootSafe, Intents
<1>2. ASSUME NEW k \in Intents
      PROVE  k \in Keys /\ out[k] # None /\ out[k].delivery \in Deliveries
  BY <1>2, NoticeKinds DEF IInv, Typed, Intents
<1>3. TypeOK
  BY <1>1, <1>2 DEF TypeOK, IInv, Typed, Deliveries
<1>4. FileLoads
  BY <1>1 DEF FileLoads, IInv, RootSafe
<1>5. ASSUME NEW k \in Keys
      PROVE  /\ sent[k] > 0 => k \in Intents /\ out[k].tried /\ out[k].binding # 0
             /\ k \in Intents /\ out[k].delivery = "DELIVERED" => sent[k] > 0
             /\ sent[k] > 1 => k \in misread
  <2>1. KeySafe(k) /\ sent[k] \in Nat
    BY DEF IInv, Typed
  <2> QED BY <2>1 DEF KeySafe, Intents
<1>6. PagesOnRecord /\ DuplicatesExplained
  BY <1>5 DEF PagesOnRecord, DuplicatesExplained
<1> QED BY <1>3, <1>4, <1>6 DEF IncidentSafe

LEMMA InvHolds == Spec => []IInv
  BY InvInit, InvStep, PTL DEF Spec

(* Type correctness of the incident file.                                  *)
THEOREM TypeCorrect == Spec => []TypeOK
<1>1. IInv => TypeOK
  BY InvSafe
<1> QED BY <1>1, InvHolds, PTL

(* Whatever the two watchdogs, their crashes, the detectors, the manifest  *)
(* and the provider do: the file always loads again, a page is sent only   *)
(* behind a durable attempt, what is recorded as delivered was shown, and  *)
(* nothing is shown twice but after an accepted send reported as failed.   *)
THEOREM IncidentsCorrect == Spec => []IncidentSafe
<1>1. IInv => IncidentSafe
  BY InvSafe
<1> QED BY <1>1, InvHolds, PTL

-----------------------------------------------------------------------------
(* A commit of a delivery moves no incident. *)
LEMMA DeliveryOnly ==
  ASSUME IInv, NEW k \in Keys, NEW d, MarkDelivery(k, d), NEW r \in Roots
  PROVE  inc'[r].life = inc[r].life /\ inc'[r].episode = inc[r].episode
<1>1. inc \in [Roots -> Incidents \cup {None}] /\ k[1] \in Roots /\ k[3] # "none"
  BY KeyParts DEF IInv, Typed
<1>2. CASE Current(k[1]) = k /\ r = k[1]
  <2>1. inc'[r] = [inc[r] EXCEPT !.delivery = d]
    BY <1>1, <1>2 DEF MarkDelivery
  <2>2. inc[r].life # "none"
    BY <1>1, <1>2 DEF Current
  <2>3. inc[r] \in Incidents
    BY <1>1, <2>2 DEF None
  <2> QED BY <2>1, <2>3 DEF Incidents
<1>3. CASE ~(Current(k[1]) = k /\ r = k[1])
  BY <1>1, <1>3 DEF MarkDelivery
<1> QED BY <1>2, <1>3

LEMMA ClosesStep == IInv /\ [Next]_vars => ClosesTruthfullyStep
<1> SUFFICES ASSUME IInv, [Next]_vars, NEW r \in Roots
             PROVE  /\ inc[r].life = "OPEN" /\ inc'[r].life = "RECOVERED" =>
                         \E p \in Roles :
                           Owns(p, r) /\ run[p].pc = "transition" /\ r \notin run[p].seen
                    /\ r \in OccRoots /\ inc[r] # None /\ inc[r].life # "OPEN" =>
                         inc'[r].life = inc[r].life /\ inc'[r].episode = inc[r].episode
  BY DEF ClosesTruthfullyStep
<1>1. ASSUME NEW p \in Roles, Transition(p)
      PROVE  /\ inc[r].life = "OPEN" /\ inc'[r].life = "RECOVERED" =>
                  Owns(p, r) /\ run[p].pc = "transition" /\ r \notin run[p].seen
             /\ r \in OccRoots /\ inc[r] # None /\ inc[r].life # "OPEN" => inc'[r] = inc[r]
  <2>1. inc'[r] = NewInc(p, r) /\ run[p].pc = "transition"
    BY <1>1 DEF Transition
  <2>2. \A life, n : Rec(life, n).life = life
    BY DEF Rec
  <2>3. inc[r].life = "OPEN" /\ inc'[r].life = "RECOVERED" => Recovers(p, r, run[p].seen)
    BY <2>1, <2>2 DEF NewInc
  <2>4. r \in OccRoots /\ inc[r] # None /\ inc[r].life # "OPEN" => inc'[r] = inc[r]
    BY <2>1 DEF NewInc, Acknowledges, Opens, Recovers
  <2> QED BY <2>1, <2>3, <2>4 DEF Recovers
<1>2. CASE \E p \in Roles : Transition(p)
  BY <1>1, <1>2
<1>3. CASE ~\E p \in Roles : Transition(p)
  <2>1. CASE \E p \in Roles : Mark(p) \/ Settle(p)
    <3>1. PICK p \in Roles : Mark(p) \/ Settle(p)
      BY <2>1
    <3>2. run[p].pc \in {"mark", "settle"} /\ run[p] \in {Idle} \cup Looking \cup Paging
      BY <3>1 DEF Mark, Settle, IInv, Typed
    <3>3. run[p] \in Paging
      BY <3>2, RunKinds
    <3>4. Key(p) \in Keys /\ \E d : MarkDelivery(Key(p), d)
      BY <3>1, <3>3, Heads DEF Mark, Settle
    <3>5. inc'[r].life = inc[r].life /\ inc'[r].episode = inc[r].episode
      BY <3>4, DeliveryOnly
    <3> QED BY <3>5
  <2>2. CASE ~\E p \in Roles : Mark(p) \/ Settle(p)
    <3>1. inc' = inc
      BY <1>3, <2>2 DEF Next, Run, Load, Decide, Bind, Send, Readback, Lose, Die, FactChanges, Dispose,
        RouteChanges, Expire, file, vars
    <3> QED BY <3>1
  <2> QED BY <2>1, <2>2
<1> QED BY <1>2, <1>3

(* An incident recovers only in a run of the process that owns it and did  *)
(* not see it, and a closed incident of an occurrence stays as it is, for  *)
(* ever.                                                                   *)
THEOREM ClosesTruthfully == Spec => [][ClosesTruthfullyStep]_vars
<1>1. IInv /\ [Next]_vars => ClosesTruthfullyStep
  BY ClosesStep
<1> QED BY <1>1, InvHolds, PTL DEF Spec

-----------------------------------------------------------------------------
(* Slot accounting: a theory of its own, about one recurring job. *)
CONSTANTS Slots, RefireGap, MaxBackfill, AppendFails, Catchups, MaxTime, MaxSessions
VARIABLES now, enabled, activation, created, open, lastEnd, log, engine, session, cursor, todo, cand

SA == INSTANCE SlotAccounting

(* Slots are instants after the start of time. *)
SlotAssumption ==
  Slots \subseteq Nat \ {0} /\ RefireGap \in Nat /\ MaxTime \in Nat /\ MaxSessions \in Nat

(* The newest slot at a time. *)
Newest(n) == IF {s \in Slots : s <= n} = {} THEN 0 ELSE SA!Greatest({s \in Slots : s <= n})

(* What a session has written off is older than the newest slot and has no *)
(* occurrence; what it is still to write off as well.  An occurrence that  *)
(* has ended is not younger than its end, where the floor is.              *)
MissedSafe ==
  /\ \A c \in created : c <= now /\ (open = FALSE => c <= lastEnd)
  /\ engine # "account" => todo = {}
  /\ \A s \in todo : s < Newest(now) /\ s \notin created
  /\ \A r \in log : r[2] = "MISSED_BEFORE_OCCURRENCE" => r[1] < Newest(now) /\ r[1] \notin created

(* The cursor of a session is at the newest slot it has recorded. *)
CursorSafe ==
  /\ engine # "down" => session > 0
  /\ \A r \in log : r[3] <= session /\ (r[3] = session => r[1] <= cursor)
  /\ SA!RecordedOncePerSession

SlotInv == SA!TypeOK /\ MissedSafe /\ CursorSafe

(* A set of natural numbers has a least element, and a bounded one a       *)
(* greatest.                                                               *)
LEMMA LeastOf ==
  ASSUME NEW T, T \subseteq Nat, T # {}
  PROVE  \E m \in T : \A t \in T : m <= t
<1> DEFINE Less == {ss \in Nat \X Nat : ss[1] < ss[2]}
<1>1. IsWellFoundedOn(Less, Nat)
  BY NatLessThanWellFounded DEF OpToRel
<1>2. PICK m \in T : \A t \in T : <<t, m>> \notin Less
  <2> HIDE DEF Less
  <2> QED BY <1>1, WFMin
<1>3. ASSUME NEW t \in T PROVE m <= t
  <2>1. <<t, m>> \in Nat \X Nat /\ ~(t < m)
    BY <1>2
  <2> QED BY <2>1
<1> QED BY <1>3

LEMMA GreatestOf ==
  ASSUME NEW n \in Nat, NEW T, T \subseteq 0..n, T # {}
  PROVE  SA!Greatest(T) \in T /\ \A t \in T : t <= SA!Greatest(T)
<1> DEFINE D == {n - t : t \in T}
<1>0. \A t \in T : t \in Nat /\ t <= n /\ n - t \in Nat
  OBVIOUS
<1>1. D \subseteq Nat /\ D # {}
  BY <1>0
<1>2. PICK d \in D : \A e \in D : d <= e
  <2> HIDE DEF D
  <2> QED BY <1>1, LeastOf
<1>3. PICK m \in T : d = n - m
  OBVIOUS
<1>4. ASSUME NEW t \in T PROVE t <= m
  <2>1. n - t \in D
    OBVIOUS
  <2>2. d <= n - t
    BY <1>2, <2>1
  <2> QED BY <1>3, <2>2
<1> QED BY <1>4 DEF SA!Greatest

LEMMA NewestIs ==
  ASSUME SlotAssumption, NEW n \in Nat
  PROVE  /\ Newest(n) \in Slots \cup {0} /\ Newest(n) \in Nat /\ Newest(n) <= n
         /\ \A s \in Slots : s <= n => s <= Newest(n)
<1>1. {s \in Slots : s <= n} \subseteq 0..n
  <2>1. \A s \in Slots : s \in Nat
    BY DEF SlotAssumption
  <2> QED BY <2>1
<1>2. CASE {s \in Slots : s <= n} = {}
  BY <1>2 DEF Newest
<1>3. CASE {s \in Slots : s <= n} # {}
  <2>1. Newest(n) \in {s \in Slots : s <= n} /\ \A t \in {s \in Slots : s <= n} : t <= Newest(n)
    BY <1>1, <1>3, GreatestOf DEF Newest
  <2> QED BY <1>1, <2>1
<1> QED BY <1>2, <1>3

(* The newest slot only moves on. *)
LEMMA NewestGrows ==
  ASSUME SlotAssumption, NEW n \in Nat, NEW m \in Nat, n <= m
  PROVE  Newest(n) <= Newest(m)
<1>1. CASE Newest(n) = 0
  BY <1>1, NewestIs
<1>2. CASE Newest(n) # 0
  <2>1. Newest(n) \in Slots /\ Newest(n) <= m
    BY <1>2, NewestIs
  <2> QED BY <2>1, NewestIs
<1> QED BY <1>1, <1>2

-----------------------------------------------------------------------------
LEMMA Types ==
  ASSUME SlotAssumption, SlotInv
  PROVE  /\ now \in Nat /\ lastEnd \in Nat /\ cursor \in Nat /\ session \in Nat /\ activation \in Nat
         /\ SA!Latest = Newest(now) /\ Newest(now) \in Slots \cup {0} /\ Newest(now) \in Nat
         /\ Newest(now) <= now /\ (\A s \in Slots : s \in Nat /\ s > 0)
         /\ log \subseteq Slots \X SA!Classes \X (1..MaxSessions)
         /\ \A r \in log : r[1] \in Slots /\ r[2] \in SA!Classes /\ r[3] \in 1..MaxSessions
                           /\ r[1] \in Nat /\ r[3] \in Nat
<1>1. now \in 0..MaxTime /\ lastEnd \in 0..MaxTime /\ activation \in 0..MaxTime
      /\ cursor \in Slots \cup {0} /\ session \in 0..MaxSessions
      /\ log \subseteq Slots \X SA!Classes \X (1..MaxSessions)
  BY DEF SlotInv, SA!TypeOK, SA!Times
<1>2. \A s \in Slots : s \in Nat /\ s > 0
  BY DEF SlotAssumption
<1>3. SA!Latest = Newest(now)
  BY DEF SA!Latest, SA!Elapsed, Newest
<1>4. now \in Nat
  BY <1>1
<1>5. \A r \in log : r[1] \in Slots /\ r[2] \in SA!Classes /\ r[3] \in 1..MaxSessions
  BY <1>1
<1> QED BY <1>1, <1>2, <1>3, <1>4, <1>5, NewestIs

LEMMA SlotInit == ASSUME SlotAssumption, SA!Init PROVE SlotInv
<1>1. 0 \in 0..MaxTime /\ 0 \in 0..MaxSessions
  BY DEF SlotAssumption
<1>2. enabled = TRUE /\ open = FALSE /\ now = 0 /\ lastEnd = 0 /\ activation = 0 /\ session = 0
      /\ created = {} /\ log = {} /\ engine = "down" /\ cursor = 0 /\ todo = {} /\ cand = 0
  BY DEF SA!Init
<1>3. SA!TypeOK
  BY <1>1, <1>2 DEF SA!TypeOK, SA!Times
<1> QED BY <1>2, <1>3 DEF SlotInv, MissedSafe, CursorSafe, SA!RecordedOncePerSession

(* A step that records a slot above the cursor, or nothing. *)
LEMMA RecordKeeps ==
  ASSUME SlotAssumption, SlotInv, NEW s \in Slots \cup {0}, NEW class \in SA!Classes, NEW ok \in BOOLEAN,
         (s > cursor /\ SA!Append(s, class, ok)) \/ UNCHANGED <<log, cursor>>,
         class = "MISSED_BEFORE_OCCURRENCE" => s < Newest(now) /\ s \notin created,
         session > 0, UNCHANGED <<now, enabled, activation, created, open, lastEnd, session>>,
         engine' \in {"down", "account", "catchup", "idle", "reserve", "halted"},
         todo' \subseteq todo, engine' # "account" => todo' = {}, cand' \in Slots \cup {0}
  PROVE  SlotInv'
<1>1. /\ cursor \in Nat /\ session \in Nat /\ s \in Nat /\ session \in 1..MaxSessions
      /\ (s > cursor => s \in Slots) /\ log \subseteq Slots \X SA!Classes \X (1..MaxSessions)
  <2>1. session \in 0..MaxSessions
    BY DEF SlotInv, SA!TypeOK
  <2> QED BY <2>1, Types
<1>2. PICK n : n = <<s, class, session>>
  OBVIOUS
<1>3. \/ log' = log /\ cursor' = cursor
      \/ s > cursor /\ cursor' = s /\ log' = log \cup {n}
  BY <1>2 DEF SA!Append
<1>4. s > cursor => n \in Slots \X SA!Classes \X (1..MaxSessions)
  BY <1>1, <1>2
<1>5. n[1] = s /\ n[2] = class /\ n[3] = session
  BY <1>2
<1>6. SA!TypeOK'
  <2>1. log' \subseteq Slots \X SA!Classes \X (1..MaxSessions)
    BY <1>1, <1>3, <1>4
  <2>2. cursor' \in Slots \cup {0}
    BY <1>1, <1>3 DEF SlotInv, SA!TypeOK
  <2> QED BY <2>1, <2>2 DEF SlotInv, SA!TypeOK
<1>7. MissedSafe'
  BY <1>3, <1>5 DEF SlotInv, MissedSafe
<1>8. CursorSafe'
  <2>1. \A r \in log : r[3] <= session /\ (r[3] = session => r[1] <= cursor) /\ r[1] \in Nat
    BY Types DEF SlotInv, CursorSafe
  <2>2. \A r \in log' : r[3] <= session /\ (r[3] = session => r[1] <= cursor')
    BY <1>1, <1>3, <1>5, <2>1
  <2>3. ASSUME NEW r \in log', NEW q \in log', r[1] = q[1], r[3] = q[3] PROVE r = q
    <3>1. CASE r \in log /\ q \in log
      BY <2>3, <3>1 DEF SlotInv, CursorSafe, SA!RecordedOncePerSession
    <3>2. CASE r \notin log \/ q \notin log
      <4>1. s > cursor /\ log' = log \cup {n}
        BY <1>3, <3>2
      <4>2. \A o \in log : ~(o[1] = n[1] /\ o[3] = n[3])
        BY <1>1, <1>5, <2>1, <4>1
      <4> QED BY <2>3, <3>2, <4>1, <4>2
    <3> QED BY <3>1, <3>2
  <2> QED BY <2>2, <2>3 DEF CursorSafe, SA!RecordedOncePerSession
<1> QED BY <1>6, <1>7, <1>8 DEF SlotInv

-----------------------------------------------------------------------------
(* The floor is not below the end of the latest occurrence. *)
LEMMA FloorIs ==
  ASSUME SlotAssumption, SlotInv
  PROVE  SA!Floor \in Nat /\ lastEnd <= SA!Floor
<1>1. lastEnd \in Nat /\ activation \in Nat /\ RefireGap \in Nat
  BY Types DEF SlotAssumption
<1> QED BY <1>1 DEF SA!Floor

(* A step of the engine that neither records nor admits. *)
LEMMA QuietKeeps ==
  ASSUME SlotAssumption, SlotInv, UNCHANGED <<SA!job, log, session, cursor>>,
         engine' \in {"down", "account", "catchup", "idle", "reserve", "halted"},
         engine' # "down" => engine # "down",
         todo' \subseteq todo, engine' # "account" => todo' = {}, cand' \in Slots \cup {0}
  PROVE  SlotInv'
BY DEF SA!job, SlotInv, SA!TypeOK, SA!Times, MissedSafe, CursorSafe, SA!RecordedOncePerSession,
       Newest, SA!Greatest

(* An admission is of the newest slot, which nothing has written off. *)
LEMMA AdmitKeeps ==
  ASSUME SlotAssumption, SlotInv, NEW s, SA!Due(s), SA!Admitted(s), UNCHANGED <<log, session>>,
         engine \in {"catchup", "reserve"}, engine' = "idle", UNCHANGED todo,
         cand' \in Slots \cup {0}, cursor' = cursor \/ (s > cursor /\ cursor' = s)
  PROVE  SlotInv'
<1>1. s = Newest(now) /\ s \in Slots /\ s \in Nat /\ s <= now
  <2>1. s = Newest(now) /\ s > SA!Floor
    BY Types DEF SA!Due
  <2> QED BY <2>1, Types, FloorIs
<1>2. /\ now' = now /\ enabled' = enabled /\ activation' = activation /\ lastEnd' = lastEnd
      /\ created' = created \cup {s} /\ open' = TRUE /\ Newest(now)' = Newest(now)
  BY DEF SA!Admitted, Newest, SA!Greatest
<1>3. todo = {} /\ todo' = {}
  BY DEF SlotInv, MissedSafe
<1>4. SA!TypeOK'
  BY <1>1, <1>2, <1>3 DEF SlotInv, SA!TypeOK, SA!Times
<1>5. MissedSafe'
  <2>1. \A r \in log : r[2] = "MISSED_BEFORE_OCCURRENCE"
                         => r[1] < Newest(now) /\ r[1] \notin created /\ r[1] # s
    BY <1>1, Types DEF SlotInv, MissedSafe
  <2>2. \A c \in created' : c <= now'
    BY <1>1, <1>2 DEF SlotInv, MissedSafe
  <2> QED BY <1>2, <1>3, <2>1, <2>2 DEF MissedSafe
<1>6. CursorSafe'
  <2>1. cursor <= cursor' /\ cursor \in Nat /\ cursor' \in Nat
    BY <1>1, Types
  <2>2. \A r \in log : r[3] <= session /\ (r[3] = session => r[1] <= cursor) /\ r[1] \in Nat
    BY Types DEF SlotInv, CursorSafe
  <2>3. \A r \in log : r[3] <= session /\ (r[3] = session => r[1] <= cursor')
    BY <2>1, <2>2
  <2> QED BY <2>3 DEF SlotInv, CursorSafe, SA!RecordedOncePerSession
<1> QED BY <1>4, <1>5, <1>6 DEF SlotInv

-----------------------------------------------------------------------------
(* start() leaves the newest slot out of what it writes off, and nothing   *)
(* older than the floor has an occurrence above it.                        *)
LEMMA StartKeeps == ASSUME SlotAssumption, SlotInv, SA!Start PROVE SlotInv'
<1>1. /\ engine = "down" /\ session < MaxSessions /\ engine' = "account" /\ session' = session + 1
      /\ cursor' = 0 /\ todo' = SA!Missed /\ cand' = 0
      /\ now' = now /\ enabled' = enabled /\ activation' = activation
      /\ created' = created /\ open' = open /\ lastEnd' = lastEnd /\ log' = log
  BY DEF SA!Start, SA!job
<1>2. \A s \in SA!Missed : s \in Slots /\ s < Newest(now) /\ s \notin created
  <2> SUFFICES ASSUME NEW s \in SA!Missed PROVE s \in Slots /\ s < Newest(now) /\ s \notin created
    OBVIOUS
  <2>1. open = FALSE /\ s \in Slots /\ s <= now /\ s > SA!Floor /\ s # SA!Latest
    BY DEF SA!Missed, SA!Enumerated, SA!Elapsed, SlotInv, SA!TypeOK
  <2>2. s <= Newest(now) /\ s # Newest(now) /\ s \in Nat /\ Newest(now) \in Nat
    BY <2>1, Types, NewestIs
  <2>3. ASSUME s \in created PROVE FALSE
    <3>1. s <= lastEnd
      BY <2>1, <2>3 DEF SlotInv, MissedSafe
    <3> QED BY <3>1, <2>1, <2>2, FloorIs, Types
  <2> QED BY <2>1, <2>2, <2>3
<1>3. session \in 0..MaxSessions /\ session' \in 1..MaxSessions
  BY <1>1 DEF SlotInv, SA!TypeOK, SlotAssumption
<1>4. SA!TypeOK'
  <2>1. session' \in 0..MaxSessions
    BY <1>3
  <2> QED BY <1>1, <1>2, <2>1 DEF SlotInv, SA!TypeOK, SA!Times
<1>5. MissedSafe'
  <2>1. Newest(now)' = Newest(now)
    BY <1>1 DEF Newest, SA!Greatest
  <2> QED BY <1>1, <1>2, <2>1 DEF SlotInv, MissedSafe
<1>6. CursorSafe'
  <2>1. \A r \in log : r[3] <= session' /\ r[3] # session'
    BY <1>1, <1>3, Types DEF SlotInv, CursorSafe
  <2>2. session' > 0
    BY <1>3
  <2> QED BY <1>1, <2>1, <2>2 DEF SlotInv, CursorSafe, SA!RecordedOncePerSession
<1> QED BY <1>4, <1>5, <1>6 DEF SlotInv

(* The slot that is next to be written off is one of those to be. *)
LEMMA AccountMissedKeeps ==
  ASSUME SlotAssumption, SlotInv, NEW ok \in BOOLEAN, SA!AccountMissed(ok) PROVE SlotInv'
<1>1. PICK s : s = SA!Greatest(todo)
  OBVIOUS
<1>2. s \in todo
  <2>1. \A t \in todo : t \in Slots /\ t < Newest(now)
    BY DEF SlotInv, SA!TypeOK, MissedSafe
  <2>2. now \in Nat /\ Newest(now) \in Nat /\ Newest(now) <= now
    BY Types
  <2>3. \A t \in todo : t \in Nat
    BY <2>1, Types
  <2>4. todo \subseteq 0..now
    BY <2>1, <2>2, <2>3
  <2> QED BY <1>1, <2>2, <2>4, GreatestOf DEF SA!AccountMissed
<1>3. /\ engine = "account" /\ engine' = "account" /\ session' = session /\ cand' = cand
      /\ UNCHANGED <<now, enabled, activation, created, open, lastEnd>>
      /\ todo' = todo \ {s}
      /\ (s > cursor /\ SA!Append(s, "MISSED_BEFORE_OCCURRENCE", ok)) \/ UNCHANGED <<log, cursor>>
  BY <1>1 DEF SA!AccountMissed, SA!job
<1>4. s \in Slots /\ s < Newest(now) /\ s \notin created /\ session > 0 /\ cand \in Slots \cup {0}
  BY <1>2, <1>3 DEF SlotInv, SA!TypeOK, MissedSafe, CursorSafe
<1> QED BY <1>3, <1>4, RecordKeeps DEF SA!Classes

(* A refusal, a skip or a halt is recorded or nothing is. *)
LEMMA RecordSlotKeeps ==
  ASSUME SlotAssumption, SlotInv, NEW s \in Slots \cup {0},
         NEW class \in SA!Classes \ {"MISSED_BEFORE_OCCURRENCE"}, NEW ok \in BOOLEAN,
         SA!RecordSlot(s, class, ok) \/ UNCHANGED <<log, cursor>>,
         engine \in {"idle", "reserve"}, engine' \in {"idle", "halted"},
         UNCHANGED <<SA!job, session, todo>>, cand' \in Slots \cup {0}
  PROVE  SlotInv'
<1>1. (s > cursor /\ SA!Append(s, class, ok)) \/ UNCHANGED <<log, cursor>>
  BY DEF SA!RecordSlot
<1>2. UNCHANGED <<now, enabled, activation, created, open, lastEnd, session>> /\ todo' = todo
  BY DEF SA!job
<1>3. session > 0 /\ todo = {}
  BY DEF SlotInv, MissedSafe, CursorSafe
<1> QED BY <1>1, <1>2, <1>3, RecordKeeps

LEMMA SlotSettleKeeps == ASSUME SlotAssumption, SlotInv, SA!Settle PROVE SlotInv'
BY DEF SA!Settle, SlotInv, SA!TypeOK, SA!Times, MissedSafe, CursorSafe, SA!RecordedOncePerSession,
       Newest, SA!Greatest

LEMMA ToggleKeeps == ASSUME SlotAssumption, SlotInv, SA!Toggle PROVE SlotInv'
<1>1. enabled' \in BOOLEAN /\ activation' \in 0..MaxTime
  BY DEF SA!Toggle, SlotInv, SA!TypeOK, SA!Times
<1> QED BY <1>1 DEF SA!Toggle, SlotInv, SA!TypeOK, SA!Times, MissedSafe, CursorSafe,
                    SA!RecordedOncePerSession, Newest, SA!Greatest

(* Time makes what was written off older still. *)
LEMMA AdvanceKeeps == ASSUME SlotAssumption, SlotInv, SA!Advance PROVE SlotInv'
<1>1. /\ now < MaxTime /\ now' = now + 1
      /\ enabled' = enabled /\ activation' = activation /\ created' = created /\ open' = open
      /\ lastEnd' = lastEnd /\ log' = log /\ engine' = engine /\ session' = session
      /\ cursor' = cursor /\ todo' = todo /\ cand' = cand
  BY DEF SA!Advance
<1>2. now \in Nat /\ now' \in Nat /\ now <= now' /\ now' \in 0..MaxTime
  BY <1>1, Types DEF SlotAssumption
<1>3. Newest(now) <= Newest(now') /\ Newest(now') \in Nat /\ Newest(now) \in Nat
  BY <1>2, NewestGrows, NewestIs
<1>4. Newest(now)' = Newest(now')
  BY DEF Newest, SA!Greatest
<1>5. MissedSafe'
  <2>1. \A c \in created : c \in Nat
    BY Types DEF SlotInv, SA!TypeOK
  <2>2. \A c \in created : c <= now' /\ (open = FALSE => c <= lastEnd)
    BY <1>1, <1>2, <2>1 DEF SlotInv, MissedSafe
  <2>3. \A s \in todo : s \in Nat
    BY Types DEF SlotInv, SA!TypeOK
  <2>4. \A s \in todo : s < Newest(now') /\ s \notin created
    BY <1>3, <2>3 DEF SlotInv, MissedSafe
  <2>5. ASSUME NEW r \in log, r[2] = "MISSED_BEFORE_OCCURRENCE"
        PROVE  r[1] < Newest(now') /\ r[1] \notin created
    <3>1. r[1] < Newest(now) /\ r[1] \notin created
      BY <2>5 DEF SlotInv, MissedSafe
    <3>2. r[1] \in Nat
      BY Types
    <3> QED BY <1>3, <3>1, <3>2
  <2> QED BY <1>1, <1>4, <2>2, <2>4, <2>5 DEF SlotInv, MissedSafe
<1> QED BY <1>1, <1>2, <1>5 DEF SlotInv, SA!TypeOK, SA!Times, CursorSafe, SA!RecordedOncePerSession

-----------------------------------------------------------------------------
LEMMA SlotRecordStep ==
  ASSUME SlotAssumption, SlotInv, NEW ok \in BOOLEAN, SA!Record(ok) PROVE SlotInv'
<1>1. CASE SA!AccountMissed(ok)
  BY <1>1, AccountMissedKeeps
<1>2. CASE SA!TickSkip(ok)
  <2>1. SA!Latest \in Slots \cup {0} /\ cand' = cand /\ cand \in Slots \cup {0}
    BY <1>2, Types DEF SA!TickSkip, SlotInv, SA!TypeOK
  <2>2. engine = "idle" /\ engine' = "idle" /\ UNCHANGED <<SA!job, session, todo>>
    BY <1>2 DEF SA!TickSkip, SA!job
  <2> QED BY <1>2, <2>1, <2>2, RecordSlotKeeps DEF SA!TickSkip, SA!Classes
<1>3. CASE SA!Reserve(ok)
  <2>1. engine = "reserve" /\ engine' = "idle" /\ cand' \in Slots \cup {0} /\ cand \in Slots \cup {0}
        /\ UNCHANGED <<session, todo>>
    BY <1>3 DEF SA!Reserve, SlotInv, SA!TypeOK
  <2>2. CASE SA!Due(cand)
    BY <1>3, <2>1, <2>2, AdmitKeeps DEF SA!Reserve
  <2>3. CASE ~SA!Due(cand)
    <3>1. SA!RecordSlot(cand, "ADMISSION_REJECTED", ok) /\ UNCHANGED SA!job
      BY <1>3, <2>3 DEF SA!Reserve
    <3> QED BY <2>1, <3>1, RecordSlotKeeps DEF SA!Classes
  <2> QED BY <2>2, <2>3
<1>4. CASE SA!TickHalted(ok)
  <2>1. SA!Latest \in Slots \cup {0} /\ cand' = cand /\ cand \in Slots \cup {0}
    BY <1>4, Types DEF SA!TickHalted, SlotInv, SA!TypeOK
  <2>2. engine = "idle" /\ engine' = "halted" /\ UNCHANGED <<SA!job, session, todo>>
        /\ (SA!RecordSlot(SA!Latest, "ENGINE_HALTED", ok) \/ UNCHANGED <<log, cursor>>)
    BY <1>4 DEF SA!TickHalted, SA!job
  <2> QED BY <2>1, <2>2, RecordSlotKeeps DEF SA!Classes
<1> QED BY <1>1, <1>2, <1>3, <1>4 DEF SA!Record

LEMMA SlotStep == ASSUME SlotAssumption, SlotInv, [SA!Next]_(SA!vars) PROVE SlotInv'
<1>1. cand \in Slots \cup {0} /\ engine \in {"down", "account", "catchup", "idle", "reserve", "halted"}
      /\ SA!Latest \in Slots \cup {0}
  BY Types DEF SlotInv, SA!TypeOK
<1>2. CASE SA!Start
  BY <1>2, StartKeeps
<1>3. CASE SA!AccountDone
  <2>1. engine' \in {"catchup", "idle"} /\ engine = "account" /\ todo = {} /\ todo' = {} /\ cand' = cand
    BY <1>3 DEF SA!AccountDone
  <2> QED BY <1>1, <1>3, <2>1, QuietKeeps DEF SA!AccountDone
<1>4. CASE SA!Catchup
  <2>1. CASE SA!Due(SA!Latest)
    BY <1>1, <1>4, <2>1, AdmitKeeps DEF SA!Catchup
  <2>2. CASE ~SA!Due(SA!Latest)
    <3>1. todo = {} /\ todo' = {} /\ cand' = cand /\ engine = "catchup" /\ engine' = "idle"
      BY <1>4 DEF SA!Catchup, SlotInv, MissedSafe
    <3> QED BY <1>1, <1>4, <2>2, <3>1, QuietKeeps DEF SA!Catchup
  <2> QED BY <2>1, <2>2
<1>5. CASE SA!TickScan
  <2>1. todo = {} /\ todo' = {} /\ cand' = SA!Latest /\ engine = "idle" /\ engine' = "reserve"
    BY <1>5 DEF SA!TickScan, SlotInv, MissedSafe
  <2> QED BY <1>1, <1>5, <2>1, QuietKeeps DEF SA!TickScan
<1>6. CASE SA!Crash
  BY <1>6, QuietKeeps DEF SA!Crash
<1>7. CASE \E ok \in BOOLEAN : SA!Record(ok)
  BY <1>7, SlotRecordStep
<1>8. CASE SA!Settle
  BY <1>8, SlotSettleKeeps
<1>9. CASE SA!Toggle
  BY <1>9, ToggleKeeps
<1>10. CASE SA!Advance
  BY <1>10, AdvanceKeeps
<1>11. CASE UNCHANGED SA!vars
  <2>1. UNCHANGED <<SA!job, log, session, cursor>> /\ engine' = engine /\ todo' = todo /\ cand' = cand
    BY <1>11 DEF SA!vars, SA!job
  <2>2. engine' # "account" => todo' = {}
    BY <2>1 DEF SlotInv, MissedSafe
  <2> QED BY <1>1, <2>1, <2>2, QuietKeeps
<1> QED
  BY <1>2, <1>3, <1>4, <1>5, <1>6, <1>7, <1>8, <1>9, <1>10, <1>11 DEF SA!Next

LEMMA SlotCorrect == ASSUME SlotAssumption PROVE SA!Spec => []SlotInv
<1>1. SA!Init => SlotInv
  BY SlotInit
<1>2. SlotInv /\ [SA!Next]_(SA!vars) => SlotInv'
  BY SlotStep
<1> QED BY <1>1, <1>2, PTL DEF SA!Spec

(* A slot that accountDowntimeSlots writes off as missed never runs, and   *)
(* no session records a slot twice (recordSlotAccounting), for any slots,  *)
(* gaps, times and numbers of sessions, and whatever appends fail.         *)
THEOREM SlotsAreAccounted ==
  ASSUME SlotAssumption
  PROVE  SA!Spec => [](SA!TypeOK /\ SA!MissedNeverRuns /\ SA!RecordedOncePerSession)
<1>1. SlotInv => SA!TypeOK /\ SA!MissedNeverRuns /\ SA!RecordedOncePerSession
  BY DEF SlotInv, MissedSafe, CursorSafe, SA!MissedNeverRuns
<1> QED BY <1>1, SlotCorrect, PTL

=============================================================================
