------------------------ MODULE ProcessRegistryProofs ------------------------
(***************************************************************************)
(* Theorems about the process registry, for any callers and routes and any *)
(* number of generations: no child outlives its slot, and no caller waits  *)
(* for a slot that cannot converge.                                        *)
(***************************************************************************)
EXTENDS ProcessRegistry, TLAPS

States == {"EMPTY", "STARTUP", "READY", "REAP"}

Slots == [st : States, gen : 0..MaxGens]

Entries ==
  [stage : {"none", "boot", "spawned", "over"}, route : Routes, result : {"open", "ready", "failed"}]

Procs ==
  [state : {"none", "INITIALIZING", "READY", "DRAINING", "EXITED"}, exit : BOOLEAN,
   turn : {"none", "busy", "unknown"}, stop : {"no", "grace", "wait", "refused"},
   killed : BOOLEAN, blocked : BOOLEAN, failed : BOOLEAN]

Children == {"none", "nopid", "running", "zombie", "reaped", "gone"}

Wants == Routes \cup {Plain}

(* A caller that looks at the slot again remembers what it waited for. *)
Waiting ==
  [pc : {"result", "startup", "shutdown"}, gen : Gens, want : Wants,
   seen : SUBSET (Gens \X {"STARTUP", "READY"})]

(* A caller that waits for one startup alone, or has its process. *)
Settling == [pc : {"result", "holds"}, gen : Gens]

Standing == {Idle} \cup Settling \cup Waiting

-----------------------------------------------------------------------------
(* The order in which the slot goes through the states of a generation. *)
Rank == [STARTUP |-> 1, READY |-> 2, REAP |-> 3, EMPTY |-> 4]

(* The slot goes on in its generation or begins a later one. *)
Forward ==
  \/ slot'.gen > slot.gen
  \/ slot'.gen = slot.gen /\ Rank[slot'.st] >= Rank[slot.st]

(* Nothing has happened to a generation that was not issued yet. *)
Fresh(g) ==
  /\ entry[g].stage = "none" /\ entry[g].result = "open" /\ os[g] = "none"
  /\ proc[g].state = "none" /\ proc[g].exit = FALSE /\ proc[g].stop = "no"

(* What the invariant says of one generation: before its child is spawned  *)
(* the slot is its own; a child that runs has its slot and no evidence of  *)
(* its death is there; its startup promise is open as long as the slot is  *)
(* in STARTUP; a slot in use is not of a process that is told to stop.     *)
GenSafe(g) ==
  /\ g > slot.gen => Fresh(g)
  /\ entry[g].stage = "boot" =>
       Owns(slot, g, {"STARTUP"}) /\ os[g] = "none" /\ proc[g].exit = FALSE
  /\ os[g] = "running" =>
       slot.gen = g /\ slot.st # "EMPTY" /\ proc[g].exit = FALSE /\ proc[g].state # "EXITED"
  /\ Owns(slot, g, {"STARTUP"}) => entry[g].result = "open"
  /\ Owns(slot, g, {"STARTUP", "READY"}) => proc[g].state # "DRAINING" /\ proc[g].stop = "no"

(* What a caller has seen of the slot lies behind it as soon as the caller *)
(* may look again: it waits for the end of the newest entry it has seen,   *)
(* or has seen that entry handed to the fence.                             *)
CallerSafe(c) ==
  LET q == caller[c] IN
  /\ q \in Settling \cup Waiting => q.gen <= slot.gen
  /\ q \in Waiting =>
     /\ q.pc = "startup" => \A p \in q.seen : p[1] < q.gen \/ p = <<q.gen, "STARTUP">>
     /\ q.pc = "shutdown" =>
          /\ \A p \in q.seen : p[1] <= q.gen
          /\ q.gen < slot.gen \/ slot.st \in {"REAP", "EMPTY"}

Typed ==
  /\ slot \in Slots /\ (slot.st # "EMPTY" => slot.gen \in Gens)
  /\ entry \in [Gens -> Entries]
  /\ proc \in [Gens -> Procs]
  /\ os \in [Gens -> Children]
  /\ dispose \in {"no", "waiting", "done"}

IInv ==
  /\ Typed
  /\ caller \in [Callers -> Standing]
  /\ \A g \in Gens : GenSafe(g)
  /\ \A c \in Callers : CallerSafe(c)

-----------------------------------------------------------------------------
(* Lemmas. *)

LEMMA GenNat == ASSUME NEW g \in Gens PROVE g \in Nat /\ g >= 1 /\ g <= MaxGens
  BY RegistryAssumption DEF Gens

(* The status of a caller tells its kind. *)
LEMMA Standings ==
  ASSUME NEW q \in Standing
  PROVE  /\ q.pc \in {"idle", "result", "startup", "shutdown", "holds"}
         /\ q.pc \in {"startup", "shutdown"} => q \in Waiting
         /\ q.pc # "idle" => q \in Settling \cup Waiting /\ q.gen \in Gens
         /\ q.pc = "idle" => q = Idle /\ q \notin Settling \cup Waiting
         /\ q \in Waiting =>
              q.gen \in Gens /\ q.want \in Wants /\ q.seen \subseteq Gens \X {"STARTUP", "READY"}
  BY DEF Standing, Settling, Waiting, Idle

LEMMA InvInit == Init => IInv
<1> SUFFICES ASSUME Init PROVE IInv
  OBVIOUS
<1>1. Typed
  BY RegistryAssumption DEF Init, Typed, Slots, States, Entries, Procs, Children
<1>2. caller \in [Callers -> Standing] /\ \A c \in Callers : CallerSafe(c)
  <2>1. \A c \in Callers : caller[c] = Idle
    BY DEF Init
  <2>2. Idle \notin Settling \cup Waiting
    BY DEF Idle, Settling, Waiting
  <2> QED BY <2>1, <2>2 DEF Init, CallerSafe, Standing
<1>3. ASSUME NEW g \in Gens PROVE GenSafe(g)
  BY GenNat DEF Init, GenSafe, Fresh, Owns
<1> QED BY <1>1, <1>2, <1>3 DEF IInv

(* A slot that goes forward leaves what the callers have seen behind it. *)
LEMMA CallersKeep ==
  ASSUME IInv, Typed', Forward, NEW c \in Callers, caller'[c] = caller[c]
  PROVE  caller'[c] \in Standing /\ CallerSafe(c)'
<1>1. caller[c] \in Standing /\ CallerSafe(c)
  BY DEF IInv
<1>2. slot.gen \in Nat /\ slot'.gen \in Nat /\ slot.st \in States /\ slot'.st \in States
  BY RegistryAssumption DEF IInv, Typed, Slots
<1>3. slot.gen <= slot'.gen
  BY <1>2 DEF Forward
<1>4. slot'.gen = slot.gen /\ slot.st \in {"REAP", "EMPTY"} => slot'.st \in {"REAP", "EMPTY"}
  BY <1>2 DEF Forward, Rank, States
<1>5. caller[c] \in Settling \cup Waiting => caller[c].gen \in Nat
  BY <1>1, Standings, GenNat DEF Standing, Idle, Settling, Waiting
<1> QED BY <1>1, <1>2, <1>3, <1>4, <1>5 DEF CallerSafe

(* A step of one generation: it moves the slot only while the slot is its  *)
(* own, and touches no other generation.                                   *)
StepOf(g) ==
  /\ Forward
  /\ slot'.gen = slot.gen /\ (slot' = slot \/ slot.gen = g)
  /\ \A h \in Gens \ {g} : entry'[h] = entry[h] /\ proc'[h] = proc[h] /\ os'[h] = os[h]

LEMMA OthersKeep ==
  ASSUME IInv, Typed', NEW g \in Gens, StepOf(g), NEW h \in Gens, h # g
  PROVE  GenSafe(h)'
<1>1. GenSafe(h)
  BY DEF IInv
<1>2. entry'[h] = entry[h] /\ proc'[h] = proc[h] /\ os'[h] = os[h]
  BY DEF StepOf
<1> QED BY <1>1, <1>2 DEF StepOf, GenSafe, Fresh, Owns

LEMMA StepKeeps ==
  ASSUME IInv, Typed', NEW g \in Gens, StepOf(g), caller' = caller, GenSafe(g)'
  PROVE  IInv' /\ Forward
<1>1. \A h \in Gens : GenSafe(h)'
  BY OthersKeep
<1>2. \A c \in Callers : caller'[c] \in Standing /\ CallerSafe(c)'
  BY CallersKeep DEF StepOf
<1>3. caller' \in [Callers -> Standing]
  BY DEF IInv
<1> QED BY <1>1, <1>2, <1>3 DEF IInv, StepOf

-----------------------------------------------------------------------------
(* The effects of the helpers. *)

LEMMA CasReapEffect ==
  ASSUME NEW g \in Gens, slot \in Slots
  PROVE  /\ CasReap(g) \in Slots /\ CasReap(g).gen = slot.gen
         /\ CasReap(g) = slot \/ slot.gen = g
         /\ Rank[CasReap(g).st] >= Rank[slot.st]
         /\ CasReap(g).st = "EMPTY" <=> slot.st = "EMPTY"
         /\ ~Owns(CasReap(g), g, {"STARTUP", "READY"})
  BY DEF CasReap, Owns, Slots, States, Rank

LEMMA DrainingEffect ==
  ASSUME NEW p \in Procs
  PROVE  /\ Draining(p) \in Procs /\ Draining(p).state = "DRAINING"
         /\ Draining(p).exit = p.exit /\ Draining(p).stop = p.stop
  BY DEF Draining, Procs

LEMMA SettleEffect ==
  ASSUME entry \in [Gens -> Entries], NEW g \in Gens, NEW result \in {"ready", "failed"},
         Settle(g, result)
  PROVE  /\ entry' \in [Gens -> Entries] /\ entry'[g].stage = "over"
         /\ \A h \in Gens \ {g} : entry'[h] = entry[h]
  BY DEF Settle, Entries

(* A generation that is known to the slot. *)
LEMMA Issued ==
  ASSUME IInv, NEW g \in Gens,
         entry[g].stage # "none" \/ os[g] # "none" \/ proc[g].state # "none" \/ proc[g].exit
         \/ proc[g].stop # "no"
  PROVE  g <= slot.gen
<1>1. g \in Nat /\ slot.gen \in Nat
  BY GenNat, RegistryAssumption DEF IInv, Typed, Slots
<1>2. g > slot.gen => Fresh(g)
  BY DEF IInv, GenSafe
<1> QED BY <1>1, <1>2 DEF Fresh

LEMMA Later ==
  ASSUME IInv, NEW g \in Gens, g <= slot.gen, slot'.gen = slot.gen
  PROVE  ~ (g > slot'.gen)
  BY GenNat, RegistryAssumption DEF IInv, Typed, Slots

LEMMA FatalKeeps ==
  ASSUME IInv, NEW g \in Gens, g <= slot.gen, Fatal(g), UNCHANGED <<os, caller, dispose>>
  PROVE  IInv' /\ Forward
<1>1. /\ slot' = CasReap(g)
      /\ slot' \in Slots /\ slot'.gen = slot.gen /\ (slot' = slot \/ slot.gen = g)
      /\ Rank[slot'.st] >= Rank[slot.st] /\ (slot'.st = "EMPTY" <=> slot.st = "EMPTY")
      /\ ~Owns(slot', g, {"STARTUP", "READY"})
  BY CasReapEffect DEF Fatal, IInv, Typed
<1>2. /\ entry' \in [Gens -> Entries] /\ entry'[g].stage = "over"
      /\ \A h \in Gens \ {g} : entry'[h] = entry[h]
  BY SettleEffect DEF Fatal, IInv, Typed
<1>3. proc \in [Gens -> Procs] /\ proc[g] \in Procs /\ Draining(proc[g]) \in Procs
  BY DrainingEffect DEF IInv, Typed
<1>4. PICK k \in BOOLEAN : proc' = [proc EXCEPT ![g] = [Draining(proc[g]) EXCEPT !.killed = k]]
  BY <1>3 DEF Fatal, Owns, Procs
<1>5. /\ proc' \in [Gens -> Procs] /\ proc'[g].state = "DRAINING"
      /\ proc'[g].exit = proc[g].exit /\ proc'[g].stop = proc[g].stop
      /\ \A h \in Gens \ {g} : proc'[h] = proc[h]
  BY <1>3, <1>4, DrainingEffect DEF Procs
<1>6. Typed'
  BY <1>1, <1>2, <1>5 DEF IInv, Typed
<1>7. StepOf(g)
  BY <1>1, <1>2, <1>5 DEF StepOf, Forward
<1>8. GenSafe(g)'
  <2>1. GenSafe(g)
    BY DEF IInv
  <2>2. ~ (g > slot'.gen)
    BY <1>1, Later
  <2> QED BY <2>1, <2>2, <1>1, <1>2, <1>5 DEF GenSafe, Owns
<1> QED BY <1>6, <1>7, <1>8, StepKeeps

LEMMA ShutdownEffect ==
  ASSUME IInv, NEW g \in Gens, g <= slot.gen, Shutdown(g)
  PROVE  /\ slot' \in Slots /\ slot'.gen = slot.gen /\ (slot' = slot \/ slot.gen = g)
         /\ Rank[slot'.st] >= Rank[slot.st] /\ (slot'.st = "EMPTY" <=> slot.st = "EMPTY")
         /\ entry' \in [Gens -> Entries] /\ \A h \in Gens \ {g} : entry'[h] = entry[h]
         /\ proc' \in [Gens -> Procs] /\ \A h \in Gens \ {g} : proc'[h] = proc[h]
         /\ os' = os => GenSafe(g)'
         /\ Owns(slot, g, {"READY"}) /\ proc[g].exit = FALSE => slot'.st = "REAP"
<1> DEFINE Stops == proc[g].exit = FALSE /\ proc[g].stop = "no"
<1>0. /\ Typed /\ slot \in Slots /\ proc \in [Gens -> Procs] /\ proc[g] \in Procs
      /\ entry \in [Gens -> Entries] /\ GenSafe(g) /\ proc[g].exit \in BOOLEAN
  BY DEF IInv, Typed, Procs
<1>1. CASE ~Stops
  <2>1. slot' = slot /\ proc' = proc /\ entry' = entry
    BY <1>0, <1>1 DEF Shutdown
  <2>2. Owns(slot, g, {"READY"}) => proc[g].stop = "no"
    BY <1>0 DEF GenSafe, Owns
  <2>3. Rank[slot.st] \in Nat
    BY <1>0 DEF Rank, Slots, States
  <2> QED BY <1>0, <1>1, <2>1, <2>2, <2>3 DEF GenSafe, Fresh, Owns
<1>2. CASE Stops
  <2>1. /\ slot' = CasReap(g) /\ Settle(g, "failed")
        /\ proc' = [proc EXCEPT ![g] = [Draining(@) EXCEPT !.stop = IF Owns(slot', g, {"REAP"}) THEN "grace"
                                                                  ELSE "refused"]]
    BY <1>2 DEF Shutdown
  <2>2. /\ slot' \in Slots /\ slot'.gen = slot.gen /\ (slot' = slot \/ slot.gen = g)
        /\ Rank[slot'.st] >= Rank[slot.st] /\ (slot'.st = "EMPTY" <=> slot.st = "EMPTY")
        /\ ~Owns(slot', g, {"STARTUP", "READY"})
    BY <1>0, <2>1, CasReapEffect
  <2>3. /\ entry' \in [Gens -> Entries] /\ entry'[g].stage = "over"
        /\ \A h \in Gens \ {g} : entry'[h] = entry[h]
    BY <1>0, <2>1, SettleEffect
  <2>4. PICK k \in {"grace", "refused"} :
          proc' = [proc EXCEPT ![g] = [Draining(proc[g]) EXCEPT !.stop = k]]
    BY <1>0, <2>1
  <2>5. /\ proc' \in [Gens -> Procs] /\ proc'[g].state = "DRAINING"
        /\ proc'[g].exit = proc[g].exit
        /\ \A h \in Gens \ {g} : proc'[h] = proc[h]
    BY <1>0, <2>4, DrainingEffect DEF Procs
  <2>6. ~ (g > slot'.gen)
    BY <2>2, Later
  <2>7. os' = os => GenSafe(g)'
    BY <1>0, <2>2, <2>3, <2>5, <2>6 DEF GenSafe, Owns
  <2>8. Owns(slot, g, {"READY"}) => slot'.st = "REAP"
    BY <1>0, <2>1 DEF CasReap, Owns, Slots
  <2> QED BY <2>2, <2>3, <2>5, <2>7, <2>8
<1> QED BY <1>1, <1>2

LEMMA ShutdownKeeps ==
  ASSUME IInv, NEW g \in Gens, g <= slot.gen, Shutdown(g), UNCHANGED <<os, caller>>,
         dispose' \in {"no", "waiting", "done"}
  PROVE  IInv' /\ Forward
<1>1. Typed'
  BY ShutdownEffect DEF IInv, Typed
<1>2. StepOf(g)
  BY ShutdownEffect DEF StepOf, Forward
<1> QED BY <1>1, <1>2, ShutdownEffect, StepKeeps

LEMMA FailNoChildEffect ==
  ASSUME IInv, NEW g \in Gens, entry[g].stage = "boot", FailNoChild(g)
  PROVE  /\ slot' \in Slots /\ slot'.gen = slot.gen /\ slot.gen = g /\ slot'.st = "EMPTY" /\ Forward
         /\ entry' \in [Gens -> Entries] /\ entry'[g].stage = "over"
         /\ \A h \in Gens \ {g} : entry'[h] = entry[h]
<1>1. /\ slot \in Slots /\ entry \in [Gens -> Entries] /\ Owns(slot, g, {"STARTUP"})
  BY DEF IInv, Typed, GenSafe
<1>2. slot' = [slot EXCEPT !.st = "EMPTY"] /\ Settle(g, "failed")
  BY <1>1 DEF FailNoChild
<1>3. /\ slot' \in Slots /\ slot'.gen = slot.gen /\ slot.gen = g /\ slot'.st = "EMPTY" /\ Forward
  BY <1>1, <1>2 DEF Slots, States, Owns, Forward, Rank
<1> QED BY <1>1, <1>2, <1>3, SettleEffect

-----------------------------------------------------------------------------
(* Every action of a generation keeps the invariant. *)

LEMMA BootKeeps ==
  ASSUME IInv, NEW g \in Gens, Boot(g)
  PROVE  IInv' /\ Forward
<1>0. /\ Typed /\ GenSafe(g) /\ entry[g].stage = "boot" /\ os[g] = "none" /\ proc[g].exit = FALSE
      /\ Owns(slot, g, {"STARTUP"}) /\ proc \in [Gens -> Procs] /\ os \in [Gens -> Children]
      /\ caller' = caller /\ dispose' = dispose
  BY DEF IInv, Boot, GenSafe, Typed
<1>1. g <= slot.gen
  BY <1>0, Issued
<1>2. CASE FailNoChild(g) /\ os' = os
           /\ (proc' = proc \/ proc' = [proc EXCEPT ![g].state = "EXITED", ![g].exit = TRUE])
  <2>1. proc' \in [Gens -> Procs] /\ \A h \in Gens \ {g} : proc'[h] = proc[h]
    BY <1>0, <1>2 DEF Procs
  <2>2. Typed' /\ StepOf(g)
    BY <1>0, <1>2, <2>1, FailNoChildEffect DEF Typed, StepOf
  <2>3. ~ (g > slot'.gen)
    BY <1>0, <1>1, <1>2, FailNoChildEffect, Later
  <2>4. GenSafe(g)'
    BY <1>0, <1>2, <2>3, FailNoChildEffect DEF GenSafe, Owns
  <2> QED BY <1>0, <2>2, <2>4, StepKeeps
<1>3. ASSUME entry' = [entry EXCEPT ![g].stage = "spawned"],
             proc' = [proc EXCEPT ![g].state = "INITIALIZING"],
             NEW kind \in {"running", "nopid"}, os' = [os EXCEPT ![g] = kind],
             slot' = slot
      PROVE  IInv' /\ Forward
  <2>1. /\ entry' \in [Gens -> Entries] /\ \A h \in Gens \ {g} : entry'[h] = entry[h]
        /\ entry'[g].stage = "spawned" /\ entry'[g].result = entry[g].result
    BY <1>0, <1>3 DEF Typed, Entries
  <2>2. /\ proc' \in [Gens -> Procs] /\ \A h \in Gens \ {g} : proc'[h] = proc[h]
        /\ proc'[g].state = "INITIALIZING" /\ proc'[g].exit = proc[g].exit
        /\ proc'[g].stop = proc[g].stop
    BY <1>0, <1>3 DEF Procs
  <2>3. /\ os' \in [Gens -> Children] /\ os'[g] = kind /\ \A h \in Gens \ {g} : os'[h] = os[h]
    BY <1>0, <1>3 DEF Children
  <2>4. Forward
    BY <1>0, <1>3 DEF Forward, Typed, Slots, States, Rank
  <2>5. Typed' /\ StepOf(g)
    BY <1>0, <1>3, <2>1, <2>2, <2>3, <2>4 DEF Typed, StepOf
  <2>6. ~ (g > slot'.gen)
    BY <1>1, <1>3, Later
  <2>7. GenSafe(g)'
    BY <1>0, <1>3, <2>1, <2>2, <2>3, <2>6 DEF GenSafe, Owns
  <2> QED BY <1>0, <2>5, <2>7, StepKeeps
<1> QED BY <1>2, <1>3 DEF Boot

LEMMA InitializedKeeps ==
  ASSUME IInv, NEW g \in Gens, Initialized(g)
  PROVE  IInv' /\ Forward
<1>0. /\ Typed /\ GenSafe(g) /\ proc \in [Gens -> Procs] /\ os[g] = "running"
      /\ slot \in Slots /\ os' = os /\ caller' = caller /\ dispose' = dispose
  BY DEF IInv, Initialized, GenSafe, Typed
<1>1. g <= slot.gen
  BY <1>0, Issued
<1>2. CASE ~Owns(slot, g, {"STARTUP"})
  BY <1>0, <1>1, <1>2, FatalKeeps DEF Initialized
<1>3. CASE Owns(slot, g, {"STARTUP"})
  <2>1. /\ slot' = [slot EXCEPT !.st = "READY"] /\ Settle(g, "ready")
        /\ proc' = [proc EXCEPT ![g].state = "READY"]
    BY <1>3 DEF Initialized
  <2>2. /\ slot' \in Slots /\ slot'.gen = slot.gen /\ slot'.st = "READY" /\ Forward /\ slot.gen = g
    BY <1>0, <1>3, <2>1 DEF Slots, States, Owns, Forward, Rank
  <2>3. /\ proc' \in [Gens -> Procs] /\ proc'[g].state = "READY" /\ proc'[g].exit = proc[g].exit
        /\ proc'[g].stop = proc[g].stop /\ \A h \in Gens \ {g} : proc'[h] = proc[h]
    BY <1>0, <2>1 DEF Procs
  <2>4. /\ entry' \in [Gens -> Entries] /\ entry'[g].stage = "over"
        /\ \A h \in Gens \ {g} : entry'[h] = entry[h]
    BY <1>0, <2>1, SettleEffect DEF Typed
  <2>5. Typed' /\ StepOf(g)
    BY <1>0, <2>2, <2>3, <2>4 DEF Typed, StepOf
  <2>6. ~ (g > slot'.gen)
    BY <1>1, <2>2, Later
  <2>7. GenSafe(g)'
    BY <1>0, <1>3, <2>2, <2>3, <2>4, <2>6 DEF GenSafe, Owns
  <2> QED BY <1>0, <2>5, <2>7, StepKeeps
<1> QED BY <1>2, <1>3

LEMMA ProcessFailsKeeps ==
  ASSUME IInv, NEW g \in Gens, ProcessFails(g)
  PROVE  IInv' /\ Forward
<1>1. g <= slot.gen
  BY Issued DEF ProcessFails
<1> QED BY <1>1, FatalKeeps DEF ProcessFails

LEMMA NoChildKeeps ==
  ASSUME IInv, NEW g \in Gens, NoChild(g)
  PROVE  IInv' /\ Forward
<1>0. /\ Typed /\ GenSafe(g) /\ proc \in [Gens -> Procs] /\ os[g] = "nopid"
      /\ slot \in Slots /\ os \in [Gens -> Children] /\ caller' = caller /\ dispose' = dispose
  BY DEF IInv, NoChild, GenSafe, Typed
<1>1. g <= slot.gen
  BY <1>0, Issued
<1>2. /\ slot' \in Slots /\ slot'.gen = slot.gen /\ (slot' = slot \/ slot.gen = g) /\ Forward
      /\ ~Owns(slot', g, {"STARTUP", "READY"})
  BY <1>0 DEF NoChild, Slots, States, Owns, Forward, Rank
<1>3. /\ proc' \in [Gens -> Procs] /\ \A h \in Gens \ {g} : proc'[h] = proc[h]
  <2>1. proc' = [proc EXCEPT ![g].state = "EXITED", ![g].exit = TRUE]
    BY DEF NoChild
  <2>2. [proc[g] EXCEPT !.state = "EXITED", !.exit = TRUE] \in Procs
    BY <1>0 DEF Procs
  <2>3. proc' = [proc EXCEPT ![g] = [proc[g] EXCEPT !.state = "EXITED", !.exit = TRUE]]
    BY <1>0, <2>1
  <2> QED BY <1>0, <2>2, <2>3
<1>4. /\ os' \in [Gens -> Children] /\ os'[g] = "gone" /\ \A h \in Gens \ {g} : os'[h] = os[h]
  BY <1>0 DEF NoChild, Children
<1>5. /\ entry' \in [Gens -> Entries] /\ entry'[g].stage = "over"
      /\ \A h \in Gens \ {g} : entry'[h] = entry[h]
  BY <1>0, SettleEffect DEF NoChild, Typed
<1>6. slot'.st # "EMPTY" => slot'.gen \in Gens
  BY <1>0, <1>2 DEF NoChild, Owns, Typed
<1>7. Typed' /\ StepOf(g)
  BY <1>0, <1>2, <1>3, <1>4, <1>5, <1>6 DEF Typed, StepOf
<1>8. ~ (g > slot'.gen)
  BY <1>1, <1>2, Later
<1>9. GenSafe(g)'
  BY <1>2, <1>4, <1>5, <1>8 DEF GenSafe, Owns
<1> QED BY <1>0, <1>7, <1>9, StepKeeps

LEMMA RetireKeeps ==
  ASSUME IInv, NEW g \in Gens, Retire(g)
  PROVE  IInv' /\ Forward
<1>1. g <= slot.gen
  BY Issued DEF Retire
<1> QED BY <1>1, ShutdownKeeps DEF Retire, IInv, Typed

(* A step that leaves the slot alone stands still. *)
LEMMA StandsStill == ASSUME Typed, slot' = slot PROVE Forward
  BY RegistryAssumption DEF Forward, Typed, Slots, States, Rank

(* Only the grace, the kill, the turn and the transport of a process. *)
LEMMA ProcessOnly ==
  ASSUME IInv, NEW g \in Gens, slot' = slot, entry' = entry, os' = os, dispose' = dispose,
         NEW p \in Procs, proc' = [proc EXCEPT ![g] = p],
         p.state = proc[g].state, p.exit = proc[g].exit,
         p.stop = proc[g].stop \/ proc[g].stop = "grace"
  PROVE  Typed' /\ StepOf(g) /\ GenSafe(g)'
<1>0. Typed /\ GenSafe(g) /\ proc \in [Gens -> Procs]
  BY DEF IInv, Typed
<1>1. /\ proc' \in [Gens -> Procs] /\ proc'[g] = p /\ \A h \in Gens \ {g} : proc'[h] = proc[h]
  BY <1>0
<1>2. Typed' /\ StepOf(g)
  BY <1>0, <1>1, StandsStill DEF Typed, StepOf
<1>3. GenSafe(g)'
  BY <1>0, <1>1 DEF GenSafe, Fresh, Owns
<1> QED BY <1>2, <1>3

LEMMA GraceExpiresKeeps ==
  ASSUME IInv, NEW g \in Gens, GraceExpires(g)
  PROVE  IInv' /\ Forward
<1>1. proc \in [Gens -> Procs] /\ proc[g] \in Procs
  BY DEF IInv, Typed
<1>2. PICK k \in BOOLEAN : proc' = [proc EXCEPT ![g] = [proc[g] EXCEPT !.stop = "wait", !.killed = k]]
  <2>1. proc' = [proc EXCEPT ![g] = [proc[g] EXCEPT !.stop = "wait",
                                     !.killed = proc[g].killed \/ Owns(slot, g, {"REAP"})]]
    BY <1>1 DEF GraceExpires
  <2>2. (proc[g].killed \/ Owns(slot, g, {"REAP"})) \in BOOLEAN
    BY <1>1 DEF Procs, Owns
  <2> QED BY <2>1, <2>2
<1>3. PICK p \in Procs : p = [proc[g] EXCEPT !.stop = "wait", !.killed = k]
  BY <1>1 DEF Procs
<1>4. p.state = proc[g].state /\ p.exit = proc[g].exit
  BY <1>1, <1>3 DEF Procs
<1>5. Typed' /\ StepOf(g) /\ GenSafe(g)'
  BY <1>2, <1>3, <1>4, ProcessOnly DEF GraceExpires
<1> QED BY <1>5, StepKeeps DEF GraceExpires

LEMMA TurnEndsKeeps ==
  ASSUME IInv, NEW g \in Gens, TurnEnds(g)
  PROVE  IInv' /\ Forward
<1>1. proc \in [Gens -> Procs] /\ proc[g] \in Procs
  BY DEF IInv, Typed
<1>2. PICK t \in {"none", "unknown"}, f \in BOOLEAN :
        proc' = [proc EXCEPT ![g] = [proc[g] EXCEPT !.turn = t, !.failed = f]]
  <2>1. ASSUME NEW failed \in BOOLEAN,
               proc' = [proc EXCEPT ![g].turn = "none", ![g].failed = @ \/ failed]
        PROVE  \E t \in {"none", "unknown"}, f \in BOOLEAN :
                 proc' = [proc EXCEPT ![g] = [proc[g] EXCEPT !.turn = t, !.failed = f]]
    <3>1. proc' = [proc EXCEPT ![g] = [proc[g] EXCEPT !.turn = "none",
                                                    !.failed = proc[g].failed \/ failed]]
      BY <1>1, <2>1
    <3>2. (proc[g].failed \/ failed) \in BOOLEAN
      BY <1>1 DEF Procs
    <3> QED BY <3>1, <3>2
  <2>2. ASSUME proc' = [proc EXCEPT ![g].turn = "unknown"]
        PROVE  \E t \in {"none", "unknown"}, f \in BOOLEAN :
                 proc' = [proc EXCEPT ![g] = [proc[g] EXCEPT !.turn = t, !.failed = f]]
    <3>1. proc' = [proc EXCEPT ![g] = [proc[g] EXCEPT !.turn = "unknown",
                                                    !.failed = proc[g].failed]]
      BY <1>1, <2>2 DEF Procs
    <3>2. proc[g].failed \in BOOLEAN
      BY <1>1 DEF Procs
    <3> QED BY <3>1, <3>2
  <2> QED BY <2>1, <2>2 DEF TurnEnds
<1>3. PICK p \in Procs : p = [proc[g] EXCEPT !.turn = t, !.failed = f]
  BY <1>1 DEF Procs
<1>4. p.state = proc[g].state /\ p.exit = proc[g].exit /\ p.stop = proc[g].stop
  BY <1>1, <1>3 DEF Procs
<1>5. Typed' /\ StepOf(g) /\ GenSafe(g)'
  BY <1>2, <1>3, <1>4, ProcessOnly DEF TurnEnds
<1> QED BY <1>5, StepKeeps DEF TurnEnds

(* The child ends, and is collected: nothing of the registry moves. *)
LEMMA ChildMoves ==
  ASSUME IInv, NEW g \in Gens, NEW k \in Children, os[g] # "none", k \notin {"none", "running"},
         os' = [os EXCEPT ![g] = k], UNCHANGED <<slot, entry, proc, caller, dispose>>
  PROVE  IInv' /\ Forward
<1>0. Typed /\ GenSafe(g) /\ os \in [Gens -> Children]
  BY DEF IInv, Typed
<1>1. /\ os' \in [Gens -> Children] /\ os'[g] = k /\ \A h \in Gens \ {g} : os'[h] = os[h]
  BY <1>0
<1>2. Typed' /\ StepOf(g)
  BY <1>0, <1>1, StandsStill DEF Typed, StepOf
<1>3. ~ (g > slot'.gen)
  BY Issued, Later
<1>4. GenSafe(g)'
  BY <1>0, <1>1, <1>3 DEF GenSafe, Owns
<1> QED BY <1>2, <1>4, StepKeeps

LEMMA ChildEndsKeeps == ASSUME IInv, NEW g \in Gens, ChildEnds(g) PROVE IInv' /\ Forward
  BY ChildMoves DEF ChildEnds, Children

LEMMA CollectedKeeps == ASSUME IInv, NEW g \in Gens, Collected(g) PROVE IInv' /\ Forward
  BY ChildMoves DEF Collected, Children

LEMMA ChildExitKeeps ==
  ASSUME IInv, NEW g \in Gens, ChildExit(g)
  PROVE  IInv' /\ Forward
<1> DEFINE s == IF proc[g].state = "DRAINING" THEN slot ELSE CasReap(g)
           cleaned == Owns(s, g, {"REAP"})
           p == IF cleaned THEN [proc[g] EXCEPT !.state = "EXITED", !.exit = TRUE, !.turn = "none"]
                ELSE [Draining(proc[g]) EXCEPT !.exit = TRUE, !.blocked = TRUE]
<1>0. /\ Typed /\ GenSafe(g) /\ proc \in [Gens -> Procs] /\ proc[g] \in Procs /\ os[g] # "none"
      /\ slot \in Slots /\ os \in [Gens -> Children] /\ entry \in [Gens -> Entries]
      /\ caller' = caller /\ dispose' = dispose
  BY DEF IInv, ChildExit, Typed
<1>1. g <= slot.gen
  BY <1>0, Issued
<1>2. /\ slot' = (IF cleaned THEN [s EXCEPT !.st = "EMPTY"] ELSE s)
      /\ proc' = [proc EXCEPT ![g] = p]
      /\ os' = [os EXCEPT ![g] = "gone"] /\ Settle(g, "failed")
  BY <1>0 DEF ChildExit
<1>3. /\ s \in Slots /\ s.gen = slot.gen /\ (s = slot \/ slot.gen = g)
      /\ Rank[s.st] >= Rank[slot.st] /\ (s.st = "EMPTY" <=> slot.st = "EMPTY")
      /\ ~Owns(s, g, {"STARTUP", "READY"})
  <2>1. CASE proc[g].state = "DRAINING"
    <3>1. ~Owns(slot, g, {"STARTUP", "READY"})
      BY <1>0, <2>1 DEF GenSafe
    <3>2. Rank[slot.st] \in Nat
      BY <1>0 DEF Rank, Slots, States
    <3> QED BY <1>0, <2>1, <3>1, <3>2
  <2>2. CASE proc[g].state # "DRAINING"
    BY <1>0, <2>2, CasReapEffect
  <2> QED BY <2>1, <2>2
<1>4. /\ slot' \in Slots /\ slot'.gen = slot.gen /\ (slot' = slot \/ slot.gen = g) /\ Forward
      /\ ~Owns(slot', g, {"STARTUP", "READY"}) /\ (slot'.st # "EMPTY" => slot.st # "EMPTY")
  <2> HIDE DEF s
  <2>1. CASE cleaned
    BY <1>0, <1>2, <1>3, <2>1 DEF Slots, States, Owns, Forward, Rank
  <2>2. CASE ~cleaned
    BY <1>0, <1>2, <1>3, <2>2 DEF Forward
  <2> QED BY <2>1, <2>2
<1>5. p \in Procs
  <2>1. [proc[g] EXCEPT !.state = "EXITED", !.exit = TRUE, !.turn = "none"] \in Procs
    BY <1>0 DEF Procs
  <2>2. [Draining(proc[g]) EXCEPT !.exit = TRUE, !.blocked = TRUE] \in Procs
    BY <1>0, DrainingEffect DEF Procs
  <2> HIDE DEF cleaned
  <2> QED BY <2>1, <2>2
<1>6. /\ proc' \in [Gens -> Procs] /\ \A h \in Gens \ {g} : proc'[h] = proc[h]
  <2> HIDE DEF p
  <2> QED BY <1>0, <1>2, <1>5
<1>7. /\ os' \in [Gens -> Children] /\ os'[g] = "gone" /\ \A h \in Gens \ {g} : os'[h] = os[h]
  BY <1>0, <1>2 DEF Children
<1>8. /\ entry' \in [Gens -> Entries] /\ entry'[g].stage = "over"
      /\ \A h \in Gens \ {g} : entry'[h] = entry[h]
  BY <1>0, <1>2, SettleEffect
<1>9. Typed' /\ StepOf(g)
  BY <1>0, <1>4, <1>6, <1>7, <1>8 DEF Typed, StepOf
<1>10. ~ (g > slot'.gen)
  BY <1>1, <1>4, Later
<1>11. GenSafe(g)'
  BY <1>4, <1>7, <1>8, <1>10 DEF GenSafe, Owns
<1> QED BY <1>0, <1>9, <1>11, StepKeeps

LEMMA DisposeKeeps == ASSUME IInv, Dispose PROVE IInv' /\ Forward
<1>0. /\ Typed /\ dispose' = "waiting" /\ os' = os /\ caller' = caller
      /\ slot.st # "EMPTY" => slot.gen \in Gens
  BY DEF IInv, Dispose, Typed
<1>1. slot.gen \in Nat /\ slot.gen <= slot.gen
  BY <1>0, RegistryAssumption DEF Typed, Slots
<1>2. CASE UNCHANGED <<slot, proc, entry>>
  <2>1. Typed'
    BY <1>0, <1>2 DEF Typed
  <2>2. Forward
    BY <1>0, <1>2, StandsStill
  <2>3. \A h \in Gens : GenSafe(h)'
    BY <1>0, <1>2 DEF IInv, GenSafe, Fresh, Owns
  <2>4. \A c \in Callers : CallerSafe(c)'
    BY <1>0, <2>1, <2>2, CallersKeep
  <2> QED BY <1>0, <2>1, <2>2, <2>3, <2>4 DEF IInv
<1>3. CASE slot.st = "STARTUP" /\ entry[slot.gen].stage = "boot" /\ FailNoChild(slot.gen) /\ proc' = proc
  <2>0. PICK g \in Gens : g = slot.gen /\ GenSafe(g)
    BY <1>0, <1>3 DEF IInv
  <2>1. Typed' /\ StepOf(g)
    BY <1>0, <1>3, <2>0, FailNoChildEffect DEF Typed, StepOf
  <2>2. ~ (g > slot'.gen)
    BY <1>1, <1>3, <2>0, FailNoChildEffect, Later
  <2>3. GenSafe(g)'
    BY <1>0, <1>3, <2>0, <2>2, FailNoChildEffect DEF GenSafe, Owns
  <2> QED BY <1>0, <2>0, <2>1, <2>3, StepKeeps
<1>4. CASE slot.st # "EMPTY" /\ Shutdown(slot.gen)
  BY <1>0, <1>1, <1>4, ShutdownKeeps
<1> QED BY <1>2, <1>3, <1>4 DEF Dispose

LEMMA DisposedKeeps == ASSUME IInv, Disposed PROVE IInv' /\ Forward
<1>1. UNCHANGED <<slot, entry, proc, os, caller>> /\ dispose' = "done" /\ Typed
  BY DEF Disposed, IInv
<1>2. Typed' /\ Forward
  BY <1>1, StandsStill DEF Typed
<1>3. \A h \in Gens : GenSafe(h)'
  BY <1>1 DEF IInv, GenSafe, Fresh, Owns
<1>4. \A c \in Callers : CallerSafe(c)'
  BY <1>1, <1>2, CallersKeep
<1> QED BY <1>1, <1>2, <1>3, <1>4 DEF IInv

-----------------------------------------------------------------------------
(* The actions of a caller. *)

(* A caller that moves, with the slot going forward. *)
LEMMA CallerMoves ==
  ASSUME IInv, Typed', Forward, \A h \in Gens : GenSafe(h)', NEW c \in Callers,
         NEW q \in Standing, caller' = [caller EXCEPT ![c] = q], CallerSafe(c)'
  PROVE  IInv' /\ Forward
<1>1. caller' \in [Callers -> Standing] /\ \A b \in Callers \ {c} : caller'[b] = caller[b]
  BY DEF IInv
<1>2. \A b \in Callers : CallerSafe(b)'
  BY <1>1, CallersKeep
<1> QED BY <1>1, <1>2 DEF IInv

(* A caller that goes away, or gets a process or a startup to wait for. *)
LEMMA CallerLeaves ==
  ASSUME IInv, Typed', Forward, \A h \in Gens : GenSafe(h)', NEW c \in Callers,
         NEW q, q = Idle \/ (q \in Settling /\ q.gen <= slot'.gen),
         caller' = [caller EXCEPT ![c] = q]
  PROVE  IInv' /\ Forward
<1>1. q \in Standing /\ caller'[c] = q
  BY DEF IInv, Standing
<1>2. q \notin Waiting /\ Idle \notin Settling
  BY DEF Idle, Settling, Waiting
<1>3. CallerSafe(c)'
  BY <1>1, <1>2, Standings DEF CallerSafe
<1> QED BY <1>1, <1>3, CallerMoves

LEMMA TurnBeginsKeeps == ASSUME IInv, NEW c \in Callers, TurnBegins(c) PROVE IInv' /\ Forward
<1> DEFINE g == caller[c].gen
<1>0. /\ Typed /\ UNCHANGED <<slot, entry, os, dispose>> /\ caller' = [caller EXCEPT ![c] = Idle]
      /\ proc \in [Gens -> Procs] /\ caller[c] \in Standing /\ caller[c].pc = "holds"
  BY DEF IInv, TurnBegins, Typed
<1>1. g \in Gens
  BY <1>0, Standings
<1>2. proc' = proc \/ proc' = [proc EXCEPT ![g] = [proc[g] EXCEPT !.turn = "busy"]]
  BY <1>0, <1>1 DEF TurnBegins
<1>3. /\ proc' \in [Gens -> Procs]
      /\ \A h \in Gens : /\ proc'[h].state = proc[h].state /\ proc'[h].exit = proc[h].exit
                         /\ proc'[h].stop = proc[h].stop
  BY <1>0, <1>1, <1>2 DEF Procs
<1>4. Typed' /\ Forward
  BY <1>0, <1>3, StandsStill DEF Typed
<1>5. \A h \in Gens : GenSafe(h)'
  BY <1>0, <1>3 DEF IInv, GenSafe, Fresh, Owns
<1> QED BY <1>0, <1>4, <1>5, CallerLeaves

(* installStartupSlot keeps the invariant: no child is left behind. *)
LEMMA InstallKeeps ==
  ASSUME IInv, NEW c \in Callers, NEW want \in Wants, Install(c, want),
         slot.st = "EMPTY" \/ (slot.st = "READY" /\ DeathEvidence(slot.gen)),
         UNCHANGED <<proc, os, dispose>>
  PROVE  IInv' /\ Forward
<1>0. /\ Typed /\ slot \in Slots /\ slot.gen \in Nat /\ entry \in [Gens -> Entries]
      /\ \A h \in Gens : GenSafe(h)
  BY RegistryAssumption DEF IInv, Typed, Slots
<1>1. PICK g \in Nat : g = slot.gen + 1
  BY <1>0
<1>2. ASSUME NEW h \in Gens PROVE os[h] # "running" /\ entry[h].stage # "boot"
  BY <1>0 DEF GenSafe, DeathEvidence, Owns
<1>3. CASE g > MaxGens
  <2>1. slot' = [slot EXCEPT !.st = "EMPTY"] /\ entry' = entry /\ caller' = [caller EXCEPT ![c] = Idle]
    BY <1>1, <1>3 DEF Install
  <2>2. slot' \in Slots /\ slot'.gen = slot.gen /\ slot'.st = "EMPTY" /\ Forward
    BY <1>0, <2>1 DEF Slots, States, Forward, Rank
  <2>3. Typed'
    BY <1>0, <2>1, <2>2 DEF Typed
  <2>4. \A h \in Gens : GenSafe(h)'
    BY <1>0, <1>2, <2>1, <2>2 DEF GenSafe, Fresh, Owns
  <2> QED BY <2>1, <2>2, <2>3, <2>4, CallerLeaves
<1>4. CASE g <= MaxGens
  <2>1. /\ slot' = [st |-> "STARTUP", gen |-> g]
        /\ entry' = [entry EXCEPT ![g].stage = "boot",
                                  ![g].route = IF want = Plain THEN Default ELSE want]
        /\ caller' = [caller EXCEPT ![c] = [pc |-> "result", gen |-> g]]
    BY <1>0, <1>1, <1>4, RegistryAssumption DEF Install
  <2>2. g \in Gens /\ g \in Nat
    BY <1>0, <1>1, <1>4, RegistryAssumption DEF Gens
  <2>3. slot' \in Slots /\ slot'.gen = g /\ slot'.st = "STARTUP" /\ Forward
    BY <1>0, <1>1, <1>4, <2>1, <2>2, RegistryAssumption DEF Slots, States, Forward
  <2>4. PICK r \in Routes : r = IF want = Plain THEN Default ELSE want
    BY RegistryAssumption DEF Wants
  <2>5. PICK e \in Entries : e = [entry[g] EXCEPT !.stage = "boot", !.route = r]
    BY <1>0, <2>2 DEF Entries
  <2>6. entry' = [entry EXCEPT ![g] = e]
    BY <1>0, <2>1, <2>2, <2>4, <2>5
  <2>7. /\ entry' \in [Gens -> Entries] /\ entry'[g].stage = "boot"
        /\ entry'[g].result = entry[g].result /\ \A h \in Gens \ {g} : entry'[h] = entry[h]
    BY <1>0, <2>2, <2>5, <2>6 DEF Entries
  <2>8. Typed'
    BY <1>0, <2>2, <2>3, <2>7 DEF Typed
  <2>9. Fresh(g)
    BY <1>0, <1>1, <2>2 DEF GenSafe
  <2>10. GenSafe(g)'
    BY <2>2, <2>3, <2>7, <2>9 DEF GenSafe, Fresh, Owns
  <2>11. ASSUME NEW h \in Gens \ {g} PROVE GenSafe(h)'
    <3>1. h > slot'.gen => h > slot.gen
      BY <1>0, <1>1, <2>3, GenNat
    <3> QED BY <1>0, <1>1, <1>2, <2>3, <2>7, <3>1 DEF GenSafe, Fresh, Owns
  <2>12. PICK q \in Settling : q = [pc |-> "result", gen |-> g]
    BY <2>2 DEF Settling
  <2>13. q.gen <= slot'.gen
    BY <2>2, <2>3, <2>12
  <2> QED BY <2>1, <2>3, <2>8, <2>10, <2>11, <2>12, <2>13, CallerLeaves
<1> QED BY <1>0, <1>3, <1>4, RegistryAssumption

(* What a caller may have seen when it looks at the slot. *)
LooksAt(seen) ==
  /\ seen \subseteq Gens \X {"STARTUP", "READY"}
  /\ <<slot.gen, slot.st>> \notin seen
  /\ \A p \in seen : p[1] <= slot.gen
  /\ slot.st = "STARTUP" => \A p \in seen : p[1] < slot.gen

(* Looking at the slot and waiting for it. *)
LEMMA WaitKeeps ==
  ASSUME IInv, Typed', Forward, \A h \in Gens : GenSafe(h)', slot.gen \in Gens,
         slot'.gen = slot.gen, slot.st \in {"STARTUP", "READY"},
         NEW c \in Callers, NEW want \in Wants, NEW seen, LooksAt(seen),
         NEW pc \in {"result", "startup", "shutdown"},
         pc = "startup" => slot.st = "STARTUP",
         pc = "shutdown" => slot'.st \in {"REAP", "EMPTY"},
         caller' = [caller EXCEPT ![c] = [pc |-> pc, gen |-> slot.gen, want |-> want,
                                          seen |-> seen \cup {<<slot.gen, slot.st>>}]]
  PROVE  IInv' /\ Forward
<1>1. PICK g \in Gens : g = slot.gen
  OBVIOUS
<1>2. g \in Nat
  BY <1>1, GenNat
<1>3. PICK visited : visited = seen \cup {<<g, slot.st>>}
  OBVIOUS
<1>4. visited \subseteq Gens \X {"STARTUP", "READY"} /\ \A p \in visited : p[1] <= g
  BY <1>1, <1>2, <1>3 DEF LooksAt
<1>5. slot.st = "STARTUP" => \A p \in visited : p[1] < g \/ p = <<g, "STARTUP">>
  BY <1>1, <1>3 DEF LooksAt
<1>6. PICK q \in Waiting : q = [pc |-> pc, gen |-> g, want |-> want, seen |-> visited]
  BY <1>4 DEF Waiting
<1>7. q.pc = pc /\ q.gen = g /\ q.seen = visited /\ q \in Standing
  BY <1>6 DEF Standing
<1>8. caller'[c] = q /\ caller' = [caller EXCEPT ![c] = q]
  BY <1>1, <1>3, <1>6 DEF IInv
<1>9. CallerSafe(c)'
  BY <1>1, <1>2, <1>4, <1>5, <1>7, <1>8 DEF CallerSafe
<1> QED BY <1>7, <1>8, <1>9, CallerMoves

(* The status of a caller that waits with what it has seen. *)
Waits(pc, want, seen) ==
  [pc |-> pc, gen |-> slot.gen, want |-> want, seen |-> seen \cup {<<slot.gen, slot.st>>}]

LEMMA ResolveCases ==
  ASSUME NEW c, NEW want, NEW seen, <<slot.gen, slot.st>> \notin seen, Resolve(c, want, seen)
  PROVE  \/ /\ slot.st = "EMPTY" \/ (slot.st = "READY" /\ DeathEvidence(slot.gen))
            /\ Install(c, want) /\ proc' = proc
         \/ /\ slot.st = "READY" /\ ~DeathEvidence(slot.gen) /\ Shutdown(slot.gen)
            /\ caller' = [caller EXCEPT ![c] = Waits("shutdown", want, seen)]
         \/ /\ UNCHANGED <<slot, proc, entry>>
            /\ \/ caller' = [caller EXCEPT ![c] = Idle]
               \/ /\ slot.st = "READY"
                  /\ caller' = [caller EXCEPT ![c] = [pc |-> "holds", gen |-> slot.gen]]
               \/ /\ slot.st = "STARTUP"
                  /\ \E pc \in {"result", "startup"} :
                       caller' = [caller EXCEPT ![c] = Waits(pc, want, seen)]
  BY DEF Resolve, Waits

LEMMA ResolveKeeps ==
  ASSUME IInv, NEW c \in Callers, NEW want \in Wants, NEW seen, LooksAt(seen),
         Resolve(c, want, seen), os' = os, dispose' = dispose
  PROVE  IInv' /\ Forward
<1>0. /\ Typed /\ slot \in Slots /\ (slot.st # "EMPTY" => slot.gen \in Gens)
      /\ <<slot.gen, slot.st>> \notin seen /\ slot.gen \in Nat /\ proc \in [Gens -> Procs]
  BY RegistryAssumption DEF IInv, Typed, LooksAt, Slots
<1>1. CASE /\ UNCHANGED <<slot, proc, entry>>
           /\ \/ caller' = [caller EXCEPT ![c] = Idle]
              \/ /\ slot.st = "READY"
                 /\ caller' = [caller EXCEPT ![c] = [pc |-> "holds", gen |-> slot.gen]]
              \/ /\ slot.st = "STARTUP"
                 /\ \E pc \in {"result", "startup"} :
                      caller' = [caller EXCEPT ![c] = Waits(pc, want, seen)]
  <2>1. Typed' /\ Forward
    BY <1>0, <1>1, StandsStill DEF Typed
  <2>2. \A h \in Gens : GenSafe(h)'
    BY <1>1 DEF IInv, GenSafe, Fresh, Owns
  <2>3. CASE caller' = [caller EXCEPT ![c] = Idle]
    BY <2>1, <2>2, <2>3, CallerLeaves
  <2>4. CASE /\ slot.st = "READY"
             /\ caller' = [caller EXCEPT ![c] = [pc |-> "holds", gen |-> slot.gen]]
    <3>1. PICK q \in Settling : q = [pc |-> "holds", gen |-> slot.gen]
      BY <1>0, <2>4 DEF Settling
    <3>2. q.gen <= slot'.gen
      BY <1>0, <1>1, <3>1
    <3> QED BY <2>1, <2>2, <2>4, <3>1, <3>2, CallerLeaves
  <2>5. ASSUME slot.st = "STARTUP", NEW pc \in {"result", "startup"},
               caller' = [caller EXCEPT ![c] = Waits(pc, want, seen)]
        PROVE  IInv' /\ Forward
    BY <1>0, <1>1, <2>1, <2>2, <2>5, WaitKeeps DEF Waits
  <2> QED BY <1>1, <2>3, <2>4, <2>5
<1>2. CASE Install(c, want) /\ proc' = proc
           /\ (slot.st = "EMPTY" \/ (slot.st = "READY" /\ DeathEvidence(slot.gen)))
  BY <1>2, InstallKeeps
<1>3. CASE /\ slot.st = "READY" /\ ~DeathEvidence(slot.gen) /\ Shutdown(slot.gen)
           /\ caller' = [caller EXCEPT ![c] = Waits("shutdown", want, seen)]
  <2>1. PICK g \in Gens : g = slot.gen
    BY <1>0, <1>3
  <2>2. g <= slot.gen /\ proc[g].exit = FALSE /\ Shutdown(g) /\ Owns(slot, g, {"READY"})
    BY <1>0, <1>3, <2>1 DEF DeathEvidence, Procs, Owns
  <2>3. /\ slot' \in Slots /\ slot'.gen = slot.gen /\ slot'.st = "REAP" /\ Forward
        /\ entry' \in [Gens -> Entries] /\ proc' \in [Gens -> Procs] /\ GenSafe(g)'
        /\ StepOf(g)
    BY <2>2, ShutdownEffect DEF StepOf, Forward
  <2>4. Typed'
    BY <1>0, <2>1, <2>3 DEF Typed
  <2>5. \A h \in Gens : GenSafe(h)'
    BY <2>3, <2>4, OthersKeep
  <2> QED BY <1>0, <1>3, <2>1, <2>3, <2>4, <2>5, WaitKeeps DEF Waits
<1> QED BY <1>0, <1>1, <1>2, <1>3, ResolveCases

LEMMA RequestKeeps == ASSUME IInv, NEW c \in Callers, Request(c) PROVE IInv' /\ Forward
<1>1. PICK want \in Wants : Resolve(c, want, {})
  BY DEF Request, Wants
<1>2. LooksAt({})
  BY DEF LooksAt
<1> QED BY <1>1, <1>2, ResolveKeeps DEF Request

(* A caller that goes on finds everything it has seen behind it. *)
LEMMA ResumesBehind ==
  ASSUME IInv, NEW c \in Callers, Resumes(c), caller[c].pc # "result"
  PROVE  caller[c] \in Waiting /\ LooksAt(caller[c].seen)
<1> DEFINE q == caller[c]
<1>1. /\ q \in Standing /\ CallerSafe(c) /\ slot \in Slots /\ slot.gen \in Nat
      /\ \A g \in Gens : GenSafe(g)
  BY RegistryAssumption DEF IInv, Typed, Slots
<1>2. q \in Waiting /\ q.pc \in {"startup", "shutdown"} /\ q.gen \in Gens /\ q.gen \in Nat
      /\ q.seen \subseteq Gens \X {"STARTUP", "READY"}
  BY <1>1, Standings, GenNat DEF Resumes
<1>3. \A p \in q.seen : p[1] \in Nat /\ p[2] \in {"STARTUP", "READY"}
  BY <1>2, GenNat
<1>4. q.gen <= slot.gen
  BY <1>1, <1>2 DEF CallerSafe
<1>5. CASE q.pc = "startup"
  <2>1. \A p \in q.seen : p[1] < q.gen \/ p = <<q.gen, "STARTUP">>
    BY <1>1, <1>2, <1>5 DEF CallerSafe
  <2>2. entry[q.gen].result # "open"
    BY <1>2, <1>5 DEF Resumes
  <2>3. ~ (slot.gen = q.gen /\ slot.st = "STARTUP")
    BY <1>1, <1>2, <2>2 DEF GenSafe, Owns
  <2> QED BY <1>1, <1>2, <1>3, <1>4, <2>1, <2>3 DEF LooksAt
<1>6. CASE q.pc = "shutdown"
  <2>1. /\ \A p \in q.seen : p[1] <= q.gen
        /\ q.gen < slot.gen \/ slot.st \in {"REAP", "EMPTY"}
    BY <1>1, <1>2, <1>6 DEF CallerSafe
  <2> QED BY <1>1, <1>2, <1>3, <1>4, <2>1 DEF LooksAt
<1> QED BY <1>2, <1>5, <1>6

LEMMA ResumeKeeps == ASSUME IInv, NEW c \in Callers, Resume(c) PROVE IInv' /\ Forward
<1> DEFINE q == caller[c]
<1>0. q \in Standing /\ Resumes(c) /\ os' = os /\ dispose' = dispose /\ Typed
  BY DEF IInv, Resume
<1>1. CASE q.pc = "result"
  <2>1. PICK r \in Standing : r = IF entry[q.gen].result = "ready"
                                THEN [pc |-> "holds", gen |-> q.gen] ELSE Idle
    BY <1>0, <1>1, Standings DEF Standing, Settling
  <2>2. UNCHANGED <<slot, proc, entry>> /\ caller' = [caller EXCEPT ![c] = r]
    BY <1>1, <2>1 DEF Resume
  <2>3. Typed' /\ Forward
    BY <1>0, <2>2, StandsStill DEF Typed
  <2>4. \A h \in Gens : GenSafe(h)'
    BY <1>0, <2>2 DEF IInv, GenSafe, Fresh, Owns
  <2>5. q.gen \in Gens /\ q.gen <= slot.gen
    BY <1>0, <1>1, Standings DEF IInv, CallerSafe
  <2>6. r = Idle \/ (r \in Settling /\ r.gen <= slot'.gen)
    BY <2>1, <2>2, <2>5 DEF Settling
  <2> QED BY <2>2, <2>3, <2>4, <2>6, CallerLeaves
<1>2. CASE q.pc # "result"
  <2>1. Resolve(c, q.want, q.seen)
    BY <1>2 DEF Resume
  <2>2. q \in Waiting /\ LooksAt(q.seen)
    BY <1>0, <1>2, ResumesBehind
  <2>3. q.want \in Wants
    BY <2>2 DEF Waiting
  <2> QED BY <1>0, <2>1, <2>2, <2>3, ResolveKeeps
<1> QED BY <1>1, <1>2

-----------------------------------------------------------------------------
LEMMA InvStep == IInv /\ [Next]_vars => IInv' /\ Forward
<1> SUFFICES ASSUME IInv, [Next]_vars PROVE IInv' /\ Forward
  OBVIOUS
<1>1. CASE UNCHANGED vars
  <2>1. IInv'
    BY <1>1 DEF vars, IInv, Typed, GenSafe, Fresh, CallerSafe
  <2> QED BY <1>1, <2>1, StandsStill DEF vars, IInv
<1>2. ASSUME NEW c \in Callers, Request(c) \/ Resume(c) \/ TurnBegins(c) PROVE IInv' /\ Forward
  BY <1>2, RequestKeeps, ResumeKeeps, TurnBeginsKeeps
<1>3. ASSUME NEW g \in Gens, Boot(g) \/ Initialized(g) \/ ProcessFails(g) \/ NoChild(g) PROVE IInv' /\ Forward
  BY <1>3, BootKeeps, InitializedKeeps, ProcessFailsKeeps, NoChildKeeps
<1>4. ASSUME NEW g \in Gens,
             Retire(g) \/ GraceExpires(g) \/ ChildEnds(g) \/ Collected(g) \/ ChildExit(g) \/ TurnEnds(g)
      PROVE  IInv' /\ Forward
  BY <1>4, RetireKeeps, GraceExpiresKeeps, ChildEndsKeeps, CollectedKeeps, ChildExitKeeps, TurnEndsKeeps
<1> QED BY <1>1, <1>2, <1>3, <1>4, DisposeKeeps, DisposedKeeps DEF Next

LEMMA InvSafe == IInv => RegistrySafe
<1> SUFFICES ASSUME IInv PROVE RegistrySafe
  OBVIOUS
<1>1. TypeOK
  BY DEF IInv, Typed, TypeOK, Slots, States, Entries, Procs, Children
<1>2. NoOrphan
  BY DEF IInv, GenSafe, NoOrphan
<1>3. NoStall
  BY Standings DEF IInv, NoStall
<1> QED BY <1>1, <1>2, <1>3 DEF RegistrySafe

(* For any callers, routes and number of generations: while a child of the *)
(* agent runs the slot is its generation's, so no second child is started  *)
(* and disposal reaches the one there is; and a caller that looks at the   *)
(* slot again, after a shared startup or a shutdown, always finds it       *)
(* further on, so the guard AGENT_PROCESS_SLOT_STALLED never fires.        *)
THEOREM RegistryCorrect == Spec => []RegistrySafe
<1> QED BY InvInit, InvStep, InvSafe, PTL DEF Spec

(* The slot only goes forward: whatever arrives late of an old generation  *)
(* (an exit, a deadline, the end of a bootstrap, a shutdown), a slot that  *)
(* was handed to the fence is not handed back, and one that was given to a *)
(* later generation is not taken from it.                                  *)
THEOREM SlotGoesForward == Spec => [][Forward]_slot
<1>1. IInv /\ [Next]_vars => [Forward]_slot
  BY InvStep
<1> QED BY <1>1, InvInit, InvStep, PTL DEF Spec
=============================================================================
