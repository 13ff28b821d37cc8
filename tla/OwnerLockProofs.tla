---------------------------- MODULE OwnerLockProofs ----------------------------
(***************************************************************************)
(* For any number of processes and acquisitions, the owner lock excludes   *)
(* and is never seized from a live owner, as long as no process is killed  *)
(* inside _reapDead.  (With such a kill the exclusion is lost: see the run *)
(* OwnerLockReaperCrash.)                                                  *)
(***************************************************************************)
EXTENDS OwnerLock, TLAPS

Holding == {"held", "relRead", "relCompare", "relRm"}

(* A live holder owns the file it believes to own. *)
HolderOwns == \A p \in alive : pc[p] \in Holding => lock = Owner(p)

(* The reap marker and the reaper that holds it determine each other. *)
ReaperMarks == \A p \in alive : pc[p] \in Reaping => marker = p
MarkerReaps == marker # None => marker \in alive /\ pc[marker] \in Reaping

(* Whoever is about to reap has seen a dead owner, and death is final. *)
SeenDead ==
  \A p \in alive :
    /\ pc[p] = "proveOwner" => seen[p] # None
    /\ pc[p] \in {"mark"} \cup Reaping \cup Reclaiming =>
         seen[p] # None /\ seen[p][1] \notin alive

(* What is removed is still what was compared. *)
RemovesSeen == \A p \in alive : pc[p] = "rmLock" => lock = seen[p]

(* A marker is only reclaimed from a dead reaper: here, never. *)
NoReclaim ==
  \A p \in alive :
    /\ pc[p] = "proveMark" => seenMark[p] # None
    /\ pc[p] = "rereadMark" => seenMark[p] # None /\ seenMark[p] \notin alive
    /\ pc[p] # "rmMark"

IInv ==
  /\ TypeOK
  /\ HolderOwns
  /\ ReaperMarks /\ MarkerReaps
  /\ SeenDead /\ RemovesSeen
  /\ NoReclaim

(* The initial state is well typed. *)
LEMMA InitType == Init => TypeOK
  BY OwnerLockAssumption DEF Init, TypeOK, Calls

(* Every file-system call of lock.js and every kill keeps the types. *)
LEMMA TypeStep == TypeOK /\ [Next]_vars => TypeOK'
<1> SUFFICES ASSUME TypeOK, [Next]_vars PROVE TypeOK'
  OBVIOUS
<1> USE OwnerLockAssumption DEF TypeOK, Goto, Calls, Reaping, Reclaiming
<1>1. CASE UNCHANGED vars
  BY <1>1 DEF vars
<1>2. ASSUME NEW p \in Procs,
             Acquire(p) \/ GiveUp(p) \/ IsHeldBy(p) \/ Release(p) \/ Kill(p)
      PROVE  TypeOK'
  BY <1>2 DEF Acquire, GiveUp, IsHeldBy, Release, Kill
<1>3. ASSUME NEW p \in Procs, Step(p) PROVE TypeOK'
  <2>1. CASE Publish(p) \/ ReadLock(p) \/ ProveOwner(p) \/ Retry(p)
    BY <2>1 DEF Publish, ReadLock, ProveOwner, Retry, Owner
  <2>2. CASE Mark(p) \/ Remark(p) \/ VerifyMark(p) \/ Compare(p) \/ RmLock(p) \/ Unmark(p)
    BY <2>2 DEF Mark, Remark, CreateMarker, VerifyMark, Compare, RmLock, Unmark
  <2>3. CASE ReadMark(p) \/ ProveMark(p) \/ RereadMark(p) \/ RmMark(p)
    BY <2>3 DEF ReadMark, ProveMark, RereadMark, RmMark
  <2>4. CASE ReleaseRead(p) \/ ReleaseCompare(p) \/ ReleaseRm(p)
    BY <2>4 DEF ReleaseRead, ReleaseCompare, ReleaseRm
  <2> QED BY <1>3, <2>1, <2>2, <2>3, <2>4 DEF Step
<1> QED BY <1>1, <1>2, <1>3 DEF Next

(* Type correctness of the lock protocol, with and without reaper crashes. *)
THEOREM TypeCorrect == Spec => []TypeOK
  BY InitType, TypeStep, PTL DEF Spec

-----------------------------------------------------------------------------
(* The inductive invariant holds initially. *)
LEMMA InitInv == Init => IInv
  BY InitType DEF Init, IInv, HolderOwns, ReaperMarks, MarkerReaps, SeenDead,
     RemovesSeen, NoReclaim, Holding, Reaping, Reclaiming

(* No call and no kill outside _reapDead breaks the inductive invariant. *)
LEMMA InvStep ==
  ASSUME ~ReaperCrash, IInv, [Next]_vars
  PROVE  IInv'
<1>t. TypeOK'
  BY TypeStep DEF IInv
<1> SUFFICES (/\ HolderOwns /\ ReaperMarks /\ MarkerReaps
              /\ SeenDead /\ RemovesSeen /\ NoReclaim)'
  BY <1>t DEF IInv
<1> USE OwnerLockAssumption DEF Goto, Owner, Holding, Reaping, Reclaiming
<1>1. CASE UNCHANGED vars
  BY <1>1 DEF vars, IInv, HolderOwns, ReaperMarks, MarkerReaps, SeenDead, RemovesSeen, NoReclaim
<1>2. ASSUME NEW p \in Procs,
             Acquire(p) \/ GiveUp(p) \/ IsHeldBy(p) \/ Release(p) \/ Retry(p)
      PROVE  (HolderOwns /\ ReaperMarks /\ MarkerReaps /\ SeenDead /\ RemovesSeen /\ NoReclaim)'
  BY <1>2 DEF Acquire, GiveUp, IsHeldBy, Release, Retry, IInv, TypeOK, HolderOwns, ReaperMarks,
     MarkerReaps, SeenDead, RemovesSeen, NoReclaim
(* A killed process is not inside _reapDead, so it does not hold the marker. *)
<1>3. ASSUME NEW p \in Procs, Kill(p)
      PROVE  (HolderOwns /\ ReaperMarks /\ MarkerReaps /\ SeenDead /\ RemovesSeen /\ NoReclaim)'
  BY <1>3 DEF Kill, IInv, TypeOK, HolderOwns, ReaperMarks, MarkerReaps, SeenDead, RemovesSeen, NoReclaim
<1>4. ASSUME NEW p \in Procs, Publish(p) \/ ReadLock(p) \/ ProveOwner(p)
      PROVE  (HolderOwns /\ ReaperMarks /\ MarkerReaps /\ SeenDead /\ RemovesSeen /\ NoReclaim)'
  <2>1. CASE Publish(p)
    BY <2>1 DEF Publish, IInv, TypeOK, HolderOwns, ReaperMarks, MarkerReaps, SeenDead, RemovesSeen, NoReclaim
  <2>2. CASE ReadLock(p)
    BY <2>2 DEF ReadLock, IInv, TypeOK, HolderOwns, ReaperMarks, MarkerReaps, SeenDead, RemovesSeen, NoReclaim
  <2>3. CASE ProveOwner(p)
    BY <2>3 DEF ProveOwner, IInv, TypeOK, HolderOwns, ReaperMarks, MarkerReaps, SeenDead, RemovesSeen, NoReclaim
  <2> QED BY <1>4, <2>1, <2>2, <2>3
<1>5. ASSUME NEW p \in Procs, Mark(p) \/ Remark(p) \/ VerifyMark(p) \/ Compare(p)
      PROVE  (HolderOwns /\ ReaperMarks /\ MarkerReaps /\ SeenDead /\ RemovesSeen /\ NoReclaim)'
  <2>1. CASE Mark(p) \/ Remark(p)
    BY <2>1 DEF Mark, Remark, CreateMarker, IInv, TypeOK, HolderOwns, ReaperMarks, MarkerReaps,
       SeenDead, RemovesSeen, NoReclaim
  <2>2. CASE VerifyMark(p) \/ Compare(p)
    BY <2>2 DEF VerifyMark, Compare, IInv, TypeOK, HolderOwns, ReaperMarks, MarkerReaps,
       SeenDead, RemovesSeen, NoReclaim
  <2> QED BY <1>5, <2>1, <2>2
(* The removed file names a dead process, so no live holder loses it. *)
<1>6. ASSUME NEW p \in Procs, RmLock(p)
      PROVE  (HolderOwns /\ ReaperMarks /\ MarkerReaps /\ SeenDead /\ RemovesSeen /\ NoReclaim)'
  BY <1>6 DEF RmLock, IInv, TypeOK, HolderOwns, ReaperMarks, MarkerReaps, SeenDead, RemovesSeen, NoReclaim
(* The marker that is removed is the reaper's own. *)
<1>7. ASSUME NEW p \in Procs, Unmark(p)
      PROVE  (HolderOwns /\ ReaperMarks /\ MarkerReaps /\ SeenDead /\ RemovesSeen /\ NoReclaim)'
  BY <1>7 DEF Unmark, IInv, TypeOK, HolderOwns, ReaperMarks, MarkerReaps, SeenDead, RemovesSeen, NoReclaim
<1>8. ASSUME NEW p \in Procs, ReadMark(p) \/ ProveMark(p) \/ RereadMark(p) \/ RmMark(p)
      PROVE  (HolderOwns /\ ReaperMarks /\ MarkerReaps /\ SeenDead /\ RemovesSeen /\ NoReclaim)'
  BY <1>8 DEF ReadMark, ProveMark, RereadMark, RmMark, IInv, TypeOK, HolderOwns, ReaperMarks,
     MarkerReaps, SeenDead, RemovesSeen, NoReclaim
<1>9. ASSUME NEW p \in Procs, ReleaseRead(p) \/ ReleaseCompare(p) \/ ReleaseRm(p)
      PROVE  (HolderOwns /\ ReaperMarks /\ MarkerReaps /\ SeenDead /\ RemovesSeen /\ NoReclaim)'
  BY <1>9 DEF ReleaseRead, ReleaseCompare, ReleaseRm, IInv, TypeOK, HolderOwns, ReaperMarks,
     MarkerReaps, SeenDead, RemovesSeen, NoReclaim
<1> QED
  BY <1>1, <1>2, <1>3, <1>4, <1>5, <1>6, <1>7, <1>8, <1>9 DEF Next, Step

(* Mutual exclusion of acquire() .. release() for every set of processes,  *)
(* provided no process is killed inside _reapDead.                         *)
THEOREM Exclusion ==
  ASSUME ~ReaperCrash
  PROVE  Spec => []MutualExclusion
<1>1. IInv => MutualExclusion
  BY DEF IInv, TypeOK, HolderOwns, MutualExclusion, Owner, Holding
<1> QED BY <1>1, InitInv, InvStep, PTL DEF Spec

(* Under the same proviso no step takes the lock file from a live process  *)
(* other than the one that releases it.                                    *)
THEOREM NoSeizure ==
  ASSUME ~ReaperCrash
  PROVE  Spec => NoWrongfulSeizure
<1> DEFINE Fair == lock # None /\ lock' # lock => lock[1] \notin alive \/ pc[lock[1]] = "relRm"
<1>1. ASSUME IInv, [Next]_vars PROVE [Fair]_vars
  <2> SUFFICES ASSUME Next, lock # None, lock' # lock
               PROVE  lock[1] \notin alive \/ pc[lock[1]] = "relRm"
    BY <1>1 DEF vars
  <2>1. PICK p \in Procs : RmLock(p) \/ ReleaseRm(p) \/ Publish(p)
    BY DEF Next, Step, Acquire, GiveUp, IsHeldBy, Release, Kill, ReadLock, ProveOwner, Retry,
       Mark, Remark, CreateMarker, VerifyMark, Compare, Unmark, ReadMark, ProveMark, RereadMark,
       RmMark, ReleaseRead, ReleaseCompare
  <2> QED
    BY <1>1, <2>1 DEF RmLock, ReleaseRm, Publish, Goto, IInv, TypeOK, RemovesSeen, SeenDead,
       HolderOwns, Holding, Reaping, Owner
<1> QED BY <1>1, InitInv, InvStep, PTL DEF Spec, NoWrongfulSeizure

=============================================================================
