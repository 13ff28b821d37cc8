------------------------------ MODULE OwnerLock ------------------------------
(***************************************************************************)
(* The cross-process owner lock of the scheduler                           *)
(* (packages/scheduler/src/store/lock.js, class OwnerLock), one action per *)
(* file-system call.  The lock is a file that holds the identity           *)
(* {pid, token} of its owner and is published with link(); a contender     *)
(* that finds the recorded pid dead removes the file while it holds a      *)
(* second file, the reap marker.                                           *)
(*                                                                         *)
(* A process is its pid: a process that is killed stays dead and a restart *)
(* is another member of Procs.  The same lock class guards the jobs        *)
(* document (one acquisition per mutation) and the engine lease (one       *)
(* acquisition per engine), so "held" stands for both critical sections.   *)
(***************************************************************************)
EXTENDS Naturals

CONSTANTS
  Procs,        \* the pids that use the lock
  None,         \* the content of a file that does not exist
  MaxToken,     \* bound: acquisitions one process starts
  ReaperCrash   \* whether a process may be killed inside _reapDead

ASSUME OwnerLockAssumption ==
  /\ None \notin Procs
  /\ None \notin Procs \X Nat
  /\ MaxToken \in Nat
  /\ ReaperCrash \in BOOLEAN

VARIABLES
  lock,      \* content of lockPath: None or <<pid, token>>
  marker,    \* content of lockPath.reap: None or a pid
  alive,     \* processes for which kill(pid, 0) succeeds
  pc,        \* next file-system call of each process
  token,     \* token of each process's current acquisition
  seen,      \* lock content each process read last (observedRaw)
  seenMark   \* marker content each process read last (markerRaw)

vars == <<lock, marker, alive, pc, token, seen, seenMark>>

(* The calls between creating the reap marker and removing it. *)
Reaping == {"verifyMark", "compare", "rmLock", "unmarkDone", "unmarkAbort"}

(* The calls of _reclaimDeadReaperMarker and the second attempt after it. *)
Reclaiming == {"readMark", "proveMark", "rereadMark", "rmMark", "remark"}

Calls == {"idle", "publish", "readLock", "proveOwner", "sleep", "mark", "held",
          "relRead", "relCompare", "relRm"} \cup Reaping \cup Reclaiming

Owner(p) == <<p, token[p]>>

Init ==
  /\ lock = None
  /\ marker = None
  /\ alive = Procs
  /\ pc = [p \in Procs |-> "idle"]
  /\ token = [p \in Procs |-> 0]
  /\ seen = [p \in Procs |-> None]
  /\ seenMark = [p \in Procs |-> None]

(* Process p, which is alive, moves from one call to the next. *)
Goto(p, from, to) ==
  /\ p \in alive
  /\ pc[p] = from
  /\ pc' = [pc EXCEPT ![p] = to]

-----------------------------------------------------------------------------
(* acquire(): a fresh token, then the loop of lines 228-258. *)

Acquire(p) ==
  /\ token[p] < MaxToken
  /\ Goto(p, "idle", "publish")
  /\ token' = [token EXCEPT ![p] = @ + 1]
  /\ UNCHANGED <<lock, marker, alive, seen, seenMark>>

(* link() of the staged identity: it fails exactly when the name is taken. *)
Publish(p) ==
  /\ Goto(p, "publish", IF lock = None THEN "held" ELSE "readLock")
  /\ lock' = IF lock = None THEN Owner(p) ELSE lock
  /\ UNCHANGED <<marker, alive, token, seen, seenMark>>

ReadLock(p) ==
  /\ Goto(p, "readLock", IF lock = None THEN "publish" ELSE "proveOwner")
  /\ seen' = [seen EXCEPT ![p] = lock]
  /\ UNCHANGED <<lock, marker, alive, token, seenMark>>

(* Mutant: the age of the file instead of the owner's death. *)
ProveOwnerMut(p) ==
  /\ Goto(p, "proveOwner", "mark")
  /\ UNCHANGED <<lock, marker, alive, token, seen, seenMark>>

(* kill(pid, 0) on the recorded owner is the only stale verdict. *)
ProveOwner(p) ==
  /\ Goto(p, "proveOwner", IF seen[p][1] \in alive THEN "sleep" ELSE "mark")
  /\ UNCHANGED <<lock, marker, alive, token, seen, seenMark>>

Retry(p) ==
  /\ Goto(p, "sleep", "publish")
  /\ UNCHANGED <<lock, marker, alive, token, seen, seenMark>>

(* The give-up bound: the contender fails loud. *)
GiveUp(p) ==
  /\ Goto(p, "sleep", "idle")
  /\ UNCHANGED <<lock, marker, alive, token, seen, seenMark>>

-----------------------------------------------------------------------------
(* _reapDead(): remove a dead owner's lock while holding the reap marker. *)

(* _createArtifactAtomic(reaperPath): link() of a file holding the pid. *)
CreateMarker(p, from, taken) ==
  /\ Goto(p, from, IF marker = None THEN "verifyMark" ELSE taken)
  /\ marker' = IF marker = None THEN p ELSE marker
  /\ UNCHANGED <<lock, alive, token, seen, seenMark>>

Mark(p) == CreateMarker(p, "mark", "readMark")

Remark(p) == CreateMarker(p, "remark", "sleep")

(* The marker must still carry this pid; otherwise abort through finally. *)
VerifyMark(p) ==
  /\ Goto(p, "verifyMark", IF marker = p THEN "compare" ELSE "unmarkAbort")
  /\ UNCHANGED <<lock, marker, alive, token, seen, seenMark>>

(* Mutant: the observed content is not compared before the removal. *)
CompareMut(p) ==
  /\ Goto(p, "compare", IF lock = None THEN "unmarkDone" ELSE "rmLock")
  /\ UNCHANGED <<lock, marker, alive, token, seen, seenMark>>

(* _removeIfUnchanged(), the read. *)
Compare(p) ==
  /\ Goto(p, "compare", IF lock = None THEN "unmarkDone"
                        ELSE IF lock = seen[p] THEN "rmLock" ELSE "unmarkAbort")
  /\ UNCHANGED <<lock, marker, alive, token, seen, seenMark>>

(* _removeIfUnchanged(), the removal: whatever the path names by now. *)
RmLock(p) ==
  /\ Goto(p, "rmLock", "unmarkDone")
  /\ lock' = None
  /\ UNCHANGED <<marker, alive, token, seen, seenMark>>

(* finally: the marker is removed whoever it belongs to. *)
Unmark(p) ==
  /\ \/ Goto(p, "unmarkDone", "publish")
     \/ Goto(p, "unmarkAbort", "sleep")
  /\ marker' = None
  /\ UNCHANGED <<lock, alive, token, seen, seenMark>>

-----------------------------------------------------------------------------
(* _reclaimDeadReaperMarker(): remove the marker of a dead reaper. *)

(* Mutant: the lock is read where the marker is meant. *)
ReadMarkMut(p) ==
  /\ Goto(p, "readMark", IF marker = None THEN "remark" ELSE "proveMark")
  /\ seenMark' = [seenMark EXCEPT ![p] = lock]
  /\ UNCHANGED <<lock, marker, alive, token, seen>>

ReadMark(p) ==
  /\ Goto(p, "readMark", IF marker = None THEN "remark" ELSE "proveMark")
  /\ seenMark' = [seenMark EXCEPT ![p] = marker]
  /\ UNCHANGED <<lock, marker, alive, token, seen>>

(* Mutant: a reap marker is never reclaimed. *)
ProveMarkMut(p) ==
  /\ Goto(p, "proveMark", "sleep")
  /\ UNCHANGED <<lock, marker, alive, token, seen, seenMark>>

ProveMark(p) ==
  /\ Goto(p, "proveMark", IF seenMark[p] \in alive THEN "sleep" ELSE "rereadMark")
  /\ UNCHANGED <<lock, marker, alive, token, seen, seenMark>>

RereadMark(p) ==
  /\ Goto(p, "rereadMark", IF marker = None THEN "remark"
                           ELSE IF marker = seenMark[p] THEN "rmMark" ELSE "sleep")
  /\ UNCHANGED <<lock, marker, alive, token, seen, seenMark>>

RmMark(p) ==
  /\ Goto(p, "rmMark", "remark")
  /\ marker' = None
  /\ UNCHANGED <<lock, alive, token, seen, seenMark>>

-----------------------------------------------------------------------------
(* The holder: isHeldBy(token), release(token), and SIGKILL. *)

(* isHeldBy: a holder that no longer finds its own identity stops. *)
IsHeldBy(p) ==
  /\ Goto(p, "held", IF lock = Owner(p) THEN "held" ELSE "idle")
  /\ UNCHANGED <<lock, marker, alive, token, seen, seenMark>>

Release(p) ==
  /\ Goto(p, "held", "relRead")
  /\ UNCHANGED <<lock, marker, alive, token, seen, seenMark>>

(* The artifact must carry this process's token ... *)
ReleaseRead(p) ==
  /\ Goto(p, "relRead", IF lock = Owner(p) THEN "relCompare" ELSE "idle")
  /\ UNCHANGED <<lock, marker, alive, token, seen, seenMark>>

(* ... and _removeIfUnchanged reads it once more before it removes it. *)
ReleaseCompare(p) ==
  /\ Goto(p, "relCompare", IF lock = Owner(p) THEN "relRm" ELSE "idle")
  /\ UNCHANGED <<lock, marker, alive, token, seen, seenMark>>

ReleaseRm(p) ==
  /\ Goto(p, "relRm", "idle")
  /\ lock' = None
  /\ UNCHANGED <<marker, alive, token, seen, seenMark>>

(* SIGKILL at any instant; the files stay as they are. *)
Kill(p) ==
  /\ p \in alive
  /\ pc[p] \in Reaping => ReaperCrash
  /\ alive' = alive \ {p}
  /\ UNCHANGED <<lock, marker, pc, token, seen, seenMark>>

Step(p) ==
  \/ Publish(p) \/ ReadLock(p) \/ ProveOwner(p) \/ Retry(p)
  \/ Mark(p) \/ Remark(p) \/ VerifyMark(p) \/ Compare(p) \/ RmLock(p) \/ Unmark(p)
  \/ ReadMark(p) \/ ProveMark(p) \/ RereadMark(p) \/ RmMark(p)
  \/ ReleaseRead(p) \/ ReleaseCompare(p) \/ ReleaseRm(p)

Next ==
  \E p \in Procs :
    Acquire(p) \/ Step(p) \/ GiveUp(p) \/ IsHeldBy(p) \/ Release(p) \/ Kill(p)

Spec == Init /\ [][Next]_vars

(* A process the operating system keeps alive executes its next call; a    *)
(* contender that sleeps retries before the give-up bound often enough.    *)
FairSpec == Spec /\ \A p \in Procs : WF_vars(Step(p)) /\ WF_vars(Release(p))
-----------------------------------------------------------------------------
TypeOK ==
  /\ lock \in (Procs \X Nat) \cup {None}
  /\ marker \in Procs \cup {None}
  /\ alive \subseteq Procs
  /\ pc \in [Procs -> Calls]
  /\ token \in [Procs -> Nat]
  /\ seen \in [Procs -> (Procs \X Nat) \cup {None}]
  /\ seenMark \in [Procs -> Procs \cup {None}]

(* Two live processes are never both between a successful acquire() and    *)
(* their release(): no two mutations of the jobs document overlap, and no  *)
(* two engines hold the lease.  It takes the steps of an owner that dies   *)
(* and of two reapers to violate.                                          *)
MutualExclusion ==
  \A p, q \in alive : pc[p] = "held" /\ pc[q] = "held" => p = q

(* No wrongful seizure: a step takes the lock file away from the process   *)
(* it names only when that process is dead or is removing it itself.       *)
NoWrongfulSeizure ==
  [][lock # None /\ lock' # lock =>
       \/ lock[1] \notin alive
       \/ pc[lock[1]] = "relRm"]_vars

(* A live process that is trying to acquire the lock. *)
Contending(p) ==
  p \in alive /\ pc[p] \notin {"idle", "held", "relRead", "relCompare", "relRm"}

(* A SIGKILL at any instant, also in the middle of a reap, never bricks    *)
(* the store: the lock file of a dead owner is removed, or every contender *)
(* has given up (or died).                                                 *)
DeadOwnerReaped ==
  \A p \in Procs :
    (lock # None /\ lock[1] = p /\ p \notin alive)
      ~> (lock = None \/ lock[1] # p \/ \A q \in Procs : ~Contending(q))

=============================================================================
