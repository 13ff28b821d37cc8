------------------------- MODULE MCSchedulerEngine --------------------------
(* Small instances of the occurrence engine: one job, an "every" job or a  *)
(* one-shot.                                                               *)
EXTENDS SchedulerEngine

MCJobs == {"j"}
MCEvery == [j \in MCJobs |-> "every"]
MCAt == [j \in MCJobs |-> "at"]
MCTrue == [j \in MCJobs |-> TRUE]
MCFalse == [j \in MCJobs |-> FALSE]
MCSlots1 == [j \in MCJobs |-> {1}]
MCSlots12 == [j \in MCJobs |-> {1, 2}]
MCBackoff1 == <<1>>
MCBackoff11 == <<1, 1>>

(* A control operation alone, or the end of an engine alone, is followed   *)
(* to the end of the clock; the two together up to time 2.                 *)
Disturbed == ops + restarts > 1 => now <= 2
=============================================================================
