---------------------------- MODULE JobLifecycle ----------------------------
(***************************************************************************)
(* What a job's status promises to those who bill for it.                  *)
(*                                                                         *)
(* A job goes through planning, work, billing and its end.  It is billed   *)
(* only after it was completed, a billed job is never called off or worked *)
(* on again, nothing happens after the end, and the two dates a report is  *)
(* built from - when it was completed, when it was called off - are there  *)
(* exactly while they apply.                                               *)
(***************************************************************************)
CONSTANT Jobs

VARIABLES
  stage,       \* stage[j]: see Stages
  finished,    \* finished[j]: the job has a completion date
  calledOff    \* calledOff[j]: the job has a cancellation date

vars == <<stage, finished, calledOff>>

Stages == {"none", "planned", "work", "done", "billed", "over", "off"}

Init ==
  /\ stage = [j \in Jobs |-> "none"]
  /\ finished = [j \in Jobs |-> FALSE]
  /\ calledOff = [j \in Jobs |-> FALSE]

Go(j, from, to) ==
  /\ stage[j] \in from
  /\ stage' = [stage EXCEPT ![j] = to]
  /\ finished' = [finished EXCEPT ![j] = to \in {"done", "billed", "over"}]
  /\ calledOff' = [calledOff EXCEPT ![j] = to = "off"]

Open(j)     == Go(j, {"none"}, "planned")
Start(j)    == Go(j, {"planned"}, "work")
Finish(j)   == Go(j, {"work"}, "done")
Resume(j)   == Go(j, {"done"}, "work")
Bill(j)     == Go(j, {"done"}, "billed")
Close(j)    == Go(j, {"billed"}, "over")
CallOff(j)  == Go(j, {"planned", "work"}, "off")
Reinstate(j) == Go(j, {"off"}, "planned")

Next == \E j \in Jobs :
  Open(j) \/ Start(j) \/ Finish(j) \/ Resume(j) \/ Bill(j) \/ Close(j)
  \/ CallOff(j) \/ Reinstate(j)

Spec == Init /\ [][Next]_vars
=============================================================================
