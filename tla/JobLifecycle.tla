---------------------------- MODULE JobLifecycle ----------------------------
(***************************************************************************)
(* What the server promises about its jobs, whatever the policy and        *)
(* whatever the tables it keeps them in: a job is queued once, started at  *)
(* most once, holds one of Limit slots while it is active, may be parked   *)
(* and resumed where the policy preempts, and never comes back once it is  *)
(* gone.  A job may be gone because it ended, was flushed, or was dropped. *)
(***************************************************************************)
EXTENDS Naturals, FiniteSets

CONSTANTS
  Jobs,
  Limit,       \* how many jobs may be active at a time
  Preemptive   \* does the policy park active jobs?

VARIABLE stage

Stages == {"new", "queued", "active", "parked", "gone"}

Active == {j \in Jobs : stage[j] = "active"}

Init == stage = [j \in Jobs |-> "new"]

Move(j, from, to) ==
  /\ stage[j] \in from
  /\ stage' = [stage EXCEPT ![j] = to]

Arrive(j) == Move(j, {"new"}, "queued")
Start(j)  == Move(j, {"queued"}, "active") /\ Cardinality(Active) < Limit
Park(j)   == Move(j, {"active"}, "parked") /\ Preemptive
Resume(j) == Move(j, {"parked"}, "active") /\ Cardinality(Active) < Limit
Leave(j)  == Move(j, {"queued", "active", "parked"}, "gone")

Next == \E j \in Jobs : Arrive(j) \/ Start(j) \/ Park(j) \/ Resume(j) \/ Leave(j)

Spec == Init /\ [][Next]_stage
=============================================================================
