------------------------------ MODULE Children ------------------------------
(***************************************************************************)
(* The child processes of the pq server as the kernel keeps them: what     *)
(* fork(), kill(), waitpid() and SIGCHLD do for scheduler.cpp and pq.cpp.  *)
(* Nothing of this is under src/; it is modelled from how src/ uses it.    *)
(*                                                                         *)
(* A job is forked at most once and pids are not reused within a run, so   *)
(* the pid of the child that executes job j is written j.  exec succeeds.  *)
(***************************************************************************)
EXTENDS Naturals

CONSTANTS
  Jobs,      \* the commands clients may submit
  NoPid,     \* pid 0: the pid field of a Process that was never forked
  MaxTicks   \* bound on the user CPU time one child accumulates

ASSUME ChildrenAssumption ==
  /\ NoPid \notin Jobs
  /\ MaxTicks \in Nat

VARIABLES
  proc,      \* proc[j]: what the kernel knows of the child of job j
  ticks,     \* ticks[j]: utime of that child in /proc/[pid]/stat
  sigchld    \* is a SIGCHLD pending for the server?  (one bit: signals merge)

childVars == <<proc, ticks, sigchld>>

Live      == {"run", "stop"}
ProcState == {"unborn", "zombie", "reaped"} \cup Live

ChildrenTypeOK ==
  /\ proc \in [Jobs -> ProcState]
  /\ ticks \in [Jobs -> 0..MaxTicks]
  /\ sigchld \in BOOLEAN

ChildrenInit ==
  /\ proc = [j \in Jobs |-> "unborn"]
  /\ ticks = [j \in Jobs |-> 0]
  /\ sigchld = FALSE

Zombies == {j \in Jobs : proc[j] = "zombie"}
-----------------------------------------------------------------------------
(* System calls of the server.  A signal to a child that is already dead   *)
(* changes nothing: kill() on a zombie succeeds, on a reaped pid it fails  *)
(* with ESRCH, which the callers only print.                               *)

ForkChild(j) == proc' = [proc EXCEPT ![j] = "run"]

StopChildren(S) ==
  proc' = [j \in Jobs |-> IF j \in S /\ proc[j] = "run" THEN "stop" ELSE proc[j]]

ContinueChild(j) ==
  proc' = [proc EXCEPT ![j] = IF @ = "stop" THEN "run" ELSE @]

KillChildren(S) ==
  /\ proc' = [j \in Jobs |-> IF j \in S /\ proc[j] \in Live THEN "zombie" ELSE proc[j]]
  /\ sigchld' = (sigchld \/ \E j \in S \cap Jobs : proc[j] \in Live)

(* waitpid(-1, &status, WNOHANG) returns the pid of a zombie and frees it. *)
ReapChild(j) == proc[j] = "zombie" /\ proc' = [proc EXCEPT ![j] = "reaped"]
-----------------------------------------------------------------------------
(* What the children do by themselves. *)

(* The command ends, or is killed from outside; a stopped child can end    *)
(* too, when its exit was already under way as SIGSTOP arrived.  The kernel*)
(* raises SIGCHLD; stop and continue do not (SA_NOCLDSTOP, pq.cpp:164).    *)
ChildExits(j) ==
  /\ proc[j] \in Live
  /\ proc' = [proc EXCEPT ![j] = "zombie"]
  /\ sigchld' = TRUE
  /\ UNCHANGED ticks

(* The child uses CPU time.  MaxTicks bounds the model, not the child. *)
ChildComputes(j) ==
  /\ proc[j] = "run"
  /\ ticks[j] < MaxTicks
  /\ ticks' = [ticks EXCEPT ![j] = @ + 1]
  /\ UNCHANGED <<proc, sigchld>>
=============================================================================
