------------------------- MODULE PQServerSignalProofs ------------------------
(***************************************************************************)
(* Who is on a CPU and who is stopped.  SIGSTOP and SIGCONT are sent one   *)
(* step before or after the entry moves; in between, the thread's position *)
(* says which job is out of place.                                         *)
(***************************************************************************)
EXTENDS PQServerStartProofs

StartedProcs == \A j \in Jobs : proc[j] # "unborn" <=> j \in ToSet(starts)

(* No queued job is on a CPU but the one just forked or resumed.           *)
OnCPU ==
  \A j \in Jobs : proc[j] = "run" =>
    /\ j \notin JobsInLevels
    /\ j \in JobsIn(waiting) =>
         \/ Thread = "exec_push" /\ j = Last(starts)
         \/ Thread = "rrobin_push" /\ waiting # <<>> /\ j = Head(waiting).job
    /\ ~(Thread = "rrobin_requeue" /\ j = copy.job)

(* No running job is stopped but the one just paused, and none that is     *)
(* about to be pushed to running.                                          *)
StoppedPlaced ==
  \A j \in Jobs : proc[j] = "stop" =>
    /\ j \in JobsIn(running) =>
         (Thread = "rrobin_requeue" /\ j = copy.job) \/ pc = "group_stopped"
    /\ ~(Thread = "exec_push" /\ j = Last(starts))
    /\ ~(Thread = "mlfq_push" /\ j = copy.job)
    /\ ~(pc = "rrobin_push" /\ waiting # <<>> /\ j = Head(waiting).job)

(* Until executeJob pushes it, the entry of the job it forked has no pid.  *)
NotPushed(e) == IF e.job = Last(starts) THEN e.pid = NoPid ELSE e \in Known

PidsHeld ==
  /\ Thread = "exec_push" => \A k \in DOMAIN waiting : NotPushed(waiting[k])
  /\ Thread = "rrobin_requeue" => copy.pid # NoPid

(* The count of a status was right when it was taken.                      *)
ShownEnough == Thread = "status" => Len(running) <= shown /\ pc # "group_stopped"

SignalInv == StartedProcs /\ OnCPU /\ StoppedPlaced /\ PidsHeld /\ ShownEnough
-----------------------------------------------------------------------------
LEMMA ShortenedLen ==
  ASSUME NEW s \in Seq(Process), NEW t, Shortened(t, s)
  PROVE  Len(t) \in Nat /\ Len(s) \in Nat /\ Len(t) <= Len(s)
<1>1. \A k \in DOMAIN s : Len(RemoveAt(s, k)) = Len(s) - 1 /\ Len(s) \in Nat \ {0}
  BY RemoveAtFacts
<1>2. s # <<>> => Len(Tail(s)) = Len(s) - 1 /\ Len(s) \in Nat \ {0}
  BY TailFacts
<1>3. Len(s) \in Nat
  BY LenProperties
<1> QED
  BY <1>1, <1>2, <1>3 DEF Shortened, Popped

(* A process that was just resumed is pushed, or the queue is flushed.     *)
LEMMA ResumedStep ==
  ThreadOfPolicy /\ FlushedEmpty /\ Next =>
    \/ pc' # "rrobin_push" \/ UNCHANGED <<pc, waiting>> \/ waiting' = <<>>
    \/ RRobinFill /\ UNCHANGED interrupted
<1> DEFINE Goal == \/ pc' # "rrobin_push" \/ UNCHANGED <<pc, waiting>> \/ waiting' = <<>>
                   \/ RRobinFill /\ UNCHANGED interrupted
<1> SUFFICES ASSUME ThreadOfPolicy, FlushedEmpty, Next PROVE Goal
  OBVIOUS
<1> USE SchedulerAssumption
<1> USE DEF At, tableVars
<1>1. CASE FlushReturn
  <2>1. CASE interrupted = "none"
    BY <1>1, <2>1 DEF FlushReturn, AfterAccept
  <2>2. CASE interrupted = "rrobin_push"
    BY <1>1, <2>2 DEF FlushReturn, Thread, ThreadOfPolicy, FlushedEmpty
  <2>3. CASE interrupted # "none" /\ interrupted # "rrobin_push"
    BY <1>1, <2>3 DEF FlushReturn
  <2> QED
    BY <2>1, <2>2, <2>3
<1>2. CASE \/ SigchldEnter \/ SigchldReturn \/ SigintEnter \/ Types
           \/ \E j \in Jobs : SigchldReap(j) \/ Ends(j) \/ Computes(j)
  BY <1>2 DEF SigchldEnter, SigchldReturn, SigchldReap, SigintEnter, Types, Ends, Computes, locals
<1>3. CASE Poll \/ PollStdin \/ AddJob \/ FlushRequest \/ StatusCounts \/ StatusLists \/ Query
  BY <1>3 DEF Poll, PollStdin, AddJob, FlushRequest, StatusCounts, StatusLists, Query, AfterAccept
<1>4. CASE \/ ExecuteJobFork \/ ExecuteJobPush \/ StatRead \/ StatOpen \/ StatScan \/ FifoRunner
           \/ RRobinPause \/ RRobinRequeue \/ RRobinPush
  BY <1>4 DEF ExecuteJobFork, ExecuteJobPush, CallersLoop, StatRead, StatOpen, StatScan,
     FifoRunner, ExecuteJob, RRobinPause, PauseProcess, RRobinRequeue, RRobinPush
<1>5. CASE \/ MlfqFront \/ MlfqPop \/ MlfqRequeue \/ MlfqBoostDue \/ MlfqBoost \/ MlfqAdmit
           \/ MlfqFill \/ MlfqPush
  BY <1>5 DEF MlfqFront, MlfqPop, MlfqRequeue, PauseProcess, MlfqBoostDue, MlfqBoost,
     MlfqAdmit, MlfqFill, MlfqDispatch, MlfqPush
<1>6. CASE FlushKill \/ FlushPop \/ FlushQueue
  BY <1>6 DEF FlushKill, TerminateProcess, FlushPop, FlushQueue, FlushEntry, QueueFlushed
<1> QED
  BY <1>1, <1>2, <1>3, <1>4, <1>5, <1>6 DEF Next, MainStep, Request, SchedulerStep, Handler, loopVars

(* Once the server's group is stopped, it stays so; and it is the server's *)
(* own step that stops it.                                                 *)
LEMMA GroupStopped ==
  TypeOK /\ LocalsOK /\ Next =>
    /\ pc = "group_stopped" => pc' = "group_stopped"
    /\ pc' = "group_stopped" => \/ pc = "group_stopped" \/ RRobinPause \/ MlfqRequeue
<1> SUFFICES ASSUME TypeOK, Next
    PROVE  /\ pc = "group_stopped" => pc' = "group_stopped"
           /\ pc' = "group_stopped" => pc = "group_stopped" \/ RRobinPause \/ MlfqRequeue
  OBVIOUS
<1> USE SchedulerAssumption
<1> USE DEF At
<1>1. CASE FlushReturn
  BY <1>1 DEF FlushReturn, AfterAccept, TypeOK, Locations, Halted
<1>2. CASE \/ SigchldEnter \/ SigchldReturn \/ SigintEnter \/ Types
           \/ \E j \in Jobs : SigchldReap(j) \/ Ends(j) \/ Computes(j)
  BY <1>2 DEF SigchldEnter, SigchldReturn, SigchldReap, SigintEnter, Types, Ends, Computes, locals,
     Halted
<1>3. CASE Poll \/ PollStdin \/ AddJob \/ FlushRequest \/ StatusCounts \/ StatusLists \/ Query
  BY <1>3 DEF Poll, PollStdin, AddJob, FlushRequest, StatusCounts, StatusLists, Query, AfterAccept
<1>4. CASE \/ ExecuteJobFork \/ ExecuteJobPush \/ StatRead \/ StatOpen \/ StatScan \/ FifoRunner
           \/ RRobinRequeue \/ RRobinPush
  BY <1>4 DEF ExecuteJobFork, ExecuteJobPush, CallersLoop, StatRead, StatOpen, StatScan,
     FifoRunner, ExecuteJob, RRobinRequeue, RRobinPush
<1>5. CASE RRobinFill
  BY <1>5 DEF RRobinFill, ExecuteJob
<1>6. CASE RRobinPause \/ MlfqRequeue
  BY <1>6 DEF RRobinPause, MlfqRequeue
<1>7. CASE MlfqFront \/ MlfqPop \/ MlfqBoostDue \/ MlfqBoost \/ MlfqAdmit \/ MlfqFill \/ MlfqPush
  BY <1>7 DEF MlfqFront, MlfqPop, MlfqBoostDue, MlfqBoost, MlfqAdmit, MlfqFill, MlfqDispatch, MlfqPush
<1>8. CASE FlushKill \/ FlushPop \/ FlushQueue
  BY <1>8 DEF FlushKill, TerminateProcess, FlushPop, FlushQueue, FlushEntry, QueueFlushed
<1> QED
  BY <1>1, <1>2, <1>3, <1>4, <1>5, <1>6, <1>7, <1>8
     DEF Next, MainStep, Request, SchedulerStep, Handler

(* A handler that interrupts the thread.                                   *)
LEMMA SignalInterrupted ==
  ASSUME TypeOK, LocalsOK, EntriesInv, StartInv, SignalInv, Next,
         UNCHANGED <<Thread, copy, arrivals, starts, shown>>, Shrinking, Quiet
  PROVE  SignalInv'
<1>p. /\ proc \in [Jobs -> ProcState] /\ waiting \in Seq(Process) /\ running \in Seq(Process)
  BY DEF TypeOK, ChildrenTypeOK
<1>q. \A j \in Jobs : /\ proc'[j] \in {"run", "stop"} => proc'[j] = proc[j]
                      /\ proc'[j] = "unborn" <=> proc[j] = "unborn"
  BY DEF Quiet
<1>w. waiting' = waiting \/ (waiting # <<>> /\ waiting' = Tail(waiting))
  BY DEF Shrinking, Popped
<1>j. /\ JobsIn(waiting)' \subseteq JobsIn(waiting) /\ JobsInLevels' \subseteq JobsInLevels
      /\ JobsIn(running)' \subseteq JobsIn(running)
  BY ShrinkingJobs
<1>1. StartedProcs'
  BY <1>q DEF SignalInv, StartedProcs
<1>2. OnCPU'
  <2> SUFFICES ASSUME NEW j \in Jobs, proc'[j] = "run"
      PROVE  /\ j \notin JobsInLevels'
             /\ j \in JobsIn(waiting)' =>
                  \/ Thread = "exec_push" /\ j = Last(starts)
                  \/ Thread = "rrobin_push" /\ waiting' # <<>> /\ j = Head(waiting').job
             /\ ~(Thread = "rrobin_requeue" /\ j = copy.job)
    BY DEF OnCPU
  <2>1. proc[j] = "run"
    BY <1>q
  <2>2. CASE waiting' = waiting
    BY <1>j, <2>1, <2>2 DEF SignalInv, OnCPU
  <2>3. CASE waiting # <<>> /\ waiting' = Tail(waiting)
    <3>1. Head(waiting).job \in JobsIn(waiting) /\ Head(waiting).job \notin JobsIn(Tail(waiting))
      BY <1>p, <2>3, TailJobs DEF EntriesInv, Apart
    <3>2. JobsIn(waiting)' = JobsIn(Tail(waiting))
      BY <2>3 DEF JobsIn
    <3>3. Head(waiting).job \notin JobsInLevels'
      BY <1>j, <3>1 DEF EntriesInv, Apart, JobsInLevels
    <3> QED
      BY <1>j, <2>1, <2>3, <3>1, <3>2, <3>3 DEF SignalInv, OnCPU
  <2> QED
    BY <1>w, <2>2, <2>3
<1>3. StoppedPlaced'
  <2> SUFFICES ASSUME NEW j \in Jobs, proc'[j] = "stop"
      PROVE  /\ j \in JobsIn(running)' =>
                  (Thread = "rrobin_requeue" /\ j = copy.job) \/ pc' = "group_stopped"
             /\ ~(Thread = "exec_push" /\ j = Last(starts))
             /\ ~(Thread = "mlfq_push" /\ j = copy.job)
             /\ ~(pc' = "rrobin_push" /\ waiting' # <<>> /\ j = Head(waiting').job)
    BY DEF StoppedPlaced
  <2>1. proc[j] = "stop"
    BY <1>q
  <2>2. pc' # "rrobin_push" \/ UNCHANGED <<pc, waiting>> \/ waiting' = <<>>
    <3>1. ~(RRobinFill /\ UNCHANGED interrupted) \/ pc' # "rrobin_push"
      BY DEF RRobinFill, At, Thread, LocalsOK, Flushing, Halted
    <3> QED
      BY <3>1, ResumedStep DEF StartInv
  <2>3. pc = "group_stopped" => pc' = "group_stopped"
    BY GroupStopped
  <2> QED
    BY <1>j, <2>1, <2>2, <2>3 DEF SignalInv, StoppedPlaced
<1>4. PidsHeld'
  <2>1. ASSUME Thread = "exec_push", NEW k \in DOMAIN waiting' PROVE NotPushed(waiting'[k])
    <3>1. CASE waiting' = waiting
      BY <2>1, <3>1 DEF SignalInv, PidsHeld
    <3>2. CASE waiting # <<>> /\ waiting' = Tail(waiting)
      <4>0. /\ Len(waiting) \in Nat \ {0} /\ DOMAIN waiting = 1..Len(waiting)
            /\ DOMAIN Tail(waiting) = 1..Len(waiting)-1
            /\ \A i \in 1..Len(waiting)-1 : Tail(waiting)[i] = waiting[i+1]
        BY <1>p, <3>2, TailFacts
      <4>1. k + 1 \in DOMAIN waiting /\ waiting'[k] = waiting[k + 1]
        BY <2>1, <3>2, <4>0
      <4> QED
        BY <2>1, <4>1 DEF SignalInv, PidsHeld
    <3> QED
      BY <1>w, <3>1, <3>2
  <2>2. Known' = Known
    BY DEF Known, KnownBy, ToSet
  <2> QED
    BY <2>1, <2>2 DEF SignalInv, PidsHeld, NotPushed
<1>5. ShownEnough'
  <2>1. Len(running') <= Len(running) /\ Len(running) \in Nat /\ Len(running') \in Nat
    BY <1>p, ShortenedLen DEF Shrinking
  <2>2. Thread = "status" /\ pc' = "group_stopped" => pc = "group_stopped"
    <3>1. Thread = "status" => ~RRobinPause /\ ~MlfqRequeue
      BY DEF RRobinPause, MlfqRequeue, At, Thread, LocalsOK, Flushing, Halted
    <3> QED
      BY <3>1, GroupStopped
  <2> QED
    BY <2>1, <2>2 DEF SignalInv, ShownEnough, TypeOK
<1> QED
  BY <1>1, <1>2, <1>3, <1>4, <1>5 DEF SignalInv

(* The steps of the thread.                                                *)
LEMMA SignalThreadStep ==
  ASSUME TypeOK, LocalsOK, EntriesInv, EntriesInv', StartInv, SignalInv,
         interrupted = "none", interrupted' = "none",
         Poll \/ PollStdin \/ Request \/ SchedulerStep
  PROVE  SignalInv'
<1> USE SchedulerAssumption, ChildrenAssumption
<1> USE DEF tableVars, histVars, locals, childVars, At
<1> DEFINE Special == {"exec_push", "rrobin_push", "rrobin_requeue", "mlfq_push", "group_stopped", "status"}
<1>p. Thread = pc /\ Thread' = pc' /\ LocalsHere
  BY LocalsAtPc DEF Thread
<1>t. /\ proc \in [Jobs -> ProcState] /\ waiting \in Seq(Process) /\ running \in Seq(Process)
      /\ levels \in [0..NumLevels-1 -> Seq(Process)] /\ starts \in Seq(Jobs)
  BY DEF TypeOK, ChildrenTypeOK
<1>s. \A j \in Jobs : proc[j] # "unborn" <=> j \in ToSet(starts)
  BY DEF SignalInv, StartedProcs
<1>r. ASSUME NEW j \in Jobs, proc[j] = "run", pc \notin {"exec_push", "rrobin_push"}
      PROVE  j \notin JobsIn(waiting) \cup JobsInLevels /\ ~(pc = "rrobin_requeue" /\ j = copy.job)
  BY <1>p, <1>r DEF SignalInv, OnCPU
<1>o. ASSUME NEW j \in Jobs, proc[j] = "stop", pc \notin {"rrobin_requeue", "group_stopped"}
      PROVE  j \notin JobsIn(running)
  BY <1>p, <1>o DEF SignalInv, StoppedPlaced
<1>e. /\ running \in Seq(Known) /\ \A l \in 0..NumLevels-1 : levels[l] \in Seq(Known)
      /\ pc # "exec_push" => waiting \in Seq(Known)
      /\ pc \in Moving => copy \in Known
  BY <1>p DEF StartInv, PidsKnown
<1>k. \A e \in Known : /\ e.pid # NoPid => e.pid = e.job /\ proc[e.job] # "unborn"
                       /\ e.pid = NoPid => proc[e.job] = "unborn" /\ e.job \notin ToSet(starts)
                       /\ e.job \in Jobs /\ e \in Process
  BY <1>s, KnownChanges DEF Known, KnownBy
<1>g. Quiet => \A j \in Jobs : /\ proc'[j] \in {"run", "stop"} => proc'[j] = proc[j]
                               /\ proc'[j] = "unborn" <=> proc[j] = "unborn"
  BY DEF Quiet
(* The thread is at no special place, and the tables only exchange jobs.   *)
<1>1. ASSUME Quiet, UNCHANGED starts, pc \notin Special \ {"status"}, pc' \notin Special,
             JobsIn(waiting)' \cup JobsInLevels' \subseteq
               JobsIn(waiting) \cup JobsInLevels \cup {j \in Jobs : proc[j] = "unborn"},
             JobsIn(running)' \subseteq JobsIn(running)
      PROVE  SignalInv'
  <2>1. StartedProcs'
    BY <1>1, <1>g, <1>s DEF StartedProcs
  <2>2. OnCPU'
    BY <1>1, <1>g, <1>r, <1>p DEF OnCPU
  <2>3. StoppedPlaced'
    BY <1>1, <1>g, <1>o, <1>p DEF StoppedPlaced
  <2> QED
    BY <1>1, <1>p, <2>1, <2>2, <2>3 DEF SignalInv, PidsHeld, ShownEnough
<1>2. ASSUME UNCHANGED <<proc, tableVars, starts>>,
             pc \notin Special \ {"status"}, pc' \notin Special
      PROVE  SignalInv'
  <2>1. JobsIn(waiting)' = JobsIn(waiting) /\ JobsIn(running)' = JobsIn(running) /\ JobsInLevels' = JobsInLevels
    BY <1>2 DEF JobsIn, JobsInLevels
  <2> QED
    BY <1>1, <1>2, <2>1, UnchangedQuiet
<1>3. CASE StatusCounts
  <2>1. /\ UNCHANGED <<proc, tableVars, starts>> /\ pc = "accept" /\ pc' = "status"
        /\ shown' = Len(running)
    BY <1>3 DEF StatusCounts, RunningCount
  <2>2. OnCPU' /\ StoppedPlaced' /\ StartedProcs' /\ PidsHeld'
    BY <1>p, <1>r, <1>o, <1>s, <2>1
       DEF OnCPU, StoppedPlaced, StartedProcs, PidsHeld, JobsIn, JobsInLevels
  <2>3. ShownEnough'
    BY <1>t, <2>1, LenProperties DEF ShownEnough
  <2> QED
    BY <2>2, <2>3 DEF SignalInv
<1>4. CASE ExecuteJobFork
  <2>1. copy \in Known /\ copy.pid = NoPid /\ pc = "exec_fork"
    BY <1>p, <1>e, <1>4 DEF ExecuteJobFork, Moving, StartInv, PidsKnown
  <2>2. CASE UNCHANGED starts
    <3>1. UNCHANGED proc /\ pc' \notin Special
      BY <1>t, <1>4, <2>1, <2>2, LastAppended, AppendProperties DEF ExecuteJobFork, CallersLoop
    <3> QED
      BY <1>2, <1>4, <2>1, <2>2, <3>1 DEF ExecuteJobFork
  <2>3. CASE ForkChild(copy.job) /\ starts' = Append(starts, copy.job) /\ pc' = "exec_push"
    <3> DEFINE j == copy.job
    <3>1. j \in Jobs /\ j \notin ToSet(starts) /\ proc[j] = "unborn"
      BY <1>k, <2>1
    <3>2. ToSet(starts') = ToSet(starts) \cup {j} /\ Last(starts') = j
      BY <1>t, <2>3, <3>1, ToSetAppend, LastAppended
    <3>3. proc'[j] = "run" /\ \A i \in Jobs \ {j} : proc'[i] = proc[i]
      BY <1>t, <2>3, <3>1 DEF ForkChild
    <3>4. j \notin JobsInLevels
      BY <1>p, <2>1 DEF EntriesInv, CopyApart
    <3>5. UNCHANGED tableVars
      BY <1>4 DEF ExecuteJobFork
    <3> HIDE DEF j
    <3>6. StartedProcs'
      BY <1>s, <3>1, <3>2, <3>3 DEF StartedProcs
    <3>7. JobsIn(waiting)' = JobsIn(waiting) /\ JobsIn(running)' = JobsIn(running) /\ JobsInLevels' = JobsInLevels
      BY <3>5 DEF JobsIn, JobsInLevels
    <3>8. OnCPU'
      BY <1>p, <1>r, <2>1, <2>3, <3>2, <3>3, <3>4, <3>7 DEF OnCPU
    <3>9. StoppedPlaced'
      BY <1>p, <1>o, <2>1, <2>3, <3>2, <3>3, <3>7 DEF StoppedPlaced
    <3>10. PidsHeld'
      <4>1. ASSUME NEW k \in DOMAIN waiting
            PROVE  IF waiting[k].job = j THEN waiting[k].pid = NoPid ELSE waiting[k] \in Known'
        <5>1. waiting[k] \in Known
          BY <1>e, <2>1, ElementOfSeq, LenProperties
        <5> QED
          BY <1>k, <3>1, <3>2, <5>1 DEF Known, KnownBy
      <4> QED
        BY <1>p, <2>3, <3>2, <3>5, <4>1 DEF PidsHeld, NotPushed
    <3> QED
      BY <1>p, <2>3, <3>6, <3>8, <3>9, <3>10 DEF SignalInv, ShownEnough
  <2> QED
    BY <1>4, <2>2, <2>3 DEF ExecuteJobFork
(* The front of waiting moves to running: the job forked or resumed.       *)
<1>5. ASSUME waiting # <<>>, pc \in {"exec_push", "rrobin_push"}, pc' \notin Special,
             NEW e \in Process, e.job = Head(waiting).job, FrontToRunning(e),
             UNCHANGED <<proc, levels, starts>>
      PROVE  SignalInv'
  <2>1. /\ JobsIn(waiting)' = JobsBehind(waiting) /\ e.job \notin JobsBehind(waiting)
        /\ JobsBehind(waiting) \subseteq JobsIn(waiting) /\ e.job \in JobsIn(waiting)
    <3>1. /\ JobsIn(Tail(waiting)) = JobsBehind(waiting) /\ e.job \notin JobsBehind(waiting)
          /\ JobsBehind(waiting) \subseteq JobsIn(waiting) /\ e.job \in JobsIn(waiting)
      BY <1>t, <1>5, TailJobs DEF EntriesInv, Apart
    <3> QED
      BY <1>5, <3>1 DEF FrontToRunning, JobsIn
  <2>2. JobsIn(running)' = JobsIn(running) \cup {e.job}
    <3>1. JobsIn(Append(running, e)) = JobsIn(running) \cup {e.job}
      BY <1>t, <1>5, AppendJobs
    <3> QED
      BY <1>5, <3>1 DEF FrontToRunning, JobsIn
  <2>3. JobsInLevels' = JobsInLevels
    BY <1>5 DEF JobsInLevels
  <2>4. pc = "exec_push" => Last(starts) = e.job
    BY <1>5 DEF StartInv, FrontInHand
  <2>5. e.job \notin JobsInLevels
    BY <2>1 DEF EntriesInv, Apart, JobsInLevels
  <2>6. OnCPU'
    BY <1>p, <1>5, <2>1, <2>3, <2>4, <2>5 DEF OnCPU, SignalInv
  <2>7. StoppedPlaced'
    BY <1>p, <1>5, <1>o, <2>2, <2>4 DEF StoppedPlaced, SignalInv
  <2> QED
    BY <1>p, <1>s, <1>5, <2>6, <2>7 DEF SignalInv, StartedProcs, PidsHeld, ShownEnough
<1>6. CASE ExecuteJobPush \/ RRobinPush
  <2>1. CASE waiting = <<>>
    <3>1. /\ pc \in {"exec_push", "rrobin_push"} /\ pc' = "undefined"
          /\ UNCHANGED <<proc, tableVars, starts>>
      BY <1>6, <2>1 DEF ExecuteJobPush, RRobinPush
    <3>2. JobsIn(waiting)' = {} /\ JobsInLevels' = JobsInLevels /\ JobsIn(running)' = JobsIn(running)
      BY <2>1, <3>1 DEF JobsIn, JobsInLevels
    <3>3. OnCPU' /\ StoppedPlaced'
      BY <1>p, <1>o, <2>1, <3>1, <3>2 DEF OnCPU, StoppedPlaced, SignalInv
    <3> QED
      BY <1>p, <1>s, <3>1, <3>3 DEF SignalInv, StartedProcs, PidsHeld, ShownEnough
  <2>2. CASE waiting # <<>>
    <3>1. PICK e \in Process : e.job = Head(waiting).job /\ FrontToRunning(e)
      <4>1. /\ Head(waiting) \in Process
            /\ [Head(waiting) EXCEPT !.pid = Head(waiting).job] \in Process
            /\ [Head(waiting) EXCEPT !.pid = Head(waiting).job].job = Head(waiting).job
        BY <1>t, <2>2, QueueOps, ProcessUpdates DEF Process
      <4> QED
        BY <1>6, <2>2, <4>1 DEF ExecuteJobPush, RRobinPush
    <3>2. /\ pc \in {"exec_push", "rrobin_push"} /\ pc' \notin Special
          /\ UNCHANGED <<proc, levels, starts>>
      BY <1>6, <2>2 DEF ExecuteJobPush, RRobinPush, CallersLoop
    <3> QED
      BY <1>5, <2>2, <3>1, <3>2
  <2> QED
    BY <2>1, <2>2
<1>7. CASE RRobinPause
  <2>1. CASE running = <<>>
    BY <1>2, <1>7, <2>1 DEF RRobinPause
  <2>2. CASE running # <<>>
    <3> DEFINE e == Head(running)
    <3>1. /\ pc = "rrobin" /\ copy' = e /\ UNCHANGED <<tableVars, starts>>
          /\ e \in Known /\ e.job \in JobsIn(running)
      <4>1. Head(running) \in Known /\ JobsIn(running) = {Head(running).job} \cup JobsBehind(running)
        BY <1>e, <1>t, <2>2, HeadTailOf, TailJobs
      <4> QED
        BY <1>7, <2>2, <4>1 DEF RRobinPause
    <3>2. PauseProcess(e, "rrobin_requeue")
      BY <1>7, <2>2 DEF RRobinPause
    <3> HIDE DEF e
    <3>3. \A j \in Jobs : /\ proc'[j] = "unborn" <=> proc[j] = "unborn"
                          /\ proc'[j] = "run" => proc[j] = "run" /\ j # e.job
                          /\ proc'[j] = "stop" => proc[j] = "stop" \/ j = e.pid \/ pc' = "group_stopped"
      BY <1>t, <1>k, <3>1, <3>2 DEF PauseProcess, StopChildren
    <3>4. pc' = "rrobin_requeue" => e.pid # NoPid /\ e.pid = e.job
      BY <1>k, <3>1, <3>2 DEF PauseProcess
    <3>5. pc' \in {"rrobin_requeue", "group_stopped"}
      BY <3>2 DEF PauseProcess
    <3>6. JobsIn(waiting)' = JobsIn(waiting) /\ JobsIn(running)' = JobsIn(running) /\ JobsInLevels' = JobsInLevels
      BY <3>1 DEF JobsIn, JobsInLevels
    <3>7. OnCPU'
      BY <1>p, <1>r, <3>1, <3>3, <3>6 DEF OnCPU
    <3>8. StoppedPlaced'
      BY <1>p, <1>o, <3>1, <3>3, <3>4, <3>5, <3>6 DEF StoppedPlaced
    <3> QED
      BY <1>p, <1>s, <3>1, <3>3, <3>4, <3>5, <3>7, <3>8
         DEF SignalInv, StartedProcs, PidsHeld, ShownEnough
  <2> QED
    BY <2>1, <2>2
<1>8. CASE RRobinRequeue
  <2>1. /\ pc = "rrobin_requeue" /\ pc' \in {"rrobin_fill", "undefined"}
        /\ UNCHANGED <<proc, levels, starts>> /\ waiting' = Append(waiting, copy)
        /\ copy \in Process
    BY <1>p, <1>8 DEF RRobinRequeue, Requeued, LocalsHere, CopyHeld
  <2>2. copy.job \notin JobsBehind(running)
    BY <1>p, <2>1 DEF EntriesInv, CopyApart
  <2>3. JobsIn(waiting)' = JobsIn(waiting) \cup {copy.job} /\ JobsInLevels' = JobsInLevels
    <3>1. JobsIn(Append(waiting, copy)) = JobsIn(waiting) \cup {copy.job}
      BY <1>t, <2>1, AppendJobs
    <3> QED
      BY <2>1, <3>1 DEF JobsIn, JobsInLevels
  <2>4. JobsIn(running)' \subseteq JobsIn(running) \ {copy.job}
    <3>1. CASE running = <<>>
      BY <1>8, <3>1 DEF RRobinRequeue, JobsIn
    <3>2. CASE running # <<>>
      <4>1. JobsIn(Tail(running)) = JobsBehind(running) /\ JobsBehind(running) \subseteq JobsIn(running)
        BY <1>t, <3>2, TailJobs
      <4>2. running' = Tail(running)
        BY <1>8, <3>2 DEF RRobinRequeue
      <4> QED
        BY <2>2, <4>1, <4>2 DEF JobsIn
    <3> QED
      BY <3>1, <3>2
  <2>5. OnCPU'
    <3>1. ASSUME NEW j \in Jobs, proc[j] = "run"
          PROVE  j \notin JobsInLevels /\ j \notin JobsIn(waiting) \cup {copy.job}
      BY <1>p, <2>1, <3>1 DEF SignalInv, OnCPU
    <3> QED
      BY <1>p, <2>1, <2>3, <3>1 DEF OnCPU
  <2>6. StoppedPlaced'
    <3>1. ASSUME NEW j \in Jobs, proc[j] = "stop", j # copy.job PROVE j \notin JobsIn(running)
      BY <1>p, <2>1, <3>1 DEF SignalInv, StoppedPlaced
    <3> QED
      BY <1>p, <2>1, <2>4, <3>1 DEF StoppedPlaced
  <2> QED
    BY <1>p, <1>s, <2>1, <2>5, <2>6 DEF SignalInv, StartedProcs, PidsHeld, ShownEnough
<1>9. CASE RRobinFill
  <2>1. CASE pc' = "rrobin_push"
    <3>1. /\ waiting # <<>> /\ Head(waiting).pid # NoPid /\ ContinueChild(Head(waiting).pid)
          /\ UNCHANGED <<tableVars, starts>> /\ pc = "rrobin_fill"
      BY <1>9, <2>1 DEF RRobinFill, ExecuteJob, ResumeProcess
    <3> DEFINE j == Head(waiting).job
    <3>2. Head(waiting).pid = j /\ j \in Jobs /\ j \in JobsIn(waiting)
      <4>1. Head(waiting) \in Known /\ JobsIn(waiting) = {Head(waiting).job} \cup JobsBehind(waiting)
        BY <1>e, <1>t, <3>1, HeadTailOf, TailJobs
      <4> QED
        BY <1>k, <3>1, <4>1
    <3>3. j \notin JobsInLevels
      BY <3>2 DEF EntriesInv, Apart, JobsInLevels
    <3> HIDE DEF j
    <3>4. \A i \in Jobs : /\ proc'[i] = "unborn" <=> proc[i] = "unborn"
                          /\ proc'[i] = "run" => proc[i] = "run" \/ i = j
                          /\ proc'[i] = "stop" => proc[i] = "stop" /\ i # j
      BY <1>t, <3>1, <3>2 DEF ContinueChild
    <3>5. JobsIn(waiting)' = JobsIn(waiting) /\ JobsIn(running)' = JobsIn(running) /\ JobsInLevels' = JobsInLevels
      BY <3>1 DEF JobsIn, JobsInLevels
    <3>6. OnCPU'
      BY <1>p, <1>r, <2>1, <3>1, <3>3, <3>4, <3>5 DEF OnCPU, j
    <3>7. StoppedPlaced'
      BY <1>p, <1>o, <2>1, <3>1, <3>4, <3>5 DEF StoppedPlaced, j
    <3> QED
      BY <1>p, <1>s, <2>1, <3>1, <3>4, <3>6, <3>7 DEF SignalInv, StartedProcs, PidsHeld, ShownEnough
  <2>2. CASE pc' # "rrobin_push"
    <3>1. /\ pc = "rrobin_fill" /\ pc' \in {"exec_fork", "poll"} /\ UNCHANGED <<proc, tableVars, starts>>
      BY <1>9, <2>2 DEF RRobinFill, ExecuteJob
    <3> QED
      BY <1>2, <3>1
  <2> QED
    BY <2>1, <2>2
<1>10. CASE MlfqRequeue
  <2>1. /\ pc = "mlfq_requeue" /\ copy \in Known /\ copy.priority \in 0..NumLevels-1
        /\ UNCHANGED <<waiting, running, starts>>
    BY <1>e, <1>k, <1>10 DEF MlfqRequeue, Moving, Process
  <2>2. PauseProcess(copy, "mlfq_boost")
    BY <1>10 DEF MlfqRequeue
  <2>3. \A j \in Jobs : /\ proc'[j] = "unborn" <=> proc[j] = "unborn"
                        /\ proc'[j] = "run" => proc[j] = "run" /\ j # copy.job
                        /\ proc'[j] = "stop" => proc[j] = "stop" \/ j = copy.job \/ pc' = "group_stopped"
    BY <1>t, <1>k, <2>1, <2>2 DEF PauseProcess, StopChildren
  <2>4. pc' \in {"mlfq_boost", "group_stopped"}
    BY <2>2 DEF PauseProcess
  <2>5. \A l \in 0..NumLevels-1 : JobsIn(levels'[l]) \subseteq JobsIn(levels[l]) \cup {copy.job}
    <3>1. \/ levels' = levels
          \/ levels' = [levels EXCEPT ![copy.priority] = Append(@, copy)]
      BY <1>10 DEF MlfqRequeue
    <3>2. ASSUME NEW l \in 0..NumLevels-1
          PROVE  JobsIn(Append(levels[l], copy)) = JobsIn(levels[l]) \cup {copy.job}
      BY <1>t, <1>k, <2>1, AppendJobs
    <3>3. \A l \in 0..NumLevels-1 : levels'[l] = levels[l] \/ levels'[l] = Append(levels[l], copy)
      BY <1>t, <2>1, <3>1
    <3> QED
      BY <3>2, <3>3
  <2>6. JobsInLevels' \subseteq JobsInLevels \cup {copy.job}
    BY <2>5 DEF JobsInLevels
  <2>7. copy.job \notin JobsIn(running) /\ copy.job \notin JobsIn(waiting)
    BY <1>p, <2>1 DEF EntriesInv, CopyApart, TabledJobs
  <2>8. JobsIn(waiting)' = JobsIn(waiting) /\ JobsIn(running)' = JobsIn(running)
    BY <2>1 DEF JobsIn
  <2>9. OnCPU'
    BY <1>p, <1>r, <2>1, <2>3, <2>4, <2>6, <2>8 DEF OnCPU
  <2>10. StoppedPlaced'
    BY <1>p, <1>o, <2>1, <2>3, <2>4, <2>7, <2>8 DEF StoppedPlaced
  <2> QED
    BY <1>p, <1>s, <2>1, <2>3, <2>4, <2>9, <2>10 DEF SignalInv, StartedProcs, PidsHeld, ShownEnough
<1>11. CASE MlfqFill /\ idx < NumLevels /\ levels[idx] # <<>> /\ MlfqDispatch
  <2> DEFINE q == Head(levels[idx])
             j == q.job
  <2>1. idx \in 0..NumLevels-1 /\ pc = "mlfq_fill"
    BY <1>p, <1>11 DEF MlfqFill, LocalsHere, TypeOK
  <2>2. q \in Known /\ q \in Process /\ j \in Jobs
    BY <1>11, <1>e, <1>k, <2>1, HeadTailOf
  <2>3. /\ levels' = [levels EXCEPT ![idx] = Tail(levels[idx])] /\ pc' = "mlfq_push"
        /\ UNCHANGED <<waiting, running>>
    BY <1>11 DEF MlfqDispatch
  <2>4. copy'.job = j
    <3>1. copy' = q \/ copy' = [q EXCEPT !.pid = q.job]
      BY <1>11 DEF MlfqDispatch
    <3> QED
      BY <2>2, <3>1 DEF Process
  <2>5. JobsInLevels' \subseteq JobsInLevels
    <3>1. levels'[idx] = Tail(levels[idx]) /\ \A l \in 0..NumLevels-1 : l # idx => levels'[l] = levels[l]
      BY <1>t, <2>1, <2>3
    <3>2. JobsIn(Tail(levels[idx])) \subseteq JobsIn(levels[idx])
      <4>1. levels[idx] \in Seq(Process) /\ levels[idx] # <<>>
        BY <1>t, <1>11, <2>1
      <4> QED
        BY <4>1, TailJobs
    <3>3. \A l \in 0..NumLevels-1 : JobsIn(levels'[l]) \subseteq JobsIn(levels[l])
      BY <3>1, <3>2
    <3> QED
      BY <3>3 DEF JobsInLevels
  <2>6. /\ JobsIn(waiting)' = JobsIn(waiting) /\ JobsIn(running)' = JobsIn(running)
        /\ copy'.job \notin JobsIn(waiting) /\ copy'.job \notin JobsInLevels'
    <3>1. JobsIn(waiting)' = JobsIn(waiting) /\ JobsIn(running)' = JobsIn(running)
      BY <2>3 DEF JobsIn
    <3>2. (Thread = "mlfq_push")'
      BY <1>p, <2>3
    <3>3. copy'.job \notin TabledJobs'
      BY <3>2 DEF EntriesInv, CopyApart
    <3> QED
      BY <3>1, <3>3 DEF TabledJobs
  <2>7. /\ \A i \in Jobs \ {j} : proc'[i] = proc[i]
        /\ proc'[j] # "stop"
        /\ proc'[j] = "unborn" <=> j \notin ToSet(starts')
        /\ ToSet(starts') \ {j} = ToSet(starts) \ {j}
    <3>1. CASE q.pid = NoPid /\ ForkChild(j) /\ starts' = Append(starts, j)
      <4>1. ToSet(starts') = ToSet(starts) \cup {j}
        BY <1>t, <2>2, <3>1, ToSetAppend
      <4> QED
        BY <1>t, <2>2, <3>1, <4>1 DEF ForkChild
    <3>2. CASE q.pid = NoPid /\ UNCHANGED <<proc, starts>>
      <4>1. proc[j] = "unborn" /\ j \notin ToSet(starts)
        BY <1>k, <2>2, <3>2
      <4> QED
        BY <3>2, <4>1
    <3>3. CASE q.pid # NoPid /\ ContinueChild(q.pid) /\ UNCHANGED starts
      <4>1. q.pid = j /\ proc[j] # "unborn" /\ j \in ToSet(starts)
        BY <1>k, <1>s, <2>2, <3>3
      <4> QED
        BY <1>t, <2>2, <3>3, <4>1 DEF ContinueChild
    <3> QED
      BY <1>11, <3>1, <3>2, <3>3 DEF MlfqDispatch, ResumeProcess
  <2> HIDE DEF j, q
  <2>8. StartedProcs'
    BY <1>s, <2>7 DEF StartedProcs
  <2>9. OnCPU'
    BY <1>p, <1>r, <2>1, <2>3, <2>4, <2>5, <2>6, <2>7 DEF OnCPU
  <2>10. StoppedPlaced'
    BY <1>p, <1>o, <2>1, <2>3, <2>4, <2>6, <2>7 DEF StoppedPlaced
  <2> QED
    BY <1>p, <2>3, <2>8, <2>9, <2>10 DEF SignalInv, PidsHeld, ShownEnough
<1>12. CASE MlfqFill /\ ~(idx < NumLevels /\ levels[idx] # <<>> /\ MlfqDispatch)
  BY <1>2, <1>12 DEF MlfqFill
<1>13. CASE MlfqPush
  <2>1. copy \in Process /\ pc = "mlfq_push" /\ pc' = "mlfq_fill" /\ UNCHANGED <<proc, waiting, levels, starts>>
    BY <1>p, <1>13 DEF MlfqPush, LocalsHere, CopyHeld
  <2>2. JobsIn(running)' = JobsIn(running) \cup {copy.job}
    <3>1. JobsIn(Append(running, copy)) = JobsIn(running) \cup {copy.job}
      BY <1>t, <2>1, AppendJobs
    <3> QED
      BY <1>13, <3>1 DEF MlfqPush, JobsIn
  <2>3. JobsIn(waiting)' = JobsIn(waiting) /\ JobsInLevels' = JobsInLevels
    BY <2>1 DEF JobsIn, JobsInLevels
  <2>4. OnCPU'
    BY <1>p, <1>r, <2>1, <2>3 DEF OnCPU
  <2>5. StoppedPlaced'
    BY <1>p, <1>o, <2>1, <2>2 DEF StoppedPlaced, SignalInv
  <2> QED
    BY <1>p, <1>s, <2>1, <2>4, <2>5 DEF SignalInv, StartedProcs, PidsHeld, ShownEnough
<1>14. CASE StatScan
  <2>1. JobsIn(running)' = JobsIn(running)
    <3>1. DOMAIN running' = DOMAIN running /\ \A k \in DOMAIN running : running'[k].job = running[k].job
      <4>1. \A k \in DOMAIN running : running[k] \in Process
        BY <1>t, ElementOfSeq, LenProperties
      <4>2. running' = running \/ running' = [running EXCEPT ![idx].utime = ticks[copy.pid]]
        BY <1>14 DEF StatScan
      <4> QED
        BY <4>1, <4>2 DEF Process
    <3> QED
      BY <3>1 DEF JobsIn
  <2>2. /\ pc = "stat_scan" /\ pc' \in {"stat", "undefined"} /\ UNCHANGED <<proc, waiting, levels, starts>>
    BY <1>14 DEF StatScan
  <2>3. JobsIn(waiting)' = JobsIn(waiting) /\ JobsInLevels' = JobsInLevels
    BY <2>2 DEF JobsIn, JobsInLevels
  <2> QED
    BY <1>1, <2>1, <2>2, <2>3, UnchangedQuiet
<1>15. CASE MlfqPop
  <2>1. pc = "mlfq_pop" /\ pc' \in {"mlfq_requeue", "undefined"} /\ UNCHANGED <<proc, waiting, levels, starts>>
    BY <1>15 DEF MlfqPop
  <2>2. JobsIn(running)' \subseteq JobsIn(running)
    <3>1. running # <<>> => JobsIn(Tail(running)) \subseteq JobsIn(running)
      BY <1>t, TailJobs
    <3> QED
      BY <1>15, <3>1 DEF MlfqPop, JobsIn
  <2>3. JobsIn(waiting)' = JobsIn(waiting) /\ JobsInLevels' = JobsInLevels
    BY <2>1 DEF JobsIn, JobsInLevels
  <2> QED
    BY <1>1, <2>1, <2>2, <2>3, UnchangedQuiet
<1>16. CASE MlfqBoost
  <2>1. CASE idx < NumLevels
    <3>1. idx \in 0..NumLevels-1 /\ 0 \in 0..NumLevels-1 /\ pc = "mlfq_boosting"
      BY <1>p, <1>16, <2>1 DEF MlfqBoost, LocalsHere, TypeOK
    <3> DEFINE t == levels[0] \o Boosted(levels[idx])
    <3>2. JobsIn(t) \subseteq JobsInLevels
      <4>1. /\ JobsIn(Boosted(levels[idx])) = JobsIn(levels[idx])
            /\ Boosted(levels[idx]) \in Seq(Process) /\ levels[0] \in Seq(Process)
        BY <1>t, <3>1, BoostedJobs, BoostedType
      <4>2. JobsIn(t) = JobsIn(levels[0]) \cup JobsIn(levels[idx])
        BY <4>1, ConcatJobs
      <4> QED
        BY <3>1, <4>2 DEF JobsInLevels
    <3>3. levels' = [levels EXCEPT ![0] = t, ![idx] = <<>>]
      BY <1>16, <2>1 DEF MlfqBoost
    <3> HIDE DEF t
    <3>4. \A l \in 0..NumLevels-1 : JobsIn(levels'[l]) \subseteq JobsInLevels
      <4>1. JobsIn(<<>>) = {} /\ \A l \in 0..NumLevels-1 : JobsIn(levels[l]) \subseteq JobsInLevels
        BY DEF JobsIn, JobsInLevels
      <4>2. \A l \in 0..NumLevels-1 : levels'[l] = levels[l] \/ levels'[l] = t \/ levels'[l] = <<>>
        BY <1>t, <3>1, <3>3
      <4> QED
        BY <3>2, <4>1, <4>2
    <3>5. JobsInLevels' \subseteq JobsInLevels
      BY <3>4 DEF JobsInLevels
    <3>6. /\ UNCHANGED <<proc, waiting, running, starts>> /\ pc' = pc
      BY <1>16, <2>1 DEF MlfqBoost
    <3>7. JobsIn(waiting)' = JobsIn(waiting) /\ JobsIn(running)' = JobsIn(running)
      BY <3>6 DEF JobsIn
    <3> QED
      BY <1>1, <3>1, <3>5, <3>6, <3>7, UnchangedQuiet
  <2> QED
    BY <1>2, <1>16, <2>1 DEF MlfqBoost
<1>17. CASE MlfqAdmit
  <2> DEFINE t == levels[0] \o waiting
  <2>1. 0 \in 0..NumLevels-1 /\ levels[0] \in Seq(Process)
    BY <1>t
  <2>2. JobsIn(t) = JobsIn(levels[0]) \cup JobsIn(waiting)
    BY <1>t, <2>1, ConcatJobs
  <2>3. /\ levels' = [levels EXCEPT ![0] = t] /\ waiting' = <<>> /\ UNCHANGED <<proc, running, starts>>
        /\ pc = "mlfq_admit" /\ pc' = "mlfq_fill"
    BY <1>17 DEF MlfqAdmit, AdmitWaiting
  <2> HIDE DEF t
  <2>4. \A l \in 0..NumLevels-1 : JobsIn(levels'[l]) \subseteq JobsIn(waiting) \cup JobsInLevels
    <3>1. \A l \in 0..NumLevels-1 : JobsIn(levels[l]) \subseteq JobsInLevels
      BY DEF JobsInLevels
    <3>2. \A l \in 0..NumLevels-1 : levels'[l] = levels[l] \/ levels'[l] = t
      BY <1>t, <2>1, <2>3
    <3> QED
      BY <2>1, <2>2, <3>1, <3>2
  <2>5. JobsInLevels' \subseteq JobsIn(waiting) \cup JobsInLevels
    BY <2>4 DEF JobsInLevels
  <2>6. JobsIn(waiting)' = {} /\ JobsIn(running)' = JobsIn(running)
    BY <2>3 DEF JobsIn
  <2> QED
    BY <1>1, <2>3, <2>5, <2>6, UnchangedQuiet
<1>18. CASE FlushKill \/ FlushPop \/ FlushQueue
  <2>1. pc \notin Special /\ pc' \notin Special /\ UNCHANGED starts
    BY <1>18 DEF FlushKill, TerminateProcess, FlushPop, FlushQueue, FlushEntry, QueueFlushed
  <2>2. Shrinking /\ Quiet
    BY <1>18, FlushShrinks, FlushQuiet
  <2> QED
    BY <1>1, <2>1, <2>2, ShrinkingJobs
<1>19. CASE AddJob
  <2>1. PICK j \in Jobs \ ToSet(arrivals) : waiting' = <<NewProcess(j)>> \o waiting
    BY <1>19 DEF AddJob
  <2>2. NewProcess(j) \in Process /\ NewProcess(j).job = j
    BY DEF NewProcess, NoProcess, Process
  <2>3. proc[j] = "unborn"
    BY <1>s, <2>1 DEF EntriesInv, KnownJobs
  <2>4. JobsIn(waiting)' = {j} \cup JobsIn(waiting)
    <3>1. JobsIn(<<NewProcess(j)>> \o waiting) = {j} \cup JobsIn(waiting)
      BY <1>t, <2>2, FrontJobs
    <3> QED
      BY <2>1, <3>1 DEF JobsIn
  <2>5. /\ UNCHANGED <<proc, levels, running, starts>> /\ pc = "accept" /\ pc' \notin Special
    BY <1>19 DEF AddJob, AfterAccept
  <2>6. JobsInLevels' = JobsInLevels /\ JobsIn(running)' = JobsIn(running)
    BY <2>5 DEF JobsIn, JobsInLevels
  <2> QED
    BY <1>1, <2>1, <2>3, <2>4, <2>5, <2>6, UnchangedQuiet
<1>20. CASE StatRead \/ StatOpen \/ MlfqFront \/ MlfqBoostDue
  BY <1>2, <1>20 DEF StatRead, StatOpen, MlfqFront, MlfqBoostDue
<1>21. CASE FifoRunner
  BY <1>2, <1>21 DEF FifoRunner, ExecuteJob
<1>22. CASE Poll \/ PollStdin \/ FlushRequest \/ FlushReturn \/ StatusLists \/ Query
  BY <1>2, <1>22 DEF Poll, PollStdin, FlushRequest, FlushReturn, StatusLists, Query, AfterAccept
<1> QED
  BY <1>3, <1>4, <1>6, <1>7, <1>8, <1>9, <1>10, <1>11, <1>12, <1>13, <1>14, <1>15, <1>16, <1>17,
     <1>18, <1>19, <1>20, <1>21, <1>22 DEF Request, SchedulerStep
-----------------------------------------------------------------------------
LEMMA InitSignal == Init => SignalInv
<1> SUFFICES ASSUME Init PROVE SignalInv
  OBVIOUS
<1>1. Thread = "poll" /\ pc = "poll" /\ \A j \in Jobs : proc[j] = "unborn"
  BY DEF Init, ChildrenInit, Thread
<1>2. ToSet(starts) = {}
  BY DEF Init, ToSet
<1> QED
  BY <1>1, <1>2 DEF SignalInv, StartedProcs, OnCPU, StoppedPlaced, PidsHeld, ShownEnough

LEMMA SignalStep ==
  IInv /\ EntriesInv /\ EntriesInv' /\ StartInv /\ SignalInv /\ [Next]_vars => SignalInv'
<1> SUFFICES ASSUME TypeOK, LocalsOK, EntriesInv, EntriesInv', StartInv, SignalInv, [Next]_vars
    PROVE SignalInv'
  BY DEF IInv
<1>1. CASE UNCHANGED vars
  <2>1. UNCHANGED <<childVars, tableVars, pc, Thread, copy, starts, shown>>
    BY <1>1 DEF vars, histVars, locals, loopVars, Thread
  <2>2. /\ UNCHANGED <<proc, waiting, running, levels>>
        /\ JobsIn(waiting)' = JobsIn(waiting) /\ JobsIn(running)' = JobsIn(running)
        /\ JobsInLevels' = JobsInLevels /\ Known' = Known
    BY <2>1 DEF childVars, tableVars, JobsIn, JobsInLevels, Known, KnownBy, ToSet
  <2> QED
    BY <2>1, <2>2 DEF SignalInv, StartedProcs, OnCPU, StoppedPlaced, PidsHeld, NotPushed, ShownEnough
<1>2. CASE Next
  BY <1>2, Interruption, SignalInterrupted, SignalThreadStep
<1> QED
  BY <1>1, <1>2

LEMMA SignalAlways == Spec => [](IInv /\ EntriesInv /\ StartInv /\ SignalInv)
<1>1. Init => SignalInv
  BY InitSignal
<1>2. IInv /\ EntriesInv /\ EntriesInv' /\ StartInv /\ SignalInv /\ [Next]_vars => SignalInv'
  BY SignalStep
<1> QED
  BY <1>1, <1>2, StartAlways, PTL DEF Spec
-----------------------------------------------------------------------------
(* Wherever a handler interrupts the scheduler, a preempted process in a   *)
(* queue is on no CPU, unless it is the one round robin has just resumed   *)
(* and is about to push (scheduler.cpp:287,296,314,340).                   *)
THEOREM PreemptedStay == Spec => []QueuedNotRunning
<1>1. TypeOK /\ EntriesInv /\ StartInv /\ SignalInv => QueuedNotRunning
  <2> SUFFICES ASSUME TypeOK, EntriesInv, StartInv, SignalInv, NEW e \in Queued,
                      e.pid # NoPid, proc[e.pid] = "run"
               PROVE  Thread = "rrobin_push" /\ e = Head(waiting)
    BY DEF QueuedNotRunning
  <2>0. \A q \in Known : q.pid # NoPid => q.pid = q.job /\ q.job \in Jobs
    BY KnownChanges DEF Known
  <2>1. ASSUME NEW l \in DOMAIN levels, NEW k \in DOMAIN levels[l], e = levels[l][k] PROVE FALSE
    <3>1. l \in 0..NumLevels-1 /\ levels[l] \in Seq(Known)
      BY <2>1 DEF TypeOK, StartInv, PidsKnown
    <3>2. e \in Known
      BY <2>1, <3>1, ElementOfSeq, LenProperties
    <3>3. e.job \in JobsInLevels
      BY <2>1, <3>1 DEF JobsInLevels, JobsIn
    <3> QED
      BY <2>0, <3>2, <3>3 DEF SignalInv, OnCPU
  <2>2. ASSUME NEW k \in DOMAIN waiting, e = waiting[k]
        PROVE  Thread = "rrobin_push" /\ e = Head(waiting)
    <3>1. Len(waiting) \in Nat /\ DOMAIN waiting = 1..Len(waiting) /\ waiting \in Seq(Process)
      BY LenProperties DEF TypeOK
    <3>2. waiting # <<>> /\ 1 \in DOMAIN waiting /\ Head(waiting) = waiting[1] /\ e.job \in JobsIn(waiting)
      BY <2>2, <3>1 DEF JobsIn
    <3>3. CASE Thread = "exec_push"
      <4>1. e.pid = e.job /\ e.job # Last(starts)
        BY <2>0, <2>2, <3>3 DEF SignalInv, PidsHeld, NotPushed
      <4>2. e \in Process
        BY <2>2, <3>1, ElementOfSeq
      <4> QED
        BY <3>2, <3>3, <4>1, <4>2 DEF SignalInv, OnCPU, Process
    <3>4. CASE Thread # "exec_push"
      <4>1. e \in Known
        BY <2>2, <3>4, ElementOfSeq, LenProperties DEF StartInv, PidsKnown
      <4>2. Thread = "rrobin_push" /\ e.job = Head(waiting).job
        BY <2>0, <3>2, <3>4, <4>1 DEF SignalInv, OnCPU
      <4>3. k = 1
        BY <2>2, <3>2, <4>2 DEF EntriesInv, Apart, DistinctJobs
      <4> QED
        BY <2>2, <3>2, <4>2, <4>3
    <3> QED
      BY <3>3, <3>4
  <2> QED
    BY <2>1, <2>2 DEF Queued
<1>2. IInv => TypeOK
  BY DEF IInv
<1> QED
  BY <1>1, <1>2, SignalAlways, PTL

(* Whatever dies or is flushed between the count and the lists, a status   *)
(* counts no fewer running processes than it lists, lists none as running  *)
(* that is stopped, and none twice (logging.cpp:305-349, pq.cpp:59-85).    *)
THEOREM StatusAgrees == Spec => []StatusTruthful
<1>1. TypeOK /\ EntriesInv /\ StartInv /\ SignalInv => StatusTruthful
  <2> SUFFICES ASSUME TypeOK, EntriesInv, StartInv, SignalInv, Thread = "status"
               PROVE  StatusTruthful
    BY DEF StatusTruthful
  <2>1. Len(running) <= shown /\ pc # "group_stopped"
    BY DEF SignalInv, ShownEnough
  <2>2. ASSUME NEW e \in ListedRunning
        PROVE  /\ e.pid # NoPid => proc[e.pid] # "stop"
               /\ \A q \in ListedWaiting : q.job # e.job
    <3>1. PICK k \in DOMAIN running : e = running[k]
      BY DEF ListedRunning
    <3>2. e.job \in JobsIn(running) /\ e \in Known
      BY <3>1, ElementOfSeq, LenProperties DEF JobsIn, StartInv, PidsKnown
    <3>3. e.pid # NoPid => e.pid = e.job /\ e.job \in Jobs
      BY <3>2, KnownChanges DEF Known
    <3>4. e.pid # NoPid => proc[e.pid] # "stop"
      BY <2>1, <3>2, <3>3 DEF SignalInv, StoppedPlaced
    <3>5. ASSUME NEW k1 \in DOMAIN waiting PROVE waiting[k1].job # e.job
      BY <3>2 DEF EntriesInv, Apart, JobsIn
    <3>6. ASSUME NEW l \in DOMAIN levels, NEW k1 \in DOMAIN levels[l] PROVE levels[l][k1].job # e.job
      <4>1. l \in 0..NumLevels-1 /\ levels[l][k1].job \in JobsIn(levels[l])
        BY DEF TypeOK, JobsIn
      <4> QED
        BY <3>2, <4>1 DEF EntriesInv, Apart
    <3> QED
      BY <3>4, <3>5, <3>6 DEF ListedWaiting, ListedLevels
  <2> QED
    BY <2>1, <2>2 DEF StatusTruthful
<1>2. IInv => TypeOK
  BY DEF IInv
<1> QED
  BY <1>1, <1>2, SignalAlways, PTL
=============================================================================
