------------------------ MODULE PQServerShutdownProofs -----------------------
(***************************************************************************)
(* What ^C leaves behind under fifo and round robin.  flush_jobs finds     *)
(* every stopped child: in waiting, or at the front of running while round *)
(* robin requeues it; and what it empties stays empty until the end of the *)
(* round that was interrupted, but for one request.  At the end, how many  *)
(* children are on a CPU under fifo, before ^C and after it.               *)
(***************************************************************************)
EXTENDS PQServerSignalProofs

StoppedQueued ==
  \A j \in Jobs : proc[j] = "stop" =>
    \/ j \in JobsIn(waiting)
    \/ /\ Thread = "rrobin_requeue" /\ pc # "flush_pop"
       /\ running # <<>> /\ Head(running).job = j
    \/ pc = "group_stopped"

(* The steps of a round of the loop before a runner starts anything.       *)
BeforeFill == {"poll_stdin", "accept", "status", "stat", "stat_open", "stat_scan",
               "rrobin", "rrobin_requeue"} \cup Flushing

AfterSigint == ~run_flag =>
  /\ interrupted = "none"
  /\ \A j \in Jobs : proc[j] # "stop"
  /\ pc \in BeforeFill => running = <<>>
  /\ pc \in {"poll_stdin", "accept"} => waiting = <<>>
  /\ pc \notin Halted => \A j \in JobsIn(waiting) : j = Last(arrivals)

LoopEnds == pc = "exited" => ~run_flag

ShutdownInv == StoppedQueued /\ AfterSigint /\ LoopEnds
-----------------------------------------------------------------------------
LEMMA PidOfFront ==
  ASSUME NEW s \in Seq(Known), s # <<>>
  PROVE  Head(s).pid # NoPid => Head(s).pid = Head(s).job
<1>1. Head(s) \in Known
  BY HeadTailOf
<1> QED
  BY <1>1, KnownChanges DEF Known

(* The entry of a stopped job in waiting has its pid, so that flush_jobs   *)
(* kills it.                                                               *)
LEMMA PidOfStopped ==
  ASSUME TypeOK, StartInv, SignalInv, waiting # <<>>, Head(waiting).job \in Jobs,
         proc[Head(waiting).job] = "stop"
  PROVE  Head(waiting).pid = Head(waiting).job
<1>1. Head(waiting) = waiting[1] /\ 1 \in DOMAIN waiting
  BY TailFacts DEF TypeOK
<1>2. Head(waiting) \in Known
  <2>1. CASE Thread = "exec_push"
    <3>1. Head(waiting).job # Last(starts)
      BY <2>1 DEF SignalInv, StoppedPlaced
    <3> QED
      BY <1>1, <2>1, <3>1 DEF SignalInv, PidsHeld, NotPushed
  <2>2. CASE Thread # "exec_push"
    BY <2>2, HeadTailOf DEF StartInv, PidsKnown
  <2> QED
    BY <2>1, <2>2
<1>3. Head(waiting).job \in ToSet(starts)
  BY DEF SignalInv, StartedProcs
<1> QED
  BY <1>2, <1>3, KnownChanges DEF Known

LEMMA FirstStays ==
  ASSUME NEW s \in Seq(Process), s # <<>>, NEW k \in DOMAIN s, k # 1
  PROVE  RemoveAt(s, k) # <<>> /\ Head(RemoveAt(s, k)) = Head(s)
<1>1. /\ RemoveAt(s, k) \in Seq(Process) /\ Len(s) \in Nat \ {0} /\ DOMAIN s = 1..Len(s)
      /\ Len(RemoveAt(s, k)) = Len(s) - 1
      /\ \A a \in 1..Len(s)-1 : RemoveAt(s, k)[a] = s[IF a < k THEN a ELSE a + 1]
  BY RemoveAtFacts
<1>2. 1 \in 1..Len(s)-1 /\ 1 < k
  BY <1>1
<1>3. Len(RemoveAt(s, k)) # 0 /\ RemoveAt(s, k)[1] = s[1]
  BY <1>1, <1>2
<1>4. RemoveAt(s, k) # <<>>
  BY <1>1, <1>3, EmptySeq
<1> QED
  BY <1>1, <1>3, <1>4, HeadTailProperties

LEMMA StoppedStep ==
  ASSUME Policy # "mlfq", TypeOK, LocalsOK, EntriesInv, StartInv, SignalInv, StoppedQueued, Next
  PROVE  StoppedQueued'
<1> USE SchedulerAssumption, ChildrenAssumption
<1> USE DEF tableVars, histVars, locals, childVars, At
<1>t. /\ proc \in [Jobs -> ProcState] /\ waiting \in Seq(Process) /\ running \in Seq(Process)
      /\ running \in Seq(Known)
  BY DEF TypeOK, ChildrenTypeOK, StartInv, PidsKnown
<1>h. pc \notin Flushing \cup Halted => Thread = pc /\ interrupted = "none"
  BY DEF LocalsOK, Thread
<1>w. waiting # <<>> => /\ JobsIn(Tail(waiting)) = JobsBehind(waiting)
                        /\ JobsIn(waiting) = {Head(waiting).job} \cup JobsBehind(waiting)
  BY <1>t, TailJobs
(* Nobody is stopped, and the queue keeps whom it had.                     *)
<1>1. ASSUME Thread # "rrobin_requeue" \/ running = <<>> \/ pc = "flush_pop", pc # "group_stopped",
             \A j \in Jobs : proc'[j] = "stop" => proc[j] = "stop",
             \A j \in Jobs : proc'[j] = "stop" /\ j \in JobsIn(waiting) => j \in JobsIn(waiting)'
      PROVE  StoppedQueued'
  BY <1>1 DEF StoppedQueued
<1>2. ASSUME UNCHANGED <<waiting, running, Thread>>, pc' # "flush_pop",
             pc = "group_stopped" => pc' = "group_stopped",
             \A j \in Jobs : proc'[j] = "stop" => proc[j] = "stop"
      PROVE  StoppedQueued'
  <2>1. JobsIn(waiting)' = JobsIn(waiting)
    BY <1>2 DEF JobsIn
  <2>2. pc' # "flush_pop"
    BY <1>2
  <2> QED
    BY <1>2, <2>1 DEF StoppedQueued
<1>3. CASE \/ SigchldEnter \/ SigchldReturn \/ Types \/ \E j \in Jobs : Ends(j) \/ Computes(j)
  <2>1. UNCHANGED <<waiting, running, pc, Thread>>
    BY <1>3 DEF SigchldEnter, SigchldReturn, Types, Ends, Computes, Thread, loopVars
  <2>2. \A j \in Jobs : proc'[j] = "stop" => proc[j] = "stop"
    BY <1>t, <1>3 DEF SigchldEnter, SigchldReturn, Types, Ends, Computes, ChildExits, ChildComputes
  <2>3. JobsIn(waiting)' = JobsIn(waiting)
    BY <2>1 DEF JobsIn
  <2> QED
    BY <2>1, <2>2, <2>3 DEF StoppedQueued
<1>4. CASE SigintEnter
  <2>1. UNCHANGED <<waiting, running, Thread, proc>> /\ pc' = "flush" /\ pc # "group_stopped"
    BY <1>4 DEF SigintEnter, Thread, TypeOK, Locations, Halted
  <2> QED
    BY <1>2, <2>1
<1>5. ASSUME NEW i \in Jobs, SigchldReap(i) PROVE StoppedQueued'
  <2>1. /\ UNCHANGED <<waiting, pc, Thread>> /\ proc[i] = "zombie"
        /\ \A j \in Jobs : proc'[j] = "stop" => proc[j] = "stop"
    BY <1>t, <1>5 DEF SigchldReap, ReapChild, Thread, loopVars
  <2>2. JobsIn(waiting)' = JobsIn(waiting)
    BY <2>1 DEF JobsIn
  <2>3. CASE UNCHANGED running
    BY <2>1, <2>2, <2>3 DEF StoppedQueued
  <2>4. ASSUME NEW k \in DOMAIN running, running[k].pid = i, running' = RemoveAt(running, k)
        PROVE  StoppedQueued'
    <3> SUFFICES ASSUME NEW j \in Jobs, proc[j] = "stop", running # <<>>, Head(running).job = j
                 PROVE  running' # <<>> /\ Head(running').job = j
      BY <2>1, <2>2 DEF StoppedQueued
    <3>1. running[k].job = i
      <4>1. running[k] \in Known
        BY <1>t, ElementOfSeq, LenProperties
      <4> QED
        BY <2>4, <4>1, KnownChanges DEF Known
    <3>2. Head(running) = running[1]
      BY <1>t, TailFacts
    <3>3. k # 1
      BY <2>1, <3>1, <3>2
    <3> QED
      BY <1>t, <2>4, <3>3, FirstStays
  <2> QED
    BY <1>5, <2>3, <2>4 DEF SigchldReap, RemoveProcess
<1>6. CASE FlushReturn
  <2>1. UNCHANGED <<waiting, running, proc>> /\ pc = "flushed" /\ running = <<>>
    BY <1>6 DEF FlushReturn, StartInv, FlushedEmpty
  <2>2. JobsIn(waiting)' = JobsIn(waiting)
    BY <2>1 DEF JobsIn
  <2> QED
    BY <1>1, <2>1, <2>2
<1>7. CASE FlushKill
  <2>1. pc = "flush" /\ UNCHANGED <<waiting, running>> /\ JobsIn(waiting)' = JobsIn(waiting)
    BY <1>7 DEF FlushKill, JobsIn
  <2>2. CASE running = <<>>
    BY <1>1, <1>7, <2>1, <2>2 DEF FlushKill
  <2>3. CASE running # <<>>
    <3>1. TerminateProcess(Head(running), "flush_pop")
      BY <1>7, <2>3 DEF FlushKill
    <3>2. ASSUME NEW j \in Jobs, proc'[j] = "stop" PROVE proc[j] = "stop" /\ j # Head(running).job
      BY <1>t, <2>3, <3>1, <3>2, PidOfFront DEF TerminateProcess, KillChildren, Live
    <3> QED
      BY <2>1, <3>2 DEF StoppedQueued
  <2> QED
    BY <2>2, <2>3
<1>8. CASE FlushPop
  <2>1. pc = "flush_pop" /\ UNCHANGED <<waiting, proc>> /\ JobsIn(waiting)' = JobsIn(waiting)
    BY <1>8 DEF FlushPop, JobsIn
  <2> QED
    BY <1>1, <2>1
<1>9. CASE FlushQueue
  <2>1. pc = "flush_queue" /\ running = <<>> /\ ~QueueIsLevels
    BY <1>9 DEF FlushQueue, StartInv, FlushedEmpty, QueueIsLevels
  <2>2. CASE waiting = <<>>
    <3>1. UNCHANGED <<waiting, proc>>
      BY <1>9, <2>1, <2>2 DEF FlushQueue, QueueFlushed
    <3>2. JobsIn(waiting)' = JobsIn(waiting)
      BY <3>1 DEF JobsIn
    <3> QED
      BY <1>1, <2>1, <3>1, <3>2
  <2>3. CASE waiting # <<>>
    <3>1. waiting' = Tail(waiting) /\ FlushEntry(Head(waiting))
      BY <1>9, <2>1, <2>3 DEF FlushQueue
    <3>2. JobsIn(waiting)' = JobsBehind(waiting)
      BY <1>w, <2>3, <3>1 DEF JobsIn
    <3>3. ASSUME NEW j \in Jobs, proc'[j] = "stop" PROVE proc[j] = "stop" /\ j # Head(waiting).job
      <4>1. proc[j] = "stop"
        BY <1>t, <3>1, <3>3 DEF FlushEntry, KillChildren, Live
      <4>2. j = Head(waiting).job => Head(waiting).pid = j /\ j # NoPid
        BY <2>3, <4>1, PidOfStopped
      <4> QED
        BY <1>t, <3>1, <3>3, <4>1, <4>2 DEF FlushEntry, KillChildren, Live
    <3> QED
      BY <1>1, <1>w, <2>1, <2>3, <3>2, <3>3
  <2> QED
    BY <2>2, <2>3
<1>10. CASE RRobinPause /\ UNCHANGED loopVars
  <2>1. pc = "rrobin" /\ UNCHANGED <<waiting, running>> /\ JobsIn(waiting)' = JobsIn(waiting)
    BY <1>10 DEF RRobinPause, JobsIn
  <2>2. Thread = "rrobin" /\ Thread' = pc'
    BY <1>h, <1>10, <2>1 DEF Thread, Flushing, Halted, loopVars
  <2>3. CASE running = <<>>
    BY <1>1, <1>10, <2>1, <2>3 DEF RRobinPause
  <2>4. CASE running # <<>>
    <3>1. PauseProcess(Head(running), "rrobin_requeue") /\ copy' = Head(running)
      BY <1>10, <2>4 DEF RRobinPause
    <3>2. pc' = "group_stopped" \/ pc' = "rrobin_requeue"
      BY <3>1 DEF PauseProcess
    <3>3. ASSUME NEW j \in Jobs, proc'[j] = "stop", pc' # "group_stopped"
          PROVE  proc[j] = "stop" \/ j = Head(running).job
      BY <1>t, <2>4, <3>1, <3>3, PidOfFront DEF PauseProcess, StopChildren
    <3> QED
      BY <2>1, <2>2, <2>4, <3>2, <3>3 DEF StoppedQueued
  <2> QED
    BY <2>3, <2>4
<1>11. CASE RRobinRequeue
  <2>1. pc = "rrobin_requeue" /\ Thread = "rrobin_requeue" /\ UNCHANGED proc
    BY <1>h, <1>11 DEF RRobinRequeue, Flushing, Halted
  <2>2. copy \in Process
    BY <2>1 DEF LocalsOK, CopyHeld
  <2>3. JobsIn(waiting)' = JobsIn(waiting) \cup {copy.job}
    <3>1. JobsIn(Append(waiting, copy)) = JobsIn(waiting) \cup {copy.job}
      BY <1>t, <2>2, AppendJobs
    <3> QED
      BY <1>11, <3>1 DEF RRobinRequeue, Requeued, JobsIn
  <2>4. ASSUME NEW j \in Jobs, proc[j] = "stop" PROVE j \in JobsIn(waiting) \cup {copy.job}
    <3>1. CASE running # <<>> /\ Head(running).job = j
      <4>1. j \in JobsIn(running)
        BY <1>t, <3>1, TailJobs
      <4> QED
        BY <2>1, <2>4, <4>1 DEF SignalInv, StoppedPlaced
    <3> QED
      BY <2>1, <2>4, <3>1 DEF StoppedQueued
  <2> QED
    BY <2>1, <2>3, <2>4 DEF StoppedQueued
(* The entry that moves to running is of no stopped job.                   *)
<1>12. CASE ExecuteJobPush \/ RRobinPush
  <2>1. pc \in {"exec_push", "rrobin_push"} /\ Thread = pc /\ UNCHANGED proc
    BY <1>h, <1>12 DEF ExecuteJobPush, RRobinPush, Flushing, Halted
  <2>2. CASE waiting = <<>>
    <3>1. waiting' = waiting
      BY <1>12, <2>2 DEF ExecuteJobPush, RRobinPush
    <3>2. JobsIn(waiting)' = JobsIn(waiting)
      BY <3>1 DEF JobsIn
    <3> QED
      BY <1>1, <2>1, <3>2
  <2>3. CASE waiting # <<>>
    <3>1. waiting' = Tail(waiting)
      BY <1>12, <2>3 DEF ExecuteJobPush, RRobinPush, FrontToRunning
    <3>2. JobsIn(waiting)' = JobsBehind(waiting)
      BY <1>w, <2>3, <3>1 DEF JobsIn
    <3>3. ASSUME NEW j \in Jobs, proc[j] = "stop" PROVE j # Head(waiting).job
      BY <2>1, <2>3, <3>3 DEF SignalInv, StoppedPlaced, StartInv, FrontInHand
    <3> QED
      BY <1>1, <1>w, <2>1, <2>3, <3>2, <3>3
  <2> QED
    BY <2>2, <2>3
<1>13. CASE AddJob
  <2>1. PICK j \in Jobs \ ToSet(arrivals) : waiting' = <<NewProcess(j)>> \o waiting
    BY <1>13 DEF AddJob
  <2>2. NewProcess(j) \in Process
    BY DEF NewProcess, NoProcess, Process
  <2>3. JobsIn(<<NewProcess(j)>> \o waiting) = {NewProcess(j).job} \cup JobsIn(waiting)
    BY <1>t, <2>2, FrontJobs
  <2>4. JobsIn(waiting)' = {NewProcess(j).job} \cup JobsIn(waiting)
    BY <2>1, <2>3 DEF JobsIn
  <2>5. pc = "accept" /\ Thread = pc /\ UNCHANGED proc
    BY <1>h, <1>13 DEF AddJob, Flushing, Halted
  <2> QED
    BY <1>1, <2>4, <2>5
<1>14. CASE \/ Poll \/ PollStdin \/ FlushRequest \/ StatusCounts \/ StatusLists \/ Query
            \/ StatRead \/ StatOpen \/ StatScan \/ FifoRunner \/ ExecuteJobFork \/ RRobinFill
  <2>1. pc \in {"poll", "poll_stdin", "accept", "status", "stat", "stat_open", "stat_scan", "fifo",
                "exec_fork", "rrobin_fill"}
    BY <1>14 DEF Poll, PollStdin, FlushRequest, StatusCounts, StatusLists, Query, StatRead, StatOpen,
       StatScan, FifoRunner, ExecuteJobFork, RRobinFill
  <2>2. Thread = pc /\ pc # "group_stopped"
    BY <1>h, <2>1 DEF Flushing, Halted
  <2>3. UNCHANGED waiting
    BY <1>14 DEF Poll, PollStdin, FlushRequest, StatusCounts, StatusLists, Query, StatRead, StatOpen,
       StatScan, FifoRunner, ExecuteJob, ExecuteJobFork, RRobinFill
  <2>4. \A j \in Jobs : proc'[j] = "stop" => proc[j] = "stop"
    <3>1. CASE UNCHANGED proc
      BY <3>1
    <3>2. ASSUME NEW i, ForkChild(i) \/ ContinueChild(i)
          PROVE  \A j \in Jobs : proc'[j] = "stop" => proc[j] = "stop"
      BY <1>t, <3>2 DEF ForkChild, ContinueChild
    <3> QED
      BY <1>14, <3>1, <3>2 DEF Poll, PollStdin, FlushRequest, StatusCounts, StatusLists, Query,
         StatRead, StatOpen, StatScan, FifoRunner, ExecuteJob, ExecuteJobFork, RRobinFill,
         ResumeProcess
  <2>5. JobsIn(waiting)' = JobsIn(waiting)
    BY <2>3 DEF JobsIn
  <2> QED
    BY <1>1, <2>1, <2>2, <2>4, <2>5
<1>15. CASE \/ MlfqFront \/ MlfqPop \/ MlfqRequeue \/ MlfqBoostDue \/ MlfqBoost \/ MlfqAdmit
            \/ MlfqFill \/ MlfqPush
  <2>1. pc \in MlfqSteps
    BY <1>15 DEF MlfqFront, MlfqPop, MlfqRequeue, MlfqBoostDue, MlfqBoost, MlfqAdmit, MlfqFill,
       MlfqPush, MlfqSteps
  <2>2. Thread = pc
    BY <1>h, <2>1 DEF Flushing, Halted, MlfqSteps
  <2> QED
    BY <2>1, <2>2 DEF StartInv, ThreadOfPolicy
<1> QED
  BY <1>3, <1>4, <1>5, <1>6, <1>7, <1>8, <1>9, <1>10, <1>11, <1>12, <1>13, <1>14, <1>15
     DEF Next, MainStep, Request, SchedulerStep, Handler
-----------------------------------------------------------------------------
(* sigint_handler runs once; it clears run_flag when it returns.           *)
LEMMA RunFlag ==
  Next => \/ UNCHANGED run_flag /\ (~run_flag /\ interrupted = "none" => interrupted' = "none")
          \/ FlushReturn /\ interrupted # "none"
<1> SUFFICES ASSUME Next, ~(FlushReturn /\ interrupted # "none")
    PROVE  UNCHANGED run_flag /\ (~run_flag /\ interrupted = "none" => interrupted' = "none")
  OBVIOUS
<1>1. CASE MainStep
  BY <1>1 DEF MainStep, Poll, PollStdin, Request, AddJob, FlushRequest, FlushReturn, StatusCounts,
     StatusLists, Query, SchedulerStep, loopVars
<1>2. CASE Handler \/ SigintEnter \/ Types \/ \E j \in Jobs : Ends(j) \/ Computes(j)
  BY <1>2 DEF Handler, SigchldEnter, SigchldReturn, SigchldReap, SigintEnter, Types, Ends, Computes,
     loopVars
<1> QED
  BY <1>1, <1>2 DEF Next

LEMMA LoopEndsStep == TypeOK /\ LoopEnds /\ Next => LoopEnds'
<1> SUFFICES ASSUME TypeOK, LoopEnds, Next PROVE LoopEnds'
  OBVIOUS
<1>1. CASE FlushReturn /\ interrupted # "none"
  BY <1>1 DEF FlushReturn, ClearRunFlag, LoopEnds
<1>2. CASE Poll
  BY <1>2 DEF Poll, LoopEnds
<1>3. CASE UNCHANGED <<pc, run_flag>>
  BY <1>3 DEF LoopEnds
<1>4. CASE (Request /\ ~(FlushReturn /\ interrupted # "none")) \/ PollStdin
  BY <1>4 DEF Request, PollStdin, AddJob, FlushRequest, FlushReturn, StatusCounts, StatusLists, Query,
     AfterAccept, LoopEnds
<1>5. CASE FifoRunner \/ ExecuteJobFork \/ ExecuteJobPush \/ StatRead \/ StatOpen \/ StatScan
  BY <1>5, SchedulerAssumption DEF FifoRunner, ExecuteJob, ExecuteJobFork, ExecuteJobPush, StatRead,
     StatOpen, StatScan, CallersLoop, LoopEnds
<1>6. CASE RRobinPause \/ RRobinRequeue \/ RRobinFill \/ RRobinPush
  BY <1>6 DEF RRobinPause, RRobinRequeue, RRobinFill, RRobinPush, PauseProcess, ExecuteJob, LoopEnds
<1>7. CASE \/ MlfqFront \/ MlfqPop \/ MlfqRequeue \/ MlfqBoostDue \/ MlfqBoost \/ MlfqAdmit
           \/ MlfqFill \/ MlfqPush
  BY <1>7 DEF MlfqFront, MlfqPop, MlfqRequeue, PauseProcess, MlfqBoostDue, MlfqBoost, MlfqAdmit,
     MlfqFill, MlfqDispatch, MlfqPush, At, LoopEnds
<1>8. CASE FlushKill \/ FlushPop \/ FlushQueue
  BY <1>8 DEF FlushKill, TerminateProcess, FlushPop, FlushQueue, FlushEntry, QueueFlushed, At, LoopEnds
<1>9. CASE Handler \/ SigintEnter \/ Types \/ \E j \in Jobs : Ends(j) \/ Computes(j)
  BY <1>9 DEF Handler, SigchldEnter, SigchldReturn, SigchldReap, SigintEnter, Types, Ends, Computes,
     loopVars, LoopEnds
<1> QED
  BY <1>1, <1>2, <1>4, <1>5, <1>6, <1>7, <1>8, <1>9 DEF Next, MainStep, Request, SchedulerStep

LEMMA EmptyShrinks == Shrinking => /\ running = <<>> => running' = <<>>
                                   /\ waiting = <<>> => waiting' = <<>>
  BY DEF Shrinking, Shortened, Popped

LEMMA AfterSigintStep ==
  ASSUME Policy # "mlfq", TypeOK, LocalsOK, EntriesInv, StartInv, StoppedQueued, AfterSigint, Next
  PROVE  AfterSigint'
<1> USE SchedulerAssumption, ChildrenAssumption
<1> USE DEF tableVars, histVars, locals, childVars, At
<1>t. proc \in [Jobs -> ProcState] /\ waiting \in Seq(Process) /\ running \in Seq(Process)
  BY DEF TypeOK, ChildrenTypeOK
<1>1. CASE FlushReturn /\ interrupted # "none"
  <2>1. /\ pc = "flushed" /\ interrupted' = "none" /\ UNCHANGED <<proc, running, waiting, arrivals>>
    BY <1>1 DEF FlushReturn
  <2>2. running = <<>> /\ waiting = <<>>
    BY <2>1 DEF StartInv, FlushedEmpty
  <2>3. JobsIn(waiting) = {} /\ JobsIn(waiting)' = {}
    BY <2>1, <2>2 DEF JobsIn
  <2>4. \A j \in Jobs : proc[j] # "stop"
    BY <2>1, <2>2, <2>3 DEF StoppedQueued
  <2> QED
    BY <2>1, <2>2, <2>3, <2>4 DEF AfterSigint
<1>2. CASE run_flag'
  BY <1>2 DEF AfterSigint
<1>3. CASE ~run_flag' /\ UNCHANGED run_flag /\ (~run_flag /\ interrupted = "none" => interrupted' = "none")
  <2>1. /\ interrupted = "none" /\ interrupted' = "none"
        /\ \A j \in Jobs : proc[j] # "stop"
        /\ pc \in BeforeFill => running = <<>>
        /\ pc \in {"poll_stdin", "accept"} => waiting = <<>>
        /\ pc \notin Halted => \A j \in JobsIn(waiting) : j = Last(arrivals)
    BY <1>3 DEF AfterSigint
  <2>2. Thread = pc /\ Thread' = pc' /\ LocalsHere
    BY <2>1, LocalsAtPc DEF Thread
  (* Entries are removed, if anything.                                     *)
  <2>3. ASSUME Quiet, Shrinking, UNCHANGED arrivals,
               pc' = pc \/ pc' \in Halted \/ (pc \in BeforeFill /\ pc' \notin {"poll_stdin", "accept"})
                 \/ (pc \notin Halted /\ pc' \notin BeforeFill)
        PROVE  AfterSigint'
    <3>1. \A j \in Jobs : proc'[j] # "stop"
      BY <2>1, <2>3 DEF Quiet
    <3>2. JobsIn(waiting)' \subseteq JobsIn(waiting)
      BY <2>3, ShrinkingJobs
    <3>3. "poll_stdin" \in BeforeFill /\ "accept" \in BeforeFill /\ BeforeFill \cap Halted = {}
      BY DEF BeforeFill, Flushing, Halted
    <3> QED
      BY <2>1, <2>3, <3>1, <3>2, <3>3, EmptyShrinks DEF AfterSigint
  <2>4. ASSUME UNCHANGED <<proc, tableVars, arrivals>>,
               pc' \in Halted \/ (pc \in BeforeFill /\ pc' \notin {"poll_stdin", "accept"})
                 \/ (pc \notin Halted /\ pc' \notin BeforeFill)
        PROVE  AfterSigint'
    BY <2>3, <2>4, UnchangedQuiet, UnchangedShrinks
  <2>5. CASE UNCHANGED <<Thread, copy, arrivals, starts, shown>> /\ Shrinking /\ Quiet
    BY <2>2, <2>3, <2>5
  <2>6. CASE Poll
    BY <2>1, <2>4, <2>6, <1>3 DEF Poll, Halted
  <2>7. CASE PollStdin
    <3>1. /\ UNCHANGED <<proc, tableVars, arrivals>> /\ pc = "poll_stdin"
          /\ pc' \in {"accept", "stat", "poll"}
      BY <2>7 DEF PollStdin, AfterAccept
    <3>2. running = <<>> /\ waiting = <<>> /\ JobsIn(waiting)' = {}
      BY <2>1, <3>1 DEF BeforeFill, JobsIn
    <3> QED
      BY <2>1, <3>1, <3>2 DEF AfterSigint
  <2>8. CASE AddJob
    <3>1. PICK j \in Jobs \ ToSet(arrivals) : /\ waiting' = <<NewProcess(j)>> \o waiting
                                              /\ arrivals' = Append(arrivals, j)
      BY <2>8 DEF AddJob
    <3>2. /\ UNCHANGED <<proc, running>> /\ pc = "accept" /\ pc' \in {"stat", "poll"}
      BY <2>8 DEF AddJob, AfterAccept
    <3>3. running = <<>> /\ waiting = <<>> /\ JobsIn(waiting) = {}
      BY <2>1, <3>2 DEF BeforeFill, JobsIn
    <3>4. NewProcess(j) \in Process /\ NewProcess(j).job = j
      BY DEF NewProcess, NoProcess, Process
    <3>5. JobsIn(<<NewProcess(j)>> \o waiting) = {j} \cup JobsIn(waiting)
      BY <1>t, <3>4, FrontJobs
    <3>6. JobsIn(waiting)' = {j}
      BY <3>1, <3>3, <3>5 DEF JobsIn
    <3>7. Last(arrivals') = j
      BY <3>1, LastAppended DEF TypeOK
    <3> QED
      BY <2>1, <3>2, <3>3, <3>6, <3>7 DEF AfterSigint
  <2>9. CASE FlushRequest \/ StatusCounts \/ StatusLists \/ Query
    BY <2>4, <2>9 DEF FlushRequest, StatusCounts, StatusLists, Query, AfterAccept, BeforeFill, Flushing,
       Halted
  <2>10. CASE FlushReturn
    BY <2>1, <2>4, <2>10 DEF FlushReturn, AfterAccept, BeforeFill, Flushing, Halted
  <2>11. CASE StatRead \/ StatOpen
    BY <2>4, <2>11 DEF StatRead, StatOpen, BeforeFill, Flushing, Halted
  <2>12. CASE StatScan
    <3>1. idx >= 1 /\ idx \in Nat /\ pc = "stat_scan" /\ running = <<>>
      BY <2>1, <2>2, <2>12 DEF StatScan, LocalsHere, BeforeFill, TypeOK
    <3>2. UNCHANGED running
      BY <2>12, <3>1, EmptySeq DEF StatScan
    <3> QED
      BY <2>4, <2>12, <3>2 DEF StatScan, BeforeFill, Flushing, Halted
  <2>13. CASE FifoRunner \/ RRobinPause
    <3>1. pc \in {"fifo", "rrobin"} /\ UNCHANGED <<tableVars, arrivals>>
      BY <2>13 DEF FifoRunner, ExecuteJob, RRobinPause
    <3>2. UNCHANGED proc /\ pc' \in {"exec_fork", "poll", "rrobin_fill"}
      BY <2>1, <2>13 DEF FifoRunner, ExecuteJob, RRobinPause, BeforeFill
    <3> QED
      BY <2>4, <3>1, <3>2 DEF BeforeFill, Flushing, Halted
  <2>14. CASE RRobinRequeue
    <3>1. pc = "rrobin_requeue" /\ running = <<>>
      BY <2>1, <2>14 DEF RRobinRequeue, BeforeFill
    <3>2. pc' = "undefined" /\ UNCHANGED <<proc, running>>
      BY <2>14, <3>1 DEF RRobinRequeue
    <3> QED
      BY <2>1, <3>1, <3>2 DEF AfterSigint, Halted, BeforeFill, Flushing
  <2>15. CASE ExecuteJobFork
    <3>1. \A j \in Jobs : proc'[j] # "stop"
      BY <1>t, <2>1, <2>15 DEF ExecuteJobFork, ForkChild
    <3>2. /\ UNCHANGED <<tableVars, arrivals>> /\ pc = "exec_fork"
          /\ pc' \in {"exec_push", "fifo", "rrobin_fill"}
      BY <2>15 DEF ExecuteJobFork, CallersLoop
    <3>3. JobsIn(waiting)' = JobsIn(waiting)
      BY <3>2 DEF JobsIn
    <3> QED
      BY <2>1, <3>1, <3>2, <3>3 DEF AfterSigint, BeforeFill, Flushing, Halted
  <2>16. CASE RRobinFill
    <3>1. \A j \in Jobs : proc'[j] # "stop"
      BY <1>t, <2>1, <2>16 DEF RRobinFill, ExecuteJob, ResumeProcess, ContinueChild
    <3>2. /\ UNCHANGED <<tableVars, arrivals>> /\ pc = "rrobin_fill"
          /\ pc' \in {"exec_fork", "rrobin_push", "poll"}
      BY <2>16 DEF RRobinFill, ExecuteJob
    <3>3. JobsIn(waiting)' = JobsIn(waiting)
      BY <3>2 DEF JobsIn
    <3> QED
      BY <2>1, <3>1, <3>2, <3>3 DEF AfterSigint, BeforeFill, Flushing, Halted
  <2>17. CASE ExecuteJobPush \/ RRobinPush
    <3>1. /\ pc \in {"exec_push", "rrobin_push"} /\ pc' \in {"fifo", "rrobin_fill", "undefined"}
          /\ UNCHANGED <<proc, arrivals>> /\ Popped(waiting', waiting)
      BY <2>17 DEF ExecuteJobPush, RRobinPush, CallersLoop, FrontToRunning, Popped
    <3>2. JobsIn(waiting)' \subseteq JobsIn(waiting)
      <4>1. JobsIn(waiting') \subseteq JobsIn(waiting)
        BY <1>t, <3>1, ShortenedJobs DEF Shortened
      <4> QED
        BY <4>1 DEF JobsIn
    <3> QED
      BY <2>1, <3>1, <3>2 DEF AfterSigint, BeforeFill, Flushing, Halted
  <2>18. CASE \/ MlfqFront \/ MlfqPop \/ MlfqRequeue \/ MlfqBoostDue \/ MlfqBoost \/ MlfqAdmit
              \/ MlfqFill \/ MlfqPush
    <3>1. pc \in MlfqSteps
      BY <2>18 DEF MlfqFront, MlfqPop, MlfqRequeue, MlfqBoostDue, MlfqBoost, MlfqAdmit, MlfqFill,
         MlfqPush, MlfqSteps
    <3> QED
      BY <2>2, <3>1 DEF StartInv, ThreadOfPolicy
  <2>19. CASE FlushKill \/ FlushPop \/ FlushQueue
    <3>1. /\ UNCHANGED arrivals /\ pc \in BeforeFill /\ pc' \notin {"poll_stdin", "accept"}
      BY <2>19 DEF FlushKill, TerminateProcess, FlushPop, FlushQueue, FlushEntry, QueueFlushed,
         BeforeFill, Flushing
    <3> QED
      BY <2>3, <2>19, <3>1, FlushShrinks, FlushQuiet
  <2> QED
    BY <2>5, <2>6, <2>7, <2>8, <2>9, <2>10, <2>11, <2>12, <2>13, <2>14, <2>15, <2>16, <2>17, <2>18,
       <2>19, Interruption DEF Request, SchedulerStep
<1> QED
  BY <1>1, <1>2, <1>3, RunFlag
-----------------------------------------------------------------------------
LEMMA ShutdownAlways ==
  ASSUME Policy # "mlfq"
  PROVE  Spec => [](IInv /\ EntriesInv /\ StartInv /\ SignalInv /\ ShutdownInv)
<1>1. Init => ShutdownInv
  BY DEF Init, ChildrenInit, ShutdownInv, StoppedQueued, AfterSigint, LoopEnds
<1>2. IInv /\ EntriesInv /\ StartInv /\ SignalInv /\ ShutdownInv /\ [Next]_vars => ShutdownInv'
  <2> SUFFICES ASSUME IInv, EntriesInv, StartInv, SignalInv, ShutdownInv, [Next]_vars
      PROVE ShutdownInv'
    OBVIOUS
  <2>1. CASE UNCHANGED vars
    <3>1. UNCHANGED <<childVars, tableVars, arrivals, pc, Thread, run_flag, interrupted>>
      BY <2>1 DEF vars, histVars, loopVars, Thread
    <3>2. UNCHANGED <<proc, running, waiting>> /\ JobsIn(waiting)' = JobsIn(waiting)
      BY <3>1 DEF childVars, tableVars, JobsIn
    <3> QED
      BY <3>1, <3>2 DEF ShutdownInv, StoppedQueued, AfterSigint, LoopEnds
  <2>2. CASE Next
    BY <2>2, StoppedStep, AfterSigintStep, LoopEndsStep DEF IInv, ShutdownInv
  <2> QED
    BY <2>1, <2>2
<1> QED
  BY <1>1, <1>2, SignalAlways, PTL DEF Spec

(* Under fifo and round robin, ^C leaves no stopped child behind, wherever *)
(* it meets the scheduler: flush_jobs finds each, be its entry in waiting  *)
(* or still in running with its SIGSTOP already sent                       *)
(* (pq.cpp:82-85, scheduler.cpp:286-299,444-453).                          *)
THEOREM NobodyLeftStopped == ASSUME Policy # "mlfq" PROVE Spec => []NoStoppedOrphan
<1>1. ShutdownInv => NoStoppedOrphan
  BY DEF ShutdownInv, AfterSigint, LoopEnds, NoStoppedOrphan
<1> QED
  BY <1>1, ShutdownAlways, PTL

-----------------------------------------------------------------------------
(* Under mlfq a process is stopped in the step that queues it in its       *)
(* level, and resumed or killed in the one that pops it.                   *)
StoppedInLevels ==
  pc # "group_stopped" => \A j \in Jobs : proc[j] = "stop" => j \in JobsInLevels

(* The other levels keep their jobs when one of them changes.              *)
LEMMA OneLevelChanges ==
  ASSUME TypeOK, NEW l \in 0..NumLevels-1, NEW t, levels' = [levels EXCEPT ![l] = t],
         NEW j, j \in JobsIn(t) \/ (j \in JobsInLevels /\ (j \in JobsIn(levels[l]) => j \in JobsIn(t)))
  PROVE  j \in JobsInLevels'
<1>1. levels'[l] = t /\ \A m \in 0..NumLevels-1 : m # l => levels'[m] = levels[m]
  BY DEF TypeOK
<1>2. JobsInLevels' = UNION {JobsIn(levels'[m]) : m \in 0..NumLevels-1}
  BY DEF JobsInLevels, JobsIn
<1>3. CASE j \in JobsIn(t)
  BY <1>1, <1>2, <1>3
<1>4. CASE j \notin JobsIn(t)
  <2>1. PICK m \in 0..NumLevels-1 : j \in JobsIn(levels[m])
    BY <1>4 DEF JobsInLevels
  <2> QED
    BY <1>1, <1>2, <1>4, <2>1
<1> QED
  BY <1>3, <1>4

(* What the thread or flush_jobs pops from a level is not stopped any more.*)
LEMMA PoppedLevel ==
  ASSUME TypeOK, StartInv, SignalInv, NEW l \in 0..NumLevels-1, levels[l] # <<>>,
         levels' = [levels EXCEPT ![l] = Tail(levels[l])],
         NEW j \in Jobs, proc[j] = "stop", j \in JobsInLevels,
         Head(levels[l]).pid = j => proc'[j] # "stop", proc'[j] = "stop"
  PROVE  j \in JobsInLevels'
<1> DEFINE q == Head(levels[l])
           t == Tail(levels[l])
<1>1. levels[l] \in Seq(Process) /\ levels[l] \in Seq(Known)
  BY DEF TypeOK, StartInv, PidsKnown
<1>2. JobsIn(levels[l]) = {q.job} \cup JobsIn(t)
  BY <1>1, TailJobs
<1>3. q \in Known
  BY <1>1, HeadTailOf
<1>4. j # q.job
  <2>1. j \in ToSet(starts)
    BY DEF SignalInv, StartedProcs
  <2>2. q.job = j => q.pid = j
    BY <1>3, <2>1, KnownChanges DEF Known
  <2> QED
    BY <2>2
<1>5. j \in JobsIn(levels[l]) => j \in JobsIn(t)
  BY <1>2, <1>4
<1> HIDE DEF t
<1> QED
  BY <1>5, OneLevelChanges DEF t

LEMMA StoppedLevelStep ==
  ASSUME Policy = "mlfq", IInv, EntriesInv, StartInv, SignalInv, StoppedInLevels, Next
  PROVE  StoppedInLevels'
<1> SUFFICES ASSUME NEW j \in Jobs, proc'[j] = "stop", pc' # "group_stopped"
             PROVE  j \in JobsInLevels'
  BY DEF StoppedInLevels
<1> USE SchedulerAssumption, ChildrenAssumption
<1> USE DEF At, tableVars, childVars
<1>t. /\ TypeOK /\ LocalsOK /\ proc \in [Jobs -> ProcState] /\ waiting \in Seq(Process)
      /\ levels \in [0..NumLevels-1 -> Seq(Process)]
  BY DEF IInv, TypeOK, ChildrenTypeOK
<1>h. pc \notin Flushing \cup Halted => Thread = pc /\ interrupted = "none"
  BY <1>t DEF LocalsOK, Thread
<1>g. proc[j] = "stop" => j \in JobsInLevels
  BY <1>t, GroupStopped DEF StoppedInLevels
<1>1. CASE UNCHANGED levels /\ proc[j] = "stop"
  <2>1. JobsInLevels' = JobsInLevels
    BY <1>1 DEF JobsInLevels, JobsIn
  <2> QED
    BY <1>1, <1>g, <2>1
<1>2. CASE \/ Handler \/ SigintEnter \/ Types \/ \E i \in Jobs : Ends(i) \/ Computes(i)
           \/ Poll \/ PollStdin \/ Request
  <2>1. UNCHANGED levels
    BY <1>2 DEF Handler, SigchldEnter, SigchldReturn, SigchldReap, SigintEnter, Types, Ends, Computes,
       Poll, PollStdin, Request, AddJob, FlushRequest, FlushReturn, StatusCounts, StatusLists, Query
  <2>2. Quiet
    <3>1. ASSUME NEW i \in Jobs, ChildExits(i) \/ ChildComputes(i) \/ ReapChild(i) PROVE Quiet
      BY <1>t, <3>1 DEF ChildExits, ChildComputes, ReapChild, Quiet, Live
    <3> QED
      BY <1>2, <3>1, UnchangedQuiet DEF Handler, SigchldEnter, SigchldReturn, SigchldReap, SigintEnter,
         Types, Ends, Computes, Poll, PollStdin, Request, AddJob, FlushRequest, FlushReturn,
         StatusCounts, StatusLists, Query
  <2> QED
    BY <1>1, <2>1, <2>2 DEF Quiet
<1>3. CASE \/ ExecuteJobPush \/ StatRead \/ StatOpen \/ StatScan \/ FifoRunner
           \/ MlfqFront \/ MlfqPop \/ MlfqBoostDue \/ MlfqPush
  <2>1. UNCHANGED <<levels, proc>>
    BY <1>3 DEF ExecuteJobPush, StatRead, StatOpen, StatScan, FifoRunner, ExecuteJob,
       MlfqFront, MlfqPop, MlfqBoostDue, MlfqPush
  <2> QED
    BY <1>1, <2>1
(* These are steps of the other policies. *)
<1>4. CASE \/ ExecuteJobFork \/ RRobinPause \/ RRobinRequeue \/ RRobinFill \/ RRobinPush
  <2>1. pc \in {"exec_fork", "rrobin", "rrobin_requeue", "rrobin_fill", "rrobin_push"}
    BY <1>4 DEF ExecuteJobFork, RRobinPause, RRobinRequeue, RRobinFill, RRobinPush
  <2>2. Thread = pc
    BY <1>h, <2>1 DEF Flushing, Halted
  <2> QED
    BY <2>1, <2>2 DEF StartInv, ThreadOfPolicy
<1>5. CASE FlushKill \/ FlushPop
  <2>1. UNCHANGED levels
    BY <1>5 DEF FlushKill, FlushPop
  <2> QED
    BY <1>t, <1>1, <1>5, <2>1, FlushQuiet DEF Quiet
<1>6. CASE FlushQueue
  <2>1. proc[j] = "stop"
    BY <1>t, <1>6, FlushQuiet DEF Quiet
  <2>2. CASE UNCHANGED levels
    BY <1>1, <2>1, <2>2
  <2>3. ASSUME NEW l \in 0..NumLevels-1, levels[l] # <<>>, FlushEntry(Head(levels[l])),
               levels' = [levels EXCEPT ![l] = Tail(levels[l])]
        PROVE  j \in JobsInLevels'
    <3>1. Head(levels[l]).pid = j => proc'[j] # "stop"
      BY <1>t, <2>3 DEF FlushEntry, KillChildren, Live
    <3> QED
      BY <1>t, <1>g, <2>1, <2>3, <3>1, PoppedLevel
  <2> QED
    BY <1>6, <2>2, <2>3 DEF FlushQueue, QueueIsLevels, QueueFlushed
<1>7. CASE MlfqRequeue
  <2>1. pc = "mlfq_requeue" /\ Thread = pc /\ copy \in Process /\ copy \in Known
    <3>1. pc = "mlfq_requeue" /\ Thread = pc
      BY <1>h, <1>7 DEF MlfqRequeue, Flushing, Halted
    <3> QED
      BY <1>t, <3>1 DEF LocalsOK, CopyHeld, StartInv, PidsKnown, Moving
  <2>2. copy.pid # NoPid /\ copy.pid = copy.job
    BY <1>7, <2>1, KnownChanges DEF MlfqRequeue, PauseProcess, Known
  <2>3. proc[j] = "stop" \/ j = copy.job
    BY <1>t, <1>7, <2>2 DEF MlfqRequeue, PauseProcess, StopChildren
  <2> DEFINE s == levels[copy.priority]
             t == Append(s, copy)
  <2>4. copy.priority \in 0..NumLevels-1 /\ s \in Seq(Process)
    BY <1>t, <2>1 DEF Process
  <2>5. JobsIn(t) = JobsIn(s) \cup {copy.job}
    BY <2>1, <2>4, AppendJobs
  <2>6. levels' = [levels EXCEPT ![copy.priority] = t]
    BY <1>7, <2>2 DEF MlfqRequeue
  <2> HIDE DEF t
  <2> QED
    BY <1>t, <1>g, <2>3, <2>4, <2>5, <2>6, OneLevelChanges
<1>8. CASE MlfqBoost
  <2>1. proc[j] = "stop" /\ j \in JobsInLevels
    BY <1>8, <1>g DEF MlfqBoost
  <2>2. CASE idx < NumLevels
    <3>1. idx \in 0..NumLevels-1 /\ idx # 0 /\ 0 \in 0..NumLevels-1
      <4>1. Thread = "mlfq_boosting"
        BY <1>h, <1>8 DEF MlfqBoost, Flushing, Halted
      <4> QED
        BY <1>t, <2>2, <4>1 DEF LocalsOK, TypeOK
    <3> DEFINE b == Boosted(levels[idx])
               t == levels[0] \o b
    <3>2. levels' = [levels EXCEPT ![0] = t, ![idx] = <<>>]
      BY <1>8, <2>2 DEF MlfqBoost
    <3>3. b \in Seq(Process) /\ JobsIn(b) = JobsIn(levels[idx]) /\ levels[0] \in Seq(Process)
      BY <1>t, <3>1, BoostedType, BoostedJobs
    <3> HIDE DEF b
    <3>4. JobsIn(t) = JobsIn(levels[0]) \cup JobsIn(levels[idx])
      BY <3>3, ConcatJobs
    <3> HIDE DEF t
    <3>5. /\ levels'[0] = t
          /\ \A m \in 0..NumLevels-1 : m # 0 /\ m # idx => levels'[m] = levels[m]
      BY <1>t, <3>1, <3>2
    <3>6. PICK m \in 0..NumLevels-1 : j \in JobsIn(levels[m])
      BY <2>1 DEF JobsInLevels
    <3>7. \E k \in 0..NumLevels-1 : j \in JobsIn(levels'[k])
      BY <3>1, <3>4, <3>5, <3>6
    <3> QED
      BY <3>7 DEF JobsInLevels, JobsIn
  <2>3. CASE ~(idx < NumLevels)
    BY <1>1, <1>8, <2>1, <2>3 DEF MlfqBoost
  <2> QED
    BY <2>2, <2>3
<1>9. CASE MlfqAdmit
  <2> DEFINE t == levels[0] \o waiting
  <2>1. proc[j] = "stop" /\ levels' = [levels EXCEPT ![0] = t] /\ 0 \in 0..NumLevels-1
    BY <1>9 DEF MlfqAdmit, AdmitWaiting
  <2>2. JobsIn(t) = JobsIn(levels[0]) \cup JobsIn(waiting)
    BY <1>t, <2>1, ConcatJobs
  <2> HIDE DEF t
  <2> QED
    BY <1>t, <1>g, <2>1, <2>2, OneLevelChanges
<1>10. CASE MlfqFill
  <2>1. CASE UNCHANGED <<levels, proc>>
    BY <1>1, <2>1
  <2>2. CASE idx < NumLevels /\ levels[idx] # <<>> /\ MlfqDispatch
    <3>1. idx \in 0..NumLevels-1
      <4>1. Thread = "mlfq_fill"
        BY <1>h, <1>10 DEF MlfqFill, Flushing, Halted
      <4> QED
        BY <1>t, <2>2, <4>1 DEF LocalsOK, TypeOK
    <3> DEFINE q == Head(levels[idx])
    <3>2. levels' = [levels EXCEPT ![idx] = Tail(levels[idx])]
      BY <2>2 DEF MlfqDispatch
    <3>3. \/ q.pid = NoPid /\ (UNCHANGED proc \/ ForkChild(q.job))
          \/ q.pid # NoPid /\ ContinueChild(q.pid)
      BY <2>2 DEF MlfqDispatch, ResumeProcess
    <3> HIDE DEF q
    <3>4. proc[j] = "stop" /\ (q.pid = j => proc'[j] # "stop")
      BY <1>t, <3>3 DEF ForkChild, ContinueChild
    <3> QED
      BY <1>t, <1>g, <2>2, <3>1, <3>2, <3>4, PoppedLevel DEF q
  <2> QED
    BY <1>10, <2>1, <2>2 DEF MlfqFill
<1> QED
  BY <1>2, <1>3, <1>4, <1>5, <1>6, <1>7, <1>8, <1>9, <1>10 DEF Next, MainStep, SchedulerStep

(* Whoever is stopped is queued, or in the hand of rRobin_runner on the    *)
(* way there, for every policy and whatever the handlers and ^C remove     *)
(* while the runners move entries: no process is stopped for ever because  *)
(* its entry was lost (scheduler.cpp:286-298,308-315,336-342,425-453).     *)
THEOREM NobodyStoppedIsLost == Spec => []StoppedAreQueued
<1>1. CASE Policy = "mlfq"
  <2>1. Init => StoppedInLevels
    BY DEF Init, ChildrenInit, StoppedInLevels
  <2>2. IInv /\ EntriesInv /\ StartInv /\ SignalInv /\ StoppedInLevels /\ [Next]_vars
          => StoppedInLevels'
    <3> SUFFICES ASSUME IInv, EntriesInv, StartInv, SignalInv, StoppedInLevels, [Next]_vars
                 PROVE  StoppedInLevels'
      OBVIOUS
    <3>1. CASE UNCHANGED vars
      BY <3>1 DEF vars, childVars, tableVars, StoppedInLevels, JobsInLevels, JobsIn
    <3>2. CASE Next
      BY <1>1, <3>2, StoppedLevelStep
    <3> QED
      BY <3>1, <3>2
  <2>3. IInv /\ StoppedInLevels => StoppedAreQueued
    <3> SUFFICES ASSUME IInv, StoppedInLevels, pc # "group_stopped", NEW j \in Jobs, proc[j] = "stop"
                 PROVE  \E e \in Queued : e.job = j
      BY DEF StoppedAreQueued
    <3>1. PICK l \in 0..NumLevels-1 : j \in JobsIn(levels[l])
      BY DEF StoppedInLevels, JobsInLevels
    <3>2. PICK k \in DOMAIN levels[l] : levels[l][k].job = j
      BY <3>1 DEF JobsIn
    <3>3. l \in DOMAIN levels
      BY DEF IInv, TypeOK
    <3> QED
      BY <3>2, <3>3 DEF Queued
  <2> QED
    BY <2>1, <2>2, <2>3, SignalAlways, PTL DEF Spec
<1>2. CASE Policy # "mlfq"
  <2>1. IInv /\ SignalInv /\ ShutdownInv => StoppedAreQueued
    <3> SUFFICES ASSUME IInv, SignalInv, ShutdownInv, pc # "group_stopped", NEW j \in Jobs, proc[j] = "stop"
                 PROVE  \/ \E e \in Queued : e.job = j
                        \/ Thread = "rrobin_requeue" /\ copy.job = j
      BY DEF StoppedAreQueued
    <3>1. CASE j \in JobsIn(waiting)
      BY <3>1 DEF JobsIn, Queued
    <3>2. CASE running # <<>> /\ Head(running).job = j
      <4>1. j \in JobsIn(running)
        BY <3>2, TailJobs DEF IInv, TypeOK
      <4> QED
        BY <4>1 DEF SignalInv, StoppedPlaced
    <3> QED
      BY <3>1, <3>2 DEF ShutdownInv, StoppedQueued
  <2> QED
    BY <1>2, <2>1, ShutdownAlways, PTL
<1> QED
  BY <1>1, <1>2
-----------------------------------------------------------------------------
LEMMA OnlyForksStart ==
  Next => starts' = starts \/ ExecuteJobFork \/ MlfqFill
<1> USE DEF histVars
<1>1. SchedulerStep /\ ~ExecuteJobFork /\ ~MlfqFill => starts' = starts
  BY DEF SchedulerStep, ExecuteJobPush, StatRead, StatOpen, StatScan, FifoRunner, ExecuteJob,
     RRobinPause, RRobinRequeue, RRobinFill, RRobinPush, MlfqFront, MlfqPop, MlfqRequeue,
     MlfqBoostDue, MlfqBoost, MlfqAdmit, MlfqPush, FlushKill, FlushPop, FlushQueue
<1>2. Poll \/ PollStdin \/ Request => starts' = starts
  BY DEF Poll, PollStdin, Request, AddJob, FlushRequest, FlushReturn, StatusCounts, StatusLists, Query
<1>3. Handler \/ SigintEnter \/ Types \/ (\E j \in Jobs : Ends(j) \/ Computes(j)) => starts' = starts
  BY DEF Handler, SigchldEnter, SigchldReturn, SigchldReap, SigintEnter, Types, Ends, Computes
<1> QED
  BY <1>1, <1>2, <1>3 DEF Next, MainStep

(* Under fifo and round robin nothing that was queued when ^C came is      *)
(* started once the handler is done, but the job executeJob had in hand,   *)
(* whose start then ends in front() of an empty deque; what else starts    *)
(* was accepted later, in the same round of the loop                       *)
(* (pq.cpp:82-85,153,177-186; scheduler.cpp:119-149).                      *)
THEOREM NothingQueuedStarts == ASSUME Policy # "mlfq" PROVE Spec => OnlyLateRequestStarts
<1>1. /\ IInv /\ EntriesInv /\ StartInv /\ SignalInv /\ ShutdownInv /\ [Next]_vars
      => [~run_flag /\ starts' # starts => waiting = <<>> \/ Last(starts') = Last(arrivals)]_vars
  <2> SUFFICES ASSUME IInv, StartInv, ShutdownInv, Next, ~run_flag, starts' # starts, waiting # <<>>
      PROVE  Last(starts') = Last(arrivals)
    BY DEF vars, histVars
  <2>1. interrupted = "none" /\ (pc \notin Halted => \A j \in JobsIn(waiting) : j = Last(arrivals))
    BY DEF ShutdownInv, AfterSigint
  <2>2. Thread = pc /\ TypeOK /\ LocalsOK
    BY <2>1 DEF Thread, IInv
  <2>3. ~MlfqFill
    BY <2>2 DEF MlfqFill, At, StartInv, ThreadOfPolicy, MlfqSteps
  <2>4. ExecuteJobFork
    BY <2>3, OnlyForksStart
  <2>5. At("exec_fork") /\ starts' = Append(starts, copy.job)
    BY <2>4 DEF ExecuteJobFork
  <2>6. copy.job \in Jobs
    BY <2>2, <2>5 DEF LocalsOK, CopyHeld, At, Process
  <2>7. Head(waiting).job = copy.job
    BY <2>5 DEF StartInv, FrontInHand, At
  <2>8. Head(waiting).job \in JobsIn(waiting)
    BY <2>2, TailJobs DEF TypeOK
  <2>9. Last(starts') = copy.job
    BY <2>2, <2>5, <2>6, LastAppended DEF TypeOK
  <2> QED
    BY <2>1, <2>5, <2>7, <2>8, <2>9 DEF At, Halted
<1> QED
  BY <1>1, ShutdownAlways, PTL DEF Spec, OnlyLateRequestStarts
-----------------------------------------------------------------------------
(* Under fifo, as long as nobody flushes, a child that is on a CPU has an  *)
(* entry in running, or is the one executeJob has just forked.  flush_jobs *)
(* may drop the entry of a child that runs: the handler removes the killed *)
(* one, and pop_front() takes the next.  But the kill has freed a CPU then,*)
(* and at most one more job is started.                                    *)
OnCPUs     == {j \in Jobs : proc[j] = "run"}
JustForked == IF Thread = "exec_push" THEN {Last(starts)} ELSE {}
Covered    == OnCPUs \subseteq JobsIn(running) \cup JustForked
Slack      == OnCPUs = {} \/ Cardinality(OnCPUs) < NCPUS

CPUsInv ==
  /\ IsFiniteSet(OnCPUs)
  /\ CPULimit
  /\ BeforeSigint => Covered
  /\ ~BeforeSigint /\ Thread # "exec_push" /\ pc \notin Halted =>
       Slack \/ (pc = "flush" /\ Covered) \/ (waiting = <<>> /\ pc \in {"fifo", "poll"})

LEMMA JobsCounted ==
  ASSUME NEW s \in Seq(Process)
  PROVE  IsFiniteSet(JobsIn(s)) /\ Cardinality(JobsIn(s)) \in Nat /\ Cardinality(JobsIn(s)) <= Len(s)
<1> DEFINE n == Len(s)
           f == [k \in 1..n |-> s[k].job]
<1>1. n \in Nat /\ DOMAIN s = 1..n
  BY LenProperties
<1>2. f \in Surjection(1..n, JobsIn(s))
  BY <1>1 DEF Surjection, JobsIn
<1>3. IsFiniteSet(1..n) /\ Cardinality(1..n) = n
  BY <1>1, FS_Interval
<1> HIDE DEF f
<1>4. IsFiniteSet(JobsIn(s)) /\ Cardinality(JobsIn(s)) <= n
  BY <1>2, <1>3, FS_Surjection
<1> QED
  BY <1>4, FS_CardinalityType

LEMMA FewerOnCPUs ==
  ASSUME NEW S, NEW T, IsFiniteSet(T), S \subseteq T
  PROVE  /\ IsFiniteSet(S) /\ Cardinality(S) \in Nat /\ Cardinality(T) \in Nat
         /\ Cardinality(S) <= Cardinality(T)
<1>1. IsFiniteSet(S) /\ Cardinality(S) <= Cardinality(T)
  BY FS_Subset
<1> QED
  BY <1>1, FS_CardinalityType

(* A fork is the only step that puts a child on a CPU.                     *)
LEMMA OnlyForkRuns ==
  ASSUME Policy = "fifo", TypeOK, LocalsOK, ThreadOfPolicy, Next, ~ExecuteJobFork
  PROVE  OnCPUs' \subseteq OnCPUs
<1> USE DEF At, childVars
<1>0. ASSUME Quiet PROVE OnCPUs' \subseteq OnCPUs
  BY <1>0 DEF Quiet, OnCPUs
<1>1. CASE interrupted = "none" /\ (Poll \/ PollStdin \/ Request)
  BY <1>0, <1>1, UnchangedQuiet DEF Poll, PollStdin, Request, AddJob, FlushRequest, FlushReturn,
     StatusCounts, StatusLists, Query
<1>2. CASE interrupted = "none" /\ SchedulerStep
  <2>1. pc \notin {"rrobin", "rrobin_requeue", "rrobin_fill", "rrobin_push"} \cup MlfqSteps
    BY <1>2 DEF ThreadOfPolicy, Thread
  <2>2. \/ ExecuteJobPush \/ StatRead \/ StatOpen \/ StatScan \/ FifoRunner
        \/ FlushKill \/ FlushPop \/ FlushQueue
    BY <1>2, <2>1 DEF SchedulerStep, RRobinPause, RRobinRequeue, RRobinFill, RRobinPush, MlfqFront,
       MlfqPop, MlfqRequeue, MlfqBoostDue, MlfqBoost, MlfqAdmit, MlfqFill, MlfqPush, MlfqSteps
  <2>3. CASE ExecuteJobPush \/ StatRead \/ StatOpen \/ StatScan \/ FifoRunner
    BY <1>0, <2>3, UnchangedQuiet DEF ExecuteJobPush, StatRead, StatOpen, StatScan, FifoRunner,
       ExecuteJob
  <2> QED
    BY <1>0, <2>2, <2>3, FlushQuiet
<1> QED
  BY <1>0, <1>1, <1>2, Interruption

(* A dead child's entry goes, and the others stay.                         *)
LEMMA CoveredByOthers ==
  ASSUME TypeOK, StartInv,
         Handler \/ Types \/ \E j \in Jobs : Ends(j) \/ Computes(j)
  PROVE  /\ Covered => Covered'
         /\ UNCHANGED <<waiting, pc, Thread, run_flag, interrupted>>
<1> USE DEF tableVars, histVars, loopVars
<1>t. running \in Seq(Process) /\ proc \in [Jobs -> ProcState] /\ running \in Seq(Known)
  BY DEF TypeOK, ChildrenTypeOK, StartInv, PidsKnown
<1> DEFINE Goal == /\ Covered => Covered'
                   /\ UNCHANGED <<waiting, pc, Thread, run_flag, interrupted>>
<1>1. CASE SigchldEnter \/ SigchldReturn \/ Types \/ \E j \in Jobs : Ends(j) \/ Computes(j)
  <2>1. UNCHANGED <<waiting, running, starts, pc, run_flag, interrupted>>
    BY <1>1 DEF SigchldEnter, SigchldReturn, Types, Ends, Computes
  <2>2. OnCPUs' \subseteq OnCPUs
    BY <1>t, <1>1 DEF SigchldEnter, SigchldReturn, Types, Ends, Computes, ChildExits, ChildComputes,
       childVars, OnCPUs
  <2>3. JobsIn(running)' = JobsIn(running) /\ JustForked' = JustForked /\ Thread' = Thread
    BY <2>1 DEF JobsIn, JustForked, Thread
  <2> QED
    BY <2>1, <2>2, <2>3 DEF Covered
<1>2. ASSUME NEW i \in Jobs, SigchldReap(i) PROVE Goal
  <2>1. /\ UNCHANGED <<waiting, pc, starts, run_flag, interrupted>>
        /\ OnCPUs' \subseteq OnCPUs \ {i}
    BY <1>t, <1>2 DEF SigchldReap, ReapChild, OnCPUs
  <2>2. JustForked' = JustForked /\ Thread' = Thread
    BY <2>1 DEF JustForked, Thread
  <2>3. CASE UNCHANGED running
    <3>1. JobsIn(running)' = JobsIn(running)
      BY <2>3 DEF JobsIn
    <3> QED
      BY <2>1, <2>2, <3>1 DEF Covered
  <2>4. ASSUME NEW k \in DOMAIN running, running[k].pid = i, running' = RemoveAt(running, k)
        PROVE  Goal
    <3>1. running[k].job = i
      <4>1. running[k] \in Known
        BY <1>t, ElementOfSeq, LenProperties
      <4> QED
        BY <2>4, <4>1, KnownChanges, ChildrenAssumption DEF Known
    <3>2. JobsIn(running) \ {i} \subseteq JobsIn(running')
      <4> DEFINE Left == {running'[a] : a \in DOMAIN running'}
      <4>1. Left = {running[a] : a \in DOMAIN running \ {k}}
        BY <1>t, <2>4, RemoveAtJobs
      <4>2. ASSUME NEW a \in DOMAIN running, running[a].job # i PROVE running[a] \in Left
        BY <3>1, <4>1, <4>2
      <4> QED
        BY <4>2 DEF JobsIn
    <3>3. JobsIn(running) \ {i} \subseteq JobsIn(running)'
      BY <3>2 DEF JobsIn
    <3> QED
      BY <2>1, <2>2, <3>3 DEF Covered
  <2> QED
    BY <1>2, <2>3, <2>4 DEF SigchldReap, RemoveProcess
<1> QED
  BY <1>1, <1>2 DEF Handler

(* run() changes the utime of an entry, and no entry's job.                *)
LEMMA ScannedJobs ==
  ASSUME TypeOK, StatScan
  PROVE  JobsIn(running') = JobsIn(running)
<1>1. \A x : JobsIn([running EXCEPT ![idx].utime = x]) = JobsIn(running)
  <2> TAKE x
  <2> DEFINE r == [running EXCEPT ![idx].utime = x]
  <2>1. DOMAIN r = DOMAIN running /\ \A k \in DOMAIN running : r[k].job = running[k].job
    <3>1. \A k \in DOMAIN running : running[k] \in Process
      BY ElementOfSeq, LenProperties DEF TypeOK
    <3> QED
      BY <3>1 DEF Process
  <2> HIDE DEF r
  <2>2. JobsIn(r) = JobsIn(running)
    BY <2>1, SameJobs
  <2> QED
    BY <2>2 DEF r
<1> QED
  BY <1>1 DEF StatScan

LEMMA CoveredStep ==
  ASSUME Policy = "fifo", "flush" \notin Requests, TypeOK, LocalsOK, StartInv, HandNotEmpty, Covered,
         Next, BeforeSigint, BeforeSigint'
  PROVE  Covered'
<1> USE DEF At, tableVars, histVars
<1>t. /\ waiting \in Seq(Process) /\ running \in Seq(Process) /\ starts \in Seq(Jobs)
      /\ proc \in [Jobs -> ProcState] /\ running \in Seq(Known)
  BY DEF TypeOK, ChildrenTypeOK, StartInv, PidsKnown
<1>0. interrupted = "none" /\ interrupted' = "none" /\ Thread = pc /\ Thread' = pc' /\ pc \notin Flushing
  BY DEF BeforeSigint, Thread, HandNotEmpty
<1>p. pc \notin {"rrobin", "rrobin_requeue", "rrobin_fill", "rrobin_push"} \cup MlfqSteps
  BY <1>0 DEF StartInv, ThreadOfPolicy
<1>f. ~ExecuteJobFork => OnCPUs' \subseteq OnCPUs
  BY OnlyForkRuns DEF StartInv
<1>1. ASSUME ~ExecuteJobFork, JobsIn(running') = JobsIn(running),
             pc # "exec_push" \/ UNCHANGED <<pc, starts>>
      PROVE  Covered'
  <2>1. JobsIn(running)' = JobsIn(running)
    BY <1>1 DEF JobsIn
  <2>2. JustForked \subseteq JustForked'
    BY <1>0, <1>1 DEF JustForked
  <2> QED
    BY <1>1, <1>f, <2>1, <2>2 DEF Covered
<1>2. CASE ExecuteJobFork
  <2>1. copy.job \in Jobs /\ pc = "exec_fork" /\ UNCHANGED running
    BY <1>2, LocalsAtPc DEF ExecuteJobFork, LocalsHere, CopyHeld, Process
  <2>2. JobsIn(running)' = JobsIn(running) /\ JustForked = {}
    BY <1>0, <2>1 DEF JobsIn, JustForked
  <2>3. CASE ForkChild(copy.job) /\ starts' = Append(starts, copy.job) /\ pc' = "exec_push"
    <3>1. JustForked' = {copy.job}
      BY <1>0, <1>t, <2>1, <2>3, LastAppended DEF JustForked
    <3>2. OnCPUs' \subseteq OnCPUs \cup {copy.job}
      BY <1>t, <2>3 DEF OnCPUs, ForkChild
    <3> QED
      BY <2>2, <3>1, <3>2 DEF Covered
  <2>4. CASE UNCHANGED proc
    BY <2>2, <2>4 DEF Covered, OnCPUs
  <2> QED
    BY <1>2, <2>3, <2>4 DEF ExecuteJobFork
<1>3. CASE ExecuteJobPush
  <2>1. waiting # <<>> /\ pc = "exec_push" /\ ~ExecuteJobFork
    BY <1>3 DEF ExecuteJobPush, ExecuteJobFork, HandNotEmpty
  <2> DEFINE e == [Head(waiting) EXCEPT !.pid = Head(waiting).job]
  <2>2. e \in Process /\ e.job = Last(starts)
    <3>1. Head(waiting) \in Process /\ Head(waiting).job = Last(starts)
      BY <1>t, <2>1, HeadTailOf DEF StartInv, FrontInHand
    <3> QED
      BY <3>1, ProcessUpdates DEF Process
  <2>3. running' = Append(running, e) /\ pc' # "exec_push"
    BY <1>3, <2>1 DEF ExecuteJobPush, FrontToRunning, CallersLoop
  <2> HIDE DEF e
  <2>4. JobsIn(running') = JobsIn(running) \cup {Last(starts)}
    BY <1>t, <2>2, <2>3, AppendJobs
  <2>5. JobsIn(running)' = JobsIn(running) \cup JustForked
    BY <1>0, <2>1, <2>4 DEF JobsIn, JustForked
  <2> QED
    BY <1>f, <2>1, <2>5 DEF Covered
<1>4. CASE Handler \/ Types \/ \E j \in Jobs : Ends(j) \/ Computes(j)
  BY <1>4, CoveredByOthers
<1>5. CASE StatScan
  <2>1. pc = "stat_scan" /\ ~ExecuteJobFork
    BY <1>5 DEF StatScan, ExecuteJobFork
  <2> QED
    BY <1>1, <1>5, <2>1, ScannedJobs
<1>6. CASE Poll \/ PollStdin \/ FlushRequest \/ FlushReturn \/ StatusCounts \/ StatusLists \/ Query
           \/ AddJob \/ StatRead \/ StatOpen \/ FifoRunner
  <2>1. UNCHANGED running /\ pc # "exec_push" /\ ~ExecuteJobFork
    BY <1>6 DEF Poll, PollStdin, FlushRequest, FlushReturn, StatusCounts, StatusLists, Query, AddJob,
       StatRead, StatOpen, FifoRunner, ExecuteJob, ExecuteJobFork
  <2> QED
    BY <1>1, <2>1
<1>7. ~(RRobinPause \/ RRobinRequeue \/ RRobinFill \/ RRobinPush \/ MlfqFront \/ MlfqPop \/ MlfqRequeue
        \/ MlfqBoostDue \/ MlfqBoost \/ MlfqAdmit \/ MlfqFill \/ MlfqPush)
  BY <1>p DEF RRobinPause, RRobinRequeue, RRobinFill, RRobinPush, MlfqFront, MlfqPop, MlfqRequeue,
     MlfqBoostDue, MlfqBoost, MlfqAdmit, MlfqFill, MlfqPush, MlfqSteps
<1>8. ~(FlushKill \/ FlushPop \/ FlushQueue) /\ ~SigintEnter
  BY <1>0 DEF FlushKill, FlushPop, FlushQueue, Flushing, SigintEnter, TypeOK, Locations, Halted
<1> QED
  BY <1>2, <1>3, <1>4, <1>5, <1>6, <1>7, <1>8 DEF Next, MainStep, Request, SchedulerStep

(* The kill of a child that has an entry frees a CPU.                      *)
LEMMA KillFrees ==
  ASSUME TypeOK, EntriesInv, StartInv, NoOvercommit, IsFiniteSet(OnCPUs), Covered,
         Thread # "exec_push", FlushKill, pc' \notin Halted
  PROVE  Slack'
<1>t. /\ running \in Seq(Process) /\ running \in Seq(Known) /\ proc \in [Jobs -> ProcState]
      /\ NCPUS \in Nat
  BY SchedulerAssumption DEF TypeOK, ChildrenTypeOK, StartInv, PidsKnown
<1>1. OnCPUs \subseteq JobsIn(running)
  BY DEF Covered, JustForked
<1>2. CASE running = <<>>
  <2>1. JobsIn(running) = {} /\ UNCHANGED proc
    BY <1>2 DEF JobsIn, FlushKill
  <2> QED
    BY <1>1, <2>1 DEF Slack, OnCPUs
<1>3. CASE running # <<>>
  <2> DEFINE j == Head(running).job
  <2>1. Head(running).pid = j /\ j \in Jobs /\ KillChildren({j})
    <3>1. Head(running).pid # NoPid /\ KillChildren({Head(running).pid})
      BY <1>3 DEF FlushKill, TerminateProcess, Halted
    <3>2. Head(running) \in Known
      BY <1>t, <1>3, HeadTailOf
    <3> QED
      BY <3>1, <3>2, KnownChanges DEF Known
  <2>2. OnCPUs' \subseteq OnCPUs \ {j}
    BY <1>t, <2>1 DEF KillChildren, OnCPUs, Live
  <2>3. /\ JobsIn(Tail(running)) = JobsBehind(running)
        /\ JobsIn(running) = {j} \cup JobsBehind(running)
    BY <1>t, <1>3, TailJobs
  <2>4. OnCPUs' \subseteq JobsIn(Tail(running))
    BY <1>1, <2>2, <2>3
  <2>5. /\ Tail(running) \in Seq(Process) /\ Len(Tail(running)) = Len(running) - 1
        /\ Len(running) \in Nat /\ Len(running) <= NCPUS
    BY <1>t, <1>3, QueueOps, LenProperties DEF NoOvercommit
  <2> DEFINE S == OnCPUs'
             t == Tail(running)
  <2> HIDE DEF S, t
  <2>6. Cardinality(S) \in Nat /\ Cardinality(S) <= Len(t)
    <3>1. /\ IsFiniteSet(JobsIn(t)) /\ Cardinality(JobsIn(t)) \in Nat
          /\ Cardinality(JobsIn(t)) <= Len(t)
      BY <2>5, JobsCounted DEF t
    <3>2. Cardinality(S) \in Nat /\ Cardinality(S) <= Cardinality(JobsIn(t))
      BY <2>4, <3>1, FewerOnCPUs DEF S, t
    <3>3. Len(t) \in Nat
      BY <2>5, LenProperties DEF t
    <3> QED
      BY <3>1, <3>2, <3>3
  <2>7. Cardinality(S) < NCPUS
    BY <1>t, <2>5, <2>6 DEF t
  <2> QED
    BY <2>7 DEF S, Slack
<1> QED
  BY <1>2, <1>3

(* After ^C what is on a CPU only gets less, but for one late request.     *)
LEMMA SlackStep ==
  ASSUME Policy = "fifo", TypeOK, LocalsOK, EntriesInv, StartInv, AfterSigint, NoOvercommit, CPUsInv,
         Next, ~BeforeSigint, Thread' # "exec_push", pc' \notin Halted
  PROVE  Slack' \/ (pc' = "flush" /\ Covered') \/ (waiting' = <<>> /\ pc' \in {"fifo", "poll"})
<1> DEFINE Goal == Slack' \/ (pc' = "flush" /\ Covered')
                     \/ (waiting' = <<>> /\ pc' \in {"fifo", "poll"})
<1> USE DEF At, tableVars
<1>t. waiting \in Seq(Process) /\ NCPUS \in Nat /\ IsFiniteSet(OnCPUs)
  BY SchedulerAssumption DEF TypeOK, CPUsInv
<1>0. interrupted = "none" => /\ Thread = pc /\ ~run_flag
                              /\ pc \notin Halted => \A j \in JobsIn(waiting) : j = Last(arrivals)
  BY DEF BeforeSigint, Thread, AfterSigint
<1>i. interrupted # "none" => pc \in Flushing \cup Halted
  BY DEF LocalsOK
<1>s. ASSUME Slack, ~ExecuteJobFork \/ UNCHANGED proc PROVE Goal
  <2>1. OnCPUs' \subseteq OnCPUs
    BY <1>s, OnlyForkRuns DEF StartInv, OnCPUs
  <2> DEFINE S == OnCPUs'
  <2> HIDE DEF S
  <2>2. Cardinality(S) <= Cardinality(OnCPUs) /\ Cardinality(S) \in Nat /\ Cardinality(OnCPUs) \in Nat
    BY <1>t, <2>1, FewerOnCPUs DEF S
  <2>3. S = {} \/ Cardinality(S) < NCPUS
    BY <1>s, <1>t, <2>1, <2>2 DEF S, Slack
  <2> QED
    BY <2>3 DEF S, Slack
<1>d. Thread # "exec_push" /\ pc \notin Halted =>
        Slack \/ (pc = "flush" /\ Covered) \/ (waiting = <<>> /\ pc \in {"fifo", "poll"})
  BY DEF CPUsInv
(* Where the invariant grants slack.                                       *)
<1>q. ASSUME pc \notin Halted \cup {"flush", "fifo", "poll"}, Thread # "exec_push",
             ~ExecuteJobFork \/ UNCHANGED proc
      PROVE  Goal
  BY <1>s, <1>d, <1>q
<1>1. CASE Handler \/ Types \/ \E j \in Jobs : Ends(j) \/ Computes(j)
  <2>1. /\ Covered => Covered'
        /\ UNCHANGED <<waiting, pc, Thread>>
    BY <1>1, CoveredByOthers
  <2>2. ~ExecuteJobFork \/ UNCHANGED proc
    BY <2>1 DEF ExecuteJobFork, CallersLoop
  <2> QED
    BY <1>d, <1>s, <2>1, <2>2
<1>2. CASE SigintEnter
  BY <1>2 DEF SigintEnter, BeforeSigint
<1>3. CASE Poll
  BY <1>0, <1>i, <1>3 DEF Poll, Flushing, Halted
<1>4. CASE FlushKill /\ UNCHANGED interrupted
  <2>1. Thread # "exec_push" /\ pc = "flush" /\ ~ExecuteJobFork
    BY <1>0, <1>4 DEF FlushKill, Thread, ExecuteJobFork
  <2>2. Slack \/ Covered
    BY <1>d, <2>1 DEF Halted
  <2> QED
    BY <1>4, <1>s, <1>t, <2>1, <2>2, KillFrees
<1>5. CASE (FlushPop \/ FlushQueue) /\ UNCHANGED interrupted
  <2>1. Thread # "exec_push" /\ pc \in {"flush_pop", "flush_queue"} /\ ~ExecuteJobFork
    BY <1>0, <1>5 DEF FlushPop, FlushQueue, Thread, ExecuteJobFork
  <2> QED
    BY <1>q, <2>1 DEF Halted
<1>6. CASE FlushReturn
  <2>1. Thread # "exec_push" /\ pc = "flushed" /\ ~ExecuteJobFork
    BY <1>0, <1>6 DEF FlushReturn, Thread, ExecuteJobFork
  <2> QED
    BY <1>q, <2>1 DEF Halted
<1>7. CASE ExecuteJobPush
  <2>1. pc = "exec_push" /\ interrupted = "none"
    BY <1>7, <1>i DEF ExecuteJobPush, Flushing, Halted
  <2>2. waiting # <<>> /\ waiting' = Tail(waiting) /\ pc' = "fifo"
    BY <1>7 DEF ExecuteJobPush, FrontToRunning, CallersLoop, Halted
  <2>3. Tail(waiting) = <<>>
    <3>1. \A a, b \in DOMAIN waiting : a = b
      BY <1>0, <2>1 DEF JobsIn, Halted, EntriesInv, Apart, DistinctJobs
    <3>2. Len(waiting) \in Nat /\ DOMAIN waiting = 1..Len(waiting) /\ Len(waiting) # 0
      BY <1>t, <2>2, LenProperties, EmptySeq
    <3>3. Len(waiting) = 1
      <4>1. 1 \in DOMAIN waiting /\ Len(waiting) \in DOMAIN waiting
        BY <3>2
      <4> QED
        BY <3>1, <4>1
    <3>4. Len(Tail(waiting)) = 0 /\ Tail(waiting) \in Seq(Process)
      BY <1>t, <2>2, <3>3, HeadTailProperties
    <3> QED
      BY <3>4, EmptySeq
  <2> QED
    BY <2>2, <2>3
<1>8. CASE ExecuteJobFork /\ UNCHANGED interrupted
  <2>1. pc = "exec_fork" /\ interrupted = "none"
    BY <1>8, <1>i DEF ExecuteJobFork, Flushing, Halted
  <2>2. UNCHANGED proc
    <3>1. pc' # "exec_push"
      BY <1>8, <2>1 DEF Thread
    <3> QED
      BY <1>8, <3>1 DEF ExecuteJobFork
  <2> QED
    BY <1>0, <1>q, <2>1, <2>2 DEF Halted
<1>9. CASE FifoRunner
  <2>1. pc = "fifo" /\ interrupted = "none" /\ ~ExecuteJobFork
    BY <1>9, <1>i DEF FifoRunner, Flushing, Halted, ExecuteJobFork
  <2>2. Slack \/ waiting = <<>>
    BY <1>0, <1>d, <2>1 DEF Halted
  <2>3. CASE waiting = <<>>
    BY <1>9, <2>3 DEF FifoRunner
  <2> QED
    BY <1>s, <2>1, <2>2, <2>3
<1>10. CASE \/ PollStdin \/ AddJob \/ FlushRequest \/ StatusCounts \/ StatusLists \/ Query
            \/ StatRead \/ StatOpen \/ StatScan
  <2>1. pc \in {"poll_stdin", "accept", "status", "stat", "stat_open", "stat_scan"} /\ ~ExecuteJobFork
    BY <1>10 DEF PollStdin, AddJob, FlushRequest, StatusCounts, StatusLists, Query, StatRead, StatOpen,
       StatScan, ExecuteJobFork
  <2>2. Thread = pc
    BY <1>0, <1>i, <2>1 DEF Flushing, Halted
  <2> QED
    BY <1>q, <2>1, <2>2 DEF Halted
<1>11. ~(RRobinPause \/ RRobinRequeue \/ RRobinFill \/ RRobinPush \/ MlfqFront \/ MlfqPop \/ MlfqRequeue
         \/ MlfqBoostDue \/ MlfqBoost \/ MlfqAdmit \/ MlfqFill \/ MlfqPush)
  <2>1. CASE pc \in {"rrobin", "rrobin_requeue", "rrobin_fill", "rrobin_push"} \cup MlfqSteps
    <3>1. Thread = pc
      BY <1>0, <1>i, <2>1 DEF Flushing, Halted, MlfqSteps
    <3> QED
      BY <2>1, <3>1 DEF StartInv, ThreadOfPolicy
  <2>2. CASE pc \notin {"rrobin", "rrobin_requeue", "rrobin_fill", "rrobin_push"} \cup MlfqSteps
    BY <2>2 DEF RRobinPause, RRobinRequeue, RRobinFill, RRobinPush, MlfqFront, MlfqPop, MlfqRequeue,
       MlfqBoostDue, MlfqBoost, MlfqAdmit, MlfqFill, MlfqPush, MlfqSteps
  <2> QED
    BY <2>1, <2>2
<1> QED
  BY <1>1, <1>2, <1>3, <1>4, <1>5, <1>6, <1>7, <1>8, <1>9, <1>10, <1>11
     DEF Next, MainStep, Request, SchedulerStep, loopVars

(* A fork finds a CPU free.                                                *)
LEMMA ForkFits ==
  ASSUME Policy = "fifo", "flush" \notin Requests, TypeOK, LocalsOK, StartInv, CPUsInv, ExecuteJobFork
  PROVE  IsFiniteSet(OnCPUs') /\ CPULimit'
<1> USE DEF At
<1>t. /\ running \in Seq(Process) /\ proc \in [Jobs -> ProcState] /\ NCPUS \in Nat
      /\ Len(running) \in Nat /\ IsFiniteSet(OnCPUs) /\ Cardinality(OnCPUs) <= NCPUS
  BY LenProperties, SchedulerAssumption DEF TypeOK, ChildrenTypeOK, CPUsInv, CPULimit, OnCPUs
<1>1. pc = "exec_fork" /\ Thread = pc /\ interrupted = "none"
  BY DEF ExecuteJobFork, LocalsOK, Thread, Flushing, Halted
<1>2. Len(running) < NCPUS
  BY <1>1 DEF LocalsOK, Pushing, HasFreeCPU
<1>3. Cardinality(OnCPUs) < NCPUS
  <2>1. CASE BeforeSigint
    <3>1. OnCPUs \subseteq JobsIn(running)
      BY <1>1, <2>1 DEF CPUsInv, Covered, JustForked
    <3>2. /\ IsFiniteSet(JobsIn(running)) /\ Cardinality(JobsIn(running)) \in Nat
          /\ Cardinality(JobsIn(running)) <= Len(running)
      BY <1>t, JobsCounted
    <3>3. Cardinality(OnCPUs) \in Nat /\ Cardinality(OnCPUs) <= Cardinality(JobsIn(running))
      BY <3>1, <3>2, FewerOnCPUs
    <3> QED
      BY <1>t, <1>2, <3>2, <3>3
  <2>2. CASE ~BeforeSigint
    <3>1. Slack
      BY <1>1, <2>2 DEF CPUsInv, Halted
    <3>2. OnCPUs = {} => Cardinality(OnCPUs) = 0
      BY FS_EmptySet
    <3> QED
      BY <1>t, <1>2, <3>1, <3>2 DEF Slack
  <2> QED
    BY <2>1, <2>2
<1>4. OnCPUs' \subseteq OnCPUs \cup {copy.job}
  BY <1>t DEF ExecuteJobFork, ForkChild, OnCPUs
<1> DEFINE S == OnCPUs'
           T == OnCPUs
<1> HIDE DEF S, T
<1>5. /\ IsFiniteSet(T \cup {copy.job}) /\ Cardinality(T) \in Nat
      /\ Cardinality(T \cup {copy.job}) <= Cardinality(T) + 1
  <2>1. Cardinality(T) \in Nat /\ IsFiniteSet(T)
    BY <1>t, FS_CardinalityType DEF T
  <2> QED
    BY <2>1, FS_AddElement
<1>6. /\ IsFiniteSet(S) /\ Cardinality(S) \in Nat /\ Cardinality(T \cup {copy.job}) \in Nat
      /\ Cardinality(S) <= Cardinality(T \cup {copy.job})
  BY <1>4, <1>5, FewerOnCPUs DEF S, T
<1>7. Cardinality(S) <= NCPUS
  BY <1>t, <1>3, <1>5, <1>6 DEF T
<1> QED
  BY <1>6, <1>7 DEF S, OnCPUs, CPULimit

LEMMA CPUsStep ==
  ASSUME Policy = "fifo", "flush" \notin Requests,
         IInv, EntriesInv, StartInv, HandNotEmpty, AfterSigint, CPUsInv, [Next]_vars
  PROVE  CPUsInv'
<1>1. CASE UNCHANGED vars
  <2>1. UNCHANGED <<proc, running, waiting, starts, pc, Thread, run_flag, interrupted>>
    BY <1>1 DEF vars, childVars, tableVars, histVars, loopVars, Thread
  <2>2. JobsIn(running)' = JobsIn(running) /\ JustForked' = JustForked /\ OnCPUs' = OnCPUs
    BY <2>1 DEF JobsIn, JustForked, OnCPUs
  <2>3. UNCHANGED <<Covered, Slack, CPULimit, BeforeSigint>>
    BY <2>1, <2>2 DEF Covered, Slack, CPULimit, OnCPUs, BeforeSigint
  <2> QED
    BY <2>1, <2>2, <2>3 DEF CPUsInv
<1>2. CASE Next
  <2>i. TypeOK /\ LocalsOK /\ NoOvercommit
    BY DEF IInv
  <2>1. IsFiniteSet(OnCPUs') /\ CPULimit'
    <3>1. CASE ExecuteJobFork
      BY <2>i, <3>1, ForkFits
    <3>2. CASE ~ExecuteJobFork
      <4>1. OnCPUs' \subseteq OnCPUs /\ IsFiniteSet(OnCPUs) /\ Cardinality(OnCPUs) <= NCPUS
        BY <1>2, <2>i, <3>2, OnlyForkRuns DEF CPUsInv, CPULimit, OnCPUs, StartInv
      <4> DEFINE S == OnCPUs'
      <4> HIDE DEF S
      <4>2. /\ IsFiniteSet(S) /\ Cardinality(S) \in Nat /\ Cardinality(OnCPUs) \in Nat
            /\ Cardinality(S) <= Cardinality(OnCPUs)
        BY <4>1, FewerOnCPUs DEF S
      <4>3. Cardinality(S) <= NCPUS
        BY <4>1, <4>2, SchedulerAssumption
      <4> QED
        BY <4>2, <4>3 DEF S, OnCPUs, CPULimit
    <3> QED
      BY <3>1, <3>2
  <2>2. BeforeSigint' => Covered'
    BY <1>2, <2>i, NoSigintYet, CoveredStep DEF CPUsInv
  <2>3. ASSUME ~BeforeSigint', Thread' # "exec_push", pc' \notin Halted
        PROVE  Slack' \/ (pc' = "flush" /\ Covered') \/ (waiting' = <<>> /\ pc' \in {"fifo", "poll"})
    <3>1. CASE ~BeforeSigint
      BY <1>2, <2>i, <2>3, <3>1, SlackStep
    <3>2. CASE BeforeSigint
      <4>1. SigintEnter
        BY <1>2, <2>3, <3>2 DEF BeforeSigint, Next, MainStep, Poll, PollStdin, Request, AddJob,
           FlushRequest, FlushReturn, StatusCounts, StatusLists, Query, SchedulerStep, Handler,
           SigchldEnter, SigchldReturn, SigchldReap, Types, Ends, Computes, loopVars
      <4>2. /\ pc' = "flush" /\ UNCHANGED <<proc, running, starts>>
        BY <4>1 DEF SigintEnter, childVars, tableVars, histVars
      <4>3. Thread' = Thread
        BY <2>i, <4>1 DEF SigintEnter, Thread, TypeOK, Locations, Halted
      <4>4. Covered'
        <5>1. JobsIn(running)' = JobsIn(running) /\ JustForked' = JustForked /\ OnCPUs' = OnCPUs
          BY <4>2, <4>3 DEF JobsIn, JustForked, OnCPUs
        <5> QED
          BY <3>2, <5>1 DEF CPUsInv, Covered
      <4> QED
        BY <4>2, <4>4
    <3> QED
      BY <3>1, <3>2
  <2> QED
    BY <2>1, <2>2, <2>3 DEF CPUsInv
<1> QED
  BY <1>1, <1>2

(* Under fifo, as long as no client flushes, at most NCPUS children are on *)
(* a CPU, counting the one executeJob has forked and not yet pushed, even  *)
(* while ^C flushes the tables and while deaths are noticed late           *)
(* (scheduler.cpp:277, pq.cpp:63-85).                                      *)
THEOREM FifoFitsCPUs ==
  ASSUME Policy = "fifo", "flush" \notin Requests
  PROVE  Spec => []CPULimit
<1>1. Init => CPUsInv
  <2> SUFFICES ASSUME Init PROVE CPUsInv
    OBVIOUS
  <2>1. OnCPUs = {}
    BY DEF Init, ChildrenInit, OnCPUs
  <2>2. IsFiniteSet(OnCPUs) /\ Cardinality(OnCPUs) = 0
    BY <2>1, FS_EmptySet
  <2>3. CPULimit
    BY <2>2, SchedulerAssumption DEF CPULimit, OnCPUs
  <2> QED
    BY <2>1, <2>2, <2>3 DEF CPUsInv, Covered, Slack
<1>2. CPUsInv => CPULimit
  BY DEF CPUsInv
<1>3. Policy # "mlfq"
  OBVIOUS
<1>4. Spec => [](IInv /\ EntriesInv /\ StartInv /\ SignalInv /\ ShutdownInv)
  BY <1>3, ShutdownAlways
<1>5. /\ IInv /\ EntriesInv /\ StartInv /\ HandNotEmpty /\ ShutdownInv /\ CPUsInv /\ [Next]_vars
      => CPUsInv'
  BY CPUsStep DEF ShutdownInv
<1> QED
  BY <1>1, <1>2, <1>4, <1>5, HandAlways, PTL DEF Spec
=============================================================================
