--------------------------- MODULE PQServerProofs ---------------------------
EXTENDS PQServerProperties, SequenceTheorems, TLAPS

LEMMA RemoveAtType ==
  ASSUME NEW S, NEW s \in Seq(S), NEW k \in 1..Len(s)
  PROVE  RemoveAt(s, k) \in Seq(S) /\ Len(RemoveAt(s, k)) <= Len(s)
<1> DEFINE before == SubSeq(s, 1, k-1)
           after  == SubSeq(s, k+1, Len(s))
<1>1. before \in Seq(S) /\ Len(before) = k - 1
  BY SubSeqProperties, ElementOfSeq
<1>2. after \in Seq(S) /\ Len(after) = Len(s) - k
  BY SubSeqProperties, ElementOfSeq
<1>3. RemoveAt(s, k) = before \o after /\ Len(s) \in Nat
  BY LenProperties DEF RemoveAt
<1> HIDE DEF before, after
<1>4. before \o after \in Seq(S) /\ Len(before \o after) = Len(before) + Len(after)
  BY <1>1, <1>2, ConcatProperties
<1> QED
  BY <1>1, <1>2, <1>3, <1>4

LEMMA ProcessUpdates ==
  ASSUME NEW e \in Process
  PROVE  /\ \A l \in 0..NumLevels-1 : [e EXCEPT !.priority = l] \in Process
         /\ \A j \in Jobs : [e EXCEPT !.pid = j] \in Process
         /\ \A t \in 0..MaxTicks : [e EXCEPT !.utime = t] \in Process
<1>1. ASSUME NEW l \in 0..NumLevels-1 PROVE [e EXCEPT !.priority = l] \in Process
  BY DEF Process
<1>2. ASSUME NEW j \in Jobs PROVE [e EXCEPT !.pid = j] \in Process
  BY DEF Process
<1>3. ASSUME NEW t \in 0..MaxTicks PROVE [e EXCEPT !.utime = t] \in Process
  BY DEF Process
<1> QED
  BY <1>1, <1>2, <1>3

LEMMA DemotedType ==
  ASSUME NEW e \in Process
  PROVE  Demoted(e) \in Process
<1>1. e.priority \in 0..NumLevels-1 /\ e.allotment \in Nat /\ e.utime \in Nat
  BY ChildrenAssumption DEF Process
<1> DEFINE lower == IF e.priority + 1 < NumLevels THEN e.priority + 1 ELSE NumLevels - 1
<1>2. lower \in 0..NumLevels-1 /\ e.allotment + Slice \in Nat
  BY <1>1, SchedulerAssumption
<1> HIDE DEF lower
<1>3. [e EXCEPT !.allotment = e.allotment + Slice, !.priority = lower] \in Process
  BY <1>2 DEF Process
<1> QED
  BY <1>3 DEF Demoted, lower

LEMMA BoostedType ==
  ASSUME NEW s \in Seq(Process)
  PROVE  Boosted(s) \in Seq(Process)
<1>1. \A k \in 1..Len(s) : s[k] \in Process
  BY ElementOfSeq
<1>2. 0 \in 0..NumLevels-1
  BY SchedulerAssumption
<1>3. \A k \in 1..Len(s) : [s[k] EXCEPT !.priority = 0] \in Process
  BY <1>1, <1>2, ProcessUpdates
<1>4. Boosted(s) \in [1..Len(s) -> Process]
  BY <1>3 DEF Boosted
<1>5. Len(s) \in Nat
  BY LenProperties
<1> QED
  BY <1>4, <1>5, SeqDef

(* What the queue operations of the tables return. *)
LEMMA QueueOps ==
  ASSUME NEW s \in Seq(Process)
  PROVE  /\ Len(s) \in Nat
         /\ \A e \in Process : /\ Append(s, e) \in Seq(Process)
                               /\ Len(Append(s, e)) = Len(s) + 1
                               /\ <<e>> \o s \in Seq(Process)
         /\ \A t \in Seq(Process) : s \o t \in Seq(Process)
         /\ s # <<>> => /\ Head(s) \in Process
                        /\ Tail(s) \in Seq(Process)
                        /\ Len(Tail(s)) = Len(s) - 1
<1>1. \A e \in Process : Append(s, e) \in Seq(Process) /\ Len(Append(s, e)) = Len(s) + 1
  BY AppendProperties
<1>2. \A e \in Process : <<e>> \o s \in Seq(Process)
  BY ConcatProperties
<1>3. \A t \in Seq(Process) : s \o t \in Seq(Process)
  BY ConcatProperties
<1>4. s # <<>> => Head(s) \in Process /\ Tail(s) \in Seq(Process) /\ Len(Tail(s)) = Len(s) - 1
  BY HeadTailProperties
<1> QED
  BY <1>1, <1>2, <1>3, <1>4, LenProperties

(* Initially everything is typed, the tables are empty and nothing is held. *)
LEMMA InitIInv == Init => IInv
<1> SUFFICES ASSUME Init PROVE IInv
  OBVIOUS
<1> USE ChildrenAssumption, SchedulerAssumption
<1>1. ChildrenTypeOK
  BY DEF Init, ChildrenInit, ChildrenTypeOK, ProcState
<1>2. TypeOK
  <2>1. /\ waiting \in Seq(Process) /\ running \in Seq(Process)
        /\ arrivals \in Seq(Jobs) /\ starts \in Seq(Jobs)
        /\ <<>> \in Seq(Process)
    BY EmptySeq DEF Init
  <2>2. levels \in [0..NumLevels-1 -> Seq(Process)]
    BY <2>1 DEF Init
  <2> QED
    BY <1>1, <2>1, <2>2 DEF Init, TypeOK, Locations, Halted, NoProcess
<1>3. NoOvercommit /\ LocalsOK
  BY DEF Init, NoOvercommit, LocalsOK, Thread, Pushing, CopyHeld
<1>4. ReapPending
  BY DEF Init, ChildrenInit, ReapPending, Zombies
<1> QED
  BY <1>2, <1>3, <1>4 DEF IInv

(* The system calls keep the types of what the kernel knows. *)
LEMMA CallsType ==
  ASSUME ChildrenTypeOK, UNCHANGED ticks
  PROVE  /\ \A j \in Jobs : ForkChild(j) /\ UNCHANGED sigchld => ChildrenTypeOK'
         /\ \A S : StopChildren(S) /\ UNCHANGED sigchld => ChildrenTypeOK'
         /\ \A j : ContinueChild(j) /\ UNCHANGED sigchld => ChildrenTypeOK'
         /\ \A S : KillChildren(S) => ChildrenTypeOK'
<1> USE DEF ChildrenTypeOK, ProcState, Live
<1>1. ASSUME NEW j \in Jobs, ForkChild(j), UNCHANGED sigchld PROVE ChildrenTypeOK'
  BY <1>1 DEF ForkChild
<1>2. ASSUME NEW S, StopChildren(S), UNCHANGED sigchld PROVE ChildrenTypeOK'
  BY <1>2 DEF StopChildren
<1>3. ASSUME NEW j, ContinueChild(j), UNCHANGED sigchld PROVE ChildrenTypeOK'
  BY <1>3 DEF ContinueChild
<1>4. ASSUME NEW S, KillChildren(S) PROVE ChildrenTypeOK'
  <2>1. proc' \in [Jobs -> ProcState]
    BY <1>4 DEF KillChildren
  <2>2. sigchld' \in BOOLEAN
    BY <1>4 DEF KillChildren
  <2> QED
    BY <2>1, <2>2
<1> QED
  BY <1>1, <1>2, <1>3, <1>4

(* What LocalsOK says where the scheduler's own steps start: there the     *)
(* thread is not interrupted, and so is where pc is.                       *)
LocalsHere ==
  /\ pc \in Pushing => HasFreeCPU
  /\ pc \in CopyHeld => copy \in Process
  /\ pc = "stat_scan" => copy.pid \in Jobs
  /\ pc \in {"mlfq_fill", "mlfq_push"} => idx \in 0..NumLevels
  /\ pc \in {"stat", "stat_scan", "mlfq_boosting"} => idx >= 1

LEMMA LocalsAtPc == LocalsOK => LocalsHere
<1> SUFFICES ASSUME LocalsOK PROVE LocalsHere
  OBVIOUS
<1>1. pc \notin Flushing \cup Halted => Thread = pc
  BY DEF LocalsOK, Thread
<1>2. (Pushing \cup CopyHeld \cup {"mlfq_fill", "stat", "mlfq_boosting"})
        \cap (Flushing \cup Halted) = {}
  BY DEF Pushing, CopyHeld, Flushing, Halted
<1>3. "mlfq_push" \in Pushing /\ "stat_scan" \in CopyHeld
  BY DEF Pushing, CopyHeld
<1> QED
  BY <1>1, <1>2, <1>3 DEF LocalsOK, LocalsHere

(* Every step of class Scheduler keeps the types. *)
LEMMA SchedulerTypeStep == TypeOK /\ LocalsOK /\ SchedulerStep => TypeOK'
<1> SUFFICES ASSUME TypeOK, LocalsHere, SchedulerStep PROVE TypeOK'
  BY LocalsAtPc
<1> USE ChildrenAssumption, SchedulerAssumption
<1> USE DEF childVars, tableVars, countVars, histVars, locals, At
<1>0. /\ \A k \in 0..NumLevels-1 : levels[k] \in Seq(Process)
      /\ \A e \in Process : /\ e.job \in Jobs /\ e.pid \in Jobs \cup {NoPid}
                            /\ e.priority \in 0..NumLevels-1
      /\ <<>> \in Seq(Process)
      /\ UNCHANGED <<ready, shown, typed, run_flag, interrupted>>
  BY EmptySeq DEF Process, TypeOK, SchedulerStep, loopVars
<1>a. ASSUME ExecuteJob, waiting # <<>> PROVE TypeOK'
  <2>1. copy' \in Process
    BY <1>a, QueueOps DEF ExecuteJob, TypeOK
  <2> QED
    BY <1>a, <2>1, <1>0 DEF ExecuteJob, TypeOK, ChildrenTypeOK, Locations
<1>b. CASE ExecuteJobFork
  <2>1. copy.job \in Jobs
    BY <1>b, <1>0 DEF ExecuteJobFork, LocalsHere, CopyHeld
  <2>2. ChildrenTypeOK'
    BY <1>b, <2>1, CallsType DEF ExecuteJobFork, TypeOK, ChildrenTypeOK
  <2>3. starts' \in Seq(Jobs)
    <3>1. starts \in Seq(Jobs)
      BY DEF TypeOK
    <3>2. Append(starts, copy.job) \in Seq(Jobs)
      BY <2>1, <3>1, AppendProperties
    <3> QED
      BY <1>b, <3>1, <3>2 DEF ExecuteJobFork
  <2>4. forkFails' \in 0..MaxForkFails /\ pc' \in Locations
    BY <1>b DEF ExecuteJobFork, TypeOK, Locations, CallersLoop
  <2> QED
    BY <1>b, <2>2, <2>3, <2>4, <1>0 DEF ExecuteJobFork, TypeOK
<1>1. CASE ExecuteJobPush
  <2>1. waiting # <<>> => [Head(waiting) EXCEPT !.pid = Head(waiting).job] \in Process
    BY <1>0, QueueOps, ProcessUpdates DEF TypeOK
  <2>2. waiting' \in Seq(Process) /\ running' \in Seq(Process)
    BY <1>1, <2>1, QueueOps DEF ExecuteJobPush, FrontToRunning, TypeOK
  <2>3. pc' \in Locations
    BY <1>1 DEF ExecuteJobPush, CallersLoop, Locations, Halted
  <2> QED
    BY <1>1, <2>2, <2>3, <1>0 DEF ExecuteJobPush, TypeOK, ChildrenTypeOK
<1>2. CASE StatRead
  <2>1. copy' \in Process \cup {NoProcess} /\ idx' \in Nat
    BY <1>2, ElementOfSeq DEF StatRead, TypeOK, LocalsHere
  <2>2. pc' \in Locations
    BY <1>2 DEF StatRead, Locations
  <2> QED
    BY <1>2, <2>1, <2>2, <1>0 DEF StatRead, TypeOK, ChildrenTypeOK
<1>3. CASE StatOpen
  BY <1>3, <1>0 DEF StatOpen, TypeOK, ChildrenTypeOK, Locations, Halted
<1>4. CASE StatScan
  <2>1. running' \in Seq(Process)
    <3>1. CASE idx <= Len(running) /\ running' = [running EXCEPT ![idx].utime = ticks[copy.pid]]
      <4>1. idx \in 1..Len(running) /\ ticks[copy.pid] \in 0..MaxTicks
        BY <1>4, <3>1 DEF StatScan, LocalsHere, TypeOK, ChildrenTypeOK, CopyHeld
      <4>2. [running[idx] EXCEPT !.utime = ticks[copy.pid]] \in Process
        BY <4>1, ElementOfSeq, ProcessUpdates DEF TypeOK
      <4>3. running' = [running EXCEPT ![idx] = [running[idx] EXCEPT !.utime = ticks[copy.pid]]]
        BY <3>1
      <4> QED
        BY <4>1, <4>2, <4>3, ExceptSeq DEF TypeOK
    <3>2. CASE UNCHANGED running
      BY <3>2 DEF TypeOK
    <3> QED
      BY <1>4, <3>1, <3>2 DEF StatScan
  <2>2. pc' \in Locations /\ idx' \in Nat
    BY <1>4 DEF StatScan, Locations, Halted, TypeOK
  <2> QED
    BY <1>4, <2>1, <2>2, <1>0 DEF StatScan, TypeOK, ChildrenTypeOK
<1>5. CASE FifoRunner
  <2>1. CASE /\ pc' = "poll"
             /\ UNCHANGED <<childVars, tableVars, countVars, histVars, locals, handling>>
    BY <2>1, <1>0 DEF TypeOK, ChildrenTypeOK, Locations
  <2> QED
    BY <1>5, <2>1, <1>a DEF FifoRunner
<1>6. CASE RRobinPause
  <2>1. CASE running = <<>>
    BY <1>6, <2>1, <1>0 DEF RRobinPause, TypeOK, ChildrenTypeOK, Locations
  <2>2. CASE running # <<>>
    <3>1. copy' \in Process
      BY <1>6, <2>2, QueueOps DEF RRobinPause, TypeOK
    <3>2. ChildrenTypeOK' /\ pc' \in Locations
      BY <1>6, <2>2, CallsType DEF RRobinPause, PauseProcess, TypeOK, Locations, Halted
    <3> QED
      BY <1>6, <3>1, <3>2, <1>0 DEF RRobinPause, TypeOK
  <2> QED
    BY <2>1, <2>2
<1>7. CASE RRobinRequeue
  <2>1. waiting' \in Seq(Process) /\ running' \in Seq(Process)
    BY <1>7, QueueOps DEF RRobinRequeue, Requeued, TypeOK, LocalsHere, CopyHeld
  <2> QED
    BY <1>7, <2>1, <1>0 DEF RRobinRequeue, TypeOK, ChildrenTypeOK, Locations, Halted
<1>8. CASE RRobinFill
  <2>1. CASE waiting # <<>> /\ ResumeProcess(Head(waiting)) /\ pc' = "rrobin_push"
             /\ UNCHANGED <<ticks, sigchld, tableVars, countVars, histVars, locals, handling>>
    BY <2>1, <1>0, CallsType DEF ResumeProcess, TypeOK, Locations
  <2>2. CASE /\ pc' = "poll"
             /\ UNCHANGED <<childVars, tableVars, countVars, histVars, locals, handling>>
    BY <2>2, <1>0 DEF TypeOK, ChildrenTypeOK, Locations
  <2> QED
    BY <1>8, <2>1, <2>2, <1>a DEF RRobinFill
<1>9. CASE RRobinPush
  <2>1. waiting' \in Seq(Process) /\ running' \in Seq(Process)
    BY <1>9, QueueOps DEF RRobinPush, FrontToRunning, TypeOK
  <2> QED
    BY <1>9, <2>1, <1>0 DEF RRobinPush, TypeOK, ChildrenTypeOK, Locations, Halted
<1>10. CASE MlfqFront
  <2>1. copy' \in Process \cup {NoProcess}
    BY <1>10, QueueOps DEF MlfqFront, TypeOK
  <2> QED
    BY <1>10, <2>1, <1>0 DEF MlfqFront, TypeOK, ChildrenTypeOK, Locations
<1>c. CASE MlfqPop
  <2>1. Demoted(copy) \in Process
    BY <1>c, DemotedType DEF MlfqPop, LocalsHere, CopyHeld
  <2>2. running' \in Seq(Process) /\ copy' \in Process \cup {NoProcess}
    BY <1>c, <2>1, QueueOps DEF MlfqPop, TypeOK
  <2> QED
    BY <1>c, <2>2, <1>0 DEF MlfqPop, TypeOK, ChildrenTypeOK, Locations, Halted
<1>11. CASE MlfqRequeue
  <2>1. copy \in Process
    BY <1>11 DEF MlfqRequeue, LocalsHere, CopyHeld
  <2>2. Append(levels[copy.priority], copy) \in Seq(Process)
    BY <2>1, <1>0, QueueOps
  <2>3. levels' \in [0..NumLevels-1 -> Seq(Process)]
    BY <1>11, <2>2 DEF MlfqRequeue, TypeOK
  <2>4. ChildrenTypeOK' /\ pc' \in Locations
    BY <1>11, CallsType DEF MlfqRequeue, PauseProcess, TypeOK, Locations, Halted
  <2> QED
    BY <1>11, <2>3, <2>4, <1>0 DEF MlfqRequeue, TypeOK
<1>12. CASE MlfqBoostDue
  BY <1>12, <1>0 DEF MlfqBoostDue, TypeOK, ChildrenTypeOK, Locations
<1>13. CASE MlfqBoost
  <2>1. levels' \in [0..NumLevels-1 -> Seq(Process)]
    <3>1. CASE idx < NumLevels
      <4>1. idx \in 1..NumLevels-1
        BY <1>13, <3>1 DEF MlfqBoost, LocalsHere, TypeOK
      <4>2. levels[0] \o Boosted(levels[idx]) \in Seq(Process)
        BY <4>1, <1>0, BoostedType, QueueOps
      <4> QED
        BY <1>13, <3>1, <4>1, <4>2, <1>0 DEF MlfqBoost, TypeOK
    <3>2. CASE ~(idx < NumLevels)
      BY <1>13, <3>2 DEF MlfqBoost, TypeOK
    <3> QED
      BY <3>1, <3>2
  <2>2. pc' \in Locations /\ idx' \in Nat
    <3>1. idx' \in {1, idx + 1} /\ pc' \in {pc, "mlfq_admit"}
      BY <1>13 DEF MlfqBoost
    <3> QED
      BY <3>1 DEF TypeOK, Locations
  <2> QED
    BY <1>13, <2>1, <2>2, <1>0 DEF MlfqBoost, TypeOK, ChildrenTypeOK
<1>14. CASE MlfqAdmit
  <2>1. levels[0] \o waiting \in Seq(Process)
    BY <1>0, QueueOps DEF TypeOK
  <2>2. levels' \in [0..NumLevels-1 -> Seq(Process)] /\ waiting' \in Seq(Process)
    BY <1>14, <2>1, <1>0 DEF MlfqAdmit, AdmitWaiting, TypeOK
  <2> QED
    BY <1>14, <2>2, <1>0 DEF MlfqAdmit, TypeOK, ChildrenTypeOK, Locations
<1>15. CASE MlfqFill
  <2>1. CASE MlfqDispatch /\ idx < NumLevels /\ levels[idx] # <<>>
    <3> DEFINE q == Head(levels[idx])
    <3>1. idx \in 0..NumLevels-1
      BY <1>15, <2>1 DEF MlfqFill, LocalsHere, TypeOK
    <3>2. q \in Process /\ Tail(levels[idx]) \in Seq(Process)
      BY <2>1, <3>1, <1>0, QueueOps
    <3>3. levels' = [levels EXCEPT ![idx] = Tail(levels[idx])]
      BY <2>1 DEF MlfqDispatch
    <3>4. levels' \in [0..NumLevels-1 -> Seq(Process)]
      BY <3>1, <3>2, <3>3 DEF TypeOK
    <3>5. q.job \in Jobs /\ [q EXCEPT !.pid = q.job] \in Process
      BY <3>2, <1>0, ProcessUpdates
    <3>6. CASE q.pid = NoPid
      <4>1. /\ pc' = "mlfq_push"
            /\ num_waiting_processes' = num_waiting_processes - 1
            /\ \/ /\ ForkChild(q.job)
                  /\ starts' = Append(starts, q.job)
                  /\ copy' = [q EXCEPT !.pid = q.job]
                  /\ UNCHANGED forkFails
               \/ /\ forkFails < MaxForkFails
                  /\ forkFails' = forkFails + 1
                  /\ copy' = q
                  /\ UNCHANGED <<proc, starts>>
            /\ UNCHANGED <<ticks, sigchld, waiting, running, total_dead_processes, arrivals,
                           idx, sched, handling>>
        BY <1>15, <2>1, <3>6 DEF MlfqFill, MlfqDispatch
      <4> HIDE DEF q
      <4>2. ChildrenTypeOK'
        BY <4>1, <3>5, CallsType DEF TypeOK, ChildrenTypeOK
      <4>3. starts' \in Seq(Jobs)
        <5>1. starts \in Seq(Jobs)
          BY DEF TypeOK
        <5>2. Append(starts, q.job) \in Seq(Jobs)
          BY <3>5, <5>1, AppendProperties
        <5> QED
          BY <4>1, <5>1, <5>2
      <4>4. copy' \in Process
        BY <4>1, <3>2, <3>5
      <4>5. forkFails' \in 0..MaxForkFails
        <5>1. forkFails' = forkFails \/ (forkFails < MaxForkFails /\ forkFails' = forkFails + 1)
          BY <4>1
        <5> QED
          BY <5>1 DEF TypeOK
      <4>6. pc' \in Locations /\ num_waiting_processes' \in Int
        BY <4>1 DEF TypeOK, Locations
      <4> QED
        BY <4>1, <4>2, <4>3, <4>4, <4>5, <4>6, <3>4, <1>0 DEF TypeOK
    <3>7. CASE q.pid # NoPid
      <4>1. /\ pc' = "mlfq_push"
            /\ ResumeProcess(q)
            /\ copy' = q
            /\ UNCHANGED <<ticks, sigchld, waiting, running, countVars, histVars, idx, sched,
                           handling>>
        BY <1>15, <2>1, <3>7 DEF MlfqFill, MlfqDispatch
      <4> HIDE DEF q
      <4>2. ChildrenTypeOK'
        BY <4>1, CallsType DEF ResumeProcess, TypeOK
      <4> QED
        BY <4>1, <4>2, <3>2, <3>4, <1>0 DEF TypeOK, Locations
    <3> QED
      BY <3>6, <3>7
  <2>2. CASE /\ idx' \in {1, idx + 1} /\ pc' \in {pc, "poll"}
             /\ UNCHANGED <<childVars, tableVars, countVars, histVars, copy>>
    <3>1. idx' \in Nat /\ pc' \in Locations
      BY <2>2 DEF TypeOK, Locations
    <3> QED
      BY <1>15, <2>2, <3>1, <1>0 DEF MlfqFill, TypeOK, ChildrenTypeOK
  <2> QED
    BY <1>15, <2>1, <2>2 DEF MlfqFill
<1>16. CASE MlfqPush
  <2>1. running' \in Seq(Process)
    BY <1>16, QueueOps DEF MlfqPush, TypeOK, LocalsHere, CopyHeld
  <2> QED
    BY <1>16, <2>1, <1>0 DEF MlfqPush, TypeOK, ChildrenTypeOK, Locations
<1>17. CASE FlushKill
  <2>1. ChildrenTypeOK'
    BY <1>17, CallsType DEF FlushKill, TerminateProcess, TypeOK, ChildrenTypeOK
  <2>2. pc' \in Locations
    BY <1>17 DEF FlushKill, TerminateProcess, Locations, Halted
  <2> QED
    BY <1>17, <2>1, <2>2, <1>0 DEF FlushKill, TypeOK
<1>18. CASE FlushPop
  <2>1. running' \in Seq(Process)
    BY <1>18, QueueOps DEF FlushPop, TypeOK
  <2> QED
    BY <1>18, <2>1, <1>0 DEF FlushPop, TypeOK, ChildrenTypeOK, Locations, Halted
<1>19. CASE FlushQueue
  <2>1. waiting' \in Seq(Process)
    BY <1>19, QueueOps DEF FlushQueue, QueueFlushed, TypeOK
  <2>2. levels' \in [0..NumLevels-1 -> Seq(Process)]
    <3>1. ASSUME NEW l \in 0..NumLevels-1, levels[l] # <<>>,
                 levels' = [levels EXCEPT ![l] = Tail(@)]
          PROVE  levels' \in [0..NumLevels-1 -> Seq(Process)]
      <4>1. Tail(levels[l]) \in Seq(Process)
        BY <3>1, <1>0, QueueOps
      <4> QED
        BY <3>1, <4>1 DEF TypeOK
    <3> QED
      BY <1>19, <3>1 DEF FlushQueue, QueueFlushed, TypeOK
  <2>3. ASSUME NEW e, FlushEntry(e)
        PROVE  ChildrenTypeOK' /\ num_waiting_processes' \in Int /\ pc' = pc
    BY <1>19, <2>3, CallsType DEF FlushQueue, FlushEntry, TypeOK, ChildrenTypeOK
  <2>4. ChildrenTypeOK' /\ num_waiting_processes' \in Int /\ pc' \in Locations
    BY <1>19, <2>3 DEF FlushQueue, QueueFlushed, TypeOK, ChildrenTypeOK, Locations
  <2> QED
    BY <1>19, <2>1, <2>2, <2>4, <1>0 DEF FlushQueue, TypeOK
<1> QED
  BY <1>b, <1>c, <1>1, <1>2, <1>3, <1>4, <1>5, <1>6, <1>7, <1>8, <1>9, <1>10, <1>11, <1>12,
     <1>13, <1>14, <1>15, <1>16, <1>17, <1>18, <1>19 DEF SchedulerStep

(* The types of everything but the children: pc is left to the actions. *)
LEMMA TypeStep == TypeOK /\ LocalsOK /\ [Next]_vars => TypeOK'
<1> SUFFICES ASSUME TypeOK, LocalsOK, Next PROVE TypeOK'
  BY DEF TypeOK, ChildrenTypeOK, vars, childVars, tableVars, countVars, histVars, locals, loopVars
<1> USE ChildrenAssumption, SchedulerAssumption
<1> USE DEF childVars, tableVars, countVars, histVars, locals, loopVars, At
<1>0. /\ \A j \in Jobs : NewProcess(j) \in Process
      /\ \A k \in 0..NumLevels-1 : levels[k] \in Seq(Process)
      /\ \A e \in Process : e.job \in Jobs /\ e.pid \in Jobs \cup {NoPid}
                            /\ e.priority \in 0..NumLevels-1
  <2>1. ASSUME NEW j \in Jobs PROVE NewProcess(j) \in Process
    BY DEF NewProcess, NoProcess, Process
  <2> QED
    BY <2>1 DEF Process, TypeOK
<1>1. CASE Poll
  <2>1. pc' \in Locations /\ ready' \in BOOLEAN /\ sched' \in BOOLEAN
    BY <1>1 DEF Poll, TypeOK, Locations, Halted
  <2> QED
    BY <1>1, <2>1 DEF Poll, TypeOK, ChildrenTypeOK
<1>2. CASE PollStdin
  <2>1. pc' \in Locations
    BY <1>2 DEF PollStdin, Locations, AfterAccept
  <2>2. ready' \in BOOLEAN /\ sched' \in BOOLEAN
    BY <1>2 DEF PollStdin, TypeOK
  <2> QED
    BY <1>2, <2>1, <2>2 DEF PollStdin, TypeOK, ChildrenTypeOK
<1>3. CASE AddJob
  <2>1. PICK j \in Jobs : /\ waiting' = <<NewProcess(j)>> \o waiting
                          /\ arrivals' = Append(arrivals, j)
    BY <1>3 DEF AddJob
  <2>2. waiting' \in Seq(Process)
    BY <2>1, <1>0, QueueOps DEF TypeOK
  <2>3. arrivals' \in Seq(Jobs)
    BY <2>1, AppendProperties DEF TypeOK
  <2> QED
    BY <1>3, <2>2, <2>3 DEF AddJob, TypeOK, ChildrenTypeOK, Locations, AfterAccept
<1>4. CASE FlushRequest
  BY <1>4 DEF FlushRequest, TypeOK, ChildrenTypeOK, Locations
<1>5. CASE Query
  BY <1>5 DEF Query, TypeOK, ChildrenTypeOK, Locations, AfterAccept
<1>a. CASE FlushReturn
  <2>1. pc' \in Locations /\ interrupted' \in (Locations \ Halted) \cup {"none"}
    BY <1>a DEF FlushReturn, TypeOK, AfterAccept, Locations
  <2> QED
    BY <1>a, <2>1 DEF FlushReturn, ClearRunFlag, TypeOK, ChildrenTypeOK
<1>b. CASE StatusCounts
  BY <1>b, QueueOps DEF StatusCounts, RunningCount, TypeOK, ChildrenTypeOK, Locations
<1>c. CASE StatusLists
  BY <1>c DEF StatusLists, TypeOK, ChildrenTypeOK, Locations, AfterAccept
<1>d. CASE SigintEnter
  <2>1. pc' \in Locations /\ interrupted' \in (Locations \ Halted) \cup {"none"}
    BY <1>d DEF SigintEnter, TypeOK, Locations
  <2>2. sched' \in BOOLEAN
    BY <1>d DEF SigintEnter, TypeOK
  <2> QED
    BY <1>d, <2>1, <2>2 DEF SigintEnter, TypeOK, ChildrenTypeOK
<1>e. CASE Types
  BY <1>e DEF Types, TypeOK, ChildrenTypeOK
<1>6. CASE SchedulerStep
  BY <1>6, SchedulerTypeStep
<1>7. CASE Handler
  <2>1. CASE SigchldEnter
    BY <2>1 DEF SigchldEnter, TypeOK, ChildrenTypeOK
  <2>2. CASE SigchldReturn
    BY <2>2 DEF SigchldReturn, TypeOK, ChildrenTypeOK
  <2>3. ASSUME NEW j \in Jobs, SigchldReap(j) PROVE TypeOK'
    <3>1. proc' \in [Jobs -> ProcState]
      BY <2>3 DEF SigchldReap, ReapChild, TypeOK, ChildrenTypeOK, ProcState
    <3>2. running' \in Seq(Process) /\ total_dead_processes' \in Nat
      <4>1. \A k \in DOMAIN running : RemoveProcess(k) \in Seq(Process)
        BY RemoveAtType, LenProperties DEF RemoveProcess, TypeOK
      <4> QED
        BY <2>3, <4>1 DEF SigchldReap, TypeOK
    <3> QED
      BY <2>3, <3>1, <3>2 DEF SigchldReap, TypeOK, ChildrenTypeOK
  <2> QED
    BY <1>7, <2>1, <2>2, <2>3 DEF Handler
<1>8. ASSUME NEW j \in Jobs, Ends(j) PROVE TypeOK'
  BY <1>8 DEF Ends, ChildExits, TypeOK, ChildrenTypeOK, ProcState
<1>9. ASSUME NEW j \in Jobs, Computes(j) PROVE TypeOK'
  BY <1>9 DEF Computes, ChildComputes, TypeOK, ChildrenTypeOK
<1> QED
  BY <1>1, <1>2, <1>3, <1>4, <1>5, <1>a, <1>b, <1>c, <1>d, <1>e, <1>6, <1>7, <1>8, <1>9
     DEF Next, MainStep, Request

(* A push follows a test that found a CPU free, and whatever the handler   *)
(* did in between only made running shorter: so the table fits the CPUs.   *)
LEMMA LimitStep == TypeOK /\ NoOvercommit /\ LocalsOK /\ [Next]_vars => NoOvercommit'
<1> SUFFICES ASSUME TypeOK, NoOvercommit, LocalsOK, LocalsHere, Next PROVE NoOvercommit'
  BY LocalsAtPc DEF NoOvercommit, vars, tableVars
<1> USE SchedulerAssumption
<1> USE DEF tableVars, At
<1>1. CASE UNCHANGED running
  BY <1>1 DEF NoOvercommit
<1>2. ASSUME Len(running') <= Len(running) PROVE NoOvercommit'
  <2>1. Len(running) \in Nat /\ Len(running') \in Nat
    BY TypeStep, QueueOps DEF TypeOK
  <2> QED
    BY <1>2, <2>1 DEF NoOvercommit
<1>3. ASSUME NEW e \in Process, running' = Append(running, e), pc \in Pushing
      PROVE  NoOvercommit'
  <2>1. Len(running) < NCPUS /\ Len(running) \in Nat
    BY <1>3, QueueOps DEF LocalsHere, HasFreeCPU, TypeOK
  <2>2. Len(running') = Len(running) + 1
    BY <1>3, QueueOps DEF TypeOK
  <2> QED
    BY <2>1, <2>2 DEF NoOvercommit
<1>4. CASE ExecuteJobPush
  <2>1. pc \in Pushing
    BY <1>4 DEF ExecuteJobPush, Pushing
  <2>2. waiting # <<>> => [Head(waiting) EXCEPT !.pid = Head(waiting).job] \in Process
    BY QueueOps, ProcessUpdates DEF TypeOK, Process
  <2> QED
    BY <1>1, <1>3, <1>4, <2>1, <2>2 DEF ExecuteJobPush, FrontToRunning
<1>5. CASE RRobinPush
  <2>1. pc \in Pushing
    BY <1>5 DEF RRobinPush, Pushing
  <2> QED
    BY <1>1, <1>3, <1>5, <2>1, QueueOps DEF RRobinPush, FrontToRunning, TypeOK
<1>6. CASE MlfqPush
  BY <1>3, <1>6 DEF MlfqPush, Pushing, LocalsHere, CopyHeld
<1>7. ASSUME running # <<>>, running' = Tail(running) PROVE NoOvercommit'
  <2>1. Len(running') <= Len(running)
    BY <1>7, QueueOps DEF TypeOK
  <2> QED
    BY <1>2, <2>1
<1>8. CASE StatScan
  <2>1. ASSUME NEW e, running' = [running EXCEPT ![idx] = e] PROVE Len(running') = Len(running)
    BY <2>1 DEF TypeOK
  <2>2. running' = running \/ \E e : running' = [running EXCEPT ![idx] = e]
    BY <1>8 DEF StatScan
  <2> QED
    BY <1>1, <2>1, <2>2 DEF NoOvercommit
<1>9. CASE RRobinRequeue \/ MlfqPop \/ FlushPop
  BY <1>1, <1>7, <1>9 DEF RRobinRequeue, MlfqPop, FlushPop
<1>10. ASSUME NEW j \in Jobs, SigchldReap(j) PROVE NoOvercommit'
  <2>1. \A k \in DOMAIN running : Len(RemoveProcess(k)) <= Len(running)
    BY RemoveAtType, LenProperties DEF RemoveProcess, TypeOK
  <2>2. Len(running') <= Len(running)
    <3>1. Len(running) \in Nat
      BY QueueOps DEF TypeOK
    <3> QED
      BY <1>10, <2>1, <3>1 DEF SigchldReap
  <2> QED
    BY <1>2, <2>2
<1>11. CASE \/ ExecuteJobFork \/ StatRead \/ StatOpen \/ FifoRunner \/ RRobinPause
            \/ RRobinFill \/ MlfqFront \/ MlfqRequeue \/ MlfqBoostDue \/ MlfqBoost
            \/ MlfqAdmit \/ MlfqFill \/ FlushKill \/ FlushQueue
  BY <1>1, <1>11 DEF ExecuteJobFork, StatRead, StatOpen, FifoRunner, RRobinPause, RRobinFill,
     ExecuteJob, MlfqFront, MlfqRequeue, MlfqBoostDue, MlfqBoost, MlfqAdmit, MlfqFill,
     MlfqDispatch, FlushKill, FlushQueue
<1>12. CASE Poll \/ PollStdin \/ Request
  BY <1>1, <1>12 DEF Poll, PollStdin, Request, AddJob, FlushRequest, FlushReturn, StatusCounts,
     StatusLists, Query
<1>13. CASE \/ SigchldEnter \/ SigchldReturn \/ SigintEnter \/ Types
            \/ \E j \in Jobs : Ends(j) \/ Computes(j)
  BY <1>1, <1>13 DEF SigchldEnter, SigchldReturn, SigintEnter, Types, Ends, Computes
<1> QED
  BY <1>4, <1>5, <1>6, <1>8, <1>9, <1>10, <1>11, <1>12, <1>13
     DEF Next, MainStep, SchedulerStep, Handler

(* A child that dies raises SIGCHLD, and the handler returns only when     *)
(* waitpid finds no zombie: what died is pending or about to be reaped.    *)
LEMMA ReapStep == TypeOK /\ LocalsOK /\ ReapPending /\ [Next]_vars => ReapPending'
<1> SUFFICES ASSUME TypeOK, LocalsHere, ReapPending, Next PROVE ReapPending'
  BY LocalsAtPc DEF ReapPending, Zombies, vars, childVars
<1> USE DEF childVars, tableVars, At
<1>1. ASSUME Zombies' \subseteq Zombies, sigchld => sigchld', handling => handling'
      PROVE  ReapPending'
  BY <1>1 DEF ReapPending
<1>2. CASE UNCHANGED <<proc, sigchld, handling>>
  BY <1>1, <1>2 DEF Zombies
<1>3. ASSUME NEW S, KillChildren(S), UNCHANGED handling PROVE ReapPending'
  <2>1. sigchld' \/ Zombies' \subseteq Zombies
    BY <1>3 DEF KillChildren, Zombies, TypeOK, ChildrenTypeOK
  <2> QED
    BY <1>1, <1>3, <2>1 DEF KillChildren, ReapPending
<1>a. ASSUME NEW j \in Jobs, ForkChild(j), UNCHANGED <<sigchld, handling>> PROVE ReapPending'
  <2>1. Zombies' \subseteq Zombies
    BY <1>a DEF ForkChild, Zombies, TypeOK, ChildrenTypeOK
  <2> QED
    BY <1>1, <1>a, <2>1
<1>b. ASSUME NEW S, StopChildren(S), UNCHANGED <<sigchld, handling>> PROVE ReapPending'
  <2>1. Zombies' \subseteq Zombies
    BY <1>b DEF StopChildren, Zombies, TypeOK, ChildrenTypeOK
  <2> QED
    BY <1>1, <1>b, <2>1
<1>c. ASSUME NEW j, ContinueChild(j), UNCHANGED <<sigchld, handling>> PROVE ReapPending'
  <2>1. Zombies' \subseteq Zombies
    BY <1>c DEF ContinueChild, Zombies, TypeOK, ChildrenTypeOK
  <2> QED
    BY <1>1, <1>c, <2>1
<1>5. CASE ExecuteJobFork
  <2>1. copy.job \in Jobs
    BY <1>5 DEF ExecuteJobFork, LocalsHere, CopyHeld, Process
  <2> QED
    BY <1>2, <1>a, <1>5, <2>1 DEF ExecuteJobFork
<1>6. CASE FifoRunner
  BY <1>2, <1>6 DEF FifoRunner, ExecuteJob
<1>7. CASE RRobinFill
  BY <1>2, <1>c, <1>7 DEF RRobinFill, ExecuteJob, ResumeProcess
<1>8. CASE RRobinPause \/ MlfqRequeue
  BY <1>2, <1>b, <1>8 DEF RRobinPause, MlfqRequeue, PauseProcess
<1>9. CASE MlfqFill
  <2>1. CASE idx < NumLevels /\ levels[idx] # <<>> /\ MlfqDispatch
    <3>1. levels[idx] \in Seq(Process)
      BY <1>9, <2>1, SchedulerAssumption DEF MlfqFill, LocalsHere, TypeOK
    <3>2. Head(levels[idx]).job \in Jobs
      BY <2>1, <3>1, QueueOps DEF Process
    <3> QED
      BY <1>2, <1>a, <1>c, <1>9, <2>1, <3>2 DEF MlfqFill, MlfqDispatch, ResumeProcess
  <2> QED
    BY <1>2, <1>9, <2>1 DEF MlfqFill
<1>10. CASE FlushKill \/ FlushQueue
  BY <1>2, <1>3, <1>10 DEF FlushKill, TerminateProcess, FlushQueue, FlushEntry, QueueFlushed
<1>11. CASE \/ ExecuteJobPush \/ StatRead \/ StatOpen \/ StatScan \/ RRobinRequeue \/ RRobinPush
            \/ MlfqFront \/ MlfqPop \/ MlfqBoostDue \/ MlfqBoost \/ MlfqAdmit \/ MlfqPush
            \/ FlushPop
  BY <1>2, <1>11 DEF ExecuteJobPush, StatRead, StatOpen, StatScan, RRobinRequeue, RRobinPush,
     MlfqFront, MlfqPop, MlfqBoostDue, MlfqBoost, MlfqAdmit, MlfqPush, FlushPop
<1>12. CASE Poll \/ PollStdin \/ Request \/ SigintEnter \/ Types
  BY <1>2, <1>12 DEF Poll, PollStdin, Request, AddJob, FlushRequest, FlushReturn, StatusCounts,
     StatusLists, Query, SigintEnter, Types
<1>13. CASE SigchldEnter
  BY <1>13 DEF SigchldEnter, ReapPending
<1>14. CASE SigchldReturn
  BY <1>14 DEF SigchldReturn, ReapPending, Zombies
<1>15. ASSUME NEW j \in Jobs, SigchldReap(j) PROVE ReapPending'
  BY <1>15 DEF SigchldReap, ReapPending
<1>16. ASSUME NEW j \in Jobs, Ends(j) PROVE ReapPending'
  BY <1>16 DEF Ends, ChildExits, ReapPending
<1>17. ASSUME NEW j \in Jobs, Computes(j) PROVE ReapPending'
  BY <1>2, <1>17 DEF Computes, ChildComputes
<1> QED
  BY <1>5, <1>6, <1>7, <1>8, <1>9, <1>10, <1>11, <1>12, <1>13, <1>14, <1>15, <1>16, <1>17
     DEF Next, MainStep, SchedulerStep, Handler

(* What the thread relies on stays true, if no interrupt is being handled: *)
(* only the thread itself puts entries into running.                       *)
LEMMA SchedulerLocalsStep ==
  TypeOK /\ LocalsOK /\ interrupted = "none" /\ SchedulerStep => LocalsOK'
<1> SUFFICES ASSUME TypeOK, LocalsOK, interrupted = "none", interrupted' = "none", SchedulerStep
             PROVE  LocalsOK'
  BY DEF SchedulerStep, loopVars
<1> USE SchedulerAssumption
<1> USE DEF childVars, tableVars, countVars, histVars, locals, At, Pushing, CopyHeld, Thread
<1>t. Len(running) \in Nat /\ Len(running') \in Nat /\ idx \in Nat
  BY SchedulerTypeStep, QueueOps DEF TypeOK
<1>1. ASSUME pc' \notin Pushing \cup CopyHeld \cup {"mlfq_fill"}, idx' >= 1 PROVE LocalsOK'
  BY <1>1 DEF LocalsOK
<1>6. ASSUME ExecuteJob, HasFreeCPU, waiting # <<>>, pc \in {"fifo", "rrobin_fill"}
      PROVE  LocalsOK'
  <2>1. copy' \in Process
    BY <1>6, QueueOps DEF ExecuteJob, TypeOK
  <2> QED
    BY <1>6, <2>1 DEF ExecuteJob, LocalsOK, HasFreeCPU
<1>5. CASE ExecuteJobFork
  BY <1>5 DEF ExecuteJobFork, CallersLoop, LocalsOK, HasFreeCPU
<1>7. CASE ExecuteJobPush \/ FifoRunner \/ RRobinPush
  BY <1>1, <1>6, <1>7 DEF ExecuteJobPush, CallersLoop, FifoRunner, RRobinPush, LocalsOK
<1>8. CASE StatRead
  <2>1. CASE idx <= Len(running)
    <3>1. running[idx] \in Process
      BY <1>8, <1>t, <2>1, ElementOfSeq DEF StatRead, LocalsOK, TypeOK
    <3> QED
      BY <1>8, <2>1, <3>1 DEF StatRead, LocalsOK
  <2>2. CASE ~(idx <= Len(running))
    BY <1>1, <1>8, <2>2 DEF StatRead
  <2> QED
    BY <2>1, <2>2
<1>9. CASE StatOpen
  <2>1. pc' = "stat_scan" => copy.pid \in Jobs
    BY <1>9 DEF StatOpen, LocalsOK, Process
  <2> QED
    BY <1>9, <2>1 DEF StatOpen, LocalsOK
<1>10. CASE StatScan
  BY <1>1, <1>10, <1>t DEF StatScan, LocalsOK
<1>11. CASE RRobinPause
  <2>1. CASE running = <<>>
    BY <1>1, <1>11, <2>1 DEF RRobinPause, LocalsOK
  <2>2. CASE running # <<>>
    BY <1>11, <2>2, QueueOps DEF RRobinPause, PauseProcess, LocalsOK, TypeOK
  <2> QED
    BY <2>1, <2>2
<1>12. CASE RRobinFill
  BY <1>1, <1>6, <1>12 DEF RRobinFill, LocalsOK, HasFreeCPU
<1>13. CASE MlfqFront
  BY <1>13, QueueOps DEF MlfqFront, LocalsOK, TypeOK
<1>a. CASE MlfqPop
  <2>1. Demoted(copy) \in Process
    BY <1>a, DemotedType DEF MlfqPop, LocalsOK
  <2> QED
    BY <1>a, <2>1 DEF MlfqPop, LocalsOK
<1>14. CASE RRobinRequeue \/ MlfqRequeue \/ MlfqBoostDue \/ MlfqBoost
  <2>1. pc' \notin Pushing \cup CopyHeld \cup {"mlfq_fill"}
    BY <1>14 DEF RRobinRequeue, MlfqRequeue, PauseProcess, MlfqBoostDue, MlfqBoost
  <2>2. idx' \in {idx, idx + 1, 1} /\ idx >= 1
    BY <1>14 DEF RRobinRequeue, MlfqRequeue, MlfqBoostDue, MlfqBoost, LocalsOK
  <2> QED
    BY <1>1, <1>t, <2>1, <2>2
<1>15. CASE MlfqAdmit \/ MlfqPush
  BY <1>15 DEF MlfqAdmit, MlfqPush, LocalsOK
<1>16. CASE MlfqFill
  <2>1. CASE idx < NumLevels /\ levels[idx] # <<>> /\ HasFreeCPU /\ MlfqDispatch
    <3>1. levels[idx] \in Seq(Process)
      BY <1>16, <2>1 DEF MlfqFill, LocalsOK, TypeOK
    <3>2. Head(levels[idx]) \in Process
      BY <2>1, <3>1, QueueOps
    <3>3. \A j \in Jobs : [Head(levels[idx]) EXCEPT !.pid = j] \in Process
      BY <3>2, ProcessUpdates
    <3>4. copy' \in Process
      BY <2>1, <3>2, <3>3 DEF MlfqDispatch, Process
    <3> QED
      BY <1>16, <2>1, <3>4 DEF MlfqFill, MlfqDispatch, LocalsOK, HasFreeCPU
  <2>2. CASE ~(idx < NumLevels /\ levels[idx] # <<>> /\ HasFreeCPU)
    BY <1>1, <1>16, <1>t, <2>2 DEF MlfqFill, LocalsOK
  <2> QED
    BY <1>16, <2>1, <2>2 DEF MlfqFill
<1>17. CASE FlushKill \/ FlushPop \/ FlushQueue
  <2>1. pc' \notin Pushing \cup CopyHeld \cup {"mlfq_fill"}
    BY <1>17 DEF FlushKill, TerminateProcess, FlushPop, FlushQueue, FlushEntry, QueueFlushed
  <2>2. idx' = idx /\ idx >= 1
    BY <1>17 DEF FlushKill, FlushPop, FlushQueue, LocalsOK
  <2> QED
    BY <1>1, <2>1, <2>2
<1> QED
  BY <1>5, <1>7, <1>8, <1>9, <1>10, <1>11, <1>12, <1>13, <1>a, <1>14, <1>15, <1>16, <1>17
     DEF SchedulerStep

(* A step is one of the thread itself, or it leaves the thread and its     *)
(* locals where they are: sigint_handler and sigchld_handler touch neither,*)
(* and only make running shorter.                                          *)
LEMMA OneThread ==
  TypeOK /\ LocalsOK /\ Next =>
    \/ /\ UNCHANGED <<Thread, copy, idx>> /\ Len(running') <= Len(running)
       /\ interrupted' # "none" => pc' \in Flushing \cup Halted
    \/ /\ interrupted = "none" /\ interrupted' = "none"
       /\ Poll \/ PollStdin \/ Request \/ SchedulerStep
<1> DEFINE Interruption ==
             /\ UNCHANGED <<Thread, copy, idx>> /\ Len(running') <= Len(running)
             /\ interrupted' # "none" => pc' \in Flushing \cup Halted
           ThreadStep ==
             /\ interrupted = "none" /\ interrupted' = "none"
             /\ Poll \/ PollStdin \/ Request \/ SchedulerStep
<1> SUFFICES ASSUME TypeOK, LocalsOK, Next PROVE Interruption \/ ThreadStep
  OBVIOUS
<1> USE SchedulerAssumption
<1> USE DEF childVars, tableVars, countVars, histVars, locals, loopVars, At
<1>t. Len(running) \in Nat /\ Len(running') \in Nat /\ idx \in Nat
  BY TypeStep, QueueOps DEF TypeOK
<1>2. CASE \/ SigchldEnter \/ SigchldReturn \/ Types
           \/ \E j \in Jobs : Ends(j) \/ Computes(j)
  <2>1. UNCHANGED <<pc, copy, idx, running, interrupted>>
    BY <1>2 DEF SigchldEnter, SigchldReturn, Types, Ends, Computes
  <2> QED
    BY <1>t, <2>1 DEF LocalsOK, Thread
<1>3. ASSUME NEW j \in Jobs, SigchldReap(j) PROVE Interruption
  <2>1. \A k \in DOMAIN running : Len(RemoveProcess(k)) <= Len(running)
    BY RemoveAtType, LenProperties DEF RemoveProcess, TypeOK
  <2>2. Len(running') <= Len(running)
    BY <1>3, <2>1, <1>t DEF SigchldReap
  <2> QED
    BY <1>3, <2>2 DEF SigchldReap, LocalsOK, Thread
<1>4. CASE SigintEnter
  <2>1. Thread' = Thread
    BY <1>4 DEF SigintEnter, Thread, TypeOK, Locations, Halted
  <2> QED
    BY <1>4, <1>t, <2>1 DEF SigintEnter, Flushing
<1>5. CASE FlushReturn /\ interrupted # "none"
  <2>1. Thread' = Thread
    BY <1>5 DEF FlushReturn, Thread
  <2> QED
    BY <1>5, <1>t, <2>1 DEF FlushReturn
<1>6. CASE interrupted = "none" /\ (Poll \/ PollStdin \/ Request \/ SchedulerStep)
  BY <1>6 DEF Poll, PollStdin, Request, AddJob, FlushRequest, FlushReturn, StatusCounts,
     StatusLists, Query, SchedulerStep
<1>7. CASE interrupted # "none" /\ MainStep /\ ~FlushReturn
  <2>1. pc \in Flushing \cup Halted
    BY <1>7 DEF LocalsOK
  <2>2. FlushKill \/ FlushPop \/ FlushQueue
    BY <1>7, <2>1 DEF MainStep, Poll, PollStdin, Request, AddJob, FlushRequest, StatusCounts,
       StatusLists, Query, SchedulerStep, ExecuteJobFork, ExecuteJobPush, StatRead, StatOpen,
       StatScan, FifoRunner, RRobinPause, RRobinRequeue, RRobinFill, RRobinPush, MlfqFront,
       MlfqPop, MlfqRequeue, MlfqBoostDue, MlfqBoost, MlfqAdmit, MlfqFill, MlfqPush, Flushing,
       Halted
  <2>3. UNCHANGED <<copy, idx>> /\ Len(running') <= Len(running)
    BY <2>2, <1>t, QueueOps DEF FlushKill, FlushPop, FlushQueue, TypeOK
  <2>4. pc' \in Flushing \cup Halted
    BY <2>2 DEF FlushKill, TerminateProcess, FlushPop, FlushQueue, FlushEntry, QueueFlushed,
       Flushing, Halted
  <2>5. interrupted' = interrupted
    BY <1>7, <2>2 DEF MainStep, Poll, PollStdin, Request, AddJob, FlushRequest, StatusCounts,
       StatusLists, Query, SchedulerStep
  <2> QED
    BY <1>7, <2>3, <2>4, <2>5 DEF Thread
<1> QED
  BY <1>2, <1>3, <1>4, <1>5, <1>6, <1>7 DEF Next, MainStep, Request, Handler

(* What the thread relies on also survives what interrupts it. *)
LEMMA LocalsStep == TypeOK /\ LocalsOK /\ [Next]_vars => LocalsOK'
<1> SUFFICES ASSUME TypeOK, LocalsOK, Next PROVE LocalsOK'
  BY DEF LocalsOK, Thread, HasFreeCPU, vars, tableVars, locals, loopVars
<1> USE SchedulerAssumption
<1>t. Len(running) \in Nat /\ Len(running') \in Nat /\ idx \in Nat
  BY TypeStep, QueueOps DEF TypeOK
<1>1. CASE /\ UNCHANGED <<Thread, copy, idx>> /\ Len(running') <= Len(running)
           /\ interrupted' # "none" => pc' \in Flushing \cup Halted
  BY <1>1, <1>t DEF LocalsOK, HasFreeCPU
<1>2. CASE interrupted = "none" /\ interrupted' = "none" /\ (Poll \/ PollStdin \/ Request)
  <2>1. /\ pc \notin Pushing \cup CopyHeld \cup {"mlfq_fill"}
        /\ pc' \notin Pushing \cup CopyHeld \cup {"mlfq_fill"}
        /\ idx' = idx
    BY <1>2 DEF Poll, PollStdin, Request, AddJob, FlushRequest, FlushReturn, StatusCounts,
       StatusLists, Query, AfterAccept, Pushing, CopyHeld, At, locals
  <2> QED
    BY <1>2, <2>1 DEF LocalsOK, Thread, Pushing, CopyHeld
<1>3. CASE interrupted = "none" /\ SchedulerStep
  BY <1>3, SchedulerLocalsStep
<1> QED
  BY <1>1, <1>2, <1>3, OneThread
-----------------------------------------------------------------------------
(* The four parts together are inductive. *)
LEMMA InvStep == IInv /\ [Next]_vars => IInv'
  BY TypeStep, LimitStep, ReapStep, LocalsStep DEF IInv

(* What the thread's position promises of its locals and tables survives   *)
(* every interruption by sigchld_handler and sigint_handler, and with it   *)
(* the types, the limit on running and the pending SIGCHLD: the invariant  *)
(* all other proofs rest on (scheduler.cpp:247-344, pq.cpp:56-85).         *)
THEOREM Invariance == Spec => []IInv
<1>1. Init => IInv
  BY InitIInv
<1>2. IInv /\ [Next]_vars => IInv'
  BY InvStep
<1> QED
  BY <1>1, <1>2, PTL DEF Spec

(* The server's tables and locals keep their types, whatever the handler   *)
(* interrupts; in particular an MLFQ priority is always an index of levels *)
(* (scheduler.cpp:312,315).                                                *)
THEOREM TypeCorrect == Spec => []TypeOK
<1>1. IInv => TypeOK
  BY DEF IInv
<1> QED
  BY <1>1, Invariance, PTL

(* For every number of jobs and CPUs and every policy, running holds at    *)
(* most NCPUS entries (scheduler.cpp:277,292,334).                         *)
THEOREM RunningFitsCPUs == Spec => []NoOvercommit
<1>1. IInv => NoOvercommit
  BY DEF IInv
<1> QED
  BY <1>1, Invariance, PTL

(* No death of a child is missed: while a zombie is left, SIGCHLD is       *)
(* pending or the handler is in its loop (pq.cpp:59-80).                   *)
THEOREM DeathsAreNoticed == Spec => []ReapPending
<1>1. IInv => ReapPending
  BY DEF IInv
<1> QED
  BY <1>1, Invariance, PTL
=============================================================================
