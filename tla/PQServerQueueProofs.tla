------------------------- MODULE PQServerQueueProofs ------------------------
(***************************************************************************)
(* The order of the queues.  A queue of the MLFQ holds exactly the entries *)
(* whose priority names it; this rests on a fact the code keeps nowhere,   *)
(* that an entry in waiting has priority 0, since demotions happen under   *)
(* mlfq only and preempted entries go back to waiting under rdrn only.     *)
(* Waiting is a row of new entries followed by preempted ones.  And an     *)
(* entry is down by one level at most for each allotment that was used up. *)
(***************************************************************************)
EXTENDS PQServerProofs

AtLevel(l) == {e \in Process : e.priority = l}

MlfqSteps == {"mlfq", "mlfq_pop", "mlfq_requeue", "mlfq_boost", "mlfq_boosting", "mlfq_admit",
              "mlfq_fill", "mlfq_push"}

TablesByPriority ==
  /\ waiting \in Seq(AtLevel(0))
  /\ \A l \in 0..NumLevels-1 : levels[l] \in Seq(AtLevel(l))
  /\ Policy # "mlfq" => running \in Seq(AtLevel(0))

RunnerOfPolicy ==
  /\ Thread \in MlfqSteps => Policy = "mlfq"
  /\ Thread \in {"rrobin", "rrobin_requeue"} => Policy = "rdrn"
  /\ Thread = "rrobin_requeue" => copy.priority = 0

PriorityInv == TablesByPriority /\ RunnerOfPolicy
-----------------------------------------------------------------------------
(* What the operations on a queue return when its entries are of a set S. *)
LEMMA AppendOf == ASSUME NEW S, NEW s \in Seq(S), NEW e \in S PROVE Append(s, e) \in Seq(S)
  BY AppendProperties

LEMMA FrontOf == ASSUME NEW S, NEW s \in Seq(S), NEW e \in S PROVE <<e>> \o s \in Seq(S)
<1>1. <<e>> \in Seq(S)
  OBVIOUS
<1> QED
  BY <1>1, ConcatProperties

LEMMA ConcatOf == ASSUME NEW S, NEW s \in Seq(S), NEW t \in Seq(S) PROVE s \o t \in Seq(S)
  BY ConcatProperties

LEMMA HeadTailOf ==
  ASSUME NEW S, NEW s \in Seq(S), s # <<>>
  PROVE  Head(s) \in S /\ Tail(s) \in Seq(S)
  BY HeadTailProperties

LEMMA BoostedOf ==
  ASSUME NEW s \in Seq(Process)
  PROVE  Boosted(s) \in Seq(AtLevel(0))
<1>1. \A k \in 1..Len(s) : s[k] \in Process /\ 0 \in 0..NumLevels-1
  BY ElementOfSeq, SchedulerAssumption
<1>2. ASSUME NEW k \in 1..Len(s) PROVE [s[k] EXCEPT !.priority = 0] \in AtLevel(0)
  BY <1>1, ProcessUpdates DEF AtLevel, Process
<1>3. Boosted(s) \in [1..Len(s) -> AtLevel(0)] /\ Len(s) \in Nat
  BY <1>2, LenProperties DEF Boosted
<1> QED
  BY <1>3, SeqDef
-----------------------------------------------------------------------------
LEMMA InitPriority == Init => PriorityInv
<1> SUFFICES ASSUME Init PROVE PriorityInv
  OBVIOUS
<1>1. \A l : <<>> \in Seq(AtLevel(l))
  BY EmptySeq
<1> QED
  BY <1>1 DEF Init, PriorityInv, TablesByPriority, RunnerOfPolicy, Thread, MlfqSteps

(* What RunnerOfPolicy says where the steps of the scheduler start. *)
LEMMA RunnerAtPc ==
  ASSUME LocalsOK, RunnerOfPolicy
  PROVE  /\ pc \in MlfqSteps => Policy = "mlfq"
         /\ pc \in {"rrobin", "rrobin_requeue"} => Policy = "rdrn"
         /\ pc = "rrobin_requeue" => copy.priority = 0
<1>1. pc \notin Flushing \cup Halted => Thread = pc
  BY DEF LocalsOK, Thread
<1>2. (MlfqSteps \cup {"rrobin", "rrobin_requeue"}) \cap (Flushing \cup Halted) = {}
  BY DEF MlfqSteps, Flushing, Halted
<1> QED
  BY <1>1, <1>2 DEF RunnerOfPolicy

(* Each runner is called for its own policy, and keeps to itself.          *)
LEMMA RunnerStep ==
  TypeOK /\ LocalsOK /\ PriorityInv /\ Next => RunnerOfPolicy'
<1> SUFFICES ASSUME TypeOK, LocalsOK, PriorityInv, Next PROVE RunnerOfPolicy'
  OBVIOUS
<1> USE SchedulerAssumption
<1>1. CASE UNCHANGED <<Thread, copy, idx>>
  BY <1>1 DEF PriorityInv, RunnerOfPolicy
<1>2. CASE interrupted = "none" /\ interrupted' = "none" /\ (Poll \/ PollStdin \/ Request)
  <2>1. pc' \notin MlfqSteps \cup {"rrobin", "rrobin_requeue"}
    BY <1>2 DEF Poll, PollStdin, Request, AddJob, FlushRequest, FlushReturn, StatusCounts,
       StatusLists, Query, AfterAccept, MlfqSteps
  <2> QED
    BY <1>2, <2>1 DEF RunnerOfPolicy, Thread
<1>3. CASE interrupted = "none" /\ interrupted' = "none" /\ SchedulerStep
  <2>0. Thread = pc /\ Thread' = pc'
    BY <1>3 DEF Thread
  <2>1. ASSUME pc' \notin MlfqSteps \cup {"rrobin", "rrobin_requeue"} PROVE RunnerOfPolicy'
    BY <2>0, <2>1 DEF RunnerOfPolicy
  <2>2. ASSUME pc \in MlfqSteps, pc' \in MlfqSteps PROVE RunnerOfPolicy'
    BY <2>0, <2>2 DEF PriorityInv, RunnerOfPolicy, MlfqSteps
  <2>3. CASE StatRead
    BY <2>0, <2>3 DEF StatRead, RunnerOfPolicy, MlfqSteps
  <2>4. CASE RRobinPause
    <3>1. running # <<>> => Head(running) \in AtLevel(0)
      BY <2>0, <2>4, HeadTailOf DEF RRobinPause, PriorityInv, TablesByPriority, RunnerOfPolicy, At
    <3> QED
      BY <2>0, <2>4, <3>1 DEF RRobinPause, PauseProcess, PriorityInv, RunnerOfPolicy, MlfqSteps, At,
         AtLevel
  <2>5. CASE \/ ExecuteJobFork \/ ExecuteJobPush \/ StatOpen \/ StatScan \/ FifoRunner
             \/ RRobinRequeue \/ RRobinFill \/ RRobinPush \/ FlushKill \/ FlushPop \/ FlushQueue
    <3>1. pc' \notin MlfqSteps \cup {"rrobin", "rrobin_requeue"}
      BY <2>5 DEF ExecuteJobFork, ExecuteJobPush, CallersLoop, StatOpen, StatScan, FifoRunner,
         ExecuteJob, RRobinRequeue, RRobinFill, RRobinPush, FlushKill, TerminateProcess, FlushPop,
         FlushQueue, FlushEntry, QueueFlushed, MlfqSteps, At
    <3> QED
      BY <2>1, <3>1
  <2>6. CASE \/ MlfqFront \/ MlfqPop \/ MlfqRequeue \/ MlfqBoostDue \/ MlfqBoost \/ MlfqAdmit
             \/ MlfqFill \/ MlfqPush
    <3>1. pc \in MlfqSteps
      BY <2>6 DEF MlfqFront, MlfqPop, MlfqRequeue, MlfqBoostDue, MlfqBoost, MlfqAdmit, MlfqFill,
         MlfqPush, MlfqSteps, At
    <3>2. pc' \in MlfqSteps \cup {"undefined", "group_stopped", "poll"}
      BY <2>6 DEF MlfqFront, MlfqPop, MlfqRequeue, PauseProcess, MlfqBoostDue, MlfqBoost,
         MlfqAdmit, MlfqFill, MlfqDispatch, MlfqPush, MlfqSteps, At
    <3> QED
      BY <2>1, <2>2, <3>1, <3>2 DEF MlfqSteps
  <2> QED
    BY <1>3, <2>3, <2>4, <2>5, <2>6 DEF SchedulerStep
<1> QED
  BY <1>1, <1>2, <1>3, OneThread

(* Every move between the tables takes an entry to the queue its priority  *)
(* names; what the handlers and a flush do is to shorten them.             *)
LEMMA TablesStep ==
  TypeOK /\ LocalsOK /\ PriorityInv /\ Next => TablesByPriority'
<1> SUFFICES ASSUME TypeOK, LocalsHere, PriorityInv, Next,
                    pc \in MlfqSteps => Policy = "mlfq",
                    pc = "rrobin_requeue" => copy.priority = 0
             PROVE  TablesByPriority'
  BY LocalsAtPc, RunnerAtPc DEF PriorityInv
<1> USE SchedulerAssumption
<1> USE DEF tableVars, At
<1>w. waiting \in Seq(AtLevel(0)) /\ waiting \in Seq(Process) /\ running \in Seq(Process)
  BY DEF PriorityInv, TablesByPriority, TypeOK
<1>v. \A l \in 0..NumLevels-1 : levels[l] \in Seq(AtLevel(l)) /\ levels[l] \in Seq(Process)
  BY DEF PriorityInv, TablesByPriority, TypeOK
<1>r. Policy # "mlfq" => running \in Seq(AtLevel(0))
  BY DEF PriorityInv, TablesByPriority
<1>f. levels \in [0..NumLevels-1 -> Seq(Process)]
  BY DEF TypeOK
<1>1. CASE UNCHANGED tableVars
  BY <1>1, <1>w, <1>v, <1>r DEF TablesByPriority
<1>2. ASSUME UNCHANGED <<waiting, levels>>, Policy # "mlfq" => running' \in Seq(AtLevel(0))
      PROVE  TablesByPriority'
  BY <1>2, <1>w, <1>v DEF TablesByPriority
<1>3. ASSUME UNCHANGED <<waiting, levels>>, running # <<>>, running' = Tail(running)
      PROVE  TablesByPriority'
  BY <1>2, <1>3, <1>r, HeadTailOf
<1>4. ASSUME UNCHANGED levels, waiting' \in Seq(AtLevel(0)),
             Policy # "mlfq" => running' \in Seq(AtLevel(0))
      PROVE  TablesByPriority'
  BY <1>4, <1>v DEF TablesByPriority
<1>5. ASSUME UNCHANGED running, waiting' \in Seq(AtLevel(0)),
             NEW l \in 0..NumLevels-1, NEW s \in Seq(AtLevel(l)),
             levels' = [levels EXCEPT ![l] = s]
      PROVE  TablesByPriority'
  BY <1>5, <1>v, <1>r, <1>f DEF TablesByPriority
<1>6. CASE AddJob
  <2>1. PICK j \in Jobs : waiting' = <<NewProcess(j)>> \o waiting
    BY <1>6 DEF AddJob
  <2>2. NewProcess(j) \in AtLevel(0)
    BY ChildrenAssumption DEF NewProcess, NoProcess, Process, AtLevel
  <2>3. waiting' \in Seq(AtLevel(0))
    BY <1>w, <2>1, <2>2, FrontOf
  <2> QED
    BY <1>4, <1>6, <1>r, <2>3 DEF AddJob
<1>7. CASE ExecuteJobPush
  <2>1. CASE waiting # <<>>
    <3> DEFINE e == [Head(waiting) EXCEPT !.pid = Head(waiting).job]
    <3>1. Head(waiting) \in AtLevel(0) /\ Tail(waiting) \in Seq(AtLevel(0))
      BY <1>w, <2>1, HeadTailOf
    <3>2. e \in AtLevel(0)
      BY <3>1, ProcessUpdates DEF AtLevel, Process
    <3>3. running' = Append(running, e) /\ waiting' = Tail(waiting) /\ UNCHANGED levels
      BY <1>7, <2>1 DEF ExecuteJobPush, FrontToRunning
    <3> HIDE DEF e
    <3> QED
      BY <1>4, <1>r, <3>1, <3>2, <3>3, AppendOf
  <2> QED
    BY <1>1, <1>7, <2>1 DEF ExecuteJobPush
<1>8. CASE RRobinPush
  <2>1. CASE waiting # <<>>
    <3>1. Head(waiting) \in AtLevel(0) /\ Tail(waiting) \in Seq(AtLevel(0))
      BY <1>w, <2>1, HeadTailOf
    <3>2. running' = Append(running, Head(waiting)) /\ waiting' = Tail(waiting) /\ UNCHANGED levels
      BY <1>8, <2>1 DEF RRobinPush, FrontToRunning
    <3> QED
      BY <1>4, <1>r, <3>1, <3>2, AppendOf
  <2> QED
    BY <1>1, <1>8, <2>1 DEF RRobinPush
<1>9. CASE RRobinRequeue
  <2>1. copy \in AtLevel(0)
    BY <1>9 DEF RRobinRequeue, LocalsHere, CopyHeld, AtLevel
  <2>2. waiting' \in Seq(AtLevel(0))
    BY <1>9, <1>w, <2>1, AppendOf DEF RRobinRequeue, Requeued
  <2>3. Policy # "mlfq" => running' \in Seq(AtLevel(0))
    BY <1>9, <1>r, HeadTailOf DEF RRobinRequeue
  <2> QED
    BY <1>4, <1>9, <2>2, <2>3 DEF RRobinRequeue
<1>10. CASE StatScan
  <2>1. CASE UNCHANGED running
    BY <1>1, <1>10, <2>1 DEF StatScan
  <2>2. CASE idx <= Len(running) /\ running' = [running EXCEPT ![idx].utime = ticks[copy.pid]]
    <3>1. idx \in 1..Len(running) /\ ticks[copy.pid] \in 0..MaxTicks
      BY <1>10, <2>2 DEF StatScan, LocalsHere, TypeOK, ChildrenTypeOK, CopyHeld
    <3>2. Policy # "mlfq" => [running[idx] EXCEPT !.utime = ticks[copy.pid]] \in AtLevel(0)
      <4>1. Policy # "mlfq" => running[idx] \in AtLevel(0)
        BY <1>r, <3>1, ElementOfSeq
      <4> QED
        BY <3>1, <4>1, ProcessUpdates DEF AtLevel, Process
    <3>3. running' = [running EXCEPT ![idx] = [running[idx] EXCEPT !.utime = ticks[copy.pid]]]
      BY <2>2
    <3>4. Policy # "mlfq" => running' \in Seq(AtLevel(0))
      BY <1>r, <3>1, <3>2, <3>3, ExceptSeq
    <3> QED
      BY <1>2, <1>10, <3>4 DEF StatScan
  <2> QED
    BY <1>10, <2>1, <2>2 DEF StatScan
<1>11. CASE MlfqRequeue
  <2>1. copy \in Process /\ copy.priority \in 0..NumLevels-1
    BY <1>11 DEF MlfqRequeue, LocalsHere, CopyHeld, Process
  <2>2. copy \in AtLevel(copy.priority)
    BY <2>1 DEF AtLevel
  <2>3. Append(levels[copy.priority], copy) \in Seq(AtLevel(copy.priority))
    BY <1>v, <2>1, <2>2, AppendOf
  <2>4. \/ UNCHANGED levels
        \/ levels' = [levels EXCEPT ![copy.priority] = Append(levels[copy.priority], copy)]
    BY <1>11 DEF MlfqRequeue
  <2>5. UNCHANGED <<waiting, running>>
    BY <1>11 DEF MlfqRequeue
  <2> QED
    BY <1>1, <1>5, <1>w, <2>1, <2>3, <2>4, <2>5
<1>12. CASE MlfqBoost
  <2>1. CASE idx < NumLevels
    <3>1. idx \in 1..NumLevels-1 /\ idx \in 0..NumLevels-1 /\ 0 \in 0..NumLevels-1
      BY <1>12, <2>1 DEF MlfqBoost, LocalsHere, TypeOK
    <3>2. levels[0] \o Boosted(levels[idx]) \in Seq(AtLevel(0))
      <4>1. Boosted(levels[idx]) \in Seq(AtLevel(0))
        BY <1>v, <3>1, BoostedOf
      <4> QED
        BY <1>v, <3>1, <4>1, ConcatOf
    <3>3. levels' = [levels EXCEPT ![0] = levels[0] \o Boosted(levels[idx]), ![idx] = <<>>]
      BY <1>12, <2>1 DEF MlfqBoost
    <3>4. ASSUME NEW l \in 0..NumLevels-1 PROVE levels'[l] \in Seq(AtLevel(l))
      <4>1. <<>> \in Seq(AtLevel(l))
        BY EmptySeq
      <4> QED
        BY <1>v, <1>f, <3>1, <3>2, <3>3, <4>1
    <3> QED
      BY <1>12, <1>w, <1>r, <3>4 DEF MlfqBoost, TablesByPriority
  <2> QED
    BY <1>1, <1>12, <2>1 DEF MlfqBoost
<1>13. CASE MlfqAdmit
  <2>1. levels[0] \o waiting \in Seq(AtLevel(0)) /\ 0 \in 0..NumLevels-1
    BY <1>v, <1>w, ConcatOf
  <2>2. levels' = [levels EXCEPT ![0] = levels[0] \o waiting] /\ waiting' = <<>>
    BY <1>13 DEF MlfqAdmit, AdmitWaiting
  <2>3. <<>> \in Seq(AtLevel(0)) /\ UNCHANGED running
    BY <1>13, EmptySeq DEF MlfqAdmit
  <2> QED
    BY <1>5, <2>1, <2>2, <2>3
<1>14. CASE MlfqFill
  <2>1. CASE idx < NumLevels /\ levels[idx] # <<>> /\ MlfqDispatch
    <3>1. idx \in 0..NumLevels-1
      BY <1>14, <2>1 DEF MlfqFill, LocalsHere, TypeOK
    <3>2. Tail(levels[idx]) \in Seq(AtLevel(idx))
      BY <1>v, <2>1, <3>1, HeadTailOf
    <3>3. levels' = [levels EXCEPT ![idx] = Tail(levels[idx])] /\ UNCHANGED <<waiting, running>>
      BY <2>1 DEF MlfqDispatch
    <3> QED
      BY <1>5, <1>w, <3>1, <3>2, <3>3
  <2> QED
    BY <1>1, <1>14, <2>1 DEF MlfqFill
<1>15. CASE MlfqPush
  BY <1>2, <1>15 DEF MlfqPush, MlfqSteps
<1>16. CASE FlushQueue
  <2>1. ASSUME NEW l \in 0..NumLevels-1, levels[l] # <<>>,
               levels' = [levels EXCEPT ![l] = Tail(levels[l])], UNCHANGED <<waiting, running>>
        PROVE  TablesByPriority'
    BY <1>5, <1>v, <1>w, <2>1, HeadTailOf
  <2>2. ASSUME waiting # <<>>, waiting' = Tail(waiting), UNCHANGED <<levels, running>>
        PROVE  TablesByPriority'
    BY <1>4, <1>w, <1>r, <2>2, HeadTailOf
  <2> QED
    BY <1>1, <1>16, <2>1, <2>2 DEF FlushQueue, QueueFlushed
<1>17. ASSUME NEW j \in Jobs, SigchldReap(j) PROVE TablesByPriority'
  <2>1. ASSUME NEW k \in DOMAIN running, Policy # "mlfq" PROVE RemoveProcess(k) \in Seq(AtLevel(0))
    BY <1>r, <2>1, RemoveAtType, LenProperties DEF RemoveProcess
  <2>2. Policy # "mlfq" => running' \in Seq(AtLevel(0))
    BY <1>17, <1>r, <2>1 DEF SigchldReap
  <2> QED
    BY <1>2, <1>17, <2>2 DEF SigchldReap
<1>18. CASE MlfqPop \/ FlushPop
  BY <1>1, <1>3, <1>18 DEF MlfqPop, FlushPop
<1>19. CASE \/ ExecuteJobFork \/ StatRead \/ StatOpen \/ FifoRunner \/ RRobinPause
            \/ RRobinFill \/ MlfqFront \/ MlfqBoostDue \/ FlushKill
  BY <1>1, <1>19 DEF ExecuteJobFork, StatRead, StatOpen, FifoRunner, RRobinPause, RRobinFill,
     ExecuteJob, MlfqFront, MlfqBoostDue, FlushKill
<1>20. CASE Poll \/ PollStdin \/ FlushRequest \/ FlushReturn \/ StatusCounts \/ StatusLists \/ Query
  BY <1>1, <1>20 DEF Poll, PollStdin, FlushRequest, FlushReturn, StatusCounts, StatusLists, Query
<1>21. CASE \/ SigchldEnter \/ SigchldReturn \/ SigintEnter \/ Types
            \/ \E j \in Jobs : Ends(j) \/ Computes(j)
  BY <1>1, <1>21 DEF SigchldEnter, SigchldReturn, SigintEnter, Types, Ends, Computes
<1> QED
  BY <1>6, <1>7, <1>8, <1>9, <1>10, <1>11, <1>12, <1>13, <1>14, <1>15, <1>16, <1>17, <1>18, <1>19,
     <1>20, <1>21 DEF Next, MainStep, Request, SchedulerStep, Handler
-----------------------------------------------------------------------------
LEMMA PriorityStep == IInv /\ PriorityInv /\ [Next]_vars => PriorityInv'
<1>1. CASE UNCHANGED vars
  BY <1>1 DEF PriorityInv, TablesByPriority, RunnerOfPolicy, Thread, vars, tableVars, locals, loopVars
<1>2. CASE Next
  BY <1>2, RunnerStep, TablesStep DEF PriorityInv, IInv
<1> QED
  BY <1>1, <1>2

(* Through demotion, boost, admission and flush, and whatever the handlers *)
(* interrupt, every entry of an MLFQ queue is in the one its priority      *)
(* names (scheduler.cpp:312-324,331).                                      *)
THEOREM LevelsByPriority == Spec => []LevelMatchesPriority
<1>1. Init => PriorityInv
  BY InitPriority
<1>2. IInv /\ PriorityInv /\ [Next]_vars => PriorityInv'
  BY PriorityStep
<1>3. TypeOK /\ PriorityInv => LevelMatchesPriority
  <2> SUFFICES ASSUME TypeOK, PriorityInv, NEW l \in DOMAIN levels, NEW k \in DOMAIN levels[l]
               PROVE  levels[l][k].priority = l
    BY DEF LevelMatchesPriority
  <2>1. levels[l] \in Seq(AtLevel(l))
    BY DEF PriorityInv, TablesByPriority, TypeOK
  <2>2. levels[l][k] \in AtLevel(l)
    BY <2>1, ElementOfSeq, LenProperties
  <2> QED
    BY <2>2 DEF AtLevel
<1>4. IInv => TypeOK
  BY DEF IInv
<1> QED
  BY <1>1, <1>2, <1>3, <1>4, Invariance, PTL DEF Spec
-----------------------------------------------------------------------------
NewFirst(s) == \A a, b \in DOMAIN s : a < b /\ s[b].pid = NoPid => s[a].pid = NoPid

(* pauseProcess would have stopped the server along with an entry that has *)
(* no pid, so what is put back was started.                                *)
RequeuedWasStarted == Thread = "rrobin_requeue" => copy.pid # NoPid

LEMMA NewFirstTail ==
  ASSUME NEW s \in Seq(Process), NewFirst(s), s # <<>>
  PROVE  NewFirst(Tail(s))
<1>1. /\ Tail(s) \in Seq(Process) /\ Len(s) \in Nat
      /\ Len(Tail(s)) = Len(s) - 1
      /\ \A k \in 1..Len(s)-1 : Tail(s)[k] = s[k+1]
  BY HeadTailProperties, LenProperties
<1>2. DOMAIN s = 1..Len(s) /\ DOMAIN Tail(s) = 1..Len(s)-1
  BY <1>1, LenProperties
<1> QED
  BY <1>1, <1>2 DEF NewFirst

LEMMA NewFirstAppend ==
  ASSUME NEW s \in Seq(Process), NewFirst(s), NEW e \in Process, e.pid # NoPid
  PROVE  NewFirst(Append(s, e))
<1>1. /\ Append(s, e) \in Seq(Process) /\ Len(s) \in Nat
      /\ Len(Append(s, e)) = Len(s) + 1
      /\ \A k \in 1..Len(s) : Append(s, e)[k] = s[k]
      /\ Append(s, e)[Len(s) + 1] = e
  BY AppendProperties, LenProperties
<1>2. DOMAIN s = 1..Len(s) /\ DOMAIN Append(s, e) = 1..Len(s)+1
  BY <1>1, LenProperties
<1> QED
  BY <1>1, <1>2 DEF NewFirst

LEMMA NewFirstFront ==
  ASSUME NEW s \in Seq(Process), NewFirst(s), NEW e \in Process, e.pid = NoPid
  PROVE  NewFirst(<<e>> \o s)
<1>1. /\ <<e>> \in Seq(Process) /\ Len(<<e>>) = 1 /\ <<e>>[1] = e
      /\ Len(s) \in Nat /\ DOMAIN s = 1..Len(s)
  BY LenProperties
<1>2. /\ <<e>> \o s \in Seq(Process) /\ Len(<<e>> \o s) = 1 + Len(s)
      /\ \A k \in 1..1+Len(s) : (<<e>> \o s)[k] = IF k <= 1 THEN <<e>>[k] ELSE s[k - 1]
  BY <1>1, ConcatProperties
<1>3. DOMAIN (<<e>> \o s) = 1..1+Len(s)
  BY <1>2, LenProperties
<1>4. ASSUME NEW a \in 1..1+Len(s), NEW b \in 1..1+Len(s), a < b, (<<e>> \o s)[b].pid = NoPid
      PROVE  (<<e>> \o s)[a].pid = NoPid
  <2>1. CASE a = 1
    BY <1>1, <1>2, <2>1
  <2>2. CASE a # 1
    <3>1. a - 1 \in DOMAIN s /\ b - 1 \in DOMAIN s /\ a - 1 < b - 1
      BY <1>1, <1>4, <2>2
    <3>2. (<<e>> \o s)[a] = s[a - 1] /\ (<<e>> \o s)[b] = s[b - 1]
      BY <1>1, <1>2, <1>4, <2>2
    <3> QED
      BY <1>4, <3>1, <3>2 DEF NewFirst
  <2> QED
    BY <2>1, <2>2
<1> QED
  BY <1>3, <1>4 DEF NewFirst

LEMMA RequeuedStep ==
  TypeOK /\ LocalsOK /\ RequeuedWasStarted /\ Next => RequeuedWasStarted'
<1> SUFFICES ASSUME TypeOK, LocalsOK, RequeuedWasStarted, Next PROVE RequeuedWasStarted'
  OBVIOUS
<1>1. CASE UNCHANGED <<Thread, copy, idx>>
  BY <1>1 DEF RequeuedWasStarted
<1>2. CASE interrupted = "none" /\ interrupted' = "none" /\ (Poll \/ PollStdin \/ Request)
  BY <1>2 DEF Poll, PollStdin, Request, AddJob, FlushRequest, FlushReturn, StatusCounts,
     StatusLists, Query, AfterAccept, Thread, RequeuedWasStarted
<1>3. CASE interrupted = "none" /\ interrupted' = "none" /\ SchedulerStep
  <2>1. CASE RRobinPause
    BY <1>3, <2>1 DEF RRobinPause, PauseProcess, Thread, RequeuedWasStarted
  <2>2. CASE pc' # "rrobin_requeue"
    BY <1>3, <2>2 DEF Thread, RequeuedWasStarted
  <2>3. CASE \/ ExecuteJobFork \/ ExecuteJobPush \/ StatRead \/ StatOpen \/ StatScan \/ FifoRunner
             \/ RRobinRequeue \/ RRobinFill \/ RRobinPush
    <3>1. pc' # "rrobin_requeue"
      BY <2>3, SchedulerAssumption DEF ExecuteJobFork, ExecuteJobPush, CallersLoop, StatRead,
         StatOpen, StatScan, FifoRunner, ExecuteJob, RRobinRequeue, RRobinFill, RRobinPush, At
    <3> QED
      BY <2>2, <3>1
  <2>4. CASE \/ MlfqFront \/ MlfqPop \/ MlfqRequeue \/ MlfqBoostDue \/ MlfqBoost \/ MlfqAdmit
             \/ MlfqFill \/ MlfqPush \/ FlushKill \/ FlushPop \/ FlushQueue
    <3>1. pc' # "rrobin_requeue"
      BY <2>4 DEF MlfqFront, MlfqPop, MlfqRequeue, PauseProcess, MlfqBoostDue, MlfqBoost, MlfqAdmit,
         MlfqFill, MlfqDispatch, MlfqPush, FlushKill, TerminateProcess, FlushPop, FlushQueue,
         FlushEntry, QueueFlushed, At
    <3> QED
      BY <2>2, <3>1
  <2> QED
    BY <1>3, <2>1, <2>3, <2>4 DEF SchedulerStep
<1> QED
  BY <1>1, <1>2, <1>3, OneThread

LEMMA NewFirstStep ==
  TypeOK /\ LocalsOK /\ NewFirst(waiting) /\ RequeuedWasStarted /\ Next => NewFirst(waiting)'
<1> SUFFICES ASSUME TypeOK, LocalsHere, NewFirst(waiting), Next,
                    pc = "rrobin_requeue" => copy.pid # NoPid
             PROVE  NewFirst(waiting')
  <2>1. ASSUME LocalsOK, RequeuedWasStarted, pc = "rrobin_requeue" PROVE copy.pid # NoPid
    BY <2>1 DEF LocalsOK, RequeuedWasStarted, Thread, Flushing, Halted
  <2> QED
    BY <2>1, LocalsAtPc DEF NewFirst
<1> USE DEF tableVars, At
<1>w. waiting \in Seq(Process)
  BY DEF TypeOK
<1>0. NewFirst(<<>>)
  BY EmptySeq, LenProperties DEF NewFirst
<1>1. CASE waiting' = waiting
  BY <1>1
<1>2. CASE waiting # <<>> /\ waiting' = Tail(waiting)
  BY <1>w, <1>2, NewFirstTail
<1>3. CASE AddJob
  <2>1. PICK j \in Jobs : waiting' = <<NewProcess(j)>> \o waiting
    BY <1>3 DEF AddJob
  <2>2. NewProcess(j) \in Process /\ NewProcess(j).pid = NoPid
    BY ChildrenAssumption, SchedulerAssumption DEF NewProcess, NoProcess, Process
  <2> QED
    BY <1>w, <2>1, <2>2, NewFirstFront
<1>4. CASE RRobinRequeue
  <2>1. waiting' = Append(waiting, copy) /\ copy \in Process /\ copy.pid # NoPid
    BY <1>4 DEF RRobinRequeue, Requeued, LocalsHere, CopyHeld
  <2> QED
    BY <1>w, <2>1, NewFirstAppend
<1>5. CASE MlfqAdmit
  BY <1>0, <1>5 DEF MlfqAdmit, AdmitWaiting
<1>6. CASE ExecuteJobPush \/ RRobinPush \/ FlushQueue
  BY <1>1, <1>2, <1>6 DEF ExecuteJobPush, RRobinPush, FrontToRunning, FlushQueue, QueueFlushed
<1>7. CASE \/ ExecuteJobFork \/ StatRead \/ StatOpen \/ StatScan \/ FifoRunner \/ RRobinPause
           \/ RRobinFill \/ MlfqFront \/ MlfqPop \/ MlfqRequeue \/ MlfqBoostDue \/ MlfqBoost
           \/ MlfqFill \/ MlfqPush \/ FlushKill \/ FlushPop
  BY <1>1, <1>7 DEF ExecuteJobFork, StatRead, StatOpen, StatScan, FifoRunner, RRobinPause,
     RRobinFill, ExecuteJob, MlfqFront, MlfqPop, MlfqRequeue, MlfqBoostDue, MlfqBoost, MlfqFill,
     MlfqDispatch, MlfqPush, FlushKill, FlushPop
<1>8. CASE Poll \/ PollStdin \/ FlushRequest \/ FlushReturn \/ StatusCounts \/ StatusLists \/ Query
  BY <1>1, <1>8 DEF Poll, PollStdin, FlushRequest, FlushReturn, StatusCounts, StatusLists, Query
<1>9. CASE \/ SigchldEnter \/ SigchldReturn \/ SigintEnter \/ Types
           \/ \E j \in Jobs : SigchldReap(j) \/ Ends(j) \/ Computes(j)
  BY <1>1, <1>9 DEF SigchldEnter, SigchldReturn, SigchldReap, SigintEnter, Types, Ends, Computes
<1> QED
  BY <1>3, <1>4, <1>5, <1>6, <1>7, <1>8, <1>9 DEF Next, MainStep, Request, SchedulerStep, Handler

(* Nothing that was never started waits behind a preempted process, under  *)
(* every policy and after any number of flushes and interruptions          *)
(* (scheduler.cpp:91,289).                                                 *)
THEOREM NewcomersFirst == Spec => []NewBeforePreempted
<1>1. Init => NewFirst(waiting) /\ RequeuedWasStarted
  BY DEF Init, NewFirst, RequeuedWasStarted, Thread
<1>2. IInv /\ NewFirst(waiting) /\ RequeuedWasStarted /\ [Next]_vars
        => (NewFirst(waiting) /\ RequeuedWasStarted)'
  <2>1. CASE UNCHANGED vars
    BY <2>1 DEF NewFirst, RequeuedWasStarted, Thread, vars, tableVars, locals, loopVars
  <2>2. CASE Next
    BY <2>2, NewFirstStep, RequeuedStep DEF IInv
  <2> QED
    BY <2>1, <2>2
<1>3. NewFirst(waiting) => NewBeforePreempted
  BY DEF NewFirst, NewBeforePreempted
<1> QED
  BY <1>1, <1>2, <1>3, Invariance, PTL DEF Spec
-----------------------------------------------------------------------------
(* What an entry shows of the CPU time T that the children have used: an   *)
(* allotment for each level it is down, each given for time beyond the one *)
(* before, and a utime that was read from somebody's file.                 *)
PaidBy(T) ==
  {e \in Process :
     /\ e.priority * Slice <= e.allotment
     /\ e.allotment > 0 => \E j \in Jobs : T[j] > e.allotment - Slice
     /\ e.utime > 0 => \E j \in Jobs : T[j] >= e.utime}
Paid == PaidBy(ticks)

PaidInv ==
  /\ waiting \in Seq(Paid) /\ running \in Seq(Paid)
  /\ \A l \in 0..NumLevels-1 : levels[l] \in Seq(Paid)
  /\ copy \in Paid \cup {NoProcess}

(* What becomes of an entry keeps it paid, whatever the time was used by.  *)
LEMMA PaidChanges ==
  ASSUME NEW T \in [Jobs -> 0..MaxTicks], NEW e \in PaidBy(T)
  PROVE  /\ \A j \in Jobs : [e EXCEPT !.pid = j] \in PaidBy(T)
         /\ \A j \in Jobs : [e EXCEPT !.utime = T[j]] \in PaidBy(T)
         /\ [e EXCEPT !.priority = 0] \in PaidBy(T)
         /\ Demoted(e) \in PaidBy(T)
<1> USE SchedulerAssumption, ChildrenAssumption
<1>0. /\ e \in Process /\ e.allotment \in Nat /\ e.utime \in Nat /\ e.priority \in 0..NumLevels-1
      /\ 0 \in 0..NumLevels-1 /\ e.priority * Slice <= e.allotment
      /\ e.allotment > 0 => \E j \in Jobs : T[j] > e.allotment - Slice
      /\ e.utime > 0 => \E j \in Jobs : T[j] >= e.utime
  BY DEF PaidBy, Process
<1>1. ASSUME NEW j \in Jobs PROVE [e EXCEPT !.pid = j] \in PaidBy(T)
  <2> DEFINE f == [e EXCEPT !.pid = j]
  <2>1. f \in Process
    BY <1>0, ProcessUpdates
  <2>2. f.priority = e.priority /\ f.allotment = e.allotment /\ f.utime = e.utime
    BY <1>0 DEF Process
  <2> HIDE DEF f
  <2>3. f \in PaidBy(T)
    BY <1>0, <2>1, <2>2 DEF PaidBy
  <2> QED
    BY <2>3 DEF f
<1>2. ASSUME NEW j \in Jobs PROVE [e EXCEPT !.utime = T[j]] \in PaidBy(T)
  <2> DEFINE f == [e EXCEPT !.utime = T[j]]
  <2>1. f \in Process
    BY <1>0, ProcessUpdates
  <2>2. f.priority = e.priority /\ f.allotment = e.allotment /\ f.utime = T[j] /\ T[j] \in Nat
    BY <1>0 DEF Process
  <2> HIDE DEF f
  <2>3. f \in PaidBy(T)
    BY <1>0, <2>1, <2>2 DEF PaidBy
  <2> QED
    BY <2>3 DEF f
<1>3. [e EXCEPT !.priority = 0] \in PaidBy(T)
  <2> DEFINE f == [e EXCEPT !.priority = 0]
  <2>1. f \in Process
    BY <1>0, ProcessUpdates
  <2>2. f.priority = 0 /\ f.allotment = e.allotment /\ f.utime = e.utime
    BY <1>0 DEF Process
  <2> HIDE DEF f
  <2>3. f \in PaidBy(T)
    BY <1>0, <2>1, <2>2 DEF PaidBy
  <2> QED
    BY <2>3 DEF f
<1>4. Demoted(e) \in PaidBy(T)
  <2> DEFINE f == Demoted(e)
  <2>1. f \in Process
    BY <1>0, DemotedType
  <2>2. CASE e.utime > e.allotment
    <3>1. /\ f.allotment = e.allotment + Slice /\ f.utime = e.utime
          /\ f.priority = e.priority \/ f.priority = e.priority + 1
      BY <1>0, <2>2 DEF Demoted, Process
    <3> HIDE DEF f
    <3>2. f.priority * Slice <= f.allotment
      <4>1. (e.priority + 1) * Slice = e.priority * Slice + Slice /\ e.priority * Slice \in Nat
        BY <1>0
      <4> QED
        BY <1>0, <3>1, <4>1
    <3>3. \E j \in Jobs : T[j] > f.allotment - Slice
      <4>1. PICK j \in Jobs : T[j] >= e.utime
        BY <1>0, <2>2
      <4>2. T[j] \in Nat /\ f.allotment - Slice = e.allotment
        BY <1>0, <3>1
      <4> QED
        BY <1>0, <2>2, <4>1, <4>2
    <3>4. f \in PaidBy(T)
      BY <1>0, <2>1, <3>1, <3>2, <3>3 DEF PaidBy
    <3> QED
      BY <3>4 DEF f
  <2> QED
    BY <2>2 DEF Demoted
<1> QED
  BY <1>1, <1>2, <1>3, <1>4

LEMMA BoostedPaid ==
  ASSUME NEW T \in [Jobs -> 0..MaxTicks], NEW s \in Seq(PaidBy(T))
  PROVE  Boosted(s) \in Seq(PaidBy(T))
<1>1. \A k \in 1..Len(s) : s[k] \in PaidBy(T)
  BY ElementOfSeq
<1>2. Boosted(s) \in [1..Len(s) -> PaidBy(T)] /\ Len(s) \in Nat
  BY <1>1, PaidChanges, LenProperties DEF Boosted
<1> QED
  BY <1>2, SeqDef

LEMMA NewPaid ==
  ASSUME NEW T \in [Jobs -> 0..MaxTicks], NEW j \in Jobs
  PROVE  NewProcess(j) \in PaidBy(T)
<1> DEFINE f == NewProcess(j)
<1>1. f \in Process
  BY ChildrenAssumption, SchedulerAssumption DEF NewProcess, NoProcess, Process
<1>2. f.priority = 0 /\ f.allotment = 0 /\ f.utime = 0 /\ 0 * Slice = 0
  BY SchedulerAssumption DEF NewProcess, NoProcess
<1> HIDE DEF f
<1>3. f \in PaidBy(T)
  BY <1>1, <1>2 DEF PaidBy
<1> QED
  BY <1>3 DEF f

(* utime only grows.                                                       *)
LEMMA PaidForGood ==
  ASSUME NEW T \in [Jobs -> 0..MaxTicks], NEW U \in [Jobs -> 0..MaxTicks], \A j \in Jobs : T[j] <= U[j]
  PROVE  PaidBy(T) \subseteq PaidBy(U) /\ Seq(PaidBy(T)) \subseteq Seq(PaidBy(U))
<1>1. ASSUME NEW e \in PaidBy(T) PROVE e \in PaidBy(U)
  <2>1. e \in Process /\ e.allotment \in Nat /\ e.utime \in Nat /\ e.priority * Slice <= e.allotment
    BY ChildrenAssumption DEF PaidBy, Process
  <2>2. e.allotment > 0 => \E j \in Jobs : U[j] > e.allotment - Slice
    BY <1>1, <2>1, SchedulerAssumption, ChildrenAssumption DEF PaidBy
  <2>3. e.utime > 0 => \E j \in Jobs : U[j] >= e.utime
    BY <1>1, <2>1, ChildrenAssumption DEF PaidBy
  <2> QED
    BY <2>1, <2>2, <2>3 DEF PaidBy
<1>2. ASSUME NEW s \in Seq(PaidBy(T)) PROVE s \in Seq(PaidBy(U))
  <2>1. Len(s) \in Nat /\ s \in [1..Len(s) -> PaidBy(T)]
    BY LenProperties
  <2>2. s \in [1..Len(s) -> PaidBy(U)]
    BY <1>1, <2>1
  <2> QED
    BY <2>1, <2>2, SeqDef
<1> QED
  BY <1>1, <1>2

LEMMA PaidStep == TypeOK /\ TypeOK' /\ LocalsOK /\ PaidInv /\ Next => PaidInv'
<1> SUFFICES ASSUME TypeOK, TypeOK', LocalsHere, PaidInv, Next PROVE PaidInv'
  BY LocalsAtPc
<1> USE SchedulerAssumption
<1> USE DEF tableVars, locals, childVars, At
<1>t. ticks \in [Jobs -> 0..MaxTicks] /\ ticks' \in [Jobs -> 0..MaxTicks]
  BY DEF TypeOK, ChildrenTypeOK
<1>w. /\ waiting \in Seq(Paid) /\ running \in Seq(Paid)
      /\ \A l \in 0..NumLevels-1 : levels[l] \in Seq(Paid)
      /\ copy \in Paid \cup {NoProcess} /\ <<>> \in Seq(Paid)
  BY EmptySeq DEF PaidInv
<1>v. levels \in [0..NumLevels-1 -> Seq(Process)]
  BY DEF TypeOK
<1>c. pc \in CopyHeld => copy \in Paid
  <2>1. NoProcess \notin Process
    BY ChildrenAssumption DEF NoProcess, Process
  <2> QED
    BY <1>w, <2>1 DEF LocalsHere
<1>1. ASSUME waiting' \in Seq(Paid), running' \in Seq(Paid),
             \A l \in 0..NumLevels-1 : levels'[l] \in Seq(Paid),
             copy' \in Paid \cup {NoProcess}, UNCHANGED ticks
      PROVE  PaidInv'
  <2>1. Paid' = Paid
    BY <1>1 DEF Paid, PaidBy
  <2> QED
    BY <1>1, <2>1 DEF PaidInv
<1>2. ASSUME UNCHANGED <<tableVars, ticks>>, copy' \in Paid \cup {NoProcess} PROVE PaidInv'
  BY <1>1, <1>2, <1>w
<1>3. ASSUME UNCHANGED <<waiting, running, ticks>>, copy' \in Paid \cup {NoProcess},
             NEW l \in 0..NumLevels-1, NEW s \in Seq(Paid), levels' = [levels EXCEPT ![l] = s]
      PROVE  PaidInv'
  BY <1>1, <1>3, <1>w, <1>v
<1>4. ASSUME NEW j \in Jobs, Computes(j) PROVE PaidInv'
  <2>1. \A i \in Jobs : ticks[i] <= ticks'[i]
    BY <1>t, <1>4, ChildrenAssumption DEF Computes, ChildComputes
  <2>2. Paid \subseteq Paid' /\ Seq(Paid) \subseteq Seq(Paid')
    BY <1>t, <2>1, PaidForGood DEF Paid, PaidBy
  <2> QED
    BY <1>w, <1>4, <2>2 DEF Computes, PaidInv
<1>5. CASE AddJob
  <2>1. PICK j \in Jobs : waiting' = <<NewProcess(j)>> \o waiting
    BY <1>5 DEF AddJob
  <2>2. NewProcess(j) \in Paid
    BY <1>t, NewPaid DEF Paid
  <2>3. waiting' \in Seq(Paid)
    BY <1>w, <2>1, <2>2, FrontOf
  <2> QED
    BY <1>1, <1>5, <1>w, <2>3 DEF AddJob
<1>6. CASE ExecuteJobPush
  <2>1. CASE waiting # <<>>
    <3> DEFINE e == [Head(waiting) EXCEPT !.pid = Head(waiting).job]
    <3>1. Head(waiting) \in Paid /\ Tail(waiting) \in Seq(Paid)
      BY <1>w, <2>1, HeadTailOf
    <3>2. e \in Paid
      BY <1>t, <3>1, PaidChanges DEF Paid, PaidBy, Process
    <3>3. running' = Append(running, e) /\ waiting' = Tail(waiting)
      BY <1>6, <2>1 DEF ExecuteJobPush, FrontToRunning
    <3> HIDE DEF e
    <3>4. running' \in Seq(Paid)
      BY <1>w, <3>2, <3>3, AppendOf
    <3> QED
      BY <1>1, <1>6, <1>w, <3>1, <3>3, <3>4 DEF ExecuteJobPush
  <2> QED
    BY <1>2, <1>6, <1>w, <2>1 DEF ExecuteJobPush
<1>7. CASE RRobinPush
  <2>1. CASE waiting # <<>>
    <3>1. Head(waiting) \in Paid /\ Tail(waiting) \in Seq(Paid)
      BY <1>w, <2>1, HeadTailOf
    <3>2. running' = Append(running, Head(waiting)) /\ waiting' = Tail(waiting)
      BY <1>7, <2>1 DEF RRobinPush, FrontToRunning
    <3>3. running' \in Seq(Paid)
      BY <1>w, <3>1, <3>2, AppendOf
    <3> QED
      BY <1>1, <1>7, <1>w, <3>1, <3>2, <3>3 DEF RRobinPush
  <2> QED
    BY <1>2, <1>7, <1>w, <2>1 DEF RRobinPush
<1>8. CASE RRobinRequeue
  <2>1. waiting' \in Seq(Paid)
    BY <1>8, <1>w, <1>c, AppendOf DEF RRobinRequeue, Requeued, CopyHeld
  <2>2. running' \in Seq(Paid)
    BY <1>8, <1>w, HeadTailOf DEF RRobinRequeue
  <2> QED
    BY <1>1, <1>8, <1>w, <2>1, <2>2 DEF RRobinRequeue
<1>9. CASE StatScan
  <2>1. CASE UNCHANGED running
    BY <1>2, <1>9, <2>1 DEF StatScan
  <2>2. CASE idx <= Len(running) /\ running' = [running EXCEPT ![idx].utime = ticks[copy.pid]]
    <3>1. idx \in 1..Len(running) /\ copy.pid \in Jobs
      BY <1>9, <2>2 DEF StatScan, LocalsHere, TypeOK
    <3>2. running[idx] \in Paid
      BY <1>w, <3>1, ElementOfSeq
    <3>3. [running[idx] EXCEPT !.utime = ticks[copy.pid]] \in Paid
      BY <1>t, <3>1, <3>2, PaidChanges DEF Paid
    <3>4. running' = [running EXCEPT ![idx] = [running[idx] EXCEPT !.utime = ticks[copy.pid]]]
      BY <2>2
    <3>5. running' \in Seq(Paid)
      BY <1>w, <3>1, <3>3, <3>4, ExceptSeq
    <3> QED
      BY <1>1, <1>9, <1>w, <3>5 DEF StatScan
  <2> QED
    BY <1>9, <2>1, <2>2 DEF StatScan
<1>10. CASE MlfqFront \/ RRobinPause
  <2>1. running # <<>> => Head(running) \in Paid
    BY <1>w, HeadTailOf
  <2> QED
    BY <1>2, <1>10, <1>w, <2>1 DEF MlfqFront, RRobinPause
<1>11. CASE MlfqPop
  <2>1. copy' \in Paid \cup {NoProcess}
    <3>1. copy \in Paid
      BY <1>11, <1>c DEF MlfqPop, CopyHeld
    <3>2. Demoted(copy) \in Paid
      BY <1>t, <3>1, PaidChanges DEF Paid
    <3> QED
      BY <1>11, <3>1, <3>2 DEF MlfqPop
  <2>2. running' \in Seq(Paid)
    BY <1>11, <1>w, HeadTailOf DEF MlfqPop
  <2> QED
    BY <1>1, <1>11, <1>w, <2>1, <2>2 DEF MlfqPop
<1>12. CASE MlfqRequeue
  <2>1. copy \in Paid /\ copy.priority \in 0..NumLevels-1
    BY <1>12, <1>c DEF MlfqRequeue, CopyHeld, LocalsHere, Process
  <2>2. Append(levels[copy.priority], copy) \in Seq(Paid)
    BY <1>w, <2>1, AppendOf
  <2>3. \/ UNCHANGED levels
        \/ levels' = [levels EXCEPT ![copy.priority] = Append(levels[copy.priority], copy)]
    BY <1>12 DEF MlfqRequeue
  <2>4. UNCHANGED <<waiting, running, ticks>> /\ copy' \in Paid \cup {NoProcess}
    BY <1>12 DEF MlfqRequeue
  <2> QED
    BY <1>2, <1>3, <2>1, <2>2, <2>3, <2>4
<1>13. CASE MlfqBoost
  <2>1. CASE idx < NumLevels
    <3>1. idx \in 1..NumLevels-1 /\ idx \in 0..NumLevels-1 /\ 0 \in 0..NumLevels-1
      BY <1>13, <2>1 DEF MlfqBoost, LocalsHere, TypeOK
    <3>2. levels[0] \o Boosted(levels[idx]) \in Seq(Paid)
      <4>1. Boosted(levels[idx]) \in Seq(Paid)
        BY <1>t, <1>w, <3>1, BoostedPaid DEF Paid
      <4> QED
        BY <1>w, <3>1, <4>1, ConcatOf
    <3>3. levels' = [levels EXCEPT ![0] = levels[0] \o Boosted(levels[idx]), ![idx] = <<>>]
      BY <1>13, <2>1 DEF MlfqBoost
    <3>4. ASSUME NEW l \in 0..NumLevels-1 PROVE levels'[l] \in Seq(Paid)
      BY <1>v, <1>w, <3>1, <3>2, <3>3
    <3> QED
      BY <1>1, <1>13, <1>w, <3>4 DEF MlfqBoost
  <2> QED
    BY <1>2, <1>13, <1>w, <2>1 DEF MlfqBoost
<1>14. CASE MlfqAdmit
  <2>1. levels[0] \o waiting \in Seq(Paid) /\ 0 \in 0..NumLevels-1
    BY <1>w, ConcatOf
  <2>2. levels' = [levels EXCEPT ![0] = levels[0] \o waiting] /\ waiting' = <<>>
    BY <1>14 DEF MlfqAdmit, AdmitWaiting
  <2>3. \A l \in 0..NumLevels-1 : levels'[l] \in Seq(Paid)
    BY <1>v, <1>w, <2>1, <2>2
  <2> QED
    BY <1>1, <1>14, <1>w, <2>2, <2>3 DEF MlfqAdmit
<1>15. CASE MlfqFill
  <2>1. CASE idx < NumLevels /\ levels[idx] # <<>> /\ MlfqDispatch
    <3>1. idx \in 0..NumLevels-1
      BY <1>15, <2>1 DEF MlfqFill, LocalsHere, TypeOK
    <3>2. Head(levels[idx]) \in Paid /\ Tail(levels[idx]) \in Seq(Paid)
      BY <1>w, <2>1, <3>1, HeadTailOf
    <3>3. [Head(levels[idx]) EXCEPT !.pid = Head(levels[idx]).job] \in Paid
      BY <1>t, <3>2, PaidChanges DEF Paid, PaidBy, Process
    <3>4. /\ levels' = [levels EXCEPT ![idx] = Tail(levels[idx])]
          /\ UNCHANGED <<waiting, running, ticks>> /\ copy' \in Paid
      BY <2>1, <3>2, <3>3 DEF MlfqDispatch
    <3> QED
      BY <1>3, <3>1, <3>2, <3>4
  <2> QED
    BY <1>2, <1>15, <1>w, <2>1 DEF MlfqFill
<1>16. CASE MlfqPush
  <2>1. running' \in Seq(Paid)
    BY <1>16, <1>w, <1>c, AppendOf DEF MlfqPush, CopyHeld
  <2> QED
    BY <1>1, <1>16, <1>w, <2>1 DEF MlfqPush
<1>17. CASE FlushQueue
  <2>1. ASSUME NEW l \in 0..NumLevels-1, levels[l] # <<>>,
               levels' = [levels EXCEPT ![l] = Tail(levels[l])],
               UNCHANGED <<waiting, running, ticks, copy>>
        PROVE  PaidInv'
    BY <1>3, <1>w, <2>1, HeadTailOf
  <2>2. ASSUME waiting # <<>>, waiting' = Tail(waiting), UNCHANGED <<levels, running, ticks, copy>>
        PROVE  PaidInv'
    BY <1>1, <1>w, <2>2, HeadTailOf
  <2> QED
    BY <1>2, <1>17, <1>w, <2>1, <2>2 DEF FlushQueue, QueueFlushed
<1>18. ASSUME NEW j \in Jobs, SigchldReap(j) PROVE PaidInv'
  <2>1. ASSUME NEW k \in DOMAIN running PROVE RemoveProcess(k) \in Seq(Paid)
    BY <1>w, <2>1, RemoveAtType, LenProperties DEF RemoveProcess
  <2>2. running' \in Seq(Paid)
    BY <1>18, <1>w, <2>1 DEF SigchldReap
  <2> QED
    BY <1>1, <1>18, <1>w, <2>2 DEF SigchldReap
<1>19. CASE FlushPop
  <2>1. running' \in Seq(Paid)
    BY <1>19, <1>w, HeadTailOf DEF FlushPop
  <2> QED
    BY <1>1, <1>19, <1>w, <2>1 DEF FlushPop
<1>20. CASE FifoRunner \/ RRobinFill
  <2>1. waiting # <<>> => Head(waiting) \in Paid
    BY <1>w, HeadTailOf
  <2> QED
    BY <1>2, <1>20, <1>w, <2>1 DEF FifoRunner, RRobinFill, ExecuteJob
<1>21. CASE StatRead
  <2>1. CASE idx <= Len(running)
    <3>1. idx \in 1..Len(running)
      BY <1>21, <2>1 DEF StatRead, LocalsHere, TypeOK
    <3>2. running[idx] \in Paid
      BY <1>w, <3>1, ElementOfSeq
    <3> QED
      BY <1>2, <1>21, <2>1, <3>2 DEF StatRead
  <2> QED
    BY <1>2, <1>21, <2>1 DEF StatRead
<1>22. CASE ExecuteJobFork \/ StatOpen \/ MlfqBoostDue \/ FlushKill
  BY <1>2, <1>22, <1>w DEF ExecuteJobFork, StatOpen, MlfqBoostDue, FlushKill
<1>23. CASE Poll \/ PollStdin \/ FlushRequest \/ FlushReturn \/ StatusCounts \/ StatusLists \/ Query
  BY <1>2, <1>23, <1>w DEF Poll, PollStdin, FlushRequest, FlushReturn, StatusCounts, StatusLists, Query
<1>24. CASE SigchldEnter \/ SigchldReturn \/ SigintEnter \/ Types \/ \E j \in Jobs : Ends(j)
  BY <1>2, <1>24, <1>w DEF SigchldEnter, SigchldReturn, SigintEnter, Types, Ends, ChildExits
<1> QED
  BY <1>4, <1>5, <1>6, <1>7, <1>8, <1>9, <1>10, <1>11, <1>12, <1>13, <1>14, <1>15, <1>16, <1>17,
     <1>18, <1>19, <1>20, <1>21, <1>22, <1>23, <1>24
     DEF Next, MainStep, Request, SchedulerStep, Handler

(* A process has moved down one level at most for each allotment it was    *)
(* given, and the last of these was given for CPU time beyond the one      *)
(* before -- somebody's, since run() may write the time of one child into  *)
(* the entry of another (scheduler.cpp:260,310-312).                       *)
THEOREM DemotionsPaid == Spec => []DemotionPaid
<1>1. Init => PaidInv
  <2> SUFFICES ASSUME Init PROVE PaidInv
    OBVIOUS
  <2>1. <<>> \in Seq(Paid)
    OBVIOUS
  <2>2. \A l \in 0..NumLevels-1 : levels[l] = <<>>
    BY DEF Init
  <2> QED
    BY <2>1, <2>2 DEF Init, PaidInv
<1>2. IInv /\ IInv' /\ PaidInv /\ [Next]_vars => PaidInv'
  <2>1. CASE UNCHANGED vars
    <3>1. UNCHANGED <<waiting, levels, running, copy>> /\ Paid' = Paid
      BY <2>1 DEF vars, tableVars, locals, childVars, Paid
    <3> QED
      BY <3>1 DEF PaidInv
  <2>2. CASE Next
    BY <2>2, PaidStep DEF IInv
  <2> QED
    BY <2>1, <2>2
<1>3. TypeOK /\ PaidInv => DemotionPaid
  <2> SUFFICES ASSUME TypeOK, PaidInv, NEW e \in Tabled \cup {copy}
      PROVE  /\ e.priority * Slice <= e.allotment
             /\ e.allotment > 0 => \E j \in Jobs : ticks[j] > e.allotment - Slice
    BY DEF DemotionPaid
  <2>1. \A s \in Seq(Paid) : \A k \in DOMAIN s : s[k] \in Paid
    BY ElementOfSeq, LenProperties
  <2>2. e \in Paid \cup {NoProcess}
    BY <2>1 DEF PaidInv, Tabled, Queued, TypeOK
  <2>3. CASE e = NoProcess
    BY <2>3, SchedulerAssumption DEF NoProcess
  <2> QED
    BY <2>2, <2>3 DEF Paid, PaidBy
<1> QED
  BY <1>1, <1>2, <1>3, Invariance, PTL DEF Spec, IInv
=============================================================================
