------------------------- MODULE PQServerStartProofs ------------------------
(***************************************************************************)
(* Who is started, and how that is counted.  The pid field of an entry     *)
(* says whether its job was started, except in the entry of the job that   *)
(* executeJob has just forked; and it is the pid of that job's child.  The *)
(* counters of a status agree with the tables as long as nobody flushes.   *)
(***************************************************************************)
EXTENDS PQServerJobProofs, FiniteSetTheorems

KnownBy(S) == {e \in Process : e.pid = IF e.job \in S THEN e.job ELSE NoPid}
Known      == KnownBy(ToSet(starts))
NewEntries == {e \in Process : e.pid = NoPid}

PidsKnown ==
  /\ running \in Seq(Known)
  /\ \A l \in 0..NumLevels-1 : levels[l] \in Seq(Known)
  /\ IF Thread = "exec_push" THEN waiting = <<>> \/ Tail(waiting) \in Seq(Known)
                             ELSE waiting \in Seq(Known)
  /\ Thread \in Moving => copy \in Known
  /\ Thread = "exec_fork" => copy.pid = NoPid
  /\ Policy # "rdrn" => waiting \in Seq(NewEntries)

(* executeJob: the job in hand is the one at the front of waiting, or ^C   *)
(* has emptied waiting.                                                    *)
FrontInHand ==
  /\ pc = "exec_fork" /\ waiting # <<>> => Head(waiting).job = copy.job
  /\ pc = "exec_push" /\ waiting # <<>> => starts # <<>> /\ Head(waiting).job = Last(starts)

(* What flush_jobs has achieved so far.                                    *)
FlushedEmpty ==
  /\ pc \in {"flush_queue", "flushed"} => running = <<>>
  /\ pc = "flushed" => IF Policy = "mlfq" THEN \A l \in 0..NumLevels-1 : levels[l] = <<>>
                                          ELSE waiting = <<>>
-----------------------------------------------------------------------------
LEMMA SeqInto ==
  ASSUME NEW S, NEW T, NEW s \in Seq(S)
  PROVE  (\A k \in DOMAIN s : s[k] \in T) => s \in Seq(T)
<1> SUFFICES ASSUME \A k \in DOMAIN s : s[k] \in T PROVE s \in Seq(T)
  OBVIOUS
<1>1. Len(s) \in Nat /\ DOMAIN s = 1..Len(s) /\ s \in [1..Len(s) -> S]
  BY LenProperties
<1>2. s \in [1..Len(s) -> T]
  BY <1>1
<1>3. s \in UNION {[1..n -> T] : n \in Nat}
  BY <1>1, <1>2
<1> QED
  BY <1>3, SeqDef

LEMMA ShortenedOf ==
  ASSUME NEW S, NEW s \in Seq(S), NEW t, Shortened(t, s)
  PROVE  t \in Seq(S)
<1>1. \A k \in DOMAIN s : RemoveAt(s, k) \in Seq(S)
  BY RemoveAtFacts
<1>2. s # <<>> => Tail(s) \in Seq(S)
  BY HeadTailOf
<1> QED
  BY <1>1, <1>2 DEF Shortened, Popped

LEMMA NoJobLost ==
  ASSUME NEW S, NEW s \in Seq(KnownBy(S)), NEW j, j \notin JobsIn(s)
  PROVE  s \in Seq(KnownBy(S \cup {j}))
<1>1. \A k \in DOMAIN s : s[k] \in KnownBy(S) /\ s[k].job # j
  BY ElementOfSeq, LenProperties DEF JobsIn
<1>2. \A k \in DOMAIN s : s[k] \in KnownBy(S \cup {j})
  BY <1>1 DEF KnownBy
<1> QED
  BY <1>2, SeqInto

LEMMA KnownChanges ==
  ASSUME NEW S, NEW e \in KnownBy(S)
  PROVE  /\ \A l \in 0..NumLevels-1 : [e EXCEPT !.priority = l] \in KnownBy(S)
         /\ \A t \in 0..MaxTicks : [e EXCEPT !.utime = t] \in KnownBy(S)
         /\ Demoted(e) \in KnownBy(S)
         /\ e.pid # NoPid => e.pid = e.job /\ e.job \in S
         /\ e.pid = NoPid => e.job \notin S
         /\ e.job \in Jobs
<1>0. e \in Process
  BY DEF KnownBy
<1>1. \A l \in 0..NumLevels-1 : [e EXCEPT !.priority = l] \in KnownBy(S)
  BY <1>0, ProcessUpdates DEF KnownBy, Process
<1>2. \A t \in 0..MaxTicks : [e EXCEPT !.utime = t] \in KnownBy(S)
  BY <1>0, ProcessUpdates DEF KnownBy, Process
<1>3. Demoted(e) \in KnownBy(S)
  <2>1. Demoted(e) \in Process
    BY <1>0, DemotedType
  <2>2. Demoted(e).job = e.job /\ Demoted(e).pid = e.pid
    BY <1>0 DEF Demoted, Process
  <2> QED
    BY <2>1, <2>2 DEF KnownBy
<1>4. e.job \in Jobs /\ NoPid \notin Jobs
  BY <1>0, ChildrenAssumption DEF Process
<1> QED
  BY <1>1, <1>2, <1>3, <1>4 DEF KnownBy

LEMMA BoostedKnown ==
  ASSUME NEW S, NEW s \in Seq(KnownBy(S))
  PROVE  Boosted(s) \in Seq(KnownBy(S))
<1>1. \A k \in 1..Len(s) : s[k] \in KnownBy(S) /\ 0 \in 0..NumLevels-1
  BY ElementOfSeq, SchedulerAssumption
<1>2. Boosted(s) \in [1..Len(s) -> KnownBy(S)] /\ Len(s) \in Nat
  BY <1>1, KnownChanges, LenProperties DEF Boosted
<1> QED
  BY <1>2, SeqDef
-----------------------------------------------------------------------------
LEMMA FlushedStep == TypeOK /\ FlushedEmpty /\ [Next]_vars => FlushedEmpty'
<1> SUFFICES ASSUME TypeOK, FlushedEmpty, Next PROVE FlushedEmpty'
  BY DEF FlushedEmpty, vars, tableVars
<1> USE SchedulerAssumption
<1> USE DEF FlushedEmpty, At, tableVars
<1>1. CASE FlushKill \/ FlushPop
  BY <1>1 DEF FlushKill, TerminateProcess, FlushPop
<1>2. CASE FlushQueue
  BY <1>2 DEF FlushQueue, FlushEntry, QueueFlushed, QueueIsLevels
<1>3. CASE FlushReturn
  <2>1. pc' = AfterAccept \/ (interrupted # "none" /\ pc' = interrupted)
    BY <1>3 DEF FlushReturn
  <2>2. pc = "flushed" /\ UNCHANGED tableVars
    BY <1>3 DEF FlushReturn
  <2>3. CASE interrupted = "none"
    BY <1>3, <2>3 DEF FlushReturn, AfterAccept
  <2>4. CASE interrupted # "none"
    BY <2>2
  <2> QED
    BY <2>3, <2>4
<1>4. ASSUME NEW j \in Jobs, SigchldReap(j) PROVE FlushedEmpty'
  <2>1. running = <<>> => running' = <<>>
    BY <1>4 DEF SigchldReap
  <2> QED
    BY <1>4, <2>1 DEF SigchldReap
<1>5. CASE pc' \notin {"flush_queue", "flushed"}
  BY <1>5
<1>6. CASE UNCHANGED <<pc, tableVars>>
  BY <1>6
<1>7. CASE \/ SigchldEnter \/ SigchldReturn \/ SigintEnter \/ Types
           \/ \E j \in Jobs : Ends(j) \/ Computes(j)
  BY <1>5, <1>6, <1>7 DEF SigchldEnter, SigchldReturn, SigintEnter, Types, Ends, Computes
<1>8. CASE Poll \/ PollStdin \/ AddJob \/ FlushRequest \/ StatusCounts \/ StatusLists \/ Query
  BY <1>5, <1>8 DEF Poll, PollStdin, AddJob, FlushRequest, StatusCounts, StatusLists, Query,
     AfterAccept
<1>9. CASE \/ ExecuteJobFork \/ ExecuteJobPush \/ StatRead \/ StatOpen \/ StatScan \/ FifoRunner
           \/ RRobinPause \/ RRobinRequeue \/ RRobinFill \/ RRobinPush
  BY <1>5, <1>9 DEF ExecuteJobFork, ExecuteJobPush, CallersLoop, StatRead, StatOpen, StatScan,
     FifoRunner, ExecuteJob, RRobinPause, PauseProcess, RRobinRequeue, RRobinFill, RRobinPush
<1>10. CASE \/ MlfqFront \/ MlfqPop \/ MlfqRequeue \/ MlfqBoostDue \/ MlfqBoost \/ MlfqAdmit
            \/ MlfqFill \/ MlfqPush
  BY <1>5, <1>10 DEF MlfqFront, MlfqPop, MlfqRequeue, PauseProcess, MlfqBoostDue, MlfqBoost,
     MlfqAdmit, MlfqFill, MlfqDispatch, MlfqPush
<1> QED
  BY <1>1, <1>2, <1>3, <1>4, <1>7, <1>8, <1>9, <1>10
     DEF Next, MainStep, Request, SchedulerStep, Handler
-----------------------------------------------------------------------------
LEMMA LastAppended ==
  ASSUME NEW S, NEW s \in Seq(S), NEW e \in S
  PROVE  Append(s, e) # <<>> /\ Last(Append(s, e)) = e
<1>1. Len(s) \in Nat /\ Len(Append(s, e)) = Len(s) + 1 /\ Append(s, e)[Len(s) + 1] = e
  BY AppendProperties, LenProperties
<1>2. Append(s, e) # <<>>
  BY <1>1, EmptySeq
<1> QED
  BY <1>1, <1>2 DEF Last

LEMMA LastMember ==
  ASSUME NEW S, NEW s \in Seq(S), s # <<>>
  PROVE  Last(s) \in ToSet(s) /\ Last(s) \in S
<1>1. Len(s) \in Nat /\ DOMAIN s = 1..Len(s) /\ Len(s) # 0
  BY LenProperties, EmptySeq
<1>2. Len(s) \in DOMAIN s
  BY <1>1
<1> QED
  BY <1>1, <1>2, ElementOfSeq DEF Last, ToSet

LEMMA FrontStep ==
  TypeOK /\ LocalsOK /\ ThreadOfPolicy /\ FlushedEmpty /\ FrontInHand /\ [Next]_vars => FrontInHand'
<1> SUFFICES ASSUME TypeOK, LocalsOK, ThreadOfPolicy, FlushedEmpty, FrontInHand, Next
    PROVE FrontInHand'
  BY DEF FrontInHand, vars, tableVars, histVars, locals
<1> USE SchedulerAssumption
<1> USE DEF FrontInHand, At
<1>1. CASE pc' \notin {"exec_fork", "exec_push"}
  BY <1>1
<1>2. CASE UNCHANGED <<pc, waiting, copy, starts>>
  BY <1>2
<1>3. ASSUME ExecuteJob PROVE FrontInHand'
  BY <1>3 DEF ExecuteJob, tableVars
<1>4. CASE ExecuteJobFork
  <2>1. CASE pc' = "exec_push"
    <3>1. copy \in Process /\ pc = "exec_fork"
      <4>1. LocalsHere /\ pc = "exec_fork"
        BY <1>4, LocalsAtPc DEF ExecuteJobFork
      <4> QED
        BY <4>1 DEF LocalsHere, CopyHeld
    <3>2. copy.job \in Jobs /\ starts \in Seq(Jobs)
      BY <3>1 DEF Process, TypeOK
    <3>3. Append(starts, copy.job) # <<>> /\ Last(Append(starts, copy.job)) = copy.job
      BY <3>2, LastAppended
    <3> QED
      BY <1>4, <2>1, <3>1, <3>3 DEF ExecuteJobFork, CallersLoop, tableVars
  <2> QED
    BY <1>1, <1>4, <2>1 DEF ExecuteJobFork, CallersLoop
<1>5. CASE FlushReturn
  <2>1. CASE interrupted = "none"
    BY <1>1, <1>5, <2>1 DEF FlushReturn, AfterAccept
  <2>2. CASE interrupted # "none"
    <3>1. pc' = interrupted /\ Thread = interrupted /\ pc = "flushed" /\ waiting' = waiting
      BY <1>5, <2>2 DEF FlushReturn, Thread, tableVars
    <3> QED
      BY <3>1 DEF ThreadOfPolicy, FlushedEmpty
  <2> QED
    BY <2>1, <2>2
<1>6. CASE \/ SigchldEnter \/ SigchldReturn \/ SigintEnter \/ Types
           \/ \E j \in Jobs : SigchldReap(j) \/ Ends(j) \/ Computes(j)
  BY <1>1, <1>2, <1>6 DEF SigchldEnter, SigchldReturn, SigchldReap, SigintEnter, Types, Ends,
     Computes, tableVars, histVars, locals
<1>7. CASE Poll \/ PollStdin \/ AddJob \/ FlushRequest \/ StatusCounts \/ StatusLists \/ Query
  BY <1>1, <1>7 DEF Poll, PollStdin, AddJob, FlushRequest, StatusCounts, StatusLists, Query,
     AfterAccept
<1>8. CASE \/ ExecuteJobPush \/ StatRead \/ StatOpen \/ StatScan \/ FifoRunner
           \/ RRobinPause \/ RRobinRequeue \/ RRobinFill \/ RRobinPush
  BY <1>1, <1>3, <1>8 DEF ExecuteJobPush, CallersLoop, StatRead, StatOpen, StatScan,
     FifoRunner, RRobinPause, PauseProcess, RRobinRequeue, RRobinFill, RRobinPush
<1>9. CASE \/ MlfqFront \/ MlfqPop \/ MlfqRequeue \/ MlfqBoostDue \/ MlfqBoost \/ MlfqAdmit
           \/ MlfqFill \/ MlfqPush
  BY <1>1, <1>9 DEF MlfqFront, MlfqPop, MlfqRequeue, PauseProcess, MlfqBoostDue, MlfqBoost,
     MlfqAdmit, MlfqFill, MlfqDispatch, MlfqPush
<1>10. CASE FlushKill \/ FlushPop \/ FlushQueue
  BY <1>1, <1>10 DEF FlushKill, TerminateProcess, FlushPop, FlushQueue, FlushEntry, QueueFlushed
<1> QED
  BY <1>4, <1>5, <1>6, <1>7, <1>8, <1>9, <1>10
     DEF Next, MainStep, Request, SchedulerStep, Handler

(* The steps of a handler.                                                 *)
LEMMA PidsInterrupted ==
  ASSUME TypeOK, PidsKnown, UNCHANGED <<Thread, copy, arrivals, starts>>, Shrinking
  PROVE  PidsKnown'
<1>1. Known' = Known
  BY DEF Known, KnownBy, ToSet
<1>2. running' \in Seq(Known) /\ \A l \in 0..NumLevels-1 : levels'[l] \in Seq(Known)
  <2>1. running' \in Seq(Known)
    BY ShortenedOf DEF PidsKnown, Shrinking
  <2>2. ASSUME NEW l \in 0..NumLevels-1 PROVE levels'[l] \in Seq(Known)
    BY ShortenedOf DEF PidsKnown, Shrinking, Shortened
  <2> QED
    BY <2>1, <2>2
<1>3. waiting \in Seq(Known) => waiting' \in Seq(Known)
  BY ShortenedOf DEF Shrinking, Shortened
<1>4. waiting \in Seq(NewEntries) => waiting' \in Seq(NewEntries)
  BY ShortenedOf DEF Shrinking, Shortened
<1>5. ASSUME waiting = <<>> \/ Tail(waiting) \in Seq(Known)
      PROVE  waiting' = <<>> \/ Tail(waiting') \in Seq(Known)
  <2>1. CASE waiting' = waiting
    BY <1>5, <2>1
  <2>2. CASE waiting # <<>> /\ waiting' = Tail(waiting)
    <3>1. waiting' = <<>> \/ Tail(waiting') \in Seq(Known)
      BY <1>5, <2>2, HeadTailOf
    <3> QED
      BY <3>1
  <2> QED
    BY <2>1, <2>2 DEF Shrinking, Popped
<1>6. NewEntries' = NewEntries /\ (Thread' = Thread) /\ copy' = copy
  BY DEF NewEntries
<1> QED
  BY <1>1, <1>2, <1>3, <1>4, <1>5, <1>6 DEF PidsKnown

(* The steps of the thread.                                                *)
LEMMA PidsThreadStep ==
  ASSUME TypeOK, LocalsOK, EntriesInv, EntriesInv', ThreadOfPolicy, FrontInHand, PidsKnown,
         interrupted = "none", interrupted' = "none",
         Poll \/ PollStdin \/ Request \/ SchedulerStep
  PROVE  PidsKnown'
<1> USE SchedulerAssumption
<1> USE DEF tableVars, histVars, locals, At
<1>p. Thread = pc /\ Thread' = pc' /\ LocalsHere
  BY LocalsAtPc DEF Thread
<1>e. Known = KnownBy(ToSet(starts)) /\ Known' = KnownBy(ToSet(starts')) /\ NewEntries' = NewEntries
  BY DEF Known, KnownBy, NewEntries
<1>q. /\ running \in Seq(Known) /\ \A l \in 0..NumLevels-1 : levels[l] \in Seq(Known)
      /\ pc # "exec_push" => waiting \in Seq(Known)
      /\ pc \in Moving => copy \in Known
      /\ Policy # "rdrn" => waiting \in Seq(NewEntries)
  BY <1>p DEF PidsKnown
<1>v. levels \in [0..NumLevels-1 -> Seq(Process)]
  BY DEF TypeOK
<1>n. <<>> \in Seq(Known) /\ <<>> \in Seq(NewEntries)
  OBVIOUS
(* No job is started, and none is held in the next state, or a known entry.*)
<1>1. ASSUME UNCHANGED starts, pc # "exec_push", pc' # "exec_push",
             running' \in Seq(Known), \A l \in 0..NumLevels-1 : levels'[l] \in Seq(Known),
             waiting' \in Seq(Known), Policy # "rdrn" => waiting' \in Seq(NewEntries),
             pc' \in Moving => copy' \in Known, pc' = "exec_fork" => copy'.pid = NoPid
      PROVE  PidsKnown'
  <2>1. Known' = Known
    BY <1>e, <1>1
  <2> QED
    BY <1>p, <1>e, <1>1, <2>1 DEF PidsKnown
<1>2. ASSUME UNCHANGED <<tableVars, starts>>, pc # "exec_push", pc' \notin Moving \cup {"exec_push"}
      PROVE  PidsKnown'
  BY <1>1, <1>2, <1>q DEF Moving
<1>3. ASSUME waiting # <<>>, pc # "exec_push", ExecuteJob,
             Policy # "rdrn" \/ Head(waiting).pid = NoPid
      PROVE  PidsKnown'
  <2>1. Head(waiting) \in Known
    BY <1>q, <1>3, HeadTailOf
  <2>2. Head(waiting).pid = NoPid
    <3>1. CASE Policy # "rdrn"
      <4>1. Head(waiting) \in NewEntries
        BY <1>q, <1>3, <3>1, HeadTailOf
      <4> QED
        BY <4>1 DEF NewEntries
    <3> QED
      BY <1>3, <3>1
  <2> QED
    BY <1>1, <1>3, <1>q, <2>1, <2>2 DEF ExecuteJob
<1>4. CASE ExecuteJobFork
  <2>1. pc = "exec_fork" /\ copy \in Known /\ copy.pid = NoPid
    BY <1>p, <1>4 DEF ExecuteJobFork, PidsKnown, Moving
  <2>2. CASE UNCHANGED starts
    BY <1>2, <1>4, <2>1, <2>2 DEF ExecuteJobFork, CallersLoop, Moving
  <2>3. CASE starts' = Append(starts, copy.job) /\ pc' = "exec_push"
    <3> DEFINE j == copy.job
    <3>1. j \in Jobs /\ starts \in Seq(Jobs)
      BY <2>1, KnownChanges DEF Known, TypeOK
    <3>2. ToSet(starts') = ToSet(starts) \cup {j}
      BY <2>3, <3>1, ToSetAppend
    <3>3. Known' = KnownBy(ToSet(starts) \cup {j})
      BY <1>e, <3>2
    <3>4. j \notin JobsBehind(waiting) \cup JobsIn(running) \cup JobsInLevels
      BY <1>p, <2>1 DEF EntriesInv, CopyApart
    <3> HIDE DEF j
    <3>5. running \in Seq(Known')
      BY <1>e, <1>q, <3>3, <3>4, NoJobLost
    <3>6. ASSUME NEW l \in 0..NumLevels-1 PROVE levels[l] \in Seq(Known')
      <4>1. j \notin JobsIn(levels[l])
        BY <3>4 DEF JobsInLevels
      <4> QED
        BY <1>e, <1>q, <3>3, <4>1, NoJobLost
    <3>7. waiting = <<>> \/ Tail(waiting) \in Seq(Known')
      <4>1. CASE waiting # <<>>
        <5>1. waiting \in Seq(Known) /\ waiting \in Seq(Process)
          BY <1>q, <2>1 DEF TypeOK
        <5>2. Tail(waiting) \in Seq(Known) /\ j \notin JobsIn(Tail(waiting))
          BY <3>4, <4>1, <5>1, HeadTailOf, TailJobs
        <5> QED
          BY <1>e, <3>3, <5>2, NoJobLost
      <4> QED
        BY <4>1
    <3> QED
      BY <1>p, <1>q, <1>e, <1>4, <2>3, <3>5, <3>6, <3>7 DEF PidsKnown, ExecuteJobFork, Moving
  <2> QED
    BY <1>4, <2>2, <2>3 DEF ExecuteJobFork
<1>5. CASE ExecuteJobPush
  <2>1. Known' = Known /\ pc' # "exec_push" /\ pc' \notin Moving /\ pc = "exec_push"
    BY <1>e, <1>5 DEF ExecuteJobPush, CallersLoop, Moving
  <2>2. CASE waiting = <<>>
    BY <1>p, <1>q, <1>e, <1>5, <1>n, <2>1, <2>2 DEF PidsKnown, ExecuteJobPush
  <2>3. CASE waiting # <<>>
    <3> DEFINE e == [Head(waiting) EXCEPT !.pid = Head(waiting).job]
    <3>1. Head(waiting) \in Process /\ Head(waiting).job \in ToSet(starts)
      BY <2>1, <2>3, HeadTailOf, LastMember DEF FrontInHand, TypeOK
    <3>2. Head(waiting).job \in Jobs
      BY <3>1 DEF Process
    <3>3. e \in Process /\ e.pid = Head(waiting).job /\ e.job = Head(waiting).job
      BY <3>1, <3>2, ProcessUpdates DEF Process
    <3>4. e \in Known
      BY <3>1, <3>3 DEF Known, KnownBy
    <3>5. Tail(waiting) \in Seq(Known) /\ (Policy # "rdrn" => Tail(waiting) \in Seq(NewEntries))
      BY <1>p, <1>q, <2>1, <2>3, HeadTailOf DEF PidsKnown
    <3>6. waiting' = Tail(waiting) /\ running' = Append(running, e) /\ UNCHANGED levels
      BY <1>5, <2>3 DEF ExecuteJobPush, FrontToRunning
    <3> HIDE DEF e
    <3>7. running' \in Seq(Known)
      BY <1>q, <3>4, <3>6, AppendOf
    <3> QED
      BY <1>p, <1>q, <1>e, <2>1, <3>5, <3>6, <3>7 DEF PidsKnown, Moving
  <2> QED
    BY <2>2, <2>3
<1>6. CASE RRobinPush
  <2>1. waiting # <<>> => Head(waiting) \in Known /\ Tail(waiting) \in Seq(Known)
                          /\ (Policy # "rdrn" => Tail(waiting) \in Seq(NewEntries))
    BY <1>q, <1>6, HeadTailOf DEF RRobinPush
  <2>2. waiting # <<>> => Append(running, Head(waiting)) \in Seq(Known)
    BY <1>q, <2>1, AppendOf
  <2> QED
    BY <1>1, <1>q, <1>6, <2>1, <2>2 DEF RRobinPush, FrontToRunning, Moving
<1>7. CASE StatScan
  <2>1. CASE UNCHANGED running
    BY <1>2, <1>7, <2>1 DEF StatScan, Moving
  <2>2. CASE idx <= Len(running) /\ running' = [running EXCEPT ![idx].utime = ticks[copy.pid]]
    <3>1. pc = "stat_scan" /\ idx >= 1 /\ copy.pid \in Jobs
      BY <1>p, <1>7 DEF StatScan, LocalsHere
    <3>2. idx \in 1..Len(running) /\ ticks[copy.pid] \in 0..MaxTicks
      BY <2>2, <3>1, LenProperties DEF TypeOK, ChildrenTypeOK
    <3>3. /\ Len(running) \in Nat /\ DOMAIN running = 1..Len(running)
          /\ running \in [1..Len(running) -> Known]
      BY <1>q, LenProperties
    <3>4. [running[idx] EXCEPT !.utime = ticks[copy.pid]] \in Known
      BY <3>2, <3>3, KnownChanges DEF Known
    <3>5. running' \in [1..Len(running) -> Known]
      BY <2>2, <3>2, <3>3, <3>4
    <3>6. running' \in Seq(Known)
      BY <3>3, <3>5, SeqDef
    <3> QED
      BY <1>1, <1>q, <1>7, <3>1, <3>6 DEF StatScan, Moving
  <2> QED
    BY <1>7, <2>1, <2>2 DEF StatScan
<1>8. CASE RRobinRequeue
  <2>1. copy \in Known /\ Policy = "rdrn" /\ waiting \in Seq(Known)
    BY <1>p, <1>q, <1>8 DEF RRobinRequeue, Moving, ThreadOfPolicy
  <2>2. waiting' \in Seq(Known)
    BY <1>8, <2>1, AppendOf DEF RRobinRequeue, Requeued
  <2>3. running' \in Seq(Known)
    BY <1>8, <1>q, HeadTailOf DEF RRobinRequeue
  <2> QED
    BY <1>1, <1>q, <1>8, <2>1, <2>2, <2>3 DEF RRobinRequeue, Moving
<1>9. CASE RRobinPause \/ MlfqFront
  <2>1. running # <<>> => Head(running) \in Known
    BY <1>q, HeadTailOf
  <2>2. pc' \in Moving => copy' \in Known
    BY <1>9, <2>1 DEF RRobinPause, PauseProcess, MlfqFront, Moving
  <2>3. UNCHANGED <<tableVars, starts>> /\ pc \notin {"exec_fork", "exec_push"}
        /\ pc' \notin {"exec_fork", "exec_push"}
    BY <1>9 DEF RRobinPause, PauseProcess, MlfqFront
  <2> QED
    BY <1>1, <1>q, <2>2, <2>3
<1>10. CASE MlfqPop
  <2>1. CASE running # <<>>
    <3>1. copy \in Known /\ Demoted(copy) \in Known /\ Tail(running) \in Seq(Known)
      BY <1>q, <1>10, <2>1, HeadTailOf, KnownChanges DEF MlfqPop, Moving, Known
    <3>2. /\ pc = "mlfq_pop" /\ pc' = "mlfq_requeue" /\ running' = Tail(running)
          /\ copy' = Demoted(copy) /\ UNCHANGED <<waiting, levels, starts>>
      BY <1>10, <2>1 DEF MlfqPop
    <3> QED
      BY <1>1, <1>q, <3>1, <3>2
  <2>2. CASE running = <<>>
    <3>1. /\ pc = "mlfq_pop" /\ pc' = "undefined" /\ UNCHANGED <<waiting, levels, running, starts>>
      BY <1>10, <2>2 DEF MlfqPop
    <3> QED
      BY <1>2, <3>1 DEF Moving
  <2> QED
    BY <2>1, <2>2
<1>11. CASE MlfqRequeue
  <2>1. copy \in Known /\ copy.priority \in 0..NumLevels-1
    BY <1>q, <1>11 DEF MlfqRequeue, Moving, Known, KnownBy, Process
  <2>2. \A l \in 0..NumLevels-1 : levels'[l] \in {levels[l], Append(levels[l], copy)}
    <3>1. \/ levels' = levels
          \/ levels' = [levels EXCEPT ![copy.priority] = Append(@, copy)]
      BY <1>11 DEF MlfqRequeue
    <3> QED
      BY <1>v, <2>1, <3>1
  <2>3. ASSUME NEW l \in 0..NumLevels-1 PROVE levels'[l] \in Seq(Known)
    <3>1. levels[l] \in Seq(Known) /\ Append(levels[l], copy) \in Seq(Known)
      BY <1>q, <2>1, AppendOf
    <3> QED
      BY <2>2, <3>1
  <2>4. /\ pc = "mlfq_requeue" /\ pc' \in {"mlfq_boost", "group_stopped"}
        /\ UNCHANGED <<waiting, running, starts>>
    BY <1>11 DEF MlfqRequeue, PauseProcess
  <2> QED
    BY <1>1, <1>q, <2>3, <2>4 DEF Moving
<1>12. CASE MlfqBoost
  <2>1. CASE idx < NumLevels
    <3>1. idx \in 0..NumLevels-1 /\ idx # 0 /\ 0 \in 0..NumLevels-1
      BY <1>p, <1>12, <2>1 DEF MlfqBoost, LocalsHere, TypeOK
    <3>2. Boosted(levels[idx]) \in Seq(Known)
      BY <1>q, <3>1, BoostedKnown DEF Known
    <3>3. levels[0] \o Boosted(levels[idx]) \in Seq(Known)
      BY <1>q, <3>1, <3>2, ConcatOf
    <3>4. \A l \in 0..NumLevels-1 :
            levels'[l] \in {levels[l], <<>>, levels[0] \o Boosted(levels[idx])}
      BY <1>v, <1>12, <2>1, <3>1 DEF MlfqBoost
    <3> QED
      BY <1>1, <1>12, <1>q, <1>n, <2>1, <3>3, <3>4 DEF MlfqBoost, Moving
  <2> QED
    BY <1>2, <1>12, <2>1 DEF MlfqBoost, Moving
<1>13. CASE MlfqAdmit
  <2>1. 0 \in 0..NumLevels-1 /\ waiting \in Seq(Known)
    BY <1>q, <1>13 DEF MlfqAdmit
  <2>2. levels[0] \o waiting \in Seq(Known)
    BY <1>q, <2>1, ConcatOf
  <2>3. \A l \in 0..NumLevels-1 : levels'[l] \in {levels[l], levels[0] \o waiting}
    BY <1>v, <1>13, <2>1 DEF MlfqAdmit, AdmitWaiting
  <2> QED
    BY <1>1, <1>13, <1>q, <1>n, <2>2, <2>3 DEF MlfqAdmit, AdmitWaiting, Moving
<1>14. CASE MlfqFill /\ idx < NumLevels /\ levels[idx] # <<>> /\ MlfqDispatch
  <2> DEFINE q == Head(levels[idx])
  <2>1. idx \in 0..NumLevels-1 /\ pc = "mlfq_fill"
    BY <1>p, <1>14 DEF MlfqFill, LocalsHere, TypeOK
  <2>2. q \in Known /\ Tail(levels[idx]) \in Seq(Known) /\ waiting \in Seq(Known)
    BY <1>14, <1>q, <2>1, HeadTailOf
  <2>3. \A l \in 0..NumLevels-1 : levels'[l] \in {levels[l], Tail(levels[idx])}
    BY <1>v, <1>14, <2>1 DEF MlfqDispatch
  <2>4. /\ running \in Seq(Known) /\ \A l \in 0..NumLevels-1 : levels'[l] \in Seq(Known)
        /\ UNCHANGED <<waiting, running>> /\ pc' = "mlfq_push"
    BY <1>14, <1>q, <2>2, <2>3 DEF MlfqDispatch
  <2>5. CASE UNCHANGED starts /\ copy' = q
    BY <1>1, <1>q, <2>1, <2>2, <2>4, <2>5
  <2>6. CASE q.pid = NoPid /\ starts' = Append(starts, q.job) /\ copy' = [q EXCEPT !.pid = q.job]
    <3> DEFINE j == q.job
    <3>1. q \in Process /\ j \in Jobs /\ starts \in Seq(Jobs)
      BY <2>2 DEF TypeOK, Known, KnownBy, Process
    <3>2. copy' \in Process /\ copy'.job = j /\ copy'.pid = j
      BY <2>6, <3>1, ProcessUpdates DEF Process
    <3>3. ToSet(starts') = ToSet(starts) \cup {j}
      BY <2>6, <3>1, ToSetAppend
    <3>4. Known' = KnownBy(ToSet(starts) \cup {j}) /\ Known = KnownBy(ToSet(starts))
      BY <1>e, <3>3
    <3>5. copy' \in Known'
      BY <3>2, <3>4 DEF KnownBy
    <3>6. (copy.job \notin TabledJobs)'
      BY <1>p, <2>4 DEF EntriesInv, CopyApart
    <3> HIDE DEF j
    <3>7. /\ j \notin JobsIn(running) /\ j \notin JobsIn(waiting)
          /\ \A l \in 0..NumLevels-1 : j \notin JobsIn(levels'[l])
      BY <2>4, <3>2, <3>6 DEF TabledJobs, JobsInLevels
    <3>8. running \in Seq(Known') /\ waiting \in Seq(Known')
      BY <2>2, <2>4, <3>4, <3>7, NoJobLost
    <3>9. \A l \in 0..NumLevels-1 : levels'[l] \in Seq(Known')
      BY <2>4, <3>4, <3>7, NoJobLost
    <3> QED
      BY <1>p, <1>q, <1>e, <2>4, <3>5, <3>8, <3>9 DEF PidsKnown
  <2> QED
    BY <1>14, <2>5, <2>6 DEF MlfqDispatch
<1>15. CASE MlfqFill /\ ~(idx < NumLevels /\ levels[idx] # <<>> /\ MlfqDispatch)
  BY <1>2, <1>15 DEF MlfqFill, Moving
<1>16. CASE MlfqPush
  <2>1. copy \in Known
    BY <1>q, <1>16 DEF MlfqPush, Moving
  <2>2. running' \in Seq(Known)
    BY <1>q, <1>16, <2>1, AppendOf DEF MlfqPush
  <2> QED
    BY <1>1, <1>16, <1>q, <2>2 DEF MlfqPush, Moving
<1>17. CASE FlushKill \/ FlushPop \/ FlushQueue
  <2>1. /\ pc' \notin Moving \cup {"exec_push"} /\ pc # "exec_push" /\ pc \notin Moving
        /\ UNCHANGED <<copy, arrivals, starts>> /\ Shrinking
    BY <1>17, FlushShrinks DEF FlushKill, TerminateProcess, FlushPop, FlushQueue, FlushEntry,
       QueueFlushed, Moving
  <2>2. running' \in Seq(Known)
    BY <1>q, <2>1, ShortenedOf DEF Shrinking
  <2>3. \A l \in 0..NumLevels-1 : levels'[l] \in Seq(Known)
    BY <1>q, <2>1, ShortenedOf DEF Shrinking, Shortened
  <2>4. waiting' \in Seq(Known) /\ (Policy # "rdrn" => waiting' \in Seq(NewEntries))
    BY <1>q, <2>1, ShortenedOf DEF Shrinking, Shortened
  <2> QED
    BY <1>1, <2>1, <2>2, <2>3, <2>4 DEF Moving
<1>18. CASE AddJob
  <2>1. PICK j \in Jobs \ ToSet(arrivals) : waiting' = <<NewProcess(j)>> \o waiting
    BY <1>18 DEF AddJob
  <2>2. /\ NewProcess(j) \in Process /\ NewProcess(j).job = j /\ NewProcess(j).pid = NoPid
    BY ChildrenAssumption DEF NewProcess, NoProcess, Process
  <2>3. j \notin ToSet(starts)
    BY <2>1 DEF EntriesInv, KnownJobs
  <2>4. NewProcess(j) \in Known /\ NewProcess(j) \in NewEntries
    BY <2>2, <2>3 DEF Known, KnownBy, NewEntries
  <2>5. pc = "accept" /\ pc' \notin Moving \cup {"exec_push"} /\ UNCHANGED <<levels, running, starts>>
    BY <1>18 DEF AddJob, AfterAccept, Moving
  <2>6. waiting' \in Seq(Known) /\ (Policy # "rdrn" => waiting' \in Seq(NewEntries))
    BY <1>q, <2>1, <2>4, <2>5, FrontOf
  <2> QED
    BY <1>1, <1>q, <2>5, <2>6 DEF Moving
<1>19. CASE StatRead \/ StatOpen \/ MlfqBoostDue
  BY <1>2, <1>19 DEF StatRead, StatOpen, MlfqBoostDue, Moving
<1>20. CASE FifoRunner
  <2>1. pc = "fifo" /\ Policy # "rdrn"
    BY <1>p, <1>20 DEF FifoRunner, ThreadOfPolicy
  <2> QED
    BY <1>2, <1>3, <1>20, <2>1 DEF FifoRunner, Moving
<1>21. CASE RRobinFill
  BY <1>2, <1>3, <1>21 DEF RRobinFill, Moving
<1>22. CASE Poll \/ PollStdin \/ FlushRequest \/ FlushReturn \/ StatusCounts \/ StatusLists \/ Query
  BY <1>2, <1>22 DEF Poll, PollStdin, FlushRequest, FlushReturn, StatusCounts, StatusLists, Query,
     AfterAccept, Moving
<1> QED
  BY <1>4, <1>5, <1>6, <1>7, <1>8, <1>9, <1>10, <1>11, <1>12, <1>13, <1>14, <1>15, <1>16, <1>17,
     <1>18, <1>19, <1>20, <1>21, <1>22 DEF Request, SchedulerStep
-----------------------------------------------------------------------------
(* fork() is called for a job of which no entry, and so no pid, is known.  *)
LEMMA NoSecondFork ==
  ASSUME NEW S, NEW s \in Seq(S), NEW e \in S, e \notin ToSet(s),
         \A a, b \in DOMAIN s : s[a] = s[b] => a = b
  PROVE  \A a, b \in DOMAIN Append(s, e) : Append(s, e)[a] = Append(s, e)[b] => a = b
<1>1. /\ Append(s, e) \in Seq(S) /\ Len(s) \in Nat /\ Len(Append(s, e)) = Len(s) + 1
      /\ \A k \in 1..Len(s) : Append(s, e)[k] = s[k]
      /\ Append(s, e)[Len(s) + 1] = e
  BY AppendProperties, LenProperties
<1>2. DOMAIN s = 1..Len(s) /\ DOMAIN Append(s, e) = DOMAIN s \cup {Len(s) + 1}
  BY <1>1, LenProperties
<1> QED
  BY <1>1, <1>2 DEF ToSet

LEMMA StartedStep ==
  ASSUME TypeOK, LocalsOK, EntriesInv, PidsKnown, StartedOnce, [Next]_vars
  PROVE  StartedOnce'
<1> USE SchedulerAssumption
<1>1. CASE UNCHANGED starts
  BY <1>1 DEF StartedOnce
<1>2. ASSUME NEW e \in Known, e.pid = NoPid, starts' = Append(starts, e.job) PROVE StartedOnce'
  <2>1. e.job \in Jobs /\ e.job \notin ToSet(starts) /\ starts \in Seq(Jobs)
    BY <1>2, KnownChanges DEF Known, TypeOK
  <2> QED
    BY <1>2, <2>1, NoSecondFork DEF StartedOnce
<1>3. CASE interrupted = "none" /\ SchedulerStep
  <2>0. Thread = pc /\ LocalsHere
    BY <1>3, LocalsAtPc DEF Thread
  <2>1. CASE ExecuteJobFork
    <3>1. copy \in Known /\ copy.pid = NoPid
      BY <2>0, <2>1 DEF ExecuteJobFork, At, PidsKnown, Moving
    <3> QED
      BY <1>1, <1>2, <2>1, <3>1 DEF ExecuteJobFork
  <2>2. CASE MlfqFill
    <3>1. idx < NumLevels => idx \in 0..NumLevels-1
      BY <2>0, <2>2 DEF MlfqFill, At, LocalsHere, TypeOK
    <3>2. idx < NumLevels /\ levels[idx] # <<>> => Head(levels[idx]) \in Known
      BY <3>1, HeadTailOf DEF PidsKnown
    <3> QED
      BY <1>1, <1>2, <2>2, <3>2 DEF MlfqFill, MlfqDispatch, histVars
  <2>3. CASE ~ExecuteJobFork /\ ~MlfqFill
    BY <1>1, <1>3, <2>3 DEF SchedulerStep, ExecuteJobPush, StatRead, StatOpen, StatScan, FifoRunner,
       ExecuteJob, RRobinPause, RRobinRequeue, RRobinFill, RRobinPush, MlfqFront, MlfqPop,
       MlfqRequeue, MlfqBoostDue, MlfqBoost, MlfqAdmit, MlfqPush, FlushKill, FlushPop, FlushQueue,
       histVars
  <2> QED
    BY <2>1, <2>2, <2>3
<1>4. CASE Poll \/ PollStdin \/ Request
  BY <1>1, <1>4 DEF Poll, PollStdin, Request, AddJob, FlushRequest, FlushReturn, StatusCounts,
     StatusLists, Query, histVars
<1>5. CASE UNCHANGED vars
  BY <1>1, <1>5 DEF vars, histVars
<1> QED
  BY <1>1, <1>3, <1>4, <1>5, Interruption
-----------------------------------------------------------------------------
StartInv == ThreadOfPolicy /\ FlushedEmpty /\ FrontInHand /\ PidsKnown /\ StartedOnce

LEMMA InitStart == Init => StartInv
<1> SUFFICES ASSUME Init PROVE StartInv
  OBVIOUS
<1>1. <<>> \in Seq(Known) /\ <<>> \in Seq(NewEntries) /\ DOMAIN <<>> = {}
  OBVIOUS
<1>2. \A l \in 0..NumLevels-1 : levels[l] = <<>>
  BY DEF Init
<1>3. Thread = "poll" /\ pc = "poll"
  BY DEF Init, Thread
<1>4. ThreadOfPolicy /\ FlushedEmpty /\ FrontInHand
  BY <1>3 DEF ThreadOfPolicy, FlushedEmpty, FrontInHand, MlfqSteps
<1>5. PidsKnown
  BY <1>1, <1>2, <1>3 DEF PidsKnown, Init, Moving
<1>6. StartedOnce
  BY <1>1 DEF StartedOnce, Init
<1> QED
  BY <1>4, <1>5, <1>6 DEF StartInv

LEMMA StartStep == IInv /\ EntriesInv /\ EntriesInv' /\ StartInv /\ [Next]_vars => StartInv'
<1> SUFFICES ASSUME TypeOK, LocalsOK, EntriesInv, EntriesInv', StartInv, [Next]_vars
    PROVE StartInv'
  BY DEF IInv
<1>1. ThreadOfPolicy' /\ FlushedEmpty' /\ FrontInHand'
  BY PolicyStep, FlushedStep, FrontStep DEF StartInv
<1>2. StartedOnce'
  BY StartedStep DEF StartInv
<1>3. CASE UNCHANGED vars
  <2>1. UNCHANGED <<Thread, copy, arrivals, starts, tableVars>>
    BY <1>3 DEF vars, histVars, locals, loopVars, Thread
  <2> QED
    BY <1>1, <1>2, <2>1, UnchangedShrinks, PidsInterrupted DEF StartInv
<1>4. CASE Next
  <2>1. PidsKnown'
    BY <1>4, Interruption, PidsInterrupted, PidsThreadStep DEF StartInv
  <2> QED
    BY <1>1, <1>2, <2>1 DEF StartInv
<1> QED
  BY <1>3, <1>4

LEMMA StartAlways == Spec => [](IInv /\ EntriesInv /\ StartInv)
<1>1. Init => StartInv
  BY InitStart
<1>2. IInv /\ EntriesInv /\ EntriesInv' /\ StartInv /\ [Next]_vars => StartInv'
  BY StartStep
<1> QED
  BY <1>1, <1>2, EntriesAlways, PTL DEF Spec

(* No job is forked twice, although a failed fork() is tried again and the *)
(* pid is written only after the fork, in another entry than the copy that *)
(* was tested (scheduler.cpp:119-149,181-199).                             *)
THEOREM NoJobTwice == Spec => []StartedOnce
BY StartAlways, PTL DEF StartInv
-----------------------------------------------------------------------------
(* Until ^C, the thread finds at the front of waiting the entry it expects *)
(* there, a new one in executeJob and a preempted one in rRobin_runner; and*)
(* only a client's flush empties the tables.                               *)
HandNotEmpty == BeforeSigint =>
  /\ pc \in {"exec_fork", "exec_push"} => waiting # <<>> /\ Head(waiting).pid = NoPid
  /\ pc = "rrobin_push" => waiting # <<>> /\ Head(waiting).pid # NoPid
  /\ pc = "rrobin_requeue" => copy.pid # NoPid
  /\ pc \in Flushing => "flush" \in Requests

LEMMA NoSigintYet == TypeOK /\ Next /\ BeforeSigint' => BeforeSigint
<1> SUFFICES ASSUME TypeOK, Next, BeforeSigint' PROVE BeforeSigint
  OBVIOUS
<1>1. CASE MainStep
  <2>1. UNCHANGED <<run_flag, interrupted>> \/ (interrupted # "none" /\ run_flag' = FALSE)
    BY <1>1 DEF MainStep, Poll, PollStdin, Request, AddJob, FlushRequest, FlushReturn, ClearRunFlag,
       StatusCounts, StatusLists, Query, SchedulerStep, loopVars
  <2> QED
    BY <2>1 DEF BeforeSigint
<1>2. CASE SigintEnter
  <2>1. interrupted' = pc /\ pc # "none"
    BY <1>2 DEF SigintEnter, TypeOK, Locations, Halted
  <2> QED
    BY <2>1 DEF BeforeSigint
<1>3. CASE Handler \/ Types \/ \E j \in Jobs : Ends(j) \/ Computes(j)
  BY <1>3 DEF Handler, SigchldEnter, SigchldReturn, SigchldReap, Types, Ends, Computes, loopVars,
     BeforeSigint
<1> QED
  BY <1>1, <1>2, <1>3 DEF Next

LEMMA HandStep == IInv /\ StartInv /\ HandNotEmpty /\ [Next]_vars => HandNotEmpty'
<1> SUFFICES ASSUME TypeOK, LocalsOK, StartInv, HandNotEmpty, Next, BeforeSigint, BeforeSigint'
    PROVE HandNotEmpty'
  BY NoSigintYet DEF IInv, HandNotEmpty, BeforeSigint, vars, loopVars, tableVars, locals
<1> USE SchedulerAssumption
<1> USE DEF HandNotEmpty, At, tableVars, locals
<1>0. interrupted = "none" /\ interrupted' = "none" /\ Thread = pc
  BY DEF BeforeSigint, Thread
<1>1. CASE pc' \notin {"exec_fork", "exec_push", "rrobin_push", "rrobin_requeue"} \cup Flushing
  BY <1>1
<1>2. CASE UNCHANGED <<pc, waiting, copy>>
  BY <1>2
<1>3. ASSUME waiting # <<>>, ExecuteJob, Policy = "fifo" \/ Head(waiting).pid = NoPid
      PROVE  HandNotEmpty'
  <2>1. Policy = "fifo" => Head(waiting) \in NewEntries
    BY <1>3, HeadTailOf DEF StartInv, PidsKnown
  <2> QED
    BY <1>3, <2>1 DEF ExecuteJob, NewEntries, Flushing
<1>4. CASE FifoRunner
  <2>1. Policy = "fifo"
    BY <1>0, <1>4 DEF FifoRunner, StartInv, ThreadOfPolicy
  <2> QED
    BY <1>1, <1>3, <1>4, <2>1 DEF FifoRunner, Flushing
<1>5. CASE RRobinFill
  BY <1>1, <1>3, <1>5 DEF RRobinFill, Flushing
<1>6. CASE ExecuteJobFork
  BY <1>6 DEF ExecuteJobFork, CallersLoop, Flushing
<1>7. CASE FlushRequest
  BY <1>7 DEF FlushRequest, Flushing
<1>8. CASE FlushKill \/ FlushPop \/ FlushQueue
  BY <1>8 DEF FlushKill, TerminateProcess, FlushPop, FlushQueue, FlushEntry, QueueFlushed, Flushing
<1>9. CASE FlushReturn
  BY <1>0, <1>1, <1>9 DEF FlushReturn, AfterAccept, Flushing
<1>10. CASE Poll \/ PollStdin \/ AddJob \/ StatusCounts \/ StatusLists \/ Query
  BY <1>1, <1>10 DEF Poll, PollStdin, AddJob, StatusCounts, StatusLists, Query, AfterAccept, Flushing
<1>11. CASE \/ ExecuteJobPush \/ StatRead \/ StatOpen \/ StatScan \/ RRobinPause \/ RRobinRequeue
            \/ RRobinPush
  BY <1>1, <1>11 DEF ExecuteJobPush, CallersLoop, StatRead, StatOpen, StatScan, RRobinPause,
     PauseProcess, RRobinRequeue, RRobinPush, Flushing
<1>12. CASE \/ MlfqFront \/ MlfqPop \/ MlfqRequeue \/ MlfqBoostDue \/ MlfqBoost \/ MlfqAdmit
            \/ MlfqFill \/ MlfqPush
  <2>1. pc' \notin {"exec_fork", "exec_push", "rrobin_push", "rrobin_requeue"} \cup Flushing
    BY <1>12 DEF MlfqFront, MlfqPop, MlfqRequeue, PauseProcess, MlfqBoostDue, MlfqBoost, MlfqAdmit,
       MlfqFill, MlfqDispatch, MlfqPush, Flushing
  <2> QED
    BY <1>1, <2>1
<1>13. CASE Handler \/ Types \/ \E j \in Jobs : Ends(j) \/ Computes(j)
  BY <1>2, <1>13 DEF Handler, SigchldEnter, SigchldReturn, SigchldReap, Types, Ends, Computes
<1>14. CASE SigintEnter
  BY <1>0, <1>14 DEF SigintEnter, TypeOK, Locations, Halted
<1> QED
  BY <1>4, <1>5, <1>6, <1>7, <1>8, <1>9, <1>10, <1>11, <1>12, <1>13, <1>14
     DEF Next, MainStep, Request, SchedulerStep

LEMMA HandAlways == Spec => [](IInv /\ EntriesInv /\ StartInv /\ HandNotEmpty)
<1>1. Init => HandNotEmpty
  BY DEF Init, HandNotEmpty, Flushing
<1> QED
  BY <1>1, HandStep, StartAlways, PTL DEF Spec
-----------------------------------------------------------------------------
LEMMA FifoCountStep ==
  ASSUME Policy = "fifo", "flush" \notin Requests,
         IInv, StartInv, HandNotEmpty, FifoConservation, [Next]_vars
  PROVE  FifoConservation'
<1> SUFFICES ASSUME TypeOK, LocalsOK, Next, BeforeSigint, BeforeSigint'
    PROVE FifoConservation'
  BY NoSigintYet DEF IInv, FifoConservation, BeforeSigint, vars, loopVars, tableVars, countVars, histVars
<1> USE DEF tableVars, countVars, histVars, At
<1>t. /\ waiting \in Seq(Process) /\ running \in Seq(Process) /\ starts \in Seq(Jobs)
      /\ arrivals \in Seq(Jobs) /\ total_dead_processes \in Nat
      /\ Len(waiting) \in Nat /\ Len(running) \in Nat /\ Len(starts) \in Nat /\ Len(arrivals) \in Nat
  BY LenProperties DEF TypeOK
<1>0. interrupted = "none" /\ interrupted' = "none" /\ Thread = pc /\ pc \notin Flushing
  BY DEF BeforeSigint, Thread, HandNotEmpty
<1>c. /\ pc = "exec_push" => /\ Len(starts) = Len(running) + total_dead_processes + 1
                             /\ Len(arrivals) = Len(waiting) + Len(starts) - 1
      /\ pc # "exec_push" => /\ Len(starts) = Len(running) + total_dead_processes
                             /\ Len(arrivals) = Len(waiting) + Len(starts)
  BY <1>t DEF FifoConservation
<1>1. ASSUME pc' # "exec_push",
             Len(starts') = Len(running') + total_dead_processes',
             Len(arrivals') = Len(waiting') + Len(starts')
      PROVE  FifoConservation'
  BY <1>1 DEF FifoConservation
<1>2. CASE UNCHANGED <<tableVars, total_dead_processes, arrivals, starts>>
           /\ pc # "exec_push" /\ pc' # "exec_push"
  BY <1>1, <1>2, <1>c
<1>3. CASE UNCHANGED <<tableVars, total_dead_processes, arrivals, starts, pc>>
  BY <1>3, <1>c, <1>t DEF FifoConservation
<1>4. CASE AddJob
  <2>1. PICK j \in Jobs : /\ waiting' = <<NewProcess(j)>> \o waiting
                          /\ arrivals' = Append(arrivals, j)
    BY <1>4 DEF AddJob
  <2>2. NewProcess(j) \in Process
    BY ChildrenAssumption, SchedulerAssumption DEF NewProcess, NoProcess, Process
  <2>3. Len(waiting') = Len(waiting) + 1
    <3>1. Len(<<NewProcess(j)>> \o waiting) = Len(<<NewProcess(j)>>) + Len(waiting)
      BY <1>t, <2>2, ConcatProperties
    <3> QED
      BY <1>t, <2>1, <3>1
  <2>4. Len(arrivals') = Len(arrivals) + 1
    BY <1>t, <2>1, AppendProperties
  <2>5. pc = "accept" /\ pc' # "exec_push" /\ UNCHANGED <<running, starts, total_dead_processes>>
    BY <1>4 DEF AddJob, AfterAccept
  <2>6. /\ Len(starts') = Len(running') + total_dead_processes'
        /\ Len(arrivals') = Len(waiting') + Len(starts')
    BY <1>c, <1>t, <2>3, <2>4, <2>5
  <2> QED
    BY <1>1, <2>5, <2>6
<1>5. CASE ExecuteJobFork
  <2>1. copy.job \in Jobs /\ pc = "exec_fork"
    BY <1>5, LocalsAtPc DEF ExecuteJobFork, LocalsHere, CopyHeld, Process
  <2>2. CASE starts' = Append(starts, copy.job) /\ pc' = "exec_push"
    <3>1. Len(starts') = Len(starts) + 1
      BY <1>t, <2>1, <2>2, AppendProperties
    <3>2. UNCHANGED <<tableVars, arrivals, total_dead_processes>>
      BY <1>5 DEF ExecuteJobFork
    <3> QED
      BY <1>c, <1>t, <2>1, <2>2, <3>1, <3>2 DEF FifoConservation
  <2> QED
    BY <1>2, <1>5, <2>1, <2>2 DEF ExecuteJobFork, CallersLoop
<1>6. CASE ExecuteJobPush
  <2>1. waiting # <<>> /\ pc = "exec_push"
    BY <1>6 DEF ExecuteJobPush, HandNotEmpty
  <2> DEFINE e == [Head(waiting) EXCEPT !.pid = Head(waiting).job]
  <2>2. e \in Process
    BY <1>t, <2>1, HeadTailOf, ProcessUpdates DEF Process
  <2>3. running' = Append(running, e) /\ waiting' = Tail(waiting) /\ pc' # "exec_push"
    BY <1>6, <2>1 DEF ExecuteJobPush, FrontToRunning, CallersLoop
  <2> HIDE DEF e
  <2>4. Len(running') = Len(running) + 1 /\ Len(waiting') = Len(waiting) - 1
    BY <1>t, <2>1, <2>2, <2>3, QueueOps
  <2>5. UNCHANGED <<arrivals, starts, total_dead_processes>>
    BY <1>6 DEF ExecuteJobPush
  <2> QED
    BY <1>1, <1>c, <1>t, <2>1, <2>3, <2>4, <2>5
<1>7. ASSUME NEW j \in Jobs, SigchldReap(j) PROVE FifoConservation'
  <2>1. UNCHANGED <<waiting, arrivals, starts, pc>>
    BY <1>7 DEF SigchldReap
  <2>2. CASE \E k \in DOMAIN running : running' = RemoveAt(running, k) /\ total_dead_processes' = total_dead_processes + 1
    <3>1. Len(running') = Len(running) - 1
      BY <1>t, <2>2, RemoveAtFacts
    <3>2. Len(running') + total_dead_processes' = Len(running) + total_dead_processes
      BY <1>t, <2>2, <3>1
    <3> QED
      BY <1>c, <1>t, <2>1, <3>2 DEF FifoConservation
  <2> QED
    BY <1>3, <1>7, <2>1, <2>2 DEF SigchldReap, RemoveProcess
<1>8. CASE StatScan
  <2>1. pc = "stat_scan" /\ pc' # "exec_push" /\ UNCHANGED <<waiting, arrivals, starts, total_dead_processes>>
    BY <1>8 DEF StatScan
  <2>2. Len(running') = Len(running)
    <3>1. \A x : Len([running EXCEPT ![idx].utime = x]) = Len(running)
      BY <1>t, LenProperties
    <3> QED
      BY <1>8, <3>1 DEF StatScan
  <2> QED
    BY <1>1, <1>c, <1>t, <2>1, <2>2
<1>9. CASE SigchldEnter \/ SigchldReturn \/ Types \/ \E j \in Jobs : Ends(j) \/ Computes(j)
  BY <1>3, <1>9 DEF SigchldEnter, SigchldReturn, Types, Ends, Computes
<1>10. CASE Poll \/ PollStdin \/ FlushRequest \/ FlushReturn \/ StatusCounts \/ StatusLists \/ Query
  BY <1>0, <1>2, <1>10 DEF Poll, PollStdin, FlushRequest, FlushReturn, StatusCounts, StatusLists,
     Query, AfterAccept
<1>11. CASE StatRead \/ StatOpen \/ FifoRunner
  BY <1>2, <1>11 DEF StatRead, StatOpen, FifoRunner, ExecuteJob
<1>12. CASE SigintEnter
  BY <1>0, <1>12 DEF SigintEnter, TypeOK, Locations, Halted
<1>13. ~(RRobinPause \/ RRobinRequeue \/ RRobinFill \/ RRobinPush \/ MlfqFront \/ MlfqPop \/ MlfqRequeue
         \/ MlfqBoostDue \/ MlfqBoost \/ MlfqAdmit \/ MlfqFill \/ MlfqPush)
  <2>1. pc \notin {"rrobin", "rrobin_requeue", "rrobin_fill", "rrobin_push"} \cup MlfqSteps
    BY <1>0 DEF StartInv, ThreadOfPolicy, MlfqSteps
  <2> QED
    BY <2>1 DEF RRobinPause, RRobinRequeue, RRobinFill, RRobinPush, MlfqFront, MlfqPop, MlfqRequeue,
       MlfqBoostDue, MlfqBoost, MlfqAdmit, MlfqFill, MlfqPush, MlfqSteps
<1>14. ~(FlushKill \/ FlushPop \/ FlushQueue)
  BY <1>0 DEF FlushKill, FlushPop, FlushQueue, Flushing
<1> QED
  BY <1>4, <1>5, <1>6, <1>7, <1>8, <1>9, <1>10, <1>11, <1>12, <1>13, <1>14
     DEF Next, MainStep, Request, SchedulerStep, Handler

(* Under fifo, as long as nobody flushes, every job that came is waiting   *)
(* or was started, and every job that was started is running, was counted  *)
(* dead, or is being pushed: the averages divide by what they should,      *)
(* wherever SIGCHLD comes (scheduler.cpp:144,416; pq.cpp:59-80).           *)
THEOREM FifoCounts ==
  ASSUME Policy = "fifo", "flush" \notin Requests PROVE Spec => []FifoConservation
<1>1. Init => FifoConservation
  BY LenProperties DEF Init, FifoConservation
<1>2. IInv /\ EntriesInv /\ StartInv /\ HandNotEmpty /\ FifoConservation /\ [Next]_vars
        => FifoConservation'
  BY FifoCountStep
<1> QED
  BY <1>1, <1>2, HandAlways, PTL DEF Spec
-----------------------------------------------------------------------------
(* The queued jobs that were never started.                                *)
Unstarted == (JobsIn(waiting) \cup JobsInLevels) \ ToSet(starts)

(* num_waiting_processes is decremented before the fork, and a fork that   *)
(* fails is tried again, except under mlfq.                                *)
Retried      == IF Policy = "mlfq" THEN 0 ELSE forkFails
CountedEarly == IF pc = "exec_fork" THEN 1 ELSE 0
WaitingCounted == BeforeSigint /\ pc \notin Halted =>
  num_waiting_processes = Cardinality(Unstarted) - Retried - CountedEarly

LEMMA UnstartedFinite ==
  TypeOK /\ EntriesInv => IsFiniteSet(Unstarted) /\ Cardinality(Unstarted) \in Nat
<1> SUFFICES ASSUME TypeOK, EntriesInv
    PROVE IsFiniteSet(Unstarted) /\ Cardinality(Unstarted) \in Nat
  OBVIOUS
<1> DEFINE n == Len(arrivals)
<1>1. n \in Nat /\ DOMAIN arrivals = 1..n /\ arrivals \in [1..n -> Jobs]
  BY LenProperties DEF TypeOK
<1>2. IsFiniteSet(1..n)
  BY <1>1, FS_Interval
<1>3. arrivals \in Surjection(1..n, ToSet(arrivals))
  BY <1>1 DEF Surjection, ToSet
<1>4. IsFiniteSet(ToSet(arrivals))
  BY <1>2, <1>3, FS_Surjection
<1>5. Unstarted \subseteq ToSet(arrivals)
  BY DEF Unstarted, EntriesInv, KnownJobs, TabledJobs
<1>6. IsFiniteSet(Unstarted)
  BY <1>4, <1>5, FS_Subset
<1> QED
  BY <1>6, FS_CardinalityType

LEMMA LevelReplaced ==
  ASSUME TypeOK, NEW l \in 0..NumLevels-1, NEW s, levels' = [levels EXCEPT ![l] = s], NEW A
  PROVE  /\ JobsIn(s) = JobsIn(levels[l]) \cup A => JobsInLevels' = JobsInLevels \cup A
         /\ JobsIn(s) = JobsIn(levels[l]) \ A
              /\ (\A m \in 0..NumLevels-1 : m # l => JobsIn(levels[m]) \cap A = {})
              => JobsInLevels' = JobsInLevels \ A
<1>1. levels'[l] = s /\ \A m \in 0..NumLevels-1 : m # l => levels'[m] = levels[m]
  BY DEF TypeOK
<1>2. ASSUME JobsIn(s) = JobsIn(levels[l]) \cup A PROVE JobsInLevels' = JobsInLevels \cup A
  <2>1. ASSUME NEW j \in JobsInLevels' PROVE j \in JobsInLevels \cup A
    BY <1>1, <1>2, <2>1 DEF JobsInLevels
  <2>2. ASSUME NEW j \in JobsInLevels \cup A PROVE j \in JobsInLevels'
    BY <1>1, <1>2, <2>2 DEF JobsInLevels
  <2> QED
    BY <2>1, <2>2
<1>3. ASSUME JobsIn(s) = JobsIn(levels[l]) \ A,
             \A m \in 0..NumLevels-1 : m # l => JobsIn(levels[m]) \cap A = {}
      PROVE  JobsInLevels' = JobsInLevels \ A
  <2>1. \A m \in 0..NumLevels-1 : JobsIn(levels'[m]) = JobsIn(levels[m]) \ A
    BY <1>1, <1>3
  <2>2. ASSUME NEW j \in JobsInLevels' PROVE j \in JobsInLevels \ A
    BY <2>1, <2>2 DEF JobsInLevels
  <2>3. ASSUME NEW j \in JobsInLevels \ A PROVE j \in JobsInLevels'
    BY <2>1, <2>3 DEF JobsInLevels
  <2> QED
    BY <2>2, <2>3
<1> QED
  BY <1>2, <1>3

(* The boost and the admission keep every job in the queue.                *)
(* The boost and the admission move entries within the queue.              *)
LEMMA QueueKept ==
  ASSUME TypeOK, LocalsHere, MlfqBoost \/ MlfqAdmit
  PROVE  JobsIn(waiting)' \cup JobsInLevels' = JobsIn(waiting) \cup JobsInLevels
<1> USE SchedulerAssumption
<1>v. /\ waiting \in Seq(Process) /\ levels \in [0..NumLevels-1 -> Seq(Process)]
      /\ 0 \in 0..NumLevels-1 /\ levels[0] \in Seq(Process)
  BY DEF TypeOK
<1>e. JobsIn(<<>>) = {}
  BY DEF JobsIn
<1>1. CASE MlfqBoost /\ idx < NumLevels
  <2> DEFINE t == levels[0] \o Boosted(levels[idx])
  <2>1. idx \in 1..NumLevels-1 /\ idx \in 0..NumLevels-1 /\ levels[idx] \in Seq(Process)
    BY <1>v, <1>1 DEF MlfqBoost, At, LocalsHere, TypeOK
  <2>2. Boosted(levels[idx]) \in Seq(Process) /\ JobsIn(Boosted(levels[idx])) = JobsIn(levels[idx])
    BY <2>1, BoostedType, BoostedJobs
  <2>3. JobsIn(t) = JobsIn(levels[0]) \cup JobsIn(levels[idx])
    BY <1>v, <2>2, ConcatJobs
  <2>4. levels' = [levels EXCEPT ![0] = t, ![idx] = <<>>] /\ waiting' = waiting
    BY <1>1 DEF MlfqBoost
  <2> HIDE DEF t
  <2>5. /\ levels'[0] = t /\ levels'[idx] = <<>>
        /\ \A m \in 0..NumLevels-1 : m # 0 /\ m # idx => levels'[m] = levels[m]
    BY <1>v, <2>1, <2>4
  <2>6. JobsInLevels' = JobsInLevels
    <3>1. ASSUME NEW j \in JobsInLevels' PROVE j \in JobsInLevels
      <4>1. PICK m \in 0..NumLevels-1 : j \in JobsIn(levels'[m])
        BY <3>1 DEF JobsInLevels
      <4> QED
        BY <1>v, <1>e, <2>1, <2>3, <2>5, <4>1 DEF JobsInLevels
    <3>2. ASSUME NEW j \in JobsInLevels PROVE j \in JobsInLevels'
      <4>1. PICK m \in 0..NumLevels-1 : j \in JobsIn(levels[m])
        BY <3>2 DEF JobsInLevels
      <4>2. j \in JobsIn(levels'[0]) \/ j \in JobsIn(levels'[m])
        BY <2>3, <2>5, <4>1
      <4> QED
        BY <1>v, <4>2 DEF JobsInLevels
    <3> QED
      BY <3>1, <3>2
  <2> QED
    BY <2>4, <2>6 DEF JobsIn
<1>2. CASE MlfqBoost /\ ~(idx < NumLevels)
  BY <1>2 DEF MlfqBoost, JobsInLevels, JobsIn
<1>3. CASE MlfqAdmit
  <2>1. levels' = [levels EXCEPT ![0] = levels[0] \o waiting] /\ waiting' = <<>>
    BY <1>3 DEF MlfqAdmit, AdmitWaiting
  <2>2. JobsIn(levels[0] \o waiting) = JobsIn(levels[0]) \cup JobsIn(waiting)
    BY <1>v, ConcatJobs
  <2>3. JobsInLevels' = JobsInLevels \cup JobsIn(waiting)
    BY <1>v, <2>1, <2>2, LevelReplaced
  <2>4. JobsIn(waiting)' = {}
    BY <1>e, <2>1 DEF JobsIn
  <2> QED
    BY <2>3, <2>4
<1> QED
  BY <1>1, <1>2, <1>3

LEMMA UnstartedKept ==
  ASSUME TypeOK, LocalsHere, MlfqBoost \/ MlfqAdmit
  PROVE  Unstarted' = Unstarted
<1>1. ToSet(starts)' = ToSet(starts)
  BY DEF MlfqBoost, MlfqAdmit, histVars, ToSet
<1> QED
  BY <1>1, QueueKept DEF Unstarted

LEMMA WaitingStep ==
  ASSUME "flush" \notin Requests, IInv, EntriesInv, StartInv, HandNotEmpty, WaitingCounted, [Next]_vars
  PROVE  WaitingCounted'
<1>u. ASSUME UNCHANGED <<waiting, levels, starts>> PROVE Unstarted' = Unstarted
  BY <1>u DEF Unstarted, JobsInLevels, JobsIn, ToSet
<1> SUFFICES ASSUME TypeOK, LocalsOK, Next, BeforeSigint, BeforeSigint', pc \notin Halted, pc' \notin Halted
    PROVE WaitingCounted'
  <2>1. CASE UNCHANGED vars
    <3>1. /\ UNCHANGED <<waiting, levels, starts, num_waiting_processes, forkFails, pc>>
          /\ BeforeSigint' = BeforeSigint
      BY <2>1 DEF vars, tableVars, countVars, histVars, loopVars, BeforeSigint
    <3> QED
      BY <1>u, <3>1 DEF WaitingCounted, Retried, CountedEarly
  <2>2. ASSUME Next, pc \in Halted PROVE pc' = pc
    <3>1. ~(MainStep \/ SigintEnter)
      BY <2>2 DEF MainStep, Poll, PollStdin, Request, AddJob, FlushRequest, FlushReturn, StatusCounts,
         StatusLists, Query, SchedulerStep, ExecuteJobFork, ExecuteJobPush, StatRead, StatOpen, StatScan,
         FifoRunner, RRobinPause, RRobinRequeue, RRobinFill, RRobinPush, MlfqFront, MlfqPop, MlfqRequeue,
         MlfqBoostDue, MlfqBoost, MlfqAdmit, MlfqFill, MlfqPush, FlushKill, FlushPop, FlushQueue,
         SigintEnter, At, Halted
    <3> QED
      BY <2>2, <3>1 DEF Next, Handler, SigchldEnter, SigchldReturn, SigchldReap, Types, Ends, Computes
  <2> QED
    BY <2>1, <2>2, NoSigintYet DEF IInv, WaitingCounted
<1> USE SchedulerAssumption, ChildrenAssumption
<1> USE DEF tableVars, countVars, histVars, locals, At
<1>0. interrupted = "none" /\ interrupted' = "none" /\ Thread = pc /\ Thread' = pc' /\ pc \notin Flushing
  BY DEF BeforeSigint, Thread, HandNotEmpty
<1>h. LocalsHere
  BY LocalsAtPc
<1>t. /\ waiting \in Seq(Process) /\ starts \in Seq(Jobs) /\ arrivals \in Seq(Jobs)
      /\ levels \in [0..NumLevels-1 -> Seq(Process)]
      /\ num_waiting_processes \in Int /\ forkFails \in Nat
  BY DEF TypeOK
<1>c. num_waiting_processes = Cardinality(Unstarted) - Retried - CountedEarly
  BY DEF WaitingCounted
<1>f. IsFiniteSet(Unstarted) /\ Cardinality(Unstarted) \in Nat
  BY UnstartedFinite
<1>k. /\ pc # "exec_push" => waiting \in Seq(Known)
      /\ \A l \in 0..NumLevels-1 : levels[l] \in Seq(Known)
      /\ pc \in Moving => copy \in Known
  BY <1>0 DEF StartInv, PidsKnown
<1>j. /\ \A e \in Known : /\ e.pid = NoPid => e.job \notin ToSet(starts)
                          /\ e.pid # NoPid => e.job \in ToSet(starts)
                          /\ e.job \in Jobs
  BY KnownChanges DEF Known
<1>1. ASSUME Unstarted' = Unstarted, UNCHANGED <<num_waiting_processes, forkFails>>,
             pc # "exec_fork", pc' # "exec_fork"
      PROVE  WaitingCounted'
  BY <1>1, <1>c DEF WaitingCounted, Retried, CountedEarly
<1>2. ASSUME UNCHANGED <<waiting, levels, starts, num_waiting_processes, forkFails>>,
             pc # "exec_fork", pc' # "exec_fork"
      PROVE  WaitingCounted'
  BY <1>1, <1>2, <1>u
<1>3. ASSUME waiting # <<>>, ExecuteJob, pc # "exec_fork" PROVE WaitingCounted'
  <2>1. Unstarted' = Unstarted /\ forkFails' = forkFails /\ pc' = "exec_fork"
    BY <1>3, <1>u DEF ExecuteJob
  <2>2. num_waiting_processes' = num_waiting_processes - 1
    BY <1>3 DEF ExecuteJob
  <2> QED
    BY <1>3, <1>c, <1>f, <1>t, <2>1, <2>2 DEF WaitingCounted, Retried, CountedEarly
(* A queue has an entry less, of a job that was started.                   *)
<1>4. ASSUME NEW j \in ToSet(starts), UNCHANGED <<starts, levels, num_waiting_processes, forkFails>>,
             JobsIn(waiting') \cup {j} = JobsIn(waiting) \cup {j},
             pc # "exec_fork", pc' # "exec_fork"
      PROVE  WaitingCounted'
  <2>1. ToSet(starts)' = ToSet(starts) /\ JobsInLevels' = JobsInLevels /\ JobsIn(waiting)' = JobsIn(waiting')
    BY <1>4 DEF ToSet, JobsInLevels, JobsIn
  <2>2. Unstarted' = Unstarted
    BY <1>4, <2>1 DEF Unstarted
  <2> QED
    BY <1>1, <1>4, <2>2
<1>5. CASE AddJob
  <2>1. PICK j \in Jobs \ ToSet(arrivals) : waiting' = <<NewProcess(j)>> \o waiting
    BY <1>5 DEF AddJob
  <2>2. NewProcess(j) \in Process /\ NewProcess(j).job = j
    BY DEF NewProcess, NoProcess, Process
  <2>3. JobsIn(waiting') = {j} \cup JobsIn(waiting)
    BY <1>t, <2>1, <2>2, FrontJobs
  <2>4. j \notin Unstarted /\ j \notin ToSet(starts)
    BY DEF EntriesInv, KnownJobs, TabledJobs, Unstarted
  <2>5. /\ UNCHANGED <<levels, starts, forkFails>> /\ pc # "exec_fork" /\ pc' # "exec_fork"
        /\ num_waiting_processes' = num_waiting_processes + 1
    BY <1>5 DEF AddJob, AfterAccept
  <2>6. Unstarted' = Unstarted \cup {j}
    <3>1. ToSet(starts)' = ToSet(starts) /\ JobsInLevels' = JobsInLevels /\ JobsIn(waiting)' = JobsIn(waiting')
      BY <2>5 DEF ToSet, JobsInLevels, JobsIn
    <3> QED
      BY <2>3, <2>4, <3>1 DEF Unstarted
  <2>7. Cardinality(Unstarted') = Cardinality(Unstarted) + 1
    BY <1>f, <2>4, <2>6, FS_AddElement
  <2> QED
    BY <1>c, <1>f, <1>t, <2>5, <2>7 DEF WaitingCounted, Retried, CountedEarly
<1>6. CASE ExecuteJobFork
  <2>1. pc = "exec_fork" /\ UNCHANGED <<waiting, levels, num_waiting_processes>>
    BY <1>6 DEF ExecuteJobFork
  <2>2. CASE pc' = CallersLoop /\ forkFails' = forkFails + 1 /\ UNCHANGED starts
    <3>1. Unstarted' = Unstarted /\ pc' # "exec_fork" /\ Policy # "mlfq"
      BY <1>0, <1>u, <2>1, <2>2 DEF CallersLoop, StartInv, ThreadOfPolicy
    <3> QED
      BY <1>c, <1>f, <1>t, <2>1, <2>2, <3>1 DEF WaitingCounted, Retried, CountedEarly
  <2>3. CASE starts' = Append(starts, copy.job) /\ pc' = "exec_push" /\ UNCHANGED forkFails
    <3>1. copy.job \in Jobs /\ copy.job \notin ToSet(starts)
      BY <1>0, <1>j, <1>k, <2>1 DEF Moving, StartInv, PidsKnown
    <3>2. copy.job \in JobsIn(waiting)
      BY <1>t, <2>1, TailJobs DEF HandNotEmpty, StartInv, FrontInHand
    <3>3. ToSet(starts)' = ToSet(starts) \cup {copy.job}
      <4>1. ToSet(Append(starts, copy.job)) = ToSet(starts) \cup {copy.job}
        BY <1>t, <3>1, ToSetAppend
      <4> QED
        BY <2>3, <4>1 DEF ToSet
    <3>4. Unstarted' = Unstarted \ {copy.job} /\ copy.job \in Unstarted
      BY <2>1, <3>1, <3>2, <3>3 DEF Unstarted, JobsInLevels, JobsIn
    <3>5. Cardinality(Unstarted') = Cardinality(Unstarted) - 1
      BY <1>f, <3>4, FS_RemoveElement
    <3> QED
      BY <1>c, <1>f, <1>t, <2>1, <2>3, <3>5 DEF WaitingCounted, Retried, CountedEarly
  <2> QED
    BY <1>6, <2>2, <2>3 DEF ExecuteJobFork
<1>7. CASE ExecuteJobPush
  <2>1. pc = "exec_push" /\ waiting # <<>> /\ waiting' = Tail(waiting) /\ pc' # "exec_fork"
    BY <1>7 DEF ExecuteJobPush, FrontToRunning, HandNotEmpty, CallersLoop
  <2>2. JobsIn(waiting') \cup {Head(waiting).job} = JobsIn(waiting) \cup {Head(waiting).job}
    BY <1>t, <2>1, TailJobs
  <2>3. Head(waiting).job \in ToSet(starts)
    BY <1>t, <2>1, LastMember DEF StartInv, FrontInHand
  <2> QED
    BY <1>4, <1>7, <2>1, <2>2, <2>3 DEF ExecuteJobPush
<1>8. CASE RRobinPush
  <2>1. pc = "rrobin_push" /\ waiting # <<>> /\ waiting' = Tail(waiting) /\ pc' # "exec_fork"
    BY <1>8 DEF RRobinPush, FrontToRunning, HandNotEmpty
  <2>2. JobsIn(waiting') \cup {Head(waiting).job} = JobsIn(waiting) \cup {Head(waiting).job}
    BY <1>t, <2>1, TailJobs
  <2>3. Head(waiting).job \in ToSet(starts)
    BY <1>j, <1>k, <2>1, HeadTailOf DEF HandNotEmpty
  <2> QED
    BY <1>4, <1>8, <2>1, <2>2, <2>3 DEF RRobinPush
<1>9. CASE RRobinRequeue
  <2>1. pc = "rrobin_requeue" /\ waiting' = Append(waiting, copy) /\ pc' # "exec_fork"
    BY <1>9 DEF RRobinRequeue, Requeued
  <2>2. copy \in Known /\ copy \in Process /\ copy.pid # NoPid
    BY <1>k, <2>1 DEF HandNotEmpty, Moving, Known, KnownBy
  <2>3. JobsIn(waiting') \cup {copy.job} = JobsIn(waiting) \cup {copy.job}
    BY <1>t, <2>1, <2>2, AppendJobs
  <2> QED
    BY <1>4, <1>9, <1>j, <2>1, <2>2, <2>3 DEF RRobinRequeue
<1>10. CASE MlfqRequeue
  <2>1. copy \in Known /\ copy \in Process /\ pc = "mlfq_requeue" /\ copy.priority \in 0..NumLevels-1
    BY <1>10, <1>k DEF MlfqRequeue, Moving, Known, KnownBy, Process
  <2>2. CASE copy.pid = NoPid
    BY <1>10, <2>2 DEF MlfqRequeue, PauseProcess, Halted
  <2>3. CASE copy.pid # NoPid
    <3>1. levels' = [levels EXCEPT ![copy.priority] = Append(levels[copy.priority], copy)]
      BY <1>10, <2>3 DEF MlfqRequeue
    <3>2. JobsIn(Append(levels[copy.priority], copy)) = JobsIn(levels[copy.priority]) \cup {copy.job}
      BY <1>t, <2>1, AppendJobs
    <3>3. JobsInLevels' = JobsInLevels \cup {copy.job}
      BY <2>1, <3>1, <3>2, LevelReplaced
    <3>4. /\ UNCHANGED <<waiting, starts, num_waiting_processes, forkFails>>
          /\ pc' # "exec_fork" /\ pc # "exec_fork"
      BY <1>10, <2>3 DEF MlfqRequeue, PauseProcess
    <3>5. Unstarted' = Unstarted
      BY <1>j, <2>1, <2>3, <3>3, <3>4 DEF Unstarted, JobsIn, ToSet
    <3> QED
      BY <1>1, <3>4, <3>5
  <2> QED
    BY <2>2, <2>3
<1>11. CASE MlfqFill /\ idx < NumLevels /\ levels[idx] # <<>> /\ MlfqDispatch
  <2> DEFINE q == Head(levels[idx])
  <2>1. idx \in 0..NumLevels-1
    BY <1>h, <1>11 DEF MlfqFill, LocalsHere, TypeOK
  <2>2. q \in Known /\ levels[idx] \in Seq(Process)
    BY <1>11, <1>k, <1>t, <2>1, HeadTailOf
  <2>3. /\ JobsIn(Tail(levels[idx])) = JobsIn(levels[idx]) \ {q.job}
        /\ q.job \in JobsIn(levels[idx])
        /\ \A m \in 0..NumLevels-1 : m # idx => JobsIn(levels[m]) \cap {q.job} = {}
    <3>1. DistinctJobs(levels[idx]) /\ levels[idx] # <<>>
      BY <1>11, <2>1 DEF EntriesInv, Apart
    <3>2. q.job \in JobsIn(levels[idx]) /\ JobsIn(Tail(levels[idx])) = JobsIn(levels[idx]) \ {q.job}
      BY <2>2, <3>1, TailJobs
    <3>3. \A m \in 0..NumLevels-1 : m # idx => JobsIn(levels[m]) \cap JobsIn(levels[idx]) = {}
      BY <2>1 DEF EntriesInv, Apart
    <3> HIDE DEF q
    <3> QED
      BY <3>2, <3>3
  <2>4. levels' = [levels EXCEPT ![idx] = Tail(levels[idx])] /\ waiting' = waiting
    BY <1>11 DEF MlfqDispatch
  <2>5. JobsInLevels' = JobsInLevels \ {q.job}
    <3> HIDE DEF q
    <3> QED
      BY <2>1, <2>3, <2>4, LevelReplaced
  <2>6. q.job \in JobsInLevels /\ q.job \notin JobsIn(waiting)
    BY <2>1, <2>3 DEF EntriesInv, Apart, JobsInLevels
  <2>7. pc # "exec_fork" /\ pc' # "exec_fork" /\ Policy = "mlfq"
    BY <1>0, <1>11 DEF MlfqFill, MlfqDispatch, StartInv, ThreadOfPolicy, MlfqSteps
  <2>8. CASE q.pid # NoPid
    <3>1. UNCHANGED <<starts, num_waiting_processes, forkFails>>
      BY <1>11, <2>8 DEF MlfqDispatch
    <3>2. Unstarted' = Unstarted
      BY <1>j, <2>2, <2>4, <2>5, <2>8, <3>1 DEF Unstarted, JobsIn, ToSet
    <3> QED
      BY <1>1, <2>7, <3>1, <3>2
  <2>9. CASE q.pid = NoPid
    <3>1. /\ num_waiting_processes' = num_waiting_processes - 1
          /\ starts' = starts \/ starts' = Append(starts, q.job)
      BY <1>11, <2>9 DEF MlfqDispatch
    <3>2. q.job \in Jobs /\ q.job \notin ToSet(starts)
      BY <1>j, <2>2, <2>9
    <3>3. ToSet(starts') \cup {q.job} = ToSet(starts) \cup {q.job}
      <4> HIDE DEF q
      <4>1. ToSet(Append(starts, q.job)) = ToSet(starts) \cup {q.job}
        BY <1>t, <3>2, ToSetAppend
      <4> QED
        BY <3>1, <4>1
    <3>4. Unstarted' = Unstarted \ {q.job} /\ q.job \in Unstarted
      <4> HIDE DEF q
      <4>1. ToSet(starts)' = ToSet(starts') /\ JobsIn(waiting)' = JobsIn(waiting)
        BY <2>4 DEF JobsIn, ToSet
      <4> QED
        BY <2>5, <2>6, <3>2, <3>3, <4>1 DEF Unstarted
    <3>5. Cardinality(Unstarted') = Cardinality(Unstarted) - 1
      <4> HIDE DEF q
      <4> QED
        BY <1>f, <3>4, FS_RemoveElement
    <3> QED
      BY <1>c, <1>f, <1>t, <2>7, <3>1, <3>5 DEF WaitingCounted, Retried, CountedEarly
  <2> QED
    BY <2>8, <2>9
<1>12. CASE MlfqFill /\ ~(idx < NumLevels /\ levels[idx] # <<>> /\ MlfqDispatch)
  BY <1>2, <1>12 DEF MlfqFill
<1>13. CASE MlfqBoost \/ MlfqAdmit
  <2>1. Unstarted' = Unstarted
    BY <1>h, <1>13, UnstartedKept
  <2> QED
    BY <1>1, <1>13, <2>1 DEF MlfqBoost, MlfqAdmit
<1>14. CASE FifoRunner \/ RRobinFill
  BY <1>2, <1>3, <1>14 DEF FifoRunner, RRobinFill
<1>15. CASE Poll \/ PollStdin \/ FlushRequest \/ FlushReturn \/ StatusCounts \/ StatusLists \/ Query
  BY <1>0, <1>2, <1>15 DEF Poll, PollStdin, FlushRequest, FlushReturn, StatusCounts, StatusLists,
     Query, AfterAccept
<1>16. CASE StatRead \/ StatOpen \/ StatScan \/ RRobinPause \/ MlfqFront
  BY <1>2, <1>16 DEF StatRead, StatOpen, StatScan, RRobinPause, PauseProcess, MlfqFront
<1>17. CASE MlfqPop \/ MlfqBoostDue \/ MlfqPush
  BY <1>2, <1>17 DEF MlfqPop, MlfqBoostDue, MlfqPush
<1>18. ~(FlushKill \/ FlushPop \/ FlushQueue)
  BY <1>0 DEF FlushKill, FlushPop, FlushQueue, Flushing
<1>19. CASE Handler \/ Types \/ \E j \in Jobs : Ends(j) \/ Computes(j)
  <2>1. UNCHANGED <<waiting, levels, starts, num_waiting_processes, forkFails, pc>>
    BY <1>19 DEF Handler, SigchldEnter, SigchldReturn, SigchldReap, Types, Ends, Computes
  <2> QED
    BY <1>c, <1>u, <2>1 DEF WaitingCounted, Retried, CountedEarly
<1>20. ~SigintEnter
  BY <1>0 DEF SigintEnter, TypeOK, Locations, Halted
<1> QED
  BY <1>5, <1>6, <1>7, <1>8, <1>9, <1>10, <1>11, <1>12, <1>13, <1>14, <1>15, <1>16, <1>17, <1>18,
     <1>19, <1>20 DEF Next, MainStep, Request, SchedulerStep

(* Among the queued entries, a job that was never started is one that has  *)
(* no pid, and there is one entry of it.  While executeJob has a job in    *)
(* hand that it has forked, its entry has no pid either.                   *)
NewQueued == {e \in Queued : e.pid = NoPid}
InHand    == IF pc = "exec_push" THEN {Last(starts)} ELSE {}

LEMMA OneEntryOf ==
  ASSUME TypeOK, EntriesInv, NEW e \in Queued, NEW f \in Queued, e.job = f.job
  PROVE  e = f
<1> DEFINE In(s) == {s[k] : k \in DOMAIN s}
<1>1. /\ \A a, b \in In(waiting) : a.job = b.job => a = b
      /\ \A l \in 0..NumLevels-1 : \A a, b \in In(levels[l]) : a.job = b.job => a = b
  BY DEF EntriesInv, Apart, DistinctJobs
<1>2. \A l \in 0..NumLevels-1 : \A a \in In(waiting), b \in In(levels[l]) : a.job # b.job
  BY DEF EntriesInv, Apart, JobsIn
<1>3. \A l, m \in 0..NumLevels-1 : l # m => \A a \in In(levels[l]), b \in In(levels[m]) : a.job # b.job
  BY DEF EntriesInv, Apart, JobsIn
<1>4. \A a \in Queued : a \in In(waiting) \/ \E l \in 0..NumLevels-1 : a \in In(levels[l])
  BY DEF Queued, TypeOK
<1> HIDE DEF In
<1> QED
  BY <1>1, <1>2, <1>3, <1>4

LEMMA QueuedJobsOf ==
  ASSUME TypeOK, EntriesInv, StartInv, HandNotEmpty, BeforeSigint
  PROVE  {e.job : e \in NewQueued} = Unstarted \cup InHand /\ Unstarted \cap InHand = {}
<1>0. Thread = pc /\ waiting \in Seq(Process) /\ starts \in Seq(Jobs)
  BY DEF BeforeSigint, Thread, TypeOK
<1>1. {e.job : e \in Queued} = JobsIn(waiting) \cup JobsInLevels
  BY DEF Queued, JobsIn, JobsInLevels, TypeOK
<1>2. \A e \in Known : e.pid = NoPid <=> e.job \notin ToSet(starts)
  BY KnownChanges DEF Known
<1>3. CASE pc # "exec_push"
  <2>1. \A e \in Queued : e \in Known
    BY <1>0, <1>3, ElementOfSeq, LenProperties DEF Queued, StartInv, PidsKnown, TypeOK
  <2>2. {e.job : e \in NewQueued} = {e.job : e \in Queued} \ ToSet(starts)
    BY <1>2, <2>1 DEF NewQueued
  <2> QED
    BY <1>1, <1>3, <2>2 DEF Unstarted, InHand
<1>4. CASE pc = "exec_push"
  <2> DEFINE h == Head(waiting)
  <2>1. waiting # <<>> /\ h.pid = NoPid /\ Tail(waiting) \in Seq(Known)
    BY <1>0, <1>4 DEF HandNotEmpty, StartInv, PidsKnown
  <2>2. starts # <<>> /\ h.job = Last(starts) /\ Last(starts) \in ToSet(starts)
    BY <1>0, <1>4, <2>1, LastMember DEF StartInv, FrontInHand
  <2>3. {waiting[k] : k \in DOMAIN waiting} = {h} \cup {Tail(waiting)[k] : k \in DOMAIN Tail(waiting)}
    <3>1. /\ {Tail(waiting)[k] : k \in DOMAIN Tail(waiting)} = {waiting[k] : k \in DOMAIN waiting \ {1}}
          /\ h = waiting[1] /\ 1 \in DOMAIN waiting
      <4>1. {Tail(waiting)[k] : k \in DOMAIN Tail(waiting)} = {waiting[k] : k \in DOMAIN waiting \ {1}}
        BY <1>0, <2>1, TailJobs
      <4>2. DOMAIN waiting = 1..Len(waiting) /\ Len(waiting) \in Nat \ {0} /\ Head(waiting) = waiting[1]
        BY <1>0, <2>1, TailFacts
      <4>3. 1 \in DOMAIN waiting
        BY <4>2
      <4>4. h = waiting[1]
        BY <4>2
      <4> QED
        BY <4>1, <4>3, <4>4
    <3> HIDE DEF h
    <3> QED
      BY <3>1
  <2> HIDE DEF h
  <2>4. h \in Queued
    BY <2>3 DEF Queued
  <2>5. \A e \in Queued : e = h \/ e \in Known
    <3>1. \A e \in {Tail(waiting)[k] : k \in DOMAIN Tail(waiting)} : e \in Known
      <4> DEFINE t == Tail(waiting)
      <4>1. t \in Seq(Known)
        BY <2>1
      <4> HIDE DEF t
      <4>2. \A k \in DOMAIN t : t[k] \in Known
        BY <4>1, ElementOfSeq, LenProperties
      <4> QED
        BY <4>2 DEF t
    <3>2. \A l \in 0..NumLevels-1 : \A k \in DOMAIN levels[l] : levels[l][k] \in Known
      BY ElementOfSeq, LenProperties DEF StartInv, PidsKnown
    <3>3. \A l \in DOMAIN levels : l \in 0..NumLevels-1
      BY DEF TypeOK
    <3> QED
      BY <2>3, <3>1, <3>2, <3>3 DEF Queued
  <2>6. \A e \in Queued : e.pid = NoPid <=> e = h \/ e.job \notin ToSet(starts)
    BY <1>2, <2>1, <2>5
  <2>7. {e.job : e \in NewQueued} = ({e.job : e \in Queued} \ ToSet(starts)) \cup {h.job}
    BY <2>4, <2>6, <2>1 DEF NewQueued
  <2> QED
    BY <1>1, <1>4, <2>2, <2>7 DEF Unstarted, InHand
<1> QED
  BY <1>3, <1>4

LEMMA QueuedCount ==
  ASSUME TypeOK, EntriesInv, StartInv, HandNotEmpty, BeforeSigint
  PROVE  Cardinality(NewQueued) = Cardinality(Unstarted) + (IF pc = "exec_push" THEN 1 ELSE 0)
<1> DEFINE J == {e.job : e \in NewQueued}
           f == [e \in NewQueued |-> e.job]
<1>1. J = Unstarted \cup InHand /\ Unstarted \cap InHand = {}
  BY QueuedJobsOf
<1>2. IsFiniteSet(Unstarted) /\ Cardinality(Unstarted) \in Nat
  BY UnstartedFinite
<1>3. IsFiniteSet(J) /\ Cardinality(J) = Cardinality(Unstarted) + (IF pc = "exec_push" THEN 1 ELSE 0)
  <2> HIDE DEF J
  <2>1. CASE pc = "exec_push"
    <3>1. J = Unstarted \cup {Last(starts)} /\ Last(starts) \notin Unstarted
      BY <1>1, <2>1 DEF InHand
    <3> QED
      BY <1>2, <2>1, <3>1, FS_AddElement
  <2>2. CASE pc # "exec_push"
    BY <1>1, <1>2, <2>2 DEF InHand
  <2> QED
    BY <2>1, <2>2
<1>4. \A a, b \in NewQueued : a.job = b.job => a = b
  BY OneEntryOf DEF NewQueued
<1>5. f \in Injection(NewQueued, J) /\ f \in Surjection(NewQueued, J)
  <2>1. f \in [NewQueued -> J] /\ \A a \in NewQueued : f[a] = a.job
    OBVIOUS
  <2>2. \A j \in J : \E a \in NewQueued : j = a.job
    OBVIOUS
  <2> HIDE DEF J, f
  <2>3. f \in Injection(NewQueued, J)
    BY <1>4, <2>1 DEF Injection, IsInjective
  <2>4. f \in Surjection(NewQueued, J)
    BY <2>1, <2>2 DEF Surjection
  <2> QED
    BY <2>3, <2>4
<1> HIDE DEF J, f
<1> QED
  BY <1>3, <1>5, FS_Injection

(* As long as nobody flushes, the Waiting count of a status is the number  *)
(* of queued jobs that were never started, less one for the job executeJob *)
(* has in hand and one for every fork() that failed and was tried again,   *)
(* wherever SIGCHLD comes: for every policy (scheduler.cpp:101,128,181;    *)
(* ipc_communication.cpp:100).                                             *)
THEOREM WaitingCounts ==
  ASSUME "flush" \notin Requests PROVE Spec => []WaitingCounter
<1>1. Init => WaitingCounted
  <2> SUFFICES ASSUME Init PROVE WaitingCounted
    OBVIOUS
  <2>1. Unstarted = {}
    BY DEF Init, Unstarted, JobsIn, JobsInLevels
  <2>2. Cardinality(Unstarted) = 0
    BY <2>1, FS_EmptySet
  <2> QED
    BY <2>2 DEF Init, WaitingCounted, Retried, CountedEarly
<1>2. IInv /\ EntriesInv /\ StartInv /\ HandNotEmpty /\ WaitingCounted /\ [Next]_vars => WaitingCounted'
  BY WaitingStep
<1>3. IInv /\ EntriesInv /\ StartInv /\ HandNotEmpty /\ WaitingCounted => WaitingCounter
  <2> SUFFICES ASSUME IInv, EntriesInv, StartInv, HandNotEmpty, WaitingCounted, BeforeSigint, pc \notin Halted
      PROVE  num_waiting_processes = Cardinality(NewQueued) - Retried
               - (IF pc \in {"exec_fork", "exec_push"} THEN 1 ELSE 0)
    BY DEF WaitingCounter, NewQueued, Retried
  <2>1. Cardinality(NewQueued) = Cardinality(Unstarted) + (IF pc = "exec_push" THEN 1 ELSE 0)
    BY QueuedCount DEF IInv
  <2>2. num_waiting_processes = Cardinality(Unstarted) - Retried - CountedEarly
    BY DEF WaitingCounted
  <2>3. Cardinality(Unstarted) \in Nat /\ Retried \in Int
    BY UnstartedFinite, SchedulerAssumption DEF IInv, Retried, TypeOK
  <2> QED
    BY <2>1, <2>2, <2>3 DEF CountedEarly
<1> QED
  BY <1>1, <1>2, <1>3, HandAlways, PTL DEF Spec
=============================================================================
