----------------------- MODULE PQServerLifecycleProofs ----------------------
(***************************************************************************)
(* Every step of the server, for every policy, is a step of JobLifecycle   *)
(* or leaves the stages of all jobs alone.                                 *)
(***************************************************************************)
EXTENDS PQServerShutdownProofs

(* The stage of a job, told by who was started instead of by the pids.     *)
QueueJobs == JobsIn(waiting) \cup JobsInLevels

StageAt(j) ==
  IF j \in ActiveJobs THEN "active"
  ELSE IF j \in Held \/ j \in QueueJobs \cap ToSet(starts) THEN "parked"
  ELSE IF j \in QueueJobs THEN "queued"
  ELSE IF j \in ToSet(arrivals) THEN "gone" ELSE "new"

(* A job that was resumed, and whose entry ^C leaves in waiting for the    *)
(* moment, has a pid.                                                      *)
HandResumed ==
  Thread = "rrobin_push" /\ pc \in {"rrobin_push", "flush", "flush_pop"} /\ waiting # <<>>
    => Head(waiting).pid # NoPid

(* What a step does to the stages.                                         *)
Stutters == \A i \in Jobs : StageAt(i)' = StageAt(i)
Moves(j, from, to) ==
  /\ j \in Jobs
  /\ \A i \in Jobs \ {j} : StageAt(i)' = StageAt(i)
  /\ StageAt(j) \in from /\ StageAt(j)' = to
-----------------------------------------------------------------------------
LEMMA StageIs ==
  ASSUME TypeOK, StartInv, SignalInv
  PROVE  Stage = [j \in Jobs |-> StageAt(j)]
<1> DEFINE In(s) == {s[k] : k \in DOMAIN s}
           Parked == {e.job : e \in {q \in Queued : q.pid # NoPid}}
<1>1. \A e \in Queued : e \in In(waiting) \/ \E l \in 0..NumLevels-1 : e \in In(levels[l])
  BY DEF Queued, TypeOK
<1>2. /\ \A e \in In(waiting) : e \in Queued /\ e.job \in JobsIn(waiting)
      /\ \A l \in 0..NumLevels-1 : \A e \in In(levels[l]) :
           e \in Queued /\ e.job \in JobsIn(levels[l])
  BY DEF Queued, TypeOK, JobsIn
<1>3. \A i \in QueueJobs : \E e \in Queued : e.job = i
  BY DEF QueueJobs, JobsInLevels, JobsIn, Queued, TypeOK
<1>4. \A e \in Queued : e.job \in QueueJobs
  BY <1>1, <1>2 DEF QueueJobs, JobsInLevels
<1>5. \A e \in Queued : e \in Known \/ (Thread = "exec_push" /\ e \in In(waiting))
  <2>1. \A l \in 0..NumLevels-1 : \A e \in In(levels[l]) : e \in Known
    BY ElementOfSeq, LenProperties DEF StartInv, PidsKnown
  <2>2. Thread # "exec_push" => \A e \in In(waiting) : e \in Known
    BY ElementOfSeq, LenProperties DEF StartInv, PidsKnown
  <2> QED
    BY <1>1, <2>1, <2>2
(* The entry that executeJob has not pushed yet is at the front.           *)
<1>6. ASSUME NEW e \in Queued, e \notin Known
      PROVE  /\ e.pid = NoPid /\ e.job \in ActiveJobs
  <2>1. Thread = "exec_push" /\ e \in In(waiting)
    BY <1>5, <1>6
  <2>2. e.job = Last(starts) /\ e.pid = NoPid
    BY <1>6, <2>1 DEF SignalInv, PidsHeld, NotPushed
  <2>3. waiting \in Seq(Process) /\ waiting # <<>>
    BY <2>1 DEF TypeOK
  <2>4. Tail(waiting) \in Seq(Known)
    BY <2>1, <2>3 DEF StartInv, PidsKnown
  <2>5. In(Tail(waiting)) = {waiting[k] : k \in DOMAIN waiting \ {1}}
    BY <2>3, TailJobs
  <2>6. \A d \in In(Tail(waiting)) : d \in Known
    BY <2>4, ElementOfSeq, LenProperties
  <2>7. e = waiting[1]
    BY <1>6, <2>1, <2>5, <2>6
  <2>8. Head(waiting) = e
    BY <2>3, <2>7, HeadTailProperties
  <2> QED
    BY <2>1, <2>2, <2>3, <2>8 DEF ActiveJobs, Pushed, AtFront
<1>7. \A e \in Known : e.pid # NoPid <=> e.job \in ToSet(starts)
  BY KnownChanges DEF Known
<1>8. \A i \in QueueJobs \ ActiveJobs : i \in Parked <=> i \in ToSet(starts)
  <2> TAKE i \in QueueJobs \ ActiveJobs
  <2>1. ASSUME i \in Parked PROVE i \in ToSet(starts)
    <3>1. PICK e \in Queued : e.pid # NoPid /\ e.job = i
      BY <2>1
    <3> QED
      BY <1>6, <1>7, <3>1
  <2>2. ASSUME i \in ToSet(starts) PROVE i \in Parked
    <3>1. PICK e \in Queued : e.job = i
      BY <1>3
    <3> QED
      BY <1>6, <1>7, <2>2, <3>1
  <2> QED
    BY <2>1, <2>2
<1>9. \A i \in Parked : i \in QueueJobs
  BY <1>4
<1>10. \A i \in QueueJobs \ ActiveJobs : i \notin Parked => i \in QueuedJobs
  BY <1>3 DEF QueuedJobs
<1>11. \A i \in QueuedJobs : i \in QueueJobs
  BY <1>4 DEF QueuedJobs
<1>12. ParkedJobs = Held \cup Parked
  BY DEF ParkedJobs
<1> HIDE DEF Parked
<1>13. \A j \in Jobs : Stage[j] = StageAt(j)
  BY <1>8, <1>9, <1>10, <1>11, <1>12 DEF Stage, StageAt
<1> QED
  BY <1>13 DEF Stage

LEMMA MovesStage ==
  ASSUME Stage = [j \in Jobs |-> StageAt(j)], Stage' = [j \in Jobs |-> StageAt(j)'],
         NEW j, NEW from, NEW to, Moves(j, from, to)
  PROVE  Lifecycle!Move(j, from, to)
<1>1. Stage[j] \in from /\ j \in Jobs
  BY DEF Moves
<1>2. Stage' = [Stage EXCEPT ![j] = to]
  BY DEF Moves
<1> QED
  BY <1>1, <1>2 DEF Lifecycle!Move

LEMMA StuttersStage ==
  ASSUME Stage = [j \in Jobs |-> StageAt(j)], Stage' = [j \in Jobs |-> StageAt(j)'], Stutters
  PROVE  UNCHANGED Stage
  BY DEF Stutters
-----------------------------------------------------------------------------
(* The positions of the thread at which an entry is between two tables.    *)
Carrying == {"exec_push", "rrobin_push", "mlfq_push", "rrobin_requeue", "mlfq_pop", "mlfq_requeue"}

LEMMA NothingCarried == Thread \notin Carrying => Pushed = {} /\ Held = {}
  BY DEF Carrying, Pushed, Held, AtFront

LEMMA SamePlaces ==
  ASSUME JobsIn(running)' = JobsIn(running), QueueJobs' = QueueJobs,
         UNCHANGED <<arrivals, starts>>, Pushed' = Pushed, Held' = Held
  PROVE  Stutters
  BY DEF Stutters, StageAt, ActiveJobs

LEMMA TablesNext ==
  /\ JobsIn(waiting)' = JobsIn(waiting') /\ JobsIn(running)' = JobsIn(running')
  /\ UNCHANGED levels => JobsInLevels' = JobsInLevels
  BY DEF JobsIn, JobsInLevels

LEMMA TablesKept ==
  ASSUME UNCHANGED tableVars
  PROVE  JobsIn(running)' = JobsIn(running) /\ QueueJobs' = QueueJobs
  BY DEF tableVars, JobsIn, QueueJobs, JobsInLevels

(* An entry leaves running.                                                *)
LEMMA LeavesRunning ==
  ASSUME EntriesInv, NEW j \in Jobs, j \in JobsIn(running), JobsIn(running)' = JobsIn(running) \ {j},
         QueueJobs' = QueueJobs, UNCHANGED <<arrivals, starts>>, Pushed' = Pushed, Held' = Held
  PROVE  Stutters \/ Moves(j, {"queued", "active", "parked"}, "gone")
<1>1. j \in ToSet(arrivals) /\ j \notin QueueJobs
  BY DEF EntriesInv, KnownJobs, TabledJobs, Apart, QueueJobs, JobsInLevels
<1>2. CASE j \in Held \cup Pushed
  <2>1. ActiveJobs' = ActiveJobs
    BY <1>2 DEF ActiveJobs
  <2> QED
    BY <2>1 DEF Stutters, StageAt
<1>3. CASE j \notin Held \cup Pushed
  <2>1. ActiveJobs' = ActiveJobs \ {j} /\ j \in ActiveJobs
    BY <1>3 DEF ActiveJobs
  <2> QED
    BY <1>1, <1>3, <2>1 DEF Moves, StageAt
<1> QED
  BY <1>2, <1>3

(* An entry leaves the queue for good.                                     *)
LEMMA LeavesQueue ==
  ASSUME EntriesInv, NEW j \in Jobs, j \in QueueJobs, QueueJobs' = QueueJobs \ {j},
         JobsIn(running)' = JobsIn(running), UNCHANGED <<arrivals, starts>>,
         Pushed' = Pushed \ {j}, Held' = Held, j \notin Held
  PROVE  Moves(j, {"queued", "active", "parked"}, "gone")
<1>1. j \in ToSet(arrivals) /\ j \notin JobsIn(running)
  BY DEF EntriesInv, KnownJobs, TabledJobs, Apart, QueueJobs, JobsInLevels
<1>2. j \notin ActiveJobs' /\ \A i \in Jobs \ {j} : i \in ActiveJobs' <=> i \in ActiveJobs
  BY <1>1 DEF ActiveJobs
<1>3. StageAt(j)' = "gone" /\ StageAt(j) \in {"queued", "active", "parked"}
  BY <1>1, <1>2 DEF StageAt
<1>4. \A i \in Jobs \ {j} : StageAt(i)' = StageAt(i)
  BY <1>2 DEF StageAt
<1> QED
  BY <1>3, <1>4 DEF Moves

LEMMA PoppedJob ==
  ASSUME NEW s \in Seq(Process), s # <<>>, DistinctJobs(s)
  PROVE  /\ JobsIn(Tail(s)) = JobsIn(s) \ {Head(s).job}
         /\ Head(s).job \in JobsIn(s) /\ Head(s).job \in Jobs
<1>1. /\ JobsIn(Tail(s)) = JobsBehind(s) /\ JobsIn(s) = {Head(s).job} \cup JobsBehind(s)
      /\ Head(s).job \notin JobsBehind(s)
  BY TailJobs
<1>2. Head(s) \in Process
  BY HeadTailOf
<1> QED
  BY <1>1, <1>2 DEF Process

LEMMA RemovedJob ==
  ASSUME NEW s \in Seq(Process), NEW k \in DOMAIN s, DistinctJobs(s)
  PROVE  /\ JobsIn(RemoveAt(s, k)) = JobsIn(s) \ {s[k].job}
         /\ s[k].job \in JobsIn(s) /\ s[k].job \in Jobs
<1> DEFINE t == RemoveAt(s, k)
           Left == {t[a] : a \in DOMAIN t}
<1>1. Left = {s[a] : a \in DOMAIN s \ {k}}
  BY RemoveAtJobs
<1>2. JobsIn(t) = {e.job : e \in Left}
  BY DEF JobsIn
<1>3. \A a \in DOMAIN s : a # k => s[a].job # s[k].job
  BY DEF DistinctJobs
<1> HIDE DEF Left, t
<1>4. {e.job : e \in Left} = {s[a].job : a \in DOMAIN s \ {k}}
  BY <1>1
<1>5. {s[a].job : a \in DOMAIN s \ {k}} = JobsIn(s) \ {s[k].job}
  BY <1>3 DEF JobsIn
<1>6. s[k] \in Process
  BY ElementOfSeq, LenProperties
<1> QED
  BY <1>2, <1>4, <1>5, <1>6 DEF t, JobsIn, Process
-----------------------------------------------------------------------------
Room == Cardinality({j \in Jobs : StageAt(j) = "active"}) < NCPUS

Lives ==
  \/ Stutters
  \/ \E j \in Jobs :
       \/ Moves(j, {"new"}, "queued")
       \/ Moves(j, {"queued"}, "active") /\ Room
       \/ Moves(j, {"active"}, "parked") /\ Policy # "fifo"
       \/ Moves(j, {"parked"}, "active") /\ Room
       \/ Moves(j, {"queued", "active", "parked"}, "gone")

ForkedInHand == Thread = "exec_push" => starts # <<>>

(* What the thread holds does not depend on who interrupts it.             *)
LEMMA HandsKept ==
  ASSUME UNCHANGED <<Thread, waiting, copy, starts>>,
         Thread = "rrobin_push" => (pc = "flush_queue" <=> pc' = "flush_queue")
  PROVE  Pushed' = Pushed /\ Held' = Held
<1>1. AtFront' = AtFront
  BY DEF AtFront
<1> QED
  BY <1>1 DEF Pushed, Held

LEMMA BystandersStutter ==
  ASSUME TypeOK,
         \/ SigchldEnter \/ SigchldReturn \/ Types \/ SigintEnter
         \/ FlushReturn /\ interrupted # "none"
         \/ \E j \in Jobs : Ends(j) \/ Computes(j)
  PROVE  Stutters
<1> USE DEF tableVars, histVars, locals, loopVars
<1>1. UNCHANGED <<waiting, running, levels, copy, arrivals, starts>>
  BY DEF SigchldEnter, SigchldReturn, Types, SigintEnter, FlushReturn, Ends, Computes
<1>2. /\ Thread' = Thread
      /\ Thread = "rrobin_push" => (pc = "flush_queue" <=> pc' = "flush_queue")
  <2>1. CASE SigintEnter
    BY <2>1 DEF SigintEnter, Thread, TypeOK, Locations, Halted
  <2>2. CASE FlushReturn /\ interrupted # "none"
    BY <2>2 DEF FlushReturn, Thread, At
  <2>3. CASE SigchldEnter \/ SigchldReturn \/ Types \/ \E j \in Jobs : Ends(j) \/ Computes(j)
    BY <2>3 DEF SigchldEnter, SigchldReturn, Types, Ends, Computes, Thread
  <2> QED
    BY <2>1, <2>2, <2>3
<1> QED
  BY <1>1, <1>2, HandsKept, TablesKept, SamePlaces

LEMMA ReapLives ==
  ASSUME TypeOK, EntriesInv, NEW i \in Jobs, SigchldReap(i)
  PROVE  Lives
<1> USE DEF histVars, locals, loopVars
<1>t. running \in Seq(Process) /\ DistinctJobs(running)
  BY DEF TypeOK, EntriesInv, Apart
<1>1. UNCHANGED <<waiting, levels, copy, arrivals, starts, pc, Thread>>
  BY DEF SigchldReap, Thread
<1>2. Pushed' = Pushed /\ Held' = Held /\ QueueJobs' = QueueJobs
  BY <1>1, HandsKept DEF QueueJobs, JobsIn, JobsInLevels
<1>3. CASE UNCHANGED running
  <2>1. JobsIn(running)' = JobsIn(running)
    BY <1>3 DEF JobsIn
  <2> QED
    BY <1>1, <1>2, <2>1, SamePlaces DEF Lives
<1>4. ASSUME NEW k \in DOMAIN running, running' = RemoveAt(running, k) PROVE Lives
  <2>1. PICK j \in JobsIn(running) : JobsIn(running') = JobsIn(running) \ {j} /\ j \in Jobs
    BY <1>t, <1>4, RemovedJob
  <2>2. JobsIn(running)' = JobsIn(running) \ {j}
    BY <2>1 DEF JobsIn
  <2>3. Stutters \/ Moves(j, {"queued", "active", "parked"}, "gone")
    BY <1>1, <1>2, <2>1, <2>2, LeavesRunning
  <2> QED
    BY <2>1, <2>3 DEF Lives
<1> QED
  BY <1>3, <1>4 DEF SigchldReap, RemoveProcess
-----------------------------------------------------------------------------
(* flush_jobs, called by a client or by sigint_handler, takes entries away,*)
(* and the entry of a job that was resumed goes back to being queued.      *)
LEMMA FlushKillLives ==
  ASSUME TypeOK, EntriesInv, StartInv, HandResumed, FlushKill, UNCHANGED interrupted
  PROVE  Lives
<1> USE DEF tableVars, histVars, locals, At
<1>1. UNCHANGED <<waiting, running, levels, copy, arrivals, starts>> /\ pc = "flush"
      /\ pc' \in {"flush_pop", "flush_queue", "group_killed"}
  BY DEF FlushKill, TerminateProcess
<1>2. JobsIn(running)' = JobsIn(running) /\ QueueJobs' = QueueJobs
  BY <1>1, TablesKept
<1>3. Thread' = Thread \/ (Thread \notin Carrying /\ Thread' \notin Carrying)
  BY <1>1 DEF Thread, Carrying
<1>4. CASE ~(Thread = "rrobin_push" /\ pc' = "flush_queue" /\ waiting # <<>>)
  <2>1. Pushed' = Pushed /\ Held' = Held
    <3>1. CASE Thread \notin Carrying /\ Thread' \notin Carrying
      <4>1. Pushed' = {} /\ Held' = {}
        BY <3>1 DEF Carrying, Pushed, Held, AtFront
      <4> QED
        BY <3>1, <4>1, NothingCarried
    <3>2. CASE Thread' = Thread
      <4>1. AtFront' = AtFront
        BY <1>1, <1>4, <3>2 DEF AtFront
      <4> QED
        BY <1>1, <3>2, <4>1 DEF Pushed, Held
    <3> QED
      BY <1>3, <3>1, <3>2
  <2> QED
    BY <1>1, <1>2, <2>1, SamePlaces DEF Lives
<1>5. CASE Thread = "rrobin_push" /\ pc' = "flush_queue" /\ waiting # <<>>
  <2>j. PICK j : j = Head(waiting).job
    OBVIOUS
  <2>1. Thread' = Thread /\ Policy # "fifo"
    BY <1>3, <1>5 DEF Carrying, StartInv, ThreadOfPolicy
  <2>2. j \in ToSet(starts)
    <3>1. Head(waiting).pid # NoPid
      BY <1>1, <1>5 DEF HandResumed
    <3>2. Head(waiting) \in Known
      BY <1>5, HeadTailOf DEF StartInv, PidsKnown
    <3> QED
      BY <2>j, <3>1, <3>2, KnownChanges DEF Known
  <2>3. j \in JobsIn(waiting) /\ j \in Jobs
    BY <1>5, <2>j, PoppedJob DEF TypeOK, EntriesInv, Apart
  <2>4. j \in QueueJobs /\ j \notin JobsIn(running)
    BY <2>3 DEF QueueJobs, EntriesInv, Apart
  <2>5. Pushed = {j} /\ Held = {}
    BY <1>1, <1>5, <2>j DEF Pushed, AtFront, Held
  <2>6. Pushed' = {} /\ Held' = {}
    BY <1>5, <2>1 DEF Pushed, AtFront, Held
  <2>7. j \in ActiveJobs /\ j \notin ActiveJobs' /\ \A i \in Jobs \ {j} : i \in ActiveJobs' <=> i \in ActiveJobs
    BY <1>2, <2>4, <2>5, <2>6 DEF ActiveJobs
  <2>8. StageAt(j) = "active" /\ StageAt(j)' = "parked"
    BY <1>1, <1>2, <2>2, <2>4, <2>7 DEF StageAt
  <2>9. \A i \in Jobs \ {j} : StageAt(i)' = StageAt(i)
    BY <1>1, <1>2, <2>5, <2>6, <2>7 DEF StageAt
  <2>10. Moves(j, {"active"}, "parked")
    BY <2>3, <2>8, <2>9 DEF Moves
  <2> QED
    BY <2>1, <2>3, <2>10 DEF Lives
<1> QED
  BY <1>4, <1>5

LEMMA FlushPopLives ==
  ASSUME TypeOK, EntriesInv, FlushPop, UNCHANGED interrupted
  PROVE  Lives
<1> USE DEF tableVars, histVars, locals, At
<1>t. running \in Seq(Process) /\ DistinctJobs(running)
  BY DEF TypeOK, EntriesInv, Apart
<1>1. UNCHANGED <<waiting, levels, copy, arrivals, starts>> /\ pc = "flush_pop"
      /\ pc' \in {"flush", "undefined"}
  BY DEF FlushPop
<1>2. QueueJobs' = QueueJobs
  BY <1>1 DEF QueueJobs, JobsIn, JobsInLevels
<1>3. Pushed' = Pushed /\ Held' = Held
  <2>1. CASE interrupted = "none"
    <3>1. Thread \notin Carrying /\ Thread' \notin Carrying
      BY <1>1, <2>1 DEF Thread, Carrying
    <3>2. Pushed' = {} /\ Held' = {}
      BY <3>1 DEF Carrying, Pushed, Held, AtFront
    <3> QED
      BY <3>1, <3>2, NothingCarried
  <2>2. CASE interrupted # "none"
    <3>1. Thread' = Thread
      BY <2>2 DEF Thread
    <3> QED
      BY <1>1, <3>1, HandsKept
  <2> QED
    BY <2>1, <2>2
<1>4. CASE running = <<>>
  <2>1. JobsIn(running)' = JobsIn(running)
    BY <1>4 DEF FlushPop, JobsIn
  <2> QED
    BY <1>1, <1>2, <1>3, <2>1, SamePlaces DEF Lives
<1>5. CASE running # <<>>
  <2>1. PICK j \in JobsIn(running) : JobsIn(Tail(running)) = JobsIn(running) \ {j} /\ j \in Jobs
    BY <1>t, <1>5, PoppedJob
  <2>2. JobsIn(running)' = JobsIn(running) \ {j}
    BY <1>5, <2>1 DEF FlushPop, JobsIn
  <2> QED
    BY <1>1, <1>2, <1>3, <2>1, <2>2, LeavesRunning DEF Lives
<1> QED
  BY <1>4, <1>5

LEMMA FlushQueueLives ==
  ASSUME TypeOK, EntriesInv, StartInv, SignalInv, ForkedInHand, FlushQueue, UNCHANGED interrupted
  PROVE  Lives
<1> USE DEF tableVars, histVars, locals, At
<1>t. /\ waiting \in Seq(Process) /\ DistinctJobs(waiting)
      /\ \A l \in 0..NumLevels-1 : levels[l] \in Seq(Process) /\ DistinctJobs(levels[l])
  BY DEF TypeOK, EntriesInv, Apart
<1>1. UNCHANGED <<running, copy, arrivals, starts>> /\ pc = "flush_queue"
      /\ pc' \in {"flush_queue", "flushed"}
  BY DEF FlushQueue, FlushEntry, QueueFlushed
<1>2. JobsIn(running)' = JobsIn(running)
  BY <1>1 DEF JobsIn
<1>3. Thread' = Thread \/ (Thread \notin Carrying /\ Thread' \notin Carrying)
  BY <1>1 DEF Thread, Carrying
<1>h. Held' = Held
  BY <1>1, <1>3 DEF Held, Carrying
<1>4. CASE waiting # <<>> /\ waiting' = Tail(waiting) /\ UNCHANGED <<levels, pc>>
  <2>j. PICK j : j = Head(waiting).job
    OBVIOUS
  <2>1. JobsIn(Tail(waiting)) = JobsIn(waiting) \ {j} /\ j \in JobsIn(waiting) /\ j \in Jobs
    BY <1>t, <1>4, <2>j, PoppedJob
  <2>2. j \in QueueJobs /\ QueueJobs' = QueueJobs \ {j}
    <3>1. JobsIn(waiting)' = JobsIn(waiting) \ {j} /\ JobsInLevels' = JobsInLevels
      <4>1. JobsIn(waiting') = JobsIn(waiting) \ {j}
        BY <1>4, <2>1
      <4>2. JobsInLevels' = JobsInLevels
        BY <1>4 DEF JobsInLevels, JobsIn
      <4> QED
        BY <4>1, <4>2 DEF JobsIn
    <3>2. j \notin JobsInLevels
      BY <2>1 DEF JobsInLevels, EntriesInv, Apart
    <3> QED
      BY <2>1, <3>1, <3>2 DEF QueueJobs
  <2>3. j \notin Held /\ (Thread = "mlfq_push" => j # copy.job)
    BY <2>1 DEF Held, EntriesInv, CopyApart, TabledJobs
  <2>4. Thread' = Thread
    BY <1>4 DEF Thread
  <2>5. Thread = "exec_push" => ~AtFront'
    <3> SUFFICES ASSUME Thread = "exec_push", AtFront' PROVE FALSE
      OBVIOUS
    <3> DEFINE t == Tail(waiting)
    <3>1. t # <<>> /\ Head(t).job = Last(starts)
      BY <1>1, <1>4, <2>4 DEF AtFront
    <3>2. t \in Seq(Known) /\ t \in Seq(Process)
      BY <1>t, <1>4, HeadTailOf DEF StartInv, PidsKnown
    <3> HIDE DEF t
    <3>3. Head(t) = t[1] /\ 1 \in DOMAIN t /\ Head(t) \in Known
      BY <3>1, <3>2, HeadTailOf, TailFacts
    <3>4. PICK k \in DOMAIN waiting : waiting[k] = Head(t)
      <4>1. {t[a] : a \in DOMAIN t} = {waiting[k] : k \in DOMAIN waiting \ {1}}
        BY <1>t, <1>4, TailJobs DEF t
      <4> QED
        BY <3>3, <4>1
    <3>5. Head(t).pid = NoPid
      BY <3>1, <3>4 DEF SignalInv, PidsHeld, NotPushed
    <3>6. Last(starts) \in ToSet(starts)
      BY LastMember DEF ForkedInHand, TypeOK
    <3> QED
      BY <3>1, <3>3, <3>5, <3>6, KnownChanges DEF Known
  <2>6. Pushed' = Pushed \ {j}
    BY <1>1, <1>4, <2>j, <2>3, <2>4, <2>5 DEF Pushed, AtFront
  <2> QED
    BY <1>1, <1>2, <1>h, <2>1, <2>2, <2>3, <2>6, LeavesQueue DEF Lives
<1>5. ASSUME NEW l \in 0..NumLevels-1, levels[l] # <<>>, levels' = [levels EXCEPT ![l] = Tail(levels[l])],
             UNCHANGED <<waiting, pc>>
      PROVE  Lives
  <2>1. PICK j \in JobsIn(levels[l]) :
           JobsIn(Tail(levels[l])) = JobsIn(levels[l]) \ {j} /\ j \in Jobs
    BY <1>t, <1>5, PoppedJob
  <2>2. JobsInLevels' = JobsInLevels \ {j}
    <3>1. \A m \in 0..NumLevels-1 : m # l => JobsIn(levels[m]) \cap {j} = {}
      BY <2>1 DEF EntriesInv, Apart
    <3> QED
      BY <1>5, <2>1, <3>1, LevelReplaced
  <2>3. j \in JobsInLevels /\ j \notin JobsIn(waiting)
    BY <2>1 DEF JobsInLevels, EntriesInv, Apart
  <2>4. j \in QueueJobs /\ QueueJobs' = QueueJobs \ {j}
    BY <1>5, <2>2, <2>3 DEF QueueJobs, JobsIn
  <2>5. Thread' = Thread
    BY <1>5 DEF Thread
  <2>6. j \notin Held /\ j \notin Pushed
    <3>1. AtFront => Head(waiting).job \in JobsIn(waiting)
      BY <1>t, PoppedJob DEF AtFront
    <3> QED
      BY <2>3, <3>1 DEF Held, Pushed, EntriesInv, CopyApart, TabledJobs
  <2>7. Pushed' = Pushed
    BY <1>1, <1>5, <2>5, HandsKept
  <2> QED
    BY <1>1, <1>2, <1>h, <2>1, <2>4, <2>6, <2>7, LeavesQueue DEF Lives
<1>6. CASE QueueFlushed /\ (waiting # <<>> => Policy = "mlfq")
  <2>1. Thread = "rrobin_push" => waiting = <<>>
    BY <1>6 DEF StartInv, ThreadOfPolicy
  <2>2. Pushed' = Pushed
    <3>1. CASE Thread' = Thread
      <4>1. AtFront' = AtFront
        BY <1>1, <1>6, <2>1, <3>1 DEF AtFront, QueueFlushed
      <4> QED
        BY <1>1, <3>1, <1>6, <4>1 DEF Pushed, QueueFlushed
    <3>2. CASE Thread \notin Carrying /\ Thread' \notin Carrying
      BY <3>2 DEF Carrying, Pushed, AtFront
    <3> QED
      BY <1>3, <3>1, <3>2
  <2>3. QueueJobs' = QueueJobs
    BY <1>6 DEF QueueFlushed, QueueJobs, JobsIn, JobsInLevels
  <2> QED
    BY <1>1, <1>2, <1>h, <2>2, <2>3, SamePlaces DEF Lives
<1> QED
  BY <1>4, <1>5, <1>6 DEF FlushQueue, FlushEntry, QueueIsLevels
-----------------------------------------------------------------------------
(* The steps of the thread, when nobody interrupts it: what a step with    *)
(* given effects on the tables and the hands does to the stages.           *)
LEMMA FreeRoom ==
  ASSUME TypeOK, SchedulerAssumption, Thread \notin Carrying, HasFreeCPU
  PROVE  Room
<1> DEFINE Act == {j \in Jobs : StageAt(j) = "active"}
<1>1. Act \subseteq JobsIn(running)
  BY NothingCarried DEF StageAt, ActiveJobs
<1>2. /\ IsFiniteSet(JobsIn(running)) /\ Cardinality(JobsIn(running)) \in Nat
      /\ Cardinality(JobsIn(running)) <= Len(running) /\ Len(running) \in Nat
  BY JobsCounted, LenProperties DEF TypeOK
<1> HIDE DEF Act
<1>3. Cardinality(Act) \in Nat /\ Cardinality(Act) <= Cardinality(JobsIn(running))
  BY <1>1, <1>2, FewerOnCPUs
<1>4. Len(running) < NCPUS /\ NCPUS \in Nat
  BY SchedulerAssumption DEF HasFreeCPU
<1>5. Cardinality(Act) < NCPUS
  BY <1>2, <1>3, <1>4
<1> QED
  BY <1>5 DEF Act, Room

LEMMA EmptyHands ==
  ASSUME Thread \notin Carrying, Thread' \notin Carrying, JobsIn(running)' = JobsIn(running),
         QueueJobs' = QueueJobs, UNCHANGED <<arrivals, starts>>
  PROVE  Stutters
<1>1. Pushed' = {} /\ Held' = {}
  BY DEF Carrying, Pushed, Held, AtFront
<1> QED
  BY <1>1, NothingCarried, SamePlaces

(* A job of the queue is forked or resumed, or was.                        *)
LEMMA Activates ==
  ASSUME EntriesInv, NEW j \in Jobs, j \in QueueJobs, Thread \notin Carrying,
         Pushed' = {j}, Held' = {}, JobsIn(running)' = JobsIn(running),
         \A i \in Jobs \ {j} : (i \in QueueJobs' <=> i \in QueueJobs)
                               /\ (i \in ToSet(starts)' <=> i \in ToSet(starts)),
         UNCHANGED arrivals
  PROVE  Moves(j, {"queued"}, "active") \/ Moves(j, {"parked"}, "active")
<1>1. Pushed = {} /\ Held = {} /\ j \notin JobsIn(running)
  BY NothingCarried DEF EntriesInv, Apart, QueueJobs, JobsInLevels
<1>2. StageAt(j) \in {"queued", "parked"} /\ StageAt(j)' = "active"
  BY <1>1 DEF StageAt, ActiveJobs
<1>3. \A i \in Jobs \ {j} : StageAt(i)' = StageAt(i)
  BY <1>1 DEF StageAt, ActiveJobs
<1> QED
  BY <1>2, <1>3 DEF Moves

(* Its entry is pushed to running.                                         *)
LEMMA PushedInto ==
  ASSUME NEW j, Pushed = {j}, Held = {}, Pushed' = {}, Held' = {},
         JobsIn(running)' = JobsIn(running) \cup {j},
         QueueJobs' \cup {j} = QueueJobs \cup {j}, UNCHANGED <<arrivals, starts>>
  PROVE  Stutters
<1>1. ActiveJobs' = ActiveJobs /\ j \in ActiveJobs
  BY DEF ActiveJobs
<1> QED
  BY <1>1 DEF Stutters, StageAt

(* The job of an entry of running is about to be stopped.                  *)
LEMMA Parks ==
  ASSUME NEW j \in Jobs, j \in JobsIn(running), Thread \notin Carrying, Pushed' = {}, Held' = {j},
         JobsIn(running)' = JobsIn(running), QueueJobs' = QueueJobs, UNCHANGED <<arrivals, starts>>
  PROVE  Moves(j, {"active"}, "parked")
<1>1. Pushed = {} /\ Held = {}
  BY NothingCarried
<1> QED
  BY <1>1 DEF Moves, StageAt, ActiveJobs

(* The copy of its entry is queued ...                                     *)
LEMMA Requeues ==
  ASSUME NEW j, Held = {j}, Pushed = {}, Held' = {}, Pushed' = {}, j \in ToSet(starts),
         QueueJobs' = QueueJobs \cup {j},
         JobsIn(running)' = JobsIn(running) \ {j}, UNCHANGED <<arrivals, starts>>
  PROVE  Stutters
<1>1. ActiveJobs' = ActiveJobs /\ j \notin ActiveJobs
  BY DEF ActiveJobs
<1> QED
  BY <1>1 DEF Stutters, StageAt

(* ... or is lost.                                                         *)
LEMMA Drops ==
  ASSUME NEW j \in Jobs, Held = {j}, Pushed = {}, Held' = {}, Pushed' = {}, j \notin QueueJobs,
         j \notin JobsIn(running), j \in ToSet(arrivals), JobsIn(running)' = JobsIn(running),
         QueueJobs' = QueueJobs, UNCHANGED <<arrivals, starts>>
  PROVE  Moves(j, {"queued", "active", "parked"}, "gone")
  BY DEF Moves, StageAt, ActiveJobs
-----------------------------------------------------------------------------
(* The steps of the main loop, of run() and of the runners that move no    *)
(* entry, or only within the queue.                                        *)
LEMMA LoopStutters ==
  ASSUME TypeOK, LocalsOK, interrupted = "none", interrupted' = "none",
         \/ Poll \/ PollStdin \/ FlushRequest \/ FlushReturn \/ StatusCounts \/ StatusLists \/ Query
         \/ StatRead \/ StatOpen \/ StatScan \/ FifoRunner \/ MlfqBoostDue \/ MlfqBoost \/ MlfqAdmit
  PROVE  Stutters
<1> USE SchedulerAssumption
<1> USE DEF At, tableVars, histVars
<1>0. Thread = pc /\ Thread' = pc' /\ LocalsHere
  BY LocalsAtPc DEF Thread
<1>1. ASSUME UNCHANGED <<tableVars, arrivals, starts>>, pc \notin Carrying, pc' \notin Carrying
      PROVE  Stutters
  <2>1. JobsIn(running)' = JobsIn(running) /\ QueueJobs' = QueueJobs
    BY <1>1, TablesKept
  <2> QED
    BY <1>0, <1>1, <2>1, EmptyHands
<1>2. CASE Poll \/ PollStdin \/ FlushRequest \/ FlushReturn \/ StatusCounts \/ StatusLists \/ Query
  <2>1. pc \notin Carrying /\ pc' \notin Carrying /\ UNCHANGED <<tableVars, arrivals, starts>>
    BY <1>2 DEF Poll, PollStdin, FlushRequest, FlushReturn, StatusCounts, StatusLists, Query,
       AfterAccept, Carrying
  <2> QED
    BY <1>1, <2>1
<1>3. CASE StatRead \/ StatOpen \/ FifoRunner \/ MlfqBoostDue
  <2>1. pc \notin Carrying /\ pc' \notin Carrying /\ UNCHANGED <<tableVars, arrivals, starts>>
    BY <1>3 DEF StatRead, StatOpen, FifoRunner, ExecuteJob, MlfqBoostDue, Carrying
  <2> QED
    BY <1>1, <2>1
<1>4. CASE StatScan
  <2>1. pc \notin Carrying /\ pc' \notin Carrying /\ UNCHANGED <<waiting, levels, arrivals, starts>>
    BY <1>4 DEF StatScan, Carrying
  <2>2. JobsIn(running)' = JobsIn(running) /\ QueueJobs' = QueueJobs
    <3>1. JobsIn(running') = JobsIn(running)
      BY <1>4, ScannedJobs
    <3> QED
      BY <2>1, <3>1, TablesNext DEF QueueJobs
  <2> QED
    BY <1>0, <2>1, <2>2, EmptyHands
<1>5. CASE MlfqBoost \/ MlfqAdmit
  <2>1. pc \notin Carrying /\ pc' \notin Carrying /\ UNCHANGED <<running, arrivals, starts>>
    BY <1>5 DEF MlfqBoost, MlfqAdmit, Carrying
  <2>2. JobsIn(running)' = JobsIn(running) /\ QueueJobs' = QueueJobs
    BY <1>0, <1>5, <2>1, QueueKept DEF QueueJobs, JobsIn
  <2> QED
    BY <1>0, <2>1, <2>2, EmptyHands
<1> QED
  BY <1>2, <1>3, <1>4, <1>5

(* pushJob.                                                                *)
LEMMA AddLives ==
  ASSUME TypeOK, EntriesInv, interrupted = "none", interrupted' = "none", AddJob
  PROVE  Lives
<1>1. PICK j \in Jobs \ ToSet(arrivals) :
        waiting' = <<NewProcess(j)>> \o waiting /\ arrivals' = Append(arrivals, j)
  BY DEF AddJob
<1>2. Thread \notin Carrying /\ Thread' \notin Carrying /\ UNCHANGED <<levels, running, starts>>
  BY DEF AddJob, AfterAccept, Thread, Carrying, At
<1>3. Pushed = {} /\ Held = {} /\ Pushed' = {} /\ Held' = {}
  BY <1>2 DEF Carrying, Pushed, Held, AtFront
<1>4. JobsIn(<<NewProcess(j)>> \o waiting) = {j} \cup JobsIn(waiting)
  <2>1. NewProcess(j) \in Process /\ NewProcess(j).job = j
    BY SchedulerAssumption, ChildrenAssumption DEF NewProcess, NoProcess, Process
  <2> QED
    BY <2>1, FrontJobs DEF TypeOK
<1>5. QueueJobs' = {j} \cup QueueJobs /\ JobsIn(running)' = JobsIn(running)
  BY <1>1, <1>2, <1>4, TablesNext DEF QueueJobs
<1>6. ToSet(arrivals)' = ToSet(arrivals) \cup {j} /\ ToSet(starts)' = ToSet(starts)
  <2>1. ToSet(Append(arrivals, j)) = ToSet(arrivals) \cup {j}
    BY ToSetAppend DEF TypeOK
  <2> QED
    BY <1>1, <1>2, <2>1 DEF ToSet
<1>7. j \notin JobsIn(running) /\ j \notin QueueJobs /\ j \notin ToSet(starts)
  BY <1>1 DEF EntriesInv, KnownJobs, TabledJobs, QueueJobs
<1>8. StageAt(j) = "new" /\ StageAt(j)' = "queued"
  BY <1>1, <1>3, <1>5, <1>6, <1>7 DEF StageAt, ActiveJobs
<1>9. \A i \in Jobs \ {j} : StageAt(i)' = StageAt(i)
  BY <1>3, <1>5, <1>6 DEF StageAt, ActiveJobs
<1>10. Moves(j, {"new"}, "queued")
  BY <1>8, <1>9 DEF Moves
<1> QED
  BY <1>10 DEF Lives

(* executeJob's fork().                                                    *)
LEMMA ForkLives ==
  ASSUME TypeOK, LocalsOK, EntriesInv, StartInv, interrupted = "none", interrupted' = "none",
         ExecuteJobFork
  PROVE  Lives
<1> USE SchedulerAssumption
<1>0. /\ Thread = pc /\ Thread' = pc' /\ LocalsHere /\ pc = "exec_fork" /\ UNCHANGED <<tableVars, arrivals>>
  BY LocalsAtPc DEF Thread, ExecuteJobFork, At
<1>1. JobsIn(running)' = JobsIn(running) /\ QueueJobs' = QueueJobs
  BY <1>0, TablesKept
<1>2. CASE UNCHANGED starts /\ pc' = CallersLoop
  <2>1. Stutters
    BY <1>0, <1>1, <1>2, EmptyHands DEF CallersLoop, Carrying
  <2> QED
    BY <2>1 DEF Lives
<1>3. CASE starts' = Append(starts, copy.job) /\ pc' = "exec_push"
  <2>j. PICK j : j = copy.job
    OBVIOUS
  <2>1. j \in Jobs /\ starts \in Seq(Jobs)
    BY <1>0, <2>j DEF LocalsHere, CopyHeld, Process, TypeOK
  <2>2. ToSet(starts)' = ToSet(starts) \cup {j} /\ Last(starts') = j
    <3>1. ToSet(starts') = ToSet(starts) \cup {j} /\ Last(starts') = j
      BY <1>3, <2>j, <2>1, ToSetAppend, LastAppended
    <3> QED
      BY <3>1 DEF ToSet
  <2>3. Held = {} /\ Held' = {} /\ Pushed = {} /\ waiting' = waiting
    BY <1>0, <1>3 DEF Held, Pushed, AtFront, tableVars
  <2>4. CASE waiting # <<>>
    <3>1. Head(waiting).job = j /\ j \in JobsIn(waiting)
      BY <1>0, <2>j, <2>4, PoppedJob DEF StartInv, FrontInHand, TypeOK, EntriesInv, Apart
    <3>2. Pushed' = {j}
      BY <1>0, <1>3, <2>2, <2>3, <2>4, <3>1 DEF Pushed, AtFront
    <3>3. Moves(j, {"queued"}, "active") \/ Moves(j, {"parked"}, "active")
      BY <1>0, <1>1, <2>1, <2>2, <2>3, <3>1, <3>2, Activates DEF QueueJobs, Carrying
    <3>4. Room
      BY <1>0, FreeRoom DEF LocalsHere, Pushing, Carrying
    <3> QED
      BY <2>1, <3>3, <3>4 DEF Lives
  <2>5. CASE waiting = <<>>
    <3>1. j \notin QueueJobs
      BY <1>0, <2>j, <2>5 DEF EntriesInv, CopyApart, QueueJobs, JobsIn
    <3>2. Pushed' = {}
      BY <1>0, <1>3, <2>3, <2>5 DEF Pushed, AtFront
    <3>3. Stutters
      BY <1>0, <1>1, <2>2, <2>3, <3>1, <3>2 DEF Stutters, StageAt, ActiveJobs
    <3> QED
      BY <3>3 DEF Lives
  <2> QED
    BY <2>4, <2>5
<1> QED
  BY <1>2, <1>3 DEF ExecuteJobFork

(* The pushes to running, of executeJob and of the two preemptive runners. *)
LEMMA PushStutters ==
  ASSUME TypeOK, LocalsOK, EntriesInv, StartInv, interrupted = "none", interrupted' = "none",
         ExecuteJobPush \/ RRobinPush \/ MlfqPush
  PROVE  Stutters
<1>0. Thread = pc /\ Thread' = pc' /\ LocalsHere /\ UNCHANGED <<levels, arrivals, starts>>
  BY LocalsAtPc DEF Thread, ExecuteJobPush, RRobinPush, MlfqPush, At, histVars
<1>t. waiting \in Seq(Process) /\ running \in Seq(Process)
  BY DEF TypeOK
<1>1. CASE MlfqPush
  <2>j. PICK j : j = copy.job
    OBVIOUS
  <2>1. pc = "mlfq_push" /\ pc' = "mlfq_fill" /\ UNCHANGED waiting /\ running' = Append(running, copy)
    BY <1>1 DEF MlfqPush, At
  <2>2. Pushed = {j} /\ Held = {} /\ Pushed' = {} /\ Held' = {}
    BY <1>0, <2>j, <2>1 DEF Pushed, Held, AtFront
  <2>3. JobsIn(Append(running, copy)) = JobsIn(running) \cup {j}
    BY <1>0, <1>t, <2>j, <2>1, AppendJobs DEF LocalsHere, CopyHeld
  <2>4. JobsIn(running)' = JobsIn(running) \cup {j} /\ QueueJobs' = QueueJobs
    BY <1>0, <2>1, <2>3, TablesNext DEF QueueJobs
  <2> QED
    BY <1>0, <2>2, <2>4, PushedInto
<1>2. ASSUME pc \in {"exec_push", "rrobin_push"}, pc' = "undefined", waiting = <<>>,
             UNCHANGED <<waiting, running>>
      PROVE  Stutters
  <2>1. JobsIn(running)' = JobsIn(running) /\ QueueJobs' = QueueJobs
    BY <1>0, <1>2, TablesKept DEF tableVars
  <2>2. Pushed' = Pushed /\ Held' = Held
    BY <1>0, <1>2 DEF Pushed, Held, AtFront
  <2> QED
    BY <1>0, <2>1, <2>2, SamePlaces
<1>3. ASSUME pc \in {"exec_push", "rrobin_push"}, pc' \in {"fifo", "rrobin_fill"}, waiting # <<>>,
             NEW e \in Process, e.job = Head(waiting).job, FrontToRunning(e)
      PROVE  Stutters
  <2>j. PICK j : j = Head(waiting).job
    OBVIOUS
  <2>1. Pushed = {j} /\ Held = {} /\ Pushed' = {} /\ Held' = {}
    BY <1>0, <1>3, <2>j DEF Pushed, Held, AtFront, StartInv, FrontInHand
  <2>2. JobsIn(Append(running, e)) = JobsIn(running) \cup {j}
    BY <1>t, <1>3, <2>j, AppendJobs
  <2>3. JobsIn(Tail(waiting)) = JobsIn(waiting) \ {j} /\ j \in JobsIn(waiting)
    BY <1>t, <1>3, <2>j, PoppedJob DEF EntriesInv, Apart
  <2>4. running' = Append(running, e) /\ waiting' = Tail(waiting)
    BY <1>3 DEF FrontToRunning
  <2>5. JobsIn(running)' = JobsIn(running) \cup {j} /\ QueueJobs' \cup {j} = QueueJobs \cup {j}
    BY <1>0, <2>2, <2>3, <2>4, TablesNext DEF QueueJobs
  <2> QED
    BY <1>0, <2>1, <2>5, PushedInto
<1>4. CASE ExecuteJobPush
  <2>1. CASE waiting = <<>>
    BY <1>2, <1>4, <2>1 DEF ExecuteJobPush, At
  <2>2. CASE waiting # <<>>
    <3> DEFINE e == [Head(waiting) EXCEPT !.pid = Head(waiting).job]
    <3>1. Head(waiting) \in Process
      BY <1>t, <2>2, HeadTailOf
    <3>2. e \in Process /\ e.job = Head(waiting).job
      BY <3>1, ProcessUpdates DEF Process
    <3>3. pc = "exec_push" /\ pc' \in {"fifo", "rrobin_fill"} /\ FrontToRunning(e)
      BY <1>4, <2>2 DEF ExecuteJobPush, At, CallersLoop
    <3> HIDE DEF e
    <3> QED
      BY <1>3, <2>2, <3>2, <3>3
  <2> QED
    BY <2>1, <2>2
<1>5. CASE RRobinPush
  <2>1. CASE waiting = <<>>
    BY <1>2, <1>5, <2>1 DEF RRobinPush, At
  <2>2. CASE waiting # <<>>
    <3>1. Head(waiting) \in Process
      BY <1>t, <2>2, HeadTailOf
    <3>2. pc = "rrobin_push" /\ pc' \in {"fifo", "rrobin_fill"} /\ FrontToRunning(Head(waiting))
      BY <1>5, <2>2 DEF RRobinPush, At
    <3> QED
      BY <1>3, <2>2, <3>1, <3>2
  <2> QED
    BY <2>1, <2>2
<1> QED
  BY <1>1, <1>4, <1>5

(* The runners turn to the front of running.                               *)
LEMMA PauseLives ==
  ASSUME TypeOK, EntriesInv, StartInv, interrupted = "none", interrupted' = "none",
         RRobinPause \/ MlfqFront
  PROVE  Lives
<1>0. /\ Thread = pc /\ Thread' = pc' /\ pc \in {"rrobin", "mlfq"}
      /\ UNCHANGED <<tableVars, arrivals, starts>>
  BY DEF Thread, RRobinPause, MlfqFront, At, histVars
<1>1. JobsIn(running)' = JobsIn(running) /\ QueueJobs' = QueueJobs
  BY <1>0, TablesKept
<1>2. CASE pc' \in {"rrobin_fill", "mlfq_boost", "group_stopped"}
  <2>1. Stutters
    BY <1>0, <1>1, <1>2, EmptyHands DEF Carrying
  <2> QED
    BY <2>1 DEF Lives
<1>3. CASE running # <<>> /\ copy' = Head(running) /\ pc' \in {"rrobin_requeue", "mlfq_pop"}
  <2>j. PICK j : j = Head(running).job
    OBVIOUS
  <2>1. j \in JobsIn(running) /\ j \in Jobs
    BY <1>3, <2>j, PoppedJob DEF TypeOK, EntriesInv, Apart
  <2>2. Held' = {j} /\ Pushed' = {}
    BY <1>0, <1>3, <2>j DEF Held, Pushed, AtFront
  <2>3. Moves(j, {"active"}, "parked")
    BY <1>0, <1>1, <2>1, <2>2, Parks DEF Carrying
  <2>4. Policy # "fifo"
    BY <1>0 DEF StartInv, ThreadOfPolicy, MlfqSteps
  <2> QED
    BY <2>1, <2>3, <2>4 DEF Lives
<1> QED
  BY <1>2, <1>3 DEF RRobinPause, PauseProcess, MlfqFront

(* rRobin_runner queues the copy, and pops whatever is at the front now.   *)
LEMMA RRobinRequeueLives ==
  ASSUME TypeOK, LocalsOK, EntriesInv, StartInv, SignalInv, interrupted = "none", interrupted' = "none",
         RRobinRequeue
  PROVE  Lives
<1>0. /\ Thread = pc /\ Thread' = pc' /\ LocalsHere /\ pc = "rrobin_requeue"
      /\ pc' \in {"undefined", "rrobin_fill"}
      /\ UNCHANGED <<levels, arrivals, starts>> /\ waiting' = Append(waiting, copy)
  BY LocalsAtPc DEF Thread, RRobinRequeue, At, histVars, Requeued
<1>j. PICK j : j = copy.job
  OBVIOUS
<1>1. copy \in Known /\ copy \in Process /\ copy.pid # NoPid
  BY <1>0 DEF StartInv, PidsKnown, Moving, SignalInv, PidsHeld, LocalsHere, CopyHeld
<1>2. j \in ToSet(starts) /\ j \in Jobs
  BY <1>j, <1>1, KnownChanges DEF Known
<1>3. Held = {j} /\ Pushed = {} /\ Held' = {} /\ Pushed' = {}
  BY <1>0, <1>j DEF Held, Pushed, AtFront
<1>4. JobsIn(Append(waiting, copy)) = JobsIn(waiting) \cup {j}
  BY <1>j, <1>1, AppendJobs DEF TypeOK
<1>5. QueueJobs' = QueueJobs \cup {j}
  BY <1>0, <1>4, TablesNext DEF QueueJobs
<1>6. CASE running = <<>> /\ UNCHANGED running
  <2>1. JobsIn(running)' = JobsIn(running) \ {j}
    BY <1>6, TablesNext DEF JobsIn
  <2> QED
    BY <1>0, <1>2, <1>3, <1>5, <2>1, Requeues DEF Lives
<1>7. CASE running # <<>> /\ running' = Tail(running)
  <2>h. PICK h : h = Head(running).job
    OBVIOUS
  <2>1. /\ JobsIn(running)' = JobsIn(running) \ {h} /\ h \in JobsIn(running) /\ h \in Jobs
    <3>1. JobsIn(Tail(running)) = JobsIn(running) \ {h} /\ h \in JobsIn(running) /\ h \in Jobs
      BY <1>7, <2>h, PoppedJob DEF TypeOK, EntriesInv, Apart
    <3> QED
      BY <1>7, <3>1, TablesNext
  <2>2. CASE h = j
    BY <1>0, <1>2, <1>3, <1>5, <2>1, <2>2, Requeues DEF Lives
  <2>3. CASE h # j
    <3>1. j \notin JobsIn(running)
      <4>1. JobsIn(running) = {h} \cup JobsBehind(running)
        BY <1>7, <2>h, TailJobs DEF TypeOK
      <4> QED
        BY <1>0, <1>j, <2>3, <4>1 DEF EntriesInv, CopyApart
    <3>2. h \in ToSet(arrivals) /\ h \notin QueueJobs
      BY <2>1 DEF EntriesInv, KnownJobs, TabledJobs, Apart, QueueJobs, JobsInLevels
    <3>3. StageAt(h) = "active" /\ StageAt(h)' = "gone"
      BY <1>0, <1>3, <1>5, <2>1, <2>3, <3>2 DEF StageAt, ActiveJobs
    <3>4. \A i \in Jobs \ {h} : StageAt(i)' = StageAt(i)
      <4> TAKE i \in Jobs \ {h}
      <4>1. i \in ActiveJobs' <=> i \in ActiveJobs
        BY <1>3, <2>1, <3>1 DEF ActiveJobs
      <4> QED
        BY <1>0, <1>2, <1>3, <1>5, <3>1, <4>1 DEF StageAt
    <3>5. Moves(h, {"queued", "active", "parked"}, "gone")
      BY <2>1, <3>3, <3>4 DEF Moves
    <3> QED
      BY <2>1, <3>5 DEF Lives
  <2> QED
    BY <2>2, <2>3
<1> QED
  BY <1>6, <1>7 DEF RRobinRequeue

(* mlfq_runner pops whatever is at the front now, and queues the copy.     *)
LEMMA MlfqPopLives ==
  ASSUME TypeOK, LocalsOK, EntriesInv, interrupted = "none", interrupted' = "none", MlfqPop
  PROVE  Lives
<1>0. /\ Thread = pc /\ Thread' = pc' /\ LocalsHere /\ pc = "mlfq_pop"
      /\ UNCHANGED <<waiting, levels, arrivals, starts>>
  BY LocalsAtPc DEF Thread, MlfqPop, At, histVars
<1>j. PICK j : j = copy.job
  OBVIOUS
<1>1. copy \in Process /\ j \in Jobs /\ j \in ToSet(arrivals)
  BY <1>0, <1>j DEF LocalsHere, CopyHeld, Process, EntriesInv, KnownJobs, Moving
<1>2. Held = {j} /\ Pushed = {}
  BY <1>0, <1>j DEF Held, Pushed, AtFront
<1>3. QueueJobs' = QueueJobs
  BY <1>0, TablesNext DEF QueueJobs
<1>4. CASE running = <<>> /\ pc' = "undefined" /\ UNCHANGED running
  <2>1. Held' = {} /\ Pushed' = {}
    BY <1>0, <1>4 DEF Held, Pushed, AtFront
  <2>2. JobsIn(running)' = JobsIn(running) /\ j \notin JobsIn(running)
    BY <1>4 DEF JobsIn
  <2>3. j \notin QueueJobs
    BY <1>0, <1>j DEF EntriesInv, CopyApart, QueueJobs
  <2>4. Moves(j, {"queued", "active", "parked"}, "gone")
    BY <1>0, <1>1, <1>2, <1>3, <2>1, <2>2, <2>3, Drops
  <2> QED
    BY <1>1, <2>4 DEF Lives
<1>5. CASE /\ running # <<>> /\ pc' = "mlfq_requeue" /\ running' = Tail(running)
           /\ copy' = Demoted(copy)
  <2>1. Demoted(copy).job = j
    BY <1>1, <1>j DEF Demoted, Process
  <2>2. Held' = Held /\ Pushed' = Pushed
    BY <1>0, <1>2, <1>5, <2>1 DEF Held, Pushed, AtFront
  <2>3. PICK h \in JobsIn(running) : JobsIn(Tail(running)) = JobsIn(running) \ {h} /\ h \in Jobs
    BY <1>5, PoppedJob DEF TypeOK, EntriesInv, Apart
  <2>4. JobsIn(running)' = JobsIn(running) \ {h}
    BY <1>5, <2>3, TablesNext
  <2>5. Stutters \/ Moves(h, {"queued", "active", "parked"}, "gone")
    BY <1>0, <1>3, <2>2, <2>3, <2>4, LeavesRunning
  <2> QED
    BY <2>3, <2>5 DEF Lives
<1> QED
  BY <1>4, <1>5 DEF MlfqPop

LEMMA MlfqRequeueLives ==
  ASSUME TypeOK, LocalsOK, EntriesInv, StartInv, interrupted = "none", interrupted' = "none",
         MlfqRequeue
  PROVE  Lives
<1>0. /\ Thread = pc /\ Thread' = pc' /\ LocalsHere /\ pc = "mlfq_requeue"
      /\ pc' \in {"mlfq_boost", "group_stopped"}
      /\ UNCHANGED <<waiting, running, arrivals, starts>>
  BY LocalsAtPc DEF Thread, MlfqRequeue, PauseProcess, At, histVars
<1>j. PICK j : j = copy.job
  OBVIOUS
<1>1. copy \in Process /\ j \in Jobs /\ j \in ToSet(arrivals) /\ copy \in Known
  BY <1>0, <1>j DEF LocalsHere, CopyHeld, Process, EntriesInv, KnownJobs, Moving, StartInv, PidsKnown
<1>2. Held = {j} /\ Pushed = {} /\ Held' = {} /\ Pushed' = {}
  BY <1>0, <1>j DEF Held, Pushed, AtFront
<1>3. JobsIn(running)' = JobsIn(running) /\ JobsIn(waiting)' = JobsIn(waiting)
  BY <1>0, TablesNext
<1>4. j \notin QueueJobs /\ j \notin JobsIn(running)
  BY <1>0, <1>j DEF EntriesInv, CopyApart, TabledJobs, QueueJobs
<1>5. CASE copy.pid = NoPid
  <2>1. QueueJobs' = QueueJobs
    BY <1>3, <1>5, TablesNext DEF MlfqRequeue, QueueJobs
  <2>2. Moves(j, {"queued", "active", "parked"}, "gone")
    BY <1>0, <1>1, <1>2, <1>3, <1>4, <2>1, Drops
  <2> QED
    BY <1>1, <2>2 DEF Lives
<1>6. CASE copy.pid # NoPid
  <2>1. copy.priority \in 0..NumLevels-1 /\ j \in ToSet(starts)
    BY <1>1, <1>6, <1>j, KnownChanges DEF Process, Known
  <2>2. levels' = [levels EXCEPT ![copy.priority] = Append(levels[copy.priority], copy)]
    BY <1>6 DEF MlfqRequeue
  <2>3. JobsIn(Append(levels[copy.priority], copy)) = JobsIn(levels[copy.priority]) \cup {j}
    BY <1>1, <1>j, <2>1, AppendJobs DEF TypeOK
  <2>4. JobsInLevels' = JobsInLevels \cup {j}
    BY <2>1, <2>2, <2>3, LevelReplaced
  <2>5. QueueJobs' = QueueJobs \cup {j} /\ JobsIn(running)' = JobsIn(running) \ {j}
    BY <1>3, <1>4, <2>4 DEF QueueJobs
  <2> QED
    BY <1>0, <1>2, <2>1, <2>5, Requeues DEF Lives
<1> QED
  BY <1>5, <1>6

(* The fill loops: a job of the queue is resumed, or one of a level forked.*)
LEMMA RRobinFillLives ==
  ASSUME TypeOK, EntriesInv, interrupted = "none", interrupted' = "none", RRobinFill
  PROVE  Lives
<1>0. /\ Thread = pc /\ Thread' = pc' /\ pc = "rrobin_fill"
      /\ UNCHANGED <<tableVars, arrivals, starts>>
  BY DEF Thread, RRobinFill, ExecuteJob, At, histVars
<1>1. JobsIn(running)' = JobsIn(running) /\ QueueJobs' = QueueJobs /\ waiting' = waiting
  BY <1>0, TablesKept DEF tableVars
<1>2. CASE pc' \in {"exec_fork", "poll"}
  <2>1. Stutters
    BY <1>0, <1>1, <1>2, EmptyHands DEF Carrying
  <2> QED
    BY <2>1 DEF Lives
<1>3. CASE HasFreeCPU /\ waiting # <<>> /\ pc' = "rrobin_push"
  <2>j. PICK j : j = Head(waiting).job
    OBVIOUS
  <2>1. j \in JobsIn(waiting) /\ j \in Jobs
    BY <1>3, <2>j, PoppedJob DEF TypeOK, EntriesInv, Apart
  <2>2. Held' = {} /\ Pushed' = {j}
    BY <1>0, <1>1, <1>3, <2>j DEF Held, Pushed, AtFront
  <2>3. ToSet(starts)' = ToSet(starts)
    BY <1>0 DEF ToSet
  <2>4. Moves(j, {"queued"}, "active") \/ Moves(j, {"parked"}, "active")
    BY <1>0, <1>1, <2>1, <2>2, <2>3, Activates DEF Carrying, QueueJobs
  <2>5. Room
    BY <1>0, <1>3, SchedulerAssumption, FreeRoom DEF Carrying
  <2> QED
    BY <2>1, <2>4, <2>5 DEF Lives
<1> QED
  BY <1>2, <1>3 DEF RRobinFill, ExecuteJob

LEMMA MlfqFillLives ==
  ASSUME TypeOK, LocalsOK, EntriesInv, interrupted = "none", interrupted' = "none", MlfqFill
  PROVE  Lives
<1> USE SchedulerAssumption
<1>0. /\ Thread = pc /\ Thread' = pc' /\ LocalsHere /\ pc = "mlfq_fill"
  BY LocalsAtPc DEF Thread, MlfqFill, At
<1>1. CASE UNCHANGED <<tableVars, arrivals, starts>> /\ pc' \in {"mlfq_fill", "poll"}
  <2>1. JobsIn(running)' = JobsIn(running) /\ QueueJobs' = QueueJobs
    BY <1>1, TablesKept
  <2>2. Stutters
    BY <1>0, <1>1, <2>1, EmptyHands DEF Carrying
  <2> QED
    BY <2>2 DEF Lives
<1>2. CASE idx < NumLevels /\ levels[idx] # <<>> /\ HasFreeCPU /\ MlfqDispatch
  <2> DEFINE q == Head(levels[idx])
  <2>j. PICK j : j = q.job
    OBVIOUS
  <2>1. idx \in 0..NumLevels-1
    BY <1>0, <1>2 DEF LocalsHere
  <2>2. levels[idx] \in Seq(Process) /\ DistinctJobs(levels[idx])
    BY <2>1 DEF TypeOK, EntriesInv, Apart
  <2>3. q \in Process
    BY <1>2, <2>2, HeadTailOf
  <2>4. /\ JobsIn(Tail(levels[idx])) = JobsIn(levels[idx]) \ {j} /\ j \in JobsIn(levels[idx])
        /\ j \in Jobs
    BY <1>2, <2>j, <2>2, PoppedJob
  <2>5. /\ levels' = [levels EXCEPT ![idx] = Tail(levels[idx])] /\ pc' = "mlfq_push"
        /\ UNCHANGED <<waiting, running, arrivals>>
        /\ copy'.job = j
        /\ starts' = starts \/ starts' = Append(starts, j)
    <3>1. [q EXCEPT !.pid = q.job].job = j
      BY <2>j, <2>3 DEF Process
    <3> HIDE DEF q
    <3>2. copy' \in {q, [q EXCEPT !.pid = q.job]} /\ (starts' = starts \/ starts' = Append(starts, q.job))
      BY <1>2 DEF MlfqDispatch, q
    <3> QED
      BY <1>2, <2>j, <3>1, <3>2 DEF MlfqDispatch
  <2>6. JobsInLevels' = JobsInLevels \ {j}
    <3>1. \A m \in 0..NumLevels-1 : m # idx => JobsIn(levels[m]) \cap {j} = {}
      BY <2>1, <2>4 DEF EntriesInv, Apart
    <3>2. levels' = [levels EXCEPT ![idx] = Tail(levels[idx])]
      BY <2>5
    <3> QED
      BY <2>1, <2>4, <3>1, <3>2, LevelReplaced
  <2>7. j \in QueueJobs
    BY <2>1, <2>4 DEF QueueJobs, JobsInLevels
  <2>8. /\ JobsIn(running)' = JobsIn(running)
        /\ \A i \in Jobs \ {j} : i \in QueueJobs' <=> i \in QueueJobs
    BY <2>5, <2>6, TablesNext DEF QueueJobs
  <2>9. \A i \in Jobs \ {j} : i \in ToSet(starts)' <=> i \in ToSet(starts)
    <3>1. ToSet(Append(starts, j)) = ToSet(starts) \cup {j}
      BY <2>4, ToSetAppend DEF TypeOK
    <3>2. ToSet(starts)' = ToSet(starts')
      BY DEF ToSet
    <3> QED
      BY <2>5, <3>1, <3>2
  <2>10. Pushed' = {j} /\ Held' = {}
    BY <1>0, <2>5 DEF Pushed, Held, AtFront
  <2>11. Moves(j, {"queued"}, "active") \/ Moves(j, {"parked"}, "active")
    BY <1>0, <2>4, <2>5, <2>7, <2>8, <2>9, <2>10, Activates DEF Carrying
  <2>12. Room
    BY <1>0, <1>2, FreeRoom DEF Carrying
  <2> QED
    BY <2>4, <2>11, <2>12 DEF Lives
<1> QED
  BY <1>1, <1>2, <1>0 DEF MlfqFill, histVars
-----------------------------------------------------------------------------
LEMMA NextLives ==
  ASSUME TypeOK, LocalsOK, EntriesInv, StartInv, SignalInv, HandResumed, ForkedInHand, Next
  PROVE  Lives
<1>1. CASE SigchldEnter \/ SigchldReturn \/ Types \/ SigintEnter \/ \E j \in Jobs : Ends(j) \/ Computes(j)
  BY <1>1, BystandersStutter DEF Lives
<1>2. ASSUME NEW j \in Jobs, SigchldReap(j) PROVE Lives
  BY <1>2, ReapLives
<1>3. CASE FlushReturn /\ interrupted # "none"
  BY <1>3, BystandersStutter DEF Lives
<1>4. CASE (FlushKill \/ FlushPop \/ FlushQueue) /\ UNCHANGED loopVars
  BY <1>4, FlushKillLives, FlushPopLives, FlushQueueLives DEF loopVars
<1> DEFINE Scheduled ==
             /\ \/ ExecuteJobFork \/ ExecuteJobPush \/ StatRead \/ StatOpen \/ StatScan \/ FifoRunner
                \/ RRobinPause \/ RRobinRequeue \/ RRobinFill \/ RRobinPush
                \/ MlfqFront \/ MlfqPop \/ MlfqRequeue \/ MlfqBoostDue \/ MlfqBoost \/ MlfqAdmit
                \/ MlfqFill \/ MlfqPush
             /\ UNCHANGED loopVars
<1>5. ASSUME Poll \/ PollStdin \/ Request \/ Scheduled, ~(FlushReturn /\ interrupted # "none")
      PROVE  interrupted = "none" /\ interrupted' = "none"
  <2>1. interrupted = "none"
    <3>1. CASE FlushReturn
      BY <1>5, <3>1
    <3>2. CASE ~FlushReturn
      <4>1. pc \notin Flushing \cup Halted
        BY <1>5, <3>2 DEF Poll, PollStdin, Request, AddJob, FlushRequest, StatusCounts,
           StatusLists, Query, ExecuteJobFork, ExecuteJobPush, StatRead, StatOpen,
           StatScan, FifoRunner, RRobinPause, RRobinRequeue, RRobinFill, RRobinPush, MlfqFront, MlfqPop,
           MlfqRequeue, MlfqBoostDue, MlfqBoost, MlfqAdmit, MlfqFill, MlfqPush, At, Flushing, Halted
      <4> QED
        BY <4>1 DEF LocalsOK
    <3> QED
      BY <3>1, <3>2
  <2> QED
    BY <1>5, <2>1 DEF Poll, PollStdin, Request, AddJob, FlushRequest, FlushReturn, StatusCounts,
       StatusLists, Query, loopVars
<1>6. CASE (Poll \/ PollStdin \/ Request \/ Scheduled) /\ ~(FlushReturn /\ interrupted # "none")
  <2>0. interrupted = "none" /\ interrupted' = "none"
    BY <1>5, <1>6
  <2>1. CASE \/ Poll \/ PollStdin \/ FlushRequest \/ FlushReturn \/ StatusCounts \/ StatusLists \/ Query
             \/ StatRead \/ StatOpen \/ StatScan \/ FifoRunner \/ MlfqBoostDue \/ MlfqBoost \/ MlfqAdmit
    BY <2>0, <2>1, LoopStutters DEF Lives
  <2>2. CASE AddJob \/ ExecuteJobFork
    BY <2>0, <2>2, AddLives, ForkLives
  <2>3. CASE ExecuteJobPush \/ RRobinPush \/ MlfqPush
    BY <2>0, <2>3, PushStutters DEF Lives
  <2>4. CASE RRobinPause \/ MlfqFront
    BY <2>0, <2>4, PauseLives
  <2>5. CASE RRobinRequeue \/ RRobinFill
    BY <2>0, <2>5, RRobinRequeueLives, RRobinFillLives
  <2>6. CASE MlfqPop \/ MlfqRequeue \/ MlfqFill
    BY <2>0, <2>6, MlfqPopLives, MlfqRequeueLives, MlfqFillLives
  <2> QED
    BY <1>6, <2>1, <2>2, <2>3, <2>4, <2>5, <2>6 DEF Request
<1> QED
  BY <1>1, <1>2, <1>3, <1>4, <1>6 DEF Next, Handler, MainStep, SchedulerStep

(* What the thread has in hand while sigint_handler runs.                  *)
LEMMA ForkedInHandStep ==
  ASSUME TypeOK, LocalsOK, ForkedInHand, Next
  PROVE  ForkedInHand'
<1>1. CASE UNCHANGED <<Thread, starts>>
  BY <1>1 DEF ForkedInHand
<1>2. CASE interrupted = "none" /\ interrupted' = "none" /\ (Poll \/ PollStdin \/ Request \/ SchedulerStep)
  <2>0. Thread = pc /\ Thread' = pc' /\ LocalsHere
    BY <1>2, LocalsAtPc DEF Thread
  <2>1. CASE ExecuteJobFork
    <3>1. copy.job \in Jobs /\ starts \in Seq(Jobs)
      BY <2>0, <2>1 DEF ExecuteJobFork, At, LocalsHere, CopyHeld, Process, TypeOK
    <3>2. Append(starts, copy.job) # <<>>
      BY <3>1, LastAppended
    <3> QED
      BY <2>0, <2>1, <3>2 DEF ForkedInHand, ExecuteJobFork, CallersLoop
  <2>2. CASE ~ExecuteJobFork
    <3>1. pc' # "exec_push"
      BY <1>2, <2>2, SchedulerAssumption DEF Poll, PollStdin, Request, AddJob, FlushRequest, FlushReturn,
         StatusCounts, StatusLists, Query, AfterAccept, SchedulerStep, ExecuteJobPush, CallersLoop,
         StatRead, StatOpen, StatScan, FifoRunner, ExecuteJob, RRobinPause, PauseProcess, RRobinRequeue,
         RRobinFill, RRobinPush, MlfqFront, MlfqPop, MlfqRequeue, MlfqBoostDue, MlfqBoost, MlfqAdmit,
         MlfqFill, MlfqDispatch, MlfqPush, FlushKill, TerminateProcess, FlushPop, FlushQueue,
         FlushEntry, QueueFlushed, At
    <3> QED
      BY <2>0, <3>1 DEF ForkedInHand
  <2> QED
    BY <2>1, <2>2
<1> QED
  BY <1>1, <1>2, Interruption

LEMMA HandResumedStep ==
  ASSUME TypeOK, LocalsOK, StartInv, HandResumed, Next
  PROVE  HandResumed'
<1> USE DEF At, tableVars, locals
<1>1. CASE pc' = "rrobin_push"
  <2>1. CASE waiting' = <<>>
    BY <2>1 DEF HandResumed
  <2>2. CASE RRobinFill /\ UNCHANGED interrupted
    BY <1>1, <2>2 DEF RRobinFill, ExecuteJob, HandResumed
  <2>3. CASE UNCHANGED <<pc, waiting>>
    BY <1>1, <2>3 DEF HandResumed, Thread, LocalsOK, Flushing, Halted
  <2> QED
    BY <1>1, <2>1, <2>2, <2>3, ResumedStep DEF StartInv
<1>2. CASE pc' \in {"flush", "flush_pop"} /\ Thread' = "rrobin_push"
  <2>1. interrupted' = "rrobin_push"
    BY <1>2 DEF Thread
  <2>2. CASE interrupted = "none"
    <3>1. ~(UNCHANGED interrupted)
      BY <2>1, <2>2
    <3>2. SigintEnter
      BY <2>1, <2>2, <3>1 DEF Next, MainStep, Poll, PollStdin, Request, AddJob, FlushRequest, FlushReturn,
         StatusCounts, StatusLists, Query, SchedulerStep, Handler, SigchldEnter, SigchldReturn,
         SigchldReap, Types, Ends, Computes, loopVars
    <3> QED
      BY <2>1, <2>2, <3>2 DEF SigintEnter, HandResumed, Thread
  <2>3. CASE interrupted # "none"
    <3>1. pc \in Flushing \cup Halted
      BY <2>3 DEF LocalsOK
    <3>2. \/ SigchldEnter \/ SigchldReturn \/ Types
          \/ \E j \in Jobs : SigchldReap(j) \/ Ends(j) \/ Computes(j)
          \/ (FlushKill \/ FlushPop \/ FlushQueue) /\ UNCHANGED loopVars
          \/ FlushReturn
      BY <2>3, <3>1 DEF Next, Handler, SigintEnter, MainStep, Poll, PollStdin, Request, AddJob,
         FlushRequest, StatusCounts, StatusLists, Query, SchedulerStep, ExecuteJobFork, ExecuteJobPush,
         StatRead, StatOpen, StatScan, FifoRunner, RRobinPause, RRobinRequeue, RRobinFill, RRobinPush,
         MlfqFront, MlfqPop, MlfqRequeue, MlfqBoostDue, MlfqBoost, MlfqAdmit, MlfqFill, MlfqPush,
         Flushing, Halted
    <3>3. UNCHANGED <<interrupted, waiting>> /\ pc \in {"flush", "flush_pop"}
      <4>1. CASE \/ SigchldEnter \/ SigchldReturn \/ Types
                 \/ \E j \in Jobs : SigchldReap(j) \/ Ends(j) \/ Computes(j)
        BY <1>2, <4>1 DEF SigchldEnter, SigchldReturn, SigchldReap, Types, Ends, Computes, loopVars
      <4>2. CASE (FlushKill \/ FlushPop \/ FlushQueue) /\ UNCHANGED loopVars
        BY <1>2, <4>2 DEF FlushKill, FlushPop, FlushQueue, FlushEntry, QueueFlushed, loopVars
      <4>3. CASE FlushReturn
        BY <2>1, <2>3, <4>3 DEF FlushReturn
      <4> QED
        BY <3>2, <4>1, <4>2, <4>3
    <3> QED
      BY <2>1, <2>3, <3>3 DEF HandResumed, Thread
  <2> QED
    BY <2>2, <2>3
<1>3. CASE ~(pc' \in {"rrobin_push", "flush", "flush_pop"} /\ Thread' = "rrobin_push")
  BY <1>3 DEF HandResumed
<1> QED
  BY <1>1, <1>2, <1>3
-----------------------------------------------------------------------------
LifecycleInv == HandResumed /\ ForkedInHand

LEMMA LifecycleAlways == Spec => [](IInv /\ EntriesInv /\ StartInv /\ SignalInv /\ LifecycleInv)
<1>1. Init => LifecycleInv
  BY DEF Init, LifecycleInv, HandResumed, ForkedInHand, Thread
<1>2. IInv /\ StartInv /\ LifecycleInv /\ [Next]_vars => LifecycleInv'
  <2> SUFFICES ASSUME IInv, StartInv, LifecycleInv, [Next]_vars PROVE LifecycleInv'
    OBVIOUS
  <2>1. CASE Next
    BY <2>1, HandResumedStep, ForkedInHandStep DEF IInv, LifecycleInv
  <2>2. CASE UNCHANGED vars
    <3>1. UNCHANGED <<pc, interrupted, waiting, starts>>
      BY <2>2 DEF vars, tableVars, histVars, loopVars
    <3> QED
      BY <3>1 DEF LifecycleInv, HandResumed, ForkedInHand, Thread
  <2> QED
    BY <2>1, <2>2
<1> QED
  BY <1>1, <1>2, SignalAlways, PTL DEF Spec

(* A step of Lives is one of JobLifecycle.                                 *)
LEMMA LivesMoves ==
  ASSUME Stage = [j \in Jobs |-> StageAt(j)], Stage' = [j \in Jobs |-> StageAt(j)'], Lives
  PROVE  Lifecycle!Next \/ UNCHANGED Stage
<1>1. Room => Lifecycle!Cardinality(Lifecycle!Active) < NCPUS
  <2>1. Lifecycle!Cardinality(Lifecycle!Active) = Cardinality(Lifecycle!Active)
    BY DEF Lifecycle!Cardinality, Cardinality
  <2>2. Lifecycle!Active = {j \in Jobs : StageAt(j) = "active"}
    BY DEF Lifecycle!Active
  <2> QED
    BY <2>1, <2>2 DEF Room
<1>2. CASE Stutters
  BY <1>2, StuttersStage
<1>3. ASSUME NEW j \in Jobs,
             \/ Moves(j, {"new"}, "queued")
             \/ Moves(j, {"queued"}, "active") /\ Room
             \/ Moves(j, {"active"}, "parked") /\ Policy # "fifo"
             \/ Moves(j, {"parked"}, "active") /\ Room
             \/ Moves(j, {"queued", "active", "parked"}, "gone")
      PROVE  Lifecycle!Next
  <2>1. \/ Lifecycle!Arrive(j) \/ Lifecycle!Start(j) \/ Lifecycle!Park(j) \/ Lifecycle!Resume(j)
        \/ Lifecycle!Leave(j)
    BY <1>1, <1>3, MovesStage
       DEF Lifecycle!Arrive, Lifecycle!Start, Lifecycle!Park, Lifecycle!Resume, Lifecycle!Leave
  <2> QED
    BY <2>1 DEF Lifecycle!Next
<1> QED
  BY <1>2, <1>3 DEF Lives

LEMMA StageUnchanged ==
  ASSUME Stage = [j \in Jobs |-> StageAt(j)], Stage' = [j \in Jobs |-> StageAt(j)'], UNCHANGED vars
  PROVE  UNCHANGED Stage
<1>1. UNCHANGED <<tableVars, arrivals, starts, pc, interrupted, copy>>
  BY DEF vars, tableVars, histVars, locals, loopVars
<1>2. JobsIn(running)' = JobsIn(running) /\ QueueJobs' = QueueJobs
  BY <1>1, TablesKept
<1>3. Thread' = Thread /\ waiting' = waiting
  BY <1>1 DEF Thread, tableVars
<1>4. Pushed' = Pushed /\ Held' = Held
  BY <1>1, <1>3, HandsKept
<1> QED
  BY <1>1, <1>2, <1>4, SamePlaces, StuttersStage

(* The server implements JobLifecycle, for every policy, number of CPUs    *)
(* and mix of requests, flush and ^C included: a job is queued once, is    *)
(* started at most once and only when a CPU is free, is parked and resumed *)
(* by the preemptive policies only, and stays gone, although the handlers  *)
(* remove entries between the steps of every move                          *)
(* (scheduler.cpp:119-149,276-344,427-455; pq.cpp:59-85).                  *)
THEOREM LifecycleImplemented == Spec => ImplementsLifecycle
<1> DEFINE Inv == IInv /\ EntriesInv /\ StartInv /\ SignalInv /\ LifecycleInv
<1>1. Init => Lifecycle!Init
  <2> SUFFICES ASSUME Init PROVE Stage = [j \in Jobs |-> "new"]
    BY DEF Lifecycle!Init
  <2>1. /\ waiting = <<>> /\ running = <<>> /\ arrivals = <<>> /\ Thread = "poll"
        /\ levels = [l \in 0..NumLevels-1 |-> <<>>]
    BY DEF Init, Thread
  <2>2. Queued = {} /\ JobsIn(running) = {} /\ ToSet(arrivals) = {}
    BY <2>1 DEF Queued, JobsIn, ToSet
  <2>3. Pushed = {} /\ Held = {}
    BY <2>1 DEF Pushed, Held, AtFront
  <2> QED
    BY <2>2, <2>3 DEF Stage, ActiveJobs, ParkedJobs, QueuedJobs
<1>2. Inv /\ Inv' /\ [Next]_vars => [Lifecycle!Next]_Stage
  <2> SUFFICES ASSUME Inv, Inv', [Next]_vars PROVE Lifecycle!Next \/ UNCHANGED Stage
    OBVIOUS
  <2>1. Stage = [j \in Jobs |-> StageAt(j)]
    BY StageIs DEF IInv
  <2>2. Stage' = [j \in Jobs |-> StageAt(j)']
    <3>1. (TypeOK /\ StartInv /\ SignalInv)'
      BY DEF IInv
    <3>2. (Stage = [j \in Jobs |-> StageAt(j)])'
      BY <3>1, StageIs, PTL
    <3> QED
      BY <3>2
  <2>3. CASE Next
    BY <2>1, <2>2, <2>3, NextLives, LivesMoves DEF IInv, LifecycleInv
  <2>4. CASE UNCHANGED vars
    BY <2>1, <2>2, <2>4, StageUnchanged
  <2> QED
    BY <2>3, <2>4
<1>3. Spec => []Inv
  BY LifecycleAlways
<1> HIDE DEF Inv
<1> QED
  BY <1>1, <1>2, <1>3, PTL DEF Spec, ImplementsLifecycle, Lifecycle!Spec
=============================================================================
