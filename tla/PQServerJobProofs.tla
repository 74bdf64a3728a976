-------------------------- MODULE PQServerJobProofs -------------------------
(***************************************************************************)
(* One entry per job.  Every move of an entry between the tables is a push *)
(* and a pop, or a pop and a push, with the handlers in between; what they *)
(* find there they only remove.                                            *)
(***************************************************************************)
EXTENDS PQServerQueueProofs

DistinctJobs(s) == \A a, b \in DOMAIN s : s[a].job = s[b].job => a = b

(* The jobs of all entries but the first. *)
JobsBehind(s) == {s[k].job : k \in DOMAIN s \ {1}}

(* What flush_jobs and remove_process do to a queue. *)
Popped(t, s)    == t = s \/ (s # <<>> /\ t = Tail(s))
Shortened(t, s) == Popped(t, s) \/ \E k \in DOMAIN s : t = RemoveAt(s, k)
-----------------------------------------------------------------------------
LEMMA TailFacts ==
  ASSUME NEW S, NEW s \in Seq(S), s # <<>>
  PROVE  /\ Tail(s) \in Seq(S) /\ Len(s) \in Nat \ {0} /\ Len(Tail(s)) = Len(s) - 1
         /\ DOMAIN s = 1..Len(s) /\ DOMAIN Tail(s) = 1..Len(s)-1
         /\ \A k \in 1..Len(s)-1 : Tail(s)[k] = s[k+1]
         /\ Head(s) = s[1]
<1>1. /\ Tail(s) \in Seq(S) /\ Len(s) \in Nat /\ Len(Tail(s)) = Len(s) - 1
      /\ \A k \in 1..Len(s)-1 : Tail(s)[k] = s[k+1]
      /\ Head(s) = s[1]
  BY HeadTailProperties, LenProperties
<1>2. Len(s) # 0
  BY EmptySeq
<1> QED
  BY <1>1, <1>2, LenProperties

LEMMA RemoveAtFacts ==
  ASSUME NEW S, NEW s \in Seq(S), NEW k \in DOMAIN s
  PROVE  /\ RemoveAt(s, k) \in Seq(S) /\ Len(s) \in Nat \ {0} /\ DOMAIN s = 1..Len(s)
         /\ Len(RemoveAt(s, k)) = Len(s) - 1 /\ DOMAIN RemoveAt(s, k) = 1..Len(s)-1
         /\ \A a \in 1..Len(s)-1 : RemoveAt(s, k)[a] = s[IF a < k THEN a ELSE a + 1]
<1> DEFINE before == SubSeq(s, 1, k-1)
           after  == SubSeq(s, k+1, Len(s))
<1>0. Len(s) \in Nat /\ DOMAIN s = 1..Len(s) /\ k \in 1..Len(s)
  BY LenProperties
<1>1. /\ before \in Seq(S) /\ Len(before) = k - 1
      /\ \A a \in 1..k-1 : before[a] = s[a]
  BY <1>0, SubSeqProperties, ElementOfSeq
<1>2. /\ after \in Seq(S) /\ Len(after) = Len(s) - k
      /\ \A a \in 1..Len(s)-k : after[a] = s[k + a]
  BY <1>0, SubSeqProperties, ElementOfSeq
<1>3. RemoveAt(s, k) = before \o after
  BY DEF RemoveAt
<1> HIDE DEF before, after
<1>4. /\ before \o after \in Seq(S)
      /\ Len(before \o after) = Len(s) - 1
      /\ \A a \in 1..Len(s)-1 :
           (before \o after)[a] = IF a <= k - 1 THEN before[a] ELSE after[a - (k - 1)]
  <2>1. /\ before \o after \in Seq(S)
        /\ Len(before \o after) = Len(before) + Len(after)
        /\ \A a \in 1..Len(before)+Len(after) :
             (before \o after)[a] = IF a <= Len(before) THEN before[a] ELSE after[a - Len(before)]
    BY <1>1, <1>2, ConcatProperties
  <2>2. Len(before) + Len(after) = Len(s) - 1
    BY <1>0, <1>1, <1>2
  <2> QED
    BY <1>1, <2>1, <2>2
<1>5. ASSUME NEW a \in 1..Len(s)-1
      PROVE  (before \o after)[a] = s[IF a < k THEN a ELSE a + 1]
  <2>1. CASE a < k
    BY <1>0, <1>1, <1>4, <2>1
  <2>2. CASE ~(a < k)
    <3>1. a - (k - 1) \in 1..Len(s)-k /\ k + (a - (k - 1)) = a + 1
      BY <1>0, <2>2
    <3> QED
      BY <1>0, <1>2, <1>4, <2>2, <3>1
  <2> QED
    BY <2>1, <2>2
<1>6. DOMAIN (before \o after) = 1..Len(s)-1
  BY <1>4, LenProperties
<1>7. Len(s) # 0
  BY <1>0
<1> QED
  BY <1>0, <1>3, <1>4, <1>5, <1>6, <1>7

(* Removing an entry keeps the others, in their order. *)
LEMMA RemoveAtJobs ==
  ASSUME NEW s \in Seq(Process), NEW k \in DOMAIN s
  PROVE  /\ {RemoveAt(s, k)[a] : a \in DOMAIN RemoveAt(s, k)} = {s[a] : a \in DOMAIN s \ {k}}
         /\ JobsBehind(RemoveAt(s, k)) \subseteq JobsBehind(s)
         /\ DistinctJobs(s) => DistinctJobs(RemoveAt(s, k))
<1> DEFINE t == RemoveAt(s, k)
           from(a) == IF a < k THEN a ELSE a + 1
<1>1. /\ Len(s) \in Nat \ {0} /\ DOMAIN s = 1..Len(s) /\ DOMAIN t = 1..Len(s)-1
      /\ \A a \in 1..Len(s)-1 : t[a] = s[from(a)]
  BY RemoveAtFacts
<1>2. \A a \in 1..Len(s)-1 : from(a) \in DOMAIN s \ {k} /\ from(a) \in 1..Len(s) /\ (a # 1 => from(a) # 1)
  BY <1>1
<1>3. \A a, b \in 1..Len(s)-1 : from(a) = from(b) => a = b
  BY <1>1
<1>4. \A b \in DOMAIN s \ {k} : \E a \in 1..Len(s)-1 : from(a) = b
  <2> SUFFICES ASSUME NEW b \in DOMAIN s, b # k PROVE \E a \in 1..Len(s)-1 : from(a) = b
    OBVIOUS
  <2>1. CASE b < k
    <3>1. b \in 1..Len(s)-1 /\ from(b) = b
      BY <1>1, <2>1
    <3> QED
      BY <3>1
  <2>2. CASE b > k
    <3>1. b - 1 \in 1..Len(s)-1 /\ from(b - 1) = b
      BY <1>1, <2>2
    <3> QED
      BY <3>1
  <2> QED
    BY <1>1, <2>1, <2>2
<1> HIDE DEF t, from
<1>5. {t[a] : a \in DOMAIN t} = {s[a] : a \in DOMAIN s \ {k}}
  <2>1. ASSUME NEW a \in DOMAIN t PROVE \E b \in DOMAIN s \ {k} : t[a] = s[b]
    BY <1>1, <1>2
  <2>2. ASSUME NEW b \in DOMAIN s \ {k} PROVE \E a \in DOMAIN t : t[a] = s[b]
    BY <1>1, <1>4
  <2> QED
    BY <2>1, <2>2
<1>6. JobsBehind(t) \subseteq JobsBehind(s)
  <2> SUFFICES ASSUME NEW a \in DOMAIN t \ {1} PROVE t[a].job \in JobsBehind(s)
    BY DEF JobsBehind
  <2>1. t[a] = s[from(a)] /\ from(a) \in DOMAIN s \ {1}
    BY <1>1, <1>2
  <2> QED
    BY <2>1 DEF JobsBehind
<1>7. DistinctJobs(s) => DistinctJobs(t)
  BY <1>1, <1>2, <1>3 DEF DistinctJobs
<1> QED
  BY <1>5, <1>6, <1>7 DEF t

LEMMA TailJobs ==
  ASSUME NEW s \in Seq(Process), s # <<>>
  PROVE  /\ {Tail(s)[a] : a \in DOMAIN Tail(s)} = {s[a] : a \in DOMAIN s \ {1}}
         /\ JobsIn(Tail(s)) = JobsBehind(s)
         /\ JobsIn(s) = {Head(s).job} \cup JobsBehind(s)
         /\ JobsBehind(Tail(s)) \subseteq JobsBehind(s)
         /\ DistinctJobs(s) => DistinctJobs(Tail(s)) /\ Head(s).job \notin JobsBehind(s)
<1>1. /\ Len(s) \in Nat \ {0} /\ DOMAIN s = 1..Len(s) /\ DOMAIN Tail(s) = 1..Len(s)-1
      /\ \A k \in 1..Len(s)-1 : Tail(s)[k] = s[k+1]
      /\ Head(s) = s[1]
  BY TailFacts
<1>2. \A b \in DOMAIN s \ {1} : b - 1 \in DOMAIN Tail(s) /\ Tail(s)[b - 1] = s[b]
  BY <1>1
<1>3. \A a \in DOMAIN Tail(s) : a + 1 \in DOMAIN s \ {1} /\ Tail(s)[a] = s[a + 1]
  BY <1>1
<1>4. {Tail(s)[a] : a \in DOMAIN Tail(s)} = {s[a] : a \in DOMAIN s \ {1}}
  BY <1>2, <1>3
<1>5. JobsIn(Tail(s)) = JobsBehind(s)
  <2>1. ASSUME NEW a \in DOMAIN Tail(s) PROVE Tail(s)[a].job \in JobsBehind(s)
    BY <1>3 DEF JobsBehind
  <2>2. ASSUME NEW b \in DOMAIN s \ {1} PROVE s[b].job \in JobsIn(Tail(s))
    BY <1>2 DEF JobsIn
  <2> QED
    BY <2>1, <2>2 DEF JobsIn, JobsBehind
<1>6. JobsIn(s) = {Head(s).job} \cup JobsBehind(s)
  BY <1>1 DEF JobsIn, JobsBehind
<1>7. JobsBehind(Tail(s)) \subseteq JobsBehind(s)
  BY <1>3 DEF JobsBehind
<1>8. ASSUME DistinctJobs(s) PROVE DistinctJobs(Tail(s)) /\ Head(s).job \notin JobsBehind(s)
  BY <1>1, <1>3, <1>8 DEF DistinctJobs, JobsBehind
<1> QED
  BY <1>4, <1>5, <1>6, <1>7, <1>8

LEMMA ShortenedJobs ==
  ASSUME NEW s \in Seq(Process), NEW t, Shortened(t, s)
  PROVE  /\ t \in Seq(Process)
         /\ {t[a] : a \in DOMAIN t} \subseteq {s[a] : a \in DOMAIN s}
         /\ JobsIn(t) \subseteq JobsIn(s) /\ JobsBehind(t) \subseteq JobsBehind(s)
         /\ DistinctJobs(s) => DistinctJobs(t)
<1>1. CASE t = s
  BY <1>1
<1>2. CASE s # <<>> /\ t = Tail(s)
  BY <1>2, TailJobs, TailFacts
<1>3. CASE \E k \in DOMAIN s : t = RemoveAt(s, k)
  <2>1. PICK k \in DOMAIN s : t = RemoveAt(s, k)
    BY <1>3
  <2>2. t \in Seq(Process)
    BY <2>1, RemoveAtFacts
  <2>3. /\ {t[a] : a \in DOMAIN t} = {s[a] : a \in DOMAIN s \ {k}}
        /\ JobsBehind(t) \subseteq JobsBehind(s)
        /\ DistinctJobs(s) => DistinctJobs(t)
    BY <2>1, RemoveAtJobs
  <2>4. {t[a] : a \in DOMAIN t} \subseteq {s[a] : a \in DOMAIN s}
    BY <2>3
  <2>5. JobsIn(t) \subseteq JobsIn(s)
    BY <2>4 DEF JobsIn
  <2> QED
    BY <2>2, <2>3, <2>4, <2>5
<1> QED
  BY <1>1, <1>2, <1>3 DEF Shortened, Popped

LEMMA AppendJobs ==
  ASSUME NEW s \in Seq(Process), NEW e \in Process
  PROVE  /\ {Append(s, e)[a] : a \in DOMAIN Append(s, e)} = {s[a] : a \in DOMAIN s} \cup {e}
         /\ JobsIn(Append(s, e)) = JobsIn(s) \cup {e.job}
         /\ DistinctJobs(s) /\ e.job \notin JobsIn(s) => DistinctJobs(Append(s, e))
<1>1. /\ Append(s, e) \in Seq(Process) /\ Len(s) \in Nat
      /\ Len(Append(s, e)) = Len(s) + 1
      /\ \A k \in 1..Len(s) : Append(s, e)[k] = s[k]
      /\ Append(s, e)[Len(s) + 1] = e
  BY AppendProperties, LenProperties
<1>2. DOMAIN s = 1..Len(s) /\ DOMAIN Append(s, e) = 1..Len(s)+1
  BY <1>1, LenProperties
<1>3. DOMAIN Append(s, e) = DOMAIN s \cup {Len(s) + 1}
  BY <1>1, <1>2
<1> QED
  BY <1>1, <1>2, <1>3 DEF JobsIn, DistinctJobs

LEMMA ConcatJobs ==
  ASSUME NEW s \in Seq(Process), NEW t \in Seq(Process)
  PROVE  /\ {(s \o t)[a] : a \in DOMAIN (s \o t)}
               = {s[a] : a \in DOMAIN s} \cup {t[a] : a \in DOMAIN t}
         /\ JobsIn(s \o t) = JobsIn(s) \cup JobsIn(t)
         /\ DistinctJobs(s) /\ DistinctJobs(t) /\ JobsIn(s) \cap JobsIn(t) = {}
              => DistinctJobs(s \o t)
<1> DEFINE m == Len(s)
           n == Len(t)
<1>1. m \in Nat /\ n \in Nat /\ DOMAIN s = 1..m /\ DOMAIN t = 1..n
  BY LenProperties
<1>2. /\ s \o t \in Seq(Process) /\ Len(s \o t) = m + n
      /\ \A k \in 1..m+n : (s \o t)[k] = IF k <= m THEN s[k] ELSE t[k - m]
  BY <1>1, ConcatProperties
<1>3. DOMAIN (s \o t) = 1..m+n
  BY <1>2, LenProperties
<1> HIDE DEF m, n
<1>4. \A k \in 1..m+n : \/ k \in DOMAIN s /\ (s \o t)[k] = s[k]
                        \/ k - m \in DOMAIN t /\ (s \o t)[k] = t[k - m]
  BY <1>1, <1>2
<1>5. \A k \in DOMAIN s : k \in 1..m+n /\ (s \o t)[k] = s[k]
  BY <1>1, <1>2
<1>6. \A k \in DOMAIN t : m + k \in 1..m+n /\ (s \o t)[m + k] = t[k]
  BY <1>1, <1>2
<1>7. {(s \o t)[a] : a \in DOMAIN (s \o t)} = {s[a] : a \in DOMAIN s} \cup {t[a] : a \in DOMAIN t}
  <2>1. ASSUME NEW k \in DOMAIN (s \o t)
        PROVE  (s \o t)[k] \in {s[a] : a \in DOMAIN s} \cup {t[a] : a \in DOMAIN t}
    BY <1>3, <1>4
  <2>2. ASSUME NEW k \in DOMAIN s PROVE s[k] \in {(s \o t)[a] : a \in DOMAIN (s \o t)}
    BY <1>3, <1>5
  <2>3. ASSUME NEW k \in DOMAIN t PROVE t[k] \in {(s \o t)[a] : a \in DOMAIN (s \o t)}
    BY <1>3, <1>6
  <2> QED
    BY <2>1, <2>2, <2>3
<1>8. JobsIn(s \o t) = JobsIn(s) \cup JobsIn(t)
  <2>1. ASSUME NEW k \in DOMAIN (s \o t) PROVE (s \o t)[k].job \in JobsIn(s) \cup JobsIn(t)
    BY <1>3, <1>4 DEF JobsIn
  <2>2. ASSUME NEW k \in DOMAIN s PROVE s[k].job \in JobsIn(s \o t)
    BY <1>3, <1>5 DEF JobsIn
  <2>3. ASSUME NEW k \in DOMAIN t PROVE t[k].job \in JobsIn(s \o t)
    BY <1>3, <1>6 DEF JobsIn
  <2> QED
    BY <2>1, <2>2, <2>3 DEF JobsIn
<1>9. ASSUME DistinctJobs(s), DistinctJobs(t), JobsIn(s) \cap JobsIn(t) = {},
             NEW a \in 1..m+n, NEW b \in 1..m+n, (s \o t)[a].job = (s \o t)[b].job
      PROVE  a = b
  <2>1. \A x \in DOMAIN s, y \in DOMAIN t : s[x].job # t[y].job
    BY <1>9 DEF JobsIn
  <2>2. CASE a \in DOMAIN s /\ (s \o t)[a] = s[a] /\ b \in DOMAIN s /\ (s \o t)[b] = s[b]
    BY <1>9, <2>2 DEF DistinctJobs
  <2>3. CASE /\ a - m \in DOMAIN t /\ (s \o t)[a] = t[a - m]
             /\ b - m \in DOMAIN t /\ (s \o t)[b] = t[b - m]
    <3>1. a - m = b - m
      BY <1>9, <2>3 DEF DistinctJobs
    <3> QED
      BY <1>1, <3>1
  <2> QED
    BY <1>4, <1>9, <2>1, <2>2, <2>3
<1> QED
  BY <1>3, <1>7, <1>8, <1>9 DEF DistinctJobs

LEMMA FrontJobs ==
  ASSUME NEW s \in Seq(Process), NEW e \in Process
  PROVE  /\ {(<<e>> \o s)[a] : a \in DOMAIN (<<e>> \o s)} = {e} \cup {s[a] : a \in DOMAIN s}
         /\ JobsIn(<<e>> \o s) = {e.job} \cup JobsIn(s)
         /\ DistinctJobs(s) /\ e.job \notin JobsIn(s) => DistinctJobs(<<e>> \o s)
<1>1. <<e>> \in Seq(Process) /\ {<<e>>[a] : a \in DOMAIN <<e>>} = {e}
  OBVIOUS
<1>2. JobsIn(<<e>>) = {e.job} /\ DistinctJobs(<<e>>)
  BY DEF JobsIn, DistinctJobs
<1> QED
  BY <1>1, <1>2, ConcatJobs

(* Nothing about the jobs changes when other fields are assigned. *)
LEMMA SameJobs ==
  ASSUME NEW s, NEW t, DOMAIN t = DOMAIN s, \A k \in DOMAIN s : t[k].job = s[k].job
  PROVE  JobsIn(t) = JobsIn(s) /\ JobsBehind(t) = JobsBehind(s) /\ (DistinctJobs(s) => DistinctJobs(t))
  BY DEF JobsIn, JobsBehind, DistinctJobs

LEMMA BoostedJobs ==
  ASSUME NEW s \in Seq(Process)
  PROVE  JobsIn(Boosted(s)) = JobsIn(s) /\ (DistinctJobs(s) => DistinctJobs(Boosted(s)))
<1>1. DOMAIN s = 1..Len(s) /\ \A k \in 1..Len(s) : s[k] \in Process
  BY LenProperties, ElementOfSeq
<1>2. DOMAIN Boosted(s) = DOMAIN s /\ \A k \in DOMAIN s : Boosted(s)[k].job = s[k].job
  BY <1>1 DEF Boosted, Process
<1> QED
  BY <1>2, SameJobs
-----------------------------------------------------------------------------
(* Each runner is called for its own policy; executeJob, which fifo and    *)
(* round robin share, returns to the one that called it.                   *)
ThreadOfPolicy ==
  /\ Thread \in MlfqSteps => Policy = "mlfq"
  /\ Thread = "fifo" => Policy = "fifo"
  /\ Thread \in {"exec_fork", "exec_push"} => Policy # "mlfq"
  /\ Thread \in {"rrobin", "rrobin_requeue", "rrobin_fill", "rrobin_push"} => Policy = "rdrn"

LEMMA PolicyStep == TypeOK /\ LocalsOK /\ ThreadOfPolicy /\ [Next]_vars => ThreadOfPolicy'
<1> SUFFICES ASSUME TypeOK, LocalsOK, ThreadOfPolicy, Next PROVE ThreadOfPolicy'
  BY DEF ThreadOfPolicy, Thread, vars, loopVars
<1> USE SchedulerAssumption
<1>1. CASE UNCHANGED <<Thread, copy, idx>>
  BY <1>1 DEF ThreadOfPolicy
<1>2. CASE interrupted = "none" /\ interrupted' = "none" /\ (Poll \/ PollStdin \/ Request)
  BY <1>2 DEF Poll, PollStdin, Request, AddJob, FlushRequest, FlushReturn, StatusCounts,
     StatusLists, Query, AfterAccept, MlfqSteps, Thread, ThreadOfPolicy
<1>3. CASE interrupted = "none" /\ interrupted' = "none" /\ SchedulerStep
  <2>0. Thread = pc /\ Thread' = pc'
    BY <1>3 DEF Thread
  <2> USE DEF At, ThreadOfPolicy
  <2>1. CASE StatRead \/ StatOpen \/ StatScan
    BY <2>0, <2>1 DEF StatRead, StatOpen, StatScan, MlfqSteps
  <2>2. CASE ExecuteJobFork \/ ExecuteJobPush
    BY <2>0, <2>2 DEF ExecuteJobFork, ExecuteJobPush, CallersLoop, MlfqSteps
  <2>3. CASE FifoRunner \/ RRobinPause \/ RRobinRequeue \/ RRobinFill \/ RRobinPush
    BY <2>0, <2>3 DEF FifoRunner, ExecuteJob, RRobinPause, PauseProcess, RRobinRequeue, RRobinFill,
       RRobinPush, MlfqSteps
  <2>4. CASE \/ MlfqFront \/ MlfqPop \/ MlfqRequeue \/ MlfqBoostDue \/ MlfqBoost \/ MlfqAdmit
             \/ MlfqFill \/ MlfqPush
    <3>1. pc \in MlfqSteps
      BY <2>4 DEF MlfqFront, MlfqPop, MlfqRequeue, MlfqBoostDue, MlfqBoost, MlfqAdmit, MlfqFill,
         MlfqPush, MlfqSteps
    <3>2. pc' \in MlfqSteps \cup {"undefined", "group_stopped", "poll"}
      BY <2>4 DEF MlfqFront, MlfqPop, MlfqRequeue, PauseProcess, MlfqBoostDue, MlfqBoost,
         MlfqAdmit, MlfqFill, MlfqDispatch, MlfqPush, MlfqSteps
    <3> QED
      BY <2>0, <3>1, <3>2 DEF MlfqSteps
  <2>5. CASE FlushKill \/ FlushPop \/ FlushQueue
    BY <2>0, <2>5 DEF FlushKill, TerminateProcess, FlushPop, FlushQueue, FlushEntry, QueueFlushed,
       MlfqSteps
  <2> QED
    BY <1>3, <2>1, <2>2, <2>3, <2>4, <2>5 DEF SchedulerStep
<1> QED
  BY <1>1, <1>2, <1>3, OneThread
-----------------------------------------------------------------------------
Shrinking ==
  /\ Popped(waiting', waiting) /\ Shortened(running', running)
  /\ \A l \in 0..NumLevels-1 : Popped(levels'[l], levels[l])

LEMMA UnchangedShrinks == UNCHANGED tableVars => Shrinking
  BY DEF tableVars, Shrinking, Shortened, Popped

LEMMA FlushShrinks == TypeOK /\ (FlushKill \/ FlushPop \/ FlushQueue) => Shrinking
<1> SUFFICES ASSUME TypeOK, FlushKill \/ FlushPop \/ FlushQueue PROVE Shrinking
  OBVIOUS
<1>0. levels \in [0..NumLevels-1 -> Seq(Process)]
  BY DEF TypeOK
<1>1. CASE FlushKill
  BY <1>1, UnchangedShrinks DEF FlushKill
<1>2. CASE FlushPop
  BY <1>2 DEF FlushPop, Shrinking, Shortened, Popped
<1>3. CASE FlushQueue
  <2>1. ASSUME NEW l \in 0..NumLevels-1, levels[l] # <<>>,
               levels' = [levels EXCEPT ![l] = Tail(levels[l])], UNCHANGED <<waiting, running>>
        PROVE  Shrinking
    BY <1>0, <2>1 DEF Shrinking, Shortened, Popped
  <2>2. ASSUME waiting # <<>>, waiting' = Tail(waiting), UNCHANGED <<levels, running>>
        PROVE  Shrinking
    BY <2>2 DEF Shrinking, Shortened, Popped
  <2> QED
    BY <1>3, <2>1, <2>2, UnchangedShrinks DEF FlushQueue, QueueFlushed, tableVars
<1> QED
  BY <1>1, <1>2, <1>3

(* No child is forked, stopped or resumed, but children may die.           *)
Quiet == \A j \in Jobs : proc'[j] = proc[j] \/ (proc[j] # "unborn" /\ proc'[j] \in {"zombie", "reaped"})

LEMMA UnchangedQuiet == UNCHANGED proc => Quiet
  BY DEF Quiet

LEMMA FlushQuiet == TypeOK /\ (FlushKill \/ FlushPop \/ FlushQueue) => Quiet
<1> SUFFICES ASSUME TypeOK, FlushKill \/ FlushPop \/ FlushQueue PROVE Quiet
  OBVIOUS
<1>1. ASSUME NEW S, KillChildren(S) PROVE Quiet
  BY <1>1 DEF KillChildren, Quiet, Live
<1>2. CASE FlushKill
  BY <1>1, <1>2, UnchangedQuiet DEF FlushKill, TerminateProcess
<1>3. CASE FlushPop
  BY <1>3, UnchangedQuiet DEF FlushPop, childVars
<1>4. CASE FlushQueue
  BY <1>1, <1>4, UnchangedQuiet DEF FlushQueue, FlushEntry, QueueFlushed
<1> QED
  BY <1>2, <1>3, <1>4

(* A step that is not one of the thread itself leaves the thread where it  *)
(* is, with the copy it holds, at most removes entries, and at most kills. *)
LEMMA Interruption ==
  TypeOK /\ LocalsOK /\ Next =>
    \/ UNCHANGED <<Thread, copy, arrivals, starts, shown>> /\ Shrinking /\ Quiet
    \/ /\ interrupted = "none" /\ interrupted' = "none"
       /\ Poll \/ PollStdin \/ Request \/ SchedulerStep
<1> DEFINE Other == UNCHANGED <<Thread, copy, arrivals, starts, shown>> /\ Shrinking /\ Quiet
           ThreadStep == /\ interrupted = "none" /\ interrupted' = "none"
                         /\ Poll \/ PollStdin \/ Request \/ SchedulerStep
<1> SUFFICES ASSUME TypeOK, LocalsOK, Next PROVE Other \/ ThreadStep
  OBVIOUS
<1> USE DEF histVars, locals, loopVars, At
<1>1. CASE SigchldEnter \/ SigchldReturn \/ Types
  BY <1>1, UnchangedShrinks, UnchangedQuiet DEF SigchldEnter, SigchldReturn, Types, Thread, childVars
<1>2. ASSUME NEW j \in Jobs, Ends(j) \/ Computes(j) PROVE Other
  <2>1. Quiet
    BY <1>2 DEF Ends, Computes, ChildExits, ChildComputes, Quiet, Live, TypeOK, ChildrenTypeOK
  <2> QED
    BY <1>2, <2>1, UnchangedShrinks DEF Ends, Computes, Thread
<1>3. ASSUME NEW j \in Jobs, SigchldReap(j) PROVE Other
  <2>1. Quiet
    BY <1>3 DEF SigchldReap, ReapChild, Quiet, TypeOK, ChildrenTypeOK
  <2> QED
    BY <1>3, <2>1 DEF SigchldReap, RemoveProcess, Shrinking, Shortened, Popped, Thread
<1>4. CASE SigintEnter
  <2>1. Thread' = Thread
    BY <1>4 DEF SigintEnter, Thread, TypeOK, Locations, Halted
  <2> QED
    BY <1>4, <2>1, UnchangedShrinks, UnchangedQuiet DEF SigintEnter, childVars
<1>7. CASE FlushReturn /\ interrupted # "none"
  BY <1>7, UnchangedShrinks, UnchangedQuiet DEF FlushReturn, Thread, childVars
<1>5. CASE interrupted = "none" /\ MainStep
  BY <1>5 DEF MainStep, Poll, PollStdin, Request, AddJob, FlushRequest, FlushReturn, StatusCounts,
     StatusLists, Query, SchedulerStep
<1>6. CASE interrupted # "none" /\ MainStep /\ ~FlushReturn
  <2>1. pc \in Flushing \cup Halted
    BY <1>6 DEF LocalsOK
  <2>2. (FlushKill \/ FlushPop \/ FlushQueue) /\ UNCHANGED interrupted
    BY <1>6, <2>1 DEF MainStep, Poll, PollStdin, Request, AddJob, FlushRequest, StatusCounts,
       StatusLists, Query, SchedulerStep, ExecuteJobFork, ExecuteJobPush, StatRead, StatOpen,
       StatScan, FifoRunner, RRobinPause, RRobinRequeue, RRobinFill, RRobinPush, MlfqFront,
       MlfqPop, MlfqRequeue, MlfqBoostDue, MlfqBoost, MlfqAdmit, MlfqFill, MlfqPush, Flushing,
       Halted
  <2>3. UNCHANGED <<copy, arrivals, starts, shown>>
    BY <1>6, <2>1, <2>2 DEF FlushKill, FlushPop, FlushQueue, MainStep, Poll, PollStdin, Request, AddJob,
       FlushRequest, StatusCounts, StatusLists, Query, SchedulerStep, Flushing, Halted
  <2> QED
    BY <1>6, <2>2, <2>3, FlushShrinks, FlushQuiet DEF Thread
<1> QED
  BY <1>1, <1>2, <1>3, <1>4, <1>5, <1>6, <1>7 DEF Next, MainStep, Request, Handler
-----------------------------------------------------------------------------
JobsInLevels == UNION {JobsIn(levels[l]) : l \in 0..NumLevels-1}
TabledJobs   == JobsIn(waiting) \cup JobsIn(running) \cup JobsInLevels

Apart ==
  /\ DistinctJobs(waiting) /\ DistinctJobs(running)
  /\ \A l \in 0..NumLevels-1 : DistinctJobs(levels[l])
  /\ JobsIn(waiting) \cap JobsIn(running) = {}
  /\ \A l \in 0..NumLevels-1 : JobsIn(levels[l]) \cap (JobsIn(waiting) \cup JobsIn(running)) = {}
  /\ \A l, m \in 0..NumLevels-1 : l # m => JobsIn(levels[l]) \cap JobsIn(levels[m]) = {}

(* The thread holds a copy of an entry that is to move.  The entry itself  *)
(* is still the first of its queue, unless a handler has removed it, or it *)
(* is in no queue.                                                         *)
Moving == {"exec_fork", "rrobin_requeue", "mlfq_pop", "mlfq_requeue", "mlfq_push"}

CopyApart ==
  /\ Thread \in {"rrobin_requeue", "mlfq_pop"} =>
       copy.job \notin JobsIn(waiting) \cup JobsBehind(running) \cup JobsInLevels
  /\ Thread = "exec_fork" =>
       copy.job \notin JobsBehind(waiting) \cup JobsIn(running) \cup JobsInLevels
  /\ Thread \in {"mlfq_requeue", "mlfq_push"} => copy.job \notin TabledJobs

(* Nothing is in a table or was started that was not submitted. *)
KnownJobs ==
  /\ TabledJobs \cup ToSet(starts) \subseteq ToSet(arrivals)
  /\ Thread \in Moving => copy.job \in ToSet(arrivals)

EntriesInv == Apart /\ CopyApart /\ KnownJobs

LEMMA ToSetAppend ==
  ASSUME NEW S, NEW s \in Seq(S), NEW e \in S
  PROVE  ToSet(Append(s, e)) = ToSet(s) \cup {e}
<1>1. /\ Append(s, e) \in Seq(S) /\ Len(s) \in Nat
      /\ Len(Append(s, e)) = Len(s) + 1
      /\ \A k \in 1..Len(s) : Append(s, e)[k] = s[k]
      /\ Append(s, e)[Len(s) + 1] = e
  BY AppendProperties, LenProperties
<1>2. DOMAIN s = 1..Len(s) /\ DOMAIN Append(s, e) = 1..Len(s)+1
  BY <1>1, LenProperties
<1>3. DOMAIN Append(s, e) = DOMAIN s \cup {Len(s) + 1}
  BY <1>1, <1>2
<1> QED
  BY <1>1, <1>2, <1>3 DEF ToSet

LEMMA InitEntries == Init => EntriesInv
<1> SUFFICES ASSUME Init PROVE EntriesInv
  OBVIOUS
<1>1. /\ DistinctJobs(<<>>) /\ JobsIn(<<>>) = {} /\ ToSet(<<>>) = {}
  BY DEF DistinctJobs, JobsIn, ToSet
<1>2. \A l \in 0..NumLevels-1 : levels[l] = <<>>
  BY DEF Init
<1>3. JobsInLevels = {}
  BY <1>1, <1>2 DEF JobsInLevels
<1> QED
  BY <1>1, <1>2, <1>3
     DEF Init, EntriesInv, Apart, CopyApart, KnownJobs, TabledJobs, Thread, Moving

LEMMA ShrinkingJobs ==
  ASSUME TypeOK, Shrinking
  PROVE  /\ JobsIn(waiting)' \subseteq JobsIn(waiting) /\ JobsIn(running)' \subseteq JobsIn(running)
         /\ JobsBehind(waiting)' \subseteq JobsBehind(waiting)
         /\ JobsBehind(running)' \subseteq JobsBehind(running)
         /\ \A l \in 0..NumLevels-1 : JobsIn(levels'[l]) \subseteq JobsIn(levels[l])
         /\ JobsInLevels' \subseteq JobsInLevels /\ TabledJobs' \subseteq TabledJobs
         /\ Apart => Apart'
<1>1. /\ JobsIn(waiting') \subseteq JobsIn(waiting) /\ JobsBehind(waiting') \subseteq JobsBehind(waiting)
      /\ DistinctJobs(waiting) => DistinctJobs(waiting')
  BY ShortenedJobs DEF TypeOK, Shrinking, Shortened
<1>2. /\ JobsIn(running') \subseteq JobsIn(running) /\ JobsBehind(running') \subseteq JobsBehind(running)
      /\ DistinctJobs(running) => DistinctJobs(running')
  BY ShortenedJobs DEF TypeOK, Shrinking, Shortened
<1>3. \A l \in 0..NumLevels-1 : /\ JobsIn(levels'[l]) \subseteq JobsIn(levels[l])
                                /\ DistinctJobs(levels[l]) => DistinctJobs(levels'[l])
  BY ShortenedJobs DEF TypeOK, Shrinking, Shortened
<1>4. /\ JobsIn(waiting)' = JobsIn(waiting') /\ JobsIn(running)' = JobsIn(running')
      /\ JobsBehind(waiting)' = JobsBehind(waiting') /\ JobsBehind(running)' = JobsBehind(running')
  BY DEF JobsIn, JobsBehind
<1>5. JobsInLevels' \subseteq JobsInLevels
  BY <1>3 DEF JobsInLevels
<1>6. TabledJobs' \subseteq TabledJobs
  BY <1>1, <1>2, <1>5 DEF TabledJobs
<1>7. Apart => Apart'
  BY <1>1, <1>2, <1>3 DEF Apart
<1> QED
  BY <1>1, <1>2, <1>3, <1>4, <1>5, <1>6, <1>7

(* A handler that interrupts the thread only removes entries. *)
LEMMA EntriesInterrupted ==
  ASSUME TypeOK, EntriesInv, UNCHANGED <<Thread, copy, arrivals, starts>>, Shrinking
  PROVE  EntriesInv'
<1>1. Apart'
  BY ShrinkingJobs DEF EntriesInv
<1>2. CopyApart'
  BY ShrinkingJobs DEF EntriesInv, CopyApart
<1>3. KnownJobs'
  BY ShrinkingJobs DEF EntriesInv, KnownJobs
<1> QED
  BY <1>1, <1>2, <1>3 DEF EntriesInv

(* Every move of the thread takes an entry to where its job is not. *)
LEMMA EntriesThreadStep ==
  ASSUME TypeOK, LocalsOK, EntriesInv, interrupted = "none", interrupted' = "none",
         Poll \/ PollStdin \/ Request \/ SchedulerStep
  PROVE  EntriesInv'
<1> USE SchedulerAssumption
<1> USE DEF tableVars, histVars, locals, At
<1>p. Thread = pc /\ Thread' = pc' /\ LocalsHere
  BY LocalsAtPc DEF Thread
<1>w. waiting \in Seq(Process) /\ running \in Seq(Process)
  BY DEF TypeOK
<1>v. levels \in [0..NumLevels-1 -> Seq(Process)]
  BY DEF TypeOK
<1>s. starts \in Seq(Jobs) /\ arrivals \in Seq(Jobs)
  BY DEF TypeOK
<1>c. pc \in Moving => copy \in Process
  BY <1>p DEF Moving, LocalsHere, CopyHeld
<1>l. /\ \A l \in 0..NumLevels-1 : JobsIn(levels[l]) \subseteq JobsInLevels
      /\ \A j \in JobsInLevels : \E l \in 0..NumLevels-1 : j \in JobsIn(levels[l])
  BY DEF JobsInLevels
<1>d. JobsInLevels \cap (JobsIn(waiting) \cup JobsIn(running)) = {}
  BY <1>l DEF EntriesInv, Apart
(* The tables stay, and nothing is held.                                   *)
<1>1. ASSUME UNCHANGED <<tableVars, arrivals, starts>>, pc' \notin Moving PROVE EntriesInv'
  BY <1>p, <1>1 DEF EntriesInv, Apart, CopyApart, KnownJobs, TabledJobs, JobsInLevels, Moving
(* The tables stay, and the first entry of a queue is copied.              *)
<1>2. ASSUME UNCHANGED <<tableVars, arrivals, starts>>, running # <<>>, copy' = Head(running),
             pc' \in {"rrobin_requeue", "mlfq_pop"}
      PROVE  EntriesInv'
  <2>1. JobsIn(running) = {copy'.job} \cup JobsBehind(running) /\ copy'.job \notin JobsBehind(running)
    BY <1>w, <1>2, TailJobs DEF EntriesInv, Apart
  <2>2. copy'.job \notin JobsIn(waiting) \cup JobsInLevels /\ copy'.job \in ToSet(arrivals)
    BY <1>d, <2>1 DEF EntriesInv, Apart, KnownJobs, TabledJobs
  <2>3. Apart' /\ JobsInLevels' = JobsInLevels /\ TabledJobs' = TabledJobs
    BY <1>2 DEF EntriesInv, Apart, TabledJobs, JobsInLevels
  <2>4. CopyApart'
    BY <1>p, <1>2, <2>1, <2>2, <2>3 DEF CopyApart
  <2>5. KnownJobs'
    BY <1>2, <2>2, <2>3 DEF EntriesInv, KnownJobs
  <2> QED
    BY <2>3, <2>4, <2>5 DEF EntriesInv
<1>3. ASSUME waiting # <<>>, ExecuteJob PROVE EntriesInv'
  <2>0. UNCHANGED <<tableVars, arrivals, starts>> /\ copy' = Head(waiting) /\ pc' = "exec_fork"
    BY <1>3 DEF ExecuteJob
  <2>1. JobsIn(waiting) = {copy'.job} \cup JobsBehind(waiting) /\ copy'.job \notin JobsBehind(waiting)
    BY <1>w, <1>3, <2>0, TailJobs DEF EntriesInv, Apart
  <2>2. copy'.job \notin JobsIn(running) \cup JobsInLevels /\ copy'.job \in ToSet(arrivals)
    BY <1>d, <2>1 DEF EntriesInv, Apart, KnownJobs, TabledJobs
  <2> QED
    BY <1>p, <2>0, <2>1, <2>2 DEF EntriesInv, Apart, CopyApart, KnownJobs, TabledJobs, JobsInLevels
(* The levels stay, and waiting and running have other jobs.               *)
<1>4. ASSUME UNCHANGED <<levels, arrivals, starts>>, pc' \notin Moving,
             DistinctJobs(waiting'), DistinctJobs(running'),
             JobsIn(waiting') \cap JobsIn(running') = {},
             (JobsIn(waiting') \cup JobsIn(running')) \cap JobsInLevels = {},
             JobsIn(waiting') \cup JobsIn(running') \subseteq ToSet(arrivals)
      PROVE  EntriesInv'
  <2>1. Apart'
    BY <1>4, <1>l DEF EntriesInv, Apart
  <2>2. JobsInLevels' = JobsInLevels
    BY <1>4 DEF JobsInLevels
  <2>3. TabledJobs' = JobsIn(waiting') \cup JobsIn(running') \cup JobsInLevels
    BY <2>2 DEF TabledJobs
  <2> QED
    BY <1>p, <1>4, <2>1, <2>3 DEF EntriesInv, CopyApart, KnownJobs, TabledJobs, Moving
<1>5. CASE ExecuteJobFork
  <2>1. UNCHANGED <<tableVars, arrivals>> /\ pc' \notin Moving
    BY <1>5 DEF ExecuteJobFork, CallersLoop, Moving
  <2>2. ToSet(starts') \subseteq ToSet(starts) \cup {copy.job}
    <3>1. copy.job \in Jobs
      BY <1>c, <1>5 DEF ExecuteJobFork, Moving, Process
    <3>2. ToSet(Append(starts, copy.job)) = ToSet(starts) \cup {copy.job}
      BY <1>s, <3>1, ToSetAppend
    <3> QED
      BY <1>5, <3>2 DEF ExecuteJobFork
  <2>3. ToSet(starts') \subseteq ToSet(arrivals)
    BY <1>p, <1>5, <2>2 DEF ExecuteJobFork, EntriesInv, KnownJobs, Moving
  <2> QED
    BY <1>p, <2>1, <2>3 DEF EntriesInv, Apart, CopyApart, KnownJobs, TabledJobs, JobsInLevels, Moving
<1>6. ASSUME waiting # <<>>, NEW e \in Process, e.job = Head(waiting).job, FrontToRunning(e),
             UNCHANGED <<levels, arrivals, starts>>, pc' \notin Moving
      PROVE  EntriesInv'
  <2>1. /\ JobsIn(waiting') = JobsBehind(waiting) /\ DistinctJobs(waiting')
        /\ JobsIn(waiting) = {e.job} \cup JobsBehind(waiting) /\ e.job \notin JobsBehind(waiting)
    BY <1>w, <1>6, TailJobs DEF EntriesInv, Apart, FrontToRunning
  <2>2. e.job \notin JobsIn(running)
    BY <2>1 DEF EntriesInv, Apart
  <2>3. JobsIn(running') = JobsIn(running) \cup {e.job} /\ DistinctJobs(running')
    BY <1>w, <1>6, <2>2, AppendJobs DEF EntriesInv, Apart, FrontToRunning
  <2> QED
    BY <1>4, <1>6, <1>d, <2>1, <2>2, <2>3 DEF EntriesInv, Apart, KnownJobs, TabledJobs
<1>7. CASE ExecuteJobPush
  <2>1. waiting # <<>> => /\ Head(waiting) \in Process
                          /\ [Head(waiting) EXCEPT !.pid = Head(waiting).job] \in Process
                          /\ [Head(waiting) EXCEPT !.pid = Head(waiting).job].job = Head(waiting).job
    BY <1>w, QueueOps, ProcessUpdates DEF Process
  <2> QED
    BY <1>1, <1>6, <1>7, <2>1 DEF ExecuteJobPush, CallersLoop, Moving
<1>8. CASE RRobinPush
  BY <1>1, <1>6, <1>8, <1>w, QueueOps DEF RRobinPush, Moving
<1>9. CASE StatScan
  <2>1. CASE UNCHANGED running
    BY <1>1, <1>9, <2>1 DEF StatScan, Moving
  <2>2. CASE idx <= Len(running) /\ running' = [running EXCEPT ![idx].utime = ticks[copy.pid]]
    <3>1. DOMAIN running' = DOMAIN running /\ \A k \in DOMAIN running : running'[k].job = running[k].job
      <4>1. \A k \in DOMAIN running : running[k] \in Process
        BY <1>w, ElementOfSeq, LenProperties
      <4> QED
        BY <1>w, <2>2, <4>1 DEF Process
    <3>2. /\ JobsIn(running') = JobsIn(running) /\ JobsBehind(running') = JobsBehind(running)
          /\ DistinctJobs(running) => DistinctJobs(running')
      BY <3>1, SameJobs
    <3>3. pc' \notin Moving /\ UNCHANGED <<waiting, levels, arrivals, starts>>
      BY <1>9 DEF StatScan, Moving
    <3> QED
      BY <1>4, <1>d, <3>2, <3>3 DEF EntriesInv, Apart, KnownJobs, TabledJobs
  <2> QED
    BY <1>9, <2>1, <2>2 DEF StatScan
<1>10. CASE RRobinRequeue
  <2>1. /\ copy \in Process /\ copy.job \in ToSet(arrivals)
        /\ copy.job \notin JobsIn(waiting) \cup JobsBehind(running) \cup JobsInLevels
    BY <1>p, <1>c, <1>10 DEF RRobinRequeue, EntriesInv, CopyApart, KnownJobs, Moving
  <2>2. JobsIn(waiting') = JobsIn(waiting) \cup {copy.job} /\ DistinctJobs(waiting')
    BY <1>w, <1>10, <2>1, AppendJobs DEF RRobinRequeue, Requeued, EntriesInv, Apart
  <2>3. /\ JobsIn(running') \subseteq JobsBehind(running) /\ DistinctJobs(running')
        /\ JobsBehind(running) \subseteq JobsIn(running)
    <3>1. CASE running = <<>>
      BY <1>10, <3>1 DEF RRobinRequeue, JobsIn, JobsBehind, DistinctJobs
    <3>2. CASE running # <<>>
      <4>1. /\ JobsIn(Tail(running)) = JobsBehind(running) /\ DistinctJobs(Tail(running))
            /\ JobsBehind(running) \subseteq JobsIn(running)
        BY <1>w, <3>2, TailJobs DEF EntriesInv, Apart
      <4> QED
        BY <1>10, <3>2, <4>1 DEF RRobinRequeue
    <3> QED
      BY <3>1, <3>2
  <2>4. pc' \notin Moving /\ UNCHANGED <<levels, arrivals, starts>>
    BY <1>10 DEF RRobinRequeue, Moving
  <2> QED
    BY <1>4, <1>d, <2>1, <2>2, <2>3, <2>4 DEF EntriesInv, Apart, KnownJobs, TabledJobs
<1>11. CASE MlfqPop
  <2>1. CASE running # <<>>
    <3>1. /\ copy \in Process /\ copy.job \in ToSet(arrivals)
          /\ copy.job \notin JobsIn(waiting) \cup JobsBehind(running) \cup JobsInLevels
      BY <1>p, <1>c, <1>11 DEF MlfqPop, EntriesInv, CopyApart, KnownJobs, Moving
    <3>2. copy'.job = copy.job
      <4>1. Demoted(copy).job = copy.job
        BY <3>1 DEF Demoted, Process
      <4> QED
        BY <1>11, <2>1, <4>1 DEF MlfqPop
    <3>3. /\ JobsIn(running') = JobsBehind(running) /\ DistinctJobs(running')
          /\ JobsBehind(running) \subseteq JobsIn(running)
      <4>1. /\ JobsIn(Tail(running)) = JobsBehind(running) /\ DistinctJobs(Tail(running))
            /\ JobsBehind(running) \subseteq JobsIn(running)
        BY <1>w, <2>1, TailJobs DEF EntriesInv, Apart
      <4> QED
        BY <1>11, <2>1, <4>1 DEF MlfqPop
    <3>4. pc' = "mlfq_requeue" /\ UNCHANGED <<waiting, levels, arrivals, starts>>
      BY <1>11, <2>1 DEF MlfqPop
    <3>5. JobsInLevels' = JobsInLevels
      BY <3>4 DEF JobsInLevels
    <3>6. TabledJobs' = JobsIn(waiting) \cup JobsBehind(running) \cup JobsInLevels
      BY <3>3, <3>4, <3>5 DEF TabledJobs
    <3>7. Apart'
      BY <3>3, <3>4 DEF EntriesInv, Apart
    <3>8. CopyApart'
      BY <1>p, <3>1, <3>2, <3>4, <3>6 DEF CopyApart
    <3>9. KnownJobs'
      BY <3>1, <3>2, <3>3, <3>4, <3>6 DEF EntriesInv, KnownJobs, TabledJobs
    <3> QED
      BY <3>7, <3>8, <3>9 DEF EntriesInv
  <2> QED
    BY <1>1, <1>11, <2>1 DEF MlfqPop, Moving
(* One of the levels changes.                                              *)
<1>12. ASSUME NEW l \in 0..NumLevels-1, NEW t, levels' = [levels EXCEPT ![l] = t],
              UNCHANGED <<waiting, running, arrivals, starts>>, pc' \notin Moving,
              DistinctJobs(t), JobsIn(t) \subseteq JobsIn(levels[l]) \cup {copy.job},
              copy.job \notin TabledJobs, copy.job \in ToSet(arrivals)
       PROVE  EntriesInv'
  <2>1. levels'[l] = t /\ \A m \in 0..NumLevels-1 : m # l => levels'[m] = levels[m]
    BY <1>v, <1>12
  <2>2. \A m \in 0..NumLevels-1 : m # l => copy.job \notin JobsIn(levels[m])
    BY <1>l, <1>12 DEF TabledJobs
  <2>3. copy.job \notin JobsIn(waiting) /\ copy.job \notin JobsIn(running)
    BY <1>12 DEF TabledJobs
  <2>4. \A m \in 0..NumLevels-1 : DistinctJobs(levels'[m])
    BY <1>12, <2>1 DEF EntriesInv, Apart
  <2>5. \A m \in 0..NumLevels-1 :
          JobsIn(levels'[m]) \cap (JobsIn(waiting') \cup JobsIn(running')) = {}
    BY <1>12, <2>1, <2>3 DEF EntriesInv, Apart
  <2>6. \A m, k \in 0..NumLevels-1 : m # k => JobsIn(levels'[m]) \cap JobsIn(levels'[k]) = {}
    BY <1>12, <2>1, <2>2 DEF EntriesInv, Apart
  <2>7. Apart'
    BY <1>12, <2>4, <2>5, <2>6 DEF EntriesInv, Apart
  <2>8. \A m \in 0..NumLevels-1 : JobsIn(levels'[m]) \subseteq ToSet(arrivals)
    BY <1>l, <1>12, <2>1 DEF EntriesInv, KnownJobs, TabledJobs
  <2>9. KnownJobs'
    BY <1>p, <1>12, <2>8 DEF EntriesInv, KnownJobs, TabledJobs, JobsInLevels
  <2> QED
    BY <1>p, <1>12, <2>7, <2>9 DEF EntriesInv, CopyApart, Moving
<1>13. CASE MlfqRequeue
  <2>1. /\ copy \in Process /\ copy.job \in ToSet(arrivals) /\ copy.job \notin TabledJobs
        /\ copy.priority \in 0..NumLevels-1
    BY <1>p, <1>c, <1>13 DEF MlfqRequeue, EntriesInv, CopyApart, KnownJobs, Moving, Process
  <2>2. UNCHANGED <<waiting, running, arrivals, starts>> /\ pc' \notin Moving
    BY <1>13 DEF MlfqRequeue, PauseProcess, Moving
  <2>3. CASE levels' = [levels EXCEPT ![copy.priority] = Append(levels[copy.priority], copy)]
    <3> DEFINE t == Append(levels[copy.priority], copy)
    <3>1. copy.job \notin JobsIn(levels[copy.priority])
      BY <1>l, <2>1 DEF TabledJobs
    <3>2. levels[copy.priority] \in Seq(Process) /\ DistinctJobs(levels[copy.priority])
      BY <1>v, <2>1 DEF EntriesInv, Apart
    <3>3. JobsIn(t) = JobsIn(levels[copy.priority]) \cup {copy.job} /\ DistinctJobs(t)
      BY <2>1, <3>1, <3>2, AppendJobs
    <3> HIDE DEF t
    <3>4. levels' = [levels EXCEPT ![copy.priority] = t]
      BY <2>3 DEF t
    <3> QED
      BY <1>12, <2>1, <2>2, <3>3, <3>4
  <2> QED
    BY <1>1, <1>13, <2>2, <2>3 DEF MlfqRequeue
<1>14. CASE MlfqBoost
  <2>1. CASE idx < NumLevels
    <3>1. idx \in 0..NumLevels-1 /\ idx # 0 /\ 0 \in 0..NumLevels-1
      BY <1>p, <1>14, <2>1 DEF MlfqBoost, LocalsHere, TypeOK
    <3> DEFINE b == Boosted(levels[idx])
               t == levels[0] \o b
    <3>2. levels' = [levels EXCEPT ![0] = t, ![idx] = <<>>]
      BY <1>14, <2>1 DEF MlfqBoost
    <3>3. b \in Seq(Process) /\ JobsIn(b) = JobsIn(levels[idx]) /\ DistinctJobs(b)
      BY <1>v, <3>1, BoostedType, BoostedJobs DEF EntriesInv, Apart
    <3> HIDE DEF b
    <3>4. JobsIn(levels[0]) \cap JobsIn(b) = {} /\ levels[0] \in Seq(Process) /\ DistinctJobs(levels[0])
      BY <1>v, <3>1, <3>3 DEF EntriesInv, Apart
    <3>5. JobsIn(t) = JobsIn(levels[0]) \cup JobsIn(levels[idx]) /\ DistinctJobs(t)
      BY <3>3, <3>4, ConcatJobs
    <3> HIDE DEF t
    <3>6. /\ levels'[0] = t /\ levels'[idx] = <<>>
          /\ \A m \in 0..NumLevels-1 : m # 0 /\ m # idx => levels'[m] = levels[m]
      BY <1>v, <3>1, <3>2
    <3>7. JobsIn(<<>>) = {} /\ DistinctJobs(<<>>)
      BY DEF JobsIn, DistinctJobs
    <3>8. UNCHANGED <<waiting, running, arrivals, starts>> /\ pc' \notin Moving
      BY <1>14, <2>1 DEF MlfqBoost, Moving
    <3>9. \A m \in 0..NumLevels-1 :
            /\ DistinctJobs(levels'[m])
            /\ JobsIn(levels'[m]) \cap (JobsIn(waiting) \cup JobsIn(running)) = {}
      BY <3>1, <3>5, <3>6, <3>7 DEF EntriesInv, Apart
    <3>10. \A m, k \in 0..NumLevels-1 : m # k => JobsIn(levels'[m]) \cap JobsIn(levels'[k]) = {}
      BY <3>1, <3>5, <3>6, <3>7 DEF EntriesInv, Apart
    <3>11. Apart'
      BY <3>8, <3>9, <3>10 DEF EntriesInv, Apart
    <3>12. \A m \in 0..NumLevels-1 : JobsIn(levels'[m]) \subseteq JobsInLevels
      BY <1>l, <3>1, <3>5, <3>6, <3>7
    <3>13. JobsInLevels' \subseteq JobsInLevels
      BY <3>12 DEF JobsInLevels
    <3>14. KnownJobs'
      BY <1>p, <3>8, <3>13 DEF EntriesInv, KnownJobs, TabledJobs
    <3> QED
      BY <1>p, <3>8, <3>11, <3>14 DEF EntriesInv, CopyApart, Moving
  <2> QED
    BY <1>1, <1>14, <2>1 DEF MlfqBoost, Moving
<1>15. CASE MlfqAdmit
  <2> DEFINE t == levels[0] \o waiting
  <2>1. /\ levels' = [levels EXCEPT ![0] = t] /\ waiting' = <<>> /\ pc' \notin Moving
        /\ UNCHANGED <<running, arrivals, starts>>
    BY <1>15 DEF MlfqAdmit, AdmitWaiting, Moving
  <2>2. 0 \in 0..NumLevels-1
    OBVIOUS
  <2>3. JobsIn(levels[0]) \cap JobsIn(waiting) = {} /\ levels[0] \in Seq(Process) /\ DistinctJobs(levels[0])
    BY <1>v, <2>2 DEF EntriesInv, Apart
  <2>4. JobsIn(t) = JobsIn(levels[0]) \cup JobsIn(waiting) /\ DistinctJobs(t)
    BY <1>w, <2>3, ConcatJobs DEF EntriesInv, Apart
  <2> HIDE DEF t
  <2>5. levels'[0] = t /\ \A m \in 0..NumLevels-1 : m # 0 => levels'[m] = levels[m]
    BY <1>v, <2>1, <2>2
  <2>6. JobsIn(<<>>) = {} /\ DistinctJobs(<<>>)
    BY DEF JobsIn, DistinctJobs
  <2>7. \A m \in 0..NumLevels-1 :
          DistinctJobs(levels'[m]) /\ JobsIn(levels'[m]) \cap JobsIn(running) = {}
    BY <2>2, <2>4, <2>5 DEF EntriesInv, Apart
  <2>8. \A m, k \in 0..NumLevels-1 : m # k => JobsIn(levels'[m]) \cap JobsIn(levels'[k]) = {}
    BY <2>2, <2>4, <2>5 DEF EntriesInv, Apart
  <2>9. Apart'
    BY <2>1, <2>6, <2>7, <2>8 DEF EntriesInv, Apart
  <2>10. \A m \in 0..NumLevels-1 : JobsIn(levels'[m]) \subseteq TabledJobs
    BY <1>l, <2>2, <2>4, <2>5 DEF TabledJobs
  <2>11. TabledJobs' \subseteq TabledJobs
    BY <2>1, <2>6, <2>10 DEF TabledJobs, JobsInLevels
  <2>12. KnownJobs'
    BY <1>p, <2>1, <2>11 DEF EntriesInv, KnownJobs
  <2> QED
    BY <1>p, <2>1, <2>9, <2>12 DEF EntriesInv, CopyApart, Moving
<1>16. CASE MlfqFill /\ idx < NumLevels /\ levels[idx] # <<>> /\ MlfqDispatch
  <2> DEFINE q == Head(levels[idx])
  <2>1. idx \in 0..NumLevels-1
    BY <1>p, <1>16 DEF MlfqFill, LocalsHere, TypeOK
  <2>2. levels[idx] \in Seq(Process)
    BY <1>v, <2>1
  <2>3. q \in Process /\ q.job \in Jobs
    BY <1>16, <2>2, QueueOps DEF Process
  <2>4. /\ levels' = [levels EXCEPT ![idx] = Tail(levels[idx])] /\ pc' = "mlfq_push"
        /\ starts' \in {starts, Append(starts, q.job)} /\ copy' \in {q, [q EXCEPT !.pid = q.job]}
        /\ UNCHANGED <<waiting, running, arrivals>>
    BY <1>16 DEF MlfqDispatch
  <2>5. /\ JobsIn(Tail(levels[idx])) = JobsBehind(levels[idx])
        /\ JobsIn(levels[idx]) = {q.job} \cup JobsBehind(levels[idx])
        /\ DistinctJobs(Tail(levels[idx])) /\ q.job \notin JobsBehind(levels[idx])
    BY <1>16, <2>1, <2>2, TailJobs DEF EntriesInv, Apart
  <2> HIDE DEF q
  <2>6. copy'.job = q.job
    BY <2>3, <2>4 DEF Process
  <2>7. levels'[idx] = Tail(levels[idx]) /\ \A m \in 0..NumLevels-1 : m # idx => levels'[m] = levels[m]
    BY <1>v, <2>1, <2>4
  <2>8. \A m \in 0..NumLevels-1 :
          /\ DistinctJobs(levels'[m]) /\ JobsIn(levels'[m]) \subseteq JobsIn(levels[m])
          /\ q.job \notin JobsIn(levels'[m])
    BY <2>1, <2>5, <2>7 DEF EntriesInv, Apart
  <2>9. Apart'
    <3>1. \A m, k \in 0..NumLevels-1 : m # k => JobsIn(levels'[m]) \cap JobsIn(levels'[k]) = {}
      BY <2>8 DEF EntriesInv, Apart
    <3> QED
      BY <2>4, <2>8, <3>1 DEF EntriesInv, Apart
  <2>10. JobsInLevels' \subseteq JobsInLevels /\ q.job \notin JobsInLevels'
    BY <1>l, <2>8 DEF JobsInLevels
  <2>11. q.job \in JobsInLevels /\ q.job \in ToSet(arrivals)
    BY <1>l, <2>1, <2>5 DEF EntriesInv, KnownJobs, TabledJobs
  <2>12. CopyApart'
    <3>1. q.job \notin JobsIn(waiting) \cup JobsIn(running)
      BY <1>d, <2>11
    <3> QED
      BY <1>p, <2>4, <2>6, <2>10, <3>1 DEF CopyApart, TabledJobs
  <2>13. KnownJobs'
    <3>1. ToSet(starts') \subseteq ToSet(starts) \cup {q.job}
      BY <1>s, <2>3, <2>4, ToSetAppend
    <3> QED
      BY <2>4, <2>6, <2>10, <2>11, <3>1 DEF EntriesInv, KnownJobs, TabledJobs
  <2> QED
    BY <2>9, <2>12, <2>13 DEF EntriesInv
<1>17. CASE MlfqFill /\ ~(idx < NumLevels /\ levels[idx] # <<>> /\ MlfqDispatch)
  BY <1>1, <1>17 DEF MlfqFill, Moving
<1>18. CASE MlfqPush
  <2>1. /\ copy \in Process /\ copy.job \in ToSet(arrivals) /\ copy.job \notin TabledJobs
    BY <1>p, <1>c, <1>18 DEF MlfqPush, EntriesInv, CopyApart, KnownJobs, Moving
  <2>2. JobsIn(running') = JobsIn(running) \cup {copy.job} /\ DistinctJobs(running')
    BY <1>w, <1>18, <2>1, AppendJobs DEF MlfqPush, EntriesInv, Apart, TabledJobs
  <2>3. pc' \notin Moving /\ UNCHANGED <<waiting, levels, arrivals, starts>>
    BY <1>18 DEF MlfqPush, Moving
  <2> QED
    BY <1>4, <1>d, <2>1, <2>2, <2>3 DEF EntriesInv, Apart, KnownJobs, TabledJobs
<1>19. CASE FlushKill \/ FlushPop \/ FlushQueue
  <2>1. pc' \notin Moving /\ UNCHANGED <<arrivals, starts>>
    BY <1>19 DEF FlushKill, TerminateProcess, FlushPop, FlushQueue, FlushEntry, QueueFlushed, Moving
  <2>2. Shrinking
    BY <1>19, FlushShrinks
  <2>3. Apart' /\ TabledJobs' \subseteq TabledJobs
    BY <2>2, ShrinkingJobs DEF EntriesInv
  <2>4. CopyApart' /\ KnownJobs'
    BY <1>p, <2>1, <2>3 DEF EntriesInv, CopyApart, KnownJobs, Moving
  <2> QED
    BY <2>3, <2>4 DEF EntriesInv
<1>20. CASE AddJob
  <2>1. PICK j \in Jobs \ ToSet(arrivals) : /\ waiting' = <<NewProcess(j)>> \o waiting
                                            /\ arrivals' = Append(arrivals, j)
    BY <1>20 DEF AddJob
  <2>2. NewProcess(j) \in Process /\ NewProcess(j).job = j
    BY ChildrenAssumption DEF NewProcess, NoProcess, Process
  <2>3. j \notin TabledJobs
    BY <2>1 DEF EntriesInv, KnownJobs
  <2>4. JobsIn(waiting') = {j} \cup JobsIn(waiting) /\ DistinctJobs(waiting')
    BY <1>w, <2>1, <2>2, <2>3, FrontJobs DEF EntriesInv, Apart, TabledJobs
  <2>5. pc' \notin Moving /\ UNCHANGED <<levels, running, starts>>
    BY <1>20 DEF AddJob, AfterAccept, Moving
  <2>6. ToSet(arrivals') = ToSet(arrivals) \cup {j}
    BY <1>s, <2>1, ToSetAppend
  <2>7. JobsInLevels' = JobsInLevels
    BY <2>5 DEF JobsInLevels
  <2>8. \A l \in 0..NumLevels-1 : j \notin JobsIn(levels[l])
    BY <1>l, <2>3 DEF TabledJobs
  <2>9. Apart'
    BY <2>3, <2>4, <2>5, <2>8 DEF EntriesInv, Apart, TabledJobs
  <2>10. KnownJobs'
    BY <1>p, <2>4, <2>5, <2>6, <2>7 DEF EntriesInv, KnownJobs, TabledJobs
  <2> QED
    BY <1>p, <2>5, <2>9, <2>10 DEF EntriesInv, CopyApart, Moving
<1>21. CASE StatRead \/ StatOpen \/ MlfqBoostDue
  BY <1>1, <1>21 DEF StatRead, StatOpen, MlfqBoostDue, Moving
<1>22. CASE FifoRunner \/ RRobinFill
  BY <1>1, <1>3, <1>22 DEF FifoRunner, RRobinFill, Moving
<1>23. CASE RRobinPause \/ MlfqFront
  BY <1>1, <1>2, <1>23 DEF RRobinPause, PauseProcess, MlfqFront, Moving
<1>24. CASE Poll \/ PollStdin \/ FlushRequest \/ FlushReturn \/ StatusCounts \/ StatusLists \/ Query
  BY <1>1, <1>24 DEF Poll, PollStdin, FlushRequest, FlushReturn, StatusCounts, StatusLists, Query,
     AfterAccept, Moving
<1> QED
  BY <1>5, <1>7, <1>8, <1>9, <1>10, <1>11, <1>13, <1>14, <1>15, <1>16, <1>17, <1>18, <1>19, <1>20,
     <1>21, <1>22, <1>23, <1>24 DEF Request, SchedulerStep

LEMMA EntriesStep == IInv /\ EntriesInv /\ [Next]_vars => EntriesInv'
<1>1. CASE UNCHANGED vars
  <2>1. /\ UNCHANGED <<tableVars, arrivals, starts, copy, Thread>>
    BY <1>1 DEF vars, histVars, locals, loopVars, Thread
  <2>2. Shrinking
    BY <2>1, UnchangedShrinks
  <2> QED
    BY <2>1, <2>2, EntriesInterrupted DEF IInv
<1>2. CASE Next
  BY <1>2, Interruption, EntriesInterrupted, EntriesThreadStep DEF IInv
<1> QED
  BY <1>1, <1>2

LEMMA EntriesAlways == Spec => [](IInv /\ EntriesInv)
<1>1. Init => EntriesInv
  BY InitEntries
<1>2. IInv /\ EntriesInv /\ [Next]_vars => EntriesInv'
  BY EntriesStep
<1> QED
  BY <1>1, <1>2, Invariance, PTL DEF Spec

(* No job is in two tables or twice in one, for every policy, and however  *)
(* the handlers interrupt the moves: not even when SIGCHLD removes the     *)
(* entry whose copy the thread is about to queue                           *)
(* (scheduler.cpp:158,289,297,315,324,342, pq.cpp:68).                     *)
THEOREM OneEntryEach == Spec => []OneEntryPerJob
<1>1. TypeOK /\ EntriesInv => OneEntryPerJob
  <2> SUFFICES ASSUME TypeOK, EntriesInv PROVE OneEntryPerJob
    OBVIOUS
  <2>1. DOMAIN levels = 0..NumLevels-1
    BY DEF TypeOK
  <2>2. ASSUME Thread \in {"mlfq_requeue", "mlfq_push"}, NEW e \in Tabled PROVE e.job # copy.job
    <3>1. e.job \in TabledJobs
      BY <2>1 DEF Tabled, Queued, TabledJobs, JobsInLevels, JobsIn
    <3> QED
      BY <2>2, <3>1 DEF EntriesInv, CopyApart
  <2> QED
    BY <2>1, <2>2 DEF EntriesInv, Apart, DistinctJobs, OneEntryPerJob
<1>2. IInv => TypeOK
  BY DEF IInv
<1> QED
  BY <1>1, <1>2, EntriesAlways, PTL
=============================================================================
