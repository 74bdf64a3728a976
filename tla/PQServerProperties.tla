-------------------------- MODULE PQServerProperties ------------------------
(***************************************************************************)
(* What the pq server keeps true, whatever the SIGCHLD handler interrupts, *)
(* and, at the end, what its documentation says and the code does not do.  *)
(***************************************************************************)
EXTENDS PQServer

JobsIn(s) == {s[k].job : k \in DOMAIN s}

Queued == {waiting[k] : k \in DOMAIN waiting}
            \cup UNION {{levels[l][k] : k \in DOMAIN levels[l]} : l \in DOMAIN levels}
Tabled == Queued \cup {running[k] : k \in DOMAIN running}

Locations ==
  {"poll", "poll_stdin", "accept", "status",
   "flush", "flush_pop", "flush_queue", "flushed",
   "stat", "stat_open", "stat_scan", "fifo", "exec_fork", "exec_push",
   "rrobin", "rrobin_requeue", "rrobin_fill", "rrobin_push",
   "mlfq", "mlfq_pop", "mlfq_requeue", "mlfq_boost", "mlfq_boosting",
   "mlfq_admit", "mlfq_fill", "mlfq_push"} \cup Halted

(* Where the thread is on its way to push an entry to running; where it    *)
(* holds a copy of an entry; and the steps of flush_jobs.                  *)
Pushing  == {"exec_fork", "exec_push", "rrobin_push", "mlfq_push"}
CopyHeld == {"stat_open", "stat_scan", "exec_fork", "rrobin_requeue", "mlfq_pop",
             "mlfq_requeue", "mlfq_push"}
Flushing == {"flush", "flush_pop", "flush_queue", "flushed"}

(* Types: the entries of the tables keep their ranges, in particular an    *)
(* MLFQ priority stays an index of levels (scheduler.cpp:312).             *)
TypeOK ==
  /\ ChildrenTypeOK
  /\ waiting \in Seq(Process)
  /\ running \in Seq(Process)
  /\ levels \in [0..NumLevels-1 -> Seq(Process)]
  /\ num_waiting_processes \in Int
  /\ total_dead_processes \in Nat
  /\ arrivals \in Seq(Jobs)
  /\ starts \in Seq(Jobs)
  /\ forkFails \in 0..MaxForkFails
  /\ pc \in Locations
  /\ copy \in Process \cup {NoProcess}
  /\ idx \in Nat
  /\ handling \in BOOLEAN /\ sched \in BOOLEAN /\ ready \in BOOLEAN
  /\ shown \in Nat
  /\ typed \in BOOLEAN /\ run_flag \in BOOLEAN
  /\ interrupted \in (Locations \ Halted) \cup {"none"}

(* The operator has not pressed ^C. *)
BeforeSigint == run_flag /\ interrupted = "none"
-----------------------------------------------------------------------------
(* The running table never holds more processes than there are CPUs, for   *)
(* all three runners, although the handler removes entries between the     *)
(* test of running.size() and the push_back (scheduler.cpp:277,292,334).   *)
NoOvercommit == Len(running) <= NCPUS

(* A dead child that waits to be reaped has SIGCHLD pending or the handler *)
(* already running: no death is missed although signals merge (pq.cpp:62). *)
ReapPending == Zombies # {} => sigchld \/ handling

(* What the thread's position, be it interrupted by sigint_handler or not, *)
(* says of its locals and tables: the proofs strengthen TypeOK and         *)
(* NoOvercommit with it.                                                   *)
LocalsOK ==
  /\ Thread \in Pushing => HasFreeCPU
  /\ Thread \in CopyHeld => copy \in Process
  /\ Thread = "stat_scan" => copy.pid \in Jobs
  /\ IF Thread \in {"mlfq_fill", "mlfq_push"} THEN idx \in 0..NumLevels ELSE idx >= 1
  /\ interrupted # "none" => pc \in Flushing \cup Halted

IInv == TypeOK /\ NoOvercommit /\ ReapPending /\ LocalsOK

(* No two entries, of the same or of different tables, are of the same job *)
(* (scheduler.cpp:158,289,297,315,324,342: every move is a push and a pop).*)
(* In the middle of a move the copy stands for the entry.                  *)
OneEntryPerJob ==
  LET Unique(s) == \A a, b \in DOMAIN s : s[a].job = s[b].job => a = b IN
  /\ Unique(waiting) /\ Unique(running) /\ \A l \in DOMAIN levels : Unique(levels[l])
  /\ JobsIn(waiting) \cap JobsIn(running) = {}
  /\ \A l \in DOMAIN levels :
       /\ JobsIn(levels[l]) \cap (JobsIn(waiting) \cup JobsIn(running)) = {}
       /\ \A m \in DOMAIN levels \ {l} : JobsIn(levels[l]) \cap JobsIn(levels[m]) = {}
  /\ Thread \in {"mlfq_requeue", "mlfq_push"} => \A e \in Tabled : e.job # copy.job

(* No job is forked twice (scheduler.cpp:131,183). *)
StartedOnce == \A a, b \in DOMAIN starts : starts[a] = starts[b] => a = b

(* A process that was preempted and waits for its turn uses no CPU: it was *)
(* stopped, or has died; only the one being resumed runs                   *)
(* (scheduler.cpp:287,296,314,340).                                        *)
QueuedNotRunning ==
  \A e \in Queued :
    \/ e.pid = NoPid
    \/ proc[e.pid] # "run"
    \/ Thread = "rrobin_push" /\ e = Head(waiting)

(* At most NCPUS children are on a CPU, counting the one whose entry is    *)
(* about to be pushed.  True of fifo when nobody flushes: a slot is freed  *)
(* by a death only (scheduler.cpp:277, pq.cpp:63-77).                      *)
CPULimit == Cardinality({j \in Jobs : proc[j] = "run"}) <= NCPUS

(* Every started job is running, counted dead, or being pushed, and every  *)
(* arrived one is waiting or started: under fifo without flush nothing is  *)
(* lost or counted twice in the averages, until ^C flushes the tables      *)
(* (scheduler.cpp:144,416).                                                *)
FifoConservation == BeforeSigint =>
  LET pushing == IF pc = "exec_push" THEN 1 ELSE 0 IN
  /\ Len(starts) = Len(running) + total_dead_processes + pushing
  /\ Len(arrivals) = Len(waiting) + Len(starts) - pushing

(* The Waiting count of a status is the number of queued jobs that were    *)
(* never started, less one for every fork() that failed and was retried,   *)
(* until ^C flushes the tables                                             *)
(* (scheduler.cpp:128,181; ipc_communication.cpp:100).                     *)
WaitingCounter == BeforeSigint /\ pc \notin Halted =>
  num_waiting_processes =
    Cardinality({e \in Queued : e.pid = NoPid})
      - (IF Policy = "mlfq" THEN 0 ELSE forkFails)
      - (IF pc \in {"exec_fork", "exec_push"} THEN 1 ELSE 0)

(* Round robin: what was never started precedes what was preempted, so new *)
(* arrivals overtake every preempted process (scheduler.cpp:91,289).       *)
NewBeforePreempted ==
  \A a, b \in DOMAIN waiting : a < b /\ waiting[b].pid = NoPid => waiting[a].pid = NoPid

(* MLFQ: the queue an entry is in is the one its priority names, through   *)
(* demotion, boost and admission (scheduler.cpp:312-324,331).              *)
LevelMatchesPriority ==
  \A l \in DOMAIN levels : \A k \in DOMAIN levels[l] : levels[l][k].priority = l

(* MLFQ: a process is at most one level down per allotment it was given,   *)
(* and the last one was given for CPU time beyond the one before: its own, *)
(* or another's that run() wrote into its entry (scheduler.cpp:260,310-312)*)
DemotionPaid ==
  \A e \in Tabled \cup {copy} :
    /\ e.priority * Slice <= e.allotment
    /\ e.allotment > 0 => \E j \in Jobs : ticks[j] > e.allotment - Slice

(* A status agrees with itself and with the kernel, although the handler   *)
(* removes entries between the count and the lists: it counts no fewer     *)
(* running processes than it then lists, none of those is stopped, and no  *)
(* job is listed as running and as waiting (logging.cpp:305-349).          *)
StatusTruthful == Thread = "status" =>
  /\ Len(running) <= shown
  /\ \A e \in ListedRunning :
       /\ e.pid # NoPid => proc[e.pid] # "stop"
       /\ \A q \in ListedWaiting : q.job # e.job

(* After ^C no stopped child stays behind with nobody left to resume it,   *)
(* wherever the interrupt met the scheduler, for fifo and round robin      *)
(* (pq.cpp:82-85, scheduler.cpp:286-299,444-453).                          *)
NoStoppedOrphan == pc = "exited" => \A j \in Jobs : proc[j] # "stop"

(* Nobody is lost while stopped.  A live child can fall out of all tables  *)
(* when the handler or flush_jobs has the wrong entry popped, but only one *)
(* that runs and so ends by itself: a stopped one has its entry in a queue *)
(* or in the thread's hand on the way there, so that it is resumed or      *)
(* killed, unless the server has stopped its own group                     *)
(* (scheduler.cpp:286-298,308-315,336-342,425-453).                        *)
StoppedAreQueued ==
  pc # "group_stopped" =>
    \A j \in Jobs : proc[j] = "stop" =>
      \/ \E e \in Queued : e.job = j
      \/ Thread = "rrobin_requeue" /\ copy.job = j

(* Once ^C is handled, the only job the server can still start is one it   *)
(* accepted after that, in the round of the loop it was interrupted in.    *)
(* Nothing of what was queued starts, except the job executeJob had in     *)
(* hand, whose start ends in front() of an empty deque                     *)
(* (pq.cpp:82-85,153,177-186; scheduler.cpp:119-149).                      *)
OnlyLateRequestStarts ==
  [][~run_flag /\ starts' # starts =>
       waiting = <<>> \/ Last(starts') = Last(arrivals)]_vars
-----------------------------------------------------------------------------
(* The stage of a job in its life.  A job is active from its fork() or     *)
(* SIGCONT on, when its entry is still to be pushed, and parked from its   *)
(* SIGSTOP on, when its entry is still to be queued.                       *)
(* Unless ^C comes in between: then that entry is flushed like the others. *)
AtFront ==
  /\ waiting # <<>>
  /\ \/ Thread = "exec_push" /\ Head(waiting).job = Last(starts)
     \/ Thread = "rrobin_push" /\ pc # "flush_queue"

Pushed == CASE AtFront              -> {Head(waiting).job}
            [] Thread = "mlfq_push" -> {copy.job}
            [] OTHER                -> {}
Held   == IF Thread \in {"rrobin_requeue", "mlfq_pop", "mlfq_requeue"} THEN {copy.job} ELSE {}

ActiveJobs == Pushed \cup (JobsIn(running) \ Held)
ParkedJobs == Held \cup {e.job : e \in {q \in Queued : q.pid # NoPid}}
QueuedJobs == {e.job : e \in {q \in Queued : q.pid = NoPid}}

Stage ==
  [j \in Jobs |-> IF j \in ActiveJobs THEN "active"
                  ELSE IF j \in ParkedJobs THEN "parked"
                  ELSE IF j \in QueuedJobs THEN "queued"
                  ELSE IF j \in ToSet(arrivals) THEN "gone" ELSE "new"]

Lifecycle == INSTANCE JobLifecycle
               WITH stage <- Stage, Limit <- NCPUS, Preemptive <- Policy # "fifo"

(* The tables, with the handler's removals and the races they bring, keep  *)
(* every job on its way through JobLifecycle (scheduler.cpp, pq.cpp:59-80).*)
ImplementsLifecycle == Lifecycle!Spec
-----------------------------------------------------------------------------
(* A client that connects and is then silent for ever, neither sending nor *)
(* dying, keeps the server's only thread in recv(), which has no timeout   *)
(* (ipc_communication.cpp:80,85).                                          *)
KeptInRecv == <>[]InRecv

(* Every job in waiting leaves it: it is started or flushed, unless a      *)
(* silent client keeps the thread, the server stops first, or somebody     *)
(* types: then no round of the loop calls run() any more                   *)
(* (scheduler.cpp:276-300,328-332; pq.cpp:172-187).                        *)
EveryJobLeavesWaiting ==
  ~KeptInRecv =>
    \A j \in Jobs :
      j \in JobsIn(waiting) ~> j \notin JobsIn(waiting) \/ typed \/ pc \in Halted

(* A preempted process is resumed or dies, with the same exceptions and    *)
(* with finitely many arrivals (scheduler.cpp:292-300,333-344).            *)
EveryStoppedResumes ==
  ~KeptInRecv =>
    \A j \in Jobs : proc[j] = "stop" ~> proc[j] # "stop" \/ typed \/ pc \in Halted

(* Every dead child is reaped, also while the thread waits for a client,   *)
(* unless the server stops first (pq.cpp:62).                              *)
EveryZombieReaped ==
  \A j \in Jobs : proc[j] = "zombie" ~> proc[j] = "reaped" \/ pc \in Halted

(* ^C ends the server, whatever it interrupts but a recv() from a client   *)
(* that stays silent: the handler returns to it (pq.cpp:82-85,153,155).    *)
ShutdownEnds == ~KeptInRecv => (interrupted # "none" ~> pc \in Halted)
-----------------------------------------------------------------------------
(* What the repository says of the program and the code does not do.  Each *)
(* is refuted by a run of its own.                                         *)

(* Policy "fifo" (pq.cpp:53): jobs start in the order in which they came.  *)
StartsInArrivalOrder == IsPrefix(starts, arrivals)

(* "This will remove a process from the table when the parent (server)     *)
(* receives the SIGCHLD signal" (pq.cpp:57): once the handler is done,     *)
(* running has no entry of a child that was reaped.                        *)
DeadAreRemoved ==
  ~handling => \A k \in DOMAIN running :
                 running[k].pid # NoPid => proc[running[k].pid] # "reaped"

(* "-n NCPUS  Number of CPUs" (pq.cpp:52) under round robin: CPULimit.     *)

(* "flush: Remove all jobs from queue" (pq.cpp:48): when flush_jobs is     *)
(* done, no job is queued.                                                 *)
FlushFinished == pc = "flush_queue" /\ pc' = "flushed"
FlushEmptiesQueue == [][FlushFinished => Queued' = {}]_vars
=============================================================================
