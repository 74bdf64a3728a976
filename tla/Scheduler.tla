----------------------------- MODULE Scheduler ------------------------------
(***************************************************************************)
(* Class Scheduler (scheduler.cpp, pq.h): the waiting deque, the eight     *)
(* levels of the MLFQ, the running deque, and the three policies.          *)
(*                                                                         *)
(* The code runs on the server's one thread, but the SIGCHLD handler of    *)
(* pq.cpp may run between any two of its statements and erases entries of  *)
(* "running".  A method is therefore cut into steps at every point where   *)
(* the handler can make a difference: between a read of "running" (or a    *)
(* fork) and the statement that relies on it.  pc is the next step.  The   *)
(* SIGINT handler, which empties all the tables, runs between two steps.   *)
(***************************************************************************)
EXTENDS Integers, Sequences, Children

CONSTANTS
  Policy,        \* POLICY: "fifo", "rdrn" or "mlfq"
  NCPUS,         \* NCPUS, the -n option
  NumLevels,     \* the number of MLFQ levels, 8 in the code
  Slice,         \* what copy.allotment grows by on a demotion, 30 in the code
  MaxForkFails   \* bound on the number of fork() calls that fail

ASSUME SchedulerAssumption ==
  /\ Policy \in {"fifo", "rdrn", "mlfq"}
  /\ NCPUS \in Nat
  /\ NumLevels \in Nat \ {0}
  /\ Slice \in Nat \ {0}
  /\ MaxForkFails \in Nat

VARIABLES
  waiting,                \* deque<Process> waiting
  levels,                 \* deque<Process> levels[8]
  running,                \* deque<Process> running
  num_waiting_processes,  \* unsigned, read back as int: Waiting = of a status
  total_dead_processes,
  arrivals,               \* the jobs submitted, in order (total_processes)
  starts,                 \* the jobs forked, in order (total_executed_processes)
  forkFails,              \* how many fork() calls have failed
  pc,                     \* the next step of the server's thread
  copy,                   \* local p, q: the Process copied or whose pid was read
  idx,                    \* local i: the loop index
  handling,               \* is the thread inside sigchld_handler?
  sched                   \* result_1 == 0: this round of the loop calls run()

tableVars == <<waiting, levels, running>>
countVars == <<num_waiting_processes, total_dead_processes>>
histVars  == <<arrivals, starts, forkFails>>
locals    == <<copy, idx, sched>>

(* struct Process, without the fields that are only printed *)
Process == [job : Jobs, pid : Jobs \cup {NoPid}, priority : 0..NumLevels-1,
            utime : 0..MaxTicks, allotment : Nat]
NoProcess == [job |-> NoPid, pid |-> NoPid, priority |-> 0, utime |-> 0, allotment |-> 0]
BelowLowest(j) == [NoProcess EXCEPT !.job = j, !.priority = NumLevels]
NewProcess(j)  == [NoProcess EXCEPT !.job = j]

(* Where the server stops for good: a NULL stream given to fscanf, a       *)
(* front() or pop_front() on an empty deque or a write past its end        *)
(* (undefined behaviour), SIGKILL or SIGSTOP sent to pid 0, the server's   *)
(* own group, or the end of main().                                        *)
Halted == {"segfault", "undefined", "group_killed", "group_stopped", "exited"}

At(l) == pc = l /\ ~handling

AfterAccept == IF sched THEN "stat" ELSE "poll"

(* running.size() < nCPUS, the guard of every loop that starts processes;  *)
(* before it, what an off-by-one would make of it.                         *)
OneTooMany == Len(running) <= NCPUS
OneTooFew  == Len(running) + 1 < NCPUS
HasFreeCPU == Len(running) < NCPUS

(* running.push_back(e); waiting.pop_front()  -- and without the pop *)
PushWithoutPop(e) == running' = Append(running, e) /\ UNCHANGED waiting
FrontToRunning(e) == running' = Append(running, e) /\ waiting' = Tail(waiting)
-----------------------------------------------------------------------------
(* pauseProcess, resumeProcess and terminateProcess; pid 0 addresses the   *)
(* server's process group.  The first two also without their kill().       *)
PauseForgotten(e, next) == UNCHANGED proc /\ pc' = next
PauseProcess(e, next) ==
  IF e.pid = NoPid THEN StopChildren(Jobs) /\ pc' = "group_stopped"
                   ELSE StopChildren({e.pid}) /\ pc' = next

ResumeForgotten(e) == UNCHANGED proc
ResumeProcess(e)   == ContinueChild(e.pid)

TerminateProcess(e, next) ==
  IF e.pid = NoPid THEN KillChildren(Jobs) /\ pc' = "group_killed"
                   ELSE KillChildren({e.pid}) /\ pc' = next

(* executeJob up to fork(): the command is copied, and the counter moves   *)
(* before the fork() is known to succeed.                                  *)
ExecuteJob ==
  /\ copy' = Head(waiting)
  /\ num_waiting_processes' = num_waiting_processes - 1
  /\ pc' = "exec_fork"
  /\ UNCHANGED <<childVars, tableVars, total_dead_processes, histVars, idx, sched, handling>>

(* When it fails the caller's loop tries again. *)
CallersLoop == IF Policy = "fifo" THEN "fifo" ELSE "rrobin_fill"

ExecuteJobFork ==
  /\ At("exec_fork")
  /\ copy' = NoProcess
  /\ \/ /\ ForkChild(copy.job)
        /\ starts' = Append(starts, copy.job)
        /\ pc' = "exec_push"
        /\ UNCHANGED forkFails
     \/ /\ forkFails < MaxForkFails
        /\ forkFails' = forkFails + 1
        /\ pc' = CallersLoop
        /\ UNCHANGED <<proc, starts>>
  /\ UNCHANGED <<ticks, sigchld, tableVars, countVars, arrivals, idx, sched, handling>>

(* executeJob, the parent's branch: waiting.front() gets its pid and moves *)
(* to running.  The child may have been reaped by now, and ^C may have     *)
(* emptied waiting.                                                        *)
ExecuteJobPush ==
  /\ At("exec_push")
  /\ IF waiting = <<>>
       THEN pc' = "undefined" /\ UNCHANGED <<waiting, running>>
       ELSE /\ FrontToRunning([Head(waiting) EXCEPT !.pid = Head(waiting).job])
            /\ pc' = CallersLoop
  /\ UNCHANGED <<childVars, levels, countVars, histVars, locals, handling>>
-----------------------------------------------------------------------------
(* run(): refresh utime of every running process from /proc/[pid]/stat,    *)
(* then call the policy's runner.                                          *)
StatRead ==
  /\ At("stat")
  /\ IF idx <= Len(running)
       THEN copy' = running[idx] /\ pc' = "stat_open" /\ UNCHANGED idx
       ELSE copy' = NoProcess /\ idx' = 1
            /\ pc' = CASE Policy = "fifo" -> "fifo"
                       [] Policy = "rdrn" -> "rrobin"
                       [] Policy = "mlfq" -> "mlfq"
  /\ UNCHANGED <<childVars, tableVars, countVars, histVars, sched, handling>>

(* fopen gives NULL when no process has that pid, and also, since no file  *)
(* is ever closed, once the server has as many open as it may; how long    *)
(* that takes is left open.  The NULL stream is handed to fscanf.          *)
StatOpen ==
  /\ At("stat_open")
  /\ pc' \in IF copy.pid = NoPid \/ proc[copy.pid] = "reaped"
               THEN {"segfault"} ELSE {"stat_scan", "segfault"}
  /\ UNCHANGED <<childVars, tableVars, countVars, histVars, locals, handling>>

(* fscanf writes to running[i], whatever that is by now.  Reading the file *)
(* of a child reaped since fopen fails and assigns nothing; a write past   *)
(* the end of the deque goes unnoticed or is fatal.                        *)
StatScan ==
  /\ At("stat_scan")
  /\ \/ /\ proc[copy.pid] # "reaped"
        /\ idx <= Len(running)
        /\ running' = [running EXCEPT ![idx].utime = ticks[copy.pid]]
        /\ pc' = "stat"
     \/ /\ proc[copy.pid] # "reaped"
        /\ idx > Len(running)
        /\ pc' \in {"stat", "undefined"}
        /\ UNCHANGED running
     \/ /\ proc[copy.pid] = "reaped"
        /\ pc' = "stat"
        /\ UNCHANGED running
  /\ idx' = idx + 1
  /\ copy' = NoProcess
  /\ UNCHANGED <<childVars, waiting, levels, countVars, histVars, sched, handling>>
-----------------------------------------------------------------------------
(* fifo_runner *)
FifoRunner ==
  /\ At("fifo")
  /\ \/ HasFreeCPU /\ waiting # <<>> /\ ExecuteJob
     \/ /\ ~(HasFreeCPU /\ waiting # <<>>)
        /\ pc' = "poll"
        /\ UNCHANGED <<childVars, tableVars, countVars, histVars, locals, handling>>
-----------------------------------------------------------------------------
(* rRobin_runner: the front of running is copied and stopped, then the     *)
(* copy is queued and the front popped, then free CPUs are filled.         *)
RRobinPause ==
  /\ At("rrobin")
  /\ IF running = <<>>
       THEN pc' = "rrobin_fill" /\ UNCHANGED <<proc, copy>>
       ELSE copy' = Head(running) /\ PauseProcess(Head(running), "rrobin_requeue")
  /\ UNCHANGED <<ticks, sigchld, tableVars, countVars, histVars, idx, sched, handling>>

AtTheFront(e)   == <<e>> \o waiting
PidForgotten(e) == Append(waiting, [e EXCEPT !.pid = NoPid])
Requeued(e)     == Append(waiting, e)

RRobinRequeue ==
  /\ At("rrobin_requeue")
  /\ waiting' = Requeued(copy)
  /\ copy' = NoProcess
  /\ IF running = <<>>
       THEN pc' = "undefined" /\ UNCHANGED running
       ELSE pc' = "rrobin_fill" /\ running' = Tail(running)
  /\ UNCHANGED <<childVars, levels, countVars, histVars, idx, sched, handling>>

RRobinFill ==
  /\ At("rrobin_fill")
  /\ \/ HasFreeCPU /\ waiting # <<>> /\ Head(waiting).pid = NoPid /\ ExecuteJob
     \/ /\ HasFreeCPU /\ waiting # <<>> /\ Head(waiting).pid # NoPid
        /\ ResumeProcess(Head(waiting))
        /\ pc' = "rrobin_push"
        /\ UNCHANGED <<ticks, sigchld, tableVars, countVars, histVars, locals, handling>>
     \/ /\ ~(HasFreeCPU /\ waiting # <<>>)
        /\ pc' = "poll"
        /\ UNCHANGED <<childVars, tableVars, countVars, histVars, locals, handling>>

RRobinPush ==
  /\ At("rrobin_push")
  /\ IF waiting = <<>>
       THEN pc' = "undefined" /\ UNCHANGED <<waiting, running>>
       ELSE pc' = "rrobin_fill" /\ FrontToRunning(Head(waiting))
  /\ UNCHANGED <<childVars, levels, countVars, histVars, locals, handling>>
-----------------------------------------------------------------------------
(* mlfq_runner.  utime counts from the start of the process and so does    *)
(* allotment; a process over its allotment moves one level down, unless it *)
(* is on the lowest: what would keep no allotment, or no lowest level.     *)
SameAllotment(e) ==
  IF e.utime > e.allotment
    THEN [e EXCEPT !.priority = IF @ + 1 < NumLevels THEN @ + 1 ELSE NumLevels - 1]
    ELSE e
BelowTheLast(e) ==
  IF e.utime > e.allotment
    THEN [e EXCEPT !.allotment = @ + Slice, !.priority = @ + 1]
    ELSE e
Demoted(e) ==
  IF e.utime > e.allotment
    THEN [e EXCEPT !.allotment = @ + Slice,
                   !.priority = IF @ + 1 < NumLevels THEN @ + 1 ELSE NumLevels - 1]
    ELSE e

MlfqFront ==
  /\ At("mlfq")
  /\ IF running = <<>>
       THEN pc' = "mlfq_boost" /\ UNCHANGED copy
       ELSE pc' = "mlfq_pop" /\ copy' = Head(running)
  /\ UNCHANGED <<childVars, tableVars, countVars, histVars, idx, sched, handling>>

MlfqPop ==
  /\ At("mlfq_pop")
  /\ IF running = <<>>
       THEN pc' = "undefined" /\ UNCHANGED <<running, copy>>
       ELSE pc' = "mlfq_requeue" /\ running' = Tail(running) /\ copy' = Demoted(copy)
  /\ UNCHANGED <<childVars, waiting, levels, countVars, histVars, idx, sched, handling>>

MlfqRequeue ==
  /\ At("mlfq_requeue")
  /\ PauseProcess(copy, "mlfq_boost")
  /\ copy' = NoProcess
  /\ levels' = IF copy.pid = NoPid THEN levels   \* stopped inside kill()
               ELSE [levels EXCEPT ![copy.priority] = Append(@, copy)]
  /\ UNCHANGED <<ticks, sigchld, waiting, running, countVars, histVars, idx, sched, handling>>

(* The boost is due when the clock shows a second divisible by five that   *)
(* was not used before; when that is, the model leaves open.               *)
MlfqBoostDue ==
  /\ At("mlfq_boost")
  /\ pc' \in {"mlfq_boosting", "mlfq_admit"}
  /\ UNCHANGED <<childVars, tableVars, countVars, histVars, locals, handling>>

NotReset(s) == s
Boosted(s)  == [k \in 1..Len(s) |-> [s[k] EXCEPT !.priority = 0]]

MlfqBoost ==
  /\ At("mlfq_boosting")
  /\ IF idx < NumLevels
       THEN /\ levels' = [levels EXCEPT ![0] = @ \o Boosted(levels[idx]), ![idx] = <<>>]
            /\ idx' = idx + 1
            /\ UNCHANGED pc
       ELSE pc' = "mlfq_admit" /\ idx' = 1 /\ UNCHANGED levels
  /\ UNCHANGED <<childVars, waiting, running, countVars, histVars, copy, sched, handling>>

(* Every waiting process is pushed to level 0 and popped -- or not popped. *)
AdmitWithoutPop == levels' = [levels EXCEPT ![0] = @ \o waiting] /\ UNCHANGED waiting
AdmitWaiting    == levels' = [levels EXCEPT ![0] = @ \o waiting] /\ waiting' = <<>>

MlfqAdmit ==
  /\ At("mlfq_admit")
  /\ AdmitWaiting
  /\ idx' = 0
  /\ pc' = "mlfq_fill"
  /\ UNCHANGED <<childVars, running, countVars, histVars, copy, sched, handling>>

(* One round of the loop over the levels; MLFQexecuteJob up to fork(), or  *)
(* resumeProcess.  A failed fork leaves pid 0, and the entry is still      *)
(* pushed to running.                                                      *)
MlfqDispatch ==
  LET q == Head(levels[idx]) IN
  /\ levels' = [levels EXCEPT ![idx] = Tail(@)]
  /\ pc' = "mlfq_push"
  /\ \/ /\ q.pid = NoPid
        /\ num_waiting_processes' = num_waiting_processes - 1
        /\ \/ /\ ForkChild(q.job)
              /\ starts' = Append(starts, q.job)
              /\ copy' = [q EXCEPT !.pid = q.job]
              /\ UNCHANGED forkFails
           \/ /\ forkFails < MaxForkFails
              /\ forkFails' = forkFails + 1
              /\ copy' = q
              /\ UNCHANGED <<proc, starts>>
     \/ /\ q.pid # NoPid
        /\ ResumeProcess(q)
        /\ copy' = q
        /\ UNCHANGED <<num_waiting_processes, starts, forkFails>>
  /\ UNCHANGED <<ticks, sigchld, waiting, running, total_dead_processes, arrivals, idx>>

MlfqFill ==
  /\ At("mlfq_fill")
  /\ \/ idx < NumLevels /\ levels[idx] # <<>> /\ HasFreeCPU /\ MlfqDispatch
     \/ /\ idx < NumLevels /\ ~(levels[idx] # <<>> /\ HasFreeCPU)
        /\ idx' = idx + 1
        /\ UNCHANGED <<childVars, tableVars, countVars, histVars, pc, copy>>
     \/ /\ idx = NumLevels
        /\ idx' = 1
        /\ pc' = "poll"
        /\ UNCHANGED <<childVars, tableVars, countVars, histVars, copy>>
  /\ UNCHANGED <<sched, handling>>

MlfqPush ==
  /\ At("mlfq_push")
  /\ running' = Append(running, copy)
  /\ copy' = NoProcess
  /\ pc' = "mlfq_fill"
  /\ UNCHANGED <<childVars, waiting, levels, countVars, histVars, idx, sched, handling>>
-----------------------------------------------------------------------------
(* flush_jobs: SIGKILL to the front of running, then pop_front(), until    *)
(* running is empty ...                                                    *)
FlushKill ==
  /\ At("flush")
  /\ IF running # <<>>
       THEN TerminateProcess(Head(running), "flush_pop")
       ELSE pc' = "flush_queue" /\ UNCHANGED <<proc, sigchld>>
  /\ UNCHANGED <<ticks, tableVars, countVars, histVars, locals, handling>>

FlushPop ==
  /\ At("flush_pop")
  /\ IF running = <<>>
       THEN pc' = "undefined" /\ UNCHANGED running
       ELSE pc' = "flush" /\ running' = Tail(running)
  /\ UNCHANGED <<childVars, waiting, levels, countVars, histVars, locals, handling>>

(* ... then the queue: the levels for mlfq, waiting for the others.  Every *)
(* entry is popped and counted; the ones that have a pid are killed, or    *)
(* would be forgotten.  flush_jobs then returns to its caller.             *)
BranchesSwapped == Policy # "mlfq"
QueueIsLevels   == Policy = "mlfq"

ForgetEntry(e) ==
  /\ num_waiting_processes' = num_waiting_processes - 1
  /\ UNCHANGED <<proc, sigchld, pc>>
FlushEntry(e) ==
  /\ num_waiting_processes' = num_waiting_processes - 1
  /\ IF e.pid = NoPid THEN UNCHANGED <<proc, sigchld>> ELSE KillChildren({e.pid})
  /\ UNCHANGED pc

QueueFlushed ==
  /\ pc' = "flushed"
  /\ UNCHANGED <<proc, sigchld, waiting, levels, num_waiting_processes>>

FlushQueue ==
  /\ At("flush_queue")
  /\ \/ /\ QueueIsLevels
        /\ \E l \in 0..NumLevels-1 :
             /\ levels[l] # <<>>
             /\ \A m \in 0..l-1 : levels[m] = <<>>
             /\ FlushEntry(Head(levels[l]))
             /\ levels' = [levels EXCEPT ![l] = Tail(@)]
        /\ UNCHANGED waiting
     \/ /\ QueueIsLevels
        /\ \A l \in 0..NumLevels-1 : levels[l] = <<>>
        /\ QueueFlushed
     \/ /\ ~QueueIsLevels /\ waiting # <<>>
        /\ FlushEntry(Head(waiting))
        /\ waiting' = Tail(waiting)
        /\ UNCHANGED levels
     \/ ~QueueIsLevels /\ waiting = <<>> /\ QueueFlushed
  /\ UNCHANGED <<ticks, running, total_dead_processes, histVars, locals, handling>>
=============================================================================
