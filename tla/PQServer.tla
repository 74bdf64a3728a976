------------------------------ MODULE PQServer ------------------------------
(***************************************************************************)
(* The pq server: the main loop and the signal handlers of pq.cpp around   *)
(* the Scheduler, with clients (server_accept in ipc_communication.cpp)    *)
(* whose requests arrive whole, and the operator at its terminal.          *)
(***************************************************************************)
EXTENDS Scheduler, FiniteSets, SequencesExt

CONSTANTS
  Requests,   \* which of "add", "flush" and "status" the clients send
  Operator    \* what happens at the terminal: "type" and "interrupt" (^C)

ASSUME ServerAssumption ==
  /\ Requests \subseteq {"add", "flush", "status"}
  /\ Operator \subseteq {"type", "interrupt"}

VARIABLES
  ready,        \* result > 0: a client is connecting
  shown,        \* the Running count of the status being answered
  typed,        \* is there input on stdin?  Nobody ever reads it.
  run_flag,     \* run_flag == 1
  interrupted   \* where sigint_handler interrupted the thread, or "none"

loopVars == <<ready, shown, typed, run_flag, interrupted>>

vars == <<childVars, tableVars, countVars, histVars, locals, pc, handling, loopVars>>

(* Where the thread is, outside of sigint_handler. *)
Thread == IF interrupted = "none" THEN pc ELSE interrupted

Init ==
  /\ ChildrenInit
  /\ waiting = <<>> /\ running = <<>>
  /\ levels = [l \in 0..NumLevels-1 |-> <<>>]
  /\ num_waiting_processes = 0 /\ total_dead_processes = 0
  /\ arrivals = <<>> /\ starts = <<>> /\ forkFails = 0
  /\ copy = NoProcess /\ idx = 1 /\ sched = TRUE
  /\ pc = "poll" /\ handling = FALSE /\ ready = FALSE /\ shown = 0
  /\ typed = FALSE /\ run_flag = TRUE /\ interrupted = "none"
-----------------------------------------------------------------------------
(* The test of run_flag, and poll() on the listening socket, for at most   *)
(* POLL_TIMEOUT.  A signal that interrupts it looks like a timeout.        *)
Poll ==
  /\ At("poll")
  /\ IF run_flag THEN ready' \in BOOLEAN /\ sched' = TRUE /\ pc' = "poll_stdin"
                 ELSE pc' = "exited" /\ UNCHANGED <<ready, sched>>
  /\ UNCHANGED <<childVars, tableVars, countVars, histVars, copy, idx, handling, shown, typed,
                 run_flag, interrupted>>

(* poll() on stdin, for SCHEDTIME/1000 ms.  It times out, unless a signal  *)
(* interrupts it (see SigchldEnter) or something was typed: result_1 is    *)
(* then 1, in this round and in every later one.                           *)
PollStdin ==
  /\ At("poll_stdin")
  /\ sched' = (sched /\ ~typed)
  /\ pc' = IF ready THEN "accept" ELSE AfterAccept'
  /\ ready' = FALSE
  /\ UNCHANGED <<childVars, tableVars, countVars, histVars, copy, idx, handling, shown, typed,
                 run_flag, interrupted>>

(* server_accept, "add": pushJob puts the job at the front of waiting. *)
AddJob ==
  /\ At("accept")
  /\ "add" \in Requests
  /\ \E j \in Jobs \ ToSet(arrivals) :
       /\ waiting' = <<NewProcess(j)>> \o waiting
       /\ arrivals' = Append(arrivals, j)
  /\ num_waiting_processes' = num_waiting_processes + 1
  /\ pc' = AfterAccept
  /\ UNCHANGED <<childVars, levels, running, total_dead_processes, starts, forkFails,
                 locals, handling, loopVars>>

(* server_accept, "flush": the steps of flush_jobs follow. *)
FlushRequest ==
  /\ At("accept")
  /\ "flush" \in Requests
  /\ pc' = "flush"
  /\ UNCHANGED <<childVars, tableVars, countVars, histVars, locals, handling, loopVars>>

(* flush_jobs returns, to server_accept or to sigint_handler, which ends   *)
(* the loop -- or does not -- and returns to where it interrupted the      *)
(* thread.                                                                 *)
LeaveRunFlag == UNCHANGED run_flag
ClearRunFlag == run_flag' = FALSE

FlushReturn ==
  /\ At("flushed")
  /\ IF interrupted = "none"
       THEN pc' = AfterAccept /\ UNCHANGED <<run_flag, interrupted>>
       ELSE pc' = interrupted /\ interrupted' = "none" /\ ClearRunFlag
  /\ UNCHANGED <<childVars, tableVars, countVars, histVars, locals, handling, ready, shown,
                 typed>>

(* What a status lists: copies of running and of the queue, which under    *)
(* mlfq is the levels.  An entry is a line.                                *)
ListedRunning == {running[k] : k \in DOMAIN running}
ListedLevels  == UNION {{levels[l][k] : k \in DOMAIN levels[l]} : l \in DOMAIN levels}
ListedWaiting == IF Policy = "mlfq" THEN ListedLevels ELSE {waiting[k] : k \in DOMAIN waiting}

(* server_accept, "status": status_log takes the Running count -- not the  *)
(* counter kept beside running -- then the lists, and sends them.          *)
CountKeptBeside == Len(starts) - total_dead_processes
RunningCount    == Len(running)

StatusCounts ==
  /\ At("accept")
  /\ "status" \in Requests
  /\ shown' = RunningCount
  /\ pc' = "status"
  /\ UNCHANGED <<childVars, tableVars, countVars, histVars, locals, handling, ready, typed,
                 run_flag, interrupted>>

StatusLists ==
  /\ At("status")
  /\ shown' = 0
  /\ pc' = AfterAccept
  /\ UNCHANGED <<childVars, tableVars, countVars, histVars, locals, handling, ready, typed,
                 run_flag, interrupted>>

(* server_accept, "running", "waiting" and whatever is none of the         *)
(* commands: nothing changes.                                              *)
Query ==
  /\ At("accept")
  /\ pc' = AfterAccept
  /\ UNCHANGED <<childVars, tableVars, countVars, histVars, locals, handling, loopVars>>

SchedulerStep ==
  /\ \/ ExecuteJobFork \/ ExecuteJobPush \/ StatRead \/ StatOpen \/ StatScan
     \/ FifoRunner
     \/ RRobinPause \/ RRobinRequeue \/ RRobinFill \/ RRobinPush
     \/ MlfqFront \/ MlfqPop \/ MlfqRequeue \/ MlfqBoostDue \/ MlfqBoost \/ MlfqAdmit
     \/ MlfqFill \/ MlfqPush
     \/ FlushKill \/ FlushPop \/ FlushQueue
  /\ UNCHANGED loopVars

(* The first four of these end the wait of server_accept in accept() and   *)
(* recv(), which lasts until the client has sent its request or died: a    *)
(* signal that interrupts it restarts it (SA_RESTART).                     *)
Request == AddJob \/ FlushRequest \/ FlushReturn \/ StatusCounts \/ StatusLists \/ Query

MainStep == Poll \/ PollStdin \/ Request \/ SchedulerStep
-----------------------------------------------------------------------------
(* The kernel delivers SIGCHLD: the handler starts, wherever the thread    *)
(* is.  A poll() it interrupts returns -1, and result_1 = -1 skips run().  *)
SigchldEnter ==
  /\ sigchld /\ ~handling /\ pc \notin Halted
  /\ sigchld' = FALSE
  /\ handling' = TRUE
  /\ sched' \in IF pc = "poll_stdin" THEN {sched, FALSE} ELSE {sched}
  /\ UNCHANGED <<proc, ticks, tableVars, countVars, histVars, pc, copy, idx, loopVars>>

(* remove_process: erase the entry at an index -- or only in a copy, such  *)
(* as the one get_running() returns.                                       *)
RemovedFromCopy(k) == running
RemoveProcess(k)   == RemoveAt(running, k)

(* One round of the handler's loop: waitpid returns a child; if running    *)
(* has an entry with that pid, it is accounted for and removed.            *)
SigchldReap(j) ==
  /\ handling
  /\ ReapChild(j)
  /\ \/ \E k \in DOMAIN running :
          /\ running[k].pid = j
          /\ running' = RemoveProcess(k)
          /\ total_dead_processes' = total_dead_processes + 1
     \/ /\ \A k \in DOMAIN running : running[k].pid # j
        /\ UNCHANGED <<running, total_dead_processes>>
  /\ UNCHANGED <<ticks, sigchld, waiting, levels, num_waiting_processes, histVars, locals,
                 pc, handling, loopVars>>

(* waitpid finds no zombie: the handler returns.  With "if" in place of    *)
(* the handler's "while" it would return with children left to reap.       *)
ReturnAnyway ==
  /\ handling
  /\ handling' = FALSE
  /\ UNCHANGED <<childVars, tableVars, countVars, histVars, locals, pc, loopVars>>

SigchldReturn ==
  /\ handling
  /\ Zombies = {}
  /\ handling' = FALSE
  /\ UNCHANGED <<childVars, tableVars, countVars, histVars, locals, pc, loopVars>>

Handler == SigchldEnter \/ SigchldReturn \/ \E j \in Jobs : SigchldReap(j)

Ends(j) ==
  /\ ChildExits(j)
  /\ UNCHANGED <<tableVars, countVars, histVars, locals, pc, handling, loopVars>>

Computes(j) ==
  /\ ChildComputes(j)
  /\ UNCHANGED <<tableVars, countVars, histVars, locals, pc, handling, loopVars>>
-----------------------------------------------------------------------------
(* The operator's ^C, once: sigint_handler starts, and calls flush_jobs    *)
(* whatever the thread is doing.  (In the midst of sigchld_handler it has  *)
(* the effect of one that comes before or after a round of that.)          *)
SigintEnter ==
  /\ "interrupt" \in Operator /\ run_flag
  /\ ~handling /\ interrupted = "none" /\ pc \notin Halted
  /\ interrupted' = pc
  /\ pc' = "flush"
  /\ sched' \in IF pc = "poll_stdin" THEN {sched, FALSE} ELSE {sched}
  /\ UNCHANGED <<childVars, tableVars, countVars, histVars, copy, idx, handling, ready, shown,
                 typed, run_flag>>

Types ==
  /\ "type" \in Operator /\ ~typed
  /\ typed' = TRUE
  /\ UNCHANGED <<childVars, tableVars, countVars, histVars, locals, pc, handling, ready, shown,
                 run_flag, interrupted>>

Next ==
  \/ MainStep \/ Handler \/ SigintEnter \/ Types
  \/ \E j \in Jobs : Ends(j) \/ Computes(j)

Spec == Init /\ [][Next]_vars

(* The server's thread keeps running, except where it waits for a client,  *)
(* which may never send (InRecv), and so does the handler; a child that is *)
(* on a CPU again and again eventually ends: workloads are finite.         *)
InRecv == Thread = "accept"

Fairness ==
  /\ WF_vars(pc # "accept" /\ MainStep)
  /\ WF_vars(Handler)
  /\ \A j \in Jobs : SF_vars(proc[j] = "run" /\ Ends(j))

FairSpec == Spec /\ Fairness
=============================================================================
