# Verification of the pq job scheduler

`pq` is one program that is server and client. The server keeps a queue of
shell commands, forks at most `NCPUS` of them at a time and schedules them
under one of three policies: `fifo`, `rdrn` (round robin) and `mlfq`
(multi-level feedback queue). Clients connect to a UNIX socket to add a
command, to ask for the state of the queue, or to flush it. The server has
one thread, but a SIGCHLD handler that edits the same tables runs wherever
the signal finds it, a SIGINT handler flushes them wherever the operator presses ^C,
and no signal is ever blocked. That is the concurrency of the program, and most
of what is modelled here.

## Inventory

| Component | Source | State | Operations |
|---|---|---|---|
| Scheduler class | `scheduler.cpp`, `pq.h` | `waiting`, `levels[8]`, `running`, counters | `pushJob`, `executeJob`, `MLFQexecuteJob`, `pauseProcess`, `resumeProcess`, `terminateProcess`, `run` and the three runners, `flush_jobs`, `remove_process` |
| Main loop | `pq.cpp` 87-190 | `run_flag`, `result`, `result_1` | poll the socket, poll stdin, `server_accept`, `run` |
| SIGCHLD handler | `pq.cpp` 56-80 | none of its own | reap every zombie, account for it, erase it from `running` |
| SIGINT handler | `pq.cpp` 82-85 | `run_flag` | `flush_jobs`, end the loop |
| Client requests | `ipc_communication.cpp` | the socket's file, one connection at a time, `buffer` and `command` | `server_create`, `server_accept`, `client_request` |
| Replies and log | `logging.cpp` | none | format and send |
| Child processes | the kernel | state, CPU time and pending SIGCHLD | fork, kill, waitpid, `/proc/[pid]/stat` |
| Boost timer | `scheduler.cpp` 317-318 | `prev_time` | due in a second divisible by five |

How they interact. The main loop calls `server_accept` (which changes the
tables through `pushJob` and `flush_jobs`) and `run`. `run` reads every running
process's `/proc/[pid]/stat` and calls the runner of the policy, which forks,
stops and resumes children. The death of a child raises SIGCHLD, and the
handler erases the entry of that child from `running`, also while a runner is
between a read of `running` and the statement that relies on it. SIGCHLD also
interrupts `poll`, and the loop then takes that round as "no client" or skips
`run`. SIGINT calls `flush_jobs` in the middle of whatever the thread is doing and lets
it go on with emptied tables until the loop tests `run_flag`. The children inherit
every descriptor of the server, the listening socket among them, and a child whose
`execvp` fails inherits the program too: it returns into the scheduler.

Not part of the program: `scheduler_temp.cpp`, `rRobin.cpp` and `server.cpp`
are drafts the makefile does not build. `startServer.py`, `benchmarker.py`,
`worksim.py` and `workloads/` start it and give it work.

### What is hard here

* **Interleaving with the handler.** Between `fork` and `push_back`
  (`scheduler.cpp` 131-158), between the copy of `running.front()` and
  `pop_front` (286-290, 308-309), between `terminateProcess` and `pop_front`
  (425-427), and between the read of a pid and the use of its stat file
  (250-260), `running` can change.
* **Merged signals.** Two deaths may raise one SIGCHLD; each child must still be
  reaped.
* **Partial failure.** The counters move before `fork` is known to succeed, and
  under mlfq the entry of a failed fork is pushed to `running` with pid 0.
* **Order and starvation.** New jobs enter at the front, preempted ones at the
  back.
* **Counters** that are maintained apart from the queues they count.
* **Flush and boost** that visit only some of the tables.
* **^C in the middle of a step**: a job that was just forked or copied has its entry
  flushed from under the thread, which then takes `front()` of an empty deque; a
  request accepted after the flush is started; a process stopped and not yet queued
  is overlooked.
* **A status** whose counts and lists are read while the handlers edit the tables.
* **Descriptors**: stat files are never closed, and the jobs keep the socket open
  after the server is gone.
* **A failed `execvp`**, whose child goes on as a second server.
* **Input on stdin**, which is polled and never read, and ends all scheduling.
* **Clients that die**, before the number, in mid-request or before the reply,
  or that are suspended or silent,
  with a server that blocks in `recv`, takes the end of a stream for a word, and is
  killed by SIGPIPE when it answers the dead.

What makes each component correct: no job in two places or started twice; never
more running entries than CPUs; what is queued after a preemption does not run;
every death noticed and every job eventually served; every request pushed once
and as submitted, and no client left hanging; the reported count equal to
what it counts, and a status that does not contradict itself; demotion paid for with
CPU time; flush and boost reaching everything they are documented to reach; after ^C
nothing more started, no process left stopped, and the server gone; each command
executed by one process.

## Modules

| Module | Models |
|---|---|
| `Children` | the kernel's side: `proc[j]`, `ticks[j]`, `sigchld` and what `fork`, `kill`, `waitpid` do to them (external, modelled from its use) |
| `Scheduler` | class `Scheduler`: the tables and every step of its methods |
| `PQServer` | the main loop, requests, both signal handlers, the operator and the children around it: `Init`, `Next`, `Spec`, `FairSpec` |
| `JobLifecycle` | abstract specification: what the server promises about the life of a job |
| `PQServerProperties` | the type invariant, safety, action and liveness properties, and the refinement mapping to `JobLifecycle` |
| `MCPQServer` | the model TLC checks (symmetry of `Jobs`) |
| `ClientServer` | clients, the socket and `server_accept`, message by message, with its properties |
| `MCClientServer` | the requests TLC checks it with |
| `FailedExec` | what becomes of the server when `execvp` fails: servers, their copies of the tables, and the socket they share |
| `PQServerProofs` | the inductive invariant and the theorems about it, checked by TLAPS |
| `PQServerQueueProofs` | theorems about the order of the queues and the price of a demotion |
| `PQServerJobProofs` | one entry per job |
| `PQServerStartProofs` | who is started, and how that is counted |
| `PQServerSignalProofs` | who is on a CPU and who is stopped; what a status says |
| `PQServerShutdownProofs` | what ^C leaves behind; the limit on CPUs under fifo |
| `PQServerLifecycleProofs` | `PQServer` implements `JobLifecycle` |
| `ClientServerProofs` | theorems about `ClientServer` |

Each `PQServer...Proofs` extends the one before it and cites its invariant.

`PQServer` takes each request as one step, at the place where `server_accept` calls
`pushJob` or `flush_jobs`. `ClientServer` is that call seen from the other side: how the
words get there, with the tables left out; of the scheduler it keeps only that a pushed
job is queued, becomes a child and ends, since the child holds the socket. The two share no
state but the request. `FailedExec` is a third view, at the level of whole calls, because its
servers multiply and each would need tables of its own.

### State

`waiting`, `levels`, `running`, `num_waiting_processes` and
`total_dead_processes` are the members of class `Scheduler`. An entry is a
`Process` record with `job` (its command), `pid`, `priority`, `utime` and
`allotment`. `pc` is the next step of the server's thread, `copy` and `idx` its
locals (`p` or `q`, and `i`), `handling` is true inside `sigchld_handler`,
`sched` is `result_1 == 0`, `ready` is `result > 0`, `typed` says that stdin is readable.
`interrupted` is the step at which `sigint_handler` interrupted the thread, or "none";
`Thread` is where the thread is apart from that handler. `shown` is the Running count of the
status being put together. `arrivals` and `starts` are the
histories whose lengths the code keeps as `total_processes` and
`total_executed_processes`.

In `ClientServer`, `request`, `client` and `sent` are a client's command, position and
progress; `toServer` and `toClient` what is in flight; `server` the next step of
`server_accept`, `buffer`, `command` and `conn` its locals, `left` what remains of its
loop; `path` is the launch that made the socket's file, `socket[c]` the launch client c
connected to, `backlog` the connections `accept` has not returned and `open` those whose
other end somebody holds. `job[c]` says whether c's command is queued or a child
executes it. `pushed` and `closed` are histories.

In `FailedExec` the servers are `1..servers`, each with its `waiting`, its `running` and its
next call `at`; a pid is the pair of the server that forked and the job.

### Steps

A method is one action, unless a handler can make a difference inside it; then
it is cut there.

| Code | Actions |
|---|---|
| `run` 247-272 | `StatRead` (test of the loop and pid), `StatOpen` (`fopen`), `StatScan` (`fscanf` into `running[i]`) |
| `executeJob` 117-165 | `ExecuteJob` up to `fork`, inside the runner's step that calls it, `ExecuteJobFork`, and `ExecuteJobPush` after it |
| `fifo_runner` | `FifoRunner` |
| `rRobin_runner` | `RRobinPause`, `RRobinRequeue`, `RRobinFill`, `RRobinPush` |
| `mlfq_runner`, `MLFQexecuteJob` | `MlfqFront`, `MlfqPop`, `MlfqRequeue`, `MlfqBoostDue`, `MlfqBoost`, `MlfqAdmit`, `MlfqFill` (with `MlfqDispatch`), `MlfqPush` |
| `flush_jobs` | `FlushKill`, `FlushPop`, `FlushQueue` (one per entry), `FlushReturn` to its caller |
| main loop | `Poll` (with the test of `run_flag`), `PollStdin` |
| `server_accept` | `AddJob`, `FlushRequest`, `Query` |
| `status_log` | `StatusCounts`, `StatusLists` |
| `sigint_handler` | `SigintEnter`, the steps of `flush_jobs`, `FlushReturn` |
| `sigchld_handler` | `SigchldEnter`, `SigchldReap(j)`, `SigchldReturn` |
| a child | `Ends(j)`, `Computes(j)` |
| the operator | `SigintEnter`, `Types` |
| `client_request` | `Connect(c)`, `Send(c)`, `Receive(c)`; `ClientDies(c)`, `Suspend(c)`, `Resume(c)` in between |
| `server_create` | `Launch` (with or without the `rm` of `startServer.py`) |
| `server_accept`, per message | `Accept`, `RecvNumber`, `RecvWord`, `Dispatch`, `Reply`, `Close`; `Killed` at any point |
| the jobs of a server, as holders of its socket | `JobStarts(c)`, `JobEnds(c)` |
| a server of `FailedExec` | `Poll(s)`, `PollStdin(s)`, `Accept(s)`, `Stat(s)`, `ExecuteJob(s)` (both branches, and the child whose `execvp` fails), `RunnerReturns(s)`, `Reap(p)` |

Two statements stay in one step when a handler that runs between them has the
same effect as one that runs before or after them: for instance
`running.push_back(waiting.front()); waiting.pop_front()` in `executeJob`, since
the handler never touches `waiting`.

Where the server stops for good, `pc` says why: `segfault` (a NULL stream given
to `fscanf`), `undefined` (`front` or `pop_front` of an empty deque, or a fatal write past
the end of one), `group_killed` and `group_stopped` (a signal sent to pid 0), and `exited`
(the end of `main`, after ^C). These are states of the program, so the runs say
`CHECK_DEADLOCK FALSE`; every safety property is checked up to and in them.

### Abstractions

* SIGCHLD is delivered between statements. Delivery inside a deque operation,
  where the handler's `erase` would meet a half-done `push_back`, is undefined
  behaviour that is not modelled.
* ^C comes at most once, between two of the model's steps. Where a statement relies on
  `front()`, the step is cut before it. What is left out: ^C between a test and a `pop_front`
  inside one step (in `flush_jobs`, or between `push_back` and `pop_front` of a move), which
  ends in the `front()` or `pop_front()` of an empty deque that other steps show too; ^C
  inside the boost or the admission under mlfq, where one process in hand survives the flush, as
  it does between `MlfqPop` and `MlfqRequeue`, and those still in the loop's source do;
  ^C inside `server_accept`'s update of the Waiting count, which then misses the flush; and ^C
  in the middle of `sigchld_handler`, which is taken as one before or after it.
* A job is a model value that is submitted once. The pid of its child is written
  as the job itself; pids are not reused within a run. `exec` succeeds, except in `FailedExec`.
* In `PQServer` requests arrive whole, one per connection. A status is two steps, the
  counts and the lists; `running` and `waiting` are one of the two and change nothing.
  Lists are the sets of entries printed; the format of a line is left out.
* `fopen` of a stat file may fail at any time, since descriptors are never closed and
  how many there are is left open.
* In `ClientServer` a word is a string and a message one word: client and server
  both move `BUFSIZ` bytes per call, which a UNIX stream socket keeps together. A
  message ends in a newline or not, since `pop_back` takes the last character,
  whatever it is. What `atoi` reads at the start of a text is the constant `Reads`; a negative number
  counts as 0, for the loop of 84 takes both alike. Words fit the buffer, `socket` and `accept` do not fail.
* The uninitialised `buffer` of `server_accept` may hold anything a client sent
  before, or other bytes, which `atoi` reads as 0.
* What was typed stays, for nobody reads it: the poll of stdin returns at once, for ever.
* In `ClientServer` a job may start whenever the server is between requests, in any order,
  and need not end; in `FailedExec` SIGCHLD comes between two calls of a server or
  interrupts its `poll`, nobody types, and the policy is fifo.
* In `rRobin_runner` the test of `running.empty()` and `front()` (285, 286) are one step: when the
  handler erases the last entry between them, the undefined behaviour appears at `pop_front`.
* Whether the priority boost is due is left open at each run of the policy.
* `num_running_processes` is written and never read (its getter returns
  `running.size()`), and fields that are only printed or averaged are dropped.
* Counters are integers; the code's `unsigned` ones are read back as `int`.

## Runs

| Run | Instance | Question |
|---|---|---|
| `fifo_safety` | fifo, 3 jobs, 2 CPUs, 1 failing fork, ^C | is any job lost, started twice or counted twice; can more than NCPUS children compute; is the Waiting count right; what starts after ^C? |
| `rrobin_safety` | rdrn, 3 jobs, 2 CPUs, 1 failing fork, flush, status, ^C | do entries stay unique and preempted processes stopped; in what order does the queue stand; is what falls out of the tables ever stopped; does a status contradict itself; does ^C leave a stopped process? |
| `mlfq_safety` | mlfq, 2 levels, 3 jobs, 2 CPUs, 1 failing fork, status, ^C | the same for the levels, with running, queued and newly arrived processes at once, and entries with pid 0; what does a demotion cost; does the invariant of the proofs hold? |
| `mlfq_progress` | mlfq, 2 levels, 2 ticks, 2 jobs, 1 CPU, 1 failing fork, flush | does a demotion stop at the last level; boost, and a fork that fails; does every stopped process go on? |
| `rrobin_liveness` | rdrn, 2 jobs, 1 CPU, 1 failing fork, flush, typing, ^C | does every queued job leave the queue, every stopped process go on, is every dead child reaped, does ^C end the server, and what if a client never sends? |
| `client_server` | 2 clients, one of them suspendable, 4 commands, 2 launches | are requests mixed up, lost or pushed twice when clients and servers die; which clients hang? |
| `doc_...` | smallest instance | one documented statement each that the code does not meet |

Properties and the code they are about:

* `FifoConservation`: under fifo without flush, until ^C, every started job is in `running`,
  counted dead, or about to be pushed.
* `CPULimit`: at most `NCPUS` children compute. It holds for fifo without flush,
  and round robin breaks it (`doc_cpu_limit`).
* `WaitingCounter`: unless a client flushes, and until ^C, the reported count is the number of
  queued jobs never started, less the failed forks, which the code subtracts twice (except
  under mlfq, where a failed fork is not tried again). That the count is wrong by these is the
  code's; the property is that it is wrong by nothing else. TLC checks it under fifo, the proof
  holds for every policy.
* `OneEntryPerJob`, `StartedOnce`: every move between tables is one push and one
  pop, whatever the handler erases in between.
* `QueuedNotRunning`: what waits after a preemption is stopped or dead. It holds
  even though a live process can fall out of all tables.
* `StoppedAreQueued`: a stopped process is in a queue, or in the thread's hand on the way there.
  A live process can fall out of all tables, in the windows at 290, 309 and 427, but it is then
  one that runs, and ends by itself; were it stopped, nobody would ever resume or kill it. It holds
  under every policy, through flush and ^C, until the server stops its own group.
* `NewBeforePreempted`: the queue of round robin is always newcomers, then
  preempted processes: a newcomer overtakes everyone that was preempted.
* `LevelMatchesPriority`, `DemotionPaid`: an entry is in the level its priority
  names and went down only for CPU time beyond its allotment. The CPU time may be
  another's: `run` writes to `running[i]` what it read for the process that was there
  before the handler erased one, which is why the property says "some job". `mlfq_safety` has two
  processes in `running`, so that this happens there. That a demotion stops at the last level
  is in `TypeOK` (a priority is an index of `levels`), which `mlfq_progress` checks for it.
* `ImplementsLifecycle`: under the mapping `Stage`, every step of the server is a step of
  `JobLifecycle` or changes no stage. A job is active from its fork or SIGCONT to its
  SIGSTOP, which is earlier than its entry enters and leaves `running`, and at most
  `NCPUS` jobs are active. That a job is "gone" covers the ones that fall out of the
  tables alive; that none of them comes back is what the specification adds to
  `OneEntryPerJob`, together with: no job is started or resumed without a free slot,
  none is queued again as new, and fifo parks none.
* `StatusTruthful`: the Running count of a status is no less than the entries it lists
  under Running, none of these is a stopped process, and none is listed under Waiting too.
  The lists are read after the count, and the handler only removes; the counter kept
  beside `running` would break it.
* `NoStoppedOrphan`: under fifo and round robin the server does not exit with a stopped child
  that nobody will resume. `rRobin_runner` stops the front before it removes it, so wherever
  ^C falls, flush finds the entry in one table or the other. Under mlfq the order is the other
  way round and the property fails (see Known).
* `OnlyLateRequestStarts`: after `sigint_handler` has run, a fork is of the job that came
  last, accepted in the same round of the loop, or of the one `executeJob` had in hand, whose
  start ends in `front()` of an empty deque. It fails under mlfq, where flush leaves `waiting`.
* `WordsOfTheClient`, `OnePushPerAdd`, `ClosedMeansPushed`: the words `server_accept`
  collects are those of the client it accepted, and an "add" is pushed once and, for
  a client that lives, as submitted.
* `NoOvercommit`, `ReapPending`: see the proofs.
* `EveryJobLeavesWaiting`, `EveryStoppedResumes`: unless the server stops first, somebody types,
  after which `run` is never called again, or a client that stays silent keeps the thread in
  `recv` for ever (`KeptInRecv`).
* `EveryZombieReaped`: unless the server stops first; also while the thread is in `recv`, which
  the handler interrupts.
* `ShutdownEnds`: once `sigint_handler` has started, the server ends, unless a silent client keeps
  it: `recv` is restarted when the handler returns, and `run_flag` is not tested.
* `EveryClientEnds`: a client with a connection finishes or dies; it never waits for ever. In
  what `ClientServer` models the exceptions are two: it is connected to the socket of a dead server that only jobs
  still hold (`Stranded`), or some client is suspended, and the server waits for it in `recv`.
  (A server that has stopped its own group, in `PQServer`, is a rare third one.)

### Bounds

Three jobs on two CPUs is the least where one process is preempted, another
runs and a third arrives, and where the handler can remove an entry before and
after the one in hand; `doc_cpu_limit` needs four. One ^C is all the handler ever handles that matters: the
second would flush empty tables or come to the same. One failing fork is enough for
the counters to be moved without a process, and for an entry with pid 0.
`MaxTicks` 2 with a `Slice` of 1 (30 ticks in the code) lets a process be demoted
twice, and with 2 levels (8 in the code) the second time is on the last level, where
`priority` must stay what it is (312). `mlfq_safety` has one tick, so one demotion, so
that three jobs, a status and ^C fit; its flush is that of ^C, and `mlfq_progress` has the
requested one. With `MaxTicks` 0 the CPU time is not followed,
where no property of the run is about it. `fifo_safety`,
`rrobin_safety` and `mlfq_safety` use the symmetry of jobs; the runs with a liveness property use none.
Two clients are enough for one to be served after, and wait behind, another; the
commands have one to three words, an "add" without a command, a query, and a word that
begins with a digit, which `atoi` reads as a number when it is left in the buffer, among them;
two launches let a server be killed and the next one find the file of the first, or remove it
while clients wait at the socket of the first. One suspendable client is enough: the other is
the one that waits. `doc_exec_once` has one missing command, a command queued
behind it, a third whose death interrupts the poll, so that both are queued when `run` is called,
and at most three servers.

### Fairness

`FairSpec` assumes weak fairness of the handler and of the server's thread
(the operating system delivers a pending signal and runs the process), but not of the
step that ends its wait in `server_accept`: `recv` has no timeout and is restarted after a signal,
so that step is the client's, which may be silent for ever (`InRecv` is that place, `KeptInRecv`
that it is never left). The handler is fair there too, since it interrupts `recv`. And it assumes strong
fairness of the end of each child while it runs: workloads are finite, and a job
that is on a CPU again and again ends. No client need connect, none that does need send
anything, and the operator need not do anything. That jobs
arrive finitely often is a consequence of the finite set `Jobs`, and the liveness of
a preempted process needs it: newcomers overtake it for ever otherwise.

`ClientServer` assumes weak fairness of the server's steps in `server_accept`, and of a
client's `send`s and `recv`s: both are straight-line code that nothing but the other
side delays. A suspended client need not be resumed, a job need not end (it may be long, or
stopped with nobody to resume it), and nobody need connect, die, or launch a server.

## Findings

Each is shown by a run that TLC refutes.

* `doc_arrival_order`: fifo is last-in first-out. `pushJob` uses `push_front` and
  `executeJob` takes the front.
* `doc_dead_removed`: a child that dies between `fork` and `push_back` is never
  removed from `running`. It occupies a CPU, and the next `run()` finds no stat
  file for it and hands a NULL stream to `fscanf`.
* `doc_cpu_limit`: under round robin the handler can remove the front of `running`
  between the copy and `pop_front`. The entry popped instead belongs to a process
  that goes on running in no table, beside `NCPUS` others.
* `doc_flush_queue`: under mlfq, flush leaves jobs added since the last `run()`.
* `doc_exec_once`: a child whose `execvp` fails returns into the loop of `fifo_runner` as a
  server with a copy of the queue. It forks the jobs that are queued, which the first server
  forks too, and then shares the listening socket with it. Something is queued behind the missing
  command when both wait for a CPU, or, as in the trace, when the death of an earlier job
  interrupts the second poll of a round with a client, and `run` is skipped.
* `doc_add_command`: when a client dies in mid-request, `recv` returns 0 and the word
  in the buffer is taken again for each that is missing; the command queued is not
  the one submitted.

Known, and not given a run of their own:

* The boost loop visits the levels only (319): a process in `running` keeps its priority,
  where `README.md` 165 says "all the processes".
* Under mlfq, ^C between `pop_front` (309) and `pauseProcess` or `push_back` (314, 315) hides the
  process in hand from the flush: it is stopped and queued afterwards, and when a job accepted
  in the same round takes the CPU, the server exits and leaves it stopped for ever.
* ^C in the middle of `executeJob` or between `resumeProcess` and `push_back` (296, 297) takes
  `front()` of an empty deque.
* A client that connects and is silent, or is suspended in the middle of its request, stops the
  server, which waits in `recv` without a timeout: nothing is scheduled, and ^C flushes the
  tables but does not end it; `README.md` 139 speaks of "a timer interrupt to ensure that the I/O
  completes in a timely manner".
* Once something is typed at the server's terminal, or its stdin is at the end of a file,
  no job is scheduled any more (173).
* The jobs hold the listening socket: clients of a dead server connect, and wait.
* A preempted process is listed under Waiting Queue but not counted as waiting (289);
  `flush_jobs` decrements the Waiting count for preempted processes too (435, 439, 447, 451),
  which takes it below zero.
* A query whose client is gone kills the server by SIGPIPE (`logging.cpp` 345, 361, 383), and a
  number that reads as 0 by `command[0]` of an empty vector (95), both in `ClientServer`.
* The window in `flush_jobs` (425-427) leaves a child alive after a flush; `run` can write one
  process's CPU time to another (260).

## Proofs

The theorems hold for any set of jobs, finite or not, any number of CPUs and levels, any slice
and number of ticks, every policy, any set of requests, with or without failing forks, ^C and
input, unless the table names a hypothesis. They rest on `ChildrenAssumption`,
`SchedulerAssumption`, `ServerAssumption`, `ClientServerAssumption` and `ReadsAssumption`. They say
that the constants are of their types, that there are at most nine numerals and no request
has more words, and of `atoi` that it reads each numeral as its number, and nothing and the
word "add" as 0.

| Theorem | States | Hypotheses |
|---|---|---|
| `Invariance` | `IInv` | |
| `TypeCorrect`, `RunningFitsCPUs`, `DeathsAreNoticed` | `TypeOK`, `NoOvercommit`, `ReapPending` | |
| `LevelsByPriority`, `NewcomersFirst` | `LevelMatchesPriority`, `NewBeforePreempted` | |
| `DemotionsPaid` | `DemotionPaid` | |
| `OneEntryEach` | `OneEntryPerJob` | |
| `NoJobTwice` | `StartedOnce` | |
| `WaitingCounts` | `WaitingCounter` | no requested flush |
| `FifoCounts` | `FifoConservation` | fifo, no requested flush |
| `PreemptedStay`, `StatusAgrees` | `QueuedNotRunning`, `StatusTruthful` | |
| `NobodyStoppedIsLost` | `StoppedAreQueued` | |
| `NobodyLeftStopped`, `NothingQueuedStarts` | `NoStoppedOrphan`, `OnlyLateRequestStarts` | not mlfq |
| `FifoFitsCPUs` | `CPULimit` | fifo, no requested flush |
| `LifecycleImplemented` | `ImplementsLifecycle` | |
| `StreamTypes`, `StreamInStep` | `TypeOK` and `WordsOfTheClient` of `ClientServer` | |
| `PushedOnce`, `ClosedIsPushed` | `OnePushPerAdd`, `ClosedMeansPushed` | |

The hypotheses are where the code loses the property. Under mlfq ^C leaves stopped children and
starts what `waiting` held. A requested flush
decrements the Waiting count for preempted processes, and under every policy may drop the entry
of a child that runs, when the handler removes the killed one before `pop_front`; nobody counts
it then, and it runs beside `NCPUS` others. Round robin loses entries the same way
(`doc_cpu_limit`).

### The inductive invariant

None of the first theorems is inductive alone. The invariant is

    IInv == TypeOK /\ NoOvercommit /\ ReapPending /\ LocalsOK

`LocalsOK` says what the thread's position implies: where it is about to push, a
CPU was found free and still is, since the handlers only shorten `running`; where a copy is
held it is a `Process`; the loop index is in range; and while `sigint_handler` is active, `pc` is
in `flush_jobs`. It speaks of `Thread`, not of `pc`: what the thread relies on must survive an
interruption, and `LocalsHere` is what is left of it where the scheduler's own steps start. That
`waiting` is not empty where `front()` is taken is not part of it, since ^C can empty it: the
model then goes to "undefined". Types need `LocalsOK` (what is pushed must be a `Process`), and
`NoOvercommit` needs it for the push. `ReapPending` rests on two facts: whatever makes a zombie
sets `sigchld`, and the handler returns only when there is none.

The lemmas follow that split: `TypeStep` (with `SchedulerTypeStep`), `LimitStep`,
`ReapStep`, `LocalsStep`, each by cases on the actions, and `InvStep` combines them.
`OneThread` is the lemma about interruption: a step is either the thread's own, with no handler of
SIGINT active, or it leaves the thread's position and locals alone and only shortens `running`.
`RemoveAtType`, `QueueOps`, `ProcessUpdates`, `DemotedType` and `BoostedType` are about
the operators. TLC checks `IInv` in `mlfq_safety`, and its parts that matter to them in the
runs of the other policies.

### The order of the queues

`LevelsByPriority` needs two facts beside `IInv`, together `PriorityInv`. Every table holds entries of
known priority: level l those of priority l, `waiting` those of priority 0, and `running` those of
priority 0 unless the policy is mlfq. And each runner is entered under its own policy only, so that what
`rRobin_runner` puts back into `waiting` has priority 0, and what `mlfq_runner` puts into `running` does
not matter. `NewcomersFirst` needs that the process put back was started: had it no pid, `pauseProcess`
would have stopped the server's own group. Both steps split by cases on the actions, with lemmas on what
`Append`, `Tail`, concatenation and `Boosted` do to queues of such entries.

`DemotionsPaid` needs of an entry also what `mlfq_runner` compares: that its `utime` is a time
some child has reached (`Paid`, of every table and of the copy). CPU time only grows, so a paid
entry stays paid whatever the children do.

### Entries, starts and counts

`OneEntryPerJob` is inductive only with where the copy in hand may be (`CopyApart`): before
`pop_front` the copied entry is still the first of its queue or a handler has removed it, and
after it the copy is the only one left. `KnownJobs` adds that tables and copies hold submitted jobs
only, so that what is pushed next is new. The lemma `Interruption` separates the steps of the
handlers, which only remove entries (`Shrinking`), from those of the thread.

`StartedOnce` follows from what the pid field says: `PidsKnown` has an entry's pid be its job's
child exactly if the job was started. The one exception is the front of `waiting` between
`fork` and the assignment of the pid, and `FrontInHand` keeps track of it: it is the entry of the last job started,
or ^C has emptied `waiting`.

`WaitingCounts` and `FifoCounts` compare a counter with the size of a table. Their step is by
cases again, on top of `HandNotEmpty` (until ^C nobody takes `waiting` from under `executeJob`).
The set counted by the first is `Unstarted`, of jobs, not entries: it is told by who was
started and does not depend on when the pid is written. `QueueKept` and `UnstartedKept` are the lemmas
about what leaves it alone; one entry per job turns it into the number of entries in the end.

### Signals, shutdown and CPUs

`SignalInv` relates the state of a child to where its entry is. A queued job is on no CPU unless
its position is that of the entry just forked or resumed; a stopped one is in `running` only while
`rRobin_runner` has sent the signal and not yet moved the entry. `StatusAgrees` uses it for the
lists, and `ShownEnough` for the count, which is not read again while the handlers remove entries.

`NobodyLeftStopped` needs `ShutdownInv`: every stopped child has its entry in `waiting`, or is the
front of `running` while round robin requeues it, so that `flush_jobs` meets it (`StoppedQueued`);
once it is done no child is stopped and, until the interrupted round is over, `waiting`
holds at most the job that came last (`AfterSigint`). The second part gives
`NothingQueuedStarts` too.

`NobodyStoppedIsLost` follows under fifo, where nobody is stopped, and round robin from
`StoppedQueued`. Under mlfq it is inductive by itself on top of `SignalInv` (`StoppedInLevels`): the
thread stops only what it has copied and queues in the same step, what it pops from a level it
has resumed or found dead (`PoppedLevel`), and the flush pops only what it has killed.

`FifoFitsCPUs` has two phases. Before ^C every child on a CPU has its entry in `running`,
or is the one just forked (`Covered`), and `running` is limited. `flush_jobs` can drop the
entry of a child that runs, after which `running` says nothing. But it drops it only
after a kill that freed a CPU (`Slack`), and after the flush at most one job is started: the one
in hand or the one that came last.

### The refinement

`LifecycleImplemented` is for every policy without hypotheses. The mapping `Stage` looks at pids;
`StageIs` shows that it can be told by who was started (`StageAt`), which no assignment of a pid
changes. Then each action either leaves every job's stage alone (`Stutters`) or moves
one job as `JobLifecycle` allows (`Moves`), and the other jobs' stages stay (`Lives` is the
list of moves). Where a move makes a job active, `FreeRoom` shows that fewer than `NCPUS` are: active jobs
are those of `running` and the one to be pushed, each with one entry, and the runner has found
`running.size()` below `NCPUS`. Two facts are needed
beside the invariants above: the front of `waiting` that round robin has resumed has a pid
(`HandResumed`), and what `executeJob` is about to push was started (`ForkedInHand`).

### The byte stream

`ClientServerInv` counts, for each client c, the messages the server has received of it,
`Got(c)`: what was sent less what is still in the stream. It is 0 for whoever waits in the backlog
and until the number is received, and then one more than the words collected, unless the client
died and all it sent is received, from where on `recv` returns 0 and words are repeated. What is in
flight is the rest of the request in order (`InOrder`), so that the word received next is the one
that `command` lacks. A client has one connection and is served once (`OneConnection`), whence
one push; `Answered` carries "it was pushed" from the dispatch to the close. A client that dies
before the number leaves whatever the buffer held; that no text that is read as a
number is "add", and that a repeated word is one the client sent, is why this makes no "add" of another
request.

### Only model-checked

* Liveness, which is outside the prover's reach: `EveryJobLeavesWaiting`, `EveryStoppedResumes`,
  `EveryZombieReaped`, `ShutdownEnds`, `EveryClientEnds`.
* `FailedExec`, of which the runs check only the finding `doc_exec_once`.
* The `doc_` findings, which are counterexamples.

## Not modelled, and why

* **Command-line parsing** (`pq.cpp` 94-141): it sets the constants of the model, once.
* **Two live servers on one path**, which `startServer.py`'s `rm` makes possible; a second
  server made by a failed `execvp` is modelled.
* **The boost's period**: the boost fires only if a `run` falls into a second divisible by five
  (317). Whether it is due is left open, so everything that is checked holds for any timing.
* **Averages, the columns of a status, and its truncation to BUFSIZ**: they change nothing, and
  no property is about them.
* **Failing `socket`, `accept` and `listen`**, words longer than BUFSIZ, a full backlog.
* **Overflow** of the `unsigned` counters: they are printed after a conversion to `int`.
* **`scheduler_temp.cpp`, `rRobin.cpp`, `server.cpp`**: drafts outside the build.
* **Scripts and workloads**: `startServer.py` appears as the `rm` in `Launch`, the others not at
  all.

## Plan

1. Core (done): `Children`, `Scheduler`, `PQServer`, its properties, the invariant
   and its proofs.
2. `JobLifecycle` and its refinement by `PQServer` (model-checked and proved).
3. Client protocol (done): `ClientServer`, with sockets that outlive their server and suspended
   clients; what a status says is in `PQServer`.
4. Shutdown (done): SIGINT in the middle of a step, a job accepted after the flush, stdin.
5. Long runs (done but for the boost's period): descriptors, clones after a failed exec.
6. Proofs (done): every invariant and every action property that a passing run checks, the
   refinement of step 2 among them.
7. Left: what follows for a job from `JobLifecycle` alone (what is gone stays gone, what was
   active is never queued as new again), as theorems about it that `LifecycleImplemented` then
   gives the server; invariants of `FailedExec` that hold in spite of the clone; the period of
   the boost.
