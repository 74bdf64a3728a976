----------------------------- MODULE FailedExec -----------------------------
(***************************************************************************)
(* What becomes of the server when execvp() fails.  The child does not end *)
(* there: executeJob returns in it, and it goes on in the loop of          *)
(* fifo_runner as a server of its own, with a copy of the tables in which  *)
(* the job is still at the front of waiting, and with the same listening   *)
(* socket.  PQServer has one server and an execvp() that succeeds; here    *)
(* the policy is fifo, requests are "add", SIGCHLD comes between calls or  *)
(* interrupts poll(), and nobody types.                                    *)
(***************************************************************************)
EXTENDS Naturals, Sequences, FiniteSets

CONSTANTS
  Jobs,
  Missing,     \* the jobs whose command execvp() does not find
  NoPid,
  NCPUS,
  MaxServers   \* bound on the servers: the first and those that come of it

VARIABLES
  servers,     \* how many servers there have been: they are 1..servers
  self,        \* self[s]: the pid of server s; the first is nobody's child
  waiting,     \* waiting[s]: deque<Process> waiting of server s
  running,     \* running[s]: the pids in its deque<Process> running
  at,          \* at[s]: the next call of server s
  connecting,  \* the jobs of the clients that wait for accept()
  submitted,   \* the jobs of all clients so far
  executed,    \* the pids of the children that execute, or executed, a job
  ended,       \* the pids of the children that ended and are not yet reaped
  reaped       \* the pids that no process has any more

tables == <<servers, self, waiting, running>>
clients == <<connecting, submitted>>
children == <<executed, ended, reaped>>
vars == <<tables, at, clients, children>>

(* A server forks one child for each job it takes out of waiting. *)
Pid(s, j) == [parent |-> s, job |-> j]

Init ==
  /\ servers = 1
  /\ self = [s \in 1..MaxServers |-> NoPid]
  /\ waiting = [s \in 1..MaxServers |-> <<>>]
  /\ running = [s \in 1..MaxServers |-> <<>>]
  /\ at = [s \in 1..MaxServers |-> "poll"]
  /\ connecting = {} /\ submitted = {}
  /\ executed = {} /\ ended = {} /\ reaped = {}
-----------------------------------------------------------------------------
(* A client connects to the socket, which all servers share. *)
Connect(j) ==
  /\ j \notin submitted
  /\ submitted' = submitted \cup {j} /\ connecting' = connecting \cup {j}
  /\ UNCHANGED <<tables, at, children>>

Poll(s) ==
  /\ at[s] = "poll"
  /\ at' = [at EXCEPT ![s] = IF connecting = {} THEN "stdin" ELSE "stdin_client"]
  /\ UNCHANGED <<tables, clients, children>>

(* The second poll() times out: nobody types. *)
PollStdin(s) ==
  /\ \/ at[s] = "stdin" /\ at' = [at EXCEPT ![s] = "stat"]
     \/ at[s] = "stdin_client" /\ at' = [at EXCEPT ![s] = "accept"]
  /\ UNCHANGED <<tables, clients, children>>

(* accept() blocks if another server was faster.  When a signal            *)
(* interrupted the second poll(), run() is not called in this round.       *)
Accept(s) ==
  /\ at[s] \in {"accept", "accept_only"}
  /\ \E j \in connecting :
       /\ connecting' = connecting \ {j}
       /\ waiting' = [waiting EXCEPT ![s] = <<j>> \o @]
  /\ at' = [at EXCEPT ![s] = IF @ = "accept" THEN "stat" ELSE "poll"]
  /\ UNCHANGED <<servers, self, running, submitted, children>>

(* run(): fscanf of a NULL stream when a process in running is gone, which *)
(* a server learns of its own children only.                               *)
Stat(s) ==
  /\ at[s] = "stat"
  /\ IF \A k \in DOMAIN running[s] : running[s][k] \notin reaped
       THEN at' = [at EXCEPT ![s] = "fifo"] /\ UNCHANGED ended
       ELSE at' = [at EXCEPT ![s] = "segfault"] /\ ended' = ended \cup ({self[s]} \ {NoPid})
  /\ UNCHANGED <<tables, clients, executed, reaped>>

HasFreeCPU(s) == Len(running[s]) < NCPUS

(* fifo_runner, with executeJob in the parent, and in the child.           *)
ExecuteJob(s) ==
  /\ at[s] = "fifo" /\ HasFreeCPU(s) /\ waiting[s] # <<>>
  /\ LET j == Head(waiting[s])
         p == Pid(s, j)
         parentRunning == [running EXCEPT ![s] = Append(@, p)]
         parentWaiting == [waiting EXCEPT ![s] = Tail(@)]
         n == servers + 1
     IN \/ /\ j \notin Missing
           /\ executed' = executed \cup {p}
           /\ running' = parentRunning /\ waiting' = parentWaiting
           /\ UNCHANGED <<servers, self, at>>
        \/ /\ j \in Missing /\ n <= MaxServers
           /\ servers' = n
           /\ self' = [self EXCEPT ![n] = p]
           /\ running' = [parentRunning EXCEPT ![n] = running[s]]
           /\ waiting' = [parentWaiting EXCEPT ![n] = waiting[s]]
           /\ at' = [at EXCEPT ![n] = "fifo"]
           /\ UNCHANGED executed
  /\ UNCHANGED <<clients, ended, reaped>>

RunnerReturns(s) ==
  /\ at[s] = "fifo" /\ ~(HasFreeCPU(s) /\ waiting[s] # <<>>)
  /\ at' = [at EXCEPT ![s] = "poll"]
  /\ UNCHANGED <<tables, clients, children>>

(* Where a SIGCHLD that comes at l leaves the server: it interrupts        *)
(* poll(), or comes right before or after it.                              *)
Interrupted(l) ==
  {l} \cup CASE l = "poll"         -> {"stdin"}
             [] l = "stdin"        -> {"poll"}
             [] l = "stdin_client" -> {"accept_only"}
             [] OTHER              -> {}

(* A job's process ends, and is reaped by its server, whose handler takes  *)
(* it out of running, or by init when that server is gone.                 *)
Ends(p) ==
  /\ p \in executed \ (ended \cup reaped)
  /\ ended' = ended \cup {p}
  /\ UNCHANGED <<tables, at, clients, executed, reaped>>

Reap(p) ==
  /\ ended' = ended \ {p} /\ reaped' = reaped \cup {p}
  /\ running' = [running EXCEPT ![p.parent] = SelectSeq(@, LAMBDA q : q # p)]
  /\ \E l \in Interrupted(at[p.parent]) : at' = [at EXCEPT ![p.parent] = l]
  /\ UNCHANGED <<servers, self, waiting, clients, executed>>

Next ==
  \/ \E j \in Jobs : Connect(j)
  \/ \E s \in 1..servers : \/ Poll(s) \/ PollStdin(s) \/ Accept(s) \/ Stat(s)
                           \/ ExecuteJob(s) \/ RunnerReturns(s)
  \/ \E p \in executed : Ends(p)
  \/ \E p \in ended : Reap(p)

Spec == Init /\ [][Next]_vars
-----------------------------------------------------------------------------
(* "We will be using fork() and execvp() to create our processes and       *)
(* execute the command on them" (README.md:67), and a child whose execvp() *)
(* fails was to end, "return -1; // fail" (scheduler.cpp:140): so each     *)
(* command is executed by one process.                                     *)
ExecutedOnce ==
  \A j \in Jobs : Cardinality({p \in executed : p.job = j}) <= 1
=============================================================================
