---------------------------- MODULE ClientServer ----------------------------
(***************************************************************************)
(* How a command line reaches the server: client_request on one side of a  *)
(* UNIX stream socket, server_create and server_accept on the other        *)
(* (ipc_communication.cpp).  A client sends the number of its words and    *)
(* then the words, each in a message of BUFSIZ bytes, and reads until the  *)
(* server closes.  The server handles one connection at a time, and its    *)
(* thread blocks in recv() while the client is silent.  A client may be    *)
(* suspended or die at any moment; so may the server die, and be launched  *)
(* again.                                                                  *)
(*                                                                         *)
(* The jobs the server forks inherit its listening socket (nothing sets    *)
(* FD_CLOEXEC), so the socket outlives the server while one of them lives: *)
(* clients connect to it, and wait there for nobody.                       *)
(***************************************************************************)
EXTENDS Integers, Sequences

CONSTANTS
  Clients,
  NoClient,
  Requests,     \* the argument lists a client may be given
  Numerals,     \* Numerals[n] is to_string(n), for the n of one digit
  Reads,        \* what atoi() reads at the start of a text; 0 also for n < 0
  Suspendable,  \* the clients somebody may suspend (^Z)
  MaxLaunches   \* bound on how often the server is launched

ASSUME ClientServerAssumption ==
  /\ NoClient \notin Clients
  /\ Requests \subseteq Seq(STRING) \ {<<>>}
  /\ Numerals \in Seq(STRING) /\ Len(Numerals) <= 9
  /\ \A r \in Requests : Len(r) <= Len(Numerals)
  /\ Suspendable \subseteq Clients
  /\ MaxLaunches \in Nat

(* The texts a message may hold. *)
Texts == {""} \cup {Numerals[n] : n \in DOMAIN Numerals}
              \cup UNION {{r[k] : k \in DOMAIN r} : r \in Requests}

(* atoi() of nothing, of a number, and of a word that is none. *)
ASSUME ReadsAssumption ==
  /\ Reads \in [Texts -> Nat] /\ Reads[""] = 0
  /\ \A n \in DOMAIN Numerals : Reads[Numerals[n]] = n
  /\ "add" \in Texts => Reads["add"] = 0

VARIABLES
  request,    \* request[c]: the command vector of client c
  client,     \* client[c]: what client c is doing
  sent,       \* how many messages c has sent
  toServer,   \* messages of c the server has not received
  toClient,   \* how many replies c has not received
  server,     \* the next step of the server
  path,       \* which launch made the socket the file names; 0: no file
  launches,
  socket,     \* socket[c]: the launch whose socket c is connected to
  job,        \* job[c]: is the command of c queued, or does a child execute it?
  backlog,    \* connections the server has still to accept(), in order
  open,       \* connections the other end of which is open
  conn,       \* client_fd
  buffer,     \* buffer, with what the last recv() left in it
  left,       \* commandNo - i
  command,    \* vector<string> command, before pop_back()
  pushed,     \* what pushJob was called with, and for which client
  closed      \* the clients whose connection server_accept closed

clientVars == <<client, sent, toServer, toClient>>
listenVars == <<path, launches, socket, job, backlog, open>>
acceptVars == <<conn, buffer, left, command>>
histVars   == <<pushed, closed>>
vars == <<request, clientVars, server, listenVars, acceptVars, histVars>>

(* A message: a word ends in a newline, the number does not. *)
Word(w)   == [text |-> w, newline |-> TRUE]
Number(n) == [text |-> Numerals[n], newline |-> FALSE]
Junk      == [text |-> "", newline |-> TRUE]

MessageFor(r, k) == IF k = 1 THEN Number(Len(r)) ELSE Word(r[k-1])

Messages == {Junk} \cup UNION {{MessageFor(r, k) : k \in 1..Len(r)+1} : r \in Requests}

(* pop_back() takes the newline, or else the only digit of a number.  *)
PopBack(m) == IF m.newline THEN m.text ELSE ""
Command    == [k \in DOMAIN command |-> PopBack(command[k])]

AtoI(m) == Reads[m.text]

Init ==
  /\ request \in [Clients -> Requests]
  /\ client = [c \in Clients |-> "idle"]
  /\ sent = [c \in Clients |-> 0]
  /\ toServer = [c \in Clients |-> <<>>]
  /\ toClient = [c \in Clients |-> 0]
  /\ server = "down" /\ path = 0 /\ launches = 0
  /\ socket = [c \in Clients |-> 0] /\ job = [c \in Clients |-> "none"]
  /\ backlog = <<>> /\ open = {} /\ conn = NoClient
  /\ buffer = Junk /\ left = 0 /\ command = <<>>
  /\ pushed = <<>> /\ closed = {}

(* The launches whose sockets live on in the jobs they started.            *)
Inherited == {socket[c] : c \in {d \in Clients : job[d] = "child"}}
-----------------------------------------------------------------------------
(* client_request *)

(* connect() reaches a listening server even while that is busy, and a     *)
(* socket that only the jobs of a dead server hold.                        *)
Connect(c) ==
  /\ client[c] = "idle"
  /\ IF server = "down" /\ path \notin Inherited
       THEN client' = [client EXCEPT ![c] = "failed"] /\ UNCHANGED <<socket, backlog, open>>
       ELSE /\ client' = [client EXCEPT ![c] = "sending"]
            /\ socket' = [socket EXCEPT ![c] = path]
            /\ backlog' = IF server = "down" THEN backlog ELSE Append(backlog, c)
            /\ open' = open \cup {c}
  /\ UNCHANGED <<request, sent, toServer, toClient, server, path, launches, job, acceptVars,
                 histVars>>

(* send() to a server that is gone raises SIGPIPE. *)
Send(c) ==
  /\ client[c] = "sending"
  /\ IF c \in open
       THEN /\ sent' = [sent EXCEPT ![c] = @ + 1]
            /\ toServer' = [toServer EXCEPT ![c] = Append(@, MessageFor(request[c], sent[c] + 1))]
            /\ client' = [client EXCEPT ![c] = IF sent[c] = Len(request[c]) THEN "waiting" ELSE @]
       ELSE client' = [client EXCEPT ![c] = "dead"] /\ UNCHANGED <<sent, toServer>>
  /\ UNCHANGED <<request, toClient, server, listenVars, acceptVars, histVars>>

(* The loop of recv() until it returns 0. *)
Receive(c) ==
  /\ client[c] = "waiting"
  /\ \/ toClient[c] > 0 /\ toClient' = [toClient EXCEPT ![c] = @ - 1] /\ UNCHANGED client
     \/ /\ toClient[c] = 0 /\ c \notin open
        /\ client' = [client EXCEPT ![c] = "done"]
        /\ UNCHANGED toClient
  /\ UNCHANGED <<request, sent, toServer, server, listenVars, acceptVars, histVars>>

Suspend(c) ==
  /\ c \in Suspendable
  /\ client[c] = "sending" /\ client' = [client EXCEPT ![c] = "suspended"]
  /\ UNCHANGED <<request, sent, toServer, toClient, server, listenVars, acceptVars, histVars>>

Resume(c) ==
  /\ client[c] = "suspended" /\ client' = [client EXCEPT ![c] = "sending"]
  /\ UNCHANGED <<request, sent, toServer, toClient, server, listenVars, acceptVars, histVars>>

ClientDies(c) ==
  /\ client[c] \in {"sending", "suspended", "waiting"}
  /\ client' = [client EXCEPT ![c] = "dead"]
  /\ UNCHANGED <<request, sent, toServer, toClient, server, listenVars, acceptVars, histVars>>
-----------------------------------------------------------------------------
(* server_create.  bind() fails when the file exists, which no server ever *)
(* removes; startServer.py removes it before it launches one.              *)
Launch ==
  /\ server = "down" /\ launches < MaxLaunches
  /\ launches' = launches + 1
  /\ \E removed \in BOOLEAN :
       IF path # 0 /\ ~removed THEN UNCHANGED <<server, path>>
                               ELSE server' = "polling" /\ path' = launches'
  /\ UNCHANGED <<request, clientVars, socket, job, backlog, open, acceptVars, histVars>>

(* The server's end: SIGPIPE, a segmentation fault, or from outside.  Its  *)
(* queue is lost; the connection it served is closed, and those it had not *)
(* accepted are, unless a job it started holds the socket.                 *)
ServerDies ==
  /\ server' = "down"
  /\ job' = [c \in Clients |-> IF job[c] = "queued" THEN "none" ELSE job[c]]
  /\ backlog' = <<>> /\ open' = {c \in open : c # conn /\ socket[c] \in Inherited}
  /\ conn' = NoClient /\ buffer' = Junk /\ left' = 0 /\ command' = <<>>
  /\ UNCHANGED <<request, clientVars, path, launches, socket, histVars>>

Killed == server # "down" /\ ServerDies

(* run() forks the command of c; the child ends, and with the last one the *)
(* socket of a dead server.                                                *)
JobStarts(c) ==
  /\ server = "polling" /\ job[c] = "queued"
  /\ job' = [job EXCEPT ![c] = "child"]
  /\ UNCHANGED <<request, clientVars, server, path, launches, socket, backlog, open, acceptVars,
                 histVars>>

JobEnds(c) ==
  /\ job[c] = "child"
  /\ job' = [job EXCEPT ![c] = "none"]
  /\ UNCHANGED <<request, clientVars, server, path, launches, socket, backlog, acceptVars,
                 histVars>>
  /\ open' = {d \in open : socket[d] \in Inherited' \/ (server # "down" /\ socket[d] = path)}
-----------------------------------------------------------------------------
(* server_accept *)

(* The vector is local to the call -- or would keep what it holds. *)
OldVector == command
NewVector == <<>>

Accept ==
  /\ server = "polling" /\ backlog # <<>>
  /\ conn' = Head(backlog) /\ backlog' = Tail(backlog)
  /\ command' = NewVector
  /\ server' = "recv_number"
  /\ UNCHANGED <<request, clientVars, path, launches, socket, job, open, buffer, left, histVars>>

(* recv() returns 0 once the client is gone and all it sent is received. *)
AtEnd == toServer[conn] = <<>> /\ client[conn] = "dead"

(* What an earlier call may have left on the stack, or other bytes. *)
Leftovers ==
  {Junk} \cup UNION {{MessageFor(request[c], k) : k \in 1..sent[c]} : c \in Clients}

(* recv() of the number; at the end of the stream nothing is written to    *)
(* buffer, which is not initialised.                                       *)
RecvNumber ==
  /\ server = "recv_number"
  /\ \/ /\ toServer[conn] # <<>>
        /\ buffer' = Head(toServer[conn])
        /\ toServer' = [toServer EXCEPT ![conn] = Tail(@)]
     \/ AtEnd /\ buffer' \in Leftovers /\ UNCHANGED toServer
  /\ left' = AtoI(buffer')
  /\ server' = "recv_word"
  /\ UNCHANGED <<request, client, sent, toClient, listenVars, conn, command, histVars>>

OneMoreWord == left >= 0
MoreWords   == left > 0

(* recv() of a word; at the end of the stream the buffer is pushed again. *)
RecvWord ==
  /\ server = "recv_word" /\ MoreWords
  /\ \/ /\ toServer[conn] # <<>>
        /\ buffer' = Head(toServer[conn])
        /\ toServer' = [toServer EXCEPT ![conn] = Tail(@)]
     \/ AtEnd /\ UNCHANGED <<buffer, toServer>>
  /\ command' = Append(command, buffer')
  /\ left' = left - 1
  /\ UNCHANGED <<request, client, sent, toClient, server, listenVars, conn, histVars>>

(* "add" and at least one more word: command.size() > 1 -- or, wrongly, 2. *)
IsLongAdd == Command[1] = "add" /\ Len(Command) > 2
IsAdd     == Command[1] = "add" /\ Len(Command) > 1

(* command[0] of an empty vector is a read through a null pointer. *)
Dispatch ==
  /\ server = "recv_word" /\ ~MoreWords
  /\ \/ command = <<>> /\ ServerDies
     \/ /\ command # <<>> /\ IsAdd
        /\ pushed' = Append(pushed, [by |-> conn, job |-> Tail(Command)])
        /\ job' = [job EXCEPT ![conn] = "queued"]
        /\ server' = "close"
        /\ UNCHANGED <<request, clientVars, path, launches, socket, backlog, open, acceptVars,
                       closed>>
     \/ /\ command # <<>> /\ ~IsAdd
        /\ server' = IF Command[1] \in {"status", "running", "waiting"} THEN "reply" ELSE "close"
        /\ UNCHANGED <<request, clientVars, listenVars, acceptVars, histVars>>

(* status_log, running_log, waiting_log: one send(); SIGPIPE kills the     *)
(* server when the client is gone.                                         *)
Reply ==
  /\ server = "reply"
  /\ \/ client[conn] = "dead" /\ ServerDies
     \/ /\ client[conn] # "dead"
        /\ toClient' = [toClient EXCEPT ![conn] = @ + 1]
        /\ server' = "close"
        /\ UNCHANGED <<request, client, sent, toServer, listenVars, acceptVars, histVars>>

StaysOpen(c) == UNCHANGED open
CloseFd(c)   == open' = open \ {c}

Close ==
  /\ server = "close"
  /\ CloseFd(conn)
  /\ closed' = closed \cup {conn}
  /\ conn' = NoClient
  /\ server' = "polling"
  /\ UNCHANGED <<request, clientVars, path, launches, socket, job, backlog, buffer, left,
                 command, pushed>>

ServerStep == Accept \/ RecvNumber \/ RecvWord \/ Dispatch \/ Reply \/ Close

Next ==
  \/ ServerStep \/ Launch \/ Killed
  \/ \E c \in Clients : \/ Connect(c) \/ Send(c) \/ Receive(c)
                        \/ Suspend(c) \/ Resume(c) \/ ClientDies(c)
                        \/ JobStarts(c) \/ JobEnds(c)

Spec == Init /\ [][Next]_vars

(* A server that can take a step does, and so does a client between its    *)
(* connect() and its end: client_request is straight-line code.  A job     *)
(* need not end: it may be a long one, or one that nobody resumes.         *)
FairSpec ==
  Spec /\ WF_vars(ServerStep) /\ \A c \in Clients : WF_vars(Send(c)) /\ WF_vars(Receive(c))
-----------------------------------------------------------------------------
TypeOK ==
  /\ request \in [Clients -> Requests]
  /\ client \in [Clients -> {"idle", "sending", "suspended", "waiting", "done", "failed", "dead"}]
  /\ sent \in [Clients -> Nat]
  /\ toServer \in [Clients -> Seq(Messages)] /\ toClient \in [Clients -> Nat]
  /\ server \in {"down", "polling", "recv_number", "recv_word", "reply", "close"}
  /\ launches \in 0..MaxLaunches /\ path \in 0..launches
  /\ socket \in [Clients -> 0..launches]
  /\ job \in [Clients -> {"none", "queued", "child"}]
  /\ backlog \in Seq(Clients) /\ open \subseteq Clients
  /\ conn \in Clients \cup {NoClient}
  /\ buffer \in Messages /\ left \in Nat /\ command \in Seq(Messages)
  /\ \A k \in DOMAIN pushed : pushed[k].by \in Clients
  /\ closed \subseteq Clients

(* What server_accept collects are the words of the client it accepted, in *)
(* order, and for a client that lives all of them: the count read first    *)
(* and the messages stay in step across deaths of clients and servers      *)
(* (ipc_communication.cpp:80-91).                                          *)
WordsOfTheClient ==
  server = "recv_word" =>
    /\ \A k \in DOMAIN command :
         k < sent[conn] => command[k] = Word(request[conn][k])
    /\ client[conn] # "dead" => Len(command) + left = Len(request[conn])

(* A request is pushed at most once, and only an "add" is, though vector   *)
(* and buffer see one client after the other (ipc_communication.cpp:95-97).*)
OnePushPerAdd ==
  \A a \in DOMAIN pushed :
    /\ request[pushed[a].by][1] = "add"
    /\ \A b \in DOMAIN pushed : pushed[a].by = pushed[b].by => a = b

(* A client that was not killed and whose connection the server itself     *)
(* closed has had its "add COMMAND" pushed as it stands                    *)
(* (ipc_communication.cpp:95-112,148-158).                                 *)
ClosedMeansPushed ==
  \A c \in closed :
    client[c] = "done" /\ request[c][1] = "add" /\ Len(request[c]) > 1 =>
      \E k \in DOMAIN pushed : pushed[k] = [by |-> c, job |-> Tail(request[c])]

(* A client connected to a socket that only jobs of a dead server hold.    *)
Stranded(c) == c \in open /\ (server = "down" \/ socket[c] # path)

(* A client that got a connection comes to an end, also when the server    *)
(* dies or another client dies in mid-request, with two exceptions: the    *)
(* socket is one that only jobs hold, and a client is suspended, in which  *)
(* case the server's recv() waits for it and everybody for the server      *)
(* (ipc_communication.cpp:80-112,128,147-158; scheduler.cpp:131-139).      *)
EveryClientEnds ==
  \A c \in Clients :
    client[c] \in {"sending", "waiting"} ~>
      \/ client[c] \in {"done", "dead"}
      \/ Stranded(c)
      \/ \E d \in Clients : client[d] = "suspended"

(* "add COMMAND: Add COMMAND to queue" (pq.cpp:44): what is pushed is the  *)
(* COMMAND of the client.                                                  *)
PushedAsSubmitted ==
  \A k \in DOMAIN pushed : pushed[k].job = Tail(request[pushed[k].by])
=============================================================================
