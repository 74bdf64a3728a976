------------------------- MODULE ClientServerProofs -------------------------
(***************************************************************************)
(* The byte stream.  What keeps the server in step with its clients is the *)
(* number of messages it has received of each of them: none while a client *)
(* waits in the backlog, and then the number and one word after another,   *)
(* unless the client died and all it sent is received.                     *)
(***************************************************************************)
EXTENDS ClientServer, SequenceTheorems, TLAPS

Pushers == {pushed[k].by : k \in DOMAIN pushed}
Pushes  == [by : Clients, job : Seq({PopBack(m) : m \in Messages})]

(* How many messages of c the server has received. *)
Got(c) == sent[c] - Len(toServer[c])

(* A client has one connection in its life, and is served once. *)
OneConnection ==
  /\ IF server \in {"down", "polling"} THEN conn = NoClient ELSE conn \in Clients
  /\ \A a, b \in DOMAIN backlog : backlog[a] = backlog[b] => a = b
  /\ \A a \in DOMAIN backlog :
       backlog[a] # conn /\ backlog[a] \notin Pushers /\ client[backlog[a]] # "idle"
  /\ conn \in Clients => client[conn] # "idle"
  /\ \A c \in Pushers : client[c] # "idle"
  /\ server \in {"recv_number", "recv_word"} => conn \notin Pushers

(* What was sent and not received is the end of what was sent. *)
InOrderOf(c) ==
  /\ sent[c] <= Len(request[c]) + 1
  /\ client[c] = "idle" => sent[c] = 0
  /\ client[c] \in {"sending", "suspended"} => sent[c] <= Len(request[c])
  /\ Len(toServer[c]) <= sent[c]
  /\ \A k \in 1..Len(toServer[c]) : toServer[c][k] = MessageFor(request[c], Got(c) + k)

InOrder == \A c \in Clients : InOrderOf(c)

Unread ==
  /\ \A a \in DOMAIN backlog : Got(backlog[a]) = 0
  /\ server = "recv_number" => Got(conn) = 0

ReadingWords ==
  /\ \/ Got(conn) = Len(command) + 1
     \/ Got(conn) <= Len(command) + 1 /\ toServer[conn] = <<>> /\ client[conn] = "dead"
  /\ command = <<>> /\ left > 0 => PopBack(buffer) # "add"
  /\ command # <<>> /\ PopBack(command[1]) = "add" => request[conn][1] = "add"

Reading ==
  /\ server = "recv_number" => command = <<>>
  /\ server = "recv_word" => ReadingWords

(* The "add" of a client that lives was pushed as it stands. *)
Served(c) ==
  client[c] # "dead" /\ request[c][1] = "add" /\ Len(request[c]) > 1 =>
    \E k \in DOMAIN pushed : pushed[k] = [by |-> c, job |-> Tail(request[c])]

Answered ==
  /\ server = "reply" /\ client[conn] # "dead" => request[conn][1] # "add"
  /\ server = "close" => Served(conn)
  /\ \A c \in closed : Served(c)

ClientServerInv ==
  /\ TypeOK /\ pushed \in Seq(Pushes)
  /\ OneConnection /\ InOrder /\ Unread /\ Reading
  /\ WordsOfTheClient /\ OnePushPerAdd /\ Answered
-----------------------------------------------------------------------------
LEMMA QueueTail ==
  ASSUME NEW S, NEW s \in Seq(S), s # <<>>
  PROVE  /\ Head(s) = s[1] /\ s[1] \in S /\ 1 \in DOMAIN s /\ Len(s) \in Nat \ {0}
         /\ Tail(s) \in Seq(S) /\ Len(Tail(s)) = Len(s) - 1
         /\ \A k \in 1..Len(s)-1 : Tail(s)[k] = s[k+1]
         /\ DOMAIN s = 1..Len(s) /\ DOMAIN Tail(s) = 1..Len(s)-1
<1>1. /\ Tail(s) \in Seq(S) /\ Len(s) \in Nat /\ Len(Tail(s)) = Len(s) - 1
      /\ \A k \in 1..Len(s)-1 : Tail(s)[k] = s[k+1]
      /\ Head(s) = s[1]
  BY HeadTailProperties, LenProperties
<1>2. Len(s) # 0
  BY EmptySeq
<1>3. 1 \in 1..Len(s) /\ s[1] \in S
  BY <1>1, <1>2, ElementOfSeq
<1> QED
  BY <1>1, <1>2, <1>3, LenProperties

LEMMA QueueAppend ==
  ASSUME NEW S, NEW s \in Seq(S), NEW e \in S
  PROVE  /\ Append(s, e) \in Seq(S) /\ Len(s) \in Nat /\ Len(Append(s, e)) = Len(s) + 1
         /\ DOMAIN s = 1..Len(s) /\ DOMAIN Append(s, e) = 1..Len(s)+1
         /\ \A k \in 1..Len(s) : Append(s, e)[k] = s[k]
         /\ Append(s, e)[Len(s)+1] = e
<1>1. /\ Append(s, e) \in Seq(S) /\ Len(s) \in Nat /\ Len(Append(s, e)) = Len(s) + 1
      /\ \A k \in 1..Len(s) : Append(s, e)[k] = s[k]
      /\ Append(s, e)[Len(s)+1] = e
  BY AppendProperties, LenProperties
<1> QED
  BY <1>1, LenProperties

LEMMA MessageType ==
  /\ Junk \in Messages
  /\ \A r \in Requests :
       /\ r \in Seq(STRING) /\ Len(r) \in Nat \ {0} /\ Len(r) <= Len(Numerals)
       /\ \A k \in 1..Len(r)+1 : MessageFor(r, k) \in Messages
<1>1. Junk \in Messages
  BY DEF Messages
<1>2. ASSUME NEW r \in Requests
      PROVE  /\ r \in Seq(STRING) /\ Len(r) \in Nat \ {0} /\ Len(r) <= Len(Numerals)
             /\ \A k \in 1..Len(r)+1 : MessageFor(r, k) \in Messages
  <2>1. r \in Seq(STRING) /\ r # <<>> /\ Len(r) <= Len(Numerals)
    BY ClientServerAssumption
  <2>2. Len(r) \in Nat /\ Len(r) # 0
    BY <2>1, LenProperties, EmptySeq
  <2>3. \A k \in 1..Len(r)+1 : MessageFor(r, k) \in Messages
    BY DEF Messages
  <2> QED
    BY <2>1, <2>2, <2>3
<1> QED
  BY <1>1, <1>2

(* The text of a message is one that atoi() reads. *)
LEMMA TextsRead == \A m \in Messages : m.text \in Texts
<1>1. Junk.text \in Texts
  BY DEF Junk, Texts
<1>2. ASSUME NEW r \in Requests, NEW k \in 1..Len(r)+1
      PROVE  MessageFor(r, k).text \in Texts
  <2>1. /\ Len(r) \in Nat \ {0} /\ Len(r) <= Len(Numerals) /\ DOMAIN r = 1..Len(r)
        /\ Len(Numerals) \in Nat /\ DOMAIN Numerals = 1..Len(Numerals)
    BY MessageType, ClientServerAssumption, LenProperties
  <2>2. CASE k = 1
    <3>1. Len(r) \in DOMAIN Numerals /\ MessageFor(r, k).text = Numerals[Len(r)]
      BY <2>1, <2>2 DEF MessageFor, Number
    <3> QED
      BY <3>1 DEF Texts
  <2>3. CASE k # 1
    <3>1. k-1 \in DOMAIN r /\ MessageFor(r, k).text = r[k-1]
      BY <2>1, <2>3 DEF MessageFor, Word
    <3> DEFINE w == MessageFor(r, k).text
    <3>2. w \in {r[i] : i \in DOMAIN r}
      BY <3>1
    <3>3. w \in UNION {{q[i] : i \in DOMAIN q} : q \in Requests}
      BY <3>2
    <3> HIDE DEF w
    <3>4. w \in Texts
      BY <3>3 DEF Texts
    <3> QED
      BY <3>4 DEF w
  <2> QED
    BY <2>2, <2>3
<1>3. ASSUME NEW m \in Messages
      PROVE  m = Junk \/ \E r \in Requests : \E k \in 1..Len(r)+1 : m = MessageFor(r, k)
  BY DEF Messages
<1> QED
  BY <1>1, <1>2, <1>3

(* What atoi() returns; a text it reads as a number is not the word "add". *)
LEMMA AtoIValue ==
  /\ \A m \in Messages : AtoI(m) \in Nat
  /\ \A n \in DOMAIN Numerals : AtoI(Number(n)) = n
  /\ \A m \in Messages : AtoI(m) > 0 => PopBack(m) # "add"
<1>1. ASSUME NEW m \in Messages
      PROVE  AtoI(m) \in Nat /\ (AtoI(m) > 0 => PopBack(m) # "add")
  <2>1. m.text \in Texts /\ AtoI(m) = Reads[m.text] /\ Reads[m.text] \in Nat
    BY TextsRead, ReadsAssumption DEF AtoI
  <2>2. m.text = "add" => AtoI(m) = 0
    BY <2>1, ReadsAssumption
  <2>3. PopBack(m) = "add" => m.text = "add"
    BY DEF PopBack
  <2>4. AtoI(m) = 0 => ~(AtoI(m) > 0)
    OBVIOUS
  <2> QED
    BY <2>1, <2>2, <2>3, <2>4
<1>2. ASSUME NEW n \in DOMAIN Numerals PROVE AtoI(Number(n)) = n
  BY ReadsAssumption DEF AtoI, Number
<1> QED
  BY <1>1, <1>2
-----------------------------------------------------------------------------
LEMMA InitInv == Init => ClientServerInv
<1> SUFFICES ASSUME Init PROVE ClientServerInv
  OBVIOUS
<1> USE DEF Init
<1>1. TypeOK
  <2>1. <<>> \in Seq(Messages) /\ <<>> \in Seq(Clients) /\ Len(Numerals) \in Nat
    BY ClientServerAssumption, LenProperties
  <2> QED
    BY <2>1, MessageType, ClientServerAssumption DEF TypeOK
<1>2. pushed \in Seq(Pushes)
  OBVIOUS
<1>3. OneConnection
  BY ClientServerAssumption DEF OneConnection, Pushers
<1>4. InOrder
  <2>1. ASSUME NEW c \in Clients
        PROVE  /\ sent[c] = 0 /\ toServer[c] = <<>> /\ client[c] = "idle"
               /\ Len(request[c]) \in Nat /\ Len(toServer[c]) = 0
    <3>1. request[c] \in Requests /\ toServer[c] = <<>>
      OBVIOUS
    <3> QED
      BY <3>1, MessageType, EmptySeq
  <2> HIDE DEF Init
  <2>2. \A m \in Nat : 0 <= m /\ 0 <= m + 1
    OBVIOUS
  <2>3. \A k \in 1..0 : FALSE
    OBVIOUS
  <2>4. ASSUME NEW c \in Clients
        PROVE  /\ sent[c] <= Len(request[c]) /\ sent[c] <= Len(request[c]) + 1
               /\ Len(toServer[c]) <= sent[c]
               /\ \A k \in 1..Len(toServer[c]) : FALSE
    BY <2>1, <2>2, <2>3
  <2> QED
    BY <2>1, <2>4 DEF InOrder, InOrderOf
<1>5. Unread /\ Reading /\ WordsOfTheClient /\ OnePushPerAdd /\ Answered
  BY DEF Unread, Reading, WordsOfTheClient, OnePushPerAdd, Answered
<1> QED
  BY <1>1, <1>2, <1>3, <1>4, <1>5 DEF ClientServerInv

LEMMA LeftoversType == TypeOK /\ InOrder => Leftovers \subseteq Messages
<1> SUFFICES ASSUME TypeOK, InOrder, NEW c \in Clients, NEW k \in 1..sent[c]
    PROVE  MessageFor(request[c], k) \in Messages
  BY MessageType DEF Leftovers
<1>1. request[c] \in Requests /\ sent[c] \in Nat /\ sent[c] <= Len(request[c]) + 1
  BY DEF TypeOK, InOrder, InOrderOf
<1>2. Len(request[c]) \in Nat
  BY <1>1, MessageType
<1>3. k \in 1..Len(request[c])+1
  BY <1>1, <1>2
<1> QED
  BY <1>1, <1>3, MessageType

LEMMA TypeStep ==
  ASSUME TypeOK, pushed \in Seq(Pushes), OneConnection, InOrder, [Next]_vars
  PROVE  TypeOK' /\ pushed' \in Seq(Pushes)
<1> USE DEF TypeOK
<1> USE DEF clientVars, listenVars, acceptVars, histVars
<1>0. /\ request \in [Clients -> Requests] /\ MaxLaunches \in Nat /\ launches \in Nat
      /\ Len(Numerals) \in Nat /\ NoClient \notin Clients /\ <<>> \in Seq(Clients)
      /\ <<>> \in Seq(Messages)
  BY ClientServerAssumption, LenProperties
<1>n. ASSUME NEW f \in [Clients -> Nat], NEW c \in Clients, NEW n \in Nat
      PROVE  [f EXCEPT ![c] = n] \in [Clients -> Nat]
  OBVIOUS
<1>t. \A c \in Clients : sent[c] \in Nat /\ toClient[c] \in Nat
  OBVIOUS
<1>1. CASE UNCHANGED vars
  BY <1>1 DEF vars
<1>2. ASSUME NEW c \in Clients, Connect(c) PROVE TypeOK' /\ UNCHANGED pushed
  <2>1. Append(backlog, c) \in Seq(Clients)
    BY QueueAppend
  <2>2. backlog' \in Seq(Clients) /\ open' \subseteq Clients
    BY <1>2, <2>1 DEF Connect
  <2>3. socket' \in [Clients -> 0..launches]
    <3>1. socket \in [Clients -> 0..launches] /\ path \in 0..launches
      OBVIOUS
    <3>2. socket' = socket \/ socket' = [socket EXCEPT ![c] = path]
      BY <1>2 DEF Connect
    <3> HIDE DEF TypeOK
    <3> QED
      BY ONLY <3>1, <3>2
  <2> QED
    BY <1>2, <2>2, <2>3 DEF Connect
<1>3. ASSUME NEW c \in Clients, Send(c) PROVE TypeOK' /\ UNCHANGED pushed
  <2>1. CASE c \notin open
    BY <1>3, <2>1 DEF Send
  <2>2. CASE c \in open
    <3>1. MessageFor(request[c], sent[c] + 1) \in Messages
      <4>1. sent[c] \in Nat /\ sent[c] <= Len(request[c]) /\ request[c] \in Requests
        <5>1. client[c] = "sending"
          BY <1>3 DEF Send
        <5> QED
          BY <5>1 DEF InOrder, InOrderOf
      <4>2. Len(request[c]) \in Nat
        BY <4>1, MessageType
      <4>3. sent[c] + 1 \in 1..Len(request[c])+1
        <5> HIDE DEF TypeOK
        <5> QED
          BY <4>1, <4>2
      <4> QED
        BY <4>1, <4>3, MessageType
    <3>2. toServer[c] \in Seq(Messages)
      OBVIOUS
    <3>3. Append(toServer[c], MessageFor(request[c], sent[c] + 1)) \in Seq(Messages)
      BY <3>1, <3>2, QueueAppend
    <3> DEFINE t == Append(toServer[c], MessageFor(request[c], sent[c] + 1))
    <3>4. toServer' = [toServer EXCEPT ![c] = t]
      BY <1>3, <2>2 DEF Send
    <3>5. t \in Seq(Messages)
      BY <3>3
    <3> HIDE DEF t
    <3>6. toServer' \in [Clients -> Seq(Messages)]
      BY <3>4, <3>5
    <3>7. sent' \in [Clients -> Nat]
      <4>1. sent' = [sent EXCEPT ![c] = sent[c] + 1] /\ sent[c] + 1 \in Nat
        BY <1>3, <1>t, <2>2 DEF Send
      <4> QED
        BY <1>n, <4>1
    <3>8. UNCHANGED <<request, toClient, server, listenVars, acceptVars, histVars>>
      BY <1>3 DEF Send
    <3>9. \E s \in {"waiting", "sending"} : client' = [client EXCEPT ![c] = s]
      BY <1>3, <2>2 DEF Send
    <3>10. client' \in [Clients -> {"idle", "sending", "suspended", "waiting", "done", "failed", "dead"}]
      BY <3>9
    <3> QED
      BY <3>6, <3>7, <3>8, <3>10
  <2> QED
    BY <2>1, <2>2
<1>4. ASSUME NEW c \in Clients, Receive(c) PROVE TypeOK' /\ UNCHANGED pushed
  <2>1. CASE toClient[c] > 0 /\ toClient' = [toClient EXCEPT ![c] = @ - 1]
    <3>1. toClient[c] - 1 \in Nat
      BY <1>t, <2>1
    <3>2. toClient' \in [Clients -> Nat]
      BY <1>n, <2>1, <3>1
    <3> QED
      BY <1>4, <3>2 DEF Receive
  <2>2. CASE UNCHANGED toClient
    BY <1>4, <2>2 DEF Receive
  <2> QED
    BY <1>4, <2>1, <2>2 DEF Receive
<1>5. ASSUME NEW c \in Clients, Suspend(c) \/ Resume(c) \/ ClientDies(c) PROVE TypeOK' /\ UNCHANGED pushed
  BY <1>5 DEF Suspend, Resume, ClientDies
<1>6. CASE Launch
  <2>1. launches' = launches + 1 /\ launches' \in 0..MaxLaunches
    BY <1>0, <1>6 DEF Launch
  <2>2. path' \in 0..launches' /\ socket' \in [Clients -> 0..launches']
    BY <1>0, <1>6, <2>1 DEF Launch
  <2> QED
    BY <1>6, <2>1, <2>2 DEF Launch
<1>7. ASSUME ServerDies PROVE TypeOK' /\ UNCHANGED pushed
  <2>1. job' \in [Clients -> {"none", "queued", "child"}] /\ open' \subseteq Clients
    BY <1>7 DEF ServerDies
  <2> QED
    BY <1>0, <1>7, <2>1, MessageType DEF ServerDies
<1>8. ASSUME NEW c \in Clients, JobStarts(c) \/ JobEnds(c) PROVE TypeOK' /\ UNCHANGED pushed
  BY <1>8 DEF JobStarts, JobEnds
<1>9. CASE Accept
  <2>1. conn' \in Clients /\ backlog' \in Seq(Clients)
    BY <1>9, QueueTail DEF Accept
  <2> QED
    BY <1>0, <1>9, <2>1 DEF Accept, NewVector
<1>r. ASSUME toServer[conn] # <<>>, conn \in Clients, toServer' = [toServer EXCEPT ![conn] = Tail(@)]
      PROVE  Head(toServer[conn]) \in Messages /\ toServer' \in [Clients -> Seq(Messages)]
  <2>1. toServer[conn] \in Seq(Messages)
    BY <1>r
  <2>2. Head(toServer[conn]) \in Messages /\ Tail(toServer[conn]) \in Seq(Messages)
    BY <1>r, <2>1, QueueTail
  <2> DEFINE t == Tail(toServer[conn])
  <2>3. toServer' = [toServer EXCEPT ![conn] = t] /\ t \in Seq(Messages)
    BY <1>r, <2>2
  <2> HIDE DEF t
  <2> QED
    BY <2>2, <2>3
<1>10. CASE RecvNumber
  <2>1. conn \in Clients
    BY <1>10 DEF RecvNumber, OneConnection
  <2>2. buffer' \in Messages /\ toServer' \in [Clients -> Seq(Messages)]
    BY <1>10, <1>r, <2>1, LeftoversType DEF RecvNumber
  <2>3. left' \in Nat
    BY <1>10, <2>2, AtoIValue DEF RecvNumber
  <2> QED
    BY <1>10, <2>2, <2>3 DEF RecvNumber
<1>11. CASE RecvWord
  <2>1. conn \in Clients /\ left > 0
    BY <1>11 DEF RecvWord, OneConnection, MoreWords
  <2>2. buffer' \in Messages /\ toServer' \in [Clients -> Seq(Messages)]
    BY <1>11, <1>r, <2>1 DEF RecvWord
  <2>3. Append(command, buffer') \in Seq(Messages)
    BY <2>2, QueueAppend
  <2>4. left' \in Nat /\ command' \in Seq(Messages)
    BY <1>0, <1>11, <2>1, <2>3 DEF RecvWord
  <2> QED
    BY <1>11, <2>2, <2>4 DEF RecvWord
<1>12. CASE Dispatch /\ ~ServerDies
  <2>1. conn \in Clients
    BY <1>12 DEF Dispatch, OneConnection
  <2>2. CASE UNCHANGED pushed /\ UNCHANGED job
    BY <1>12, <2>2 DEF Dispatch
  <2>3. CASE pushed' = Append(pushed, [by |-> conn, job |-> Tail(Command)]) /\ command # <<>>
    <3> DEFINE p == [by |-> conn, job |-> Tail(Command)]
    <3>1. Command \in Seq({PopBack(m) : m \in Messages}) /\ Command # <<>>
      <4>1. Len(command) \in Nat /\ DOMAIN command = 1..Len(command)
        BY LenProperties
      <4>2. \A k \in 1..Len(command) : command[k] \in Messages
        BY ElementOfSeq
      <4> DEFINE T == {PopBack(m) : m \in Messages}
      <4>3. Command \in [1..Len(command) -> T]
        BY <4>1, <4>2 DEF Command
      <4> HIDE DEF T
      <4>a. Command \in UNION {[1..n -> T] : n \in Nat}
        BY <4>1, <4>3
      <4>4. Command \in Seq(T)
        BY <4>a, SeqDef
      <4> USE DEF T
      <4>5. DOMAIN Command = DOMAIN command /\ 1 \in DOMAIN command
        BY <2>3, <4>1, QueueTail DEF Command
      <4> QED
        BY <4>4, <4>5
    <3>2. Tail(Command) \in Seq({PopBack(m) : m \in Messages})
      BY <3>1, QueueTail
    <3>3. p \in Pushes
      BY <2>1, <3>2 DEF Pushes
    <3> HIDE DEF p
    <3>4. pushed' \in Seq(Pushes) /\ \A k \in DOMAIN pushed' : pushed'[k] \in Pushes
      <4>1. Append(pushed, p) \in Seq(Pushes)
        BY <3>3, QueueAppend
      <4>2. \A k \in DOMAIN Append(pushed, p) : Append(pushed, p)[k] \in Pushes
        BY <4>1, ElementOfSeq, LenProperties
      <4> QED
        BY <2>3, <4>1, <4>2 DEF p
    <3>5. job' \in [Clients -> {"none", "queued", "child"}]
      BY <1>12, <2>1 DEF Dispatch
    <3> QED
      BY <1>12, <3>4, <3>5 DEF Dispatch, Pushes
  <2> QED
    BY <1>12, <2>2, <2>3 DEF Dispatch
<1>13. CASE Reply /\ ~ServerDies
  <2>0. conn \in Clients /\ toClient' = [toClient EXCEPT ![conn] = toClient[conn] + 1]
    BY <1>13 DEF Reply, OneConnection
  <2>1. toClient' \in [Clients -> Nat]
    <3>1. toClient[conn] + 1 \in Nat
      BY <1>t, <2>0
    <3> QED
      BY <1>n, <2>0, <3>1
  <2> QED
    BY <1>13, <2>1 DEF Reply
<1>14. CASE Close
  <2>1. conn \in Clients
    BY <1>14 DEF Close, OneConnection
  <2> QED
    BY <1>14, <2>1 DEF Close, CloseFd
<1> QED
  BY <1>1, <1>2, <1>3, <1>4, <1>5, <1>6, <1>7, <1>8, <1>9, <1>10, <1>11, <1>12, <1>13, <1>14
     DEF Next, ServerStep, Killed
-----------------------------------------------------------------------------
LEMMA PushersGrow ==
  ASSUME pushed \in Seq(Pushes), NEW p \in Pushes, pushed' = Append(pushed, p)
  PROVE  /\ Pushers' = Pushers \cup {p.by}
         /\ \A k \in DOMAIN pushed : k \in DOMAIN pushed' /\ pushed'[k] = pushed[k]
         /\ \A k \in DOMAIN pushed' : k \in DOMAIN pushed \/ k = Len(pushed) + 1
         /\ Len(pushed) + 1 \in DOMAIN pushed' /\ pushed'[Len(pushed) + 1] = p
<1>1. /\ Len(pushed) \in Nat /\ DOMAIN pushed = 1..Len(pushed)
      /\ DOMAIN pushed' = 1..Len(pushed)+1
      /\ \A k \in 1..Len(pushed) : pushed'[k] = pushed[k]
      /\ pushed'[Len(pushed) + 1] = p
  BY QueueAppend
<1>2. DOMAIN pushed' = DOMAIN pushed \cup {Len(pushed) + 1}
  BY <1>1
<1>3. Pushers' = Pushers \cup {p.by}
  BY <1>1, <1>2 DEF Pushers
<1> QED
  BY <1>1, <1>2, <1>3

(* What Dispatch pushes, and what it leaves alone.                         *)
LEMMA DispatchPushes ==
  ASSUME TypeOK, OneConnection, Dispatch, ~ServerDies
  PROVE  /\ server = "recv_word" /\ conn \in Clients /\ command # <<>> /\ left = 0
         /\ UNCHANGED <<request, client, sent, toServer, backlog, conn, closed>>
         /\ \/ /\ server' = "close" /\ IsAdd
               /\ pushed' = Append(pushed, [by |-> conn, job |-> Tail(Command)])
            \/ server' \in {"reply", "close"} /\ ~IsAdd /\ UNCHANGED pushed
         /\ server' = "reply" => Command[1] \in {"status", "running", "waiting"}
         /\ Command \in Seq({PopBack(m) : m \in Messages}) /\ Command # <<>>
         /\ Len(Command) = Len(command)
         /\ \A k \in DOMAIN command : Command[k] = PopBack(command[k])
<1>1. /\ server = "recv_word" /\ conn \in Clients /\ command # <<>> /\ ~(left > 0)
      /\ UNCHANGED <<request, client, sent, toServer, backlog, conn, closed>>
  BY DEF Dispatch, OneConnection, MoreWords, clientVars, listenVars, acceptVars, histVars
<1>2. /\ \/ /\ server' = "close" /\ IsAdd
            /\ pushed' = Append(pushed, [by |-> conn, job |-> Tail(Command)])
         \/ server' \in {"reply", "close"} /\ ~IsAdd /\ UNCHANGED pushed
      /\ server' = "reply" => Command[1] \in {"status", "running", "waiting"}
  BY DEF Dispatch, histVars
<1>3. left = 0
  <2>1. left \in Nat
    BY DEF TypeOK
  <2> QED
    BY <1>1, <2>1
<1>4. /\ Command \in Seq({PopBack(m) : m \in Messages}) /\ Command # <<>>
      /\ Len(Command) = Len(command)
      /\ \A k \in DOMAIN command : Command[k] = PopBack(command[k])
  <2> DEFINE T == {PopBack(m) : m \in Messages}
  <2>1. command \in Seq(Messages) /\ Len(command) \in Nat /\ DOMAIN command = 1..Len(command)
    BY LenProperties DEF TypeOK
  <2>2. \A k \in 1..Len(command) : command[k] \in Messages
    BY <2>1, ElementOfSeq
  <2>3. Command \in [1..Len(command) -> T]
    BY <2>1, <2>2 DEF Command
  <2>4. \A k \in DOMAIN command : Command[k] = PopBack(command[k])
    BY DEF Command
  <2>5. 1 \in DOMAIN command
    BY <1>1, <2>1, QueueTail
  <2> HIDE DEF T
  <2>6. Command \in UNION {[1..n -> T] : n \in Nat}
    BY <2>1, <2>3
  <2>7. Command \in Seq(T)
    BY <2>6, SeqDef
  <2>8. Len(Command) \in Nat /\ DOMAIN Command = 1..Len(Command) /\ DOMAIN Command = 1..Len(command)
    BY <2>3, <2>7, LenProperties
  <2>9. Len(Command) = Len(command)
    <3>1. ASSUME NEW m \in Nat, NEW n \in Nat, m < n PROVE n \in 1..n /\ n \notin 1..m
      BY <3>1
    <3>0. Len(Command) \in Nat /\ Len(command) \in Nat /\ 1..Len(Command) = 1..Len(command)
      BY <2>1, <2>8
    <3>2. ~(Len(Command) < Len(command))
      BY <3>0, <3>1
    <3>3. ~(Len(command) < Len(Command))
      BY <3>0, <3>1
    <3> QED
      BY <3>0, <3>2, <3>3
  <2>10. Command # <<>>
    BY <2>1, <2>5, <2>8
  <2> QED
    BY <2>4, <2>7, <2>9, <2>10 DEF T
<1> QED
  BY <1>1, <1>2, <1>3, <1>4

LEMMA PushType ==
  ASSUME NEW c \in Clients, Command \in Seq({PopBack(m) : m \in Messages}), Command # <<>>
  PROVE  [by |-> c, job |-> Tail(Command)] \in Pushes
<1>1. Tail(Command) \in Seq({PopBack(m) : m \in Messages})
  BY QueueTail
<1> QED
  BY <1>1 DEF Pushes

LEMMA ConnectionStep ==
  ASSUME TypeOK, pushed \in Seq(Pushes), OneConnection, [Next]_vars
  PROVE  OneConnection'
<1> USE DEF clientVars, listenVars, acceptVars, histVars
<1>0. /\ client \in [Clients -> {"idle", "sending", "suspended", "waiting", "done", "failed", "dead"}]
      /\ backlog \in Seq(Clients) /\ conn \in Clients \cup {NoClient}
      /\ pushed \in Seq(Pushes) /\ NoClient \notin Clients
      /\ \A a \in DOMAIN backlog : backlog[a] \in Clients
  BY ElementOfSeq, LenProperties, ClientServerAssumption DEF TypeOK
<1>p. Pushers \subseteq Clients
  BY DEF Pushers, TypeOK
(* The server and its backlog stay; nobody becomes idle.                   *)
<1>1. ASSUME UNCHANGED <<server, conn, backlog, pushed>>,
             \A c \in Clients : client'[c] = "idle" => client[c] = "idle"
      PROVE  OneConnection'
  BY <1>0, <1>p, <1>1 DEF OneConnection, Pushers
<1>2. ASSUME UNCHANGED <<conn, backlog, pushed, client>>,
             server \in {"down", "polling"} <=> server' \in {"down", "polling"},
             server' \in {"recv_number", "recv_word"} => server \in {"recv_number", "recv_word"}
      PROVE  OneConnection'
  BY <1>0, <1>2 DEF OneConnection, Pushers
<1>3. ASSUME NEW c \in Clients, Connect(c) PROVE OneConnection'
  <2>1. /\ client[c] = "idle" /\ UNCHANGED <<server, conn, pushed>>
        /\ \E s \in {"failed", "sending"} : client' = [client EXCEPT ![c] = s]
    BY <1>3 DEF Connect
  <2>2. \A d \in Clients : client'[d] = "idle" => client[d] = "idle"
    BY <1>0, <2>1
  <2>3. CASE UNCHANGED backlog
    BY <1>1, <2>1, <2>2, <2>3
  <2>4. CASE backlog' = Append(backlog, c)
    <3>1. /\ Len(backlog) \in Nat /\ DOMAIN backlog = 1..Len(backlog)
          /\ DOMAIN backlog' = 1..Len(backlog)+1
          /\ \A k \in 1..Len(backlog) : backlog'[k] = backlog[k]
          /\ backlog'[Len(backlog) + 1] = c
      BY <1>0, <2>4, QueueAppend
    <3>2. DOMAIN backlog' = DOMAIN backlog \cup {Len(backlog) + 1} /\ Len(backlog) + 1 \notin DOMAIN backlog
      BY <3>1
    <3>3. c # conn /\ c \notin Pushers /\ \A a \in DOMAIN backlog : backlog[a] # c
      BY <2>1 DEF OneConnection
    <3>4. client'[c] # "idle"
      BY <1>0, <2>1
    <3>5. \A a, b \in DOMAIN backlog' : backlog'[a] = backlog'[b] => a = b
      BY <3>1, <3>2, <3>3 DEF OneConnection
    <3>6. \A a \in DOMAIN backlog' :
            backlog'[a] # conn /\ backlog'[a] \notin Pushers /\ client'[backlog'[a]] # "idle"
      BY <1>0, <2>2, <3>1, <3>2, <3>3, <3>4 DEF OneConnection
    <3>7. Pushers' = Pushers
      BY <2>1 DEF Pushers
    <3> QED
      BY <1>0, <1>p, <2>1, <2>2, <3>5, <3>6, <3>7 DEF OneConnection
  <2> QED
    BY <1>3, <2>3, <2>4 DEF Connect
<1>4. ASSUME NEW c \in Clients, Send(c) \/ Receive(c) \/ Suspend(c) \/ Resume(c) \/ ClientDies(c)
      PROVE  OneConnection'
  <2>1. /\ UNCHANGED <<server, conn, backlog, pushed>>
        /\ \/ UNCHANGED client
           \/ \E s \in {"waiting", "sending", "suspended", "done", "dead"} : client' = [client EXCEPT ![c] = s]
    <3>1. CASE Send(c)
      <4>1. client[c] = "sending"
        BY <3>1 DEF Send
      <4>2. [client EXCEPT ![c] = client[c]] = [client EXCEPT ![c] = "sending"]
        BY <4>1
      <4> QED
        BY <1>0, <3>1, <4>2 DEF Send
    <3>2. CASE Receive(c) \/ Suspend(c) \/ Resume(c) \/ ClientDies(c)
      BY <1>0, <3>2 DEF Receive, Suspend, Resume, ClientDies
    <3> QED
      BY <1>4, <3>1, <3>2
  <2>2. \A d \in Clients : client'[d] = "idle" => client[d] = "idle"
    BY <1>0, <2>1
  <2> QED
    BY <1>1, <2>1, <2>2
<1>5. ASSUME NEW c \in Clients, JobStarts(c) \/ JobEnds(c) PROVE OneConnection'
  BY <1>1, <1>5 DEF JobStarts, JobEnds
<1>6. CASE Launch
  BY <1>2, <1>6 DEF Launch
<1>7. CASE ServerDies
  <2>1. /\ server' = "down" /\ conn' = NoClient /\ backlog' = <<>> /\ UNCHANGED <<client, pushed>>
        /\ DOMAIN backlog' = {}
    BY <1>7 DEF ServerDies
  <2> QED
    BY <1>0, <2>1 DEF OneConnection, Pushers
<1>8. CASE Accept
  <2>1. /\ backlog # <<>> /\ conn' = Head(backlog) /\ backlog' = Tail(backlog)
        /\ server' = "recv_number" /\ UNCHANGED <<client, pushed>>
    BY <1>8 DEF Accept
  <2>2. /\ Head(backlog) = backlog[1] /\ 1 \in DOMAIN backlog /\ Len(backlog) \in Nat
        /\ DOMAIN backlog = 1..Len(backlog) /\ DOMAIN Tail(backlog) = 1..Len(backlog)-1
        /\ \A k \in 1..Len(backlog)-1 : Tail(backlog)[k] = backlog[k+1]
    BY <1>0, <2>1, QueueTail
  <2>3. \A k \in DOMAIN backlog' : k + 1 \in DOMAIN backlog /\ k + 1 # 1 /\ backlog'[k] = backlog[k+1]
    BY <2>1, <2>2
  <2>4. \A a, b \in DOMAIN backlog' : backlog'[a] = backlog'[b] => a = b
    <3>1. \A a, b \in DOMAIN backlog' : a + 1 = b + 1 => a = b
      BY <2>1, <2>2
    <3> QED
      BY <2>3, <3>1 DEF OneConnection
  <2>5. \A a \in DOMAIN backlog' :
          backlog'[a] # conn' /\ backlog'[a] \notin Pushers /\ client[backlog'[a]] # "idle"
    BY <2>1, <2>2, <2>3 DEF OneConnection
  <2>6. conn' \in Clients /\ conn' \notin Pushers /\ client[conn'] # "idle" /\ Pushers' = Pushers
    BY <1>0, <2>1, <2>2 DEF OneConnection, Pushers
  <2> QED
    BY <2>1, <2>4, <2>5, <2>6 DEF OneConnection
<1>9. CASE RecvNumber \/ RecvWord
  BY <1>2, <1>9 DEF RecvNumber, RecvWord
<1>10. CASE Dispatch /\ ~ServerDies
  <2>1. /\ server = "recv_word" /\ conn \in Clients /\ server' \in {"reply", "close"}
        /\ UNCHANGED <<client, backlog, conn>>
    BY <1>10, DispatchPushes
  <2>2. Pushers' = Pushers \/ Pushers' = Pushers \cup {conn}
    <3>1. CASE UNCHANGED pushed
      BY <3>1 DEF Pushers
    <3>2. CASE pushed' = Append(pushed, [by |-> conn, job |-> Tail(Command)])
      <4>1. [by |-> conn, job |-> Tail(Command)] \in Pushes
        BY <1>10, DispatchPushes, PushType
      <4> QED
        BY <1>0, <3>2, <4>1, PushersGrow
    <3> QED
      BY <1>10, <3>1, <3>2, DispatchPushes
  <2> QED
    BY <1>0, <2>1, <2>2 DEF OneConnection
<1>11. CASE Reply /\ ~ServerDies
  BY <1>2, <1>11 DEF Reply
<1>12. CASE Close
  <2>1. /\ server' = "polling" /\ conn' = NoClient /\ UNCHANGED <<client, backlog, pushed>>
    BY <1>12 DEF Close
  <2>2. \A a \in DOMAIN backlog : backlog[a] # NoClient
    BY <1>0
  <2> QED
    BY <1>0, <2>1, <2>2 DEF OneConnection, Pushers
<1>13. CASE UNCHANGED vars
  BY <1>1, <1>13 DEF vars
<1> QED
  BY <1>3, <1>4, <1>5, <1>6, <1>7, <1>8, <1>9, <1>10, <1>11, <1>12, <1>13 DEF Next, ServerStep, Killed
-----------------------------------------------------------------------------
LEMMA Lengths ==
  ASSUME TypeOK, NEW c \in Clients
  PROVE  /\ sent[c] \in Nat /\ toServer[c] \in Seq(Messages) /\ Len(toServer[c]) \in Nat
         /\ request[c] \in Requests /\ Len(request[c]) \in Nat
<1>1. sent[c] \in Nat /\ toServer[c] \in Seq(Messages) /\ request[c] \in Requests
  BY DEF TypeOK
<1> QED
  BY <1>1, MessageType, LenProperties

(* send(): the next message is the last of those not received.             *)
LEMMA SendKeeps ==
  ASSUME TypeOK, InOrder, NEW c \in Clients, Send(c)
  PROVE  /\ client[c] = "sending"
         /\ \E s \in {"waiting", "sending", "dead"} :
              /\ client' = [client EXCEPT ![c] = s]
              /\ s = "sending" => sent'[c] <= Len(request[c])
         /\ UNCHANGED <<request, server, backlog, conn, buffer, left, command, pushed, closed>>
         /\ \A d \in Clients :
              /\ Got(d)' = Got(d)
              /\ d # c => sent'[d] = sent[d] /\ toServer'[d] = toServer[d]
         /\ sent'[c] = sent[c] \/ (sent'[c] = sent[c] + 1 /\ c \in open)
         /\ InOrderOf(c)'
<1>1. /\ sent[c] \in Nat /\ toServer[c] \in Seq(Messages) /\ Len(toServer[c]) \in Nat
      /\ request[c] \in Requests /\ Len(request[c]) \in Nat
  BY Lengths
<1>2. /\ client[c] = "sending"
      /\ UNCHANGED <<request, server, backlog, conn, buffer, left, command, pushed, closed>>
  BY DEF Send, listenVars, acceptVars, histVars
<1>3. /\ sent[c] <= Len(request[c]) /\ Len(toServer[c]) <= sent[c]
      /\ \A k \in 1..Len(toServer[c]) : toServer[c][k] = MessageFor(request[c], Got(c) + k)
  BY <1>2 DEF InOrder, InOrderOf
<1>4. CASE c \notin open
  <2>1. client' = [client EXCEPT ![c] = "dead"] /\ UNCHANGED <<sent, toServer>>
    BY <1>4 DEF Send
  <2>2. client'[c] = "dead"
    BY <2>1 DEF TypeOK
  <2>3. InOrderOf(c)'
    BY <1>1, <1>2, <1>3, <2>1, <2>2 DEF InOrderOf, Got
  <2> QED
    BY <1>2, <2>1, <2>3 DEF Got
<1>5. CASE c \in open
  <2> DEFINE m == MessageFor(request[c], sent[c] + 1)
             t == Append(toServer[c], m)
             s == IF sent[c] = Len(request[c]) THEN "waiting" ELSE "sending"
  <2>1. /\ client' = [client EXCEPT ![c] = s]
        /\ sent' = [sent EXCEPT ![c] = sent[c] + 1] /\ toServer' = [toServer EXCEPT ![c] = t]
    BY <1>2, <1>5 DEF Send
  <2>2. m \in Messages
    <3>1. sent[c] + 1 \in 1..Len(request[c])+1
      BY <1>1, <1>3
    <3> QED
      BY <1>1, <3>1, MessageType
  <2>3. s \in {"waiting", "sending"} /\ (s = "sending" => sent[c] + 1 <= Len(request[c]))
    BY <1>1, <1>3
  <2> HIDE DEF m, s
  <2>4. /\ t \in Seq(Messages) /\ Len(t) = Len(toServer[c]) + 1
        /\ \A k \in 1..Len(toServer[c]) : t[k] = toServer[c][k]
        /\ t[Len(toServer[c]) + 1] = m
    BY <1>1, <2>2, QueueAppend
  <2> HIDE DEF t
  <2>5. /\ sent'[c] = sent[c] + 1 /\ toServer'[c] = t /\ client'[c] = s
        /\ \A d \in Clients : d # c => sent'[d] = sent[d] /\ toServer'[d] = toServer[d]
    BY <2>1 DEF TypeOK
  <2>6. sent'[c] - Len(t) = sent[c] - Len(toServer[c])
    BY <1>1, <2>4, <2>5
  <2>7. \A d \in Clients : Got(d)' = Got(d)
    BY <2>5, <2>6 DEF Got
  <2>8. ASSUME NEW k \in 1..Len(t) PROVE t[k] = MessageFor(request[c], Got(c) + k)
    <3>1. CASE k \in 1..Len(toServer[c])
      BY <1>3, <2>4, <3>1
    <3>2. CASE k = Len(toServer[c]) + 1
      <4>1. Got(c) + k = sent[c] + 1
        BY <1>1, <3>2 DEF Got
      <4> QED
        BY <2>4, <3>2, <4>1 DEF m
    <3> QED
      BY <1>1, <2>4, <3>1, <3>2
  <2>9. InOrderOf(c)'
    <3>1. /\ sent'[c] <= Len(request[c]) + 1 /\ Len(toServer'[c]) <= sent'[c]
          /\ client'[c] \in {"sending", "suspended"} => sent'[c] <= Len(request[c])
          /\ client'[c] # "idle"
      BY <1>1, <1>3, <2>3, <2>4, <2>5
    <3>2. \A k \in 1..Len(toServer'[c]) : toServer'[c][k] = MessageFor(request[c], Got(c)' + k)
      BY <2>5, <2>7, <2>8
    <3>3. request' = request
      BY <1>2
    <3> QED
      BY <3>1, <3>2, <3>3 DEF InOrderOf
  <2> QED
    BY <1>2, <1>5, <2>1, <2>3, <2>5, <2>7, <2>9
<1> QED
  BY <1>4, <1>5

(* recv(): the first message that was not received.                        *)
LEMMA ReceiveOne ==
  ASSUME TypeOK, InOrder, conn \in Clients, toServer[conn] # <<>>,
         toServer' = [toServer EXCEPT ![conn] = Tail(@)], UNCHANGED <<request, client, sent, conn>>
  PROVE  /\ Head(toServer[conn]) = MessageFor(request[conn], Got(conn) + 1)
         /\ Got(conn)' = Got(conn) + 1 /\ Got(conn) \in Nat /\ Got(conn) < sent[conn]
         /\ \A d \in Clients \ {conn} : toServer'[d] = toServer[d] /\ Got(d)' = Got(d)
         /\ InOrder'
<1> DEFINE q == toServer[conn]
           t == Tail(q)
<1>1. /\ sent[conn] \in Nat /\ q \in Seq(Messages) /\ Len(q) \in Nat
      /\ Len(q) <= sent[conn]
      /\ \A k \in 1..Len(q) : q[k] = MessageFor(request[conn], Got(conn) + k)
  BY Lengths DEF InOrder, InOrderOf
<1>2. toServer' = [toServer EXCEPT ![conn] = t] /\ q # <<>>
  OBVIOUS
<1>g. Got(conn) = sent[conn] - Len(q)
  BY DEF Got
<1> HIDE DEF q
<1>3. /\ Head(q) = q[1] /\ Len(q) \in Nat \ {0} /\ Len(t) = Len(q) - 1
      /\ \A k \in 1..Len(q)-1 : t[k] = q[k+1]
  BY <1>1, <1>2, QueueTail
<1> HIDE DEF t
<1>4. toServer'[conn] = t /\ \A d \in Clients \ {conn} : toServer'[d] = toServer[d]
  BY <1>2 DEF TypeOK
<1>5. Head(q) = MessageFor(request[conn], Got(conn) + 1)
  <2>1. 1 \in 1..Len(q)
    BY <1>3
  <2> QED
    BY <1>1, <1>3, <2>1
<1>6. Got(conn)' = Got(conn) + 1 /\ Got(conn) \in Nat /\ Got(conn) < sent[conn]
  <2>1. Got(conn)' = sent[conn] - Len(t)
    BY <1>4 DEF Got
  <2> QED
    BY <1>1, <1>3, <1>g, <2>1
<1>7. ASSUME NEW k \in 1..Len(t) PROVE t[k] = MessageFor(request[conn], Got(conn)' + k)
  <2>1. k \in 1..Len(q)-1 /\ k + 1 \in 1..Len(q) /\ Got(conn)' + k = Got(conn) + (k + 1)
    BY <1>3, <1>6, <1>7
  <2> QED
    BY <1>1, <1>3, <2>1
<1>8. InOrderOf(conn)'
  <2>1. Len(t) <= sent[conn]
    BY <1>1, <1>3
  <2> QED
    BY <1>4, <1>7, <2>1 DEF InOrderOf, InOrder
<1>9. ASSUME NEW d \in Clients \ {conn} PROVE InOrderOf(d)' /\ Got(d)' = Got(d)
  BY <1>4, <1>9 DEF InOrder, InOrderOf, Got
<1> QED
  BY <1>4, <1>5, <1>6, <1>8, <1>9 DEF InOrder, q

LEMMA OrderStep ==
  ASSUME TypeOK, OneConnection, InOrder, Unread, [Next]_vars
  PROVE  InOrder' /\ Unread'
<1> USE DEF clientVars, listenVars, acceptVars, histVars
<1>0. /\ client \in [Clients -> {"idle", "sending", "suspended", "waiting", "done", "failed", "dead"}]
      /\ backlog \in Seq(Clients)
      /\ \A a \in DOMAIN backlog : backlog[a] \in Clients
  BY ElementOfSeq, LenProperties DEF TypeOK
(* No message moves.                                                       *)
<1>1. ASSUME UNCHANGED <<request, sent, toServer>>,
             \A c \in Clients :
               /\ client'[c] = "idle" => client[c] = "idle"
               /\ client'[c] \in {"sending", "suspended"} => client[c] \in {"sending", "suspended", "idle"}
      PROVE  InOrder' /\ \A c \in Clients : Got(c)' = Got(c)
  <2>1. ASSUME NEW c \in Clients PROVE InOrderOf(c)'
    <3>1. InOrderOf(c) /\ sent[c] \in Nat /\ Len(request[c]) \in Nat
      BY Lengths DEF InOrder
    <3>2. client[c] = "idle" => sent[c] <= Len(request[c])
      BY <3>1 DEF InOrderOf
    <3> QED
      BY <1>1, <3>1, <3>2 DEF InOrderOf, Got
  <2> QED
    BY <1>1, <2>1 DEF InOrder, Got
<1>2. ASSUME \A c \in Clients : Got(c)' = Got(c), UNCHANGED <<backlog, conn>>,
             server' = "recv_number" => server = "recv_number"
      PROVE  Unread'
  BY <1>0, <1>2 DEF Unread, OneConnection
<1>3. ASSUME NEW c \in Clients, Connect(c) PROVE InOrder' /\ Unread'
  <2>1. /\ client[c] = "idle" /\ UNCHANGED <<request, sent, toServer, server, conn>>
        /\ \E s \in {"failed", "sending"} : client' = [client EXCEPT ![c] = s]
    BY <1>3 DEF Connect
  <2>2. InOrder' /\ \A d \in Clients : Got(d)' = Got(d)
    BY <1>0, <1>1, <2>1
  <2>3. CASE UNCHANGED backlog
    BY <1>2, <2>1, <2>2, <2>3
  <2>4. CASE backlog' = Append(backlog, c)
    <3>1. /\ Len(backlog) \in Nat /\ DOMAIN backlog = 1..Len(backlog)
          /\ DOMAIN backlog' = 1..Len(backlog)+1
          /\ \A k \in 1..Len(backlog) : backlog'[k] = backlog[k]
          /\ backlog'[Len(backlog) + 1] = c
      BY <1>0, <2>4, QueueAppend
    <3>2. DOMAIN backlog' = DOMAIN backlog \cup {Len(backlog) + 1}
      BY <3>1
    <3>3. Got(c) = 0
      <4>1. sent[c] = 0 /\ Len(toServer[c]) <= sent[c] /\ Len(toServer[c]) \in Nat
        BY <2>1, Lengths DEF InOrder, InOrderOf
      <4> QED
        BY <4>1 DEF Got
    <3>4. \A a \in DOMAIN backlog' : Got(backlog[a])' = 0
      <4>1. \A a \in DOMAIN backlog' : backlog'[a] \in Clients /\ Got(backlog'[a]) = 0
        BY <1>0, <3>1, <3>2, <3>3 DEF Unread
      <4> QED
        BY <2>2, <4>1 DEF Got
    <3>5. server' = "recv_number" => Got(conn)' = 0
      BY <2>1, <2>2 DEF Unread, OneConnection, Got
    <3> QED
      BY <2>2, <3>4, <3>5 DEF Unread
  <2> QED
    BY <1>3, <2>2, <2>3, <2>4 DEF Connect
<1>4. ASSUME NEW c \in Clients, Send(c) PROVE InOrder' /\ Unread'
  <2>1. /\ UNCHANGED <<request, server, backlog, conn>> /\ InOrderOf(c)'
        /\ \A d \in Clients :
             /\ Got(d)' = Got(d)
             /\ d # c => sent'[d] = sent[d] /\ toServer'[d] = toServer[d] /\ client'[d] = client[d]
    BY <1>0, <1>4, SendKeeps
  <2>2. ASSUME NEW d \in Clients, d # c PROVE InOrderOf(d)'
    BY <2>1, <2>2 DEF InOrder, InOrderOf
  <2>3. Unread'
    BY <1>2, <2>1
  <2> QED
    BY <2>1, <2>2, <2>3 DEF InOrder
<1>5. ASSUME NEW c \in Clients, Receive(c) \/ Suspend(c) \/ Resume(c) \/ ClientDies(c)
      PROVE  InOrder' /\ Unread'
  <2>1. /\ UNCHANGED <<request, sent, toServer, server, backlog, conn>>
        /\ \/ UNCHANGED client
           \/ /\ client[c] \in {"sending", "suspended"}
              /\ \E s \in {"sending", "suspended"} : client' = [client EXCEPT ![c] = s]
           \/ \E s \in {"done", "dead"} : client' = [client EXCEPT ![c] = s]
    BY <1>0, <1>5 DEF Receive, Suspend, Resume, ClientDies
  <2>2. InOrder' /\ \A d \in Clients : Got(d)' = Got(d)
    BY <1>0, <1>1, <2>1
  <2> QED
    BY <1>2, <2>1, <2>2
<1>6. ASSUME UNCHANGED <<request, client, sent, toServer>> PROVE InOrder' /\ \A c \in Clients : Got(c)' = Got(c)
  BY <1>1, <1>6
<1>7. CASE \/ Launch \/ \E c \in Clients : JobStarts(c) \/ JobEnds(c)
  BY <1>2, <1>6, <1>7 DEF Launch, JobStarts, JobEnds
<1>8. CASE ServerDies
  <2>1. InOrder' /\ server' = "down" /\ DOMAIN backlog' = {}
    BY <1>6, <1>8 DEF ServerDies
  <2> QED
    BY <2>1 DEF Unread
<1>9. CASE Accept
  <2>1. /\ backlog # <<>> /\ conn' = Head(backlog) /\ backlog' = Tail(backlog)
        /\ InOrder' /\ \A c \in Clients : Got(c)' = Got(c)
    BY <1>6, <1>9 DEF Accept
  <2>2. /\ Head(backlog) = backlog[1] /\ 1 \in DOMAIN backlog /\ Len(backlog) \in Nat
        /\ DOMAIN backlog = 1..Len(backlog) /\ DOMAIN Tail(backlog) = 1..Len(backlog)-1
        /\ \A k \in 1..Len(backlog)-1 : Tail(backlog)[k] = backlog[k+1]
    BY <1>0, <2>1, QueueTail
  <2>3. \A k \in DOMAIN backlog' : k + 1 \in DOMAIN backlog /\ backlog'[k] = backlog[k+1]
    BY <2>1, <2>2
  <2>4. \A k \in DOMAIN backlog' : backlog'[k] \in Clients /\ Got(backlog'[k]) = 0
    BY <1>0, <2>3 DEF Unread
  <2>5. conn' \in Clients /\ Got(conn') = 0
    BY <1>0, <2>1, <2>2 DEF Unread
  <2> QED
    BY <2>1, <2>4, <2>5 DEF Unread
<1>10. ASSUME RecvNumber \/ RecvWord, toServer[conn] # <<>>, toServer' = [toServer EXCEPT ![conn] = Tail(@)]
       PROVE  InOrder' /\ Unread'
  <2>1. conn \in Clients /\ server' = "recv_word" /\ UNCHANGED <<request, client, sent, backlog, conn>>
    BY <1>10 DEF RecvNumber, RecvWord, OneConnection
  <2>2. InOrder' /\ \A d \in Clients \ {conn} : Got(d)' = Got(d)
    BY <1>10, <2>1, ReceiveOne
  <2>3. \A a \in DOMAIN backlog : backlog[a] \in Clients \ {conn} /\ Got(backlog[a]) = 0
    BY <1>0 DEF OneConnection, Unread
  <2> QED
    BY <2>1, <2>2, <2>3 DEF Unread
<1>11. ASSUME RecvNumber \/ RecvWord, UNCHANGED toServer PROVE InOrder' /\ Unread'
  BY <1>2, <1>6, <1>11 DEF RecvNumber, RecvWord
<1>12. CASE Dispatch /\ ~ServerDies
  <2>1. /\ UNCHANGED <<request, client, sent, toServer, backlog, conn>>
        /\ server' # "recv_number"
    BY <1>12, DispatchPushes
  <2> QED
    BY <1>2, <1>6, <2>1
<1>13. CASE Reply /\ ~ServerDies
  BY <1>2, <1>6, <1>13 DEF Reply
<1>14. CASE Close
  <2>1. /\ UNCHANGED <<request, client, sent, toServer, backlog>> /\ server' = "polling"
    BY <1>14 DEF Close
  <2>2. InOrder' /\ \A c \in Clients : Got(c)' = Got(c)
    BY <1>6, <2>1
  <2> QED
    BY <1>0, <2>1, <2>2 DEF Unread
<1>15. CASE UNCHANGED vars
  BY <1>2, <1>6, <1>15 DEF vars
<1>16. RecvNumber \/ RecvWord
         => UNCHANGED toServer
              \/ (toServer[conn] # <<>> /\ toServer' = [toServer EXCEPT ![conn] = Tail(@)])
  BY DEF RecvNumber, RecvWord
<1> QED
  BY <1>3, <1>4, <1>5, <1>7, <1>8, <1>9, <1>10, <1>11, <1>12, <1>13, <1>14, <1>15, <1>16
     DEF Next, ServerStep, Killed
-----------------------------------------------------------------------------
LEMMA NumberStep ==
  ASSUME TypeOK, TypeOK', OneConnection, InOrder, Unread, Reading, RecvNumber
  PROVE  Reading' /\ WordsOfTheClient'
<1>1. /\ server = "recv_number" /\ server' = "recv_word" /\ conn \in Clients /\ conn' = conn
      /\ UNCHANGED <<request, client, sent, command>>
      /\ left' = AtoI(buffer') /\ buffer' \in Messages
  BY DEF RecvNumber, OneConnection, TypeOK
<1>2. command' = <<>> /\ Got(conn) = 0 /\ Len(command') = 0 /\ DOMAIN command' = {}
  BY <1>1, EmptySeq DEF Unread, Reading
<1>3. left' > 0 => PopBack(buffer') # "add"
  BY <1>1, AtoIValue
<1>4. CASE toServer[conn] # <<>> /\ buffer' = Head(toServer[conn])
             /\ toServer' = [toServer EXCEPT ![conn] = Tail(@)]
  <2>1. Head(toServer[conn]) = MessageFor(request[conn], 1) /\ Got(conn)' = 1
    BY <1>1, <1>2, <1>4, ReceiveOne
  <2>2. Len(request[conn]) \in DOMAIN Numerals
    <3>1. request[conn] \in Requests /\ Len(Numerals) \in Nat /\ DOMAIN Numerals = 1..Len(Numerals)
      BY <1>1, ClientServerAssumption, LenProperties DEF TypeOK
    <3>2. Len(request[conn]) \in Nat \ {0} /\ Len(request[conn]) <= Len(Numerals)
      BY <3>1, MessageType
    <3> QED
      BY <3>1, <3>2
  <2>3. left' = Len(request[conn])
    BY <1>1, <1>4, <2>1, <2>2, AtoIValue DEF MessageFor
  <2>4. Len(command') + left' = Len(request[conn])
    BY <1>2, <2>2, <2>3, ClientServerAssumption, LenProperties
  <2>5. ReadingWords'
    BY <1>2, <1>3, <2>1 DEF ReadingWords
  <2>6. WordsOfTheClient'
    BY <1>1, <1>2, <2>4 DEF WordsOfTheClient
  <2> QED
    BY <1>1, <2>5, <2>6 DEF Reading
<1>5. CASE AtEnd /\ UNCHANGED toServer
  <2>1. toServer'[conn'] = <<>> /\ client'[conn'] = "dead" /\ Got(conn)' = 0
    BY <1>1, <1>2, <1>5 DEF AtEnd, Got
  <2>2. ReadingWords'
    BY <1>2, <1>3, <2>1 DEF ReadingWords
  <2>3. WordsOfTheClient'
    BY <1>2, <2>1 DEF WordsOfTheClient
  <2> QED
    BY <1>1, <2>2, <2>3 DEF Reading
<1> QED
  BY <1>4, <1>5 DEF RecvNumber

LEMMA WordStep ==
  ASSUME TypeOK, TypeOK', OneConnection, InOrder, Reading, WordsOfTheClient, RecvWord
  PROVE  Reading' /\ WordsOfTheClient'
<1>1. /\ server = "recv_word" /\ server' = "recv_word" /\ conn \in Clients /\ conn' = conn
      /\ UNCHANGED <<request, client, sent>>
      /\ command' = Append(command, buffer') /\ left' = left - 1 /\ left > 0
  BY DEF RecvWord, MoreWords, OneConnection
<1>2. command \in Seq(Messages) /\ buffer' \in Messages /\ left \in Nat
  BY DEF TypeOK
<1>3. /\ Len(command) \in Nat /\ Len(command') = Len(command) + 1
      /\ DOMAIN command = 1..Len(command) /\ DOMAIN command' = 1..Len(command)+1
      /\ \A k \in 1..Len(command) : command'[k] = command[k]
      /\ command'[Len(command) + 1] = buffer'
  BY <1>1, <1>2, QueueAppend
<1>4. sent[conn] \in Nat /\ Len(toServer[conn]) \in Nat /\ Len(request[conn]) \in Nat
  BY <1>1, Lengths
<1>5. ReadingWords /\ command' # <<>>
  BY <1>1, <1>3, EmptySeq DEF Reading
<1>6. client'[conn'] # "dead" => Len(command') + left' = Len(request'[conn'])
  <2>1. client[conn] # "dead" => Len(command) + left = Len(request[conn])
    BY <1>1 DEF WordsOfTheClient
  <2>2. Len(command') + left' = Len(command) + left
    BY <1>1, <1>2, <1>3
  <2> QED
    BY <1>1, <2>1, <2>2
<1>7. \A k \in DOMAIN command : k < sent[conn] => command'[k] = Word(request[conn][k])
  BY <1>1, <1>3 DEF WordsOfTheClient
<1>8. ASSUME Len(command) + 1 < sent[conn] => buffer' = Word(request[conn][Len(command) + 1])
      PROVE  WordsOfTheClient'
  <2>1. \A k \in DOMAIN command' : k < sent[conn] => command'[k] = Word(request[conn][k])
    <3>1. \A k \in DOMAIN command' : k \in DOMAIN command \/ k = Len(command) + 1
      BY <1>3
    <3> QED
      BY <1>3, <1>7, <1>8, <3>1
  <2> QED
    BY <1>1, <1>6, <2>1 DEF WordsOfTheClient
<1>9. ASSUME command = <<>> /\ PopBack(buffer') = "add" => request[conn][1] = "add"
      PROVE  PopBack(command'[1]) = "add" => request'[conn'][1] = "add"
  <2>1. CASE command = <<>>
    <3>1. command'[1] = buffer'
      BY <1>3, <2>1, EmptySeq
    <3> QED
      BY <1>1, <1>9, <2>1, <3>1
  <2>2. CASE command # <<>>
    <3>1. 1 \in 1..Len(command) /\ command'[1] = command[1]
      BY <1>2, <1>3, <2>2, QueueTail
    <3> QED
      BY <1>1, <1>5, <2>2, <3>1 DEF ReadingWords
  <2> QED
    BY <2>1, <2>2
<1>10. CASE toServer[conn] # <<>> /\ buffer' = Head(toServer[conn])
              /\ toServer' = [toServer EXCEPT ![conn] = Tail(@)]
  <2>1. Got(conn) = Len(command) + 1
    BY <1>5, <1>10 DEF ReadingWords
  <2>2. Head(toServer[conn]) = MessageFor(request[conn], Got(conn) + 1) /\ Got(conn)' = Got(conn) + 1
    BY <1>1, <1>10, ReceiveOne
  <2>3. Got(conn) + 1 = Len(command) + 2
    BY <1>3, <2>1
  <2>4. buffer' = Word(request[conn][Len(command) + 1])
    <3>1. ASSUME NEW r, NEW n \in Nat PROVE MessageFor(r, n + 2) = Word(r[n + 1])
      <4>1. n + 2 # 1 /\ n + 2 - 1 = n + 1
        OBVIOUS
      <4> QED
        BY <4>1 DEF MessageFor
    <3> QED
      BY <1>3, <1>10, <2>2, <2>3, <3>1
  <2>5. command = <<>> => PopBack(buffer') = request[conn][1]
    <3>1. command = <<>> => Len(command) + 1 = 1
      BY EmptySeq
    <3> QED
      BY <2>4, <3>1 DEF PopBack, Word
  <2>6. Got(conn)' = Len(command') + 1
    BY <1>3, <2>1, <2>2
  <2>7. ReadingWords'
    BY <1>5, <1>9, <2>5, <2>6 DEF ReadingWords
  <2> QED
    BY <1>1, <1>8, <2>4, <2>7 DEF Reading
<1>11. CASE AtEnd /\ UNCHANGED <<buffer, toServer>>
  <2>1. /\ toServer'[conn'] = <<>> /\ client'[conn'] = "dead"
        /\ toServer[conn] = <<>> /\ Got(conn)' = Got(conn) /\ Got(conn) = sent[conn]
    <3>1. toServer[conn] = <<>> /\ client[conn] = "dead"
      BY <1>11 DEF AtEnd
    <3>2. Len(toServer[conn]) = 0
      BY <3>1, EmptySeq
    <3> QED
      BY <1>1, <1>4, <1>11, <3>1, <3>2 DEF Got
  <2>2. Got(conn) <= Len(command) + 1
    BY <1>3, <1>5 DEF ReadingWords
  <2>3. Got(conn)' <= Len(command') + 1 /\ ~(Len(command) + 1 < sent[conn])
    BY <1>3, <1>4, <2>1, <2>2
  <2>4. command = <<>> => PopBack(buffer') # "add"
    BY <1>1, <1>5, <1>11 DEF ReadingWords
  <2>5. ReadingWords'
    BY <1>5, <1>9, <2>1, <2>3, <2>4 DEF ReadingWords
  <2> QED
    BY <1>1, <1>8, <2>3, <2>5 DEF Reading
<1> QED
  BY <1>10, <1>11 DEF RecvWord

LEMMA ReadingStep ==
  ASSUME TypeOK, TypeOK', OneConnection, InOrder, Unread, Reading, WordsOfTheClient, [Next]_vars
  PROVE  Reading' /\ WordsOfTheClient'
<1> USE DEF clientVars, listenVars, acceptVars, histVars
<1>1. CASE server' \notin {"recv_number", "recv_word"}
  BY <1>1 DEF Reading, WordsOfTheClient
(* The server stays where it is, and nobody rises from the dead.           *)
<1>2. ASSUME UNCHANGED <<server, conn, buffer, left, command, request, sent, toServer>>,
             \A c \in Clients : client[c] = "dead" <=> client'[c] = "dead"
      PROVE  Reading' /\ WordsOfTheClient'
  <2>1. server \in {"recv_number", "recv_word"} => conn \in Clients
    BY DEF OneConnection
  <2> QED
    BY <1>2, <2>1 DEF Reading, ReadingWords, WordsOfTheClient, Got
<1>3. ASSUME UNCHANGED <<server, conn, buffer, left, command, request, sent, toServer>>,
             \A c \in Clients : client[c] = "dead" => client'[c] = "dead"
      PROVE  Reading' /\ WordsOfTheClient'
  <2>1. server \in {"recv_number", "recv_word"} => conn \in Clients
    BY DEF OneConnection
  <2> QED
    BY <1>3, <2>1 DEF Reading, ReadingWords, WordsOfTheClient, Got
<1>4. ASSUME NEW c \in Clients, Connect(c) \/ Receive(c) \/ Suspend(c) \/ Resume(c) \/ ClientDies(c)
      PROVE  Reading' /\ WordsOfTheClient'
  <2>1. /\ UNCHANGED <<server, conn, buffer, left, command, request, sent, toServer>>
        /\ client[c] # "dead" \/ UNCHANGED client
        /\ \/ UNCHANGED client
           \/ \E s \in {"failed", "sending", "suspended", "done", "dead"} : client' = [client EXCEPT ![c] = s]
    <3>1. CASE Connect(c)
      BY <3>1 DEF Connect
    <3>2. CASE Receive(c)
      BY <3>2 DEF Receive
    <3>3. CASE Suspend(c) \/ Resume(c) \/ ClientDies(c)
      BY <3>3 DEF Suspend, Resume, ClientDies
    <3> QED
      BY <1>4, <3>1, <3>2, <3>3
  <2>2. \A d \in Clients : client[d] = "dead" => client'[d] = "dead"
    BY <2>1 DEF TypeOK
  <2> QED
    BY <1>3, <2>1, <2>2
<1>5. ASSUME NEW c \in Clients, Send(c) PROVE Reading' /\ WordsOfTheClient'
  <2>1. /\ client[c] = "sending"
        /\ UNCHANGED <<request, server, conn, buffer, left, command>>
        /\ \A d \in Clients :
             /\ Got(d)' = Got(d) /\ (client[d] = "dead" => client'[d] = "dead")
             /\ d # c => sent'[d] = sent[d] /\ toServer'[d] = toServer[d]
    BY <1>5, SendKeeps DEF TypeOK
  <2>2. server = "recv_number" => command' = <<>>
    BY <2>1 DEF Reading
  <2>3. CASE server # "recv_word"
    BY <2>1, <2>2, <2>3 DEF Reading, WordsOfTheClient
  <2>4. CASE server = "recv_word" /\ conn # c
    <3>1. conn \in Clients
      BY <2>4 DEF OneConnection
    <3> QED
      BY <2>1, <2>4, <3>1 DEF Reading, ReadingWords, WordsOfTheClient, Got
  <2>5. CASE server = "recv_word" /\ conn = c
    <3>1. ReadingWords /\ Got(conn) = Len(command) + 1
      BY <2>1, <2>5 DEF Reading, ReadingWords
    <3>2. Got(conn)' = Got(conn)
      BY <2>1, <2>5 DEF Got
    <3>3. ReadingWords'
      BY <2>1, <3>1, <3>2 DEF ReadingWords
    <3>4. \A k \in DOMAIN command : k < sent[conn]
      <4>1. /\ Len(command) \in Nat /\ DOMAIN command = 1..Len(command)
            /\ sent[conn] \in Nat /\ Len(toServer[conn]) \in Nat
        BY <2>5, Lengths, LenProperties DEF TypeOK
      <4> QED
        BY <3>1, <4>1 DEF Got
    <3>5. WordsOfTheClient'
      BY <2>1, <2>5, <3>4 DEF WordsOfTheClient
    <3> QED
      BY <2>1, <2>5, <3>3, <3>5 DEF Reading
  <2> QED
    BY <2>3, <2>4, <2>5
<1>6. CASE Launch \/ \E c \in Clients : JobStarts(c) \/ JobEnds(c)
  <2>1. CASE Launch
    <3>1. server' \in {"down", "polling"}
      BY <2>1 DEF Launch
    <3> QED
      BY <1>1, <3>1
  <2>2. CASE \E c \in Clients : JobStarts(c) \/ JobEnds(c)
    BY <1>2, <2>2 DEF JobStarts, JobEnds
  <2> QED
    BY <1>6, <2>1, <2>2
<1>7. CASE ServerDies
  BY <1>1, <1>7 DEF ServerDies
<1>8. CASE Accept
  BY <1>8 DEF Accept, NewVector, Reading, WordsOfTheClient
<1>9. CASE Dispatch /\ ~ServerDies
  BY <1>1, <1>9, DispatchPushes
<1>10. CASE (Reply /\ ~ServerDies) \/ Close
  BY <1>1, <1>10 DEF Reply, Close
<1>11. CASE UNCHANGED vars
  BY <1>2, <1>11 DEF vars
<1> QED
  BY <1>4, <1>5, <1>6, <1>7, <1>8, <1>9, <1>10, <1>11, NumberStep, WordStep
     DEF Next, ServerStep, Killed
-----------------------------------------------------------------------------
(* A client that lives is understood: the vector holds its request.        *)
LEMMA Understood ==
  ASSUME TypeOK, OneConnection, InOrder, Reading, WordsOfTheClient,
         server = "recv_word", conn \in Clients, client[conn] # "dead", left = 0
  PROVE  Command = request[conn]
<1> DEFINE r == request[conn]
<1>1. /\ sent[conn] \in Nat /\ Len(toServer[conn]) \in Nat /\ r \in Requests /\ Len(r) \in Nat
      /\ command \in Seq(Messages) /\ Len(command) \in Nat /\ DOMAIN command = 1..Len(command)
  BY Lengths, LenProperties DEF TypeOK
<1>2. r \in [1..Len(r) -> STRING]
  BY <1>1, MessageType, LenProperties
<1>3. Len(command) = Len(r)
  BY <1>1 DEF WordsOfTheClient
<1>4. Len(command) + 1 <= sent[conn]
  <2>1. Got(conn) = Len(command) + 1
    BY DEF Reading, ReadingWords
  <2> QED
    BY <1>1, <2>1 DEF Got
<1>5. \A k \in DOMAIN command : command[k] = Word(r[k])
  BY <1>1, <1>4 DEF WordsOfTheClient
<1> HIDE DEF r
<1>6. Command = [k \in 1..Len(r) |-> r[k]]
  <2>1. ASSUME NEW w PROVE PopBack(Word(w)) = w
    BY DEF PopBack, Word
  <2>2. ASSUME NEW k \in DOMAIN command PROVE PopBack(command[k]) = r[k]
    <3>1. command[k] = Word(r[k])
      BY <1>5
    <3> QED
      BY <2>1, <3>1
  <2> QED
    BY <1>1, <1>3, <2>2 DEF Command
<1>7. r = [k \in 1..Len(r) |-> r[k]]
  BY <1>2
<1> QED
  BY <1>6, <1>7 DEF r

(* Nothing that was pushed is taken back, and nobody rises from the dead.  *)
LEMMA ServedStays ==
  ASSUME TypeOK, pushed \in Seq(Pushes), OneConnection, [Next]_vars, NEW c \in Clients, Served(c)
  PROVE  Served(c)'
<1> USE DEF clientVars, listenVars, acceptVars, histVars
<1>1. ASSUME UNCHANGED <<request, pushed>>, client[c] = "dead" => client'[c] = "dead"
      PROVE  Served(c)'
  BY <1>1 DEF Served
<1>2. ASSUME NEW d \in Clients,
             \/ Connect(d) \/ Send(d) \/ Receive(d) \/ Suspend(d) \/ Resume(d) \/ ClientDies(d)
      PROVE  Served(c)'
  <2>1. /\ UNCHANGED <<request, pushed>> /\ client[d] # "dead"
        /\ \E s \in {"failed", "waiting", "sending", "suspended", "done", "dead", client[d]} :
             client' = [client EXCEPT ![d] = s]
    <3>1. client = [client EXCEPT ![d] = client[d]]
      BY DEF TypeOK
    <3>2. CASE Connect(d)
      BY <3>2 DEF Connect
    <3>3. CASE Send(d)
      BY <3>3 DEF Send
    <3>4. CASE Receive(d)
      BY <3>1, <3>4 DEF Receive
    <3>5. CASE Suspend(d) \/ Resume(d) \/ ClientDies(d)
      BY <3>5 DEF Suspend, Resume, ClientDies
    <3> QED
      BY <1>2, <3>2, <3>3, <3>4, <3>5
  <2>2. client[c] = "dead" => client'[c] = "dead"
    BY <2>1 DEF TypeOK
  <2> QED
    BY <1>1, <2>1, <2>2
<1>3. CASE Launch \/ \E d \in Clients : JobStarts(d) \/ JobEnds(d)
  BY <1>1, <1>3 DEF Launch, JobStarts, JobEnds
<1>4. CASE ServerDies
  BY <1>1, <1>4 DEF ServerDies
<1>5. CASE Accept \/ RecvNumber \/ RecvWord
  BY <1>1, <1>5 DEF Accept, RecvNumber, RecvWord
<1>6. CASE Dispatch /\ ~ServerDies
  <2>1. CASE UNCHANGED pushed
    BY <1>1, <1>6, <2>1, DispatchPushes
  <2>2. CASE pushed' = Append(pushed, [by |-> conn, job |-> Tail(Command)])
    <3>1. [by |-> conn, job |-> Tail(Command)] \in Pushes /\ UNCHANGED <<request, client>>
      BY <1>6, DispatchPushes, PushType
    <3>2. \A k \in DOMAIN pushed : k \in DOMAIN pushed' /\ pushed'[k] = pushed[k]
      BY <2>2, <3>1, PushersGrow
    <3> QED
      BY <3>1, <3>2 DEF Served
  <2> QED
    BY <1>6, <2>1, <2>2, DispatchPushes
<1>7. CASE (Reply /\ ~ServerDies) \/ Close
  BY <1>1, <1>7 DEF Reply, Close
<1>8. CASE UNCHANGED vars
  BY <1>1, <1>8 DEF vars
<1> QED
  BY <1>2, <1>3, <1>4, <1>5, <1>6, <1>7, <1>8 DEF Next, ServerStep, Killed

LEMMA DispatchStep ==
  ASSUME TypeOK, pushed \in Seq(Pushes), OneConnection, InOrder, Reading, WordsOfTheClient,
         OnePushPerAdd, Dispatch, ~ServerDies
  PROVE  /\ OnePushPerAdd'
         /\ server' = "reply" /\ client[conn] # "dead" => request[conn][1] # "add"
         /\ server' = "close" => Served(conn)'
<1> DEFINE p == [by |-> conn, job |-> Tail(Command)]
<1>1. /\ server = "recv_word" /\ conn \in Clients /\ command # <<>> /\ left = 0
      /\ UNCHANGED <<request, client, conn>>
      /\ (server' = "close" /\ IsAdd /\ pushed' = Append(pushed, p)) \/ (~IsAdd /\ UNCHANGED pushed)
      /\ server' = "reply" => Command[1] \in {"status", "running", "waiting"}
      /\ Command[1] = PopBack(command[1]) /\ p \in Pushes
  <2>1. 1 \in DOMAIN command
    <3>1. command # <<>> /\ command \in Seq(Messages)
      BY DispatchPushes DEF TypeOK
    <3> QED
      BY <3>1, QueueTail
  <2> QED
    BY <2>1, DispatchPushes, PushType
<1>2. client[conn] # "dead" => Command = request[conn]
  BY <1>1, Understood
<1>3. server' = "reply" /\ client[conn] # "dead" => request[conn][1] # "add"
  BY <1>1, <1>2
<1>4. CASE ~IsAdd /\ UNCHANGED pushed
  <2>1. ~(client[conn] # "dead" /\ request[conn][1] = "add" /\ Len(request[conn]) > 1)
    BY <1>2, <1>4 DEF IsAdd
  <2>2. Served(conn)'
    BY <1>1, <2>1 DEF Served
  <2>3. OnePushPerAdd'
    BY <1>1, <1>4 DEF OnePushPerAdd
  <2> QED
    BY <1>3, <2>2, <2>3
<1>5. CASE IsAdd /\ pushed' = Append(pushed, p)
  <2>1. request[conn][1] = "add"
    BY <1>1, <1>5 DEF IsAdd, Reading, ReadingWords
  <2>2. conn \notin Pushers
    BY <1>1 DEF OneConnection
  <2> DEFINE n == Len(pushed) + 1
  <2>3. p.by = conn /\ p.job = Tail(Command)
    OBVIOUS
  <2> HIDE DEF p
  <2>4. /\ \A k \in DOMAIN pushed : k \in DOMAIN pushed' /\ pushed'[k] = pushed[k]
        /\ \A k \in DOMAIN pushed' : k \in DOMAIN pushed \/ k = n
        /\ n \in DOMAIN pushed' /\ pushed'[n] = p
    BY <1>1, <1>5, PushersGrow
  <2> HIDE DEF n
  <2>5. \A k \in DOMAIN pushed : pushed[k].by # conn
    BY <2>2 DEF Pushers
  <2>6. OnePushPerAdd'
    BY <1>1, <2>1, <2>3, <2>4, <2>5 DEF OnePushPerAdd
  <2>7. Served(conn)'
    <3>1. client[conn] # "dead" => p = [by |-> conn, job |-> Tail(request[conn])]
      BY <1>2 DEF p
    <3> QED
      BY <1>1, <2>4, <3>1 DEF Served
  <2> QED
    BY <1>3, <2>6, <2>7
<1> QED
  BY <1>1, <1>4, <1>5

LEMMA AnsweredStep ==
  ASSUME TypeOK, pushed \in Seq(Pushes), OneConnection, InOrder, Reading, WordsOfTheClient,
         OnePushPerAdd, Answered, [Next]_vars
  PROVE  OnePushPerAdd' /\ Answered'
<1> USE DEF clientVars, listenVars, acceptVars, histVars
<1>1. ASSUME NEW c \in Clients, Served(c) PROVE Served(c)'
  BY <1>1, ServedStays
<1>2. ASSUME UNCHANGED closed PROVE \A c \in closed' : Served(c)'
  BY <1>1, <1>2 DEF Answered, TypeOK
<1>3. ASSUME server' \notin {"reply", "close"}, UNCHANGED <<request, pushed, closed>>
      PROVE  OnePushPerAdd' /\ Answered'
  BY <1>2, <1>3 DEF OnePushPerAdd, Answered
<1>4. ASSUME UNCHANGED <<server, conn, request, pushed, closed>>,
             \A c \in Clients : client[c] = "dead" => client'[c] = "dead"
      PROVE  OnePushPerAdd' /\ Answered'
  <2>1. OnePushPerAdd'
    BY <1>4 DEF OnePushPerAdd
  <2>2. server \in {"reply", "close"} => conn \in Clients
    BY DEF OneConnection
  <2>3. server' = "close" => Served(conn)'
    <3>1. server' = "close" => conn \in Clients /\ Served(conn)
      BY <1>4, <2>2 DEF Answered
    <3>2. ASSUME conn \in Clients, Served(conn) PROVE Served(conn)'
      BY <1>4, <3>2 DEF Served
    <3> QED
      BY <3>1, <3>2
  <2> QED
    BY <1>2, <1>4, <2>1, <2>2, <2>3 DEF Answered
<1>5. ASSUME NEW d \in Clients,
             \/ Connect(d) \/ Send(d) \/ Receive(d) \/ Suspend(d) \/ Resume(d) \/ ClientDies(d)
      PROVE  OnePushPerAdd' /\ Answered'
  <2>1. /\ UNCHANGED <<server, conn, request, pushed, closed>> /\ client[d] # "dead"
        /\ \E s \in {"failed", "waiting", "sending", "suspended", "done", "dead", client[d]} :
             client' = [client EXCEPT ![d] = s]
    <3>1. client = [client EXCEPT ![d] = client[d]]
      BY DEF TypeOK
    <3>2. CASE Connect(d)
      BY <3>2 DEF Connect
    <3>3. CASE Send(d)
      BY <3>3 DEF Send
    <3>4. CASE Receive(d)
      BY <3>1, <3>4 DEF Receive
    <3>5. CASE Suspend(d) \/ Resume(d) \/ ClientDies(d)
      BY <3>5 DEF Suspend, Resume, ClientDies
    <3> QED
      BY <1>5, <3>2, <3>3, <3>4, <3>5
  <2>2. \A c \in Clients : client[c] = "dead" => client'[c] = "dead"
    BY <2>1 DEF TypeOK
  <2> QED
    BY <1>4, <2>1, <2>2
<1>6. CASE Launch
  BY <1>3, <1>6 DEF Launch
<1>7. CASE \E d \in Clients : JobStarts(d) \/ JobEnds(d)
  BY <1>4, <1>7 DEF JobStarts, JobEnds
<1>8. CASE ServerDies
  BY <1>3, <1>8 DEF ServerDies
<1>9. CASE Accept \/ RecvNumber \/ RecvWord
  BY <1>3, <1>9 DEF Accept, RecvNumber, RecvWord
<1>10. CASE Dispatch /\ ~ServerDies
  <2>1. UNCHANGED <<request, client, closed, conn>>
    BY <1>10, DispatchPushes
  <2>2. /\ OnePushPerAdd'
        /\ server' = "reply" /\ client[conn] # "dead" => request[conn][1] # "add"
        /\ server' = "close" => Served(conn)'
    BY <1>10, DispatchStep
  <2> QED
    BY <1>2, <2>1, <2>2 DEF Answered
<1>11. CASE Reply /\ ~ServerDies
  <2>1. /\ server = "reply" /\ client[conn] # "dead" /\ server' = "close"
        /\ UNCHANGED <<request, client, conn, pushed, closed>>
    BY <1>11 DEF Reply
  <2>2. Served(conn)'
    BY <2>1 DEF Answered, Served
  <2> QED
    BY <1>2, <2>1, <2>2 DEF Answered, OnePushPerAdd
<1>12. CASE Close
  <2>1. /\ server = "close" /\ server' = "polling" /\ closed' = closed \cup {conn}
        /\ UNCHANGED <<request, pushed>>
    BY <1>12 DEF Close
  <2>2. conn \in Clients /\ Served(conn) /\ \A c \in closed : c \in Clients /\ Served(c)
    BY <2>1 DEF Answered, OneConnection, TypeOK
  <2>3. \A c \in closed' : Served(c)'
    BY <1>1, <2>1, <2>2
  <2> QED
    BY <2>1, <2>3 DEF Answered, OnePushPerAdd
<1>13. CASE UNCHANGED vars
  BY <1>4, <1>13 DEF vars
<1> QED
  BY <1>5, <1>6, <1>7, <1>8, <1>9, <1>10, <1>11, <1>12, <1>13 DEF Next, ServerStep, Killed
-----------------------------------------------------------------------------
LEMMA ClientServerStep == ClientServerInv /\ [Next]_vars => ClientServerInv'
<1> SUFFICES ASSUME ClientServerInv, [Next]_vars PROVE ClientServerInv'
  OBVIOUS
<1> USE DEF ClientServerInv
<1>1. TypeOK' /\ pushed' \in Seq(Pushes)
  BY TypeStep
<1>2. Pushes' = Pushes
  BY DEF Pushes
<1>3. OneConnection' /\ InOrder' /\ Unread'
  BY ConnectionStep, OrderStep
<1>4. Reading' /\ WordsOfTheClient'
  BY <1>1, ReadingStep
<1>5. OnePushPerAdd' /\ Answered'
  BY AnsweredStep
<1> QED
  BY <1>1, <1>2, <1>3, <1>4, <1>5

LEMMA ClientServerAlways == Spec => []ClientServerInv
<1>1. Init => ClientServerInv
  BY InitInv
<1>2. ClientServerInv /\ [Next]_vars => ClientServerInv'
  BY ClientServerStep
<1> QED
  BY <1>1, <1>2, PTL DEF Spec

(* The buffers of the stream, the countdown of words and the vector of     *)
(* server_accept keep their types (ipc_communication.cpp:80-91).           *)
THEOREM StreamTypes == Spec => []TypeOK
<1>1. ClientServerInv => TypeOK
  BY DEF ClientServerInv
<1> QED
  BY <1>1, ClientServerAlways, PTL

(* However many clients connect, die and are suspended, and however often  *)
(* the server is launched again, what server_accept collects are the words *)
(* of the client it accepted, and all of them for a client that lives      *)
(* (ipc_communication.cpp:80-91).                                          *)
THEOREM StreamInStep == Spec => []WordsOfTheClient
<1>1. ClientServerInv => WordsOfTheClient
  BY DEF ClientServerInv
<1> QED
  BY <1>1, ClientServerAlways, PTL

(* Only an "add" is pushed, and once, whatever the uninitialised buffer    *)
(* and clients that died in mid-request leave in the vector                *)
(* (ipc_communication.cpp:76,80-97).                                       *)
THEOREM PushedOnce == Spec => []OnePushPerAdd
<1>1. ClientServerInv => OnePushPerAdd
  BY DEF ClientServerInv
<1> QED
  BY <1>1, ClientServerAlways, PTL

(* A client that saw the server close its connection, and was not killed,  *)
(* has had its "add COMMAND" pushed as it stands                           *)
(* (ipc_communication.cpp:95-112,148-158).                                 *)
THEOREM ClosedIsPushed == Spec => []ClosedMeansPushed
<1>1. ClientServerInv => ClosedMeansPushed
  BY DEF ClientServerInv, Answered, Served, ClosedMeansPushed
<1> QED
  BY <1>1, ClientServerAlways, PTL
=============================================================================
