---------------------------- MODULE BrokerProofs ----------------------------
(***************************************************************************)
(* What the consumer manager keeps for any number of connections, topics   *)
(* and requests, however the streams are split: the two subscription       *)
(* tables stay each other's inverse, no subscription outlives its client,  *)
(* select is given the right sockets, a connection is closed for a cause   *)
(* only, and what a consumer has asked for is what the tables say.         *)
(*                                                                         *)
(* And, from The manager and the dispatcher on, what the two keep together *)
(* although they share the tables without a lock: a subscription never     *)
(* passes from one connection on a handle to the next, and a consumer that *)
(* has unsubscribed from a topic gets one message of it at most.           *)
(***************************************************************************)
EXTENDS Broker, SequenceLemmas, FiniteSetTheorems

-----------------------------------------------------------------------------
(* The manager's invariant *)

\* The client that the idle sweep has closed and is about to take out
Evicted == {s \in {cur} : pc = "evict"}

\* What each place of the manager's code may rely on: a visited client has a
\* record and is visited once, a client is removed for a cause, and accept has
\* a connection to return.
ThreadOK == /\ pending \subseteq DOMAIN clients
            /\ pc \in {"lines", "unsub", "close", "evict"} => cur \in DOMAIN clients \ pending
            /\ pc \in {"bind", "listen", "run"} => DOMAIN clients = {}
            /\ pc \in {"sweep", "evict"} => \A s \in pending : clients[s].stale
            /\ pc \in {"unsub", "close"} /\ stopPc = "up" => peer[cur] # "up"
            /\ pc = "accept" /\ Accepting => backlog > 0

\* Until stop() closes sockets, the records, the open handles and the sockets
\* given to select are the same clients, as far as the sockets fit FD_SETSIZE.
ClientsOK == /\ stopPc \in {"up", "flagged"} => open = DOMAIN clients \ Evicted
             /\ masterSet \ {Listen} \subseteq DOMAIN clients \ Evicted
             /\ Cardinality(Socket) < FdSetSize => DOMAIN clients \ Evicted \subseteq masterSet

\* The tables, and that no subscription outlives its client's record
TablesOK == /\ IndexInverse
            /\ DOMAIN consumerTopics \subseteq DOMAIN clients
            /\ pc = "close" => cur \notin DOMAIN consumerTopics

\* A line boundary is after piece i of u.
Boundary(u, i) == i = 0 \/ u[i].part \in {"whole", "tail"}

\* The request that the line ending with piece i of u spells, if any
Told(u, i) == {r \in Request :
                  \/ /\ u[i].part = "whole" /\ u[i].text = r
                     /\ Boundary(u, i - 1)
                  \/ /\ i > 1 /\ u[i].part = "tail" /\ u[i].text = r
                     /\ u[i - 1].part = "head" /\ u[i - 1].text = r
                     /\ Boundary(u, i - 2)}

\* What carrying out the requests rs makes of the topics T
After(T, rs) == (T \cup {r.tag : r \in {x \in rs : x.type = "Register"}})
                   \ {r.tag : r \in {x \in rs : x.type = "Unregister"}}

\* Reading the pieces u leads from the topics T to the topics A: w[i] is what
\* they have become after the first i pieces.
Leads(T, u, A) == \E w \in [0..Len(u) -> SUBSET Topic] :
                     /\ w[0] = T /\ w[Len(u)] = A
                     /\ \A i \in 1..Len(u) : w[i] = After(w[i - 1], Told(u, i))

\* Reading the rest of its stream leads from the topics a client is subscribed
\* to, to those it has asked for.
Honours(s) == Leads(getTopicsByConsumer(s), Unread(s), asked[s])

StreamsOK == stopPc \in {"up", "flagged"} =>
                \A s \in open : (pc = "close" /\ s = cur) \/ Honours(s)

IInv == TypeOK /\ ThreadOK /\ ClientsOK /\ TablesOK /\ StreamsOK

-----------------------------------------------------------------------------
(* The operators of the tables *)

Topics(s) == getTopicsByConsumer(s)
Subscribers(t) == getConsumersByTopic(t)
NoEmptyEntry(f) == \A x \in DOMAIN f : f[x] # {}

LEMMA InsertEntry ==
    ASSUME NEW f, NEW k, NEW v
    PROVE  \A x, y : y \in Entry(Insert(f, k, v), x) <=> y \in Entry(f, x) \/ (x = k /\ y = v)
  BY DEF Insert, Entry

LEMMA InsertDomain ==
    ASSUME NEW f, NEW k, NEW v
    PROVE  /\ DOMAIN Insert(f, k, v) = DOMAIN f \cup {k}
           /\ NoEmptyEntry(f) => NoEmptyEntry(Insert(f, k, v))
  BY DEF Insert, Entry, NoEmptyEntry

LEMMA EraseEntry ==
    ASSUME NEW f, NEW k, NEW v
    PROVE  \A x, y : y \in Entry(Erase(f, k, v), x) <=> y \in Entry(f, x) /\ ~(x = k /\ y = v)
  BY DEF Erase, Entry

LEMMA EraseDomain ==
    ASSUME NEW f, NEW k, NEW v
    PROVE  /\ DOMAIN Erase(f, k, v) \subseteq DOMAIN f
           /\ NoEmptyEntry(f) => NoEmptyEntry(Erase(f, k, v))
  BY DEF Erase, NoEmptyEntry

\* What a subscription, its end, and the end of all those of a client do to
\* who subscribes to what.
LEMMA SubscribeTopics ==
    ASSUME NEW s \in Socket, NEW t \in Topic, IndexInverse, subscribe(s, t)
    PROVE  /\ IndexInverse'
           /\ DOMAIN consumerTopics' = DOMAIN consumerTopics \cup {s}
           /\ DOMAIN topicConsumers' = DOMAIN topicConsumers \cup {t}
           /\ \A x, u : u \in Topics(x)' <=> u \in Topics(x) \/ (x = s /\ u = t)
           /\ \A x, u : x \in Subscribers(u)' <=> x \in Subscribers(u) \/ (x = s /\ u = t)
  <1>1. /\ consumerTopics' = Insert(consumerTopics, s, t)
        /\ topicConsumers' = Insert(topicConsumers, t, s)
    BY DEF subscribe
  <1>2. \A x, u : u \in Topics(x)' <=> u \in Topics(x) \/ (x = s /\ u = t)
    BY <1>1, InsertEntry DEF Topics, getTopicsByConsumer
  <1>3. \A x, u : x \in Subscribers(u)' <=> x \in Subscribers(u) \/ (x = s /\ u = t)
    BY <1>1, InsertEntry DEF Subscribers, getConsumersByTopic
  <1>4. /\ DOMAIN consumerTopics' = DOMAIN consumerTopics \cup {s}
        /\ DOMAIN topicConsumers' = DOMAIN topicConsumers \cup {t}
        /\ NoEmptyEntry(consumerTopics') /\ NoEmptyEntry(topicConsumers')
    <2>1. NoEmptyEntry(consumerTopics) /\ NoEmptyEntry(topicConsumers)
      BY DEF IndexInverse, NoEmptyEntry
    <2> QED BY <1>1, <2>1, InsertDomain
  <1>5. IndexInverse'
    BY <1>2, <1>3, <1>4 DEF IndexInverse, NoEmptyEntry, Topics, Subscribers
  <1> QED BY <1>2, <1>3, <1>4, <1>5

LEMMA UnsubscribeTopics ==
    ASSUME NEW s \in Socket, NEW t \in Topic, IndexInverse, unsubscribe(s, t)
    PROVE  /\ IndexInverse'
           /\ DOMAIN consumerTopics' \subseteq DOMAIN consumerTopics
           /\ DOMAIN topicConsumers' \subseteq DOMAIN topicConsumers
           /\ \A x, u : u \in Topics(x)' <=> u \in Topics(x) /\ ~(x = s /\ u = t)
           /\ \A x, u : x \in Subscribers(u)' <=> x \in Subscribers(u) /\ ~(x = s /\ u = t)
  <1>1. /\ consumerTopics' = Erase(consumerTopics, s, t)
        /\ topicConsumers' = Erase(topicConsumers, t, s)
    BY DEF unsubscribe
  <1>2. \A x, u : u \in Topics(x)' <=> u \in Topics(x) /\ ~(x = s /\ u = t)
    BY <1>1, EraseEntry DEF Topics, getTopicsByConsumer
  <1>3. \A x, u : x \in Subscribers(u)' <=> x \in Subscribers(u) /\ ~(x = s /\ u = t)
    BY <1>1, EraseEntry DEF Subscribers, getConsumersByTopic
  <1>4. /\ DOMAIN consumerTopics' \subseteq DOMAIN consumerTopics
        /\ DOMAIN topicConsumers' \subseteq DOMAIN topicConsumers
        /\ NoEmptyEntry(consumerTopics') /\ NoEmptyEntry(topicConsumers')
    <2>1. NoEmptyEntry(consumerTopics) /\ NoEmptyEntry(topicConsumers)
      BY DEF IndexInverse, NoEmptyEntry
    <2> QED BY <1>1, <2>1, EraseDomain
  <1>5. IndexInverse'
    BY <1>2, <1>3, <1>4 DEF IndexInverse, NoEmptyEntry, Topics, Subscribers
  <1> QED BY <1>2, <1>3, <1>4, <1>5

LEMMA UnsubscribeAllTopics ==
    ASSUME NEW s \in Socket, IndexInverse, unsubscribeAll(s),
           DOMAIN topicConsumers \subseteq Topic
    PROVE  /\ IndexInverse'
           /\ DOMAIN consumerTopics' = DOMAIN consumerTopics \ {s}
           /\ DOMAIN topicConsumers' \subseteq DOMAIN topicConsumers
           /\ \A x, u : u \in Topics(x)' <=> u \in Topics(x) /\ x # s
           /\ \A x, u : u \in Topic => (x \in Subscribers(u)' <=> x \in Subscribers(u) /\ x # s)
  <1>1. /\ DOMAIN consumerTopics' = DOMAIN consumerTopics \ {s}
        /\ \A x, u : u \in Topics(x)' <=> u \in Topics(x) /\ x # s
        /\ NoEmptyEntry(consumerTopics')
    BY DEF unsubscribeAll, IndexInverse, NoEmptyEntry, Topics, getTopicsByConsumer, Entry
  <1>2. /\ DOMAIN topicConsumers' \subseteq DOMAIN topicConsumers
        /\ NoEmptyEntry(topicConsumers')
    BY DEF unsubscribeAll, IndexInverse, NoEmptyEntry
  <1>3. ASSUME NEW x, NEW u \in Topic
        PROVE  x \in Subscribers(u)' <=> x \in Subscribers(u) /\ x # s
    <2>1. u \in Topics(s) <=> s \in Subscribers(u)
      BY DEF IndexInverse, Topics, Subscribers
    <2> QED BY <2>1 DEF unsubscribeAll, Subscribers, getConsumersByTopic, Entry, Topics
  <1>4. IndexInverse'
    BY <1>1, <1>2, <1>3 DEF IndexInverse, NoEmptyEntry, Topics, Subscribers
  <1> QED BY <1>1, <1>2, <1>3, <1>4

-----------------------------------------------------------------------------
(* The steps, and what those that touch a client's buffer leave in it *)

LEMMA Steps ==
    ASSUME Next
    PROVE  \/ Bind \/ ListenOn \/ SetRunning \/ EnterLoop
           \/ SelectError \/ SelectReady \/ SelectTimeout \/ PassDone \/ AcceptFails \/ SweepErase
           \/ HandleRegister \/ HandleUnregister \/ HandlePull \/ HandleOther \/ HandleBadShape
           \/ LinesDone \/ RemoveUnsubscribe \/ RemoveClose
           \/ StopFlag \/ StopSockets \/ StopServer \/ Connect
           \/ \E s \in Socket : \/ Accept(s) \/ SweepClose(s) \/ RecvData(s) \/ RecvEnd(s)
                                \/ RecvTimedOut(s) \/ SendHeartbeat(s) \/ Age(s)
                                \/ \E r \in Request : SendRequest(s, r)
                                \/ \E how \in {"fin", "reset", "timedout"} : EndConnection(s, how)
  <1>1. ASSUME NEW s \in Socket, NEW how \in Ending[s] \ {"idle"}
        PROVE  how \in {"fin", "reset", "timedout"}
    BY SocketAssumption
  <1> QED BY <1>1 DEF Next, Manager, Stop, World, Start, Select, HandleLine, Remove, ClientStep

LEMMA TakeLineFacts ==
    ASSUME TypeOK, ThreadOK, TakeLine
    PROVE  /\ cur \in DOMAIN clients
           /\ DOMAIN clients' = DOMAIN clients
           /\ \A s \in DOMAIN clients : /\ clients'[s] \in ClientInfo
                                        /\ clients'[s].stale = clients[s].stale
                                        /\ s # cur => clients'[s] = clients[s]
           /\ clients'[cur].buffer = AfterLine(clients[cur].buffer)
  <1>1. cur \in DOMAIN clients /\ clients[cur] \in ClientInfo
    BY DEF TakeLine, ThreadOK, TypeOK
  <1>2. clients[cur].buffer \in Seq(Piece) /\ HasLine(clients[cur].buffer)
    BY <1>1 DEF ClientInfo, TakeLine
  <1>3. AfterLine(clients[cur].buffer) \in Seq(Piece)
    BY <1>2, AfterLineFacts
  <1> QED BY <1>1, <1>3 DEF TakeLine, ClientInfo, TypeOK

\* recv moves the front of what the system holds to the end of the buffer.
LEMMA RecvDataFacts ==
    ASSUME TypeOK, ThreadOK, NEW s \in Socket, RecvData(s)
    PROVE  /\ s \in DOMAIN clients
           /\ DOMAIN clients' = DOMAIN clients
           /\ inbox' \in [Socket -> Seq(Piece)]
           /\ clients'[s] \in ClientInfo
           /\ \A c \in Socket \ {s} : inbox'[c] = inbox[c]
           /\ \A c \in DOMAIN clients \ {s} : clients'[c] = clients[c]
           /\ Unread(s)' = Unread(s)
  <1>1. s \in DOMAIN clients /\ clients[s].buffer \in Seq(Piece) /\ inbox[s] \in Seq(Piece)
    BY DEF RecvData, Visit, ThreadOK, TypeOK, ClientInfo
  <1> DEFINE b == clients[s].buffer
             i == inbox[s]
  <1>2. PICK n \in 1..Len(i) :
          /\ clients' = [clients EXCEPT ![s] = [buffer |-> @.buffer \o SubSeq(i, 1, n), stale |-> FALSE]]
          /\ inbox' = [inbox EXCEPT ![s] = SubSeq(@, n + 1, Len(@))]
    BY DEF RecvData
  <1> DEFINE p == b \o SubSeq(i, 1, n)
             q == SubSeq(i, n + 1, Len(i))
  <1>3. p \in Seq(Piece) /\ q \in Seq(Piece) /\ p \o q = b \o i
    <2>1. RecvKeepsStream(Piece)
      BY RecvStream
    <2> QED BY <1>1, <2>1, Zenon DEF RecvKeepsStream
  <1>4. clients'[s] = [buffer |-> p, stale |-> FALSE] /\ inbox'[s] = q
    BY <1>1, <1>2 DEF TypeOK
  <1>5. inbox' \in [Socket -> Seq(Piece)]
    BY <1>2, <1>3 DEF TypeOK
  <1> HIDE DEF p, q
  <1>6. clients'[s] \in ClientInfo
    BY <1>3, <1>4 DEF ClientInfo
  <1>7. Unread(s)' = Unread(s)
    <2>1. clients'[s].buffer = p
      BY <1>4
    <2> QED BY <1>3, <1>4, <2>1 DEF Unread
  <1> QED BY <1>1, <1>2, <1>5, <1>6, <1>7 DEF TypeOK

-----------------------------------------------------------------------------
(* Types *)

LEMMA SendTypes ==
    ASSUME TypeOK, NEW s \in Socket, NEW r \in Request
    PROVE  /\ Whole(r) \in Seq(Piece) /\ Split(r) \in Seq(Piece)
           /\ Wish(s, r) \in SUBSET Topic
  <1>1. \A p \in Part : [text |-> r, part |-> p] \in Piece
    BY DEF Piece
  <1>2. r.type = "Register" => r.tag \in Topic
    BY DEF Request
  <1>3. asked[s] \in SUBSET Topic
    BY DEF TypeOK
  <1>4. Wish(s, r) \in SUBSET Topic
    BY <1>2, <1>3 DEF Wish
  <1> HIDE DEF Piece
  <1> QED BY <1>1, <1>4 DEF Whole, Split, Part

LEMMA TypeStep == TypeOK /\ ThreadOK /\ IndexInverse /\ Next => TypeOK'
  <1> SUFFICES ASSUME TypeOK, ThreadOK, IndexInverse, Next PROVE TypeOK'
    OBVIOUS
  <1> USE DEF TypeOK, Handle, thread, tables, network, life, sockets
  <1>1. CASE Bind \/ ListenOn \/ SetRunning \/ EnterLoop
    BY <1>1 DEF Bind, ListenOn, SetRunning, EnterLoop, Turn, bind, listen, refused, ServerState
  <1>2. CASE SelectError \/ SelectReady \/ SelectTimeout \/ PassDone
    BY <1>2 DEF SelectError, SelectReady, SelectTimeout, PassDone, Turn, Readable
  <1>3. CASE AcceptFails
    BY <1>3 DEF AcceptFails, ThreadOK
  <1>4. CASE SweepErase
    <2>1. cur \in Socket /\ unsubscribeAll(cur)
      BY <1>4 DEF SweepErase, ThreadOK
    <2> QED BY <1>4, <2>1 DEF SweepErase, unsubscribeAll, eraseClient
  <1>5. CASE HandleRegister
    <2>1. PICK r \in Request : r.type = "Register" /\ subscribe(cur, r.tag)
      BY <1>5 DEF HandleRegister, Request1, Parsed
    <2>2. r.tag \in Topic /\ cur \in Socket
      BY <1>5, <2>1, TakeLineFacts DEF Request, HandleRegister
    <2>3. /\ DOMAIN consumerTopics' \subseteq Socket
          /\ \A x \in DOMAIN consumerTopics' : consumerTopics'[x] \subseteq Topic
      BY <2>1, <2>2 DEF subscribe, Insert, Entry
    <2>4. /\ DOMAIN topicConsumers' \subseteq Topic
          /\ \A x \in DOMAIN topicConsumers' : topicConsumers'[x] \subseteq Socket
      BY <2>1, <2>2 DEF subscribe, Insert, Entry
    <2> QED BY <1>5, <2>3, <2>4, TakeLineFacts DEF HandleRegister, TakeLine
  <1>6. CASE HandleUnregister
    <2>1. PICK r \in Request : r.type = "Unregister" /\ unsubscribe(cur, r.tag)
      BY <1>6 DEF HandleUnregister, Request1, Parsed
    <2> QED BY <1>6, <2>1, TakeLineFacts DEF HandleUnregister, TakeLine, unsubscribe, Erase
  <1>7. CASE HandlePull
    <2>1. PICK r \in Request : taskQueue' = Append(taskQueue, r)
      BY <1>7 DEF HandlePull, Request1, Parsed
    <2>2. taskQueue' \in Seq(Request)
      <3> HIDE DEF Request
      <3> QED BY <2>1
    <2> QED BY <1>7, <2>2, TakeLineFacts DEF HandlePull, TakeLine
  <1>8. CASE HandleOther \/ HandleBadShape
    BY <1>8, TakeLineFacts DEF HandleOther, HandleBadShape, TakeLine
  <1>9. CASE LinesDone
    BY <1>9 DEF LinesDone
  <1>10. CASE RemoveUnsubscribe
    <2>1. cur \in Socket
      BY <1>10 DEF RemoveUnsubscribe, ThreadOK
    <2> QED BY <1>10, <2>1 DEF RemoveUnsubscribe, unsubscribeAll
  <1>11. CASE RemoveClose
    BY <1>11 DEF RemoveClose, closesocket, eraseClient, FD_CLR
  <1>12. CASE StopFlag \/ StopSockets \/ StopServer
    BY <1>12 DEF StopFlag, StopSockets, StopServer, close, ServerState, Mutating
  <1>13. CASE Connect
    BY <1>13 DEF Connect
  <1>14. ASSUME NEW s \in Socket, Accept(s) PROVE TypeOK'
    <2>1. backlog' \in Nat
      BY <1>14 DEF Accept
    <2>2. [buffer |-> <<>>, stale |-> FALSE] \in ClientInfo
      BY DEF ClientInfo
    <2>3. inbox' \in [Socket -> Seq(Piece)]
      BY <1>14 DEF Accept
    <2> QED BY <1>14, <2>1, <2>2, <2>3 DEF Accept, FD_SET
  <1>15. ASSUME NEW s \in Socket, SweepClose(s) PROVE TypeOK'
    BY <1>15 DEF SweepClose, closesocket, FD_CLR
  <1>16. ASSUME NEW s \in Socket, RecvData(s) PROVE TypeOK'
    BY <1>16, RecvDataFacts DEF RecvData, Visit
  <1>17. ASSUME NEW s \in Socket, RecvEnd(s) \/ RecvTimedOut(s) PROVE TypeOK'
    BY <1>17 DEF RecvEnd, RecvTimedOut, Visit
  <1>18. ASSUME NEW s \in Socket, Age(s) PROVE TypeOK'
    BY <1>18 DEF Age, ClientInfo
  <1>19. ASSUME NEW s \in Socket, NEW pieces \in Seq(Piece), Send(s, pieces),
                asked' \in [Socket -> SUBSET Topic]
         PROVE  TypeOK'
    <2>1. inbox[s] \o pieces \in Seq(Piece)
      <3> HIDE DEF Piece
      <3> QED BY <1>19
    <2> QED BY <1>19, <2>1 DEF Send
  <1>20. ASSUME NEW s \in Socket, SendHeartbeat(s) PROVE TypeOK'
    <2>1. asked' \in [Socket -> SUBSET Topic]
      BY <1>20 DEF SendHeartbeat
    <2>2. [text |-> Heartbeat, part |-> "head"] \in Piece
      BY DEF Piece, Part
    <2>3. <<[text |-> Heartbeat, part |-> "head"]>> \in Seq(Piece)
      <3> HIDE DEF Piece
      <3> QED BY <2>2
    <2> QED BY <1>20, <2>1, <2>3, <1>19 DEF SendHeartbeat
  <1>21. ASSUME NEW s \in Socket, NEW r \in Request, SendRequest(s, r) PROVE TypeOK'
    <2>1. asked' \in [Socket -> SUBSET Topic]
      BY <1>21, SendTypes DEF SendRequest
    <2>2. Whole(r) \in Seq(Piece) /\ Split(r) \in Seq(Piece)
      BY SendTypes
    <2>3. Send(s, Whole(r)) \/ Send(s, Split(r))
      BY <1>21 DEF SendRequest
    <2> QED BY <2>1, <2>2, <2>3, <1>19
  <1>22. ASSUME NEW s \in Socket, NEW how \in {"fin", "reset", "timedout"}, EndConnection(s, how)
         PROVE  TypeOK'
    BY <1>22 DEF EndConnection
  <1> QED BY <1>1, <1>2, <1>3, <1>4, <1>5, <1>6, <1>7, <1>8, <1>9, <1>10, <1>11, <1>12, <1>13,
             <1>14, <1>15, <1>16, <1>17, <1>18, <1>20, <1>21, <1>22, Steps

-----------------------------------------------------------------------------
(* The places of the manager's code *)

LEMMA ThreadStep == TypeOK /\ ThreadOK /\ ClientsOK /\ Next => ThreadOK'
  <1> SUFFICES ASSUME TypeOK, ThreadOK, ClientsOK, Next PROVE ThreadOK'
    OBVIOUS
  <1> USE DEF ThreadOK, thread, tables, network, life, sockets, Accepting
  <1>1. CASE Bind \/ ListenOn \/ SetRunning \/ EnterLoop
    BY <1>1 DEF Bind, ListenOn, SetRunning, EnterLoop, Turn, bind, listen, refused
  <1>2. CASE SelectError \/ SelectTimeout \/ PassDone \/ LinesDone
    BY <1>2 DEF SelectError, SelectTimeout, PassDone, LinesDone, Turn
  <1>3. CASE SelectReady
    <2>1. Readable \ {Listen} \subseteq DOMAIN clients
      BY DEF Readable, ClientsOK
    <2>2. Listen \in Readable => backlog > 0
      BY DEF Readable
    <2> QED BY <1>3, <2>1, <2>2 DEF SelectReady
  <1>4. CASE AcceptFails
    BY <1>4 DEF AcceptFails
  <1>5. CASE SweepErase
    BY <1>5 DEF SweepErase, eraseClient
  <1>6. CASE HandleRegister \/ HandleUnregister \/ HandlePull \/ HandleOther \/ HandleBadShape
    <2>1. TakeLine /\ pc' \in {pc, "dead"}
      BY <1>6 DEF HandleRegister, HandleUnregister, HandlePull, HandleOther, HandleBadShape
    <2>2. pc = "lines" /\ UNCHANGED <<cur, pending, stopPc, peer, server, backlog>>
      BY <2>1 DEF TakeLine
    <2> QED BY <2>1, <2>2, TakeLineFacts
  <1>7. CASE RemoveUnsubscribe
    BY <1>7 DEF RemoveUnsubscribe
  <1>8. CASE RemoveClose
    BY <1>8 DEF RemoveClose, eraseClient
  <1>9. CASE StopFlag \/ StopSockets \/ StopServer
    BY <1>9 DEF StopFlag, StopSockets, StopServer, close
  <1>10. CASE Connect
    BY <1>10 DEF Connect, TypeOK
  <1>11. ASSUME NEW s \in Socket, Accept(s) PROVE ThreadOK'
    BY <1>11 DEF Accept
  <1>12. ASSUME NEW s \in Socket, SweepClose(s) PROVE ThreadOK'
    BY <1>12 DEF SweepClose
  <1>13. ASSUME NEW s \in Socket, RecvData(s) PROVE ThreadOK'
    BY <1>13, RecvDataFacts DEF RecvData, Visit
  <1>14. ASSUME NEW s \in Socket, RecvEnd(s) \/ RecvTimedOut(s) PROVE ThreadOK'
    <2>1. s \in pending /\ pc = "scan" /\ pending' = pending \ {s} /\ cur' = s
      BY <1>14 DEF RecvEnd, RecvTimedOut, Visit
    <2>2. stopPc = "up" => s \in open
      BY <2>1 DEF ClientsOK, Evicted
    <2>3. RecvEnd(s) /\ stopPc = "up" => peer[s] # "up"
      BY <2>2 DEF RecvEnd
    <2> QED BY <1>14, <2>1, <2>3 DEF RecvEnd, RecvTimedOut
  <1>15. ASSUME NEW s \in Socket, Age(s) PROVE ThreadOK'
    BY <1>15 DEF Age, TypeOK, ClientInfo
  <1>16. ASSUME NEW s \in Socket, NEW pieces, Send(s, pieces) PROVE ThreadOK'
    BY <1>16 DEF Send
  <1>17. ASSUME NEW s \in Socket, NEW how \in {"fin", "reset", "timedout"}, EndConnection(s, how)
         PROVE  ThreadOK'
    BY <1>17 DEF EndConnection, TypeOK
  <1> QED BY <1>1, <1>2, <1>3, <1>4, <1>5, <1>6, <1>7, <1>8, <1>9, <1>10, <1>11, <1>12, <1>13,
             <1>14, <1>15, <1>16, <1>17, Steps DEF SendRequest, SendHeartbeat

-----------------------------------------------------------------------------
(* Records, handles and what select is given *)

\* A set of sockets that select may be given has room for one more client when
\* there are fewer clients than FD_SETSIZE.
LEMMA RoomForOne ==
    ASSUME NEW set \in SUBSET Handle, NEW s \in Socket \ set, Cardinality(Socket) < FdSetSize
    PROVE  FD_SET(s, set) = set \cup {s}
  <1>1. IsFiniteSet(Handle) /\ Cardinality(Handle) = Cardinality(Socket) + 1
    BY SocketAssumption, FS_AddElement DEF Handle
  <1>2. Cardinality(Socket) \in Nat /\ FdSetSize \in Nat
    BY SocketAssumption, FS_CardinalityType
  <1>3. set # Handle /\ set \subseteq Handle
    BY DEF Handle
  <1>4. Cardinality(set) \in Nat /\ Cardinality(set) < Cardinality(Handle)
    <2>1. IsFiniteSet(set)
      BY <1>1, <1>3, FS_Subset
    <2> QED BY <1>1, <1>3, <2>1, FS_Subset, FS_CardinalityType
  <1>5. Cardinality(set) < FdSetSize
    BY <1>1, <1>2, <1>4
  <1> QED BY <1>5 DEF FD_SET

LEMMA ClientsStep == TypeOK /\ ThreadOK /\ ClientsOK /\ Next => ClientsOK'
  <1> SUFFICES ASSUME TypeOK, ThreadOK, ClientsOK, Next PROVE ClientsOK'
    OBVIOUS
  <1> USE DEF ClientsOK, Evicted, thread, tables, network, life, sockets
  <1>1. CASE Bind \/ ListenOn \/ EnterLoop
    BY <1>1 DEF Bind, ListenOn, EnterLoop, Turn
  <1>2. CASE SetRunning
    BY <1>2 DEF SetRunning, ThreadOK
  <1>3. CASE SelectError \/ SelectReady \/ SelectTimeout \/ PassDone \/ LinesDone \/ AcceptFails
    BY <1>3 DEF SelectError, SelectReady, SelectTimeout, PassDone, LinesDone, AcceptFails, Turn
  <1>4. CASE SweepErase
    BY <1>4 DEF SweepErase, eraseClient
  <1>5. CASE HandleRegister \/ HandleUnregister \/ HandlePull \/ HandleOther \/ HandleBadShape
    <2>1. TakeLine /\ pc' \in {pc, "dead"}
      BY <1>5 DEF HandleRegister, HandleUnregister, HandlePull, HandleOther, HandleBadShape
    <2>2. pc = "lines" /\ UNCHANGED <<cur, stopPc, open, masterSet>>
      BY <2>1 DEF TakeLine
    <2> QED BY <2>1, <2>2, TakeLineFacts
  <1>6. CASE RemoveUnsubscribe
    BY <1>6 DEF RemoveUnsubscribe
  <1>7. CASE RemoveClose
    BY <1>7 DEF RemoveClose, closesocket, eraseClient, FD_CLR
  <1>8. CASE StopFlag \/ StopSockets \/ StopServer
    BY <1>8 DEF StopFlag, StopSockets, StopServer
  <1>9. CASE Connect
    BY <1>9 DEF Connect
  <1>10. ASSUME NEW s \in Socket, Accept(s) PROVE ClientsOK'
    <2>1. /\ pc = "accept" /\ pc' = "scan" /\ UNCHANGED stopPc
          /\ open' = open \cup {s} /\ DOMAIN clients' = DOMAIN clients \cup {s}
          /\ masterSet' = FD_SET(s, masterSet)
      BY <1>10 DEF Accept
    <2>2. masterSet' \subseteq masterSet \cup {s}
      BY <2>1 DEF FD_SET
    <2>3. Cardinality(Socket) < FdSetSize => masterSet' = masterSet \cup {s}
      BY <2>1, RoomForOne DEF TypeOK, FD_SET
    <2> QED BY <2>1, <2>2, <2>3
  <1>11. ASSUME NEW s \in Socket, SweepClose(s) PROVE ClientsOK'
    BY <1>11 DEF SweepClose, closesocket, FD_CLR, ThreadOK
  <1>12. ASSUME NEW s \in Socket, RecvData(s) PROVE ClientsOK'
    BY <1>12, RecvDataFacts DEF RecvData, Visit
  <1>13. ASSUME NEW s \in Socket, RecvEnd(s) \/ RecvTimedOut(s) PROVE ClientsOK'
    BY <1>13 DEF RecvEnd, RecvTimedOut, Visit
  <1>14. ASSUME NEW s \in Socket, Age(s) PROVE ClientsOK'
    BY <1>14 DEF Age
  <1>15. ASSUME NEW s \in Socket, NEW pieces, Send(s, pieces) PROVE ClientsOK'
    BY <1>15 DEF Send
  <1>16. ASSUME NEW s \in Socket, NEW how, EndConnection(s, how) PROVE ClientsOK'
    BY <1>16 DEF EndConnection
  <1> QED BY <1>1, <1>2, <1>3, <1>4, <1>5, <1>6, <1>7, <1>8, <1>9, <1>10, <1>11, <1>12, <1>13,
             <1>14, <1>15, <1>16, Steps DEF SendRequest, SendHeartbeat

-----------------------------------------------------------------------------
(* The tables *)

LEMMA TablesStep == TypeOK /\ ThreadOK /\ TablesOK /\ Next => TablesOK'
  <1> SUFFICES ASSUME TypeOK, ThreadOK, TablesOK, Next PROVE TablesOK'
    OBVIOUS
  <1> USE DEF TablesOK, thread, tables, network, life, sockets
  <1>1. ASSUME UNCHANGED tables, DOMAIN clients \subseteq DOMAIN clients',
               pc' = "close" => pc = "close" /\ UNCHANGED cur
        PROVE  TablesOK'
    BY <1>1 DEF IndexInverse, getTopicsByConsumer, getConsumersByTopic
  <1>2. CASE Bind \/ ListenOn \/ SetRunning \/ EnterLoop
    BY <1>1, <1>2 DEF Bind, ListenOn, SetRunning, EnterLoop, Turn
  <1>3. CASE SelectError \/ SelectReady \/ SelectTimeout \/ PassDone \/ LinesDone \/ AcceptFails
    BY <1>1, <1>3 DEF SelectError, SelectReady, SelectTimeout, PassDone, LinesDone, AcceptFails, Turn
  <1>4. CASE SweepErase \/ RemoveUnsubscribe
    <2>1. cur \in Socket /\ unsubscribeAll(cur)
      BY <1>4 DEF SweepErase, RemoveUnsubscribe, ThreadOK, TypeOK
    <2>2. IndexInverse' /\ DOMAIN consumerTopics' = DOMAIN consumerTopics \ {cur}
      BY <2>1, UnsubscribeAllTopics DEF TypeOK
    <2> QED BY <1>4, <2>2 DEF SweepErase, RemoveUnsubscribe, eraseClient
  <1>5. CASE HandleRegister
    <2>1. PICK r \in Request : r.type = "Register" /\ subscribe(cur, r.tag)
      BY <1>5 DEF HandleRegister, Request1, Parsed
    <2>2. TakeLine /\ r.tag \in Topic /\ cur \in Socket /\ pc' = "lines"
      BY <1>5, <2>1, TakeLineFacts DEF Request, HandleRegister, TypeOK, TakeLine
    <2>3. IndexInverse' /\ DOMAIN consumerTopics' = DOMAIN consumerTopics \cup {cur}
      BY <2>1, <2>2, SubscribeTopics
    <2> QED BY <2>2, <2>3, TakeLineFacts
  <1>6. CASE HandleUnregister
    <2>1. PICK r \in Request : r.type = "Unregister" /\ unsubscribe(cur, r.tag)
      BY <1>6 DEF HandleUnregister, Request1, Parsed
    <2>2. TakeLine /\ r.tag \in Topic /\ cur \in Socket /\ pc' = "lines"
      BY <1>6, <2>1, TakeLineFacts DEF Request, HandleUnregister, TypeOK, TakeLine
    <2>3. IndexInverse' /\ DOMAIN consumerTopics' \subseteq DOMAIN consumerTopics
      BY <2>1, <2>2, UnsubscribeTopics
    <2> QED BY <2>2, <2>3, TakeLineFacts
  <1>7. CASE HandlePull \/ HandleOther \/ HandleBadShape
    <2>1. TakeLine /\ UNCHANGED tables /\ pc' # "close"
      BY <1>7 DEF HandlePull, HandleOther, HandleBadShape, TakeLine
    <2> QED BY <1>1, <2>1, TakeLineFacts
  <1>8. CASE RemoveClose
    <2>1. UNCHANGED tables /\ pc' = "scan" /\ cur \notin DOMAIN consumerTopics
          /\ DOMAIN clients' = DOMAIN clients \ {cur}
      BY <1>8 DEF RemoveClose, eraseClient
    <2> QED BY <2>1 DEF IndexInverse, getTopicsByConsumer, getConsumersByTopic
  <1>9. CASE StopFlag \/ StopSockets \/ StopServer \/ Connect
    BY <1>1, <1>9 DEF StopFlag, StopSockets, StopServer, Connect
  <1>10. ASSUME NEW s \in Socket, Accept(s) \/ SweepClose(s) PROVE TablesOK'
    BY <1>1, <1>10 DEF Accept, SweepClose
  <1>11. ASSUME NEW s \in Socket, RecvData(s) PROVE TablesOK'
    BY <1>1, <1>11, RecvDataFacts DEF RecvData
  <1>12. ASSUME NEW s \in Socket, RecvEnd(s) \/ RecvTimedOut(s) PROVE TablesOK'
    BY <1>1, <1>12 DEF RecvEnd, RecvTimedOut
  <1>13. ASSUME NEW s \in Socket, Age(s) PROVE TablesOK'
    BY <1>1, <1>13 DEF Age
  <1>14. ASSUME NEW s \in Socket, NEW pieces, Send(s, pieces) PROVE TablesOK'
    BY <1>1, <1>14 DEF Send
  <1>15. ASSUME NEW s \in Socket, NEW how, EndConnection(s, how) PROVE TablesOK'
    BY <1>1, <1>15 DEF EndConnection
  <1> QED BY <1>2, <1>3, <1>4, <1>5, <1>6, <1>7, <1>8, <1>9, <1>10, <1>11, <1>12, <1>13,
             <1>14, <1>15, Steps DEF SendRequest, SendHeartbeat

-----------------------------------------------------------------------------
(* What a stream of requests leads to *)

\* Where no line ends, nothing is told.
LEMMA NothingTold ==
    ASSUME NEW u \in Seq(Piece), NEW i \in 1..Len(u), i \notin Newlines(u)
    PROVE  Told(u, i) = {}
  BY DEF Told, Newlines

LEMMA AfterNothing == \A T : After(T, {}) = T
  BY DEF After

LEMMA AfterTopics ==
    ASSUME NEW T \in SUBSET Topic, NEW rs \in SUBSET Request
    PROVE  After(T, rs) \in SUBSET Topic
  BY DEF After, Request

\* As long as no line ends, the topics stay.
LEMMA NoLineNoChange ==
    ASSUME NEW u \in Seq(Piece), NEW w, NEW k \in 0..Len(u),
           \A i \in 1..Len(u) : w[i] = After(w[i - 1], Told(u, i)),
           \A i \in 1..k : i \notin Newlines(u)
    PROVE  w[k] = w[0]
  <1> DEFINE T == {i \in Nat : w[i] = w[0]}
  <1>1. Len(u) \in Nat /\ k \in Nat
    OBVIOUS
  <1>2. ASSUME NEW i \in 1..k, i - 1 \in T PROVE i \in T
    <2>1. i \in 1..Len(u) /\ Told(u, i) = {}
      BY <1>1, NothingTold
    <2>2. w[i] = w[i - 1]
      BY <2>1, AfterNothing
    <2> QED BY <1>2, <2>2
  <1>3. 0 \in T
    OBVIOUS
  <1> HIDE DEF T
  <1>4. 0..k \subseteq T
    BY <1>1, <1>2, <1>3, SetInduction
  <1>5. k \in T
    BY <1>1, <1>4
  <1> QED BY <1>5 DEF T

LEMMA LeadsWithoutLine ==
    ASSUME NEW T, NEW u \in Seq(Piece), NEW A, Leads(T, u, A), ~HasLine(u)
    PROVE  T = A
  <1>1. PICK w \in [0..Len(u) -> SUBSET Topic] :
          /\ w[0] = T /\ w[Len(u)] = A
          /\ \A i \in 1..Len(u) : w[i] = After(w[i - 1], Told(u, i))
    BY DEF Leads
  <1>2. Len(u) \in 0..Len(u) /\ \A i \in 1..Len(u) : i \notin Newlines(u)
    BY DEF HasLine
  <1> QED BY <1>1, <1>2, NoLineNoChange

\* What json::parse gets from the first line is what its last piece tells.
LEMMA FirstLineTold ==
    ASSUME NEW u \in Seq(Piece), HasLine(u)
    PROVE  Told(u, LineEnd(u)) = Parsed(FirstLine(u))
  <1> DEFINE k == LineEnd(u)
             line == FirstLine(u)
  <1>1. /\ k \in 1..Len(u) /\ Len(u) \in Nat
        /\ u[k].part \in {"whole", "tail"}
        /\ \A i \in 1..(k - 1) : u[i].part \notin {"whole", "tail"}
    BY LineEndFacts DEF Newlines
  <1>2. Len(line) = k /\ \A i \in 1..k : line[i] = u[i]
    <2>1. 1 \in Int /\ k \in Int /\ \A i \in 1..k : u[i] \in Piece
      BY <1>1
    <2> HIDE DEF k
    <2>2. /\ Len(SubSeq(u, 1, k)) = IF 1 <= k THEN k - 1 + 1 ELSE 0
          /\ \A i \in 1..(k - 1 + 1) : SubSeq(u, 1, k)[i] = u[1 + i - 1]
      BY <2>1, SubSeqProperties
    <2> QED BY <1>1, <2>2 DEF FirstLine, k
  <1> HIDE DEF k, line
  <1>3. (Boundary(u, k - 1) <=> k = 1) /\ (k > 1 => (Boundary(u, k - 2) <=> k = 2))
    BY <1>1 DEF Boundary
  <1>4. ASSUME NEW r \in Request PROVE r \in Told(u, k) <=> Spells(line, r)
    <2>1. CASE k = 1
      BY <1>2, <1>3, <2>1 DEF Told, Spells
    <2>2. CASE k = 2
      BY <1>2, <1>3, <2>2 DEF Told, Spells
    <2>3. CASE k > 2
      BY <1>1, <1>2, <1>3, <2>3 DEF Told, Spells
    <2> QED BY <1>1, <2>1, <2>2, <2>3
  <1>5. Told(u, k) \subseteq Request
    BY DEF Told
  <1> QED BY <1>4, <1>5 DEF Parsed, k, line

\* A line that has been taken changes nothing in what those behind it tell.
LEMMA ToldBehind ==
    ASSUME NEW u \in Seq(Piece), NEW v \in Seq(Piece), HasLine(u), Behind(u, v)
    PROVE  \A i \in 1..Len(v) : Told(v, i) = Told(u, LineEnd(u) + i)
  <1> DEFINE k == LineEnd(u)
  <1>1. /\ k \in 1..Len(u) /\ Len(u) \in Nat /\ Len(v) \in Nat
        /\ u[k].part \in {"whole", "tail"}
        /\ Len(v) = Len(u) - k
        /\ \A i \in 1..Len(v) : v[i] = u[k + i]
    BY LineEndFacts DEF Newlines, Behind
  <1> HIDE DEF k
  <1>2. ASSUME NEW i \in 1..Len(v) PROVE Told(v, i) = Told(u, k + i)
    <2>1. v[i] = u[k + i] /\ (i > 1 => v[i - 1] = u[k + i - 1])
      BY <1>1
    <2>2. Boundary(v, i - 1) <=> Boundary(u, k + i - 1)
      <3>1. i \in Nat /\ k + i - 1 \in Nat \ {0} /\ (i = 1 => k + i - 1 = k) /\ (i # 1 => i > 1)
        BY <1>1
      <3> QED BY <1>1, <2>1, <3>1 DEF Boundary
    <2>3. i > 1 => (Boundary(v, i - 2) <=> Boundary(u, k + i - 2))
      <3>1. i > 2 => v[i - 2] = u[k + i - 2]
        BY <1>1
      <3> QED BY <1>1, <3>1 DEF Boundary
    <2>4. i = 1 => u[k + i - 1].part # "head"
      BY <1>1
    <2>5. k + i > 1 /\ k + i - 1 \in Nat /\ k + i - 2 \in Nat
      BY <1>1
    <2>6. ASSUME NEW r PROVE r \in Told(v, i) <=> r \in Told(u, k + i)
      <3>1. CASE i = 1
        BY <1>1, <2>1, <2>2, <2>4, <2>5, <3>1 DEF Told
      <3>2. CASE i # 1
        <4>1. i > 1 /\ i - 1 \in Nat /\ i - 2 \in Nat
          BY <3>2
        <4>2. /\ k + i > 1 /\ v[i] = u[k + i] /\ v[i - 1] = u[(k + i) - 1]
              /\ Boundary(v, i - 1) <=> Boundary(u, (k + i) - 1)
              /\ Boundary(v, i - 2) <=> Boundary(u, (k + i) - 2)
          <5>1. (k + i) - 1 = k + (i - 1) /\ (k + i) - 2 = k + (i - 2)
            BY <1>1
          <5> QED BY <2>1, <2>2, <2>3, <2>5, <4>1, <5>1
        <4> QED BY <4>1, <4>2 DEF Told
      <3> QED BY <3>1, <3>2
    <2> QED BY <2>6
  <1> QED BY <1>2 DEF k

\* Carrying out the first line's request leaves what is behind it to be done.
LEMMA LeadsBehindLine ==
    ASSUME NEW T, NEW A, NEW u \in Seq(Piece), NEW v \in Seq(Piece), HasLine(u), Leads(T, u, A),
           Len(v) = Len(u) - LineEnd(u),
           \A i \in 1..Len(v) : v[i] = u[LineEnd(u) + i]
    PROVE  Leads(After(T, Parsed(FirstLine(u))), v, A)
  <1> DEFINE k == LineEnd(u)
  <1>1. PICK w \in [0..Len(u) -> SUBSET Topic] :
          /\ w[0] = T /\ w[Len(u)] = A
          /\ \A i \in 1..Len(u) : w[i] = After(w[i - 1], Told(u, i))
    BY DEF Leads
  <1>2. /\ k \in 1..Len(u) /\ Len(u) \in Nat /\ Len(v) \in Nat
        /\ u[k].part \in {"whole", "tail"}
        /\ \A i \in 1..(k - 1) : i \notin Newlines(u)
    BY LineEndFacts DEF Newlines
  <1>3. w[k] = After(T, Parsed(FirstLine(u)))
    <2>1. w[k - 1] = T
      <3>1. k - 1 \in 0..Len(u)
        BY <1>2
      <3> QED BY <1>1, <1>2, <3>1, NoLineNoChange
    <2> QED BY <1>1, <1>2, <2>1, FirstLineTold
  <1> HIDE DEF k
  <1> DEFINE x == [i \in 0..Len(v) |-> w[k + i]]
  <1>4. \A i \in 1..Len(v) : Told(v, i) = Told(u, k + i)
    BY ToldBehind DEF Behind, k
  <1>5. x \in [0..Len(v) -> SUBSET Topic] /\ x[0] = w[k] /\ x[Len(v)] = A
    <2>1. k + Len(v) = Len(u)
      BY <1>2 DEF k
    <2>2. \A i \in 0..Len(v) : k + i \in 0..Len(u) /\ w[k + i] \in SUBSET Topic
      BY <1>1, <1>2, <2>1
    <2>3. x[0] = w[k + 0] /\ x[Len(v)] = w[k + Len(v)]
      BY <1>2
    <2> QED BY <1>1, <1>2, <2>1, <2>2, <2>3
  <1>6. ASSUME NEW i \in 1..Len(v) PROVE x[i] = After(x[i - 1], Told(v, i))
    <2>1. k + i \in 1..Len(u) /\ i \in 0..Len(v) /\ i - 1 \in 0..Len(v)
      BY <1>2 DEF k
    <2>2. x[i] = w[k + i] /\ x[i - 1] = w[(k + i) - 1]
      BY <1>2, <2>1
    <2> HIDE DEF x
    <2> QED BY <1>1, <1>4, <2>1, <2>2
  <1> HIDE DEF x
  <1> QED BY <1>3, <1>5, <1>6 DEF Leads

\* More pieces at the end, of which only the last may end a line
Extends(u, v) == /\ Len(u) < Len(v)
                 /\ \A i \in 1..Len(u) : v[i] = u[i]
                 /\ \A i \in (Len(u) + 1)..(Len(v) - 1) : i \notin Newlines(v)

LEMMA ToldOn ==
    ASSUME NEW u \in Seq(Piece), NEW v \in Seq(Piece), Extends(u, v)
    PROVE  /\ \A i \in 1..Len(u) : Told(v, i) = Told(u, i)
           /\ \A i \in (Len(u) + 1)..(Len(v) - 1) : Told(v, i) = {}
  <1>1. Len(u) \in Nat /\ Len(v) \in Nat /\ Len(u) < Len(v) /\ \A i \in 1..Len(u) : v[i] = u[i]
    BY DEF Extends
  <1>2. ASSUME NEW i \in 1..Len(u) PROVE Told(v, i) = Told(u, i)
    <2>1. v[i] = u[i] /\ (i > 1 => v[i - 1] = u[i - 1]) /\ (i > 2 => v[i - 2] = u[i - 2])
      <3>1. (i > 1 => i - 1 \in 1..Len(u)) /\ (i > 2 => i - 2 \in 1..Len(u))
        BY <1>1
      <3> QED BY <1>1, <3>1
    <2>2. (Boundary(v, i - 1) <=> Boundary(u, i - 1))
          /\ (i > 1 => (Boundary(v, i - 2) <=> Boundary(u, i - 2)))
      BY <2>1 DEF Boundary
    <2> QED BY <2>1, <2>2 DEF Told
  <1>3. ASSUME NEW i \in (Len(u) + 1)..(Len(v) - 1) PROVE Told(v, i) = {}
    BY <1>1, NothingTold DEF Extends
  <1> QED BY <1>2, <1>3

\* They lead on by what that one tells.
LEMMA LeadsOn ==
    ASSUME NEW T, NEW A, NEW u \in Seq(Piece), NEW v \in Seq(Piece), Leads(T, u, A), Extends(u, v)
    PROVE  Leads(T, v, After(A, Told(v, Len(v))))
  <1> DEFINE m == Len(u)
             n == Len(v)
             B == After(A, Told(v, n))
  <1>1. PICK w \in [0..m -> SUBSET Topic] :
          /\ w[0] = T /\ w[m] = A
          /\ \A i \in 1..m : w[i] = After(w[i - 1], Told(u, i))
    BY DEF Leads
  <1>2. m \in Nat /\ n \in Nat /\ m < n
    BY DEF Extends
  <1> DEFINE x == [i \in 0..n |-> IF i <= m THEN w[i] ELSE IF i < n THEN A ELSE B]
  <1>3. B \in SUBSET Topic
    <2>1. A \in SUBSET Topic /\ Told(v, n) \in SUBSET Request
      BY <1>1, <1>2 DEF Told
    <2> QED BY <2>1, AfterTopics
  <1>4. \A i \in 1..m : Told(v, i) = Told(u, i)
    BY ToldOn
  <1>5. \A i \in (m + 1)..(n - 1) : Told(v, i) = {}
    BY ToldOn
  <1> HIDE DEF m, n, B
  <1>6. x \in [0..n -> SUBSET Topic] /\ x[0] = T /\ x[n] = B
    BY <1>1, <1>2, <1>3
  <1>7. ASSUME NEW i \in 1..n PROVE x[i] = After(x[i - 1], Told(v, i))
    <2>1. CASE i <= m
      BY <1>1, <1>2, <1>4, <2>1
    <2>2. CASE m < i /\ i < n
      <3>1. x[i] = A /\ x[i - 1] = A
        BY <1>1, <1>2, <2>2
      <3>2. Told(v, i) = {}
        BY <1>2, <1>5, <2>2
      <3> HIDE DEF x
      <3> QED BY <3>1, <3>2, AfterNothing
    <2>3. CASE i = n
      <3>1. x[n - 1] = A
        <4>1. n - 1 \in 0..n /\ n - 1 < n /\ (n - 1 <= m => n - 1 = m)
          BY <1>2
        <4> QED BY <1>1, <4>1
      <3> HIDE DEF x
      <3> QED BY <1>6, <2>3, <3>1 DEF B
    <2> QED BY <1>2, <2>1, <2>2, <2>3
  <1> HIDE DEF x
  <1>8. Leads(T, v, B)
    BY <1>6, <1>7 DEF Leads, n
  <1> QED BY <1>8 DEF B, n

-----------------------------------------------------------------------------
(* The streams *)

LEMMA UnreadType ==
    ASSUME TypeOK, NEW s \in DOMAIN clients
    PROVE  /\ s \in Socket /\ Unread(s) \in Seq(Piece)
           /\ clients[s].buffer \in Seq(Piece) /\ inbox[s] \in Seq(Piece)
  <1>1. clients[s].buffer \in Seq(Piece) /\ inbox[s] \in Seq(Piece) /\ s \in Socket
    BY DEF TypeOK, ClientInfo
  <1>2. ASSUME NEW x \in Seq(Piece), NEW y \in Seq(Piece) PROVE x \o y \in Seq(Piece)
    OBVIOUS
  <1> QED BY <1>1, <1>2, Zenon DEF Unread

LEMMA OnlyOneParsed ==
    ASSUME NEW line, NEW r \in Parsed(line)
    PROVE  Parsed(line) = {r}
  BY DEF Parsed, Spells

\* A line taken from the buffer of cur, and what it tells carried out
LEMMA HonoursLine ==
    ASSUME TypeOK, ThreadOK, TakeLine, Honours(cur), UNCHANGED <<inbox, asked>>,
           Topics(cur)' = After(Topics(cur), Request1)
    PROVE  Honours(cur)'
  <1> DEFINE b == clients[cur].buffer
             u == Unread(cur)
             v == AfterLine(b) \o inbox[cur]
  <1>1. cur \in DOMAIN clients /\ b \in Seq(Piece) /\ inbox[cur] \in Seq(Piece) /\ HasLine(b)
    BY TakeLineFacts, UnreadType DEF TakeLine
  <1>2. /\ u \in Seq(Piece) /\ v \in Seq(Piece) /\ HasLine(u)
        /\ FirstLine(u) = FirstLine(b) /\ Behind(u, v)
    <2>1. BufferHasTheLine(Piece)
      BY LineOfStream
    <2> QED BY <1>1, <2>1, Zenon DEF BufferHasTheLine, Unread
  <1>3. Unread(cur)' = v
    <2>1. cur' = cur /\ clients'[cur].buffer = AfterLine(b) /\ inbox'[cur] = inbox[cur]
      BY TakeLineFacts DEF TakeLine
    <2> QED BY <2>1, Zenon DEF Unread
  <1> HIDE DEF v, u
  <1>4. Leads(Topics(cur), u, asked[cur])
    BY DEF Honours, Topics, u
  <1>5. Leads(After(Topics(cur), Parsed(FirstLine(u))), v, asked[cur])
    BY <1>2, <1>4, LeadsBehindLine DEF Behind
  <1>6. Leads(Topics(cur)', v, asked[cur])
    BY <1>2, <1>5 DEF Request1
  <1> QED BY <1>3, <1>6 DEF Honours, Topics, TakeLine

\* What a peer sends joins the end of its stream.
LEMMA SendJoinsUnread ==
    ASSUME TypeOK, NEW s \in Socket, NEW pieces \in Seq(Piece), Send(s, pieces)
    PROVE  /\ s \in DOMAIN clients
           /\ Unread(s) \in Seq(Piece) /\ Unread(s)' \in Seq(Piece)
           /\ JoinedBy(Unread(s), Unread(s)', pieces)
  <1>1. s \in DOMAIN clients /\ UNCHANGED clients /\ inbox'[s] = inbox[s] \o pieces
    BY DEF Send, Live, sockets, TypeOK
  <1>2. clients[s].buffer \in Seq(Piece) /\ inbox[s] \in Seq(Piece)
    BY <1>1, UnreadType
  <1>3. SendJoins(Piece)
    BY SendStream
  <1>4. Unread(s)' = clients[s].buffer \o (inbox[s] \o pieces)
    BY <1>1, Zenon DEF Unread
  <1> QED BY <1>1, <1>2, <1>3, <1>4, Zenon DEF SendJoins, Unread

\* A request sent tells itself if it begins a line, and otherwise nothing.
LEMMA RequestTold ==
    ASSUME TypeOK, NEW s \in Socket, NEW r \in Request, SendRequest(s, r)
    PROVE  /\ s \in DOMAIN clients
           /\ Unread(s) \in Seq(Piece) /\ Unread(s)' \in Seq(Piece)
           /\ Extends(Unread(s), Unread(s)')
           /\ Told(Unread(s)', Len(Unread(s)')) = {x \in {r} : AtLineStart(s)}
  <1>1. Whole(r) \in Seq(Piece) /\ Split(r) \in Seq(Piece)
    BY SendTypes
  <1> DEFINE u == Unread(s)
             v == Unread(s)'
  <1>2. AtLineStart(s) <=> Boundary(u, Len(u))
    BY DEF AtLineStart, Boundary
  <1>3. CASE Send(s, Whole(r))
    <2>1. s \in DOMAIN clients /\ u \in Seq(Piece) /\ v \in Seq(Piece) /\ JoinedBy(u, v, Whole(r))
      BY <1>1, <1>3, SendJoinsUnread
    <2> HIDE DEF u, v
    <2>2. /\ Len(v) = Len(u) + 1
          /\ \A j \in 1..Len(u) : v[j] = u[j]
          /\ v[Len(u) + 1] = [text |-> r, part |-> "whole"]
      BY <2>1 DEF JoinedBy, Whole
    <2>3. Told(v, Len(v)) = {x \in {r} : AtLineStart(s)}
      BY <1>2, <2>1, <2>2 DEF Told, Boundary
    <2>4. Extends(u, v)
      BY <2>1, <2>2 DEF Extends
    <2> QED BY <2>1, <2>3, <2>4 DEF u, v
  <1>4. CASE Send(s, Split(r))
    <2>1. s \in DOMAIN clients /\ u \in Seq(Piece) /\ v \in Seq(Piece) /\ JoinedBy(u, v, Split(r))
      BY <1>1, <1>4, SendJoinsUnread
    <2> HIDE DEF u, v
    <2>2. /\ Len(v) = Len(u) + 2
          /\ \A j \in 1..Len(u) : v[j] = u[j]
          /\ v[Len(u) + 1] = [text |-> r, part |-> "head"]
          /\ v[Len(u) + 2] = [text |-> r, part |-> "tail"]
      BY <2>1 DEF JoinedBy, Split
    <2>3. Told(v, Len(v)) = {x \in {r} : AtLineStart(s)}
      BY <1>2, <2>1, <2>2 DEF Told, Boundary
    <2>4. Extends(u, v)
      BY <2>1, <2>2 DEF Extends, Newlines
    <2> QED BY <2>1, <2>3, <2>4 DEF u, v
  <1> QED BY <1>3, <1>4 DEF SendRequest

LEMMA HonoursRequest ==
    ASSUME TypeOK, NEW s \in Socket, NEW r \in Request, SendRequest(s, r), Honours(s)
    PROVE  Honours(s)'
  <1>1. asked'[s] = Wish(s, r) /\ UNCHANGED tables
    BY DEF SendRequest, Send, TypeOK
  <1> DEFINE u == Unread(s)
             v == Unread(s)'
  <1>2. Wish(s, r) = After(asked[s], {x \in {r} : AtLineStart(s)})
    BY DEF Wish, After, Request
  <1>3. Leads(Topics(s), u, asked[s])
    BY DEF Honours, Topics
  <1>4. /\ u \in Seq(Piece) /\ v \in Seq(Piece) /\ Extends(u, v)
        /\ Told(v, Len(v)) = {x \in {r} : AtLineStart(s)}
    BY RequestTold
  <1> HIDE DEF u, v
  <1>5. Leads(Topics(s), v, After(asked[s], Told(v, Len(v))))
    BY <1>3, <1>4, LeadsOn
  <1> QED BY <1>1, <1>2, <1>4, <1>5 DEF Honours, Topics, getTopicsByConsumer, tables, v

\* A heartbeat tells nothing.
LEMMA HeartbeatTold ==
    ASSUME TypeOK, NEW s \in Socket, SendHeartbeat(s)
    PROVE  /\ s \in DOMAIN clients
           /\ Unread(s) \in Seq(Piece) /\ Unread(s)' \in Seq(Piece)
           /\ Extends(Unread(s), Unread(s)')
           /\ Told(Unread(s)', Len(Unread(s)')) = {}
  <1> DEFINE p == <<[text |-> Heartbeat, part |-> "head"]>>
             u == Unread(s)
             v == Unread(s)'
  <1>1. p \in Seq(Piece)
    <2>1. [text |-> Heartbeat, part |-> "head"] \in Piece
      BY DEF Piece, Part
    <2> QED BY <2>1
  <1>2. s \in DOMAIN clients /\ u \in Seq(Piece) /\ v \in Seq(Piece) /\ JoinedBy(u, v, p)
    BY <1>1, SendJoinsUnread DEF SendHeartbeat
  <1> HIDE DEF u, v
  <1>3. /\ Len(v) = Len(u) + 1
        /\ \A j \in 1..Len(u) : v[j] = u[j]
        /\ v[Len(u) + 1].part = "head"
    BY <1>2 DEF JoinedBy
  <1>4. Extends(u, v) /\ Told(v, Len(v)) = {}
    BY <1>2, <1>3 DEF Extends, Told
  <1> QED BY <1>2, <1>4 DEF u, v

LEMMA HonoursHeartbeat ==
    ASSUME TypeOK, NEW s \in Socket, SendHeartbeat(s), Honours(s)
    PROVE  Honours(s)'
  <1> DEFINE u == Unread(s)
             v == Unread(s)'
  <1>1. UNCHANGED <<asked, tables>>
    BY DEF SendHeartbeat, Send
  <1>2. /\ u \in Seq(Piece) /\ v \in Seq(Piece) /\ Extends(u, v) /\ Told(v, Len(v)) = {}
    BY HeartbeatTold
  <1>3. Leads(Topics(s), u, asked[s])
    BY DEF Honours, Topics
  <1> HIDE DEF u, v
  <1>4. Leads(Topics(s), v, After(asked[s], {}))
    <2>1. Leads(Topics(s), v, After(asked[s], Told(v, Len(v))))
      BY <1>2, <1>3, LeadsOn
    <2> QED BY <1>2, <2>1
  <1> QED BY <1>1, <1>4, AfterNothing DEF Honours, Topics, getTopicsByConsumer, tables, v

\* A client's stream is as honoured as before when neither its topics, nor its
\* stream, nor its wishes have changed.
LEMMA HonoursFrame ==
    ASSUME NEW s, Honours(s), Unread(s)' = Unread(s), asked'[s] = asked[s],
           Topics(s)' = Topics(s)
    PROVE  Honours(s)'
  BY DEF Honours, Topics

LEMMA StreamsStep ==
    TypeOK /\ ThreadOK /\ ClientsOK /\ TablesOK /\ StreamsOK /\ Next => StreamsOK'
  <1> SUFFICES ASSUME TypeOK, ThreadOK, ClientsOK, TablesOK, StreamsOK, Next,
                      stopPc' \in {"up", "flagged"},
                      NEW s \in open', ~(pc = "close" /\ s = cur)'
               PROVE  Honours(s)'
    BY DEF StreamsOK
  <1>0. stopPc \in {"up", "flagged"} /\ open = DOMAIN clients \ Evicted
    <2>1. stopPc \in {"up", "flagged"}
      BY Steps DEF TypeOK, Bind, ListenOn, SetRunning, EnterLoop, SelectError, SelectReady,
         SelectTimeout, PassDone, AcceptFails, SweepErase, HandleRegister, HandleUnregister,
         HandlePull, HandleOther, HandleBadShape, TakeLine, LinesDone, RemoveUnsubscribe,
         RemoveClose, StopFlag, StopSockets, StopServer, Connect, Accept, SweepClose, RecvData,
         RecvEnd, RecvTimedOut, SendHeartbeat, Age, SendRequest, Send, EndConnection, life
    <2> QED BY <2>1 DEF ClientsOK
  <1> USE DEF thread, tables, network, life, sockets
  <1>1. ASSUME s \in open, ~(pc = "close" /\ s = cur), inbox'[s] = inbox[s],
               clients'[s].buffer = clients[s].buffer, asked'[s] = asked[s],
               Topics(s)' = Topics(s)
        PROVE  Honours(s)'
    <2>1. Honours(s)
      BY <1>0, <1>1 DEF StreamsOK
    <2>2. Unread(s)' = Unread(s)
      BY <1>1 DEF Unread
    <2> QED BY <1>1, <2>1, <2>2, HonoursFrame
  <1>2. ASSUME UNCHANGED <<consumerTopics, clients, inbox, asked>>, s \in open,
               ~(pc = "close" /\ s = cur)
        PROVE  Honours(s)'
    BY <1>1, <1>2 DEF Topics, getTopicsByConsumer
  <1>3. CASE Bind \/ ListenOn \/ SetRunning \/ EnterLoop
    BY <1>2, <1>3 DEF Bind, ListenOn, SetRunning, EnterLoop
  <1>4. CASE SelectError \/ SelectReady \/ SelectTimeout \/ PassDone \/ LinesDone \/ AcceptFails
    BY <1>2, <1>4 DEF SelectError, SelectReady, SelectTimeout, PassDone, LinesDone, AcceptFails
  <1>5. CASE SweepErase
    <2>1. /\ pc = "evict" /\ UNCHANGED <<open, inbox, asked>> /\ cur \in Socket
          /\ unsubscribeAll(cur) /\ eraseClient(cur)
      BY <1>5 DEF SweepErase, ThreadOK, TypeOK
    <2>2. s \in open /\ s # cur
      BY <1>0, <2>1 DEF Evicted
    <2>3. clients'[s] = clients[s]
      BY <1>0, <2>1, <2>2 DEF eraseClient
    <2>4. \A x, u : u \in Topics(x)' <=> u \in Topics(x) /\ x # cur
      BY <2>1, UnsubscribeAllTopics DEF TypeOK, TablesOK
    <2>5. Topics(s)' = Topics(s)
      <3>1. \A u : u \in Topics(s)' <=> u \in Topics(s)
        BY <2>2, <2>4
      <3> QED BY <3>1
    <2> QED BY <1>1, <2>1, <2>2, <2>3, <2>5
  <1>6. ASSUME TakeLine, s # cur, \A x \in Socket \ {cur} : Topics(x)' = Topics(x)
        PROVE  Honours(s)'
    <2>1. s \in open /\ s \in DOMAIN clients /\ UNCHANGED <<inbox, asked>>
      BY <1>0, <1>6 DEF TakeLine
    <2>2. clients'[s] = clients[s]
      BY <1>6, <2>1, TakeLineFacts
    <2> QED BY <1>1, <1>6, <2>1, <2>2 DEF TypeOK
  <1>7. ASSUME TakeLine, s = cur, Topics(cur)' = After(Topics(cur), Request1)
        PROVE  Honours(s)'
    <2>1. pc = "lines" /\ cur \in open /\ UNCHANGED <<inbox, asked>>
      BY <1>7 DEF TakeLine
    <2>2. Honours(cur)
      BY <1>0, <2>1 DEF StreamsOK
    <2>3. Honours(cur)'
      BY <1>7, <2>1, <2>2, HonoursLine
    <2> QED BY <1>7, <2>3 DEF TakeLine, Honours
  <1>7a. ASSUME TakeLine, Topics(cur)' = After(Topics(cur), Request1),
                \A x \in Socket \ {cur} : Topics(x)' = Topics(x)
         PROVE  Honours(s)'
    <2>1. CASE s = cur
      BY <1>7, <1>7a, <2>1
    <2>2. CASE s # cur
      BY <1>6, <1>7a, <2>2
    <2> QED BY <2>1, <2>2
  <1>8. CASE HandleRegister
    <2>1. PICK r \in Request1 : r.type = "Register" /\ subscribe(cur, r.tag)
      BY <1>8 DEF HandleRegister
    <2>2. r \in Request /\ r.tag \in Topic /\ cur \in Socket /\ TakeLine
      BY <1>8, <2>1, TakeLineFacts DEF Request1, Parsed, Request, HandleRegister, TypeOK
    <2>3. \A x, u : u \in Topics(x)' <=> u \in Topics(x) \/ (x = cur /\ u = r.tag)
      BY <2>1, <2>2, SubscribeTopics DEF TablesOK
    <2>4. Topics(cur)' = After(Topics(cur), Request1)
      <3>1. Request1 = {r}
        BY <2>1, OnlyOneParsed DEF Request1
      <3>2. \A u : u \in Topics(cur)' <=> u \in After(Topics(cur), {r})
        <4>1. ASSUME NEW u
              PROVE  u \in After(Topics(cur), {r}) <=> u \in Topics(cur) \/ u = r.tag
          BY <2>1 DEF After
        <4>2. cur' = cur
          BY <2>2 DEF TakeLine
        <4> QED BY <2>3, <4>1, <4>2
      <3>3. Topics(cur)' = After(Topics(cur), {r})
        BY <3>2
      <3> QED BY <3>1, <3>3
    <2>5. \A x \in Socket \ {cur} : Topics(x)' = Topics(x)
      <3>1. ASSUME NEW x \in Socket \ {cur} PROVE Topics(x)' = Topics(x)
        <4>1. \A u : u \in Topics(x)' <=> u \in Topics(x)
          BY <2>3
        <4> QED BY <4>1
      <3> QED BY <3>1
    <2> QED BY <1>7a, <2>2, <2>4, <2>5
  <1>9. CASE HandleUnregister
    <2>1. PICK r \in Request1 : r.type = "Unregister" /\ unsubscribe(cur, r.tag)
      BY <1>9 DEF HandleUnregister
    <2>2. r \in Request /\ r.tag \in Topic /\ cur \in Socket /\ TakeLine
      BY <1>9, <2>1, TakeLineFacts DEF Request1, Parsed, Request, HandleUnregister, TypeOK
    <2>3. \A x, u : u \in Topics(x)' <=> u \in Topics(x) /\ ~(x = cur /\ u = r.tag)
      BY <2>1, <2>2, UnsubscribeTopics DEF TablesOK
    <2>4. Topics(cur)' = After(Topics(cur), Request1)
      <3>1. Request1 = {r}
        BY <2>1, OnlyOneParsed DEF Request1
      <3>2. \A u : u \in Topics(cur)' <=> u \in After(Topics(cur), {r})
        <4>1. ASSUME NEW u
              PROVE  u \in After(Topics(cur), {r}) <=> u \in Topics(cur) /\ ~(u = r.tag)
          BY <2>1 DEF After
        <4>2. cur' = cur
          BY <2>2 DEF TakeLine
        <4> QED BY <2>3, <4>1, <4>2
      <3>3. Topics(cur)' = After(Topics(cur), {r})
        BY <3>2
      <3> QED BY <3>1, <3>3
    <2>5. \A x \in Socket \ {cur} : Topics(x)' = Topics(x)
      <3>1. ASSUME NEW x \in Socket \ {cur} PROVE Topics(x)' = Topics(x)
        <4>1. \A u : u \in Topics(x)' <=> u \in Topics(x)
          BY <2>3
        <4> QED BY <4>1
      <3> QED BY <3>1
    <2> QED BY <1>7a, <2>2, <2>4, <2>5
  <1>10. CASE HandlePull \/ HandleOther \/ HandleBadShape
    <2>1. TakeLine /\ UNCHANGED consumerTopics
      BY <1>10 DEF HandlePull, HandleOther, HandleBadShape
    <2>2. /\ \A x \in Socket \ {cur} : Topics(x)' = Topics(x)
          /\ Topics(cur)' = Topics(cur)
      BY <2>1 DEF Topics, getTopicsByConsumer, TakeLine
    <2>3. After(Topics(cur), Request1) = Topics(cur)
      <3>1. CASE Request1 = {}
        BY <3>1, AfterNothing
      <3>2. ASSUME NEW r \in Request1, r.type \in {"Pull", "Other", "BadShape"}
            PROVE  After(Topics(cur), Request1) = Topics(cur)
        <4>1. Request1 = {r}
          BY OnlyOneParsed DEF Request1
        <4> QED BY <3>2, <4>1 DEF After
      <3> QED BY <1>10, <3>1, <3>2 DEF HandlePull, HandleOther, HandleBadShape
    <2> QED BY <1>7a, <2>1, <2>2, <2>3
  <1>11. CASE RemoveUnsubscribe
    <2>1. /\ pc = "unsub" /\ pc' = "close" /\ UNCHANGED <<cur, open, clients, inbox, asked>>
          /\ unsubscribeAll(cur) /\ cur \in Socket
      BY <1>11 DEF RemoveUnsubscribe, ThreadOK, TypeOK
    <2>2. s # cur /\ s \in open
      BY <2>1
    <2>3. \A x, u : u \in Topics(x)' <=> u \in Topics(x) /\ x # cur
      BY <2>1, UnsubscribeAllTopics DEF TypeOK, TablesOK
    <2>4. Topics(s)' = Topics(s)
      <3>1. \A u : u \in Topics(s)' <=> u \in Topics(s)
        BY <2>2, <2>3
      <3> QED BY <3>1
    <2> QED BY <1>1, <2>1, <2>2, <2>4
  <1>12. CASE RemoveClose
    <2>1. /\ open' = open \ {cur} /\ eraseClient(cur)
          /\ UNCHANGED <<consumerTopics, inbox, asked>>
      BY <1>12 DEF RemoveClose, closesocket
    <2>2. s # cur /\ s \in open /\ clients'[s] = clients[s]
      BY <1>0, <2>1 DEF eraseClient
    <2> QED BY <1>1, <2>1, <2>2 DEF Topics, getTopicsByConsumer
  <1>13. CASE StopFlag \/ StopSockets \/ StopServer \/ Connect
    BY <1>2, <1>13 DEF StopFlag, StopSockets, StopServer, Connect
  <1>14. ASSUME NEW c \in Socket, Accept(c) PROVE Honours(s)'
    <2>1. /\ pc = "accept" /\ c \notin open /\ open' = open \cup {c}
          /\ UNCHANGED consumerTopics
      BY <1>14 DEF Accept
    <2>2. CASE s # c
      <3>1. s \in open /\ s \in Socket /\ s \in DOMAIN clients
        BY <1>0, <2>1, <2>2 DEF TypeOK
      <3>2. inbox'[s] = inbox[s] /\ asked'[s] = asked[s] /\ clients'[s] = clients[s]
        BY <1>14, <2>2, <3>1 DEF Accept, TypeOK
      <3> QED BY <1>1, <2>1, <3>1, <3>2 DEF Topics, getTopicsByConsumer
    <2>3. CASE s = c
      <3>1. Topics(s)' = {}
        BY <1>0, <2>1, <2>3 DEF TablesOK, Evicted, Topics, getTopicsByConsumer, Entry
      <3>2. asked'[s] = {} /\ inbox'[s] = <<>> /\ clients'[s].buffer = <<>>
        BY <1>14, <2>3 DEF Accept, TypeOK
      <3>3. Unread(s)' = <<>>
        BY <3>2 DEF Unread
      <3>4. Leads({}, <<>>, {})
        <4> DEFINE w == [i \in 0..Len(<<>>) |-> {}]
        <4>1. w \in [0..Len(<<>>) -> SUBSET Topic] /\ w[0] = {} /\ w[Len(<<>>)] = {}
          OBVIOUS
        <4>2. 1..Len(<<>>) = {}
          OBVIOUS
        <4> HIDE DEF w
        <4> QED BY <4>1, <4>2 DEF Leads
      <3> QED BY <3>1, <3>2, <3>3, <3>4 DEF Honours, Topics
    <2> QED BY <2>2, <2>3
  <1>15. ASSUME NEW c \in Socket, SweepClose(c) PROVE Honours(s)'
    BY <1>2, <1>15 DEF SweepClose, closesocket
  <1>16. ASSUME NEW c \in Socket, RecvData(c) PROVE Honours(s)'
    <2>1. /\ s \in open /\ pc = "scan" /\ s \in DOMAIN clients /\ s \in Socket
          /\ UNCHANGED <<consumerTopics, asked>>
      BY <1>0, <1>16 DEF RecvData, Visit, TypeOK
    <2>2. Topics(s)' = Topics(s) /\ Honours(s)
      BY <1>0, <2>1 DEF Topics, getTopicsByConsumer, StreamsOK
    <2>3. CASE s = c
      BY <1>16, <2>1, <2>2, <2>3, RecvDataFacts, HonoursFrame
    <2>4. CASE s # c
      BY <1>1, <1>16, <2>1, <2>2, <2>4, RecvDataFacts
    <2> QED BY <2>3, <2>4
  <1>17. ASSUME NEW c \in Socket, RecvEnd(c) \/ RecvTimedOut(c) PROVE Honours(s)'
    BY <1>2, <1>17 DEF RecvEnd, RecvTimedOut, Visit
  <1>18. ASSUME NEW c \in Socket, Age(c) PROVE Honours(s)'
    <2>1. /\ s \in open /\ ~(pc = "close" /\ s = cur) /\ UNCHANGED <<consumerTopics, inbox, asked>>
      BY <1>18 DEF Age
    <2>2. clients'[s].buffer = clients[s].buffer
      BY <1>0, <1>18, <2>1 DEF Age, TypeOK, ClientInfo
    <2> QED BY <1>1, <2>1, <2>2 DEF Topics, getTopicsByConsumer
  <1>19. ASSUME NEW c \in Socket, NEW pieces, Send(c, pieces), s # c, asked'[s] = asked[s]
         PROVE  Honours(s)'
    <2>1. /\ s \in open /\ s \in Socket /\ ~(pc = "close" /\ s = cur)
          /\ UNCHANGED <<consumerTopics, clients>> /\ inbox'[s] = inbox[s]
      BY <1>19 DEF Send, TypeOK
    <2> QED BY <1>1, <1>19, <2>1 DEF Topics, getTopicsByConsumer
  <1>20. ASSUME NEW c \in Socket, NEW pieces, Send(c, pieces), s = c PROVE Honours(s)
    BY <1>0, <1>20 DEF Send, StreamsOK
  <1>21. ASSUME NEW c \in Socket, SendHeartbeat(c) PROVE Honours(s)'
    <2>1. CASE s = c
      <3>1. Honours(s)
        BY <1>20, <1>21, <2>1 DEF SendHeartbeat
      <3> QED BY <1>21, <2>1, <3>1, HonoursHeartbeat
    <2>2. CASE s # c
      BY <1>19, <1>21, <2>2 DEF SendHeartbeat
    <2> QED BY <2>1, <2>2
  <1>22. ASSUME NEW c \in Socket, NEW r \in Request, SendRequest(c, r) PROVE Honours(s)'
    <2>1. CASE s = c
      <3>1. Honours(s)
        BY <1>20, <1>22, <2>1 DEF SendRequest
      <3> QED BY <1>22, <2>1, <3>1, HonoursRequest
    <2>2. CASE s # c
      <3>1. asked'[s] = asked[s]
        BY <1>22, <2>2 DEF SendRequest, TypeOK
      <3> QED BY <1>19, <1>22, <2>2, <3>1 DEF SendRequest
    <2> QED BY <2>1, <2>2
  <1>23. ASSUME NEW c \in Socket, NEW how, EndConnection(c, how) PROVE Honours(s)'
    BY <1>2, <1>23 DEF EndConnection
  <1> QED BY <1>3, <1>4, <1>5, <1>8, <1>9, <1>10, <1>11, <1>12, <1>13, <1>14, <1>15, <1>16, <1>17,
             <1>18, <1>21, <1>22, <1>23, Steps

-----------------------------------------------------------------------------
(* The theorems about the manager *)

LEMMA InvInit == Init => IInv
  <1> SUFFICES ASSUME Init PROVE IInv
    OBVIOUS
  <1>1. TypeOK
    <2>1. inbox \in [Socket -> Seq(Piece)]
      BY DEF Init
    <2>2. taskQueue \in Seq(Request)
      BY DEF Init
    <2> QED BY <2>1, <2>2 DEF Init, TypeOK, Handle, EmptyMap, Created, ServerState
  <1>2. ThreadOK
    BY DEF Init, ThreadOK, EmptyMap
  <1>3. ClientsOK
    BY DEF Init, ClientsOK, Evicted, EmptyMap
  <1>4. TablesOK
    BY DEF Init, TablesOK, IndexInverse, getTopicsByConsumer, getConsumersByTopic, Entry, EmptyMap
  <1>5. StreamsOK
    BY DEF Init, StreamsOK
  <1> QED BY <1>1, <1>2, <1>3, <1>4, <1>5 DEF IInv

\* A step of another component, whatever it does to the process
LEMMA Undisturbed ==
    ASSUME IInv, crashed' \in BOOLEAN,
           UNCHANGED <<thread, tables, network, sockets, taskQueue, isRunning, server, stopPc>>
    PROVE  IInv'
  <1> USE DEF IInv, thread, tables, network, sockets
  <1>1. TypeOK'
    BY DEF TypeOK
  <1>2. ThreadOK'
    BY DEF ThreadOK, Accepting
  <1>3. ClientsOK'
    BY DEF ClientsOK, Evicted
  <1>4. TablesOK'
    BY DEF TablesOK, IndexInverse, getTopicsByConsumer, getConsumersByTopic
  <1>5. StreamsOK'
    BY DEF StreamsOK, Honours, getTopicsByConsumer, Unread
  <1> QED BY <1>1, <1>2, <1>3, <1>4, <1>5

LEMMA InvStep == IInv /\ [Next]_vars => IInv'
  <1> SUFFICES ASSUME IInv, [Next]_vars PROVE IInv'
    OBVIOUS
  <1>1. CASE Next
    BY <1>1, TypeStep, ThreadStep, ClientsStep, TablesStep, StreamsStep DEF IInv, TablesOK
  <1>2. CASE UNCHANGED vars
    <2>1. crashed' \in BOOLEAN
      BY <1>2 DEF vars, life, IInv, TypeOK
    <2>2. UNCHANGED <<thread, tables, network, sockets, taskQueue, isRunning, server, stopPc>>
      BY <1>2 DEF vars, life
    <2> QED BY <2>1, <2>2, Undisturbed
  <1> QED BY <1>1, <1>2

LEMMA Inductive == SafetySpec => []IInv
  BY InvInit, InvStep, PTL DEF SafetySpec

\* Every variable of the consumer manager keeps its type.
THEOREM TypeCorrect == SafetySpec => []TypeOK
  <1>1. IInv => TypeOK
    BY DEF IInv
  <1> QED BY <1>1, Inductive, PTL

\* subscribe, unsubscribe and unsubscribeAll keep the two tables of any number
\* of consumers and topics each other's inverse, without an empty entry,
\* through every removal and idle sweep.
THEOREM TablesAgree == SafetySpec => []IndexInverse
  <1>1. IInv => IndexInverse
    BY DEF IInv, TablesOK
  <1> QED BY <1>1, Inductive, PTL

\* A subscription belongs to a client on record, and until stop() its handle is
\* open unless the idle sweep is taking it out: the next consumer to be given
\* the handle inherits nothing.
THEOREM NoneInherited == SafetySpec => []SubscribersAreLive
  <1>1. IInv => SubscribersAreLive
    BY DEF IInv, TablesOK, ClientsOK, Evicted, TypeOK, SubscribersAreLive
  <1> QED BY <1>1, Inductive, PTL

\* select is given no handle without a record, before stop() no closed one, and
\* with fewer sockets than FD_SETSIZE every client, in accept, removeClient and
\* the idle sweep.
THEOREM SelectedRightly == SafetySpec => []WatchedInStep
  <1>1. IInv => WatchedInStep
    BY SocketAssumption DEF IInv, ClientsOK, Evicted, TypeOK, Handle, WatchedInStep
  <1> QED BY <1>1, Inductive, PTL

\* However recv cuts the stream of requests and processClientData's buffer puts
\* it together again, a client without an unread line is subscribed to exactly
\* the topics it has asked for.
THEOREM AsAsked == SafetySpec => []RequestsHonoured
  <1>1. ASSUME IInv PROVE RequestsHonoured
    <2> SUFFICES ASSUME stopPc \in {"up", "flagged"}, NEW s \in open \cap DOMAIN clients,
                        ~HasLine(Unread(s)), ~(s = cur /\ pc \in {"close", "evict"})
                 PROVE  getTopicsByConsumer(s) = asked[s]
      BY DEF RequestsHonoured
    <2>1. TypeOK /\ s \in open /\ s \in DOMAIN clients /\ s \in Socket
      BY <1>1 DEF IInv, TypeOK
    <2>2. Leads(getTopicsByConsumer(s), Unread(s), asked[s])
      BY <1>1, <2>1 DEF IInv, StreamsOK, Honours
    <2>3. Unread(s) \in Seq(Piece)
      BY <2>1, UnreadType
    <2> QED BY <2>2, <2>3, LeadsWithoutLine
  <1> QED BY <1>1, Inductive, PTL

\* removeClient and the idle sweep close a connection only when its peer has
\* ended it or it has been idle for 300 seconds; nothing else but stop() closes.
THEOREM ClosedRightly == SafetySpec => ClosedForCause
  <1> DEFINE Cause == \A s \in open \ open' : stopPc # "up" \/ peer[s] # "up" \/ clients[s].stale
  <1>1. ASSUME IInv, [Next]_vars PROVE [Cause]_vars
    <2> SUFFICES ASSUME Next, NEW s \in open \ open', stopPc = "up"
                 PROVE  peer[s] # "up" \/ clients[s].stale
      BY <1>1
    <2>1. CASE RemoveClose
      BY <1>1, <2>1 DEF RemoveClose, closesocket, IInv, ThreadOK
    <2>2. ASSUME NEW c \in Socket, SweepClose(c)
          PROVE  peer[s] # "up" \/ clients[s].stale
      BY <1>1, <2>2 DEF SweepClose, closesocket, IInv, ThreadOK
    <2>3. CASE StopSockets
      BY <2>3 DEF StopSockets
    <2>4. open \subseteq open' \/ RemoveClose \/ StopSockets \/ \E c \in Socket : SweepClose(c)
      BY Steps DEF Bind, ListenOn, SetRunning, EnterLoop, SelectError, SelectReady,
         SelectTimeout, PassDone, AcceptFails, SweepErase, HandleRegister, HandleUnregister,
         HandlePull, HandleOther, HandleBadShape, TakeLine, LinesDone, RemoveUnsubscribe,
         StopFlag, StopServer, Connect, Accept, RecvData, RecvEnd, RecvTimedOut,
         SendHeartbeat, Age, SendRequest, Send, EndConnection, sockets
    <2> QED BY <2>1, <2>2, <2>3, <2>4
  <1> QED BY <1>1, Inductive, PTL DEF SafetySpec, ClosedForCause

-----------------------------------------------------------------------------
(* The manager and the dispatcher: their invariant *)

\* Of the dispatcher: what it takes to pick one of the consumers looked up
SendOK == /\ topicRoundRobinIndex \in [Topic -> Nat]
          /\ consumerList \in Seq(Socket)
          /\ dpc = "send" => TagOf[msg] \in Topic /\ consumerList # <<>>

\* Every registration that is still to be read from u has been asked for.
Within(u, T) == \A i \in 1..Len(u) : \A r \in Told(u, i) : r.type = "Register" => r.tag \in T

\* A connection is subscribed to what it has asked for at some time, and will be.
EverOK == /\ \A s \in Socket : Topics(s) \subseteq ever[s]
          /\ \A s \in DOMAIN clients : Within(Unread(s), ever[s])

\* The handles looked up that still belong to the same connection
SameOK == /\ same \subseteq Socket
          /\ dpc = "send" => \A s \in same : TagOf[msg] \in ever[s]

\* The connection on the handle s is being subscribed to t.
Becomes(s, t) == s = cur /\ Adding(t)

\* The dispatcher is about to send a message of t to one of these.
LookedUp(s, t) == dpc = "send" /\ TagOf[msg] = t /\ s \in Elements(consumerList)

\* Once a message of t has come late, s is no subscriber of t, and if it has been
\* looked up again that was because it is about to be one.
LateOK == \A s \in Socket, t \in Topic :
             /\ late[s][t] \in {0, 1}
             /\ late[s][t] = 1 => /\ t \notin Topics(s)
                                  /\ LookedUp(s, t) /\ Reaches(s) => Becomes(s, t)

BInv == IInv /\ stopPc = "up" /\ SendOK /\ EverOK /\ SameOK /\ LateOK

-----------------------------------------------------------------------------
(* What a step of the manager, of a consumer or of the network does *)

\* A new connection begins with nothing asked and no subscription.
LEMMA NewConnection ==
    ASSUME IInv, stopPc = "up", Next, NEW s \in Socket, NewHandle(s)
    PROVE  Topics(s)' = {} /\ s \in DOMAIN clients' /\ Unread(s)' = <<>>
  <1>1. Accept(s)
    BY Steps, ZenonT(60) DEF NewHandle, Bind, ListenOn, SetRunning, EnterLoop, SelectError, SelectReady,
       SelectTimeout, PassDone, AcceptFails, SweepErase, HandleRegister, HandleUnregister,
       HandlePull, HandleOther, HandleBadShape, TakeLine, LinesDone, RemoveUnsubscribe,
       RemoveClose, StopFlag, StopSockets, StopServer, Connect, Accept, SweepClose, RecvData,
       RecvEnd, RecvTimedOut, SendHeartbeat, Age, SendRequest, Send, EndConnection, sockets,
       closesocket
  <1>2. s \notin DOMAIN clients
    BY <1>1 DEF Accept, IInv, ClientsOK, Evicted
  <1>3. Topics(s)' = {}
    BY <1>1, <1>2 DEF Accept, tables, IInv, TablesOK, Topics, getTopicsByConsumer, Entry
  <1>4. s \in DOMAIN clients' /\ clients'[s].buffer = <<>> /\ inbox'[s] = <<>>
    BY <1>1 DEF Accept, IInv, TypeOK
  <1>5. Unread(s)' = <<>>
    BY <1>4 DEF Unread
  <1> QED BY <1>3, <1>4, <1>5

\* A subscription comes from a request that is being handled.
LEMMA OnlyRequestsSubscribe ==
    ASSUME IInv, Next, NEW s \in Socket, NEW t \in Topics(s)'
    PROVE  t \in Topics(s) \/ Becomes(s, t)
  <1>1. TypeOK /\ ThreadOK /\ IndexInverse
    BY DEF IInv, TablesOK
  <1>2. CASE UNCHANGED consumerTopics
    BY <1>2 DEF Topics, getTopicsByConsumer
  <1>3. CASE HandleRegister
    <2>1. PICK r \in Request1 : r.type = "Register" /\ subscribe(cur, r.tag)
      BY <1>3 DEF HandleRegister
    <2>2. r \in Request /\ r.tag \in Topic /\ cur \in Socket /\ TakeLine
      BY <1>1, <1>3, <2>1, TakeLineFacts DEF Request1, Parsed, Request, HandleRegister, TypeOK
    <2>3. \A x, u : u \in Topics(x)' <=> u \in Topics(x) \/ (x = cur /\ u = r.tag)
      BY <1>1, <2>1, <2>2, SubscribeTopics
    <2> QED BY <2>1, <2>2, <2>3 DEF Becomes, Adding, TakeLine
  <1>4. CASE HandleUnregister
    <2>1. PICK r \in Request1 : r.type = "Unregister" /\ unsubscribe(cur, r.tag)
      BY <1>4 DEF HandleUnregister
    <2>2. r \in Request /\ r.tag \in Topic /\ cur \in Socket
      BY <1>1, <1>4, <2>1, TakeLineFacts DEF Request1, Parsed, Request, HandleUnregister, TypeOK
    <2> QED BY <1>1, <2>1, <2>2, UnsubscribeTopics
  <1>5. CASE SweepErase \/ RemoveUnsubscribe
    <2>1. unsubscribeAll(cur) /\ cur \in Socket
      BY <1>1, <1>5 DEF SweepErase, RemoveUnsubscribe, ThreadOK, TypeOK
    <2> QED BY <1>1, <2>1, UnsubscribeAllTopics DEF TypeOK
  <1> QED BY <1>2, <1>3, <1>4, <1>5, Steps DEF Bind, ListenOn, SetRunning, EnterLoop, SelectError,
             SelectReady, SelectTimeout, PassDone, AcceptFails, HandlePull, HandleOther,
             HandleBadShape, LinesDone, RemoveClose, StopFlag, StopSockets, StopServer, Connect,
             Accept, SweepClose, RecvData, RecvEnd, RecvTimedOut, SendHeartbeat, Age, SendRequest,
             Send, EndConnection, tables

\* A subscription under way takes place before anything else happens to the client.
LEMMA SubscriptionCompletes ==
    ASSUME IInv, Next, NEW s \in Socket, NEW t \in Topic, Becomes(s, t)
    PROVE  Becomes(s, t)' \/ t \in Topics(s)'
  <1>1. /\ TypeOK /\ ThreadOK /\ IndexInverse /\ cur \in DOMAIN clients
        /\ pc = "lines" /\ s = cur /\ HasLine(clients[cur].buffer)
    BY DEF IInv, TablesOK, Becomes, Adding, ThreadOK
  <1>2. PICK r \in Request1 : r.type = "Register" /\ r.tag = t
    BY DEF Becomes, Adding
  <1>3. Request1 = {r}
    BY <1>2, OnlyOneParsed DEF Request1
  <1>4. CASE UNCHANGED <<pc, cur>> /\ clients'[cur].buffer = clients[cur].buffer
    BY <1>4 DEF Becomes, Adding, Request1
  <1>5. CASE HandleRegister
    <2>1. subscribe(cur, t)
      BY <1>2, <1>3, <1>5 DEF HandleRegister
    <2> QED BY <1>1, <2>1, SubscribeTopics
  <1>6. ASSUME NEW c \in Socket, Age(c) PROVE UNCHANGED <<pc, cur>> /\ clients'[cur].buffer = clients[cur].buffer
    BY <1>1, <1>6 DEF Age, thread, TypeOK, ClientInfo
  <1>7. ASSUME NEW c \in Socket PROVE ~(Accept(c) \/ SweepClose(c) \/ RecvData(c) \/ RecvEnd(c)
                                          \/ RecvTimedOut(c))
    BY <1>1 DEF Accept, SweepClose, RecvData, RecvEnd, RecvTimedOut, Visit
  <1>8. ~(HandleUnregister \/ HandlePull \/ HandleOther \/ HandleBadShape \/ LinesDone)
    BY <1>1, <1>2, <1>3 DEF HandleUnregister, HandlePull, HandleOther, HandleBadShape, LinesDone
  <1>9. CASE StopFlag \/ StopSockets \/ StopServer \/ Connect
    BY <1>4, <1>9 DEF StopFlag, StopSockets, StopServer, Connect, thread, sockets
  <1>10. ASSUME NEW c \in Socket, NEW r1, NEW how,
                SendHeartbeat(c) \/ SendRequest(c, r1) \/ EndConnection(c, how)
         PROVE  Becomes(s, t)' \/ t \in Topics(s)'
    <2>1. UNCHANGED thread /\ UNCHANGED sockets
      BY <1>10 DEF SendHeartbeat, SendRequest, Send, EndConnection
    <2>2. UNCHANGED <<pc, cur, clients>>
      BY <2>1 DEF thread, sockets
    <2> QED BY <1>4, <2>2
  <1> QED BY <1>1, <1>4, <1>5, <1>6, <1>7, <1>8, <1>9, <1>10, Steps DEF Bind, ListenOn, SetRunning,
             EnterLoop, SelectError, SelectReady, SelectTimeout, PassDone, AcceptFails, SweepErase,
             RemoveUnsubscribe, RemoveClose

\* A handle that reaches nobody does so only with a new connection.
LEMMA ReachedAgain ==
    ASSUME IInv, Next, NEW s \in Socket, Reaches(s)'
    PROVE  Reaches(s) \/ NewHandle(s)
  <1>1. s \in open' /\ peer'[s] = "up"
    BY DEF Reaches
  <1>2. peer'[s] = peer[s] \/ Accept(s) \/ \E how \in {"fin", "reset", "timedout"} : EndConnection(s, how)
    <2>1. peer \in [Socket -> {"up", "fin", "reset", "timedout"}]
      BY DEF IInv, TypeOK
    <2>2. ASSUME NEW c \in Socket, Accept(c) PROVE c = s \/ peer'[s] = peer[s]
      BY <2>1, <2>2 DEF Accept
    <2>3. ASSUME NEW c \in Socket, NEW how, EndConnection(c, how) PROVE c = s \/ peer'[s] = peer[s]
      BY <2>1, <2>3 DEF EndConnection
    <2>4. ASSUME NEW c \in Socket, NEW r, SendHeartbeat(c) \/ SendRequest(c, r) PROVE UNCHANGED peer
      BY <2>4 DEF SendHeartbeat, SendRequest, Send
    <2>5. ASSUME NEW c \in Socket, SweepClose(c) \/ RecvData(c) \/ RecvEnd(c) \/ RecvTimedOut(c) \/ Age(c)
          PROVE  UNCHANGED peer
      BY <2>5 DEF SweepClose, RecvData, RecvEnd, RecvTimedOut, Age, network
    <2>6. CASE TakeLine \/ LinesDone \/ RemoveUnsubscribe \/ RemoveClose \/ SweepErase \/ AcceptFails
      BY <2>6 DEF TakeLine, LinesDone, RemoveUnsubscribe, RemoveClose, SweepErase, AcceptFails, network
    <2>7. CASE \/ Bind \/ ListenOn \/ SetRunning \/ EnterLoop \/ SelectError \/ SelectReady
               \/ SelectTimeout \/ PassDone \/ StopFlag \/ StopSockets \/ StopServer \/ Connect
      BY <2>7 DEF Bind, ListenOn, SetRunning, EnterLoop, SelectError, SelectReady, SelectTimeout,
         PassDone, StopFlag, StopSockets, StopServer, Connect, network
    <2> QED BY <2>2, <2>3, <2>4, <2>5, <2>6, <2>7, Steps DEF HandleRegister, HandleUnregister,
               HandlePull, HandleOther, HandleBadShape
  <1>3. ASSUME NEW how \in {"fin", "reset", "timedout"}, EndConnection(s, how) PROVE FALSE
    BY <1>1, <1>3 DEF EndConnection, IInv, TypeOK
  <1>4. Accept(s) => NewHandle(s)
    BY <1>1 DEF Accept, NewHandle
  <1> QED BY <1>1, <1>2, <1>3, <1>4 DEF Reaches, NewHandle

\* More of what is told joins the end of a stream, or its first line is taken.
LEMMA WithinOn ==
    ASSUME NEW u \in Seq(Piece), NEW v \in Seq(Piece), Extends(u, v), NEW T, NEW U,
           Within(u, T), T \subseteq U,
           \A r \in Told(v, Len(v)) : r.type = "Register" => r.tag \in U
    PROVE  Within(v, U)
  <1>1. /\ Len(u) \in Nat /\ Len(v) \in Nat
        /\ \A i \in 1..Len(u) : Told(v, i) = Told(u, i)
        /\ \A i \in (Len(u) + 1)..(Len(v) - 1) : Told(v, i) = {}
    BY ToldOn
  <1> SUFFICES ASSUME NEW i \in 1..Len(v), NEW r \in Told(v, i), r.type = "Register"
               PROVE  r.tag \in U
    BY DEF Within
  <1>2. i \in 1..Len(u) \/ i \in (Len(u) + 1)..(Len(v) - 1) \/ i = Len(v)
    BY <1>1
  <1> QED BY <1>1, <1>2 DEF Within

LEMMA WithinBehind ==
    ASSUME NEW u \in Seq(Piece), NEW v \in Seq(Piece), HasLine(u), Behind(u, v), NEW T, Within(u, T)
    PROVE  Within(v, T)
  <1>1. \A i \in 1..Len(v) : Told(v, i) = Told(u, LineEnd(u) + i)
    BY ToldBehind
  <1>2. \A i \in 1..Len(v) : LineEnd(u) + i \in 1..Len(u)
    BY LineEndFacts DEF Behind
  <1> QED BY <1>1, <1>2 DEF Within

LEMMA WithinMore ==
    ASSUME NEW u, NEW T, NEW U, Within(u, T), T \subseteq U
    PROVE  Within(u, U)
  BY DEF Within

\* What a client's stream still tells is what it told before, and what has been
\* asked for in this step.
LEMMA StreamWithin ==
    ASSUME IInv, Next, NEW s \in DOMAIN clients', ~NewHandle(s), stopPc = "up",
           NEW T, s \in DOMAIN clients => Within(Unread(s), T)
    PROVE  s \in DOMAIN clients /\ Within(Unread(s)', T \cup asked'[s])
  <1> USE DEF thread, tables, network, life, sockets
  <1>1. TypeOK /\ ThreadOK /\ s \in Socket
    <2>1. TypeOK'
      BY TypeStep DEF IInv, TablesOK
    <2> QED BY <2>1 DEF IInv, TypeOK
  <1>2. ASSUME s \in DOMAIN clients, Unread(s)' = Unread(s) PROVE Within(Unread(s)', T \cup asked'[s])
    BY <1>2, WithinMore
  <1>3. ASSUME s \in DOMAIN clients, clients'[s].buffer = clients[s].buffer, inbox'[s] = inbox[s]
        PROVE  Within(Unread(s)', T \cup asked'[s])
    BY <1>2, <1>3 DEF Unread
  <1>4. CASE UNCHANGED <<clients, inbox>>
    BY <1>3, <1>4
  <1>5. CASE SweepErase \/ RemoveClose
    BY <1>3, <1>5 DEF SweepErase, RemoveClose, eraseClient
  <1>6. CASE TakeLine
    <2>1. s \in DOMAIN clients /\ UNCHANGED <<inbox, cur>>
      BY <1>1, <1>6, TakeLineFacts DEF TakeLine
    <2>2. CASE s # cur
      BY <1>1, <1>3, <1>6, <2>1, <2>2, TakeLineFacts
    <2>3. CASE s = cur
      <3> DEFINE b == clients[s].buffer
                 u == Unread(s)
                 v == AfterLine(b) \o inbox[s]
      <3>1. b \in Seq(Piece) /\ inbox[s] \in Seq(Piece) /\ HasLine(b)
        BY <1>1, <1>6, <2>1, <2>3, UnreadType DEF TakeLine
      <3>2. u \in Seq(Piece) /\ v \in Seq(Piece) /\ HasLine(u) /\ Behind(u, v)
        <4>1. BufferHasTheLine(Piece)
          BY LineOfStream
        <4> QED BY <3>1, <4>1, Zenon DEF BufferHasTheLine, Unread
      <3>3. Unread(s)' = v
        <4>1. clients'[s].buffer = AfterLine(b) /\ inbox'[s] = inbox[s]
          BY <1>1, <1>6, <2>1, <2>3, TakeLineFacts
        <4> QED BY <4>1, Zenon DEF Unread
      <3>4. Within(u, T)
        BY <2>1
      <3> HIDE DEF u, v
      <3>5. Within(v, T)
        BY <3>2, <3>4, WithinBehind
      <3>6. Within(v, T \cup asked'[s])
        BY <3>5, WithinMore
      <3> QED BY <2>1, <3>3, <3>6
    <2> QED BY <2>1, <2>2, <2>3
  <1>7. ASSUME NEW c \in Socket, Accept(c) PROVE s \in DOMAIN clients /\ Within(Unread(s)', T \cup asked'[s])
    <2>1. s # c
      BY <1>7 DEF Accept, NewHandle
    <2>2. s \in DOMAIN clients /\ clients'[s] = clients[s] /\ inbox'[s] = inbox[s]
      BY <1>1, <1>7, <2>1 DEF Accept, TypeOK
    <2> QED BY <1>3, <2>2
  <1>8. ASSUME NEW c \in Socket, RecvData(c) PROVE s \in DOMAIN clients /\ Within(Unread(s)', T \cup asked'[s])
    BY <1>1, <1>2, <1>3, <1>8, RecvDataFacts
  <1>9. ASSUME NEW c \in Socket, Age(c) PROVE s \in DOMAIN clients /\ Within(Unread(s)', T \cup asked'[s])
    <2>1. s \in DOMAIN clients /\ clients'[s].buffer = clients[s].buffer /\ inbox' = inbox
      BY <1>1, <1>9 DEF Age, TypeOK, ClientInfo
    <2> QED BY <1>3, <2>1
  <1>10. ASSUME NEW c \in Socket, NEW pieces, Send(c, pieces), s # c
         PROVE  s \in DOMAIN clients /\ Within(Unread(s)', T \cup asked'[s])
    <2>1. UNCHANGED clients /\ inbox'[s] = inbox[s]
      BY <1>1, <1>10 DEF Send, TypeOK
    <2> QED BY <1>3, <2>1
  <1>11. ASSUME NEW c \in Socket, SendHeartbeat(c)
         PROVE  s \in DOMAIN clients /\ Within(Unread(s)', T \cup asked'[s])
    <2>1. CASE s = c
      <3>1. /\ s \in DOMAIN clients /\ Unread(s) \in Seq(Piece) /\ Unread(s)' \in Seq(Piece)
            /\ Extends(Unread(s), Unread(s)') /\ Told(Unread(s)', Len(Unread(s)')) = {}
        BY <1>1, <1>11, <2>1, HeartbeatTold
      <3> QED BY <3>1, WithinOn
    <2> QED BY <1>10, <1>11, <2>1 DEF SendHeartbeat
  <1>12. ASSUME NEW c \in Socket, NEW r \in Request, SendRequest(c, r)
         PROVE  s \in DOMAIN clients /\ Within(Unread(s)', T \cup asked'[s])
    <2>1. CASE s = c
      <3>1. /\ s \in DOMAIN clients /\ Unread(s) \in Seq(Piece) /\ Unread(s)' \in Seq(Piece)
            /\ Extends(Unread(s), Unread(s)')
            /\ Told(Unread(s)', Len(Unread(s)')) = {x \in {r} : AtLineStart(s)}
        BY <1>1, <1>12, <2>1, RequestTold
      <3>2. AtLineStart(s) /\ r.type = "Register" => r.tag \in asked'[s]
        BY <1>1, <1>12, <2>1 DEF SendRequest, Wish, TypeOK
      <3>3. \A x \in Told(Unread(s)', Len(Unread(s)')) : x.type = "Register" => x.tag \in T \cup asked'[s]
        BY <3>1, <3>2
      <3> QED BY <3>1, <3>3, WithinOn
    <2> QED BY <1>10, <1>12, <2>1 DEF SendRequest
  <1> QED BY <1>4, <1>5, <1>6, <1>7, <1>8, <1>9, <1>11, <1>12, Steps DEF Bind, ListenOn, SetRunning,
             EnterLoop, SelectError, SelectReady, SelectTimeout, PassDone, AcceptFails,
             HandleRegister, HandleUnregister, HandlePull, HandleOther, HandleBadShape, LinesDone,
             RemoveUnsubscribe, StopFlag, StopSockets, StopServer, Connect, SweepClose, RecvEnd,
             RecvTimedOut, Visit, EndConnection

\* Whoever is being subscribed to a topic has asked for it.
LEMMA BecomesAsked ==
    ASSUME IInv, EverOK, NEW s \in Socket, NEW t, Becomes(s, t)
    PROVE  t \in ever[s] /\ s \in DOMAIN clients
  <1>1. /\ TypeOK /\ s \in DOMAIN clients /\ s = cur /\ HasLine(clients[s].buffer)
        /\ \E r \in Request1 : r.type = "Register" /\ r.tag = t
    BY DEF Becomes, Adding, IInv, ThreadOK
  <1>2. clients[s].buffer \in Seq(Piece) /\ inbox[s] \in Seq(Piece) /\ Unread(s) \in Seq(Piece)
    BY <1>1, UnreadType
  <1>3. HasLine(Unread(s)) /\ FirstLine(Unread(s)) = FirstLine(clients[s].buffer)
    <2>1. BufferHasTheLine(Piece)
      BY LineOfStream
    <2> QED BY <1>1, <1>2, <2>1, Zenon DEF BufferHasTheLine, Unread
  <1>4. Told(Unread(s), LineEnd(Unread(s))) = Request1
    BY <1>1, <1>2, <1>3, FirstLineTold DEF Request1
  <1>5. LineEnd(Unread(s)) \in 1..Len(Unread(s))
    BY <1>2, <1>3, LineEndFacts
  <1> QED BY <1>1, <1>4, <1>5 DEF EverOK, Within

-----------------------------------------------------------------------------
(* A step of the manager's side *)

LEMMA ManagerStep == BInv /\ ~crashed /\ ManagerSide => BInv'
  <1> SUFFICES ASSUME BInv, ~crashed, ManagerSide PROVE BInv'
    OBVIOUS
  <1> USE DEF BInv
  <1>1. Next
    BY DEF ManagerSide, Next
  <1>2. IInv'
    BY <1>1, InvStep
  <1>3. stopPc' = "up"
    BY DEF ManagerSide, Manager, World, Start, Select, HandleLine, Remove, ClientStep, Bind,
       ListenOn, SetRunning, EnterLoop, SelectError, SelectReady, SelectTimeout, PassDone,
       AcceptFails, SweepErase, HandleRegister, HandleUnregister, HandlePull, HandleOther,
       HandleBadShape, TakeLine, LinesDone, RemoveUnsubscribe, RemoveClose, Connect, Accept,
       SweepClose, RecvData, RecvEnd, RecvTimedOut, SendHeartbeat, Age, SendRequest, Send,
       EndConnection, life
  <1>4. UNCHANGED <<topicRoundRobinIndex, consumerList, dpc, msg>>
    BY DEF ManagerSide, dispatcherOnly
  <1>5. SendOK'
    BY <1>4 DEF SendOK
  <1>6. \A s \in Socket : /\ NewHandle(s) => ever'[s] = {}
                          /\ ~NewHandle(s) => ever'[s] = ever[s] \cup asked'[s]
    BY DEF ManagerSide
  <1>7. EverOK'
    <2>1. ASSUME NEW s \in Socket, NEW t \in Topics(s)' PROVE t \in ever'[s]
      <3>1. ~NewHandle(s)
        BY <1>1, <2>1, NewConnection
      <3>2. t \in Topics(s) \/ Becomes(s, t)
        BY <1>1, <2>1, OnlyRequestsSubscribe
      <3>3. t \in ever[s]
        BY <3>2, BecomesAsked DEF EverOK
      <3> QED BY <1>6, <3>1, <3>3
    <2>2. ASSUME NEW s \in DOMAIN clients' PROVE Within(Unread(s)', ever'[s])
      <3>1. s \in Socket
        BY <1>2 DEF IInv, TypeOK
      <3>2. CASE NewHandle(s)
        <4>1. Unread(s)' = <<>>
          BY <1>1, <3>1, <3>2, NewConnection
        <4> QED BY <4>1 DEF Within
      <3>3. CASE ~NewHandle(s)
        <4>1. s \in DOMAIN clients => Within(Unread(s), ever[s])
          BY DEF EverOK
        <4> HIDE DEF BInv
        <4>2. Within(Unread(s)', ever[s] \cup asked'[s])
          BY <1>1, <3>3, <4>1, StreamWithin DEF BInv
        <4> QED BY <1>6, <3>1, <3>3, <4>2
      <3> QED BY <3>2, <3>3
    <2> QED BY <2>1, <2>2 DEF EverOK
  <1>8. SameOK'
    <2>1. same' = {s \in same : ~NewHandle(s)}
      BY DEF ManagerSide
    <2> QED BY <1>4, <1>6, <2>1 DEF SameOK
  <1>9. LateOK'
    <2> SUFFICES ASSUME NEW s \in Socket, NEW t \in Topic
                 PROVE  /\ late'[s][t] \in {0, 1}
                        /\ late'[s][t] = 1 =>
                              /\ t \notin Topics(s)'
                              /\ LookedUp(s, t)' /\ Reaches(s)' => Becomes(s, t)'
      BY DEF LateOK
    <2>1. late'[s][t] = IF NewHandle(s) \/ t \in NewTopics(s) THEN 0 ELSE late[s][t]
      BY DEF ManagerSide
    <2>2. late'[s][t] \in {0, 1}
      BY <2>1 DEF LateOK
    <2>3. ASSUME late'[s][t] = 1
          PROVE  t \notin Topics(s)' /\ (LookedUp(s, t)' /\ Reaches(s)' => Becomes(s, t)')
      <3>1. late[s][t] = 1 /\ ~NewHandle(s) /\ t \notin NewTopics(s)
        BY <2>1, <2>3
      <3>2. t \notin Topics(s) /\ (LookedUp(s, t) /\ Reaches(s) => Becomes(s, t))
        BY <3>1 DEF LateOK
      <3>3. t \notin Topics(s)'
        BY <3>1, <3>2 DEF NewTopics, Topics, getTopicsByConsumer
      <3>4. ASSUME LookedUp(s, t)', Reaches(s)' PROVE Becomes(s, t)'
        <4>1. LookedUp(s, t)
          BY <1>4, <3>4 DEF LookedUp
        <4>2. Reaches(s)
          BY <1>1, <3>1, <3>4, ReachedAgain
        <4> QED BY <1>1, <3>2, <3>3, <4>1, <4>2, SubscriptionCompletes
      <3> QED BY <3>3, <3>4
    <2> QED BY <2>2, <2>3
  <1> QED BY <1>2, <1>3, <1>5, <1>7, <1>8, <1>9

-----------------------------------------------------------------------------
(* A step of the dispatcher's side *)

\* The sockets that a lookup of t finds, raced with or not: each is a subscriber
\* of t, or about to be one.
LEMMA LookupFinds ==
    ASSUME IInv, NEW t \in Topic, NEW S \in Seen(t), NEW l \in Orders(S)
    PROVE  /\ S \subseteq Socket /\ l \in Seq(Socket) /\ Elements(l) \subseteq S
           /\ \A s \in S : t \in Topics(s) \/ Becomes(s, t)
  <1>1. TypeOK /\ ThreadOK /\ IndexInverse
    BY DEF IInv, TablesOK
  <1>2. \A s \in S : s \in Subscribers(t) \/ (s = cur /\ Adding(t))
    BY DEF Seen, Subscribers
  <1>3. Subscribers(t) \subseteq Socket
    BY <1>1 DEF Subscribers, getConsumersByTopic, Entry, TypeOK
  <1>4. Adding(t) => cur \in Socket
    BY <1>1 DEF Adding, ThreadOK, TypeOK
  <1>5. S \subseteq Socket
    BY <1>2, <1>3, <1>4
  <1>6. \A s \in S : t \in Topics(s) \/ Becomes(s, t)
    BY <1>1, <1>2, <1>5 DEF Becomes, IndexInverse, Topics, Subscribers
  <1>7. Cardinality(S) \in Nat
    BY <1>5, SocketAssumption, FS_Subset, FS_CardinalityType
  <1>8. l \in [1..Cardinality(S) -> S]
    BY DEF Orders
  <1>9. l \in Seq(Socket)
    BY <1>5, <1>7, <1>8
  <1>10. Elements(l) \subseteq S
    BY <1>8 DEF Elements
  <1> QED BY <1>5, <1>6, <1>9, <1>10

\* What selectConsumer picks is one of the consumers looked up.
LEMMA OnePicked ==
    ASSUME SendOK, dpc = "send"
    PROVE  /\ D!SelectedConsumer \in Elements(consumerList) /\ D!SelectedConsumer \in Socket
           /\ (D!Index + 1) % Len(consumerList) \in Nat
  <1>1. Len(consumerList) \in Nat \ {0} /\ consumerList \in Seq(Socket)
    BY DEF SendOK
  <1>2. topicRoundRobinIndex[TagOf[msg]] \in Nat
    BY DEF SendOK
  <1>3. D!Index \in Nat /\ D!Index + 1 \in 1..Len(consumerList)
    BY <1>1, <1>2 DEF D!Index
  <1>4. DOMAIN consumerList = 1..Len(consumerList)
    BY <1>1
  <1> QED BY <1>1, <1>3, <1>4 DEF D!SelectedConsumer, Elements

LEMMA DispatcherStep == BInv /\ DispatcherSide => BInv'
  <1> SUFFICES ASSUME BInv, DispatcherSide PROVE BInv'
    OBVIOUS
  <1> USE DEF BInv
  <1>1. UNCHANGED <<thread, tables, network, sockets, taskQueue, isRunning, server, stopPc>>
    BY DEF DispatcherSide, managerOnly
  <1>2. crashed' \in BOOLEAN
    BY DEF DispatcherSide, D!Alone, D!Continue, D!Begin, D!Idle, D!Poll, D!TagUntyped, D!LacksTag,
       D!Requeue, D!Start, D!Enqueue, D!LookupFaults, BLookup, D!Lookup, BSend, D!Send,
       IInv, TypeOK
  <1>3. IInv' /\ stopPc' = "up"
    BY <1>1, <1>2, Undisturbed
  <1>4. UNCHANGED <<pc, cur, clients, open, peer, inbox, consumerTopics>>
    BY <1>1 DEF thread, tables, network, sockets
  <1>5. /\ \A s : Topics(s)' = Topics(s) /\ Unread(s)' = Unread(s) /\ (Reaches(s)' <=> Reaches(s))
        /\ \A s, t : Becomes(s, t)' <=> Becomes(s, t)
    BY <1>4 DEF Topics, getTopicsByConsumer, Unread, Reaches, Becomes, Adding, Request1
  <1>6. ever' = ever
    BY DEF DispatcherSide, ghosts, BLookup, BSend
  <1>7. EverOK'
    BY <1>4, <1>5, <1>6 DEF EverOK
  <1>8. CASE /\ UNCHANGED ghosts
             /\ D!Alone \/ D!Start \/ D!LookupFaults \/ \E m \in Message : D!Enqueue(m)
    <2>1. UNCHANGED <<same, late>>
      BY <1>8 DEF ghosts
    <2>2. /\ UNCHANGED topicRoundRobinIndex /\ consumerList' \in {consumerList, <<>>}
          /\ dpc' # "send" \/ UNCHANGED <<dpc, msg, consumerList>>
      <3>1. CASE D!LookupFaults \/ \E m \in Message : D!Enqueue(m)
        BY <3>1 DEF D!LookupFaults, D!Enqueue, D!dispatcher
      <3>2. CASE D!Alone \/ D!Start
        BY <3>2 DEF D!Alone, D!Continue, D!Begin, D!Idle, D!Poll, D!TagUntyped, D!LacksTag,
           D!Requeue, D!Return, D!Turn, D!Start
      <3> QED BY <1>8, <3>1, <3>2
    <2>3. SendOK'
      <3>1. consumerList \in Seq(Socket) /\ <<>> \in Seq(Socket)
        BY DEF SendOK
      <3>2. consumerList' \in Seq(Socket)
        BY <2>2, <3>1
      <3> QED BY <2>2, <3>2 DEF SendOK
    <2>4. SameOK'
      BY <1>6, <2>1, <2>2 DEF SameOK
    <2>5. \A s, t : LookedUp(s, t)' => LookedUp(s, t)
      BY <2>2 DEF LookedUp
    <2>6. LateOK'
      BY <1>5, <2>1, <2>5 DEF LateOK
    <2> QED BY <1>3, <1>7, <2>3, <2>4, <2>6
  <1>9. CASE dpc = "lookup" /\ TagOf[msg] \in Topic /\ BLookup
    <2>1. PICK S \in Seen(TagOf[msg]) : \E l \in Orders(S) : D!Lookup(l) /\ same' = S /\ late' = late
      BY <1>9 DEF BLookup
    <2>2. PICK l \in Orders(S) : D!Lookup(l)
      BY <2>1
    <2>3. /\ S \subseteq Socket /\ l \in Seq(Socket) /\ Elements(l) \subseteq S
          /\ \A s \in S : TagOf[msg] \in Topics(s) \/ Becomes(s, TagOf[msg])
      BY <1>9, <2>1, <2>2, LookupFinds
    <2>4. /\ UNCHANGED <<msg, topicRoundRobinIndex>> /\ consumerList' = l
          /\ dpc' = "send" => l # <<>>
      BY <2>2 DEF D!Lookup
    <2>5. SendOK'
      BY <1>9, <2>3, <2>4 DEF SendOK
    <2>6. SameOK'
      <3>1. ASSUME NEW s \in S PROVE TagOf[msg] \in ever[s]
        BY <2>3, <3>1, BecomesAsked DEF EverOK
      <3> QED BY <1>6, <2>1, <2>3, <2>4, <3>1 DEF SameOK
    <2>7. LateOK'
      <3>1. ASSUME NEW s, NEW t, t \notin Topics(s), LookedUp(s, t)' PROVE Becomes(s, t)'
        BY <1>5, <2>3, <2>4, <3>1 DEF LookedUp
      <3> QED BY <1>5, <2>1, <3>1 DEF LateOK
    <2> QED BY <1>3, <1>7, <2>5, <2>6, <2>7
  <1>10. CASE BSend
    <2> DEFINE c == D!SelectedConsumer
    <2>1. dpc = "send" /\ TagOf[msg] \in Topic /\ c \in Elements(consumerList)
      BY <1>10, OnePicked DEF BSend, D!Send, SendOK
    <2>2. dpc' # "send" /\ same' = same /\ consumerList' = <<>>
      BY <1>10 DEF BSend, D!Send, D!Return, D!Turn
    <2>3. SendOK'
      <3>1. topicRoundRobinIndex' =
              [topicRoundRobinIndex EXCEPT ![TagOf[msg]] = (D!Index + 1) % Len(consumerList)]
        BY <1>10 DEF BSend, D!Send
      <3>2. topicRoundRobinIndex' \in [Topic -> Nat]
        BY <2>1, <3>1, OnePicked DEF SendOK
      <3> QED BY <2>2, <3>2 DEF SendOK
    <2>4. SameOK'
      BY <2>2 DEF SameOK
    <2>5. LateOK'
      <3> SUFFICES ASSUME NEW s \in Socket, NEW t \in Topic
                   PROVE  late'[s][t] \in {0, 1} /\ (late'[s][t] = 1 => t \notin Topics(s)')
        BY <2>2 DEF LateOK, LookedUp
      <3>1. late'[s][t] = IF Late(s, t) THEN late[s][t] + 1 ELSE late[s][t]
        BY <1>10 DEF BSend
      <3>2. /\ late[s][t] \in {0, 1}
            /\ late[s][t] = 1 => /\ t \notin Topics(s)
                                 /\ LookedUp(s, t) /\ Reaches(s) => Becomes(s, t)
        BY DEF LateOK
      <3>3. Late(s, t) => /\ LookedUp(s, t) /\ Reaches(s) /\ ~Becomes(s, t)
                          /\ t \notin Topics(s)
        BY <2>1 DEF Late, LookedUp, Becomes, isSubscribed, Topics
      <3> HIDE DEF BInv
      <3> QED BY <1>5, <3>1, <3>2, <3>3
    <2> QED BY <1>3, <1>7, <2>3, <2>4, <2>5
  <1> QED BY <1>8, <1>9, <1>10 DEF DispatcherSide

-----------------------------------------------------------------------------
(* Their invariant holds; the theorems about the two *)

LEMMA BInvInit == BInit => BInv
  <1> SUFFICES ASSUME BInit PROVE BInv
    OBVIOUS
  <1>1. IInv
    BY InvInit DEF BInit
  <1>2. stopPc = "up" /\ clients = EmptyMap /\ consumerTopics = EmptyMap
    BY DEF BInit, Init
  <1>3. SendOK /\ SameOK
    BY DEF BInit, D!Init, SendOK, SameOK
  <1>4. \A s : Topics(s) = {}
    BY <1>2 DEF Topics, getTopicsByConsumer, Entry, EmptyMap
  <1>5. EverOK
    BY <1>2, <1>4 DEF EverOK, EmptyMap
  <1>6. LateOK
    BY DEF BInit, LateOK
  <1> QED BY <1>1, <1>2, <1>3, <1>5, <1>6 DEF BInv

LEMMA BInvStep == BInv /\ [BNext]_bvars => BInv'
  <1> SUFFICES ASSUME BInv, [BNext]_bvars PROVE BInv'
    OBVIOUS
  <1>1. CASE BNext
    BY <1>1, ManagerStep, DispatcherStep DEF BNext
  <1>2. CASE UNCHANGED bvars
    <2>1. /\ UNCHANGED <<thread, tables, network, sockets, taskQueue, isRunning, server, stopPc>>
          /\ UNCHANGED <<crashed, ever, same, late>>
          /\ UNCHANGED <<topicRoundRobinIndex, consumerList, dpc, msg>>
      BY <1>2 DEF bvars, managerOnly, dispatcherOnly, ghosts
    <2>2. IInv'
      BY <2>1, Undisturbed DEF BInv, IInv, TypeOK
    <2>3. UNCHANGED <<pc, cur, clients, open, peer, inbox, consumerTopics>>
      BY <2>1 DEF thread, tables, network, sockets
    <2>4. /\ \A s : Topics(s)' = Topics(s) /\ Unread(s)' = Unread(s) /\ (Reaches(s)' <=> Reaches(s))
          /\ \A s, t : Becomes(s, t)' <=> Becomes(s, t)
      BY <2>3 DEF Topics, getTopicsByConsumer, Unread, Reaches, Becomes, Adding, Request1
    <2>5. SendOK' /\ SameOK'
      BY <2>1 DEF BInv, SendOK, SameOK
    <2>6. EverOK'
      BY <2>1, <2>3, <2>4 DEF BInv, EverOK
    <2>7. LateOK'
      BY <2>1, <2>4 DEF BInv, LateOK, LookedUp
    <2> QED BY <2>1, <2>2, <2>5, <2>6, <2>7 DEF BInv
  <1> QED BY <1>1, <1>2

LEMMA BInductive == BSpec => []BInv
  BY BInvInit, BInvStep, PTL DEF BSpec

\* However the lookups of the dispatcher race with the manager's updates of the
\* tables, a consumer that has left a topic gets one more message of it at most
\* before it is subscribed to it again.
THEOREM OneLateAtMost == BSpec => []AtMostOneLate
  <1>1. BInv => AtMostOneLate
    BY DEF BInv, LateOK, AtMostOneLate
  <1> QED BY <1>1, BInductive, PTL

\* A message never reaches a connection that has not asked for its topic because
\* an earlier connection on the same handle had: what subscribers the dispatcher
\* finds, they have asked themselves.
THEOREM NoneMistaken == BSpec => NoStranger
  <1>1. BInv => [SendsNow => LET c == D!SelectedConsumer IN
                             Reaches(c) /\ c \in same => TagOf[msg] \in ever[c]]_bvars
    BY DEF BInv, SameOK, SendsNow
  <1> QED BY <1>1, BInductive, PTL DEF NoStranger
=============================================================================
