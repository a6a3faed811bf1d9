-------------------------- MODULE ConsumerManager --------------------------
(***************************************************************************)
(* ConsumerManager.cpp: the thread that accepts consumers, reads their     *)
(* requests and keeps who subscribes to what, with main's stop() beside    *)
(* it.  One action is one call of the code that another thread or the      *)
(* network can observe: bind, listen, select, accept, recv, one line of    *)
(* input, the update of the subscription tables, closesocket.              *)
(*                                                                         *)
(* External: Winsock and the consumers at the other end (the last section  *)
(* of actions).  A request arrives whole or in two pieces (Framing); a     *)
(* heartbeat (Consumer.cpp:159-162) is a head without a newline.           *)
(*                                                                         *)
(* maxSocket is not modelled: it only feeds select's first argument, which *)
(* Winsock ignores.                                                        *)
(***************************************************************************)
EXTENDS Framing, TcpServer, FiniteSets

CONSTANTS Socket,      \* the handles the system gives to accepted connections
          Listen,      \* the handle of the listening socket
          Topic, NoTag,
          Menu,        \* bound of the model: what the consumer on each handle may send
          Ending,      \* bound of the model: what may end the connection on each handle,
                       \* among "fin", "reset", "timedout" (peer, network) and "idle"
          MayStop,     \* bound of the model: whether main ever calls stop()
          FdSetSize,   \* FD_SETSIZE, 64 in Winsock
          MaxStream,   \* bound of the model: unprocessed pieces of each connection
          MaxBacklog,  \* bound of the model: connections waiting for accept
          MaxPull      \* bound of the model: clients with a Pull sent, and Pulls queued

ASSUME SocketAssumption ==
    /\ IsFiniteSet(Socket) /\ Listen \notin Socket
    /\ FdSetSize \in Nat \ {0}
    /\ Ending \in [Socket -> SUBSET {"fin", "reset", "timedout", "idle"}]

VARIABLES
  pc,              \* the manager thread: where start()/handleSelect() is
  cur,             \* the socket in processClientData, removeClient or the sweep
  pending,         \* ready (or idle) clients the current pass has yet to visit
  isRunning, masterSet, clients, consumerTopics, topicConsumers, taskQueue,
  stopPc,          \* main: where stop() is
  crashed,         \* undefined behaviour has ended the process
  open,            \* the handles that are allocated
  inbox,           \* received by the system, not yet by recv
  peer,            \* the other end: "up", or how it ended
  backlog,         \* connections not yet accepted
  asked            \* history: what the peer has asked to be subscribed to

thread == <<pc, cur, pending>>
tables == <<consumerTopics, topicConsumers>>
network == <<inbox, peer, backlog, asked>>
life == <<isRunning, server, stopPc, crashed>>
sockets == <<masterSet, clients, open>>
vars == <<thread, tables, network, life, sockets, taskQueue>>

-----------------------------------------------------------------------------
(* Requests *)

Heartbeat == [type |-> "Heartbeat", tag |-> NoTag]
Request == [type : {"Register", "Unregister"}, tag : Topic]
             \cup [type : {"Pull", "Other", "BadShape"}, tag : {NoTag}]
Piece == [text : Request \cup {Heartbeat}, part : Part]

\* json::parse: the request a line spells, or none when the line is anything
\* but exactly one request.
Parsed(line) == {r \in Request : Spells(line, r)}

-----------------------------------------------------------------------------
(* The two tables: unordered_maps with an entry only where one was written *)

EmptyMap == [k \in {} |-> {}]
Entry(f, k) == IF k \in DOMAIN f THEN f[k] ELSE {}
getTopicsByConsumer(s) == Entry(consumerTopics, s)
getConsumersByTopic(t) == Entry(topicConsumers, t)
isSubscribed(s, t) == t \in getTopicsByConsumer(s)

Insert(f, k, v) == [x \in DOMAIN f \cup {k} |-> IF x = k THEN Entry(f, k) \cup {v} ELSE f[x]]

\* Mutant: no removal of an empty entry
Erase_KeepsEmpty(f, k, v) == [x \in DOMAIN f |-> IF x = k THEN f[x] \ {v} ELSE f[x]]

\* find, erase the value, and erase the entry when nothing is left in it
Erase(f, k, v) == [x \in {y \in DOMAIN f : y # k \/ f[y] \ {v} # {}} |->
                      IF x = k THEN f[x] \ {v} ELSE f[x]]

\* Mutant: the second table with its key and value swapped
subscribe_Swapped(s, t) == /\ consumerTopics' = Insert(consumerTopics, s, t)
                           /\ topicConsumers' = Insert(topicConsumers, s, t)

subscribe(s, t) == /\ consumerTopics' = Insert(consumerTopics, s, t)
                   /\ topicConsumers' = Insert(topicConsumers, t, s)

\* Mutant: the reverse index is forgotten
unsubscribe_Half(s, t) == /\ consumerTopics' = Erase(consumerTopics, s, t)
                          /\ UNCHANGED topicConsumers

unsubscribe(s, t) == /\ consumerTopics' = Erase(consumerTopics, s, t)
                     /\ topicConsumers' = Erase(topicConsumers, t, s)

\* for (topic : getTopicsByConsumer(s)) unsubscribe(s, topic)
unsubscribeAll(s) ==
    /\ consumerTopics' = [x \in DOMAIN consumerTopics \ {s} |-> consumerTopics[x]]
    /\ topicConsumers' =
         [t \in {u \in DOMAIN topicConsumers :
                    u \notin getTopicsByConsumer(s) \/ topicConsumers[u] \ {s} # {}} |->
            IF t \in getTopicsByConsumer(s) THEN topicConsumers[t] \ {s} ELSE topicConsumers[t]]

\* Mutants: one place too few; nothing cleared
FD_SET_OneLess(s, set) == IF Cardinality(set) + 1 < FdSetSize THEN set \cup {s} ELSE set
FD_CLR_Nothing(s, set) == set

\* FD_SET of Winsock: silently nothing when the set is full
FD_SET(s, set) == IF Cardinality(set) < FdSetSize THEN set \cup {s} ELSE set
FD_CLR(s, set) == set \ {s}
closesocket(s) == open' = open \ {s}
eraseClient(s) == clients' = [c \in DOMAIN clients \ {s} |-> clients[c]]

-----------------------------------------------------------------------------
(* start() *)

Init == /\ pc = "bind" /\ cur = Listen /\ pending = {}
        /\ isRunning = FALSE
        /\ masterSet = {}
        /\ clients = EmptyMap /\ consumerTopics = EmptyMap /\ topicConsumers = EmptyMap
        /\ taskQueue = <<>>
        /\ Created /\ stopPc = "up" /\ crashed = FALSE
        /\ open = {}
        /\ inbox = [s \in Socket |-> <<>>]
        /\ peer = [s \in Socket |-> "up"]
        /\ backlog = 0
        /\ asked = [s \in Socket |-> {}]

Bind == /\ pc = "bind"
        /\ \/ bind /\ pc' = "listen"
           \/ refused /\ pc' = "exit"
        /\ UNCHANGED <<tables, network, sockets, cur, pending, isRunning, taskQueue, stopPc,
                       crashed>>

ListenOn == /\ pc = "listen"
            /\ \/ listen /\ pc' = "run"
               \/ refused /\ pc' = "exit"
            /\ UNCHANGED <<tables, network, sockets, cur, pending, isRunning, taskQueue, stopPc,
                           crashed>>

SetRunning == /\ pc = "run"
              /\ isRunning' = TRUE
              /\ masterSet' = {Listen}
              /\ pc' = "loop"
              /\ UNCHANGED <<tables, network, cur, pending, clients, taskQueue, server, stopPc,
                             crashed, open>>

\* Where the test of while (isRunning) leads.  main may stop the manager between
\* the test and the select, or while the select waits.
Turn == IF isRunning THEN "select" ELSE "exit"

EnterLoop == /\ pc = "loop"
             /\ pc' = Turn
             /\ UNCHANGED <<tables, network, life, sockets, cur, pending, taskQueue>>

-----------------------------------------------------------------------------
(* handleSelect(): select, time-out sweep, accept, visit of the ready clients *)

Invalid == {s \in masterSet \ {Listen} : s \notin open}
             \cup (IF Accepting THEN {} ELSE {Listen})
Readable == {s \in masterSet \ {Listen} : inbox[s] # <<>> \/ peer[s] # "up"}
              \cup (IF backlog > 0 /\ Listen \in masterSet THEN {Listen} ELSE {})

\* select returns SOCKET_ERROR at once: nothing is read and the loop turns.
SelectError == /\ pc = "select"
               /\ Invalid # {}
               /\ pc' = Turn
               /\ UNCHANGED <<tables, network, life, sockets, cur, pending, taskQueue>>

\* Mutant: only one ready client is visited in a pass
SelectReady_First == /\ pc = "select"
                     /\ Invalid = {} /\ Readable # {}
                     /\ \E s \in Readable : pending' = {s} \ {Listen}
                     /\ pc' = IF Listen \in Readable THEN "accept" ELSE "scan"
                     /\ UNCHANGED <<tables, network, life, sockets, cur, taskQueue>>

SelectReady == /\ pc = "select"
               /\ Invalid = {} /\ Readable # {}
               /\ pending' = Readable \ {Listen}
               /\ pc' = IF Listen \in Readable THEN "accept" ELSE "scan"
               /\ UNCHANGED <<tables, network, life, sockets, cur, taskQueue>>

\* Mutant: every client is swept
SelectTimeout_All == /\ pc = "select"
                     /\ Invalid = {} /\ Readable = {}
                     /\ pending' = DOMAIN clients
                     /\ pc' = "sweep"
                     /\ UNCHANGED <<tables, network, life, sockets, cur, taskQueue>>

\* A second without any readable socket: the only occasion of the idle check.
SelectTimeout == /\ pc = "select"
                 /\ Invalid = {} /\ Readable = {}
                 /\ pending' = {s \in DOMAIN clients : clients[s].stale}
                 /\ pc' = "sweep"
                 /\ UNCHANGED <<tables, network, life, sockets, cur, taskQueue>>

\* closesocket and FD_CLR come first here, the tables after: between the two
\* the dispatcher still finds the closed socket among the subscribers.
SweepClose(s) == /\ pc = "sweep" /\ s \in pending
                 /\ closesocket(s)
                 /\ masterSet' = FD_CLR(s, masterSet)
                 /\ pending' = pending \ {s}
                 /\ cur' = s /\ pc' = "evict"
                 /\ UNCHANGED <<tables, network, life, clients, taskQueue>>

\* Mutant: the sweep forgets the subscriptions
SweepErase_Tables == /\ pc = "evict"
                     /\ eraseClient(cur)
                     /\ pc' = "sweep"
                     /\ UNCHANGED <<tables, network, life, cur, pending, masterSet, taskQueue,
                                    open>>

SweepErase == /\ pc = "evict"
              /\ unsubscribeAll(cur)
              /\ eraseClient(cur)
              /\ pc' = "sweep"
              /\ UNCHANGED <<network, life, cur, pending, masterSet, taskQueue, open>>

Accept(s) == /\ pc = "accept" /\ Accepting /\ backlog > 0
             /\ s \notin open
             /\ open' = open \cup {s}
             /\ masterSet' = FD_SET(s, masterSet)
             /\ clients' = [c \in DOMAIN clients \cup {s} |->
                               IF c = s THEN [buffer |-> <<>>, stale |-> FALSE] ELSE clients[c]]
             /\ pc' = "scan"
             /\ backlog' = backlog - 1
             /\ inbox' = [inbox EXCEPT ![s] = <<>>]
             /\ peer' = [peer EXCEPT ![s] = "up"]
             /\ asked' = [asked EXCEPT ![s] = {}]
             /\ UNCHANGED <<tables, life, cur, pending, taskQueue>>

\* accept fails: the peer has already gone, or stop() has closed the socket.
AcceptFails == /\ pc = "accept"
               /\ \/ Accepting /\ backlog' = backlog - 1
                  \/ ~Accepting /\ UNCHANGED backlog
               /\ pc' = "scan"
               /\ UNCHANGED <<tables, life, sockets, cur, pending, inbox, peer, asked, taskQueue>>

PassDone == /\ pc \in {"scan", "sweep"} /\ pending = {}
            /\ pc' = Turn /\ cur' = Listen
            /\ UNCHANGED <<tables, network, life, sockets, pending, taskQueue>>

-----------------------------------------------------------------------------
(* processClientData(): recv, then every complete line in the buffer *)

Visit(s) == pc = "scan" /\ s \in pending /\ pending' = pending \ {s} /\ cur' = s

RecvData(s) == /\ Visit(s)
               /\ s \in open /\ peer[s] # "reset" /\ inbox[s] # <<>>
               /\ \E n \in 1..Len(inbox[s]) :
                     /\ clients' = [clients EXCEPT
                            ![s] = [buffer |-> @.buffer \o SubSeq(inbox[s], 1, n), stale |-> FALSE]]
                     /\ inbox' = [inbox EXCEPT ![s] = SubSeq(@, n + 1, Len(@))]
               /\ pc' = "lines"
               /\ UNCHANGED <<tables, life, peer, backlog, asked, masterSet, taskQueue, open>>

\* Mutant: an orderly end (recv = 0) is not handled
RecvEnd_Ignored(s) == /\ Visit(s)
                      /\ \/ s \notin open
                         \/ peer[s] \in {"reset", "fin", "timedout"}
                      /\ pc' = IF peer[s] = "fin" THEN "scan" ELSE "unsub"
                      /\ UNCHANGED <<tables, network, life, sockets, taskQueue>>

\* recv returns 0, or fails with anything but WSAETIMEDOUT: removeClient.  (A
\* connection that timed out may fail with another code on a later recv.)
RecvEnd(s) == /\ Visit(s)
              /\ \/ s \notin open
                 \/ peer[s] = "reset"
                 \/ peer[s] \in {"fin", "timedout"} /\ inbox[s] = <<>>
              /\ pc' = "unsub"
              /\ UNCHANGED <<tables, network, life, sockets, taskQueue>>

\* recv fails with WSAETIMEDOUT, a connection the network lost: ignored
RecvTimedOut(s) == /\ Visit(s)
                   /\ s \in open /\ peer[s] = "timedout" /\ inbox[s] = <<>>
                   /\ pc' = "scan"
                   /\ UNCHANGED <<tables, network, life, sockets, taskQueue>>

LinesDone == /\ pc = "lines" /\ ~HasLine(clients[cur].buffer)
             /\ pc' = "scan"
             /\ UNCHANGED <<tables, network, life, sockets, cur, pending, taskQueue>>

TakeLine == /\ pc = "lines" /\ HasLine(clients[cur].buffer)
            /\ clients' = [clients EXCEPT ![cur].buffer = AfterLine(@)]
            /\ UNCHANGED <<network, life, cur, pending, masterSet, open>>

Request1 == Parsed(FirstLine(clients[cur].buffer))

HandleRegister == /\ TakeLine
                  /\ \E r \in Request1 : r.type = "Register" /\ subscribe(cur, r.tag)
                  /\ UNCHANGED <<pc, taskQueue>>

HandleUnregister == /\ TakeLine
                    /\ \E r \in Request1 : r.type = "Unregister" /\ unsubscribe(cur, r.tag)
                    /\ UNCHANGED <<pc, taskQueue>>

HandlePull == /\ TakeLine
              /\ \E r \in Request1 : r.type = "Pull" /\ taskQueue' = Append(taskQueue, r)
              /\ UNCHANGED <<tables, pc>>

\* Another type, or a line json::parse rejects: logged
HandleOther == /\ TakeLine
               /\ Request1 = {} \/ \E r \in Request1 : r.type = "Other"
               /\ UNCHANGED <<tables, pc, taskQueue>>

\* JSON, but not of the expected shape: json::type_error is no json::parse_error,
\* so it leaves the handler, handleSelect and start().
HandleBadShape == /\ TakeLine
                  /\ \E r \in Request1 : r.type = "BadShape"
                  /\ pc' = "dead"
                  /\ UNCHANGED <<tables, taskQueue>>

-----------------------------------------------------------------------------
(* removeClient() *)

\* Mutant: removeClient forgets the subscriptions
RemoveUnsubscribe_Forgotten == /\ pc = "unsub" /\ pc' = "close"
                               /\ UNCHANGED <<tables, network, life, sockets, cur, pending, taskQueue>>

RemoveUnsubscribe == /\ pc = "unsub"
                     /\ unsubscribeAll(cur)
                     /\ pc' = "close"
                     /\ UNCHANGED <<network, life, sockets, cur, pending, taskQueue>>

\* handleSelect then increments its iterator to the erased element: undefined.
\* The stale node may still lead on, may read as the end, or fault.
RemoveClose == /\ pc = "close"
               /\ closesocket(cur)
               /\ masterSet' = FD_CLR(cur, masterSet)
               /\ eraseClient(cur)
               /\ pending' \in {pending, {}}
               /\ crashed' \in BOOLEAN
               /\ pc' = "scan"
               /\ UNCHANGED <<tables, network, cur, isRunning, taskQueue, server, stopPc>>

-----------------------------------------------------------------------------
(* stop(), on main's thread *)

StopFlag == /\ stopPc = "up" /\ MayStop
            /\ isRunning' = FALSE
            /\ stopPc' = "flagged"
            /\ UNCHANGED <<thread, tables, network, sockets, taskQueue, server, crashed>>

\* Iterates consumerTopics without a lock; if the manager thread changes the
\* table meanwhile the iteration may fault.
Mutating == \/ pc \in {"unsub", "evict"}
            \/ pc = "lines" /\ HasLine(clients[cur].buffer)
                            /\ \E r \in Request1 : r.type \in {"Register", "Unregister"}

StopSockets == /\ stopPc = "flagged"
               /\ open' = open \ DOMAIN consumerTopics
               /\ crashed' \in {FALSE, Mutating}
               /\ stopPc' = "closed"
               /\ UNCHANGED <<thread, tables, network, isRunning, masterSet, clients, taskQueue,
                              server>>

StopServer == /\ stopPc = "closed"
              /\ close
              /\ stopPc' = "done"
              /\ UNCHANGED <<thread, tables, network, sockets, isRunning, taskQueue, crashed>>

-----------------------------------------------------------------------------
(* External: consumers, the network and the clock *)

Unread(s) == clients[s].buffer \o inbox[s]
AtLineStart(s) == \/ Unread(s) = <<>>
                  \/ Unread(s)[Len(Unread(s))].part \in {"whole", "tail"}
Live(s) == s \in open \cap DOMAIN clients /\ peer[s] = "up"

Connect == /\ Accepting /\ backlog < MaxBacklog
           /\ Cardinality(open) + backlog < Cardinality(Socket)
           /\ backlog' = backlog + 1
           /\ UNCHANGED <<thread, tables, life, sockets, inbox, peer, asked, taskQueue>>

\* What the consumer may expect of a request: it counts if its line is its own.
Wish(s, r) == IF ~AtLineStart(s) THEN asked[s]
              ELSE CASE r.type = "Register" -> asked[s] \cup {r.tag}
                     [] r.type = "Unregister" -> asked[s] \ {r.tag}
                     [] OTHER -> asked[s]

Pulls == Len(taskQueue) + Cardinality({s \in DOMAIN clients : \E i \in DOMAIN Unread(s) :
                                                              Unread(s)[i].text.type = "Pull"})

Send(s, pieces) == /\ Live(s) /\ Len(Unread(s)) + Len(pieces) <= MaxStream[s]
                   /\ inbox' = [inbox EXCEPT ![s] = @ \o pieces]
                   /\ UNCHANGED <<thread, tables, life, sockets, peer, backlog, taskQueue>>

SendRequest(s, r) == /\ r \in Menu[s] /\ (r.type = "Pull" => Pulls < MaxPull)
                     /\ \/ Send(s, Whole(r))
                        \/ Send(s, Split(r))
                     /\ asked' = [asked EXCEPT ![s] = Wish(s, r)]

SendHeartbeat(s) == /\ Heartbeat \in Menu[s]
                    /\ Send(s, <<[text |-> Heartbeat, part |-> "head"]>>)
                    /\ UNCHANGED asked

EndConnection(s, how) == /\ Live(s)
                         /\ peer' = [peer EXCEPT ![s] = how]
                         /\ UNCHANGED <<thread, tables, life, sockets, inbox, backlog, asked,
                                        taskQueue>>

\* More than 300 seconds have passed since lastActivity.
Age(s) == /\ "idle" \in Ending[s] /\ s \in DOMAIN clients /\ ~clients[s].stale
          /\ clients' = [clients EXCEPT ![s].stale = TRUE]
          /\ UNCHANGED <<thread, tables, network, life, masterSet, taskQueue, open>>

-----------------------------------------------------------------------------
Start == Bind \/ ListenOn \/ SetRunning \/ EnterLoop
Select == SelectError \/ SelectReady \/ SelectTimeout \/ PassDone \/ AcceptFails \/ SweepErase
HandleLine == \/ HandleRegister \/ HandleUnregister \/ HandlePull \/ HandleOther
              \/ HandleBadShape \/ LinesDone
Remove == RemoveUnsubscribe \/ RemoveClose
ClientStep(s) == Accept(s) \/ SweepClose(s) \/ RecvData(s) \/ RecvEnd(s) \/ RecvTimedOut(s)
Manager == Start \/ Select \/ HandleLine \/ Remove \/ \E s \in Socket : ClientStep(s)
Stop == StopFlag \/ StopSockets \/ StopServer
World == \/ Connect
         \/ \E s \in Socket : \/ SendHeartbeat(s) \/ Age(s)
                              \/ \E r \in Request : SendRequest(s, r)
                              \/ \E how \in Ending[s] \ {"idle"} : EndConnection(s, how)

Next == ~crashed /\ (Manager \/ Stop \/ World)

\* The manager's thread keeps running; main and the consumers need not act.
SafetySpec == Init /\ [][Next]_vars
Spec == SafetySpec /\ WF_vars(~crashed /\ Manager)
-----------------------------------------------------------------------------
(* Properties *)

ClientInfo == [buffer : Seq(Piece), stale : BOOLEAN]
Handle == Socket \cup {Listen}

TypeOK == /\ pc \in {"bind", "listen", "run", "loop", "select", "accept", "scan", "lines", "unsub",
                     "close", "sweep", "evict", "exit", "dead"}
          /\ cur \in Handle
          /\ pending \subseteq Socket
          /\ isRunning \in BOOLEAN /\ crashed \in BOOLEAN
          /\ masterSet \subseteq Handle
          /\ DOMAIN clients \subseteq Socket /\ \A s \in DOMAIN clients : clients[s] \in ClientInfo
          /\ DOMAIN consumerTopics \subseteq Socket
          /\ \A s \in DOMAIN consumerTopics : consumerTopics[s] \subseteq Topic
          /\ DOMAIN topicConsumers \subseteq Topic
          /\ \A t \in DOMAIN topicConsumers : topicConsumers[t] \subseteq Socket
          /\ taskQueue \in Seq(Request)
          /\ server \in ServerState
          /\ stopPc \in {"up", "flagged", "closed", "done"}
          /\ open \subseteq Socket
          /\ inbox \in [Socket -> Seq(Piece)]
          /\ peer \in [Socket -> {"up", "fin", "reset", "timedout"}]
          /\ backlog \in Nat
          /\ asked \in [Socket -> SUBSET Topic]

\* The two tables are each other's inverse and hold no empty entry, after every
\* subscription, removal and sweep: the dispatcher's reverse index misses no
\* consumer and names none that has left.
IndexInverse ==
    /\ \A s \in Socket, t \in Topic : t \in getTopicsByConsumer(s) <=> s \in getConsumersByTopic(t)
    /\ \A s \in DOMAIN consumerTopics : consumerTopics[s] # {}
    /\ \A t \in DOMAIN topicConsumers : topicConsumers[t] # {}

\* No subscription outlives its client's record; and before stop() a subscribed
\* handle is open, except for the one that the idle sweep has just closed and is
\* about to take out of the tables.  The system reuses handles, so a
\* subscription left behind would go to the next consumer on the handle.
SubscribersAreLive ==
    \A s \in DOMAIN consumerTopics :
       /\ s \in DOMAIN clients
       /\ stopPc = "up" => s \in open \/ (pc = "evict" /\ s = cur)

\* Whatever way the stream was split, once a client's complete lines have been
\* read its subscriptions are exactly those it asked for, in order.  (From
\* stop() on, a handle it closed may come back from an accept under way.)
RequestsHonoured ==
    stopPc \in {"up", "flagged"} => \A s \in open \cap DOMAIN clients :
       \/ HasLine(Unread(s))
       \/ s = cur /\ pc \in {"close", "evict"}
       \/ getTopicsByConsumer(s) = asked[s]

\* While the server is up, a connection is closed only when its peer has ended
\* it or has been idle for 300 seconds.
ClosedForCause ==
    [][\A s \in open \ open' : stopPc # "up" \/ peer[s] # "up" \/ clients[s].stale]_vars

\* What select is given: no handle without a client record, which nobody would
\* read, so that it stayed readable and the idle sweep never ran again; before
\* stop(), no closed handle, with which select would fail for good; and, with
\* fewer clients than FD_SETSIZE, every client until it is removed.
WatchedInStep ==
    LET watched == masterSet \ {Listen}
    IN  /\ watched \subseteq DOMAIN clients
        /\ stopPc = "up" => watched \subseteq open
        /\ Cardinality(Socket) < FdSetSize =>
              \A s \in DOMAIN clients : s \in watched \/ (pc = "evict" /\ s = cur)

\* The manager cannot go on: stop(), a request of the wrong shape, a fault, or
\* a bind or listen that failed.
Excused == stopPc # "up" \/ crashed \/ pc \in {"dead", "exit"}

\* Other consumers than s leave again and again: each time, the stale iterator
\* lets handleSelect skip s.
OthersKeepLeaving(s) == []<>(pc = "close" /\ cur # s)

\* A watched consumer that asks for a topic is subscribed to it sooner or later,
\* however much the others send, unless its connection ends first.
RegistrationServed ==
    \A s \in Socket, t \in Topic :
       \/ (s \in masterSet /\ t \in asked[s])
             ~> (isSubscribed(s, t) \/ t \notin asked[s] \/ s \notin masterSet \/ Excused)
       \/ OthersKeepLeaving(s)

\* A watched connection that its peer ended is removed and its subscriptions
\* with it.
EndedIsRemoved ==
    \A s \in Socket :
       \/ (s \in masterSet /\ peer[s] \in {"fin", "reset"})
             ~> ((s \notin DOMAIN clients /\ s \notin DOMAIN consumerTopics) \/ Excused)
       \/ OthersKeepLeaving(s)
=============================================================================
