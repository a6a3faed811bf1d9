------------------------------ MODULE Receiver ------------------------------
(***************************************************************************)
(* Receiver.cpp: the thread that accepts producers and puts each line they *)
(* send on messageQueue, with main's stop() beside it.  The select loop is *)
(* ConsumerManager's, with three differences this module is about: a       *)
(* client that disconnects is only logged, never removed; lastActivity is  *)
(* set when the client is accepted and never again; isRunning is TRUE from *)
(* construction on.                                                        *)
(*                                                                         *)
(* External: Winsock and the producers (the last section of actions).      *)
(* The counter co only feeds a log line and is not modelled.               *)
(***************************************************************************)
EXTENDS Framing, TcpServer, FiniteSets

CONSTANTS Socket,      \* the handles the system gives to accepted connections
          Listen,      \* the handle of the listening socket
          Message,     \* what a line may say
          Garbage,     \* a line json::parse rejects, among Message
          Menu,        \* bound of the model: what the producer on each handle may say
          Ending,      \* bound of the model: what may end the connection on each handle,
                       \* among "fin", "reset" (the producer) and "idle"
          MayStop,     \* bound of the model: whether main ever calls stop()
          FdSetSize,   \* FD_SETSIZE, 64 in Winsock
          MaxSent      \* bound of the model: lines sent on each connection

ASSUME SocketAssumption ==
    /\ Listen \notin Socket
    /\ FdSetSize \in Nat \ {0}
    /\ Garbage \subseteq Message
    /\ Ending \in [Socket -> SUBSET {"fin", "reset", "idle"}]

VARIABLES
  pc,             \* the receiver thread: where receive()/handleSelect() is
  cur,            \* the socket in handleClient
  pending,        \* ready (or idle) clients the current pass has yet to visit
  isRunning, masterSet, clients,
  stopping,       \* main is between isRunning = false and server.close()
  open,           \* the handles that are allocated
  inbox,          \* received by the system, not yet by recv
  peer,           \* the other end: "up", or how it ended
  active,         \* history: sockets from which data was read in the last 300 seconds
  waiting,        \* a connection waits for accept
  said,           \* history: the lines the producer has sent on the connection
  queued          \* history: those of them handed to enQueue_back

thread == <<pc, cur, pending>>
network == <<inbox, peer, waiting, said>>
history == <<active, queued>>
life == <<isRunning, server, stopping>>
sockets == <<masterSet, clients, open>>
vars == <<thread, network, history, life, sockets>>

-----------------------------------------------------------------------------
(* receive() *)

Init == /\ pc = "bind" /\ cur = Listen /\ pending = {}
        /\ isRunning = TRUE
        /\ masterSet = {}
        /\ clients = [s \in {} |-> {}]
        /\ Created /\ stopping = FALSE
        /\ open = {}
        /\ inbox = [s \in Socket |-> <<>>]
        /\ peer = [s \in Socket |-> "up"]
        /\ active = {}
        /\ waiting = FALSE
        /\ said = [s \in Socket |-> <<>>]
        /\ queued = [s \in Socket |-> <<>>]

Bind == /\ pc = "bind"
        /\ \/ bind /\ pc' = "listen"
           \/ refused /\ pc' = "exit"
        /\ UNCHANGED <<network, history, sockets, cur, pending, isRunning, stopping>>

\* Where the test of while (isRunning) leads.  main may stop the receiver between
\* the test and the select, or while the select waits.
Turn == IF isRunning THEN "select" ELSE "exit"

\* listen, then FD_ZERO and FD_SET of the listening socket
ListenOn == /\ pc = "listen"
            /\ \/ listen /\ pc' = Turn /\ masterSet' = {Listen}
               \/ refused /\ pc' = "exit" /\ UNCHANGED masterSet
            /\ UNCHANGED <<network, history, cur, pending, isRunning, clients, stopping, open>>

-----------------------------------------------------------------------------
(* handleSelect() *)

FD_SET(s, set) == IF Cardinality(set) < FdSetSize THEN set \cup {s} ELSE set

\* Mutant: nothing cleared
FD_CLR_Nothing(s, set) == set

FD_CLR(s, set) == set \ {s}

Invalid == {s \in masterSet \ {Listen} : s \notin open}
             \cup (IF Accepting THEN {} ELSE {Listen})
Readable == {s \in masterSet \ {Listen} : inbox[s] # <<>> \/ peer[s] # "up"}
              \cup (IF waiting THEN {Listen} \cap masterSet ELSE {})

\* select returns SOCKET_ERROR at once: nothing is read and the loop turns.
SelectError == /\ pc = "select"
               /\ Invalid # {}
               /\ pc' = Turn
               /\ UNCHANGED <<network, history, life, sockets, cur, pending>>

\* Mutant: only one ready client is visited in a pass
SelectReady_First == /\ pc = "select"
                     /\ Invalid = {} /\ Readable # {}
                     /\ \E s \in Readable : pending' = {s} \ {Listen}
                     /\ pc' = IF Listen \in Readable THEN "accept" ELSE "scan"
                     /\ UNCHANGED <<network, history, life, sockets, cur>>

SelectReady == /\ pc = "select"
               /\ Invalid = {} /\ Readable # {}
               /\ pending' = Readable \ {Listen}
               /\ pc' = IF Listen \in Readable THEN "accept" ELSE "scan"
               /\ UNCHANGED <<network, history, life, sockets, cur>>

SelectTimeout == /\ pc = "select"
                 /\ Invalid = {} /\ Readable = {}
                 /\ pending' = {s \in DOMAIN clients : clients[s].stale}
                 /\ pc' = "sweep"
                 /\ UNCHANGED <<network, history, life, sockets, cur>>

Sweep(s) == /\ pc = "sweep" /\ s \in pending
            /\ open' = open \ {s}
            /\ masterSet' = FD_CLR(s, masterSet)
            /\ clients' = [c \in DOMAIN clients \ {s} |-> clients[c]]
            /\ pending' = pending \ {s}
            /\ UNCHANGED <<network, history, life, pc, cur>>

Accept(s) == /\ pc = "accept" /\ Accepting /\ waiting
             /\ s \notin open
             /\ open' = open \cup {s}
             /\ masterSet' = FD_SET(s, masterSet)
             /\ clients' = [c \in DOMAIN clients \cup {s} |->
                               IF c = s THEN [buffer |-> <<>>, stale |-> FALSE] ELSE clients[c]]
             /\ pc' = "scan"
             /\ waiting' = FALSE
             /\ inbox' = [inbox EXCEPT ![s] = <<>>]
             /\ peer' = [peer EXCEPT ![s] = "up"]
             /\ said' = [said EXCEPT ![s] = <<>>]
             /\ queued' = [queued EXCEPT ![s] = <<>>]
             /\ active' = active \ {s}
             /\ UNCHANGED <<life, cur, pending>>

\* accept fails: the peer has already gone, or stop() has closed the socket.
AcceptFails == /\ pc = "accept"
               /\ waiting' = (waiting /\ ~Accepting)
               /\ pc' = "scan"
               /\ UNCHANGED <<history, life, sockets, cur, pending, inbox, peer, said>>

PassDone == /\ pc \in {"scan", "sweep"} /\ pending = {}
            /\ pc' = Turn
            /\ UNCHANGED <<network, history, life, sockets, cur, pending>>

-----------------------------------------------------------------------------
(* handleClient() *)

Visit(s) == pc = "scan" /\ s \in pending /\ pending' = pending \ {s} /\ cur' = s

\* Mutant: what was left in the buffer is overwritten by what recv returns
RecvData_Overwrites(s) ==
    /\ Visit(s)
    /\ s \in open /\ peer[s] # "reset" /\ inbox[s] # <<>>
    /\ clients' = [clients EXCEPT ![s].buffer = <<Head(inbox[s])>>]
    /\ inbox' = [inbox EXCEPT ![s] = Tail(@)]
    /\ active' = active \cup {s}
    /\ pc' = "lines"
    /\ UNCHANGED <<life, peer, waiting, said, queued, masterSet, open>>

\* lastActivity is not touched here.
RecvData(s) ==
    /\ Visit(s)
    /\ s \in open /\ peer[s] # "reset" /\ inbox[s] # <<>>
    /\ \E n \in 1..Len(inbox[s]) :
          /\ clients' = [clients EXCEPT ![s].buffer = @ \o SubSeq(inbox[s], 1, n)]
          /\ inbox' = [inbox EXCEPT ![s] = SubSeq(@, n + 1, Len(@))]
    /\ active' = active \cup {s}
    /\ pc' = "lines"
    /\ UNCHANGED <<life, peer, waiting, said, queued, masterSet, open>>

\* recv returns 0 or fails: a log line, whatever the error
RecvEnd(s) ==
    /\ Visit(s)
    /\ peer[s] = "reset" \/ (peer[s] = "fin" /\ inbox[s] = <<>>)
    /\ pc' = "scan"
    /\ UNCHANGED <<network, history, life, sockets>>

LinesDone == /\ pc = "lines" /\ ~HasLine(clients[cur].buffer)
             /\ pc' = "scan"
             /\ UNCHANGED <<network, history, life, sockets, cur, pending>>

\* Mutant: nothing is rejected
Parsed_All(line) == {m \in Message : Spells(line, m)}

\* json::parse: the message a line spells; none if it spells no single one
Parsed(line) == {m \in Message \ Garbage : Spells(line, m)}

\* One line: enQueue_back of what it parses to, or a log line
TakeLine == /\ pc = "lines" /\ HasLine(clients[cur].buffer)
            /\ LET line == FirstLine(clients[cur].buffer) IN
                 \/ /\ Parsed(line) = {}
                    /\ UNCHANGED queued
                 \/ \E m \in Parsed(line) : queued' = [queued EXCEPT ![cur] = Append(@, m)]
            /\ clients' = [clients EXCEPT ![cur].buffer = AfterLine(@)]
            /\ UNCHANGED <<thread, network, life, active, masterSet, open>>

-----------------------------------------------------------------------------
(* stop(), on main's thread *)

StopFlag == /\ MayStop /\ isRunning
            /\ isRunning' = FALSE /\ stopping' = TRUE
            /\ UNCHANGED <<thread, network, history, sockets, server>>

StopServer == /\ stopping
              /\ close /\ stopping' = FALSE
              /\ UNCHANGED <<thread, network, history, sockets, isRunning>>

-----------------------------------------------------------------------------
(* External: producers, the network and the clock *)

Live(s) == s \in open \cap DOMAIN clients /\ peer[s] = "up"

Connect == /\ Accepting /\ ~waiting
           /\ Cardinality(open) < Cardinality(Socket)
           /\ waiting' = TRUE
           /\ UNCHANGED <<thread, history, life, sockets, inbox, peer, said>>

\* A producer sends lines, each whole or in two pieces (Producer.cpp:106-108).
SendLine(s, m) == /\ Live(s) /\ m \in Menu[s] /\ Len(said[s]) < MaxSent[s]
                  /\ \/ inbox' = [inbox EXCEPT ![s] = @ \o Whole(m)]
                     \/ inbox' = [inbox EXCEPT ![s] = @ \o Split(m)]
                  /\ said' = [said EXCEPT ![s] = Append(@, m)]
                  /\ UNCHANGED <<thread, history, life, sockets, peer, waiting>>

EndConnection(s, how) == /\ Live(s)
                         /\ peer' = [peer EXCEPT ![s] = how]
                         /\ UNCHANGED <<thread, history, life, sockets, inbox, waiting, said>>

\* More than 300 seconds since lastActivity
Age(s) == /\ "idle" \in Ending[s] /\ s \in DOMAIN clients /\ ~clients[s].stale
          /\ clients' = [clients EXCEPT ![s].stale = TRUE]
          /\ UNCHANGED <<thread, network, history, life, masterSet, open>>

\* More than 300 seconds since s was last read, so also since it was accepted
Silence(s) == /\ s \in active /\ s \in DOMAIN clients /\ clients[s].stale
              /\ active' = active \ {s}
              /\ UNCHANGED <<thread, network, life, sockets, queued>>

-----------------------------------------------------------------------------
ReceiverStep ==
    \/ Bind \/ ListenOn
    \/ SelectError \/ SelectReady \/ SelectTimeout \/ AcceptFails \/ PassDone
    \/ LinesDone \/ TakeLine
    \/ \E s \in Socket : Sweep(s) \/ Accept(s) \/ RecvData(s) \/ RecvEnd(s)

Stop == StopFlag \/ StopServer

World == \/ Connect
         \/ \E s \in Socket : \/ Age(s) \/ Silence(s)
                              \/ \E m \in Message : SendLine(s, m)
                              \/ \E how \in Ending[s] \ {"idle"} : EndConnection(s, how)

Next == ReceiverStep \/ Stop \/ World

\* The receiver's thread keeps running; main and the producers need not act.
SafetySpec == Init /\ [][Next]_vars
Spec == SafetySpec /\ WF_vars(ReceiverStep)
-----------------------------------------------------------------------------
(* Properties *)

Piece == [text : Message, part : Part]

TypeOK == /\ pc \in {"bind", "listen", "select", "accept", "scan", "lines", "sweep", "exit"}
          /\ cur \in Socket \cup {Listen}
          /\ pending \subseteq Socket
          /\ isRunning \in BOOLEAN /\ stopping \in BOOLEAN /\ waiting \in BOOLEAN
          /\ masterSet \subseteq Socket \cup {Listen}
          /\ DOMAIN clients \subseteq Socket
          /\ \A s \in DOMAIN clients : clients[s] \in [buffer : Seq(Piece), stale : BOOLEAN]
          /\ server \in ServerState
          /\ open \subseteq Socket /\ active \subseteq Socket
          /\ inbox \in [Socket -> Seq(Piece)]
          /\ peer \in [Socket -> {"up", "fin", "reset"}]
          /\ said \in [Socket -> Seq(Message)]
          /\ queued \in [Socket -> Seq(Message \ Garbage)]

\* The pieces still ahead of enQueue_back on a connection
Ahead(s) == clients[s].buffer \o inbox[s]

\* What is to be queued of the pieces u, after each of them and after all: the
\* text of each line json::parse accepts
Reading(u) == LET q[i \in 0..Len(u)] ==
                    IF i = 0 THEN <<>>
                    ELSE IF u[i].part = "head" \/ u[i].text \in Garbage THEN q[i - 1]
                    ELSE Append(q[i - 1], u[i].text)
              IN  q
Good(u) == Reading(u)[Len(u)]
Lines(l) == [i \in 1..Len(l) |-> [text |-> l[i], part |-> "whole"]]

\* However recv splits the stream, and whatever the other producers send, what
\* a producer said is queued line by line: each good line once, in order, and
\* a line that is rejected costs no other line.
StreamKept == \A s \in DOMAIN clients : Good(Lines(said[s])) = queued[s] \o Good(Ahead(s))

\* What a watched producer has sent is queued in the end, unless main stops
\* the receiver or the connection is reset or closed first.
StreamServed == \A s \in Socket :
    (s \in masterSet /\ Len(queued[s]) < Len(Good(Lines(said[s]))))
       ~> \/ Len(queued[s]) = Len(Good(Lines(said[s])))
          \/ peer[s] = "reset" \/ s \notin open \/ ~isRunning

\* No two clients share a handle and every watched handle is an open client:
\* select never fails while the receiver runs, so accepting goes on.
WatchedAreOpen == masterSet \ {Listen} \subseteq open \cap DOMAIN clients

\* Receiver.cpp:50-55: a client is closed for five minutes without activity.
OnlyQuietClosed == [][\A s \in open \ open' : s \notin active]_vars
=============================================================================
