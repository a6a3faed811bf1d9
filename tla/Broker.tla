------------------------------- MODULE Broker -------------------------------
(***************************************************************************)
(* ConsumerManager and ClusterDispatcher together, as Server wires them:   *)
(* two pool threads that share the subscription tables without a lock.     *)
(* The dispatcher copies a topic's subscribers (getConsumersByTopic) and   *)
(* only later sends to one of the handles it found; in between the manager *)
(* may unsubscribe or close it, and the system may give the same handle to *)
(* the next connection.  A lookup that overlaps an update of the tables is *)
(* a data race.                                                            *)
(*                                                                         *)
(* This is the server while it runs, without stop(); send() does not block *)
(* here, Dispatch covers that.                                             *)
(***************************************************************************)
EXTENDS ConsumerManager

CONSTANTS Message, TagOf, Null, Untyped, Missing, NoMessage

VARIABLES messageQueue, isRunning_, dpc, msg, consumerList, topicRoundRobinIndex,
          arrived, sent, dropped, requeued,    \* ClusterDispatcher's
          ever,      \* history: topics the connection on a handle has asked for
          same,      \* history: handles looked up whose connection has not changed since
          late       \* history: messages of each topic that a handle got since it was last
                     \* unsubscribed from it

D == INSTANCE ClusterDispatcher

managerOnly == <<thread, tables, network, sockets, taskQueue, isRunning, server, stopPc>>
dispatcherOnly == <<messageQueue, isRunning_, dpc, msg, consumerList, topicRoundRobinIndex,
                    arrived, sent, dropped, requeued>>
ghosts == <<ever, same, late>>
bvars == <<managerOnly, dispatcherOnly, crashed, ghosts>>

BInit == /\ Init /\ D!Init
         /\ ever = [s \in Socket |-> {}]
         /\ same = {}
         /\ late = [s \in Socket |-> [t \in Topic |-> 0]]

-----------------------------------------------------------------------------
(* The manager's side *)

NewHandle(s) == s \in open' \ open
NewTopics(s) == Entry(consumerTopics', s) \ Entry(consumerTopics, s)

ManagerSide == /\ Manager \/ World
               /\ ever' = [s \in Socket |-> IF NewHandle(s) THEN {} ELSE ever[s] \cup asked'[s]]
               /\ same' = {s \in same : ~NewHandle(s)}
               /\ late' = [s \in Socket |-> [t \in Topic |->
                              IF NewHandle(s) \/ t \in NewTopics(s) THEN 0 ELSE late[s][t]]]
               /\ UNCHANGED dispatcherOnly

-----------------------------------------------------------------------------
(* The dispatcher's side *)

\* subscribe(cur, t) is under way.
Adding(t) == /\ pc = "lines" /\ HasLine(clients[cur].buffer)
             /\ \E r \in Request1 : r.type = "Register" /\ r.tag = t

\* What getConsumersByTopic(t) may return: the set, or, while the tables are
\* being changed, whatever part of it the reader happens to see.
Seen(t) == {getConsumersByTopic(t)}
             \cup (IF Mutating
                     THEN SUBSET (getConsumersByTopic(t) \cup IF Adding(t) THEN {cur} ELSE {})
                     ELSE {})

Orders(S) == {l \in [1..Cardinality(S) -> S] : \A i, j \in DOMAIN l : l[i] = l[j] => i = j}

BLookup == \E S \in Seen(TagOf[msg]) : \E l \in Orders(S) :
              /\ D!Lookup(l)
              /\ same' = S
              /\ UNCHANGED <<ever, late>>

Reaches(s) == s \in open /\ peer[s] = "up"
Late(s, t) == /\ s = D!SelectedConsumer /\ t = TagOf[msg] /\ Reaches(s)
              /\ ~isSubscribed(s, t) /\ ~(s = cur /\ Adding(t))

BSend == /\ D!Send
         /\ late' = [s \in Socket |-> [t \in Topic |->
                        IF Late(s, t) THEN late[s][t] + 1 ELSE late[s][t]]]
         /\ UNCHANGED <<ever, same>>

DispatcherSide == /\ \/ (D!Alone \/ D!Start) /\ UNCHANGED ghosts
                     \/ \E m \in Message : D!Enqueue(m) /\ UNCHANGED ghosts
                     \/ Mutating /\ D!LookupFaults /\ UNCHANGED ghosts
                     \/ dpc = "lookup" /\ TagOf[msg] \in Topic /\ BLookup
                     \/ BSend
                  /\ UNCHANGED managerOnly

BNext == ~crashed /\ (ManagerSide \/ DispatcherSide)

BSpec == BInit /\ [][BNext]_bvars
-----------------------------------------------------------------------------
(* Properties *)

\* A consumer that is no longer subscribed to a topic gets at most one more
\* message of it, the one the dispatcher had already looked it up for: no
\* snapshot of the subscribers is used twice, and no unsubscription is forgotten
\* in the tables.
AtMostOneLate == \A s \in Socket, t \in Topic : late[s][t] <= 1

SendsNow == dpc = "send" /\ dpc' # "send"

\* If the handle still belongs to the connection that was looked up, then that
\* connection has asked for the topic: subscriptions never pass from a closed
\* connection to the next one on its handle.
NoStranger == [][SendsNow => LET c == D!SelectedConsumer IN
                             Reaches(c) /\ c \in same => TagOf[msg] \in ever[c]]_bvars

\* ClusterDispatcher.cpp:29, ConsumerManager.h:49: a message goes to a consumer
\* that subscribed to its topic.
OnlySubscribersReceive == [][SendsNow => LET c == D!SelectedConsumer IN
                                            Reaches(c) => TagOf[msg] \in ever[c]]_bvars
=============================================================================
