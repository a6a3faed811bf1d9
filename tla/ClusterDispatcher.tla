-------------------------- MODULE ClusterDispatcher --------------------------
(***************************************************************************)
(* ClusterDispatcher.cpp: one pool thread that takes messages from         *)
(* messageQueue and sends each to one subscriber of its topic, in turn.    *)
(* This module holds the dispatcher's own state and steps; what            *)
(* getConsumersByTopic returns is the parameter of Lookup, and whether     *)
(* send() may proceed is for the modules that compose it: Dispatch (with   *)
(* abstract subscriptions) and Broker (with ConsumerManager).              *)
(*                                                                         *)
(* messageQueue is used through its atomic specification, AtomicQueue,     *)
(* which MsgQueue implements: the dispatcher is its only reader.           *)
(***************************************************************************)
EXTENDS Naturals, Sequences, FiniteSets

CONSTANTS Socket, Topic, Message,
          TagOf,        \* what each message's "tag" is: a topic, or one of
          Null,         \*   the message is JSON null
          Untyped,      \*   the tag is no string, or the message no object
          Missing,      \*   an object without a tag
          NoMessage

ASSUME TagAssumption == /\ TagOf \in [Message -> Topic \cup {Null, Untyped, Missing}]
                        /\ Topic \cap {Null, Untyped, Missing} = {}
                        /\ NoMessage \notin Message

VARIABLES messageQueue,
          isRunning_,
          dpc,                   \* the thread: "off", "queued" (a task of the pool), "poll",
                                 \* "lookup", "requeue", "send", "end"
          msg,                   \* the message being dispatched
          consumerList,
          topicRoundRobinIndex,  \* 0 where no entry exists yet, as operator[] makes it
          crashed,               \* undefined behaviour has ended the process
          arrived, sent, dropped, requeued   \* history: messages received; <<message,
                                 \* socket>> sends; messages thrown away; messages put back

dispatcher == <<dpc, msg, consumerList, topicRoundRobinIndex>>
history == <<arrived, sent, dropped, requeued>>
dvars == <<messageQueue, isRunning_, dispatcher, crashed, history>>

Init == /\ messageQueue = <<>>
        /\ isRunning_ = FALSE
        /\ dpc = "off" /\ msg = NoMessage /\ consumerList = <<>>
        /\ topicRoundRobinIndex = [t \in Topic |-> 0]
        /\ crashed = FALSE
        /\ arrived = <<>> /\ sent = <<>> /\ dropped = {} /\ requeued = {}

Arrived == {arrived[i] : i \in DOMAIN arrived}

-----------------------------------------------------------------------------
(* start(), stop(): called by main *)

Start == /\ dpc = "off"
         /\ isRunning_' = TRUE
         /\ dpc' = "queued"
         /\ UNCHANGED <<messageQueue, msg, consumerList, topicRoundRobinIndex, crashed, history>>

Stop == /\ dpc # "off" /\ isRunning_
        /\ isRunning_' = FALSE
        /\ UNCHANGED <<messageQueue, dispatcher, crashed, history>>

-----------------------------------------------------------------------------
(* dispatchLoop() *)

\* The test of while (isRunning_), made at the end of the step before it
Turn == IF isRunning_ THEN "poll" ELSE "end"

\* A worker of the pool picks the task up.
Begin == /\ dpc = "queued"
         /\ dpc' = Turn
         /\ UNCHANGED <<messageQueue, isRunning_, msg, consumerList, topicRoundRobinIndex,
                        crashed, history>>

\* Mutant: the newest message first.
Poll_Back == /\ dpc = "poll" /\ messageQueue # <<>>
             /\ messageQueue' = SubSeq(messageQueue, 1, Len(messageQueue) - 1)
             /\ msg' = messageQueue[Len(messageQueue)]
             /\ dpc' = "lookup"
             /\ UNCHANGED <<isRunning_, consumerList, topicRoundRobinIndex, crashed, history>>

\* deQueue_front returns nullptr: the loop sleeps for 10 ms.
Idle == /\ dpc = "poll" /\ messageQueue = <<>>
        /\ dpc' = Turn
        /\ UNCHANGED <<messageQueue, isRunning_, msg, consumerList, topicRoundRobinIndex,
                       crashed, history>>

\* deQueue_front returns an element, be stop() called since the test or not.
\* The JSON value null compares equal to nullptr, so the loop only sleeps.
Poll == /\ dpc = "poll" /\ messageQueue # <<>>
        /\ messageQueue' = Tail(messageQueue)
        /\ IF TagOf[Head(messageQueue)] = Null
             THEN /\ dropped' = dropped \cup {Head(messageQueue)}
                  /\ dpc' = Turn
                  /\ UNCHANGED msg
             ELSE /\ msg' = Head(messageQueue)
                  /\ dpc' = "lookup"
                  /\ UNCHANGED dropped
        /\ UNCHANGED <<isRunning_, consumerList, topicRoundRobinIndex, crashed, arrived, sent, requeued>>

-----------------------------------------------------------------------------
(* dispatchMessage(msg) *)

\* Back to the loop: msg and the list are locals.
Return == dpc' = Turn /\ msg' = NoMessage /\ consumerList' = <<>>

\* The orders in which the set of subscribers may come out of the copy
Orders(S) == {l \in [1..Cardinality(S) -> S] : \A i, j \in DOMAIN l : l[i] = l[j] => i = j}

\* msg["tag"] is no string: the exception is caught and the message is gone.
TagUntyped == /\ dpc = "lookup" /\ TagOf[msg] = Untyped
              /\ dropped' = dropped \cup {msg}
              /\ Return
              /\ UNCHANGED <<messageQueue, isRunning_, topicRoundRobinIndex, crashed,
                             arrived, sent, requeued>>

\* operator[] of a const json without the key: an assertion, or undefined.
LacksTag == /\ dpc = "lookup" /\ TagOf[msg] = Missing
            /\ dropped' = dropped \cup {msg}
            /\ Return
            /\ crashed' \in BOOLEAN
            /\ UNCHANGED <<messageQueue, isRunning_, topicRoundRobinIndex, arrived, sent, requeued>>

\* consumerList becomes l, the subscribers in the set's iteration order.
Lookup(l) == /\ dpc = "lookup" /\ TagOf[msg] \in Topic
             /\ consumerList' = l
             /\ dpc' = IF l = <<>> THEN "requeue" ELSE "send"
             /\ UNCHANGED <<messageQueue, isRunning_, msg, topicRoundRobinIndex, crashed, history>>

\* The lookup races with an update of the tables and faults.
LookupFaults == /\ dpc = "lookup" /\ TagOf[msg] \in Topic
                /\ crashed' = TRUE
                /\ UNCHANGED <<messageQueue, isRunning_, dispatcher, history>>

\* Mutant: the message is put back and the function goes on.
Requeue_NoReturn == /\ dpc = "requeue"
                    /\ messageQueue' = Append(messageQueue, msg)
                    /\ requeued' = requeued \cup {msg}
                    /\ dpc' = "lookup"
                    /\ UNCHANGED <<isRunning_, msg, consumerList, topicRoundRobinIndex, crashed,
                                   arrived, sent, dropped>>

\* Mutant: a message nobody wants is thrown away (as MessageDispatcher does).
Requeue_Drop == /\ dpc = "requeue"
                /\ dropped' = dropped \cup {msg}
                /\ Return
                /\ UNCHANGED <<messageQueue, isRunning_, topicRoundRobinIndex, crashed,
                               arrived, sent, requeued>>

\* Mutant: a message nobody wants goes back to the head of the queue.
Requeue_Front == /\ dpc = "requeue"
                 /\ messageQueue' = <<msg>> \o messageQueue
                 /\ requeued' = requeued \cup {msg}
                 /\ Return
                 /\ UNCHANGED <<isRunning_, topicRoundRobinIndex, crashed, arrived, sent, dropped>>

Requeue == /\ dpc = "requeue"
           /\ messageQueue' = Append(messageQueue, msg)
           /\ requeued' = requeued \cup {msg}
           /\ Return
           /\ UNCHANGED <<isRunning_, topicRoundRobinIndex, crashed, arrived, sent, dropped>>

\* The index, brought into the range of the list as it is now.
Index == IF topicRoundRobinIndex[TagOf[msg]] >= Len(consumerList)
           THEN 0 ELSE topicRoundRobinIndex[TagOf[msg]]
SelectedConsumer == consumerList[Index + 1]

\* Mutant: the index goes backwards without a modulus.
Send_Backwards == /\ dpc = "send"
                  /\ sent' = Append(sent, <<msg, SelectedConsumer>>)
                  /\ topicRoundRobinIndex' = [topicRoundRobinIndex EXCEPT ![TagOf[msg]] = Index - 1]
                  /\ Return
                  /\ UNCHANGED <<messageQueue, isRunning_, crashed, arrived, dropped, requeued>>

\* Mutant: one index for all topics.
Send_OneIndex == /\ dpc = "send"
                 /\ sent' = Append(sent, <<msg, SelectedConsumer>>)
                 /\ topicRoundRobinIndex' =
                      [t \in Topic |-> (Index + 1) % Len(consumerList)]
                 /\ Return
                 /\ UNCHANGED <<messageQueue, isRunning_, crashed, arrived, dropped, requeued>>

\* send() and the update of the index; send's result is not looked at.
Send == /\ dpc = "send"
        /\ sent' = Append(sent, <<msg, SelectedConsumer>>)
        /\ topicRoundRobinIndex' =
             [topicRoundRobinIndex EXCEPT ![TagOf[msg]] = (Index + 1) % Len(consumerList)]
        /\ Return
        /\ UNCHANGED <<messageQueue, isRunning_, crashed, arrived, dropped, requeued>>

-----------------------------------------------------------------------------
\* External: Receiver::handleClient parses a line and calls enQueue_back.
Enqueue(m) == /\ m \notin Arrived
              /\ arrived' = Append(arrived, m)
              /\ messageQueue' = Append(messageQueue, m)
              /\ UNCHANGED <<isRunning_, dispatcher, crashed, sent, dropped, requeued>>

\* The steps of the dispatcher's thread that need nothing from another component
Continue == Idle \/ Poll \/ TagUntyped \/ LacksTag \/ Requeue
Alone == Begin \/ Continue

-----------------------------------------------------------------------------
(* Properties *)

InHand == IF dpc \in {"lookup", "requeue", "send"} THEN {msg} ELSE {}
Queued == {messageQueue[i] : i \in DOMAIN messageQueue}
SentMessages == {sent[i][1] : i \in DOMAIN sent}

TypeOK == /\ messageQueue \in Seq(Message)
          /\ isRunning_ \in BOOLEAN /\ crashed \in BOOLEAN
          /\ dpc \in {"off", "queued", "poll", "lookup", "requeue", "send", "end"}
          /\ msg \in Message \cup {NoMessage}
          /\ consumerList \in Seq(Socket)
          /\ topicRoundRobinIndex \in [Topic -> Nat]
          /\ dropped \subseteq Message /\ requeued \subseteq Message
          /\ arrived \in Seq(Message) /\ sent \in Seq(Message \X Socket)

\* Every message the Receiver handed over is in exactly one place: waiting,
\* in the dispatcher's hand, sent once, or thrown away.  However often it is
\* put back for want of a subscriber it is neither lost nor doubled.
OneCopy == /\ Arrived = Queued \cup InHand \cup SentMessages \cup dropped
           /\ \A i, j \in DOMAIN messageQueue : messageQueue[i] = messageQueue[j] => i = j
           /\ \A i, j \in DOMAIN sent : sent[i][1] = sent[j][1] => i = j
           /\ InHand \cap Queued = {}
           /\ SentMessages \cap (Queued \cup InHand) = {}
           /\ dropped \cap (Queued \cup InHand \cup SentMessages) = {}

\* Of the messages that were never put back, the one that arrived first is sent
\* first, whatever their topics.
InOrder == \A i, j \in DOMAIN arrived, k, l \in DOMAIN sent :
              /\ i < j /\ sent[k][1] = arrived[i] /\ sent[l][1] = arrived[j]
              /\ {arrived[i], arrived[j]} \cap requeued = {}
              => k < l

\* Only a message whose tag names no topic is ever thrown away.
DroppedForCause == \A m \in dropped : TagOf[m] \notin Topic
=============================================================================
