--------------------------- MODULE DispatchProofs ---------------------------
(***************************************************************************)
(* What Dispatch keeps for every set of messages, topics and sockets, in   *)
(* whatever way subscriptions change: no message is lost, doubled or       *)
(* thrown away without cause, messages are sent in the order of their      *)
(* arrival, and the subscribers of a topic share them evenly.  And what    *)
(* Server, which runs the same dispatcher, keeps while main takes it down, *)
(* for any size of the pool: a message is in one place although save() and *)
(* the dispatcher both take from the queue, and save() leaves out at most  *)
(* the one in the dispatcher's hand.                                       *)
(***************************************************************************)
EXTENDS Dispatch, Server, SequenceLemmas, FiniteSetTheorems, TLAPS

-----------------------------------------------------------------------------
(* The invariants *)

\* What the first three properties rest on: a message in hand is a message, one being
\* looked up for a send has a topic, and a send has someone to go to.
InHandOK == /\ dpc \in {"lookup", "requeue", "send"} => msg \in Message
            /\ dpc \in {"requeue", "send"} => TagOf[msg] \in Topic
            /\ dpc = "send" => consumerList # <<>>

OrderOK == order \in [Topic -> Seq(Socket)]

IInv == TypeOK /\ InHandOK /\ OrderOK /\ OneCopy /\ DroppedForCause

\* What InOrder rests on: of two messages that were never put back the later one
\* is behind the earlier in the queue, and comes into the hand and out after it.
InLine == /\ Injective(arrived)
          /\ \A a, b \in Message \ requeued : Precedes(arrived, a, b) =>
                /\ ~Precedes(messageQueue, b, a) /\ ~FirstsPrecede(sent, b, a)
                /\ b \in SentMessages => a \notin Queued \cup InHand
                /\ b \in InHand => a \notin Queued

\* The index that is d places before x in a list of n
Back(x, d, n) == IF d <= x THEN x - d ELSE x + n - d

\* What EvenShare rests on, for one topic: the sockets served since the last
\* change, l, are those before the index x in the list o of subscribers, the
\* latest of them first.
InTurn(l, x, o) == /\ Injective(o)
                   /\ Len(l) <= Len(o)
                   /\ l # <<>> => x < Len(o)
                   /\ \A d \in 1..Len(l) : l[Len(l) - d + 1] = o[Back(x, d, Len(o)) + 1]

Turns == /\ recent \in [Topic -> Seq(Socket)] /\ fresh \in BOOLEAN
         /\ \A t \in Topic : InTurn(recent[t], topicRoundRobinIndex[t], order[t])
         /\ dpc = "send" => IF fresh THEN consumerList = order[TagOf[msg]]
                                     ELSE recent[TagOf[msg]] = <<>>

-----------------------------------------------------------------------------
(* Types, one copy of each message, and none dropped *)

\* A step that leaves every message where it is keeps OneCopy.
LEMMA OneCopyFrame ==
    ASSUME OneCopy, InHand' = InHand, UNCHANGED <<messageQueue, sent, arrived, dropped>>
    PROVE  OneCopy'
  BY DEF OneCopy, Queued, SentMessages, Arrived

\* With what the sockets' index must be to pick from a list
LEMMA IndexRange ==
    ASSUME TypeOK, consumerList # <<>>, TagOf[msg] \in Topic
    PROVE  /\ Len(consumerList) \in Nat \ {0}
           /\ Index \in Nat /\ Index < Len(consumerList)
           /\ SelectedConsumer \in Socket
  <1>1. Len(consumerList) \in Nat \ {0}
    BY DEF TypeOK
  <1>2. Index \in Nat /\ Index < Len(consumerList)
    BY <1>1 DEF TypeOK, Index
  <1>3. Index + 1 \in 1..Len(consumerList)
    BY <1>1, <1>2
  <1> QED BY <1>1, <1>2, <1>3 DEF TypeOK, SelectedConsumer

LEMMA InitIInv == DInit => IInv
  <1> SUFFICES ASSUME DInit PROVE IInv
    OBVIOUS
  <1> USE DEF DInit, Init
  <1>1. TypeOK
    <2>1. consumerList \in Seq(Socket) /\ topicRoundRobinIndex \in [Topic -> Nat]
      OBVIOUS
    <2>2. messageQueue \in Seq(Message) /\ arrived \in Seq(Message)
      OBVIOUS
    <2>3. sent \in Seq(Message \X Socket)
      OBVIOUS
    <2> QED BY <2>1, <2>2, <2>3 DEF TypeOK
  <1>2. InHandOK
    BY DEF InHandOK
  <1>3. OrderOK
    BY DEF OrderOK
  <1>4. OneCopy
    <2>1. Arrived = {} /\ Queued = {} /\ InHand = {} /\ SentMessages = {}
      <3>1. DOMAIN arrived = {} /\ DOMAIN messageQueue = {} /\ DOMAIN sent = {}
        OBVIOUS
      <3>2. InHand = {}
        BY DEF InHand
      <3> QED BY <3>1, <3>2, Zenon DEF Arrived, Queued, SentMessages
    <2>2. DOMAIN messageQueue = {} /\ DOMAIN sent = {} /\ dropped = {}
      OBVIOUS
    <2> QED BY <2>1, <2>2, Zenon DEF OneCopy
  <1>5. DroppedForCause
    BY DEF DroppedForCause
  <1> QED BY <1>1, <1>2, <1>3, <1>4, <1>5 DEF IInv

LEMMA PollIInv == IInv /\ Poll /\ Others => IInv'
  <1> SUFFICES ASSUME IInv, Poll, Others PROVE IInv'
    OBVIOUS
  <1> USE DEF Turn
  <1>1. /\ messageQueue \in Seq(Message) /\ messageQueue # <<>>
        /\ TagOf \in [Message -> Topic \cup {Null, Untyped, Missing}]
        /\ Topic \cap {Null, Untyped, Missing} = {}
    BY TagAssumption DEF IInv, TypeOK, Poll
  <1>2. /\ Head(messageQueue) \in Message
        /\ Tail(messageQueue) \in Seq(Message)
        /\ Queued = Elements(Tail(messageQueue)) \cup {Head(messageQueue)}
        /\ Injective(messageQueue) =>
             Injective(Tail(messageQueue)) /\ Head(messageQueue) \notin Elements(Tail(messageQueue))
    <2>1. Queued = Elements(messageQueue)
      BY DEF Queued, Elements
    <2> QED BY <1>1, <2>1, TailElements
  <1>3. TypeOK'
    BY <1>2 DEF IInv, TypeOK, Poll
  <1>4. InHandOK' /\ OrderOK'
    BY <1>2 DEF IInv, InHandOK, OrderOK, Poll, Others
  <1>5. DroppedForCause'
    BY <1>1 DEF IInv, DroppedForCause, Poll
  <1>6. OneCopy'
    <2>1. /\ Injective(messageQueue)
          /\ InHand = {}
          /\ Arrived = Queued \cup SentMessages \cup dropped
          /\ SentMessages \cap Queued = {} /\ dropped \cap (Queued \cup SentMessages) = {}
          /\ \A i, j \in DOMAIN sent : sent[i][1] = sent[j][1] => i = j
      BY DEF IInv, OneCopy, Injective, InHand, Poll
    <2>2. /\ Queued' = Elements(Tail(messageQueue)) /\ Injective(messageQueue')
          /\ Arrived' = Arrived /\ SentMessages' = SentMessages /\ sent' = sent
      BY <1>2, <2>1 DEF Poll, Queued, Elements, Arrived, SentMessages
    <2>3. /\ InHand' \cup dropped' = {Head(messageQueue)} \cup dropped
          /\ InHand' \cap dropped' = {}
          /\ InHand' \subseteq {Head(messageQueue)}
          /\ dropped' \subseteq dropped \cup {Head(messageQueue)}
      BY <1>2, <2>1 DEF Poll, InHand
    <2> QED BY <1>2, <2>1, <2>2, <2>3 DEF OneCopy, Injective
  <1> QED BY <1>3, <1>4, <1>5, <1>6 DEF IInv

LEMMA DropIInv == IInv /\ (TagUntyped \/ LacksTag) /\ Others => IInv'
  <1> SUFFICES ASSUME IInv, TagUntyped \/ LacksTag, Others PROVE IInv'
    OBVIOUS
  <1>1. /\ msg \in Message /\ TagOf[msg] \notin Topic /\ dpc = "lookup"
        /\ dpc' \in {"poll", "end"} /\ msg' = NoMessage /\ consumerList' = <<>> /\ crashed' \in BOOLEAN
        /\ dropped' = dropped \cup {msg}
        /\ UNCHANGED <<messageQueue, sent, arrived, requeued, topicRoundRobinIndex, isRunning_>>
    BY TagAssumption DEF IInv, InHandOK, TypeOK, TagUntyped, LacksTag, Return, Turn
  <1>2. TypeOK'
    BY <1>1 DEF IInv, TypeOK
  <1>3. InHandOK' /\ OrderOK'
    BY <1>1 DEF IInv, InHandOK, OrderOK, Others
  <1>4. DroppedForCause'
    BY <1>1 DEF IInv, DroppedForCause
  <1>5. OneCopy'
    <2>1. /\ InHand = {msg} /\ InHand' = {}
          /\ Queued' = Queued /\ SentMessages' = SentMessages /\ Arrived' = Arrived
      BY <1>1 DEF InHand, Queued, SentMessages, Arrived
    <2> QED BY <1>1, <2>1 DEF IInv, OneCopy
  <1> QED BY <1>2, <1>3, <1>4, <1>5 DEF IInv

LEMMA RequeueIInv == IInv /\ Requeue /\ Others => IInv'
  <1> SUFFICES ASSUME IInv, Requeue, Others PROVE IInv'
    OBVIOUS
  <1> USE DEF Requeue, Return, Turn
  <1>1. msg \in Message /\ messageQueue \in Seq(Message)
    BY DEF IInv, InHandOK, TypeOK
  <1>2. /\ messageQueue' \in Seq(Message)
        /\ Elements(messageQueue') = Elements(messageQueue) \cup {msg}
        /\ Injective(messageQueue) /\ msg \notin Elements(messageQueue) => Injective(messageQueue')
    BY <1>1, AppendElements
  <1>3. TypeOK'
    BY <1>1, <1>2 DEF IInv, TypeOK
  <1>4. InHandOK' /\ OrderOK' /\ DroppedForCause'
    BY DEF IInv, InHandOK, OrderOK, DroppedForCause, Others
  <1>5. OneCopy'
    <2>1. /\ Queued = Elements(messageQueue) /\ Queued' = Elements(messageQueue')
          /\ InHand = {msg} /\ InHand' = {}
          /\ Arrived' = Arrived /\ SentMessages' = SentMessages
          /\ sent' = sent /\ dropped' = dropped
      BY DEF Queued, Elements, InHand, Arrived, SentMessages
    <2>2. Injective(messageQueue) /\ msg \notin Elements(messageQueue)
      BY <2>1 DEF IInv, OneCopy, Injective
    <2> QED BY <1>2, <2>1, <2>2 DEF IInv, OneCopy, Injective
  <1> QED BY <1>3, <1>4, <1>5 DEF IInv

LEMMA EnqueueIInv == ASSUME NEW m \in Message PROVE IInv /\ Enqueue(m) /\ Others => IInv'
  <1> SUFFICES ASSUME IInv, Enqueue(m), Others PROVE IInv'
    OBVIOUS
  <1> USE DEF Enqueue, dispatcher
  <1>1. messageQueue \in Seq(Message) /\ arrived \in Seq(Message)
    BY DEF IInv, TypeOK
  <1>2. /\ messageQueue' \in Seq(Message) /\ arrived' \in Seq(Message)
        /\ Elements(messageQueue') = Elements(messageQueue) \cup {m}
        /\ Elements(arrived') = Elements(arrived) \cup {m}
        /\ Injective(messageQueue) /\ m \notin Elements(messageQueue) => Injective(messageQueue')
    BY <1>1, AppendElements
  <1>3. TypeOK'
    BY <1>2 DEF IInv, TypeOK
  <1>4. InHandOK' /\ OrderOK' /\ DroppedForCause'
    BY DEF IInv, InHandOK, OrderOK, DroppedForCause, Others
  <1>5. OneCopy'
    <2>1. /\ Queued = Elements(messageQueue) /\ Queued' = Elements(messageQueue')
          /\ Arrived = Elements(arrived) /\ Arrived' = Elements(arrived')
          /\ InHand' = InHand /\ SentMessages' = SentMessages
          /\ sent' = sent /\ dropped' = dropped
      BY DEF Queued, Elements, InHand, Arrived, SentMessages
    <2>2. Injective(messageQueue) /\ m \notin Arrived
      BY DEF IInv, OneCopy, Injective
    <2> QED BY <1>2, <2>1, <2>2 DEF IInv, OneCopy, Injective
  <1> QED BY <1>3, <1>4, <1>5 DEF IInv

LEMMA SendIInv == IInv /\ DSend => IInv'
  <1> SUFFICES ASSUME IInv, DSend PROVE IInv'
    OBVIOUS
  <1> USE DEF DSend, Send, Return, Turn
  <1>1. /\ msg \in Message /\ TagOf[msg] \in Topic /\ consumerList # <<>>
        /\ sent \in Seq(Message \X Socket)
    BY DEF IInv, InHandOK, TypeOK
  <1>2. /\ Len(consumerList) \in Nat \ {0} /\ Index \in Nat /\ SelectedConsumer \in Socket
    BY <1>1, IndexRange DEF IInv
  <1>3. /\ sent' \in Seq(Message \X Socket)
        /\ SentMessages' = SentMessages \cup {msg}
        /\ DistinctFirsts(sent) /\ msg \notin SentMessages => DistinctFirsts(sent')
    <2>1. sent' = Append(sent, <<msg, SelectedConsumer>>)
      OBVIOUS
    <2>2. SentMessages = Firsts(sent) /\ SentMessages' = Firsts(sent')
      BY DEF SentMessages, Firsts
    <2>3. /\ Append(sent, <<msg, SelectedConsumer>>) \in Seq(Message \X Socket)
          /\ Firsts(Append(sent, <<msg, SelectedConsumer>>)) = Firsts(sent) \cup {msg}
          /\ DistinctFirsts(sent) /\ msg \notin Firsts(sent)
             => DistinctFirsts(Append(sent, <<msg, SelectedConsumer>>))
      BY <1>1, <1>2, AppendFirsts, Zenon
    <2> QED BY <2>1, <2>2, <2>3, Zenon
  <1>4. (Index + 1) % Len(consumerList) \in Nat
    BY <1>2
  <1>5. TypeOK'
    BY <1>1, <1>3, <1>4 DEF IInv, TypeOK
  <1>6. InHandOK' /\ OrderOK' /\ DroppedForCause'
    BY DEF IInv, InHandOK, OrderOK, DroppedForCause
  <1>7. OneCopy'
    <2>1. /\ InHand = {msg} /\ InHand' = {}
          /\ Queued' = Queued /\ Arrived' = Arrived /\ dropped' = dropped
          /\ messageQueue' = messageQueue
      BY DEF InHand, Queued, Arrived
    <2> QED BY <1>3, <2>1 DEF IInv, OneCopy, DistinctFirsts
  <1> QED BY <1>5, <1>6, <1>7 DEF IInv

\* What is in each subscriber set's order are sockets.
LEMMA OrdersAreSequences == ASSUME NEW S \in SUBSET Socket, NEW l \in Orders(S) PROVE l \in Seq(Socket)
  <1>1. Cardinality(S) \in Nat
    BY DispatchAssumption, FS_Subset, FS_CardinalityType
  <1>2. l \in [1..Cardinality(S) -> Socket]
    BY DEF Orders
  <1> QED BY <1>1, <1>2

LEMMA NextIInv == IInv /\ [DNext]_vars => IInv'
  <1> SUFFICES ASSUME IInv, [DNext]_vars PROVE IInv'
    OBVIOUS
  <1>1. CASE Alone /\ Others
    <2>1. CASE (Begin \/ Idle) /\ Others
      <3>1. UNCHANGED <<messageQueue, msg, consumerList, topicRoundRobinIndex, crashed, arrived,
                        sent, dropped, requeued, order>>
            /\ InHand' = InHand /\ dpc' \in {"poll", "end"} /\ isRunning_' = isRunning_
        BY <2>1 DEF Begin, Idle, Turn, InHand, Others, history
      <3>2. TypeOK'
        BY <3>1 DEF IInv, TypeOK
      <3> QED BY <3>1, <3>2, OneCopyFrame DEF IInv, InHandOK, OrderOK, DroppedForCause
    <2> QED BY <1>1, <2>1, PollIInv, DropIInv, RequeueIInv DEF Alone, Continue
  <1>2. CASE DLookup
    <2>1. order[TagOf[msg]] \in Seq(Socket)
      BY <1>2 DEF IInv, OrderOK, DLookup
    <2>2. UNCHANGED <<messageQueue, isRunning_, msg, topicRoundRobinIndex, crashed, arrived,
                      sent, dropped, requeued, order>>
          /\ InHand' = InHand
      BY <1>2 DEF DLookup, Lookup, history, InHand
    <2>3. TypeOK'
      BY <1>2, <2>1, <2>2 DEF IInv, TypeOK, DLookup, Lookup
    <2>4. InHandOK'
      BY <1>2 DEF IInv, InHandOK, DLookup, Lookup
    <2> QED BY <2>2, <2>3, <2>4, OneCopyFrame DEF IInv, OrderOK, DroppedForCause
  <1>3. CASE Main
    <2>1. UNCHANGED <<messageQueue, msg, consumerList, topicRoundRobinIndex, crashed, arrived,
                      sent, dropped, requeued, order>>
          /\ InHand' = InHand /\ dpc' \in {dpc, "queued"} /\ isRunning_' \in BOOLEAN
      BY <1>3 DEF Main, Start, Stop, Others, history, dispatcher, InHand
    <2>2. TypeOK'
      BY <2>1 DEF IInv, TypeOK
    <2> QED BY <2>1, <2>2, OneCopyFrame DEF IInv, InHandOK, OrderOK, DroppedForCause
  <1>4. CASE \E t \in Topic : Change(t)
    <2> PICK t \in Topic : Change(t)
      BY <1>4
    <2>1. dvars' = dvars
      BY DEF Change
    <2>2. PICK S \in SUBSET Socket : \E l \in Orders(S) : order' = [order EXCEPT ![t] = l]
      BY DEF Change
    <2>3. PICK l \in Orders(S) : order' = [order EXCEPT ![t] = l]
      BY <2>2
    <2>5. OrderOK'
      BY <2>3, OrdersAreSequences DEF IInv, OrderOK
    <2>4. InHand' = InHand
      BY <2>1 DEF dvars, dispatcher, InHand
    <2> QED BY <2>1, <2>4, <2>5, OneCopyFrame
            DEF IInv, TypeOK, InHandOK, DroppedForCause, dvars, dispatcher, history
  <1>5. CASE UNCHANGED vars
    <2>1. dvars' = dvars /\ order' = order
      BY <1>5 DEF vars
    <2>2. InHand' = InHand
      BY <2>1 DEF dvars, dispatcher, InHand
    <2> QED BY <2>1, <2>2, OneCopyFrame
            DEF IInv, TypeOK, InHandOK, OrderOK, DroppedForCause, dvars, dispatcher, history
  <1>6. CASE \E m \in Message : Enqueue(m) /\ Others
    BY <1>6, EnqueueIInv
  <1> QED BY <1>1, <1>2, <1>3, <1>4, <1>5, <1>6, SendIInv DEF DNext, Dispatcher, World

THEOREM Invariance == SafetySpec => []IInv
  BY InitIInv, NextIInv, PTL DEF SafetySpec
-----------------------------------------------------------------------------
\* The dispatcher's state keeps its types: in particular the index never goes
\* negative and a send always has a consumer of the list to go to.
THEOREM TypeCorrect == SafetySpec => []TypeOK
  <1>1. IInv => TypeOK
    BY DEF IInv
  <1> QED BY <1>1, Invariance, PTL

\* Every message handed over is in exactly one place, for any number of
\* messages, topics and consumers and any changes of subscriptions.
THEOREM Conservation == SafetySpec => []OneCopy
  <1>1. IInv => OneCopy
    BY DEF IInv
  <1> QED BY <1>1, Invariance, PTL

\* A message of a topic is never thrown away, however long it has no consumer.
THEOREM NothingDropped == SafetySpec => []DroppedForCause
  <1>1. IInv => DroppedForCause
    BY DEF IInv
  <1> QED BY <1>1, Invariance, PTL
-----------------------------------------------------------------------------
(* The order of sending *)

\* A step that moves no message keeps the order; one put back is no longer judged.
LEMMA InLineFrame ==
    ASSUME InLine, UNCHANGED <<messageQueue, sent, arrived>>, InHand' \subseteq InHand,
           requeued \subseteq requeued'
    PROVE  InLine'
  <1>1. /\ Queued' = Queued /\ SentMessages' = SentMessages
        /\ \A a, b : /\ Precedes(arrived', a, b) <=> Precedes(arrived, a, b)
                     /\ Precedes(messageQueue', a, b) <=> Precedes(messageQueue, a, b)
                     /\ FirstsPrecede(sent', a, b) <=> FirstsPrecede(sent, a, b)
    BY DEF Queued, SentMessages
  <1>2. Injective(arrived')
    BY DEF InLine
  <1> QED BY <1>1, <1>2 DEF InLine

\* The message taken is the first of the queue: all that arrived after it are
\* still behind, and none that arrived before it is left.
LEMMA PollInLine == ASSUME IInv, InLine, Poll PROVE InLine'
  <1>1. /\ messageQueue \in Seq(Message) /\ messageQueue # <<>> /\ InHand = {}
        /\ messageQueue' = Tail(messageQueue)
        /\ UNCHANGED <<arrived, sent, requeued>>
        /\ Injective(messageQueue) /\ SentMessages \cap Queued = {}
    BY DEF IInv, TypeOK, OneCopy, Injective, Poll, InHand
  <1> DEFINE h == Head(messageQueue)
  <1>2. /\ Queued = Queued' \cup {h} /\ h \notin Queued'
    <2>1. Queued = Elements(messageQueue) /\ Queued' = Elements(messageQueue')
      BY DEF Queued, Elements
    <2> QED BY <1>1, <2>1, TailElements
  <1>3. \A a, b : Precedes(messageQueue, a, b)
                    <=> Precedes(messageQueue', a, b) \/ (a = h /\ b \in Queued')
    <2>1. Queued' = Elements(Tail(messageQueue))
      BY <1>1 DEF Queued, Elements
    <2> QED BY <1>1, <2>1, TailPrecedes
  <1>4. InHand' \subseteq {h} /\ SentMessages' = SentMessages
    BY <1>1 DEF Poll, InHand, Turn, SentMessages
  <1> HIDE DEF h
  <1>5. ASSUME NEW a \in Message \ requeued, NEW b \in Message \ requeued, Precedes(arrived, a, b)
        PROVE  /\ ~Precedes(messageQueue', b, a) /\ ~FirstsPrecede(sent', b, a)
               /\ b \in SentMessages' => a \notin Queued' \cup InHand'
               /\ b \in InHand' => a \notin Queued'
    <2>1. /\ ~Precedes(messageQueue, b, a) /\ ~FirstsPrecede(sent, b, a)
          /\ b \in SentMessages => a \notin Queued
      BY <1>5 DEF InLine
    <2>2. ~Precedes(messageQueue', b, a) /\ ~FirstsPrecede(sent', b, a)
      BY <1>1, <1>3, <2>1
    <2>3. b \in SentMessages' => a \notin Queued' \cup InHand'
      BY <1>2, <1>4, <2>1
    <2>4. b \in InHand' => a \notin Queued'
      BY <1>3, <1>4, <2>1
    <2> QED BY <2>2, <2>3, <2>4
  <1>6. Injective(arrived')
    BY <1>1 DEF InLine
  <1> QED BY <1>1, <1>5, <1>6, Zenon DEF InLine

\* What is sent was in hand: nothing that arrived before it is still queued.
LEMMA SendInLine == ASSUME IInv, InLine, DSend PROVE InLine'
  <1>1. /\ dpc = "send" /\ msg \in Message /\ TagOf[msg] \in Topic /\ consumerList # <<>>
        /\ sent \in Seq(Message \X Socket) /\ InHand = {msg} /\ msg \notin SentMessages
    BY DEF IInv, InHandOK, TypeOK, OneCopy, InHand, DSend, Send
  <1>2. SelectedConsumer \in Socket
    BY <1>1, IndexRange DEF IInv
  <1>3. /\ sent' = Append(sent, <<msg, SelectedConsumer>>) /\ InHand' = {}
        /\ UNCHANGED <<messageQueue, arrived, requeued>>
    BY DEF DSend, Send, Return, Turn, InHand
  <1>4. /\ SentMessages' = SentMessages \cup {msg} /\ Queued' = Queued
        /\ \A a, b : FirstsPrecede(sent', a, b)
                       => FirstsPrecede(sent, a, b) \/ (b = msg /\ a \in SentMessages)
    <2>1. SentMessages = Firsts(sent) /\ SentMessages' = Firsts(sent') /\ Queued' = Queued
      BY <1>3 DEF SentMessages, Firsts, Queued
    <2>2. Firsts(sent') = Firsts(sent) \cup {msg}
      BY <1>1, <1>2, <1>3, AppendFirsts
    <2>3. \A a, b : FirstsPrecede(sent', a, b)
                       => FirstsPrecede(sent, a, b) \/ (b = msg /\ a \in Firsts(sent))
      BY <1>1, <1>2, <1>3, AppendFirstsPrecede
    <2> QED BY <2>1, <2>2, <2>3
  <1>5. ASSUME NEW a \in Message \ requeued, NEW b \in Message \ requeued, Precedes(arrived, a, b)
        PROVE  /\ ~Precedes(messageQueue', b, a) /\ ~FirstsPrecede(sent', b, a)
               /\ b \in SentMessages' => a \notin Queued' \cup InHand'
               /\ b \in InHand' => a \notin Queued'
    <2>1. /\ ~Precedes(messageQueue, b, a) /\ ~FirstsPrecede(sent, b, a)
          /\ b \in SentMessages => a \notin Queued \cup InHand
          /\ b \in InHand => a \notin Queued
      BY <1>5 DEF InLine
    <2> QED BY <1>1, <1>3, <1>4, <2>1
  <1>6. Injective(arrived')
    BY <1>3 DEF InLine
  <1> QED BY <1>3, <1>5, <1>6, Zenon DEF InLine

\* What arrives comes after all that has arrived before, in the queue as well.
LEMMA EnqueueInLine == ASSUME IInv, InLine, NEW m \in Message, Enqueue(m) PROVE InLine'
  <1>1. /\ arrived' = Append(arrived, m) /\ messageQueue' = Append(messageQueue, m)
        /\ UNCHANGED <<sent, requeued>> /\ InHand' = InHand
        /\ arrived \in Seq(Message) /\ messageQueue \in Seq(Message)
        /\ m \notin Arrived
        /\ Arrived = Queued \cup InHand \cup SentMessages \cup dropped
    BY DEF Enqueue, dispatcher, InHand, IInv, TypeOK, OneCopy
  <1>2. /\ Queued' = Queued \cup {m} /\ SentMessages' = SentMessages
        /\ Injective(arrived')
    <2>1. /\ Queued = Elements(messageQueue) /\ Queued' = Elements(messageQueue')
          /\ Arrived = Elements(arrived)
      BY DEF Queued, Elements, Arrived
    <2>2. SentMessages' = SentMessages
      BY <1>1 DEF SentMessages
    <2>3. Injective(arrived)
      BY DEF InLine
    <2> QED BY <1>1, <2>1, <2>2, <2>3, AppendElements
  <1>3. /\ \A a, b : Precedes(arrived', a, b)
                       <=> Precedes(arrived, a, b) \/ (b = m /\ a \in Arrived)
        /\ \A a, b : Precedes(messageQueue', a, b)
                       <=> Precedes(messageQueue, a, b) \/ (b = m /\ a \in Queued)
        /\ \A a, b : Precedes(arrived, a, b) => a \in Arrived
    <2>1. Queued = Elements(messageQueue) /\ Arrived = Elements(arrived)
      BY DEF Queued, Elements, Arrived
    <2>2. \A a, b : Precedes(arrived, a, b) => a \in Arrived
      BY DEF Precedes, Arrived
    <2> QED BY <1>1, <2>1, <2>2, AppendPrecedes
  <1>4. ASSUME NEW a \in Message \ requeued, NEW b \in Message \ requeued, Precedes(arrived', a, b)
        PROVE  /\ ~Precedes(messageQueue', b, a) /\ ~FirstsPrecede(sent', b, a)
               /\ b \in SentMessages' => a \notin Queued' \cup InHand'
               /\ b \in InHand' => a \notin Queued'
    <2>1. CASE Precedes(arrived, a, b)
      <3>1. /\ ~Precedes(messageQueue, b, a) /\ ~FirstsPrecede(sent, b, a)
            /\ b \in SentMessages => a \notin Queued \cup InHand
            /\ b \in InHand => a \notin Queued
        BY <1>4, <2>1 DEF InLine
      <3>2. a # m
        BY <1>1, <1>3, <2>1
      <3> QED BY <1>1, <1>2, <1>3, <3>1, <3>2
    <2>2. CASE b = m /\ a \in Arrived
      <3>1. m \notin Queued \cup InHand \cup SentMessages /\ a # m
        BY <1>1, <2>2
      <3>2. ~Precedes(messageQueue, m, a)
        BY <3>1 DEF Precedes, Queued
      <3>3. ~FirstsPrecede(sent, m, a)
        BY <3>1 DEF FirstsPrecede, SentMessages
      <3> QED BY <1>1, <1>2, <1>3, <2>2, <3>1, <3>2, <3>3
    <2> QED BY <1>3, <1>4, <2>1, <2>2
  <1> QED BY <1>1, <1>2, <1>4, Zenon DEF InLine

\* What is put back was put back: its order is no longer asked for.
LEMMA RequeueInLine == ASSUME IInv, InLine, Requeue PROVE InLine'
  <1>1. /\ messageQueue' = Append(messageQueue, msg) /\ requeued' = requeued \cup {msg}
        /\ UNCHANGED <<sent, arrived>> /\ InHand' = {}
        /\ messageQueue \in Seq(Message) /\ msg \in Message
    BY DEF Requeue, Return, Turn, InHand, IInv, TypeOK, InHandOK
  <1>2. /\ Queued' = Queued \cup {msg} /\ SentMessages' = SentMessages
    <2>1. Queued = Elements(messageQueue) /\ Queued' = Elements(messageQueue')
      BY DEF Queued, Elements
    <2>2. SentMessages' = SentMessages
      BY <1>1 DEF SentMessages
    <2> QED BY <1>1, <2>1, <2>2, AppendElements
  <1>3. \A a, b : Precedes(messageQueue', a, b)
                    <=> Precedes(messageQueue, a, b) \/ (b = msg /\ a \in Elements(messageQueue))
    BY <1>1, AppendPrecedes
  <1>4. ASSUME NEW a \in Message \ requeued', NEW b \in Message \ requeued', Precedes(arrived, a, b)
        PROVE  /\ ~Precedes(messageQueue', b, a) /\ ~FirstsPrecede(sent', b, a)
               /\ b \in SentMessages' => a \notin Queued' \cup InHand'
               /\ b \in InHand' => a \notin Queued'
    <2>1. a \in Message \ requeued /\ b \in Message \ requeued /\ a # msg /\ b # msg
      BY <1>1
    <2>2. /\ ~Precedes(messageQueue, b, a) /\ ~FirstsPrecede(sent, b, a)
          /\ b \in SentMessages => a \notin Queued \cup InHand
      BY <1>4, <2>1 DEF InLine
    <2> QED BY <1>1, <1>2, <1>3, <2>1, <2>2
  <1>5. Injective(arrived')
    BY <1>1 DEF InLine
  <1> QED BY <1>1, <1>4, <1>5, Zenon DEF InLine

LEMMA NextInLine == IInv /\ InLine /\ [DNext]_vars => InLine'
  <1> SUFFICES ASSUME IInv, InLine, [DNext]_vars PROVE InLine'
    OBVIOUS
  <1> USE DEF dvars, dispatcher, history
  <1>1. CASE Begin \/ Idle \/ TagUntyped \/ LacksTag
    BY <1>1, InLineFrame DEF Begin, Idle, TagUntyped, LacksTag, Return, Turn, InHand
  <1>2. CASE DLookup \/ Main
    BY <1>2, InLineFrame DEF DLookup, Lookup, Main, Start, Stop, InHand
  <1>3. CASE \E t \in Topic : Change(t)
    BY <1>3, InLineFrame DEF Change, InHand
  <1>4. CASE UNCHANGED vars
    BY <1>4, InLineFrame DEF vars, InHand
  <1> QED BY <1>1, <1>2, <1>3, <1>4, PollInLine, RequeueInLine, SendInLine, EnqueueInLine
          DEF DNext, Dispatcher, World, Alone, Continue

\* Of two messages that were never put back the one that arrived first is sent
\* first, for any number of messages, topics and consumers.
THEOREM FirstComeFirstSent == SafetySpec => []InOrder
  <1>1. DInit => InLine
    <2> SUFFICES ASSUME DInit PROVE InLine
      OBVIOUS
    <2>1. arrived = <<>>
      BY DEF DInit, Init
    <2>2. DOMAIN arrived = {}
      BY <2>1
    <2> QED BY <2>2 DEF InLine, Injective, Precedes
  <1>2. InLine /\ IInv => InOrder
    <2> SUFFICES ASSUME InLine, IInv,
                        NEW i \in DOMAIN arrived, NEW j \in DOMAIN arrived,
                        NEW k \in DOMAIN sent, NEW l \in DOMAIN sent,
                        i < j, sent[k][1] = arrived[i], sent[l][1] = arrived[j],
                        {arrived[i], arrived[j]} \cap requeued = {}
                 PROVE  k < l
      BY DEF InOrder
    <2>1. /\ DOMAIN arrived = 1..Len(arrived) /\ DOMAIN sent = 1..Len(sent)
          /\ Len(arrived) \in Nat /\ Len(sent) \in Nat
          /\ arrived[i] \in Message /\ arrived[j] \in Message
      BY DEF IInv, TypeOK
    <2>2. Precedes(arrived, arrived[i], arrived[j])
      BY DEF Precedes
    <2>3. ~FirstsPrecede(sent, arrived[j], arrived[i])
      BY <2>1, <2>2 DEF InLine
    <2>4. ~(l < k)
      BY <2>3 DEF FirstsPrecede
    <2>5. l # k
      BY <2>1 DEF InLine, Injective
    <2> QED BY <2>1, <2>4, <2>5
  <1> QED BY <1>1, <1>2, NextInLine, Invariance, PTL DEF SafetySpec
-----------------------------------------------------------------------------
(* Round robin *)

\* One place on in a list of n, what was d places back is one further back.
LEMMA BackFacts ==
    ASSUME NEW n \in Nat \ {0}, NEW x \in 0..(n - 1)
    PROVE  /\ (x + 1) % n \in 0..(n - 1)
           /\ Back((x + 1) % n, 1, n) = x
           /\ \A d \in 1..(n - 1) : Back((x + 1) % n, d + 1, n) = Back(x, d, n)
           /\ \A d \in 1..n : Back(x, d, n) \in 0..(n - 1)
           /\ \A d, e \in 1..n : Back(x, d, n) = Back(x, e, n) => d = e
  <1>1. (x + 1) % n = IF x + 1 = n THEN 0 ELSE x + 1
    OBVIOUS
  <1> QED BY <1>1 DEF Back

\* r is the record l with e at the end, of which n at most are kept.
Follows(S, r, l, e, n) == /\ r \in Seq(S) /\ r # <<>>
                          /\ Len(r) <= n /\ Len(r) <= Len(l) + 1
                          /\ r[Len(r)] = e
                          /\ \A d \in 1..(Len(r) - 1) :
                                r[Len(r) - (d + 1) + 1] = l[Len(l) - d + 1]

LEMMA LatestFacts ==
    ASSUME NEW S, NEW l \in Seq(S), NEW e \in S, NEW n \in Nat \ {0}, Len(l) <= n
    PROVE  Follows(S, Latest(Append(l, e), n), l, e, n)
  <1> DEFINE a == Append(l, e)
  <1>1. /\ a \in Seq(S) /\ Len(a) = Len(l) + 1 /\ Len(l) \in Nat
        /\ \A i \in 1..Len(l) : a[i] = l[i]
        /\ a[Len(l) + 1] = e
    OBVIOUS
  <1> HIDE DEF a
  <1>2. CASE Len(a) <= n
    <2>1. Latest(a, n) = a
      BY <1>2, Zenon DEF Latest
    <2>2. ASSUME NEW d \in 1..(Len(a) - 1) PROVE a[Len(a) - (d + 1) + 1] = l[Len(l) - d + 1]
      <3>1. Len(a) - (d + 1) + 1 = Len(l) - d + 1 /\ Len(l) - d + 1 \in 1..Len(l)
        BY <1>1
      <3> QED BY <1>1, <3>1
    <2>3. a # <<>> /\ Len(a) <= Len(l) + 1 /\ a[Len(a)] = e
      BY <1>1
    <2>4. Follows(S, a, l, e, n)
      BY <1>1, <1>2, <2>2, <2>3, Zenon DEF Follows
    <2> QED BY <2>1, <2>4, Zenon DEF a
  <1>3. CASE ~(Len(a) <= n)
    <2> DEFINE r == SubSeq(a, 2, n + 1)
    <2>1. Len(l) = n /\ Latest(a, n) = r
      <3>1. Latest(a, n) = SubSeq(a, Len(a) - n + 1, Len(a))
        BY <1>3, Zenon DEF Latest
      <3>2. Len(l) = n /\ Len(a) - n + 1 = 2 /\ Len(a) = n + 1
        BY <1>1, <1>3
      <3> QED BY <3>1, <3>2, Zenon
    <2>2. 2 \in Int /\ n + 1 \in Int /\ \A i \in 2..(n + 1) : a[i] \in S
      BY <1>1, <2>1
    <2>3. /\ r \in Seq(S) /\ Len(r) = IF 2 <= n + 1 THEN n + 1 - 2 + 1 ELSE 0
          /\ \A i \in 1..(n + 1 - 2 + 1) : r[i] = a[2 + i - 1]
      BY <2>2, SubSeqProperties
    <2> HIDE DEF r
    <2>4. Len(r) = n /\ \A i \in 1..n : r[i] = a[i + 1]
      <3>1. \A i \in 1..n : 2 + i - 1 = i + 1 /\ n + 1 - 2 + 1 = n
        OBVIOUS
      <3> QED BY <2>3, <3>1
    <2>5. r # <<>> /\ r[Len(r)] = e /\ Len(r) <= n /\ Len(r) <= Len(l) + 1
      <3>1. n \in 1..n
        OBVIOUS
      <3> QED BY <1>1, <2>1, <2>3, <2>4, <3>1
    <2>6. ASSUME NEW d \in 1..(Len(r) - 1) PROVE r[Len(r) - (d + 1) + 1] = l[Len(l) - d + 1]
      <3>1. /\ n - (d + 1) + 1 \in 1..n /\ n - (d + 1) + 1 + 1 = n - d + 1
            /\ n - d + 1 \in 1..n
        BY <2>4
      <3> QED BY <1>1, <2>1, <2>4, <3>1
    <2>7. Follows(S, r, l, e, n)
      BY <2>3, <2>5, <2>6, Zenon DEF Follows
    <2> QED BY <2>1, <2>7, Zenon DEF a
  <1> QED BY <1>2, <1>3

\* A send from the place the index is brought to leaves the topic in turn.
LEMMA SendInTurn ==
    ASSUME NEW S, NEW l \in Seq(S), NEW o \in Seq(S), NEW x \in Nat, o # <<>>, InTurn(l, x, o),
           NEW y, y = (IF x >= Len(o) THEN 0 ELSE x)
    PROVE  InTurn(Latest(Append(l, o[y + 1]), Len(o)), (y + 1) % Len(o), o)
  <1> DEFINE n == Len(o)
             r == Latest(Append(l, o[y + 1]), n)
             z == (y + 1) % n
  <1>1. n \in Nat \ {0} /\ y \in 0..(n - 1) /\ o[y + 1] \in S /\ Len(l) <= n
    <2>1. n \in Nat \ {0} /\ y \in 0..(n - 1)
      OBVIOUS
    <2>2. y + 1 \in 1..n
      BY <2>1
    <2> QED BY <2>1, <2>2 DEF InTurn
  <1>2. Follows(S, r, l, o[y + 1], n)
    BY <1>1, LatestFacts
  <1> HIDE DEF r
  <1>3. /\ z \in 0..(n - 1) /\ Back(z, 1, n) = y
        /\ \A d \in 1..(n - 1) : Back(z, d + 1, n) = Back(y, d, n)
    BY <1>1, BackFacts
  <1> HIDE DEF z
  <1>4. ASSUME NEW d \in 1..Len(r) PROVE r[Len(r) - d + 1] = o[Back(z, d, n) + 1]
    <2>1. Len(r) \in Nat /\ Len(l) \in Nat /\ Len(r) <= n /\ Len(r) <= Len(l) + 1
      BY <1>2 DEF Follows
    <2>2. CASE d = 1
      <3>1. Len(r) - d + 1 = Len(r)
        BY <2>1, <2>2
      <3> QED BY <1>2, <1>3, <2>2, <3>1 DEF Follows
    <2>3. CASE d # 1
      <3> DEFINE c == d - 1
      <3>1. /\ c \in 1..(Len(r) - 1) /\ c \in 1..(n - 1) /\ c \in 1..Len(l) /\ c + 1 = d
        BY <1>1, <2>1, <2>3
      <3> HIDE DEF c
      <3>2. r[Len(r) - (c + 1) + 1] = l[Len(l) - c + 1]
        BY <1>2, <3>1 DEF Follows
      <3>3. l # <<>>
        BY <2>1, <3>1
      <3>4. y = x
        BY <1>1, <3>3 DEF InTurn
      <3>5. l[Len(l) - c + 1] = o[Back(y, c, n) + 1]
        BY <3>1, <3>4 DEF InTurn
      <3> QED BY <1>3, <3>1, <3>2, <3>5
    <2> QED BY <2>2, <2>3
  <1>5. Injective(o) /\ z < n
    BY <1>1, <1>3 DEF InTurn
  <1> QED BY <1>2, <1>4, <1>5 DEF Follows, InTurn, r, z

\* A step that serves nobody and changes no subscribers
LEMMA TurnsFrame ==
    ASSUME Turns, UNCHANGED <<recent, topicRoundRobinIndex, order>>, fresh' \in BOOLEAN,
           dpc' = "send" => \/ dpc = "send" /\ UNCHANGED <<fresh, consumerList, msg>>
                            \/ fresh' /\ consumerList' = order[TagOf[msg']]
    PROVE  Turns'
  BY DEF Turns

LEMMA SendTurns == ASSUME IInv, Turns, DSend PROVE Turns'
  <1>1. /\ dpc = "send" /\ msg \in Message /\ TagOf[msg] \in Topic /\ consumerList # <<>>
        /\ topicRoundRobinIndex \in [Topic -> Nat] /\ order \in [Topic -> Seq(Socket)]
    BY DEF IInv, InHandOK, TypeOK, OrderOK, DSend, Send
  <1>2. /\ topicRoundRobinIndex' = [topicRoundRobinIndex EXCEPT
                                      ![TagOf[msg]] = (Index + 1) % Len(consumerList)]
        /\ dpc' \in {"poll", "end"} /\ UNCHANGED <<order, fresh>>
    BY DEF DSend, Send, Return, Turn
  <1>3. /\ recent \in [Topic -> Seq(Socket)] /\ fresh \in BOOLEAN
        /\ \A t \in Topic : InTurn(recent[t], topicRoundRobinIndex[t], order[t])
        /\ IF fresh THEN consumerList = order[TagOf[msg]] ELSE recent[TagOf[msg]] = <<>>
    BY <1>1 DEF Turns
  <1>4. (Index + 1) % Len(consumerList) \in Nat /\ SelectedConsumer \in Socket
    BY <1>1, IndexRange DEF IInv
  <1> DEFINE g == TagOf[msg]
             l == recent[g]
             o == order[g]
             x == topicRoundRobinIndex[g]
  <1>5. CASE fresh
    <2>1. /\ recent' = [recent EXCEPT ![g] = Latest(Append(l, SelectedConsumer), Len(o))]
          /\ Index = (IF x >= Len(o) THEN 0 ELSE x)
          /\ SelectedConsumer = o[Index + 1] /\ o # <<>>
      BY <1>1, <1>3, <1>5 DEF DSend, Index, SelectedConsumer
    <2>2. /\ l \in Seq(Socket) /\ o \in Seq(Socket) /\ x \in Nat /\ InTurn(l, x, o)
      BY <1>1, <1>3
    <2> HIDE DEF g, l, o, x
    <2>3. InTurn(Latest(Append(l, SelectedConsumer), Len(o)), (Index + 1) % Len(o), o)
      BY <2>1, <2>2, SendInTurn
    <2>4. Latest(Append(l, SelectedConsumer), Len(o)) \in Seq(Socket)
      <3>1. Len(o) \in Nat \ {0} /\ Len(l) <= Len(o)
        BY <2>1, <2>2 DEF InTurn
      <3> QED BY <1>4, <2>2, <3>1, LatestFacts DEF Follows
    <2>5. g \in Topic /\ recent' \in [Topic -> Seq(Socket)]
      BY <1>1, <1>3, <2>1, <2>4 DEF g
    <2>6. ASSUME NEW t \in Topic PROVE InTurn(recent'[t], topicRoundRobinIndex'[t], order'[t])
      <3>1. CASE t = g
        <4>1. /\ recent'[t] = Latest(Append(l, SelectedConsumer), Len(o)) /\ order'[t] = o
              /\ topicRoundRobinIndex'[t] = (Index + 1) % Len(consumerList)
              /\ consumerList = o
          BY <1>1, <1>2, <1>3, <1>5, <2>1, <3>1 DEF g, o
        <4> QED BY <2>3, <4>1
      <3>2. CASE t # g
        <4>1. /\ recent'[t] = recent[t] /\ order'[t] = order[t]
              /\ topicRoundRobinIndex'[t] = topicRoundRobinIndex[t]
          BY <1>1, <1>2, <1>3, <2>1, <3>2 DEF g
        <4> QED BY <1>3, <4>1
      <3> QED BY <3>1, <3>2
    <2> QED BY <1>2, <1>3, <2>5, <2>6 DEF Turns
  <1>6. CASE ~fresh
    <2>1. recent' = recent
      BY <1>6 DEF DSend
    <2>2. ASSUME NEW t \in Topic PROVE InTurn(recent'[t], topicRoundRobinIndex'[t], order'[t])
      <3>1. CASE t = g
        <4>1. recent'[t] = <<>> /\ order'[t] = order[t] /\ Injective(order[t])
          BY <1>2, <1>3, <1>6, <2>1, <3>1 DEF InTurn
        <4>2. Len(<<>>) = 0 /\ Len(order[t]) \in Nat
          BY <1>1
        <4> QED BY <4>1, <4>2 DEF InTurn
      <3>2. CASE t # g
        <4>1. topicRoundRobinIndex'[t] = topicRoundRobinIndex[t] /\ order'[t] = order[t]
          BY <1>1, <1>2, <3>2
        <4> QED BY <1>3, <2>1, <4>1
      <3> QED BY <3>1, <3>2
    <2> QED BY <1>2, <1>3, <2>1, <2>2 DEF Turns
  <1> QED BY <1>5, <1>6

\* A change of a topic's subscribers: from here its turns are counted anew.
LEMMA ChangeTurns == ASSUME IInv, Turns, NEW t \in Topic, Change(t) PROVE Turns'
  <1>1. PICK S \in SUBSET Socket : \E l \in Orders(S) : order' = [order EXCEPT ![t] = l]
    BY DEF Change
  <1>2. PICK l \in Orders(S) : order' = [order EXCEPT ![t] = l]
    BY <1>1
  <1>3. Injective(l) /\ l \in Seq(Socket)
    BY OrdersAreSequences DEF Orders, Injective
  <1>4. /\ recent' = [recent EXCEPT ![t] = <<>>]
        /\ fresh' = (fresh /\ (msg \in Message => TagOf[msg] # t))
        /\ UNCHANGED <<dpc, msg, consumerList, topicRoundRobinIndex>>
    BY DEF Change, dvars, dispatcher
  <1>5. /\ recent \in [Topic -> Seq(Socket)] /\ order \in [Topic -> Seq(Socket)]
        /\ \A u \in Topic : InTurn(recent[u], topicRoundRobinIndex[u], order[u])
        /\ dpc = "send" => /\ msg \in Message /\ TagOf[msg] \in Topic
                           /\ IF fresh THEN consumerList = order[TagOf[msg]]
                                       ELSE recent[TagOf[msg]] = <<>>
    BY DEF Turns, IInv, OrderOK, InHandOK
  <1>6. recent' \in [Topic -> Seq(Socket)] /\ fresh' \in BOOLEAN
    <2>1. <<>> \in Seq(Socket)
      OBVIOUS
    <2>2. fresh' \in BOOLEAN
      BY <1>4
    <2> QED BY <1>4, <1>5, <2>1, <2>2
  <1>7. ASSUME NEW u \in Topic PROVE InTurn(recent'[u], topicRoundRobinIndex'[u], order'[u])
    <2>1. CASE u = t
      <3>1. recent'[u] = <<>> /\ order'[u] = l
        BY <1>2, <1>4, <1>5, <2>1
      <3>2. Len(<<>>) = 0 /\ Len(l) \in Nat
        BY <1>3
      <3> QED BY <1>3, <3>1, <3>2 DEF InTurn
    <2>2. CASE u # t
      <3>1. recent'[u] = recent[u] /\ order'[u] = order[u]
        BY <1>2, <1>4, <1>5, <2>2
      <3> QED BY <1>4, <1>5, <3>1
    <2> QED BY <2>1, <2>2
  <1>8. ASSUME dpc' = "send"
        PROVE  IF fresh' THEN consumerList' = order'[TagOf[msg']]
                         ELSE recent'[TagOf[msg']] = <<>>
    <2>1. CASE TagOf[msg] = t
      BY <1>4, <1>5, <1>8, <2>1
    <2>2. CASE TagOf[msg] # t
      BY <1>2, <1>4, <1>5, <1>8, <2>2
    <2> QED BY <2>1, <2>2
  <1> QED BY <1>6, <1>7, <1>8 DEF Turns

LEMMA NextTurns == IInv /\ Turns /\ [DNext]_vars => Turns'
  <1> SUFFICES ASSUME IInv, Turns, [DNext]_vars PROVE Turns'
    OBVIOUS
  <1> USE DEF dvars, dispatcher, history, Others
  <1>0. fresh \in BOOLEAN
    BY DEF Turns
  <1>1. CASE Alone /\ Others
    BY <1>0, <1>1, TurnsFrame DEF Alone, Continue, Begin, Idle, Poll, TagUntyped, LacksTag, Requeue,
       Return, Turn
  <1>2. CASE DLookup
    BY <1>2, TurnsFrame DEF DLookup, Lookup
  <1>3. CASE Main
    BY <1>0, <1>3, TurnsFrame DEF Main, Start, Stop
  <1>4. CASE UNCHANGED vars
    BY <1>0, <1>4, TurnsFrame DEF vars
  <1>5. CASE \E m \in Message : Enqueue(m) /\ Others
    BY <1>0, <1>5, TurnsFrame DEF Enqueue
  <1> QED BY <1>1, <1>2, <1>3, <1>4, <1>5, SendTurns, ChangeTurns DEF DNext, Dispatcher, World

\* While a topic's subscribers stay the same, any n consecutive messages of it go
\* to n different ones when it has n: for any number of subscribers and topics,
\* and wherever a change before left the index.
THEOREM SharedEvenly == SafetySpec => []EvenShare
  <1>1. DInit => Turns
    <2> SUFFICES ASSUME DInit PROVE Turns
      OBVIOUS
    <2>1. <<>> \in Seq(Socket) /\ Len(<<>>) = 0 /\ \A i : i \notin DOMAIN <<>>
      OBVIOUS
    <2>2. /\ recent = [t \in Topic |-> <<>>] /\ order = [t \in Topic |-> <<>>]
          /\ fresh = FALSE /\ dpc = "off"
      BY DEF DInit, Init
    <2>3. recent \in [Topic -> Seq(Socket)]
      BY <2>1, <2>2
    <2>4. ASSUME NEW t \in Topic PROVE InTurn(recent[t], topicRoundRobinIndex[t], order[t])
      <3>1. recent[t] = <<>> /\ order[t] = <<>>
        BY <2>2
      <3>2. Injective(<<>>)
        BY <2>1, Zenon DEF Injective
      <3> QED BY <2>1, <3>1, <3>2 DEF InTurn
    <2> QED BY <2>2, <2>3, <2>4 DEF Turns
  <1>2. Turns /\ IInv => EvenShare
    <2> SUFFICES ASSUME Turns, IInv, NEW t \in Topic,
                        NEW i \in DOMAIN recent[t], NEW j \in DOMAIN recent[t],
                        recent[t][i] = recent[t][j]
                 PROVE  i = j
      BY DEF EvenShare
    <2> DEFINE l == recent[t]
               o == order[t]
               x == topicRoundRobinIndex[t]
               d == Len(l) - i + 1
               e == Len(l) - j + 1
    <2>1. /\ l \in Seq(Socket) /\ o \in Seq(Socket) /\ x \in Nat /\ InTurn(l, x, o)
      BY DEF Turns, IInv, TypeOK, OrderOK
    <2>2. /\ Len(l) \in Nat /\ Len(o) \in Nat /\ i \in 1..Len(l) /\ j \in 1..Len(l)
      BY <2>1
    <2> HIDE DEF l, o, x
    <2>3. /\ d \in 1..Len(l) /\ e \in 1..Len(l) /\ Len(l) - d + 1 = i /\ Len(l) - e + 1 = j
      BY <2>2
    <2> HIDE DEF d, e
    <2>4. /\ Len(l) <= Len(o) /\ Len(o) \in Nat \ {0} /\ x \in 0..(Len(o) - 1)
      <3>1. l # <<>>
        BY <2>1, <2>2
      <3> QED BY <2>1, <2>2, <3>1 DEF InTurn
    <2>5. l[i] = o[Back(x, d, Len(o)) + 1] /\ l[j] = o[Back(x, e, Len(o)) + 1]
      BY <2>1, <2>3 DEF InTurn
    <2>6. d \in 1..Len(o) /\ e \in 1..Len(o)
      BY <2>2, <2>3, <2>4
    <2>7. Back(x, d, Len(o)) \in 0..(Len(o) - 1) /\ Back(x, e, Len(o)) \in 0..(Len(o) - 1)
      BY <2>4, <2>6, BackFacts
    <2>8. Back(x, d, Len(o)) + 1 = Back(x, e, Len(o)) + 1
      <3>1. /\ Back(x, d, Len(o)) + 1 \in DOMAIN o /\ Back(x, e, Len(o)) + 1 \in DOMAIN o
        BY <2>1, <2>7
      <3>2. l[i] = l[j]
        BY DEF l
      <3> QED BY <2>1, <2>5, <3>1, <3>2 DEF InTurn, Injective
    <2>9. d = e
      BY <2>4, <2>6, <2>7, <2>8, BackFacts
    <2> QED BY <2>2, <2>3, <2>9
  <1> QED BY <1>1, <1>2, NextTurns, Invariance, PTL DEF SafetySpec

-----------------------------------------------------------------------------
(* Server: the invariant *)

QueueTypes == /\ messageQueue \in Seq(Message) /\ arrived \in Seq(Message)
              /\ sent \in Seq(Message \X Socket) /\ saved \in Seq(Message \cup {NoMessage})
              /\ InHand \subseteq Message

\* Accounted as its cases, with the order of the queue: where a message can be,
\* and that no two places hold the same one
OnePlace == /\ Arrived = Queued \cup InHand \cup SentMessages \cup dropped \cup SavedMessages
            /\ Injective(messageQueue)
            /\ InHand \cap Queued = {}
            /\ SentMessages \cap (Queued \cup InHand) = {}
            /\ dropped \cap (Queued \cup InHand \cup SentMessages) = {}
            /\ SavedMessages \cap (Queued \cup InHand \cup SentMessages \cup dropped) = {}
            /\ \A i, j \in DOMAIN saved : saved[i] = saved[j] /\ saved[i] # NoMessage => i = j

\* Once save() has found the queue empty, all but one of the messages that had
\* arrived when the server was stopped are where they will stay.
OneLeft == /\ accepted \subseteq Arrived
           /\ mainPc \in {"join", "gone"} =>
                \E m : accepted \cap (Queued \cup InHand) \subseteq {m}

SInv == QueueTypes /\ OnePlace /\ OneLeft

-----------------------------------------------------------------------------
(* Server: the dispatcher's steps and those of the receiver *)

LEMMA InitSInv == SInit => SInv
  <1> SUFFICES ASSUME SInit PROVE SInv
    OBVIOUS
  <1>1. /\ messageQueue = <<>> /\ arrived = <<>> /\ sent = <<>> /\ saved = <<>>
        /\ InHand = {} /\ dropped = {} /\ accepted = {} /\ mainPc = "receive"
    BY DEF SInit, Init, InHand
  <1>2. QueueTypes
    BY <1>1 DEF QueueTypes
  <1>3. /\ Queued = {} /\ Arrived = {} /\ SentMessages = {} /\ SavedMessages = {}
        /\ DOMAIN messageQueue = {} /\ DOMAIN saved = {}
    <2>1. \A s : s = <<>> => DOMAIN s = {}
      OBVIOUS
    <2>2. /\ DOMAIN messageQueue = {} /\ DOMAIN saved = {} /\ DOMAIN arrived = {}
          /\ DOMAIN sent = {}
      BY <1>1, <2>1
    <2> QED BY <2>2, Zenon DEF Queued, Arrived, SentMessages, SavedMessages
  <1> QED BY <1>1, <1>2, <1>3, Zenon DEF SInv, OnePlace, OneLeft, Injective

\* A step that leaves every message where it is keeps the invariant.
LEMMA Frame ==
    ASSUME SInv, InHand' = InHand, UNCHANGED <<messageQueue, sent, arrived, dropped, saved>>,
           accepted' \in {accepted, Arrived},
           mainPc' \in {"join", "gone"} =>
               mainPc \in {"join", "gone"} /\ UNCHANGED accepted
    PROVE  SInv'
  <1>1. /\ Queued' = Queued /\ Arrived' = Arrived /\ SentMessages' = SentMessages
        /\ SavedMessages' = SavedMessages
    BY DEF Queued, Arrived, SentMessages, SavedMessages
  <1>2. QueueTypes'
    BY DEF SInv, QueueTypes
  <1>3. OnePlace'
    BY <1>1 DEF SInv, OnePlace, Injective
  <1>4. OneLeft'
    BY <1>1 DEF SInv, OneLeft, OnePlace
  <1> QED BY <1>2, <1>3, <1>4 DEF SInv

LEMMA PollSInv == ASSUME SInv, Poll, UNCHANGED outer PROVE SInv'
  <1>1. /\ messageQueue \in Seq(Message) /\ messageQueue # <<>> /\ InHand = {}
        /\ messageQueue' = Tail(messageQueue)
        /\ UNCHANGED <<arrived, sent, saved, accepted, mainPc>>
    BY DEF SInv, QueueTypes, Poll, InHand, outer
  <1>2. /\ Head(messageQueue) \in Message /\ Tail(messageQueue) \in Seq(Message)
        /\ Elements(messageQueue) = Elements(Tail(messageQueue)) \cup {Head(messageQueue)}
        /\ Injective(messageQueue) =>
             Injective(Tail(messageQueue)) /\ Head(messageQueue) \notin Elements(Tail(messageQueue))
    BY <1>1, TailElements
  <1>3. /\ Queued = Queued' \cup {Head(messageQueue)}
        /\ Head(messageQueue) \notin Queued' /\ Injective(messageQueue')
        /\ Arrived' = Arrived /\ SentMessages' = SentMessages /\ SavedMessages' = SavedMessages
    <2>1. Queued = Elements(messageQueue) /\ Queued' = Elements(messageQueue')
      BY DEF Queued, Elements
    <2>2. /\ Arrived' = Arrived /\ SentMessages' = SentMessages
          /\ SavedMessages' = SavedMessages
      BY <1>1 DEF Arrived, SentMessages, SavedMessages
    <2>3. Injective(messageQueue)
      BY DEF SInv, OnePlace
    <2> QED BY <1>1, <1>2, <2>1, <2>2, <2>3
  <1>4. \/ InHand' = {Head(messageQueue)} /\ dropped' = dropped
        \/ InHand' = {} /\ dropped' = dropped \cup {Head(messageQueue)}
    BY DEF Poll, InHand, Turn
  <1>5. QueueTypes'
    BY <1>1, <1>2, <1>4 DEF SInv, QueueTypes
  <1>6. OnePlace'
    BY <1>1, <1>3, <1>4 DEF SInv, OnePlace
  <1>7. OneLeft'
    BY <1>1, <1>3, <1>4 DEF SInv, OneLeft
  <1> QED BY <1>5, <1>6, <1>7 DEF SInv

LEMMA DropSInv == ASSUME SInv, TagUntyped \/ LacksTag, UNCHANGED outer PROVE SInv'
  <1>1. /\ InHand = {msg} /\ InHand' = {} /\ dropped' = dropped \cup {msg}
        /\ UNCHANGED <<messageQueue, sent, arrived, saved, accepted, mainPc>>
    BY DEF TagUntyped, LacksTag, Return, Turn, InHand, outer
  <1>2. /\ Queued' = Queued /\ Arrived' = Arrived /\ SentMessages' = SentMessages
        /\ SavedMessages' = SavedMessages
    BY <1>1 DEF Queued, Arrived, SentMessages, SavedMessages
  <1> QED BY <1>1, <1>2 DEF SInv, QueueTypes, OnePlace, OneLeft

LEMMA RequeueSInv == ASSUME SInv, Requeue, UNCHANGED outer PROVE SInv'
  <1>1. /\ InHand = {msg} /\ InHand' = {} /\ messageQueue' = Append(messageQueue, msg)
        /\ UNCHANGED <<sent, arrived, dropped, saved, accepted, mainPc>>
        /\ messageQueue \in Seq(Message) /\ msg \in Message
    BY DEF SInv, QueueTypes, Requeue, Return, Turn, InHand, outer
  <1>2. /\ messageQueue' \in Seq(Message)
        /\ Elements(messageQueue') = Elements(messageQueue) \cup {msg}
        /\ Injective(messageQueue) /\ msg \notin Elements(messageQueue) => Injective(messageQueue')
    BY <1>1, AppendElements
  <1>3. /\ Queued' = Queued \cup {msg} /\ Injective(messageQueue')
        /\ Arrived' = Arrived /\ SentMessages' = SentMessages /\ SavedMessages' = SavedMessages
    BY <1>1, <1>2 DEF Queued, Elements, Arrived, SentMessages, SavedMessages, SInv, OnePlace
  <1> QED BY <1>1, <1>2, <1>3 DEF SInv, QueueTypes, OnePlace, OneLeft

LEMMA SendSInv == ASSUME SInv, NEW s \in Socket, SendTo(s), UNCHANGED outer PROVE SInv'
  <1>1. /\ InHand = {msg} /\ InHand' = {} /\ sent' = Append(sent, <<msg, s>>)
        /\ UNCHANGED <<messageQueue, arrived, dropped, saved, accepted, mainPc>>
        /\ sent \in Seq(Message \X Socket) /\ msg \in Message
    BY DEF SInv, QueueTypes, SendTo, Send, Return, Turn, InHand, outer
  <1>2. sent' \in Seq(Message \X Socket) /\ Firsts(sent') = Firsts(sent) \cup {msg}
    BY <1>1, AppendFirsts
  <1>3. /\ SentMessages' = SentMessages \cup {msg}
        /\ Queued' = Queued /\ Arrived' = Arrived /\ SavedMessages' = SavedMessages
    BY <1>1, <1>2 DEF Firsts, Queued, Arrived, SentMessages, SavedMessages
  <1> QED BY <1>1, <1>2, <1>3 DEF SInv, QueueTypes, OnePlace, OneLeft

LEMMA ReceiveSInv == ASSUME SInv, NEW m \in Message, Receive(m) PROVE SInv'
  <1>1. /\ m \notin Arrived /\ InHand' = InHand
        /\ arrived' = Append(arrived, m) /\ messageQueue' = Append(messageQueue, m)
        /\ UNCHANGED <<sent, dropped, saved, accepted, mainPc>>
        /\ messageQueue \in Seq(Message) /\ arrived \in Seq(Message)
    BY DEF SInv, QueueTypes, Receive, Enqueue, InHand, outer, dispatcher
  <1>2. /\ messageQueue' \in Seq(Message) /\ arrived' \in Seq(Message)
        /\ Elements(messageQueue') = Elements(messageQueue) \cup {m}
        /\ Elements(arrived') = Elements(arrived) \cup {m}
        /\ Injective(messageQueue) /\ m \notin Elements(messageQueue) => Injective(messageQueue')
    BY <1>1, AppendElements
  <1>3. /\ Queued' = Queued \cup {m} /\ Arrived' = Arrived \cup {m}
        /\ SentMessages' = SentMessages /\ SavedMessages' = SavedMessages
    BY <1>1, <1>2 DEF Queued, Elements, Arrived, SentMessages, SavedMessages
  <1>4. m \notin Queued /\ Injective(messageQueue')
    BY <1>1, <1>2 DEF SInv, OnePlace, Queued, Elements
  <1>5. QueueTypes'
    BY <1>1, <1>2 DEF SInv, QueueTypes
  <1>6. OnePlace'
    <2>1. /\ m \notin Queued \cup InHand \cup SentMessages \cup dropped \cup SavedMessages
          /\ \A i, j \in DOMAIN saved' :
               saved'[i] = saved'[j] /\ saved'[i] # NoMessage => i = j
      BY <1>1 DEF SInv, OnePlace
    <2> QED BY <1>1, <1>3, <1>4, <2>1 DEF SInv, OnePlace
  <1>7. OneLeft'
    <2>1. m \notin accepted
      BY <1>1 DEF SInv, OneLeft
    <2>2. accepted' \cap (Queued' \cup InHand') = accepted \cap (Queued \cup InHand)
      BY <1>1, <1>3, <2>1
    <2>3. accepted' \subseteq Arrived' /\ mainPc' = mainPc
      BY <1>1, <1>3 DEF SInv, OneLeft
    <2> QED BY <2>2, <2>3 DEF SInv, OneLeft
  <1> QED BY <1>5, <1>6, <1>7 DEF SInv

-----------------------------------------------------------------------------
(* save() *)

LEMMA SaveTestSInv == ASSUME SInv, SaveTest PROVE SInv'
  <1>1. /\ InHand' = InHand /\ UNCHANGED <<messageQueue, sent, arrived, dropped, saved, accepted>>
        /\ mainPc' \in {"join", "deQueue"} /\ (mainPc' = "join" => messageQueue = <<>>)
    BY DEF SaveTest, dvars, dispatcher, history, InHand
  <1>2. /\ Queued' = Queued /\ Arrived' = Arrived /\ SentMessages' = SentMessages
        /\ SavedMessages' = SavedMessages
    BY <1>1 DEF Queued, Arrived, SentMessages, SavedMessages
  <1>3. mainPc' = "join" => Queued = {}
    <2>1. messageQueue = <<>> => DOMAIN messageQueue = {}
      OBVIOUS
    <2> QED BY <1>1, <2>1 DEF Queued
  <1>4. \E m : InHand \subseteq {m}
    BY DEF InHand
  <1> QED BY <1>1, <1>2, <1>3, <1>4 DEF SInv, QueueTypes, OnePlace, OneLeft

LEMMA SaveTakeSInv == ASSUME SInv, SaveTake PROVE SInv'
  <1>1. /\ InHand' = InHand /\ UNCHANGED <<sent, arrived, dropped, accepted>>
        /\ mainPc' = "empty" /\ saved' = Append(saved, Written)
        /\ messageQueue \in Seq(Message) /\ saved \in Seq(Message \cup {NoMessage})
    BY DEF SaveTake, Call, SaveLoop, dispatcher, history, InHand, SInv, QueueTypes
  <1>2. Arrived' = Arrived /\ SentMessages' = SentMessages
    BY <1>1 DEF Arrived, SentMessages
  <1>3. /\ Written \in Message \cup {NoMessage}
        /\ messageQueue' \in Seq(Message)
        /\ Injective(messageQueue')
        /\ Queued = Queued' \cup ({Written} \ {NoMessage})
        /\ Written \notin Queued'
    <2>1. CASE messageQueue = <<>>
      <3>1. messageQueue' = messageQueue /\ Written = NoMessage
        BY <2>1 DEF SaveTake, Written
      <3>2. Queued' = Queued /\ NoMessage \notin Queued
        BY <1>1, <3>1, TagAssumption DEF Queued
      <3> QED BY <1>1, <3>1, <3>2 DEF SInv, OnePlace
    <2>2. CASE messageQueue # <<>>
      <3>1. messageQueue' = Tail(messageQueue) /\ Written = Head(messageQueue)
        BY <2>2 DEF SaveTake, Written
      <3>2. /\ Head(messageQueue) \in Message /\ Tail(messageQueue) \in Seq(Message)
            /\ Elements(messageQueue) = Elements(Tail(messageQueue)) \cup {Head(messageQueue)}
            /\ Injective(messageQueue) =>
                 /\ Injective(Tail(messageQueue))
                 /\ Head(messageQueue) \notin Elements(Tail(messageQueue))
        BY <1>1, <2>2, TailElements
      <3>3. Queued = Elements(messageQueue) /\ Queued' = Elements(messageQueue')
        BY DEF Queued, Elements
      <3>4. Written # NoMessage
        BY <3>1, <3>2, TagAssumption
      <3> QED BY <3>1, <3>2, <3>3, <3>4 DEF SInv, OnePlace
    <2> QED BY <2>1, <2>2
  <1>4. /\ saved' \in Seq(Message \cup {NoMessage})
        /\ SavedMessages' = SavedMessages \cup ({Written} \ {NoMessage})
    <2>1. /\ saved' \in Seq(Message \cup {NoMessage})
          /\ Elements(saved') = Elements(saved) \cup {Written}
      BY <1>1, <1>3, AppendElements
    <2>2. SavedMessages = Elements(saved) \ {NoMessage}
          /\ SavedMessages' = Elements(saved') \ {NoMessage}
      BY DEF SavedMessages, Elements
    <2> QED BY <2>1, <2>2
  <1>5. \A i, j \in DOMAIN saved' : saved'[i] = saved'[j] /\ saved'[i] # NoMessage => i = j
    <2>1. /\ DOMAIN saved = 1..Len(saved) /\ Len(saved) \in Nat
          /\ DOMAIN saved' = 1..(Len(saved) + 1)
          /\ \A i \in 1..Len(saved) : saved'[i] = saved[i]
          /\ saved'[Len(saved) + 1] = Written
      BY <1>1, <1>3
    <2>2. Written # NoMessage => Written \in Queued
      BY <1>3
    <2>3. ASSUME NEW i \in 1..Len(saved), Written # NoMessage PROVE saved[i] # Written
      <3>1. saved[i] # NoMessage => saved[i] \in SavedMessages
        BY <2>1 DEF SavedMessages
      <3> QED BY <2>2, <2>3, <3>1 DEF SInv, OnePlace
    <2>4. ASSUME NEW i \in DOMAIN saved', NEW j \in DOMAIN saved',
                 saved'[i] = saved'[j], saved'[i] # NoMessage
          PROVE  i = j
      <3>1. CASE i \in 1..Len(saved) /\ j \in 1..Len(saved)
        BY <2>1, <2>4, <3>1 DEF SInv, OnePlace
      <3>2. CASE i = Len(saved) + 1 \/ j = Len(saved) + 1
        BY <2>1, <2>3, <2>4, <3>2
      <3> QED BY <2>1, <2>4, <3>1, <3>2
    <2> QED BY <2>4
  <1>6. OnePlace'
    BY <1>1, <1>2, <1>3, <1>4, <1>5 DEF SInv, OnePlace
  <1>7. QueueTypes'
    BY <1>1, <1>3, <1>4 DEF SInv, QueueTypes
  <1>8. OneLeft'
    BY <1>1, <1>2 DEF SInv, OneLeft
  <1> QED BY <1>6, <1>7, <1>8 DEF SInv

-----------------------------------------------------------------------------
(* The theorems *)

LEMMA NextSInv == SInv /\ [SNext]_svars => SInv'
  <1> SUFFICES ASSUME SInv, [SNext]_svars PROVE SInv'
    OBVIOUS
  <1> USE DEF dvars, dispatcher, history, outer, consumers, InHand
  <1>1. CASE EnqueueTask("receive", "manage") \/ EnqueueTask("manage", "dispatch")
    BY <1>1, Frame DEF EnqueueTask, Call
  <1>2. CASE StartDispatcher \/ StopDispatcher \/ StopManager
    BY <1>2, Frame DEF StartDispatcher, StopDispatcher, StopManager, Call, Start, Stop
  <1>3. CASE Join
    BY <1>3, Frame DEF Join, Call
  <1>4. CASE StopReceiver
    BY <1>4, Frame DEF StopReceiver, Call
  <1>5. CASE SaveFaults \/ UseAfterFree \/ ManagerDies
    BY <1>5, Frame DEF SaveFaults, UseAfterFree, ManagerDies, Become
  <1>6. ASSUME NEW a \in DOMAIN task, Worker(a) PROVE SInv'
    BY <1>6, Frame DEF Worker, BeginTask, EnterLoop, LeaveLoop, Become
  <1>7. CASE RunDispatcher
    <2>1. CASE BeginDispatch \/ Idle \/ LookupTopic
      BY <1>7, <2>1, Frame DEF RunDispatcher, BeginDispatch, Begin, Idle, LookupTopic, Lookup, Turn
    <2>2. CASE Poll \/ TagUntyped \/ LacksTag \/ Requeue
      BY <1>7, <2>2, PollSInv, DropSInv, RequeueSInv DEF RunDispatcher
    <2> QED BY <1>7, <2>1, <2>2, SendSInv DEF RunDispatcher, Continue
  <1>8. ASSUME NEW s \in Socket, NEW t \in Topic, Update(t, s) PROVE SInv'
    BY <1>8, Frame DEF Update
  <1>9. ASSUME NEW s \in Socket, Read(s) PROVE SInv'
    BY <1>9, Frame DEF Read
  <1>10. CASE UNCHANGED svars
    BY <1>10, Frame DEF svars
  <1> QED BY <1>1, <1>2, <1>3, <1>4, <1>5, <1>6, <1>7, <1>8, <1>9, <1>10, SaveTestSInv,
             SaveTakeSInv, ReceiveSInv DEF SNext, MainStep

LEMMA ServerInvariance == ServerSpec => []SInv
  BY InitSInv, NextSInv, PTL DEF ServerSpec

\* While the loops run, while main stops them and while save() empties the queue
\* beside the dispatcher, every message that has arrived is queued, in the
\* dispatcher's hand, sent, thrown away or a line of list.txt, and only one of
\* these, for any messages, consumers and size of the pool.
THEOREM AllAccounted == ServerSpec => []Accounted
  <1>1. ASSUME SInv PROVE Accounted
    <2> DEFINE places == <<Queued, InHand, SentMessages, dropped, SavedMessages>>
    <2>1. DOMAIN places = 1..5
      OBVIOUS
    <2>2. UNION {places[i] : i \in DOMAIN places}
            = Queued \cup InHand \cup SentMessages \cup dropped \cup SavedMessages
      OBVIOUS
    <2>3. \A i, j \in DOMAIN places : i # j => places[i] \cap places[j] = {}
      BY <1>1 DEF SInv, OnePlace
    <2> QED BY <1>1, <2>2, <2>3 DEF SInv, OnePlace, Accounted
  <1> QED BY <1>1, ServerInvariance, PTL

\* Of what had arrived when main began to stop the server, save() leaves out at
\* most the message the dispatcher had in its hand, for any number of messages.
THEOREM OnlyOneForgotten == ServerSpec => []AtMostOneForgotten
  <1>1. ASSUME SInv PROVE AtMostOneForgotten
    <2> DEFINE L == accepted \ (SentMessages \cup dropped \cup SavedMessages)
    <2> SUFFICES ASSUME mainPc \in {"join", "gone"} PROVE Cardinality(L) <= 1
      BY DEF AtMostOneForgotten
    <2>1. PICK m : accepted \cap (Queued \cup InHand) \subseteq {m}
      BY <1>1 DEF SInv, OneLeft
    <2>2. L \subseteq {m}
      BY <1>1, <2>1 DEF SInv, OneLeft, OnePlace
    <2>3. IsFiniteSet({m}) /\ Cardinality({m}) = 1
      BY FS_Singleton
    <2> HIDE DEF L
    <2>4. Cardinality(L) \in Nat /\ Cardinality(L) <= Cardinality({m})
      BY <2>2, <2>3, FS_Subset, FS_CardinalityType
    <2> QED BY <2>3, <2>4
  <1> QED BY <1>1, ServerInvariance, PTL
=============================================================================
