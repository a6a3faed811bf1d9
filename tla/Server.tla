------------------------------- MODULE Server -------------------------------
(***************************************************************************)
(* testServer.cpp: main starts the three loops on the pool (Server::start), *)
(* waits for a word on cin, and then takes everything down: the three      *)
(* stop()s, Persistence::save, the destructors.  Nothing makes main wait   *)
(* for a loop to have ended before the pool's destructor, which comes last *)
(* of all: save() shares the queue with the dispatcher, and the members of *)
(* Server are freed under whatever loop is still running.                  *)
(*                                                                         *)
(* Of the receiver and the manager this module keeps when they run: a      *)
(* message arrives only while the receiver's loop does, subscriptions      *)
(* change only while the manager's does.                                   *)
(***************************************************************************)
EXTENDS ClusterDispatcher

CONSTANT threadPoolSize

ASSUME PoolSizeAssumption == threadPoolSize \in Nat \ {0}

VARIABLES subscribers, \* subscribers[t]: those consumerManager has for t
          full,        \* sockets whose consumer has yet to read before send() proceeds
          mainPc,      \* main: the call it is about to make
          task,        \* the pool tasks of receiver->receive() and consumerManager->start()
          running,     \* Receiver::isRunning and ConsumerManager::isRunning
          saved,       \* list.txt: its lines, NoMessage where it says null
          accepted     \* history: the messages that had arrived when receiver.stop() came

consumers == <<subscribers, full>>
outer == <<mainPc, task, running, saved, accepted>>
svars == <<dvars, consumers, outer>>

SInit == /\ Init
         /\ subscribers = [t \in Topic |-> {}]
         /\ full = {}
         /\ mainPc = "receive"
         /\ task = [receive |-> "off", manage |-> "off"]
         /\ running = [receive |-> TRUE, manage |-> FALSE]
         /\ saved = <<>> /\ accepted = {}

-----------------------------------------------------------------------------
(* main *)

Call(here, there) == mainPc = here /\ mainPc' = there

EnqueueTask(a, there) == /\ Call(a, there)
                         /\ task' = [task EXCEPT ![a] = "queued"]
                         /\ UNCHANGED <<dvars, consumers, running, saved, accepted>>

StartDispatcher == /\ Call("dispatch", "cin")
                   /\ Start
                   /\ UNCHANGED <<consumers, task, running, saved, accepted>>

\* Mutant: the flag of the loop is not cleared.
Clear_Nothing(a) == UNCHANGED running

Clear(a) == running' = [running EXCEPT ![a] = FALSE]

\* Once a word has been read from cin
StopReceiver == /\ Call("cin", "stop_dispatch")
                /\ Clear("receive")
                /\ accepted' = Arrived
                /\ UNCHANGED <<dvars, consumers, task, saved>>

StopDispatcher == /\ Call("stop_dispatch", "stop_manage")
                  /\ Stop
                  /\ UNCHANGED <<consumers, task, running, saved, accepted>>

\* The handles it closes no longer hold up a send(); it iterates a map that the
\* manager's loop may be changing.
StopManager == /\ Call("stop_manage", "empty")
               /\ Clear("manage")
               /\ full' = full \ UNION {subscribers[t] : t \in Topic}
               /\ crashed' \in {FALSE, task.manage = "loop"}
               /\ UNCHANGED <<messageQueue, isRunning_, dispatcher, history, subscribers,
                              task, saved, accepted>>

\* save(): while (!messageQueue->Empty()).  After it the members of Server go in
\* the reverse of their order: everything but the pool, then the pool.
SaveTest == /\ mainPc = "empty"
            /\ mainPc' = IF messageQueue = <<>> THEN "join" ELSE "deQueue"
            /\ UNCHANGED <<dvars, consumers, task, running, saved, accepted>>

\* The dispatcher may have taken the element since: then the line is "null".
Written == IF messageQueue = <<>> THEN NoMessage ELSE Head(messageQueue)

\* Mutant: if for while.
SaveLoop_Once == "join"

\* Where the body of the loop leads
SaveLoop == "empty"

SaveTake == /\ Call("deQueue", SaveLoop)
            /\ saved' = Append(saved, Written)
            /\ messageQueue' = IF messageQueue = <<>> THEN <<>> ELSE Tail(messageQueue)
            /\ UNCHANGED <<isRunning_, dispatcher, crashed, history, consumers,
                           task, running, accepted>>

\* Both readers have found the one element there is: front() of an empty list.
SaveFaults == /\ mainPc = "deQueue" /\ dpc = "poll" /\ Len(messageQueue) = 1
              /\ crashed' = TRUE
              /\ UNCHANGED <<messageQueue, isRunning_, dispatcher, history, consumers, outer>>

InLoop(a) == task[a] \in {"listen", "loop"}
Dispatching == dpc \in {"poll", "lookup", "requeue", "send"}
Over == dpc = "end" /\ \A a \in DOMAIN task : task[a] = "end"

\* ~ThreadPool returns when every task that was enqueued has been run.
Join == /\ Call("join", "gone")
        /\ Over
        /\ UNCHANGED <<dvars, consumers, task, running, saved, accepted>>

-----------------------------------------------------------------------------
(* The pool's workers, which take the tasks in the order they were enqueued *)

Free == Cardinality({a \in DOMAIN task : InLoop(a)}) + (IF Dispatching THEN 1 ELSE 0)
          < threadPoolSize

Become(a, there) == /\ task' = [task EXCEPT ![a] = there]
                    /\ UNCHANGED <<dvars, consumers, mainPc, saved, accepted>>

Stopping == mainPc \notin {"receive", "manage", "dispatch", "cin"}

\* stop() has closed the listening socket: bind refuses.
Closed(a) == Stopping /\ (a = "manage" => mainPc \notin {"stop_dispatch", "stop_manage"})

\* receive() or start() up to its listen(), which may fail
BeginTask(a) == /\ task[a] = "queued" /\ Free
                /\ a = "manage" => task.receive # "queued"
                /\ \/ Become(a, "end")
                   \/ ~Closed(a) /\ Become(a, "listen")
                /\ UNCHANGED running

\* The manager sets its flag only now; the test of while follows.
EnterLoop(a) == /\ task[a] = "listen"
                /\ running' = IF a = "manage" THEN [running EXCEPT ![a] = TRUE] ELSE running
                /\ Become(a, IF running'[a] THEN "loop" ELSE "end")

LeaveLoop(a) == /\ task[a] = "loop" /\ ~running[a]
                /\ Become(a, "end") /\ UNCHANGED running

\* A request of the wrong shape (HandleBadShape of ConsumerManager)
ManagerDies == /\ task.manage = "loop"
               /\ Become("manage", "end") /\ UNCHANGED running

BeginDispatch == Begin /\ Free /\ \A a \in DOMAIN task : task[a] # "queued"

\* One step here: what a lookup that overlaps an update of the tables may see is
\* Broker's subject.
LookupTopic == /\ dpc = "lookup" /\ TagOf[msg] \in Topic
               /\ \E l \in Orders(subscribers[TagOf[msg]]) : Lookup(l)

\* send() blocks until the consumer has read enough.
SendTo(s) == /\ dpc = "send" /\ s = SelectedConsumer /\ s \notin full
             /\ Send
             /\ full' \in {full, full \cup {s}}
             /\ UNCHANGED subscribers

RunDispatcher == /\ \/ (BeginDispatch \/ Continue \/ LookupTopic) /\ UNCHANGED consumers
                    \/ \E s \in Socket : SendTo(s)
                 /\ UNCHANGED outer

\* Receiver and dispatcher are gone, and a loop of theirs goes on.
UseAfterFree == /\ mainPc = "join" /\ ~Over
                /\ crashed' = TRUE
                /\ UNCHANGED <<messageQueue, isRunning_, dispatcher, history, consumers, outer>>

-----------------------------------------------------------------------------
MainStep == \/ EnqueueTask("receive", "manage") \/ EnqueueTask("manage", "dispatch")
         \/ StartDispatcher \/ StopDispatcher \/ StopManager
         \/ SaveTest \/ SaveTake \/ Join
Worker(a) == BeginTask(a) \/ EnterLoop(a) \/ LeaveLoop(a)

Receive(m) == /\ task.receive = "loop"
              /\ Enqueue(m) /\ UNCHANGED <<consumers, outer>>

\* subscribe or unsubscribe
Update(t, s) == /\ task.manage = "loop"
                /\ subscribers' = [subscribers EXCEPT ![t] = IF s \in @ THEN @ \ {s} ELSE @ \cup {s}]
                /\ UNCHANGED <<dvars, full, outer>>

Read(s) == /\ s \in full
           /\ full' = full \ {s}
           /\ UNCHANGED <<dvars, subscribers, outer>>

SNext == ~crashed /\ \/ MainStep \/ StopReceiver \/ SaveFaults \/ UseAfterFree \/ ManagerDies
                     \/ \E a \in DOMAIN task : Worker(a)
                     \/ RunDispatcher
                     \/ \E m \in Message : Receive(m)
                     \/ \E s \in Socket : Read(s) \/ \E t \in Topic : Update(t, s)

\* main and the pool's threads run, and a consumer that has fallen behind reads
\* in the end; nobody need ever type a word.
ServerSpec == /\ SInit /\ [][SNext]_svars
              /\ WF_svars(~crashed /\ MainStep)
              /\ WF_svars(~crashed /\ Worker("receive")) /\ WF_svars(~crashed /\ Worker("manage"))
              /\ WF_svars(~crashed /\ RunDispatcher)
              /\ \A s \in Socket : WF_svars(~crashed /\ Read(s))
-----------------------------------------------------------------------------
(* Properties *)

SavedMessages == {saved[i] : i \in DOMAIN saved} \ {NoMessage}
\* Through stop() and save(), with main and the dispatcher both taking from the
\* queue and the dispatcher putting back, every message that arrived is in one
\* place: queued, in hand, sent, thrown away for cause, or a line of list.txt.
Accounted ==
    LET places == <<Queued, InHand, SentMessages, dropped, SavedMessages>> IN
    /\ Arrived = UNION {places[i] : i \in DOMAIN places}
    /\ \A i, j \in DOMAIN places : i # j => places[i] \cap places[j] = {}
    /\ \A i, j \in DOMAIN saved : saved[i] = saved[j] /\ saved[i] # NoMessage => i = j

\* Of the messages that had arrived when main began to stop the server, all are
\* sent, saved or thrown away for cause when save() has returned, except one at
\* most: the one the dispatcher, whom nobody waits for, had in its hand.
AtMostOneForgotten ==
    mainPc \in {"join", "gone"} =>
       Cardinality(accepted \ (SentMessages \cup dropped \cup SavedMessages)) <= 1

\* The shutdown comes to its end: the pool's destructor finds every loop ended,
\* unless a fault has ended the process before, or the manager set its flag
\* after consumerManager.stop() had cleared it.
Returns == Stopping ~> (mainPc = "gone" \/ crashed
                                         \/ (mainPc = "join" /\ running.manage))

\* Once a topic has subscribers and keeps at least one, each of its messages is
\* sent in the end: messages nobody wants, which go round the queue for ever,
\* and changes among the subscribers do not hold it up.
EachDispatched ==
    \A m \in Message : TagOf[m] \in Topic =>
       (<>[](subscribers[TagOf[m]] # {})
          => ((m \in Arrived) ~> (m \in SentMessages \/ Stopping \/ crashed)))
=============================================================================
