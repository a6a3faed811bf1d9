----------------------------- MODULE ThreadPool -----------------------------
(***************************************************************************)
(* ThreadPool.h: a fixed set of workers, a task queue under one mutex and  *)
(* one condition variable.  Each critical section of queue_mutex is one    *)
(* action; what matters lies between them: enqueue notifies after it has   *)
(* unlocked, a worker may wake up without a notification, and the          *)
(* destructor stops, notifies and joins in three steps.                    *)
(*                                                                         *)
(* Tasks are enqueued by the pool's owner and by running tasks, as the     *)
(* broadcasting MessageDispatcher does.  An enqueue after the stop throws; *)
(* in a task that is the end of the task (Finish).                         *)
(***************************************************************************)
EXTENDS Naturals, Sequences, FiniteSets

CONSTANTS Worker,
          Owner,     \* the thread that constructs and destroys the pool
          Task,
          Loop,      \* tasks that need never end, like the server's three loops
          NoTask

ASSUME PoolAssumption == /\ IsFiniteSet(Worker) /\ Worker # {} /\ Owner \notin Worker
                         /\ Loop \subseteq Task /\ NoTask \notin Task

VARIABLES tasks, stop,
          pc,          \* a worker: "ready" for the mutex, "waiting" on the condition, "running"
                       \* a task, in that task's enqueue about to "notify", "done"; the
                       \* owner: "up", "notify", "notifyAll", "join", "gone"
          hand,        \* the task a worker runs
          accepted,    \* history: tasks whose enqueue returned a future
          finished     \* history: tasks that have been run

vars == <<tasks, stop, pc, hand, accepted, finished>>

Waiting == {w \in Worker : pc[w] = "waiting"}
Ready == {w \in Worker : pc[w] = "ready"}
Notifying == {t \in Worker \cup {Owner} : pc[t] = "notify"}
Queued == {tasks[i] : i \in DOMAIN tasks}
Running == {hand[w] : w \in Worker} \ {NoTask}

Init == /\ tasks = <<>> /\ stop = FALSE
        /\ pc = [t \in Worker \cup {Owner} |-> IF t = Owner THEN "up" ELSE "ready"]
        /\ hand = [w \in Worker |-> NoTask]
        /\ accepted = {} /\ finished = {}

-----------------------------------------------------------------------------
(* A worker: lock, wait for stop or a task, then return or take the task *)

Sleep(w) == /\ pc[w] = "ready" /\ ~stop /\ tasks = <<>>
            /\ pc' = [pc EXCEPT ![w] = "waiting"]
            /\ UNCHANGED <<tasks, stop, hand, accepted, finished>>

\* A spurious wake-up; the predicate is tested again.
Wake(w) == /\ pc[w] = "waiting"
           /\ pc' = [pc EXCEPT ![w] = "ready"]
           /\ UNCHANGED <<tasks, stop, hand, accepted, finished>>

\* Mutant: a worker returns as soon as the pool is stopped
Leave_AtOnce(w) == /\ pc[w] = "ready" /\ stop
                   /\ pc' = [pc EXCEPT ![w] = "done"]
                   /\ UNCHANGED <<tasks, stop, hand, accepted, finished>>

Leave(w) == /\ pc[w] = "ready" /\ stop /\ tasks = <<>>
            /\ pc' = [pc EXCEPT ![w] = "done"]
            /\ UNCHANGED <<tasks, stop, hand, accepted, finished>>

\* Mutant: the task is copied and not popped
Take_Copied(w) == /\ pc[w] = "ready" /\ tasks # <<>>
                  /\ hand' = [hand EXCEPT ![w] = Head(tasks)]
                  /\ pc' = [pc EXCEPT ![w] = "running"]
                  /\ UNCHANGED <<tasks, stop, accepted, finished>>

Take(w) == /\ pc[w] = "ready" /\ tasks # <<>>
           /\ hand' = [hand EXCEPT ![w] = Head(tasks)]
           /\ tasks' = Tail(tasks)
           /\ pc' = [pc EXCEPT ![w] = "running"]
           /\ UNCHANGED <<stop, accepted, finished>>

\* task() returns; an exception stays in the packaged_task.
Finish(w) == /\ pc[w] = "running"
             /\ finished' = finished \cup {hand[w]}
             /\ hand' = [hand EXCEPT ![w] = NoTask]
             /\ pc' = [pc EXCEPT ![w] = "ready"]
             /\ UNCHANGED <<tasks, stop, accepted>>

-----------------------------------------------------------------------------
(* enqueue(x) *)

Home(t) == IF t = Owner THEN "up" ELSE "running"

\* Mutant: no test of stop
Submit_Always(t, x) == /\ pc[t] = Home(t) /\ x \notin accepted
                       /\ tasks' = Append(tasks, x)
                       /\ accepted' = accepted \cup {x}
                       /\ pc' = [pc EXCEPT ![t] = "notify"]
                       /\ UNCHANGED <<stop, hand, finished>>

Submit(t, x) == /\ pc[t] = Home(t) /\ x \notin accepted
                /\ ~stop
                /\ tasks' = Append(tasks, x)
                /\ accepted' = accepted \cup {x}
                /\ pc' = [pc EXCEPT ![t] = "notify"]
                /\ UNCHANGED <<stop, hand, finished>>

\* Mutant: notified only when the queue has just become non-empty
NotifyOne_IfFirst(t) ==
    /\ pc[t] = "notify"
    /\ LET back == [pc EXCEPT ![t] = Home(t)]
       IN  \/ (Waiting = {} \/ Len(tasks) > 1) /\ pc' = back
           \/ /\ Len(tasks) <= 1
              /\ \E w \in Waiting : pc' = [back EXCEPT ![w] = "ready"]
    /\ UNCHANGED <<tasks, stop, hand, accepted, finished>>

\* condition.notify_one() wakes one waiting worker, if there is any.
NotifyOne(t) ==
    /\ pc[t] = "notify"
    /\ LET back == [pc EXCEPT ![t] = Home(t)]
       IN  \/ Waiting = {} /\ pc' = back
           \/ \E w \in Waiting : pc' = [back EXCEPT ![w] = "ready"]
    /\ UNCHANGED <<tasks, stop, hand, accepted, finished>>

-----------------------------------------------------------------------------
(* ~ThreadPool() *)

Stop == /\ pc[Owner] = "up"
        /\ stop' = TRUE
        /\ pc' = [pc EXCEPT ![Owner] = "notifyAll"]
        /\ UNCHANGED <<tasks, hand, accepted, finished>>

\* Mutant: notify_one() in the destructor
NotifyAll_One == /\ pc[Owner] = "notifyAll"
                 /\ LET next == [pc EXCEPT ![Owner] = "join"]
                    IN  \/ Waiting = {} /\ pc' = next
                        \/ \E w \in Waiting : pc' = [next EXCEPT ![w] = "ready"]
                 /\ UNCHANGED <<tasks, stop, hand, accepted, finished>>

NotifyAll == /\ pc[Owner] = "notifyAll"
             /\ pc' = [t \in Worker \cup {Owner} |->
                          IF t = Owner THEN "join" ELSE IF t \in Waiting THEN "ready" ELSE pc[t]]
             /\ UNCHANGED <<tasks, stop, hand, accepted, finished>>

Join == /\ pc[Owner] = "join" /\ \A w \in Worker : pc[w] = "done"
        /\ pc' = [pc EXCEPT ![Owner] = "gone"]
        /\ UNCHANGED <<tasks, stop, hand, accepted, finished>>

-----------------------------------------------------------------------------
WorkerStep(w) == Sleep(w) \/ Leave(w) \/ Take(w) \/ NotifyOne(w)
OwnerStep == NotifyOne(Owner) \/ NotifyAll \/ Join

Next == \/ \E w \in Worker : WorkerStep(w) \/ Wake(w) \/ Finish(w)
        \/ OwnerStep \/ Stop
        \/ \E t \in Worker \cup {Owner}, x \in Task : Submit(t, x)

\* Every thread keeps running and every task that is no loop ends; the owner
\* finishes the calls it has begun, but need begin none.
SafetySpec == Init /\ [][Next]_vars
Spec == /\ SafetySpec
        /\ WF_vars(OwnerStep)
        /\ \A w \in Worker : /\ WF_vars(WorkerStep(w))
                             /\ WF_vars(hand[w] \notin Loop /\ Finish(w))
-----------------------------------------------------------------------------
(* Properties *)

TypeOK == /\ tasks \in Seq(Task)
          /\ stop \in BOOLEAN
          /\ pc \in [Worker \cup {Owner} -> {"ready", "waiting", "running", "notify", "done",
                                             "up", "notifyAll", "join", "gone"}]
          /\ hand \in [Worker -> Task \cup {NoTask}]
          /\ accepted \subseteq Task /\ finished \subseteq Task

\* While a worker sleeps, every queued task has somebody coming for it: an awake
\* worker, or a notification about to be sent; and once the destructor has
\* notified nobody sleeps.  No task, and no join, waits for a sleeper.
NoLostWakeup == \/ Waiting = {}
                \/ stop /\ pc[Owner] = "notifyAll"
                \/ ~stop /\ Len(tasks) <= Cardinality(Ready) + Cardinality(Notifying)

\* An accepted task is in exactly one place: queued, run by one worker, or
\* finished.  None is run twice and none gets lost.
EachOnce == /\ accepted = Queued \cup Running \cup finished
            /\ \A i, j \in DOMAIN tasks : tasks[i] = tasks[j] => i = j
            /\ \A v, w \in Worker : hand[v] = hand[w] => v = w \/ hand[v] = NoTask
            /\ Queued \cap Running = {} /\ finished \cap (Queued \cup Running) = {}

\* When the destructor returns, every task that was accepted has been run.
DrainedWhenGone == pc[Owner] = "gone" => accepted = finished

\* With more workers than tasks that need not end, every accepted task is
\* started, whether or not the pool is being destroyed.
EachStarted == Cardinality(Loop) < Cardinality(Worker) =>
                  \A x \in Task : (x \in accepted) ~> (x \in Running \cup finished)

\* The destructor returns, unless some task never ends.
Joined == stop ~> (pc[Owner] = "gone" \/ [](Running \cap Loop # {}))
=============================================================================
