------------------------------ MODULE MsgQueue ------------------------------
(***************************************************************************)
(* Queue<T> of Queue.h at the granularity of its lock operations.  Two     *)
(* mutexes guard one std::list: enQueue_back takes mtx, then mtx2;         *)
(* deQueue_front first calls Empty(), which takes and releases mtx, and    *)
(* only then takes mtx again to read and pop the front.  Between the two   *)
(* critical sections another thread may pop.                               *)
(*                                                                         *)
(* In the server the queue's readers poll, so nobody waits on cv and       *)
(* notify_all wakes no one: it is not a step here.                         *)
(***************************************************************************)
EXTENDS Naturals, Sequences, FiniteSets

CONSTANTS Thread,      \* every thread that holds a reference to the queue
          Enqueuer,    \* those that call enQueue_back
          Dequeuer,    \* those that call deQueue_front and Empty
          Message, None, NoThread,
          MaxLen       \* bound of the model: elements present or being added

ASSUME ThreadAssumption == /\ Enqueuer \subseteq Thread
                           /\ Dequeuer \subseteq Thread
                           /\ NoThread \notin Thread
                           /\ None \notin Message

VARIABLES theList,     \* std::list<T> theList
          mtx, mtx2,   \* the owner of each mutex, or NoThread
          pc,          \* where each thread is in the call it makes
          arg,         \* the x of a thread's enQueue_back
          ret,         \* what a thread's last call returned
          fault,       \* front()/pop_front() ran on an empty list
          readers      \* history: the threads that have called deQueue_front

vars == <<theList, mtx, mtx2, pc, arg, ret, fault, readers>>

Pushing == {"enq_mtx", "enq_mtx2", "enq_push"}     \* x not yet in theList
Popping == {"deq_mtx", "deq_pop"}                  \* Empty() has said FALSE
Holding == {"enq_mtx2", "enq_push", "enq_unlock", "empty_read", "deq_check", "deq_pop"}
Step == Pushing \cup Popping \cup Holding \cup {"idle", "empty_mtx", "deq_empty"}

TypeOK == /\ theList \in Seq(Message)
          /\ mtx \in Thread \cup {NoThread}
          /\ mtx2 \in Thread \cup {NoThread}
          /\ pc \in [Thread -> Step]
          /\ arg \in [Thread -> Message \cup {None}]
          /\ ret \in [Thread -> Message \cup {None} \cup BOOLEAN]
          /\ fault \in BOOLEAN
          /\ readers \subseteq Thread

Init == /\ theList = <<>>
        /\ mtx = NoThread /\ mtx2 = NoThread
        /\ pc = [t \in Thread |-> "idle"]
        /\ arg = [t \in Thread |-> None]
        /\ ret = [t \in Thread |-> None]
        /\ fault = FALSE /\ readers = {}

Goto(t, here, there) == /\ pc[t] = here
                        /\ pc' = [pc EXCEPT ![t] = there]

\* Mutant: the mutex is not waited for.
Lock_NoWait(t) == mtx' = t

\* std::unique_lock<std::mutex> lock(this->mtx)
Lock(t) == mtx = NoThread /\ mtx' = t

-----------------------------------------------------------------------------
(* enQueue_back(x) *)

CallEnqueue(t, x) ==
    /\ Len(theList) + Cardinality({u \in Thread : pc[u] \in Pushing}) < MaxLen
    /\ Goto(t, "idle", "enq_mtx")
    /\ arg' = [arg EXCEPT ![t] = x]
    /\ UNCHANGED <<theList, mtx, mtx2, ret, fault, readers>>

EnqLock(t) == /\ Goto(t, "enq_mtx", "enq_mtx2")
              /\ Lock(t)
              /\ UNCHANGED <<theList, mtx2, arg, ret, fault, readers>>

EnqLock2(t) == /\ Goto(t, "enq_mtx2", "enq_push")
               /\ mtx2 = NoThread /\ mtx2' = t
               /\ UNCHANGED <<theList, mtx, arg, ret, fault, readers>>

\* Mutant: push_front for push_back.
EnqPush_Front(t) == /\ Goto(t, "enq_push", "enq_unlock")
                    /\ theList' = <<arg[t]>> \o theList
                    /\ UNCHANGED <<mtx, mtx2, arg, ret, fault, readers>>

EnqPush(t) == /\ Goto(t, "enq_push", "enq_unlock")
              /\ theList' = Append(theList, arg[t])
              /\ UNCHANGED <<mtx, mtx2, arg, ret, fault, readers>>

\* lock2 and lock go out of scope
EnqUnlock(t) == /\ Goto(t, "enq_unlock", "idle")
                /\ mtx' = NoThread /\ mtx2' = NoThread
                /\ arg' = [arg EXCEPT ![t] = None]
                /\ UNCHANGED <<theList, ret, fault, readers>>

-----------------------------------------------------------------------------
(* Empty() *)

CallEmpty(t) == /\ Goto(t, "idle", "empty_mtx")
                /\ UNCHANGED <<theList, mtx, mtx2, arg, ret, fault, readers>>

EmptyLock(t) == /\ Goto(t, "empty_mtx", "empty_read")
                /\ Lock(t)
                /\ UNCHANGED <<theList, mtx2, arg, ret, fault, readers>>

\* Mutant: Empty() returns with mtx still locked.
EmptyRead_KeepsLock(t) == /\ Goto(t, "empty_read", "idle")
                          /\ ret' = [ret EXCEPT ![t] = (theList = <<>>)]
                          /\ UNCHANGED <<theList, mtx, mtx2, arg, fault, readers>>

EmptyRead(t) == /\ Goto(t, "empty_read", "idle")
                /\ ret' = [ret EXCEPT ![t] = (theList = <<>>)]
                /\ mtx' = NoThread
                /\ UNCHANGED <<theList, mtx2, arg, fault, readers>>

-----------------------------------------------------------------------------
(* deQueue_front(): if (this->Empty()) return nullptr; lock; front; pop_front *)

CallDequeue(t) == /\ Goto(t, "idle", "deq_empty")
                  /\ readers' = readers \cup {t}
                  /\ UNCHANGED <<theList, mtx, mtx2, arg, ret, fault>>

DeqEmptyLock(t) == /\ Goto(t, "deq_empty", "deq_check")
                   /\ Lock(t)
                   /\ UNCHANGED <<theList, mtx2, arg, ret, fault, readers>>

\* Mutant: the test of Empty() is dropped.
DeqCheck_NoTest(t) == /\ Goto(t, "deq_check", "deq_mtx")
                      /\ mtx' = NoThread
                      /\ UNCHANGED <<theList, mtx2, arg, ret, fault, readers>>

DeqCheck(t) == /\ pc[t] = "deq_check"
               /\ mtx' = NoThread
               /\ \/ /\ theList = <<>>
                     /\ pc' = [pc EXCEPT ![t] = "idle"]
                     /\ ret' = [ret EXCEPT ![t] = None]
                  \/ /\ theList # <<>>
                     /\ pc' = [pc EXCEPT ![t] = "deq_mtx"]
                     /\ UNCHANGED ret
               /\ UNCHANGED <<theList, mtx2, arg, fault, readers>>

DeqLock(t) == /\ Goto(t, "deq_mtx", "deq_pop")
              /\ Lock(t)
              /\ UNCHANGED <<theList, mtx2, arg, ret, fault, readers>>

DeqPop(t) == /\ theList # <<>>
             /\ Goto(t, "deq_pop", "idle")
             /\ ret' = [ret EXCEPT ![t] = Head(theList)]
             /\ theList' = Tail(theList)
             /\ mtx' = NoThread
             /\ UNCHANGED <<mtx2, arg, fault, readers>>

\* front() and pop_front() of an empty std::list: undefined, the process ends.
DeqPopEmpty(t) == /\ theList = <<>>
                  /\ pc[t] = "deq_pop"
                  /\ fault' = TRUE
                  /\ UNCHANGED <<theList, mtx, mtx2, pc, arg, ret, readers>>

-----------------------------------------------------------------------------
EnqStep(t) == EnqLock(t) \/ EnqLock2(t) \/ EnqPush(t) \/ EnqUnlock(t)
DeqStep(t) == DeqEmptyLock(t) \/ DeqCheck(t) \/ DeqLock(t) \/ DeqPop(t) \/ DeqPopEmpty(t)
EmptyStep(t) == EmptyLock(t) \/ EmptyRead(t)

Next == /\ ~fault
        /\ \/ \E t \in Enqueuer : EnqStep(t) \/ \E x \in Message : CallEnqueue(t, x)
           \/ \E t \in Dequeuer : DeqStep(t) \/ EmptyStep(t) \/ CallDequeue(t) \/ CallEmpty(t)

\* A thread inside a call is scheduled until the call returns; whether it
\* makes another call is its own business.
Fairness == \A t \in Thread : /\ WF_vars(t \in Enqueuer /\ ~fault /\ EnqStep(t))
                              /\ WF_vars(t \in Dequeuer /\ ~fault /\ (DeqStep(t) \/ EmptyStep(t)))

SafetySpec == Init /\ [][Next]_vars
Spec == SafetySpec /\ Fairness
-----------------------------------------------------------------------------
(* Properties *)

\* No two threads are inside a critical section of the queue at once, and the
\* one that is owns mtx: theList is never read while it is being changed.
MutualExclusion == \A t \in Thread : pc[t] \in Holding => /\ mtx = t
                                                          /\ \A u \in Thread \ {t} : pc[u] \notin Holding

\* What makes deQueue_front safe: one thread only has ever called it.
OneReader == \A t, u \in readers : t = u

\* Between the Empty() that said FALSE and the pop, deQueue_front's element is
\* still there, so front() never runs on an empty list - as long as the queue
\* has had one reader, which is all the two separate locks can guarantee.
NoEmptyPop == OneReader => /\ ~fault
                           /\ \A t \in Dequeuer : pc[t] \in Popping => theList # <<>>

\* The lock-level queue implements the atomic FIFO: each push takes effect
\* where theList changes, each pop where it is taken from the front, and a
\* nullptr is returned only when the queue was empty at the test.
Atomic == INSTANCE AtomicQueue
            WITH q <- theList,
                 want <- [t \in Thread |-> IF pc[t] \in Pushing THEN arg[t] ELSE None]

ImplementsAtomicQueue == Atomic!Spec

\* Whoever takes mtx gives it back: no path through the three calls returns or
\* blocks for ever with the lock held.
LockReleased == \A t \in Thread : mtx = t ~> (mtx # t \/ fault)
=============================================================================
