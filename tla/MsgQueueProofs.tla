--------------------------- MODULE MsgQueueProofs ---------------------------
(***************************************************************************)
(* Queue.h, for any set of threads, readers, writers and messages.  The    *)
(* inductive invariant adds to the type what ties program counters to the  *)
(* lock and to the arguments: a thread inside a critical section owns mtx, *)
(* a thread that has not pushed yet still holds its element, and who is in *)
(* deQueue_front counts as a reader.                                       *)
(***************************************************************************)
EXTENDS MsgQueue, TLAPS

HoldersOwn == \A t \in Thread : pc[t] \in Holding => mtx = t
ArgsReady == \A t \in Thread : pc[t] \in Pushing => arg[t] \in Message
ReadersKnown == \A t \in Thread : pc[t] \in Popping \cup {"deq_empty", "deq_check"} => t \in readers
IInv == TypeOK /\ HoldersOwn /\ ArgsReady /\ ReadersKnown

USE DEF Holding, Pushing, Popping, Step

\* The inductive invariant holds in the initial state: no call is in progress.
LEMMA InitIInv == Init => IInv
<1> SUFFICES ASSUME Init PROVE IInv
  OBVIOUS
<1> USE DEF Init
<1>1. theList \in Seq(Message)
  OBVIOUS
<1>2. /\ mtx \in Thread \cup {NoThread} /\ mtx2 \in Thread \cup {NoThread}
      /\ arg \in [Thread -> Message \cup {None}]
      /\ ret \in [Thread -> Message \cup {None} \cup BOOLEAN]
      /\ fault \in BOOLEAN /\ readers \subseteq Thread
  OBVIOUS
<1>3. pc \in [Thread -> Step]
  OBVIOUS
<1>4. HoldersOwn /\ ArgsReady /\ ReadersKnown
  BY DEF HoldersOwn, ArgsReady, ReadersKnown
<1>5. QED
  BY <1>1, <1>2, <1>3, <1>4 DEF IInv, TypeOK

\* Every step of enQueue_back, deQueue_front and Empty preserves it.
LEMMA NextIInv == IInv /\ [Next]_vars => IInv'
<1> SUFFICES ASSUME IInv, [Next]_vars PROVE IInv'
  OBVIOUS
<1> USE ThreadAssumption DEF IInv, TypeOK, HoldersOwn, ArgsReady, ReadersKnown, Goto, Lock
<1>1. ASSUME NEW t \in Enqueuer, NEW x \in Message, CallEnqueue(t, x) PROVE IInv'
  BY <1>1 DEF CallEnqueue
<1>2. ASSUME NEW t \in Enqueuer, EnqLock(t) PROVE IInv'
  BY <1>2 DEF EnqLock
<1>3. ASSUME NEW t \in Enqueuer, EnqLock2(t) PROVE IInv'
  BY <1>3 DEF EnqLock2
<1>4. ASSUME NEW t \in Enqueuer, EnqPush(t) PROVE IInv'
  BY <1>4 DEF EnqPush
<1>5. ASSUME NEW t \in Enqueuer, EnqUnlock(t) PROVE IInv'
  BY <1>5 DEF EnqUnlock
<1>6. ASSUME NEW t \in Dequeuer, CallEmpty(t) \/ CallDequeue(t) PROVE IInv'
  BY <1>6 DEF CallEmpty, CallDequeue
<1>7. ASSUME NEW t \in Dequeuer, EmptyLock(t) \/ EmptyRead(t) PROVE IInv'
  <2>1. CASE EmptyLock(t)
    BY <2>1 DEF EmptyLock
  <2>2. CASE EmptyRead(t)
    <3>1. ret' \in [Thread -> Message \cup {None} \cup BOOLEAN]
      BY <2>2 DEF EmptyRead
    <3>2. QED
      BY <2>2, <3>1 DEF EmptyRead
  <2>3. QED
    BY <1>7, <2>1, <2>2
<1>8. ASSUME NEW t \in Dequeuer, DeqEmptyLock(t) \/ DeqLock(t) PROVE IInv'
  BY <1>8 DEF DeqEmptyLock, DeqLock
<1>9. ASSUME NEW t \in Dequeuer, DeqCheck(t) PROVE IInv'
  BY <1>9 DEF DeqCheck
<1>10. ASSUME NEW t \in Dequeuer, DeqPop(t) PROVE IInv'
  BY <1>10 DEF DeqPop
<1>11. ASSUME NEW t \in Dequeuer, DeqPopEmpty(t) PROVE IInv'
  BY <1>11 DEF DeqPopEmpty
<1>12. CASE UNCHANGED vars
  BY <1>12 DEF vars
<1>13. QED
  BY <1>1, <1>2, <1>3, <1>4, <1>5, <1>6, <1>7, <1>8, <1>9, <1>10, <1>11, <1>12
     DEF Next, EnqStep, DeqStep, EmptyStep

\* The inductive invariant holds in every reachable state.
LEMMA Invariance == SafetySpec => []IInv
  BY InitIInv, NextIInv, PTL DEF SafetySpec

\* Type correctness of the queue: its list only ever holds messages.
THEOREM TypeCorrect == SafetySpec => []TypeOK
<1>1. IInv => TypeOK
  BY DEF IInv
<1>2. QED
  BY <1>1, Invariance, PTL

\* Mutual exclusion of the critical sections of enQueue_back, deQueue_front
\* and Empty, whatever threads call them.
THEOREM Exclusion == SafetySpec => []MutualExclusion
<1>1. IInv => MutualExclusion
  BY ThreadAssumption DEF IInv, HoldersOwn, MutualExclusion
<1>2. QED
  BY <1>1, Invariance, PTL

-----------------------------------------------------------------------------
\* One reader is enough for deQueue_front never to pop an empty list, although
\* it tests and pops in two critical sections: writers only append, and no
\* one else pops in between.
THEOREM SingleReaderSafe == SafetySpec => []NoEmptyPop
<1>1. Init => NoEmptyPop
  BY ThreadAssumption DEF Init, NoEmptyPop, OneReader
<1>2. IInv /\ NoEmptyPop /\ [Next]_vars => NoEmptyPop'
  <2> SUFFICES ASSUME IInv, NoEmptyPop, [Next]_vars, OneReader'
               PROVE  /\ ~fault'
                      /\ \A t \in Dequeuer : pc'[t] \in Popping => theList' # <<>>
    BY DEF NoEmptyPop
  <2> OneReader
    <3>1. readers \subseteq readers'
      BY DEF Next, vars, EnqStep, DeqStep, EmptyStep, CallEnqueue, EnqLock, EnqLock2, EnqPush,
             EnqUnlock, CallEmpty, CallDequeue, EmptyLock, EmptyRead, DeqEmptyLock, DeqCheck,
             DeqLock, DeqPop, DeqPopEmpty
    <3> QED BY <3>1 DEF OneReader
  <2> USE ThreadAssumption DEF IInv, TypeOK, ArgsReady, ReadersKnown, NoEmptyPop, Goto, Lock
  <2>1. ASSUME NEW t \in Enqueuer, NEW x \in Message, CallEnqueue(t, x) PROVE NoEmptyPop'
    BY <2>1 DEF CallEnqueue
  <2>2. ASSUME NEW t \in Enqueuer, EnqLock(t) \/ EnqLock2(t) \/ EnqUnlock(t) PROVE NoEmptyPop'
    BY <2>2 DEF EnqLock, EnqLock2, EnqUnlock
  <2>3. ASSUME NEW t \in Enqueuer, EnqPush(t) PROVE NoEmptyPop'
    <3>1. theList' # <<>>
      BY <2>3 DEF EnqPush
    <3>2. QED
      BY <2>3, <3>1 DEF EnqPush
  <2>4. ASSUME NEW t \in Dequeuer, EmptyStep(t) \/ CallEmpty(t) \/ CallDequeue(t) PROVE NoEmptyPop'
    BY <2>4 DEF EmptyStep, EmptyLock, EmptyRead, CallEmpty, CallDequeue
  <2>5. ASSUME NEW t \in Dequeuer, DeqEmptyLock(t) \/ DeqCheck(t) \/ DeqLock(t) PROVE NoEmptyPop'
    BY <2>5 DEF DeqEmptyLock, DeqCheck, DeqLock
  <2>6. ASSUME NEW t \in Dequeuer, DeqPop(t) PROVE NoEmptyPop'
    <3>1. \A u \in Dequeuer : pc'[u] \notin Popping
      BY <2>6 DEF DeqPop, OneReader
    <3>2. QED
      BY <2>6, <3>1 DEF DeqPop
  <2>7. ASSUME NEW t \in Dequeuer, DeqPopEmpty(t) PROVE FALSE
    BY <2>7 DEF DeqPopEmpty
  <2>8. CASE UNCHANGED vars
    BY <2>8 DEF vars
  <2>9. QED
    BY <2>1, <2>2, <2>3, <2>4, <2>5, <2>6, <2>7, <2>8 DEF Next, EnqStep, DeqStep
<1>3. QED
  BY <1>1, <1>2, Invariance, PTL DEF SafetySpec

-----------------------------------------------------------------------------
\* The lock-level queue implements the atomic queue for any number of readers
\* and writers: EnqPush is Put, DeqPop is Take, a DeqCheck that finds nothing
\* is TakeNone, EmptyRead is AnswerEmpty, and every other step stutters.
THEOREM Refinement == SafetySpec => ImplementsAtomicQueue
<1>1. Init => Atomic!Init
  BY DEF Init, Atomic!Init
<1>2. IInv /\ [Next]_vars => [Atomic!Next]_(Atomic!avars)
  <2> DEFINE Want == [t \in Thread |-> IF pc[t] \in Pushing THEN arg[t] ELSE None]
  <2> SUFFICES ASSUME IInv, [Next]_vars
               PROVE  Atomic!Next \/ UNCHANGED <<theList, Want, ret>>
    BY DEF Atomic!avars
  <2> USE ThreadAssumption DEF IInv, TypeOK, ArgsReady, Goto, Lock
  <2>1. ASSUME NEW t \in Enqueuer, NEW x \in Message, CallEnqueue(t, x) PROVE Atomic!Ask(t)
    BY <2>1 DEF CallEnqueue, Atomic!Ask
  <2>2. ASSUME NEW t \in Enqueuer, EnqLock(t) \/ EnqLock2(t) \/ EnqUnlock(t)
        PROVE UNCHANGED <<theList, Want, ret>>
    BY <2>2 DEF EnqLock, EnqLock2, EnqUnlock
  <2>3. ASSUME NEW t \in Enqueuer, EnqPush(t) PROVE Atomic!Put(t)
    BY <2>3 DEF EnqPush, Atomic!Put
  <2>4. ASSUME NEW t \in Dequeuer,
               EmptyLock(t) \/ CallEmpty(t) \/ CallDequeue(t) \/ DeqEmptyLock(t) \/ DeqLock(t) \/ DeqPopEmpty(t)
        PROVE UNCHANGED <<theList, Want, ret>>
    BY <2>4 DEF EmptyLock, CallEmpty, CallDequeue, DeqEmptyLock, DeqLock, DeqPopEmpty
  <2>5. ASSUME NEW t \in Dequeuer, EmptyRead(t) PROVE Atomic!AnswerEmpty(t)
    BY <2>5 DEF EmptyRead, Atomic!AnswerEmpty
  <2>6. ASSUME NEW t \in Dequeuer, DeqCheck(t)
        PROVE Atomic!TakeNone(t) \/ UNCHANGED <<theList, Want, ret>>
    BY <2>6 DEF DeqCheck, Atomic!TakeNone
  <2>7. ASSUME NEW t \in Dequeuer, DeqPop(t) PROVE Atomic!Take(t)
    BY <2>7 DEF DeqPop, Atomic!Take
  <2>8. CASE UNCHANGED vars
    BY <2>8 DEF vars
  <2>9. QED
    BY <2>1, <2>2, <2>3, <2>4, <2>5, <2>6, <2>7, <2>8
       DEF Next, EnqStep, DeqStep, EmptyStep, Atomic!Next
<1>3. QED
  BY <1>1, <1>2, Invariance, PTL DEF SafetySpec, ImplementsAtomicQueue, Atomic!Spec
=============================================================================
