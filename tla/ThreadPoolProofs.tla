-------------------------- MODULE ThreadPoolProofs --------------------------
(***************************************************************************)
(* What the pool keeps for any number of workers and any tasks: no task is *)
(* run twice or lost, no task is left waiting beside a sleeping worker,    *)
(* and none is left when the destructor returns.                           *)
(***************************************************************************)
EXTENDS ThreadPool, SequenceLemmas, FiniteSetTheorems, TLAPS

\* Which states are whose, and that a worker holds a task exactly while it runs one
Roles == /\ \A w \in Worker : /\ pc[w] \in {"ready", "waiting", "running", "notify", "done"}
                              /\ hand[w] # NoTask <=> pc[w] \in {"running", "notify"}
         /\ pc[Owner] \in {"up", "notify", "notifyAll", "join", "gone"}

\* Workers return only when the pool is stopped and its queue empty, and the
\* destructor only after them.
Stopping == /\ stop <=> pc[Owner] \in {"notifyAll", "join", "gone"}
            /\ \A w \in Worker : pc[w] = "done" => stop /\ tasks = <<>>
            /\ pc[Owner] = "gone" => \A w \in Worker : pc[w] = "done"

IInv == TypeOK /\ Roles /\ Stopping /\ EachOnce /\ NoLostWakeup

Thread == Worker \cup {Owner}
-----------------------------------------------------------------------------
(* Each part of the invariant is kept by every step *)


LEMMA Steps ==
    ASSUME [Next]_vars
    PROVE  \/ UNCHANGED vars
           \/ \E w \in Worker : \/ Sleep(w) \/ Wake(w) \/ Leave(w)
                                \/ Take(w) \/ Finish(w)
           \/ \E t \in Thread : NotifyOne(t)
           \/ \E t \in Thread, x \in Task : Submit(t, x)
           \/ Stop \/ NotifyAll \/ Join
  BY DEF Next, WorkerStep, OwnerStep, Thread

LEMMA TypeStep == TypeOK /\ Roles /\ [Next]_vars => TypeOK'
  <1> SUFFICES ASSUME TypeOK, Roles, [Next]_vars PROVE TypeOK'
    OBVIOUS
  <1> USE DEF TypeOK, Thread
  <1>1. CASE UNCHANGED vars
    BY <1>1 DEF vars
  <1>2. ASSUME NEW w \in Worker, Sleep(w) \/ Wake(w) \/ Leave(w) PROVE TypeOK'
    BY <1>2 DEF Sleep, Wake, Leave
  <1>3. ASSUME NEW w \in Worker, Take(w) PROVE TypeOK'
    <2>1. Head(tasks) \in Task /\ Tail(tasks) \in Seq(Task)
      BY <1>3 DEF Take
    <2> QED BY <1>3, <2>1 DEF Take
  <1>4. ASSUME NEW w \in Worker, Finish(w) PROVE TypeOK'
    <2>1. hand[w] \in Task
      BY <1>4 DEF Finish, Roles
    <2> QED BY <1>4, <2>1 DEF Finish
  <1>5. ASSUME NEW t \in Thread, NotifyOne(t) PROVE TypeOK'
    BY <1>5 DEF NotifyOne, Home, Waiting
  <1>6. ASSUME NEW t \in Thread, NEW x \in Task, Submit(t, x) PROVE TypeOK'
    <2>1. Append(tasks, x) \in Seq(Task)
      OBVIOUS
    <2> QED BY <1>6, <2>1 DEF Submit
  <1>7. CASE Stop \/ NotifyAll \/ Join
    BY <1>7 DEF Stop, NotifyAll, Join, Waiting
  <1> QED BY <1>1, <1>2, <1>3, <1>4, <1>5, <1>6, <1>7, Steps

LEMMA RolesStep == TypeOK /\ Roles /\ [Next]_vars => Roles'
  <1> SUFFICES ASSUME TypeOK, Roles, [Next]_vars PROVE Roles'
    OBVIOUS
  <1>0. Owner \notin Worker /\ NoTask \notin Task
    BY PoolAssumption
  <1> USE DEF TypeOK, Roles, Thread
  <1>1. CASE UNCHANGED vars
    BY <1>1 DEF vars
  <1>2. ASSUME NEW w \in Worker, Sleep(w) \/ Wake(w) \/ Leave(w) PROVE Roles'
    BY <1>0, <1>2 DEF Sleep, Wake, Leave
  <1>3. ASSUME NEW w \in Worker, Take(w) PROVE Roles'
    <2>1. Head(tasks) \in Task
      BY <1>3 DEF Take
    <2> QED BY <1>0, <1>3, <2>1 DEF Take
  <1>4. ASSUME NEW w \in Worker, Finish(w) PROVE Roles'
    BY <1>0, <1>4 DEF Finish
  <1>5. ASSUME NEW t \in Thread, NotifyOne(t) PROVE Roles'
    BY <1>0, <1>5 DEF NotifyOne, Home, Waiting
  <1>6. ASSUME NEW t \in Thread, NEW x \in Task, Submit(t, x) PROVE Roles'
    BY <1>0, <1>6 DEF Submit, Home
  <1>7. CASE Stop \/ NotifyAll \/ Join
    BY <1>0, <1>7 DEF Stop, NotifyAll, Join, Waiting
  <1> QED BY <1>1, <1>2, <1>3, <1>4, <1>5, <1>6, <1>7, Steps

LEMMA StoppingStep == TypeOK /\ Roles /\ Stopping /\ [Next]_vars => Stopping'
  <1> SUFFICES ASSUME TypeOK, Roles, Stopping, [Next]_vars PROVE Stopping'
    OBVIOUS
  <1>0. Owner \notin Worker
    BY PoolAssumption
  <1> USE DEF TypeOK, Roles, Stopping, Thread
  <1>1. CASE UNCHANGED vars
    BY <1>1 DEF vars
  <1>2. ASSUME NEW w \in Worker, Sleep(w) \/ Wake(w) \/ Leave(w) PROVE Stopping'
    BY <1>0, <1>2 DEF Sleep, Wake, Leave
  <1>3. ASSUME NEW w \in Worker, Take(w) PROVE Stopping'
    BY <1>0, <1>3 DEF Take
  <1>4. ASSUME NEW w \in Worker, Finish(w) PROVE Stopping'
    BY <1>0, <1>4 DEF Finish
  <1>5. ASSUME NEW t \in Thread, NotifyOne(t) PROVE Stopping'
    BY <1>0, <1>5 DEF NotifyOne, Home, Waiting
  <1>6. ASSUME NEW t \in Thread, NEW x \in Task, Submit(t, x) PROVE Stopping'
    BY <1>0, <1>6 DEF Submit, Home
  <1>7. CASE Stop \/ NotifyAll \/ Join
    BY <1>0, <1>7 DEF Stop, NotifyAll, Join, Waiting
  <1> QED BY <1>1, <1>2, <1>3, <1>4, <1>5, <1>6, <1>7, Steps

LEMMA EachOnceStep == TypeOK /\ Roles /\ EachOnce /\ [Next]_vars => EachOnce'
  <1> SUFFICES ASSUME TypeOK, Roles, EachOnce, [Next]_vars PROVE EachOnce'
    OBVIOUS
  <1>0. NoTask \notin Task /\ Queued = Elements(tasks) /\ Queued' = Elements(tasks')
    BY PoolAssumption DEF Queued, Elements
  <1>1. CASE UNCHANGED <<tasks, hand, accepted, finished>>
    BY <1>1 DEF EachOnce, Queued, Running
  <1>2. ASSUME NEW w \in Worker, Take(w) PROVE EachOnce'
    <2> DEFINE h == Head(tasks)
    <2>1. /\ h \in Task /\ hand[w] = NoTask
          /\ hand' = [hand EXCEPT ![w] = h] /\ hand \in [Worker -> Task \cup {NoTask}]
          /\ UNCHANGED <<accepted, finished>>
      BY <1>2 DEF Take, TypeOK, Roles
    <2>2. /\ Queued = Queued' \cup {h}
          /\ Injective(tasks) => Injective(tasks') /\ h \notin Queued'
      BY <1>0, <1>2, TailElements DEF Take, TypeOK
    <2>3. Running' = Running \cup {h}
      BY <1>0, <2>1 DEF Running
    <2>4. h \notin Running /\ h \notin finished
      BY <2>2 DEF EachOnce
    <2>5. Injective(tasks') /\ h \notin Queued'
      BY <2>2 DEF EachOnce, Injective
    <2>6. \A u, v \in Worker : hand'[u] = hand'[v] => u = v \/ hand'[u] = NoTask
      BY <1>0, <2>1, <2>4 DEF EachOnce, Running
    <2> HIDE DEF h
    <2> QED BY <2>1, <2>2, <2>3, <2>4, <2>5, <2>6 DEF EachOnce, Injective
  <1>3. ASSUME NEW w \in Worker, Finish(w) PROVE EachOnce'
    <2>1. /\ hand[w] \in Task /\ hand \in [Worker -> Task \cup {NoTask}]
          /\ hand' = [hand EXCEPT ![w] = NoTask]
          /\ finished' = finished \cup {hand[w]}
          /\ UNCHANGED <<tasks, accepted>> /\ Queued' = Queued
      BY <1>0, <1>3 DEF Finish, TypeOK, Roles
    <2>2. Running' = Running \ {hand[w]} /\ hand[w] \in Running
      BY <1>0, <2>1 DEF EachOnce, Running
    <2>3. \A u, v \in Worker : hand'[u] = hand'[v] => u = v \/ hand'[u] = NoTask
      BY <2>1 DEF EachOnce
    <2> QED BY <2>1, <2>2, <2>3 DEF EachOnce
  <1>4. ASSUME NEW t \in Thread, NEW x \in Task, Submit(t, x) PROVE EachOnce'
    <2>1. /\ accepted' = accepted \cup {x} /\ x \notin accepted
          /\ UNCHANGED <<hand, finished>> /\ Running' = Running
      BY <1>4 DEF Submit, Running
    <2>2. /\ Queued' = Queued \cup {x}
          /\ Injective(tasks) /\ x \notin Queued => Injective(tasks')
      BY <1>0, <1>4, AppendElements DEF Submit, TypeOK
    <2>3. x \notin Queued /\ x \notin Running /\ x \notin finished
      BY <2>1 DEF EachOnce
    <2>4. Injective(tasks')
      BY <2>2, <2>3 DEF EachOnce, Injective
    <2> QED BY <2>1, <2>2, <2>3, <2>4 DEF EachOnce, Injective
  <1> QED
    BY <1>1, <1>2, <1>3, <1>4, Steps
       DEF vars, Sleep, Wake, Leave, NotifyOne, Stop, NotifyAll, Join

\* Counting threads: the sets counted in NoLostWakeup are finite.
LEMMA Counting ==
    ASSUME NEW S \in SUBSET Thread
    PROVE  /\ Cardinality(S) \in Nat
           /\ \A t \in Thread \ S : Cardinality(S \cup {t}) = Cardinality(S) + 1
           /\ \A t \in S : Cardinality(S \ {t}) = Cardinality(S) - 1
  <1>1. IsFiniteSet(Thread)
    BY PoolAssumption, FS_AddElement DEF Thread
  <1>2. IsFiniteSet(S)
    BY <1>1, FS_Subset
  <1> QED BY <1>2, FS_CardinalityType, FS_AddElement, FS_RemoveElement

LEMMA WakeupStep == TypeOK /\ Roles /\ Stopping /\ NoLostWakeup /\ [Next]_vars => NoLostWakeup'
  <1> SUFFICES ASSUME TypeOK, Roles, Stopping, NoLostWakeup, [Next]_vars PROVE NoLostWakeup'
    OBVIOUS
  <1>0. /\ Owner \notin Worker /\ Worker \subseteq Thread /\ Owner \in Thread
        /\ Thread = Worker \cup {Owner}
        /\ tasks \in Seq(Task) /\ Len(tasks) \in Nat
        /\ pc \in [Thread -> {"ready", "waiting", "running", "notify", "done",
                              "up", "notifyAll", "join", "gone"}]
    BY PoolAssumption DEF TypeOK, Thread
  <1>c. /\ Cardinality(Ready) \in Nat /\ Cardinality(Notifying) \in Nat
        /\ Cardinality(Ready') \in Nat /\ Cardinality(Notifying') \in Nat
    <2>1. Ready \subseteq Thread /\ Notifying \subseteq Thread
          /\ Ready' \subseteq Thread /\ Notifying' \subseteq Thread
      BY DEF Ready, Notifying, Thread
    <2> QED BY <2>1, Counting
  <1>1. CASE UNCHANGED vars
    BY <1>1 DEF vars, NoLostWakeup, Waiting, Ready, Notifying
  <1>2. ASSUME NEW w \in Worker, Sleep(w) PROVE NoLostWakeup'
    <2>1. ~stop' /\ Len(tasks') = 0
      BY <1>2 DEF Sleep
    <2> QED BY <1>c, <2>1 DEF NoLostWakeup
  <1>3. ASSUME NEW w \in Worker, Wake(w) \/ Finish(w) PROVE NoLostWakeup'
    <2>1. /\ w \notin Ready /\ Ready' = Ready \cup {w}
          /\ Notifying' = Notifying /\ Waiting' \subseteq Waiting
          /\ pc'[Owner] = pc[Owner] /\ UNCHANGED <<tasks, stop>>
      BY <1>0, <1>3 DEF Wake, Finish, Ready, Notifying, Waiting
    <2>2. Cardinality(Ready') = Cardinality(Ready) + 1
      BY <1>0, <2>1, Counting, ZenonT(40) DEF Ready
    <2> QED BY <1>0, <1>c, <2>1, <2>2 DEF NoLostWakeup
  <1>4. ASSUME NEW w \in Worker, Leave(w) PROVE NoLostWakeup'
    <2>1. stop /\ stop' /\ pc'[Owner] = pc[Owner] /\ Waiting' = Waiting
      BY <1>0, <1>4 DEF Leave, Waiting
    <2> QED BY <2>1 DEF NoLostWakeup
  <1>5. ASSUME NEW w \in Worker, Take(w) PROVE NoLostWakeup'
    <2>1. /\ w \in Ready /\ Ready' = Ready \ {w}
          /\ Notifying' = Notifying /\ Waiting' = Waiting
          /\ pc'[Owner] = pc[Owner] /\ UNCHANGED stop
      BY <1>0, <1>5 DEF Take, Ready, Notifying, Waiting
    <2>2. Cardinality(Ready') = Cardinality(Ready) - 1
      BY <1>0, <2>1, Counting DEF Ready
    <2>3. Len(tasks') = Len(tasks) - 1
      BY <1>0, <1>5 DEF Take
    <2> QED BY <1>0, <1>c, <2>1, <2>2, <2>3 DEF NoLostWakeup
  <1>6. ASSUME NEW t \in Thread, NEW x \in Task, Submit(t, x) PROVE NoLostWakeup'
    <2>1. /\ t \notin Notifying /\ Notifying' = Notifying \cup {t}
          /\ Ready' = Ready /\ Waiting' = Waiting
          /\ ~stop /\ ~stop'
      BY <1>0, <1>6 DEF Submit, Home, Ready, Notifying, Waiting
    <2>2. Cardinality(Notifying') = Cardinality(Notifying) + 1
      BY <1>0, <2>1, Counting DEF Notifying
    <2>3. Len(tasks') = Len(tasks) + 1
      BY <1>0, <1>6 DEF Submit
    <2> QED BY <1>0, <1>c, <2>1, <2>2, <2>3 DEF NoLostWakeup
  <1>7. ASSUME NEW t \in Thread, NotifyOne(t) PROVE NoLostWakeup'
    <2>1. CASE Waiting = {} /\ pc' = [pc EXCEPT ![t] = Home(t)]
      <3>1. Waiting' = {}
        BY <1>0, <2>1 DEF Waiting, Home
      <3> QED BY <3>1 DEF NoLostWakeup
    <2>2. ASSUME NEW w \in Waiting, pc' = [pc EXCEPT ![t] = Home(t), ![w] = "ready"]
          PROVE  NoLostWakeup'
      <3>1. /\ w \in Worker /\ w \notin Ready /\ t \in Notifying
            /\ Ready' = Ready \cup {w} /\ Notifying' = Notifying \ {t}
            /\ Waiting' \subseteq Waiting
            /\ UNCHANGED <<tasks, stop>>
        BY <1>0, <1>7, <2>2 DEF NotifyOne, Home, Ready, Notifying, Waiting
      <3>2. /\ Cardinality(Ready') = Cardinality(Ready) + 1
            /\ Cardinality(Notifying') = Cardinality(Notifying) - 1
        BY <1>0, <3>1, Counting, ZenonT(40) DEF Ready, Notifying
      <3>3. pc[Owner] = "notifyAll" => pc'[Owner] = "notifyAll"
        BY <1>0, <1>7, <2>2, <3>1 DEF NotifyOne
      <3> QED BY <1>0, <1>c, <3>1, <3>2, <3>3 DEF NoLostWakeup
    <2> QED BY <1>7, <2>1, <2>2 DEF NotifyOne
  <1>8. CASE Stop
    <2>1. stop' /\ pc'[Owner] = "notifyAll"
      BY <1>0, <1>8 DEF Stop
    <2> QED BY <2>1 DEF NoLostWakeup
  <1>9. CASE NotifyAll
    <2>1. Waiting' = {}
      BY <1>0, <1>9 DEF NotifyAll, Waiting
    <2> QED BY <2>1 DEF NoLostWakeup
  <1>10. CASE Join
    <2>1. stop /\ pc[Owner] # "notifyAll" /\ Waiting' = Waiting
      BY <1>0, <1>10 DEF Join, Stopping, Waiting
    <2> QED BY <2>1 DEF NoLostWakeup
  <1> QED BY <1>1, <1>2, <1>3, <1>4, <1>5, <1>6, <1>7, <1>8, <1>9, <1>10, Steps

LEMMA InitIInv == Init => IInv
  <1> SUFFICES ASSUME Init PROVE IInv
    OBVIOUS
  <1>0. Owner \notin Worker /\ NoTask \notin Task
    BY PoolAssumption
  <1>1. TypeOK /\ Roles /\ Stopping
    <2>1. tasks \in Seq(Task)
      BY DEF Init
    <2>2. TypeOK
      BY <2>1 DEF Init, TypeOK
    <2>3. Roles
      BY <1>0 DEF Init, Roles
    <2>4. Stopping
      BY <1>0 DEF Init, Stopping
    <2> QED BY <2>2, <2>3, <2>4
  <1>2. Queued = {} /\ Running = {} /\ Waiting = {}
    <2>1. DOMAIN tasks = {}
      BY DEF Init
    <2> QED BY <1>0, <2>1 DEF Init, Queued, Running, Waiting
  <1>3. EachOnce
    BY <1>2 DEF Init, EachOnce
  <1>4. NoLostWakeup
    BY <1>2 DEF NoLostWakeup
  <1> QED BY <1>1, <1>3, <1>4 DEF IInv

LEMMA Invariance == SafetySpec => []IInv
  <1>1. IInv /\ [Next]_vars => IInv'
    BY TypeStep, RolesStep, StoppingStep, EachOnceStep, WakeupStep DEF IInv
  <1> QED BY InitIInv, <1>1, PTL DEF SafetySpec
-----------------------------------------------------------------------------
(* Theorems *)

\* The pool keeps its types for any workers and tasks.
THEOREM TypeCorrect == SafetySpec => []TypeOK
  <1>1. IInv => TypeOK
    BY DEF IInv
  <1> QED BY <1>1, Invariance, PTL

\* Every task whose enqueue (ThreadPool.h:66-89) returned is queued, being run
\* by one worker, or finished: never lost, never run twice.
THEOREM RunOnce == SafetySpec => []EachOnce
  <1>1. IInv => EachOnce
    BY DEF IInv
  <1> QED BY <1>1, Invariance, PTL

\* notify_one after the unlock (ThreadPool.h:87) is enough: no task and no join
\* depends on a worker that sleeps without a notification on its way.
THEOREM Awakened == SafetySpec => []NoLostWakeup
  <1>1. IInv => NoLostWakeup
    BY DEF IInv
  <1> QED BY <1>1, Invariance, PTL

\* ~ThreadPool (ThreadPool.h:92-101) returns only after every accepted task.
THEOREM Drained == SafetySpec => []DrainedWhenGone
  <1>1. IInv => DrainedWhenGone
    <2> SUFFICES ASSUME IInv, pc[Owner] = "gone" PROVE accepted = finished
      BY DEF DrainedWhenGone
    <2>1. \A w \in Worker : pc[w] = "done" /\ tasks = <<>> /\ hand[w] = NoTask
      BY DEF IInv, Roles, Stopping
    <2>2. tasks = <<>>
      BY <2>1, PoolAssumption
    <2>3. Queued = {} /\ Running = {}
      <3>1. DOMAIN tasks = {}
        BY <2>2
      <3> QED BY <2>1, <3>1 DEF Queued, Running
    <2> QED BY <2>3 DEF IInv, EachOnce
  <1> QED BY <1>1, Invariance, PTL
=============================================================================
