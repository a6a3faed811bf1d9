---------------------------- MODULE AtomicQueue ----------------------------
(***************************************************************************)
(* What Queue<T> (Queue.h) promises to the threads that share it: a FIFO   *)
(* in which every call takes effect at one instant.  A thread that calls   *)
(* enQueue_back wants one element appended; a thread that calls            *)
(* deQueue_front receives the oldest element, or None (nullptr) when the   *)
(* queue is empty at that instant; Empty answers whether it is.            *)
(***************************************************************************)
EXTENDS Sequences

CONSTANTS Thread,    \* the threads that share the queue
          Message,   \* the elements
          None       \* the nullptr that deQueue_front returns, not an element

VARIABLES q,         \* the elements, oldest first
          want,      \* want[t]: the element t has asked to append, or None
          ret        \* ret[t]: the last answer t received

avars == <<q, want, ret>>

Init == /\ q = <<>>
        /\ want = [t \in Thread |-> None]
        /\ ret = [t \in Thread |-> None]

Ask(t) == /\ want[t] = None
          /\ \E x \in Message : want' = [want EXCEPT ![t] = x]
          /\ UNCHANGED <<q, ret>>

Put(t) == /\ want[t] # None
          /\ q' = Append(q, want[t])
          /\ want' = [want EXCEPT ![t] = None]
          /\ UNCHANGED ret

Take(t) == /\ q # <<>>
           /\ q' = Tail(q)
           /\ ret' = [ret EXCEPT ![t] = Head(q)]
           /\ UNCHANGED want

TakeNone(t) == /\ q = <<>>
               /\ ret' = [ret EXCEPT ![t] = None]
               /\ UNCHANGED <<q, want>>

AnswerEmpty(t) == /\ ret' = [ret EXCEPT ![t] = (q = <<>>)]
                  /\ UNCHANGED <<q, want>>

Next == \E t \in Thread : Ask(t) \/ Put(t) \/ Take(t) \/ TakeNone(t) \/ AnswerEmpty(t)

Spec == Init /\ [][Next]_avars
=============================================================================
