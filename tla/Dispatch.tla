------------------------------ MODULE Dispatch ------------------------------
(***************************************************************************)
(* The dispatcher with what ConsumerManager and the consumers are to it:   *)
(* for each topic a set of subscribers that may change between any two of  *)
(* its steps.  A set keeps its iteration order until it changes; after a   *)
(* change any order is possible.  That send() may block while a consumer   *)
(* does not read only delays DSend here; module Server models it.          *)
(***************************************************************************)
EXTENDS ClusterDispatcher

ASSUME DispatchAssumption == IsFiniteSet(Socket)

VARIABLES order,       \* order[t]: the subscribers of t, as iterated
          fresh,       \* history: no change of its topic since the last lookup
          recent       \* history: recent[t]: the sockets served since t's last change

vars == <<dvars, order, fresh, recent>>

DInit == /\ Init
         /\ order = [t \in Topic |-> <<>>]
         /\ fresh = FALSE
         /\ recent = [t \in Topic |-> <<>>]

\* getConsumersByTopic(topic), copied into consumerList
DLookup == /\ dpc = "lookup" /\ TagOf[msg] \in Topic
           /\ Lookup(order[TagOf[msg]])
           /\ fresh' = TRUE
           /\ UNCHANGED <<order, recent>>

\* The last sends of a topic, as many as it has subscribers
Latest(l, n) == IF Len(l) <= n THEN l ELSE SubSeq(l, Len(l) - n + 1, Len(l))

DSend == /\ Send
         /\ recent' = IF fresh
                        THEN [recent EXCEPT ![TagOf[msg]] =
                                 Latest(Append(@, SelectedConsumer), Len(consumerList))]
                        ELSE recent
         /\ UNCHANGED <<order, fresh>>

\* subscribe or unsubscribe: the set of one topic changes.
Change(t) == /\ \E S \in SUBSET Socket :
                   /\ S # {order[t][i] : i \in DOMAIN order[t]}
                   /\ \E l \in Orders(S) : order' = [order EXCEPT ![t] = l]
             /\ recent' = [recent EXCEPT ![t] = <<>>]
             /\ fresh' = (fresh /\ (msg \in Message => TagOf[msg] # t))
             /\ UNCHANGED dvars

Others == UNCHANGED <<order, fresh, recent>>

Dispatcher == (Alone /\ Others) \/ DLookup \/ DSend
Main == (Start \/ Stop) /\ Others
World == \/ \E m \in Message : Enqueue(m) /\ Others
         \/ \E t \in Topic : Change(t)

DNext == ~crashed /\ (Dispatcher \/ Main \/ World)

SafetySpec == DInit /\ [][DNext]_vars
-----------------------------------------------------------------------------
(* Properties *)

\* Round robin: while a topic's subscribers stay the same, any n consecutive
\* messages of the topic go to n different ones when it has n, whatever other
\* topics are served in between and wherever the index stood before.
EvenShare == \A t \in Topic : \A i, j \in DOMAIN recent[t] :
                recent[t][i] = recent[t][j] => i = j
=============================================================================
