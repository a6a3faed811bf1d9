----------------------------- MODULE MCDispatch -----------------------------
(* A small instance of Dispatch for TLC. *)
EXTENDS Dispatch, TLC

CONSTANTS s1, s2, t1, t2, m1, m2, m3, m4

TwoSockets == {s1, s2}
BothTopics == {t1, t2}
FourMessages == {m1, m2, m3, m4}

\* Safety: two messages of one topic, one of another, one with a tag that is no string
TwoOfOneTopic == m1 :> t1 @@ m2 :> t1 @@ m3 :> t2 @@ m4 :> Untyped
Symmetry == Permutations({m1, m2}) \cup Permutations(TwoSockets)

\* What the safety properties depend on: of the order of arrival and of sending
\* only that of the messages with a topic that were never put back, and no
\* addressees but the recent ones
Judged(m) == m \notin requeued /\ TagOf[m] \in Topic
SafetyView == <<messageQueue, isRunning_, dispatcher, crashed, dropped, requeued,
                Arrived, SelectSeq(arrived, Judged), Len(sent), SentMessages,
                SelectSeq([i \in DOMAIN sent |-> sent[i][1]], Judged), order, fresh, recent>>
=============================================================================
