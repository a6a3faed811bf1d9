------------------------------ MODULE MCServer ------------------------------
(* A small instance of Server for TLC: one consumer; a message of each topic, *)
(* one of which may stay without a subscriber, and one without a tag.         *)
EXTENDS Server, TLC

CONSTANTS s1, t1, t2, m1, m2, m3

OneSocket == {s1}
BothTopics == {t1, t2}
ThreeMessages == {m1, m2, m3}
TagOfEach == m1 :> t1 @@ m2 :> t2 @@ m3 :> Missing

\* No step and no property looks at the order of arrival, at the addressees, or
\* at who was put back.
ServerView == <<messageQueue, isRunning_, dispatcher, crashed, Arrived, SentMessages, dropped,
                consumers, mainPc, task, running, saved, accepted>>
=============================================================================
