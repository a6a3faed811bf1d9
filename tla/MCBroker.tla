------------------------------ MODULE MCBroker ------------------------------
(* Small instances of Broker for TLC. *)
EXTENDS Broker, TLC

CONSTANTS s1, s2, t1, m1, m2

OneSocket == {s1}
TwoSockets == {s1, s2}
OneTopic == {t1}
TwoMessages == {m1, m2}
AllT1 == [m \in TwoMessages |-> t1]
MessageSymmetry == Permutations(TwoMessages)

\* The consumers of one handle register, unregister, leave or fall idle; those
\* of the other only register and leave.
Menus == [s \in Socket |-> [type : IF s = s1 THEN {"Register", "Unregister"} ELSE {"Register"},
                            tag : {t1}]]
Endings == [s \in Socket |-> IF s = s1 THEN {"fin", "idle"} ELSE {"fin"}]
OneEach == [s \in Socket |-> 1]

\* What the properties of the run depend on: who each message was sent to and
\* in which order is left out, and what is asked, which ever contains
SharingView == <<thread, tables, inbox, peer, backlog, isRunning, masterSet, clients, server,
                 stopPc, open, messageQueue, isRunning_, dpc, msg, consumerList,
                 topicRoundRobinIndex, D!Arrived, D!SentMessages, dropped, crashed, ghosts>>
=============================================================================
