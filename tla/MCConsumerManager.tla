------------------------- MODULE MCConsumerManager -------------------------
(* Small instances of ConsumerManager for TLC. *)
EXTENDS ConsumerManager, TLC

CONSTANTS s1, s2, s3, t1

TwoSockets == {s1, s2}
ThreeSockets == {s1, s2, s3}
OneTopic == {t1}

Ask(type, topics) == [type : {type}, tag : topics]
Says(type) == [type |-> type, tag |-> NoTag]

\* One consumer registers, unregisters and sends heartbeats, in pieces, and may
\* fall idle; the other's requests come whole, and it may be reset or lost.
Mixed == s1 :> (Ask("Register", Topic) \cup Ask("Unregister", Topic) \cup {Heartbeat})
         @@ s2 :> (Ask("Register", Topic) \cup {Says("BadShape")})
TwoAndOne == s1 :> 2 @@ s2 :> 1
MixedEnds == s1 :> {"fin", "idle"} @@ s2 :> {"reset", "timedout"}

\* Every consumer registers, and may leave; one sends requests of other types too.
Registering == [s \in Socket |-> Ask("Register", Topic)
                                   \cup IF s = s1 THEN {Says("Pull"), Says("Other")} ELSE {}]
OneEach == [s \in Socket |-> 1]
Leaving == [s \in Socket |-> {"fin"}]
=============================================================================
