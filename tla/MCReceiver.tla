----------------------------- MODULE MCReceiver -----------------------------
(* Small instances of Receiver for TLC. *)
EXTENDS Receiver, TLC

CONSTANTS s1, s2, m1, m2, bad

TwoSockets == {s1, s2}
TwoAndBad == {m1, m2, bad}

\* One producer sends two lines of any kind and may disconnect or fall idle, the
\* other one good line, and may be reset.
Mixed == s1 :> TwoAndBad @@ s2 :> {m1}
TwoAndOne == s1 :> 2 @@ s2 :> 1
MixedEnds == s1 :> {"fin", "idle"} @@ s2 :> {"reset"}
=============================================================================
