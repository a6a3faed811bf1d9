----------------------------- MODULE MCMsgQueue -----------------------------
(* Small instances of MsgQueue for TLC. *)
EXTENDS MsgQueue, TLC

CONSTANTS rcv, disp, main,     \* the Receiver thread, the dispatcher, main (save)
          m1, m2               \* two messages

MCThread == {rcv, disp, main}
MCMessage == {m1, m2}

\* While the server runs the dispatcher alone takes from messageQueue, and both
\* it (requeue) and the Receiver append to it; main empties the same queue into
\* list.txt while it stops.
MCEnqueuer == {rcv, disp}
MCDequeuer == {disp, main}
=============================================================================
