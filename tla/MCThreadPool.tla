---------------------------- MODULE MCThreadPool ----------------------------
(* Small instances of ThreadPool for TLC. *)
EXTENDS ThreadPool

CONSTANTS w1, w2, w3, x1, x2, x3, x4

ThreeWorkers == {w1, w2, w3}
FourTasks == {x1, x2, x3, x4}
OneLoop == {x1}
=============================================================================
