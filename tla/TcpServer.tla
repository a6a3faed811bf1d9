----------------------------- MODULE TcpServer -----------------------------
(***************************************************************************)
(* TcpServer.h over TcpBase.h: the listening socket of ConsumerManager and *)
(* of Receiver.  Each call first asks isValid(), which close() - called by *)
(* main while the owner's thread may be anywhere - makes false; and each   *)
(* may be refused by the system (the address is taken, no memory).         *)
(***************************************************************************)
VARIABLE server     \* "new", "bound", "listening", "closed" (is_valid_ = false)

ServerState == {"new", "bound", "listening", "closed"}

\* The constructor: socket(); one that fails is as good as one closed at once.
Created == server \in {"new", "closed"}

bind == server = "new" /\ server' = "bound"
listen == server = "bound" /\ server' = "listening"
refused == UNCHANGED server

\* accept() can return a connection; select() can be asked about the socket.
Accepting == server = "listening"

close == server' = "closed"
=============================================================================
