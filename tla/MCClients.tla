----------------------------- MODULE MCClients -----------------------------
(* A small instance of Clients for TLC: eight-bit integers, of which 113 is a *)
(* prime below the largest odd square, 121, and 127 one above it.             *)
EXTENDS Clients

Numbers == {113, 121}
Garbage == {127}

\* Once two threads have written at the same moment no property depends on the
\* consumer any more, and the producer never does; before, nothing depends on the
\* order result.txt is in but whether that was right so far: what is appended
\* comes behind all of it.
OrderRight == \A i, k \in DOMAIN result : i < k => InOrder(result[i], result[k])
ClientsView == <<producer, sender,
                 IF clashed THEN <<>>
                            ELSE <<relayed, cpc, inbox, recvs, jobs, Range(result), OrderRight>>>>
=============================================================================
