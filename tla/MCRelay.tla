------------------------------ MODULE MCRelay -------------------------------
(* Instances of Relay for TLC.                                             *)
EXTENDS Relay

\* A page under a prefix and one under none, an asset, a WebSocket.
MCRequests ==
    [headers : {{"accept-html", "accept-encoding"}}, routed : BOOLEAN]
        \cup [headers : {{"accept-encoding"}, {"upgrade", "accept-encoding"}},
              routed : {TRUE}]

MCWritten == [d \in Ways |-> IF d = "up" THEN {"root"} ELSE {"root", "other"}]

MCMaxChunks == [d \in Ways |-> IF d = "up" THEN 1 ELSE 2]
=============================================================================
