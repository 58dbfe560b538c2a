-------------------------------- MODULE Pipe --------------------------------
(***************************************************************************)
(* What a reader may expect of one direction of a connection: it reads     *)
(* what was written, in that order, and takes it for complete only if it   *)
(* is.  After a failure the rest may be missing, but then the reader sees  *)
(* that the stream is cut, or nothing.                                     *)
(***************************************************************************)
EXTENDS Naturals, Sequences

CONSTANTS
    Chunks,     \* what can be written at once
    MaxChunks   \* bound of the runs on what is written

VARIABLES
    sent,       \* all that was written
    ended,      \* whether the writer has finished
    got,        \* what the reader has read
    seen,       \* how the stream looks to the reader
    failed      \* whether an end of the connection has failed

vars == <<sent, ended, got, seen, failed>>

Init ==
    /\ sent = <<>> /\ ended = FALSE
    /\ got = <<>>  /\ seen = "open"
    /\ failed = FALSE

Write ==
    /\ ~ended
    /\ \E c \in Chunks : sent' = Append(sent, c)
    /\ UNCHANGED <<ended, got, seen, failed>>

Finish ==
    /\ ~ended
    /\ ended' = TRUE
    /\ UNCHANGED <<sent, got, seen, failed>>

Read ==
    /\ seen = "open"
    /\ Len(got) < Len(sent)
    /\ got' = Append(got, sent[Len(got) + 1])
    /\ UNCHANGED <<sent, ended, seen, failed>>

SeeEnd ==
    /\ seen = "open"
    /\ ended /\ got = sent
    /\ seen' = "end"
    /\ UNCHANGED <<sent, ended, got, failed>>

SeeCut ==
    /\ seen = "open"
    /\ failed
    /\ seen' = "cut"
    /\ UNCHANGED <<sent, ended, got, failed>>

\* The stream of a writer that is gone may end like any other.
Fail ==
    /\ failed' = TRUE
    /\ ended' \in {ended, TRUE}
    /\ UNCHANGED <<sent, got, seen>>

Next == Write \/ Finish \/ Read \/ SeeEnd \/ SeeCut \/ Fail

Spec == Init /\ [][Next]_vars

\* Unless something fails, what is written is read, and its end seen.
Delivery ==
    /\ \A n \in 1..MaxChunks : Len(sent) >= n ~> Len(got) >= n \/ failed
    /\ ended ~> seen = "end" \/ failed
=============================================================================
