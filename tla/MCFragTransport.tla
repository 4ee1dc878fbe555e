-------------------------- MODULE MCFragTransport --------------------------
(***************************************************************************)
(* An instance of the fragmented transport for TLC.                        *)
(***************************************************************************)
EXTENDS FragTransport, TLC

\* Two sessions under one index, the first of which is to be acknowledged
OneIndex == <<[idx |-> 0, ack |-> TRUE], [idx |-> 0, ack |-> FALSE]>>
=============================================================================
