-------------------------- MODULE MCLorawanGateway --------------------------
(***************************************************************************)
(* Instances of the gateway for TLC.                                       *)
(***************************************************************************)
EXTENDS LorawanGateway, TLC

CONSTANTS r1, r2, f1, f2

\* A long frame at another data rate, and a short one at the gateway's own
FrameTimes == [f \in Frames |-> IF f = f1 THEN 5 ELSE 1]
Rates      == [f \in Frames |-> IF f = f1 THEN 0 ELSE None]
DueTimes   == [f \in Frames |-> IF f = f1 THEN ASAP ELSE 2]
\* A Class B gateway with a duty cycle, and one that has neither
TwoGateways == {[class_b |-> TRUE, quiet_factor |-> 2], [class_b |-> FALSE, quiet_factor |-> 0]}

\* A multicast frame has many receivers and may take a tick longer
ExtraTimes == [t \in Replies \cup {"multicast", "beacon"} |-> IF t = "multicast" THEN 1 ELSE 0]
=============================================================================
