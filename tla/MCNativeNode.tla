---------------------------- MODULE MCNativeNode ----------------------------
(***************************************************************************)
(* Instances of NativeNode for TLC.                                        *)
(***************************************************************************)
EXTENDS NativeNode, TLC

CONSTANTS n1, n2

MCSlots == 1..2

AllCalls == {"sim_sleep", "sim_transmit_blocking", "sim_transmit_start",
             "sim_wait_transmit_finished", "sim_receive_blocking", "sim_start_receive",
             "sim_wait_receive_finished", "sim_radio_set_rx_config"}

\* One node makes every call, beside one that only sleeps
OneOfEach == n1 :> AllCalls @@ n2 :> {"sim_sleep"}
FewCalls == n1 :> 2 @@ n2 :> 1

\* The calls of the ping-pong example
PingPong == n1 :> {"sim_sleep", "sim_transmit_blocking", "sim_receive_blocking"}
PingPongCalls == n1 :> 3
=============================================================================
