---------------------------- MODULE MCLoraRadio ----------------------------
(* Instances of the radio model: who drives which radio, with which calls. *)
EXTENDS LoraRadio, TLC

CONSTANTS a, b, c   \* tasks

Default    == <<1, 1>>
SameWaveform == [m \in Modulations |-> 1]
AnyOutcome == BOOLEAN \X BOOLEAN
NoCapture  == {<<FALSE, FALSE>>}
Gateway    == [r \in Radios |-> IF r = Max(Radios) THEN 2 ELSE 1]

\* One task per radio, or two tasks on the last, which is a concentrator
OwnRadios   == a :> 1 @@ b :> 2 @@ c :> 3
SharedRadio == a :> 2 @@ b :> 2 @@ c :> 1

\* Sequential clients: a device, a node with a single shot receiver that waits for the channel
\* and for packets, a concentrator that listens and gets other channel plans
ClientCalls ==
    a :> {"transmit"} @@
    b :> {"transmit", "receive_once", "within", "wait_idle"} @@
    c :> {"wait", "channel_plan"}

\* A concentrator with a task that listens and one that reconfigures it and transmits, and a
\* client that is reconfigured and transmits
SharedCalls ==
    a :> {"within", "wait", "off", "carrier_sense", "standby", "receive"} @@
    b :> {"transmit", "flush", "wait_idle", "enable_chain", "add_chain", "channel_plan",
          "set_chain_config"} @@
    c :> {"transmit", "set_tx_config", "set_rx_config", "set_channel"}
=============================================================================
