--------------------------- MODULE MCWakeUpQueue ---------------------------
(***************************************************************************)
(* An instance of the wake-up queue for TLC.                               *)
(***************************************************************************)
EXTENDS WakeUpQueue

MCTicks == 1..3

=============================================================================
