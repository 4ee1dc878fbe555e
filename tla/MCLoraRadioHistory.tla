------------------------- MODULE MCLoraRadioHistory -------------------------
(* The same instances with the history of the receptions. *)
EXTENDS MCLoraRadio, LoraRadioHistory
=============================================================================
