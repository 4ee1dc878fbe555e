-------------------------- MODULE MCLorawanDevice --------------------------
(***************************************************************************)
(* Instances of the end device for TLC.                                    *)
(***************************************************************************)
EXTENDS LorawanDevice, TLC

CONSTANTS u1, u2, l1, l2, s1, s2

\* The first session keeps the frequency, the second has one of its own
TwoParameters == s1 :> <<1, None>> @@ s2 :> <<2, 2>>
=============================================================================
