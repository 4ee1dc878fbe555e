----------------------------- MODULE MCSimQueue -----------------------------
(***************************************************************************)
(* Instances of the queue for TLC.                                         *)
(***************************************************************************)
EXTENDS SimQueue

CONSTANTS t1, t2, t3

Three == {t1, t2, t3}
Two   == {t1, t2}

OneGetter  == [get |-> {t1}, put |-> {t2, t3}, clear |-> {}]
TwoGetters == [get |-> {t1, t2}, put |-> {t3}, clear |-> {t2}]

OneOrTwoGetters == {OneGetter, TwoGetters}
OneEach         == {[get |-> {t1}, put |-> {t2}, clear |-> {}]}

=============================================================================
