---------------------------- MODULE WakeUpTable ----------------------------
(***************************************************************************)
(* What the kernel needs from its wake-up queue: a table of how often each *)
(* event is to be set at each tick, and the first tick of the table.  A    *)
(* tick keeps its row when its last event is removed.                      *)
(***************************************************************************)
EXTENDS Naturals

CONSTANTS Ticks, Events

VARIABLES table, taken   \* taken: what the last take returned

Empty == [e \in Events |-> 0]

Init == table = [k \in {} |-> Empty] /\ taken = <<>>

Add(tick, event) ==
    LET row == IF tick \in DOMAIN table THEN table[tick] ELSE Empty
    IN  /\ table' = [k \in DOMAIN table \cup {tick} |->
                        IF k = tick THEN [row EXCEPT ![event] = @ + 1] ELSE table[k]]
        /\ taken' = <<>>

Remove(event) ==
    /\ table' = [k \in DOMAIN table |-> [table[k] EXCEPT ![event] = 0]]
    /\ taken' = <<>>

TakeFirst ==
    \E tick \in DOMAIN table :
        /\ \A k \in DOMAIN table : tick <= k
        /\ table' = [k \in DOMAIN table \ {tick} |-> table[k]]
        /\ taken' = <<tick, table[tick]>>

Next ==
    \/ \E tick \in Ticks, event \in Events : Add(tick, event)
    \/ \E event \in Events : Remove(event)
    \/ TakeFirst

Spec == Init /\ [][Next]_<<table, taken>>

=============================================================================
