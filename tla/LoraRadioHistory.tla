-------------------------- MODULE LoraRadioHistory --------------------------
(***************************************************************************)
(* LoraRadio with what an observer remembers of each reception.  The       *)
(* history follows from the steps of the radios and never restrains them.  *)
(***************************************************************************)
EXTENDS LoraRadio

VARIABLES
    spoiled,   \* <<radio, chain, packet>>: the chain was retuned or off during the packet
    received   \* the packets that have entered each radio's receive queue

hvars == <<vars, spoiled, received>>

\* Everything that is in transit now
Flights == {f \in Radios \X (1 .. Max({MaxChains[r] : r \in Radios})) \X Packets :
                f[2] \in DOMAIN rx_chains[f[1]] /\ f[3] \in DOMAIN Transit(f[1], f[2])}

HInit == Init /\ spoiled = {} /\ received = [r \in Radios |-> {}]

Observe ==
    /\ spoiled' = {f \in Flights' :
            LET now == rx_chains'[f[1]][f[2]]
            IN  f \in spoiled \/ ~now.enabled \/ now.config # rx_chains[f[1]][f[2]].config}
    /\ received' = [r \in Radios |->
            received[r] \cup {rx_queue'[r][i].packet : i \in DOMAIN rx_queue'[r]}]

HNext == Next /\ Observe

HSpec == HInit /\ [][HNext]_hvars

-----------------------------------------------------------------------------
(* Properties of a delivery, the step that puts a packet into a queue.     *)

Delivers(r) == Len(rx_queue'[r]) > Len(rx_queue[r])
Delivered(r) == rx_queue'[r][Len(rx_queue'[r])]

\* A chain that was retuned, or switched off, during a packet never delivers it, even when it is
\* back on the packet's channel at the end: _on_receive_end looks at the configuration of that
\* moment only and not at `enabled' at all, so everything rests on the interrupted flag.
OnlyUntouchedChainsDeliver ==
    [][\A r \in Radios :
        Delivers(r) => <<r, Delivered(r).chain, Delivered(r).packet>> \notin spoiled]_hvars

\* A radio delivers a packet once, however many of its chains hear it and although its
\* _on_receive_end is suspended in the put between two chains.
DeliveredOnce ==
    [][\A r \in Radios : Delivers(r) => Delivered(r).packet \notin received[r]]_hvars

=============================================================================
