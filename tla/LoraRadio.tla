----------------------------- MODULE LoraRadio -----------------------------
(***************************************************************************)
(* The LoRa radios (simulator/lora/radio.py with client_radio.py,          *)
(* gateway_radio.py, rx_chain.py and packet_metadata.py) and the PHY layer *)
(* between them (phy_layer.py).  transmit_packet_blocking runs in the task *)
(* that transmits, so the PHY layer has no state of its own beyond the     *)
(* list of radios, which is the order of Radios.                           *)
(*                                                                         *)
(* A task is what drives a radio: a client that may make, in any order and *)
(* at any time, the calls that Calls gives it.  What a task does between   *)
(* two suspensions is one step; where the code loops over receivers inside *)
(* one such segment, `running' keeps the other tasks out.  The kernel is   *)
(* the abstract clock that module SimulationEnvironment implements: a      *)
(* suspended task has a number of ticks left, and the clock moves only     *)
(* when nobody is due.  Where the receive queue takes a lock too many      *)
(* (module SimQueue), the clock makes one move more and then stops.        *)
(***************************************************************************)
EXTENDS Sequences, FiniteSetsExt

CONSTANTS
    Radios,        \* numbered in the order in which they subscribed to the PHY layer
    Tasks,
    NoTask,
    radioOf,       \* the radio that a task drives
    Calls,         \* the calls that a task makes
    Frequencies,   \* two configurations overlap when they share the frequency
    Modulations,   \* everything else __can_receive compares
    waveform,      \* what of it carrier_sense_instant compares: not the code rate
    DefaultConfig,
    MaxChains,     \* max_rx_chains of each radio
    OutOfRange,    \* <<sender, receiver>>: the signal is below the sensitivity
    Survivors,     \* results of __capture_effect: does the first, does the second survive
    MaxPackets,    \* bound on the number of transmissions
    StandbyTime, PreambleTime, PayloadTimes, SenseTime, ProcessDelay, Timeouts

Configs == Frequencies \X Modulations

CallNames == {"standby", "off", "receive", "receive_once", "carrier_sense", "wait_idle",
              "nowait", "wait", "within", "flush", "transmit", "set_tx_config",
              "set_rx_config", "set_channel", "set_chain_config", "enable_chain", "add_chain",
              "channel_plan"}

ASSUME RadiosAssumption == Radios \subseteq Nat /\ IsFiniteSet(Radios)
ASSUME ClientsAssumption ==
    NoTask \notin Tasks /\ radioOf \in [Tasks -> Radios] /\ Calls \in [Tasks -> SUBSET CallNames]
ASSUME ConfigAssumption ==
    DefaultConfig \in Configs /\ MaxChains \in [Radios -> Nat \ {0}]
ASSUME TimesAssumption ==
    {StandbyTime, PreambleTime, SenseTime, ProcessDelay} \cup PayloadTimes \cup Timeouts
        \subseteq Nat \ {0}

VARIABLES
    radio_state,    \* __radio_state
    powered,        \* the receive chains that the last set_power_consumption accounted for
    rx_continuous,  \* _rx_continuous
    tx_config,      \* _tx_config
    rx_chains,      \* _rx_chains
    rx_queue,       \* __rx_queue: <<packet, metadata>>, as records
    getter,         \* the task whose event is in the queue's __get_events
    clock,          \* goes on, makes its last move, or stands for ever
    idle_waiters,   \* __idle_waiters
    tx_end_time,    \* _tx_end_time, in ticks after the last symbol left the antenna
    pc,             \* where a task is
    call,           \* the call it is in
    old_state,      \* the local of carrier_sense
    left,           \* ticks until its wake-up, Forever for one at the end of the simulation
    packet,         \* the packet a task transmits
    receivers,      \* those of its receivers that transmit_packet_blocking has not finished
    late,           \* ticks a task has spent in the notification of the end of its packet
    sent,           \* number of packets so far
    running         \* the task in the middle of a segment, or NoTask

radioVars == <<radio_state, powered>>
queueVars == <<rx_queue, getter, clock>>
airVars   == <<packet, receivers, late, sent, tx_end_time>>
vars == <<radioVars, rx_continuous, tx_config, rx_chains, queueVars, idle_waiters, pc, call,
          old_state, left, airVars, running>>

-----------------------------------------------------------------------------
(* Types.                                                                  *)

States  == {"OFF", "STANDBY", "RX", "TX"}
Packets == 1 .. MaxPackets
Forever == -1

Metadata == [config : Configs, collision : BOOLEAN, missed_start : BOOLEAN,
             demodulate_failure : BOOLEAN, interrupted : BOOLEAN, received_preamble : BOOLEAN]

IsRxChain(chain) ==
    /\ chain.config \in Configs
    /\ chain.enabled \in BOOLEAN
    /\ DOMAIN chain.packets_in_transit \subseteq Packets
    /\ \A p \in DOMAIN chain.packets_in_transit : chain.packets_in_transit[p] \in Metadata

PCs == {"client",     \* outside of the radio
        "standby",    \* in the sleep of standby()
        "sense",      \* in the sleep of carrier_sense
        "idle_wait",  \* waits for its event of __idle_waiters
        "probe",      \* in get_timeout(0), before the radio is put into receive mode
        "settle",     \* in the sleep of receive_data_within
        "get",        \* waits for the receive queue
        "process",    \* in the sleep after the queue
        "preamble",   \* the preamble is in the air
        "payload",    \* the payload is in the air
        "ending",     \* tells the receivers that the packet is over
        "delivered",  \* put a packet into a queue nobody waits for
        "putting",    \* in the tick that a put takes to wake a getter
        "crashed"}    \* ValueError out of the queue, ends the program

TypeOK ==
    /\ radio_state \in [Radios -> States]
    /\ powered \in [Radios -> SUBSET Nat]
    /\ rx_continuous \in [Radios -> BOOLEAN]
    /\ tx_config \in [Radios -> Configs]
    /\ DOMAIN rx_chains = Radios
    /\ \A r \in Radios : /\ Len(rx_chains[r]) \in 1 .. MaxChains[r]
                         /\ \A c \in DOMAIN rx_chains[r] : IsRxChain(rx_chains[r][c])
    /\ rx_queue \in [Radios -> Seq([packet : Packets, chain : Nat, received_preamble : BOOLEAN])]
    /\ getter \in [Radios -> Tasks \cup {NoTask}]
    /\ clock \in {"runs", "last move", "stopped"}
    /\ idle_waiters \in [Radios -> SUBSET Tasks]
    /\ tx_end_time \in [Radios -> Nat]
    /\ pc \in [Tasks -> PCs]
    /\ call \in [Tasks -> CallNames \cup {"none"}]
    /\ old_state \in [Tasks -> States]
    /\ left \in [Tasks -> Nat \cup {Forever}]
    /\ packet \in [Tasks -> 0 .. MaxPackets]
    /\ receivers \in [Tasks -> SUBSET Radios]
    /\ late \in [Tasks -> Nat]
    /\ sent \in 0 .. MaxPackets
    /\ running \in Tasks \cup {NoTask}

-----------------------------------------------------------------------------
(* Receive chains.                                                         *)

Transit(r, c) == rx_chains[r][c].packets_in_transit
InTransit(r) == UNION {DOMAIN Transit(r, c) : c \in DOMAIN rx_chains[r]}
EnabledChains(chains) == {c \in DOMAIN chains : chains[c].enabled}

overlaps(config, other) == config[1] = other[1]

\* Every reception a chain is busy with is lost
Interrupted(chain) ==
    LET flying == chain.packets_in_transit
    IN  [chain EXCEPT !.packets_in_transit =
            [p \in DOMAIN flying |-> [flying[p] EXCEPT !.interrupted = TRUE]]]

AllInterrupted(chains) == [c \in DOMAIN chains |-> Interrupted(chains[c])]

\* A chain without packet p
Without(chain, p) ==
    LET flying == chain.packets_in_transit
    IN  [chain EXCEPT !.packets_in_transit = [q \in DOMAIN flying \ {p} |-> flying[q]]]

AllWithout(chains, p) == [c \in DOMAIN chains |-> Without(chains[c], p)]

\* __can_receive
can_receive(r, config, chain) == radio_state[r] = "RX" /\ config = chain.config

\* PacketMetadata.received_successfully, with missed_end computed as _on_receive_end does
received_successfully(r, c, p) ==
    LET m == Transit(r, c)[p]
    IN  /\ ~m.collision /\ ~m.missed_start /\ ~m.interrupted /\ ~m.demodulate_failure
        /\ can_receive(r, m.config, rx_chains[r][c])

\* carrier_sense_instant, on any of the enabled chains
carrier_sense_instant(chains) ==
    \E c \in EnabledChains(chains) : \E p \in DOMAIN chains[c].packets_in_transit :
        LET config == chains[c].packets_in_transit[p].config
        IN  /\ config[1] = chains[c].config[1]
            /\ waveform[config[2]] = waveform[chains[c].config[2]]

\* _on_receive_start on one chain: packet p with the given configuration meets what the chain
\* is busy with, and survivor is what __capture_effect says of p and each of these
on_receive_start(chain, p, config, missed, weak, survivor) ==
    LET flying == chain.packets_in_transit
        rivals == {q \in DOMAIN flying : overlaps(flying[q].config, config)}
        fresh  == [config |-> config, collision |-> \E q \in rivals : ~survivor[q][2],
                   missed_start |-> missed, demodulate_failure |-> weak,
                   interrupted |-> FALSE, received_preamble |-> FALSE]
    IN  IF ~chain.enabled \/ ~overlaps(chain.config, config) THEN chain
        ELSE [chain EXCEPT !.packets_in_transit =
                [q \in DOMAIN flying \cup {p} |->
                    IF q = p THEN fresh
                    ELSE [flying[q] EXCEPT !.collision =
                            flying[q].collision \/ (q \in rivals /\ ~survivor[q][1])]]]

-----------------------------------------------------------------------------
(* Steps shared by the calls.                                              *)

\* _set_state, with what it tells the power consumer
SetState(r, state) ==
    /\ radio_state' = [radio_state EXCEPT ![r] = state]
    /\ powered' = [powered EXCEPT ![r] =
                      IF state = "RX" THEN EnabledChains(rx_chains[r]) ELSE {}]

Alive == \A t \in Tasks : pc[t] # "crashed"

\* t is outside of the radio, has the processor and makes the call
Enters(t, name) == Alive /\ running = NoTask /\ pc[t] = "client" /\ name \in Calls[t]

\* t is resumed where it was suspended
Resumes(t, phase) == Alive /\ running = NoTask /\ pc[t] = phase /\ left[t] = 0

\* The call suspends t
Suspend(t, name, phase, ticks) ==
    /\ pc' = [pc EXCEPT ![t] = phase]
    /\ call' = [call EXCEPT ![t] = name]
    /\ left' = [left EXCEPT ![t] = ticks]

Return(t) == Suspend(t, "none", "client", 0)

\* The await self.standby() of a call
WakesUp(t, name) ==
    SetState(radioOf[t], "STANDBY") /\ Suspend(t, name, "standby", StandbyTime)

-----------------------------------------------------------------------------
(* standby, off, receive.                                                  *)

Standby(t) ==
    /\ Enters(t, "standby")
    /\ radio_state[radioOf[t]] # "STANDBY"
    /\ WakesUp(t, "standby")
    /\ UNCHANGED <<rx_continuous, tx_config, rx_chains, queueVars, idle_waiters, old_state,
                   airVars, running>>

StandbyDone(t) ==
    /\ Resumes(t, "standby") /\ call[t] = "standby"
    /\ Return(t)
    /\ UNCHANGED <<radioVars, rx_continuous, tx_config, rx_chains, queueVars, idle_waiters,
                   old_state, airVars, running>>

Off(t) ==
    /\ Enters(t, "off")
    /\ radio_state[radioOf[t]] # "OFF"
    /\ SetState(radioOf[t], "OFF")
    /\ UNCHANGED <<rx_continuous, tx_config, rx_chains, queueVars, idle_waiters, pc, call,
                   old_state, left, airVars, running>>

\* The receiver goes on; after the await of standby() nothing is checked again
Listens(t, name) ==
    /\ SetState(radioOf[t], "RX")
    /\ rx_continuous' = [rx_continuous EXCEPT ![radioOf[t]] = name = "receive"]
    /\ Return(t)

\* receive(continuous); in TX it raises RuntimeError and changes nothing
Receive(t) ==
    /\ radio_state[radioOf[t]] # "TX"
    /\ \E name \in {"receive", "receive_once"} :
         /\ Enters(t, name)
         /\ IF radio_state[radioOf[t]] = "OFF"
            THEN WakesUp(t, name) /\ UNCHANGED rx_continuous
            ELSE Listens(t, name)
    /\ UNCHANGED <<tx_config, rx_chains, queueVars, idle_waiters, old_state, airVars, running>>

ReceiveAfterStandby(t) ==
    /\ Resumes(t, "standby") /\ call[t] \in {"receive", "receive_once"}
    /\ Listens(t, call[t])
    /\ UNCHANGED <<tx_config, rx_chains, queueVars, idle_waiters, old_state, airVars, running>>

-----------------------------------------------------------------------------
(* carrier_sense and wait_for_channel_idle.                                *)

\* From the check for TX on: RuntimeError, or RX and the sleep
Senses(t) ==
    /\ CASE radio_state[radioOf[t]] = "TX" -> Return(t)
         [] OTHER -> Suspend(t, "carrier_sense", "sense", SenseTime)
    /\ IF radio_state[radioOf[t]] \in {"TX", "RX"} THEN UNCHANGED radioVars
                                                   ELSE SetState(radioOf[t], "RX")

CarrierSense(t) ==
    /\ Enters(t, "carrier_sense")
    /\ radio_state[radioOf[t]] # "TX"
    /\ old_state' = [old_state EXCEPT ![t] = radio_state[radioOf[t]]]
    /\ IF radio_state[radioOf[t]] = "OFF" THEN WakesUp(t, "carrier_sense") ELSE Senses(t)
    /\ UNCHANGED <<rx_continuous, tx_config, rx_chains, queueVars, idle_waiters, airVars, running>>

SenseAfterStandby(t) ==
    /\ Resumes(t, "standby") /\ call[t] = "carrier_sense"
    /\ Senses(t)
    /\ UNCHANGED <<rx_continuous, tx_config, rx_chains, queueVars, idle_waiters, old_state,
                   airVars, running>>

SenseDone(t) ==
    /\ Resumes(t, "sense")
    /\ SetState(radioOf[t], old_state[t])
    /\ Return(t)
    /\ old_state' = [old_state EXCEPT ![t] = "OFF"]
    /\ UNCHANGED <<rx_continuous, tx_config, rx_chains, queueVars, idle_waiters, airVars, running>>

\* One pass of the while of wait_for_channel_idle, on any chain
WaitsForIdle(t, waiters) ==
    IF carrier_sense_instant(rx_chains[radioOf[t]])
    THEN /\ idle_waiters' = [idle_waiters EXCEPT ![radioOf[t]] = waiters \cup {t}]
         /\ Suspend(t, "wait_idle", "idle_wait", Forever)
    ELSE /\ idle_waiters' = [idle_waiters EXCEPT ![radioOf[t]] = waiters]
         /\ Return(t)

WaitForChannelIdle(t) ==
    /\ Enters(t, "wait_idle")
    /\ WaitsForIdle(t, idle_waiters[radioOf[t]])
    /\ UNCHANGED <<radioVars, rx_continuous, tx_config, rx_chains, queueVars, old_state, airVars,
                   running>>

IdleNoticed(t) ==
    /\ Resumes(t, "idle_wait")
    /\ WaitsForIdle(t, idle_waiters[radioOf[t]] \ {t})
    /\ UNCHANGED <<radioVars, rx_continuous, tx_config, rx_chains, queueVars, old_state, airVars,
                   running>>

-----------------------------------------------------------------------------
(* receive_data_nowait, receive_data_wait and receive_data_within.  One    *)
(* task at a time receives on a radio; several getters of one queue are    *)
(* the subject of module SimQueue.                                         *)

Takes(t) == /\ rx_queue' = [rx_queue EXCEPT ![radioOf[t]] = Tail(@)]
            /\ UNCHANGED <<getter, clock>>

\* After the get_timeout(0) only receive_data_nowait sleeps, after the other get only _wait does
Processes(t, name, phase) ==
    IF <<name, phase>> \in {<<"nowait", "probe">>, <<"wait", "get">>}
    THEN Suspend(t, name, "process", ProcessDelay)
    ELSE Return(t)

\* Queue.__get: an item at once, or a wait with the event in __get_events
Gets(t, name, phase, ticks) ==
    IF rx_queue[radioOf[t]] # <<>> /\ getter[radioOf[t]] = NoTask
    THEN Takes(t) /\ Processes(t, name, phase)
    ELSE /\ getter' = [getter EXCEPT ![radioOf[t]] = t]
         /\ Suspend(t, name, phase, ticks)
         /\ UNCHANGED <<rx_queue, clock>>

\* u is in receive_data_nowait, receive_data_wait or receive_data_within, before the last sleep
Receiving(u) ==
    \/ pc[u] \in {"probe", "settle", "get"}
    \/ pc[u] = "standby" /\ call[u] \in {"wait", "within"}

ReceiveData(t) ==
    /\ \A u \in Tasks : radioOf[u] = radioOf[t] => ~Receiving(u)
    /\ \E name \in {"nowait", "wait", "within"} :
         Enters(t, name) /\ Gets(t, name, "probe", 1)
    /\ UNCHANGED <<radioVars, rx_continuous, tx_config, rx_chains, idle_waiters, old_state,
                   airVars, running>>

\* Woken up with an item in the queue
GetHit(t) ==
    /\ Resumes(t, "probe") \/ Resumes(t, "get")
    /\ rx_queue[radioOf[t]] # <<>>
    /\ Takes(t)
    /\ Processes(t, call[t], pc[t])
    /\ UNCHANGED <<radioVars, rx_continuous, tx_config, rx_chains, idle_waiters, old_state,
                   airVars, running>>

\* Woken up by the timeout
TimesOut(t, phase) ==
    /\ Resumes(t, phase)
    /\ rx_queue[radioOf[t]] = <<>> /\ getter[radioOf[t]] = t
    /\ getter' = [getter EXCEPT ![radioOf[t]] = NoTask]
    /\ UNCHANGED <<rx_queue, clock>>

\* receive_data_nowait returns None, receive_data_within raises; in TX the probing calls raise
GetMiss(t) ==
    /\ \/ TimesOut(t, "get")
       \/ TimesOut(t, "probe") /\ (call[t] = "nowait" \/ radio_state[radioOf[t]] = "TX")
    /\ Return(t)
    /\ UNCHANGED <<radioVars, rx_continuous, tx_config, rx_chains, idle_waiters, old_state,
                   airVars, running>>

\* The radio is put into receive mode, whatever it does by now
TurnsOn(t) ==
    IF radio_state[radioOf[t]] = "RX" THEN UNCHANGED radioVars ELSE SetState(radioOf[t], "RX")

\* After a get_timeout(0) without result: from OFF through standby, else into the second wait
ProbeMiss(t) ==
    /\ call[t] # "nowait" /\ radio_state[radioOf[t]] # "TX"
    /\ CASE radio_state[radioOf[t]] = "OFF" ->
                TimesOut(t, "probe") /\ WakesUp(t, call[t])
         [] radio_state[radioOf[t]] # "OFF" /\ call[t] = "within" ->
                /\ TimesOut(t, "probe")
                /\ TurnsOn(t)
                /\ Suspend(t, "within", "settle", ProcessDelay)
         [] OTHER ->
                /\ Resumes(t, "probe")
                /\ rx_queue[radioOf[t]] = <<>> /\ getter[radioOf[t]] = t
                /\ TurnsOn(t)
                /\ Gets(t, "wait", "get", Forever)
    /\ UNCHANGED <<rx_continuous, tx_config, rx_chains, idle_waiters, old_state, airVars, running>>

TurnOnAfterStandby(t) ==
    /\ Resumes(t, "standby")
    /\ TurnsOn(t)
    /\ \/ call[t] = "wait" /\ Gets(t, "wait", "get", Forever)
       \/ call[t] = "within" /\ Suspend(t, "within", "settle", ProcessDelay)
                             /\ UNCHANGED queueVars
    /\ UNCHANGED <<rx_continuous, tx_config, rx_chains, idle_waiters, old_state, airVars, running>>

SettleDone(t) ==
    /\ Resumes(t, "settle")
    /\ \E timeout \in Timeouts : Gets(t, "within", "get", timeout)
    /\ UNCHANGED <<radioVars, rx_continuous, tx_config, rx_chains, idle_waiters, old_state,
                   airVars, running>>

\* The packet that woke t up was flushed in the meantime: ValueError (see SimQueue)
GetCrashes(t) ==
    /\ Resumes(t, "probe") \/ Resumes(t, "get")
    /\ rx_queue[radioOf[t]] = <<>> /\ getter[radioOf[t]] # t
    /\ Suspend(t, "none", "crashed", 0)
    /\ UNCHANGED <<radioVars, rx_continuous, tx_config, rx_chains, queueVars, idle_waiters,
                   old_state, airVars, running>>

ProcessDone(t) ==
    /\ Resumes(t, "process")
    /\ Return(t)
    /\ UNCHANGED <<radioVars, rx_continuous, tx_config, rx_chains, queueVars, idle_waiters,
                   old_state, airVars, running>>

FlushRxQueue(t) ==
    /\ Enters(t, "flush")
    /\ rx_queue[radioOf[t]] # <<>>
    /\ rx_queue' = [rx_queue EXCEPT ![radioOf[t]] = <<>>]
    /\ UNCHANGED <<radioVars, rx_continuous, tx_config, rx_chains, getter, clock, idle_waiters,
                   pc, call, old_state, left, airVars, running>>

-----------------------------------------------------------------------------
(* transmit_data_blocking and transmit_packet_blocking.  transmit_data     *)
(* runs the former in a child task: another task of the same radio.        *)

\* The packet is made and presented to the radios that are in receive mode; own are the
\* receive chains of the transmitting radio
StartsTransmission(t, own) ==
    LET r     == radioOf[t]
        p     == sent + 1
        heard == {q \in Radios \ {r} : radio_state[q] = "RX"}
        Meets(q, survivor) ==
            [c \in DOMAIN rx_chains[q] |->
                on_receive_start(rx_chains[q][c], p, tx_config[r],
                                 ~can_receive(q, tx_config[r], rx_chains[q][c]),
                                 <<r, q>> \in OutOfRange, survivor)]
    IN  /\ SetState(r, "TX")
        /\ packet' = [packet EXCEPT ![t] = p]
        /\ receivers' = [receivers EXCEPT ![t] = heard]
        /\ sent' = p
        /\ \E survivor \in [heard -> [1 .. sent -> Survivors]] :
             rx_chains' = [q \in Radios |->
                CASE q = r -> own
                  [] q \in heard -> Meets(q, survivor[q])
                  [] OTHER -> rx_chains[q]]
        /\ Suspend(t, "transmit", "preamble", PreambleTime)
        /\ UNCHANGED <<late, tx_end_time>>

Waking == {t \in Tasks : call[t] = "transmit" /\ pc[t] = "standby"}

\* AlreadyTransmittingException in TX.  Only a radio that is in RX now interrupts what it
\* receives
Transmit(t) ==
    LET r == radioOf[t]
    IN  /\ sent + Cardinality(Waking) < MaxPackets
        /\ Enters(t, "transmit")
        /\ radio_state[r] # "TX"
        /\ CASE radio_state[r] = "OFF" -> WakesUp(t, "transmit") /\ UNCHANGED <<rx_chains, airVars>>
             [] radio_state[r] = "RX"  -> StartsTransmission(t, AllInterrupted(rx_chains[r]))
             [] OTHER                  -> StartsTransmission(t, rx_chains[r])
        /\ UNCHANGED <<rx_continuous, tx_config, queueVars, idle_waiters, old_state, running>>

TransmitAfterStandby(t) ==
    /\ Resumes(t, "standby") /\ call[t] = "transmit"
    /\ StartsTransmission(t, rx_chains[radioOf[t]])
    /\ UNCHANGED <<rx_continuous, tx_config, queueVars, idle_waiters, old_state, running>>

\* _on_receive_preamble at every receiver
PreambleDone(t) ==
    LET p == packet[t]
        Synced(m) == [m EXCEPT !.received_preamble =
                        ~m.missed_start /\ ~m.demodulate_failure /\ ~m.collision /\ ~m.interrupted]
        Marked(chain) ==
            IF p \notin DOMAIN chain.packets_in_transit THEN chain
            ELSE [chain EXCEPT !.packets_in_transit[p] = Synced(@)]
    IN  /\ Resumes(t, "preamble")
        /\ rx_chains' = [q \in Radios |->
                IF q \in receivers[t]
                THEN [c \in DOMAIN rx_chains[q] |-> Marked(rx_chains[q][c])]
                ELSE rx_chains[q]]
        /\ \E ticks \in PayloadTimes : Suspend(t, "transmit", "payload", ticks)
        /\ UNCHANGED <<radioVars, rx_continuous, tx_config, queueVars, idle_waiters, old_state,
                       airVars, running>>

PayloadDone(t) ==
    /\ Resumes(t, "payload")
    /\ running' = t
    /\ pc' = [pc EXCEPT ![t] = "ending"]
    /\ UNCHANGED <<radioVars, rx_continuous, tx_config, rx_chains, queueVars, idle_waiters, call,
                   old_state, left, airVars>>

\* q is done with, its chains are as given and the woken idle waiters are scheduled
Leaves(t, q, chains, woken) ==
    /\ rx_chains' = [rx_chains EXCEPT ![q] = chains]
    /\ idle_waiters' = [idle_waiters EXCEPT ![q] = @ \ woken]
    /\ left' = [u \in Tasks |-> IF u \in woken THEN 1 ELSE left[u]]
    /\ receivers' = [receivers EXCEPT ![t] = @ \ {q}]
    /\ pc' = [pc EXCEPT ![t] = "ending"]
    /\ running' = t
    /\ UNCHANGED <<packet, late, sent, tx_end_time>>

IdleNow(q, chains) == IF carrier_sense_instant(chains) THEN {} ELSE idle_waiters[q]

\* Mutant of LeavesReceiver: a radio that no longer listens keeps the packet
LeavesListeningReceiver(t, q) ==
    LET chains == IF radio_state[q] = "RX" THEN AllWithout(rx_chains[q], packet[t])
                                           ELSE rx_chains[q]
    IN  Leaves(t, q, chains, IdleNow(q, chains))

\* Mutant of LeavesReceiver: the channel is sensed before the packet is taken out
LeavesReceiverAfterSensing(t, q) ==
    Leaves(t, q, AllWithout(rx_chains[q], packet[t]), IdleNow(q, rx_chains[q]))

\* What _on_receive_end does once nothing is left to deliver: the packet leaves every chain,
\* and the idle waiters are scheduled for the next tick when the channel is idle
LeavesReceiver(t, q) ==
    LET chains == AllWithout(rx_chains[q], packet[t])
    IN  Leaves(t, q, chains, IdleNow(q, chains))

\* The chains of q on which t's packet was received
Winners(t, q) ==
    {c \in DOMAIN rx_chains[q] :
        packet[t] \in DOMAIN Transit(q, c) /\ received_successfully(q, c, packet[t])}

AtReceiver(t, q) ==
    running = t /\ pc[t] = "ending" /\ receivers[t] # {} /\ q = Min(receivers[t])

\* _on_receive_end of a packet that was lost on every chain
ReceiveEndLost(t) ==
    \E q \in receivers[t] :
        /\ AtReceiver(t, q)
        /\ Winners(t, q) = {}
        /\ LeavesReceiver(t, q)
        /\ UNCHANGED <<radioVars, rx_continuous, tx_config, queueVars, call, old_state>>

\* The putting task goes on at once, or is back after some ticks; a getter whose timeout is due
\* in this very tick needs no waking.  One whose timeout is due in the next tick, and every
\* get_timeout(0) is such a one until its tick is over, is then in the list of that tick twice:
\* __run_simulation takes two locks for it, it gives one back, and the clock never moves again.
PutDone(t, q, next, ticks) ==
    IF getter[q] = NoTask
    THEN /\ pc' = [pc EXCEPT ![t] = next]
         /\ UNCHANGED <<left, getter, clock, running>>
    ELSE /\ pc' = [pc EXCEPT ![t] = "putting"]
         /\ left' = [left EXCEPT ![t] = ticks, ![getter[q]] = IF @ = 0 THEN 0 ELSE 1]
         /\ getter' = [getter EXCEPT ![q] = NoTask]
         /\ clock' = IF clock = "runs" /\ left[getter[q]] = 1 THEN "last move" ELSE clock
         /\ running' = NoTask

\* Mutant of put: the clock advances twice
putSlowly(t, q, item) ==
    rx_queue' = [rx_queue EXCEPT ![q] = Append(@, item)] /\ PutDone(t, q, "delivered", 2)

\* Mutant of put: _on_receive_end goes on with the other chains as if nothing were delivered
putForgotten(t, q, item) ==
    rx_queue' = [rx_queue EXCEPT ![q] = Append(@, item)] /\ PutDone(t, q, "ending", 1)

\* Queue.put: a getter that waits is woken in the next tick, and so is the putting task
put(t, q, item) ==
    rx_queue' = [rx_queue EXCEPT ![q] = Append(@, item)] /\ PutDone(t, q, "delivered", 1)

\* _on_receive_end up to the put on the first chain that received the packet, the put included:
\* while the put takes its tick the packet stays on the chains that follow
ReceiveEndPut(t) ==
    \E q \in receivers[t] :
        /\ AtReceiver(t, q)
        /\ Winners(t, q) # {}
        /\ LET w == Min(Winners(t, q))
               p == packet[t]
           IN  /\ rx_chains' = [rx_chains EXCEPT ![q] =
                        [c \in DOMAIN @ |-> IF c <= w THEN Without(@[c], p) ELSE @[c]]]
               /\ put(t, q, [packet |-> p, chain |-> w,
                             received_preamble |-> Transit(q, w)[p].received_preamble])
        /\ UNCHANGED <<radioVars, rx_continuous, tx_config, idle_waiters, call, old_state, airVars>>

\* Mutant of SingleShotOver: whatever the radio has turned to in the meantime
SingleShotAlways(q) == ~rx_continuous[q]

SingleShotOver(q) == radio_state[q] = "RX" /\ ~rx_continuous[q]

\* The rest of _on_receive_end: a single shot receiver goes off, the other chains are emptied
ReceiveEndRest(t) ==
    LET q == Min(receivers[t])
    IN  /\ (running = t /\ pc[t] = "delivered") \/ Resumes(t, "putting")
        /\ IF SingleShotOver(q) THEN SetState(q, "OFF") ELSE UNCHANGED radioVars
        /\ LeavesReceiver(t, q)
        /\ UNCHANGED <<rx_continuous, tx_config, queueVars, call, old_state>>

\* Mutant of LeavesTX: a continuous receiver is taken to be listening still
LeavesTXUnlessContinuous(t, r) ==
    IF ~rx_continuous[r] /\ radio_state[r] # "STANDBY" THEN WakesUp(t, "standby")
    ELSE Return(t) /\ UNCHANGED radioVars

\* The radio goes back to receive mode, or through standby()
LeavesTX(t, r) ==
    CASE rx_continuous[r] -> SetState(r, "RX") /\ Return(t)
      [] ~rx_continuous[r] /\ radio_state[r] # "STANDBY" -> WakesUp(t, "standby")
      [] OTHER -> Return(t) /\ UNCHANGED radioVars

\* Back in transmit_data_blocking: the end is recorded, the radio leaves TX
TransmitDone(t) ==
    /\ running = t /\ pc[t] = "ending" /\ receivers[t] = {}
    /\ tx_end_time' = [tx_end_time EXCEPT ![radioOf[t]] = late[t]]
    /\ packet' = [packet EXCEPT ![t] = 0]
    /\ late' = [late EXCEPT ![t] = 0]
    /\ LeavesTX(t, radioOf[t])
    /\ running' = NoTask
    /\ UNCHANGED <<rx_continuous, tx_config, rx_chains, queueVars, idle_waiters, old_state,
                   receivers, sent>>

-----------------------------------------------------------------------------
(* Configuration, which never suspends.                                    *)

ConfigOnly(t) == UNCHANGED <<radioVars, queueVars, idle_waiters, pc, call, old_state, left,
                             airVars, running>>

SetTxConfig(t) ==
    /\ Enters(t, "set_tx_config")
    /\ \E config \in Configs : tx_config' = [tx_config EXCEPT ![radioOf[t]] = config]
    /\ UNCHANGED <<rx_chains, rx_continuous>>
    /\ ConfigOnly(t)

\* _set_chain_config
Retuned(chain, config) == Interrupted([chain EXCEPT !.config = config])

\* set_rx_config of a client radio
SetRxConfig(t) ==
    /\ Enters(t, "set_rx_config")
    /\ \E config \in Configs :
         rx_chains' = [rx_chains EXCEPT ![radioOf[t]][1] = Retuned(@, config)]
    /\ \E continuous \in BOOLEAN :
         rx_continuous' = [rx_continuous EXCEPT ![radioOf[t]] = continuous]
    /\ UNCHANGED tx_config
    /\ ConfigOnly(t)

\* set_channel of a client radio: both frequencies, no modulation parameter
SetChannel(t) ==
    /\ Enters(t, "set_channel")
    /\ \E f \in Frequencies :
         /\ tx_config' = [tx_config EXCEPT ![radioOf[t]] = <<f, @[2]>>]
         /\ rx_chains' = [rx_chains EXCEPT ![radioOf[t]][1] = Retuned(@, <<f, @.config[2]>>)]
    /\ UNCHANGED rx_continuous
    /\ ConfigOnly(t)

\* set_rx_chain_config of a gateway radio
SetRxChainConfig(t) ==
    /\ Enters(t, "set_chain_config")
    /\ \E c \in DOMAIN rx_chains[radioOf[t]], config \in Configs :
         rx_chains' = [rx_chains EXCEPT ![radioOf[t]][c] = Retuned(@, config)]
    /\ UNCHANGED <<tx_config, rx_continuous>>
    /\ ConfigOnly(t)

\* Mutant of Enabled: what the chain was receiving goes on
EnabledOnly(chain, enabled) == [chain EXCEPT !.enabled = enabled]

\* enable_rx_chain
Enabled(chain, enabled) ==
    [(IF enabled THEN chain ELSE Interrupted(chain)) EXCEPT !.enabled = enabled]

EnableRxChain(t) ==
    /\ Enters(t, "enable_chain")
    /\ \E c \in DOMAIN rx_chains[radioOf[t]], enabled \in BOOLEAN :
         rx_chains' = [rx_chains EXCEPT ![radioOf[t]][c] = Enabled(@, enabled)]
    /\ UNCHANGED <<tx_config, rx_continuous>>
    /\ ConfigOnly(t)

\* RxChain.__init__
NewChain(config) == [config |-> config, enabled |-> TRUE, packets_in_transit |-> <<>>]

\* The check of add_rx_chain, which raises TooManyRxChainsException
HasRoom(r) == Len(rx_chains[r]) < MaxChains[r]

AddRxChain(t) ==
    /\ Enters(t, "add_chain")
    /\ HasRoom(radioOf[t])
    /\ \E config \in Configs :
         rx_chains' = [rx_chains EXCEPT ![radioOf[t]] = Append(@, NewChain(config))]
    /\ UNCHANGED <<tx_config, rx_continuous>>
    /\ ConfigOnly(t)

\* set_channel_plan: a chain per frequency, the chains beyond are switched off
SetChannelPlan(t) ==
    LET r == radioOf[t]
        chains == rx_chains[r]
        Planned(plan, m, c) ==
            CASE c \in DOMAIN plan /\ c \in DOMAIN chains ->
                    [Retuned(chains[c], <<plan[c], m>>) EXCEPT !.enabled = TRUE]
              [] c \in DOMAIN plan /\ c \notin DOMAIN chains -> NewChain(<<plan[c], m>>)
              [] OTHER -> Enabled(chains[c], FALSE)
    IN  /\ Enters(t, "channel_plan")
        /\ \E n \in 1 .. MaxChains[r], m \in Modulations : \E plan \in [1 .. n -> Frequencies] :
             rx_chains' = [rx_chains EXCEPT ![r] =
                [c \in DOMAIN chains \cup DOMAIN plan |-> Planned(plan, m, c)]]
        /\ UNCHANGED <<tx_config, rx_continuous>>
        /\ ConfigOnly(t)

-----------------------------------------------------------------------------
(* The clock, and the specification.                                       *)

Tick ==
    /\ Alive /\ running = NoTask /\ clock # "stopped"
    /\ \A t \in Tasks : pc[t] = "client" \/ left[t] # 0
    /\ \E t \in Tasks : left[t] > 0
    /\ left' = [t \in Tasks |-> IF left[t] > 0 THEN left[t] - 1 ELSE left[t]]
    /\ late' = [t \in Tasks |-> IF pc[t] = "putting" THEN late[t] + 1 ELSE late[t]]
    /\ clock' = IF clock = "last move" THEN "stopped" ELSE clock
    /\ UNCHANGED <<radioVars, rx_continuous, tx_config, rx_chains, rx_queue, getter,
                   idle_waiters, pc, call, old_state, packet, receivers, sent, tx_end_time,
                   running>>

\* __wait_for_timer_unlock, which looks at the count of locks over and over
SpinsForever == clock = "stopped" /\ UNCHANGED vars

\* sys.exit(1)
Exited == ~Alive /\ UNCHANGED vars

Init ==
    /\ radio_state = [r \in Radios |-> "OFF"]
    /\ powered = [r \in Radios |-> {}]
    /\ rx_continuous = [r \in Radios |-> TRUE]
    /\ tx_config = [r \in Radios |-> DefaultConfig]
    /\ rx_chains = [r \in Radios |-> <<NewChain(DefaultConfig)>>]
    /\ rx_queue = [r \in Radios |-> <<>>]
    /\ getter = [r \in Radios |-> NoTask]
    /\ clock = "runs"
    /\ idle_waiters = [r \in Radios |-> {}]
    /\ tx_end_time = [r \in Radios |-> 0]
    /\ pc = [t \in Tasks |-> "client"]
    /\ call = [t \in Tasks |-> "none"]
    /\ old_state = [t \in Tasks |-> "OFF"]
    /\ left = [t \in Tasks |-> 0]
    /\ packet = [t \in Tasks |-> 0]
    /\ receivers = [t \in Tasks |-> {}]
    /\ late = [t \in Tasks |-> 0]
    /\ sent = 0
    /\ running = NoTask

ClientCall(t) ==
    \/ Standby(t) \/ Off(t) \/ Receive(t) \/ CarrierSense(t) \/ WaitForChannelIdle(t)
    \/ ReceiveData(t) \/ FlushRxQueue(t) \/ Transmit(t)
    \/ SetTxConfig(t) \/ SetRxConfig(t) \/ SetChannel(t) \/ SetRxChainConfig(t)
    \/ EnableRxChain(t) \/ AddRxChain(t) \/ SetChannelPlan(t)

Resumption(t) ==
    \/ StandbyDone(t) \/ ReceiveAfterStandby(t) \/ SenseAfterStandby(t) \/ SenseDone(t)
    \/ IdleNoticed(t) \/ ProbeMiss(t) \/ TurnOnAfterStandby(t) \/ SettleDone(t)
    \/ GetHit(t) \/ GetMiss(t) \/ GetCrashes(t) \/ ProcessDone(t)
    \/ TransmitAfterStandby(t) \/ PreambleDone(t) \/ PayloadDone(t)
    \/ ReceiveEndLost(t) \/ ReceiveEndPut(t) \/ ReceiveEndRest(t) \/ TransmitDone(t)

Next == (\E t \in Tasks : ClientCall(t) \/ Resumption(t)) \/ Tick \/ SpinsForever \/ Exited

Spec == Init /\ [][Next]_vars

-----------------------------------------------------------------------------
(* Properties.                                                             *)

\* t has a packet on the air, or is still telling its receivers that it is over
OnAir(t) == pc[t] \in {"preamble", "payload", "ending", "delivered", "putting"}

\* Every packet in a chain's packets_in_transit is on the air, and its transmission will still
\* come to this radio to take it out: no path through _on_receive_end, _set_state, the
\* configuration calls or a switched off chain leaves an entry behind, which would make
\* carrier_sense_instant report a busy channel forever.
TransitIsOnAir ==
    \A r \in Radios : \A p \in InTransit(r) :
        \E t \in Tasks : OnAir(t) /\ packet[t] = p /\ r \in receivers[t]

\* A radio is in TX only while a task transmits on it: neither a second task's standby(), off()
\* or carrier_sense(), nor the state that carrier_sense puts back, leaves it stuck in TX, where
\* every later receive() and transmit would raise.
TXHasTransmission ==
    \A r \in Radios :
        radio_state[r] = "TX" => \E t \in Tasks : OnAir(t) /\ radioOf[t] = r

\* With one task per radio a radio stays in TX from the start of its packet until the last
\* receiver has been told: the callbacks that other transmissions run on it (_on_receive_end of
\* a single shot receiver switches it off) never touch a radio that is transmitting.
TransmissionStaysInTX ==
    \A t \in Tasks : OnAir(t) => radio_state[radioOf[t]] = "TX"

\* No wait_for_channel_idle is forgotten: while a task waits, a packet is in transit on its radio
\* (so its _on_receive_end is still to come), or that _on_receive_end is suspended in its put.
IdleWaiterHasAPacket ==
    \A r \in Radios : \A t \in idle_waiters[r] :
        \/ InTransit(r) # {}
        \/ \E u \in Tasks : pc[u] \in {"delivered", "putting"} /\ r = Min(receivers[u])

\* The notification of the end of a packet takes at most a tick per receiver: a put advances the
\* clock only for a receiver that waits, and only once per receiver.  So much, and no more, is
\* _tx_end_time, taken after it, later than the last symbol.
EndTakesATickPerReceiver ==
    /\ \A t \in Tasks : late[t] + Cardinality(receivers[t]) <= Cardinality(Radios)
    /\ \A r \in Radios : tx_end_time[r] < Cardinality(Radios)

-----------------------------------------------------------------------------
(* Liveness, with a scheduler that resumes whoever is due and a clock that *)
(* moves when nobody is, until a lock too many stops it.                   *)

FairSpec == Spec /\ WF_vars(Tick) /\ \A t \in Tasks : WF_vars(Resumption(t))

\* Every transmission comes to its end, and so does every wait for an idle channel and every wait
\* of receive_data_within, whatever the other tasks do to the radios in between, unless a packet
\* arrives in the last tick of a get and so stops the clock for everybody (queue.py:53).
CallsEnd ==
    \A t \in Tasks : (OnAir(t) \/ pc[t] = "idle_wait" \/ call[t] = "within")
                        ~> (pc[t] = "client" \/ ~Alive \/ clock = "stopped")

=============================================================================
