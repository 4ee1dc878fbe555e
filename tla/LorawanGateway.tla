-------------------------- MODULE LorawanGateway --------------------------
(***************************************************************************)
(* A LoRaWAN gateway (simulator/lorawan/gateway.py) with the multicast     *)
(* queue of the network server: the loop that receives uplinks, a task for *)
(* each reply in RX1, the multicast scheduler and the beacon scheduler,    *)
(* which share one transmitter and its duty cycle.                         *)
(*                                                                         *)
(* What a task does between two suspensions is one step.  Points in time   *)
(* are ticks from now, which Tick counts down: `left' of a suspended task, *)
(* `busy', `quiet', `next_beacon' and the due times of the queue.  An      *)
(* uplink that comes while the loop looks into its queue costs a timer     *)
(* lock that nobody gives back: the clock moves once more.                 *)
(***************************************************************************)
EXTENDS Integers, FiniteSets, Sequences, SequencesExt

CONSTANTS
    Replies,       \* tasks of _forward_uplink, a bound on the uplinks
    Frames,        \* multicast downlinks, a bound on their number
    Refusable,     \* those that build_multicast_downlink may refuse
    Rate,          \* data rate of each downlink's group, None for the gateway's own
    OwnRate, None,
    DueTime,       \* at_time of each downlink: ticks from when it is scheduled, or ASAP
    SlotOffsets,   \* ping slots, from the beacon
    MaxSlots,      \* bound on the Class B downlinks of a beacon period
    ReplyTime, FrameTime, BeaconTime, PingTime,  \* estimated air times
    MaxExtra,      \* ticks by which a task's transmission may outlast the estimate
    Gateways,      \* with Class B or not, and the quiet time after a frame of one tick
    ReceiveDelay1, BeaconInterval, BeaconGuard, BeaconReserved,
    PollInterval, TXBackoff, StandbyTime

Slack == StandbyTime + Max({MaxExtra[t] : t \in DOMAIN MaxExtra})
LongestFrame == Max({FrameTime[f] : f \in Frames} \cup {ReplyTime, BeaconTime, PingTime})

ASSUME GatewayAssumption ==
    /\ IsFiniteSet(Replies) /\ IsFiniteSet(Frames) /\ Refusable \subseteq Frames
    /\ FrameTime \in [Frames -> Nat \ {0}]
    /\ DueTime \in [Frames -> Nat \cup {-1}]
    /\ {ReplyTime, BeaconTime, PingTime, ReceiveDelay1, BeaconInterval, PollInterval, TXBackoff,
        StandbyTime} \subseteq Nat \ {0}
    /\ {BeaconGuard, BeaconReserved, MaxSlots} \subseteq Nat
    /\ MaxExtra \in [Replies \cup {"multicast", "beacon"} -> Nat]
    /\ SlotOffsets \subseteq 1 .. BeaconInterval
    /\ Gateways \subseteq [class_b : BOOLEAN, quiet_factor : Nat]
    /\ {"run", "multicast", "beacon"} \cap Replies = {}
    /\ None \notin Replies \cup Frames \cup Int \cup {"run", "multicast", "beacon", OwnRate}

\* region.py and gateway.py: RX1 of an uplink that came before a frame, TX_BACKOFF included, opens
\* earlier than BEACON_RESERVED after the frame began, and the ticks by which a reply may outlast
\* its estimate are less than the guard time
ASSUME DelayAssumption ==
    /\ 1 < ReceiveDelay1 /\ ReceiveDelay1 + TXBackoff + StandbyTime < BeaconReserved
    /\ \A r \in Replies : MaxExtra[r] <= BeaconGuard

VARIABLES
    holder,       \* the task that has _radio_lock
    busy,         \* until _tx_busy_until
    quiet_factor, \* 1/duty_cycle - 1 of the DutyCycleLimiter, 0 without one
    quiet,        \* until its quiet_until
    priority,     \* _priority_tx
    next_beacon,  \* until _next_beacon, negative when it is overdue
    radio,        \* state of the radio
    uplinks,      \* frames in the radio's receive queue
    rate,         \* data rate of the transmitter
    unscheduled,  \* downlinks that the application has not asked for yet
    queue,        \* _multicast_queue of the network server
    batch,        \* _multicast_batch
    sending,      \* the downlink that the multicast scheduler sends
    slots,        \* Class B downlinks to be sent in this period, the one in hand first
    pc, left,     \* where each task is, and the ticks until its wake-up
    clock,        \* goes on, makes its last move, or stands for ever
    rest          \* history: ticks the duty cycle still asks for after the last frames

lockVars      == <<holder, busy, quiet_factor, quiet>>
queueVars     == <<uplinks, clock>>
radioVars     == <<radio, rate, queueVars>>
multicastVars == <<unscheduled, queue, batch, sending>>
beaconVars    == <<next_beacon, slots>>
vars == <<lockVars, priority, radioVars, multicastVars, beaconVars, pc, left, rest>>

-----------------------------------------------------------------------------
(* Types.                                                                  *)

Tasks   == Replies \cup {"run", "multicast", "beacon"}
Forever == -1
ASAP    == -1      \* due before everything that has a time

PCs == {"absent", "done",
        "probe", "startup", "get", "process", "backoff",  \* the receiving loop
        "forward", "await",                               \* a reply, or a beacon
        "poll",                                           \* the multicast scheduler
        "slot",                                           \* until a ping slot
        "wait", "tx"}                                     \* in _transmit

Entries == [frame : Frames, due : Nat \cup {ASAP}]

TypeOK ==
    /\ holder \in (Tasks \ {"run"}) \cup {None}
    /\ {busy, quiet_factor, quiet, rest} \subseteq Nat
    /\ priority \in 0 .. Cardinality(Replies) + 1
    /\ next_beacon = None \/ next_beacon \in Int
    /\ radio \in {"OFF", "STANDBY", "RX", "TX"}
    /\ uplinks \in 0 .. Cardinality(Replies)
    /\ rate \in {OwnRate} \cup {Rate[f] : f \in Frames}
    /\ unscheduled \subseteq Frames /\ queue \in Seq(Entries) /\ batch \in Seq(Frames)
    /\ sending \in Frames \cup {None}
    /\ slots \in Seq(SlotOffsets)
    /\ pc \in [Tasks -> PCs] /\ left \in [Tasks -> Nat \cup {Forever}]
    /\ clock \in {"runs", "last move", "stopped"}

\* The gateway is created with or without Class B, and with or without a duty cycle
Init ==
    /\ holder = None /\ busy = 0 /\ quiet = 0 /\ priority = 0
    /\ next_beacon = None /\ slots = <<>>
    /\ radio = "OFF" /\ rate = OwnRate /\ uplinks = 0
    /\ unscheduled = Frames /\ queue = <<>> /\ batch = <<>> /\ sending = None
    /\ \E gateway \in Gateways :
        /\ quiet_factor = gateway.quiet_factor
        /\ pc = [t \in Tasks |-> CASE t = "run" -> "probe" [] t = "multicast" -> "poll"
                                   [] t = "beacon" /\ gateway.class_b -> "await"
                                   [] OTHER -> "absent"]
    /\ left = [t \in Tasks |-> IF t = "run" THEN 1 ELSE 0]
    /\ clock = "runs" /\ rest = 0

-----------------------------------------------------------------------------
(* The transmitter.                                                        *)

Due(t, where) == pc[t] = where /\ left[t] = 0

Moves(t, where, ticks) ==
    pc' = [pc EXCEPT ![t] = where] /\ left' = [left EXCEPT ![t] = ticks]

AirTime(t) ==
    CASE t \in Replies     -> ReplyTime
      [] t = "multicast"   -> FrameTime[sending]
      [] t = "beacon"      -> IF slots = <<>> THEN BeaconTime ELSE PingTime

Later(m, n) == IF m > n THEN m ELSE n

\* Mutant of Reserve: a short frame ends the quiet time of a long one
ReserveLast(airtime) == quiet' = airtime * (1 + quiet_factor) /\ UNCHANGED quiet_factor

\* DutyCycleLimiter.reserve
Reserve(airtime) ==
    /\ quiet' = Later(quiet, IF quiet_factor = 0 THEN 0 ELSE airtime * (1 + quiet_factor))
    /\ UNCHANGED quiet_factor

\* The transmitter is free and is taken for a frame; a radio that is off has to start first
TakeTransmitter(t, airtime, state) ==
    /\ holder' = t /\ busy' = airtime
    /\ Reserve(airtime)
    /\ \/ /\ state = "OFF"
          /\ radio' = "STANDBY" /\ Moves(t, "startup", StandbyTime)
       \/ /\ state # "OFF"
          /\ radio' = "TX"
          /\ \E extra \in 0 .. MaxExtra[t] : Moves(t, "tx", airtime + extra)

TransmitAfterStartup(t) ==
    /\ Due(t, "startup")
    /\ radio' = "TX"
    /\ \E extra \in 0 .. MaxExtra[t] : Moves(t, "tx", AirTime(t) + extra)
    /\ UNCHANGED <<lockVars, priority, rate, queueVars, multicastVars, beaconVars, rest>>

\* The end of a transmission: back to reception, and the lock is released
FreeTransmitter == holder' = None /\ radio' = "RX" /\ UNCHANGED <<busy, quiet_factor, quiet>>

Rested(t) == rest' = Later(rest, AirTime(t) * quiet_factor)

-----------------------------------------------------------------------------
(* Uplinks and the replies to them.                                        *)

\* _run: nothing is in the receive queue, and the receiver is turned on
ReceiveDataWait ==
    /\ Due("run", "probe") /\ uplinks = 0
    /\ \/ radio = "TX" /\ Moves("run", "backoff", TXBackoff) /\ UNCHANGED radio
       \/ radio = "OFF" /\ radio' = "STANDBY" /\ Moves("run", "startup", StandbyTime)
       \/ radio \in {"STANDBY", "RX"} /\ radio' = "RX" /\ Moves("run", "get", Forever)
    /\ UNCHANGED <<lockVars, priority, rate, queueVars, multicastVars, beaconVars, rest>>

\* Mutant of BackedOff: the RuntimeError ends the loop
BackedOffForGood ==
    /\ Due("run", "backoff")
    /\ Moves("run", "done", 0)
    /\ UNCHANGED <<lockVars, priority, radioVars, multicastVars, beaconVars, rest>>

\* get_timeout(0): at once with a frame in the queue, else a tick later
ProbeTime(frames) == IF frames > 0 THEN 0 ELSE 1

\* The transmission that was in the way may be over
BackedOff ==
    /\ Due("run", "backoff")
    /\ Moves("run", "probe", ProbeTime(uplinks))
    /\ UNCHANGED <<lockVars, priority, radioVars, multicastVars, beaconVars, rest>>

\* The radio has started, and is set to receive whatever it does by now; the get returns at once
\* when a frame is in the queue
ReceiveAfterStartup ==
    /\ Due("run", "startup")
    /\ radio' = "RX"
    /\ IF uplinks > 0 THEN Moves("run", "probe", 0) ELSE Moves("run", "get", Forever)
    /\ UNCHANGED <<lockVars, priority, rate, queueVars, multicastVars, beaconVars, rest>>

\* The tasks that are still to come, which are all alike
Absent == {r \in Replies : pc[r] = "absent"}

\* A frame was received: the loop waits for it, or it stays in the queue.  While the loop waits
\* for the timeout of the next tick, Queue.put schedules its event for that tick once more;
\* __run_simulation takes two locks for it, and the loop gives one back.
UplinkArrives ==
    /\ radio = "RX"
    /\ Cardinality(Absent) > uplinks + (IF pc["run"] = "process" THEN 1 ELSE 0)
    /\ \/ pc["run"] = "get" /\ Moves("run", "process", 1) /\ UNCHANGED queueVars
       \/ /\ pc["run"] # "get" /\ uplinks' = uplinks + 1
          /\ clock' = IF clock = "runs" /\ pc["run"] = "probe" /\ left["run"] = 1
                        THEN "last move" ELSE clock
          /\ UNCHANGED <<pc, left>>
    /\ UNCHANGED <<lockVars, priority, radio, rate, multicastVars, beaconVars, rest>>

\* The frame gets a task of its own, for which the server has a downlink or none, and the loop
\* is back at its head
HandOver ==
    /\ \/ Due("run", "process") /\ UNCHANGED uplinks
       \/ Due("run", "probe") /\ uplinks > 0 /\ uplinks' = uplinks - 1
    /\ \E reply \in {"forward", "done"} :
        pc' = [pc EXCEPT !["run"] = "probe", ![CHOOSE r \in Absent : TRUE] = reply]
    /\ left' = [left EXCEPT !["run"] = ProbeTime(uplinks')]
    /\ UNCHANGED <<lockVars, priority, radio, rate, clock, multicastVars, beaconVars, rest>>

\* _forward_uplink and _reply_in_rx1 up to the window
ForwardUplink(r) ==
    /\ Due(r, "forward")
    /\ priority' = priority + 1
    /\ Moves(r, "await", ReceiveDelay1)
    /\ UNCHANGED <<lockVars, radioVars, multicastVars, beaconVars, rest>>

\* Mutant of CollidesWithBeacon: the beacon is not looked at
CollidesNever(airtime) == airtime < 0

\* _collides_with_beacon
CollidesWithBeacon(airtime) ==
    /\ next_beacon # None
    /\ airtime > next_beacon - BeaconGuard
    /\ 0 < next_beacon + BeaconReserved

\* Mutant of ReplyInRx1: the lock is not looked at
ReplyInRx1Unlocked(r) ==
    /\ Due(r, "await")
    /\ \/ /\ CollidesWithBeacon(ReplyTime)
          /\ priority' = priority - 1
          /\ Moves(r, "done", 0)
          /\ UNCHANGED <<lockVars, radio>>
       \/ /\ ~CollidesWithBeacon(ReplyTime)
          /\ TakeTransmitter(r, ReplyTime, radio)
          /\ UNCHANGED priority
    /\ UNCHANGED <<rate, queueVars, multicastVars, beaconVars, rest>>

\* RX1 opens: the reply is skipped, or it goes out at once
ReplyInRx1(r) ==
    /\ Due(r, "await")
    /\ \/ /\ holder # None \/ CollidesWithBeacon(ReplyTime)
          /\ priority' = priority - 1
          /\ Moves(r, "done", 0)
          /\ UNCHANGED <<lockVars, radio>>
       \/ /\ holder = None /\ ~CollidesWithBeacon(ReplyTime)
          /\ TakeTransmitter(r, ReplyTime, radio)
          /\ UNCHANGED priority
    /\ UNCHANGED <<rate, queueVars, multicastVars, beaconVars, rest>>

\* Mutant of ReplyEnds: the multicast scheduler is not let go on
ReplyEndsSilently(r) ==
    /\ Due(r, "tx")
    /\ FreeTransmitter /\ Rested(r)
    /\ Moves(r, "done", 0)
    /\ UNCHANGED <<priority, rate, queueVars, multicastVars, beaconVars>>

ReplyEnds(r) ==
    /\ Due(r, "tx")
    /\ FreeTransmitter /\ Rested(r)
    /\ priority' = priority - 1
    /\ Moves(r, "done", 0)
    /\ UNCHANGED <<rate, queueVars, multicastVars, beaconVars>>

-----------------------------------------------------------------------------
(* Multicast downlinks.                                                    *)

\* schedule_multicast_downlink: in order of time, then of arrival
ScheduleMulticastDownlink(f) ==
    /\ f \in unscheduled /\ unscheduled' = unscheduled \ {f}
    /\ queue' = LET n == Cardinality({i \in DOMAIN queue : queue[i].due <= DueTime[f]})
                IN  InsertAt(queue, n + 1, [frame |-> f, due |-> DueTime[f]])
    /\ UNCHANGED <<lockVars, priority, radioVars, batch, sending, beaconVars, pc, left, rest>>

\* pop_due_multicast_downlinks; the queue is in order of time, so what is due comes first
Ready     == Cardinality({i \in DOMAIN queue : queue[i].due <= 0})
DueFrames == [i \in 1 .. Ready |-> queue[i].frame]
Remaining == SubSeq(queue, Ready + 1, Len(queue))

\* What may be left when _send_multicast has dropped the downlinks it cannot build
Buildable(frames) ==
    {SubSeq(frames, n + 1, Len(frames)) :
        n \in {m \in 0 .. Len(frames) : \A i \in 1 .. m : frames[i] \in Refusable}}

\* Mutant of Configured: the transmitter keeps the parameters of the group
ConfiguredNever == rate

\* _configure_radio: back to the gateway's own data rate (the frequency of the group stays, as
\* set_tx_config is called without one; frequencies are not in the model)
Configured == OwnRate

\* transmit_multicast, with the parameters of the group; only called when the lock is free
TransmitMulticast(f, state) ==
    /\ sending' = f
    /\ rate' = IF Rate[f] = None THEN Configured ELSE Rate[f]
    /\ TakeTransmitter("multicast", FrameTime[f], state)

\* _multicast_scheduler from its head to the next suspension, with the lock and the radio as
\* the task finds them: a pending reply or beacon and the quiet time come first
HeldUp(lock) == priority > 0 \/ lock # None \/ quiet > 0

Sleeps(lock, state, ticks) ==
    /\ Moves("multicast", "poll", ticks)
    /\ sending' = None /\ rate' = Configured
    /\ holder' = lock /\ radio' = state
    /\ UNCHANGED <<busy, quiet_factor, quiet>>

MulticastScheduler(lock, state) ==
    LET popped == IF batch = <<>> THEN DueFrames ELSE batch
    IN  \/ /\ HeldUp(lock) /\ popped # <<>>
           /\ batch' = popped
           /\ queue' = IF batch = <<>> THEN Remaining ELSE queue
           /\ Sleeps(lock, state, IF priority > 0 \/ lock # None THEN PollInterval ELSE quiet)
        \/ /\ HeldUp(lock) => popped = <<>>
           /\ \E first \in Buildable(batch), second \in Buildable(DueFrames) :
                LET frames == IF first = <<>> THEN second ELSE first
                IN  /\ queue' = IF first = <<>> THEN Remaining ELSE queue
                    /\ \/ /\ frames = <<>>
                          /\ batch' = <<>>
                          /\ Sleeps(lock, state,
                                 IF Remaining = <<>> \/ Remaining[1].due > PollInterval
                                   THEN PollInterval ELSE Remaining[1].due)
                       \/ /\ frames # <<>>
                          /\ batch' = Tail(frames)
                          /\ TransmitMulticast(Head(frames), state)

MulticastPolls ==
    /\ Due("multicast", "poll")
    /\ MulticastScheduler(holder, radio)
    /\ UNCHANGED <<priority, queueVars, unscheduled, beaconVars, rest>>

\* The end of a multicast frame, and on with the loop
MulticastEnds ==
    /\ Due("multicast", "tx")
    /\ Rested("multicast")
    /\ MulticastScheduler(None, "RX")
    /\ UNCHANGED <<priority, queueVars, unscheduled, beaconVars>>

-----------------------------------------------------------------------------
(* Beacons and ping slots.                                                 *)

\* _acquire_transmitter, by the beacon scheduler: everybody else looks at the lock first
Acquire ==
    \/ /\ holder # None
       /\ Moves("beacon", "wait", Later(busy, 1))
       /\ UNCHANGED <<lockVars, radio>>
    \/ /\ holder = None
       /\ TakeTransmitter("beacon", AirTime("beacon"), radio)

\* Mutant of BeaconDue: multicast frames are not told
BeaconDueUnannounced ==
    /\ Due("beacon", "await")
    /\ next_beacon' = IF next_beacon = None THEN 0 ELSE next_beacon
    /\ Acquire
    /\ UNCHANGED <<priority, rate, queueVars, multicastVars, slots, rest>>

\* A beacon is due, the first one when the simulation starts
BeaconDue ==
    /\ Due("beacon", "await")
    /\ next_beacon' = IF next_beacon = None THEN 0 ELSE next_beacon
    /\ priority' = priority + 1
    /\ Acquire
    /\ UNCHANGED <<rate, queueVars, multicastVars, slots, rest>>

SlotDue ==
    /\ Due("beacon", "slot")
    /\ priority' = priority + 1
    /\ Acquire
    /\ UNCHANGED <<rate, queueVars, multicastVars, beaconVars, rest>>

BeaconWaited ==
    /\ Due("beacon", "wait")
    /\ Acquire
    /\ UNCHANGED <<priority, rate, queueVars, multicastVars, beaconVars, rest>>

\* get_class_b_downlink_schedule: any few slots of the period, in order of time
Schedules == {s \in UNION {[1 .. n -> SlotOffsets] : n \in 0 .. MaxSlots} :
                \A i, j \in DOMAIN s : i < j => s[i] <= s[j]}

\* The ticks until a slot of the period that ends with a beacon in `beacon' ticks
TicksTo(slot, beacon) == slot - (BeaconInterval - beacon)

\* _send_class_b_downlinks: slots in the guard time or the past are passed over
Usable(slot, beacon) == slot < BeaconInterval - BeaconGuard /\ TicksTo(slot, beacon) > 0

Upcoming(schedule, beacon) ==
    {SubSeq(schedule, n + 1, Len(schedule)) :
        n \in {m \in 0 .. Len(schedule) :
                /\ \A i \in 1 .. m : ~Usable(schedule[i], beacon)
                /\ m < Len(schedule) => Usable(schedule[m + 1], beacon)}}

\* On to the next slot, or to the next beacon, which may be due already
BeaconGoesOn(schedule, beacon) ==
    /\ next_beacon' = beacon
    /\ slots' \in Upcoming(schedule, beacon)
    /\ \/ /\ slots' # <<>>
          /\ Moves("beacon", "slot", TicksTo(Head(slots'), beacon))
          /\ priority' = priority - 1
          /\ FreeTransmitter
       \/ /\ slots' = <<>> /\ beacon > 0
          /\ Moves("beacon", "await", beacon)
          /\ priority' = priority - 1
          /\ FreeTransmitter
       \/ /\ slots' = <<>> /\ beacon <= 0
          /\ TakeTransmitter("beacon", BeaconTime, "RX")
          /\ UNCHANGED priority

BeaconEnds ==
    /\ Due("beacon", "tx")
    /\ Rested("beacon")
    /\ \/ slots = <<>> /\ \E schedule \in Schedules :
                                BeaconGoesOn(schedule, next_beacon + BeaconInterval)
       \/ slots # <<>> /\ BeaconGoesOn(Tail(slots), next_beacon)
    /\ UNCHANGED <<rate, queueVars, multicastVars>>

-----------------------------------------------------------------------------
(* The clock, and the specification.                                       *)

AtRest(t) == pc[t] \in {"absent", "done"}
Before(n) == IF n > 0 THEN n - 1 ELSE n

Tick ==
    /\ clock # "stopped"
    /\ clock' = IF clock = "last move" THEN "stopped" ELSE clock
    /\ \A t \in Tasks : AtRest(t) \/ left[t] # 0
    /\ left' = [t \in Tasks |-> Before(left[t])]
    /\ busy' = Before(busy) /\ quiet' = Before(quiet) /\ rest' = Before(rest)
    /\ next_beacon' = IF next_beacon = None THEN None ELSE next_beacon - 1
    /\ queue' = [i \in DOMAIN queue |-> [queue[i] EXCEPT !.due = Before(@)]]
    /\ UNCHANGED <<holder, quiet_factor, priority, radio, rate, uplinks, unscheduled, batch,
                   sending, slots, pc>>

\* __wait_for_timer_unlock, which looks at the count of locks over and over
SpinsForever == clock = "stopped" /\ UNCHANGED vars

RunStep == ReceiveDataWait \/ BackedOff \/ ReceiveAfterStartup \/ HandOver

\* (a reply always finds the radio on)
ReplyStep(r) == ForwardUplink(r) \/ ReplyInRx1(r) \/ ReplyEnds(r)

MulticastStep == MulticastPolls \/ TransmitAfterStartup("multicast") \/ MulticastEnds

BeaconStep ==
    BeaconDue \/ SlotDue \/ BeaconWaited \/ TransmitAfterStartup("beacon") \/ BeaconEnds

Next ==
    \/ RunStep \/ MulticastStep \/ BeaconStep
    \/ \E r \in Replies : ReplyStep(r)
    \/ UplinkArrives
    \/ \E f \in Frames : ScheduleMulticastDownlink(f)
    \/ Tick \/ SpinsForever

Spec == Init /\ [][Next]_vars

\* Whoever is due runs, and the clock moves when nobody is, until an uplink comes while the loop
\* looks into its queue; no uplink has to come
Fairness ==
    /\ WF_vars(RunStep) /\ WF_vars(MulticastStep) /\ WF_vars(BeaconStep)
    /\ \A r \in Replies : WF_vars(ReplyStep(r))
    /\ WF_vars(Tick)

FairSpec == Spec /\ Fairness

-----------------------------------------------------------------------------
(* Properties.                                                             *)

Pending == {queue[i].frame : i \in DOMAIN queue} \cup {batch[i] : i \in DOMAIN batch}

OnAir(t) == t # "run" /\ pc[t] \in {"startup", "tx"}

\* Tasks that find the transmitter free in one tick never share it: one frame is on its way, and
\* its task has the lock, also when a waiter's estimate of the end was too early
\* (gateway.py:168-208).
OneFrameAtATime == \A t \in Tasks : OnAir(t) <=> holder = t

\* A reply that goes out is over when the next beacon is due, also when the reply ends later than
\* estimated, or the beacon is overdue, even by more than the BEACON_RESERVED that
\* _collides_with_beacon looks back: a frame that makes it so late also lets every RX1 pass that
\* was pending when it began (gateway.py:325-364).
RepliesNeverDelayBeacons ==
    \A r \in Replies : OnAir(r) /\ next_beacon # None => left[r] <= next_beacon

\* A beacon is delayed by at most one frame of somebody else, be it a multicast frame at DR0, which
\* outlasts BEACON_RESERVED: replies keep away from it, and the multicast scheduler, or a ping
\* slot, does not get in again (gateway.py:325-364, 400-403, 487-492).
BeaconWaitsForOneFrame ==
    pc["beacon"] \in {"wait", "startup"} /\ slots = <<>>
        => next_beacon >= -(LongestFrame + Slack + 1)

\* What is not multicast goes out at the gateway's own data rate, whatever group was served
\* before (gateway.py:215-217).
OthersAtOwnRate ==
    \A t \in Tasks : t # "multicast" /\ pc[t] = "tx" => rate = OwnRate

\* A multicast frame begins only after the quiet time that every earlier frame asks for, be it a
\* reply or a beacon that did not wait for its own, up to the start of the radio and the ticks
\* a transmission outlasts its estimate by (gateway.py:35-40, 171-178, 405-407).
QuietTimeKept ==
    [][sending' # sending /\ sending' # None => rest' <= Slack]_vars

\* The multicast downlinks that were scheduled are sent or dropped: replies, beacons and the duty
\* cycle hold them up only for a time (gateway.py:379-410).  Unless an uplink comes in the tick of
\* a get_timeout(0) and stops the clock (queue.py:53).
MulticastIsSent == Pending # {} ~> (Pending = {} \/ clock = "stopped")

\* The receiver is never parked: after every uplink and transmission the loop gets back to wait
\* for the next uplink, with the radio in reception (gateway.py:258-292).  Unless that uplink
\* comes in the tick of a get_timeout(0) and stops the clock (queue.py:53).
GatewayListens == []<>((pc["run"] = "get" /\ radio = "RX") \/ clock = "stopped")

=============================================================================
