# Formal models of the LoRa simulator

TLA+ models of the simulator under `simulator/`, the TLC configurations that check them on
small instances, and TLAPS proofs of the safety properties of every modelled component.
Modelled are the simulation kernel, its queue, the radios with the PHY layer between them, the
nodes that run C firmware, the LoRaWAN device and the gateway, and the fragmented transport of
the firmware update (FUOTA). Section 3 says what is planned.

`tlc -config X.cfg M` repeats a run (`PROJECT.json` says which module belongs to which
configuration), `tlapm M.tla` a proof. `PROJECT.json` also has the map from definitions to
source lines, the hazards with the properties that cover them, and one mutated definition
for each property, which makes TLC report that property as violated.

## 1. The system: inventory

The program is a discrete event simulator on a single asyncio loop, where concurrency is what
happens between two `await`s. Only native nodes run in parallel with it: the C firmware of each
has a thread of its own.

| Component | State | Operations | Correct when |
| --- | --- | --- | --- |
| Kernel, `environment.py` | the tick, the length, `__timer_locks`, the wake-up events, the tasks | `create_task`, `start_child_task`, `run`, `sleep`, `sleep_until`, scheduled events, `wait_with_duration`, the main loop | the clock stands while a task runs, and wakes each sleeper at its tick |
| Wake-up queue, `wakeup_queue.py` | a sorted list of ticks with their events | `add`, `remove`, `peek_tick`, `next_tick` | it is a table from ticks to events |
| Queue, `queue.py` | items, events of waiting getters | `put`, `get`, `get_timeout`, `clear` | an item wakes its getter, a timeout is the documented exception, the clock neither stops nor runs away |
| Radio, `lora/radio.py`, `client_radio.py`, `gateway_radio.py`, `rx_chain.py`, `packet_metadata.py` | state, chains with their packets in transit, receive queue, waiters for an idle channel, configurations | `standby`, `off`, `receive`, `carrier_sense`, `wait_for_channel_idle`, three `receive_data`, `transmit_data`, configuration, the `_on_receive` callbacks | one transmission at a time; what is delivered was listened to, undisturbed, once; nothing is left in transit |
| PHY layer, `lora/phy_layer.py` | the radios in order of subscription, the packet log | `subscribe`, `transmit_packet_blocking` with its three rounds of callbacks | every receiver hears of the start, the preamble and the end, with bounded delay |
| Capture effect, path loss, air time, power | parameters, accumulated energy | closed formulas on reals | arithmetic, not protocol |
| LoRaWAN device, `lorawan/device.py` | session keys and counters, operating mode, multicast contexts and sessions, the Class C loop | `join`, `send_uplink` with its receive windows, mode switches, multicast sessions and their cancellation, MAC commands | one receive loop per radio, counters used once, configuration restored after a session |
| LoRaWAN gateway, `lorawan/gateway.py` | `_tx_busy_until`, duty cycle, retuning | forwards uplinks, replies in RX1, beacons, ping slots, multicast | the transmitter is shared by one at a time and waits end |
| Network server, `network_server.py`, `application.py`, `join.py` | devices, counters, downlink and MAC queues, multicast queue, DevNonces | `handle_uplink`, `build_downlink`, enqueueing, activation | nothing that was queued is lost or repeated unnoticed |
| Clock synchronisation, `applications/clock_sync.py` | offset, token | request, answer | the correction belongs to the request |
| FUOTA, `lorawan/fuota/` | pending uplinks, multicast groups, fragmentation sessions, the decoder, the campaign's phases | setup, status, deletion and data commands with retries on both ends | both ends agree in spite of losses, delayed uplinks go out once, the decoder solves what can be solved |
| Frames, MAC command codecs, region tables, cryptography | none | pure functions | codecs |
| Native nodes, `native_node/native_node.{c,py}`, `radio_node.{c,py}` | a thread, its flags with a mutex and a condition variable each, the loop tasks it has started | sleep, transmit and receive, blocking or in two calls | the node holds the clock exactly while its firmware computes, and every call returns |
| STM32 nodes, `native_node/stm32_node.py`, `stm32wl/` | none of their own | stubs of ST's HAL, and its headers | third-party code |

How they interact:

* Every component suspends only through the kernel. A task counts one in `__timer_locks`
  while it is not suspended. A wait of the kernel gives the count back and schedules an
  event; the main loop moves the clock when the count is zero and **takes the count on
  behalf of** every task whose event it sets. Almost all that can go wrong at this level is a
  count too many (the run hangs) or too few (time runs under a task's feet).
* The queue lets one task schedule the event of another, a second time, beside the timeout
  that the waiter scheduled for itself.
* The PHY layer runs in the task of the sender and calls back into the radios of everybody
  else; a callback may put into a receive queue, which takes a tick, in the middle of the
  loop over the receivers.
* `transmit_data` (non-blocking) makes a child task, so that two tasks may drive one radio;
  a LoRaWAN device has an uplink task, a Class C loop and session tasks on one radio.
* A firmware thread hands a coroutine to the loop and waits on a condition variable; the coroutine
  gives back the node's own timer lock while it sleeps, and sets the flag when it is done.
* The gateway forwards to the network server by direct calls, and the FUOTA packages are
  callbacks of the device and of the network server.

What is hard here: state that is checked before an `await` and used after it
(`transmit_data_blocking`, `carrier_sense`, `send_uplink`); an event scheduled by two parties for
one tick; cancellation, which is asynchronous in asyncio and does not hold the simulated clock;
callbacks of foreign tasks on one's own radio; flags shared with a firmware thread; one transmitter
for replies, beacons and multicast with deadlines; commands that are repeated until they are
answered, over a channel that loses both. `PROJECT.json` lists the hazards at their lines, those of
the parts that are not modelled yet included.

## 2. Modules

| Module | Models | Uses |
| --- | --- | --- |
| `DiscreteEventClock` | what the kernel promises: the abstract clock | |
| `SimulationEnvironment` | `environment.py`, and the cancellable sleep of `device.py` | instance of `DiscreteEventClock` |
| `SimulationEnvironmentProofs` | its invariants, proved | `SimulationEnvironment` |
| `SimulationEnvironmentRefinement` | it implements the clock, proved | `SimulationEnvironmentProofs` |
| `WakeUpTable` | what the wake-up queue promises: a table | |
| `WakeUpQueue` | `wakeup_queue.py` | instance of `WakeUpTable` |
| `SimQueue` | `queue.py` on the kernel | extends `SimulationEnvironment` |
| `SimQueueProofs` | its invariants, proved | `SimQueue` |
| `LoraRadio` | radios, chains and PHY layer on an abstract clock | |
| `LoraRadioHistory` | the same with what an observer remembers of each reception | extends `LoraRadio` |
| `LoraRadioProofs` | the invariants and the histories of the radios, proved | `LoraRadioHistory` |
| `NativeNode` | `native_node.c`, `radio_node.c` and their Python halves | |
| `NativeNodeProofs` | its invariants, proved | `NativeNode` |
| `LorawanDevice` | modes, receive loop, uplinks and sessions of `device.py`, on an abstract radio | |
| `LorawanDeviceProofs` | its invariants, proved | `LorawanDevice` |
| `LorawanGateway` | `gateway.py` and the multicast queue of `network_server.py` | |
| `LorawanGatewayProofs` | its invariants, proved | `LorawanGateway` |
| `FragTransport` | both ends of `frag_transport.py`, the uplink queue of `device_app.py`, the slots of `device_stack.py` and the choice of downlinks in `network_server.py` | |
| `FragTransportProofs` | its invariants, proved | `FragTransport` |
| `MC...` | instances for TLC | |

### 2.1 The kernel: `SimulationEnvironment`

`current_tick`, `simulation_length`, `timer_locks` and `wakeups` are the fields of
`SimulationEnvironment`; `main` is where `run()` and `__run_simulation` stand; `pc`, `op` and
`due` are the place, the call and the local `wakeup_time` of each task; `cancel`, `future` and
`parent` are the asyncio objects a client waits for. There is one action for each call of the
interface up to its suspension, and one for each resumption: `Sleep`, `SleepUntil`,
`ScheduleEventWait`, `WaitForSimEnd`, `WaitWithDuration`, `SleepUntilOrCancel`; `ResumeStart`,
`ResumeSleep`, `ResumeEvent`, `ResumeGather`, `GatherDone`, `FutureRaises`, `DeliverCancel`;
`CreateTask`, `StartRoot`, `StartChildTask`, `ChildStarts`, `Finish`, `Crash`; and `Run`, `Advance`,
`Drain`, `EndLoop`, `CancelAll` for the main loop. The client program is arbitrary: a task that has
the processor may create tasks, end, and call any of the kernel's *waits* with any duration. The two
halves of `schedule_event_wait`, called on their own (`schedule_event_no_await` with an event that
another task awaits in `wait_for_scheduled_event`), are not client calls of this module; the queue
is their user, and `SimQueue` has them.

* *Atomicity.* What a task does between two suspensions is one step: there is one asyncio loop.
  `__timer_lock` and `__data_lock` are never held over a suspension, so acquiring them does not
  suspend, with the one exception that `Drain` models: the main loop leaves the `while` without
  releasing `__timer_lock`.
* *Order.* Tasks that are ready run in any order (`tests/test_child_tasks.py`: "Events at the
  same timestamp may occur in any order due to async scheduling"). The list of events of a
  tick is therefore a set.
* *Events* are named by the task that awaits them, with the task that scheduled them.
* The decorator `requires_running_simulation` is the guard `MayCall`; a call it refuses raises
  and has no effect, so it is no step. At length 0 and 1 the decorator refuses everything or
  nothing, and these lengths are in the runs.
* `wait_with_duration` gathers its sleep and its future without `return_exceptions`. When the future
  raises (`FutureRaises`) the caller is back at once, not counted, and its sleep goes on without
  it: such a sleep is a *stray*, an element of the constant `Strays`, which bounds how many there
  are at a time. A caller that waits again gives back a count it does not have; when the count is
  0 the assertion of `_dec_timer_lock` fails with `__timer_lock` held (`AssertionFails`, `main` is
  then `"broken"`). The sleep's tick brings the missing count back.
* `ScheduleEventWait` does not clamp its tick to the length, as in the code.
* The grace period in real time before `CancelAll` does not appear: `CancelAll` may come at any
  time after the end, so it covers every length of that period.

`DiscreteEventClock` has a time, a set of busy tasks and a set of pairs of a waiting task and
its time. Time moves only when nobody is busy, at most to the first time somebody waits for,
and all who wait for that time are busy from then on. The promise has the kernel's own gap: a task
that abandons its wait (`Abandon`) is busy while the wait goes on astray, and until that wait is
over time moves when as many tasks are busy as waits are astray. The refinement mapping takes the
tasks that are not suspended as busy, the sleeping tasks with their `due` as waiting and the
abandoned sleeps as stray.

### 2.2 The wake-up queue: `WakeUpQueue`

The list of `wakeup_queue.py` with the position search of `add`. `remove` leaves an entry that
became empty in place, as in the code: the clock will stop at that tick without waking
anybody. `WakeUpTable` is the table from ticks to multisets of events that callers have in
mind; the kernel module uses its set version directly.

### 2.3 The queue: `SimQueue`

`data` is the number of items (they are taken in order and look alike), `get_events` the list of
the same name. `Put` schedules the first waiter and sleeps a tick; `Get` is the path up to the
wait, including the failure of the decorator, which leaves an event behind that nobody
awaits (`Orphan`); `ResumeGet` has the three ends of `__get`: an item, `TimeoutError`, and the
`ValueError` of a `list.remove` for an event that a `put` had already taken out.

### 2.4 The radios and the PHY layer: `LoraRadio`

`radio_state`, `rx_continuous`, `tx_config`, `rx_chains`, `rx_queue`, `idle_waiters` and
`tx_end_time` are the fields of `Radio`; `packet`, `receivers` and `late` are the locals of
`transmit_packet_blocking`, which runs in the sender's task. Each call is an action up to its
first suspension, and each suspension has an action that resumes from it; the await of
`standby()` inside `receive`, `carrier_sense`, `receive_data_within` and `transmit_data_blocking`
is a suspension of its own, after which each of them goes on with or without a new look at the
state, exactly as in the code. Inside a segment that loops over receivers the variable
`running` keeps the other tasks out; a `put` that wakes a getter is a suspension in the middle
of that loop.

Abstractions:

* The kernel is the abstract clock, with the remaining ticks of each suspended task instead of
  absolute times; the end of the simulation is out of sight.
* A `put` for a getter whose timeout is due in the next tick schedules its event twice for that tick
  (section 5). This holds of every `get_timeout(0)`, which lasts a tick. The variable `clock` says what
  comes of it: the clock makes its last move and then stands for ever (`SpinsForever` is the main
  loop polling `__timer_locks`). What a task does after that without the clock is still modelled.
* A configuration is a frequency, which is what `overlaps` compares, and a modulation, which
  stands for everything else `__can_receive` compares. `waveform` is the part of a modulation that
  `carrier_sense_instant` compares, which is all but the code rate. A packet is a number.
* `__capture_effect` decides by signal strengths in decibels, for each of the packets that collide
  with a new one by itself. Its result is any element of
  `Survivors`, so what is checked holds for every such rule. Path loss and sensitivity are
  the parameter `OutOfRange`; times on air are `PreambleTime` and `PayloadTimes`.
* One task at a time is in a `receive_data` of a radio (the guard `Receiving` of `ReceiveData`).
  Several getters on one queue are the subject of `SimQueue`.
* `carrier_sense_instant` and `wait_for_channel_idle` look at all chains (their default).
* `powered` records for which chains the last power report was made, nothing more.

`LoraRadioHistory` conjoins an observer to every step: which chains were retuned or off during a
packet, and what each radio has received so far. It never restrains the radios.

### 2.5 Native nodes: `NativeNode`

A step of a firmware thread is what it does up to its next access to shared state, and threads
interleave with the loop at that grain: the test for a transmission (`CheckTransmitting`), the test
of a flag under its mutex (`TestFlag`), a wake-up of the condition variable without a signal
(`SpuriousWakeUp`) and the reset of the flag (`ResetFlag`), which the code does after it has
released the mutex. `cpc`, `call` and `calls` are the thread; `ready` has the three flags; `task`
has the loop tasks that the node's calls have started. These are bare asyncio tasks: each wait of
theirs gives back, and each wake-up takes, the one lock of the node, so with two of them at once
`timer_locks` may become -1, in the code as in the model. The variable `quiet` records whether
firmware has waited for each call before the next; `OneLockPerNode`, `SleepsOut` and `CallsReturn`
are about such firmware. A packet may arrive at any time, also in the tick before the timeout of
the receive that waits for it. The event is then set twice in one tick, and the lock taken for the
second time is never given back: `leaked` counts these locks. `OneLockPerNode` says that there are
no others, `CallsReturn` that nothing else keeps a call from returning. Not modelled: setting the
radio's parameters, reading the time, the compilation of the node, and `boot_delay`, which
`native_node.py:48` documents and `__run` never waits for.

### 2.6 The device: `LorawanDevice`

The tasks are the callers of `send_uplink`, the receive loops of Class C and one task per
multicast session; `switch_mode`, `start_class_c_session` and `cancel_session` may be called at
any moment. The variables of `_class_c_*`, `_multicast_sessions` and `_session_cancels` keep their
names; `window` has the locals of `_handle_rx_windows` (the mode it found, whether it has parameters
to restore). Up to two loops exist at once, because a stopped loop notices only at its next poll.
The radio is its state, what it is tuned to, and who waits for its queue (`LoraRadio` has the
rest). `RECEIVE_PROCESS_DELAY` is part of a get. `DelayAssumption` is what the constants of
`region.py` and `device.py` satisfy: a poll that began before an uplink is over when RX1 opens.
A frame that comes in the last tick of a get, or in a `get_timeout(0)`, stops the clock as in 2.4
(`FrameInLastTick`, `LastFrame`): `ClassCListens` has that stop as its exception. Left out: Class B,
the join, what a device does with a downlink (MAC commands, callbacks), frame
counters, and the end of the simulation.

### 2.7 The gateway: `LorawanGateway`

The tasks are the uplink loop, one reply per uplink, the multicast scheduler and the beacon
scheduler. `holder` is the task that has `_radio_lock`, `busy` is `_tx_busy_until`, `quiet` the
limiter's `quiet_until`, `priority` is `_priority_tx`. All times are relative to now, so that
the state space is finite although beacons go on for ever. A frame may outlast its estimate
by `MaxExtra`. What ping slots the server asks for, and when uplinks and multicast requests
come, is any choice. Multicast frames have any length, those at DR0 included, which outlast the
interval reserved after a beacon (`region.py:186`). `DelayAssumption` is what the constants of
`region.py` and `gateway.py` satisfy: RECEIVE_DELAY1, the backoff and a start-up of the radio fit
into BEACON_RESERVED (1 s, 0.01 s and some microseconds against 2.12 s), and a reply outlasts its
estimate by no more than the guard time. An uplink that comes while the uplink loop probes its queue
stops the clock as in 2.4; `MulticastIsSent` and `GatewayListens` have that stop as their exception.
`rest` is a history variable: what the duty cycle
asks for, computed from the frames that were sent and not from the limiter. Left out: the
transmitter's frequency, `on_multicast_transmitted`, and the end of the simulation.

### 2.8 Fragmented transport: `FragTransport`

One device and the server. `server` has the package's sessions, its last status reports, its
pending commands and the one in flight, the queue of unicast downlinks and the cursor of the
round robin over applications. `dev` and `last_cnt` are the device's sessions and `SessionCntPrev`,
`uplinks` and `ready` its queue in the order of due times and how much of it is due, `loops` the
`_block_received_loop` of each session (the loop of a replaced session goes on, as in the code),
`images` what the application was given. `air` is the exchange under way: an uplink, then the
reply to it. `Lose` and `MissFragment` lose either, or a multicast fragment. The other
applications of the server may want the downlink at any uplink.

There is no clock: a delay ends at some later step. A block is named by its session; a decoder
is its rank, and whether a coded fragment is linearly independent is any choice that the number
of fragments heard allows (`Ranks`). A block that has fragments of two sessions fails its MIC.
The stack is silent during a multicast session; here each fragment has a session of its own,
and uplinks come between them. All blocks have the same fragment size. Left out: the codecs, the
limits for which a device refuses a session, packages that transmit by themselves, MAC commands,
and the answers to setups and deletions that the server keeps for `devices_acked_setup`.

## 3. Plan

Done: kernel, wake-up queue, queue, radios and PHY layer, native nodes, device, gateway,
fragmented transport; the proofs of section 6.

Next, in this order:

1. `multicast_setup.py`: its retransmissions are those of `FragTransport`, but its answers change
   the device's groups and start sessions, so it composes with `LorawanDevice`.
2. Frame counters, the join and the MAC command queue of `network_server.py`.
3. `fragmentation.py` as functions against a definition of solvability; the campaign's phases.
4. The decision rule of `__capture_effect` over a few signal strengths.

Questions set aside: the overrun of the length by an event that is not clamped, and the power report
that lags behind `enable_rx_chain`. The behaviour is in the models; no line of the repository
promises enough about it.

## 4. Runs

| Run | Instance | Distinct states | Shows |
| --- | --- | --- | --- |
| `kernel` | 2 root tasks, 1 child, lengths 0, 1, 3, durations 0, 2, 1 stray sleep at a time | 308,134 | `LockCount`, `WakeUpsMatchSleepers`, `DrainStrandsNobody`, `WokenOnTime`, that the kernel implements the clock (`ClockSpec`), and `RunReturns` under fairness |
| `wakeup_queue` | 3 ticks, 2 events, at most 4 wake-ups | 1,663 | the list implements the table (`TableSpec`) |
| `queue` | 3 tasks: one getter, or two of which one clears, at most 2 items, length 6 | 111,905 | `GetRaisesOnlyTimeout` and `NobodyWaitsBesideAnItem` for a single getter, `EveryTaskHoldsTheClock` and `SleepingGetterIsServed` for both |
| `queue_leak` | 1 getter, 1 putter, length 8 | violation | `LockCount` does not hold with the queue |
| `radio_clients` | 3 radios with a task each, the last with two chains, 2 frequencies, 2 packets | 1,086,543 | `TransitIsOnAir`, `IdleWaiterHasAPacket`, `TransmissionStaysInTX`, `EndTakesATickPerReceiver`, `OnlyUntouchedChainsDeliver`, `DeliveredOnce` |
| `radio_shared` | 2 tasks on a two-chain concentrator, a third on a client radio, every call, 1 packet | 102,717 | `TXHasTransmission`, and `CallsEnd` under fairness |
| `native_node` | a node that makes any 2 calls beside one that sleeps, length 6 | 482,980 | `OpenMeansOutstanding`, `OneLockPerNode`, `SleepsOut`, and `CallsReturn` under fairness |
| `native_transmit` | a node with the calls of the ping-pong example | violation | `TransmitBlockingWaits` does not hold |
| `lorawan_device` | 2 senders, 2 loops, 2 sessions on 2 groups, any 3 calls | 844,062 | `SuspendsMatchUplinks`, `NoLoopForgotten`, `RepliesGoToTheWindow`, `SessionsAccounted`, `TunedOutsideWindows`, and `ClassCListens` under fairness |
| `device_revert` | 2 sessions on one group, no uplinks | violation | `SessionsRevert` does not hold |
| `lorawan_gateway` | with Class B and a duty cycle, or with neither; 2 uplinks, 2 multicast frames, one of them longer than BEACON_RESERVED, at most 2 ping slots a period | 1,197,634 | `OneFrameAtATime`, `RepliesNeverDelayBeacons`, `BeaconWaitsForOneFrame`, `OthersAtOwnRate`, `QuietTimeKept`, and `MulticastIsSent`, `GatewayListens` under fairness |
| `frag_transport` | blocks of 2 fragments and 1 coded one, 2 calls of the server out of two sessions under one index and its other requests, one retry on each side, 2 applications | 456,376 | `CompleteMeansImage`, `AttemptsAreTransmissions`, `ProgressKept`, and `ExchangesEnd` under fairness |

The modules' type invariants state what each variable holds; the kernel's is proved, and of the
others the parts that section 6 needs.

### Why the bounds are enough

* *Kernel.* Three tasks are what a collision of roles needs: one that acts, one that sleeps, and a
  third (the child) that keeps or does not keep the clock. A wait of 0 ends in this tick, one of 2
  at a tick between which and now another sleeper may be due; a length of 3 leaves room for a sleep
  that ends before, at, and (clamped) after the end, 0 and 1 are the boundary cases of the
  decorator. One stray sleep is enough for a caller that is not counted beside one that is. The
  safety results are also proved without these bounds (section 6).
* *Wake-up queue.* Three ticks have a first, a middle and a last place for an insertion; two
  events in four wake-ups give an entry with the same event twice, an entry with both, and an
  entry that a removal leaves empty.
* *Queue.* Two items and three tasks: a waiter, an item that is not its own, and one who
  competes for either. Length 6 fits a put in each position relative to a timeout and to the
  end. These runs have `CHECK_DEADLOCK FALSE`, because the system really can stop: after the
  leak described below the clock does not move and every task waits.
* *Radio.* In `radio_clients` two overlapping packets are the smallest collision (its outcome is
  left open), three radios give the loop over receivers a second receiver to be late for, two
  chains let one packet arrive twice, and two frequencies let a chain leave and come back.
  `radio_shared` is about tasks that compete for one radio, for which one packet on the air and
  every call of the interface suffice; what two packets do to a radio two tasks share is left to
  the proofs, which have no such bound. A packet of a tick of preamble and one of payload is long enough
  for another task to act before, between and after its callbacks; standby and sensing take a
  tick so that other tasks run inside them.
* *Native nodes.* Two calls are enough for one to meet what the other left behind, and a second
  node is there to move the clock or to hold it. `CHECK_DEADLOCK FALSE`: a wait for a
  transmission that was never started blocks for ever, and so does a call after `loop.close()`.
* *Device.* Two senders overlap their uplinks, two sessions replace or overlap each other, and
  three calls put a mode switch or a cancellation between them. A second loop is needed, since
  two can run at once. The air time and the delays satisfy `DelayAssumption` with one tick to
  spare. `CHECK_DEADLOCK FALSE`: after its calls a device in Class A is at rest.
* *Gateway.* Two uplinks give a reply that finds another in its way; the two multicast frames
  differ in rate, length and urgency: one takes 5 ticks, 6 with its excess, which is more than the
  reserved time of 5, so that a beacon may be late by more than that time. Two ping slots 3 ticks
  apart are near enough for one to be in the other's way when it is late. The beacon interval of 10
  ticks with a guard of 3 has room for a frame that fits and for one that does not. Beacons repeat
  without bound.
* *Transport.* Two fragments and a coded one: a block that is incomplete, complete with a
  fragment lost, or beyond the device's memory (`Lmax` is 0). Two calls give a second session
  under the same index, or a session with any status, deletion, version request or unicast
  fragment before, during or after it. One retry on each side gives every order of a lost
  command, a lost answer and a repeated one. A second application competes for each downlink.
  Both sessions with a further request would be 15 million states and more; that part was only
  explored for some minutes, without a violation.

`RunReturns` allows for a program that calls `sleep(0)` for ever, which keeps the clock where it
is, in the code as in the model.

### Fairness

`FairSpec` of the kernel has weak fairness for the main loop, for each task, for the call of
`run()` and for the futures handed to `wait_with_duration`, each of which completes or raises. The
asyncio loop runs every ready callback in each of its turns, so a task or the main loop that stays
ready does run; that a task goes on to a next call or ends, and that a future completes, are
assumptions about the client (a client that computes for ever stops an asyncio loop). The radio,
the device and the gateway have weak fairness for the clock and for each resumption of a task. The
kernel provides the first only as long as no lock is leaked (`queue.py:53`, section 5): after a
leak the clock is not enabled any more in these models, its fairness asks for nothing, and each of
the liveness properties names that stop as an exception. Nothing is assumed about the clients, who
may stop calling. The native nodes add weak fairness for each thread (the operating system
schedules it) and for its firmware, which goes on to its next call or returns.

`Fairness` of the transport: delays and polls end, slots come again and again (`_uplink_loop`), as
weak fairness. Strong fairness is assumed for two things. A package's answers get a slot now and
then: `_next_uplink` prefers the multicast setup package and then this one to the periodic uplink,
and the former has finitely many answers. And an uplink gets through now and then: a channel
that loses every uplink leaves the server with its commands, in the code as in the model. Replies
and fragments may all be lost.

## 5. Where code and documentation disagree

Each of the first three is a run whose violation TLC reports. `queue_leak`, `device_revert` and the
first two of the second list were also reproduced with the repository's own classes.

* **A put next to a timeout stops the clock for good** (`queue_leak`, `queue.py:53`). A `put` in
  the tick before a getter's timeout schedules the getter's event a second time for the same
  tick. `__run_simulation` adds one to `__timer_locks` for each of the two, the getter gives one
  back, and `run()` never returns. The same happens to a blocking `get` with a `put` at the last
  tick but one, and to every `get_timeout(0)`, with which the radio's `receive_data` and the loops of
  device and gateway probe: it waits for one tick, and a frame that arrives in it is such a `put`.
  `environment.py:44` says that a task counts 1.
* **A blocking transmission that does not wait** (`native_transmit`, `radio_node.c:39`).
  `sim_wait_transmit_finished` refuses when the radio *is* transmitting, where its comment says
  "if we're not transmitting". If the loop starts the transmission before the thread looks,
  `sim_transmit_blocking` returns an error with the packet in the air.
* **A replaced session is never reverted** (`device_revert`, `device.py:1213`). A session that
  replaces a running one takes the state of that one for the state to revert to. A session from
  2 s to 22 s that is replaced at 5 s by one from 10 s to 15 s leaves a Class A device in Class C.

Met on the way, without a run of their own:

* When the future of a `wait_with_duration` raises (`environment.py:461`) the caller runs uncounted
  while its sleep goes on, and the clock moves under it, against `:45` ("as long as there are
  active tasks the simulation time is blocked from advancing"). A caller that catches the exception
  in a wait of ten seconds sees the clock go from 2 s to 10 s while it is active; if it waits or ends
  before that, it gives back another task's count or fails the assertion at `:90`. `LockCount` and
  `ClockSpec` say by how much the promise fails.
* `put` takes the getter's event out of the list before the getter runs. If a second getter or a
  `clear()` takes the item first, the getter's `list.remove` (`queue.py:105`) raises `ValueError`, where
  `:73` documents `TimeoutError`. `GetRaisesOnlyTimeout` shows that one getter and no `clear()`, as in a
  radio's receive queue, never meets it.
* The comment at `region.py:184` names "a downlink reply in RX1" and "a multicast fragment of up to
  ~2.6 s at DR0" as frames that may be on the air when a beacon is due. Of the first the gateway's own
  check (`gateway.py:348`) and `tests/test_lorawan_iq_and_beacon_window.py:109` say the opposite, and
  `RepliesNeverDelayBeacons`, checked and proved, agrees with them; the second is so, and
  `BeaconWaitsForOneFrame` bounds the delay by that frame.
* `transmit_data_blocking` (`radio.py:493`) checks for TX before the await of `standby()` and not
  after it: two transmissions called 100 us apart on a radio that is off both go on air, where
  `:455` promises an exception.
* A cancelled sleep (`device.py:1249`) is noticed when its task runs, and nobody holds the clock
  until then; the comment at `:1137` promises "a tick or so".
* After a multicast frame the gateway's transmitter stays on the group's frequency, where the
  docstring of `transmit_multicast` (`gateway.py:215`) has the default configuration restored.
* With a `FragIndex` that is used again, `devices_complete` ("known to hold a *usable* data block",
  `frag_transport.py:2551`) may name a device that has only the earlier block: a late
  `FragDataBlockReceivedReq` of the replaced session, whose loop nobody stops, marks the new
  session complete, and `latest_status` survives `create_session`. `CompleteMeansImage`
  therefore claims the session's own block only for the first use of an index.
* A setup that is repeated after the first fragment is refused as a replay, and the refusal
  overwrites the acceptance that `devices_acked_setup` counts (`frag_transport.py:2416`, `:2506`).

## 6. Proofs

All theorems hold for every value of the constants that satisfies the named assumptions.

**Kernel** (`SimulationEnvironmentProofs`). Assumptions: `Tasks` and `Strays` are finite and
disjoint, `Roots` is a subset of `Tasks`, lengths and durations are naturals. `LockCount` says that
`timer_locks`, with one added for each stray sleep, is the number of tasks that are not suspended.
The inductive invariant is `IInv`, the conjunction of the type invariant, `LockCount`,
`WakeUpsMatchSleepers`, `ParentWaitsForChild`, `DrainStrandsNobody` and "no task is cancelled
before the end of the run". No part is inductive alone:

* `LockCount` needs `WakeUpsMatchSleepers` in `Advance`, because the main loop adds one for each
  *event*, and only when every event of the entry belongs to a different sleeper is that the
  number of tasks it wakes (a bijection between the sleepers of the tick and its events);
* `WakeUpsMatchSleepers` needs the type invariant and the fact that waits ask for ticks that are
  not past, also after clamping (`WakeUpTimes`);
* `LockCount` needs `ParentWaitsForChild` in `ChildStarts`, where the parent must be counted
  before and after;
* `DrainStrandsNobody` follows in `Drain` from a zero count, an empty table and
  `ParentWaitsForChild`.

Lemmas about joining, leaving and staying among the counted tasks reduce each action to one step.
The listed theorems are `TypeCorrect` (with it `AssertionHolds`: the count is negative, which is
where the assertion in `_dec_timer_lock` fails, only while a stray sleep is still to come, so never
in a program whose futures do not raise), `LocksAreCounted`, `SleepersAreWokenUp`, `DrainIsSafe`
and the action property `SleepersAreWokenOnTime`.

**Refinement** (`SimulationEnvironmentRefinement`). `KernelImplementsClock` is `Spec => ClockSpec`:
initial states map to initial states, and under `IInv` and the invariant `ClockAtZero` (before
`run()` the tick is 0) every step of the kernel is a step of the clock or a stutter. Waits are
`Wait`, a first timer lock is `Appear`, ends are `Leave`, a cancelled sleep is `Interrupt`, a
future that raises is `Abandon`, `Advance` and `Drain` are `Move`, the end of the run is `Halt`;
every resumption after a wake-up is a stutter, because the main loop has already made the task
busy. `Advance` is where the work is: as many tasks are busy as sleeps are astray when
`timer_locks` is 0, the entry it takes is the first, and its events are exactly the sleepers,
strays included, due at that tick.

**Queue** (`SimQueueProofs`). Assumptions: those of the kernel's constants, and that the roles are
sets of tasks. The kernel's `LockCount` fails here (section 5), so nothing of its invariant is
reused but the arithmetic. What is left of it is `EveryTaskHoldsTheClock`: the count is *at
least* the number of tasks that run. It is inductive because `Advance` adds one for each event and
every woken task has one. The other parts of `QueueInv`:

* `Served`: the timeout of a getter that sleeps is ahead, before the end, and the getter is
  registered or scheduled for the next tick. That the timeout is before the end matters: `put`
  takes the getter off the list before the decorator may refuse to schedule it, and the
  decorator refuses only where no timeout can be ahead.
* `Consumer`: with one consumer, an event that somebody awaits is the only one of the list before
  the last tick, and there is no item then. So `list.remove` after a timeout never fails, and the
  exception of a `get` is `TimeoutError` (`TimeoutsAreDocumented`); and no getter waits beside an
  item (`ItemsFindTheirGetter`).
* `Beginning`: no wake-up lies in the past, so that `Advance` never finds a sleeper it has missed.

**Radio** (`LoraRadioProofs`). Assumptions: radios are finitely many numbers (the order of their
subscription), times are positive, every task has a radio. Any number of tasks may share one.

* `NoRadioStuckInTX`: a radio in TX has a transmission of one of its tasks on the air. Without it
  every later `receive` and `transmit_data` would raise. This is also for two transmissions of one
  radio at a time, which the run has not. Its invariant adds that `carrier_sense`
  never remembers TX as the state to put back.
* `NoPacketIsLeftBehind`, `IdleWaitersAreRemembered` and `EndsAreCounted`, from `RadioInv`. A packet
  in transit is on the air, with this radio among the receivers that are still to be told; an idle
  waiter has a packet on its channel, because the last packet to leave wakes it in the same
  step; and `tx_end_time` counts at most a tick for each receiver. For the last `LateCounted`
  relates the ticks spent, the tick of a `put` under way and the receivers still to come, per
  task; it survives the steps of others because these never touch the tick of a task that is
  putting, which needs `GetterWaits` and `IdleWaitersWait` (only tasks that wait are woken).
* `TransmissionsAreUndisturbed`: with one task per radio (its hypothesis) a radio stays in TX until
  its last receiver is told. With two tasks on a radio the end of one transmission takes the
  radio out of TX while the other is still on air; the code does that too.
* `OnlyUntouchedReceptionsAreDelivered` and `PacketsAreDeliveredOnce`, action properties of
  `LoraRadioHistory`, from `HistoryInv`. Every step leaves each chain as one that `Follows` from
  it: what was interrupted stays so until its packet leaves, and a chain that is retuned or
  switched off has all its receptions interrupted (`SoundChains`); so what the observer calls
  spoiled, the radio knows to be lost (`SpoiledAreLost`), and no such reception is among the
  `Winners`. For the second, `Numbered` says that packets on the air are different ones, and
  `ReceivedOnce` that a transmission has delivered nothing yet where it still has to come. A radio
  whose `put` is under way is no longer such a place (`Open`), although its packet is still in
  the chains that follow: this rests on the local flag `delivered` of `_on_receive_end`.

**Native nodes** (`NativeNodeProofs`). Assumptions: finitely many nodes and slots, sleeps of at
least a tick, a length of at least three ticks. For firmware that waits for each call before the
next (`quiet`), `NativeInv` says that a node has at most one call open, on which either one task
works or the flag is set; the flag is reset only by the thread that waits for it. This is why the
reset outside the mutex loses no signal. The clock is then held by one lock for each node that
computes: `Tick` adds one per woken task, which is one per node because the nodes and the woken
tasks correspond one to one, and one more for each event set twice, which `leaked` counts. The
assertion in `_dec_timer_lock` never fails, because a task that gives a lock back belongs to a node
that is counted (`NeverFrozen`). Theorems: `CallsAreOutstanding`, `NodesHoldTheClock` and the
action property `SleepsAreExact`: a sleep returns at the tick it asked for, or at the end.

**Device** (`LorawanDeviceProofs`). Assumptions: `DeviceAssumption`, and `DelayAssumption` for
`WindowsHearTheirReplies`.

* `SuspensionsAreBalanced`: the counter of suspensions is the number of uplinks under way, so Class C
  resumes when the last one is over and not before.
* `LoopsAreWoken`: no loop idles that should listen. It is inductive together with `WaitersIdle`.
* `WindowsHearTheirReplies`: while an uplink listens in its window no Class C poll takes from the
  queue. The invariant `PollsEndInTime` compares, for every loop and uplink, the longest time the
  poll may still take with the shortest time until the window opens; no new poll starts in
  between, because the loop finds itself suspended.
* `ReceiverIsRestored`: outside of windows the receiver has the data rate of the session in force.
  `NothingPutAside` is needed: an uplink has parameters to restore only inside its windows.
* `SessionsAreAccounted`: the registered session of a group has a task that runs and is not
  cancelled, and every other session's task is on its way out; with `SessionsLinked`, that task and
  table point at each other.

**Gateway** (`LorawanGatewayProofs`). Assumptions: `GatewayAssumption`, and `DelayAssumption` for the
beacons. Frames have any length.

* `TransmitterIsExclusive`: one frame at a time, although uplink replies, beacons and multicast
  frames decide by `_tx_busy_until` before they take the lock, and its estimate may be too early.
* `RepliesLeaveRoomForBeacons` and `BeaconsAreHardlyLate`: a reply that goes out is over when the next
  beacon is due (it outlasts its estimate by no more than the guard), and a beacon waits for at
  most one frame. `Estimated` says that a waiter's estimate is never too late. `BeaconOnTime`
  gives for each place of the scheduler what is left until the beacon, and while it waits,
  compares it with the rest of the frame in its way. `Beginning` is the special case of the first
  beacon, which has no time set and may have to start the radio. A multicast frame longer than
  BEACON_RESERVED makes a beacon so late that the estimate of the next one is off, and a reply
  decided on before it would be in doubt. `TimelyInv` settles it: the radio hears nothing while it
  transmits, so every reply still to come at the end of such a frame belongs to an uplink from before
  it, and its RX1 has passed (`RepliesTimely`, with `DeafOnAir` and `LoopTimes` for the uplink loop).
* `GroupRateIsNotKept`: replies and beacons go out at the gateway's own rate after a multicast frame.
* `DutyCycleIsKept`, an action property: no multicast frame starts before the rest that the frames
  sent so far ask for is over, up to the excess of frames over their estimates (`QuietCovers`).

**Transport** (`FragTransportProofs`). Assumption: `FragAssumption` (any plan of sessions, any
retries).

* `AttemptsAreSpentOnTransmissions`: an acknowledgement loop gives up only after all of its requests
  went out. The invariant `LoopCounts` relates the copies of a request in the queue of delayed
  uplinks, the attempts counted and the requests sent; it needs `CompletesOnce`, without which a
  second loop for a session could start.
* `ReportsAreAboutBlocks`: what the server believes complete without an error is a block that the
  application has, and for the first use of an index the session's own. `ReportsTrue` carries
  this through every report on its way: in the queue, in the air, in the loops. `ImagesKnown` and
  `SessionsKnown` exclude blocks of other sessions.
* `ProgressIsKept`, an action property: a device loses a session's fragments only to a setup of a
  later session or to a deletion meant for it. `CommandsOrdered` shows that a deletion
  that waits at the server, repeated or not, still comes after the setups it was meant for.

**Only model-checked**: all liveness (`RunReturns`, `CallsEnd`, `CallsReturn`, `ClassCListens`,
`MulticastIsSent`, `GatewayListens`, `ExchangesEnd`), which is out of the prover's reach;
and the wake-up queue and its table (`TableSpec` compares folds over sequences, which needs
induction over data).

## 7. Not modelled

* Air time, distance, path loss, capture thresholds, energy: formulas on reals. Their results are
  parameters or free choices.
* Logging, the packet log, statistics and plots; real-time pacing.
* Codecs and cryptography: pure functions without control flow of interest.
* Class B on the device's side, the join, MAC commands, frame counters, clock synchronisation,
  the multicast setup package and the campaign: see the plan.
* The C sources other than `native_node.c` and `radio_node.c`. By lines these are almost all of the
  repository's C: register definitions and inline accessors of ST and Arm under
  `native_node/stm32wl/hal_headers/` and `old/`, with ST's radio driver in `radio_driver_stubs/`.
  They are third-party code that describes hardware registers; the simulator compiles firmware
  against the headers and answers the HAL functions with constants (`stm32_node.py`). There is
  no behaviour of the simulator in them, so the share of C lines that the models cover is small
  and will stay so.
* `examples/`, `papers/`, `measurements/`: programs that use the simulator.
