----------------------------- MODULE NativeNode -----------------------------
(***************************************************************************)
(* Nodes that run C firmware: native_node.c and radio_node.c, compiled     *)
(* with the firmware, and native_node.py and radio_node.py, their other    *)
(* half.  The firmware of a node runs in a thread of its own while the     *)
(* simulation runs on the asyncio loop, so a step of the thread, up to its *)
(* next access to shared state, and a step of the loop interleave.         *)
(*                                                                         *)
(* A node is one task of the simulation and holds one timer lock.  A call  *)
(* of the firmware that takes simulated time starts a loop task, which is  *)
(* no task of the simulation: its waits give back the lock of the node.    *)
(* The firmware is arbitrary.  The radio is what the loop tasks see of it: *)
(* its state, and the packets in its receive queue (module LoraRadio has   *)
(* the radio itself).                                                      *)
(***************************************************************************)
EXTENDS Integers, FiniteSets

CONSTANTS
    Nodes,       \* the nodes
    Slots,       \* loop tasks a node may have at once
    Length,      \* the length of the simulation, in ticks
    Durations,   \* durations the firmware sleeps for, in ticks
    Timeouts,    \* timeouts of its receptions, in ticks, 0 for none
    AirTime,     \* ticks a transmission takes
    MaxCalls,    \* calls the firmware of each node makes before main() returns
    MaxPackets,  \* packets that reach each radio
    Calls        \* the calls that the firmware of each node makes

ASSUME NativeAssumption ==
    /\ IsFiniteSet(Nodes) /\ IsFiniteSet(Slots) /\ Slots = 1..Cardinality(Slots)
    /\ Length \in Nat /\ Length > 2
    /\ Durations \subseteq Nat \ {0} /\ Timeouts \subseteq Nat
    /\ AirTime \in Nat \ {0}
    /\ MaxCalls \in [Nodes -> Nat] /\ MaxPackets \in Nat

VARIABLES
    now,          \* __current_tick
    timer_locks,  \* __timer_locks
    leaked,       \* those of them that were taken for an event set twice in a tick
    main,         \* the main loop of the simulation
    cpc,          \* where the thread of each node is
    call,         \* the function of radio_node.c or native_node.c it is in
    calls,        \* calls its firmware made
    task,         \* its loop tasks
    ready,        \* sim_sleep_ready, sim_tx_done_ready, sim_rx_done_ready
    radio,        \* state of its radio
    continuous,   \* _rx_continuous of its radio
    pending,      \* packets in the receive queue of its radio
    packets,      \* packets that have reached its radio
    asked,        \* the tick its sleep asks for
    open,         \* kinds of calls it has started and not waited for
    quiet         \* so far every call found the previous one of its node waited for

kernelVars == <<now, timer_locks, leaked, main>>
threadVars == <<cpc, call, calls, asked, open, quiet>>
radioVars  == <<radio, continuous, pending, packets>>
vars == <<kernelVars, threadVars, radioVars, task, ready>>

-----------------------------------------------------------------------------
(* Types.                                                                  *)

Kinds == {"sleep", "tx", "rx"}

\* A loop task: its phase is where it waits, due the tick it waits for, put whether a put has
\* taken its event off __get_events, and scheduled it for the tick in which it is due anyhow
FreeSlot == [kind |-> "sleep", phase |-> "none", due |-> 0, woken |-> FALSE, timeout |-> 0,
             put |-> "no"]

Phases == {"none",     \* no task
           "new",      \* handed to loop.create_task, did not run yet
           "asleep",   \* sleep_task, in sim.sleep
           "startup",  \* in standby(), from OFF
           "air",      \* transmitting
           "settle",   \* in standby(), after the transmission
           "poll",     \* in the get_timeout(0) that every receive begins with
           "delay",    \* in the sleep before the get of receive_data_within
           "get",      \* in the get
           "process",  \* in the sleep after the get of receive_data_wait
           "stuck"}    \* waits for the timer lock that nobody releases any more

TaskRecords == [kind : Kinds, phase : Phases, due : Nat, woken : BOOLEAN, timeout : Nat,
                put : {"no", "once", "twice"}]

CPCs == {"boot",      \* the thread does not run yet
         "run",       \* in the firmware
         "check",     \* before the test of sim_wait_transmit_finished
         "test",      \* before the test of the flag, with the mutex
         "blocked",   \* in pthread_cond_wait
         "reset",     \* the mutex is released, the flag still set
         "returned",  \* main() has returned
         "exited"}    \* and __run has seen it

FnCalls == {"none", "sim_sleep", "sim_transmit_blocking", "sim_receive_blocking",
            "sim_wait_transmit_finished", "sim_wait_receive_finished"}

WaitKind(fn) == CASE fn = "sim_sleep" -> "sleep"
                  [] fn \in {"sim_transmit_blocking", "sim_wait_transmit_finished"} -> "tx"
                  [] OTHER -> "rx"

TypeOK ==
    /\ now \in 0..Length
    /\ timer_locks \in Int
    /\ leaked \in Nat
    /\ main \in {"looping", "frozen", "ended", "closed"}
    /\ cpc \in [Nodes -> CPCs]
    /\ call \in [Nodes -> FnCalls]
    /\ calls \in [Nodes -> Nat]
    /\ task \in [Nodes -> [Slots -> TaskRecords]]
    /\ ready \in [Nodes -> [Kinds -> BOOLEAN]]
    /\ radio \in [Nodes -> {"OFF", "STANDBY", "RX", "TX"}]
    /\ continuous \in [Nodes -> BOOLEAN]
    /\ pending \in [Nodes -> 0..MaxPackets]
    /\ packets \in [Nodes -> 0..MaxPackets]
    /\ asked \in [Nodes -> 0..Length]
    /\ open \in [Nodes -> SUBSET Kinds]
    /\ quiet \in BOOLEAN

-----------------------------------------------------------------------------
(* Helpers.                                                                *)

\* is_running() and is_finished() of the kernel, once the clock has started
is_running  == now < Length - 1
is_finished == now >= Length - 1

Live(n, s)  == task[n][s].phase # "none"
Ready(n, s) == task[n][s].phase = "new" \/ task[n][s].woken

\* Loop tasks of n of one kind
LiveTasks(n, kind) == {s \in Slots : Live(n, s) /\ task[n][s].kind = kind}

\* Receive tasks of n whose event is in __get_events of its queue
Getters(n) == {s \in LiveTasks(n, "rx") : task[n][s].phase \in {"poll", "get"}
                                          /\ task[n][s].put = "no"}

Clamp(tick) == IF tick > Length THEN Length ELSE tick

Init ==
    /\ now = 1                              \* the tick wait_for_sim_start ends at
    /\ timer_locks = Cardinality(Nodes)
    /\ leaked = 0
    /\ main = "looping"
    /\ cpc = [n \in Nodes |-> "boot"]
    /\ call = [n \in Nodes |-> "none"]
    /\ calls = [n \in Nodes |-> 0]
    /\ task = [n \in Nodes |-> [s \in Slots |-> FreeSlot]]
    /\ ready = [n \in Nodes |-> [k \in Kinds |-> FALSE]]
    /\ radio = [n \in Nodes |-> "OFF"]
    /\ continuous = [n \in Nodes |-> TRUE]
    /\ pending = [n \in Nodes |-> 0]
    /\ packets = [n \in Nodes |-> 0]
    /\ asked = [n \in Nodes |-> 0]
    /\ open = [n \in Nodes |-> {}]
    /\ quiet = TRUE

-----------------------------------------------------------------------------
(* The loop's half: the tasks that the firmware's calls start.             *)

\* Mutant of Callback: the signal alone, which is lost when the thread does not wait yet
CallbackSignalsOnly(n, s) ==
    LET kind == task[n][s].kind
        waits == cpc[n] = "blocked" /\ WaitKind(call[n]) = kind
    IN  /\ ready' = [ready EXCEPT ![n][kind] = waits]
        /\ cpc' = [cpc EXCEPT ![n] = IF waits THEN "test" ELSE @]
        /\ task' = [task EXCEPT ![n][s] = FreeSlot]

\* sim_sleep_end, sim_tx_done_callback and sim_rx_done_callback: set the flag and signal.
\* The task is over.
Callback(n, s) ==
    LET kind == task[n][s].kind
    IN  /\ ready' = [ready EXCEPT ![n][kind] = TRUE]
        /\ cpc' = [cpc EXCEPT ![n] = IF @ = "blocked" /\ WaitKind(call[n]) = kind
                                       THEN "test" ELSE @]
        /\ task' = [task EXCEPT ![n][s] = FreeSlot]

\* A kernel wait of the task in slot s: the lock is given back until the tick.  Outside of
\* the running simulation it raises, which ends the task through its except clause.  Giving
\* back a lock that nobody holds trips the assertion of _dec_timer_lock, which leaves
\* __timer_lock acquired: the clock is frozen and later waits hang in their acquire.
KernelWait(n, s, phase, tick) ==
    \/ /\ ~is_running
       /\ Callback(n, s)
       /\ UNCHANGED kernelVars
    \/ /\ is_running /\ main = "looping" /\ timer_locks > 0
       /\ timer_locks' = timer_locks - 1
       /\ task' = [task EXCEPT ![n][s].phase = phase, ![n][s].due = Clamp(tick),
                               ![n][s].woken = FALSE, ![n][s].put = "no"]
       /\ UNCHANGED <<now, leaked, main, cpc, ready>>
    \/ /\ is_running /\ main = "looping" /\ timer_locks <= 0
       /\ timer_locks' = timer_locks - 1
       /\ main' = "frozen"
       /\ Callback(n, s)
       /\ UNCHANGED <<now, leaked>>
    \/ /\ is_running /\ main = "frozen"
       /\ task' = [task EXCEPT ![n][s].phase = "stuck", ![n][s].woken = FALSE]
       /\ UNCHANGED <<kernelVars, cpc, ready>>

\* The task ends; the kernel is not involved
Finish(n, s) == Callback(n, s) /\ UNCHANGED kernelVars

SetRadio(n, state) == radio' = [radio EXCEPT ![n] = state]

\* sleep_task
SleepTask(n, s) ==
    /\ task[n][s].kind = "sleep"
    /\ \/ /\ task[n][s].phase = "new"
          /\ KernelWait(n, s, "asleep", now + task[n][s].due)
       \/ task[n][s].woken /\ Finish(n, s)
    /\ UNCHANGED radioVars

\* standby(), which takes a tick unless the radio is in standby already
Standby(n, s, phase) ==
    /\ SetRadio(n, "STANDBY")
    /\ IF radio[n] = "STANDBY" THEN Finish(n, s) ELSE KernelWait(n, s, phase, now + 1)

\* transmit_task around transmit_data_blocking.  A wait that ends at the end of the
\* simulation raises SimulationFinishedException.
TransmitTask(n, s) ==
    LET phase == task[n][s].phase
        goes_on == task[n][s].woken /\ now < Length
    IN  /\ task[n][s].kind = "tx"
        /\ \/ /\ phase = "new" /\ radio[n] = "TX"     \* AlreadyTransmittingException
              /\ Finish(n, s) /\ UNCHANGED radio
           \/ /\ phase = "new" /\ radio[n] = "OFF"
              /\ Standby(n, s, "startup")
           \/ /\ \/ phase = "new" /\ radio[n] \in {"STANDBY", "RX"}
                 \/ phase = "startup" /\ goes_on
              /\ SetRadio(n, "TX")
              /\ KernelWait(n, s, "air", now + AirTime)
           \/ /\ phase = "air" /\ goes_on /\ continuous[n]
              /\ SetRadio(n, "RX") /\ Finish(n, s)
           \/ /\ phase = "air" /\ goes_on /\ ~continuous[n]
              /\ Standby(n, s, "settle")
           \/ /\ phase = "settle" /\ goes_on
              /\ Finish(n, s) /\ UNCHANGED radio
           \/ /\ task[n][s].woken /\ now = Length
              /\ Finish(n, s) /\ UNCHANGED radio
        /\ UNCHANGED <<continuous, pending, packets>>

\* The last get of a receive: an item that is there is taken at once when nobody waits
GetPacket(n, s, tick) ==
    \/ /\ pending[n] > 0 /\ Getters(n) \ {s} = {}
       /\ pending' = [pending EXCEPT ![n] = @ - 1]
       /\ IF task[n][s].timeout = 0 THEN KernelWait(n, s, "process", now + 1)
                                    ELSE Finish(n, s)
    \/ /\ pending[n] = 0 \/ Getters(n) \ {s} # {}
       /\ KernelWait(n, s, "get", IF tick > Length - 1 THEN Length - 1 ELSE tick)
       /\ UNCHANGED pending

\* Into receive mode, whatever the radio does by now, and on to the get
Listen(n, s) ==
    /\ SetRadio(n, "RX")
    /\ IF task[n][s].timeout = 0
         THEN GetPacket(n, s, Length - 1)
         ELSE KernelWait(n, s, "delay", now + 1) /\ UNCHANGED pending

\* receive_task around receive_data_within, or receive_data_wait for no timeout
ReceiveTask(n, s) ==
    LET phase == task[n][s].phase
        woken == task[n][s].woken
        take  == pending[n] > 0 /\ pending' = [pending EXCEPT ![n] = @ - 1]
    IN  /\ task[n][s].kind = "rx"
        /\ \/ /\ phase = "new" /\ Getters(n) = {} /\ take
              /\ Finish(n, s) /\ UNCHANGED radio
           \/ /\ phase = "new" /\ (pending[n] = 0 \/ Getters(n) # {})
              /\ KernelWait(n, s, "poll", now + 1) /\ UNCHANGED <<radio, pending>>
           \/ /\ phase = "poll" /\ woken /\ take
              /\ Finish(n, s) /\ UNCHANGED radio
           \/ /\ phase = "poll" /\ woken /\ pending[n] = 0 /\ task[n][s].put = "no"
              /\ \/ /\ radio[n] = "TX" /\ Finish(n, s) /\ UNCHANGED <<radio, pending>>
                 \/ /\ radio[n] = "OFF" /\ Standby(n, s, "startup") /\ UNCHANGED pending
                 \/ /\ radio[n] \in {"STANDBY", "RX"} /\ Listen(n, s)
           \/ /\ phase = "startup" /\ woken /\ now < Length
              /\ Listen(n, s)
           \/ /\ phase = "delay" /\ woken /\ now < Length
              /\ GetPacket(n, s, now + task[n][s].timeout) /\ UNCHANGED radio
           \/ /\ woken /\ pending[n] = 0     \* TimeoutError; ValueError after a put
              /\ phase = "get" \/ (phase = "poll" /\ task[n][s].put # "no")
              /\ Finish(n, s) /\ UNCHANGED <<radio, pending>>
           \/ /\ phase = "get" /\ woken /\ take
              /\ IF task[n][s].timeout = 0 THEN KernelWait(n, s, "process", now + 1)
                                           ELSE Finish(n, s)
              /\ UNCHANGED radio
           \/ /\ phase = "process" /\ woken /\ now < Length
              /\ Finish(n, s) /\ UNCHANGED <<radio, pending>>
           \/ /\ phase \in {"startup", "delay", "process"} /\ woken /\ now = Length
              /\ Finish(n, s) /\ UNCHANGED <<radio, pending>>
        /\ UNCHANGED <<continuous, packets>>

LoopTask(n, s) ==
    /\ main # "closed"
    /\ Ready(n, s)
    /\ SleepTask(n, s) \/ TransmitTask(n, s) \/ ReceiveTask(n, s)
    /\ UNCHANGED <<call, calls, asked, open, quiet>>

-----------------------------------------------------------------------------
(* The kernel, and the radios of others.                                   *)

\* Mutant of Tick: one lock for a tick, however many wake up in it
TickOneLock ==
    /\ main = "looping"
    /\ timer_locks = 0
    /\ now < Length
    /\ now' = now + 1
    /\ LET wakes(n, s) == Live(n, s) /\ ~Ready(n, s) /\ task[n][s].due = now + 1
       IN  /\ task' = [n \in Nodes |-> [s \in Slots |->
                          [task[n][s] EXCEPT !.woken = @ \/ wakes(n, s)]]]
           /\ timer_locks' = IF \E n \in Nodes, s \in Slots : wakes(n, s) THEN 1 ELSE 0
    /\ main' = IF now + 1 = Length THEN "ended" ELSE main
    /\ UNCHANGED <<leaked, threadVars, radioVars, ready>>

\* __run_simulation moves the clock when no lock is held, and takes a lock for every entry of
\* the tick's list: two for an event that is in it twice, for which one is given back.  (The
\* clock also stops at ticks at which only tasks outside of the model wake.)
Tick ==
    /\ main = "looping"
    /\ timer_locks = 0
    /\ now < Length
    /\ now' = now + 1
    /\ LET wakes(n, s) == Live(n, s) /\ ~Ready(n, s) /\ task[n][s].due = now + 1
       IN  /\ task' = [n \in Nodes |-> [s \in Slots |->
                          [task[n][s] EXCEPT !.woken = @ \/ wakes(n, s)]]]
           /\ leaked' = leaked + Cardinality({p \in Nodes \X Slots :
                            wakes(p[1], p[2]) /\ task[p[1]][p[2]].put = "twice"})
           /\ timer_locks' = timer_locks + (leaked' - leaked)
                               + Cardinality({p \in Nodes \X Slots : wakes(p[1], p[2])})
    /\ main' = IF now + 1 = Length THEN "ended" ELSE main
    /\ UNCHANGED <<threadVars, radioVars, ready>>

\* Queue.put and the event of a getter: it is scheduled for the next tick, in which its timeout
\* may be due as well.  A getter that is awake takes this entry out again.
Notified(rec) ==
    IF rec.woken THEN [rec EXCEPT !.put = "once"]
    ELSE [rec EXCEPT !.due = now + 1, !.put = IF rec.due = now + 1 THEN "twice" ELSE "once"]

\* A packet for a listening radio: Queue.put, in the task of its sender, which notifies one of
\* the getters.  A radio in single shot mode switches itself off.
PacketArrives(n) ==
    /\ main = "looping" /\ is_running
    /\ packets[n] < MaxPackets
    /\ radio[n] = "RX"
    /\ packets' = [packets EXCEPT ![n] = @ + 1]
    /\ pending' = [pending EXCEPT ![n] = @ + 1]
    /\ radio' = IF continuous[n] THEN radio ELSE [radio EXCEPT ![n] = "OFF"]
    /\ \/ Getters(n) = {} /\ UNCHANGED task
       \/ \E s \in Getters(n) : task' = [task EXCEPT ![n][s] = Notified(@)]
    /\ UNCHANGED <<kernelVars, threadVars, continuous, ready>>

\* 0.1 s after its end run() cancels what is left of the root tasks and closes the loop
Close ==
    /\ main = "ended"
    /\ \A n \in Nodes, s \in Slots : ~Ready(n, s)
    /\ main' = "closed"
    /\ UNCHANGED <<now, timer_locks, leaked, threadVars, radioVars, task, ready>>

-----------------------------------------------------------------------------
(* The thread's half: the firmware's calls.                                *)

\* __run hands run_sensor to a thread.  (It does not wait for _boot_delay.)
StartThread(n) ==
    /\ main = "looping"
    /\ cpc[n] = "boot"
    /\ cpc' = [cpc EXCEPT ![n] = "run"]
    /\ UNCHANGED <<kernelVars, radioVars, call, calls, asked, open, quiet, task, ready>>

\* loop.create_task, called from the thread; on a closed loop it raises, and the callback
\* returns as if it had not
StartTask(n, kind, duration, timeout) ==
    IF main = "closed"
      THEN UNCHANGED task
      ELSE \E s \in Slots :
             /\ ~Live(n, s) /\ \A r \in Slots : ~Live(n, r) => s <= r
             /\ task' = [task EXCEPT ![n][s] = [kind |-> kind, phase |-> "new",
                                     due |-> duration, woken |-> FALSE,
                                     timeout |-> timeout, put |-> "no"]]

\* The firmware makes a call
Calling(n, fn) ==
    /\ fn \in Calls[n]
    /\ cpc[n] = "run"
    /\ calls[n] < MaxCalls[n]
    /\ calls' = [calls EXCEPT ![n] = @ + 1]
    /\ UNCHANGED <<kernelVars, radioVars, ready>>

\* A call that starts something, and the end of main(), are due when nothing is open
Due(n, kinds) == quiet' = (quiet /\ open[n] = kinds)

Opens(n, kind) == open' = [open EXCEPT ![n] = @ \cup {kind}]

\* sim_sleep, up to the test of the flag
sim_sleep(n, duration) ==
    /\ Calling(n, "sim_sleep")
    /\ Due(n, {}) /\ Opens(n, "sleep")
    /\ StartTask(n, "sleep", duration, 0)
    /\ asked' = [asked EXCEPT ![n] = Clamp(now + duration)]
    /\ cpc' = [cpc EXCEPT ![n] = "test"]
    /\ call' = [call EXCEPT ![n] = "sim_sleep"]

\* sim_transmit_start refuses, or starts the task; sim_transmit_blocking goes on to wait
sim_transmit_start(n, fn) ==
    /\ Calling(n, fn)
    /\ Due(n, {})
    /\ \/ /\ radio[n] = "TX" \/ is_finished
          /\ UNCHANGED <<task, cpc, call, open>>
       \/ /\ radio[n] # "TX" /\ ~is_finished
          /\ StartTask(n, "tx", 0, 0) /\ Opens(n, "tx")
          /\ IF fn = "sim_transmit_blocking"
               THEN /\ cpc' = [cpc EXCEPT ![n] = "check"]
                    /\ call' = [call EXCEPT ![n] = fn]
               ELSE UNCHANGED <<cpc, call>>
    /\ UNCHANGED asked

\* sim_start_receive refuses, or starts the task; sim_receive_blocking goes on to wait
sim_start_receive(n, fn, timeout) ==
    /\ Calling(n, fn)
    /\ Due(n, {})
    /\ \/ /\ radio[n] = "TX"
          /\ UNCHANGED <<task, cpc, call, open>>
       \/ /\ radio[n] # "TX"
          /\ StartTask(n, "rx", 0, timeout) /\ Opens(n, "rx")
          /\ IF fn = "sim_receive_blocking"
               THEN /\ cpc' = [cpc EXCEPT ![n] = "test"]
                    /\ call' = [call EXCEPT ![n] = fn]
               ELSE UNCHANGED <<cpc, call>>
    /\ UNCHANGED asked

\* sim_wait_transmit_finished and sim_wait_receive_finished, called by the firmware itself
CallWait(n, fn) ==
    /\ Calling(n, fn)
    /\ Due(n, {WaitKind(fn)})
    /\ cpc' = [cpc EXCEPT ![n] = IF WaitKind(fn) = "tx" THEN "check" ELSE "test"]
    /\ call' = [call EXCEPT ![n] = fn]
    /\ UNCHANGED <<asked, open, task>>

\* The first test of sim_wait_transmit_finished: the error, when the radio transmits
CheckTransmitting(n) ==
    /\ cpc[n] = "check"
    /\ IF radio[n] = "TX"
         THEN /\ cpc' = [cpc EXCEPT ![n] = "run"]
              /\ call' = [call EXCEPT ![n] = "none"]
         ELSE /\ cpc' = [cpc EXCEPT ![n] = "test"]
              /\ UNCHANGED call
    /\ UNCHANGED <<kernelVars, radioVars, calls, asked, open, quiet, task, ready>>

\* The loop around pthread_cond_wait, the mutex held: through, or blocked
TestFlag(n) ==
    /\ cpc[n] = "test"
    /\ cpc' = [cpc EXCEPT ![n] = IF ready[n][WaitKind(call[n])] THEN "reset" ELSE "blocked"]
    /\ UNCHANGED <<kernelVars, radioVars, call, calls, asked, open, quiet, task, ready>>

\* Mutant of SpuriousWakeUp: an if around pthread_cond_wait instead of the while
SpuriousWakeUpPasses(n) ==
    /\ cpc[n] = "blocked"
    /\ cpc' = [cpc EXCEPT ![n] = "reset"]
    /\ UNCHANGED <<kernelVars, radioVars, call, calls, asked, open, quiet, task, ready>>

\* pthread_cond_wait may return without a signal: back to the test
SpuriousWakeUp(n) ==
    /\ cpc[n] = "blocked"
    /\ cpc' = [cpc EXCEPT ![n] = "test"]
    /\ UNCHANGED <<kernelVars, radioVars, call, calls, asked, open, quiet, task, ready>>

\* Mutant of ResetFlag: the flag stays up
ResetFlagNever(n) ==
    /\ cpc[n] = "reset"
    /\ cpc' = [cpc EXCEPT ![n] = "run"]
    /\ call' = [call EXCEPT ![n] = "none"]
    /\ open' = [open EXCEPT ![n] = @ \ {WaitKind(call[n])}]
    /\ UNCHANGED <<kernelVars, radioVars, calls, asked, quiet, task, ready>>

\* The flag is reset after the mutex is released, and the call returns
ResetFlag(n) ==
    /\ cpc[n] = "reset"
    /\ ready' = [ready EXCEPT ![n][WaitKind(call[n])] = FALSE]
    /\ cpc' = [cpc EXCEPT ![n] = "run"]
    /\ call' = [call EXCEPT ![n] = "none"]
    /\ open' = [open EXCEPT ![n] = @ \ {WaitKind(call[n])}]
    /\ UNCHANGED <<kernelVars, radioVars, calls, asked, quiet, task>>

\* sim_radio_set_rx_config
sim_radio_set_rx_config(n, rx_continuous) ==
    /\ "sim_radio_set_rx_config" \in Calls[n]
    /\ cpc[n] = "run"
    /\ calls[n] = 0
    /\ continuous' = [continuous EXCEPT ![n] = rx_continuous]
    /\ UNCHANGED <<kernelVars, threadVars, radio, pending, packets, task, ready>>

\* main() returns, and with it run_sensor
MainReturns(n) ==
    /\ cpc[n] = "run"
    /\ Due(n, {})
    /\ cpc' = [cpc EXCEPT ![n] = "returned"]
    /\ UNCHANGED <<kernelVars, radioVars, call, calls, asked, open, task, ready>>

\* __run sees the end of the thread, the node's task ends and gives back its lock
NodeEnds(n) ==
    /\ main \in {"looping", "ended"}
    /\ cpc[n] = "returned"
    /\ cpc' = [cpc EXCEPT ![n] = "exited"]
    /\ timer_locks' = timer_locks - 1
    /\ main' = IF timer_locks <= 0 /\ main = "looping" THEN "frozen" ELSE main
    /\ UNCHANGED <<now, leaked, radioVars, call, calls, asked, open, quiet, task, ready>>

-----------------------------------------------------------------------------
(* The specification.                                                      *)

Firmware(n) ==
    \/ \E d \in Durations : sim_sleep(n, d)
    \/ \E fn \in {"sim_transmit_blocking", "sim_transmit_start"} : sim_transmit_start(n, fn)
    \/ \E fn \in {"sim_receive_blocking", "sim_start_receive"}, t \in Timeouts :
           sim_start_receive(n, fn, t)
    \/ \E fn \in {"sim_wait_transmit_finished", "sim_wait_receive_finished"} : CallWait(n, fn)
    \/ MainReturns(n)

Thread(n) == CheckTransmitting(n) \/ TestFlag(n) \/ ResetFlag(n)

\* Nothing is left to do: the firmware has returned, or waits on a loop that is gone
Over == /\ main \in {"closed", "frozen"}
        /\ UNCHANGED vars

Next ==
    \/ Tick
    \/ Close
    \/ \E n \in Nodes :
        \/ StartThread(n)
        \/ Firmware(n)
        \/ \E b \in BOOLEAN : sim_radio_set_rx_config(n, b)
        \/ Thread(n)
        \/ SpuriousWakeUp(n)
        \/ NodeEnds(n)
        \/ PacketArrives(n)
        \/ \E s \in Slots : LoopTask(n, s)
    \/ Over

Spec == Init /\ [][Next]_vars

\* The operating system runs every thread and the loop runs every task that is ready; a
\* firmware goes on with its program, which ends.
FairSpec ==
    /\ Spec
    /\ WF_vars(Tick) /\ WF_vars(Close)
    /\ \A n \in Nodes :
        /\ WF_vars(StartThread(n)) /\ WF_vars(Firmware(n)) /\ WF_vars(Thread(n))
        /\ WF_vars(NodeEnds(n))
        /\ \A s \in Slots : WF_vars(LoopTask(n, s))
-----------------------------------------------------------------------------
(* What the two halves promise each other.                                 *)

\* A flag is never left up by a call that has returned, and a wait never returns before the
\* task it waits for is over: what a node has open is what the loop still works on, or has
\* finished and signalled.
OpenMeansOutstanding ==
    quiet /\ main = "looping" =>
        \A n \in Nodes :
            open[n] = {k \in Kinds : ready[n][k] \/ LiveTasks(n, k) # {}}

\* A node holds one timer lock while its firmware computes, whatever its threads and loop
\* tasks do, beside the locks that queue.py:53 leaks: the clock can only move when every node
\* waits for it or is over, and does not move at all once a packet has come in the last tick of
\* a get.  Firmware that leaves a call open and makes another one spoils this for every node
\* (quiet).
OneLockPerNode ==
    quiet /\ main = "looping" =>
        timer_locks = leaked + Cardinality({n \in Nodes :
            /\ cpc[n] # "exited"
            /\ \A s \in Slots : Live(n, s) => Ready(n, s)})

\* sim_sleep returns in the very tick it asked for: not before it, for a flag that an
\* earlier sleep left behind or a wake-up without a signal, and not after it.  At the end of
\* the simulation it returns at once.
SleepsOut ==
    [][\A n \in Nodes :
          quiet /\ call[n] = "sim_sleep" /\ call'[n] = "none"
              => now = asked[n] \/ is_finished]_vars

\* No wake-up is lost between the loop and a thread: a call that waits while the simulation
\* runs returns, unless a leaked lock stops the clock.
CallsReturn ==
    \A n \in Nodes :
        call[n] # "none" /\ main = "looping" ~> call[n] = "none" \/ ~quiet \/ leaked > 0

\* radio_node.c, in sim_transmit_blocking: "Wait for the transmission to finish before
\* returning"
TransmitBlockingWaits ==
    [][\A n \in Nodes :
          call[n] = "sim_transmit_blocking" /\ call'[n] = "none"
              => LiveTasks(n, "tx") = {}]_vars
=============================================================================
