----------------------- MODULE SimulationEnvironment -----------------------
(***************************************************************************)
(* The simulation kernel, simulator/environment.py: one clock, a queue of  *)
(* wake-up events and a counter, timer_locks, of the tasks that keep the   *)
(* clock from moving.  The client program is arbitrary: a task that has    *)
(* the processor may create tasks, end, and call any of the kernel's       *)
(* waits.  The two halves of schedule_event_wait called on their own, with *)
(* an event that another task awaits, are in module SimQueue.              *)
(*                                                                         *)
(* The kernel runs on one asyncio loop, so what a task does between two    *)
(* suspensions is one step.  __timer_lock and __data_lock are never held   *)
(* over a suspension, so acquiring them never suspends either (the one     *)
(* exception is the lock the main loop keeps when it finds no wake-up      *)
(* left, see Drain).  Tasks that are ready are resumed in any order.       *)
(***************************************************************************)
EXTENDS Integers, FiniteSets

CONSTANTS
    Tasks,      \* every task, root or child, that may ever exist
    Roots,      \* the tasks handed to create_task before run()
    Lengths,    \* simulation lengths, in ticks, that run() may be given
    Durations,  \* durations, in ticks, a task may ask to wait
    Strays      \* names for sleeps whose caller is gone; bounds how many there are at a time

ASSUME TasksAssumption == IsFiniteSet(Tasks) /\ Roots \subseteq Tasks
ASSUME TimeAssumption  == Lengths \subseteq Nat /\ Durations \subseteq Nat
ASSUME StraysAssumption == IsFiniteSet(Strays) /\ Strays \cap Tasks = {}

VARIABLES
    current_tick,       \* __current_tick
    simulation_length,  \* __simulation_length, 0 before run() (None or 0 test alike)
    timer_locks,        \* __timer_locks
    wakeups,            \* __wakeup_events, a function from ticks to sets of events
    main,               \* where run() and __run_simulation are
    pc,                 \* where each task is
    op,                 \* the kernel call a task is suspended in
    due,                \* the local wakeup_time of that call
    cancel,             \* the asyncio.Event that cuts a task's cancellable sleep short
    future,             \* the future of the wait_with_duration a task is in is done
    parent              \* the task that waits in start_child_task for this one

vars == <<current_tick, simulation_length, timer_locks, wakeups, main, pc, op, due,
          cancel, future, parent>>

clientVars == <<cancel, future, parent>>

-----------------------------------------------------------------------------
(* Types.                                                                  *)

Mains == {"setup",     \* before run()
          "looping",   \* inside the while of __run_simulation
          "ended",     \* out of it because the clock reached the length
          "drained",   \* out of it because no wake-up was left; keeps __timer_lock
          "returned",  \* the unfinished tasks are cancelled, run() returns
          "exit",      \* an exception escaped from a task: sys.exit(1)
          "broken"}    \* the assertion of _dec_timer_lock failed, __timer_lock stays held

PCs == {"absent",     \* does not exist yet
        "created",    \* handed to create_task, did not run yet
        "starting",   \* child task, did not run yet
        "active",     \* has, or waits for, the processor
        "spawning",   \* suspended in start_child_task
        "asleep",     \* waits for an event that is not set
        "woken",      \* the event is set, the task has not run since
        "slept",      \* the sleep of wait_with_duration is over, its future is not
        "dead",       \* the wrapper died in wait_for_sim_start
        "done",       \* ran to its end
        "cancelled"}  \* cancelled at the end of run()

Ops == {"none", "start", "sleep", "until", "session", "event", "end", "gather"}

\* A wake-up is a pair: the event, named by the task that awaits it, and the task that
\* scheduled it.  The list of a tick becomes a set, as ready tasks run in any order.
\* The event of a sleep whose caller is gone is named by a stray.
WakeUps == (Tasks \X Tasks) \cup {<<s, s>> : s \in Strays}

TypeOK ==
    /\ current_tick \in Nat
    /\ simulation_length \in Nat
    /\ timer_locks \in Int
    /\ DOMAIN wakeups \subseteq Nat
    /\ wakeups \in [DOMAIN wakeups -> SUBSET WakeUps]
    /\ main \in Mains
    /\ pc \in [Tasks -> PCs]
    /\ op \in [Tasks -> Ops]
    /\ due \in [Tasks -> Nat]
    /\ cancel \in [Tasks -> BOOLEAN]
    /\ future \in [Tasks -> BOOLEAN]
    /\ parent \in [Tasks -> Tasks]

-----------------------------------------------------------------------------
(* WakeUpQueue, as the function from ticks to events that its sorted list  *)
(* is (module WakeUpQueue has the list itself).                            *)

\* WakeUpQueue.add
AddWakeUp(queue, tick, wakeup) ==
    [k \in DOMAIN queue \cup {tick} |->
        (IF k \in DOMAIN queue THEN queue[k] ELSE {})
            \cup (IF k = tick THEN {wakeup} ELSE {})]

\* Mutant of RemoveEvent: the event is not found
RemoveNothing(queue, event) == queue

\* WakeUpQueue.remove: every wake-up of the event, the entry of the tick stays
RemoveEvent(queue, event) ==
    [k \in DOMAIN queue |-> {w \in queue[k] : w[1] # event}]

\* Mutant of IsNextTick: the list is not sorted
IsAnyTick(tick) == tick \in DOMAIN wakeups

\* What WakeUpQueue.peek_tick and next_tick find at the head of the list
IsNextTick(tick) ==
    /\ tick \in DOMAIN wakeups
    /\ \A k \in DOMAIN wakeups : tick <= k

-----------------------------------------------------------------------------
(* Helpers of the kernel.                                                  *)

\* is_running()
is_running == current_tick > 0 /\ current_tick < simulation_length - 1

\* The decorator requires_running_simulation lets the call through
MayCall == is_running \/ current_tick = 0

\* The clamping of a wake-up time to the simulation length
Clamp(tick) ==
    IF simulation_length # 0 /\ simulation_length < tick THEN simulation_length ELSE tick

\* __timer_lock can be acquired, and the process still runs
LoopAlive == main \in {"looping", "ended"}

HasProcessor(t) == LoopAlive /\ pc[t] = "active"

\* Tasks that are counted in timer_locks
Counted == {"created", "active", "spawning", "woken", "slept", "dead"}
Holders == {t \in Tasks : pc[t] \in Counted}

\* Sleeps that go on in the background after the wait_with_duration they belong to raised
Strayed == {s \in Strays : \E k \in DOMAIN wakeups : <<s, s>> \in wakeups[k]}

\* add an event of t's own, release the clock, suspend on the event; without a count to
\* give back the release raises, see AssertionFails
ParkWith(queue, t, call, tick) ==
    /\ timer_locks > 0
    /\ wakeups' = AddWakeUp(queue, tick, <<t, t>>)
    /\ timer_locks' = timer_locks - 1
    /\ pc' = [pc EXCEPT ![t] = "asleep"]
    /\ op' = [op EXCEPT ![t] = call]
    /\ due' = [due EXCEPT ![t] = tick]
    /\ UNCHANGED <<current_tick, simulation_length, main>>

Park(t, call, tick) == ParkWith(wakeups, t, call, tick)

\* t gets the processor back from the call it was suspended in
Proceed(t) ==
    /\ pc' = [pc EXCEPT ![t] = "active"]
    /\ op' = [op EXCEPT ![t] = "none"]
    /\ due' = [due EXCEPT ![t] = 0]

-----------------------------------------------------------------------------
(* Tasks come into being and end.                                          *)

Init ==
    /\ current_tick = 0
    /\ simulation_length = 0
    /\ timer_locks = 0
    /\ wakeups = [k \in {} |-> {}]
    /\ main = "setup"
    /\ pc = [t \in Tasks |-> "absent"]
    /\ op = [t \in Tasks |-> "none"]
    /\ due = [t \in Tasks |-> 0]
    /\ cancel = [t \in Tasks |-> FALSE]
    /\ future = [t \in Tasks |-> FALSE]
    /\ parent = [t \in Tasks |-> t]

\* create_task, called while the simulation is being set up
CreateTask(t) ==
    /\ main = "setup"
    /\ t \in Roots
    /\ pc[t] = "absent"
    /\ timer_locks' = timer_locks + 1
    /\ pc' = [pc EXCEPT ![t] = "created"]
    /\ UNCHANGED <<current_tick, simulation_length, wakeups, main, op, due, clientVars>>

\* run, up to the start of __run_simulation
Run(length) ==
    /\ main = "setup"
    /\ simulation_length' = length
    /\ main' = "looping"
    /\ UNCHANGED <<current_tick, timer_locks, wakeups, pc, op, due, clientVars>>

\* A root task's wrapper starts with wait_for_sim_start
StartRoot(t) ==
    /\ LoopAlive
    /\ pc[t] = "created"
    /\ IF current_tick = 0
         THEN Park(t, "start", Clamp(1))
         ELSE /\ Proceed(t)
              /\ UNCHANGED <<current_tick, simulation_length, timer_locks, wakeups, main>>
    /\ UNCHANGED clientVars

\* start_child_task in the parent, up to its wait for task_start_event
StartChildTask(t, child) ==
    /\ HasProcessor(t)
    /\ child \notin Roots
    /\ pc[child] = "absent"
    /\ pc' = [pc EXCEPT ![t] = "spawning", ![child] = "starting"]
    /\ parent' = [parent EXCEPT ![child] = t]
    /\ UNCHANGED <<current_tick, simulation_length, timer_locks, wakeups, main, op, due,
                   cancel, future>>

\* The child's wrapper takes its timer lock and releases the parent
ChildStarts(child) ==
    /\ LoopAlive
    /\ pc[child] = "starting"
    /\ timer_locks' = timer_locks + 1
    /\ pc' = [pc EXCEPT ![child] = "active", ![parent[child]] = "active"]
    /\ parent' = [parent EXCEPT ![child] = child]
    /\ UNCHANGED <<current_tick, simulation_length, wakeups, main, op, due, cancel, future>>

\* The task's coroutine returns and its wrapper calls __task_finished
Finish(t) ==
    /\ HasProcessor(t)
    /\ timer_locks > 0
    /\ timer_locks' = timer_locks - 1
    /\ pc' = [pc EXCEPT ![t] = "done"]
    /\ UNCHANGED <<current_tick, simulation_length, wakeups, main, op, due, clientVars>>

\* The task's coroutine raises and its wrapper calls sys.exit
Crash(t) ==
    /\ HasProcessor(t)
    /\ main' = "exit"
    /\ UNCHANGED <<current_tick, simulation_length, timer_locks, wakeups, pc, op, due,
                   clientVars>>

\* t waits or ends and there is no count to give back: _dec_timer_lock raises with
\* __timer_lock in its hands.  Nobody gets the lock any more, unless the exception ends the
\* process; what t does afterwards is left out.
AssertionFails(t) ==
    /\ HasProcessor(t)
    /\ timer_locks = 0
    /\ timer_locks' = timer_locks - 1
    /\ main' \in {"broken", "exit"}
    /\ pc' = [pc EXCEPT ![t] = "done"]
    /\ UNCHANGED <<current_tick, simulation_length, wakeups, op, due, clientVars>>

-----------------------------------------------------------------------------
(* Waiting.  A call the decorator refuses raises and leaves no trace.      *)

\* sleep, and advance_tick for a duration of one tick
Sleep(t, duration) ==
    /\ HasProcessor(t)
    /\ MayCall
    /\ Park(t, "sleep", Clamp(current_tick + duration))
    /\ UNCHANGED clientVars

\* sleep_until a timestamp that is not in the past
SleepUntil(t, duration) ==
    /\ HasProcessor(t)
    /\ MayCall
    /\ Park(t, "until", Clamp(current_tick + duration))
    /\ UNCHANGED clientVars

\* LoRaWANDevice._sleep_until_or_cancel, up to the wait for either of its two futures
SleepUntilOrCancel(t, duration) ==
    /\ HasProcessor(t)
    /\ MayCall
    /\ ~cancel[t]
    /\ duration > 0
    /\ Park(t, "session", Clamp(current_tick + duration))
    /\ UNCHANGED clientVars

\* schedule_event_wait: the wake-up time is not clamped
ScheduleEventWait(t, duration) ==
    /\ HasProcessor(t)
    /\ MayCall
    /\ Park(t, "event", current_tick + (IF duration = 0 THEN 1 ELSE duration))
    /\ UNCHANGED clientVars

\* wait_for_sim_end: sleep past the end, and catch the exception that ends it
WaitForSimEnd(t) ==
    /\ HasProcessor(t)
    /\ MayCall
    /\ simulation_length # 0
    /\ Park(t, "end", simulation_length)
    /\ UNCHANGED clientVars

\* wait_with_duration, up to the wait for the sleep and the future
WaitWithDuration(t, duration) ==
    /\ HasProcessor(t)
    /\ MayCall
    /\ Park(t, "gather", Clamp(current_tick + duration))
    /\ UNCHANGED clientVars

\* The future of wait_with_duration, real work of unknown length, completes
FutureDone(t) ==
    /\ LoopAlive
    /\ op[t] = "gather"
    /\ ~future[t]
    /\ future' = [future EXCEPT ![t] = TRUE]
    /\ UNCHANGED <<current_tick, simulation_length, timer_locks, wakeups, main, pc, op, due,
                   cancel, parent>>

\* The future of wait_with_duration raises: gather passes the exception on to t at once and
\* leaves the sleep behind.  A sleep that is not over has given t's count back, so t runs
\* without one until the main loop sets the event that nobody waits for.
FutureRaises(t) ==
    /\ LoopAlive
    /\ op[t] = "gather"
    /\ ~future[t]
    /\ \/ /\ pc[t] = "asleep"
          /\ \E s \in Strays \ Strayed :
                wakeups' = [wakeups EXCEPT ![due[t]] = (@ \ {<<t, t>>}) \cup {<<s, s>>}]
       \/ /\ pc[t] \in {"woken", "slept"}
          /\ UNCHANGED wakeups
    /\ Proceed(t)
    /\ UNCHANGED <<current_tick, simulation_length, timer_locks, main, clientVars>>

\* LoRaWANDevice.cancel_session, called by t, sets the event that u also waits for
RequestCancel(t, u) ==
    /\ HasProcessor(t)
    /\ op[u] = "session"
    /\ ~cancel[u]
    /\ cancel' = [cancel EXCEPT ![u] = TRUE]
    /\ UNCHANGED <<current_tick, simulation_length, timer_locks, wakeups, main, pc, op, due,
                   future, parent>>

-----------------------------------------------------------------------------
(* Resuming.                                                               *)

\* wait_for_sim_start returns, or raises outside the try of the wrapper at the end
ResumeStart(t) ==
    /\ LoopAlive
    /\ pc[t] = "woken"
    /\ op[t] = "start"
    /\ \/ /\ current_tick # simulation_length
          /\ Proceed(t)
       \/ /\ current_tick = simulation_length
          /\ pc' = [pc EXCEPT ![t] = "dead"]
          /\ UNCHANGED <<op, due>>
    /\ UNCHANGED <<current_tick, simulation_length, timer_locks, wakeups, main, clientVars>>

\* sleep (which raises when the clock stands at the length), sleep_until and
\* wait_for_sim_end give the processor back to their caller
ResumeSleep(t) ==
    /\ LoopAlive
    /\ pc[t] = "woken"
    /\ op[t] \in {"sleep", "until", "session", "end"}
    /\ Proceed(t)
    /\ UNCHANGED <<current_tick, simulation_length, timer_locks, wakeups, main, clientVars>>

\* wait_for_scheduled_event after its wait: drop what is left of the event
ResumeEvent(t) ==
    /\ LoopAlive
    /\ pc[t] = "woken"
    /\ op[t] = "event"
    /\ wakeups' = RemoveEvent(wakeups, t)
    /\ Proceed(t)
    /\ UNCHANGED <<current_tick, simulation_length, timer_locks, main, clientVars>>

\* The sleep inside wait_with_duration is over: gather goes on waiting for the future,
\* unless the sleep raised because the clock stands at the length
ResumeGather(t) ==
    /\ LoopAlive
    /\ pc[t] = "woken"
    /\ op[t] = "gather"
    /\ \/ /\ future[t] \/ current_tick = simulation_length
          /\ Proceed(t)
          /\ future' = [future EXCEPT ![t] = FALSE]
       \/ /\ ~future[t] /\ current_tick # simulation_length
          /\ pc' = [pc EXCEPT ![t] = "slept"]
          /\ UNCHANGED <<op, due, future>>
    /\ UNCHANGED <<current_tick, simulation_length, timer_locks, wakeups, main, cancel, parent>>

\* The future completes after the sleep
GatherDone(t) ==
    /\ LoopAlive
    /\ pc[t] = "slept"
    /\ future[t]
    /\ Proceed(t)
    /\ future' = [future EXCEPT ![t] = FALSE]
    /\ UNCHANGED <<current_tick, simulation_length, timer_locks, wakeups, main, cancel, parent>>

\* Mutant of DeliverCancel: the handler takes the timer lock without a look at what remove
\* returned
DeliverCancelAlwaysLocks(t) ==
    /\ LoopAlive
    /\ op[t] = "session"
    /\ cancel[t]
    /\ pc[t] \in {"asleep", "woken"}
    /\ wakeups' = RemoveEvent(wakeups, t)
    /\ timer_locks' = timer_locks + 1
    /\ Proceed(t)
    /\ UNCHANGED <<current_tick, simulation_length, main, clientVars>>

\* The cancelled sleeper of _sleep_until_or_cancel runs the handler in sleep_until: it takes
\* the timer lock back, unless the main loop already did so when it set the event
DeliverCancel(t) ==
    /\ LoopAlive
    /\ op[t] = "session"
    /\ cancel[t]
    /\ \/ /\ pc[t] = "asleep"
          /\ wakeups' = RemoveEvent(wakeups, t)
          /\ timer_locks' = timer_locks + 1
       \/ /\ pc[t] = "woken"
          /\ UNCHANGED <<wakeups, timer_locks>>
    /\ Proceed(t)
    /\ UNCHANGED <<current_tick, simulation_length, main, clientVars>>

-----------------------------------------------------------------------------
(* __run_simulation.                                                       *)

\* Mutant of Advance: the clock counts ticks instead of taking the tick of the entry
AdvanceByOne ==
    /\ main = "looping"
    /\ current_tick < simulation_length
    /\ timer_locks = 0
    /\ \E tick \in DOMAIN wakeups :
        /\ IsNextTick(tick)
        /\ current_tick' = current_tick + 1
        /\ wakeups' = [k \in DOMAIN wakeups \ {tick} |-> wakeups[k]]
        /\ timer_locks' = timer_locks + Cardinality(wakeups[tick])
        /\ pc' = [t \in Tasks |->
                    IF pc[t] = "asleep" /\ \E w \in wakeups[tick] : w[1] = t
                      THEN "woken" ELSE pc[t]]
    /\ UNCHANGED <<simulation_length, main, op, due, clientVars>>

\* One iteration of the loop: the clock moves to the first entry of the queue and every
\* event of that entry is set, with one timer lock for each
Advance ==
    /\ main = "looping"
    /\ current_tick < simulation_length
    /\ timer_locks = 0
    /\ \E tick \in DOMAIN wakeups :
        /\ IsNextTick(tick)
        /\ current_tick' = tick
        /\ wakeups' = [k \in DOMAIN wakeups \ {tick} |-> wakeups[k]]
        /\ timer_locks' = timer_locks + Cardinality(wakeups[tick])
        /\ pc' = [t \in Tasks |->
                    IF pc[t] = "asleep" /\ \E w \in wakeups[tick] : w[1] = t
                      THEN "woken" ELSE pc[t]]
    /\ UNCHANGED <<simulation_length, main, op, due, clientVars>>

\* Mutant of Drain: the loop does not wait for the timer to be unlocked
DrainLocked ==
    /\ main = "looping"
    /\ current_tick < simulation_length
    /\ DOMAIN wakeups = {}
    /\ current_tick' = simulation_length
    /\ main' = "drained"
    /\ UNCHANGED <<simulation_length, timer_locks, wakeups, pc, op, due, clientVars>>

\* Mutant of Drain: without a wake-up the loop goes on to its next iteration
DrainSpins ==
    /\ main = "looping"
    /\ current_tick < simulation_length
    /\ timer_locks = 0
    /\ DOMAIN wakeups = {}
    /\ UNCHANGED vars

\* The iteration that finds no wake-up: break, without releasing __timer_lock
Drain ==
    /\ main = "looping"
    /\ current_tick < simulation_length
    /\ timer_locks = 0
    /\ DOMAIN wakeups = {}
    /\ current_tick' = simulation_length
    /\ main' = "drained"
    /\ UNCHANGED <<simulation_length, timer_locks, wakeups, pc, op, due, clientVars>>

\* The condition of the while is false
EndLoop ==
    /\ main = "looping"
    /\ current_tick >= simulation_length
    /\ main' = "ended"
    /\ UNCHANGED <<current_tick, simulation_length, timer_locks, wakeups, pc, op, due,
                   clientVars>>

\* After a real-time grace period the unfinished tasks are cancelled and run() returns
CancelAll ==
    /\ main \in {"ended", "drained"}
    /\ main' = "returned"
    /\ pc' = [t \in Tasks |->
                IF pc[t] \in {"absent", "done", "dead"} THEN pc[t] ELSE "cancelled"]
    /\ UNCHANGED <<current_tick, simulation_length, timer_locks, wakeups, op, due,
                   clientVars>>

\* run() returned, the process exited or nobody can take __timer_lock: nothing happens any more
Over ==
    /\ main \in {"returned", "exit", "broken"}
    /\ UNCHANGED vars

-----------------------------------------------------------------------------
(* Specification.                                                          *)

\* Everything a task itself may do next
TaskStep(t) ==
    \/ StartRoot(t)
    \/ \E child \in Tasks : StartChildTask(t, child)
    \/ ChildStarts(t)
    \/ Finish(t)
    \/ Crash(t)
    \/ AssertionFails(t)
    \/ \E duration \in Durations :
        \/ Sleep(t, duration)
        \/ SleepUntil(t, duration)
        \/ SleepUntilOrCancel(t, duration)
        \/ ScheduleEventWait(t, duration)
        \/ WaitWithDuration(t, duration)
    \/ WaitForSimEnd(t)
    \/ \E u \in Tasks : RequestCancel(t, u)
    \/ ResumeStart(t)
    \/ ResumeSleep(t)
    \/ ResumeEvent(t)
    \/ ResumeGather(t)
    \/ GatherDone(t)
    \/ DeliverCancel(t)

MainStep == Advance \/ Drain \/ EndLoop \/ CancelAll

Next ==
    \/ \E t \in Tasks : CreateTask(t) \/ TaskStep(t) \/ FutureDone(t) \/ FutureRaises(t)
    \/ \E length \in Lengths : Run(length)
    \/ MainStep
    \/ Over

Spec == Init /\ [][Next]_vars

\* The loop runs whatever is ready, tasks make a next call or end, and the futures handed
\* to wait_with_duration complete or raise
Fairness ==
    /\ WF_vars(MainStep)
    /\ WF_vars(\E length \in Lengths : Run(length))
    /\ \A t \in Tasks : WF_vars(TaskStep(t)) /\ WF_vars(FutureDone(t) \/ FutureRaises(t))

FairSpec == Spec /\ Fairness

-----------------------------------------------------------------------------
(* Properties.                                                             *)

\* Every task that is not suspended in a wait of the kernel holds exactly one count of
\* timer_locks, and nothing else does (environment.py:44-46), except that a sleep left behind
\* by a wait_with_duration whose future raised (environment.py:461) misses one count until its
\* tick comes.  One count too many stops the clock for good, one too few lets it run under a
\* task's feet.
LockCount ==
    main # "returned" => timer_locks + Cardinality(Strayed) = Cardinality(Holders)

\* The wake-up queue holds the events of the sleeping tasks at the ticks they asked for,
\* each once, none of them in the past, and no event of anybody else: no wake-up is lost,
\* doubled or left behind by a cancelled sleep (environment.py:366-380).
WakeUpsMatchSleepers ==
    main # "returned" =>
        /\ \A k \in DOMAIN wakeups :
            /\ current_tick <= k
            /\ \A t, u \in Tasks :
                <<t, u>> \in wakeups[k] <=> t = u /\ pc[t] = "asleep" /\ due[t] = k
        /\ \A t \in Tasks : pc[t] = "asleep" => due[t] \in DOMAIN wakeups

\* When the main loop stops because no wake-up is left, keeping __timer_lock, there is no
\* task left that would block on the lock for ever (environment.py:112-115).
DrainStrandsNobody ==
    main = "drained" => \A t \in Tasks : pc[t] \in {"absent", "done"}

\* Every child that has not run yet has a parent of its own that waits for it, so the clock
\* cannot move before the child takes its timer lock (environment.py:239-242).
ParentWaitsForChild ==
    main # "returned" =>
        \A c \in Tasks : pc[c] = "starting" =>
            /\ pc[parent[c]] = "spawning"
            /\ \A d \in Tasks : pc[d] = "starting" /\ parent[d] = parent[c] => d = c

\* No event is set before or after the tick its waiter asked for: a task is woken by a move
\* of the clock to exactly its wake-up time (environment.py:119-129).
WokenOnTime ==
    [][\A t \in Tasks : pc[t] = "asleep" /\ pc'[t] = "woken" => current_tick' = due[t]]_vars

\* Under fair scheduling run() comes to its end (it returns, or a task's exception ends the
\* process): the counter never keeps the clock standing for ever.  The ways to hold the
\* clock are to sleep again and again until the very tick it shows (environment.py:98-131),
\* and to give back a count that is not there after an abandoned sleep took it
\* (environment.py:89-91).
RunReturns ==
    \/ <>(main \in {"returned", "exit"})
    \/ <>(main = "broken" /\ Strayed # {})
    \/ []<>(\E t \in Tasks : pc[t] = "asleep" /\ due[t] = current_tick)

\* A stray names one sleep at a time
StraysSleepOnce ==
    \A k, l \in DOMAIN wakeups : \A s \in Strays :
        <<s, s>> \in wakeups[k] /\ <<s, s>> \in wakeups[l] => k = l

\* The inductive invariant behind the safety properties above
IInv ==
    /\ TypeOK
    /\ LockCount
    /\ WakeUpsMatchSleepers
    /\ ParentWaitsForChild
    /\ main # "returned" => \A t \in Tasks : pc[t] # "cancelled"
    /\ DrainStrandsNobody
    /\ StraysSleepOnce
    /\ timer_locks < 0 => main \in {"broken", "exit"}

\* The kernel implements the abstract clock of module DiscreteEventClock.
Clock == INSTANCE DiscreteEventClock WITH
    now     <- current_tick,
    busy    <- {t \in Holders : main # "returned"},
    pending <- {p \in Tasks \X {due[t] : t \in Tasks} :
                    main # "returned" /\ pc[p[1]] = "asleep" /\ due[p[1]] = p[2]},
    stray   <- {p \in Strays \X DOMAIN wakeups :
                    main # "returned" /\ <<p[1], p[1]>> \in wakeups[p[2]]}

ClockSpec == Clock!Spec

=============================================================================
