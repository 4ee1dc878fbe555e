------------------------------ MODULE SimQueue ------------------------------
(***************************************************************************)
(* simulator/queue.py on top of the kernel: one queue, tasks that put into *)
(* it, take from it with or without a timeout, and empty it.               *)
(*                                                                         *)
(* The event a getter waits for is scheduled by the getter itself, for its *)
(* timeout, and may be scheduled a second time by the put that serves it.  *)
(* An event object stays in __get_events after its getter is gone in some  *)
(* runs; nobody awaits it any more, and it is called Orphan here.          *)
(***************************************************************************)
EXTENDS SimulationEnvironment, SequencesExt

CONSTANTS
    Users,     \* who may use the queue: which tasks put, get and clear
    MaxItems,  \* bound on the items in the queue
    Orphan     \* an event that no task awaits

ASSUME QueueAssumption ==
    /\ Users \subseteq [put : SUBSET Tasks, get : SUBSET Tasks, clear : SUBSET Tasks]
    /\ MaxItems \in Nat
    /\ Orphan \notin Tasks

VARIABLES
    data,        \* len(__data): items are taken in the order they come, and look alike
    get_events,  \* __get_events
    outcome,     \* how the last get of each task ended
    users        \* the tasks that put, get and clear in this run

queueVars == <<data, get_events, outcome, users>>
allVars == <<vars, queueVars>>

QueueTypeOK ==
    /\ current_tick \in Nat
    /\ timer_locks \in Nat
    /\ wakeups \in [DOMAIN wakeups -> SUBSET ((Tasks \cup {Orphan}) \X Tasks)]
    /\ main \in Mains
    /\ pc \in [Tasks -> PCs]
    /\ op \in [Tasks -> Ops \cup {"get"}]
    /\ data \in 0..MaxItems
    /\ get_events \in Seq(Tasks \cup {Orphan})
    /\ outcome \in [Tasks -> {"none", "item", "TimeoutError", "SimulatorException",
                              "ValueError"}]
    /\ users \in Users

QueueInit ==
    /\ Init
    /\ data = 0
    /\ get_events = <<>>
    /\ outcome = [t \in Tasks |-> "none"]
    /\ users \in Users

-----------------------------------------------------------------------------
(* The methods of Queue.                                                   *)

\* Mutant of Put: the waiter is woken before the item is there
PutNothing(t) ==
    /\ HasProcessor(t)
    /\ t \in users.put
    /\ data < MaxItems
    /\ \/ get_events = <<>> /\ data' = data + 1 /\ UNCHANGED <<vars, get_events>>
       \/ /\ get_events # <<>> /\ MayCall
          /\ get_events' = Tail(get_events)
          /\ ParkWith(AddWakeUp(wakeups, current_tick + 1, <<Head(get_events), t>>),
                      t, "sleep", Clamp(current_tick + 1))
          /\ UNCHANGED <<clientVars, data>>
    /\ UNCHANGED outcome

\* Mutant of Put: nobody is woken
PutSilently(t) ==
    /\ HasProcessor(t)
    /\ t \in users.put
    /\ data < MaxItems
    /\ data' = data + 1
    /\ UNCHANGED <<vars, get_events, outcome>>

\* Mutant of Put: the waiter is taken from the list and not scheduled
PutUnscheduled(t) ==
    /\ HasProcessor(t)
    /\ t \in users.put
    /\ data < MaxItems
    /\ data' = data + 1
    /\ get_events # <<>> /\ MayCall
    /\ get_events' = Tail(get_events)
    /\ Park(t, "sleep", Clamp(current_tick + 1))
    /\ UNCHANGED <<clientVars, outcome>>

\* put: leave the item; when somebody waits, schedule the first waiter for the next tick
\* and sleep for a tick.  Outside of the running simulation the scheduling raises.
Put(t) ==
    /\ HasProcessor(t)
    /\ t \in users.put
    /\ data < MaxItems
    /\ data' = data + 1
    /\ \/ /\ get_events = <<>>
          /\ UNCHANGED <<vars, get_events>>
       \/ /\ get_events # <<>>
          /\ get_events' = Tail(get_events)
          /\ IF MayCall
               THEN /\ ParkWith(AddWakeUp(wakeups, current_tick + 1, <<Head(get_events), t>>),
                                t, "sleep", Clamp(current_tick + 1))
                    /\ UNCHANGED clientVars
               ELSE UNCHANGED vars
    /\ UNCHANGED outcome

\* The timeout of __get, cut to the last tick; an event for this very tick is set a tick later
TimeoutTick(tick) ==
    LET last == simulation_length - 1
        cut  == IF tick > last THEN last ELSE tick
    IN  IF cut = current_tick THEN cut + 1 ELSE cut

\* get_timeout, and get for a timeout at the last tick, up to the wait
Get(t, timeout_at) ==
    /\ HasProcessor(t)
    /\ t \in users.get
    /\ \/ /\ data > 0 /\ get_events = <<>>
          /\ data' = data - 1
          /\ outcome' = [outcome EXCEPT ![t] = "item"]
          /\ UNCHANGED <<vars, get_events>>
       \/ /\ data = 0 \/ get_events # <<>>
          /\ MayCall
          /\ get_events' = Append(get_events, t)
          /\ Park(t, "get", TimeoutTick(timeout_at))
          /\ outcome' = [outcome EXCEPT ![t] = "none"]
          /\ UNCHANGED <<clientVars, data>>
       \/ /\ data = 0 \/ get_events # <<>>
          /\ ~MayCall
          /\ Len(get_events) < Cardinality(Tasks)
          /\ get_events' = Append(get_events, Orphan)
          /\ outcome' = [outcome EXCEPT ![t] = "SimulatorException"]
          /\ UNCHANGED <<vars, data>>

\* Mutant of ResumeGet: the getter gives its timer lock back once more
ResumeGetUnlocks(t) ==
    /\ LoopAlive
    /\ pc[t] = "woken"
    /\ op[t] = "get"
    /\ wakeups' = RemoveEvent(wakeups, t)
    /\ Proceed(t)
    /\ timer_locks' = timer_locks - 1
    /\ data' = IF data > 0 THEN data - 1 ELSE 0
    /\ get_events' = SelectSeq(get_events, LAMBDA e : e # t)
    /\ UNCHANGED <<current_tick, simulation_length, main, clientVars, outcome>>

\* __get after the wait: wait_for_scheduled_event drops what is left of the event; then an
\* item, if there is one, or the timeout, whose list.remove fails for an event that a put
\* has already taken out of __get_events (an exception no caller expects)
ResumeGet(t) ==
    /\ LoopAlive
    /\ pc[t] = "woken"
    /\ op[t] = "get"
    /\ wakeups' = RemoveEvent(wakeups, t)
    /\ Proceed(t)
    /\ \/ /\ data > 0
          /\ data' = data - 1
          /\ get_events' = ReplaceAll(get_events, t, Orphan)
          /\ outcome' = [outcome EXCEPT ![t] = "item"]
          /\ UNCHANGED main
       \/ /\ data = 0
          /\ t \in Range(get_events)
          /\ get_events' = RemoveFirst(get_events, t)
          /\ outcome' = [outcome EXCEPT ![t] = "TimeoutError"]
          /\ UNCHANGED <<data, main>>
       \/ /\ data = 0
          /\ t \notin Range(get_events)
          /\ outcome' = [outcome EXCEPT ![t] = "ValueError"]
          /\ main' = "exit"
          /\ UNCHANGED <<data, get_events>>
    /\ UNCHANGED <<current_tick, simulation_length, timer_locks, clientVars>>

\* clear
Clear(t) ==
    /\ HasProcessor(t)
    /\ t \in users.clear
    /\ data > 0
    /\ data' = 0
    /\ UNCHANGED <<vars, get_events, outcome>>

-----------------------------------------------------------------------------
(* Specification: the queue's users next to the part of the kernel they    *)
(* need.                                                                   *)

KernelStep ==
    \/ \E t \in Tasks :
        \/ CreateTask(t)
        \/ StartRoot(t)
        \/ Finish(t)
        \/ \E duration \in Durations : Sleep(t, duration)
        \/ ResumeStart(t)
        \/ ResumeSleep(t)
    \/ \E length \in Lengths : Run(length)
    \/ MainStep
    \/ Over

QueueStep ==
    \E t \in Tasks :
        \/ Put(t)
        \/ \E duration \in Durations \cup {simulation_length} : Get(t, current_tick + duration)
        \/ ResumeGet(t)
        \/ Clear(t)

QueueNext == (KernelStep /\ UNCHANGED queueVars) \/ (QueueStep /\ UNCHANGED users)

QueueSpec == QueueInit /\ [][QueueNext]_allVars

-----------------------------------------------------------------------------
(* Properties.                                                             *)

\* However often an event is scheduled, every task that is not suspended has its own count
\* of timer_locks: the clock never moves while a getter or putter is running (queue.py:49-56,
\* environment.py:123-129).
EveryTaskHoldsTheClock ==
    main # "returned" => timer_locks >= Cardinality(Holders)

\* A getter that sleeps still has its timeout ahead of it, and unless it is registered for
\* the next put, the put that took it from the list has scheduled it for the next tick: no
\* getter sleeps on with an item put for it (queue.py:48-56, 96-101).
SleepingGetterIsServed ==
    main \in {"looping", "ended"} =>
        \A t \in Tasks : pc[t] = "asleep" /\ op[t] = "get" =>
            /\ current_tick <= due[t]
            /\ due[t] \in DOMAIN wakeups /\ <<t, t>> \in wakeups[due[t]]
            /\ \/ t \in Range(get_events)
               \/ /\ current_tick + 1 \in DOMAIN wakeups
                  /\ \E p \in users.put : <<t, p>> \in wakeups[current_tick + 1]

\* One task takes from the queue and nobody empties it, as with a radio's receive queue
OneConsumer == Cardinality(users.get) = 1 /\ users.clear = {}

\* A get that finds no item ends with the TimeoutError its documentation promises, "Raises
\* asyncio.TimeoutError if no item is available within the specified timeout" (queue.py:73),
\* as long as one task consumes: whatever the put has scheduled or taken out of the list.
GetRaisesOnlyTimeout == OneConsumer => \A t \in Tasks : outcome[t] # "ValueError"

\* With a single getter, nobody is registered as waiting while an item lies in the queue,
\* so the immediate path of __get and the waiting path never compete (queue.py:80-82).
NobodyWaitsBesideAnItem ==
    OneConsumer /\ data > 0 => \A i \in DOMAIN get_events : get_events[i] = Orphan

=============================================================================
