------------------ MODULE SimulationEnvironmentRefinement ------------------
(***************************************************************************)
(* The kernel implements the abstract clock of module DiscreteEventClock,  *)
(* for any number of tasks, any lengths and any durations.                 *)
(***************************************************************************)
EXTENDS SimulationEnvironmentProofs

\* The refinement mapping's values
Busy    == {t \in Holders : main # "returned"}
Pending == {p \in Tasks \X {due[t] : t \in Tasks} :
                main # "returned" /\ pc[p[1]] = "asleep" /\ due[p[1]] = p[2]}

Stray   == {p \in Strays \X DOMAIN wakeups :
                main # "returned" /\ <<p[1], p[1]>> \in wakeups[p[2]]}

Sleepers == {t \in Tasks : main # "returned" /\ pc[t] = "asleep"}

\* Tasks appear in the setup only while the clock stands at zero
ClockAtZero == main = "setup" => current_tick = 0

\* A step of the abstract clock, or a stutter
ClockStep == [Clock!Next]_(Clock!clock)

-----------------------------------------------------------------------------
(* The waiting pairs.                                                      *)

\* Pairs of a task and its value of a function
LEMMA Pairs ==
    ASSUME NEW S \in SUBSET Tasks, NEW d
    PROVE  {p \in Tasks \X {d[t] : t \in Tasks} : p[1] \in S /\ d[p[1]] = p[2]}
                = {<<t, d[t]>> : t \in S}
<1> DEFINE A == {p \in Tasks \X {d[t] : t \in Tasks} : p[1] \in S /\ d[p[1]] = p[2]}
<1>1. ASSUME NEW p \in A PROVE p \in {<<t, d[t]>> : t \in S}
  <2>1. p[1] \in S /\ p = <<p[1], d[p[1]]>>
    OBVIOUS
  <2> QED
    BY <2>1
<1>2. ASSUME NEW t \in S PROVE <<t, d[t]>> \in A
  OBVIOUS
<1> QED
  BY <1>1, <1>2

\* The pairs of the mapping are the sleepers with their wake-up times, before a step and after
LEMMA PendingPairs ==
    /\ Pending = {<<t, due[t]>> : t \in Sleepers}
    /\ Pending' = {<<t, due'[t]>> : t \in Sleepers'}
<1>1. Pending = {p \in Tasks \X {due[t] : t \in Tasks} : p[1] \in Sleepers /\ due[p[1]] = p[2]}
  BY DEF Pending, Sleepers
<1>2. Pending' = {p \in Tasks \X {due'[t] : t \in Tasks} :
                    p[1] \in Sleepers' /\ due'[p[1]] = p[2]}
  BY DEF Pending, Sleepers
<1>3. Sleepers \in SUBSET Tasks /\ Sleepers' \in SUBSET Tasks
  BY DEF Sleepers
<1> QED
  BY <1>1, <1>2, <1>3, Pairs

\* The tasks of the pairs
LEMMA WaitingTasks == {p[1] : p \in Pending} = Sleepers
<1>1. ASSUME NEW t \in Sleepers PROVE <<t, due[t]>> \in Pending /\ <<t, due[t]>>[1] = t
  BY PendingPairs
<1>2. ASSUME NEW p \in Pending PROVE p[1] \in Sleepers
  BY DEF Pending, Sleepers
<1> QED
  BY <1>1, <1>2

\* Nobody falls asleep or wakes up
LEMMA SameSleepers ==
    ASSUME Sleepers' = Sleepers, \A t \in Sleepers : due'[t] = due[t]
    PROVE  Pending' = Pending
<1>1. Pending' = {<<t, due'[t]>> : t \in Sleepers'}
  BY PendingPairs
<1> QED
  BY <1>1, PendingPairs

\* A task falls asleep
LEMMA OneMoreSleeper ==
    ASSUME NEW t \in Tasks, Sleepers' = Sleepers \cup {t}, \A u \in Sleepers : due'[u] = due[u]
    PROVE  Pending' = Pending \cup {<<t, due'[t]>>}
<1>1. Pending' = {<<u, due'[u]>> : u \in Sleepers'}
  BY PendingPairs
<1> QED
  BY <1>1, PendingPairs

\* A sleeper wakes up
LEMMA OneSleeperLess ==
    ASSUME NEW t \in Tasks, Sleepers' = Sleepers \ {t}, \A u \in Sleepers' : due'[u] = due[u]
    PROVE  Pending' = {p \in Pending : p[1] # t}
<1>1. Pending' = {<<u, due'[u]>> : u \in Sleepers'}
  BY PendingPairs
<1>2. ASSUME NEW p \in Pending, p[1] # t PROVE p \in Pending'
  <2>1. p[1] \in Sleepers /\ p = <<p[1], due[p[1]]>>
    BY DEF Pending, Sleepers
  <2> QED
    BY <1>1, <1>2, <2>1
<1>3. ASSUME NEW p \in Pending' PROVE p \in Pending /\ p[1] # t
  <2>1. PICK u \in Sleepers' : p = <<u, due'[u]>>
    BY <1>1, <1>3
  <2> QED
    BY <2>1, PendingPairs
<1> QED
  BY <1>2, <1>3

\* Nobody's sleep is left behind
LEMMA SameStray ==
    ASSUME StrayEventsStay, main # "returned", main' # "returned" PROVE Stray' = Stray
<1>1. ASSUME NEW s \in Strays, NEW k
      PROVE  <<s, k>> \in Stray' <=> <<s, k>> \in Stray
  BY DEF StrayEventsStay, Stray
<1>2. \A p \in Stray : p[1] \in Strays /\ p = <<p[1], p[2]>>
  BY DEF Stray
<1>3. \A p \in Stray' : p[1] \in Strays /\ p = <<p[1], p[2]>>
  BY DEF Stray
<1> QED
  BY <1>1, <1>2, <1>3

\* The waits astray are the sleeps that were left behind
LEMMA StrayNames == ASSUME main # "returned" PROVE {p[1] : p \in Stray} = Strayed
<1>1. ASSUME NEW p \in Stray PROVE p[1] \in Strayed
  BY DEF Stray, Strayed
<1>2. ASSUME NEW s \in Strayed PROVE \E p \in Stray : p[1] = s
  <2>1. PICK k \in DOMAIN wakeups : <<s, s>> \in wakeups[k]
    BY DEF Strayed
  <2>2. <<s, k>> \in Stray
    BY <2>1 DEF Stray, Strayed
  <2> QED
    BY <2>2
<1> QED
  BY <1>1, <1>2

-----------------------------------------------------------------------------
(* Steps of the abstract clock.                                            *)

\* Nothing that the clock sees
LEMMA Stutters ==
    ASSUME UNCHANGED current_tick, Stray' = Stray, Busy' = Busy, Sleepers' = Sleepers,
           \A t \in Sleepers : due'[t] = due[t]
    PROVE  ClockStep
<1>1. Pending' = Pending
  BY SameSleepers
<1> QED
  BY <1>1 DEF ClockStep, Clock!clock, Busy, Pending, Stray

\* A task suspends itself until a tick that is not past
LEMMA Waits ==
    ASSUME NEW t \in Tasks, t \in Busy, UNCHANGED current_tick, Stray' = Stray,
           Busy' = Busy \ {t},
           Sleepers' = Sleepers \cup {t}, \A u \in Sleepers : due'[u] = due[u],
           due'[t] >= current_tick
    PROVE  ClockStep
<1> DEFINE p == <<t, due'[t]>>
<1>1. Pending' = Pending \cup {p}
  BY OneMoreSleeper
<1>2. p \in Pending' /\ p[1] = t /\ p[2] >= current_tick
  BY <1>1
<1>3. Clock!Wait(t)
  BY <1>1, <1>2 DEF Clock!Wait, Busy, Pending, Stray
<1> QED
  BY <1>3 DEF ClockStep, Clock!Next

\* A sleeper gets the processor before its time
LEMMA Interrupts ==
    ASSUME NEW t \in Sleepers, UNCHANGED current_tick, Stray' = Stray, Busy' = Busy \cup {t},
           Sleepers' = Sleepers \ {t}, \A u \in Sleepers' : due'[u] = due[u]
    PROVE  ClockStep
<1>1. t \in Tasks
  BY DEF Sleepers
<1>2. Pending' = {p \in Pending : p[1] # t}
  BY <1>1, OneSleeperLess
<1>3. t \in Clock!Waiting
  BY WaitingTasks DEF Clock!Waiting, Pending
<1>4. Clock!Interrupt(t)
  BY <1>2, <1>3 DEF Clock!Interrupt, Busy, Pending, Stray
<1> QED
  BY <1>1, <1>4 DEF ClockStep, Clock!Next

\* A task takes its first timer lock
LEMMA Appears ==
    ASSUME NEW t \in Tasks, t \notin Busy, t \notin Sleepers, current_tick = 0 \/ Busy # {},
           UNCHANGED current_tick, Stray' = Stray, Busy' = Busy \cup {t},
           Sleepers' = Sleepers, \A u \in Sleepers : due'[u] = due[u]
    PROVE  ClockStep
<1>1. Pending' = Pending
  BY SameSleepers
<1>2. t \notin Clock!Waiting
  BY WaitingTasks DEF Clock!Waiting, Pending
<1>3. Clock!Appear(t)
  BY <1>1, <1>2 DEF Clock!Appear, Busy, Pending, Stray
<1> QED
  BY <1>3 DEF ClockStep, Clock!Next

\* A task gives its timer lock back for good
LEMMA Departs ==
    ASSUME NEW t \in Tasks, t \in Busy, UNCHANGED current_tick, Stray' = Stray,
           Busy' = Busy \ {t},
           Sleepers' = Sleepers, \A u \in Sleepers : due'[u] = due[u]
    PROVE  ClockStep
<1>1. Pending' = Pending
  BY SameSleepers
<1>2. Clock!Leave(t)
  BY <1>1 DEF Clock!Leave, Busy, Pending, Stray
<1> QED
  BY <1>2 DEF ClockStep, Clock!Next

-----------------------------------------------------------------------------
(* Each step of the kernel.                                                *)

\* Every wait of the kernel is a wait of the clock
LEMMA ParkIsWait ==
    ASSUME TypeOK, LoopAlive, NEW t \in Tasks, pc[t] \in {"active", "created"},
           NEW call, NEW tick \in Nat, current_tick <= tick, Park(t, call, tick)
    PROVE  ClockStep
<1>1. /\ pc' = [pc EXCEPT ![t] = "asleep"] /\ due' = [due EXCEPT ![t] = tick]
      /\ UNCHANGED <<current_tick, main>>
      /\ pc \in [Tasks -> PCs] /\ due \in [Tasks -> Nat] /\ main # "returned"
      /\ wakeups' = AddWakeUp(wakeups, tick, <<t, t>>)
  BY DEF Park, ParkWith, TypeOK, LoopAlive
<1>5. Stray' = Stray
  BY <1>1, TasksMoveNoStray, SameStray
<1>2. t \in Busy /\ Busy' = Busy \ {t}
  BY <1>1 DEF Busy, Holders, Counted
<1>3. Sleepers' = Sleepers \cup {t} /\ \A u \in Sleepers : due'[u] = due[u]
  BY <1>1 DEF Sleepers
<1>4. due'[t] >= current_tick
  BY <1>1 DEF TypeOK
<1> QED
  BY <1>1, <1>2, <1>3, <1>4, <1>5, Waits

\* A task that is counted and goes on being counted
LEMMA MovingOnStutters ==
    ASSUME TypeOK, main # "returned", main' # "returned",
           NEW t \in Tasks, pc[t] \in Counted, NEW state \in Counted,
           pc' = [pc EXCEPT ![t] = state], \A u \in Tasks \ {t} : due'[u] = due[u],
           wakeups' = wakeups \/ wakeups' = RemoveEvent(wakeups, t),
           UNCHANGED current_tick
    PROVE  ClockStep
<1>1. pc \in [Tasks -> PCs]
  BY DEF TypeOK
<1>2. Busy' = Busy
  BY <1>1 DEF Busy, Holders
<1>3. Sleepers' = Sleepers /\ \A u \in Sleepers : due'[u] = due[u]
  BY <1>1 DEF Sleepers, Counted
<1>4. Stray' = Stray
  BY TasksMoveNoStray, SameStray
<1> QED
  BY <1>2, <1>3, <1>4, Stutters

\* Steps of the client's own state
LEMMA QuietStutters ==
    ASSUME UNCHANGED <<current_tick, pc, due, wakeups>>, main # "returned", main' # "returned"
    PROVE  ClockStep
<1>1. Busy' = Busy /\ Sleepers' = Sleepers /\ Stray' = Stray
  BY DEF Busy, Holders, Sleepers, Stray
<1> QED
  BY <1>1, Stutters

\* create_task
LEMMA CreateTaskAppears ==
    ASSUME TypeOK, ClockAtZero, NEW t \in Tasks, CreateTask(t) PROVE ClockStep
<1>1. /\ pc \in [Tasks -> PCs] /\ pc[t] = "absent" /\ pc' = [pc EXCEPT ![t] = "created"]
      /\ main = "setup" /\ UNCHANGED <<current_tick, main, due, wakeups>> /\ current_tick = 0
  BY DEF TypeOK, ClockAtZero, CreateTask
<1>2. t \notin Busy /\ t \notin Sleepers /\ Busy' = Busy \cup {t} /\ Sleepers' = Sleepers
  BY <1>1 DEF Busy, Holders, Counted, Sleepers
<1>3. Stray' = Stray
  BY <1>1 DEF Stray
<1> QED
  BY <1>1, <1>2, <1>3, Appears

\* start_child_task suspends the parent without releasing its timer lock
LEMMA StartChildStutters ==
    ASSUME TypeOK, NEW t \in Tasks, NEW child \in Tasks, StartChildTask(t, child)
    PROVE  ClockStep
<1>1. /\ pc \in [Tasks -> PCs] /\ pc[t] = "active" /\ pc[child] = "absent"
      /\ pc' = [pc EXCEPT ![t] = "spawning", ![child] = "starting"]
      /\ main # "returned" /\ UNCHANGED <<current_tick, main, due, wakeups>>
  BY DEF TypeOK, StartChildTask, HasProcessor, LoopAlive
<1>2. Busy' = Busy /\ Sleepers' = Sleepers /\ Stray' = Stray
  BY <1>1 DEF Busy, Holders, Counted, Sleepers, Stray
<1> QED
  BY <1>1, <1>2, Stutters

\* The child appears while its parent keeps the clock
LEMMA ChildAppears ==
    ASSUME IInv, NEW child \in Tasks, ChildStarts(child) PROVE ClockStep
<1> DEFINE t == parent[child]
<1>1. /\ pc \in [Tasks -> PCs] /\ t \in Tasks
      /\ pc[child] = "starting" /\ main # "returned"
      /\ pc' = [pc EXCEPT ![child] = "active", ![t] = "active"]
      /\ UNCHANGED <<current_tick, main, due, wakeups>>
  BY DEF IInv, TypeOK, ChildStarts, LoopAlive
<1>2. pc[t] = "spawning"
  BY <1>1 DEF IInv, ParentWaitsForChild
<1>3. /\ t \in Busy /\ child \notin Busy /\ child \notin Sleepers
      /\ Busy' = Busy \cup {child} /\ Sleepers' = Sleepers /\ Stray' = Stray
  BY <1>1, <1>2 DEF Busy, Holders, Counted, Sleepers, Stray
<1> QED
  BY <1>1, <1>3, Appears

\* A task ends, with or without a count to give back
LEMMA FinishDeparts ==
    ASSUME TypeOK, NEW t \in Tasks, Finish(t) \/ AssertionFails(t) PROVE ClockStep
<1>1. /\ pc \in [Tasks -> PCs] /\ pc[t] = "active" /\ pc' = [pc EXCEPT ![t] = "done"]
      /\ main # "returned" /\ main' # "returned" /\ UNCHANGED <<current_tick, due, wakeups>>
  BY DEF TypeOK, Finish, AssertionFails, HasProcessor, LoopAlive
<1>2. t \in Busy /\ Busy' = Busy \ {t} /\ Sleepers' = Sleepers /\ Stray' = Stray
  BY <1>1 DEF Busy, Holders, Counted, Sleepers, Stray
<1> QED
  BY <1>1, <1>2, Departs

\* A cancelled sleeper is called back early, unless its time had come
LEMMA DeliverCancelInterrupts ==
    ASSUME TypeOK, NEW t \in Tasks, DeliverCancel(t) PROVE ClockStep
<1>1. /\ pc \in [Tasks -> PCs] /\ due \in [Tasks -> Nat] /\ main # "returned"
      /\ pc' = [pc EXCEPT ![t] = "active"] /\ due' = [due EXCEPT ![t] = 0]
      /\ UNCHANGED <<current_tick, main>>
  BY DEF TypeOK, DeliverCancel, LoopAlive, Proceed
<1>2. CASE pc[t] = "asleep"
  <2>1. t \in Sleepers /\ Sleepers' = Sleepers \ {t} /\ Busy' = Busy \cup {t}
    BY <1>1, <1>2 DEF Busy, Holders, Counted, Sleepers
  <2>2. \A u \in Sleepers' : due'[u] = due[u]
    BY <1>1, <2>1 DEF Sleepers
  <2>3. Stray' = Stray
    BY <1>1, <1>2, TasksMoveNoStray, SameStray DEF DeliverCancel
  <2> QED
    BY <1>1, <2>1, <2>2, <2>3, Interrupts
<1>3. CASE pc[t] = "woken"
  BY <1>1, <1>3, MovingOnStutters DEF Counted, DeliverCancel
<1> QED
  BY <1>2, <1>3 DEF DeliverCancel

\* A future that raises makes its waiter abandon its sleep, unless the sleep is over
LEMMA FutureRaisesAbandons ==
    ASSUME IInv, NEW t \in Tasks, FutureRaises(t) PROVE ClockStep
<1>1. /\ pc \in [Tasks -> PCs] /\ due \in [Tasks -> Nat] /\ main # "returned"
      /\ pc' = [pc EXCEPT ![t] = "active"] /\ due' = [due EXCEPT ![t] = 0]
      /\ UNCHANGED <<current_tick, main>>
  BY DEF IInv, TypeOK, FutureRaises, LoopAlive, Proceed
<1>2. CASE pc[t] = "asleep"
  <2> DEFINE d == due[t]
  <2>1. t \in Sleepers /\ Sleepers' = Sleepers \ {t} /\ Busy' = Busy \cup {t}
    BY <1>1, <1>2 DEF Busy, Holders, Counted, Sleepers
  <2>2. \A u \in Sleepers' : due'[u] = due[u]
    BY <1>1, <2>1 DEF Sleepers
  <2>3. Pending' = {p \in Pending : p[1] # t}
    BY <2>1, <2>2, OneSleeperLess
  <2>4. <<t, d>> \in Pending
    BY <2>1, PendingPairs
  <2>5. PICK s \in Strays \ Strayed :
            wakeups' = [wakeups EXCEPT ![d] = (wakeups[d] \ {<<t, t>>}) \cup {<<s, s>>}]
    BY <1>2 DEF FutureRaises
  <2>6. d \in DOMAIN wakeups
    BY <1>1, <1>2 DEF IInv, WakeUpsMatchSleepers
  <2> HIDE DEF d
  <2>7. /\ DOMAIN wakeups' = DOMAIN wakeups
        /\ \A k \in DOMAIN wakeups :
              wakeups'[k] = IF k = d THEN (wakeups[d] \ {<<t, t>>}) \cup {<<s, s>>}
                                     ELSE wakeups[k]
    BY <2>5, <2>6 DEF IInv, TypeOK
  <2>8. ASSUME NEW z \in Strays, NEW k \in DOMAIN wakeups
        PROVE  <<z, z>> \in wakeups'[k] <=> <<z, z>> \in wakeups[k] \/ (z = s /\ k = d)
    <3>1. z # t
      BY StraysAssumption
    <3> QED
      BY <2>7, <3>1
  <2>9. Stray' = Stray \cup {<<s, d>>}
    <3>1. ASSUME NEW p \in Stray' PROVE p \in Stray \cup {<<s, d>>}
      <4>1. p[1] \in Strays /\ p[2] \in DOMAIN wakeups /\ p = <<p[1], p[2]>>
            /\ <<p[1], p[1]>> \in wakeups'[p[2]]
        BY <2>7 DEF Stray
      <4>2. <<p[1], p[1]>> \in wakeups[p[2]] \/ (p[1] = s /\ p[2] = d)
        BY <2>8, <4>1
      <4> QED
        BY <1>1, <4>1, <4>2 DEF Stray
    <3>2. ASSUME NEW p \in Stray PROVE p \in Stray'
      <4>1. p[1] \in Strays /\ p[2] \in DOMAIN wakeups /\ p = <<p[1], p[2]>>
            /\ <<p[1], p[1]>> \in wakeups[p[2]]
        BY DEF Stray
      <4>2. <<p[1], p[1]>> \in wakeups'[p[2]]
        BY <2>8, <4>1
      <4> QED
        BY <1>1, <2>7, <4>1, <4>2 DEF Stray
    <3>3. <<s, d>> \in Stray'
      BY <1>1, <2>5, <2>6, <2>7, <2>8 DEF Stray
    <3> QED
      BY <3>1, <3>2, <3>3
  <2>10. s \in Strays \ Clock!Astray
    BY <1>1, <2>5, StrayNames DEF Clock!Astray, Stray
  <2>11. <<t, d>>[1] = t /\ <<t, d>>[2] = d
    OBVIOUS
  <2>12. \E p \in Pending, z \in Strays \ Clock!Astray :
            p[1] = t /\ Stray' = Stray \cup {<<z, p[2]>>}
    BY <2>4, <2>9, <2>10, <2>11
  <2>13. Clock!Abandon(t)
    BY <1>1, <2>1, <2>3, <2>12 DEF Clock!Abandon, Busy, Pending, Stray
  <2> QED
    BY <2>13 DEF ClockStep, Clock!Next
<1>3. CASE pc[t] \in {"woken", "slept"}
  <2>1. wakeups' = wakeups
    BY <1>3 DEF FutureRaises
  <2>2. pc[t] \in Counted /\ "active" \in Counted
    BY <1>3 DEF Counted
  <2>3. \A u \in Tasks \ {t} : due'[u] = due[u]
    BY <1>1
  <2> QED
    BY <1>1, <2>1, <2>2, <2>3, MovingOnStutters DEF IInv
<1> QED
  BY <1>2, <1>3 DEF FutureRaises

\* The waits of the interface suspend their caller until a tick that is not past
LEMMA WaitIsWait ==
    ASSUME TypeOK, NEW t \in Tasks, NEW duration \in Durations,
           \/ Sleep(t, duration)
           \/ SleepUntil(t, duration)
           \/ SleepUntilOrCancel(t, duration)
           \/ ScheduleEventWait(t, duration)
           \/ WaitWithDuration(t, duration)
    PROVE  ClockStep
<1>a. duration \in Nat
  BY TimeAssumption
<1>1. ASSUME NEW call, HasProcessor(t), MayCall,
             Park(t, call, Clamp(current_tick + duration))
      PROVE  ClockStep
  <2>1. /\ Clamp(current_tick + duration) \in Nat
        /\ current_tick <= Clamp(current_tick + duration)
    BY <1>a, <1>1, WakeUpTimes
  <2>2. LoopAlive /\ pc[t] \in {"active", "created"}
    BY <1>1 DEF HasProcessor
  <2> QED
    BY <1>1, <2>1, <2>2, ParkIsWait
<1>2. CASE Sleep(t, duration)
  BY <1>1, <1>2 DEF Sleep
<1>3. CASE SleepUntil(t, duration)
  BY <1>1, <1>3 DEF SleepUntil
<1>4. CASE SleepUntilOrCancel(t, duration)
  BY <1>1, <1>4 DEF SleepUntilOrCancel
<1>5. CASE WaitWithDuration(t, duration)
  BY <1>1, <1>5 DEF WaitWithDuration
<1>6. CASE ScheduleEventWait(t, duration)
  <2> DEFINE tick == current_tick + (IF duration = 0 THEN 1 ELSE duration)
  <2>1. tick \in Nat /\ current_tick <= tick
    BY <1>a DEF TypeOK
  <2>2. LoopAlive /\ pc[t] \in {"active", "created"} /\ Park(t, "event", tick)
    BY <1>6 DEF ScheduleEventWait, HasProcessor
  <2> HIDE DEF tick
  <2> QED
    BY <2>1, <2>2, ParkIsWait
<1> QED
  BY <1>2, <1>3, <1>4, <1>5, <1>6

\* So do wait_for_sim_start and wait_for_sim_end
LEMMA StartOrEndIsWait ==
    ASSUME TypeOK, NEW t \in Tasks, StartRoot(t) \/ WaitForSimEnd(t) PROVE ClockStep
<1>1. CASE WaitForSimEnd(t)
  <2>1. simulation_length \in Nat /\ current_tick <= simulation_length
    BY <1>1, WakeUpTimes DEF WaitForSimEnd, TypeOK
  <2>2. /\ LoopAlive /\ pc[t] \in {"active", "created"}
        /\ Park(t, "end", simulation_length)
    BY <1>1 DEF WaitForSimEnd, HasProcessor
  <2> QED
    BY <2>1, <2>2, ParkIsWait
<1>2. CASE StartRoot(t) /\ current_tick = 0
  <2>1. Clamp(1) \in Nat /\ current_tick <= Clamp(1)
    BY <1>2 DEF TypeOK, Clamp
  <2>2. LoopAlive /\ pc[t] \in {"active", "created"} /\ Park(t, "start", Clamp(1))
    BY <1>2 DEF StartRoot
  <2> QED
    BY <2>1, <2>2, ParkIsWait
<1>3. CASE StartRoot(t) /\ current_tick # 0
  <2>1. /\ main # "returned" /\ pc[t] \in Counted /\ "active" \in Counted
        /\ pc' = [pc EXCEPT ![t] = "active"] /\ due' = [due EXCEPT ![t] = 0]
        /\ UNCHANGED <<current_tick, main, wakeups>>
    BY <1>3 DEF StartRoot, LoopAlive, Counted, Proceed
  <2>2. \A u \in Tasks \ {t} : due'[u] = due[u]
    BY <2>1 DEF TypeOK
  <2> QED
    BY <2>1, <2>2, MovingOnStutters
<1> QED
  BY <1>1, <1>2, <1>3

\* A task that the move of the clock woke is busy already when it runs again
LEMMA ResumeStutters ==
    ASSUME TypeOK, NEW t \in Tasks,
           \/ ResumeStart(t) \/ ResumeSleep(t) \/ ResumeEvent(t)
           \/ ResumeGather(t) \/ GatherDone(t)
    PROVE  ClockStep
<1> USE DEF ResumeStart, ResumeSleep, ResumeEvent, ResumeGather, GatherDone
<1>1. /\ main # "returned" /\ pc[t] \in Counted /\ UNCHANGED <<current_tick, main>>
      /\ wakeups' = wakeups \/ wakeups' = RemoveEvent(wakeups, t)
  BY DEF Counted, LoopAlive
<1>2. \A u \in Tasks \ {t} : due'[u] = due[u]
  BY DEF TypeOK, Proceed
<1>3. PICK state \in Counted : pc' = [pc EXCEPT ![t] = state]
  BY DEF Proceed, Counted
<1> QED
  BY <1>1, <1>2, <1>3, MovingOnStutters

\* The clock moves to the first wake-up time and its sleepers are busy from then on
LEMMA AdvanceMoves == ASSUME IInv, Advance PROVE ClockStep
<1>1. /\ main = "looping" /\ main' = main /\ timer_locks = 0 /\ due' = due
      /\ pc \in [Tasks -> PCs] /\ due \in [Tasks -> Nat] /\ current_tick \in Nat
  BY DEF IInv, TypeOK, Advance
<1>2. PICK tick \in DOMAIN wakeups :
        /\ IsNextTick(tick)
        /\ current_tick' = tick
        /\ wakeups' = [k \in DOMAIN wakeups \ {tick} |-> wakeups[k]]
        /\ pc' = [t \in Tasks |->
                    IF pc[t] = "asleep" /\ \E w \in wakeups[tick] : w[1] = t
                      THEN "woken" ELSE pc[t]]
  BY DEF Advance
<1>3. tick \in Nat /\ current_tick <= tick /\ wakeups[tick] \in SUBSET WakeUps
  BY <1>1 DEF IInv, TypeOK, WakeUpsMatchSleepers
<1>4. ASSUME NEW t \in Tasks, pc[t] = "asleep"
      PROVE  /\ (\E w \in wakeups[tick] : w[1] = t) <=> due[t] = tick
             /\ tick <= due[t]
  <2>1. \A u \in Tasks : <<t, u>> \in wakeups[tick] <=> t = u /\ due[t] = tick
    BY <1>1, <1>4 DEF IInv, WakeUpsMatchSleepers
  <2>2. \A w \in wakeups[tick] : w[1] = t => w[2] \in Tasks /\ w = <<w[1], w[2]>>
    <3>1. \A w \in wakeups[tick] : w[1] = t => w \in Tasks \X Tasks
      BY <1>3 DEF WakeUps
    <3> QED
      BY <3>1
  <2>3. due[t] \in DOMAIN wakeups
    BY <1>1, <1>4 DEF IInv, WakeUpsMatchSleepers
  <2> QED
    BY <1>2, <2>1, <2>2, <2>3 DEF IsNextTick
<1>5. Cardinality(Busy) = Cardinality({p[1] : p \in Stray})
  <2>1. Cardinality(Strayed) = Cardinality(Holders)
    BY <1>1, HoldersFinite, StrayedFinite DEF IInv, LockCount
  <2>2. Busy = Holders
    BY <1>1 DEF Busy
  <2> QED
    BY <1>1, <2>1, <2>2, StrayNames
<1>6. Busy' = Busy \cup {t \in Sleepers : due[t] = tick}
  BY <1>1, <1>2, <1>4 DEF Busy, Holders, Counted, Sleepers
<1>7. Sleepers' = {t \in Sleepers : due[t] # tick}
  BY <1>1, <1>2, <1>4 DEF Sleepers
<1>8. Pending' = {p \in Pending : p[2] # tick}
  <2>1. Pending' = {<<t, due[t]>> : t \in Sleepers'}
    BY <1>1, PendingPairs
  <2> QED
    BY <1>7, <2>1, PendingPairs
<1>9. Busy' = Busy \cup {p[1] : p \in {q \in Pending : q[2] = tick}}
  <2>1. ASSUME NEW t \in Sleepers, due[t] = tick PROVE \E p \in Pending : p[2] = tick /\ p[1] = t
    <3>1. <<t, tick>> \in Pending
      BY <2>1, PendingPairs
    <3> QED
      BY <3>1
  <2>2. ASSUME NEW p \in Pending, p[2] = tick PROVE p[1] \in Sleepers /\ due[p[1]] = tick
    BY <2>2, PendingPairs
  <2> QED
    BY <1>6, <2>1, <2>2
<1>10. \A p \in Pending \cup Stray : tick <= p[2]
  <2>1. \A p \in Pending : tick <= p[2]
    BY <1>4, PendingPairs DEF Sleepers
  <2>2. \A p \in Stray : tick <= p[2]
    BY <1>2 DEF Stray, IsNextTick
  <2> QED
    BY <2>1, <2>2
<1>11. Stray' = {p \in Stray : p[2] # tick}
  <2>1. DOMAIN wakeups' = DOMAIN wakeups \ {tick}
    BY <1>2
  <2>2. \A k \in DOMAIN wakeups' : wakeups'[k] = wakeups[k]
    BY <1>2
  <2> QED
    BY <1>1, <2>1, <2>2 DEF Stray
<1>12. Clock!Move
  BY <1>2, <1>3, <1>5, <1>8, <1>9, <1>10, <1>11
     DEF Clock!Move, Clock!Astray, Clock!Cardinality, Cardinality, Busy, Pending, Stray
<1> QED
  BY <1>12 DEF ClockStep, Clock!Next

\* With no wake-up left nobody waits, and the clock may move to the end of the run
LEMMA DrainMoves == ASSUME IInv, Drain PROVE ClockStep
<1> USE DEF Drain
<1>1. Stray = {} /\ Stray' = {}
  BY DEF Stray
<1>2. \A t \in Tasks : pc[t] # "asleep"
  BY DEF IInv, WakeUpsMatchSleepers
<1>3. Pending = {} /\ Pending' = {} /\ Busy' = Busy
  BY <1>2 DEF Busy, Holders, Pending
<1>4. Cardinality(Busy) = Cardinality({p[1] : p \in Stray})
  <2>1. Cardinality(Strayed) = Cardinality(Holders)
    BY HoldersFinite, StrayedFinite DEF IInv, LockCount
  <2>2. Busy = Holders
    BY DEF Busy
  <2> QED
    BY <2>1, <2>2, StrayNames
<1>5. current_tick' >= current_tick
  BY DEF IInv, TypeOK
<1>6. Clock!Move
  BY <1>1, <1>3, <1>4, <1>5 DEF Clock!Move, Clock!Astray, Clock!Cardinality, Cardinality, Busy, Pending, Stray
<1> QED
  BY <1>6 DEF ClockStep, Clock!Next

\* The end of the run is the clock's
LEMMA CancelAllHalts == ASSUME CancelAll PROVE ClockStep
<1>1. Clock!Halt
  BY DEF CancelAll, Clock!Halt
<1> QED
  BY <1>1 DEF ClockStep, Clock!Next

-----------------------------------------------------------------------------
(* The theorem.                                                            *)

\* Before run() the clock has not moved
LEMMA ClockStartsAtZero == Spec => []ClockAtZero
<1>1. Init => ClockAtZero
  BY DEF Init, ClockAtZero
<1>2. ClockAtZero /\ [Next]_vars => ClockAtZero'
  <2> SUFFICES ASSUME ClockAtZero, [Next]_vars, main' = "setup" PROVE current_tick' = 0
    BY DEF ClockAtZero
  <2>1. CASE UNCHANGED vars
    BY <2>1 DEF vars, ClockAtZero
  <2>2. ASSUME NEW t \in Tasks, CreateTask(t) PROVE current_tick' = 0
    BY <2>2 DEF CreateTask, ClockAtZero
  <2>3. ASSUME NEW t \in Tasks, TaskStep(t) \/ FutureDone(t) \/ FutureRaises(t)
        PROVE  FALSE
    BY <2>3 DEF TaskStep, FutureDone, FutureRaises, AssertionFails, StartRoot, StartChildTask, ChildStarts, Finish, Crash,
                Sleep, SleepUntil, SleepUntilOrCancel, ScheduleEventWait, WaitWithDuration,
                WaitForSimEnd, RequestCancel, ResumeStart, ResumeSleep, ResumeEvent,
                ResumeGather, GatherDone, DeliverCancel, HasProcessor, LoopAlive, Park,
                ParkWith
  <2>4. CASE (\E length \in Lengths : Run(length)) \/ MainStep
    BY <2>4 DEF Run, MainStep, Advance, Drain, EndLoop, CancelAll
  <2> QED
    BY <2>1, <2>2, <2>3, <2>4 DEF Next, Over
<1> QED
  BY <1>1, <1>2, PTL DEF Spec

\* The kernel implements the abstract clock: every behaviour of the kernel, seen through the
\* tasks that run, the tasks that sleep and the sleeps that were left behind, is a behaviour
\* of DiscreteEventClock, in which time never skips a point somebody waits for, and stands
\* still while somebody is busy or, once waits have been abandoned, while more tasks are busy
\* than waits are astray.
THEOREM KernelImplementsClock == Spec => ClockSpec
<1>1. Init => Clock!Init
  BY DEF Init, Clock!Init, Holders, Counted
<1>2. IInv /\ ClockAtZero /\ [Next]_vars => [Clock!Next]_(Clock!clock)
  <2> SUFFICES ASSUME IInv, ClockAtZero, [Next]_vars PROVE ClockStep
    BY DEF ClockStep
  <2>a. TypeOK
    BY DEF IInv
  <2>1. CASE UNCHANGED vars
    BY <2>1 DEF vars, ClockStep, Clock!clock, Holders
  <2>2. ASSUME NEW t \in Tasks, CreateTask(t) PROVE ClockStep
    BY <2>2, <2>a, CreateTaskAppears
  <2>3. ASSUME NEW t \in Tasks, TaskStep(t) PROVE ClockStep
    <3>1. CASE StartRoot(t) \/ WaitForSimEnd(t)
      BY <3>1, <2>a, StartOrEndIsWait
    <3>2. ASSUME NEW child \in Tasks, StartChildTask(t, child) PROVE ClockStep
      BY <3>2, <2>a, StartChildStutters
    <3>3. CASE ChildStarts(t)
      BY <3>3, ChildAppears
    <3>4. CASE Finish(t) \/ AssertionFails(t)
      BY <3>4, <2>a, FinishDeparts
    <3>5. CASE Crash(t)
      BY <3>5, QuietStutters DEF Crash, HasProcessor, LoopAlive
    <3>6. ASSUME NEW duration \in Durations,
                 \/ Sleep(t, duration) \/ SleepUntil(t, duration)
                 \/ SleepUntilOrCancel(t, duration) \/ ScheduleEventWait(t, duration)
                 \/ WaitWithDuration(t, duration)
          PROVE ClockStep
      BY <3>6, <2>a, WaitIsWait
    <3>7. ASSUME NEW u \in Tasks, RequestCancel(t, u) PROVE ClockStep
      BY <3>7, QuietStutters DEF RequestCancel, HasProcessor, LoopAlive
    <3>8. CASE \/ ResumeStart(t) \/ ResumeSleep(t) \/ ResumeEvent(t)
               \/ ResumeGather(t) \/ GatherDone(t)
      BY <3>8, <2>a, ResumeStutters
    <3>9. CASE DeliverCancel(t)
      BY <3>9, <2>a, DeliverCancelInterrupts
    <3> QED
      BY <2>3, <3>1, <3>2, <3>3, <3>4, <3>5, <3>6, <3>7, <3>8, <3>9 DEF TaskStep
  <2>4. ASSUME NEW t \in Tasks, FutureDone(t) PROVE ClockStep
    BY <2>4, QuietStutters DEF FutureDone, LoopAlive
  <2>10. ASSUME NEW t \in Tasks, FutureRaises(t) PROVE ClockStep
    BY <2>10, FutureRaisesAbandons
  <2>5. ASSUME NEW length \in Lengths, Run(length) PROVE ClockStep
    BY <2>5, QuietStutters DEF Run
  <2>6. CASE Advance
    BY <2>6, AdvanceMoves
  <2>7. CASE Drain
    BY <2>7, DrainMoves
  <2>8. CASE EndLoop
    BY <2>8, QuietStutters DEF EndLoop
  <2>9. CASE CancelAll
    BY <2>9, CancelAllHalts
  <2> QED
    BY <2>1, <2>2, <2>3, <2>4, <2>5, <2>6, <2>7, <2>8, <2>9, <2>10
       DEF Next, MainStep, Over
<1> QED
  BY <1>1, <1>2, Invariance, ClockStartsAtZero, PTL DEF Spec, ClockSpec, Clock!Spec

=============================================================================
