-------------------- MODULE SimulationEnvironmentProofs --------------------
(***************************************************************************)
(* The kernel's safety properties, for any number of tasks, any lengths    *)
(* and any durations.                                                      *)
(***************************************************************************)
EXTENDS SimulationEnvironment, FiniteSetTheorems, TLAPS

USE TasksAssumption, TimeAssumption, StraysAssumption

-----------------------------------------------------------------------------
(* Counting.                                                               *)

\* The holders of timer locks are finitely many, whatever the tasks do.
LEMMA HoldersFinite ==
    /\ IsFiniteSet(Holders)
    /\ Cardinality(Holders) \in Nat
<1>1. Holders \in SUBSET Tasks
  BY DEF Holders
<1>2. IsFiniteSet(Holders)
  BY <1>1, FS_Subset
<1> QED
  BY <1>2, FS_CardinalityType

\* A task that stops being counted takes one from the number of holders.
LEMMA HolderLeaves ==
    ASSUME pc \in [Tasks -> PCs], NEW t \in Tasks, NEW state \in PCs,
           pc[t] \in Counted, state \notin Counted,
           pc' = [pc EXCEPT ![t] = state]
    PROVE  Cardinality(Holders') = Cardinality(Holders) - 1
<1>1. Holders' = Holders \ {t}
  BY DEF Holders
<1>2. t \in Holders
  BY DEF Holders
<1> QED
  BY <1>1, <1>2, HoldersFinite, FS_RemoveElement

\* A task that starts being counted adds one.
LEMMA HolderJoins ==
    ASSUME pc \in [Tasks -> PCs], NEW t \in Tasks, NEW state \in PCs,
           pc[t] \notin Counted, state \in Counted,
           pc' = [pc EXCEPT ![t] = state]
    PROVE  Cardinality(Holders') = Cardinality(Holders) + 1
<1>1. Holders' = Holders \cup {t}
  BY DEF Holders
<1>2. t \notin Holders
  BY DEF Holders
<1> QED
  BY <1>1, <1>2, HoldersFinite, FS_AddElement

\* A task that is counted before and after leaves the number as it is.
LEMMA HolderStays ==
    ASSUME pc \in [Tasks -> PCs], NEW t \in Tasks, NEW state \in PCs,
           pc[t] \in Counted, state \in Counted,
           pc' = [pc EXCEPT ![t] = state]
    PROVE  Holders' = Holders
  BY DEF Holders

\* Somebody who holds a timer lock makes the number positive.
LEMMA HolderCounts ==
    ASSUME NEW t \in Tasks, pc[t] \in Counted
    PROVE  Cardinality(Holders) > 0
<1>1. Holders # {}
  BY DEF Holders
<1> QED
  BY <1>1, HoldersFinite, FS_EmptySet

\* So are the sleeps that were left behind.
LEMMA StrayedFinite ==
    /\ IsFiniteSet(Strayed)
    /\ Cardinality(Strayed) \in Nat
<1>1. Strayed \in SUBSET Strays
  BY DEF Strayed
<1>2. IsFiniteSet(Strayed)
  BY <1>1, FS_Subset
<1> QED
  BY <1>2, FS_CardinalityType

\* The events of the strays stay where they are
StrayEventsStay ==
    \A s \in Strays : \A k :
        (k \in DOMAIN wakeups' /\ <<s, s>> \in wakeups'[k])
            <=> (k \in DOMAIN wakeups /\ <<s, s>> \in wakeups[k])

\* A step that leaves the events of the strays where they are leaves the strays as they are.
LEMMA StraysStay ==
    ASSUME StrayEventsStay
    PROVE  /\ Strayed' = Strayed
           /\ StraysSleepOnce => StraysSleepOnce'
<1>1. Strayed' = Strayed
  BY DEF StrayEventsStay, Strayed
<1>2. StraysSleepOnce => StraysSleepOnce'
  BY DEF StrayEventsStay, StraysSleepOnce
<1> QED
  BY <1>1, <1>2

\* No event of a task is the event of a stray: what tasks add and remove leaves them alone.
LEMMA TasksMoveNoStray ==
    ASSUME NEW t \in Tasks,
           \/ UNCHANGED wakeups
           \/ wakeups' = RemoveEvent(wakeups, t)
           \/ \E tick : wakeups' = AddWakeUp(wakeups, tick, <<t, t>>)
    PROVE  StrayEventsStay
<1> SUFFICES ASSUME NEW s \in Strays, NEW k
             PROVE  (k \in DOMAIN wakeups' /\ <<s, s>> \in wakeups'[k])
                        <=> (k \in DOMAIN wakeups /\ <<s, s>> \in wakeups[k])
  BY DEF StrayEventsStay
<1>1. s # t
  OBVIOUS
<1>2. CASE UNCHANGED wakeups
  BY <1>2
<1>3. CASE wakeups' = RemoveEvent(wakeups, t)
  BY <1>1, <1>3 DEF RemoveEvent
<1>4. ASSUME NEW tick, wakeups' = AddWakeUp(wakeups, tick, <<t, t>>)
      PROVE  (k \in DOMAIN wakeups' /\ <<s, s>> \in wakeups'[k])
                 <=> (k \in DOMAIN wakeups /\ <<s, s>> \in wakeups[k])
  <2>1. DOMAIN wakeups' = DOMAIN wakeups \cup {tick}
    BY <1>4 DEF AddWakeUp
  <2>2. k \in DOMAIN wakeups' =>
          wakeups'[k] = (IF k \in DOMAIN wakeups THEN wakeups[k] ELSE {})
                          \cup (IF k = tick THEN {<<t, t>>} ELSE {})
    BY <1>4 DEF AddWakeUp
  <2>3. <<s, s>> # <<t, t>>
    BY <1>1
  <2> QED
    BY <2>1, <2>2, <2>3
<1> QED
  BY <1>2, <1>3, <1>4

\* So the strays stay as they are.
LEMMA TasksLeaveStraysAlone ==
    ASSUME NEW t \in Tasks,
           \/ UNCHANGED wakeups
           \/ wakeups' = RemoveEvent(wakeups, t)
           \/ \E tick : wakeups' = AddWakeUp(wakeups, tick, <<t, t>>)
    PROVE  /\ Strayed' = Strayed
           /\ StraysSleepOnce => StraysSleepOnce'
  BY TasksMoveNoStray, StraysStay

-----------------------------------------------------------------------------
(* What the two ways of leaving and getting the processor do to the        *)
(* invariant.                                                              *)

\* The parts of the invariant that say where the tasks are
Places ==
    /\ ParentWaitsForChild
    /\ main # "returned" => \A t \in Tasks : pc[t] # "cancelled"
    /\ DrainStrandsNobody

\* The parts that are about sleeps left behind and the count they lack
StraysInOrder ==
    /\ StraysSleepOnce
    /\ timer_locks < 0 => main \in {"broken", "exit"}

\* A task that runs and suspends itself on an event of its own, due now or later, leaves the
\* invariant intact.
LEMMA ParkKeepsIInv ==
    ASSUME IInv, LoopAlive,
           NEW t \in Tasks, pc[t] \in {"active", "created"},
           NEW call \in Ops, NEW tick \in Nat, current_tick <= tick,
           Park(t, call, tick),
           UNCHANGED clientVars
    PROVE  IInv'
<1> USE DEF Park, ParkWith
<1>a. /\ main # "returned" /\ main # "drained" /\ main' = main
      /\ pc \in [Tasks -> PCs] /\ pc[t] \in Counted
      /\ pc' = [pc EXCEPT ![t] = "asleep"]
  BY DEF IInv, TypeOK, LoopAlive, Counted
<1>1. Cardinality(Holders') = Cardinality(Holders) - 1
  <2>1. "asleep" \in PCs /\ "asleep" \notin Counted
    BY DEF PCs, Counted
  <2> QED
    BY <1>a, <2>1, HolderLeaves
<1>b. Strayed' = Strayed /\ StraysInOrder'
  BY TasksLeaveStraysAlone DEF IInv, TypeOK, StraysInOrder
<1>2. LockCount'
  BY <1>a, <1>b, <1>1, HoldersFinite, StrayedFinite DEF IInv, TypeOK, LockCount
<1>3. TypeOK'
  <2>1. timer_locks' \in Int
    BY DEF IInv, TypeOK
  <2>2. DOMAIN wakeups' \subseteq Nat /\ wakeups' \in [DOMAIN wakeups' -> SUBSET WakeUps]
    BY DEF IInv, TypeOK, AddWakeUp, WakeUps
  <2>3. pc' \in [Tasks -> PCs]
    BY DEF IInv, TypeOK, PCs
  <2> QED
    BY <2>1, <2>2, <2>3 DEF IInv, TypeOK, clientVars
<1>4. WakeUpsMatchSleepers'
  <2> DEFINE Old(k) == IF k \in DOMAIN wakeups THEN wakeups[k] ELSE {}
  <2>1. DOMAIN wakeups' = DOMAIN wakeups \cup {tick}
    BY DEF AddWakeUp
  <2>2. \A k \in DOMAIN wakeups' :
            wakeups'[k] = Old(k) \cup (IF k = tick THEN {<<t, t>>} ELSE {})
    BY DEF AddWakeUp
  <2>3. ASSUME NEW k \in Nat, NEW u \in Tasks, NEW v \in Tasks
        PROVE  <<u, v>> \in Old(k) <=> u = v /\ pc[u] = "asleep" /\ due[u] = k
    <3>1. CASE k \in DOMAIN wakeups
      BY <1>a, <3>1 DEF IInv, WakeUpsMatchSleepers
    <3>2. CASE k \notin DOMAIN wakeups
      BY <1>a, <3>2 DEF IInv, WakeUpsMatchSleepers
    <3> QED
      BY <3>1, <3>2
  <2>4. pc[t] # "asleep" /\ due \in [Tasks -> Nat] /\ DOMAIN wakeups' \subseteq Nat
    BY <1>3 DEF IInv, TypeOK
  <2> HIDE DEF Old
  <2>5. ASSUME NEW k \in DOMAIN wakeups', NEW u \in Tasks, NEW v \in Tasks
        PROVE  <<u, v>> \in wakeups'[k] <=> u = v /\ pc'[u] = "asleep" /\ due'[u] = k
    <3>1. <<u, v>> \in wakeups'[k]
            <=> <<u, v>> \in Old(k) \/ (k = tick /\ u = t /\ v = t)
      BY <2>2
    <3>2. <<u, v>> \in Old(k) <=> u = v /\ pc[u] = "asleep" /\ due[u] = k
      BY <2>3, <2>4
    <3> QED
      BY <1>a, <3>1, <3>2, <2>4
  <2>6. \A k \in DOMAIN wakeups' : current_tick' <= k
    BY <1>a, <2>1 DEF IInv, WakeUpsMatchSleepers
  <2>7. \A u \in Tasks : pc'[u] = "asleep" => due'[u] \in DOMAIN wakeups'
    BY <1>a, <2>1, <2>4 DEF IInv, WakeUpsMatchSleepers
  <2> QED
    BY <2>5, <2>6, <2>7 DEF WakeUpsMatchSleepers
<1>5. Places'
  BY <1>a DEF IInv, Places, ParentWaitsForChild, DrainStrandsNobody, TypeOK, clientVars
<1> QED
  BY <1>b, <1>2, <1>3, <1>4, <1>5 DEF IInv, Places, StraysInOrder

\* A task that is counted and moves on to another counted state, while nothing or only
\* wake-ups of its own are dropped from the queue, leaves the invariant intact.
LEMMA MovingOnKeepsIInv ==
    ASSUME IInv, LoopAlive,
           NEW t \in Tasks, pc[t] \in Counted \ {"spawning"},
           NEW state \in {"active", "slept", "dead"},
           pc' = [pc EXCEPT ![t] = state],
           op' \in [Tasks -> Ops], due' \in [Tasks -> Nat],
           \A u \in Tasks : u # t => due'[u] = due[u],
           wakeups' = wakeups \/ wakeups' = RemoveEvent(wakeups, t),
           future' \in [Tasks -> BOOLEAN],
           UNCHANGED <<current_tick, simulation_length, timer_locks, main, cancel, parent>>
    PROVE  IInv'
<1>a. /\ main # "returned" /\ main # "drained"
      /\ pc \in [Tasks -> PCs] /\ state \in PCs /\ state \in Counted
      /\ pc[t] # "asleep" /\ state # "asleep"
  BY DEF IInv, TypeOK, LoopAlive, Counted, PCs
<1>1. Holders' = Holders
  BY <1>a, HolderStays
<1>b. Strayed' = Strayed /\ StraysInOrder'
  BY TasksLeaveStraysAlone DEF IInv, StraysInOrder
<1>2. LockCount'
  BY <1>1, <1>b DEF IInv, LockCount
<1>3. /\ DOMAIN wakeups' = DOMAIN wakeups
      /\ wakeups' \in [DOMAIN wakeups' -> SUBSET WakeUps]
      /\ \A k \in DOMAIN wakeups : \A u, v \in Tasks :
            <<u, v>> \in wakeups'[k] <=> <<u, v>> \in wakeups[k]
  <2>1. CASE wakeups' = wakeups
    BY <2>1 DEF IInv, TypeOK
  <2>2. CASE wakeups' = RemoveEvent(wakeups, t)
    <3>1. \A k \in DOMAIN wakeups : \A v \in Tasks : <<t, v>> \notin wakeups[k]
      BY <1>a DEF IInv, WakeUpsMatchSleepers
    <3>2. /\ DOMAIN wakeups' = DOMAIN wakeups
          /\ \A k \in DOMAIN wakeups : wakeups'[k] = {w \in wakeups[k] : w[1] # t}
      BY <2>2 DEF RemoveEvent
    <3>3. wakeups' \in [DOMAIN wakeups -> SUBSET WakeUps]
      BY <2>2 DEF RemoveEvent, IInv, TypeOK
    <3>4. \A k \in DOMAIN wakeups : \A u, v \in Tasks :
            <<u, v>> \in wakeups'[k] <=> <<u, v>> \in wakeups[k]
      BY <3>1, <3>2
    <3> QED
      BY <3>2, <3>3, <3>4
  <2> QED
    BY <2>1, <2>2
<1>4. TypeOK'
  BY <1>a, <1>3 DEF IInv, TypeOK
<1>5. WakeUpsMatchSleepers'
  BY <1>a, <1>3 DEF IInv, WakeUpsMatchSleepers
<1>6. Places'
  BY <1>a DEF IInv, Places, ParentWaitsForChild, DrainStrandsNobody, TypeOK, Counted
<1> QED
  BY <1>b, <1>2, <1>4, <1>5, <1>6 DEF IInv, Places, StraysInOrder

\* The ticks that waits ask for are now or later, also when they are clamped to the length.
LEMMA WakeUpTimes ==
    ASSUME TypeOK, MayCall \/ current_tick = 0, NEW duration \in Nat
    PROVE  /\ Clamp(current_tick + duration) \in Nat
           /\ current_tick <= Clamp(current_tick + duration)
           /\ simulation_length # 0 => current_tick <= simulation_length
  BY DEF TypeOK, MayCall, is_running, Clamp

-----------------------------------------------------------------------------
(* Each action preserves the invariant.                                    *)

\* Creating a root task, before the clock exists, adds one count and one holder.
LEMMA CreateTaskKeepsIInv ==
    ASSUME IInv, NEW t \in Tasks, CreateTask(t)
    PROVE  IInv'
<1> USE DEF CreateTask
<1>a. /\ main = "setup" /\ main' = main
      /\ pc \in [Tasks -> PCs] /\ "created" \in PCs
      /\ pc[t] \notin Counted /\ "created" \in Counted
  BY DEF IInv, TypeOK, Counted, PCs
<1>1. Cardinality(Holders') = Cardinality(Holders) + 1
  BY <1>a, HolderJoins
<1>b. Strayed' = Strayed /\ StraysInOrder'
  BY TasksLeaveStraysAlone DEF IInv, TypeOK, StraysInOrder
<1>2. LockCount'
  BY <1>a, <1>b, <1>1, HoldersFinite, StrayedFinite DEF IInv, TypeOK, LockCount
<1>3. TypeOK'
  BY <1>a DEF IInv, TypeOK, clientVars
<1>4. WakeUpsMatchSleepers'
  BY <1>a DEF IInv, TypeOK, WakeUpsMatchSleepers
<1>5. Places'
  BY <1>a DEF IInv, TypeOK, Places, ParentWaitsForChild, DrainStrandsNobody, clientVars
<1> QED
  BY <1>b, <1>2, <1>3, <1>4, <1>5 DEF IInv, Places, StraysInOrder

\* start_child_task changes no count: the parent keeps its own and the child has none yet.
LEMMA StartChildTaskKeepsIInv ==
    ASSUME IInv, NEW t \in Tasks, NEW child \in Tasks, StartChildTask(t, child)
    PROVE  IInv'
<1> USE DEF StartChildTask, HasProcessor
<1>a. /\ main # "returned" /\ main # "drained" /\ main' = main
      /\ pc \in [Tasks -> PCs] /\ parent \in [Tasks -> Tasks]
      /\ pc' = [pc EXCEPT ![t] = "spawning", ![child] = "starting"]
      /\ pc[t] = "active" /\ pc[child] = "absent" /\ t # child
  BY DEF IInv, TypeOK, LoopAlive
<1>1. Holders' = Holders
  BY <1>a DEF Holders, Counted
<1>b. Strayed' = Strayed /\ StraysInOrder'
  BY TasksLeaveStraysAlone DEF IInv, StraysInOrder
<1>2. LockCount'
  BY <1>a, <1>b, <1>1 DEF IInv, LockCount
<1>3. TypeOK'
  BY <1>a DEF IInv, TypeOK, PCs
<1>4. WakeUpsMatchSleepers'
  BY <1>a DEF IInv, WakeUpsMatchSleepers
<1>5. ParentWaitsForChild'
  BY <1>a DEF IInv, ParentWaitsForChild
<1>6. Places'
  BY <1>a, <1>5 DEF IInv, Places, DrainStrandsNobody
<1> QED
  BY <1>b, <1>2, <1>3, <1>4, <1>6 DEF IInv, Places, StraysInOrder

\* The child takes its count and the parent, who waits for this child only, moves on.
LEMMA ChildStartsKeepsIInv ==
    ASSUME IInv, NEW child \in Tasks, ChildStarts(child)
    PROVE  IInv'
<1> USE DEF ChildStarts
<1> DEFINE t == parent[child]
<1>a. /\ main # "returned" /\ main # "drained" /\ main' = main
      /\ pc \in [Tasks -> PCs] /\ parent \in [Tasks -> Tasks]
      /\ t \in Tasks
      /\ pc' = [pc EXCEPT ![child] = "active", ![t] = "active"]
      /\ pc[child] = "starting" /\ pc[t] = "spawning" /\ t # child
  BY DEF IInv, TypeOK, LoopAlive, ParentWaitsForChild
<1> HIDE DEF t
<1>1. Cardinality(Holders') = Cardinality(Holders) + 1
  <2>1. Holders' = Holders \cup {child} /\ child \notin Holders
    BY <1>a DEF Holders, Counted
  <2> QED
    BY <2>1, HoldersFinite, FS_AddElement
<1>b. Strayed' = Strayed /\ StraysInOrder'
  BY TasksLeaveStraysAlone DEF IInv, TypeOK, StraysInOrder
<1>2. LockCount'
  BY <1>a, <1>b, <1>1, HoldersFinite, StrayedFinite DEF IInv, TypeOK, LockCount
<1>3. TypeOK'
  BY <1>a DEF IInv, TypeOK, PCs
<1>4. WakeUpsMatchSleepers'
  BY <1>a DEF IInv, WakeUpsMatchSleepers
<1>5. ParentWaitsForChild'
  BY <1>a DEF IInv, ParentWaitsForChild, t
<1>6. Places'
  BY <1>a, <1>5 DEF IInv, Places, DrainStrandsNobody
<1> QED
  BY <1>b, <1>2, <1>3, <1>4, <1>6 DEF IInv, Places, StraysInOrder

\* A task that ends gives its count back, or breaks the lock when it has none.
LEMMA FinishKeepsIInv ==
    ASSUME IInv, NEW t \in Tasks, Finish(t) \/ AssertionFails(t)
    PROVE  IInv'
<1> USE DEF Finish, AssertionFails, HasProcessor
<1>a. /\ main # "returned" /\ main # "drained"
      /\ main' \in {main, "broken", "exit"} /\ main' \in Mains
      /\ pc' = [pc EXCEPT ![t] = "done"] /\ timer_locks' = timer_locks - 1
      /\ pc \in [Tasks -> PCs] /\ "done" \in PCs
      /\ pc[t] = "active" /\ pc[t] \in Counted /\ "done" \notin Counted
  BY DEF IInv, TypeOK, LoopAlive, PCs, Counted, Mains
<1>1. Cardinality(Holders') = Cardinality(Holders) - 1
  BY <1>a, HolderLeaves
<1>b. Strayed' = Strayed /\ StraysInOrder'
  <2>1. CASE Finish(t)
    BY <2>1, TasksLeaveStraysAlone DEF IInv, TypeOK, StraysInOrder
  <2>2. CASE AssertionFails(t)
    BY <2>2, TasksLeaveStraysAlone DEF IInv, TypeOK, StraysInOrder
  <2> QED
    BY <2>1, <2>2
<1>2. LockCount'
  BY <1>a, <1>b, <1>1, HoldersFinite, StrayedFinite DEF IInv, TypeOK, LockCount
<1>4. TypeOK'
  BY <1>a DEF IInv, TypeOK, clientVars
<1>5. WakeUpsMatchSleepers'
  BY <1>a DEF IInv, WakeUpsMatchSleepers
<1>6. Places'
  BY <1>a DEF IInv, TypeOK, Places, ParentWaitsForChild, DrainStrandsNobody, clientVars
<1> QED
  BY <1>b, <1>2, <1>4, <1>5, <1>6 DEF IInv, Places, StraysInOrder

\* The handler in sleep_until gives a cancelled sleeper its count back exactly when the main
\* loop did not.
LEMMA DeliverCancelKeepsIInv ==
    ASSUME IInv, NEW t \in Tasks, DeliverCancel(t)
    PROVE  IInv'
<1> USE DEF DeliverCancel, Proceed
<1>a. /\ main # "returned" /\ main # "drained" /\ main' = main /\ LoopAlive
      /\ pc \in [Tasks -> PCs] /\ pc' = [pc EXCEPT ![t] = "active"]
      /\ "active" \in PCs /\ "active" \in Counted
      /\ op' \in [Tasks -> Ops] /\ due' \in [Tasks -> Nat]
      /\ \A u \in Tasks : u # t => due'[u] = due[u]
  BY DEF IInv, TypeOK, LoopAlive, PCs, Ops, Counted
<1>1. CASE pc[t] = "woken"
  <2>1. UNCHANGED <<wakeups, timer_locks>>
    BY <1>1
  <2> QED
    BY <1>a, <1>1, <2>1, MovingOnKeepsIInv DEF Counted, IInv, TypeOK, clientVars
<1>2. CASE pc[t] = "asleep"
  <2>0. wakeups' = RemoveEvent(wakeups, t) /\ timer_locks' = timer_locks + 1
    BY <1>2
  <2>1. Cardinality(Holders') = Cardinality(Holders) + 1
    <3>1. pc[t] \notin Counted
      BY <1>2 DEF Counted
    <3> QED
      BY <1>a, <3>1, HolderJoins
  <2>a. Strayed' = Strayed /\ StraysSleepOnce'
    BY <2>0, TasksLeaveStraysAlone DEF IInv
  <2>b. Strayed' = Strayed /\ StraysInOrder'
    BY <1>a, <2>a, <2>0 DEF IInv, TypeOK, StraysInOrder, LoopAlive
  <2>2. LockCount'
    BY <1>a, <2>0, <2>b, <2>1, HoldersFinite, StrayedFinite DEF IInv, TypeOK, LockCount
  <2>3. /\ DOMAIN wakeups' = DOMAIN wakeups
        /\ \A k \in DOMAIN wakeups : wakeups'[k] = {w \in wakeups[k] : w[1] # t}
    BY <2>0 DEF RemoveEvent
  <2>4. wakeups' \in [DOMAIN wakeups -> SUBSET WakeUps]
    BY <2>0 DEF RemoveEvent, IInv, TypeOK
  <2>5. TypeOK'
    BY <1>a, <2>0, <2>3, <2>4 DEF IInv, TypeOK, clientVars
  <2>6. WakeUpsMatchSleepers'
    <3>1. ASSUME NEW k \in DOMAIN wakeups, NEW u \in Tasks, NEW v \in Tasks
          PROVE  <<u, v>> \in wakeups'[k] <=> u = v /\ pc'[u] = "asleep" /\ due'[u] = k
      <4>1. <<u, v>> \in wakeups'[k] <=> <<u, v>> \in wakeups[k] /\ u # t
        BY <2>3
      <4>2. <<u, v>> \in wakeups[k] <=> u = v /\ pc[u] = "asleep" /\ due[u] = k
        BY <1>a DEF IInv, WakeUpsMatchSleepers
      <4> QED
        BY <1>a, <4>1, <4>2
    <3> QED
      BY <1>a, <2>3, <3>1 DEF IInv, WakeUpsMatchSleepers
  <2>7. Places'
    BY <1>a, <1>2
       DEF IInv, TypeOK, Places, ParentWaitsForChild, DrainStrandsNobody, clientVars
  <2> QED
    BY <2>b, <2>2, <2>5, <2>6, <2>7 DEF IInv, Places, StraysInOrder
<1> QED
  BY <1>1, <1>2

\* The pair of a name with itself, for the names of a set
LEMMA OneEventEach ==
    ASSUME NEW S, IsFiniteSet(S)
    PROVE  /\ IsFiniteSet({<<x, x>> : x \in S})
           /\ Cardinality({<<x, x>> : x \in S}) = Cardinality(S)
<1> DEFINE E == {<<x, x>> : x \in S}
           f == [x \in S |-> <<x, x>>]
<1>1. f \in Bijection(S, E)
  BY DEF Bijection, Injection, Surjection, IsInjective
<1>2. ExistsBijection(S, E)
  BY <1>1 DEF ExistsBijection
<1> HIDE DEF E
<1>3. IsFiniteSet(E) /\ Cardinality(E) = Cardinality(S)
  BY <1>2, FS_Bijection
<1> QED
  BY <1>3 DEF E

\* When the clock moves, as many tasks run as sleeps were left behind; the tasks it wakes and
\* the strays it takes off the queue are as many as the events it sets, because every event
\* of the entry belongs to a different sleeper or stray.
LEMMA AdvanceKeepsIInv ==
    ASSUME IInv, Advance
    PROVE  IInv'
<1>a. /\ main = "looping" /\ main' = main /\ timer_locks = 0
      /\ UNCHANGED <<simulation_length, op, due, clientVars>>
      /\ pc \in [Tasks -> PCs] /\ due \in [Tasks -> Nat]
  BY DEF IInv, TypeOK, Advance
<1>b. PICK tick \in DOMAIN wakeups :
        /\ IsNextTick(tick)
        /\ current_tick' = tick
        /\ wakeups' = [k \in DOMAIN wakeups \ {tick} |-> wakeups[k]]
        /\ timer_locks' = timer_locks + Cardinality(wakeups[tick])
        /\ pc' = [t \in Tasks |->
                    IF pc[t] = "asleep" /\ \E w \in wakeups[tick] : w[1] = t
                      THEN "woken" ELSE pc[t]]
  BY DEF Advance
<1>c. tick \in Nat /\ wakeups[tick] \in SUBSET WakeUps
  BY DEF IInv, TypeOK
<1>1. \A u, v \in Tasks :
        <<u, v>> \in wakeups[tick] <=> u = v /\ pc[u] = "asleep" /\ due[u] = tick
  BY <1>a DEF IInv, WakeUpsMatchSleepers
<1>2. \A t \in Tasks : (\E w \in wakeups[tick] : w[1] = t) <=> pc[t] = "asleep" /\ due[t] = tick
  <2>1. ASSUME NEW t \in Tasks, NEW w \in wakeups[tick], w[1] = t
        PROVE  pc[t] = "asleep" /\ due[t] = tick
    <3>1. w \in Tasks \X Tasks
      BY <1>c, <2>1 DEF WakeUps
    <3>2. w[2] \in Tasks /\ w = <<t, w[2]>>
      BY <2>1, <3>1
    <3> QED
      BY <1>1, <3>2
  <2>2. ASSUME NEW t \in Tasks, pc[t] = "asleep" /\ due[t] = tick
        PROVE  <<t, t>> \in wakeups[tick] /\ <<t, t>>[1] = t
    BY <1>1, <2>2
  <2> QED
    BY <2>1, <2>2
<1>3. pc' = [t \in Tasks |-> IF pc[t] = "asleep" /\ due[t] = tick THEN "woken" ELSE pc[t]]
  BY <1>b, <1>2
<1> DEFINE S == {t \in Tasks : pc[t] = "asleep" /\ due[t] = tick}
           Z == {s \in Strays : <<s, s>> \in wakeups[tick]}
<1>4. Holders' = Holders \cup S /\ Holders \cap S = {}
  BY <1>3, <1>a DEF Holders, Counted
<1>5. Strayed' = Strayed \ Z /\ Z \subseteq Strayed /\ StraysSleepOnce'
  <2>1. DOMAIN wakeups' = DOMAIN wakeups \ {tick}
    BY <1>b
  <2>2. \A k \in DOMAIN wakeups' : wakeups'[k] = wakeups[k]
    BY <1>b
  <2>3. \A s \in Strays, k \in DOMAIN wakeups :
            <<s, s>> \in wakeups[k] /\ <<s, s>> \in wakeups[tick] => k = tick
    BY DEF IInv, StraysSleepOnce
  <2>4. Strayed' = Strayed \ Z
    BY <2>1, <2>2, <2>3 DEF Strayed
  <2>5. Z \subseteq Strayed
    BY DEF Strayed
  <2>6. StraysSleepOnce'
    BY <2>1, <2>2 DEF IInv, StraysSleepOnce
  <2> QED
    BY <2>4, <2>5, <2>6
<1>f. /\ IsFiniteSet(S) /\ IsFiniteSet(Z)
      /\ Cardinality(S) \in Nat /\ Cardinality(Z) \in Nat
  <2>1. S \in SUBSET Tasks /\ Z \in SUBSET Strays
    OBVIOUS
  <2> HIDE DEF S, Z
  <2> QED
    BY <2>1, FS_Subset, FS_CardinalityType
<1>6. Cardinality(wakeups[tick]) = Cardinality(S) + Cardinality(Z)
  <2>1. wakeups[tick] = {<<x, x>> : x \in S \cup Z}
    <3>1. \A x \in S \cup Z : <<x, x>> \in wakeups[tick]
      BY <1>1
    <3>2. ASSUME NEW w \in wakeups[tick] PROVE \E x \in S \cup Z : w = <<x, x>>
      <4>1. CASE w \in Tasks \X Tasks
        <5>1. w[1] \in Tasks /\ w[2] \in Tasks /\ w = <<w[1], w[2]>>
          BY <4>1
        <5>2. w[1] = w[2] /\ w[1] \in S
          BY <1>1, <5>1
        <5> QED
          BY <5>1, <5>2
      <4>2. CASE w \in {<<s, s>> : s \in Strays}
        BY <4>2
      <4> QED
        BY <1>c, <4>1, <4>2 DEF WakeUps
    <3> HIDE DEF S, Z
    <3> QED
      BY <3>1, <3>2
  <2>2. S \cap Z = {}
    OBVIOUS
  <2> HIDE DEF S, Z
  <2>3. IsFiniteSet(S \cup Z) /\ Cardinality(S \cup Z) = Cardinality(S) + Cardinality(Z)
    <3>1. S \cap Z = {} /\ Cardinality(S \cap Z) = 0
      BY <2>2, FS_EmptySet
    <3>2. /\ IsFiniteSet(S \cup Z)
          /\ Cardinality(S \cup Z)
                = Cardinality(S) + Cardinality(Z) - Cardinality(S \cap Z)
      BY <1>f, FS_Union
    <3> QED
      BY <1>f, <3>1, <3>2
  <2> QED
    BY <2>1, <2>3, OneEventEach
<1>7. LockCount' /\ timer_locks' \in Int /\ timer_locks' >= 0
  <2>1. Cardinality(Holders') = Cardinality(Holders) + Cardinality(S)
    <3>1. Holders \cap S = {} /\ Cardinality(Holders \cap S) = 0
      BY <1>4, FS_EmptySet
    <3> HIDE DEF S
    <3>2. Cardinality(Holders \cup S) = Cardinality(Holders) + Cardinality(S)
      BY <1>f, <3>1, HoldersFinite, FS_Union
    <3> QED
      BY <1>4, <3>2
  <2>2. Cardinality(Strayed') = Cardinality(Strayed) - Cardinality(Z)
    <3>1. Strayed \cap Z = Z
      BY <1>5
    <3> HIDE DEF Z
    <3>2. Cardinality(Strayed \ Z) = Cardinality(Strayed) - Cardinality(Strayed \cap Z)
      BY <1>f, StrayedFinite, FS_Difference
    <3> QED
      BY <1>5, <3>1, <3>2
  <2>3. Cardinality(Strayed) = Cardinality(Holders)
    BY <1>a, HoldersFinite, StrayedFinite DEF IInv, LockCount
  <2> HIDE DEF S, Z
  <2>4. timer_locks' = Cardinality(S) + Cardinality(Z)
    BY <1>a, <1>b, <1>f, <1>6
  <2> QED
    BY <1>f, <2>1, <2>2, <2>3, <2>4, HoldersFinite, StrayedFinite DEF LockCount
<1>8. TypeOK'
  <2>1. pc' \in [Tasks -> PCs]
    BY <1>a, <1>3 DEF PCs
  <2>2. DOMAIN wakeups' \subseteq Nat /\ wakeups' \in [DOMAIN wakeups' -> SUBSET WakeUps]
    BY <1>b DEF IInv, TypeOK
  <2> QED
    BY <1>a, <1>b, <1>c, <1>7, <2>1, <2>2 DEF IInv, TypeOK, clientVars
<1>9. WakeUpsMatchSleepers'
  <2>1. DOMAIN wakeups' = DOMAIN wakeups \ {tick}
    BY <1>b
  <2>2. \A k \in DOMAIN wakeups' : wakeups'[k] = wakeups[k] /\ k # tick /\ tick <= k
    BY <1>b DEF IsNextTick
  <2>3. ASSUME NEW k \in DOMAIN wakeups', NEW u \in Tasks, NEW v \in Tasks
        PROVE  <<u, v>> \in wakeups'[k] <=> u = v /\ pc'[u] = "asleep" /\ due'[u] = k
    <3>1. <<u, v>> \in wakeups'[k] <=> u = v /\ pc[u] = "asleep" /\ due[u] = k
      BY <1>a, <2>1, <2>2 DEF IInv, WakeUpsMatchSleepers
    <3>2. pc[u] = "asleep" /\ due[u] = k <=> pc'[u] = "asleep" /\ due'[u] = k
      BY <1>a, <1>3, <2>2
    <3> QED
      BY <3>1, <3>2
  <2>4. \A u \in Tasks : pc'[u] = "asleep" => due'[u] \in DOMAIN wakeups'
    BY <1>a, <1>3, <2>1 DEF IInv, WakeUpsMatchSleepers
  <2> QED
    BY <1>b, <2>2, <2>3, <2>4 DEF WakeUpsMatchSleepers
<1>10. Places'
  <2>1. \A t \in Tasks : \A state \in {"starting", "spawning", "cancelled"} :
            pc'[t] = state <=> pc[t] = state
    BY <1>3
  <2>2. parent' = parent /\ parent \in [Tasks -> Tasks]
    BY <1>a DEF clientVars, IInv, TypeOK
  <2>3. ParentWaitsForChild'
    BY <1>a, <2>1, <2>2 DEF IInv, ParentWaitsForChild
  <2> QED
    BY <1>a, <2>1, <2>3 DEF IInv, Places, DrainStrandsNobody
<1> QED
  BY <1>5, <1>7, <1>8, <1>9, <1>10 DEF IInv, Places

\* When the loop finds neither a count nor a wake-up, every task is done or was never made.
LEMMA DrainKeepsIInv ==
    ASSUME IInv, Drain
    PROVE  IInv'
<1> USE DEF Drain
<1>0. Strayed = {} /\ Strayed' = Strayed
  BY DEF Strayed
<1>1. Holders = {}
  <2>1. Cardinality(Strayed) = 0
    BY <1>0, FS_EmptySet
  <2>2. Cardinality(Holders) = 0
    BY <2>1, HoldersFinite DEF IInv, LockCount
  <2> QED
    BY <2>2, HoldersFinite, FS_EmptySet
<1>2. \A t \in Tasks : pc[t] \notin Counted
  BY <1>1 DEF Holders
<1>3. \A t \in Tasks : pc[t] # "asleep"
  BY DEF IInv, WakeUpsMatchSleepers
<1>4. \A t \in Tasks : pc[t] # "starting"
  BY <1>2 DEF IInv, TypeOK, ParentWaitsForChild, Counted
<1>5. \A t \in Tasks : pc[t] \in {"absent", "done"}
  BY <1>2, <1>3, <1>4 DEF IInv, TypeOK, PCs, Counted
<1>6. Holders' = Holders
  BY DEF Holders
<1>7. TypeOK'
  BY DEF IInv, TypeOK, Mains, clientVars
<1>8. LockCount' /\ WakeUpsMatchSleepers'
  BY <1>0, <1>3, <1>6 DEF IInv, LockCount, WakeUpsMatchSleepers
<1>9. Places' /\ StraysInOrder'
  BY <1>5 DEF IInv, Places, ParentWaitsForChild, DrainStrandsNobody, StraysInOrder,
              StraysSleepOnce
<1> QED
  BY <1>7, <1>8, <1>9 DEF IInv, Places, StraysInOrder

\* A step that leaves tasks, queue and counter alone, or is the end of the run, does no harm.
LEMMA QuietStepKeepsIInv ==
    ASSUME IInv,
           UNCHANGED <<current_tick, timer_locks, wakeups, pc, op, due, parent>>,
           simulation_length' \in Nat,
           cancel' \in [Tasks -> BOOLEAN], future' \in [Tasks -> BOOLEAN],
           main' \in {main, "looping", "ended", "exit"},
           main' # main => main \in {"setup", "looping", "ended"}
    PROVE  IInv'
<1>1. Holders' = Holders /\ Strayed' = Strayed
  BY DEF Holders, Strayed
<1> QED
  BY <1>1 DEF IInv, TypeOK, Mains, LockCount, WakeUpsMatchSleepers, ParentWaitsForChild,
              DrainStrandsNobody, StraysSleepOnce

\* At the end of the run the tasks that are not done become cancelled, nothing more.
LEMMA CancelAllKeepsIInv ==
    ASSUME IInv, CancelAll
    PROVE  IInv'
  BY DEF IInv, CancelAll, TypeOK, Mains, PCs, LockCount, WakeUpsMatchSleepers,
         ParentWaitsForChild, DrainStrandsNobody, clientVars, StraysSleepOnce

\* A future that raises brings its waiter back: with its count, if its sleep is over, or
\* with one stray more in the queue instead.
LEMMA FutureRaisesKeepsIInv ==
    ASSUME IInv, NEW t \in Tasks, FutureRaises(t)
    PROVE  IInv'
<1> USE DEF FutureRaises, Proceed
<1>a. /\ main # "returned" /\ main # "drained" /\ main' = main /\ LoopAlive
      /\ pc \in [Tasks -> PCs] /\ pc' = [pc EXCEPT ![t] = "active"]
      /\ "active" \in PCs /\ "active" \in Counted
      /\ op' \in [Tasks -> Ops] /\ due' \in [Tasks -> Nat]
      /\ \A u \in Tasks : u # t => due'[u] = due[u]
  BY DEF IInv, TypeOK, LoopAlive, PCs, Ops, Counted
<1>1. CASE pc[t] \in {"woken", "slept"}
  <2>1. UNCHANGED wakeups
    BY <1>1
  <2> QED
    BY <1>a, <1>1, <2>1, MovingOnKeepsIInv DEF Counted, IInv, TypeOK, clientVars
<1>2. CASE pc[t] = "asleep"
  <2> DEFINE d == due[t]
  <2>0. PICK s \in Strays \ Strayed :
            wakeups' = [wakeups EXCEPT ![d] = (wakeups[d] \ {<<t, t>>}) \cup {<<s, s>>}]
    BY <1>2
  <2>1. d \in DOMAIN wakeups /\ d \in Nat
    BY <1>a, <1>2 DEF IInv, WakeUpsMatchSleepers, TypeOK
  <2> HIDE DEF d
  <2>2. /\ DOMAIN wakeups' = DOMAIN wakeups
        /\ \A k \in DOMAIN wakeups :
              wakeups'[k] = IF k = d THEN (wakeups[d] \ {<<t, t>>}) \cup {<<s, s>>}
                                     ELSE wakeups[k]
    BY <2>0, <2>1 DEF IInv, TypeOK
  <2>3. s \in Strays /\ s \notin Tasks /\ \A k \in DOMAIN wakeups : <<s, s>> \notin wakeups[k]
    BY <2>0 DEF Strayed
  <2>4. ASSUME NEW z \in Strays, NEW k \in DOMAIN wakeups
        PROVE  <<z, z>> \in wakeups'[k] <=> <<z, z>> \in wakeups[k] \/ (z = s /\ k = d)
    <3>1. z # t
      OBVIOUS
    <3> QED
      BY <2>2, <3>1
  <2>5. Strayed' = Strayed \cup {s}
    BY <2>1, <2>2, <2>3, <2>4 DEF Strayed
  <2>6. StraysSleepOnce'
    BY <2>1, <2>2, <2>3, <2>4 DEF IInv, StraysSleepOnce
  <2>7. Cardinality(Strayed') = Cardinality(Strayed) + 1
    BY <2>0, <2>5, StrayedFinite, FS_AddElement
  <2>8. Cardinality(Holders') = Cardinality(Holders) + 1
    <3>1. pc[t] \notin Counted
      BY <1>2 DEF Counted
    <3> QED
      BY <1>a, <3>1, HolderJoins
  <2>9. LockCount'
    BY <1>a, <2>7, <2>8, HoldersFinite, StrayedFinite DEF IInv, TypeOK, LockCount
  <2>10. wakeups' \in [DOMAIN wakeups -> SUBSET WakeUps]
    <3>1. \A k \in DOMAIN wakeups : wakeups'[k] \in SUBSET WakeUps
      BY <2>1, <2>2, <2>3 DEF IInv, TypeOK, WakeUps
    <3> QED
      BY <2>0, <2>2, <3>1 DEF IInv, TypeOK
  <2>11. TypeOK'
    BY <1>a, <2>2, <2>10 DEF IInv, TypeOK, clientVars
  <2>12. WakeUpsMatchSleepers'
    <3>1. ASSUME NEW k \in DOMAIN wakeups, NEW u \in Tasks, NEW v \in Tasks
          PROVE  <<u, v>> \in wakeups'[k] <=> u = v /\ pc'[u] = "asleep" /\ due'[u] = k
      <4>1. <<u, v>> \in wakeups'[k] <=> <<u, v>> \in wakeups[k] /\ ~(u = t /\ v = t /\ k = d)
        BY <2>2, <2>3
      <4>2. <<u, v>> \in wakeups[k] <=> u = v /\ pc[u] = "asleep" /\ due[u] = k
        BY <1>a DEF IInv, WakeUpsMatchSleepers
      <4> QED
        BY <1>a, <4>1, <4>2 DEF d
    <3> QED
      BY <1>a, <2>2, <3>1 DEF IInv, WakeUpsMatchSleepers
  <2>13. Places'
    BY <1>a, <1>2
       DEF IInv, TypeOK, Places, ParentWaitsForChild, DrainStrandsNobody, clientVars
  <2>14. timer_locks' < 0 => main' \in {"broken", "exit"}
    BY DEF IInv
  <2> QED
    BY <2>6, <2>9, <2>11, <2>12, <2>13, <2>14 DEF IInv, Places
<1> QED
  BY <1>1, <1>2

\* The waits of the interface all suspend their caller through Park.
LEMMA WaitKeepsIInv ==
    ASSUME IInv, NEW t \in Tasks, NEW duration \in Durations,
           \/ Sleep(t, duration)
           \/ SleepUntil(t, duration)
           \/ SleepUntilOrCancel(t, duration)
           \/ ScheduleEventWait(t, duration)
           \/ WaitWithDuration(t, duration)
    PROVE  IInv'
<1> USE DEF HasProcessor
<1>a. duration \in Nat /\ TypeOK
  BY DEF IInv
<1>1. ASSUME NEW call \in {"sleep", "until", "session", "gather"},
             HasProcessor(t), MayCall,
             Park(t, call, Clamp(current_tick + duration)), UNCHANGED clientVars
      PROVE  IInv'
  <2>1. /\ Clamp(current_tick + duration) \in Nat
        /\ current_tick <= Clamp(current_tick + duration)
    BY <1>a, <1>1, WakeUpTimes
  <2>2. call \in Ops /\ LoopAlive /\ pc[t] \in {"active", "created"}
    BY <1>1 DEF Ops
  <2> QED
    BY <1>1, <2>1, <2>2, ParkKeepsIInv
<1>2. CASE Sleep(t, duration)
  BY <1>1, <1>2 DEF Sleep
<1>3. CASE SleepUntil(t, duration)
  BY <1>1, <1>3 DEF SleepUntil
<1>4. CASE SleepUntilOrCancel(t, duration)
  BY <1>1, <1>4 DEF SleepUntilOrCancel
<1>5. CASE WaitWithDuration(t, duration)
  BY <1>1, <1>5 DEF WaitWithDuration
<1>6. CASE ScheduleEventWait(t, duration)
  <2> DEFINE tick == current_tick + (IF duration = 0 THEN 1 ELSE duration)
  <2>1. tick \in Nat /\ current_tick <= tick
    BY <1>a DEF TypeOK
  <2>2. "event" \in Ops /\ LoopAlive /\ pc[t] \in {"active", "created"}
    BY <1>6 DEF Ops, ScheduleEventWait
  <2>3. Park(t, "event", tick) /\ UNCHANGED clientVars
    BY <1>6 DEF ScheduleEventWait
  <2> HIDE DEF tick
  <2> QED
    BY <2>1, <2>2, <2>3, ParkKeepsIInv
<1> QED
  BY <1>2, <1>3, <1>4, <1>5, <1>6

\* wait_for_sim_end and the wait for the start suspend their caller through Park, too.
LEMMA StartOrEndKeepsIInv ==
    ASSUME IInv, NEW t \in Tasks, StartRoot(t) \/ WaitForSimEnd(t)
    PROVE  IInv'
<1>a. TypeOK /\ {"start", "end", "none"} \subseteq Ops
  BY DEF IInv, Ops
<1>1. CASE WaitForSimEnd(t)
  <2>1. simulation_length \in Nat /\ current_tick <= simulation_length
    BY <1>a, <1>1, WakeUpTimes DEF WaitForSimEnd, TypeOK
  <2>2. /\ LoopAlive /\ pc[t] \in {"active", "created"}
        /\ Park(t, "end", simulation_length) /\ UNCHANGED clientVars
    BY <1>1 DEF WaitForSimEnd, HasProcessor
  <2> QED
    BY <1>a, <2>1, <2>2, ParkKeepsIInv
<1>2. CASE StartRoot(t) /\ current_tick = 0
  <2>1. Clamp(1) \in Nat /\ current_tick <= Clamp(1)
    BY <1>a, <1>2 DEF TypeOK, Clamp
  <2>2. /\ LoopAlive /\ pc[t] \in {"active", "created"}
        /\ Park(t, "start", Clamp(1)) /\ UNCHANGED clientVars
    BY <1>2 DEF StartRoot
  <2> QED
    BY <1>a, <2>1, <2>2, ParkKeepsIInv
<1>3. CASE StartRoot(t) /\ current_tick # 0
  <2>1. /\ LoopAlive /\ pc[t] \in Counted \ {"spawning"} /\ Proceed(t)
        /\ UNCHANGED <<current_tick, simulation_length, timer_locks, wakeups, main, cancel,
                       future, parent>>
    BY <1>3 DEF StartRoot, Counted, clientVars
  <2>2. /\ pc' = [pc EXCEPT ![t] = "active"]
        /\ op' \in [Tasks -> Ops] /\ due' \in [Tasks -> Nat]
        /\ \A u \in Tasks : u # t => due'[u] = due[u]
        /\ future' \in [Tasks -> BOOLEAN]
    BY <1>a, <2>1 DEF Proceed, TypeOK
  <2> QED
    BY <2>1, <2>2, MovingOnKeepsIInv
<1> QED
  BY <1>1, <1>2, <1>3

\* A woken task moves on without touching the counter: the main loop counted it already.
LEMMA ResumeKeepsIInv ==
    ASSUME IInv, NEW t \in Tasks,
           \/ ResumeStart(t) \/ ResumeSleep(t) \/ ResumeEvent(t)
           \/ ResumeGather(t) \/ GatherDone(t)
    PROVE  IInv'
<1> USE DEF ResumeStart, ResumeSleep, ResumeEvent, ResumeGather, GatherDone
<1>a. TypeOK /\ "none" \in Ops
  BY DEF IInv, Ops
<1>1. /\ LoopAlive /\ pc[t] \in Counted \ {"spawning"}
      /\ UNCHANGED <<current_tick, simulation_length, timer_locks, main, cancel, parent>>
      /\ wakeups' = wakeups \/ wakeups' = RemoveEvent(wakeups, t)
  BY DEF Counted, clientVars
<1>2. future' \in [Tasks -> BOOLEAN]
  BY <1>a DEF TypeOK, clientVars
<1>3. /\ op' \in [Tasks -> Ops] /\ due' \in [Tasks -> Nat]
      /\ \A u \in Tasks : u # t => due'[u] = due[u]
  BY <1>a DEF TypeOK, Proceed
<1>4. \/ pc' = [pc EXCEPT ![t] = "active"]
      \/ pc' = [pc EXCEPT ![t] = "slept"]
      \/ pc' = [pc EXCEPT ![t] = "dead"]
  BY DEF Proceed
<1> QED
  BY <1>1, <1>2, <1>3, <1>4, MovingOnKeepsIInv

-----------------------------------------------------------------------------
(* The theorems.                                                           *)

\* IInv holds in every reachable state: it holds at first and every action keeps it.
THEOREM Invariance == Spec => []IInv
<1>1. Init => IInv
  <2> SUFFICES ASSUME Init PROVE IInv
    OBVIOUS
  <2>1. Holders = {}
    BY DEF Init, Holders, Counted
  <2>2. Cardinality(Holders) = 0 /\ Cardinality(Strayed) = 0
    <3>1. Strayed = {}
      BY DEF Init, Strayed
    <3> QED
      BY <2>1, <3>1, FS_EmptySet
  <2>3. DOMAIN wakeups = {} /\ wakeups \in [DOMAIN wakeups -> SUBSET WakeUps]
    BY DEF Init
  <2>4. TypeOK
    BY <2>3 DEF Init, TypeOK, Mains, PCs, Ops
  <2> QED
    BY <2>2, <2>3, <2>4 DEF Init, IInv, LockCount, WakeUpsMatchSleepers,
                            ParentWaitsForChild, DrainStrandsNobody, StraysSleepOnce
<1>2. IInv /\ [Next]_vars => IInv'
  <2> SUFFICES ASSUME IInv, [Next]_vars PROVE IInv'
    OBVIOUS
  <2>a. TypeOK
    BY DEF IInv
  <2>1. CASE UNCHANGED vars
    BY <2>1, <2>a, QuietStepKeepsIInv DEF vars, TypeOK
  <2>2. ASSUME NEW t \in Tasks, CreateTask(t) PROVE IInv'
    BY <2>2, CreateTaskKeepsIInv
  <2>3. ASSUME NEW t \in Tasks, TaskStep(t) PROVE IInv'
    <3>1. CASE StartRoot(t) \/ WaitForSimEnd(t)
      BY <3>1, StartOrEndKeepsIInv
    <3>2. ASSUME NEW child \in Tasks, StartChildTask(t, child) PROVE IInv'
      BY <3>2, StartChildTaskKeepsIInv
    <3>3. CASE ChildStarts(t)
      BY <3>3, ChildStartsKeepsIInv
    <3>4. CASE Finish(t) \/ AssertionFails(t)
      BY <3>4, FinishKeepsIInv
    <3>5. CASE Crash(t)
      BY <3>5, <2>a, QuietStepKeepsIInv
         DEF Crash, HasProcessor, LoopAlive, clientVars, TypeOK
    <3>6. ASSUME NEW duration \in Durations,
                 \/ Sleep(t, duration) \/ SleepUntil(t, duration)
                 \/ SleepUntilOrCancel(t, duration) \/ ScheduleEventWait(t, duration)
                 \/ WaitWithDuration(t, duration)
          PROVE IInv'
      BY <3>6, WaitKeepsIInv
    <3>7. ASSUME NEW u \in Tasks, RequestCancel(t, u) PROVE IInv'
      BY <3>7, <2>a, QuietStepKeepsIInv DEF RequestCancel, TypeOK
    <3>8. CASE \/ ResumeStart(t) \/ ResumeSleep(t) \/ ResumeEvent(t)
               \/ ResumeGather(t) \/ GatherDone(t)
      BY <3>8, ResumeKeepsIInv
    <3>9. CASE DeliverCancel(t)
      BY <3>9, DeliverCancelKeepsIInv
    <3> QED
      BY <2>3, <3>1, <3>2, <3>3, <3>4, <3>5, <3>6, <3>7, <3>8, <3>9 DEF TaskStep
  <2>4. ASSUME NEW t \in Tasks, FutureDone(t) PROVE IInv'
    BY <2>4, <2>a, QuietStepKeepsIInv DEF FutureDone, TypeOK
  <2>10. ASSUME NEW t \in Tasks, FutureRaises(t) PROVE IInv'
    BY <2>10, FutureRaisesKeepsIInv
  <2>5. ASSUME NEW length \in Lengths, Run(length) PROVE IInv'
    BY <2>5, <2>a, QuietStepKeepsIInv DEF Run, clientVars, TypeOK
  <2>6. CASE Advance
    BY <2>6, AdvanceKeepsIInv
  <2>7. CASE Drain
    BY <2>7, DrainKeepsIInv
  <2>8. CASE EndLoop
    BY <2>8, <2>a, QuietStepKeepsIInv DEF EndLoop, clientVars, TypeOK
  <2>9. CASE CancelAll
    BY <2>9, CancelAllKeepsIInv
  <2> QED
    BY <2>1, <2>2, <2>3, <2>4, <2>5, <2>6, <2>7, <2>8, <2>9, <2>10
       DEF Next, MainStep, Over
<1> QED
  BY <1>1, <1>2, PTL DEF Spec

\* The assertion of _dec_timer_lock fails only while a sleep is left behind
AssertionHolds == timer_locks < 0 => Strayed # {}

\* The kernel's variables keep their types, and timer_locks becomes negative, the assertion of
\* _dec_timer_lock fails, only while a sleep that a wait_with_duration left behind is still to
\* come: never in a program whose futures do not raise.
THEOREM TypeCorrect == Spec => [](TypeOK /\ AssertionHolds)
<1>1. IInv => TypeOK /\ AssertionHolds
  <2> SUFFICES ASSUME IInv, timer_locks < 0, Strayed = {} PROVE FALSE
    BY DEF IInv, AssertionHolds
  <2>1. Cardinality(Strayed) = 0
    BY FS_EmptySet
  <2>2. main # "returned"
    BY DEF IInv
  <2> QED
    BY <2>1, <2>2, HoldersFinite DEF IInv, TypeOK, LockCount
<1> QED
  BY <1>1, Invariance, PTL

\* timer_locks is the number of tasks that are not suspended, less the number of sleeps that
\* were left behind by a wait_with_duration, at any time.
THEOREM LocksAreCounted == Spec => []LockCount
  BY Invariance, PTL DEF IInv

\* No wake-up is lost, doubled, left behind or in the past.
THEOREM SleepersAreWokenUp == Spec => []WakeUpsMatchSleepers
  BY Invariance, PTL DEF IInv

\* Nobody waits for ever for the lock that the main loop keeps when it stops early.
THEOREM DrainIsSafe == Spec => []DrainStrandsNobody
  BY Invariance, PTL DEF IInv

\* A sleeping task is woken by a move of the clock to exactly the tick it asked for.
THEOREM SleepersAreWokenOnTime == Spec => WokenOnTime
<1> DEFINE OnTime ==
        \A t \in Tasks : pc[t] = "asleep" /\ pc'[t] = "woken" => current_tick' = due[t]
<1>1. IInv /\ [Next]_vars => [OnTime]_vars
  <2> SUFFICES ASSUME IInv, Next, NEW t \in Tasks, pc[t] = "asleep", pc'[t] = "woken"
               PROVE  current_tick' = due[t]
    BY DEF OnTime
  <2>a. pc \in [Tasks -> PCs] /\ parent \in [Tasks -> Tasks]
    BY DEF IInv, TypeOK
  <2>1. CASE Advance
    <3>1. PICK tick \in DOMAIN wakeups :
            /\ current_tick' = tick
            /\ pc' = [u \in Tasks |->
                        IF pc[u] = "asleep" /\ \E w \in wakeups[tick] : w[1] = u
                          THEN "woken" ELSE pc[u]]
      BY <2>1 DEF Advance
    <3>2. PICK w \in wakeups[tick] : w[1] = t
      BY <3>1
    <3>0. w \in Tasks \X Tasks
      BY <3>2 DEF IInv, TypeOK, WakeUps
    <3>3. w[2] \in Tasks /\ w = <<t, w[2]>>
      BY <3>2, <3>0
    <3>4. main # "returned"
      BY <2>1 DEF Advance
    <3> QED
      BY <3>1, <3>3, <3>4 DEF IInv, WakeUpsMatchSleepers
  <2>2. ASSUME NEW u \in Tasks, CreateTask(u) \/ TaskStep(u) \/ FutureDone(u) \/ FutureRaises(u)
        PROVE  FALSE
    <3> USE DEF Park, ParkWith, Proceed
    <3>1. CASE CreateTask(u) \/ FutureDone(u) \/ FutureRaises(u)
      BY <2>a, <3>1 DEF CreateTask, FutureDone, FutureRaises
    <3>2. CASE TaskStep(u)
      <4>1. CASE StartRoot(u) \/ WaitForSimEnd(u) \/ Finish(u) \/ Crash(u) \/ AssertionFails(u)
        BY <2>a, <4>1 DEF StartRoot, WaitForSimEnd, Finish, Crash, AssertionFails
      <4>2. CASE ChildStarts(u) \/ \E v \in Tasks : StartChildTask(u, v) \/ RequestCancel(u, v)
        BY <2>a, <4>2 DEF ChildStarts, StartChildTask, RequestCancel
      <4>3. CASE \E d \in Durations :
                    \/ Sleep(u, d) \/ SleepUntil(u, d) \/ SleepUntilOrCancel(u, d)
                    \/ ScheduleEventWait(u, d) \/ WaitWithDuration(u, d)
        BY <2>a, <4>3 DEF Sleep, SleepUntil, SleepUntilOrCancel, ScheduleEventWait,
                          WaitWithDuration
      <4>4. CASE \/ ResumeStart(u) \/ ResumeSleep(u) \/ ResumeEvent(u)
                 \/ ResumeGather(u) \/ GatherDone(u) \/ DeliverCancel(u)
        BY <2>a, <4>4 DEF ResumeStart, ResumeSleep, ResumeEvent, ResumeGather, GatherDone,
                          DeliverCancel
      <4> QED
        BY <3>2, <4>1, <4>2, <4>3, <4>4 DEF TaskStep
    <3> QED
      BY <2>2, <3>1, <3>2
  <2>3. CASE (\E length \in Lengths : Run(length)) \/ Drain \/ EndLoop \/ CancelAll \/ Over
    BY <2>a, <2>3 DEF Run, Drain, EndLoop, CancelAll, Over, vars
  <2> QED
    BY <2>1, <2>2, <2>3 DEF Next, MainStep
<1> QED
  BY <1>1, Invariance, PTL DEF Spec, WokenOnTime

=============================================================================
