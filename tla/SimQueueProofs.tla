--------------------------- MODULE SimQueueProofs ---------------------------
(***************************************************************************)
(* The queue, for any tasks, lengths and durations, and any assignment of  *)
(* the roles.  Events that are scheduled twice never let the clock run     *)
(* under a task's feet, a getter sleeps on only while it is registered or  *)
(* scheduled, and with one consumer a get ends with an item or a timeout.  *)
(***************************************************************************)
EXTENDS SimQueue, FiniteSetTheorems, SequenceTheorems, WellFoundedInduction, TLAPS

-----------------------------------------------------------------------------
(* The inductive invariant.                                                *)

Events   == Tasks \cup {Orphan}
Outcomes == {"none", "item", "TimeoutError", "SimulatorException", "ValueError"}

\* What the proofs need of the variables' types
QueueTyped ==
    /\ current_tick \in Nat /\ simulation_length \in Nat /\ timer_locks \in Int
    /\ DOMAIN wakeups \subseteq Nat
    /\ wakeups \in [DOMAIN wakeups -> SUBSET (Events \X Tasks)]
    /\ main \in Mains
    /\ pc \in [Tasks -> PCs] /\ op \in [Tasks -> Ops \cup {"get"}] /\ due \in [Tasks -> Int]
    /\ data \in Nat /\ get_events \in Seq(Events)
    /\ outcome \in [Tasks -> Outcomes] /\ users \in Users

\* No task runs before the first tick, and no wake-up is in the past
Beginning ==
    /\ main = "setup" => /\ current_tick = 0 /\ get_events = <<>>
                         /\ \A t \in Tasks : pc[t] \in {"absent", "created"}
    /\ main # "returned" /\ current_tick = 0 =>
           \A t \in Tasks : pc[t] \in {"absent", "created", "asleep"}
    /\ \A k \in DOMAIN wakeups : k >= current_tick /\ k > 0

InGet(t) == pc[t] \in {"asleep", "woken"} /\ op[t] = "get"

\* A getter that sleeps has its timeout ahead of it, before the end, and is registered or
\* scheduled for the next tick
Scheduled(t) == current_tick + 1 \in DOMAIN wakeups
                /\ \E p \in users.put : <<t, p>> \in wakeups[current_tick + 1]
Served ==
    LoopAlive => \A t \in Tasks : pc[t] = "asleep" /\ op[t] = "get" =>
        /\ current_tick < due[t] /\ due[t] < simulation_length
        /\ due[t] \in DOMAIN wakeups /\ <<t, t>> \in wakeups[due[t]]
        /\ t \in Range(get_events) \/ Scheduled(t)

\* Only those who may use the queue wait for it
GettersAllowed == \A t \in Tasks : op[t] = "get" => t \in users.get

\* With one consumer: only the first event of the list is one that somebody awaits, and there
\* is no item then; before the last tick there is no other event
Consumer ==
    OneConsumer =>
        /\ \A i \in DOMAIN get_events : get_events[i] # Orphan =>
               i = 1 /\ data = 0 /\ (main # "returned" => InGet(get_events[i]))
        /\ current_tick < simulation_length - 1 => Orphan \notin Range(get_events)
        /\ main \notin {"returned", "exit"} =>
               \A t \in Tasks : InGet(t) => t \in Range(get_events) \/ data > 0
        /\ GetRaisesOnlyTimeout

QueueInv ==
    /\ QueueTyped /\ EveryTaskHoldsTheClock /\ Beginning /\ Served /\ GettersAllowed /\ Consumer

-----------------------------------------------------------------------------
(* Steps of one task.                                                      *)

\* t, and nobody else, moves; no wake-up of others is lost, none is added in the past; the locks
\* follow t
TaskMoves(t) ==
    /\ UNCHANGED <<current_tick, simulation_length, users>>
    /\ main' = main \/ main' = "exit"
    /\ \A u \in Tasks \ {t} : pc'[u] = pc[u] /\ op'[u] = op[u] /\ due'[u] = due[u]
    /\ \A k \in DOMAIN wakeups :
          /\ k \in DOMAIN wakeups'
          /\ \A u \in Tasks \ {t}, p \in Tasks : <<u, p>> \in wakeups[k] => <<u, p>> \in wakeups'[k]
    /\ \A k \in DOMAIN wakeups' : k \in DOMAIN wakeups \/ (k >= current_tick /\ k > 0)
    /\ main # "returned"
    /\ \/ timer_locks' = timer_locks /\ (pc'[t] \in Counted => pc[t] \in Counted)
       \/ timer_locks' = timer_locks - 1 /\ pc[t] \in Counted /\ pc'[t] \notin Counted
       \/ timer_locks' = timer_locks + 1
    /\ current_tick = 0 => pc'[t] \in {"absent", "created", "asleep"}
    /\ main = "setup" => pc'[t] \in {"absent", "created"} /\ get_events' = <<>>

LEMMA HoldersFinite ==
    /\ IsFiniteSet(Holders) /\ Cardinality(Holders) \in Nat
    /\ IsFiniteSet(Holders') /\ Cardinality(Holders') \in Nat
  <1>1. Holders \subseteq Tasks /\ Holders' \subseteq Tasks
    BY DEF Holders
  <1> QED BY <1>1, TasksAssumption, FS_Subset, FS_CardinalityType

LEMMA LocksFollow ==
    ASSUME QueueTyped, NEW t \in Tasks, TaskMoves(t), EveryTaskHoldsTheClock
    PROVE  EveryTaskHoldsTheClock'
  <1>1. timer_locks \in Int /\ timer_locks >= Cardinality(Holders)
    BY DEF QueueTyped, EveryTaskHoldsTheClock, TaskMoves
  <1>2. \A u \in Tasks \ {t} : u \in Holders' <=> u \in Holders
    BY DEF TaskMoves, Holders
  <1>3. Holders \subseteq Tasks /\ Holders' \subseteq Tasks
    BY DEF Holders
  <1>4. t \in Holders <=> pc[t] \in Counted
    BY DEF Holders
  <1>5. t \in Holders' <=> pc'[t] \in Counted
    BY DEF Holders
  <1>6. CASE timer_locks' = timer_locks /\ (pc'[t] \in Counted => pc[t] \in Counted)
    <2>1. Holders' \subseteq Holders
      BY <1>2, <1>3, <1>4, <1>5, <1>6
    <2>2. Cardinality(Holders') <= Cardinality(Holders)
      BY <2>1, HoldersFinite, FS_Subset
    <2> QED BY <1>1, <1>6, <2>2, HoldersFinite DEF EveryTaskHoldsTheClock
  <1>7. CASE timer_locks' = timer_locks - 1 /\ pc[t] \in Counted /\ pc'[t] \notin Counted
    <2>1. Holders' = Holders \ {t} /\ t \in Holders
      BY <1>2, <1>3, <1>4, <1>5, <1>7
    <2>2. Cardinality(Holders') = Cardinality(Holders) - 1
      BY <2>1, HoldersFinite, FS_RemoveElement
    <2> QED BY <1>1, <1>7, <2>2, HoldersFinite DEF EveryTaskHoldsTheClock
  <1>8. CASE timer_locks' = timer_locks + 1
    <2>1. Holders' \subseteq Holders \cup {t}
      BY <1>2, <1>3
    <2>2. /\ IsFiniteSet(Holders \cup {t})
          /\ \/ Cardinality(Holders \cup {t}) = Cardinality(Holders)
             \/ Cardinality(Holders \cup {t}) = Cardinality(Holders) + 1
      BY HoldersFinite, FS_AddElement
    <2>3. Cardinality(Holders') <= Cardinality(Holders \cup {t})
      BY <2>1, <2>2, FS_Subset
    <2> QED BY <1>1, <1>8, <2>2, <2>3, HoldersFinite DEF EveryTaskHoldsTheClock
  <1> QED BY <1>6, <1>7, <1>8 DEF TaskMoves

LEMMA BeginningKept ==
    ASSUME QueueTyped, NEW t \in Tasks, TaskMoves(t), Beginning
    PROVE  Beginning'
  BY DEF TaskMoves, Beginning, QueueTyped

\* The getter u is served
ServedOne(u) ==
    pc[u] = "asleep" /\ op[u] = "get" =>
        /\ current_tick < due[u] /\ due[u] < simulation_length
        /\ due[u] \in DOMAIN wakeups /\ <<u, u>> \in wakeups[due[u]]
        /\ u \in Range(get_events) \/ Scheduled(u)

LEMMA ServedKept ==
    ASSUME QueueTyped, NEW t \in Tasks, TaskMoves(t), Served, LoopAlive \/ main = "setup",
           Beginning, users \in Users,
           \A u \in Tasks \ {t} :
              pc[u] = "asleep" /\ op[u] = "get" /\ u \in Range(get_events) =>
                  u \in Range(get_events') \/ Scheduled(u)',
           LoopAlive' => ServedOne(t)'
    PROVE  Served'
  <1>1. CASE main = "setup"
    BY <1>1 DEF Served, LoopAlive, TaskMoves
  <1>2. CASE LoopAlive
    <2> SUFFICES ASSUME LoopAlive', NEW u \in Tasks \ {t} PROVE ServedOne(u)'
      BY DEF Served, ServedOne
    <2>1. ServedOne(u)
      BY <1>2 DEF Served, ServedOne
    <2>2. users.put \subseteq Tasks
      BY QueueAssumption
    <2>3. Scheduled(u) => Scheduled(u)'
      BY <2>2 DEF Scheduled, TaskMoves
    <2> QED BY <2>1, <2>3 DEF ServedOne, TaskMoves
  <1> QED BY <1>1, <1>2

LEMMA AddedWakeUp ==
    ASSUME NEW queue, NEW tick, NEW w
    PROVE  /\ DOMAIN AddWakeUp(queue, tick, w) = DOMAIN queue \cup {tick}
           /\ \A k \in DOMAIN queue : queue[k] \subseteq AddWakeUp(queue, tick, w)[k]
           /\ w \in AddWakeUp(queue, tick, w)[tick]
           /\ \A k \in DOMAIN queue \cup {tick} :
                 AddWakeUp(queue, tick, w)[k] \subseteq
                     {w} \cup (IF k \in DOMAIN queue THEN queue[k] ELSE {})
  BY DEF AddWakeUp

IsQueue(queue) ==
    DOMAIN queue \subseteq Nat /\ queue \in [DOMAIN queue -> SUBSET (Events \X Tasks)]

LEMMA AddTyped ==
    ASSUME NEW queue, IsQueue(queue), NEW tick \in Nat, NEW w \in Events \X Tasks
    PROVE  IsQueue(AddWakeUp(queue, tick, w))
  BY DEF AddWakeUp, IsQueue

\* A task that has the processor does so after the first tick
LEMMA Active ==
    ASSUME QueueInv, NEW t \in Tasks, HasProcessor(t)
    PROVE  /\ current_tick > 0 /\ main \in {"looping", "ended"} /\ pc[t] = "active"
           /\ (MayCall <=> is_running)
           /\ is_running <=> current_tick < simulation_length - 1
  <1>1. main \in {"looping", "ended"} /\ pc[t] = "active"
    BY DEF HasProcessor, LoopAlive
  <1>2. current_tick # 0
    BY <1>1 DEF QueueInv, Beginning
  <1>3. current_tick \in Nat /\ simulation_length \in Nat
    BY DEF QueueInv, QueueTyped
  <1> QED BY <1>1, <1>2, <1>3 DEF MayCall, is_running

-----------------------------------------------------------------------------
(* The list of waiting getters.                                            *)

\* A set of positions has a first one, which is what Min chooses
LEMMA FirstPosition ==
    ASSUME NEW S \in SUBSET Int, IsFiniteSet(S), S # {} PROVE Min(S) \in S
  <1> DEFINE HasMin(T) == \E x \in T : \A y \in T : x <= y
             Bad == {T \in SUBSET S : T # {} /\ ~HasMin(T)}
  <1>1. Bad = {}
    <2> SUFFICES ASSUME Bad # {} PROVE FALSE
      OBVIOUS
    <2>1. Bad \subseteq FiniteSubsetsOf(S)
      BY FS_FiniteSubsetsOfFinite
    <2>2. PICK T \in Bad : \A U \in Bad : ~(<<U, T>> \in StrictSubsetOrdering(S))
      BY <2>1, FS_StrictSubsetOrderingWellFounded, WFMin
    <2>3. PICK a \in T : TRUE
      OBVIOUS
    <2>4. CASE T = {a}
      BY <2>4
    <2>5. CASE T # {a}
      <3>1. T \ {a} \notin Bad
        BY <2>2, <2>3 DEF StrictSubsetOrdering
      <3>2. PICK x \in T \ {a} : \A y \in T \ {a} : x <= y
        BY <3>1, <2>5
      <3> QED BY <3>2
    <2> QED BY <2>4, <2>5
  <1>2. HasMin(S)
    BY <1>1
  <1> QED BY <1>2 DEF Min

LEMMA RemovedAt ==
    ASSUME NEW S, NEW q \in Seq(S), NEW p \in 1 .. Len(q)
    PROVE  /\ RemoveAt(q, p) \in Seq(S) /\ Len(RemoveAt(q, p)) = Len(q) - 1
           /\ \A k \in 1 .. Len(q) - 1 : RemoveAt(q, p)[k] = IF k < p THEN q[k] ELSE q[k + 1]
  <1> DEFINE a == SubSeq(q, 1, p - 1)
  <1> DEFINE b == SubSeq(q, p + 1, Len(q))
  <1>1. Len(q) \in Nat /\ p \in Nat /\ \A i \in 1 .. Len(q) : q[i] \in S
    BY LenProperties, ElementOfSeq
  <1>2. /\ a \in Seq(S) /\ Len(a) = p - 1 /\ \A i \in 1 .. p - 1 : a[i] = q[i]
    <2>1. \A i \in 1 .. p - 1 : q[i] \in S
      BY <1>1
    <2>2. /\ a \in Seq(S) /\ Len(a) = IF 1 <= p - 1 THEN p - 1 - 1 + 1 ELSE 0
          /\ \A i \in 1 .. p - 1 - 1 + 1 : a[i] = q[1 + i - 1]
      BY <1>1, <2>1, SubSeqProperties
    <2> QED BY <1>1, <2>2
  <1>3. /\ b \in Seq(S) /\ Len(b) = Len(q) - p
        /\ \A i \in 1 .. Len(q) - p : b[i] = q[p + i]
    <2>1. \A i \in p + 1 .. Len(q) : q[i] \in S
      BY <1>1
    <2>2. /\ b \in Seq(S) /\ Len(b) = IF p + 1 <= Len(q) THEN Len(q) - (p + 1) + 1 ELSE 0
          /\ \A i \in 1 .. Len(q) - (p + 1) + 1 : b[i] = q[(p + 1) + i - 1]
      BY <1>1, <2>1, SubSeqProperties
    <2> QED BY <1>1, <2>2
  <1>4. RemoveAt(q, p) = a \o b
    BY DEF RemoveAt
  <1> HIDE DEF a, b
  <1>5. /\ a \o b \in Seq(S) /\ Len(a \o b) = Len(q) - 1
        /\ \A i \in 1 .. Len(q) - 1 : (a \o b)[i] = IF i <= p - 1 THEN a[i] ELSE b[i - (p - 1)]
    <2>1. /\ a \o b \in Seq(S) /\ Len(a \o b) = Len(a) + Len(b)
          /\ \A i \in 1 .. Len(a) + Len(b) : (a \o b)[i] = IF i <= Len(a) THEN a[i] ELSE b[i - Len(a)]
      BY <1>2, <1>3, ConcatProperties
    <2> QED BY <1>1, <1>2, <1>3, <2>1
  <1>6. ASSUME NEW k \in 1 .. Len(q) - 1
        PROVE  (a \o b)[k] = IF k < p THEN q[k] ELSE q[k + 1]
    <2>1. CASE k < p
      BY <1>1, <1>2, <1>5, <2>1
    <2>2. CASE k >= p
      <3>1. (a \o b)[k] = b[k - (p - 1)] /\ k - (p - 1) \in 1 .. Len(q) - p /\ p + (k - (p - 1)) = k + 1
        BY <1>1, <1>5, <2>2
      <3> QED BY <1>1, <1>3, <2>2, <3>1
    <2>3. k < p \/ k >= p
      BY <1>1
    <2> QED BY <2>1, <2>2, <2>3, Zenon
  <1> QED BY <1>4, <1>5, <1>6

LEMMA RemovedOne ==
    ASSUME NEW s \in Seq(Events), NEW t \in Tasks, t \in Range(s)
    PROVE  \E j \in 1..Len(s) :
              /\ s[j] = t
              /\ RemoveFirst(s, t) \in Seq(Events)
              /\ Len(RemoveFirst(s, t)) = Len(s) - 1
              /\ \A i \in 1..Len(s) - 1 :
                    RemoveFirst(s, t)[i] = IF i < j THEN s[i] ELSE s[i + 1]
  <1> DEFINE I == {i \in 1..Len(s) : s[i] = t}
  <1>1. Len(s) \in Nat /\ DOMAIN s = 1..Len(s)
    BY LenProperties
  <1>2. \E i \in 1..Len(s) : s[i] = t
    BY <1>1 DEF Range
  <1>3. IsFiniteSet(1..Len(s)) /\ I \subseteq 1..Len(s)
    BY <1>1, FS_Interval
  <1>4. IsFiniteSet(I) /\ I \in SUBSET Int /\ I # {}
    BY <1>1, <1>2, <1>3, FS_Subset
  <1>5. PICK j \in I : j = Min(I)
    BY <1>4, FirstPosition
  <1>6. RemoveFirst(s, t) = RemoveAt(s, j)
    BY <1>2, <1>5 DEF RemoveFirst, SelectInSeq
  <1>7. j \in 1..Len(s) /\ s[j] = t
    BY <1>5
  <1> HIDE DEF I
  <1> QED BY <1>6, <1>7, RemovedAt

LEMMA Removed ==
    ASSUME NEW s \in Seq(Events), NEW t \in Tasks, t \in Range(s)
    PROVE  /\ RemoveFirst(s, t) \in Seq(Events)
           /\ \A u \in Range(s) \ {t} : u \in Range(RemoveFirst(s, t))
           /\ \A u \in Range(RemoveFirst(s, t)) : u \in Range(s)
           /\ (\A i \in DOMAIN s : s[i] # Orphan => i = 1) =>
                  \A u \in Range(RemoveFirst(s, t)) : u = Orphan
  <1> DEFINE r == RemoveFirst(s, t)
  <1>1. PICK j \in 1..Len(s) :
              /\ s[j] = t /\ r \in Seq(Events) /\ Len(r) = Len(s) - 1
              /\ \A i \in 1..Len(s) - 1 : r[i] = IF i < j THEN s[i] ELSE s[i + 1]
    BY RemovedOne
  <1> HIDE DEF r
  <1>2. Len(s) \in Nat /\ DOMAIN s = 1..Len(s) /\ DOMAIN r = 1..Len(s) - 1
    BY <1>1, LenProperties
  <1>3. ASSUME NEW u \in Range(s) \ {t} PROVE u \in Range(r)
    <2>1. PICK i \in 1..Len(s) : s[i] = u /\ i # j
      BY <1>1, <1>2, <1>3 DEF Range
    <2>2. CASE i < j
      <3>1. i \in 1..Len(s) - 1 /\ r[i] = u
        BY <1>1, <1>2, <2>1, <2>2
      <3> QED BY <1>2, <3>1 DEF Range
    <2>3. CASE i > j
      <3>1. i - 1 \in 1..Len(s) - 1 /\ r[i - 1] = u
        BY <1>1, <1>2, <2>1, <2>3
      <3> QED BY <1>2, <3>1 DEF Range
    <2> QED BY <1>2, <2>1, <2>2, <2>3
  <1>4. ASSUME NEW u \in Range(r) PROVE u \in Range(s)
    <2>1. PICK i \in 1..Len(s) - 1 : r[i] = u
      BY <1>2, <1>4 DEF Range
    <2>2. r[i] = s[i] \/ r[i] = s[i + 1]
      BY <1>1
    <2>3. i \in DOMAIN s /\ i + 1 \in DOMAIN s
      BY <1>2
    <2> QED BY <2>1, <2>2, <2>3 DEF Range
  <1>5. ASSUME \A i \in DOMAIN s : s[i] # Orphan => i = 1, NEW u \in Range(r)
        PROVE  u = Orphan
    <2>1. t # Orphan
      BY QueueAssumption
    <2>2. j = 1
      BY <1>1, <1>2, <1>5, <2>1
    <2>3. PICK i \in 1..Len(s) - 1 : r[i] = u
      BY <1>2, <1>5 DEF Range
    <2>4. r[i] = s[i + 1] /\ i + 1 \in DOMAIN s /\ i + 1 # 1
      BY <1>1, <1>2, <2>2, <2>3
    <2> QED BY <1>5, <2>3, <2>4
  <1> QED BY <1>1, <1>3, <1>4, <1>5 DEF r

LEMMA Replaced ==
    ASSUME NEW s \in Seq(Events), NEW t \in Tasks
    PROVE  /\ ReplaceAll(s, t, Orphan) \in Seq(Events)
           /\ \A u \in Range(s) \ {t} : u \in Range(ReplaceAll(s, t, Orphan))
           /\ t \notin Range(s) => ReplaceAll(s, t, Orphan) = s
  <1>1. Len(s) \in Nat /\ DOMAIN s = 1..Len(s) /\ \A i \in 1..Len(s) : s[i] \in Events
    BY LenProperties, ElementOfSeq
  <1> DEFINE r == ReplaceAll(s, t, Orphan)
  <1>2. r = [i \in 1..Len(s) |-> IF s[i] = t THEN Orphan ELSE s[i]]
    BY DEF ReplaceAll
  <1>3. Orphan \in Events
    BY DEF Events
  <1>4. r \in Seq(Events) /\ DOMAIN r = 1..Len(s)
    BY <1>1, <1>2, <1>3
  <1>5. \A u \in Range(s) \ {t} : u \in Range(r)
    BY <1>1, <1>2 DEF Range
  <1>6. t \notin Range(s) => r = s
    BY <1>1, <1>2, <1>4, SeqEqual DEF Range
  <1> QED BY <1>4, <1>5, <1>6

LEMMA Registered ==
    ASSUME NEW s \in Seq(Events), NEW e \in Events
    PROVE  /\ Append(s, e) \in Seq(Events) /\ Range(Append(s, e)) = Range(s) \cup {e}
           /\ DOMAIN Append(s, e) = 1..Len(s) + 1 /\ Len(s) \in Nat /\ DOMAIN s = 1..Len(s)
           /\ Append(s, e)[Len(s) + 1] = e /\ \A i \in DOMAIN s : Append(s, e)[i] = s[i]
  <1>1. /\ Append(s, e) \in Seq(Events) /\ Len(Append(s, e)) = Len(s) + 1
        /\ \A i \in 1..Len(s) : Append(s, e)[i] = s[i] /\ Append(s, e)[Len(s) + 1] = e
        /\ Append(s, e)[Len(s) + 1] = e
        /\ Len(s) \in Nat /\ DOMAIN s = 1..Len(s)
    BY AppendProperties, LenProperties
  <1>2. DOMAIN Append(s, e) = 1..Len(s) + 1
    BY <1>1, LenProperties
  <1>3. Range(Append(s, e)) = Range(s) \cup {e}
    BY <1>1, <1>2 DEF Range
  <1> QED BY <1>1, <1>2, <1>3

LEMMA Popped ==
    ASSUME NEW s \in Seq(Events), s # <<>>
    PROVE  /\ Head(s) \in Events /\ Head(s) = s[1] /\ Tail(s) \in Seq(Events)
           /\ \A u \in Range(s) : u = Head(s) \/ u \in Range(Tail(s))
           /\ \A i \in DOMAIN Tail(s) : i + 1 \in DOMAIN s /\ Tail(s)[i] = s[i + 1] /\ i >= 1
           /\ \A u \in Range(Tail(s)) : u \in Range(s)
  <1>1. /\ Head(s) \in Events /\ Head(s) = s[1] /\ Tail(s) \in Seq(Events)
        /\ Len(s) \in Nat /\ Len(s) > 0 /\ DOMAIN s = 1..Len(s)
        /\ Len(Tail(s)) = Len(s) - 1 /\ \A i \in 1..Len(s) - 1 : Tail(s)[i] = s[i + 1]
    BY HeadTailProperties, LenProperties, EmptySeq
  <1>2. DOMAIN Tail(s) = 1..Len(s) - 1
    BY <1>1, LenProperties
  <1>3. \A u \in Range(s) : u = Head(s) \/ u \in Range(Tail(s))
    <2> SUFFICES ASSUME NEW i \in 1..Len(s), i # 1 PROVE s[i] \in Range(Tail(s))
      BY <1>1 DEF Range
    <2>1. i - 1 \in DOMAIN Tail(s) /\ Tail(s)[i - 1] = s[i]
      BY <1>1, <1>2
    <2> QED BY <2>1 DEF Range
  <1> QED BY <1>1, <1>2, <1>3 DEF Range

-----------------------------------------------------------------------------
(* The steps of tasks that are not in a get.                               *)

\* A step beside the queue
LEMMA AsideKeeps ==
    ASSUME QueueInv, QueueTyped', NEW t \in Tasks, TaskMoves(t), UNCHANGED queueVars, main' = main,
           LoopAlive \/ main = "setup", ~InGet(t), ~InGet(t)', op'[t] = "get" => op[t] = "get"
    PROVE  QueueInv'
  <1>1. EveryTaskHoldsTheClock' /\ Beginning'
    BY LocksFollow, BeginningKept DEF QueueInv
  <1>2. Served'
    <2>1. LoopAlive' => ServedOne(t)'
      BY DEF ServedOne, InGet
    <2>2. \A u \in Tasks \ {t} : u \in Range(get_events) => u \in Range(get_events')
      BY DEF queueVars
    <2> QED BY <2>1, <2>2, ServedKept DEF QueueInv, QueueTyped
  <1>3. GettersAllowed'
    BY DEF QueueInv, GettersAllowed, TaskMoves
  <1>4. Consumer'
    <2>1. ASSUME NEW u \in Tasks PROVE InGet(u)' <=> InGet(u)
      BY DEF InGet, TaskMoves
    <2>2. \A i \in DOMAIN get_events : get_events[i] # Orphan => get_events[i] \in Tasks
      BY ElementOfSeq, LenProperties DEF QueueInv, QueueTyped, Events
    <2> QED BY <2>1, <2>2
      DEF QueueInv, Consumer, OneConsumer, queueVars, TaskMoves, is_running, GetRaisesOnlyTimeout
  <1> QED BY <1>1, <1>2, <1>3, <1>4 DEF QueueInv

\* queue has the wake-ups of now, and perhaps others that are not in the past
Extends(queue) ==
    /\ IsQueue(queue)
    /\ \A k \in DOMAIN wakeups : k \in DOMAIN queue /\ wakeups[k] \subseteq queue[k]
    /\ \A k \in DOMAIN queue : k \in DOMAIN wakeups \/ (k >= current_tick /\ k > 0)

\* A task of the running loop goes to sleep
LEMMA ParkMoves ==
    ASSUME QueueInv, NEW t \in Tasks, LoopAlive, pc[t] \in Counted, UNCHANGED users,
           NEW queue, Extends(queue), NEW tick \in Nat, tick >= current_tick, tick > 0,
           NEW call \in Ops \cup {"get"}, ParkWith(queue, t, call, tick)
    PROVE  /\ TaskMoves(t) /\ main' = main
           /\ timer_locks' \in Int /\ IsQueue(wakeups') /\ pc' \in [Tasks -> PCs]
           /\ op' \in [Tasks -> Ops \cup {"get"}] /\ due' \in [Tasks -> Int]
           /\ pc'[t] = "asleep" /\ op'[t] = call /\ due'[t] = tick
           /\ tick \in DOMAIN wakeups' /\ <<t, t>> \in wakeups'[tick]
           /\ \A k \in DOMAIN queue : k \in DOMAIN wakeups' /\ queue[k] \subseteq wakeups'[k]
  <1>1. QueueTyped
    BY DEF QueueInv
  <1>2. /\ wakeups' = AddWakeUp(queue, tick, <<t, t>>) /\ timer_locks' = timer_locks - 1
        /\ pc' = [pc EXCEPT ![t] = "asleep"] /\ op' = [op EXCEPT ![t] = call]
        /\ due' = [due EXCEPT ![t] = tick]
        /\ UNCHANGED <<current_tick, simulation_length, main>>
    BY DEF ParkWith
  <1>3. <<t, t>> \in Events \X Tasks
    BY DEF Events
  <1>4. IsQueue(wakeups')
    BY <1>2, <1>3, AddTyped DEF Extends
  <1>5. /\ tick \in DOMAIN wakeups' /\ <<t, t>> \in wakeups'[tick]
        /\ \A k \in DOMAIN queue : k \in DOMAIN wakeups' /\ queue[k] \subseteq wakeups'[k]
        /\ DOMAIN wakeups' = DOMAIN queue \cup {tick}
    <2> DEFINE w == <<t, t>>
    <2>1. wakeups' = AddWakeUp(queue, tick, w)
      BY <1>2
    <2> HIDE DEF w
    <2>2. /\ DOMAIN wakeups' = DOMAIN queue \cup {tick} /\ w \in wakeups'[tick]
          /\ \A k \in DOMAIN queue : queue[k] \subseteq wakeups'[k]
      BY <2>1, AddedWakeUp
    <2> QED BY <2>2 DEF w
  <1>6. /\ timer_locks' \in Int /\ pc' \in [Tasks -> PCs]
        /\ op' \in [Tasks -> Ops \cup {"get"}] /\ due' \in [Tasks -> Int]
        /\ pc'[t] = "asleep" /\ op'[t] = call /\ due'[t] = tick
        /\ \A u \in Tasks \ {t} : pc'[u] = pc[u] /\ op'[u] = op[u] /\ due'[u] = due[u]
    BY <1>1, <1>2 DEF QueueTyped, PCs
  <1>7. /\ "asleep" \notin Counted
        /\ main \notin {"setup", "returned"}
    BY DEF Counted, LoopAlive
  <1>8. \A k \in DOMAIN wakeups : k \in DOMAIN wakeups' /\ wakeups[k] \subseteq wakeups'[k]
    BY <1>5 DEF Extends
  <1>9. \A k \in DOMAIN wakeups' : k \in DOMAIN wakeups \/ (k >= current_tick /\ k > 0)
    BY <1>5 DEF Extends
  <1>10. TaskMoves(t)
    BY <1>2, <1>6, <1>7, <1>8, <1>9 DEF TaskMoves
  <1> QED BY <1>2, <1>4, <1>5, <1>6, <1>10

LEMMA ExtendsItself == QueueTyped => Extends(wakeups)
  BY DEF QueueTyped, Extends, IsQueue

LEMMA ParkAside ==
    ASSUME QueueInv, NEW t \in Tasks, LoopAlive, pc[t] \in Counted, ~InGet(t), UNCHANGED queueVars,
           NEW tick \in Nat, tick >= current_tick, tick > 0,
           NEW call \in Ops, Park(t, call, tick)
    PROVE  QueueInv'
  <1>1. QueueTyped
    BY DEF QueueInv
  <1>2. call \in Ops \cup {"get"} /\ call # "get"
    BY DEF Ops
  <1>3. ParkWith(wakeups, t, call, tick) /\ UNCHANGED users
    BY DEF Park, queueVars
  <1>4. /\ TaskMoves(t) /\ main' = main
        /\ timer_locks' \in Int /\ IsQueue(wakeups') /\ pc' \in [Tasks -> PCs]
        /\ op' \in [Tasks -> Ops \cup {"get"}] /\ due' \in [Tasks -> Int]
        /\ pc'[t] = "asleep" /\ op'[t] = call
    BY <1>1, <1>2, <1>3, ParkMoves, ExtendsItself
  <1>5. QueueTyped'
    BY <1>1, <1>4 DEF QueueTyped, TaskMoves, queueVars, IsQueue
  <1> QED BY <1>2, <1>4, <1>5, AsideKeeps DEF InGet

LEMMA CreateTaskKeeps ==
    ASSUME QueueInv, NEW t \in Tasks, CreateTask(t), UNCHANGED queueVars PROVE QueueInv'
  <1> USE DEF CreateTask
  <1>1. QueueTyped
    BY DEF QueueInv
  <1>2. pc'[t] = "created" /\ \A u \in Tasks \ {t} : pc'[u] = pc[u]
    BY <1>1 DEF QueueTyped
  <1>3. QueueTyped'
    BY <1>1 DEF QueueTyped, queueVars, PCs
  <1>4. TaskMoves(t)
    BY <1>2 DEF TaskMoves, queueVars, QueueInv, Beginning
  <1> QED BY <1>2, <1>3, <1>4, AsideKeeps DEF InGet

\* The task gets the processor back, or ends
LEMMA ResumesKeeps ==
    ASSUME QueueInv, NEW t \in Tasks, LoopAlive, UNCHANGED queueVars,
           UNCHANGED <<current_tick, simulation_length, wakeups, main>>,
           pc[t] \in Counted, ~InGet(t), current_tick > 0,
           NEW p \in PCs \ {"asleep", "woken"}, pc' = [pc EXCEPT ![t] = p],
           \/ timer_locks' = timer_locks
           \/ timer_locks' = timer_locks - 1 /\ p \notin Counted,
           \/ UNCHANGED <<op, due>>
           \/ op' = [op EXCEPT ![t] = "none"] /\ due' = [due EXCEPT ![t] = 0]
    PROVE  QueueInv'
  <1>1. QueueTyped
    BY DEF QueueInv
  <1>2. /\ pc'[t] = p
        /\ \A u \in Tasks \ {t} : pc'[u] = pc[u] /\ op'[u] = op[u] /\ due'[u] = due[u]
        /\ op'[t] = op[t] \/ op'[t] = "none"
    BY <1>1 DEF QueueTyped
  <1>3. QueueTyped'
    BY <1>1 DEF QueueTyped, queueVars, Ops
  <1>4. TaskMoves(t)
    BY <1>2 DEF TaskMoves, queueVars, LoopAlive
  <1> QED BY <1>2, <1>3, <1>4, AsideKeeps DEF InGet

LEMMA StartRootKeeps ==
    ASSUME QueueInv, NEW t \in Tasks, StartRoot(t), UNCHANGED queueVars PROVE QueueInv'
  <1>1. LoopAlive /\ pc[t] = "created" /\ ~InGet(t) /\ pc[t] \in Counted
    BY DEF StartRoot, InGet, Counted
  <1>2. current_tick \in Nat /\ simulation_length \in Nat
    BY DEF QueueInv, QueueTyped
  <1>3. CASE current_tick = 0
    <2>1. Park(t, "start", Clamp(1)) /\ "start" \in Ops
      BY <1>3 DEF StartRoot, Ops
    <2>2. Clamp(1) \in Nat /\ Clamp(1) >= current_tick /\ Clamp(1) > 0
      BY <1>2, <1>3 DEF Clamp
    <2> QED BY <1>1, <2>1, <2>2, ParkAside
  <1>4. CASE current_tick # 0
    <2>1. "active" \in PCs \ {"asleep", "woken"}
      BY DEF PCs
    <2> QED BY <1>1, <1>2, <1>4, <2>1, ResumesKeeps DEF StartRoot, Proceed
  <1> QED BY <1>3, <1>4

LEMMA FinishKeeps ==
    ASSUME QueueInv, NEW t \in Tasks, Finish(t), UNCHANGED queueVars PROVE QueueInv'
  <1>1. /\ LoopAlive /\ pc[t] = "active" /\ ~InGet(t) /\ pc[t] \in Counted /\ current_tick > 0
    BY Active DEF Finish, HasProcessor, InGet, Counted
  <1>2. "done" \in PCs \ {"asleep", "woken"} /\ "done" \notin Counted
    BY DEF PCs, Counted
  <1> QED BY <1>1, <1>2, ResumesKeeps DEF Finish

LEMMA SleepKeeps ==
    ASSUME QueueInv, NEW t \in Tasks, NEW duration \in Durations, Sleep(t, duration),
           UNCHANGED queueVars
    PROVE  QueueInv'
  <1>1. HasProcessor(t) /\ MayCall /\ Park(t, "sleep", Clamp(current_tick + duration))
    BY DEF Sleep
  <1>2. /\ LoopAlive /\ pc[t] = "active" /\ ~InGet(t) /\ pc[t] \in Counted /\ current_tick > 0
        /\ current_tick < simulation_length - 1
    BY <1>1, Active DEF HasProcessor, InGet, Counted
  <1>3. current_tick \in Nat /\ simulation_length \in Nat /\ duration \in Nat
    BY TimeAssumption DEF QueueInv, QueueTyped
  <1>4. LET tick == Clamp(current_tick + duration)
        IN  tick \in Nat /\ tick >= current_tick /\ tick > 0
    BY <1>2, <1>3 DEF Clamp
  <1>5. "sleep" \in Ops
    BY DEF Ops
  <1> QED BY <1>1, <1>2, <1>4, <1>5, ParkAside

LEMMA ResumeStartKeeps ==
    ASSUME QueueInv, NEW t \in Tasks, ResumeStart(t), UNCHANGED queueVars PROVE QueueInv'
  <1>1. LoopAlive /\ pc[t] = "woken" /\ op[t] = "start" /\ ~InGet(t) /\ pc[t] \in Counted
    BY DEF ResumeStart, InGet, Counted
  <1>2. current_tick > 0
    <2>1. current_tick # 0 /\ current_tick \in Nat
      BY <1>1 DEF QueueInv, QueueTyped, Beginning, LoopAlive
    <2> QED BY <2>1
  <1>3. {"active", "dead"} \subseteq PCs \ {"asleep", "woken"}
    BY DEF PCs
  <1>4. PICK p \in {"active", "dead"} : pc' = [pc EXCEPT ![t] = p]
    BY DEF ResumeStart, Proceed
  <1>5. \/ UNCHANGED <<op, due>>
        \/ op' = [op EXCEPT ![t] = "none"] /\ due' = [due EXCEPT ![t] = 0]
    BY DEF ResumeStart, Proceed
  <1>6. UNCHANGED <<current_tick, simulation_length, timer_locks, wakeups, main>>
    BY DEF ResumeStart
  <1> QED BY <1>1, <1>2, <1>3, <1>4, <1>5, <1>6, ResumesKeeps

LEMMA ResumeSleepKeeps ==
    ASSUME QueueInv, NEW t \in Tasks, ResumeSleep(t), UNCHANGED queueVars PROVE QueueInv'
  <1>1. LoopAlive /\ pc[t] = "woken" /\ ~InGet(t) /\ pc[t] \in Counted
    BY DEF ResumeSleep, InGet, Counted
  <1>2. current_tick > 0
    <2>1. current_tick # 0 /\ current_tick \in Nat
      BY <1>1 DEF QueueInv, QueueTyped, Beginning, LoopAlive
    <2> QED BY <2>1
  <1>3. "active" \in PCs \ {"asleep", "woken"}
    BY DEF PCs
  <1> QED BY <1>1, <1>2, <1>3, ResumesKeeps DEF ResumeSleep, Proceed

-----------------------------------------------------------------------------
(* put, get and clear.                                                     *)

\* There is no second getter
LEMMA TheConsumer ==
    ASSUME QueueInv, OneConsumer, NEW t \in users.get, NEW u \in Tasks, InGet(u)
    PROVE  u = t
  <1>1. users.get \subseteq Tasks /\ u \in users.get
    BY QueueAssumption DEF QueueInv, QueueTyped, GettersAllowed, InGet
  <1>2. IsFiniteSet(users.get)
    BY <1>1, TasksAssumption, FS_Subset
  <1>3. \E x : users.get = {x}
    BY <1>2, FS_Singleton DEF OneConsumer
  <1> QED BY <1>1, <1>3

\* A step of the queue alone
LEMMA StillKeeps ==
    ASSUME QueueInv, LoopAlive, UNCHANGED <<vars, users>>,
           data' \in Nat, get_events' \in Seq(Events), outcome' \in [Tasks -> Outcomes],
           \A u \in Tasks : pc[u] = "asleep" /\ op[u] = "get" /\ u \in Range(get_events) =>
               u \in Range(get_events'),
           Consumer'
    PROVE  QueueInv'
  <1>1. UNCHANGED <<current_tick, simulation_length, timer_locks, wakeups, main, pc, op, due, users>>
    BY DEF vars
  <1>2. QueueTyped'
    BY <1>1 DEF QueueInv, QueueTyped
  <1>3. EveryTaskHoldsTheClock'
    BY <1>1 DEF QueueInv, EveryTaskHoldsTheClock, Holders
  <1>4. Beginning' /\ GettersAllowed'
    BY <1>1 DEF QueueInv, Beginning, GettersAllowed, LoopAlive
  <1>5. Served'
    BY <1>1 DEF QueueInv, Served, Scheduled, LoopAlive
  <1> QED BY <1>2, <1>3, <1>4, <1>5 DEF QueueInv

LEMMA ClearKeeps ==
    ASSUME QueueInv, NEW t \in Tasks, Clear(t), UNCHANGED users PROVE QueueInv'
  <1>1. ~OneConsumer'
    BY DEF Clear, OneConsumer
  <1> QED BY <1>1, StillKeeps DEF Clear, Consumer, HasProcessor, QueueInv, QueueTyped

\* What Consumer says of a queue that waits, in terms of events
LEMMA Waiting ==
    ASSUME QueueInv, OneConsumer, NEW e \in Range(get_events), e # Orphan
    PROVE  e \in Tasks /\ data = 0 /\ (main # "returned" => InGet(e)) /\ e = get_events[1]
  <1>1. PICK i \in DOMAIN get_events : e = get_events[i]
    BY DEF Range
  <1>2. e \in Events
    BY <1>1, ElementOfSeq, LenProperties DEF QueueInv, QueueTyped
  <1> QED BY <1>1, <1>2 DEF QueueInv, Consumer, Events

LEMMA EmptyList ==
    Range(<<>>) = {} /\ DOMAIN <<>> = {} /\ <<>> \in Seq(Events)
  BY DEF Range

LEMMA PutFreeKeeps ==
    ASSUME QueueInv, NEW t \in Tasks, HasProcessor(t), get_events = <<>>, data' = data + 1,
           UNCHANGED <<vars, get_events, outcome, users>>
    PROVE  QueueInv'
  <1>1. UNCHANGED <<current_tick, simulation_length, main, pc, op>>
    BY DEF vars
  <1>2. data' \in Nat /\ data' > 0 /\ outcome' \in [Tasks -> Outcomes]
    BY DEF QueueInv, QueueTyped
  <1>3. Consumer'
    <2> SUFFICES ASSUME OneConsumer' PROVE Consumer'
      BY DEF Consumer
    <2>1. OneConsumer
      BY DEF OneConsumer
    <2>2. GetRaisesOnlyTimeout'
      BY <2>1 DEF QueueInv, Consumer, GetRaisesOnlyTimeout
    <2> QED BY <1>1, <1>2, <2>2, EmptyList DEF Consumer
  <1> QED BY <1>2, <1>3, EmptyList, StillKeeps DEF HasProcessor

\* At the end of the simulation nobody sleeps in a get any more
LEMMA NoSleeper ==
    ASSUME QueueInv, NEW t \in Tasks, HasProcessor(t), ~MayCall,
           NEW u \in Tasks, pc[u] = "asleep", op[u] = "get"
    PROVE  FALSE
  <1>1. current_tick >= simulation_length - 1 /\ LoopAlive
    BY Active DEF HasProcessor, QueueInv, QueueTyped
  <1>2. current_tick < due[u] /\ due[u] < simulation_length
    BY <1>1 DEF QueueInv, Served
  <1>3. current_tick \in Nat /\ simulation_length \in Nat /\ due[u] \in Int
    BY DEF QueueInv, QueueTyped
  <1> QED BY <1>1, <1>2, <1>3

\* The item is left and the first waiter taken from the list
LEMMA PutConsumer ==
    ASSUME QueueInv, LoopAlive, get_events # <<>>, data' = data + 1, get_events' = Tail(get_events),
           UNCHANGED <<current_tick, simulation_length, outcome, users>>
    PROVE  Consumer'
  <1> SUFFICES ASSUME OneConsumer' PROVE Consumer'
    BY DEF Consumer
  <1>1. OneConsumer
    BY DEF OneConsumer
  <1>2. get_events \in Seq(Events) /\ data \in Nat
    BY DEF QueueInv, QueueTyped
  <1>3. ASSUME NEW i \in DOMAIN Tail(get_events) PROVE Tail(get_events)[i] = Orphan
    <2>1. i + 1 \in DOMAIN get_events /\ Tail(get_events)[i] = get_events[i + 1] /\ i >= 1
          /\ DOMAIN get_events = 1..Len(get_events) /\ Len(get_events) \in Nat
      BY <1>2, Popped, LenProperties
    <2>2. get_events[i + 1] # Orphan => i + 1 = 1
      BY <1>1, <2>1 DEF QueueInv, Consumer
    <2>3. i \in Int
      <3>1. DOMAIN Tail(get_events) \subseteq Int
        BY <1>2, Popped, LenProperties
      <3> QED BY <3>1
    <2> QED BY <2>1, <2>2, <2>3
  <1>4. current_tick < simulation_length - 1 => Orphan \notin Range(Tail(get_events))
    BY <1>1, <1>2, Popped DEF QueueInv, Consumer
  <1>5. GetRaisesOnlyTimeout'
    BY <1>1 DEF QueueInv, Consumer, GetRaisesOnlyTimeout
  <1> QED BY <1>2, <1>3, <1>4, <1>5 DEF Consumer

LEMMA PutServesKeeps ==
    ASSUME QueueInv, NEW t \in Tasks, Put(t), get_events # <<>>, MayCall, UNCHANGED users
    PROVE  QueueInv'
  <1> DEFINE head == Head(get_events)
             w == <<head, t>>
             next == current_tick + 1
             queue == AddWakeUp(wakeups, next, w)
  <1>1. /\ HasProcessor(t) /\ t \in users.put /\ data' = data + 1 /\ get_events' = Tail(get_events)
        /\ ParkWith(queue, t, "sleep", Clamp(next)) /\ UNCHANGED outcome
    BY DEF Put
  <1>2. /\ LoopAlive /\ pc[t] \in Counted /\ ~InGet(t) /\ pc[t] = "active" /\ current_tick > 0
        /\ current_tick < simulation_length - 1
    BY <1>1, Active DEF HasProcessor, Counted, InGet
  <1>3. /\ current_tick \in Nat /\ simulation_length \in Nat /\ get_events \in Seq(Events)
        /\ IsQueue(wakeups) /\ QueueTyped
    BY DEF QueueInv, QueueTyped, IsQueue
  <1>4. next \in Nat /\ Clamp(next) = next
    BY <1>2, <1>3 DEF Clamp
  <1>5. w \in Events \X Tasks
    BY <1>3, Popped
  <1>6. /\ Extends(queue) /\ next \in DOMAIN queue /\ w \in queue[next]
    <2> HIDE DEF w
    <2>1. IsQueue(queue)
      BY <1>3, <1>4, <1>5, AddTyped
    <2>2. /\ DOMAIN queue = DOMAIN wakeups \cup {next}
          /\ \A k \in DOMAIN wakeups : wakeups[k] \subseteq queue[k]
          /\ w \in queue[next]
      BY AddedWakeUp
    <2>3. next >= current_tick /\ next > 0
      BY <1>3
    <2> HIDE DEF queue, next
    <2> QED BY <2>1, <2>2, <2>3 DEF Extends
  <1>7. "sleep" \in Ops \cup {"get"} /\ next >= current_tick /\ next > 0
    BY <1>3 DEF Ops
  <1> HIDE DEF queue
  <1>14. ParkWith(queue, t, "sleep", next)
    BY <1>1, <1>4
  <1>8. /\ TaskMoves(t) /\ main' = main
        /\ timer_locks' \in Int /\ IsQueue(wakeups') /\ pc' \in [Tasks -> PCs]
        /\ op' \in [Tasks -> Ops \cup {"get"}] /\ due' \in [Tasks -> Int]
        /\ pc'[t] = "asleep" /\ op'[t] = "sleep"
        /\ \A k \in DOMAIN queue : k \in DOMAIN wakeups' /\ queue[k] \subseteq wakeups'[k]
    <2> HIDE DEF next
    <2> QED BY <1>2, <1>4, <1>6, <1>7, <1>14, ParkMoves
  <1>9. QueueTyped'
    <2>1. data' \in Nat /\ get_events' \in Seq(Events)
      BY <1>1, <1>3, Popped DEF QueueTyped
    <2> QED BY <1>1, <1>3, <1>8, <2>1 DEF QueueTyped, TaskMoves, IsQueue
  <1>10. EveryTaskHoldsTheClock' /\ Beginning'
    BY <1>8, LocksFollow, BeginningKept DEF QueueInv
  <1>11. Served'
    <2>1. ASSUME NEW u \in Tasks \ {t}, u \in Range(get_events)
          PROVE  u \in Range(get_events') \/ Scheduled(u)'
      <3>1. CASE u = head
        <4>1. next \in DOMAIN wakeups' /\ <<u, t>> \in wakeups'[next] /\ t \in users'.put
          BY <1>1, <1>6, <1>8, <3>1
        <4> QED BY <1>8, <4>1 DEF Scheduled, TaskMoves
      <3>2. CASE u # head
        BY <1>1, <1>3, <2>1, <3>2, Popped
      <3> QED BY <3>1, <3>2
    <2>2. LoopAlive' => ServedOne(t)'
      BY <1>8 DEF ServedOne
    <2> QED BY <1>2, <1>8, <2>1, <2>2, ServedKept DEF QueueInv, QueueTyped
  <1>12. GettersAllowed'
    BY <1>8 DEF QueueInv, GettersAllowed, TaskMoves
  <1>13. Consumer'
    BY <1>1, <1>2, <1>8, PutConsumer DEF TaskMoves
  <1> QED BY <1>9, <1>10, <1>11, <1>12, <1>13 DEF QueueInv

LEMMA PutKeeps ==
    ASSUME QueueInv, NEW t \in Tasks, Put(t), UNCHANGED users PROVE QueueInv'
  <1>1. CASE get_events = <<>>
    BY <1>1, PutFreeKeeps DEF Put
  <1>2. CASE get_events # <<>> /\ ~MayCall
    <2>1. /\ HasProcessor(t) /\ data' = data + 1 /\ get_events' = Tail(get_events)
          /\ UNCHANGED <<vars, outcome, users>> /\ LoopAlive
          /\ UNCHANGED <<current_tick, simulation_length>>
      BY <1>2 DEF Put, HasProcessor, vars
    <2>2. data' \in Nat /\ get_events' \in Seq(Events) /\ outcome' \in [Tasks -> Outcomes]
      BY <1>2, <2>1, Popped DEF QueueInv, QueueTyped
    <2>3. Consumer'
      BY <1>2, <2>1, PutConsumer
    <2> QED BY <1>2, <2>1, <2>2, <2>3, NoSleeper, StillKeeps
  <1>3. CASE get_events # <<>> /\ MayCall
    BY <1>3, PutServesKeeps
  <1> QED BY <1>1, <1>2, <1>3

LEMMA GetItemKeeps ==
    ASSUME QueueInv, NEW t \in Tasks, HasProcessor(t), t \in users.get, data > 0, get_events = <<>>,
           data' = data - 1, outcome' = [outcome EXCEPT ![t] = "item"],
           UNCHANGED <<vars, get_events, users>>
    PROVE  QueueInv'
  <1>1. UNCHANGED <<current_tick, simulation_length, main, pc, op>> /\ ~InGet(t) /\ LoopAlive
    BY DEF vars, HasProcessor, InGet
  <1>2. data' \in Nat /\ outcome' \in [Tasks -> Outcomes]
    BY DEF QueueInv, QueueTyped, Outcomes
  <1>3. Consumer'
    <2> SUFFICES ASSUME OneConsumer' PROVE Consumer'
      BY DEF Consumer
    <2>1. OneConsumer
      BY DEF OneConsumer
    <2>2. GetRaisesOnlyTimeout'
      BY <2>1 DEF QueueInv, QueueTyped, Consumer, GetRaisesOnlyTimeout
    <2>3. \A u \in Tasks : ~InGet(u)
      BY <1>1, <2>1, TheConsumer
    <2>4. \A u \in Tasks : ~InGet(u)'
      BY <1>1, <2>3 DEF InGet
    <2> QED BY <2>2, <2>4, EmptyList DEF Consumer
  <1> QED BY <1>1, <1>2, <1>3, EmptyList, StillKeeps

LEMMA GetRefusedKeeps ==
    ASSUME QueueInv, NEW t \in Tasks, HasProcessor(t), ~MayCall,
           get_events' = Append(get_events, Orphan),
           outcome' = [outcome EXCEPT ![t] = "SimulatorException"],
           UNCHANGED <<vars, data, users>>
    PROVE  QueueInv'
  <1>1. UNCHANGED <<current_tick, simulation_length, main, pc, op>> /\ LoopAlive
    BY DEF vars, HasProcessor
  <1>2. data' \in Nat /\ outcome' \in [Tasks -> Outcomes] /\ get_events \in Seq(Events)
    BY DEF QueueInv, QueueTyped, Outcomes
  <1>3. /\ get_events' \in Seq(Events) /\ Range(get_events') = Range(get_events) \cup {Orphan}
        /\ \A i \in DOMAIN get_events' :
              get_events'[i] # Orphan => i \in DOMAIN get_events /\ get_events'[i] = get_events[i]
    <2>1. Orphan \in Events
      BY DEF Events
    <2>2. /\ get_events' \in Seq(Events) /\ Range(get_events') = Range(get_events) \cup {Orphan}
          /\ DOMAIN get_events' = 1..Len(get_events) + 1 /\ Len(get_events) \in Nat
          /\ DOMAIN get_events = 1..Len(get_events)
          /\ get_events'[Len(get_events) + 1] = Orphan
          /\ \A i \in DOMAIN get_events : get_events'[i] = get_events[i]
      BY <1>2, <2>1, Registered
    <2> QED BY <2>2
  <1>4. Consumer'
    <2> SUFFICES ASSUME OneConsumer' PROVE Consumer'
      BY DEF Consumer
    <2>1. OneConsumer
      BY DEF OneConsumer
    <2>2. GetRaisesOnlyTimeout'
      BY <2>1 DEF QueueInv, QueueTyped, Consumer, GetRaisesOnlyTimeout
    <2>3. ~(current_tick' < simulation_length' - 1)
      BY <1>1, Active
    <2>4. ASSUME NEW i \in DOMAIN get_events', get_events'[i] # Orphan
          PROVE  i = 1 /\ data' = 0 /\ (main' # "returned" => InGet(get_events[i])')
      BY <1>1, <1>3, <2>1, <2>4 DEF QueueInv, Consumer, InGet
    <2>5. ASSUME main' \notin {"returned", "exit"}, NEW u \in Tasks, InGet(u)'
          PROVE  u \in Range(get_events') \/ data' > 0
      BY <1>1, <1>3, <2>1, <2>5 DEF QueueInv, Consumer, InGet
    <2> QED BY <2>2, <2>3, <2>4, <2>5 DEF Consumer
  <1> QED BY <1>1, <1>2, <1>3, <1>4, StillKeeps

LEMMA TimeoutInTime ==
    ASSUME QueueInv, NEW t \in Tasks, HasProcessor(t), MayCall,
           NEW duration \in Durations \cup {simulation_length}
    PROVE  /\ TimeoutTick(current_tick + duration) \in Nat
           /\ current_tick < TimeoutTick(current_tick + duration)
           /\ TimeoutTick(current_tick + duration) < simulation_length
  <1>1. current_tick \in Nat /\ simulation_length \in Nat /\ duration \in Nat
    BY TimeAssumption DEF QueueInv, QueueTyped
  <1>2. current_tick < simulation_length - 1
    BY Active
  <1> QED BY <1>1, <1>2 DEF TimeoutTick

LEMMA GetWaitsKeeps ==
    ASSUME QueueInv, NEW t \in Tasks, HasProcessor(t), t \in users.get, MayCall,
           data = 0 \/ get_events # <<>>, get_events' = Append(get_events, t),
           NEW tick \in Nat, current_tick < tick, tick < simulation_length, Park(t, "get", tick),
           outcome' = [outcome EXCEPT ![t] = "none"], UNCHANGED <<data, users>>
    PROVE  QueueInv'
  <1>1. QueueTyped /\ get_events \in Seq(Events)
    BY DEF QueueInv, QueueTyped
  <1>2. /\ LoopAlive /\ pc[t] \in Counted /\ ~InGet(t) /\ pc[t] = "active" /\ current_tick > 0
        /\ current_tick < simulation_length - 1
    BY Active DEF HasProcessor, Counted, InGet
  <1>3. tick >= current_tick /\ tick > 0 /\ "get" \in Ops \cup {"get"}
    BY <1>1 DEF QueueTyped
  <1>4. ParkWith(wakeups, t, "get", tick)
    BY DEF Park
  <1>5. /\ TaskMoves(t) /\ main' = main
        /\ timer_locks' \in Int /\ IsQueue(wakeups') /\ pc' \in [Tasks -> PCs]
        /\ op' \in [Tasks -> Ops \cup {"get"}] /\ due' \in [Tasks -> Int]
        /\ pc'[t] = "asleep" /\ op'[t] = "get" /\ due'[t] = tick
        /\ tick \in DOMAIN wakeups' /\ <<t, t>> \in wakeups'[tick]
    BY <1>1, <1>2, <1>3, <1>4, ParkMoves, ExtendsItself
  <1>6. /\ get_events' \in Seq(Events) /\ Range(get_events') = Range(get_events) \cup {t}
        /\ DOMAIN get_events' = 1..Len(get_events) + 1
        /\ get_events'[Len(get_events) + 1] = t
    <2>1. t \in Events
      BY DEF Events
    <2> QED BY <1>1, <2>1, Registered
  <1>7. QueueTyped'
    <2>1. outcome' \in [Tasks -> Outcomes]
      BY <1>1 DEF QueueTyped, Outcomes
    <2> QED BY <1>1, <1>5, <1>6, <2>1 DEF QueueTyped, TaskMoves, IsQueue
  <1>8. EveryTaskHoldsTheClock' /\ Beginning'
    BY <1>5, LocksFollow, BeginningKept DEF QueueInv
  <1>9. Served'
    <2>1. ServedOne(t)'
      BY <1>5, <1>6 DEF ServedOne, TaskMoves
    <2> QED BY <1>2, <1>5, <1>6, <2>1, ServedKept DEF QueueInv, QueueTyped
  <1>10. GettersAllowed'
    BY <1>5 DEF QueueInv, GettersAllowed, TaskMoves
  <1>11. Consumer'
    <2> SUFFICES ASSUME OneConsumer' PROVE Consumer'
      BY DEF Consumer
    <2>1. OneConsumer
      BY DEF OneConsumer
    <2>2. GetRaisesOnlyTimeout'
      BY <1>1, <2>1 DEF QueueInv, QueueTyped, Consumer, GetRaisesOnlyTimeout
    <2>3. \A u \in Tasks : ~InGet(u)
      BY <1>2, <2>1, TheConsumer
    <2>4. Orphan \notin Range(get_events)
      BY <1>2, <2>1 DEF QueueInv, Consumer
    <2>5. Range(get_events) = {}
      <3> SUFFICES ASSUME NEW e \in Range(get_events) PROVE FALSE
        OBVIOUS
      <3>1. e # Orphan
        BY <2>4
      <3>2. e \in Tasks /\ (main # "returned" => InGet(e))
        BY <2>1, <3>1, Waiting
      <3> QED BY <1>2, <2>3, <3>2 DEF LoopAlive
    <2>6. Len(get_events) = 0 /\ get_events = <<>>
      <3>1. DOMAIN get_events = {} /\ DOMAIN get_events = 1..Len(get_events) /\ Len(get_events) \in Nat
        BY <1>1, <2>5, LenProperties DEF Range
      <3>2. Len(get_events) = 0
        BY <3>1
      <3> QED BY <1>1, <3>2, EmptySeq
    <2>7. data' = 0
      BY <2>6
    <2>8. t # Orphan
      BY QueueAssumption
    <2>9. ASSUME NEW i \in DOMAIN get_events'
          PROVE  i = 1 /\ get_events'[i] = t
      BY <1>6, <2>6
    <2>10. InGet(t)'
      BY <1>5 DEF InGet
    <2>11. \A u \in Tasks \ {t} : ~InGet(u)'
      BY <1>5, <2>3 DEF InGet, TaskMoves
    <2>12. Orphan \notin Range(get_events') /\ t \in Range(get_events')
      BY <1>6, <2>5, <2>8
    <2> QED BY <2>2, <2>7, <2>9, <2>10, <2>11, <2>12 DEF Consumer
  <1> QED BY <1>7, <1>8, <1>9, <1>10, <1>11 DEF QueueInv

LEMMA GetKeeps ==
    ASSUME QueueInv, NEW t \in Tasks, NEW duration \in Durations \cup {simulation_length},
           Get(t, current_tick + duration), UNCHANGED users
    PROVE  QueueInv'
  <1>1. HasProcessor(t) /\ t \in users.get
    BY DEF Get
  <1>2. CASE /\ data > 0 /\ get_events = <<>>
             /\ data' = data - 1
             /\ outcome' = [outcome EXCEPT ![t] = "item"]
             /\ UNCHANGED <<vars, get_events>>
    BY <1>1, <1>2, GetItemKeeps
  <1>3. CASE /\ data = 0 \/ get_events # <<>>
             /\ MayCall
             /\ get_events' = Append(get_events, t)
             /\ Park(t, "get", TimeoutTick(current_tick + duration))
             /\ outcome' = [outcome EXCEPT ![t] = "none"]
             /\ UNCHANGED <<clientVars, data>>
    <2>1. PICK tick \in Nat : /\ tick = TimeoutTick(current_tick + duration)
                              /\ current_tick < tick /\ tick < simulation_length
      BY <1>1, <1>3, TimeoutInTime
    <2> QED BY <1>1, <1>3, <2>1, GetWaitsKeeps
  <1>4. CASE /\ ~MayCall
             /\ get_events' = Append(get_events, Orphan)
             /\ outcome' = [outcome EXCEPT ![t] = "SimulatorException"]
             /\ UNCHANGED <<vars, data>>
    BY <1>1, <1>4, GetRefusedKeeps
  <1> QED BY <1>2, <1>3, <1>4 DEF Get

\* A getter gets the processor back
LEMMA ResumeGetMoves ==
    ASSUME QueueInv, NEW t \in Tasks, ResumeGet(t), UNCHANGED users
    PROVE  /\ TaskMoves(t) /\ current_tick > 0 /\ InGet(t) /\ ~InGet(t)' /\ op'[t] = "none"
           /\ timer_locks' \in Int /\ IsQueue(wakeups') /\ pc' \in [Tasks -> PCs]
           /\ op' \in [Tasks -> Ops \cup {"get"}] /\ due' \in [Tasks -> Int]
           /\ pc'[t] = "active"
  <1>1. QueueTyped /\ LoopAlive /\ pc[t] = "woken" /\ op[t] = "get"
    BY DEF QueueInv, ResumeGet
  <1>2. /\ wakeups' = RemoveEvent(wakeups, t) /\ main' \in {main, "exit"}
        /\ pc' = [pc EXCEPT ![t] = "active"] /\ op' = [op EXCEPT ![t] = "none"]
        /\ due' = [due EXCEPT ![t] = 0]
        /\ UNCHANGED <<current_tick, simulation_length, timer_locks>>
    BY DEF ResumeGet, Proceed
  <1>3. /\ pc'[t] = "active" /\ op'[t] = "none" /\ pc' \in [Tasks -> PCs]
        /\ op' \in [Tasks -> Ops \cup {"get"}] /\ due' \in [Tasks -> Int]
        /\ \A u \in Tasks \ {t} : pc'[u] = pc[u] /\ op'[u] = op[u] /\ due'[u] = due[u]
    BY <1>1, <1>2 DEF QueueTyped, PCs, Ops
  <1>4. current_tick > 0 /\ main # "setup" /\ main # "returned"
    <2>1. current_tick # 0 /\ current_tick \in Nat
      BY <1>1 DEF QueueInv, QueueTyped, Beginning, LoopAlive
    <2> QED BY <1>1, <2>1 DEF LoopAlive
  <1>5. IsQueue(wakeups') /\ DOMAIN wakeups' = DOMAIN wakeups
    BY <1>1, <1>2 DEF QueueTyped, IsQueue, RemoveEvent
  <1>6. \A k \in DOMAIN wakeups : \A u \in Tasks \ {t}, p \in Tasks :
            <<u, p>> \in wakeups[k] => <<u, p>> \in wakeups'[k]
    BY <1>2 DEF RemoveEvent
  <1>7. TaskMoves(t)
    BY <1>1, <1>2, <1>3, <1>4, <1>5, <1>6 DEF TaskMoves, Counted
  <1> QED BY <1>1, <1>2, <1>3, <1>4, <1>5, <1>7 DEF InGet, QueueTyped

LEMMA ResumeGetKeeps ==
    ASSUME QueueInv, NEW t \in Tasks, ResumeGet(t), UNCHANGED users PROVE QueueInv'
  <1>1. QueueTyped /\ LoopAlive /\ get_events \in Seq(Events) /\ data \in Nat
    BY DEF QueueInv, QueueTyped, ResumeGet
  <1>2. /\ TaskMoves(t) /\ InGet(t) /\ ~InGet(t)' /\ op'[t] = "none" /\ pc'[t] = "active"
        /\ timer_locks' \in Int /\ IsQueue(wakeups') /\ pc' \in [Tasks -> PCs]
        /\ op' \in [Tasks -> Ops \cup {"get"}] /\ due' \in [Tasks -> Int]
    BY ResumeGetMoves
  <1>3. \/ /\ data > 0 /\ data' = data - 1 /\ get_events' = ReplaceAll(get_events, t, Orphan)
           /\ outcome' = [outcome EXCEPT ![t] = "item"] /\ main' = main
        \/ /\ data = 0 /\ t \in Range(get_events) /\ get_events' = RemoveFirst(get_events, t)
           /\ outcome' = [outcome EXCEPT ![t] = "TimeoutError"] /\ data' = data /\ main' = main
        \/ /\ data = 0 /\ t \notin Range(get_events) /\ UNCHANGED <<data, get_events>>
           /\ outcome' = [outcome EXCEPT ![t] = "ValueError"] /\ main' = "exit"
    BY DEF ResumeGet
  <1>4. /\ get_events' \in Seq(Events)
        /\ \A u \in Range(get_events) \ {t} : u \in Range(get_events')
    BY <1>1, <1>3, Replaced, Removed
  <1>5. QueueTyped'
    <2>1. PICK end \in Outcomes : outcome' = [outcome EXCEPT ![t] = end]
      BY <1>3 DEF Outcomes
    <2>2. outcome' \in [Tasks -> Outcomes]
      BY <1>1, <2>1 DEF QueueTyped
    <2>3. data' \in Nat
      BY <1>1, <1>3
    <2>4. main' \in Mains
      BY <1>1, <1>3 DEF QueueTyped, Mains
    <2> QED BY <1>1, <1>2, <1>4, <2>2, <2>3, <2>4 DEF QueueTyped, TaskMoves, IsQueue
  <1>6. EveryTaskHoldsTheClock' /\ Beginning'
    BY <1>2, LocksFollow, BeginningKept DEF QueueInv
  <1>7. Served'
    <2>1. ServedOne(t)'
      BY <1>2 DEF ServedOne
    <2> QED BY <1>1, <1>2, <1>4, <2>1, ServedKept DEF QueueInv, QueueTyped
  <1>8. GettersAllowed'
    BY <1>2 DEF QueueInv, GettersAllowed, TaskMoves
  <1>9. Consumer'
    <2> SUFFICES ASSUME OneConsumer' PROVE Consumer'
      BY DEF Consumer
    <2>1. OneConsumer /\ t \in users.get
      BY <1>2 DEF OneConsumer, TaskMoves, QueueInv, GettersAllowed, InGet
    <2>2. \A u \in Tasks : ~InGet(u)'
      <3> SUFFICES ASSUME NEW u \in Tasks, u # t PROVE ~InGet(u)'
        BY <1>2
      <3>1. ~InGet(u)
        BY <2>1, TheConsumer
      <3> QED BY <1>2, <3>1 DEF InGet, TaskMoves
    <2>3. t \in Range(get_events) \/ data > 0
      BY <1>1, <1>2, <2>1 DEF QueueInv, Consumer, LoopAlive
    <2>4. outcome'[t] # "ValueError"
      BY <1>1, <1>3, <2>3 DEF QueueTyped
    <2>5. GetRaisesOnlyTimeout'
      <3>1. \A u \in Tasks \ {t} : outcome'[u] = outcome[u]
        BY <1>1, <1>3 DEF QueueTyped
      <3> QED BY <2>1, <2>4, <3>1 DEF QueueInv, Consumer, GetRaisesOnlyTimeout
    <2>6. \A e \in Range(get_events') : e = Orphan /\ e \in Range(get_events)
      <3>1. CASE data > 0
        <4>1. \A e \in Range(get_events) : e = Orphan
          BY <2>1, <3>1, Waiting
        <4>2. t # Orphan
          BY QueueAssumption
        <4>3. t \notin Range(get_events)
          BY <4>1, <4>2
        <4>4. get_events' = get_events
          BY <1>1, <1>3, <3>1, <4>3, Replaced
        <4> QED BY <4>1, <4>4
      <3>2. CASE data = 0
        <4>1. t \in Range(get_events) /\ get_events' = RemoveFirst(get_events, t)
          BY <1>3, <2>3, <3>2
        <4>2. \A i \in DOMAIN get_events : get_events[i] # Orphan => i = 1
          BY <2>1 DEF QueueInv, Consumer
        <4> QED BY <1>1, <4>1, <4>2, Removed
      <3> QED BY <1>1, <3>1, <3>2
    <2>7. \A i \in DOMAIN get_events' : get_events'[i] = Orphan
      BY <2>6 DEF Range
    <2>8. current_tick' < simulation_length' - 1 => Orphan \notin Range(get_events')
      BY <1>2, <2>1, <2>6 DEF QueueInv, Consumer, TaskMoves
    <2> QED BY <2>2, <2>5, <2>7, <2>8 DEF Consumer
  <1> QED BY <1>5, <1>6, <1>7, <1>8, <1>9 DEF QueueInv

-----------------------------------------------------------------------------
(* run and its loop.                                                       *)

LEMMA RunKeeps ==
    ASSUME QueueInv, NEW length \in Lengths, Run(length), UNCHANGED queueVars PROVE QueueInv'
  <1>1. /\ main = "setup" /\ main' = "looping" /\ simulation_length' = length
        /\ UNCHANGED <<current_tick, timer_locks, wakeups, pc, op, due, data, get_events, outcome, users>>
    BY DEF Run, queueVars
  <1>2. /\ current_tick = 0 /\ get_events = <<>> /\ \A t \in Tasks : pc[t] \in {"absent", "created"}
    BY <1>1 DEF QueueInv, Beginning
  <1>3. QueueTyped'
    BY <1>1, TimeAssumption DEF QueueInv, QueueTyped, Mains
  <1>4. EveryTaskHoldsTheClock'
    BY <1>1 DEF QueueInv, EveryTaskHoldsTheClock, Holders
  <1>5. Beginning' /\ GettersAllowed' /\ Served'
    BY <1>1, <1>2 DEF QueueInv, Beginning, GettersAllowed, Served
  <1>6. Consumer'
    BY <1>1, <1>2, EmptyList DEF QueueInv, Consumer, OneConsumer, GetRaisesOnlyTimeout, InGet
  <1> QED BY <1>3, <1>4, <1>5, <1>6 DEF QueueInv

LEMMA DrainKeeps ==
    ASSUME QueueInv, Drain, UNCHANGED queueVars PROVE QueueInv'
  <1>1. /\ main = "looping" /\ main' = "drained" /\ current_tick' = simulation_length
        /\ current_tick < simulation_length /\ DOMAIN wakeups = {}
        /\ UNCHANGED <<simulation_length, timer_locks, wakeups, pc, op, due, data, get_events,
                       outcome, users>>
    BY DEF Drain, queueVars
  <1>2. current_tick \in Nat /\ simulation_length \in Nat
    BY DEF QueueInv, QueueTyped
  <1>3. QueueTyped'
    BY <1>1 DEF QueueInv, QueueTyped, Mains
  <1>4. EveryTaskHoldsTheClock'
    BY <1>1 DEF QueueInv, EveryTaskHoldsTheClock, Holders
  <1>5. Beginning' /\ GettersAllowed' /\ Served'
    BY <1>1, <1>2 DEF QueueInv, Beginning, GettersAllowed, Served, LoopAlive
  <1>6. Consumer'
    <2>1. ~(current_tick' < simulation_length' - 1)
      BY <1>1, <1>2
    <2> QED BY <1>1, <2>1 DEF QueueInv, Consumer, OneConsumer, GetRaisesOnlyTimeout, InGet
  <1> QED BY <1>3, <1>4, <1>5, <1>6 DEF QueueInv

LEMMA EndLoopKeeps ==
    ASSUME QueueInv, EndLoop, UNCHANGED queueVars PROVE QueueInv'
  <1>1. /\ main = "looping" /\ main' = "ended"
        /\ UNCHANGED <<current_tick, simulation_length, timer_locks, wakeups, pc, op, due, data,
                       get_events, outcome, users>>
    BY DEF EndLoop, queueVars
  <1>2. QueueTyped'
    BY <1>1 DEF QueueInv, QueueTyped, Mains
  <1>3. EveryTaskHoldsTheClock'
    BY <1>1 DEF QueueInv, EveryTaskHoldsTheClock, Holders
  <1>4. Beginning' /\ GettersAllowed'
    BY <1>1 DEF QueueInv, Beginning, GettersAllowed
  <1>5. Served'
    BY <1>1 DEF QueueInv, Served, LoopAlive, Scheduled
  <1>6. Consumer'
    BY <1>1 DEF QueueInv, Consumer, OneConsumer, GetRaisesOnlyTimeout, InGet
  <1> QED BY <1>2, <1>3, <1>4, <1>5, <1>6 DEF QueueInv

LEMMA CancelAllKeeps ==
    ASSUME QueueInv, CancelAll, UNCHANGED queueVars PROVE QueueInv'
  <1>1. /\ main \in {"ended", "drained"} /\ main' = "returned"
        /\ UNCHANGED <<current_tick, simulation_length, timer_locks, wakeups, op, due, data,
                       get_events, outcome, users>>
        /\ pc' = [t \in Tasks |-> IF pc[t] \in {"absent", "done", "dead"} THEN pc[t] ELSE "cancelled"]
    BY DEF CancelAll, queueVars
  <1>2. QueueTyped'
    <2>1. pc' \in [Tasks -> PCs]
      BY <1>1 DEF QueueInv, QueueTyped, PCs
    <2> QED BY <1>1, <2>1 DEF QueueInv, QueueTyped, Mains
  <1>3. EveryTaskHoldsTheClock' /\ Beginning' /\ GettersAllowed' /\ Served'
    BY <1>1 DEF QueueInv, EveryTaskHoldsTheClock, Beginning, GettersAllowed, Served, LoopAlive
  <1>4. Consumer'
    BY <1>1 DEF QueueInv, Consumer, OneConsumer, GetRaisesOnlyTimeout
  <1> QED BY <1>2, <1>3, <1>4 DEF QueueInv

\* The loop takes the first entry of the queue
AdvanceTo(tick) ==
    /\ main = "looping" /\ timer_locks = 0 /\ IsNextTick(tick) /\ current_tick' = tick
    /\ wakeups' = [k \in DOMAIN wakeups \ {tick} |-> wakeups[k]]
    /\ timer_locks' = timer_locks + Cardinality(wakeups[tick])
    /\ pc' = [t \in Tasks |-> IF pc[t] = "asleep" /\ \E w \in wakeups[tick] : w[1] = t
                                THEN "woken" ELSE pc[t]]
    /\ UNCHANGED <<simulation_length, main, op, due, data, get_events, outcome, users>>

\* An entry has at least one wake-up for every task it wakes
LEMMA WokenAreCounted ==
    ASSUME QueueInv, NEW tick \in DOMAIN wakeups, AdvanceTo(tick)
    PROVE  timer_locks' \in Int /\ timer_locks' >= Cardinality(Holders')
  <1> DEFINE W == wakeups[tick]
             f == [w \in W |-> w[1]]
             Image == {f[w] : w \in W}
  <1>1. W \in SUBSET (Events \X Tasks)
    BY DEF QueueInv, QueueTyped
  <1>2. IsFiniteSet(W)
    <2>1. IsFiniteSet(Events)
      BY TasksAssumption, FS_AddElement DEF Events
    <2>2. IsFiniteSet(Events \X Tasks)
      BY <2>1, TasksAssumption, FS_Product
    <2> QED BY <1>1, <2>2, FS_Subset
  <1>3. IsFiniteSet(Image) /\ Cardinality(Image) <= Cardinality(W)
    <2> HIDE DEF W
    <2>1. f \in [W -> Image]
      OBVIOUS
    <2>2. f \in Surjection(W, Image)
      BY <2>1 DEF Surjection
    <2> HIDE DEF f, Image
    <2> QED BY <1>2, <2>2, FS_Surjection
  <1>4. Holders = {}
    <2>1. Cardinality(Holders) <= 0 /\ Cardinality(Holders) \in Nat /\ IsFiniteSet(Holders)
      BY HoldersFinite DEF QueueInv, EveryTaskHoldsTheClock, AdvanceTo
    <2> QED BY <2>1, FS_EmptySet
  <1>5. Holders' \subseteq Image
    <2> SUFFICES ASSUME NEW t \in Tasks, pc'[t] \in Counted PROVE t \in Image
      BY DEF Holders
    <2>1. pc[t] \notin Counted
      BY <1>4 DEF Holders
    <2>2. PICK w \in W : w[1] = t
      BY <2>1 DEF AdvanceTo
    <2>3. f[w] = t
      BY <2>2
    <2> QED BY <2>3
  <1>6. Cardinality(Holders') <= Cardinality(Image)
    BY <1>3, <1>5, FS_Subset
  <1>7. Cardinality(W) \in Nat /\ Cardinality(Image) \in Nat /\ Cardinality(Holders') \in Nat
    BY <1>2, <1>3, FS_CardinalityType, HoldersFinite
  <1>8. timer_locks' = Cardinality(W)
    BY <1>7 DEF AdvanceTo
  <1> HIDE DEF W, Image
  <1> QED BY <1>3, <1>6, <1>7, <1>8

LEMMA AdvanceServes ==
    ASSUME QueueInv, NEW tick \in DOMAIN wakeups, AdvanceTo(tick), NEW u \in Tasks
    PROVE  ServedOne(u)'
  <1> SUFFICES ASSUME pc'[u] = "asleep", op'[u] = "get" PROVE ServedOne(u)'
    BY DEF ServedOne
  <1>1. /\ pc[u] = "asleep" /\ op[u] = "get" /\ \A w \in wakeups[tick] : w[1] # u
    BY DEF AdvanceTo
  <1>2. ServedOne(u)
    BY DEF QueueInv, Served, ServedOne, LoopAlive, AdvanceTo
  <1>3. /\ current_tick \in Nat /\ due[u] \in Int /\ tick \in Nat /\ tick >= current_tick
        /\ \A k \in DOMAIN wakeups : k \in Nat /\ tick <= k
    BY DEF QueueInv, QueueTyped, Beginning, AdvanceTo, IsNextTick
  <1>4. \A p \in Tasks : <<u, p>> \notin wakeups[tick]
    <2> SUFFICES ASSUME NEW p \in Tasks, <<u, p>> \in wakeups[tick] PROVE FALSE
      OBVIOUS
    <2>1. <<u, p>>[1] = u
      OBVIOUS
    <2> QED BY <1>1, <2>1
  <1>5. \A k \in DOMAIN wakeups \ {tick} : k \in DOMAIN wakeups' /\ wakeups'[k] = wakeups[k]
    BY DEF AdvanceTo
  <1>6. due[u] # tick
    BY <1>1, <1>2, <1>4 DEF ServedOne
  <1>7. tick < due[u] /\ due[u] < simulation_length /\ due[u] \in DOMAIN wakeups'
        /\ <<u, u>> \in wakeups'[due[u]]
    BY <1>1, <1>2, <1>3, <1>5, <1>6 DEF ServedOne
  <1>8. u \in Range(get_events) \/ (tick + 1 \in DOMAIN wakeups'
                                    /\ \E p \in users.put : <<u, p>> \in wakeups'[tick + 1])
    <2>1. CASE u \in Range(get_events)
      BY <2>1
    <2>2. CASE Scheduled(u)
      <3>1. users.put \subseteq Tasks
        BY QueueAssumption DEF QueueInv, QueueTyped
      <3>2. current_tick + 1 # tick
        BY <1>4, <2>2, <3>1 DEF Scheduled
      <3>3. tick = current_tick
        BY <1>3, <2>2, <3>2 DEF Scheduled
      <3>4. tick + 1 # tick
        BY <1>3
      <3> QED BY <1>5, <2>2, <3>3, <3>4 DEF Scheduled
    <2> QED BY <1>1, <1>2, <2>1, <2>2 DEF ServedOne
  <1> QED BY <1>1, <1>7, <1>8 DEF ServedOne, Scheduled, AdvanceTo

LEMMA AdvanceKeeps ==
    ASSUME QueueInv, Advance, UNCHANGED queueVars PROVE QueueInv'
  <1>1. PICK tick \in DOMAIN wakeups : AdvanceTo(tick)
    BY DEF Advance, AdvanceTo, queueVars
  <1>2. QueueTyped
    BY DEF QueueInv
  <1>3. /\ tick \in Nat /\ tick >= current_tick /\ tick > 0 /\ main = "looping" /\ main' = main
        /\ current_tick' = tick /\ UNCHANGED <<simulation_length, op, due, data, get_events, outcome, users>>
    BY <1>1, <1>2 DEF QueueInv, QueueTyped, Beginning, AdvanceTo
  <1>4. /\ \A k \in DOMAIN wakeups' : k \in DOMAIN wakeups /\ wakeups'[k] = wakeups[k] /\ tick <= k
        /\ wakeups' \in [DOMAIN wakeups' -> SUBSET (Events \X Tasks)]
    BY <1>1, <1>2 DEF AdvanceTo, IsNextTick, QueueTyped
  <1>5. timer_locks' \in Int /\ EveryTaskHoldsTheClock'
    BY <1>1, WokenAreCounted DEF EveryTaskHoldsTheClock
  <1>6. QueueTyped'
    <2>1. pc' \in [Tasks -> PCs]
      BY <1>1, <1>2 DEF AdvanceTo, QueueTyped, PCs
    <2>2. DOMAIN wakeups' \subseteq Nat
      BY <1>2, <1>4 DEF QueueTyped
    <2> QED BY <1>2, <1>3, <1>4, <1>5, <2>1, <2>2 DEF QueueTyped
  <1>7. Beginning'
    <2>1. \A k \in DOMAIN wakeups' : k >= current_tick' /\ k > 0
      BY <1>2, <1>3, <1>4 DEF QueueInv, Beginning, QueueTyped
    <2> QED BY <1>3, <2>1 DEF Beginning
  <1>8. Served'
    BY <1>1, AdvanceServes DEF Served, ServedOne
  <1>9. GettersAllowed'
    BY <1>3 DEF QueueInv, GettersAllowed
  <1>10. Consumer'
    <2>1. ASSUME NEW u \in Tasks PROVE InGet(u)' <=> InGet(u)
      BY <1>1, <1>3 DEF InGet, AdvanceTo
    <2>2. \A i \in DOMAIN get_events : get_events[i] # Orphan => get_events[i] \in Tasks
      BY <1>2, ElementOfSeq, LenProperties DEF QueueTyped, Events
    <2>3. current_tick' < simulation_length' - 1 => current_tick < simulation_length - 1
      BY <1>2, <1>3 DEF QueueTyped
    <2> QED BY <1>3, <2>1, <2>2, <2>3 DEF QueueInv, Consumer, OneConsumer, GetRaisesOnlyTimeout
  <1> QED BY <1>5, <1>6, <1>7, <1>8, <1>9, <1>10 DEF QueueInv

LEMMA StutterKeeps ==
    ASSUME QueueInv, UNCHANGED allVars PROVE QueueInv'
  <1>1. UNCHANGED <<current_tick, simulation_length, timer_locks, wakeups, main, pc, op, due,
                    data, get_events, outcome, users>>
    BY DEF allVars, vars, queueVars
  <1>2. QueueTyped' /\ EveryTaskHoldsTheClock' /\ Beginning'
    BY <1>1 DEF QueueInv, QueueTyped, EveryTaskHoldsTheClock, Holders, Beginning
  <1>3. Served' /\ GettersAllowed'
    BY <1>1 DEF QueueInv, Served, LoopAlive, Scheduled, GettersAllowed
  <1>4. Consumer'
    BY <1>1 DEF QueueInv, Consumer, OneConsumer, GetRaisesOnlyTimeout, InGet
  <1> QED BY <1>2, <1>3, <1>4 DEF QueueInv

-----------------------------------------------------------------------------
(* The theorems.                                                           *)

LEMMA QueueStart == QueueInit => QueueInv
  <1> SUFFICES ASSUME QueueInit PROVE QueueInv
    OBVIOUS
  <1> USE DEF QueueInit, Init
  <1>1. QueueTyped
    BY EmptyList DEF QueueTyped, Mains, PCs, Ops, Outcomes
  <1>2. EveryTaskHoldsTheClock
    <2>1. Holders = {}
      BY DEF Holders, Counted
    <2> QED BY <2>1, FS_EmptySet DEF EveryTaskHoldsTheClock
  <1>3. Beginning /\ Served /\ GettersAllowed
    BY DEF Beginning, Served, GettersAllowed, LoopAlive
  <1>4. Consumer
    BY EmptyList DEF Consumer, GetRaisesOnlyTimeout, InGet
  <1> QED BY <1>1, <1>2, <1>3, <1>4 DEF QueueInv

LEMMA QueueSteps == QueueInv /\ [QueueNext]_allVars => QueueInv'
  <1> SUFFICES ASSUME QueueInv, [QueueNext]_allVars PROVE QueueInv'
    OBVIOUS
  <1>1. CASE KernelStep /\ UNCHANGED queueVars
    <2>1. ASSUME NEW t \in Tasks,
                 \/ CreateTask(t) \/ StartRoot(t) \/ Finish(t)
                 \/ \E duration \in Durations : Sleep(t, duration)
                 \/ ResumeStart(t) \/ ResumeSleep(t)
          PROVE  QueueInv'
      BY <1>1, <2>1, CreateTaskKeeps, StartRootKeeps, FinishKeeps, SleepKeeps, ResumeStartKeeps,
         ResumeSleepKeeps
    <2>2. ASSUME NEW length \in Lengths, Run(length) PROVE QueueInv'
      BY <1>1, <2>2, RunKeeps
    <2>3. ASSUME MainStep PROVE QueueInv'
      BY <1>1, <2>3, AdvanceKeeps, DrainKeeps, EndLoopKeeps, CancelAllKeeps DEF MainStep
    <2>4. ASSUME Over PROVE QueueInv'
      BY <1>1, <2>4, StutterKeeps DEF Over, allVars
    <2> QED BY <1>1, <2>1, <2>2, <2>3, <2>4 DEF KernelStep
  <1>2. CASE QueueStep /\ UNCHANGED users
    BY <1>2, PutKeeps, GetKeeps, ResumeGetKeeps, ClearKeeps DEF QueueStep
  <1>3. CASE UNCHANGED allVars
    BY <1>3, StutterKeeps
  <1> QED BY <1>1, <1>2, <1>3 DEF QueueNext

\* The queue's invariant holds throughout, whoever puts, gets and clears: what the variables are,
\* that the clock waits for the tasks that run, that getters are registered or scheduled, and what
\* the list of a single consumer looks like (queue.py:27-108 on environment.py).
THEOREM QueueInvariant == QueueSpec => []QueueInv
  BY QueueStart, QueueSteps, PTL DEF QueueSpec

\* An event scheduled twice, by the getter's own timeout and by the put that serves it, never
\* leaves a running task without its count of timer_locks (queue.py:49-56, environment.py:123-129).
THEOREM ClockWaitsForQueueUsers == QueueSpec => []EveryTaskHoldsTheClock
  <1>1. QueueInv => EveryTaskHoldsTheClock
    BY DEF QueueInv
  <1> QED BY <1>1, QueueInvariant, PTL

\* A getter that sleeps has its timeout in the wake-up queue, and if a put has taken it from the
\* list, the put's wake-up at the next tick too (queue.py:48-56, 96-101).
THEOREM GettersAreServed == QueueSpec => []SleepingGetterIsServed
  <1>1. QueueInv => SleepingGetterIsServed
    <2> SUFFICES ASSUME QueueInv, LoopAlive, NEW t \in Tasks, pc[t] = "asleep", op[t] = "get"
                 PROVE  /\ current_tick <= due[t]
                        /\ due[t] \in DOMAIN wakeups /\ <<t, t>> \in wakeups[due[t]]
                        /\ \/ t \in Range(get_events)
                           \/ /\ current_tick + 1 \in DOMAIN wakeups
                              /\ \E p \in users.put : <<t, p>> \in wakeups[current_tick + 1]
      BY DEF SleepingGetterIsServed, LoopAlive
    <2>1. current_tick \in Nat /\ due[t] \in Int
      BY DEF QueueInv, QueueTyped
    <2> QED BY <2>1 DEF QueueInv, Served, Scheduled
  <1> QED BY <1>1, QueueInvariant, PTL

\* With one consumer a get that finds no item raises the documented TimeoutError and never the
\* ValueError of a list.remove that comes too late (queue.py:73, 103-106).
THEOREM TimeoutsAreDocumented == QueueSpec => []GetRaisesOnlyTimeout
  <1>1. QueueInv => GetRaisesOnlyTimeout
    BY DEF QueueInv, Consumer, GetRaisesOnlyTimeout
  <1> QED BY <1>1, QueueInvariant, PTL

\* With one consumer no live waiter stands in the list beside an item, so the immediate path of
\* __get overtakes nobody (queue.py:80-82).
THEOREM ItemsFindTheirGetter == QueueSpec => []NobodyWaitsBesideAnItem
  <1>1. QueueInv => NobodyWaitsBesideAnItem
    BY DEF QueueInv, QueueTyped, Consumer, NobodyWaitsBesideAnItem
  <1> QED BY <1>1, QueueInvariant, PTL

=============================================================================
