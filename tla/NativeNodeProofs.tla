-------------------------- MODULE NativeNodeProofs --------------------------
(***************************************************************************)
(* The two halves of the native nodes, for any number of nodes, any        *)
(* durations and any calls: firmware that waits for each of its calls has  *)
(* exactly those open that the loop still works on or has signalled, it    *)
(* holds one timer lock while it computes, beside those that the receive   *)
(* queue leaks, and sleeps for as long as it asks.                         *)
(***************************************************************************)
EXTENDS NativeNode, FiniteSetTheorems, TLAPS

-----------------------------------------------------------------------------
(* The inductive invariant.                                                *)

\* What the proofs need of the variables' types
NativeTyped ==
    /\ now \in 0..Length
    /\ timer_locks \in Int /\ leaked \in Nat
    /\ main \in {"looping", "frozen", "ended", "closed"}
    /\ cpc \in [Nodes -> CPCs]
    /\ call \in [Nodes -> FnCalls]
    /\ task \in [Nodes -> [Slots -> TaskRecords]]
    /\ ready \in [Nodes -> [Kinds -> BOOLEAN]]
    /\ asked \in [Nodes -> 0..Length]
    /\ open \in [Nodes -> SUBSET Kinds]
    /\ quiet \in BOOLEAN

\* The main loop leaves its while at the end only, and its assertion holds with firmware that
\* waits for its calls
EndsAtLength == main \in {"ended", "closed"} => now = Length
NeverFrozen  == quiet => main # "frozen"

\* The thread is in a call exactly where it has something to wait for
Waiting(n) == cpc[n] \in {"check", "test", "blocked", "reset"}

\* A node has nothing open, or one call, on which one task works or which is signalled
Outstanding(n) ==
    /\ \A s \in Slots : Ready(n, s) => Live(n, s)
    /\ \A s \in Slots : Live(n, s) =>
           /\ open[n] = {task[n][s].kind}
           /\ \A k \in Kinds : ~ready[n][k]
           /\ \A r \in Slots : Live(n, r) => r = s
    /\ \A k \in Kinds : ready[n][k] => open[n] = {k}
    /\ \A k \in open[n] : ready[n][k] \/ \E s \in Slots : Live(n, s) /\ task[n][s].kind = k

\* The thread waits for what is open, and has nothing open outside of main()
ThreadWaits(n) ==
    /\ Waiting(n) => call[n] # "none" /\ open[n] = {WaitKind(call[n])}
    /\ ~Waiting(n) => call[n] = "none"
    /\ cpc[n] \in {"boot", "returned", "exited"} => open[n] = {}
    /\ cpc[n] = "check" => WaitKind(call[n]) = "tx"
    /\ cpc[n] = "reset" => ready[n][WaitKind(call[n])]

\* A sleep ends at the tick it asks for: before its task runs, while it sleeps, when it is woken
\* and when it is signalled
SleepTimes(n) ==
    call[n] = "sim_sleep" =>
        /\ ready[n]["sleep"] => now = asked[n] \/ is_finished
        /\ \A s \in Slots : Live(n, s) =>
               /\ task[n][s].phase = "new" => asked[n] = Clamp(now + task[n][s].due)
                                              /\ task[n][s].due > 0 /\ ~task[n][s].woken
               /\ task[n][s].phase # "new" => asked[n] = task[n][s].due
                                              /\ task[n][s].due >= now
                                              /\ (task[n][s].woken <=> task[n][s].due = now)

NodeInv(n) == Outstanding(n) /\ ThreadWaits(n) /\ SleepTimes(n)

\* The nodes whose firmware computes, or is about to
Holders == {n \in Nodes : cpc[n] # "exited" /\ \A s \in Slots : Live(n, s) => Ready(n, s)}

Calm == quiet /\ main = "looping"

NativeInv ==
    /\ NativeTyped /\ EndsAtLength /\ NeverFrozen
    /\ Calm => timer_locks = leaked + Cardinality(Holders) /\ \A n \in Nodes : NodeInv(n)

-----------------------------------------------------------------------------
(* One node and the others.                                                *)

\* The other nodes, and the clock, are left alone
Elsewhere(n) ==
    /\ now' = now /\ leaked' = leaked
    /\ \A m \in Nodes \ {n} :
          /\ cpc'[m] = cpc[m] /\ call'[m] = call[m] /\ task'[m] = task[m]
          /\ ready'[m] = ready[m] /\ asked'[m] = asked[m] /\ open'[m] = open[m]

LEMMA HoldersFinite == IsFiniteSet(Holders) /\ Cardinality(Holders) \in Nat
  BY NativeAssumption, FS_Subset, FS_CardinalityType DEF Holders

LEMMA OthersKeep ==
    ASSUME NativeTyped, NEW n \in Nodes, Elsewhere(n), NEW m \in Nodes \ {n}
    PROVE  /\ NodeInv(m) => NodeInv(m)'
           /\ m \in Holders' <=> m \in Holders
  BY DEF Elsewhere, NodeInv, Outstanding, ThreadWaits, SleepTimes, Waiting, Live, Ready,
         is_finished, Clamp, Holders

\* A step of one node that keeps or gives back its lock
KeepsLock(n) ==
    \/ (n \in Holders' <=> n \in Holders) /\ timer_locks' = timer_locks
    \/ n \in Holders /\ n \notin Holders' /\ timer_locks' = timer_locks - 1

LEMMA LocksFollow ==
    ASSUME NativeTyped, NEW n \in Nodes, Elsewhere(n), KeepsLock(n),
           timer_locks = leaked + Cardinality(Holders)
    PROVE  timer_locks' = leaked' + Cardinality(Holders')
  <1>1. Holders \subseteq Nodes /\ Holders' \subseteq Nodes
    BY DEF Holders
  <1>2. \A m \in Nodes \ {n} : m \in Holders' <=> m \in Holders
    BY OthersKeep
  <1>3. CASE (n \in Holders' <=> n \in Holders) /\ timer_locks' = timer_locks
    <2>1. Holders' = Holders
      BY <1>1, <1>2, <1>3
    <2> QED BY <1>3, <2>1 DEF Elsewhere
  <1>4. CASE n \in Holders /\ n \notin Holders' /\ timer_locks' = timer_locks - 1
    <2>1. Holders' = Holders \ {n}
      BY <1>1, <1>2, <1>4
    <2>2. Cardinality(Holders \ {n}) = Cardinality(Holders) - 1
      BY <1>4, HoldersFinite, FS_RemoveElement
    <2> QED BY <1>4, <2>1, <2>2, HoldersFinite DEF Elsewhere, NativeTyped
  <1> QED BY <1>3, <1>4 DEF KeepsLock

\* What a step of one node has to show
LEMMA LocalStep ==
    ASSUME NativeInv, NativeTyped', NEW n \in Nodes, Elsewhere(n),
           quiet' => quiet,
           main' = main \/ (main' = "frozen" /\ ~quiet),
           Calm /\ Calm' => NodeInv(n)' /\ KeepsLock(n)
    PROVE  NativeInv'
  <1>1. EndsAtLength' /\ NeverFrozen'
    BY DEF NativeInv, EndsAtLength, NeverFrozen, Elsewhere
  <1>2. ASSUME Calm' PROVE timer_locks' = leaked' + Cardinality(Holders') /\ \A m \in Nodes : NodeInv(m)'
    <2>1. Calm
      BY <1>2 DEF Calm
    <2>2. timer_locks' = leaked' + Cardinality(Holders')
      BY <1>2, <2>1, LocksFollow DEF NativeInv
    <2>3. \A m \in Nodes \ {n} : NodeInv(m)'
      BY <2>1, OthersKeep DEF NativeInv
    <2> QED BY <1>2, <2>1, <2>2, <2>3
  <1> QED BY <1>1, <1>2 DEF NativeInv

-----------------------------------------------------------------------------
(* The loop tasks.                                                         *)

\* Slot s of node n gets the record rec
Puts(n, s, rec) ==
    /\ task' \in [Nodes -> [Slots -> TaskRecords]]
    /\ \A m \in Nodes \ {n} : task'[m] = task[m]
    /\ \A r \in Slots \ {s} : task'[n][r] = task[n][r]
    /\ task'[n][s] = rec

LEMMA PutsRecord ==
    ASSUME NativeTyped, NEW n \in Nodes, NEW s \in Slots, NEW rec \in TaskRecords,
           task' = [task EXCEPT ![n][s] = rec]
    PROVE  Puts(n, s, rec)
  BY DEF Puts, NativeTyped

\* The task of slot s runs, up to its end or its next wait.  A sleep has one wait.
LoopEffect(n, s) ==
    \/ /\ Callback(n, s) /\ UNCHANGED kernelVars
       /\ task[n][s].kind = "sleep" => task[n][s].woken \/ is_finished
    \/ /\ is_running /\ main = "looping" /\ timer_locks > 0
       /\ timer_locks' = timer_locks - 1 /\ UNCHANGED <<now, leaked, main, cpc, ready>>
       /\ \E rec \in TaskRecords :
             /\ Puts(n, s, rec)
             /\ rec.kind = task[n][s].kind /\ rec.phase \notin {"none", "new"} /\ ~rec.woken
             /\ rec.kind = "sleep" => /\ task[n][s].phase = "new"
                                      /\ rec.due = Clamp(now + task[n][s].due)
    \/ /\ is_running /\ main = "looping" /\ timer_locks <= 0
       /\ timer_locks' = timer_locks - 1 /\ main' = "frozen" /\ UNCHANGED <<now, leaked>>
       /\ Callback(n, s)
    \/ /\ main = "frozen"
       /\ \E rec \in TaskRecords : Puts(n, s, rec)
       /\ UNCHANGED <<kernelVars, cpc, ready>>

LEMMA ClampTyped == \A tick \in Nat : Clamp(tick) \in 0..Length
  BY NativeAssumption DEF Clamp

LEMMA KernelWaitEffect ==
    ASSUME NativeTyped, NEW n \in Nodes, NEW s \in Slots,
           NEW phase \in Phases \ {"none", "new"}, NEW tick \in Nat,
           task[n][s].kind = "sleep" => task[n][s].phase = "new" /\ tick = now + task[n][s].due,
           KernelWait(n, s, phase, tick)
    PROVE  LoopEffect(n, s)
  <1>1. task[n][s] \in TaskRecords /\ now \in Nat /\ Length \in Nat /\ Clamp(tick) \in Nat
    BY NativeAssumption, ClampTyped DEF NativeTyped
  <1>2. CASE ~is_running /\ Callback(n, s) /\ UNCHANGED kernelVars
    BY <1>1, <1>2, NativeAssumption DEF LoopEffect, is_running, is_finished
  <1>3. CASE /\ is_running /\ main = "looping" /\ timer_locks > 0
             /\ timer_locks' = timer_locks - 1
             /\ task' = [task EXCEPT ![n][s].phase = phase, ![n][s].due = Clamp(tick),
                                     ![n][s].woken = FALSE, ![n][s].put = "no"]
             /\ UNCHANGED <<now, leaked, main, cpc, ready>>
    <2> DEFINE rec == [task[n][s] EXCEPT !.phase = phase, !.due = Clamp(tick), !.woken = FALSE,
                                      !.put = "no"]
    <2>1. rec \in TaskRecords /\ rec.kind = task[n][s].kind /\ rec.phase = phase
          /\ rec.due = Clamp(tick) /\ rec.woken = FALSE
      BY <1>1 DEF TaskRecords
    <2>2. task' = [task EXCEPT ![n][s] = rec]
      BY <1>3, <1>1, ZenonT(60) DEF NativeTyped, TaskRecords
    <2>3. Puts(n, s, rec)
      BY <2>1, <2>2, PutsRecord
    <2> HIDE DEF rec
    <2> QED BY <1>3, <2>1, <2>3 DEF LoopEffect
  <1>4. CASE /\ is_running /\ main = "looping" /\ timer_locks <= 0
             /\ timer_locks' = timer_locks - 1
             /\ main' = "frozen"
             /\ Callback(n, s)
             /\ UNCHANGED <<now, leaked>>
    BY <1>4 DEF LoopEffect
  <1>5. CASE /\ is_running /\ main = "frozen"
             /\ task' = [task EXCEPT ![n][s].phase = "stuck", ![n][s].woken = FALSE]
             /\ UNCHANGED <<kernelVars, cpc, ready>>
    <2> DEFINE rec == [task[n][s] EXCEPT !.phase = "stuck", !.woken = FALSE]
    <2>1. rec \in TaskRecords
      BY <1>1 DEF TaskRecords, Phases
    <2>2. task' = [task EXCEPT ![n][s] = rec]
      BY <1>5, <1>1 DEF NativeTyped, TaskRecords
    <2>3. Puts(n, s, rec)
      BY <2>1, <2>2, PutsRecord
    <2> HIDE DEF rec
    <2> QED BY <1>5, <2>1, <2>3 DEF LoopEffect
  <1> QED BY <1>2, <1>3, <1>4, <1>5 DEF KernelWait

\* What a task that is not a sleep waits for is of no interest here
LEMMA WaitsEffect ==
    ASSUME NativeTyped, NEW n \in Nodes, NEW s \in Slots, task[n][s].kind # "sleep"
    PROVE  /\ Finish(n, s) => LoopEffect(n, s)
           /\ \A phase \in Phases \ {"none", "new"}, tick \in Nat :
                  KernelWait(n, s, phase, tick) => LoopEffect(n, s)
           /\ \A phase \in Phases \ {"none", "new"} : Standby(n, s, phase) => LoopEffect(n, s)
  <1>1. Finish(n, s) => LoopEffect(n, s)
    BY DEF Finish, LoopEffect
  <1>2. \A phase \in Phases \ {"none", "new"}, tick \in Nat :
            KernelWait(n, s, phase, tick) => LoopEffect(n, s)
    BY KernelWaitEffect
  <1>3. now + 1 \in Nat
    BY NativeAssumption DEF NativeTyped
  <1> QED BY <1>1, <1>2, <1>3 DEF Standby

LEMMA SleepTaskEffect ==
    ASSUME NativeTyped, NEW n \in Nodes, NEW s \in Slots, SleepTask(n, s)
    PROVE  LoopEffect(n, s)
  <1>1. task[n][s] \in TaskRecords /\ now \in Nat /\ now + task[n][s].due \in Nat
    BY NativeAssumption DEF NativeTyped, TaskRecords
  <1>2. CASE task[n][s].phase = "new" /\ KernelWait(n, s, "asleep", now + task[n][s].due)
    <2>1. "asleep" \in Phases \ {"none", "new"}
      BY DEF Phases
    <2> QED BY <1>1, <1>2, <2>1, KernelWaitEffect
  <1>3. CASE task[n][s].woken /\ Finish(n, s)
    BY <1>3 DEF Finish, LoopEffect
  <1> QED BY <1>2, <1>3 DEF SleepTask

LEMMA TransmitTaskEffect ==
    ASSUME NativeTyped, NEW n \in Nodes, NEW s \in Slots, TransmitTask(n, s)
    PROVE  LoopEffect(n, s)
  <1>1. task[n][s].kind # "sleep" /\ now + AirTime \in Nat
    BY NativeAssumption DEF TransmitTask, NativeTyped
  <1>2. {"startup", "air", "settle"} \subseteq Phases \ {"none", "new"}
    BY DEF Phases
  <1>3. \/ Finish(n, s)
        \/ Standby(n, s, "startup")
        \/ KernelWait(n, s, "air", now + AirTime)
        \/ Standby(n, s, "settle")
    BY DEF TransmitTask
  <1> QED BY <1>1, <1>2, <1>3, WaitsEffect

LEMMA GetEffect ==
    ASSUME NativeTyped, NEW n \in Nodes, NEW s \in Slots, task[n][s].kind # "sleep"
    PROVE  /\ \A tick \in Nat : GetPacket(n, s, tick) => LoopEffect(n, s)
           /\ Listen(n, s) => LoopEffect(n, s)
  <1>1. {"process", "get", "delay"} \subseteq Phases \ {"none", "new"}
    BY DEF Phases
  <1>2. now + 1 \in Nat /\ Length - 1 \in Nat
    BY NativeAssumption DEF NativeTyped
  <1>3. ASSUME NEW tick \in Nat, GetPacket(n, s, tick) PROVE LoopEffect(n, s)
    <2>1. (IF tick > Length - 1 THEN Length - 1 ELSE tick) \in Nat
      BY <1>2
    <2>2. \/ Finish(n, s)
          \/ KernelWait(n, s, "process", now + 1)
          \/ KernelWait(n, s, "get", IF tick > Length - 1 THEN Length - 1 ELSE tick)
      BY <1>3 DEF GetPacket
    <2> QED BY <1>1, <1>2, <2>1, <2>2, WaitsEffect
  <1>4. Listen(n, s) => \/ GetPacket(n, s, Length - 1)
                        \/ KernelWait(n, s, "delay", now + 1)
    BY DEF Listen
  <1> QED BY <1>1, <1>2, <1>3, <1>4, WaitsEffect

LEMMA ReceiveTaskEffect ==
    ASSUME NativeTyped, NEW n \in Nodes, NEW s \in Slots, ReceiveTask(n, s)
    PROVE  LoopEffect(n, s)
  <1>1. task[n][s].kind # "sleep"
    BY DEF ReceiveTask
  <1>2. now + 1 \in Nat /\ now + task[n][s].timeout \in Nat
    BY NativeAssumption DEF NativeTyped, TaskRecords
  <1>3. {"poll", "startup", "process"} \subseteq Phases \ {"none", "new"}
    BY DEF Phases
  <1>4. \/ Finish(n, s)
        \/ KernelWait(n, s, "poll", now + 1)
        \/ Standby(n, s, "startup")
        \/ Listen(n, s)
        \/ GetPacket(n, s, now + task[n][s].timeout)
        \/ KernelWait(n, s, "process", now + 1)
    BY DEF ReceiveTask
  <1> QED BY <1>1, <1>2, <1>3, <1>4, WaitsEffect, GetEffect

\* sim_sleep_end and its two siblings
LEMMA CallbackEffect ==
    ASSUME NativeTyped, NEW n \in Nodes, NEW s \in Slots, Callback(n, s)
    PROVE  /\ Puts(n, s, FreeSlot)
           /\ ready' \in [Nodes -> [Kinds -> BOOLEAN]] /\ cpc' \in [Nodes -> CPCs]
           /\ \A m \in Nodes \ {n} : ready'[m] = ready[m] /\ cpc'[m] = cpc[m]
           /\ \A k \in Kinds \ {task[n][s].kind} : ready'[n][k] = ready[n][k]
           /\ ready'[n][task[n][s].kind]
           /\ cpc'[n] = cpc[n] \/ (cpc[n] = "blocked" /\ cpc'[n] = "test")
           /\ task[n][s].kind \in Kinds
  <1>1. FreeSlot \in TaskRecords /\ task[n][s].kind \in Kinds
    BY DEF FreeSlot, TaskRecords, Kinds, Phases, NativeTyped
  <1>2. task' = [task EXCEPT ![n][s] = FreeSlot]
    BY DEF Callback
  <1>3. Puts(n, s, FreeSlot)
    BY <1>1, <1>2, PutsRecord
  <1>4. ready' = [ready EXCEPT ![n][task[n][s].kind] = TRUE]
    BY DEF Callback
  <1>5. /\ ready' \in [Nodes -> [Kinds -> BOOLEAN]]
        /\ \A m \in Nodes \ {n} : ready'[m] = ready[m]
        /\ \A k \in Kinds \ {task[n][s].kind} : ready'[n][k] = ready[n][k]
        /\ ready'[n][task[n][s].kind]
    BY <1>1, <1>4 DEF NativeTyped
  <1>6. /\ cpc' \in [Nodes -> CPCs]
        /\ \A m \in Nodes \ {n} : cpc'[m] = cpc[m]
        /\ cpc'[n] = cpc[n] \/ (cpc[n] = "blocked" /\ cpc'[n] = "test")
    BY DEF Callback, NativeTyped, CPCs
  <1> QED BY <1>1, <1>3, <1>5, <1>6

LEMMA LiveWhenReady ==
    ASSUME NativeInv, Calm, NEW n \in Nodes, NEW s \in Slots, Ready(n, s) PROVE Live(n, s)
  BY DEF NativeInv, NodeInv, Outstanding

\* With firmware that waits, a task that may run is the only one of its node, which holds a lock
LEMMA RunsAlone ==
    ASSUME NativeInv, Calm, NEW n \in Nodes, NEW s \in Slots, Live(n, s), Ready(n, s)
    PROVE  /\ n \in Holders /\ timer_locks > 0
           /\ open[n] = {task[n][s].kind} /\ (\A k \in Kinds : ~ready[n][k])
           /\ \A r \in Slots \ {s} : ~Live(n, r)
  <1>1. /\ Outstanding(n) /\ ThreadWaits(n)
        /\ timer_locks = leaked + Cardinality(Holders) /\ leaked \in Nat
    BY DEF NativeInv, NodeInv, NativeTyped
  <1>2. /\ open[n] = {task[n][s].kind} /\ (\A k \in Kinds : ~ready[n][k])
        /\ \A r \in Slots \ {s} : ~Live(n, r)
    BY <1>1 DEF Outstanding
  <1>3. n \in Holders
    BY <1>1, <1>2 DEF ThreadWaits, Holders
  <1>4. Cardinality(Holders) # 0
    BY <1>3, HoldersFinite, FS_EmptySet
  <1> QED BY <1>1, <1>2, <1>3, <1>4, HoldersFinite

\* A loop task that ends: its call is signalled
LEMMA TaskEnds ==
    ASSUME NativeInv, Calm, NEW n \in Nodes, NEW s \in Slots, Live(n, s), Ready(n, s),
           Callback(n, s), UNCHANGED <<kernelVars, call, asked, open>>,
           task[n][s].kind = "sleep" => task[n][s].woken \/ is_finished
    PROVE  NodeInv(n)' /\ KeepsLock(n)
  <1> DEFINE kind == task[n][s].kind
  <1>1. NodeInv(n) /\ NativeTyped
    BY DEF NativeInv
  <1>2. /\ Puts(n, s, FreeSlot)
        /\ \A k \in Kinds \ {kind} : ready'[n][k] = ready[n][k]
        /\ ready'[n][kind] /\ kind \in Kinds
        /\ cpc'[n] = cpc[n] \/ (cpc[n] = "blocked" /\ cpc'[n] = "test")
    BY <1>1, CallbackEffect
  <1>3. /\ n \in Holders /\ open[n] = {kind} /\ (\A k \in Kinds : ~ready[n][k])
        /\ \A r \in Slots \ {s} : ~Live(n, r)
    BY RunsAlone
  <1>4. \A r \in Slots : ~Live(n, r)'
    BY <1>2, <1>3 DEF Live, Puts, FreeSlot
  <1>5. \A r \in Slots : ~Ready(n, r)'
    BY <1>1, <1>2, <1>3 DEF NodeInv, Outstanding, Live, Ready, Puts, FreeSlot
  <1>6. Outstanding(n)'
    BY <1>2, <1>3, <1>4, <1>5 DEF Outstanding
  <1>7. ThreadWaits(n)'
    BY <1>1, <1>2, <1>3 DEF NodeInv, ThreadWaits, Waiting
  <1>8. SleepTimes(n)'
    <2> SUFFICES ASSUME call[n] = "sim_sleep" PROVE now = asked[n] \/ is_finished
      BY <1>4 DEF SleepTimes, kernelVars, is_finished
    <2>1. kind = "sleep"
      BY <1>1, <1>3 DEF NodeInv, ThreadWaits, Waiting, WaitKind
    <2>2. task[n][s].woken => now = asked[n]
      BY <1>1 DEF NodeInv, SleepTimes
    <2> QED BY <2>1, <2>2
  <1>9. n \in Holders'
    BY <1>2, <1>3, <1>4 DEF Holders
  <1> QED BY <1>3, <1>6, <1>7, <1>8, <1>9 DEF NodeInv, KeepsLock, kernelVars

\* A loop task that waits: the node gives its lock back
LEMMA TaskWaits ==
    ASSUME NativeInv, Calm, NEW n \in Nodes, NEW s \in Slots, Live(n, s), Ready(n, s),
           is_running, timer_locks' = timer_locks - 1,
           UNCHANGED <<now, leaked, main, cpc, ready, call, asked, open>>,
           NEW rec \in TaskRecords, Puts(n, s, rec),
           rec.kind = task[n][s].kind, rec.phase \notin {"none", "new"}, ~rec.woken,
           rec.kind = "sleep" => /\ task[n][s].phase = "new"
                                 /\ rec.due = Clamp(now + task[n][s].due)
    PROVE  NodeInv(n)' /\ KeepsLock(n)
  <1> DEFINE kind == task[n][s].kind
  <1>1. NodeInv(n) /\ NativeTyped
    BY DEF NativeInv
  <1>2. /\ n \in Holders /\ open[n] = {kind} /\ (\A k \in Kinds : ~ready[n][k])
        /\ \A r \in Slots \ {s} : ~Live(n, r)
    BY RunsAlone
  <1>3. /\ \A r \in Slots \ {s} : ~Live(n, r)'
        /\ Live(n, s)' /\ ~Ready(n, s)' /\ task'[n][s] = rec
    BY <1>2 DEF Live, Ready, Puts
  <1>4. \A r \in Slots : ~Ready(n, r)'
    BY <1>1, <1>2, <1>3 DEF NodeInv, Outstanding, Live, Ready, Puts
  <1>5. Outstanding(n)'
    BY <1>1, <1>2, <1>3, <1>4 DEF Outstanding
  <1>6. ThreadWaits(n)'
    BY <1>1 DEF NodeInv, ThreadWaits, Waiting
  <1>7. SleepTimes(n)'
    <2> SUFFICES ASSUME call[n] = "sim_sleep"
                 PROVE  rec.due = asked[n] /\ rec.due > now
      <3>1. rec.due \in Nat /\ now \in Nat
        BY <1>1, NativeAssumption DEF NativeTyped, TaskRecords
      <3>2. "sleep" \in Kinds
        BY DEF Kinds
      <3> QED BY <1>2, <1>3, <3>1, <3>2 DEF SleepTimes
    <2>1. kind = "sleep"
      BY <1>1, <1>2 DEF NodeInv, ThreadWaits, Waiting, WaitKind
    <2>2. rec.due = Clamp(now + task[n][s].due) /\ task[n][s].phase = "new"
      BY <2>1
    <2>3. asked[n] = Clamp(now + task[n][s].due) /\ task[n][s].due > 0
      BY <1>1, <2>2 DEF NodeInv, SleepTimes
    <2>4. task[n][s].due \in Nat /\ now \in Nat /\ Length \in Nat
      BY <1>1, NativeAssumption DEF NativeTyped, TaskRecords
    <2> QED BY <2>2, <2>3, <2>4 DEF Clamp, is_running
  <1>8. n \notin Holders'
    BY <1>3 DEF Holders
  <1> QED BY <1>2, <1>5, <1>6, <1>7, <1>8 DEF NodeInv, KeepsLock

LEMMA LoopTaskKeeps ==
    ASSUME NativeInv, NEW n \in Nodes, NEW s \in Slots, LoopTask(n, s)
    PROVE  NativeInv'
  <1>1. NativeTyped
    BY DEF NativeInv
  <1>2. LoopEffect(n, s) /\ UNCHANGED <<call, calls, asked, open, quiet>> /\ Ready(n, s)
    BY <1>1, SleepTaskEffect, TransmitTaskEffect, ReceiveTaskEffect DEF LoopTask
  <1>3. CASE /\ Callback(n, s) /\ UNCHANGED kernelVars
             /\ task[n][s].kind = "sleep" => task[n][s].woken \/ is_finished
    <2>1. NativeTyped'
      BY <1>1, <1>2, <1>3, CallbackEffect DEF NativeTyped, kernelVars, Puts
    <2>2. Elsewhere(n)
      BY <1>1, <1>2, <1>3, CallbackEffect DEF Elsewhere, kernelVars, Puts
    <2>3. Calm => NodeInv(n)' /\ KeepsLock(n)
      BY <1>2, <1>3, TaskEnds, LiveWhenReady
    <2> QED BY <1>2, <1>3, <2>1, <2>2, <2>3, LocalStep DEF kernelVars
  <1>4. CASE /\ is_running /\ main = "looping" /\ timer_locks > 0
             /\ timer_locks' = timer_locks - 1 /\ UNCHANGED <<now, leaked, main, cpc, ready>>
             /\ \E rec \in TaskRecords :
                   /\ Puts(n, s, rec)
                   /\ rec.kind = task[n][s].kind /\ rec.phase \notin {"none", "new"} /\ ~rec.woken
                   /\ rec.kind = "sleep" => /\ task[n][s].phase = "new"
                                            /\ rec.due = Clamp(now + task[n][s].due)
    <2>1. NativeTyped'
      BY <1>1, <1>2, <1>4 DEF NativeTyped, Puts
    <2>2. Elsewhere(n)
      BY <1>2, <1>4 DEF Elsewhere, Puts
    <2>3. Calm => NodeInv(n)' /\ KeepsLock(n)
      BY <1>2, <1>4, TaskWaits, LiveWhenReady
    <2> QED BY <1>2, <1>4, <2>1, <2>2, <2>3, LocalStep
  <1>5. CASE /\ is_running /\ main = "looping" /\ timer_locks <= 0
             /\ timer_locks' = timer_locks - 1 /\ main' = "frozen" /\ UNCHANGED <<now, leaked>>
             /\ Callback(n, s)
    <2>1. NativeTyped'
      BY <1>1, <1>2, <1>5, CallbackEffect DEF NativeTyped, Puts
    <2>2. Elsewhere(n)
      BY <1>1, <1>2, <1>5, CallbackEffect DEF Elsewhere, Puts
    <2>3. ~quiet
      <3> SUFFICES ASSUME quiet PROVE FALSE
        OBVIOUS
      <3>1. timer_locks > 0
        BY <1>2, <1>5, RunsAlone, LiveWhenReady DEF Calm
      <3> QED BY <1>1, <1>5, <3>1 DEF NativeTyped
    <2> QED BY <1>2, <1>5, <2>1, <2>2, <2>3, LocalStep DEF Calm
  <1>6. CASE /\ main = "frozen"
             /\ \E rec \in TaskRecords : Puts(n, s, rec)
             /\ UNCHANGED <<kernelVars, cpc, ready>>
    <2>1. NativeTyped'
      BY <1>1, <1>2, <1>6 DEF NativeTyped, Puts, kernelVars
    <2>2. Elsewhere(n)
      BY <1>2, <1>6 DEF Elsewhere, Puts, kernelVars
    <2> QED BY <1>2, <1>6, <2>1, <2>2, LocalStep DEF Calm, kernelVars
  <1> QED BY <1>2, <1>3, <1>4, <1>5, <1>6 DEF LoopEffect

-----------------------------------------------------------------------------
(* The threads.                                                            *)

\* A step of a thread that touches no task
LEMMA ThreadStep ==
    ASSUME NativeInv, NativeTyped', NEW n \in Nodes, UNCHANGED <<kernelVars, task>>,
           quiet' => quiet, Elsewhere(n), cpc[n] # "exited", cpc'[n] # "exited",
           Calm' => NodeInv(n)'
    PROVE  NativeInv'
  <1>1. n \in Holders' <=> n \in Holders
    BY DEF Holders, Live, Ready, kernelVars
  <1> QED BY <1>1, LocalStep DEF KeepsLock, kernelVars

LEMMA StartThreadKeeps ==
    ASSUME NativeInv, NEW n \in Nodes, StartThread(n) PROVE NativeInv'
  <1> USE DEF StartThread
  <1>1. NativeTyped'
    BY DEF NativeInv, NativeTyped, kernelVars, CPCs
  <1>2. Elsewhere(n)
    BY DEF NativeInv, NativeTyped, Elsewhere, kernelVars
  <1>3. cpc[n] = "boot" /\ cpc'[n] = "run"
    BY DEF NativeInv, NativeTyped
  <1>4. NodeInv(n) => NodeInv(n)'
    BY <1>3 DEF NodeInv, Outstanding, ThreadWaits, SleepTimes, Waiting, Live, Ready,
                kernelVars, is_finished, Clamp
  <1>5. Calm' => NodeInv(n)'
    BY <1>4 DEF NativeInv, Calm, kernelVars
  <1> QED BY <1>1, <1>2, <1>3, <1>5, ThreadStep

LEMMA CheckTransmittingKeeps ==
    ASSUME NativeInv, NEW n \in Nodes, CheckTransmitting(n) PROVE NativeInv'
  <1> USE DEF CheckTransmitting
  <1>1. NativeTyped'
    BY DEF NativeInv, NativeTyped, kernelVars, CPCs, FnCalls
  <1>2. Elsewhere(n)
    BY DEF NativeInv, NativeTyped, Elsewhere, kernelVars
  <1>3. /\ cpc[n] = "check"
        /\ \/ cpc'[n] = "run" /\ call'[n] = "none"
           \/ cpc'[n] = "test" /\ call'[n] = call[n]
    BY DEF NativeInv, NativeTyped
  <1>4. NodeInv(n) => NodeInv(n)'
    BY <1>3 DEF NodeInv, Outstanding, ThreadWaits, SleepTimes, Waiting, Live, Ready,
                kernelVars, is_finished, Clamp
  <1>5. Calm' => NodeInv(n)'
    BY <1>4 DEF NativeInv, Calm, kernelVars
  <1> QED BY <1>1, <1>2, <1>3, <1>5, ThreadStep

LEMMA TestFlagKeeps ==
    ASSUME NativeInv, NEW n \in Nodes, TestFlag(n) PROVE NativeInv'
  <1> USE DEF TestFlag
  <1>1. NativeTyped'
    BY DEF NativeInv, NativeTyped, kernelVars, CPCs
  <1>2. Elsewhere(n)
    BY DEF NativeInv, NativeTyped, Elsewhere, kernelVars
  <1>3. /\ cpc[n] = "test"
        /\ \/ cpc'[n] = "reset" /\ ready[n][WaitKind(call[n])]
           \/ cpc'[n] = "blocked"
    BY DEF NativeInv, NativeTyped
  <1>4. NodeInv(n) => NodeInv(n)'
    BY <1>3 DEF NodeInv, Outstanding, ThreadWaits, SleepTimes, Waiting, Live, Ready,
                kernelVars, is_finished, Clamp
  <1>5. Calm' => NodeInv(n)'
    BY <1>4 DEF NativeInv, Calm, kernelVars
  <1> QED BY <1>1, <1>2, <1>3, <1>5, ThreadStep

LEMMA SpuriousWakeUpKeeps ==
    ASSUME NativeInv, NEW n \in Nodes, SpuriousWakeUp(n) PROVE NativeInv'
  <1> USE DEF SpuriousWakeUp
  <1>1. NativeTyped'
    BY DEF NativeInv, NativeTyped, kernelVars, CPCs
  <1>2. Elsewhere(n)
    BY DEF NativeInv, NativeTyped, Elsewhere, kernelVars
  <1>3. cpc[n] = "blocked" /\ cpc'[n] = "test"
    BY DEF NativeInv, NativeTyped
  <1>4. NodeInv(n) => NodeInv(n)'
    BY <1>3 DEF NodeInv, Outstanding, ThreadWaits, SleepTimes, Waiting, Live, Ready,
                kernelVars, is_finished, Clamp
  <1>5. Calm' => NodeInv(n)'
    BY <1>4 DEF NativeInv, Calm, kernelVars
  <1> QED BY <1>1, <1>2, <1>3, <1>5, ThreadStep

LEMMA WaitKindTyped == \A fn \in FnCalls : WaitKind(fn) \in Kinds
  BY DEF WaitKind, Kinds, FnCalls

\* The reset of the flag loses no signal: the task that set it was the only one
LEMMA ResetFlagKeeps ==
    ASSUME NativeInv, NEW n \in Nodes, ResetFlag(n) PROVE NativeInv'
  <1> DEFINE kind == WaitKind(call[n])
  <1>1. /\ kind \in Kinds
        /\ ready' = [ready EXCEPT ![n][kind] = FALSE]
        /\ cpc' = [cpc EXCEPT ![n] = "run"] /\ cpc[n] = "reset"
        /\ call' = [call EXCEPT ![n] = "none"]
        /\ open' = [open EXCEPT ![n] = @ \ {kind}]
        /\ UNCHANGED <<kernelVars, radioVars, calls, asked, quiet, task>>
    BY WaitKindTyped DEF ResetFlag, NativeInv, NativeTyped
  <1> HIDE DEF kind
  <1>2. NativeTyped'
    BY <1>1 DEF NativeInv, NativeTyped, kernelVars, CPCs, FnCalls
  <1>3. Elsewhere(n)
    BY <1>1 DEF NativeInv, NativeTyped, Elsewhere, kernelVars
  <1>4. /\ cpc'[n] = "run" /\ call'[n] = "none" /\ open'[n] = open[n] \ {kind}
        /\ ~ready'[n][kind] /\ \A k \in Kinds \ {kind} : ready'[n][k] = ready[n][k]
    BY <1>1 DEF NativeInv, NativeTyped
  <1>5. ASSUME NodeInv(n) PROVE NodeInv(n)'
    <2>1. open[n] = {kind} /\ ready[n][kind]
      BY <1>1, <1>5 DEF NodeInv, ThreadWaits, Waiting, kind
    <2>2. (\A k \in Kinds : ~ready'[n][k]) /\ open'[n] = {} /\ (\A s \in Slots : ~Live(n, s))
      BY <1>1, <1>4, <1>5, <2>1 DEF NodeInv, Outstanding
    <2>3. \A s \in Slots : (Ready(n, s)' <=> Ready(n, s)) /\ ~Live(n, s)'
      BY <1>1, <2>2 DEF Ready, Live
    <2>4. Outstanding(n)'
      BY <1>5, <2>2, <2>3 DEF NodeInv, Outstanding
    <2> QED BY <1>4, <2>4 DEF NodeInv, ThreadWaits, SleepTimes, Waiting
  <1>6. Calm' => NodeInv(n)'
    BY <1>1, <1>5 DEF NativeInv, Calm, kernelVars
  <1> QED BY <1>1, <1>2, <1>3, <1>4, <1>6, ThreadStep

LEMMA MainReturnsKeeps ==
    ASSUME NativeInv, NEW n \in Nodes, MainReturns(n) PROVE NativeInv'
  <1> USE DEF MainReturns, Due
  <1>1. NativeTyped'
    BY DEF NativeInv, NativeTyped, kernelVars, CPCs
  <1>2. Elsewhere(n)
    BY DEF NativeInv, NativeTyped, Elsewhere, kernelVars
  <1>3. /\ cpc[n] = "run" /\ cpc'[n] = "returned"
        /\ quiet' => quiet /\ open[n] = {}
    BY DEF NativeInv, NativeTyped
  <1>4. NodeInv(n) /\ quiet' => NodeInv(n)'
    BY <1>3 DEF NodeInv, Outstanding, ThreadWaits, SleepTimes, Waiting, Live, Ready,
                kernelVars, is_finished, Clamp
  <1>5. Calm' => NodeInv(n)'
    BY <1>3, <1>4 DEF NativeInv, Calm, kernelVars
  <1> QED BY <1>1, <1>2, <1>3, <1>5, ThreadStep

LEMMA CallWaitKeeps ==
    ASSUME NativeInv, NEW n \in Nodes,
           NEW fn \in {"sim_wait_transmit_finished", "sim_wait_receive_finished"},
           CallWait(n, fn)
    PROVE  NativeInv'
  <1> USE DEF CallWait, Due, Calling
  <1>1. NativeTyped'
    BY DEF NativeInv, NativeTyped, kernelVars, CPCs, FnCalls
  <1>2. Elsewhere(n)
    BY DEF NativeInv, NativeTyped, Elsewhere, kernelVars
  <1>3. /\ cpc[n] = "run" /\ call'[n] = fn
        /\ cpc'[n] = "test" \/ (cpc'[n] = "check" /\ WaitKind(fn) = "tx")
        /\ quiet' => quiet /\ open[n] = {WaitKind(fn)}
    BY DEF NativeInv, NativeTyped
  <1>4. NodeInv(n) /\ quiet' => NodeInv(n)'
    BY <1>3 DEF NodeInv, Outstanding, ThreadWaits, SleepTimes, Waiting, Live, Ready,
                kernelVars, is_finished, Clamp
  <1>5. Calm' => NodeInv(n)'
    BY <1>3, <1>4 DEF NativeInv, Calm, kernelVars
  <1> QED BY <1>1, <1>2, <1>3, <1>5, ThreadStep

LEMMA SetRxConfigKeeps ==
    ASSUME NativeInv, NEW n \in Nodes, NEW b \in BOOLEAN, sim_radio_set_rx_config(n, b)
    PROVE  NativeInv'
  BY DEF sim_radio_set_rx_config, NativeInv, NativeTyped, EndsAtLength, NeverFrozen, Calm, Holders,
         NodeInv, Outstanding, ThreadWaits, SleepTimes, Waiting, Live, Ready, kernelVars,
         threadVars, is_finished, Clamp

\* The node's task ends with nothing open, and gives back the lock it holds
LEMMA NodeEndsKeeps ==
    ASSUME NativeInv, NEW n \in Nodes, NodeEnds(n) PROVE NativeInv'
  <1> USE DEF NodeEnds
  <1>1. NativeTyped'
    BY DEF NativeInv, NativeTyped, CPCs
  <1>2. Elsewhere(n)
    BY DEF NativeInv, NativeTyped, Elsewhere
  <1>3. cpc[n] = "returned" /\ cpc'[n] = "exited"
    BY DEF NativeInv, NativeTyped
  <1>4. ASSUME Calm PROVE n \in Holders /\ timer_locks > 0
    <2>1. NodeInv(n) /\ timer_locks = leaked + Cardinality(Holders) /\ leaked \in Nat
      BY <1>4 DEF NativeInv, NativeTyped
    <2>2. n \in Holders
      BY <1>3, <2>1 DEF Holders, NodeInv, ThreadWaits, Outstanding
    <2>3. Cardinality(Holders) # 0
      BY <2>2, HoldersFinite, FS_EmptySet
    <2> QED BY <2>1, <2>2, <2>3, HoldersFinite
  <1>5. main' = main \/ (main' = "frozen" /\ ~quiet)
    BY <1>4 DEF Calm, NativeInv, NativeTyped
  <1>6. NodeInv(n) => NodeInv(n)'
    BY <1>3 DEF NodeInv, Outstanding, ThreadWaits, SleepTimes, Waiting, Live, Ready,
                is_finished, Clamp
  <1>7. n \notin Holders'
    BY <1>3 DEF Holders
  <1>8. Calm /\ Calm' => NodeInv(n)' /\ KeepsLock(n)
    BY <1>4, <1>6, <1>7 DEF NativeInv, KeepsLock
  <1> QED BY <1>1, <1>2, <1>5, <1>8, LocalStep

-----------------------------------------------------------------------------
(* Calls that start a loop task.                                           *)

NewTask(kind, duration, timeout) ==
    [kind |-> kind, phase |-> "new", due |-> duration, woken |-> FALSE, timeout |-> timeout,
     put |-> "no"]

LEMMA StartTaskEffect ==
    ASSUME NativeTyped, NEW n \in Nodes, NEW kind \in Kinds, NEW duration \in Nat,
           NEW timeout \in Nat, StartTask(n, kind, duration, timeout)
    PROVE  /\ task' \in [Nodes -> [Slots -> TaskRecords]]
           /\ \A m \in Nodes \ {n} : task'[m] = task[m]
           /\ main # "closed" =>
                  \E s \in Slots : Puts(n, s, NewTask(kind, duration, timeout))
  <1>1. NewTask(kind, duration, timeout) \in TaskRecords
    BY DEF NewTask, TaskRecords, Phases
  <1>2. CASE main = "closed"
    BY <1>2 DEF StartTask, NativeTyped
  <1>3. CASE main # "closed"
    <2>1. PICK s \in Slots : task' = [task EXCEPT ![n][s] = NewTask(kind, duration, timeout)]
      BY <1>3 DEF StartTask, NewTask
    <2>2. Puts(n, s, NewTask(kind, duration, timeout))
      BY <1>1, <2>1, PutsRecord
    <2> QED BY <2>2 DEF Puts
  <1> QED BY <1>2, <1>3

\* The new task is the only one of its node, and will find its lock
LEMMA StartedAlone ==
    ASSUME NativeTyped, NEW n \in Nodes, NodeInv(n), open[n] = {}, cpc[n] = "run",
           cpc'[n] # "exited", ready' = ready,
           NEW kind \in Kinds, NEW duration \in Nat, NEW timeout \in Nat,
           open'[n] = {kind}, NEW s \in Slots, Puts(n, s, NewTask(kind, duration, timeout))
    PROVE  /\ Outstanding(n)' /\ n \in Holders /\ n \in Holders'
           /\ \A k \in Kinds : ~ready[n][k]
           /\ \A r \in Slots : Live(n, r)' => task'[n][r] = NewTask(kind, duration, timeout)
  <1>1. (\A r \in Slots : ~Live(n, r)) /\ (\A k \in Kinds : ~ready[n][k])
    BY DEF NodeInv, Outstanding
  <1>2. \A r \in Slots : ~Ready(n, r)
    BY <1>1 DEF NodeInv, Outstanding
  <1>3. \A r \in Slots \ {s} : ~Live(n, r)' /\ ~Ready(n, r)'
    BY <1>1, <1>2 DEF Live, Ready, Puts
  <1>4. Live(n, s)' /\ Ready(n, s)' /\ task'[n][s].kind = kind
    BY DEF Live, Ready, Puts, NewTask
  <1>5. Outstanding(n)'
    BY <1>1, <1>3, <1>4 DEF Outstanding
  <1>6. n \in Holders /\ n \in Holders'
    BY <1>1, <1>3, <1>4 DEF Holders
  <1>7. \A r \in Slots : Live(n, r)' => task'[n][r] = NewTask(kind, duration, timeout)
    BY <1>3 DEF Puts
  <1> QED BY <1>1, <1>5, <1>6, <1>7

\* A call that starts a task, and goes on to wait for it or not
LEMMA StartKeeps ==
    ASSUME NativeInv, NativeTyped', NEW n \in Nodes, Elsewhere(n), UNCHANGED <<kernelVars, ready>>,
           cpc[n] = "run",
           NEW kind \in Kinds, NEW duration \in Nat, NEW timeout \in Nat,
           StartTask(n, kind, duration, timeout),
           Due(n, {}), open'[n] = open[n] \cup {kind},
           \/ cpc'[n] = "run" /\ call'[n] = call[n]
           \/ /\ cpc'[n] = "test" \/ (cpc'[n] = "check" /\ kind = "tx")
              /\ call'[n] # "none" /\ WaitKind(call'[n]) = kind
              /\ call'[n] = "sim_sleep" => asked'[n] = Clamp(now + duration) /\ duration > 0
    PROVE  NativeInv'
  <1>1. NativeTyped /\ (quiet' => quiet /\ open[n] = {})
    BY DEF NativeInv, NativeTyped, Due
  <1>2. ASSUME Calm, Calm' PROVE NodeInv(n)' /\ KeepsLock(n)
    <2>1. NodeInv(n) /\ open[n] = {} /\ open'[n] = {kind}
      BY <1>1, <1>2 DEF NativeInv, Calm
    <2>2. PICK s \in Slots : Puts(n, s, NewTask(kind, duration, timeout))
      BY <1>1, <1>2, StartTaskEffect DEF Calm
    <2>3. /\ Outstanding(n)' /\ n \in Holders /\ n \in Holders'
          /\ \A k \in Kinds : ~ready[n][k]
          /\ \A r \in Slots : Live(n, r)' => task'[n][r] = NewTask(kind, duration, timeout)
      BY <1>1, <2>1, <2>2, StartedAlone
    <2>4. ThreadWaits(n)'
      BY <2>1 DEF NodeInv, ThreadWaits, Waiting
    <2>5. "sleep" \in Kinds
      BY DEF Kinds
    <2>6. SleepTimes(n)'
      <3> SUFFICES ASSUME call'[n] = "sim_sleep", NEW r \in Slots, Live(n, r)'
                   PROVE  /\ task'[n][r].phase = "new" /\ ~task'[n][r].woken
                          /\ task'[n][r].due > 0
                          /\ asked'[n] = Clamp(now + task'[n][r].due)
        BY <2>3, <2>5 DEF SleepTimes, kernelVars, Clamp
      <3>1. call[n] = "none"
        BY <2>1 DEF NodeInv, ThreadWaits, Waiting
      <3> QED BY <2>3, <3>1 DEF NewTask
    <2> QED BY <2>3, <2>4, <2>6 DEF NodeInv, KeepsLock, kernelVars
  <1> QED BY <1>1, <1>2, LocalStep DEF kernelVars

LEMMA SimSleepKeeps ==
    ASSUME NativeInv, NEW n \in Nodes, NEW d \in Durations, sim_sleep(n, d) PROVE NativeInv'
  <1> USE DEF sim_sleep, Calling, Opens
  <1>1. NativeTyped /\ d \in Nat /\ d > 0 /\ 0 \in Nat /\ "sleep" \in Kinds
    BY NativeAssumption DEF NativeInv, Kinds
  <1>2. Clamp(now + d) \in 0..Length
    BY <1>1, ClampTyped, NativeAssumption DEF NativeTyped
  <1>3. /\ task' \in [Nodes -> [Slots -> TaskRecords]]
        /\ \A m \in Nodes \ {n} : task'[m] = task[m]
    BY <1>1, StartTaskEffect
  <1>4. /\ asked' \in [Nodes -> 0..Length]
        /\ asked'[n] = Clamp(now + d) /\ cpc[n] = "run" /\ cpc'[n] = "test"
        /\ call'[n] = "sim_sleep" /\ open'[n] = open[n] \cup {"sleep"}
    BY <1>1, <1>2 DEF NativeTyped
  <1>5. NativeTyped'
    BY <1>1, <1>3, <1>4 DEF NativeTyped, kernelVars, CPCs, FnCalls, Kinds, Due
  <1>6. Elsewhere(n)
    BY <1>1, <1>3 DEF NativeTyped, Elsewhere, kernelVars
  <1>7. WaitKind("sim_sleep") = "sleep" /\ "sim_sleep" # "none"
    BY DEF WaitKind
  <1> QED BY <1>1, <1>4, <1>5, <1>6, <1>7, StartKeeps

\* A call that is refused changes nothing, except that it may come at the wrong moment
LEMMA RefusedKeeps ==
    ASSUME NativeInv, NEW n \in Nodes, Due(n, {}),
           UNCHANGED <<kernelVars, task, cpc, call, open, asked, ready>>
    PROVE  NativeInv'
  BY DEF Due, NativeInv, NativeTyped, EndsAtLength, NeverFrozen, Calm, Holders,
         NodeInv, Outstanding, ThreadWaits, SleepTimes, Waiting, Live, Ready, kernelVars,
         is_finished, Clamp

LEMMA TransmitStartKeeps ==
    ASSUME NativeInv, NEW n \in Nodes,
           NEW fn \in {"sim_transmit_blocking", "sim_transmit_start"}, sim_transmit_start(n, fn)
    PROVE  NativeInv'
  <1>1. NativeTyped /\ 0 \in Nat /\ "tx" \in Kinds
    BY NativeAssumption DEF NativeInv, Kinds
  <1>2. Due(n, {}) /\ Calling(n, fn) /\ UNCHANGED asked
    BY DEF sim_transmit_start
  <1>3. CASE UNCHANGED <<task, cpc, call, open>>
    BY <1>2, <1>3, RefusedKeeps DEF Calling
  <1>4. CASE /\ StartTask(n, "tx", 0, 0) /\ Opens(n, "tx")
             /\ IF fn = "sim_transmit_blocking"
                  THEN /\ cpc' = [cpc EXCEPT ![n] = "check"]
                       /\ call' = [call EXCEPT ![n] = fn]
                  ELSE UNCHANGED <<cpc, call>>
    <2>1. /\ task' \in [Nodes -> [Slots -> TaskRecords]]
          /\ \A m \in Nodes \ {n} : task'[m] = task[m]
      BY <1>1, <1>4, StartTaskEffect
    <2>2. NativeTyped'
      BY <1>1, <1>2, <1>4, <2>1
      DEF NativeTyped, kernelVars, CPCs, FnCalls, Kinds, Due, Calling, Opens
    <2>3. Elsewhere(n)
      BY <1>1, <1>2, <1>4, <2>1 DEF NativeTyped, Elsewhere, kernelVars, Calling, Opens
    <2>4. /\ cpc[n] = "run" /\ open'[n] = open[n] \cup {"tx"}
          /\ \/ cpc'[n] = "run" /\ call'[n] = call[n]
             \/ cpc'[n] = "check" /\ call'[n] = "sim_transmit_blocking"
      BY <1>1, <1>2, <1>4 DEF NativeTyped, Calling, Opens
    <2>5. /\ WaitKind("sim_transmit_blocking") = "tx"
          /\ "sim_transmit_blocking" \notin {"none", "sim_sleep"}
      BY DEF WaitKind
    <2>6. UNCHANGED <<kernelVars, ready>>
      BY <1>2 DEF Calling
    <2> QED BY <1>1, <1>2, <1>4, <2>2, <2>3, <2>4, <2>5, <2>6, StartKeeps
  <1> QED BY <1>3, <1>4 DEF sim_transmit_start

LEMMA StartReceiveKeeps ==
    ASSUME NativeInv, NEW n \in Nodes, NEW timeout \in Timeouts,
           NEW fn \in {"sim_receive_blocking", "sim_start_receive"},
           sim_start_receive(n, fn, timeout)
    PROVE  NativeInv'
  <1>1. NativeTyped /\ 0 \in Nat /\ timeout \in Nat /\ "rx" \in Kinds
    BY NativeAssumption DEF NativeInv, Kinds
  <1>2. Due(n, {}) /\ Calling(n, fn) /\ UNCHANGED asked
    BY DEF sim_start_receive
  <1>3. CASE UNCHANGED <<task, cpc, call, open>>
    BY <1>2, <1>3, RefusedKeeps DEF Calling
  <1>4. CASE /\ StartTask(n, "rx", 0, timeout) /\ Opens(n, "rx")
             /\ IF fn = "sim_receive_blocking"
                  THEN /\ cpc' = [cpc EXCEPT ![n] = "test"]
                       /\ call' = [call EXCEPT ![n] = fn]
                  ELSE UNCHANGED <<cpc, call>>
    <2>1. /\ task' \in [Nodes -> [Slots -> TaskRecords]]
          /\ \A m \in Nodes \ {n} : task'[m] = task[m]
      BY <1>1, <1>4, StartTaskEffect
    <2>2. NativeTyped'
      BY <1>1, <1>2, <1>4, <2>1
      DEF NativeTyped, kernelVars, CPCs, FnCalls, Kinds, Due, Calling, Opens
    <2>3. Elsewhere(n)
      BY <1>1, <1>2, <1>4, <2>1 DEF NativeTyped, Elsewhere, kernelVars, Calling, Opens
    <2>4. /\ cpc[n] = "run" /\ open'[n] = open[n] \cup {"rx"}
          /\ \/ cpc'[n] = "run" /\ call'[n] = call[n]
             \/ cpc'[n] = "test" /\ call'[n] = "sim_receive_blocking"
      BY <1>1, <1>2, <1>4 DEF NativeTyped, Calling, Opens
    <2>5. /\ WaitKind("sim_receive_blocking") = "rx"
          /\ "sim_receive_blocking" \notin {"none", "sim_sleep"}
      BY DEF WaitKind
    <2>6. UNCHANGED <<kernelVars, ready>>
      BY <1>2 DEF Calling
    <2> QED BY <1>1, <1>2, <1>4, <2>2, <2>3, <2>4, <2>5, <2>6, StartKeeps
  <1> QED BY <1>3, <1>4 DEF sim_start_receive

-----------------------------------------------------------------------------
(* The kernel, and the radios of others.                                   *)

\* The task of slot s is woken in the next tick
Wakes(n, s) == Live(n, s) /\ ~Ready(n, s) /\ task[n][s].due = now + 1

LEMMA TickEffect ==
    ASSUME NativeTyped, Tick
    PROVE  /\ NativeTyped' /\ now' = now + 1
           /\ timer_locks' = leaked' - leaked
                              + Cardinality({p \in Nodes \X Slots : Wakes(p[1], p[2])})
           /\ main = "looping" /\ timer_locks = 0
           /\ main' \in {"looping", "ended"} /\ (main' = "ended" => now' = Length)
           /\ UNCHANGED <<threadVars, ready>>
           /\ \A n \in Nodes, s \in Slots :
                 /\ task'[n][s].kind = task[n][s].kind /\ task'[n][s].phase = task[n][s].phase
                 /\ task'[n][s].due = task[n][s].due
                 /\ task'[n][s].woken = (task[n][s].woken \/ Wakes(n, s))
  <1> DEFINE Twice == {p \in Nodes \X Slots :
                          Wakes(p[1], p[2]) /\ task[p[1]][p[2]].put = "twice"}
  <1>1. /\ now' = now + 1 /\ now < Length /\ main = "looping" /\ timer_locks = 0
        /\ task' = [n \in Nodes |-> [s \in Slots |->
                       [task[n][s] EXCEPT !.woken = @ \/ Wakes(n, s)]]]
        /\ leaked' = leaked + Cardinality(Twice)
        /\ timer_locks' = timer_locks + (leaked' - leaked)
                           + Cardinality({p \in Nodes \X Slots : Wakes(p[1], p[2])})
        /\ main' = IF now + 1 = Length THEN "ended" ELSE main
        /\ UNCHANGED <<threadVars, radioVars, ready>>
    BY DEF Tick, Wakes
  <1>2. now + 1 \in 0..Length
    BY <1>1, NativeAssumption DEF NativeTyped
  <1>3. ASSUME NEW n \in Nodes, NEW s \in Slots
        PROVE  /\ task'[n][s] = [task[n][s] EXCEPT !.woken = @ \/ Wakes(n, s)]
               /\ task[n][s] \in TaskRecords
    BY <1>1 DEF NativeTyped
  <1>4. ASSUME NEW n \in Nodes, NEW s \in Slots
        PROVE  /\ task'[n][s] \in TaskRecords
               /\ task'[n][s].kind = task[n][s].kind /\ task'[n][s].phase = task[n][s].phase
               /\ task'[n][s].due = task[n][s].due
               /\ task'[n][s].woken = (task[n][s].woken \/ Wakes(n, s))
    <2> DEFINE w == task[n][s].woken \/ Wakes(n, s)
    <2>1. w \in BOOLEAN /\ task'[n][s] = [task[n][s] EXCEPT !.woken = w]
      BY <1>3
    <2> HIDE DEF w
    <2>2. /\ task'[n][s] \in TaskRecords
          /\ task'[n][s].kind = task[n][s].kind /\ task'[n][s].phase = task[n][s].phase
          /\ task'[n][s].due = task[n][s].due /\ task'[n][s].woken = w
      BY <1>3, <2>1, ZenonT(120) DEF TaskRecords
    <2> QED BY <2>2 DEF w
  <1>5. task' \in [Nodes -> [Slots -> TaskRecords]]
    <2>1. \A n \in Nodes : task'[n] \in [Slots -> TaskRecords]
      BY <1>1, <1>4
    <2>2. task' = [n \in Nodes |-> task'[n]]
      BY <1>1
    <2> QED BY <2>1, <2>2
  <1>6. /\ Cardinality({p \in Nodes \X Slots : Wakes(p[1], p[2])}) \in Nat
        /\ Cardinality(Twice) \in Nat
    <2>1. IsFiniteSet(Nodes \X Slots)
      BY NativeAssumption, FS_Product
    <2>2. IsFiniteSet({p \in Nodes \X Slots : Wakes(p[1], p[2])}) /\ IsFiniteSet(Twice)
      BY <2>1, FS_Subset
    <2> QED BY <2>2, FS_CardinalityType
  <1> HIDE DEF Twice
  <1>7. /\ leaked \in Nat /\ leaked' \in Nat /\ timer_locks' \in Int
        /\ timer_locks' = leaked' - leaked
                           + Cardinality({p \in Nodes \X Slots : Wakes(p[1], p[2])})
    BY <1>1, <1>6 DEF NativeTyped
  <1> QED BY <1>1, <1>2, <1>4, <1>5, <1>7 DEF NativeTyped, threadVars

\* The clock moves when no node computes: every node that is not over has one task, which waits
LEMMA AllWait ==
    ASSUME NativeInv, Calm, timer_locks = 0, NEW n \in Nodes
    PROVE  /\ cpc[n] # "exited" => \E s \in Slots : Live(n, s) /\ ~Ready(n, s)
           /\ \A s \in Slots : Ready(n, s) => FALSE
           /\ \A s, r \in Slots : Live(n, s) /\ Live(n, r) => r = s
           /\ \A s \in Slots : Live(n, s) => cpc[n] # "exited"
  <1>1. Outstanding(n) /\ ThreadWaits(n) /\ timer_locks = leaked + Cardinality(Holders)
    BY DEF NativeInv, NodeInv
  <1>2. Holders = {}
    <2>1. leaked \in Nat
      BY DEF NativeInv, NativeTyped
    <2> QED BY <1>1, <2>1, HoldersFinite, FS_EmptySet
  <1>3. \A s, r \in Slots : Live(n, s) /\ Live(n, r) => r = s
    BY <1>1 DEF Outstanding
  <1>4. \A s \in Slots : Live(n, s) => cpc[n] # "exited"
    BY <1>1 DEF Outstanding, ThreadWaits
  <1>5. cpc[n] # "exited" => \E s \in Slots : Live(n, s) /\ ~Ready(n, s)
    BY <1>2 DEF Holders
  <1>6. \A s \in Slots : Ready(n, s) => Live(n, s)
    BY <1>1 DEF Outstanding
  <1> QED BY <1>3, <1>4, <1>5, <1>6

\* One lock for every task that is woken is one lock for every node that computes then
LEMMA TickCounts ==
    ASSUME NativeInv, Calm, Tick
    PROVE  timer_locks' = leaked' + Cardinality(Holders')
  <1> DEFINE W == {p \in Nodes \X Slots : Wakes(p[1], p[2])}
             slot(n) == CHOOSE s \in Slots : Wakes(n, s)
             f == [n \in Holders' |-> <<n, slot(n)>>]
  <1>0. NativeTyped
    BY DEF NativeInv
  <1>1. /\ timer_locks = 0 /\ timer_locks' = leaked' - leaked + Cardinality(W) /\ cpc' = cpc
        /\ leaked' \in Nat
        /\ \A n \in Nodes, s \in Slots :
              /\ task'[n][s].phase = task[n][s].phase
              /\ task'[n][s].woken = (task[n][s].woken \/ Wakes(n, s))
    BY <1>0, TickEffect DEF threadVars, NativeTyped
  <1>2. ASSUME NEW n \in Nodes, NEW s \in Slots, Wakes(n, s)
        PROVE  n \in Holders' /\ slot(n) = s /\ Wakes(n, slot(n))
    <2>1. /\ \A r \in Slots : Live(n, r) => r = s
          /\ cpc[n] # "exited"
      BY <1>1, <1>2, AllWait DEF Wakes
    <2>2. slot(n) \in Slots /\ Wakes(n, slot(n))
      BY <1>2
    <2>3. slot(n) = s
      BY <2>1, <2>2 DEF Wakes
    <2>4. \A r \in Slots : Live(n, r)' => Ready(n, r)'
      BY <1>1, <1>2, <2>1 DEF Live, Ready
    <2> QED BY <1>1, <2>1, <2>2, <2>3, <2>4 DEF Holders
  <1>3. ASSUME NEW n \in Holders' PROVE n \in Nodes /\ \E s \in Slots : Wakes(n, s)
    <2>1. n \in Nodes /\ cpc[n] # "exited" /\ \A s \in Slots : Live(n, s)' => Ready(n, s)'
      BY <1>1, <1>3 DEF Holders
    <2>2. PICK s \in Slots : Live(n, s) /\ ~Ready(n, s)
      BY <1>1, <2>1, AllWait
    <2>3. Wakes(n, s)
      BY <1>1, <2>1, <2>2 DEF Live, Ready
    <2> QED BY <2>1, <2>3
  <1>4. \A n \in Holders' : slot(n) \in Slots /\ Wakes(n, slot(n)) /\ n \in Nodes
    BY <1>3
  <1>5. \A p \in W : p = <<p[1], slot(p[1])>> /\ p[1] \in Holders'
    BY <1>2
  <1>6. \A n \in Holders' : <<n, slot(n)>> \in W
    BY <1>4
  <1> HIDE DEF W, slot
  <1>7. f \in Bijection(Holders', W)
    BY <1>5, <1>6 DEF Bijection, Injection, Surjection, IsInjective
  <1>8. IsFiniteSet(Holders')
    BY NativeAssumption, FS_Subset DEF Holders
  <1>9. Cardinality(W) = Cardinality(Holders')
    BY <1>7, <1>8, FS_Bijection DEF ExistsBijection
  <1>10. Cardinality(Holders') \in Nat
    BY <1>8, FS_CardinalityType
  <1>11. leaked = 0
    BY <1>0, <1>1, HoldersFinite DEF NativeInv, NativeTyped
  <1> QED BY <1>1, <1>9, <1>10, <1>11

LEMMA TickNodes ==
    ASSUME NativeInv, Calm, Tick, NEW n \in Nodes
    PROVE  NodeInv(n)'
  <1>0. NativeTyped /\ NodeInv(n)
    BY DEF NativeInv
  <1>1. /\ timer_locks = 0 /\ now' = now + 1 /\ UNCHANGED <<threadVars, ready>>
        /\ \A s \in Slots :
              /\ task'[n][s].kind = task[n][s].kind /\ task'[n][s].phase = task[n][s].phase
              /\ task'[n][s].due = task[n][s].due
              /\ task'[n][s].woken = (task[n][s].woken \/ Wakes(n, s))
    BY <1>0, TickEffect
  <1>2. \A s \in Slots : /\ Live(n, s)' <=> Live(n, s)
                         /\ Ready(n, s)' => Ready(n, s) \/ Live(n, s)
    BY <1>1 DEF Live, Ready, Wakes
  <1>3. Outstanding(n)'
    BY <1>0, <1>1, <1>2 DEF NodeInv, Outstanding, threadVars
  <1>4. ThreadWaits(n)'
    BY <1>0, <1>1 DEF NodeInv, ThreadWaits, Waiting, threadVars
  <1>5. SleepTimes(n)'
    <2> SUFFICES ASSUME call[n] = "sim_sleep"
                 PROVE  /\ ~ready[n]["sleep"]
                        /\ \A s \in Slots : Live(n, s) =>
                              /\ task[n][s].phase # "new"
                              /\ asked[n] = task[n][s].due /\ task[n][s].due >= now + 1
                              /\ task'[n][s].woken <=> task[n][s].due = now + 1
      BY <1>1, <1>2 DEF SleepTimes, threadVars
    <2>1. "sleep" \in Kinds /\ cpc[n] # "exited"
      BY <1>0 DEF Kinds, NodeInv, ThreadWaits, Waiting
    <2>2. ~ready[n]["sleep"]
      BY <1>0, <1>1, <2>1, AllWait DEF NodeInv, Outstanding
    <2>3. ASSUME NEW s \in Slots, Live(n, s)
          PROVE  /\ task[n][s].phase # "new"
                 /\ asked[n] = task[n][s].due /\ task[n][s].due >= now + 1
                 /\ task'[n][s].woken <=> task[n][s].due = now + 1
      <3>1. ~Ready(n, s)
        BY <1>1, AllWait
      <3>2. task[n][s].phase # "new" /\ ~task[n][s].woken
        BY <3>1 DEF Ready
      <3>3. asked[n] = task[n][s].due /\ task[n][s].due >= now /\ task[n][s].due # now
        BY <1>0, <2>3, <3>2 DEF NodeInv, SleepTimes
      <3>4. task[n][s].due \in Nat /\ now \in Nat
        BY <1>0, NativeAssumption DEF NativeTyped, TaskRecords
      <3>5. task'[n][s].woken <=> task[n][s].due = now + 1
        BY <1>1, <2>3, <3>1, <3>2 DEF Wakes
      <3> QED BY <3>2, <3>3, <3>4, <3>5
    <2> QED BY <2>2, <2>3
  <1> QED BY <1>3, <1>4, <1>5 DEF NodeInv

LEMMA TickKeeps == ASSUME NativeInv, Tick PROVE NativeInv'
  <1>1. NativeTyped
    BY DEF NativeInv
  <1>2. /\ NativeTyped' /\ main = "looping" /\ quiet' = quiet
        /\ main' \in {"looping", "ended"} /\ (main' = "ended" => now' = Length)
    BY <1>1, TickEffect DEF threadVars
  <1>3. Calm' => Calm
    BY <1>2 DEF Calm
  <1>4. EndsAtLength' /\ NeverFrozen'
    BY <1>2 DEF EndsAtLength, NeverFrozen
  <1> QED BY <1>2, <1>3, <1>4, TickCounts, TickNodes DEF NativeInv

\* A put only moves the wake-up of a task that receives
LEMMA PacketArrivesKeeps ==
    ASSUME NativeInv, NEW n \in Nodes, PacketArrives(n) PROVE NativeInv'
  <1>0. NativeTyped /\ UNCHANGED <<kernelVars, threadVars, ready>>
    BY DEF NativeInv, PacketArrives
  <1>1. CASE UNCHANGED task
    BY <1>0, <1>1 DEF NativeInv, NativeTyped, EndsAtLength, NeverFrozen, Calm, Holders,
         NodeInv, Outstanding, ThreadWaits, SleepTimes, Waiting, Live, Ready, kernelVars,
         threadVars, is_finished, Clamp
  <1>2. ASSUME NEW s \in Getters(n), task' = [task EXCEPT ![n][s] = Notified(@)]
        PROVE  NativeInv'
    <2> DEFINE rec == Notified(task[n][s])
    <2>1. s \in Slots /\ Live(n, s) /\ task[n][s].kind = "rx"
      BY <1>2 DEF Getters, LiveTasks
    <2>2. task[n][s] \in TaskRecords /\ now + 1 \in Nat
      BY <1>0, <2>1, NativeAssumption DEF NativeTyped
    <2>3. /\ rec \in TaskRecords /\ rec.kind = task[n][s].kind /\ rec.phase = task[n][s].phase
          /\ rec.woken = task[n][s].woken
      <3>1. CASE task[n][s].woken
        BY <2>2, <3>1 DEF Notified, TaskRecords
      <3>2. CASE ~task[n][s].woken
        <4> DEFINE p == IF task[n][s].due = now + 1 THEN "twice" ELSE "once"
        <4>1. rec = [task[n][s] EXCEPT !.due = now + 1, !.put = p] /\ p \in {"once", "twice"}
          BY <3>2 DEF Notified
        <4> HIDE DEF p, rec
        <4> QED BY <2>2, <4>1 DEF TaskRecords
      <3> QED BY <3>1, <3>2
    <2>4. task' = [task EXCEPT ![n][s] = rec]
      BY <1>2, <2>1
    <2> HIDE DEF rec
    <2>5. Puts(n, s, rec)
      BY <1>0, <2>1, <2>3, <2>4, PutsRecord
    <2>6. NativeTyped'
      BY <1>0, <2>5 DEF NativeTyped, Puts, kernelVars, threadVars
    <2>7. Elsewhere(n)
      BY <1>0, <2>5 DEF Elsewhere, Puts, kernelVars, threadVars
    <2>8. \A r \in Slots : /\ task'[n][r].kind = task[n][r].kind
                           /\ (Live(n, r)' <=> Live(n, r)) /\ (Ready(n, r)' <=> Ready(n, r))
      BY <2>1, <2>3, <2>5 DEF Puts, Live, Ready
    <2>9. ASSUME NodeInv(n) PROVE NodeInv(n)'
      <3>1. Outstanding(n)' /\ ThreadWaits(n)'
        BY <1>0, <2>8, <2>9 DEF NodeInv, Outstanding, ThreadWaits, Waiting, threadVars
      <3>2. call[n] # "sim_sleep"
        BY <2>1, <2>9 DEF NodeInv, Outstanding, ThreadWaits, Waiting, WaitKind
      <3> QED BY <1>0, <3>1, <3>2 DEF NodeInv, SleepTimes, threadVars
    <2>10. n \in Holders' <=> n \in Holders
      BY <1>0, <2>8 DEF Holders, threadVars
    <2>11. Calm => NodeInv(n)' /\ KeepsLock(n)
      BY <1>0, <2>9, <2>10 DEF NativeInv, KeepsLock, kernelVars
    <2> QED BY <1>0, <2>6, <2>7, <2>11, LocalStep DEF kernelVars, threadVars
  <1> QED BY <1>1, <1>2 DEF PacketArrives

LEMMA CloseKeeps == ASSUME NativeInv, Close PROVE NativeInv'
  <1>1. NativeTyped' /\ EndsAtLength' /\ NeverFrozen' /\ ~Calm'
    BY DEF Close, NativeInv, NativeTyped, EndsAtLength, NeverFrozen, Calm, threadVars
  <1> QED BY <1>1 DEF NativeInv

LEMMA StutterKeeps == ASSUME NativeInv, UNCHANGED vars PROVE NativeInv'
  BY DEF vars, NativeInv, NativeTyped, EndsAtLength, NeverFrozen, Calm, Holders, NodeInv,
         Outstanding, ThreadWaits, SleepTimes, Waiting, Live, Ready, kernelVars, threadVars,
         is_finished, Clamp

-----------------------------------------------------------------------------
(* The specification.                                                      *)

LEMMA NativeInit == Init => NativeInv
  <1> SUFFICES ASSUME Init PROVE NativeInv
    OBVIOUS
  <1>1. FreeSlot \in TaskRecords
    BY DEF FreeSlot, TaskRecords, Kinds, Phases
  <1>2. Cardinality(Nodes) \in Int
    BY NativeAssumption, FS_CardinalityType
  <1>3. NativeTyped
    BY <1>1, <1>2, NativeAssumption DEF Init, NativeTyped, CPCs, FnCalls
  <1>4. \A n \in Nodes, s \in Slots : ~Live(n, s) /\ ~Ready(n, s)
    BY DEF Init, Live, Ready, FreeSlot
  <1>5. Holders = Nodes
    BY <1>4 DEF Init, Holders
  <1>6. \A n \in Nodes : NodeInv(n)
    BY <1>4 DEF Init, NodeInv, Outstanding, ThreadWaits, SleepTimes, Waiting
  <1>7. EndsAtLength /\ NeverFrozen
    BY DEF Init, EndsAtLength, NeverFrozen
  <1> QED BY <1>2, <1>3, <1>5, <1>6, <1>7 DEF NativeInv, Init

LEMMA FirmwareKeeps == ASSUME NativeInv, NEW n \in Nodes, Firmware(n) PROVE NativeInv'
  BY SimSleepKeeps, TransmitStartKeeps, StartReceiveKeeps, CallWaitKeeps, MainReturnsKeeps
  DEF Firmware

LEMMA NativeNext == NativeInv /\ [Next]_vars => NativeInv'
  <1> SUFFICES ASSUME NativeInv, [Next]_vars PROVE NativeInv'
    OBVIOUS
  <1>1. ASSUME NEW n \in Nodes,
               \/ StartThread(n) \/ Firmware(n)
               \/ \E b \in BOOLEAN : sim_radio_set_rx_config(n, b)
               \/ Thread(n) \/ SpuriousWakeUp(n) \/ NodeEnds(n) \/ PacketArrives(n)
               \/ \E s \in Slots : LoopTask(n, s)
        PROVE  NativeInv'
    BY <1>1, StartThreadKeeps, FirmwareKeeps, SetRxConfigKeeps, CheckTransmittingKeeps,
       TestFlagKeeps, ResetFlagKeeps, SpuriousWakeUpKeeps, NodeEndsKeeps, PacketArrivesKeeps,
       LoopTaskKeeps DEF Thread
  <1> QED BY <1>1, TickKeeps, CloseKeeps, StutterKeeps DEF Next, Over

\* The inductive invariant holds, however the threads of the firmware and the loop interleave.
THEOREM NativeInvariant == Spec => []NativeInv
  BY NativeInit, NativeNext, PTL DEF Spec

\* No flag is left up and no wait returns early: what a node has open is what the loop works on or
\* has signalled (native_node.c:22-47, radio_node.c:36-80).
THEOREM CallsAreOutstanding == Spec => []OpenMeansOutstanding
  <1>1. NativeInv => OpenMeansOutstanding
    <2> SUFFICES ASSUME NativeInv, Calm, NEW n \in Nodes
                 PROVE  open[n] = {k \in Kinds : ready[n][k] \/ LiveTasks(n, k) # {}}
      BY DEF OpenMeansOutstanding, Calm
    <2>1. Outstanding(n) /\ open[n] \subseteq Kinds
      BY DEF NativeInv, NodeInv, NativeTyped
    <2>2. \A k \in open[n] : ready[n][k] \/ LiveTasks(n, k) # {}
      BY <2>1 DEF Outstanding, LiveTasks
    <2>3. \A k \in Kinds : ready[n][k] \/ LiveTasks(n, k) # {} => k \in open[n]
      BY <2>1 DEF Outstanding, LiveTasks
    <2> QED BY <2>1, <2>2, <2>3
  <1> QED BY <1>1, NativeInvariant, PTL

\* A node holds one lock exactly while its firmware computes, beside the locks that a packet in
\* the last tick of a get leaks: the clock never moves under a node (native_node.py:102-120,
\* radio_node.py:185-245, queue.py:53).
THEOREM NodesHoldTheClock == Spec => []OneLockPerNode
  <1>1. NativeInv => OneLockPerNode
    BY DEF NativeInv, OneLockPerNode, Calm, Holders
  <1> QED BY <1>1, NativeInvariant, PTL

\* A call that waits returns from the reset of its flag, or from the refusal of its first test
LEMMA OnlyWaitsReturn ==
    ASSUME NativeInv, Next, NEW n \in Nodes, call[n] # "none", call'[n] = "none"
    PROVE  cpc[n] \in {"check", "reset"}
  <1>1. call \in [Nodes -> FnCalls] /\ call' # call
    BY DEF NativeInv, NativeTyped
  <1>2. PICK m \in Nodes : Firmware(m) \/ CheckTransmitting(m) \/ ResetFlag(m)
    BY <1>1 DEF Next, Tick, Close, StartThread, sim_radio_set_rx_config, Thread, TestFlag,
                SpuriousWakeUp, NodeEnds, PacketArrives, LoopTask, Over, vars, threadVars
  <1>3. CASE Firmware(m)
    <2>1. \E fn \in FnCalls \ {"none"} : call' = [call EXCEPT ![m] = fn]
      BY <1>1, <1>3 DEF Firmware, sim_sleep, sim_transmit_start, sim_start_receive, CallWait,
                        MainReturns, FnCalls
    <2> QED BY <1>1, <2>1
  <1>4. CASE CheckTransmitting(m) \/ ResetFlag(m)
    BY <1>1, <1>4 DEF CheckTransmitting, ResetFlag
  <1> QED BY <1>2, <1>3, <1>4

\* sim_sleep returns at the tick it asked for (native_node.c:22-36).
THEOREM SleepsAreExact == Spec => SleepsOut
  <1>1. ASSUME NativeInv, [Next]_vars
        PROVE  [\A n \in Nodes :
                  quiet /\ call[n] = "sim_sleep" /\ call'[n] = "none"
                      => now = asked[n] \/ is_finished]_vars
    <2> SUFFICES ASSUME NEW n \in Nodes, Next, quiet, call[n] = "sim_sleep", call'[n] = "none",
                        ~is_finished
                 PROVE  now = asked[n]
      BY <1>1
    <2>1. Calm
      BY <1>1, NativeAssumption
      DEF NativeInv, NativeTyped, EndsAtLength, NeverFrozen, Calm, is_finished
    <2>2. NodeInv(n) /\ cpc[n] \in {"check", "reset"}
      BY <1>1, <2>1, OnlyWaitsReturn DEF NativeInv
    <2>3. cpc[n] = "reset"
      BY <2>2 DEF NodeInv, ThreadWaits, WaitKind
    <2> QED BY <2>2, <2>3 DEF NodeInv, ThreadWaits, SleepTimes, WaitKind
  <1> QED BY <1>1, NativeInvariant, PTL DEF Spec, SleepsOut

=============================================================================
