-------------------------- MODULE LoraRadioProofs --------------------------
(***************************************************************************)
(* The radios, proved for any number of radios and tasks, any assignment   *)
(* of tasks to radios and any calls: no radio is stuck in TX, no packet is *)
(* left in a chain and no waiter for an idle channel is forgotten, and the *)
(* end of a packet takes a tick per receiver at most.  With one task per   *)
(* radio, nothing takes a radio out of TX during its transmission.  What a *)
(* radio delivers it received undisturbed, and it delivers it once.        *)
(***************************************************************************)
EXTENDS LoraRadioHistory, FiniteSetTheorems, SequenceTheorems, WellFoundedInduction, TLAPS

\* The inductive invariant.  carrier_sense never remembers TX, which is the one state that its
\* last step must not put back.
TXInv ==
    /\ radio_state \in [Radios -> States]
    /\ pc \in [Tasks -> PCs]
    /\ old_state \in [Tasks -> States \ {"TX"}]
    /\ TXHasTransmission

-----------------------------------------------------------------------------
(* Steps that put no radio into TX and end no transmission.                *)

\* No transmission ends, and no radio enters TX
Harmless ==
    /\ radio_state' \in [Radios -> States]
    /\ pc' \in [Tasks -> PCs]
    /\ old_state' \in [Tasks -> States \ {"TX"}]
    /\ \A u \in Tasks : OnAir(u) => OnAir(u)'
    /\ \A r \in Radios : radio_state'[r] = "TX" => radio_state[r] = "TX"

\* A step of this kind preserves the invariant
LEMMA HarmlessSteps == ASSUME TXInv, Harmless PROVE TXInv'
  BY DEF TXInv, Harmless, TXHasTransmission, OnAir

\* The first state satisfies the invariant: every radio is off
LEMMA TXInvInit == Init => TXInv
  BY DEF Init, TXInv, States, PCs, TXHasTransmission

\* The clock moves neither a radio nor a task
LEMMA TXInvTick == TXInv /\ Tick => TXInv'
  BY DEF TXInv, Tick, TXHasTransmission, OnAir, radioVars

-----------------------------------------------------------------------------
\* No call but a transmission puts the radio into TX, whatever the other tasks do to it.
LEMMA QuietCalls ==
    ASSUME TXInv, NEW t \in Tasks,
           \/ Standby(t) \/ Off(t) \/ Receive(t) \/ CarrierSense(t) \/ WaitForChannelIdle(t)
           \/ ReceiveData(t) \/ FlushRxQueue(t) \/ SetTxConfig(t) \/ SetRxConfig(t)
           \/ SetChannel(t) \/ SetRxChainConfig(t) \/ EnableRxChain(t) \/ AddRxChain(t)
           \/ SetChannelPlan(t)
    PROVE  Harmless
  <1> USE ClientsAssumption DEF TXInv, Harmless, OnAir, States, PCs, radioVars
  <1>1. CASE Standby(t)
    BY <1>1 DEF Standby, Enters, WakesUp, SetState, Suspend
  <1>2. CASE Off(t)
    BY <1>2 DEF Off, Enters, SetState
  <1>3. CASE Receive(t)
    BY <1>3 DEF Receive, Enters, Listens, WakesUp, SetState, Suspend, Return
  <1>4. CASE CarrierSense(t)
    BY <1>4 DEF CarrierSense, Enters, Senses, WakesUp, SetState, Suspend, Return
  <1>5. CASE WaitForChannelIdle(t)
    BY <1>5 DEF WaitForChannelIdle, Enters, WaitsForIdle, Suspend, Return
  <1>6. CASE ReceiveData(t)
    BY <1>6 DEF ReceiveData, Enters, Gets, Processes, Suspend, Return
  <1>7. CASE FlushRxQueue(t)
    BY <1>7 DEF FlushRxQueue, Enters
  <1>8. CASE SetTxConfig(t)
    BY <1>8 DEF SetTxConfig, ConfigOnly
  <1>9. CASE SetRxConfig(t)
    BY <1>9 DEF SetRxConfig, ConfigOnly
  <1>10. CASE SetChannel(t)
    BY <1>10 DEF SetChannel, ConfigOnly
  <1>11. CASE SetRxChainConfig(t)
    BY <1>11 DEF SetRxChainConfig, ConfigOnly
  <1>12. CASE EnableRxChain(t)
    BY <1>12 DEF EnableRxChain, ConfigOnly
  <1>13. CASE AddRxChain(t)
    BY <1>13 DEF AddRxChain, ConfigOnly
  <1>14. CASE SetChannelPlan(t)
    BY <1>14 DEF SetChannelPlan, ConfigOnly
  <1> QED BY <1>1, <1>2, <1>3, <1>4, <1>5, <1>6, <1>7, <1>8, <1>9, <1>10, <1>11, <1>12, <1>13, <1>14

\* Nor does any resumption but the one of a transmission; the callbacks at the receivers keep
\* the transmission going.
LEMMA QuietResumptions ==
    ASSUME TXInv, NEW t \in Tasks,
           \/ StandbyDone(t) \/ ReceiveAfterStandby(t) \/ SenseAfterStandby(t) \/ SenseDone(t)
           \/ IdleNoticed(t) \/ ProbeMiss(t) \/ TurnOnAfterStandby(t) \/ SettleDone(t)
           \/ GetHit(t) \/ GetMiss(t) \/ GetCrashes(t) \/ ProcessDone(t) \/ PreambleDone(t)
           \/ PayloadDone(t) \/ ReceiveEndLost(t) \/ ReceiveEndPut(t)
    PROVE  Harmless
  <1> USE ClientsAssumption DEF TXInv, Harmless, OnAir, States, PCs, radioVars
  <1>1. CASE StandbyDone(t)
    BY <1>1 DEF StandbyDone, Resumes, Suspend, Return
  <1>2. CASE ReceiveAfterStandby(t)
    BY <1>2 DEF ReceiveAfterStandby, Resumes, Listens, SetState, Suspend, Return
  <1>3. CASE SenseAfterStandby(t)
    BY <1>3 DEF SenseAfterStandby, Resumes, Senses, SetState, Suspend, Return
  <1>4. CASE SenseDone(t)
    BY <1>4 DEF SenseDone, Resumes, SetState, Suspend, Return
  <1>5. CASE IdleNoticed(t)
    BY <1>5 DEF IdleNoticed, Resumes, WaitsForIdle, Suspend, Return
  <1>6. CASE ProbeMiss(t)
    BY <1>6
    DEF ProbeMiss, Resumes, TimesOut, TurnsOn, WakesUp, Gets, Processes, SetState, Suspend, Return
  <1>7. CASE TurnOnAfterStandby(t)
    BY <1>7 DEF TurnOnAfterStandby, Resumes, TurnsOn, Gets, Processes, SetState, Suspend, Return
  <1>8. CASE SettleDone(t)
    BY <1>8 DEF SettleDone, Resumes, Gets, Processes, Suspend, Return
  <1>9. CASE GetHit(t)
    BY <1>9 DEF GetHit, Resumes, Processes, Suspend, Return
  <1>10. CASE GetMiss(t)
    BY <1>10 DEF GetMiss, Resumes, TimesOut, Suspend, Return
  <1>11. CASE GetCrashes(t)
    BY <1>11 DEF GetCrashes, Resumes, Suspend
  <1>12. CASE ProcessDone(t)
    BY <1>12 DEF ProcessDone, Resumes, Suspend, Return
  <1>13. CASE PreambleDone(t)
    BY <1>13 DEF PreambleDone, Resumes, Suspend
  <1>14. CASE PayloadDone(t)
    BY <1>14 DEF PayloadDone, Resumes
  <1>15. CASE ReceiveEndLost(t)
    BY <1>15 DEF ReceiveEndLost, AtReceiver, LeavesReceiver, Leaves
  <1>16. CASE ReceiveEndPut(t)
    BY <1>16, ZenonT(60) DEF ReceiveEndPut, AtReceiver, put, PutDone
  <1> QED BY <1>1, <1>2, <1>3, <1>4, <1>5, <1>6, <1>7, <1>8, <1>9, <1>10, <1>11,
             <1>12, <1>13, <1>14, <1>15, <1>16

\* The rest of _on_receive_end may switch a single shot receiver off
LEMMA ReceiveEndRestIsHarmless ==
    ASSUME TXInv, NEW t \in Tasks, ReceiveEndRest(t) PROVE Harmless
  <1> DEFINE q == Min(receivers[t])
  <1>1. \/ UNCHANGED radio_state
        \/ radio_state' = [radio_state EXCEPT ![q] = "OFF"]
    BY DEF ReceiveEndRest, SetState, radioVars
  <1>2. /\ radio_state' \in [Radios -> States]
        /\ \A r \in Radios : radio_state'[r] = "TX" => radio_state[r] = "TX"
    BY <1>1 DEF TXInv, States
  <1>3. pc' = [pc EXCEPT ![t] = "ending"] /\ UNCHANGED old_state
    BY DEF ReceiveEndRest, LeavesReceiver, Leaves
  <1>4. QED
    BY <1>2, <1>3 DEF TXInv, Harmless, OnAir, PCs

-----------------------------------------------------------------------------
(* The two steps that the property is about.                               *)

\* The radio that enters TX has the packet of this task on the air
LEMMA StartKeepsTXInv ==
    ASSUME TXInv, NEW t \in Tasks, ~OnAir(t), NEW own, StartsTransmission(t, own),
           UNCHANGED old_state
    PROVE  TXInv'
  <1>1. radioOf[t] \in Radios
    BY ClientsAssumption
  <1>2. /\ radio_state' = [radio_state EXCEPT ![radioOf[t]] = "TX"]
        /\ pc' = [pc EXCEPT ![t] = "preamble"]
    BY DEF StartsTransmission, SetState, Suspend
  <1>3. OnAir(t)' /\ \A u \in Tasks : OnAir(u) => OnAir(u)'
    BY <1>2 DEF TXInv, OnAir
  <1>4. TXHasTransmission'
    BY <1>1, <1>2, <1>3 DEF TXInv, TXHasTransmission
  <1>5. QED
    BY <1>1, <1>2, <1>4 DEF TXInv, States, PCs

\* transmit_data_blocking enters TX at once, or wakes the radio up first
LEMMA TransmitKeepsTXInv == ASSUME TXInv, NEW t \in Tasks, Transmit(t) PROVE TXInv'
  <1>1. pc[t] = "client" /\ ~OnAir(t) /\ UNCHANGED old_state
    BY DEF Transmit, Enters, OnAir
  <1>2. CASE WakesUp(t, "transmit")
    <2>1. Harmless
      BY <1>1, <1>2, ClientsAssumption
      DEF TXInv, Harmless, OnAir, States, PCs, WakesUp, SetState, Suspend
    <2>2. QED
      BY <2>1, HarmlessSteps
  <1>3. CASE StartsTransmission(t, AllInterrupted(rx_chains[radioOf[t]]))
    BY <1>1, <1>3, StartKeepsTXInv
  <1>4. CASE StartsTransmission(t, rx_chains[radioOf[t]])
    BY <1>1, <1>4, StartKeepsTXInv
  <1>5. QED
    BY <1>2, <1>3, <1>4 DEF Transmit

\* The transmission that ends takes its radio out of TX, whatever state others put it into
LEMMA DoneKeepsTXInv == ASSUME TXInv, NEW t \in Tasks, TransmitDone(t) PROVE TXInv'
  <1> DEFINE r == radioOf[t]
  <1>1. r \in Radios
    BY ClientsAssumption
  <1>2. UNCHANGED old_state
    BY DEF TransmitDone
  <1>3. /\ radio_state' \in [Radios -> States]
        /\ radio_state'[r] # "TX"
        /\ \A q \in Radios \ {r} : radio_state'[q] = radio_state[q]
    BY <1>1 DEF TransmitDone, LeavesTX, WakesUp, SetState, radioVars, TXInv, States
  <1>4. /\ pc' \in [Tasks -> PCs]
        /\ \A u \in Tasks \ {t} : pc'[u] = pc[u]
    BY DEF TransmitDone, LeavesTX, WakesUp, Return, Suspend, TXInv, PCs
  <1>5. TXHasTransmission'
    <2> SUFFICES ASSUME NEW q \in Radios, radio_state'[q] = "TX"
                 PROVE  \E u \in Tasks : OnAir(u)' /\ radioOf[u] = q
      BY DEF TXHasTransmission
    <2>1. q # r /\ radio_state[q] = "TX"
      BY <1>3
    <2>2. PICK u \in Tasks : OnAir(u) /\ radioOf[u] = q
      BY <2>1 DEF TXInv, TXHasTransmission
    <2>3. QED
      BY <2>1, <2>2, <1>4 DEF OnAir
  <1>6. QED
    BY <1>2, <1>3, <1>4, <1>5 DEF TXInv

-----------------------------------------------------------------------------
\* Every step preserves the invariant
LEMMA TXInvNext == TXInv /\ [Next]_vars => TXInv'
  <1> SUFFICES ASSUME TXInv, [Next]_vars PROVE TXInv'
    OBVIOUS
  <1>1. ASSUME NEW t \in Tasks, ClientCall(t) PROVE TXInv'
    <2>1. CASE Transmit(t)
      BY <2>1, TransmitKeepsTXInv
    <2>2. CASE ~Transmit(t)
      BY <1>1, <2>2, QuietCalls, HarmlessSteps DEF ClientCall
    <2>3. QED
      BY <2>1, <2>2
  <1>2. ASSUME NEW t \in Tasks, Resumption(t) PROVE TXInv'
    <2>1. CASE TransmitAfterStandby(t)
      <3>1. ~OnAir(t) /\ UNCHANGED old_state
        BY <2>1 DEF TransmitAfterStandby, Resumes, OnAir
      <3>2. QED
        BY <2>1, <3>1, StartKeepsTXInv DEF TransmitAfterStandby
    <2>2. CASE ReceiveEndRest(t)
      BY <2>2, ReceiveEndRestIsHarmless, HarmlessSteps
    <2>3. CASE TransmitDone(t)
      BY <2>3, DoneKeepsTXInv
    <2>4. CASE ~(TransmitAfterStandby(t) \/ ReceiveEndRest(t) \/ TransmitDone(t))
      BY <1>2, <2>4, QuietResumptions, HarmlessSteps DEF Resumption
    <2>5. QED
      BY <2>1, <2>2, <2>3, <2>4
  <1>3. CASE Tick
    BY <1>3, TXInvTick
  <1>4. CASE UNCHANGED vars
    BY <1>4 DEF TXInv, TXHasTransmission, OnAir, vars, radioVars
  <1>5. QED
    BY <1>1, <1>2, <1>3, <1>4 DEF Next, SpinsForever, Exited

\* The radio leaves TX: for any radios, any tasks driving them and any calls in any order, a
\* radio is in TX only while a task has a packet of it on the air (radio.py, _set_state,
\* carrier_sense, transmit_data_blocking).
THEOREM NoRadioStuckInTX == Spec => []TXHasTransmission
  <1>1. TXInv => TXHasTransmission
    BY DEF TXInv
  <1>2. QED
    BY <1>1, TXInvInit, TXInvNext, PTL DEF Spec

-----------------------------------------------------------------------------
(* What is on the air.  The packets that a radio's chains are busy with    *)
(* belong to transmissions that will come back for them, and the end of a  *)
(* packet takes a tick per receiver at most.                               *)

\* A chain is a record with the attributes of RxChain
IsChain(k) ==
    k = [config |-> k.config, enabled |-> k.enabled, packets_in_transit |-> k.packets_in_transit]

\* A list of chains
IsChainList(s) ==
    /\ \E n \in Nat : s = [i \in 1 .. n |-> s[i]]
    /\ \A c \in DOMAIN s : IsChain(s[c])

\* The packets that a list of chains is busy with
Carried(s) == UNION {DOMAIN s[c].packets_in_transit : c \in DOMAIN s}

\* What the proofs need of the variables' types
RadioTyped ==
    /\ DOMAIN rx_chains = Radios /\ \A r \in Radios : IsChainList(rx_chains[r])
    /\ DOMAIN rx_queue = Radios
    /\ getter \in [Radios -> Tasks \cup {NoTask}]
    /\ idle_waiters \in [Radios -> SUBSET Tasks]
    /\ tx_end_time \in [Radios -> Nat]
    /\ pc \in [Tasks -> PCs]
    /\ call \in [Tasks -> CallNames \cup {"none"}]
    /\ left \in [Tasks -> Nat \cup {Forever}]
    /\ packet \in [Tasks -> Nat]
    /\ receivers \in [Tasks -> SUBSET Radios]
    /\ late \in [Tasks -> Nat]
    /\ sent \in Nat

\* One task at a time is in receive_data on a radio
OneReceiver ==
    \A t, u \in Tasks : Receiving(t) /\ Receiving(u) /\ radioOf[t] = radioOf[u] => t = u

\* The task whose event is in __get_events waits for that queue, which is empty
GetterWaits ==
    \A r \in Radios : getter[r] # NoTask =>
        radioOf[getter[r]] = r /\ pc[getter[r]] \in {"probe", "get"} /\ rx_queue[r] = <<>>

\* The idle waiters of a radio wait for its channel
IdleWaitersWait ==
    \A r \in Radios : \A t \in idle_waiters[r] : radioOf[t] = r /\ pc[t] = "idle_wait"

\* The ticks of a notification are spent one per receiver that is done with, the sender is none
\* of the receivers, and a put in progress has its tick still to come
LateCounted(t) ==
    /\ ~OnAir(t) => late[t] = 0 /\ receivers[t] = {}
    /\ pc[t] \in {"preamble", "payload", "ending", "delivered"} =>
           late[t] + Cardinality(receivers[t]) < Cardinality(Radios)
    /\ pc[t] = "putting" =>
           /\ left[t] \in {0, 1}
           /\ late[t] + left[t] + Cardinality(receivers[t]) <= Cardinality(Radios)
    /\ pc[t] \in {"delivered", "putting"} => receivers[t] # {}

EndsInTime == \A r \in Radios : tx_end_time[r] < Cardinality(Radios)

RadioInv ==
    /\ RadioTyped /\ OneReceiver /\ GetterWaits /\ IdleWaitersWait
    /\ (\A t \in Tasks : LateCounted(t)) /\ EndsInTime
    /\ TransitIsOnAir /\ IdleWaiterHasAPacket

-----------------------------------------------------------------------------
(* Operators of the model.                                                 *)

\* A finite set of numbers has a first one, which is what Min chooses
LEMMA FirstNumber ==
    ASSUME NEW S \in SUBSET Nat, IsFiniteSet(S), S # {} PROVE Min(S) \in S
  <1> DEFINE HasMin(T) == \E x \in T : \A y \in T : x <= y
             Bad == {T \in SUBSET S : T # {} /\ ~HasMin(T)}
  <1>0. IsFiniteSet(S) /\ S \subseteq Nat
    OBVIOUS
  <1>1. Bad = {}
    <2> SUFFICES ASSUME Bad # {} PROVE FALSE
      OBVIOUS
    <2>1. Bad \subseteq FiniteSubsetsOf(S)
      BY <1>0, FS_FiniteSubsetsOfFinite
    <2>2. PICK T \in Bad : \A U \in Bad : ~(<<U, T>> \in StrictSubsetOrdering(S))
      BY <2>1, <1>0, FS_StrictSubsetOrderingWellFounded, WFMin
    <2>3. PICK a \in T : TRUE
      OBVIOUS
    <2>4. CASE T = {a}
      BY <2>4, <1>0
    <2>5. CASE T # {a}
      <3>1. T \ {a} \notin Bad
        BY <2>2, <2>3 DEF StrictSubsetOrdering
      <3>2. PICK x \in T \ {a} : \A y \in T \ {a} : x <= y
        BY <3>1, <2>5
      <3> QED BY <3>2, <1>0
    <2> QED BY <2>4, <2>5
  <1>2. HasMin(S)
    BY <1>1
  <1> QED BY <1>2 DEF Min

\* The first of a set of radios
LEMMA FirstRadio == ASSUME NEW S \in SUBSET Radios, S # {} PROVE Min(S) \in S
  BY RadiosAssumption, FS_Subset, FirstNumber

\* The cardinalities that the counting needs
LEMMA CountingRadios ==
    /\ Cardinality(Radios) \in Nat
    /\ \A S \in SUBSET Radios : Cardinality(S) \in Nat
    /\ \A S \in SUBSET Radios : \A q \in S : Cardinality(S \ {q}) = Cardinality(S) - 1
    /\ \A r \in Radios : \A S \in SUBSET (Radios \ {r}) : Cardinality(S) < Cardinality(Radios)
    /\ Cardinality({}) = 0
  <1>1. \A S \in SUBSET Radios : IsFiniteSet(S)
    BY RadiosAssumption, FS_Subset
  <1>2. \A S \in SUBSET Radios : Cardinality(S) \in Nat
    BY <1>1, FS_CardinalityType
  <1>3. \A S \in SUBSET Radios : \A q \in S : Cardinality(S \ {q}) = Cardinality(S) - 1
    BY <1>1, FS_RemoveElement
  <1>4. ASSUME NEW r \in Radios, NEW S \in SUBSET (Radios \ {r})
        PROVE  Cardinality(S) < Cardinality(Radios)
    <2>1. Cardinality(S) <= Cardinality(Radios \ {r})
      BY <1>1, FS_Subset
    <2>2. Cardinality(Radios \ {r}) = Cardinality(Radios) - 1
      BY <1>3
    <2>3. Cardinality(S) \in Nat /\ Cardinality(Radios) \in Nat
      BY <1>2
    <2> QED BY <2>1, <2>2, <2>3
  <1>5. Cardinality({}) = 0
    BY FS_EmptySet
  <1>6. Cardinality(Radios) \in Nat
    BY <1>2
  <1> QED BY <1>2, <1>3, <1>4, <1>5, <1>6

\* What the operations on one chain do to the packets it is busy with
LEMMA ChainOperations ==
    ASSUME NEW k, IsChain(k)
    PROVE  /\ IsChain(Interrupted(k))
           /\ DOMAIN Interrupted(k).packets_in_transit = DOMAIN k.packets_in_transit
           /\ \A p : /\ IsChain(Without(k, p))
                     /\ DOMAIN Without(k, p).packets_in_transit = DOMAIN k.packets_in_transit \ {p}
           /\ \A e : /\ IsChain([k EXCEPT !.enabled = e])
                     /\ [k EXCEPT !.enabled = e].packets_in_transit = k.packets_in_transit
           /\ \A f : /\ IsChain([k EXCEPT !.config = f])
                     /\ [k EXCEPT !.config = f].packets_in_transit = k.packets_in_transit
  <1> DEFINE R(a, b, c) == [config |-> a, enabled |-> b, packets_in_transit |-> c]
  <1>1. \A a, b, c : IsChain(R(a, b, c)) /\ R(a, b, c).packets_in_transit = c
    BY DEF IsChain
  <1>2. \A x : [k EXCEPT !.packets_in_transit = x] = R(k.config, k.enabled, x)
    BY DEF IsChain
  <1>3. \A x : [k EXCEPT !.enabled = x] = R(k.config, x, k.packets_in_transit)
    BY DEF IsChain
  <1>4. \A x : [k EXCEPT !.config = x] = R(x, k.enabled, k.packets_in_transit)
    BY DEF IsChain
  <1> HIDE DEF R
  <1>5. /\ IsChain(Interrupted(k))
        /\ DOMAIN Interrupted(k).packets_in_transit = DOMAIN k.packets_in_transit
    BY <1>1, <1>2, SMTT(20) DEF Interrupted
  <1>6. \A p : /\ IsChain(Without(k, p))
               /\ DOMAIN Without(k, p).packets_in_transit = DOMAIN k.packets_in_transit \ {p}
    BY <1>1, <1>2 DEF Without
  <1> QED BY <1>1, <1>3, <1>4, <1>5, <1>6

\* A chain that is retuned, switched or made anew
LEMMA ChainConfigurations ==
    /\ \A k, f : IsChain(k) => /\ IsChain(Retuned(k, f))
                               /\ DOMAIN Retuned(k, f).packets_in_transit
                                    = DOMAIN k.packets_in_transit
    /\ \A k, e : IsChain(k) => /\ IsChain(Enabled(k, e))
                               /\ DOMAIN Enabled(k, e).packets_in_transit
                                    = DOMAIN k.packets_in_transit
    /\ \A f : IsChain(NewChain(f)) /\ DOMAIN NewChain(f).packets_in_transit = {}
  <1>1. ASSUME NEW k, NEW f, IsChain(k)
        PROVE  /\ IsChain(Retuned(k, f))
               /\ DOMAIN Retuned(k, f).packets_in_transit = DOMAIN k.packets_in_transit
    <2> DEFINE j == [k EXCEPT !.config = f]
    <2>1. IsChain(j) /\ j.packets_in_transit = k.packets_in_transit
      BY <1>1, ChainOperations
    <2> HIDE DEF j
    <2>2. /\ IsChain(Interrupted(j))
          /\ DOMAIN Interrupted(j).packets_in_transit = DOMAIN j.packets_in_transit
      BY <2>1, ChainOperations
    <2> QED BY <2>1, <2>2 DEF Retuned, j
  <1>2. ASSUME NEW k, NEW e, IsChain(k)
        PROVE  /\ IsChain(Enabled(k, e))
               /\ DOMAIN Enabled(k, e).packets_in_transit = DOMAIN k.packets_in_transit
    <2> DEFINE j == IF e THEN k ELSE Interrupted(k)
    <2>1. IsChain(j) /\ DOMAIN j.packets_in_transit = DOMAIN k.packets_in_transit
      <3>1. CASE e
        BY <3>1, <1>2
      <3>2. CASE ~e
        <4>1. j = Interrupted(k)
          BY <3>2
        <4> QED BY <4>1, <1>2, ChainOperations
      <3> QED BY <3>1, <3>2
    <2> HIDE DEF j
    <2>2. /\ IsChain([j EXCEPT !.enabled = e])
          /\ [j EXCEPT !.enabled = e].packets_in_transit = j.packets_in_transit
      BY <2>1, ChainOperations
    <2> QED BY <2>1, <2>2 DEF Enabled, j
  <1>3. ASSUME NEW f PROVE IsChain(NewChain(f)) /\ DOMAIN NewChain(f).packets_in_transit = {}
    BY DEF NewChain, IsChain
  <1> QED BY <1>1, <1>2, <1>3

\* The start of a packet adds at most that packet to a chain
LEMMA ChainStart ==
    ASSUME NEW k, IsChain(k), NEW p, NEW config, NEW missed, NEW weak, NEW survivor
    PROVE  LET j == on_receive_start(k, p, config, missed, weak, survivor)
           IN  /\ IsChain(j)
               /\ DOMAIN k.packets_in_transit \subseteq DOMAIN j.packets_in_transit
               /\ DOMAIN j.packets_in_transit \subseteq DOMAIN k.packets_in_transit \cup {p}
  <1> DEFINE R(a, b, c) == [config |-> a, enabled |-> b, packets_in_transit |-> c]
             j == on_receive_start(k, p, config, missed, weak, survivor)
  <1>1. \A a, b, c : IsChain(R(a, b, c)) /\ R(a, b, c).packets_in_transit = c
    BY DEF IsChain
  <1>2. \A x : [k EXCEPT !.packets_in_transit = x] = R(k.config, k.enabled, x)
    BY DEF IsChain
  <1> HIDE DEF R
  <1>3. CASE ~k.enabled \/ ~overlaps(k.config, config)
    BY <1>3 DEF on_receive_start
  <1>4. CASE ~(~k.enabled \/ ~overlaps(k.config, config))
    <2> DEFINE flying == k.packets_in_transit
               rivals == {q \in DOMAIN flying : overlaps(flying[q].config, config)}
               fresh  == [config |-> config, collision |-> \E q \in rivals : ~survivor[q][2],
                          missed_start |-> missed, demodulate_failure |-> weak,
                          interrupted |-> FALSE, received_preamble |-> FALSE]
               Met(q) == IF q = p THEN fresh
                         ELSE [flying[q] EXCEPT !.collision =
                                 flying[q].collision \/ (q \in rivals /\ ~survivor[q][1])]
               F == [q \in DOMAIN flying \cup {p} |-> Met(q)]
    <2>0. j = [k EXCEPT !.packets_in_transit = F]
      BY <1>4, Zenon DEF on_receive_start
    <2> HIDE DEF Met
    <2>1. j = [k EXCEPT !.packets_in_transit = F] /\ DOMAIN F = DOMAIN flying \cup {p}
      BY <2>0
    <2>2. IsChain(j) /\ j.packets_in_transit = F
      BY <2>1, <1>1, <1>2
    <2> QED BY <2>1, <2>2
  <1> QED BY <1>3, <1>4

\* A list with a chain for each chain of another list
LEMMA SameLength ==
    ASSUME NEW s, IsChainList(s), NEW s2, s2 = [c \in DOMAIN s |-> s2[c]],
           \A c \in DOMAIN s : IsChain(s2[c])
    PROVE  IsChainList(s2) /\ DOMAIN s2 = DOMAIN s
  <1>1. PICK n \in Nat : s = [i \in 1 .. n |-> s[i]]
    BY DEF IsChainList
  <1>2. DOMAIN s = 1 .. n
    BY <1>1
  <1>3. DOMAIN s2 = DOMAIN s
    OBVIOUS
  <1>4. s2 = [i \in 1 .. n |-> s2[i]]
    BY <1>2, Zenon
  <1> QED BY <1>3, <1>4 DEF IsChainList

\* Chains that are busy with the same packets
LEMMA SameCarried ==
    ASSUME NEW s, NEW s2, DOMAIN s2 = DOMAIN s,
           \A c \in DOMAIN s : DOMAIN s2[c].packets_in_transit = DOMAIN s[c].packets_in_transit
    PROVE  Carried(s2) = Carried(s)
  BY DEF Carried

\* A chain more, which is not busy
LEMMA OneMoreChain ==
    ASSUME NEW s, IsChainList(s), NEW k, IsChain(k), DOMAIN k.packets_in_transit = {}
    PROVE  IsChainList(Append(s, k)) /\ Carried(Append(s, k)) = Carried(s)
  <1>1. PICK n \in Nat : s = [i \in 1 .. n |-> s[i]]
    BY DEF IsChainList
  <1> DEFINE a == Append(s, k)
             S == {s[i] : i \in 1 .. n}
  <1>2. s \in [1 .. n -> S]
    <2> DEFINE f == [i \in 1 .. n |-> s[i]]
    <2>1. f \in [1 .. n -> S]
      OBVIOUS
    <2> QED BY <1>1, <2>1
  <1>3. s \in Seq(S \cup {k}) /\ Len(s) = n
    <2>1. s \in [1 .. n -> S \cup {k}]
      BY <1>2
    <2> QED BY <2>1, SeqDef
  <1>4. /\ a \in Seq(S \cup {k}) /\ Len(a) = n + 1 /\ a[n + 1] = k
        /\ \A i \in 1 .. n : a[i] = s[i]
    BY <1>3, AppendProperties
  <1> HIDE DEF S
  <1>5. DOMAIN a = 1 .. n + 1 /\ DOMAIN s = 1 .. n /\ a = [i \in 1 .. n + 1 |-> a[i]]
    <2>1. a \in [1 .. Len(a) -> S \cup {k}] /\ s \in [1 .. Len(s) -> S \cup {k}]
      BY <1>3, <1>4, LenProperties
    <2> HIDE DEF a
    <2> QED BY <2>1, <1>3, <1>4
  <1> HIDE DEF a
  <1>6. \A i \in 1 .. n + 1 : i \in 1 .. n \/ i = n + 1
    OBVIOUS
  <1>7. \A c \in DOMAIN a : IsChain(a[c])
    BY <1>4, <1>5, <1>6 DEF IsChainList
  <1>8. IsChainList(a)
    BY <1>5, <1>7 DEF IsChainList
  <1>9. Carried(a) = Carried(s)
    <2>1. ASSUME NEW p, p \in Carried(a) PROVE p \in Carried(s)
      <3>1. PICK c \in 1 .. n + 1 : p \in DOMAIN a[c].packets_in_transit
        BY <2>1, <1>5 DEF Carried
      <3>2. c # n + 1
        BY <3>1, <1>4
      <3>3. c \in 1 .. n /\ p \in DOMAIN s[c].packets_in_transit
        BY <3>1, <3>2, <1>4, <1>6
      <3> QED BY <3>3, <1>5 DEF Carried
    <2>2. ASSUME NEW p, p \in Carried(s) PROVE p \in Carried(a)
      <3>1. PICK c \in 1 .. n : p \in DOMAIN s[c].packets_in_transit
        BY <2>2, <1>5 DEF Carried
      <3>2. c \in 1 .. n + 1 /\ p \in DOMAIN a[c].packets_in_transit
        BY <3>1, <1>4
      <3> QED BY <3>2, <1>5 DEF Carried
    <2> QED BY <2>1, <2>2
  <1> QED BY <1>8, <1>9 DEF a

-----------------------------------------------------------------------------
(* Steps on which no packet enters or leaves a radio.                      *)

\* Every radio stays busy with the same packets
SameFlights ==
    /\ DOMAIN rx_chains' = Radios
    /\ \A r \in Radios : /\ IsChainList(rx_chains'[r])
                         /\ Carried(rx_chains'[r]) = Carried(rx_chains[r])

\* The chains of one radio are replaced by others that are busy with the same packets
LEMMA NewLists ==
    ASSUME RadioTyped, NEW r \in Radios, NEW s, rx_chains' = [rx_chains EXCEPT ![r] = s],
           IsChainList(s), Carried(s) = Carried(rx_chains[r])
    PROVE  SameFlights
  BY DEF RadioTyped, SameFlights

\* One chain is replaced by another that is busy with the same packets
LEMMA NewChains ==
    ASSUME RadioTyped, NEW r \in Radios, NEW c, NEW k,
           c \in DOMAIN rx_chains[r] =>
               /\ IsChain(k)
               /\ DOMAIN k.packets_in_transit = DOMAIN rx_chains[r][c].packets_in_transit,
           rx_chains' = [rx_chains EXCEPT ![r][c] = k]
    PROVE  SameFlights
  <1> DEFINE s == rx_chains[r]
             s2 == [s EXCEPT ![c] = k]
  <1>1. rx_chains' = [rx_chains EXCEPT ![r] = s2]
    OBVIOUS
  <1>2. IsChainList(s)
    BY DEF RadioTyped
  <1>3. /\ s2 = [i \in DOMAIN s |-> s2[i]]
        /\ \A i \in DOMAIN s : s2[i] = IF i = c THEN k ELSE s[i]
    OBVIOUS
  <1>4. \A i \in DOMAIN s : /\ IsChain(s2[i])
                            /\ DOMAIN s2[i].packets_in_transit = DOMAIN s[i].packets_in_transit
    BY <1>2, <1>3 DEF IsChainList
  <1> HIDE DEF s2
  <1>5. IsChainList(s2) /\ DOMAIN s2 = DOMAIN s
    BY <1>2, <1>3, <1>4, SameLength
  <1>6. Carried(s2) = Carried(s)
    BY <1>4, <1>5, SameCarried
  <1> QED BY <1>1, <1>5, <1>6, NewLists

\* The configuration calls interrupt receptions and forget none
LEMMA ConfigFlights ==
    ASSUME RadioTyped, NEW t \in Tasks,
           \/ SetTxConfig(t) \/ SetRxConfig(t) \/ SetChannel(t) \/ SetRxChainConfig(t)
           \/ EnableRxChain(t) \/ AddRxChain(t)
    PROVE  SameFlights
  <1> DEFINE r == radioOf[t]
  <1>0. r \in Radios
    BY ClientsAssumption
  <1>00. IsChainList(rx_chains[r]) /\ \A c \in DOMAIN rx_chains[r] : IsChain(rx_chains[r][c])
    BY <1>0 DEF RadioTyped, IsChainList
  <1> HIDE DEF r
  <1>1. CASE SetTxConfig(t)
    <2>1. UNCHANGED rx_chains
      BY <1>1 DEF SetTxConfig
    <2> QED BY <2>1 DEF SameFlights, RadioTyped
  <1>2. CASE SetRxConfig(t)
    <2>1. PICK f : rx_chains' = [rx_chains EXCEPT ![r][1] = Retuned(rx_chains[r][1], f)]
      BY <1>2 DEF SetRxConfig, r
    <2> QED BY <1>0, <1>00, <2>1, NewChains, ChainConfigurations
  <1>3. CASE SetChannel(t)
    <2>1. PICK f : rx_chains' = [rx_chains EXCEPT ![r][1] =
                        Retuned(rx_chains[r][1], <<f, rx_chains[r][1].config[2]>>)]
      BY <1>3 DEF SetChannel, r
    <2> QED BY <1>0, <1>00, <2>1, NewChains, ChainConfigurations
  <1>4. CASE SetRxChainConfig(t)
    <2>1. PICK c, f : rx_chains' = [rx_chains EXCEPT ![r][c] = Retuned(rx_chains[r][c], f)]
      BY <1>4 DEF SetRxChainConfig, r
    <2> QED BY <1>0, <1>00, <2>1, NewChains, ChainConfigurations
  <1>5. CASE EnableRxChain(t)
    <2>1. PICK c, e : rx_chains' = [rx_chains EXCEPT ![r][c] = Enabled(rx_chains[r][c], e)]
      BY <1>5 DEF EnableRxChain, r
    <2> QED BY <1>0, <1>00, <2>1, NewChains, ChainConfigurations
  <1>6. CASE AddRxChain(t)
    <2>1. PICK f : rx_chains' = [rx_chains EXCEPT ![r] = Append(rx_chains[r], NewChain(f))]
      BY <1>6 DEF AddRxChain, r
    <2>2. /\ IsChainList(Append(rx_chains[r], NewChain(f)))
          /\ Carried(Append(rx_chains[r], NewChain(f))) = Carried(rx_chains[r])
      BY <1>00, ChainConfigurations, OneMoreChain
    <2> QED BY <1>0, <2>1, <2>2, NewLists
  <1> QED BY <1>1, <1>2, <1>3, <1>4, <1>5, <1>6

\* A channel plan keeps the chains there are and adds chains that are not busy
LEMMA PlanFlights == ASSUME RadioTyped, NEW t \in Tasks, SetChannelPlan(t) PROVE SameFlights
  <1> DEFINE r == radioOf[t]
             chains == rx_chains[r]
             Planned(plan, m, c) ==
                CASE c \in DOMAIN plan /\ c \in DOMAIN chains ->
                        [Retuned(chains[c], <<plan[c], m>>) EXCEPT !.enabled = TRUE]
                  [] c \in DOMAIN plan /\ c \notin DOMAIN chains -> NewChain(<<plan[c], m>>)
                  [] OTHER -> Enabled(chains[c], FALSE)
             All(plan, m) == [c \in DOMAIN chains \cup DOMAIN plan |-> Planned(plan, m, c)]
  <1>0. r \in Radios
    BY ClientsAssumption
  <1>a. PICK n \in 1 .. MaxChains[r], m \in Modulations : \E plan \in [1 .. n -> Frequencies] :
            rx_chains' = [rx_chains EXCEPT ![r] = All(plan, m)]
    BY Zenon DEF SetChannelPlan
  <1>1. PICK plan \in [1 .. n -> Frequencies] :
            rx_chains' = [rx_chains EXCEPT ![r] = All(plan, m)]
    BY <1>a
  <1>2. PICK k \in Nat : chains = [i \in 1 .. k |-> chains[i]]
    BY <1>0 DEF RadioTyped, IsChainList
  <1>3. \A c \in DOMAIN chains : IsChain(chains[c])
    BY <1>0 DEF RadioTyped, IsChainList
  <1>4. DOMAIN chains = 1 .. k /\ DOMAIN plan = 1 .. n
    BY <1>2
  <1> HIDE DEF r, chains
  <1>5. ASSUME NEW c \in DOMAIN chains \cup DOMAIN plan
        PROVE  /\ IsChain(Planned(plan, m, c))
               /\ DOMAIN Planned(plan, m, c).packets_in_transit =
                    IF c \in DOMAIN chains THEN DOMAIN chains[c].packets_in_transit ELSE {}
    <2>1. CASE c \in DOMAIN plan /\ c \in DOMAIN chains
      <3> DEFINE j == Retuned(chains[c], <<plan[c], m>>)
      <3>1. IsChain(j) /\ DOMAIN j.packets_in_transit = DOMAIN chains[c].packets_in_transit
        BY <2>1, <1>3, ChainConfigurations
      <3>2. Planned(plan, m, c) = [j EXCEPT !.enabled = TRUE]
        BY <2>1
      <3> HIDE DEF j, Planned
      <3>3. /\ IsChain([j EXCEPT !.enabled = TRUE])
            /\ [j EXCEPT !.enabled = TRUE].packets_in_transit = j.packets_in_transit
        BY <3>1, ChainOperations
      <3> QED BY <2>1, <3>1, <3>2, <3>3
    <2>2. CASE c \in DOMAIN plan /\ c \notin DOMAIN chains
      <3>1. Planned(plan, m, c) = NewChain(<<plan[c], m>>)
        BY <2>2
      <3> HIDE DEF Planned
      <3> QED BY <2>2, <3>1, ChainConfigurations
    <2>3. CASE c \notin DOMAIN plan
      <3>1. Planned(plan, m, c) = Enabled(chains[c], FALSE) /\ c \in DOMAIN chains
        BY <2>3
      <3> HIDE DEF Planned
      <3>2. /\ IsChain(Enabled(chains[c], FALSE))
            /\ DOMAIN Enabled(chains[c], FALSE).packets_in_transit
                = DOMAIN chains[c].packets_in_transit
        BY <3>1, <1>3, ChainConfigurations, Zenon
      <3> QED BY <3>1, <3>2
    <2> QED BY <2>1, <2>2, <2>3
  <1> DEFINE s == All(plan, m)
  <1> HIDE DEF Planned
  <1>6. /\ DOMAIN s = DOMAIN chains \cup DOMAIN plan
        /\ s = [c \in DOMAIN chains \cup DOMAIN plan |-> s[c]]
        /\ \A c \in DOMAIN s : s[c] = Planned(plan, m, c)
    OBVIOUS
  <1>7. PICK h \in Nat : DOMAIN chains \cup DOMAIN plan = 1 .. h
    <2>1. n \in Nat
      <3>1. MaxChains[r] \in Nat
        BY <1>0, ConfigAssumption
      <3> QED BY <3>1
    <2>2. CASE n <= k
      <3>1. 1 .. k \cup 1 .. n = 1 .. k
        BY <2>1, <2>2
      <3> QED BY <3>1, <1>4
    <2>3. CASE k <= n
      <3>1. 1 .. k \cup 1 .. n = 1 .. n
        BY <2>1, <2>3
      <3> QED BY <3>1, <2>1, <1>4
    <2> QED BY <2>1, <2>2, <2>3
  <1> HIDE DEF All
  <1>8. s = [i \in 1 .. h |-> s[i]]
    BY <1>6, <1>7, Zenon
  <1>9. IsChainList(s)
    BY <1>5, <1>6, <1>8 DEF IsChainList
  <1>10. Carried(s) = Carried(chains)
    <2> DEFINE D(c) == DOMAIN s[c].packets_in_transit
               E(c) == DOMAIN chains[c].packets_in_transit
    <2>1. \A c \in DOMAIN s : D(c) = IF c \in DOMAIN chains THEN E(c) ELSE {}
      BY <1>5, <1>6
    <2>2. Carried(s) = UNION {D(c) : c \in DOMAIN s}
      BY DEF Carried
    <2>3. Carried(chains) = UNION {E(c) : c \in DOMAIN chains}
      BY DEF Carried
    <2>4. DOMAIN chains \subseteq DOMAIN s
      BY <1>6
    <2> HIDE DEF D, E
    <2> QED BY <2>1, <2>2, <2>3, <2>4
  <1> QED
    <2>1. Carried(s) = Carried(rx_chains[r])
      BY <1>10 DEF chains
    <2> QED BY <1>0, <1>1, <1>9, <2>1, NewLists

\* _on_receive_preamble marks receptions
LEMMA PreambleFlights == ASSUME RadioTyped, NEW t \in Tasks, PreambleDone(t) PROVE SameFlights
  <1> DEFINE p == packet[t]
             Synced(m) == [m EXCEPT !.received_preamble =
                ~m.missed_start /\ ~m.demodulate_failure /\ ~m.collision /\ ~m.interrupted]
             Marked(chain) ==
                IF p \notin DOMAIN chain.packets_in_transit THEN chain
                ELSE [chain EXCEPT !.packets_in_transit[p] = Synced(@)]
  <1>1. rx_chains' = [q \in Radios |->
                IF q \in receivers[t]
                THEN [c \in DOMAIN rx_chains[q] |-> Marked(rx_chains[q][c])]
                ELSE rx_chains[q]]
    BY Zenon DEF PreambleDone
  <1>2. ASSUME NEW k, IsChain(k)
        PROVE  /\ IsChain(Marked(k))
               /\ DOMAIN Marked(k).packets_in_transit = DOMAIN k.packets_in_transit
    <2>1. CASE p \notin DOMAIN k.packets_in_transit
      BY <1>2, <2>1
    <2>2. CASE p \in DOMAIN k.packets_in_transit
      <3> DEFINE F == [k.packets_in_transit EXCEPT ![p] = Synced(k.packets_in_transit[p])]
      <3>1. Marked(k) = [k EXCEPT !.packets_in_transit = F]
        BY <2>2
      <3>2. DOMAIN F = DOMAIN k.packets_in_transit
        OBVIOUS
      <3> HIDE DEF F, Marked
      <3>3. [k EXCEPT !.packets_in_transit = F] =
                [config |-> k.config, enabled |-> k.enabled, packets_in_transit |-> F]
        BY <1>2 DEF IsChain
      <3>4. IsChain(Marked(k)) /\ Marked(k).packets_in_transit = F
        BY <3>1, <3>3 DEF IsChain
      <3> QED BY <3>2, <3>4
    <2> QED BY <2>1, <2>2
  <1> HIDE DEF Marked
  <1>3. ASSUME NEW q \in Radios
        PROVE  IsChainList(rx_chains'[q]) /\ Carried(rx_chains'[q]) = Carried(rx_chains[q])
    <2>0. IsChainList(rx_chains[q]) /\ \A c \in DOMAIN rx_chains[q] : IsChain(rx_chains[q][c])
      BY DEF RadioTyped, IsChainList
    <2>1. CASE q \notin receivers[t]
      BY <1>1, <2>0, <2>1
    <2>2. CASE q \in receivers[t]
      <3> DEFINE s == [c \in DOMAIN rx_chains[q] |-> Marked(rx_chains[q][c])]
      <3>1. rx_chains'[q] = s
        BY <1>1, <2>2
      <3>2. s = [c \in DOMAIN rx_chains[q] |-> s[c]]
        OBVIOUS
      <3>3. \A c \in DOMAIN rx_chains[q] :
                /\ IsChain(s[c])
                /\ DOMAIN s[c].packets_in_transit = DOMAIN rx_chains[q][c].packets_in_transit
        BY <1>2, <2>0
      <3> HIDE DEF s
      <3>4. IsChainList(s) /\ DOMAIN s = DOMAIN rx_chains[q]
        BY <2>0, <3>2, <3>3, SameLength
      <3>5. Carried(s) = Carried(rx_chains[q])
        BY <3>3, <3>4, SameCarried
      <3> QED BY <3>1, <3>4, <3>5
    <2> QED BY <2>1, <2>2
  <1> QED BY <1>1, <1>3 DEF SameFlights

-----------------------------------------------------------------------------
(* Steps of a task that has nothing on the air.                            *)

\* Only t goes on
OthersStay(t) ==
    /\ pc' \in [Tasks -> PCs]
    /\ call' \in [Tasks -> CallNames \cup {"none"}]
    /\ left' \in [Tasks -> Nat \cup {Forever}]
    /\ \A u \in Tasks \ {t} : pc'[u] = pc[u] /\ call'[u] = call[u] /\ left'[u] = left[u]

\* The idle waiters are those that were, but t is one of them only if it waits for a packet
IdleEffect(t) ==
    /\ idle_waiters' \in [Radios -> SUBSET Tasks]
    /\ \A r \in Radios :
         /\ idle_waiters'[r] \subseteq idle_waiters[r] \cup {t}
         /\ t \in idle_waiters'[r] =>
                r = radioOf[t] /\ pc'[t] = "idle_wait" /\ InTransit(r) # {}

\* What such a step does
Ashore(t) ==
    /\ UNCHANGED <<rx_chains, airVars>>
    /\ OthersStay(t) /\ ~OnAir(t) /\ pc'[t] \notin {"preamble", "payload", "ending", "delivered",
                                                    "putting"}
    /\ DOMAIN rx_queue' = Radios /\ getter' \in [Radios -> Tasks \cup {NoTask}]
    /\ IdleEffect(t)
    /\ OneReceiver' /\ GetterWaits'

\* Such a step preserves the invariant
LEMMA AshoreKeeps == ASSUME RadioInv, NEW t \in Tasks, Ashore(t) PROVE RadioInv'
  <1> DEFINE Air == {"preamble", "payload", "ending", "delivered", "putting"}
  <1>1. /\ rx_chains' = rx_chains /\ packet' = packet /\ receivers' = receivers /\ late' = late
        /\ sent' = sent /\ tx_end_time' = tx_end_time
    BY DEF Ashore, airVars
  <1>2. /\ pc[t] \notin Air /\ pc'[t] \notin Air
        /\ \A u \in Tasks \ {t} : pc'[u] = pc[u] /\ left'[u] = left[u]
    BY DEF Ashore, OthersStay, OnAir
  <1>3. RadioTyped'
    BY <1>1 DEF RadioInv, RadioTyped, Ashore, OthersStay, IdleEffect
  <1>4. IdleWaitersWait'
    BY <1>2 DEF RadioInv, IdleWaitersWait, Ashore, IdleEffect
  <1>5. \A u \in Tasks : LateCounted(u)'
    BY <1>1, <1>2 DEF RadioInv, LateCounted, OnAir
  <1>6. EndsInTime'
    BY <1>1 DEF RadioInv, EndsInTime
  <1>7. \A r \in Radios : InTransit(r)' = InTransit(r)
    BY <1>1 DEF InTransit, Transit
  <1>8. TransitIsOnAir'
    <2> SUFFICES ASSUME NEW r \in Radios, NEW p \in InTransit(r)'
                 PROVE  (\E u \in Tasks : OnAir(u) /\ packet[u] = p /\ r \in receivers[u])'
      BY DEF TransitIsOnAir
    <2>1. PICK u \in Tasks : OnAir(u) /\ packet[u] = p /\ r \in receivers[u]
      BY <1>7 DEF RadioInv, TransitIsOnAir
    <2> QED BY <2>1, <1>1, <1>2 DEF OnAir
  <1>9. IdleWaiterHasAPacket'
    <2> SUFFICES ASSUME NEW r \in Radios, NEW w \in idle_waiters'[r], InTransit(r) = {}
                 PROVE  \E u \in Tasks : pc'[u] \in {"delivered", "putting"}
                                         /\ r = Min(receivers'[u])
      BY <1>7 DEF IdleWaiterHasAPacket
    <2>1. w \in idle_waiters[r]
      BY DEF Ashore, IdleEffect
    <2>2. PICK u \in Tasks : pc[u] \in {"delivered", "putting"} /\ r = Min(receivers[u])
      BY <2>1 DEF RadioInv, IdleWaiterHasAPacket
    <2>3. u # t
      BY <2>2, <1>2
    <2> QED BY <2>2, <2>3, <1>1, <1>2
  <1> QED BY <1>3, <1>4, <1>5, <1>6, <1>8, <1>9 DEF RadioInv, Ashore

\* A task that does not wait for the queue leaves the getters alone
LEMMA GettersStay ==
    ASSUME RadioInv, NEW t \in Tasks, OthersStay(t), UNCHANGED queueVars,
           \A r \in Radios : getter[r] # t, Receiving(t)' => Receiving(t)
    PROVE  /\ OneReceiver' /\ GetterWaits'
           /\ DOMAIN rx_queue' = Radios /\ getter' \in [Radios -> Tasks \cup {NoTask}]
  <1>1. DOMAIN rx_queue' = Radios /\ getter' \in [Radios -> Tasks \cup {NoTask}]
    BY DEF RadioInv, RadioTyped, queueVars
  <1>2. OneReceiver'
    <2>1. \A u \in Tasks : Receiving(u)' => Receiving(u)
      BY DEF OthersStay, Receiving
    <2> QED BY <2>1 DEF RadioInv, OneReceiver
  <1>3. GetterWaits'
    <2>1. \A r \in Radios : getter'[r] = getter[r] /\ rx_queue'[r] = rx_queue[r]
      BY DEF queueVars
    <2>2. \A r \in Radios : getter[r] # NoTask => pc'[getter[r]] = pc[getter[r]]
      BY DEF RadioInv, RadioTyped, OthersStay
    <2> QED BY <2>1, <2>2 DEF RadioInv, GetterWaits
  <1> QED BY <1>1, <1>2, <1>3

\* A task is somebody's getter only while it waits
LEMMA NoGetter ==
    ASSUME RadioInv, NEW t \in Tasks, pc[t] \notin {"probe", "get"}
    PROVE  \A r \in Radios : getter[r] # t
  BY ClientsAssumption DEF RadioInv, GetterWaits

\* A step on which t neither receives nor waits for an idle channel
Wanders(t) ==
    /\ UNCHANGED <<rx_chains, airVars, queueVars, idle_waiters>>
    /\ OthersStay(t)
    /\ pc[t] \in {"client", "standby", "sense", "process"}
    /\ pc'[t] \in {"client", "standby", "sense"}
    /\ ~Receiving(t)'

LEMMA WanderingIsAshore == ASSUME RadioInv, NEW t \in Tasks, Wanders(t) PROVE Ashore(t)
  <1>1. \A r \in Radios : getter[r] # t
    BY NoGetter DEF Wanders
  <1>2. UNCHANGED queueVars /\ OthersStay(t) /\ (Receiving(t)' => Receiving(t))
    BY DEF Wanders
  <1>3. /\ OneReceiver' /\ GetterWaits'
        /\ DOMAIN rx_queue' = Radios /\ getter' \in [Radios -> Tasks \cup {NoTask}]
    BY <1>1, <1>2, GettersStay
  <1>4. IdleEffect(t)
    BY DEF Wanders, IdleEffect, RadioInv, RadioTyped, IdleWaitersWait
  <1> QED BY <1>3, <1>4 DEF Ashore, Wanders, OnAir

\* The sleeps of the radio are numbers of ticks
LEMMA SleepTimes ==
    /\ StandbyTime \in Nat /\ PreambleTime \in Nat /\ SenseTime \in Nat /\ ProcessDelay \in Nat
    /\ \A x \in PayloadTimes \cup Timeouts : x \in Nat
  BY TimesAssumption

\* What a suspension of t, or its return, does to the tasks
LEMMA Suspension ==
    ASSUME RadioTyped, NEW t \in Tasks, NEW name \in CallNames \cup {"none"}, NEW phase \in PCs,
           NEW ticks \in Nat \cup {Forever}, Suspend(t, name, phase, ticks)
    PROVE  OthersStay(t) /\ pc'[t] = phase /\ call'[t] = name /\ left'[t] = ticks
  BY DEF RadioTyped, Suspend, OthersStay

\* The calls and the resumptions of this kind
LEMMA WanderingSteps ==
    ASSUME RadioInv, NEW t \in Tasks,
           \/ Standby(t) \/ StandbyDone(t) \/ Off(t) \/ Receive(t) \/ ReceiveAfterStandby(t)
           \/ CarrierSense(t) \/ SenseAfterStandby(t) \/ SenseDone(t) \/ ProcessDone(t)
    PROVE  Ashore(t)
  <1> SUFFICES Wanders(t)
    BY WanderingIsAshore
  <1>0. RadioTyped
    BY DEF RadioInv
  <1>a. ASSUME Return(t) PROVE OthersStay(t) /\ pc'[t] = "client"
    BY <1>0, <1>a, Suspension DEF Return, PCs
  <1>b. ASSUME NEW name \in CallNames, WakesUp(t, name)
        PROVE  OthersStay(t) /\ pc'[t] = "standby" /\ call'[t] = name
    BY <1>0, <1>b, Suspension, SleepTimes DEF WakesUp, PCs
  <1>c. ASSUME Senses(t) PROVE OthersStay(t) /\ pc'[t] \in {"client", "sense"}
    <2>1. CASE radio_state[radioOf[t]] = "TX"
      BY <1>c, <1>a, <2>1 DEF Senses
    <2>2. CASE radio_state[radioOf[t]] # "TX"
      <3>1. Suspend(t, "carrier_sense", "sense", SenseTime)
        BY <1>c, <2>2 DEF Senses
      <3> QED BY <3>1, <1>0, Suspension, SleepTimes DEF PCs, CallNames
    <2> QED BY <2>1, <2>2
  <1>1. CASE Standby(t)
    BY <1>1, <1>b DEF Standby, Enters, Wanders, Receiving, CallNames
  <1>2. CASE StandbyDone(t)
    BY <1>2, <1>a DEF StandbyDone, Resumes, Wanders, Receiving
  <1>3. CASE Off(t)
    BY <1>3, <1>0 DEF Off, Enters, Wanders, Receiving, OthersStay, RadioTyped
  <1>4. CASE Receive(t)
    <2>1. PICK name \in {"receive", "receive_once"} :
              Enters(t, name) /\ (WakesUp(t, name) \/ Return(t))
      BY <1>4 DEF Receive, Listens
    <2> QED BY <2>1, <1>4, <1>a, <1>b DEF Receive, Enters, Wanders, Receiving, CallNames
  <1>5. CASE ReceiveAfterStandby(t)
    BY <1>5, <1>a DEF ReceiveAfterStandby, Listens, Resumes, Wanders, Receiving
  <1>6. CASE CarrierSense(t)
    <2>1. Enters(t, "carrier_sense") /\ (WakesUp(t, "carrier_sense") \/ Senses(t))
      BY <1>6 DEF CarrierSense
    <2> QED BY <2>1, <1>6, <1>b, <1>c DEF CarrierSense, Enters, Wanders, Receiving, CallNames
  <1>7. CASE SenseAfterStandby(t)
    BY <1>7, <1>c DEF SenseAfterStandby, Resumes, Wanders, Receiving
  <1>8. CASE SenseDone(t)
    BY <1>8, <1>a DEF SenseDone, Resumes, Wanders, Receiving
  <1>9. CASE ProcessDone(t)
    BY <1>9, <1>a DEF ProcessDone, Resumes, Wanders, Receiving
  <1> QED BY <1>1, <1>2, <1>3, <1>4, <1>5, <1>6, <1>7, <1>8, <1>9

\* A busy channel is busy with a packet
LEMMA BusyHasAPacket ==
    ASSUME NEW r, carrier_sense_instant(rx_chains[r]) PROVE InTransit(r) # {}
  BY DEF carrier_sense_instant, EnabledChains, InTransit, Transit

\* wait_for_channel_idle waits only for a packet
LEMMA IdleWaits ==
    ASSUME RadioInv, NEW t \in Tasks, WaitForChannelIdle(t) \/ IdleNoticed(t) PROVE Ashore(t)
  <1> DEFINE r == radioOf[t]
  <1>0. RadioTyped /\ r \in Radios
    BY ClientsAssumption DEF RadioInv
  <1>1. PICK waiters \in SUBSET Tasks : waiters \subseteq idle_waiters[r] /\ t \notin waiters
                                        /\ WaitsForIdle(t, waiters)
    <2>1. CASE WaitForChannelIdle(t)
      <3>1. t \notin idle_waiters[r]
        BY <2>1, <1>0 DEF WaitForChannelIdle, Enters, RadioInv, IdleWaitersWait
      <3> QED BY <3>1, <2>1, <1>0 DEF WaitForChannelIdle, RadioTyped
    <2>2. CASE IdleNoticed(t)
      BY <2>2, <1>0 DEF IdleNoticed, RadioTyped
    <2> QED BY <2>1, <2>2
  <1>2. /\ UNCHANGED <<rx_chains, airVars, queueVars>>
        /\ pc[t] \in {"client", "idle_wait"}
    BY DEF WaitForChannelIdle, IdleNoticed, Enters, Resumes
  <1>3. IdleEffect(t) /\ OthersStay(t) /\ pc'[t] \in {"client", "idle_wait"}
    <2>1. CASE carrier_sense_instant(rx_chains[r])
      <3>1. /\ idle_waiters' = [idle_waiters EXCEPT ![r] = waiters \cup {t}]
            /\ Suspend(t, "wait_idle", "idle_wait", Forever)
        BY <1>1, <2>1 DEF WaitsForIdle
      <3>2. OthersStay(t) /\ pc'[t] = "idle_wait"
        BY <3>1, <1>0, Suspension DEF PCs, CallNames
      <3>3. InTransit(r) # {}
        BY <2>1, BusyHasAPacket
      <3>4. \A q \in Radios \ {r} : t \notin idle_waiters[q]
        BY DEF RadioInv, IdleWaitersWait
      <3> HIDE DEF r
      <3>5. idle_waiters' \in [Radios -> SUBSET Tasks]
        BY <3>1, <1>0 DEF RadioTyped
      <3>6. /\ idle_waiters'[r] = waiters \cup {t}
            /\ \A q \in Radios \ {r} : idle_waiters'[q] = idle_waiters[q]
        BY <3>1, <1>0 DEF RadioTyped
      <3> QED BY <3>2, <3>3, <3>4, <3>5, <3>6, <1>1 DEF IdleEffect, r
    <2>2. CASE ~carrier_sense_instant(rx_chains[r])
      <3>1. idle_waiters' = [idle_waiters EXCEPT ![r] = waiters] /\ Return(t)
        BY <1>1, <2>2 DEF WaitsForIdle
      <3>2. OthersStay(t) /\ pc'[t] = "client"
        BY <3>1, <1>0, Suspension DEF Return, PCs, CallNames
      <3>3. \A q \in Radios \ {r} : t \notin idle_waiters[q]
        BY DEF RadioInv, IdleWaitersWait
      <3> HIDE DEF r
      <3>4. idle_waiters' \in [Radios -> SUBSET Tasks]
        BY <3>1, <1>0 DEF RadioTyped
      <3>5. /\ idle_waiters'[r] = waiters
            /\ \A q \in Radios \ {r} : idle_waiters'[q] = idle_waiters[q]
        BY <3>1, <1>0 DEF RadioTyped
      <3>6. \A q \in Radios : t \notin idle_waiters'[q]
        BY <3>3, <3>5, <1>1
      <3>7. \A q \in Radios : idle_waiters'[q] \subseteq idle_waiters[q]
        BY <3>5, <1>1
      <3> QED BY <3>2, <3>4, <3>6, <3>7 DEF IdleEffect
    <2> QED BY <2>1, <2>2
  <1>4. \A q \in Radios : getter[q] # t
    BY <1>2, NoGetter
  <1>5. Receiving(t)' => Receiving(t)
    BY <1>3 DEF Receiving
  <1>6. /\ OneReceiver' /\ GetterWaits'
        /\ DOMAIN rx_queue' = Radios /\ getter' \in [Radios -> Tasks \cup {NoTask}]
    BY <1>2, <1>3, <1>4, <1>5, GettersStay
  <1> QED BY <1>2, <1>3, <1>6 DEF Ashore, OnAir

\* A step of t on its queue: t or nobody is the getter afterwards, and t only at an empty queue
QueueStep(t) ==
    LET r == radioOf[t]
    IN  /\ UNCHANGED <<rx_chains, airVars, idle_waiters>>
        /\ OthersStay(t)
        /\ pc[t] \in {"client", "standby", "probe", "settle", "get"}
        /\ pc'[t] \in {"client", "standby", "probe", "settle", "get", "process"}
        /\ Receiving(t)' => Receiving(t)
             \/ \A u \in Tasks : radioOf[u] = r => ~Receiving(u)
        /\ DOMAIN rx_queue' = Radios /\ getter' \in [Radios -> Tasks \cup {NoTask}]
        /\ \A q \in Radios \ {r} : getter'[q] = getter[q] /\ rx_queue'[q] = rx_queue[q]
        /\ getter'[r] # NoTask =>
               getter'[r] = t /\ pc'[t] \in {"probe", "get"} /\ rx_queue'[r] = <<>>

LEMMA QueueStepIsAshore == ASSUME RadioInv, NEW t \in Tasks, QueueStep(t) PROVE Ashore(t)
  <1> DEFINE r == radioOf[t]
  <1>0. RadioTyped /\ r \in Radios
    BY ClientsAssumption DEF RadioInv
  <1>1. OneReceiver'
    <2>1. \A u \in Tasks \ {t} : Receiving(u)' <=> Receiving(u)
      BY DEF QueueStep, OthersStay, Receiving
    <2>2. CASE Receiving(t)' => Receiving(t)
      BY <2>1, <2>2 DEF RadioInv, OneReceiver
    <2>3. CASE \A u \in Tasks : radioOf[u] = r => ~Receiving(u)
      BY <2>1, <2>3 DEF RadioInv, OneReceiver
    <2> QED BY <2>2, <2>3 DEF QueueStep
  <1>2. GetterWaits'
    <2> SUFFICES ASSUME NEW q \in Radios, getter'[q] # NoTask
                 PROVE  /\ radioOf[getter'[q]] = q /\ pc'[getter'[q]] \in {"probe", "get"}
                        /\ rx_queue'[q] = <<>>
      BY DEF GetterWaits
    <2>1. CASE q = r
      BY <2>1 DEF QueueStep
    <2>2. CASE q # r
      <3>1. getter'[q] = getter[q] /\ rx_queue'[q] = rx_queue[q] /\ getter[q] \in Tasks
        BY <2>2, <1>0 DEF QueueStep, RadioTyped
      <3>2. radioOf[getter[q]] = q /\ pc[getter[q]] \in {"probe", "get"} /\ rx_queue[q] = <<>>
        BY <3>1 DEF RadioInv, GetterWaits
      <3>3. getter[q] # t
        BY <3>2, <2>2
      <3> QED BY <3>1, <3>2, <3>3 DEF QueueStep, OthersStay
    <2> QED BY <2>1, <2>2
  <1>3. IdleEffect(t)
    BY <1>0 DEF QueueStep, IdleEffect, RadioInv, RadioTyped, IdleWaitersWait
  <1> QED BY <1>1, <1>2, <1>3 DEF Ashore, QueueStep, OnAir

\* Who is at its queue is the only getter it can have
LEMMA OwnGetter ==
    ASSUME RadioInv, NEW t \in Tasks, Receiving(t)
    PROVE  getter[radioOf[t]] \in {t, NoTask}
  <1> DEFINE g == getter[radioOf[t]]
  <1>1. CASE g # NoTask
    <2>1. g \in Tasks /\ radioOf[g] = radioOf[t] /\ pc[g] \in {"probe", "get"}
      BY <1>1, ClientsAssumption DEF RadioInv, RadioTyped, GetterWaits
    <2>2. Receiving(g)
      BY <2>1 DEF Receiving
    <2> QED BY <2>1, <2>2 DEF RadioInv, OneReceiver
  <1> QED BY <1>1

\* What a step does to the queues
QueueEffect(t) ==
    LET r == radioOf[t]
    IN  /\ DOMAIN rx_queue' = Radios /\ getter' \in [Radios -> Tasks \cup {NoTask}]
        /\ \A q \in Radios \ {r} : getter'[q] = getter[q] /\ rx_queue'[q] = rx_queue[q]
        /\ getter'[r] # NoTask =>
               getter'[r] = t /\ pc'[t] \in {"probe", "get"} /\ rx_queue'[r] = <<>>

\* Processes ends the call, or sleeps
LEMMA ProcessesEffect ==
    ASSUME RadioTyped, NEW t \in Tasks, NEW name \in CallNames, NEW phase,
           Processes(t, name, phase)
    PROVE  OthersStay(t) /\ pc'[t] \in {"client", "process"}
  <1>1. CASE Return(t)
    BY <1>1, Suspension DEF Return, PCs
  <1>2. CASE Suspend(t, name, "process", ProcessDelay)
    BY <1>2, Suspension, SleepTimes DEF PCs
  <1> QED BY <1>1, <1>2 DEF Processes

\* Queue.__get by the only task that may be at the queue
LEMMA GetsEffect ==
    ASSUME RadioTyped, NEW t \in Tasks, NEW name \in CallNames, NEW phase \in {"probe", "get"},
           NEW ticks \in Nat \cup {Forever}, Gets(t, name, phase, ticks),
           getter[radioOf[t]] \in {t, NoTask},
           getter[radioOf[t]] = t => rx_queue[radioOf[t]] = <<>>
    PROVE  OthersStay(t) /\ pc'[t] \in {"client", "process", phase} /\ QueueEffect(t)
  <1> DEFINE r == radioOf[t]
  <1>0. r \in Radios /\ NoTask \notin Tasks
    BY ClientsAssumption
  <1>1. CASE rx_queue[r] # <<>> /\ getter[r] = NoTask
    <2>1. Takes(t) /\ Processes(t, name, phase)
      BY <1>1 DEF Gets
    <2>2. OthersStay(t) /\ pc'[t] \in {"client", "process"}
      BY <2>1, ProcessesEffect
    <2>3. rx_queue' = [rx_queue EXCEPT ![r] = Tail(rx_queue[r])] /\ getter' = getter
      BY <2>1 DEF Takes
    <2>4. QueueEffect(t)
      BY <2>3, <1>0, <1>1 DEF QueueEffect, RadioTyped
    <2> QED BY <2>2, <2>4
  <1>2. CASE ~(rx_queue[r] # <<>> /\ getter[r] = NoTask)
    <2>1. /\ getter' = [getter EXCEPT ![r] = t] /\ rx_queue' = rx_queue
          /\ Suspend(t, name, phase, ticks)
      BY <1>2 DEF Gets
    <2>2. phase \in PCs
      BY DEF PCs
    <2>3. OthersStay(t) /\ pc'[t] = phase
      BY <2>1, <2>2, Suspension
    <2>4. rx_queue[r] = <<>>
      BY <1>2
    <2>5. QueueEffect(t)
      BY <2>1, <2>3, <2>4, <1>0 DEF QueueEffect, RadioTyped
    <2> QED BY <2>3, <2>5
  <1> QED BY <1>1, <1>2

\* The timeout of t takes t's event out of __get_events
LEMMA TimeoutEffect ==
    ASSUME RadioTyped, NEW t \in Tasks, NEW phase, TimesOut(t, phase) PROVE QueueEffect(t)
  BY ClientsAssumption DEF TimesOut, QueueEffect, RadioTyped

\* The queue is left alone by a task that is not at it
LEMMA NoQueueEffect ==
    ASSUME RadioTyped, NEW t \in Tasks, UNCHANGED queueVars, getter[radioOf[t]] = NoTask
    PROVE  QueueEffect(t)
  BY ClientsAssumption DEF QueueEffect, RadioTyped, queueVars

\* Assembles a step on the queue
LEMMA QueueSteps ==
    ASSUME RadioInv, NEW t \in Tasks, UNCHANGED <<rx_chains, airVars, idle_waiters>>,
           OthersStay(t), QueueEffect(t),
           pc[t] \in {"client", "standby", "probe", "settle", "get"},
           pc'[t] \in {"client", "standby", "probe", "settle", "get", "process"},
           Receiving(t)' => Receiving(t) \/ \A u \in Tasks : radioOf[u] = radioOf[t] => ~Receiving(u)
    PROVE  Ashore(t)
  <1>1. QueueStep(t)
    BY DEF QueueStep, QueueEffect
  <1> QED BY <1>1, QueueStepIsAshore

\* receive_data_nowait, receive_data_wait and receive_data_within, up to their first wait
LEMMA ReceiveDataStep == ASSUME RadioInv, NEW t \in Tasks, ReceiveData(t) PROVE Ashore(t)
  <1> DEFINE r == radioOf[t]
  <1>0. RadioTyped /\ r \in Radios /\ NoTask \notin Tasks
    BY ClientsAssumption DEF RadioInv
  <1>1. PICK name \in {"nowait", "wait", "within"} : Enters(t, name) /\ Gets(t, name, "probe", 1)
    BY DEF ReceiveData
  <1>2. /\ \A u \in Tasks : radioOf[u] = r => ~Receiving(u)
        /\ UNCHANGED <<rx_chains, airVars, idle_waiters>>
        /\ pc[t] = "client"
    BY <1>1 DEF ReceiveData, Enters
  <1>3. getter[r] = NoTask
    <2> SUFFICES ASSUME getter[r] # NoTask PROVE FALSE
      OBVIOUS
    <2>1. getter[r] \in Tasks /\ radioOf[getter[r]] = r /\ pc[getter[r]] \in {"probe", "get"}
      BY <1>0 DEF RadioInv, RadioTyped, GetterWaits
    <2> QED BY <2>1, <1>2 DEF Receiving
  <1>4. name \in CallNames
    BY DEF CallNames
  <1>5. OthersStay(t) /\ pc'[t] \in {"client", "process", "probe"} /\ QueueEffect(t)
    <2>1. getter[r] = t => rx_queue[r] = <<>>
      BY <1>0, <1>3
    <2> QED BY <1>0, <1>1, <1>3, <1>4, <2>1, GetsEffect
  <1> QED BY <1>2, <1>5, QueueSteps

\* A task that is woken finds an item, runs into its timeout or finds the queue flushed
LEMMA GetSteps ==
    ASSUME RadioInv, NEW t \in Tasks, GetHit(t) \/ GetMiss(t) PROVE Ashore(t)
  <1> DEFINE r == radioOf[t]
  <1>0. RadioTyped /\ r \in Radios /\ NoTask \notin Tasks
    BY ClientsAssumption DEF RadioInv
  <1>1. UNCHANGED <<rx_chains, airVars, idle_waiters>> /\ pc[t] \in {"probe", "get"}
    BY DEF GetHit, GetMiss, Resumes, TimesOut
  <1>2. Receiving(t)
    BY <1>1 DEF Receiving
  <1>3. CASE GetHit(t)
    <2>1. rx_queue[r] # <<>> /\ Takes(t) /\ Processes(t, call[t], pc[t])
      BY <1>3 DEF GetHit
    <2>2. getter[r] = NoTask
      BY <2>1, <1>0 DEF RadioInv, GetterWaits
    <2>3. OthersStay(t) /\ pc'[t] \in {"client", "process"}
      <3>1. CASE Return(t)
        BY <3>1, <1>0, Suspension DEF Return, PCs
      <3>2. CASE Suspend(t, call[t], "process", ProcessDelay)
        <4>1. call[t] \in CallNames \cup {"none"}
          BY <1>0 DEF RadioTyped
        <4> QED BY <3>2, <4>1, <1>0, Suspension, SleepTimes DEF PCs
      <3> QED BY <2>1, <3>1, <3>2 DEF Processes
    <2>4. rx_queue' = [rx_queue EXCEPT ![r] = Tail(rx_queue[r])] /\ getter' = getter
      BY <2>1 DEF Takes
    <2>5. QueueEffect(t)
      BY <2>2, <2>4, <1>0 DEF QueueEffect, RadioTyped
    <2> QED BY <1>1, <1>2, <2>3, <2>5, QueueSteps
  <1>4. CASE GetMiss(t)
    <2>1. QueueEffect(t)
      BY <1>0, <1>4, TimeoutEffect DEF GetMiss
    <2>2. OthersStay(t) /\ pc'[t] = "client"
      BY <1>0, <1>4, Suspension DEF GetMiss, Return, PCs
    <2> QED BY <1>1, <1>2, <2>1, <2>2, QueueSteps
  <1> QED BY <1>3, <1>4

\* The crash of a getter leaves the others alone
LEMMA CrashStep == ASSUME RadioInv, NEW t \in Tasks, GetCrashes(t) PROVE Ashore(t)
  <1>0. RadioTyped
    BY DEF RadioInv
  <1>1. /\ UNCHANGED <<rx_chains, airVars, queueVars, idle_waiters>>
        /\ pc[t] \in {"probe", "get"} /\ getter[radioOf[t]] # t
    BY DEF GetCrashes, Resumes
  <1>2. OthersStay(t) /\ pc'[t] = "crashed"
    BY <1>0, Suspension DEF GetCrashes, PCs
  <1>3. \A r \in Radios : getter[r] # t
    BY <1>1, ClientsAssumption DEF RadioInv, GetterWaits
  <1>4. Receiving(t)' => Receiving(t)
    BY <1>1 DEF Receiving
  <1>5. /\ OneReceiver' /\ GetterWaits'
        /\ DOMAIN rx_queue' = Radios /\ getter' \in [Radios -> Tasks \cup {NoTask}]
    BY <1>1, <1>2, <1>3, <1>4, GettersStay
  <1>6. IdleEffect(t)
    BY <1>0, <1>1 DEF IdleEffect, RadioInv, RadioTyped, IdleWaitersWait
  <1> QED BY <1>1, <1>2, <1>5, <1>6 DEF Ashore, OnAir

\* After the get_timeout(0): into standby, into the sleep, or into the second wait
LEMMA ProbeMissStep == ASSUME RadioInv, NEW t \in Tasks, ProbeMiss(t) PROVE Ashore(t)
  <1> DEFINE r == radioOf[t]
  <1>0. RadioTyped /\ r \in Radios /\ NoTask \notin Tasks
    BY ClientsAssumption DEF RadioInv
  <1>1. UNCHANGED <<rx_chains, airVars, idle_waiters>>
    BY DEF ProbeMiss
  <1>2. \/ TimesOut(t, "probe") /\ WakesUp(t, call[t])
        \/ TimesOut(t, "probe") /\ Suspend(t, "within", "settle", ProcessDelay)
        \/ /\ Resumes(t, "probe") /\ rx_queue[r] = <<>> /\ getter[r] = t
           /\ Gets(t, "wait", "get", Forever)
    BY DEF ProbeMiss
  <1>3. pc[t] = "probe"
    BY <1>2 DEF TimesOut, Resumes
  <1>4. Receiving(t)
    BY <1>3 DEF Receiving
  <1>5. CASE TimesOut(t, "probe") /\ WakesUp(t, call[t])
    <2>1. call[t] \in CallNames \cup {"none"}
      BY <1>0 DEF RadioTyped
    <2>2. OthersStay(t) /\ pc'[t] = "standby"
      BY <1>0, <1>5, <2>1, Suspension, SleepTimes DEF WakesUp, PCs
    <2>3. QueueEffect(t)
      BY <1>0, <1>5, TimeoutEffect
    <2> QED BY <1>1, <1>3, <1>4, <2>2, <2>3, QueueSteps
  <1>6. CASE TimesOut(t, "probe") /\ Suspend(t, "within", "settle", ProcessDelay)
    <2>2. OthersStay(t) /\ pc'[t] = "settle"
      BY <1>0, <1>6, Suspension, SleepTimes DEF PCs, CallNames
    <2>3. QueueEffect(t)
      BY <1>0, <1>6, TimeoutEffect
    <2> QED BY <1>1, <1>3, <1>4, <2>2, <2>3, QueueSteps
  <1>7. CASE /\ Resumes(t, "probe") /\ rx_queue[r] = <<>> /\ getter[r] = t
             /\ Gets(t, "wait", "get", Forever)
    <2>1. "wait" \in CallNames
      BY DEF CallNames
    <2>2. OthersStay(t) /\ pc'[t] \in {"client", "process", "get"} /\ QueueEffect(t)
      BY <1>0, <1>7, <2>1, GetsEffect
    <2> QED BY <1>1, <1>3, <1>4, <2>2, QueueSteps
  <1> QED BY <1>2, <1>5, <1>6, <1>7

\* The second wait, after standby or after the sleep
LEMMA SecondWaits ==
    ASSUME RadioInv, NEW t \in Tasks, TurnOnAfterStandby(t) \/ SettleDone(t) PROVE Ashore(t)
  <1> DEFINE r == radioOf[t]
  <1>0. RadioTyped /\ r \in Radios /\ NoTask \notin Tasks
    BY ClientsAssumption DEF RadioInv
  <1>1. /\ UNCHANGED <<rx_chains, airVars, idle_waiters>>
        /\ pc[t] \in {"standby", "settle"} /\ Receiving(t)
    BY DEF TurnOnAfterStandby, SettleDone, Resumes, Receiving
  <1>2. getter[r] = NoTask
    <2>1. getter[r] \in {t, NoTask}
      BY <1>1, OwnGetter
    <2> QED BY <2>1, <1>0, <1>1, NoGetter
  <1>3. ASSUME NEW name \in CallNames, NEW ticks \in Nat \cup {Forever}, Gets(t, name, "get", ticks)
        PROVE  OthersStay(t) /\ pc'[t] \in {"client", "process", "get"} /\ QueueEffect(t)
    <2>1. getter[r] = t => rx_queue[r] = <<>>
      BY <1>0, <1>2
    <2> QED BY <1>0, <1>2, <1>3, <2>1, GetsEffect
  <1>4. CASE \E timeout \in Timeouts : Gets(t, "within", "get", timeout)
    <2>1. OthersStay(t) /\ pc'[t] \in {"client", "process", "get"} /\ QueueEffect(t)
      BY <1>3, <1>4, SleepTimes DEF CallNames
    <2> QED BY <1>1, <2>1, QueueSteps
  <1>5. CASE Gets(t, "wait", "get", Forever)
    <2>1. OthersStay(t) /\ pc'[t] \in {"client", "process", "get"} /\ QueueEffect(t)
      BY <1>3, <1>5 DEF CallNames
    <2> QED BY <1>1, <2>1, QueueSteps
  <1>6. CASE Suspend(t, "within", "settle", ProcessDelay) /\ UNCHANGED queueVars
    <2>1. OthersStay(t) /\ pc'[t] = "settle"
      BY <1>0, <1>6, Suspension, SleepTimes DEF PCs, CallNames
    <2>2. QueueEffect(t)
      BY <1>0, <1>2, <1>6, NoQueueEffect
    <2> QED BY <1>1, <2>1, <2>2, QueueSteps
  <1> QED BY <1>4, <1>5, <1>6 DEF TurnOnAfterStandby, SettleDone

\* A flushed queue is empty
LEMMA FlushStep == ASSUME RadioInv, NEW t \in Tasks, FlushRxQueue(t) PROVE Ashore(t)
  <1> DEFINE r == radioOf[t]
  <1>0. RadioTyped /\ r \in Radios /\ NoTask \notin Tasks
    BY ClientsAssumption DEF RadioInv
  <1>1. /\ UNCHANGED <<rx_chains, airVars, idle_waiters, pc, call, left, getter>>
        /\ pc[t] = "client" /\ rx_queue' = [rx_queue EXCEPT ![r] = <<>>]
    BY DEF FlushRxQueue, Enters
  <1>2. OthersStay(t) /\ pc'[t] = "client" /\ ~Receiving(t)'
    BY <1>0, <1>1 DEF OthersStay, RadioTyped, Receiving
  <1>3. getter[r] = NoTask
    BY <1>0 DEF FlushRxQueue, RadioInv, GetterWaits
  <1>4. QueueEffect(t)
    BY <1>0, <1>1, <1>3 DEF QueueEffect, RadioTyped
  <1> QED BY <1>1, <1>2, <1>4, QueueSteps

\* A radio that is off is woken up before it transmits
LEMMA TransmitWakes ==
    ASSUME RadioInv, NEW t \in Tasks, Transmit(t), radio_state[radioOf[t]] = "OFF"
    PROVE  Ashore(t)
  <1>0. RadioTyped
    BY DEF RadioInv
  <1>1. /\ UNCHANGED <<rx_chains, airVars, queueVars, idle_waiters>>
        /\ pc[t] = "client" /\ WakesUp(t, "transmit")
    BY DEF Transmit, Enters
  <1>2. OthersStay(t) /\ pc'[t] = "standby" /\ call'[t] = "transmit"
    BY <1>0, <1>1, Suspension, SleepTimes DEF WakesUp, PCs, CallNames
  <1>3. Wanders(t)
    BY <1>1, <1>2 DEF Wanders, Receiving
  <1> QED BY <1>3, WanderingIsAshore

-----------------------------------------------------------------------------
(* Steps that change chains or transmissions.                              *)

\* The packets in transit, before and after a step
LEMMA TransitIsCarried ==
    /\ \A r : InTransit(r) = Carried(rx_chains[r])
    /\ \A r : InTransit(r)' = Carried(rx_chains'[r])
  BY DEF InTransit, Transit, Carried

\* Chains are reconfigured, or a transmission goes on, and no packet enters or leaves a radio
Aloft(t) ==
    /\ SameFlights
    /\ UNCHANGED <<airVars, queueVars, idle_waiters>>
    /\ OthersStay(t)
    /\ \/ pc'[t] = pc[t] /\ call'[t] = call[t] /\ left'[t] = left[t]
       \/ pc[t] \in {"preamble", "payload"} /\ pc'[t] \in {"payload", "ending"}

\* Such a step preserves the invariant
LEMMA AloftKeeps == ASSUME RadioInv, NEW t \in Tasks, Aloft(t) PROVE RadioInv'
  <1>1. /\ packet' = packet /\ receivers' = receivers /\ late' = late /\ sent' = sent
        /\ tx_end_time' = tx_end_time /\ rx_queue' = rx_queue /\ getter' = getter
        /\ idle_waiters' = idle_waiters
    BY DEF Aloft, airVars, queueVars
  <1>2. \A u \in Tasks :
            \/ pc'[u] = pc[u] /\ call'[u] = call[u] /\ left'[u] = left[u]
            \/ pc[u] \in {"preamble", "payload"} /\ pc'[u] \in {"payload", "ending"}
    BY DEF Aloft, OthersStay
  <1>3. RadioTyped'
    BY <1>1 DEF RadioInv, RadioTyped, Aloft, OthersStay, SameFlights
  <1>4. OneReceiver'
    <2>1. \A u \in Tasks : Receiving(u)' => Receiving(u)
      BY <1>2 DEF Receiving
    <2> QED BY <2>1 DEF RadioInv, OneReceiver
  <1>5. GetterWaits'
    <2>1. \A r \in Radios : getter[r] # NoTask => getter[r] \in Tasks
      BY DEF RadioInv, RadioTyped
    <2> QED BY <1>1, <1>2, <2>1 DEF RadioInv, GetterWaits
  <1>6. IdleWaitersWait'
    BY <1>1, <1>2 DEF RadioInv, RadioTyped, IdleWaitersWait
  <1>7. \A u \in Tasks : LateCounted(u)'
    BY <1>1, <1>2 DEF RadioInv, LateCounted, OnAir
  <1>8. EndsInTime'
    BY <1>1 DEF RadioInv, EndsInTime
  <1>9. \A r \in Radios : InTransit(r)' = InTransit(r)
    BY TransitIsCarried DEF Aloft, SameFlights
  <1>10. TransitIsOnAir'
    <2> SUFFICES ASSUME NEW r \in Radios, NEW p \in InTransit(r)'
                 PROVE  (\E u \in Tasks : OnAir(u) /\ packet[u] = p /\ r \in receivers[u])'
      BY DEF TransitIsOnAir
    <2>1. PICK u \in Tasks : OnAir(u) /\ packet[u] = p /\ r \in receivers[u]
      BY <1>9 DEF RadioInv, TransitIsOnAir
    <2> QED BY <2>1, <1>1, <1>2 DEF OnAir
  <1>11. IdleWaiterHasAPacket'
    <2> SUFFICES ASSUME NEW r \in Radios, NEW w \in idle_waiters'[r], InTransit(r) = {}
                 PROVE  \E u \in Tasks : pc'[u] \in {"delivered", "putting"}
                                         /\ r = Min(receivers'[u])
      BY <1>9 DEF IdleWaiterHasAPacket
    <2>1. PICK u \in Tasks : pc[u] \in {"delivered", "putting"} /\ r = Min(receivers[u])
      BY <1>1 DEF RadioInv, IdleWaiterHasAPacket
    <2> QED BY <2>1, <1>1, <1>2
  <1> QED BY <1>3, <1>4, <1>5, <1>6, <1>7, <1>8, <1>10, <1>11 DEF RadioInv

\* The configuration calls, the end of the preamble and the end of the payload
LEMMA AloftSteps ==
    ASSUME RadioInv, NEW t \in Tasks,
           \/ SetTxConfig(t) \/ SetRxConfig(t) \/ SetChannel(t) \/ SetRxChainConfig(t)
           \/ EnableRxChain(t) \/ AddRxChain(t) \/ SetChannelPlan(t)
           \/ PreambleDone(t) \/ PayloadDone(t)
    PROVE  RadioInv'
  <1> SUFFICES Aloft(t)
    BY AloftKeeps
  <1>0. RadioTyped
    BY DEF RadioInv
  <1>1. ASSUME ConfigOnly(t), SameFlights PROVE Aloft(t)
    BY <1>0, <1>1 DEF ConfigOnly, Aloft, OthersStay, RadioTyped
  <1>2. CASE \/ SetTxConfig(t) \/ SetRxConfig(t) \/ SetChannel(t) \/ SetRxChainConfig(t)
             \/ EnableRxChain(t) \/ AddRxChain(t)
    <2>1. ConfigOnly(t)
      BY <1>2 DEF SetTxConfig, SetRxConfig, SetChannel, SetRxChainConfig, EnableRxChain, AddRxChain
    <2>2. SameFlights
      BY <1>0, <1>2, ConfigFlights
    <2> QED BY <1>1, <2>1, <2>2
  <1>3. CASE SetChannelPlan(t)
    <2>1. ConfigOnly(t)
      BY <1>3 DEF SetChannelPlan
    <2> QED BY <1>0, <1>1, <1>3, <2>1, PlanFlights
  <1>4. CASE PreambleDone(t)
    <2>1. /\ UNCHANGED <<airVars, queueVars, idle_waiters>> /\ pc[t] = "preamble"
          /\ \E ticks \in PayloadTimes : Suspend(t, "transmit", "payload", ticks)
      BY <1>4 DEF PreambleDone, Resumes
    <2>2. OthersStay(t) /\ pc'[t] = "payload"
      BY <1>0, <2>1, Suspension, SleepTimes DEF PCs, CallNames
    <2>3. SameFlights
      BY <1>0, <1>4, PreambleFlights
    <2> QED BY <2>1, <2>2, <2>3 DEF Aloft
  <1>5. CASE PayloadDone(t)
    <2>1. /\ UNCHANGED <<rx_chains, airVars, queueVars, idle_waiters, call, left>>
          /\ pc[t] = "payload" /\ pc' = [pc EXCEPT ![t] = "ending"]
      BY <1>5 DEF PayloadDone, Resumes
    <2>2. OthersStay(t) /\ pc'[t] = "ending"
      BY <1>0, <2>1 DEF RadioTyped, OthersStay, PCs
    <2>3. SameFlights
      BY <1>0, <2>1 DEF RadioTyped, SameFlights
    <2> QED BY <2>1, <2>2, <2>3 DEF Aloft
  <1> QED BY <1>2, <1>3, <1>4, <1>5

\* A radio that leaves receive mode interrupts receptions and forgets none
LEMMA InterruptedList ==
    ASSUME NEW s, IsChainList(s)
    PROVE  IsChainList(AllInterrupted(s)) /\ Carried(AllInterrupted(s)) = Carried(s)
  <1> DEFINE s2 == AllInterrupted(s)
  <1>1. s2 = [c \in DOMAIN s |-> s2[c]] /\ \A c \in DOMAIN s : s2[c] = Interrupted(s[c])
    BY DEF AllInterrupted
  <1>2. \A c \in DOMAIN s : IsChain(s[c])
    BY DEF IsChainList
  <1>3. \A c \in DOMAIN s : /\ IsChain(s2[c])
                            /\ DOMAIN s2[c].packets_in_transit = DOMAIN s[c].packets_in_transit
    BY <1>1, <1>2, ChainOperations
  <1> HIDE DEF s2
  <1>4. IsChainList(s2) /\ DOMAIN s2 = DOMAIN s
    BY <1>1, <1>3, SameLength
  <1>5. Carried(s2) = Carried(s)
    BY <1>3, <1>4, SameCarried
  <1> QED BY <1>4, <1>5 DEF s2

\* What the start of packet p does to the radios that hear it
StartFlights(heard, p) ==
    /\ DOMAIN rx_chains' = Radios
    /\ \A q \in Radios :
         /\ IsChainList(rx_chains'[q])
         /\ Carried(rx_chains[q]) \subseteq Carried(rx_chains'[q])
         /\ \A x \in Carried(rx_chains'[q]) : x \in Carried(rx_chains[q]) \/ (x = p /\ q \in heard)

LEMMA StartMeets ==
    ASSUME RadioTyped, NEW t \in Tasks, NEW own, IsChainList(own),
           Carried(own) = Carried(rx_chains[radioOf[t]]), StartsTransmission(t, own)
    PROVE  StartFlights({q \in Radios \ {radioOf[t]} : radio_state[q] = "RX"}, sent + 1)
  <1> DEFINE r == radioOf[t]
             p == sent + 1
             heard == {q \in Radios \ {r} : radio_state[q] = "RX"}
             Meet(q, survivor, c) ==
                on_receive_start(rx_chains[q][c], p, tx_config[r],
                                 ~can_receive(q, tx_config[r], rx_chains[q][c]),
                                 <<r, q>> \in OutOfRange, survivor)
             Meets(q, survivor) == [c \in DOMAIN rx_chains[q] |-> Meet(q, survivor, c)]
  <1>1. PICK survivor \in [heard -> [1 .. sent -> Survivors]] :
            rx_chains' = [q \in Radios |->
                CASE q = r -> own
                  [] q \in heard -> Meets(q, survivor[q])
                  [] OTHER -> rx_chains[q]]
    BY Zenon DEF StartsTransmission
  <1>2. ASSUME NEW q \in Radios
        PROVE  IsChainList(rx_chains[q]) /\ \A c \in DOMAIN rx_chains[q] : IsChain(rx_chains[q][c])
    BY DEF RadioTyped, IsChainList
  <1>3. ASSUME NEW q \in Radios, NEW x, NEW c \in DOMAIN rx_chains[q]
        PROVE  /\ IsChain(Meet(q, x, c))
               /\ DOMAIN rx_chains[q][c].packets_in_transit
                    \subseteq DOMAIN Meet(q, x, c).packets_in_transit
               /\ DOMAIN Meet(q, x, c).packets_in_transit
                    \subseteq DOMAIN rx_chains[q][c].packets_in_transit \cup {p}
    BY <1>2, ChainStart
  <1> HIDE DEF Meet
  <1>4. ASSUME NEW q \in Radios
        PROVE  /\ IsChainList(rx_chains'[q])
               /\ Carried(rx_chains[q]) \subseteq Carried(rx_chains'[q])
               /\ \A x \in Carried(rx_chains'[q]) :
                    x \in Carried(rx_chains[q]) \/ (x = p /\ q \in heard)
    <2>1. CASE q = r
      <3>1. rx_chains'[q] = own
        BY <1>1, <2>1
      <3> QED BY <2>1, <3>1
    <2>2. CASE q # r /\ q \notin heard
      <3>1. rx_chains'[q] = rx_chains[q]
        BY <1>1, <2>2
      <3> QED BY <1>2, <3>1
    <2>3. CASE q # r /\ q \in heard
      <3> DEFINE s == rx_chains[q]
                 s2 == Meets(q, survivor[q])
      <3>1. rx_chains'[q] = s2
        BY <1>1, <2>3
      <3>2. s2 = [c \in DOMAIN s |-> s2[c]]
        OBVIOUS
      <3>3. \A c \in DOMAIN s : s2[c] = Meet(q, survivor[q], c)
        OBVIOUS
      <3>4. \A c \in DOMAIN s :
                /\ IsChain(s2[c])
                /\ DOMAIN s[c].packets_in_transit \subseteq DOMAIN s2[c].packets_in_transit
                /\ DOMAIN s2[c].packets_in_transit
                    \subseteq DOMAIN s[c].packets_in_transit \cup {p}
        BY <1>3, <3>3
      <3> HIDE DEF s2
      <3>5. IsChainList(s2) /\ DOMAIN s2 = DOMAIN s
        BY <1>2, <3>2, <3>4, SameLength
      <3>6. Carried(s) \subseteq Carried(s2)
        BY <3>4, <3>5 DEF Carried
      <3>7. \A x \in Carried(s2) : x \in Carried(s) \/ x = p
        BY <3>4, <3>5 DEF Carried
      <3> QED BY <2>3, <3>1, <3>5, <3>6, <3>7
    <2> QED BY <2>1, <2>2, <2>3
  <1>5. DOMAIN rx_chains' = Radios
    BY <1>1
  <1> QED BY <1>4, <1>5 DEF StartFlights

\* A transmission begins
LEMMA StartKeeps ==
    ASSUME RadioInv, NEW t \in Tasks, ~OnAir(t), ~Receiving(t), pc[t] # "idle_wait",
           NEW own, IsChainList(own), Carried(own) = Carried(rx_chains[radioOf[t]]),
           StartsTransmission(t, own), UNCHANGED <<queueVars, idle_waiters>>
    PROVE  RadioInv'
  <1> DEFINE r == radioOf[t]
             p == sent + 1
             heard == {q \in Radios \ {r} : radio_state[q] = "RX"}
  <1>0. RadioTyped /\ r \in Radios
    BY ClientsAssumption DEF RadioInv
  <1>1. StartFlights(heard, p)
    BY <1>0, StartMeets
  <1>2. /\ packet' = [packet EXCEPT ![t] = p] /\ receivers' = [receivers EXCEPT ![t] = heard]
        /\ sent' = p /\ late' = late /\ tx_end_time' = tx_end_time
        /\ rx_queue' = rx_queue /\ getter' = getter /\ idle_waiters' = idle_waiters
        /\ Suspend(t, "transmit", "preamble", PreambleTime)
    BY DEF StartsTransmission, queueVars
  <1>3. OthersStay(t) /\ pc'[t] = "preamble"
    BY <1>0, <1>2, Suspension, SleepTimes DEF PCs, CallNames
  <1>4. /\ packet'[t] = p /\ receivers'[t] = heard
        /\ \A u \in Tasks \ {t} : /\ packet'[u] = packet[u] /\ receivers'[u] = receivers[u]
                                  /\ pc'[u] = pc[u] /\ call'[u] = call[u] /\ left'[u] = left[u]
    BY <1>0, <1>2, <1>3 DEF RadioTyped, OthersStay
  <1>5. heard \in SUBSET (Radios \ {r}) /\ heard \in SUBSET Radios /\ p \in Nat
    BY <1>0 DEF RadioTyped
  <1> HIDE DEF r, p, heard
  <1>6. RadioTyped'
    BY <1>0, <1>1, <1>2, <1>3, <1>5 DEF RadioTyped, OthersStay, StartFlights
  <1>7. OneReceiver' /\ GetterWaits'
    <2>1. \A q \in Radios : getter[q] # t
      BY NoGetter DEF Receiving
    <2>2. Receiving(t)' => Receiving(t)
      BY <1>3 DEF Receiving
    <2>3. UNCHANGED queueVars
      BY <1>2 DEF queueVars
    <2> QED BY <1>3, <2>1, <2>2, <2>3, GettersStay
  <1>8. IdleWaitersWait'
    BY <1>2, <1>4 DEF RadioInv, IdleWaitersWait, RadioTyped
  <1>9. \A u \in Tasks : LateCounted(u)'
    <2>1. late[t] = 0 /\ Cardinality(heard) < Cardinality(Radios) /\ Cardinality(heard) \in Nat
      BY <1>0, <1>5, CountingRadios DEF RadioInv, LateCounted
    <2>2. LateCounted(t)'
      BY <1>2, <1>3, <1>4, <2>1 DEF LateCounted, OnAir
    <2>3. \A u \in Tasks \ {t} : LateCounted(u)'
      BY <1>2, <1>4 DEF RadioInv, LateCounted, OnAir
    <2> QED BY <2>2, <2>3
  <1>10. EndsInTime'
    BY <1>2 DEF RadioInv, EndsInTime
  <1>11. TransitIsOnAir'
    <2> SUFFICES ASSUME NEW q \in Radios, NEW x \in InTransit(q)'
                 PROVE  (\E u \in Tasks : OnAir(u) /\ packet[u] = x /\ q \in receivers[u])'
      BY DEF TransitIsOnAir
    <2>1. x \in InTransit(q) \/ (x = p /\ q \in heard)
      BY <1>1, TransitIsCarried DEF StartFlights
    <2>2. CASE x = p /\ q \in heard
      BY <2>2, <1>3, <1>4 DEF OnAir
    <2>3. CASE x \in InTransit(q)
      <3>1. PICK u \in Tasks : OnAir(u) /\ packet[u] = x /\ q \in receivers[u]
        BY <2>3 DEF RadioInv, TransitIsOnAir
      <3>2. u # t
        BY <3>1
      <3> QED BY <3>1, <3>2, <1>4 DEF OnAir
    <2> QED BY <2>1, <2>2, <2>3
  <1>12. IdleWaiterHasAPacket'
    <2> SUFFICES ASSUME NEW q \in Radios, NEW w \in idle_waiters'[q], InTransit(q)' = {}
                 PROVE  \E u \in Tasks : pc'[u] \in {"delivered", "putting"}
                                         /\ q = Min(receivers'[u])
      BY DEF IdleWaiterHasAPacket
    <2>1. InTransit(q) = {}
      BY <1>1, TransitIsCarried DEF StartFlights
    <2>2. PICK u \in Tasks : pc[u] \in {"delivered", "putting"} /\ q = Min(receivers[u])
      BY <1>2, <2>1 DEF RadioInv, IdleWaiterHasAPacket
    <2>3. u # t
      BY <2>2 DEF OnAir
    <2> QED BY <2>2, <2>3, <1>4
  <1> QED BY <1>6, <1>7, <1>8, <1>9, <1>10, <1>11, <1>12 DEF RadioInv

\* transmit_data_blocking, at once or after standby
LEMMA TransmitKeeps ==
    ASSUME RadioInv, NEW t \in Tasks, Transmit(t) \/ TransmitAfterStandby(t) PROVE RadioInv'
  <1> DEFINE r == radioOf[t]
  <1>0. r \in Radios /\ IsChainList(rx_chains[r])
    BY ClientsAssumption DEF RadioInv, RadioTyped
  <1>1. CASE Transmit(t)
    <2>1. ~OnAir(t) /\ ~Receiving(t) /\ pc[t] # "idle_wait"
      BY <1>1 DEF Transmit, Enters, OnAir, Receiving
    <2>2. UNCHANGED <<queueVars, idle_waiters>>
      BY <1>1 DEF Transmit
    <2>3. CASE radio_state[r] = "OFF"
      BY <1>1, <2>3, TransmitWakes, AshoreKeeps
    <2>4. CASE radio_state[r] = "RX"
      <3>1. StartsTransmission(t, AllInterrupted(rx_chains[r]))
        BY <1>1, <2>4 DEF Transmit
      <3>2. /\ IsChainList(AllInterrupted(rx_chains[r]))
            /\ Carried(AllInterrupted(rx_chains[r])) = Carried(rx_chains[r])
        BY <1>0, InterruptedList
      <3> QED BY <2>1, <2>2, <3>1, <3>2, StartKeeps
    <2>5. CASE radio_state[r] \notin {"OFF", "RX"}
      <3>1. StartsTransmission(t, rx_chains[r])
        BY <1>1, <2>5 DEF Transmit
      <3> QED BY <1>0, <2>1, <2>2, <3>1, StartKeeps
    <2> QED BY <2>3, <2>4, <2>5
  <1>2. CASE TransmitAfterStandby(t)
    <2>1. ~OnAir(t) /\ ~Receiving(t) /\ pc[t] # "idle_wait"
      BY <1>2 DEF TransmitAfterStandby, Resumes, OnAir, Receiving
    <2>2. UNCHANGED <<queueVars, idle_waiters>> /\ StartsTransmission(t, rx_chains[r])
      BY <1>2 DEF TransmitAfterStandby
    <2> QED BY <1>0, <2>1, <2>2, StartKeeps
  <1> QED BY <1>1, <1>2

-----------------------------------------------------------------------------
(* The end of a packet at a receiver.                                      *)

\* The packet leaves every chain of a list
LEMMA WithoutList ==
    ASSUME NEW s, IsChainList(s), NEW p
    PROVE  IsChainList(AllWithout(s, p)) /\ Carried(AllWithout(s, p)) = Carried(s) \ {p}
  <1> DEFINE s2 == AllWithout(s, p)
  <1>1. s2 = [c \in DOMAIN s |-> s2[c]] /\ \A c \in DOMAIN s : s2[c] = Without(s[c], p)
    BY DEF AllWithout
  <1>2. \A c \in DOMAIN s : IsChain(s[c])
    BY DEF IsChainList
  <1>3. \A c \in DOMAIN s :
            /\ IsChain(s2[c])
            /\ DOMAIN s2[c].packets_in_transit = DOMAIN s[c].packets_in_transit \ {p}
    BY <1>1, <1>2, ChainOperations
  <1> HIDE DEF s2
  <1>4. IsChainList(s2) /\ DOMAIN s2 = DOMAIN s
    BY <1>1, <1>3, SameLength
  <1>5. Carried(s2) = Carried(s) \ {p}
    BY <1>3, <1>4 DEF Carried
  <1> QED BY <1>4, <1>5 DEF s2

\* The packet leaves some chains of a list
LEMMA WithoutSome ==
    ASSUME NEW s, IsChainList(s), NEW p, NEW w, NEW s2,
           s2 = [c \in DOMAIN s |-> IF c <= w THEN Without(s[c], p) ELSE s[c]]
    PROVE  IsChainList(s2) /\ Carried(s2) \subseteq Carried(s)
  <1>1. s2 = [c \in DOMAIN s |-> s2[c]] /\ \A c \in DOMAIN s : s2[c] \in {Without(s[c], p), s[c]}
    OBVIOUS
  <1>2. \A c \in DOMAIN s : IsChain(s[c])
    BY DEF IsChainList
  <1>3. \A c \in DOMAIN s :
            /\ IsChain(s2[c])
            /\ DOMAIN s2[c].packets_in_transit \subseteq DOMAIN s[c].packets_in_transit
    BY <1>1, <1>2, ChainOperations
  <1>4. IsChainList(s2) /\ DOMAIN s2 = DOMAIN s
    BY <1>1, <1>3, SameLength
  <1>5. Carried(s2) \subseteq Carried(s)
    BY <1>3, <1>4 DEF Carried
  <1> QED BY <1>4, <1>5

\* _on_receive_end is done with a receiver
LEMMA LeavesKeeps ==
    ASSUME RadioInv, NEW t \in Tasks, NEW q \in receivers[t], q = Min(receivers[t]),
           \/ pc[t] \in {"ending", "delivered"}
           \/ pc[t] = "putting" /\ left[t] = 0,
           LeavesReceiver(t, q), UNCHANGED <<queueVars, call>>
    PROVE  RadioInv'
  <1> DEFINE chains == AllWithout(rx_chains[q], packet[t])
             woken == IdleNow(q, chains)
  <1>0. RadioTyped /\ q \in Radios /\ receivers[t] \in SUBSET Radios
    BY DEF RadioInv, RadioTyped
  <1>1. /\ rx_chains' = [rx_chains EXCEPT ![q] = chains]
        /\ idle_waiters' = [idle_waiters EXCEPT ![q] = idle_waiters[q] \ woken]
        /\ left' = [u \in Tasks |-> IF u \in woken THEN 1 ELSE left[u]]
        /\ receivers' = [receivers EXCEPT ![t] = receivers[t] \ {q}]
        /\ pc' = [pc EXCEPT ![t] = "ending"]
        /\ packet' = packet /\ late' = late /\ sent' = sent /\ tx_end_time' = tx_end_time
        /\ rx_queue' = rx_queue /\ getter' = getter /\ call' = call
    BY DEF LeavesReceiver, Leaves, queueVars
  <1>2. IsChainList(chains) /\ Carried(chains) = Carried(rx_chains[q]) \ {packet[t]}
    BY <1>0, WithoutList DEF RadioTyped
  <1>3. woken \subseteq idle_waiters[q] /\ woken \subseteq Tasks
    BY <1>0 DEF IdleNow, RadioTyped
  <1>4. idle_waiters[q] \ woken # {} => Carried(chains) # {}
    <2>1. idle_waiters[q] \ woken # {} => carrier_sense_instant(chains)
      BY DEF IdleNow
    <2> QED BY <2>1 DEF carrier_sense_instant, EnabledChains, Carried
  <1> HIDE DEF chains, woken
  <1>5. /\ pc'[t] = "ending" /\ receivers'[t] = receivers[t] \ {q}
        /\ \A u \in Tasks \ {t} : receivers'[u] = receivers[u] /\ pc'[u] = pc[u]
    BY <1>0, <1>1 DEF RadioTyped
  <1>6. \A u \in Tasks : pc[u] # "idle_wait" => left'[u] = left[u]
    BY <1>0, <1>1, <1>3 DEF RadioInv, IdleWaitersWait
  <1>7. RadioTyped'
    <2>1. DOMAIN rx_chains' = Radios /\ \A r \in Radios : IsChainList(rx_chains'[r])
      BY <1>0, <1>1, <1>2 DEF RadioTyped
    <2>2. idle_waiters' \in [Radios -> SUBSET Tasks] /\ left' \in [Tasks -> Nat \cup {Forever}]
      BY <1>0, <1>1 DEF RadioTyped
    <2>3. receivers' \in [Tasks -> SUBSET Radios] /\ pc' \in [Tasks -> PCs]
      BY <1>0, <1>1 DEF RadioTyped, PCs
    <2> QED BY <1>0, <1>1, <2>1, <2>2, <2>3 DEF RadioTyped
  <1>8. OneReceiver'
    <2>1. \A u \in Tasks : Receiving(u)' => Receiving(u)
      BY <1>1, <1>5 DEF Receiving
    <2> QED BY <2>1 DEF RadioInv, OneReceiver
  <1>9. GetterWaits'
    <2>1. \A r \in Radios : getter[r] # NoTask => getter[r] \in Tasks \ {t}
      <3>1. \A r \in Radios : getter[r] # t
        BY NoGetter
      <3> QED BY <3>1, <1>0 DEF RadioTyped
    <2> QED BY <1>1, <1>5, <2>1 DEF RadioInv, GetterWaits
  <1>10. IdleWaitersWait'
    <2>1. \A r \in Radios : idle_waiters'[r] \subseteq idle_waiters[r]
      BY <1>0, <1>1 DEF RadioTyped
    <2>2. \A r \in Radios : \A u \in idle_waiters[r] : u \in Tasks /\ u # t
      BY <1>0 DEF RadioInv, RadioTyped, IdleWaitersWait
    <2> QED BY <1>5, <2>1, <2>2 DEF RadioInv, IdleWaitersWait
  <1>11. \A u \in Tasks : LateCounted(u)'
    <2>1. LateCounted(t)'
      <3> DEFINE n == Cardinality(Radios)
                 m == Cardinality(receivers[t])
      <3>1. /\ m \in Nat /\ n \in Nat /\ Cardinality(receivers[t] \ {q}) = m - 1
            /\ late[t] \in Nat /\ left[t] \in Nat \cup {Forever}
        BY <1>0, CountingRadios DEF RadioTyped
      <3>2. late[t] + m <= n
        <4>1. CASE pc[t] \in {"ending", "delivered"}
          <5>1. late[t] + m < n
            BY <4>1 DEF RadioInv, LateCounted
          <5> QED BY <5>1, <3>1
        <4>2. CASE pc[t] = "putting" /\ left[t] = 0
          <5>1. late[t] + left[t] + m <= n
            BY <4>2 DEF RadioInv, LateCounted
          <5> QED BY <5>1, <4>2, <3>1
        <4> QED BY <4>1, <4>2
      <3>3. late[t] + (m - 1) < n
        BY <3>1, <3>2
      <3>4. late'[t] + Cardinality(receivers'[t]) < Cardinality(Radios)
        BY <3>1, <3>3, <1>1, <1>5
      <3> QED BY <3>4, <1>5 DEF LateCounted, OnAir
    <2>2. ASSUME NEW u \in Tasks \ {t} PROVE LateCounted(u)'
      <3>1. /\ pc'[u] = pc[u] /\ receivers'[u] = receivers[u] /\ late'[u] = late[u]
            /\ pc[u] = "putting" => left'[u] = left[u]
        BY <1>1, <1>5, <1>6
      <3> QED BY <3>1 DEF RadioInv, LateCounted, OnAir
    <2> QED BY <2>1, <2>2
  <1>12. EndsInTime'
    BY <1>1 DEF RadioInv, EndsInTime
  <1>13. /\ InTransit(q)' = InTransit(q) \ {packet[t]}
         /\ \A r \in Radios \ {q} : InTransit(r)' = InTransit(r)
    BY <1>0, <1>1, <1>2, TransitIsCarried DEF RadioTyped
  <1>14. TransitIsOnAir'
    <2> SUFFICES ASSUME NEW r \in Radios, NEW p \in InTransit(r)'
                 PROVE  (\E u \in Tasks : OnAir(u) /\ packet[u] = p /\ r \in receivers[u])'
      BY DEF TransitIsOnAir
    <2>1. PICK u \in Tasks : OnAir(u) /\ packet[u] = p /\ r \in receivers[u]
      BY <1>13 DEF RadioInv, TransitIsOnAir
    <2>2. CASE u # t
      BY <2>1, <2>2, <1>1, <1>5 DEF OnAir
    <2>3. CASE u = t
      <3>1. r # q
        BY <2>1, <2>3, <1>13
      <3> QED BY <2>1, <2>3, <3>1, <1>1, <1>5 DEF OnAir
    <2> QED BY <2>2, <2>3
  <1>15. IdleWaiterHasAPacket'
    <2> SUFFICES ASSUME NEW r \in Radios, NEW w \in idle_waiters'[r], InTransit(r)' = {}
                 PROVE  \E u \in Tasks : pc'[u] \in {"delivered", "putting"}
                                         /\ r = Min(receivers'[u])
      BY DEF IdleWaiterHasAPacket
    <2>1. r # q
      <3> SUFFICES ASSUME r = q PROVE FALSE
        OBVIOUS
      <3>1. w \in idle_waiters[q] \ woken
        BY <1>0, <1>1 DEF RadioTyped
      <3>2. InTransit(q)' = Carried(chains)
        BY <1>2, <1>13, TransitIsCarried
      <3> QED BY <3>1, <3>2, <1>4
    <2>2. w \in idle_waiters[r] /\ InTransit(r) = {}
      BY <2>1, <1>0, <1>1, <1>13 DEF RadioTyped
    <2>3. PICK u \in Tasks : pc[u] \in {"delivered", "putting"} /\ r = Min(receivers[u])
      BY <2>2 DEF RadioInv, IdleWaiterHasAPacket
    <2>4. u # t
      BY <2>1, <2>3
    <2> QED BY <2>3, <2>4, <1>5
  <1> QED BY <1>7, <1>8, <1>9, <1>10, <1>11, <1>12, <1>14, <1>15 DEF RadioInv

\* A packet that was lost, and the rest of the notification after a put
LEMMA ReceiveEndKeeps ==
    ASSUME RadioInv, NEW t \in Tasks, ReceiveEndLost(t) \/ ReceiveEndRest(t) PROVE RadioInv'
  <1>1. CASE ReceiveEndLost(t)
    <2>1. PICK q \in receivers[t] : AtReceiver(t, q) /\ LeavesReceiver(t, q)
      BY <1>1 DEF ReceiveEndLost
    <2>2. q = Min(receivers[t]) /\ pc[t] = "ending" /\ UNCHANGED <<queueVars, call>>
      BY <1>1, <2>1 DEF ReceiveEndLost, AtReceiver
    <2> QED BY <2>1, <2>2, LeavesKeeps
  <1>2. CASE ReceiveEndRest(t)
    <2>1. pc[t] = "delivered" \/ (pc[t] = "putting" /\ left[t] = 0)
      BY <1>2 DEF ReceiveEndRest, Resumes
    <2>2. receivers[t] \in SUBSET Radios /\ receivers[t] # {}
      BY <2>1 DEF RadioInv, RadioTyped, LateCounted
    <2>3. Min(receivers[t]) \in receivers[t]
      BY <2>2, FirstRadio
    <2>4. LeavesReceiver(t, Min(receivers[t])) /\ UNCHANGED <<queueVars, call>>
      BY <1>2 DEF ReceiveEndRest
    <2> QED BY <2>1, <2>3, <2>4, LeavesKeeps
  <1> QED BY <1>1, <1>2

\* A packet is put into the receiver's queue: the notification stays at this receiver, and takes
\* a tick if a task waits for the packet
LEMMA PutKeeps == ASSUME RadioInv, NEW t \in Tasks, ReceiveEndPut(t) PROVE RadioInv'
  <1>a. PICK q \in receivers[t] :
            /\ AtReceiver(t, q)
            /\ LET w == Min(Winners(t, q))
                   p == packet[t]
               IN  /\ rx_chains' = [rx_chains EXCEPT ![q] =
                            [c \in DOMAIN @ |-> IF c <= w THEN Without(@[c], p) ELSE @[c]]]
                   /\ put(t, q, [packet |-> p, chain |-> w,
                                 received_preamble |-> Transit(q, w)[p].received_preamble])
            /\ UNCHANGED <<idle_waiters, call, airVars>>
    BY DEF ReceiveEndPut
  <1> DEFINE s == rx_chains[q]
             w == Min(Winners(t, q))
             s2 == [c \in DOMAIN s |-> IF c <= w THEN Without(s[c], packet[t]) ELSE s[c]]
             g == getter[q]
  <1>0. RadioTyped /\ q \in Radios /\ receivers[t] \in SUBSET Radios /\ NoTask \notin Tasks
    BY ClientsAssumption DEF RadioInv, RadioTyped
  <1>1. /\ rx_chains' = [rx_chains EXCEPT ![q] = s2]
        /\ idle_waiters' = idle_waiters /\ call' = call /\ packet' = packet
        /\ receivers' = receivers /\ late' = late /\ sent' = sent /\ tx_end_time' = tx_end_time
    BY <1>a DEF airVars
  <1>2. pc[t] = "ending" /\ q = Min(receivers[t])
    BY <1>a DEF AtReceiver
  <1>3. PICK item : rx_queue' = [rx_queue EXCEPT ![q] = Append(rx_queue[q], item)]
    BY <1>a DEF put
  <1>4. PutDone(t, q, "delivered", 1)
    BY <1>a DEF put
  <1>5. g # NoTask => g \in Tasks \ {t} /\ pc[g] \in {"probe", "get"}
    BY <1>0, <1>2 DEF RadioTyped, RadioInv, GetterWaits
  <1>6. /\ pc'[t] \in {"delivered", "putting"}
        /\ pc'[t] = "putting" => left'[t] = 1
        /\ \A u \in Tasks \ {t} : pc'[u] = pc[u] /\ (pc[u] = "putting" => left'[u] = left[u])
        /\ pc' \in [Tasks -> PCs] /\ left' \in [Tasks -> Nat \cup {Forever}]
        /\ getter' = [getter EXCEPT ![q] = NoTask]
    <2>1. CASE g = NoTask
      <3>1. pc' = [pc EXCEPT ![t] = "delivered"] /\ left' = left /\ getter' = getter
        BY <1>4, <2>1 DEF PutDone
      <3> QED BY <3>1, <2>1, <1>0 DEF RadioTyped, PCs
    <2>2. CASE g # NoTask
      <3>1. /\ pc' = [pc EXCEPT ![t] = "putting"]
            /\ left' = [left EXCEPT ![t] = 1, ![g] = IF @ = 0 THEN 0 ELSE 1]
            /\ getter' = [getter EXCEPT ![q] = NoTask]
        BY <1>4, <2>2 DEF PutDone
      <3>2. pc' \in [Tasks -> PCs] /\ pc'[t] = "putting" /\ \A u \in Tasks \ {t} : pc'[u] = pc[u]
        BY <3>1, <1>0 DEF RadioTyped, PCs
      <3>3. /\ left' \in [Tasks -> Nat \cup {Forever}] /\ left'[t] = 1
            /\ \A u \in Tasks \ {t, g} : left'[u] = left[u]
        BY <3>1, <1>0, <1>5, <2>2 DEF RadioTyped
      <3> QED BY <3>1, <3>2, <3>3, <1>5, <2>2
    <2> QED BY <2>1, <2>2
  <1>7. IsChainList(s2) /\ Carried(s2) \subseteq Carried(s)
    <2>1. IsChainList(s)
      BY <1>0 DEF RadioTyped
    <2>2. s2 = [c \in DOMAIN s |-> IF c <= w THEN Without(s[c], packet[t]) ELSE s[c]]
      OBVIOUS
    <2> HIDE DEF s, w, s2
    <2> QED BY <2>1, <2>2, WithoutSome
  <1> HIDE DEF s2, w, g
  <1>8. RadioTyped'
    <2>1. DOMAIN rx_chains' = Radios /\ \A r \in Radios : IsChainList(rx_chains'[r])
      BY <1>0, <1>1, <1>7 DEF RadioTyped
    <2>2. DOMAIN rx_queue' = Radios /\ getter' \in [Radios -> Tasks \cup {NoTask}]
      BY <1>0, <1>3, <1>6 DEF RadioTyped
    <2> QED BY <1>0, <1>1, <1>6, <2>1, <2>2 DEF RadioTyped
  <1>9. OneReceiver'
    <2>1. \A u \in Tasks : Receiving(u)' => Receiving(u)
      BY <1>1, <1>6 DEF Receiving
    <2> QED BY <2>1 DEF RadioInv, OneReceiver
  <1>10. GetterWaits'
    <2> SUFFICES ASSUME NEW r \in Radios, getter'[r] # NoTask
                 PROVE  /\ radioOf[getter'[r]] = r /\ pc'[getter'[r]] \in {"probe", "get"}
                        /\ rx_queue'[r] = <<>>
      BY DEF GetterWaits
    <2>1. r # q /\ getter'[r] = getter[r] /\ rx_queue'[r] = rx_queue[r] /\ getter[r] \in Tasks
      BY <1>0, <1>3, <1>6 DEF RadioTyped
    <2>2. radioOf[getter[r]] = r /\ pc[getter[r]] \in {"probe", "get"} /\ rx_queue[r] = <<>>
      BY <2>1 DEF RadioInv, GetterWaits
    <2>3. getter[r] # t
      BY <2>2, <1>2
    <2> QED BY <2>1, <2>2, <2>3, <1>6
  <1>11. IdleWaitersWait'
    <2>1. \A r \in Radios : \A u \in idle_waiters[r] : u \in Tasks /\ u # t
      BY <1>0, <1>2 DEF RadioInv, RadioTyped, IdleWaitersWait
    <2> QED BY <1>1, <1>6, <2>1 DEF RadioInv, IdleWaitersWait
  <1>12. \A u \in Tasks : LateCounted(u)'
    <2>1. LateCounted(t)'
      <3> DEFINE n == Cardinality(Radios)
                 m == Cardinality(receivers[t])
      <3>1. m \in Nat /\ n \in Nat /\ late[t] \in Nat
        BY <1>0, CountingRadios DEF RadioTyped
      <3>2. late[t] + m < n
        BY <1>2 DEF RadioInv, LateCounted
      <3>3. late[t] + 1 + m <= n
        BY <3>1, <3>2
      <3> QED BY <1>1, <1>6, <3>2, <3>3 DEF LateCounted, OnAir
    <2>2. ASSUME NEW u \in Tasks \ {t} PROVE LateCounted(u)'
      <3>1. /\ pc'[u] = pc[u] /\ receivers'[u] = receivers[u] /\ late'[u] = late[u]
            /\ pc[u] = "putting" => left'[u] = left[u]
        BY <1>1, <1>6
      <3> QED BY <3>1 DEF RadioInv, LateCounted, OnAir
    <2> QED BY <2>1, <2>2
  <1>13. EndsInTime'
    BY <1>1 DEF RadioInv, EndsInTime
  <1>14. \A r \in Radios : /\ InTransit(r)' \subseteq InTransit(r)
                           /\ r # q => InTransit(r)' = InTransit(r)
    BY <1>0, <1>1, <1>7, TransitIsCarried DEF RadioTyped
  <1>15. TransitIsOnAir'
    <2> SUFFICES ASSUME NEW r \in Radios, NEW p \in InTransit(r)'
                 PROVE  (\E u \in Tasks : OnAir(u) /\ packet[u] = p /\ r \in receivers[u])'
      BY DEF TransitIsOnAir
    <2>1. PICK u \in Tasks : OnAir(u) /\ packet[u] = p /\ r \in receivers[u]
      BY <1>14 DEF RadioInv, TransitIsOnAir
    <2> QED BY <2>1, <1>1, <1>6 DEF OnAir
  <1>16. IdleWaiterHasAPacket'
    <2> SUFFICES ASSUME NEW r \in Radios, NEW x \in idle_waiters'[r], InTransit(r)' = {}
                 PROVE  \E u \in Tasks : pc'[u] \in {"delivered", "putting"}
                                         /\ r = Min(receivers'[u])
      BY DEF IdleWaiterHasAPacket
    <2>1. CASE r = q
      BY <2>1, <1>1, <1>2, <1>6
    <2>2. CASE r # q
      <3>1. PICK u \in Tasks : pc[u] \in {"delivered", "putting"} /\ r = Min(receivers[u])
        BY <2>2, <1>1, <1>14 DEF RadioInv, IdleWaiterHasAPacket
      <3>2. u # t
        BY <3>1, <1>2
      <3> QED BY <3>1, <3>2, <1>1, <1>6
    <2> QED BY <2>1, <2>2
  <1> QED BY <1>8, <1>9, <1>10, <1>11, <1>12, <1>13, <1>15, <1>16 DEF RadioInv

\* transmit_data_blocking records the end when every receiver has been told
LEMMA DoneKeeps == ASSUME RadioInv, NEW t \in Tasks, TransmitDone(t) PROVE RadioInv'
  <1> DEFINE r == radioOf[t]
  <1>0. RadioTyped /\ r \in Radios
    BY ClientsAssumption DEF RadioInv
  <1>1. /\ pc[t] = "ending" /\ receivers[t] = {}
        /\ tx_end_time' = [tx_end_time EXCEPT ![r] = late[t]]
        /\ packet' = [packet EXCEPT ![t] = 0] /\ late' = [late EXCEPT ![t] = 0]
        /\ rx_chains' = rx_chains /\ rx_queue' = rx_queue /\ getter' = getter
        /\ idle_waiters' = idle_waiters /\ receivers' = receivers /\ sent' = sent
    BY DEF TransmitDone, queueVars
  <1>2. OthersStay(t) /\ pc'[t] \in {"client", "standby"} /\ ~Receiving(t)'
    <2>1. Return(t) \/ WakesUp(t, "standby")
      BY DEF TransmitDone, LeavesTX
    <2>2. CASE Return(t)
      BY <2>2, <1>0, Suspension DEF Return, PCs, Receiving
    <2>3. CASE WakesUp(t, "standby")
      <3>1. OthersStay(t) /\ pc'[t] = "standby" /\ call'[t] = "standby"
        BY <2>3, <1>0, Suspension, SleepTimes DEF WakesUp, PCs, CallNames
      <3> QED BY <3>1 DEF Receiving
    <2> QED BY <2>1, <2>2, <2>3
  <1>3. /\ late'[t] = 0 /\ \A u \in Tasks \ {t} : late'[u] = late[u] /\ packet'[u] = packet[u]
        /\ \A u \in Tasks \ {t} : pc'[u] = pc[u] /\ left'[u] = left[u]
    BY <1>0, <1>1, <1>2 DEF RadioTyped, OthersStay
  <1>4. late[t] < Cardinality(Radios) /\ late[t] \in Nat
    <2>1. late[t] + Cardinality({}) < Cardinality(Radios) /\ late[t] \in Nat
      BY <1>0, <1>1 DEF RadioInv, RadioTyped, LateCounted
    <2> QED BY <2>1, CountingRadios
  <1>5. RadioTyped'
    BY <1>0, <1>1, <1>2, <1>4 DEF RadioTyped, OthersStay
  <1>6. OneReceiver' /\ GetterWaits'
    <2>1. \A q \in Radios : getter[q] # t
      BY <1>1, NoGetter
    <2>2. UNCHANGED queueVars
      BY DEF TransmitDone
    <2> QED BY <1>2, <2>1, <2>2, GettersStay
  <1>7. IdleWaitersWait'
    <2>1. \A q \in Radios : \A u \in idle_waiters[q] : u \in Tasks /\ u # t
      BY <1>0, <1>1 DEF RadioInv, RadioTyped, IdleWaitersWait
    <2> QED BY <1>1, <1>3, <2>1 DEF RadioInv, IdleWaitersWait
  <1>8. \A u \in Tasks : LateCounted(u)'
    <2>1. LateCounted(t)'
      BY <1>1, <1>2, <1>3 DEF LateCounted, OnAir
    <2>2. \A u \in Tasks \ {t} : LateCounted(u)'
      BY <1>1, <1>3 DEF RadioInv, LateCounted, OnAir
    <2> QED BY <2>1, <2>2
  <1>9. EndsInTime'
    BY <1>0, <1>1, <1>4 DEF RadioInv, RadioTyped, EndsInTime
  <1>10. \A q \in Radios : InTransit(q)' = InTransit(q)
    BY <1>1, TransitIsCarried
  <1>11. TransitIsOnAir'
    <2> SUFFICES ASSUME NEW q \in Radios, NEW p \in InTransit(q)'
                 PROVE  (\E u \in Tasks : OnAir(u) /\ packet[u] = p /\ q \in receivers[u])'
      BY DEF TransitIsOnAir
    <2>1. PICK u \in Tasks : OnAir(u) /\ packet[u] = p /\ q \in receivers[u]
      BY <1>10 DEF RadioInv, TransitIsOnAir
    <2>2. u # t
      BY <2>1, <1>1
    <2> QED BY <2>1, <2>2, <1>1, <1>3 DEF OnAir
  <1>12. IdleWaiterHasAPacket'
    <2> SUFFICES ASSUME NEW q \in Radios, NEW x \in idle_waiters'[q], InTransit(q) = {}
                 PROVE  \E u \in Tasks : pc'[u] \in {"delivered", "putting"}
                                         /\ q = Min(receivers'[u])
      BY <1>10 DEF IdleWaiterHasAPacket
    <2>1. PICK u \in Tasks : pc[u] \in {"delivered", "putting"} /\ q = Min(receivers[u])
      BY <1>1 DEF RadioInv, IdleWaiterHasAPacket
    <2>2. u # t
      BY <2>1, <1>1
    <2> QED BY <2>1, <2>2, <1>1, <1>3
  <1> QED BY <1>5, <1>6, <1>7, <1>8, <1>9, <1>11, <1>12 DEF RadioInv

-----------------------------------------------------------------------------
(* The clock, and the theorems.                                            *)

\* A tick is what a put in progress waits for
LEMMA TickKeeps == ASSUME RadioInv, Tick PROVE RadioInv'
  <1>0. RadioTyped
    BY DEF RadioInv
  <1>1. /\ rx_chains' = rx_chains /\ rx_queue' = rx_queue /\ getter' = getter
        /\ idle_waiters' = idle_waiters /\ pc' = pc /\ call' = call /\ packet' = packet
        /\ receivers' = receivers /\ sent' = sent /\ tx_end_time' = tx_end_time
    BY DEF Tick, queueVars
  <1>2. /\ \A t \in Tasks : pc[t] = "client" \/ left[t] # 0
        /\ left' = [t \in Tasks |-> IF left[t] > 0 THEN left[t] - 1 ELSE left[t]]
        /\ late' = [t \in Tasks |-> IF pc[t] = "putting" THEN late[t] + 1 ELSE late[t]]
    BY DEF Tick
  <1>3. left' \in [Tasks -> Nat \cup {Forever}] /\ late' \in [Tasks -> Nat]
    <2>1. ASSUME NEW t \in Tasks
          PROVE  (IF left[t] > 0 THEN left[t] - 1 ELSE left[t]) \in Nat \cup {Forever}
      <3>1. left[t] \in Nat \cup {Forever}
        BY <1>0 DEF RadioTyped
      <3> QED BY <3>1 DEF Forever
    <2>2. ASSUME NEW t \in Tasks
          PROVE  (IF pc[t] = "putting" THEN late[t] + 1 ELSE late[t]) \in Nat
      <3>1. late[t] \in Nat
        BY <1>0 DEF RadioTyped
      <3> QED BY <3>1
    <2> QED BY <2>1, <2>2, <1>2
  <1>4. RadioTyped'
    BY <1>0, <1>1, <1>3 DEF RadioTyped
  <1>5. OneReceiver' /\ GetterWaits' /\ IdleWaitersWait' /\ EndsInTime'
    BY <1>1 DEF RadioInv, OneReceiver, Receiving, GetterWaits, IdleWaitersWait, EndsInTime
  <1>6. ASSUME NEW t \in Tasks PROVE LateCounted(t)'
    <2>1. LateCounted(t)
      BY DEF RadioInv
    <2>2. CASE pc[t] # "putting"
      BY <2>1, <2>2, <1>1, <1>2 DEF LateCounted, OnAir
    <2>3. CASE pc[t] = "putting"
      <3> DEFINE n == Cardinality(Radios)
                 m == Cardinality(receivers[t])
      <3>1. m \in Nat /\ n \in Nat /\ late[t] \in Nat
        BY <1>0, CountingRadios DEF RadioTyped
      <3>2. left[t] = 1 /\ late[t] + left[t] + m <= n /\ receivers[t] # {}
        BY <2>1, <2>3, <1>2 DEF LateCounted
      <3>3. left'[t] = 0 /\ late'[t] = late[t] + 1
        BY <3>2, <2>3, <1>2
      <3>4. late'[t] + left'[t] + m <= n
        BY <3>1, <3>2, <3>3
      <3> QED BY <2>3, <3>2, <3>3, <3>4, <1>1 DEF LateCounted, OnAir
    <2> QED BY <2>2, <2>3
  <1>7. TransitIsOnAir' /\ IdleWaiterHasAPacket'
    BY <1>1 DEF RadioInv, TransitIsOnAir, IdleWaiterHasAPacket, InTransit, Transit, OnAir
  <1> QED BY <1>4, <1>5, <1>6, <1>7 DEF RadioInv

\* The first state satisfies the invariant; the number of radios matters only where there is one
LEMMA RadioInvInit == Init => RadioInv
  <1> SUFFICES ASSUME Init PROVE RadioInv
    OBVIOUS
  <1>1. IsChainList(<<NewChain(DefaultConfig)>>) /\ Carried(<<NewChain(DefaultConfig)>>) = {}
    <2> DEFINE k == NewChain(DefaultConfig)
               s == <<k>>
    <2>1. IsChain(k) /\ DOMAIN k.packets_in_transit = {}
      BY ChainConfigurations
    <2> HIDE DEF k
    <2>2. DOMAIN s = 1 .. 1 /\ s[1] = k /\ s = [i \in 1 .. 1 |-> s[i]]
      OBVIOUS
    <2> HIDE DEF s
    <2>3. \A c \in DOMAIN s : c = 1
      BY <2>2
    <2>4. IsChainList(s)
      BY <2>1, <2>2, <2>3 DEF IsChainList
    <2>5. Carried(s) = {}
      BY <2>1, <2>2, <2>3 DEF Carried
    <2> QED BY <2>4, <2>5 DEF s, k
  <1>2. RadioTyped
    BY <1>1 DEF Init, RadioTyped, PCs, Forever
  <1>3. OneReceiver /\ GetterWaits /\ IdleWaitersWait
    BY DEF Init, OneReceiver, Receiving, GetterWaits, IdleWaitersWait
  <1>4. \A t \in Tasks : LateCounted(t)
    BY DEF Init, LateCounted, OnAir
  <1>5. EndsInTime
    <2> SUFFICES ASSUME NEW r \in Radios PROVE 0 < Cardinality(Radios)
      BY DEF Init, EndsInTime
    <2>1. {} \in SUBSET (Radios \ {r})
      OBVIOUS
    <2>2. Cardinality({}) < Cardinality(Radios) /\ Cardinality({}) = 0
      BY <2>1, CountingRadios
    <2> QED BY <2>2
  <1>6. TransitIsOnAir /\ IdleWaiterHasAPacket
    <2>1. \A r \in Radios : InTransit(r) = {} /\ idle_waiters[r] = {}
      BY <1>1, TransitIsCarried DEF Init
    <2> QED BY <2>1 DEF TransitIsOnAir, IdleWaiterHasAPacket
  <1> QED BY <1>2, <1>3, <1>4, <1>5, <1>6 DEF RadioInv

\* Every step preserves the invariant
LEMMA RadioInvNext == RadioInv /\ [Next]_vars => RadioInv'
  <1> SUFFICES ASSUME RadioInv, [Next]_vars PROVE RadioInv'
    OBVIOUS
  <1>1. ASSUME NEW t \in Tasks, ClientCall(t) PROVE RadioInv'
    <2>1. CASE \/ Standby(t) \/ Off(t) \/ Receive(t) \/ CarrierSense(t)
      BY <2>1, WanderingSteps, AshoreKeeps
    <2>2. CASE WaitForChannelIdle(t)
      BY <2>2, IdleWaits, AshoreKeeps
    <2>3. CASE ReceiveData(t)
      BY <2>3, ReceiveDataStep, AshoreKeeps
    <2>4. CASE FlushRxQueue(t)
      BY <2>4, FlushStep, AshoreKeeps
    <2>5. CASE Transmit(t)
      BY <2>5, TransmitKeeps
    <2>6. CASE \/ SetTxConfig(t) \/ SetRxConfig(t) \/ SetChannel(t) \/ SetRxChainConfig(t)
               \/ EnableRxChain(t) \/ AddRxChain(t) \/ SetChannelPlan(t)
      BY <2>6, AloftSteps
    <2> QED BY <1>1, <2>1, <2>2, <2>3, <2>4, <2>5, <2>6 DEF ClientCall
  <1>2. ASSUME NEW t \in Tasks, Resumption(t) PROVE RadioInv'
    <2>1. CASE \/ StandbyDone(t) \/ ReceiveAfterStandby(t) \/ SenseAfterStandby(t)
               \/ SenseDone(t) \/ ProcessDone(t)
      BY <2>1, WanderingSteps, AshoreKeeps
    <2>2. CASE IdleNoticed(t)
      BY <2>2, IdleWaits, AshoreKeeps
    <2>3. CASE ProbeMiss(t)
      BY <2>3, ProbeMissStep, AshoreKeeps
    <2>4. CASE TurnOnAfterStandby(t) \/ SettleDone(t)
      BY <2>4, SecondWaits, AshoreKeeps
    <2>5. CASE GetHit(t) \/ GetMiss(t)
      BY <2>5, GetSteps, AshoreKeeps
    <2>6. CASE GetCrashes(t)
      BY <2>6, CrashStep, AshoreKeeps
    <2>7. CASE TransmitAfterStandby(t)
      BY <2>7, TransmitKeeps
    <2>8. CASE PreambleDone(t) \/ PayloadDone(t)
      BY <2>8, AloftSteps
    <2>9. CASE ReceiveEndLost(t) \/ ReceiveEndRest(t)
      BY <2>9, ReceiveEndKeeps
    <2>10. CASE ReceiveEndPut(t)
      BY <2>10, PutKeeps
    <2>11. CASE TransmitDone(t)
      BY <2>11, DoneKeeps
    <2> QED
      BY <1>2, <2>1, <2>2, <2>3, <2>4, <2>5, <2>6, <2>7, <2>8, <2>9, <2>10, <2>11 DEF Resumption
  <1>3. CASE Tick
    BY <1>3, TickKeeps
  <1>4. CASE UNCHANGED vars
    <2>1. /\ rx_chains' = rx_chains /\ rx_queue' = rx_queue /\ getter' = getter
          /\ idle_waiters' = idle_waiters /\ pc' = pc /\ call' = call /\ left' = left
          /\ packet' = packet /\ receivers' = receivers /\ late' = late /\ sent' = sent
          /\ tx_end_time' = tx_end_time
      BY <1>4 DEF vars, queueVars, airVars
    <2>2. RadioTyped'
      BY <2>1 DEF RadioInv, RadioTyped
    <2>3. OneReceiver' /\ GetterWaits' /\ IdleWaitersWait' /\ EndsInTime'
      BY <2>1 DEF RadioInv, OneReceiver, Receiving, GetterWaits, IdleWaitersWait, EndsInTime
    <2>4. \A t \in Tasks : LateCounted(t)'
      BY <2>1 DEF RadioInv, LateCounted, OnAir
    <2>5. TransitIsOnAir' /\ IdleWaiterHasAPacket'
      BY <2>1 DEF RadioInv, TransitIsOnAir, IdleWaiterHasAPacket, InTransit, Transit, OnAir
    <2> QED BY <2>2, <2>3, <2>4, <2>5 DEF RadioInv
  <1> QED
    BY <1>1, <1>2, <1>3, <1>4 DEF Next, SpinsForever, Exited

\* The invariant holds throughout
THEOREM RadioInvariant == Spec => []RadioInv
  BY RadioInvInit, RadioInvNext, PTL DEF Spec

\* A packet in a chain's packets_in_transit is on the air, and its transmission will still come
\* to that radio to take it out (radio.py, _on_receive_end and the configuration calls).
THEOREM NoPacketIsLeftBehind == Spec => []TransitIsOnAir
  <1>1. RadioInv => TransitIsOnAir
    BY DEF RadioInv
  <1> QED BY <1>1, RadioInvariant, PTL

\* Every task in wait_for_channel_idle has a packet, or a delivery in progress, that will wake it
\* up (radio.py, wait_for_channel_idle and the end of _on_receive_end).
THEOREM IdleWaitersAreRemembered == Spec => []IdleWaiterHasAPacket
  <1>1. RadioInv => IdleWaiterHasAPacket
    BY DEF RadioInv
  <1> QED BY <1>1, RadioInvariant, PTL

\* The notification of the end of a packet takes a tick per receiver at most, and _tx_end_time is
\* no later than that (phy_layer.py, transmit_packet_blocking; queue.py, put).
THEOREM EndsAreCounted == Spec => []EndTakesATickPerReceiver
  <1>1. RadioInv => EndTakesATickPerReceiver
    <2> SUFFICES ASSUME RadioInv, NEW t \in Tasks
                 PROVE  late[t] + Cardinality(receivers[t]) <= Cardinality(Radios)
      BY DEF EndTakesATickPerReceiver, RadioInv, EndsInTime
    <2> DEFINE n == Cardinality(Radios)
               m == Cardinality(receivers[t])
    <2>1. /\ m \in Nat /\ n \in Nat /\ late[t] \in Nat /\ LateCounted(t) /\ Cardinality({}) = 0
          /\ pc[t] \in PCs
      BY CountingRadios DEF RadioInv, RadioTyped
    <2>2. CASE ~OnAir(t)
      <3>1. late[t] = 0 /\ m = 0
        BY <2>1, <2>2 DEF LateCounted
      <3> QED BY <2>1, <3>1
    <2>3. CASE OnAir(t) /\ pc[t] # "putting"
      <3>1. late[t] + m < n
        BY <2>1, <2>3 DEF LateCounted, OnAir
      <3> QED BY <2>1, <3>1
    <2>4. CASE pc[t] = "putting"
      <3>1. left[t] \in {0, 1} /\ late[t] + left[t] + m <= n
        BY <2>1, <2>4 DEF LateCounted
      <3> QED BY <2>1, <3>1
    <2> QED BY <2>2, <2>3, <2>4
  <1> QED BY <1>1, RadioInvariant, PTL

-----------------------------------------------------------------------------
(* With one task per radio nothing disturbs a transmission.                *)

OneTaskPerRadio == \A t, u \in Tasks : radioOf[t] = radioOf[u] => t = u

\* The inductive invariant
StaysInv ==
    /\ radio_state \in [Radios -> States]
    /\ pc \in [Tasks -> PCs]
    /\ TransmissionStaysInTX

\* What every step does: a task enters the air with its radio in TX, and no other task takes the
\* radio of a transmission out of TX
Undisturbed(t) ==
    /\ radio_state' \in [Radios -> States]
    /\ pc' \in [Tasks -> PCs]
    /\ \A u \in Tasks \ {t} : pc'[u] = pc[u]
    /\ \A r \in Radios : radio_state[r] = "TX" /\ r # radioOf[t] => radio_state'[r] = "TX"
    /\ OnAir(t)' => radio_state'[radioOf[t]] = "TX"

\* Such a step preserves the invariant
LEMMA UndisturbedKeeps ==
    ASSUME OneTaskPerRadio, StaysInv, NEW t \in Tasks, Undisturbed(t) PROVE StaysInv'
  <1> SUFFICES ASSUME NEW u \in Tasks, OnAir(u)' PROVE radio_state'[radioOf[u]] = "TX"
    BY DEF StaysInv, Undisturbed, TransmissionStaysInTX
  <1>1. CASE u = t
    BY <1>1 DEF Undisturbed
  <1>2. CASE u # t
    <2>1. radioOf[u] \in Radios /\ radioOf[u] # radioOf[t]
      BY <1>2, ClientsAssumption DEF OneTaskPerRadio
    <2>2. OnAir(u)
      BY <1>2 DEF Undisturbed, OnAir
    <2> QED BY <2>1, <2>2 DEF StaysInv, TransmissionStaysInTX, Undisturbed
  <1> QED BY <1>1, <1>2

\* Calls and resumptions of a task that has nothing on the air, before or after
LEMMA UndisturbedAshore ==
    ASSUME TXInv, StaysInv, NEW t \in Tasks,
           \/ Standby(t) \/ Off(t) \/ Receive(t) \/ CarrierSense(t) \/ WaitForChannelIdle(t)
           \/ ReceiveData(t) \/ FlushRxQueue(t) \/ SetTxConfig(t) \/ SetRxConfig(t)
           \/ SetChannel(t) \/ SetRxChainConfig(t) \/ EnableRxChain(t) \/ AddRxChain(t)
           \/ SetChannelPlan(t)
           \/ StandbyDone(t) \/ ReceiveAfterStandby(t) \/ SenseAfterStandby(t) \/ SenseDone(t)
           \/ IdleNoticed(t) \/ ProbeMiss(t) \/ TurnOnAfterStandby(t) \/ SettleDone(t)
           \/ GetHit(t) \/ GetMiss(t) \/ GetCrashes(t) \/ ProcessDone(t)
    PROVE  Undisturbed(t)
  <1> USE ClientsAssumption DEF TXInv, StaysInv, Undisturbed, OnAir, States, PCs, radioVars
  <1>1. CASE Standby(t)
    BY <1>1 DEF Standby, Enters, WakesUp, SetState, Suspend
  <1>2. CASE Off(t)
    BY <1>2 DEF Off, Enters, SetState
  <1>3. CASE Receive(t)
    BY <1>3 DEF Receive, Enters, Listens, WakesUp, SetState, Suspend, Return
  <1>4. CASE CarrierSense(t)
    BY <1>4 DEF CarrierSense, Enters, Senses, WakesUp, SetState, Suspend, Return
  <1>5. CASE WaitForChannelIdle(t)
    BY <1>5 DEF WaitForChannelIdle, Enters, WaitsForIdle, Suspend, Return
  <1>6. CASE ReceiveData(t)
    BY <1>6 DEF ReceiveData, Enters, Gets, Processes, Suspend, Return
  <1>7. CASE FlushRxQueue(t)
    BY <1>7 DEF FlushRxQueue, Enters
  <1>8. CASE SetTxConfig(t) \/ SetRxConfig(t) \/ SetChannel(t) \/ SetRxChainConfig(t)
    BY <1>8 DEF SetTxConfig, SetRxConfig, SetChannel, SetRxChainConfig, ConfigOnly, Enters
  <1>9. CASE EnableRxChain(t) \/ AddRxChain(t) \/ SetChannelPlan(t)
    BY <1>9 DEF EnableRxChain, AddRxChain, SetChannelPlan, ConfigOnly, Enters
  <1>10. CASE StandbyDone(t)
    BY <1>10 DEF StandbyDone, Resumes, Suspend, Return
  <1>11. CASE ReceiveAfterStandby(t)
    BY <1>11 DEF ReceiveAfterStandby, Resumes, Listens, SetState, Suspend, Return
  <1>12. CASE SenseAfterStandby(t)
    BY <1>12 DEF SenseAfterStandby, Resumes, Senses, SetState, Suspend, Return
  <1>13. CASE SenseDone(t)
    BY <1>13 DEF SenseDone, Resumes, SetState, Suspend, Return
  <1>14. CASE IdleNoticed(t)
    BY <1>14 DEF IdleNoticed, Resumes, WaitsForIdle, Suspend, Return
  <1>15. CASE ProbeMiss(t)
    BY <1>15
    DEF ProbeMiss, Resumes, TimesOut, TurnsOn, WakesUp, Gets, Processes, SetState, Suspend, Return
  <1>16. CASE TurnOnAfterStandby(t)
    BY <1>16 DEF TurnOnAfterStandby, Resumes, TurnsOn, Gets, Processes, SetState, Suspend, Return
  <1>17. CASE SettleDone(t)
    BY <1>17 DEF SettleDone, Resumes, Gets, Processes, Suspend, Return
  <1>18. CASE GetHit(t)
    BY <1>18 DEF GetHit, Resumes, Processes, Suspend, Return
  <1>19. CASE GetMiss(t)
    BY <1>19 DEF GetMiss, Resumes, TimesOut, Suspend, Return
  <1>20. CASE GetCrashes(t)
    BY <1>20 DEF GetCrashes, Resumes, Suspend
  <1>21. CASE ProcessDone(t)
    BY <1>21 DEF ProcessDone, Resumes, Suspend, Return
  <1> QED BY <1>1, <1>2, <1>3, <1>4, <1>5, <1>6, <1>7, <1>8, <1>9, <1>10, <1>11, <1>12,
             <1>13, <1>14, <1>15, <1>16, <1>17, <1>18, <1>19, <1>20, <1>21

\* The steps of a transmission
LEMMA UndisturbedTransmission ==
    ASSUME TXInv, StaysInv, NEW t \in Tasks,
           \/ Transmit(t) \/ TransmitAfterStandby(t) \/ PreambleDone(t) \/ PayloadDone(t)
           \/ ReceiveEndLost(t) \/ ReceiveEndPut(t) \/ ReceiveEndRest(t) \/ TransmitDone(t)
    PROVE  Undisturbed(t)
  <1> DEFINE r == radioOf[t]
  <1>0. r \in Radios
    BY ClientsAssumption
  <1>a. ASSUME NEW own, StartsTransmission(t, own) PROVE Undisturbed(t)
    <2>1. /\ radio_state' = [radio_state EXCEPT ![r] = "TX"]
          /\ pc' = [pc EXCEPT ![t] = "preamble"]
      BY <1>a DEF StartsTransmission, SetState, Suspend
    <2> QED BY <2>1, <1>0 DEF StaysInv, Undisturbed, States, PCs
  <1>1. CASE Transmit(t)
    <2>1. CASE WakesUp(t, "transmit")
      <3>1. /\ radio_state' = [radio_state EXCEPT ![r] = "STANDBY"]
            /\ pc' = [pc EXCEPT ![t] = "standby"]
        BY <2>1 DEF WakesUp, SetState, Suspend
      <3> QED BY <3>1, <1>0 DEF StaysInv, Undisturbed, OnAir, States, PCs
    <2>2. CASE StartsTransmission(t, AllInterrupted(rx_chains[r]))
      BY <2>2, <1>a
    <2>3. CASE StartsTransmission(t, rx_chains[r])
      BY <2>3, <1>a
    <2> QED BY <1>1, <2>1, <2>2, <2>3 DEF Transmit
  <1>2. CASE TransmitAfterStandby(t)
    BY <1>2, <1>a DEF TransmitAfterStandby
  <1>b. ASSUME OnAir(t), UNCHANGED radio_state, NEW phase \in PCs, pc' = [pc EXCEPT ![t] = phase]
        PROVE  Undisturbed(t)
    BY <1>0, <1>b DEF StaysInv, TransmissionStaysInTX, Undisturbed
  <1>3. CASE PreambleDone(t)
    <2>1. OnAir(t) /\ UNCHANGED radio_state /\ pc' = [pc EXCEPT ![t] = "payload"]
      BY <1>3 DEF PreambleDone, Resumes, Suspend, OnAir, radioVars
    <2> QED BY <2>1, <1>b DEF PCs
  <1>4. CASE PayloadDone(t)
    <2>1. OnAir(t) /\ UNCHANGED radio_state /\ pc' = [pc EXCEPT ![t] = "ending"]
      BY <1>4 DEF PayloadDone, Resumes, OnAir, radioVars
    <2> QED BY <2>1, <1>b DEF PCs
  <1>5. CASE ReceiveEndLost(t)
    <2>1. OnAir(t) /\ UNCHANGED radio_state /\ pc' = [pc EXCEPT ![t] = "ending"]
      BY <1>5 DEF ReceiveEndLost, AtReceiver, LeavesReceiver, Leaves, OnAir, radioVars
    <2> QED BY <2>1, <1>b DEF PCs
  <1>6. CASE ReceiveEndPut(t)
    <2>1. /\ OnAir(t) /\ UNCHANGED radio_state
          /\ \E phase \in {"delivered", "putting"} : pc' = [pc EXCEPT ![t] = phase]
      BY <1>6 DEF ReceiveEndPut, AtReceiver, put, PutDone, OnAir, radioVars
    <2> QED BY <2>1, <1>b DEF PCs
  <1>7. CASE ReceiveEndRest(t)
    <2> DEFINE q == Min(receivers[t])
    <2>1. OnAir(t) /\ pc' = [pc EXCEPT ![t] = "ending"]
      BY <1>7 DEF ReceiveEndRest, Resumes, LeavesReceiver, Leaves, OnAir
    <2>2. \/ UNCHANGED radio_state
          \/ radio_state[q] = "RX" /\ radio_state' = [radio_state EXCEPT ![q] = "OFF"]
      BY <1>7 DEF ReceiveEndRest, SingleShotOver, SetState, radioVars
    <2>3. CASE UNCHANGED radio_state
      BY <2>1, <2>3, <1>b DEF PCs
    <2>4. CASE radio_state[q] = "RX" /\ radio_state' = [radio_state EXCEPT ![q] = "OFF"]
      <3> HIDE DEF q
      <3>1. radio_state[r] = "TX"
        BY <2>1 DEF StaysInv, TransmissionStaysInTX
      <3>2. \A x \in Radios : radio_state[x] = "TX" => radio_state'[x] = "TX"
        BY <2>4 DEF StaysInv
      <3>3. radio_state' \in [Radios -> States]
        BY <2>4 DEF StaysInv, States
      <3> QED BY <1>0, <2>1, <3>1, <3>2, <3>3 DEF StaysInv, Undisturbed, PCs
    <2> QED BY <2>2, <2>3, <2>4
  <1>8. CASE TransmitDone(t)
    <2>1. /\ radio_state' \in [Radios -> States]
          /\ \A x \in Radios \ {r} : radio_state'[x] = radio_state[x]
      BY <1>0, <1>8 DEF TransmitDone, LeavesTX, WakesUp, SetState, radioVars, StaysInv, States
    <2>2. /\ pc' \in [Tasks -> PCs] /\ pc'[t] \in {"client", "standby"}
          /\ \A u \in Tasks \ {t} : pc'[u] = pc[u]
      BY <1>8 DEF TransmitDone, LeavesTX, WakesUp, Return, Suspend, StaysInv, PCs
    <2> QED BY <2>1, <2>2 DEF Undisturbed, OnAir
  <1> QED BY <1>1, <1>2, <1>3, <1>4, <1>5, <1>6, <1>7, <1>8

\* With one task per radio, a radio stays in TX from the start of its packet until the last
\* receiver has been told, whatever the transmissions of others do to it (radio.py,
\* _on_receive_end and transmit_data_blocking).
THEOREM TransmissionsAreUndisturbed ==
    ASSUME OneTaskPerRadio PROVE Spec => []TransmissionStaysInTX
  <1>1. Init => TXInv /\ StaysInv
    <2> SUFFICES ASSUME Init PROVE StaysInv
      BY TXInvInit
    <2> QED BY DEF Init, StaysInv, TransmissionStaysInTX, OnAir, States, PCs
  <1>2. TXInv /\ StaysInv /\ [Next]_vars => (TXInv /\ StaysInv)'
    <2> SUFFICES ASSUME TXInv, StaysInv, [Next]_vars PROVE StaysInv'
      BY TXInvNext
    <2>1. ASSUME NEW t \in Tasks, ClientCall(t) \/ Resumption(t) PROVE StaysInv'
      <3>1. Undisturbed(t)
        BY <2>1, UndisturbedAshore, UndisturbedTransmission DEF ClientCall, Resumption
      <3> QED BY <3>1, UndisturbedKeeps
    <2>2. CASE UNCHANGED <<radio_state, pc>>
      BY <2>2 DEF StaysInv, TransmissionStaysInTX, OnAir
    <2>3. CASE Tick
      BY <2>2, <2>3 DEF Tick, radioVars
    <2>4. CASE UNCHANGED vars
      BY <2>2, <2>4 DEF vars, radioVars
    <2> QED BY <2>1, <2>3, <2>4 DEF Next, SpinsForever, Exited
  <1>3. TXInv /\ StaysInv => TransmissionStaysInTX
    BY DEF StaysInv
  <1> QED BY <1>1, <1>2, <1>3, PTL DEF Spec

-----------------------------------------------------------------------------
(* What an observer remembers of the receptions.                           *)

\* The places where t still has to deliver its packet
Open(t) == IF pc[t] \in {"delivered", "putting"} THEN receivers[t] \ {Min(receivers[t])}
           ELSE receivers[t]

IsSequence(s) == \E S : s \in Seq(S)

\* Packets are numbered in the order of their transmission
Numbered ==
    /\ \A t \in Tasks : packet[t] <= sent
    /\ \A t, u \in Tasks : OnAir(t) /\ OnAir(u) /\ packet[t] = packet[u] => t = u

\* What a radio has received was sent, and has not still to be delivered
ReceivedOnce ==
    /\ \A r \in Radios : /\ IsSequence(rx_queue[r])
                         /\ \A p \in received[r] : p \in Nat /\ p <= sent
                         /\ \A i \in DOMAIN rx_queue[r] : rx_queue[r][i].packet \in received[r]
    /\ \A t \in Tasks : OnAir(t) => \A r \in Open(t) : packet[t] \notin received[r]

\* A chain that is switched off has lost every reception
SoundChain(k) ==
    \A p \in DOMAIN k.packets_in_transit :
        /\ "interrupted" \in DOMAIN k.packets_in_transit[p]
        /\ ~k.enabled => k.packets_in_transit[p].interrupted
SoundChains == \A r \in Radios : \A c \in DOMAIN rx_chains[r] : SoundChain(rx_chains[r][c])

\* A spoiled reception is one that the radio knows to be interrupted
SpoiledAreLost ==
    \A f \in spoiled :
        /\ f[1] \in Radios /\ f[2] \in DOMAIN rx_chains[f[1]]
        /\ f[3] \in DOMAIN Transit(f[1], f[2])
        /\ Transit(f[1], f[2])[f[3]].interrupted

HistoryInv == RadioInv /\ Numbered /\ ReceivedOnce /\ SoundChains /\ SpoiledAreLost

-----------------------------------------------------------------------------
(* What the steps do to a reception.                                       *)

\* Chain j is what has become of chain k: a reception that was interrupted still is, and so is
\* every one of a chain that was retuned or is switched off
Follows(k, j) ==
    /\ SoundChain(j)
    /\ \A p \in DOMAIN j.packets_in_transit :
         /\ p \in DOMAIN k.packets_in_transit =>
                (k.packets_in_transit[p].interrupted \/ j.config # k.config
                    => j.packets_in_transit[p].interrupted)
         /\ p \notin DOMAIN k.packets_in_transit => j.config = k.config

\* Nothing happens to a chain
LEMMA SameFollows == ASSUME NEW k, SoundChain(k) PROVE Follows(k, k)
  BY DEF Follows

\* Receptions are interrupted, whatever is set besides
LEMMA InterruptedFollows ==
    ASSUME NEW k, IsChain(k), SoundChain(k), NEW j, IsChain(j),
           j.packets_in_transit = [p \in DOMAIN k.packets_in_transit |->
                [k.packets_in_transit[p] EXCEPT !.interrupted = TRUE]]
    PROVE  Follows(k, j)
  <1> DEFINE F == k.packets_in_transit
  <1>1. \A p \in DOMAIN F : "interrupted" \in DOMAIN F[p]
    BY DEF SoundChain
  <1> HIDE DEF F
  <1>2. DOMAIN j.packets_in_transit = DOMAIN F
    BY DEF F
  <1>3. \A p \in DOMAIN F : j.packets_in_transit[p] = [F[p] EXCEPT !.interrupted = TRUE]
    BY DEF F
  <1>4. \A p \in DOMAIN F : /\ DOMAIN j.packets_in_transit[p] = DOMAIN F[p]
                            /\ j.packets_in_transit[p].interrupted = TRUE
    BY <1>1, <1>3
  <1> QED BY <1>1, <1>2, <1>4 DEF Follows, SoundChain, F

\* The parts of the chains that the operations give
LEMMA ChainParts ==
    ASSUME NEW k, IsChain(k)
    PROVE  /\ Interrupted(k).packets_in_transit = [p \in DOMAIN k.packets_in_transit |->
                    [k.packets_in_transit[p] EXCEPT !.interrupted = TRUE]]
           /\ \A p : /\ Without(k, p).packets_in_transit =
                            [q \in DOMAIN k.packets_in_transit \ {p} |-> k.packets_in_transit[q]]
                     /\ Without(k, p).config = k.config /\ Without(k, p).enabled = k.enabled
           /\ \A e : [k EXCEPT !.enabled = e].enabled = e /\ [k EXCEPT !.enabled = e].config = k.config
  <1> DEFINE R(a, b, c) == [config |-> a, enabled |-> b, packets_in_transit |-> c]
  <1>1. \A a, b, c : R(a, b, c).packets_in_transit = c /\ R(a, b, c).config = a /\ R(a, b, c).enabled = b
    OBVIOUS
  <1>2. \A x : [k EXCEPT !.packets_in_transit = x] = R(k.config, k.enabled, x)
    BY DEF IsChain
  <1>3. \A x : [k EXCEPT !.enabled = x] = R(k.config, x, k.packets_in_transit)
    BY DEF IsChain
  <1> HIDE DEF R
  <1>4. Interrupted(k).packets_in_transit = [p \in DOMAIN k.packets_in_transit |->
                    [k.packets_in_transit[p] EXCEPT !.interrupted = TRUE]]
    <2> DEFINE x == [p \in DOMAIN k.packets_in_transit |->
                        [k.packets_in_transit[p] EXCEPT !.interrupted = TRUE]]
    <2>1. Interrupted(k) = [k EXCEPT !.packets_in_transit = x]
      BY DEF Interrupted
    <2> HIDE DEF x
    <2>2. Interrupted(k).packets_in_transit = x
      BY <2>1, <1>1, <1>2
    <2> QED BY <2>2 DEF x
  <1>5. \A p : /\ Without(k, p).packets_in_transit =
                            [q \in DOMAIN k.packets_in_transit \ {p} |-> k.packets_in_transit[q]]
               /\ Without(k, p).config = k.config /\ Without(k, p).enabled = k.enabled
    <2> TAKE p
    <2> DEFINE x == [q \in DOMAIN k.packets_in_transit \ {p} |-> k.packets_in_transit[q]]
    <2>1. Without(k, p) = [k EXCEPT !.packets_in_transit = x]
      BY DEF Without
    <2> HIDE DEF x
    <2>2. /\ Without(k, p).packets_in_transit = x
          /\ Without(k, p).config = k.config /\ Without(k, p).enabled = k.enabled
      BY <2>1, <1>1, <1>2
    <2> QED BY <2>2 DEF x
  <1>6. \A e : [k EXCEPT !.enabled = e].enabled = e /\ [k EXCEPT !.enabled = e].config = k.config
    BY <1>1, <1>3
  <1> QED BY <1>4, <1>5, <1>6

\* The configuration calls
LEMMA ConfigFollows ==
    ASSUME NEW k, IsChain(k), SoundChain(k)
    PROVE  /\ Follows(k, Interrupted(k))
           /\ \A f : Follows(k, Retuned(k, f)) /\ Follows(k, [Retuned(k, f) EXCEPT !.enabled = TRUE])
           /\ Follows(k, Enabled(k, TRUE)) /\ Follows(k, Enabled(k, FALSE))
  <1>1. Follows(k, Interrupted(k))
    <2>1. IsChain(Interrupted(k))
      BY ChainOperations
    <2>2. Interrupted(k).packets_in_transit = [p \in DOMAIN k.packets_in_transit |->
                [k.packets_in_transit[p] EXCEPT !.interrupted = TRUE]]
      BY ChainParts
    <2> QED BY <2>1, <2>2, InterruptedFollows
  <1>2. ASSUME NEW f PROVE Follows(k, Retuned(k, f)) /\ Follows(k, [Retuned(k, f) EXCEPT !.enabled = TRUE])
    <2> DEFINE j == [k EXCEPT !.config = f]
               i == Interrupted(j)
    <2>1. IsChain(j) /\ j.packets_in_transit = k.packets_in_transit
      BY ChainOperations
    <2> HIDE DEF j
    <2>2. /\ IsChain(i)
          /\ i.packets_in_transit = [p \in DOMAIN k.packets_in_transit |->
                [k.packets_in_transit[p] EXCEPT !.interrupted = TRUE]]
      BY <2>1, ChainOperations, ChainParts
    <2>3. Retuned(k, f) = i
      BY DEF Retuned, j
    <2> HIDE DEF i
    <2>4. /\ IsChain([i EXCEPT !.enabled = TRUE])
          /\ [i EXCEPT !.enabled = TRUE].packets_in_transit = i.packets_in_transit
      BY <2>2, ChainOperations
    <2>5. Follows(k, i)
      BY <2>2, InterruptedFollows
    <2>6. Follows(k, [i EXCEPT !.enabled = TRUE])
      BY <2>2, <2>4, InterruptedFollows
    <2> QED BY <2>3, <2>5, <2>6
  <1>3. Follows(k, Enabled(k, TRUE))
    <2> DEFINE j == [k EXCEPT !.enabled = TRUE]
    <2>1. Enabled(k, TRUE) = j
      BY DEF Enabled
    <2>2. j.packets_in_transit = k.packets_in_transit /\ j.config = k.config /\ j.enabled = TRUE
      BY ChainOperations, ChainParts
    <2> HIDE DEF j
    <2> QED BY <2>1, <2>2 DEF Follows, SoundChain
  <1>4. Follows(k, Enabled(k, FALSE))
    <2> DEFINE i == Interrupted(k)
    <2>1. Enabled(k, FALSE) = [i EXCEPT !.enabled = FALSE]
      BY DEF Enabled
    <2>2. /\ IsChain(i)
          /\ i.packets_in_transit = [p \in DOMAIN k.packets_in_transit |->
                [k.packets_in_transit[p] EXCEPT !.interrupted = TRUE]]
      BY ChainOperations, ChainParts
    <2> HIDE DEF i
    <2>3. /\ IsChain([i EXCEPT !.enabled = FALSE])
          /\ [i EXCEPT !.enabled = FALSE].packets_in_transit = i.packets_in_transit
      BY <2>2, ChainOperations
    <2> QED BY <2>1, <2>2, <2>3, InterruptedFollows
  <1> QED BY <1>1, <1>2, <1>3, <1>4

\* A packet leaves a chain
LEMMA WithoutFollows ==
    ASSUME NEW k, IsChain(k), SoundChain(k), NEW p PROVE Follows(k, Without(k, p))
  <1> DEFINE j == Without(k, p)
  <1>1. /\ j.packets_in_transit = [q \in DOMAIN k.packets_in_transit \ {p} |-> k.packets_in_transit[q]]
        /\ j.config = k.config /\ j.enabled = k.enabled
    BY ChainParts
  <1> HIDE DEF j
  <1> QED BY <1>1 DEF Follows, SoundChain, j

\* A new packet meets the others
LEMMA StartFollows ==
    ASSUME NEW k, IsChain(k), SoundChain(k), NEW p, p \notin DOMAIN k.packets_in_transit,
           NEW config, NEW missed, NEW weak, NEW survivor
    PROVE  Follows(k, on_receive_start(k, p, config, missed, weak, survivor))
  <1> DEFINE R(a, b, c) == [config |-> a, enabled |-> b, packets_in_transit |-> c]
             j == on_receive_start(k, p, config, missed, weak, survivor)
  <1>1. \A a, b, c : R(a, b, c).packets_in_transit = c /\ R(a, b, c).config = a /\ R(a, b, c).enabled = b
    OBVIOUS
  <1>2. \A x : [k EXCEPT !.packets_in_transit = x] = R(k.config, k.enabled, x)
    BY DEF IsChain
  <1> HIDE DEF R
  <1>3. CASE ~k.enabled \/ ~overlaps(k.config, config)
    <2>1. j = k
      BY <1>3 DEF on_receive_start
    <2> QED BY <2>1, SameFollows
  <1>4. CASE ~(~k.enabled \/ ~overlaps(k.config, config))
    <2> DEFINE flying == k.packets_in_transit
               rivals == {q \in DOMAIN flying : overlaps(flying[q].config, config)}
               fresh  == [config |-> config, collision |-> \E q \in rivals : ~survivor[q][2],
                          missed_start |-> missed, demodulate_failure |-> weak,
                          interrupted |-> FALSE, received_preamble |-> FALSE]
               Hit(q) == flying[q].collision \/ (q \in rivals /\ ~survivor[q][1])
               Met(q) == IF q = p THEN fresh
                         ELSE [flying[q] EXCEPT !.collision = Hit(q)]
               F == [q \in DOMAIN flying \cup {p} |-> Met(q)]
    <2>0. j = [k EXCEPT !.packets_in_transit = F]
      BY <1>4, Zenon DEF on_receive_start
    <2>1. "interrupted" \in DOMAIN fresh
      OBVIOUS
    <2> HIDE DEF Hit, fresh
    <2>2. ASSUME NEW q \in DOMAIN flying
          PROVE  /\ DOMAIN Met(q) = DOMAIN flying[q]
                 /\ "interrupted" \in DOMAIN flying[q] => Met(q).interrupted = flying[q].interrupted
      <3>1. q # p
        OBVIOUS
      <3>2. Met(q) = [flying[q] EXCEPT !.collision = Hit(q)]
        BY <3>1
      <3> QED BY <3>2
    <2>3. Met(p) = fresh
      OBVIOUS
    <2> HIDE DEF Met
    <2>4. /\ DOMAIN F = DOMAIN flying \cup {p}
          /\ \A q \in DOMAIN flying \cup {p} : F[q] = Met(q)
      OBVIOUS
    <2> HIDE DEF F
    <2>5. j.packets_in_transit = F /\ j.config = k.config /\ j.enabled = k.enabled
      BY <2>0, <1>1, <1>2
    <2> HIDE DEF j
    <2>6. \A q \in DOMAIN flying : "interrupted" \in DOMAIN flying[q]
      BY DEF SoundChain
    <2>7. k.enabled /\ j.enabled
      BY <1>4, <2>5
    <2>8. \A q \in DOMAIN F : "interrupted" \in DOMAIN F[q]
      BY <2>1, <2>2, <2>3, <2>4, <2>6
    <2>9. \A q \in DOMAIN F : q \in DOMAIN flying => F[q].interrupted = flying[q].interrupted
      BY <2>2, <2>4, <2>6
    <2>10. SoundChain(j)
      BY <2>5, <2>7, <2>8 DEF SoundChain
    <2>11. Follows(k, j)
      BY <2>5, <2>9, <2>10 DEF Follows
    <2> QED BY <2>11 DEF j
  <1> QED BY <1>3, <1>4

\* _on_receive_preamble leaves the interruptions of a chain alone
LEMMA MarkedFollows ==
    ASSUME NEW k, IsChain(k), SoundChain(k), NEW p, p \in DOMAIN k.packets_in_transit, NEW x,
           NEW j, j = [k EXCEPT !.packets_in_transit[p] =
                            [k.packets_in_transit[p] EXCEPT !.received_preamble = x]]
    PROVE  Follows(k, j)
  <1> DEFINE R(a, b, c) == [config |-> a, enabled |-> b, packets_in_transit |-> c]
             m == [k.packets_in_transit[p] EXCEPT !.received_preamble = x]
             F == [k.packets_in_transit EXCEPT ![p] = m]
  <1>1. \A a, b, c : R(a, b, c).packets_in_transit = c /\ R(a, b, c).config = a /\ R(a, b, c).enabled = b
    OBVIOUS
  <1>2. \A y : [k EXCEPT !.packets_in_transit = y] = R(k.config, k.enabled, y)
    BY DEF IsChain
  <1> HIDE DEF R
  <1>3. j = [k EXCEPT !.packets_in_transit = F]
    OBVIOUS
  <1>4. "interrupted" \in DOMAIN k.packets_in_transit[p]
    BY DEF SoundChain
  <1>5. DOMAIN m = DOMAIN k.packets_in_transit[p] /\ m.interrupted = k.packets_in_transit[p].interrupted
    BY <1>4
  <1> HIDE DEF m
  <1>6. /\ DOMAIN F = DOMAIN k.packets_in_transit
        /\ \A q \in DOMAIN F : F[q] = IF q = p THEN m ELSE k.packets_in_transit[q]
    OBVIOUS
  <1> HIDE DEF F
  <1>7. j.packets_in_transit = F /\ j.config = k.config /\ j.enabled = k.enabled
    <2>1. j = R(k.config, k.enabled, F)
      BY <1>2, <1>3, Zenon
    <2> DEFINE i == R(k.config, k.enabled, F)
    <2>2. i.packets_in_transit = F /\ i.config = k.config /\ i.enabled = k.enabled
      BY <1>1
    <2>3. j = i
      BY <2>1
    <2> HIDE DEF i
    <2> QED BY <2>2, <2>3, Zenon
  <1>8. \A q \in DOMAIN F : /\ DOMAIN F[q] = DOMAIN k.packets_in_transit[q]
                            /\ F[q].interrupted = k.packets_in_transit[q].interrupted
    BY <1>5, <1>6
  <1> QED BY <1>6, <1>7, <1>8 DEF Follows, SoundChain

\* A list of chains is what has become of another: what is added is not busy
ListFollows(s, s2) ==
    \A c \in DOMAIN s2 : /\ c \in DOMAIN s => Follows(s[c], s2[c])
                         /\ c \notin DOMAIN s => DOMAIN s2[c].packets_in_transit = {}

FlightsFollow == \A r \in Radios : ListFollows(rx_chains[r], rx_chains'[r])

\* The chains of a radio that a step leaves alone
LEMMA SameList ==
    ASSUME SoundChains, NEW r \in Radios PROVE ListFollows(rx_chains[r], rx_chains[r])
  BY SameFollows DEF ListFollows, SoundChains

\* One chain of a radio changes
LEMMA OneFollows ==
    ASSUME RadioTyped, SoundChains, NEW r \in Radios, NEW c, NEW k,
           c \in DOMAIN rx_chains[r] => Follows(rx_chains[r][c], k),
           rx_chains' = [rx_chains EXCEPT ![r][c] = k]
    PROVE  FlightsFollow
  <1> DEFINE s == rx_chains[r]
             s2 == [s EXCEPT ![c] = k]
  <1>1. rx_chains' = [rx_chains EXCEPT ![r] = s2]
    OBVIOUS
  <1>2. DOMAIN s2 = DOMAIN s /\ \A i \in DOMAIN s : s2[i] = IF i = c THEN k ELSE s[i]
    OBVIOUS
  <1> HIDE DEF s2
  <1>3. \A i \in DOMAIN s : Follows(s[i], s[i])
    BY SameFollows DEF SoundChains
  <1>4. ListFollows(s, s2)
    BY <1>2, <1>3 DEF ListFollows
  <1>5. \A q \in Radios : rx_chains'[q] = IF q = r THEN s2 ELSE rx_chains[q]
    BY <1>1 DEF RadioTyped
  <1> QED BY <1>4, <1>5, SameList DEF FlightsFollow

\* All chains of a radio change
LEMMA ListsFollow ==
    ASSUME RadioTyped, SoundChains, NEW r \in Radios, NEW s2, ListFollows(rx_chains[r], s2),
           rx_chains' = [rx_chains EXCEPT ![r] = s2]
    PROVE  FlightsFollow
  BY SameList DEF FlightsFollow, RadioTyped

\* What Append does to a list of chains
LEMMA AppendedChain ==
    ASSUME NEW s, IsChainList(s), NEW k
    PROVE  /\ DOMAIN s \subseteq DOMAIN Append(s, k)
           /\ \A c \in DOMAIN Append(s, k) :
                Append(s, k)[c] = IF c \in DOMAIN s THEN s[c] ELSE k
  <1>1. PICK n \in Nat : s = [i \in 1 .. n |-> s[i]]
    BY DEF IsChainList
  <1> DEFINE S == {s[i] : i \in 1 .. n} \cup {k}
  <1>2. s \in Seq(S)
    <2>1. [i \in 1 .. n |-> s[i]] \in [1 .. n -> S]
      OBVIOUS
    <2> QED BY <1>1, <2>1, SeqDef
  <1>3. k \in S
    OBVIOUS
  <1> HIDE DEF S
  <1>4. /\ Append(s, k) \in Seq(S) /\ Len(Append(s, k)) = Len(s) + 1
        /\ \A i \in 1 .. Len(s) : Append(s, k)[i] = s[i]
        /\ Append(s, k)[Len(s) + 1] = k
    BY <1>2, <1>3, AppendProperties
  <1>5. /\ Len(s) \in Nat /\ DOMAIN s = 1 .. Len(s)
        /\ DOMAIN Append(s, k) = 1 .. Len(s) + 1
    BY <1>2, <1>4, LenProperties
  <1>6. \A i \in 1 .. Len(s) + 1 : i \in 1 .. Len(s) \/ i = Len(s) + 1
    BY <1>5
  <1>7. Len(s) + 1 \notin 1 .. Len(s)
    BY <1>5
  <1> QED BY <1>4, <1>5, <1>6, <1>7

\* The configuration calls
LEMMA ConfigFlightsFollow ==
    ASSUME RadioTyped, SoundChains, NEW t \in Tasks,
           \/ SetRxConfig(t) \/ SetChannel(t) \/ SetRxChainConfig(t) \/ EnableRxChain(t)
           \/ AddRxChain(t)
    PROVE  FlightsFollow
  <1> DEFINE r == radioOf[t]
  <1>0. r \in Radios
    BY ClientsAssumption
  <1>00. /\ IsChainList(rx_chains[r])
         /\ \A c \in DOMAIN rx_chains[r] : IsChain(rx_chains[r][c]) /\ SoundChain(rx_chains[r][c])
    BY <1>0 DEF RadioTyped, IsChainList, SoundChains
  <1> HIDE DEF r
  <1>2. CASE SetRxConfig(t)
    <2>1. PICK f : rx_chains' = [rx_chains EXCEPT ![r][1] = Retuned(rx_chains[r][1], f)]
      BY <1>2 DEF SetRxConfig, r
    <2> QED BY <1>0, <1>00, <2>1, OneFollows, ConfigFollows
  <1>3. CASE SetChannel(t)
    <2>1. PICK f : rx_chains' = [rx_chains EXCEPT ![r][1] =
                        Retuned(rx_chains[r][1], <<f, rx_chains[r][1].config[2]>>)]
      BY <1>3 DEF SetChannel, r
    <2> QED BY <1>0, <1>00, <2>1, OneFollows, ConfigFollows
  <1>4. CASE SetRxChainConfig(t)
    <2>1. PICK c, f : rx_chains' = [rx_chains EXCEPT ![r][c] = Retuned(rx_chains[r][c], f)]
      BY <1>4 DEF SetRxChainConfig, r
    <2> QED BY <1>0, <1>00, <2>1, OneFollows, ConfigFollows
  <1>5. CASE EnableRxChain(t)
    <2>1. PICK c \in DOMAIN rx_chains[r], e \in BOOLEAN :
                rx_chains' = [rx_chains EXCEPT ![r][c] = Enabled(rx_chains[r][c], e)]
      BY <1>5 DEF EnableRxChain, r
    <2>2. Follows(rx_chains[r][c], Enabled(rx_chains[r][c], e))
      <3>1. CASE e = TRUE
        BY <1>00, <3>1, ConfigFollows
      <3>2. CASE e = FALSE
        BY <1>00, <3>2, ConfigFollows
      <3> QED BY <3>1, <3>2
    <2> QED BY <1>0, <2>1, <2>2, OneFollows
  <1>6. CASE AddRxChain(t)
    <2>1. PICK f : rx_chains' = [rx_chains EXCEPT ![r] = Append(rx_chains[r], NewChain(f))]
      BY <1>6 DEF AddRxChain, r
    <2> DEFINE s == rx_chains[r]
               k == NewChain(f)
    <2>2. DOMAIN k.packets_in_transit = {}
      BY ChainConfigurations
    <2> HIDE DEF k
    <2>3. /\ DOMAIN s \subseteq DOMAIN Append(s, k)
          /\ \A c \in DOMAIN Append(s, k) :
                Append(s, k)[c] = IF c \in DOMAIN s THEN s[c] ELSE k
      BY <1>00, AppendedChain
    <2>4. ListFollows(s, Append(s, k))
      BY <1>00, <2>2, <2>3, SameFollows DEF ListFollows
    <2> QED BY <1>0, <2>1, <2>4, ListsFollow DEF k
  <1> QED BY <1>2, <1>3, <1>4, <1>5, <1>6

\* set_channel_plan retunes the chains it needs and switches the others off
LEMMA PlanFlightsFollow ==
    ASSUME RadioTyped, SoundChains, NEW t \in Tasks, SetChannelPlan(t) PROVE FlightsFollow
  <1> DEFINE r == radioOf[t]
             chains == rx_chains[r]
             Planned(plan, m, c) ==
                CASE c \in DOMAIN plan /\ c \in DOMAIN chains ->
                        [Retuned(chains[c], <<plan[c], m>>) EXCEPT !.enabled = TRUE]
                  [] c \in DOMAIN plan /\ c \notin DOMAIN chains -> NewChain(<<plan[c], m>>)
                  [] OTHER -> Enabled(chains[c], FALSE)
             All(plan, m) == [c \in DOMAIN chains \cup DOMAIN plan |-> Planned(plan, m, c)]
  <1>0. r \in Radios
    BY ClientsAssumption
  <1>a. PICK n \in 1 .. MaxChains[r], m \in Modulations : \E plan \in [1 .. n -> Frequencies] :
            rx_chains' = [rx_chains EXCEPT ![r] = All(plan, m)]
    BY Zenon DEF SetChannelPlan
  <1>1. PICK plan \in [1 .. n -> Frequencies] :
            rx_chains' = [rx_chains EXCEPT ![r] = All(plan, m)]
    BY <1>a
  <1>2. \A c \in DOMAIN chains : IsChain(chains[c]) /\ SoundChain(chains[c])
    BY <1>0 DEF RadioTyped, IsChainList, SoundChains
  <1> HIDE DEF r, chains
  <1>3. ASSUME NEW c \in DOMAIN chains \cup DOMAIN plan
        PROVE  /\ c \in DOMAIN chains => Follows(chains[c], Planned(plan, m, c))
               /\ c \notin DOMAIN chains => DOMAIN Planned(plan, m, c).packets_in_transit = {}
    <2>1. CASE c \in DOMAIN plan /\ c \in DOMAIN chains
      <3>1. Planned(plan, m, c) = [Retuned(chains[c], <<plan[c], m>>) EXCEPT !.enabled = TRUE]
        BY <2>1
      <3> HIDE DEF Planned
      <3>2. Follows(chains[c], [Retuned(chains[c], <<plan[c], m>>) EXCEPT !.enabled = TRUE])
        BY <2>1, <1>2, ConfigFollows
      <3> QED BY <2>1, <3>1, <3>2
    <2>2. CASE c \in DOMAIN plan /\ c \notin DOMAIN chains
      <3>1. Planned(plan, m, c) = NewChain(<<plan[c], m>>)
        BY <2>2
      <3> HIDE DEF Planned
      <3> QED BY <2>2, <3>1, ChainConfigurations
    <2>3. CASE c \notin DOMAIN plan
      <3>1. Planned(plan, m, c) = Enabled(chains[c], FALSE) /\ c \in DOMAIN chains
        BY <2>3
      <3> HIDE DEF Planned
      <3>2. Follows(chains[c], Enabled(chains[c], FALSE))
        BY <1>2, <3>1, ConfigFollows
      <3> QED BY <3>1, <3>2
    <2> QED BY <2>1, <2>2, <2>3
  <1> DEFINE s == All(plan, m)
  <1> HIDE DEF Planned
  <1>4. /\ DOMAIN s = DOMAIN chains \cup DOMAIN plan
        /\ \A c \in DOMAIN s : s[c] = Planned(plan, m, c)
    OBVIOUS
  <1> HIDE DEF All
  <1>5. ListFollows(chains, s)
    BY <1>3, <1>4 DEF ListFollows
  <1>6. ListFollows(rx_chains[r], s)
    BY <1>5 DEF chains
  <1> QED BY <1>0, <1>1, <1>6, ListsFollow

\* _on_receive_preamble at every receiver
LEMMA PreambleFlightsFollow ==
    ASSUME RadioTyped, SoundChains, NEW t \in Tasks, PreambleDone(t) PROVE FlightsFollow
  <1> DEFINE p == packet[t]
             Synced(m) == [m EXCEPT !.received_preamble =
                ~m.missed_start /\ ~m.demodulate_failure /\ ~m.collision /\ ~m.interrupted]
             Marked(chain) ==
                IF p \notin DOMAIN chain.packets_in_transit THEN chain
                ELSE [chain EXCEPT !.packets_in_transit[p] = Synced(@)]
  <1>1. rx_chains' = [q \in Radios |->
                IF q \in receivers[t]
                THEN [c \in DOMAIN rx_chains[q] |-> Marked(rx_chains[q][c])]
                ELSE rx_chains[q]]
    BY Zenon DEF PreambleDone
  <1>2. ASSUME NEW k, IsChain(k), SoundChain(k) PROVE Follows(k, Marked(k))
    <2>1. CASE p \notin DOMAIN k.packets_in_transit
      <3>1. Marked(k) = k
        BY <2>1
      <3> HIDE DEF Marked
      <3> QED BY <1>2, <3>1, SameFollows
    <2>2. CASE p \in DOMAIN k.packets_in_transit
      <3> DEFINE m == k.packets_in_transit[p]
                 x == ~m.missed_start /\ ~m.demodulate_failure /\ ~m.collision /\ ~m.interrupted
      <3>1. Marked(k) = [k EXCEPT !.packets_in_transit[p] =
                            [k.packets_in_transit[p] EXCEPT !.received_preamble = x]]
        BY <2>2
      <3> HIDE DEF Marked, x
      <3> QED BY <1>2, <2>2, <3>1, MarkedFollows
    <2> QED BY <2>1, <2>2
  <1> HIDE DEF Marked
  <1>3. ASSUME NEW q \in Radios PROVE ListFollows(rx_chains[q], rx_chains'[q])
    <2>0. \A c \in DOMAIN rx_chains[q] : IsChain(rx_chains[q][c]) /\ SoundChain(rx_chains[q][c])
      BY DEF RadioTyped, IsChainList, SoundChains
    <2>1. CASE q \notin receivers[t]
      BY <1>1, <2>1, SameList
    <2>2. CASE q \in receivers[t]
      <3>1. rx_chains'[q] = [c \in DOMAIN rx_chains[q] |-> Marked(rx_chains[q][c])]
        BY <1>1, <2>2
      <3>2. \A c \in DOMAIN rx_chains[q] : Follows(rx_chains[q][c], Marked(rx_chains[q][c]))
        BY <1>2, <2>0
      <3> QED BY <3>1, <3>2 DEF ListFollows
    <2> QED BY <2>1, <2>2
  <1> QED BY <1>3 DEF FlightsFollow

\* A new packet is presented to the radios that listen
LEMMA StartFlightsFollow ==
    ASSUME RadioTyped, SoundChains, NEW t \in Tasks, NEW own,
           ListFollows(rx_chains[radioOf[t]], own), StartsTransmission(t, own),
           \A q \in Radios : sent + 1 \notin InTransit(q)
    PROVE  FlightsFollow
  <1> DEFINE r == radioOf[t]
             p == sent + 1
             heard == {q \in Radios \ {r} : radio_state[q] = "RX"}
             Meets(q, survivor) ==
                [c \in DOMAIN rx_chains[q] |->
                    on_receive_start(rx_chains[q][c], p, tx_config[r],
                                     ~can_receive(q, tx_config[r], rx_chains[q][c]),
                                     <<r, q>> \in OutOfRange, survivor)]
  <1>1. PICK survivor \in [heard -> [1 .. sent -> Survivors]] :
             rx_chains' = [q \in Radios |->
                CASE q = r -> own
                  [] q \in heard -> Meets(q, survivor[q])
                  [] OTHER -> rx_chains[q]]
    BY Zenon DEF StartsTransmission
  <1>2. ASSUME NEW q \in Radios, NEW x PROVE ListFollows(rx_chains[q], Meets(q, x))
    <2>1. \A c \in DOMAIN rx_chains[q] : /\ IsChain(rx_chains[q][c]) /\ SoundChain(rx_chains[q][c])
                                         /\ p \notin DOMAIN rx_chains[q][c].packets_in_transit
      BY DEF RadioTyped, IsChainList, SoundChains, InTransit, Transit
    <2> HIDE DEF p, r
    <2>2. \A c \in DOMAIN rx_chains[q] : Follows(rx_chains[q][c],
                on_receive_start(rx_chains[q][c], p, tx_config[r],
                                 ~can_receive(q, tx_config[r], rx_chains[q][c]),
                                 <<r, q>> \in OutOfRange, x))
      BY <2>1, StartFollows
    <2>3. /\ DOMAIN Meets(q, x) = DOMAIN rx_chains[q]
          /\ \A c \in DOMAIN rx_chains[q] : Meets(q, x)[c] =
                on_receive_start(rx_chains[q][c], p, tx_config[r],
                                 ~can_receive(q, tx_config[r], rx_chains[q][c]),
                                 <<r, q>> \in OutOfRange, x)
      BY Zenon
    <2> HIDE DEF Meets
    <2> QED BY <2>2, <2>3, Zenon DEF ListFollows
  <1> HIDE DEF Meets
  <1>3. ASSUME NEW q \in Radios PROVE ListFollows(rx_chains[q], rx_chains'[q])
    <2>1. CASE q = r
      <3>1. rx_chains'[q] = own
        BY <1>1, <2>1
      <3> QED BY <3>1, <2>1
    <2>2. CASE q # r /\ q \in heard
      <3>1. rx_chains'[q] = Meets(q, survivor[q])
        BY <1>1, <2>2
      <3> QED BY <3>1, <1>2
    <2>3. CASE q # r /\ q \notin heard
      <3>1. rx_chains'[q] = rx_chains[q]
        BY <1>1, <2>3
      <3> QED BY <3>1, SameList
    <2> QED BY <2>1, <2>2, <2>3
  <1> QED BY <1>3 DEF FlightsFollow

\* Transmission, which interrupts what its own radio receives
LEMMA TransmitFlightsFollow ==
    ASSUME RadioInv, Numbered, SoundChains, NEW t \in Tasks, Transmit(t) \/ TransmitAfterStandby(t)
    PROVE  FlightsFollow
  <1> DEFINE r == radioOf[t]
  <1>0. r \in Radios /\ RadioTyped
    BY ClientsAssumption DEF RadioInv
  <1>1. \A q \in Radios : sent + 1 \notin InTransit(q)
    <2> SUFFICES ASSUME NEW q \in Radios, sent + 1 \in InTransit(q) PROVE FALSE
      OBVIOUS
    <2>1. PICK u \in Tasks : packet[u] = sent + 1
      BY DEF RadioInv, TransitIsOnAir
    <2> QED BY <1>0, <2>1 DEF Numbered, RadioTyped
  <1>2. ListFollows(rx_chains[r], rx_chains[r])
    BY <1>0, SameList
  <1>3. ListFollows(rx_chains[r], AllInterrupted(rx_chains[r]))
    <2>1. \A c \in DOMAIN rx_chains[r] : Follows(rx_chains[r][c], Interrupted(rx_chains[r][c]))
      BY <1>0, ConfigFollows DEF RadioTyped, IsChainList, SoundChains
    <2> QED BY <2>1 DEF ListFollows, AllInterrupted
  <1>4. CASE Transmit(t)
    <2>3. CASE radio_state[r] = "OFF"
      <3>1. UNCHANGED rx_chains
        BY <1>4, <2>3 DEF Transmit
      <3> QED BY <3>1, SameList DEF FlightsFollow
    <2>4. CASE radio_state[r] = "RX"
      <3>1. StartsTransmission(t, AllInterrupted(rx_chains[r]))
        BY <1>4, <2>4 DEF Transmit
      <3> QED BY <1>0, <1>1, <1>3, <3>1, StartFlightsFollow
    <2>5. CASE radio_state[r] \notin {"OFF", "RX"}
      <3>1. StartsTransmission(t, rx_chains[r])
        BY <1>4, <2>5 DEF Transmit
      <3> QED BY <1>0, <1>1, <1>2, <3>1, StartFlightsFollow
    <2> QED BY <2>3, <2>4, <2>5
  <1>5. CASE TransmitAfterStandby(t)
    <2>1. StartsTransmission(t, rx_chains[r])
      BY <1>5 DEF TransmitAfterStandby
    <2> QED BY <1>0, <1>1, <1>2, <2>1, StartFlightsFollow
  <1> QED BY <1>4, <1>5

\* A packet leaves some chains of a receiver
LEMMA SomeLeave ==
    ASSUME RadioTyped, SoundChains, NEW q \in Radios, NEW s2,
           DOMAIN s2 = DOMAIN rx_chains[q],
           \A c \in DOMAIN s2 : \/ s2[c] = rx_chains[q][c]
                                \/ \E p : s2[c] = Without(rx_chains[q][c], p)
    PROVE  ListFollows(rx_chains[q], s2)
  <1>1. \A c \in DOMAIN rx_chains[q] :
            /\ Follows(rx_chains[q][c], rx_chains[q][c])
            /\ \A p : Follows(rx_chains[q][c], Without(rx_chains[q][c], p))
    BY SameFollows, WithoutFollows DEF RadioTyped, IsChainList, SoundChains
  <1> QED BY <1>1 DEF ListFollows

\* _on_receive_end
LEMMA LeavesFlightsFollow ==
    ASSUME RadioInv, SoundChains, NEW t \in Tasks,
           ReceiveEndLost(t) \/ ReceiveEndRest(t) \/ ReceiveEndPut(t)
    PROVE  FlightsFollow
  <1>0. RadioTyped /\ receivers[t] \in SUBSET Radios
    BY DEF RadioInv, RadioTyped
  <1>1. ASSUME NEW q \in Radios, LeavesReceiver(t, q) PROVE FlightsFollow
    <2> DEFINE s2 == AllWithout(rx_chains[q], packet[t])
    <2>1. rx_chains' = [rx_chains EXCEPT ![q] = s2]
      BY <1>1 DEF LeavesReceiver, Leaves
    <2>2. /\ DOMAIN s2 = DOMAIN rx_chains[q]
          /\ \A c \in DOMAIN s2 : \/ s2[c] = rx_chains[q][c]
                                  \/ s2[c] = Without(rx_chains[q][c], packet[t])
      BY DEF AllWithout
    <2> HIDE DEF s2
    <2>3. ListFollows(rx_chains[q], s2)
      BY <1>0, <2>2, SomeLeave
    <2> QED BY <1>0, <2>1, <2>3, ListsFollow
  <1>2. CASE ReceiveEndLost(t)
    <2>1. PICK q \in receivers[t] : LeavesReceiver(t, q)
      BY <1>2 DEF ReceiveEndLost
    <2> QED BY <1>0, <1>1, <2>1
  <1>3. CASE ReceiveEndRest(t)
    <2>1. pc[t] \in {"delivered", "putting"} /\ LeavesReceiver(t, Min(receivers[t]))
      BY <1>3 DEF ReceiveEndRest, Resumes
    <2>2. Min(receivers[t]) \in receivers[t]
      BY <1>0, <2>1, FirstRadio DEF RadioInv, LateCounted
    <2> QED BY <1>0, <1>1, <2>1, <2>2
  <1>4. CASE ReceiveEndPut(t)
    <2>1. PICK q \in receivers[t] :
            rx_chains' = [rx_chains EXCEPT ![q] = [c \in DOMAIN rx_chains[q] |->
                IF c <= Min(Winners(t, q)) THEN Without(rx_chains[q][c], packet[t])
                                           ELSE rx_chains[q][c]]]
      BY <1>4 DEF ReceiveEndPut
    <2> DEFINE s2 == [c \in DOMAIN rx_chains[q] |->
                        IF c <= Min(Winners(t, q)) THEN Without(rx_chains[q][c], packet[t])
                                                   ELSE rx_chains[q][c]]
    <2>2. /\ DOMAIN s2 = DOMAIN rx_chains[q]
          /\ \A c \in DOMAIN s2 : \/ s2[c] = rx_chains[q][c]
                                  \/ s2[c] = Without(rx_chains[q][c], packet[t])
      OBVIOUS
    <2>3. rx_chains' = [rx_chains EXCEPT ![q] = s2]
      BY <2>1
    <2> HIDE DEF s2
    <2>4. q \in Radios
      BY <1>0
    <2>5. ListFollows(rx_chains[q], s2)
      BY <1>0, <2>2, <2>4, SomeLeave
    <2> QED BY <1>0, <2>3, <2>4, <2>5, ListsFollow
  <1> QED BY <1>2, <1>3, <1>4

\* The tasks that have nothing on the air
LEMMA AshoreSteps ==
    ASSUME RadioInv, NEW t \in Tasks,
           \/ Standby(t) \/ Off(t) \/ Receive(t) \/ CarrierSense(t) \/ WaitForChannelIdle(t)
           \/ ReceiveData(t) \/ FlushRxQueue(t)
           \/ StandbyDone(t) \/ ReceiveAfterStandby(t) \/ SenseAfterStandby(t) \/ SenseDone(t)
           \/ IdleNoticed(t) \/ ProbeMiss(t) \/ TurnOnAfterStandby(t) \/ SettleDone(t)
           \/ GetHit(t) \/ GetMiss(t) \/ GetCrashes(t) \/ ProcessDone(t)
    PROVE  Ashore(t)
  BY WanderingSteps, IdleWaits, ReceiveDataStep, FlushStep, ProbeMissStep, SecondWaits, GetSteps,
     CrashStep

\* Every step leaves each chain as something that follows from it
LEMMA NextFollows == ASSUME RadioInv, Numbered, SoundChains, [Next]_vars PROVE FlightsFollow
  <1>0. RadioTyped
    BY DEF RadioInv
  <1>1. CASE UNCHANGED rx_chains
    BY <1>1, SameList DEF FlightsFollow
  <1>2. ASSUME NEW t \in Tasks, ClientCall(t) PROVE FlightsFollow
    <2>1. CASE \/ Standby(t) \/ Off(t) \/ Receive(t) \/ CarrierSense(t) \/ WaitForChannelIdle(t)
               \/ ReceiveData(t) \/ FlushRxQueue(t)
      BY <1>1, <2>1, AshoreSteps DEF Ashore
    <2>2. CASE Transmit(t)
      BY <2>2, TransmitFlightsFollow
    <2>3. CASE SetTxConfig(t)
      BY <1>1, <2>3 DEF SetTxConfig
    <2>4. CASE \/ SetRxConfig(t) \/ SetChannel(t) \/ SetRxChainConfig(t) \/ EnableRxChain(t)
               \/ AddRxChain(t)
      BY <1>0, <2>4, ConfigFlightsFollow
    <2>5. CASE SetChannelPlan(t)
      BY <1>0, <2>5, PlanFlightsFollow
    <2> QED BY <1>2, <2>1, <2>2, <2>3, <2>4, <2>5 DEF ClientCall
  <1>3. ASSUME NEW t \in Tasks, Resumption(t) PROVE FlightsFollow
    <2>1. CASE \/ StandbyDone(t) \/ ReceiveAfterStandby(t) \/ SenseAfterStandby(t) \/ SenseDone(t)
               \/ IdleNoticed(t) \/ ProbeMiss(t) \/ TurnOnAfterStandby(t) \/ SettleDone(t)
               \/ GetHit(t) \/ GetMiss(t) \/ GetCrashes(t) \/ ProcessDone(t)
      BY <1>1, <2>1, AshoreSteps DEF Ashore
    <2>2. CASE TransmitAfterStandby(t)
      BY <2>2, TransmitFlightsFollow
    <2>3. CASE PreambleDone(t)
      BY <1>0, <2>3, PreambleFlightsFollow
    <2>4. CASE PayloadDone(t) \/ TransmitDone(t)
      BY <1>1, <2>4 DEF PayloadDone, TransmitDone
    <2>5. CASE ReceiveEndLost(t) \/ ReceiveEndRest(t) \/ ReceiveEndPut(t)
      BY <2>5, LeavesFlightsFollow
    <2> QED BY <1>3, <2>1, <2>2, <2>3, <2>4, <2>5 DEF Resumption
  <1>4. CASE Tick
    BY <1>1, <1>4 DEF Tick
  <1>5. CASE UNCHANGED vars
    BY <1>1, <1>5 DEF vars
  <1> QED BY <1>2, <1>3, <1>4, <1>5 DEF Next, SpinsForever, Exited

\* So the observer's spoiled receptions are interrupted ones
LEMMA SpoiledStayLost ==
    ASSUME RadioInv, Numbered, SoundChains, SpoiledAreLost, [HNext]_hvars, RadioInv'
    PROVE  SoundChains' /\ SpoiledAreLost'
  <1>1. FlightsFollow
    BY NextFollows DEF HNext, hvars
  <1>2. SoundChains'
    <2> SUFFICES ASSUME NEW r \in Radios, NEW c \in DOMAIN rx_chains'[r]
                 PROVE  SoundChain(rx_chains'[r][c])
      BY DEF SoundChains
    <2>1. CASE c \in DOMAIN rx_chains[r]
      BY <1>1, <2>1 DEF FlightsFollow, ListFollows, Follows
    <2>2. CASE c \notin DOMAIN rx_chains[r]
      BY <1>1, <2>2 DEF FlightsFollow, ListFollows, SoundChain
    <2> QED BY <2>1, <2>2
  <1>3. CASE UNCHANGED hvars
    <2>1. rx_chains' = rx_chains /\ spoiled' = spoiled
      BY <1>3 DEF hvars, vars
    <2> QED BY <1>2, <2>1 DEF SpoiledAreLost, Transit
  <1>4. CASE HNext
    <2> SUFFICES ASSUME NEW f \in spoiled'
                 PROVE  /\ f[1] \in Radios /\ f[2] \in DOMAIN rx_chains'[f[1]]
                        /\ f[3] \in DOMAIN rx_chains'[f[1]][f[2]].packets_in_transit
                        /\ rx_chains'[f[1]][f[2]].packets_in_transit[f[3]].interrupted
      BY <1>2 DEF SpoiledAreLost, Transit
    <2> DEFINE k == rx_chains[f[1]][f[2]]
               j == rx_chains'[f[1]][f[2]]
    <2>1. /\ f \in Flights'
          /\ f \in spoiled \/ ~j.enabled \/ j.config # k.config
      BY <1>4 DEF HNext, Observe
    <2>2. /\ f[1] \in Radios /\ f[2] \in DOMAIN rx_chains'[f[1]]
          /\ f[3] \in DOMAIN j.packets_in_transit
      BY <2>1 DEF Flights, Transit
    <2>3. f[2] \in DOMAIN rx_chains[f[1]]
      BY <1>1, <2>2 DEF FlightsFollow, ListFollows
    <2>4. Follows(k, j)
      BY <1>1, <2>2, <2>3 DEF FlightsFollow, ListFollows
    <2>5. f \in spoiled => /\ f[3] \in DOMAIN k.packets_in_transit
                           /\ k.packets_in_transit[f[3]].interrupted
      BY DEF SpoiledAreLost, Transit
    <2> HIDE DEF k, j
    <2>6. j.packets_in_transit[f[3]].interrupted
      BY <2>1, <2>2, <2>4, <2>5 DEF Follows, SoundChain
    <2> QED BY <2>2, <2>6 DEF j
  <1> QED BY <1>2, <1>3, <1>4

-----------------------------------------------------------------------------
(* What the steps do to the queues and to the packets on the air.          *)

\* Nothing is put into a queue
NothingPut ==
    \A r \in Radios : \/ rx_queue'[r] = rx_queue[r] \/ rx_queue'[r] = <<>>
                      \/ rx_queue[r] # <<>> /\ rx_queue'[r] = Tail(rx_queue[r])

\* No packet is sent, and none gets to more places
Voyage ==
    /\ sent' = sent
    /\ \A u \in Tasks :
         /\ packet'[u] = packet[u] \/ packet'[u] = 0
         /\ OnAir(u)' => OnAir(u) /\ packet'[u] = packet[u] /\ Open(u)' \subseteq Open(u)

\* A task that has nothing on the air leaves the packets alone
LEMMA AshoreVoyage == ASSUME NEW t \in Tasks, Ashore(t) PROVE Voyage
  <1>1. packet' = packet /\ receivers' = receivers /\ sent' = sent
    BY DEF Ashore, airVars
  <1>2. ~OnAir(t)' /\ \A u \in Tasks \ {t} : pc'[u] = pc[u]
    BY DEF Ashore, OthersStay, OnAir
  <1> QED BY <1>1, <1>2 DEF Voyage, OnAir, Open

\* A task goes on in its transmission, or stays where it is
LEMMA GoingOnVoyage ==
    ASSUME NEW t \in Tasks, UNCHANGED <<packet, receivers, sent>>,
           \A u \in Tasks \ {t} : pc'[u] = pc[u],
           \/ pc'[t] = pc[t]
           \/ pc[t] \in {"preamble", "payload"} /\ pc'[t] \in {"payload", "ending"}
    PROVE  Voyage
  BY DEF Voyage, OnAir, Open

\* A receiver has been told that the packet is over
LEMMA LeavesVoyage ==
    ASSUME RadioTyped, NEW t \in Tasks, NEW q, q = Min(receivers[t]),
           pc[t] \in {"ending", "delivered", "putting"}, LeavesReceiver(t, q)
    PROVE  Voyage
  <1>1. /\ packet' = packet /\ sent' = sent
        /\ receivers' = [receivers EXCEPT ![t] = @ \ {q}] /\ pc' = [pc EXCEPT ![t] = "ending"]
    BY DEF LeavesReceiver, Leaves
  <1>2. /\ receivers'[t] = receivers[t] \ {q} /\ pc'[t] = "ending"
        /\ \A u \in Tasks \ {t} : receivers'[u] = receivers[u] /\ pc'[u] = pc[u]
    BY <1>1 DEF RadioTyped
  <1>3. Open(t)' = receivers[t] \ {q} /\ Open(t)' \subseteq Open(t)
    BY <1>2 DEF Open
  <1>4. \A u \in Tasks \ {t} : Open(u)' = Open(u) /\ OnAir(u)' = OnAir(u)
    BY <1>2 DEF Open, OnAir
  <1> QED BY <1>1, <1>3, <1>4 DEF Voyage, OnAir

\* A transmission ends
LEMMA DoneVoyage == ASSUME RadioTyped, NEW t \in Tasks, TransmitDone(t) PROVE Voyage
  <1>1. /\ packet' = [packet EXCEPT ![t] = 0] /\ sent' = sent /\ receivers' = receivers
    BY DEF TransmitDone
  <1>2. \E phase \in {"client", "standby"} : pc' = [pc EXCEPT ![t] = phase]
    BY DEF TransmitDone, LeavesTX, WakesUp, Return, Suspend
  <1>3. /\ packet'[t] = 0 /\ pc'[t] \in {"client", "standby"}
        /\ \A u \in Tasks \ {t} : packet'[u] = packet[u] /\ pc'[u] = pc[u]
    BY <1>1, <1>2 DEF RadioTyped
  <1> QED BY <1>1, <1>3 DEF Voyage, OnAir, Open

\* The steps of the calls that do not transmit
LEMMA VoyageSteps ==
    ASSUME RadioInv, NEW t \in Tasks,
           \/ SetTxConfig(t) \/ SetRxConfig(t) \/ SetChannel(t) \/ SetRxChainConfig(t)
           \/ EnableRxChain(t) \/ AddRxChain(t) \/ SetChannelPlan(t)
           \/ PreambleDone(t) \/ PayloadDone(t) \/ ReceiveEndLost(t) \/ ReceiveEndRest(t)
           \/ TransmitDone(t)
    PROVE  Voyage /\ NothingPut
  <1>0. RadioTyped
    BY DEF RadioInv
  <1>1. ASSUME UNCHANGED rx_queue PROVE NothingPut
    BY <1>1 DEF NothingPut
  <1>2. CASE \/ SetTxConfig(t) \/ SetRxConfig(t) \/ SetChannel(t) \/ SetRxChainConfig(t)
             \/ EnableRxChain(t) \/ AddRxChain(t) \/ SetChannelPlan(t)
    <2>1. UNCHANGED <<packet, receivers, sent, pc, rx_queue>>
      BY <1>2 DEF SetTxConfig, SetRxConfig, SetChannel, SetRxChainConfig, EnableRxChain, AddRxChain,
                  SetChannelPlan, ConfigOnly, airVars, queueVars
    <2> QED BY <1>1, <2>1, GoingOnVoyage
  <1>3. CASE PreambleDone(t)
    <2>1. /\ UNCHANGED <<packet, receivers, sent, rx_queue>> /\ pc[t] = "preamble"
          /\ pc' = [pc EXCEPT ![t] = "payload"]
      BY <1>3 DEF PreambleDone, Resumes, Suspend, airVars, queueVars
    <2> QED BY <1>0, <1>1, <2>1, GoingOnVoyage DEF RadioTyped
  <1>4. CASE PayloadDone(t)
    <2>1. /\ UNCHANGED <<packet, receivers, sent, rx_queue>> /\ pc[t] = "payload"
          /\ pc' = [pc EXCEPT ![t] = "ending"]
      BY <1>4 DEF PayloadDone, Resumes, airVars, queueVars
    <2> QED BY <1>0, <1>1, <2>1, GoingOnVoyage DEF RadioTyped
  <1>5. CASE ReceiveEndLost(t)
    <2>1. PICK q \in receivers[t] : AtReceiver(t, q) /\ LeavesReceiver(t, q)
      BY <1>5 DEF ReceiveEndLost
    <2>2. q = Min(receivers[t]) /\ pc[t] = "ending" /\ UNCHANGED rx_queue
      BY <1>5, <2>1 DEF ReceiveEndLost, AtReceiver, queueVars
    <2> QED BY <1>0, <1>1, <2>1, <2>2, LeavesVoyage
  <1>6. CASE ReceiveEndRest(t)
    <2>1. /\ pc[t] \in {"delivered", "putting"} /\ LeavesReceiver(t, Min(receivers[t]))
          /\ UNCHANGED rx_queue
      BY <1>6 DEF ReceiveEndRest, Resumes, queueVars
    <2> QED BY <1>0, <1>1, <2>1, LeavesVoyage
  <1>7. CASE TransmitDone(t)
    <2>1. UNCHANGED rx_queue
      BY <1>7 DEF TransmitDone, queueVars
    <2> QED BY <1>0, <1>1, <1>7, <2>1, DoneVoyage
  <1> QED BY <1>2, <1>3, <1>4, <1>5, <1>6, <1>7

\* Tasks take from the queues, and flush them
LEMMA AshorePuts ==
    ASSUME RadioTyped, NEW t \in Tasks,
           \/ Standby(t) \/ Off(t) \/ Receive(t) \/ CarrierSense(t) \/ WaitForChannelIdle(t)
           \/ ReceiveData(t) \/ FlushRxQueue(t)
           \/ StandbyDone(t) \/ ReceiveAfterStandby(t) \/ SenseAfterStandby(t) \/ SenseDone(t)
           \/ IdleNoticed(t) \/ ProbeMiss(t) \/ TurnOnAfterStandby(t) \/ SettleDone(t)
           \/ GetHit(t) \/ GetMiss(t) \/ GetCrashes(t) \/ ProcessDone(t)
    PROVE  NothingPut
  <1>0. radioOf[t] \in Radios /\ DOMAIN rx_queue = Radios
    BY ClientsAssumption DEF RadioTyped
  <1>1. CASE UNCHANGED rx_queue
    BY <1>1 DEF NothingPut
  <1>2. ASSUME rx_queue[radioOf[t]] # <<>>, Takes(t) PROVE NothingPut
    BY <1>0, <1>2 DEF Takes, NothingPut
  <1>3. ASSUME NEW name, NEW phase, NEW ticks, Gets(t, name, phase, ticks) PROVE NothingPut
    BY <1>1, <1>2, <1>3 DEF Gets
  <1>4. CASE \/ Standby(t) \/ Off(t) \/ Receive(t) \/ CarrierSense(t) \/ WaitForChannelIdle(t)
             \/ StandbyDone(t) \/ ReceiveAfterStandby(t) \/ SenseAfterStandby(t) \/ SenseDone(t)
             \/ IdleNoticed(t) \/ GetCrashes(t) \/ ProcessDone(t)
    <2>1. UNCHANGED rx_queue
      BY <1>4 DEF Standby, Off, Receive, CarrierSense, WaitForChannelIdle, StandbyDone,
                  ReceiveAfterStandby, SenseAfterStandby, SenseDone, IdleNoticed, GetCrashes,
                  ProcessDone, queueVars
    <2> QED BY <1>1, <2>1
  <1>5. CASE ReceiveData(t)
    BY <1>3, <1>5 DEF ReceiveData
  <1>6. CASE FlushRxQueue(t)
    BY <1>0, <1>6 DEF FlushRxQueue, NothingPut
  <1>7. CASE ProbeMiss(t)
    <2>1. CASE radio_state[radioOf[t]] = "OFF"
      BY <1>1, <1>7, <2>1 DEF ProbeMiss, TimesOut
    <2>2. CASE radio_state[radioOf[t]] # "OFF" /\ call[t] = "within"
      BY <1>1, <1>7, <2>2 DEF ProbeMiss, TimesOut
    <2>3. CASE radio_state[radioOf[t]] # "OFF" /\ call[t] # "within"
      <3>1. Gets(t, "wait", "get", Forever)
        BY <1>7, <2>3 DEF ProbeMiss
      <3> QED BY <1>3, <3>1
    <2> QED BY <2>1, <2>2, <2>3
  <1>8. CASE TurnOnAfterStandby(t)
    BY <1>1, <1>3, <1>8 DEF TurnOnAfterStandby, queueVars
  <1>9. CASE SettleDone(t)
    BY <1>3, <1>9 DEF SettleDone
  <1>10. CASE GetHit(t)
    BY <1>2, <1>10 DEF GetHit
  <1>11. CASE GetMiss(t)
    BY <1>1, <1>11 DEF GetMiss, TimesOut
  <1> QED BY <1>4, <1>5, <1>6, <1>7, <1>8, <1>9, <1>10, <1>11

-----------------------------------------------------------------------------
(* What the observer has seen received.                                    *)

\* What is taken from a queue leaves what was in it
LEMMA ShorterQueue ==
    ASSUME NEW s, IsSequence(s), NEW s2,
           s2 = s \/ s2 = <<>> \/ (s # <<>> /\ s2 = Tail(s))
    PROVE  /\ IsSequence(s2) /\ Len(s2) <= Len(s)
           /\ \A i \in DOMAIN s2 : \E j \in DOMAIN s : s2[i] = s[j]
  <1>1. PICK S : s \in Seq(S)
    BY DEF IsSequence
  <1>2. CASE s2 = s
    BY <1>1, <1>2 DEF IsSequence
  <1>3. CASE s2 = <<>>
    <2>1. s2 \in Seq(S) /\ Len(s2) = 0 /\ DOMAIN s2 = {}
      BY <1>3
    <2> QED BY <1>1, <2>1 DEF IsSequence
  <1>4. CASE s # <<>> /\ s2 = Tail(s)
    <2>1. s2 \in Seq(S) /\ Len(s2) = Len(s) - 1 /\ \A i \in 1 .. Len(s2) : s2[i] = s[i + 1]
      BY <1>1, <1>4
    <2>2. DOMAIN s2 = 1 .. Len(s2) /\ DOMAIN s = 1 .. Len(s) /\ Len(s) \in Nat
      BY <1>1, <2>1
    <2>3. \A i \in 1 .. Len(s2) : i + 1 \in 1 .. Len(s)
      BY <2>1, <2>2
    <2> QED BY <2>1, <2>2, <2>3 DEF IsSequence
  <1> QED BY <1>2, <1>3, <1>4

\* Where nothing is put, the observer sees nothing new
LEMMA NothingReceived ==
    ASSUME ReceivedOnce, NothingPut, Observe
    PROVE  \A r \in Radios :
              /\ IsSequence(rx_queue'[r]) /\ received'[r] = received[r] /\ ~Delivers(r)
              /\ \A i \in DOMAIN rx_queue'[r] : rx_queue'[r][i].packet \in received[r]
  <1> SUFFICES ASSUME NEW r \in Radios
               PROVE  /\ IsSequence(rx_queue'[r]) /\ received'[r] = received[r] /\ ~Delivers(r)
                      /\ \A i \in DOMAIN rx_queue'[r] : rx_queue'[r][i].packet \in received[r]
    OBVIOUS
  <1> DEFINE s == rx_queue[r]
             s2 == rx_queue'[r]
  <1>1. IsSequence(s) /\ \A i \in DOMAIN s : s[i].packet \in received[r]
    BY DEF ReceivedOnce
  <1>2. s2 = s \/ s2 = <<>> \/ (s # <<>> /\ s2 = Tail(s))
    BY DEF NothingPut
  <1>3. received'[r] = received[r] \cup {s2[i].packet : i \in DOMAIN s2}
    BY DEF Observe
  <1>4. Delivers(r) <=> Len(s2) > Len(s)
    BY DEF Delivers
  <1> HIDE DEF s, s2
  <1>5. /\ IsSequence(s2) /\ Len(s2) <= Len(s)
        /\ \A i \in DOMAIN s2 : \E j \in DOMAIN s : s2[i] = s[j]
    BY <1>1, <1>2, ShorterQueue
  <1>6. \A i \in DOMAIN s2 : s2[i].packet \in received[r]
    BY <1>1, <1>5
  <1>7. received'[r] = received[r]
    BY <1>3, <1>6
  <1>8. ~(Len(s2) > Len(s))
    <2>1. PICK S : s \in Seq(S)
      BY <1>1 DEF IsSequence
    <2>2. PICK S2 : s2 \in Seq(S2)
      BY <1>5 DEF IsSequence
    <2>3. Len(s) \in Nat /\ Len(s2) \in Nat
      BY <2>1, <2>2
    <2> QED BY <1>5, <2>3
  <1> QED BY <1>4, <1>5, <1>6, <1>7, <1>8 DEF s2

\* So a step that neither sends nor puts keeps the history
LEMMA VoyageKeeps ==
    ASSUME RadioTyped, Numbered, ReceivedOnce, Voyage, NothingPut, Observe
    PROVE  Numbered' /\ ReceivedOnce' /\ \A r \in Radios : ~Delivers(r)
  <1>1. Numbered'
    BY DEF RadioTyped, Numbered, Voyage
  <1>2. \A r \in Radios :
              /\ IsSequence(rx_queue'[r]) /\ received'[r] = received[r] /\ ~Delivers(r)
              /\ \A i \in DOMAIN rx_queue'[r] : rx_queue'[r][i].packet \in received[r]
    BY NothingReceived
  <1>3. \A r \in Radios : \A p \in received'[r] : p \in Nat /\ p <= sent'
    BY <1>2 DEF ReceivedOnce, Voyage
  <1>4. \A t \in Tasks : OnAir(t)' => \A r \in Open(t)' : packet'[t] \notin received'[r]
    <2> SUFFICES ASSUME NEW t \in Tasks, OnAir(t)', NEW r \in Open(t)'
                 PROVE  packet'[t] \notin received'[r]
      OBVIOUS
    <2>1. OnAir(t) /\ packet'[t] = packet[t] /\ r \in Open(t)
      BY DEF Voyage
    <2>2. r \in Radios
      BY <2>1 DEF RadioTyped, Open
    <2> QED BY <1>2, <2>1, <2>2 DEF ReceivedOnce
  <1>5. ReceivedOnce'
    BY <1>2, <1>3, <1>4 DEF ReceivedOnce
  <1> QED BY <1>1, <1>2, <1>5

\* A packet gets a number that nothing has seen
LEMMA StartHistory ==
    ASSUME RadioTyped, Numbered, ReceivedOnce, NEW t \in Tasks, NEW own,
           StartsTransmission(t, own), rx_queue' = rx_queue, Observe
    PROVE  Numbered' /\ ReceivedOnce' /\ \A r \in Radios : ~Delivers(r)
  <1>1. /\ sent' = sent + 1 /\ packet' = [packet EXCEPT ![t] = sent + 1]
        /\ pc' = [pc EXCEPT ![t] = "preamble"]
        /\ \E h : receivers' = [receivers EXCEPT ![t] = h]
    BY DEF StartsTransmission, Suspend
  <1>2. receivers'[t] \subseteq Radios
    <2> DEFINE heard == {q \in Radios \ {radioOf[t]} : radio_state[q] = "RX"}
    <2>1. receivers' = [receivers EXCEPT ![t] = heard]
      BY DEF StartsTransmission
    <2>2. heard \subseteq Radios
      OBVIOUS
    <2> HIDE DEF heard
    <2> QED BY <2>1, <2>2 DEF RadioTyped
  <1>3. /\ packet'[t] = sent + 1 /\ pc'[t] = "preamble" /\ sent \in Nat
        /\ \A u \in Tasks \ {t} : /\ packet'[u] = packet[u] /\ pc'[u] = pc[u]
                                  /\ receivers'[u] = receivers[u] /\ packet[u] \in Nat
    BY <1>1 DEF RadioTyped
  <1>4. \A u \in Tasks \ {t} : packet[u] <= sent
    BY DEF Numbered
  <1>5. \A u \in Tasks \ {t} : OnAir(u)' = OnAir(u) /\ Open(u)' = Open(u)
    BY <1>3 DEF OnAir, Open
  <1>6. Numbered'
    <2>1. \A u \in Tasks : packet'[u] <= sent'
      BY <1>1, <1>3, <1>4
    <2>2. \A u \in Tasks \ {t} : packet'[u] # packet'[t]
      BY <1>3, <1>4
    <2>3. \A u, v \in Tasks : OnAir(u)' /\ OnAir(v)' /\ packet'[u] = packet'[v] => u = v
      BY <1>3, <1>5, <2>2 DEF Numbered
    <2> QED BY <2>1, <2>3 DEF Numbered
  <1>7. NothingPut
    BY DEF NothingPut
  <1>8. \A r \in Radios :
              /\ IsSequence(rx_queue'[r]) /\ received'[r] = received[r] /\ ~Delivers(r)
              /\ \A i \in DOMAIN rx_queue'[r] : rx_queue'[r][i].packet \in received[r]
    BY <1>7, NothingReceived
  <1>9. \A r \in Radios : \A p \in received[r] : p \in Nat /\ p <= sent
    BY DEF ReceivedOnce
  <1>10. \A r \in Radios : \A p \in received'[r] : p \in Nat /\ p <= sent'
    BY <1>1, <1>3, <1>8, <1>9
  <1>11. \A u \in Tasks : OnAir(u)' => \A r \in Open(u)' : packet'[u] \notin received'[r]
    <2> SUFFICES ASSUME NEW u \in Tasks, OnAir(u)', NEW r \in Open(u)'
                 PROVE  packet'[u] \notin received'[r]
      OBVIOUS
    <2>1. CASE u = t
      <3>1. r \in Radios
        BY <1>2, <2>1 DEF Open
      <3> QED BY <1>3, <1>8, <1>9, <2>1, <3>1
    <2>2. CASE u # t
      <3>1. r \in Radios
        BY <1>3, <1>5, <2>2 DEF Open, RadioTyped
      <3> QED BY <1>3, <1>5, <1>8, <2>2, <3>1 DEF ReceivedOnce
    <2> QED BY <2>1, <2>2
  <1>12. ReceivedOnce'
    BY <1>8, <1>10, <1>11 DEF ReceivedOnce
  <1> QED BY <1>6, <1>8, <1>12

\* The two ways into a transmission
LEMMA TransmitHistory ==
    ASSUME RadioTyped, Numbered, ReceivedOnce, NEW t \in Tasks,
           Transmit(t) \/ TransmitAfterStandby(t), Observe
    PROVE  Numbered' /\ ReceivedOnce' /\ \A r \in Radios : ~Delivers(r)
  <1> DEFINE r == radioOf[t]
  <1>0. rx_queue' = rx_queue
    BY DEF Transmit, TransmitAfterStandby, queueVars
  <1>1. CASE Transmit(t) /\ radio_state[r] = "OFF"
    <2>1. /\ UNCHANGED <<packet, receivers, sent>>
          /\ pc' = [pc EXCEPT ![t] = "standby"]
      BY <1>1 DEF Transmit, WakesUp, Suspend, airVars
    <2>2. pc'[t] = "standby" /\ \A u \in Tasks \ {t} : pc'[u] = pc[u]
      BY <2>1 DEF RadioTyped
    <2>3. Voyage /\ NothingPut
      BY <1>0, <2>1, <2>2 DEF Voyage, NothingPut, OnAir, Open
    <2> QED BY <2>3, VoyageKeeps
  <1>2. CASE Transmit(t) /\ radio_state[r] = "RX"
    <2>1. StartsTransmission(t, AllInterrupted(rx_chains[r]))
      BY <1>2 DEF Transmit
    <2> QED BY <1>0, <2>1, StartHistory
  <1>3. CASE Transmit(t) /\ radio_state[r] \notin {"OFF", "RX"}
    <2>1. StartsTransmission(t, rx_chains[r])
      BY <1>3 DEF Transmit
    <2> QED BY <1>0, <2>1, StartHistory
  <1>4. CASE TransmitAfterStandby(t)
    <2>1. StartsTransmission(t, rx_chains[r])
      BY <1>4 DEF TransmitAfterStandby
    <2> QED BY <1>0, <2>1, StartHistory
  <1> QED BY <1>1, <1>2, <1>3, <1>4

\* A delivery is of an untouched reception, and is the first of that packet
Delivery(r) ==
    Delivers(r) => /\ <<r, Delivered(r).chain, Delivered(r).packet>> \notin spoiled
                   /\ Delivered(r).packet \notin received[r]

\* What is put into a queue comes last
LEMMA LongerQueue ==
    ASSUME NEW s, IsSequence(s), NEW x
    PROVE  /\ IsSequence(Append(s, x)) /\ Append(s, x)[Len(Append(s, x))] = x
           /\ \A i \in DOMAIN Append(s, x) : \/ Append(s, x)[i] = x
                                             \/ \E j \in DOMAIN s : Append(s, x)[i] = s[j]
           /\ \E i \in DOMAIN Append(s, x) : Append(s, x)[i] = x
  <1>1. PICK S : s \in Seq(S)
    BY DEF IsSequence
  <1>2. s \in Seq(S \cup {x})
    BY <1>1
  <1> DEFINE a == Append(s, x)
  <1>3. /\ a \in Seq(S \cup {x}) /\ Len(a) = Len(s) + 1 /\ Len(s) \in Nat
        /\ \A i \in 1 .. Len(s) : a[i] = s[i]
        /\ a[Len(s) + 1] = x
    BY <1>2
  <1>4. DOMAIN a = 1 .. Len(a) /\ DOMAIN s = 1 .. Len(s)
    BY <1>2, <1>3
  <1> HIDE DEF a
  <1>5. Len(a) \in DOMAIN a /\ \A i \in DOMAIN a : i \in 1 .. Len(s) \/ i = Len(s) + 1
    BY <1>3, <1>4
  <1>6. IsSequence(a)
    BY <1>3 DEF IsSequence
  <1>7. /\ a[Len(a)] = x
        /\ \A i \in DOMAIN a : a[i] = x \/ \E j \in DOMAIN s : a[i] = s[j]
        /\ \E i \in DOMAIN a : a[i] = x
    BY <1>3, <1>4, <1>5
  <1> QED BY <1>6, <1>7 DEF a

\* The chain that delivers has a reception that was not interrupted
LEMMA WinnerIsUntouched ==
    ASSUME RadioTyped, SpoiledAreLost, NEW t \in Tasks, NEW q \in Radios, Winners(t, q) # {}
    PROVE  <<q, Min(Winners(t, q)), packet[t]>> \notin spoiled
  <1> DEFINE W == Winners(t, q)
  <1>1. PICK n \in Nat : rx_chains[q] = [i \in 1 .. n |-> rx_chains[q][i]]
    BY DEF RadioTyped, IsChainList
  <1>2. W \subseteq 1 .. n
    BY <1>1 DEF Winners
  <1>3. IsFiniteSet(W) /\ W \subseteq Nat
    <2>1. IsFiniteSet(1 .. n) /\ 1 .. n \subseteq Nat
      BY FS_Interval
    <2> HIDE DEF W
    <2> QED BY <1>2, <2>1, FS_Subset
  <1> DEFINE w == Min(W)
  <1>4. w \in W
    BY <1>3, FirstNumber
  <1>5. ~Transit(q, w)[packet[t]].interrupted
    BY <1>4 DEF Winners, received_successfully
  <1> HIDE DEF w
  <1> DEFINE f == <<q, w, packet[t]>>
  <1>6. f[1] = q /\ f[2] = w /\ f[3] = packet[t]
    OBVIOUS
  <1> HIDE DEF f
  <1>7. f \notin spoiled
    BY <1>5, <1>6 DEF SpoiledAreLost
  <1> QED BY <1>7 DEF f, w

\* A packet is put into the receiver's queue, which the transmission has then no more to do with
LEMMA PutHistory ==
    ASSUME RadioInv, Numbered, ReceivedOnce, SpoiledAreLost, NEW t \in Tasks, ReceiveEndPut(t), Observe
    PROVE  Numbered' /\ ReceivedOnce' /\ \A r \in Radios : Delivery(r)
  <1>0. RadioTyped
    BY DEF RadioInv
  <1>a. PICK q \in receivers[t] :
            /\ AtReceiver(t, q) /\ Winners(t, q) # {}
            /\ put(t, q, [packet |-> packet[t], chain |-> Min(Winners(t, q)),
                          received_preamble |->
                             Transit(q, Min(Winners(t, q)))[packet[t]].received_preamble])
            /\ UNCHANGED airVars
    BY DEF ReceiveEndPut
  <1> DEFINE p == packet[t]
             w == Min(Winners(t, q))
             item == [packet |-> p, chain |-> w,
                      received_preamble |-> Transit(q, w)[p].received_preamble]
             s2 == Append(rx_queue[q], item)
  <1>b. q \in Radios /\ pc[t] = "ending" /\ q = Min(receivers[t])
    BY <1>0, <1>a DEF RadioTyped, AtReceiver
  <1>1. /\ packet' = packet /\ receivers' = receivers /\ sent' = sent
        /\ rx_queue' = [rx_queue EXCEPT ![q] = s2]
        /\ PutDone(t, q, "delivered", 1)
    BY <1>a DEF put, airVars
  <1>c. <<q, w, p>> \notin spoiled
    BY <1>0, <1>a, <1>b, WinnerIsUntouched
  <1> HIDE DEF w
  <1>2. item.packet = p /\ item.chain = w
    OBVIOUS
  <1> HIDE DEF item
  <1>3. \E phase \in {"delivered", "putting"} : pc' = [pc EXCEPT ![t] = phase]
    BY <1>1 DEF PutDone
  <1>4. pc'[t] \in {"delivered", "putting"} /\ \A u \in Tasks \ {t} : pc'[u] = pc[u]
    BY <1>0, <1>3 DEF RadioTyped
  <1>5. /\ \A u \in Tasks : OnAir(u)' = OnAir(u)
        /\ \A u \in Tasks \ {t} : Open(u)' = Open(u)
        /\ OnAir(t) /\ Open(t) = receivers[t] /\ Open(t)' = receivers[t] \ {q}
    BY <1>1, <1>4, <1>b DEF OnAir, Open
  <1>6. p \notin received[q] /\ p \in Nat /\ p <= sent
    BY <1>0, <1>a, <1>5 DEF ReceivedOnce, RadioTyped, Numbered
  <1>7. /\ rx_queue'[q] = s2 /\ \A r \in Radios \ {q} : rx_queue'[r] = rx_queue[r]
    BY <1>0, <1>1, <1>b DEF RadioTyped
  <1>8. /\ IsSequence(s2) /\ s2[Len(s2)] = item
        /\ \A i \in DOMAIN s2 : s2[i] = item \/ \E j \in DOMAIN rx_queue[q] : s2[i] = rx_queue[q][j]
        /\ \E i \in DOMAIN s2 : s2[i] = item
    <2>1. IsSequence(rx_queue[q])
      BY <1>b DEF ReceivedOnce
    <2> QED BY <2>1, LongerQueue
  <1> HIDE DEF s2
  <1>9. \A r \in Radios :
            received'[r] = received[r] \cup {rx_queue'[r][i].packet : i \in DOMAIN rx_queue'[r]}
    BY DEF Observe
  <1>10. received'[q] = received[q] \cup {p}
    <2>1. \A i \in DOMAIN s2 : s2[i].packet \in received[q] \cup {p}
      BY <1>2, <1>8, <1>b DEF ReceivedOnce
    <2>2. p \in {s2[i].packet : i \in DOMAIN s2}
      BY <1>2, <1>8
    <2>3. received'[q] = received[q] \cup {s2[i].packet : i \in DOMAIN s2}
      BY <1>7, <1>9, <1>b
    <2> QED BY <2>1, <2>2, <2>3
  <1>11. \A r \in Radios \ {q} : received'[r] = received[r]
    <2> TAKE r \in Radios \ {q}
    <2>1. rx_queue'[r] = rx_queue[r]
      BY <1>7
    <2>2. received'[r] = received[r] \cup {rx_queue[r][i].packet : i \in DOMAIN rx_queue[r]}
      BY <1>9, <2>1
    <2>3. \A i \in DOMAIN rx_queue[r] : rx_queue[r][i].packet \in received[r]
      BY DEF ReceivedOnce
    <2> QED BY <2>2, <2>3
  <1>12. Numbered'
    BY <1>1, <1>5 DEF Numbered
  <1>13. \A r \in Radios : /\ IsSequence(rx_queue'[r])
                           /\ \A x \in received'[r] : x \in Nat /\ x <= sent'
                           /\ \A i \in DOMAIN rx_queue'[r] : rx_queue'[r][i].packet \in received'[r]
    <2> SUFFICES ASSUME NEW r \in Radios
                 PROVE  /\ IsSequence(rx_queue'[r])
                        /\ \A x \in received'[r] : x \in Nat /\ x <= sent'
                        /\ \A i \in DOMAIN rx_queue'[r] : rx_queue'[r][i].packet \in received'[r]
      OBVIOUS
    <2>1. \A i \in DOMAIN rx_queue'[r] : rx_queue'[r][i].packet \in received'[r]
      BY <1>9
    <2>2. \A x \in received[r] : x \in Nat /\ x <= sent
      BY DEF ReceivedOnce
    <2>3. CASE r = q
      BY <1>1, <1>6, <1>7, <1>8, <1>10, <2>1, <2>2, <2>3
    <2>4. CASE r # q
      BY <1>1, <1>7, <1>11, <2>1, <2>2, <2>4 DEF ReceivedOnce
    <2> QED BY <2>3, <2>4
  <1>14. \A u \in Tasks : OnAir(u)' => \A r \in Open(u)' : packet'[u] \notin received'[r]
    <2> SUFFICES ASSUME NEW u \in Tasks, OnAir(u)', NEW r \in Open(u)'
                 PROVE  packet[u] \notin received'[r]
      BY <1>1
    <2>1. OnAir(u) /\ r \in Open(u) /\ r \in Radios
      BY <1>0, <1>5 DEF RadioTyped, Open
    <2>2. packet[u] \notin received[r]
      BY <2>1 DEF ReceivedOnce
    <2>3. CASE r # q
      BY <1>11, <2>1, <2>2, <2>3
    <2>4. CASE r = q
      <3>1. u # t
        BY <1>5, <2>4
      <3>2. packet[u] # p
        BY <1>5, <2>1, <3>1 DEF Numbered
      <3> QED BY <1>10, <2>2, <2>4, <3>2
    <2> QED BY <2>3, <2>4
  <1>15. ReceivedOnce'
    BY <1>13, <1>14 DEF ReceivedOnce
  <1>16. ASSUME NEW r \in Radios PROVE Delivery(r)
    <2>1. CASE r = q
      <3>1. Delivered(r) = item
        BY <1>7, <1>8, <2>1 DEF Delivered
      <3> QED BY <1>2, <1>6, <1>c, <2>1, <3>1 DEF Delivery
    <2>2. CASE r # q
      <3>1. PICK S : rx_queue[r] \in Seq(S)
        BY DEF ReceivedOnce, IsSequence
      <3>2. ~Delivers(r)
        BY <1>7, <2>2, <3>1 DEF Delivers
      <3> QED BY <3>2 DEF Delivery
    <2> QED BY <2>1, <2>2
  <1> QED BY <1>12, <1>15, <1>16

\* The other steps
LEMMA StillHistory ==
    ASSUME RadioTyped, Numbered, ReceivedOnce, UNCHANGED <<packet, receivers, sent, pc, rx_queue>>, Observe
    PROVE  Numbered' /\ ReceivedOnce' /\ \A r \in Radios : ~Delivers(r)
  <1>1. Voyage /\ NothingPut
    BY DEF Voyage, NothingPut, OnAir, Open
  <1> QED BY <1>1, VoyageKeeps

\* Every step keeps the history, and delivers as it should
LEMMA NextHistory ==
    ASSUME RadioInv, Numbered, ReceivedOnce, SpoiledAreLost, HNext
    PROVE  Numbered' /\ ReceivedOnce' /\ \A r \in Radios : Delivery(r)
  <1> DEFINE Goal == Numbered' /\ ReceivedOnce' /\ \A r \in Radios : Delivery(r)
  <1>0. RadioTyped /\ Next /\ Observe
    BY DEF RadioInv, HNext
  <1>1. ASSUME Voyage, NothingPut PROVE Goal
    BY <1>0, <1>1, VoyageKeeps DEF Delivery
  <1>2. ASSUME NEW t \in Tasks, Transmit(t) \/ TransmitAfterStandby(t) PROVE Goal
    BY <1>0, <1>2, TransmitHistory DEF Delivery
  <1>3. ASSUME NEW t \in Tasks, ReceiveEndPut(t) PROVE Goal
    BY <1>0, <1>3, PutHistory
  <1>4. ASSUME UNCHANGED <<packet, receivers, sent, pc, rx_queue>> PROVE Goal
    BY <1>0, <1>4, StillHistory DEF Delivery
  <1> HIDE DEF Goal
  <1>5. ASSUME NEW t \in Tasks, ClientCall(t) PROVE Goal
    <2>1. CASE \/ Standby(t) \/ Off(t) \/ Receive(t) \/ CarrierSense(t) \/ WaitForChannelIdle(t)
               \/ ReceiveData(t) \/ FlushRxQueue(t)
      <3>1. Ashore(t) /\ NothingPut
        BY <1>0, <2>1, AshoreSteps, AshorePuts
      <3> QED BY <1>1, <3>1, AshoreVoyage
    <2>2. CASE \/ SetTxConfig(t) \/ SetRxConfig(t) \/ SetChannel(t) \/ SetRxChainConfig(t)
               \/ EnableRxChain(t) \/ AddRxChain(t) \/ SetChannelPlan(t)
      BY <1>1, <2>2, VoyageSteps
    <2> QED BY <1>2, <1>5, <2>1, <2>2 DEF ClientCall
  <1>6. ASSUME NEW t \in Tasks, Resumption(t) PROVE Goal
    <2>1. CASE \/ StandbyDone(t) \/ ReceiveAfterStandby(t) \/ SenseAfterStandby(t) \/ SenseDone(t)
               \/ IdleNoticed(t) \/ ProbeMiss(t) \/ TurnOnAfterStandby(t) \/ SettleDone(t)
               \/ GetHit(t) \/ GetMiss(t) \/ GetCrashes(t) \/ ProcessDone(t)
      <3>1. Ashore(t) /\ NothingPut
        BY <1>0, <2>1, AshoreSteps, AshorePuts
      <3> QED BY <1>1, <3>1, AshoreVoyage
    <2>2. CASE \/ PreambleDone(t) \/ PayloadDone(t) \/ ReceiveEndLost(t) \/ ReceiveEndRest(t)
               \/ TransmitDone(t)
      BY <1>1, <2>2, VoyageSteps
    <2> QED BY <1>2, <1>3, <1>6, <2>1, <2>2 DEF Resumption
  <1>7. ASSUME Tick PROVE Goal
    BY <1>4, <1>7 DEF Tick, airVars, queueVars
  <1>8. ASSUME Exited \/ SpinsForever PROVE Goal
    BY <1>4, <1>8 DEF Exited, SpinsForever, vars, airVars, queueVars
  <1>9. Goal
    BY <1>0, <1>5, <1>6, <1>7, <1>8 DEF Next
  <1> QED BY <1>9 DEF Goal

\* The invariant of the histories is inductive
LEMMA HistoryInit == HInit => HistoryInv
  <1> SUFFICES ASSUME HInit PROVE HistoryInv
    OBVIOUS
  <1>1. RadioInv
    BY RadioInvInit DEF HInit
  <1>2. Numbered /\ ReceivedOnce
    <2>1. /\ packet = [t \in Tasks |-> 0] /\ sent = 0 /\ pc = [t \in Tasks |-> "client"]
          /\ rx_queue = [r \in Radios |-> <<>>] /\ received = [r \in Radios |-> {}]
      BY DEF HInit, Init
    <2>2. IsSequence(<<>>) /\ DOMAIN <<>> = {}
      <3>1. <<>> \in Seq({})
        OBVIOUS
      <3> QED BY <3>1 DEF IsSequence
    <2>3. \A t \in Tasks : ~OnAir(t)
      BY <2>1 DEF OnAir
    <2>4. \A r \in Radios : rx_queue[r] = <<>> /\ received[r] = {}
      BY <2>1
    <2> QED BY <2>1, <2>2, <2>3, <2>4 DEF Numbered, ReceivedOnce
  <1>3. SoundChains
    <2>1. \A r \in Radios : rx_chains[r] = <<NewChain(DefaultConfig)>>
      BY DEF HInit, Init
    <2>2. DOMAIN NewChain(DefaultConfig).packets_in_transit = {}
      BY DEF NewChain
    <2>3. SoundChain(NewChain(DefaultConfig))
      BY <2>2 DEF SoundChain
    <2> QED BY <2>1, <2>3 DEF SoundChains
  <1>4. SpoiledAreLost
    BY DEF HInit, SpoiledAreLost
  <1> QED BY <1>1, <1>2, <1>3, <1>4 DEF HistoryInv

\* and every step that delivers does so as it should
LEMMA HistoryNext ==
    HistoryInv /\ [HNext]_hvars => HistoryInv' /\ (UNCHANGED hvars \/ \A r \in Radios : Delivery(r))
  <1> SUFFICES ASSUME HistoryInv, [HNext]_hvars
               PROVE  HistoryInv' /\ (UNCHANGED hvars \/ \A r \in Radios : Delivery(r))
    OBVIOUS
  <1>1. RadioInv'
    BY RadioInvNext DEF HistoryInv, HNext, hvars
  <1>2. SoundChains' /\ SpoiledAreLost'
    BY <1>1, SpoiledStayLost DEF HistoryInv
  <1>3. CASE HNext
    BY <1>1, <1>2, <1>3, NextHistory DEF HistoryInv
  <1>4. CASE UNCHANGED hvars
    <2>1. UNCHANGED <<packet, receivers, sent, pc, rx_queue, received>>
      BY <1>4 DEF hvars, vars, airVars, queueVars
    <2>2. Numbered' /\ ReceivedOnce'
      BY <2>1 DEF HistoryInv, Numbered, ReceivedOnce, OnAir, Open
    <2> QED BY <1>1, <1>2, <1>4, <2>2 DEF HistoryInv
  <1> QED BY <1>3, <1>4

\* A chain that was retuned or switched off during a packet does not deliver it, however often and
\* by whomever it is put back (radio.py, set_rx_config, enable_rx_chain and _on_receive_end).
THEOREM OnlyUntouchedReceptionsAreDelivered == HSpec => OnlyUntouchedChainsDeliver
  <1>1. HistoryInv /\ [HNext]_hvars =>
            [\A r \in Radios :
                Delivers(r) => <<r, Delivered(r).chain, Delivered(r).packet>> \notin spoiled]_hvars
    BY HistoryNext DEF Delivery
  <1>2. HistoryInv /\ [HNext]_hvars => HistoryInv'
    BY HistoryNext
  <1> QED BY <1>1, <1>2, HistoryInit, PTL DEF HSpec, OnlyUntouchedChainsDeliver

\* A radio puts a packet into its queue once, however many of its chains hear it and whatever runs
\* while _on_receive_end is suspended in the put (radio.py, _on_receive_end).
THEOREM PacketsAreDeliveredOnce == HSpec => DeliveredOnce
  <1>1. HistoryInv /\ [HNext]_hvars =>
            [\A r \in Radios : Delivers(r) => Delivered(r).packet \notin received[r]]_hvars
    BY HistoryNext DEF Delivery
  <1>2. HistoryInv /\ [HNext]_hvars => HistoryInv'
    BY HistoryNext
  <1> QED BY <1>1, <1>2, HistoryInit, PTL DEF HSpec, DeliveredOnce

=============================================================================
