------------------------ MODULE LorawanGatewayProofs ------------------------
(***************************************************************************)
(* The safety of the gateway's transmitter, for any number of uplinks and  *)
(* multicast frames, any air times and any parameters that satisfy the     *)
(* assumptions of module LorawanGateway.                                   *)
(***************************************************************************)
EXTENDS LorawanGateway, FiniteSetTheorems, SequenceTheorems, WellFoundedInduction, TLAPS

-----------------------------------------------------------------------------
(* The inductive invariant.                                                *)

\* What the proofs need of the variables' types
Typed ==
    /\ holder \in (Tasks \ {"run"}) \cup {None}
    /\ busy \in Nat /\ quiet \in Nat /\ quiet_factor \in Nat /\ rest \in Nat
    /\ priority \in Int /\ uplinks \in Nat
    /\ next_beacon \in Int \cup {None}
    /\ radio \in {"OFF", "STANDBY", "RX", "TX"}
    /\ unscheduled \subseteq Frames /\ queue \in Seq(Entries) /\ batch \in Seq(Frames)
    /\ sending \in Frames \cup {None}
    /\ slots \in Seq(SlotOffsets)
    /\ pc \in [Tasks -> PCs] /\ left \in [Tasks -> Nat \cup {Forever}]

\* Nobody is held up without a time limit while it has a part in the transmissions
Timed == \A t \in Tasks : left[t] = Forever => pc[t] \in {"get", "poll"}

\* A task is still to come for every uplink that is not yet handed over
UplinksHaveTasks == Cardinality(Absent) >= uplinks + (IF pc["run"] = "process" THEN 1 ELSE 0)

\* Nobody is answered before the radio is on, a reply never has to start it, and of the beacons
\* only the first one may have to
RepliesFindRadioOn ==
    /\ radio = "OFF" => /\ holder = None /\ uplinks = 0 /\ pc["run"] # "process"
                        /\ next_beacon = None
                        /\ \A r \in Replies : pc[r] = "absent"
    /\ \A r \in Replies : pc[r] \notin {"startup", "wait", "slot", "poll"}

\* Whose turn it is
PlacesOK ==
    /\ pc["run"] \in {"probe", "startup", "get", "process", "backoff"}
    /\ pc["multicast"] \in {"poll", "startup", "tx"}
    /\ pc["beacon"] \in {"absent", "await", "slot", "wait", "startup", "tx"}
    /\ pc["multicast"] \in {"startup", "tx"} => sending \in Frames
    /\ pc["beacon"] = "slot" => slots # <<>>
    /\ pc["beacon"] = "absent" => next_beacon = None

\* The replies and the beacon that go before multicast frames
Announced == {r \in Replies : pc[r] \in {"await", "tx"}}
PriorityCounts ==
    priority = Cardinality(Announced)
                + (IF pc["beacon"] \in {"wait", "startup", "tx"} THEN 1 ELSE 0)

\* The first beacon is due before time passes
Beginning ==
    next_beacon = None =>
        \/ pc["beacon"] = "absent"
        \/ /\ pc["beacon"] = "await" /\ left["beacon"] = 0
           /\ radio = "OFF" \/ (radio = "STANDBY" /\ pc["multicast"] = "startup")
           /\ uplinks = 0
           /\ pc["run"] = "probe" /\ left["run"] = 1
           /\ \A r \in Replies : pc[r] = "absent"
           /\ pc["multicast"] = "startup" => left["multicast"] > 0
           /\ pc["multicast"] # "tx"

\* When the frame of task t is over, at the latest
AirLeft(t) == IF pc[t] = "tx" THEN left[t] ELSE left[t] + AirTime(t) + MaxExtra[t]

\* The estimate of a waiter is never too late, and no frame outlasts LongestFrame + Slack
Estimated ==
    /\ holder = None => busy = 0
    /\ holder # None => /\ pc[holder] = "tx" => busy <= left[holder]
                        /\ pc[holder] # "tx" => busy <= left[holder] + AirTime(holder)
                        /\ AirLeft(holder) <= LongestFrame + Slack

\* The beacon's time, in each place of the beacon scheduler
BeaconOnTime ==
    next_beacon # None =>
        /\ pc["beacon"] = "await" => left["beacon"] = next_beacon
        /\ pc["beacon"] = "slot" => /\ left["beacon"] = TicksTo(Head(slots), next_beacon)
                                    /\ Head(slots) < BeaconInterval - BeaconGuard
        /\ pc["beacon"] = "startup" => next_beacon >= left["beacon"] - StandbyTime
        /\ pc["beacon"] = "wait" =>
            /\ left["beacon"] <= Later(busy, 1)
            /\ holder = None => next_beacon >= left["beacon"] - (LongestFrame + Slack + 1)
            /\ holder # None => next_beacon >= AirLeft(holder) - (LongestFrame + Slack)

\* The data rate of a group is set only while its frame is sent
RateRestored == holder # "multicast" => rate = OwnRate

\* What the quiet time does not cover of the rest that the duty cycle asks for
QuietCovers ==
    IF quiet_factor = 0 THEN rest = 0
    ELSE /\ rest <= quiet + Slack
         /\ holder # None => AirTime(holder) * quiet_factor + AirLeft(holder) <= quiet + Slack

GatewayInv ==
    /\ Typed /\ Timed /\ UplinksHaveTasks /\ RepliesFindRadioOn /\ PlacesOK
    /\ PriorityCounts /\ Beginning /\ OneFrameAtATime /\ Estimated /\ BeaconOnTime
    /\ RepliesNeverDelayBeacons /\ RateRestored /\ QuietCovers

\* The longest time from the beginning of a frame until RX1 opens for an uplink before it
Patience == ReceiveDelay1 + TXBackoff + StandbyTime

\* The receiving loop is back at its queue soon, and a frame in the queue is not forgotten
LoopTimes ==
    /\ pc["run"] \in {"probe", "process"} => left["run"] <= 1
    /\ pc["run"] = "backoff" => left["run"] <= TXBackoff
    /\ pc["run"] = "startup" => pc["beacon"] = "absent"
    /\ pc["run"] = "get" => uplinks = 0

\* The radio is deaf while a frame is on the air; of the frames before which it has to start, the
\* first beacon waits for one at most
DeafOnAir ==
    /\ \A t \in {"multicast", "beacon"} : pc[t] = "startup" => left[t] <= StandbyTime
    /\ next_beacon # None /\ holder # None =>
        \/ pc[holder] = "tx" /\ radio = "TX"
        \/ pc[holder] = "startup" /\ next_beacon >= left[holder] - StandbyTime

\* RX1 of every uplink that came before the frame a beacon waits for opens before the beacon is
\* later than Patience.  What comes in the tick in which that frame ends is for later than the
\* beacon.
RepliesTimely ==
    /\ \A r \in Replies : /\ pc[r] \in {"absent", "forward"} => left[r] = 0
                          /\ pc[r] = "await" => left[r] <= ReceiveDelay1
    /\ pc["beacon"] = "wait" =>
        /\ \A r \in Replies :
            /\ pc[r] = "forward" => holder = None \/ ReceiveDelay1 <= next_beacon + Patience
            /\ pc[r] = "await" => \/ holder = None /\ left["beacon"] < left[r]
                                 \/ left[r] <= next_beacon + Patience
        /\ uplinks > 0 \/ pc["run"] = "process" =>
                holder = None \/ left["run"] + ReceiveDelay1 <= next_beacon + Patience

TimelyInv == LoopTimes /\ DeafOnAir /\ RepliesTimely

-----------------------------------------------------------------------------
(* Operators of the model.                                                 *)

\* A finite set of numbers has a maximum, which is what Max chooses
LEMMA MaxOfNumbers ==
    ASSUME NEW S \in SUBSET Int, IsFiniteSet(S), S # {}
    PROVE  Max(S) \in S /\ \A x \in S : x <= Max(S)
  <1> DEFINE HasMax(T) == \E x \in T : \A y \in T : x >= y
             Bad == {T \in SUBSET S : T # {} /\ ~HasMax(T)}
  <1>1. Bad = {}
    <2> SUFFICES ASSUME Bad # {} PROVE FALSE
      OBVIOUS
    <2>1. Bad \subseteq FiniteSubsetsOf(S)
      BY FS_FiniteSubsetsOfFinite
    <2>2. PICK T \in Bad : \A U \in Bad : ~(<<U, T>> \in StrictSubsetOrdering(S))
      BY <2>1, FS_StrictSubsetOrderingWellFounded, WFMin
    <2>3. PICK a \in T : TRUE
      OBVIOUS
    <2>4. CASE T = {a}
      BY <2>4
    <2>5. CASE T # {a}
      <3>1. T \ {a} \notin Bad
        BY <2>2, <2>3 DEF StrictSubsetOrdering
      <3>2. PICK x \in T \ {a} : \A y \in T \ {a} : x >= y
        BY <3>1, <2>5
      <3> QED BY <3>2
    <2> QED BY <2>4, <2>5
  <1>2. HasMax(S)
    BY <1>1
  <1> QED BY <1>2 DEF Max

\* Slack and LongestFrame bound what they are the maximum of
LEMMA Bounds ==
    /\ Slack \in Nat /\ LongestFrame \in Nat
    /\ \A t \in Replies \cup {"multicast", "beacon"} : StandbyTime + MaxExtra[t] <= Slack
    /\ \A f \in Frames : FrameTime[f] <= LongestFrame
    /\ ReplyTime <= LongestFrame /\ BeaconTime <= LongestFrame /\ PingTime <= LongestFrame
  <1> USE GatewayAssumption
  <1> DEFINE D == Replies \cup {"multicast", "beacon"}
             E == {MaxExtra[t] : t \in DOMAIN MaxExtra}
             F == {FrameTime[f] : f \in Frames}
             A == F \cup {ReplyTime, BeaconTime, PingTime}
  <1>1. IsFiniteSet(E)
    <2>1. IsFiniteSet((Replies \cup {"multicast"}) \cup {"beacon"})
      BY FS_AddElement
    <2>2. IsFiniteSet(D)
      <3>1. D = (Replies \cup {"multicast"}) \cup {"beacon"}
        OBVIOUS
      <3> QED BY <2>1, <3>1
    <2>3. MaxExtra \in Surjection(D, E)
      BY DEF Surjection
    <2> HIDE DEF D, E
    <2> QED BY <2>2, <2>3, FS_Surjection
  <1>2. IsFiniteSet(A)
    <2>1. FrameTime \in Surjection(Frames, F)
      BY DEF Surjection
    <2>2. IsFiniteSet(F)
      BY <2>1, FS_Surjection
    <2>3. IsFiniteSet(((F \cup {ReplyTime}) \cup {BeaconTime}) \cup {PingTime})
      BY <2>2, FS_AddElement
    <2>4. A = ((F \cup {ReplyTime}) \cup {BeaconTime}) \cup {PingTime}
      OBVIOUS
    <2> QED BY <2>3, <2>4
  <1>3. Max(E) \in E /\ \A x \in E : x <= Max(E)
    <2>1. E \in SUBSET Int /\ E # {}
      OBVIOUS
    <2> QED BY <2>1, <1>1, MaxOfNumbers
  <1>4. Max(A) \in A /\ \A x \in A : x <= Max(A)
    <2>1. A \in SUBSET Int /\ A # {}
      OBVIOUS
    <2> QED BY <2>1, <1>2, MaxOfNumbers
  <1>5. Slack = StandbyTime + Max(E) /\ LongestFrame = Max(A)
    BY DEF Slack, LongestFrame
  <1> HIDE DEF E, A
  <1>6. E \subseteq Nat /\ A \subseteq Nat /\ \A t \in D : MaxExtra[t] \in E
    BY DEF E, A
  <1>7. /\ ReplyTime \in A /\ BeaconTime \in A /\ PingTime \in A
        /\ \A f \in Frames : FrameTime[f] \in A
    BY DEF A
  <1> HIDE DEF D
  <1>8. Slack \in Nat /\ \A t \in D : StandbyTime + MaxExtra[t] <= Slack
    <2>1. StandbyTime \in Nat
      OBVIOUS
    <2> HIDE GatewayAssumption
    <2>2. Max(E) \in Nat
      BY <1>3, <1>6
    <2>3. ASSUME NEW t \in D PROVE StandbyTime + MaxExtra[t] <= Slack
      <3>1. MaxExtra[t] \in Nat /\ MaxExtra[t] <= Max(E)
        BY <1>3, <1>6, <2>3
      <3> QED BY <3>1, <2>1, <2>2, <1>5
    <2> QED BY <2>1, <2>2, <2>3, <1>5
  <1>9. LongestFrame \in Nat /\ \A x \in A : x <= LongestFrame
    BY <1>4, <1>5, <1>6
  <1> QED BY <1>7, <1>8, <1>9 DEF D

\* What is left of a list of frames is a list of frames
LEMMA BuildableFrames ==
    ASSUME NEW frames \in Seq(Frames), NEW s \in Buildable(frames)
    PROVE  s \in Seq(Frames) /\ (frames = <<>> => s = <<>>)
  <1>1. PICK n \in 0 .. Len(frames) : s = SubSeq(frames, n + 1, Len(frames))
    BY DEF Buildable
  <1>2. \A i \in n + 1 .. Len(frames) : frames[i] \in Frames
    BY LenProperties
  <1>3. s \in Seq(Frames)
    BY <1>1, <1>2, SubSeqProperties, LenProperties
  <1>4. frames = <<>> => s = <<>>
    BY <1>1, SubSeqEmpty, LenProperties
  <1> QED BY <1>3, <1>4

\* There are at most Len(q) indices of q
LEMMA Indices ==
    ASSUME NEW S, NEW q \in Seq(S), NEW J \in SUBSET (DOMAIN q)
    PROVE  Cardinality(J) \in 0 .. Len(q)
  <1>1. Len(q) \in Nat /\ DOMAIN q = 1 .. Len(q)
    BY LenProperties
  <1>2. IsFiniteSet(1 .. Len(q)) /\ Cardinality(1 .. Len(q)) = Len(q)
    <2>1. \A n \in Nat : IsFiniteSet(1 .. n) /\ Cardinality(1 .. n) = n
      BY FS_Interval
    <2> QED BY <1>1, <2>1
  <1>3. Cardinality(J) \in Nat /\ Cardinality(J) <= Len(q)
    BY <1>1, <1>2, FS_Subset, FS_CardinalityType
  <1> QED BY <1>1, <1>3

\* A list with an element put in
LEMMA Inserted ==
    ASSUME NEW S, NEW q \in Seq(S), NEW n \in 0 .. Len(q), NEW e \in S
    PROVE  InsertAt(q, n + 1, e) \in Seq(S)
  <1>1. Len(q) \in Nat /\ \A i \in 1 .. Len(q) : q[i] \in S
    BY LenProperties
  <1>2. SubSeq(q, 1, n) \in Seq(S) /\ SubSeq(q, n + 1, Len(q)) \in Seq(S)
    BY <1>1, SubSeqProperties
  <1>3. (n + 1) - 1 = n
    BY <1>1
  <1>4. InsertAt(q, n + 1, e) = SubSeq(q, 1, n) \o <<e>> \o SubSeq(q, n + 1, Len(q))
    BY <1>3 DEF InsertAt
  <1>5. SubSeq(q, 1, n) \o <<e>> \in Seq(S)
    BY <1>2, ConcatProperties
  <1> QED BY <1>2, <1>4, <1>5, ConcatProperties

\* pop_due_multicast_downlinks splits the queue
LEMMA PoppedFrames ==
    ASSUME queue \in Seq(Entries)
    PROVE  DueFrames \in Seq(Frames) /\ Remaining \in Seq(Entries)
  <1>1. Len(queue) \in Nat /\ DOMAIN queue = 1 .. Len(queue) /\ \A i \in DOMAIN queue : queue[i] \in Entries
    BY LenProperties
  <1>2. Ready \in 0 .. Len(queue)
    BY Indices DEF Ready
  <1>3. DueFrames \in Seq(Frames)
    BY <1>1, <1>2 DEF DueFrames, Entries
  <1>4. Remaining \in Seq(Entries)
    <2>1. \A i \in Ready + 1 .. Len(queue) : queue[i] \in Entries
      BY <1>1, <1>2
    <2> QED BY <2>1, <1>1, <1>2, SubSeqProperties DEF Remaining
  <1> QED BY <1>3, <1>4

\* _send_class_b_downlinks goes on with a slot it can use, if there is one
LEMMA UpcomingSlots ==
    ASSUME NEW schedule \in Seq(SlotOffsets), NEW beacon, NEW s \in Upcoming(schedule, beacon)
    PROVE  s \in Seq(SlotOffsets) /\ (s # <<>> => Usable(Head(s), beacon))
  <1>1. PICK n \in 0 .. Len(schedule) :
            /\ s = SubSeq(schedule, n + 1, Len(schedule))
            /\ n < Len(schedule) => Usable(schedule[n + 1], beacon)
    BY DEF Upcoming
  <1>2. Len(schedule) \in Nat /\ \A i \in n + 1 .. Len(schedule) : schedule[i] \in SlotOffsets
    BY LenProperties
  <1>3. s \in Seq(SlotOffsets)
    BY <1>1, <1>2, SubSeqProperties
  <1>4. CASE n < Len(schedule)
    <2>1. Head(SubSeq(schedule, n + 1, Len(schedule))) = schedule[n + 1]
      BY <1>2, <1>4, HeadTailOfSubSeq
    <2> QED BY <2>1, <1>1, <1>3, <1>4
  <1>5. CASE n = Len(schedule)
    BY <1>1, <1>2, <1>3, <1>5, SubSeqEmpty
  <1> QED BY <1>2, <1>4, <1>5

-----------------------------------------------------------------------------
(* The constants, one by one.                                              *)

Senders == Replies \cup {"multicast", "beacon"}

LEMMA Times ==
    /\ ReplyTime \in Nat /\ ReplyTime > 0 /\ BeaconTime \in Nat /\ BeaconTime > 0
    /\ PingTime \in Nat /\ PingTime > 0
    /\ ReceiveDelay1 \in Nat /\ ReceiveDelay1 > 0 /\ BeaconInterval \in Nat /\ BeaconInterval > 0
    /\ PollInterval \in Nat /\ PollInterval > 0 /\ TXBackoff \in Nat /\ TXBackoff > 0
    /\ StandbyTime \in Nat /\ StandbyTime > 0 /\ BeaconGuard \in Nat /\ BeaconReserved \in Nat
    /\ \A f \in Frames : FrameTime[f] \in Nat /\ FrameTime[f] > 0
    /\ \A t \in Senders : MaxExtra[t] \in Nat
    /\ \A s \in SlotOffsets : s \in Nat /\ s > 0
  BY GatewayAssumption DEF Senders

LEMMA Names ==
    /\ "run" \notin Replies /\ "multicast" \notin Replies /\ "beacon" \notin Replies
    /\ None \notin Tasks /\ None \notin Frames /\ None \notin Int
    /\ Tasks = Senders \cup {"run"} /\ "run" \notin Senders
  BY GatewayAssumption DEF Tasks, Senders

\* Every frame has an air time, which LongestFrame bounds
LEMMA AirTimes ==
    ASSUME NEW t \in Senders, sending \in Frames \/ t # "multicast"
    PROVE  AirTime(t) \in Nat /\ AirTime(t) > 0 /\ AirTime(t) <= LongestFrame
  <1>1. CASE t \in Replies
    BY <1>1, Times, Bounds DEF AirTime
  <1>2. CASE t = "multicast"
    BY <1>2, Times, Bounds, Names DEF AirTime
  <1>3. CASE t = "beacon"
    BY <1>3, Times, Bounds, Names DEF AirTime
  <1> QED BY <1>1, <1>2, <1>3 DEF Senders

-----------------------------------------------------------------------------
(* The initial state.                                                      *)

LEMMA GatewayInit == Init => GatewayInv
  <1> SUFFICES ASSUME Init PROVE GatewayInv
    OBVIOUS
  <1> USE Times, Names, Bounds
  <1>1. Typed /\ Timed /\ RepliesFindRadioOn /\ PlacesOK
    BY GatewayAssumption, SMTT(20)
    DEF Init, Typed, Timed, RepliesFindRadioOn, PlacesOK, Tasks, PCs, Forever, Senders
  <1>2. UplinksHaveTasks
    <2>1. IsFiniteSet(Absent)
      BY FS_Subset, GatewayAssumption DEF Absent
    <2> QED BY <2>1, FS_CardinalityType DEF Init, UplinksHaveTasks, Tasks
  <1>3. PriorityCounts
    <2>1. Announced = {}
      BY DEF Init, Announced, Tasks, Senders
    <2> QED BY <2>1, FS_EmptySet DEF Init, PriorityCounts, Tasks, Senders
  <1>4. Beginning
    BY DEF Init, Beginning, Tasks, Senders
  <1>5. OneFrameAtATime /\ RepliesNeverDelayBeacons
    BY DEF Init, OneFrameAtATime, RepliesNeverDelayBeacons, OnAir, Tasks, Senders
  <1>6. Estimated /\ BeaconOnTime /\ RateRestored /\ QuietCovers
    BY DEF Init, Estimated, BeaconOnTime, RateRestored, QuietCovers
  <1> QED BY <1>1, <1>2, <1>3, <1>4, <1>5, <1>6 DEF GatewayInv

-----------------------------------------------------------------------------
(* Steps that leave the transmitter alone.                                 *)

\* The frame on the air, the schedulers and their clocks stay as they are
Aside ==
    /\ UNCHANGED <<lockVars, rate, sending, beaconVars, rest>>
    /\ \A t \in Tasks : OnAir(t) \/ t \in {"multicast", "beacon"}
                            => pc'[t] = pc[t] /\ left'[t] = left[t]
    /\ \A t \in Tasks : OnAir(t)' => OnAir(t)

LEMMA AsideSteps ==
    ASSUME GatewayInv, Aside
    PROVE  /\ OneFrameAtATime' /\ Estimated' /\ BeaconOnTime' /\ RepliesNeverDelayBeacons'
           /\ RateRestored' /\ QuietCovers'
  <1> USE Names DEF Aside, GatewayInv, Typed, lockVars, beaconVars, Tasks, Senders
  <1>1. OneFrameAtATime' /\ RepliesNeverDelayBeacons' /\ RateRestored'
    BY DEF OneFrameAtATime, RepliesNeverDelayBeacons, RateRestored, OnAir
  <1>2. holder # None => /\ AirTime(holder)' = AirTime(holder) /\ AirLeft(holder)' = AirLeft(holder)
                         /\ pc'[holder] = pc[holder] /\ left'[holder] = left[holder]
    BY DEF AirTime, AirLeft, OneFrameAtATime
  <1>3. Estimated' /\ QuietCovers'
    BY <1>2 DEF Estimated, QuietCovers
  <1>4. BeaconOnTime'
    BY <1>2 DEF BeaconOnTime
  <1> QED BY <1>1, <1>3, <1>4

\* The counters follow from the sets they count
LEMMA Counted ==
    IsFiniteSet(Absent) /\ Cardinality(Absent) \in Nat
    /\ IsFiniteSet(Announced) /\ Cardinality(Announced) \in Nat
  BY GatewayAssumption, FS_Subset, FS_CardinalityType DEF Absent, Announced

\* The receiving loop, but for the hand-over
LEMMA RunSteps ==
    ASSUME GatewayInv, ReceiveDataWait \/ BackedOff \/ ReceiveAfterStartup
    PROVE  GatewayInv'
  <1> USE Names, Times DEF GatewayInv, Typed, lockVars, queueVars, radioVars, multicastVars, beaconVars, Due, Moves
  <1> USE DEF ReceiveDataWait, BackedOff, ReceiveAfterStartup
  <1>1. /\ \A t \in Tasks \ {"run"} : pc'[t] = pc[t] /\ left'[t] = left[t]
        /\ pc'["run"] \in {"backoff", "startup", "get", "probe"} /\ pc["run"] # "process"
        /\ left'["run"] \in Nat \/ (left'["run"] = Forever /\ pc'["run"] = "get")
        /\ pc' = [pc EXCEPT !["run"] = pc'["run"]] /\ left' = [left EXCEPT !["run"] = left'["run"]]
    BY DEF Tasks, ProbeTime
  <1>2. Aside
    BY <1>1 DEF Aside, OnAir, Tasks
  <1>3. pc' \in [Tasks -> PCs] /\ left' \in [Tasks -> Nat \cup {Forever}]
    BY <1>1 DEF Tasks, PCs
  <1>4. Typed'
    BY <1>3
  <1>5. Timed'
    BY <1>1, <1>3 DEF Tasks, Timed, Forever
  <1>6. Absent' = Absent /\ Announced' = Announced
    BY <1>1 DEF Absent, Announced, Tasks
  <1>7. UplinksHaveTasks' /\ PriorityCounts'
    BY <1>1, <1>6 DEF UplinksHaveTasks, PriorityCounts, Tasks
  <1>8. RepliesFindRadioOn' /\ PlacesOK' /\ Beginning'
    BY <1>1 DEF RepliesFindRadioOn, PlacesOK, Beginning, Tasks
  <1> QED BY <1>2, <1>4, <1>5, <1>7, <1>8, AsideSteps

\* A frame arrives
LEMMA UplinkStep ==
    ASSUME GatewayInv, UplinkArrives
    PROVE  GatewayInv'
  <1> USE Names, Times DEF GatewayInv, Typed, lockVars, queueVars, radioVars, multicastVars, beaconVars, Moves
  <1>1. /\ \A t \in Tasks \ {"run"} : pc'[t] = pc[t] /\ left'[t] = left[t]
        /\ \/ pc["run"] = "get" /\ pc'["run"] = "process" /\ left'["run"] = 1 /\ uplinks' = uplinks
           \/ pc["run"] # "get" /\ pc' = pc /\ left' = left /\ uplinks' = uplinks + 1
    BY DEF UplinkArrives, Tasks
  <1>2. /\ radio = "RX" /\ UNCHANGED <<lockVars, priority, radio, rate, multicastVars, beaconVars, rest>>
        /\ Cardinality(Absent) > uplinks + (IF pc["run"] = "process" THEN 1 ELSE 0)
    BY DEF UplinkArrives
  <1>3. pc' \in [Tasks -> PCs] /\ left' \in [Tasks -> Nat \cup {Forever}]
    <2>1. CASE pc["run"] = "get"
      <3>1. Moves("run", "process", 1)
        BY <2>1 DEF UplinkArrives
      <3> QED BY <3>1 DEF PCs
    <2>2. CASE pc["run"] # "get"
      BY <2>2, <1>1
    <2> QED BY <2>1, <2>2
  <1>4. Aside
    BY <1>1, <1>2 DEF Aside, OnAir, Tasks
  <1>5. Typed' /\ Timed'
    BY <1>1, <1>2, <1>3 DEF Tasks, Timed, Forever
  <1>6. Absent' = Absent /\ Announced' = Announced
    BY <1>1 DEF Absent, Announced, Tasks
  <1>7. UplinksHaveTasks' /\ PriorityCounts'
    BY <1>1, <1>2, <1>6, Counted DEF UplinksHaveTasks, PriorityCounts, Tasks
  <1>8. RepliesFindRadioOn' /\ PlacesOK' /\ Beginning'
    BY <1>1, <1>2 DEF RepliesFindRadioOn, PlacesOK, Beginning, Tasks
  <1> QED BY <1>4, <1>5, <1>7, <1>8, AsideSteps

\* An uplink that is handed over has a task to take it
LEMMA HandOverStep ==
    ASSUME GatewayInv, HandOver
    PROVE  GatewayInv'
  <1> USE Names, Times DEF GatewayInv, Typed, lockVars, queueVars, radioVars, multicastVars, beaconVars, Due
  <1>0. Absent # {}
    <2>1. pc["run"] = "process" \/ uplinks > 0
      BY DEF HandOver
    <2>2. Cardinality(Absent) # 0
      BY <2>1, Counted DEF UplinksHaveTasks
    <2>3. Absent = {} => Cardinality(Absent) = 0
      BY FS_EmptySet
    <2> QED BY <2>2, <2>3
  <1> DEFINE r == CHOOSE x \in Absent : TRUE
  <1>1. r \in Absent /\ r \in Replies /\ pc[r] = "absent" /\ r \in Tasks /\ r # "run"
    BY <1>0 DEF Absent, Tasks
  <1>2. PICK reply \in {"forward", "done"} :
            pc' = [pc EXCEPT !["run"] = "probe", ![r] = reply]
    BY DEF HandOver
  <1>3. /\ left' = [left EXCEPT !["run"] = ProbeTime(uplinks')]
        /\ \/ pc["run"] = "process" /\ uplinks' = uplinks
           \/ pc["run"] = "probe" /\ uplinks > 0 /\ uplinks' = uplinks - 1
        /\ UNCHANGED <<lockVars, priority, radio, rate, multicastVars, beaconVars, rest>>
    BY DEF HandOver
  <1> HIDE DEF r
  <1>4. /\ \A t \in Tasks \ {"run", r} : pc'[t] = pc[t] /\ left'[t] = left[t]
        /\ pc'["run"] = "probe" /\ left'["run"] \in Nat /\ pc'[r] = reply /\ left'[r] = left[r]
    BY <1>1, <1>2, <1>3 DEF Tasks, ProbeTime
  <1>5. Aside
    BY <1>1, <1>3, <1>4 DEF Aside, OnAir, Tasks
  <1>6. Typed' /\ Timed'
    <2>1. pc' \in [Tasks -> PCs] /\ left' \in [Tasks -> Nat \cup {Forever}]
      BY <1>1, <1>2, <1>3 DEF Tasks, PCs, ProbeTime
    <2>2. Typed'
      BY <2>1, <1>3
    <2>3. Timed'
      <3> SUFFICES ASSUME NEW t \in Tasks, left'[t] = Forever PROVE pc'[t] \in {"get", "poll"}
        BY DEF Timed
      <3>1. t # "run"
        BY <1>4 DEF Forever
      <3>2. left[t] = Forever /\ pc[t] \in {"get", "poll"}
        BY <1>4, <3>1 DEF Timed
      <3> QED BY <1>1, <1>4, <3>1, <3>2
    <2> QED BY <2>2, <2>3
  <1>7. Absent' = Absent \ {r} /\ Announced' = Announced
    <2>1. \A x \in Replies : x = r \/ pc'[x] = pc[x]
      BY <1>4 DEF Tasks
    <2>2. pc'[r] \in {"forward", "done"}
      BY <1>4
    <2> QED BY <2>1, <2>2, <1>1 DEF Absent, Announced
  <1>8. Cardinality(Absent') = Cardinality(Absent) - 1
    BY <1>1, <1>7, Counted, FS_RemoveElement
  <1>9. UplinksHaveTasks'
    BY <1>3, <1>4, <1>8, Counted DEF UplinksHaveTasks
  <1>10. PriorityCounts'
    BY <1>1, <1>3, <1>4, <1>7 DEF PriorityCounts, Tasks
  <1>11. radio # "OFF" /\ (next_beacon = None => pc["beacon"] = "absent")
    BY <1>3 DEF RepliesFindRadioOn, Beginning
  <1>12. RepliesFindRadioOn' /\ PlacesOK' /\ Beginning'
    BY <1>1, <1>3, <1>4, <1>11 DEF RepliesFindRadioOn, PlacesOK, Beginning, Tasks
  <1> QED BY <1>5, <1>6, <1>9, <1>10, <1>12, AsideSteps

\* A reply is announced
LEMMA ForwardStep ==
    ASSUME GatewayInv, NEW r \in Replies, ForwardUplink(r)
    PROVE  GatewayInv'
  <1> USE Names, Times DEF GatewayInv, Typed, lockVars, queueVars, radioVars, multicastVars, beaconVars, Due, Moves
  <1> USE DEF ForwardUplink
  <1>1. /\ \A t \in Tasks \ {r} : pc'[t] = pc[t] /\ left'[t] = left[t]
        /\ pc[r] = "forward" /\ pc'[r] = "await" /\ left'[r] = ReceiveDelay1
        /\ r \in Tasks /\ r \notin {"run", "multicast", "beacon"}
    BY DEF Tasks
  <1>2. Aside
    BY <1>1 DEF Aside, OnAir, Tasks
  <1>3. Typed' /\ Timed'
    BY <1>1 DEF PCs, Timed, Forever
  <1>4. Absent' = Absent /\ Announced' = Announced \cup {r} /\ r \notin Announced
    BY <1>1 DEF Absent, Announced, Tasks
  <1>5. UplinksHaveTasks'
    BY <1>1, <1>4 DEF UplinksHaveTasks, Tasks
  <1>6. PriorityCounts'
    <2>1. Cardinality(Announced') = Cardinality(Announced) + 1
      BY <1>4, Counted, FS_AddElement
    <2>2. priority' = priority + 1 /\ pc'["beacon"] = pc["beacon"]
      BY <1>1 DEF Tasks
    <2> QED BY <2>1, <2>2, Counted DEF PriorityCounts
  <1>7. RepliesFindRadioOn' /\ PlacesOK' /\ Beginning'
    BY <1>1 DEF RepliesFindRadioOn, PlacesOK, Beginning, Tasks
  <1> QED BY <1>2, <1>3, <1>5, <1>6, <1>7, AsideSteps

\* A downlink enters the queue
LEMMA ScheduleStep ==
    ASSUME GatewayInv, NEW f \in Frames, ScheduleMulticastDownlink(f)
    PROVE  GatewayInv'
  <1> USE Names DEF GatewayInv, lockVars, queueVars, radioVars, beaconVars, ScheduleMulticastDownlink
  <1>1. Aside
    BY DEF Aside, OnAir
  <1>2. queue' \in Seq(Entries)
    <2> DEFINE n == Cardinality({i \in DOMAIN queue : queue[i].due <= DueTime[f]})
               e == [frame |-> f, due |-> DueTime[f]]
    <2>1. queue \in Seq(Entries) /\ e \in Entries
      BY GatewayAssumption DEF Typed, Entries, ASAP
    <2>2. n \in 0 .. Len(queue)
      BY <2>1, Indices
    <2>3. queue' = InsertAt(queue, n + 1, e)
      OBVIOUS
    <2> HIDE DEF n, e
    <2> QED BY <2>1, <2>2, <2>3, Inserted
  <1>3. Typed' /\ Timed'
    BY <1>2 DEF Typed, Timed
  <1>4. UplinksHaveTasks' /\ PriorityCounts'
    BY DEF UplinksHaveTasks, PriorityCounts, Absent, Announced
  <1>5. RepliesFindRadioOn' /\ PlacesOK' /\ Beginning'
    BY DEF RepliesFindRadioOn, PlacesOK, Beginning
  <1> QED BY <1>1, <1>3, <1>4, <1>5, AsideSteps

-----------------------------------------------------------------------------
(* Taking the transmitter, and releasing it.                               *)

\* What task t does when it takes the transmitter for `a' ticks
LEMMA Taken ==
    ASSUME Typed, NEW t \in Senders, NEW a \in Nat, AirTime(t)' = a,
           NEW state \in {"OFF", "STANDBY", "RX", "TX"}, TakeTransmitter(t, a, state)
    PROVE  /\ pc' \in [Tasks -> PCs] /\ left' \in [Tasks -> Nat \cup {Forever}]
           /\ \A x \in Tasks \ {t} : pc'[x] = pc[x] /\ left'[x] = left[x]
           /\ holder' = t /\ radio' \in {"STANDBY", "TX"} /\ busy' = a
           /\ left'[t] \in Nat /\ AirLeft(t)' \in Nat /\ AirLeft(t)' <= a + Slack
           /\ \/ pc'[t] = "startup" /\ state = "OFF" /\ left'[t] = StandbyTime /\ radio' = "STANDBY"
              \/ pc'[t] = "tx" /\ state # "OFF" /\ a <= left'[t] /\ left'[t] <= a + MaxExtra[t]
  <1> USE Names, Times DEF Typed
  <1>1. MaxExtra[t] \in Nat /\ Slack \in Nat /\ StandbyTime + MaxExtra[t] <= Slack
    BY Bounds DEF Senders
  <1>2. t \in Tasks
    BY DEF Senders, Tasks
  <1>3. CASE state = "OFF"
    <2>1. /\ pc' = [pc EXCEPT ![t] = "startup"] /\ left' = [left EXCEPT ![t] = StandbyTime]
          /\ holder' = t /\ radio' = "STANDBY" /\ busy' = a
      BY <1>3 DEF TakeTransmitter, Moves
    <2>2. AirLeft(t)' = StandbyTime + a + MaxExtra[t]
      BY <2>1, <1>2 DEF AirLeft
    <2>3. pc' \in [Tasks -> PCs] /\ left' \in [Tasks -> Nat \cup {Forever}]
      BY <2>1 DEF PCs
    <2> QED BY <1>1, <1>2, <1>3, <2>1, <2>2, <2>3
  <1>4. CASE state # "OFF"
    <2>1. PICK extra \in 0 .. MaxExtra[t] :
            /\ pc' = [pc EXCEPT ![t] = "tx"] /\ left' = [left EXCEPT ![t] = a + extra]
            /\ holder' = t /\ radio' = "TX" /\ busy' = a
      BY <1>4 DEF TakeTransmitter, Moves
    <2>2. AirLeft(t)' = a + extra /\ extra \in Nat /\ extra <= MaxExtra[t]
      BY <2>1, <1>1, <1>2 DEF AirLeft
    <2>3. pc' \in [Tasks -> PCs] /\ left' \in [Tasks -> Nat \cup {Forever}]
      BY <2>1, <2>2 DEF PCs
    <2>4. AirLeft(t)' \in Nat /\ AirLeft(t)' <= a + Slack /\ a <= a + extra /\ a + extra <= a + MaxExtra[t]
      BY <1>1, <2>2, SMTT(20)
    <2> QED BY <1>2, <1>4, <2>1, <2>3, <2>4
  <1> QED BY <1>3, <1>4

\* The quiet time that is reserved for the frame
LEMMA Reserved ==
    ASSUME Typed, NEW a \in Nat, Reserve(a)
    PROVE  /\ quiet_factor' = quiet_factor /\ quiet' \in Nat /\ quiet' >= quiet
           /\ quiet_factor # 0 => quiet' >= a + a * quiet_factor
  <1>1. quiet_factor \in Nat /\ quiet \in Nat
    BY DEF Typed
  <1>2. a * quiet_factor \in Nat /\ a * (1 + quiet_factor) = a + a * quiet_factor
    BY <1>1
  <1> QED BY <1>1, <1>2 DEF Reserve, Later

\* What is left of the frame on the air
LEMMA HolderOnAir ==
    ASSUME GatewayInv, holder # None
    PROVE  /\ holder \in Senders /\ OnAir(holder) /\ (holder = "multicast" => sending \in Frames)
           /\ AirTime(holder) \in Nat /\ AirTime(holder) <= LongestFrame
           /\ left[holder] \in Nat /\ AirLeft(holder) \in Nat
  <1>1. holder \in Senders /\ OnAir(holder)
    BY Names DEF GatewayInv, Typed, OneFrameAtATime, Tasks, Senders
  <1>2. holder = "multicast" => sending \in Frames
    BY <1>1 DEF GatewayInv, PlacesOK, OnAir
  <1>3. AirTime(holder) \in Nat /\ AirTime(holder) <= LongestFrame
    BY <1>1, <1>2, AirTimes
  <1>4. left[holder] \in Nat
    BY <1>1, Names DEF GatewayInv, Typed, Timed, OnAir, Forever
  <1>5. MaxExtra[holder] \in Nat
    BY <1>1, Times
  <1> QED BY <1>1, <1>2, <1>3, <1>4, <1>5 DEF AirLeft

\* The rest that the duty cycle asks for at the end of a frame is covered
LEMMA RestCovered ==
    ASSUME GatewayInv, NEW t \in Senders, Due(t, "tx"), Rested(t)
    PROVE  /\ holder = t /\ busy = 0 /\ AirLeft(t) = 0
           /\ rest' \in Nat /\ (quiet_factor = 0 => rest' = 0)
           /\ quiet_factor # 0 => rest' <= quiet + Slack
  <1>1. holder = t /\ t # None
    BY Names DEF GatewayInv, OneFrameAtATime, OnAir, Due, Senders
  <1>2. AirLeft(t) = 0
    BY DEF AirLeft, Due
  <1>3. busy = 0
    BY <1>1 DEF GatewayInv, Estimated, Typed, Due
  <1>4. AirTime(t) \in Nat
    BY <1>1, HolderOnAir
  <1>5. /\ AirTime(t) * quiet_factor \in Nat /\ quiet_factor \in Nat /\ quiet \in Nat /\ rest \in Nat
        /\ quiet_factor = 0 => AirTime(t) * quiet_factor = 0
    BY <1>4 DEF GatewayInv, Typed
  <1>6. /\ quiet_factor = 0 => rest = 0
        /\ quiet_factor # 0 => rest <= quiet + Slack /\ AirTime(t) * quiet_factor + AirLeft(t) <= quiet + Slack
    BY <1>1 DEF GatewayInv, QuietCovers
  <1>7. quiet_factor # 0 => AirTime(t) * quiet_factor <= quiet + Slack
    BY <1>2, <1>5, <1>6, Bounds
  <1>8. rest' = rest \/ rest' = AirTime(t) * quiet_factor
    BY DEF Rested, Later
  <1>9. rest' \in Nat /\ (quiet_factor = 0 => rest' = 0) /\ (quiet_factor # 0 => rest' <= quiet + Slack)
    BY <1>5, <1>6, <1>7, <1>8
  <1> QED BY <1>1, <1>2, <1>3, <1>9

\* The lock, the estimate and the quiet time when the transmitter is taken
LEMMA TakeKeeps ==
    ASSUME GatewayInv, NEW t \in Senders, holder \in {None, t},
           NEW a \in Nat, AirTime(t)' = a, a <= LongestFrame,
           NEW state \in {"OFF", "STANDBY", "RX", "TX"}, TakeTransmitter(t, a, state),
           rest' \in Nat, quiet_factor = 0 => rest' = 0, quiet_factor # 0 => rest' <= quiet + Slack
    PROVE  OneFrameAtATime' /\ Estimated' /\ QuietCovers'
  <1> USE Names
  <1>1. Typed /\ t # None /\ t # "run" /\ t \in Tasks
    BY DEF GatewayInv, Senders, Tasks
  <1>2. /\ \A x \in Tasks \ {t} : pc'[x] = pc[x]
        /\ holder' = t /\ busy' = a /\ AirLeft(t)' \in Nat
        /\ AirLeft(t)' <= a + Slack /\ left'[t] \in Nat
        /\ pc'[t] = "startup" \/ (pc'[t] = "tx" /\ a <= left'[t])
    BY <1>1, Taken
  <1>3. OneFrameAtATime'
    BY <1>1, <1>2 DEF GatewayInv, OneFrameAtATime, OnAir
  <1>4. Estimated'
    BY <1>1, <1>2, Bounds DEF Estimated
  <1>5. QuietCovers'
    <2>1. /\ quiet_factor' = quiet_factor /\ quiet' \in Nat /\ quiet' >= quiet
          /\ quiet_factor # 0 => quiet' >= a + a * quiet_factor
      BY <1>1, Reserved DEF TakeTransmitter
    <2>2. quiet \in Nat /\ quiet_factor \in Nat /\ a * quiet_factor \in Nat
      BY <1>1 DEF Typed
    <2>3. Slack \in Nat
      BY Bounds
    <2>4. quiet_factor # 0 => rest' <= quiet' + Slack
      <3>1. quiet' \in Nat /\ quiet' >= quiet /\ quiet \in Nat
        BY <2>1, <2>2
      <3>2. \A x, y, z, c \in Nat : x <= y + c /\ z >= y => x <= z + c
        OBVIOUS
      <3> QED BY <3>1, <3>2, <2>3
    <2>5. quiet_factor # 0 => a * quiet_factor + AirLeft(t)' <= quiet' + Slack
      BY <1>2, <2>1, <2>2, <2>3
    <2> QED BY <1>2, <2>1, <2>4, <2>5 DEF QuietCovers
  <1> QED BY <1>3, <1>4, <1>5

\* The same when it is released at the end of a frame, with the waiting beacon
LEMMA FreeKeeps ==
    ASSUME GatewayInv, NEW t \in Senders, Due(t, "tx"), Rested(t), holder' = None,
           UNCHANGED <<busy, quiet_factor, quiet>>,
           \A x \in Tasks \ {t} : pc'[x] = pc[x] /\ left'[x] = left[x],
           pc'[t] \notin {"startup", "tx"}
    PROVE  /\ OneFrameAtATime' /\ Estimated' /\ QuietCovers'
           /\ t # "beacon" /\ UNCHANGED beaconVars => BeaconOnTime'
  <1> USE Names
  <1>1. /\ holder = t /\ busy = 0 /\ AirLeft(t) = 0
        /\ rest' \in Nat /\ (quiet_factor = 0 => rest' = 0)
        /\ quiet_factor # 0 => rest' <= quiet + Slack
    BY RestCovered
  <1>2. t # None /\ None \notin Tasks
    BY DEF Senders, Tasks
  <1>3. OneFrameAtATime'
    BY <1>1, <1>2 DEF GatewayInv, OneFrameAtATime, OnAir
  <1>4. Estimated' /\ QuietCovers'
    BY <1>1 DEF Estimated, QuietCovers
  <1>5. ASSUME t # "beacon", UNCHANGED beaconVars
        PROVE  BeaconOnTime'
    <2>1. /\ pc'["beacon"] = pc["beacon"] /\ left'["beacon"] = left["beacon"]
          /\ next_beacon' = next_beacon /\ slots' = slots
      BY <1>5 DEF Tasks, beaconVars
    <2>2. holder # "beacon" /\ pc["beacon"] \notin {"startup", "tx"}
      BY <1>1, <1>5 DEF GatewayInv, OneFrameAtATime, OnAir, Tasks
    <2>3. next_beacon # None /\ pc["beacon"] = "wait" =>
            left["beacon"] <= 1 /\ next_beacon >= -(LongestFrame + Slack)
      BY <1>1, <1>2, Bounds DEF GatewayInv, BeaconOnTime, Later
    <2>4. left["beacon"] \in Nat \cup {-1} /\ (next_beacon # None => next_beacon \in Int)
      BY DEF GatewayInv, Typed, Tasks, Forever
    <2>5. next_beacon # None /\ pc["beacon"] = "wait" =>
            next_beacon >= left["beacon"] - (LongestFrame + Slack + 1)
      BY <2>3, <2>4, Bounds
    <2>6. busy' = busy /\ busy \in Nat
      BY <1>1
    <2> QED BY <2>1, <2>2, <2>3, <2>5, <2>6 DEF GatewayInv, BeaconOnTime, TicksTo, Later
  <1> QED BY <1>3, <1>4, <1>5

\* A radio that has started sends the frame
LEMMA StartupStep ==
    ASSUME GatewayInv, NEW t \in {"multicast", "beacon"}, TransmitAfterStartup(t)
    PROVE  GatewayInv'
  <1> USE Names, Times
  <1>1. PICK extra \in 0 .. MaxExtra[t] :
            pc' = [pc EXCEPT ![t] = "tx"] /\ left' = [left EXCEPT ![t] = AirTime(t) + extra]
    BY DEF TransmitAfterStartup, Moves
  <1>2. /\ pc[t] = "startup" /\ left[t] = 0 /\ radio' = "TX"
        /\ UNCHANGED <<lockVars, priority, rate, uplinks, multicastVars, beaconVars, rest>>
    BY DEF TransmitAfterStartup, Due, queueVars
  <1>3. t \in Senders /\ t \in Tasks /\ holder = t /\ t # "run" /\ t # None /\ t \notin Replies
    BY <1>2 DEF GatewayInv, OneFrameAtATime, OnAir, Senders, Tasks
  <1>4. AirTime(t) \in Nat /\ MaxExtra[t] \in Nat /\ extra \in Nat /\ extra <= MaxExtra[t]
    BY <1>1, <1>3, HolderOnAir
  <1>5. /\ pc' \in [Tasks -> PCs] /\ left' \in [Tasks -> Nat \cup {Forever}]
        /\ pc'[t] = "tx" /\ left'[t] = AirTime(t) + extra
        /\ \A x \in Tasks \ {t} : pc'[x] = pc[x] /\ left'[x] = left[x]
    BY <1>1, <1>3, <1>4 DEF GatewayInv, Typed, PCs
  <1>6. AirTime(t)' = AirTime(t)
    BY <1>2 DEF AirTime, multicastVars, beaconVars
  <1>7. AirLeft(t)' = AirTime(t) + extra /\ AirLeft(t) = AirTime(t) + MaxExtra[t]
    BY <1>2, <1>4, <1>5 DEF AirLeft
  <1>8. Typed'
    BY <1>2, <1>5 DEF GatewayInv, Typed, lockVars, multicastVars, beaconVars
  <1>9. Timed'
    <2>1. left'[t] \in Nat
      BY <1>4, <1>5
    <2> QED BY <2>1, <1>5 DEF GatewayInv, Timed, Forever
  <1>10. Absent' = Absent /\ Announced' = Announced
    <2>1. \A x \in Replies : pc'[x] = pc[x]
      BY <1>3, <1>5 DEF Tasks
    <2> QED BY <2>1 DEF Absent, Announced
  <1>11. UplinksHaveTasks'
    BY <1>2, <1>3, <1>5, <1>10 DEF GatewayInv, UplinksHaveTasks, Tasks
  <1>12. PriorityCounts'
    <2>1. priority' = priority
      BY <1>2
    <2>2. pc'["beacon"] \in {"wait", "startup", "tx"} <=> pc["beacon"] \in {"wait", "startup", "tx"}
      BY <1>2, <1>3, <1>5 DEF Tasks
    <2> QED BY <2>1, <2>2, <1>10 DEF GatewayInv, PriorityCounts
  <1>13. RepliesFindRadioOn'
    BY <1>2, <1>3, <1>5 DEF GatewayInv, RepliesFindRadioOn, Tasks, lockVars, beaconVars
  <1>14. PlacesOK' /\ Beginning'
    BY <1>2, <1>3, <1>5 DEF GatewayInv, PlacesOK, Beginning, Tasks, multicastVars, beaconVars
  <1>15. OneFrameAtATime' /\ RepliesNeverDelayBeacons' /\ RateRestored'
    BY <1>2, <1>3, <1>5
    DEF GatewayInv, OneFrameAtATime, RepliesNeverDelayBeacons, RateRestored, OnAir, Tasks, lockVars,
        beaconVars
  <1>16. Estimated'
    <2>1. busy \in Nat /\ busy <= AirTime(t) /\ AirLeft(t) <= LongestFrame + Slack
      BY <1>2, <1>3, <1>4 DEF GatewayInv, Estimated, Typed
    <2>2. holder' = t /\ busy' = busy
      BY <1>2, <1>3 DEF lockVars
    <2> QED BY <2>1, <2>2, <1>3, <1>4, <1>5, <1>7, Bounds DEF Estimated
  <1>17. QuietCovers'
    <2>1. quiet_factor \in Nat /\ AirTime(t) * quiet_factor \in Nat /\ quiet \in Nat
      BY <1>4 DEF GatewayInv, Typed
    <2>2. quiet_factor # 0 => AirTime(t) * quiet_factor + AirLeft(t) <= quiet + Slack
      BY <1>3 DEF GatewayInv, QuietCovers
    <2>3. quiet_factor # 0 => AirTime(t) * quiet_factor + AirLeft(t)' <= quiet + Slack
      BY <2>1, <2>2, <1>4, <1>7, Bounds
    <2> QED BY <2>3, <1>2, <1>3, <1>6 DEF GatewayInv, QuietCovers, lockVars
  <1>18. BeaconOnTime'
    <2>1. next_beacon' = next_beacon /\ slots' = slots /\ holder' = t /\ busy' = busy
      BY <1>2, <1>3 DEF lockVars, beaconVars
    <2>2. CASE t = "beacon"
      BY <2>1, <2>2, <1>5 DEF BeaconOnTime
    <2>3. CASE t = "multicast"
      <3>1. pc'["beacon"] = pc["beacon"] /\ left'["beacon"] = left["beacon"]
        BY <2>3, <1>5 DEF Tasks
      <3>2. next_beacon \in Int /\ next_beacon >= AirLeft(t) - (LongestFrame + Slack)
            => next_beacon >= AirLeft(t)' - (LongestFrame + Slack)
        BY <1>4, <1>7, Bounds
      <3>3. next_beacon # None => next_beacon \in Int
        BY DEF GatewayInv, Typed
      <3> QED BY <2>1, <3>1, <3>2, <3>3, <1>3 DEF GatewayInv, BeaconOnTime, TicksTo
    <2> QED BY <2>2, <2>3
  <1> QED BY <1>8, <1>9, <1>11, <1>12, <1>13, <1>14, <1>15, <1>16, <1>17, <1>18 DEF GatewayInv

-----------------------------------------------------------------------------
(* Replies and the beacon.                                                 *)

LEMMA Delays ==
    /\ Patience \in Nat /\ Patience < BeaconReserved /\ ReceiveDelay1 > 1
    /\ ReceiveDelay1 + TXBackoff <= Patience
    /\ Patience = ReceiveDelay1 + TXBackoff + StandbyTime
  BY Times, DelayAssumption DEF Patience

LEMMA TimelyInit == Init => TimelyInv
  <1> SUFFICES ASSUME Init PROVE TimelyInv
    OBVIOUS
  <1>1. /\ pc["run"] = "probe" /\ left["run"] = 1 /\ uplinks = 0 /\ holder = None
        /\ pc["multicast"] = "poll" /\ pc["beacon"] \in {"absent", "await"}
        /\ \A r \in Replies : pc[r] = "absent" /\ left[r] = 0
    BY Names DEF Init, Tasks
  <1> QED BY <1>1 DEF TimelyInv, LoopTimes, DeafOnAir, RepliesTimely

\* What is known while a beacon waits
LEMMA Waiting ==
    ASSUME GatewayInv, TimelyInv, pc["beacon"] = "wait"
    PROVE  /\ next_beacon \in Int /\ left["beacon"] \in Nat
           /\ priority > 0
           /\ pc["run"] \in {"probe", "get", "process", "backoff"}
           /\ pc["run"] # "get" => left["run"] \in Nat /\ left["run"] <= TXBackoff
           /\ holder = None => left["beacon"] <= 1
  <1> USE Names, Times DEF GatewayInv
  <1>1. next_beacon \in Int /\ next_beacon # None /\ left["beacon"] \in Nat
    BY DEF Beginning, Typed, Timed, Tasks, Forever
  <1>2. priority > 0
    BY Counted DEF PriorityCounts
  <1>3. pc["run"] \in {"probe", "get", "process", "backoff"}
    BY DEF PlacesOK, TimelyInv, LoopTimes
  <1>4. left["run"] \in Nat \cup {-1}
    BY DEF Typed, Tasks, Forever
  <1>5. pc["run"] # "get" => left["run"] \in Nat
    BY <1>3, <1>4 DEF Timed, Tasks, Forever
  <1>6. pc["run"] # "get" => left["run"] <= TXBackoff
    BY <1>3, <1>5 DEF TimelyInv, LoopTimes
  <1>7. holder = None => left["beacon"] <= 1
    BY <1>1 DEF BeaconOnTime, Estimated, Later
  <1> QED BY <1>1, <1>2, <1>3, <1>5, <1>6, <1>7

\* Steps that bring nobody closer to RX1: the beacon begins to wait, when it is not late, or its
\* wait goes on, or it does not wait
LEMMA NoReplyComesCloser ==
    ASSUME GatewayInv, TimelyInv,
           pc'["run"] = pc["run"], left'["run"] = left["run"], uplinks' = uplinks,
           pc["beacon"] = "absent" => pc'["beacon"] = "absent",
           \A r \in Replies : \/ pc'[r] = pc[r] /\ left'[r] = left[r]
                              \/ pc'[r] \notin {"absent", "forward", "await"},
           \/ pc'["beacon"] # "wait"
           \/ next_beacon' \in Nat
           \/ /\ pc["beacon"] = "wait" /\ next_beacon' = next_beacon
              /\ holder = None => holder' = None /\ left'["beacon"] = left["beacon"]
    PROVE  LoopTimes' /\ RepliesTimely'
  <1> USE DEF TimelyInv
  <1>1. LoopTimes'
    BY DEF LoopTimes
  <1>2. \A r \in Replies : /\ pc'[r] \in {"absent", "forward"} => left'[r] = 0
                           /\ pc'[r] = "await" => left'[r] <= ReceiveDelay1
    BY DEF RepliesTimely
  <1>3. CASE pc'["beacon"] # "wait"
    BY <1>1, <1>2, <1>3 DEF RepliesTimely
  <1>4. CASE pc'["beacon"] = "wait" /\ next_beacon' \in Nat
    <2>1. \A n \in Int : n <= ReceiveDelay1 => n <= next_beacon' + Patience
      BY <1>4, Delays, Times
    <2>2. \A r \in Replies : pc'[r] = "await" => left'[r] \in Int
      BY DEF GatewayInv, Typed, Tasks, Forever
    <2>3. uplinks' > 0 \/ pc'["run"] = "process" => left'["run"] + ReceiveDelay1 <= next_beacon' + Patience
      <3>1. pc["run"] # "get" /\ pc["run"] # "startup"
            => left["run"] \in Nat \cup {-1} /\ left["run"] <= TXBackoff
        <4>1. left["run"] \in Nat \cup {-1} /\ TXBackoff >= 1 /\ TXBackoff \in Nat
          BY Times DEF GatewayInv, Typed, Tasks, Forever
        <4> QED BY <4>1 DEF GatewayInv, PlacesOK, LoopTimes
      <3>2. pc["run"] # "startup"
        BY <1>4 DEF LoopTimes
      <3>3. pc["run"] = "get" => uplinks = 0
        BY DEF LoopTimes
      <3> QED BY <1>4, <3>1, <3>2, <3>3, Delays, Times
    <2> QED BY <1>1, <1>2, <1>4, <2>1, <2>2, <2>3, Times DEF RepliesTimely
  <1>5. CASE /\ pc'["beacon"] = "wait" /\ pc["beacon"] = "wait" /\ next_beacon' = next_beacon
             /\ holder = None => holder' = None /\ left'["beacon"] = left["beacon"]
    BY <1>1, <1>2, <1>5 DEF RepliesTimely
  <1> QED BY <1>3, <1>4, <1>5

-----------------------------------------------------------------------------
(* Replies.                                                                *)

\* When RX1 of a reply opens and the transmitter is free, no beacon is later than BEACON_RESERVED:
\* the frame it waited for would have let the reply's time pass
LEMMA BeaconNotLate ==
    ASSUME GatewayInv, TimelyInv, NEW r \in Replies, Due(r, "await"), next_beacon # None, holder = None
    PROVE  /\ next_beacon \in Int /\ next_beacon + BeaconReserved > 0
           /\ pc["beacon"] \in {"await", "slot", "wait"}
  <1> USE Names, Times DEF GatewayInv
  <1>1. next_beacon \in Int /\ left["beacon"] \in Nat \cup {-1} /\ slots \in Seq(SlotOffsets)
    BY DEF Typed, Tasks, Forever
  <1>2. pc["beacon"] \in {"await", "slot", "wait"}
    BY DEF PlacesOK, OneFrameAtATime, OnAir, Tasks
  <1>3. left["beacon"] \in Nat
    BY <1>1, <1>2 DEF Timed, Tasks, Forever
  <1>4. Patience \in Nat /\ Patience < BeaconReserved /\ BeaconReserved > 0
    BY DelayAssumption DEF Patience
  <1>5. CASE pc["beacon"] = "await"
    <2>1. left["beacon"] = next_beacon
      BY <1>5 DEF BeaconOnTime
    <2> QED BY <1>2, <1>3, <1>4, <2>1
  <1>6. CASE pc["beacon"] = "slot"
    <2>1. /\ left["beacon"] = Head(slots) - (BeaconInterval - next_beacon)
          /\ Head(slots) < BeaconInterval - BeaconGuard
      BY <1>6 DEF BeaconOnTime, TicksTo
    <2>2. Head(slots) \in Nat
      <3>1. slots # <<>>
        BY <1>6 DEF PlacesOK
      <3>2. Head(slots) \in SlotOffsets
        BY <1>1, <3>1, HeadTailProperties
      <3> QED BY <3>2
    <2> QED BY <1>1, <1>2, <1>3, <1>4, <2>1, <2>2, SMTT(20)
  <1>7. CASE pc["beacon"] = "wait"
    <2>1. 0 <= next_beacon + Patience
      BY <1>3, <1>7 DEF TimelyInv, RepliesTimely, Due
    <2> QED BY <1>1, <1>2, <1>4, <2>1
  <1> QED BY <1>2, <1>5, <1>6, <1>7

\* The reply is skipped
LEMMA ReplySkipped ==
    ASSUME GatewayInv, NEW r \in Replies, Due(r, "await"), priority' = priority - 1,
           Moves(r, "done", 0),
           UNCHANGED <<lockVars, radioVars, multicastVars, beaconVars, rest>>
    PROVE  GatewayInv'
  <1> USE Names DEF GatewayInv, lockVars, queueVars, radioVars, multicastVars, beaconVars
  <1>1. r \in Tasks /\ r \notin {"run", "multicast", "beacon"} /\ pc[r] = "await"
    BY DEF Tasks, Due
  <1>2. /\ pc' \in [Tasks -> PCs] /\ left' \in [Tasks -> Nat \cup {Forever}]
        /\ pc'[r] = "done" /\ left'[r] = 0
        /\ \A t \in Tasks \ {r} : pc'[t] = pc[t] /\ left'[t] = left[t]
    BY <1>1 DEF Typed, Moves, PCs
  <1>3. Aside
    BY <1>1, <1>2 DEF Aside, OnAir, Tasks
  <1>4. Typed'
    BY <1>2 DEF Typed
  <1>5. Timed'
    BY <1>2 DEF Timed, Forever
  <1>6. Absent' = Absent /\ Announced' = Announced \ {r} /\ r \in Announced
    BY <1>1, <1>2 DEF Absent, Announced, Tasks
  <1>7. UplinksHaveTasks'
    BY <1>1, <1>2, <1>6 DEF UplinksHaveTasks, Tasks
  <1>8. PriorityCounts'
    <2>1. Cardinality(Announced') = Cardinality(Announced) - 1
      BY <1>6, Counted, FS_RemoveElement
    <2>2. pc'["beacon"] = pc["beacon"]
      BY <1>1, <1>2 DEF Tasks
    <2> QED BY <2>1, <2>2, Counted DEF PriorityCounts
  <1>9. RepliesFindRadioOn' /\ PlacesOK' /\ Beginning'
    BY <1>1, <1>2 DEF RepliesFindRadioOn, PlacesOK, Beginning, Tasks
  <1> QED BY <1>3, <1>4, <1>5, <1>7, <1>8, <1>9, AsideSteps

\* The reply goes out
LEMMA ReplyTaken ==
    ASSUME GatewayInv, TimelyInv, NEW r \in Replies, Due(r, "await"), holder = None,
           ~CollidesWithBeacon(ReplyTime), TakeTransmitter(r, ReplyTime, radio),
           UNCHANGED <<priority, rate, uplinks, multicastVars, beaconVars, rest>>
    PROVE  GatewayInv'
  <1> USE Names, Times DEF multicastVars, beaconVars
  <1>1. /\ r \in Senders /\ r \in Tasks /\ r \notin {"run", "multicast", "beacon"}
        /\ pc[r] = "await" /\ Typed /\ radio \in {"STANDBY", "RX", "TX"}
    BY DEF Tasks, Senders, Due, GatewayInv, RepliesFindRadioOn, Typed
  <1>2. AirTime(r)' = ReplyTime /\ AirTime(r) = ReplyTime
    BY DEF AirTime
  <1>3. /\ pc' \in [Tasks -> PCs] /\ left' \in [Tasks -> Nat \cup {Forever}]
        /\ \A x \in Tasks \ {r} : pc'[x] = pc[x] /\ left'[x] = left[x]
        /\ holder' = r /\ radio' \in {"STANDBY", "TX"} /\ busy' = ReplyTime
        /\ left'[r] \in Nat /\ AirLeft(r)' \in Nat /\ AirLeft(r)' <= ReplyTime + Slack
        /\ pc'[r] = "tx" /\ left'[r] <= ReplyTime + MaxExtra[r]
    BY <1>1, <1>2, Taken, ZenonT(40)
  <1>4. OneFrameAtATime' /\ Estimated' /\ QuietCovers'
    <2>1. rest' = rest /\ rest \in Nat
      BY <1>1 DEF Typed
    <2>2. (quiet_factor = 0 => rest = 0) /\ (quiet_factor # 0 => rest <= quiet + Slack)
      BY DEF GatewayInv, QuietCovers
    <2> QED BY <2>1, <2>2, <1>1, <1>2, Bounds, TakeKeeps
  <1>5. Typed'
    <2>1. quiet_factor' \in Nat /\ quiet' \in Nat
      BY <1>1, Reserved DEF TakeTransmitter, Typed
    <2> QED BY <1>1, <1>3, <2>1 DEF Typed, Senders, Tasks
  <1>6. Timed'
    BY <1>3 DEF GatewayInv, Timed, Forever
  <1>7. Absent' = Absent /\ Announced' = Announced
    BY <1>1, <1>3 DEF Absent, Announced, Tasks
  <1>8. pc'["beacon"] = pc["beacon"] /\ left'["beacon"] = left["beacon"] /\ pc'["run"] = pc["run"]
        /\ pc'["multicast"] = pc["multicast"]
    BY <1>1, <1>3 DEF Tasks
  <1>9. UplinksHaveTasks' /\ PriorityCounts'
    BY <1>7, <1>8 DEF GatewayInv, UplinksHaveTasks, PriorityCounts
  <1>10. RepliesFindRadioOn' /\ PlacesOK'
    BY <1>1, <1>3, <1>8 DEF GatewayInv, RepliesFindRadioOn, PlacesOK, Tasks
  <1>11. next_beacon = None => pc["beacon"] = "absent"
    BY <1>1 DEF GatewayInv, Beginning
  <1>12. Beginning' /\ RateRestored'
    <2>1. Beginning'
      BY <1>8, <1>11 DEF Beginning
    <2>2. rate = OwnRate
      BY DEF GatewayInv, RateRestored, Tasks
    <2> QED BY <2>1, <2>2 DEF RateRestored
  <1>13. next_beacon # None => next_beacon \in Int /\ ReplyTime + BeaconGuard <= next_beacon
    BY BeaconNotLate DEF CollidesWithBeacon
  <1>14. RepliesNeverDelayBeacons'
    <2>1. \A x \in Replies : OnAir(x)' => x = r
      BY <1>3, <1>4 DEF OneFrameAtATime, Tasks
    <2>2. MaxExtra[r] <= BeaconGuard /\ MaxExtra[r] \in Nat
      BY <1>1, DelayAssumption
    <2>3. next_beacon # None => left'[r] <= next_beacon
      BY <1>3, <1>13, <2>2
    <2> QED BY <2>1, <2>3 DEF RepliesNeverDelayBeacons
  <1>15. BeaconOnTime'
    <2>1. AirLeft(r)' <= LongestFrame + Slack /\ LongestFrame \in Nat /\ Slack \in Nat
      BY <1>3, Bounds
    <2>2. next_beacon # None => next_beacon >= AirLeft(r)' - (LongestFrame + Slack)
      BY <1>3, <1>13, <2>1
    <2>3. busy = 0 /\ r # None
      BY <1>1 DEF GatewayInv, Estimated, Tasks
    <2>4. left["beacon"] <= Later(busy, 1) => left["beacon"] <= Later(busy', 1)
      <3>1. left["beacon"] \in Int
        BY <1>1 DEF Typed, Tasks, Forever
      <3> QED BY <3>1, <1>3, <2>3 DEF Later
    <2>5. pc["beacon"] # "startup"
      BY DEF GatewayInv, OneFrameAtATime, OnAir, Tasks
    <2> QED BY <2>2, <2>3, <2>4, <2>5, <1>3, <1>8 DEF GatewayInv, BeaconOnTime, TicksTo
  <1> QED BY <1>4, <1>5, <1>6, <1>9, <1>10, <1>12, <1>14, <1>15 DEF GatewayInv

\* The end of a reply
LEMMA ReplyEndsStep ==
    ASSUME GatewayInv, NEW r \in Replies, ReplyEnds(r)
    PROVE  GatewayInv'
  <1> USE Names DEF multicastVars, beaconVars
  <1>1. /\ r \in Senders /\ r \in Tasks /\ r \notin {"run", "multicast", "beacon"}
        /\ pc[r] = "tx" /\ Typed /\ Due(r, "tx") /\ Rested(r)
        /\ holder' = None /\ radio' = "RX" /\ UNCHANGED <<busy, quiet_factor, quiet>>
        /\ priority' = priority - 1 /\ UNCHANGED <<rate, uplinks, multicastVars, beaconVars>>
    BY DEF Tasks, Senders, Due, GatewayInv, ReplyEnds, FreeTransmitter, queueVars
  <1>2. /\ pc' \in [Tasks -> PCs] /\ left' \in [Tasks -> Nat \cup {Forever}]
        /\ pc'[r] = "done" /\ left'[r] = 0
        /\ \A x \in Tasks \ {r} : pc'[x] = pc[x] /\ left'[x] = left[x]
    BY <1>1 DEF ReplyEnds, Moves, Typed, PCs
  <1>3. holder = r /\ rest' \in Nat
    BY <1>1, RestCovered
  <1>4. OneFrameAtATime' /\ Estimated' /\ QuietCovers' /\ BeaconOnTime'
    BY <1>1, <1>2, FreeKeeps
  <1>5. Typed'
    BY <1>1, <1>2, <1>3 DEF Typed
  <1>6. Timed'
    BY <1>2 DEF GatewayInv, Timed, Forever
  <1>7. Absent' = Absent /\ Announced' = Announced \ {r} /\ r \in Announced
    BY <1>1, <1>2 DEF Absent, Announced, Tasks
  <1>8. pc'["beacon"] = pc["beacon"] /\ pc'["run"] = pc["run"] /\ pc'["multicast"] = pc["multicast"]
    BY <1>1, <1>2 DEF Tasks
  <1>9. UplinksHaveTasks'
    BY <1>1, <1>7, <1>8 DEF GatewayInv, UplinksHaveTasks
  <1>10. PriorityCounts'
    <2>1. Cardinality(Announced') = Cardinality(Announced) - 1
      BY <1>7, Counted, FS_RemoveElement
    <2> QED BY <2>1, <1>1, <1>8, Counted DEF GatewayInv, PriorityCounts
  <1>11. RepliesFindRadioOn' /\ PlacesOK'
    BY <1>1, <1>2, <1>8 DEF GatewayInv, RepliesFindRadioOn, PlacesOK, Tasks
  <1>12. Beginning'
    BY <1>1, <1>8 DEF GatewayInv, Beginning
  <1>13. RateRestored'
    BY <1>1, <1>3 DEF GatewayInv, RateRestored
  <1>14. RepliesNeverDelayBeacons'
    BY <1>1, <1>2 DEF GatewayInv, RepliesNeverDelayBeacons, OnAir, Tasks
  <1> QED BY <1>4, <1>5, <1>6, <1>9, <1>10, <1>11, <1>12, <1>13, <1>14 DEF GatewayInv

LEMMA ReplySteps ==
    ASSUME GatewayInv, TimelyInv, NEW r \in Replies, ReplyStep(r)
    PROVE  GatewayInv'
  <1>1. CASE ReplyInRx1(r)
    BY <1>1, ReplySkipped, ReplyTaken DEF ReplyInRx1, queueVars, radioVars
  <1> QED BY <1>1, ForwardStep, ReplyEndsStep DEF ReplyStep

-----------------------------------------------------------------------------
(* Multicast downlinks.                                                    *)

\* A round of the scheduler ends in sleep, or with a frame that nothing holds up
LEMMA MulticastRound ==
    ASSUME GatewayInv, NEW lock, NEW state, MulticastScheduler(lock, state)
    PROVE  /\ queue' \in Seq(Entries) /\ batch' \in Seq(Frames)
           /\ \/ \E ticks \in Nat \cup {Forever} : Sleeps(lock, state, ticks)
              \/ ~HeldUp(lock) /\ \E f \in Frames : TransmitMulticast(f, state)
  <1>1. queue \in Seq(Entries) /\ batch \in Seq(Frames) /\ quiet \in Nat
    BY DEF GatewayInv, Typed
  <1>2. DueFrames \in Seq(Frames) /\ Remaining \in Seq(Entries)
    BY <1>1, PoppedFrames
  <1> DEFINE popped == IF batch = <<>> THEN DueFrames ELSE batch
             wait == IF Remaining = <<>> \/ Remaining[1].due > PollInterval
                       THEN PollInterval ELSE Remaining[1].due
  <1>3. popped \in Seq(Frames)
    BY <1>1, <1>2
  <1>4. wait \in Nat \cup {Forever}
    <2>1. PollInterval \in Nat
      BY Times
    <2>2. Remaining # <<>> => Remaining[1] \in Entries
      BY <1>2, LenProperties, EmptySeq
    <2>3. Remaining # <<>> => Remaining[1].due \in Nat \cup {Forever}
      BY <2>2 DEF Entries, ASAP, Forever
    <2> QED BY <2>1, <2>3
  <1>5. CASE /\ HeldUp(lock) /\ popped # <<>>
             /\ batch' = popped
             /\ queue' = IF batch = <<>> THEN Remaining ELSE queue
             /\ Sleeps(lock, state, IF priority > 0 \/ lock # None THEN PollInterval ELSE quiet)
    <2>1. PollInterval \in Nat
      BY Times
    <2>2. (IF priority > 0 \/ lock # None THEN PollInterval ELSE quiet) \in Nat \cup {Forever}
      BY <2>1, <1>1
    <2> QED BY <1>1, <1>2, <1>3, <1>5, <2>2
  <1>6. CASE /\ HeldUp(lock) => popped = <<>>
             /\ \E first \in Buildable(batch), second \in Buildable(DueFrames) :
                  LET frames == IF first = <<>> THEN second ELSE first
                  IN  /\ queue' = IF first = <<>> THEN Remaining ELSE queue
                      /\ \/ /\ frames = <<>>
                            /\ batch' = <<>>
                            /\ Sleeps(lock, state, wait)
                         \/ /\ frames # <<>>
                            /\ batch' = Tail(frames)
                            /\ TransmitMulticast(Head(frames), state)
    <2> HIDE DEF wait
    <2>1. PICK first \in Buildable(batch), second \in Buildable(DueFrames) :
                  LET frames == IF first = <<>> THEN second ELSE first
                  IN  /\ queue' = IF first = <<>> THEN Remaining ELSE queue
                      /\ \/ /\ frames = <<>>
                            /\ batch' = <<>>
                            /\ Sleeps(lock, state, wait)
                         \/ /\ frames # <<>>
                            /\ batch' = Tail(frames)
                            /\ TransmitMulticast(Head(frames), state)
      BY <1>6
    <2> DEFINE frames == IF first = <<>> THEN second ELSE first
    <2>2. /\ first \in Seq(Frames) /\ (batch = <<>> => first = <<>>)
          /\ second \in Seq(Frames) /\ (DueFrames = <<>> => second = <<>>)
      BY <1>1, <1>2, BuildableFrames
    <2>3. queue' \in Seq(Entries)
      BY <1>1, <1>2, <2>1
    <2>4. frames \in Seq(Frames) /\ (popped = <<>> => frames = <<>>)
      BY <2>2
    <2>5. \/ frames = <<>> /\ batch' = <<>> /\ Sleeps(lock, state, wait)
          \/ frames # <<>> /\ batch' = Tail(frames) /\ TransmitMulticast(Head(frames), state)
      BY <2>1
    <2> HIDE DEF frames, popped
    <2>6. CASE frames = <<>>
      <3>1. batch' \in Seq(Frames)
        BY <2>5, <2>6, EmptySeq
      <3> QED BY <2>3, <2>5, <2>6, <3>1, <1>4
    <2>7. CASE frames # <<>>
      <3>1. Head(frames) \in Frames /\ Tail(frames) \in Seq(Frames)
        BY <2>4, <2>7, HeadTailProperties
      <3>2. ~HeldUp(lock)
        BY <1>6, <2>4, <2>7
      <3> QED BY <2>3, <2>5, <2>7, <3>1, <3>2
    <2> QED BY <2>6, <2>7
  <1> QED BY <1>5, <1>6 DEF MulticastScheduler

\* A frame is taken up, by a scheduler that has polled or sent the one before
LEMMA MulticastTaken ==
    ASSUME GatewayInv, NEW lock, NEW state \in {"OFF", "STANDBY", "RX", "TX"}, ~HeldUp(lock),
           NEW f \in Frames, TransmitMulticast(f, state), holder \in {None, "multicast"},
           \/ state = radio /\ pc["multicast"] = "poll" /\ rest' = rest
           \/ state = "RX" /\ Due("multicast", "tx") /\ Rested("multicast"),
           queue' \in Seq(Entries), batch' \in Seq(Frames),
           UNCHANGED <<priority, uplinks, unscheduled, beaconVars>>
    PROVE  GatewayInv' /\ rest' <= Slack
  <1> DEFINE a == FrameTime[f]
  <1> USE Names, Times DEF beaconVars
  <1>1. /\ "multicast" \in Senders /\ "multicast" \in Tasks /\ "multicast" # "run" /\ Typed
        /\ a \in Nat /\ a <= LongestFrame
    BY Bounds DEF Senders, Tasks, GatewayInv
  <1>2. sending' = f /\ AirTime("multicast")' = a /\ TakeTransmitter("multicast", a, state)
    BY DEF TransmitMulticast, AirTime
  <1> HIDE DEF a
  <1>3. /\ pc' \in [Tasks -> PCs] /\ left' \in [Tasks -> Nat \cup {Forever}]
        /\ \A x \in Tasks \ {"multicast"} : pc'[x] = pc[x] /\ left'[x] = left[x]
        /\ holder' = "multicast" /\ radio' \in {"STANDBY", "TX"} /\ busy' = a
        /\ left'["multicast"] \in Nat
        /\ \/ /\ pc'["multicast"] = "startup" /\ state = "OFF" /\ left'["multicast"] = StandbyTime
              /\ radio' = "STANDBY"
           \/ pc'["multicast"] = "tx" /\ state # "OFF"
    <2> HIDE Names, Times
    <2> QED BY <1>1, <1>2, Taken
  <1>4. priority \in Int /\ ~(priority > 0) /\ quiet = 0
    BY <1>1 DEF HeldUp, Typed
  <1>5. pc["beacon"] \notin {"wait", "startup", "tx"}
    <2>1. Cardinality(Announced) \in Nat
      BY Counted
    <2>2. priority = Cardinality(Announced) + (IF pc["beacon"] \in {"wait", "startup", "tx"} THEN 1 ELSE 0)
      BY DEF GatewayInv, PriorityCounts
    <2> HIDE Names, Times
    <2> QED BY <1>4, <2>1, <2>2
  <1>6. /\ rest' \in Nat /\ (quiet_factor = 0 => rest' = 0)
        /\ quiet_factor # 0 => rest' <= quiet + Slack
    <2>1. CASE rest' = rest
      BY <2>1, <1>1 DEF GatewayInv, QuietCovers, Typed
    <2>2. CASE Due("multicast", "tx") /\ Rested("multicast")
      BY <2>2, <1>1, RestCovered
    <2> QED BY <2>1, <2>2
  <1>7. OneFrameAtATime' /\ Estimated' /\ QuietCovers'
    BY <1>1, <1>2, <1>6, TakeKeeps
  <1>8. rest' <= Slack
    BY <1>4, <1>6, Bounds
  <1>9. Typed'
    <2>1. quiet_factor' \in Nat /\ quiet' \in Nat
      BY <1>1, <1>2, Reserved DEF TakeTransmitter, Typed
    <2> QED BY <1>1, <1>2, <1>3, <1>6, <2>1 DEF Typed
  <1>10. Timed'
    BY <1>3 DEF GatewayInv, Timed, Forever
  <1>11. pc'["beacon"] = pc["beacon"] /\ left'["beacon"] = left["beacon"]
         /\ pc'["run"] = pc["run"] /\ left'["run"] = left["run"]
         /\ \A r \in Replies : pc'[r] = pc[r] /\ left'[r] = left[r]
    BY <1>3 DEF Tasks
  <1>12. Absent' = Absent /\ Announced' = Announced
    BY <1>11 DEF Absent, Announced
  <1>13. UplinksHaveTasks' /\ PriorityCounts'
    BY <1>11, <1>12 DEF GatewayInv, UplinksHaveTasks, PriorityCounts
  <1>14. RepliesFindRadioOn'
    BY <1>3, <1>11 DEF GatewayInv, RepliesFindRadioOn
  <1>15. PlacesOK'
    BY <1>2, <1>3, <1>11 DEF GatewayInv, PlacesOK
  <1>16. Beginning'
    BY <1>3, <1>11 DEF GatewayInv, Beginning, Due
  <1>17. BeaconOnTime'
    BY <1>5, <1>11 DEF GatewayInv, BeaconOnTime, TicksTo
  <1>18. RateRestored' /\ RepliesNeverDelayBeacons'
    BY <1>3, <1>11 DEF GatewayInv, RateRestored, RepliesNeverDelayBeacons, OnAir
  <1> QED BY <1>7, <1>8, <1>9, <1>10, <1>13, <1>14, <1>15, <1>16, <1>17, <1>18 DEF GatewayInv

\* The scheduler sleeps, after a poll or after a frame
LEMMA MulticastSleeps ==
    ASSUME GatewayInv, NEW ticks \in Nat \cup {Forever},
           \/ pc["multicast"] = "poll" /\ Sleeps(holder, radio, ticks) /\ rest' = rest
           \/ Due("multicast", "tx") /\ Sleeps(None, "RX", ticks) /\ Rested("multicast"),
           queue' \in Seq(Entries), batch' \in Seq(Frames),
           UNCHANGED <<priority, uplinks, unscheduled, beaconVars>>
    PROVE  GatewayInv'
  <1> USE Names DEF beaconVars
  <1>1. "multicast" \in Senders /\ "multicast" \in Tasks /\ Typed
    BY DEF Senders, Tasks, GatewayInv
  <1>2. /\ pc' \in [Tasks -> PCs] /\ left' \in [Tasks -> Nat \cup {Forever}]
        /\ \A x \in Tasks \ {"multicast"} : pc'[x] = pc[x] /\ left'[x] = left[x]
        /\ pc'["multicast"] = "poll" /\ sending' = None /\ rate' = OwnRate
        /\ UNCHANGED <<busy, quiet_factor, quiet>>
    BY <1>1, SMTT(20) DEF Sleeps, Moves, Typed, PCs, Configured
  <1>3. pc'["beacon"] = pc["beacon"] /\ left'["beacon"] = left["beacon"]
        /\ pc'["run"] = pc["run"] /\ left'["run"] = left["run"]
        /\ \A r \in Replies : pc'[r] = pc[r] /\ left'[r] = left[r]
    BY <1>2 DEF Tasks
  <1>4. Absent' = Absent /\ Announced' = Announced
    BY <1>3 DEF Absent, Announced
  <1>5. UplinksHaveTasks' /\ PriorityCounts'
    BY <1>3, <1>4 DEF GatewayInv, UplinksHaveTasks, PriorityCounts
  <1>6. Timed'
    BY <1>2 DEF GatewayInv, Timed
  <1>7. PlacesOK' /\ RateRestored' /\ RepliesNeverDelayBeacons'
    BY <1>2, <1>3 DEF GatewayInv, PlacesOK, RateRestored, RepliesNeverDelayBeacons, OnAir
  <1>8. CASE pc["multicast"] = "poll" /\ Sleeps(holder, radio, ticks) /\ rest' = rest
    <2>1. holder' = holder /\ radio' = radio /\ rest' = rest
      BY <1>8 DEF Sleeps
    <2>2. holder # "multicast" /\ pc' = pc
      <3>1. holder # "multicast"
        BY <1>1, <1>8 DEF GatewayInv, OneFrameAtATime, OnAir
      <3>2. pc \in [Tasks -> PCs] /\ \A x \in Tasks : pc'[x] = pc[x]
        BY <1>1, <1>2, <1>8 DEF Typed
      <3> QED BY <1>2, <3>1, <3>2
    <2>3. holder # None => /\ holder \in Tasks \ {"multicast"} /\ left'[holder] = left[holder]
                           /\ AirTime(holder)' = AirTime(holder)
      <3>1. holder # None => holder \in Tasks \ {"multicast"}
        BY <2>2, <1>1 DEF Typed
      <3> QED BY <3>1, <1>2, <2>1 DEF AirTime
    <2>4. holder # None => AirLeft(holder)' = AirLeft(holder)
      BY <2>1, <2>2, <2>3 DEF AirLeft
    <2>5. Typed' /\ OneFrameAtATime'
      BY <1>1, <1>2, <2>1, <2>2 DEF GatewayInv, Typed, OneFrameAtATime, OnAir
    <2>6. Estimated' /\ QuietCovers'
      BY <1>2, <2>1, <2>2, <2>3, <2>4 DEF GatewayInv, Estimated, QuietCovers
    <2>7. BeaconOnTime'
      BY <1>2, <1>3, <2>1, <2>4 DEF GatewayInv, BeaconOnTime, TicksTo
    <2>8. RepliesFindRadioOn' /\ Beginning'
      BY <1>3, <1>8, <2>1, <2>2 DEF GatewayInv, RepliesFindRadioOn, Beginning
    <2> QED BY <1>5, <1>6, <1>7, <2>5, <2>6, <2>7, <2>8 DEF GatewayInv
  <1>9. CASE Due("multicast", "tx") /\ Sleeps(None, "RX", ticks) /\ Rested("multicast")
    <2>1. holder' = None /\ radio' = "RX" /\ pc["multicast"] = "tx"
      BY <1>9 DEF Sleeps, Due
    <2>2. OneFrameAtATime' /\ Estimated' /\ QuietCovers' /\ BeaconOnTime' /\ rest' \in Nat
      BY <1>1, <1>2, <1>9, <2>1, FreeKeeps, RestCovered
    <2>3. Typed'
      BY <1>1, <1>2, <2>1, <2>2 DEF Typed
    <2>4. RepliesFindRadioOn' /\ Beginning'
      BY <1>3, <2>1 DEF GatewayInv, RepliesFindRadioOn, Beginning
    <2> QED BY <1>5, <1>6, <1>7, <2>2, <2>3, <2>4 DEF GatewayInv
  <1> QED BY <1>8, <1>9

LEMMA MulticastSteps ==
    ASSUME GatewayInv, MulticastStep
    PROVE  /\ GatewayInv'
           /\ sending' # sending /\ sending' # None => rest' <= Slack
  <1> USE Names
  <1>0. radio \in {"OFF", "STANDBY", "RX", "TX"}
    BY DEF GatewayInv, Typed
  <1>1. CASE MulticastPolls
    <2>1. /\ pc["multicast"] = "poll" /\ MulticastScheduler(holder, radio)
          /\ UNCHANGED <<priority, uplinks, unscheduled, beaconVars, rest>>
      BY <1>1 DEF MulticastPolls, Due, queueVars
    <2>2. queue' \in Seq(Entries) /\ batch' \in Seq(Frames)
      BY <2>1, MulticastRound
    <2>3. CASE \E ticks \in Nat \cup {Forever} : Sleeps(holder, radio, ticks)
      BY <2>1, <2>2, <2>3, MulticastSleeps DEF Sleeps
    <2>4. CASE ~HeldUp(holder) /\ \E f \in Frames : TransmitMulticast(f, radio)
      <3>1. holder = None
        BY <2>4 DEF HeldUp
      <3> QED BY <1>0, <2>1, <2>2, <2>4, <3>1, MulticastTaken
    <2> QED BY <2>1, <2>3, <2>4, MulticastRound
  <1>2. CASE MulticastEnds
    <2>1. /\ Due("multicast", "tx") /\ Rested("multicast") /\ MulticastScheduler(None, "RX")
          /\ UNCHANGED <<priority, uplinks, unscheduled, beaconVars>>
      BY <1>2 DEF MulticastEnds, queueVars
    <2>2. queue' \in Seq(Entries) /\ batch' \in Seq(Frames)
      BY <2>1, MulticastRound
    <2>3. holder = "multicast"
      BY <2>1, RestCovered DEF Senders
    <2>4. CASE \E ticks \in Nat \cup {Forever} : Sleeps(None, "RX", ticks)
      BY <2>1, <2>2, <2>4, MulticastSleeps DEF Sleeps
    <2>5. CASE ~HeldUp(None) /\ \E f \in Frames : TransmitMulticast(f, "RX")
      BY <2>1, <2>2, <2>3, <2>5, MulticastTaken
    <2> QED BY <2>1, <2>4, <2>5, MulticastRound
  <1>3. CASE TransmitAfterStartup("multicast")
    BY <1>3, StartupStep DEF TransmitAfterStartup, multicastVars
  <1> QED BY <1>1, <1>2, <1>3 DEF MulticastStep

-----------------------------------------------------------------------------
(* Beacons and ping slots.                                                 *)

\* A beacon or a ping slot that comes due is not late
LEMMA ComesDueOnTime ==
    ASSUME GatewayInv, pc["beacon"] \in {"await", "slot"}, left["beacon"] = 0, next_beacon # None
    PROVE  next_beacon \in Nat
  <1>1. next_beacon \in Int /\ slots \in Seq(SlotOffsets)
    BY DEF GatewayInv, Typed
  <1>2. CASE pc["beacon"] = "await"
    BY <1>2 DEF GatewayInv, BeaconOnTime
  <1>3. CASE pc["beacon"] = "slot"
    <2>1. /\ 0 = Head(slots) - (BeaconInterval - next_beacon)
          /\ Head(slots) < BeaconInterval - BeaconGuard
      BY <1>3 DEF GatewayInv, BeaconOnTime, TicksTo
    <2>2. Head(slots) \in Nat /\ BeaconInterval \in Nat /\ BeaconGuard \in Nat
      BY <1>1, <1>3, Times, HeadTailProperties DEF GatewayInv, PlacesOK
    <2> QED BY <1>1, <2>1, <2>2
  <1> QED BY <1>2, <1>3

\* The beacon scheduler acquires the transmitter, or waits for it: the beacon is on time so far
LEMMA AcquireStep ==
    ASSUME GatewayInv, Acquire, pc["beacon"] \in {"await", "slot", "wait"}, left["beacon"] = 0,
           next_beacon' \in Int,
           \/ next_beacon = None /\ next_beacon' = 0
           \/ next_beacon # None /\ next_beacon' = next_beacon,
           \/ pc["beacon"] # "wait" /\ priority' = priority + 1
           \/ pc["beacon"] = "wait" /\ priority' = priority,
           UNCHANGED <<rate, uplinks, multicastVars, slots, rest>>
    PROVE  GatewayInv'
  <1> USE Names DEF multicastVars
  <1>1. "beacon" \in Senders /\ "beacon" \in Tasks /\ "beacon" # "run" /\ Typed /\ "beacon" # None
    BY DEF Senders, Tasks, GatewayInv
  <1>2. holder # "beacon" /\ slots' = slots
    BY <1>1 DEF GatewayInv, OneFrameAtATime, OnAir
  \* What is to come at the latest
  <1>3. /\ pc["beacon"] # "wait" => next_beacon' >= 0
        /\ pc["beacon"] = "wait" /\ holder # None =>
              next_beacon' >= AirLeft(holder) - (LongestFrame + Slack)
    <2>1. pc["beacon"] = "wait" \/ pc["beacon"] = "slot" => next_beacon # None
      BY DEF GatewayInv, Beginning
    <2>2. pc["beacon"] = "wait" /\ holder # None => next_beacon' >= AirLeft(holder) - (LongestFrame + Slack)
      BY <2>1 DEF GatewayInv, BeaconOnTime
    <2>3. pc["beacon"] # "wait" => next_beacon' >= 0
      BY ComesDueOnTime
    <2> QED BY <2>2, <2>3
  <1>4. \A x \in Tasks \ {"beacon"} : pc'[x] = pc[x] /\ left'[x] = left[x]
    BY <1>1 DEF Acquire, TakeTransmitter, Moves, Typed
  <1>5. /\ pc' \in [Tasks -> PCs] /\ left' \in [Tasks -> Nat \cup {Forever}]
        /\ left'["beacon"] \in Nat /\ pc'["beacon"] \in {"wait", "startup", "tx"}
        /\ holder' \in (Tasks \ {"run"}) \cup {None} /\ busy' \in Nat
        /\ quiet' \in Nat /\ quiet_factor' \in Nat /\ radio' \in {"OFF", "STANDBY", "RX", "TX"}
        /\ OneFrameAtATime' /\ Estimated' /\ QuietCovers' /\ BeaconOnTime' /\ RateRestored'
        /\ radio' = "OFF" => FALSE
    <2>1. CASE holder # None
      <3>1. /\ pc' = [pc EXCEPT !["beacon"] = "wait"]
            /\ left' = [left EXCEPT !["beacon"] = Later(busy, 1)]
            /\ UNCHANGED <<holder, busy, quiet_factor, quiet, radio>>
        BY <2>1 DEF Acquire, Moves, lockVars
      <3>2. Later(busy, 1) \in Nat
        BY <1>1 DEF Typed, Later
      <3>3. /\ pc' \in [Tasks -> PCs] /\ left' \in [Tasks -> Nat \cup {Forever}]
            /\ left'["beacon"] = Later(busy, 1) /\ pc'["beacon"] = "wait"
        BY <1>1, <3>1, <3>2 DEF Typed, PCs
      <3>4. /\ pc'[holder] = pc[holder] /\ left'[holder] = left[holder]
            /\ AirTime(holder)' = AirTime(holder) /\ holder \in Tasks
        <4>1. holder \in Tasks \ {"beacon"}
          BY <1>1, <1>2, <2>1 DEF Typed
        <4> QED BY <4>1, <1>2, <1>4, <3>1 DEF AirTime
      <3>5. AirLeft(holder)' = AirLeft(holder)
        BY <3>1, <3>4 DEF AirLeft
      <3>6. OneFrameAtATime'
        BY <1>1, <1>2, <1>4, <3>1, <3>3 DEF GatewayInv, OneFrameAtATime, OnAir
      <3>7. Estimated' /\ QuietCovers'
        BY <2>1, <3>1, <3>4, <3>5 DEF GatewayInv, Estimated, QuietCovers
      <3>8. next_beacon' >= AirLeft(holder) - (LongestFrame + Slack)
        <4>1. AirLeft(holder) \in Nat /\ AirLeft(holder) <= LongestFrame + Slack
          BY <2>1, HolderOnAir DEF GatewayInv, Estimated
        <4>2. next_beacon' >= 0 => next_beacon' >= AirLeft(holder) - (LongestFrame + Slack)
          BY <4>1, Bounds
        <4> QED BY <1>3, <2>1, <4>2
      <3>9. BeaconOnTime'
        <4>1. left'["beacon"] <= Later(busy, 1)'
          BY <3>1, <3>2, <3>3 DEF Later
        <4> QED BY <2>1, <3>1, <3>3, <3>5, <3>8, <4>1 DEF BeaconOnTime
      <3>10. RateRestored' /\ radio' # "OFF"
        BY <2>1, <3>1 DEF GatewayInv, RateRestored, RepliesFindRadioOn
      <3> QED BY <1>1, <3>1, <3>2, <3>3, <3>6, <3>7, <3>9, <3>10 DEF Typed
    <2>2. CASE holder = None
      <3> DEFINE a == AirTime("beacon")
      <3>1. a \in Nat /\ a <= LongestFrame /\ a = AirTime("beacon")'
        BY <1>1, <1>2, AirTimes DEF AirTime
      <3>2. TakeTransmitter("beacon", a, radio) /\ radio \in {"OFF", "STANDBY", "RX", "TX"}
        BY <1>1, <2>2 DEF Acquire, Typed
      <3> HIDE DEF a
      <3>3. /\ pc' \in [Tasks -> PCs] /\ left' \in [Tasks -> Nat \cup {Forever}]
            /\ holder' = "beacon" /\ radio' \in {"STANDBY", "TX"} /\ busy' = a
            /\ left'["beacon"] \in Nat
            /\ \/ pc'["beacon"] = "startup" /\ radio = "OFF" /\ left'["beacon"] = StandbyTime
               \/ pc'["beacon"] = "tx" /\ radio # "OFF"
        <4> HIDE Names
        <4> QED BY <1>1, <3>1, <3>2, Taken
      <3>4. quiet' \in Nat /\ quiet_factor' \in Nat
        BY <1>1, <3>1, <3>2, Reserved DEF TakeTransmitter, Typed
      <3>5. /\ rest' \in Nat /\ (quiet_factor = 0 => rest' = 0)
            /\ quiet_factor # 0 => rest' <= quiet + Slack
        BY <1>1 DEF GatewayInv, QuietCovers, Typed
      <3>6. OneFrameAtATime' /\ Estimated' /\ QuietCovers'
        BY <1>1, <2>2, <3>1, <3>2, <3>5, TakeKeeps
      <3>7. radio = "OFF" => next_beacon' >= 0
        BY <1>3 DEF GatewayInv, RepliesFindRadioOn, Beginning
      <3>8. BeaconOnTime'
        <4>1. pc'["beacon"] = "startup" => next_beacon' >= left'["beacon"] - StandbyTime
          BY <3>3, <3>7, Times
        <4> QED BY <3>3, <4>1 DEF BeaconOnTime
      <3>9. RateRestored'
        BY <1>1, <2>2, <3>3 DEF GatewayInv, RateRestored, Tasks
      <3> QED BY <1>1, <3>1, <3>3, <3>4, <3>6, <3>8, <3>9
    <2> QED BY <2>1, <2>2
  <1>6. Typed'
    BY <1>1, <1>5 DEF Typed
  <1>7. Timed'
    BY <1>4, <1>5 DEF GatewayInv, Timed, Forever
  <1>8. /\ pc'["run"] = pc["run"] /\ pc'["multicast"] = pc["multicast"]
        /\ \A r \in Replies : pc'[r] = pc[r] /\ left'[r] = left[r]
    BY <1>4 DEF Tasks
  <1>9. Absent' = Absent /\ Announced' = Announced
    BY <1>8 DEF Absent, Announced
  <1>10. UplinksHaveTasks'
    BY <1>8, <1>9 DEF GatewayInv, UplinksHaveTasks
  <1>11. PriorityCounts'
    <2>1. pc["beacon"] \in {"startup", "tx"} => FALSE
      OBVIOUS
    <2> QED BY <2>1, <1>5, <1>9, Counted DEF GatewayInv, PriorityCounts
  <1>12. RepliesFindRadioOn' /\ PlacesOK'
    BY <1>5, <1>8 DEF GatewayInv, RepliesFindRadioOn, PlacesOK
  <1>13. Beginning'
    BY DEF Beginning
  <1>14. RepliesNeverDelayBeacons'
    <2>1. next_beacon = None => \A r \in Replies : ~OnAir(r)'
      BY <1>8 DEF GatewayInv, Beginning, OnAir
    <2>2. next_beacon # None => next_beacon' = next_beacon
      OBVIOUS
    <2> QED BY <1>8, <2>1, <2>2 DEF GatewayInv, RepliesNeverDelayBeacons, OnAir
  <1> QED BY <1>5, <1>6, <1>7, <1>10, <1>11, <1>12, <1>13, <1>14 DEF GatewayInv

\* The end of a beacon or a downlink in a ping slot, and on with the loop
LEMMA BeaconGoesOnStep ==
    ASSUME GatewayInv, Due("beacon", "tx"), Rested("beacon"),
           NEW schedule \in Seq(SlotOffsets), NEW beacon \in Int, BeaconGoesOn(schedule, beacon),
           UNCHANGED <<rate, uplinks, multicastVars>>
    PROVE  GatewayInv'
  <1> USE Names DEF multicastVars
  <1>1. "beacon" \in Senders /\ "beacon" \in Tasks /\ "beacon" # "run" /\ Typed /\ "beacon" # None
    BY DEF Senders, Tasks, GatewayInv
  <1>2. /\ holder = "beacon" /\ busy = 0 /\ rest' \in Nat /\ (quiet_factor = 0 => rest' = 0)
        /\ quiet_factor # 0 => rest' <= quiet + Slack
    BY <1>1, RestCovered
  <1>3. pc["beacon"] = "tx" /\ left["beacon"] = 0 /\ next_beacon' = beacon /\ beacon # None
    BY DEF Due, BeaconGoesOn
  <1>4. slots' \in Seq(SlotOffsets) /\ (slots' # <<>> => Usable(Head(slots'), beacon))
    BY UpcomingSlots DEF BeaconGoesOn
  <1>5. \A x \in Tasks \ {"beacon"} : pc'[x] = pc[x] /\ left'[x] = left[x]
    BY <1>1 DEF BeaconGoesOn, TakeTransmitter, Moves, Typed
  <1>6. /\ pc' \in [Tasks -> PCs] /\ left' \in [Tasks -> Nat \cup {Forever}]
        /\ left'["beacon"] \in Nat /\ pc'["beacon"] \in {"await", "slot", "tx"}
        /\ pc'["beacon"] = "slot" => slots' # <<>>
        /\ holder' \in (Tasks \ {"run"}) \cup {None} /\ busy' \in Nat
        /\ quiet' \in Nat /\ quiet_factor' \in Nat /\ radio' \in {"RX", "TX", "STANDBY"}
        /\ OneFrameAtATime' /\ Estimated' /\ QuietCovers' /\ BeaconOnTime'
        /\ holder' # "multicast"
        /\ \/ pc'["beacon"] = "tx" /\ priority' = priority
           \/ pc'["beacon"] # "tx" /\ priority' = priority - 1
    <2>1. CASE FreeTransmitter
      <3>1. holder' = None /\ radio' = "RX" /\ UNCHANGED <<busy, quiet_factor, quiet>>
        BY <2>1 DEF FreeTransmitter
      <3>2. /\ \/ /\ slots' # <<>>
                  /\ Moves("beacon", "slot", TicksTo(Head(slots'), beacon))
               \/ slots' = <<>> /\ beacon > 0 /\ Moves("beacon", "await", beacon)
            /\ priority' = priority - 1
        <4>1. ~TakeTransmitter("beacon", BeaconTime, "RX")
          BY <1>1, <3>1 DEF TakeTransmitter
        <4> QED BY <4>1 DEF BeaconGoesOn
      <3>3. slots' # <<>> =>
                /\ TicksTo(Head(slots'), beacon) \in Nat
                /\ Head(slots') < BeaconInterval - BeaconGuard
        <4>1. slots' # <<>> => Head(slots') \in Nat
          BY <1>4, Times, HeadTailProperties
        <4> QED BY <4>1, <1>4, Times DEF Usable, TicksTo
      <3>4. /\ pc' \in [Tasks -> PCs] /\ left' \in [Tasks -> Nat \cup {Forever}]
            /\ left'["beacon"] \in Nat /\ pc'["beacon"] \in {"await", "slot"}
            /\ pc'["beacon"] = "slot" => slots' # <<>> /\ left'["beacon"] = TicksTo(Head(slots'), beacon)
            /\ pc'["beacon"] = "await" => left'["beacon"] = beacon
        <4>1. \A where \in {"await", "slot"}, ticks \in Nat : Moves("beacon", where, ticks) =>
                /\ pc' \in [Tasks -> PCs] /\ left' \in [Tasks -> Nat \cup {Forever}]
                /\ pc'["beacon"] = where /\ left'["beacon"] = ticks
          BY <1>1 DEF Moves, Typed, PCs
        <4>2. CASE slots' # <<>> /\ Moves("beacon", "slot", TicksTo(Head(slots'), beacon))
          BY <4>1, <4>2, <3>3
        <4>3. CASE slots' = <<>> /\ beacon > 0 /\ Moves("beacon", "await", beacon)
          <5>1. beacon \in Nat
            BY <4>3
          <5> QED BY <4>1, <4>3, <5>1
        <4> QED BY <3>2, <4>2, <4>3
      <3>5. OneFrameAtATime' /\ Estimated' /\ QuietCovers'
        BY <1>1, <1>5, <3>1, <3>4, FreeKeeps
      <3>6. BeaconOnTime'
        BY <1>3, <3>3, <3>4 DEF BeaconOnTime, TicksTo
      <3> QED BY <1>1, <3>1, <3>2, <3>4, <3>5, <3>6 DEF Typed, Tasks
    <2>2. CASE slots' = <<>> /\ beacon <= 0 /\ TakeTransmitter("beacon", BeaconTime, "RX") /\ UNCHANGED priority
      <3>1. AirTime("beacon")' = BeaconTime /\ BeaconTime \in Nat /\ BeaconTime <= LongestFrame
        BY <2>2, Times, Bounds DEF AirTime
      <3>2. /\ pc' \in [Tasks -> PCs] /\ left' \in [Tasks -> Nat \cup {Forever}]
            /\ holder' = "beacon" /\ radio' \in {"STANDBY", "TX"} /\ busy' = BeaconTime
            /\ left'["beacon"] \in Nat /\ pc'["beacon"] = "tx"
        <4> HIDE Names
        <4> QED BY <1>1, <2>2, <3>1, Taken
      <3>3. quiet' \in Nat /\ quiet_factor' \in Nat
        BY <1>1, <2>2, <3>1, Reserved DEF TakeTransmitter, Typed
      <3>4. OneFrameAtATime' /\ Estimated' /\ QuietCovers'
        BY <1>1, <1>2, <2>2, <3>1, TakeKeeps
      <3>5. BeaconOnTime'
        BY <3>2 DEF BeaconOnTime
      <3> QED BY <1>1, <2>2, <3>1, <3>2, <3>3, <3>4, <3>5
    <2> QED BY <2>1, <2>2 DEF BeaconGoesOn
  <1>7. Typed'
    BY <1>1, <1>2, <1>3, <1>4, <1>6, SMTT(20) DEF Typed
  <1>8. Timed'
    BY <1>5, <1>6 DEF GatewayInv, Timed, Forever
  <1>9. /\ pc'["run"] = pc["run"] /\ pc'["multicast"] = pc["multicast"]
        /\ \A r \in Replies : pc'[r] = pc[r] /\ left'[r] = left[r]
    BY <1>5 DEF Tasks
  <1>10. Absent' = Absent /\ Announced' = Announced
    BY <1>9 DEF Absent, Announced
  <1>11. UplinksHaveTasks'
    BY <1>9, <1>10 DEF GatewayInv, UplinksHaveTasks
  <1>12. PriorityCounts'
    BY <1>3, <1>6, <1>10, Counted, SMTT(20) DEF GatewayInv, PriorityCounts
  <1>13. RepliesFindRadioOn' /\ PlacesOK'
    BY <1>6, <1>9 DEF GatewayInv, RepliesFindRadioOn, PlacesOK
  <1>14. Beginning'
    BY <1>3 DEF Beginning
  <1>15. RateRestored'
    BY <1>2, <1>6 DEF GatewayInv, RateRestored
  <1>16. RepliesNeverDelayBeacons'
    <2>1. \A r \in Replies : ~OnAir(r)'
      BY <1>2, <1>9 DEF GatewayInv, OneFrameAtATime, OnAir, Tasks
    <2> QED BY <2>1 DEF RepliesNeverDelayBeacons
  <1> QED BY <1>6, <1>7, <1>8, <1>11, <1>12, <1>13, <1>14, <1>15, <1>16 DEF GatewayInv

LEMMA BeaconSteps ==
    ASSUME GatewayInv, BeaconStep
    PROVE  GatewayInv'
  <1> USE Names DEF beaconVars
  <1>1. next_beacon # None => next_beacon \in Int
    BY DEF GatewayInv, Typed
  <1>2. CASE BeaconDue
    BY <1>1, <1>2, AcquireStep DEF BeaconDue, Due, queueVars
  <1>3. pc["beacon"] \in {"slot", "wait", "tx"} => next_beacon \in Int
    BY <1>1 DEF GatewayInv, Beginning
  <1>4. CASE SlotDue
    <2>1. next_beacon \in Int /\ next_beacon # None
      BY <1>3, <1>4 DEF SlotDue, Due
    <2> QED BY <1>4, <2>1, AcquireStep DEF SlotDue, Due, queueVars
  <1>5. CASE BeaconWaited
    <2>1. next_beacon \in Int /\ next_beacon # None
      BY <1>3, <1>5 DEF BeaconWaited, Due
    <2> QED BY <1>5, <2>1, AcquireStep DEF BeaconWaited, Due, queueVars
  <1>6. CASE TransmitAfterStartup("beacon")
    BY <1>6, StartupStep
  <1>7. CASE BeaconEnds
    <2>1. next_beacon \in Int /\ slots \in Seq(SlotOffsets)
      BY <1>3, <1>7 DEF BeaconEnds, Due, GatewayInv, Typed
    <2>2. /\ Due("beacon", "tx") /\ Rested("beacon") /\ UNCHANGED <<rate, uplinks, multicastVars>>
          /\ \/ \E schedule \in Schedules : BeaconGoesOn(schedule, next_beacon + BeaconInterval)
             \/ slots # <<>> /\ BeaconGoesOn(Tail(slots), next_beacon)
      BY <1>7 DEF BeaconEnds, queueVars
    <2>3. next_beacon + BeaconInterval \in Int
      BY <2>1, Times
    <2>4. Schedules \subseteq Seq(SlotOffsets)
      <3>1. ASSUME NEW s \in Schedules PROVE s \in Seq(SlotOffsets)
        <4>1. PICK n \in 0 .. MaxSlots : s \in [1 .. n -> SlotOffsets]
          BY DEF Schedules
        <4>2. n \in Nat
          OBVIOUS
        <4> QED BY <4>1, <4>2
      <3> QED BY <3>1
    <2>5. slots # <<>> => Tail(slots) \in Seq(SlotOffsets)
      BY <2>1, HeadTailProperties
    <2> QED BY <2>1, <2>2, <2>3, <2>4, <2>5, BeaconGoesOnStep
  <1> QED BY <1>2, <1>4, <1>5, <1>6, <1>7 DEF BeaconStep

-----------------------------------------------------------------------------
(* The clock.                                                              *)

\* Nobody who is due lets a tick pass, so that everything counts down together
LEMMA Countdown ==
    ASSUME GatewayInv, Tick
    PROVE  /\ UNCHANGED <<holder, quiet_factor, priority, radio, rate, uplinks, unscheduled, batch,
                        sending, slots, pc>>
           /\ left' = [t \in Tasks |-> Before(left[t])]
           /\ busy' = Before(busy) /\ quiet' = Before(quiet) /\ rest' = Before(rest)
           /\ next_beacon' = IF next_beacon = None THEN None ELSE next_beacon - 1
           /\ \A t \in Tasks : left[t] = -1 \/ left[t] \in Nat
           /\ \A t \in Tasks : /\ left[t] = -1 => left'[t] = -1
                               /\ left[t] = 0 => left'[t] = 0
                               /\ left[t] \in Nat /\ left[t] > 0 => left'[t] = left[t] - 1
           /\ \A t \in Tasks : pc[t] \notin {"absent", "done", "get", "poll"} =>
                 left[t] \in Nat /\ left[t] > 0 /\ left'[t] = left[t] - 1
  <1>0. /\ UNCHANGED <<holder, quiet_factor, priority, radio, rate, uplinks, unscheduled, batch,
                     sending, slots, pc>>
        /\ left' = [t \in Tasks |-> Before(left[t])]
        /\ busy' = Before(busy) /\ quiet' = Before(quiet) /\ rest' = Before(rest)
        /\ next_beacon' = IF next_beacon = None THEN None ELSE next_beacon - 1
    BY DEF Tick
  <1>1. Typed
    BY DEF GatewayInv
  <1>2. \A t \in Tasks : left[t] = -1 \/ left[t] \in Nat
    BY <1>1 DEF Typed, Forever
  <1>3. \A t \in Tasks : /\ left[t] = -1 => left'[t] = -1
                         /\ left[t] = 0 => left'[t] = 0
                         /\ left[t] \in Nat /\ left[t] > 0 => left'[t] = left[t] - 1
    BY <1>0, <1>2 DEF Before
  <1>4. \A t \in Tasks : pc[t] \notin {"absent", "done"} => left[t] # 0
    BY DEF Tick, AtRest
  <1>5. \A t \in Tasks : left[t] = -1 => pc[t] \in {"get", "poll"}
    BY DEF GatewayInv, Timed, Forever
  <1>6. \A t \in Tasks : pc[t] \notin {"absent", "done", "get", "poll"} =>
            left[t] \in Nat /\ left[t] > 0 /\ left'[t] = left[t] - 1
    BY <1>2, <1>3, <1>4, <1>5
  <1> QED BY <1>0, <1>2, <1>3, <1>6

LEMMA TickStep ==
    ASSUME GatewayInv, Tick
    PROVE  GatewayInv'
  <1> USE Names
  <1>1. /\ Typed /\ UNCHANGED <<holder, quiet_factor, priority, radio, rate, uplinks, unscheduled, batch,
                                sending, slots, pc>>
        /\ left' = [t \in Tasks |-> Before(left[t])]
        /\ busy' = Before(busy) /\ quiet' = Before(quiet) /\ rest' = Before(rest)
        /\ next_beacon' = IF next_beacon = None THEN None ELSE next_beacon - 1
    BY Countdown DEF GatewayInv
  <1>2. {"run", "multicast", "beacon"} \subseteq Tasks /\ Replies \subseteq Tasks
    BY DEF Tasks
  <1>3. \A t \in Tasks : left[t] = -1 \/ left[t] \in Nat
    BY Countdown
  <1>4. \A t \in Tasks : /\ left[t] = -1 => left'[t] = -1
                         /\ left[t] = 0 => left'[t] = 0
                         /\ left[t] \in Nat /\ left[t] > 0 => left'[t] = left[t] - 1
    BY Countdown
  \* A task that is not at rest, and does not wait for an event, gets a tick closer
  <1>5. \A t \in Tasks : pc[t] \notin {"absent", "done", "get", "poll"} =>
            left[t] \in Nat /\ left[t] > 0 /\ left'[t] = left[t] - 1
    BY Countdown
  <1>6. left' \in [Tasks -> Nat \cup {Forever}]
    <2>1. \A t \in Tasks : Before(left[t]) \in Nat \cup {Forever}
      BY <1>3 DEF Before, Forever
    <2> QED BY <1>1, <2>1
  <1>7. Timed'
    BY <1>1, <1>3, <1>4 DEF GatewayInv, Timed, Forever
  <1>8. queue' \in Seq(Entries)
    <2>1. queue \in Seq(Entries) /\ queue' = [i \in DOMAIN queue |-> [queue[i] EXCEPT !.due = Before(@)]]
      BY <1>1 DEF Typed, Tick
    <2>2. /\ Len(queue) \in Nat /\ DOMAIN queue = 1 .. Len(queue)
          /\ \A i \in DOMAIN queue : queue[i] \in Entries
      BY <2>1, LenProperties
    <2>3. \A e \in Entries : [e EXCEPT !.due = Before(@)] \in Entries
      <3>1. ASSUME NEW e \in Entries PROVE [e EXCEPT !.due = Before(@)] \in Entries
        <4>1. e.due = -1 \/ e.due \in Nat
          BY DEF Entries, ASAP
        <4>2. Before(e.due) \in Nat \cup {ASAP}
          BY <4>1 DEF Before, ASAP
        <4> QED BY <4>2 DEF Entries
      <3> QED BY <3>1
    <2> QED BY <2>1, <2>2, <2>3
  <1>9. Typed'
    <2>1. busy' \in Nat /\ quiet' \in Nat /\ rest' \in Nat
      BY <1>1 DEF Typed, Before
    <2>2. next_beacon' \in Int \cup {None}
      BY <1>1 DEF Typed
    <2> QED BY <1>1, <1>6, <1>8, <2>1, <2>2 DEF Typed
  <1>10. Absent' = Absent /\ Announced' = Announced
    BY <1>1 DEF Absent, Announced
  <1>11. UplinksHaveTasks' /\ PriorityCounts'
    BY <1>1, <1>10 DEF GatewayInv, UplinksHaveTasks, PriorityCounts
  <1>12. next_beacon = None => pc["beacon"] = "absent"
    BY <1>2, <1>5 DEF GatewayInv, Beginning
  <1>13. next_beacon # None => next_beacon \in Int /\ next_beacon' = next_beacon - 1 /\ next_beacon' # None
    BY <1>1 DEF Typed
  <1>14. RepliesFindRadioOn' /\ PlacesOK' /\ Beginning' /\ RateRestored' /\ OneFrameAtATime'
    BY <1>1, <1>12, <1>13
    DEF GatewayInv, RepliesFindRadioOn, PlacesOK, Beginning, RateRestored, OneFrameAtATime, OnAir
  <1>15. holder # None =>
            /\ holder \in Tasks /\ left[holder] \in Nat /\ left[holder] > 0
            /\ left'[holder] = left[holder] - 1
            /\ AirTime(holder)' = AirTime(holder) /\ AirTime(holder) \in Nat
            /\ AirLeft(holder) \in Nat /\ AirLeft(holder) > 0 /\ AirLeft(holder)' = AirLeft(holder) - 1
    <2> SUFFICES ASSUME holder # None PROVE
            /\ holder \in Tasks /\ left[holder] \in Nat /\ left[holder] > 0
            /\ left'[holder] = left[holder] - 1
            /\ AirTime(holder)' = AirTime(holder) /\ AirTime(holder) \in Nat
            /\ AirLeft(holder) \in Nat /\ AirLeft(holder) > 0 /\ AirLeft(holder)' = AirLeft(holder) - 1
      OBVIOUS
    <2>1. holder \in Senders /\ holder \in Tasks /\ OnAir(holder) /\ AirTime(holder) \in Nat
      BY HolderOnAir DEF Senders, Tasks
    <2>2. left[holder] \in Nat /\ left[holder] > 0 /\ left'[holder] = left[holder] - 1
      BY <2>1, <1>5 DEF OnAir
    <2>3. AirTime(holder)' = AirTime(holder)
      BY <1>1 DEF AirTime
    <2>4. MaxExtra[holder] \in Nat
      BY <2>1, Times
    <2>5. CASE pc[holder] = "tx"
      BY <1>1, <2>1, <2>2, <2>3, <2>5 DEF AirLeft
    <2>6. CASE pc[holder] # "tx"
      <3>1. /\ AirLeft(holder) = left[holder] + AirTime(holder) + MaxExtra[holder]
            /\ AirLeft(holder)' = left'[holder] + AirTime(holder) + MaxExtra[holder]
        BY <1>1, <2>3, <2>6 DEF AirLeft
      <3>2. \A l, a, m \in Nat : l > 0 => /\ l + a + m \in Nat /\ l + a + m > 0
                                          /\ (l - 1) + a + m = (l + a + m) - 1
        OBVIOUS
      <3> QED BY <2>1, <2>2, <2>3, <2>4, <3>1, <3>2
    <2> QED BY <2>5, <2>6
  <1>16. Estimated'
    <2>1. CASE holder = None
      <3>1. busy = 0
        BY <2>1 DEF GatewayInv, Estimated
      <3> QED BY <2>1, <3>1, <1>1 DEF Estimated, Before
    <2>2. CASE holder # None
      <3>1. /\ pc[holder] = "tx" => busy <= left[holder]
            /\ pc[holder] # "tx" => busy <= left[holder] + AirTime(holder)
            /\ AirLeft(holder) <= LongestFrame + Slack /\ busy \in Nat
        BY <2>2 DEF GatewayInv, Estimated, Typed
      <3>2. pc[holder] = "tx" => busy' <= left'[holder]
        BY <1>1, <1>15, <2>2, <3>1 DEF Before
      <3>3. pc[holder] # "tx" => busy' <= left'[holder] + AirTime(holder)
        BY <1>1, <1>15, <2>2, <3>1 DEF Before
      <3>4. AirLeft(holder)' <= LongestFrame + Slack
        BY <1>15, <2>2, <3>1, Bounds
      <3> QED BY <1>1, <1>15, <2>2, <3>2, <3>3, <3>4 DEF Estimated
    <2> QED BY <2>1, <2>2
  <1>17. QuietCovers'
    <2>1. quiet_factor \in Nat /\ quiet \in Nat /\ rest \in Nat /\ Slack \in Nat
      BY <1>1, Bounds DEF Typed
    <2>2. CASE quiet_factor = 0
      <3>1. rest = 0
        BY <2>2 DEF GatewayInv, QuietCovers
      <3> QED BY <1>1, <2>2, <3>1 DEF QuietCovers, Before
    <2>3. CASE quiet_factor # 0
      <3>1. rest <= quiet + Slack
        BY <2>3 DEF GatewayInv, QuietCovers
      <3>2. rest' <= quiet' + Slack
        BY <1>1, <2>1, <3>1 DEF Before
      <3>3. ASSUME holder # None
            PROVE  AirTime(holder) * quiet_factor + AirLeft(holder)' <= quiet' + Slack
        <4>1. AirTime(holder) * quiet_factor + AirLeft(holder) <= quiet + Slack
          BY <2>3, <3>3 DEF GatewayInv, QuietCovers
        <4>2. AirTime(holder) * quiet_factor \in Nat
          BY <1>15, <2>1, <3>3
        <4>3. \A m, l, q, s \in Nat : l > 0 /\ m + l <= q + s => m + (l - 1) <= Before(q) + s
          BY DEF Before
        <4> QED BY <1>1, <1>15, <2>1, <3>3, <4>1, <4>2, <4>3
      <3> QED BY <1>1, <1>15, <2>3, <3>2, <3>3 DEF QuietCovers
    <2> QED BY <2>2, <2>3
  <1>18. RepliesNeverDelayBeacons'
    <2> SUFFICES ASSUME NEW r \in Replies, OnAir(r)', next_beacon' # None
                 PROVE  left'[r] <= next_beacon'
      BY DEF RepliesNeverDelayBeacons
    <2>1. OnAir(r) /\ next_beacon # None
      BY <1>1 DEF OnAir
    <2>2. left[r] \in Nat /\ left'[r] = left[r] - 1
      BY <1>2, <1>5, <2>1 DEF OnAir
    <2>3. left[r] <= next_beacon
      BY <2>1 DEF GatewayInv, RepliesNeverDelayBeacons
    <2> QED BY <1>13, <2>1, <2>2, <2>3
  <1>19. BeaconOnTime'
    <2> SUFFICES ASSUME next_beacon' # None PROVE BeaconOnTime'
      BY DEF BeaconOnTime
    <2>1. next_beacon # None /\ next_beacon \in Int /\ next_beacon' = next_beacon - 1
      BY <1>1, <1>13
    <2>2. pc["beacon"] \in {"await", "slot", "wait", "startup", "tx"} =>
            left["beacon"] \in Nat /\ left["beacon"] > 0 /\ left'["beacon"] = left["beacon"] - 1
      BY <1>2, <1>5
    <2>3. pc["beacon"] \in {"await", "slot", "wait", "startup", "tx"}
      BY <2>1 DEF GatewayInv, PlacesOK
    <2>4. CASE pc["beacon"] = "await"
      BY <1>1, <2>1, <2>2, <2>4 DEF GatewayInv, BeaconOnTime
    <2>5. CASE pc["beacon"] = "slot"
      <3>1. Head(slots) \in Nat /\ BeaconInterval \in Nat
        BY <1>1, <2>5, Times, HeadTailProperties DEF GatewayInv, PlacesOK, Typed
      <3>2. /\ left["beacon"] = Head(slots) - (BeaconInterval - next_beacon)
            /\ Head(slots) < BeaconInterval - BeaconGuard
        BY <2>1, <2>5 DEF GatewayInv, BeaconOnTime, TicksTo
      <3>3. left'["beacon"] = Head(slots) - (BeaconInterval - next_beacon')
        BY <2>1, <2>2, <2>5, <3>1, <3>2
      <3> QED BY <1>1, <2>5, <3>2, <3>3 DEF BeaconOnTime, TicksTo
    <2>6. CASE pc["beacon"] = "startup"
      <3>1. next_beacon' >= left'["beacon"] - StandbyTime
        BY <2>1, <2>2, <2>6, Times DEF GatewayInv, BeaconOnTime
      <3> QED BY <1>1, <2>6, <3>1 DEF BeaconOnTime
    <2>7. CASE pc["beacon"] = "wait"
      <3>1. left["beacon"] <= Later(busy, 1) /\ busy \in Nat
        BY <1>1, <2>1, <2>7 DEF GatewayInv, BeaconOnTime, Typed
      <3>2. left'["beacon"] <= Later(busy', 1)
        BY <1>1, <2>2, <2>7, <3>1 DEF Before, Later
      <3>3. LongestFrame \in Nat /\ Slack \in Nat
        BY Bounds
      <3>4. holder = None => next_beacon' >= left'["beacon"] - (LongestFrame + Slack + 1)
        BY <2>1, <2>2, <2>7, <3>3 DEF GatewayInv, BeaconOnTime
      <3>5. holder # None => next_beacon' >= AirLeft(holder)' - (LongestFrame + Slack)
        BY <1>15, <2>1, <2>7, <3>3 DEF GatewayInv, BeaconOnTime
      <3> QED BY <1>1, <2>7, <3>2, <3>4, <3>5 DEF BeaconOnTime, Later
    <2>8. CASE pc["beacon"] = "tx"
      BY <1>1, <2>8 DEF BeaconOnTime
    <2> QED BY <2>3, <2>4, <2>5, <2>6, <2>7, <2>8
  <1> QED BY <1>7, <1>9, <1>11, <1>14, <1>16, <1>17, <1>18, <1>19 DEF GatewayInv

-----------------------------------------------------------------------------
(* A late beacon lets every RX1 pass that was pending before it.           *)

\* The receiving loop
LEMMA RunIsTimely ==
    ASSUME GatewayInv, TimelyInv, ReceiveDataWait \/ BackedOff \/ ReceiveAfterStartup
    PROVE  TimelyInv'
  <1> USE Names, Times DEF GatewayInv, Typed, lockVars, queueVars, radioVars, beaconVars, Due, Moves
  <1>1. /\ \A t \in Tasks \ {"run"} : pc'[t] = pc[t] /\ left'[t] = left[t]
        /\ UNCHANGED <<holder, uplinks, next_beacon>>
    BY DEF ReceiveDataWait, BackedOff, ReceiveAfterStartup, Tasks
  <1>2. /\ pc'["beacon"] = pc["beacon"] /\ left'["beacon"] = left["beacon"]
        /\ pc'["multicast"] = pc["multicast"] /\ left'["multicast"] = left["multicast"]
        /\ \A r \in Replies : pc'[r] = pc[r] /\ left'[r] = left[r]
        /\ holder # None => pc'[holder] = pc[holder] /\ left'[holder] = left[holder]
    BY <1>1 DEF Tasks
  <1>3. "run" \in Tasks
    BY DEF Tasks
  <1>4. CASE ReceiveDataWait
    <2>1. uplinks = 0 /\ pc["run"] = "probe" /\ left["run"] = 0
      BY <1>4 DEF ReceiveDataWait
    <2>2. \/ radio = "TX" /\ radio' = "TX" /\ pc'["run"] = "backoff" /\ left'["run"] = TXBackoff
          \/ radio = "OFF" /\ pc'["run"] = "startup"
          \/ radio \in {"STANDBY", "RX"} /\ pc'["run"] = "get"
      BY <1>3, <1>4 DEF ReceiveDataWait
    <2>3. radio = "OFF" => next_beacon = None /\ pc["beacon"] = "absent"
      BY <2>1 DEF RepliesFindRadioOn, Beginning
    <2>4. LoopTimes'
      BY <1>1, <1>2, <2>1, <2>2, <2>3 DEF LoopTimes
    <2>5. DeafOnAir'
      BY <1>1, <1>2, <2>2, <2>3 DEF TimelyInv, DeafOnAir
    <2>6. RepliesTimely'
      <3>1. ~(uplinks' > 0) /\ pc'["run"] # "process"
        BY <1>1, <2>1, <2>2
      <3> HIDE DEF GatewayInv, Typed
      <3> QED BY <1>1, <1>2, <3>1 DEF TimelyInv, RepliesTimely
    <2> QED BY <2>4, <2>5, <2>6 DEF TimelyInv
  <1>5. CASE BackedOff
    <2>1. /\ left["run"] = 0 /\ pc'["run"] = "probe" /\ radio' = radio
          /\ left'["run"] = IF uplinks > 0 THEN 0 ELSE 1
      BY <1>3, <1>5 DEF BackedOff, ProbeTime
    <2>2. LoopTimes' /\ DeafOnAir'
      BY <1>1, <1>2, <2>1 DEF TimelyInv, LoopTimes, DeafOnAir
    <2>3. RepliesTimely'
      BY <1>1, <1>2, <2>1 DEF TimelyInv, RepliesTimely
    <2> QED BY <2>2, <2>3 DEF TimelyInv
  <1>6. CASE ReceiveAfterStartup
    <2>1. pc["beacon"] = "absent" /\ next_beacon = None
      BY <1>6 DEF ReceiveAfterStartup, TimelyInv, LoopTimes, PlacesOK
    <2>2. \/ uplinks > 0 /\ pc'["run"] = "probe" /\ left'["run"] = 0
          \/ ~(uplinks > 0) /\ pc'["run"] = "get"
      BY <1>3, <1>6 DEF ReceiveAfterStartup
    <2>3. LoopTimes'
      BY <1>1, <2>2 DEF LoopTimes
    <2>4. DeafOnAir' /\ RepliesTimely'
      BY <1>1, <1>2, <2>1 DEF TimelyInv, DeafOnAir, RepliesTimely
    <2> QED BY <2>3, <2>4 DEF TimelyInv
  <1> QED BY <1>4, <1>5, <1>6

\* An uplink comes while the radio listens, so no frame but one that has yet to start is on its way
LEMMA UplinkIsTimely ==
    ASSUME GatewayInv, TimelyInv, UplinkArrives
    PROVE  TimelyInv'
  <1> USE Names, Times DEF lockVars, queueVars, beaconVars
  <1>1. /\ \A t \in Tasks \ {"run"} : pc'[t] = pc[t] /\ left'[t] = left[t]
        /\ \/ pc["run"] = "get" /\ pc'["run"] = "process" /\ left'["run"] = 1 /\ uplinks' = uplinks
           \/ pc["run"] # "get" /\ pc' = pc /\ left' = left /\ uplinks' = uplinks + 1
        /\ radio = "RX" /\ UNCHANGED <<holder, radio, next_beacon>>
    BY DEF UplinkArrives, Moves, GatewayInv, Typed, Tasks
  <1>2. /\ pc'["beacon"] = pc["beacon"] /\ left'["beacon"] = left["beacon"]
        /\ pc'["multicast"] = pc["multicast"] /\ left'["multicast"] = left["multicast"]
        /\ \A r \in Replies : pc'[r] = pc[r] /\ left'[r] = left[r]
    BY <1>1 DEF Tasks
  <1>3. holder # None => pc'[holder] = pc[holder] /\ left'[holder] = left[holder]
    BY <1>1 DEF GatewayInv, Typed, Tasks
  <1>4. LoopTimes'
    BY <1>1, <1>2 DEF TimelyInv, LoopTimes
  <1>5. DeafOnAir'
    BY <1>1, <1>2, <1>3 DEF TimelyInv, DeafOnAir
  <1>6. ASSUME pc["beacon"] = "wait", holder # None
        PROVE  left'["run"] + ReceiveDelay1 <= next_beacon + Patience
    <2>1. /\ next_beacon \in Int /\ left'["run"] \in Nat /\ left'["run"] <= TXBackoff
      BY <1>1, <1>6, Waiting
    <2>2. next_beacon >= left[holder] - StandbyTime
      BY <1>1, <1>6, <2>1 DEF TimelyInv, DeafOnAir
    <2>3. left[holder] \in Nat
      BY <1>6, HolderOnAir
    <2> QED BY <2>1, <2>2, <2>3, Delays
  <1>7. RepliesTimely'
    BY <1>1, <1>2, <1>6 DEF TimelyInv, RepliesTimely
  <1> QED BY <1>4, <1>5, <1>7 DEF TimelyInv

\* The uplink's own task is as close to RX1 as the uplink was
LEMMA HandOverIsTimely ==
    ASSUME GatewayInv, TimelyInv, HandOver
    PROVE  TimelyInv'
  <1> USE Names, Times DEF lockVars, beaconVars
  <1>1. /\ pc["run"] = "process" \/ uplinks > 0
        /\ left["run"] = 0
        /\ left' = [left EXCEPT !["run"] = ProbeTime(uplinks')]
        /\ UNCHANGED <<holder, radio, next_beacon>>
    BY DEF HandOver, Due
  <1>2. PICK reply \in {"forward", "done"} :
            pc' = [pc EXCEPT !["run"] = "probe", ![CHOOSE r \in Absent : TRUE] = reply]
    BY DEF HandOver
  <1>3. PICK r \in Absent : pc' = [pc EXCEPT !["run"] = "probe", ![r] = reply]
    <2>1. Cardinality(Absent) # 0
      BY <1>1, Counted DEF GatewayInv, UplinksHaveTasks, Typed
    <2>2. Absent = {} => Cardinality(Absent) = 0
      BY FS_EmptySet
    <2> QED BY <1>2, <2>1, <2>2
  <1>4. r \in Replies /\ pc[r] = "absent" /\ r \in Tasks /\ r # "run"
    BY DEF Absent, Tasks
  <1>5. /\ \A t \in Tasks \ {"run"} : left'[t] = left[t] /\ (t = r \/ pc'[t] = pc[t])
        /\ pc'["run"] = "probe" /\ left'["run"] = (IF uplinks' > 0 THEN 0 ELSE 1)
        /\ pc'[r] \in {"forward", "done"}
    BY <1>1, <1>3, <1>4 DEF GatewayInv, Typed, Tasks, ProbeTime
  <1>6. /\ pc'["beacon"] = pc["beacon"] /\ left'["beacon"] = left["beacon"]
        /\ pc'["multicast"] = pc["multicast"] /\ left'["multicast"] = left["multicast"]
        /\ \A x \in Replies : left'[x] = left[x] /\ (x = r \/ pc'[x] = pc[x])
    BY <1>4, <1>5 DEF Tasks
  <1>7. LoopTimes'
    BY <1>5 DEF LoopTimes
  <1>8. DeafOnAir'
    <2>1. holder # None => holder # r /\ holder \in Tasks \ {"run"}
      BY <1>4 DEF GatewayInv, Typed, OneFrameAtATime, OnAir
    <2> QED BY <2>1, <1>1, <1>5, <1>6 DEF TimelyInv, DeafOnAir
  <1>9. RepliesTimely'
    <2>1. pc["beacon"] = "wait" => holder = None \/ ReceiveDelay1 <= next_beacon + Patience
      BY <1>1 DEF TimelyInv, RepliesTimely
    <2>2. pc["beacon"] = "wait" /\ uplinks' > 0 =>
            holder = None \/ left'["run"] + ReceiveDelay1 <= next_beacon + Patience
      BY <1>5, <2>1
    <2>3. \A x \in Replies : /\ pc'[x] \in {"absent", "forward"} => left'[x] = 0
                             /\ pc'[x] = "await" => pc[x] = "await"
      BY <1>4, <1>5, <1>6 DEF TimelyInv, RepliesTimely
    <2> QED BY <1>1, <1>5, <1>6, <2>1, <2>2, <2>3 DEF TimelyInv, RepliesTimely
  <1> QED BY <1>7, <1>8, <1>9 DEF TimelyInv

\* The tasks of the replies
LEMMA RepliesAreTimely ==
    ASSUME GatewayInv, TimelyInv, NEW r \in Replies, ReplyStep(r)
    PROVE  TimelyInv'
  <1> USE Names, Times DEF lockVars, queueVars, radioVars, beaconVars
  <1>1. r \in Tasks /\ r \in Senders /\ r \notin {"run", "multicast", "beacon"} /\ Typed
    BY DEF Tasks, Senders, GatewayInv
  <1>2. /\ \A t \in Tasks \ {r} : pc'[t] = pc[t] /\ left'[t] = left[t]
        /\ uplinks' = uplinks /\ next_beacon' = next_beacon
    BY <1>1 DEF ReplyStep, ForwardUplink, ReplyInRx1, ReplyEnds, TakeTransmitter, Moves, Typed
  <1>3. /\ pc'["beacon"] = pc["beacon"] /\ left'["beacon"] = left["beacon"]
        /\ pc'["multicast"] = pc["multicast"] /\ left'["multicast"] = left["multicast"]
        /\ pc'["run"] = pc["run"] /\ left'["run"] = left["run"]
        /\ \A x \in Replies \ {r} : pc'[x] = pc[x] /\ left'[x] = left[x]
    BY <1>1, <1>2 DEF Tasks
  \* A task that has no frame on the air leaves it alone
  <1>4. ASSUME holder' = holder, radio' = radio, pc[r] # "tx" PROVE DeafOnAir'
    <2>1. holder # None => holder \in Tasks \ {r}
      BY <1>1, <1>4 DEF GatewayInv, OneFrameAtATime, OnAir, Typed, RepliesFindRadioOn
    <2> QED BY <1>2, <1>3, <1>4, <2>1 DEF TimelyInv, DeafOnAir
  <1>5. CASE ForwardUplink(r)
    <2>1. /\ pc[r] = "forward" /\ pc'[r] = "await" /\ left'[r] = ReceiveDelay1
          /\ holder' = holder /\ radio' = radio
      BY <1>1, <1>5 DEF ForwardUplink, Due, Moves, Typed
    <2>2. LoopTimes'
      BY <1>2, <1>3 DEF TimelyInv, LoopTimes
    <2>3. pc["beacon"] = "wait" => \/ holder = None /\ left["beacon"] < ReceiveDelay1
                                   \/ ReceiveDelay1 <= next_beacon + Patience
      <3> SUFFICES ASSUME pc["beacon"] = "wait", holder = None PROVE left["beacon"] < ReceiveDelay1
        BY <2>1 DEF TimelyInv, RepliesTimely
      <3>1. left["beacon"] \in Nat /\ left["beacon"] <= 1
        BY Waiting
      <3> QED BY <3>1, Delays
    <2>4. RepliesTimely'
      BY <1>2, <1>3, <2>1, <2>3 DEF TimelyInv, RepliesTimely
    <2> QED BY <1>4, <2>1, <2>2, <2>4 DEF TimelyInv
  <1>6. CASE ReplyEnds(r)
    <2>1. pc'[r] = "done" /\ holder' = None /\ pc[r] = "tx"
      BY <1>1, <1>6 DEF ReplyEnds, FreeTransmitter, Moves, Due, Typed
    <2>2. holder = r /\ r # None
      BY <1>1, <2>1 DEF GatewayInv, OneFrameAtATime, OnAir, Tasks
    <2>3. LoopTimes' /\ RepliesTimely'
      BY <1>2, <1>3, <2>1, <2>2, NoReplyComesCloser
    <2>4. DeafOnAir'
      BY <1>3, <2>1 DEF TimelyInv, DeafOnAir
    <2> QED BY <2>3, <2>4 DEF TimelyInv
  <1>7. CASE ReplyInRx1(r)
    <2>1. pc[r] = "await" /\ Due(r, "await")
      BY <1>7 DEF ReplyInRx1, Due
    <2>2. CASE Moves(r, "done", 0) /\ UNCHANGED <<lockVars, radio>>
      <3>1. pc'[r] = "done" /\ holder' = holder /\ radio' = radio
        BY <1>1, <2>2 DEF Moves, Typed
      <3>2. LoopTimes' /\ RepliesTimely'
        BY <1>2, <1>3, <3>1, NoReplyComesCloser
      <3> QED BY <1>4, <2>1, <3>1, <3>2 DEF TimelyInv
    <2>3. CASE /\ holder = None /\ ~CollidesWithBeacon(ReplyTime)
               /\ TakeTransmitter(r, ReplyTime, radio)
      <3>1. radio # "OFF"
        BY <2>1 DEF GatewayInv, RepliesFindRadioOn
      <3>2. holder' = r /\ pc'[r] = "tx" /\ radio' = "TX"
        BY <1>1, <2>3, <3>1 DEF TakeTransmitter, Moves, Typed
      <3>3. DeafOnAir'
        BY <1>3, <3>2 DEF TimelyInv, DeafOnAir
      <3>4. next_beacon # None => next_beacon \in Nat
        BY <2>1, <2>3, BeaconNotLate DEF CollidesWithBeacon
      <3>5. pc["beacon"] = "wait" => next_beacon # None
        BY Waiting
      <3>6. LoopTimes' /\ RepliesTimely'
        BY <1>2, <1>3, <3>2, <3>4, <3>5, NoReplyComesCloser
      <3> QED BY <3>3, <3>6 DEF TimelyInv
    <2> QED BY <1>7, <2>2, <2>3 DEF ReplyInRx1
  <1> QED BY <1>5, <1>6, <1>7 DEF ReplyStep

\* A radio that has started
LEMMA StartupIsTimely ==
    ASSUME GatewayInv, TimelyInv, NEW t \in {"multicast", "beacon"}, TransmitAfterStartup(t)
    PROVE  TimelyInv'
  <1> USE Names, Times DEF lockVars, queueVars, beaconVars
  <1>1. t \in Tasks /\ t # "run" /\ t \notin Replies /\ Typed
    BY DEF Tasks, GatewayInv
  <1>2. /\ \A x \in Tasks \ {t} : pc'[x] = pc[x] /\ left'[x] = left[x]
        /\ pc[t] = "startup" /\ pc'[t] = "tx" /\ radio' = "TX"
        /\ UNCHANGED <<holder, uplinks, next_beacon>>
    BY <1>1 DEF TransmitAfterStartup, Moves, Typed, Due
  <1>3. /\ pc'["run"] = pc["run"] /\ left'["run"] = left["run"]
        /\ \A r \in Replies : pc'[r] = pc[r] /\ left'[r] = left[r]
        /\ t = "multicast" => pc'["beacon"] = pc["beacon"] /\ left'["beacon"] = left["beacon"]
    BY <1>1, <1>2 DEF Tasks
  <1>4. holder = t /\ t # None
    BY <1>1, <1>2 DEF GatewayInv, OneFrameAtATime, OnAir
  <1>5. LoopTimes' /\ RepliesTimely'
    <2>1. pc["beacon"] = "absent" => pc'["beacon"] = "absent"
      BY <1>2, <1>3
    <2>2. \/ pc'["beacon"] # "wait"
          \/ pc["beacon"] = "wait" /\ next_beacon' = next_beacon /\ holder # None
      BY <1>2, <1>3, <1>4
    <2> QED BY <1>2, <1>3, <2>1, <2>2, NoReplyComesCloser
  <1>6. DeafOnAir'
    <2>1. \A x \in {"multicast", "beacon"} : pc'[x] = "startup" => pc[x] = "startup" /\ left'[x] = left[x]
      BY <1>2 DEF Tasks
    <2> QED BY <1>2, <1>4, <2>1 DEF TimelyInv, DeafOnAir
  <1> QED BY <1>5, <1>6 DEF TimelyInv

\* Nothing of the multicast scheduler gets in while a beacon waits
LEMMA MulticastIsTimely ==
    ASSUME GatewayInv, TimelyInv, MulticastStep
    PROVE  TimelyInv'
  <1> USE Names, Times DEF queueVars, beaconVars
  <1>1. "multicast" \in Tasks /\ Typed
    BY DEF Tasks, GatewayInv
  <1>2. CASE TransmitAfterStartup("multicast")
    BY <1>2, StartupIsTimely
  <1>3. CASE MulticastPolls \/ MulticastEnds
    <2>1. PICK lock \in {holder, None}, state \in {radio, "RX"} :
            /\ MulticastScheduler(lock, state)
            /\ \/ pc["multicast"] = "poll" /\ lock = holder /\ state = radio
               \/ pc["multicast"] = "tx" /\ lock = None /\ state = "RX"
            /\ UNCHANGED <<priority, uplinks, next_beacon>>
      BY <1>3 DEF MulticastPolls, MulticastEnds, Due
    <2>2. \/ \E ticks \in Nat \cup {Forever} : Sleeps(lock, state, ticks)
          \/ ~HeldUp(lock) /\ \E f \in Frames : TransmitMulticast(f, state)
      BY <2>1, MulticastRound
    <2>3. \A x \in Tasks \ {"multicast"} : pc'[x] = pc[x] /\ left'[x] = left[x]
      BY <1>1, <2>2 DEF Sleeps, TransmitMulticast, TakeTransmitter, Moves, Typed
    <2>4. /\ pc'["run"] = pc["run"] /\ left'["run"] = left["run"]
          /\ \A r \in Replies : pc'[r] = pc[r] /\ left'[r] = left[r]
          /\ pc'["beacon"] = pc["beacon"] /\ left'["beacon"] = left["beacon"]
      BY <2>3 DEF Tasks
    <2>5. pc["multicast"] = "tx" => holder = "multicast"
      BY <1>1 DEF GatewayInv, OneFrameAtATime, OnAir
    <2>6. CASE \E ticks \in Nat \cup {Forever} : Sleeps(lock, state, ticks)
      <3>1. holder' = lock /\ radio' = state /\ pc'["multicast"] = "poll"
        BY <1>1, <2>6 DEF Sleeps, Moves, Typed
      <3>2. LoopTimes' /\ RepliesTimely'
        <4>1. holder = None => holder' = None
          BY <2>1, <3>1
        <4> QED BY <2>1, <2>4, <4>1, NoReplyComesCloser
      <3>3. DeafOnAir'
        <4>1. lock # None => /\ lock = holder /\ state = radio /\ holder \in Tasks \ {"multicast"}
          BY <1>1, <2>1 DEF GatewayInv, OneFrameAtATime, OnAir, Typed
        <4> QED BY <2>1, <2>3, <2>4, <3>1, <4>1 DEF TimelyInv, DeafOnAir
      <3> QED BY <3>2, <3>3 DEF TimelyInv
    <2>7. CASE ~HeldUp(lock) /\ \E f \in Frames : TransmitMulticast(f, state)
      <3>1. ~(priority > 0) /\ pc["beacon"] # "wait"
        BY <2>7, Waiting DEF HeldUp
      <3>2. LoopTimes' /\ RepliesTimely'
        BY <2>1, <2>4, <3>1, NoReplyComesCloser
      <3>3. /\ holder' = "multicast"
            /\ \/ state = "OFF" /\ pc'["multicast"] = "startup" /\ left'["multicast"] = StandbyTime
               \/ pc'["multicast"] = "tx" /\ radio' = "TX"
        BY <1>1, <2>7 DEF TransmitMulticast, TakeTransmitter, Moves, Typed
      <3>4. state = "OFF" => next_beacon = None
        BY <2>1 DEF GatewayInv, RepliesFindRadioOn
      <3> QED BY <2>1, <2>4, <3>2, <3>3, <3>4 DEF TimelyInv, DeafOnAir
    <2> QED BY <2>2, <2>6, <2>7
  <1> QED BY <1>2, <1>3 DEF MulticastStep

\* A beacon that begins to wait is not late yet
LEMMA BeaconIsTimely ==
    ASSUME GatewayInv, TimelyInv, BeaconStep
    PROVE  TimelyInv'
  <1> USE Names, Times DEF queueVars, beaconVars, lockVars
  <1>1. "beacon" \in Tasks /\ Typed /\ (next_beacon # None => next_beacon \in Int)
    BY DEF Tasks, GatewayInv, Typed
  <1>2. CASE TransmitAfterStartup("beacon")
    BY <1>2, StartupIsTimely
  <1>3. CASE BeaconDue \/ SlotDue \/ BeaconWaited
    <2>1. /\ Acquire /\ pc["beacon"] \in {"await", "slot", "wait"} /\ left["beacon"] = 0
          /\ uplinks' = uplinks
          /\ next_beacon # None => next_beacon' = next_beacon
          /\ next_beacon = None => next_beacon' = 0
      BY <1>3 DEF BeaconDue, SlotDue, BeaconWaited, Due, GatewayInv, Beginning
    <2>2. \A x \in Tasks \ {"beacon"} : pc'[x] = pc[x] /\ left'[x] = left[x]
      BY <1>1, <2>1 DEF Acquire, TakeTransmitter, Moves, Typed
    <2>3. /\ pc'["run"] = pc["run"] /\ left'["run"] = left["run"]
          /\ \A r \in Replies : pc'[r] = pc[r] /\ left'[r] = left[r]
          /\ pc'["multicast"] = pc["multicast"] /\ left'["multicast"] = left["multicast"]
      BY <2>2 DEF Tasks
    <2>4. pc["beacon"] # "wait" => next_beacon' \in Nat
      BY <2>1, ComesDueOnTime
    <2>5. pc["beacon"] = "wait" => next_beacon # None
      BY Waiting
    <2>6. CASE holder # None
      <3>1. pc'["beacon"] = "wait" /\ holder' = holder /\ radio' = radio
        BY <1>1, <2>1, <2>6 DEF Acquire, Moves, Typed
      <3>2. LoopTimes' /\ RepliesTimely'
        BY <2>1, <2>3, <2>4, <2>5, <2>6, NoReplyComesCloser
      <3>3. holder \in Tasks \ {"beacon"}
        BY <1>1, <2>1, <2>6 DEF GatewayInv, OneFrameAtATime, OnAir, Typed
      <3>4. CASE next_beacon # None
        BY <2>1, <2>2, <2>3, <3>1, <3>2, <3>3, <3>4 DEF TimelyInv, DeafOnAir
      <3>5. CASE next_beacon = None
        <4>1. pc["multicast"] = "startup" /\ holder = "multicast"
          BY <2>1, <2>6, <3>5 DEF GatewayInv, Beginning, RepliesFindRadioOn, OneFrameAtATime, OnAir, Tasks
        <4>2. left["multicast"] <= StandbyTime /\ left["multicast"] \in Nat
          BY <2>6, <4>1, HolderOnAir DEF TimelyInv, DeafOnAir
        <4>3. next_beacon' >= left'["multicast"] - StandbyTime
          BY <2>1, <2>3, <3>5, <4>2
        <4> QED BY <2>3, <3>1, <3>2, <4>1, <4>2, <4>3 DEF TimelyInv, DeafOnAir
      <3> QED BY <3>4, <3>5
    <2>7. CASE holder = None
      <3>1. /\ holder' = "beacon"
            /\ \/ /\ radio = "OFF" /\ pc'["beacon"] = "startup" /\ left'["beacon"] = StandbyTime
               \/ pc'["beacon"] = "tx" /\ radio' = "TX"
        BY <1>1, <2>1, <2>7 DEF Acquire, TakeTransmitter, Moves, Typed
      <3>2. LoopTimes' /\ RepliesTimely'
        BY <2>1, <2>3, <3>1, NoReplyComesCloser
      <3>3. radio = "OFF" => next_beacon' = 0
        BY <2>1 DEF GatewayInv, RepliesFindRadioOn
      <3> QED BY <2>3, <3>1, <3>2, <3>3 DEF TimelyInv, DeafOnAir
    <2> QED BY <2>6, <2>7
  <1>4. CASE BeaconEnds
    <2>1. PICK schedule, beacon : BeaconGoesOn(schedule, beacon)
      BY <1>4 DEF BeaconEnds
    <2>2. uplinks' = uplinks /\ pc["beacon"] = "tx"
      BY <1>4 DEF BeaconEnds, Due
    <2>3. \A x \in Tasks \ {"beacon"} : pc'[x] = pc[x] /\ left'[x] = left[x]
      BY <1>1, <2>1 DEF BeaconGoesOn, TakeTransmitter, Moves, Typed
    <2>4. /\ pc'["run"] = pc["run"] /\ left'["run"] = left["run"]
          /\ \A r \in Replies : pc'[r] = pc[r] /\ left'[r] = left[r]
          /\ pc'["multicast"] = pc["multicast"] /\ left'["multicast"] = left["multicast"]
      BY <2>3 DEF Tasks
    <2>5. \/ pc'["beacon"] \in {"slot", "await"} /\ holder' = None
          \/ pc'["beacon"] = "tx" /\ radio' = "TX" /\ holder' = "beacon"
      BY <1>1, <2>1 DEF BeaconGoesOn, FreeTransmitter, TakeTransmitter, Moves, Typed
    <2>6. LoopTimes' /\ RepliesTimely'
      BY <2>2, <2>4, <2>5, NoReplyComesCloser
    <2> QED BY <2>4, <2>5, <2>6 DEF TimelyInv, DeafOnAir
  <1> QED BY <1>2, <1>3, <1>4 DEF BeaconStep

\* The clock
LEMMA TickIsTimely ==
    ASSUME GatewayInv, TimelyInv, Tick
    PROVE  TimelyInv'
  <1> USE Names, Times
  <1>1. /\ UNCHANGED <<holder, radio, uplinks, pc>>
        /\ next_beacon' = IF next_beacon = None THEN None ELSE next_beacon - 1
        /\ next_beacon # None => next_beacon \in Int
    BY Countdown DEF GatewayInv, Typed
  <1>2. \A t \in Tasks : /\ left[t] \in Nat \cup {-1} /\ left'[t] \in Int /\ left'[t] <= left[t]
                         /\ left[t] = 0 => left'[t] = 0
                         /\ pc[t] \notin {"absent", "done", "get", "poll"} =>
                                left[t] \in Nat /\ left[t] > 0 /\ left'[t] = left[t] - 1
    BY Countdown
  <1>3. {"run", "multicast", "beacon"} \subseteq Tasks /\ Replies \subseteq Tasks
    BY DEF Tasks
  <1>4. LoopTimes'
    <2>1. left["run"] \in Int /\ left'["run"] \in Int /\ left'["run"] <= left["run"]
      BY <1>2, <1>3
    <2> QED BY <1>1, <2>1 DEF TimelyInv, LoopTimes
  <1>5. DeafOnAir'
    <2>1. \A t \in {"multicast", "beacon"} : pc'[t] = "startup" => left'[t] <= StandbyTime
      <3> TAKE t \in {"multicast", "beacon"}
      <3>1. left[t] \in Int /\ left'[t] \in Int /\ left'[t] <= left[t]
        BY <1>2, <1>3
      <3> QED BY <1>1, <3>1 DEF TimelyInv, DeafOnAir
    <2>2. ASSUME next_beacon' # None, holder' # None
          PROVE  \/ pc'[holder'] = "tx" /\ radio' = "TX"
                 \/ pc'[holder'] = "startup" /\ next_beacon' >= left'[holder'] - StandbyTime
      <3>1. holder \in Tasks /\ next_beacon # None /\ next_beacon' = next_beacon - 1 /\ next_beacon \in Int
        BY <1>1, <2>2 DEF GatewayInv, Typed
      <3>2. CASE pc[holder] = "startup" /\ next_beacon >= left[holder] - StandbyTime
        <4>1. left[holder] \in Nat /\ left'[holder] = left[holder] - 1
          BY <1>2, <3>1, <3>2
        <4> QED BY <1>1, <3>1, <3>2, <4>1
      <3> QED BY <1>1, <2>2, <3>1, <3>2 DEF TimelyInv, DeafOnAir
    <2> QED BY <2>1, <2>2 DEF DeafOnAir
  <1>6. RepliesTimely'
    <2>1. \A r \in Replies : /\ pc'[r] \in {"absent", "forward"} => left'[r] = 0
                             /\ pc'[r] = "await" => left'[r] <= ReceiveDelay1
      <3> TAKE r \in Replies
      <3>1. left[r] \in Int /\ left'[r] \in Int /\ left'[r] <= left[r] /\ (left[r] = 0 => left'[r] = 0)
        BY <1>2, <1>3
      <3> QED BY <1>1, <3>1 DEF TimelyInv, RepliesTimely
    <2>2. ASSUME pc'["beacon"] = "wait"
          PROVE  /\ \A r \in Replies :
                    /\ pc'[r] = "forward" => holder' = None \/ ReceiveDelay1 <= next_beacon' + Patience
                    /\ pc'[r] = "await" => \/ holder' = None /\ left'["beacon"] < left'[r]
                                          \/ left'[r] <= next_beacon' + Patience
                 /\ uplinks' > 0 \/ pc'["run"] = "process" =>
                        holder' = None \/ left'["run"] + ReceiveDelay1 <= next_beacon' + Patience
      <3>1. /\ pc["beacon"] = "wait" /\ next_beacon \in Int /\ next_beacon' = next_beacon - 1
            /\ left["beacon"] \in Nat /\ left'["beacon"] = left["beacon"] - 1
        BY <1>1, <1>2, <1>3, <2>2, Waiting
      <3>2. ASSUME NEW r \in Replies
            PROVE  /\ pc'[r] # "forward"
                   /\ pc'[r] = "await" => \/ holder' = None /\ left'["beacon"] < left'[r]
                                         \/ left'[r] <= next_beacon' + Patience
        <4>1. /\ pc[r] = "forward" => left[r] = 0
              /\ pc[r] = "await" => \/ holder = None /\ left["beacon"] < left[r]
                                   \/ left[r] <= next_beacon + Patience
          BY <3>1 DEF TimelyInv, RepliesTimely
        <4>2. pc[r] \in {"forward", "await"} => left[r] \in Nat /\ left[r] > 0 /\ left'[r] = left[r] - 1
          BY <1>2, <1>3
        <4> QED BY <1>1, <3>1, <4>1, <4>2, Delays
      <3>3. uplinks' > 0 \/ pc'["run"] = "process" =>
                        holder' = None \/ left'["run"] + ReceiveDelay1 <= next_beacon' + Patience
        <4> SUFFICES ASSUME uplinks > 0 \/ pc["run"] = "process", holder # None
                     PROVE  left'["run"] + ReceiveDelay1 <= next_beacon' + Patience
          BY <1>1
        <4>1. left["run"] + ReceiveDelay1 <= next_beacon + Patience
          BY <3>1 DEF TimelyInv, RepliesTimely
        <4>2. pc["run"] # "get"
          BY DEF TimelyInv, LoopTimes
        <4>3. left["run"] \in Nat /\ left'["run"] = left["run"] - 1
          BY <1>2, <1>3, <3>1, <4>2, Waiting
        <4> QED BY <3>1, <4>1, <4>3, Delays
      <3> QED BY <3>2, <3>3
    <2> QED BY <2>1, <2>2 DEF RepliesTimely
  <1> QED BY <1>4, <1>5, <1>6 DEF TimelyInv

\* Every step
LEMMA TimelyNext == GatewayInv /\ TimelyInv /\ [Next]_vars => TimelyInv'
  <1> SUFFICES ASSUME GatewayInv, TimelyInv, [Next]_vars PROVE TimelyInv'
    OBVIOUS
  <1>1. CASE RunStep
    BY <1>1, RunIsTimely, HandOverIsTimely DEF RunStep
  <1>2. CASE MulticastStep \/ BeaconStep \/ UplinkArrives \/ Tick
    BY <1>2, MulticastIsTimely, BeaconIsTimely, UplinkIsTimely, TickIsTimely
  <1>3. CASE \E r \in Replies : ReplyStep(r)
    BY <1>3, RepliesAreTimely
  <1>4. CASE UNCHANGED vars \/ \E f \in Frames : ScheduleMulticastDownlink(f)
    <2>1. UNCHANGED <<holder, next_beacon, radio, uplinks, pc, left>>
      BY <1>4 DEF ScheduleMulticastDownlink, vars, lockVars, queueVars, radioVars, beaconVars
    <2> QED BY <2>1 DEF TimelyInv, LoopTimes, DeafOnAir, RepliesTimely
  <1> QED BY <1>1, <1>2, <1>3, <1>4 DEF Next, SpinsForever

-----------------------------------------------------------------------------
(* The theorems.                                                           *)

\* Every step of a task, of the network and of the clock keeps the invariant
LEMMA GatewayNext == GatewayInv /\ TimelyInv /\ [Next]_vars => GatewayInv'
  <1> SUFFICES ASSUME GatewayInv, TimelyInv, [Next]_vars PROVE GatewayInv'
    OBVIOUS
  <1>1. CASE RunStep
    BY <1>1, RunSteps, HandOverStep DEF RunStep
  <1>2. CASE MulticastStep \/ BeaconStep
    BY <1>2, MulticastSteps, BeaconSteps
  <1>3. CASE \E r \in Replies : ReplyStep(r)
    BY <1>3, ReplySteps
  <1>4. CASE UplinkArrives \/ Tick \/ \E f \in Frames : ScheduleMulticastDownlink(f)
    BY <1>4, UplinkStep, TickStep, ScheduleStep
  <1>5. CASE UNCHANGED vars
    <2>1. UNCHANGED <<holder, busy, quiet_factor, quiet, priority, next_beacon, radio, uplinks, rate,
                      unscheduled, queue, batch, sending, slots, pc, left, rest>>
      BY <1>5 DEF vars, lockVars, queueVars, radioVars, multicastVars, beaconVars
    <2>2. Typed' /\ Timed' /\ UplinksHaveTasks' /\ RepliesFindRadioOn' /\ PlacesOK'
      BY <2>1 DEF GatewayInv, Typed, Timed, UplinksHaveTasks, RepliesFindRadioOn, PlacesOK, Absent
    <2>3. PriorityCounts' /\ Beginning'
      BY <2>1 DEF GatewayInv, PriorityCounts, Beginning, Announced
    <2>4. Aside
      BY <2>1 DEF Aside, OnAir, lockVars, beaconVars
    <2> QED BY <2>2, <2>3, <2>4, AsideSteps DEF GatewayInv
  <1> QED BY <1>1, <1>2, <1>3, <1>4, <1>5 DEF Next, SpinsForever

\* The inductive invariant holds in every reachable state of the gateway
THEOREM GatewayInvariant == Spec => [](GatewayInv /\ TimelyInv)
  BY GatewayInit, TimelyInit, GatewayNext, TimelyNext, PTL DEF Spec

\* One frame is on its way at a time, and its task has the lock (gateway.py:168-208)
THEOREM TransmitterIsExclusive == Spec => []OneFrameAtATime
  <1>1. GatewayInv => OneFrameAtATime
    BY DEF GatewayInv
  <1> QED BY <1>1, GatewayInvariant, PTL

\* No reply is on the air when a beacon is due (gateway.py:325-364)
THEOREM RepliesLeaveRoomForBeacons == Spec => []RepliesNeverDelayBeacons
  <1>1. GatewayInv => RepliesNeverDelayBeacons
    BY DEF GatewayInv
  <1> QED BY <1>1, GatewayInvariant, PTL

\* A beacon waits for one frame of somebody else at most (gateway.py:400-403, 487-492)
THEOREM BeaconsAreHardlyLate == Spec => []BeaconWaitsForOneFrame
  <1>1. GatewayInv => BeaconWaitsForOneFrame
    <2> SUFFICES ASSUME GatewayInv, pc["beacon"] \in {"wait", "startup"}
                 PROVE  next_beacon >= -(LongestFrame + Slack + 1)
      BY DEF BeaconWaitsForOneFrame
    <2>1. next_beacon # None /\ next_beacon \in Int /\ left["beacon"] \in Nat
      BY Names DEF GatewayInv, Beginning, Typed, Timed, Tasks, Forever
    <2>2. StandbyTime <= Slack /\ Slack \in Nat /\ LongestFrame \in Nat /\ StandbyTime \in Nat
      <3>1. StandbyTime + MaxExtra["beacon"] <= Slack /\ MaxExtra["beacon"] \in Nat
        BY Bounds, Times DEF Senders
      <3> QED BY <3>1, Bounds, Times
    <2>3. CASE pc["beacon"] = "startup"
      <3>1. next_beacon >= left["beacon"] - StandbyTime
        BY <2>1, <2>3 DEF GatewayInv, BeaconOnTime
      <3> QED BY <2>1, <2>2, <3>1
    <2>4. CASE pc["beacon"] = "wait" /\ holder = None
      <3>1. next_beacon >= left["beacon"] - (LongestFrame + Slack + 1)
        BY <2>1, <2>4 DEF GatewayInv, BeaconOnTime
      <3> QED BY <2>1, <2>2, <3>1
    <2>5. CASE pc["beacon"] = "wait" /\ holder # None
      <3>1. next_beacon >= AirLeft(holder) - (LongestFrame + Slack)
        BY <2>1, <2>5 DEF GatewayInv, BeaconOnTime
      <3>2. AirLeft(holder) \in Nat
        BY <2>5, HolderOnAir
      <3> QED BY <2>1, <2>2, <3>1, <3>2
    <2> QED BY <2>3, <2>4, <2>5
  <1> QED BY <1>1, GatewayInvariant, PTL

\* The data rate of a multicast group is never used for a reply or a beacon (gateway.py:215-217)
THEOREM GroupRateIsNotKept == Spec => []OthersAtOwnRate
  <1>1. GatewayInv => OthersAtOwnRate
    <2> SUFFICES ASSUME GatewayInv, NEW t \in Tasks, t # "multicast", pc[t] = "tx"
                 PROVE  rate = OwnRate
      BY DEF OthersAtOwnRate
    <2>1. CASE t = "run"
      BY <2>1 DEF GatewayInv, PlacesOK
    <2>2. CASE t # "run"
      BY <2>2 DEF GatewayInv, OneFrameAtATime, OnAir, RateRestored
    <2> QED BY <2>1, <2>2
  <1> QED BY <1>1, GatewayInvariant, PTL

\* A multicast frame begins after the quiet time of all frames before it (gateway.py:35-40, 171-178,
\* 405-407)
THEOREM DutyCycleIsKept == Spec => QuietTimeKept
  <1>1. GatewayInv /\ [Next]_vars => [sending' # sending /\ sending' # None => rest' <= Slack]_vars
    <2> SUFFICES ASSUME GatewayInv, Next, sending' # sending, sending' # None
                 PROVE  rest' <= Slack
      OBVIOUS
    <2>1. CASE MulticastStep
      BY <2>1, MulticastSteps
    <2>2. CASE ~MulticastStep
      BY <2>2
      DEF Next, RunStep, ReceiveDataWait, BackedOff, ReceiveAfterStartup, HandOver, UplinkArrives,
          ReplyStep, ForwardUplink, ReplyInRx1, ReplyEnds, BeaconStep, BeaconDue, SlotDue,
          BeaconWaited, TransmitAfterStartup, BeaconEnds, ScheduleMulticastDownlink, Tick,
          SpinsForever, vars, multicastVars
    <2> QED BY <2>1, <2>2
  <1> QED BY <1>1, GatewayInvariant, PTL DEF Spec, QuietTimeKept

=============================================================================
