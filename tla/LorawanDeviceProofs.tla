------------------------ MODULE LorawanDeviceProofs ------------------------
(***************************************************************************)
(* The safety of the end device, for any number of uplinks, receive loops, *)
(* sessions and groups, and for any times that satisfy the assumptions of  *)
(* module LorawanDevice.                                                   *)
(***************************************************************************)
EXTENDS LorawanDevice, FiniteSetTheorems, TLAPS

-----------------------------------------------------------------------------
(* The inductive invariant.                                                *)

WindowRecords  == [mode : Modes, restore : BOOLEAN, number : {1, 2}, reply : BOOLEAN, since : Nat]
SessionRecords == [group : Groups \cup {None}, superseded : BOOLEAN, cancel : BOOLEAN,
                   mode : Modes, rx : Overrides]

\* What the proofs need of the variables' types
Typed ==
    /\ operating_mode \in Modes /\ rx \in Overrides
    /\ radio \in {"OFF", "STANDBY", "RX", "TX"}
    /\ c_suspends \in Nat /\ c_waiters \subseteq Loops
    /\ sessions \in [Groups -> Sessions \cup {None}]
    /\ session \in [Sessions -> SessionRecords]
    /\ window \in [Uplinkers -> WindowRecords]
    /\ pc \in [Tasks -> UplinkPCs \cup LoopPCs \cup SessionPCs]
    /\ left \in [Tasks -> Nat \cup {Forever}]
    /\ \A u \in Uplinkers : pc[u] \in UplinkPCs
    /\ \A l \in Loops : pc[l] \in LoopPCs
    /\ \A s \in Sessions : pc[s] \in SessionPCs

\* Only a loop that idles waits without a time limit
Timed == \A t \in Tasks : left[t] = Forever => t \in Loops /\ pc[t] = "idle"

\* The list of waiters has the loops that idle and are not yet woken
WaitersIdle == \A l \in c_waiters : pc[l] = "idle" /\ left[l] = Forever

\* A radio that transmits does so for an uplink
TransmitsForUplink == radio = "TX" => \E u \in Uplinkers : pc[u] = "tx"

Uplinks == {u \in Uplinkers : InUplink(u)}
SuspendsCount == c_suspends = Cardinality(Uplinks)

\* The longest time that a loop may still take for the poll it is in, negative when it is in none
PollLeft(l) ==
    CASE pc[l] = "get"          -> left[l]
      [] pc[l] = "startup_get"  -> left[l] + PollInterval
      [] pc[l] = "probe"        -> left[l] + StandbyTime + PollInterval
      [] pc[l] = "startup_loop" -> left[l] + 1 + StandbyTime + PollInterval
      [] OTHER                  -> -1

LongestPoll == 2 * StandbyTime + PollInterval + 1

\* The shortest time until an uplink listens in a receive window, from where it is
UntilWindow(where, ticks) ==
    CASE where = "startup_tx" -> ticks + AirTime + ReceiveDelay1 + 1
      [] where = "tx"         -> ticks + ReceiveDelay1 + 1
      [] where = "settle"     -> ticks + 1 + (IF StandbyTime >= ReceiveDelay1 THEN 0
                                              ELSE ReceiveDelay1 - StandbyTime)
      [] where \in {"await", "startup_window"} -> ticks + 1
      [] where = "probe"      -> ticks
      [] OTHER -> 0

WindowLeft(u) == UntilWindow(pc[u], left[u])

\* No poll lasts that long
PollsEndInTime ==
    /\ \A l \in Loops : PollLeft(l) <= LongestPoll
    /\ \A l \in Loops, u \in Uplinkers : InUplink(u) => PollLeft(l) < WindowLeft(u)

\* Before its windows and after them an uplink has put nothing aside
OutsideWindows == {"client", "startup_tx", "tx", "settle", "startup_resume"}

NothingPutAside ==
    \A u \in Uplinkers : pc[u] \in OutsideWindows => ~window[u].restore

\* A session and the table of sessions point to each other
SessionsLinked ==
    /\ \A g \in Groups : sessions[g] # None => session[sessions[g]].group = g
    /\ \A s \in Sessions : pc[s] = "absent" => ~session[s].cancel

DeviceInv ==
    /\ Typed /\ Timed /\ WaitersIdle /\ NoLoopForgotten
    /\ TransmitsForUplink /\ SuspendsCount /\ PollsEndInTime
    /\ NothingPutAside /\ TunedOutsideWindows
    /\ SessionsLinked /\ SessionsAccounted

-----------------------------------------------------------------------------
(* The constants, and the steps of tasks.                                  *)

AllPCs == UplinkPCs \cup LoopPCs \cup SessionPCs

LEMMA Times ==
    /\ StandbyTime \in Nat /\ StandbyTime > 0 /\ AirTime \in Nat /\ AirTime > 0
    /\ ReceiveDelay1 \in Nat /\ ReceiveDelay1 > 0 /\ ReceiveDelay2 \in Nat
    /\ Window \in Nat /\ Window > 0 /\ PollInterval \in Nat /\ PollInterval > 0
    /\ Leads \subseteq Nat /\ Lengths \subseteq Nat
    /\ LongestPoll < AirTime + ReceiveDelay1 + 1 /\ LongestPoll \in Nat
  <1>1. /\ StandbyTime \in Nat /\ StandbyTime > 0 /\ AirTime \in Nat /\ AirTime > 0
        /\ ReceiveDelay1 \in Nat /\ ReceiveDelay1 > 0 /\ ReceiveDelay2 \in Nat
        /\ Window \in Nat /\ Window > 0 /\ PollInterval \in Nat /\ PollInterval > 0
        /\ Leads \subseteq Nat /\ Lengths \subseteq Nat
    BY DeviceAssumption
  <1>2. 2 * StandbyTime + PollInterval < AirTime + ReceiveDelay1
    BY DelayAssumption
  <1>3. LongestPoll < AirTime + ReceiveDelay1 + 1 /\ LongestPoll \in Nat
    BY <1>1, <1>2 DEF LongestPoll
  <1> QED BY <1>1, <1>3

LEMMA Kinds ==
    /\ Uplinkers \subseteq Tasks /\ Loops \subseteq Tasks /\ Sessions \subseteq Tasks
    /\ Tasks = Uplinkers \cup Loops \cup Sessions
    /\ \A u \in Uplinkers : u \notin Loops /\ u \notin Sessions
    /\ \A l \in Loops : l \notin Sessions /\ l \notin Uplinkers
    /\ \A s \in Sessions : s \notin Uplinkers /\ s \notin Loops
    /\ None \notin Sessions /\ None \notin Groups
  BY DeviceAssumption DEF Tasks

\* One task moves, and some loops are woken
LEMMA OneMoves ==
    ASSUME Typed, NEW t \in Tasks, NEW where \in AllPCs, NEW ticks \in Nat \cup {Forever},
           NEW woken, Move(Goes(t, where, ticks), woken)
    PROVE  /\ pc' \in [Tasks -> AllPCs] /\ left' \in [Tasks -> Nat \cup {Forever}]
           /\ pc'[t] = where /\ left'[t] = ticks
           /\ \A x \in Tasks \ {t} : /\ pc'[x] = pc[x]
                                     /\ left'[x] = IF x \in woken THEN 1 ELSE left[x]
  <1> DEFINE moves == Goes(t, where, ticks)
  <1>1. DOMAIN moves = {t} /\ moves[t] = <<where, ticks>>
    BY DEF Goes
  <1>2. /\ pc' = [x \in Tasks |-> IF x \in DOMAIN moves THEN moves[x][1] ELSE pc[x]]
        /\ left' = [x \in Tasks |-> IF x \in DOMAIN moves THEN moves[x][2]
                                    ELSE IF x \in woken THEN 1 ELSE left[x]]
    BY DEF Move
  <1> HIDE DEF moves
  <1>3. pc'[t] = where /\ left'[t] = ticks
    BY <1>1, <1>2
  <1>4. \A x \in Tasks \ {t} : /\ pc'[x] = pc[x]
                               /\ left'[x] = IF x \in woken THEN 1 ELSE left[x]
    BY <1>1, <1>2
  <1>5. \A x \in Tasks : pc'[x] \in AllPCs
    BY <1>3, <1>4 DEF Typed, AllPCs
  <1>6. \A x \in Tasks : left'[x] \in Nat \cup {Forever}
    BY <1>3, <1>4 DEF Typed
  <1>7. pc' \in [Tasks -> AllPCs]
    BY <1>2, <1>5
  <1>8. left' \in [Tasks -> Nat \cup {Forever}]
    BY <1>2, <1>6
  <1> QED BY <1>3, <1>4, <1>7, <1>8

\* One task moves, and nobody is woken
LEMMA MovesAlone ==
    ASSUME Typed, NEW t \in Tasks, NEW where \in AllPCs, NEW ticks \in Nat \cup {Forever},
           Move(Goes(t, where, ticks), {})
    PROVE  /\ pc' \in [Tasks -> AllPCs] /\ left' \in [Tasks -> Nat \cup {Forever}]
           /\ pc'[t] = where /\ left'[t] = ticks
           /\ \A x \in Tasks \ {t} : pc'[x] = pc[x] /\ left'[x] = left[x]
  <1>1. /\ pc' \in [Tasks -> AllPCs] /\ left' \in [Tasks -> Nat \cup {Forever}]
        /\ pc'[t] = where /\ left'[t] = ticks
        /\ \A x \in Tasks \ {t} : /\ pc'[x] = pc[x]
                                  /\ left'[x] = IF x \in {} THEN 1 ELSE left[x]
    BY OneMoves
  <1> QED BY <1>1

-----------------------------------------------------------------------------
(* The initial state.                                                      *)

LEMMA DeviceInit == Init => DeviceInv
  <1> SUFFICES ASSUME Init PROVE DeviceInv
    OBVIOUS
  <1> USE Kinds
  <1>1. /\ \A u \in Uplinkers : pc[u] = "client" /\ left[u] = 0 /\ window[u] = NoWindow
        /\ \A t \in Loops \cup Sessions : pc[t] = "absent" /\ left[t] = 0
    BY DEF Init
  <1>2. Typed
    BY <1>1 DEF Init, Typed, UplinkPCs, LoopPCs, SessionPCs, Modes, Overrides, NoSession, NoWindow,
                WindowRecords, SessionRecords
  <1>3. Timed /\ WaitersIdle /\ NoLoopForgotten /\ TransmitsForUplink
    BY <1>1 DEF Init, Timed, WaitersIdle, NoLoopForgotten, TransmitsForUplink, Forever
  <1>4. Uplinks = {}
    BY <1>1 DEF Uplinks, InUplink
  <1>5. SuspendsCount
    BY <1>4, FS_EmptySet DEF Init, SuspendsCount
  <1>6. PollsEndInTime
    BY <1>1, Times DEF PollsEndInTime, PollLeft, InUplink
  <1>7. NothingPutAside /\ TunedOutsideWindows
    BY <1>1 DEF Init, NothingPutAside, OutsideWindows, TunedOutsideWindows, NoWindow, Configured, NoOverride
  <1>8. SessionsLinked /\ SessionsAccounted
    BY <1>1 DEF Init, SessionsLinked, SessionsAccounted, NoSession
  <1> QED BY <1>2, <1>3, <1>5, <1>6, <1>7, <1>8 DEF DeviceInv

-----------------------------------------------------------------------------
(* The receive loops.                                                      *)

\* What a step of a loop changes: it polls only when no uplink is under way, and a poll that it
\* has begun gets no longer
LoopEffect(l) ==
    /\ pc' \in [Tasks -> AllPCs] /\ left' \in [Tasks -> Nat \cup {Forever}]
    /\ \A x \in Tasks \ {l} : pc'[x] = pc[x] /\ left'[x] = left[x]
    /\ pc'[l] \in LoopPCs /\ l \notin c_waiters
    /\ \/ /\ pc'[l] = "idle" /\ left'[l] = Forever
          /\ c_waiters' = c_waiters \cup {l} /\ c_suspends > 0
       \/ pc'[l] # "idle" /\ left'[l] \in Nat /\ c_waiters' = c_waiters
    /\ PollLeft(l)' <= LongestPoll
    /\ c_suspends > 0 => PollLeft(l)' <= PollLeft(l)
    /\ radio' \in {"OFF", "STANDBY", "RX", "TX"} /\ (radio' = "TX" => radio = "TX")
    /\ UNCHANGED <<modeVars, tuned, c_suspends, sessionVars, window>>

LEMMA LoopPlaces ==
    /\ "absent" \in AllPCs /\ "starting" \in AllPCs /\ "startup_loop" \in AllPCs
    /\ "probe" \in AllPCs /\ "startup_get" \in AllPCs /\ "get" \in AllPCs /\ "backoff" \in AllPCs
    /\ "idle" \in AllPCs
  BY DEF AllPCs, LoopPCs

\* How long a poll takes, place by place
LEMMA PollTimes ==
    ASSUME Typed, NEW l \in Loops
    PROVE  /\ pc[l] \notin {"get", "startup_get", "probe", "startup_loop"} => PollLeft(l) = -1
           /\ pc[l] = "get" => PollLeft(l) = left[l]
           /\ pc[l] = "startup_get" => PollLeft(l) = left[l] + PollInterval
           /\ pc[l] = "probe" => PollLeft(l) = left[l] + StandbyTime + PollInterval
           /\ pc[l] = "startup_loop" => PollLeft(l) = left[l] + 1 + StandbyTime + PollInterval
           /\ PollLeft(l) \in Int
  <1>1. left[l] \in Int
    BY Kinds DEF Typed, Forever
  <1> QED BY <1>1, Times DEF PollLeft

LEMMA LoopTopEffect ==
    ASSUME Typed, NEW l \in Loops, l \notin c_waiters, PollLeft(l) >= -1, LoopTop(l),
           UNCHANGED <<modeVars, c_suspends, sessionVars, window>>
    PROVE  LoopEffect(l)
  <1> USE DEF radioVars, Moves
  <1>1. /\ l \in Tasks /\ c_suspends \in Nat /\ StandbyTime \in Nat \cup {Forever}
        /\ 1 \in Nat \cup {Forever} /\ 0 \in Nat \cup {Forever} /\ Forever \in Nat \cup {Forever}
        /\ radio \in {"OFF", "STANDBY", "RX", "TX"} /\ PollLeft(l) \in Int
    BY Kinds, Times, PollTimes DEF Typed
  <1>2. CASE c_stop /\ Moves(l, "absent", 0) /\ UNCHANGED radioVars
    <2>1. /\ pc' \in [Tasks -> AllPCs] /\ left' \in [Tasks -> Nat \cup {Forever}]
          /\ pc'[l] = "absent" /\ left'[l] = 0 /\ c_waiters' = c_waiters
          /\ \A x \in Tasks \ {l} : pc'[x] = pc[x] /\ left'[x] = left[x]
      BY <1>1, <1>2, LoopPlaces, MovesAlone
    <2>2. PollLeft(l)' = -1
      BY <2>1 DEF PollLeft
    <2> QED BY <1>1, <1>2, <2>1, <2>2, Times DEF LoopEffect, LoopPCs
  <1>3. CASE c_suspends > 0 /\ Move(Goes(l, "idle", Forever), {}) /\ c_waiters' = c_waiters \cup {l}
             /\ UNCHANGED radioVars
    <2>1. /\ pc' \in [Tasks -> AllPCs] /\ left' \in [Tasks -> Nat \cup {Forever}]
          /\ pc'[l] = "idle" /\ left'[l] = Forever
          /\ \A x \in Tasks \ {l} : pc'[x] = pc[x] /\ left'[x] = left[x]
      BY <1>1, <1>3, LoopPlaces, MovesAlone DEF Forever
    <2>2. PollLeft(l)' = -1
      BY <2>1 DEF PollLeft
    <2> QED BY <1>1, <1>3, <2>1, <2>2, Times DEF LoopEffect, LoopPCs
  <1>4. CASE c_suspends = 0 /\ radio' = "STANDBY" /\ Moves(l, "startup_loop", StandbyTime)
             /\ UNCHANGED <<rx_continuous, tuned>>
    <2>1. /\ pc' \in [Tasks -> AllPCs] /\ left' \in [Tasks -> Nat \cup {Forever}]
          /\ pc'[l] = "startup_loop" /\ left'[l] = StandbyTime /\ c_waiters' = c_waiters
          /\ \A x \in Tasks \ {l} : pc'[x] = pc[x] /\ left'[x] = left[x]
      BY <1>1, <1>4, LoopPlaces, MovesAlone
    <2>2. PollLeft(l)' = StandbyTime + 1 + StandbyTime + PollInterval
      BY <2>1 DEF PollLeft
    <2>3. PollLeft(l)' <= LongestPoll
      BY <2>2, Times DEF LongestPoll
    <2> QED BY <1>1, <1>4, <2>1, <2>3, Times DEF LoopEffect, LoopPCs
  <1>5. CASE c_suspends = 0 /\ radio' = "RX" /\ Moves(l, "probe", 1) /\ UNCHANGED tuned
    <2>1. /\ pc' \in [Tasks -> AllPCs] /\ left' \in [Tasks -> Nat \cup {Forever}]
          /\ pc'[l] = "probe" /\ left'[l] = 1 /\ c_waiters' = c_waiters
          /\ \A x \in Tasks \ {l} : pc'[x] = pc[x] /\ left'[x] = left[x]
      BY <1>1, <1>5, LoopPlaces, MovesAlone
    <2>2. PollLeft(l)' = 1 + StandbyTime + PollInterval
      BY <2>1 DEF PollLeft
    <2>3. PollLeft(l)' <= LongestPoll
      BY <2>2, Times DEF LongestPoll
    <2> QED BY <1>1, <1>5, <2>1, <2>3, Times DEF LoopEffect, LoopPCs
  <1> QED BY <1>2, <1>3, <1>4, <1>5 DEF LoopTop

LEMMA LoopEffects ==
    ASSUME DeviceInv, NEW l \in Loops, LoopStep(l)
    PROVE  LoopEffect(l)
  <1> USE DEF Moves
  <1>1. /\ l \in Tasks /\ l \notin Uplinkers /\ Typed /\ StandbyTime \in Nat \cup {Forever}
        /\ PollInterval \in Nat \cup {Forever} /\ 1 \in Nat \cup {Forever}
        /\ radio \in {"OFF", "STANDBY", "RX", "TX"} /\ PollLeft(l) \in Int /\ GetTime(l) = PollInterval
    BY Kinds, Times, PollTimes DEF DeviceInv, Typed, GetTime
  <1>2. l \in c_waiters => pc[l] = "idle" /\ left[l] = -1
    BY DEF DeviceInv, WaitersIdle, Forever
  <1>3. CASE LoopGoesOn(l)
    <2>1. l \notin c_waiters
      BY <1>2, <1>3 DEF LoopGoesOn, LastFrame, Due
    <2>2. PollLeft(l) >= -1
      <3>1. left[l] \in Nat
        BY <1>1, <1>3 DEF LoopGoesOn, LastFrame, Due, Typed, Forever
      <3> QED BY <1>1, <3>1, PollTimes, Times
    <2> QED BY <1>1, <1>3, <2>1, <2>2, LoopTopEffect DEF LoopGoesOn
  <1>4. CASE LoopListens(l)
    <2>1. /\ pc' \in [Tasks -> AllPCs] /\ left' \in [Tasks -> Nat \cup {Forever}]
          /\ pc'[l] = "probe" /\ left'[l] = 1 /\ c_waiters' = c_waiters
          /\ \A x \in Tasks \ {l} : pc'[x] = pc[x] /\ left'[x] = left[x]
      BY <1>1, <1>4, LoopPlaces, MovesAlone DEF LoopListens, Moves
    <2>2. pc[l] = "startup_loop" /\ left[l] = 0 /\ radio' = "RX"
          /\ UNCHANGED <<modeVars, tuned, c_suspends, sessionVars, window>>
      BY <1>4 DEF LoopListens, Due
    <2>3. PollLeft(l)' = 1 + StandbyTime + PollInterval
      BY <2>1 DEF PollLeft
    <2>4. PollLeft(l) = 1 + StandbyTime + PollInterval
      BY <1>1, <2>2, PollTimes, Times
    <2>5. PollLeft(l)' <= LongestPoll /\ PollLeft(l)' <= PollLeft(l)
      BY <2>3, <2>4, Times DEF LongestPoll
    <2> QED BY <1>2, <2>1, <2>2, <2>5 DEF LoopEffect, LoopPCs
  <1>5. CASE ReceiveDataWithin(l)
    <2>1. /\ pc[l] = "probe" /\ left[l] = 0
          /\ UNCHANGED <<modeVars, tuned, c_suspends, sessionVars, window>>
      BY <1>5 DEF ReceiveDataWithin, Due
    <2>2. PollLeft(l) = StandbyTime + PollInterval
      BY <1>1, <2>1, PollTimes, Times
    <2>3. CASE radio = "TX" /\ Moves(l, "backoff", 1) /\ UNCHANGED radio
      <3>1. /\ pc' \in [Tasks -> AllPCs] /\ left' \in [Tasks -> Nat \cup {Forever}]
            /\ pc'[l] = "backoff" /\ left'[l] = 1 /\ c_waiters' = c_waiters
            /\ \A x \in Tasks \ {l} : pc'[x] = pc[x] /\ left'[x] = left[x]
        BY <1>1, <2>3, LoopPlaces, MovesAlone
      <3>2. PollLeft(l)' = -1
        BY <3>1 DEF PollLeft
      <3>3. PollLeft(l)' <= LongestPoll /\ PollLeft(l)' <= PollLeft(l)
        BY <2>2, <3>2, Times
      <3> QED BY <1>1, <1>2, <2>1, <2>3, <3>1, <3>3 DEF LoopEffect, LoopPCs
    <2>4. CASE radio' = "STANDBY" /\ Moves(l, "startup_get", StandbyTime)
      <3>1. /\ pc' \in [Tasks -> AllPCs] /\ left' \in [Tasks -> Nat \cup {Forever}]
            /\ pc'[l] = "startup_get" /\ left'[l] = StandbyTime /\ c_waiters' = c_waiters
            /\ \A x \in Tasks \ {l} : pc'[x] = pc[x] /\ left'[x] = left[x]
        BY <1>1, <2>4, LoopPlaces, MovesAlone
      <3>2. PollLeft(l)' = StandbyTime + PollInterval
        BY <3>1 DEF PollLeft
      <3>3. PollLeft(l)' <= LongestPoll /\ PollLeft(l)' <= PollLeft(l)
        BY <2>2, <3>2, Times DEF LongestPoll
      <3> QED BY <1>1, <1>2, <2>1, <2>4, <3>1, <3>3, Times DEF LoopEffect, LoopPCs
    <2>5. CASE radio' = "RX" /\ Moves(l, "get", GetTime(l))
      <3>1. /\ pc' \in [Tasks -> AllPCs] /\ left' \in [Tasks -> Nat \cup {Forever}]
            /\ pc'[l] = "get" /\ left'[l] = PollInterval /\ c_waiters' = c_waiters
            /\ \A x \in Tasks \ {l} : pc'[x] = pc[x] /\ left'[x] = left[x]
        BY <1>1, <2>5, LoopPlaces, MovesAlone
      <3>2. PollLeft(l)' = PollInterval
        BY <3>1 DEF PollLeft
      <3>3. PollLeft(l)' <= LongestPoll /\ PollLeft(l)' <= PollLeft(l)
        BY <2>2, <3>2, Times DEF LongestPoll
      <3> QED BY <1>1, <1>2, <2>1, <2>5, <3>1, <3>3, Times DEF LoopEffect, LoopPCs
    <2> QED BY <1>5, <2>3, <2>4, <2>5 DEF ReceiveDataWithin
  <1>6. CASE ReceiveAfterStartup(l)
    <2>1. /\ pc' \in [Tasks -> AllPCs] /\ left' \in [Tasks -> Nat \cup {Forever}]
          /\ pc'[l] = "get" /\ left'[l] = PollInterval /\ c_waiters' = c_waiters
          /\ \A x \in Tasks \ {l} : pc'[x] = pc[x] /\ left'[x] = left[x]
      BY <1>1, <1>6, LoopPlaces, MovesAlone DEF ReceiveAfterStartup, Moves
    <2>2. pc[l] = "startup_get" /\ left[l] = 0 /\ radio' = "RX"
          /\ UNCHANGED <<modeVars, tuned, c_suspends, sessionVars, window>>
      BY <1>6 DEF ReceiveAfterStartup, Due
    <2>3. PollLeft(l)' = PollInterval /\ PollLeft(l) = PollInterval
      BY <1>1, <2>1, <2>2, PollTimes, Times DEF PollLeft
    <2>4. PollLeft(l)' <= LongestPoll /\ PollLeft(l)' <= PollLeft(l)
      BY <2>3, Times DEF LongestPoll
    <2> QED BY <1>1, <1>2, <2>1, <2>2, <2>4, Times DEF LoopEffect, LoopPCs
  <1> QED BY <1>3, <1>4, <1>5, <1>6 DEF LoopStep

\* A task that stays where it is keeps its times
LEMMA SameTimes ==
    ASSUME NEW x, pc'[x] = pc[x], left'[x] = left[x]
    PROVE  PollLeft(x)' = PollLeft(x) /\ WindowLeft(x)' = WindowLeft(x)
  BY DEF PollLeft, WindowLeft

LEMMA UplinkSuspends ==
    ASSUME DeviceInv
    PROVE  /\ IsFiniteSet(Uplinks) /\ c_suspends = Cardinality(Uplinks)
           /\ \A u \in Uplinkers : InUplink(u) => c_suspends > 0
  <1>1. IsFiniteSet(Uplinkers) /\ Uplinks \subseteq Uplinkers
    BY DeviceAssumption DEF Uplinks
  <1>2. IsFiniteSet(Uplinks)
    BY <1>1, FS_Subset
  <1>3. c_suspends = Cardinality(Uplinks)
    BY DEF DeviceInv, SuspendsCount
  <1>4. Cardinality(Uplinks) \in Nat /\ (Cardinality(Uplinks) = 0 <=> Uplinks = {})
    BY <1>2, FS_CardinalityType, FS_EmptySet
  <1>5. \A u \in Uplinkers : InUplink(u) => u \in Uplinks
    BY DEF Uplinks
  <1> QED BY <1>2, <1>3, <1>4, <1>5

LEMMA LoopKeeps ==
    ASSUME DeviceInv, NEW l \in Loops, LoopEffect(l)
    PROVE  DeviceInv'
  <1>1. /\ pc' \in [Tasks -> AllPCs] /\ left' \in [Tasks -> Nat \cup {Forever}]
        /\ \A x \in Tasks \ {l} : pc'[x] = pc[x] /\ left'[x] = left[x]
        /\ pc'[l] \in LoopPCs /\ l \notin c_waiters
        /\ \/ /\ pc'[l] = "idle" /\ left'[l] = Forever
              /\ c_waiters' = c_waiters \cup {l} /\ c_suspends > 0
           \/ pc'[l] # "idle" /\ left'[l] \in Nat /\ c_waiters' = c_waiters
    BY DEF LoopEffect
  <1>2. UNCHANGED <<operating_mode, rx, tuned, c_suspends, sessions, cancels, session, window>>
    BY DEF LoopEffect, modeVars, sessionVars
  <1>3. /\ \A u \in Uplinkers : pc'[u] = pc[u] /\ left'[u] = left[u]
        /\ \A s \in Sessions : pc'[s] = pc[s] /\ left'[s] = left[s]
        /\ \A x \in Loops \ {l} : pc'[x] = pc[x] /\ left'[x] = left[x]
    BY <1>1, Kinds
  <1>4. radio' \in {"OFF", "STANDBY", "RX", "TX"} /\ (radio' = "TX" => radio = "TX")
    BY DEF LoopEffect
  <1>5. Typed'
    <2>1. c_waiters' \subseteq Loops
      BY <1>1 DEF DeviceInv, Typed
    <2>2. \A x \in Loops : pc'[x] \in LoopPCs
      BY <1>1, <1>3 DEF DeviceInv, Typed
    <2>3. \A u \in Uplinkers : pc'[u] \in UplinkPCs
      BY <1>3 DEF DeviceInv, Typed
    <2>4. \A s \in Sessions : pc'[s] \in SessionPCs
      BY <1>3 DEF DeviceInv, Typed
    <2>5. Typed
      BY DEF DeviceInv
    <2> QED BY <1>1, <1>2, <1>4, <2>1, <2>2, <2>3, <2>4, <2>5 DEF Typed, AllPCs, Overrides
  <1>6. Timed'
    BY <1>1, <1>3, Kinds DEF DeviceInv, Timed, Forever
  <1>7. WaitersIdle' /\ NoLoopForgotten'
    <2>1. WaitersIdle /\ NoLoopForgotten /\ c_waiters \subseteq Loops
      BY DEF DeviceInv, Typed
    <2>2. WaitersIdle'
      BY <1>1, <1>3, <2>1 DEF WaitersIdle
    <2>3. NoLoopForgotten'
      BY <1>1, <1>2, <1>3, <2>1 DEF NoLoopForgotten
    <2> QED BY <2>2, <2>3
  <1>8. TransmitsForUplink'
    BY <1>3, <1>4 DEF DeviceInv, TransmitsForUplink
  <1>9. SuspendsCount'
    BY <1>2, <1>3 DEF DeviceInv, SuspendsCount, Uplinks, InUplink
  <1>10. PollsEndInTime'
    <2>1. /\ \A x \in Loops \ {l} : PollLeft(x)' = PollLeft(x)
          /\ \A u \in Uplinkers : WindowLeft(u)' = WindowLeft(u) /\ (InUplink(u)' <=> InUplink(u))
      BY <1>3, SameTimes DEF InUplink
    <2>2. PollLeft(l)' <= LongestPoll /\ (c_suspends > 0 => PollLeft(l)' <= PollLeft(l))
      BY DEF LoopEffect
    <2>3. PollsEndInTime
      BY DEF DeviceInv
    <2>4. \A x \in Loops : PollLeft(x)' <= LongestPoll
      BY <2>1, <2>2, <2>3 DEF PollsEndInTime
    <2>5. ASSUME NEW x \in Loops, NEW u \in Uplinkers, InUplink(u)'
          PROVE  PollLeft(x)' < WindowLeft(u)'
      <3>1. InUplink(u) /\ PollLeft(x) < WindowLeft(u) /\ WindowLeft(u)' = WindowLeft(u)
        BY <2>1, <2>3, <2>5 DEF PollsEndInTime
      <3>2. CASE x # l
        BY <2>1, <3>1, <3>2
      <3>3. CASE x = l
        <4>1. PollLeft(l)' <= PollLeft(l)
          BY <2>2, <3>1, UplinkSuspends
        <4>2. PollLeft(l) \in Int
          BY PollTimes DEF DeviceInv
        <4>3. Typed'
          BY <1>5
        <4>4. left'[l] \in Int
          BY <1>1, Kinds DEF Forever
        <4>5. PollLeft(l)' \in Int
          BY <4>4, Times DEF PollLeft
        <4>6. left[u] \in Int
          BY Kinds DEF DeviceInv, Typed, Forever
        <4>7. WindowLeft(u) \in Int
          BY <4>6, Times DEF WindowLeft, UntilWindow
        <4> QED BY <3>1, <3>3, <4>1, <4>2, <4>5, <4>7
      <3> QED BY <3>2, <3>3
    <2> QED BY <2>4, <2>5 DEF PollsEndInTime
  <1>11. NothingPutAside' /\ TunedOutsideWindows'
    BY <1>2, <1>3 DEF DeviceInv, NothingPutAside, TunedOutsideWindows, Configured
  <1>12. SessionsLinked' /\ SessionsAccounted'
    <2>1. \A g \in Groups : sessions[g] # None => sessions[g] \in Sessions
      BY DEF DeviceInv, Typed
    <2> QED BY <1>2, <1>3, <2>1 DEF DeviceInv, SessionsLinked, SessionsAccounted, Registered
  <1> QED BY <1>5, <1>6, <1>7, <1>8, <1>9, <1>10, <1>11, <1>12 DEF DeviceInv

-----------------------------------------------------------------------------
(* The uplinks.                                                            *)

\* What a step of an uplink does to the tasks: it ends and resumes the loops, or it goes on and
\* its next window gets no closer
UplinkMoves(u) ==
    /\ pc' \in [Tasks -> AllPCs] /\ left' \in [Tasks -> Nat \cup {Forever}]
    /\ \A x \in Tasks \ {u} : pc'[x] = pc[x] /\ (x \notin c_waiters => left'[x] = left[x])
    /\ pc'[u] \in UplinkPCs /\ left'[u] \in Nat
    /\ window' \in [Uplinkers -> WindowRecords]
    /\ \A x \in Uplinkers \ {u} : window'[x] = window[x]
    /\ pc'[u] \in OutsideWindows => ~window'[u].restore
    /\ \/ /\ pc'[u] = "client" /\ c_suspends' = c_suspends - 1
          /\ \/ c_suspends = 1 /\ c_waiters' = {} /\ \A x \in c_waiters : left'[x] = 1
             \/ /\ c_suspends > 1 /\ c_waiters' = c_waiters
                /\ \A x \in c_waiters : left'[x] = left[x]
       \/ /\ pc'[u] # "client" /\ c_suspends' = c_suspends /\ c_waiters' = c_waiters
          /\ \A x \in c_waiters : left'[x] = left[x]
          /\ WindowLeft(u)' >= WindowLeft(u)

\* ... and to the radio: no transmission but its own begins, its own ends, and the receiver is
\* left with what the session in force asks for, unless the uplink has put that aside
UplinkTunes(u) ==
    \/ window'[u].restore
    \/ ~window[u].restore /\ tuned' = tuned
    \/ tuned'[1] = Configured(tuned', rx)[1]

UplinkEffect(u) ==
    /\ InUplink(u) /\ UplinkMoves(u) /\ UplinkTunes(u)
    /\ radio' \in {"OFF", "STANDBY", "RX", "TX"}
    /\ radio' = "TX" => pc'[u] = "tx" \/ (radio = "TX" /\ pc[u] # "tx")
    /\ UNCHANGED untouched

LEMMA UplinkKeeps ==
    ASSUME DeviceInv, NEW u \in Uplinkers, UplinkEffect(u)
    PROVE  DeviceInv'
  <1>1. /\ pc' \in [Tasks -> AllPCs] /\ left' \in [Tasks -> Nat \cup {Forever}]
        /\ \A x \in Tasks \ {u} : pc'[x] = pc[x] /\ (x \notin c_waiters => left'[x] = left[x])
        /\ pc'[u] \in UplinkPCs /\ left'[u] \in Nat
        /\ window' \in [Uplinkers -> WindowRecords]
        /\ \A x \in Uplinkers \ {u} : window'[x] = window[x]
        /\ pc'[u] \in OutsideWindows => ~window'[u].restore
    BY DEF UplinkEffect, UplinkMoves
  <1>2. \/ /\ pc'[u] = "client" /\ c_suspends' = c_suspends - 1
           /\ \/ c_suspends = 1 /\ c_waiters' = {} /\ \A x \in c_waiters : left'[x] = 1
              \/ /\ c_suspends > 1 /\ c_waiters' = c_waiters
                 /\ \A x \in c_waiters : left'[x] = left[x]
        \/ /\ pc'[u] # "client" /\ c_suspends' = c_suspends /\ c_waiters' = c_waiters
           /\ \A x \in c_waiters : left'[x] = left[x]
           /\ WindowLeft(u)' >= WindowLeft(u)
    BY DEF UplinkEffect, UplinkMoves
  <1>3. /\ UNCHANGED <<operating_mode, rx, sessions, cancels, session>>
        /\ InUplink(u) /\ UplinkTunes(u)
        /\ radio' \in {"OFF", "STANDBY", "RX", "TX"}
        /\ radio' = "TX" => pc'[u] = "tx" \/ (radio = "TX" /\ pc[u] # "tx")
    BY DEF UplinkEffect, untouched, modeVars, sessionVars
  <1>4. /\ Typed /\ Timed /\ WaitersIdle /\ NoLoopForgotten /\ TransmitsForUplink
        /\ SuspendsCount /\ PollsEndInTime /\ NothingPutAside /\ TunedOutsideWindows
        /\ SessionsLinked /\ SessionsAccounted /\ c_waiters \subseteq Loops /\ c_suspends \in Nat
    BY DEF DeviceInv, Typed
  <1>5. /\ \A x \in Uplinkers \ {u} : pc'[x] = pc[x] /\ left'[x] = left[x]
        /\ \A s \in Sessions : pc'[s] = pc[s] /\ left'[s] = left[s]
        /\ \A x \in Loops : pc'[x] = pc[x] /\ (x \notin c_waiters => left'[x] = left[x])
        /\ c_waiters' \subseteq c_waiters
    BY <1>1, <1>2, <1>4, Kinds
  <1>6. Typed'
    <2>1. \A x \in Loops : pc'[x] \in LoopPCs
      BY <1>4, <1>5 DEF Typed
    <2>2. \A x \in Uplinkers : pc'[x] \in UplinkPCs
      BY <1>1, <1>4, <1>5 DEF Typed
    <2>3. \A s \in Sessions : pc'[s] \in SessionPCs
      BY <1>4, <1>5 DEF Typed
    <2>4. c_suspends' \in Nat /\ c_waiters' \subseteq Loops
      BY <1>2, <1>4, <1>5
    <2> QED BY <1>1, <1>3, <1>4, <2>1, <2>2, <2>3, <2>4 DEF Typed, AllPCs, Overrides
  <1>7. Timed'
    <2>1. ASSUME NEW x \in Tasks, left'[x] = Forever PROVE x \in Loops /\ pc'[x] = "idle"
      <3>1. x # u
        BY <1>1, <2>1 DEF Forever
      <3>2. left[x] = Forever
        BY <1>1, <1>2, <2>1, <3>1 DEF Forever
      <3> QED BY <1>1, <1>4, <3>1, <3>2 DEF Timed
    <2> QED BY <2>1 DEF Timed
  <1>8. WaitersIdle'
    BY <1>2, <1>4, <1>5 DEF WaitersIdle
  <1>9. NoLoopForgotten'
    <2>1. ASSUME NEW x \in Loops, pc'[x] = "idle"
          PROVE  left'[x] \in {0, 1} \/ (x \in c_waiters' /\ c_suspends' > 0)
      <3>1. pc[x] = "idle" /\ (left[x] \in {0, 1} \/ (x \in c_waiters /\ c_suspends > 0))
        BY <1>4, <1>5, <2>1 DEF NoLoopForgotten
      <3>2. CASE x \in c_waiters
        BY <1>2, <1>4, <3>1, <3>2 DEF WaitersIdle, Forever
      <3>3. CASE x \notin c_waiters
        BY <1>5, <3>1, <3>3
      <3> QED BY <3>2, <3>3
    <2> QED BY <2>1 DEF NoLoopForgotten
  <1>10. TransmitsForUplink'
    BY <1>3, <1>4, <1>5 DEF TransmitsForUplink
  <1>11. SuspendsCount'
    <2>1. IsFiniteSet(Uplinks) /\ c_suspends = Cardinality(Uplinks) /\ u \in Uplinks
      BY <1>3, UplinkSuspends DEF Uplinks
    <2>2. CASE pc'[u] = "client" /\ c_suspends' = c_suspends - 1
      <3>1. Uplinks' = Uplinks \ {u}
        BY <1>5, <2>2 DEF Uplinks, InUplink
      <3>2. Cardinality(Uplinks \ {u}) = Cardinality(Uplinks) - 1
        BY <2>1, FS_RemoveElement
      <3> QED BY <2>1, <2>2, <3>1, <3>2 DEF SuspendsCount
    <2>3. CASE pc'[u] # "client" /\ c_suspends' = c_suspends
      <3>1. Uplinks' = Uplinks
        BY <1>3, <1>5, <2>3 DEF Uplinks, InUplink
      <3> QED BY <2>1, <2>3, <3>1 DEF SuspendsCount
    <2> QED BY <1>2, <2>2, <2>3
  <1>12. PollsEndInTime'
    <2>1. ASSUME NEW x \in Loops PROVE PollLeft(x)' = PollLeft(x)
      <3>1. CASE x \in c_waiters
        <4>1. pc'[x] = "idle" /\ pc[x] = "idle"
          BY <1>4, <1>5, <3>1 DEF WaitersIdle
        <4> QED BY <4>1 DEF PollLeft
      <3>2. CASE x \notin c_waiters
        BY <1>5, <3>2, SameTimes
      <3> QED BY <3>1, <3>2
    <2>2. \A x \in Uplinkers \ {u} : WindowLeft(x)' = WindowLeft(x) /\ (InUplink(x)' <=> InUplink(x))
      BY <1>5, SameTimes DEF InUplink
    <2>3. ASSUME NEW x \in Loops, NEW v \in Uplinkers, InUplink(v)'
          PROVE  PollLeft(x)' < WindowLeft(v)'
      <3>1. CASE v # u
        BY <1>4, <2>1, <2>2, <2>3, <3>1 DEF PollsEndInTime
      <3>2. CASE v = u
        <4>1. PollLeft(x) < WindowLeft(u) /\ PollLeft(x)' = PollLeft(x)
          BY <1>3, <1>4, <2>1 DEF PollsEndInTime
        <4>2. WindowLeft(u)' >= WindowLeft(u)
          BY <1>2, <2>3, <3>2 DEF InUplink
        <4>3. PollLeft(x) \in Int
          BY <1>4, PollTimes
        <4>4. left[u] \in Int /\ left'[u] \in Int
          BY <1>1, <1>4, Kinds DEF Typed, Forever
        <4>5. WindowLeft(u) \in Int /\ WindowLeft(u)' \in Int
          BY <4>4, Times DEF WindowLeft, UntilWindow
        <4> QED BY <3>2, <4>1, <4>2, <4>3, <4>5
      <3> QED BY <3>1, <3>2
    <2> QED BY <1>4, <2>1, <2>3 DEF PollsEndInTime
  <1>13. NothingPutAside'
    BY <1>1, <1>4, <1>5 DEF NothingPutAside
  <1>14. TunedOutsideWindows'
    <2>1. SUFFICES ASSUME \A x \in Uplinkers : ~window'[x].restore
                   PROVE  tuned'[1] = Configured(tuned', rx)[1]
      BY <1>3 DEF TunedOutsideWindows, Configured
    <2>2. CASE ~window[u].restore /\ tuned' = tuned
      <3>1. \A x \in Uplinkers : ~window[x].restore
        BY <1>1, <2>1, <2>2
      <3> QED BY <1>4, <2>2, <3>1 DEF TunedOutsideWindows, Configured
    <2> QED BY <1>3, <2>1, <2>2 DEF UplinkTunes
  <1>15. SessionsLinked' /\ SessionsAccounted'
    <2>1. \A g \in Groups : sessions[g] # None => sessions[g] \in Sessions
      BY <1>4 DEF Typed
    <2> QED BY <1>3, <1>4, <1>5, <2>1 DEF SessionsLinked, SessionsAccounted, Registered
  <1> QED BY <1>6, <1>7, <1>8, <1>9, <1>10, <1>11, <1>12, <1>13, <1>14, <1>15 DEF DeviceInv

LEMMA UplinkPlaces ==
    /\ UplinkPCs \subseteq AllPCs
    /\ {"client", "startup_tx", "tx", "settle", "await", "startup_window", "probe", "startup_get",
        "get", "late", "backoff", "startup_rest", "startup_resume"} = UplinkPCs
  BY DEF AllPCs, UplinkPCs

\* An uplink that goes on
LEMMA UplinkStays ==
    ASSUME DeviceInv, NEW u \in Uplinkers, NEW where \in UplinkPCs, NEW ticks \in Nat,
           NEW w \in WindowRecords, where # "client", where \in OutsideWindows => ~w.restore,
           UntilWindow(where, ticks) >= WindowLeft(u),
           Moves(u, where, ticks), UNCHANGED c_suspends,
           window' = [window EXCEPT ![u] = w]
    PROVE  UplinkMoves(u) /\ pc'[u] = where /\ window'[u] = w
  <1>1. /\ u \in Tasks /\ where \in AllPCs /\ ticks \in Nat \cup {Forever} /\ Typed
        /\ c_waiters \subseteq Loops
    BY Kinds, UplinkPlaces DEF DeviceInv, Typed
  <1>2. /\ pc' \in [Tasks -> AllPCs] /\ left' \in [Tasks -> Nat \cup {Forever}]
        /\ pc'[u] = where /\ left'[u] = ticks /\ c_waiters' = c_waiters
        /\ \A x \in Tasks \ {u} : pc'[x] = pc[x] /\ left'[x] = left[x]
    BY <1>1, MovesAlone DEF Moves
  <1>3. /\ window' \in [Uplinkers -> WindowRecords] /\ window'[u] = w
        /\ \A x \in Uplinkers \ {u} : window'[x] = window[x]
    BY <1>1 DEF Typed
  <1>4. \A x \in c_waiters : left'[x] = left[x]
    BY <1>1, <1>2, Kinds
  <1>5. WindowLeft(u)' >= WindowLeft(u)
    BY <1>2 DEF WindowLeft
  <1> QED BY <1>2, <1>3, <1>4, <1>5 DEF UplinkMoves

\* An uplink that ends
LEMMA UplinkResumes ==
    ASSUME DeviceInv, NEW u \in Uplinkers, Resume(u)
    PROVE  UplinkMoves(u) /\ pc'[u] = "client" /\ window'[u].restore = FALSE
  <1>1. /\ u \in Tasks /\ "client" \in AllPCs /\ 0 \in Nat \cup {Forever} /\ Typed
        /\ c_waiters \subseteq Loops /\ u \notin c_waiters /\ c_waiters \subseteq Tasks
    BY Kinds, UplinkPlaces DEF DeviceInv, Typed
  <1>2. /\ window' \in [Uplinkers -> WindowRecords] /\ window'[u] = NoWindow
        /\ \A x \in Uplinkers \ {u} : window'[x] = window[x]
    <2>1. window' = [window EXCEPT ![u] = NoWindow] /\ window \in [Uplinkers -> WindowRecords]
      BY <1>1 DEF Resume, Typed
    <2>2. NoWindow \in WindowRecords
      BY DEF NoWindow, WindowRecords, Modes
    <2> QED BY <2>1, <2>2
  <1>3. window'[u].restore = FALSE
    BY <1>2 DEF NoWindow
  <1>4. CASE c_suspends = 1 /\ Move(Goes(u, "client", 0), c_waiters) /\ c_waiters' = {}
    <2>1. /\ pc' \in [Tasks -> AllPCs] /\ left' \in [Tasks -> Nat \cup {Forever}]
          /\ pc'[u] = "client" /\ left'[u] = 0
          /\ \A x \in Tasks \ {u} : /\ pc'[x] = pc[x]
                                    /\ left'[x] = IF x \in c_waiters THEN 1 ELSE left[x]
      BY <1>1, <1>4, OneMoves
    <2>2. \A x \in c_waiters : left'[x] = 1
      BY <1>1, <2>1
    <2> QED BY <1>2, <1>3, <1>4, <2>1, <2>2, UplinkPlaces DEF Resume, UplinkMoves
  <1>5. CASE c_suspends > 1 /\ Moves(u, "client", 0)
    <2>1. /\ pc' \in [Tasks -> AllPCs] /\ left' \in [Tasks -> Nat \cup {Forever}]
          /\ pc'[u] = "client" /\ left'[u] = 0 /\ c_waiters' = c_waiters
          /\ \A x \in Tasks \ {u} : pc'[x] = pc[x] /\ left'[x] = left[x]
      BY <1>1, <1>5, MovesAlone DEF Moves
    <2>2. \A x \in c_waiters : left'[x] = left[x]
      BY <1>1, <2>1
    <2> QED BY <1>2, <1>3, <1>5, <2>1, <2>2, UplinkPlaces DEF Resume, UplinkMoves
  <1> QED BY <1>4, <1>5 DEF Resume

\* Where a window is, place by place
LEMMA WindowTimes ==
    /\ \A n \in Nat : /\ UntilWindow("startup_tx", n) = n + AirTime + ReceiveDelay1 + 1
                      /\ UntilWindow("tx", n) = n + ReceiveDelay1 + 1
                      /\ StandbyTime >= ReceiveDelay1 => UntilWindow("settle", n) = n + 1
                      /\ StandbyTime < ReceiveDelay1
                            => UntilWindow("settle", n) = n + 1 + (ReceiveDelay1 - StandbyTime)
                      /\ UntilWindow("await", n) = n + 1
                      /\ UntilWindow("startup_window", n) = n + 1
                      /\ UntilWindow("probe", n) = n
    /\ \A n \in Nat, where \in {"startup_get", "get", "late", "backoff", "startup_rest",
                                "startup_resume"} : UntilWindow(where, n) = 0
  BY Times DEF UntilWindow

LEMMA SameRate ==
    ASSUME NEW override, NEW x, NEW y
    PROVE  Configured(x, override)[1] = Configured(y, override)[1]
  BY DEF Configured

\* The transmission is over, and the windows begin
LEMMA WindowsBegin ==
    ASSUME DeviceInv, NEW u \in Uplinkers, left[u] = 0, NEW since \in Nat,
           NEW state \in {"OFF", "STANDBY", "RX", "TX"},
           \/ pc[u] = "tx" /\ since = 0
           \/ pc[u] = "settle" /\ since = StandbyTime,
           HandleRxWindows(u, state, since), UNCHANGED <<untouched, c_suspends>>
    PROVE  /\ UplinkMoves(u) /\ UplinkTunes(u) /\ pc'[u] = "await"
           /\ radio' \in {"OFF", "STANDBY", "RX", "TX"} /\ (radio' = "TX" => state = "TX")
  <1> DEFINE w == [NoWindow EXCEPT !.mode = operating_mode, !.restore = rx # NoOverride,
                                   !.since = since]
  <1> DEFINE ticks == IF operating_mode = "A" /\ since >= ReceiveDelay1 THEN 0
                      ELSE IF operating_mode = "A" THEN ReceiveDelay1 - since ELSE ReceiveDelay1
  <1>1. w \in WindowRecords /\ w.restore = (rx # NoOverride)
    BY DEF DeviceInv, Typed, NoWindow, WindowRecords, Modes
  <1>2. /\ Moves(u, "await", ticks) /\ window' = [window EXCEPT ![u] = w] /\ c_suspends' = c_suspends
        /\ tuned' = (IF rx # NoOverride THEN Own ELSE tuned)
        /\ radio' = IF operating_mode = "A" /\ state # "TX" THEN "OFF" ELSE state
    BY DEF HandleRxWindows
  <1>3. ticks \in Nat
    BY Times
  <1>4. UntilWindow("await", ticks) >= WindowLeft(u)
    <2>1. UntilWindow("await", ticks) = ticks + 1
      BY <1>3, WindowTimes
    <2>2. CASE pc[u] = "tx" /\ since = 0
      <3>1. WindowLeft(u) = ReceiveDelay1 + 1
        BY <2>2, WindowTimes, Times DEF WindowLeft
      <3> QED BY <2>1, <2>2, <3>1, Times
    <2>3. CASE pc[u] = "settle" /\ since = StandbyTime
      <3>1. CASE StandbyTime >= ReceiveDelay1
        <4>1. WindowLeft(u) = 1
          BY <2>3, <3>1, WindowTimes, Times DEF WindowLeft
        <4> QED BY <1>3, <2>1, <4>1
      <3>2. CASE StandbyTime < ReceiveDelay1
        <4>1. WindowLeft(u) = 1 + (ReceiveDelay1 - StandbyTime)
          BY <2>3, <3>2, WindowTimes, Times DEF WindowLeft
        <4>2. ticks >= ReceiveDelay1 - StandbyTime
          BY <2>3, <3>2, Times
        <4> QED BY <1>3, <2>1, <4>1, <4>2, Times
      <3> QED BY <3>1, <3>2, Times
    <2> QED BY <2>2, <2>3
  <1> HIDE DEF w, ticks
  <1>5. UplinkMoves(u) /\ pc'[u] = "await" /\ window'[u] = w
    <2>1. "await" \in UplinkPCs /\ "await" # "client" /\ "await" \notin OutsideWindows
      BY DEF UplinkPCs, OutsideWindows
    <2> QED BY <1>1, <1>2, <1>3, <1>4, <2>1, UplinkStays
  <1>6. UplinkTunes(u)
    <2>1. ~window[u].restore
      BY DEF DeviceInv, NothingPutAside, OutsideWindows
    <2> QED BY <1>1, <1>2, <1>5, <2>1 DEF UplinkTunes
  <1> QED BY <1>2, <1>5, <1>6

\* What the cleanup of the windows leaves
LEMMA RestoredTunes ==
    ASSUME NEW u \in Uplinkers, tuned' = Restored(u)
    PROVE  UplinkTunes(u)
  <1>1. CASE window[u].restore
    <2>1. tuned' = Configured(tuned, rx)
      BY <1>1 DEF Restored
    <2>2. Configured(tuned, rx)[1] = Configured(tuned', rx)[1]
      BY SameRate
    <2> QED BY <2>1, <2>2 DEF UplinkTunes
  <1>2. CASE ~window[u].restore
    BY <1>2 DEF Restored, UplinkTunes
  <1> QED BY <1>1, <1>2

\* A window of Class A is over
LEMMA RestedEffect ==
    ASSUME DeviceInv, NEW u \in Uplinkers, WindowLeft(u) = 0, NEW continuous, NEW reply,
           WindowRested(u, continuous, reply)
    PROVE  UplinkMoves(u) /\ UplinkTunes(u) /\ pc'[u] # "tx"
  <1>1. CASE /\ window' = [window EXCEPT ![u].number = 2]
             /\ Moves(u, "await", IF window[u].since >= ReceiveDelay2 THEN 0
                                  ELSE ReceiveDelay2 - window[u].since)
             /\ UNCHANGED <<tuned, c_suspends>>
    <2> DEFINE ticks == IF window[u].since >= ReceiveDelay2 THEN 0
                        ELSE ReceiveDelay2 - window[u].since
    <2> DEFINE w == [window[u] EXCEPT !.number = 2]
    <2>1. window[u] \in WindowRecords
      BY DEF DeviceInv, Typed
    <2>2. w \in WindowRecords /\ w.restore = window[u].restore /\ window[u].since \in Nat
      BY <2>1 DEF WindowRecords
    <2>3. ticks \in Nat
      BY <2>2, Times
    <2>4. UntilWindow("await", ticks) >= WindowLeft(u)
      <3>1. UntilWindow("await", ticks) = ticks + 1
        BY <2>3, WindowTimes
      <3> HIDE DEF ticks
      <3> QED BY <2>3, <3>1
    <2>5. window' = [window EXCEPT ![u] = w] /\ Moves(u, "await", ticks)
      BY <1>1
    <2> HIDE DEF w, ticks
    <2>6. "await" \in UplinkPCs /\ "await" # "client" /\ "await" \notin OutsideWindows
      BY DEF UplinkPCs, OutsideWindows
    <2>7. UplinkMoves(u) /\ pc'[u] = "await" /\ window'[u] = w
      BY <1>1, <2>2, <2>3, <2>4, <2>5, <2>6, UplinkStays
    <2> QED BY <1>1, <2>2, <2>7 DEF UplinkTunes
  <1>2. CASE tuned' = Restored(u) /\ Resume(u)
    BY <1>2, RestoredTunes, UplinkResumes
  <1> QED BY <1>1, <1>2 DEF WindowRested

\* An uplink that goes on with its window as it was
LEMMA UplinkGoesOn ==
    ASSUME DeviceInv, NEW u \in Uplinkers, NEW where \in UplinkPCs, NEW ticks \in Nat,
           where # "client", where \in OutsideWindows => pc[u] \in OutsideWindows,
           UntilWindow(where, ticks) >= WindowLeft(u),
           Moves(u, where, ticks), UNCHANGED <<c_suspends, window, tuned>>
    PROVE  UplinkMoves(u) /\ UplinkTunes(u) /\ pc'[u] = where
  <1>1. window[u] \in WindowRecords /\ window \in [Uplinkers -> WindowRecords]
    BY DEF DeviceInv, Typed
  <1>2. window' = [window EXCEPT ![u] = window[u]]
    BY <1>1
  <1>3. where \in OutsideWindows => ~window[u].restore
    BY DEF DeviceInv, NothingPutAside
  <1>4. UplinkMoves(u) /\ pc'[u] = where /\ window'[u] = window[u]
    BY <1>1, <1>2, <1>3, UplinkStays
  <1> QED BY <1>4 DEF UplinkTunes

LEMMA RestEffect ==
    ASSUME DeviceInv, NEW u \in Uplinkers, WindowLeft(u) = 0, pc[u] \notin {"client", "tx"},
           NEW reply \in BOOLEAN, RestRadio(u, reply), UNCHANGED untouched
    PROVE  UplinkEffect(u)
  <1>1. radio \in {"OFF", "STANDBY", "RX", "TX"} /\ InUplink(u) /\ pc[u] # "tx"
    BY DEF DeviceInv, Typed, InUplink
  <1>2. CASE radio = "TX" /\ WindowRested(u, rx_continuous, reply) /\ UNCHANGED radio
    BY <1>1, <1>2, RestedEffect DEF UplinkEffect
  <1>3. CASE radio' = "RX" /\ WindowRested(u, TRUE, reply)
    BY <1>1, <1>3, RestedEffect DEF UplinkEffect
  <1>4. CASE /\ radio' = "STANDBY" /\ window' = [window EXCEPT ![u].reply = reply]
             /\ Moves(u, "startup_rest", StandbyTime) /\ UNCHANGED <<tuned, c_suspends>>
    <2> DEFINE w == [window[u] EXCEPT !.reply = reply]
    <2>1. window[u] \in WindowRecords
      BY DEF DeviceInv, Typed
    <2>2. w \in WindowRecords /\ w.restore = window[u].restore
      BY <2>1 DEF WindowRecords
    <2>3. UntilWindow("startup_rest", StandbyTime) >= WindowLeft(u)
      BY Times, WindowTimes
    <2>4. window' = [window EXCEPT ![u] = w]
      BY <1>4
    <2>5. "startup_rest" \in UplinkPCs /\ "startup_rest" \notin OutsideWindows
      BY DEF UplinkPCs, OutsideWindows
    <2> HIDE DEF w
    <2>6. UplinkMoves(u) /\ window'[u] = w
      BY <1>4, <2>2, <2>3, <2>4, <2>5, Times, UplinkStays
    <2>7. UplinkTunes(u)
      BY <1>4, <2>2, <2>6 DEF UplinkTunes
    <2> QED BY <1>1, <1>4, <2>6, <2>7 DEF UplinkEffect
  <1>5. CASE radio' = "OFF" /\ WindowRested(u, rx_continuous, reply)
    BY <1>1, <1>5, RestedEffect DEF UplinkEffect
  <1> QED BY <1>2, <1>3, <1>4, <1>5 DEF RestRadio

\* The transmission of an uplink
LEMMA TransmissionEffects ==
    ASSUME DeviceInv, NEW u \in Uplinkers,
           TransmitAfterStartup(u) \/ TransmitDone(u) \/ TransmitSettled(u)
    PROVE  UplinkEffect(u)
  <1>1. radio \in {"OFF", "STANDBY", "RX", "TX"}
    BY DEF DeviceInv, Typed
  <1>2. CASE TransmitAfterStartup(u)
    <2>1. /\ pc[u] = "startup_tx" /\ left[u] = 0 /\ radio' = "TX" /\ Moves(u, "tx", AirTime)
          /\ UNCHANGED <<untouched, c_suspends, window, tuned>>
      BY <1>2 DEF TransmitAfterStartup, Due
    <2>2. UntilWindow("tx", AirTime) >= WindowLeft(u)
      BY <2>1, Times, WindowTimes DEF WindowLeft
    <2>3. "tx" \in UplinkPCs /\ "startup_tx" \in OutsideWindows
      BY DEF UplinkPCs, OutsideWindows
    <2>4. UplinkMoves(u) /\ UplinkTunes(u) /\ pc'[u] = "tx"
      BY <2>1, <2>2, <2>3, Times, UplinkGoesOn
    <2> QED BY <2>1, <2>4 DEF UplinkEffect, InUplink
  <1>3. CASE TransmitDone(u)
    <2>1. pc[u] = "tx" /\ left[u] = 0 /\ UNCHANGED <<untouched, c_suspends>>
      BY <1>3 DEF TransmitDone, Due
    <2>2. CASE HandleRxWindows(u, IF rx_continuous THEN "RX" ELSE "STANDBY", 0)
      <3> DEFINE state == IF rx_continuous THEN "RX" ELSE "STANDBY"
      <3>1. state \in {"OFF", "STANDBY", "RX", "TX"} /\ state # "TX" /\ HandleRxWindows(u, state, 0)
        BY <2>2
      <3> HIDE DEF state
      <3>2. /\ UplinkMoves(u) /\ UplinkTunes(u) /\ pc'[u] = "await"
            /\ radio' \in {"OFF", "STANDBY", "RX", "TX"} /\ (radio' = "TX" => state = "TX")
        BY <2>1, <3>1, WindowsBegin
      <3> QED BY <2>1, <3>1, <3>2 DEF UplinkEffect, InUplink
    <2>3. CASE /\ radio' = "STANDBY" /\ Moves(u, "settle", StandbyTime)
               /\ UNCHANGED <<rx_continuous, tuned, window>>
      <3>1. WindowLeft(u) = ReceiveDelay1 + 1
        BY <2>1, Times, WindowTimes DEF WindowLeft
      <3>2. UntilWindow("settle", StandbyTime) >= WindowLeft(u)
        BY <3>1, Times, WindowTimes
      <3>3. "settle" \in UplinkPCs /\ "tx" \in OutsideWindows
        BY DEF UplinkPCs, OutsideWindows
      <3>4. UplinkMoves(u) /\ UplinkTunes(u) /\ pc'[u] = "settle"
        BY <2>1, <2>3, <3>2, <3>3, Times, UplinkGoesOn
      <3> QED BY <2>1, <2>3, <3>4 DEF UplinkEffect, InUplink
    <2> QED BY <1>3, <2>2, <2>3 DEF TransmitDone
  <1>4. CASE TransmitSettled(u)
    <2>1. /\ pc[u] = "settle" /\ left[u] = 0 /\ UNCHANGED <<untouched, c_suspends>>
          /\ HandleRxWindows(u, radio, StandbyTime)
      BY <1>4 DEF TransmitSettled, Due
    <2>2. /\ UplinkMoves(u) /\ UplinkTunes(u) /\ pc'[u] = "await"
          /\ radio' \in {"OFF", "STANDBY", "RX", "TX"} /\ (radio' = "TX" => radio = "TX")
      BY <1>1, <2>1, Times, WindowsBegin
    <2> QED BY <2>1, <2>2 DEF UplinkEffect, InUplink
  <1> QED BY <1>2, <1>3, <1>4

\* Its windows, up to the wait for a frame
LEMMA WindowEffects ==
    ASSUME DeviceInv, NEW u \in Uplinkers,
           \/ WindowOpens(u) \/ WindowGoesOn(u) \/ ReceiveDataWithin(u)
           \/ ReceiveAfterStartup(u) \/ WindowIsLate(u)
    PROVE  UplinkEffect(u)
  <1>1. /\ radio \in {"OFF", "STANDBY", "RX", "TX"} /\ GetTime(u) = Window
        /\ StandbyTime \in Nat /\ Window \in Nat /\ 1 \in Nat
    BY Kinds, Times DEF DeviceInv, Typed, GetTime
  <1>2. \A where \in {"startup_window", "probe", "startup_get", "get", "late", "backoff"} :
            where \in UplinkPCs /\ where # "client" /\ where # "tx" /\ where \notin OutsideWindows
    BY DEF UplinkPCs, OutsideWindows
  <1>3. CASE WindowOpens(u)
    <2>1. /\ pc[u] = "await" /\ left[u] = 0
          /\ UNCHANGED <<untouched, c_suspends, window, tuned>>
      BY <1>3 DEF WindowOpens, Due
    <2>2. WindowLeft(u) = 1
      BY <2>1, WindowTimes DEF WindowLeft
    <2>3. CASE radio' = "STANDBY" /\ Moves(u, "startup_window", StandbyTime)
      <3>1. UntilWindow("startup_window", StandbyTime) >= WindowLeft(u)
        BY <2>2, Times, WindowTimes
      <3>2. UplinkMoves(u) /\ UplinkTunes(u) /\ pc'[u] = "startup_window"
        BY <1>1, <1>2, <2>1, <2>3, <3>1, UplinkGoesOn
      <3> QED BY <2>1, <2>3, <3>2 DEF UplinkEffect, InUplink
    <2>4. CASE Moves(u, "probe", 1) /\ UNCHANGED radio
      <3>1. UntilWindow("probe", 1) >= WindowLeft(u)
        BY <2>2, WindowTimes
      <3>2. UplinkMoves(u) /\ UplinkTunes(u) /\ pc'[u] = "probe"
        BY <1>1, <1>2, <2>1, <2>4, <3>1, UplinkGoesOn
      <3> QED BY <1>1, <2>1, <2>4, <3>2 DEF UplinkEffect, InUplink
    <2> QED BY <1>3, <2>3, <2>4 DEF WindowOpens
  <1>4. CASE WindowGoesOn(u)
    <2>1. /\ pc[u] \in {"startup_window", "backoff"} /\ left[u] = 0 /\ Moves(u, "probe", 1)
          /\ UNCHANGED <<untouched, radio, c_suspends, window, tuned>>
      BY <1>4 DEF WindowGoesOn, Due, radioVars
    <2>2. UntilWindow("probe", 1) = 1 /\ WindowLeft(u) \in {0, 1}
      BY <2>1, WindowTimes DEF WindowLeft
    <2>3. UntilWindow("probe", 1) >= WindowLeft(u)
      BY <2>2
    <2>4. UplinkMoves(u) /\ UplinkTunes(u) /\ pc'[u] = "probe"
      BY <1>1, <1>2, <2>1, <2>3, UplinkGoesOn
    <2> QED BY <1>1, <2>1, <2>4 DEF UplinkEffect, InUplink
  <1>5. CASE ReceiveDataWithin(u)
    <2>1. /\ pc[u] = "probe" /\ left[u] = 0
          /\ UNCHANGED <<untouched, c_suspends, window, tuned>>
      BY <1>5 DEF ReceiveDataWithin, Due, untouched
    <2>2. PICK where \in {"backoff", "startup_get", "get"}, ticks \in Nat :
            /\ Moves(u, where, ticks)
            /\ radio' \in {"STANDBY", "RX", "TX"} /\ (radio' = "TX" => radio = "TX")
      BY <1>1, <1>5 DEF ReceiveDataWithin
    <2>3. UntilWindow(where, ticks) = 0 /\ WindowLeft(u) = 0
      BY <2>1, WindowTimes DEF WindowLeft
    <2>4. UplinkMoves(u) /\ UplinkTunes(u) /\ pc'[u] = where
      BY <1>2, <2>1, <2>2, <2>3, UplinkGoesOn
    <2> QED BY <1>1, <2>1, <2>2, <2>4 DEF UplinkEffect, InUplink
  <1>6. CASE ReceiveAfterStartup(u)
    <2>1. /\ pc[u] = "startup_get" /\ left[u] = 0 /\ radio' = "RX" /\ Moves(u, "get", Window)
          /\ UNCHANGED <<untouched, c_suspends, window, tuned>>
      BY <1>1, <1>6 DEF ReceiveAfterStartup, Due, untouched
    <2>2. UntilWindow("get", Window) = 0 /\ WindowLeft(u) = 0
      BY <1>1, <2>1, WindowTimes DEF WindowLeft
    <2>3. UplinkMoves(u) /\ UplinkTunes(u) /\ pc'[u] = "get"
      BY <1>1, <1>2, <2>1, <2>2, UplinkGoesOn
    <2> QED BY <2>1, <2>3 DEF UplinkEffect, InUplink
  <1>7. CASE WindowIsLate(u)
    <2>1. /\ pc[u] \in {"get", "backoff"} /\ left[u] = 0 /\ Moves(u, "late", 1)
          /\ UNCHANGED <<untouched, radio, c_suspends, window, tuned>>
      BY <1>7 DEF WindowIsLate, Due, radioVars
    <2>2. UntilWindow("late", 1) = 0 /\ WindowLeft(u) = 0
      BY <2>1, WindowTimes DEF WindowLeft
    <2>3. UplinkMoves(u) /\ UplinkTunes(u) /\ pc'[u] = "late"
      BY <1>2, <2>1, <2>2, UplinkGoesOn
    <2> QED BY <1>1, <2>1, <2>3 DEF UplinkEffect, InUplink
  <1> QED BY <1>3, <1>4, <1>5, <1>6, <1>7

\* The end of a window
LEMMA WindowEnds ==
    ASSUME DeviceInv, NEW u \in Uplinkers,
           \/ WindowCloses(u) \/ WindowRestedLate(u)
           \/ Rx1Ends(u) \/ Rx1TimesOut(u) \/ Rx1Resumed(u)
    PROVE  UplinkEffect(u)
  <1>1. /\ radio \in {"OFF", "STANDBY", "RX", "TX"} /\ window[u] \in WindowRecords
        /\ left[u] \in Nat \cup {-1} /\ TRUE \in BOOLEAN /\ FALSE \in BOOLEAN
    BY Kinds DEF DeviceInv, Typed, Forever
  <1>2. CASE WindowCloses(u)
    <2>1. /\ \/ pc[u] = "get" /\ left[u] > 0
             \/ pc[u] \in {"probe", "get"} /\ left[u] = 0
             \/ pc[u] = "late" /\ left[u] = 0
             \/ pc[u] = "backoff" /\ left[u] = 0
          /\ UNCHANGED untouched
      BY <1>2, Zenon DEF WindowCloses, LastFrame, Due
    <2>2. pc[u] \in {"probe", "get", "late", "backoff"} /\ left[u] \in Nat /\ UNCHANGED untouched
      BY <1>1, <2>1
    <2>3. \E reply \in BOOLEAN : RestRadio(u, reply)
      BY <1>1, <1>2, Zenon DEF WindowCloses
    <2>4. pc[u] = "probe" \/ pc[u] \in {"get", "late", "backoff"}
      BY <2>2
    <2>5. WindowLeft(u) = 0 /\ pc[u] \notin {"client", "tx"}
      <3>1. CASE pc[u] = "probe"
        <4>1. left[u] = 0
          BY <2>1, <3>1
        <4> QED BY <3>1, <4>1, WindowTimes DEF WindowLeft
      <3>2. CASE pc[u] \in {"get", "late", "backoff"}
        BY <2>2, <3>2, WindowTimes DEF WindowLeft
      <3> QED BY <2>4, <3>1, <3>2
    <2> QED BY <1>1, <2>2, <2>3, <2>5, RestEffect
  <1>3. CASE WindowRestedLate(u)
    <2>1. /\ pc[u] = "startup_rest" /\ left[u] = 0 /\ radio' = "RX" /\ UNCHANGED untouched
          /\ WindowRested(u, TRUE, window[u].reply)
      BY <1>3 DEF WindowRestedLate, Due
    <2>2. WindowLeft(u) = 0
      BY <2>1, WindowTimes DEF WindowLeft
    <2>3. UplinkMoves(u) /\ UplinkTunes(u)
      BY <2>1, <2>2, RestedEffect
    <2> QED BY <2>1, <2>3 DEF UplinkEffect, InUplink
  <1>4. CASE Rx1Ends(u)
    <2>1. /\ pc[u] \in {"probe", "get", "late"} /\ UNCHANGED <<untouched, radio>>
          /\ tuned' = Restored(u) /\ Resume(u)
      BY <1>4 DEF Rx1Ends, LastFrame, Due
    <2>2. UplinkMoves(u) /\ UplinkTunes(u)
      BY <2>1, UplinkResumes, RestoredTunes
    <2> QED BY <1>1, <2>1, <2>2 DEF UplinkEffect, InUplink
  <1>5. CASE Rx1TimesOut(u)
    <2>1. /\ pc[u] \in {"get", "late"} /\ left[u] = 0 /\ UNCHANGED untouched
          /\ tuned' = Restored(u)
      BY <1>5 DEF Rx1TimesOut, Due
    <2>2. UplinkTunes(u)
      BY <2>1, RestoredTunes
    <2>3. CASE Resume(u) /\ radio' \in {radio, "RX"}
      BY <1>1, <2>1, <2>2, <2>3, UplinkResumes DEF UplinkEffect, InUplink
    <2>4. CASE /\ radio' = "STANDBY" /\ window' = [window EXCEPT ![u].restore = FALSE]
               /\ Moves(u, "startup_resume", StandbyTime) /\ UNCHANGED c_suspends
      <3> DEFINE w == [window[u] EXCEPT !.restore = FALSE]
      <3>1. w \in WindowRecords /\ w.restore = FALSE /\ window' = [window EXCEPT ![u] = w]
        BY <1>1, <2>4 DEF WindowRecords
      <3>2. UntilWindow("startup_resume", StandbyTime) = 0 /\ WindowLeft(u) = 0
        BY <2>1, Times, WindowTimes DEF WindowLeft
      <3>3. /\ "startup_resume" \in UplinkPCs /\ "startup_resume" # "client"
            /\ UntilWindow("startup_resume", StandbyTime) >= WindowLeft(u) /\ ~w.restore
        BY <3>1, <3>2 DEF UplinkPCs
      <3> HIDE DEF w
      <3>4. UplinkMoves(u)
        BY <2>4, <3>1, <3>2, <3>3, Times, UplinkStays
      <3> QED BY <2>1, <2>2, <2>4, <3>4 DEF UplinkEffect, InUplink
    <2> QED BY <1>5, <2>3, <2>4 DEF Rx1TimesOut
  <1>6. CASE Rx1Resumed(u)
    <2>1. /\ pc[u] = "startup_resume" /\ UNCHANGED <<untouched, tuned>> /\ radio' = "RX"
          /\ Resume(u)
      BY <1>6 DEF Rx1Resumed, Due
    <2>2. ~window[u].restore
      BY <2>1 DEF DeviceInv, NothingPutAside, OutsideWindows
    <2>3. UplinkMoves(u) /\ UplinkTunes(u)
      BY <2>1, <2>2, UplinkResumes DEF UplinkTunes
    <2> QED BY <2>1, <2>3 DEF UplinkEffect, InUplink
  <1> QED BY <1>2, <1>3, <1>4, <1>5, <1>6

LEMMA UplinkStepKeeps ==
    ASSUME DeviceInv, NEW u \in Uplinkers, UplinkStep(u)
    PROVE  DeviceInv'
  BY TransmissionEffects, WindowEffects, WindowEnds, UplinkKeeps DEF UplinkStep

-----------------------------------------------------------------------------
(* send_uplink.                                                            *)

LEMMA SendKeeps ==
    ASSUME DeviceInv, NEW u \in Uplinkers, SendUplink(u)
    PROVE  DeviceInv'
  <1>1. /\ pc[u] = "client" /\ UNCHANGED <<operating_mode, rx, sessions, cancels, session, tuned, window>>
    BY DEF SendUplink, untouched, modeVars, sessionVars
  <1>2. /\ Typed /\ Timed /\ WaitersIdle /\ NoLoopForgotten /\ TransmitsForUplink
        /\ SuspendsCount /\ PollsEndInTime /\ NothingPutAside /\ TunedOutsideWindows
        /\ SessionsLinked /\ SessionsAccounted /\ c_waiters \subseteq Loops /\ c_suspends \in Nat
        /\ u \in Tasks
    BY Kinds DEF DeviceInv, Typed
  <1>3. CASE UNCHANGED <<radio, c_suspends, c_waiters, pc, left>>
    <2>1. UNCHANGED <<operating_mode, rx, sessions, cancels, session, tuned, window, radio,
                      c_suspends, c_waiters, pc, left>>
      BY <1>1, <1>3
    <2> QED BY <1>2, <2>1 DEF DeviceInv, Typed, Timed, WaitersIdle, NoLoopForgotten,
                TransmitsForUplink, SuspendsCount, Uplinks, InUplink, PollsEndInTime, PollLeft,
                WindowLeft, NothingPutAside, TunedOutsideWindows, Configured, SessionsLinked,
                SessionsAccounted, Registered, Overrides
  <1>4. CASE c_suspends' = c_suspends + 1 /\
             \/ radio' = "STANDBY" /\ Moves(u, "startup_tx", StandbyTime)
             \/ radio' = "TX" /\ Moves(u, "tx", AirTime)
    <2>1. PICK where \in {"startup_tx", "tx"}, ticks \in {StandbyTime, AirTime} :
            /\ Moves(u, where, ticks) /\ (where = "tx" => ticks = AirTime)
            /\ radio' = (IF where = "tx" THEN "TX" ELSE "STANDBY")
      BY <1>4
    <2>2. where \in AllPCs /\ where \in UplinkPCs /\ where # "client" /\ ticks \in Nat
      BY Times DEF AllPCs, UplinkPCs
    <2>3. /\ pc' \in [Tasks -> AllPCs] /\ left' \in [Tasks -> Nat \cup {Forever}]
          /\ pc'[u] = where /\ left'[u] = ticks /\ c_waiters' = c_waiters
          /\ \A x \in Tasks \ {u} : pc'[x] = pc[x] /\ left'[x] = left[x]
      BY <1>2, <2>1, <2>2, MovesAlone DEF Moves
    <2>4. /\ \A x \in Uplinkers \ {u} : pc'[x] = pc[x] /\ left'[x] = left[x]
          /\ \A s \in Sessions : pc'[s] = pc[s] /\ left'[s] = left[s]
          /\ \A x \in Loops : pc'[x] = pc[x] /\ left'[x] = left[x]
      BY <2>3, Kinds
    <2>5. Typed'
      <3>1. \A x \in Loops : pc'[x] \in LoopPCs
        BY <1>2, <2>4 DEF Typed
      <3>2. \A x \in Uplinkers : pc'[x] \in UplinkPCs
        BY <1>2, <2>2, <2>3, <2>4 DEF Typed
      <3>3. \A s \in Sessions : pc'[s] \in SessionPCs
        BY <1>2, <2>4 DEF Typed
      <3>4. c_suspends' \in Nat /\ radio' \in {"OFF", "STANDBY", "RX", "TX"}
        BY <1>2, <1>4, <2>1
      <3> QED BY <1>1, <1>2, <2>3, <3>1, <3>2, <3>3, <3>4 DEF Typed, AllPCs, Overrides
    <2>6. Timed'
      BY <1>2, <2>2, <2>3 DEF Timed, Forever
    <2>7. WaitersIdle' /\ NoLoopForgotten'
      BY <1>2, <1>4, <2>3, <2>4 DEF WaitersIdle, NoLoopForgotten
    <2>8. TransmitsForUplink'
      BY <2>1, <2>3 DEF TransmitsForUplink
    <2>9. SuspendsCount'
      <3>1. Uplinks' = Uplinks \cup {u} /\ u \notin Uplinks
        BY <1>1, <2>2, <2>3, <2>4 DEF Uplinks, InUplink
      <3>2. IsFiniteSet(Uplinks) /\ c_suspends = Cardinality(Uplinks)
        BY UplinkSuspends
      <3>3. Cardinality(Uplinks \cup {u}) = Cardinality(Uplinks) + 1
        BY <3>1, <3>2, FS_AddElement
      <3> QED BY <1>4, <3>1, <3>2, <3>3 DEF SuspendsCount
    <2>10. PollsEndInTime'
      <3>1. /\ \A x \in Loops : PollLeft(x)' = PollLeft(x)
            /\ \A v \in Uplinkers \ {u} : WindowLeft(v)' = WindowLeft(v)
                                          /\ (InUplink(v)' <=> InUplink(v))
        BY <2>4, SameTimes DEF InUplink
      <3>2. WindowLeft(u)' = UntilWindow(where, ticks)
        BY <2>3 DEF WindowLeft
      <3>3. UntilWindow(where, ticks) \in Int /\ LongestPoll < UntilWindow(where, ticks)
        BY <2>1, <2>2, Times, WindowTimes
      <3>4. \A x \in Loops : PollLeft(x) \in Int /\ PollLeft(x) <= LongestPoll
        BY <1>2, PollTimes DEF PollsEndInTime
      <3>5. \A x \in Loops : PollLeft(x)' < WindowLeft(u)'
        BY <3>1, <3>2, <3>3, <3>4, Times
      <3> QED BY <1>2, <3>1, <3>5 DEF PollsEndInTime
    <2>11. NothingPutAside' /\ TunedOutsideWindows'
      BY <1>1, <1>2, <2>4 DEF NothingPutAside, OutsideWindows, TunedOutsideWindows, Configured
    <2>12. SessionsLinked' /\ SessionsAccounted'
      <3>1. \A g \in Groups : sessions[g] # None => sessions[g] \in Sessions
        BY <1>2 DEF Typed
      <3> QED BY <1>1, <1>2, <2>4, <3>1 DEF SessionsLinked, SessionsAccounted, Registered
    <2> QED BY <2>5, <2>6, <2>7, <2>8, <2>9, <2>10, <2>11, <2>12 DEF DeviceInv
  <1> QED BY <1>3, <1>4 DEF SendUplink

-----------------------------------------------------------------------------
(* switch_mode, and the sessions that call it.                             *)

\* Several tasks move, and some loops are woken
LEMMA SomeMove ==
    ASSUME Typed, NEW moves, DOMAIN moves \subseteq Tasks, NEW woken, Move(moves, woken),
           \A t \in DOMAIN moves : moves[t][1] \in AllPCs /\ moves[t][2] \in Nat
    PROVE  /\ pc' \in [Tasks -> AllPCs] /\ left' \in [Tasks -> Nat \cup {Forever}]
           /\ \A x \in DOMAIN moves : pc'[x] = moves[x][1] /\ left'[x] = moves[x][2]
           /\ \A x \in Tasks \ DOMAIN moves :
                pc'[x] = pc[x] /\ left'[x] = IF x \in woken THEN 1 ELSE left[x]
  <1>1. /\ pc' = [t \in Tasks |-> IF t \in DOMAIN moves THEN moves[t][1] ELSE pc[t]]
        /\ left' = [t \in Tasks |-> IF t \in DOMAIN moves THEN moves[t][2]
                                    ELSE IF t \in woken THEN 1 ELSE left[t]]
    BY DEF Move
  <1>2. \A x \in DOMAIN moves : pc'[x] = moves[x][1] /\ left'[x] = moves[x][2]
    BY <1>1
  <1>3. \A x \in Tasks \ DOMAIN moves :
            pc'[x] = pc[x] /\ left'[x] = IF x \in woken THEN 1 ELSE left[x]
    BY <1>1
  <1>4. \A x \in Tasks : pc'[x] \in AllPCs
    BY <1>2, <1>3 DEF Typed, AllPCs
  <1>5. \A x \in Tasks : left'[x] \in Nat \cup {Forever}
    BY <1>2, <1>3 DEF Typed
  <1>6. pc' \in [Tasks -> AllPCs]
    BY <1>1, <1>4
  <1>7. left' \in [Tasks -> Nat \cup {Forever}]
    BY <1>1, <1>5
  <1> QED BY <1>2, <1>3, <1>6, <1>7

\* What the application and the sessions do to the rest of the device: a loop begins, or the
\* loops that wait are woken, and the receiver is set to what is in force from now on
TasksSwitched ==
    /\ pc' \in [Tasks -> AllPCs] /\ left' \in [Tasks -> Nat \cup {Forever}]
    /\ \A u \in Uplinkers : pc'[u] = pc[u] /\ left'[u] = left[u]
    /\ \A x \in Loops :
        \/ pc'[x] = pc[x] /\ (x \notin c_waiters => left'[x] = left[x])
        \/ pc[x] = "absent" /\ pc'[x] = "starting" /\ left'[x] = 0
    /\ \/ c_waiters' = {} /\ \A x \in c_waiters : left'[x] = 1
       \/ c_waiters' = c_waiters /\ \A x \in c_waiters : left'[x] = left[x]

RadioSwitched ==
    /\ operating_mode' \in Modes /\ rx' \in Overrides
    /\ UNCHANGED <<rx, tuned>> \/ tuned'[1] = Configured(tuned', rx')[1]
    /\ radio' \in {"OFF", "STANDBY", "RX", "TX"} /\ (radio' = "TX" => radio = "TX")

LEMMA SwitchKeeps ==
    ASSUME DeviceInv, TasksSwitched, RadioSwitched, UNCHANGED <<c_suspends, window>>,
           \A s \in Sessions : pc'[s] \in SessionPCs /\ left'[s] \in Nat,
           sessions' \in [Groups -> Sessions \cup {None}], session' \in [Sessions -> SessionRecords],
           SessionsLinked', SessionsAccounted'
    PROVE  DeviceInv'
  <1>1. /\ Typed /\ Timed /\ WaitersIdle /\ NoLoopForgotten /\ TransmitsForUplink
        /\ SuspendsCount /\ PollsEndInTime /\ NothingPutAside /\ TunedOutsideWindows
        /\ c_waiters \subseteq Loops
    BY DEF DeviceInv, Typed
  <1>2. /\ pc' \in [Tasks -> AllPCs] /\ left' \in [Tasks -> Nat \cup {Forever}]
        /\ \A u \in Uplinkers : pc'[u] = pc[u] /\ left'[u] = left[u]
        /\ \A x \in Loops :
            \/ pc'[x] = pc[x] /\ (x \notin c_waiters => left'[x] = left[x])
            \/ pc[x] = "absent" /\ pc'[x] = "starting" /\ left'[x] = 0
        /\ \/ c_waiters' = {} /\ \A x \in c_waiters : left'[x] = 1
           \/ c_waiters' = c_waiters /\ \A x \in c_waiters : left'[x] = left[x]
    BY DEF TasksSwitched
  <1>3. Typed'
    <2>1. \A x \in Loops : pc'[x] \in LoopPCs
      BY <1>1, <1>2 DEF Typed, LoopPCs
    <2>2. \A u \in Uplinkers : pc'[u] \in UplinkPCs
      BY <1>1, <1>2 DEF Typed
    <2>3. c_waiters' \subseteq Loops
      BY <1>1, <1>2
    <2>4. operating_mode' \in Modes /\ rx' \in Overrides /\ radio' \in {"OFF", "STANDBY", "RX", "TX"}
      BY DEF RadioSwitched
    <2> QED BY <1>1, <1>2, <2>1, <2>2, <2>3, <2>4 DEF Typed, AllPCs, Overrides
  <1>4. Timed'
    <2>1. ASSUME NEW x \in Tasks, left'[x] = Forever PROVE x \in Loops /\ pc'[x] = "idle"
      <3>1. CASE x \in Uplinkers
        BY <1>1, <1>2, <2>1, <3>1, Kinds DEF Timed
      <3>2. CASE x \in Sessions
        BY <2>1, <3>2 DEF Forever
      <3>3. CASE x \in Loops
        BY <1>1, <1>2, <2>1, <3>3, Kinds DEF Timed, Forever
      <3> QED BY <3>1, <3>2, <3>3, Kinds
    <2> QED BY <2>1 DEF Timed
  <1>5. WaitersIdle'
    BY <1>1, <1>2 DEF WaitersIdle
  <1>6. NoLoopForgotten'
    BY <1>1, <1>2 DEF NoLoopForgotten, WaitersIdle, Forever
  <1>7. TransmitsForUplink'
    BY <1>1, <1>2 DEF TransmitsForUplink, RadioSwitched
  <1>8. SuspendsCount'
    BY <1>1, <1>2 DEF SuspendsCount, Uplinks, InUplink
  <1>9. PollsEndInTime'
    <2>1. ASSUME NEW x \in Loops PROVE PollLeft(x)' = PollLeft(x)
      <3>1. CASE pc[x] = "absent" /\ pc'[x] = "starting"
        BY <3>1 DEF PollLeft
      <3>2. CASE x \in c_waiters
        <4>1. pc'[x] = "idle" /\ pc[x] = "idle"
          BY <1>1, <1>2, <3>2 DEF WaitersIdle
        <4> QED BY <4>1 DEF PollLeft
      <3>3. CASE pc'[x] = pc[x] /\ left'[x] = left[x]
        BY <3>3, SameTimes
      <3> QED BY <1>2, <3>1, <3>2, <3>3
    <2>2. \A u \in Uplinkers : WindowLeft(u)' = WindowLeft(u) /\ (InUplink(u)' <=> InUplink(u))
      BY <1>2, SameTimes DEF InUplink
    <2> QED BY <1>1, <2>1, <2>2 DEF PollsEndInTime
  <1>10. NothingPutAside'
    BY <1>1, <1>2 DEF NothingPutAside
  <1>11. TunedOutsideWindows'
    BY <1>1 DEF TunedOutsideWindows, RadioSwitched, Configured
  <1> QED BY <1>3, <1>4, <1>5, <1>6, <1>7, <1>8, <1>9, <1>10, <1>11 DEF DeviceInv

\* A call of switch_mode, with what its caller does
LEMMA SwitchEffect ==
    ASSUME DeviceInv, NEW mode \in Modes, NEW override \in Overrides, NEW moves,
           DOMAIN moves \subseteq Sessions,
           \A t \in DOMAIN moves : moves[t][1] \in SessionPCs /\ moves[t][2] \in Nat,
           Switch(mode, override, moves)
    PROVE  /\ TasksSwitched /\ RadioSwitched
           /\ \A s \in DOMAIN moves : pc'[s] = moves[s][1] /\ left'[s] = moves[s][2]
           /\ \A s \in Sessions \ DOMAIN moves : pc'[s] = pc[s] /\ left'[s] = left[s]
  <1>1. /\ Typed /\ DOMAIN moves \subseteq Tasks /\ c_waiters \subseteq Loops
        /\ \A t \in DOMAIN moves : moves[t][1] \in AllPCs /\ moves[t][2] \in Nat
        /\ radio \in {"OFF", "STANDBY", "RX", "TX"}
    BY Kinds DEF DeviceInv, Typed, AllPCs
  <1>2. operating_mode' = mode /\ rx' = override /\ tuned' = Configured(tuned, override)
    BY DEF Switch
  <1>3. tuned'[1] = Configured(tuned', rx')[1]
    BY <1>2, SameRate
  <1>4. CASE LeavesClassC(moves)
    <2>1. /\ Move(moves, c_waiters) /\ c_waiters' = {}
          /\ radio' = IF radio = "TX" THEN "TX" ELSE "OFF"
      BY <1>4 DEF LeavesClassC
    <2>2. /\ pc' \in [Tasks -> AllPCs] /\ left' \in [Tasks -> Nat \cup {Forever}]
          /\ \A x \in DOMAIN moves : pc'[x] = moves[x][1] /\ left'[x] = moves[x][2]
          /\ \A x \in Tasks \ DOMAIN moves :
                pc'[x] = pc[x] /\ left'[x] = IF x \in c_waiters THEN 1 ELSE left[x]
      BY <1>1, <2>1, SomeMove
    <2>3. TasksSwitched
      BY <1>1, <2>1, <2>2, Kinds DEF TasksSwitched
    <2>4. \A s \in Sessions \ DOMAIN moves : pc'[s] = pc[s] /\ left'[s] = left[s]
      BY <1>1, <2>2, Kinds
    <2> QED BY <1>2, <1>3, <2>1, <2>2, <2>3, <2>4 DEF RadioSwitched
  <1>5. CASE Move(moves, {}) /\ UNCHANGED <<radio, c_waiters>>
    <2>1. /\ pc' \in [Tasks -> AllPCs] /\ left' \in [Tasks -> Nat \cup {Forever}]
          /\ \A x \in DOMAIN moves : pc'[x] = moves[x][1] /\ left'[x] = moves[x][2]
          /\ \A x \in Tasks \ DOMAIN moves :
                pc'[x] = pc[x] /\ left'[x] = IF x \in {} THEN 1 ELSE left[x]
      BY <1>1, <1>5, SomeMove
    <2>2. TasksSwitched
      BY <1>1, <1>5, <2>1, Kinds DEF TasksSwitched
    <2>3. \A s \in Sessions \ DOMAIN moves : pc'[s] = pc[s] /\ left'[s] = left[s]
      BY <2>1, Kinds
    <2> QED BY <1>1, <1>2, <1>3, <1>5, <2>1, <2>2, <2>3 DEF RadioSwitched
  <1>6. ASSUME NEW l \in Loops, pc[l] = "absent", UNCHANGED <<radio, c_waiters>>,
               Move([t \in DOMAIN moves \cup {l} |->
                        IF t = l THEN <<"starting", 0>> ELSE moves[t]], {})
        PROVE  /\ TasksSwitched /\ RadioSwitched
               /\ \A s \in DOMAIN moves : pc'[s] = moves[s][1] /\ left'[s] = moves[s][2]
               /\ \A s \in Sessions \ DOMAIN moves : pc'[s] = pc[s] /\ left'[s] = left[s]
    <2> DEFINE all == [t \in DOMAIN moves \cup {l} |->
                          IF t = l THEN <<"starting", 0>> ELSE moves[t]]
    <2>1. /\ DOMAIN all = DOMAIN moves \cup {l} /\ all[l] = <<"starting", 0>>
          /\ \A t \in DOMAIN moves : all[t] = moves[t]
      BY <1>1, Kinds
    <2>2. Move(all, {})
      BY <1>6
    <2> HIDE DEF all
    <2>3. /\ DOMAIN all \subseteq Tasks
          /\ \A t \in DOMAIN all : all[t][1] \in AllPCs /\ all[t][2] \in Nat
      BY <1>1, <2>1, Kinds, LoopPlaces
    <2>4. /\ pc' \in [Tasks -> AllPCs] /\ left' \in [Tasks -> Nat \cup {Forever}]
          /\ \A x \in DOMAIN all : pc'[x] = all[x][1] /\ left'[x] = all[x][2]
          /\ \A x \in Tasks \ DOMAIN all :
                pc'[x] = pc[x] /\ left'[x] = IF x \in {} THEN 1 ELSE left[x]
      BY <1>1, <2>2, <2>3, SomeMove
    <2>5. /\ pc'[l] = "starting" /\ left'[l] = 0
          /\ \A s \in DOMAIN moves : pc'[s] = moves[s][1] /\ left'[s] = moves[s][2]
          /\ \A x \in (Tasks \ DOMAIN moves) \ {l} : pc'[x] = pc[x] /\ left'[x] = left[x]
      BY <2>1, <2>4
    <2>6. \A u \in Uplinkers : pc'[u] = pc[u] /\ left'[u] = left[u]
      BY <1>6, <2>5, Kinds
    <2>7. \A x \in Loops \ {l} : pc'[x] = pc[x] /\ left'[x] = left[x]
      BY <2>5, Kinds
    <2>8. l \notin c_waiters
      BY <1>6 DEF DeviceInv, WaitersIdle
    <2>9. \A x \in c_waiters : left'[x] = left[x]
      BY <1>1, <2>7, <2>8
    <2>10. TasksSwitched
      BY <1>6, <2>4, <2>5, <2>6, <2>7, <2>9 DEF TasksSwitched
    <2>11. \A s \in Sessions \ DOMAIN moves : pc'[s] = pc[s] /\ left'[s] = left[s]
      BY <2>5, Kinds
    <2> QED BY <1>1, <1>2, <1>3, <1>6, <2>5, <2>10, <2>11 DEF RadioSwitched
  <1>7. CASE EntersClassC(moves)
    BY <1>5, <1>6, <1>7 DEF EntersClassC
  <1> QED BY <1>4, <1>5, <1>7 DEF Switch

LEMMA SessionFacts ==
    ASSUME DeviceInv
    PROVE  /\ sessions \in [Groups -> Sessions \cup {None}] /\ sessions = cancels
           /\ session \in [Sessions -> SessionRecords]
           /\ \A s \in Sessions : pc[s] \in SessionPCs /\ left[s] \in Nat
           /\ \A g \in Groups : sessions[g] # None =>
                /\ sessions[g] \in Sessions /\ session[sessions[g]].group = g
                /\ pc[sessions[g]] \in {"arming", "running"}
           /\ \A s \in Sessions : pc[s] = "absent" => ~session[s].cancel
           /\ \A s \in Sessions : pc[s] \in {"arming", "running"}
                                    => (Registered(s) <=> ~session[s].cancel)
  <1>1. \A s \in Sessions : left[s] \in Nat
    BY Kinds DEF DeviceInv, Typed, Timed
  <1> QED BY <1>1 DEF DeviceInv, Typed, SessionsLinked, SessionsAccounted

\* The table of sessions stays as it is
LEMMA TableKept ==
    ASSUME DeviceInv, sessions' = sessions, cancels' = cancels,
           \A s \in Sessions : session'[s].group = session[s].group
                               /\ session'[s].cancel = session[s].cancel,
           \A s \in Sessions : pc'[s] = pc[s] \/ (pc[s] = "arming" /\ pc'[s] = "running")
    PROVE  SessionsLinked' /\ SessionsAccounted'
  <1>1. SessionsLinked'
    BY SessionFacts DEF SessionsLinked
  <1>2. \A s \in Sessions : Registered(s)' <=> Registered(s)
    BY DEF Registered
  <1>3. SessionsAccounted'
    BY <1>2, SessionFacts DEF SessionsAccounted
  <1> QED BY <1>1, <1>3

\* What a cancelled session has left
LEMMA CancelledFields ==
    ASSUME DeviceInv, NEW g \in Groups, NEW superseded \in BOOLEAN
    PROVE  /\ Cancelled(g, superseded) \in [Sessions -> SessionRecords]
           /\ \A s \in Sessions :
                /\ Cancelled(g, superseded)[s].group = session[s].group
                /\ Cancelled(g, superseded)[s].cancel <=> (session[s].cancel \/ sessions[g] = s)
  <1>1. sessions = cancels /\ session \in [Sessions -> SessionRecords]
    BY SessionFacts
  <1>2. ASSUME NEW s \in Sessions
        PROVE  /\ Cancelled(g, superseded)[s] \in SessionRecords
               /\ Cancelled(g, superseded)[s].group = session[s].group
               /\ Cancelled(g, superseded)[s].cancel <=> (session[s].cancel \/ sessions[g] = s)
    <2>1. session[s] \in SessionRecords
      BY <1>1
    <2>2. Cancelled(g, superseded)[s] =
            [session[s] EXCEPT !.superseded = IF sessions[g] = s THEN superseded ELSE @,
                               !.cancel = @ \/ cancels[g] = s]
      BY DEF Cancelled
    <2> QED BY <1>1, <2>1, <2>2 DEF SessionRecords
  <1>3. Cancelled(g, superseded) \in [Sessions -> SessionRecords]
    BY <1>2 DEF Cancelled
  <1> QED BY <1>2, <1>3

\* The end of a session
LEMMA TableForgets ==
    ASSUME DeviceInv, NEW s \in Sessions, pc[s] \in {"arming", "running"}, Forget(s),
           pc'[s] = "done", \A t \in Sessions \ {s} : pc'[t] = pc[t]
    PROVE  /\ sessions' \in [Groups -> Sessions \cup {None}]
           /\ session' \in [Sessions -> SessionRecords]
           /\ SessionsLinked' /\ SessionsAccounted'
  <1> USE SessionFacts
  <1>1. /\ session' \in [Sessions -> SessionRecords]
        /\ \A t \in Sessions \ {s} : session'[t] = session[t]
    <2>1. NoSession \in SessionRecords
      BY DEF NoSession, SessionRecords, Overrides, Modes
    <2> QED BY <2>1 DEF Forget
  <1>2. /\ sessions' \in [Groups -> Sessions \cup {None}] /\ sessions' = cancels'
        /\ \A g \in Groups : sessions'[g] = IF sessions[g] = s THEN None ELSE sessions[g]
    <2>1. CASE Registered(s)
      <3>1. session[s].group \in Groups /\ sessions[session[s].group] = s
        BY <2>1 DEF Registered, SessionRecords
      <3>2. /\ sessions' = [sessions EXCEPT ![session[s].group] = None]
            /\ cancels' = [cancels EXCEPT ![session[s].group] = None]
        BY <2>1 DEF Forget
      <3>3. \A g \in Groups : sessions[g] = s => g = session[s].group
        BY Kinds
      <3> QED BY <3>1, <3>2, <3>3
    <2>2. CASE ~Registered(s)
      <3>1. \A g \in Groups : sessions[g] # s
        BY <2>2, Kinds DEF Registered
      <3> QED BY <2>2, <3>1 DEF Forget
    <2> QED BY <2>1, <2>2
  <1>3. SessionsLinked'
    BY <1>1, <1>2 DEF SessionsLinked
  <1>4. \A t \in Sessions \ {s} : Registered(t)' <=> Registered(t)
    <2>1. \A t \in Sessions : session[t].group # None => session[t].group \in Groups
      BY DEF SessionRecords
    <2> QED BY <1>1, <1>2, <2>1, Kinds DEF Registered
  <1>5. SessionsAccounted'
    BY <1>1, <1>2, <1>4 DEF SessionsAccounted
  <1> QED BY <1>1, <1>2, <1>3, <1>5

\* Session tasks that move by themselves
LEMMA SessionMoves ==
    ASSUME DeviceInv, NEW s \in Sessions, NEW where \in SessionPCs, NEW ticks \in Nat,
           Moves(s, where, ticks), UNCHANGED <<operating_mode, rx, radio, tuned>>
    PROVE  /\ TasksSwitched /\ RadioSwitched /\ pc'[s] = where
           /\ \A t \in Sessions : pc'[t] \in SessionPCs /\ left'[t] \in Nat
           /\ \A t \in Sessions \ {s} : pc'[t] = pc[t]
  <1>1. /\ Typed /\ s \in Tasks /\ where \in AllPCs /\ ticks \in Nat \cup {Forever}
        /\ c_waiters \subseteq Loops
    BY Kinds DEF DeviceInv, Typed, AllPCs
  <1>2. /\ pc' \in [Tasks -> AllPCs] /\ left' \in [Tasks -> Nat \cup {Forever}]
        /\ pc'[s] = where /\ left'[s] = ticks /\ c_waiters' = c_waiters
        /\ \A x \in Tasks \ {s} : pc'[x] = pc[x] /\ left'[x] = left[x]
    BY <1>1, MovesAlone DEF Moves
  <1>3. TasksSwitched
    BY <1>1, <1>2, Kinds DEF TasksSwitched
  <1>4. RadioSwitched
    BY <1>1 DEF Typed, RadioSwitched
  <1>5. \A t \in Sessions \ {s} : pc'[t] = pc[t] /\ left'[t] = left[t]
    BY <1>2, Kinds
  <1>6. \A t \in Sessions : pc'[t] \in SessionPCs /\ left'[t] \in Nat
    BY <1>2, <1>5, SessionFacts
  <1> QED BY <1>2, <1>3, <1>4, <1>5, <1>6

LEMMA SwitchModeKeeps ==
    ASSUME DeviceInv, NEW mode \in Switches, SwitchMode(mode)
    PROVE  DeviceInv'
  <1>1. Switch(mode, rx, <<>>) /\ UNCHANGED <<c_suspends, sessions, cancels, session, window>>
    BY DEF SwitchMode, sessionVars
  <1>2. mode \in Modes /\ rx \in Overrides /\ DOMAIN <<>> = {}
    BY DeviceAssumption DEF DeviceInv, Typed, Modes
  <1>3. /\ TasksSwitched /\ RadioSwitched
        /\ \A s \in Sessions : pc'[s] = pc[s] /\ left'[s] = left[s]
    <2> DEFINE moves == <<>>
    <2>1. /\ DOMAIN moves \subseteq Sessions /\ Switch(mode, rx, moves) /\ DOMAIN moves = {}
          /\ \A t \in DOMAIN moves : moves[t][1] \in SessionPCs /\ moves[t][2] \in Nat
      BY <1>1, <1>2
    <2> HIDE DEF moves
    <2>2. /\ TasksSwitched /\ RadioSwitched
          /\ \A s \in Sessions \ DOMAIN moves : pc'[s] = pc[s] /\ left'[s] = left[s]
      BY <1>2, <2>1, SwitchEffect
    <2> QED BY <2>1, <2>2
  <1>4. SessionsLinked' /\ SessionsAccounted'
    BY <1>1, <1>3, TableKept
  <1> QED BY <1>1, <1>3, <1>4, SessionFacts, SwitchKeeps

LEMMA StartSessionKeeps ==
    ASSUME DeviceInv, NEW s \in Sessions, NEW g \in Groups, NEW lead \in Leads,
           StartSession(s, g, lead)
    PROVE  DeviceInv'
  <1> USE SessionFacts
  <1>1. /\ pc[s] = "absent" /\ session' = [Cancelled(g, TRUE) EXCEPT ![s].group = g]
        /\ sessions' = [sessions EXCEPT ![g] = s] /\ cancels' = [cancels EXCEPT ![g] = s]
        /\ Moves(s, "arming", lead)
        /\ UNCHANGED <<operating_mode, rx, radio, tuned, c_suspends, window>>
    BY DEF StartSession, modeVars, radioVars
  <1>2. /\ TasksSwitched /\ RadioSwitched /\ pc'[s] = "arming"
        /\ \A t \in Sessions : pc'[t] \in SessionPCs /\ left'[t] \in Nat
        /\ \A t \in Sessions \ {s} : pc'[t] = pc[t]
    <2>1. "arming" \in SessionPCs /\ lead \in Nat
      BY Times DEF SessionPCs
    <2> QED BY <1>1, <2>1, SessionMoves
  <1>3. /\ session' \in [Sessions -> SessionRecords]
        /\ session'[s].group = g
        /\ \A t \in Sessions \ {s} : session'[t].group = session[t].group
        /\ \A t \in Sessions : session'[t].cancel <=> (session[t].cancel \/ sessions[g] = t)
    <2> DEFINE c == Cancelled(g, TRUE)
    <2>1. /\ c \in [Sessions -> SessionRecords]
          /\ \A t \in Sessions : /\ c[t].group = session[t].group
                                 /\ c[t].cancel <=> (session[t].cancel \/ sessions[g] = t)
      <3>1. TRUE \in BOOLEAN
        OBVIOUS
      <3> QED BY <3>1, CancelledFields, Zenon
    <2>2. session' = [c EXCEPT ![s].group = g]
      BY <1>1
    <2> HIDE DEF c
    <2>3. session'[s] = [c[s] EXCEPT !.group = g] /\ \A t \in Sessions \ {s} : session'[t] = c[t]
      BY <2>1, <2>2
    <2>4. c[s] \in SessionRecords
      BY <2>1
    <2>5. /\ session'[s] \in SessionRecords /\ session'[s].group = g
          /\ session'[s].cancel = c[s].cancel
      BY <2>3, <2>4 DEF SessionRecords
    <2>6. session' \in [Sessions -> SessionRecords]
      BY <2>1, <2>2, <2>3, <2>5
    <2> QED BY <2>1, <2>3, <2>5, <2>6, ZenonT(40)
  <1>4. /\ sessions' \in [Groups -> Sessions \cup {None}] /\ sessions' = cancels'
        /\ sessions'[g] = s /\ \A h \in Groups \ {g} : sessions'[h] = sessions[h]
        /\ \A h \in Groups : sessions[h] # s
    BY <1>1, Kinds
  <1>5. SessionsLinked'
    <2>1. \A h \in Groups : sessions'[h] # None => session'[sessions'[h]].group = h
      BY <1>3, <1>4
    <2>2. ASSUME NEW t \in Sessions, pc'[t] = "absent" PROVE ~session'[t].cancel
      <3>1. t # s /\ pc[t] = "absent"
        BY <1>2, <2>2
      <3>2. sessions[g] # t /\ ~session[t].cancel
        BY <3>1, Kinds
      <3>3. session'[t].cancel <=> (session[t].cancel \/ sessions[g] = t)
        BY <1>3
      <3> QED BY <3>2, <3>3
    <2> QED BY <2>1, <2>2 DEF SessionsLinked
  <1>6. SessionsAccounted'
    <2>1. \A t \in Sessions : session[t].group # None => session[t].group \in Groups
      BY DEF SessionRecords
    <2>2. Registered(s)' /\ ~session'[s].cancel
      <3>1. Registered(s)'
        BY <1>3, <1>4, Kinds DEF Registered
      <3>2. ~session[s].cancel /\ sessions[g] # s
        BY <1>1, <1>4
      <3>3. session'[s].cancel <=> (session[s].cancel \/ sessions[g] = s)
        BY <1>3
      <3> QED BY <3>1, <3>2, <3>3
    <2>3. ASSUME NEW t \in Sessions \ {s}, pc'[t] \in {"arming", "running"}
          PROVE  Registered(t)' <=> ~session'[t].cancel
      <3>1. pc[t] \in {"arming", "running"} /\ (Registered(t) <=> ~session[t].cancel)
        BY <1>2, <2>3
      <3>2. session'[t].group = session[t].group
            /\ (session'[t].cancel <=> (session[t].cancel \/ sessions[g] = t))
        BY <1>3
      <3>3. CASE sessions[g] = t
        <4>1. session[t].group = g
          BY <3>3, Kinds
        <4> QED BY <1>4, <3>2, <3>3, <4>1 DEF Registered
      <3>4. CASE sessions[g] # t
        <4>1. Registered(t)' <=> Registered(t)
          BY <1>4, <2>1, <3>2, <3>4 DEF Registered
        <4> QED BY <3>1, <3>2, <3>4, <4>1
      <3> QED BY <3>3, <3>4
    <2>4. \A h \in Groups : sessions'[h] # None => pc'[sessions'[h]] \in {"arming", "running"}
      BY <1>2, <1>4
    <2> QED BY <1>4, <2>2, <2>3, <2>4 DEF SessionsAccounted
  <1> QED BY <1>1, <1>2, <1>3, <1>4, <1>5, <1>6, SwitchKeeps

LEMMA CancelSessionKeeps ==
    ASSUME DeviceInv, NEW g \in Groups, CancelSession(g)
    PROVE  DeviceInv'
  <1> USE SessionFacts
  <1>1. /\ sessions[g] # None /\ session' = Cancelled(g, FALSE)
        /\ sessions' = [sessions EXCEPT ![g] = None] /\ cancels' = [cancels EXCEPT ![g] = None]
        /\ UNCHANGED <<operating_mode, rx, radio, tuned, c_suspends, c_waiters, pc, left, window>>
    BY DEF CancelSession, modeVars, radioVars
  <1>2. TasksSwitched /\ RadioSwitched
    BY <1>1 DEF DeviceInv, Typed, AllPCs, TasksSwitched, RadioSwitched
  <1>3. /\ session' \in [Sessions -> SessionRecords]
        /\ \A t \in Sessions : session'[t].group = session[t].group
        /\ \A t \in Sessions : session'[t].cancel <=> (session[t].cancel \/ sessions[g] = t)
    <2>1. FALSE \in BOOLEAN
      OBVIOUS
    <2> DEFINE c == Cancelled(g, FALSE)
    <2>2. /\ c \in [Sessions -> SessionRecords]
          /\ \A t \in Sessions : /\ c[t].group = session[t].group
                                 /\ c[t].cancel <=> (session[t].cancel \/ sessions[g] = t)
      BY <2>1, CancelledFields, Zenon
    <2>3. session' = c
      BY <1>1
    <2> HIDE DEF c
    <2> QED BY <2>2, <2>3
  <1>4. /\ sessions' \in [Groups -> Sessions \cup {None}] /\ sessions' = cancels'
        /\ sessions'[g] = None /\ \A h \in Groups \ {g} : sessions'[h] = sessions[h]
    BY <1>1
  <1>5. SessionsLinked'
    <2>1. \A h \in Groups : sessions'[h] # None => session'[sessions'[h]].group = h
      BY <1>3, <1>4
    <2>2. ASSUME NEW t \in Sessions, pc'[t] = "absent" PROVE ~session'[t].cancel
      <3>1. sessions[g] # t /\ ~session[t].cancel
        BY <1>1, <2>2, Kinds
      <3>2. session'[t].cancel <=> (session[t].cancel \/ sessions[g] = t)
        BY <1>3
      <3> QED BY <3>1, <3>2
    <2> QED BY <2>1, <2>2 DEF SessionsLinked
  <1>6. SessionsAccounted'
    <2>1. \A t \in Sessions : session[t].group # None => session[t].group \in Groups
      BY DEF SessionRecords
    <2>2. ASSUME NEW t \in Sessions, pc[t] \in {"arming", "running"}
          PROVE  Registered(t)' <=> ~session'[t].cancel
      <3>1. Registered(t) <=> ~session[t].cancel
        BY <2>2
      <3>2. session'[t].group = session[t].group
            /\ (session'[t].cancel <=> (session[t].cancel \/ sessions[g] = t))
        BY <1>3
      <3>3. CASE sessions[g] = t
        <4>1. session[t].group = g /\ t # None
          BY <1>1, <3>3
        <4> QED BY <1>4, <3>2, <3>3, <4>1 DEF Registered
      <3>4. CASE sessions[g] # t
        <4>1. Registered(t)' <=> Registered(t)
          BY <1>4, <2>1, <3>2, <3>4, Kinds DEF Registered
        <4> QED BY <3>1, <3>2, <3>4, <4>1
      <3> QED BY <3>3, <3>4
    <2> QED BY <1>1, <1>4, <2>2 DEF SessionsAccounted
  <1> QED BY <1>1, <1>2, <1>3, <1>4, <1>5, <1>6, SwitchKeeps

\* A session's task that calls switch_mode
LEMMA SessionSwitches ==
    ASSUME DeviceInv, NEW s \in Sessions, NEW where \in SessionPCs, NEW ticks \in Nat,
           NEW mode \in Modes, NEW override \in Overrides,
           Switch(mode, override, Goes(s, where, ticks))
    PROVE  /\ TasksSwitched /\ RadioSwitched /\ pc'[s] = where
           /\ \A t \in Sessions : pc'[t] \in SessionPCs /\ left'[t] \in Nat
           /\ \A t \in Sessions \ {s} : pc'[t] = pc[t]
  <1> DEFINE moves == Goes(s, where, ticks)
  <1>1. DOMAIN moves = {s} /\ moves[s] = <<where, ticks>> /\ Switch(mode, override, moves)
    BY DEF Goes
  <1> HIDE DEF moves
  <1>2. /\ DOMAIN moves \subseteq Sessions
        /\ \A t \in DOMAIN moves : moves[t][1] \in SessionPCs /\ moves[t][2] \in Nat
    BY <1>1
  <1>3. /\ TasksSwitched /\ RadioSwitched
        /\ \A t \in DOMAIN moves : pc'[t] = moves[t][1] /\ left'[t] = moves[t][2]
        /\ \A t \in Sessions \ DOMAIN moves : pc'[t] = pc[t] /\ left'[t] = left[t]
    BY <1>1, <1>2, SwitchEffect
  <1>4. pc'[s] = where /\ left'[s] = ticks
    BY <1>1, <1>3
  <1>5. \A t \in Sessions \ {s} : pc'[t] = pc[t] /\ left'[t] = left[t]
    BY <1>1, <1>3
  <1>6. \A t \in Sessions : pc'[t] \in SessionPCs /\ left'[t] \in Nat
    BY <1>4, <1>5, SessionFacts
  <1> QED BY <1>3, <1>4, <1>5, <1>6

LEMMA SessionStepKeeps ==
    ASSUME DeviceInv, NEW s \in Sessions, SessionStep(s)
    PROVE  DeviceInv'
  <1>1. /\ "running" \in SessionPCs /\ "done" \in SessionPCs /\ "C" \in Modes
        /\ session[s] \in SessionRecords /\ session[s].mode \in Modes
        /\ session[s].rx \in Overrides /\ Parameters[s] \in Overrides
        /\ operating_mode \in Modes /\ rx \in Overrides
    BY SessionFacts DEF SessionPCs, Modes, SessionRecords, Overrides, DeviceInv, Typed
  <1>2. ASSUME NEW length \in Lengths, SessionArms(s, length) PROVE DeviceInv'
    <2>1. /\ pc[s] = "arming"
          /\ session' = [session EXCEPT ![s].mode = operating_mode, ![s].rx = rx]
          /\ Switch("C", Parameters[s], Goes(s, "running", length))
          /\ UNCHANGED <<sessions, cancels, c_suspends, window>>
      BY <1>2 DEF SessionArms, Due
    <2>2. length \in Nat
      BY Times
    <2>3. /\ TasksSwitched /\ RadioSwitched /\ pc'[s] = "running"
          /\ \A t \in Sessions : pc'[t] \in SessionPCs /\ left'[t] \in Nat
          /\ \A t \in Sessions \ {s} : pc'[t] = pc[t]
      BY <1>1, <2>1, <2>2, SessionSwitches
    <2>4. /\ session' \in [Sessions -> SessionRecords]
          /\ \A t \in Sessions : session'[t].group = session[t].group
                                 /\ session'[t].cancel = session[t].cancel
      <3>1. session'[s] = [session[s] EXCEPT !.mode = operating_mode, !.rx = rx]
            /\ \A t \in Sessions \ {s} : session'[t] = session[t]
        BY <2>1, SessionFacts
      <3>2. /\ session'[s] \in SessionRecords /\ session'[s].group = session[s].group
            /\ session'[s].cancel = session[s].cancel
        BY <1>1, <3>1 DEF SessionRecords
      <3> QED BY <2>1, <3>1, <3>2, SessionFacts
    <2>5. SessionsLinked' /\ SessionsAccounted'
      BY <2>1, <2>3, <2>4, TableKept
    <2> QED BY <2>1, <2>3, <2>4, <2>5, SessionFacts, SwitchKeeps
  <1>3. CASE SessionDropped(s)
    <2>1. /\ pc[s] = "arming" /\ Forget(s) /\ Moves(s, "done", 0)
          /\ UNCHANGED <<operating_mode, rx, radio, tuned, c_suspends, window>>
      BY <1>3 DEF SessionDropped, modeVars, radioVars
    <2>2. /\ TasksSwitched /\ RadioSwitched /\ pc'[s] = "done"
          /\ \A t \in Sessions : pc'[t] \in SessionPCs /\ left'[t] \in Nat
          /\ \A t \in Sessions \ {s} : pc'[t] = pc[t]
      BY <1>1, <2>1, SessionMoves
    <2> QED BY <2>1, <2>2, TableForgets, SwitchKeeps
  <1>4. CASE SessionEnds(s)
    <2>1. /\ pc[s] = "running" /\ Forget(s) /\ UNCHANGED <<c_suspends, window>>
          /\ \/ Moves(s, "done", 0) /\ UNCHANGED <<operating_mode, rx, radio, tuned>>
             \/ Switch(session[s].mode, session[s].rx, Goes(s, "done", 0))
      BY <1>4 DEF SessionEnds, modeVars, radioVars
    <2>2. /\ TasksSwitched /\ RadioSwitched /\ pc'[s] = "done"
          /\ \A t \in Sessions : pc'[t] \in SessionPCs /\ left'[t] \in Nat
          /\ \A t \in Sessions \ {s} : pc'[t] = pc[t]
      BY <1>1, <2>1, SessionMoves, SessionSwitches
    <2> QED BY <2>1, <2>2, TableForgets, SwitchKeeps
  <1> QED BY <1>2, <1>3, <1>4 DEF SessionStep

-----------------------------------------------------------------------------
(* The clock: a poll and the time until a window run down together.        *)

LEMMA TickKeeps ==
    ASSUME DeviceInv, Tick
    PROVE  DeviceInv'
  <1>1. /\ left' = [t \in Tasks |-> IF left[t] > 0 THEN left[t] - 1 ELSE left[t]]
        /\ UNCHANGED <<operating_mode, rx, radio, tuned, c_suspends, c_waiters, sessions, cancels,
                       session, pc>>
    BY DEF Tick, modeVars, radioVars, sessionVars
  <1>2. /\ Typed /\ Timed /\ WaitersIdle /\ NoLoopForgotten /\ TransmitsForUplink
        /\ SuspendsCount /\ PollsEndInTime /\ NothingPutAside /\ TunedOutsideWindows
        /\ SessionsLinked /\ SessionsAccounted /\ c_waiters \subseteq Loops
        /\ \A t \in Tasks : left[t] \in Nat \cup {-1}
    BY DEF DeviceInv, Typed, Forever
  <1>3. /\ window' \in [Uplinkers -> WindowRecords]
        /\ \A u \in Uplinkers : window'[u].restore = window[u].restore
    <2>1. \A u \in Uplinkers : window[u] \in WindowRecords
      BY <1>2 DEF Typed
    <2>2. ASSUME NEW u \in Uplinkers
          PROVE  window'[u] = window[u] \/ window'[u] = [window[u] EXCEPT !.since = @ + 1]
      BY DEF Tick
    <2>3. ASSUME NEW u \in Uplinkers
          PROVE  window'[u] \in WindowRecords /\ window'[u].restore = window[u].restore
      <3>1. \A w \in WindowRecords : /\ [w EXCEPT !.since = @ + 1] \in WindowRecords
                                     /\ [w EXCEPT !.since = @ + 1].restore = w.restore
        BY DEF WindowRecords
      <3> QED BY <2>1, <2>2, <3>1
    <2> QED BY <2>3 DEF Tick
  <1>4. \A t \in Tasks : left'[t] \in Nat \cup {-1} /\ (left'[t] = -1 <=> left[t] = -1)
    BY <1>1, <1>2
  <1>5. left' \in [Tasks -> Nat \cup {Forever}]
    BY <1>1, <1>4 DEF Forever
  <1>6. Typed'
    BY <1>1, <1>2, <1>3, <1>5 DEF Typed, Overrides
  <1>7. Timed' /\ WaitersIdle'
    BY <1>1, <1>2, <1>4, Kinds DEF Timed, WaitersIdle, Forever
  <1>8. \A t \in Uplinkers \cup Loops : AtRest(t) \/ left[t] # 0
    BY Kinds DEF Tick
  <1>9. NoLoopForgotten'
    <2>1. ASSUME NEW l \in Loops, pc[l] = "idle"
          PROVE  left'[l] \in {0, 1} \/ (l \in c_waiters /\ c_suspends > 0)
      <3>1. left[l] # 0
        BY <1>8, <2>1 DEF AtRest
      <3>2. left[l] = 1 \/ (l \in c_waiters /\ c_suspends > 0)
        BY <1>2, <2>1, <3>1 DEF NoLoopForgotten
      <3> QED BY <1>1, <3>2, Kinds
    <2> QED BY <1>1, <2>1 DEF NoLoopForgotten
  <1>10. TransmitsForUplink' /\ SuspendsCount'
    BY <1>1, <1>2 DEF TransmitsForUplink, SuspendsCount, Uplinks, InUplink
  <1>11. ASSUME NEW l \in Loops
         PROVE  /\ PollLeft(l) \in Int /\ PollLeft(l)' \in Int /\ PollLeft(l)' >= -1
                /\ PollLeft(l)' = PollLeft(l) - 1 \/ (PollLeft(l)' = -1 /\ PollLeft(l) = -1)
                /\ PollLeft(l)' = PollLeft(l) - 1 => PollLeft(l) >= 0
    <2>1. CASE pc[l] \in {"get", "startup_get", "probe", "startup_loop"}
      <3>1. left[l] # 0 /\ left[l] # -1 /\ l \in Tasks
        BY <1>2, <1>8, <2>1, Kinds DEF AtRest, Timed, Forever
      <3>2. left[l] \in Nat /\ left[l] > 0 /\ left'[l] = left[l] - 1
        BY <1>1, <1>2, <3>1
      <3>3. PollLeft(l)' = PollLeft(l) - 1 /\ PollLeft(l) \in Nat /\ PollLeft(l) >= 1
        BY <1>1, <2>1, <3>2, Times DEF PollLeft
      <3> QED BY <3>3
    <2>2. CASE pc[l] \notin {"get", "startup_get", "probe", "startup_loop"}
      <3>1. PollLeft(l)' = -1 /\ PollLeft(l) = -1
        BY <1>1, <2>2 DEF PollLeft
      <3> QED BY <3>1
    <2> QED BY <2>1, <2>2
  <1>12. ASSUME NEW u \in Uplinkers, InUplink(u)
         PROVE  /\ WindowLeft(u) \in Nat /\ WindowLeft(u)' \in Nat
                /\ WindowLeft(u)' = WindowLeft(u) - 1 \/ (WindowLeft(u)' = 0 /\ WindowLeft(u) = 0)
    <2>1. left[u] # 0 /\ u \in Tasks /\ pc[u] \in UplinkPCs /\ pc[u] # "client"
      BY <1>2, <1>8, <1>12, Kinds DEF AtRest, InUplink, Typed, UplinkPCs
    <2>2. left[u] # -1
      BY <1>2, <2>1, Kinds DEF Timed, Forever
    <2>3. left[u] \in Nat /\ left[u] > 0 /\ left'[u] = left[u] - 1 /\ left'[u] \in Nat
      BY <1>1, <1>2, <2>1, <2>2
    <2>4. WindowLeft(u) = UntilWindow(pc[u], left[u]) /\ WindowLeft(u)' = UntilWindow(pc[u], left'[u])
      BY <1>1 DEF WindowLeft
    <2>5. CASE pc[u] \in {"startup_tx", "tx", "settle", "await", "startup_window", "probe"}
      <3>1. CASE pc[u] \in {"startup_tx", "tx"}
        BY <2>3, <2>4, <3>1, Times, WindowTimes
      <3>2. CASE pc[u] = "settle" /\ StandbyTime >= ReceiveDelay1
        BY <2>3, <2>4, <3>2, Times, WindowTimes
      <3>3. CASE pc[u] = "settle" /\ StandbyTime < ReceiveDelay1
        BY <2>3, <2>4, <3>3, Times, WindowTimes
      <3>4. CASE pc[u] \in {"await", "startup_window", "probe"}
        BY <2>3, <2>4, <3>4, WindowTimes
      <3> QED BY <2>5, <3>1, <3>2, <3>3, <3>4, Times
    <2>6. CASE pc[u] \in {"startup_get", "get", "late", "backoff", "startup_rest", "startup_resume"}
      BY <2>3, <2>4, <2>6, WindowTimes
    <2> QED BY <2>1, <2>5, <2>6 DEF UplinkPCs
  <1>13. PollsEndInTime'
    <2>1. ASSUME NEW l \in Loops PROVE PollLeft(l)' <= LongestPoll
      <3>1. PollLeft(l) <= LongestPoll
        BY <1>2 DEF PollsEndInTime
      <3> QED BY <1>11, <3>1, Times
    <2>2. ASSUME NEW l \in Loops, NEW u \in Uplinkers, InUplink(u)
          PROVE  PollLeft(l)' < WindowLeft(u)'
      <3>1. PollLeft(l) < WindowLeft(u)
        BY <1>2, <2>2 DEF PollsEndInTime
      <3> QED BY <1>11, <1>12, <2>2, <3>1
    <2> QED BY <1>1, <2>1, <2>2 DEF PollsEndInTime, InUplink
  <1>14. NothingPutAside' /\ TunedOutsideWindows'
    BY <1>1, <1>2, <1>3 DEF NothingPutAside, TunedOutsideWindows, Configured
  <1>15. SessionsLinked' /\ SessionsAccounted'
    BY <1>1, <1>2 DEF SessionsLinked, SessionsAccounted, Registered
  <1> QED BY <1>6, <1>7, <1>9, <1>10, <1>13, <1>14, <1>15 DEF DeviceInv

\* A frame in the last tick of a wait is a matter of the clock alone
LEMMA StutterKeeps ==
    ASSUME DeviceInv, UNCHANGED vars \/ \E t \in Tasks : FrameInLastTick(t)
    PROVE  DeviceInv'
  <1>1. UNCHANGED <<operating_mode, rx, radio, tuned, c_suspends, c_waiters, sessions, cancels,
                    session, pc, left, window>>
    BY DEF vars, FrameInLastTick, modeVars, radioVars, sessionVars
  <1> QED BY <1>1 DEF DeviceInv, Typed, Timed, WaitersIdle, NoLoopForgotten, TransmitsForUplink,
              SuspendsCount, Uplinks, InUplink, PollsEndInTime, PollLeft, WindowLeft,
              NothingPutAside, TunedOutsideWindows, Configured, SessionsLinked, SessionsAccounted,
              Registered, Overrides

-----------------------------------------------------------------------------
(* The results.                                                            *)

LEMMA DeviceStep ==
    ASSUME DeviceInv, [Next]_vars
    PROVE  DeviceInv'
  <1>1. ASSUME NEW l \in Loops, LoopStep(l) PROVE DeviceInv'
    BY <1>1, LoopEffects, LoopKeeps
  <1>2. CASE Call
    BY <1>2, SendKeeps, SwitchModeKeeps, StartSessionKeeps, CancelSessionKeeps DEF Call
  <1> QED BY <1>1, <1>2, UplinkStepKeeps, SessionStepKeeps, TickKeeps, StutterKeeps DEF Next

\* The inductive invariant of the device holds, whatever the tasks of send_uplink, the receive
\* loops, the sessions and the calls of other tasks do in between.
THEOREM DeviceInvariant == Spec => []DeviceInv
  <1>1. Init => DeviceInv
    BY DeviceInit
  <1>2. DeviceInv /\ [Next]_vars => DeviceInv'
    BY DeviceStep
  <1> QED BY <1>1, <1>2, PTL DEF Spec

\* The loop is held off exactly while uplinks are under way, however they end, and the radio
\* never transmits unannounced (device.py:511-520, 763-776, 821-822).
THEOREM SuspensionsAreBalanced == Spec => []SuspendsMatchUplinks
  <1>1. DeviceInv => SuspendsMatchUplinks
    <2> SUFFICES ASSUME DeviceInv PROVE SuspendsMatchUplinks
      OBVIOUS
    <2>1. c_suspends = Cardinality(Uplinks) /\ (\A u \in Uplinkers : InUplink(u) => c_suspends > 0)
      BY UplinkSuspends
    <2>2. radio = "TX" => \E u \in Uplinkers : InUplink(u)
      BY DEF DeviceInv, TransmitsForUplink, InUplink
    <2> QED BY <2>1, <2>2 DEF SuspendsMatchUplinks, Uplinks
  <1> QED BY <1>1, DeviceInvariant, PTL

\* A loop that idles is scheduled, or registered for the resume of an uplink that is under way
\* (device.py:771-797).
THEOREM LoopsAreWoken == Spec => []NoLoopForgotten
  <1>1. DeviceInv => NoLoopForgotten
    BY DEF DeviceInv
  <1> QED BY <1>1, DeviceInvariant, PTL

\* No loop still waits for the radio's queue when the window of an uplink does: a poll that has
\* begun before the uplink is over when its RX1 opens (device.py:159-163, 816-826).
THEOREM WindowsHearTheirReplies == Spec => []RepliesGoToTheWindow
  <1>1. DeviceInv => RepliesGoToTheWindow
    <2> SUFFICES ASSUME DeviceInv, NEW u \in Uplinkers, NEW l \in Loops,
                        pc[u] = "get", pc[l] = "get"
                 PROVE  FALSE
      BY DEF RepliesGoToTheWindow
    <2>1. Typed /\ left[l] \in Nat \cup {-1} /\ left[l] # -1 /\ left[u] \in Nat
      BY Kinds DEF DeviceInv, Typed, Timed, Forever
    <2>2. PollLeft(l) \in Nat
      BY <2>1, PollTimes
    <2>3. WindowLeft(u) = 0
      BY <2>1, WindowTimes DEF WindowLeft
    <2>4. PollLeft(l) < WindowLeft(u)
      BY DEF DeviceInv, PollsEndInTime, InUplink
    <2> QED BY <2>2, <2>3, <2>4
  <1> QED BY <1>1, DeviceInvariant, PTL

\* The registered session of a group is the one whose task runs uncancelled, through every order
\* of replacements, cancellations and late ends (device.py:1115-1158, 1262-1266).
THEOREM SessionsAreAccounted == Spec => []SessionsAccounted
  <1>1. DeviceInv => SessionsAccounted
    BY DEF DeviceInv
  <1> QED BY <1>1, DeviceInvariant, PTL

\* Outside of the windows the receiver has the data rate that is in force, also when a session
\* began or ended during a window (device.py:676-695, 703-723).
THEOREM ReceiverIsRestored == Spec => []TunedOutsideWindows
  <1>1. DeviceInv => TunedOutsideWindows
    BY DEF DeviceInv
  <1> QED BY <1>1, DeviceInvariant, PTL

=============================================================================
