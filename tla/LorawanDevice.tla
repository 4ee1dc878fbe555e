--------------------------- MODULE LorawanDevice ---------------------------
(***************************************************************************)
(* A LoRaWAN end device (simulator/lorawan/device.py): the operating mode, *)
(* the Class C receive loop, uplinks with their receive windows, and timed *)
(* multicast sessions, which all share one radio.                          *)
(*                                                                         *)
(* The tasks are the ones that call send_uplink, the receive loops, which  *)
(* switch_mode starts and stops, and one task for each session.  Calls of  *)
(* switch_mode, start_class_c_session and cancel_session come from any     *)
(* other task.  What a task does between two suspensions is one step, and  *)
(* a suspended task has a number of ticks left, as in module LoraRadio,    *)
(* which has the radio itself; here the radio is its state, its receive    *)
(* parameters and the tasks that wait for its queue.  A wait for the queue *)
(* may end with a frame in any of its ticks.  One that comes in the last   *)
(* costs a timer lock that nobody gives back: the clock moves once more.   *)
(***************************************************************************)
EXTENDS Integers, FiniteSets

CONSTANTS
    Uplinkers,    \* tasks that call send_uplink
    Loops,        \* tasks of _class_c_rx_loop, a bound on the loops at one time
    Sessions,     \* multicast sessions, a bound on their number
    Groups,       \* joined multicast groups
    None,
    Parameters,   \* the receive parameters of each session: <<data rate, frequency or None>>
    OwnRate, OwnFrequency,
    Leads,        \* ticks from the call until the session arms
    Lengths,      \* ticks a session lasts
    Switches,     \* modes the application asks switch_mode for
    MaxCalls,     \* bound on the uplinks, switches and sessions together
    StandbyTime, AirTime, ReceiveDelay1, ReceiveDelay2, Window, PollInterval

ASSUME DeviceAssumption ==
    /\ IsFiniteSet(Uplinkers) /\ IsFiniteSet(Loops) /\ IsFiniteSet(Sessions)
    /\ {StandbyTime, AirTime, ReceiveDelay1, ReceiveDelay2, Window, PollInterval}
            \cup Lengths \subseteq Nat \ {0}
    /\ Leads \subseteq Nat /\ MaxCalls \in Nat /\ Switches \subseteq {"A", "C"}
    /\ OwnRate # None /\ OwnFrequency # None /\ None \notin Sessions \cup Groups
    /\ Uplinkers \cap Loops = {} /\ Sessions \cap (Uplinkers \cup Loops) = {}

\* region.py, device.py and power_profile.py: the radio starts so fast that a poll that began
\* before an uplink is over when its RX1 opens
ASSUME DelayAssumption ==
    2 * StandbyTime + PollInterval < AirTime + ReceiveDelay1 /\ ReceiveDelay1 < ReceiveDelay2

VARIABLES
    operating_mode,
    rx,             \* rx_data_rate and rx_frequency, the override of a session
    radio,          \* state of the radio
    rx_continuous,  \* _rx_continuous of the radio
    tuned,          \* data rate and frequency the receiver is set to
    c_running,      \* _class_c_running
    c_stop,         \* _class_c_stop
    c_suspends,     \* _class_c_suspends
    c_waiters,      \* _class_c_waiters, the loops whose event is in the list
    sessions,       \* _multicast_sessions
    cancels,        \* _session_cancels, the session whose event is stored
    session,        \* the MulticastSession objects and the locals of their tasks
    pc, left,       \* where each task is, and the ticks until its wake-up
    window,         \* locals of an uplink's receive windows
    calls,          \* counter of the bound
    clock           \* goes on, makes its last move, or stands for ever

modeVars    == <<operating_mode, rx>>
radioVars   == <<radio, rx_continuous, tuned>>
flagVars    == <<c_running, c_stop>>
sessionVars == <<sessions, cancels, session>>
vars == <<modeVars, radioVars, flagVars, c_suspends, c_waiters, sessionVars, pc, left, window,
          calls, clock>>

-----------------------------------------------------------------------------
(* Types.                                                                  *)

Tasks   == Uplinkers \cup Loops \cup Sessions
Modes   == {"A", "C"}
Forever == -1
NoOverride == <<None, None>>
Rates       == {OwnRate} \cup {Parameters[s][1] : s \in Sessions}
Frequencies == {OwnFrequency} \cup ({Parameters[s][2] : s \in Sessions} \ {None})
Overrides   == {NoOverride} \cup {Parameters[s] : s \in Sessions}

UplinkPCs  == {"client",      \* outside of send_uplink
               "startup_tx",  \* in standby(), before the transmission
               "tx",          \* on the air
               "settle",      \* in standby(), after the transmission
               "await",       \* until a receive window opens
               "startup_window", "probe", "startup_get", "get",  \* in a window
               "late",        \* a frame was on the air when the window closed
               "backoff",     \* the radio was transmitting
               "startup_rest", "startup_resume"}  \* in radio.receive, after a window
LoopPCs    == {"absent", "starting", "startup_loop", "probe", "startup_get", "get", "backoff",
               "idle"}
SessionPCs == {"absent", "arming", "running", "done"}

\* How long a task waits for the queue
GetTime(t) == IF t \in Loops THEN PollInterval ELSE Window

TypeOK ==
    /\ operating_mode \in Modes /\ rx \in Overrides
    /\ radio \in {"OFF", "STANDBY", "RX", "TX"} /\ rx_continuous \in BOOLEAN
    /\ tuned \in Rates \X Frequencies
    /\ c_running \in BOOLEAN /\ c_stop \in BOOLEAN
    /\ c_suspends \in 0 .. Cardinality(Uplinkers) /\ c_waiters \subseteq Loops
    /\ sessions \in [Groups -> Sessions \cup {None}]
    /\ cancels \in [Groups -> Sessions \cup {None}]
    /\ session \in [Sessions -> [group : Groups \cup {None}, superseded : BOOLEAN,
                                 cancel : BOOLEAN, mode : Modes, rx : Overrides]]
    /\ pc \in [Tasks -> UplinkPCs \cup LoopPCs \cup SessionPCs]
    /\ left \in [Tasks -> Nat \cup {Forever}]
    /\ window \in [Uplinkers -> [mode : Modes, restore : BOOLEAN, number : {1, 2},
                                 reply : BOOLEAN, since : Nat]]
    /\ calls \in 0 .. MaxCalls
    /\ clock \in {"runs", "last move", "stopped"}

NoSession == [group |-> None, superseded |-> FALSE, cancel |-> FALSE, mode |-> "A",
              rx |-> NoOverride]
NoWindow  == [mode |-> "A", restore |-> FALSE, number |-> 1, reply |-> FALSE, since |-> 0]

Init ==
    /\ operating_mode = "A" /\ rx = NoOverride
    /\ radio = "OFF" /\ rx_continuous = FALSE /\ tuned = <<OwnRate, OwnFrequency>>
    /\ c_running = FALSE /\ c_stop = FALSE /\ c_suspends = 0 /\ c_waiters = {}
    /\ sessions = [g \in Groups |-> None] /\ cancels = [g \in Groups |-> None]
    /\ session = [s \in Sessions |-> NoSession]
    /\ pc = [t \in Tasks |-> IF t \in Uplinkers THEN "client" ELSE "absent"]
    /\ left = [t \in Tasks |-> 0]
    /\ window = [u \in Uplinkers |-> NoWindow]
    /\ calls = 0
    /\ clock = "runs"

-----------------------------------------------------------------------------
(* Steps of a task, and the wake-up of the loops.                          *)

Called == calls < MaxCalls /\ calls' = calls + 1 /\ UNCHANGED clock

Due(t, where) == pc[t] = where /\ left[t] = 0

\* A get or a get_timeout(0) is over, and the frame that stopped the clock is its result
LastFrame(t) == (Due(t, "probe") \/ Due(t, "get")) /\ clock = "stopped"

\* The tasks of `moves' go where it says; the loops of `woken' are scheduled for the next tick
Move(moves, woken) ==
    /\ pc' = [t \in Tasks |-> IF t \in DOMAIN moves THEN moves[t][1] ELSE pc[t]]
    /\ left' = [t \in Tasks |-> IF t \in DOMAIN moves THEN moves[t][2]
                                ELSE IF t \in woken THEN 1 ELSE left[t]]

Goes(t, where, ticks) == [u \in {t} |-> <<where, ticks>>]

Moves(t, where, ticks) == Move(Goes(t, where, ticks), {}) /\ UNCHANGED c_waiters

\* _configure_radio: without a frequency the receiver stays where it is
Configured(now, override) ==
    <<IF override[1] = None THEN OwnRate ELSE override[1],
      IF override[2] = None THEN now[2] ELSE override[2]>>

Own == <<OwnRate, OwnFrequency>>

-----------------------------------------------------------------------------
(* switch_mode, alone or after set_rx_config.  It only suspends to let the *)
(* loop it started take its timer lock, after everything is done.          *)

\* _leave_class_c with _stop_class_c_rx and _wake_class_c_loop
LeavesClassC(moves) ==
    /\ c_stop' = (c_stop \/ c_running) /\ c_running' = FALSE
    /\ radio' = IF radio = "TX" THEN "TX" ELSE "OFF"
    /\ c_waiters' = {}
    /\ Move(moves, c_waiters)

\* Mutant of EntersClassC: the flag of an earlier stop is left
EntersClassCStopped(moves) ==
    /\ \E l \in Loops :
        /\ pc[l] = "absent"
        /\ Move([t \in DOMAIN moves \cup {l} |->
                    IF t = l THEN <<"starting", 0>> ELSE moves[t]], {})
    /\ c_running' = TRUE
    /\ UNCHANGED <<radio, c_waiters, c_stop>>

\* _start_class_c_rx, up to the wait for the new task
EntersClassC(moves) ==
    /\ \/ /\ c_running
          /\ Move(moves, {})
          /\ UNCHANGED flagVars
       \/ /\ ~c_running
          /\ \E l \in Loops :
                /\ pc[l] = "absent"
                /\ Move([t \in DOMAIN moves \cup {l} |->
                            IF t = l THEN <<"starting", 0>> ELSE moves[t]], {})
          /\ c_stop' = FALSE /\ c_running' = TRUE
    /\ UNCHANGED <<radio, c_waiters>>

Switch(mode, override, moves) ==
    /\ operating_mode' = mode
    /\ rx' = override
    /\ tuned' = Configured(tuned, override)
    /\ rx_continuous' = (mode = "C")
    /\ \/ operating_mode = "C" /\ mode # "C" /\ LeavesClassC(moves)
       \/ operating_mode # "C" /\ mode = "C" /\ EntersClassC(moves)
       \/ /\ operating_mode = mode
          /\ Move(moves, {})
          /\ UNCHANGED <<radio, flagVars, c_waiters>>

SwitchMode(mode) ==
    /\ Called
    /\ Switch(mode, rx, <<>>)
    /\ UNCHANGED <<c_suspends, sessionVars, window>>

-----------------------------------------------------------------------------
(* _class_c_rx_loop.                                                       *)

\* Mutant of LoopTop: the loop does not look at the suspensions
LoopTopUnsuspended(l) ==
    \/ /\ c_stop
       /\ Moves(l, "absent", 0)
       /\ UNCHANGED radioVars
    \/ /\ ~c_stop /\ radio = "OFF"
       /\ radio' = "STANDBY"
       /\ Moves(l, "startup_loop", StandbyTime)
       /\ UNCHANGED <<rx_continuous, tuned>>
    \/ /\ ~c_stop /\ radio # "OFF"
       /\ radio' = "RX" /\ rx_continuous' = (rx_continuous \/ radio # "RX")
       /\ Moves(l, "probe", 1)
       /\ UNCHANGED tuned

\* The head of the loop: stop, idle, or on with the reception.  With no uplink announced the
\* radio is not transmitting (invariant SuspendsMatchUplinks), and receive does not raise.
LoopTop(l) ==
    \/ /\ c_stop
       /\ Moves(l, "absent", 0)
       /\ UNCHANGED radioVars
    \/ /\ ~c_stop /\ c_suspends > 0
       /\ Move(Goes(l, "idle", Forever), {})
       /\ c_waiters' = c_waiters \cup {l}
       /\ UNCHANGED radioVars
    \/ /\ ~c_stop /\ c_suspends = 0 /\ radio = "OFF"
       /\ radio' = "STANDBY"
       /\ Moves(l, "startup_loop", StandbyTime)
       /\ UNCHANGED <<rx_continuous, tuned>>
    \/ /\ ~c_stop /\ c_suspends = 0 /\ radio # "OFF"
       /\ radio' = "RX" /\ rx_continuous' = (rx_continuous \/ radio # "RX")
       /\ Moves(l, "probe", 1)
       /\ UNCHANGED tuned

\* The head is reached by a new loop, one that was woken, one that has stayed off the air, and
\* after a poll: with a frame, at any time the radio receives, or with a timeout
LoopGoesOn(l) ==
    /\ \/ LastFrame(l)
       \/ \E where \in {"starting", "idle", "backoff", "get"} : Due(l, where)
       \/ pc[l] = "probe" /\ left[l] > 0
       \/ pc[l] = "get" /\ left[l] > 0 /\ radio = "RX"
    /\ LoopTop(l)
    /\ UNCHANGED <<modeVars, flagVars, c_suspends, sessionVars, window, calls, clock>>

\* radio.receive after its standby: the state is not looked at again
LoopListens(l) ==
    /\ Due(l, "startup_loop")
    /\ radio' = "RX" /\ rx_continuous' = TRUE
    /\ Moves(l, "probe", 1)
    /\ UNCHANGED <<modeVars, tuned, flagVars, c_suspends, sessionVars, window, calls, clock>>

-----------------------------------------------------------------------------
(* radio.receive_data_within, called by the loop and in a receive window.  *)

\* Without a frame in the queue the receiver is turned on, unless the radio transmits
ReceiveDataWithin(t) ==
    /\ Due(t, "probe")
    /\ \/ /\ radio = "TX" /\ t \in {u \in Tasks : u \in Uplinkers => window[u].mode = "A"}
          /\ Moves(t, "backoff", 1)
          /\ UNCHANGED radio
       \/ /\ radio = "OFF"
          /\ radio' = "STANDBY"
          /\ Moves(t, "startup_get", StandbyTime)
       \/ /\ radio \in {"STANDBY", "RX"}
          /\ radio' = "RX"
          /\ Moves(t, "get", GetTime(t))
    /\ UNCHANGED <<modeVars, rx_continuous, tuned, flagVars, c_suspends, sessionVars, window,
                   calls, clock>>

ReceiveAfterStartup(t) ==
    /\ Due(t, "startup_get")
    /\ radio' = "RX"
    /\ Moves(t, "get", GetTime(t))
    /\ UNCHANGED <<modeVars, rx_continuous, tuned, flagVars, c_suspends, sessionVars, window,
                   calls, clock>>

-----------------------------------------------------------------------------
(* send_uplink.                                                            *)

untouched == <<modeVars, flagVars, sessionVars>>

\* Mutant of Resume: the loop is not woken
ResumeWithoutWake(u) ==
    /\ c_suspends' = c_suspends - 1
    /\ Move(Goes(u, "client", 0), {}) /\ UNCHANGED c_waiters
    /\ window' = [window EXCEPT ![u] = NoWindow]

\* _resume_class_c_rx, from the finally of send_uplink
Resume(u) ==
    /\ c_suspends' = c_suspends - 1
    /\ window' = [window EXCEPT ![u] = NoWindow]
    /\ \/ /\ c_suspends = 1
          /\ Move(Goes(u, "client", 0), c_waiters) /\ c_waiters' = {}
       \/ c_suspends > 1 /\ Moves(u, "client", 0)

\* Mutant of SendUplink: a refused transmission does not resume
SendUplinkUnbalanced(u) ==
    /\ Called
    /\ pc[u] = "client"
    /\ c_suspends' = c_suspends + 1
    /\ \/ radio = "TX" /\ UNCHANGED <<radio, pc, left>>
       \/ /\ radio = "OFF"
          /\ radio' = "STANDBY" /\ Move(Goes(u, "startup_tx", StandbyTime), {})
       \/ /\ radio \in {"STANDBY", "RX"}
          /\ radio' = "TX" /\ Move(Goes(u, "tx", AirTime), {})
    /\ UNCHANGED <<untouched, rx_continuous, tuned, window, c_waiters>>

\* send_uplink with the start of transmit_data_blocking, which refuses a second transmission
SendUplink(u) ==
    /\ Called
    /\ pc[u] = "client"
    /\ \/ radio = "TX" /\ UNCHANGED <<radio, c_suspends, c_waiters, pc, left>>
       \/ /\ radio = "OFF"
          /\ radio' = "STANDBY" /\ c_suspends' = c_suspends + 1
          /\ Moves(u, "startup_tx", StandbyTime)
       \/ /\ radio \in {"STANDBY", "RX"}
          /\ radio' = "TX" /\ c_suspends' = c_suspends + 1
          /\ Moves(u, "tx", AirTime)
    /\ UNCHANGED <<untouched, rx_continuous, tuned, window>>

TransmitAfterStartup(u) ==
    /\ Due(u, "startup_tx")
    /\ radio' = "TX"
    /\ Moves(u, "tx", AirTime)
    /\ UNCHANGED <<untouched, rx_continuous, tuned, c_suspends, window, calls, clock>>

\* The beginning of _class_a_rx_windows (with _rest_radio) and of _class_c_rx_windows: the
\* parameters of a session are put aside, and the task sleeps until RX1
HandleRxWindows(u, state, since) ==
    /\ radio' = IF operating_mode = "A" /\ state # "TX" THEN "OFF" ELSE state
    /\ tuned' = IF rx # NoOverride THEN Own ELSE tuned
    /\ rx_continuous' = IF rx # NoOverride THEN operating_mode = "C" ELSE rx_continuous
    /\ window' = [window EXCEPT ![u] = [NoWindow EXCEPT !.mode = operating_mode,
                        !.restore = rx # NoOverride, !.since = since]]
    /\ Moves(u, "await",
             IF operating_mode = "A" /\ since >= ReceiveDelay1 THEN 0
             ELSE IF operating_mode = "A" THEN ReceiveDelay1 - since ELSE ReceiveDelay1)

\* transmit_data_blocking leaves TX, then _handle_rx_windows looks at the mode of the moment
TransmitDone(u) ==
    /\ Due(u, "tx")
    /\ \/ /\ rx_continuous \/ radio = "STANDBY"
          /\ HandleRxWindows(u, IF rx_continuous THEN "RX" ELSE "STANDBY", 0)
       \/ /\ ~rx_continuous /\ radio # "STANDBY"
          /\ radio' = "STANDBY"
          /\ Moves(u, "settle", StandbyTime)
          /\ UNCHANGED <<rx_continuous, tuned, window>>
    /\ UNCHANGED <<untouched, c_suspends, calls, clock>>

TransmitSettled(u) ==
    /\ Due(u, "settle")
    /\ HandleRxWindows(u, radio, StandbyTime)
    /\ UNCHANGED <<untouched, c_suspends, calls, clock>>

-----------------------------------------------------------------------------
(* The receive windows of an uplink.                                       *)

\* The window opens: _rx_window wakes a radio that is not listening, whatever it does
WindowOpens(u) ==
    /\ Due(u, "await")
    /\ \/ /\ window[u].mode = "A" /\ radio \in {"OFF", "TX"}
          /\ radio' = "STANDBY"
          /\ Moves(u, "startup_window", StandbyTime)
       \/ /\ window[u].mode = "C" \/ radio \in {"STANDBY", "RX"}
          /\ Moves(u, "probe", 1)
          /\ UNCHANGED radio
    /\ UNCHANGED <<untouched, rx_continuous, tuned, c_suspends, window, calls, clock>>

\* The next pass of _rx_window, after the start of the radio or a transmission
WindowGoesOn(u) ==
    /\ Due(u, "startup_window") \/ Due(u, "backoff")
    /\ Moves(u, "probe", 1)
    /\ UNCHANGED <<untouched, radioVars, c_suspends, window, calls, clock>>

\* Mutant of Restored: the window leaves its own parameters behind
RestoredNever(u) == tuned

\* The finally of both kinds of windows: _configure_radio for the override of the moment
Restored(u) == IF window[u].restore THEN Configured(tuned, rx) ELSE tuned

Continuity(u) == IF window[u].restore THEN operating_mode = "C" ELSE rx_continuous

\* A receive window of Class A after _rest_radio: on to RX2, or the end of send_uplink
WindowRested(u, continuous, reply) ==
    \/ /\ window[u].number = 1 /\ ~reply
       /\ window' = [window EXCEPT ![u].number = 2]
       /\ Moves(u, "await", IF window[u].since >= ReceiveDelay2 THEN 0
                            ELSE ReceiveDelay2 - window[u].since)
       /\ rx_continuous' = continuous
       /\ UNCHANGED <<tuned, c_suspends>>
    \/ /\ window[u].number = 2 \/ reply
       /\ tuned' = Restored(u)
       /\ rx_continuous' = IF window[u].restore THEN operating_mode = "C" ELSE continuous
       /\ Resume(u)

\* _rest_radio at the end of a window: back to continuous reception, or off
RestRadio(u, reply) ==
    \/ /\ radio = "TX"
       /\ WindowRested(u, rx_continuous, reply)
       /\ UNCHANGED radio
    \/ /\ radio # "TX" /\ operating_mode = "C" /\ ~c_stop /\ radio # "OFF"
       /\ radio' = "RX"
       /\ WindowRested(u, TRUE, reply)
    \/ /\ operating_mode = "C" /\ ~c_stop /\ radio = "OFF"
       /\ radio' = "STANDBY"
       /\ window' = [window EXCEPT ![u].reply = reply]
       /\ Moves(u, "startup_rest", StandbyTime)
       /\ UNCHANGED <<rx_continuous, tuned, c_suspends>>
    \/ /\ radio # "TX" /\ ~(operating_mode = "C" /\ ~c_stop)
       /\ radio' = "OFF"
       /\ WindowRested(u, rx_continuous, reply)

\* _receive_late_frame: the channel is busy at the deadline, the task waits until it is idle
WindowIsLate(u) ==
    /\ Due(u, "get") \/ (Due(u, "backoff") /\ window[u].mode = "A")
    /\ Moves(u, "late", 1)
    /\ UNCHANGED <<untouched, radioVars, c_suspends, window, calls, clock>>

\* A Class A window closes, with a frame, or without one after its deadline
WindowCloses(u) ==
    /\ window[u].mode = "A"
    /\ \/ pc[u] = "get" /\ left[u] > 0 /\ radio = "RX" /\ RestRadio(u, TRUE)
       \/ (Due(u, "late") \/ LastFrame(u)) /\ RestRadio(u, TRUE)
       \/ (Due(u, "get") \/ Due(u, "late") \/ Due(u, "backoff")) /\ RestRadio(u, FALSE)
    /\ UNCHANGED <<untouched, calls, clock>>

WindowRestedLate(u) ==
    /\ Due(u, "startup_rest")
    /\ radio' = "RX"
    /\ WindowRested(u, TRUE, window[u].reply)
    /\ UNCHANGED <<untouched, calls, clock>>

\* RX1 of a Class C device ends with a frame, which may have been in the queue before, or with
\* the RuntimeError of a radio that another uplink has put into TX: nothing but the cleanup
Rx1Ends(u) ==
    /\ window[u].mode = "C"
    /\ \/ pc[u] = "probe" /\ left[u] > 0
       \/ Due(u, "probe") /\ radio = "TX"
       \/ pc[u] = "get" /\ left[u] > 0 /\ radio = "RX"
       \/ Due(u, "late") \/ LastFrame(u)
    /\ tuned' = Restored(u)
    /\ rx_continuous' = Continuity(u)
    /\ Resume(u)
    /\ UNCHANGED <<untouched, radio, calls, clock>>

\* RX1 of a Class C device without a frame: back to continuous reception
Rx1TimesOut(u) ==
    /\ window[u].mode = "C"
    /\ Due(u, "get") \/ Due(u, "late")
    /\ tuned' = Restored(u)
    /\ \/ radio = "TX" /\ rx_continuous' = Continuity(u) /\ Resume(u) /\ UNCHANGED radio
       \/ /\ radio = "OFF"
          /\ radio' = "STANDBY" /\ rx_continuous' = Continuity(u)
          /\ window' = [window EXCEPT ![u].restore = FALSE]
          /\ Moves(u, "startup_resume", StandbyTime)
          /\ UNCHANGED c_suspends
       \/ /\ radio \in {"STANDBY", "RX"}
          /\ radio' = "RX" /\ rx_continuous' = TRUE /\ Resume(u)
    /\ UNCHANGED <<untouched, calls, clock>>

Rx1Resumed(u) ==
    /\ Due(u, "startup_resume")
    /\ radio' = "RX" /\ rx_continuous' = TRUE
    /\ Resume(u)
    /\ UNCHANGED <<untouched, tuned, calls, clock>>

-----------------------------------------------------------------------------
(* Multicast sessions.                                                     *)

Registered(s) == session[s].group # None /\ sessions[session[s].group] = s

\* cancel_session, in what it does to the MulticastSession and its cancel event
Cancelled(g, superseded) ==
    [s \in Sessions |->
        [session[s] EXCEPT !.superseded = IF sessions[g] = s THEN superseded ELSE @,
                           !.cancel = @ \/ cancels[g] = s]]

\* start_class_c_session: a session of the same group is superseded
StartSession(s, g, lead) ==
    /\ Called
    /\ pc[s] = "absent"
    /\ session' = [Cancelled(g, TRUE) EXCEPT ![s].group = g]
    /\ sessions' = [sessions EXCEPT ![g] = s]
    /\ cancels' = [cancels EXCEPT ![g] = s]
    /\ Moves(s, "arming", lead)
    /\ UNCHANGED <<modeVars, radioVars, flagVars, c_suspends, window>>

\* cancel_session; the task of the session is woken in a later turn of the asyncio loop, and the
\* clock does not wait for it
CancelSession(g) ==
    /\ sessions[g] # None
    /\ session' = Cancelled(g, FALSE)
    /\ sessions' = [sessions EXCEPT ![g] = None]
    /\ cancels' = [cancels EXCEPT ![g] = None]
    /\ UNCHANGED <<modeVars, radioVars, flagVars, c_suspends, c_waiters, pc, left, window, calls,
                   clock>>

\* Mutant of Forget: whatever session the group has by now
ForgetAny(s) ==
    /\ session' = [session EXCEPT ![s] = NoSession]
    /\ sessions' = [sessions EXCEPT ![session[s].group] = None]
    /\ cancels' = [cancels EXCEPT ![session[s].group] = None]

\* _forget_session, unless it was already replaced, at the end of the session's task
Forget(s) ==
    /\ session' = [session EXCEPT ![s] = NoSession]
    /\ \/ /\ Registered(s)
          /\ sessions' = [sessions EXCEPT ![session[s].group] = None]
          /\ cancels' = [cancels EXCEPT ![session[s].group] = None]
       \/ ~Registered(s) /\ UNCHANGED <<sessions, cancels>>

\* _run_session once its time has come: the session's parameters and Class C
SessionArms(s, length) ==
    /\ Due(s, "arming") /\ ~session[s].cancel
    /\ session' = [session EXCEPT ![s].mode = operating_mode, ![s].rx = rx]
    /\ Switch("C", Parameters[s], Goes(s, "running", length))
    /\ UNCHANGED <<sessions, cancels, c_suspends, window, calls, clock>>

\* cancelled before its time
SessionDropped(s) ==
    /\ pc[s] = "arming" /\ session[s].cancel
    /\ Forget(s)
    /\ Moves(s, "done", 0)
    /\ UNCHANGED <<modeVars, radioVars, flagVars, c_suspends, window, calls, clock>>

\* The end of _run_session, by its timeout or its cancellation
SessionEnds(s) ==
    /\ pc[s] = "running" /\ (left[s] = 0 \/ session[s].cancel)
    /\ \/ session[s].superseded
          /\ Moves(s, "done", 0)
          /\ UNCHANGED <<modeVars, radioVars, flagVars>>
       \/ ~session[s].superseded
          /\ Switch(session[s].mode, session[s].rx, Goes(s, "done", 0))
    /\ Forget(s)
    /\ UNCHANGED <<c_suspends, window, calls, clock>>

-----------------------------------------------------------------------------
(* The clock, and the specification.                                       *)

InUplink(u) == pc[u] # "client"
AtRest(t) == pc[t] \in {"client", "absent", "done"}

\* Queue.put in the tick before the timeout of t's get, or in the tick of its get_timeout(0):
\* t's event is then in the list of the next tick twice, __run_simulation takes two locks for
\* it, and t gives one back
FrameInLastTick(t) ==
    /\ clock = "runs"
    /\ pc[t] \in {"probe", "get"} /\ left[t] = 1 /\ radio = "RX"
    /\ clock' = "last move"
    /\ UNCHANGED <<modeVars, radioVars, flagVars, c_suspends, c_waiters, sessionVars, pc, left,
                   window, calls>>

\* A task that was cancelled is not awaited by the clock
Tick ==
    /\ clock # "stopped"
    /\ clock' = IF clock = "last move" THEN "stopped" ELSE clock
    /\ \A t \in Tasks : AtRest(t) \/ left[t] # 0 \/ (t \in Sessions /\ session[t].cancel)
    /\ \E t \in Tasks : left[t] > 0
    /\ left' = [t \in Tasks |-> IF left[t] > 0 THEN left[t] - 1 ELSE left[t]]
    /\ window' = [u \in Uplinkers |->
                    IF InUplink(u) /\ pc[u] \notin {"startup_tx", "tx", "settle"}
                        /\ window[u].mode = "A" /\ window[u].number = 1
                        /\ window[u].since < ReceiveDelay2
                      THEN [window[u] EXCEPT !.since = @ + 1] ELSE window[u]]
    /\ UNCHANGED <<modeVars, radioVars, flagVars, c_suspends, c_waiters, sessionVars, pc, calls>>

LoopStep(l) == LoopGoesOn(l) \/ LoopListens(l) \/ ReceiveDataWithin(l) \/ ReceiveAfterStartup(l)

UplinkStep(u) ==
    \/ TransmitAfterStartup(u) \/ TransmitDone(u) \/ TransmitSettled(u)
    \/ WindowOpens(u) \/ WindowGoesOn(u) \/ ReceiveDataWithin(u) \/ ReceiveAfterStartup(u)
    \/ WindowIsLate(u) \/ WindowCloses(u) \/ WindowRestedLate(u)
    \/ Rx1Ends(u) \/ Rx1TimesOut(u) \/ Rx1Resumed(u)

SessionStep(s) ==
    (\E length \in Lengths : SessionArms(s, length)) \/ SessionDropped(s) \/ SessionEnds(s)

\* Calls that other tasks make
Call ==
    \/ \E u \in Uplinkers : SendUplink(u)
    \/ \E mode \in Switches : SwitchMode(mode)
    \/ \E s \in Sessions, g \in Groups, lead \in Leads : StartSession(s, g, lead)
    \/ \E g \in Groups : CancelSession(g)

Next ==
    \/ \E l \in Loops : LoopStep(l)
    \/ \E u \in Uplinkers : UplinkStep(u)
    \/ \E s \in Sessions : SessionStep(s)
    \/ Call
    \/ \E t \in Tasks : FrameInLastTick(t)
    \/ Tick

Spec == Init /\ [][Next]_vars

\* Whoever is due runs, and the clock moves when nobody is, until a frame comes in the last tick
\* of a wait; nobody has to make a call
Fairness ==
    /\ \A l \in Loops : WF_vars(LoopStep(l))
    /\ \A u \in Uplinkers : WF_vars(UplinkStep(u))
    /\ \A s \in Sessions : WF_vars(SessionStep(s))
    /\ WF_vars(Tick)

FairSpec == Spec /\ Fairness

-----------------------------------------------------------------------------
(* Properties.                                                             *)

\* The loop is held off exactly while uplinks are under way, whatever ends them (a frame, a
\* timeout, a refused transmission or a RuntimeError in RX1), and the radio never transmits
\* unannounced: the receive() at the head of the loop, outside of its try, would raise and end
\* the program (device.py:511-520, 763-776, 821-822).
SuspendsMatchUplinks ==
    /\ c_suspends = Cardinality({u \in Uplinkers : InUplink(u)})
    /\ radio = "TX" => c_suspends > 0

\* No loop idles for good: one that waits is registered for the next resume while an uplink is
\* under way, or is scheduled for the next tick, or has been stopped (device.py:771-797).
NoLoopForgotten ==
    \A l \in Loops : pc[l] = "idle" =>
        \/ left[l] \in {0, 1}
        \/ l \in c_waiters /\ c_suspends > 0

\* The reply to an uplink is for its window: no receive loop, not even one that was stopped and
\* restarted in the meantime, still waits for the radio's queue when a window does.  A poll ends
\* before RX1 opens, and no new one begins (device.py:159-163, 816-826).
RepliesGoToTheWindow ==
    \A u \in Uplinkers, l \in Loops : ~(pc[u] = "get" /\ pc[l] = "get")

\* The registered session of a group is driven by a task that still runs and is not cancelled,
\* and every other session's task is on its way out: neither a replacement nor a late end of the
\* replaced session loses or keeps a registration (device.py:1115-1158, 1262-1266).
SessionsAccounted ==
    /\ sessions = cancels
    /\ \A s \in Sessions :
        pc[s] \in {"arming", "running"} => (Registered(s) <=> ~session[s].cancel)
    /\ \A g \in Groups : sessions[g] # None => pc[sessions[g]] \in {"arming", "running"}

\* Outside of the windows of an uplink the receiver has the data rate of the session in force,
\* or the device's own, also when the session began or ended during a window
\* (device.py:676-695, 703-723).
TunedOutsideWindows ==
    (\A u \in Uplinkers : ~window[u].restore) => tuned[1] = Configured(tuned, rx)[1]

\* A device that stays in Class C, and does not keep sending, gets back to continuous reception:
\* a frame of the session may come at any time (device.py:642-657, 799-822).  Unless that frame
\* comes in the last tick of a wait and stops the clock (queue.py:53).
ClassCListens ==
    (operating_mode = "C" /\ c_suspends = 0)
        ~> (radio = "RX" \/ operating_mode # "C" \/ c_suspends > 0 \/ clock = "stopped")

\* Once its sessions are over the device is back where it was: a session "reverts to the previous
\* operating mode and RX configuration" (device.py:1055-1056).
SessionsRevert ==
    (\A s \in Sessions : pc[s] \in {"absent", "done"})
        => operating_mode = "A" /\ rx = NoOverride

=============================================================================
