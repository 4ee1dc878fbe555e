--------------------------- MODULE FragTransport ---------------------------
(***************************************************************************)
(* Both ends of the fragmented data block transport, for one device        *)
(* (simulator/lorawan/fuota/frag_transport.py), with the uplink queue of   *)
(* the device's package (device_app.py), the loop that drains it           *)
(* (device_stack.py) and the choice of the network server's next downlink  *)
(* (network_server.py).                                                    *)
(*                                                                         *)
(* Uplinks, the replies to them and multicast fragments may each be lost.  *)
(* There is no clock: a delay ends at some later step, and a queue that is *)
(* sorted by due times is a sequence in that order.  Data blocks are named *)
(* by the sessions that carry them.                                        *)
(***************************************************************************)
EXTENDS Integers, FiniteSets, Sequences, SequencesExt

CONSTANTS
    Plan,              \* the sessions that are created, in order: FragIndex and AckReception
    Keyed,             \* whether the device has a DataBlockIntKey
    NbFrag,            \* fragments of a block
    LastFrag,          \* bound on the fragments sent for a session, coded ones included
    Lmax,              \* uncoded fragments a device can do without
    MaxCommandRetries, MaxAckRetries,
    MaxCalls,          \* bound on the calls of the server that make a request or a session
    MaxScheduled,      \* bound on the fragments that wait for the multicast group
    NbApps, App        \* the server's applications, and this one's place among them

Sessions == 1 .. Len(Plan)
Index(s) == Plan[s].idx
\* An answer without a FragIndex counts for 0
Indexes  == {Index(s) : s \in Sessions} \cup {0}
Uncoded  == 1 .. NbFrag

ASSUME FragAssumption ==
    /\ Plan \in Seq([idx : 0 .. 3, ack : BOOLEAN])
    /\ Keyed \in BOOLEAN
    /\ {NbFrag, LastFrag, NbApps} \subseteq Nat \ {0}
    /\ {Lmax, MaxCommandRetries, MaxAckRetries, MaxCalls, MaxScheduled} \subseteq Nat
    /\ App \in 0 .. NbApps - 1

VARIABLES
    server,     \* the package and its queue at the network server
    created,    \* sessions of the plan created so far
    requests,   \* other requests made so far
    multicast,  \* fragments scheduled on the multicast group
    air,        \* what is between device and server: an uplink, or the reply to one
    dev,        \* sessions of the device, by FragIndex
    last_cnt,   \* SessionCntPrev
    images,     \* received_images: whose block the device's application holds
    uplinks,    \* _pending_uplinks in the order of ready_at
    ready,      \* how many of them are due
    loops,      \* _block_received_loop of each session
    sent        \* times that each session's FragDataBlockReceivedReq was transmitted

serverVars == <<server, created, requests, multicast>>
queueVars  == <<uplinks, ready>>
deviceVars == <<dev, last_cnt, images, uplinks, ready, loops>>
vars       == <<serverVars, air, deviceVars, sent>>

-----------------------------------------------------------------------------
(***************************************************************************)
(* Messages.  The field `session' of a deletion, of a fragment and of a    *)
(* block's acknowledgement is not transmitted: it says which session the   *)
(* sender meant.                                                           *)
(***************************************************************************)
SetupReq(s)              == [cid |-> "setup", idx |-> Index(s), session |-> s]
StatusReq(i, everybody)  == [cid |-> "status", idx |-> i, participants |-> everybody]
DeleteReq(i, s)          == [cid |-> "delete", idx |-> i, session |-> s]
PackageVersionReq        == [cid |-> "version", idx |-> 0]
BlockReceivedAns(i)      == [cid |-> "received", idx |-> i]
DataFragment(s, n)       == [cid |-> "fragment", idx |-> Index(s), session |-> s, n |-> n]
Nothing                  == [cid |-> "none"]

SetupAns(i)              == [cid |-> "setup", idx |-> i]
StatusAns(i, gone, done, bad) ==
    [cid |-> "status", idx |-> i, no_session |-> gone, none_missing |-> done, mic_error |-> bad]
DeleteAns(i)             == [cid |-> "delete", idx |-> i]
PackageVersionAns        == [cid |-> "version", idx |-> 0]
BlockReceivedReq(s, bad) ==
    [cid |-> "received", idx |-> Index(s), session |-> s, mic_error |-> bad]

\* The answer that a session does not exist has no room for the index
Decoded(m) == IF m.cid = "status" /\ m.no_session THEN [m EXCEPT !.idx = 0] ELSE m

NoServerSession == [session |-> 0, completed |-> FALSE, mic_error |-> FALSE, highest_n_sent |-> 0]
NoReport    == [no_session |-> TRUE, none_missing |-> FALSE, mic_error |-> FALSE]
NotInFlight == [command |-> Nothing, attempts |-> 0]
NoSession   == [session |-> 0, heard |-> {}, rank |-> 0, mixed |-> FALSE, state |-> "none",
                mic |-> "none"]

Init ==
    /\ server = [sessions |-> [i \in Indexes |-> NoServerSession],
                 latest_status |-> [i \in Indexes |-> NoReport],
                 pending |-> <<>>, in_flight |-> NotInFlight,
                 downlinks |-> <<>>, cursor |-> 0]
    /\ created = 0 /\ requests = 0 /\ multicast = <<>>
    /\ air = [to |-> "nobody", message |-> Nothing]
    /\ dev = [i \in Indexes |-> NoSession]
    /\ last_cnt = [i \in Indexes |-> 0]
    /\ images = [i \in Indexes |-> 0]
    /\ uplinks = <<>> /\ ready = 0
    /\ loops = [s \in Sessions |-> [at |-> "none", attempts |-> 0, ack_pending |-> FALSE,
                                mic_error |-> FALSE]]
    /\ sent = [s \in Sessions |-> 0]

-----------------------------------------------------------------------------
(***************************************************************************)
(* The server's calls.                                                     *)
(***************************************************************************)
Queued(v, c) == [v EXCEPT !.pending = Append(@, c)]

\* create_session: replaces the session of that index, but not the last status report
CreateSession ==
    /\ created < Len(Plan) /\ created + requests < MaxCalls
    /\ created' = created + 1
    /\ LET s == created + 1
       IN server' = Queued([server EXCEPT !.sessions[Index(s)] = [NoServerSession EXCEPT !.session = s]],
                           SetupReq(s))
    /\ UNCHANGED <<requests, multicast, air, deviceVars, sent>>

\* request_status, delete_session, request_package_version and send_fragment_unicast
Request ==
    /\ created + requests < MaxCalls
    /\ requests' = requests + 1
    /\ UNCHANGED <<created, multicast, air, deviceVars, sent>>

RequestStatus(i) ==
    Request /\ \E p \in BOOLEAN : server' = Queued(server, StatusReq(i, p))

DeleteSession(i) ==
    Request /\ server' = Queued(server, DeleteReq(i, server.sessions[i].session))

RequestPackageVersion ==
    Request /\ server' = Queued(server, PackageVersionReq)

SendFragmentUnicast(i, n) ==
    /\ server.sessions[i].session # 0
    /\ Request
    /\ server' = [server EXCEPT !.downlinks = Append(@, DataFragment(server.sessions[i].session, n)),
                                !.sessions[i].highest_n_sent = Max({@, n})]

\* broadcast_fragments, from where the last call stopped
BroadcastFragment(i) ==
    LET v == server.sessions[i]
    IN /\ v.session # 0
       /\ v.highest_n_sent < LastFrag /\ Len(multicast) < MaxScheduled
       /\ server' = [server EXCEPT !.sessions[i].highest_n_sent = @ + 1]
       /\ multicast' = Append(multicast, DataFragment(v.session, v.highest_n_sent + 1))
       /\ UNCHANGED <<created, requests, air, deviceVars, sent>>

-----------------------------------------------------------------------------
(***************************************************************************)
(* What the server knows of the device, what it makes of an uplink and     *)
(* which downlink it has for it.                                           *)
(***************************************************************************)
\* Mutant of ReportsReassembled: an answer that there is no session counts
ReportsNothingMissing(r) == r.none_missing

ReportsReassembled(r) == ~r.no_session /\ r.none_missing

Reassembled(v, i) == v.sessions[i].completed \/ ReportsReassembled(v.latest_status[i])
MICError(v, i) ==
    \/ v.sessions[i].mic_error
    \/ ReportsReassembled(v.latest_status[i]) /\ v.latest_status[i].mic_error
Complete(v, i) == Reassembled(v, i) /\ ~MICError(v, i)

\* An answer retires the command in flight if both have the same CID and FragIndex
Retired(v, m) ==
    IF v.in_flight.command.cid = m.cid /\ v.in_flight.command.idx = m.idx
    THEN [v EXCEPT !.in_flight = NotInFlight] ELSE v

HandleStatusAns(v, m) ==
    [v EXCEPT !.latest_status[m.idx] = [no_session |-> m.no_session,
                                        none_missing |-> m.none_missing,
                                        mic_error |-> m.mic_error]]
\* The answer is queued in any case and sent once
HandleBlockReceived(v, m) ==
    Queued(IF v.sessions[m.idx].session = 0 THEN v
           ELSE [v EXCEPT !.sessions[m.idx].completed = TRUE,
                          !.sessions[m.idx].mic_error = @ \/ m.mic_error],
           BlockReceivedAns(m.idx))

\* on_uplink.  The answers to a setup and to a deletion are also kept, for a count that has no part
\* in the exchange.
OnUplink(v, m) ==
    CASE m.cid = "status"   -> HandleStatusAns(Retired(v, m), m)
      [] m.cid = "received" -> HandleBlockReceived(v, m)
      [] m.cid = "none"     -> v
      [] OTHER              -> Retired(v, m)

\* A device that has the block may stay silent
StillWaiting(v, c) == c.cid # "none" /\ ~(c.cid = "status" /\ Reassembled(v, c.idx))

NextPending(v) ==
    IF v.pending = <<>> THEN [state |-> v, out |-> Nothing]
    ELSE LET c == Head(v.pending)
         IN [state |-> [v EXCEPT !.pending = Tail(@),
                                 !.in_flight = IF c.cid = "received" THEN NotInFlight
                                               ELSE [command |-> c, attempts |-> 1]],
             out   |-> c]

\* get_downlink: the command in flight again, or the next one once it is given up
GetDownlink(v) ==
    IF StillWaiting(v, v.in_flight.command) /\ v.in_flight.attempts <= MaxCommandRetries
    THEN [state |-> [v EXCEPT !.in_flight.attempts = @ + 1], out |-> v.in_flight.command]
    ELSE NextPending([v EXCEPT !.in_flight = NotInFlight])

\* The application of a set that comes first after the one served last
FirstServed(v, apps) ==
    LET turn(a) == (a - v.cursor) % NbApps
    IN CHOOSE a \in apps : \A b \in apps : turn(a) <= turn(b)

\* Mutant of Served: the cursor stays where it is
ServedWithoutATurn(v, a) == v

Served(v, a) == [v EXCEPT !.cursor = (a + 1) % NbApps]

\* _build_downlink, with the other applications that have something to send.  This one is asked
\* only if none of them comes before it.
BuildDownlink(v, others) ==
    IF v.downlinks # <<>>
    THEN [state |-> [v EXCEPT !.downlinks = Tail(@)], out |-> Head(v.downlinks)]
    ELSE LET first == FirstServed(v, others \cup {App})
             mine  == GetDownlink(v)
         IN IF first # App THEN [state |-> Served(v, first), out |-> Nothing]
            ELSE IF mine.out # Nothing THEN [mine EXCEPT !.state = Served(@, App)]
            ELSE IF others = {} THEN mine
            ELSE [mine EXCEPT !.state = Served(@, FirstServed(v, others))]

-----------------------------------------------------------------------------
(***************************************************************************)
(* The device's queue of uplinks.                                          *)
(***************************************************************************)
\* queue_uplink without a delay: behind what is due, before what is not
QueueNow(m) ==
    /\ uplinks' = InsertAt(uplinks, ready + 1, m)
    /\ ready' = ready + 1

\* With a random delay
QueueLater(m) ==
    /\ \E p \in ready + 1 .. Len(uplinks) + 1 : uplinks' = InsertAt(uplinks, p, m)
    /\ UNCHANGED ready

\* The next delay is over
DelayEnds ==
    /\ ready < Len(uplinks)
    /\ ready' = ready + 1
    /\ UNCHANGED <<serverVars, air, dev, last_cnt, images, uplinks, loops, sent>>

\* A session's request to be acknowledged, in the queue
Copies(s) == {k \in DOMAIN uplinks : uplinks[k].cid = "received" /\ uplinks[k].session = s}

-----------------------------------------------------------------------------
(***************************************************************************)
(* The device's handlers.                                                  *)
(***************************************************************************)
\* Mutant of Accepts: the last SessionCnt is accepted once more
AcceptsAgain(c) == c.session >= last_cnt[c.idx]

\* _validate_setup, for a device whose limits do not refuse the session
Accepts(c) == c.session > last_cnt[c.idx]

\* An accepted setup replaces the session in the table; the loop of the old one goes on
HandleSetup(c) ==
    /\ dev' = IF Accepts(c)
              THEN [dev EXCEPT ![c.idx] = [NoSession EXCEPT !.session = c.session, !.state = "receiving"]]
              ELSE dev
    /\ QueueNow(SetupAns(c.idx))
    /\ UNCHANGED <<last_cnt, images, loops>>

\* The rank after fragment n: coded fragments may or may not be independent of the others
Ranks(d, n) ==
    LET heard == d.heard \cup {n}
    IN {r \in {d.rank, d.rank + 1} : /\ Cardinality(heard \cap Uncoded) <= r
                                     /\ r <= Min({NbFrag, Cardinality(heard)})}

\* _complete_session, the stack's _on_block_received, and the first steps of
\* _block_received_loop, which is started for a session with AckReception
CompleteSession(i, d) ==
    LET s   == d.session
        mic == IF ~Keyed THEN "unchecked" ELSE IF d.mixed THEN "failed" ELSE "ok"
    IN /\ dev' = [dev EXCEPT ![i] = [d EXCEPT !.state = "complete", !.mic = mic]]
       /\ images' = [images EXCEPT ![i] = IF mic = "failed" THEN @ ELSE IF d.mixed THEN -1 ELSE s]
       /\ IF Plan[s].ack
          THEN /\ loops' = [loops EXCEPT ![s].at = "queued", ![s].ack_pending = TRUE,
                                         ![s].mic_error = mic = "failed"]
               /\ QueueLater(BlockReceivedReq(s, mic = "failed"))
          ELSE UNCHANGED <<loops, queueVars>>

HandleDataFragment(f) ==
    LET d == dev[f.idx]
    IN \/ /\ d.state # "receiving"
          /\ UNCHANGED <<dev, last_cnt, images, loops, queueVars>>
       \/ /\ d.state = "receiving"
          /\ last_cnt' = [last_cnt EXCEPT ![f.idx] = d.session]
          /\ \E r \in Ranks(d, f.n) :
                LET fed == [d EXCEPT !.heard = @ \cup {f.n}, !.rank = r,
                                     !.mixed = @ \/ f.session # d.session]
                    too_many_lost == f.n > NbFrag /\ Cardinality(Uncoded \ fed.heard) > Lmax
                IN IF r = NbFrag THEN CompleteSession(f.idx, fed)
                   ELSE /\ dev' = [dev EXCEPT ![f.idx] =
                                IF too_many_lost THEN [fed EXCEPT !.state = "memory_error"] ELSE fed]
                        /\ UNCHANGED <<images, loops, queueVars>>

HandleStatusRequest(c) ==
    LET d    == dev[c.idx]
        done == d.state = "complete"
    IN /\ IF done /\ ~c.participants THEN UNCHANGED queueVars
          ELSE QueueLater(IF d.session = 0 THEN StatusAns(c.idx, TRUE, TRUE, FALSE)
                          ELSE StatusAns(c.idx, FALSE, done, done /\ d.mic = "failed"))
       /\ UNCHANGED <<dev, last_cnt, images, loops>>

HandleDelete(c) ==
    LET s == dev[c.idx].session
    IN /\ dev' = [dev EXCEPT ![c.idx] = NoSession]
       /\ loops' = [t \in Sessions |-> IF t = s THEN [loops[t] EXCEPT !.ack_pending = FALSE]
                                       ELSE loops[t]]
       /\ QueueNow(DeleteAns(c.idx))
       /\ UNCHANGED <<last_cnt, images>>

\* Only the session in the table hears of the acknowledgement
HandleBlockReceivedAns(c) ==
    LET s == dev[c.idx].session
    IN /\ loops' = [t \in Sessions |-> IF t = s THEN [loops[t] EXCEPT !.ack_pending = FALSE]
                                       ELSE loops[t]]
       /\ UNCHANGED <<dev, last_cnt, images, queueVars>>

HandlePackageVersionReq ==
    /\ QueueNow(PackageVersionAns)
    /\ UNCHANGED <<dev, last_cnt, images, loops>>

\* on_downlink
OnDownlink(c) ==
    \/ c.cid = "fragment" /\ HandleDataFragment(c)
    \/ c.cid = "setup"    /\ HandleSetup(c)
    \/ c.cid = "status"   /\ HandleStatusRequest(c)
    \/ c.cid = "delete"   /\ HandleDelete(c)
    \/ c.cid = "received" /\ HandleBlockReceivedAns(c)
    \/ c.cid = "version"  /\ HandlePackageVersionReq

-----------------------------------------------------------------------------
(***************************************************************************)
(* _block_received_loop, after it has queued a request.                    *)
(***************************************************************************)
\* The session is no longer waiting for its answer: a copy that was not sent is cancelled
LoopStops(s) ==
    /\ loops[s].at \in {"queued", "spacing"}
    /\ ~loops[s].ack_pending
    /\ loops' = [loops EXCEPT ![s].at = "over"]
    /\ IF Copies(s) = {} \/ loops[s].at = "spacing" THEN UNCHANGED queueVars
       ELSE LET k == Min(Copies(s))
            IN /\ uplinks' = RemoveAt(uplinks, k)
               /\ ready' = IF k <= ready THEN ready - 1 ELSE ready
    /\ UNCHANGED <<serverVars, air, dev, last_cnt, images, sent>>

\* Mutant of LoopNoticesSending: the clock is waited for, not the radio
LoopAssumesSending(s) ==
    /\ loops[s].at = "queued" /\ loops[s].ack_pending
    /\ loops' = [loops EXCEPT ![s].at = "spacing", ![s].attempts = @ + 1]
    /\ UNCHANGED <<serverVars, air, dev, last_cnt, images, queueVars, sent>>

\* The request was transmitted: an attempt is spent
LoopNoticesSending(s) ==
    /\ loops[s].at = "queued" /\ loops[s].ack_pending
    /\ Copies(s) = {}
    /\ loops' = [loops EXCEPT ![s].at = "spacing", ![s].attempts = @ + 1]
    /\ UNCHANGED <<serverVars, air, dev, last_cnt, images, queueVars, sent>>

\* The interval is over: once more, or no more
LoopRetries(s) ==
    /\ loops[s].at = "spacing" /\ loops[s].ack_pending
    /\ IF loops[s].attempts <= MaxAckRetries
       THEN /\ loops' = [loops EXCEPT ![s].at = "queued"]
            /\ QueueNow(BlockReceivedReq(s, loops[s].mic_error))
       ELSE /\ loops' = [loops EXCEPT ![s].at = "gave_up"]
            /\ UNCHANGED queueVars
    /\ UNCHANGED <<serverVars, air, dev, last_cnt, images, sent>>

-----------------------------------------------------------------------------
(***************************************************************************)
(* The exchange of an uplink and its reply, and the multicast group.       *)
(***************************************************************************)
\* A slot of the stack.  It is skipped while a multicast session is open; here every fragment has a
\* session of its own.
Slot(m) ==
    /\ air.to = "nobody"
    /\ air' = [to |-> "server", message |-> m]
    /\ UNCHANGED <<serverVars, dev, last_cnt, images, loops>>

\* pop_pending_uplink
SendAnswer ==
    /\ ready > 0
    /\ Slot(Head(uplinks))
    /\ uplinks' = Tail(uplinks) /\ ready' = ready - 1
    /\ sent' = [s \in Sessions |-> IF 1 \in Copies(s) THEN sent[s] + 1 ELSE sent[s]]

\* Another package has an answer, or it is only the periodic uplink
SendOther ==
    /\ Slot(Nothing)
    /\ UNCHANGED <<queueVars, sent>>

\* handle_uplink
ReceiveUplink(others) ==
    /\ air.to = "server"
    /\ LET b == BuildDownlink(OnUplink(server, Decoded(air.message)), others)
       IN /\ server' = b.state
          /\ air' = [to |-> IF b.out = Nothing THEN "nobody" ELSE "device", message |-> b.out]
    /\ UNCHANGED <<created, requests, multicast, deviceVars, sent>>

ReceiveDownlink ==
    /\ air.to = "device"
    /\ OnDownlink(air.message)
    /\ air' = [to |-> "nobody", message |-> Nothing]
    /\ UNCHANGED <<serverVars, sent>>

\* A collision, or a reply that the gateway skips
Lose ==
    /\ air.to # "nobody"
    /\ air' = [to |-> "nobody", message |-> Nothing]
    /\ UNCHANGED <<serverVars, deviceVars, sent>>

HearFragment ==
    /\ multicast # <<>>
    /\ multicast' = Tail(multicast)
    /\ OnDownlink(Head(multicast))
    /\ UNCHANGED <<server, created, requests, air, sent>>

MissFragment ==
    /\ multicast # <<>>
    /\ multicast' = Tail(multicast)
    /\ UNCHANGED <<server, created, requests, air, deviceVars, sent>>

-----------------------------------------------------------------------------
OtherApps == (0 .. NbApps - 1) \ {App}

Next ==
    \/ CreateSession
    \/ \E i \in Indexes : RequestStatus(i) \/ DeleteSession(i) \/ BroadcastFragment(i)
    \/ \E i \in Indexes, n \in 1 .. LastFrag : SendFragmentUnicast(i, n)
    \/ RequestPackageVersion
    \/ DelayEnds
    \/ \E s \in Sessions : LoopStops(s) \/ LoopNoticesSending(s) \/ LoopRetries(s)
    \/ SendAnswer \/ SendOther
    \/ \E others \in SUBSET OtherApps : ReceiveUplink(others)
    \/ ReceiveDownlink \/ Lose
    \/ HearFragment \/ MissFragment

Spec == Init /\ [][Next]_vars

\* Delays and the loop's polls end, the stack keeps sending, its uplinks are not for ever those of
\* other packages, and now and then one gets through
Fairness ==
    /\ WF_vars(DelayEnds)
    /\ \A s \in Sessions : WF_vars(LoopStops(s) \/ LoopNoticesSending(s) \/ LoopRetries(s))
    /\ WF_vars(SendAnswer \/ SendOther) /\ SF_vars(SendAnswer)
    /\ WF_vars(ReceiveDownlink \/ Lose)
    /\ SF_vars(\E others \in SUBSET OtherApps : ReceiveUplink(others))

FairSpec == Spec /\ Fairness

-----------------------------------------------------------------------------
(***************************************************************************)
(* Properties.                                                             *)
(***************************************************************************)
\* devices_complete is the set of devices "known to hold a usable data block".  Whatever was lost,
\* sent twice or answered late, and although the answer for a session that does not exist comes
\* without an index, the device's application then has a block that was sent under that FragIndex:
\* the session's own, if the index is used for the first time.
CompleteMeansImage ==
    \A i \in Indexes :
        LET s == server.sessions[i].session
        IN Complete(server, i) => /\ images[i] # 0
                                  /\ (\A t \in 1 .. s - 1 : Index(t) # i) => images[i] = s

\* Fragments that a device has collected are not lost to a command that was sent again: only to
\* a newer session, or to a deletion that was asked for after theirs was created
\* (_validate_setup, _handle_delete, get_downlink).
ProgressKept ==
    [][\A i \in Indexes :
          dev[i].heard # {} =>
             \/ dev'[i].session = dev[i].session /\ dev[i].heard \subseteq dev'[i].heard
             \/ dev'[i].session > dev[i].session
             \/ air.message.cid = "delete" /\ air.message.session >= dev[i].session]_vars

\* _block_received_loop: "An attempt is only spent on a transmission that actually happened", there
\* is at most one copy of the request in the queue, and the limit on retries holds.
AttemptsAreTransmissions ==
    \A s \in Sessions :
        /\ Cardinality(Copies(s)) <= 1
        /\ loops[s].attempts <= sent[s] /\ sent[s] <= MaxAckRetries + 1
        /\ loops[s].at = "gave_up" => sent[s] = MaxAckRetries + 1

\* In the end every command of the server is answered or given up, and every session has stopped
\* asking for its acknowledgement: neither the other packages' turns nor silent devices keep one
\* waiting for ever (_applications_round_robin, get_downlink, _block_received_loop).
ExchangesEnd ==
    <>[](/\ server.pending = <<>> /\ server.in_flight = NotInFlight
         /\ \A s \in Sessions : loops[s].at \notin {"queued", "spacing"})
=============================================================================
