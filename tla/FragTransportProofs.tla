------------------------ MODULE FragTransportProofs ------------------------
(***************************************************************************)
(* The safety of the fragmented transport, for any plan of sessions, any   *)
(* number of fragments and retries and any other applications.             *)
(***************************************************************************)
EXTENDS FragTransport, FiniteSetTheorems, SequenceTheorems, TLAPS

-----------------------------------------------------------------------------
(* Types.                                                                  *)

Numbers   == 0 .. Len(Plan)    \* sessions, and 0 for none
Commands  == {SetupReq(s) : s \in Sessions} \cup {StatusReq(i, p) : i \in Indexes, p \in BOOLEAN}
                \cup {DeleteReq(i, s) : i \in Indexes, s \in Numbers} \cup {PackageVersionReq}
                \cup {BlockReceivedAns(i) : i \in Indexes}
Fragments == {DataFragment(s, n) : s \in Sessions, n \in 1 .. LastFrag}
Answers   == {SetupAns(i) : i \in Indexes} \cup {DeleteAns(i) : i \in Indexes}
                \cup {StatusAns(i, gone, done, bad) : i \in Indexes, gone \in BOOLEAN,
                                                      done \in BOOLEAN, bad \in BOOLEAN}
                \cup {PackageVersionAns} \cup {BlockReceivedReq(s, bad) : s \in Sessions, bad \in BOOLEAN}

ServerSessions == [session : Numbers, completed : BOOLEAN, mic_error : BOOLEAN, highest_n_sent : Nat]
Reports        == [no_session : BOOLEAN, none_missing : BOOLEAN, mic_error : BOOLEAN]
InFlights      == [command : Commands \cup {Nothing}, attempts : Nat]
DeviceSessions == [session : Numbers, heard : SUBSET (1 .. LastFrag), rank : Nat, mixed : BOOLEAN,
                   state : {"none", "receiving", "complete", "memory_error"},
                   mic : {"none", "unchecked", "ok", "failed"}]
LoopStates     == [at : {"none", "queued", "spacing", "over", "gave_up"}, attempts : Nat,
                   ack_pending : BOOLEAN, mic_error : BOOLEAN]

\* A state of the server's package.  Whose turn it is has no part in these proofs.
IsServer(v) ==
    v \in [sessions : [Indexes -> ServerSessions], latest_status : [Indexes -> Reports],
           pending : Seq(Commands), in_flight : InFlights, downlinks : Seq(Fragments),
           cursor : {v.cursor}]

ServerTyped == IsServer(server) /\ created \in Numbers /\ multicast \in Seq(Fragments)

AirTyped ==
    /\ air \in [to : {"nobody", "server", "device"},
                message : Commands \cup Fragments \cup Answers \cup {Nothing}]
    /\ air.to = "server" => air.message \in Answers \cup {Nothing}
    /\ air.to = "device" => air.message \in Commands \cup Fragments

QueueTyped == uplinks \in Seq(Answers) /\ ready \in 0 .. Len(uplinks)

DeviceTyped ==
    /\ dev \in [Indexes -> DeviceSessions]
    /\ last_cnt \in [Indexes -> Nat] /\ images \in [Indexes -> Int]
    /\ loops \in [Sessions -> LoopStates] /\ sent \in [Sessions -> Nat]

-----------------------------------------------------------------------------
(* The inductive invariant.                                                *)

\* A loop, the copies of its request and what was sent of it
LoopCounts(s) ==
    /\ \A j, k \in Copies(s) : j = k
    /\ loops[s].at # "queued" => Copies(s) = {}
    /\ loops[s].at = "none" => loops[s].attempts = 0 /\ sent[s] = 0
    /\ loops[s].at = "queued" =>
        /\ loops[s].attempts <= MaxAckRetries
        /\ IF Copies(s) = {} THEN sent[s] = loops[s].attempts + 1 ELSE sent[s] = loops[s].attempts
    /\ loops[s].at = "spacing" => loops[s].attempts = sent[s] /\ sent[s] <= MaxAckRetries + 1
    /\ loops[s].at = "over" => loops[s].attempts <= sent[s] /\ sent[s] <= MaxAckRetries + 1
    /\ loops[s].at = "gave_up" => loops[s].attempts = sent[s] /\ sent[s] = MaxAckRetries + 1

AttemptsCounted == \A s \in Sessions : LoopCounts(s)

\* A session that has completed is never received again
CompletesOnce ==
    /\ \A s \in Sessions : loops[s].at # "none" => s <= last_cnt[Index(s)]
    /\ \A i \in Indexes :
        /\ dev[i].state = "receiving" =>
            /\ dev[i].session # 0 /\ loops[dev[i].session].at = "none"
            /\ last_cnt[i] <= dev[i].session
        /\ dev[i].heard # {} => dev[i].session <= last_cnt[i]

\* The sessions created under an index
Created(i) == {t \in 1 .. created : Index(t) = i}
Twice(i)   == \E t, u \in Created(i) : t # u

\* What is on its way belongs to sessions that were created, and the server has the last of them
SessionsKnown ==
    /\ \A t \in 1 .. created : t <= server.sessions[Index(t)].session
    /\ \A i \in Indexes : /\ server.sessions[i].session \in Created(i) \cup {0}
                          /\ dev[i].session \in Created(i) \cup {0}
    /\ \A k \in DOMAIN server.downlinks : server.downlinks[k].session \in 1 .. created
    /\ \A k \in DOMAIN multicast : multicast[k].session \in 1 .. created
    /\ air.to = "device" /\ air.message.cid = "fragment" => air.message.session \in 1 .. created

\* The commands in the order in which they are sent: the one in flight, then the others
CommandAt(v, k) == IF k = 0 THEN v.in_flight.command ELSE v.pending[k]
Line(v) == 0 .. Len(v.pending)

\* A deletion comes after the setups of the sessions that it is meant for: those of the sessions
\* that the device has by then
SetupsKnown(v, bound) ==
    \A k \in Line(v) : CommandAt(v, k).cid = "setup" => CommandAt(v, k).session <= bound

DeletionMeant(v, sessions, k) ==
    /\ sessions[CommandAt(v, k).idx].session <= CommandAt(v, k).session
    /\ \A j \in Line(v) :
        j < k /\ CommandAt(v, j).cid = "setup" /\ CommandAt(v, j).idx = CommandAt(v, k).idx
            => CommandAt(v, j).session <= CommandAt(v, k).session

DeletionsMeant(v, sessions) ==
    \A k \in Line(v) : CommandAt(v, k).cid = "delete" => DeletionMeant(v, sessions, k)

CommandsOrdered ==
    /\ SetupsKnown(server, created) /\ DeletionsMeant(server, dev)
    /\ air.to = "device" /\ air.message.cid \in {"setup", "delete"}
            => air.message = server.in_flight.command

\* Whose block the application holds
ImagesKnown ==
    \A i \in Indexes : /\ images[i] \in Created(i) \cup {0} \/ Twice(i)
                       /\ dev[i].mixed => Twice(i)

\* A message that reports a block without an error
Reporting(m) ==
    \/ m.cid = "status" /\ ~m.no_session /\ m.none_missing /\ ~m.mic_error
    \/ m.cid = "received" /\ ~m.mic_error

\* What the server has been told of the block of an index: that it is there, without an error
Trusts(v, i) ==
    \/ v.sessions[i].completed /\ ~v.sessions[i].mic_error
    \/ ReportsReassembled(v.latest_status[i]) /\ ~v.latest_status[i].mic_error

\* Every such report is about a block that the application has
ReportsTrue ==
    /\ \A i \in Indexes :
        /\ dev[i].state = "complete" /\ dev[i].mic # "failed" => images[i] # 0
        /\ Trusts(server, i) => images[i] # 0
    /\ \A s \in Sessions : loops[s].at # "none" /\ ~loops[s].mic_error => images[Index(s)] # 0
    /\ \A k \in DOMAIN uplinks : Reporting(uplinks[k]) => images[uplinks[k].idx] # 0
    /\ air.to = "server" /\ Reporting(air.message) => images[air.message.idx] # 0

FragInv ==
    /\ ServerTyped /\ AirTyped /\ QueueTyped /\ DeviceTyped
    /\ AttemptsCounted /\ CompletesOnce /\ SessionsKnown /\ CommandsOrdered
    /\ ImagesKnown /\ ReportsTrue

-----------------------------------------------------------------------------
(* The constants, the messages and the sequences.                          *)

LEMMA Constants ==
    /\ Len(Plan) \in Nat /\ Sessions = 1 .. Len(Plan) /\ Numbers = 0 .. Len(Plan)
    /\ \A s \in Sessions : Index(s) \in Indexes /\ Index(s) \in Nat /\ s \in Nat /\ s > 0
    /\ 0 \in Indexes /\ MaxAckRetries \in Nat /\ MaxCommandRetries \in Nat
    /\ NbFrag \in Nat /\ LastFrag \in Nat
  <1>1. Plan \in Seq([idx : 0 .. 3, ack : BOOLEAN])
    BY FragAssumption
  <1>2. Len(Plan) \in Nat /\ \A s \in 1 .. Len(Plan) : Plan[s] \in [idx : 0 .. 3, ack : BOOLEAN]
    BY <1>1, LenProperties, ElementOfSeq
  <1>3. \A s \in Sessions : Index(s) \in Indexes /\ Index(s) \in Nat /\ s \in Nat /\ s > 0
    BY <1>2 DEF Sessions, Index, Indexes
  <1> QED BY <1>2, <1>3, FragAssumption DEF Sessions, Numbers, Indexes

LEMMA CommandFields ==
    ASSUME NEW c \in Commands
    PROVE  /\ c.cid \in {"setup", "status", "delete", "version", "received"} /\ c.idx \in Indexes
           /\ c.cid = "setup" => c.session \in Sessions /\ c.idx = Index(c.session)
           /\ c.cid = "delete" => c.session \in Numbers
           /\ c # Nothing
  <1>1. CASE c \in {SetupReq(s) : s \in Sessions}
    BY <1>1, Constants DEF SetupReq, Nothing
  <1>2. CASE c \in {StatusReq(i, p) : i \in Indexes, p \in BOOLEAN}
    BY <1>2 DEF StatusReq, Nothing
  <1>3. CASE c \in {DeleteReq(i, s) : i \in Indexes, s \in Numbers}
    BY <1>3 DEF DeleteReq, Nothing
  <1>4. CASE c \in {PackageVersionReq} \cup {BlockReceivedAns(i) : i \in Indexes}
    BY <1>4, Constants DEF PackageVersionReq, BlockReceivedAns, Nothing
  <1> QED BY <1>1, <1>2, <1>3, <1>4 DEF Commands

LEMMA FragmentFields ==
    ASSUME NEW f \in Fragments
    PROVE  /\ f.cid = "fragment" /\ f.idx \in Indexes /\ f.n \in 1 .. LastFrag /\ f # Nothing
           /\ f.session \in Sessions /\ f.idx = Index(f.session)
  BY Constants DEF Fragments, DataFragment, Nothing

LEMMA AnswerFields ==
    ASSUME NEW m \in Answers
    PROVE  /\ m.cid \in {"setup", "status", "delete", "version", "received"} /\ m.idx \in Indexes
           /\ m.cid = "received" => /\ m.session \in Sessions /\ m.idx = Index(m.session)
                                    /\ m.mic_error \in BOOLEAN
           /\ m.cid = "status" => /\ m.no_session \in BOOLEAN /\ m.none_missing \in BOOLEAN
                                  /\ m.mic_error \in BOOLEAN
  <1>1. CASE m \in {SetupAns(i) : i \in Indexes} \cup {DeleteAns(i) : i \in Indexes}
    BY <1>1 DEF SetupAns, DeleteAns
  <1>2. CASE m \in {StatusAns(i, gone, done, bad) : i \in Indexes, gone \in BOOLEAN,
                                                    done \in BOOLEAN, bad \in BOOLEAN}
    BY <1>2 DEF StatusAns
  <1>3. CASE m \in {PackageVersionAns}
    BY <1>3, Constants DEF PackageVersionAns
  <1>4. CASE m \in {BlockReceivedReq(s, bad) : s \in Sessions, bad \in BOOLEAN}
    BY <1>4, Constants DEF BlockReceivedReq
  <1> QED BY <1>1, <1>2, <1>3, <1>4 DEF Answers

LEMMA Inserted ==
    ASSUME NEW S, NEW q \in Seq(S), NEW p \in 1 .. Len(q) + 1, NEW m \in S
    PROVE  /\ InsertAt(q, p, m) \in Seq(S) /\ Len(InsertAt(q, p, m)) = Len(q) + 1
           /\ \A k \in 1 .. Len(q) + 1 :
                InsertAt(q, p, m)[k] = IF k < p THEN q[k] ELSE IF k = p THEN m ELSE q[k - 1]
  <1> DEFINE a == SubSeq(q, 1, p - 1)
  <1> DEFINE b == SubSeq(q, p, Len(q))
  <1>1. Len(q) \in Nat /\ p \in Nat /\ \A i \in 1 .. Len(q) : q[i] \in S
    BY LenProperties, ElementOfSeq
  <1>2. /\ a \in Seq(S) /\ Len(a) = p - 1 /\ \A i \in 1 .. p - 1 : a[i] = q[i]
    <2>1. \A i \in 1 .. p - 1 : q[i] \in S
      BY <1>1
    <2>2. /\ a \in Seq(S) /\ Len(a) = IF 1 <= p - 1 THEN p - 1 - 1 + 1 ELSE 0
          /\ \A i \in 1 .. p - 1 - 1 + 1 : a[i] = q[1 + i - 1]
      BY <1>1, <2>1, SubSeqProperties
    <2> QED BY <1>1, <2>2
  <1>3. /\ b \in Seq(S) /\ Len(b) = Len(q) - p + 1
        /\ \A i \in 1 .. Len(q) - p + 1 : b[i] = q[p + i - 1]
    <2>1. \A i \in p .. Len(q) : q[i] \in S
      BY <1>1
    <2>2. /\ b \in Seq(S) /\ Len(b) = IF p <= Len(q) THEN Len(q) - p + 1 ELSE 0
          /\ \A i \in 1 .. Len(q) - p + 1 : b[i] = q[p + i - 1]
      BY <1>1, <2>1, SubSeqProperties
    <2> QED BY <1>1, <2>2
  <1>4. <<m>> \in Seq(S) /\ Len(<<m>>) = 1 /\ <<m>>[1] = m
    OBVIOUS
  <1> DEFINE c == a \o <<m>>
  <1>5. InsertAt(q, p, m) = c \o b
    BY DEF InsertAt
  <1> HIDE DEF a, b
  <1>6. /\ c \in Seq(S) /\ Len(c) = p
        /\ \A i \in 1 .. p : c[i] = IF i <= p - 1 THEN a[i] ELSE <<m>>[i - (p - 1)]
    <2>1. /\ a \o <<m>> \in Seq(S) /\ Len(a \o <<m>>) = Len(a) + Len(<<m>>)
          /\ \A i \in 1 .. Len(a) + Len(<<m>>) :
                (a \o <<m>>)[i] = IF i <= Len(a) THEN a[i] ELSE <<m>>[i - Len(a)]
      BY <1>2, <1>4, ConcatProperties
    <2> QED BY <1>1, <1>2, <1>4, <2>1
  <1> HIDE DEF c
  <1>7. /\ c \o b \in Seq(S) /\ Len(c \o b) = Len(q) + 1
        /\ \A i \in 1 .. Len(q) + 1 : (c \o b)[i] = IF i <= p THEN c[i] ELSE b[i - p]
    <2>1. /\ c \o b \in Seq(S) /\ Len(c \o b) = Len(c) + Len(b)
          /\ \A i \in 1 .. Len(c) + Len(b) : (c \o b)[i] = IF i <= Len(c) THEN c[i] ELSE b[i - Len(c)]
      BY <1>3, <1>6, ConcatProperties
    <2> QED BY <1>1, <1>3, <1>6, <2>1
  <1>8. ASSUME NEW k \in 1 .. Len(q) + 1
        PROVE  (c \o b)[k] = IF k < p THEN q[k] ELSE IF k = p THEN m ELSE q[k - 1]
    <2>1. CASE k < p
      BY <1>1, <1>2, <1>6, <1>7, <2>1
    <2>2. CASE k = p
      BY <1>1, <1>4, <1>6, <1>7, <2>2
    <2>3. CASE k > p
      <3>1. (c \o b)[k] = b[k - p] /\ k - p \in 1 .. Len(q) - p + 1 /\ p + (k - p) - 1 = k - 1
        BY <1>1, <1>7, <2>3
      <3> QED BY <1>1, <1>3, <2>3, <3>1
    <2>4. k < p \/ k = p \/ k > p
      BY <1>1
    <2> QED BY <2>1, <2>2, <2>3, <2>4, Zenon
  <1> QED BY <1>5, <1>7, <1>8

LEMMA Removed ==
    ASSUME NEW S, NEW q \in Seq(S), NEW p \in 1 .. Len(q)
    PROVE  /\ RemoveAt(q, p) \in Seq(S) /\ Len(RemoveAt(q, p)) = Len(q) - 1
           /\ \A k \in 1 .. Len(q) - 1 : RemoveAt(q, p)[k] = IF k < p THEN q[k] ELSE q[k + 1]
  <1> DEFINE a == SubSeq(q, 1, p - 1)
  <1> DEFINE b == SubSeq(q, p + 1, Len(q))
  <1>1. Len(q) \in Nat /\ p \in Nat /\ \A i \in 1 .. Len(q) : q[i] \in S
    BY LenProperties, ElementOfSeq
  <1>2. /\ a \in Seq(S) /\ Len(a) = p - 1 /\ \A i \in 1 .. p - 1 : a[i] = q[i]
    <2>1. \A i \in 1 .. p - 1 : q[i] \in S
      BY <1>1
    <2>2. /\ a \in Seq(S) /\ Len(a) = IF 1 <= p - 1 THEN p - 1 - 1 + 1 ELSE 0
          /\ \A i \in 1 .. p - 1 - 1 + 1 : a[i] = q[1 + i - 1]
      BY <1>1, <2>1, SubSeqProperties
    <2> QED BY <1>1, <2>2
  <1>3. /\ b \in Seq(S) /\ Len(b) = Len(q) - p
        /\ \A i \in 1 .. Len(q) - p : b[i] = q[p + i]
    <2>1. \A i \in p + 1 .. Len(q) : q[i] \in S
      BY <1>1
    <2>2. /\ b \in Seq(S) /\ Len(b) = IF p + 1 <= Len(q) THEN Len(q) - (p + 1) + 1 ELSE 0
          /\ \A i \in 1 .. Len(q) - (p + 1) + 1 : b[i] = q[(p + 1) + i - 1]
      BY <1>1, <2>1, SubSeqProperties
    <2> QED BY <1>1, <2>2
  <1>4. RemoveAt(q, p) = a \o b
    BY DEF RemoveAt
  <1> HIDE DEF a, b
  <1>5. /\ a \o b \in Seq(S) /\ Len(a \o b) = Len(q) - 1
        /\ \A i \in 1 .. Len(q) - 1 : (a \o b)[i] = IF i <= p - 1 THEN a[i] ELSE b[i - (p - 1)]
    <2>1. /\ a \o b \in Seq(S) /\ Len(a \o b) = Len(a) + Len(b)
          /\ \A i \in 1 .. Len(a) + Len(b) : (a \o b)[i] = IF i <= Len(a) THEN a[i] ELSE b[i - Len(a)]
      BY <1>2, <1>3, ConcatProperties
    <2> QED BY <1>1, <1>2, <1>3, <2>1
  <1>6. ASSUME NEW k \in 1 .. Len(q) - 1
        PROVE  (a \o b)[k] = IF k < p THEN q[k] ELSE q[k + 1]
    <2>1. CASE k < p
      BY <1>1, <1>2, <1>5, <2>1
    <2>2. CASE k >= p
      <3>1. (a \o b)[k] = b[k - (p - 1)] /\ k - (p - 1) \in 1 .. Len(q) - p /\ p + (k - (p - 1)) = k + 1
        BY <1>1, <1>5, <2>2
      <3> QED BY <1>1, <1>3, <2>2, <3>1
    <2>3. k < p \/ k >= p
      BY <1>1
    <2> QED BY <2>1, <2>2, <2>3, Zenon
  <1> QED BY <1>4, <1>5, <1>6

-----------------------------------------------------------------------------
(* The device's queue.                                                     *)

IsCopy(m, s) == m.cid = "received" /\ m.session = s

Unique(s) == \A j, k \in Copies(s) : j = k

\* The copies of a session's request stay as many as they are
SameCopies(s) == (Copies(s)' = {} <=> Copies(s) = {}) /\ (Unique(s) => Unique(s)')

LEMMA CopiesAre ==
    ASSUME QueueTyped
    PROVE  /\ Len(uplinks) \in Nat /\ ready \in Nat /\ DOMAIN uplinks = 1 .. Len(uplinks)
           /\ \A s \in Sessions : \A k : k \in Copies(s)
                <=> k \in 1 .. Len(uplinks) /\ IsCopy(uplinks[k], s)
  <1>1. Len(uplinks) \in Nat /\ DOMAIN uplinks = 1 .. Len(uplinks)
    BY LenProperties DEF QueueTyped
  <1> QED BY <1>1 DEF QueueTyped, Copies, IsCopy

LEMMA NextCopiesAre ==
    ASSUME uplinks' \in Seq(Answers)
    PROVE  /\ DOMAIN uplinks' = 1 .. Len(uplinks')
           /\ \A s \in Sessions : \A k : k \in Copies(s)'
                <=> k \in 1 .. Len(uplinks') /\ IsCopy(uplinks'[k], s)
  <1>1. DOMAIN uplinks' = 1 .. Len(uplinks')
    BY LenProperties
  <1> QED BY <1>1 DEF Copies, IsCopy

\* A message is added to the queue
LEMMA QueueGrows ==
    ASSUME QueueTyped, NEW m \in Answers, NEW p \in ready + 1 .. Len(uplinks) + 1,
           uplinks' = InsertAt(uplinks, p, m), ready' \in {ready, ready + 1}
    PROVE  /\ QueueTyped'
           /\ \A k \in DOMAIN uplinks' : uplinks'[k] = m \/ \E j \in DOMAIN uplinks : uplinks'[k] = uplinks[j]
           /\ \A s \in Sessions : ~IsCopy(m, s) => SameCopies(s)
           /\ \A s \in Sessions : IsCopy(m, s) /\ Copies(s) = {} => Copies(s)' = {p}
  <1>1. /\ Len(uplinks) \in Nat /\ ready \in 0 .. Len(uplinks) /\ uplinks \in Seq(Answers)
        /\ DOMAIN uplinks = 1 .. Len(uplinks) /\ p \in 1 .. Len(uplinks) + 1
        /\ \A s \in Sessions : \A k : k \in Copies(s)
                <=> k \in 1 .. Len(uplinks) /\ IsCopy(uplinks[k], s)
    BY CopiesAre DEF QueueTyped
  <1>2. /\ uplinks' \in Seq(Answers) /\ Len(uplinks') = Len(uplinks) + 1
        /\ \A k \in 1 .. Len(uplinks) + 1 :
            uplinks'[k] = IF k < p THEN uplinks[k] ELSE IF k = p THEN m ELSE uplinks[k - 1]
    <2>1. /\ InsertAt(uplinks, p, m) \in Seq(Answers) /\ Len(InsertAt(uplinks, p, m)) = Len(uplinks) + 1
          /\ \A k \in 1 .. Len(uplinks) + 1 : InsertAt(uplinks, p, m)[k] =
                IF k < p THEN uplinks[k] ELSE IF k = p THEN m ELSE uplinks[k - 1]
      <3>1. uplinks \in Seq(Answers) /\ p \in 1 .. Len(uplinks) + 1
        BY <1>1
      <3> QED BY <3>1, Inserted, SMTT(20)
    <2> QED BY <2>1, Zenon
  <1>3. /\ DOMAIN uplinks' = 1 .. Len(uplinks) + 1
        /\ \A s \in Sessions : \A k : k \in Copies(s)'
                <=> k \in 1 .. Len(uplinks) + 1 /\ IsCopy(uplinks'[k], s)
    BY <1>2, NextCopiesAre
  <1>4. QueueTyped'
    BY <1>1, <1>2 DEF QueueTyped
  <1>5. \A k \in DOMAIN uplinks' : uplinks'[k] = m \/ \E j \in DOMAIN uplinks : uplinks'[k] = uplinks[j]
    <2>1. \A k \in 1 .. Len(uplinks) + 1 : /\ k < p => k \in 1 .. Len(uplinks)
                                           /\ ~(k < p) /\ k # p => k - 1 \in 1 .. Len(uplinks)
      BY <1>1
    <2> QED BY <1>1, <1>2, <1>3, <2>1
  <1>6. ASSUME NEW s \in Sessions, ~IsCopy(m, s) PROVE SameCopies(s)
    <2>1. \A k \in Copies(s)' : k \in Nat /\ k # p
      BY <1>1, <1>2, <1>3, <1>6
    <2>2. \A k \in Copies(s)' : k < p => k \in Copies(s)
      BY <1>1, <1>2, <1>3
    <2>3. \A k \in Copies(s)' : k > p => k - 1 \in Copies(s)
      BY <1>1, <1>2, <1>3
    <2>4. \A k \in Copies(s) : k < p => k \in Copies(s)'
      BY <1>1, <1>2, <1>3
    <2>5. \A k \in Copies(s) : k >= p => k + 1 \in Copies(s)'
      <3>1. \A k \in Copies(s) : k >= p => k + 1 \in 1 .. Len(uplinks) + 1 /\ ~(k + 1 < p)
                                           /\ k + 1 # p /\ (k + 1) - 1 = k
        BY <1>1
      <3> QED BY <1>1, <1>2, <1>3, <3>1
    <2>6. \A k \in Copies(s) : k \in Nat
      BY <1>1
    <2>7. Copies(s)' = {} <=> Copies(s) = {}
      BY <1>1, <2>1, <2>2, <2>3, <2>4, <2>5, <2>6
    <2>8. ASSUME Unique(s) PROVE Unique(s)'
      <3>1. ASSUME NEW j \in Copies(s)', NEW k \in Copies(s)' PROVE j = k
        <4>1. j \in Nat /\ k \in Nat /\ j # p /\ k # p
          BY <2>1
        <4>2. CASE j < p /\ k < p
          BY <2>2, <2>8, <4>2 DEF Unique
        <4>3. CASE j > p /\ k > p
          <5>1. j - 1 = k - 1
            BY <2>3, <2>8, <4>3 DEF Unique
          <5> QED BY <4>1, <5>1
        <4>4. CASE j < p /\ k > p
          <5>1. j = k - 1
            BY <2>2, <2>3, <2>8, <4>4 DEF Unique
          <5> QED BY <1>1, <4>1, <4>4, <5>1
        <4>5. CASE j > p /\ k < p
          <5>1. k = j - 1
            BY <2>2, <2>3, <2>8, <4>5 DEF Unique
          <5> QED BY <1>1, <4>1, <4>5, <5>1
        <4> QED BY <1>1, <4>1, <4>2, <4>3, <4>4, <4>5
      <3> QED BY <3>1 DEF Unique
    <2> QED BY <2>7, <2>8 DEF SameCopies
  <1>7. ASSUME NEW s \in Sessions, IsCopy(m, s), Copies(s) = {} PROVE Copies(s)' = {p}
    <2>1. p \in Copies(s)'
      BY <1>1, <1>2, <1>3, <1>7
    <2>2. ASSUME NEW k \in Copies(s)', k # p PROVE FALSE
      <3>1. k \in Nat /\ k \in 1 .. Len(uplinks) + 1 /\ IsCopy(uplinks'[k], s)
        BY <1>1, <1>3
      <3>2. CASE k < p
        BY <1>1, <1>2, <1>7, <3>1, <3>2
      <3>3. CASE k > p
        <4>1. k - 1 \in 1 .. Len(uplinks) /\ uplinks'[k] = uplinks[k - 1]
          BY <1>1, <1>2, <3>1, <3>3
        <4> QED BY <1>1, <1>7, <3>1, <4>1
      <3> QED BY <1>1, <2>2, <3>1, <3>2, <3>3
    <2> QED BY <2>1, <2>2
  <1> QED BY <1>4, <1>5, <1>6, <1>7

\* A message is taken from the queue
LEMMA QueueShrinks ==
    ASSUME QueueTyped, NEW p \in 1 .. Len(uplinks),
           uplinks' \in Seq(Answers), Len(uplinks') = Len(uplinks) - 1,
           \A k \in 1 .. Len(uplinks) - 1 :
                uplinks'[k] = IF k < p THEN uplinks[k] ELSE uplinks[k + 1],
           ready' = IF p <= ready THEN ready - 1 ELSE ready
    PROVE  /\ QueueTyped'
           /\ \A k \in DOMAIN uplinks' : \E j \in DOMAIN uplinks : uplinks'[k] = uplinks[j]
           /\ \A s \in Sessions : ~IsCopy(uplinks[p], s) => SameCopies(s)
           /\ \A s \in Sessions : IsCopy(uplinks[p], s) /\ Unique(s) => Copies(s)' = {}
  <1>1. /\ Len(uplinks) \in Nat /\ ready \in 0 .. Len(uplinks) /\ DOMAIN uplinks = 1 .. Len(uplinks)
        /\ \A s \in Sessions : \A k : k \in Copies(s)
                <=> k \in 1 .. Len(uplinks) /\ IsCopy(uplinks[k], s)
    BY CopiesAre DEF QueueTyped
  <1>2. /\ DOMAIN uplinks' = 1 .. Len(uplinks) - 1
        /\ \A s \in Sessions : \A k : k \in Copies(s)'
                <=> k \in 1 .. Len(uplinks) - 1 /\ IsCopy(uplinks'[k], s)
    BY NextCopiesAre
  <1>3. QueueTyped'
    BY <1>1 DEF QueueTyped
  <1>4. \A k \in DOMAIN uplinks' : \E j \in DOMAIN uplinks : uplinks'[k] = uplinks[j]
    <2>1. \A k \in 1 .. Len(uplinks) - 1 : k \in 1 .. Len(uplinks) /\ k + 1 \in 1 .. Len(uplinks)
      BY <1>1
    <2> QED BY <1>1, <1>2, <2>1
  <1>5. ASSUME NEW s \in Sessions
        PROVE  /\ \A k \in Copies(s)' : k \in Nat /\ (k < p => k \in Copies(s))
               /\ \A k \in Copies(s)' : k >= p => k + 1 \in Copies(s)
               /\ \A k \in Copies(s) : k \in Nat /\ (k < p => k \in Copies(s)')
               /\ \A k \in Copies(s) : k > p => k - 1 \in Copies(s)'
    <2>1. \A k \in Copies(s)' : k \in Nat /\ (k < p => k \in Copies(s))
      BY <1>1, <1>2
    <2>2. \A k \in Copies(s)' : k >= p => k + 1 \in Copies(s)
      BY <1>1, <1>2
    <2>3. \A k \in Copies(s) : k \in Nat /\ (k < p => k \in Copies(s)')
      BY <1>1, <1>2
    <2>4. \A k \in Copies(s) : k > p => k - 1 \in Copies(s)'
      <3>1. \A k \in Copies(s) : k > p => k - 1 \in 1 .. Len(uplinks) - 1 /\ ~(k - 1 < p)
                                          /\ (k - 1) + 1 = k
        BY <1>1
      <3> QED BY <1>1, <1>2, <3>1
    <2> QED BY <2>1, <2>2, <2>3, <2>4
  <1>6. ASSUME NEW s \in Sessions, ~IsCopy(uplinks[p], s) PROVE SameCopies(s)
    <2>1. p \notin Copies(s)
      BY <1>1, <1>6
    <2>2. Copies(s)' = {} <=> Copies(s) = {}
      BY <1>5, <2>1
    <2>3. ASSUME Unique(s), NEW j \in Copies(s)', NEW k \in Copies(s)' PROVE j = k
      <3>1. j \in Nat /\ k \in Nat
        BY <1>5
      <3>2. CASE j < p /\ k < p
        BY <1>5, <2>3, <3>2 DEF Unique
      <3>3. CASE j >= p /\ k >= p
        <4>1. j + 1 = k + 1
          BY <1>5, <2>3, <3>3 DEF Unique
        <4> QED BY <3>1, <4>1
      <3>4. CASE j < p /\ k >= p
        <4>1. j = k + 1
          BY <1>5, <2>3, <3>4 DEF Unique
        <4> QED BY <3>1, <3>4, <4>1
      <3>5. CASE j >= p /\ k < p
        <4>1. k = j + 1
          BY <1>5, <2>3, <3>5 DEF Unique
        <4> QED BY <3>1, <3>5, <4>1
      <3> QED BY <3>1, <3>2, <3>3, <3>4, <3>5
    <2> QED BY <2>2, <2>3 DEF SameCopies, Unique
  <1>7. ASSUME NEW s \in Sessions, IsCopy(uplinks[p], s), Unique(s) PROVE Copies(s)' = {}
    <2>1. p \in Copies(s)
      BY <1>1, <1>7
    <2>2. ASSUME NEW k \in Copies(s)' PROVE FALSE
      <3>1. CASE k < p
        <4>1. k = p
          BY <1>5, <1>7, <2>1, <3>1 DEF Unique
        <4> QED BY <3>1, <4>1
      <3>2. CASE k >= p
        <4>1. k + 1 = p /\ k \in Nat
          BY <1>5, <1>7, <2>1, <3>2 DEF Unique
        <4> QED BY <3>2, <4>1
      <3> QED BY <1>5, <3>1, <3>2
    <2> QED BY <2>2
  <1> QED BY <1>3, <1>4, <1>6, <1>7

-----------------------------------------------------------------------------
(* The server.                                                             *)

LEMMA ServerFields ==
    ASSUME NEW v, IsServer(v)
    PROVE  /\ v.sessions \in [Indexes -> ServerSessions] /\ v.latest_status \in [Indexes -> Reports]
           /\ v.pending \in Seq(Commands) /\ v.in_flight \in InFlights /\ v.downlinks \in Seq(Fragments)
           /\ Len(v.pending) \in Nat /\ DOMAIN v.pending = 1 .. Len(v.pending)
           /\ \A k \in 1 .. Len(v.pending) : v.pending[k] \in Commands
           /\ v.in_flight.command \in Commands \cup {Nothing} /\ v.in_flight.attempts \in Nat
  <1>1. /\ v.sessions \in [Indexes -> ServerSessions] /\ v.latest_status \in [Indexes -> Reports]
        /\ v.pending \in Seq(Commands) /\ v.in_flight \in InFlights /\ v.downlinks \in Seq(Fragments)
    BY DEF IsServer
  <1>2. /\ Len(v.pending) \in Nat /\ DOMAIN v.pending = 1 .. Len(v.pending)
        /\ \A k \in 1 .. Len(v.pending) : v.pending[k] \in Commands
    BY <1>1, LenProperties, ElementOfSeq
  <1>3. v.in_flight.command \in Commands \cup {Nothing} /\ v.in_flight.attempts \in Nat
    BY <1>1 DEF InFlights
  <1> QED BY <1>1, <1>2, <1>3

\* The fields that two states share
Shares(v, w) ==
    v.sessions = w.sessions /\ v.latest_status = w.latest_status

LEMMA WithPending ==
    ASSUME NEW v, IsServer(v), NEW q \in Seq(Commands)
    PROVE  LET w == [v EXCEPT !.pending = q]
           IN IsServer(w) /\ Shares(v, w) /\ w.pending = q /\ w.in_flight = v.in_flight
              /\ w.downlinks = v.downlinks
  BY DEF IsServer, Shares

LEMMA WithInFlight ==
    ASSUME NEW v, IsServer(v), NEW f \in InFlights
    PROVE  LET w == [v EXCEPT !.in_flight = f]
           IN IsServer(w) /\ Shares(v, w) /\ w.pending = v.pending /\ w.in_flight = f
              /\ w.downlinks = v.downlinks
  BY DEF IsServer, Shares

LEMMA WithDownlinks ==
    ASSUME NEW v, IsServer(v), NEW q \in Seq(Fragments)
    PROVE  LET w == [v EXCEPT !.downlinks = q]
           IN IsServer(w) /\ Shares(v, w) /\ w.pending = v.pending /\ w.in_flight = v.in_flight
              /\ w.downlinks = q
  BY DEF IsServer, Shares

LEMMA WithTurn ==
    ASSUME NEW v, IsServer(v), NEW a
    PROVE  LET w == Served(v, a)
           IN IsServer(w) /\ Shares(v, w) /\ w.pending = v.pending /\ w.in_flight = v.in_flight
              /\ w.downlinks = v.downlinks
  BY DEF IsServer, Shares, Served

LEMMA WithSession ==
    ASSUME NEW v, IsServer(v), NEW i \in Indexes, NEW x \in ServerSessions
    PROVE  LET w == [v EXCEPT !.sessions[i] = x]
           IN /\ IsServer(w) /\ w.latest_status = v.latest_status /\ w.pending = v.pending
              /\ w.in_flight = v.in_flight /\ w.downlinks = v.downlinks
              /\ w.sessions = [v.sessions EXCEPT ![i] = x]
  BY DEF IsServer

LEMMA WithReport ==
    ASSUME NEW v, IsServer(v), NEW i \in Indexes, NEW x \in Reports
    PROVE  LET w == [v EXCEPT !.latest_status[i] = x]
           IN /\ IsServer(w) /\ w.sessions = v.sessions /\ w.pending = v.pending
              /\ w.in_flight = v.in_flight /\ w.downlinks = v.downlinks
              /\ w.latest_status = [v.latest_status EXCEPT ![i] = x]
  BY DEF IsServer

LEMMA FragInit ==
    Init => FragInv
  <1> SUFFICES ASSUME Init PROVE FragInv
    OBVIOUS
  <1>0. /\ Len(Plan) \in Nat /\ 0 \in Numbers /\ Numbers \subseteq Nat
        /\ \A s \in Sessions : s \in Nat /\ Index(s) \in Indexes
    BY Constants
  <1>1. IsServer(server)
    <2>1. NoServerSession \in ServerSessions /\ NoReport \in Reports /\ NotInFlight \in InFlights
      BY <1>0 DEF NoServerSession, ServerSessions, NoReport, Reports, NotInFlight, InFlights
    <2>2. <<>> \in Seq(Commands) /\ <<>> \in Seq(Fragments)
      OBVIOUS
    <2> HIDE DEF NoServerSession, NoReport, NotInFlight
    <2> QED BY <2>1, <2>2 DEF Init, IsServer
  <1>2. ServerTyped
    BY <1>0, <1>1 DEF ServerTyped, Init
  <1>3. AirTyped
    BY DEF AirTyped, Init
  <1>4. QueueTyped
    BY DEF QueueTyped, Init
  <1>5. DeviceTyped
    <2>1. NoSession \in DeviceSessions
      BY <1>0 DEF NoSession, DeviceSessions
    <2>2. [at |-> "none", attempts |-> 0, ack_pending |-> FALSE, mic_error |-> FALSE] \in LoopStates
      BY DEF LoopStates
    <2> QED BY <2>1, <2>2 DEF DeviceTyped, Init
  <1>6. AttemptsCounted
    BY DEF AttemptsCounted, LoopCounts, Copies, Init
  <1>7. CompletesOnce
    BY DEF CompletesOnce, NoSession, Init
  <1>8. SessionsKnown
    BY DEF SessionsKnown, NoServerSession, NoSession, Created, Nothing, Init
  <1>9. CommandsOrdered
    <2>1. Line(server) = {0} /\ CommandAt(server, 0).cid = "none"
      BY DEF Init, Line, CommandAt, NotInFlight, Nothing
    <2> QED BY <2>1 DEF CommandsOrdered, SetupsKnown, DeletionsMeant, Init
  <1>10. ImagesKnown
    BY DEF ImagesKnown, NoSession, Init
  <1>11. ReportsTrue
    BY DEF ReportsTrue, Trusts, ReportsReassembled, NoServerSession, NoReport, NoSession, Reporting,
           Nothing, Init
  <1> QED BY <1>2, <1>3, <1>4, <1>5, <1>6, <1>7, <1>8, <1>9, <1>10, <1>11 DEF FragInv

\* The line of commands moves on: the one in flight is kept or retired, or the next takes its place
Advances(v, w) ==
    \/ w.pending = v.pending /\ w.in_flight.command \in {v.in_flight.command, Nothing}
    \/ /\ v.pending # <<>> /\ w.pending = Tail(v.pending)
       /\ w.in_flight.command \in {Head(v.pending), Nothing}

\* A command is added to it
Appends(v, w, c) ==
    w.pending = Append(v.pending, c) /\ w.in_flight.command = v.in_flight.command

LEMMA LineAdvances ==
    ASSUME NEW v, NEW w, IsServer(v), IsServer(w), Advances(v, w)
    PROVE  \E e \in {0, 1} : \A k \in Line(w) :
                \/ CommandAt(w, k) = Nothing
                \/ k + e \in Line(v) /\ CommandAt(w, k) = CommandAt(v, k + e)
  <1>0. Len(v.pending) \in Nat /\ Len(w.pending) \in Nat /\ v.pending \in Seq(Commands)
    BY ServerFields
  <1>1. CASE w.pending = v.pending /\ w.in_flight.command \in {v.in_flight.command, Nothing}
    <2>1. ASSUME NEW k \in Line(w)
          PROVE  \/ CommandAt(w, k) = Nothing
                 \/ k + 0 \in Line(v) /\ CommandAt(w, k) = CommandAt(v, k + 0)
      BY <1>0, <1>1 DEF Line, CommandAt
    <2> QED BY <2>1
  <1>2. CASE /\ v.pending # <<>> /\ w.pending = Tail(v.pending)
             /\ w.in_flight.command \in {Head(v.pending), Nothing}
    <2>0. /\ Len(v.pending) >= 1 /\ Len(Tail(v.pending)) = Len(v.pending) - 1
          /\ \A k \in 1 .. Len(v.pending) - 1 : Tail(v.pending)[k] = v.pending[k + 1]
          /\ Head(v.pending) = v.pending[1]
      BY <1>0, <1>2, HeadTailProperties, EmptySeq
    <2>1. ASSUME NEW k \in Line(w)
          PROVE  \/ CommandAt(w, k) = Nothing
                 \/ k + 1 \in Line(v) /\ CommandAt(w, k) = CommandAt(v, k + 1)
      <3>1. CASE k = 0
        BY <1>0, <1>2, <2>0, <3>1 DEF Line, CommandAt
      <3>2. CASE k # 0
        <4>1. k \in 1 .. Len(v.pending) - 1 /\ k + 1 \in 1 .. Len(v.pending) /\ k + 1 # 0
          BY <1>0, <1>2, <2>0, <3>2 DEF Line
        <4> QED BY <1>0, <1>2, <2>0, <3>2, <4>1 DEF Line, CommandAt
      <3> QED BY <3>1, <3>2
    <2> QED BY <2>1
  <1> QED BY <1>1, <1>2 DEF Advances

LEMMA AdvanceKeepsOrder ==
    ASSUME NEW v, NEW w, IsServer(v), IsServer(w), Advances(v, w), NEW bound, NEW sessions
    PROVE  /\ SetupsKnown(v, bound) => SetupsKnown(w, bound)
           /\ DeletionsMeant(v, sessions) => DeletionsMeant(w, sessions)
  <1>1. PICK e \in {0, 1} : \A k \in Line(w) :
                \/ CommandAt(w, k) = Nothing
                \/ k + e \in Line(v) /\ CommandAt(w, k) = CommandAt(v, k + e)
    BY LineAdvances
  <1>2. Nothing.cid = "none"
    BY DEF Nothing
  <1>3. SetupsKnown(v, bound) => SetupsKnown(w, bound)
    BY <1>1, <1>2 DEF SetupsKnown
  <1>4. ASSUME DeletionsMeant(v, sessions), NEW k \in Line(w), CommandAt(w, k).cid = "delete"
        PROVE  DeletionMeant(w, sessions, k)
    <2>1. k + e \in Line(v) /\ CommandAt(w, k) = CommandAt(v, k + e)
      BY <1>1, <1>2, <1>4
    <2>2. DeletionMeant(v, sessions, k + e)
      BY <1>4, <2>1 DEF DeletionsMeant
    <2>3. \A j \in Line(w) : j < k => j + e < k + e
      BY DEF Line
    <2> QED BY <1>1, <1>2, <2>1, <2>2, <2>3 DEF DeletionMeant
  <1> QED BY <1>3, <1>4 DEF DeletionsMeant

LEMMA LineAppends ==
    ASSUME NEW v, NEW w, IsServer(v), NEW c \in Commands, Appends(v, w, c)
    PROVE  /\ Len(v.pending) \in Nat /\ Line(w) = Line(v) \cup {Len(v.pending) + 1}
           /\ \A k \in Line(v) : k < Len(v.pending) + 1 /\ CommandAt(w, k) = CommandAt(v, k)
           /\ CommandAt(w, Len(v.pending) + 1) = c
  <1>0. Len(v.pending) \in Nat /\ v.pending \in Seq(Commands)
    BY ServerFields
  <1>1. /\ Len(w.pending) = Len(v.pending) + 1 /\ w.pending[Len(v.pending) + 1] = c
        /\ \A k \in 1 .. Len(v.pending) : w.pending[k] = v.pending[k]
    BY <1>0, AppendProperties DEF Appends
  <1> QED BY <1>0, <1>1 DEF Line, CommandAt, Appends

LEMMA AppendKeepsOrder ==
    ASSUME NEW v, NEW w, IsServer(v), NEW c \in Commands, Appends(v, w, c), NEW bound, NEW sessions
    PROVE  /\ SetupsKnown(v, bound) /\ (c.cid = "setup" => c.session <= bound) => SetupsKnown(w, bound)
           /\ DeletionsMeant(v, sessions)
              /\ (c.cid = "delete" =>
                    /\ sessions[c.idx].session <= c.session
                    /\ \A j \in Line(v) :
                        CommandAt(v, j).cid = "setup" /\ CommandAt(v, j).idx = c.idx
                            => CommandAt(v, j).session <= c.session)
                => DeletionsMeant(w, sessions)
  <1> DEFINE n == Len(v.pending) + 1
  <1>1. /\ Line(w) = Line(v) \cup {n} /\ CommandAt(w, n) = c
        /\ \A k \in Line(v) : k < n /\ k \in Nat /\ CommandAt(w, k) = CommandAt(v, k)
    BY LineAppends DEF Line
  <1>2. n \in Nat
    BY LineAppends
  <1> HIDE DEF n
  <1>3. SetupsKnown(v, bound) /\ (c.cid = "setup" => c.session <= bound) => SetupsKnown(w, bound)
    BY <1>1 DEF SetupsKnown
  <1>4. ASSUME DeletionsMeant(v, sessions),
               c.cid = "delete" =>
                    /\ sessions[c.idx].session <= c.session
                    /\ \A j \in Line(v) :
                        CommandAt(v, j).cid = "setup" /\ CommandAt(v, j).idx = c.idx
                            => CommandAt(v, j).session <= c.session
        PROVE  DeletionsMeant(w, sessions)
    <2>1. ASSUME NEW k \in Line(w), CommandAt(w, k).cid = "delete" PROVE DeletionMeant(w, sessions, k)
      <3>1. CASE k = n
        <4>1. \A j \in Line(w) : j < n => j \in Line(v)
          BY <1>1, <1>2
        <4> QED BY <1>1, <1>4, <2>1, <3>1, <4>1 DEF DeletionMeant
      <3>2. CASE k # n
        <4>1. k \in Line(v) /\ DeletionMeant(v, sessions, k) /\ CommandAt(w, k) = CommandAt(v, k)
          BY <1>1, <1>4, <2>1, <3>2 DEF DeletionsMeant
        <4>2. \A j \in Line(w) : j < k => j \in Line(v) /\ CommandAt(w, j) = CommandAt(v, j)
          BY <1>1, <1>2, <4>1
        <4> QED BY <4>1, <4>2 DEF DeletionMeant
      <3> QED BY <3>1, <3>2
    <2> QED BY <2>1 DEF DeletionsMeant
  <1> QED BY <1>3, <1>4

\* What an uplink may change at the server
AfterUplink(v, w, m) ==
    /\ IsServer(w) /\ w.downlinks = v.downlinks
    /\ \A i \in Indexes : w.sessions[i].session = v.sessions[i].session
    /\ Advances(v, w) \/ \E i \in Indexes : Appends(v, w, BlockReceivedAns(i))
    /\ \A i \in Indexes : Trusts(w, i) => Trusts(v, i) \/ (Reporting(m) /\ m.idx = i)

LEMMA DecodedFields ==
    ASSUME NEW a \in Answers \cup {Nothing}
    PROVE  /\ Decoded(a) \in Answers \cup {Nothing}
           /\ Reporting(Decoded(a)) => Reporting(a) /\ Decoded(a) = a
  <1>1. CASE a = Nothing
    BY <1>1 DEF Decoded, Nothing, Reporting
  <1>2. CASE a \in Answers /\ ~(a.cid = "status" /\ a.no_session)
    BY <1>2 DEF Decoded
  <1>3. CASE a \in Answers /\ a.cid = "status" /\ a.no_session
    <2>1. PICK i \in Indexes, gone \in BOOLEAN, done \in BOOLEAN, bad \in BOOLEAN :
                a = StatusAns(i, gone, done, bad)
      <3>1. a \notin {SetupAns(i) : i \in Indexes} \cup {DeleteAns(i) : i \in Indexes}
                        \cup {PackageVersionAns}
                        \cup {BlockReceivedReq(s, bad) : s \in Sessions, bad \in BOOLEAN}
        BY <1>3 DEF SetupAns, DeleteAns, PackageVersionAns, BlockReceivedReq
      <3> QED BY <1>3, <3>1 DEF Answers
    <2>2. Decoded(a) = [a EXCEPT !.idx = 0]
      BY <1>3 DEF Decoded
    <2>3. Decoded(a) = StatusAns(0, gone, done, bad) /\ gone
      BY <1>3, <2>1, <2>2 DEF StatusAns
    <2>4. Decoded(a) \in Answers
      <3>1. 0 \in Indexes
        BY Constants
      <3>3. StatusAns(0, gone, done, bad) \in Answers
        BY <3>1 DEF Answers
      <3> QED BY <2>3, <3>3, Zenon
    <2>5. ~Reporting(Decoded(a))
      BY <2>3 DEF StatusAns, Reporting
    <2> QED BY <2>4, <2>5
  <1> QED BY <1>1, <1>2, <1>3

LEMMA RetiredAnswer ==
    ASSUME NEW v, IsServer(v), NEW m
    PROVE  LET w == Retired(v, m)
           IN IsServer(w) /\ Shares(v, w) /\ w.downlinks = v.downlinks /\ Advances(v, w)
  <1>1. CASE v.in_flight.command.cid = m.cid /\ v.in_flight.command.idx = m.idx
    <2>1. NotInFlight \in InFlights /\ NotInFlight.command = Nothing
      BY DEF NotInFlight, InFlights
    <2>2. Retired(v, m) = [v EXCEPT !.in_flight = NotInFlight]
      BY <1>1 DEF Retired
    <2> HIDE DEF NotInFlight
    <2> QED BY <2>1, <2>2, WithInFlight DEF Advances
  <1>2. CASE ~(v.in_flight.command.cid = m.cid /\ v.in_flight.command.idx = m.idx)
    BY <1>2 DEF Retired, Shares, Advances
  <1> QED BY <1>1, <1>2

LEMMA UplinkHandled ==
    ASSUME NEW v, IsServer(v), NEW m \in Answers \cup {Nothing}
    PROVE  AfterUplink(v, OnUplink(v, m), m)
  <1>0. /\ m.cid \in {"setup", "status", "delete", "version", "received", "none"}
        /\ m.cid # "none" => m \in Answers /\ m.idx \in Indexes
    BY AnswerFields DEF Nothing
  <1>1. CASE m.cid = "none"
    <2>1. OnUplink(v, m) = v
      BY <1>1 DEF OnUplink
    <2> QED BY <2>1 DEF AfterUplink, Advances
  <1>2. CASE m.cid \in {"setup", "delete", "version"}
    <2>1. OnUplink(v, m) = Retired(v, m)
      BY <1>2 DEF OnUplink
    <2>2. AfterUplink(v, Retired(v, m), m)
      BY RetiredAnswer DEF AfterUplink, Shares, Trusts
    <2> QED BY <2>1, <2>2
  <1>3. CASE m.cid = "status"
    <2> DEFINE u == Retired(v, m)
               x == [no_session |-> m.no_session, none_missing |-> m.none_missing,
                     mic_error |-> m.mic_error]
               w == [u EXCEPT !.latest_status[m.idx] = x]
    <2>1. OnUplink(v, m) = w
      BY <1>3 DEF OnUplink, HandleStatusAns
    <2>2. IsServer(u) /\ Shares(v, u) /\ u.downlinks = v.downlinks /\ Advances(v, u)
      BY RetiredAnswer
    <2>3. m.idx \in Indexes /\ x \in Reports
      BY <1>0, <1>3, AnswerFields DEF Reports
    <2>4. /\ x.no_session = m.no_session /\ x.none_missing = m.none_missing /\ x.mic_error = m.mic_error
      OBVIOUS
    <2> HIDE DEF u, x
    <2>5. /\ IsServer(w) /\ w.sessions = u.sessions /\ w.pending = u.pending
          /\ w.in_flight = u.in_flight /\ w.downlinks = u.downlinks
          /\ w.latest_status = [u.latest_status EXCEPT ![m.idx] = x]
      BY <2>2, <2>3, WithReport
    <2> HIDE DEF w
    <2>6. Advances(v, w)
      BY <2>2, <2>5 DEF Advances
    <2>7. ASSUME NEW i \in Indexes, Trusts(w, i) PROVE Trusts(v, i) \/ (Reporting(m) /\ m.idx = i)
      <3>1. u.latest_status \in [Indexes -> Reports] /\ u.latest_status = v.latest_status
            /\ u.sessions = v.sessions
        BY <2>2, ServerFields DEF Shares
      <3>2. w.latest_status[i] = IF i = m.idx THEN x ELSE v.latest_status[i]
        BY <2>3, <2>5, <3>1
      <3> QED BY <1>3, <2>4, <2>5, <2>7, <3>1, <3>2 DEF Trusts, ReportsReassembled, Reporting
    <2>8. AfterUplink(v, w, m)
      BY <2>2, <2>5, <2>6, <2>7 DEF AfterUplink, Shares
    <2> QED BY <2>1, <2>8
  <1>4. CASE m.cid = "received"
    <2> DEFINE i == m.idx
               o == v.sessions[i]
               x == [o EXCEPT !.completed = TRUE, !.mic_error = @ \/ m.mic_error]
               u == IF v.sessions[i].session = 0 THEN v ELSE [v EXCEPT !.sessions[i] = x]
               w == Queued(u, BlockReceivedAns(i))
    <2>0. i \in Indexes /\ m.mic_error \in BOOLEAN
      BY <1>0, <1>4, AnswerFields
    <2>1. OnUplink(v, m) = w
      BY <1>4 DEF OnUplink, HandleBlockReceived
    <2>2. v.sessions \in [Indexes -> ServerSessions] /\ o \in ServerSessions
      BY <2>0, ServerFields
    <2>3. /\ x \in ServerSessions /\ x.session = o.session
          /\ ~x.mic_error => ~m.mic_error
      BY <2>0, <2>2 DEF ServerSessions
    <2> HIDE DEF x, o, i
    <2>4. /\ IsServer(u) /\ u.pending = v.pending /\ u.in_flight = v.in_flight
          /\ u.latest_status = v.latest_status /\ u.downlinks = v.downlinks
          /\ u.sessions = v.sessions \/ u.sessions = [v.sessions EXCEPT ![i] = x]
      BY <2>0, <2>3, WithSession
    <2> HIDE DEF u
    <2>5. u.pending \in Seq(Commands) /\ BlockReceivedAns(i) \in Commands
      BY <2>0, <2>4, ServerFields DEF Commands
    <2>6. /\ IsServer(w) /\ Shares(u, w) /\ w.pending = Append(u.pending, BlockReceivedAns(i))
          /\ w.in_flight = u.in_flight /\ w.downlinks = u.downlinks
      <3>1. Append(u.pending, BlockReceivedAns(i)) \in Seq(Commands)
        BY <2>5, AppendProperties
      <3> QED BY <2>4, <3>1, WithPending DEF Queued
    <2> HIDE DEF w
    <2>7. Appends(v, w, BlockReceivedAns(i))
      BY <2>4, <2>6 DEF Appends
    <2>8. ASSUME NEW j \in Indexes
          PROVE  /\ w.sessions[j].session = v.sessions[j].session
                 /\ Trusts(w, j) => Trusts(v, j) \/ (Reporting(m) /\ m.idx = j)
      <3>1. w.sessions[j] = v.sessions[j] \/ (j = i /\ w.sessions[j] = x)
        BY <2>2, <2>4, <2>6 DEF Shares
      <3>2. w.latest_status = v.latest_status
        BY <2>4, <2>6 DEF Shares
      <3>3. CASE w.sessions[j] = v.sessions[j]
        BY <3>2, <3>3 DEF Trusts
      <3>4. CASE j = i /\ w.sessions[j] = x
        <4>1. w.sessions[j].session = v.sessions[j].session
          BY <2>3, <3>4 DEF o
        <4>2. Trusts(w, j) => Trusts(v, j) \/ ~m.mic_error
          BY <2>3, <3>2, <3>4 DEF Trusts
        <4> QED BY <1>4, <3>4, <4>1, <4>2 DEF Reporting, i
      <3> QED BY <3>1, <3>3, <3>4
    <2>9. AfterUplink(v, w, m)
      BY <2>0, <2>4, <2>6, <2>7, <2>8 DEF AfterUplink
    <2> QED BY <2>1, <2>9
  <1> QED BY <1>0, <1>1, <1>2, <1>3, <1>4

\* What the choice of a downlink does to the server, and what it chooses
AfterDownlink(v, w, out) ==
    /\ IsServer(w) /\ Shares(v, w) /\ Advances(v, w)
    /\ w.downlinks = v.downlinks \/ (v.downlinks # <<>> /\ w.downlinks = Tail(v.downlinks))
    /\ out \in Commands \cup {Nothing} \/ (v.downlinks # <<>> /\ out = Head(v.downlinks))
    /\ out \in Commands /\ out.cid \in {"setup", "delete"} => out = w.in_flight.command

LEMMA CommandChosen ==
    ASSUME NEW v, IsServer(v)
    PROVE  LET g == GetDownlink(v)
           IN /\ IsServer(g.state) /\ Shares(v, g.state) /\ Advances(v, g.state)
              /\ g.state.downlinks = v.downlinks /\ g.out \in Commands \cup {Nothing}
              /\ g.out.cid \in {"setup", "delete"} => g.out = g.state.in_flight.command
  <1>0. v.in_flight \in InFlights /\ v.in_flight.command \in Commands \cup {Nothing}
        /\ v.in_flight.attempts \in Nat /\ v.pending \in Seq(Commands)
    BY ServerFields
  <1>1. NotInFlight \in InFlights /\ NotInFlight.command = Nothing /\ Nothing.cid = "none"
    BY DEF NotInFlight, InFlights, Nothing
  <1> HIDE DEF NotInFlight, Nothing
  <1>2. CASE StillWaiting(v, v.in_flight.command) /\ v.in_flight.attempts <= MaxCommandRetries
    <2> DEFINE f == [v.in_flight EXCEPT !.attempts = @ + 1]
               w == [v EXCEPT !.in_flight = f]
    <2>1. f \in InFlights /\ f.command = v.in_flight.command
      BY <1>0 DEF InFlights
    <2>2. GetDownlink(v) = [state |-> w, out |-> v.in_flight.command]
      BY <1>2 DEF GetDownlink
    <2> HIDE DEF f
    <2>3. IsServer(w) /\ Shares(v, w) /\ w.pending = v.pending /\ w.in_flight = f
          /\ w.downlinks = v.downlinks
      BY <2>1, WithInFlight
    <2> HIDE DEF w
    <2> QED BY <1>0, <2>1, <2>2, <2>3 DEF Advances
  <1>3. CASE ~(StillWaiting(v, v.in_flight.command) /\ v.in_flight.attempts <= MaxCommandRetries)
    <2> DEFINE u == [v EXCEPT !.in_flight = NotInFlight]
    <2>1. GetDownlink(v) = NextPending(u)
      BY <1>3 DEF GetDownlink
    <2>2. IsServer(u) /\ Shares(v, u) /\ u.pending = v.pending /\ u.in_flight = NotInFlight
          /\ u.downlinks = v.downlinks
      BY <1>1, WithInFlight
    <2> HIDE DEF u
    <2>3. CASE u.pending = <<>>
      <3>1. GetDownlink(v) = [state |-> u, out |-> Nothing]
        BY <2>1, <2>3 DEF NextPending
      <3> QED BY <1>1, <2>2, <3>1 DEF Advances
    <2>4. CASE u.pending # <<>>
      <3> DEFINE c == Head(u.pending)
                 f == IF c.cid = "received" THEN NotInFlight ELSE [command |-> c, attempts |-> 1]
                 t == [u EXCEPT !.pending = Tail(@)]
                 w == [u EXCEPT !.pending = Tail(@), !.in_flight = f]
      <3>1. GetDownlink(v) = [state |-> w, out |-> c]
        BY <2>1, <2>4 DEF NextPending
      <3>2. c \in Commands /\ Tail(u.pending) \in Seq(Commands)
        BY <1>0, <2>2, <2>4, HeadTailProperties
      <3>3. f \in InFlights /\ (c.cid # "received" => f.command = c) /\ f.command \in {c, Nothing}
        BY <1>1, <3>2 DEF InFlights
      <3>4. IsServer(t) /\ Shares(u, t) /\ t.pending = Tail(u.pending) /\ t.downlinks = u.downlinks
        BY <2>2, <3>2, WithPending
      <3>5. w = [t EXCEPT !.in_flight = f]
        BY <2>2 DEF IsServer
      <3> HIDE DEF c, f, t, w
      <3>6. IsServer(w) /\ Shares(t, w) /\ w.pending = t.pending /\ w.in_flight = f
            /\ w.downlinks = t.downlinks
        BY <3>3, <3>4, <3>5, WithInFlight
      <3>7. Advances(v, w)
        BY <2>2, <2>4, <3>3, <3>4, <3>6 DEF Advances, c
      <3> QED BY <2>2, <3>1, <3>2, <3>3, <3>4, <3>6, <3>7 DEF Shares
    <2> QED BY <2>3, <2>4
  <1> QED BY <1>2, <1>3

LEMMA DownlinkBuilt ==
    ASSUME NEW v, IsServer(v), NEW others
    PROVE  LET b == BuildDownlink(v, others)
           IN AfterDownlink(v, b.state, b.out)
  <1>0. v.downlinks \in Seq(Fragments) /\ v.in_flight.command \in Commands \cup {Nothing}
    BY ServerFields
  <1>1. CASE v.downlinks # <<>>
    <2> DEFINE w == [v EXCEPT !.downlinks = Tail(@)]
    <2>1. BuildDownlink(v, others) = [state |-> w, out |-> Head(v.downlinks)]
      BY <1>1 DEF BuildDownlink
    <2>2. Tail(v.downlinks) \in Seq(Fragments) /\ Head(v.downlinks) \in Fragments
      BY <1>0, <1>1, HeadTailProperties
    <2>3. IsServer(w) /\ Shares(v, w) /\ w.pending = v.pending /\ w.in_flight = v.in_flight
          /\ w.downlinks = Tail(v.downlinks)
      BY <2>2, WithDownlinks
    <2> HIDE DEF w
    <2>4. Head(v.downlinks).cid = "fragment"
      BY <2>2, FragmentFields
    <2>5. AfterDownlink(v, w, Head(v.downlinks))
      BY <1>1, <2>3, <2>4 DEF AfterDownlink, Advances
    <2> QED BY <2>1, <2>5
  <1>2. CASE v.downlinks = <<>>
    <2> DEFINE first == FirstServed(v, others \cup {App})
               mine  == GetDownlink(v)
    <2>1. /\ IsServer(mine.state) /\ Shares(v, mine.state) /\ Advances(v, mine.state)
          /\ mine.state.downlinks = v.downlinks /\ mine.out \in Commands \cup {Nothing}
          /\ mine.out.cid \in {"setup", "delete"} => mine.out = mine.state.in_flight.command
      BY CommandChosen
    <2>2. BuildDownlink(v, others) =
            IF first # App THEN [state |-> Served(v, first), out |-> Nothing]
            ELSE IF mine.out # Nothing THEN [mine EXCEPT !.state = Served(@, App)]
            ELSE IF others = {} THEN mine
            ELSE [mine EXCEPT !.state = Served(@, FirstServed(v, others))]
      BY <1>2 DEF BuildDownlink
    <2>3. mine = [state |-> mine.state, out |-> mine.out]
      BY DEF GetDownlink, NextPending
    <2> HIDE DEF first, mine
    <2>4. \A a : AfterDownlink(v, Served(v, a), Nothing)
      <3>1. Nothing.cid = "none"
        BY DEF Nothing
      <3> QED BY <3>1, WithTurn DEF AfterDownlink, Advances
    <2>5. \A a : AfterDownlink(v, Served(mine.state, a), mine.out)
      <3>1. SUFFICES ASSUME NEW a PROVE AfterDownlink(v, Served(mine.state, a), mine.out)
        OBVIOUS
      <3> DEFINE w == Served(mine.state, a)
      <3>2. /\ IsServer(w) /\ Shares(mine.state, w) /\ w.pending = mine.state.pending
            /\ w.in_flight = mine.state.in_flight /\ w.downlinks = mine.state.downlinks
        BY <2>1, WithTurn
      <3> HIDE DEF w
      <3>3. AfterDownlink(v, w, mine.out)
        BY <2>1, <3>2 DEF AfterDownlink, Advances, Shares
      <3> QED BY <3>3 DEF w
    <2>6. AfterDownlink(v, mine.state, mine.out)
      BY <2>1 DEF AfterDownlink
    <2>7. CASE first # App
      BY <2>2, <2>4, <2>7
    <2>8. CASE first = App /\ mine.out # Nothing
      <3>1. BuildDownlink(v, others) = [mine EXCEPT !.state = Served(@, App)]
        BY <2>2, <2>8
      <3>2. /\ BuildDownlink(v, others).state = Served(mine.state, App)
            /\ BuildDownlink(v, others).out = mine.out
        BY <2>3, <3>1
      <3> QED BY <2>5, <3>2
    <2>9. CASE first = App /\ mine.out = Nothing /\ others = {}
      BY <2>2, <2>6, <2>9
    <2>10. CASE first = App /\ mine.out = Nothing /\ others # {}
      <3>1. BuildDownlink(v, others) = [mine EXCEPT !.state = Served(@, FirstServed(v, others))]
        BY <2>2, <2>10
      <3>2. /\ BuildDownlink(v, others).state = Served(mine.state, FirstServed(v, others))
            /\ BuildDownlink(v, others).out = mine.out
        BY <2>3, <3>1
      <3> QED BY <2>5, <3>2
    <2> QED BY <2>7, <2>8, <2>9, <2>10
  <1> QED BY <1>1, <1>2

-----------------------------------------------------------------------------
(* Steps of the server.                                                    *)

LEMMA CreatedGrows ==
    ASSUME created \in Nat, created' \in Nat, created <= created', NEW i
    PROVE  Created(i) \subseteq Created(i)' /\ (Twice(i) => Twice(i)')
  <1>1. Created(i) \subseteq Created(i)'
    BY DEF Created, Index
  <1> QED BY <1>1 DEF Twice

\* What a step that leaves the device alone keeps
LEMMA DeviceKept ==
    ASSUME FragInv, UNCHANGED <<deviceVars, sent>>, created' \in Nat, created <= created',
           \A i \in Indexes : Trusts(server', i) => images[i] # 0,
           air'.to = "server" => air' = air \/ ~Reporting(air'.message)
    PROVE  QueueTyped' /\ DeviceTyped' /\ AttemptsCounted' /\ CompletesOnce' /\ ImagesKnown'
           /\ ReportsTrue'
  <1>1. /\ dev' = dev /\ last_cnt' = last_cnt /\ images' = images /\ uplinks' = uplinks
        /\ ready' = ready /\ loops' = loops /\ sent' = sent
    BY DEF deviceVars
  <1>2. QueueTyped' /\ DeviceTyped'
    BY <1>1 DEF FragInv, QueueTyped, DeviceTyped
  <1>3. AttemptsCounted'
    BY <1>1 DEF FragInv, AttemptsCounted, LoopCounts, Copies
  <1>4. CompletesOnce'
    BY <1>1 DEF FragInv, CompletesOnce
  <1>5. ImagesKnown'
    <2>1. created \in Nat
      BY Constants DEF FragInv, ServerTyped
    <2>2. \A i : Created(i) \subseteq Created(i)' /\ (Twice(i) => Twice(i)')
      BY <2>1, CreatedGrows
    <2> QED BY <1>1, <2>2 DEF FragInv, ImagesKnown
  <1>6. ReportsTrue'
    <2>1. ReportsTrue
      BY DEF FragInv
    <2>2. \A i \in Indexes : Trusts(server, i)' => images[i] # 0
      BY DEF Trusts
    <2> QED BY <1>1, <2>1, <2>2 DEF ReportsTrue
  <1> QED BY <1>2, <1>3, <1>4, <1>5, <1>6

LEMMA SessionNumbers ==
    ASSUME FragInv
    PROVE  /\ created \in Nat /\ created \in Numbers /\ IsServer(server)
           /\ \A t \in 1 .. created : t \in Sessions /\ Index(t) \in Indexes
           /\ \A i \in Indexes : /\ server.sessions[i].session \in Numbers
                                 /\ server.sessions[i].session \in Nat
                                 /\ dev[i].session \in Numbers /\ dev[i].session \in Nat
  <1>1. created \in Numbers /\ IsServer(server) /\ dev \in [Indexes -> DeviceSessions]
    BY DEF FragInv, ServerTyped, DeviceTyped
  <1>2. \A n \in Numbers : n \in Nat
    BY Constants
  <1>3. \A t \in 1 .. created : t \in Sessions /\ Index(t) \in Indexes
    BY <1>1, Constants
  <1>4. \A i \in Indexes : server.sessions[i].session \in Numbers /\ dev[i].session \in Numbers
    BY <1>1, ServerFields DEF ServerSessions, DeviceSessions
  <1> QED BY <1>1, <1>2, <1>3, <1>4

\* The newest session of an index is the one that the server has
LEMMA ServerHasNewest ==
    ASSUME FragInv, NEW i \in Indexes
    PROVE  /\ dev[i].session <= server.sessions[i].session
           /\ \A j \in Line(server) :
                CommandAt(server, j).cid = "setup" /\ CommandAt(server, j).idx = i
                    => CommandAt(server, j).session <= server.sessions[i].session
  <1>1. /\ created \in Nat /\ dev[i].session \in Nat /\ server.sessions[i].session \in Nat
        /\ IsServer(server)
    BY SessionNumbers
  <1>2. \A t \in 1 .. created : Index(t) = i => t <= server.sessions[i].session
    BY DEF FragInv, SessionsKnown
  <1>3. dev[i].session <= server.sessions[i].session
    <2>1. dev[i].session \in Created(i) \cup {0}
      BY DEF FragInv, SessionsKnown
    <2> QED BY <1>1, <1>2, <2>1 DEF Created
  <1>4. ASSUME NEW j \in Line(server), CommandAt(server, j).cid = "setup",
               CommandAt(server, j).idx = i
        PROVE  CommandAt(server, j).session <= server.sessions[i].session
    <2>1. CommandAt(server, j) \in Commands \cup {Nothing}
      BY <1>1, ServerFields DEF Line, CommandAt
    <2>2. CommandAt(server, j) \in Commands
      BY <1>4, <2>1 DEF Nothing
    <2>3. CommandAt(server, j).session \in Sessions /\ Index(CommandAt(server, j).session) = i
      BY <1>4, <2>2, CommandFields
    <2>4. CommandAt(server, j).session <= created
      BY <1>4 DEF FragInv, CommandsOrdered, SetupsKnown
    <2>5. CommandAt(server, j).session \in 1 .. created
      BY <1>1, <2>3, <2>4, Constants
    <2> QED BY <1>2, <2>3, <2>5
  <1> QED BY <1>3, <1>4

LEMMA CommandQueued ==
    ASSUME NEW v, IsServer(v), NEW c \in Commands
    PROVE  /\ IsServer(Queued(v, c)) /\ Shares(v, Queued(v, c)) /\ Appends(v, Queued(v, c), c)
           /\ Queued(v, c).in_flight = v.in_flight /\ Queued(v, c).downlinks = v.downlinks
  <1>1. v.pending \in Seq(Commands)
    BY ServerFields
  <1>2. Append(v.pending, c) \in Seq(Commands)
    BY <1>1, AppendProperties
  <1> QED BY <1>2, WithPending DEF Queued, Appends

LEMMA CreateSessionKeeps ==
    ASSUME FragInv, CreateSession
    PROVE  FragInv'
  <1> DEFINE s == created + 1
             x == [NoServerSession EXCEPT !.session = s]
             u == [server EXCEPT !.sessions[Index(s)] = x]
  <1>0. /\ created \in Nat /\ IsServer(server)
        /\ \A i \in Indexes : server.sessions[i].session \in Nat
    BY SessionNumbers
  <1>1. /\ s \in Sessions /\ created' = s /\ server' = Queued(u, SetupReq(s)) /\ s \in Numbers
        /\ UNCHANGED <<requests, multicast, air, deviceVars, sent>>
    BY <1>0, Constants DEF CreateSession
  <1>2. Index(s) \in Indexes /\ SetupReq(s) \in Commands
    BY <1>1, Constants DEF Commands
  <1>3. x \in ServerSessions /\ x.session = s /\ x.completed = FALSE
    BY <1>1 DEF NoServerSession, ServerSessions
  <1> HIDE DEF x
  <1>4. /\ IsServer(u) /\ u.latest_status = server.latest_status /\ u.pending = server.pending
        /\ u.in_flight = server.in_flight /\ u.downlinks = server.downlinks
        /\ u.sessions = [server.sessions EXCEPT ![Index(s)] = x]
    BY <1>0, <1>2, <1>3, WithSession
  <1> HIDE DEF u
  <1>5. /\ IsServer(server') /\ Shares(u, server') /\ Appends(u, server', SetupReq(s))
        /\ server'.in_flight = u.in_flight /\ server'.downlinks = u.downlinks
    BY <1>1, <1>2, <1>4, CommandQueued
  <1>6. /\ server'.sessions[Index(s)] = x
        /\ \A i \in Indexes : i # Index(s) => server'.sessions[i] = server.sessions[i]
    <2>1. server.sessions \in [Indexes -> ServerSessions]
      BY <1>0, ServerFields
    <2> QED BY <1>2, <1>4, <1>5, <2>1 DEF Shares
  <1>7. ServerTyped' /\ AirTyped'
    BY <1>1, <1>5 DEF FragInv, ServerTyped, AirTyped
  <1>8. \A i \in Indexes : Trusts(server', i) => images[i] # 0
    <2>1. \A i \in Indexes : Trusts(server', i) => Trusts(server, i)
      BY <1>3, <1>4, <1>5, <1>6 DEF Trusts, Shares
    <2> QED BY <2>1 DEF FragInv, ReportsTrue
  <1>9. created' \in Nat /\ created <= created' /\ air' = air
    BY <1>0, <1>1
  <1>10. QueueTyped' /\ DeviceTyped' /\ AttemptsCounted' /\ CompletesOnce' /\ ImagesKnown'
         /\ ReportsTrue'
    BY <1>1, <1>8, <1>9, DeviceKept
  <1>11. SessionsKnown'
    <2>1. \A i : Created(i) \subseteq Created(i)'
      BY <1>0, <1>9, CreatedGrows
    <2>2. \A t \in 1 .. created' : t <= server'.sessions[Index(t)].session
      <3>1. SUFFICES ASSUME NEW t \in 1 .. created' PROVE t <= server'.sessions[Index(t)].session
        OBVIOUS
      <3>2. t \in Sessions /\ t <= s /\ Index(t) \in Indexes
        BY <1>0, <1>1, Constants
      <3>3. CASE Index(t) = Index(s)
        BY <1>3, <1>6, <3>2, <3>3
      <3>4. CASE Index(t) # Index(s)
        <4>1. t \in 1 .. created
          BY <1>0, <1>1, <3>2, <3>4
        <4>2. t <= server.sessions[Index(t)].session
          BY <4>1 DEF FragInv, SessionsKnown
        <4> QED BY <1>6, <3>2, <3>4, <4>2
      <3> QED BY <3>3, <3>4
    <2>3. ASSUME NEW i \in Indexes
          PROVE  /\ server'.sessions[i].session \in Created(i)' \cup {0}
                 /\ dev'[i].session \in Created(i)' \cup {0}
      <3>1. dev'[i].session \in Created(i)' \cup {0}
        BY <1>1, <2>1 DEF FragInv, SessionsKnown, deviceVars
      <3>2. CASE i = Index(s)
        <4>1. s \in Created(i)'
          BY <1>0, <1>1, <3>2 DEF Created, Index
        <4> QED BY <1>3, <1>6, <3>1, <3>2, <4>1
      <3>3. CASE i # Index(s)
        BY <1>6, <2>1, <3>1, <3>3 DEF FragInv, SessionsKnown
      <3> QED BY <3>2, <3>3
    <2>4. \A t \in 1 .. created : t \in 1 .. created'
      BY <1>0, <1>1
    <2> QED BY <1>1, <1>4, <1>5, <2>2, <2>3, <2>4 DEF FragInv, SessionsKnown, Index
  <1>12. CommandsOrdered'
    <2>1. SetupsKnown(u, created) /\ DeletionsMeant(u, dev)
      <3>1. SetupsKnown(server, created) /\ DeletionsMeant(server, dev)
        BY DEF FragInv, CommandsOrdered
      <3> QED BY <1>4, <3>1 DEF SetupsKnown, DeletionsMeant, DeletionMeant, CommandAt, Line
    <2>2. SetupsKnown(u, s)
      <3>1. ASSUME NEW k \in Line(u), CommandAt(u, k).cid = "setup" PROVE CommandAt(u, k).session <= s
        <4>1. CommandAt(u, k) \in Commands \cup {Nothing}
          BY <1>4, ServerFields DEF Line, CommandAt
        <4>2. CommandAt(u, k).session \in Sessions /\ CommandAt(u, k).session <= created
          BY <2>1, <3>1, <4>1, CommandFields DEF SetupsKnown, Nothing
        <4> QED BY <1>0, <4>2, Constants
      <3> QED BY <3>1 DEF SetupsKnown
    <2>3. SetupReq(s).cid = "setup" /\ SetupReq(s).session = s /\ s <= s
      BY <1>0 DEF SetupReq
    <2>4. SetupsKnown(server', s) /\ DeletionsMeant(server', dev)
      BY <1>2, <1>4, <1>5, <2>1, <2>2, <2>3, AppendKeepsOrder
    <2>5. SetupsKnown(server, created)' /\ DeletionsMeant(server, dev)'
      BY <1>1, <2>4 DEF SetupsKnown, DeletionsMeant, DeletionMeant, CommandAt, Line, deviceVars
    <2> QED BY <1>1, <1>4, <1>5, <2>5 DEF FragInv, CommandsOrdered
  <1> QED BY <1>7, <1>10, <1>11, <1>12 DEF FragInv

LEMMA RequestKeeps ==
    ASSUME FragInv, Request, NEW c \in Commands, server' = Queued(server, c), c.cid # "setup",
           c.cid = "delete" => c.session = server.sessions[c.idx].session
    PROVE  FragInv'
  <1>0. created \in Nat /\ IsServer(server)
    BY SessionNumbers
  <1>1. UNCHANGED <<created, multicast, air, deviceVars, sent>>
    BY DEF Request
  <1>2. /\ IsServer(server') /\ Shares(server, server') /\ Appends(server, server', c)
        /\ server'.in_flight = server.in_flight /\ server'.downlinks = server.downlinks
    BY <1>0, CommandQueued
  <1>3. ServerTyped' /\ AirTyped'
    BY <1>1, <1>2 DEF FragInv, ServerTyped, AirTyped
  <1>4. \A i \in Indexes : Trusts(server', i) => images[i] # 0
    BY <1>2 DEF Trusts, Shares, FragInv, ReportsTrue
  <1>5. QueueTyped' /\ DeviceTyped' /\ AttemptsCounted' /\ CompletesOnce' /\ ImagesKnown'
         /\ ReportsTrue'
    <2>1. created' \in Nat /\ created <= created' /\ air' = air
      BY <1>0, <1>1
    <2> QED BY <1>1, <1>4, <2>1, DeviceKept
  <1>6. SessionsKnown'
    BY <1>1, <1>2 DEF FragInv, SessionsKnown, Created, Shares, deviceVars
  <1>7. CommandsOrdered'
    <2>1. SetupsKnown(server, created) /\ DeletionsMeant(server, dev)
      BY DEF FragInv, CommandsOrdered
    <2>2. c.cid = "delete" =>
            /\ dev[c.idx].session <= c.session
            /\ \A j \in Line(server) :
                CommandAt(server, j).cid = "setup" /\ CommandAt(server, j).idx = c.idx
                    => CommandAt(server, j).session <= c.session
      BY CommandFields, ServerHasNewest
    <2>3. SetupsKnown(server', created) /\ DeletionsMeant(server', dev)
      BY <1>0, <1>2, <2>1, <2>2, AppendKeepsOrder
    <2>4. SetupsKnown(server, created)' /\ DeletionsMeant(server, dev)'
      BY <1>1, <2>3 DEF SetupsKnown, DeletionsMeant, DeletionMeant, CommandAt, Line, deviceVars
    <2> QED BY <1>1, <1>2, <2>4 DEF FragInv, CommandsOrdered
  <1> QED BY <1>3, <1>5, <1>6, <1>7 DEF FragInv

LEMMA RequestsKeep ==
    ASSUME FragInv,
           RequestPackageVersion \/ \E i \in Indexes : RequestStatus(i) \/ DeleteSession(i)
    PROVE  FragInv'
  <1>1. CASE RequestPackageVersion
    <2>1. PackageVersionReq \in Commands /\ PackageVersionReq.cid = "version"
      BY DEF Commands, PackageVersionReq
    <2> QED BY <1>1, <2>1, RequestKeeps DEF RequestPackageVersion
  <1>2. ASSUME NEW i \in Indexes, RequestStatus(i) PROVE FragInv'
    <2>1. PICK p \in BOOLEAN : Request /\ server' = Queued(server, StatusReq(i, p))
      BY <1>2 DEF RequestStatus
    <2>2. StatusReq(i, p) \in Commands /\ StatusReq(i, p).cid = "status"
      <3>1. StatusReq(i, p) \in Commands
        BY DEF Commands
      <3> QED BY <3>1 DEF StatusReq
    <2> QED BY <2>1, <2>2, RequestKeeps
  <1>3. ASSUME NEW i \in Indexes, DeleteSession(i) PROVE FragInv'
    <2> DEFINE s == server.sessions[i].session
    <2>1. Request /\ server' = Queued(server, DeleteReq(i, s)) /\ s \in Numbers
      BY <1>3, SessionNumbers DEF DeleteSession
    <2>2. DeleteReq(i, s) \in Commands
      BY <2>1 DEF Commands
    <2>3. DeleteReq(i, s).cid = "delete" /\ DeleteReq(i, s).session = s /\ DeleteReq(i, s).idx = i
      BY DEF DeleteReq
    <2> QED BY <2>1, <2>2, <2>3, RequestKeeps
  <1> QED BY <1>1, <1>2, <1>3

LEMMA LargerOfTwo ==
    ASSUME NEW a \in Nat, NEW b \in Nat
    PROVE  Max({a, b}) \in Nat
  <1>1. \E x \in {a, b} : \A y \in {a, b} : x >= y
    <2>1. a >= b \/ b >= a
      OBVIOUS
    <2> QED BY <2>1
  <1> QED BY <1>1 DEF Max

\* A fragment of the server's session is put into one of the queues
LEMMA FragmentKeeps ==
    ASSUME FragInv, NEW i \in Indexes, NEW n \in 1 .. LastFrag, NEW x \in ServerSessions,
           server.sessions[i].session # 0,
           x.session = server.sessions[i].session, x.completed = server.sessions[i].completed,
           x.mic_error = server.sessions[i].mic_error,
           IsServer(server'), server'.sessions = [server.sessions EXCEPT ![i] = x],
           server'.latest_status = server.latest_status, server'.pending = server.pending,
           server'.in_flight = server.in_flight,
           \/ /\ multicast' = multicast
              /\ server'.downlinks = Append(server.downlinks, DataFragment(server.sessions[i].session, n))
           \/ /\ multicast' = Append(multicast, DataFragment(server.sessions[i].session, n))
              /\ server'.downlinks = server.downlinks,
           UNCHANGED <<created, air, deviceVars, sent>>
    PROVE  FragInv'
  <1> DEFINE s == server.sessions[i].session
             f == DataFragment(s, n)
  <1>0. /\ created \in Nat /\ IsServer(server) /\ s \in Numbers
        /\ server.sessions \in [Indexes -> ServerSessions]
        /\ server.downlinks \in Seq(Fragments) /\ multicast \in Seq(Fragments)
    BY SessionNumbers, ServerFields DEF FragInv, ServerTyped
  <1>1. s \in Created(i)
    BY DEF FragInv, SessionsKnown
  <1>2. s \in 1 .. created /\ s \in Sessions /\ f \in Fragments /\ f.session = s
    <2>1. s \in 1 .. created /\ s \in Sessions
      BY <1>1, SessionNumbers DEF Created
    <2>2. f \in Fragments
      BY <2>1 DEF Fragments
    <2> QED BY <2>1, <2>2 DEF DataFragment
  <1> HIDE DEF f
  <1>3. ServerTyped' /\ AirTyped'
    <2>1. multicast' \in Seq(Fragments)
      BY <1>0, <1>2, AppendProperties, SMTT(20) DEF f
    <2> QED BY <2>1 DEF FragInv, ServerTyped, AirTyped
  <1>4. \A j \in Indexes : /\ server'.sessions[j].session = server.sessions[j].session
                           /\ server'.sessions[j].completed = server.sessions[j].completed
                           /\ server'.sessions[j].mic_error = server.sessions[j].mic_error
    <2>1. SUFFICES ASSUME NEW j \in Indexes
                   PROVE  /\ server'.sessions[j].session = server.sessions[j].session
                          /\ server'.sessions[j].completed = server.sessions[j].completed
                          /\ server'.sessions[j].mic_error = server.sessions[j].mic_error
      OBVIOUS
    <2>2. CASE j = i
      BY <1>0, <2>2
    <2>3. CASE j # i
      BY <1>0, <2>3
    <2> QED BY <2>2, <2>3
  <1>5. \A j \in Indexes : Trusts(server', j) => images[j] # 0
    <2>1. \A j \in Indexes : Trusts(server', j) => Trusts(server, j)
      BY <1>4 DEF Trusts
    <2> QED BY <2>1 DEF FragInv, ReportsTrue
  <1>6. QueueTyped' /\ DeviceTyped' /\ AttemptsCounted' /\ CompletesOnce' /\ ImagesKnown'
         /\ ReportsTrue'
    <2>1. created' \in Nat /\ created <= created' /\ air' = air
      BY <1>0
    <2> QED BY <1>5, <2>1, DeviceKept
  <1>7. SessionsKnown'
    <2>1. ASSUME NEW q \in Seq(Fragments), \A k \in DOMAIN q : q[k].session \in 1 .. created
          PROVE  \A k \in DOMAIN Append(q, f) : Append(q, f)[k].session \in 1 .. created
      <3>1. /\ Len(Append(q, f)) = Len(q) + 1 /\ Append(q, f) \in Seq(Fragments)
            /\ \A k \in 1 .. Len(q) : Append(q, f)[k] = q[k]
            /\ Append(q, f)[Len(q) + 1] = f
        BY <1>2, AppendProperties
      <3>2. Len(q) \in Nat /\ DOMAIN q = 1 .. Len(q) /\ DOMAIN Append(q, f) = 1 .. Len(q) + 1
        BY <3>1, LenProperties
      <3> QED BY <1>2, <2>1, <3>1, <3>2
    <2>2. SessionsKnown
      BY DEF FragInv
    <2>3. /\ \A k \in DOMAIN server'.downlinks : server'.downlinks[k].session \in 1 .. created
          /\ \A k \in DOMAIN multicast' : multicast'[k].session \in 1 .. created
      <3>1. /\ \A k \in DOMAIN server.downlinks : server.downlinks[k].session \in 1 .. created
            /\ \A k \in DOMAIN multicast : multicast[k].session \in 1 .. created
        BY <2>2 DEF SessionsKnown
      <3> QED BY <1>0, <2>1, <3>1 DEF f
    <2>4. \A t \in 1 .. created : t <= server'.sessions[Index(t)].session
      BY <1>4, <2>2, SessionNumbers DEF SessionsKnown
    <2>5. \A j \in Indexes : server'.sessions[j].session \in Created(j) \cup {0}
      BY <1>4, <2>2 DEF SessionsKnown
    <2> QED BY <2>2, <2>3, <2>4, <2>5 DEF SessionsKnown, Created, Index, deviceVars
  <1>8. CommandsOrdered'
    BY DEF FragInv, CommandsOrdered, SetupsKnown, DeletionsMeant, DeletionMeant, CommandAt, Line,
           deviceVars
  <1> QED BY <1>3, <1>6, <1>7, <1>8 DEF FragInv

LEMMA FragmentsKeep ==
    ASSUME FragInv, NEW i \in Indexes,
           BroadcastFragment(i) \/ \E n \in 1 .. LastFrag : SendFragmentUnicast(i, n)
    PROVE  FragInv'
  <1> DEFINE o == server.sessions[i]
  <1>0. /\ IsServer(server) /\ o \in ServerSessions /\ LastFrag \in Nat
        /\ server.downlinks \in Seq(Fragments)
    BY SessionNumbers, ServerFields, Constants
  <1>1. ASSUME NEW n \in Nat
        PROVE  LET x == [o EXCEPT !.highest_n_sent = n]
               IN x \in ServerSessions /\ x.session = o.session /\ x.completed = o.completed
                  /\ x.mic_error = o.mic_error
    BY <1>0, <1>1 DEF ServerSessions
  <1>2. CASE BroadcastFragment(i)
    <2> DEFINE n == o.highest_n_sent + 1
               x == [o EXCEPT !.highest_n_sent = n]
    <2>1. /\ o.session # 0 /\ o.highest_n_sent < LastFrag
          /\ server' = [server EXCEPT !.sessions[i] = x]
          /\ multicast' = Append(multicast, DataFragment(o.session, n))
          /\ UNCHANGED <<created, requests, air, deviceVars, sent>>
      BY <1>2 DEF BroadcastFragment
    <2>2. n \in 1 .. LastFrag /\ n \in Nat
      <3>1. o.highest_n_sent \in Nat
        BY <1>0 DEF ServerSessions
      <3> QED BY <1>0, <2>1, <3>1
    <2>3. x \in ServerSessions /\ x.session = o.session /\ x.completed = o.completed
          /\ x.mic_error = o.mic_error
      BY <1>1, <2>2
    <2> HIDE DEF x, n
    <2>4. /\ IsServer(server') /\ server'.latest_status = server.latest_status
          /\ server'.pending = server.pending /\ server'.in_flight = server.in_flight
          /\ server'.downlinks = server.downlinks
          /\ server'.sessions = [server.sessions EXCEPT ![i] = x]
      BY <1>0, <2>1, <2>3, WithSession
    <2> QED BY <2>1, <2>2, <2>3, <2>4, FragmentKeeps
  <1>3. ASSUME NEW n \in 1 .. LastFrag, SendFragmentUnicast(i, n) PROVE FragInv'
    <2> DEFINE h == Max({o.highest_n_sent, n})
               x == [o EXCEPT !.highest_n_sent = h]
               q == Append(server.downlinks, DataFragment(o.session, n))
               u == [server EXCEPT !.sessions[i] = x]
    <2>1. /\ o.session # 0
          /\ server' = [server EXCEPT !.downlinks = q, !.sessions[i].highest_n_sent = h]
          /\ UNCHANGED <<created, multicast, air, deviceVars, sent>>
      BY <1>3 DEF SendFragmentUnicast, Request
    <2>2. h \in Nat
      <3>1. o.highest_n_sent \in Nat /\ n \in Nat
        BY <1>0 DEF ServerSessions
      <3> QED BY <3>1, LargerOfTwo
    <2> HIDE DEF h
    <2>3. x \in ServerSessions /\ x.session = o.session /\ x.completed = o.completed
          /\ x.mic_error = o.mic_error
      BY <1>1, <2>2
    <2>4. DataFragment(o.session, n) \in Fragments
      <3>1. o.session \in Created(i)
        BY <2>1 DEF FragInv, SessionsKnown
      <3>2. o.session \in Sessions
        BY <3>1, SessionNumbers DEF Created
      <3> QED BY <3>2 DEF Fragments
    <2>5. q \in Seq(Fragments)
      BY <1>0, <2>4, AppendProperties
    <2>6. server' = [u EXCEPT !.downlinks = q]
      BY <1>0, <2>1 DEF IsServer
    <2>7. /\ IsServer(u) /\ u.latest_status = server.latest_status
          /\ u.pending = server.pending /\ u.in_flight = server.in_flight
          /\ u.downlinks = server.downlinks
          /\ u.sessions = [server.sessions EXCEPT ![i] = x]
      BY <1>0, <2>3, WithSession
    <2> HIDE DEF u, q, x
    <2>8. IsServer(server') /\ Shares(u, server') /\ server'.pending = u.pending
          /\ server'.in_flight = u.in_flight /\ server'.downlinks = q
      BY <2>5, <2>6, <2>7, WithDownlinks
    <2>9. /\ server'.sessions = [server.sessions EXCEPT ![i] = x]
          /\ server'.latest_status = server.latest_status /\ server'.pending = server.pending
          /\ server'.in_flight = server.in_flight /\ multicast' = multicast
          /\ server'.downlinks = Append(server.downlinks, DataFragment(o.session, n))
      BY <2>1, <2>7, <2>8 DEF Shares, q
    <2> QED BY <2>1, <2>3, <2>8, <2>9, FragmentKeeps
  <1> QED BY <1>2, <1>3

\* A message is lost, and an uplink that has nothing to do with this package
LEMMA QuietStepsKeep ==
    ASSUME FragInv, SendOther \/ Lose \/ MissFragment \/ UNCHANGED vars
    PROVE  FragInv'
  <1>1. /\ UNCHANGED <<server, created, deviceVars, sent>>
        /\ multicast' = multicast \/ (multicast # <<>> /\ multicast' = Tail(multicast))
        /\ air' = air \/ (air'.to \in {"nobody", "server"} /\ air'.message = Nothing
                          /\ air' \in [to : {"nobody", "server"}, message : {Nothing}])
    BY DEF SendOther, Lose, MissFragment, Slot, vars, serverVars, deviceVars, queueVars
  <1>2. multicast \in Seq(Fragments) /\ created \in Nat
    BY SessionNumbers DEF FragInv, ServerTyped
  <1>3. /\ multicast' \in Seq(Fragments)
        /\ \A k \in DOMAIN multicast' : \E j \in DOMAIN multicast : multicast'[k] = multicast[j]
    <2>1. CASE multicast' = multicast
      BY <1>2, <2>1
    <2>2. CASE multicast # <<>> /\ multicast' = Tail(multicast)
      <3>1. /\ Tail(multicast) \in Seq(Fragments) /\ Len(Tail(multicast)) = Len(multicast) - 1
            /\ \A k \in 1 .. Len(multicast) - 1 : Tail(multicast)[k] = multicast[k + 1]
        BY <1>2, <2>2, HeadTailProperties
      <3>2. /\ Len(multicast) \in Nat /\ DOMAIN multicast = 1 .. Len(multicast)
            /\ DOMAIN Tail(multicast) = 1 .. Len(multicast) - 1
        BY <1>2, <3>1, LenProperties
      <3>3. \A k \in 1 .. Len(multicast) - 1 : k + 1 \in 1 .. Len(multicast)
        BY <3>2
      <3> QED BY <2>2, <3>1, <3>2, <3>3
    <2> QED BY <1>1, <2>1, <2>2
  <1>4. Nothing.cid = "none" /\ ~Reporting(Nothing)
    BY DEF Nothing, Reporting
  <1>5. ServerTyped' /\ AirTyped'
    <2>1. ServerTyped'
      BY <1>1, <1>3 DEF FragInv, ServerTyped
    <2>2. AirTyped'
      BY <1>1 DEF FragInv, AirTyped
    <2> QED BY <2>1, <2>2
  <1>6. QueueTyped' /\ DeviceTyped' /\ AttemptsCounted' /\ CompletesOnce' /\ ImagesKnown'
         /\ ReportsTrue'
    <2>1. created' \in Nat /\ created <= created'
      BY <1>1, <1>2
    <2>2. air'.to = "server" => air' = air \/ ~Reporting(air'.message)
      BY <1>1, <1>4
    <2>3. \A i \in Indexes : Trusts(server', i) => images[i] # 0
      BY <1>1 DEF FragInv, ReportsTrue
    <2> QED BY <1>1, <2>1, <2>2, <2>3, DeviceKept
  <1>7. SessionsKnown'
    BY <1>1, <1>3, <1>4 DEF FragInv, SessionsKnown, Created, Index, deviceVars
  <1>8. CommandsOrdered'
    <2>1. SetupsKnown(server, created)' /\ DeletionsMeant(server, dev)'
      BY <1>1 DEF FragInv, CommandsOrdered, SetupsKnown, DeletionsMeant, DeletionMeant, CommandAt, Line,
             deviceVars
    <2> QED BY <1>1, <2>1 DEF FragInv, CommandsOrdered
  <1> QED BY <1>5, <1>6, <1>7, <1>8 DEF FragInv

LEMMA ReceiveUplinkKeeps ==
    ASSUME FragInv, NEW others, ReceiveUplink(others)
    PROVE  FragInv'
  <1> DEFINE a == air.message
             m == Decoded(a)
             u == OnUplink(server, m)
             b == BuildDownlink(u, others)
  <1>0. /\ created \in Nat /\ IsServer(server) /\ a \in Answers \cup {Nothing}
        /\ air.to = "server"
    BY SessionNumbers DEF FragInv, AirTyped, ReceiveUplink
  <1>1. /\ server' = b.state
        /\ air' = [to |-> IF b.out = Nothing THEN "nobody" ELSE "device", message |-> b.out]
        /\ UNCHANGED <<created, requests, multicast, deviceVars, sent>>
    BY DEF ReceiveUplink
  <1>2. m \in Answers \cup {Nothing} /\ (Reporting(m) => Reporting(a) /\ m = a)
    BY <1>0, DecodedFields
  <1> HIDE DEF m
  <1>3. AfterUplink(server, u, m)
    BY <1>0, <1>2, UplinkHandled
  <1> HIDE DEF u
  <1>4. AfterDownlink(u, b.state, b.out)
    BY <1>3, DownlinkBuilt DEF AfterUplink
  <1> DEFINE out == b.out
  <1>5. AfterDownlink(u, server', out) /\ air'.message = out
        /\ air'.to = (IF out = Nothing THEN "nobody" ELSE "device")
        /\ air' \in [to : {"nobody", "device"}, message : {out}]
    BY <1>1, <1>4
  <1> HIDE DEF out, b
  <1>6. IsServer(u) /\ u.downlinks = server.downlinks /\ u.downlinks \in Seq(Fragments)
    BY <1>0, <1>3, ServerFields DEF AfterUplink
  <1>7. out \in Commands \cup {Nothing} \/ (u.downlinks # <<>> /\ out = Head(u.downlinks)
                                            /\ out \in Fragments /\ out.session \in 1 .. created)
    <2>1. CASE u.downlinks # <<>> /\ out = Head(u.downlinks)
      <3>1. Head(u.downlinks) \in Fragments /\ Head(u.downlinks) = u.downlinks[1]
        BY <1>6, <2>1, HeadTailProperties
      <3>2. 1 \in DOMAIN u.downlinks
        BY <1>6, <2>1, LenProperties, EmptySeq
      <3>3. u.downlinks[1].session \in 1 .. created
        BY <1>6, <3>2 DEF FragInv, SessionsKnown
      <3> QED BY <2>1, <3>1, <3>3
    <2> QED BY <1>5, <2>1 DEF AfterDownlink
  <1>8. ServerTyped' /\ AirTyped'
    <2>1. ServerTyped'
      BY <1>1, <1>5 DEF FragInv, ServerTyped, AfterDownlink
    <2>2. AirTyped'
      BY <1>5, <1>7 DEF AirTyped
    <2> QED BY <2>1, <2>2
  <1>9. QueueTyped' /\ DeviceTyped' /\ AttemptsCounted' /\ CompletesOnce' /\ ImagesKnown'
         /\ ReportsTrue'
    <2>1. created' \in Nat /\ created <= created' /\ air'.to # "server"
      BY <1>0, <1>1, <1>5
    <2>2. ASSUME NEW i \in Indexes, Trusts(server', i) PROVE images[i] # 0
      <3>1. Trusts(u, i)
        BY <1>5, <2>2 DEF AfterDownlink, Shares, Trusts
      <3>2. Trusts(server, i) \/ (Reporting(a) /\ a.idx = i)
        BY <1>2, <1>3, <3>1 DEF AfterUplink
      <3> QED BY <1>0, <3>2 DEF FragInv, ReportsTrue
    <2> QED BY <1>1, <2>1, <2>2, DeviceKept
  <1>10. SessionsKnown'
    <2>1. \A i \in Indexes : server'.sessions[i].session = server.sessions[i].session
      BY <1>3, <1>5 DEF AfterUplink, AfterDownlink, Shares
    <2>2. \A k \in DOMAIN server'.downlinks : server'.downlinks[k].session \in 1 .. created
      <3>1. \A k \in DOMAIN u.downlinks : u.downlinks[k].session \in 1 .. created
        BY <1>6 DEF FragInv, SessionsKnown
      <3>2. CASE server'.downlinks = u.downlinks
        BY <3>1, <3>2
      <3>3. CASE u.downlinks # <<>> /\ server'.downlinks = Tail(u.downlinks)
        <4>1. /\ Tail(u.downlinks) \in Seq(Fragments) /\ Len(Tail(u.downlinks)) = Len(u.downlinks) - 1
              /\ \A k \in 1 .. Len(u.downlinks) - 1 : Tail(u.downlinks)[k] = u.downlinks[k + 1]
          BY <1>6, <3>3, HeadTailProperties
        <4>2. /\ Len(u.downlinks) \in Nat /\ DOMAIN u.downlinks = 1 .. Len(u.downlinks)
              /\ DOMAIN Tail(u.downlinks) = 1 .. Len(u.downlinks) - 1
          BY <1>6, <4>1, LenProperties
        <4>3. \A k \in 1 .. Len(u.downlinks) - 1 : k + 1 \in 1 .. Len(u.downlinks)
          BY <4>2
        <4> QED BY <3>1, <3>3, <4>1, <4>2, <4>3
      <3> QED BY <1>5, <3>2, <3>3 DEF AfterDownlink
    <2>3. air'.message.cid = "fragment" => air'.message.session \in 1 .. created
      BY <1>5, <1>7, CommandFields DEF Nothing
    <2>4. SessionsKnown
      BY DEF FragInv
    <2>5. \A t \in 1 .. created : t <= server'.sessions[Index(t)].session
      BY <2>1, <2>4, SessionNumbers DEF SessionsKnown
    <2>6. \A j \in Indexes : server'.sessions[j].session \in Created(j) \cup {0}
      BY <2>1, <2>4 DEF SessionsKnown
    <2> QED BY <1>1, <2>2, <2>3, <2>4, <2>5, <2>6 DEF SessionsKnown, Created, Index, deviceVars
  <1>11. CommandsOrdered'
    <2>1. SetupsKnown(server, created) /\ DeletionsMeant(server, dev)
      BY DEF FragInv, CommandsOrdered
    <2>2. SetupsKnown(u, created) /\ DeletionsMeant(u, dev)
      <3>1. CASE Advances(server, u)
        BY <1>0, <1>6, <2>1, <3>1, AdvanceKeepsOrder
      <3>2. ASSUME NEW i \in Indexes, Appends(server, u, BlockReceivedAns(i))
            PROVE  SetupsKnown(u, created) /\ DeletionsMeant(u, dev)
        <4>1. BlockReceivedAns(i) \in Commands
          BY DEF Commands
        <4>2. BlockReceivedAns(i).cid = "received"
          BY DEF BlockReceivedAns
        <4> QED BY <1>0, <2>1, <3>2, <4>1, <4>2, AppendKeepsOrder
      <3> QED BY <1>3, <3>1, <3>2 DEF AfterUplink
    <2>3. SetupsKnown(server', created) /\ DeletionsMeant(server', dev)
      BY <1>5, <1>6, <2>2, AdvanceKeepsOrder DEF AfterDownlink
    <2>4. SetupsKnown(server, created)' /\ DeletionsMeant(server, dev)'
      BY <1>1, <2>3 DEF SetupsKnown, DeletionsMeant, DeletionMeant, CommandAt, Line, deviceVars
    <2>5. air'.message.cid \in {"setup", "delete"} => air'.message = server'.in_flight.command
      BY <1>5, <1>7, FragmentFields DEF AfterDownlink, Nothing
    <2> QED BY <2>4, <2>5 DEF CommandsOrdered
  <1> QED BY <1>8, <1>9, <1>10, <1>11 DEF FragInv

-----------------------------------------------------------------------------
(* Steps of the device's queue and of its loops.                           *)

\* What a step that concerns only the queue and the loops keeps
LEMMA RestKept ==
    ASSUME FragInv, UNCHANGED <<serverVars, dev, last_cnt, images>>,
           air' = air \/ (air'.to = "server" /\ air'.message \in Answers
                          /\ air' \in [to : {"server"}, message : Answers])
    PROVE  ServerTyped' /\ AirTyped' /\ SessionsKnown' /\ CommandsOrdered' /\ ImagesKnown'
  <1>1. /\ server' = server /\ created' = created /\ multicast' = multicast /\ dev' = dev
        /\ images' = images
    BY DEF serverVars
  <1>2. ServerTyped' /\ AirTyped'
    BY <1>1 DEF FragInv, ServerTyped, AirTyped
  <1>3. SessionsKnown'
    BY <1>1 DEF FragInv, SessionsKnown, Created
  <1>4. CommandsOrdered'
    <2>1. SetupsKnown(server, created)' /\ DeletionsMeant(server, dev)'
      BY <1>1 DEF FragInv, CommandsOrdered, SetupsKnown, DeletionsMeant, DeletionMeant, CommandAt, Line
    <2> QED BY <1>1, <2>1 DEF FragInv, CommandsOrdered
  <1>5. ImagesKnown'
    BY <1>1 DEF FragInv, ImagesKnown, Created, Twice
  <1> QED BY <1>2, <1>3, <1>4, <1>5

\* A loop whose copies and whose own state are as they were
LEMMA SameLoopCounts ==
    ASSUME NEW s \in Sessions, LoopCounts(s), SameCopies(s), loops'[s].at = loops[s].at,
           loops'[s].attempts = loops[s].attempts, sent'[s] = sent[s]
    PROVE  LoopCounts(s)'
  BY DEF LoopCounts, SameCopies, Unique

LEMMA DelayEndsKeeps ==
    ASSUME FragInv, DelayEnds
    PROVE  FragInv'
  <1>1. /\ UNCHANGED <<serverVars, air, dev, last_cnt, images, uplinks, loops, sent>>
        /\ ready < Len(uplinks) /\ ready' = ready + 1
    BY DEF DelayEnds
  <1>2. ServerTyped' /\ AirTyped' /\ SessionsKnown' /\ CommandsOrdered' /\ ImagesKnown'
    BY <1>1, RestKept
  <1>3. QueueTyped'
    <2>1. QueueTyped /\ Len(uplinks) \in Nat
      BY CopiesAre DEF FragInv
    <2> QED BY <1>1, <2>1 DEF QueueTyped
  <1>4. DeviceTyped' /\ CompletesOnce'
    BY <1>1 DEF FragInv, DeviceTyped, CompletesOnce
  <1>5. AttemptsCounted'
    BY <1>1 DEF FragInv, AttemptsCounted, LoopCounts, Copies
  <1>6. ReportsTrue'
    BY <1>1 DEF FragInv, ReportsTrue, Trusts, serverVars
  <1> QED BY <1>2, <1>3, <1>4, <1>5, <1>6 DEF FragInv

\* A step of one loop, after its first
LEMMA LoopStepKeeps ==
    ASSUME FragInv, NEW s \in Sessions, UNCHANGED <<serverVars, air, dev, last_cnt, images, sent>>,
           NEW l \in LoopStates, loops' = [loops EXCEPT ![s] = l], loops[s].at # "none", l.at # "none",
           l.mic_error = loops[s].mic_error,
           QueueTyped', LoopCounts(s)', \A t \in Sessions : t # s => SameCopies(t),
           \A k \in DOMAIN uplinks' : \/ uplinks'[k] = BlockReceivedReq(s, loops[s].mic_error)
                                      \/ \E j \in DOMAIN uplinks : uplinks'[k] = uplinks[j]
    PROVE  FragInv'
  <1>1. ServerTyped' /\ AirTyped' /\ SessionsKnown' /\ CommandsOrdered' /\ ImagesKnown'
    BY RestKept
  <1>2. /\ loops \in [Sessions -> LoopStates] /\ loops'[s] = l
        /\ \A t \in Sessions : t # s => loops'[t] = loops[t]
    BY DEF FragInv, DeviceTyped
  <1>3. DeviceTyped'
    BY DEF FragInv, DeviceTyped
  <1>4. AttemptsCounted'
    <2>1. ASSUME NEW t \in Sessions, t # s PROVE LoopCounts(t)'
      <3>1. LoopCounts(t) /\ SameCopies(t) /\ loops'[t] = loops[t] /\ sent' = sent
        BY <1>2, <2>1 DEF FragInv, AttemptsCounted
      <3> QED BY <3>1, SameLoopCounts
    <2> QED BY <2>1 DEF AttemptsCounted
  <1>5. CompletesOnce'
    <2>1. ASSUME NEW t \in Sessions, loops'[t].at # "none" PROVE t <= last_cnt[Index(t)]
      BY <1>2, <2>1 DEF FragInv, CompletesOnce
    <2>2. ASSUME NEW i \in Indexes, dev[i].state = "receiving"
          PROVE  loops'[dev[i].session].at = "none"
      <3>1. dev[i].session # 0 /\ loops[dev[i].session].at = "none"
        BY <2>2 DEF FragInv, CompletesOnce
      <3>2. dev[i].session \in Sessions
        BY <3>1, SessionNumbers, Constants
      <3> QED BY <1>2, <3>1, <3>2
    <2> QED BY <2>1, <2>2 DEF FragInv, CompletesOnce, Index
  <1>6. ReportsTrue'
    <2>1. ReportsTrue
      BY DEF FragInv
    <2>2. ASSUME NEW t \in Sessions, loops'[t].at # "none", ~loops'[t].mic_error
          PROVE  images[Index(t)] # 0
      <3>1. loops[t].at # "none" /\ ~loops[t].mic_error
        BY <1>2, <2>2
      <3> QED BY <2>1, <3>1 DEF ReportsTrue
    <2>3. ASSUME NEW k \in DOMAIN uplinks', Reporting(uplinks'[k]) PROVE images[uplinks'[k].idx] # 0
      <3>1. CASE uplinks'[k] = BlockReceivedReq(s, loops[s].mic_error)
        <4>1. ~loops[s].mic_error /\ uplinks'[k].idx = Index(s)
          BY <2>3, <3>1 DEF BlockReceivedReq, Reporting
        <4> QED BY <2>1, <4>1 DEF ReportsTrue
      <3>2. CASE \E j \in DOMAIN uplinks : uplinks'[k] = uplinks[j]
        BY <2>1, <2>3, <3>2 DEF ReportsTrue
      <3> QED BY <3>1, <3>2
    <2>4. server' = server /\ dev' = dev /\ images' = images /\ air' = air
      BY DEF serverVars
    <2> QED BY <2>1, <2>2, <2>3, <2>4 DEF ReportsTrue, Trusts, Index
  <1> QED BY <1>1, <1>3, <1>4, <1>5, <1>6 DEF FragInv

\* The queue as it is
LEMMA QueueKept ==
    ASSUME QueueTyped, UNCHANGED queueVars
    PROVE  /\ QueueTyped' /\ \A s \in Sessions : SameCopies(s) /\ Copies(s)' = Copies(s)
           /\ \A k \in DOMAIN uplinks' : \E j \in DOMAIN uplinks : uplinks'[k] = uplinks[j]
  BY DEF queueVars, QueueTyped, SameCopies, Copies, Unique

LEMMA LoopFields ==
    ASSUME FragInv, NEW s \in Sessions
    PROVE  /\ loops[s] \in LoopStates /\ loops[s].attempts \in Nat /\ sent[s] \in Nat
           /\ loops[s].mic_error \in BOOLEAN /\ LoopCounts(s) /\ QueueTyped
           /\ loops \in [Sessions -> LoopStates]
  BY DEF FragInv, DeviceTyped, LoopStates, AttemptsCounted

LEMMA LoopNoticesSendingKeeps ==
    ASSUME FragInv, NEW s \in Sessions, LoopNoticesSending(s)
    PROVE  FragInv'
  <1> DEFINE l == [loops[s] EXCEPT !.at = "spacing", !.attempts = @ + 1]
  <1>1. /\ loops[s].at = "queued" /\ Copies(s) = {} /\ loops' = [loops EXCEPT ![s] = l]
        /\ UNCHANGED <<serverVars, air, dev, last_cnt, images, queueVars, sent>>
    <2>1. loops' = [loops EXCEPT ![s].at = "spacing", ![s].attempts = @ + 1]
      BY DEF LoopNoticesSending
    <2>2. loops' = [loops EXCEPT ![s] = l]
      BY <2>1, LoopFields
    <2> QED BY <2>2 DEF LoopNoticesSending
  <1>2. /\ loops[s].attempts \in Nat /\ sent[s] \in Nat /\ LoopCounts(s) /\ QueueTyped
        /\ loops \in [Sessions -> LoopStates] /\ MaxAckRetries \in Nat
    BY LoopFields, Constants
  <1>3. l \in LoopStates /\ l.at = "spacing" /\ l.attempts = loops[s].attempts + 1
        /\ l.mic_error = loops[s].mic_error
    <2>1. loops[s] \in LoopStates /\ loops[s].attempts + 1 \in Nat
      BY LoopFields
    <2>2. \A n \in Nat : LET k == [loops[s] EXCEPT !.at = "spacing", !.attempts = n]
                        IN k \in LoopStates /\ k.at = "spacing" /\ k.attempts = n
                           /\ k.mic_error = loops[s].mic_error
      BY <2>1 DEF LoopStates
    <2> QED BY <2>1, <2>2
  <1> HIDE DEF l
  <1>4. /\ QueueTyped' /\ (\A t \in Sessions : SameCopies(t) /\ Copies(t)' = Copies(t))
        /\ \A k \in DOMAIN uplinks' : \E j \in DOMAIN uplinks : uplinks'[k] = uplinks[j]
    BY <1>1, <1>2, QueueKept
  <1>5. LoopCounts(s)'
    <2>1. loops'[s] = l /\ Copies(s)' = {} /\ sent' = sent
      BY <1>1, <1>2, <1>4
    <2>2. loops[s].attempts <= MaxAckRetries /\ sent[s] = loops[s].attempts + 1
      BY <1>1, <1>2 DEF LoopCounts
    <2> QED BY <1>2, <1>3, <2>1, <2>2 DEF LoopCounts
  <1> QED BY <1>1, <1>3, <1>4, <1>5, LoopStepKeeps

LEMMA LoopStopsKeeps ==
    ASSUME FragInv, NEW s \in Sessions, LoopStops(s)
    PROVE  FragInv'
  <1> DEFINE l == [loops[s] EXCEPT !.at = "over"]
  <1>1. /\ loops[s].at \in {"queued", "spacing"} /\ loops' = [loops EXCEPT ![s] = l]
        /\ UNCHANGED <<serverVars, air, dev, last_cnt, images, sent>>
    BY DEF LoopStops
  <1>2. /\ loops[s].attempts \in Nat /\ sent[s] \in Nat /\ LoopCounts(s) /\ QueueTyped
        /\ loops \in [Sessions -> LoopStates] /\ MaxAckRetries \in Nat
    BY LoopFields, Constants
  <1>3. l \in LoopStates /\ l.at = "over" /\ l.attempts = loops[s].attempts
        /\ l.mic_error = loops[s].mic_error
    BY LoopFields DEF LoopStates
  <1>4. loops'[s] = l
    BY <1>1, <1>2
  <1> HIDE DEF l
  <1>5. loops[s].attempts <= sent[s] /\ sent[s] <= MaxAckRetries + 1
    BY <1>1, <1>2 DEF LoopCounts
  <1>6. CASE Copies(s) = {} \/ loops[s].at = "spacing"
    <2>1. UNCHANGED queueVars /\ Copies(s) = {}
      BY <1>2, <1>6 DEF LoopStops, LoopCounts
    <2>2. /\ QueueTyped' /\ (\A t \in Sessions : SameCopies(t) /\ Copies(t)' = Copies(t))
          /\ \A k \in DOMAIN uplinks' : \E j \in DOMAIN uplinks : uplinks'[k] = uplinks[j]
      BY <1>2, <2>1, QueueKept
    <2>3. LoopCounts(s)'
      BY <1>1, <1>3, <1>4, <1>5, <2>1, <2>2 DEF LoopCounts
    <2> QED BY <1>1, <1>3, <2>2, <2>3, LoopStepKeeps
  <1>7. CASE Copies(s) # {} /\ loops[s].at # "spacing"
    <2> DEFINE k == Min(Copies(s))
    <2>1. uplinks' = RemoveAt(uplinks, k) /\ ready' = IF k <= ready THEN ready - 1 ELSE ready
      BY <1>7 DEF LoopStops
    <2>2. k \in Copies(s) /\ Unique(s)
      <3>1. PICK c : c \in Copies(s)
        BY <1>7
      <3>2. Unique(s) /\ Copies(s) = {c} /\ c \in Nat
        BY <1>2, <3>1, CopiesAre DEF LoopCounts, Unique
      <3>3. \E x \in {c} : \A y \in {c} : x <= y
        BY <3>2
      <3> QED BY <3>2, <3>3 DEF Min
    <2> HIDE DEF k
    <2>3. k \in 1 .. Len(uplinks) /\ IsCopy(uplinks[k], s) /\ uplinks \in Seq(Answers)
          /\ Len(uplinks) \in Nat
      BY <1>2, <2>2, CopiesAre DEF QueueTyped
    <2>4. /\ uplinks' \in Seq(Answers) /\ Len(uplinks') = Len(uplinks) - 1
          /\ \A j \in 1 .. Len(uplinks) - 1 : uplinks'[j] = IF j < k THEN uplinks[j] ELSE uplinks[j + 1]
      <3>1. uplinks \in Seq(Answers) /\ k \in 1 .. Len(uplinks)
        BY <2>3
      <3>2. /\ RemoveAt(uplinks, k) \in Seq(Answers) /\ Len(RemoveAt(uplinks, k)) = Len(uplinks) - 1
            /\ \A j \in 1 .. Len(uplinks) - 1 :
                RemoveAt(uplinks, k)[j] = IF j < k THEN uplinks[j] ELSE uplinks[j + 1]
        BY <3>1, Removed
      <3> QED BY <2>1, <3>2, Zenon
    <2>5. /\ QueueTyped'
          /\ \A j \in DOMAIN uplinks' : \E i \in DOMAIN uplinks : uplinks'[j] = uplinks[i]
          /\ \A t \in Sessions : ~IsCopy(uplinks[k], t) => SameCopies(t)
          /\ \A t \in Sessions : IsCopy(uplinks[k], t) /\ Unique(t) => Copies(t)' = {}
      BY <1>2, <2>1, <2>3, <2>4, QueueShrinks
    <2>6. \A t \in Sessions : t # s => SameCopies(t)
      BY <2>3, <2>5 DEF IsCopy
    <2>7. LoopCounts(s)'
      <3>1. Copies(s)' = {} /\ sent' = sent
        BY <1>1, <2>2, <2>3, <2>5
      <3> QED BY <1>3, <1>4, <1>5, <3>1 DEF LoopCounts
    <2> QED BY <1>1, <1>3, <2>5, <2>6, <2>7, LoopStepKeeps
  <1> QED BY <1>6, <1>7

LEMMA LoopRetriesKeeps ==
    ASSUME FragInv, NEW s \in Sessions, LoopRetries(s)
    PROVE  FragInv'
  <1>1. /\ loops[s].at = "spacing"
        /\ UNCHANGED <<serverVars, air, dev, last_cnt, images, sent>>
    BY DEF LoopRetries
  <1>2. /\ loops[s].attempts \in Nat /\ sent[s] \in Nat /\ LoopCounts(s) /\ QueueTyped
        /\ loops \in [Sessions -> LoopStates] /\ MaxAckRetries \in Nat
        /\ loops[s].mic_error \in BOOLEAN
    BY LoopFields, Constants
  <1>3. /\ Copies(s) = {} /\ loops[s].attempts = sent[s] /\ sent[s] <= MaxAckRetries + 1
    BY <1>1, <1>2 DEF LoopCounts
  <1>4. CASE loops[s].attempts <= MaxAckRetries
    <2> DEFINE l == [loops[s] EXCEPT !.at = "queued"]
               m == BlockReceivedReq(s, loops[s].mic_error)
    <2>1. loops' = [loops EXCEPT ![s] = l] /\ QueueNow(m)
      BY <1>4 DEF LoopRetries
    <2>2. l \in LoopStates /\ l.at = "queued" /\ l.attempts = loops[s].attempts
          /\ l.mic_error = loops[s].mic_error
      BY LoopFields DEF LoopStates
    <2>3. m \in Answers /\ \A t \in Sessions : IsCopy(m, t) <=> t = s
      <3>1. m \in Answers
        BY <1>2 DEF Answers
      <3> QED BY <3>1 DEF BlockReceivedReq, IsCopy
    <2> HIDE DEF l, m
    <2>4. /\ uplinks' = InsertAt(uplinks, ready + 1, m) /\ ready' \in {ready, ready + 1}
          /\ ready + 1 \in ready + 1 .. Len(uplinks) + 1
      <3>1. ready \in 0 .. Len(uplinks) /\ Len(uplinks) \in Nat
        BY <1>2, CopiesAre DEF QueueTyped
      <3> QED BY <2>1, <3>1 DEF QueueNow
    <2>5. /\ QueueTyped'
          /\ \A k \in DOMAIN uplinks' : uplinks'[k] = m \/ \E j \in DOMAIN uplinks : uplinks'[k] = uplinks[j]
          /\ \A t \in Sessions : ~IsCopy(m, t) => SameCopies(t)
          /\ \A t \in Sessions : IsCopy(m, t) /\ Copies(t) = {} => Copies(t)' = {ready + 1}
      BY <1>2, <2>3, <2>4, QueueGrows
    <2>6. LoopCounts(s)'
      <3>1. Copies(s)' = {ready + 1} /\ loops'[s] = l /\ sent' = sent
        BY <1>1, <1>2, <1>3, <2>1, <2>3, <2>5
      <3> QED BY <1>2, <1>3, <1>4, <2>2, <3>1 DEF LoopCounts
    <2>7. \A t \in Sessions : t # s => SameCopies(t)
      BY <2>3, <2>5
    <2>8. \A k \in DOMAIN uplinks' : \/ uplinks'[k] = BlockReceivedReq(s, loops[s].mic_error)
                                     \/ \E j \in DOMAIN uplinks : uplinks'[k] = uplinks[j]
      BY <2>5 DEF m
    <2> QED BY <1>1, <2>1, <2>2, <2>5, <2>6, <2>7, <2>8, LoopStepKeeps
  <1>5. CASE ~(loops[s].attempts <= MaxAckRetries)
    <2> DEFINE l == [loops[s] EXCEPT !.at = "gave_up"]
    <2>1. loops' = [loops EXCEPT ![s] = l] /\ UNCHANGED queueVars
      BY <1>5 DEF LoopRetries
    <2>2. l \in LoopStates /\ l.at = "gave_up" /\ l.attempts = loops[s].attempts
          /\ l.mic_error = loops[s].mic_error
      BY LoopFields DEF LoopStates
    <2> HIDE DEF l
    <2>3. /\ QueueTyped' /\ (\A t \in Sessions : SameCopies(t) /\ Copies(t)' = Copies(t))
          /\ \A k \in DOMAIN uplinks' : \E j \in DOMAIN uplinks : uplinks'[k] = uplinks[j]
      BY <1>2, <2>1, QueueKept
    <2>4. LoopCounts(s)'
      <3>1. loops'[s] = l /\ Copies(s)' = {} /\ sent' = sent
        BY <1>1, <1>2, <1>3, <2>1, <2>3
      <3>2. sent[s] = MaxAckRetries + 1
        BY <1>2, <1>3, <1>5
      <3> QED BY <1>3, <2>2, <3>1, <3>2 DEF LoopCounts
    <2> QED BY <1>1, <2>1, <2>2, <2>3, <2>4, LoopStepKeeps
  <1> QED BY <1>4, <1>5

LEMMA SendAnswerKeeps ==
    ASSUME FragInv, SendAnswer
    PROVE  FragInv'
  <1>1. /\ ready > 0 /\ uplinks' = Tail(uplinks) /\ ready' = ready - 1
        /\ air' = [to |-> "server", message |-> Head(uplinks)]
        /\ sent' = [s \in Sessions |-> IF 1 \in Copies(s) THEN sent[s] + 1 ELSE sent[s]]
        /\ UNCHANGED <<serverVars, dev, last_cnt, images, loops>>
    BY DEF SendAnswer, Slot
  <1>2. /\ QueueTyped /\ uplinks \in Seq(Answers) /\ Len(uplinks) \in Nat /\ ready \in 0 .. Len(uplinks)
        /\ DOMAIN uplinks = 1 .. Len(uplinks)
        /\ \A s \in Sessions : \A k : k \in Copies(s)
                <=> k \in 1 .. Len(uplinks) /\ IsCopy(uplinks[k], s)
    BY CopiesAre DEF FragInv, QueueTyped
  <1>3. 1 \in 1 .. Len(uplinks) /\ uplinks # <<>> /\ 1 <= ready
    BY <1>1, <1>2
  <1>4. /\ uplinks' \in Seq(Answers) /\ Len(uplinks') = Len(uplinks) - 1
        /\ Head(uplinks) = uplinks[1] /\ Head(uplinks) \in Answers
        /\ \A k \in 1 .. Len(uplinks) - 1 : uplinks'[k] = uplinks[k + 1]
    BY <1>1, <1>2, <1>3, HeadTailProperties
  <1>5. /\ QueueTyped'
        /\ \A k \in DOMAIN uplinks' : \E j \in DOMAIN uplinks : uplinks'[k] = uplinks[j]
        /\ \A s \in Sessions : ~IsCopy(uplinks[1], s) => SameCopies(s)
        /\ \A s \in Sessions : IsCopy(uplinks[1], s) /\ Unique(s) => Copies(s)' = {}
    <2>1. /\ ready' = IF 1 <= ready THEN ready - 1 ELSE ready
          /\ \A k \in 1 .. Len(uplinks) - 1 : uplinks'[k] = IF k < 1 THEN uplinks[k] ELSE uplinks[k + 1]
      BY <1>1, <1>2, <1>3, <1>4
    <2> QED BY <1>2, <1>3, <1>4, <2>1, QueueShrinks
  <1>6. ServerTyped' /\ AirTyped' /\ SessionsKnown' /\ CommandsOrdered' /\ ImagesKnown'
    <2>1. air'.to = "server" /\ air'.message \in Answers /\ air' \in [to : {"server"}, message : Answers]
      BY <1>1, <1>4
    <2> QED BY <1>1, <2>1, RestKept
  <1>7. /\ sent \in [Sessions -> Nat] /\ sent' \in [Sessions -> Nat]
        /\ \A s \in Sessions : sent'[s] = IF IsCopy(uplinks[1], s) THEN sent[s] + 1 ELSE sent[s]
    <2>1. sent \in [Sessions -> Nat]
      BY DEF FragInv, DeviceTyped
    <2>2. \A s \in Sessions : 1 \in Copies(s) <=> IsCopy(uplinks[1], s)
      BY <1>2, <1>3
    <2>3. \A s \in Sessions : sent'[s] = IF IsCopy(uplinks[1], s) THEN sent[s] + 1 ELSE sent[s]
      BY <1>1, <2>2
    <2> QED BY <1>1, <2>1, <2>3
  <1>8. DeviceTyped' /\ CompletesOnce'
    BY <1>1, <1>7 DEF FragInv, DeviceTyped, CompletesOnce
  <1>9. AttemptsCounted'
    <2>1. ASSUME NEW s \in Sessions PROVE LoopCounts(s)'
      <3>1. LoopCounts(s) /\ loops' = loops /\ loops[s].attempts \in Nat /\ sent[s] \in Nat
        BY <1>1, LoopFields
      <3>2. CASE ~IsCopy(uplinks[1], s)
        BY <1>5, <1>7, <3>1, <3>2, SameLoopCounts
      <3>3. CASE IsCopy(uplinks[1], s)
        <4>1. 1 \in Copies(s)
          BY <1>2, <1>3, <3>3
        <4>2. Copies(s)' = {}
          BY <1>5, <3>1, <3>3 DEF LoopCounts, Unique
        <4>3. /\ loops[s].at = "queued" /\ loops[s].attempts <= MaxAckRetries
              /\ sent[s] = loops[s].attempts
          BY <3>1, <4>1 DEF LoopCounts
        <4>4. sent'[s] = loops[s].attempts + 1
          BY <1>7, <3>3, <4>3
        <4> QED BY <3>1, <4>2, <4>3, <4>4 DEF LoopCounts
      <3> QED BY <3>2, <3>3
    <2> QED BY <2>1 DEF AttemptsCounted
  <1>10. ReportsTrue'
    <2>1. ReportsTrue
      BY DEF FragInv
    <2>2. ASSUME NEW k \in DOMAIN uplinks', Reporting(uplinks'[k]) PROVE images[uplinks'[k].idx] # 0
      BY <1>5, <2>1, <2>2 DEF ReportsTrue
    <2>3. Reporting(air'.message) => images[air'.message.idx] # 0
      BY <1>1, <1>2, <1>3, <1>4, <2>1 DEF ReportsTrue
    <2>4. server' = server /\ dev' = dev /\ images' = images /\ loops' = loops
      BY <1>1 DEF serverVars
    <2> QED BY <2>1, <2>2, <2>3, <2>4 DEF ReportsTrue, Trusts
  <1> QED BY <1>5, <1>6, <1>8, <1>9, <1>10 DEF FragInv

-----------------------------------------------------------------------------
(* The device's handlers.                                                  *)

\* What a handler keeps of the invariant, and that a block is never taken from the application
Handled ==
    /\ QueueTyped' /\ DeviceTyped' /\ AttemptsCounted' /\ CompletesOnce' /\ ImagesKnown'
    /\ DeletionsMeant(server, dev')
    /\ \A i \in Indexes :
        /\ dev'[i].session \in Created(i) \cup {0}
        /\ images[i] # 0 => images'[i] # 0
        /\ dev'[i].state = "complete" /\ dev'[i].mic # "failed" => images'[i] # 0
    /\ \A s \in Sessions : loops'[s].at # "none" /\ ~loops'[s].mic_error => images'[Index(s)] # 0
    /\ \A k \in DOMAIN uplinks' : Reporting(uplinks'[k]) => images'[uplinks'[k].idx] # 0

\* What may have happened to the queue: an answer, or nothing, was added
Answered(m) == QueueNow(m) \/ QueueLater(m) \/ UNCHANGED queueVars

LEMMA AnswerQueued ==
    ASSUME FragInv, NEW m \in Answers, Answered(m)
    PROVE  /\ QueueTyped'
           /\ \A k \in DOMAIN uplinks' : uplinks'[k] = m \/ \E j \in DOMAIN uplinks : uplinks'[k] = uplinks[j]
           /\ \A s \in Sessions : ~IsCopy(m, s) => SameCopies(s)
           /\ ~UNCHANGED queueVars =>
                \A s \in Sessions : IsCopy(m, s) /\ Copies(s) = {} => \E p : Copies(s)' = {p}
  <1>1. QueueTyped /\ ready \in 0 .. Len(uplinks) /\ Len(uplinks) \in Nat
    BY CopiesAre DEF FragInv, QueueTyped
  <1>2. CASE UNCHANGED queueVars
    BY <1>1, <1>2, QueueKept
  <1>3. ASSUME NEW p \in ready + 1 .. Len(uplinks) + 1, uplinks' = InsertAt(uplinks, p, m),
               ready' \in {ready, ready + 1}
        PROVE  /\ QueueTyped'
               /\ \A k \in DOMAIN uplinks' :
                    uplinks'[k] = m \/ \E j \in DOMAIN uplinks : uplinks'[k] = uplinks[j]
               /\ \A s \in Sessions : ~IsCopy(m, s) => SameCopies(s)
               /\ \A s \in Sessions : IsCopy(m, s) /\ Copies(s) = {} => Copies(s)' = {p}
    BY <1>1, <1>3, QueueGrows
  <1>4. CASE QueueNow(m)
    <2>1. /\ ready + 1 \in ready + 1 .. Len(uplinks) + 1 /\ uplinks' = InsertAt(uplinks, ready + 1, m)
          /\ ready' \in {ready, ready + 1}
      BY <1>1, <1>4 DEF QueueNow
    <2> QED BY <1>3, <2>1
  <1>5. CASE QueueLater(m)
    <2>1. PICK p \in ready + 1 .. Len(uplinks) + 1 : uplinks' = InsertAt(uplinks, p, m)
      BY <1>5 DEF QueueLater
    <2>2. ready' \in {ready, ready + 1}
      BY <1>5 DEF QueueLater
    <2> QED BY <1>3, <2>1, <2>2
  <1> QED BY <1>2, <1>4, <1>5 DEF Answered

\* A deletion is still meant for what the device has then
LEMMA DeletionsStillMeant ==
    ASSUME FragInv, NEW sessions, \A i \in Indexes : sessions[i].session \in {dev[i].session, 0}
    PROVE  DeletionsMeant(server, sessions)
  <1>1. ASSUME NEW k \in Line(server), CommandAt(server, k).cid = "delete"
        PROVE  DeletionMeant(server, sessions, k)
    <2>1. DeletionMeant(server, dev, k)
      BY <1>1 DEF FragInv, CommandsOrdered, DeletionsMeant
    <2>2. CommandAt(server, k) \in Commands
      <3>1. CommandAt(server, k) \in Commands \cup {Nothing}
        BY SessionNumbers, ServerFields DEF Line, CommandAt
      <3> QED BY <1>1, <3>1 DEF Nothing
    <2>3. CommandAt(server, k).idx \in Indexes /\ CommandAt(server, k).session \in Nat
      BY <1>1, <2>2, CommandFields, Constants
    <2> QED BY <2>1, <2>3 DEF DeletionMeant
  <1> QED BY <1>1 DEF DeletionsMeant

\* A handler that leaves the counts of the loops alone, and of the sessions drops or starts some
Starts(s) == [NoSession EXCEPT !.session = s, !.state = "receiving"]

LEMMA SimpleHandlerKeeps ==
    ASSUME FragInv, NEW m \in Answers, Answered(m), m.cid # "received",
           Reporting(m) => images[m.idx] # 0,
           UNCHANGED <<server, created, sent, last_cnt, images>>,
           loops' \in [Sessions -> LoopStates],
           \A s \in Sessions : /\ loops'[s].at = loops[s].at /\ loops'[s].attempts = loops[s].attempts
                               /\ loops'[s].mic_error = loops[s].mic_error,
           dev' \in [Indexes -> DeviceSessions], DeletionsMeant(server, dev'),
           \A i \in Indexes :
                \/ dev'[i] = dev[i] \/ dev'[i] = NoSession
                \/ \E s \in Created(i) : s > last_cnt[i] /\ dev'[i] = Starts(s)
    PROVE  Handled
  <1>1. /\ QueueTyped'
        /\ \A k \in DOMAIN uplinks' : uplinks'[k] = m \/ \E j \in DOMAIN uplinks : uplinks'[k] = uplinks[j]
        /\ \A s \in Sessions : ~IsCopy(m, s) => SameCopies(s)
    BY AnswerQueued
  <1>2. DeviceTyped'
    BY DEF FragInv, DeviceTyped
  <1>3. AttemptsCounted'
    <2>1. ASSUME NEW s \in Sessions PROVE LoopCounts(s)'
      <3>1. LoopCounts(s) /\ SameCopies(s) /\ sent'[s] = sent[s]
        BY <1>1 DEF FragInv, AttemptsCounted, IsCopy
      <3> QED BY <3>1, SameLoopCounts
    <2> QED BY <2>1 DEF AttemptsCounted
  <1>4. ASSUME NEW i \in Indexes, NEW s \in Created(i), s > last_cnt[i], dev'[i] = Starts(s)
        PROVE  /\ dev'[i].session = s /\ s # 0 /\ loops[s].at = "none" /\ last_cnt[i] <= s
               /\ s \in Sessions
               /\ dev'[i].state = "receiving" /\ dev'[i].heard = {} /\ dev'[i].mixed = FALSE
    <2>1. s \in Sessions /\ Index(s) = i /\ s \in Nat /\ s # 0 /\ last_cnt[i] \in Nat
      BY SessionNumbers, Constants DEF Created, FragInv, DeviceTyped
    <2>2. loops[s].at # "none" => s <= last_cnt[i]
      BY <2>1 DEF FragInv, CompletesOnce
    <2>3. loops[s].at = "none" /\ last_cnt[i] <= s
      BY <1>4, <2>1, <2>2
    <2> QED BY <1>4, <2>1, <2>3 DEF Starts, NoSession
  <1>5. NoSession.session = 0 /\ NoSession.state = "none" /\ NoSession.heard = {}
        /\ NoSession.mixed = FALSE
    BY DEF NoSession
  <1> HIDE DEF NoSession
  <1>6. CompletesOnce'
    <2>0. CompletesOnce
      BY DEF FragInv
    <2>1. \A s \in Sessions : loops'[s].at # "none" => s <= last_cnt'[Index(s)]
      BY <2>0 DEF CompletesOnce
    <2>2. ASSUME NEW i \in Indexes
          PROVE  /\ dev'[i].state = "receiving" =>
                    /\ dev'[i].session # 0 /\ loops'[dev'[i].session].at = "none"
                    /\ last_cnt'[i] <= dev'[i].session
                 /\ dev'[i].heard # {} => dev'[i].session <= last_cnt'[i]
      <3>1. CASE dev'[i] = dev[i]
        <4>1. dev[i].state = "receiving" => dev[i].session \in Sessions
          BY <2>0, SessionNumbers, Constants DEF CompletesOnce
        <4> QED BY <2>0, <3>1, <4>1 DEF CompletesOnce
      <3>2. CASE dev'[i] = NoSession
        BY <1>5, <3>2
      <3>3. CASE \E s \in Created(i) : s > last_cnt[i] /\ dev'[i] = Starts(s)
        <4>1. PICK s \in Created(i) : s > last_cnt[i] /\ dev'[i] = Starts(s)
          BY <3>3
        <4>2. /\ dev'[i].session = s /\ s # 0 /\ loops[s].at = "none" /\ last_cnt[i] <= s
              /\ s \in Sessions /\ dev'[i].heard = {}
          BY <1>4, <4>1
        <4> QED BY <4>2
      <3> QED BY <3>1, <3>2, <3>3
    <2> QED BY <2>1, <2>2 DEF CompletesOnce, Index
  <1>7. ImagesKnown'
    <2>1. \A i \in Indexes : dev'[i].mixed => dev[i].mixed
      BY <1>4, <1>5
    <2> QED BY <2>1 DEF FragInv, ImagesKnown, Created, Twice
  <1>8. \A i \in Indexes :
            /\ dev'[i].session \in Created(i) \cup {0}
            /\ dev'[i].state = "complete" /\ dev'[i].mic # "failed" => images'[i] # 0
    <2>1. \A i \in Indexes : dev'[i] # dev[i] =>
            dev'[i].session \in Created(i) \cup {0} /\ dev'[i].state # "complete"
      BY <1>4, <1>5, ZenonT(40)
    <2>2. \A i \in Indexes : /\ dev[i].session \in Created(i) \cup {0}
                             /\ dev[i].state = "complete" /\ dev[i].mic # "failed" => images[i] # 0
      BY DEF FragInv, SessionsKnown, ReportsTrue
    <2> QED BY <2>1, <2>2
  <1>9. \A s \in Sessions : loops'[s].at # "none" /\ ~loops'[s].mic_error => images'[Index(s)] # 0
    BY DEF FragInv, ReportsTrue
  <1>10. \A k \in DOMAIN uplinks' : Reporting(uplinks'[k]) => images'[uplinks'[k].idx] # 0
    BY <1>1 DEF FragInv, ReportsTrue
  <1> QED BY <1>1, <1>2, <1>3, <1>6, <1>7, <1>8, <1>9, <1>10 DEF Handled

\* What is known of a downlink that arrives
Arrives(c) ==
    /\ c \in Commands \cup Fragments
    /\ c.cid = "fragment" => c.session \in 1 .. created
    /\ c.cid = "setup" => c = server.in_flight.command

LEMMA SetupHandled ==
    ASSUME FragInv, NEW c, Arrives(c), c.cid = "setup", HandleSetup(c),
           UNCHANGED <<server, created, sent>>
    PROVE  Handled
  <1>1. /\ c \in Commands /\ c.idx \in Indexes /\ c.session \in Sessions /\ c.idx = Index(c.session)
        /\ c = CommandAt(server, 0) /\ 0 \in Line(server) /\ c.session \in Nat /\ c.session > 0
    <2>1. c \in Commands
      BY FragmentFields DEF Arrives
    <2>2. 0 \in Line(server)
      BY SessionNumbers, ServerFields DEF Line
    <2> QED BY <2>1, <2>2, CommandFields, Constants DEF Arrives, CommandAt
  <1>2. c.session \in Created(c.idx)
    <2>1. c.session <= created
      BY <1>1 DEF FragInv, CommandsOrdered, SetupsKnown
    <2> QED BY <1>1, <2>1, SessionNumbers DEF Created
  <1>3. /\ SetupAns(c.idx) \in Answers /\ SetupAns(c.idx).cid = "setup" /\ ~Reporting(SetupAns(c.idx))
        /\ Answered(SetupAns(c.idx)) /\ UNCHANGED <<last_cnt, images, loops>>
    <2>1. SetupAns(c.idx) \in Answers
      BY <1>1 DEF Answers
    <2> QED BY <2>1 DEF HandleSetup, Answered, SetupAns, Reporting
  <1>4. dev \in [Indexes -> DeviceSessions] /\ loops \in [Sessions -> LoopStates]
    BY DEF FragInv, DeviceTyped
  <1>5. /\ dev' \in [Indexes -> DeviceSessions] /\ DeletionsMeant(server, dev')
        /\ \A i \in Indexes : \/ dev'[i] = dev[i]
                              \/ \E s \in Created(i) : s > last_cnt[i] /\ dev'[i] = Starts(s)
    <2>1. CASE ~Accepts(c)
      <3>1. dev' = dev
        BY <2>1 DEF HandleSetup
      <3> QED BY <1>4, <3>1 DEF FragInv, CommandsOrdered
    <2>2. CASE Accepts(c)
      <3> DEFINE x == Starts(c.session)
      <3>1. dev' = [dev EXCEPT ![c.idx] = x] /\ c.session > last_cnt[c.idx]
        BY <2>2 DEF HandleSetup, Accepts, Starts
      <3>2. x \in DeviceSessions /\ x.session = c.session
        <4>1. c.session \in Numbers
          BY <1>1, Constants
        <4> QED BY <4>1 DEF Starts, NoSession, DeviceSessions
      <3> HIDE DEF x
      <3>3. /\ dev' \in [Indexes -> DeviceSessions] /\ dev'[c.idx] = x
            /\ \A i \in Indexes : i # c.idx => dev'[i] = dev[i]
        BY <1>1, <1>4, <3>1, <3>2
      <3>4. ASSUME NEW k \in Line(server), CommandAt(server, k).cid = "delete"
            PROVE  DeletionMeant(server, dev', k)
        <4>1. DeletionMeant(server, dev, k)
          BY <3>4 DEF FragInv, CommandsOrdered, DeletionsMeant
        <4>2. k # 0 /\ k \in Nat
          BY <1>1, <3>4 DEF Line
        <4>3. CommandAt(server, k) \in Commands
          <5>1. CommandAt(server, k) \in Commands \cup {Nothing}
            BY SessionNumbers, ServerFields DEF Line, CommandAt
          <5> QED BY <3>4, <5>1 DEF Nothing
        <4>4. CommandAt(server, k).idx \in Indexes
          BY <4>3, CommandFields
        <4>5. CASE CommandAt(server, k).idx = c.idx
          <5>1. c.session <= CommandAt(server, k).session
            BY <1>1, <4>1, <4>2, <4>5 DEF DeletionMeant
          <5> QED BY <3>2, <3>3, <4>1, <4>5, <5>1 DEF DeletionMeant
        <4>6. CASE CommandAt(server, k).idx # c.idx
          BY <3>3, <4>1, <4>4, <4>6 DEF DeletionMeant
        <4> QED BY <4>5, <4>6
      <3>5. DeletionsMeant(server, dev')
        BY <3>4 DEF DeletionsMeant
      <3> QED BY <1>2, <3>1, <3>3, <3>5 DEF x
    <2> QED BY <2>1, <2>2
  <1> QED BY <1>3, <1>4, <1>5, SimpleHandlerKeeps

\* The session in the table no longer waits for an acknowledgement
LEMMA AckForgotten ==
    ASSUME FragInv, NEW s,
           loops' = [t \in Sessions |-> IF t = s THEN [loops[t] EXCEPT !.ack_pending = FALSE]
                                        ELSE loops[t]]
    PROVE  /\ loops' \in [Sessions -> LoopStates]
           /\ \A t \in Sessions : /\ loops'[t].at = loops[t].at /\ loops'[t].attempts = loops[t].attempts
                                  /\ loops'[t].mic_error = loops[t].mic_error
  <1>1. loops \in [Sessions -> LoopStates]
    BY DEF FragInv, DeviceTyped
  <1>2. ASSUME NEW t \in Sessions
        PROVE  /\ loops'[t] \in LoopStates
               /\ loops'[t].at = loops[t].at /\ loops'[t].attempts = loops[t].attempts
               /\ loops'[t].mic_error = loops[t].mic_error
    <2>1. loops[t] \in LoopStates
      BY <1>1
    <2>2. CASE t = s
      <3>1. loops'[t] = [loops[t] EXCEPT !.ack_pending = FALSE]
        BY <2>2
      <3> QED BY <2>1, <3>1 DEF LoopStates
    <2>3. CASE t # s
      BY <2>1, <2>3
    <2> QED BY <2>2, <2>3
  <1> QED BY <1>2

LEMMA DeleteHandled ==
    ASSUME FragInv, NEW c, Arrives(c), c.cid = "delete", HandleDelete(c),
           UNCHANGED <<server, created, sent>>
    PROVE  Handled
  <1>1. c \in Commands /\ c.idx \in Indexes
    BY FragmentFields, CommandFields DEF Arrives
  <1>2. /\ DeleteAns(c.idx) \in Answers /\ DeleteAns(c.idx).cid = "delete"
        /\ ~Reporting(DeleteAns(c.idx)) /\ Answered(DeleteAns(c.idx)) /\ UNCHANGED <<last_cnt, images>>
    <2>1. DeleteAns(c.idx) \in Answers
      BY <1>1 DEF Answers
    <2> QED BY <2>1 DEF HandleDelete, Answered, DeleteAns, Reporting
  <1>3. /\ loops' \in [Sessions -> LoopStates]
        /\ \A t \in Sessions : /\ loops'[t].at = loops[t].at /\ loops'[t].attempts = loops[t].attempts
                               /\ loops'[t].mic_error = loops[t].mic_error
    BY AckForgotten DEF HandleDelete
  <1>4. NoSession \in DeviceSessions /\ NoSession.session = 0
    BY Constants DEF NoSession, DeviceSessions
  <1> HIDE DEF NoSession
  <1>5. /\ dev' \in [Indexes -> DeviceSessions]
        /\ \A i \in Indexes : dev'[i] = dev[i] \/ dev'[i] = NoSession
    BY <1>1, <1>4 DEF HandleDelete, FragInv, DeviceTyped
  <1>6. DeletionsMeant(server, dev')
    BY <1>4, <1>5, DeletionsStillMeant
  <1> QED BY <1>2, <1>3, <1>5, <1>6, SimpleHandlerKeeps

LEMMA StatusIsAnswer ==
    ASSUME NEW i \in Indexes, NEW gone \in BOOLEAN, NEW done \in BOOLEAN, NEW bad \in BOOLEAN
    PROVE  StatusAns(i, gone, done, bad) \in Answers
  BY DEF Answers

\* The handlers of the other commands leave the sessions alone
LEMMA OthersHandled ==
    ASSUME FragInv, NEW c, Arrives(c),
           \/ c.cid = "status" /\ HandleStatusRequest(c)
           \/ c.cid = "received" /\ HandleBlockReceivedAns(c)
           \/ c.cid = "version" /\ HandlePackageVersionReq,
           UNCHANGED <<server, created, sent>>
    PROVE  Handled
  <1>0. /\ c \in Commands /\ c.idx \in Indexes
        /\ dev \in [Indexes -> DeviceSessions] /\ loops \in [Sessions -> LoopStates]
        /\ DeletionsMeant(server, dev)
    BY FragmentFields, CommandFields DEF Arrives, FragInv, DeviceTyped, CommandsOrdered
  <1>1. UNCHANGED <<dev, last_cnt, images>>
    BY DEF HandleStatusRequest, HandleBlockReceivedAns, HandlePackageVersionReq
  <1>2. PackageVersionAns \in Answers /\ PackageVersionAns.cid = "version" /\ ~Reporting(PackageVersionAns)
    BY DEF Answers, PackageVersionAns, Reporting
  <1>3. CASE c.cid = "version" /\ HandlePackageVersionReq
    <2>1. Answered(PackageVersionAns) /\ UNCHANGED loops
      BY <1>3 DEF HandlePackageVersionReq, Answered
    <2> QED BY <1>0, <1>1, <1>2, <2>1, SimpleHandlerKeeps
  <1>4. CASE c.cid = "received" /\ HandleBlockReceivedAns(c)
    <2>1. Answered(PackageVersionAns)
      BY <1>4 DEF HandleBlockReceivedAns, Answered
    <2>2. /\ loops' \in [Sessions -> LoopStates]
          /\ \A t \in Sessions : /\ loops'[t].at = loops[t].at /\ loops'[t].attempts = loops[t].attempts
                                 /\ loops'[t].mic_error = loops[t].mic_error
      BY <1>4, AckForgotten DEF HandleBlockReceivedAns
    <2> QED BY <1>0, <1>1, <1>2, <2>1, <2>2, SimpleHandlerKeeps
  <1>5. CASE c.cid = "status" /\ HandleStatusRequest(c)
    <2> DEFINE d    == dev[c.idx]
               done == d.state = "complete"
               bad  == done /\ d.mic = "failed"
               m    == IF d.session = 0 THEN StatusAns(c.idx, TRUE, TRUE, FALSE)
                       ELSE StatusAns(c.idx, FALSE, done, bad)
    <2>1. Answered(m) /\ UNCHANGED loops
      BY <1>5 DEF HandleStatusRequest, Answered
    <2>2. done \in BOOLEAN /\ bad \in BOOLEAN
      BY Zenon
    <2>3. m \in Answers /\ m.cid = "status" /\ m.idx = c.idx
          /\ (Reporting(m) => done /\ d.mic # "failed")
      <3>1. CASE d.session = 0
        <4>1. m = StatusAns(c.idx, TRUE, TRUE, FALSE)
          BY <3>1
        <4> HIDE DEF m
        <4>2. m \in Answers
          <5>1. TRUE \in BOOLEAN /\ FALSE \in BOOLEAN
            BY Zenon
          <5> QED BY <1>0, <4>1, <5>1, StatusIsAnswer, Zenon
        <4> QED BY <4>1, <4>2 DEF StatusAns, Reporting
      <3>2. CASE d.session # 0
        <4>1. m = StatusAns(c.idx, FALSE, done, bad)
          BY <3>2
        <4> HIDE DEF m, done, bad
        <4>2. m \in Answers
          <5>1. FALSE \in BOOLEAN
            BY Zenon
          <5> QED BY <1>0, <2>2, <4>1, <5>1, StatusIsAnswer, Zenon
        <4>3. m.cid = "status" /\ m.idx = c.idx /\ (Reporting(m) => done /\ ~bad)
          BY <4>1 DEF StatusAns, Reporting
        <4>4. done /\ ~bad => d.mic # "failed"
          BY DEF bad
        <4> QED BY <4>2, <4>3, <4>4
      <3> QED BY <3>1, <3>2
    <2> HIDE DEF m
    <2>4. Reporting(m) => images[m.idx] # 0
      BY <1>0, <2>3 DEF FragInv, ReportsTrue
    <2>5. m.cid # "received"
      BY <2>3
    <2> QED BY <1>0, <1>1, <2>1, <2>3, <2>4, <2>5, SimpleHandlerKeeps
  <1> QED BY <1>3, <1>4, <1>5

\* The loop of a session has queued its first request.  The block is g.
FirstRequest(s, g) ==
    \E bad \in BOOLEAN, l \in LoopStates :
        /\ loops' = [loops EXCEPT ![s] = l]
        /\ l.at = "queued" /\ l.attempts = loops[s].attempts /\ l.mic_error = bad
        /\ ~bad => g # 0
        /\ QueueLater(BlockReceivedReq(s, bad))

\* A fragment is taken into the session of its index.  Either that is all, or the session is
\* complete and its loop has queued the first request.
LEMMA FragmentTaken ==
    ASSUME FragInv, NEW i \in Indexes, NEW e \in DeviceSessions, NEW g \in Int,
           UNCHANGED <<server, created, sent>>,
           dev[i].state = "receiving", e.session = dev[i].session,
           e.mixed => Twice(i),
           dev' = [dev EXCEPT ![i] = e], last_cnt' = [last_cnt EXCEPT ![i] = dev[i].session],
           images' = [images EXCEPT ![i] = g],
           images[i] # 0 => g # 0, g \in Created(i) \cup {0} \/ Twice(i),
           e.state = "complete" /\ e.mic # "failed" => g # 0,
           \/ UNCHANGED <<loops, queueVars>>
           \/ e.state = "complete" /\ FirstRequest(dev[i].session, g)
    PROVE  Handled
  <1> DEFINE s == dev[i].session
  <1>1. /\ s \in Sessions /\ Index(s) = i /\ s \in Nat /\ s # 0 /\ s \in Created(i)
        /\ loops[s].at = "none" /\ last_cnt[i] <= s
    <2>1. s # 0 /\ loops[s].at = "none" /\ last_cnt[i] <= s /\ s \in Created(i)
      BY DEF FragInv, CompletesOnce, SessionsKnown
    <2> QED BY <2>1, SessionNumbers DEF Created
  <1>2. /\ dev \in [Indexes -> DeviceSessions] /\ last_cnt \in [Indexes -> Nat]
        /\ images \in [Indexes -> Int] /\ loops \in [Sessions -> LoopStates]
    BY DEF FragInv, DeviceTyped
  <1>3. /\ dev' \in [Indexes -> DeviceSessions] /\ last_cnt' \in [Indexes -> Nat]
        /\ images' \in [Indexes -> Int]
        /\ dev'[i] = e /\ last_cnt'[i] = s /\ images'[i] = g
        /\ \A j \in Indexes : j # i => dev'[j] = dev[j] /\ last_cnt'[j] = last_cnt[j]
                                       /\ images'[j] = images[j]
    BY <1>1, <1>2
  <1>4. \A j \in Indexes : images[j] # 0 => images'[j] # 0
    BY <1>3
  <1>5. \A j \in Indexes : dev'[j].session = dev[j].session
    BY <1>3
  <1>6. DeletionsMeant(server, dev')
    BY <1>5, DeletionsStillMeant
  <1>7. ImagesKnown'
    BY <1>3 DEF FragInv, ImagesKnown, Created, Twice
  <1>8. \A j \in Indexes : /\ dev'[j].session \in Created(j) \cup {0}
                           /\ dev'[j].state = "complete" /\ dev'[j].mic # "failed" => images'[j] # 0
    <2>1. \A j \in Indexes : dev'[j].session \in Created(j) \cup {0}
      BY <1>5 DEF FragInv, SessionsKnown
    <2>2. \A j \in Indexes : dev[j].state = "complete" /\ dev[j].mic # "failed" => images[j] # 0
      BY DEF FragInv, ReportsTrue
    <2> QED BY <1>3, <2>1, <2>2
  <1>9. /\ QueueTyped' /\ loops' \in [Sessions -> LoopStates]
        /\ \A t \in Sessions : t # s => loops'[t] = loops[t] /\ SameCopies(t)
        /\ LoopCounts(s)'
        /\ loops'[s] = loops[s] \/ (e.state = "complete" /\ (~loops'[s].mic_error => g # 0))
        /\ \A k \in DOMAIN uplinks' : \/ \E j \in DOMAIN uplinks : uplinks'[k] = uplinks[j]
                                      \/ uplinks'[k].idx = i /\ (Reporting(uplinks'[k]) => g # 0)
    <2>1. QueueTyped /\ LoopCounts(s) /\ sent' = sent
      BY <1>1 DEF FragInv, AttemptsCounted
    <2>2. CASE UNCHANGED <<loops, queueVars>>
      <3>1. /\ QueueTyped' /\ (\A t \in Sessions : SameCopies(t) /\ Copies(t)' = Copies(t))
            /\ \A k \in DOMAIN uplinks' : \E j \in DOMAIN uplinks : uplinks'[k] = uplinks[j]
        BY <2>1, <2>2, QueueKept
      <3>2. LoopCounts(s)'
        <4>1. loops'[s].at = loops[s].at /\ loops'[s].attempts = loops[s].attempts /\ SameCopies(s)
          BY <1>1, <2>2, <3>1
        <4> QED BY <1>1, <2>1, <4>1, SameLoopCounts
      <3> QED BY <1>2, <2>2, <3>1, <3>2
    <2>3. CASE e.state = "complete" /\ FirstRequest(s, g)
      <3>1. PICK bad \in BOOLEAN, l \in LoopStates :
                /\ loops' = [loops EXCEPT ![s] = l]
                /\ l.at = "queued" /\ l.attempts = loops[s].attempts /\ l.mic_error = bad
                /\ ~bad => g # 0
                /\ QueueLater(BlockReceivedReq(s, bad))
        BY <2>3 DEF FirstRequest
      <3> DEFINE m == BlockReceivedReq(s, bad)
      <3>2. m \in Answers
        BY <1>1 DEF Answers
      <3>3. /\ m.idx = i /\ (Reporting(m) => g # 0) /\ IsCopy(m, s)
            /\ \A t \in Sessions : t # s => ~IsCopy(m, t)
        BY <1>1, <3>1 DEF BlockReceivedReq, Reporting, IsCopy
      <3> HIDE DEF m
      <3>4. Answered(m)
        BY <3>1 DEF Answered, m
      <3>5. e.state = "complete"
        BY <2>3
      <3>6. PICK p \in ready + 1 .. Len(uplinks) + 1 :
                uplinks' = InsertAt(uplinks, p, m) /\ ready' = ready
        BY <3>1 DEF QueueLater, m
      <3>7. /\ QueueTyped'
            /\ \A k \in DOMAIN uplinks' : uplinks'[k] = m \/ \E j \in DOMAIN uplinks : uplinks'[k] = uplinks[j]
            /\ \A t \in Sessions : ~IsCopy(m, t) => SameCopies(t)
            /\ \A t \in Sessions : IsCopy(m, t) /\ Copies(t) = {} => Copies(t)' = {p}
        BY <2>1, <3>2, <3>6, QueueGrows
      <3>8. loops' \in [Sessions -> LoopStates] /\ loops'[s] = l
            /\ \A t \in Sessions : t # s => loops'[t] = loops[t]
        BY <1>1, <1>2, <3>1
      <3>9. LoopCounts(s)'
        <4>1. Copies(s) = {} /\ loops[s].attempts = 0 /\ sent[s] = 0
          BY <1>1, <2>1 DEF LoopCounts
        <4>2. Copies(s)' = {p} /\ MaxAckRetries \in Nat
          BY <1>1, <3>3, <3>7, <4>1, Constants
        <4>3. loops'[s].at = "queued" /\ loops'[s].attempts = 0 /\ sent'[s] = 0
          BY <2>1, <3>1, <3>8, <4>1
        <4> QED BY <4>2, <4>3 DEF LoopCounts
      <3>10. ~loops'[s].mic_error => g # 0
        BY <3>1, <3>8
      <3>11. \A t \in Sessions : t # s => SameCopies(t)
        BY <3>3, <3>7
      <3>12. \A k \in DOMAIN uplinks' : \/ \E j \in DOMAIN uplinks : uplinks'[k] = uplinks[j]
                                        \/ uplinks'[k].idx = i /\ (Reporting(uplinks'[k]) => g # 0)
        BY <3>3, <3>7
      <3> QED BY <3>5, <3>7, <3>8, <3>9, <3>10, <3>11, <3>12
    <2> QED BY <2>2, <2>3
  <1>10. DeviceTyped'
    BY <1>3, <1>9 DEF FragInv, DeviceTyped
  <1>11. AttemptsCounted'
    <2>1. ASSUME NEW t \in Sessions, t # s PROVE LoopCounts(t)'
      <3>1. LoopCounts(t) /\ SameCopies(t) /\ loops'[t] = loops[t] /\ sent' = sent
        BY <1>9, <2>1 DEF FragInv, AttemptsCounted
      <3> QED BY <3>1, SameLoopCounts
    <2> QED BY <1>9, <2>1 DEF AttemptsCounted
  <1>12. CompletesOnce'
    <2>0. CompletesOnce
      BY DEF FragInv
    <2>1. ASSUME NEW t \in Sessions, loops'[t].at # "none" PROVE t <= last_cnt'[Index(t)]
      <3>1. Index(t) \in Indexes /\ last_cnt[Index(t)] <= last_cnt'[Index(t)]
            /\ last_cnt[Index(t)] \in Nat /\ last_cnt'[Index(t)] \in Nat /\ t \in Nat
        BY <1>1, <1>2, <1>3, Constants
      <3>2. CASE t = s
        BY <1>1, <1>3, <3>2
      <3>3. CASE t # s
        <4>1. t <= last_cnt[Index(t)]
          BY <1>9, <2>0, <2>1, <3>3 DEF CompletesOnce
        <4> QED BY <3>1, <4>1
      <3> QED BY <3>2, <3>3
    <2>2. ASSUME NEW j \in Indexes
          PROVE  /\ dev'[j].state = "receiving" =>
                    /\ dev'[j].session # 0 /\ loops'[dev'[j].session].at = "none"
                    /\ last_cnt'[j] <= dev'[j].session
                 /\ dev'[j].heard # {} => dev'[j].session <= last_cnt'[j]
      <3>1. CASE j = i
        <4>1. e.state = "receiving" => loops'[s].at = "none"
          BY <1>1, <1>9
        <4> QED BY <1>1, <1>3, <3>1, <4>1
      <3>2. CASE j # i
        <4>1. dev'[j] = dev[j] /\ last_cnt'[j] = last_cnt[j]
          BY <1>3, <3>2
        <4>2. dev[j].state = "receiving" => dev[j].session \in Sessions /\ dev[j].session # s
          <5>1. dev[j].session \in Created(j) \cup {0}
            BY DEF FragInv, SessionsKnown
          <5>2. dev[j].state = "receiving" => dev[j].session # 0
            BY <2>0 DEF CompletesOnce
          <5> QED BY <1>1, <3>2, <5>1, <5>2, SessionNumbers DEF Created
        <4> QED BY <1>9, <2>0, <4>1, <4>2 DEF CompletesOnce
      <3> QED BY <3>1, <3>2
    <2> QED BY <2>1, <2>2 DEF CompletesOnce, Index
  <1>13. \A t \in Sessions : loops'[t].at # "none" /\ ~loops'[t].mic_error => images'[Index(t)] # 0
    <2>1. SUFFICES ASSUME NEW t \in Sessions, loops'[t].at # "none", ~loops'[t].mic_error
                   PROVE  images'[Index(t)] # 0
      OBVIOUS
    <2>2. Index(t) \in Indexes
      BY Constants
    <2>3. CASE loops'[t] = loops[t]
      BY <1>4, <2>1, <2>2, <2>3 DEF FragInv, ReportsTrue
    <2>4. CASE t = s /\ loops'[s] # loops[s]
      BY <1>1, <1>3, <1>9, <2>1, <2>4
    <2> QED BY <1>9, <2>3, <2>4
  <1>14. \A k \in DOMAIN uplinks' : Reporting(uplinks'[k]) => images'[uplinks'[k].idx] # 0
    <2>1. SUFFICES ASSUME NEW k \in DOMAIN uplinks', Reporting(uplinks'[k])
                   PROVE  images'[uplinks'[k].idx] # 0
      OBVIOUS
    <2>2. CASE uplinks'[k].idx = i /\ (Reporting(uplinks'[k]) => g # 0)
      BY <1>3, <2>1, <2>2
    <2>3. ASSUME NEW j \in DOMAIN uplinks, uplinks'[k] = uplinks[j] PROVE images'[uplinks'[k].idx] # 0
      <3>1. images[uplinks[j].idx] # 0
        BY <2>1, <2>3 DEF FragInv, ReportsTrue
      <3>2. uplinks[j].idx \in Indexes
        <4>1. uplinks[j] \in Answers
          BY ElementOfSeq, CopiesAre DEF FragInv, QueueTyped
        <4> QED BY <4>1, AnswerFields
      <3> QED BY <1>4, <2>3, <3>1, <3>2
    <2> QED BY <1>9, <2>2, <2>3
  <1> QED BY <1>4, <1>6, <1>7, <1>8, <1>9, <1>10, <1>11, <1>12, <1>13, <1>14 DEF Handled

\* What a session is after a fragment
LEMMA FedSession ==
    ASSUME FragInv, NEW f \in Fragments, f.session \in 1 .. created, dev[f.idx].state = "receiving",
           NEW r \in Ranks(dev[f.idx], f.n)
    PROVE  LET d   == dev[f.idx]
               fed == [d EXCEPT !.heard = @ \cup {f.n}, !.rank = r, !.mixed = @ \/ f.session # d.session]
           IN /\ fed \in DeviceSessions /\ fed.session = d.session /\ fed.state = "receiving"
              /\ fed.mixed => Twice(f.idx)
              /\ fed.heard = d.heard \cup {f.n}
  <1> DEFINE d == dev[f.idx]
             h == d.heard \cup {f.n}
             x == d.mixed \/ f.session # d.session
             fed == [d EXCEPT !.heard = h, !.rank = r, !.mixed = x]
  <1>0. f.idx \in Indexes /\ f.n \in 1 .. LastFrag /\ f.idx = Index(f.session)
    BY FragmentFields
  <1>1. d \in DeviceSessions
    BY <1>0 DEF FragInv, DeviceTyped
  <1>2. d.rank \in Nat /\ d.heard \subseteq 1 .. LastFrag
    BY <1>1 DEF DeviceSessions
  <1>3. r \in Nat
    BY <1>2 DEF Ranks
  <1>4. h \in SUBSET (1 .. LastFrag)
    BY <1>0, <1>2
  <1>5. x \in BOOLEAN
    BY Zenon
  <1>6. x => Twice(f.idx)
    <2>1. CASE d.mixed
      BY <1>0, <2>1 DEF FragInv, ImagesKnown
    <2>2. CASE f.session # d.session
      <3>1. d.session \in Created(f.idx)
        BY <1>0 DEF FragInv, SessionsKnown, CompletesOnce
      <3>2. f.session \in Created(f.idx)
        BY <1>0 DEF Created
      <3> QED BY <2>2, <3>1, <3>2 DEF Twice
    <2> QED BY <2>1, <2>2
  <1>7. /\ fed \in DeviceSessions /\ fed.session = d.session /\ fed.state = d.state
        /\ fed.heard = h /\ fed.mixed = x
    <2> HIDE DEF h, x, d
    <2> QED BY <1>1, <1>3, <1>4, <1>5 DEF DeviceSessions
  <1> HIDE DEF x, h
  <1>8. fed.mixed => Twice(f.idx)
    BY <1>6, <1>7
  <1> QED BY <1>7, <1>8 DEF x, h

LEMMA FragmentHandled ==
    ASSUME FragInv, NEW f, Arrives(f), f.cid = "fragment", HandleDataFragment(f),
           UNCHANGED <<server, created, sent>>
    PROVE  Handled
  <1> DEFINE i == f.idx
             d == dev[i]
             s == d.session
  <1>0. /\ f \in Fragments /\ i \in Indexes /\ f.session \in 1 .. created
        /\ dev \in [Indexes -> DeviceSessions] /\ loops \in [Sessions -> LoopStates]
        /\ images \in [Indexes -> Int] /\ DeletionsMeant(server, dev)
    BY FragmentFields, CommandFields DEF Arrives, FragInv, DeviceTyped, CommandsOrdered
  <1>1. CASE d.state # "receiving"
    <2>1. UNCHANGED <<dev, last_cnt, images, loops, queueVars>>
      BY <1>1 DEF HandleDataFragment
    <2>2. PackageVersionAns \in Answers /\ PackageVersionAns.cid = "version" /\ ~Reporting(PackageVersionAns)
      BY DEF Answers, PackageVersionAns, Reporting
    <2>3. Answered(PackageVersionAns)
      BY <2>1 DEF Answered
    <2> QED BY <1>0, <2>1, <2>2, <2>3, SimpleHandlerKeeps
  <1>2. CASE d.state = "receiving"
    <2> DEFINE Fed(r) == [d EXCEPT !.heard = @ \cup {f.n}, !.rank = r,
                                   !.mixed = @ \/ f.session # d.session]
    <2>1. last_cnt' = [last_cnt EXCEPT ![i] = s]
      BY <1>2 DEF HandleDataFragment
    <2>2. PICK r \in Ranks(d, f.n) :
                IF r = NbFrag THEN CompleteSession(i, Fed(r))
                ELSE /\ dev' = [dev EXCEPT ![i] =
                            IF f.n > NbFrag /\ Cardinality(Uncoded \ Fed(r).heard) > Lmax
                            THEN [Fed(r) EXCEPT !.state = "memory_error"] ELSE Fed(r)]
                     /\ UNCHANGED <<images, loops, queueVars>>
      BY <1>2 DEF HandleDataFragment
    <2> DEFINE fed == Fed(r)
    <2>3. fed \in DeviceSessions /\ fed.session = s /\ fed.state = "receiving"
          /\ (fed.mixed => Twice(i))
      BY <1>0, <1>2, FedSession
    <2>4. s \in Sessions /\ s \in Created(i) /\ s \in Int /\ s # 0 /\ images[i] \in Int
      <3>1. s # 0 /\ s \in Created(i)
        BY <1>0, <1>2 DEF FragInv, CompletesOnce, SessionsKnown
      <3> QED BY <1>0, <3>1, SessionNumbers DEF Created
    <2> HIDE DEF Fed
    <2>5. CASE r # NbFrag
      <3> DEFINE e == IF f.n > NbFrag /\ Cardinality(Uncoded \ fed.heard) > Lmax
                      THEN [fed EXCEPT !.state = "memory_error"] ELSE fed
      <3>1. dev' = [dev EXCEPT ![i] = e] /\ UNCHANGED <<images, loops, queueVars>>
        BY <2>2, <2>5
      <3>2. e \in DeviceSessions /\ e.session = s /\ e.mixed = fed.mixed /\ e.state # "complete"
        BY <2>3 DEF DeviceSessions
      <3> HIDE DEF e, fed
      <3>3. images' = [images EXCEPT ![i] = images[i]]
        BY <1>0, <3>1
      <3>4. images[i] \in Created(i) \cup {0} \/ Twice(i)
        BY <1>0 DEF FragInv, ImagesKnown
      <3>5. e.mixed => Twice(i)
        BY <2>3, <3>2
      <3> QED BY <1>0, <1>2, <2>1, <2>4, <3>1, <3>2, <3>3, <3>4, <3>5, FragmentTaken
    <2>6. CASE r = NbFrag
      <3> DEFINE mic == IF ~Keyed THEN "unchecked" ELSE IF fed.mixed THEN "failed" ELSE "ok"
                 e   == [fed EXCEPT !.state = "complete", !.mic = mic]
                 g   == IF mic = "failed" THEN images[i] ELSE IF fed.mixed THEN -1 ELSE s
                 bad == mic = "failed"
      <3>0. CompleteSession(i, fed)
        BY <2>2, <2>6
      <3>1. /\ dev' = [dev EXCEPT ![i] = e]
            /\ images' = [images EXCEPT ![i] = g]
            /\ \/ UNCHANGED <<loops, queueVars>>
               \/ /\ loops' = [loops EXCEPT ![s].at = "queued", ![s].ack_pending = TRUE,
                                            ![s].mic_error = bad]
                  /\ QueueLater(BlockReceivedReq(s, bad))
        <4>1. /\ dev' = [dev EXCEPT ![i] = e]
              /\ \/ UNCHANGED <<loops, queueVars>>
                 \/ /\ loops' = [loops EXCEPT ![fed.session].at = "queued", ![fed.session].ack_pending = TRUE,
                                              ![fed.session].mic_error = bad]
                    /\ QueueLater(BlockReceivedReq(fed.session, bad))
          BY <3>0 DEF CompleteSession
        <4>2. images' = [images EXCEPT ![i] = g]
          BY <2>3, <3>0 DEF CompleteSession
        <4> QED BY <2>3, <4>1, <4>2
      <3>2. mic \in {"unchecked", "failed", "ok"}
        OBVIOUS
      <3>3. g \in Int /\ (images[i] # 0 => g # 0) /\ (mic # "failed" => g # 0)
            /\ (g \in Created(i) \cup {0} \/ Twice(i))
        <4>1. images[i] \in Created(i) \cup {0} \/ Twice(i)
          BY <1>0 DEF FragInv, ImagesKnown
        <4>2. -1 \in Int /\ -1 # 0
          OBVIOUS
        <4> HIDE DEF mic
        <4> QED BY <2>3, <2>4, <4>1, <4>2
      <3> HIDE DEF mic, g
      <3>4. e \in DeviceSessions /\ e.session = s /\ e.mixed = fed.mixed /\ e.state = "complete"
            /\ e.mic = mic
        <4> HIDE DEF fed
        <4> QED BY <2>3, <3>2 DEF DeviceSessions
      <3> HIDE DEF e, fed
      <3>5. UNCHANGED <<loops, queueVars>> \/ FirstRequest(s, g)
        <4>1. CASE UNCHANGED <<loops, queueVars>>
          BY <4>1
        <4>2. CASE /\ loops' = [loops EXCEPT ![s].at = "queued", ![s].ack_pending = TRUE,
                                             ![s].mic_error = bad]
                   /\ QueueLater(BlockReceivedReq(s, bad))
          <5> DEFINE l == [loops[s] EXCEPT !.at = "queued", !.ack_pending = TRUE, !.mic_error = bad]
          <5>1. bad \in BOOLEAN /\ TRUE \in BOOLEAN /\ (~bad => mic # "failed")
            BY Zenon
          <5> HIDE DEF bad
          <5>2. loops[s] \in LoopStates
            BY <1>0, <2>4
          <5>3. \A b \in BOOLEAN :
                    LET k == [loops[s] EXCEPT !.at = "queued", !.ack_pending = TRUE, !.mic_error = b]
                    IN k \in LoopStates /\ k.at = "queued" /\ k.attempts = loops[s].attempts
                       /\ k.mic_error = b
            BY <5>2 DEF LoopStates
          <5>4. l \in LoopStates /\ l.at = "queued" /\ l.attempts = loops[s].attempts /\ l.mic_error = bad
            BY <5>1, <5>3
          <5>5. loops' = [loops EXCEPT ![s] = l]
            BY <1>0, <2>4, <4>2
          <5> HIDE DEF l
          <5> QED BY <3>3, <4>2, <5>1, <5>4, <5>5 DEF FirstRequest
        <4> QED BY <3>1, <4>1, <4>2
      <3>6. e.mixed => Twice(i)
        BY <2>3, <3>4 DEF fed
      <3>7. e.state = "complete" /\ e.mic # "failed" => g # 0
        BY <3>3, <3>4
      <3> QED BY <1>0, <1>2, <2>1, <3>1, <3>3, <3>4, <3>5, <3>6, <3>7, FragmentTaken
    <2> QED BY <2>5, <2>6
  <1> QED BY <1>1, <1>2

LEMMA DownlinkHandled ==
    ASSUME FragInv, NEW c, Arrives(c), OnDownlink(c), UNCHANGED <<server, created, sent>>
    PROVE  Handled
  <1>1. CASE c.cid = "fragment" /\ HandleDataFragment(c)
    BY <1>1, FragmentHandled
  <1>2. CASE c.cid = "setup" /\ HandleSetup(c)
    BY <1>2, SetupHandled
  <1>3. CASE c.cid = "delete" /\ HandleDelete(c)
    BY <1>3, DeleteHandled
  <1>4. CASE \/ c.cid = "status" /\ HandleStatusRequest(c)
             \/ c.cid = "received" /\ HandleBlockReceivedAns(c)
             \/ c.cid = "version" /\ HandlePackageVersionReq
    BY <1>4, OthersHandled
  <1> QED BY <1>1, <1>2, <1>3, <1>4 DEF OnDownlink

\* The downlink of the exchange, or one of the multicast group
LEMMA DownlinkKeeps ==
    ASSUME FragInv, ReceiveDownlink \/ HearFragment
    PROVE  FragInv' /\ Handled
  <1>0. multicast \in Seq(Fragments) /\ created \in Nat
    BY SessionNumbers DEF FragInv, ServerTyped
  <1>1. /\ UNCHANGED <<server, created, sent>>
        /\ air' = air \/ air' = [to |-> "nobody", message |-> Nothing]
        /\ multicast' = multicast \/ (multicast # <<>> /\ multicast' = Tail(multicast))
        /\ \E c : Arrives(c) /\ OnDownlink(c)
    <2>1. CASE ReceiveDownlink
      <3>1. Arrives(air.message)
        BY <2>1 DEF ReceiveDownlink, Arrives, FragInv, AirTyped, SessionsKnown, CommandsOrdered
      <3> QED BY <2>1, <3>1 DEF ReceiveDownlink, serverVars
    <2>2. CASE HearFragment
      <3>1. multicast # <<>> /\ Head(multicast) = multicast[1] /\ 1 \in DOMAIN multicast
            /\ Head(multicast) \in Fragments
        <4>1. multicast # <<>>
          BY <2>2 DEF HearFragment
        <4>2. 1 \in DOMAIN multicast
          BY <1>0, <4>1, LenProperties, EmptySeq
        <4> QED BY <1>0, <4>1, <4>2, HeadTailProperties
      <3>2. Arrives(Head(multicast))
        <4>1. multicast[1].session \in 1 .. created
          BY <3>1 DEF FragInv, SessionsKnown
        <4>2. Head(multicast).cid = "fragment"
          BY <3>1, FragmentFields
        <4> QED BY <3>1, <4>1, <4>2 DEF Arrives
      <3> QED BY <2>2, <3>2 DEF HearFragment
    <2> QED BY <2>1, <2>2
  <1>2. Handled
    BY <1>1, DownlinkHandled
  <1>3. /\ multicast' \in Seq(Fragments)
        /\ \A k \in DOMAIN multicast' : \E j \in DOMAIN multicast : multicast'[k] = multicast[j]
    <2>1. CASE multicast' = multicast
      BY <1>0, <2>1
    <2>2. CASE multicast # <<>> /\ multicast' = Tail(multicast)
      <3>1. /\ Tail(multicast) \in Seq(Fragments) /\ Len(Tail(multicast)) = Len(multicast) - 1
            /\ \A k \in 1 .. Len(multicast) - 1 : Tail(multicast)[k] = multicast[k + 1]
        BY <1>0, <2>2, HeadTailProperties
      <3>2. /\ Len(multicast) \in Nat /\ DOMAIN multicast = 1 .. Len(multicast)
            /\ DOMAIN Tail(multicast) = 1 .. Len(multicast) - 1
        BY <1>0, <3>1, LenProperties
      <3>3. \A k \in 1 .. Len(multicast) - 1 : k + 1 \in 1 .. Len(multicast)
        BY <3>2
      <3> QED BY <2>2, <3>1, <3>2, <3>3
    <2> QED BY <1>1, <2>1, <2>2
  <1>4. ServerTyped' /\ AirTyped'
    <2>1. ServerTyped'
      BY <1>1, <1>3 DEF FragInv, ServerTyped
    <2>2. AirTyped'
      BY <1>1 DEF FragInv, AirTyped
    <2> QED BY <2>1, <2>2
  <1>5. Nothing.cid = "none"
    BY DEF Nothing
  <1>6. SessionsKnown'
    <2>1. SessionsKnown
      BY DEF FragInv
    <2>2. \A i \in Indexes : dev'[i].session \in Created(i) \cup {0}
      BY <1>2 DEF Handled
    <2> QED BY <1>1, <1>3, <1>5, <2>1, <2>2 DEF SessionsKnown, Created, Index
  <1>7. CommandsOrdered'
    <2>1. DeletionsMeant(server', dev')
      BY <1>1, <1>2 DEF Handled
    <2>2. SetupsKnown(server, created)' /\ DeletionsMeant(server, dev)'
      BY <1>1, <2>1 DEF FragInv, CommandsOrdered, SetupsKnown, DeletionsMeant, DeletionMeant, CommandAt,
             Line
    <2> QED BY <1>1, <1>5, <2>2 DEF FragInv, CommandsOrdered
  <1>8. ReportsTrue'
    <2>0. ReportsTrue
      BY DEF FragInv
    <2>1. \A i \in Indexes : Trusts(server, i)' => images'[i] # 0
      <3>1. \A i \in Indexes : Trusts(server, i) => images[i] # 0
        BY <2>0 DEF ReportsTrue
      <3>2. \A i \in Indexes : images[i] # 0 => images'[i] # 0
        BY <1>2 DEF Handled
      <3> QED BY <1>1, <3>1, <3>2 DEF Trusts
    <2>2. air'.to = "server" /\ Reporting(air'.message) => images'[air'.message.idx] # 0
      <3>1. SUFFICES ASSUME air'.to = "server", Reporting(air'.message)
                     PROVE  images'[air'.message.idx] # 0
        OBVIOUS
      <3>2. air' = air
        BY <1>1, <3>1
      <3>3. images[air.message.idx] # 0
        BY <2>0, <3>1, <3>2 DEF ReportsTrue
      <3>4. air.message \in Answers \cup {Nothing} /\ air.message # Nothing
        BY <3>1, <3>2, <1>5 DEF FragInv, AirTyped, Reporting
      <3>5. air.message.idx \in Indexes
        BY <3>4, AnswerFields
      <3> QED BY <1>2, <3>2, <3>3, <3>5 DEF Handled
    <2> QED BY <1>2, <2>1, <2>2 DEF Handled, ReportsTrue, Index
  <1> QED BY <1>2, <1>4, <1>6, <1>7, <1>8 DEF Handled, FragInv

LEMMA FragStep ==
    ASSUME FragInv, [Next]_vars
    PROVE  FragInv'
  <1>1. CASE CreateSession
    BY <1>1, CreateSessionKeeps
  <1>2. CASE \E i \in Indexes : RequestStatus(i) \/ DeleteSession(i) \/ BroadcastFragment(i)
    BY <1>2, RequestsKeep, FragmentsKeep
  <1>3. CASE \E i \in Indexes, n \in 1 .. LastFrag : SendFragmentUnicast(i, n)
    BY <1>3, FragmentsKeep
  <1>4. CASE RequestPackageVersion
    BY <1>4, RequestsKeep
  <1>5. CASE DelayEnds
    BY <1>5, DelayEndsKeeps
  <1>6. CASE \E s \in Sessions : LoopStops(s) \/ LoopNoticesSending(s) \/ LoopRetries(s)
    BY <1>6, LoopStopsKeeps, LoopNoticesSendingKeeps, LoopRetriesKeeps
  <1>7. CASE SendAnswer
    BY <1>7, SendAnswerKeeps
  <1>8. CASE \E others \in SUBSET OtherApps : ReceiveUplink(others)
    BY <1>8, ReceiveUplinkKeeps
  <1>9. CASE ReceiveDownlink \/ HearFragment
    BY <1>9, DownlinkKeeps
  <1>10. CASE SendOther \/ Lose \/ MissFragment \/ UNCHANGED vars
    BY <1>10, QuietStepsKeep
  <1> QED BY <1>1, <1>2, <1>3, <1>4, <1>5, <1>6, <1>7, <1>8, <1>9, <1>10 DEF Next

-----------------------------------------------------------------------------
(* The properties.                                                         *)

\* The inductive invariant: the messages on their way, the queue with its loops, and what both
\* ends hold agree, whatever was lost, repeated or delayed.
THEOREM FragInvariant == Spec => []FragInv
  <1>1. Init => FragInv
    BY FragInit
  <1>2. FragInv /\ [Next]_vars => FragInv'
    BY FragStep
  <1> QED BY <1>1, <1>2, PTL DEF Spec

\* _block_received_loop, for any limit on the retries: one copy of a session's request at most is in
\* the queue, an attempt is spent only on a transmission, and the limit holds.
THEOREM AttemptsAreSpentOnTransmissions == Spec => []AttemptsAreTransmissions
  <1>1. FragInv => AttemptsAreTransmissions
    <2> SUFFICES ASSUME FragInv, NEW s \in Sessions
                 PROVE  /\ Cardinality(Copies(s)) <= 1
                        /\ loops[s].attempts <= sent[s] /\ sent[s] <= MaxAckRetries + 1
                        /\ loops[s].at = "gave_up" => sent[s] = MaxAckRetries + 1
      BY DEF AttemptsAreTransmissions
    <2>1. /\ LoopCounts(s) /\ loops[s].attempts \in Nat /\ sent[s] \in Nat /\ MaxAckRetries \in Nat
          /\ loops[s].at \in {"none", "queued", "spacing", "over", "gave_up"}
      BY LoopFields, Constants DEF LoopStates
    <2>2. Cardinality(Copies(s)) <= 1
      <3>1. CASE Copies(s) = {}
        BY <3>1, FS_EmptySet
      <3>2. CASE Copies(s) # {}
        <4>1. PICK k : k \in Copies(s)
          BY <3>2
        <4>2. Copies(s) = {k}
          BY <2>1, <4>1 DEF LoopCounts
        <4> QED BY <4>2, FS_Singleton
      <3> QED BY <3>1, <3>2
    <2>3. /\ loops[s].attempts <= sent[s] /\ sent[s] <= MaxAckRetries + 1
          /\ loops[s].at = "gave_up" => sent[s] = MaxAckRetries + 1
      BY <2>1 DEF LoopCounts
    <2> QED BY <2>2, <2>3
  <1> QED BY <1>1, FragInvariant, PTL

\* devices_complete, for any plan: a device that the server counts as complete has a block of that
\* FragIndex, and the session's own if no earlier session had the index.
THEOREM ReportsAreAboutBlocks == Spec => []CompleteMeansImage
  <1>1. FragInv => CompleteMeansImage
    <2> SUFFICES ASSUME FragInv, NEW i \in Indexes, Complete(server, i)
                 PROVE  /\ images[i] # 0
                        /\ (\A t \in 1 .. server.sessions[i].session - 1 : Index(t) # i)
                                => images[i] = server.sessions[i].session
      BY DEF CompleteMeansImage
    <2>1. Trusts(server, i)
      BY DEF Complete, Reassembled, MICError, Trusts
    <2>2. images[i] # 0
      BY <2>1 DEF FragInv, ReportsTrue
    <2>3. ASSUME \A t \in 1 .. server.sessions[i].session - 1 : Index(t) # i
          PROVE  images[i] = server.sessions[i].session
      <3> DEFINE s == server.sessions[i].session
      <3>1. s \in Nat /\ created \in Nat
        BY SessionNumbers
      <3>2. \A t \in Created(i) : t = s
        <4>1. SUFFICES ASSUME NEW t \in Created(i) PROVE t = s
          OBVIOUS
        <4>2. t \in 1 .. created /\ Index(t) = i
          BY DEF Created
        <4>3. t <= s
          BY <4>2 DEF FragInv, SessionsKnown
        <4>4. t \in Nat /\ t >= 1 /\ ~(t <= s - 1)
          BY <2>3, <3>1, <4>2
        <4> QED BY <3>1, <4>3, <4>4
      <3>3. ~Twice(i)
        BY <3>2 DEF Twice
      <3>4. images[i] \in Created(i)
        BY <2>2, <3>3 DEF FragInv, ImagesKnown
      <3> QED BY <3>2, <3>4
    <2> QED BY <2>2, <2>3
  <1> QED BY <1>1, FragInvariant, PTL

\* What ProgressKept says of one index
IndexProgress(i) ==
    dev[i].heard # {} =>
        \/ dev'[i].session = dev[i].session /\ dev[i].heard \subseteq dev'[i].heard
        \/ dev'[i].session > dev[i].session
        \/ air.message.cid = "delete" /\ air.message.session >= dev[i].session

LEMMA FragmentAdds ==
    ASSUME FragInv, NEW f \in Fragments, f.session \in 1 .. created, HandleDataFragment(f),
           NEW i \in Indexes
    PROVE  dev'[i].session = dev[i].session /\ dev[i].heard \subseteq dev'[i].heard
  <1>0. f.idx \in Indexes /\ dev \in [Indexes -> DeviceSessions]
    BY FragmentFields DEF FragInv, DeviceTyped
  <1>1. CASE dev[f.idx].state # "receiving"
    BY <1>1 DEF HandleDataFragment
  <1>2. CASE dev[f.idx].state = "receiving"
    <2> DEFINE d == dev[f.idx]
               Fed(r) == [d EXCEPT !.heard = @ \cup {f.n}, !.rank = r,
                                   !.mixed = @ \/ f.session # d.session]
    <2>1. PICK r \in Ranks(d, f.n) :
                IF r = NbFrag THEN CompleteSession(f.idx, Fed(r))
                ELSE dev' = [dev EXCEPT ![f.idx] =
                            IF f.n > NbFrag /\ Cardinality(Uncoded \ Fed(r).heard) > Lmax
                            THEN [Fed(r) EXCEPT !.state = "memory_error"] ELSE Fed(r)]
      BY <1>2 DEF HandleDataFragment
    <2> DEFINE fed == Fed(r)
    <2>2. fed \in DeviceSessions /\ fed.session = d.session /\ d.heard \subseteq fed.heard
      BY <1>2, FedSession
    <2> HIDE DEF Fed
    <2>3. \E e : dev' = [dev EXCEPT ![f.idx] = e] /\ e.session = fed.session /\ e.heard = fed.heard
      <3>1. CASE r = NbFrag
        <4>1. \E mic : dev' = [dev EXCEPT ![f.idx] = [fed EXCEPT !.state = "complete", !.mic = mic]]
          BY <2>1, <3>1 DEF CompleteSession
        <4>2. \A mic : LET e == [fed EXCEPT !.state = "complete", !.mic = mic]
                       IN e.session = fed.session /\ e.heard = fed.heard
          <5> HIDE DEF fed
          <5> QED BY <2>2 DEF DeviceSessions
        <4> QED BY <4>1, <4>2
      <3>2. CASE r # NbFrag
        <4> DEFINE e == IF f.n > NbFrag /\ Cardinality(Uncoded \ fed.heard) > Lmax
                        THEN [fed EXCEPT !.state = "memory_error"] ELSE fed
        <4>1. dev' = [dev EXCEPT ![f.idx] = e]
          BY <2>1, <3>2
        <4>2. e.session = fed.session /\ e.heard = fed.heard
          <5> HIDE DEF fed
          <5> QED BY <2>2 DEF DeviceSessions
        <4> HIDE DEF e
        <4> QED BY <4>1, <4>2
      <3> QED BY <3>1, <3>2
    <2> HIDE DEF fed
    <2> QED BY <1>0, <2>2, <2>3
  <1> QED BY <1>1, <1>2

LEMMA ProgressStep ==
    ASSUME FragInv, Next, NEW i \in Indexes
    PROVE  IndexProgress(i)
  <1>1. CASE dev' = dev
    BY <1>1 DEF IndexProgress
  <1>2. CASE HearFragment
    <2>1. multicast \in Seq(Fragments) /\ multicast # <<>>
      BY <1>2 DEF FragInv, ServerTyped, HearFragment
    <2>2. 1 \in DOMAIN multicast /\ Head(multicast) = multicast[1] /\ Head(multicast) \in Fragments
      <3>1. 1 \in DOMAIN multicast
        BY <2>1, LenProperties, EmptySeq
      <3> QED BY <2>1, <3>1, HeadTailProperties
    <2>3. multicast[1].session \in 1 .. created
      BY <2>2 DEF FragInv, SessionsKnown
    <2>4. HandleDataFragment(Head(multicast))
      BY <1>2, <2>2, FragmentFields DEF HearFragment, OnDownlink
    <2> QED BY <2>2, <2>3, <2>4, FragmentAdds DEF IndexProgress
  <1>3. CASE ReceiveDownlink
    <2> DEFINE c == air.message
    <2>1. air.to = "device" /\ OnDownlink(c) /\ c \in Commands \cup Fragments
      BY <1>3 DEF ReceiveDownlink, FragInv, AirTyped
    <2>2. dev \in [Indexes -> DeviceSessions] /\ dev[i].session \in Nat /\ last_cnt[i] \in Nat
      BY SessionNumbers DEF FragInv, DeviceTyped
    <2>3. CASE c.cid = "fragment" /\ HandleDataFragment(c)
      <3>1. c \in Fragments /\ c.session \in 1 .. created
        BY <2>1, <2>3, CommandFields DEF FragInv, SessionsKnown
      <3> QED BY <2>3, <3>1, FragmentAdds DEF IndexProgress
    <2>4. CASE c.cid = "setup" /\ HandleSetup(c)
      <3>1. c \in Commands /\ c.session \in Nat /\ c.idx \in Indexes
        BY <2>1, <2>4, FragmentFields, CommandFields, Constants
      <3>2. CASE Accepts(c) /\ c.idx = i
        <4>1. dev'[i].session = c.session /\ c.session > last_cnt[i]
          <5>1. dev' = [dev EXCEPT ![i] = Starts(c.session)] /\ c.session > last_cnt[i]
            BY <2>4, <3>2 DEF HandleSetup, Accepts, Starts
          <5>2. Starts(c.session).session = c.session
            BY DEF Starts, NoSession
          <5> QED BY <2>2, <5>1, <5>2
        <4>2. dev[i].heard # {} => dev[i].session <= last_cnt[i]
          BY DEF FragInv, CompletesOnce
        <4>3. dev[i].heard # {} => dev'[i].session > dev[i].session
          BY <2>2, <3>1, <4>1, <4>2
        <4> QED BY <4>3 DEF IndexProgress
      <3>3. CASE ~(Accepts(c) /\ c.idx = i)
        <4>1. dev'[i] = dev[i]
          BY <2>2, <2>4, <3>3 DEF HandleSetup
        <4> QED BY <4>1 DEF IndexProgress
      <3> QED BY <3>2, <3>3
    <2>5. CASE c.cid = "delete" /\ HandleDelete(c)
      <3>1. CASE c.idx = i
        <4>1. c = CommandAt(server, 0) /\ 0 \in Line(server)
          <5>1. 0 \in Line(server)
            BY SessionNumbers, ServerFields DEF Line
          <5> QED BY <2>1, <2>5, <5>1 DEF FragInv, CommandsOrdered, CommandAt
        <4>2. dev[i].session <= c.session
          BY <2>5, <3>1, <4>1 DEF FragInv, CommandsOrdered, DeletionsMeant, DeletionMeant
        <4>3. c.session \in Nat
          BY <2>1, <2>5, FragmentFields, CommandFields, Constants
        <4>4. c.session >= dev[i].session
          BY <2>2, <4>2, <4>3
        <4> QED BY <2>5, <4>4 DEF IndexProgress
      <3>2. CASE c.idx # i
        <4>1. dev'[i] = dev[i]
          BY <2>2, <2>5, <3>2 DEF HandleDelete
        <4> QED BY <4>1 DEF IndexProgress
      <3> QED BY <3>1, <3>2
    <2>6. CASE \/ c.cid = "status" /\ HandleStatusRequest(c)
               \/ c.cid = "received" /\ HandleBlockReceivedAns(c)
               \/ c.cid = "version" /\ HandlePackageVersionReq
      BY <1>1, <2>6 DEF HandleStatusRequest, HandleBlockReceivedAns, HandlePackageVersionReq
    <2> QED BY <2>1, <2>3, <2>4, <2>5, <2>6 DEF OnDownlink
  <1>4. CASE ~(ReceiveDownlink \/ HearFragment)
    <2>1. dev' = dev
      BY <1>4 DEF Next, CreateSession, Request, RequestStatus, DeleteSession, RequestPackageVersion,
             SendFragmentUnicast, BroadcastFragment, DelayEnds, LoopStops, LoopNoticesSending,
             LoopRetries, Slot, SendAnswer, SendOther, ReceiveUplink, Lose, MissFragment, deviceVars
    <2> QED BY <1>1, <2>1
  <1> QED BY <1>2, <1>3, <1>4

\* _validate_setup, _handle_delete and get_downlink, for any number of retries: a command that is
\* sent again, late or after its answer was lost costs the device no fragment that it has.
THEOREM ProgressIsKept == Spec => ProgressKept
  <1>1. ASSUME FragInv, [Next]_vars
        PROVE  [\A i \in Indexes :
                  dev[i].heard # {} =>
                     \/ dev'[i].session = dev[i].session /\ dev[i].heard \subseteq dev'[i].heard
                     \/ dev'[i].session > dev[i].session
                     \/ air.message.cid = "delete" /\ air.message.session >= dev[i].session]_vars
    <2>1. CASE Next
      BY <1>1, <2>1, ProgressStep DEF IndexProgress
    <2>2. CASE UNCHANGED vars
      BY <2>2
    <2> QED BY <1>1, <2>1, <2>2
  <1> QED BY <1>1, FragInvariant, PTL DEF Spec, ProgressKept

=============================================================================
