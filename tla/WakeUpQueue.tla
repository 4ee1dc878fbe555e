---------------------------- MODULE WakeUpQueue ----------------------------
(***************************************************************************)
(* simulator/wakeup_queue.py: the wake-up events as a list of entries, one *)
(* for each tick, kept in the order of the ticks.  Every method holds      *)
(* __data_lock from its start to its end, so each one is a single step.    *)
(***************************************************************************)
EXTENDS Integers, SequencesExt

CONSTANTS
    Ticks,      \* ticks that callers ask for
    Events,     \* asyncio.Event objects
    MaxEvents   \* bound on the wake-ups in the queue

ASSUME TicksAreNaturals == Ticks \subseteq Nat /\ MaxEvents \in Nat

VARIABLES
    data,       \* __data
    taken       \* the entry the last next_tick returned, for its caller

vars == <<data, taken>>

Entry == [tick : Ticks, events : Seq(Events)]

TypeOK == data \in Seq(Entry) /\ (taken = <<>> \/ taken \in Entry)

\* The number of wake-ups in the queue
Size == FoldSeq(LAMBDA entry, n : n + Len(entry.events), 0, data)

Init == data = <<>> /\ taken = <<>>

\* The position at which the loop of add stops
Position(tick) ==
    Min({i \in 1..Len(data) : data[i].tick >= tick} \cup {Len(data) + 1})

add(wakeup_tick, event) ==
    LET pos == Position(wakeup_tick)
    IN  /\ IF pos <= Len(data) /\ data[pos].tick = wakeup_tick
             THEN data' = [data EXCEPT ![pos].events = Append(@, event)]
             ELSE data' = InsertAt(data, pos, [tick |-> wakeup_tick, events |-> <<event>>])
        /\ taken' = <<>>

\* Mutant of remove: only the first entry is searched
removeFromHead(event) ==
    /\ data' = [i \in DOMAIN data |->
                    IF i = 1
                      THEN [data[i] EXCEPT !.events = SelectSeq(@, LAMBDA e : e # event)]
                      ELSE data[i]]
    /\ taken' = <<>>

\* WakeUpQueue.remove
remove(event) ==
    /\ data' = [i \in DOMAIN data |->
                    [data[i] EXCEPT !.events = SelectSeq(@, LAMBDA e : e # event)]]
    /\ taken' = <<>>

\* peek_tick, for a queue that is not empty, and next_tick
next_tick ==
    /\ data # <<>>
    /\ taken' = Head(data)
    /\ data' = Tail(data)

Next ==
    \/ \E tick \in Ticks, event \in Events : Size < MaxEvents /\ add(tick, event)
    \/ \E event \in Events : remove(event)
    \/ next_tick

Spec == Init /\ [][Next]_vars

-----------------------------------------------------------------------------
(* Properties.                                                             *)

\* How often each event is in a list
Counts(events) == [e \in Events |-> Len(SelectSeq(events, LAMBDA x : x = e))]

\* The list implements the table of wake-ups the kernel relies on: nothing is lost or
\* doubled by an insertion, remove drops all and only the wake-ups of its event, next_tick
\* hands out the complete row of the smallest tick (wakeup_queue.py:45-95).
Table == INSTANCE WakeUpTable WITH
    table <- [k \in {data[i].tick : i \in DOMAIN data} |->
                Counts(data[CHOOSE i \in DOMAIN data : data[i].tick = k].events)],
    taken <- IF taken = <<>> THEN <<>> ELSE <<taken.tick, Counts(taken.events)>>

TableSpec == Table!Spec

=============================================================================
