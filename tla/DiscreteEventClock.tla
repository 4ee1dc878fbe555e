------------------------- MODULE DiscreteEventClock -------------------------
(***************************************************************************)
(* What the simulation kernel promises its tasks: a task is either busy,   *)
(* and then time stands still, or it waits for a point in time, and then   *)
(* it is busy again at exactly that point.  Time never runs backwards and  *)
(* never skips a point that somebody waits for.  The promise has a gap: a  *)
(* task that abandons its wait is busy while its wait goes on astray, and  *)
(* until that wait is over time makes allowance for one busy task.         *)
(***************************************************************************)
EXTENDS Naturals, FiniteSets

CONSTANTS Tasks, Strays

VARIABLES
    now,        \* the time
    busy,       \* tasks that time waits for
    pending,    \* pairs of a waiting task and the time it waits for
    stray       \* pairs of an abandoned wait and its time

clock == <<now, busy, pending, stray>>

Waiting == {p[1] : p \in pending}
Astray  == {p[1] : p \in stray}

Init == now = 0 /\ busy = {} /\ pending = {} /\ stray = {}

\* A task appears: before time starts, or while another one keeps time from moving
Appear(t) ==
    /\ t \notin busy \cup Waiting
    /\ now = 0 \/ busy # {}
    /\ busy' = busy \cup {t}
    /\ UNCHANGED <<now, pending, stray>>

\* A busy task waits for a time that is not past
Wait(t) ==
    /\ t \in busy
    /\ busy' = busy \ {t}
    /\ \E p \in pending' :
        /\ p[1] = t /\ p[2] >= now
        /\ pending' = pending \cup {p}
    /\ UNCHANGED <<now, stray>>

\* A busy task is never heard of again
Leave(t) ==
    /\ t \in busy
    /\ busy' = busy \ {t}
    /\ UNCHANGED <<now, pending, stray>>

\* A waiting task is called back early
Interrupt(t) ==
    /\ t \in Waiting
    /\ busy' = busy \cup {t}
    /\ pending' = {p \in pending : p[1] # t}
    /\ UNCHANGED <<now, stray>>

\* A waiting task is busy again, and its wait goes on without it
Abandon(t) ==
    /\ busy' = busy \cup {t}
    /\ pending' = {p \in pending : p[1] # t}
    /\ \E p \in pending, s \in Strays \ Astray :
        p[1] = t /\ stray' = stray \cup {<<s, p[2]>>}
    /\ UNCHANGED now

\* No more tasks are busy than waits are astray (nobody, when no wait is): time moves on, at
\* most to the first time that is waited for, and all tasks that wait for it are busy from
\* then on
Move ==
    /\ Cardinality(busy) = Cardinality(Astray)
    /\ now' >= now
    /\ \A p \in pending \cup stray : now' <= p[2]
    /\ busy' = busy \cup {p[1] : p \in {q \in pending : q[2] = now'}}
    /\ pending' = {p \in pending : p[2] # now'}
    /\ stray' = {p \in stray : p[2] # now'}

\* The end of the run
Halt ==
    /\ busy' = {} /\ pending' = {} /\ stray' = {}
    /\ UNCHANGED now

Next ==
    \/ \E t \in Tasks : Appear(t) \/ Wait(t) \/ Leave(t) \/ Interrupt(t) \/ Abandon(t)
    \/ Move
    \/ Halt

Spec == Init /\ [][Next]_clock

=============================================================================
