----------------------------- MODULE RateLimiter -----------------------------
(***************************************************************************)
(* The pacing of Proton requests (internal/protonmail/client.go): every    *)
(* request of a protonmail.Client passes through rateLimiter.wait, from    *)
(* the goroutine that sends it.  The Proton client fetches the pages of    *)
(* the contact list from several goroutines at once.                       *)
(*                                                                         *)
(* Time is a count of ticks.  It may pass between any two steps: a timer   *)
(* is never early, and may be late.                                        *)
(***************************************************************************)
EXTENDS Integers, FiniteSets

CONSTANTS
    Proc,       \* goroutines that send requests
    Interval,   \* ticks between two slots
    MaxSlots,   \* bound on reservations in a behaviour
    MaxTime     \* bound on the clock while no slot is awaited

ASSUME RateAssumption ==
    /\ Interval \in Nat \ {0}
    /\ MaxSlots \in Nat
    /\ MaxTime \in Nat

VARIABLES
    now,        \* the clock
    next,       \* l.next; the zero time is tick 0
    pc,         \* where each goroutine is
    start,      \* the start of the slot a goroutine has reserved
    slot,       \* the number of that slot, from 0
    slots,      \* slots reserved so far
    sent        \* the slots whose requests were sent

limiterVars == <<now, next, pc, start, slot, slots, sent>>

LimiterTypeOK ==
    /\ now \in Nat
    /\ next \in Nat
    /\ pc \in [Proc -> {"idle", "reserved", "sleeping"}]
    /\ start \in [Proc -> Nat]
    /\ slot \in [Proc -> Nat]
    /\ slots \in 0 .. MaxSlots
    /\ sent \subseteq Nat

LimiterInit ==
    /\ now = 0
    /\ next = 0
    /\ pc = [p \in Proc |-> "idle"]
    /\ start = [p \in Proc |-> 0]
    /\ slot = [p \in Proc |-> 0]
    /\ slots = 0
    /\ sent = {}

Later(s, t) == IF s < t THEN t ELSE s
-----------------------------------------------------------------------------
\* Goroutine p takes the slot that starts at s; the one after it starts at n.
TakeSlot(p, s, n) ==
    /\ pc[p] = "idle" /\ slots < MaxSlots
    /\ start' = [start EXCEPT ![p] = s]
    /\ next' = n
    /\ slots' = slots + 1
    /\ slot' = [slot EXCEPT ![p] = slots]
    /\ pc' = [pc EXCEPT ![p] = "reserved"]
    /\ UNCHANGED <<now, sent>>

\* Mutant of Reserve: the slots that are taken already are not looked at.
ReserveFromNow(p) == TakeSlot(p, now, now + Interval)

\* Mutant of Reserve: the next slot is counted from now, not from this slot.
ReserveAdvancesNow(p) == TakeSlot(p, Later(next, now), now + Interval)

\* The critical section of wait.
Reserve(p) == TakeSlot(p, Later(next, now), Later(next, now) + Interval)

\* wait returns.
Return(p) ==
    /\ pc' = [pc EXCEPT ![p] = "idle"]
    /\ start' = [start EXCEPT ![p] = 0]
    /\ slot' = [slot EXCEPT ![p] = 0]
    /\ UNCHANGED <<now, next, slots>>

\* wait returns nil, and RoundTrip sends the request.
Send(p) == Return(p) /\ sent' = sent \cup {slot[p]}

Pass(p) == pc[p] = "reserved" /\ start[p] <= now /\ Send(p)

Sleep(p) ==
    /\ pc[p] = "reserved" /\ start[p] > now
    /\ pc' = [pc EXCEPT ![p] = "sleeping"]
    /\ UNCHANGED <<now, next, start, slot, slots, sent>>

Wake(p) == pc[p] = "sleeping" /\ start[p] <= now /\ Send(p)

\* The context ends: no request is sent, and the slot is not given back.
Cancel(p) == pc[p] = "sleeping" /\ Return(p) /\ UNCHANGED sent

Tick ==
    /\ now < MaxTime \/ \E p \in Proc : start[p] > now
    /\ now' = now + 1
    /\ UNCHANGED <<next, pc, start, slot, slots, sent>>

LimiterNext ==
    \/ \E p \in Proc : Reserve(p) \/ Pass(p) \/ Sleep(p) \/ Wake(p) \/ Cancel(p)
    \/ Tick

LimiterSpec == LimiterInit /\ [][LimiterNext]_limiterVars
-----------------------------------------------------------------------------
(***************************************************************************)
(* Properties.                                                             *)
(***************************************************************************)
\* However the goroutines' reservations, late timers and cancellations
\* interleave, the requests sent since the limiter was made are at most one and
\* one more for every interval that has passed ("paces requests to at most one
\* per interval"): a limit on the number, which late timers may still bunch.
RateBound == Cardinality(sent) <= 1 + (now \div Interval)

\* Goroutines that wait at the same time wait for slots an interval apart.
SlotsApart ==
    \A p, q \in Proc :
        (p # q /\ pc[p] # "idle" /\ pc[q] # "idle") =>
            \/ start[p] + Interval <= start[q]
            \/ start[q] + Interval <= start[p]

\* The inductive invariant: slot number k starts k intervals after the limiter
\* was made at the earliest, and every slot taken ends before next.
SlotsInOrder ==
    /\ slots * Interval <= next
    /\ \A p \in Proc : pc[p] # "idle" =>
          /\ slot[p] * Interval <= start[p]
          /\ start[p] + Interval <= next
    /\ \A k \in sent : k * Interval <= now
=============================================================================
