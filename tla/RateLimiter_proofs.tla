------------------------- MODULE RateLimiter_proofs -------------------------
\* Proofs about RateLimiter: the limit on the number of requests, for every
\* number of goroutines, every interval and every bound.
EXTENDS RateLimiter, FiniteSetTheorems, TLAPS

\* Multiplying by the interval keeps the order of two slot numbers.
LEMMA SlotsGrow ==
    ASSUME NEW a \in Int, NEW b \in Int, a <= b
    PROVE  a * Interval <= b * Interval
  BY SMT, RateAssumption

\* A slot that starts no later than now has a number of at most now \div Interval.
LEMMA SlotOfTime ==
    ASSUME NEW k \in Nat, NEW t \in Nat, k * Interval <= t
    PROVE  k <= t \div Interval
<1> DEFINE d == t \div Interval
<1>1. d \in Int /\ t < (d + 1) * Interval
  BY SMT, RateAssumption
<1>2. ASSUME d + 1 <= k PROVE FALSE
  <2>1. (d + 1) * Interval <= k * Interval
    BY <1>1, <1>2, SlotsGrow
  <2>2. (d + 1) * Interval \in Int /\ k * Interval \in Int
    BY <1>1, RateAssumption
  <2> HIDE DEF d
  <2> QED
    BY <1>1, <2>1, <2>2
<1> HIDE DEF d
<1>3. k <= d
  BY <1>1, <1>2
<1> QED
  BY <1>3 DEF d

\* The limiter's variables always have their types (rateLimiter).
THEOREM TypeTheorem == LimiterSpec => []LimiterTypeOK
<1>1. LimiterInit => LimiterTypeOK
  BY RateAssumption DEF LimiterInit, LimiterTypeOK
<1>2. LimiterTypeOK /\ [LimiterNext]_limiterVars => LimiterTypeOK'
  <2> SUFFICES ASSUME LimiterTypeOK, [LimiterNext]_limiterVars PROVE LimiterTypeOK'
    OBVIOUS
  <2> USE RateAssumption DEF LimiterTypeOK
  <2>1. ASSUME NEW p \in Proc, Reserve(p) PROVE LimiterTypeOK'
    <3> DEFINE s == Later(next, now)
    <3>1. s \in Nat /\ s + Interval \in Nat
      BY DEF Later
    <3>2. TakeSlot(p, s, s + Interval)
      BY <2>1 DEF Reserve
    <3> HIDE DEF s
    <3>3. /\ now' \in Nat /\ next' \in Nat
          /\ slots' \in 0 .. MaxSlots /\ sent' \subseteq Nat
      BY <3>1, <3>2 DEF TakeSlot
    <3>4. start' \in [Proc -> Nat] /\ slot' \in [Proc -> Nat]
      BY <3>1, <3>2 DEF TakeSlot
    <3>5. pc' \in [Proc -> {"idle", "reserved", "sleeping"}]
      BY <3>2 DEF TakeSlot
    <3> QED
      BY <3>3, <3>4, <3>5
  <2>2. ASSUME NEW p \in Proc, Pass(p) \/ Sleep(p) \/ Wake(p) \/ Cancel(p) PROVE LimiterTypeOK'
    <3>1. slot[p] \in Nat
      OBVIOUS
    <3>2. CASE Pass(p) \/ Wake(p)
      <4>1. Return(p) /\ sent' = sent \cup {slot[p]}
        BY ONLY <3>2 DEF Pass, Wake, Send
      <4>2. sent' \subseteq Nat
        BY <3>1, <4>1
      <4> QED
        BY <4>1, <4>2 DEF Return
    <3>3. CASE Sleep(p)
      BY <3>3 DEF Sleep
    <3>4. CASE Cancel(p)
      BY <3>4 DEF Cancel, Return
    <3> QED
      BY <2>2, <3>2, <3>3, <3>4
  <2>3. ASSUME Tick PROVE LimiterTypeOK'
    BY <2>3 DEF Tick
  <2>4. ASSUME UNCHANGED limiterVars PROVE LimiterTypeOK'
    BY <2>4 DEF limiterVars
  <2> QED
    BY <2>1, <2>2, <2>3, <2>4 DEF LimiterNext
<1> QED
  BY <1>1, <1>2, PTL DEF LimiterSpec

\* What a reservation does to the slots: it takes the next number, and a start
\* that is neither before now nor before the end of the last slot.
LEMMA ReserveTakes ==
    ASSUME LimiterTypeOK, NEW p \in Proc, Reserve(p)
    PROVE  /\ start'[p] \in Nat /\ next <= start'[p]
           /\ next' = start'[p] + Interval
           /\ slots' = slots + 1 /\ slot'[p] = slots
           /\ pc'[p] = "reserved"
           /\ \A q \in Proc \ {p} :
                 pc'[q] = pc[q] /\ start'[q] = start[q] /\ slot'[q] = slot[q]
           /\ now' = now /\ sent' = sent
<1> DEFINE s == Later(next, now)
<1>1. s \in Nat /\ next <= s
  BY DEF LimiterTypeOK, Later
<1>2. TakeSlot(p, s, s + Interval)
  BY DEF Reserve
<1> HIDE DEF s
<1>3. start'[p] = s /\ slot'[p] = slots /\ pc'[p] = "reserved"
  BY <1>2 DEF TakeSlot, LimiterTypeOK
<1>4. \A q \in Proc \ {p} :
          pc'[q] = pc[q] /\ start'[q] = start[q] /\ slot'[q] = slot[q]
  BY <1>2 DEF TakeSlot, LimiterTypeOK
<1> QED
  BY <1>1, <1>2, <1>3, <1>4 DEF TakeSlot

\* What the other steps do: the goroutine's slot is kept, or let go; only a slot
\* that has started is sent.
LEMMA OthersKeep ==
    ASSUME LimiterTypeOK, NEW p \in Proc, Pass(p) \/ Sleep(p) \/ Wake(p) \/ Cancel(p)
    PROVE  /\ next' = next /\ slots' = slots /\ now' = now
           /\ pc[p] # "idle"
           /\ \A q \in Proc : pc'[q] # "idle" =>
                 pc[q] # "idle" /\ start'[q] = start[q] /\ slot'[q] = slot[q]
           /\ sent' = sent \/ (sent' = sent \cup {slot[p]} /\ start[p] <= now)
<1>1. CASE Pass(p) \/ Wake(p)
  BY <1>1 DEF Pass, Wake, Send, Return, LimiterTypeOK
<1>2. CASE Cancel(p)
  BY <1>2 DEF Cancel, Return, LimiterTypeOK
<1>3. CASE Sleep(p)
  BY <1>3 DEF Sleep, LimiterTypeOK
<1> QED
  BY <1>1, <1>2, <1>3

\* The inductive invariant: slot k starts k intervals after tick 0 at the
\* earliest, slots do not overlap, and all of them end before next.
THEOREM SlotsTheorem == LimiterSpec => [](SlotsInOrder /\ SlotsApart)
<1>1. LimiterInit => SlotsInOrder /\ SlotsApart
  BY SMT, RateAssumption DEF LimiterInit, SlotsInOrder, SlotsApart
<1>2. LimiterTypeOK /\ LimiterTypeOK' /\ SlotsInOrder /\ SlotsApart /\ [LimiterNext]_limiterVars
         => SlotsInOrder' /\ SlotsApart'
  <2> SUFFICES ASSUME LimiterTypeOK, LimiterTypeOK', SlotsInOrder, SlotsApart, [LimiterNext]_limiterVars
               PROVE  SlotsInOrder' /\ SlotsApart'
    OBVIOUS
  <2>1. ASSUME NEW p \in Proc, Reserve(p) PROVE SlotsInOrder' /\ SlotsApart'
    <3>1. /\ start'[p] \in Nat /\ next <= start'[p]
          /\ next' = start'[p] + Interval
          /\ slots' = slots + 1 /\ slot'[p] = slots
          /\ pc'[p] = "reserved"
          /\ \A q \in Proc \ {p} :
                pc'[q] = pc[q] /\ start'[q] = start[q] /\ slot'[q] = slot[q]
          /\ now' = now /\ sent' = sent
      BY <2>1, ReserveTakes
    <3>2. slots' * Interval = slots * Interval + Interval
      BY <3>1, SMT, RateAssumption DEF LimiterTypeOK
    <3>3. slots * Interval \in Int /\ slots * Interval <= next
      BY SMT, RateAssumption DEF LimiterTypeOK, SlotsInOrder
    <3>4. slots' * Interval <= next'
      BY ONLY <3>1, <3>2, <3>3, RateAssumption, LimiterTypeOK DEF LimiterTypeOK
    <3>5. slot'[p] * Interval <= start'[p]
      BY ONLY <3>1, <3>3, LimiterTypeOK DEF LimiterTypeOK
    <3>6. ASSUME NEW q \in Proc, pc'[q] # "idle"
          PROVE  /\ slot'[q] * Interval <= start'[q]
                 /\ start'[q] + Interval <= next'
      <4>1. CASE q = p
        BY <4>1, <3>1, <3>5, RateAssumption DEF LimiterTypeOK
      <4>2. CASE q # p
        <5>1. pc[q] # "idle" /\ start'[q] = start[q] /\ slot'[q] = slot[q]
          BY <3>6, <4>2, <3>1
        <5>2. /\ slot[q] * Interval <= start[q]
              /\ start[q] + Interval <= next
          BY <5>1 DEF SlotsInOrder
        <5>3. start[q] \in Nat /\ next \in Nat /\ slots \in Nat
          BY DEF LimiterTypeOK
        <5> QED
          BY <5>1, <5>2, <5>3, <3>1, RateAssumption
      <4> QED
        BY <4>1, <4>2
    <3>7. SlotsInOrder'
      <4>1. \A k \in sent' : k * Interval <= now'
        BY <3>1 DEF SlotsInOrder
      <4> QED
        BY <3>4, <3>6, <4>1 DEF SlotsInOrder
    <3>8. ASSUME NEW q \in Proc, q # p, pc'[q] # "idle"
          PROVE  start'[q] + Interval <= start'[p]
      <4>1. start'[q] = start[q] /\ start[q] + Interval <= next
        BY <3>8, <3>1 DEF SlotsInOrder
      <4>2. start[q] \in Nat /\ next \in Nat
        BY DEF LimiterTypeOK
      <4> QED
        BY <4>1, <4>2, <3>1, RateAssumption
    <3>9. SlotsApart'
      BY <3>1, <3>8 DEF SlotsApart
    <3> QED
      BY <3>7, <3>9
  <2>2. ASSUME NEW p \in Proc, Pass(p) \/ Sleep(p) \/ Wake(p) \/ Cancel(p)
        PROVE  SlotsInOrder' /\ SlotsApart'
    <3>1. /\ next' = next /\ slots' = slots /\ now' = now
          /\ pc[p] # "idle"
          /\ \A q \in Proc : pc'[q] # "idle" =>
                pc[q] # "idle" /\ start'[q] = start[q] /\ slot'[q] = slot[q]
          /\ sent' = sent \/ (sent' = sent \cup {slot[p]} /\ start[p] <= now)
      BY <2>2, OthersKeep
    <3>2. ASSUME start[p] <= now PROVE slot[p] * Interval <= now
      <4>1. slot[p] * Interval <= start[p]
        BY <3>1 DEF SlotsInOrder
      <4>2. slot[p] * Interval \in Int
        BY RateAssumption DEF LimiterTypeOK
      <4> QED
        BY <3>2, <4>1, <4>2 DEF LimiterTypeOK
    <3>3. \A k \in sent' : k * Interval <= now'
      BY <3>1, <3>2 DEF SlotsInOrder
    <3>4. SlotsInOrder'
      BY <3>1, <3>3 DEF SlotsInOrder
    <3> QED
      BY <3>1, <3>4 DEF SlotsApart
  <2>3. ASSUME Tick PROVE SlotsInOrder' /\ SlotsApart'
    <3>1. ASSUME NEW k \in sent PROVE k * Interval <= now + 1
      <4>1. k * Interval <= now /\ k * Interval \in Int /\ now \in Nat
        BY RateAssumption DEF SlotsInOrder, LimiterTypeOK
      <4> QED
        BY ONLY <4>1
    <3> QED
      BY <2>3, <3>1 DEF Tick, SlotsInOrder, SlotsApart
  <2>4. ASSUME UNCHANGED limiterVars PROVE SlotsInOrder' /\ SlotsApart'
    BY <2>4 DEF limiterVars, SlotsInOrder, SlotsApart
  <2> QED
    BY <2>1, <2>2, <2>3, <2>4 DEF LimiterNext
<1> QED
  BY <1>1, <1>2, TypeTheorem, PTL DEF LimiterSpec

\* Since the limiter was made, at most one request and one more for every interval
\* that has passed are sent, however many goroutines wait (rateLimiter.wait).
THEOREM RateTheorem == LimiterSpec => []RateBound
<1>1. LimiterTypeOK /\ SlotsInOrder => RateBound
  <2> SUFFICES ASSUME LimiterTypeOK, SlotsInOrder PROVE RateBound
    OBVIOUS
  <2> DEFINE d == now \div Interval
  <2>1. d \in Nat
    BY SMT, RateAssumption DEF LimiterTypeOK
  <2>2. sent \subseteq 0 .. d
    <3> SUFFICES ASSUME NEW k \in sent PROVE k \in 0 .. d
      OBVIOUS
    <3>1. k \in Nat /\ now \in Nat /\ k * Interval <= now
      BY DEF LimiterTypeOK, SlotsInOrder
    <3>2. k <= d
      BY <3>1, SlotOfTime
    <3> HIDE DEF d
    <3> QED
      BY <3>1, <3>2, <2>1
  <2> HIDE DEF d
  <2>3. IsFiniteSet(0 .. d) /\ Cardinality(0 .. d) = d + 1
    BY <2>1, FS_Interval
  <2>4. Cardinality(sent) <= d + 1
    BY <2>2, <2>3, FS_Subset
  <2>5. Cardinality(sent) \in Nat
    BY <2>2, <2>3, FS_Subset, FS_CardinalityType
  <2>6. Cardinality(sent) <= 1 + d
    BY <2>4, <2>5, <2>1
  <2> QED
    BY <2>6 DEF RateBound, d
<1> QED
  BY <1>1, TypeTheorem, SlotsTheorem, PTL
=============================================================================
