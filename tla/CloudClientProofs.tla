------------------------- MODULE CloudClientProofs -------------------------
(***************************************************************************)
(* The safety properties of what stands before vServer in every cloud      *)
(* call, two machines that share no name: RateLimiter, for every number of *)
(* requests, every rate, cooldown and window, and MetaCache (CacheInit,    *)
(* CacheNext, cacheVars), for every set of callers, every TTL and every    *)
(* length of a load.                                                       *)
(*                                                                         *)
(* Reports are applied out of order, but each at most MaxDelay after its   *)
(* answer: lastAdj moves forward only, and lastSrvErr is set back by no    *)
(* more than that.  What the bucket has given out since the last move is   *)
(* paid for by the burst, by the rate since then and by what it owes.      *)
(*                                                                         *)
(* That a value is never older than the TTL and a load needs the age of    *)
(* what is stored, and of what a running load has read; that a failure is  *)
(* never older than the call that gets it needs that nobody joins a call   *)
(* object once its outcome is known.                                       *)
(***************************************************************************)
EXTENDS RateLimiter, MetaCache, TLAPS

-----------------------------------------------------------------------------
(* RateLimiter *)

\* An answer is reported within MaxDelay.
ReportsInTime ==
  \A r \in Requests : pc[r] = "report" =>
    Zero < at[r] /\ at[r] <= clock /\ clock - at[r] <= MaxDelay

\* The rate moves only when lastAdj does, which lies in the past.
MovesPast == Zero < clock /\ moved <= lastAdj /\ lastAdj <= clock

\* lastSrvErr is the latest 5xx, up to the delay of a report.
SpellIsKnown ==
  /\ srvErr <= clock
  /\ lastSrvErr = Zero => srvErr = Zero
  /\ srvErr - lastSrvErr <= MaxDelay

\* What was given out, and what is left, were in the burst or came since.
TokensPaid == issued + tokens <= Burst(qps) + qps * (clock - moved)

\* What was given out at this rate was reserved at most MaxWait ahead.
DebtIsBounded == issued > 0 => tokens >= -(qps * MaxWait)

IInv ==
  /\ TypeOK /\ ReportsInTime /\ MovesPast /\ SpellIsKnown
  /\ TokensPaid /\ DebtIsBounded

\* The parts of TypeOK: the limiter, its bucket, the requests.
LimiterTyped ==
  clock \in Times /\ qps \in MinQPS..MaxQPS /\ {lastAdj, lastSrvErr, srvSpellStart, moved, srvErr} \subseteq Times

BucketTyped == tokens \in (-(MaxWait * MaxQPS))..Burst(qps) /\ issued \in Nat

RequestsTyped ==
  /\ pc \in [Requests -> {"idle", "wait", "sent", "report", "shed"}]
  /\ at \in [Requests -> Zero..(MaxClock + MaxWait)]
  /\ outcome \in [Requests -> AllOutcomes]

\* The parts make the whole.
LEMMA TypeParts ==
  /\ TypeOK <=> LimiterTyped /\ BucketTyped /\ RequestsTyped
  /\ TypeOK' <=> LimiterTyped' /\ BucketTyped' /\ RequestsTyped'
BY Zenon DEF TypeOK, LimiterTyped, BucketTyped, RequestsTyped

\* The constants, one by one.
LEMMA Parameters ==
  /\ MaxQPS \in Nat /\ MinQPS \in Nat /\ IncreaseQPS \in Nat
  /\ MinQPS > 0 /\ MaxQPS > 0 /\ IncreaseQPS > 0 /\ MinQPS <= MaxQPS
  /\ DecreaseCooldown \in Nat /\ RecoverEvery \in Nat
  /\ ServerErrorQuiet \in Nat /\ ServerErrorHoldMax \in Nat
  /\ DecreaseCooldown > 0 /\ RecoverEvery > 0 /\ ServerErrorQuiet > 0 /\ ServerErrorHoldMax > 0
  /\ MaxWait \in Nat /\ MaxDelay \in Nat /\ MaxClock \in Nat /\ MaxClock > 0
BY RateAssumption

\* The variables of the limiter, one by one.
LEMMA Numbers ==
  ASSUME TypeOK
  PROVE  /\ clock \in Nat /\ clock <= MaxClock
         /\ qps \in Nat /\ MinQPS <= qps /\ qps <= MaxQPS /\ qps > 0
         /\ lastAdj \in Nat /\ lastSrvErr \in Nat /\ srvSpellStart \in Nat
         /\ moved \in Nat /\ srvErr \in Nat /\ issued \in Nat
         /\ tokens \in Int /\ -(MaxWait * MaxQPS) <= tokens /\ tokens <= qps
         /\ Burst(qps) = qps /\ MaxWait * MaxQPS \in Nat
<1>1. /\ clock \in Nat /\ clock <= MaxClock
      /\ qps \in Nat /\ MinQPS <= qps /\ qps <= MaxQPS /\ qps > 0
  BY Parameters DEF TypeOK, Times, Zero
<1>2. /\ lastAdj \in Nat /\ lastSrvErr \in Nat /\ srvSpellStart \in Nat
      /\ moved \in Nat /\ srvErr \in Nat /\ issued \in Nat
  BY Parameters DEF TypeOK, Times, Zero
<1>3. Burst(qps) = qps
  BY <1>1 DEF Burst
<1>4. MaxWait * MaxQPS \in Nat
  BY Parameters
<1> DEFINE m == MaxWait * MaxQPS
<1>5. m \in Nat /\ tokens \in (-m)..qps
  BY <1>3, <1>4 DEF TypeOK
<1> HIDE DEF m
<1>6. tokens \in Int /\ -m <= tokens /\ tokens <= qps
  BY <1>1, <1>5
<1> QED
  BY <1>1, <1>2, <1>3, <1>4, <1>6 DEF m

\* A reservation that waits no longer than MaxWait leaves the bucket no deeper
\* in debt than the rate pays back in that time (rate.Limiter.WaitN).
LEMMA ReservedAhead ==
  ASSUME NEW q \in Nat, q > 0, NEW t \in Int, NEW m \in Nat,
         t < 0, (q - 1 - t) \div q <= m
  PROVE  (q - 1 - t) \div q \in Nat /\ t >= -(q * m)
<1> DEFINE x == q - 1 - t
           d == x \div q
<1>1. x \in Nat /\ x >= q
  OBVIOUS
<1>2. d \in Int /\ x = q * d + (x % q) /\ x % q \in 0..(q - 1)
  BY <1>1
<1> HIDE DEF x
<1>3. d >= 0
  BY <1>1, <1>2
<1> HIDE DEF d
<1>4. x <= q * d + q - 1
  BY <1>1, <1>2
<1>5. q * d <= q * m
  BY <1>2, <1>3 DEF d, x
<1>6. q * m \in Int /\ q * d \in Int
  BY <1>2
<1>7. x <= q * m + q - 1
  BY <1>4, <1>5, <1>6, <1>1
<1> QED
  BY <1>2, <1>3, <1>6, <1>7 DEF x, d

-----------------------------------------------------------------------------
(* The steps. *)

\* A report moves lastAdj forward, and with it perhaps the rate: down after
\* the cooldown, up after RecoverEvery and outside a spell.
Adjusts(pnow, q) ==
  /\ lastAdj' = pnow /\ setRateLocked(q, pnow)
  /\ \/ q <= qps /\ MayDecrease(pnow)
     \/ q > qps /\ MayClimb(pnow)

\* A report of a 5xx records the spell.
Records(pnow) ==
  srvSpellStart' = SpellStart(pnow) /\ lastSrvErr' = pnow /\ srvErr' = AtLeast(srvErr, pnow)

\* The three reports in these terms (ratelimit.go).
LEMMA ReportMoves ==
  ASSUME TypeOK, NEW pnow,
         onThrottled(pnow) \/ onServerError(pnow) \/ onSuccess(pnow)
  PROVE  /\ Hold \/ \E q \in MinQPS..MaxQPS : Adjusts(pnow, q)
         /\ UNCHANGED <<lastSrvErr, srvSpellStart, srvErr>> \/ Records(pnow)
<1>0. /\ qps \in Nat /\ MinQPS <= qps /\ qps <= MaxQPS
      /\ MinQPS \in Nat /\ MaxQPS \in Nat /\ IncreaseQPS \in Nat /\ IncreaseQPS > 0
  BY Numbers, Parameters
<1>1. UNCHANGED <<lastSrvErr, srvSpellStart, srvErr>> \/ Records(pnow)
  BY DEF onThrottled, onServerError, onSuccess, Records
<1>2. /\ Halved(qps) \in MinQPS..MaxQPS /\ Halved(qps) <= qps
      /\ Eased(qps) \in MinQPS..MaxQPS /\ Eased(qps) <= qps
  BY <1>0 DEF Halved, Eased, AtLeast
<1>3. ASSUME qps < MaxQPS
      PROVE  /\ AtMost(qps + IncreaseQPS, MaxQPS) \in MinQPS..MaxQPS
             /\ AtMost(qps + IncreaseQPS, MaxQPS) > qps
  BY <1>0, <1>3 DEF AtMost
<1>4. CASE onThrottled(pnow)
  BY <1>1, <1>2, <1>4, Zenon DEF onThrottled, Decrease, Adjusts
<1>5. CASE onServerError(pnow)
  BY <1>1, <1>2, <1>5, Zenon DEF onServerError, Decrease, Adjusts
<1>6. CASE onSuccess(pnow)
  <2>1. CASE MayClimb(pnow) /\ lastAdj' = pnow
             /\ setRateLocked(AtMost(qps + IncreaseQPS, MaxQPS), pnow)
    <3>1. qps < MaxQPS
      BY <2>1 DEF MayClimb
    <3> QED
      BY <1>1, <1>3, <2>1, <3>1, Zenon DEF Adjusts
  <2>2. CASE Hold
    BY <1>1, <2>2
  <2> QED
    BY <1>6, <2>1, <2>2, Zenon DEF onSuccess
<1> QED
  BY <1>4, <1>5, <1>6

\* A report is applied by a request, for the time of its answer.
LEMMA DoRequestMoves ==
  ASSUME TypeOK, ReportsInTime, NEW r \in Requests, DoRequest(r)
  PROVE  /\ at[r] \in Nat /\ Zero < at[r] /\ at[r] <= clock /\ clock - at[r] <= MaxDelay
         /\ Hold \/ \E q \in MinQPS..MaxQPS : Adjusts(at[r], q)
         /\ UNCHANGED <<lastSrvErr, srvSpellStart, srvErr>> \/ Records(at[r])
         /\ UNCHANGED clock
<1>1. pc[r] = "report" /\ UNCHANGED clock
  BY DEF DoRequest
<1>2. Zero < at[r] /\ at[r] <= clock /\ clock - at[r] <= MaxDelay
  BY <1>1 DEF ReportsInTime
<1>3. at[r] \in Nat
  BY Parameters DEF TypeOK, Zero
<1>4. onThrottled(at[r]) \/ onServerError(at[r]) \/ onSuccess(at[r])
  BY DEF DoRequest
<1> QED
  BY <1>1, <1>2, <1>3, <1>4, ReportMoves

\* The new rate, its bucket and the history of a report that adjusts.
LEMMA Adjusted ==
  ASSUME TypeOK, NEW q \in MinQPS..MaxQPS, NEW pnow, Adjusts(pnow, q)
  PROVE  /\ q \in Nat /\ q > 0 /\ qps' = q /\ lastAdj' = pnow /\ Burst(qps') = q
         /\ tokens' \in Int /\ tokens' <= q /\ tokens' <= tokens
         /\ tokens' = tokens \/ tokens' = q
         /\ q = qps => moved' = moved /\ issued' = issued
         /\ q # qps => moved' = pnow /\ issued' = 0
<1>1. q \in Nat /\ q > 0 /\ tokens \in Int
  BY Parameters, Numbers
<1>2. Burst(q) = q
  BY <1>1 DEF Burst
<1>3. tokens' = AtMost(tokens, q) /\ qps' = q /\ lastAdj' = pnow
  BY <1>2 DEF Adjusts, setRateLocked
<1>4. /\ q = qps => moved' = moved /\ issued' = issued
      /\ q # qps => moved' = pnow /\ issued' = 0
  BY DEF Adjusts, setRateLocked
<1> QED
  BY <1>1, <1>2, <1>3, <1>4 DEF AtMost

\* Types are kept: the rate between its floor and its ceiling, the bucket
\* between its debt and its burst.
LEMMA TypeStep ==
  ASSUME IInv, [Next]_vars
  PROVE  TypeOK'
<1> USE DEF limiter, history
<1>0. TypeOK /\ ReportsInTime /\ LimiterTyped /\ BucketTyped /\ RequestsTyped
  BY TypeParts DEF IInv
<1>n. /\ clock \in Nat /\ clock <= MaxClock /\ qps \in Nat /\ qps > 0 /\ qps <= MaxQPS
      /\ tokens \in Int /\ -(MaxWait * MaxQPS) <= tokens /\ tokens <= qps /\ Burst(qps) = qps
      /\ MaxWait * MaxQPS \in Nat /\ issued \in Nat
  BY <1>0, Numbers
<1>1. CASE Tick
  <2>1. LimiterTyped'
    BY <1>0, <1>1, <1>n, Parameters DEF Tick, LimiterTyped, Times, Zero
  <2>2. RequestsTyped'
    BY <1>0, <1>1 DEF Tick, RequestsTyped
  <2>3. BucketTyped'
    <3>1. tokens' = AtMost(tokens + qps, qps) /\ qps' = qps /\ issued' = issued
      BY <1>1, <1>n DEF Tick, Refill
    <3>2. tokens' \in Int /\ tokens <= tokens' /\ tokens' <= qps
      BY <1>n, <3>1 DEF AtMost
    <3> QED
      BY <1>n, <3>1, <3>2 DEF BucketTyped
  <2> QED
    BY <2>1, <2>2, <2>3, TypeParts
<1>2. ASSUME NEW r \in Requests, wait(r)
      PROVE  TypeOK'
  <2>0. UNCHANGED <<clock, limiter, outcome, moved, srvErr>>
    BY <1>2 DEF wait
  <2>1. LimiterTyped'
    BY <1>0, <2>0 DEF LimiterTyped
  <2>2. CASE Delay(tokens - 1) <= MaxWait
    <3> DEFINE d == Delay(tokens - 1)
    <3>1. /\ pc' = [pc EXCEPT ![r] = "wait"] /\ at' = [at EXCEPT ![r] = clock + d]
          /\ tokens' = tokens - 1 /\ issued' = issued + 1
      BY <1>2, <2>2 DEF wait
    <3>2. d \in Nat /\ tokens - 1 >= -(MaxWait * MaxQPS)
      <4>1. CASE tokens - 1 >= 0
        BY <1>n, <4>1 DEF Delay
      <4>2. CASE tokens - 1 < 0
        <5>1. d = (qps - 1 - (tokens - 1)) \div qps
          BY <1>n, <4>2 DEF Delay
        <5>2. d \in Nat /\ tokens - 1 >= -(qps * MaxWait)
          <6> DEFINE t == tokens - 1
          <6>1. t \in Int /\ t < 0 /\ (qps - 1 - t) \div qps <= MaxWait
            BY <1>n, <2>2, <4>2, <5>1
          <6> HIDE DEF t
          <6>2. (qps - 1 - t) \div qps \in Nat /\ t >= -(qps * MaxWait)
            BY <1>n, <6>1, ReservedAhead, Parameters
          <6> QED
            BY <5>1, <6>2 DEF t
        <5>3. qps * MaxWait <= MaxWait * MaxQPS /\ qps * MaxWait \in Int
          BY <1>n, Parameters
        <5> QED
          BY <1>n, <5>2, <5>3
      <4> QED
        BY <1>n, <4>1, <4>2
    <3> HIDE DEF d
    <3>3. clock + d \in Zero..(MaxClock + MaxWait)
      BY <1>n, <2>2, <3>2, Parameters DEF d, Zero
    <3>4. RequestsTyped'
      BY <1>0, <2>0, <3>1, <3>3 DEF RequestsTyped
    <3>5. BucketTyped'
      BY <1>n, <2>0, <3>1, <3>2 DEF BucketTyped
    <3> QED
      BY <2>1, <3>4, <3>5, TypeParts
  <2>3. CASE ~(Delay(tokens - 1) <= MaxWait)
    <3>1. pc' = [pc EXCEPT ![r] = "shed"] /\ UNCHANGED <<at, tokens, issued>>
      BY <1>2, <2>3 DEF wait
    <3>2. RequestsTyped' /\ BucketTyped'
      BY <1>0, <2>0, <3>1 DEF RequestsTyped, BucketTyped
    <3> QED
      BY <2>1, <3>2, TypeParts
  <2> QED
    BY <2>2, <2>3
<1>3. ASSUME NEW r \in Requests, Send(r)
      PROVE  TypeOK'
  <2>1. RequestsTyped'
    BY <1>0, <1>3, Parameters DEF Send, RequestsTyped, Zero
  <2>2. LimiterTyped' /\ BucketTyped'
    BY <1>0, <1>3 DEF Send, LimiterTyped, BucketTyped
  <2> QED
    BY <2>1, <2>2, TypeParts
<1>4. ASSUME NEW r \in Requests, NEW o \in Outcomes, Answered(r, o)
      PROVE  TypeOK'
  <2>0. o \in AllOutcomes /\ clock \in Zero..(MaxClock + MaxWait)
    BY <1>n, RateAssumption, Parameters DEF Zero
  <2>1. RequestsTyped'
    BY <1>0, <1>4, <2>0 DEF Answered, RequestsTyped
  <2>2. LimiterTyped' /\ BucketTyped'
    BY <1>0, <1>4 DEF Answered, LimiterTyped, BucketTyped
  <2> QED
    BY <2>1, <2>2, TypeParts
<1>5. ASSUME NEW r \in Requests, DoRequest(r)
      PROVE  TypeOK'
  <2>0. /\ at[r] \in Times /\ clock' = clock
        /\ Hold \/ \E q \in MinQPS..MaxQPS : Adjusts(at[r], q)
        /\ UNCHANGED <<lastSrvErr, srvSpellStart, srvErr>> \/ Records(at[r])
    BY <1>0, <1>5, <1>n, DoRequestMoves, Parameters DEF Times, Zero
  <2>1. RequestsTyped'
    BY <1>0, <1>5, Parameters DEF DoRequest, RequestsTyped, AllOutcomes, Zero
  <2>2. {lastSrvErr, srvSpellStart, srvErr}' \subseteq Times
    BY <1>0, <2>0 DEF LimiterTyped, Records, SpellStart, AtLeast
  <2>3. CASE Hold
    <3>1. LimiterTyped'
      BY <1>0, <2>0, <2>2, <2>3 DEF Hold, LimiterTyped
    <3>2. BucketTyped'
      BY <1>0, <2>3 DEF Hold, BucketTyped
    <3> QED
      BY <2>1, <3>1, <3>2, TypeParts
  <2>4. ASSUME NEW q \in MinQPS..MaxQPS, Adjusts(at[r], q)
        PROVE  TypeOK'
    <3>1. /\ q \in Nat /\ q > 0 /\ qps' = q /\ lastAdj' = at[r] /\ Burst(qps') = q
          /\ tokens' \in Int /\ tokens' <= q
          /\ tokens' = tokens \/ tokens' = q
          /\ q = qps => moved' = moved /\ issued' = issued
          /\ q # qps => moved' = at[r] /\ issued' = 0
      BY <1>0, <2>4, Adjusted
    <3>2. moved' \in Times /\ issued' \in Nat
      BY <1>0, <1>n, <2>0, <3>1 DEF LimiterTyped
    <3>3. LimiterTyped'
      BY <1>0, <2>0, <2>2, <3>1, <3>2 DEF LimiterTyped
    <3>4. -(MaxWait * MaxQPS) <= tokens'
      BY <1>n, <3>1
    <3>5. BucketTyped'
      BY <1>n, <3>1, <3>2, <3>4 DEF BucketTyped
    <3> QED
      BY <2>1, <3>3, <3>5, TypeParts
  <2> QED
    BY <2>0, <2>3, <2>4
<1>6. CASE UNCHANGED vars
  BY <1>0, <1>6, TypeParts DEF vars, LimiterTyped, BucketTyped, RequestsTyped
<1> QED
  BY <1>1, <1>2, <1>3, <1>4, <1>5, <1>6 DEF Next

\* A report is never older than MaxDelay: the clock waits for it.
LEMMA ReportsStep ==
  ASSUME IInv, [Next]_vars
  PROVE  ReportsInTime'
<1>0. TypeOK /\ ReportsInTime /\ clock \in Nat /\ Zero < clock
  BY Numbers DEF IInv, MovesPast
<1>t. /\ pc \in [Requests -> {"idle", "wait", "sent", "report", "shed"}]
      /\ at \in [Requests -> Zero..(MaxClock + MaxWait)]
      /\ \A r \in Requests : at[r] \in Int
  BY <1>0, Parameters DEF TypeOK, Zero
<1>1. CASE Tick
  <2>1. clock' = clock + 1 /\ pc' = pc /\ at' = at
    BY <1>1 DEF Tick
  <2>2. \A r \in Requests : pc[r] = "report" => clock - at[r] < MaxDelay
    BY <1>1 DEF Tick
  <2> QED
    BY <1>0, <1>t, <2>1, <2>2, Parameters DEF ReportsInTime
<1>2. ASSUME NEW r \in Requests, wait(r) \/ Send(r) \/ DoRequest(r)
      PROVE  ReportsInTime'
  <2>1. /\ clock' = clock /\ pc'[r] # "report"
        /\ \A o \in Requests \ {r} : pc'[o] = pc[o] /\ at'[o] = at[o]
    BY <1>2, <1>t DEF wait, Send, DoRequest
  <2> QED
    BY <1>0, <2>1 DEF ReportsInTime
<1>3. ASSUME NEW r \in Requests, NEW o \in Outcomes, Answered(r, o)
      PROVE  ReportsInTime'
  <2>1. /\ clock' = clock /\ at'[r] = clock
        /\ \A u \in Requests \ {r} : pc'[u] = pc[u] /\ at'[u] = at[u]
    BY <1>3, <1>t DEF Answered
  <2> QED
    BY <1>0, <2>1, Parameters DEF ReportsInTime
<1>4. CASE UNCHANGED vars
  BY <1>0, <1>4 DEF vars, ReportsInTime
<1> QED
  BY <1>1, <1>2, <1>3, <1>4 DEF Next

\* The steps that are no report leave the limiter alone.
LEMMA LimiterKept ==
  ASSUME [Next]_vars, \A r \in Requests : ~DoRequest(r)
  PROVE  UNCHANGED <<qps, lastAdj, lastSrvErr, srvSpellStart, moved, srvErr>>
BY DEF Next, Tick, wait, Send, Answered, limiter, history, vars

\* The clock goes on.
LEMMA ClockKept ==
  ASSUME TypeOK, [Next]_vars
  PROVE  clock' \in Nat /\ (clock' = clock \/ clock' = clock + 1)
<1>1. clock \in Nat
  BY Numbers
<1> QED
  BY <1>1 DEF Next, Tick, wait, Send, Answered, DoRequest, vars

\* lastAdj moves forward only, and an adjustment of the rate keeps its pace:
\* MovesArePaced and SpellHoldsRate follow step by step.
LEMMA AdjustsForward ==
  ASSUME IInv, NEW pnow \in Nat, NEW q \in MinQPS..MaxQPS, Adjusts(pnow, q), pnow <= clock, Zero < pnow
  PROVE  /\ lastAdj < pnow /\ moved' <= pnow
         /\ q < qps => moved' = pnow /\ (moved = Zero \/ moved' - moved >= DecreaseCooldown)
         /\ q > qps => /\ moved' = pnow /\ moved' - moved >= RecoverEvery
                       /\ ~Suspended(pnow)
<1>0. /\ lastAdj \in Nat /\ moved \in Nat /\ qps \in Nat /\ moved <= lastAdj
      /\ DecreaseCooldown \in Nat /\ RecoverEvery \in Nat /\ DecreaseCooldown > 0 /\ RecoverEvery > 0
  BY Numbers, Parameters DEF IInv, MovesPast
<1>1. /\ q \in Nat
      /\ q = qps => moved' = moved
      /\ q # qps => moved' = pnow
  BY Adjusted DEF IInv
<1>2. CASE q <= qps /\ MayDecrease(pnow)
  <2>1. lastAdj = 0 \/ pnow - lastAdj >= DecreaseCooldown
    BY <1>2 DEF MayDecrease, Since, Zero
  <2> QED
    BY <1>0, <1>1, <1>2, <2>1 DEF Zero
<1>3. CASE q > qps /\ MayClimb(pnow)
  <2>1. pnow - lastAdj >= RecoverEvery /\ ~Suspended(pnow)
    BY <1>3 DEF MayClimb, Since
  <2> QED
    BY <1>0, <1>1, <1>3, <2>1
<1> QED
  BY <1>2, <1>3 DEF Adjusts

\* The moves stay in the past.
LEMMA MovesStep ==
  ASSUME IInv, [Next]_vars
  PROVE  MovesPast'
<1>0. /\ TypeOK /\ ReportsInTime /\ MovesPast /\ clock \in Nat /\ lastAdj \in Nat /\ moved \in Nat
  BY Numbers DEF IInv
<1>1. clock' \in Nat /\ clock <= clock'
  BY <1>0, ClockKept
<1>2. ASSUME NEW r \in Requests, DoRequest(r)
      PROVE  MovesPast'
  <2>1. /\ at[r] \in Nat /\ Zero < at[r] /\ at[r] <= clock
        /\ Hold \/ \E q \in MinQPS..MaxQPS : Adjusts(at[r], q)
    BY <1>0, <1>2, DoRequestMoves
  <2>2. CASE Hold
    BY <1>0, <1>1, <2>2 DEF Hold, MovesPast, Zero
  <2>3. ASSUME NEW q \in MinQPS..MaxQPS, Adjusts(at[r], q)
        PROVE  MovesPast'
    <3>1. lastAdj' = at[r] /\ moved' <= at[r]
      BY <2>1, <2>3, AdjustsForward DEF Adjusts
    <3> QED
      BY <1>0, <1>1, <2>1, <3>1 DEF MovesPast, Zero
  <2> QED
    BY <2>1, <2>2, <2>3
<1>3. CASE \A r \in Requests : ~DoRequest(r)
  <2>1. UNCHANGED <<lastAdj, moved>>
    BY <1>3, LimiterKept
  <2> QED
    BY <1>0, <1>1, <2>1 DEF MovesPast, Zero
<1> QED
  BY <1>2, <1>3

\* A late report sets lastSrvErr back by its delay at most.
LEMMA SpellStep ==
  ASSUME IInv, [Next]_vars
  PROVE  SpellIsKnown'
<1>0. /\ TypeOK /\ ReportsInTime /\ SpellIsKnown
      /\ clock \in Nat /\ lastSrvErr \in Nat /\ srvErr \in Nat /\ MaxDelay \in Nat
  BY Numbers, Parameters DEF IInv
<1>1. clock' \in Nat /\ clock <= clock'
  BY <1>0, ClockKept
<1>k. ASSUME UNCHANGED <<lastSrvErr, srvErr>>
      PROVE  SpellIsKnown'
  BY <1>0, <1>1, <1>k DEF SpellIsKnown
<1>2. ASSUME NEW r \in Requests, DoRequest(r)
      PROVE  SpellIsKnown'
  <2>1. /\ at[r] \in Nat /\ Zero < at[r] /\ at[r] <= clock /\ clock - at[r] <= MaxDelay
        /\ UNCHANGED <<lastSrvErr, srvErr>> \/ Records(at[r])
    BY <1>0, <1>2, DoRequestMoves
  <2>2. CASE Records(at[r])
    <3>1. lastSrvErr' = at[r] /\ srvErr' = AtLeast(srvErr, at[r])
      BY <2>2 DEF Records
    <3> QED
      BY <1>0, <1>1, <2>1, <3>1 DEF SpellIsKnown, AtLeast, Zero
  <2> QED
    BY <1>k, <2>1, <2>2
<1>3. CASE \A r \in Requests : ~DoRequest(r)
  BY <1>3, <1>k, LimiterKept
<1> QED
  BY <1>2, <1>3

\* The bucket gives out what the burst and the rate pay for.
LEMMA TokensStep ==
  ASSUME IInv, [Next]_vars
  PROVE  TokensPaid' /\ DebtIsBounded'
<1>0. /\ TypeOK /\ ReportsInTime /\ TokensPaid /\ DebtIsBounded
      /\ clock \in Nat /\ moved \in Nat /\ moved <= clock /\ issued \in Nat
      /\ qps \in Nat /\ qps > 0 /\ tokens \in Int /\ tokens <= qps /\ Burst(qps) = qps
      /\ MaxWait \in Nat
  <2>1. IInv
    OBVIOUS
  <2>2. /\ clock \in Nat /\ moved \in Nat /\ lastAdj \in Nat /\ issued \in Nat
        /\ qps \in Nat /\ qps > 0 /\ tokens \in Int /\ tokens <= qps /\ Burst(qps) = qps
    BY <2>1, Numbers DEF IInv
  <2>3. moved <= clock
    BY <2>1, <2>2 DEF IInv, MovesPast
  <2> QED
    BY <2>1, <2>2, <2>3, Parameters DEF IInv
<1> DEFINE earned == qps * (clock - moved)
           debt == qps * MaxWait
<1>e. earned \in Nat /\ debt \in Nat
  BY <1>0
<1>p. issued + tokens <= qps + earned /\ (issued > 0 => tokens >= -debt)
  BY <1>0 DEF TokensPaid, DebtIsBounded
<1>1. CASE Tick
  <2>1. tokens' = AtMost(tokens + qps, qps) /\ qps' = qps /\ issued' = issued
        /\ moved' = moved /\ clock' = clock + 1
    BY <1>0, <1>1 DEF Tick, Refill, limiter, history
  <2>2. qps' * (clock' - moved') = earned + qps /\ qps' * MaxWait = debt /\ Burst(qps') = qps
    BY <1>0, <2>1
  <2> HIDE DEF earned, debt
  <2>3. issued' + tokens' <= qps + (earned + qps) /\ (issued' > 0 => tokens' >= -debt)
    BY <1>0, <1>e, <1>p, <2>1 DEF AtMost
  <2> QED
    BY <2>2, <2>3 DEF TokensPaid, DebtIsBounded
<1>k. ASSUME UNCHANGED <<clock, qps, moved>>,
             issued' + tokens' <= qps + earned, issued' > 0 => tokens' >= -debt
      PROVE  TokensPaid' /\ DebtIsBounded'
  BY <1>0, <1>k DEF TokensPaid, DebtIsBounded
<1>2. ASSUME NEW r \in Requests, wait(r)
      PROVE  TokensPaid' /\ DebtIsBounded'
  <2>0. UNCHANGED <<clock, qps, moved>>
    BY <1>2 DEF wait, limiter
  <2>1. CASE Delay(tokens - 1) <= MaxWait
    <3>1. tokens' = tokens - 1 /\ issued' = issued + 1
      BY <1>2, <2>1 DEF wait
    <3>2. tokens - 1 >= -debt
      <4>1. CASE tokens - 1 >= 0
        BY <1>0, <1>e, <4>1
      <4>2. CASE tokens - 1 < 0
        <5> DEFINE t == tokens - 1
        <5>1. t \in Int /\ t < 0 /\ (qps - 1 - t) \div qps <= MaxWait
          BY <1>0, <2>1, <4>2 DEF Delay
        <5> HIDE DEF t
        <5>2. t >= -(qps * MaxWait)
          BY <1>0, <5>1, ReservedAhead
        <5> QED
          BY <5>2 DEF t
      <4> QED
        BY <1>0, <4>1, <4>2
    <3> HIDE DEF earned, debt
    <3>3. issued' + tokens' <= qps + earned
      BY <1>0, <1>e, <1>p, <3>1
    <3> QED
      BY <1>k, <2>0, <3>1, <3>2, <3>3
  <2>2. CASE ~(Delay(tokens - 1) <= MaxWait)
    <3>1. UNCHANGED <<tokens, issued>>
      BY <1>2, <2>2 DEF wait
    <3> QED
      BY <1>k, <1>p, <2>0, <3>1
  <2> QED
    BY <2>1, <2>2
<1>3. ASSUME NEW r \in Requests, DoRequest(r)
      PROVE  TokensPaid' /\ DebtIsBounded'
  <2>0. /\ at[r] \in Nat /\ Zero < at[r] /\ at[r] <= clock /\ clock' = clock
        /\ Hold \/ \E q \in MinQPS..MaxQPS : Adjusts(at[r], q)
    BY <1>0, <1>3, DoRequestMoves
  <2>1. CASE Hold
    <3>1. UNCHANGED <<clock, qps, moved, tokens, issued>>
      BY <2>0, <2>1 DEF Hold
    <3> QED
      BY <1>k, <1>p, <3>1
  <2>2. ASSUME NEW q \in MinQPS..MaxQPS, Adjusts(at[r], q)
        PROVE  TokensPaid' /\ DebtIsBounded'
    <3>1. /\ q \in Nat /\ q > 0 /\ qps' = q /\ Burst(qps') = q
          /\ tokens' \in Int /\ tokens' <= q /\ tokens' <= tokens
          /\ tokens' = tokens \/ tokens' = q
          /\ q = qps => moved' = moved /\ issued' = issued
          /\ q # qps => moved' = at[r] /\ issued' = 0
      BY <1>0, <2>2, Adjusted
    <3>2. CASE q = qps
      <4>1. UNCHANGED <<clock, qps, moved, issued>>
        BY <2>0, <3>1, <3>2
      <4> HIDE DEF earned, debt
      <4>2. issued' + tokens' <= qps + earned /\ (issued' > 0 => tokens' >= -debt)
        <5>1. tokens' <= tokens /\ tokens' \in Int
          BY <3>1
        <5>2. issued' = issued
          BY <4>1
        <5>3. issued' + tokens' <= qps + earned
          <6>1. ASSUME NEW i \in Nat, NEW a \in Int, NEW b \in Int, NEW s \in Int, a <= b, i + b <= s
                PROVE  i + a <= s
            BY <6>1
          <6>2. issued + tokens <= qps + earned /\ qps + earned \in Int
            BY <1>0, <1>e, <1>p
          <6>3. issued \in Nat /\ tokens \in Int
            BY <1>0
          <6>4. issued + tokens' <= qps + earned
            BY <5>1, <6>1, <6>2, <6>3
          <6> QED
            BY <5>2, <6>4
        <5>4. issued' > 0 => tokens' >= -debt
          BY <1>0, <1>e, <1>p, <3>1, <3>2, <5>2
        <5> QED
          BY <5>3, <5>4
      <4> QED
        BY <1>k, <4>1, <4>2
    <3>3. CASE q # qps
      <4>1. moved' = at[r] /\ issued' = 0
        BY <3>1, <3>3
      <4>2. q * (clock' - moved') \in Nat
        BY <2>0, <1>0, <3>1, <4>1
      <4> QED
        BY <3>1, <4>1, <4>2 DEF TokensPaid, DebtIsBounded
    <3> QED
      BY <3>2, <3>3
  <2> QED
    BY <2>0, <2>1, <2>2
<1>4. ASSUME NEW r \in Requests, Send(r) \/ \E o \in Outcomes : Answered(r, o)
      PROVE  TokensPaid' /\ DebtIsBounded'
  BY <1>k, <1>p, <1>4 DEF Send, Answered, limiter, history
<1>5. CASE UNCHANGED vars
  BY <1>k, <1>p, <1>5 DEF vars, limiter, history
<1> QED
  BY <1>1, <1>2, <1>3, <1>4, <1>5 DEF Next

-----------------------------------------------------------------------------
(* The theorems. *)

\* The limiter starts at its ceiling with a full bucket and no report.
LEMMA InitHolds ==
  ASSUME Init
  PROVE  IInv
<1>1. LimiterTyped
  BY Parameters DEF Init, LimiterTyped, Times, Zero
<1>2. RequestsTyped
  BY Parameters DEF Init, RequestsTyped, AllOutcomes, Zero
<1>3. Burst(MaxQPS) = MaxQPS
  BY Parameters DEF Burst
<1>4. MaxWait * MaxQPS \in Nat
  BY Parameters
<1>5. BucketTyped
  BY <1>3, <1>4, Parameters DEF Init, BucketTyped
<1>6. MaxQPS * (clock - moved) \in Nat
  BY Parameters DEF Init, Zero
<1>7. TokensPaid /\ DebtIsBounded
  BY <1>3, <1>6, Parameters DEF Init, TokensPaid, DebtIsBounded
<1>8. ReportsInTime /\ MovesPast /\ SpellIsKnown
  BY Parameters DEF Init, ReportsInTime, MovesPast, SpellIsKnown, Zero
<1> QED
  BY <1>1, <1>2, <1>5, <1>7, <1>8, TypeParts DEF IInv

\* The inductive invariant is an invariant of the limiter.
THEOREM Invariance == Spec => []IInv
<1>1. Init => IInv
  BY InitHolds
<1>2. IInv /\ [Next]_vars => IInv'
  <2> SUFFICES ASSUME IInv, [Next]_vars
               PROVE  IInv'
    OBVIOUS
  <2> QED
    BY TypeStep, ReportsStep, MovesStep, SpellStep, TokensStep DEF IInv
<1> QED
  BY <1>1, <1>2, PTL DEF Spec

\* From a move of the rate on, the requests that wait() lets through are
\* bounded by the new burst and the new rate, between the floor and the
\* ceiling (setRateLocked, wait).
THEOREM BackoffIsFelt == Spec => []BucketInv
<1>1. IInv => BucketInv
  <2> SUFFICES ASSUME IInv
               PROVE  BucketInv
    OBVIOUS
  <2>1. /\ clock \in Nat /\ moved \in Nat /\ lastAdj \in Nat /\ issued \in Nat
        /\ qps \in Nat /\ qps > 0 /\ tokens \in Int /\ Burst(qps) = qps /\ MaxWait \in Nat
    BY Numbers, Parameters DEF IInv
  <2>2. moved <= clock
    BY <2>1 DEF IInv, MovesPast
  <2> DEFINE earned == qps * (clock - moved)
             debt == qps * MaxWait
  <2>3. /\ earned \in Nat /\ debt \in Nat
        /\ qps * (clock - moved + MaxWait) = earned + debt
    BY <2>1, <2>2
  <2>4. issued + tokens <= qps + earned /\ (issued > 0 => tokens >= -debt)
    BY <2>1 DEF IInv, TokensPaid, DebtIsBounded
  <2> HIDE DEF earned, debt
  <2>5. issued <= qps + (earned + debt)
    BY <2>1, <2>3, <2>4
  <2> QED
    BY <2>1, <2>3, <2>5 DEF BucketInv, BackoffLimitsBurst, IInv
<1> QED
  BY <1>1, Invariance, PTL

\* Answers that come within the cooldown of each other lower the rate once, in
\* whatever order they get the lock, and climbs are RecoverEvery apart
\* (onThrottled, onServerError, onSuccess).
THEOREM PacedMoves == Spec => MovesArePaced
<1> DEFINE Paced == /\ qps' < qps => moved = Zero \/ moved' - moved >= DecreaseCooldown
                    /\ qps' > qps => moved' - moved >= RecoverEvery
<1>1. ASSUME IInv, [Next]_vars
      PROVE  [Paced]_vars
  <2>0. TypeOK /\ ReportsInTime /\ qps \in Nat
    BY <1>1, Numbers DEF IInv
  <2>1. ASSUME NEW r \in Requests, DoRequest(r)
        PROVE  Paced
    <3>1. /\ at[r] \in Nat /\ Zero < at[r] /\ at[r] <= clock
          /\ Hold \/ \E q \in MinQPS..MaxQPS : Adjusts(at[r], q)
      BY <2>0, <2>1, DoRequestMoves
    <3>2. CASE Hold
      BY <2>0, <3>2 DEF Hold
    <3>3. ASSUME NEW q \in MinQPS..MaxQPS, Adjusts(at[r], q)
          PROVE  Paced
      BY <1>1, <3>1, <3>3, AdjustsForward DEF Adjusts, setRateLocked
    <3> QED
      BY <3>1, <3>2, <3>3
  <2>2. CASE \A r \in Requests : ~DoRequest(r)
    BY <1>1, <2>0, <2>2, LimiterKept
  <2> QED
    BY <2>1, <2>2
<1> QED
  BY <1>1, Invariance, PTL DEF Spec, MovesArePaced

\* The rate does not climb within the quiet window of the last 5xx, less the
\* delay of a report, unless the spell is older than its cap (onSuccess,
\* onServerError).
THEOREM SpellsHold == Spec => SpellHoldsRate
<1> DEFINE Held == qps' > qps =>
                     \/ srvErr = Zero
                     \/ moved' - srvErr >= ServerErrorQuiet - MaxDelay
                     \/ moved' - srvSpellStart >= ServerErrorHoldMax
<1>1. ASSUME IInv, [Next]_vars
      PROVE  [Held]_vars
  <2>0. /\ TypeOK /\ ReportsInTime /\ SpellIsKnown /\ qps \in Nat
        /\ lastSrvErr \in Nat /\ srvErr \in Nat /\ srvSpellStart \in Nat
        /\ ServerErrorQuiet \in Nat /\ ServerErrorHoldMax \in Nat /\ MaxDelay \in Nat
    BY <1>1, Numbers, Parameters DEF IInv
  <2>1. ASSUME NEW r \in Requests, DoRequest(r)
        PROVE  Held
    <3>1. /\ at[r] \in Nat /\ Zero < at[r] /\ at[r] <= clock
          /\ Hold \/ \E q \in MinQPS..MaxQPS : Adjusts(at[r], q)
      BY <2>0, <2>1, DoRequestMoves
    <3>2. CASE Hold
      BY <2>0, <3>2 DEF Hold
    <3>3. ASSUME NEW q \in MinQPS..MaxQPS, Adjusts(at[r], q), qps' > qps
          PROVE  \/ srvErr = Zero
                 \/ moved' - srvErr >= ServerErrorQuiet - MaxDelay
                 \/ moved' - srvSpellStart >= ServerErrorHoldMax
      <4>1. qps' = q
        BY <3>3 DEF Adjusts, setRateLocked
      <4>2. moved' = at[r] /\ ~Suspended(at[r])
        BY <1>1, <3>1, <3>3, <4>1, AdjustsForward
      <4>3. \/ lastSrvErr = Zero \/ at[r] - lastSrvErr >= ServerErrorQuiet
            \/ at[r] - srvSpellStart >= ServerErrorHoldMax
        BY <2>0, <3>1, <4>2 DEF Suspended, Since
      <4> QED
        BY <2>0, <3>1, <4>2, <4>3 DEF SpellIsKnown
    <3> QED
      BY <3>1, <3>2, <3>3
  <2>2. CASE \A r \in Requests : ~DoRequest(r)
    BY <1>1, <2>0, <2>2, LimiterKept
  <2> QED
    BY <2>1, <2>2
<1> QED
  BY <1>1, Invariance, PTL DEF Spec, SpellHoldsRate

-----------------------------------------------------------------------------
(* MetaCache *)

InFlight == {"load", "store", "close"}

\* The parts of CacheTypeOK: the time, the cache and the callers.
ClockTyped == time \in Moments /\ permanent \in BOOLEAN

CacheTyped ==
  /\ loaded \in BOOLEAN
  /\ value \in Results /\ (loaded => value.ok)
  /\ expires \in 0..(Horizon + TTL)
  /\ loading \in Callers \cup {None}

CallersTyped ==
  /\ phase \in [Callers -> {"idle", "load", "store", "close", "wait", "return"}]
  /\ on \in [Callers -> Callers \cup {None}]
  /\ start \in [Callers -> Moments]
  /\ began \in [Callers -> Moments]

ResultsTyped == result \in [Callers -> Results]

\* The call object in the cache is one whose outcome is not stored yet.
LoadingRuns == loading # None => phase[loading] \in {"load", "store"}

\* No load has taken longer than its budget.
LoadsInBudget ==
  \A c \in Callers : phase[c] \in InFlight => began[c] <= time /\ time - began[c] <= LoadBudget

\* A load reads its value after it began.
ReadDuringLoad ==
  \A c \in Callers : phase[c] \in {"store", "close"} => began[c] <= result[c].at /\ result[c].at <= time

\* The expiry runs from the end of the load, which is at most a budget after
\* the value was read.
StoredIsRecent == loaded => expires - value.at <= TTL + LoadBudget

\* No get began in the future.
StartsPast == \A c \in Callers : start[c] <= time

\* A failure whose channel is not closed yet is no older than any of the
\* calls that will get it.
FailureIsCurrent ==
  \A c \in Callers : phase[c] = "close" /\ ~result[c].ok =>
    \A d \in {c} \cup Waiters(c) : result[c].at >= start[d]

CacheIInv ==
  /\ CacheTypeOK /\ SingleFlight /\ LoadingRuns
  /\ LoadsInBudget /\ ReadDuringLoad /\ StoredIsRecent /\ StartsPast /\ FailureIsCurrent
  /\ StalenessBounded /\ ErrorIsCurrent

\* The parts make the whole.
LEMMA CacheTypeParts ==
  /\ CacheTypeOK <=> ClockTyped /\ CacheTyped /\ CallersTyped /\ ResultsTyped
  /\ CacheTypeOK' <=> ClockTyped' /\ CacheTyped' /\ CallersTyped' /\ ResultsTyped'
BY Zenon DEF CacheTypeOK, ClockTyped, CacheTyped, CallersTyped, ResultsTyped

\* Updating one field of a result gives a result.
LEMMA ResultUpdates ==
  ASSUME NEW r \in Results, NEW t \in Moments
  PROVE  [r EXCEPT !.served = t] \in Results /\ [r EXCEPT !.at = t] \in Results
BY DEF Results

\* What a failed load is stamped with is a result.
LEMMA StampTyped ==
  ASSUME CacheTypeOK, NEW c \in Callers
  PROVE  [result[c] EXCEPT !.at = IF result[c].ok THEN @ ELSE time] \in Results
BY DEF CacheTypeOK, Results

\* The initial states satisfy the invariant.
LEMMA CacheInitHolds == CacheInit => CacheIInv
<1> SUFFICES ASSUME CacheInit PROVE CacheIInv
  OBVIOUS
<1> USE CacheAssumption DEF CacheInit
<1>1. 0 \in Moments /\ 0 \in 0..(Horizon + TTL)
  BY DEF Moments
<1>2. NoResult \in Results
  BY <1>1 DEF NoResult, Results
<1>3. CacheTypeOK
  BY <1>1, <1>2 DEF CacheTypeOK
<1>4. SingleFlight /\ LoadingRuns /\ StoredIsRecent
  BY DEF SingleFlight, LoadingRuns, StoredIsRecent
<1>5. LoadsInBudget /\ ReadDuringLoad /\ StartsPast /\ FailureIsCurrent
  BY DEF LoadsInBudget, ReadDuringLoad, StartsPast, FailureIsCurrent, InFlight
<1>6. StalenessBounded /\ ErrorIsCurrent
  BY DEF StalenessBounded, ErrorIsCurrent
<1> QED
  BY <1>3, <1>4, <1>5, <1>6 DEF CacheIInv

\* Every step of metaCache.get keeps the types.
LEMMA CacheTypeStep ==
  ASSUME CacheTypeOK, [CacheNext]_cacheVars
  PROVE  CacheTypeOK'
<1> USE CacheAssumption
<1>1. ASSUME NEW c \in Callers, Get(c) PROVE CacheTypeOK'
  <2>1. ClockTyped'
    BY <1>1 DEF Get, CacheTypeOK, ClockTyped
  <2>2. CacheTyped'
    BY <1>1 DEF Get, Hit, Join, Lead, CacheTypeOK, CacheTyped
  <2>3. CallersTyped'
    BY <1>1 DEF Get, Hit, Join, Lead, CacheTypeOK, CallersTyped
  <2>4. [value EXCEPT !.served = time] \in Results
    BY ResultUpdates DEF CacheTypeOK
  <2>5. ResultsTyped'
    BY <1>1, <2>4 DEF Get, Hit, Join, Lead, CacheTypeOK, ResultsTyped
  <2> QED
    BY <2>1, <2>2, <2>3, <2>5, CacheTypeParts
<1>2. ASSUME NEW c \in Callers, Load(c) PROVE CacheTypeOK'
  <2>1. ASSUME NEW ok \in BOOLEAN
        PROVE  [ok |-> ok, at |-> time, served |-> time] \in Results
    BY DEF CacheTypeOK, Results
  <2>2. ResultsTyped'
    BY <1>2, <2>1 DEF Load, CacheTypeOK, ResultsTyped
  <2>3. ClockTyped' /\ CacheTyped' /\ CallersTyped'
    BY <1>2 DEF Load, cache, CacheTypeOK, ClockTyped, CacheTyped, CallersTyped
  <2> QED
    BY <2>2, <2>3, CacheTypeParts
<1>3. ASSUME NEW c \in Callers, Store(c) PROVE CacheTypeOK'
  <2> DEFINE r == [result[c] EXCEPT !.at = IF result[c].ok THEN @ ELSE time]
  <2>1. r \in Results
    BY StampTyped
  <2>2. /\ result' = [result EXCEPT ![c] = r] /\ loading' = None
        /\ phase' = [phase EXCEPT ![c] = "close"]
        /\ UNCHANGED <<time, permanent, on, start, began>>
    BY <1>3, Zenon DEF Store
  <2>3. \/ r.ok /\ loaded' = TRUE /\ value' = r /\ expires' = time + TTL
        \/ UNCHANGED <<loaded, value, expires>>
    BY <1>3, Zenon DEF Store
  <2> HIDE DEF r
  <2>4. time + TTL \in 0..(Horizon + TTL)
    BY DEF CacheTypeOK, Moments
  <2>5. CacheTyped'
    <3>1. value' \in Results /\ expires' \in 0..(Horizon + TTL)
      BY <2>1, <2>3, <2>4 DEF CacheTypeOK
    <3>2. loaded' \in BOOLEAN /\ (loaded' => value'.ok)
      <4>1. CASE r.ok /\ loaded' = TRUE /\ value' = r
        BY <4>1, Zenon
      <4>2. CASE loaded' = loaded /\ value' = value
        BY <4>2, Zenon DEF CacheTypeOK
      <4> QED
        BY <2>3, <4>1, <4>2
    <3> QED
      BY <2>2, <3>1, <3>2 DEF CacheTyped
  <2>6. ClockTyped' /\ CallersTyped' /\ ResultsTyped'
    BY <2>1, <2>2 DEF CacheTypeOK, ClockTyped, CallersTyped, ResultsTyped
  <2> QED
    BY <2>5, <2>6, CacheTypeParts
<1>4. ASSUME NEW c \in Callers, Close(c) PROVE CacheTypeOK'
  <2>1. [result[c] EXCEPT !.served = time] \in Results
    BY ResultUpdates DEF CacheTypeOK
  <2>2. ResultsTyped'
    BY <1>4, <2>1 DEF Close, CacheTypeOK, ResultsTyped
  <2>3. ClockTyped' /\ CacheTyped' /\ CallersTyped'
    BY <1>4 DEF Close, cache, CacheTypeOK, ClockTyped, CacheTyped, CallersTyped
  <2> QED
    BY <2>2, <2>3, CacheTypeParts
<1>5. ASSUME NEW c \in Callers, Return(c) PROVE CacheTypeOK'
  <2>1. 0 \in Moments
    BY DEF Moments
  <2>2. NoResult \in Results
    BY <2>1 DEF NoResult, Results
  <2>3. ClockTyped' /\ CacheTyped' /\ CallersTyped' /\ ResultsTyped'
    BY <1>5, <2>1, <2>2
    DEF Return, cache, CacheTypeOK, ClockTyped, CacheTyped, CallersTyped, ResultsTyped
  <2> QED
    BY <2>3, CacheTypeParts
<1>6. CASE TimePasses
  BY <1>6 DEF TimePasses, cache, CacheTypeOK, Moments
<1>7. CASE UNCHANGED cacheVars
  BY <1>7 DEF cacheVars, CacheTypeOK
<1> QED
  BY <1>1, <1>2, <1>3, <1>4, <1>5, <1>6, <1>7 DEF CacheNext, Step

\* One load at a time: the leader is the only one that finds no call object,
\* and takes it away before another can lead (the two critical sections of
\* metaCache.get).
LEMMA FlightStep ==
  ASSUME CacheTypeOK, SingleFlight, LoadingRuns, [CacheNext]_cacheVars
  PROVE  SingleFlight' /\ LoadingRuns'
<1> USE CacheAssumption DEF CacheTypeOK, SingleFlight, LoadingRuns
<1>1. ASSUME NEW c \in Callers, Get(c) PROVE SingleFlight' /\ LoadingRuns'
  BY <1>1 DEF Get, Hit, Join, Lead
<1>2. ASSUME NEW c \in Callers, Load(c) PROVE SingleFlight' /\ LoadingRuns'
  BY <1>2 DEF Load, cache
<1>3. ASSUME NEW c \in Callers, Store(c) PROVE SingleFlight' /\ LoadingRuns'
  BY <1>3 DEF Store
<1>4. ASSUME NEW c \in Callers, Close(c) PROVE SingleFlight' /\ LoadingRuns'
  BY <1>4 DEF Close, cache, Waiters
<1>5. ASSUME NEW c \in Callers, Return(c) PROVE SingleFlight' /\ LoadingRuns'
  BY <1>5 DEF Return, cache
<1>6. CASE TimePasses
  BY <1>6 DEF TimePasses, cache
<1>7. CASE UNCHANGED cacheVars
  BY <1>7 DEF cacheVars
<1> QED
  BY <1>1, <1>2, <1>3, <1>4, <1>5, <1>6, <1>7 DEF CacheNext, Step

\* The ages of what is stored, of what is being loaded and of what is served
\* keep to the TTL and the budget of a load.
LEMMA AgeStep ==
  ASSUME CacheTypeOK, LoadsInBudget, ReadDuringLoad, StoredIsRecent, StartsPast, StalenessBounded,
         [CacheNext]_cacheVars
  PROVE  LoadsInBudget' /\ ReadDuringLoad' /\ StoredIsRecent' /\ StartsPast' /\ StalenessBounded'
<1> USE CacheAssumption DEF InFlight, Moments
<1>1. ASSUME NEW c \in Callers, Get(c)
      PROVE  LoadsInBudget' /\ ReadDuringLoad' /\ StoredIsRecent' /\ StartsPast' /\ StalenessBounded'
  <2>1. LoadsInBudget' /\ ReadDuringLoad' /\ StartsPast'
    BY <1>1 DEF Get, Hit, Join, Lead, CacheTypeOK, LoadsInBudget, ReadDuringLoad, StartsPast
  <2>2. StoredIsRecent'
    BY <1>1 DEF Get, StoredIsRecent
  <2>3. StalenessBounded'
    <3>1. CASE Hit(c)
      <4>1. ~permanent => time - value.at < TTL + LoadBudget
        BY <3>1 DEF Hit, fresh, StoredIsRecent, CacheTypeOK, Results
      <4>2. result'[c].served = time /\ result'[c].at = value.at
        BY <3>1 DEF Hit, CacheTypeOK, Results
      <4> QED
        BY <1>1, <3>1, <4>1, <4>2 DEF Get, Hit, CacheTypeOK, StalenessBounded
    <3>2. CASE Join(c) \/ Lead(c)
      BY <1>1, <3>2 DEF Get, Join, Lead, CacheTypeOK, StalenessBounded
    <3> QED
      BY <1>1, <3>1, <3>2 DEF Get
  <2> QED
    BY <2>1, <2>2, <2>3
<1>2. ASSUME NEW c \in Callers, Load(c)
      PROVE  LoadsInBudget' /\ ReadDuringLoad' /\ StoredIsRecent' /\ StartsPast' /\ StalenessBounded'
  <2>1. LoadsInBudget' /\ ReadDuringLoad' /\ StartsPast'
    BY <1>2 DEF Load, CacheTypeOK, LoadsInBudget, ReadDuringLoad, StartsPast
  <2>2. StoredIsRecent' /\ StalenessBounded'
    BY <1>2 DEF Load, cache, CacheTypeOK, StoredIsRecent, StalenessBounded
  <2> QED
    BY <2>1, <2>2
<1>3. ASSUME NEW c \in Callers, Store(c)
      PROVE  LoadsInBudget' /\ ReadDuringLoad' /\ StoredIsRecent' /\ StartsPast' /\ StalenessBounded'
  <2> DEFINE r == [result[c] EXCEPT !.at = IF result[c].ok THEN @ ELSE time]
  <2>1. /\ result' = [result EXCEPT ![c] = r] /\ phase[c] = "store"
        /\ phase' = [phase EXCEPT ![c] = "close"]
        /\ UNCHANGED <<time, permanent, on, start, began>>
    BY <1>3, Zenon DEF Store
  <2>2. \/ value' = r /\ expires' = time + TTL
        \/ UNCHANGED <<loaded, value, expires>>
    BY <1>3, Zenon DEF Store
  <2>3. /\ r \in Results /\ began[c] <= r.at /\ r.at <= time
        /\ time - r.at <= LoadBudget
    BY <2>1, StampTyped DEF CacheTypeOK, Results, LoadsInBudget, ReadDuringLoad
  <2> HIDE DEF r
  <2>4. LoadsInBudget' /\ ReadDuringLoad' /\ StartsPast'
    BY <2>1, <2>3 DEF CacheTypeOK, LoadsInBudget, ReadDuringLoad, StartsPast
  <2>5. StoredIsRecent'
    <3>1. CASE value' = r /\ expires' = time + TTL
      <4>1. (time + TTL) - r.at <= TTL + LoadBudget
        BY <2>3 DEF CacheTypeOK, Results
      <4> QED
        BY <3>1, <4>1, Zenon DEF StoredIsRecent
    <3>2. CASE UNCHANGED <<loaded, value, expires>>
      BY <3>2 DEF StoredIsRecent
    <3> QED
      BY <2>2, <3>1, <3>2
  <2>6. StalenessBounded'
    BY <2>1 DEF CacheTypeOK, StalenessBounded
  <2> QED
    BY <2>4, <2>5, <2>6
<1>4. ASSUME NEW c \in Callers, Close(c)
      PROVE  LoadsInBudget' /\ ReadDuringLoad' /\ StoredIsRecent' /\ StartsPast' /\ StalenessBounded'
  <2> DEFINE r == [result[c] EXCEPT !.served = time]
  <2>1. r.served = time /\ r.at = result[c].at
    BY DEF CacheTypeOK, Results
  <2>2. phase[c] = "close"
    BY <1>4, Zenon DEF Close
  <2>3. time - result[c].at < TTL + LoadBudget
    BY <2>2 DEF CacheTypeOK, Results, LoadsInBudget, ReadDuringLoad
  <2>4. \A d \in Callers :
          \/ phase'[d] = "return" /\ result'[d] = r
          \/ phase'[d] = phase[d] /\ result'[d] = result[d]
    BY <1>4, Zenon DEF Close
  <2>5. UNCHANGED <<time, permanent, loaded, value, expires, start, began>>
    BY <1>4 DEF Close, cache
  <2> HIDE DEF r
  <2>6. LoadsInBudget' /\ ReadDuringLoad' /\ StartsPast'
    BY <2>4, <2>5 DEF CacheTypeOK, LoadsInBudget, ReadDuringLoad, StartsPast
  <2>7. StoredIsRecent' /\ StalenessBounded'
    BY <2>1, <2>3, <2>4, <2>5 DEF CacheTypeOK, StoredIsRecent, StalenessBounded
  <2> QED
    BY <2>6, <2>7
<1>5. ASSUME NEW c \in Callers, Return(c)
      PROVE  LoadsInBudget' /\ ReadDuringLoad' /\ StoredIsRecent' /\ StartsPast' /\ StalenessBounded'
  BY <1>5 DEF Return, cache, CacheTypeOK, LoadsInBudget, ReadDuringLoad, StoredIsRecent, StartsPast,
              StalenessBounded
<1>6. CASE TimePasses
  <2>1. LoadsInBudget' /\ ReadDuringLoad' /\ StartsPast'
    BY <1>6 DEF TimePasses, CacheTypeOK, Results, LoadsInBudget, ReadDuringLoad, StartsPast
  <2>2. StoredIsRecent' /\ StalenessBounded'
    BY <1>6 DEF TimePasses, cache, StoredIsRecent, StalenessBounded
  <2> QED
    BY <2>1, <2>2
<1>7. CASE UNCHANGED cacheVars
  BY <1>7 DEF cacheVars, LoadsInBudget, ReadDuringLoad, StoredIsRecent, StartsPast, StalenessBounded
<1> QED
  BY <1>1, <1>2, <1>3, <1>4, <1>5, <1>6, <1>7 DEF CacheNext, Step

\* A failure goes to the calls that were under way when it happened and to no
\* other: nobody joins a call object after its outcome is stored.
LEMMA FailureStep ==
  ASSUME CacheTypeOK, LoadingRuns, StartsPast, FailureIsCurrent, ErrorIsCurrent, [CacheNext]_cacheVars
  PROVE  FailureIsCurrent' /\ ErrorIsCurrent'
<1> USE CacheAssumption
<1>1. ASSUME NEW c \in Callers, Get(c) PROVE FailureIsCurrent' /\ ErrorIsCurrent'
  <2>1. CASE Hit(c)
    <3>1. result'[c].ok
      BY <2>1 DEF Hit, fresh, CacheTypeOK, Results
    <3>2. phase' = [phase EXCEPT ![c] = "return"] /\ UNCHANGED on
      BY <2>1 DEF Hit
    <3>3. \A d \in Callers \ {c} : result'[d] = result[d] /\ start'[d] = start[d]
      BY <1>1, <2>1 DEF Hit, Get, CacheTypeOK
    <3> QED
      BY <1>1, <3>1, <3>2, <3>3 DEF CacheTypeOK, FailureIsCurrent, ErrorIsCurrent, Waiters, Get
  <2>2. CASE Join(c)
    <3>1. loading \in Callers /\ phase[loading] # "close"
      BY <2>2 DEF Join, CacheTypeOK, LoadingRuns
    <3> QED
      BY <1>1, <2>2, <3>1 DEF Get, Join, CacheTypeOK, FailureIsCurrent, ErrorIsCurrent, Waiters
  <2>3. CASE Lead(c)
    BY <1>1, <2>3 DEF Get, Lead, CacheTypeOK, FailureIsCurrent, ErrorIsCurrent, Waiters
  <2> QED
    BY <1>1, <2>1, <2>2, <2>3 DEF Get
<1>2. ASSUME NEW c \in Callers, Load(c) PROVE FailureIsCurrent' /\ ErrorIsCurrent'
  BY <1>2 DEF Load, CacheTypeOK, FailureIsCurrent, ErrorIsCurrent, Waiters
<1>3. ASSUME NEW c \in Callers, Store(c) PROVE FailureIsCurrent' /\ ErrorIsCurrent'
  <2> DEFINE r == [result[c] EXCEPT !.at = IF result[c].ok THEN @ ELSE time]
  <2>1. /\ result' = [result EXCEPT ![c] = r] /\ phase' = [phase EXCEPT ![c] = "close"]
        /\ phase[c] = "store" /\ UNCHANGED <<on, start>>
    BY <1>3, Zenon DEF Store
  <2>2. ~r.ok => r.at = time
    BY DEF CacheTypeOK, Results
  <2> HIDE DEF r
  <2> QED
    BY <2>1, <2>2 DEF CacheTypeOK, FailureIsCurrent, ErrorIsCurrent, Waiters, StartsPast
<1>4. ASSUME NEW c \in Callers, Close(c) PROVE FailureIsCurrent' /\ ErrorIsCurrent'
  <2> DEFINE r == [result[c] EXCEPT !.served = time]
             done == {c} \cup Waiters(c)
  <2>1. r.ok = result[c].ok /\ r.at = result[c].at
    BY DEF CacheTypeOK, Results
  <2>2. \A d \in Callers :
          IF d \in done THEN phase'[d] = "return" /\ result'[d] = r
                        ELSE phase'[d] = phase[d] /\ result'[d] = result[d]
    BY <1>4, Zenon DEF Close
  <2>3. UNCHANGED <<on, start>> /\ phase[c] = "close"
    BY <1>4 DEF Close
  <2>4. \A d \in done : ~result[c].ok => result[c].at >= start[d]
    BY <2>3 DEF FailureIsCurrent
  <2>5. ErrorIsCurrent'
    BY <2>1, <2>2, <2>3, <2>4 DEF ErrorIsCurrent
  <2>6. FailureIsCurrent'
    BY <2>2, <2>3 DEF FailureIsCurrent, Waiters
  <2> QED
    BY <2>5, <2>6
<1>5. ASSUME NEW c \in Callers, Return(c) PROVE FailureIsCurrent' /\ ErrorIsCurrent'
  BY <1>5 DEF Return, CacheTypeOK, Moments, Results, FailureIsCurrent, ErrorIsCurrent, Waiters
<1>6. CASE TimePasses
  BY <1>6 DEF TimePasses, FailureIsCurrent, ErrorIsCurrent, Waiters
<1>7. CASE UNCHANGED cacheVars
  BY <1>7 DEF cacheVars, FailureIsCurrent, ErrorIsCurrent, Waiters
<1> QED
  BY <1>1, <1>2, <1>3, <1>4, <1>5, <1>6, <1>7 DEF CacheNext, Step

\* The inductive invariant holds in every reachable state.
THEOREM CacheInvariance == CacheSpec => []CacheIInv
<1>1. CacheInit => CacheIInv
  BY CacheInitHolds
<1>2. CacheIInv /\ [CacheNext]_cacheVars => CacheIInv'
  <2> SUFFICES ASSUME CacheIInv, [CacheNext]_cacheVars PROVE CacheIInv'
    OBVIOUS
  <2> QED
    BY CacheTypeStep, FlightStep, AgeStep, FailureStep DEF CacheIInv
<1> QED
  BY <1>1, <1>2, PTL DEF CacheSpec

\* At most one load of the metadata cache is in flight, the one that late
\* callers join, of variables that keep their types (metaCache.get).
THEOREM OneLoadInFlight == CacheSpec => []LoadInv
<1>1. CacheIInv => LoadInv
  BY DEF CacheIInv, LoadInv
<1> QED
  BY <1>1, CacheInvariance, PTL

\* Whatever the TTL and however long a load takes, no caller of
\* metaCache.get is served a value older than the two together.
THEOREM ValuesExpire == CacheSpec => []StalenessBounded
<1>1. CacheIInv => StalenessBounded
  BY DEF CacheIInv
<1> QED
  BY <1>1, CacheInvariance, PTL

\* metaCache.get never serves a failure from before the call.
THEOREM FailuresAreNotCached == CacheSpec => []ErrorIsCurrent
<1>1. CacheIInv => ErrorIsCurrent
  BY DEF CacheIInv
<1> QED
  BY <1>1, CacheInvariance, PTL

=============================================================================
