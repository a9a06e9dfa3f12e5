---------------------------- MODULE RateLimiter ----------------------------
(***************************************************************************)
(* The process-wide adaptive limiter in front of vServer, and the HTTP     *)
(* client that feeds it (pkg/cloud/ratelimit.go).                          *)
(*                                                                         *)
(* DoRequest takes a token, sends, reads the clock and only then takes the *)
(* limiter's lock to report, so that reports are applied out of order.  A  *)
(* tick is a second of the code, a unit of rate one request per tick; the  *)
(* products with the two factors are rounded down to that unit.            *)
(***************************************************************************)
EXTENDS Integers

CONSTANTS
  Requests,     \* the goroutines that send
  Outcomes,     \* what vServer answers: a subset of AllOutcomes
  MaxQPS, MinQPS, IncreaseQPS,
  DecreaseCooldown, RecoverEvery, ServerErrorQuiet, ServerErrorHoldMax,
  MaxWait,
  MaxDelay,     \* bound: ticks from reading the clock to getting the lock
  MaxClock      \* bound: the clock stops here

AllOutcomes == {"ok", "throttled", "error"}

ASSUME RateAssumption ==
  /\ {MaxQPS, MinQPS, IncreaseQPS} \subseteq Nat \ {0} /\ MinQPS <= MaxQPS
  /\ {DecreaseCooldown, RecoverEvery, ServerErrorQuiet, ServerErrorHoldMax} \subseteq Nat \ {0}
  /\ MaxWait \in Nat /\ MaxDelay \in Nat /\ MaxClock \in Nat \ {0}
  /\ Outcomes \subseteq AllOutcomes

VARIABLES
  clock,
  qps, lastAdj, lastSrvErr, srvSpellStart,  \* adaptiveRateLimiter
  tokens,   \* the bucket of its limiter; below zero: reserved ahead
  pc,
  at,       \* when a request may leave, or was answered
  outcome,
  moved,    \* history: the answer time of the last report that moved qps
  issued,   \* history: tokens given out since then
  srvErr    \* history: the latest answer time of a 5xx reported so far

limiter == <<qps, lastAdj, lastSrvErr, srvSpellStart>>
history == <<moved, issued, srvErr>>
vars    == <<clock, limiter, tokens, pc, at, outcome, history>>

\* The zero time.Time: the clock starts after it.
Zero == 0

Times == Zero..MaxClock

\* int(pqps), never below 1.
Burst(q) == IF q < 1 THEN 1 ELSE q

TypeOK ==
  /\ clock \in Times
  /\ qps \in MinQPS..MaxQPS
  /\ {lastAdj, lastSrvErr, srvSpellStart, moved, srvErr} \subseteq Times
  /\ tokens \in (-(MaxWait * MaxQPS))..Burst(qps)
  /\ pc \in [Requests -> {"idle", "wait", "sent", "report", "shed"}]
  /\ at \in [Requests -> Zero..(MaxClock + MaxWait)]
  /\ outcome \in [Requests -> AllOutcomes]
  /\ issued \in Nat

Init ==
  /\ clock = Zero + 1
  /\ qps = MaxQPS
  /\ lastAdj = Zero /\ lastSrvErr = Zero /\ srvSpellStart = Zero
  /\ tokens = Burst(MaxQPS)
  /\ pc = [r \in Requests |-> "idle"]
  /\ at = [r \in Requests |-> Zero]
  /\ outcome = [r \in Requests |-> "ok"]
  /\ moved = Zero /\ issued = 0 /\ srvErr = Zero

-----------------------------------------------------------------------------
(* The token bucket (golang.org/x/time/rate): a token that is not there is *)
(* reserved ahead if it comes within MaxWait, and otherwise not taken.     *)

AtMost(a, b) == IF a < b THEN a ELSE b

AtLeast(a, b) == IF a < b THEN b ELSE a

\* The ticks until the bucket has paid for a reservation that leaves it at t.
Delay(t) == IF t >= 0 THEN 0 ELSE (qps - 1 - t) \div qps

wait(r) ==
  /\ pc[r] \in {"idle", "shed"}
  /\ LET delay == Delay(tokens - 1)
     IN  IF delay <= MaxWait
         THEN /\ pc' = [pc EXCEPT ![r] = "wait"]
              /\ at' = [at EXCEPT ![r] = clock + delay]
              /\ tokens' = tokens - 1
              /\ issued' = issued + 1
         ELSE /\ pc' = [pc EXCEPT ![r] = "shed"]
              /\ UNCHANGED <<at, tokens, issued>>
  /\ UNCHANGED <<clock, limiter, outcome, moved, srvErr>>

Refill == AtMost(tokens + qps, Burst(qps))

Tick ==
  /\ clock < MaxClock
  /\ \A r \in Requests : pc[r] = "report" => clock - at[r] < MaxDelay
  /\ clock' = clock + 1
  /\ tokens' = Refill
  /\ UNCHANGED <<limiter, pc, at, outcome, history>>

-----------------------------------------------------------------------------
(* The three reports, each under s.mu, with the answer time pnow. *)

Halved(q) == AtLeast(MinQPS, q \div 2)

Eased(q) == AtLeast(MinQPS, (q * 9) \div 10)

Since(pnow, t) == pnow - t

\* Mutant: only the rate moves, the bucket keeps its size.
setRateOnly(q, pnow) ==
  /\ qps' = q
  /\ tokens' = tokens
  /\ IF q = qps THEN UNCHANGED <<moved, issued>> ELSE moved' = pnow /\ issued' = 0

\* The tokens beyond the new burst are dropped at the bucket's next use.
setRateLocked(q, pnow) ==
  /\ qps' = q
  /\ tokens' = AtMost(tokens, Burst(q))
  /\ IF q = qps THEN UNCHANGED <<moved, issued>> ELSE moved' = pnow /\ issued' = 0

Hold == UNCHANGED <<qps, lastAdj, tokens, moved, issued>>

\* Mutant: every 429 of a burst counts.
MayDecreaseAlways(pnow) == TRUE

MayDecrease(pnow) == lastAdj = Zero \/ Since(pnow, lastAdj) >= DecreaseCooldown

\* lastAdj moves even where the rate is at its floor already.
Decrease(q, pnow) == lastAdj' = pnow /\ setRateLocked(q, pnow)

onThrottled(pnow) ==
  /\ \/ MayDecrease(pnow) /\ Decrease(Halved(qps), pnow)
     \/ ~MayDecrease(pnow) /\ Hold
  /\ UNCHANGED <<lastSrvErr, srvSpellStart, srvErr>>

SpellStart(pnow) ==
  IF lastSrvErr = Zero \/ Since(pnow, lastSrvErr) >= ServerErrorQuiet
  THEN pnow ELSE srvSpellStart

\* Mutant: the cooldown returns before the spell is recorded.
onServerErrorCooledFirst(pnow) ==
  /\ srvErr' = AtLeast(srvErr, pnow)
  /\ \/ /\ MayDecrease(pnow) /\ Decrease(Eased(qps), pnow)
        /\ srvSpellStart' = SpellStart(pnow) /\ lastSrvErr' = pnow
     \/ ~MayDecrease(pnow) /\ Hold /\ UNCHANGED <<lastSrvErr, srvSpellStart>>

onServerError(pnow) ==
  /\ srvSpellStart' = SpellStart(pnow)
  /\ lastSrvErr' = pnow
  /\ srvErr' = AtLeast(srvErr, pnow)
  /\ \/ MayDecrease(pnow) /\ Decrease(Eased(qps), pnow)
     \/ ~MayDecrease(pnow) /\ Hold

Suspended(pnow) ==
  /\ lastSrvErr # Zero
  /\ Since(pnow, lastSrvErr) < ServerErrorQuiet
  /\ Since(pnow, srvSpellStart) < ServerErrorHoldMax

MayClimb(pnow) ==
  qps < MaxQPS /\ Since(pnow, lastAdj) >= RecoverEvery /\ ~Suspended(pnow)

onSuccess(pnow) ==
  /\ \/ /\ MayClimb(pnow) /\ lastAdj' = pnow
        /\ setRateLocked(AtMost(qps + IncreaseQPS, MaxQPS), pnow)
     \/ ~MayClimb(pnow) /\ Hold
  /\ UNCHANGED <<lastSrvErr, srvSpellStart, srvErr>>

-----------------------------------------------------------------------------
(* DoRequest after its wait. *)

Send(r) ==
  /\ pc[r] = "wait" /\ clock >= at[r]
  /\ pc' = [pc EXCEPT ![r] = "sent"]
  /\ at' = [at EXCEPT ![r] = Zero]
  /\ UNCHANGED <<clock, limiter, tokens, outcome, history>>

\* inner.DoRequest returns and time.Now() is read.
Answered(r, o) ==
  /\ pc[r] = "sent"
  /\ pc' = [pc EXCEPT ![r] = "report"]
  /\ at' = [at EXCEPT ![r] = clock]
  /\ outcome' = [outcome EXCEPT ![r] = o]
  /\ UNCHANGED <<clock, limiter, tokens, history>>

DoRequest(r) ==
  /\ pc[r] = "report"
  /\ \/ outcome[r] = "throttled" /\ onThrottled(at[r])
     \/ outcome[r] = "error" /\ onServerError(at[r])
     \/ outcome[r] = "ok" /\ onSuccess(at[r])
  /\ pc' = [pc EXCEPT ![r] = "idle"]
  /\ at' = [at EXCEPT ![r] = Zero]
  /\ outcome' = [outcome EXCEPT ![r] = "ok"]
  /\ UNCHANGED clock

Next ==
  \/ Tick
  \/ \E r \in Requests :
       wait(r) \/ Send(r) \/ (\E o \in Outcomes : Answered(r, o)) \/ DoRequest(r)

Spec == Init /\ [][Next]_vars

-----------------------------------------------------------------------------
(* Properties. *)

\* "One throttle event, one halving": answers that come within the cooldown
\* of each other lower the rate once, be they 429 or 5xx and in whatever
\* order the goroutines get the lock; the climbs are RecoverEvery apart.
MovesArePaced ==
  [][/\ qps' < qps => moved = Zero \/ moved' - moved >= DecreaseCooldown
     /\ qps' > qps => moved' - moved >= RecoverEvery]_vars

\* The rate does not climb within the quiet window of the last 5xx, unless
\* the spell is older than its cap.  A late report sets lastSrvErr back, which
\* costs the window no more than the delay of that report.
SpellHoldsRate ==
  [][qps' > qps =>
       \/ srvErr = Zero
       \/ moved' - srvErr >= ServerErrorQuiet - MaxDelay
       \/ moved' - srvSpellStart >= ServerErrorHoldMax]_vars

\* From a move of the rate on, the requests let through are bounded by the new
\* burst and the new rate: a full bucket does not outlive a decrease.
BackoffLimitsBurst ==
  issued <= Burst(qps) + qps * (clock - moved + MaxWait)

\* BackoffLimitsBurst, at a rate that stays between the floor and the ceiling.
BucketInv == TypeOK /\ BackoffLimitsBurst
=============================================================================
