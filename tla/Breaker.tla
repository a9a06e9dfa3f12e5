------------------------------ MODULE Breaker ------------------------------
(***************************************************************************)
(* The circuit breaker of pkg/driver/internal/breaker.go, as operators on  *)
(* its map of entries.  The Go methods hold one mutex for their whole body, *)
(* so each of them is one atomic step of a handler, and an operator here.  *)
(*                                                                         *)
(* The map is a total function: a key with no entry holds NoEntry, which   *)
(* no entry of the code equals because Failure leaves failures >= 1.       *)
(* Times are ticks of one clock; the Go constants are 10/30/60/120 minutes *)
(* (BreakerSteps), 3 (BreakerTripAfter) and 5 minutes                      *)
(* (BreakerTripMinElapsed).                                                *)
(***************************************************************************)
EXTENDS Integers, Sequences

CONSTANTS
  BreakerSteps,           \* the wait before each real attempt, once tripped
  BreakerTripAfter,       \* failures needed to trip on non-terminal errors
  BreakerTripMinElapsed   \* time since the first failure needed as well

ASSUME BreakerAssumption ==
  /\ BreakerSteps \in Seq(Nat \ {0})
  /\ Len(BreakerSteps) > 0
  /\ \A i \in 1..Len(BreakerSteps) : BreakerSteps[i] <= BreakerSteps[Len(BreakerSteps)]
  /\ BreakerTripAfter \in Nat \ {0}
  /\ BreakerTripMinElapsed \in Nat

Decisions == {"Full", "ProbeOnly"}

\* The capped wait, the last of the steps.
CapStep == BreakerSteps[Len(BreakerSteps)]

\* step is an index into BreakerSteps (1-based, the Go field is 0-based).
BreakerEntry ==
  [failures : Nat, firstFailAt : Int, step : 1..Len(BreakerSteps),
   nextAttempt : Int, tripped : BOOLEAN]

NoEntry ==
  [failures |-> 0, firstFailAt |-> 0, step |-> 1, nextAttempt |-> 0, tripped |-> FALSE]

NewBreaker(Keys) == [k \in Keys |-> NoEntry]

Tracked(e) == e.failures > 0

(***************************************************************************)
(* Allow: a tripped entry whose next attempt is still ahead is probed      *)
(* only; everything else gets the real command.                            *)
(***************************************************************************)
\* Mutants of Allow: it ignores the open breaker, or the expiry of its wait.
AllowIgnoresTrip(e, now) == "Full"

AllowNeverExpires(e, now) == IF e.tripped THEN "ProbeOnly" ELSE "Full"

Allow(e, now) ==
  IF e.tripped /\ now < e.nextAttempt THEN "ProbeOnly" ELSE "Full"

(***************************************************************************)
(* Failure of a real attempt that started at now.  failures only matters   *)
(* through its comparison with BreakerTripAfter, so it saturates there.    *)
(***************************************************************************)
CountFailure(e) == IF e.failures < BreakerTripAfter THEN e.failures + 1 ELSE e.failures

FirstFailAt(e, now) == IF Tracked(e) THEN e.firstFailAt ELSE now

Trips(e, terminal, now) ==
  /\ ~e.tripped
  /\ \/ terminal
     \/ /\ CountFailure(e) >= BreakerTripAfter
        /\ now - FirstFailAt(e, now) >= BreakerTripMinElapsed

Steps(e) == e.tripped /\ e.step < Len(BreakerSteps)

\* The step after the failure: it moves on while tripped, up to the last.
StepAfter(e) == IF Steps(e) THEN e.step + 1 ELSE e.step

\* Mutant of Failure: the step runs past the last wait.
FailureUncapped(e, terminal, now) ==
  [failures    |-> CountFailure(e),
   firstFailAt |-> FirstFailAt(e, now),
   step        |-> IF e.tripped THEN e.step + 1 ELSE e.step,
   nextAttempt |-> IF e.tripped \/ Trips(e, terminal, now) THEN now + CapStep ELSE now,
   tripped     |-> e.tripped \/ Trips(e, terminal, now)]

Failure(e, terminal, now) ==
  [failures    |-> CountFailure(e),
   firstFailAt |-> FirstFailAt(e, now),
   step        |-> StepAfter(e),
   nextAttempt |-> IF e.tripped \/ Trips(e, terminal, now)
                   THEN now + BreakerSteps[StepAfter(e)]
                   ELSE now,
   tripped     |-> e.tripped \/ Trips(e, terminal, now)]

\* What Failure returns, tripped or stepped: the handler reports on either.
\* Mutant: only the steps of an open breaker are reported, not the trip.
EscalatesOnStep(e, terminal, now) == Steps(e)

Escalates(e, terminal, now) == Trips(e, terminal, now) \/ Steps(e)

Success(entries, k) == [entries EXCEPT ![k] = NoEntry]

(***************************************************************************)
(* EvictStale: the entries untouched for twice the capped step, and the    *)
(* map without them.                                                       *)
(***************************************************************************)
Stale(e, now) == Tracked(e) /\ e.nextAttempt < now - 2 * CapStep

StaleKeys(entries, now) == {k \in DOMAIN entries : Stale(entries[k], now)}

EvictStale(entries, now) ==
  [k \in DOMAIN entries |-> IF Stale(entries[k], now) THEN NoEntry ELSE entries[k]]
=============================================================================
