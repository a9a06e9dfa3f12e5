------------------------ MODULE DetachHandlersProofs ------------------------
(***************************************************************************)
(* The safety properties of DetachHandlers, for every set of pairs and     *)
(* calls, every breaker schedule and every clock bound.                    *)
(***************************************************************************)
EXTENDS DetachHandlers, TLAPS

-----------------------------------------------------------------------------
(* The breaker's operators. *)

\* The capped step is a wait like the others, and the longest.
LEMMA StepBounds ==
  /\ CapStep \in Nat
  /\ \A i \in 1..Len(BreakerSteps) :
       BreakerSteps[i] \in Nat /\ 0 < BreakerSteps[i] /\ BreakerSteps[i] <= CapStep
<1>1. Len(BreakerSteps) \in 1..Len(BreakerSteps)
  BY BreakerAssumption
<1>2. \A i \in 1..Len(BreakerSteps) : BreakerSteps[i] \in Nat \ {0}
  BY BreakerAssumption
<1> QED
  BY <1>1, <1>2, BreakerAssumption DEF CapStep

\* NoEntry is a well-formed entry of a closed pair.
LEMMA NoEntryType == NoEntry \in BreakerEntry /\ ~NoEntry.tripped
  BY BreakerAssumption DEF NoEntry, BreakerEntry

\* Failure (breaker.go): what one failed attempt that started at n does to an
\* entry.  It never closes an open pair, an open pair waits its step from n,
\* and opening a pair or moving an open one on is an escalation.
LEMMA FailureFacts ==
  ASSUME NEW e \in BreakerEntry, NEW t \in BOOLEAN, NEW n \in Nat
  PROVE  /\ Failure(e, t, n) \in BreakerEntry
         /\ Failure(e, t, n).tripped =>
              /\ Failure(e, t, n).nextAttempt = n + BreakerSteps[Failure(e, t, n).step]
              /\ Failure(e, t, n).nextAttempt > n
              /\ Failure(e, t, n).nextAttempt <= n + CapStep
         /\ e.tripped => Failure(e, t, n).tripped
         /\ Failure(e, t, n).tripped /\ ~e.tripped => Escalates(e, t, n)
         /\ Escalates(e, t, n) \in BOOLEAN
<1>1. StepAfter(e) \in 1..Len(BreakerSteps)
  BY BreakerAssumption DEF StepAfter, Steps, BreakerEntry
<1>2. /\ BreakerSteps[StepAfter(e)] \in Nat
      /\ 0 < BreakerSteps[StepAfter(e)]
      /\ BreakerSteps[StepAfter(e)] <= CapStep
      /\ CapStep \in Nat
  BY <1>1, StepBounds
<1>3. CountFailure(e) \in Nat
  BY BreakerAssumption DEF CountFailure, BreakerEntry
<1>4. FirstFailAt(e, n) \in Int
  BY DEF FirstFailAt, BreakerEntry
<1>5. Trips(e, t, n) \in BOOLEAN /\ Steps(e) \in BOOLEAN
  BY DEF Trips, Steps, BreakerEntry
<1>6. e.tripped \in BOOLEAN
  BY DEF BreakerEntry
<1> DEFINE f == Failure(e, t, n)
<1>7. /\ f.step = StepAfter(e)
      /\ f.tripped = (e.tripped \/ Trips(e, t, n))
      /\ f.nextAttempt = IF e.tripped \/ Trips(e, t, n)
                         THEN n + BreakerSteps[StepAfter(e)] ELSE n
  BY DEF Failure
<1>8. f \in BreakerEntry
  BY <1>1, <1>2, <1>3, <1>4, <1>5, <1>6 DEF Failure, BreakerEntry
<1> HIDE DEF f
<1>9. /\ f.tripped => /\ f.nextAttempt = n + BreakerSteps[f.step]
                      /\ f.nextAttempt > n
                      /\ f.nextAttempt <= n + CapStep
      /\ e.tripped => f.tripped
      /\ f.tripped /\ ~e.tripped => Trips(e, t, n)
  BY <1>2, <1>5, <1>6, <1>7
<1> QED
  BY <1>5, <1>8, <1>9 DEF f, Escalates

\* EvictStale (breaker.go) leaves an entry alone or drops it, and it drops
\* exactly the stale keys it returns.
LEMMA EvictFacts ==
  ASSUME NEW es \in [Pairs -> BreakerEntry], NEW n \in Nat
  PROVE  /\ EvictStale(es, n) \in [Pairs -> BreakerEntry]
         /\ StaleKeys(es, n) \in SUBSET Pairs
         /\ \A p \in Pairs :
              /\ p \in StaleKeys(es, n) =>
                   EvictStale(es, n)[p] = NoEntry /\ es[p].nextAttempt < n - 2 * CapStep
              /\ p \notin StaleKeys(es, n) => EvictStale(es, n)[p] = es[p]
<1>1. \A p \in Pairs : EvictStale(es, n)[p] = IF Stale(es[p], n) THEN NoEntry ELSE es[p]
  BY DEF EvictStale
<1>2. EvictStale(es, n) \in [Pairs -> BreakerEntry]
  BY NoEntryType DEF EvictStale
<1>3. StaleKeys(es, n) = {p \in Pairs : Stale(es[p], n)}
  BY DEF StaleKeys
<1>4. \A p \in Pairs : Stale(es[p], n) => es[p].nextAttempt < n - 2 * CapStep
  BY DEF Stale
<1> QED
  BY <1>1, <1>2, <1>3, <1>4

-----------------------------------------------------------------------------
(* The inductive invariant. *)

\* A running call has a pair, started in the past and is within its deadline.
CallsWellFormed ==
  \A c \in Calls :
    /\ now[c] <= clock
    /\ Active(c) => pair[c] \in Pairs /\ clock - now[c] <= RPCBudget

\* Only a sweep has evicted keys left to clear.
SweepOnly ==
  \A c \in Calls : evicted[c] # {} => pc[c] \in {"sweep", "attachSweep"}

\* The attempt that is running, or that failed and is not recorded yet, was
\* due when it started.
AttemptWasDue ==
  \A c \in Calls : pc[c] \in {"detach", "failed"} /\ entries[pair[c]].tripped =>
    entries[pair[c]].nextAttempt <= now[c]

\* Between Failure and SetGauge, and between Allow and the probe, the entry is
\* not stale for anybody: the next attempt lies after the handler's start.
RecordIsFresh ==
  \A c \in Calls :
    /\ pc[c] \in {"setGauge", "probe"} => entries[pair[c]].tripped
    /\ pc[c] \in {"since", "setGauge", "probe"} /\ entries[pair[c]].tripped =>
         entries[pair[c]].nextAttempt > now[c]

\* After Success and before DeleteGauge the pair is closed.
ClearedIsClosed ==
  \A c \in Calls : pc[c] \in {"clear", "attachClear"} => ~entries[pair[c]].tripped

\* An open pair was reported, or its handler is about to report it.
Reporting(c, p) == pair[c] = p /\ pc[c] \in {"since", "setGauge", "stallEvent"} /\ flag[c]

OpenIsReported ==
  \A p \in Pairs : entries[p].tripped => p \in stalled \/ \E c \in Calls : Reporting(c, p)

IInv ==
  /\ TypeOK
  /\ CallsWellFormed
  /\ PairExclusive
  /\ SweepOnly
  /\ AttemptWasDue
  /\ PauseBounded
  /\ RecordIsFresh
  /\ ClearedIsClosed
  /\ GaugeNotOrphaned
  /\ OpenIsReported

-----------------------------------------------------------------------------
(* Initial states. *)

\* Every part of the invariant holds when the controller starts.
LEMMA InitIInv == Init => IInv
<1> SUFFICES ASSUME Init PROVE IInv
  OBVIOUS
<1>1. \A p \in Pairs : entries[p] = NoEntry
  BY DEF Init, NewBreaker
<1>2. TypeOK
  BY NoEntryType DEF Init, NewBreaker, TypeOK, PCs
<1>3. \A c \in Calls : pc[c] = "idle" /\ evicted[c] = {} /\ now[c] = 0
  BY DEF Init
<1>4. CallsWellFormed /\ PairExclusive
  BY <1>3 DEF Init, CallsWellFormed, PairExclusive, Running, Active
<1>5. SweepOnly /\ AttemptWasDue /\ RecordIsFresh /\ ClearedIsClosed
  BY <1>3 DEF SweepOnly, AttemptWasDue, RecordIsFresh, ClearedIsClosed
<1>6. PauseBounded /\ GaugeNotOrphaned /\ OpenIsReported
  BY <1>1, NoEntryType DEF Init, PauseBounded, GaugeNotOrphaned, OpenIsReported
<1> QED
  BY <1>2, <1>4, <1>5, <1>6 DEF IInv

-----------------------------------------------------------------------------
(* Type correctness. *)

\* A handler that runs has a pair of its own.
LEMMA ActivePair ==
  ASSUME CallsWellFormed, NEW c \in Calls, pc[c] # "idle"
  PROVE  pair[c] \in Pairs
  BY DEF CallsWellFormed, Active

\* A step of a handler, of the clock or a restart keeps the types.
LEMMA TypeStep ==
  ASSUME TypeOK, CallsWellFormed, [Next]_vars
  PROVE  TypeOK'
<1> USE DEF TypeOK
<1>1. ASSUME NEW c \in Calls, NEW p \in Pairs,
             ControllerPublishVolume(c, p) \/ ControllerUnpublishVolume(c, p)
      PROVE  TypeOK'
  BY <1>1 DEF ControllerPublishVolume, ControllerUnpublishVolume, Insert, Goto,
              PCs, PublishPCs, UnpublishPCs
<1>2. ASSUME NEW c \in Calls, Return(c)
      PROVE  TypeOK'
  BY <1>2 DEF Return, Goto, PCs
<1>3. ASSUME NEW c \in Calls, EvictOnUnpublish(c) \/ EvictOnPublish(c)
      PROVE  TypeOK'
  <2>1. /\ EvictStale(entries, now[c]) \in [Pairs -> BreakerEntry]
        /\ StaleKeys(entries, now[c]) \in SUBSET Pairs
    BY EvictFacts
  <2> QED
    BY <1>3, <2>1 DEF EvictOnUnpublish, EvictOnPublish, Evict, Goto,
                      PCs, PublishPCs, UnpublishPCs
<1>4. ASSUME NEW c \in Calls, SweepOnUnpublish(c) \/ SweepOnPublish(c)
      PROVE  TypeOK'
  BY <1>4 DEF SweepOnUnpublish, SweepOnPublish, SweepGauge, Goto,
              PCs, PublishPCs, UnpublishPCs
<1>5. ASSUME NEW c \in Calls, AllowStep(c) \/ Probe(c) \/ DetachOK(c) \/ ReadSince(c) \/ Attach(c)
      PROVE  TypeOK'
  BY <1>5 DEF AllowStep, Probe, DetachOK, ReadSince, Attach, Goto, shared, local,
              PCs, PublishPCs, UnpublishPCs
<1>6. ASSUME NEW c \in Calls, NEW t \in BOOLEAN, DetachFails(c, t)
      PROVE  TypeOK'
  BY <1>6 DEF DetachFails, Goto, shared, PCs, UnpublishPCs
<1>7. ASSUME NEW c \in Calls, RecordFailure(c)
      PROVE  TypeOK'
  <2>1. pair[c] \in Pairs
    BY <1>7, ActivePair DEF RecordFailure
  <2>2. /\ Failure(entries[pair[c]], flag[c], now[c]) \in BreakerEntry
        /\ Escalates(entries[pair[c]], flag[c], now[c]) \in BOOLEAN
    BY <2>1, FailureFacts
  <2> QED
    BY <1>7, <2>1, <2>2 DEF RecordFailure, Goto, PCs, UnpublishPCs
<1>8. ASSUME NEW c \in Calls, ReadWasTripped(c)
      PROVE  TypeOK'
  <2>1. entries[pair[c]].tripped \in BOOLEAN
    BY <1>8, ActivePair DEF ReadWasTripped, BreakerEntry
  <2> QED
    BY <1>8, <2>1 DEF ReadWasTripped, Goto, shared, PCs, UnpublishPCs
<1>9. ASSUME NEW c \in Calls, SuccessOnDetach(c) \/ SuccessOnAttach(c)
      PROVE  TypeOK'
  BY <1>9, NoEntryType DEF SuccessOnDetach, SuccessOnAttach, ClearEntry, Success, Goto, local,
              PCs, PublishPCs, UnpublishPCs
<1>10. ASSUME NEW c \in Calls,
              SetGauge(c) \/ EmitStalled(c) \/ ClearOnDetach(c) \/ ClearOnAttach(c)
       PROVE  TypeOK'
  <2>1. pair[c] \in Pairs
    BY <1>10, ActivePair DEF SetGauge, EmitStalled, ClearOnDetach, ClearOnAttach, Goto
  <2> QED
    BY <1>10, <2>1 DEF SetGauge, EmitStalled, ClearOnDetach, ClearOnAttach, Goto, local,
                       PCs, UnpublishPCs
<1>11. ASSUME NEW c \in Calls, GetDevice(c)
       PROVE  TypeOK'
  BY <1>11 DEF GetDevice, Goto, shared, PCs, PublishPCs
<1>12. ASSUME Tick
       PROVE  TypeOK'
  BY <1>12 DEF Tick, shared, local
<1>13. ASSUME Restart
       PROVE  TypeOK'
  BY <1>13, NoEntryType DEF Restart, NewBreaker, PCs
<1>14. ASSUME UNCHANGED vars
       PROVE  TypeOK'
  BY <1>14 DEF vars
<1> QED
  BY <1>1, <1>2, <1>3, <1>4, <1>5, <1>6, <1>7, <1>8, <1>9, <1>10, <1>11, <1>12, <1>13, <1>14
  DEF Next, Handler, Unpublishing, Publishing

-----------------------------------------------------------------------------
(* Calls and the in-flight map. *)

\* Every step of a handler but the return keeps it running on its pair, with
\* a now that is its own or the clock's; and it leaves other calls alone.
HandlerMoves(c) ==
  /\ pc[c] # "idle"
  /\ \E l \in PCs \ {"idle"} : pc' = [pc EXCEPT ![c] = l]
  /\ UNCHANGED <<clock, inFlight, pair>>
  /\ now' = now \/ now' = [now EXCEPT ![c] = clock]

\* Each of the steps of the two handlers is such a move.
LEMMA HandlerStep ==
  ASSUME TypeOK, NEW c \in Calls, Unpublishing(c) \/ Publishing(c)
  PROVE  HandlerMoves(c)
<1> USE DEF HandlerMoves, Goto, PCs, PublishPCs, UnpublishPCs, shared, local
<1>1. CASE EvictOnUnpublish(c) \/ EvictOnPublish(c)
  BY <1>1 DEF EvictOnUnpublish, EvictOnPublish, Evict
<1>2. CASE SweepOnUnpublish(c) \/ SweepOnPublish(c)
  BY <1>2 DEF SweepOnUnpublish, SweepOnPublish, SweepGauge
<1>3. CASE AllowStep(c) \/ Probe(c) \/ DetachOK(c) \/ ReadSince(c) \/ Attach(c)
  BY <1>3 DEF AllowStep, Probe, DetachOK, ReadSince, Attach
<1>4. CASE \E t \in BOOLEAN : DetachFails(c, t)
  BY <1>4 DEF DetachFails
<1>5. CASE RecordFailure(c) \/ ReadWasTripped(c)
  BY <1>5 DEF RecordFailure, ReadWasTripped
<1>6. CASE SuccessOnDetach(c) \/ SuccessOnAttach(c)
  BY <1>6 DEF SuccessOnDetach, SuccessOnAttach, ClearEntry
<1>7. CASE SetGauge(c) \/ EmitStalled(c) \/ ClearOnDetach(c) \/ ClearOnAttach(c)
  BY <1>7 DEF SetGauge, EmitStalled, ClearOnDetach, ClearOnAttach
<1>8. CASE GetDevice(c)
  BY <1>8 DEF GetDevice
<1> QED
  BY <1>1, <1>2, <1>3, <1>4, <1>5, <1>6, <1>7, <1>8 DEF Unpublishing, Publishing

\* Insert, Return and the steps between them keep one handler per in-flight
\* pair, within its deadline, with evicted keys only during a sweep.
LEMMA CallsStep ==
  ASSUME TypeOK, CallsWellFormed, PairExclusive, [Next]_vars
  PROVE  CallsWellFormed' /\ PairExclusive'
<1> USE DEF TypeOK, CallsWellFormed, PairExclusive, Active, Running
<1>1. ASSUME NEW c \in Calls, NEW p \in Pairs,
             ControllerPublishVolume(c, p) \/ ControllerUnpublishVolume(c, p)
      PROVE  CallsWellFormed' /\ PairExclusive'
  <2>1. /\ p \notin inFlight /\ inFlight' = inFlight \cup {p}
        /\ pc[c] = "idle" /\ \E l \in {"attach", "evict"} : pc' = [pc EXCEPT ![c] = l]
        /\ pair' = [pair EXCEPT ![c] = p]
        /\ now' = [now EXCEPT ![c] = clock]
        /\ clock' = clock
    BY <1>1 DEF ControllerPublishVolume, ControllerUnpublishVolume, Insert, Goto
  <2>2. CallsWellFormed'
    BY <2>1, BoundAssumption
  <2>3. \A d \in Calls : Active(d) => pair[d] # p
    BY <2>1
  <2>4. (\A x, y \in Calls : x # y /\ Active(x) /\ Active(y) => pair[x] # pair[y])'
    BY <2>1, <2>3
  <2>5. (\A q \in Pairs : q \in inFlight <=> Running(q))'
    <3> SUFFICES ASSUME NEW q \in Pairs PROVE (q \in inFlight <=> Running(q))'
      OBVIOUS
    <3>1. CASE q = p
      BY <2>1, <3>1
    <3>2. CASE q # p
      BY <2>1, <3>2
    <3> QED
      BY <3>1, <3>2
  <2> QED
    BY <2>2, <2>4, <2>5
<1>2. ASSUME NEW c \in Calls, Return(c)
      PROVE  CallsWellFormed' /\ PairExclusive'
  <2>1. /\ pc[c] = "return" /\ pc' = [pc EXCEPT ![c] = "idle"]
        /\ inFlight' = inFlight \ {pair[c]}
        /\ pair' = [pair EXCEPT ![c] = NoPair]
        /\ now' = [now EXCEPT ![c] = 0]
        /\ clock' = clock
    BY <1>2 DEF Return, Goto
  <2>2. CallsWellFormed'
    BY <2>1
  <2>3. (\A x, y \in Calls : x # y /\ Active(x) /\ Active(y) => pair[x] # pair[y])'
    BY <2>1
  <2>4. (\A q \in Pairs : q \in inFlight <=> Running(q))'
    <3> SUFFICES ASSUME NEW q \in Pairs PROVE (q \in inFlight <=> Running(q))'
      OBVIOUS
    <3>1. CASE q = pair[c]
      <4>1. \A d \in Calls : d # c /\ Active(d) => pair[d] # q
        BY <2>1, <3>1
      <4> QED
        BY <2>1, <3>1, <4>1
    <3>2. CASE q # pair[c]
      BY <2>1, <3>2
    <3> QED
      BY <3>1, <3>2
  <2> QED
    BY <2>2, <2>3, <2>4
<1>3. ASSUME NEW c \in Calls, Unpublishing(c) \/ Publishing(c)
      PROVE  CallsWellFormed' /\ PairExclusive'
  <2>1. HandlerMoves(c)
    BY <1>3, HandlerStep
  <2>2. \A d \in Calls : Active(d)' <=> Active(d)
    BY <2>1 DEF HandlerMoves
  <2>3. CallsWellFormed'
    BY <2>1, <2>2, BoundAssumption DEF HandlerMoves
  <2>4. PairExclusive'
    BY <2>1, <2>2 DEF HandlerMoves
  <2> QED
    BY <2>3, <2>4
<1>4. ASSUME Tick
      PROVE  CallsWellFormed' /\ PairExclusive'
  <2>1. CallsWellFormed'
    BY <1>4, BoundAssumption DEF Tick, shared, local
  <2>2. PairExclusive'
    BY <1>4 DEF Tick, shared, local
  <2> QED
    BY <2>1, <2>2
<1>5. ASSUME Restart
      PROVE  CallsWellFormed' /\ PairExclusive'
  BY <1>5 DEF Restart
<1>6. ASSUME UNCHANGED vars
      PROVE  CallsWellFormed' /\ PairExclusive'
  BY <1>6 DEF vars
<1> QED
  BY <1>1, <1>2, <1>3, <1>4, <1>5, <1>6 DEF Next, Handler

-----------------------------------------------------------------------------
(* The breaker's entries and the handlers that work on them. *)

\* What the handlers rely on between two acquisitions of the breaker's lock.
EntryInv == SweepOnly /\ AttemptWasDue /\ RecordIsFresh /\ ClearedIsClosed

\* An eviction never drops the entry a running handler has just recorded, or
\* was just told to wait for: it would have to be older than the handler's deadline allows.
LEMMA FreshIsNotStale ==
  ASSUME TypeOK, CallsWellFormed, RecordIsFresh, NEW c \in Calls, NEW d \in Calls,
         pc[d] \in {"since", "setGauge", "probe"}, entries[pair[d]].tripped
  PROVE  pair[d] \notin StaleKeys(entries, now[c])
<1>1. pair[d] \in Pairs /\ now[c] \in Nat /\ now[d] \in Nat /\ clock \in Nat
  BY ActivePair DEF TypeOK
<1>2. clock - now[d] <= RPCBudget /\ now[c] <= clock
  BY DEF CallsWellFormed, Active
<1>3. entries[pair[d]].nextAttempt > now[d] /\ entries[pair[d]].nextAttempt \in Int
  BY <1>1 DEF RecordIsFresh, TypeOK, BreakerEntry
<1>4. ~(entries[pair[d]].nextAttempt < now[c] - 2 * CapStep)
  BY <1>1, <1>2, <1>3, StepBounds, BudgetAssumption, BoundAssumption
<1> QED
  BY <1>1, <1>4, EvictFacts DEF TypeOK

\* No step of another handler undoes what a handler has learnt from Allow,
\* Failure or Success before its next use of the breaker's lock.
LEMMA EntryStep ==
  ASSUME TypeOK, CallsWellFormed, PairExclusive, EntryInv, [Next]_vars
  PROVE  EntryInv'
<1> USE DEF EntryInv, SweepOnly, AttemptWasDue, RecordIsFresh, ClearedIsClosed, TypeOK, Goto
<1>1. ASSUME NEW c \in Calls, NEW p \in Pairs,
             ControllerPublishVolume(c, p) \/ ControllerUnpublishVolume(c, p)
      PROVE  EntryInv'
  BY <1>1 DEF ControllerPublishVolume, ControllerUnpublishVolume, Insert
<1>2. ASSUME NEW c \in Calls, Return(c)
      PROVE  EntryInv'
  BY <1>2 DEF Return
<1>3. ASSUME NEW c \in Calls, EvictOnUnpublish(c) \/ EvictOnPublish(c)
      PROVE  EntryInv'
  <2>1. /\ entries' = EvictStale(entries, now[c])
        /\ evicted' = [evicted EXCEPT ![c] = StaleKeys(entries, now[c])]
        /\ pair' = pair /\ now' = now /\ clock' = clock
        /\ pc[c] \in {"evict", "attachEvict"}
        /\ \E l \in {"sweep", "allow", "attachSweep", "attachSuccess"} :
             /\ pc' = [pc EXCEPT ![c] = l]
             /\ StaleKeys(entries, now[c]) # {} => l \in {"sweep", "attachSweep"}
    BY <1>3 DEF EvictOnUnpublish, EvictOnPublish, Evict
  <2>2. SweepOnly'
    BY <2>1
  <2>3. \A q \in Pairs : entries'[q].tripped => entries'[q] = entries[q]
    <3>1. entries \in [Pairs -> BreakerEntry] /\ now[c] \in Nat
      OBVIOUS
    <3>2. \A q \in Pairs : EvictStale(entries, now[c])[q] \in {NoEntry, entries[q]}
      BY <3>1, EvictFacts
    <3> QED
      BY <2>1, <3>2, NoEntryType
  <2>4. \A d \in Calls : pc'[d] # "idle" => pair'[d] \in Pairs
    BY <2>1, ActivePair
  <2>5. AttemptWasDue' /\ ClearedIsClosed'
    BY <2>1, <2>3, <2>4
  <2>6. \A d \in Calls : pc[d] \in {"since", "setGauge", "probe"} /\ entries[pair[d]].tripped =>
          entries'[pair[d]] = entries[pair[d]]
    BY <2>1, FreshIsNotStale, EvictFacts, ActivePair
  <2>7. RecordIsFresh'
    BY <2>1, <2>3, <2>4, <2>6
  <2> QED
    BY <2>2, <2>5, <2>7
<1>4. ASSUME NEW c \in Calls, SweepOnUnpublish(c) \/ SweepOnPublish(c)
      PROVE  EntryInv'
  BY <1>4 DEF SweepOnUnpublish, SweepOnPublish, SweepGauge
<1>5. ASSUME NEW c \in Calls, AllowStep(c)
      PROVE  EntryInv'
  <2>1. pair[c] \in Pairs /\ entries[pair[c]] \in BreakerEntry
    BY <1>5, ActivePair DEF AllowStep
  <2> QED
    BY <1>5, <2>1 DEF AllowStep, Allow, shared, local, BreakerEntry
<1>6. ASSUME NEW c \in Calls, Probe(c) \/ DetachOK(c) \/ ReadSince(c) \/ Attach(c)
      PROVE  EntryInv'
  BY <1>6 DEF Probe, DetachOK, ReadSince, Attach, shared, local
<1>7. ASSUME NEW c \in Calls, NEW t \in BOOLEAN, DetachFails(c, t)
      PROVE  EntryInv'
  BY <1>7 DEF DetachFails, shared
<1>8. ASSUME NEW c \in Calls, RecordFailure(c)
      PROVE  EntryInv'
  <2> DEFINE f == Failure(entries[pair[c]], flag[c], now[c])
  <2>1. pair[c] \in Pairs
    BY <1>8, ActivePair DEF RecordFailure
  <2>2. f.tripped => f.nextAttempt > now[c]
    <3>1. entries[pair[c]] \in BreakerEntry /\ flag[c] \in BOOLEAN /\ now[c] \in Nat
      BY <2>1
    <3> QED
      BY <3>1, FailureFacts
  <2>3. /\ pc[c] = "failed" /\ pc' = [pc EXCEPT ![c] = "since"]
        /\ entries' = [entries EXCEPT ![pair[c]] = f]
        /\ UNCHANGED <<pair, now, evicted>>
    BY <1>8 DEF RecordFailure
  <2> HIDE DEF f
  <2>4. \A d \in Calls : d # c /\ pc[d] # "idle" => pair[d] \in Pairs /\ pair[d] # pair[c]
    BY <2>3, ActivePair DEF PairExclusive, Active
  <2>5. \A d \in Calls : d # c /\ pc[d] # "idle" =>
          entries'[pair[d]] = entries[pair[d]] /\ pc'[d] = pc[d]
    BY <2>3, <2>4
  <2>6. entries'[pair[c]] = f /\ pc'[c] = "since"
    BY <2>1, <2>3
  <2> QED
    BY <2>2, <2>3, <2>5, <2>6
<1>9. ASSUME NEW c \in Calls, ReadWasTripped(c)
      PROVE  EntryInv'
  BY <1>9 DEF ReadWasTripped, shared
<1>10. ASSUME NEW c \in Calls, SuccessOnDetach(c) \/ SuccessOnAttach(c)
       PROVE  EntryInv'
  <2>1. /\ pc[c] \in {"success", "attachSuccess"}
        /\ \E l \in {"clear", "attachClear"} : pc' = [pc EXCEPT ![c] = l]
        /\ entries' = [entries EXCEPT ![pair[c]] = NoEntry]
        /\ UNCHANGED <<pair, now, evicted>>
    BY <1>10 DEF SuccessOnDetach, SuccessOnAttach, ClearEntry, Success, local
  <2>2. pair[c] \in Pairs
    BY <2>1, ActivePair
  <2>3. \A d \in Calls : d # c /\ pc[d] # "idle" => pair[d] \in Pairs /\ pair[d] # pair[c]
    BY <2>1, ActivePair DEF PairExclusive, Active
  <2>4. \A d \in Calls : d # c /\ pc[d] # "idle" =>
          entries'[pair[d]] = entries[pair[d]] /\ pc'[d] = pc[d]
    BY <2>1, <2>3
  <2>5. ~entries'[pair[c]].tripped
    BY <2>1, <2>2, NoEntryType
  <2> QED
    BY <2>1, <2>4, <2>5
<1>11. ASSUME NEW c \in Calls,
              SetGauge(c) \/ EmitStalled(c) \/ ClearOnDetach(c) \/ ClearOnAttach(c)
       PROVE  EntryInv'
  BY <1>11 DEF SetGauge, EmitStalled, ClearOnDetach, ClearOnAttach, local
<1>12. ASSUME NEW c \in Calls, GetDevice(c)
       PROVE  EntryInv'
  BY <1>12 DEF GetDevice, shared
<1>13. ASSUME Tick
       PROVE  EntryInv'
  BY <1>13 DEF Tick, shared, local
<1>14. ASSUME Restart
       PROVE  EntryInv'
  BY <1>14 DEF Restart
<1>15. ASSUME UNCHANGED vars
       PROVE  EntryInv'
  BY <1>15 DEF vars
<1> QED
  BY <1>1, <1>2, <1>3, <1>4, <1>5, <1>6, <1>7, <1>8, <1>9, <1>10, <1>11, <1>12, <1>13, <1>14, <1>15
  DEF Next, Handler, Unpublishing, Publishing

-----------------------------------------------------------------------------
(* The bound on the wait. *)

\* An entry changes in three ways only: Failure of a handler's own pair,
\* the reset of a pair, and a restart or an eviction that resets many.
LEMMA EntriesChange ==
  ASSUME TypeOK, CallsWellFormed, [Next]_vars, NEW p \in Pairs
  PROVE  \/ entries'[p] = entries[p]
         \/ entries'[p] = NoEntry
         \/ \E c \in Calls :
              /\ RecordFailure(c)
              /\ pair[c] = p
              /\ entries'[p] = Failure(entries[p], flag[c], now[c])
<1> USE DEF TypeOK
<1>1. ASSUME NEW c \in Calls, EvictOnUnpublish(c) \/ EvictOnPublish(c)
      PROVE  entries'[p] = entries[p] \/ entries'[p] = NoEntry
  <2>1. entries' = EvictStale(entries, now[c])
    BY <1>1 DEF EvictOnUnpublish, EvictOnPublish, Evict
  <2>2. entries \in [Pairs -> BreakerEntry] /\ now[c] \in Nat
    OBVIOUS
  <2> QED
    BY <2>1, <2>2, EvictFacts
<1>2. ASSUME NEW c \in Calls, RecordFailure(c)
      PROVE  entries'[p] = entries[p] \/
             (pair[c] = p /\ entries'[p] = Failure(entries[p], flag[c], now[c]))
  BY <1>2 DEF RecordFailure
<1>3. ASSUME NEW c \in Calls, SuccessOnDetach(c) \/ SuccessOnAttach(c)
      PROVE  entries'[p] = entries[p] \/ entries'[p] = NoEntry
  BY <1>3 DEF SuccessOnDetach, SuccessOnAttach, ClearEntry, Success
<1>4. ASSUME Restart
      PROVE  entries'[p] = NoEntry
  BY <1>4 DEF Restart, NewBreaker
<1>5. ASSUME NEW c \in Calls, NEW q \in Pairs,
             ControllerPublishVolume(c, q) \/ ControllerUnpublishVolume(c, q)
      PROVE  entries' = entries
  BY <1>5 DEF ControllerPublishVolume, ControllerUnpublishVolume, Insert
<1>6. ASSUME NEW c \in Calls,
             \/ Return(c) \/ SweepOnUnpublish(c) \/ SweepOnPublish(c) \/ AllowStep(c) \/ Probe(c)
             \/ DetachOK(c) \/ (\E t \in BOOLEAN : DetachFails(c, t)) \/ ReadSince(c)
             \/ SetGauge(c) \/ EmitStalled(c) \/ ReadWasTripped(c) \/ ClearOnDetach(c)
             \/ Attach(c) \/ GetDevice(c) \/ ClearOnAttach(c)
      PROVE  entries' = entries
  BY <1>6 DEF Return, SweepOnUnpublish, SweepOnPublish, SweepGauge, AllowStep, Probe, DetachOK,
              DetachFails, ReadSince, SetGauge, EmitStalled, ReadWasTripped, ClearOnDetach,
              Attach, GetDevice, ClearOnAttach, shared
<1>7. ASSUME Tick \/ UNCHANGED vars
      PROVE  entries' = entries
  BY <1>7 DEF Tick, shared, vars
<1> QED
  BY <1>1, <1>2, <1>3, <1>4, <1>5, <1>6, <1>7 DEF Next, Handler, Unpublishing, Publishing

\* The clock never goes back.
LEMMA ClockStep ==
  ASSUME TypeOK, [Next]_vars
  PROVE  clock' \in Nat /\ clock <= clock'
<1> USE DEF TypeOK
<1>1. ASSUME NEW c \in Calls, Unpublishing(c) \/ Publishing(c)
      PROVE  clock' = clock
  BY <1>1, HandlerStep DEF HandlerMoves
<1>2. ASSUME Tick
      PROVE  clock' = clock + 1
  BY <1>2 DEF Tick
<1>3. ASSUME NEW c \in Calls, NEW p \in Pairs,
             ControllerPublishVolume(c, p) \/ ControllerUnpublishVolume(c, p)
      PROVE  clock' = clock
  BY <1>3 DEF ControllerPublishVolume, ControllerUnpublishVolume, Insert
<1>4. ASSUME NEW c \in Calls, Return(c)
      PROVE  clock' = clock
  BY <1>4 DEF Return
<1>5. ASSUME Restart \/ UNCHANGED vars
      PROVE  clock' = clock
  BY <1>5 DEF Restart, vars
<1> QED
  BY <1>1, <1>2, <1>3, <1>4, <1>5 DEF Next, Handler

\* Failure sets the next attempt of an open pair at most CapStep ahead, and the
\* clock only goes on.
LEMMA BoundStep ==
  ASSUME TypeOK, CallsWellFormed, PauseBounded, [Next]_vars
  PROVE  PauseBounded'
<1> SUFFICES ASSUME NEW p \in Pairs, entries'[p].tripped
             PROVE  entries'[p].nextAttempt <= clock' + CapStep
  BY DEF PauseBounded
<1>1. clock \in Nat /\ clock' \in Nat /\ clock <= clock' /\ CapStep \in Nat
  BY ClockStep, StepBounds DEF TypeOK
<1>2. entries[p] \in BreakerEntry /\ entries[p].nextAttempt \in Int
  BY DEF TypeOK, BreakerEntry
<1>3. CASE entries'[p] = entries[p]
  BY <1>1, <1>2, <1>3 DEF PauseBounded
<1>4. CASE entries'[p] = NoEntry
  BY <1>4, NoEntryType
<1>5. ASSUME NEW c \in Calls, entries'[p] = Failure(entries[p], flag[c], now[c])
      PROVE  entries'[p].nextAttempt <= clock' + CapStep
  <2>1. flag[c] \in BOOLEAN /\ now[c] \in Nat /\ now[c] <= clock
    BY DEF TypeOK, CallsWellFormed
  <2> DEFINE f == Failure(entries[p], flag[c], now[c])
  <2>2. f \in BreakerEntry /\ (f.tripped => f.nextAttempt <= now[c] + CapStep)
    BY <1>2, <2>1, FailureFacts
  <2> HIDE DEF f
  <2>3. entries'[p] = f /\ f.tripped
    BY <1>5 DEF f
  <2>4. f.nextAttempt \in Int
    BY <2>2 DEF BreakerEntry
  <2> QED
    BY <1>1, <2>1, <2>2, <2>3, <2>4
<1> QED
  BY <1>3, <1>4, <1>5, EntriesChange

-----------------------------------------------------------------------------
(* The gauge series. *)

\* The steps that only move a call, from and to places that are neither a
\* sweep nor a clear, or that only emit an event.
Quiet(c) ==
  \/ AllowStep(c) \/ Probe(c) \/ DetachOK(c) \/ (\E t \in BOOLEAN : DetachFails(c, t))
  \/ ReadSince(c) \/ EmitStalled(c) \/ ReadWasTripped(c) \/ Attach(c) \/ GetDevice(c)

\* Whoever closes a pair with a gauge series still has to delete the series.
LEMMA GaugeStep ==
  ASSUME TypeOK, CallsWellFormed, PairExclusive, EntryInv, GaugeNotOrphaned, [Next]_vars
  PROVE  GaugeNotOrphaned'
<1> USE DEF TypeOK, Goto
<1>1. ASSUME NEW c \in Calls, NEW p \in Pairs,
             ControllerPublishVolume(c, p) \/ ControllerUnpublishVolume(c, p)
      PROVE  GaugeNotOrphaned'
  BY <1>1 DEF ControllerPublishVolume, ControllerUnpublishVolume, Insert, GaugeNotOrphaned
<1>2. ASSUME NEW c \in Calls, Return(c)
      PROVE  GaugeNotOrphaned'
  BY <1>2 DEF Return, GaugeNotOrphaned
<1>3. ASSUME NEW c \in Calls, EvictOnUnpublish(c) \/ EvictOnPublish(c)
      PROVE  GaugeNotOrphaned'
  <2>1. /\ entries' = EvictStale(entries, now[c])
        /\ evicted' = [evicted EXCEPT ![c] = StaleKeys(entries, now[c])]
        /\ pair' = pair /\ gauge' = gauge
        /\ pc[c] \in {"evict", "attachEvict"}
        /\ \E l \in PCs : pc' = [pc EXCEPT ![c] = l]
    BY <1>3 DEF EvictOnUnpublish, EvictOnPublish, Evict, PCs, PublishPCs, UnpublishPCs
  <2>2. evicted[c] = {}
    BY <2>1 DEF EntryInv, SweepOnly
  <2>3. \A p \in Pairs : p \notin evicted'[c] => entries'[p] = entries[p]
    <3>1. entries \in [Pairs -> BreakerEntry] /\ now[c] \in Nat
      OBVIOUS
    <3>2. \A p \in Pairs : p \notin StaleKeys(entries, now[c]) =>
            EvictStale(entries, now[c])[p] = entries[p]
      BY <3>1, EvictFacts
    <3> QED
      BY <2>1, <3>2
  <2>4. \A d \in Calls : d # c => evicted'[d] = evicted[d] /\ pc'[d] = pc[d]
    BY <2>1
  <2> SUFFICES ASSUME NEW p \in gauge, p \notin evicted'[c]
               PROVE  \/ entries'[p].tripped
                      \/ \E d \in Calls : p \in evicted'[d]
                      \/ \E d \in Calls : pair'[d] = p /\ pc'[d] \in {"clear", "attachClear"}
    BY <2>1 DEF GaugeNotOrphaned
  <2>5. CASE entries[p].tripped
    BY <2>3, <2>5
  <2>6. CASE \E d \in Calls : p \in evicted[d]
    BY <2>2, <2>4, <2>6
  <2>7. CASE \E d \in Calls : pair[d] = p /\ pc[d] \in {"clear", "attachClear"}
    BY <2>1, <2>4, <2>7
  <2> QED
    BY <2>5, <2>6, <2>7 DEF GaugeNotOrphaned
<1>4. ASSUME NEW c \in Calls, SweepOnUnpublish(c) \/ SweepOnPublish(c)
      PROVE  GaugeNotOrphaned'
  <2>1. PICK q \in evicted[c] :
          /\ pc[c] \in {"sweep", "attachSweep"}
          /\ \E l \in PCs : pc' = [pc EXCEPT ![c] = l]
          /\ evicted' = [evicted EXCEPT ![c] = @ \ {q}]
          /\ gauge' = gauge \ {q}
          /\ UNCHANGED <<entries, pair>>
    BY <1>4 DEF SweepOnUnpublish, SweepOnPublish, SweepGauge, PCs, PublishPCs, UnpublishPCs
  <2>2. \A p \in gauge', d \in Calls : p \in evicted[d] => p \in evicted'[d]
    BY <2>1
  <2>3. \A d \in Calls : pc[d] \in {"clear", "attachClear"} => pc'[d] = pc[d]
    BY <2>1
  <2> QED
    BY <2>1, <2>2, <2>3 DEF GaugeNotOrphaned
<1>5. ASSUME NEW c \in Calls, Quiet(c)
      PROVE  GaugeNotOrphaned'
  <2>1. /\ UNCHANGED <<entries, gauge, evicted, pair>>
        /\ pc[c] \notin {"clear", "attachClear"}
        /\ \A d \in Calls : d # c => pc'[d] = pc[d]
    BY <1>5 DEF Quiet, AllowStep, Probe, DetachOK, DetachFails, ReadSince, EmitStalled,
                ReadWasTripped, Attach, GetDevice, shared, local
  <2> QED
    BY <2>1 DEF GaugeNotOrphaned
<1>6. ASSUME NEW c \in Calls, RecordFailure(c)
      PROVE  GaugeNotOrphaned'
  <2>1. pair[c] \in Pairs
    BY <1>6, ActivePair DEF RecordFailure
  <2>2. entries[pair[c]] \in BreakerEntry /\ flag[c] \in BOOLEAN /\ now[c] \in Nat
    BY <2>1
  <2>3. entries[pair[c]].tripped => Failure(entries[pair[c]], flag[c], now[c]).tripped
    BY <2>2, FailureFacts
  <2>4. /\ UNCHANGED <<gauge, evicted, pair>>
        /\ pc[c] = "failed"
        /\ \A d \in Calls : d # c => pc'[d] = pc[d]
        /\ entries' = [entries EXCEPT ![pair[c]] = Failure(entries[pair[c]], flag[c], now[c])]
    BY <1>6 DEF RecordFailure
  <2>5. \A p \in Pairs : entries[p].tripped => entries'[p].tripped
    BY <2>3, <2>4
  <2> QED
    BY <2>4, <2>5 DEF GaugeNotOrphaned
<1>7. ASSUME NEW c \in Calls, SetGauge(c)
      PROVE  GaugeNotOrphaned'
  BY <1>7 DEF SetGauge, GaugeNotOrphaned, EntryInv, RecordIsFresh, local
<1>8. ASSUME NEW c \in Calls, SuccessOnDetach(c) \/ SuccessOnAttach(c)
      PROVE  GaugeNotOrphaned'
  <2>1. /\ pc[c] \in {"success", "attachSuccess"}
        /\ \E l \in {"clear", "attachClear"} : pc' = [pc EXCEPT ![c] = l]
        /\ entries' = [entries EXCEPT ![pair[c]] = NoEntry]
        /\ UNCHANGED <<gauge, pair, evicted>>
    BY <1>8 DEF SuccessOnDetach, SuccessOnAttach, ClearEntry, Success, local
  <2>2. pc'[c] \in {"clear", "attachClear"} /\ \A d \in Calls : d # c => pc'[d] = pc[d]
    BY <2>1
  <2>3. \A p \in Pairs : p # pair[c] => entries'[p] = entries[p]
    BY <2>1
  <2> QED
    BY <2>1, <2>2, <2>3 DEF GaugeNotOrphaned
<1>9. ASSUME NEW c \in Calls, ClearOnDetach(c) \/ ClearOnAttach(c)
      PROVE  GaugeNotOrphaned'
  BY <1>9 DEF ClearOnDetach, ClearOnAttach, GaugeNotOrphaned, local
<1>10. ASSUME Tick \/ Restart \/ UNCHANGED vars
       PROVE  GaugeNotOrphaned'
  BY <1>10 DEF Tick, Restart, vars, GaugeNotOrphaned, shared, local
<1> QED
  BY <1>1, <1>2, <1>3, <1>4, <1>5, <1>6, <1>7, <1>8, <1>9, <1>10
  DEF Next, Handler, Unpublishing, Publishing, Quiet

-----------------------------------------------------------------------------
(* The events. *)

\* Whoever opens a pair still has to emit VolumeDetachStalled, and only a
\* recovery that was reported takes the mark back.
LEMMA ReportStep ==
  ASSUME TypeOK, CallsWellFormed, EntryInv, OpenIsReported, [Next]_vars
  PROVE  OpenIsReported'
<1> USE DEF TypeOK, Goto
<1>1. ASSUME NEW c \in Calls, NEW p \in Pairs,
             ControllerPublishVolume(c, p) \/ ControllerUnpublishVolume(c, p)
      PROVE  OpenIsReported'
  BY <1>1 DEF ControllerPublishVolume, ControllerUnpublishVolume, Insert, OpenIsReported, Reporting
<1>2. ASSUME NEW c \in Calls, Return(c)
      PROVE  OpenIsReported'
  BY <1>2 DEF Return, OpenIsReported, Reporting
<1>3. ASSUME NEW c \in Calls,
             \/ EvictOnUnpublish(c) \/ EvictOnPublish(c)
             \/ SuccessOnDetach(c) \/ SuccessOnAttach(c)
      PROVE  OpenIsReported'
  <2>1. /\ UNCHANGED <<stalled, pair, flag>>
        /\ pc[c] \in {"evict", "attachEvict", "success", "attachSuccess"}
        /\ \A d \in Calls : d # c => pc'[d] = pc[d]
    BY <1>3 DEF EvictOnUnpublish, EvictOnPublish, Evict, SuccessOnDetach, SuccessOnAttach,
                ClearEntry, local
  <2>2. \A p \in Pairs : entries'[p].tripped => entries'[p] = entries[p]
    <3>1. \A p \in Pairs : entries'[p] = entries[p] \/ entries'[p] = NoEntry
      <4>1. CASE EvictOnUnpublish(c) \/ EvictOnPublish(c)
        <5>1. entries \in [Pairs -> BreakerEntry] /\ now[c] \in Nat
          OBVIOUS
        <5>2. entries' = EvictStale(entries, now[c])
          BY <4>1 DEF EvictOnUnpublish, EvictOnPublish, Evict
        <5> QED
          BY <5>1, <5>2, EvictFacts
      <4>2. CASE SuccessOnDetach(c) \/ SuccessOnAttach(c)
        BY <4>2 DEF SuccessOnDetach, SuccessOnAttach, ClearEntry, Success
      <4> QED
        BY <1>3, <4>1, <4>2
    <3> QED
      BY <3>1, NoEntryType
  <2> QED
    BY <2>1, <2>2 DEF OpenIsReported, Reporting
<1>4. ASSUME NEW c \in Calls,
             \/ SweepOnUnpublish(c) \/ SweepOnPublish(c) \/ AllowStep(c) \/ Probe(c) \/ DetachOK(c)
             \/ (\E t \in BOOLEAN : DetachFails(c, t)) \/ ReadWasTripped(c)
             \/ Attach(c) \/ GetDevice(c) \/ ClearOnAttach(c)
      PROVE  OpenIsReported'
  <2>1. /\ UNCHANGED <<entries, stalled, pair>>
        /\ pc[c] \notin {"since", "setGauge", "stallEvent"}
        /\ \A d \in Calls : d # c => pc'[d] = pc[d] /\ flag'[d] = flag[d]
    BY <1>4 DEF SweepOnUnpublish, SweepOnPublish, SweepGauge, AllowStep, Probe, DetachOK,
                DetachFails, ReadWasTripped, Attach, GetDevice, ClearOnAttach, shared, local
  <2> QED
    BY <2>1 DEF OpenIsReported, Reporting
<1>5. ASSUME NEW c \in Calls, ReadSince(c) \/ SetGauge(c)
      PROVE  OpenIsReported'
  <2>1. /\ UNCHANGED <<entries, stalled, pair, flag>>
        /\ pc'[c] \in {"setGauge", "stallEvent"}
        /\ \A d \in Calls : d # c => pc'[d] = pc[d]
    BY <1>5 DEF ReadSince, SetGauge, shared, local
  <2> QED
    BY <2>1 DEF OpenIsReported, Reporting
<1>6. ASSUME NEW c \in Calls, EmitStalled(c)
      PROVE  OpenIsReported'
  <2>1. /\ UNCHANGED <<entries, pair, flag>>
        /\ stalled' = IF flag[c] THEN stalled \cup {pair[c]} ELSE stalled
        /\ \A d \in Calls : d # c => pc'[d] = pc[d]
    BY <1>6 DEF EmitStalled, local
  <2> QED
    BY <2>1 DEF OpenIsReported, Reporting
<1>7. ASSUME NEW c \in Calls, ClearOnDetach(c)
      PROVE  OpenIsReported'
  <2>1. /\ UNCHANGED <<entries, pair, flag>>
        /\ pc[c] = "clear"
        /\ stalled \ {pair[c]} \subseteq stalled'
        /\ \A d \in Calls : d # c => pc'[d] = pc[d]
    BY <1>7 DEF ClearOnDetach, local
  <2>2. ~entries[pair[c]].tripped
    BY <2>1 DEF EntryInv, ClearedIsClosed
  <2> QED
    BY <2>1, <2>2 DEF OpenIsReported, Reporting
<1>8. ASSUME NEW c \in Calls, RecordFailure(c)
      PROVE  OpenIsReported'
  <2> DEFINE e == entries[pair[c]]
             f == Failure(e, flag[c], now[c])
  <2>1. pair[c] \in Pairs
    BY <1>8, ActivePair DEF RecordFailure
  <2>2. e \in BreakerEntry /\ flag[c] \in BOOLEAN /\ now[c] \in Nat
    BY <2>1
  <2>3. f.tripped /\ ~e.tripped => Escalates(e, flag[c], now[c])
    BY <2>2, FailureFacts
  <2>4. /\ UNCHANGED <<stalled, pair>>
        /\ pc[c] = "failed" /\ pc' = [pc EXCEPT ![c] = "since"]
        /\ entries' = [entries EXCEPT ![pair[c]] = f]
        /\ flag' = [flag EXCEPT ![c] = Escalates(e, flag[c], now[c])]
    BY <1>8 DEF RecordFailure
  <2> HIDE DEF f
  <2>5. \A p \in Pairs, d \in Calls : Reporting(d, p) => Reporting(d, p)'
    BY <2>4 DEF Reporting
  <2>6. f.tripped /\ ~e.tripped => Reporting(c, pair[c])'
    BY <2>3, <2>4 DEF Reporting
  <2> SUFFICES ASSUME NEW p \in Pairs, entries'[p].tripped
               PROVE  p \in stalled' \/ \E d \in Calls : Reporting(d, p)'
    BY DEF OpenIsReported
  <2>7. CASE entries[p].tripped
    BY <2>4, <2>5, <2>7 DEF OpenIsReported
  <2>8. CASE ~entries[p].tripped
    <3>1. p = pair[c] /\ f.tripped
      BY <2>1, <2>4, <2>8
    <3> QED
      BY <2>4, <2>6, <2>8, <3>1 DEF Reporting
  <2> QED
    BY <2>7, <2>8
<1>9. ASSUME Tick \/ UNCHANGED vars
      PROVE  OpenIsReported'
  BY <1>9 DEF Tick, vars, OpenIsReported, Reporting, shared, local
<1>10. ASSUME Restart
       PROVE  OpenIsReported'
  BY <1>10, NoEntryType DEF Restart, NewBreaker, OpenIsReported
<1> QED
  BY <1>1, <1>2, <1>3, <1>4, <1>5, <1>6, <1>7, <1>8, <1>9, <1>10
  DEF Next, Handler, Unpublishing, Publishing

-----------------------------------------------------------------------------
(* The theorems. *)

\* Every step preserves the inductive invariant.
LEMMA IInvStep == IInv /\ [Next]_vars => IInv'
<1> SUFFICES ASSUME IInv, [Next]_vars PROVE IInv'
  OBVIOUS
<1>1. /\ TypeOK /\ CallsWellFormed /\ PairExclusive /\ EntryInv
      /\ PauseBounded /\ GaugeNotOrphaned /\ OpenIsReported
  BY DEF IInv, EntryInv
<1>2. TypeOK' /\ CallsWellFormed' /\ PairExclusive'
  BY <1>1, TypeStep, CallsStep
<1>3. EntryInv' /\ PauseBounded'
  BY <1>1, EntryStep, BoundStep
<1>4. GaugeNotOrphaned' /\ OpenIsReported'
  BY <1>1, GaugeStep, ReportStep
<1> QED
  BY <1>2, <1>3, <1>4 DEF IInv, EntryInv

\* The conjunction of all parts is an invariant of the handlers.
THEOREM InductiveInvariant == Spec => []IInv
  BY InitIInv, IInvStep, PTL DEF Spec

\* The variables of the handlers keep their types, a breaker entry's step
\* stays an index of BreakerSteps included.
THEOREM TypeCorrect == Spec => []TypeOK
<1>1. IInv => TypeOK
  BY DEF IInv
<1> QED
  BY <1>1, InductiveInvariant, PTL

\* InFlight.Insert and the deferred Delete keep two handlers of one pair apart.
THEOREM HandlersExclusive == Spec => []PairExclusive
<1>1. IInv => PairExclusive
  BY DEF IInv
<1> QED
  BY <1>1, InductiveInvariant, PTL

\* No handler runs cloud.DetachVolume while the breaker pauses its pair,
\* although Allow answered before other handlers took the breaker's lock.
THEOREM NoCommandWhilePaused == Spec => []PausedNeverCommands
<1>1. IInv => PausedNeverCommands
  BY DEF IInv, AttemptWasDue, PausedNeverCommands
<1> QED
  BY <1>1, InductiveInvariant, PTL

\* A retry is answered by a probe only while its pause is running, whatever
\* the other handlers evict or record meanwhile: an expired pause always
\* grants the real attempt (controller.go, ControllerUnpublishVolume).
THEOREM ExpiredPauseCommands == Spec => []ExpiryGrantsAttempt
<1>1. IInv => ExpiryGrantsAttempt
  BY ActivePair DEF IInv, TypeOK, BreakerEntry, RecordIsFresh, ExpiryGrantsAttempt
<1> QED
  BY <1>1, InductiveInvariant, PTL

\* breaker.go, Failure: the next attempt is at most the capped step away.
THEOREM PauseIsBounded == Spec => []PauseBounded
<1>1. IInv => PauseBounded
  BY DEF IInv
<1> QED
  BY <1>1, InductiveInvariant, PTL

\* No detach_pending_seconds series outlives the stall it was set for.
THEOREM NoOrphanedGauge == Spec => []GaugeNotOrphaned
<1>1. IInv => GaugeNotOrphaned
  BY DEF IInv
<1> QED
  BY <1>1, InductiveInvariant, PTL

\* onDetachFailed emits VolumeDetachStalled for every pair the breaker opens.
THEOREM StallIsReported == Spec => []OpenBreakerWasReported
<1>1. IInv => OpenBreakerWasReported
  BY DEF IInv, OpenIsReported, Reporting, OpenBreakerWasReported, Running, Active
<1> QED
  BY <1>1, InductiveInvariant, PTL

\* A pair that stays open gets its next due date at least one wait after the
\* previous one: probes and other handlers never move the schedule.
THEOREM BackoffSpacing == Spec => DueDatesSpaced
<1> DEFINE Spaced ==
      \A p \in Pairs :
        entries[p].tripped /\ entries'[p].tripped /\ entries'[p] # entries[p]
          => entries'[p].nextAttempt >= entries[p].nextAttempt + BreakerSteps[entries'[p].step]
<1>1. IInv /\ [Next]_vars => Spaced
  <2> SUFFICES ASSUME IInv, [Next]_vars, NEW p \in Pairs,
                      entries[p].tripped, entries'[p].tripped, entries'[p] # entries[p]
               PROVE  entries'[p].nextAttempt
                        >= entries[p].nextAttempt + BreakerSteps[entries'[p].step]
    OBVIOUS
  <2>1. TypeOK /\ CallsWellFormed /\ AttemptWasDue
    BY DEF IInv
  <2>2. PICK c \in Calls : /\ RecordFailure(c)
                           /\ pair[c] = p
                           /\ entries'[p] = Failure(entries[p], flag[c], now[c])
    BY <2>1, EntriesChange, NoEntryType
  <2>3. entries[p] \in BreakerEntry /\ flag[c] \in BOOLEAN /\ now[c] \in Nat
    BY <2>1 DEF TypeOK
  <2> DEFINE f == Failure(entries[p], flag[c], now[c])
  <2>4. f \in BreakerEntry /\ (f.tripped => f.nextAttempt = now[c] + BreakerSteps[f.step])
    BY <2>3, FailureFacts
  <2> HIDE DEF f
  <2>5. entries'[p] = f
    BY <2>2 DEF f
  <2>6. entries[p].nextAttempt <= now[c]
    BY <2>1, <2>2 DEF RecordFailure, AttemptWasDue
  <2>7. entries[p].nextAttempt \in Int /\ f.step \in 1..Len(BreakerSteps)
    BY <2>3, <2>4 DEF BreakerEntry
  <2>8. BreakerSteps[f.step] \in Nat
    BY <2>7, StepBounds
  <2> QED
    BY <2>3, <2>4, <2>5, <2>6, <2>7, <2>8
<1>2. IInv /\ [Next]_vars => [Spaced]_vars
  BY <1>1
<1> QED
  BY <1>2, InductiveInvariant, PTL DEF Spec, DueDatesSpaced
=============================================================================
