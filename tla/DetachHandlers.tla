--------------------------- MODULE DetachHandlers ---------------------------
(***************************************************************************)
(* ControllerPublishVolume and ControllerUnpublishVolume                   *)
(* (pkg/driver/controller.go) running concurrently over the state they     *)
(* share: the in-flight map, the detach breaker, the                       *)
(* detach_pending_seconds gauge and the events on the PersistentVolume.    *)
(*                                                                         *)
(* A call is a gRPC handler goroutine working on one (volume, node) pair,  *)
(* the key of the in-flight map and of the breaker.  Every acquisition of  *)
(* a lock is a step of its own, so calls interleave between any two.  The  *)
(* cloud calls are one step with every outcome they can have; module       *)
(* CloudVolume models what happens inside them.                            *)
(***************************************************************************)
EXTENDS Breaker

CONSTANTS
  Pairs,       \* (volumeID, nodeID)
  Calls,       \* handler goroutines that can run at the same time
  NoPair,      \* the pair of a call that runs no RPC
  MaxClock,    \* bound: the clock stops here
  RPCBudget,   \* bound: no handler outlives its gRPC deadline, this many ticks
  Crashes      \* whether the controller pod may restart

ASSUME PairAssumption == NoPair \notin Pairs
ASSUME BoundAssumption ==
  /\ MaxClock \in Nat
  /\ RPCBudget \in Nat
  /\ Crashes \in BOOLEAN
\* A handler (6 minutes) never outlives the first wait of the breaker plus
\* the age at which entries go stale (10 minutes + 4 hours).
ASSUME BudgetAssumption == RPCBudget <= 2 * CapStep

VARIABLES
  clock,
  inFlight,   \* InFlight: the pairs with a handler running
  entries,    \* Breaker: the entry of each pair
  gauge,      \* detach_pending_seconds: the pairs that have a series
  stalled,    \* pairs whose last event is VolumeDetachStalled
  pc,         \* where each call is
  pair,       \* the pair each call works on
  now,        \* the handler's "now"
  flag,       \* cls.Terminal, then tripped||stepped; or wasTripped
  evicted     \* EvictStale's result: the keys whose gauge is still to go

shared == <<inFlight, entries, gauge, stalled>>
local  == <<pair, now, flag, evicted>>
vars   == <<clock, inFlight, entries, gauge, stalled, pc, pair, now, flag, evicted>>

PublishPCs ==
  {"attach", "device", "attachEvict", "attachSweep", "attachSuccess", "attachClear"}

UnpublishPCs ==
  {"evict", "sweep", "allow", "probe", "detach", "failed", "since", "setGauge",
   "stallEvent", "done", "success", "clear"}

\* "return": the deferred inFlight.Delete is all that is left to do.
PCs == {"idle", "return"} \cup PublishPCs \cup UnpublishPCs

Active(c) == pc[c] # "idle"

Running(p) == \E c \in Calls : Active(c) /\ pair[c] = p

TypeOK ==
  /\ clock \in Nat
  /\ inFlight \in SUBSET Pairs
  /\ entries \in [Pairs -> BreakerEntry]
  /\ gauge \in SUBSET Pairs
  /\ stalled \in SUBSET Pairs
  /\ pc \in [Calls -> PCs]
  /\ pair \in [Calls -> Pairs \cup {NoPair}]
  /\ now \in [Calls -> Nat]
  /\ flag \in [Calls -> BOOLEAN]
  /\ evicted \in [Calls -> SUBSET Pairs]

Init ==
  /\ clock = 0
  /\ inFlight = {}
  /\ entries = NewBreaker(Pairs)
  /\ gauge = {}
  /\ stalled = {}
  /\ pc = [c \in Calls |-> "idle"]
  /\ pair = [c \in Calls |-> NoPair]
  /\ now = [c \in Calls |-> 0]
  /\ flag = [c \in Calls |-> FALSE]
  /\ evicted = [c \in Calls |-> {}]

-----------------------------------------------------------------------------
Goto(c, from, to) == pc[c] = from /\ pc' = [pc EXCEPT ![c] = to]

(***************************************************************************)
(* inFlight.Insert and the handler's first line.  A pair that is already   *)
(* in flight answers Aborted, which changes nothing.                       *)
(***************************************************************************)
\* Mutant: the check of the key is dropped.
InsertUnchecked(c, p, first) ==
  /\ Goto(c, "idle", first)
  /\ inFlight' = inFlight \cup {p}
  /\ pair' = [pair EXCEPT ![c] = p]
  /\ now' = [now EXCEPT ![c] = clock]
  /\ UNCHANGED <<clock, entries, gauge, stalled, flag, evicted>>

Insert(c, p, first) ==
  /\ p \notin inFlight
  /\ Goto(c, "idle", first)
  /\ inFlight' = inFlight \cup {p}
  /\ pair' = [pair EXCEPT ![c] = p]
  /\ now' = [now EXCEPT ![c] = clock]
  /\ UNCHANGED <<clock, entries, gauge, stalled, flag, evicted>>

ControllerPublishVolume(c, p) == Insert(c, p, "attach")

ControllerUnpublishVolume(c, p) == Insert(c, p, "evict")

\* The deferred inFlight.Delete, and the RPC's answer.
Return(c) ==
  /\ Goto(c, "return", "idle")
  /\ inFlight' = inFlight \ {pair[c]}
  /\ pair' = [pair EXCEPT ![c] = NoPair]
  /\ now' = [now EXCEPT ![c] = 0]
  /\ flag' = [flag EXCEPT ![c] = FALSE]
  /\ UNCHANGED <<clock, entries, gauge, stalled, evicted>>

(***************************************************************************)
(* evictStaleDetachState: EvictStale under the breaker's lock, then one    *)
(* DeleteGauge for each key it returned, with no lock around the two.      *)
(***************************************************************************)
Evict(c, from, sweep, next) ==
  LET stale == StaleKeys(entries, now[c])
  IN  /\ Goto(c, from, IF stale = {} THEN next ELSE sweep)
      /\ entries' = EvictStale(entries, now[c])
      /\ evicted' = [evicted EXCEPT ![c] = stale]
      /\ UNCHANGED <<clock, inFlight, gauge, stalled, pair, now, flag>>

SweepGauge(c, sweep, next) ==
  \E p \in evicted[c] :
    /\ Goto(c, sweep, IF evicted[c] = {p} THEN next ELSE sweep)
    /\ evicted' = [evicted EXCEPT ![c] = @ \ {p}]
    /\ gauge' = gauge \ {p}
    /\ UNCHANGED <<clock, inFlight, entries, stalled, pair, now, flag>>

-----------------------------------------------------------------------------
(* ControllerUnpublishVolume. *)

EvictOnUnpublish(c) == Evict(c, "evict", "sweep", "allow")

SweepOnUnpublish(c) == SweepGauge(c, "sweep", "allow")

\* detachBreaker.Allow, with the now the handler started with.
AllowStep(c) ==
  /\ pc[c] = "allow"
  /\ Goto(c, "allow", IF Allow(entries[pair[c]], now[c]) = "Full" THEN "detach" ELSE "probe")
  /\ UNCHANGED <<clock, shared, local>>

\* Mutant: a probe that finds the volume attached counts as a failed attempt.
ProbeCountsAsFailure(c) ==
  /\ Goto(c, "probe", "done") \/ Goto(c, "probe", "failed")
  /\ UNCHANGED <<clock, shared, local>>

\* cloud.IsDetachedFrom: detached, or still attached or unreadable.  The
\* latter two answer ErrDetachVolumePaused and leave the breaker alone.
Probe(c) ==
  /\ Goto(c, "probe", "done") \/ Goto(c, "probe", "return")
  /\ UNCHANGED <<clock, shared, local>>

\* cloud.DetachVolume: nil, or an error that Classify calls terminal or not.
DetachOK(c) ==
  /\ Goto(c, "detach", "done")
  /\ UNCHANGED <<clock, shared, local>>

DetachFails(c, terminal) ==
  /\ Goto(c, "detach", "failed")
  /\ flag' = [flag EXCEPT ![c] = terminal]
  /\ UNCHANGED <<clock, shared, pair, now, evicted>>

(* onDetachFailed: Failure, Since, SetGauge and the event are four steps. *)

RecordFailure(c) ==
  /\ pc[c] = "failed"
  /\ Goto(c, "failed", "since")
  /\ entries' = [entries EXCEPT ![pair[c]] = Failure(entries[pair[c]], flag[c], now[c])]
  /\ flag' = [flag EXCEPT ![c] = Escalates(entries[pair[c]], flag[c], now[c])]
  /\ UNCHANGED <<clock, inFlight, gauge, stalled, pair, now, evicted>>

ReadSince(c) ==
  /\ pc[c] = "since"
  /\ Goto(c, "since", IF entries[pair[c]].tripped THEN "setGauge" ELSE "stallEvent")
  /\ UNCHANGED <<clock, shared, local>>

SetGauge(c) ==
  /\ Goto(c, "setGauge", "stallEvent")
  /\ gauge' = gauge \cup {pair[c]}
  /\ UNCHANGED <<clock, inFlight, entries, stalled, local>>

\* VolumeDetachStalled, once per escalation.
EmitStalled(c) ==
  /\ Goto(c, "stallEvent", "return")
  /\ stalled' = IF flag[c] THEN stalled \cup {pair[c]} ELSE stalled
  /\ UNCHANGED <<clock, inFlight, entries, gauge, local>>

(* onDetachSucceeded: Since, Success, then DeleteGauge and the event. *)

ReadWasTripped(c) ==
  /\ pc[c] = "done"
  /\ Goto(c, "done", "success")
  /\ flag' = [flag EXCEPT ![c] = entries[pair[c]].tripped]
  /\ UNCHANGED <<clock, shared, pair, now, evicted>>

ClearEntry(c, from, to) ==
  /\ Goto(c, from, to)
  /\ entries' = Success(entries, pair[c])
  /\ UNCHANGED <<clock, inFlight, gauge, stalled, local>>

SuccessOnDetach(c) == ClearEntry(c, "success", "clear")

\* DeleteGauge is unconditional, VolumeDetachRecovered only if it was tripped.
ClearOnDetach(c) ==
  /\ Goto(c, "clear", "return")
  /\ gauge' = gauge \ {pair[c]}
  /\ stalled' = IF flag[c] THEN stalled \ {pair[c]} ELSE stalled
  /\ UNCHANGED <<clock, inFlight, entries, local>>

-----------------------------------------------------------------------------
(* ControllerPublishVolume. *)

\* cloud.AttachVolume: attached, or an error that is reported and returned.
Attach(c) ==
  /\ Goto(c, "attach", "device") \/ Goto(c, "attach", "return")
  /\ UNCHANGED <<clock, shared, local>>

\* GetDeviceDiskID may fail, and then the detach state stays as it is;
\* otherwise clearDetachStateOnAttach starts, with its own ltime.Now().
GetDevice(c) ==
  /\ \/ Goto(c, "device", "return")      /\ UNCHANGED now
     \/ Goto(c, "device", "attachEvict") /\ now' = [now EXCEPT ![c] = clock]
  /\ UNCHANGED <<clock, shared, pair, flag, evicted>>

EvictOnPublish(c) == Evict(c, "attachEvict", "attachSweep", "attachSuccess")

SweepOnPublish(c) == SweepGauge(c, "attachSweep", "attachSuccess")

SuccessOnAttach(c) == ClearEntry(c, "attachSuccess", "attachClear")

\* Mutant: the attach clears the breaker and forgets the gauge.
ClearOnAttachKeepsGauge(c) ==
  /\ Goto(c, "attachClear", "return")
  /\ UNCHANGED <<clock, shared, local>>

ClearOnAttach(c) ==
  /\ Goto(c, "attachClear", "return")
  /\ gauge' = gauge \ {pair[c]}
  /\ UNCHANGED <<clock, inFlight, entries, stalled, local>>

-----------------------------------------------------------------------------
(* The environment. *)

\* Time passes, but no handler outlives its deadline.
Tick ==
  /\ clock < MaxClock
  /\ \A c \in Calls : Active(c) => clock - now[c] < RPCBudget
  /\ clock' = clock + 1
  /\ UNCHANGED <<shared, pc, local>>

\* The controller process dies: what it kept in memory is lost, the events
\* it emitted are not.
Restart ==
  /\ Crashes
  /\ inFlight' = {}
  /\ entries' = NewBreaker(Pairs)
  /\ gauge' = {}
  /\ pc' = [c \in Calls |-> "idle"]
  /\ pair' = [c \in Calls |-> NoPair]
  /\ now' = [c \in Calls |-> 0]
  /\ flag' = [c \in Calls |-> FALSE]
  /\ evicted' = [c \in Calls |-> {}]
  /\ UNCHANGED <<clock, stalled>>

Unpublishing(c) ==
  \/ EvictOnUnpublish(c) \/ SweepOnUnpublish(c) \/ AllowStep(c) \/ Probe(c)
  \/ DetachOK(c) \/ (\E terminal \in BOOLEAN : DetachFails(c, terminal))
  \/ RecordFailure(c) \/ ReadSince(c) \/ SetGauge(c) \/ EmitStalled(c)
  \/ ReadWasTripped(c) \/ SuccessOnDetach(c) \/ ClearOnDetach(c)

Publishing(c) ==
  \/ Attach(c) \/ GetDevice(c) \/ EvictOnPublish(c) \/ SweepOnPublish(c)
  \/ SuccessOnAttach(c) \/ ClearOnAttach(c)

Handler(c) == Unpublishing(c) \/ Publishing(c) \/ Return(c)

Next ==
  \/ \E c \in Calls, p \in Pairs :
       ControllerPublishVolume(c, p) \/ ControllerUnpublishVolume(c, p)
  \/ \E c \in Calls : Handler(c)
  \/ Tick
  \/ Restart

Spec == Init /\ [][Next]_vars

-----------------------------------------------------------------------------
(* Properties. *)

\* The in-flight map holds exactly the pairs that have a handler running, and
\* no pair has two: "an attach and a detach for one pair cannot interleave"
\* (controller.go, clearDetachStateOnAttach).
PairExclusive ==
  /\ \A c, d \in Calls : c # d /\ Active(c) /\ Active(d) => pair[c] # pair[d]
  /\ \A p \in Pairs : p \in inFlight <=> Running(p)

\* While the breaker is open on a pair no real detach runs for it, whatever
\* other handlers do after Allow answered.
PausedNeverCommands ==
  \A c \in Calls : pc[c] = "detach" =>
    \/ ~entries[pair[c]].tripped
    \/ entries[pair[c]].nextAttempt <= now[c]

\* The breaker never gives up: the next real attempt of an open pair is never
\* further away than the capped step.
PauseBounded ==
  \A p \in Pairs : entries[p].tripped => entries[p].nextAttempt <= clock + CapStep

\* Two due dates of a pair that stays open are at least the new wait apart:
\* the backoff advances on real attempts only, never on a probe.
DueDatesSpaced ==
  [][\A p \in Pairs :
       entries[p].tripped /\ entries'[p].tripped /\ entries'[p] # entries[p]
         => entries'[p].nextAttempt >= entries[p].nextAttempt + BreakerSteps[entries'[p].step]
    ]_vars

\* A detach_pending_seconds series belongs to a pair the breaker is open on,
\* or somebody is about to delete it: no series is left behind to alert for
\* ever (controller.go, evictStaleDetachState).
GaugeNotOrphaned ==
  \A p \in gauge :
    \/ entries[p].tripped
    \/ \E c \in Calls : p \in evicted[c]
    \/ \E c \in Calls : pair[c] = p /\ pc[c] \in {"clear", "attachClear"}

\* A pair that is paused and at rest was reported: VolumeDetachStalled is the
\* last event emitted for it.
OpenBreakerWasReported ==
  \A p \in Pairs : entries[p].tripped /\ ~Running(p) => p \in stalled

\* The breaker never gives up: a retry is turned into a probe only while the
\* due date is ahead of it, also when other handlers change the breaker
\* between Allow and the probe ("every step expiry grants one more real
\* attempt", breaker.go).
ExpiryGrantsAttempt ==
  \A c \in Calls : pc[c] = "probe" =>
    entries[pair[c]].tripped /\ now[c] < entries[pair[c]].nextAttempt
=============================================================================
