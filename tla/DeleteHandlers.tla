--------------------------- MODULE DeleteHandlers ---------------------------
(***************************************************************************)
(* The DeleteVolume handler (pkg/driver/controller.go) running for several *)
(* volumes at once over the in-flight map, the delete breaker, the         *)
(* delete_pending_seconds gauge and the events on the PersistentVolume,    *)
(* while vServer and the users change the volumes and their snapshots.     *)
(*                                                                         *)
(* The breaker is the one of module Breaker with the volume as its key.    *)
(* Unlike the detach path, an open breaker lets a call through when its    *)
(* probe finds the volume deletable.  cloud.DeleteVolume is one step with  *)
(* every outcome (see CloudVolume for what happens inside); its errors and *)
(* what Classify makes of them are those of module ErrorClass.             *)
(***************************************************************************)
EXTENDS Breaker, ErrorClass

CONSTANTS
  Volumes,
  Calls,       \* handler goroutines that can run at the same time
  NoVolume,    \* the volume of a call that runs no RPC
  MaxClock,    \* bound: the clock stops here
  RPCBudget,   \* bound: no handler outlives its gRPC deadline, this many ticks
  MaxFaults    \* bound: IaaS calls that fail for no reason of the volume

ASSUME DeleteAssumption ==
  /\ NoVolume \notin Volumes
  /\ MaxClock \in Nat /\ RPCBudget \in Nat /\ MaxFaults \in Nat

VARIABLES
  clock,
  inFlight,   \* InFlight: the volumes with a DeleteVolume running
  entries,    \* deleteBreaker: the entry of each volume
  gauge,      \* delete_pending_seconds: the volumes that have a series
  event,      \* the last event on each PersistentVolume
  state,      \* each volume at vServer, as the two CanDelete tell it apart
  snapped,    \* the volumes that have a snapshot
  resolved,   \* projectClientCache: the portal lookup answered once, and is not made again
  grave,      \* history: the volumes whose entry counts a failure only a human can heal
  pc,
  call,       \* the locals of each handler
  faults

shared == <<inFlight, entries, gauge, event, grave>>
world  == <<clock, state, snapped, resolved, faults>>
vars   == <<clock, inFlight, entries, gauge, event, grave, state, snapped, resolved, pc, call, faults>>

\* attached: held by an instance.  parked: on no instance, which is enough
\* for the probe's CanDelete (entity/volume.go), but in a status the SDK's
\* CanDelete, which cloud.DeleteVolume waits for, does not accept.
VolumeStates == {"attached", "parked", "deletable", "gone"}

\* What the probe takes for deletable, and what cloud.DeleteVolume does.
ProbeAccepts(v) == state[v] # "attached"

DeleteAccepts(v) == state[v] \in {"deletable", "gone"}

\* Histories of a call.  saw, bare: the volume was on no instance, or had no
\* snapshot, at some time during the call.  astray: the portal answered the
\* probe 404, about the driver's project.  grave: the call failed for a cause
\* that needs a human.
NoCall ==
  [vol |-> NoVolume, now |-> 0, terminal |-> FALSE, first |-> FALSE, loud |-> FALSE,
   evicted |-> {}, saw |-> FALSE, bare |-> FALSE, astray |-> FALSE, grave |-> FALSE]

CallRecord ==
  [vol : Volumes \cup {NoVolume}, now : Nat, terminal : BOOLEAN, first : BOOLEAN,
   loud : BOOLEAN, evicted : SUBSET Volumes, saw : BOOLEAN, bare : BOOLEAN, astray : BOOLEAN,
   grave : BOOLEAN]

PCs ==
  {"idle", "evict", "sweep", "allow", "probe", "list", "delete", "tracked", "failed", "since",
   "setGauge", "event", "done", "success", "clear", "return"}

\* Before the delete is issued.
Deciding == {"evict", "sweep", "allow", "probe", "list", "delete"}

Vol(c) == call[c].vol

Entry(c) == entries[Vol(c)]

TypeOK ==
  /\ clock \in 0..MaxClock
  /\ inFlight \in SUBSET Volumes
  /\ entries \in [Volumes -> BreakerEntry]
  /\ gauge \in SUBSET Volumes
  /\ event \in [Volumes -> {"none", "Failed", "VolumeDeleteStalled", "VolumeDeleteRecovered"}]
  /\ grave \in SUBSET Volumes
  /\ state \in [Volumes -> VolumeStates]
  /\ snapped \in SUBSET Volumes
  /\ resolved \in BOOLEAN
  /\ pc \in [Calls -> PCs]
  /\ call \in [Calls -> CallRecord]
  /\ faults \in 0..MaxFaults

Init ==
  /\ clock = 0
  /\ inFlight = {}
  /\ entries = NewBreaker(Volumes)
  /\ gauge = {}
  /\ event = [v \in Volumes |-> "none"]
  /\ grave = {}
  /\ state = [v \in Volumes |-> "attached"]
  /\ snapped = {}
  /\ resolved = FALSE
  /\ pc = [c \in Calls |-> "idle"]
  /\ call = [c \in Calls |-> NoCall]
  /\ faults = 0

-----------------------------------------------------------------------------
Goto(c, from, to) == pc[c] = from /\ pc' = [pc EXCEPT ![c] = to]

Fault == faults < MaxFaults /\ faults' = faults + 1

(* projectClient, with which every call on the cloud begins. *)

Resolved == resolved' = TRUE

\* A failure of the lookup is not cached.
Unresolved == ~resolved /\ Fault /\ UNCHANGED resolved

\* inFlight.Insert, and the handler's now.
DeleteVolume(c, v) ==
  /\ v \notin inFlight
  /\ Goto(c, "idle", "evict")
  /\ inFlight' = inFlight \cup {v}
  /\ call' = [call EXCEPT ![c] = [NoCall EXCEPT !.vol = v, !.now = clock,
                                    !.saw = ProbeAccepts(v), !.bare = v \notin snapped]]
  /\ UNCHANGED <<world, entries, gauge, event, grave>>

Return(c) ==
  /\ Goto(c, "return", "idle")
  /\ inFlight' = inFlight \ {Vol(c)}
  /\ call' = [call EXCEPT ![c] = NoCall]
  /\ UNCHANGED <<world, entries, gauge, event, grave>>

\* EvictStale under the breaker's lock, then one DeleteGauge for each key.
evictStaleDeleteState(c) ==
  /\ pc[c] = "evict"
  /\ LET stale == StaleKeys(entries, call[c].now)
     IN  /\ Goto(c, "evict", IF stale = {} THEN "allow" ELSE "sweep")
         /\ entries' = EvictStale(entries, call[c].now)
         /\ grave' = grave \ stale
         /\ call' = [call EXCEPT ![c].evicted = stale]
  /\ UNCHANGED <<world, inFlight, gauge, event>>

SweepGauge(c) ==
  \E v \in call[c].evicted :
    /\ Goto(c, "sweep", IF call[c].evicted = {v} THEN "allow" ELSE "sweep")
    /\ call' = [call EXCEPT ![c].evicted = @ \ {v}]
    /\ gauge' = gauge \ {v}
    /\ UNCHANGED <<world, inFlight, entries, event, grave>>

AllowStep(c) ==
  /\ pc[c] = "allow"
  /\ Goto(c, "allow", IF Allow(Entry(c), call[c].now) = "Full" THEN "list" ELSE "probe")
  /\ UNCHANGED <<world, shared, call>>

\* Mutants: an unreadable volume is let through, or a deletable one is not.
probeLetsErrorsThrough(c) ==
  /\ pc[c] = "probe"
  /\ \/ Goto(c, "probe", IF ProbeAccepts(Vol(c)) THEN "list" ELSE "return") /\ UNCHANGED faults
     \/ Goto(c, "probe", "list") /\ Fault
  /\ Resolved
  /\ UNCHANGED <<clock, state, snapped, shared, call>>

probeAlwaysPauses(c) ==
  /\ Goto(c, "probe", "return")
  /\ UNCHANGED <<world, shared, call>>

IsMissing(err) == Classify(err).reason = "IaaSResourceNotFound"

\* An unreadable volume is paused unless the class of the error is that of a
\* missing resource: the volume is gone, or it is the project that the portal
\* did not find.
Unreadable(c, err) == Goto(c, "probe", IF IsMissing(err) THEN "list" ELSE "return")

probeVolumeDeletable(c) ==
  /\ pc[c] = "probe"
  /\ \/ /\ Resolved /\ UNCHANGED call
        /\ \/ /\ state[Vol(c)] # "gone"
              /\ Goto(c, "probe", IF ProbeAccepts(Vol(c)) THEN "list" ELSE "return")
              /\ UNCHANGED faults
           \/ /\ state[Vol(c)] = "gone"
              /\ \E e \in SdkErrors("missing") : Unreadable(c, e)
              /\ UNCHANGED faults
           \/ /\ \E cause \in Causes \ {"missing"} : \E e \in SdkErrors(cause) : Unreadable(c, e)
              /\ Fault
     \/ /\ Unresolved
        /\ \E cause \in Causes : \E e \in SdkErrors(cause) :
             /\ Unreadable(c, errProjectUnresolved(e))
             /\ call' = [call EXCEPT ![c].astray = (cause = "missing")]
  /\ UNCHANGED <<clock, state, snapped, shared>>

\* A failed attempt: its cause and the error the handler got for it.  saw,
\* bare and astray have served.
Fails(c, cause, err) ==
  call' = [call EXCEPT ![c].terminal = Classify(err).terminal, ![c].grave = cause \in NeedsHuman,
                       ![c].saw = FALSE, ![c].bare = FALSE, ![c].astray = FALSE]

\* The SDK errors a call on v can meet that say nothing about the volume.
Reasons(v) == IF state[v] = "gone" THEN Causes ELSE Causes \ {"missing"}

\* Mutant: a failed listing is taken for an empty one.
ListSnapshotsIgnoresErrors(c) ==
  /\ pc[c] = "list"
  /\ \/ Goto(c, "list", IF Vol(c) \in snapped THEN "return" ELSE "delete") /\ UNCHANGED faults
     \/ Goto(c, "list", "delete") /\ Fault
  /\ Resolved
  /\ UNCHANGED <<clock, state, snapped, shared, call>>

\* The lookup of the project fails, for whatever cause.
LookupFails(c) ==
  /\ Unresolved
  /\ \E cause \in Causes : \E e \in SdkErrors(cause) : Fails(c, cause, errProjectUnresolved(e))

\* A volume with snapshots answers an error that is no failure of the breaker.
ListSnapshots(c) ==
  /\ pc[c] = "list"
  /\ \/ /\ Goto(c, "list", IF Vol(c) \in snapped THEN "return" ELSE "delete")
        /\ Resolved
        /\ UNCHANGED <<faults, call>>
     \/ /\ Goto(c, "list", "tracked")
        /\ \/ LookupFails(c)
           \/ /\ Resolved /\ Fault
              /\ \E cause \in Reasons(Vol(c)) : \E e \in SdkErrors(cause) : Fails(c, cause, e)
  /\ UNCHANGED <<clock, state, snapped, shared>>

\* The read or the delete fails.  VolumeNotFound is the one error that is a
\* success; a 404 without that code is not.
DeleteFails(c) ==
  \E cause \in Reasons(Vol(c)) : \E e \in SdkErrors(cause) :
    /\ e.code # "VolumeNotFound"
    /\ Fails(c, cause, ErrVolumeFailedToGet(e)) \/ Fails(c, cause, ErrVolumeFailedToDelete(e))

\* vServer carried the delete out and its answer was lost.
AnswerLost(c) ==
  \E cause \in {"unreachable", "serverError"} : \E e \in SdkErrors(cause) :
    Fails(c, cause, ErrVolumeFailedToDelete(e))

Gone(c) == DeleteAccepts(Vol(c)) /\ state' = [state EXCEPT ![Vol(c)] = "gone"]

\* cloud.DeleteVolume: deleted now or before, never became deletable in time,
\* or failed, perhaps after vServer carried it out.
CloudDelete(c) ==
  /\ pc[c] = "delete"
  /\ \/ /\ Goto(c, "delete", "done")
        /\ Resolved /\ UNCHANGED faults
        /\ Gone(c)
        /\ call' = [call EXCEPT ![c].saw = FALSE, ![c].bare = FALSE, ![c].astray = FALSE]
     \/ /\ Goto(c, "delete", "tracked")
        /\ \/ LookupFails(c) /\ UNCHANGED state
           \/ /\ Resolved
              /\ \/ /\ ~DeleteAccepts(Vol(c))
                    /\ Fails(c, "busy", WaitFailedToDelete)
                    /\ UNCHANGED <<state, faults>>
                 \/ Fault /\ DeleteFails(c) /\ UNCHANGED state
                 \/ Fault /\ AnswerLost(c) /\ Gone(c)
  /\ UNCHANGED <<clock, snapped, shared>>

(* onDeleteFailed: Since, Failure, Since, SetGauge and the event. *)

ReadTracked(c) ==
  /\ pc[c] = "tracked"
  /\ Goto(c, "tracked", "failed")
  /\ call' = [call EXCEPT ![c].first = ~Tracked(Entry(c))]
  /\ UNCHANGED <<world, shared>>

RecordFailure(c) ==
  /\ pc[c] = "failed"
  /\ Goto(c, "failed", "since")
  /\ entries' = [entries EXCEPT ![Vol(c)] = Failure(Entry(c), call[c].terminal, call[c].now)]
  /\ grave' = IF call[c].grave THEN grave \cup {Vol(c)} ELSE grave
  /\ call' = [call EXCEPT ![c].loud = Escalates(Entry(c), call[c].terminal, call[c].now),
                         ![c].terminal = FALSE, ![c].grave = FALSE]
  /\ UNCHANGED <<world, inFlight, gauge, event>>

ReadSince(c) ==
  /\ pc[c] = "since"
  /\ Goto(c, "since", IF Entry(c).tripped THEN "setGauge" ELSE "event")
  /\ UNCHANGED <<world, shared, call>>

SetGauge(c) ==
  /\ Goto(c, "setGauge", "event")
  /\ gauge' = gauge \cup {Vol(c)}
  /\ UNCHANGED <<world, inFlight, entries, event, grave, call>>

\* The first failure says why, and nothing else; an escalation says that the
\* calls are paused; a retry in between says nothing.
EmitFailure(c) ==
  /\ Goto(c, "event", "return")
  /\ event' = CASE call[c].first -> [event EXCEPT ![Vol(c)] = "Failed"]
                [] ~call[c].first /\ call[c].loud -> [event EXCEPT ![Vol(c)] = "VolumeDeleteStalled"]
                [] OTHER -> event
  /\ UNCHANGED <<world, inFlight, entries, gauge, grave, call>>

(* onDeleteSucceeded: Since, Success, DeleteGauge and the event. *)

ReadWasTripped(c) ==
  /\ pc[c] = "done"
  /\ Goto(c, "done", "success")
  /\ call' = [call EXCEPT ![c].loud = Entry(c).tripped]
  /\ UNCHANGED <<world, shared>>

ClearEntry(c) ==
  /\ Goto(c, "success", "clear")
  /\ entries' = Success(entries, Vol(c))
  /\ grave' = grave \ {Vol(c)}
  /\ UNCHANGED <<world, inFlight, gauge, event, call>>

ClearGauge(c) ==
  /\ Goto(c, "clear", "return")
  /\ gauge' = gauge \ {Vol(c)}
  /\ event' = IF call[c].loud THEN [event EXCEPT ![Vol(c)] = "VolumeDeleteRecovered"] ELSE event
  /\ UNCHANGED <<world, inFlight, entries, grave, call>>

-----------------------------------------------------------------------------
(* The environment. *)

Tick ==
  /\ clock < MaxClock
  /\ \A c \in Calls : pc[c] # "idle" => clock - call[c].now < RPCBudget
  /\ clock' = clock + 1
  /\ UNCHANGED <<shared, state, snapped, resolved, pc, call, faults>>

\* Another RPC's call on the cloud resolves the project.
ResolveProject ==
  /\ ~resolved
  /\ Resolved
  /\ UNCHANGED <<clock, shared, state, snapped, pc, call, faults>>

\* What a running call could have seen of a volume that changed.
Witness ==
  call' = [c \in Calls |->
             IF pc[c] \notin Deciding THEN call[c]
             ELSE [call[c] EXCEPT !.saw = @ \/ state'[Vol(c)] # "attached",
                                  !.bare = @ \/ Vol(c) \notin snapped']]

\* vServer releases a volume, or something holds it again.
Release(v) ==
  /\ \/ state[v] = "attached" /\ state' = [state EXCEPT ![v] = "parked"]
     \/ state[v] = "parked"   /\ state' = [state EXCEPT ![v] = "deletable"]
  /\ UNCHANGED <<clock, snapped, resolved, pc, faults, shared>>
  /\ Witness

Hold(v) ==
  /\ state[v] \in {"parked", "deletable"}
  /\ Fault
  /\ state' = [state EXCEPT ![v] = "attached"]
  /\ UNCHANGED <<clock, snapped, resolved, pc, shared>>
  /\ Witness

\* CreateSnapshot and DeleteSnapshot take other in-flight keys.
DropSnapshot(v) ==
  /\ v \in snapped
  /\ snapped' = snapped \ {v}
  /\ UNCHANGED <<clock, state, resolved, pc, faults, shared>>
  /\ Witness

TakeSnapshot(v) ==
  /\ v \notin snapped /\ state[v] # "gone"
  /\ Fault
  /\ snapped' = snapped \cup {v}
  /\ UNCHANGED <<clock, state, resolved, pc, shared>>
  /\ Witness

Handler(c) ==
  \/ evictStaleDeleteState(c) \/ SweepGauge(c) \/ AllowStep(c) \/ probeVolumeDeletable(c)
  \/ ListSnapshots(c) \/ CloudDelete(c) \/ ReadTracked(c) \/ RecordFailure(c) \/ ReadSince(c)
  \/ SetGauge(c) \/ EmitFailure(c) \/ ReadWasTripped(c) \/ ClearEntry(c) \/ ClearGauge(c)
  \/ Return(c)

Next ==
  \/ \E c \in Calls, v \in Volumes : DeleteVolume(c, v)
  \/ \E c \in Calls : Handler(c)
  \/ \E v \in Volumes : Release(v) \/ Hold(v) \/ DropSnapshot(v) \/ TakeSnapshot(v)
  \/ Tick \/ ResolveProject

Spec == Init /\ [][Next]_vars

\* Handlers run on; csi-provisioner retries a delete until it succeeds.
\* Nothing is assumed of the clock: the pause need not run out.
Fairness ==
  /\ \A c \in Calls : WF_vars(Handler(c))
  /\ \A v \in Volumes : SF_vars(\E c \in Calls : DeleteVolume(c, v))

FairSpec == Spec /\ Fairness

-----------------------------------------------------------------------------
(* Properties. *)

\* While the breaker is open on a volume a real attempt is made only in a
\* call during which the volume was on no instance, or whose probe the portal
\* answered 404: no other error with which the probe could not read the volume
\* lets a delete through (controller.go, DeleteVolume and probeVolumeDeletable).
PauseIsOverruledByProbeOnly ==
  \A c \in Calls : pc[c] \in {"list", "delete"} =>
    \/ ~Entry(c).tripped
    \/ Entry(c).nextAttempt <= call[c].now
    \/ call[c].saw
    \/ call[c].astray

\* The probe that lets a call through.
Overrules(c) == pc[c] = "probe" /\ pc'[c] = "list"

\* "The state the breaker was waiting for is the state the probe just read"
\* (controller.go:389-390), which is the one waitVolumeDeletable polls for.  A
\* volume that is parked refutes it: the probe asks another CanDelete.
ProbeReadsAwaitedState ==
  [][\A c \in Calls : Overrules(c) /\ ~call'[c].astray => DeleteAccepts(Vol(c))]_vars

\* No delete is issued for a volume that had a snapshot during the whole
\* call, whatever ListSnapshots answered.
SnapshotsProtect == \A c \in Calls : pc[c] = "delete" => call[c].bare

\* SnapshotsProtect, of variables that keep their types.
DeleteInv == TypeOK /\ SnapshotsProtect

\* The deletes of a volume are paused before BreakerTripAfter of them failed
\* if, and only if, one of them failed for a cause that only a human can
\* remove, however the SDK and the driver's wrappers coded it: "labelling a
\* transient error terminal is the more expensive mistake" (errclass.go), and
\* a missing permission is not to be hammered at.
PauseFollowsCause ==
  \A v \in Volumes :
    /\ v \in grave => entries[v].tripped
    /\ entries[v].tripped /\ entries[v].failures < BreakerTripAfter => v \in grave

\* A volume that vServer released and that keeps no snapshot is deleted even
\* if the pause never runs out: the probe lets the retry through instead of
\* "making the volume wait out the rest of the backoff step" (controller.go).
ReleasedIsDeleted ==
  \A v \in Volumes :
    <>[](DeleteAccepts(v) /\ v \notin snapped) => <>(state[v] = "gone")
=============================================================================
