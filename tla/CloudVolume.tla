---------------------------- MODULE CloudVolume ----------------------------
(***************************************************************************)
(* AttachVolume, DetachVolume, IsDetachedFrom and DeleteVolume             *)
(* (pkg/cloud/cloud.go) on one volume: read the state, issue the command   *)
(* once, poll until the goal, with the volume changing under them.         *)
(*                                                                         *)
(* A call is named by its in-flight key: the node of an attach or a detach *)
(* (one at a time, see DetachHandlers), or DeleteKey.  The calls on        *)
(* different keys interleave.  A node's VolumeAttachment says which of the *)
(* two its call is; external-attacher retries until the call answers OK.   *)
(***************************************************************************)
EXTENDS VServer, Naturals

CONSTANTS
  DeleteKey,   \* the key of DeleteVolume, the volume's id
  MaxFaults    \* bound: failed calls, failed operations and interventions

ASSUME CloudAssumption == DeleteKey \notin Nodes /\ MaxFaults \in Nat

Keys == Nodes \cup {DeleteKey}

VARIABLES
  vol,      \* the volume at vServer
  va,       \* the VolumeAttachment of each node: none, attach or detach
  pc,       \* where the call on each key is
  reached,  \* history: the goal of the call held at some time during it
  queued,   \* history: a detach from the node was running during the call
  spent,    \* history: a command of the call moved the volume
  faults

vars == <<vol, va, pc, reached, queued, spent, faults>>

DeletePCs == {"idle", "read", "wait", "command", "ok", "err"}

PCs == DeletePCs \cup {"busy", "again", "probe"}

Goal(k, v) ==
  IF k = DeleteKey THEN v.status \in {"DELETING", "GONE"}
  ELSE IF va[k] = "attach" THEN FullyAttached(v, k) ELSE isDetachedFrom(v, k) \/ ~v.up

DetachRuns(k, v) == v.status = "DETACHING" /\ v.vm = k

TypeOK ==
  /\ vol \in VolumeState
  /\ vol.status \in {"AVAILABLE", "DELETING", "GONE"} => vol.vm = NoNode
  /\ va \in [Nodes -> {"none", "attach", "detach"}]
  /\ pc \in [Keys -> PCs] /\ pc[DeleteKey] \in DeletePCs
  /\ reached \in [Keys -> BOOLEAN]
  /\ queued \in [Keys -> BOOLEAN]
  /\ spent \in [Keys -> BOOLEAN]
  /\ faults \in 0..MaxFaults

Init ==
  /\ vol = Available
  /\ va = [n \in Nodes |-> "none"]
  /\ pc = [k \in Keys |-> "idle"]
  /\ reached = [k \in Keys |-> FALSE]
  /\ queued = [k \in Keys |-> FALSE]
  /\ spent = [k \in Keys |-> FALSE]
  /\ faults = 0

-----------------------------------------------------------------------------
Fault == faults < MaxFaults /\ faults' = faults + 1

\* The histories follow the volume while a call runs.
Observe ==
  /\ reached' = [k \in Keys |-> pc'[k] # "idle" /\ (reached[k] \/ Goal(k, vol) \/ Goal(k, vol'))]
  /\ queued' = [k \in Keys |-> pc'[k] # "idle" /\
                  (queued[k] \/ DetachRuns(k, vol) \/ DetachRuns(k, vol'))]

\* One step of the call on k that leaves the volume alone.
Move(k, from, to) ==
  /\ pc[k] = from
  /\ pc' = [pc EXCEPT ![k] = to]
  /\ UNCHANGED <<vol, va, spent, faults>>
  /\ Observe

\* A read that fails (429, 5xx) where the code gives up on it.
ReadFails(k, from) ==
  /\ pc[k] = from
  /\ Fault
  /\ pc' = [pc EXCEPT ![k] = "err"]
  /\ UNCHANGED <<vol, va, spent>>
  /\ Observe

\* One command: the answer takes the call on through next.
Command(k, from, reply, next(_)) ==
  /\ pc[k] = from
  /\ \E r \in {reply} \cup Failing(vol, reply) :
       /\ IF r = reply THEN UNCHANGED faults ELSE Fault
       /\ vol' = r.vol
       /\ spent' = [spent EXCEPT ![k] = @ \/ r.vol # vol]
       /\ pc' = [pc EXCEPT ![k] = next(r.code)]
  /\ UNCHANGED va
  /\ Observe

Attaching(n) == va[n] = "attach"

Detaching(n) == va[n] = "detach"

-----------------------------------------------------------------------------
(* AttachVolume. *)

\* Mutant: VmId alone takes the fast path.
AttachReadByVm(n) ==
  /\ Attaching(n)
  /\ Move(n, "read",
       IF ~Exists(vol) \/ IsError(vol) THEN "err"
       ELSE IF AttachedTheInstance(vol, n) THEN "ok"
       ELSE "command")

\* getVolumeForAttach, the fast path, and the wait for an attach in flight.
AttachRead(n) ==
  /\ Attaching(n)
  /\ Move(n, "read",
       IF ~Exists(vol) \/ IsError(vol) THEN "err"
       ELSE IF FullyAttached(vol, n) THEN "ok"
       ELSE IF AttachedTheInstance(vol, n) THEN "wait"
       ELSE "command")

AfterAttach(code) ==
  CASE code \in {"OK", "AlreadyAttachedThisServer"} -> "wait"
    [] code = "InProcess"                          -> "busy"
    [] OTHER                                       -> "err"

AttachCommand(n) ==
  Attaching(n) /\ Command(n, "command", AttachBlockVolume(vol, n), AfterAttach)

\* waitVolumeAttachable, then the attach is done or issued once more.
AttachBusyWait(n) ==
  /\ Attaching(n)
  /\ IF ~Exists(vol) THEN Move(n, "busy", "err")
     ELSE IF volumeAttachable(vol, n)
          THEN Move(n, "busy", IF AttachedTheInstance(vol, n) THEN "ok" ELSE "again")
     ELSE IsError(vol) /\ Move(n, "busy", "err")

AfterAttachAgain(code) ==
  IF code \in {"OK", "AlreadyAttachedThisServer"} THEN "wait" ELSE "err"

AttachAgain(n) ==
  Attaching(n) /\ Command(n, "again", AttachBlockVolume(vol, n), AfterAttachAgain)

waitDiskAttached(n) ==
  /\ Attaching(n)
  /\ \/ ~Exists(vol) /\ Move(n, "wait", "err")
     \/ Exists(vol) /\ FullyAttached(vol, n) /\ Move(n, "wait", "ok")
     \/ IsError(vol) /\ Move(n, "wait", "err")

-----------------------------------------------------------------------------
(* DetachVolume. *)

\* Mutant: a volume that is gone is an error, as for an attach.
DetachReadFailsOnGone(n) ==
  /\ Detaching(n)
  /\ Move(n, "read",
       IF ~Exists(vol) THEN "err"
       ELSE IF isDetachedFrom(vol, n) THEN "ok"
       ELSE IF IsError(vol) THEN "err"
       ELSE "command")

DetachRead(n) ==
  /\ Detaching(n)
  /\ Move(n, "read",
       IF ~Exists(vol) \/ isDetachedFrom(vol, n) THEN "ok"
       ELSE IF IsError(vol) THEN "err"
       ELSE "command")

\* Mutant: a busy volume is polled.
AfterDetachPollsBusy(code) ==
  CASE code \in {"NotFound", "Available", "ServerNotFound"} -> "ok"
    [] code \in {"OK", "InProcess", "IsMigrating"}          -> "wait"
    [] OTHER                                                -> "err"

\* Mutant: an instance that is gone fails the detach.
AfterDetachNeedsServer(code) ==
  CASE code \in {"NotFound", "Available"} -> "ok"
    [] code = "OK"                        -> "wait"
    [] OTHER                              -> "err"

\* errSetDetachDone answers success, errSetDetachRetryable goes back to the CO.
AfterDetach(code) ==
  CASE code \in {"NotFound", "Available", "ServerNotFound"} -> "ok"
    [] code = "OK"                                          -> "wait"
    [] OTHER                                                -> "err"

DetachCommand(n) ==
  Detaching(n) /\ Command(n, "command", DetachBlockVolume(vol, n), AfterDetach)

waitVolumeDetached(n) ==
  /\ Detaching(n)
  /\ \/ (~Exists(vol) \/ isDetachedFrom(vol, n)) /\ Move(n, "wait", "ok")
     \/ Exists(vol) /\ ~isDetachedFrom(vol, n) /\ IsError(vol) /\ Move(n, "wait", "err")

\* The breaker's probe: one read, no command.
IsDetachedFrom(n) ==
  /\ Detaching(n)
  /\ Move(n, "probe", IF ~Exists(vol) \/ isDetachedFrom(vol, n) THEN "ok" ELSE "err")

-----------------------------------------------------------------------------
(* DeleteVolume. *)

DeleteRead ==
  Move(DeleteKey, "read",
    IF ~Exists(vol) THEN "ok" ELSE IF CanDelete(vol) THEN "command" ELSE "wait")

\* A volume that disappears ends the wait, and the delete finds it missing.
waitVolumeDeletable ==
  (~Exists(vol) \/ CanDelete(vol)) /\ Move(DeleteKey, "wait", "command")

\* Mutant: a busy volume is waited for, as an attach does.
AfterDeleteBusy(code) ==
  IF code \in {"OK", "NotFound"} THEN "ok" ELSE IF code = "InProcess" THEN "busy" ELSE "err"

AfterDelete(code) == IF code \in {"OK", "NotFound"} THEN "ok" ELSE "err"

DeleteCommand ==
  Command(DeleteKey, "command", DeleteBlockVolumeById(vol), AfterDelete)

-----------------------------------------------------------------------------
(* The context, the container orchestrator and vServer. *)

\* The ctx, or the budget of waitVolumeAttachable, ends a wait.
WaitEnds(k) == Move(k, "wait", "err") \/ Move(k, "busy", "err")

Start(k, from) ==
  /\ pc[k] = "idle"
  /\ pc' = [pc EXCEPT ![k] = from]

ControllerPublishVolume(n) ==
  Attaching(n) /\ Start(n, "read") /\ UNCHANGED <<vol, va, spent, faults>> /\ Observe

ControllerUnpublishVolume(n) ==
  Detaching(n) /\ Start(n, "read") /\ UNCHANGED <<vol, va, spent, faults>> /\ Observe

UnpublishPaused(n) ==
  Detaching(n) /\ Start(n, "probe") /\ Fault /\ UNCHANGED <<vol, va, spent>> /\ Observe

CallDeleteVolume == Start(DeleteKey, "read") /\ UNCHANGED <<vol, va, spent, faults>> /\ Observe

\* The answer: a successful unpublish removes the VolumeAttachment.
Answer(k) ==
  /\ pc[k] \in {"ok", "err"}
  /\ pc' = [pc EXCEPT ![k] = "idle"]
  /\ va' = [n \in Nodes |-> IF n = k /\ pc[k] = "ok" /\ Detaching(n) THEN "none" ELSE va[n]]
  /\ reached' = [reached EXCEPT ![k] = FALSE]
  /\ queued' = [queued EXCEPT ![k] = FALSE]
  /\ spent' = [spent EXCEPT ![k] = FALSE]
  /\ UNCHANGED <<vol, faults>>

\* A pod arrives on a node, or leaves it, while no call for the node runs.
Schedule(n) ==
  /\ pc[n] = "idle"
  /\ \/ va[n] = "none"   /\ va' = [va EXCEPT ![n] = "attach"]
     \/ va[n] = "attach" /\ va' = [va EXCEPT ![n] = "detach"]
  /\ UNCHANGED <<vol, pc, reached, queued, spent, faults>>

VolumeSettles ==
  /\ vol' \in Settle(vol)
  /\ UNCHANGED <<va, pc, spent, faults>>
  /\ Observe

VolumeDisturbed ==
  /\ vol' \in Disturb(vol)
  /\ Fault
  /\ UNCHANGED <<va, pc, spent>>
  /\ Observe

AttachVolume(n) ==
  \/ AttachRead(n) \/ AttachCommand(n) \/ AttachBusyWait(n) \/ AttachAgain(n)
  \/ waitDiskAttached(n)

DetachVolume(n) == DetachRead(n) \/ DetachCommand(n) \/ waitVolumeDetached(n)

DeleteVolume == DeleteRead \/ waitVolumeDeletable \/ DeleteCommand

Run(k) ==
  \/ k \in Nodes /\ (AttachVolume(k) \/ DetachVolume(k) \/ IsDetachedFrom(k))
  \/ k = DeleteKey /\ DeleteVolume
  \/ ReadFails(k, "read") \/ ReadFails(k, "probe")
  \/ WaitEnds(k)
  \/ Answer(k)

Next ==
  \/ \E k \in Keys : Run(k)
  \/ \E n \in Nodes :
       ControllerPublishVolume(n) \/ ControllerUnpublishVolume(n) \/ UnpublishPaused(n) \/ Schedule(n)
  \/ CallDeleteVolume
  \/ VolumeSettles
  \/ VolumeDisturbed

\* A call runs on: its polls are bounded by the ctx.  vServer ends what it
\* started and an operator repairs a volume in ERROR; external-attacher
\* retries the unpublish.
Fairness ==
  /\ \A k \in Keys : WF_vars(Run(k))
  /\ \A n \in Nodes : WF_vars(ControllerUnpublishVolume(n))
  /\ WF_vars(VolumeSettles)

Spec == Init /\ [][Next]_vars /\ Fairness

-----------------------------------------------------------------------------
(* Properties. *)

\* The calls keep the contract of the four operations: a success was true at
\* some time during the call (after an attach the volume was IN-USE on the
\* node, or the devicePath belongs to a device that does not exist yet; after
\* a delete it was being deleted or gone, or it stays at the IaaS as an
\* orphan), a call moves the volume at most once and only for what its
\* VolumeAttachment asks, and only a detach that happened removes the
\* finalizer (cloud.go, AttachVolume, DetachVolume, DeleteVolume).
Phase(k) == IF pc[k] \in {"idle", "ok", "err"} THEN pc[k] ELSE "running"

Contract == INSTANCE VolumeContract WITH phase <- [k \in Keys |-> Phase(k)], seen <- reached

KeepsContract == Contract!Spec

\* The read-only wait of a detach always follows a detach that vServer was
\* carrying out during this very call: it never "polls for a detach nobody is
\* performing" (cloud.go, DetachVolume).
DetachWaitHasDetach ==
  \A n \in Nodes : Detaching(n) /\ pc[n] = "wait" => queued[n]

\* Once vServer stops failing, the retried detach answers success and the
\* VolumeAttachment loses its finalizer, also when the volume or its
\* attachment went away in the meantime.
FinalizerRemoved == \A n \in Nodes : Detaching(n) ~> va[n] = "none"
=============================================================================
