------------------------------ MODULE VServer ------------------------------
(***************************************************************************)
(* One block volume at the vServer IaaS, as far as the driver can tell     *)
(* volumes apart, with the driver's own predicates on it                   *)
(* (pkg/cloud/cloud_private.go, pkg/cloud/entity/volume.go).               *)
(*                                                                         *)
(* The IaaS itself is outside the repository: its commands and Settle,     *)
(* Disturb are modelled from the error codes the driver handles and the    *)
(* comments that say when vServer returns them.  vm stands for VmId and    *)
(* for AttachedMachine, the list of one that repeats it: a volume has one  *)
(* attachment, and AttachedTheInstance looks at both.  up says whether the *)
(* instance still exists: one that was deleted may stay in the record.     *)
(***************************************************************************)
CONSTANTS Nodes, NoNode

ASSUME NoNodeAssumption == NoNode \notin Nodes

Busy == {"ATTACHING", "DETACHING", "DELETING"}

Statuses == Busy \cup {"MIGRATING", "AVAILABLE", "IN-USE", "ERROR", "GONE"}

VolumeState == [status : Statuses, vm : Nodes \cup {NoNode}, up : BOOLEAN]

VolumeIs(status, vm) == [status |-> status, vm |-> vm, up |-> TRUE]

Available == VolumeIs("AVAILABLE", NoNode)

Gone == VolumeIs("GONE", NoNode)

-----------------------------------------------------------------------------
(* The driver's predicates. *)

Exists(vol) == vol.status # "GONE"

IsError(vol) == vol.status = "ERROR"

AttachedTheInstance(vol, n) == vol.vm = n

isDetachedFrom(vol, n) == vol.status = "AVAILABLE" \/ ~AttachedTheInstance(vol, n)

\* The goal of waitDiskAttached and of AttachVolume's fast path.
FullyAttached(vol, n) == AttachedTheInstance(vol, n) /\ vol.status = "IN-USE"

volumeAttachable(vol, n) ==
  IF AttachedTheInstance(vol, n) THEN vol.status = "IN-USE" ELSE vol.status = "AVAILABLE"

\* The SDK's CanDelete, which waitVolumeDeletable uses: ERROR is deletable.
CanDelete(vol) == vol.status \in {"AVAILABLE", "ERROR"}

-----------------------------------------------------------------------------
(***************************************************************************)
(* The IaaS commands: the reply and the volume after it.                   *)
(***************************************************************************)
Reply(vol, code) == [vol |-> vol, code |-> code]

AttachBlockVolume(vol, n) ==
  CASE vol.status = "AVAILABLE" -> Reply(VolumeIs("ATTACHING", n), "OK")
    [] vol.status \in Busy      -> Reply(vol, "InProcess")
    [] FullyAttached(vol, n)    -> Reply(vol, "AlreadyAttachedThisServer")
    [] OTHER                    -> Reply(vol, "Error")

\* An instance that is gone holds nothing, whatever the record says.
DetachBlockVolume(vol, n) ==
  CASE vol.vm = n /\ ~vol.up     -> Reply(vol, "ServerNotFound")
    [] FullyAttached(vol, n)     -> Reply(VolumeIs("DETACHING", n), "OK")
    [] vol.status \in Busy       -> Reply(vol, "InProcess")
    [] vol.status = "MIGRATING"  -> Reply(vol, "IsMigrating")
    [] ~Exists(vol)              -> Reply(vol, "NotFound")
    [] vol.status = "AVAILABLE"  -> Reply(vol, "Available")
    [] OTHER                     -> Reply(vol, "Error")

DeleteBlockVolumeById(vol) ==
  CASE CanDelete(vol) /\ vol.vm = NoNode -> Reply(VolumeIs("DELETING", NoNode), "OK")
    [] ~Exists(vol)                      -> Reply(vol, "NotFound")
    [] vol.status \in Busy               -> Reply(vol, "InProcess")
    [] OTHER                             -> Reply(vol, "Error")

\* A command may also fail: refused, or carried out with its answer lost.
Failing(vol, reply) == {Reply(vol, "Error"), Reply(reply.vol, "Error")}

\* Where an operation, a migration or an operator's repair takes the volume.
\* Nothing moves a volume on a deleted instance but the repair.
Settle(vol) ==
  CASE vol.status = "ERROR"               -> {Available}
    [] vol.status = "DELETING"            -> {Gone}
    [] vol.status = "DETACHING" /\ vol.up -> {Available}
    [] vol.status \in {"ATTACHING", "MIGRATING"} /\ vol.up -> {VolumeIs("IN-USE", vol.vm)}
    [] OTHER                              -> {}

\* The instance that holds the volume is deleted, and vServer comes to know.
InstanceGone(vol) ==
  CASE vol.vm # NoNode /\ vol.up  -> {[vol EXCEPT !.up = FALSE]}
    [] vol.vm # NoNode /\ ~vol.up -> {Available}
    [] OTHER                      -> {}

\* An operation that reverts or fails.
Reverts(vol) ==
  CASE vol.status = "ATTACHING" -> {Available, VolumeIs("ERROR", vol.vm)}
    [] vol.status = "DETACHING" -> {VolumeIs("IN-USE", vol.vm), VolumeIs("ERROR", vol.vm)}
    [] vol.status = "DELETING"  -> {VolumeIs("ERROR", NoNode)}
    [] OTHER                    -> {}

\* What others do to the volume.
Tampered(vol) ==
  CASE vol.status = "IN-USE"    -> {VolumeIs("MIGRATING", vol.vm), Available}
    [] vol.status = "AVAILABLE" -> {Gone}
    [] OTHER                    -> {}

Disturb(vol) == InstanceGone(vol) \cup (IF vol.up THEN Reverts(vol) \cup Tampered(vol) ELSE {})
=============================================================================
