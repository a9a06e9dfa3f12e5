------------------------- MODULE CloudVolumeProofs -------------------------
(***************************************************************************)
(* Theorems about CloudVolume, for every set of nodes and every number of  *)
(* faults: the calls implement VolumeContract, and the wait of a detach    *)
(* has a detach to wait for.                                               *)
(*                                                                         *)
(* Every step of a call has one shape, Works, whatever the operation; the  *)
(* refinement and the invariants are proved from the shapes.  The contract *)
(* lets a call move the volume once.  That the code keeps to this rests on *)
(* SpentIsOver: a call whose command moved the volume issues no other, and *)
(* in particular the second attach after a wait for a busy volume follows  *)
(* a first one that moved nothing.                                         *)
(***************************************************************************)
EXTENDS CloudVolume, TLAPS

\* A volume that is nowhere attached names no machine.
IsVolume(v) ==
  /\ v \in VolumeState
  /\ v.status \in {"AVAILABLE", "DELETING", "GONE"} => v.vm = NoNode

\* A call that moved the volume only waits for the outcome, and a delete does
\* not even wait.
SpentIsOver ==
  \A k \in Keys : spent[k] =>
    pc[k] \in {"ok", "err"} \cup (IF k = DeleteKey THEN {} ELSE {"wait"})

IInv == TypeOK /\ SpentIsOver /\ DetachWaitHasDetach

-----------------------------------------------------------------------------
(* The shapes of the steps. *)

\* A call under way goes on to another place, commanding the volume or not.
Works(k, to) ==
  /\ pc[k] \notin {"idle", "ok", "err"}
  /\ to # "idle" /\ (k = DeleteKey => to \in DeletePCs)
  /\ pc' = [pc EXCEPT ![k] = to]
  /\ UNCHANGED va
  /\ Fault \/ UNCHANGED faults
  /\ \/ UNCHANGED <<vol, spent>>
     \/ /\ ~spent[k] /\ vol' = Contract!Commanded(k)
        /\ spent' = [spent EXCEPT ![k] = TRUE]
  /\ spent'[k] => to \in {"ok", "err"} \cup (IF k = DeleteKey THEN {} ELSE {"wait"})
  /\ to = "ok" => Goal(k, vol) \/ Goal(k, vol')
  /\ k \in Nodes /\ va[k] = "detach" /\ to = "wait" => DetachRuns(k, vol')
  /\ Observe

\* A call begins.
Starts(k, from) ==
  /\ Start(k, from)
  /\ k \in Nodes => va[k] # "none"
  /\ k = DeleteKey => from = "read"
  /\ Fault \/ UNCHANGED faults
  /\ UNCHANGED <<vol, va, spent>>
  /\ Observe

\* The volume changes by itself.
Acts ==
  /\ vol' \in Settle(vol) \cup Disturb(vol)
  /\ Fault \/ UNCHANGED faults
  /\ UNCHANGED <<va, pc, spent>>
  /\ Observe

-----------------------------------------------------------------------------
(* The commands of vServer and the driver's reading of its volume. *)

\* What vServer makes of an attach, and where its answer takes the call.
LEMMA AttachReply ==
  ASSUME NEW v, IsVolume(v), NEW n \in Nodes
  PROVE  LET r == AttachBlockVolume(v, n)
         IN  /\ IsVolume(r.vol)
             /\ r.code \in {"OK", "InProcess", "AlreadyAttachedThisServer", "Error"}
             /\ r.code # "OK" => r.vol = v
<1>1. NoNode # n
  BY NoNodeAssumption
<1> QED
  BY <1>1 DEF IsVolume, AttachBlockVolume, Reply, VolumeIs, VolumeState, Statuses, Busy

\* What vServer makes of a detach: an answer that counts as a success without
\* a wait says that the volume is not on the node, or the node is no more.
LEMMA DetachReply ==
  ASSUME NEW v, IsVolume(v), NEW n \in Nodes
  PROVE  LET r == DetachBlockVolume(v, n)
         IN  /\ IsVolume(r.vol)
             /\ r.code \in {"OK", "InProcess", "IsMigrating", "NotFound", "Available",
                            "ServerNotFound", "Error"}
             /\ r.code # "OK" => r.vol = v
             /\ r.code = "OK" => DetachRuns(n, r.vol)
             /\ r.code \in {"NotFound", "Available"} => isDetachedFrom(v, n)
             /\ r.code = "ServerNotFound" => ~v.up
<1>1. NoNode # n
  BY NoNodeAssumption
<1> QED
  BY <1>1 DEF IsVolume, DetachBlockVolume, Reply, VolumeIs, VolumeState, Statuses, Busy,
       DetachRuns, isDetachedFrom, AttachedTheInstance, FullyAttached, Exists

\* What vServer makes of a delete.
LEMMA DeleteReply ==
  ASSUME NEW v, IsVolume(v)
  PROVE  LET r == DeleteBlockVolumeById(v)
         IN  /\ IsVolume(r.vol)
             /\ r.code \in {"OK", "NotFound", "InProcess", "Error"}
             /\ r.code # "OK" => r.vol = v
             /\ r.code \in {"OK", "NotFound"} => r.vol.status \in {"DELETING", "GONE"}
BY DEF IsVolume, DeleteBlockVolumeById, Reply, VolumeIs, VolumeState, Statuses, Busy, CanDelete,
     Exists

\* The volumes that vServer makes are ones the driver may find.
LEMMA VolumesMade ==
  ASSUME NEW status \in Statuses, NEW vm \in Nodes \cup {NoNode},
         status \in {"AVAILABLE", "DELETING", "GONE"} => vm = NoNode
  PROVE  IsVolume(VolumeIs(status, vm))
BY DEF IsVolume, VolumeIs, VolumeState

\* A volume that settles or is disturbed is one the driver may find.
LEMMA ActsOnVolume ==
  ASSUME NEW v, IsVolume(v), NEW w \in Settle(v) \cup Disturb(v)
  PROVE  IsVolume(w)
<1>0. /\ v.vm \in Nodes \cup {NoNode} /\ NoNode \in Nodes \cup {NoNode}
      /\ {"AVAILABLE", "GONE", "IN-USE", "ERROR", "MIGRATING"} \subseteq Statuses
  BY DEF IsVolume, VolumeState, Statuses
<1>1. /\ IsVolume(Available) /\ IsVolume(Gone) /\ IsVolume(VolumeIs("ERROR", NoNode))
      /\ IsVolume(VolumeIs("IN-USE", v.vm)) /\ IsVolume(VolumeIs("ERROR", v.vm))
      /\ IsVolume(VolumeIs("MIGRATING", v.vm))
  BY <1>0, VolumesMade DEF Available, Gone
<1>2. IsVolume([v EXCEPT !.up = FALSE])
  BY DEF IsVolume, VolumeState
<1>3. Settle(v) \subseteq {Available, Gone, VolumeIs("IN-USE", v.vm)}
  BY DEF Settle
<1>4. InstanceGone(v) \subseteq {Available, [v EXCEPT !.up = FALSE]}
  BY DEF InstanceGone
<1>5. Reverts(v) \subseteq {Available, VolumeIs("ERROR", v.vm), VolumeIs("IN-USE", v.vm),
                           VolumeIs("ERROR", NoNode)}
  BY DEF Reverts
<1>6. Tampered(v) \subseteq {VolumeIs("MIGRATING", v.vm), Available, Gone}
  BY DEF Tampered
<1>7. w \in Settle(v) \cup InstanceGone(v) \cup Reverts(v) \cup Tampered(v)
  BY Zenon DEF Disturb
<1> QED
  BY <1>1, <1>2, <1>3, <1>4, <1>5, <1>6, <1>7, Zenon

\* A volume that is gone, or is not found on the node, is detached from it:
\* the success of a detach on a missing volume is one.
LEMMA GoneIsDetached ==
  ASSUME NEW v, IsVolume(v), NEW n \in Nodes, ~Exists(v) \/ isDetachedFrom(v, n)
  PROVE  isDetachedFrom(v, n)
BY NoNodeAssumption DEF IsVolume, Exists, isDetachedFrom, AttachedTheInstance

\* The type invariant speaks of one volume.
LEMMA VolumeTyped == (TypeOK => IsVolume(vol)) /\ (TypeOK' => IsVolume(vol'))
BY DEF TypeOK, IsVolume

-----------------------------------------------------------------------------
(* Every step has one of the shapes. *)

\* A step that leaves the volume alone.
LEMMA MoveWorks ==
  ASSUME TypeOK, SpentIsOver, NEW k \in Keys, NEW from \in PCs \ {"idle", "ok", "err"},
         NEW to \in PCs \ {"idle"}, Move(k, from, to),
         k = DeleteKey => to \in DeletePCs,
         k # DeleteKey /\ from = "wait" => to \in {"ok", "err"},
         k # DeleteKey /\ to = "wait" => va[k] = "attach",
         to = "ok" => Goal(k, vol)
  PROVE  Works(k, to)
<1>1. k \in Nodes => k # DeleteKey
  BY CloudAssumption
<1>2. spent'[k] => to \in {"ok", "err"} \cup (IF k = DeleteKey THEN {} ELSE {"wait"})
  BY DEF Move, SpentIsOver
<1> QED
  BY <1>1, <1>2 DEF Move, Works

\* A step that commands the volume, with its answer or without.
LEMMA CommandWorks ==
  ASSUME TypeOK, NEW k \in Keys, pc[k] \notin {"idle", "ok", "err"}, ~spent[k],
         NEW reply, reply.vol = Contract!Commanded(k),
         NEW r \in {reply} \cup Failing(vol, reply), NEW to \in PCs \ {"idle"},
         IF r = reply THEN UNCHANGED faults ELSE Fault,
         vol' = r.vol, spent' = [spent EXCEPT ![k] = @ \/ r.vol # vol],
         pc' = [pc EXCEPT ![k] = to], UNCHANGED va, Observe,
         k = DeleteKey => to \in DeletePCs,
         r.vol # vol => to \in {"ok", "err"} \cup (IF k = DeleteKey THEN {} ELSE {"wait"}),
         to = "ok" => Goal(k, vol) \/ Goal(k, r.vol),
         k \in Nodes /\ va[k] = "detach" /\ to = "wait" => DetachRuns(k, r.vol)
  PROVE  Works(k, to)
<1>1. r.vol = vol \/ r.vol = reply.vol
  BY DEF Failing, Reply
<1>2. spent \in [Keys -> BOOLEAN]
  BY DEF TypeOK
<1>3. CASE r.vol = vol
  <2>1. UNCHANGED <<vol, spent>> /\ ~spent'[k]
    BY <1>2, <1>3
  <2> QED
    BY <2>1 DEF Works
<1>4. CASE r.vol # vol
  <2>1. spent' = [spent EXCEPT ![k] = TRUE] /\ vol' = Contract!Commanded(k)
    BY <1>1, <1>2, <1>4
  <2> QED
    BY <1>4, <2>1 DEF Works
<1> QED
  BY <1>3, <1>4

\* The answer of a command is the one vServer gave or none ("Error").
LEMMA FailingCode ==
  ASSUME NEW v, NEW reply, NEW r \in {reply} \cup Failing(v, reply)
  PROVE  r = reply \/ (r.code = "Error" /\ r.vol \in {v, reply.vol})
BY DEF Failing, Reply

\* What an attach, a detach and a delete may make of the volume, in the
\* contract's words.
LEMMA ContractCommands ==
  /\ \A n \in Nodes : va[n] = "attach" => Contract!Commanded(n) = AttachBlockVolume(vol, n).vol
  /\ \A n \in Nodes : va[n] # "attach" => Contract!Commanded(n) = DetachBlockVolume(vol, n).vol
  /\ Contract!Commanded(DeleteKey) = DeleteBlockVolumeById(vol).vol
<1>1. \A n \in Nodes : n # DeleteKey
  BY CloudAssumption
<1>2. \A v, n : /\ Contract!AttachBlockVolume(v, n) = AttachBlockVolume(v, n)
                /\ Contract!DetachBlockVolume(v, n) = DetachBlockVolume(v, n)
                /\ Contract!DeleteBlockVolumeById(v) = DeleteBlockVolumeById(v)
  BY DEF Contract!AttachBlockVolume, AttachBlockVolume, Contract!DetachBlockVolume,
       DetachBlockVolume, Contract!DeleteBlockVolumeById, DeleteBlockVolumeById,
       Contract!Reply, Reply, Contract!VolumeIs, VolumeIs, Contract!Busy, Busy,
       Contract!FullyAttached, FullyAttached, Contract!AttachedTheInstance, AttachedTheInstance,
       Contract!Exists, Exists, Contract!CanDelete, CanDelete
<1> QED
  BY <1>1, <1>2 DEF Contract!Commanded

\* The steps of AttachVolume.
LEMMA AttachWorks ==
  ASSUME TypeOK, SpentIsOver, NEW n \in Nodes, AttachVolume(n)
  PROVE  \E to \in PCs : Works(n, to)
<1>0. n \in Keys /\ n # DeleteKey
  BY CloudAssumption DEF Keys
<1> USE DEF Attaching, PCs, DeletePCs
<1>1. CASE AttachRead(n)
  <2>1. /\ va[n] = "attach"
        /\ \/ Move(n, "read", "err") \/ Move(n, "read", "wait") \/ Move(n, "read", "command")
           \/ FullyAttached(vol, n) /\ Move(n, "read", "ok")
    BY <1>1 DEF AttachRead
  <2> QED
    BY <1>0, <2>1, MoveWorks DEF Goal
<1>2. CASE AttachCommand(n)
  <2> DEFINE reply == AttachBlockVolume(vol, n)
  <2>1. PICK r \in {reply} \cup Failing(vol, reply) :
          /\ IF r = reply THEN UNCHANGED faults ELSE Fault
          /\ vol' = r.vol
          /\ spent' = [spent EXCEPT ![n] = @ \/ r.vol # vol]
          /\ pc' = [pc EXCEPT ![n] = AfterAttach(r.code)]
    BY <1>2 DEF AttachCommand, Command
  <2>2. pc[n] = "command" /\ UNCHANGED va /\ Observe /\ va[n] = "attach"
    BY <1>2 DEF AttachCommand, Command
  <2>3. reply.vol = Contract!Commanded(n)
    BY <2>2, ContractCommands
  <2>4. r.code \in {"OK", "InProcess", "AlreadyAttachedThisServer", "Error"}
        /\ (r.vol # vol => r.code \in {"OK", "Error"})
    BY AttachReply, VolumeTyped, FailingCode
  <2>5. /\ AfterAttach(r.code) \in {"wait", "busy", "err"}
        /\ r.code \in {"OK", "Error"} => AfterAttach(r.code) \in {"wait", "err"}
    BY <2>4 DEF AfterAttach
  <2>6. ~spent[n]
    BY <1>0, <2>2 DEF SpentIsOver
  <2> HIDE DEF reply
  <2>7. Works(n, AfterAttach(r.code))
    BY <1>0, <2>1, <2>2, <2>3, <2>4, <2>5, <2>6, CommandWorks
  <2> QED
    BY <2>5, <2>7
<1>3. CASE AttachBusyWait(n)
  <2>1. /\ va[n] = "attach"
        /\ \/ Move(n, "busy", "err") \/ Move(n, "busy", "again")
           \/ FullyAttached(vol, n) /\ Move(n, "busy", "ok")
    BY <1>3 DEF AttachBusyWait, volumeAttachable, FullyAttached
  <2> QED
    BY <1>0, <2>1, MoveWorks DEF Goal
<1>4. CASE AttachAgain(n)
  <2> DEFINE reply == AttachBlockVolume(vol, n)
  <2>1. PICK r \in {reply} \cup Failing(vol, reply) :
          /\ IF r = reply THEN UNCHANGED faults ELSE Fault
          /\ vol' = r.vol
          /\ spent' = [spent EXCEPT ![n] = @ \/ r.vol # vol]
          /\ pc' = [pc EXCEPT ![n] = AfterAttachAgain(r.code)]
    BY <1>4 DEF AttachAgain, Command
  <2>2. pc[n] = "again" /\ UNCHANGED va /\ Observe /\ va[n] = "attach"
    BY <1>4 DEF AttachAgain, Command
  <2>3. reply.vol = Contract!Commanded(n)
    BY <2>2, ContractCommands
  <2>4. AfterAttachAgain(r.code) \in {"wait", "err"}
    BY DEF AfterAttachAgain
  <2>5. ~spent[n]
    BY <1>0, <2>2 DEF SpentIsOver
  <2> HIDE DEF reply
  <2>6. Works(n, AfterAttachAgain(r.code))
    BY <1>0, <2>1, <2>2, <2>3, <2>4, <2>5, CommandWorks
  <2> QED
    BY <2>4, <2>6
<1>5. CASE waitDiskAttached(n)
  <2>1. \/ Move(n, "wait", "err")
        \/ va[n] = "attach" /\ FullyAttached(vol, n) /\ Move(n, "wait", "ok")
    BY <1>5 DEF waitDiskAttached
  <2> QED
    BY <1>0, <2>1, MoveWorks DEF Goal
<1> QED
  BY <1>1, <1>2, <1>3, <1>4, <1>5 DEF AttachVolume

\* The steps of DetachVolume and the breaker's probe.
LEMMA DetachWorks ==
  ASSUME TypeOK, SpentIsOver, NEW n \in Nodes, DetachVolume(n) \/ IsDetachedFrom(n)
  PROVE  \E to \in PCs : Works(n, to)
<1>0. n \in Keys /\ n # DeleteKey
  BY CloudAssumption DEF Keys
<1>a. IsVolume(vol)
  BY VolumeTyped
<1> USE DEF Detaching, PCs, DeletePCs
<1>1. CASE DetachRead(n)
  <2>1. /\ va[n] = "detach"
        /\ \/ Move(n, "read", "err") \/ Move(n, "read", "command")
           \/ isDetachedFrom(vol, n) /\ Move(n, "read", "ok")
    BY <1>1, <1>a, GoneIsDetached DEF DetachRead
  <2> QED
    BY <1>0, <2>1, MoveWorks DEF Goal
<1>2. CASE DetachCommand(n)
  <2> DEFINE reply == DetachBlockVolume(vol, n)
  <2>1. PICK r \in {reply} \cup Failing(vol, reply) :
          /\ IF r = reply THEN UNCHANGED faults ELSE Fault
          /\ vol' = r.vol
          /\ spent' = [spent EXCEPT ![n] = @ \/ r.vol # vol]
          /\ pc' = [pc EXCEPT ![n] = AfterDetach(r.code)]
    BY <1>2 DEF DetachCommand, Command
  <2>2. pc[n] = "command" /\ UNCHANGED va /\ Observe /\ va[n] = "detach"
    BY <1>2 DEF DetachCommand, Command
  <2>3. reply.vol = Contract!Commanded(n)
    BY <2>2, ContractCommands
  <2>4. /\ r.code \in {"OK", "InProcess", "IsMigrating", "NotFound", "Available",
                       "ServerNotFound", "Error"}
        /\ r.vol # vol => r.code \in {"OK", "Error"}
        /\ r.code = "OK" => DetachRuns(n, r.vol)
        /\ r.code \in {"NotFound", "Available"} => isDetachedFrom(vol, n)
        /\ r.code = "ServerNotFound" => ~vol.up
    BY <1>a, DetachReply, FailingCode
  <2>5. /\ AfterDetach(r.code) \in {"ok", "wait", "err"}
        /\ AfterDetach(r.code) = "ok" => r.code \in {"NotFound", "Available", "ServerNotFound"}
        /\ AfterDetach(r.code) = "wait" => r.code = "OK"
    BY <2>4 DEF AfterDetach
  <2>6. ~spent[n]
    BY <1>0, <2>2 DEF SpentIsOver
  <2>7. AfterDetach(r.code) = "ok" => Goal(n, vol)
    BY <1>0, <2>2, <2>4, <2>5 DEF Goal
  <2> HIDE DEF reply
  <2>8. Works(n, AfterDetach(r.code))
    BY <1>0, <2>1, <2>2, <2>3, <2>4, <2>5, <2>6, <2>7, CommandWorks
  <2> QED
    BY <2>5, <2>8
<1>3. CASE waitVolumeDetached(n)
  <2>1. \/ Move(n, "wait", "err")
        \/ va[n] = "detach" /\ isDetachedFrom(vol, n) /\ Move(n, "wait", "ok")
    BY <1>3, <1>a, GoneIsDetached DEF waitVolumeDetached
  <2> QED
    BY <1>0, <2>1, MoveWorks DEF Goal
<1>4. CASE IsDetachedFrom(n)
  <2>1. \/ Move(n, "probe", "err")
        \/ va[n] = "detach" /\ isDetachedFrom(vol, n) /\ Move(n, "probe", "ok")
    BY <1>4, <1>a, GoneIsDetached DEF IsDetachedFrom
  <2> QED
    BY <1>0, <2>1, MoveWorks DEF Goal
<1> QED
  BY <1>1, <1>2, <1>3, <1>4 DEF DetachVolume

\* The steps of DeleteVolume.
LEMMA DeleteWorks ==
  ASSUME TypeOK, SpentIsOver, DeleteVolume
  PROVE  \E to \in PCs : Works(DeleteKey, to)
<1>0. DeleteKey \in Keys /\ DeleteKey \notin Nodes
  BY CloudAssumption DEF Keys
<1> USE DEF PCs, DeletePCs
<1>1. CASE DeleteRead
  <2>1. \/ Move(DeleteKey, "read", "command") \/ Move(DeleteKey, "read", "wait")
        \/ ~Exists(vol) /\ Move(DeleteKey, "read", "ok")
    BY <1>1 DEF DeleteRead
  <2> QED
    BY <1>0, <2>1, MoveWorks DEF Goal, Exists
<1>2. CASE waitVolumeDeletable
  <2>1. Move(DeleteKey, "wait", "command")
    BY <1>2 DEF waitVolumeDeletable
  <2> QED
    BY <1>0, <2>1, MoveWorks
<1>3. CASE DeleteCommand
  <2> DEFINE reply == DeleteBlockVolumeById(vol)
  <2>1. PICK r \in {reply} \cup Failing(vol, reply) :
          /\ IF r = reply THEN UNCHANGED faults ELSE Fault
          /\ vol' = r.vol
          /\ spent' = [spent EXCEPT ![DeleteKey] = @ \/ r.vol # vol]
          /\ pc' = [pc EXCEPT ![DeleteKey] = AfterDelete(r.code)]
    BY <1>3 DEF DeleteCommand, Command
  <2>2. pc[DeleteKey] = "command" /\ UNCHANGED va /\ Observe
    BY <1>3 DEF DeleteCommand, Command
  <2>3. reply.vol = Contract!Commanded(DeleteKey)
    BY ContractCommands
  <2>4. r.code \in {"OK", "NotFound"} => r.vol.status \in {"DELETING", "GONE"}
    BY VolumeTyped, DeleteReply, FailingCode
  <2>5. /\ AfterDelete(r.code) \in {"ok", "err"}
        /\ AfterDelete(r.code) = "ok" => Goal(DeleteKey, r.vol)
    BY <2>4 DEF AfterDelete, Goal
  <2>6. ~spent[DeleteKey]
    BY <1>0, <2>2 DEF SpentIsOver
  <2> HIDE DEF reply
  <2>7. Works(DeleteKey, AfterDelete(r.code))
    BY <1>0, <2>1, <2>2, <2>3, <2>5, <2>6, CommandWorks
  <2> QED
    BY <2>5, <2>7
<1> QED
  BY <1>1, <1>2, <1>3 DEF DeleteVolume

\* The steps that every call has: a read that fails and a wait that ends.
LEMMA EndWorks ==
  ASSUME TypeOK, SpentIsOver, NEW k \in Keys,
         ReadFails(k, "read") \/ ReadFails(k, "probe") \/ WaitEnds(k)
  PROVE  Works(k, "err")
<1> USE DEF PCs, DeletePCs
<1>1. ASSUME NEW from \in {"read", "probe"}, ReadFails(k, from) PROVE Works(k, "err")
  BY <1>1 DEF ReadFails, Works
<1>2. ASSUME NEW from \in {"wait", "busy"}, Move(k, from, "err") PROVE Works(k, "err")
  BY <1>2, MoveWorks
<1> QED
  BY <1>1, <1>2 DEF WaitEnds

\* Every step of the system has one of the shapes.
LEMMA Shapes ==
  ASSUME TypeOK, SpentIsOver, Next
  PROVE  \/ \E k \in Keys : \E to \in PCs : Works(k, to)
         \/ \E k \in Keys : \E from \in {"read", "probe"} : Starts(k, from)
         \/ \E k \in Keys : Answer(k)
         \/ \E n \in Nodes : Schedule(n)
         \/ Acts
<1>0. Nodes \subseteq Keys /\ DeleteKey \in Keys /\ DeleteKey \notin Nodes /\ "err" \in PCs
  BY CloudAssumption DEF Keys, PCs, DeletePCs
<1>1. ASSUME NEW k \in Keys, Run(k)
      PROVE  (\E to \in PCs : Works(k, to)) \/ Answer(k)
  BY <1>0, <1>1, AttachWorks, DetachWorks, DeleteWorks, EndWorks DEF Run
<1>2. ASSUME NEW n \in Nodes,
             ControllerPublishVolume(n) \/ ControllerUnpublishVolume(n) \/ UnpublishPaused(n)
      PROVE  \E from \in {"read", "probe"} : Starts(n, from)
  BY <1>0, <1>2 DEF ControllerPublishVolume, ControllerUnpublishVolume, UnpublishPaused,
       Attaching, Detaching, Starts
<1>3. ASSUME CallDeleteVolume PROVE Starts(DeleteKey, "read")
  BY <1>0, <1>3 DEF CallDeleteVolume, Starts
<1>4. ASSUME VolumeSettles \/ VolumeDisturbed PROVE Acts
  BY <1>4 DEF VolumeSettles, VolumeDisturbed, Acts
<1> QED
  BY <1>0, <1>1, <1>2, <1>3, <1>4 DEF Next

-----------------------------------------------------------------------------
(* The invariant. *)

\* The initial states satisfy the invariant.
LEMMA InitHolds == Init => IInv
BY CloudAssumption, NoNodeAssumption
DEF Init, IInv, TypeOK, SpentIsOver, DetachWaitHasDetach, Keys, PCs, DeletePCs, VolumeState,
    Statuses, Busy, Available, VolumeIs, Detaching

\* The histories are Boolean.
LEMMA ObserveTyped ==
  ASSUME Observe
  PROVE  reached' \in [Keys -> BOOLEAN] /\ queued' \in [Keys -> BOOLEAN]
BY Zenon DEF Observe

\* A fault keeps to its bound.
LEMMA FaultTyped ==
  ASSUME faults \in 0..MaxFaults, Fault \/ UNCHANGED faults
  PROVE  faults' \in 0..MaxFaults
BY CloudAssumption DEF Fault

\* A volume that has been commanded is one the driver may find.
LEMMA CommandedTyped ==
  ASSUME TypeOK, NEW k \in Keys
  PROVE  IsVolume(Contract!Commanded(k))
<1>1. IsVolume(vol)
  BY VolumeTyped
<1>2. CASE k = DeleteKey
  BY <1>1, <1>2, ContractCommands, DeleteReply
<1>3. CASE k \in Nodes
  BY <1>1, <1>3, ContractCommands, AttachReply, DetachReply
<1> QED
  BY <1>2, <1>3 DEF Keys

\* Each step keeps the types.
LEMMA TypeStep ==
  ASSUME TypeOK, SpentIsOver, [Next]_vars
  PROVE  TypeOK'
<1>0. DeleteKey \in Keys
  BY DEF Keys
<1>a. IsVolume(vol)
  BY VolumeTyped
<1>1. ASSUME NEW k \in Keys, NEW to \in PCs, Works(k, to) PROVE TypeOK'
  <2>1. IsVolume(vol')
    BY <1>a, <1>1, CommandedTyped DEF Works
  <2>2. spent' \in [Keys -> BOOLEAN]
    BY <1>1 DEF Works, TypeOK
  <2>3. pc' \in [Keys -> PCs] /\ pc'[DeleteKey] \in DeletePCs
    BY <1>0, <1>1 DEF Works, TypeOK
  <2>4. reached' \in [Keys -> BOOLEAN] /\ queued' \in [Keys -> BOOLEAN] /\ faults' \in 0..MaxFaults
    BY <1>1, ObserveTyped, FaultTyped DEF Works, TypeOK
  <2>5. va' \in [Nodes -> {"none", "attach", "detach"}]
    BY <1>1 DEF Works, TypeOK
  <2> QED
    BY <2>1, <2>2, <2>3, <2>4, <2>5 DEF TypeOK, IsVolume
<1>2. ASSUME NEW k \in Keys, NEW from \in {"read", "probe"}, Starts(k, from) PROVE TypeOK'
  <2>1. reached' \in [Keys -> BOOLEAN] /\ queued' \in [Keys -> BOOLEAN] /\ faults' \in 0..MaxFaults
    BY <1>2, ObserveTyped, FaultTyped DEF Starts, TypeOK
  <2>2. pc' \in [Keys -> PCs] /\ pc'[DeleteKey] \in DeletePCs
    BY <1>0, <1>2 DEF Starts, Start, TypeOK, PCs, DeletePCs
  <2> QED
    BY <1>2, <2>1, <2>2 DEF Starts, TypeOK
<1>3. ASSUME NEW k \in Keys, Answer(k) PROVE TypeOK'
  <2>1. pc' \in [Keys -> PCs] /\ pc'[DeleteKey] \in DeletePCs
    BY <1>0, <1>3 DEF Answer, TypeOK, PCs, DeletePCs
  <2>2. va' \in [Nodes -> {"none", "attach", "detach"}]
    BY <1>3 DEF Answer, TypeOK
  <2>3. /\ reached' \in [Keys -> BOOLEAN] /\ queued' \in [Keys -> BOOLEAN]
        /\ spent' \in [Keys -> BOOLEAN]
    BY <1>3 DEF Answer, TypeOK
  <2> QED
    BY <1>3, <2>1, <2>2, <2>3 DEF Answer, TypeOK
<1>4. ASSUME NEW n \in Nodes, Schedule(n) PROVE TypeOK'
  BY <1>4 DEF Schedule, TypeOK
<1>5. ASSUME Acts PROVE TypeOK'
  <2>1. IsVolume(vol')
    BY <1>a, <1>5, ActsOnVolume DEF Acts
  <2>2. reached' \in [Keys -> BOOLEAN] /\ queued' \in [Keys -> BOOLEAN] /\ faults' \in 0..MaxFaults
    BY <1>5, ObserveTyped, FaultTyped DEF Acts, TypeOK
  <2> QED
    BY <1>5, <2>1, <2>2 DEF Acts, TypeOK, IsVolume
<1>6. CASE UNCHANGED vars
  BY <1>6 DEF vars, TypeOK
<1> QED
  BY <1>1, <1>2, <1>3, <1>4, <1>5, <1>6, Shapes

\* A call that moved the volume is on its way to its answer.
LEMMA SpentStep ==
  ASSUME TypeOK, SpentIsOver, [Next]_vars
  PROVE  SpentIsOver'
<1>1. ASSUME NEW k \in Keys, NEW to \in PCs, Works(k, to) PROVE SpentIsOver'
  BY <1>1 DEF Works, TypeOK, SpentIsOver
<1>2. ASSUME NEW k \in Keys, NEW from \in {"read", "probe"}, Starts(k, from) PROVE SpentIsOver'
  BY <1>2 DEF Starts, Start, TypeOK, SpentIsOver
<1>3. ASSUME NEW k \in Keys, Answer(k) PROVE SpentIsOver'
  BY <1>3 DEF Answer, TypeOK, SpentIsOver
<1>4. ASSUME NEW n \in Nodes, Schedule(n) PROVE SpentIsOver'
  BY <1>4 DEF Schedule, SpentIsOver
<1>5. ASSUME Acts PROVE SpentIsOver'
  BY <1>5 DEF Acts, SpentIsOver
<1>6. CASE UNCHANGED vars
  BY <1>6 DEF vars, SpentIsOver
<1> QED
  BY <1>1, <1>2, <1>3, <1>4, <1>5, <1>6, Shapes

\* The wait of a detach begins with the detach and remembers it.
LEMMA WaitStep ==
  ASSUME TypeOK, SpentIsOver, DetachWaitHasDetach, [Next]_vars
  PROVE  DetachWaitHasDetach'
<1>0. Nodes \subseteq Keys
  BY DEF Keys
<1> USE DEF Detaching
<1>1. ASSUME NEW k \in Keys, NEW to \in PCs, Works(k, to) PROVE DetachWaitHasDetach'
  <2> SUFFICES ASSUME NEW n \in Nodes, va'[n] = "detach", pc'[n] = "wait" PROVE queued'[n]
    BY DEF DetachWaitHasDetach
  <2>1. va[n] = "detach" /\ (queued[n] \/ DetachRuns(n, vol) \/ DetachRuns(n, vol') => queued'[n])
    BY <1>0, <1>1 DEF Works, Observe
  <2>2. CASE n = k
    BY <1>0, <1>1, <2>1, <2>2 DEF Works, TypeOK
  <2>3. CASE n # k
    BY <1>0, <1>1, <2>1, <2>3 DEF Works, TypeOK, DetachWaitHasDetach
  <2> QED
    BY <2>2, <2>3
<1>2. ASSUME NEW k \in Keys, NEW from \in {"read", "probe"}, Starts(k, from)
      PROVE  DetachWaitHasDetach'
  BY <1>0, <1>2 DEF Starts, Start, Observe, TypeOK, DetachWaitHasDetach
<1>3. ASSUME NEW k \in Keys, Answer(k) PROVE DetachWaitHasDetach'
  BY <1>0, <1>3 DEF Answer, TypeOK, DetachWaitHasDetach
<1>4. ASSUME NEW n \in Nodes, Schedule(n) PROVE DetachWaitHasDetach'
  BY <1>0, <1>4 DEF Schedule, TypeOK, DetachWaitHasDetach
<1>5. ASSUME Acts PROVE DetachWaitHasDetach'
  BY <1>0, <1>5 DEF Acts, Observe, DetachWaitHasDetach
<1>6. CASE UNCHANGED vars
  BY <1>6 DEF vars, DetachWaitHasDetach
<1> QED
  BY <1>1, <1>2, <1>3, <1>4, <1>5, <1>6, Shapes

\* The inductive invariant holds in every reachable state.
THEOREM Invariance == Spec => []IInv
<1>1. Init => IInv
  BY InitHolds
<1>2. IInv /\ [Next]_vars => IInv'
  BY TypeStep, SpentStep, WaitStep DEF IInv
<1> QED
  BY <1>1, <1>2, PTL DEF Spec

\* The variables keep their types, and a volume without an attachment names
\* no machine.
THEOREM TypeCorrect == Spec => []TypeOK
<1>1. IInv => TypeOK
  BY DEF IInv
<1> QED
  BY <1>1, Invariance, PTL

\* Whatever the other calls and vServer do, DetachVolume polls only for a
\* detach that vServer was carrying out during the call.
THEOREM DetachIsPolledFor == Spec => []DetachWaitHasDetach
<1>1. IInv => DetachWaitHasDetach
  BY DEF IInv
<1> QED
  BY <1>1, Invariance, PTL

-----------------------------------------------------------------------------
(* The refinement. *)

\* The operators of the contract are the calls' own.
LEMMA ContractOperators ==
  /\ Contract!Keys = Keys
  /\ \A k, v : Contract!Goal(k, v) = Goal(k, v)
  /\ \A v : Contract!Settle(v) = Settle(v) /\ Contract!Disturb(v) = Disturb(v)
  /\ Contract!Available = Available
BY DEF Contract!Keys, Keys, Contract!Goal, Goal, Contract!FullyAttached, FullyAttached,
     Contract!isDetachedFrom, isDetachedFrom, Contract!AttachedTheInstance, AttachedTheInstance,
     Contract!Settle, Settle, Contract!Disturb, Disturb, Contract!InstanceGone, InstanceGone,
     Contract!Reverts, Reverts, Contract!Tampered, Tampered, Contract!Available, Available,
     Contract!Gone, Gone, Contract!VolumeIs, VolumeIs

\* The initial states are initial states of the contract.
LEMMA InitRefines == Init => Contract!Init
BY ContractOperators DEF Init, Contract!Init, Phase, Contract!Keys, Keys

\* The phases of the calls.
phases == [k \in Keys |-> Phase(k)]

\* A call that moves on in the code moves on, or stays, in the contract.
LEMMA PhaseMoves ==
  ASSUME TypeOK, NEW k \in Keys, NEW to \in PCs, pc' = [pc EXCEPT ![k] = to]
  PROVE  phases' = [phases EXCEPT ![k] = IF to \in {"idle", "ok", "err"} THEN to ELSE "running"]
BY DEF phases, Phase, TypeOK

\* What the calls remember of the volume is what the contract says they see.
LEMMA ObserveLooks == ASSUME TypeOK, TypeOK', Observe PROVE Contract!Look
<1>1. \A k \in Keys : (pc'[k] = "idle") <=> (Phase(k)' = "idle")
  BY DEF Phase, TypeOK
<1> QED
  BY <1>1, ContractOperators DEF Observe, Contract!Look

\* The step of a call under way is a step of the contract's call: it commands
\* at most once, and a success has seen its goal.
LEMMA WorksRefines ==
  ASSUME TypeOK, TypeOK', NEW k \in Keys, NEW to \in PCs, Works(k, to)
  PROVE  Contract!Work(k)
<1> DEFINE p == IF to \in {"idle", "ok", "err"} THEN to ELSE "running"
<1>1. phases[k] = "running"
  BY DEF phases, Phase, Works
<1>2. phases' = [phases EXCEPT ![k] = p] /\ p \in {"running", "ok", "err"}
  BY PhaseMoves DEF Works
<1>3. Contract!Look
  BY ObserveLooks DEF Works
<1>4. phases'[k] = "ok" => reached'[k]
  <2>1. phases'[k] = "ok" => to = "ok"
    BY <1>2 DEF phases
  <2>2. to = "ok" => reached'[k]
    BY DEF Works, Observe, TypeOK
  <2> QED
    BY <2>1, <2>2
<1>5. \/ UNCHANGED <<vol, spent>>
      \/ ~spent[k] /\ vol' = Contract!Commanded(k) /\ spent' = [spent EXCEPT ![k] = TRUE]
  BY DEF Works
<1>6. UNCHANGED va
  BY DEF Works
<1> QED
  BY <1>1, <1>2, <1>3, <1>4, <1>5, <1>6 DEF Contract!Work, phases

\* A call that begins begins in the contract.
LEMMA StartsRefines ==
  ASSUME TypeOK, TypeOK', NEW k \in Keys, NEW from \in {"read", "probe"}, Starts(k, from)
  PROVE  Contract!Begin(k)
<1>1. phases[k] = "idle"
  BY DEF phases, Phase, Starts, Start
<1>2. phases' = [phases EXCEPT ![k] = "running"]
  BY PhaseMoves DEF Starts, Start, PCs, DeletePCs
<1>3. Contract!Look
  BY ObserveLooks DEF Starts
<1> QED
  BY <1>1, <1>2, <1>3 DEF Contract!Begin, Starts, phases

\* The answer is the contract's answer: the VolumeAttachment goes with a
\* successful detach only.
LEMMA AnswerRefines ==
  ASSUME TypeOK, NEW k \in Keys, Answer(k)
  PROVE  Contract!Answer(k)
<1>1. phases[k] = pc[k] /\ pc[k] \in {"ok", "err"}
  BY DEF phases, Phase, Answer
<1>2. phases' = [phases EXCEPT ![k] = "idle"]
  BY PhaseMoves DEF Answer, PCs, DeletePCs
<1>3. va' = [n \in Nodes |->
               IF n = k /\ phases[k] = "ok" /\ va[n] = "detach" THEN "none" ELSE va[n]]
  BY <1>1 DEF Answer, Detaching
<1> QED
  BY <1>1, <1>2, <1>3 DEF Contract!Answer, Answer, phases

\* What the orchestrator wants next is wanted in the contract.
LEMMA ScheduleRefines ==
  ASSUME TypeOK, NEW n \in Nodes, Schedule(n)
  PROVE  Contract!Want(n)
<1>1. phases[n] = "idle" /\ phases' = phases
  BY DEF phases, Phase, Schedule, Keys
<1> QED
  BY <1>1 DEF Contract!Want, Schedule, phases

\* What vServer does to the volume by itself, it may do in the contract.
LEMMA ActsRefines ==
  ASSUME TypeOK, TypeOK', Acts
  PROVE  Contract!VServerActs
<1>1. phases' = phases
  BY DEF phases, Phase, Acts
<1>2. Contract!Look
  BY ObserveLooks DEF Acts
<1> QED
  BY <1>1, <1>2, ContractOperators DEF Contract!VServerActs, Acts, phases

\* Every step of the calls is a step of the contract or changes nothing of it.
LEMMA StepRefines ==
  ASSUME IInv, IInv', [Next]_vars
  PROVE  [Contract!Next]_(Contract!vars)
<1> USE DEF IInv
<1>1. ASSUME NEW k \in Keys, NEW to \in PCs, Works(k, to) PROVE Contract!Next
  BY <1>1, WorksRefines, ContractOperators DEF Contract!Next
<1>2. ASSUME NEW k \in Keys, NEW from \in {"read", "probe"}, Starts(k, from) PROVE Contract!Next
  BY <1>2, StartsRefines, ContractOperators DEF Contract!Next
<1>3. ASSUME NEW k \in Keys, Answer(k) PROVE Contract!Next
  BY <1>3, AnswerRefines, ContractOperators DEF Contract!Next
<1>4. ASSUME NEW n \in Nodes, Schedule(n) PROVE Contract!Next
  BY <1>4, ScheduleRefines DEF Contract!Next
<1>5. ASSUME Acts PROVE Contract!Next
  BY <1>5, ActsRefines DEF Contract!Next
<1>6. CASE UNCHANGED vars
  BY <1>6 DEF vars, Contract!vars, Phase
<1> QED
  BY <1>1, <1>2, <1>3, <1>4, <1>5, <1>6, Shapes

\* AttachVolume, DetachVolume, IsDetachedFrom and DeleteVolume implement
\* VolumeContract, whatever the number of nodes whose calls interleave, the
\* answers that are lost and the failures: a success was true during the call,
\* a call moves the volume at most once, and a VolumeAttachment goes only with
\* a detach that happened.
THEOREM ImplementsContract == Spec => KeepsContract
<1>1. Init => Contract!Init
  BY InitRefines
<1>2. IInv /\ IInv' /\ [Next]_vars => [Contract!Next]_(Contract!vars)
  BY StepRefines
<1> QED
  BY <1>1, <1>2, Invariance, PTL DEF Spec, KeepsContract, Contract!Spec
=============================================================================
