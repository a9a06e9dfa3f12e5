--------------------------- MODULE VolumeContract ---------------------------
(***************************************************************************)
(* What AttachVolume, DetachVolume, IsDetachedFrom and DeleteVolume        *)
(* promise their callers and vServer, without saying how: CloudVolume      *)
(* implements this specification.                                          *)
(*                                                                         *)
(*   - A call that answers success had its goal true at some time between  *)
(*     its start and its answer, whoever made it true.                     *)
(*   - A call commands the volume on behalf of what its VolumeAttachment   *)
(*     asks for, while it runs, and moves it at most once: "issue the      *)
(*     command EXACTLY ONCE" (cloud.go).                                   *)
(*   - A VolumeAttachment goes only with a successful detach.              *)
(*   - Everything else that happens to the volume, vServer does.           *)
(***************************************************************************)
EXTENDS VServer

CONSTANT DeleteKey   \* the key of DeleteVolume; an attach or a detach has its node's

Keys == Nodes \cup {DeleteKey}

VARIABLES
  vol,     \* the volume at vServer
  va,      \* the VolumeAttachment of each node: none, attach or detach
  phase,   \* the call on each key: idle, running, ok or err
  seen,    \* the goal held at some time during the call
  spent    \* the call has moved the volume

vars == <<vol, va, phase, seen, spent>>

Goal(k, v) ==
  IF k = DeleteKey THEN v.status \in {"DELETING", "GONE"}
  ELSE IF va[k] = "attach" THEN FullyAttached(v, k) ELSE isDetachedFrom(v, k) \/ ~v.up

\* The volume after the one command the call on k may give.
Commanded(k) ==
  IF k = DeleteKey THEN DeleteBlockVolumeById(vol).vol
  ELSE IF va[k] = "attach" THEN AttachBlockVolume(vol, k).vol ELSE DetachBlockVolume(vol, k).vol

Init ==
  /\ vol = Available
  /\ va = [n \in Nodes |-> "none"]
  /\ phase = [k \in Keys |-> "idle"]
  /\ seen = [k \in Keys |-> FALSE]
  /\ spent = [k \in Keys |-> FALSE]

-----------------------------------------------------------------------------
\* Every running call sees the volume of this step.
Look ==
  seen' = [k \in Keys |-> phase'[k] # "idle" /\ (seen[k] \/ Goal(k, vol) \/ Goal(k, vol'))]

Begin(k) ==
  /\ phase[k] = "idle"
  /\ k \in Nodes => va[k] # "none"
  /\ phase' = [phase EXCEPT ![k] = "running"]
  /\ UNCHANGED <<vol, va, spent>>
  /\ Look

\* A running call goes on, commands the volume, or comes to its answer.
Work(k) ==
  /\ phase[k] = "running"
  /\ \E p \in {"running", "ok", "err"} : phase' = [phase EXCEPT ![k] = p]
  /\ \/ UNCHANGED <<vol, spent>>
     \/ ~spent[k] /\ vol' = Commanded(k) /\ spent' = [spent EXCEPT ![k] = TRUE]
  /\ UNCHANGED va
  /\ Look
  /\ phase'[k] = "ok" => seen'[k]

Answer(k) ==
  /\ phase[k] \in {"ok", "err"}
  /\ va' = [n \in Nodes |->
              IF n = k /\ phase[k] = "ok" /\ va[n] = "detach" THEN "none" ELSE va[n]]
  /\ phase' = [phase EXCEPT ![k] = "idle"]
  /\ seen' = [seen EXCEPT ![k] = FALSE]
  /\ spent' = [spent EXCEPT ![k] = FALSE]
  /\ UNCHANGED vol

\* The orchestrator wants the volume on the node, or off it.
Want(n) ==
  /\ phase[n] = "idle"
  /\ \/ va[n] = "none"   /\ va' = [va EXCEPT ![n] = "attach"]
     \/ va[n] = "attach" /\ va' = [va EXCEPT ![n] = "detach"]
  /\ UNCHANGED <<vol, phase, seen, spent>>

VServerActs ==
  /\ vol' \in Settle(vol) \cup Disturb(vol)
  /\ UNCHANGED <<va, phase, spent>>
  /\ Look

Next ==
  \/ \E k \in Keys : Begin(k) \/ Work(k) \/ Answer(k)
  \/ \E n \in Nodes : Want(n)
  \/ VServerActs

Spec == Init /\ [][Next]_vars
=============================================================================
