--------------------------- MODULE NodeLifecycle ---------------------------
(***************************************************************************)
(* What the driver does about its own node at the two ends of its life:    *)
(* removeTaintInBackground at start-up (pkg/driver/node.go) and the        *)
(* PreStop hook (cmd/hooks/prestop.go).  They meet in the node's taints,   *)
(* which others write too: the remover patches them, and the hook waits    *)
(* for the node's VolumeAttachments only if it finds a drain taint.        *)
(*                                                                         *)
(* The hook is three goroutines: the main one, the informer's, which lists *)
(* and then watches, and the one that runs the event handlers one by one.  *)
(* client-go's informer is external: its cache follows the attachments,    *)
(* and a deletion is told as the object or, after a broken watch, as a     *)
(* tombstone.                                                              *)
(***************************************************************************)
EXTENDS Naturals

CONSTANTS
  Own,         \* VolumeAttachments of this node
  Others,      \* VolumeAttachments of other nodes
  MaxTries,    \* taintRemovalBackoff.Steps
  MaxTroubles    \* bound: failed requests, and what others do besides draining

ASSUME LifecycleAssumption ==
  Own \cap Others = {} /\ MaxTries \in Nat \ {0} /\ MaxTroubles \in Nat

VARIABLES
  exists,       \* the Node object
  taints,       \* its spec.taints
  wanted,       \* history: the taints that others have put there
  allocatable,  \* the CSINode lists this driver with its volume limit
  remover, seen, tries,
  hook,         \* the main goroutine of PreStop
  calm,         \* history: the node was not being drained at some time of it
  attached,     \* the VolumeAttachments
  informer,     \* "off", then "on": it has listed
  known,        \* its cache, with the additions the watch has still to deliver
  rescan,       \* the event handler has a List to make
  closes,       \* how often the channel of completionSignal was closed
  excused,      \* history: a List failed, or the informer listed too late
  troubles

node == <<exists, taints, wanted, allocatable>>
rem  == <<remover, seen, tries>>
wait == <<attached, informer, known, rescan, closes, excused>>
lifeVars == <<exists, taints, wanted, allocatable, remover, seen, tries, hook, calm,
          attached, informer, known, rescan, closes, excused, troubles>>

\* agent: AgentNotReadyNodeTaintKey.  drain: one of drainTaints.
Taints == {"agent", "drain", "other"}

LifeTypeOK ==
  /\ exists \in BOOLEAN /\ allocatable \in BOOLEAN
  /\ taints \subseteq Taints /\ wanted \subseteq Taints
  /\ remover \in {"get", "check", "patch", "done", "gaveUp"}
  /\ seen \subseteq Taints /\ tries \in 0..MaxTries
  /\ hook \in {"off", "fetch", "check", "blocked", "ok", "skipped", "error"}
  /\ calm \in BOOLEAN
  /\ attached \subseteq Own \cup Others
  /\ informer \in {"off", "on"} /\ known \subseteq Own \cup Others
  /\ rescan \in BOOLEAN
  /\ closes \in {0, 1}
  /\ excused \in BOOLEAN
  /\ troubles \in 0..MaxTroubles

LifeInit ==
  /\ exists = TRUE
  /\ taints \in {{}, {"agent"}} /\ wanted = {}
  /\ allocatable = FALSE
  /\ remover = "get" /\ seen = {} /\ tries = 0
  /\ hook = "off" /\ calm = FALSE
  /\ attached \in SUBSET (Own \cup Others)
  /\ informer = "off" /\ known = {} /\ rescan = FALSE
  /\ closes = 0 /\ excused = FALSE
  /\ troubles = 0

Trouble == troubles < MaxTroubles /\ troubles' = troubles + 1

Calm == exists /\ "drain" \notin wanted

-----------------------------------------------------------------------------
(* removeNotReadyTaint, under the backoff of removeTaintInBackground. *)

Retry ==
  /\ tries' = tries + 1
  /\ remover' = IF tries + 1 < MaxTries THEN "get" ELSE "gaveUp"
  /\ seen' = {}

Finish == remover' = "done" /\ seen' = {} /\ UNCHANGED tries

\* A driver without a node name or credentials has nothing to do.
RemoverGet ==
  /\ remover = "get"
  /\ \/ exists /\ remover' = "check" /\ seen' = taints /\ UNCHANGED <<tries, troubles>>
     \/ ~exists /\ Retry /\ UNCHANGED troubles
     \/ Trouble /\ (Retry \/ (tries = 0 /\ Finish))
  /\ UNCHANGED <<node, hook, calm, wait>>

checkAllocatable ==
  /\ remover = "check"
  /\ \/ /\ allocatable
        /\ IF "agent" \in seen THEN remover' = "patch" /\ UNCHANGED <<seen, tries>> ELSE Finish
        /\ UNCHANGED troubles
     \/ ~allocatable /\ Retry /\ UNCHANGED troubles
     \/ Trouble /\ Retry
  /\ UNCHANGED <<node, hook, calm, wait>>

Replaced == taints' = seen \ {"agent"}

\* Mutant: a replace without the test.
PatchUntested ==
  \/ exists /\ Replaced /\ ((Finish /\ UNCHANGED troubles) \/ (Trouble /\ Retry))
  \/ ~exists /\ Retry /\ UNCHANGED <<taints, troubles>>
  \/ Trouble /\ Retry /\ UNCHANGED taints

\* The JSON patch: the taints are replaced only if they still are those read.
Patch ==
  \/ exists /\ taints = seen /\ Replaced /\ ((Finish /\ UNCHANGED troubles) \/ (Trouble /\ Retry))
  \/ ~(exists /\ taints = seen) /\ Retry /\ UNCHANGED <<taints, troubles>>
  \/ Trouble /\ Retry /\ UNCHANGED taints

RemoverPatch ==
  /\ remover = "patch"
  /\ Patch
  /\ UNCHANGED <<exists, wanted, allocatable, hook, calm, wait>>

-----------------------------------------------------------------------------
(* PreStop. *)

Idle == UNCHANGED <<node, rem, attached>>

\* kubelet stops the pod, for a drain or for any other reason.
PreStop ==
  /\ hook = "off"
  /\ hook' = "fetch" /\ calm' = Calm
  /\ Idle /\ UNCHANGED <<informer, known, rescan, closes, excused, troubles>>

isNodeBeingDrained == "drain" \in taints

\* Mutant: a node that is gone has no taint, and is not waited for.
fetchNodeGoneIsCalm ==
  /\ hook = "fetch"
  /\ \/ hook' = (IF ~isNodeBeingDrained THEN "skipped" ELSE "check") /\ UNCHANGED troubles
     \/ hook' = "error" /\ Trouble
  /\ Idle /\ UNCHANGED <<calm, informer, known, rescan, closes, excused>>

\* A node that is gone is as good as drained.  waitForVolumeAttachments then
\* starts the informer's goroutine, which lists when it gets to it.
fetchNode ==
  /\ hook = "fetch"
  /\ \/ hook' = (IF exists /\ ~isNodeBeingDrained THEN "skipped" ELSE "check") /\ UNCHANGED troubles
     \/ hook' = "error" /\ Trouble
  /\ Idle /\ UNCHANGED <<calm, informer, known, rescan, closes, excused>>

\* Mutant: the channel is closed without the once.
ReleaseAlways == closes' = closes + 1

release == closes' = IF closes = 0 THEN 1 ELSE closes

NothingLeft == attached \cap Own = {}

\* One List: it fails, and that is logged, or it decides.
checkVolumeAttachments ==
  \/ NothingLeft /\ release /\ UNCHANGED <<excused, troubles>>
  \/ ~NothingLeft /\ UNCHANGED <<closes, excused, troubles>>
  \/ Trouble /\ excused' = TRUE /\ UNCHANGED closes

FirstCheck ==
  /\ hook = "check" /\ hook' = "blocked"
  /\ checkVolumeAttachments
  /\ Idle /\ UNCHANGED <<calm, informer, known, rescan>>

\* The main goroutine wakes up; its end ends the process.
Released ==
  /\ hook = "blocked" /\ closes > 0
  /\ hook' = "ok"
  /\ Idle /\ UNCHANGED <<calm, informer, known, rescan, closes, excused, troubles>>

Watching == informer = "on" /\ closes = 0

\* The informer's own List.  It is late if the main goroutine has seen an
\* attachment that is gone by now: no deletion of it will be told.
InformerLists ==
  /\ hook \in {"check", "blocked"} /\ informer = "off" /\ closes = 0
  /\ informer' = "on" /\ known' = attached
  /\ excused' = (excused \/ (hook = "blocked" /\ NothingLeft))
  /\ Idle /\ UNCHANGED <<hook, calm, rescan, closes, troubles>>

\* Mutant: an object that is no VolumeAttachment is skipped.
ConcernsTyped(a, tombstone) == ~tombstone /\ a \in Own

\* rescanOnAttachmentEvent: a tombstone may be of this node.
Concerns(a, tombstone) == tombstone \/ a \in Own

DeleteFunc(a, tombstone) ==
  /\ hook \in {"check", "blocked"} /\ Watching /\ ~rescan
  /\ a \in known \ attached
  /\ known' = known \ {a}
  /\ rescan' = Concerns(a, tombstone)
  /\ Idle /\ UNCHANGED <<hook, calm, informer, closes, excused, troubles>>

UpdateFunc(a) ==
  /\ hook \in {"check", "blocked"} /\ Watching /\ ~rescan
  /\ a \in known \cap attached
  /\ rescan' = Concerns(a, FALSE)
  /\ Idle /\ UNCHANGED <<hook, calm, informer, known, closes, excused, troubles>>

Rescan ==
  /\ hook \in {"check", "blocked"} /\ rescan
  /\ rescan' = FALSE
  /\ checkVolumeAttachments
  /\ Idle /\ UNCHANGED <<hook, calm, informer, known>>

-----------------------------------------------------------------------------
(* The environment. *)

Outside == UNCHANGED <<rem, hook, informer, known, rescan, closes, excused>>

\* The histories of the taints and of the drain.
Write(t) ==
  /\ exists
  /\ \/ t \notin taints /\ taints' = taints \cup {t} /\ wanted' = wanted \cup {t}
     \/ t \in taints    /\ taints' = taints \ {t}    /\ wanted' = wanted \ {t}
  /\ IF t = "drain" /\ t \notin taints THEN UNCHANGED troubles ELSE Trouble
  /\ calm' = (calm \/ (hook = "fetch" /\ "drain" \notin wanted'))
  /\ Outside /\ UNCHANGED <<exists, allocatable, attached>>

NodeDeleted ==
  /\ exists /\ exists' = FALSE
  /\ Trouble
  /\ taints' = {} /\ wanted' = {}
  /\ Outside /\ UNCHANGED <<allocatable, calm, attached>>

\* kubelet registers the driver, and may take it back.
Register ==
  /\ allocatable' = ~allocatable
  /\ IF allocatable THEN Trouble ELSE UNCHANGED troubles
  /\ Outside /\ UNCHANGED <<exists, taints, wanted, calm, attached>>

Detach(a) ==
  /\ a \in attached /\ attached' = attached \ {a}
  /\ Outside /\ UNCHANGED <<node, calm, troubles>>

\* The watch tells of additions in their order; they have no handler.
Attach(a) ==
  /\ a \notin attached /\ attached' = attached \cup {a}
  /\ Trouble
  /\ known' = IF informer = "on" THEN known \cup {a} ELSE known
  /\ UNCHANGED <<node, rem, hook, calm, informer, rescan, closes, excused>>

Remover == RemoverGet \/ checkAllocatable \/ RemoverPatch

Main == fetchNode \/ FirstCheck \/ Released

Informer ==
  InformerLists \/ Rescan \/ \E a \in Own \cup Others, t \in BOOLEAN : DeleteFunc(a, t)

LifeNext ==
  \/ Remover \/ PreStop \/ Main \/ Informer
  \/ \E a \in Own \cup Others : UpdateFunc(a) \/ Detach(a) \/ Attach(a)
  \/ Write("drain") \/ Write("other") \/ NodeDeleted \/ Register

\* Goroutines run on, and the watch delivers what it saw.
LifeFairness == WF_lifeVars(Main) /\ WF_lifeVars(Informer)

LifeSpec == LifeInit /\ [][LifeNext]_lifeVars /\ LifeFairness

-----------------------------------------------------------------------------
(* Properties. *)

\* The remover never takes away a taint somebody else has put on the node, nor
\* brings back one that was taken away, whatever is written between its read
\* and its patch (node.go, removeNotReadyTaint).
TaintsKept == taints \ {"agent"} = wanted

\* The hook skips the wait only if the node was not being drained at some time
\* since the hook began: a drain that was put on while the start-up taint was
\* being removed is waited for.
DrainIsAwaited == hook = "skipped" => calm

\* "releases the hook once no VolumeAttachment is left for this node"
\* (prestop.go), whatever is attached to other nodes and however the informer
\* tells of it: unless an attachment comes back, a List has failed, or the
\* informer listed only after the last attachment was gone.
HookReleases ==
  (hook = "blocked" /\ NothingLeft) ~> (hook = "ok" \/ ~NothingLeft \/ excused)

\* The same sentence as it stands: "completionSignal releases the hook once no
\* VolumeAttachment is left for this node" (prestop.go).  The hook stays
\* blocked, with every request answered, if the last attachment goes between
\* the first List and the informer's own.
HookReleasesAlways ==
  (hook = "blocked" /\ NothingLeft) ~> (hook = "ok" \/ ~NothingLeft)
=============================================================================
