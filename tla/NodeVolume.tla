----------------------------- MODULE NodeVolume -----------------------------
(***************************************************************************)
(* The node service (pkg/driver/node.go, mount.go) on one volume of one    *)
(* node: stage, publish, unpublish, unstage and expand, over the mounts    *)
(* they make and the in-flight map.                                        *)
(*                                                                         *)
(* kubelet runs one operation on a volume at a time and retries it, but it *)
(* gives up on a call after its timeout while the handler, which ignores   *)
(* its context, runs on.  What kubelet was told is part of the model: it   *)
(* decides which call comes next, and that a volume may be detached.       *)
(***************************************************************************)
EXTENDS Naturals

CONSTANTS
  Targets,    \* target paths: one for each pod that uses the volume
  Staging,    \* the staging target path
  Calls,      \* handler goroutines that can run at the same time
  MaxFaults   \* bound: steps that fail, timeouts of kubelet, restarts, growths

ASSUME NodeAssumption == Staging \notin Targets /\ MaxFaults \in Nat

VARIABLES
  block,     \* the access type of the volume: fixed
  inFlight,  \* InFlight has the volume
  linked,    \* the device is attached, and /dev/disk/by-id has its link
  fs,        \* the filesystem: none yet, smaller than the device, or as large
  stage,     \* the staging path: absent, a bare directory, or mounted
  target,    \* each target path; bare: a mount of the bare staging directory
  pod,       \* the pod of each target path
  told,      \* kubelet's knowledge of each path: no, uncertain, yes
  call,      \* the handlers
  faults

vars    == <<block, inFlight, linked, fs, stage, target, pod, told, call, faults>>
mounts  == <<fs, stage, target>>
kubelet == <<block, linked, pod>>

Paths == Targets \cup {Staging}

Ops == {"stage", "publish", "unpublish", "unstage", "expand"}

PCs == {"device", "dir", "check", "mount", "resize", "probe", "bind", "unmount",
        "find", "ok", "err"}

\* waiting: kubelet has not given the call up.  own: what GetMountFs found is
\* the volume.  full: history, the filesystem was as large as the device at
\* some time during the call.
NoCall ==
  [op |-> "none", path |-> Staging, pc |-> "idle", waiting |-> FALSE,
   own |-> FALSE, full |-> FALSE]

CallRecord ==
  {NoCall} \cup
  [op : Ops, path : Paths, pc : PCs, waiting : BOOLEAN, own : BOOLEAN, full : BOOLEAN]

TypeOK ==
  /\ block \in BOOLEAN /\ inFlight \in BOOLEAN /\ linked \in BOOLEAN
  /\ fs \in {"raw", "small", "full"}
  /\ stage \in {"absent", "dir", "mounted"}
  /\ block => fs = "raw" /\ stage = "absent"
  /\ target \in [Targets -> {"absent", "made", "volume", "bare", "corrupted"}]
  /\ pod \in [Targets -> {"new", "running", "gone"}]
  /\ told \in [Paths -> {"no", "uncertain", "yes"}]
  /\ call \in [Calls -> CallRecord]
  /\ faults \in 0..MaxFaults

Init ==
  /\ block \in BOOLEAN
  /\ inFlight = FALSE /\ linked = FALSE
  /\ fs = "raw" /\ stage = "absent"
  /\ target = [t \in Targets |-> "absent"]
  /\ pod = [t \in Targets |-> "new"]
  /\ told = [p \in Paths |-> "no"]
  /\ call = [c \in Calls |-> NoCall]
  /\ faults = 0

-----------------------------------------------------------------------------
At(c, op, pc) == call[c].op = op /\ call[c].pc = pc

Fault == faults < MaxFaults /\ faults' = faults + 1

\* The call goes on at pc and leaves the filesystem as f, which every call sees.
GotoWith(c, pc, f) ==
  /\ fs' = f
  /\ call' = [d \in Calls |->
                LET next == IF d = c THEN [call[d] EXCEPT !.pc = pc] ELSE call[d]
                IN  IF call[d] = NoCall THEN NoCall ELSE [next EXCEPT !.full = @ \/ f = "full"]]

Goto(c, pc) == call' = [call EXCEPT ![c].pc = pc]

Fails(c) == Goto(c, "err") /\ Fault

-----------------------------------------------------------------------------
(* kubelet's calls.  A volume in flight answers Aborted, which changes     *)
(* nothing.  Expand takes no in-flight key, and neither does the stage of  *)
(* a block volume, which does nothing.                                     *)

Start(c, op, p, first) ==
  /\ call[c] = NoCall
  /\ \A d \in Calls : ~call[d].waiting
  /\ call' = [call EXCEPT ![c] =
       [op |-> op, path |-> p, pc |-> first, waiting |-> TRUE,
        own |-> FALSE, full |-> fs = "full"]]
  /\ told' = [told EXCEPT ![p] = IF op = "expand" THEN @ ELSE "uncertain"]
  /\ UNCHANGED <<kubelet, mounts, faults>>

\* Mutant: the key is taken whether or not somebody holds it.
InsertUnchecked == inFlight' = TRUE

Insert == ~inFlight /\ inFlight' = TRUE

NodeStageVolume(c) ==
  /\ \E t \in Targets : pod[t] = "running"
  /\ told[Staging] # "yes"
  /\ IF block THEN Start(c, "stage", Staging, "ok") /\ UNCHANGED inFlight
     ELSE Start(c, "stage", Staging, "device") /\ Insert

NodePublishVolume(c, t) ==
  /\ pod[t] = "running"
  /\ told[Staging] = "yes" /\ told[t] # "yes"
  /\ Start(c, "publish", t, IF block THEN "device" ELSE "dir") /\ Insert

NodeUnpublishVolume(c, t) ==
  /\ pod[t] = "gone" /\ told[t] # "no"
  /\ Start(c, "unpublish", t, "unmount") /\ Insert

NodeUnstageVolume(c) ==
  /\ \A t \in Targets : pod[t] # "running" /\ told[t] = "no"
  /\ told[Staging] # "no"
  /\ Start(c, "unstage", Staging, "check") /\ Insert

\* kubelet expands a volume it has mounted, at the staging or a target path.
NodeExpandVolume(c, p) ==
  /\ told[Staging] = "yes" /\ told[p] = "yes"
  /\ \E first \in IF block THEN {"ok", "err"} ELSE {"find"} : Start(c, "expand", p, first)
  /\ UNCHANGED inFlight

\* The handler's answer, after the deferred inFlight.Delete.
Answer(c) ==
  /\ call[c].pc \in {"ok", "err"}
  /\ inFlight' = IF call[c].op = "expand" \/ (block /\ call[c].op = "stage") THEN inFlight ELSE FALSE
  /\ told' = IF call[c].waiting /\ call[c].pc = "ok"
             THEN [told EXCEPT ![call[c].path] =
                     IF call[c].op \in {"unpublish", "unstage"} THEN "no" ELSE "yes"]
             ELSE told
  /\ call' = [call EXCEPT ![c] = NoCall]
  /\ UNCHANGED <<kubelet, mounts, faults>>

-----------------------------------------------------------------------------
(* The mounter. *)

\* GetDevicePathBySerialID polls for the link, a bounded number of times.
getDevicePath(c) ==
  /\ call[c].pc = "device"
  /\ \/ linked /\ Goto(c, "dir")
     \/ ~linked /\ Goto(c, "err")
  /\ UNCHANGED <<kubelet, inFlight, mounts, told, faults>>

MakeStagingDir(c) ==
  /\ At(c, "stage", "dir")
  /\ \/ /\ Goto(c, "check") /\ UNCHANGED faults
        /\ stage' = IF stage = "absent" THEN "dir" ELSE stage
     \/ Fails(c) /\ UNCHANGED stage
  /\ UNCHANGED <<kubelet, inFlight, fs, target, told>>

\* The name of the volume's device in the mount table, where mount(8) puts the
\* device itself and not the link it was given; and the name the handler has.
DeviceName == IF stage = "mounted" THEN "device" ELSE "none"

SourceName == "link"

\* Mutant: the names are compared after the links are resolved.
AlreadyStagedResolved == stage = "mounted"

AlreadyStaged == DeviceName = SourceName

GetDeviceNameFromMount(c) ==
  /\ At(c, "stage", "check")
  /\ \/ Goto(c, IF AlreadyStaged THEN "ok" ELSE "mount") /\ UNCHANGED faults
     \/ Fails(c)
  /\ UNCHANGED <<kubelet, inFlight, mounts, told>>

\* FormatAndMount: a device without a filesystem gets one, whether or not the
\* mount succeeds; what is mounted at the path already is not mounted again.
FormatAndMount(c) ==
  LET formatted == IF fs = "raw" THEN "full" ELSE fs
  IN  /\ At(c, "stage", "mount")
      /\ \/ /\ linked /\ stage = "dir"
            /\ GotoWith(c, "resize", formatted) /\ stage' = "mounted" /\ UNCHANGED faults
         \/ /\ ~(linked /\ stage = "dir")
            /\ Goto(c, "err") /\ UNCHANGED <<fs, stage, faults>>
         \/ \E f \in {fs, formatted} : GotoWith(c, "err", f) /\ Fault /\ UNCHANGED stage
      /\ UNCHANGED <<kubelet, inFlight, target, told>>

\* NeedResize and Resize, of the stage and of expand.  findmnt of a path that
\* is not mounted names the filesystem around it, and that is resized.  Expand
\* may still fail after the resize, when it reads the size of the device.
Resize(c) ==
  LET resized == IF call[c].op = "stage" \/ call[c].own THEN "full" ELSE fs
  IN  /\ call[c].pc = "resize"
      /\ \/ GotoWith(c, "ok", resized) /\ UNCHANGED faults
         \/ \E f \in {fs, IF call[c].op = "expand" THEN resized ELSE fs} : GotoWith(c, "err", f) /\ Fault
      /\ UNCHANGED <<kubelet, inFlight, stage, target, told>>

MountedAt(p) == IF p = Staging THEN stage = "mounted" ELSE target[p] = "volume"

\* What findmnt can look at: a path that exists and answers.
Readable(p) == IF p = Staging THEN stage # "absent" ELSE target[p] \notin {"absent", "corrupted"}

GetMountFs(c) ==
  /\ At(c, "expand", "find")
  /\ \/ /\ Readable(call[c].path)
        /\ call' = [call EXCEPT ![c].pc = "resize", ![c].own = MountedAt(call[c].path)]
        /\ UNCHANGED faults
     \/ ~Readable(call[c].path) /\ Goto(c, "err") /\ UNCHANGED faults
     \/ Fails(c)
  /\ UNCHANGED <<kubelet, inFlight, mounts, told>>

\* preparePublishTarget, or the target file of a block volume, which may be
\* removed when it cannot be made.
MakeTarget(c) ==
  LET t == call[c].path
  IN  /\ At(c, "publish", "dir")
      /\ \/ /\ Goto(c, "probe") /\ UNCHANGED faults
            /\ target' = [target EXCEPT ![t] = IF @ = "absent" THEN "made" ELSE @]
         \/ Fails(c) /\ target' \in {target, [target EXCEPT ![t] = IF block /\ @ = "made" THEN "absent" ELSE @]}
      /\ UNCHANGED <<kubelet, inFlight, fs, stage, told>>

\* isMounted: a bind mount of a bare directory does not show, a corrupted mount
\* is unmounted.
isMounted(c) ==
  LET t == call[c].path
  IN  /\ At(c, "publish", "probe")
      /\ \/ /\ Goto(c, IF target[t] = "volume" THEN "ok" ELSE "bind") /\ UNCHANGED faults
            /\ target' = [target EXCEPT ![t] = IF @ = "corrupted" THEN "absent" ELSE @]
         \/ Fails(c) /\ target' \in {target, [target EXCEPT ![t] = IF @ = "corrupted" THEN "made" ELSE @]}
      /\ UNCHANGED <<kubelet, inFlight, fs, stage, told>>

\* Mutant: an error of the bind mount is not looked at.
BindIgnoresError(c) ==
  LET t == call[c].path
  IN  /\ At(c, "publish", "bind")
      /\ Goto(c, "ok")
      /\ \/ /\ target' = [target EXCEPT ![t] = IF block \/ stage = "mounted" THEN "volume" ELSE "bare"]
            /\ UNCHANGED faults
         \/ Fault /\ UNCHANGED target
      /\ UNCHANGED <<kubelet, inFlight, fs, stage, told>>

\* The bind mount of the staging path, or of the device.  The path of a
\* corrupted mount is gone with it, and the mount fails.  The file of a block
\* volume is removed when the mount fails.
Bind(c) ==
  LET t == call[c].path
      shown == IF block \/ stage = "mounted" THEN "volume" ELSE "bare"
  IN  /\ At(c, "publish", "bind")
      /\ \/ /\ target[t] # "absent" /\ (block => linked)
            /\ Goto(c, "ok") /\ UNCHANGED faults
            /\ target' = [target EXCEPT ![t] = shown]
         \/ /\ target[t] = "absent" \/ (block /\ ~linked)
            /\ Goto(c, "err") /\ UNCHANGED faults
            /\ target' = [target EXCEPT ![t] = IF block THEN "absent" ELSE @]
         \/ Fails(c) /\ target' = [target EXCEPT ![t] = IF block THEN "absent" ELSE @]
      /\ UNCHANGED <<kubelet, inFlight, fs, stage, told>>

\* CleanupMountPoint of a target: unmount, then remove the path.  Either may
\* fail; the error that nothing is mounted is taken for success and leaves the
\* path.
Unpublish(c) ==
  LET t == call[c].path
  IN  /\ At(c, "unpublish", "unmount")
      /\ \/ /\ Goto(c, "ok") /\ UNCHANGED faults
            /\ \E left \in {"absent"} \cup ({target[t]} \cap {"made"}) : target' = [target EXCEPT ![t] = left]
         \/ Fails(c) /\ target' \in {target, [target EXCEPT ![t] = IF @ = "absent" THEN @ ELSE "made"]}
      /\ UNCHANGED <<kubelet, inFlight, fs, stage, told>>

\* Mutant: a staging path that is not mounted is an error.
RefCountNotIdempotent(c) ==
  /\ At(c, "unstage", "check")
  /\ Goto(c, IF stage = "mounted" THEN "unmount" ELSE "err")
  /\ UNCHANGED <<kubelet, inFlight, mounts, told, faults>>

\* A staging path that is not mounted is unstaged already.
RefCount(c) ==
  /\ At(c, "unstage", "check")
  /\ \/ Goto(c, IF stage = "mounted" THEN "unmount" ELSE "ok") /\ UNCHANGED faults
     \/ Fails(c)
  /\ UNCHANGED <<kubelet, inFlight, mounts, told>>

Unstage(c) ==
  /\ At(c, "unstage", "unmount")
  /\ \/ Goto(c, "ok") /\ stage' = "absent" /\ UNCHANGED faults
     \/ Fails(c) /\ stage' \in {stage, "dir"}
  /\ UNCHANGED <<kubelet, inFlight, fs, target, told>>

-----------------------------------------------------------------------------
(* The environment. *)

PodRuns(t) ==
  /\ pod[t] = "new" /\ pod' = [pod EXCEPT ![t] = "running"]
  /\ UNCHANGED <<block, inFlight, linked, mounts, told, call, faults>>

PodLeaves(t) ==
  /\ pod[t] = "running" /\ pod' = [pod EXCEPT ![t] = "gone"]
  /\ UNCHANGED <<block, inFlight, linked, mounts, told, call, faults>>

\* The controller attaches the volume for a pod, and detaches it once kubelet
\* has no use of it.
Link ==
  /\ ~linked /\ \E t \in Targets : pod[t] = "running"
  /\ linked' = TRUE
  /\ UNCHANGED <<block, inFlight, mounts, pod, told, call, faults>>

Unlink ==
  /\ linked /\ \A p \in Paths : told[p] = "no"
  /\ linked' = FALSE
  /\ UNCHANGED <<block, inFlight, mounts, pod, told, call, faults>>

\* The controller has expanded the volume.
Grow ==
  /\ fs = "full" /\ Fault
  /\ fs' = "small"
  /\ UNCHANGED <<kubelet, inFlight, stage, target, told, call>>

Corrupt(t) ==
  /\ ~block /\ target[t] = "volume" /\ Fault
  /\ target' = [target EXCEPT ![t] = "corrupted"]
  /\ UNCHANGED <<kubelet, inFlight, fs, stage, told, call>>

\* kubelet's timeout: the handler runs on.
GiveUp(c) ==
  /\ call[c].waiting /\ Fault
  /\ call' = [call EXCEPT ![c].waiting = FALSE]
  /\ UNCHANGED <<kubelet, inFlight, mounts, told>>

\* The plugin's process dies; the mounts stay.
Restart ==
  /\ Fault
  /\ inFlight' = FALSE
  /\ call' = [c \in Calls |-> NoCall]
  /\ UNCHANGED <<kubelet, mounts, told>>

Handler(c) ==
  \/ getDevicePath(c) \/ MakeStagingDir(c) \/ GetDeviceNameFromMount(c) \/ FormatAndMount(c)
  \/ Resize(c) \/ GetMountFs(c) \/ MakeTarget(c) \/ isMounted(c) \/ Bind(c)
  \/ Unpublish(c) \/ RefCount(c) \/ Unstage(c) \/ Answer(c)

TearDown(c) == NodeUnstageVolume(c) \/ \E t \in Targets : NodeUnpublishVolume(c, t)

Next ==
  \/ \E c \in Calls :
       \/ Handler(c) \/ TearDown(c) \/ GiveUp(c)
       \/ NodeStageVolume(c)
       \/ (\E t \in Targets : NodePublishVolume(c, t))
       \/ (\E p \in Paths : NodeExpandVolume(c, p))
  \/ \E t \in Targets : PodRuns(t) \/ PodLeaves(t) \/ Corrupt(t)
  \/ Link \/ Unlink \/ Grow \/ Restart

\* Handlers run on and end: every poll and every mount command is bounded.
\* kubelet retries the teardown of a pod that is gone until it is told OK,
\* also when the volume is in flight now and then.
Fairness ==
  /\ \A c \in Calls : WF_vars(Handler(c))
  /\ SF_vars(\E c \in Calls : TearDown(c))

Spec == Init /\ [][Next]_vars /\ Fairness

-----------------------------------------------------------------------------
(* Properties. *)

\* A pod whose publish was answered OK sees the volume, never the bare staging
\* directory on the node's own disk: nodePublishVolumeForFileSystem does not
\* look at what the staging path is, and relies on every handler before it.
PublishedShowsVolume ==
  \A t \in Targets : told[t] = "yes" => target[t] \in {"volume", "corrupted"}

\* Once kubelet was told that nothing is staged or published, and lets the
\* volume be detached, nothing of it is mounted, nor will a handler that
\* kubelet gave up on mount it.
UnstagedIsFree ==
  (\A p \in Paths : told[p] = "no") =>
    /\ stage # "mounted"
    /\ \A t \in Targets : target[t] \in {"absent", "made"}
    /\ ~\E c \in Calls : call[c].pc \in {"mount", "bind"} /\ ~call[c].waiting

\* UnstagedIsFree, of mounts that a volume of this mode can have.
MountInv == TypeOK /\ UnstagedIsFree

\* A stage or an expand is answered OK only if the filesystem filled the
\* device at some time during the call, whatever an earlier attempt left
\* undone.
OKMeansResized ==
  \A c \in Calls : call[c].op \in {"stage", "expand"} /\ call[c].pc = "ok" /\ call[c].waiting =>
    block \/ call[c].full

\* When its pods are gone the volume is unstaged in the end, whichever steps
\* failed on the way up or down.
TeardownCompletes ==
  (\A t \in Targets : pod[t] = "gone") ~> (\A p \in Paths : told[p] = "no")
=============================================================================
