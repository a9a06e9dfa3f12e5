----------------------------- MODULE NodeProofs -----------------------------
(***************************************************************************)
(* The safety properties of the node's two machines, which share no name:  *)
(* NodeVolume, for every set of target paths and handlers and every number *)
(* of faults, and NodeLifecycle (LifeInit, LifeNext, lifeVars), for every  *)
(* set of VolumeAttachments and every number of tries of the remover.      *)
(*                                                                         *)
(* The handlers look at little: that kubelet's knowledge of a path is true *)
(* rests on the in-flight key, which keeps a handler that kubelet gave up  *)
(* from meeting the next one, and on kubelet, which takes a path for       *)
(* uncertain from the moment it starts a call on it.                       *)
(*                                                                         *)
(* The taints of the others survive because the patch compares what it     *)
(* replaces with what it has read.  That a drain is awaited needs one more *)
(* fact: a hook that has not read the node yet has already seen it calm if *)
(* the node is calm now.                                                   *)
(***************************************************************************)
EXTENDS NodeVolume, NodeLifecycle, TLAPS

-----------------------------------------------------------------------------
(* NodeVolume *)

\* The calls that take the in-flight key.
Keyed(r) == r.op \in {"publish", "unpublish", "unstage"} \/ (r.op = "stage" /\ ~block)

\* The path of a call, and where a call of each kind can be: a block volume is
\* not staged, unmounted from the staging path or resized.
OnPath(op, path) ==
  /\ op \in {"stage", "unstage"} => path = Staging
  /\ op \in {"publish", "unpublish"} => path \in Targets

PlacedAt(op, pc) ==
  /\ op = "stage" /\ block => pc = "ok"
  /\ op = "stage" => pc \in {"device", "dir", "check", "mount", "resize", "ok", "err"}
  /\ op = "unstage" => pc \in {"check", "unmount", "ok", "err"} /\ (block => pc # "unmount")
  /\ op = "publish" => pc \in {"device", "dir", "probe", "bind", "ok", "err"}
  /\ op = "unpublish" => pc \in {"unmount", "ok", "err"}
  /\ op = "expand" => pc \in {"find", "resize", "ok", "err"} /\ (block => pc \in {"ok", "err"})

Placed == \A c \in Calls : OnPath(call[c].op, call[c].path) /\ PlacedAt(call[c].op, call[c].pc)

\* One call at a time has the key, and kubelet waits for one call at a time.
KeyHeld ==
  \A c \in Calls : Keyed(call[c]) => inFlight /\ \A d \in Calls : Keyed(call[d]) => d = c

OneWaits == \A c, d \in Calls : call[c].waiting /\ call[d].waiting => c = d

\* kubelet takes no path for settled that a call with the key is working on;
\* an expand that it waits for is of a path it knows to be there.
PathsUncertain ==
  \A c \in Calls : Keyed(call[c]) /\ (~block \/ call[c].path \in Targets) =>
    told[call[c].path] = "uncertain"

ExpandKnows ==
  \A c \in Calls : call[c].op = "expand" /\ call[c].waiting => told[call[c].path] = "yes"

\* What kubelet was told is true.
TargetsKnown ==
  \A t \in Targets :
    /\ told[t] = "yes" => target[t] \in {"volume", "corrupted"}
    /\ told[t] = "no" => target[t] \in {"absent", "made"}

StageKnown ==
  ~block =>
    /\ told[Staging] = "yes" => stage = "mounted"
    /\ told[Staging] = "no" => stage # "mounted"

\* What a call r has achieved is still there, and a publish binds what is
\* mounted.
Achieved(r) ==
  /\ r.op = "publish" /\ ~block => stage = "mounted"
  /\ r.op = "publish" /\ r.pc = "ok" => target[r.path] \in {"volume", "corrupted"}
  /\ r.op = "unpublish" /\ r.pc = "ok" => target[r.path] \in {"absent", "made"}
  /\ r.op = "stage" /\ ~block /\ r.pc \in {"resize", "ok"} => stage = "mounted"
  /\ r.op = "unstage" /\ r.pc = "ok" => stage # "mounted"

CallsAchieved == \A c \in Calls : Achieved(call[c])

\* An expand that kubelet waits for resizes the volume and nothing else, and
\* has filled the device when it is done.
Resized(r) ==
  /\ r.op = "expand" /\ r.pc = "resize" /\ r.waiting => r.own
  /\ r.op \in {"stage", "expand"} /\ r.pc = "ok" /\ r.waiting => block \/ r.full

CallsResize == \A c \in Calls : Resized(call[c])

IInv ==
  /\ TypeOK /\ Placed /\ KeyHeld /\ OneWaits /\ PathsUncertain /\ ExpandKnows
  /\ TargetsKnown /\ StageKnown /\ CallsAchieved /\ CallsResize

-----------------------------------------------------------------------------
(* The calls. *)

ActiveCall ==
  [op : Ops, path : Paths, pc : PCs, waiting : BOOLEAN, own : BOOLEAN, full : BOOLEAN]

\* A call is active or none.
LEMMA ActiveOrNone ==
  ASSUME TypeOK, NEW c \in Calls
  PROVE  /\ call[c] = NoCall \/ call[c] \in ActiveCall
         /\ call[c].op # "none" => call[c] \in ActiveCall
         /\ call[c].pc # "idle" => call[c] \in ActiveCall
         /\ call[c].waiting => call[c] \in ActiveCall
<1>1. call[c] = NoCall \/ call[c] \in ActiveCall
  BY DEF TypeOK, CallRecord, ActiveCall
<1>2. NoCall.op = "none" /\ NoCall.pc = "idle" /\ NoCall.waiting = FALSE
  BY DEF NoCall
<1> QED
  BY <1>1, <1>2

\* A call of a kind is active.
LEMMA ActiveFacts ==
  ASSUME NEW r \in ActiveCall
  PROVE  /\ r # NoCall /\ r \in CallRecord /\ r.op \in Ops /\ r.op # "none" /\ r.path \in Paths
         /\ r.pc \in PCs /\ r.waiting \in BOOLEAN /\ r.own \in BOOLEAN /\ r.full \in BOOLEAN
<1>1. /\ r \in CallRecord /\ r.op \in Ops /\ r.path \in Paths
      /\ r.pc \in PCs /\ r.waiting \in BOOLEAN /\ r.own \in BOOLEAN /\ r.full \in BOOLEAN
  BY DEF ActiveCall, CallRecord
<1>2. r.op # "none"
  BY <1>1 DEF Ops
<1>3. NoCall.op = "none"
  BY DEF NoCall
<1> QED
  BY <1>1, <1>2, <1>3

\* The call c goes on to the place `to'; of the other calls nothing changes
\* but their history.
Advances(c, to) ==
  /\ call' \in [Calls -> CallRecord]
  /\ call[c] \in ActiveCall /\ call'[c].pc = to
  /\ \A d \in Calls :
       /\ call'[d].op = call[d].op /\ call'[d].path = call[d].path
       /\ call'[d].waiting = call[d].waiting
       /\ call[d].full => call'[d].full
  /\ \A d \in Calls \ {c} : call'[d].pc = call[d].pc /\ call'[d].own = call[d].own

\* Adding to the history of an active call keeps the call.
LEMMA HistoryUpdate ==
  ASSUME NEW r \in ActiveCall, NEW b \in BOOLEAN, NEW q, q = [r EXCEPT !.full = b]
  PROVE  /\ q \in ActiveCall /\ q.pc = r.pc /\ q.op = r.op /\ q.path = r.path
         /\ q.waiting = r.waiting /\ q.own = r.own /\ q.full = b
BY DEF ActiveCall

\* Goto is such a step, and keeps what the call found.
LEMMA GotoAdvances ==
  ASSUME TypeOK, NEW c \in Calls, call[c] \in ActiveCall, NEW to \in PCs, Goto(c, to)
  PROVE  Advances(c, to) /\ call'[c].own = call[c].own
<1> DEFINE r == [call[c] EXCEPT !.pc = to]
<1>1. call \in [Calls -> CallRecord] /\ call' = [call EXCEPT ![c] = r]
  BY DEF TypeOK, Goto
<1>2. /\ r \in ActiveCall /\ r.pc = to /\ r.op = call[c].op /\ r.path = call[c].path
      /\ r.waiting = call[c].waiting /\ r.own = call[c].own /\ r.full = call[c].full
  BY DEF ActiveCall
<1> HIDE DEF r
<1>3. r \in CallRecord
  BY <1>2, ActiveFacts
<1>4. call'[c] = r /\ (\A d \in Calls \ {c} : call'[d] = call[d]) /\ call' \in [Calls -> CallRecord]
  BY <1>1, <1>3
<1> QED
  BY <1>2, <1>4 DEF Advances

\* GotoWith is one too, and all calls see a filesystem that fills the device.
LEMMA GotoWithAdvances ==
  ASSUME TypeOK, NEW c \in Calls, call[c] \in ActiveCall, NEW to \in PCs, NEW f, GotoWith(c, to, f)
  PROVE  /\ Advances(c, to) /\ call'[c].own = call[c].own /\ fs' = f
         /\ f = "full" => call'[c].full
<1> DEFINE next(d) == IF d = c THEN [call[d] EXCEPT !.pc = to] ELSE call[d]
           after(d) == IF call[d] = NoCall THEN NoCall
                       ELSE [next(d) EXCEPT !.full = next(d).full \/ f = "full"]
<1>1. fs' = f /\ call' = [d \in Calls |-> after(d)]
  BY DEF GotoWith
<1>2. ASSUME NEW d \in Calls
      PROVE  /\ after(d) \in CallRecord
             /\ after(d).op = call[d].op /\ after(d).path = call[d].path
             /\ after(d).waiting = call[d].waiting /\ after(d).own = call[d].own
             /\ call[d].full => after(d).full
             /\ d # c => after(d).pc = call[d].pc
             /\ d = c => after(d).pc = to /\ (f = "full" => after(d).full)
  <2>1. CASE call[d] = NoCall
    <3>1. after(d) = NoCall /\ NoCall \in CallRecord /\ d # c
      BY <2>1, ActiveFacts DEF CallRecord
    <3> QED
      BY <2>1, <3>1
  <2>2. CASE call[d] \in ActiveCall
    <3> DEFINE b == next(d).full \/ f = "full"
    <3>1. /\ next(d) \in ActiveCall /\ next(d).op = call[d].op /\ next(d).path = call[d].path
          /\ next(d).waiting = call[d].waiting /\ next(d).own = call[d].own
          /\ next(d).full = call[d].full
          /\ d # c => next(d).pc = call[d].pc
          /\ d = c => next(d).pc = to
      <4>1. CASE d = c
        BY <2>2, <4>1 DEF ActiveCall
      <4>2. CASE d # c
        BY <2>2, <4>2
      <4> QED
        BY <4>1, <4>2
    <3> HIDE DEF next
    <3>2. b \in BOOLEAN /\ (next(d).full => b) /\ (f = "full" => b)
      BY <3>1, ActiveFacts
    <3>3. after(d) = [next(d) EXCEPT !.full = b]
      BY <2>2, ActiveFacts
    <3> HIDE DEF b, after
    <3>4. /\ after(d) \in ActiveCall /\ after(d).full = b /\ after(d).op = next(d).op
          /\ after(d).path = next(d).path /\ after(d).waiting = next(d).waiting
          /\ after(d).own = next(d).own /\ after(d).pc = next(d).pc
      BY <3>1, <3>2, <3>3, HistoryUpdate
    <3>5. after(d) \in CallRecord
      BY <3>4, ActiveFacts
    <3> QED
      BY <3>1, <3>2, <3>4, <3>5
  <2> HIDE DEF after
  <2> QED
    BY <2>1, <2>2, ActiveOrNone
<1> HIDE DEF after
<1>3. \A d \in Calls : call'[d] = after(d)
  BY <1>1
<1>4. call' \in [Calls -> CallRecord]
  BY <1>1, <1>2
<1>5. Advances(c, to)
  BY <1>2, <1>3, <1>4 DEF Advances
<1> QED
  BY <1>1, <1>2, <1>3, <1>5

-----------------------------------------------------------------------------
(* The steps of a handler before its answer. *)

Working(c) ==
  \/ getDevicePath(c) \/ MakeStagingDir(c) \/ GetDeviceNameFromMount(c) \/ FormatAndMount(c)
  \/ Resize(c) \/ GetMountFs(c) \/ MakeTarget(c) \/ isMounted(c) \/ Bind(c)
  \/ Unpublish(c) \/ RefCount(c) \/ Unstage(c)

MountsTyped ==
  /\ fs \in {"raw", "small", "full"} /\ stage \in {"absent", "dir", "mounted"}
  /\ block => fs = "raw" /\ stage = "absent"
  /\ target \in [Targets -> {"absent", "made", "volume", "bare", "corrupted"}]

\* A handler touches the path it was called for, and only with the key.
OwnPathOnly(c) ==
  /\ stage' = stage \/ (Keyed(call[c]) /\ call[c].path = Staging /\ ~block)
  /\ \A t \in Targets : target'[t] = target[t] \/ (Keyed(call[c]) /\ call[c].path = t)

\* What a handler has achieved when it comes to the place `to'.
Outcome(c, to) ==
  /\ PlacedAt(call[c].op, to)
  /\ call[c].op = "publish" => stage' = stage
  /\ call[c].op = "publish" /\ to = "ok" => target'[call[c].path] \in {"volume", "corrupted"}
  /\ call[c].op = "unpublish" /\ to = "ok" => target'[call[c].path] \in {"absent", "made"}
  /\ call[c].op = "stage" /\ ~block /\ to \in {"resize", "ok"} => stage' = "mounted"
  /\ call[c].op = "unstage" /\ to = "ok" => stage' # "mounted"
  /\ call[c].op = "expand" /\ to = "resize" /\ call[c].waiting => call'[c].own
  /\ call[c].op \in {"stage", "expand"} /\ to = "ok" /\ call[c].waiting => block \/ call'[c].full

Leaves(c, to) ==
  /\ Advances(c, to) /\ UNCHANGED <<block, inFlight, linked, pod, told>>
  /\ Fault \/ UNCHANGED faults
  /\ MountsTyped' /\ OwnPathOnly(c) /\ Outcome(c, to)

\* A step that leaves the mounts alone.
LEMMA MountsKept ==
  ASSUME TypeOK, UNCHANGED <<block, fs, stage, target>>, NEW c
  PROVE  MountsTyped' /\ OwnPathOnly(c)
BY DEF TypeOK, MountsTyped, OwnPathOnly

\* A step that writes the target path of a call with the key.
LEMMA TargetWritten ==
  ASSUME TypeOK, UNCHANGED <<block, fs, stage>>, NEW c \in Calls, Keyed(call[c]),
         call[c].path \in Targets, NEW x \in {"absent", "made", "volume", "bare", "corrupted"},
         target' = [target EXCEPT ![call[c].path] = x]
  PROVE  MountsTyped' /\ OwnPathOnly(c) /\ target'[call[c].path] = x
BY DEF TypeOK, MountsTyped, OwnPathOnly

\* A step that writes the staging path of a filesystem volume.
LEMMA StageWritten ==
  ASSUME TypeOK, UNCHANGED <<block, target>>, NEW c \in Calls, Keyed(call[c]),
         call[c].path = Staging, ~block,
         stage' \in {"absent", "dir", "mounted"}, fs' \in {"raw", "small", "full"}
  PROVE  MountsTyped' /\ OwnPathOnly(c)
BY DEF TypeOK, MountsTyped, OwnPathOnly

\* The places, as the steps need them.
LEMMA PlaceFacts == {"device", "dir", "check", "mount", "resize", "probe", "bind", "ok", "err", "unmount"} \subseteq PCs
BY DEF PCs

\* The steps of a stage.
LEMMA StageLeaves ==
  ASSUME IInv, NEW c \in Calls,
         MakeStagingDir(c) \/ GetDeviceNameFromMount(c) \/ FormatAndMount(c)
  PROVE  \E to \in PCs : Leaves(c, to)
<1> USE DEF kubelet, mounts
<1>0. TypeOK /\ call[c].op = "stage" /\ call[c].pc \in {"dir", "check", "mount"}
  BY DEF IInv, MakeStagingDir, GetDeviceNameFromMount, FormatAndMount, At
<1>1. call[c] \in ActiveCall
  BY <1>0, ActiveOrNone
<1>2. ~block /\ call[c].path = Staging /\ Keyed(call[c])
  BY <1>0 DEF IInv, Placed, OnPath, PlacedAt, Keyed
<1>t. fs \in {"raw", "small", "full"} /\ stage \in {"absent", "dir", "mounted"}
  BY <1>0 DEF TypeOK
<1>3. CASE MakeStagingDir(c)
  <2>1. /\ UNCHANGED <<block, inFlight, linked, pod, told, fs, target>>
        /\ \/ Goto(c, "check") /\ UNCHANGED faults /\ stage' = IF stage = "absent" THEN "dir" ELSE stage
           \/ Goto(c, "err") /\ Fault /\ UNCHANGED stage
    BY <1>3 DEF MakeStagingDir, Fails
  <2>2. stage' \in {"absent", "dir", "mounted"}
    BY <1>t, <2>1
  <2>3. MountsTyped' /\ OwnPathOnly(c)
    BY <1>0, <1>2, <1>t, <2>1, <2>2, StageWritten
  <2>4. PICK to \in {"check", "err"} : Goto(c, to) /\ (Fault \/ UNCHANGED faults)
    BY <2>1
  <2>5. Advances(c, to) /\ to \in PCs
    BY <1>0, <1>1, <2>4, GotoAdvances, PlaceFacts
  <2>6. Outcome(c, to)
    BY <1>0, <1>2, <2>4 DEF Outcome, PlacedAt
  <2> QED
    BY <2>1, <2>3, <2>4, <2>5, <2>6 DEF Leaves
<1>4. CASE GetDeviceNameFromMount(c)
  <2>1. ~AlreadyStaged
    BY DEF AlreadyStaged, DeviceName, SourceName
  <2>2. /\ UNCHANGED <<block, inFlight, linked, pod, told, fs, stage, target>>
        /\ (Goto(c, "mount") /\ UNCHANGED faults) \/ (Goto(c, "err") /\ Fault)
    BY <1>4, <2>1 DEF GetDeviceNameFromMount, Fails
  <2>3. PICK to \in {"mount", "err"} : Goto(c, to) /\ (Fault \/ UNCHANGED faults)
    BY <2>2
  <2>4. Advances(c, to) /\ to \in PCs
    BY <1>0, <1>1, <2>3, GotoAdvances, PlaceFacts
  <2>5. Outcome(c, to)
    BY <1>0, <1>2, <2>3 DEF Outcome, PlacedAt
  <2> QED
    BY <1>0, <2>2, <2>3, <2>4, <2>5, MountsKept DEF Leaves
<1>5. CASE FormatAndMount(c)
  <2> DEFINE formatted == IF fs = "raw" THEN "full" ELSE fs
  <2>1. /\ UNCHANGED <<block, inFlight, linked, pod, told, target>>
        /\ \/ GotoWith(c, "resize", formatted) /\ stage' = "mounted" /\ UNCHANGED faults
           \/ Goto(c, "err") /\ UNCHANGED <<fs, stage, faults>>
           \/ \E f \in {fs, formatted} : GotoWith(c, "err", f) /\ Fault /\ UNCHANGED stage
    BY <1>5 DEF FormatAndMount
  <2>2. formatted \in {"raw", "small", "full"}
    BY <1>t
  <2> HIDE DEF formatted
  <2>3. CASE GotoWith(c, "resize", formatted) /\ stage' = "mounted" /\ UNCHANGED faults
    <3>1. Advances(c, "resize") /\ "resize" \in PCs /\ fs' = formatted
      BY <1>0, <1>1, <2>3, GotoWithAdvances, PlaceFacts
    <3>2. MountsTyped' /\ OwnPathOnly(c)
      BY <1>0, <1>2, <2>1, <2>2, <2>3, <3>1, StageWritten
    <3>3. Outcome(c, "resize")
      BY <1>0, <1>2, <2>3 DEF Outcome, PlacedAt
    <3> QED
      BY <2>1, <2>3, <3>1, <3>2, <3>3 DEF Leaves
  <2>4. Outcome(c, "err")
    BY <1>0, <1>2 DEF Outcome, PlacedAt
  <2>5. CASE Goto(c, "err") /\ UNCHANGED <<fs, stage, faults>>
    <3>1. Advances(c, "err") /\ "err" \in PCs
      BY <1>0, <1>1, <2>5, GotoAdvances, PlaceFacts
    <3> QED
      BY <1>0, <2>1, <2>4, <2>5, <3>1, MountsKept DEF Leaves
  <2>6. ASSUME NEW f \in {fs, formatted}, GotoWith(c, "err", f) /\ Fault /\ UNCHANGED stage
        PROVE  \E to \in PCs : Leaves(c, to)
    <3>1. Advances(c, "err") /\ "err" \in PCs /\ fs' = f
      BY <1>0, <1>1, <2>6, GotoWithAdvances, PlaceFacts
    <3>2. MountsTyped' /\ OwnPathOnly(c)
      BY <1>0, <1>2, <1>t, <2>1, <2>2, <2>6, <3>1, StageWritten
    <3> QED
      BY <2>1, <2>4, <2>6, <3>1, <3>2 DEF Leaves
  <2> QED
    BY <2>1, <2>3, <2>5, <2>6
<1> QED
  BY <1>3, <1>4, <1>5

\* The wait for the device, of a stage and of the publish of a block volume.
LEMMA DeviceLeaves ==
  ASSUME IInv, NEW c \in Calls, getDevicePath(c)
  PROVE  \E to \in PCs : Leaves(c, to)
<1>0. TypeOK /\ call[c].pc = "device"
  BY DEF IInv, getDevicePath
<1>1. call[c] \in ActiveCall
  BY <1>0, ActiveOrNone
<1>2. call[c].op \in {"stage", "publish"} /\ (call[c].op = "stage" => ~block)
  BY <1>0, <1>1, ActiveFacts DEF IInv, Placed, PlacedAt, Ops
<1>3. UNCHANGED <<block, inFlight, linked, pod, told, fs, stage, target, faults>>
  BY DEF getDevicePath, kubelet, mounts
<1>4. PICK to \in {"dir", "err"} : Goto(c, to)
  BY DEF getDevicePath
<1>5. Advances(c, to) /\ to \in PCs
  BY <1>0, <1>1, <1>4, GotoAdvances, PlaceFacts
<1>6. Outcome(c, to)
  BY <1>2, <1>3, <1>4 DEF Outcome, PlacedAt
<1> QED
  BY <1>0, <1>3, <1>5, <1>6, MountsKept DEF Leaves

\* The resize of a stage or of an expand, and the read before the latter.
LEMMA ResizeLeaves ==
  ASSUME IInv, NEW c \in Calls, Resize(c)
  PROVE  \E to \in PCs : Leaves(c, to)
<1> USE DEF kubelet
<1>0. TypeOK /\ call[c].pc = "resize"
  BY DEF IInv, Resize
<1>1. call[c] \in ActiveCall
  BY <1>0, ActiveOrNone
<1>2. call[c].op \in {"stage", "expand"} /\ ~block
  BY <1>0, <1>1, ActiveFacts DEF IInv, Placed, PlacedAt, Ops
<1>3. /\ call[c].op = "stage" => stage = "mounted"
      /\ call[c].op = "expand" /\ call[c].waiting => call[c].own
  BY <1>0, <1>2 DEF IInv, CallsAchieved, Achieved, CallsResize, Resized
<1> DEFINE resized == IF call[c].op = "stage" \/ call[c].own THEN "full" ELSE fs
<1>4. /\ UNCHANGED <<block, inFlight, linked, pod, told, stage, target>>
      /\ \/ GotoWith(c, "ok", resized) /\ UNCHANGED faults
         \/ \E f \in {fs, IF call[c].op = "expand" THEN resized ELSE fs} : GotoWith(c, "err", f) /\ Fault
  BY DEF Resize
<1>5. fs \in {"raw", "small", "full"} /\ resized \in {"raw", "small", "full"}
  BY <1>0 DEF TypeOK
<1>6. call[c].waiting => resized = "full"
  BY <1>2, <1>3
<1> HIDE DEF resized
<1>7. ASSUME fs' \in {"raw", "small", "full"}
      PROVE  MountsTyped' /\ OwnPathOnly(c)
  BY <1>0, <1>2, <1>4, <1>7 DEF TypeOK, MountsTyped, OwnPathOnly
<1>8. CASE GotoWith(c, "ok", resized) /\ UNCHANGED faults
  <2>1. /\ Advances(c, "ok") /\ "ok" \in PCs /\ fs' = resized
        /\ resized = "full" => call'[c].full
    BY <1>0, <1>1, <1>8, GotoWithAdvances, PlaceFacts
  <2>2. MountsTyped' /\ OwnPathOnly(c)
    BY <1>5, <1>7, <2>1
  <2>3. Outcome(c, "ok")
    BY <1>2, <1>3, <1>4, <1>6, <2>1 DEF Outcome, PlacedAt
  <2> QED
    BY <1>4, <1>8, <2>1, <2>2, <2>3 DEF Leaves
<1>9. ASSUME NEW f \in {fs, IF call[c].op = "expand" THEN resized ELSE fs},
             GotoWith(c, "err", f) /\ Fault
      PROVE  \E to \in PCs : Leaves(c, to)
  <2>1. Advances(c, "err") /\ "err" \in PCs /\ fs' = f
    BY <1>0, <1>1, <1>9, GotoWithAdvances, PlaceFacts
  <2>2. MountsTyped' /\ OwnPathOnly(c)
    BY <1>5, <1>7, <1>9, <2>1
  <2>3. Outcome(c, "err")
    BY <1>2 DEF Outcome, PlacedAt
  <2> QED
    BY <1>4, <1>9, <2>1, <2>2, <2>3 DEF Leaves
<1> QED
  BY <1>4, <1>8, <1>9

\* An expand that kubelet waits for finds the volume, or nothing to read.
LEMMA FindLeaves ==
  ASSUME IInv, NEW c \in Calls, GetMountFs(c)
  PROVE  \E to \in PCs : Leaves(c, to)
<1> USE DEF kubelet, mounts
<1>0. TypeOK /\ call[c].op = "expand" /\ call[c].pc = "find"
  BY DEF IInv, GetMountFs, At
<1>1. call[c] \in ActiveCall /\ call \in [Calls -> CallRecord]
  BY <1>0, ActiveOrNone DEF TypeOK
<1>2. ~block /\ call[c].path \in Paths
  BY <1>0, <1>1, ActiveFacts DEF IInv, Placed, PlacedAt
<1>3. UNCHANGED <<block, inFlight, linked, pod, told, fs, stage, target>>
  BY DEF GetMountFs
<1>4. MountsTyped' /\ OwnPathOnly(c)
  BY <1>0, <1>3, MountsKept
<1>5. ASSUME Readable(call[c].path),
             call' = [call EXCEPT ![c].pc = "resize", ![c].own = MountedAt(call[c].path)],
             UNCHANGED faults
      PROVE  \E to \in PCs : Leaves(c, to)
  <2> DEFINE own == MountedAt(call[c].path)
             r == [call[c] EXCEPT !.pc = "resize", !.own = own]
  <2>1. own \in BOOLEAN
    BY DEF MountedAt
  <2>2. call' = [call EXCEPT ![c] = r]
    BY <1>1, <1>5
  <2>3. call[c].waiting => own
    <3>1. CASE call[c].waiting
      <4>1. told[call[c].path] = "yes"
        BY <1>0, <3>1 DEF IInv, ExpandKnows
      <4>2. CASE call[c].path = Staging
        BY <1>2, <4>1, <4>2 DEF IInv, StageKnown, MountedAt
      <4>3. CASE call[c].path # Staging
        <5>1. call[c].path \in Targets
          BY <1>2, <4>3 DEF Paths
        <5>2. target[call[c].path] \in {"volume", "corrupted"}
          BY <4>1, <5>1 DEF IInv, TargetsKnown
        <5> QED
          BY <1>5, <4>3, <5>2 DEF Readable, MountedAt
      <4> QED
        BY <4>2, <4>3
    <3> QED
      BY <3>1
  <2> HIDE DEF own
  <2>4. /\ r \in ActiveCall /\ r.pc = "resize" /\ r.op = call[c].op /\ r.path = call[c].path
        /\ r.waiting = call[c].waiting /\ r.own = own /\ r.full = call[c].full
    BY <1>1, <2>1, PlaceFacts DEF ActiveCall
  <2> HIDE DEF r
  <2>5. r \in CallRecord
    BY <2>4, ActiveFacts
  <2>6. call'[c] = r /\ (\A d \in Calls \ {c} : call'[d] = call[d]) /\ call' \in [Calls -> CallRecord]
    BY <1>1, <2>2, <2>5
  <2>7. Advances(c, "resize") /\ "resize" \in PCs
    BY <1>1, <2>4, <2>6, PlaceFacts DEF Advances
  <2>8. Outcome(c, "resize")
    BY <1>0, <1>2, <2>3, <2>4, <2>6 DEF Outcome, PlacedAt
  <2> QED
    BY <1>3, <1>4, <1>5, <2>7, <2>8 DEF Leaves
<1>6. ASSUME Goto(c, "err"), Fault \/ UNCHANGED faults
      PROVE  \E to \in PCs : Leaves(c, to)
  <2>1. Advances(c, "err") /\ "err" \in PCs
    BY <1>0, <1>1, <1>6, GotoAdvances, PlaceFacts
  <2>2. Outcome(c, "err")
    BY <1>0, <1>2 DEF Outcome, PlacedAt
  <2> QED
    BY <1>3, <1>4, <1>6, <2>1, <2>2 DEF Leaves
<1> QED
  BY <1>5, <1>6 DEF GetMountFs, Fails

\* The steps of a publish: it binds what is staged, and a block volume its
\* device.
LEMMA PublishLeaves ==
  ASSUME IInv, NEW c \in Calls, MakeTarget(c) \/ isMounted(c) \/ Bind(c)
  PROVE  \E to \in PCs : Leaves(c, to)
<1> USE DEF kubelet
<1> DEFINE t == call[c].path
           Kinds == {"absent", "made", "volume", "bare", "corrupted"}
<1>0. TypeOK /\ call[c].op = "publish" /\ call[c].pc \in {"dir", "probe", "bind"}
  BY DEF IInv, MakeTarget, isMounted, Bind, At
<1>1. call[c] \in ActiveCall
  BY <1>0, ActiveOrNone
<1>2. t \in Targets /\ Keyed(call[c]) /\ (~block => stage = "mounted")
  BY <1>0 DEF IInv, Placed, OnPath, Keyed, CallsAchieved, Achieved
<1>3. target \in [Targets -> Kinds] /\ target[t] \in Kinds
  BY <1>0, <1>2 DEF TypeOK
<1>4. UNCHANGED <<block, inFlight, linked, pod, told, fs, stage>>
  BY DEF MakeTarget, isMounted, Bind
<1>5. ASSUME NEW to \in {"probe", "bind", "ok", "err"}, NEW x \in Kinds,
             Goto(c, to), Fault \/ UNCHANGED faults,
             target' = [target EXCEPT ![t] = x],
             to = "ok" => x \in {"volume", "corrupted"}
      PROVE  \E l \in PCs : Leaves(c, l)
  <2>1. Advances(c, to) /\ to \in PCs
    BY <1>0, <1>1, <1>5, GotoAdvances, PlaceFacts
  <2>2. MountsTyped' /\ OwnPathOnly(c) /\ target'[call[c].path] = x
    BY <1>0, <1>2, <1>4, <1>5, TargetWritten
  <2>3. Outcome(c, to)
    BY <1>0, <1>2, <1>4, <1>5, <2>2 DEF Outcome, PlacedAt
  <2> QED
    BY <1>4, <1>5, <2>1, <2>2, <2>3 DEF Leaves
<1>6. target = [target EXCEPT ![t] = target[t]]
  BY <1>2, <1>3
<1>7. CASE MakeTarget(c)
  <2>1. \/ Goto(c, "probe") /\ UNCHANGED faults /\ \E x \in Kinds : target' = [target EXCEPT ![t] = x]
        \/ Goto(c, "err") /\ Fault /\ \E x \in Kinds : target' = [target EXCEPT ![t] = x]
    BY <1>3, <1>6, <1>7 DEF MakeTarget, Fails
  <2> HIDE DEF t, Kinds
  <2> QED
    BY <1>5, <2>1
<1>8. CASE isMounted(c)
  <2>1. \/ /\ Goto(c, IF target[t] = "volume" THEN "ok" ELSE "bind") /\ UNCHANGED faults
           /\ target' = [target EXCEPT ![t] = IF target[t] = "corrupted" THEN "absent" ELSE target[t]]
        \/ Goto(c, "err") /\ Fault /\ \E x \in Kinds : target' = [target EXCEPT ![t] = x]
    BY <1>3, <1>6, <1>8 DEF isMounted, Fails
  <2>2. CASE target[t] = "volume"
    BY <1>3, <1>5, <2>1, <2>2
  <2>3. CASE target[t] # "volume"
    <3>1. (IF target[t] = "corrupted" THEN "absent" ELSE target[t]) \in Kinds
      BY <1>3
    <3> HIDE DEF t, Kinds
    <3> QED
      BY <1>5, <2>1, <2>3, <3>1
  <2> QED
    BY <2>2, <2>3
<1>9. CASE Bind(c)
  <2>1. \/ /\ Goto(c, "ok") /\ UNCHANGED faults
           /\ target' = [target EXCEPT ![t] = IF block \/ stage = "mounted" THEN "volume" ELSE "bare"]
        \/ /\ Goto(c, "err") /\ (Fault \/ UNCHANGED faults)
           /\ target' = [target EXCEPT ![t] = IF block THEN "absent" ELSE target[t]]
    BY <1>9 DEF Bind, Fails
  <2>2. block \/ stage = "mounted"
    BY <1>2
  <2>3. "volume" \in Kinds /\ (IF block THEN "absent" ELSE target[t]) \in Kinds
    BY <1>3
  <2> HIDE DEF t, Kinds
  <2> QED
    BY <1>5, <2>1, <2>2, <2>3
<1> QED
  BY <1>7, <1>8, <1>9

\* The steps of an unpublish and of an unstage.
LEMMA TeardownLeaves ==
  ASSUME IInv, NEW c \in Calls, Unpublish(c) \/ RefCount(c) \/ Unstage(c)
  PROVE  \E to \in PCs : Leaves(c, to)
<1> USE DEF kubelet, mounts
<1>0. TypeOK
  BY DEF IInv
<1>1. CASE Unpublish(c)
  <2> DEFINE t == call[c].path
             Kinds == {"absent", "made", "volume", "bare", "corrupted"}
  <2>0. call[c].op = "unpublish"
    BY <1>1 DEF Unpublish, At
  <2>1. call[c] \in ActiveCall
    BY <1>0, <2>0, ActiveOrNone
  <2>2. t \in Targets /\ Keyed(call[c]) /\ target \in [Targets -> Kinds] /\ target[t] \in Kinds
    BY <1>0, <2>0 DEF IInv, Placed, OnPath, Keyed, TypeOK
  <2>3. UNCHANGED <<block, inFlight, linked, pod, told, fs, stage>>
    BY <1>1 DEF Unpublish
  <2>4. target = [target EXCEPT ![t] = target[t]]
    BY <2>2
  <2>5. \/ /\ Goto(c, "ok") /\ UNCHANGED faults
           /\ \E x \in {"absent", "made"} : target' = [target EXCEPT ![t] = x]
        \/ Goto(c, "err") /\ Fault /\ \E x \in Kinds : target' = [target EXCEPT ![t] = x]
    BY <1>1, <2>2, <2>4 DEF Unpublish, Fails
  <2>6. PICK to \in {"ok", "err"}, x \in Kinds :
          /\ Goto(c, to) /\ (Fault \/ UNCHANGED faults) /\ target' = [target EXCEPT ![t] = x]
          /\ to = "ok" => x \in {"absent", "made"}
    BY <2>5
  <2>7. Advances(c, to) /\ to \in PCs
    BY <1>0, <2>1, <2>6, GotoAdvances, PlaceFacts
  <2>8. MountsTyped' /\ OwnPathOnly(c) /\ target'[call[c].path] = x
    BY <1>0, <2>2, <2>3, <2>6, TargetWritten
  <2>9. Outcome(c, to)
    BY <2>0, <2>6, <2>8 DEF Outcome, PlacedAt
  <2> QED
    BY <2>3, <2>6, <2>7, <2>8, <2>9 DEF Leaves
<1>2. CASE RefCount(c)
  <2>0. call[c].op = "unstage" /\ call[c] \in ActiveCall
    BY <1>0, <1>2, ActiveOrNone DEF RefCount, At
  <2>1. block => stage = "absent"
    BY <1>0 DEF TypeOK
  <2>2. UNCHANGED <<block, inFlight, linked, pod, told, fs, stage, target>>
    BY <1>2 DEF RefCount
  <2>3. \/ Goto(c, IF stage = "mounted" THEN "unmount" ELSE "ok") /\ UNCHANGED faults
        \/ Goto(c, "err") /\ Fault
    BY <1>2 DEF RefCount, Fails
  <2>4. PICK to \in {"unmount", "ok", "err"} :
          /\ Goto(c, to) /\ (Fault \/ UNCHANGED faults)
          /\ to = "unmount" => stage = "mounted"
          /\ to = "ok" => stage # "mounted"
    <3>1. CASE stage = "mounted"
      BY <2>3, <3>1
    <3>2. CASE stage # "mounted"
      BY <2>3, <3>2
    <3> QED
      BY <3>1, <3>2
  <2>5. Advances(c, to) /\ to \in PCs
    BY <1>0, <2>0, <2>4, GotoAdvances, PlaceFacts
  <2>6. Outcome(c, to)
    BY <2>0, <2>1, <2>2, <2>4 DEF Outcome, PlacedAt
  <2> QED
    BY <1>0, <2>2, <2>4, <2>5, <2>6, MountsKept DEF Leaves
<1>3. CASE Unstage(c)
  <2>0. call[c].op = "unstage" /\ call[c].pc = "unmount" /\ call[c] \in ActiveCall
    BY <1>0, <1>3, ActiveOrNone DEF Unstage, At
  <2>1. ~block /\ call[c].path = Staging /\ Keyed(call[c])
    BY <2>0 DEF IInv, Placed, OnPath, PlacedAt, Keyed
  <2>2. UNCHANGED <<block, inFlight, linked, pod, told, fs, target>>
    BY <1>3 DEF Unstage
  <2>3. \/ Goto(c, "ok") /\ stage' = "absent" /\ UNCHANGED faults
        \/ Goto(c, "err") /\ Fault /\ stage' \in {stage, "dir"}
    BY <1>3 DEF Unstage, Fails
  <2>4. stage' \in {"absent", "dir", "mounted"} /\ fs' \in {"raw", "small", "full"}
    BY <1>0, <2>2, <2>3 DEF TypeOK
  <2>5. MountsTyped' /\ OwnPathOnly(c)
    BY <1>0, <2>1, <2>2, <2>4, StageWritten
  <2>6. PICK to \in {"ok", "err"} :
          Goto(c, to) /\ (Fault \/ UNCHANGED faults) /\ (to = "ok" => stage' = "absent")
    BY <2>3
  <2>7. Advances(c, to) /\ to \in PCs
    BY <1>0, <2>0, <2>6, GotoAdvances, PlaceFacts
  <2>8. Outcome(c, to)
    BY <2>0, <2>1, <2>6 DEF Outcome, PlacedAt
  <2> QED
    BY <2>2, <2>5, <2>6, <2>7, <2>8 DEF Leaves
<1> QED
  BY <1>1, <1>2, <1>3

\* Every step of a handler before its answer is of this kind.
LEMMA WorkingLeaves ==
  ASSUME IInv, NEW c \in Calls, Working(c)
  PROVE  \E to \in PCs : Leaves(c, to)
BY StageLeaves, DeviceLeaves, ResizeLeaves, FindLeaves, PublishLeaves, TeardownLeaves, Zenon DEF Working

-----------------------------------------------------------------------------
(* The steps keep the invariant. *)

\* TypeOK, put together from its parts after a step.
LEMMA TypeStep ==
  ASSUME TypeOK, block' = block, inFlight' \in BOOLEAN, linked' \in BOOLEAN, MountsTyped',
         pod' \in [Targets -> {"new", "running", "gone"}],
         told' \in [Paths -> {"no", "uncertain", "yes"}],
         call' \in [Calls -> CallRecord], Fault \/ UNCHANGED faults
  PROVE  TypeOK'
<1>1. faults' \in 0..MaxFaults
  BY NodeAssumption DEF TypeOK, Fault
<1>2. block' \in BOOLEAN
  BY DEF TypeOK
<1> QED
  BY <1>1, <1>2, Zenon DEF TypeOK, MountsTyped

\* A step of a handler before its answer.  The path it touches is one kubelet
\* is uncertain about; whatever another call has achieved stays, because only
\* one call has the key.
LEMMA WorkingKeeps ==
  ASSUME IInv, NEW c \in Calls, NEW to \in PCs, Leaves(c, to)
  PROVE  IInv'
<1> USE DEF IInv
<1>1. /\ Advances(c, to) /\ UNCHANGED <<block, inFlight, linked, pod, told>>
      /\ MountsTyped' /\ OwnPathOnly(c) /\ Outcome(c, to)
  BY DEF Leaves
<1>2. \A d \in Calls :
        /\ call'[d].op = call[d].op /\ call'[d].path = call[d].path
        /\ call'[d].waiting = call[d].waiting
        /\ call[d].full => call'[d].full
        /\ d # c => call'[d].pc = call[d].pc /\ call'[d].own = call[d].own
        /\ d = c => call'[d].pc = to
  BY <1>1 DEF Advances
<1>3. \A d \in Calls : Keyed(call[d])' <=> Keyed(call[d])
  BY <1>1, <1>2 DEF Keyed
<1>4. TypeOK'
  <2>1. call' \in [Calls -> CallRecord]
    BY <1>1 DEF Advances
  <2>2. /\ inFlight' \in BOOLEAN /\ linked' \in BOOLEAN
        /\ pod' \in [Targets -> {"new", "running", "gone"}]
        /\ told' \in [Paths -> {"no", "uncertain", "yes"}]
    BY <1>1 DEF TypeOK
  <2>3. Fault \/ UNCHANGED faults
    BY DEF Leaves
  <2> QED
    BY <1>1, <2>1, <2>2, <2>3, TypeStep
<1>5. Placed'
  <2>1. ASSUME NEW d \in Calls PROVE OnPath(call[d].op, call[d].path)' /\ PlacedAt(call[d].op, call[d].pc)'
    <3>1. OnPath(call[d].op, call[d].path)'
      BY <1>2 DEF Placed, OnPath
    <3>2. PlacedAt(call[d].op, call[d].pc)'
      <4>1. CASE d = c
        BY <1>1, <1>2, <4>1 DEF Outcome, PlacedAt
      <4>2. CASE d # c
        BY <1>1, <1>2, <4>2 DEF Placed, PlacedAt
      <4> QED
        BY <4>1, <4>2
    <3> QED
      BY <3>1, <3>2
  <2> QED
    BY <2>1 DEF Placed
<1>6. KeyHeld' /\ OneWaits'
  BY <1>1, <1>2, <1>3 DEF KeyHeld, OneWaits
<1>7. PathsUncertain' /\ ExpandKnows'
  BY <1>1, <1>2, <1>3 DEF PathsUncertain, ExpandKnows
<1>8. TargetsKnown'
  <2>1. ASSUME NEW t \in Targets, told[t] # "uncertain" PROVE target'[t] = target[t]
    BY <1>1, <2>1 DEF OwnPathOnly, PathsUncertain
  <2> QED
    BY <1>1, <2>1 DEF TargetsKnown
<1>9. StageKnown'
  <2>1. ASSUME ~block, told[Staging] # "uncertain" PROVE stage' = stage
    BY <1>1, <2>1 DEF OwnPathOnly, PathsUncertain
  <2> QED
    BY <1>1, <2>1 DEF StageKnown
<1>10. CallsAchieved'
  <2>1. ASSUME NEW d \in Calls PROVE Achieved(call[d])'
    <3>1. CASE d = c
      <4>1. Achieved(call[c])
        BY DEF CallsAchieved
      <4> QED
        BY <1>1, <1>2, <3>1, <4>1 DEF Achieved, Outcome
    <3>2. CASE d # c /\ Keyed(call[d])
      <4>1. ~Keyed(call[c])
        BY <3>2 DEF KeyHeld
      <4>2. stage' = stage /\ \A t \in Targets : target'[t] = target[t]
        BY <1>1, <4>1 DEF OwnPathOnly
      <4>3. Achieved(call[d]) /\ OnPath(call[d].op, call[d].path)
        BY DEF CallsAchieved, Placed
      <4> QED
        BY <1>1, <1>2, <3>2, <4>2, <4>3 DEF Achieved, OnPath
    <3>3. CASE ~Keyed(call[d])
      BY <1>1, <1>2, <3>3 DEF Achieved, Keyed
    <3> QED
      BY <3>1, <3>2, <3>3
  <2> QED
    BY <2>1 DEF CallsAchieved
<1>11. CallsResize'
  <2>1. ASSUME NEW d \in Calls PROVE Resized(call[d])'
    <3>1. Resized(call[d])
      BY DEF CallsResize
    <3>2. CASE d = c
      BY <1>1, <1>2, <3>2 DEF Resized, Outcome
    <3>3. CASE d # c
      BY <1>1, <1>2, <3>1, <3>3 DEF Resized
    <3> QED
      BY <3>2, <3>3
  <2> QED
    BY <2>1 DEF CallsResize
<1> QED
  BY <1>4, <1>5, <1>6, <1>7, <1>8, <1>9, <1>10, <1>11

\* The start of a call.  The key is free when a call takes it, and kubelet
\* waits for no other call.
LEMMA StartKeeps ==
  ASSUME IInv, NEW c \in Calls, NEW op \in Ops, NEW p \in Paths, NEW first \in PCs,
         Start(c, op, p, first), OnPath(op, p), PlacedAt(op, first),
         IF op = "expand" \/ (op = "stage" /\ block) THEN UNCHANGED inFlight ELSE Insert,
         op = "expand" => told[p] = "yes" /\ first # "resize",
         op = "publish" /\ ~block => stage = "mounted",
         op = "stage" => first # "resize",
         first = "ok" => block /\ op \in {"stage", "expand"}
  PROVE  IInv'
<1> USE DEF IInv
<1> DEFINE r == [op |-> op, path |-> p, pc |-> first, waiting |-> TRUE, own |-> FALSE, full |-> fs = "full"]
<1>1. /\ call[c] = NoCall /\ (\A d \in Calls : ~call[d].waiting)
      /\ call' = [call EXCEPT ![c] = r]
      /\ told' = [told EXCEPT ![p] = IF op = "expand" THEN told[p] ELSE "uncertain"]
      /\ UNCHANGED <<block, linked, pod, fs, stage, target, faults>>
  BY DEF Start, kubelet, mounts
<1>2. r \in ActiveCall /\ r.op = op /\ r.path = p /\ r.pc = first /\ r.waiting
  BY DEF ActiveCall
<1> HIDE DEF r
<1>3. r \in CallRecord
  BY <1>2, ActiveFacts
<1>4. call \in [Calls -> CallRecord] /\ told \in [Paths -> {"no", "uncertain", "yes"}]
  BY DEF TypeOK
<1>5. /\ call' \in [Calls -> CallRecord] /\ call'[c] = r
      /\ \A d \in Calls \ {c} : call'[d] = call[d]
  BY <1>1, <1>3, <1>4
<1>6. told' \in [Paths -> {"no", "uncertain", "yes"}]
  BY <1>1, <1>4
<1>7. /\ \A q \in Paths \ {p} : told'[q] = told[q]
      /\ op # "expand" => told'[p] = "uncertain"
      /\ op = "expand" => told'[p] = told[p]
  BY <1>1, <1>4
<1>8. NoCall.op = "none" /\ ~Keyed(NoCall)
  BY DEF NoCall, Keyed
<1>9. \A d \in Calls \ {c} : Keyed(call[d])' <=> Keyed(call[d])
  BY <1>1, <1>5 DEF Keyed
<1>10. Keyed(call[c])' <=> ~(op = "expand" \/ (op = "stage" /\ block))
  BY <1>1, <1>2, <1>5 DEF Keyed, Ops
<1>11. Keyed(call[c])' => inFlight' /\ \A d \in Calls : ~Keyed(call[d])
  BY <1>10 DEF KeyHeld, Insert
<1>12. ~Keyed(call[c])' => inFlight' = inFlight
  BY <1>10
<1>13. TypeOK'
  <2>1. inFlight' \in BOOLEAN /\ linked' \in BOOLEAN /\ pod' \in [Targets -> {"new", "running", "gone"}]
    BY <1>1, <1>11, <1>12 DEF TypeOK
  <2>2. MountsTyped'
    BY <1>1, MountsKept
  <2> QED
    BY <1>1, <1>5, <1>6, <2>1, <2>2, TypeStep
<1>14. Placed'
  <2>1. OnPath(call[c].op, call[c].path)' /\ PlacedAt(call[c].op, call[c].pc)'
    BY <1>1, <1>2, <1>5 DEF OnPath, PlacedAt
  <2>2. ASSUME NEW d \in Calls \ {c}
        PROVE OnPath(call[d].op, call[d].path)' /\ PlacedAt(call[d].op, call[d].pc)'
    <3>1. OnPath(call[d].op, call[d].path) /\ PlacedAt(call[d].op, call[d].pc)
      BY DEF Placed
    <3> QED
      BY <1>1, <1>5, <3>1 DEF OnPath, PlacedAt
  <2> QED
    BY <2>1, <2>2 DEF Placed
<1>15. KeyHeld'
  <2>1. CASE Keyed(call[c])'
    BY <1>9, <1>11, <2>1 DEF KeyHeld
  <2>2. CASE ~Keyed(call[c])'
    BY <1>9, <1>12, <2>2 DEF KeyHeld
  <2> QED
    BY <2>1, <2>2
<1>16. OneWaits'
  BY <1>1, <1>5 DEF OneWaits
<1>17. PathsUncertain'
  <2>1. ASSUME NEW d \in Calls, Keyed(call[d])', (~block \/ call[d].path \in Targets)'
        PROVE  told'[call'[d].path] = "uncertain"
    <3>1. CASE d = c
      BY <1>2, <1>5, <1>7, <1>10, <2>1, <3>1
    <3>2. CASE d # c
      <4>1. Keyed(call[d]) /\ ~Keyed(call[c])' /\ call'[d] = call[d]
        BY <1>5, <1>9, <1>11, <2>1, <3>2
      <4>2. told[call[d].path] = "uncertain"
        BY <1>1, <2>1, <4>1 DEF PathsUncertain
      <4>3. call[d].path \in Paths
        BY <4>1, ActiveOrNone, ActiveFacts DEF Keyed
      <4> QED
        BY <1>7, <4>1, <4>2, <4>3
    <3> QED
      BY <3>1, <3>2
  <2> QED
    BY <2>1 DEF PathsUncertain
<1>18. ExpandKnows'
  BY <1>1, <1>2, <1>5, <1>7 DEF ExpandKnows
<1>19. TargetsKnown'
  <2>1. ASSUME NEW t \in Targets PROVE told'[t] = "uncertain" \/ told'[t] = told[t]
    BY <1>7 DEF Paths
  <2> QED
    BY <1>1, <2>1 DEF TargetsKnown
<1>20. StageKnown'
  <2>1. told'[Staging] = "uncertain" \/ told'[Staging] = told[Staging]
    BY <1>7 DEF Paths
  <2> QED
    BY <1>1, <2>1 DEF StageKnown
<1>21. CallsAchieved'
  <2>1. Achieved(call[c])'
    BY <1>1, <1>2, <1>5 DEF Achieved
  <2>2. ASSUME NEW d \in Calls \ {c} PROVE Achieved(call[d])'
    <3>1. Achieved(call[d])
      BY DEF CallsAchieved
    <3> QED
      BY <1>1, <1>5, <3>1 DEF Achieved
  <2> QED
    BY <2>1, <2>2 DEF CallsAchieved
<1>22. CallsResize'
  <2>1. Resized(call[c])'
    BY <1>1, <1>2, <1>5 DEF Resized
  <2>2. ASSUME NEW d \in Calls \ {c} PROVE Resized(call[d])'
    BY <1>1, <1>5, <2>2 DEF CallsResize, Resized
  <2> QED
    BY <2>1, <2>2 DEF CallsResize
<1> QED
  BY <1>13, <1>14, <1>15, <1>16, <1>17, <1>18, <1>19, <1>20, <1>21, <1>22

\* kubelet's calls start so: it publishes a volume it knows to be staged, and
\* expands one at a path it knows to be there.
LEMMA CallsKeep ==
  ASSUME IInv, NEW c \in Calls,
         \/ NodeStageVolume(c) \/ TearDown(c)
         \/ (\E t \in Targets : NodePublishVolume(c, t))
         \/ (\E p \in Paths : NodeExpandVolume(c, p))
  PROVE  IInv'
<1>1. Staging \in Paths /\ Targets \subseteq Paths
  BY DEF Paths
<1>2. {"device", "dir", "check", "unmount", "find", "ok", "err"} \subseteq PCs
  BY DEF PCs
<1>3. {"stage", "publish", "unpublish", "unstage", "expand"} \subseteq Ops
  BY DEF Ops
<1>4. CASE NodeStageVolume(c)
  <2>1. CASE block
    <3>1. Start(c, "stage", Staging, "ok") /\ UNCHANGED inFlight
      BY <1>4, <2>1 DEF NodeStageVolume
    <3>2. OnPath("stage", Staging) /\ PlacedAt("stage", "ok")
      BY DEF OnPath, PlacedAt
    <3> QED
      BY <1>1, <1>2, <1>3, <2>1, <3>1, <3>2, StartKeeps
  <2>2. CASE ~block
    <3>1. Start(c, "stage", Staging, "device") /\ Insert
      BY <1>4, <2>2 DEF NodeStageVolume
    <3>2. OnPath("stage", Staging) /\ PlacedAt("stage", "device")
      BY <2>2 DEF OnPath, PlacedAt
    <3> QED
      BY <1>1, <1>2, <1>3, <2>2, <3>1, <3>2, StartKeeps
  <2> QED
    BY <2>1, <2>2
<1>5. ASSUME NEW t \in Targets, NodePublishVolume(c, t) PROVE IInv'
  <2>1. PICK first \in {"device", "dir"} : Start(c, "publish", t, first) /\ Insert
    BY <1>5 DEF NodePublishVolume
  <2>2. ~block => stage = "mounted"
    BY <1>5 DEF NodePublishVolume, IInv, StageKnown
  <2>3. OnPath("publish", t) /\ PlacedAt("publish", first)
    BY <2>1 DEF OnPath, PlacedAt
  <2> QED
    BY <1>1, <1>2, <1>3, <2>1, <2>2, <2>3, StartKeeps
<1>6. CASE TearDown(c)
  <2>1. ASSUME NEW t \in Targets, NodeUnpublishVolume(c, t) PROVE IInv'
    <3>1. Start(c, "unpublish", t, "unmount") /\ Insert
      BY <2>1 DEF NodeUnpublishVolume
    <3>2. OnPath("unpublish", t) /\ PlacedAt("unpublish", "unmount")
      BY DEF OnPath, PlacedAt
    <3> QED
      BY <1>1, <1>2, <1>3, <3>1, <3>2, StartKeeps
  <2>2. CASE NodeUnstageVolume(c)
    <3>1. Start(c, "unstage", Staging, "check") /\ Insert
      BY <2>2 DEF NodeUnstageVolume
    <3>2. OnPath("unstage", Staging) /\ PlacedAt("unstage", "check")
      BY DEF OnPath, PlacedAt
    <3> QED
      BY <1>1, <1>2, <1>3, <3>1, <3>2, StartKeeps
  <2> QED
    BY <1>6, <2>1, <2>2 DEF TearDown
<1>7. ASSUME NEW p \in Paths, NodeExpandVolume(c, p) PROVE IInv'
  <2>1. /\ told[p] = "yes" /\ UNCHANGED inFlight
        /\ \E first \in IF block THEN {"ok", "err"} ELSE {"find"} : Start(c, "expand", p, first)
    BY <1>7 DEF NodeExpandVolume
  <2>2. PICK first \in {"ok", "err", "find"} :
          /\ Start(c, "expand", p, first)
          /\ block => first \in {"ok", "err"}
          /\ ~block => first = "find"
    <3>1. CASE block
      BY <2>1, <3>1
    <3>2. CASE ~block
      BY <2>1, <3>2
    <3> QED
      BY <3>1, <3>2
  <2>3. OnPath("expand", p) /\ PlacedAt("expand", first)
    BY <2>2 DEF OnPath, PlacedAt
  <2> QED
    BY <1>2, <1>3, <2>1, <2>2, <2>3, StartKeeps
<1> QED
  BY <1>4, <1>5, <1>6, <1>7

\* The answer.  With the key, no other call works on a path, and kubelet
\* learns what the call achieved; an expand tells kubelet what it knew, and the
\* stage of a block volume something about a path nobody mounts.
LEMMA AnswerKeeps ==
  ASSUME IInv, NEW c \in Calls, Answer(c)
  PROVE  IInv'
<1> USE DEF IInv
<1> DEFINE p == call[c].path
           news == IF call[c].op \in {"unpublish", "unstage"} THEN "no" ELSE "yes"
           unkeyed == call[c].op = "expand" \/ (block /\ call[c].op = "stage")
           learns == call[c].waiting /\ call[c].pc = "ok"
<1>1. /\ call[c].pc \in {"ok", "err"} /\ call' = [call EXCEPT ![c] = NoCall]
      /\ inFlight' = IF unkeyed THEN inFlight ELSE FALSE
      /\ told' = IF learns THEN [told EXCEPT ![p] = news] ELSE told
      /\ UNCHANGED <<block, linked, pod, fs, stage, target, faults>>
  BY DEF Answer, kubelet, mounts
<1>2. call[c] \in ActiveCall /\ call[c].op \in Ops /\ p \in Paths
  BY <1>1, ActiveOrNone, ActiveFacts
<1>3. call \in [Calls -> CallRecord] /\ told \in [Paths -> {"no", "uncertain", "yes"}] /\ inFlight \in BOOLEAN
  BY DEF TypeOK
<1>4. NoCall \in CallRecord /\ NoCall.op = "none" /\ ~NoCall.waiting
  BY DEF NoCall, CallRecord
<1>5. /\ call' \in [Calls -> CallRecord] /\ call'[c] = NoCall
      /\ \A d \in Calls \ {c} : call'[d] = call[d]
  BY <1>1, <1>3, <1>4
<1>6. /\ ~Keyed(call[c])'
      /\ \A d \in Calls \ {c} : Keyed(call[d])' <=> Keyed(call[d])
  BY <1>1, <1>4, <1>5 DEF Keyed
<1>7. Keyed(call[c]) <=> ~unkeyed
  BY <1>2 DEF Keyed, Ops
<1>8. Keyed(call[c]) => \A d \in Calls \ {c} : ~Keyed(call[d])
  BY DEF KeyHeld
<1>9. news \in {"no", "yes"}
  OBVIOUS
<1>10. ASSUME NEW q \in Paths
       PROVE  told'[q] = IF learns /\ q = p THEN news ELSE told[q]
  BY <1>1, <1>3
<1>11. told' \in [Paths -> {"no", "uncertain", "yes"}]
  BY <1>1, <1>3
<1>12. learns /\ call[c].op = "expand" => told[p] = "yes" /\ news = "yes"
  BY DEF ExpandKnows
<1>13. Achieved(call[c]) /\ OnPath(call[c].op, p)
  BY DEF CallsAchieved, Placed
<1>14. TypeOK'
  <2>1. inFlight' \in BOOLEAN /\ linked' \in BOOLEAN /\ pod' \in [Targets -> {"new", "running", "gone"}]
    BY <1>1, <1>3 DEF TypeOK
  <2>2. MountsTyped'
    BY <1>1, MountsKept
  <2> QED
    BY <1>1, <1>5, <1>11, <2>1, <2>2, TypeStep
<1>15. Placed'
  <2>1. OnPath(call[c].op, call[c].path)' /\ PlacedAt(call[c].op, call[c].pc)'
    BY <1>4, <1>5 DEF OnPath, PlacedAt
  <2>2. ASSUME NEW d \in Calls \ {c}
        PROVE OnPath(call[d].op, call[d].path)' /\ PlacedAt(call[d].op, call[d].pc)'
    <3>1. OnPath(call[d].op, call[d].path) /\ PlacedAt(call[d].op, call[d].pc)
      BY DEF Placed
    <3> QED
      BY <1>1, <1>5, <3>1 DEF OnPath, PlacedAt
  <2> QED
    BY <2>1, <2>2 DEF Placed
<1>16. KeyHeld'
  <2>1. CASE Keyed(call[c])
    BY <1>6, <1>8, <2>1 DEF KeyHeld
  <2>2. CASE ~Keyed(call[c])
    BY <1>1, <1>6, <1>7, <2>2 DEF KeyHeld
  <2> QED
    BY <2>1, <2>2
<1>17. OneWaits'
  BY <1>4, <1>5 DEF OneWaits
<1>18. PathsUncertain'
  <2>1. ASSUME NEW d \in Calls, Keyed(call[d])', (~block \/ call[d].path \in Targets)'
        PROVE  told'[call'[d].path] = "uncertain"
    <3>1. d # c /\ Keyed(call[d]) /\ call'[d] = call[d] /\ ~Keyed(call[c])
      BY <1>5, <1>6, <1>8, <2>1
    <3>2. told[call[d].path] = "uncertain" /\ (~block \/ call[d].path \in Targets)
      BY <1>1, <2>1, <3>1 DEF PathsUncertain
    <3>3. call[d].path \in Paths
      BY <3>1, ActiveOrNone, ActiveFacts DEF Keyed
    <3>4. ~(learns /\ call[d].path = p)
      <4>1. CASE call[c].op = "expand"
        BY <1>12, <3>2, <4>1
      <4>2. CASE block /\ call[c].op = "stage"
        BY <1>13, <3>2, <4>2, NodeAssumption DEF OnPath
      <4> QED
        BY <1>7, <3>1, <4>1, <4>2
    <3> QED
      BY <1>10, <3>1, <3>2, <3>3, <3>4
  <2> QED
    BY <2>1 DEF PathsUncertain
<1>19. ExpandKnows'
  <2>1. ASSUME NEW d \in Calls, call'[d].op = "expand", call'[d].waiting
        PROVE  told'[call'[d].path] = "yes"
    <3>1. d # c /\ call'[d] = call[d]
      BY <1>4, <1>5, <2>1
    <3>2. told[call[d].path] = "yes" /\ ~learns
      BY <2>1, <3>1 DEF ExpandKnows, OneWaits
    <3> QED
      BY <1>1, <3>1, <3>2
  <2> QED
    BY <2>1 DEF ExpandKnows
<1>20. TargetsKnown'
  <2>1. ASSUME NEW t \in Targets
        PROVE  /\ told'[t] = "yes" => target'[t] \in {"volume", "corrupted"}
               /\ told'[t] = "no" => target'[t] \in {"absent", "made"}
    <3>1. t \in Paths /\ t # Staging
      BY NodeAssumption DEF Paths
    <3>2. CASE ~(learns /\ t = p)
      <4>1. told'[t] = told[t]
        BY <1>10, <3>1, <3>2
      <4> QED
        BY <1>1, <4>1 DEF TargetsKnown
    <3>3. CASE learns /\ t = p
      <4>1. told'[t] = news
        BY <1>10, <3>1, <3>3
      <4>2. call[c].op \in {"publish", "unpublish", "expand"}
        BY <1>2, <1>13, <3>1, <3>3 DEF OnPath, Ops
      <4>3. CASE call[c].op = "publish"
        BY <1>1, <1>13, <3>3, <4>1, <4>3 DEF Achieved
      <4>4. CASE call[c].op = "unpublish"
        BY <1>1, <1>13, <3>3, <4>1, <4>4 DEF Achieved
      <4>5. CASE call[c].op = "expand"
        BY <1>1, <1>12, <3>3, <4>1, <4>5 DEF TargetsKnown
      <4> QED
        BY <4>2, <4>3, <4>4, <4>5
    <3> QED
      BY <3>2, <3>3
  <2> QED
    BY <2>1 DEF TargetsKnown
<1>21. StageKnown'
  <2>1. ASSUME ~block
        PROVE  /\ told'[Staging] = "yes" => stage' = "mounted"
               /\ told'[Staging] = "no" => stage' # "mounted"
    <3>1. Staging \in Paths
      BY DEF Paths
    <3>2. CASE ~(learns /\ p = Staging)
      <4>1. told'[Staging] = told[Staging]
        BY <1>10, <3>1, <3>2
      <4> QED
        BY <1>1, <2>1, <4>1 DEF StageKnown
    <3>3. CASE learns /\ p = Staging
      <4>1. told'[Staging] = news
        BY <1>10, <3>1, <3>3
      <4>2. call[c].op \in {"stage", "unstage", "expand"}
        BY <1>2, <1>13, <3>3, NodeAssumption DEF OnPath, Ops
      <4>3. CASE call[c].op = "stage"
        BY <1>1, <1>13, <2>1, <3>3, <4>1, <4>3 DEF Achieved
      <4>4. CASE call[c].op = "unstage"
        BY <1>1, <1>13, <3>3, <4>1, <4>4 DEF Achieved
      <4>5. CASE call[c].op = "expand"
        BY <1>1, <1>12, <2>1, <3>3, <4>1, <4>5 DEF StageKnown
      <4> QED
        BY <4>2, <4>3, <4>4, <4>5
    <3> QED
      BY <3>2, <3>3
  <2> QED
    BY <1>1, <2>1 DEF StageKnown
<1>22. CallsAchieved'
  <2>1. Achieved(call[c])'
    BY <1>4, <1>5 DEF Achieved
  <2>2. ASSUME NEW d \in Calls \ {c} PROVE Achieved(call[d])'
    <3>1. Achieved(call[d])
      BY DEF CallsAchieved
    <3> QED
      BY <1>1, <1>5, <3>1 DEF Achieved
  <2> QED
    BY <2>1, <2>2 DEF CallsAchieved
<1>23. CallsResize'
  BY <1>1, <1>4, <1>5 DEF CallsResize, Resized
<1> QED
  BY <1>14, <1>15, <1>16, <1>17, <1>18, <1>19, <1>20, <1>21, <1>22, <1>23

\* The parts of the invariant that are not about the mounts.
CallInv == Placed /\ KeyHeld /\ OneWaits /\ PathsUncertain /\ ExpandKnows /\ CallsResize

\* Those parts are about the calls, the key and what kubelet knows.
LEMMA CallsUntouched ==
  ASSUME IInv, UNCHANGED <<block, inFlight, told, call>>
  PROVE  CallInv'
BY DEF IInv, CallInv, Placed, OnPath, PlacedAt, KeyHeld, Keyed, OneWaits, PathsUncertain,
       ExpandKnows, CallsResize, Resized

\* The parts about the mounts.
MountFacts == TargetsKnown /\ StageKnown /\ CallsAchieved

\* What happens outside the plugin and leaves the mounts: pods, attachments,
\* and a device that grew.
LEMMA OutsideKeeps ==
  ASSUME IInv,
         \/ (\E t \in Targets : PodRuns(t) \/ PodLeaves(t))
         \/ Link \/ Unlink \/ Grow
  PROVE  IInv'
<1> USE DEF mounts, kubelet
<1>0. TypeOK
  BY DEF IInv
<1>1. UNCHANGED <<block, inFlight, told, call, stage, target>>
  BY DEF PodRuns, PodLeaves, Link, Unlink, Grow
<1>2. linked' \in BOOLEAN /\ inFlight' \in BOOLEAN
  BY <1>0 DEF TypeOK, PodRuns, PodLeaves, Link, Unlink, Grow
<1>3. pod' \in [Targets -> {"new", "running", "gone"}]
  BY <1>0 DEF TypeOK, PodRuns, PodLeaves, Link, Unlink, Grow
<1>4. Fault \/ UNCHANGED faults
  BY DEF PodRuns, PodLeaves, Link, Unlink, Grow
<1>5. MountsTyped'
  <2>1. CASE Grow
    BY <1>0, <1>1, <2>1 DEF TypeOK, MountsTyped, Grow
  <2>2. CASE ~Grow
    BY <1>0, <1>1, <2>2 DEF TypeOK, MountsTyped, PodRuns, PodLeaves, Link, Unlink
  <2> QED
    BY <2>1, <2>2
<1>6. /\ told' \in [Paths -> {"no", "uncertain", "yes"}]
      /\ call' \in [Calls -> CallRecord]
  BY <1>0, <1>1 DEF TypeOK
<1>7. TypeOK'
  BY <1>0, <1>1, <1>2, <1>3, <1>4, <1>5, <1>6, TypeStep
<1>8. CallInv'
  BY <1>1, CallsUntouched
<1>9. MountFacts'
  BY <1>1 DEF IInv, MountFacts, TargetsKnown, StageKnown, CallsAchieved, Achieved
<1> QED
  BY <1>7, <1>8, <1>9 DEF IInv, CallInv, MountFacts

\* A mount that is corrupted is still where it was.
LEMMA CorruptKeeps ==
  ASSUME IInv, NEW t \in Targets, Corrupt(t)
  PROVE  IInv'
<1>0. TypeOK
  BY DEF IInv
<1>1. /\ UNCHANGED <<block, inFlight, linked, pod, fs, stage, told, call>> /\ Fault
      /\ ~block /\ target[t] = "volume" /\ target' = [target EXCEPT ![t] = "corrupted"]
  BY DEF Corrupt, kubelet
<1>2. /\ target' \in [Targets -> {"absent", "made", "volume", "bare", "corrupted"}]
      /\ target'[t] = "corrupted" /\ \A s \in Targets \ {t} : target'[s] = target[s]
  BY <1>0, <1>1 DEF TypeOK
<1>3. MountsTyped'
  BY <1>0, <1>1, <1>2 DEF TypeOK, MountsTyped
<1>4. TypeOK'
  <2>1. /\ inFlight' \in BOOLEAN /\ linked' \in BOOLEAN
        /\ pod' \in [Targets -> {"new", "running", "gone"}]
        /\ told' \in [Paths -> {"no", "uncertain", "yes"}]
        /\ call' \in [Calls -> CallRecord]
    BY <1>0, <1>1 DEF TypeOK
  <2> QED
    BY <1>0, <1>1, <1>3, <2>1, TypeStep
<1>5. CallInv'
  BY <1>1, CallsUntouched
<1>6. TargetsKnown' /\ StageKnown'
  BY <1>1, <1>2 DEF IInv, TargetsKnown, StageKnown
<1>7. CallsAchieved'
  <2>1. ASSUME NEW d \in Calls PROVE Achieved(call[d])'
    <3>1. Achieved(call[d]) /\ OnPath(call[d].op, call[d].path)
      BY DEF IInv, CallsAchieved, Placed
    <3> QED
      BY <1>1, <1>2, <3>1 DEF Achieved, OnPath
  <2> QED
    BY <2>1 DEF CallsAchieved
<1> QED
  BY <1>4, <1>5, <1>6, <1>7 DEF IInv, CallInv

\* A call that kubelet gives up goes on as it was.
LEMMA GiveUpKeeps ==
  ASSUME IInv, NEW c \in Calls, GiveUp(c)
  PROVE  IInv'
<1> USE DEF IInv
<1> DEFINE r == [call[c] EXCEPT !.waiting = FALSE]
<1>1. /\ UNCHANGED <<block, inFlight, linked, pod, fs, stage, target, told>> /\ Fault
      /\ call[c].waiting /\ call' = [call EXCEPT ![c] = r]
  BY DEF GiveUp, kubelet, mounts
<1>2. call[c] \in ActiveCall /\ call \in [Calls -> CallRecord]
  BY <1>1, ActiveOrNone DEF TypeOK
<1>3. /\ r \in ActiveCall /\ r.op = call[c].op /\ r.path = call[c].path /\ r.pc = call[c].pc
      /\ r.waiting = FALSE
  BY <1>2 DEF ActiveCall
<1> HIDE DEF r
<1>4. r \in CallRecord
  BY <1>3, ActiveFacts
<1>5. call' \in [Calls -> CallRecord] /\ call'[c] = r /\ \A d \in Calls \ {c} : call'[d] = call[d]
  BY <1>1, <1>2, <1>4
<1>6. \A d \in Calls :
        /\ call'[d].op = call[d].op /\ call'[d].path = call[d].path /\ call'[d].pc = call[d].pc
        /\ call'[d].waiting => call'[d] = call[d]
  BY <1>3, <1>5
<1>7. TypeOK'
  <2>1. /\ inFlight' \in BOOLEAN /\ linked' \in BOOLEAN
        /\ pod' \in [Targets -> {"new", "running", "gone"}]
        /\ told' \in [Paths -> {"no", "uncertain", "yes"}]
    BY <1>1 DEF TypeOK
  <2>2. MountsTyped'
    BY <1>1, MountsKept
  <2> QED
    BY <1>1, <1>5, <2>1, <2>2, TypeStep
<1>8. Placed'
  BY <1>1, <1>6 DEF Placed, OnPath, PlacedAt
<1>9. \A d \in Calls : Keyed(call[d])' <=> Keyed(call[d])
  BY <1>1, <1>6 DEF Keyed
<1>10. KeyHeld' /\ OneWaits'
  BY <1>1, <1>6, <1>9 DEF KeyHeld, OneWaits
<1>11. PathsUncertain' /\ ExpandKnows'
  BY <1>1, <1>6, <1>9 DEF PathsUncertain, ExpandKnows
<1>12. TargetsKnown' /\ StageKnown'
  BY <1>1 DEF TargetsKnown, StageKnown
<1>13. CallsAchieved'
  BY <1>1, <1>6 DEF CallsAchieved, Achieved
<1>14. CallsResize'
  BY <1>1, <1>6 DEF CallsResize, Resized
<1> QED
  BY <1>7, <1>8, <1>10, <1>11, <1>12, <1>13, <1>14

\* A restart forgets the calls and the key, and nothing else.
LEMMA RestartKeeps ==
  ASSUME IInv, Restart
  PROVE  IInv'
<1>0. TypeOK
  BY DEF IInv
<1>1. /\ UNCHANGED <<block, linked, pod, fs, stage, target, told>> /\ Fault
      /\ inFlight' = FALSE /\ call' = [c \in Calls |-> NoCall]
  BY DEF Restart, kubelet, mounts
<1>2. /\ NoCall \in CallRecord /\ NoCall.op = "none" /\ NoCall.waiting = FALSE
      /\ \A c \in Calls : call'[c] = NoCall
  BY <1>1 DEF NoCall, CallRecord
<1>3. TypeOK'
  <2>1. /\ inFlight' \in BOOLEAN /\ linked' \in BOOLEAN
        /\ pod' \in [Targets -> {"new", "running", "gone"}]
        /\ told' \in [Paths -> {"no", "uncertain", "yes"}]
        /\ call' \in [Calls -> CallRecord]
    BY <1>0, <1>1, <1>2 DEF TypeOK
  <2>2. MountsTyped'
    BY <1>0, <1>1, MountsKept
  <2> QED
    BY <1>0, <1>1, <2>1, <2>2, TypeStep
<1>4. CallInv'
  BY <1>2 DEF CallInv, Placed, OnPath, PlacedAt, KeyHeld, Keyed, OneWaits, PathsUncertain,
              ExpandKnows, CallsResize, Resized
<1>5. CallsAchieved'
  BY <1>2 DEF CallsAchieved, Achieved
<1>6. TargetsKnown' /\ StageKnown'
  BY <1>1 DEF IInv, TargetsKnown, StageKnown
<1> QED
  BY <1>3, <1>4, <1>5, <1>6 DEF IInv, CallInv

-----------------------------------------------------------------------------
(* The theorems. *)

\* No call has started, and kubelet knows of no path.
LEMMA InitHolds == Init => IInv
<1> SUFFICES ASSUME Init PROVE IInv
  OBVIOUS
<1>1. /\ NoCall \in CallRecord /\ NoCall.op = "none" /\ NoCall.waiting = FALSE
      /\ \A c \in Calls : call[c] = NoCall
  BY DEF Init, NoCall, CallRecord
<1>2. TypeOK
  <2>1. /\ block \in BOOLEAN /\ inFlight \in BOOLEAN /\ linked \in BOOLEAN
        /\ fs \in {"raw", "small", "full"} /\ stage \in {"absent", "dir", "mounted"}
        /\ block => fs = "raw" /\ stage = "absent"
    BY DEF Init
  <2>2. /\ target \in [Targets -> {"absent", "made", "volume", "bare", "corrupted"}]
        /\ pod \in [Targets -> {"new", "running", "gone"}]
        /\ told \in [Paths -> {"no", "uncertain", "yes"}]
    BY DEF Init
  <2>3. call \in [Calls -> CallRecord]
    BY <1>1 DEF Init
  <2>4. faults \in 0..MaxFaults
    BY NodeAssumption DEF Init
  <2> QED
    BY <2>1, <2>2, <2>3, <2>4, Zenon DEF TypeOK
<1>3. CallInv
  BY <1>1 DEF CallInv, Placed, OnPath, PlacedAt, KeyHeld, Keyed, OneWaits, PathsUncertain,
              ExpandKnows, CallsResize, Resized
<1>4. CallsAchieved
  BY <1>1 DEF CallsAchieved, Achieved
<1>5. TargetsKnown /\ StageKnown
  BY DEF Init, TargetsKnown, StageKnown, Paths
<1> QED
  BY <1>2, <1>3, <1>4, <1>5 DEF IInv, CallInv

\* Every step keeps the inductive invariant.
LEMMA NextKeeps == IInv /\ [Next]_vars => IInv'
<1> SUFFICES ASSUME IInv, [Next]_vars PROVE IInv'
  OBVIOUS
<1>1. ASSUME NEW c \in Calls, Handler(c) PROVE IInv'
  <2>1. CASE Working(c)
    BY <2>1, WorkingLeaves, WorkingKeeps
  <2>2. CASE Answer(c)
    BY <2>2, AnswerKeeps
  <2> QED
    BY <1>1, <2>1, <2>2, Zenon DEF Handler, Working
<1>2. ASSUME UNCHANGED vars PROVE IInv'
  <2>1. UNCHANGED <<block, inFlight, told, call, stage, target>>
    BY <1>2 DEF vars
  <2>2. TypeOK'
    BY <1>2 DEF IInv, TypeOK, vars
  <2>3. MountFacts'
    BY <2>1 DEF IInv, MountFacts, TargetsKnown, StageKnown, CallsAchieved, Achieved
  <2> QED
    BY <2>1, <2>2, <2>3, CallsUntouched DEF IInv, CallInv, MountFacts
<1> QED
  BY <1>1, <1>2, CallsKeep, GiveUpKeeps, OutsideKeeps, CorruptKeeps, RestartKeeps, Zenon DEF Next

\* The inductive invariant holds, of every behaviour of the node service.
THEOREM Invariance == Spec => []IInv
BY InitHolds, NextKeeps, PTL DEF Spec

\* UnstagedIsFree (with the types): when kubelet was told that nothing of the
\* volume is staged or published, nothing of it is mounted, and no handler that
\* kubelet gave up on is about to mount it: such a handler has the in-flight
\* key, and its path is one that kubelet is still uncertain about.
THEOREM UnstagedStaysFree == Spec => []MountInv
<1>1. IInv => MountInv
  <2> SUFFICES ASSUME IInv PROVE UnstagedIsFree
    BY DEF IInv, MountInv
  <2> SUFFICES ASSUME \A p \in Paths : told[p] = "no"
               PROVE  /\ stage # "mounted"
                      /\ \A t \in Targets : target[t] \in {"absent", "made"}
                      /\ ~\E c \in Calls : call[c].pc \in {"mount", "bind"} /\ ~call[c].waiting
    BY DEF UnstagedIsFree
  <2>1. stage # "mounted"
    BY DEF IInv, TypeOK, StageKnown, Paths
  <2>2. \A t \in Targets : target[t] \in {"absent", "made"}
    BY DEF IInv, TargetsKnown, Paths
  <2>3. ASSUME NEW c \in Calls, call[c].pc \in {"mount", "bind"} PROVE FALSE
    <3>1. call[c].op \in Ops /\ call[c].path \in Paths
      BY <2>3, ActiveOrNone, ActiveFacts DEF IInv
    <3>2. (call[c].op = "stage" /\ ~block) \/ (call[c].op = "publish" /\ call[c].path \in Targets)
      BY <2>3, <3>1 DEF IInv, Placed, OnPath, PlacedAt, Ops
    <3>3. told[call[c].path] = "uncertain"
      BY <3>2 DEF IInv, PathsUncertain, Keyed
    <3> QED
      BY <3>1, <3>3
  <2> QED
    BY <2>1, <2>2, <2>3
<1> QED
  BY <1>1, Invariance, PTL

\* PublishedShowsVolume: a pod whose NodePublishVolume was answered OK sees the
\* volume and never the bare staging directory, although the handler binds
\* whatever it finds at the staging path.
THEOREM PodsSeeTheVolume == Spec => []PublishedShowsVolume
<1>1. IInv => PublishedShowsVolume
  BY DEF IInv, TargetsKnown, PublishedShowsVolume
<1> QED
  BY <1>1, Invariance, PTL

\* OKMeansResized: a NodeStageVolume or NodeExpandVolume that kubelet waits for
\* is answered OK only if the filesystem filled the device at some time during
\* the call.
THEOREM OKIsResized == Spec => []OKMeansResized
<1>1. IInv => OKMeansResized
  BY DEF IInv, CallsResize, Resized, OKMeansResized
<1> QED
  BY <1>1, Invariance, PTL

-----------------------------------------------------------------------------
(* NodeLifecycle *)

\* The parts of LifeTypeOK: the node, the remover, the hook and what happens to them.
NodeTyped ==
  exists \in BOOLEAN /\ allocatable \in BOOLEAN /\ taints \subseteq Taints /\ wanted \subseteq Taints

RemoverTyped ==
  /\ remover \in {"get", "check", "patch", "done", "gaveUp"}
  /\ seen \subseteq Taints /\ tries \in 0..MaxTries

HookTyped ==
  /\ hook \in {"off", "fetch", "check", "blocked", "ok", "skipped", "error"}
  /\ calm \in BOOLEAN

WaitTyped ==
  /\ attached \subseteq Own \cup Others
  /\ informer \in {"off", "on"} /\ known \subseteq Own \cup Others
  /\ rescan \in BOOLEAN
  /\ closes \in {0, 1}
  /\ excused \in BOOLEAN

TroublesTyped == troubles \in 0..MaxTroubles

\* An attempt that runs is not the last one already spent.
TriesLeft == remover \in {"get", "check", "patch"} => tries < MaxTries

\* A node that is not being drained while the hook fetches it was seen calm.
CalmIsSeen == hook = "fetch" /\ Calm => calm

LifeIInv == LifeTypeOK /\ TriesLeft /\ TaintsKept /\ CalmIsSeen /\ DrainIsAwaited

\* The parts make the whole.
LEMMA LifeTypeParts ==
  /\ LifeTypeOK <=> NodeTyped /\ RemoverTyped /\ HookTyped /\ WaitTyped /\ TroublesTyped
  /\ LifeTypeOK' <=> NodeTyped' /\ RemoverTyped' /\ HookTyped' /\ WaitTyped' /\ TroublesTyped'
BY Zenon DEF LifeTypeOK, NodeTyped, RemoverTyped, HookTyped, WaitTyped, TroublesTyped

\* A failed attempt of the remover counts (removeTaintInBackground).
LEMMA RetryTyped ==
  ASSUME RemoverTyped, tries < MaxTries, Retry
  PROVE  RemoverTyped' /\ TriesLeft'
BY LifecycleAssumption DEF RemoverTyped, Retry, TriesLeft

\* An attempt that has come to its end, with or without a patch.
LEMMA FinishTyped ==
  ASSUME RemoverTyped, Finish
  PROVE  RemoverTyped' /\ TriesLeft'
BY DEF RemoverTyped, Finish, TriesLeft

\* A fault keeps to its bound.
LEMMA FaultTyped ==
  ASSUME TroublesTyped, Trouble \/ UNCHANGED troubles
  PROVE  TroublesTyped'
BY LifecycleAssumption DEF TroublesTyped, Trouble

\* The initial states satisfy the invariant.
LEMMA LifeInitHolds == LifeInit => LifeIInv
<1> SUFFICES ASSUME LifeInit PROVE LifeIInv
  OBVIOUS
<1> USE LifecycleAssumption DEF LifeInit
<1>1. LifeTypeOK
  <2>1. NodeTyped
    BY DEF NodeTyped, Taints
  <2>2. RemoverTyped
    BY DEF RemoverTyped
  <2>3. HookTyped
    BY DEF HookTyped
  <2>4. TroublesTyped
    BY DEF TroublesTyped
  <2>5. WaitTyped
    BY DEF WaitTyped
  <2> QED
    BY <2>1, <2>2, <2>3, <2>4, <2>5, LifeTypeParts
<1>2. TriesLeft
  BY DEF TriesLeft
<1>3. TaintsKept
  BY DEF TaintsKept
<1>4. CalmIsSeen /\ DrainIsAwaited
  BY DEF CalmIsSeen, DrainIsAwaited
<1> QED
  BY <1>1, <1>2, <1>3, <1>4 DEF LifeIInv

\* What a step leaves alone keeps its type.
LEMMA OthersTyped ==
  /\ NodeTyped /\ UNCHANGED node => NodeTyped'
  /\ RemoverTyped /\ TriesLeft /\ UNCHANGED rem => RemoverTyped' /\ TriesLeft'
  /\ HookTyped /\ UNCHANGED <<hook, calm>> => HookTyped'
  /\ WaitTyped /\ UNCHANGED wait => WaitTyped'
BY DEF NodeTyped, RemoverTyped, TriesLeft, HookTyped, WaitTyped, node, rem, wait

\* A List closes the channel at most once (completionSignal.release).
LEMMA CheckTyped ==
  ASSUME WaitTyped, checkVolumeAttachments, rescan' \in BOOLEAN,
         UNCHANGED <<attached, informer, known>>
  PROVE  WaitTyped'
BY DEF WaitTyped, checkVolumeAttachments, release

\* Each step keeps the types of the state and the remover's tries.
LEMMA LifeTypeStep ==
  ASSUME LifeTypeOK, TriesLeft, [LifeNext]_lifeVars
  PROVE  LifeTypeOK' /\ TriesLeft'
<1>1. CASE RemoverGet
  <2>1. tries < MaxTries
    BY <1>1 DEF RemoverGet, TriesLeft
  <2>2. ASSUME remover' = "check", seen' = taints, UNCHANGED tries
        PROVE  RemoverTyped' /\ TriesLeft'
    BY <2>1, <2>2, LifeTypeParts DEF RemoverTyped, NodeTyped, TriesLeft
  <2>3. RemoverTyped' /\ TriesLeft'
    BY <1>1, <2>1, <2>2, RetryTyped, FinishTyped, LifeTypeParts DEF RemoverGet
  <2>4. TroublesTyped'
    BY <1>1, FaultTyped, LifeTypeParts DEF RemoverGet
  <2> QED
    BY <1>1, <2>3, <2>4, LifeTypeParts, OthersTyped DEF RemoverGet
<1>2. CASE checkAllocatable
  <2>1. tries < MaxTries
    BY <1>2 DEF checkAllocatable, TriesLeft
  <2>2. ASSUME remover' = "patch", UNCHANGED <<seen, tries>>
        PROVE  RemoverTyped' /\ TriesLeft'
    BY <2>1, <2>2, LifeTypeParts DEF RemoverTyped, TriesLeft
  <2>3. RemoverTyped' /\ TriesLeft'
    BY <1>2, <2>1, <2>2, RetryTyped, FinishTyped, LifeTypeParts DEF checkAllocatable
  <2>4. TroublesTyped'
    BY <1>2, FaultTyped, LifeTypeParts DEF checkAllocatable
  <2> QED
    BY <1>2, <2>3, <2>4, LifeTypeParts, OthersTyped DEF checkAllocatable
<1>3. CASE RemoverPatch
  <2>1. tries < MaxTries
    BY <1>3 DEF RemoverPatch, TriesLeft
  <2>2. RemoverTyped' /\ TriesLeft'
    BY <1>3, <2>1, RetryTyped, FinishTyped, LifeTypeParts DEF RemoverPatch, Patch
  <2>3. NodeTyped'
    BY <1>3, LifeTypeParts DEF RemoverPatch, Patch, Replaced, NodeTyped, RemoverTyped
  <2>4. TroublesTyped'
    BY <1>3, FaultTyped, LifeTypeParts DEF RemoverPatch, Patch
  <2> QED
    BY <1>3, <2>2, <2>3, <2>4, LifeTypeParts, OthersTyped DEF RemoverPatch
<1>4. CASE PreStop
  BY <1>4, LifecycleAssumption DEF LifeTypeOK, TriesLeft, node, rem, Trouble, PreStop, Idle, Calm
<1>5. CASE fetchNode
  BY <1>5, LifecycleAssumption DEF LifeTypeOK, TriesLeft, node, rem, Trouble, fetchNode, Idle
<1>6. CASE FirstCheck
  <2>1. WaitTyped'
    BY <1>6, CheckTyped, LifeTypeParts DEF FirstCheck, Idle, WaitTyped
  <2>2. HookTyped'
    BY <1>6, LifeTypeParts DEF FirstCheck, HookTyped
  <2>3. TroublesTyped'
    BY <1>6, FaultTyped, LifeTypeParts DEF FirstCheck, checkVolumeAttachments
  <2> QED
    BY <1>6, <2>1, <2>2, <2>3, LifeTypeParts, OthersTyped DEF FirstCheck, Idle
<1>7. CASE Released
  BY <1>7, LifecycleAssumption DEF LifeTypeOK, TriesLeft, node, rem, Trouble, Released, Idle
<1>8. CASE InformerLists
  BY <1>8, LifecycleAssumption DEF LifeTypeOK, TriesLeft, node, rem, Trouble, InformerLists, Idle
<1>9. CASE Rescan
  <2>1. WaitTyped'
    BY <1>9, CheckTyped, LifeTypeParts DEF Rescan, Idle
  <2>2. TroublesTyped'
    BY <1>9, FaultTyped, LifeTypeParts DEF Rescan, checkVolumeAttachments
  <2> QED
    BY <1>9, <2>1, <2>2, LifeTypeParts, OthersTyped DEF Rescan, Idle
<1>10. ASSUME NEW a \in Own \cup Others, NEW t \in BOOLEAN, DeleteFunc(a, t)
       PROVE  LifeTypeOK' /\ TriesLeft'
  BY <1>10, LifecycleAssumption
     DEF LifeTypeOK, TriesLeft, node, rem, Trouble, DeleteFunc, Concerns, Idle
<1>11. ASSUME NEW a \in Own \cup Others, UpdateFunc(a)
       PROVE  LifeTypeOK' /\ TriesLeft'
  BY <1>11, LifecycleAssumption
     DEF LifeTypeOK, TriesLeft, node, rem, Trouble, UpdateFunc, Concerns, Idle
<1>12. ASSUME NEW a \in Own \cup Others, Detach(a)
       PROVE  LifeTypeOK' /\ TriesLeft'
  BY <1>12, LifecycleAssumption
     DEF LifeTypeOK, TriesLeft, node, rem, Trouble, Detach, Outside
<1>13. ASSUME NEW a \in Own \cup Others, Attach(a)
       PROVE  LifeTypeOK' /\ TriesLeft'
  BY <1>13, LifecycleAssumption
     DEF LifeTypeOK, TriesLeft, node, rem, Trouble, Attach
<1>14. ASSUME NEW t \in {"drain", "other"}, Write(t)
       PROVE  LifeTypeOK' /\ TriesLeft'
  <2>1. NodeTyped'
    BY <1>14, LifeTypeParts DEF Write, NodeTyped, Taints
  <2>2. HookTyped'
    BY <1>14, LifeTypeParts DEF Write, Outside, HookTyped
  <2>3. TroublesTyped'
    BY <1>14, FaultTyped, LifeTypeParts DEF Write
  <2> QED
    BY <1>14, <2>1, <2>2, <2>3, LifeTypeParts, OthersTyped DEF Write, Outside, wait
<1>15. CASE NodeDeleted
  <2>1. NodeTyped'
    BY <1>15, LifeTypeParts DEF NodeDeleted, NodeTyped
  <2>2. TroublesTyped'
    BY <1>15, FaultTyped, LifeTypeParts DEF NodeDeleted
  <2> QED
    BY <1>15, <2>1, <2>2, LifeTypeParts, OthersTyped DEF NodeDeleted, Outside, wait
<1>16. CASE Register
  BY <1>16, LifecycleAssumption
     DEF LifeTypeOK, TriesLeft, node, rem, Trouble, Register, Outside
<1>17. CASE UNCHANGED lifeVars
  BY <1>17, LifecycleAssumption
     DEF LifeTypeOK, TriesLeft, node, rem, Trouble, lifeVars
<1> QED
  BY <1>1, <1>2, <1>3, <1>4, <1>5, <1>6, <1>7, <1>8, <1>9, <1>10, <1>11, <1>12, <1>13, <1>14,
     <1>15, <1>16, <1>17
     DEF LifeNext, Remover, Main, Informer

\* Which steps touch the taints at all: the patch, the others, and the end of
\* the node.
LEMMA TaintsChange ==
  ASSUME [LifeNext]_lifeVars
  PROVE  \/ RemoverPatch
         \/ \E t \in {"drain", "other"} : Write(t)
         \/ NodeDeleted
         \/ UNCHANGED <<exists, taints, wanted>>
<1> USE DEF node, Idle, Outside
<1>1. CASE RemoverGet \/ checkAllocatable
  BY <1>1 DEF RemoverGet, checkAllocatable
<1>2. CASE PreStop \/ Main
  BY <1>2 DEF PreStop, Main, fetchNode, FirstCheck, Released
<1>3. CASE Informer
  BY <1>3 DEF Informer, InformerLists, Rescan, DeleteFunc
<1>4. CASE \E a \in Own \cup Others : UpdateFunc(a) \/ Detach(a) \/ Attach(a)
  BY <1>4 DEF UpdateFunc, Detach, Attach
<1>5. CASE Register
  BY <1>5 DEF Register
<1>6. CASE UNCHANGED lifeVars
  BY <1>6 DEF lifeVars
<1> QED
  BY <1>1, <1>2, <1>3, <1>4, <1>5, <1>6 DEF LifeNext, Remover

\* No step takes a taint of the others away, or brings one back.
LEMMA TaintsStep ==
  ASSUME TaintsKept, [LifeNext]_lifeVars
  PROVE  TaintsKept'
<1> USE DEF TaintsKept
<1>1. CASE RemoverPatch
  BY <1>1 DEF RemoverPatch, Patch, Replaced
<1>2. ASSUME NEW t \in {"drain", "other"}, Write(t)
      PROVE  TaintsKept'
  BY <1>2 DEF Write
<1>3. CASE NodeDeleted
  BY <1>3 DEF NodeDeleted
<1>4. CASE UNCHANGED <<exists, taints, wanted>>
  BY <1>4
<1> QED
  BY <1>1, <1>2, <1>3, <1>4, TaintsChange

\* No step makes the hook skip a drain that it has had since it began.
LEMMA CalmStep ==
  ASSUME LifeTypeOK, TaintsKept, CalmIsSeen, DrainIsAwaited, [LifeNext]_lifeVars
  PROVE  CalmIsSeen' /\ DrainIsAwaited'
<1> USE DEF CalmIsSeen, DrainIsAwaited, Calm
<1>1. CASE RemoverGet \/ checkAllocatable \/ RemoverPatch
  BY <1>1 DEF RemoverGet, checkAllocatable, RemoverPatch, node
<1>2. CASE PreStop
  BY <1>2 DEF PreStop, Idle, node
<1>3. CASE fetchNode
  <2>1. isNodeBeingDrained <=> "drain" \in wanted
    BY DEF isNodeBeingDrained, TaintsKept
  <2> QED
    BY <1>3, <2>1 DEF fetchNode, Idle, node
<1>4. CASE FirstCheck \/ Released
  BY <1>4 DEF FirstCheck, Released, Idle, node
<1>5. CASE Informer
  BY <1>5 DEF Informer, InformerLists, Rescan, DeleteFunc, Idle, node
<1>6. ASSUME NEW a \in Own \cup Others, UpdateFunc(a) \/ Detach(a) \/ Attach(a)
      PROVE  CalmIsSeen' /\ DrainIsAwaited'
  <2>1. UNCHANGED <<hook, calm, exists, wanted>>
    BY <1>6 DEF UpdateFunc, Detach, Attach, Idle, Outside, node
  <2> QED
    BY <2>1
<1>7. ASSUME NEW t \in {"drain", "other"}, Write(t)
      PROVE  CalmIsSeen' /\ DrainIsAwaited'
  BY <1>7 DEF Write, Outside
<1>8. CASE NodeDeleted
  BY <1>8 DEF NodeDeleted, Outside
<1>9. CASE Register
  BY <1>9 DEF Register, Outside
<1>10. CASE UNCHANGED lifeVars
  BY <1>10 DEF lifeVars
<1> QED
  BY <1>1, <1>2, <1>3, <1>4, <1>5, <1>6, <1>7, <1>8, <1>9, <1>10 DEF LifeNext, Remover, Main

\* The invariant of the remover and the hook, from the lemmas above.
THEOREM LifeInvariance == LifeSpec => []LifeIInv
<1>1. LifeInit => LifeIInv
  BY LifeInitHolds
<1>2. LifeIInv /\ [LifeNext]_lifeVars => LifeIInv'
  BY LifeTypeStep, TaintsStep, CalmStep DEF LifeIInv
<1> QED
  BY <1>1, <1>2, PTL DEF LifeSpec

\* The state keeps its types; in particular the channel that releases the hook
\* is closed at most once, whichever goroutines find that nothing is left
\* (completionSignal.release).
THEOREM LifeTypeCorrect == LifeSpec => []LifeTypeOK
<1>1. LifeIInv => LifeTypeOK
  BY DEF LifeIInv
<1> QED
  BY <1>1, LifeInvariance, PTL

\* The remover never changes the taints of the others (removeNotReadyTaint).
THEOREM TaintsSurvive == LifeSpec => []TaintsKept
<1>1. LifeIInv => TaintsKept
  BY DEF LifeIInv
<1> QED
  BY <1>1, LifeInvariance, PTL

\* The hook never skips the wait of a node that was being drained since the
\* hook began (PreStop).
THEOREM DrainsAreAwaited == LifeSpec => []DrainIsAwaited
<1>1. LifeIInv => DrainIsAwaited
  BY DEF LifeIInv
<1> QED
  BY <1>1, LifeInvariance, PTL

=============================================================================
