---------------------------- MODULE VolumeModify ----------------------------
(***************************************************************************)
(* Size and type changes of one volume: ControllerExpandVolume and         *)
(* ModifyVolumeProperties, which share the in-flight key of the volume,    *)
(* and the coalesced modify (see ModifyCoalescing), which takes none and   *)
(* runs beside them.  All of them send the same resize command, which sets *)
(* size and type together, so each sends a value it read before.           *)
(*                                                                         *)
(* vServer is external: it refuses to shrink a volume, to change the zone  *)
(* by a resize, and every command on a volume it is still working on.      *)
(***************************************************************************)
EXTENDS Integers

CONSTANTS
  Types,      \* volume type ids
  NoType,     \* the modify request that names no type
  Remote,     \* the types of the second zone
  MaxSize,    \* bound: GiB
  MaxEvents   \* bound: faults, timeouts, interventions and requests

ASSUME ModifyAssumption ==
  /\ NoType \notin Types /\ Remote \subseteq Types
  /\ MaxSize \in Nat \ {0} /\ MaxEvents \in Nat

VARIABLES
  vol,       \* the volume at vServer, with the size and type it is moving to
  inFlight,  \* InFlight has the volume
  claim,     \* half GiBs that csi-resizer wants until it is told OK; 0: none
  call,      \* the call of each kind
  events

vars == <<vol, inFlight, claim, call, events>>

Kinds == {"expand", "properties", "modify"}

Sizes == 1..MaxSize

Statuses == {"SETTLED", "MODIFYING", "MIGRATING", "ERROR", "GONE"}

PCs == {"idle", "get", "read", "set", "migrate", "waitMigrated", "resize", "settle", "ok", "err"}

\* ask: the type asked for.  type and size: what the command will carry.
\* reached: history, what was asked held at some time during the call.
TypeOK ==
  /\ vol \in [status : Statuses, attached : BOOLEAN, size : Sizes, type : Types,
              toSize : Sizes, toType : Types]
  /\ inFlight \in BOOLEAN
  /\ claim \in 0..(2 * MaxSize)
  /\ call \in [Kinds -> [pc : PCs, ask : Types \cup {NoType}, type : Types \cup {NoType},
                         size : 0..MaxSize, reached : BOOLEAN]]
  /\ events \in 0..MaxEvents

NoCall ==
  [pc |-> "idle", ask |-> NoType, type |-> NoType, size |-> 0, reached |-> FALSE]

Init ==
  /\ \E t \in Types, a \in BOOLEAN :
       vol = [status |-> "SETTLED", attached |-> a, size |-> 1, type |-> t, toSize |-> 1, toType |-> t]
  /\ inFlight = FALSE
  /\ claim = 0
  /\ call = [k \in Kinds |-> NoCall]
  /\ events = 0

-----------------------------------------------------------------------------
Event == events < MaxEvents /\ events' = events + 1

Exists(v) == v.status # "GONE"

\* RoundUpSize, and RoundUpGiB.
RoundUpSize(half) == (half + 1) \div 2

\* The volume is as the caller of c, a call of kind k, asked for.
Wanted(k, c, v) ==
  /\ Exists(v)
  /\ IF k = "expand" THEN 2 * v.size >= claim ELSE c.ask \in {NoType, v.type}

\* The calls after a step of k leads to next; the histories follow the volume.
Observed(next) ==
  [k \in Kinds |->
     IF next[k].pc = "idle" THEN NoCall
     ELSE [next[k] EXCEPT !.reached = \/ @ \/ Wanted(k, next[k], vol)
                                     \/ Wanted(k, next[k], vol')]]

Goto(k, pc) == call' = Observed([call EXCEPT ![k].pc = pc])

\* A read of the volume or of its type that fails where the code gives up.
ReadFails(k) ==
  /\ call[k].pc \in {"get", "read"}
  /\ Event /\ UNCHANGED <<vol, inFlight, claim>>
  /\ Goto(k, "err")

\* A step that reads the volume.
Reads(k, from) ==
  /\ call[k].pc = from
  /\ UNCHANGED <<vol, inFlight, claim, events>>

-----------------------------------------------------------------------------
(* vServer's commands: the volume after it, and the code. *)

ResizeBlockVolumeById(v, t, size) ==
  IF v.status # "SETTLED" \/ size < v.size \/ (t \in Remote) # (v.type \in Remote) THEN <<v, "Error">>
  ELSE IF t = v.type /\ size = v.size THEN <<v, "Unchanged">>
  ELSE <<[v EXCEPT !.status = "MODIFYING", !.toType = t, !.toSize = size], "OK">>

MigrateBlockVolumeById(v, t) ==
  IF v.status = "MIGRATING" THEN <<v, "InProgress">>
  ELSE IF v.status # "SETTLED" \/ v.attached \/ (t \in Remote) = (v.type \in Remote) THEN <<v, "Error">>
  ELSE <<[v EXCEPT !.status = "MIGRATING", !.toType = t, !.toSize = v.size], "OK">>

\* A command may fail: refused, or carried out with its answer lost.
Command(k, from, reply, next(_)) ==
  /\ call[k].pc = from
  /\ UNCHANGED <<inFlight, claim>>
  /\ \/ vol' = reply[1] /\ Goto(k, next(reply[2])) /\ UNCHANGED events
     \/ vol' \in {vol, reply[1]} /\ Goto(k, "err") /\ Event

-----------------------------------------------------------------------------
(* The handlers. *)

Insert == ~inFlight /\ inFlight' = TRUE

\* csi-resizer calls until it is told OK.
ControllerExpandVolume ==
  /\ call["expand"].pc = "idle" /\ claim # 0
  /\ Insert /\ UNCHANGED <<vol, claim, events>>
  /\ Goto("expand", "get")

\* The volume is large enough already, or ExpandVolume keeps the type just read.
ExpandGet ==
  LET want == RoundUpSize(claim)
  IN  /\ Reads("expand", "get")
      /\ IF ~Exists(vol) THEN Goto("expand", "err")
         ELSE IF vol.size >= want THEN Goto("expand", "ok")
         ELSE call' = Observed([call EXCEPT !["expand"] =
                [@ EXCEPT !.pc = "read", !.type = vol.type, !.size = want]])

ModifyVolumeProperties(t) ==
  /\ call["properties"].pc = "idle"
  /\ Insert /\ Event /\ UNCHANGED <<vol, claim>>
  /\ call' = Observed([call EXCEPT !["properties"] = [@ EXCEPT !.pc = "get", !.ask = t]])

PropertiesGet ==
  LET t == call["properties"].ask
  IN  /\ Reads("properties", "get")
      /\ IF ~Exists(vol) THEN Goto("properties", "err")
         ELSE IF vol.type = t THEN Goto("properties", "ok")
         ELSE call' = Observed([call EXCEPT !["properties"] =
                [@ EXCEPT !.pc = "set", !.type = t, !.size = vol.size]])

\* The worker of ModifyCoalescing: no size, and perhaps no type.
ExecuteModify(t) ==
  /\ call["modify"].pc = "idle"
  /\ Event /\ UNCHANGED <<vol, inFlight, claim>>
  /\ call' = Observed([call EXCEPT !["modify"] = [@ EXCEPT !.pc = "read", !.ask = t, !.type = t]])

\* Mutant: only the handler of a successful call gives the key back.
AnswerKeepsKey(k) ==
  /\ call[k].pc \in {"ok", "err"}
  /\ inFlight' = (inFlight /\ (k = "modify" \/ call[k].pc = "err"))
  /\ claim' = IF k = "expand" /\ call[k].pc = "ok" THEN 0 ELSE claim
  /\ UNCHANGED <<vol, events>>
  /\ Goto(k, "idle")

Answer(k) ==
  /\ call[k].pc \in {"ok", "err"}
  /\ inFlight' = (inFlight /\ k = "modify")
  /\ claim' = IF k = "expand" /\ call[k].pc = "ok" THEN 0 ELSE claim
  /\ UNCHANGED <<vol, events>>
  /\ Goto(k, "idle")

-----------------------------------------------------------------------------
(* ModifyVolumeType, of ModifyVolumeProperties. *)

AfterSet(code) == IF code \in {"OK", "Unchanged"} THEN "waitMigrated" ELSE "err"

ModifyVolumeType ==
  LET c == call["properties"]
  IN  Command("properties", "set", ResizeBlockVolumeById(vol, c.type, c.size), AfterSet)

-----------------------------------------------------------------------------
(* ResizeOrModifyDisk, of ExpandVolume and of the coalesced modify. *)

DesiredType(c) == IF c.type = NoType THEN vol.type ELSE c.type

DesiredSize(c) == IF c.size < vol.size THEN vol.size ELSE c.size

checkSameZone(s, t) == (s \in Remote) = (t \in Remote)

needsVolumeModification(t, size) == vol.size < size \/ vol.type # t

\* A volume that is as asked may still be moving there: it is waited for.
validateModifyVolume(t, size, change) ==
  IF needsVolumeModification(t, size) THEN change ELSE "settle"

\* One read decides: wait for what runs already, resize, or first migrate,
\* unless a migration runs.
ReadDisk(k) ==
  LET t == DesiredType(call[k])
      size == DesiredSize(call[k])
      change == IF checkSameZone(t, vol.type) \/ vol.attached THEN "resize"
                ELSE IF vol.status = "MIGRATING" THEN "waitMigrated" ELSE "migrate"
      next == IF Exists(vol) THEN validateModifyVolume(t, size, change) ELSE "err"
  IN  /\ Reads(k, "read")
      /\ call' = Observed([call EXCEPT ![k] = [@ EXCEPT !.pc = next, !.type = t, !.size = size]])

AfterMigrate(code) == IF code \in {"OK", "InProgress"} THEN "waitMigrated" ELSE "err"

migrateVolumeToType(k) ==
  Command(k, "migrate", MigrateBlockVolumeById(vol, call[k].type), AfterMigrate)

isMigratedToType(v, t) == v.status = "SETTLED" /\ v.type = t

waitVolumeMigrated(k) ==
  /\ Reads(k, "waitMigrated")
  /\ \/ isMigratedToType(vol, call[k].type) /\ Goto(k, IF k = "properties" THEN "ok" ELSE "resize")
     \/ vol.status \in {"ERROR", "GONE"} /\ Goto(k, "err")

AfterResize(code) == IF code \in {"OK", "Unchanged"} THEN "settle" ELSE "err"

ResizeCommand(k) ==
  Command(k, "resize", ResizeBlockVolumeById(vol, call[k].type, call[k].size), AfterResize)

\* Mutant: the type is compared, the size is not.
checkDesiredType(c) == vol.type = c.type

checkDesiredState(c) == vol.size >= c.size /\ vol.type = c.type

\* The wait does not end on ERROR.
waitVolumeAchieveStatus(k) ==
  /\ Reads(k, "settle")
  /\ \/ vol.status = "SETTLED" /\ Goto(k, IF checkDesiredState(call[k]) THEN "ok" ELSE "err")
     \/ ~Exists(vol) /\ Goto(k, "err")

\* The ctx, or the steps of the backoff, end a wait: for a type that nothing
\* leads to, or, which is an event, before vServer has done its work.
WaitEnds(k) ==
  /\ call[k].pc \in {"waitMigrated", "settle"}
  /\ \/ call[k].pc = "waitMigrated" /\ vol.status = "SETTLED" /\ vol.type # call[k].type
        /\ UNCHANGED events
     \/ vol.status # "SETTLED" /\ Event
  /\ UNCHANGED <<vol, inFlight, claim>>
  /\ Goto(k, "err")

ResizeOrModifyDisk(k) ==
  ReadDisk(k) \/ migrateVolumeToType(k) \/ ResizeCommand(k) \/ waitVolumeAchieveStatus(k)

-----------------------------------------------------------------------------
(* The environment. *)

Claim(half) ==
  /\ claim = 0 /\ Event
  /\ claim' = half
  /\ UNCHANGED <<vol, inFlight, call>>

Becomes(v) == vol' = v /\ UNCHANGED <<inFlight, claim>> /\ call' = Observed(call)

\* vServer ends what it is doing, and an operator repairs a volume in ERROR.
VolumeSettles ==
  /\ vol.status \in {"MODIFYING", "MIGRATING", "ERROR"}
  /\ UNCHANGED events
  /\ Becomes(IF vol.status = "ERROR" THEN [vol EXCEPT !.status = "SETTLED"]
             ELSE [vol EXCEPT !.status = "SETTLED", !.size = vol.toSize, !.type = vol.toType])

\* It gives up; or the volume is attached, detached or deleted.
VolumeDisturbed ==
  /\ Event
  /\ \/ vol.status \in {"MODIFYING", "MIGRATING"}
        /\ \E s \in {"SETTLED", "ERROR"} : Becomes([vol EXCEPT !.status = s])
     \/ vol.status = "SETTLED" /\ Becomes([vol EXCEPT !.attached = ~@])
     \/ vol.status = "SETTLED" /\ Becomes([vol EXCEPT !.status = "GONE"])

\* The process restarts: the calls are gone, and the key with them.
Restart ==
  /\ Event /\ inFlight' = FALSE
  /\ call' = [k \in Kinds |-> NoCall]
  /\ UNCHANGED <<vol, claim>>

Run(k) ==
  \/ k = "expand" /\ ExpandGet
  \/ k = "properties" /\ (PropertiesGet \/ ModifyVolumeType)
  \/ ResizeOrModifyDisk(k) \/ waitVolumeMigrated(k) \/ WaitEnds(k) \/ ReadFails(k) \/ Answer(k)

Next ==
  \/ \E k \in Kinds : Run(k)
  \/ ControllerExpandVolume
  \/ \E t \in Types : ModifyVolumeProperties(t)
  \/ \E t \in Types \cup {NoType} : ExecuteModify(t)
  \/ \E half \in 1..(2 * MaxSize) : Claim(half)
  \/ VolumeSettles \/ VolumeDisturbed \/ Restart

\* A call runs on, its polls bounded by the ctx; vServer ends what it started;
\* csi-resizer retries, also when the key is taken now and then.
Fairness ==
  /\ \A k \in Kinds : WF_vars(Run(k))
  /\ WF_vars(VolumeSettles)
  /\ SF_vars(ControllerExpandVolume)

Spec == Init /\ [][Next]_vars /\ Fairness

-----------------------------------------------------------------------------
(* Properties. *)

\* An expand is answered OK only if the volume had the size that was asked
\* for, to the byte, at some time during the call, and a modify only if it
\* had the type: whatever vServer, a deletion or the other calls did to the
\* volume between the handler's reads.
OKMeansReached == \A k \in Kinds : call[k].pc = "ok" => call[k].reached

\* OKMeansReached, of variables that keep their types.
ModifyInv == TypeOK /\ OKMeansReached

\* Once faults, timeouts and other requests stop, the retried expand is
\* answered OK, unless the volume was deleted.
ExpandSucceeds == claim # 0 ~> (claim = 0 \/ ~Exists(vol))
=============================================================================
