---------------------------- MODULE ModifyProofs ----------------------------
(***************************************************************************)
(* Proofs about the changes of a volume: what ModifyCoalescing merges, and *)
(* what the calls of VolumeModify are told.  The two are separate machines *)
(* (the worker of the first makes the coalesced calls of the second) with  *)
(* no name in common: MergeInit, MergeNext, mergeVars are the first's.     *)
(***************************************************************************)
EXTENDS VolumeModify, ModifyCoalescing, TLAPS

-----------------------------------------------------------------------------
(* ModifyCoalescing *)

\* A request a worker has accepted was made: its type is not set again.
AcceptedMade == \A w \in Requests : \A r \in chans[w] : pc[r] # "idle"

\* The inductive invariant of the merge.
MergeIInv == MergeInv /\ AcceptedMade

\* The invariant holds at the start.
LEMMA MergeInitHolds == MergeInit => MergeIInv
  BY MergeAssumption
     DEF MergeInit, MergeIInv, MergeInv, MergeTypeOK, AcceptedAgree, AcceptedMade, Requests, None,
         CallerPCs, WorkerPCs

\* LoadOrStore: the type of a request is set while no worker has accepted it.
LEMMA AddKeeps ==
  ASSUME MergeIInv, NEW r \in Requests, NEW t \in VolumeTypes \cup {NoVolumeType},
         addModifyVolumeRequest(r, t)
  PROVE  MergeIInv'
<1>1. MergeTypeOK'
  BY DEF MergeIInv, MergeInv, MergeTypeOK, addModifyVolumeRequest, CallerPCs, WorkerPCs
<1>2. \A w \in Requests : r \notin chans[w]
  BY DEF MergeIInv, AcceptedMade, addModifyVolumeRequest
<1>3. AcceptedAgree' /\ AcceptedMade'
  <2>1. CASE current = None
    BY <2>1, <1>2
       DEF MergeIInv, MergeInv, MergeTypeOK, addModifyVolumeRequest, AcceptedAgree, AcceptedMade
  <2>2. CASE current # None
    BY <2>2, <1>2
       DEF MergeIInv, MergeInv, MergeTypeOK, addModifyVolumeRequest, AcceptedAgree, AcceptedMade
  <2> QED BY <2>1, <2>2
<1> QED BY <1>1, <1>3 DEF MergeIInv, MergeInv

\* A step of a caller, which at most withdraws its type.
LEMMA CallerKeeps ==
  ASSUME MergeIInv, NEW r \in Requests, Caller(r)
  PROVE  MergeIInv'
<1>1. MergeTypeOK'
  BY DEF MergeIInv, MergeInv, MergeTypeOK, Caller, Send, Await, Cancel, Returns, workers,
         CallerPCs
<1>2. AcceptedAgree' /\ AcceptedMade'
  BY DEF MergeIInv, MergeInv, MergeTypeOK, Caller, Send, Await, Cancel, Returns, workers,
         AcceptedAgree, AcceptedMade
<1> QED BY <1>1, <1>2 DEF MergeIInv, MergeInv

\* A worker takes a request: a type is merged only where the requests that
\* were accepted before named it, or none at all.
LEMMA ReceiveKeeps ==
  ASSUME MergeIInv, NEW w \in Requests, NEW r \in Requests, Receive(w, r)
  PROVE  MergeIInv'
<1>1. MergeTypeOK'
  <2>1. CASE validateModifyVolumeRequest(w, r)
    BY <2>1 DEF MergeIInv, MergeInv, MergeTypeOK, Receive, process, mergeModifyVolumeRequest, CallerPCs
  <2>2. CASE ~validateModifyVolumeRequest(w, r)
    BY <2>2 DEF MergeIInv, MergeInv, MergeTypeOK, Receive, process, CallerPCs
  <2> QED BY <2>1, <2>2
<1>2. AcceptedMade'
  BY DEF MergeIInv, MergeInv, MergeTypeOK, Receive, process, AcceptedMade
<1>3. AcceptedAgree'
  <2>1. CASE validateModifyVolumeRequest(w, r)
    <3>1. /\ chans' = [chans EXCEPT ![w] = @ \cup {r}] /\ type' = type
          /\ merged' = [merged EXCEPT ![w] = IF type[r] = NoVolumeType THEN @ ELSE type[r]]
      BY <2>1 DEF Receive, process, mergeModifyVolumeRequest
    <3>2. type[r] = NoVolumeType \/ type[r] = merged'[w]
      BY <3>1 DEF MergeIInv, MergeInv, MergeTypeOK
    <3>3. ASSUME NEW q \in chans[w] PROVE type[q] = NoVolumeType \/ type[q] = merged'[w]
      BY <3>1, <2>1, <3>3
         DEF MergeIInv, MergeInv, MergeTypeOK, AcceptedAgree, validateModifyVolumeRequest
    <3> QED BY <3>1, <3>2, <3>3 DEF MergeIInv, MergeInv, MergeTypeOK, AcceptedAgree
  <2>2. CASE ~validateModifyVolumeRequest(w, r)
    BY <2>2 DEF MergeIInv, MergeInv, Receive, process, AcceptedAgree
  <2> QED BY <2>1, <2>2
<1> QED BY <1>1, <1>2, <1>3 DEF MergeIInv, MergeInv

\* The other steps of a worker.
LEMMA WorkerKeeps ==
  ASSUME MergeIInv, NEW w \in Requests,
         \/ Reject(w) \/ IdleTimeout(w) \/ Drained(w)
         \/ executeModifyVolumeRequest(w) \/ Respond(w) \/ Finish(w)
  PROVE  MergeIInv'
<1>1. CASE Reject(w)
  <2>1. rejecting[w] \in Requests
    BY <1>1 DEF MergeIInv, MergeInv, MergeTypeOK, Reject
  <2>2. MergeTypeOK'
    BY <1>1, <2>1 DEF MergeIInv, MergeInv, MergeTypeOK, Reject, Returns, CallerPCs, None
  <2>3. AcceptedAgree' /\ AcceptedMade'
    BY <1>1, <2>1 DEF MergeIInv, MergeInv, MergeTypeOK, Reject, Returns, AcceptedAgree, AcceptedMade
  <2> QED BY <2>2, <2>3 DEF MergeIInv, MergeInv
<1>2. CASE IdleTimeout(w) \/ Drained(w) \/ executeModifyVolumeRequest(w)
  <2>1. MergeTypeOK'
    BY <1>2 DEF MergeIInv, MergeInv, MergeTypeOK, IdleTimeout, Drained, executeModifyVolumeRequest,
                callers, WorkerPCs, None
  <2>2. UNCHANGED <<chans, type, merged, pc>>
    BY <1>2 DEF IdleTimeout, Drained, executeModifyVolumeRequest, callers
  <2> QED BY <2>1, <2>2 DEF MergeIInv, MergeInv, AcceptedAgree, AcceptedMade
<1>3. CASE Respond(w)
  <2> PICK r \in chans[w] :
        /\ IF pc[r] = "waiting" THEN Returns(r) ELSE UNCHANGED callers
        /\ chans' = [chans EXCEPT ![w] = @ \ {r}]
    BY <1>3 DEF Respond
  <2>1. r \in Requests /\ UNCHANGED <<current, wpc, merged, rejecting>>
    BY <1>3 DEF MergeIInv, MergeInv, MergeTypeOK, Respond
  <2>2. MergeTypeOK'
    BY <2>1 DEF MergeIInv, MergeInv, MergeTypeOK, Returns, callers, CallerPCs, None
  <2>3. AcceptedAgree' /\ AcceptedMade'
    BY <2>1 DEF MergeIInv, MergeInv, MergeTypeOK, Returns, callers, AcceptedAgree, AcceptedMade
  <2> QED BY <2>2, <2>3 DEF MergeIInv, MergeInv
<1>4. CASE Finish(w)
  <2>1. MergeTypeOK'
    BY <1>4 DEF MergeIInv, MergeInv, MergeTypeOK, Finish, callers, WorkerPCs
  <2>2. AcceptedAgree' /\ AcceptedMade'
    BY <1>4 DEF MergeIInv, MergeInv, MergeTypeOK, Finish, callers, AcceptedAgree, AcceptedMade
  <2> QED BY <2>1, <2>2 DEF MergeIInv, MergeInv
<1> QED BY <1>1, <1>2, <1>3, <1>4

\* Every step keeps the invariant.
LEMMA MergeNextKeeps == MergeIInv /\ [MergeNext]_mergeVars => MergeIInv'
<1> SUFFICES ASSUME MergeIInv, [MergeNext]_mergeVars PROVE MergeIInv'
  OBVIOUS
<1>1. CASE UNCHANGED mergeVars
  BY <1>1 DEF mergeVars, MergeIInv, MergeInv, MergeTypeOK, AcceptedAgree, AcceptedMade
<1>2. CASE MergeNext
  BY <1>2, AddKeeps, CallerKeeps, ReceiveKeeps, WorkerKeeps DEF MergeNext, Worker
<1> QED BY <1>1, <1>2

\* No caller is told of the success of somebody else's modification: every
\* caller a worker of processModifyVolumeRequests has accepted asked for the
\* type that is executed or for none, and a worker that executes has no
\* rejected caller left to answer.
THEOREM MergeCorrect == MergeSpec => []MergeInv
<1>1. MergeIInv => MergeInv
  BY DEF MergeIInv
<1> QED BY MergeInitHolds, MergeNextKeeps, <1>1, PTL DEF MergeSpec

-----------------------------------------------------------------------------
(* VolumeModify *)

CallRecord ==
  [pc : PCs, ask : Types \cup {NoType}, type : Types \cup {NoType},
   size : 0..MaxSize, reached : BOOLEAN]

\* The places of each kind of call.
Places(k) ==
  {"idle", "waitMigrated", "ok", "err"} \cup
    CASE k = "properties" -> {"get", "set"}
      [] k = "expand"     -> {"get", "read", "migrate", "resize", "settle"}
      [] k = "modify"     -> {"read", "migrate", "resize", "settle"}

\* The places where a call has what its command carries.
Carries == {"set", "migrate", "waitMigrated", "resize", "settle"}

\* What a call c of kind k carries is what its caller asked for: an expand,
\* for which csi-resizer waits, at least the bytes; the others the type, if
\* they name one.
Carried(k, c, half) ==
  /\ c.pc \in Places(k)
  /\ c.pc \in Carries => c.type \in Types /\ c.size \in Sizes
  /\ k = "expand" /\ c.pc # "idle" => half # 0
  /\ k = "expand" /\ c.pc \in Carries \cup {"read"} => 2 * c.size >= half
  /\ k # "expand" /\ c.pc \in Carries \cup {"read"} => c.ask \in {NoType, c.type}
  /\ k = "properties" /\ c.pc # "idle" => c.ask \in Types

CallsCarry == \A k \in Kinds : Carried(k, call[k], claim)

\* The inductive invariant of the calls.
ModifyIInv == ModifyInv /\ CallsCarry

\* The same, in the parts that the proofs treat one by one.
ServerTyped ==
  /\ vol \in [status : Statuses, attached : BOOLEAN, size : Sizes, type : Types,
              toSize : Sizes, toType : Types]
  /\ inFlight \in BOOLEAN
  /\ events \in 0..MaxEvents

CallsFit ==
  /\ claim \in 0..(2 * MaxSize)
  /\ call \in [Kinds -> CallRecord]
  /\ \A k \in Kinds : Carried(k, call[k], claim) /\ (call[k].pc = "ok" => call[k].reached)

\* The parts are the whole.
LEMMA ModifyParts == ModifyIInv <=> ServerTyped /\ CallsFit
  BY Zenon DEF ModifyIInv, ModifyInv, TypeOK, OKMeansReached, CallsCarry, ServerTyped, CallsFit, CallRecord

\* The parts are the whole after a step.
LEMMA ModifyPartsNext == ServerTyped' /\ CallsFit' => ModifyIInv'
  BY Zenon DEF ModifyIInv, ModifyInv, TypeOK, OKMeansReached, CallsCarry, ServerTyped, CallsFit, CallRecord

\* No call is a call.
LEMMA NoCallFits == NoCall \in CallRecord /\ \A k \in Kinds, half \in Nat : Carried(k, NoCall, half)
  BY ModifyAssumption DEF NoCall, CallRecord, Carried, PCs, Places, Carries, Kinds

\* The invariant holds at the start.
LEMMA ModifyInitHolds == Init => ModifyIInv
<1> SUFFICES ASSUME Init PROVE ServerTyped /\ CallsFit
  BY ModifyParts
<1>1. ServerTyped
  <2>1. 1 \in Sizes /\ 0 \in 0..MaxEvents
    BY ModifyAssumption DEF Sizes
  <2> PICK t \in Types, a \in BOOLEAN :
        vol = [status |-> "SETTLED", attached |-> a, size |-> 1, type |-> t, toSize |-> 1, toType |-> t]
    BY DEF Init
  <2>2. "SETTLED" \in Statuses
    BY DEF Statuses
  <2> QED BY <2>1, <2>2, Zenon DEF Init, ServerTyped
<1>2. claim = 0 /\ call = [k \in Kinds |-> NoCall]
  BY DEF Init
<1>3. \A k \in Kinds : call[k] = NoCall
  BY <1>2
<1>4. NoCall.pc # "ok"
  BY DEF NoCall
<1> QED BY <1>1, <1>2, <1>3, <1>4, NoCallFits, ModifyAssumption DEF CallsFit

VolumeRecord ==
  [status : Statuses, attached : BOOLEAN, size : Sizes, type : Types, toSize : Sizes, toType : Types]

\* vServer's part keeps its type where the volume does.
LEMMA ServerKeeps ==
  ASSUME ServerTyped, vol' \in VolumeRecord, inFlight' \in BOOLEAN, events' = events \/ Event
  PROVE  ServerTyped'
<1>1. events' \in 0..MaxEvents
  BY ModifyAssumption DEF ServerTyped, Event
<1> QED BY <1>1, Zenon DEF ServerTyped, VolumeRecord

\* The histories are all that Observed adds: calls that fit still do, and one
\* that is to be answered OK is marked if what it asked for holds.
LEMMA ObservedFits ==
  ASSUME NEW next \in [Kinds -> CallRecord], call' = Observed(next),
         claim' \in 0..(2 * MaxSize),
         \A j \in Kinds :
           /\ Carried(j, next[j], claim')
           /\ next[j].pc = "ok" => next[j].reached \/ Wanted(j, next[j], vol)
  PROVE  CallsFit'
<1>1. claim' \in Nat
  BY ModifyAssumption
<1>2. ASSUME NEW j \in Kinds
      PROVE  /\ call'[j] \in CallRecord
             /\ Carried(j, call'[j], claim') /\ (call'[j].pc = "ok" => call'[j].reached)
  <2>1. CASE next[j].pc = "idle"
    <3>1. call'[j] = NoCall
      BY <2>1 DEF Observed
    <3>2. NoCall.pc # "ok"
      BY DEF NoCall
    <3> QED BY <3>1, <3>2, <1>1, NoCallFits
  <2>2. CASE next[j].pc # "idle"
    <3> DEFINE reach == next[j].reached \/ Wanted(j, next[j], vol) \/ Wanted(j, next[j], vol')
    <3>1. call'[j] = [next[j] EXCEPT !.reached = reach]
      BY <2>2 DEF Observed
    <3>2. next[j] \in CallRecord /\ reach \in BOOLEAN
      BY DEF CallRecord, Wanted
    <3>3. Wanted(j, next[j], vol) => reach
      OBVIOUS
    <3> HIDE DEF reach
    <3>4. /\ call'[j] \in CallRecord /\ call'[j].reached = reach
          /\ call'[j].pc = next[j].pc /\ call'[j].ask = next[j].ask
          /\ call'[j].type = next[j].type /\ call'[j].size = next[j].size
      BY <3>1, <3>2 DEF CallRecord
    <3>5. Carried(j, call'[j], claim')
      BY <3>4 DEF Carried
    <3>6. call'[j].pc = "ok" => reach
      BY <3>3, <3>4 DEF reach
    <3> QED BY <3>4, <3>5, <3>6
  <2> QED BY <2>1, <2>2
<1>3. call' \in [Kinds -> CallRecord]
  BY <1>2 DEF Observed
<1> QED BY <1>2, <1>3 DEF CallsFit

\* A call steps to c, which fits.
LEMMA CallSteps ==
  ASSUME CallsFit, NEW k \in Kinds, NEW c \in CallRecord, claim' = claim,
         Carried(k, c, claim), c.pc = "ok" => c.reached \/ Wanted(k, c, vol),
         call' = Observed([call EXCEPT ![k] = c])
  PROVE  CallsFit'
<1> DEFINE next == [call EXCEPT ![k] = c]
<1>1. next \in [Kinds -> CallRecord]
  BY DEF CallsFit
<1>2. \A j \in Kinds : next[j] = IF j = k THEN c ELSE call[j]
  BY DEF CallsFit
<1>3. call' = Observed(next)
  OBVIOUS
<1> HIDE DEF next
<1>4. claim' \in 0..(2 * MaxSize)
  BY DEF CallsFit
<1>5. \A j \in Kinds :
        /\ Carried(j, next[j], claim')
        /\ next[j].pc = "ok" => next[j].reached \/ Wanted(j, next[j], vol)
  BY <1>2 DEF CallsFit
<1> QED BY <1>1, <1>3, <1>4, <1>5, ObservedFits

\* A call goes to another of its places with what it has.
LEMMA CallGoes ==
  ASSUME CallsFit, NEW k \in Kinds, NEW to \in PCs, claim' = claim, Goto(k, to),
         Carried(k, [call[k] EXCEPT !.pc = to], claim),
         to = "ok" => call[k].reached \/ Wanted(k, call[k], vol)
  PROVE  CallsFit'
<1> DEFINE c == [call[k] EXCEPT !.pc = to]
<1>1. call[k] \in CallRecord /\ call \in [Kinds -> CallRecord]
  BY DEF CallsFit
<1>2. c \in CallRecord /\ c.pc = to /\ c.reached = call[k].reached /\ c.ask = call[k].ask
  BY <1>1 DEF CallRecord
<1>3. call' = Observed([call EXCEPT ![k] = c])
  BY DEF Goto
<1>4. Carried(k, c, claim)
  OBVIOUS
<1> HIDE DEF c
<1>5. Wanted(k, call[k], vol) => Wanted(k, c, vol)
  BY <1>2 DEF Wanted
<1>6. c.pc = "ok" => c.reached \/ Wanted(k, c, vol)
  BY <1>2, <1>5
<1> QED BY <1>2, <1>3, <1>4, <1>6, CallSteps

\* A call may always fail.
LEMMA CallFails ==
  ASSUME CallsFit, NEW k \in Kinds, claim' = claim, Goto(k, "err"), call[k].pc # "idle"
  PROVE  CallsFit'
<1>1. call[k] \in CallRecord /\ Carried(k, call[k], claim)
  BY DEF CallsFit
<1>2. Carried(k, [call[k] EXCEPT !.pc = "err"], claim)
  BY <1>1 DEF CallRecord, Carried, Places, Carries
<1>3. "err" \in PCs
  BY DEF PCs
<1> QED BY <1>2, <1>3, CallGoes

\* The steps that end a call: nothing at vServer changes.
LEMMA FailuresKeep ==
  ASSUME ModifyIInv, NEW k \in Kinds, WaitEnds(k) \/ ReadFails(k)
  PROVE  ModifyIInv'
<1>1. ServerTyped /\ CallsFit
  BY ModifyParts
<1>2. /\ Goto(k, "err") /\ UNCHANGED <<vol, inFlight, claim>> /\ call[k].pc # "idle"
      /\ events' = events \/ Event
  BY DEF WaitEnds, ReadFails
<1>3. ServerTyped'
  BY <1>1, <1>2, ModifyAssumption DEF ServerTyped, Event
<1>4. CallsFit'
  BY <1>1, <1>2, CallFails
<1> QED BY <1>3, <1>4, ModifyPartsNext

\* The answer: the claim is met when an expand is told OK, and no other call
\* depends on it.
LEMMA AnswerKeeps ==
  ASSUME ModifyIInv, NEW k \in Kinds, Answer(k)
  PROVE  ModifyIInv'
<1>1. ServerTyped /\ CallsFit
  BY ModifyParts
<1>2. ServerTyped'
  BY <1>1 DEF ServerTyped, Answer
<1> DEFINE next == [call EXCEPT ![k].pc = "idle"]
<1>3. next \in [Kinds -> CallRecord]
  BY <1>1 DEF CallsFit, CallRecord, PCs
<1>4. \A j \in Kinds : j # k => next[j] = call[j]
  BY <1>1 DEF CallsFit
<1>5. next[k].pc = "idle"
  BY <1>1 DEF CallsFit, CallRecord
<1>6. call' = Observed(next)
  BY DEF Answer, Goto
<1> HIDE DEF next
<1>7. claim' \in 0..(2 * MaxSize) /\ (k # "expand" => claim' = claim)
  BY <1>1, ModifyAssumption DEF Answer, CallsFit
<1>8. ASSUME NEW j \in Kinds PROVE Carried(j, next[j], claim')
  <2>1. CASE j = k
    BY <1>5, <2>1 DEF Carried, Places, Carries
  <2>2. CASE j # k
    BY <1>1, <1>4, <1>7, <2>2 DEF Carried, CallsFit
  <2> QED BY <2>1, <2>2
<1>9. \A j \in Kinds : next[j].pc = "ok" => next[j].reached
  BY <1>1, <1>4, <1>5 DEF CallsFit
<1>10. CallsFit'
  BY <1>3, <1>6, <1>7, <1>8, <1>9, ObservedFits
<1> QED BY <1>2, <1>10, ModifyPartsNext

\* The calls come in.
LEMMA CallsArrive ==
  ASSUME ModifyIInv,
         \/ ControllerExpandVolume
         \/ \E t \in Types : ModifyVolumeProperties(t)
         \/ \E t \in Types \cup {NoType} : ExecuteModify(t)
  PROVE  ModifyIInv'
<1>1. ServerTyped /\ CallsFit
  BY ModifyParts
<1>2. /\ "expand" \in Kinds /\ "properties" \in Kinds /\ "modify" \in Kinds
      /\ \A k \in Kinds : call[k] \in CallRecord
  BY <1>1 DEF Kinds, CallsFit
<1>3. CASE ControllerExpandVolume
  <2>1. ServerTyped'
    BY <1>1, <1>3 DEF ServerTyped, ControllerExpandVolume, Insert
  <2>2. Carried("expand", [call["expand"] EXCEPT !.pc = "get"], claim)
    BY <1>2, <1>3 DEF CallRecord, Carried, Places, Carries, ControllerExpandVolume
  <2>3. "get" \in PCs
    BY DEF PCs
  <2>4. claim' = claim /\ Goto("expand", "get")
    BY <1>3 DEF ControllerExpandVolume
  <2>5. CallsFit'
    BY <1>1, <1>2, <2>2, <2>3, <2>4, CallGoes
  <2> QED BY <2>1, <2>5, ModifyPartsNext
<1>4. ASSUME NEW t \in Types, ModifyVolumeProperties(t) PROVE ModifyIInv'
  <2>1. ServerTyped'
    <3>1. vol' = vol /\ inFlight' = TRUE /\ Event
      BY <1>4 DEF ModifyVolumeProperties, Insert
    <3> QED BY <1>1, <3>1, ServerKeeps DEF ServerTyped, VolumeRecord
  <2> DEFINE c == [call["properties"] EXCEPT !.pc = "get", !.ask = t]
  <2>2. c \in CallRecord /\ c.pc = "get" /\ c.ask = t
    BY <1>2 DEF CallRecord, PCs
  <2>3. claim' = claim /\ call' = Observed([call EXCEPT !["properties"] = c])
    BY <1>4 DEF ModifyVolumeProperties
  <2> HIDE DEF c
  <2>4. Carried("properties", c, claim)
    BY <2>2 DEF Carried, Places, Carries
  <2>5. CallsFit'
    BY <1>1, <1>2, <2>2, <2>3, <2>4, CallSteps
  <2> QED BY <2>1, <2>5, ModifyPartsNext
<1>5. ASSUME NEW t \in Types \cup {NoType}, ExecuteModify(t) PROVE ModifyIInv'
  <2>1. ServerTyped'
    <3>1. vol' = vol /\ inFlight' = inFlight /\ Event
      BY <1>5 DEF ExecuteModify
    <3> QED BY <1>1, <3>1, ServerKeeps DEF ServerTyped, VolumeRecord
  <2> DEFINE c == [call["modify"] EXCEPT !.pc = "read", !.ask = t, !.type = t]
  <2>2. c \in CallRecord /\ c.pc = "read" /\ c.ask = t /\ c.type = t
    BY <1>2 DEF CallRecord, PCs
  <2>3. claim' = claim /\ call' = Observed([call EXCEPT !["modify"] = c])
    BY <1>5 DEF ExecuteModify
  <2> HIDE DEF c
  <2>4. Carried("modify", c, claim)
    BY <2>2 DEF Carried, Places, Carries
  <2>5. CallsFit'
    BY <1>1, <1>2, <2>2, <2>3, <2>4, CallSteps
  <2> QED BY <2>1, <2>5, ModifyPartsNext
<1> QED BY <1>3, <1>4, <1>5

\* A call that has what its command carries goes on with it, or fails.
LEMMA CarriedOn ==
  ASSUME ModifyIInv, NEW k \in Kinds, NEW to \in Carries \cup {"err"}, to \in Places(k),
         call[k].pc \in Carries, Goto(k, to),
         vol' \in VolumeRecord, UNCHANGED <<inFlight, claim>>, events' = events \/ Event
  PROVE  ModifyIInv'
<1>1. ServerTyped /\ CallsFit
  BY ModifyParts
<1>2. ServerTyped'
  BY <1>1, ServerKeeps DEF ServerTyped
<1>3. call[k] \in CallRecord /\ Carried(k, call[k], claim)
  BY <1>1 DEF CallsFit
<1>4. Carried(k, [call[k] EXCEPT !.pc = to], claim)
  BY <1>3 DEF CallRecord, Carried, Carries, Places
<1>5. to \in PCs /\ to # "ok"
  BY DEF PCs, Carries
<1>6. CallsFit'
  BY <1>1, <1>4, <1>5, CallGoes
<1> QED BY <1>2, <1>6, ModifyPartsNext

\* What vServer makes of a command is a volume.
LEMMA RepliesTyped ==
  ASSUME NEW v \in VolumeRecord, NEW t \in Types, NEW size \in Sizes
  PROVE  /\ ResizeBlockVolumeById(v, t, size)[1] \in VolumeRecord
         /\ MigrateBlockVolumeById(v, t)[1] \in VolumeRecord
<1>1. "MODIFYING" \in Statuses /\ "MIGRATING" \in Statuses
  BY DEF Statuses
<1> QED BY <1>1 DEF VolumeRecord, ResizeBlockVolumeById, MigrateBlockVolumeById

\* The commands: each is sent with what the call carries, whatever became of
\* the volume since it was read.
LEMMA CommandsKeep ==
  ASSUME ModifyIInv, NEW k \in Kinds,
         \/ k = "properties" /\ ModifyVolumeType
         \/ migrateVolumeToType(k)
         \/ ResizeCommand(k)
  PROVE  ModifyIInv'
<1>1. ServerTyped /\ CallsFit /\ vol \in VolumeRecord
  BY ModifyParts DEF ServerTyped, VolumeRecord
<1>2. call[k] \in CallRecord /\ Carried(k, call[k], claim)
  BY <1>1 DEF CallsFit
<1>3. CASE k = "properties" /\ ModifyVolumeType
  <2>1. call[k].pc = "set" /\ call[k].type \in Types /\ call[k].size \in Sizes
    BY <1>2, <1>3 DEF ModifyVolumeType, Command, Carried, Carries
  <2>2. \E to \in {"waitMigrated", "err"} : Goto(k, to)
    BY <1>3 DEF ModifyVolumeType, Command, AfterSet
  <2>3. /\ vol' \in {vol, ResizeBlockVolumeById(vol, call[k].type, call[k].size)[1]}
        /\ UNCHANGED <<inFlight, claim>> /\ (events' = events \/ Event)
    BY <1>3 DEF ModifyVolumeType, Command
  <2>4. vol' \in VolumeRecord
    BY <1>1, <2>1, <2>3, RepliesTyped
  <2>5. {"waitMigrated", "err"} \subseteq Places(k) \cap (Carries \cup {"err"}) /\ "set" \in Carries
    BY <1>3 DEF Places, Carries
  <2> QED BY <2>1, <2>2, <2>3, <2>4, <2>5, CarriedOn
<1>4. CASE migrateVolumeToType(k)
  <2>1. call[k].pc = "migrate" /\ call[k].type \in Types /\ call[k].size \in Sizes
    BY <1>2, <1>4 DEF migrateVolumeToType, Command, Carried, Carries
  <2>2. \E to \in {"waitMigrated", "err"} : Goto(k, to)
    BY <1>4 DEF migrateVolumeToType, Command, AfterMigrate
  <2>3. /\ vol' \in {vol, MigrateBlockVolumeById(vol, call[k].type)[1]}
        /\ UNCHANGED <<inFlight, claim>> /\ (events' = events \/ Event)
    BY <1>4 DEF migrateVolumeToType, Command
  <2>4. vol' \in VolumeRecord
    BY <1>1, <2>1, <2>3, RepliesTyped
  <2>5. {"waitMigrated", "err"} \subseteq Places(k) \cap (Carries \cup {"err"}) /\ "migrate" \in Carries
    BY DEF Places, Carries
  <2> QED BY <2>1, <2>2, <2>3, <2>4, <2>5, CarriedOn
<1>5. CASE ResizeCommand(k)
  <2>1. call[k].pc = "resize" /\ call[k].type \in Types /\ call[k].size \in Sizes
    BY <1>2, <1>5 DEF ResizeCommand, Command, Carried, Carries
  <2>2. \E to \in {"settle", "err"} : Goto(k, to)
    BY <1>5 DEF ResizeCommand, Command, AfterResize
  <2>3. /\ vol' \in {vol, ResizeBlockVolumeById(vol, call[k].type, call[k].size)[1]}
        /\ UNCHANGED <<inFlight, claim>> /\ (events' = events \/ Event)
    BY <1>5 DEF ResizeCommand, Command
  <2>4. vol' \in VolumeRecord
    BY <1>1, <2>1, <2>3, RepliesTyped
  <2>5. {"settle", "err"} \subseteq Places(k) \cap (Carries \cup {"err"}) /\ "resize" \in Carries
    BY <1>2, <2>1 DEF Carried, Places, Carries, Kinds
  <2> QED BY <2>1, <2>2, <2>3, <2>4, <2>5, CarriedOn
<1> QED BY <1>3, <1>4, <1>5

\* ExpandGet and PropertiesGet: the volume is as asked, or the call takes from
\* it what its command will carry.
LEMMA GetsKeep ==
  ASSUME ModifyIInv, NEW k \in Kinds,
         \/ k = "expand" /\ ExpandGet
         \/ k = "properties" /\ PropertiesGet
  PROVE  ModifyIInv'
<1>1. ServerTyped /\ CallsFit /\ vol \in VolumeRecord
  BY ModifyParts DEF ServerTyped, VolumeRecord
<1>2. call[k] \in CallRecord /\ Carried(k, call[k], claim) /\ claim \in 0..(2 * MaxSize)
  BY <1>1 DEF CallsFit
<1>3. call[k].pc = "get" /\ UNCHANGED <<vol, inFlight, claim, events>>
  BY DEF ExpandGet, PropertiesGet, Reads
<1>4. ServerTyped'
  BY <1>1, <1>3 DEF ServerTyped
<1>5. CASE Goto(k, "err")
  BY <1>1, <1>3, <1>4, <1>5, CallFails, ModifyPartsNext
<1>6. CASE Goto(k, "ok") /\ Wanted(k, call[k], vol)
  <2>1. Carried(k, [call[k] EXCEPT !.pc = "ok"], claim) /\ "ok" \in PCs
    BY <1>2, <1>3 DEF CallRecord, Carried, Places, Carries, PCs
  <2>2. CallsFit'
    BY <1>1, <1>3, <1>6, <2>1, CallGoes
  <2> QED BY <1>4, <2>2, ModifyPartsNext
<1>7. CASE k = "expand" /\ ExpandGet
  <2> DEFINE want == RoundUpSize(claim)
  <2>1. want \in 0..MaxSize /\ 2 * want >= claim
    BY <1>2, ModifyAssumption DEF RoundUpSize
  <2>2. vol.size \in Int /\ (vol.size >= want => 2 * vol.size >= claim)
    BY <1>1, <1>2, <2>1, ModifyAssumption DEF VolumeRecord, Sizes
  <2>3. CASE Exists(vol) /\ ~(vol.size >= want)
    <3> DEFINE c == [call[k] EXCEPT !.pc = "read", !.type = vol.type, !.size = want]
    <3>1. /\ c \in CallRecord /\ c.pc = "read" /\ c.size = want
      BY <1>1, <1>2, <2>1 DEF CallRecord, PCs, VolumeRecord
    <3>2. call' = Observed([call EXCEPT ![k] = c])
      BY <1>7, <2>3 DEF ExpandGet
    <3> HIDE DEF c, want
    <3>3. Carried(k, c, claim)
      BY <1>2, <1>3, <1>7, <2>1, <3>1 DEF Carried, Places, Carries
    <3>4. CallsFit'
      BY <1>1, <1>3, <3>1, <3>2, <3>3, CallSteps
    <3> QED BY <1>4, <3>4, ModifyPartsNext
  <2>4. CASE ~Exists(vol)
    BY <1>5, <1>7, <2>4 DEF ExpandGet
  <2>5. CASE Exists(vol) /\ vol.size >= want
    BY <1>6, <1>7, <2>2, <2>5 DEF ExpandGet, Wanted
  <2> QED BY <2>3, <2>4, <2>5
<1>8. CASE k = "properties" /\ PropertiesGet
  <2> DEFINE t == call[k].ask
  <2>1. t \in Types
    BY <1>2, <1>3, <1>8 DEF Carried
  <2>2. CASE Exists(vol) /\ vol.type # t
    <3> DEFINE c == [call[k] EXCEPT !.pc = "set", !.type = t, !.size = vol.size]
    <3>1. vol.size \in Sizes /\ vol.size \in 0..MaxSize
      BY <1>1, ModifyAssumption DEF VolumeRecord, Sizes
    <3>2. /\ c \in CallRecord /\ c.pc = "set" /\ c.type = t /\ c.ask = t /\ c.size = vol.size
      BY <1>2, <2>1, <3>1 DEF CallRecord, PCs
    <3>3. call' = Observed([call EXCEPT ![k] = c])
      BY <1>8, <2>2 DEF PropertiesGet
    <3> HIDE DEF c, t
    <3>4. Carried(k, c, claim)
      BY <1>8, <2>1, <3>1, <3>2 DEF Carried, Places, Carries
    <3>5. CallsFit'
      BY <1>1, <1>3, <3>2, <3>3, <3>4, CallSteps
    <3> QED BY <1>4, <3>5, ModifyPartsNext
  <2>3. CASE ~Exists(vol)
    BY <1>5, <1>8, <2>3 DEF PropertiesGet
  <2>4. CASE Exists(vol) /\ vol.type = t
    BY <1>6, <1>8, <2>4 DEF PropertiesGet, Wanted
  <2> QED BY <2>2, <2>3, <2>4
<1> QED BY <1>7, <1>8

\* The one read of ResizeOrModifyDisk, which completes what is carried.
LEMMA ReadDiskKeeps ==
  ASSUME ModifyIInv, NEW k \in Kinds, ReadDisk(k)
  PROVE  ModifyIInv'
<1>1. ServerTyped /\ CallsFit /\ vol \in VolumeRecord
  BY ModifyParts DEF ServerTyped, VolumeRecord
<1>2. call[k] \in CallRecord /\ Carried(k, call[k], claim) /\ claim \in 0..(2 * MaxSize)
  BY <1>1 DEF CallsFit
<1>3. call[k].pc = "read" /\ UNCHANGED <<vol, inFlight, claim, events>>
  BY DEF ReadDisk, Reads
<1>4. ServerTyped'
  BY <1>1, <1>3 DEF ServerTyped
<1> DEFINE t == DesiredType(call[k])
           size == DesiredSize(call[k])
<1>5. PICK next \in {"resize", "waitMigrated", "migrate", "settle", "err"} :
        call' = Observed([call EXCEPT ![k] = [@ EXCEPT !.pc = next, !.type = t, !.size = size]])
  BY DEF ReadDisk, validateModifyVolume
<1>6. t \in Types /\ call[k].type \in {NoType, t}
  BY <1>1, <1>2 DEF DesiredType, VolumeRecord, CallRecord
<1>7. size \in Sizes /\ size \in 0..MaxSize /\ size >= call[k].size
  BY <1>1, <1>2, ModifyAssumption DEF DesiredSize, VolumeRecord, CallRecord, Sizes
<1> HIDE DEF t, size
<1> DEFINE c == [call[k] EXCEPT !.pc = next, !.type = t, !.size = size]
<1>8. /\ c \in CallRecord /\ c.pc = next /\ c.type = t /\ c.size = size /\ c.ask = call[k].ask
  BY <1>2, <1>6, <1>7 DEF CallRecord, PCs
<1>9. call' = Observed([call EXCEPT ![k] = c])
  BY <1>5
<1> HIDE DEF c
<1>10. k # "properties"
  BY <1>2, <1>3 DEF Carried, Places
<1>11. k = "expand" => claim # 0 /\ 2 * size >= claim
  BY <1>2, <1>3, <1>7, ModifyAssumption DEF Carried, Carries, CallRecord, Sizes
<1>12. k # "expand" => call[k].ask \in {NoType, t}
  BY <1>2, <1>3, <1>6, ModifyAssumption DEF Carried, Carries
<1>13. Carried(k, c, claim)
  BY <1>6, <1>7, <1>8, <1>10, <1>11, <1>12 DEF Carried, Carries, Places, Kinds
<1>14. CallsFit'
  BY <1>1, <1>3, <1>8, <1>9, <1>13, CallSteps
<1> QED BY <1>4, <1>14, ModifyPartsNext

\* The waits: a call is answered OK only where the volume it has just read
\* is as it carries, which is what was asked for.
LEMMA WaitsKeep ==
  ASSUME ModifyIInv, NEW k \in Kinds, waitVolumeMigrated(k) \/ waitVolumeAchieveStatus(k)
  PROVE  ModifyIInv'
<1>1. ServerTyped /\ CallsFit /\ vol \in VolumeRecord
  BY ModifyParts DEF ServerTyped, VolumeRecord
<1>2. call[k] \in CallRecord /\ Carried(k, call[k], claim) /\ claim \in 0..(2 * MaxSize)
  BY <1>1 DEF CallsFit
<1>3. call[k].pc \in {"waitMigrated", "settle"} /\ UNCHANGED <<vol, inFlight, claim, events>>
  BY DEF waitVolumeMigrated, waitVolumeAchieveStatus, Reads
<1>4. ServerTyped'
  BY <1>1, <1>3 DEF ServerTyped
<1>5. CASE Goto(k, "err")
  BY <1>1, <1>3, <1>4, <1>5, CallFails, ModifyPartsNext
<1>6. CASE Goto(k, "resize") /\ call[k].pc = "waitMigrated" /\ k # "properties"
  <2>1. "resize" \in Carries \cap Places(k) /\ "waitMigrated" \in Carries
    BY <1>6 DEF Carries, Places, Kinds
  <2> QED BY <1>1, <1>3, <1>6, <2>1, CarriedOn DEF ServerTyped
<1>7. CASE Goto(k, "ok") /\ Wanted(k, call[k], vol)
  <2>1. Carried(k, [call[k] EXCEPT !.pc = "ok"], claim) /\ "ok" \in PCs
    BY <1>2, <1>3 DEF CallRecord, Carried, Places, Carries, PCs
  <2>2. CallsFit'
    BY <1>1, <1>3, <1>7, <2>1, CallGoes
  <2> QED BY <1>4, <2>2, ModifyPartsNext
<1>8. CASE waitVolumeMigrated(k)
  <2>1. call[k].pc = "waitMigrated"
    BY <1>8 DEF waitVolumeMigrated, Reads
  <2>2. k = "properties" /\ isMigratedToType(vol, call[k].type) => Wanted(k, call[k], vol)
    BY <2>1, <1>2 DEF Wanted, Exists, Carried, Carries, isMigratedToType
  <2> QED BY <1>5, <1>6, <1>7, <1>8, <2>1, <2>2 DEF waitVolumeMigrated
<1>9. CASE waitVolumeAchieveStatus(k)
  <2>1. call[k].pc = "settle"
    BY <1>9 DEF waitVolumeAchieveStatus, Reads
  <2>2. ASSUME vol.status = "SETTLED", checkDesiredState(call[k]) PROVE Wanted(k, call[k], vol)
    <3>1. CASE k = "expand"
      BY <1>1, <1>2, <2>1, <2>2, <3>1, ModifyAssumption
         DEF Wanted, Exists, Carried, Carries, checkDesiredState, VolumeRecord, CallRecord, Sizes
    <3>2. CASE k # "expand"
      BY <1>2, <2>1, <2>2, <3>2 DEF Wanted, Exists, Carried, Carries, checkDesiredState
    <3> QED BY <3>1, <3>2
  <2> QED BY <1>5, <1>7, <1>9, <2>2 DEF waitVolumeAchieveStatus
<1> QED BY <1>8, <1>9

\* csi-resizer, vServer and a restart.
LEMMA EnvironmentKeeps ==
  ASSUME ModifyIInv,
         \/ \E half \in 1..(2 * MaxSize) : Claim(half)
         \/ VolumeSettles \/ VolumeDisturbed \/ Restart
  PROVE  ModifyIInv'
<1>1. ServerTyped /\ CallsFit /\ vol \in VolumeRecord
  BY ModifyParts DEF ServerTyped, VolumeRecord
<1>2. ASSUME NEW half \in 1..(2 * MaxSize), Claim(half) PROVE ModifyIInv'
  <2>1. ServerTyped'
    BY <1>1, <1>2, ServerKeeps DEF Claim, ServerTyped
  <2>2. \A k \in Kinds : Carried(k, call[k], half)
    BY <1>1, <1>2 DEF Claim, CallsFit, Carried, Carries
  <2>3. claim' = half /\ call' = call /\ half \in 0..(2 * MaxSize)
    BY <1>2, ModifyAssumption DEF Claim
  <2>4. CallsFit'
    BY <1>1, <2>2, <2>3 DEF CallsFit
  <2> QED BY <2>1, <2>4, ModifyPartsNext
<1>3. ASSUME NEW v \in VolumeRecord, Becomes(v), events' = events \/ Event PROVE ModifyIInv'
  <2>1. ServerTyped'
    BY <1>1, <1>3, ServerKeeps DEF Becomes, ServerTyped
  <2>2. CallsFit'
    BY <1>1, <1>3, ObservedFits DEF Becomes, CallsFit
  <2> QED BY <2>1, <2>2, ModifyPartsNext
<1>4. ASSUME NEW s \in Statuses PROVE [vol EXCEPT !.status = s] \in VolumeRecord
  BY <1>1 DEF VolumeRecord
<1>5. CASE VolumeSettles
  <2>1. "SETTLED" \in Statuses
    BY DEF Statuses
  <2>2. [vol EXCEPT !.status = "SETTLED", !.size = vol.toSize, !.type = vol.toType] \in VolumeRecord
    BY <1>1, <2>1 DEF VolumeRecord
  <2> QED BY <1>3, <1>4, <1>5, <2>1, <2>2 DEF VolumeSettles
<1>6. CASE VolumeDisturbed
  <2>1. {"SETTLED", "ERROR", "GONE"} \subseteq Statuses
    BY DEF Statuses
  <2>2. [vol EXCEPT !.attached = ~@] \in VolumeRecord
    BY <1>1 DEF VolumeRecord
  <2> QED BY <1>3, <1>4, <1>6, <2>1, <2>2 DEF VolumeDisturbed
<1>7. CASE Restart
  <2>1. ServerTyped'
    BY <1>1, <1>7, ServerKeeps DEF Restart
  <2>2. claim' = claim /\ claim \in 0..(2 * MaxSize) /\ claim \in Nat /\ call' = [k \in Kinds |-> NoCall]
    BY <1>1, <1>7, ModifyAssumption DEF Restart, CallsFit
  <2>3. \A k \in Kinds : call'[k] = NoCall
    BY <2>2
  <2>4. NoCall.pc # "ok"
    BY DEF NoCall
  <2>5. CallsFit'
    BY <2>2, <2>3, <2>4, NoCallFits DEF CallsFit
  <2> QED BY <2>1, <2>5, ModifyPartsNext
<1> QED BY <1>2, <1>5, <1>6, <1>7

\* Every step keeps the invariant.
LEMMA ModifyNextKeeps == ModifyIInv /\ [Next]_vars => ModifyIInv'
<1> SUFFICES ASSUME ModifyIInv, [Next]_vars PROVE ModifyIInv'
  OBVIOUS
<1>1. CASE UNCHANGED vars
  <2>1. vol' = vol /\ inFlight' = inFlight /\ claim' = claim /\ call' = call /\ events' = events
    BY <1>1 DEF vars
  <2>2. ServerTyped' /\ CallsFit'
    BY <2>1, ModifyParts DEF ServerTyped, CallsFit
  <2> QED BY <2>2, ModifyPartsNext
<1>2. ASSUME NEW k \in Kinds, Run(k) PROVE ModifyIInv'
  BY <1>2, GetsKeep, CommandsKeep, ReadDiskKeeps, WaitsKeep, FailuresKeep, AnswerKeeps
     DEF Run, ResizeOrModifyDisk
<1>3. CASE Next
  BY <1>2, <1>3, CallsArrive, EnvironmentKeeps DEF Next
<1> QED BY <1>1, <1>3

\* ControllerExpandVolume is answered OK only if the volume had the size asked
\* for at some time during the call, ModifyVolumeProperties and the coalesced
\* modify only if it had the type, whatever ran beside them.
THEOREM ModifyCorrect == Spec => []ModifyInv
<1>1. ModifyIInv => ModifyInv
  BY DEF ModifyIInv
<1> QED BY ModifyInitHolds, ModifyNextKeeps, <1>1, PTL DEF Spec

=============================================================================
