-------------------------- MODULE ModifyCoalescing --------------------------
(***************************************************************************)
(* modifyVolumeWithCoalescing and processModifyVolumeRequests              *)
(* (pkg/driver/controller_modify_volume.go) for one volume: callers of     *)
(* ControllerModifyVolume meet the goroutine that collects their requests  *)
(* for a while, merges them and executes the merged request once.          *)
(*                                                                         *)
(* The channels are unbuffered, so a send and its receive are one step of  *)
(* two goroutines.  The worker a request started is named after it.  Only  *)
(* the volume type is merged: this path never sets newSize.                *)
(***************************************************************************)
EXTENDS Naturals

CONSTANTS
  MaxRequests,   \* bound: the calls of ControllerModifyVolume
  VolumeTypes,   \* volume types
  NoVolumeType   \* the empty VolumeType

ASSUME MergeAssumption == MaxRequests \in Nat /\ NoVolumeType \notin VolumeTypes

\* Requests are numbered in the order in which they reach the map.
Requests == 1..MaxRequests

None == 0

VARIABLES
  current,    \* requestHandlerMap: the volume's worker, or None
  pc,         \* where each caller is
  type,       \* modifyDiskOptions.VolumeType of each request
  target,     \* the worker whose requestChan the caller sends to
  wpc,        \* where each worker is
  merged,     \* h.mergedRequest
  chans,      \* responseChans
  rejecting   \* the request whose responseChan the worker is blocked on

callers   == <<pc, type, target>>
workers   == <<wpc, merged, chans, rejecting>>
mergeVars == <<current, pc, type, target, wpc, merged, chans, rejecting>>

\* loaded: between LoadOrStore and the send.  added: addModifyVolumeRequest
\* is about to return.  waiting: at the select on the response.
CallerPCs == {"idle", "loaded", "sending", "added", "waiting", "returned"}

WorkerPCs == {"none", "collect", "drain", "execute", "reply", "ended"}

MergeTypeOK ==
  /\ current \in Requests \cup {None}
  /\ pc \in [Requests -> CallerPCs]
  /\ type \in [Requests -> VolumeTypes \cup {NoVolumeType}]
  /\ target \in [Requests -> Requests \cup {None}]
  /\ wpc \in [Requests -> WorkerPCs]
  /\ merged \in [Requests -> VolumeTypes \cup {NoVolumeType}]
  /\ chans \in [Requests -> SUBSET Requests]
  /\ rejecting \in [Requests -> Requests \cup {None}]
  /\ \A w \in Requests : rejecting[w] # None => wpc[w] \in {"collect", "drain"}

MergeInit ==
  /\ current = None
  /\ pc = [r \in Requests |-> "idle"]
  /\ type = [r \in Requests |-> NoVolumeType]
  /\ target = [r \in Requests |-> None]
  /\ wpc = [w \in Requests |-> "none"]
  /\ merged = [w \in Requests |-> NoVolumeType]
  /\ chans = [w \in Requests |-> {}]
  /\ rejecting = [w \in Requests |-> None]

-----------------------------------------------------------------------------
(* The callers. *)

\* addModifyVolumeRequest: LoadOrStore is atomic.
addModifyVolumeRequest(r, t) ==
  /\ pc[r] = "idle" /\ \A q \in 1..(r - 1) : pc[q] # "idle"
  /\ type' = [type EXCEPT ![r] = t]
  /\ IF current = None
     THEN /\ current' = r
          /\ pc' = [pc EXCEPT ![r] = "added"]
          /\ wpc' = [wpc EXCEPT ![r] = "collect"]
          /\ merged' = [merged EXCEPT ![r] = t]
          /\ chans' = [chans EXCEPT ![r] = {r}]
          /\ UNCHANGED target
     ELSE /\ pc' = [pc EXCEPT ![r] = "loaded"]
          /\ target' = [target EXCEPT ![r] = current]
          /\ UNCHANGED <<current, wpc, merged, chans>>
  /\ UNCHANGED rejecting

\* The caller arrives at the send, which has no ctx.
Send(r) ==
  /\ pc[r] = "loaded"
  /\ pc' = [pc EXCEPT ![r] = "sending"]
  /\ UNCHANGED <<current, type, target, workers>>

\* The caller arrives at the select.
Await(r) ==
  /\ pc[r] = "added"
  /\ pc' = [pc EXCEPT ![r] = "waiting"]
  /\ UNCHANGED <<current, type, target, workers>>

\* The caller took a response, or gave up, and returned.
Returns(r) ==
  /\ pc' = [pc EXCEPT ![r] = "returned"]
  /\ type' = [type EXCEPT ![r] = NoVolumeType]
  /\ target' = [target EXCEPT ![r] = None]

\* ctx.Done wins the select.
Cancel(r) ==
  /\ pc[r] = "waiting"
  /\ Returns(r)
  /\ UNCHANGED <<current, workers>>

-----------------------------------------------------------------------------
(* The worker. *)

\* Mutant: every request is compatible with the merged one.
validateNothing(w, r) == TRUE

validateModifyVolumeRequest(w, r) ==
  type[r] = NoVolumeType \/ merged[w] = NoVolumeType \/ type[r] = merged[w]

mergeModifyVolumeRequest(w, r) ==
  merged' = [merged EXCEPT ![w] = IF type[r] = NoVolumeType THEN @ ELSE type[r]]

\* process: merge the request, or block until its caller takes the error.
process(w, r) ==
  IF validateModifyVolumeRequest(w, r)
  THEN /\ mergeModifyVolumeRequest(w, r)
       /\ chans' = [chans EXCEPT ![w] = @ \cup {r}]
       /\ UNCHANGED rejecting
  ELSE /\ rejecting' = [rejecting EXCEPT ![w] = r]
       /\ UNCHANGED <<merged, chans>>

Receive(w, r) ==
  /\ wpc[w] \in {"collect", "drain"} /\ rejecting[w] = None
  /\ pc[r] = "sending" /\ target[r] = w
  /\ pc' = [pc EXCEPT ![r] = "added"]
  /\ process(w, r)
  /\ UNCHANGED <<current, type, target, wpc>>

Reject(w) ==
  /\ rejecting[w] # None
  /\ pc[rejecting[w]] = "waiting"
  /\ Returns(rejecting[w])
  /\ rejecting' = [rejecting EXCEPT ![w] = None]
  /\ UNCHANGED <<current, wpc, merged, chans>>

\* No request for the timeout: the handler leaves the map.
IdleTimeout(w) ==
  /\ wpc[w] = "collect" /\ rejecting[w] = None
  /\ wpc' = [wpc EXCEPT ![w] = "drain"]
  /\ current' = None
  /\ UNCHANGED <<callers, merged, chans, rejecting>>

\* The default of the draining select: nobody is at the send.
Drained(w) ==
  /\ wpc[w] = "drain" /\ rejecting[w] = None
  /\ ~\E r \in Requests : pc[r] = "sending" /\ target[r] = w
  /\ wpc' = [wpc EXCEPT ![w] = "execute"]
  /\ UNCHANGED <<current, callers, merged, chans, rejecting>>

\* cloud.ResizeOrModifyDisk with the merged request, bounded by its own ten
\* minutes.  Its result, whichever, is the answer to every caller accepted.
executeModifyVolumeRequest(w) ==
  /\ wpc[w] = "execute"
  /\ wpc' = [wpc EXCEPT ![w] = "reply"]
  /\ UNCHANGED <<current, callers, merged, chans, rejecting>>

\* Mutant: the answers are sent as the errors are, with no default.
RespondBlocking(w) ==
  /\ wpc[w] = "reply"
  /\ \E r \in chans[w] :
       /\ pc[r] = "waiting" /\ Returns(r)
       /\ chans' = [chans EXCEPT ![w] = @ \ {r}]
  /\ UNCHANGED <<current, wpc, merged, rejecting>>

\* A caller that is not at its select gets nothing.
Respond(w) ==
  /\ wpc[w] = "reply"
  /\ \E r \in chans[w] :
       /\ IF pc[r] = "waiting" THEN Returns(r) ELSE UNCHANGED callers
       /\ chans' = [chans EXCEPT ![w] = @ \ {r}]
  /\ UNCHANGED <<current, wpc, merged, rejecting>>

Finish(w) ==
  /\ wpc[w] = "reply" /\ chans[w] = {}
  /\ wpc' = [wpc EXCEPT ![w] = "ended"]
  /\ merged' = [merged EXCEPT ![w] = NoVolumeType]
  /\ UNCHANGED <<current, callers, chans, rejecting>>

Caller(r) == Send(r) \/ Await(r) \/ Cancel(r)

Worker(w) ==
  \/ (\E r \in Requests : Receive(w, r)) \/ Reject(w) \/ IdleTimeout(w) \/ Drained(w)
  \/ executeModifyVolumeRequest(w) \/ Respond(w) \/ Finish(w)

MergeNext ==
  \/ \E r \in Requests, t \in VolumeTypes \cup {NoVolumeType} : addModifyVolumeRequest(r, t)
  \/ \E r \in Requests : Caller(r)
  \/ \E w \in Requests : Worker(w)

\* Goroutines run; the timeout fires, the execution ends with its ctx and a
\* caller that waits ends with its gRPC deadline.
MergeSpec ==
  /\ MergeInit /\ [][MergeNext]_mergeVars
  /\ \A r \in Requests : WF_mergeVars(Caller(r))
  /\ \A w \in Requests : WF_mergeVars(Worker(w))

-----------------------------------------------------------------------------
(* Properties. *)

\* Every caller a worker has accepted, and will answer with the result of
\* the one execution, asked for the type that is executed or for none: no
\* caller is told of the success of somebody else's modification.
AcceptedAgree ==
  \A w \in Requests : \A r \in chans[w] :
    type[r] = NoVolumeType \/ type[r] = merged[w]

\* AcceptedAgree, of variables that keep their types: a worker that executes
\* has no rejected caller left.
MergeInv == MergeTypeOK /\ AcceptedAgree

\* A worker ends, and with it the volume's handler leaves the map, unless it
\* is blocked on a rejected caller whose context ended first.
WorkerEndsUnlessAbandoned ==
  \A w \in Requests :
    wpc[w] = "collect" ~>
      \/ wpc[w] = "ended"
      \/ rejecting[w] # None /\ pc[rejecting[w]] = "returned"

\* "At this point, no new requests can come in on the request channel because
\* it has been removed from the map" (controller_modify_volume.go): once the
\* worker has drained the channel, nobody sends on it.
NoRequestAfterRemoval ==
  \A r \in Requests : pc[r] = "sending" =>
    wpc[target[r]] \notin {"execute", "reply", "ended"}
=============================================================================
