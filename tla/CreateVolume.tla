---------------------------- MODULE CreateVolume ----------------------------
(***************************************************************************)
(* controllerService.CreateVolume and cloud.EitherCreateResizeVolume: the  *)
(* in-flight name, the gate that caps concurrent creates, the two lookups  *)
(* by name and the create.                                                 *)
(*                                                                         *)
(* vServer lets volumes share a name, so that only the driver keeps a      *)
(* retried create from making a second volume.  A request that fails, as   *)
(* far as the driver can tell, was refused, was carried out with its       *)
(* answer lost, or is carried out later still.                             *)
(***************************************************************************)
EXTENDS Integers, FiniteSets

CONSTANTS
  Calls, Names,
  MaxCreates,  \* maxConcurrentVolumeCreates
  MaxCopies,   \* bound: the volumes of one name are counted up to here
  MaxFaults    \* bound: the requests that fail

ASSUME CreateAssumption ==
  /\ IsFiniteSet(Calls) /\ Names # {}
  /\ MaxCreates \in Nat \ {0} /\ MaxCopies \in Nat /\ MaxFaults \in Nat

VARIABLES
  inFlight,
  slots,    \* Semaphore.slots: how many are taken
  waiting,  \* the CreateGateWaiting gauge
  pc,
  name,     \* the volume each call asks for
  copies,   \* vServer: how many volumes have each name
  pending,  \* vServer: the creates it still works on, unbeknownst
  late,     \* history: the names for which such a create was carried out
  faults

vars == <<inFlight, slots, waiting, pc, name, copies, pending, late, faults>>
gate == <<inFlight, slots, waiting>>
iaas == <<copies, pending, late>>

Holding == {"lookup", "find", "create", "release"}

PCs == Holding \cup {"idle", "gate", "unlock"}

TypeOK ==
  /\ inFlight \subseteq Names
  /\ slots \in 0..MaxCreates
  /\ waiting \in 0..Cardinality(Calls)
  /\ pc \in [Calls -> PCs]
  /\ name \in [Calls -> Names]
  /\ copies \in [Names -> 0..MaxCopies]
  /\ pending \in [Names -> 0..MaxFaults]
  /\ late \subseteq Names
  /\ faults \in 0..MaxFaults

NoName == CHOOSE n \in Names : TRUE

Init ==
  /\ inFlight = {} /\ slots = 0 /\ waiting = 0
  /\ pc = [c \in Calls |-> "idle"]
  /\ name = [c \in Calls |-> NoName]
  /\ copies = [n \in Names |-> 0]
  /\ pending = [n \in Names |-> 0]
  /\ late = {}
  /\ faults = 0

Goto(c, from, to) == pc[c] = from /\ pc' = [pc EXCEPT ![c] = to]

Fault == faults < MaxFaults /\ faults' = faults + 1

-----------------------------------------------------------------------------
(* The handler up to the gate.  What fails before Insert (validation, the  *)
(* zones, the size) and a name in flight return with nothing changed.      *)

\* Mutant: the name is entered whether or not it is in flight.
EnterUnchecked(c, n) ==
  /\ Goto(c, "idle", "gate")
  /\ inFlight' = inFlight \cup {n}
  /\ waiting' = waiting + 1
  /\ name' = [name EXCEPT ![c] = n]
  /\ UNCHANGED <<slots, iaas, faults>>

Enter(c, n) ==
  /\ Goto(c, "idle", "gate")
  /\ n \notin inFlight
  /\ inFlight' = inFlight \cup {n}
  /\ waiting' = waiting + 1
  /\ name' = [name EXCEPT ![c] = n]
  /\ UNCHANGED <<slots, iaas, faults>>

Acquire(c) ==
  /\ Goto(c, "gate", "lookup")
  /\ slots < MaxCreates
  /\ slots' = slots + 1
  /\ waiting' = waiting - 1
  /\ UNCHANGED <<inFlight, name, iaas, faults>>

\* Mutant: the early return comes before the gauge is lowered.
ContextEndsKeepsGauge(c) ==
  /\ Goto(c, "gate", "unlock")
  /\ UNCHANGED <<inFlight, slots, waiting, name, iaas, faults>>

\* pctx ends at the gate: the sidecar's timeout.
ContextEnds(c) ==
  /\ Goto(c, "gate", "unlock")
  /\ waiting' = waiting - 1
  /\ UNCHANGED <<inFlight, slots, name, iaas, faults>>

-----------------------------------------------------------------------------
(* With a slot. *)

\* The handler's own lookup, for which the volume and its absence are both
\* welcome; then the parameters, the content source and the PVC.  Each has its
\* early return.
PrepareRequest(c) ==
  /\ \/ Goto(c, "lookup", "find") /\ UNCHANGED faults
     \/ Goto(c, "lookup", "release") /\ Fault
  /\ UNCHANGED <<gate, name, iaas>>

\* getVolumeByName: any count but one is "not found".  The one volume found is
\* returned as it is, or after a request to resize it, which has the id and the
\* type in the opposite order of the two other callers; neither creates one.
FindNext(c) == IF copies[name[c]] # 1 THEN "create" ELSE "release"

EitherCreateResizeVolume(c) ==
  /\ \/ Goto(c, "find", FindNext(c)) /\ UNCHANGED faults
     \/ Goto(c, "find", "release") /\ Fault
  /\ UNCHANGED <<gate, name, iaas>>

CreateOne(n) == copies' = [copies EXCEPT ![n] = IF @ < MaxCopies THEN @ + 1 ELSE @]

Created(c) == CreateOne(name[c]) /\ UNCHANGED <<pending, late>>

CreateBlockVolume(c) ==
  /\ Goto(c, "create", "release")
  /\ \/ Created(c) /\ (UNCHANGED faults \/ Fault)
     \/ Fault /\ UNCHANGED iaas
     \/ /\ Fault /\ pending' = [pending EXCEPT ![name[c]] = @ + 1]
        /\ UNCHANGED <<copies, late>>
  /\ UNCHANGED <<gate, name>>

\* defer s.createGate.Release()
Release(c) ==
  /\ Goto(c, "release", "unlock")
  /\ slots' = slots - 1
  /\ UNCHANGED <<inFlight, waiting, name, iaas, faults>>

\* defer s.inFlight.Delete(volName)
Unlock(c) ==
  /\ Goto(c, "unlock", "idle")
  /\ inFlight' = inFlight \ {name[c]}
  /\ name' = [name EXCEPT ![c] = NoName]
  /\ UNCHANGED <<slots, waiting, iaas, faults>>

\* vServer carries out a create whose answer the driver gave up on.
LateCreate(n) ==
  /\ pending[n] > 0
  /\ pending' = [pending EXCEPT ![n] = @ - 1]
  /\ late' = late \cup {n}
  /\ CreateOne(n)
  /\ UNCHANGED <<gate, pc, name, faults>>

Proceed(c) ==
  \/ PrepareRequest(c) \/ EitherCreateResizeVolume(c)
  \/ CreateBlockVolume(c) \/ Release(c) \/ Unlock(c)

Next ==
  \/ \E c \in Calls :
       \/ \E n \in Names : Enter(c, n)
       \/ Acquire(c) \/ ContextEnds(c) \/ Proceed(c)
  \/ \E n \in Names : LateCreate(n)

Spec == Init /\ [][Next]_vars

-----------------------------------------------------------------------------
(* Properties. *)

\* The gauge counts the calls at the gate and the slots those past it, on the
\* paths that end early too: a gauge that drifts or a slot that leaks is never
\* put right again.
GateAccounting ==
  /\ waiting = Cardinality({c \in Calls : pc[c] = "gate"})
  /\ slots = Cardinality({c \in Calls : pc[c] \in Holding})

\* GateAccounting, and no more than MaxCreates calls past the gate.
GateInv == TypeOK /\ GateAccounting

\* A retry never makes a second volume of a name, whatever failed and whichever
\* answers were lost, unless vServer carries out a create after the driver has
\* given it up.
NoDuplicateVolumes == \A n \in Names : copies[n] > 1 => n \in late
=============================================================================
