------------------------- MODULE CreateVolumeProofs -------------------------
(***************************************************************************)
(* Theorems about CreateVolume, for every number of concurrent calls, of   *)
(* names, of slots and of failing requests.                                *)
(*                                                                         *)
(* The gate's counters are the cardinalities of the sets they stand for,   *)
(* since every step moves one call from one set to another.  No retry      *)
(* makes a second volume because a name belongs to one call from Insert to *)
(* Delete: what the lookup of that call found is still true when it        *)
(* creates, unless vServer acts late.                                      *)
(***************************************************************************)
EXTENDS CreateVolume, FiniteSetTheorems, TLAPS

\* The parts of TypeOK: the gate, the calls, vServer and the faults.
GateTyped ==
  inFlight \subseteq Names /\ slots \in 0..MaxCreates /\ waiting \in 0..Cardinality(Calls)

CallsTyped == pc \in [Calls -> PCs] /\ name \in [Calls -> Names]

IaasTyped ==
  /\ copies \in [Names -> 0..MaxCopies]
  /\ pending \in [Names -> 0..MaxFaults]
  /\ late \subseteq Names

FaultsTyped == faults \in 0..MaxFaults

\* A create that vServer still works on was the fault of some request.
PendingFailed == \A n \in Names : pending[n] <= faults

\* A call has its name to itself until it deletes it from the in-flight set.
NameIsHeld ==
  \A c \in Calls : pc[c] # "idle" =>
    /\ name[c] \in inFlight
    /\ \A d \in Calls : pc[d] # "idle" /\ name[d] = name[c] => d = c

\* A call about to create still has no volume of its name to find.
NoneFound ==
  \A c \in Calls : pc[c] = "create" => copies[name[c]] = 0 \/ name[c] \in late

IInv ==
  /\ TypeOK /\ PendingFailed /\ GateAccounting
  /\ NameIsHeld /\ NoneFound /\ NoDuplicateVolumes

\* The parts make the whole.
LEMMA TypeParts ==
  /\ TypeOK <=> GateTyped /\ CallsTyped /\ IaasTyped /\ FaultsTyped
  /\ TypeOK' <=> GateTyped' /\ CallsTyped' /\ IaasTyped' /\ FaultsTyped'
BY Zenon DEF TypeOK, GateTyped, CallsTyped, IaasTyped, FaultsTyped

\* The calls that are at one of the places W.
At(p, W) == {c \in Calls : p[c] \in W}

\* What one call's move does to the number of the calls at W.
LEMMA OneMoves ==
  ASSUME NEW p \in [Calls -> PCs], NEW c \in Calls, NEW to, NEW W
  PROVE  LET q == [p EXCEPT ![c] = to]
             before == Cardinality(At(p, W))
             after  == Cardinality(At(q, W))
         IN  /\ before \in 0..Cardinality(Calls) /\ after \in 0..Cardinality(Calls)
             /\ after = before + (IF to \in W THEN 1 ELSE 0) - (IF p[c] \in W THEN 1 ELSE 0)
<1> DEFINE q == [p EXCEPT ![c] = to]
<1>1. ASSUME NEW f PROVE IsFiniteSet(At(f, W)) /\ Cardinality(At(f, W)) \in 0..Cardinality(Calls)
  <2>1. At(f, W) \subseteq Calls
    BY DEF At
  <2> QED
    BY <2>1, FS_Subset, FS_CardinalityType, CreateAssumption
<1>2. CASE p[c] \in W /\ to \in W
  <2>1. At(q, W) = At(p, W)
    BY <1>2 DEF At
  <2> QED
    BY <1>1, <1>2, <2>1
<1>3. CASE p[c] \notin W /\ to \notin W
  <2>1. At(q, W) = At(p, W)
    BY <1>3 DEF At
  <2> QED
    BY <1>1, <1>3, <2>1
<1>4. CASE p[c] \notin W /\ to \in W
  <2>1. At(q, W) = At(p, W) \cup {c} /\ c \notin At(p, W)
    BY <1>4 DEF At
  <2>2. Cardinality(At(q, W)) = Cardinality(At(p, W)) + 1
    BY <1>1, <2>1, FS_AddElement
  <2> QED
    BY <1>1, <1>4, <2>2
<1>5. CASE p[c] \in W /\ to \notin W
  <2>1. At(q, W) = At(p, W) \ {c} /\ c \in At(p, W)
    BY <1>5 DEF At
  <2>2. Cardinality(At(q, W)) = Cardinality(At(p, W)) - 1
    BY <1>1, <2>1, FS_RemoveElement
  <2> QED
    BY <1>1, <1>5, <2>2
<1> QED
  BY <1>2, <1>3, <1>4, <1>5

\* The counters of the gate, as counts of the calls at a place.
LEMMA Counts ==
  /\ GateAccounting <=> /\ waiting = Cardinality(At(pc, {"gate"}))
                        /\ slots = Cardinality(At(pc, Holding))
  /\ GateAccounting' <=> /\ waiting' = Cardinality(At(pc', {"gate"}))
                         /\ slots' = Cardinality(At(pc', Holding))
BY DEF GateAccounting, At

\* The initial states satisfy the invariant.
LEMMA InitHolds == Init => IInv
<1> SUFFICES ASSUME Init PROVE IInv
  OBVIOUS
<1> USE CreateAssumption DEF Init
<1>1. NoName \in Names
  BY DEF NoName
<1>2. Cardinality(Calls) \in Nat
  BY FS_CardinalityType
<1>3. TypeOK
  BY <1>1, <1>2 DEF TypeOK, PCs, Holding
<1>4. GateAccounting
  <2>1. At(pc, {"gate"}) = {} /\ At(pc, Holding) = {}
    BY DEF At, Holding
  <2> QED
    BY <2>1, Counts, FS_EmptySet
<1>5. PendingFailed /\ NameIsHeld /\ NoneFound /\ NoDuplicateVolumes
  BY DEF PendingFailed, NameIsHeld, NoneFound, NoDuplicateVolumes
<1> QED
  BY <1>3, <1>4, <1>5 DEF IInv

\* A request that fails is counted, up to its bound.
LEMMA FaultTyped ==
  ASSUME FaultsTyped, Fault \/ UNCHANGED faults
  PROVE  FaultsTyped' /\ faults <= faults' /\ (Fault => faults' = faults + 1)
BY CreateAssumption DEF FaultsTyped, Fault

\* One more volume of a name, as far as they are counted.
LEMMA CreateOneTyped ==
  ASSUME IaasTyped, NEW n \in Names, CreateOne(n)
  PROVE  /\ copies' \in [Names -> 0..MaxCopies]
         /\ copies'[n] <= copies[n] + 1
         /\ \A m \in Names : m # n => copies'[m] = copies[m]
BY CreateAssumption DEF IaasTyped, CreateOne

\* A call's move from one place to another and the two counters.
LEMMA GotoCounts ==
  ASSUME TypeOK, GateAccounting, NEW c \in Calls, NEW from \in PCs, NEW to \in PCs,
         Goto(c, from, to),
         waiting' = waiting + (IF to = "gate" THEN 1 ELSE 0) - (IF from = "gate" THEN 1 ELSE 0),
         slots' = slots + (IF to \in Holding THEN 1 ELSE 0) - (IF from \in Holding THEN 1 ELSE 0),
         slots' <= MaxCreates, inFlight' \subseteq Names
  PROVE  GateAccounting' /\ GateTyped'
<1>1. pc[c] = from /\ pc' = [pc EXCEPT ![c] = to] /\ pc \in [Calls -> PCs]
  BY DEF Goto, TypeOK
<1>2. /\ waiting' = Cardinality(At(pc', {"gate"}))
      /\ Cardinality(At(pc', {"gate"})) \in 0..Cardinality(Calls)
  <2>1. (to = "gate") <=> (to \in {"gate"})
    OBVIOUS
  <2>2. (from = "gate") <=> (from \in {"gate"})
    OBVIOUS
  <2>3. waiting = Cardinality(At(pc, {"gate"}))
    BY Counts
  <2> QED
    BY <1>1, <2>1, <2>2, <2>3, OneMoves
<1>3. /\ slots' = Cardinality(At(pc', Holding))
      /\ Cardinality(At(pc', Holding)) \in 0..Cardinality(Calls)
  <2>1. slots = Cardinality(At(pc, Holding))
    BY Counts
  <2> QED
    BY <1>1, <2>1, OneMoves
<1>4. Cardinality(Calls) \in Nat
  BY FS_CardinalityType, CreateAssumption
<1>5. GateTyped'
  BY <1>2, <1>3, <1>4, CreateAssumption DEF GateTyped
<1> QED
  BY <1>2, <1>3, <1>5, Counts

\* The counters stand for the calls at the gate and past it after every step
\* of CreateVolume, on the paths that end early too.
LEMMA GateStep ==
  ASSUME TypeOK, GateAccounting, [Next]_vars
  PROVE  GateAccounting' /\ GateTyped'
<1> USE CreateAssumption DEF PCs, Holding
<1>0. slots \in 0..MaxCreates /\ waiting \in Int /\ inFlight \subseteq Names
  <2>1. Cardinality(Calls) \in Nat
    BY FS_CardinalityType
  <2> QED
    BY <2>1 DEF TypeOK
<1>1. ASSUME NEW c \in Calls, NEW n \in Names, Enter(c, n) PROVE GateAccounting' /\ GateTyped'
  BY <1>0, <1>1, GotoCounts DEF Enter
<1>2. ASSUME NEW c \in Calls, Acquire(c) PROVE GateAccounting' /\ GateTyped'
  BY <1>0, <1>2, GotoCounts DEF Acquire
<1>3. ASSUME NEW c \in Calls, ContextEnds(c) PROVE GateAccounting' /\ GateTyped'
  BY <1>0, <1>3, GotoCounts DEF ContextEnds
<1>4. ASSUME NEW c \in Calls, PrepareRequest(c) PROVE GateAccounting' /\ GateTyped'
  <2>1. Goto(c, "lookup", "find") \/ Goto(c, "lookup", "release")
    BY <1>4 DEF PrepareRequest
  <2>2. UNCHANGED <<inFlight, slots, waiting>>
    BY <1>4 DEF PrepareRequest, gate
  <2> QED
    BY <1>0, <2>1, <2>2, GotoCounts
<1>5. ASSUME NEW c \in Calls, EitherCreateResizeVolume(c) PROVE GateAccounting' /\ GateTyped'
  <2>1. Goto(c, "find", "create") \/ Goto(c, "find", "release")
    BY <1>5 DEF EitherCreateResizeVolume, FindNext
  <2>2. UNCHANGED <<inFlight, slots, waiting>>
    BY <1>5 DEF EitherCreateResizeVolume, gate
  <2> QED
    BY <1>0, <2>1, <2>2, GotoCounts
<1>6. ASSUME NEW c \in Calls, CreateBlockVolume(c) PROVE GateAccounting' /\ GateTyped'
  <2>1. Goto(c, "create", "release") /\ UNCHANGED <<inFlight, slots, waiting>>
    BY <1>6 DEF CreateBlockVolume, gate
  <2> QED
    BY <1>0, <2>1, GotoCounts
<1>7. ASSUME NEW c \in Calls, Release(c) PROVE GateAccounting' /\ GateTyped'
  BY <1>0, <1>7, GotoCounts DEF Release
<1>8. ASSUME NEW c \in Calls, Unlock(c) PROVE GateAccounting' /\ GateTyped'
  BY <1>0, <1>8, GotoCounts DEF Unlock
<1>9. CASE UNCHANGED <<gate, pc>>
  BY <1>9, TypeParts DEF gate, GateAccounting, GateTyped
<1> QED
  BY <1>1, <1>2, <1>3, <1>4, <1>5, <1>6, <1>7, <1>8, <1>9
  DEF Next, Proceed, LateCreate, vars, gate

\* The steps that the counters are not about keep the types too.
LEMMA TypeStep ==
  ASSUME TypeOK, PendingFailed, GateAccounting, [Next]_vars
  PROVE  TypeOK' /\ PendingFailed'
<1> USE CreateAssumption
<1>1. GateTyped'
  BY GateStep
<1>2. NoName \in Names
  BY DEF NoName
<1>3. CallsTyped'
  BY <1>2 DEF TypeOK, CallsTyped, Next, vars, Proceed, Goto, Enter, Acquire, ContextEnds,
       PrepareRequest, EitherCreateResizeVolume, FindNext, CreateBlockVolume, Release, Unlock,
       LateCreate, PCs, Holding
<1>4. FaultsTyped' /\ faults <= faults'
  <2>1. Fault \/ UNCHANGED faults
    BY DEF Next, vars, Proceed, Enter, Acquire, ContextEnds, PrepareRequest,
         EitherCreateResizeVolume, CreateBlockVolume, Release, Unlock, LateCreate
  <2> QED
    BY <2>1, FaultTyped, TypeParts
<1>5. IaasTyped' /\ PendingFailed'
  <2>1. ASSUME NEW c \in Calls, CreateBlockVolume(c) PROVE IaasTyped' /\ PendingFailed'
    <3>1. name[c] \in Names /\ IaasTyped
      BY TypeParts DEF CallsTyped
    <3>2. CASE Created(c)
      BY <1>4, <3>1, <3>2, CreateOneTyped
      DEF Created, IaasTyped, PendingFailed, FaultsTyped, TypeOK
    <3>3. CASE UNCHANGED iaas
      BY <1>4, <3>1, <3>3 DEF iaas, IaasTyped, PendingFailed, FaultsTyped, TypeOK
    <3>4. CASE /\ Fault /\ pending' = [pending EXCEPT ![name[c]] = @ + 1]
               /\ UNCHANGED <<copies, late>>
      BY <1>4, <3>1, <3>4 DEF Fault, IaasTyped, PendingFailed, FaultsTyped, TypeOK
    <3> QED
      BY <2>1, <3>2, <3>3, <3>4 DEF CreateBlockVolume
  <2>2. ASSUME NEW n \in Names, LateCreate(n) PROVE IaasTyped' /\ PendingFailed'
    <3>1. copies' \in [Names -> 0..MaxCopies]
      BY <2>2, CreateOneTyped, TypeParts DEF LateCreate
    <3>2. \A m \in Names : pending'[m] = IF m = n THEN pending[m] - 1 ELSE pending[m]
      BY <2>2 DEF LateCreate, TypeOK
    <3>3. \A m \in Names : pending'[m] \in 0..MaxFaults /\ pending'[m] <= faults
      BY <2>2, <3>2 DEF LateCreate, PendingFailed, TypeOK
    <3> QED
      BY <2>2, <3>1, <3>3 DEF LateCreate, IaasTyped, PendingFailed, TypeOK
  <2>3. CASE UNCHANGED iaas
    BY <1>4, <2>3 DEF iaas, IaasTyped, PendingFailed, FaultsTyped, TypeOK
  <2>4. \/ \E c \in Calls : CreateBlockVolume(c)
        \/ \E n \in Names : LateCreate(n)
        \/ UNCHANGED iaas
    BY DEF Next, vars, Proceed, Enter, Acquire, ContextEnds, PrepareRequest,
         EitherCreateResizeVolume, Release, Unlock, iaas
  <2> QED
    BY <2>1, <2>2, <2>3, <2>4
<1> QED
  BY <1>1, <1>3, <1>4, <1>5, TypeParts

\* inFlight.Insert refuses a name that another call has, and only the call
\* that inserted it deletes it.
LEMMA NameStep ==
  ASSUME TypeOK, NameIsHeld, [Next]_vars
  PROVE  NameIsHeld'
<1> USE DEF TypeOK, NameIsHeld, PCs, Holding
<1>1. ASSUME NEW c \in Calls, NEW n \in Names, Enter(c, n) PROVE NameIsHeld'
  BY <1>1 DEF Enter, Goto
<1>2. ASSUME NEW c \in Calls, Unlock(c) PROVE NameIsHeld'
  BY <1>2 DEF Unlock, Goto
<1>3. ASSUME NEW c \in Calls, NEW from \in PCs \ {"idle"}, NEW to \in PCs, Goto(c, from, to),
             UNCHANGED <<inFlight, name>>
      PROVE  NameIsHeld'
  BY <1>3 DEF Goto
<1>4. ASSUME NEW c \in Calls, Acquire(c) \/ ContextEnds(c) \/ Release(c) PROVE NameIsHeld'
  BY <1>3, <1>4 DEF Acquire, ContextEnds, Release
<1>5. ASSUME NEW c \in Calls,
             PrepareRequest(c) \/ EitherCreateResizeVolume(c) \/ CreateBlockVolume(c)
      PROVE  NameIsHeld'
  BY <1>3, <1>5 DEF PrepareRequest, EitherCreateResizeVolume, FindNext, CreateBlockVolume, gate
<1>6. CASE UNCHANGED <<inFlight, pc, name>>
  BY <1>6
<1> QED
  BY <1>1, <1>2, <1>4, <1>5, <1>6 DEF Next, Proceed, LateCreate, vars, gate

\* The lookup by name and the create are separate requests, and nobody else
\* asks for the name between them: only a create that vServer carries out late
\* comes in between (EitherCreateResizeVolume).
LEMMA CopiesStep ==
  ASSUME TypeOK, NameIsHeld, NoneFound, NoDuplicateVolumes, [Next]_vars
  PROVE  NoneFound' /\ NoDuplicateVolumes'
<1> USE CreateAssumption DEF PCs, Holding
<1>1. ASSUME NEW c \in Calls, CreateBlockVolume(c) PROVE NoneFound' /\ NoDuplicateVolumes'
  <2>1. /\ pc[c] = "create" /\ pc' = [pc EXCEPT ![c] = "release"]
        /\ UNCHANGED name /\ UNCHANGED late
        /\ CreateOne(name[c]) \/ UNCHANGED copies
    BY <1>1 DEF CreateBlockVolume, Goto, Created, iaas
  <2>2. name[c] \in Names /\ (copies[name[c]] = 0 \/ name[c] \in late)
    BY <2>1 DEF TypeOK, NoneFound
  <2>3. \A d \in Calls \ {c} : pc[d] = "create" => name[d] # name[c]
    BY <2>1 DEF NameIsHeld
  <2>4. /\ copies'[name[c]] <= copies[name[c]] + 1 /\ copies' \in [Names -> 0..MaxCopies]
        /\ \A m \in Names : m # name[c] => copies'[m] = copies[m]
    BY <2>1, <2>2, CreateOneTyped, TypeParts DEF TypeOK
  <2>5. NoDuplicateVolumes'
    BY <2>1, <2>2, <2>4 DEF NoDuplicateVolumes, TypeOK
  <2>6. NoneFound'
    BY <2>1, <2>3, <2>4 DEF NoneFound, TypeOK
  <2> QED
    BY <2>5, <2>6
<1>2. ASSUME NEW n \in Names, LateCreate(n) PROVE NoneFound' /\ NoDuplicateVolumes'
  <2>1. \A m \in Names : m # n => copies'[m] = copies[m]
    BY <1>2, CreateOneTyped, TypeParts DEF LateCreate
  <2> QED
    BY <1>2, <2>1 DEF LateCreate, NoneFound, NoDuplicateVolumes, TypeOK
<1>3. ASSUME NEW c \in Calls, EitherCreateResizeVolume(c) PROVE NoneFound' /\ NoDuplicateVolumes'
  <2>1. copies[name[c]] # 1 => copies[name[c]] = 0 \/ name[c] \in late
    BY DEF NoDuplicateVolumes, TypeOK
  <2> QED
    BY <1>3, <2>1
    DEF EitherCreateResizeVolume, FindNext, Goto, iaas, NoneFound, NoDuplicateVolumes, TypeOK
<1>4. ASSUME NEW c \in Calls,
             PrepareRequest(c) \/ Acquire(c) \/ ContextEnds(c) \/ Release(c) \/ Unlock(c)
      PROVE  NoneFound' /\ NoDuplicateVolumes'
  BY <1>4 DEF PrepareRequest, Acquire, ContextEnds, Release, Unlock, Goto, iaas, NoneFound,
       NoDuplicateVolumes, TypeOK
<1>5. ASSUME NEW c \in Calls, NEW n \in Names, Enter(c, n) PROVE NoneFound' /\ NoDuplicateVolumes'
  BY <1>5 DEF Enter, Goto, iaas, NoneFound, NoDuplicateVolumes, TypeOK
<1>6. CASE UNCHANGED vars
  BY <1>6 DEF vars, NoneFound, NoDuplicateVolumes
<1> QED
  BY <1>1, <1>2, <1>3, <1>4, <1>5, <1>6 DEF Next, Proceed

\* The inductive invariant holds in every reachable state.
THEOREM Invariance == Spec => []IInv
<1>1. Init => IInv
  BY InitHolds
<1>2. IInv /\ [Next]_vars => IInv'
  <2> SUFFICES ASSUME IInv, [Next]_vars PROVE IInv'
    OBVIOUS
  <2> QED
    BY TypeStep, GateStep, NameStep, CopiesStep DEF IInv
<1> QED
  BY <1>1, <1>2, PTL DEF Spec

\* However many creates arrive, at most MaxCreates are past the gate, no slot
\* leaks and the gauge of the waiting calls does not drift (createGate in
\* controllerService.CreateVolume).
THEOREM GateHolds == Spec => []GateInv
<1>1. IInv => GateInv
  BY DEF IInv, GateInv
<1> QED
  BY <1>1, Invariance, PTL

\* Retries and lost answers never give a name a second volume; only a create
\* that vServer carries out after the driver gave it up does
\* (EitherCreateResizeVolume under the in-flight name of CreateVolume).
THEOREM RetriesMakeOneVolume == Spec => []NoDuplicateVolumes
<1>1. IInv => NoDuplicateVolumes
  BY DEF IInv
<1> QED
  BY <1>1, Invariance, PTL
=============================================================================
