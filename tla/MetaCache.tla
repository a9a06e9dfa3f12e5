----------------------------- MODULE MetaCache -----------------------------
(***************************************************************************)
(* metaCache.get (pkg/cloud/metacache.go), the single-flight cache in      *)
(* front of the zone list, the volume types and the project lookup that    *)
(* every cloud call starts with (project_scope.go).                        *)
(*                                                                         *)
(* A value is represented by the time at which it was read from vServer:   *)
(* all that matters of it is how old it is.  A call object is named by the *)
(* caller that runs the load; its waiters take the result at the close of  *)
(* its channel, after which the object no longer changes.                  *)
(***************************************************************************)
EXTENDS Integers

CONSTANTS
  Callers,
  None,
  TTL,
  LoadBudget,  \* bound: the ticks from the start of a load to its close
  Horizon     \* bound: the time stops here

ASSUME CacheAssumption ==
  None \notin Callers /\ TTL \in Nat \ {0} /\ LoadBudget \in Nat /\ Horizon \in Nat

VARIABLES
  time,
  permanent,  \* newPermanentMetaCache or newMetaCache: fixed
  loaded,
  value,      \* the stored result
  expires,
  loading,    \* the caller whose call object is shared, or None
  phase,
  on,         \* the call object a waiter waits for
  start,      \* when each get began
  began,      \* when each load began
  result      \* what each get returns

cache == <<loaded, value, expires, loading>>
cacheVars  == <<time, permanent, loaded, value, expires, loading, phase, on, start, began, result>>

Moments == 0..Horizon

\* at: when a value was read, or when the load that failed ended.
\* served: when the caller got it.
Results == [ok : BOOLEAN, at : Moments, served : Moments]

NoResult == [ok |-> FALSE, at |-> 0, served |-> 0]

CacheTypeOK ==
  /\ time \in Moments
  /\ permanent \in BOOLEAN
  /\ loaded \in BOOLEAN
  /\ value \in Results /\ (loaded => value.ok)
  /\ expires \in 0..(Horizon + TTL)
  /\ loading \in Callers \cup {None}
  /\ phase \in [Callers -> {"idle", "load", "store", "close", "wait", "return"}]
  /\ on \in [Callers -> Callers \cup {None}]
  /\ start \in [Callers -> Moments]
  /\ began \in [Callers -> Moments]
  /\ result \in [Callers -> Results]

CacheInit ==
  /\ time = 0
  /\ permanent \in BOOLEAN
  /\ loaded = FALSE
  /\ value = NoResult
  /\ expires = 0
  /\ loading = None
  /\ phase = [c \in Callers |-> "idle"]
  /\ on = [c \in Callers |-> None]
  /\ start = [c \in Callers |-> 0]
  /\ began = [c \in Callers |-> 0]
  /\ result = [c \in Callers |-> NoResult]

-----------------------------------------------------------------------------
\* Mutant: the expiry is one tick late.
freshInclusive == loaded /\ (permanent \/ time <= expires)

fresh == loaded /\ (permanent \/ time < expires)

(* The first critical section of get has three ways out. *)

Hit(c) ==
  /\ fresh
  /\ phase' = [phase EXCEPT ![c] = "return"]
  /\ result' = [result EXCEPT ![c] = [value EXCEPT !.served = time]]
  /\ UNCHANGED <<loading, on, began>>

Join(c) ==
  /\ ~fresh /\ loading # None
  /\ phase' = [phase EXCEPT ![c] = "wait"]
  /\ on' = [on EXCEPT ![c] = loading]
  /\ UNCHANGED <<loading, began, result>>

\* Mutant: the caller does not look for a load in flight.
LeadRegardless(c) ==
  /\ ~fresh
  /\ phase' = [phase EXCEPT ![c] = "load"]
  /\ loading' = c
  /\ began' = [began EXCEPT ![c] = time]
  /\ UNCHANGED <<on, result>>

Lead(c) ==
  /\ ~fresh /\ loading = None
  /\ phase' = [phase EXCEPT ![c] = "load"]
  /\ loading' = c
  /\ began' = [began EXCEPT ![c] = time]
  /\ UNCHANGED <<on, result>>

Get(c) ==
  /\ phase[c] = "idle"
  /\ start' = [start EXCEPT ![c] = time]
  /\ Hit(c) \/ Join(c) \/ Lead(c)
  /\ UNCHANGED <<time, permanent, loaded, value, expires>>

\* pload, without the lock.
Load(c) ==
  /\ phase[c] = "load"
  /\ phase' = [phase EXCEPT ![c] = "store"]
  /\ \E ok \in BOOLEAN :
       result' = [result EXCEPT ![c] = [ok |-> ok, at |-> time, served |-> time]]
  /\ UNCHANGED <<time, permanent, cache, on, start, began>>

\* Mutant: a failure is stored like a value.
StoreAlways(c) ==
  /\ phase[c] = "store"
  /\ phase' = [phase EXCEPT ![c] = "close"]
  /\ loading' = None
  /\ LET r == [result[c] EXCEPT !.at = IF result[c].ok THEN @ ELSE time]
     IN  /\ result' = [result EXCEPT ![c] = r]
         /\ loaded' = TRUE /\ value' = r /\ expires' = time + TTL
  /\ UNCHANGED <<time, permanent, on, start, began>>

\* The second critical section: a failure leaves the old value alone.
Store(c) ==
  /\ phase[c] = "store"
  /\ phase' = [phase EXCEPT ![c] = "close"]
  /\ loading' = None
  /\ LET r == [result[c] EXCEPT !.at = IF result[c].ok THEN @ ELSE time]
     IN  /\ result' = [result EXCEPT ![c] = r]
         /\ IF r.ok
            THEN loaded' = TRUE /\ value' = r /\ expires' = time + TTL
            ELSE UNCHANGED <<loaded, value, expires>>
  /\ UNCHANGED <<time, permanent, on, start, began>>

Waiters(c) == {d \in Callers : phase[d] = "wait" /\ on[d] = c}

\* Mutant: an early return on failure skips the close.
CloseOnSuccess(c) ==
  /\ phase[c] = "close"
  /\ LET done == {c} \cup IF result[c].ok THEN Waiters(c) ELSE {}
     IN  /\ phase' = [d \in Callers |-> IF d \in done THEN "return" ELSE phase[d]]
         /\ result' = [d \in Callers |->
                         IF d \in done THEN [result[c] EXCEPT !.served = time] ELSE result[d]]
  /\ UNCHANGED <<time, permanent, cache, on, start, began>>

\* close(call.done): the loader and the waiters of its call return.
Close(c) ==
  /\ phase[c] = "close"
  /\ LET done == {c} \cup Waiters(c)
     IN  /\ phase' = [d \in Callers |-> IF d \in done THEN "return" ELSE phase[d]]
         /\ result' = [d \in Callers |->
                         IF d \in done THEN [result[c] EXCEPT !.served = time] ELSE result[d]]
  /\ UNCHANGED <<time, permanent, cache, on, start, began>>

Return(c) ==
  /\ phase[c] = "return"
  /\ phase' = [phase EXCEPT ![c] = "idle"]
  /\ on' = [on EXCEPT ![c] = None]
  /\ start' = [start EXCEPT ![c] = 0]
  /\ began' = [began EXCEPT ![c] = 0]
  /\ result' = [result EXCEPT ![c] = NoResult]
  /\ UNCHANGED <<time, permanent, cache>>

TimePasses ==
  /\ time < Horizon
  /\ \A c \in Callers : phase[c] \in {"load", "store", "close"} => time - began[c] < LoadBudget
  /\ time' = time + 1
  /\ UNCHANGED <<permanent, cache, phase, on, start, began, result>>

Step(c) == Load(c) \/ Store(c) \/ Close(c) \/ Return(c)

CacheNext == TimePasses \/ \E c \in Callers : Get(c) \/ Step(c)

\* A load ends with its HTTP timeout; the rest is local.
CacheSpec == CacheInit /\ [][CacheNext]_cacheVars /\ \A c \in Callers : WF_cacheVars(Step(c))

-----------------------------------------------------------------------------
(* Properties. *)

\* At most one load is in flight, and it is the one late callers wait for:
\* "concurrent callers of a cold cache share a single fetch" (metacache.go).
SingleFlight ==
  \A c \in Callers : phase[c] \in {"load", "store"} => loading = c

\* SingleFlight, of variables that keep their types.
LoadInv == CacheTypeOK /\ SingleFlight

\* No caller gets a value that was read longer ago than the TTL and the time
\* a load takes: the expiry counts from the end of the load.
StalenessBounded ==
  \A c \in Callers : phase[c] = "return" /\ result[c].ok /\ ~permanent =>
    result[c].served - result[c].at < TTL + LoadBudget

\* A caller gets an error only from a load that was in flight during its own
\* call: failures are never cached, not even for the callers that arrive
\* between the end of the load and the close of its channel.
ErrorIsCurrent ==
  \A c \in Callers : phase[c] = "return" /\ ~result[c].ok => result[c].at >= start[c]

\* Every caller that waits for another's load returns, whatever the load's
\* outcome.
WaitersReturn == \A c \in Callers : phase[c] = "wait" ~> phase[c] = "return"
=============================================================================
