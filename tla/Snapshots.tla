----------------------------- MODULE Snapshots -----------------------------
(***************************************************************************)
(* CreateSnapshot and DeleteSnapshot (pkg/driver/controller.go) with the   *)
(* paged lookup by name, the create and its wait (pkg/cloud/cloud.go,      *)
(* cloud_private.go), for the snapshots of one volume.                     *)
(*                                                                         *)
(* vServer lets snapshots share a name: the lookup is all that keeps a     *)
(* retried create from making a second one.  Each page of it is a read of  *)
(* its own, of a list that changes between the reads.  csi-snapshotter     *)
(* retries a name until it is answered, and gives a call up after its      *)
(* timeout, which ends the call's context.                                 *)
(***************************************************************************)
EXTENDS Naturals, Sequences, FiniteSets

CONSTANTS
  Names, Calls,
  NoName,
  Made,        \* the names that have their snapshot from the start
  PageSize,    \* snapshotListPageSize
  MaxPages,    \* snapshotListMaxPages
  MaxOthers,   \* bound: snapshots of other names that the volume starts with
  MaxIds,      \* bound: snapshots in all, vServer's quota
  MaxFaults    \* bound: requests that fail, and lookups that are given up

ASSUME SnapshotAssumption ==
  /\ NoName \notin Names /\ Made \subseteq Names /\ IsFiniteSet(Made)
  /\ PageSize \in Nat \ {0} /\ MaxPages \in Nat \ {0}
  /\ MaxIds \in Nat /\ MaxOthers \in Nat /\ MaxFaults \in Nat
  /\ MaxOthers + Cardinality(Made) <= MaxIds

VARIABLES
  server,    \* how vServer lists: the page size it allows, whether it reports
             \* TotalPages.  Fixed
  list,      \* vServer: the snapshots of the volume, oldest first
  lastId,    \* vServer: the id given out last
  wish,      \* what csi-snapshotter wants of each name
  holds,     \* the id it was told for each name, 0 if none
  inFlight,  \* the names and ids with a handler running
  pc, call,
  pending,   \* creates vServer still works on, unbeknownst
  excused,   \* history: names whose lookup could not see the whole list
  faults

vars == <<server, list, lastId, wish, holds, inFlight, pc, call, pending, excused, faults>>

Ids == 1..MaxIds

Snapshot == [id : Ids, name : Names \cup {NoName}, active : BOOLEAN]

\* key: in the in-flight map.  page: the next one to read.  ended: pctx.
\* id: the snapshot found or made.  blind is a history: the lookup cannot see to the
\* end of the list, or a snapshot it had passed was deleted and the rest of the
\* list moved up.
NoCall ==
  [name |-> NoName, key |-> NoName, page |-> 1, id |-> 0, ended |-> FALSE, blind |-> FALSE]

PCs == {"idle", "lookup", "create", "poll", "delete", "ok", "err"}

TypeOK ==
  /\ server \in [cap : 1..PageSize, total : BOOLEAN]
  /\ list \in Seq(Snapshot)
  /\ \A i, j \in 1..Len(list) : list[i].id = list[j].id => i = j
  /\ lastId \in 0..MaxIds
  /\ wish \in [Names -> {"create", "made", "drop", "gone"}]
  /\ holds \in [Names -> 0..MaxIds]
  /\ inFlight \subseteq Names \cup Ids
  /\ pc \in [Calls -> PCs]
  /\ call \in [Calls -> [name : Names \cup {NoName}, key : Names \cup Ids \cup {NoName},
                         page : 1..MaxPages, id : 0..MaxIds, ended : BOOLEAN, blind : BOOLEAN]]
  /\ pending \in [Names -> 0..MaxFaults]
  /\ excused \subseteq Names
  /\ faults \in 0..MaxFaults

Init ==
  /\ server \in [cap : 1..PageSize, total : BOOLEAN]
  /\ \E others \in 0..MaxOthers :
       /\ lastId = others + Cardinality(Made)
       /\ holds \in [Names -> 0..lastId]
       /\ \A n \in Names : IF n \in Made THEN holds[n] > others ELSE holds[n] = 0
       /\ \A m, n \in Made : holds[m] = holds[n] => m = n
  /\ list = [i \in 1..lastId |->
               [id |-> i, active |-> TRUE,
                name |-> IF \E n \in Made : holds[n] = i THEN CHOOSE n \in Made : holds[n] = i
                         ELSE NoName]]
  /\ wish = [n \in Names |-> IF n \in Made THEN "made" ELSE "create"]
  /\ inFlight = {}
  /\ pc = [c \in Calls |-> "idle"]
  /\ call = [c \in Calls |-> NoCall]
  /\ pending = [n \in Names |-> 0]
  /\ excused = {}
  /\ faults = 0

-----------------------------------------------------------------------------
(* ListSnapshotsByBlockVolumeId, as the code uses it. *)

PageOf(p) ==
  SubSeq(list, (p - 1) * server.cap + 1,
         IF p * server.cap < Len(list) THEN p * server.cap ELSE Len(list))

TotalPages == IF server.total THEN (Len(list) + server.cap - 1) \div server.cap ELSE 0

\* The walk can see the whole list, if it does not change: the list is not
\* longer than all its pages, and no page is shortened without a word.
Listable ==
  /\ Len(list) <= MaxPages * server.cap
  /\ server.total \/ server.cap = PageSize \/ Len(list) <= server.cap

Goto(c, from, to) == pc[c] = from /\ pc' = [pc EXCEPT ![c] = to]

Fault == faults < MaxFaults /\ faults' = faults + 1

Unserved == UNCHANGED <<server, list, lastId, pending, excused>>

-----------------------------------------------------------------------------
(* GetVolumeSnapshotByName. *)

\* Mutant: the name is not compared.
MatchesAny(n, p) == 1..Len(PageOf(p))

Matches(n, p) == {i \in 1..Len(PageOf(p)) : PageOf(p)[i].name = n}

First(n, p) == PageOf(p)[CHOOSE i \in Matches(n, p) : \A j \in Matches(n, p) : i <= j]

\* Mutants: the walk has no limit of its own, or a short page ends it whatever
\* TotalPages says.
LastPageUnlimited(p) ==
  IF TotalPages > 0 THEN p >= TotalPages ELSE Len(PageOf(p)) < PageSize

LastPageOr(p) ==
  \/ p >= MaxPages
  \/ TotalPages > 0 /\ p >= TotalPages
  \/ Len(PageOf(p)) < PageSize

LastPage(p) ==
  \/ p >= MaxPages
  \/ IF TotalPages > 0 THEN p >= TotalPages ELSE Len(PageOf(p)) < PageSize

Blind(c) == pc[c] = "lookup" /\ (call[c].blind \/ ~Listable)

\* One page of the walk of c, which goes on to next(s) at a match s and to
\* missing after the last page.
Walk(c, at, next(_), missing) ==
  /\ pc[c] = at
  /\ LET n == call[c].name
         p == call[c].page
     IN  IF call[c].ended
         THEN Goto(c, at, "err") /\ UNCHANGED <<call, faults>>
         ELSE \/ /\ Matches(n, p) # {}
                 /\ Goto(c, at, next(First(n, p)))
                 /\ call' = [call EXCEPT ![c].page = 1, ![c].blind = FALSE,
                                        ![c].id = IF at = "lookup" THEN First(n, p).id ELSE @]
                 /\ UNCHANGED faults
              \/ /\ Matches(n, p) = {} /\ LastPage(p)
                 /\ Goto(c, at, missing)
                 /\ call' = [call EXCEPT ![c].page = 1, ![c].blind = Blind(c)]
                 /\ UNCHANGED faults
              \/ /\ Matches(n, p) = {} /\ ~LastPage(p)
                 /\ call' = [call EXCEPT ![c].page = p + 1, ![c].blind = Blind(c)]
                 /\ UNCHANGED <<pc, faults>>
              \/ Goto(c, at, "err") /\ Fault /\ UNCHANGED call
  /\ Unserved
  /\ UNCHANGED <<wish, holds, inFlight>>

\* Whatever its status, the snapshot found is the answer.
AfterLookup(s) == "ok"

AfterPoll(s) == IF s.active THEN "ok" ELSE "poll"

-----------------------------------------------------------------------------
(* The handlers. *)

\* csi-snapshotter has no other call on the name that it still waits for.
Alone(n) == \A c \in Calls : call[c].name = n => call[c].ended

Insert(c, n, key, first) ==
  /\ key \notin inFlight
  /\ Goto(c, "idle", first)
  /\ inFlight' = inFlight \cup {key}
  /\ call' = [call EXCEPT ![c] = [NoCall EXCEPT !.name = n, !.key = key]]
  /\ UNCHANGED <<wish, holds, faults>>
  /\ Unserved

CreateSnapshot(c, n) == wish[n] = "create" /\ Alone(n) /\ Insert(c, n, n, "lookup")

DeleteSnapshot(c, n) == wish[n] = "drop" /\ Alone(n) /\ Insert(c, n, holds[n], "delete")

\* The lookup for the name; its absence is the only error that goes on.
GetVolumeSnapshotByName(c) == Walk(c, "lookup", AfterLookup, "create")

\* vServer makes the snapshot, unless its quota is used up.
Make(n) ==
  /\ lastId < MaxIds
  /\ lastId' = lastId + 1
  /\ LET s == [id |-> lastId + 1, name |-> n, active |-> FALSE]
     IN  list' = Append(list, s)

\* The create command: carried out, over quota, refused, carried out with its
\* answer lost, or carried out later still.
CreateSnapshotFromVolume(c) ==
  LET n == call[c].name
  IN  /\ pc[c] = "create"
      /\ \/ /\ Make(n)
            /\ \/ Goto(c, "create", "poll") /\ UNCHANGED faults
               \/ Goto(c, "create", "err") /\ Fault
            /\ UNCHANGED pending
         \/ /\ Goto(c, "create", "err")
            /\ \/ lastId = MaxIds /\ UNCHANGED <<pending, faults>>
               \/ Fault /\ UNCHANGED pending
               \/ Fault /\ pending' = [pending EXCEPT ![n] = @ + 1]
            /\ UNCHANGED <<list, lastId>>
      /\ excused' = IF call[c].blind THEN excused \cup {n} ELSE excused
      /\ call' = [call EXCEPT ![c].blind = FALSE,
                             ![c].id = IF pc'[c] = "poll" THEN lastId + 1 ELSE @]
      /\ UNCHANGED <<server, wish, holds, inFlight>>

\* waitSnapshotActive: a walk for each poll, which a failed read ends, and so
\* does a snapshot that is not found.  The first snapshot of the name that it
\* meets has to be active; the answer is the one that was made.
waitSnapshotActive(c) == Walk(c, "poll", AfterPoll, "err")

\* The context ends the wait, as csi-snapshotter's 15 seconds mostly do, or the
\* backoff has no step left.  Nobody hears the error, or it is retried.
WaitEnds(c) ==
  /\ Goto(c, "poll", "err")
  /\ Unserved
  /\ UNCHANGED <<wish, holds, inFlight, call, faults>>

Place(id) == {i \in 1..Len(list) : list[i].id = id}

\* The list without its element at k: what comes after it moves up.
Without(k) == [i \in 1..(Len(list) - 1) |-> list[IF i < k THEN i ELSE i + 1]]

\* vServer deletes the snapshot; the walks that have passed it miss one.
Remove(id) ==
  /\ list' = IF Place(id) = {} THEN list ELSE Without(CHOOSE k \in Place(id) : TRUE)
  /\ call' = [d \in Calls |->
       [call[d] EXCEPT !.blind = @ \/ /\ pc[d] = "lookup"
                                      /\ \E i \in Place(id) : i <= (call[d].page - 1) * server.cap]]

\* Mutant: a snapshot that is not there is an error.
CloudDeleteSnapshotStrict(c) ==
  /\ pc[c] = "delete"
  /\ \/ /\ Goto(c, "delete", IF Place(call[c].key) # {} THEN "ok" ELSE "err")
        /\ Remove(call[c].key) /\ UNCHANGED faults
     \/ Goto(c, "delete", "err") /\ Fault /\ Remove(call[c].key)
     \/ Goto(c, "delete", "err") /\ Fault /\ UNCHANGED <<list, call>>
  /\ UNCHANGED <<server, lastId, wish, holds, inFlight, pending, excused>>

\* cloud.DeleteSnapshot: gone now or before, refused, or its answer lost.
CloudDeleteSnapshot(c) ==
  /\ pc[c] = "delete"
  /\ \/ Goto(c, "delete", "ok") /\ Remove(call[c].key) /\ UNCHANGED faults
     \/ Goto(c, "delete", "err") /\ Fault /\ Remove(call[c].key)
     \/ Goto(c, "delete", "err") /\ Fault /\ UNCHANGED <<list, call>>
  /\ UNCHANGED <<server, lastId, wish, holds, inFlight, pending, excused>>

\* The answer, which nobody hears after the context has ended, and the
\* deferred inFlight.Delete.
Return(c) ==
  LET n == call[c].name
      heard == pc[c] = "ok" /\ ~call[c].ended
  IN  /\ pc[c] \in {"ok", "err"}
      /\ pc' = [pc EXCEPT ![c] = "idle"]
      /\ inFlight' = inFlight \ {call[c].key}
      /\ call' = [call EXCEPT ![c] = NoCall]
      /\ wish' = IF ~heard THEN wish
                 ELSE [wish EXCEPT ![n] = IF @ = "create" THEN "made" ELSE "gone"]
      /\ holds' = IF heard /\ wish[n] = "create" THEN [holds EXCEPT ![n] = call[c].id] ELSE holds
      /\ Unserved
      /\ UNCHANGED faults

-----------------------------------------------------------------------------
(* The environment. *)

\* csi-snapshotter's timeout before the wait.
GiveUp(c) ==
  /\ pc[c] \in {"lookup", "create"} /\ ~call[c].ended
  /\ call' = [call EXCEPT ![c].ended = TRUE]
  /\ Fault
  /\ Unserved
  /\ UNCHANGED <<wish, holds, inFlight, pc>>

Drop(n) ==
  /\ wish[n] = "made"
  /\ wish' = [wish EXCEPT ![n] = "drop"]
  /\ Unserved
  /\ UNCHANGED <<holds, inFlight, pc, call, faults>>

Activate(i) ==
  /\ ~list[i].active
  /\ list' = [list EXCEPT ![i].active = TRUE]
  /\ UNCHANGED <<server, lastId, wish, holds, inFlight, pc, call, pending, excused, faults>>

\* vServer carries out a create whose answer the driver gave up on.
LateCreate(n) ==
  /\ pending[n] > 0
  /\ Make(n)
  /\ pending' = [pending EXCEPT ![n] = @ - 1]
  /\ excused' = excused \cup {n}
  /\ UNCHANGED <<server, wish, holds, inFlight, pc, call, faults>>

Handler(c) ==
  \/ GetVolumeSnapshotByName(c) \/ CreateSnapshotFromVolume(c) \/ waitSnapshotActive(c)
  \/ CloudDeleteSnapshot(c) \/ Return(c)

Next ==
  \/ \E c \in Calls, n \in Names : CreateSnapshot(c, n) \/ DeleteSnapshot(c, n)
  \/ \E c \in Calls : Handler(c) \/ WaitEnds(c) \/ GiveUp(c)
  \/ \E n \in Names : Drop(n) \/ LateCreate(n)
  \/ \E i \in 1..Len(list) : Activate(i)

\* Handlers run on, and a wait ends; csi-snapshotter retries a create and a delete, and meets
\* the key of a call it gave up now and then.
Fairness ==
  /\ \A c \in Calls : WF_vars(Handler(c)) /\ WF_vars(WaitEnds(c))
  /\ \A n \in Names :
       /\ SF_vars(\E c \in Calls : CreateSnapshot(c, n))
       /\ SF_vars(\E c \in Calls : DeleteSnapshot(c, n))

Spec == Init /\ [][Next]_vars /\ Fairness

-----------------------------------------------------------------------------
(* Properties. *)

Copies(n) == Cardinality({i \in 1..Len(list) : list[i].name = n})

\* No retry makes a second snapshot of a name ("each one a duplicate against a
\* shared project quota", cloud.go), whichever calls time out and whichever
\* answers are lost, for every way vServer may cut the list into pages.  It
\* takes a create that vServer carries out after it was given up, a snapshot
\* deleted behind the walk, or a list that the walk cannot see to its end.
NoDuplicateSnapshots == \A n \in Names : Copies(n) > 1 => n \in excused

\* The snapshot csi-snapshotter was told of stays until it asks for its
\* deletion, and no two names were told the same one.
HeldIsThere ==
  \A n \in Names : wish[n] = "made" =>
    \E i \in 1..Len(list) : list[i].id = holds[n] /\ list[i].name = n

\* A create ends in success although vServer may never be as fast as
\* csi-snapshotter's timeout, as long as the lookup can see the list or the
\* quota lasts; a delete ends in success also when the answer of an earlier
\* one was lost.
SnapshotServed ==
  \A n \in Names :
    /\ wish[n] = "create" ~> (wish[n] = "made" \/ ~Listable)
    /\ wish[n] = "drop" ~> wish[n] = "gone"
=============================================================================
