--------------------------- MODULE SnapshotsProofs ---------------------------
(***************************************************************************)
(* Proofs about Snapshots: no retry makes a second snapshot of a name, and *)
(* a snapshot that csi-snapshotter was told of stays until it is dropped.  *)
(***************************************************************************)
EXTENDS Snapshots, TLAPS, FiniteSetTheorems, SequenceTheorems, WellFoundedInduction

-----------------------------------------------------------------------------
(* The inductive invariant. *)

CallRecord ==
  [name : Names \cup {NoName}, key : Names \cup Ids \cup {NoName},
   page : 1..MaxPages, id : 0..MaxIds, ended : BOOLEAN, blind : BOOLEAN]

\* vServer gives every id once.
ListFits ==
  /\ server \in [cap : 1..PageSize, total : BOOLEAN]
  /\ list \in Seq(Snapshot)
  /\ \A i, j \in 1..Len(list) : list[i].id = list[j].id => i = j
  /\ lastId \in 0..MaxIds
  /\ \A i \in 1..Len(list) : list[i].id <= lastId

\* A create is counted as a fault when it is left to vServer.
Counted ==
  /\ pending \in [Names -> Nat]
  /\ \A n \in Names : pending[n] <= faults
  /\ excused \subseteq Names
  /\ faults \in 0..MaxFaults

CallsTyped ==
  /\ inFlight \subseteq Names \cup Ids
  /\ pc \in [Calls -> PCs]
  /\ call \in [Calls -> CallRecord]

\* A handler that runs has its key in the in-flight map, for itself.
KeysHeld ==
  /\ \A c \in Calls : pc[c] # "idle" => call[c].key \in inFlight /\ call[c].name \in Names
  /\ \A c, d \in Calls :
       pc[c] # "idle" /\ pc[d] # "idle" /\ call[c].key = call[d].key => c = d

\* csi-snapshotter waits for one call of a name at most.
OneWaits ==
  \A c, d \in Calls :
    /\ call[c].name = call[d].name /\ call[c].name \in Names
    /\ ~call[c].ended /\ ~call[d].ended
    => c = d

WishTyped ==
  /\ wish \in [Names -> {"create", "made", "drop", "gone"}]
  /\ holds \in [Names -> 0..MaxIds]
  /\ \A n \in Names : holds[n] <= lastId

There(id, n) == \E i \in 1..Len(list) : list[i].id = id /\ list[i].name = n

\* The snapshot told for a name has that name as long as it exists, and it
\* exists until the name is dropped.
Held ==
  /\ \A n \in Names : wish[n] \in {"made", "drop"} => holds[n] # 0
  /\ \A n \in Names : \A i \in 1..Len(list) : list[i].id = holds[n] => list[i].name = n
  /\ \A n \in Names : wish[n] = "made" => There(holds[n], n)

Creating == {"lookup", "create", "poll"}

\* What a handler does is what csi-snapshotter, if it still waits, wants.
ServesCall(c) ==
  LET n == call[c].name
  IN  /\ pc[c] \in Creating => call[c].key = n /\ (~call[c].ended => wish[n] = "create")
      /\ pc[c] = "delete" => ~call[c].ended /\ call[c].key = holds[n] /\ wish[n] = "drop"
      /\ pc[c] \in {"poll", "ok"} /\ ~call[c].ended /\ wish[n] = "create" => There(call[c].id, n)

Serves == \A c \in Calls : ServesCall(c)

\* A walk that is not blind has passed no snapshot of its name, unless
\* there is an excuse for one.
NotPassed ==
  \A c \in Calls : pc[c] = "lookup" /\ ~call[c].blind /\ call[c].name \notin excused =>
    \A i \in 1..Len(list) : i <= (call[c].page - 1) * server.cap => list[i].name # call[c].name

\* A create that the walk has led to has none either.
Absent ==
  \A c \in Calls : pc[c] = "create" /\ ~call[c].blind /\ call[c].name \notin excused =>
    \A i \in 1..Len(list) : list[i].name # call[c].name

\* NoDuplicateSnapshots, without counting.
NoTwins ==
  \A i, j \in 1..Len(list) :
    list[i].name = list[j].name /\ list[i].name \in Names \ excused => i = j

Calling == CallsTyped /\ KeysHeld /\ OneWaits

Wishing == WishTyped /\ Held /\ Serves

Looking == NotPassed /\ Absent /\ NoTwins

IInv == ListFits /\ Counted /\ Calling /\ Wishing /\ Looking

\* The invariant has the type of the variables in it.
LEMMA IInvTyped == IInv => TypeOK
<1> SUFFICES ASSUME IInv PROVE TypeOK
  OBVIOUS
<1>1. ListFits /\ Counted /\ CallsTyped /\ WishTyped
  BY DEF IInv, Calling, Wishing
<1>2. pending \in [Names -> 0..MaxFaults]
  BY <1>1, SnapshotAssumption DEF Counted
<1> QED BY <1>1, <1>2, Zenon DEF ListFits, Counted, CallsTyped, WishTyped, TypeOK, CallRecord

-----------------------------------------------------------------------------
(* The start. *)

\* The invariant holds at the start: every name that has its snapshot has
\* one place in the list.
LEMMA InitHolds == Init => IInv
<1> SUFFICES ASSUME Init PROVE IInv
  OBVIOUS
<1> PICK others \in 0..MaxOthers :
       /\ lastId = others + Cardinality(Made)
       /\ holds \in [Names -> 0..lastId]
       /\ \A n \in Names : IF n \in Made THEN holds[n] > others ELSE holds[n] = 0
       /\ \A m, n \in Made : holds[m] = holds[n] => m = n
  BY DEF Init
<1>1. Cardinality(Made) \in Nat
  BY SnapshotAssumption, FS_CardinalityType
<1>2. others \in Nat /\ lastId \in Nat /\ lastId <= MaxIds /\ lastId \in 0..MaxIds
  BY <1>1, SnapshotAssumption
<1> DEFINE told(i) == \E n \in Made : holds[n] = i
           nameAt(i) == IF told(i) THEN CHOOSE n \in Made : holds[n] = i ELSE NoName
<1>3. list = [i \in 1..lastId |-> [id |-> i, active |-> TRUE, name |-> nameAt(i)]]
  BY DEF Init
<1>4. ASSUME NEW i \in 1..lastId
      PROVE  /\ nameAt(i) \in Names \cup {NoName}
             /\ nameAt(i) \in Names => nameAt(i) \in Made /\ holds[nameAt(i)] = i
             /\ \A n \in Made : holds[n] = i => nameAt(i) = n
  <2>1. CASE told(i)
    <3>1. nameAt(i) \in Made /\ holds[nameAt(i)] = i
      BY <2>1
    <3>2. Made \subseteq Names
      BY SnapshotAssumption
    <3> HIDE DEF nameAt
    <3> QED BY <3>1, <3>2
  <2>2. CASE ~told(i)
    BY <2>2, SnapshotAssumption
  <2> QED BY <2>1, <2>2
<1> HIDE DEF nameAt
<1>5. /\ list \in Seq(Snapshot) /\ Len(list) = lastId
      /\ \A i \in 1..lastId : list[i].id = i /\ list[i].name = nameAt(i)
  <2>1. \A i \in 1..lastId : [id |-> i, active |-> TRUE, name |-> nameAt(i)] \in Snapshot
    BY <1>2, <1>4, SnapshotAssumption DEF Snapshot, Ids
  <2>2. list \in [1..lastId -> Snapshot]
    BY <1>3, <2>1
  <2>3. list \in Seq(Snapshot)
    BY <1>2, <2>2
  <2>4. Len(list) = lastId
    BY <1>2, <1>3, LenProperties
  <2> QED BY <1>3, <2>3, <2>4
<1>6. ListFits
  BY <1>2, <1>5 DEF ListFits, Init
<1>7. Counted
  BY SnapshotAssumption DEF Counted, Init
<1>8. NoCall \in CallRecord /\ NoCall.name = NoName
  BY SnapshotAssumption DEF NoCall, CallRecord
<1>9. \A c \in Calls : call[c] = NoCall /\ pc[c] = "idle"
  BY DEF Init
<1>10. CallsTyped
  BY <1>8, <1>9 DEF CallsTyped, Init, PCs
<1>11. KeysHeld /\ OneWaits
  BY <1>8, <1>9, SnapshotAssumption DEF KeysHeld, OneWaits
<1>12. WishTyped
  <2>1. holds \in [Names -> 0..MaxIds]
    <3>1. 0..lastId \subseteq 0..MaxIds
      BY <1>2, SnapshotAssumption
    <3> QED BY <3>1
  <2> QED BY <1>2, <2>1 DEF WishTyped, Init
<1>13. \A n \in Names : (wish[n] = "made" <=> n \in Made) /\ wish[n] # "drop"
  BY DEF Init
<1>14. \A n \in Names : n \in Made => holds[n] \in 1..lastId
  BY <1>2, SnapshotAssumption
<1>15. \A n \in Names : n \notin Made => holds[n] = 0
  OBVIOUS
<1>16. Held
  <2>1. \A n \in Names : \A i \in 1..Len(list) : list[i].id = holds[n] => list[i].name = n
    BY <1>4, <1>5, <1>15
  <2>2. \A n \in Made : There(holds[n], n)
    BY <1>4, <1>5, <1>14, SnapshotAssumption DEF There
  <2>3. \A n \in Names : n \in Made => holds[n] # 0
    BY <1>14
  <2> QED BY <1>13, <2>1, <2>2, <2>3 DEF Held
<1>17. Serves /\ NotPassed /\ Absent
  BY <1>9 DEF Serves, ServesCall, NotPassed, Absent, Creating
<1>18. NoTwins
  BY <1>4, <1>5 DEF NoTwins
<1> QED BY <1>6, <1>7, <1>10, <1>11, <1>12, <1>16, <1>17, <1>18 DEF IInv, Calling, Wishing, Looking

-----------------------------------------------------------------------------
(* What happens to the list. *)

\* A create appends.
LEMMA MakeList ==
  ASSUME ListFits, NEW n \in Names, Make(n)
  PROVE  /\ list' \in Seq(Snapshot) /\ Len(list) \in Nat /\ Len(list') = Len(list) + 1
         /\ \A i \in 1..Len(list) : list'[i] = list[i]
         /\ list'[Len(list) + 1].id = lastId + 1 /\ list'[Len(list) + 1].name = n
         /\ lastId' = lastId + 1 /\ lastId' \in 0..MaxIds /\ lastId \in Nat
<1> DEFINE s == [id |-> lastId + 1, name |-> n, active |-> FALSE]
<1>1. lastId \in Nat /\ lastId' = lastId + 1 /\ lastId' \in 0..MaxIds
  BY SnapshotAssumption DEF ListFits, Make
<1>2. s \in Snapshot
  BY <1>1, SnapshotAssumption DEF Snapshot, Ids
<1>3. list' = Append(list, s)
  BY DEF Make
<1>4. list \in Seq(Snapshot)
  BY DEF ListFits
<1>5. s.id = lastId + 1 /\ s.name = n
  OBVIOUS
<1> HIDE DEF s
<1> QED BY <1>1, <1>2, <1>3, <1>4, <1>5, AppendProperties, LenProperties

\* A delete takes out one element, if there is one.
LEMMA RemoveList ==
  ASSUME ListFits, NEW id, Remove(id)
  PROVE  \/ Place(id) = {} /\ list' = list
         \/ \E k \in 1..Len(list) :
              /\ list[k].id = id
              /\ list' \in Seq(Snapshot) /\ Len(list) \in Nat /\ Len(list') = Len(list) - 1
              /\ \A i \in 1..Len(list') : list'[i] = list[IF i < k THEN i ELSE i + 1]
<1>1. CASE Place(id) = {}
  BY <1>1 DEF Remove
<1>2. CASE Place(id) # {}
  <2> DEFINE k == CHOOSE k \in Place(id) : TRUE
  <2>1. k \in Place(id)
    BY <1>2
  <2>2. list' = Without(k)
    BY <1>2 DEF Remove
  <2> HIDE DEF k
  <2>3. list \in Seq(Snapshot) /\ Len(list) \in Nat /\ k \in 1..Len(list) /\ list[k].id = id
    BY <2>1 DEF ListFits, Place
  <2>4. Len(list) - 1 \in Nat
    BY <2>3
  <2>5. \A i \in 1..(Len(list) - 1) : list[IF i < k THEN i ELSE i + 1] \in Snapshot
    BY <2>3, ElementOfSeq
  <2>6. list' \in [1..(Len(list) - 1) -> Snapshot]
    BY <2>2, <2>5 DEF Without
  <2>7. list' \in Seq(Snapshot) /\ Len(list') = Len(list) - 1
    BY <2>4, <2>6, LenProperties
  <2>8. \A i \in 1..Len(list') : list'[i] = list[IF i < k THEN i ELSE i + 1]
    BY <2>2, <2>7 DEF Without
  <2> QED BY <2>3, <2>7, <2>8
<1> QED BY <1>1, <1>2

\* An activation changes no id and no name.
LEMMA ActivateList ==
  ASSUME ListFits, NEW k \in 1..Len(list), Activate(k)
  PROVE  /\ list' \in Seq(Snapshot) /\ Len(list) \in Nat /\ Len(list') = Len(list)
         /\ \A i \in 1..Len(list) : list'[i].id = list[i].id /\ list'[i].name = list[i].name
<1>1. list \in Seq(Snapshot) /\ list' = [list EXCEPT ![k].active = TRUE]
  BY DEF ListFits, Activate
<1>2. Len(list) \in Nat /\ list \in [1..Len(list) -> Snapshot]
  BY <1>1, LenProperties
<1>3. list' \in [1..Len(list) -> Snapshot]
  BY <1>1, <1>2 DEF Snapshot
<1>4. \A i \in 1..Len(list) : list'[i].id = list[i].id /\ list'[i].name = list[i].name
  BY <1>1, <1>2 DEF Snapshot
<1>5. list' \in Seq(Snapshot) /\ Len(list') = Len(list)
  BY <1>2, <1>3, LenProperties
<1> QED BY <1>2, <1>4, <1>5

-----------------------------------------------------------------------------
(* What a page shows. *)

\* The places of a page: those after the pages before it, up to its own end
\* or the end of the list.
LEMMA PagePlaces ==
  ASSUME ListFits, NEW p \in 1..MaxPages
  PROVE  /\ Len(list) \in Nat /\ server.cap \in 1..PageSize /\ server.total \in BOOLEAN
         /\ (p - 1) * server.cap \in Nat /\ p * server.cap \in Nat
         /\ p * server.cap = (p - 1) * server.cap + server.cap
         /\ Len(PageOf(p)) \in Nat
         /\ \A i \in 1..Len(list) :
              (p - 1) * server.cap < i /\ i <= p * server.cap =>
                /\ i - (p - 1) * server.cap \in 1..Len(PageOf(p))
                /\ PageOf(p)[i - (p - 1) * server.cap] = list[i]
         /\ \A j \in 1..Len(PageOf(p)) :
              j + (p - 1) * server.cap \in 1..Len(list) /\ PageOf(p)[j] = list[j + (p - 1) * server.cap]
         /\ p * server.cap < Len(list) => Len(PageOf(p)) = server.cap
<1> DEFINE cap == server.cap
           from == (p - 1) * cap
           end == IF p * cap < Len(list) THEN p * cap ELSE Len(list)
<1>1. cap \in 1..PageSize /\ cap \in Nat /\ cap >= 1 /\ server.total \in BOOLEAN
  BY SnapshotAssumption DEF ListFits
<1>2. p \in Nat /\ p - 1 \in Nat /\ p >= 1
  BY SnapshotAssumption
<1>3. list \in Seq(Snapshot) /\ Len(list) \in Nat
  BY LenProperties DEF ListFits
<1>4. ASSUME NEW a \in Nat, NEW b \in Nat
      PROVE  a * b \in Nat /\ (a + 1) * b = a * b + b
  OBVIOUS
<1>5. from \in Nat /\ p * cap = from + cap /\ p * cap \in Nat
  <2>1. (p - 1) + 1 = p
    BY <1>2
  <2>2. (p - 1) * cap \in Nat /\ ((p - 1) + 1) * cap = (p - 1) * cap + cap
    BY <1>1, <1>2, <1>4
  <2> QED BY <1>1, <2>1, <2>2
<1> HIDE DEF from
<1>6. PageOf(p) = SubSeq(list, from + 1, end)
  BY DEF PageOf, from
<1>7. /\ end \in Nat /\ end <= Len(list) /\ end <= p * cap
      /\ p * cap < Len(list) => end = p * cap
      /\ \A i \in 1..Len(list) : i <= p * cap => i <= end
  BY <1>3, <1>5
<1> HIDE DEF end
<1>8. \A i \in (from + 1)..end : list[i] \in Snapshot
  BY <1>3, <1>5, <1>7, ElementOfSeq
<1>9. /\ Len(PageOf(p)) = IF from + 1 <= end THEN end - (from + 1) + 1 ELSE 0
      /\ \A j \in 1..(end - (from + 1) + 1) : PageOf(p)[j] = list[(from + 1) + j - 1]
  <2>1. from + 1 \in Int /\ end \in Int
    BY <1>5, <1>7
  <2>2. /\ Len(SubSeq(list, from + 1, end)) = IF from + 1 <= end THEN end - (from + 1) + 1 ELSE 0
        /\ \A j \in 1..(end - (from + 1) + 1) : SubSeq(list, from + 1, end)[j] = list[(from + 1) + j - 1]
    BY <1>8, <2>1, SubSeqProperties
  <2> QED BY <1>6, <2>2
<1> DEFINE size == Len(PageOf(p))
<1>10. size = IF from < end THEN end - from ELSE 0
  BY <1>5, <1>7, <1>9
<1>11. \A j \in 1..size : PageOf(p)[j] = list[from + j]
  <2>1. ASSUME NEW j \in 1..size PROVE PageOf(p)[j] = list[from + j]
    <3>1. size = end - from /\ j \in 1..(end - (from + 1) + 1) /\ (from + 1) + j - 1 = from + j
      BY <1>5, <1>7, <1>10
    <3> QED BY <1>9, <3>1
  <2> QED BY <2>1
<1> HIDE DEF size
<1>12. ASSUME NEW i \in 1..Len(list), from < i, i <= p * cap
       PROVE  i - from \in 1..size /\ PageOf(p)[i - from] = list[i]
  <2>1. i - from \in 1..size /\ from + (i - from) = i
    BY <1>3, <1>5, <1>7, <1>10, <1>12
  <2> QED BY <1>11, <2>1
<1>13. ASSUME NEW j \in 1..size
       PROVE  j + from \in 1..Len(list) /\ PageOf(p)[j] = list[j + from]
  <2>1. j + from \in 1..Len(list) /\ from + j = j + from
    BY <1>3, <1>5, <1>7, <1>10
  <2> QED BY <1>11, <2>1
<1>14. size \in Nat /\ (p * cap < Len(list) => size = cap)
  BY <1>1, <1>3, <1>5, <1>7, <1>10
<1> QED BY <1>1, <1>3, <1>5, <1>12, <1>13, <1>14 DEF from, size

\* A page that has a match has a first one.
LEMMA Least ==
  ASSUME NEW T \in SUBSET Nat, T # {}
  PROVE  \E x \in T : \A y \in T : x <= y
<1> DEFINE R == {ss \in Nat \X Nat : ss[1] < ss[2]}
<1>1. IsWellFoundedOn(R, Nat)
  BY NatLessThanWellFounded, Zenon DEF OpToRel
<1>2. \A x, y \in Nat : <<y, x>> \in R <=> y < x
  OBVIOUS
<1> HIDE DEF R
<1>3. PICK x \in T : \A y \in T : ~(<<y, x>> \in R)
  BY <1>1, WFMin, Zenon
<1>4. ASSUME NEW y \in T PROVE x <= y
  <2>1. x \in Nat /\ y \in Nat
    OBVIOUS
  <2>2. ~(y < x)
    BY <1>2, <1>3, <2>1, Zenon
  <2> QED BY <2>1, <2>2
<1> QED BY <1>4

\* What is found on a page is in the list, and has the name.
LEMMA FirstFound ==
  ASSUME ListFits, NEW p \in 1..MaxPages, NEW n \in Names, Matches(n, p) # {}
  PROVE  First(n, p).id \in 1..MaxIds /\ There(First(n, p).id, n)
<1> DEFINE k == CHOOSE i \in Matches(n, p) : \A j \in Matches(n, p) : i <= j
<1>1. Len(PageOf(p)) \in Nat
  BY PagePlaces
<1>2. Matches(n, p) \subseteq Nat
  BY <1>1 DEF Matches
<1>3. \E i \in Matches(n, p) : \A j \in Matches(n, p) : i <= j
  BY <1>2, Least
<1>4. k \in Matches(n, p)
  BY <1>3
<1>5. First(n, p) = PageOf(p)[k]
  BY DEF First
<1> HIDE DEF k
<1>6. k \in 1..Len(PageOf(p)) /\ PageOf(p)[k].name = n
  BY <1>4 DEF Matches
<1> DEFINE i == k + (p - 1) * server.cap
<1>7. i \in 1..Len(list) /\ PageOf(p)[k] = list[i]
  BY <1>6, PagePlaces
<1> HIDE DEF i
<1>8. list[i] \in Snapshot
  BY <1>7, ElementOfSeq DEF ListFits
<1> QED BY <1>5, <1>6, <1>7, <1>8 DEF There, Snapshot, Ids

\* A page without a match has no snapshot of the name.
LEMMA NoMatch ==
  ASSUME ListFits, NEW p \in 1..MaxPages, NEW n \in Names, Matches(n, p) = {}
  PROVE  \A i \in 1..Len(list) :
           (p - 1) * server.cap < i /\ i <= p * server.cap => list[i].name # n
<1> SUFFICES ASSUME NEW i \in 1..Len(list), (p - 1) * server.cap < i, i <= p * server.cap
             PROVE  list[i].name # n
  OBVIOUS
<1> DEFINE j == i - (p - 1) * server.cap
<1>1. j \in 1..Len(PageOf(p)) /\ PageOf(p)[j] = list[i]
  BY PagePlaces
<1> HIDE DEF j
<1>2. j \notin Matches(n, p)
  OBVIOUS
<1> QED BY <1>1, <1>2 DEF Matches

\* Where a page is full, as many pages as vServer counts cover the list.
LEMMA PagesCover ==
  ASSUME NEW len \in Nat, NEW cap \in Nat \ {0}, NEW p \in Nat,
         p >= (len + cap - 1) \div cap
  PROVE  len <= p * cap
<1> DEFINE q == (len + cap - 1) \div cap
           r == (len + cap - 1) % cap
<1>1. q \in Int /\ r \in 0..(cap - 1) /\ len + cap - 1 = cap * q + r
  OBVIOUS
<1> HIDE DEF q, r
<1>2. p >= q
  BY DEF q
<1>3. cap * q <= cap * p
  BY <1>1, <1>2
<1>4. cap * p = p * cap
  OBVIOUS
<1> QED BY <1>1, <1>3, <1>4

\* The walk that ends, and could see the list, has seen it to its end.
LEMMA LastPageSees ==
  ASSUME ListFits, NEW p \in 1..MaxPages, Listable, LastPage(p)
  PROVE  Len(list) <= p * server.cap
<1> DEFINE cap == server.cap
           len == Len(list)
<1>1. /\ len \in Nat /\ cap \in Nat \ {0} /\ p \in Nat \ {0} /\ server.total \in BOOLEAN
      /\ Len(PageOf(p)) \in Nat /\ p * cap \in Nat
      /\ p * cap < len => Len(PageOf(p)) = cap
      /\ p * cap = (p - 1) * cap + cap /\ (p - 1) * cap \in Nat
  <2>1. p \in Nat \ {0}
    BY SnapshotAssumption
  <2>2. cap \in 1..PageSize
    BY PagePlaces
  <2>3. cap \in Nat \ {0}
    BY <2>2, SnapshotAssumption
  <2> QED BY <2>1, <2>3, PagePlaces
<1>2. CASE p >= MaxPages
  <2>1. p = MaxPages
    BY <1>2, SnapshotAssumption
  <2> QED BY <2>1 DEF Listable
<1>3. CASE server.total
  <2>1. TotalPages = (len + cap - 1) \div cap
    BY <1>3 DEF TotalPages
  <2>2. CASE TotalPages > 0 /\ p >= TotalPages
    BY <1>1, <2>1, <2>2, PagesCover
  <2>3. CASE ~(TotalPages > 0)
    <3> DEFINE total == (len + cap - 1) \div cap
    <3>1. total \in Int
      BY <1>1
    <3> HIDE DEF total
    <3>2. p >= total
      BY <1>1, <2>1, <2>3, <3>1 DEF total
    <3> QED BY <1>1, <3>2, PagesCover DEF total
  <2>4. CASE TotalPages > 0 /\ ~(p >= TotalPages)
    BY <1>2, <2>4 DEF LastPage
  <2> QED BY <2>2, <2>3, <2>4
<1>4. CASE ~server.total
  <2>1. TotalPages = 0
    BY <1>4 DEF TotalPages
  <2>2. p >= MaxPages \/ Len(PageOf(p)) < PageSize
    BY <2>1 DEF LastPage
  <2>3. cap = PageSize \/ len <= cap
    BY <1>4 DEF Listable
  <2> HIDE DEF cap, len
  <2>4. CASE Len(PageOf(p)) < PageSize
    BY <1>1, <2>3, <2>4, SnapshotAssumption DEF cap, len
  <2> QED BY <1>2, <2>2, <2>4 DEF cap, len
<1> QED BY <1>1, <1>3, <1>4

-----------------------------------------------------------------------------
(* The steps that leave vServer's snapshots alone. *)

\* A fault is counted, and the pending creates stay below the count.
LEMMA CountedKeeps ==
  ASSUME Counted, UNCHANGED <<pending, excused>>, faults' = faults \/ Fault
  PROVE  Counted'
<1>1. faults' \in 0..MaxFaults /\ faults' \in Nat /\ faults \in Nat /\ faults <= faults'
  BY SnapshotAssumption DEF Counted, Fault
<1>2. \A n \in Names : pending'[n] <= faults'
  BY <1>1 DEF Counted
<1> QED BY <1>1, <1>2 DEF Counted

\* A list that is not touched stays as it is.
LEMMA ListKeeps ==
  ASSUME ListFits, Unserved
  PROVE  ListFits' /\ \A id, n : There(id, n)' <=> There(id, n)
  BY DEF ListFits, Unserved, There

\* The call of c goes on to the place to and becomes r.  It keeps its name
\* and its key, and what is asked of (to, r) is what the invariant says of c.
LEMMA CallSteps ==
  ASSUME IInv, NEW c \in Calls, NEW to \in PCs, NEW r \in CallRecord,
         pc[c] # "idle", to \notin {"idle", "delete"},
         pc' = [pc EXCEPT ![c] = to], call' = [call EXCEPT ![c] = r],
         r.name = call[c].name, r.key = call[c].key, call[c].ended => r.ended,
         Unserved, UNCHANGED <<wish, holds, inFlight>>, faults' = faults \/ Fault,
         to \in Creating => pc[c] \in Creating,
         to \in {"poll", "ok"} /\ ~r.ended /\ wish[r.name] = "create" => There(r.id, r.name),
         to = "lookup" /\ ~r.blind /\ r.name \notin excused =>
           \A i \in 1..Len(list) : i <= (r.page - 1) * server.cap => list[i].name # r.name,
         to = "create" /\ ~r.blind /\ r.name \notin excused =>
           \A i \in 1..Len(list) : list[i].name # r.name
  PROVE  IInv'
<1>1. /\ ListFits /\ Counted /\ CallsTyped /\ KeysHeld /\ OneWaits /\ WishTyped /\ Held /\ Serves
      /\ NotPassed /\ Absent /\ NoTwins
  BY DEF IInv, Calling, Wishing, Looking
<1>2. ListFits' /\ \A id, n : There(id, n)' <=> There(id, n)
  BY <1>1, ListKeeps
<1>3. Counted'
  BY <1>1, CountedKeeps DEF Unserved
<1>4. \A d \in Calls : /\ d # c => pc'[d] = pc[d] /\ call'[d] = call[d]
                       /\ pc'[c] = to /\ call'[c] = r
  BY <1>1 DEF CallsTyped
<1>5. CallsTyped'
  BY <1>1 DEF CallsTyped
<1>6. KeysHeld'
  BY <1>1, <1>4 DEF KeysHeld
<1>7. OneWaits'
  BY <1>1, <1>4 DEF OneWaits
<1>8. WishTyped' /\ Held'
  <2>1. WishTyped'
    BY <1>1 DEF WishTyped, Unserved
  <2>2. Held'
    BY <1>1 DEF Held, Unserved, There
  <2> QED BY <2>1, <2>2
<1>9. Serves'
  <2>1. UNCHANGED <<list, wish, holds>>
    BY DEF Unserved
  <2>2. ServesCall(c)'
    <3>1. ServesCall(c)
      BY <1>1 DEF Serves
    <3> QED BY <2>1, <1>4, <3>1 DEF ServesCall, There
  <2>3. ASSUME NEW d \in Calls, d # c PROVE ServesCall(d)'
    <3>1. ServesCall(d) /\ pc'[d] = pc[d] /\ call'[d] = call[d]
      BY <1>1, <1>4, <2>3 DEF Serves
    <3> QED BY <2>1, <3>1 DEF ServesCall, There
  <2> QED BY <2>2, <2>3 DEF Serves
<1>10. NotPassed'
  BY <1>1, <1>4 DEF NotPassed, Unserved
<1>11. Absent' /\ NoTwins'
  BY <1>1, <1>4 DEF Absent, NoTwins, Unserved
<1> QED BY <1>2, <1>3, <1>5, <1>6, <1>7, <1>8, <1>9, <1>10, <1>11 DEF IInv, Calling, Wishing, Looking

\* A call that runs may always fail.
LEMMA CallFails ==
  ASSUME IInv, NEW c \in Calls, pc[c] # "idle", pc' = [pc EXCEPT ![c] = "err"], call' = call,
         Unserved, UNCHANGED <<wish, holds, inFlight>>, faults' = faults \/ Fault
  PROVE  IInv'
<1>1. call \in [Calls -> CallRecord]
  BY DEF IInv, Calling, CallsTyped
<1>2. call[c] \in CallRecord /\ call' = [call EXCEPT ![c] = call[c]]
  BY <1>1
<1>3. "err" \in PCs /\ "err" \notin Creating
  BY DEF PCs, Creating
<1> QED BY <1>2, <1>3, CallSteps

\* The waits end; csi-snapshotter gives up.
LEMMA EndsKeep ==
  ASSUME IInv, NEW c \in Calls, WaitEnds(c) \/ GiveUp(c)
  PROVE  IInv'
<1>1. CASE WaitEnds(c)
  BY <1>1, CallFails DEF WaitEnds, Goto
<1>2. CASE GiveUp(c)
  <2> DEFINE r == [call[c] EXCEPT !.ended = TRUE]
  <2>1. pc \in [Calls -> PCs] /\ call[c] \in CallRecord /\ pc[c] \in {"lookup", "create"}
    BY <1>2 DEF IInv, Calling, CallsTyped, GiveUp
  <2>2. /\ r \in CallRecord /\ r.name = call[c].name /\ r.key = call[c].key /\ r.ended = TRUE
        /\ r.blind = call[c].blind /\ r.page = call[c].page
    BY <2>1 DEF CallRecord
  <2>3. call' = [call EXCEPT ![c] = r]
    BY <1>2 DEF GiveUp
  <2> HIDE DEF r
  <2>4. pc' = [pc EXCEPT ![c] = pc[c]] /\ pc[c] \in PCs
    BY <1>2, <2>1 DEF GiveUp
  <2>5. Unserved /\ UNCHANGED <<wish, holds, inFlight>> /\ Fault
    BY <1>2 DEF GiveUp
  <2>6. NotPassed /\ Absent
    BY DEF IInv, Looking
  <2>7. /\ pc[c] = "lookup" /\ ~r.blind /\ r.name \notin excused =>
             \A i \in 1..Len(list) : i <= (r.page - 1) * server.cap => list[i].name # r.name
        /\ pc[c] = "create" /\ ~r.blind /\ r.name \notin excused =>
             \A i \in 1..Len(list) : list[i].name # r.name
    BY <2>2, <2>6 DEF NotPassed, Absent
  <2> QED BY <2>1, <2>2, <2>3, <2>4, <2>5, <2>7, CallSteps
<1> QED BY <1>1, <1>2

\* A walk over an intact list, one page after the other, passes no snapshot
\* of its name; after the last page there is none.
LEMMA WalkPasses ==
  ASSUME IInv, NEW c \in Calls, pc[c] = "lookup", ~Blind(c), call[c].name \notin excused,
         Matches(call[c].name, call[c].page) = {}
  PROVE  /\ \A i \in 1..Len(list) : i <= call[c].page * server.cap => list[i].name # call[c].name
         /\ LastPage(call[c].page) => \A i \in 1..Len(list) : list[i].name # call[c].name
<1> DEFINE n == call[c].name
           p == call[c].page
<1>1. ListFits /\ CallsTyped /\ KeysHeld /\ NotPassed
  BY DEF IInv, Calling, Looking
<1>2. n \in Names /\ p \in 1..MaxPages /\ ~call[c].blind /\ Listable
  BY <1>1 DEF CallsTyped, CallRecord, KeysHeld, Blind
<1>3. \A i \in 1..Len(list) : i <= (p - 1) * server.cap => list[i].name # n
  BY <1>1, <1>2 DEF NotPassed
<1>4. \A i \in 1..Len(list) : (p - 1) * server.cap < i /\ i <= p * server.cap => list[i].name # n
  BY <1>1, <1>2, NoMatch
<1>5. Len(list) \in Nat /\ (p - 1) * server.cap \in Nat /\ p * server.cap \in Nat
  BY <1>1, <1>2, PagePlaces
<1>6. ASSUME NEW a \in Nat, NEW i \in 1..Len(list) PROVE i <= a \/ a < i
  BY <1>5
<1>7. \A i \in 1..Len(list) : i <= p * server.cap => list[i].name # n
  BY <1>3, <1>4, <1>5, <1>6
<1>8. ASSUME LastPage(p) PROVE \A i \in 1..Len(list) : i <= p * server.cap
  <2>1. Len(list) <= p * server.cap
    BY <1>1, <1>2, <1>8, LastPageSees
  <2> HIDE DEF p
  <2> QED BY <1>5, <2>1
<1> QED BY <1>7, <1>8

\* One page of the lookup: a match is the answer, and an intact walk without
\* one leads to the create.
LEMMA LookupKeeps ==
  ASSUME IInv, NEW c \in Calls, GetVolumeSnapshotByName(c)
  PROVE  IInv'
<1> DEFINE n == call[c].name
           p == call[c].page
<1>1. ListFits /\ CallsTyped /\ KeysHeld
  BY DEF IInv, Calling
<1>2. /\ pc[c] = "lookup" /\ Unserved /\ UNCHANGED <<wish, holds, inFlight>>
      /\ pc \in [Calls -> PCs] /\ call \in [Calls -> CallRecord]
  BY <1>1 DEF GetVolumeSnapshotByName, Walk, CallsTyped
<1>3. /\ n \in Names /\ p \in 1..MaxPages /\ p \in Nat /\ call[c] \in CallRecord
      /\ Blind(c) \in BOOLEAN /\ Blind(c) = (call[c].blind \/ ~Listable)
  BY <1>1, <1>2, SnapshotAssumption DEF CallsTyped, CallRecord, KeysHeld, Blind
<1>4. \A to \in {"lookup", "create", "ok"} : to \in PCs /\ to \notin {"idle", "delete"}
  BY DEF PCs
<1>5. pc[c] \in Creating /\ "ok" \notin Creating
  BY <1>2 DEF Creating
<1>6. CASE pc' = [pc EXCEPT ![c] = "err"] /\ call' = call /\ (faults' = faults \/ Fault)
  BY <1>2, <1>6, CallFails
<1>7. CASE ~call[c].ended /\ Matches(n, p) # {} /\ Goto(c, "lookup", AfterLookup(First(n, p)))
           /\ call' = [call EXCEPT ![c].page = 1, ![c].blind = FALSE, ![c].id = First(n, p).id]
           /\ UNCHANGED faults
  <2> DEFINE r == [call[c] EXCEPT !.page = 1, !.blind = FALSE, !.id = First(n, p).id]
  <2>1. pc' = [pc EXCEPT ![c] = "ok"] /\ pc'[c] = "ok"
    BY <1>2, <1>7 DEF Goto, AfterLookup
  <2>2. call' = [call EXCEPT ![c] = r]
    BY <1>2, <1>7, <2>1
  <2>3. First(n, p).id \in 1..MaxIds /\ There(First(n, p).id, n)
    BY <1>1, <1>3, <1>7, FirstFound
  <2>4. 1 \in 1..MaxPages /\ First(n, p).id \in 0..MaxIds
    BY <2>3, SnapshotAssumption
  <2>5. /\ r \in CallRecord /\ r.name = n /\ r.key = call[c].key /\ r.ended = call[c].ended
        /\ r.id = First(n, p).id
    BY <1>3, <2>4 DEF CallRecord
  <2> HIDE DEF r
  <2> QED BY <1>2, <1>4, <1>5, <1>7, <2>1, <2>2, <2>3, <2>5, CallSteps
<1>8. CASE ~call[c].ended /\ Matches(n, p) = {} /\ LastPage(p) /\ Goto(c, "lookup", "create")
           /\ call' = [call EXCEPT ![c].page = 1, ![c].blind = Blind(c)]
           /\ UNCHANGED faults
  <2> DEFINE r == [call[c] EXCEPT !.page = 1, !.blind = Blind(c)]
  <2>1. pc' = [pc EXCEPT ![c] = "create"] /\ call' = [call EXCEPT ![c] = r]
    BY <1>2, <1>8 DEF Goto
  <2>2. 1 \in 1..MaxPages
    BY SnapshotAssumption
  <2>3. /\ r \in CallRecord /\ r.name = n /\ r.key = call[c].key /\ r.ended = call[c].ended
        /\ r.blind = Blind(c)
    BY <1>3, <2>2 DEF CallRecord
  <2> HIDE DEF r
  <2>4. ~r.blind /\ r.name \notin excused => \A i \in 1..Len(list) : list[i].name # r.name
    BY <1>2, <1>8, <2>3, WalkPasses
  <2>5. faults' = faults /\ pc[c] # "idle" /\ "create" \in PCs
    BY <1>2, <1>4, <1>8
  <2> QED BY <1>2, <1>5, <2>1, <2>3, <2>4, <2>5, CallSteps
<1>9. CASE ~call[c].ended /\ Matches(n, p) = {} /\ ~LastPage(p)
           /\ call' = [call EXCEPT ![c].page = p + 1, ![c].blind = Blind(c)]
           /\ UNCHANGED <<pc, faults>>
  <2> DEFINE r == [call[c] EXCEPT !.page = p + 1, !.blind = Blind(c)]
  <2>1. pc' = [pc EXCEPT ![c] = "lookup"] /\ call' = [call EXCEPT ![c] = r]
    BY <1>2, <1>9
  <2>2. p + 1 \in 1..MaxPages
    BY <1>3, <1>9, SnapshotAssumption DEF LastPage
  <2>3. /\ r \in CallRecord /\ r.name = n /\ r.key = call[c].key /\ r.ended = call[c].ended
        /\ r.blind = Blind(c) /\ r.page = p + 1
    BY <1>3, <2>2 DEF CallRecord
  <2> HIDE DEF r
  <2>4. r.page - 1 = p
    BY <1>3, <2>3
  <2>5. ~r.blind /\ r.name \notin excused =>
          \A i \in 1..Len(list) : i <= (r.page - 1) * server.cap => list[i].name # r.name
    BY <1>2, <1>9, <2>3, <2>4, WalkPasses
  <2>6. faults' = faults /\ pc[c] # "idle" /\ "lookup" \in PCs
    BY <1>2, <1>4, <1>9
  <2> QED BY <1>2, <1>5, <2>1, <2>3, <2>5, <2>6, CallSteps
<1> QED BY <1>2, <1>6, <1>7, <1>8, <1>9 DEF GetVolumeSnapshotByName, Walk, Goto

\* One page of a poll of waitSnapshotActive.
LEMMA PollKeeps ==
  ASSUME IInv, NEW c \in Calls, waitSnapshotActive(c)
  PROVE  IInv'
<1> DEFINE n == call[c].name
           p == call[c].page
<1>1. ListFits /\ CallsTyped /\ KeysHeld
  BY DEF IInv, Calling
<1>2. /\ pc[c] = "poll" /\ Unserved /\ UNCHANGED <<wish, holds, inFlight>>
      /\ pc \in [Calls -> PCs] /\ call \in [Calls -> CallRecord]
  BY <1>1 DEF waitSnapshotActive, Walk, CallsTyped
<1>3. /\ n \in Names /\ p \in 1..MaxPages /\ p \in Nat /\ call[c] \in CallRecord
      /\ Blind(c) \in BOOLEAN
  BY <1>1, <1>2, SnapshotAssumption DEF CallsTyped, CallRecord, KeysHeld, Blind
<1>4. pc[c] # "idle" /\ pc[c] \in Creating /\ {"ok", "poll", "err"} \subseteq PCs
  BY <1>2 DEF PCs, Creating
<1>5. ~call[c].ended /\ wish[n] = "create" => There(call[c].id, n)
  BY <1>2 DEF IInv, Wishing, Serves, ServesCall
<1>6. CASE pc' = [pc EXCEPT ![c] = "err"] /\ call' = call /\ (faults' = faults \/ Fault)
  BY <1>2, <1>6, CallFails
<1>7. CASE Matches(n, p) # {} /\ Goto(c, "poll", AfterPoll(First(n, p)))
           /\ call' = [call EXCEPT ![c].page = 1, ![c].blind = FALSE, ![c].id = call[c].id]
           /\ UNCHANGED faults
  <2> DEFINE to == AfterPoll(First(n, p))
             r == [call[c] EXCEPT !.page = 1, !.blind = FALSE, !.id = call[c].id]
  <2>1. pc' = [pc EXCEPT ![c] = to] /\ pc'[c] = to /\ to \in {"ok", "poll"}
    BY <1>2, <1>7 DEF Goto, AfterPoll
  <2>2. call' = [call EXCEPT ![c] = r]
    BY <1>2, <1>7, <2>1
  <2>3. 1 \in 1..MaxPages
    BY SnapshotAssumption
  <2> HIDE DEF to
  <2>4. /\ r \in CallRecord /\ r.name = n /\ r.key = call[c].key /\ r.ended = call[c].ended
        /\ r.id = call[c].id
    BY <1>3, <2>3 DEF CallRecord
  <2> HIDE DEF r
  <2>5. to \in PCs /\ to \notin {"idle", "delete", "lookup", "create"}
    BY <1>4, <2>1
  <2>6. ~r.ended /\ wish[r.name] = "create" => There(r.id, r.name)
    BY <1>5, <2>4
  <2>7. faults' = faults
    BY <1>7
  <2> QED BY <1>2, <1>4, <2>1, <2>2, <2>4, <2>5, <2>6, <2>7, CallSteps
<1>8. CASE Goto(c, "poll", "err") /\ call' = [call EXCEPT ![c].page = 1, ![c].blind = Blind(c)]
           /\ UNCHANGED faults
  <2> DEFINE r == [call[c] EXCEPT !.page = 1, !.blind = Blind(c)]
  <2>1. pc' = [pc EXCEPT ![c] = "err"] /\ call' = [call EXCEPT ![c] = r]
    BY <1>2, <1>8 DEF Goto
  <2>2. 1 \in 1..MaxPages
    BY SnapshotAssumption
  <2>3. r \in CallRecord /\ r.name = n /\ r.key = call[c].key /\ r.ended = call[c].ended
    BY <1>3, <2>2 DEF CallRecord
  <2> HIDE DEF r
  <2>4. faults' = faults /\ "err" \in PCs /\ "err" \notin Creating
    BY <1>4, <1>8 DEF Creating
  <2> QED BY <1>2, <1>4, <2>1, <2>3, <2>4, CallSteps
<1>9. CASE ~LastPage(p) /\ call' = [call EXCEPT ![c].page = p + 1, ![c].blind = Blind(c)]
           /\ UNCHANGED <<pc, faults>>
  <2> DEFINE r == [call[c] EXCEPT !.page = p + 1, !.blind = Blind(c)]
  <2>1. pc' = [pc EXCEPT ![c] = "poll"] /\ call' = [call EXCEPT ![c] = r]
    BY <1>2, <1>9
  <2>2. p + 1 \in 1..MaxPages
    BY <1>3, <1>9, SnapshotAssumption DEF LastPage
  <2>3. /\ r \in CallRecord /\ r.name = n /\ r.key = call[c].key /\ r.ended = call[c].ended
        /\ r.id = call[c].id
    BY <1>3, <2>2 DEF CallRecord
  <2> HIDE DEF r
  <2>4. faults' = faults /\ "poll" \in PCs
    BY <1>4, <1>9
  <2>5. ~r.ended /\ wish[r.name] = "create" => There(r.id, r.name)
    BY <1>5, <2>3
  <2> QED BY <1>2, <1>4, <2>1, <2>3, <2>4, <2>5, CallSteps
<1> QED BY <1>2, <1>6, <1>7, <1>8, <1>9 DEF waitSnapshotActive, Walk, Goto

\* A call comes in under a key that is free, when csi-snapshotter waits for no
\* other of the name.
LEMMA InsertKeeps ==
  ASSUME IInv, NEW c \in Calls, NEW n \in Names, CreateSnapshot(c, n) \/ DeleteSnapshot(c, n)
  PROVE  IInv'
<1>1. /\ ListFits /\ Counted /\ CallsTyped /\ KeysHeld /\ OneWaits /\ WishTyped /\ Held /\ Serves
      /\ NotPassed /\ Absent /\ NoTwins
  BY DEF IInv, Calling, Wishing, Looking
<1>2. PICK key \in {n, holds[n]}, first \in {"lookup", "delete"} :
        /\ Insert(c, n, key, first) /\ Alone(n)
        /\ \/ first = "lookup" /\ key = n /\ wish[n] = "create"
           \/ first = "delete" /\ key = holds[n] /\ wish[n] = "drop"
  BY DEF CreateSnapshot, DeleteSnapshot
<1>3. key \in Names \cup Ids
  <2>1. CASE key = n
    BY <2>1
  <2>2. CASE wish[n] = "drop" /\ key = holds[n]
    <3>1. holds[n] # 0 /\ holds[n] \in 0..MaxIds
      BY <1>1, <2>2 DEF Held, WishTyped
    <3>2. holds[n] \in Ids
      BY <3>1, SnapshotAssumption DEF Ids
    <3> QED BY <2>2, <3>2
  <2> QED BY <1>2, <2>1, <2>2
<1> DEFINE r == [NoCall EXCEPT !.name = n, !.key = key]
<1>4. /\ r \in CallRecord /\ r.name = n /\ r.key = key /\ r.ended = FALSE /\ r.page = 1
  <2>1. NoCall \in CallRecord /\ NoCall.ended = FALSE /\ NoCall.page = 1
    BY SnapshotAssumption DEF CallRecord, NoCall
  <2> QED BY <1>3, <2>1 DEF CallRecord
<1>5. /\ key \notin inFlight /\ inFlight' = inFlight \cup {key} /\ pc[c] = "idle"
      /\ pc' = [pc EXCEPT ![c] = first] /\ call' = [call EXCEPT ![c] = r]
      /\ Unserved /\ UNCHANGED <<wish, holds, faults>>
  BY <1>2 DEF Insert, Goto
<1> HIDE DEF r
<1>6. pc'[c] = first /\ call'[c] = r /\ \A d \in Calls : d # c => pc'[d] = pc[d] /\ call'[d] = call[d]
  BY <1>1, <1>5 DEF CallsTyped
<1>7. ListFits' /\ Counted'
  BY <1>1, <1>5, ListKeeps, CountedKeeps DEF Unserved
<1>8. CallsTyped'
  BY <1>1, <1>2, <1>3, <1>4, <1>5 DEF CallsTyped, PCs
<1>9. KeysHeld'
  BY <1>1, <1>4, <1>5, <1>6 DEF KeysHeld
<1>10. OneWaits'
  BY <1>1, <1>2, <1>4, <1>6 DEF OneWaits, Alone
<1>11. WishTyped' /\ Held'
  BY <1>1, <1>5 DEF WishTyped, Held, Unserved, There
<1>12. Serves'
  <2>1. UNCHANGED <<list, wish, holds>>
    BY <1>5 DEF Unserved
  <2>2. ServesCall(c)'
    BY <1>2, <1>4, <1>6, <2>1 DEF ServesCall, Creating
  <2>3. ASSUME NEW d \in Calls, d # c PROVE ServesCall(d)'
    <3>1. ServesCall(d) /\ pc'[d] = pc[d] /\ call'[d] = call[d]
      BY <1>1, <1>6, <2>3 DEF Serves
    <3> QED BY <2>1, <3>1 DEF ServesCall, There
  <2> QED BY <2>2, <2>3 DEF Serves
<1>13. NotPassed'
  <2>1. server' = server /\ list' = list /\ excused' = excused
    BY <1>5 DEF Unserved
  <2>2. \A i \in 1..Len(list) : ~(i <= (r.page - 1) * server.cap)
    BY <1>1, <1>4, SnapshotAssumption, LenProperties DEF ListFits
  <2> QED BY <1>1, <1>6, <2>1, <2>2 DEF NotPassed
<1>14. Absent' /\ NoTwins'
  BY <1>1, <1>2, <1>5, <1>6 DEF Absent, NoTwins, Unserved
<1> QED BY <1>7, <1>8, <1>9, <1>10, <1>11, <1>12, <1>13, <1>14 DEF IInv, Calling, Wishing, Looking

\* The answer, which csi-snapshotter hears while it waits: the snapshot it is
\* told of is there.
LEMMA ReturnKeeps ==
  ASSUME IInv, NEW c \in Calls, Return(c)
  PROVE  IInv'
<1> DEFINE n == call[c].name
           heard == pc[c] = "ok" /\ ~call[c].ended
           told == heard /\ wish[n] = "create"
<1>1. /\ ListFits /\ Counted /\ CallsTyped /\ KeysHeld /\ OneWaits /\ WishTyped /\ Held /\ Serves
      /\ NotPassed /\ Absent /\ NoTwins
  BY DEF IInv, Calling, Wishing, Looking
<1>2. /\ pc[c] \in {"ok", "err"} /\ pc' = [pc EXCEPT ![c] = "idle"]
      /\ inFlight' = inFlight \ {call[c].key} /\ call' = [call EXCEPT ![c] = NoCall]
      /\ wish' = IF ~heard THEN wish
                 ELSE [wish EXCEPT ![n] = IF @ = "create" THEN "made" ELSE "gone"]
      /\ holds' = IF told THEN [holds EXCEPT ![n] = call[c].id] ELSE holds
      /\ Unserved /\ UNCHANGED faults
  BY DEF Return
<1>3. /\ pc'[c] = "idle" /\ call'[c] = NoCall
      /\ \A d \in Calls : d # c => pc'[d] = pc[d] /\ call'[d] = call[d]
  BY <1>1, <1>2 DEF CallsTyped
<1>4. NoCall \in CallRecord /\ NoCall.name = NoName
  BY SnapshotAssumption DEF CallRecord, NoCall
<1>5. n \in Names /\ call[c] \in CallRecord
  BY <1>1, <1>2 DEF KeysHeld, CallsTyped
<1>6. ListFits' /\ Counted'
  BY <1>1, <1>2, ListKeeps, CountedKeeps DEF Unserved
<1>7. CallsTyped'
  BY <1>1, <1>2, <1>4 DEF CallsTyped, PCs
<1>8. KeysHeld'
  BY <1>1, <1>2, <1>3 DEF KeysHeld
<1>9. OneWaits'
  BY <1>1, <1>3, <1>4, SnapshotAssumption DEF OneWaits
<1>10. told => There(call[c].id, n)
  BY <1>1 DEF Serves, ServesCall
<1>11. UNCHANGED <<list, lastId>>
  BY <1>2 DEF Unserved
<1>12. told => call[c].id \in Ids /\ call[c].id <= lastId /\ call[c].id # 0
  <2>1. ASSUME NEW i \in 1..Len(list) PROVE list[i].id \in Ids /\ list[i].id <= lastId
    <3>1. list[i] \in Snapshot
      BY <1>1, ElementOfSeq DEF ListFits
    <3> QED BY <1>1, <3>1 DEF ListFits, Snapshot
  <2>2. 0 \notin Ids
    BY DEF Ids
  <2> QED BY <1>10, <2>1, <2>2 DEF There
<1>13. WishTyped'
  <2>1. told => call[c].id \in 0..MaxIds
    BY <1>12 DEF Ids
  <2>2. wish' \in [Names -> {"create", "made", "drop", "gone"}]
    BY <1>1, <1>2, <1>5 DEF WishTyped
  <2>3. holds' \in [Names -> 0..MaxIds]
    BY <1>1, <1>2, <1>5, <2>1 DEF WishTyped
  <2>4. \A m \in Names : holds'[m] <= lastId
    BY <1>1, <1>2, <1>5, <1>12 DEF WishTyped
  <2> QED BY <1>11, <2>2, <2>3, <2>4 DEF WishTyped
<1>14. \A m \in Names : m # n => wish'[m] = wish[m] /\ holds'[m] = holds[m]
  BY <1>1, <1>2, <1>5 DEF WishTyped
<1>15. /\ told => wish'[n] = "made" /\ holds'[n] = call[c].id
       /\ heard /\ ~told => wish'[n] = "gone" /\ holds'[n] = holds[n]
       /\ ~heard => wish'[n] = wish[n] /\ holds'[n] = holds[n]
  BY <1>1, <1>2, <1>5 DEF WishTyped
<1> HIDE DEF n, heard, told
<1>16. Held'
  <2> SUFFICES ASSUME NEW m \in Names
               PROVE  /\ wish'[m] \in {"made", "drop"} => holds'[m] # 0
                      /\ \A i \in 1..Len(list) : list[i].id = holds'[m] => list[i].name = m
                      /\ wish'[m] = "made" =>
                           \E i \in 1..Len(list) : list[i].id = holds'[m] /\ list[i].name = m
    BY <1>11 DEF Held, There
  <2>1. CASE m = n /\ told
    <3>1. PICK i \in 1..Len(list) : list[i].id = call[c].id /\ list[i].name = n
      BY <1>10, <2>1 DEF There
    <3>2. \A j \in 1..Len(list) : list[j].id = call[c].id => j = i
      BY <1>1, <3>1 DEF ListFits
    <3> QED BY <1>12, <1>15, <2>1, <3>1, <3>2
  <2>2. CASE ~(m = n /\ told)
    BY <1>1, <1>14, <1>15, <2>2 DEF Held, There, told
  <2> QED BY <2>1, <2>2
<1>17. Serves'
  <2>1. ServesCall(c)'
    BY <1>3 DEF ServesCall, Creating
  <2>2. ASSUME NEW d \in Calls, d # c PROVE ServesCall(d)'
    <3>1. ServesCall(d) /\ pc'[d] = pc[d] /\ call'[d] = call[d]
      BY <1>1, <1>3, <2>2 DEF Serves
    <3>2. CASE pc[d] = "idle" \/ pc[d] = "err"
      BY <3>1, <3>2 DEF ServesCall, Creating
    <3>3. CASE pc[d] # "idle" /\ (heard /\ call[d].name = n => call[d].ended)
      <4>1. call[d].name \in Names
        BY <1>1, <3>3 DEF KeysHeld
      <4>2. ~call[d].ended => wish'[call[d].name] = wish[call[d].name]
                              /\ holds'[call[d].name] = holds[call[d].name]
        BY <1>14, <1>15, <3>3, <4>1 DEF told
      <4> QED BY <1>11, <3>1, <4>2 DEF ServesCall, There
    <3>4. heard /\ call[d].name = n => call[d].ended
      BY <1>1, <1>5, <2>2 DEF OneWaits, heard, n
    <3> QED BY <3>2, <3>3, <3>4
  <2> QED BY <2>1, <2>2 DEF Serves
<1>18. NotPassed' /\ Absent' /\ NoTwins'
  BY <1>1, <1>2, <1>3 DEF NotPassed, Absent, NoTwins, Unserved
<1> QED BY <1>6, <1>7, <1>8, <1>9, <1>13, <1>16, <1>17, <1>18 DEF IInv, Calling, Wishing, Looking

\* csi-snapshotter drops a snapshot that it was told of.
LEMMA DropKeeps ==
  ASSUME IInv, NEW n \in Names, Drop(n)
  PROVE  IInv'
<1>1. /\ ListFits /\ Counted /\ CallsTyped /\ KeysHeld /\ OneWaits /\ WishTyped /\ Held /\ Serves
      /\ NotPassed /\ Absent /\ NoTwins
  BY DEF IInv, Calling, Wishing, Looking
<1>2. /\ wish[n] = "made" /\ wish' = [wish EXCEPT ![n] = "drop"] /\ Unserved
      /\ holds' = holds /\ inFlight' = inFlight /\ pc' = pc /\ call' = call /\ faults' = faults
  BY DEF Drop
<1>3. wish'[n] = "drop" /\ \A m \in Names : m # n => wish'[m] = wish[m]
  BY <1>1, <1>2 DEF WishTyped
<1>4. ListFits' /\ Counted'
  BY <1>1, <1>2, ListKeeps, CountedKeeps DEF Unserved
<1>5. CallsTyped' /\ KeysHeld' /\ OneWaits'
  BY <1>1, <1>2 DEF CallsTyped, KeysHeld, OneWaits
<1>6. WishTyped'
  BY <1>1, <1>2 DEF WishTyped, Unserved
<1>7. Held'
  BY <1>1, <1>2, <1>3 DEF Held, There, Unserved
<1>8. ASSUME NEW d \in Calls PROVE ServesCall(d)'
  <2>1. ServesCall(d) /\ list' = list
    BY <1>1, <1>2 DEF Serves, Unserved
  <2>2. pc[d] # "idle" => call[d].name \in Names
    BY <1>1 DEF KeysHeld
  <2>3. CASE pc[d] = "idle"
    BY <1>2, <2>3 DEF ServesCall, Creating
  <2>4. CASE pc[d] # "idle"
    BY <1>2, <1>3, <2>1, <2>2, <2>4 DEF ServesCall, There
  <2> QED BY <2>3, <2>4
<1>9. NotPassed' /\ Absent' /\ NoTwins'
  BY <1>1, <1>2 DEF NotPassed, Absent, NoTwins, Unserved
<1> QED BY <1>4, <1>5, <1>6, <1>7, <1>8, <1>9 DEF IInv, Calling, Wishing, Looking, Serves

-----------------------------------------------------------------------------
(* The steps of vServer. *)

\* A new snapshot has a new id, and takes nothing away.
LEMMA MakeKeeps ==
  ASSUME IInv, NEW n \in Names, Make(n), UNCHANGED <<server, wish, holds>>
  PROVE  /\ ListFits' /\ WishTyped' /\ Held'
         /\ \A id, m : There(id, m) => \E i \in 1..Len(list') : list'[i].id = id /\ list'[i].name = m
<1>1. ListFits /\ WishTyped /\ Held
  BY DEF IInv, Wishing
<1> DEFINE new == Len(list) + 1
<1>2. /\ list' \in Seq(Snapshot) /\ Len(list) \in Nat /\ Len(list') = new
      /\ \A i \in 1..Len(list) : list'[i] = list[i]
      /\ list'[new].id = lastId + 1 /\ list'[new].name = n
      /\ lastId' = lastId + 1 /\ lastId' \in 0..MaxIds /\ lastId \in Nat
  BY <1>1, MakeList
<1>3. \A i \in 1..Len(list') : i \in 1..Len(list) \/ i = new
  BY <1>2
<1>4. \A i \in 1..Len(list) : i \in 1..Len(list')
  BY <1>2
<1> HIDE DEF new
<1>5. \A i \in 1..Len(list) : list[i].id \in Nat /\ list[i].id <= lastId /\ list[i].id # lastId + 1
  <2>1. ASSUME NEW i \in 1..Len(list) PROVE list[i].id \in Nat /\ list[i].id <= lastId
    <3>1. list[i] \in Snapshot
      BY <1>1, ElementOfSeq DEF ListFits
    <3> QED BY <1>1, <3>1 DEF ListFits, Snapshot, Ids
  <2> QED BY <1>2, <2>1
<1>6. ListFits'
  <2>1. \A i, j \in 1..Len(list') : list'[i].id = list'[j].id => i = j
    BY <1>1, <1>2, <1>3, <1>5 DEF ListFits
  <2>2. \A i \in 1..Len(list') : list'[i].id <= lastId'
    BY <1>2, <1>3, <1>5
  <2> QED BY <1>1, <1>2, <2>1, <2>2 DEF ListFits
<1>7. WishTyped'
  BY <1>1, <1>2 DEF WishTyped
<1>8. \A id, m : There(id, m) => \E i \in 1..Len(list') : list'[i].id = id /\ list'[i].name = m
  BY <1>2, <1>4 DEF There
<1>9. Held'
  <2>1. \A m \in Names : holds[m] # lastId + 1
    BY <1>1, <1>2 DEF WishTyped
  <2>2. \A m \in Names : \A i \in 1..Len(list') : list'[i].id = holds[m] => list'[i].name = m
    BY <1>1, <1>2, <1>3, <2>1 DEF Held
  <2>3. \A m \in Names : wish[m] = "made" =>
          \E i \in 1..Len(list') : list'[i].id = holds[m] /\ list'[i].name = m
    BY <1>1, <1>8 DEF Held
  <2>4. \A m \in Names : wish[m] \in {"made", "drop"} => holds[m] # 0
    BY <1>1 DEF Held
  <2> QED BY <2>2, <2>3, <2>4 DEF Held, There
<1> QED BY <1>6, <1>7, <1>8, <1>9

\* A new snapshot of n is neither a second one nor one that a walk passed,
\* unless there is an excuse.
LEMMA MakeLooks ==
  ASSUME IInv, NEW n \in Names, Make(n), server' = server, excused \subseteq excused',
         n \in excused' \/ \A i \in 1..Len(list) : list[i].name # n,
         \A d \in Calls : pc'[d] \in {"lookup", "create"} =>
           /\ pc'[d] = pc[d] /\ call'[d] = call[d]
           /\ call[d].name = n => n \in excused'
  PROVE  Looking'
<1>1. ListFits /\ NotPassed /\ Absent /\ NoTwins
  BY DEF IInv, Looking
<1> DEFINE new == Len(list) + 1
<1>2. /\ Len(list) \in Nat /\ Len(list') = new
      /\ \A i \in 1..Len(list) : list'[i] = list[i]
      /\ list'[new].name = n
  BY <1>1, MakeList
<1>3. \A i \in 1..Len(list') : i \in 1..Len(list) \/ i = new
  BY <1>2
<1> HIDE DEF new
<1>4. NotPassed'
  BY <1>1, <1>2, <1>3 DEF NotPassed
<1>5. Absent'
  BY <1>1, <1>2, <1>3 DEF Absent
<1>6. NoTwins'
  BY <1>1, <1>2, <1>3 DEF NoTwins
<1> QED BY <1>4, <1>5, <1>6 DEF Looking

\* vServer carries out a create that was given up.
LEMMA LateCreateKeeps ==
  ASSUME IInv, NEW n \in Names, LateCreate(n)
  PROVE  IInv'
<1>1. Counted /\ Calling /\ Serves
  BY DEF IInv, Wishing
<1>2. /\ pending[n] > 0 /\ Make(n) /\ pending' = [pending EXCEPT ![n] = @ - 1]
      /\ excused' = excused \cup {n}
      /\ UNCHANGED <<server, wish, holds, inFlight, pc, call, faults>>
  BY DEF LateCreate
<1>3. /\ ListFits' /\ WishTyped' /\ Held'
      /\ \A id, m : There(id, m) => \E i \in 1..Len(list') : list'[i].id = id /\ list'[i].name = m
  BY <1>2, MakeKeeps
<1>4. Counted'
  <2>1. \A m \in Names : pending[m] \in Nat /\ pending[m] <= faults /\ faults \in Nat
    BY <1>1, SnapshotAssumption DEF Counted
  <2>2. pending[n] - 1 \in Nat /\ pending[n] - 1 <= faults
    BY <1>2, <2>1
  <2>3. pending' \in [Names -> Nat]
    BY <1>1, <1>2, <2>2 DEF Counted
  <2>4. \A m \in Names : pending'[m] <= faults
    BY <1>1, <1>2, <2>1, <2>2 DEF Counted
  <2> QED BY <1>1, <1>2, <2>3, <2>4 DEF Counted
<1>5. Calling'
  BY <1>1, <1>2 DEF Calling, CallsTyped, KeysHeld, OneWaits
<1>6. ASSUME NEW d \in Calls PROVE ServesCall(d)'
  <2>1. ServesCall(d)
    BY <1>1 DEF Serves
  <2>2. There(call[d].id, call[d].name) =>
          \E i \in 1..Len(list') : list'[i].id = call[d].id /\ list'[i].name = call[d].name
    BY <1>3
  <2> QED BY <1>2, <2>1, <2>2 DEF ServesCall, There
<1>7. Looking'
  BY <1>2, MakeLooks
<1> QED BY <1>3, <1>4, <1>5, <1>6, <1>7 DEF IInv, Wishing, Serves

\* The create: a walk led to it, so it makes the first snapshot of the name
\* unless it was blind, which is an excuse.
LEMMA CreateKeeps ==
  ASSUME IInv, NEW c \in Calls, CreateSnapshotFromVolume(c)
  PROVE  IInv'
<1> DEFINE n == call[c].name
           id == IF pc'[c] = "poll" THEN lastId + 1 ELSE call[c].id
           r == [call[c] EXCEPT !.blind = FALSE, !.id = id]
<1>1. /\ ListFits /\ Counted /\ CallsTyped /\ KeysHeld /\ OneWaits /\ WishTyped /\ Held /\ Serves
      /\ NotPassed /\ Absent /\ NoTwins
  BY DEF IInv, Calling, Wishing, Looking
<1>2. /\ pc[c] = "create" /\ UNCHANGED <<server, wish, holds, inFlight>>
      /\ excused' = IF call[c].blind THEN excused \cup {n} ELSE excused
      /\ call' = [call EXCEPT ![c] = r]
      /\ Make(n) \/ UNCHANGED <<list, lastId>>
  BY DEF CreateSnapshotFromVolume
<1>3. PICK to \in {"poll", "err"} : pc' = [pc EXCEPT ![c] = to] /\ (to = "poll" => Make(n))
  BY DEF CreateSnapshotFromVolume, Goto
<1>4. n \in Names /\ call[c] \in CallRecord /\ call[c].key = n
  BY <1>1, <1>2 DEF KeysHeld, CallsTyped, Serves, ServesCall, Creating
<1>5. /\ r \in CallRecord /\ r.name = n /\ r.key = call[c].key /\ r.ended = call[c].ended
      /\ r.id = id /\ (to = "poll" => id = lastId + 1)
  <2>1. pc'[c] = to
    BY <1>1, <1>3 DEF CallsTyped
  <2>2. id \in 0..MaxIds
    BY <1>1, <1>3, <1>4, <2>1, SnapshotAssumption DEF CallRecord, ListFits, Make
  <2>3. to = "poll" => id = lastId + 1
    BY <2>1
  <2> HIDE DEF id
  <2> QED BY <1>4, <2>2, <2>3 DEF CallRecord
<1>6. \A d \in Calls : /\ d # c => pc'[d] = pc[d] /\ call'[d] = call[d]
                       /\ pc'[c] = to /\ call'[c] = r
  BY <1>1, <1>2, <1>3 DEF CallsTyped
<1> HIDE DEF r, id, n
<1>7. Counted'
  <2>1. \/ pending' = pending /\ (faults' = faults \/ Fault)
        \/ pending' = [pending EXCEPT ![n] = @ + 1] /\ Fault
    BY DEF CreateSnapshotFromVolume, n
  <2>2. \A m \in Names : pending[m] \in Nat /\ pending[m] <= faults
    BY <1>1 DEF Counted
  <2>3. faults \in Nat /\ faults' \in 0..MaxFaults /\ (faults' = faults \/ faults' = faults + 1)
    BY <1>1, <2>1, SnapshotAssumption DEF Counted, Fault
  <2>4. excused' \subseteq Names
    BY <1>1, <1>2, <1>4 DEF Counted
  <2>5. CASE pending' = pending
    <3>1. \A m \in Names : pending[m] <= faults'
      BY <2>2, <2>3
    <3> QED BY <1>1, <2>3, <2>4, <2>5, <3>1 DEF Counted
  <2>6. CASE pending' = [pending EXCEPT ![n] = @ + 1] /\ Fault
    <3>1. faults' = faults + 1
      BY <2>6 DEF Fault
    <3>2. pending' \in [Names -> Nat]
      <4>1. pending[n] + 1 \in Nat
        BY <1>4, <2>2
      <4> QED BY <1>1, <2>6, <4>1 DEF Counted
    <3>3. \A m \in Names : pending'[m] = IF m = n THEN pending[m] + 1 ELSE pending[m]
      BY <1>1, <2>6 DEF Counted
    <3>4. \A m \in Names : pending'[m] <= faults'
      BY <2>2, <2>3, <3>1, <3>3
    <3> QED BY <2>3, <2>4, <3>2, <3>4 DEF Counted
  <2> QED BY <2>1, <2>5, <2>6
<1>8. CallsTyped'
  BY <1>1, <1>2, <1>3, <1>5 DEF CallsTyped, PCs
<1>9. KeysHeld' /\ OneWaits'
  <2>1. KeysHeld'
    BY <1>1, <1>2, <1>3, <1>5, <1>6 DEF KeysHeld, n
  <2>2. OneWaits'
    BY <1>1, <1>5, <1>6 DEF OneWaits, n
  <2> QED BY <2>1, <2>2
<1>10. ASSUME NEW d \in Calls,
              \A k, m : There(k, m) => \E i \in 1..Len(list') : list'[i].id = k /\ list'[i].name = m,
              to = "poll" => \E i \in 1..Len(list') : list'[i].id = lastId + 1 /\ list'[i].name = n
       PROVE  ServesCall(d)'
  <2>1. ServesCall(d)
    BY <1>1 DEF Serves
  <2>2. There(call[d].id, call[d].name) =>
          \E i \in 1..Len(list') : list'[i].id = call[d].id /\ list'[i].name = call[d].name
    BY <1>10
  <2>3. CASE d = c
    BY <1>2, <1>3, <1>5, <1>6, <1>10, <2>1, <2>3 DEF ServesCall, There, Creating, n
  <2>4. CASE d # c
    BY <1>2, <1>6, <2>1, <2>2, <2>4 DEF ServesCall, There
  <2> QED BY <2>3, <2>4
<1>11. \A d \in Calls : pc'[d] \in {"lookup", "create"} =>
         pc'[d] = pc[d] /\ call'[d] = call[d] /\ call[d].name # n
  <2> SUFFICES ASSUME NEW d \in Calls, pc'[d] \in {"lookup", "create"}
               PROVE  pc'[d] = pc[d] /\ call'[d] = call[d] /\ call[d].name # n
    OBVIOUS
  <2>1. d # c /\ pc'[d] = pc[d] /\ call'[d] = call[d]
    BY <1>3, <1>6
  <2>2. call[d].key = call[d].name
    BY <1>1, <2>1 DEF Serves, ServesCall, Creating
  <2>3. call[d].key # call[c].key
    BY <1>1, <1>2, <2>1 DEF KeysHeld
  <2> QED BY <1>4, <2>1, <2>2, <2>3
<1>12. CASE Make(n)
  <2>1. /\ ListFits' /\ WishTyped' /\ Held'
        /\ \A k, m : There(k, m) => \E i \in 1..Len(list') : list'[i].id = k /\ list'[i].name = m
    BY <1>2, <1>4, <1>12, MakeKeeps
  <2>2. n \in excused' \/ \A i \in 1..Len(list) : list[i].name # n
    BY <1>1, <1>2 DEF Absent, n
  <2>3. excused \subseteq excused'
    BY <1>2
  <2>4. Looking'
    BY <1>2, <1>4, <1>11, <1>12, <2>2, <2>3, MakeLooks
  <2>5. \E i \in 1..Len(list') : list'[i].id = lastId + 1 /\ list'[i].name = n
    <3>1. /\ Len(list) \in Nat /\ Len(list') = Len(list) + 1
          /\ list'[Len(list) + 1].id = lastId + 1 /\ list'[Len(list) + 1].name = n
      BY <1>1, <1>4, <1>12, MakeList
    <3>2. Len(list) + 1 \in 1..Len(list')
      BY <3>1
    <3> QED BY <3>1, <3>2
  <2>6. Serves'
    BY <1>10, <2>1, <2>5 DEF Serves
  <2> QED BY <1>7, <1>8, <1>9, <2>1, <2>4, <2>6 DEF IInv, Calling, Wishing
<1>13. CASE UNCHANGED <<list, lastId>> /\ to # "poll"
  <2>1. ListFits' /\ WishTyped' /\ Held'
    BY <1>1, <1>2, <1>13 DEF ListFits, WishTyped, Held, There
  <2>2. Serves'
    BY <1>10, <1>13 DEF Serves, There
  <2>3. Looking'
    BY <1>1, <1>2, <1>11, <1>13 DEF Looking, NotPassed, Absent, NoTwins
  <2> QED BY <1>7, <1>8, <1>9, <2>1, <2>2, <2>3 DEF IInv, Calling, Wishing
<1> QED BY <1>2, <1>3, <1>12, <1>13

\* An activation.
LEMMA ActivateKeeps ==
  ASSUME IInv, NEW k \in 1..Len(list), Activate(k)
  PROVE  IInv'
<1>1. ListFits /\ Counted /\ Calling /\ WishTyped /\ Held /\ Serves /\ NotPassed /\ Absent /\ NoTwins
  BY DEF IInv, Wishing, Looking
<1>2. UNCHANGED <<server, lastId, wish, holds, inFlight, pc, call, pending, excused, faults>>
  BY DEF Activate
<1>3. /\ list' \in Seq(Snapshot) /\ Len(list) \in Nat /\ Len(list') = Len(list)
      /\ \A i \in 1..Len(list) : list'[i].id = list[i].id /\ list'[i].name = list[i].name
  BY <1>1, ActivateList
<1>4. ListFits'
  BY <1>1, <1>2, <1>3 DEF ListFits
<1>5. Counted' /\ Calling'
  BY <1>1, <1>2 DEF Counted, Calling, CallsTyped, KeysHeld, OneWaits
<1>6. WishTyped' /\ Held'
  BY <1>1, <1>2, <1>3 DEF WishTyped, Held, There
<1>7. ASSUME NEW d \in Calls PROVE ServesCall(d)'
  <2>1. ServesCall(d)
    BY <1>1 DEF Serves
  <2> QED BY <1>2, <1>3, <2>1 DEF ServesCall, There
<1>8. Looking'
  BY <1>1, <1>2, <1>3 DEF Looking, NotPassed, Absent, NoTwins
<1> QED BY <1>4, <1>5, <1>6, <1>7, <1>8 DEF IInv, Wishing, Serves

\* A snapshot leaves the list, and what comes after it moves up: the others
\* stay there, and the walks that have passed it go blind.
LEMMA RemoveLooks ==
  ASSUME IInv, NEW id, Remove(id), UNCHANGED <<server, excused>>,
         \A d \in Calls : pc'[d] \in {"lookup", "create"} => pc'[d] = pc[d]
  PROVE  /\ list' \in Seq(Snapshot)
         /\ \A i, j \in 1..Len(list') : list'[i].id = list'[j].id => i = j
         /\ \A i \in 1..Len(list') : \E j \in 1..Len(list) : list'[i] = list[j]
         /\ \A j \in 1..Len(list) : list[j].id # id => \E i \in 1..Len(list') : list'[i] = list[j]
         /\ Looking'
<1>1. ListFits /\ CallsTyped /\ NotPassed /\ Absent /\ NoTwins
  BY DEF IInv, Calling, Looking
<1> DEFINE passes(d) == \E i \in Place(id) : i <= (call[d].page - 1) * server.cap
           blinded(d) == call[d].blind \/ (pc[d] = "lookup" /\ passes(d))
<1>2. \A d \in Calls : call'[d] = [call[d] EXCEPT !.blind = blinded(d)]
  BY DEF Remove
<1>3. ASSUME NEW d \in Calls
      PROVE  /\ call'[d].name = call[d].name /\ call'[d].page = call[d].page
             /\ call'[d].blind = blinded(d)
             /\ ~call'[d].blind => ~call[d].blind
  <2>1. ~blinded(d) => ~call[d].blind
    OBVIOUS
  <2>2. call[d] \in CallRecord /\ call'[d] = [call[d] EXCEPT !.blind = blinded(d)]
    BY <1>1, <1>2 DEF CallsTyped
  <2> HIDE DEF blinded
  <2>3. /\ call'[d].name = call[d].name /\ call'[d].page = call[d].page
        /\ call'[d].blind = blinded(d)
    BY <2>2 DEF CallRecord
  <2> QED BY <2>1, <2>3
<1>4. CASE Place(id) = {} /\ list' = list
  <2>1. ASSUME NEW d \in Calls PROVE blinded(d) = call[d].blind
    BY <1>1, <1>4 DEF CallsTyped, CallRecord
  <2> HIDE DEF blinded
  <2>2. NotPassed' /\ Absent' /\ NoTwins'
    BY <1>1, <1>3, <1>4, <2>1 DEF NotPassed, Absent, NoTwins
  <2> QED BY <1>1, <1>4, <2>2 DEF ListFits, Looking
<1>5. CASE \E k \in 1..Len(list) :
             /\ list[k].id = id
             /\ list' \in Seq(Snapshot) /\ Len(list) \in Nat /\ Len(list') = Len(list) - 1
             /\ \A i \in 1..Len(list') : list'[i] = list[IF i < k THEN i ELSE i + 1]
  <2> PICK k \in 1..Len(list) :
             /\ list[k].id = id
             /\ list' \in Seq(Snapshot) /\ Len(list) \in Nat /\ Len(list') = Len(list) - 1
             /\ \A i \in 1..Len(list') : list'[i] = list[IF i < k THEN i ELSE i + 1]
    BY <1>5
  <2> DEFINE old(i) == IF i < k THEN i ELSE i + 1
  <2>1. \A i \in 1..Len(list') : old(i) \in 1..Len(list) /\ list'[i] = list[old(i)]
    OBVIOUS
  <2>2. \A i, j \in 1..Len(list') : old(i) = old(j) => i = j
    OBVIOUS
  <2>3. \A j \in 1..Len(list) : j # k => \E i \in 1..Len(list') : old(i) = j
    <3> SUFFICES ASSUME NEW j \in 1..Len(list), j # k
                 PROVE  \E i \in 1..Len(list') : old(i) = j
      OBVIOUS
    <3>1. CASE j < k
      <4>1. j \in 1..Len(list') /\ old(j) = j
        BY <3>1
      <4> QED BY <4>1
    <3>2. CASE ~(j < k)
      <4>1. j - 1 \in 1..Len(list') /\ old(j - 1) = j
        BY <3>2
      <4> QED BY <4>1
    <3> QED BY <3>1, <3>2
  <2>4. \A i \in 1..Len(list'), a \in Nat : i <= a /\ a < k => old(i) = i
    OBVIOUS
  <2> HIDE DEF old
  <2>5. NoTwins' /\ \A i, j \in 1..Len(list') : list'[i].id = list'[j].id => i = j
    <3>1. ASSUME NEW i \in 1..Len(list'), NEW j \in 1..Len(list')
          PROVE  /\ list'[i].id = list'[j].id => i = j
                 /\ list'[i].name = list'[j].name /\ list'[i].name \in Names \ excused => i = j
      <4>1. /\ old(i) \in 1..Len(list) /\ old(j) \in 1..Len(list)
            /\ list'[i] = list[old(i)] /\ list'[j] = list[old(j)]
        BY <2>1
      <4> QED BY <1>1, <2>2, <4>1 DEF NoTwins, ListFits
    <3> QED BY <3>1 DEF NoTwins
  <2>6. Absent'
    <3> SUFFICES ASSUME NEW d \in Calls, pc'[d] = "create", ~call'[d].blind,
                        call[d].name \notin excused, NEW i \in 1..Len(list')
                 PROVE  list'[i].name # call[d].name
      BY <1>3 DEF Absent
    <3>1. pc[d] = "create" /\ ~call[d].blind
      BY <1>3
    <3>2. old(i) \in 1..Len(list) /\ list'[i] = list[old(i)]
      BY <2>1
    <3> QED BY <1>1, <3>1, <3>2 DEF Absent
  <2>7. NotPassed'
    <3> SUFFICES ASSUME NEW d \in Calls, pc'[d] = "lookup", ~call'[d].blind,
                        call[d].name \notin excused, NEW i \in 1..Len(list'),
                        i <= (call[d].page - 1) * server.cap
                 PROVE  list'[i].name # call[d].name
      BY <1>3 DEF NotPassed
    <3>1. pc[d] = "lookup" /\ ~call[d].blind /\ ~passes(d)
      BY <1>3
    <3>2. (call[d].page - 1) * server.cap \in Nat
      BY <1>1, PagePlaces DEF CallsTyped, CallRecord
    <3>3. k \in Place(id)
      BY DEF Place
    <3>4. (call[d].page - 1) * server.cap < k
      BY <3>1, <3>2, <3>3
    <3>5. old(i) = i
      BY <2>4, <3>2, <3>4
    <3> QED BY <1>1, <2>1, <3>1, <3>5 DEF NotPassed
  <2>8. \A j \in 1..Len(list) : list[j].id # id => \E i \in 1..Len(list') : list'[i] = list[j]
    BY <2>1, <2>3
  <2> QED BY <2>1, <2>5, <2>6, <2>7, <2>8 DEF Looking
<1> QED BY <1>1, <1>4, <1>5, RemoveList

\* The delete takes the snapshot that its name was told, and no other name's.
LEMMA DeleteKeeps ==
  ASSUME IInv, NEW c \in Calls, CloudDeleteSnapshot(c)
  PROVE  IInv'
<1> DEFINE m == call[c].name
           id == call[c].key
<1>1. /\ ListFits /\ Counted /\ CallsTyped /\ KeysHeld /\ OneWaits /\ WishTyped /\ Held /\ Serves
  BY DEF IInv, Calling, Wishing
<1>2. pc[c] = "delete" /\ UNCHANGED <<server, lastId, wish, holds, inFlight, pending, excused>>
  BY DEF CloudDeleteSnapshot
<1>3. PICK to \in {"ok", "err"} : pc' = [pc EXCEPT ![c] = to] /\ (faults' = faults \/ Fault)
  BY DEF CloudDeleteSnapshot, Goto
<1>4. CASE UNCHANGED <<list, call>> /\ Goto(c, "delete", "err")
  BY <1>2, <1>3, <1>4, CallFails DEF Unserved, Goto, CloudDeleteSnapshot
<1>5. CASE Remove(id)
  <2>1. m \in Names /\ id = holds[m] /\ wish[m] = "drop"
    BY <1>1, <1>2 DEF KeysHeld, Serves, ServesCall
  <2>2. \A d \in Calls : pc'[d] = IF d = c THEN to ELSE pc[d]
    BY <1>1, <1>3 DEF CallsTyped
  <2>3. \A d \in Calls : pc'[d] \in {"lookup", "create"} => pc'[d] = pc[d]
    BY <1>3, <2>2
  <2>4. /\ list' \in Seq(Snapshot)
        /\ \A i, j \in 1..Len(list') : list'[i].id = list'[j].id => i = j
        /\ \A i \in 1..Len(list') : \E j \in 1..Len(list) : list'[i] = list[j]
        /\ \A j \in 1..Len(list) : list[j].id # id => \E i \in 1..Len(list') : list'[i] = list[j]
        /\ Looking'
    BY <1>2, <1>5, <2>3, RemoveLooks
  <2>5. ASSUME NEW d \in Calls
        PROVE  /\ call'[d] \in CallRecord
               /\ call'[d].name = call[d].name /\ call'[d].key = call[d].key
               /\ call'[d].ended = call[d].ended /\ call'[d].id = call[d].id
    <3> DEFINE blinded == call[d].blind \/ /\ pc[d] = "lookup"
                                           /\ \E i \in Place(id) : i <= (call[d].page - 1) * server.cap
    <3>1. call[d] \in CallRecord /\ blinded \in BOOLEAN
      BY <1>1 DEF CallsTyped, CallRecord
    <3>2. call'[d] = [call[d] EXCEPT !.blind = blinded]
      BY <1>5 DEF Remove
    <3> HIDE DEF blinded
    <3> QED BY <3>1, <3>2 DEF CallRecord
  <2>6. CallsTyped'
    <3>1. call' \in [Calls -> CallRecord]
      BY <1>5, <2>5 DEF Remove
    <3> QED BY <1>1, <1>2, <1>3, <3>1 DEF CallsTyped, PCs
  <2>7. KeysHeld' /\ OneWaits'
    BY <1>1, <1>2, <1>3, <2>2, <2>5 DEF KeysHeld, OneWaits
  <2>8. ListFits' /\ Counted' /\ WishTyped'
    <3>1. ListFits'
      BY <1>1, <1>2, <2>4 DEF ListFits
    <3>2. Counted' /\ WishTyped'
      BY <1>1, <1>2, <1>3, CountedKeeps DEF WishTyped
    <3> QED BY <3>1, <3>2
  <2>9. ASSUME NEW n \in Names, NEW s, n # m, There(s, n)
        PROVE  \E i \in 1..Len(list') : list'[i].id = s /\ list'[i].name = n
    <3>1. PICK j \in 1..Len(list) : list[j].id = s /\ list[j].name = n
      BY <2>9 DEF There
    <3>2. list[j].id # id
      BY <1>1, <2>1, <2>9, <3>1 DEF Held
    <3>3. PICK i \in 1..Len(list') : list'[i] = list[j]
      BY <2>4, <3>2
    <3> QED BY <3>1, <3>3
  <2>10. Held'
    <3>1. \A n \in Names : \A i \in 1..Len(list') : list'[i].id = holds[n] => list'[i].name = n
      BY <1>1, <2>4 DEF Held
    <3>2. \A n \in Names : wish[n] = "made" =>
            \E i \in 1..Len(list') : list'[i].id = holds[n] /\ list'[i].name = n
      BY <1>1, <2>1, <2>9 DEF Held
    <3>3. \A n \in Names : wish[n] \in {"made", "drop"} => holds[n] # 0
      BY <1>1 DEF Held
    <3> QED BY <1>2, <3>1, <3>2, <3>3 DEF Held, There
  <2>11. ASSUME NEW d \in Calls PROVE ServesCall(d)'
    <3>1. ServesCall(d)
      BY <1>1 DEF Serves
    <3>2. CASE d = c
      BY <1>2, <1>3, <2>1, <2>2, <2>5, <3>2 DEF ServesCall, Creating
    <3>3. CASE d # c
      <4>1. pc'[d] = pc[d]
        BY <2>2, <3>3
      <4>2. pc[d] \in {"poll", "ok"} /\ wish[call[d].name] = "create" /\ There(call[d].id, call[d].name) =>
              \E i \in 1..Len(list') : list'[i].id = call[d].id /\ list'[i].name = call[d].name
        BY <1>1, <2>1, <2>9 DEF KeysHeld
      <4> QED BY <1>2, <2>5, <3>1, <4>1, <4>2 DEF ServesCall, There
    <3> QED BY <3>2, <3>3
  <2> QED BY <2>4, <2>6, <2>7, <2>8, <2>10, <2>11 DEF IInv, Calling, Wishing, Serves
<1> QED BY <1>4, <1>5 DEF CloudDeleteSnapshot

-----------------------------------------------------------------------------
(* The theorems. *)

\* Every step keeps the invariant.
LEMMA NextKeeps == IInv /\ [Next]_vars => IInv'
<1> SUFFICES ASSUME IInv, [Next]_vars PROVE IInv'
  OBVIOUS
<1>1. CASE UNCHANGED vars
  <2>1. /\ server' = server /\ list' = list /\ lastId' = lastId /\ wish' = wish /\ holds' = holds
        /\ inFlight' = inFlight /\ pc' = pc /\ call' = call /\ pending' = pending
        /\ excused' = excused /\ faults' = faults
    BY <1>1 DEF vars
  <2>2. ListFits' /\ Counted' /\ Calling'
    BY <2>1 DEF IInv, ListFits, Counted, Calling, CallsTyped, KeysHeld, OneWaits
  <2>3. Wishing'
    BY <2>1 DEF IInv, Wishing, WishTyped, Held, Serves, ServesCall, There
  <2>4. Looking'
    BY <2>1 DEF IInv, Looking, NotPassed, Absent, NoTwins
  <2> QED BY <2>2, <2>3, <2>4 DEF IInv
<1>2. ASSUME NEW c \in Calls, Handler(c) PROVE IInv'
  BY <1>2, LookupKeeps, CreateKeeps, PollKeeps, DeleteKeeps, ReturnKeeps DEF Handler
<1>3. CASE Next
  BY <1>2, <1>3, InsertKeeps, EndsKeep, DropKeeps, LateCreateKeeps, ActivateKeeps DEF Next
<1> QED BY <1>1, <1>3

\* The invariant holds in every state.
LEMMA Invariance == Spec => []IInv
  BY InitHolds, NextKeeps, PTL DEF Spec

\* The variables keep their types: the walk of GetVolumeSnapshotByName stays
\* within snapshotListMaxPages, and vServer gives no id twice.
THEOREM TypeCorrect == Spec => []TypeOK
  BY Invariance, IInvTyped, PTL

\* A create that is retried makes no second snapshot of its name, unless
\* vServer carries out one it had given up, a snapshot was deleted behind the
\* walk of the lookup, or the list is more than the walk can see.
THEOREM NoDuplicates == Spec => []NoDuplicateSnapshots
<1>1. ASSUME IInv PROVE NoDuplicateSnapshots
  <2> SUFFICES ASSUME NEW n \in Names, n \notin excused PROVE ~(Copies(n) > 1)
    BY DEF NoDuplicateSnapshots
  <2> DEFINE S == {i \in 1..Len(list) : list[i].name = n}
  <2>1. \A i, j \in S : i = j
    BY <1>1 DEF IInv, Looking, NoTwins
  <2>2. Copies(n) = Cardinality(S)
    BY DEF Copies
  <2> HIDE DEF S
  <2>3. CASE S = {}
    BY <2>2, <2>3, FS_EmptySet
  <2>4. ASSUME NEW i \in S PROVE ~(Copies(n) > 1)
    <3>1. S = {i}
      BY <2>1
    <3>2. Cardinality(S) = 1
      BY <3>1, FS_Singleton
    <3> QED BY <2>2, <3>2
  <2> QED BY <2>3, <2>4
<1> QED BY <1>1, Invariance, PTL

\* The snapshot CreateSnapshot answered with stays, under its name, until
\* csi-snapshotter asks for its deletion.
THEOREM HeldStays == Spec => []HeldIsThere
<1>1. ASSUME IInv PROVE HeldIsThere
  BY <1>1 DEF IInv, Wishing, Held, HeldIsThere, There
<1> QED BY <1>1, Invariance, PTL
=============================================================================
