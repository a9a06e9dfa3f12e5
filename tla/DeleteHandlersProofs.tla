------------------------ MODULE DeleteHandlersProofs ------------------------
(***************************************************************************)
(* The safety properties of DeleteHandlers, for every set of volumes and   *)
(* calls, every breaker schedule and every bound.                          *)
(*                                                                         *)
(* A volume has one handler at a time, so that what the handler saw of the *)
(* breaker, the volume and its snapshots is overtaken only by vServer, the *)
(* users and the evictions of others.  That a pause follows from its cause *)
(* rests on Classify, which finds the cause through every wrapper.         *)
(***************************************************************************)
EXTENDS DeleteHandlers, TLAPS

-----------------------------------------------------------------------------
(* The classes of the errors. *)

\* What a call on the cloud can make of an SDK error.
Wrappings(e) ==
  {e, errProjectUnresolved(e), ErrVolumeFailedToGet(e), ErrVolumeFailedToDelete(e)}

\* The code and the status of an error get through every wrapper.
LEMMA WrappedKeeps ==
  ASSUME NEW code, code # "", NEW status, NEW err \in Wrappings(Raw(code, status))
  PROVE  effectiveCode(err) = code /\ err.statusCode = status
<1> DEFINE e == Raw(code, status)
<1>1. CASE err = e
  BY <1>1 DEF Raw, Error, effectiveCode
<1>2. ASSUME NEW stamp, err = Wrapped(stamp, e)
      PROVE  effectiveCode(err) = code /\ err.statusCode = status
  BY <1>2 DEF Raw, Wrapped, Error, effectiveCode
<1> QED
  BY <1>1, <1>2, Zenon
  DEF Wrappings, errProjectUnresolved, ErrVolumeFailedToGet, ErrVolumeFailedToDelete

QuotaCodes ==
  {"VolumeExceedQuota", "VolumeSizeExceedGlobalQuota", "ServerVolumeAttachQuotaExceeded"}

\* The codes and the statuses that are terminal.
TerminalError(code, status) ==
  code \in QuotaCodes \cup {"VServerVolumeIsInErrorState"} \/ status \in {401, 403}

\* The ones that say something is missing.
MissingError(code, status) ==
  \/ code \in {"VolumeNotFound", "ServerNotFound", "VServerVolumeNotFound"}
  \/ code = "UnexpectedError" /\ status = 404

\* The codes that Classify looks up first.
LEMMA TerminalLookup ==
  /\ DOMAIN TerminalCodes = QuotaCodes \cup {"VServerVolumeIsInErrorState"}
  /\ \A code \in DOMAIN TerminalCodes : TerminalCodes[code] # "IaaSResourceNotFound"
BY DEF TerminalCodes, QuotaCodes

\* Classify in terms of the code and the status it finds.
LEMMA ClassifyFacts ==
  ASSUME NEW err, err.statusCode \in Nat
  PROVE  /\ TerminalError(effectiveCode(err), err.statusCode) => Classify(err).terminal = TRUE
         /\ ~TerminalError(effectiveCode(err), err.statusCode) => Classify(err).terminal = FALSE
         /\ IsMissing(err) => MissingError(effectiveCode(err), err.statusCode)
<1> DEFINE code == effectiveCode(err)
<1>1. CASE code \in DOMAIN TerminalCodes
  <2>1. Classify(err) = Class(TRUE, TerminalCodes[code])
    BY <1>1 DEF Classify
  <2>2. Classify(err).terminal = TRUE /\ Classify(err).reason = TerminalCodes[code]
    BY <2>1 DEF Class
  <2> QED
    BY <1>1, <2>2, TerminalLookup DEF TerminalError, IsMissing
<1>2. CASE code \notin DOMAIN TerminalCodes /\ err.statusCode = 429
  <2>1. Classify(err) = Class(FALSE, "IaaSThrottled")
    BY <1>2 DEF Classify
  <2>2. Classify(err).terminal = FALSE /\ Classify(err).reason = "IaaSThrottled"
    BY <2>1 DEF Class
  <2> QED
    BY <1>2, <2>2, TerminalLookup DEF TerminalError, IsMissing
<1>3. CASE code \notin DOMAIN TerminalCodes /\ err.statusCode \in {401, 403}
  <2>1. \/ Classify(err) = Class(TRUE, "IaaSPermissionDenied")
        \/ Classify(err) = Class(TRUE, "IaaSAuthFailed")
    <3>1. CASE err.statusCode = 403
      BY <1>3, <3>1 DEF Classify
    <3>2. CASE err.statusCode = 401
      BY <1>3, <3>2 DEF Classify
    <3> QED
      BY <1>3, <3>1, <3>2
  <2>2. Classify(err).terminal = TRUE /\ Classify(err).reason # "IaaSResourceNotFound"
    BY <2>1 DEF Class
  <2> QED
    BY <1>3, <2>2 DEF TerminalError, IsMissing
<1>4. CASE code \notin DOMAIN TerminalCodes /\ err.statusCode \notin {429, 403, 401}
  <2>1. Classify(err) = Transient(code, err.statusCode)
    <3>1. err.statusCode # 429 /\ err.statusCode # 403 /\ err.statusCode # 401
      BY <1>4
    <3> QED
      BY <1>4, <3>1, SMT DEF Classify, Transient, Class
  <2>2. /\ Classify(err).terminal = FALSE
        /\ Classify(err).reason =
             IF code = "UnexpectedError" THEN ByStatus(err.statusCode) ELSE ByCode(code)
    BY <2>1 DEF Transient, Class
  <2>3. ByStatus(err.statusCode) = "IaaSResourceNotFound" => err.statusCode = 404
    BY DEF ByStatus
  <2>4. ByCode(code) = "IaaSResourceNotFound" =>
          code \in {"VolumeNotFound", "ServerNotFound", "VServerVolumeNotFound"}
    BY DEF ByCode
  <2> QED
    BY <1>4, <2>2, <2>3, <2>4, TerminalLookup DEF IsMissing, MissingError, TerminalError
<1> QED
  BY <1>1, <1>2, <1>3, <1>4

\* An SDK error whose code and status fit its cause has the class of its cause.
LEMMA RawClass ==
  ASSUME NEW cause, NEW code, code # "", NEW status \in Nat,
         cause \in NeedsHuman <=> TerminalError(code, status),
         MissingError(code, status) => cause = "missing",
         NEW err \in Wrappings(Raw(code, status))
  PROVE  /\ cause \in NeedsHuman => Classify(err).terminal = TRUE
         /\ cause \notin NeedsHuman => Classify(err).terminal = FALSE
         /\ IsMissing(err) => cause = "missing"
<1>1. effectiveCode(err) = code /\ err.statusCode = status
  BY WrappedKeeps
<1>2. err.statusCode \in Nat
  BY <1>1
<1>3. /\ TerminalError(effectiveCode(err), err.statusCode) => Classify(err).terminal = TRUE
      /\ ~TerminalError(effectiveCode(err), err.statusCode) => Classify(err).terminal = FALSE
      /\ IsMissing(err) => MissingError(effectiveCode(err), err.statusCode)
  BY <1>2, ClassifyFacts
<1>4. /\ TerminalError(code, status) => Classify(err).terminal = TRUE
      /\ ~TerminalError(code, status) => Classify(err).terminal = FALSE
      /\ IsMissing(err) => MissingError(code, status)
  BY <1>1, <1>3
<1> QED
  BY <1>4

\* Classify (errclass.go) calls an error terminal exactly when its cause needs
\* a human, and a resource missing only when something is missing, whichever
\* code the SDK gave it and whichever wrapper stamped its own over it.
THEOREM ClassifySeesThrough ==
  ASSUME NEW cause \in Causes, NEW e \in SdkErrors(cause), NEW err \in Wrappings(e)
  PROVE  /\ cause \in NeedsHuman => Classify(err).terminal = TRUE
         /\ cause \notin NeedsHuman => Classify(err).terminal = FALSE
         /\ IsMissing(err) => cause = "missing"
<1> DEFINE Fits == /\ cause \in NeedsHuman => Classify(err).terminal = TRUE
                   /\ cause \notin NeedsHuman => Classify(err).terminal = FALSE
                   /\ IsMissing(err) => cause = "missing"
<1> SUFFICES Fits
  OBVIOUS
<1>1. ASSUME NEW code, code # "", NEW status, status \in Nat, e = Raw(code, status),
             cause \in NeedsHuman <=> TerminalError(code, status),
             MissingError(code, status) => cause = "missing"
      PROVE  Fits
  BY <1>1, RawClass
<1> HIDE DEF Fits
<1>2. CASE cause = "quota"
  <2>1. \/ e = Raw("VolumeExceedQuota", 0) \/ e = Raw("VolumeSizeExceedGlobalQuota", 0)
        \/ e = Raw("ServerVolumeAttachQuotaExceeded", 0)
    BY <1>2 DEF SdkErrors
  <2>2. /\ cause \in NeedsHuman
        /\ TerminalError("VolumeExceedQuota", 0) /\ ~MissingError("VolumeExceedQuota", 0)
        /\ TerminalError("VolumeSizeExceedGlobalQuota", 0) /\ ~MissingError("VolumeSizeExceedGlobalQuota", 0)
        /\ TerminalError("ServerVolumeAttachQuotaExceeded", 0) /\ ~MissingError("ServerVolumeAttachQuotaExceeded", 0)
    BY <1>2 DEF NeedsHuman, TerminalError, QuotaCodes, MissingError
  <2> QED
    BY <1>1, <1>2, <2>1, <2>2
<1>3. CASE cause = "forbidden"
  <2>1. e = Raw("PermissionDenied", 403) \/ e = Raw("UnexpectedError", 403)
    BY <1>3 DEF SdkErrors
  <2>2. /\ cause \in NeedsHuman
        /\ TerminalError("PermissionDenied", 403) /\ ~MissingError("PermissionDenied", 403)
        /\ TerminalError("UnexpectedError", 403) /\ ~MissingError("UnexpectedError", 403)
    BY <1>3 DEF NeedsHuman, TerminalError, QuotaCodes, MissingError
  <2>3. 403 \in Nat
    OBVIOUS
  <2> QED
    BY <1>1, <1>3, <2>1, <2>2, <2>3, Zenon
<1>4. CASE cause = "unauthorized"
  <2>1. e = Raw("PermissionDenied", 401) \/ e = Raw("UnexpectedError", 401)
    BY <1>4 DEF SdkErrors
  <2>2. /\ cause \in NeedsHuman
        /\ TerminalError("PermissionDenied", 401) /\ ~MissingError("PermissionDenied", 401)
        /\ TerminalError("UnexpectedError", 401) /\ ~MissingError("UnexpectedError", 401)
    BY <1>4 DEF NeedsHuman, TerminalError, QuotaCodes, MissingError
  <2>3. 401 \in Nat
    OBVIOUS
  <2> QED
    BY <1>1, <1>4, <2>1, <2>2, <2>3, Zenon
<1>5. CASE cause = "throttled"
  <2>1. e = Raw("PermissionDenied", 429)
    BY <1>5 DEF SdkErrors
  <2>2. /\ cause \notin NeedsHuman
        /\ ~TerminalError("PermissionDenied", 429) /\ ~MissingError("PermissionDenied", 429)
    BY <1>5 DEF NeedsHuman, TerminalError, QuotaCodes, MissingError
  <2>3. 429 \in Nat
    OBVIOUS
  <2> QED
    BY <1>1, <1>5, <2>1, <2>2, <2>3, Zenon
<1>6. CASE cause = "shed"
  <2>1. e = Raw("CsiClientRateLimited", 0)
    BY <1>6 DEF SdkErrors
  <2>2. /\ cause \notin NeedsHuman
        /\ ~TerminalError("CsiClientRateLimited", 0) /\ ~MissingError("CsiClientRateLimited", 0)
    BY <1>6 DEF NeedsHuman, TerminalError, QuotaCodes, MissingError
  <2> QED
    BY <1>1, <1>6, <2>1, <2>2
<1>7. CASE cause = "serverError"
  <2>1. \/ e = Raw("InternalServerError", 500) \/ e = Raw("ServiceMaintenance", 503)
        \/ e = Raw("UnexpectedError", 502)
    BY <1>7 DEF SdkErrors
  <2>2. /\ cause \notin NeedsHuman
        /\ ~TerminalError("InternalServerError", 500) /\ ~MissingError("InternalServerError", 500)
        /\ ~TerminalError("ServiceMaintenance", 503) /\ ~MissingError("ServiceMaintenance", 503)
        /\ ~TerminalError("UnexpectedError", 502) /\ ~MissingError("UnexpectedError", 502)
    BY <1>7 DEF NeedsHuman, TerminalError, QuotaCodes, MissingError
  <2>3. 500 \in Nat /\ 502 \in Nat /\ 503 \in Nat
    OBVIOUS
  <2> QED
    <3>1. CASE e = Raw("InternalServerError", 500)
      BY <1>1, <1>7, <2>2, <2>3, <3>1, Zenon
    <3>2. CASE e = Raw("ServiceMaintenance", 503)
      BY <1>1, <1>7, <2>2, <2>3, <3>2, Zenon
    <3>3. CASE e = Raw("UnexpectedError", 502)
      BY <1>1, <1>7, <2>2, <2>3, <3>3, Zenon
    <3> QED
      BY <2>1, <3>1, <3>2, <3>3
<1>8. CASE cause = "busy"
  <2>1. e = Raw("VolumeInProcess", 0) \/ e = Raw("VolumeIsMigrating", 0)
    BY <1>8 DEF SdkErrors
  <2>2. /\ cause \notin NeedsHuman
        /\ ~TerminalError("VolumeInProcess", 0) /\ ~MissingError("VolumeInProcess", 0)
        /\ ~TerminalError("VolumeIsMigrating", 0) /\ ~MissingError("VolumeIsMigrating", 0)
    BY <1>8 DEF NeedsHuman, TerminalError, QuotaCodes, MissingError
  <2> QED
    BY <1>1, <1>8, <2>1, <2>2
<1>9. CASE cause = "missing"
  <2>1. \/ e = Raw("VolumeNotFound", 0) \/ e = Raw("ServerNotFound", 0)
        \/ e = Raw("UnexpectedError", 404)
    BY <1>9 DEF SdkErrors
  <2>2. /\ cause \notin NeedsHuman
        /\ ~TerminalError("VolumeNotFound", 0)
        /\ ~TerminalError("ServerNotFound", 0)
        /\ ~TerminalError("UnexpectedError", 404)
    BY <1>9 DEF NeedsHuman, TerminalError, QuotaCodes, MissingError
  <2>3. 404 \in Nat
    OBVIOUS
  <2> QED
    BY <1>1, <1>9, <2>1, <2>2, <2>3, Zenon
<1>10. CASE cause = "unreachable"
  <2>1. e = Raw("UnexpectedError", 0)
    BY <1>10 DEF SdkErrors
  <2>2. /\ cause \notin NeedsHuman
        /\ ~TerminalError("UnexpectedError", 0) /\ ~MissingError("UnexpectedError", 0)
    BY <1>10 DEF NeedsHuman, TerminalError, QuotaCodes, MissingError
  <2> QED
    BY <1>1, <1>10, <2>1, <2>2
<1>11. CASE cause = "other"
  <2>1. e = Raw("UnexpectedError", 409) \/ e = Raw("UnknownError", 0)
    BY <1>11 DEF SdkErrors
  <2>2. /\ cause \notin NeedsHuman
        /\ ~TerminalError("UnexpectedError", 409) /\ ~MissingError("UnexpectedError", 409)
        /\ ~TerminalError("UnknownError", 0) /\ ~MissingError("UnknownError", 0)
    BY <1>11 DEF NeedsHuman, TerminalError, QuotaCodes, MissingError
  <2>3. 409 \in Nat
    OBVIOUS
  <2> QED
    BY <1>1, <1>11, <2>1, <2>2, <2>3, Zenon
<1> QED
  BY <1>2, <1>3, <1>4, <1>5, <1>6, <1>7, <1>8, <1>9, <1>10, <1>11 DEF Causes, NeedsHuman

\* A wait that gave up is a transient failure, too (wrap(nil)).
LEMMA WaitIsTransient == Classify(WaitFailedToDelete).terminal = FALSE
<1>1. /\ effectiveCode(WaitFailedToDelete) = "VServerVolumeFailedToDelete"
      /\ WaitFailedToDelete.statusCode = 0
  BY DEF WaitFailedToDelete, Error, effectiveCode
<1>2. ~TerminalError(effectiveCode(WaitFailedToDelete), WaitFailedToDelete.statusCode)
  BY <1>1 DEF TerminalError, QuotaCodes
<1>3. WaitFailedToDelete.statusCode \in Nat
  BY <1>1
<1> QED
  BY <1>2, <1>3, ClassifyFacts

-----------------------------------------------------------------------------
(* The inductive invariant. *)

\* A handler that runs has a volume of its own, which is in flight.
VolumeIsHeld ==
  \A c \in Calls : pc[c] # "idle" =>
    /\ Vol(c) \in Volumes /\ Vol(c) \in inFlight
    /\ \A d \in Calls : pc[d] # "idle" /\ Vol(d) = Vol(c) => d = c

\* A handler that is deciding has witnessed the volume as it is.
Witnessed ==
  \A c \in Calls : pc[c] \in Deciding =>
    /\ state[Vol(c)] # "attached" => call[c].saw
    /\ Vol(c) \notin snapped => call[c].bare

\* A failure that is not recorded yet is terminal exactly when a human is
\* needed.
CauseIsKnown ==
  \A c \in Calls : pc[c] \in {"tracked", "failed"} => (call[c].terminal <=> call[c].grave)

IInv ==
  /\ TypeOK /\ VolumeIsHeld /\ Witnessed /\ CauseIsKnown
  /\ PauseIsOverruledByProbeOnly /\ SnapshotsProtect /\ PauseFollowsCause

\* The parts of TypeOK: the world, what the handlers share, their locals.
WorldTyped ==
  /\ clock \in 0..MaxClock /\ faults \in 0..MaxFaults
  /\ state \in [Volumes -> VolumeStates] /\ snapped \in SUBSET Volumes
  /\ resolved \in BOOLEAN

SharedTyped ==
  /\ inFlight \in SUBSET Volumes /\ gauge \in SUBSET Volumes /\ grave \in SUBSET Volumes
  /\ entries \in [Volumes -> BreakerEntry]
  /\ event \in [Volumes -> {"none", "Failed", "VolumeDeleteStalled", "VolumeDeleteRecovered"}]

CallsTyped == pc \in [Calls -> PCs] /\ call \in [Calls -> CallRecord]

\* The parts make the whole.
LEMMA TypeParts ==
  /\ TypeOK <=> WorldTyped /\ SharedTyped /\ CallsTyped
  /\ TypeOK' <=> WorldTyped' /\ SharedTyped' /\ CallsTyped'
BY Zenon DEF TypeOK, WorldTyped, SharedTyped, CallsTyped

\* A volume without an entry is not paused.
LEMMA NoEntryFacts ==
  NoEntry \in BreakerEntry /\ NoEntry.tripped = FALSE /\ NoEntry.failures = 0
BY BreakerAssumption DEF NoEntry, BreakerEntry

\* Failure (breaker.go) keeps an open volume open and opens a closed one for a
\* terminal error, or else not before BreakerTripAfter failures.
LEMMA FailureFacts ==
  ASSUME NEW e \in BreakerEntry, NEW t \in BOOLEAN, NEW n \in Nat
  PROVE  /\ Failure(e, t, n) \in BreakerEntry
         /\ Escalates(e, t, n) \in BOOLEAN
         /\ t => Failure(e, t, n).tripped
         /\ e.tripped => Failure(e, t, n).tripped
         /\ Failure(e, t, n).failures >= e.failures
         /\ Failure(e, t, n).tripped /\ ~e.tripped /\ ~t =>
              Failure(e, t, n).failures >= BreakerTripAfter
<1>1. StepAfter(e) \in 1..Len(BreakerSteps)
  BY BreakerAssumption DEF StepAfter, Steps, BreakerEntry
<1>2. BreakerSteps[StepAfter(e)] \in Nat
  BY <1>1, BreakerAssumption
<1>3. CountFailure(e) \in Nat /\ CountFailure(e) >= e.failures
  BY BreakerAssumption DEF CountFailure, BreakerEntry
<1>4. FirstFailAt(e, n) \in Int
  BY DEF FirstFailAt, BreakerEntry
<1>5. Trips(e, t, n) \in BOOLEAN /\ Steps(e) \in BOOLEAN /\ e.tripped \in BOOLEAN
  BY DEF Trips, Steps, BreakerEntry
<1>6. /\ t /\ ~e.tripped => Trips(e, t, n)
      /\ Trips(e, t, n) /\ ~t => CountFailure(e) >= BreakerTripAfter
  BY Zenon DEF Trips
<1> DEFINE f == Failure(e, t, n)
<1>7. f.failures = CountFailure(e) /\ f.tripped = (e.tripped \/ Trips(e, t, n))
  BY DEF Failure
<1>8. f \in BreakerEntry
  BY <1>1, <1>2, <1>3, <1>4, <1>5 DEF Failure, BreakerEntry
<1> HIDE DEF f
<1>9. /\ t => f.tripped
      /\ e.tripped => f.tripped
      /\ f.failures >= e.failures
      /\ f.tripped /\ ~e.tripped /\ ~t => f.failures >= BreakerTripAfter
  BY <1>3, <1>5, <1>6, <1>7
<1> QED
  BY <1>5, <1>8, <1>9 DEF f, Escalates

\* EvictStale (breaker.go) leaves an entry alone or drops it, and it drops
\* exactly the stale keys it returns.
LEMMA EvictFacts ==
  ASSUME NEW es \in [Volumes -> BreakerEntry], NEW n \in Nat
  PROVE  /\ EvictStale(es, n) \in [Volumes -> BreakerEntry]
         /\ StaleKeys(es, n) \in SUBSET Volumes
         /\ \A v \in Volumes :
              EvictStale(es, n)[v] = IF v \in StaleKeys(es, n) THEN NoEntry ELSE es[v]
<1>1. StaleKeys(es, n) = {v \in Volumes : Stale(es[v], n)}
  BY DEF StaleKeys
<1>2. EvictStale(es, n) \in [Volumes -> BreakerEntry]
  BY NoEntryFacts DEF EvictStale
<1>3. \A v \in Volumes : EvictStale(es, n)[v] = IF Stale(es[v], n) THEN NoEntry ELSE es[v]
  BY DEF EvictStale
<1> QED
  BY <1>1, <1>2, <1>3

\* The locals of a failed attempt.
LEMMA FailsFacts ==
  ASSUME TypeOK, NEW c \in Calls, NEW cause, NEW err, NEW t \in BOOLEAN,
         Classify(err).terminal = t, Fails(c, cause, err)
  PROVE  \E r \in CallRecord :
           /\ call' = [call EXCEPT ![c] = r]
           /\ r.vol = Vol(c) /\ r.now = call[c].now
           /\ r.terminal = t /\ r.grave = (cause \in NeedsHuman)
<1> DEFINE r == [call[c] EXCEPT !.terminal = t, !.grave = cause \in NeedsHuman,
                                !.saw = FALSE, !.bare = FALSE, !.astray = FALSE]
<1>1. call' = [call EXCEPT ![c] = r]
  BY DEF Fails, TypeOK
<1>2. call[c] \in CallRecord
  BY DEF TypeOK
<1>3. (cause \in NeedsHuman) \in BOOLEAN
  OBVIOUS
<1>4. r \in CallRecord
  BY <1>2, <1>3 DEF CallRecord
<1>5. r.vol = Vol(c) /\ r.now = call[c].now /\ r.terminal = t /\ r.grave = (cause \in NeedsHuman)
  BY <1>2 DEF CallRecord, Vol
<1> QED
  BY <1>1, <1>4, <1>5

-----------------------------------------------------------------------------
(* The steps of a handler. *)

\* An attempt that failed leaves its cause and its class in the locals, and
\* the two agree.
FailedAttempt(c) ==
  \E r \in CallRecord :
    /\ call' = [call EXCEPT ![c] = r]
    /\ r.vol = Vol(c) /\ r.now = call[c].now
    /\ r.terminal <=> r.grave

\* Whatever error ends the attempt, Classify agrees with its cause.
LEMMA FailsAgree ==
  ASSUME TypeOK, NEW c \in Calls, NEW cause \in Causes, NEW e \in SdkErrors(cause),
         NEW err \in Wrappings(e), Fails(c, cause, err)
  PROVE  FailedAttempt(c)
<1>1. CASE cause \in NeedsHuman
  <2>1. Classify(err).terminal = TRUE
    BY <1>1, ClassifySeesThrough
  <2> QED
    BY <1>1, <2>1, FailsFacts DEF FailedAttempt
<1>2. CASE cause \notin NeedsHuman
  <2>1. Classify(err).terminal = FALSE
    BY <1>2, ClassifySeesThrough
  <2> QED
    BY <1>2, <2>1, FailsFacts DEF FailedAttempt
<1> QED
  BY <1>1, <1>2

\* Whichever call on the cloud fails leaves such locals.
LEMMA AttemptFails ==
  ASSUME TypeOK, NEW c \in Calls,
         \E cause \in Causes : \E e \in SdkErrors(cause) : \E err \in Wrappings(e) :
           Fails(c, cause, err)
  PROVE  FailedAttempt(c)
<1>0. PICK cause \in Causes : \E e \in SdkErrors(cause) : \E err \in Wrappings(e) :
        Fails(c, cause, err)
  OBVIOUS
<1>1. PICK e \in SdkErrors(cause) : \E err \in Wrappings(e) : Fails(c, cause, err)
  BY <1>0
<1>2. PICK err \in Wrappings(e) : Fails(c, cause, err)
  BY <1>1
<1> QED
  BY <1>2, FailsAgree

\* The lookup of the project, whatever the portal answered.
LEMMA LookupFailsAgrees ==
  ASSUME TypeOK, NEW c \in Calls, LookupFails(c)
  PROVE  FailedAttempt(c)
<1>1. \A e : errProjectUnresolved(e) \in Wrappings(e)
  BY DEF Wrappings
<1> QED
  BY <1>1, AttemptFails DEF LookupFails

\* The listing of the snapshots.
LEMMA ListingFails ==
  ASSUME TypeOK, NEW c \in Calls,
         \E cause \in Reasons(Vol(c)) : \E e \in SdkErrors(cause) : Fails(c, cause, e)
  PROVE  FailedAttempt(c)
<1>1. \A e : e \in Wrappings(e)
  BY DEF Wrappings
<1>2. \A cause \in Reasons(Vol(c)) : cause \in Causes
  BY DEF Reasons
<1> QED
  BY <1>1, <1>2, AttemptFails

\* The delete: it failed, its answer was lost, or it gave up waiting.
LEMMA DeletionFails ==
  ASSUME TypeOK, NEW c \in Calls,
         Fails(c, "busy", WaitFailedToDelete) \/ DeleteFails(c) \/ AnswerLost(c)
  PROVE  FailedAttempt(c)
<1>w. \A e : ErrVolumeFailedToGet(e) \in Wrappings(e) /\ ErrVolumeFailedToDelete(e) \in Wrappings(e)
  BY DEF Wrappings
<1>1. CASE Fails(c, "busy", WaitFailedToDelete)
  <2>1. ~("busy" \in NeedsHuman)
    BY DEF NeedsHuman
  <2> QED
    BY <1>1, <2>1, WaitIsTransient, FailsFacts DEF FailedAttempt
<1>2. CASE DeleteFails(c)
  <2>1. \A cause \in Reasons(Vol(c)) : cause \in Causes
    BY DEF Reasons
  <2>2. \E cause \in Causes : \E e \in SdkErrors(cause) :
          Fails(c, cause, ErrVolumeFailedToGet(e)) \/ Fails(c, cause, ErrVolumeFailedToDelete(e))
    BY <1>2, <2>1 DEF DeleteFails
  <2> QED
    BY <1>w, <2>2, AttemptFails
<1>3. CASE AnswerLost(c)
  <2>1. {"unreachable", "serverError"} \subseteq Causes
    BY DEF Causes
  <2> QED
    BY <1>3, <1>w, <2>1, AttemptFails DEF AnswerLost
<1> QED
  BY <1>1, <1>2, <1>3

\* Every step of a handler but the return keeps it running on its volume with
\* its now, and leaves the other handlers alone.
HandlerMoves(c) ==
  /\ pc[c] # "idle"
  /\ \E l \in PCs \ {"idle"} : pc' = [pc EXCEPT ![c] = l]
  /\ \E r \in CallRecord :
       r.vol = Vol(c) /\ r.now = call[c].now /\ call' = [call EXCEPT ![c] = r]
  /\ UNCHANGED <<clock, inFlight, snapped>>
  /\ Fault \/ UNCHANGED faults
  /\ Resolved \/ UNCHANGED resolved

\* The steps after which the locals are as before.
LEMMA SameCall ==
  ASSUME TypeOK, NEW c \in Calls, UNCHANGED call
  PROVE  \E r \in CallRecord :
           r.vol = Vol(c) /\ r.now = call[c].now /\ call' = [call EXCEPT ![c] = r]
BY DEF TypeOK, Vol

\* Updating a local field keeps the volume and the start of the call.
LEMMA LocalUpdates ==
  ASSUME NEW r \in CallRecord, NEW b \in BOOLEAN, NEW S \in SUBSET Volumes
  PROVE  /\ [r EXCEPT !.evicted = S] \in CallRecord
         /\ [r EXCEPT !.evicted = S].vol = r.vol /\ [r EXCEPT !.evicted = S].now = r.now
         /\ [r EXCEPT !.first = b] \in CallRecord
         /\ [r EXCEPT !.first = b].vol = r.vol /\ [r EXCEPT !.first = b].now = r.now
         /\ [r EXCEPT !.loud = b] \in CallRecord
         /\ [r EXCEPT !.loud = b].vol = r.vol /\ [r EXCEPT !.loud = b].now = r.now
         /\ [r EXCEPT !.astray = b] \in CallRecord
         /\ [r EXCEPT !.astray = b].vol = r.vol /\ [r EXCEPT !.astray = b].now = r.now
         /\ [r EXCEPT !.astray = b].saw = r.saw /\ [r EXCEPT !.astray = b].bare = r.bare
         /\ [r EXCEPT !.astray = b].astray = b
BY DEF CallRecord

\* The probe writes nothing of its call but that the portal led it astray.
LEMMA ProbeLocals ==
  ASSUME TypeOK, NEW c \in Calls, probeVolumeDeletable(c)
  PROVE  UNCHANGED call \/ \E b \in BOOLEAN : call' = [call EXCEPT ![c] = [call[c] EXCEPT !.astray = b]]
<1>1. \/ UNCHANGED call
      \/ \E cause \in Causes : call' = [call EXCEPT ![c].astray = (cause = "missing")]
  BY DEF probeVolumeDeletable
<1> QED
  BY <1>1 DEF TypeOK

\* The handler without its return.
Working(c) ==
  \/ evictStaleDeleteState(c) \/ SweepGauge(c) \/ AllowStep(c) \/ probeVolumeDeletable(c)
  \/ ListSnapshots(c) \/ CloudDelete(c) \/ ReadTracked(c) \/ RecordFailure(c) \/ ReadSince(c)
  \/ SetGauge(c) \/ EmitFailure(c) \/ ReadWasTripped(c) \/ ClearEntry(c) \/ ClearGauge(c)

\* Each of the steps is such a move.
LEMMA HandlerStep ==
  ASSUME TypeOK, VolumeIsHeld, NEW c \in Calls, Working(c)
  PROVE  HandlerMoves(c)
<1> USE DEF Goto, PCs, shared, world
<1>0. call[c] \in CallRecord /\ call \in [Calls -> CallRecord] /\ pc \in [Calls -> PCs]
  BY DEF TypeOK
<1>a. pc[c] # "idle" => entries[Vol(c)] \in BreakerEntry
  BY DEF VolumeIsHeld, TypeOK
<1>1. CASE evictStaleDeleteState(c)
  <2>1. StaleKeys(entries, call[c].now) \in SUBSET Volumes
    BY <1>0, EvictFacts DEF TypeOK, CallRecord
  <2>2. call' = [call EXCEPT ![c] = [call[c] EXCEPT !.evicted = StaleKeys(entries, call[c].now)]]
    BY <1>0, <1>1 DEF evictStaleDeleteState
  <2>3. \E r \in CallRecord :
          r.vol = Vol(c) /\ r.now = call[c].now /\ call' = [call EXCEPT ![c] = r]
    BY <1>0, <2>1, <2>2, LocalUpdates DEF Vol
  <2> QED
    BY <1>1, <2>3 DEF evictStaleDeleteState, HandlerMoves
<1>2. CASE SweepGauge(c)
  <2>1. PICK v \in call[c].evicted :
          /\ Goto(c, "sweep", IF call[c].evicted = {v} THEN "allow" ELSE "sweep")
          /\ call' = [call EXCEPT ![c].evicted = @ \ {v}]
          /\ UNCHANGED <<world, inFlight, entries, event, grave>>
    BY <1>2 DEF SweepGauge
  <2>2. call[c].evicted \ {v} \in SUBSET Volumes
    BY <1>0 DEF CallRecord
  <2>3. call' = [call EXCEPT ![c] = [call[c] EXCEPT !.evicted = call[c].evicted \ {v}]]
    BY <1>0, <2>1
  <2>4. \E r \in CallRecord :
          r.vol = Vol(c) /\ r.now = call[c].now /\ call' = [call EXCEPT ![c] = r]
    BY <1>0, <2>2, <2>3, LocalUpdates DEF Vol
  <2> QED
    BY <2>1, <2>4 DEF HandlerMoves
<1>3. CASE AllowStep(c) \/ ReadSince(c)
  BY <1>3, SameCall DEF AllowStep, ReadSince, HandlerMoves
<1>4. CASE SetGauge(c) \/ EmitFailure(c) \/ ClearEntry(c) \/ ClearGauge(c)
  BY <1>4, SameCall DEF SetGauge, EmitFailure, ClearEntry, ClearGauge, HandlerMoves
<1>5. CASE probeVolumeDeletable(c)
  <2>1. /\ pc[c] = "probe"
        /\ Goto(c, "probe", "list") \/ Goto(c, "probe", "return")
        /\ Fault \/ UNCHANGED faults
        /\ Resolved \/ UNCHANGED resolved
        /\ UNCHANGED <<clock, state, snapped, shared>>
    BY <1>5 DEF probeVolumeDeletable, Unreadable, Unresolved
  <2>2. UNCHANGED call \/ \E b \in BOOLEAN : call' = [call EXCEPT ![c] = [call[c] EXCEPT !.astray = b]]
    BY <1>0, <1>5, ProbeLocals
  <2>3. \E r \in CallRecord :
          r.vol = Vol(c) /\ r.now = call[c].now /\ call' = [call EXCEPT ![c] = r]
    BY <1>0, <2>2, SameCall, LocalUpdates DEF Vol
  <2> QED
    BY <2>1, <2>3 DEF HandlerMoves
<1>6. CASE ListSnapshots(c)
  <2>1. \E r \in CallRecord :
          r.vol = Vol(c) /\ r.now = call[c].now /\ call' = [call EXCEPT ![c] = r]
    BY <1>6, SameCall, ListingFails, LookupFailsAgrees DEF ListSnapshots, FailedAttempt
  <2> QED
    BY <1>6, <2>1 DEF ListSnapshots, LookupFails, Unresolved, HandlerMoves
<1>7. CASE CloudDelete(c)
  <2>1. ASSUME call' = [call EXCEPT ![c].saw = FALSE, ![c].bare = FALSE, ![c].astray = FALSE]
        PROVE  \E r \in CallRecord :
                 r.vol = Vol(c) /\ r.now = call[c].now /\ call' = [call EXCEPT ![c] = r]
    <3> DEFINE r == [call[c] EXCEPT !.saw = FALSE, !.bare = FALSE, !.astray = FALSE]
    <3>1. call' = [call EXCEPT ![c] = r]
      BY <1>0, <2>1
    <3>2. r \in CallRecord /\ r.vol = Vol(c) /\ r.now = call[c].now
      BY <1>0 DEF CallRecord, Vol
    <3> QED
      BY <3>1, <3>2
  <2>2. \E r \in CallRecord :
          r.vol = Vol(c) /\ r.now = call[c].now /\ call' = [call EXCEPT ![c] = r]
    BY <1>7, <2>1, DeletionFails, LookupFailsAgrees DEF CloudDelete, FailedAttempt
  <2> QED
    BY <1>7, <2>2 DEF CloudDelete, LookupFails, Unresolved, HandlerMoves
<1>8. CASE ReadTracked(c)
  <2>1. (~Tracked(Entry(c))) \in BOOLEAN
    OBVIOUS
  <2>2. call' = [call EXCEPT ![c] = [call[c] EXCEPT !.first = ~Tracked(Entry(c))]]
    BY <1>0, <1>8 DEF ReadTracked
  <2>3. \E r \in CallRecord :
          r.vol = Vol(c) /\ r.now = call[c].now /\ call' = [call EXCEPT ![c] = r]
    BY <1>0, <2>1, <2>2, LocalUpdates DEF Vol
  <2> QED
    BY <1>8, <2>3 DEF ReadTracked, HandlerMoves
<1>9. CASE RecordFailure(c)
  <2> DEFINE x == Escalates(Entry(c), call[c].terminal, call[c].now)
             r == [call[c] EXCEPT !.loud = x, !.terminal = FALSE, !.grave = FALSE]
  <2>1. x \in BOOLEAN
    BY <1>0, <1>9, <1>a, FailureFacts DEF RecordFailure, CallRecord, Entry
  <2>2. call' = [call EXCEPT ![c] = r]
    BY <1>0, <1>9 DEF RecordFailure
  <2> HIDE DEF x
  <2>3. r \in CallRecord /\ r.vol = Vol(c) /\ r.now = call[c].now
    BY <1>0, <2>1 DEF CallRecord, Vol
  <2>4. \E q \in CallRecord :
          q.vol = Vol(c) /\ q.now = call[c].now /\ call' = [call EXCEPT ![c] = q]
    BY <2>2, <2>3
  <2> QED
    BY <1>9, <2>4 DEF RecordFailure, HandlerMoves
<1>10. CASE ReadWasTripped(c)
  <2>1. Entry(c).tripped \in BOOLEAN
    BY <1>10, <1>a DEF ReadWasTripped, BreakerEntry, Entry
  <2>2. call' = [call EXCEPT ![c] = [call[c] EXCEPT !.loud = Entry(c).tripped]]
    BY <1>0, <1>10 DEF ReadWasTripped
  <2>3. \E r \in CallRecord :
          r.vol = Vol(c) /\ r.now = call[c].now /\ call' = [call EXCEPT ![c] = r]
    BY <1>0, <2>1, <2>2, LocalUpdates DEF Vol
  <2> QED
    BY <1>10, <2>3 DEF ReadWasTripped, HandlerMoves
<1> QED
  BY <1>1, <1>2, <1>3, <1>4, <1>5, <1>6, <1>7, <1>8, <1>9, <1>10 DEF Working

-----------------------------------------------------------------------------
(* The steps of the environment. *)

Environment == \E v \in Volumes : Release(v) \/ Hold(v) \/ DropSnapshot(v) \/ TakeSnapshot(v)

\* vServer and the users touch nothing of the driver.
LEMMA EnvironmentMoves ==
  ASSUME TypeOK, Environment
  PROVE  UNCHANGED <<clock, pc, shared>> /\ Witness /\ WorldTyped'
<1>1. PICK v \in Volumes : Release(v) \/ Hold(v) \/ DropSnapshot(v) \/ TakeSnapshot(v)
  BY DEF Environment
<1>2. UNCHANGED <<clock, pc, shared>> /\ Witness
  BY <1>1 DEF Release, Hold, DropSnapshot, TakeSnapshot
<1>3. state' \in [Volumes -> VolumeStates]
  BY <1>1 DEF Release, Hold, DropSnapshot, TakeSnapshot, VolumeStates, TypeOK
<1>4. snapped' \in SUBSET Volumes
  BY <1>1 DEF Release, Hold, DropSnapshot, TakeSnapshot, TypeOK
<1>5. faults' \in 0..MaxFaults
  BY <1>1, DeleteAssumption DEF Release, Hold, DropSnapshot, TakeSnapshot, Fault, TypeOK
<1>6. resolved' = resolved
  BY <1>1 DEF Release, Hold, DropSnapshot, TakeSnapshot
<1> QED
  BY <1>2, <1>3, <1>4, <1>5, <1>6 DEF WorldTyped, TypeOK

\* What a handler has witnessed only grows, and keeps up with the volume.
LEMMA WitnessFacts ==
  ASSUME TypeOK, Witness
  PROVE  /\ call' \in [Calls -> CallRecord]
         /\ \A c \in Calls :
              /\ call'[c].vol = call[c].vol /\ call'[c].now = call[c].now
              /\ call'[c].terminal = call[c].terminal /\ call'[c].grave = call[c].grave
              /\ call[c].saw => call'[c].saw
              /\ call[c].bare => call'[c].bare
              /\ call'[c].astray = call[c].astray
              /\ pc[c] \in Deciding /\ state'[Vol(c)] # "attached" => call'[c].saw
              /\ pc[c] \in Deciding /\ Vol(c) \notin snapped' => call'[c].bare
<1> DEFINE w(c) == IF pc[c] \notin Deciding THEN call[c]
                   ELSE [call[c] EXCEPT !.saw = @ \/ state'[Vol(c)] # "attached",
                                        !.bare = @ \/ Vol(c) \notin snapped']
<1>1. call' = [c \in Calls |-> w(c)]
  BY DEF Witness
<1>2. ASSUME NEW c \in Calls
      PROVE  /\ w(c) \in CallRecord
             /\ w(c).vol = call[c].vol /\ w(c).now = call[c].now
             /\ w(c).terminal = call[c].terminal /\ w(c).grave = call[c].grave
             /\ call[c].saw => w(c).saw
             /\ call[c].bare => w(c).bare
             /\ w(c).astray = call[c].astray
             /\ pc[c] \in Deciding /\ state'[Vol(c)] # "attached" => w(c).saw
             /\ pc[c] \in Deciding /\ Vol(c) \notin snapped' => w(c).bare
  <2>1. call[c] \in CallRecord
    BY DEF TypeOK
  <2> DEFINE sees == call[c].saw \/ state'[Vol(c)] # "attached"
             free == call[c].bare \/ Vol(c) \notin snapped'
             r == [call[c] EXCEPT !.saw = sees, !.bare = free]
  <2>2. w(c) = IF pc[c] \notin Deciding THEN call[c] ELSE r
    OBVIOUS
  <2>3. /\ sees \in BOOLEAN /\ (call[c].saw => sees) /\ (state'[Vol(c)] # "attached" => sees)
        /\ free \in BOOLEAN /\ (call[c].bare => free) /\ (Vol(c) \notin snapped' => free)
    BY <2>1 DEF CallRecord
  <2> HIDE DEF sees, free
  <2>4. r \in CallRecord /\ r.saw = sees /\ r.bare = free
    BY <2>1, <2>3 DEF CallRecord
  <2>5. /\ r.vol = call[c].vol /\ r.now = call[c].now
        /\ r.terminal = call[c].terminal /\ r.grave = call[c].grave /\ r.astray = call[c].astray
    BY <2>1 DEF CallRecord
  <2> HIDE DEF r, w
  <2>6. CASE pc[c] \in Deciding
    BY <2>2, <2>3, <2>4, <2>5, <2>6
  <2>7. CASE pc[c] \notin Deciding
    BY <2>1, <2>2, <2>7
  <2> QED
    BY <2>6, <2>7
<1> HIDE DEF w
<1> QED
  BY <1>1, <1>2

\* The kinds of steps.
LEMMA Kinds ==
  ASSUME [Next]_vars
  PROVE  \/ \E c \in Calls, v \in Volumes : DeleteVolume(c, v)
         \/ \E c \in Calls : Working(c)
         \/ \E c \in Calls : Return(c)
         \/ Environment
         \/ Tick \/ ResolveProject \/ UNCHANGED vars
BY Zenon DEF Next, Handler, Working, Environment

\* The call that a handler starts with.
StartOf(v) == [NoCall EXCEPT !.vol = v, !.now = clock,
                             !.saw = ProbeAccepts(v), !.bare = v \notin snapped]

\* It is on the volume, from now, with the volume witnessed as it is.
LEMMA StartFacts ==
  ASSUME TypeOK, NEW v \in Volumes
  PROVE  /\ StartOf(v) \in CallRecord
         /\ StartOf(v).vol = v
         /\ StartOf(v).saw = (state[v] # "attached") /\ StartOf(v).bare = (v \notin snapped)
<1> DEFINE a == state[v] # "attached"
           b == v \notin snapped
<1>1. a \in BOOLEAN /\ b \in BOOLEAN /\ clock \in Nat
  BY DeleteAssumption DEF TypeOK
<1>2. StartOf(v) = [NoCall EXCEPT !.vol = v, !.now = clock, !.saw = a, !.bare = b]
  BY DEF StartOf, ProbeAccepts
<1> HIDE DEF a, b
<1>3. StartOf(v) \in CallRecord /\ StartOf(v).vol = v /\ StartOf(v).saw = a /\ StartOf(v).bare = b
  BY <1>1, <1>2 DEF NoCall, CallRecord
<1> QED
  BY <1>3 DEF a, b

\* Types are kept.
LEMMA TypeStep ==
  ASSUME IInv, [Next]_vars
  PROVE  TypeOK'
<1> USE DEF Goto, shared, world
<1>0. /\ TypeOK /\ VolumeIsHeld /\ WorldTyped /\ SharedTyped /\ CallsTyped
  BY TypeParts DEF IInv
<1>1. ASSUME NEW c \in Calls, NEW v \in Volumes, DeleteVolume(c, v)
      PROVE  TypeOK'
  <2>1. pc' = [pc EXCEPT ![c] = "evict"] /\ call' = [call EXCEPT ![c] = StartOf(v)]
    BY <1>1, Zenon DEF DeleteVolume, StartOf
  <2>2. CallsTyped'
    BY <1>0, <2>1, StartFacts DEF CallsTyped, PCs
  <2>3. SharedTyped'
    BY <1>0, <1>1 DEF DeleteVolume, SharedTyped
  <2>4. WorldTyped'
    BY <1>0, <1>1 DEF DeleteVolume, WorldTyped
  <2> QED
    BY <2>2, <2>3, <2>4, TypeParts
<1>2. ASSUME NEW c \in Calls, Working(c)
      PROVE  TypeOK'
  <2>0. HandlerMoves(c)
    BY <1>0, <1>2, HandlerStep
  <2>1. CallsTyped'
    BY <1>0, <2>0 DEF HandlerMoves, CallsTyped
  <2>2. WorldTyped'
    <3>1. state' \in [Volumes -> VolumeStates]
      BY <1>0, <1>2 DEF Working, evictStaleDeleteState, SweepGauge, AllowStep, probeVolumeDeletable,
         ListSnapshots, CloudDelete, ReadTracked, RecordFailure, ReadSince, SetGauge, EmitFailure,
         ReadWasTripped, ClearEntry, ClearGauge, WorldTyped, VolumeStates, Gone
    <3>2. clock' \in 0..MaxClock /\ snapped' \in SUBSET Volumes
      BY <1>0, <2>0 DEF HandlerMoves, WorldTyped
    <3>3. faults' \in 0..MaxFaults
      BY <1>0, <2>0, DeleteAssumption DEF HandlerMoves, WorldTyped, Fault
    <3>4. resolved' \in BOOLEAN
      BY <1>0, <2>0 DEF HandlerMoves, WorldTyped, Resolved
    <3> QED
      BY <3>1, <3>2, <3>3, <3>4 DEF WorldTyped
  <2>3. SharedTyped'
    <3>0. Vol(c) \in Volumes /\ Entry(c) \in BreakerEntry
      BY <1>0, <2>0 DEF HandlerMoves, VolumeIsHeld, SharedTyped, Entry
    <3>1. call[c] \in CallRecord
      BY <1>0 DEF CallsTyped
    <3>2. inFlight' \in SUBSET Volumes
      BY <1>0, <2>0 DEF HandlerMoves, SharedTyped
    <3>3. CASE evictStaleDeleteState(c)
      <4>1. EvictStale(entries, call[c].now) \in [Volumes -> BreakerEntry]
        BY <1>0, <3>1, EvictFacts DEF SharedTyped, CallRecord
      <4> QED
        BY <1>0, <3>2, <3>3, <4>1 DEF evictStaleDeleteState, SharedTyped
    <3>4. CASE RecordFailure(c)
      <4>1. Failure(Entry(c), call[c].terminal, call[c].now) \in BreakerEntry
        BY <3>0, <3>1, FailureFacts DEF CallRecord
      <4> QED
        BY <1>0, <3>0, <3>2, <3>4, <4>1 DEF RecordFailure, SharedTyped
    <3>5. CASE ClearEntry(c)
      BY <1>0, <3>0, <3>2, <3>5, NoEntryFacts DEF ClearEntry, Success, SharedTyped
    <3>6. CASE EmitFailure(c)
      BY <1>0, <3>0, <3>2, <3>6 DEF EmitFailure, SharedTyped
    <3>7. CASE ClearGauge(c)
      BY <1>0, <3>0, <3>2, <3>7 DEF ClearGauge, SharedTyped
    <3>8. CASE SetGauge(c) \/ SweepGauge(c)
      BY <1>0, <3>0, <3>2, <3>8 DEF SetGauge, SweepGauge, SharedTyped
    <3>9. CASE \/ AllowStep(c) \/ probeVolumeDeletable(c) \/ ListSnapshots(c) \/ CloudDelete(c)
               \/ ReadTracked(c) \/ ReadSince(c) \/ ReadWasTripped(c)
      BY <1>0, <3>2, <3>9 DEF AllowStep, probeVolumeDeletable, ListSnapshots, CloudDelete,
         ReadTracked, ReadSince, ReadWasTripped, SharedTyped
    <3> QED
      BY <1>2, <3>3, <3>4, <3>5, <3>6, <3>7, <3>8, <3>9 DEF Working
  <2> QED
    BY <2>1, <2>2, <2>3, TypeParts
<1>3. ASSUME NEW c \in Calls, Return(c)
      PROVE  TypeOK'
  <2>1. NoCall \in CallRecord
    BY DEF NoCall, CallRecord
  <2>2. CallsTyped'
    BY <1>0, <1>3, <2>1 DEF Return, CallsTyped, PCs
  <2>3. WorldTyped' /\ SharedTyped'
    BY <1>0, <1>3 DEF Return, WorldTyped, SharedTyped
  <2> QED
    BY <2>2, <2>3, TypeParts
<1>4. CASE Environment
  <2>1. UNCHANGED <<clock, pc, shared>> /\ Witness /\ WorldTyped'
    BY <1>0, <1>4, EnvironmentMoves
  <2>2. SharedTyped'
    BY <1>0, <2>1 DEF SharedTyped
  <2>3. CallsTyped'
    BY <1>0, <2>1, WitnessFacts DEF CallsTyped
  <2> QED
    BY <2>1, <2>2, <2>3, TypeParts
<1>5. CASE Tick
  <2>1. WorldTyped'
    BY <1>0, <1>5, DeleteAssumption DEF Tick, WorldTyped
  <2>2. SharedTyped' /\ CallsTyped'
    BY <1>0, <1>5 DEF Tick, SharedTyped, CallsTyped
  <2> QED
    BY <2>1, <2>2, TypeParts
<1>7. CASE ResolveProject
  BY <1>0, <1>7, TypeParts DEF ResolveProject, Resolved, WorldTyped, SharedTyped, CallsTyped
<1>6. CASE UNCHANGED vars
  BY <1>0, <1>6, TypeParts DEF vars, WorldTyped, SharedTyped, CallsTyped
<1> QED
  BY <1>1, <1>2, <1>3, <1>4, <1>5, <1>6, <1>7, Kinds

-----------------------------------------------------------------------------
(* The other parts of the invariant. *)

\* What a step of one handler is to the others: nothing.
LEMMA Apart ==
  ASSUME TypeOK, VolumeIsHeld, NEW c \in Calls, Working(c)
  PROVE  /\ pc[c] # "idle" /\ pc'[c] # "idle" /\ inFlight' = inFlight /\ snapped' = snapped
         /\ call'[c].vol = Vol(c) /\ call'[c].now = call[c].now
         /\ \A d \in Calls \ {c} :
              /\ pc'[d] = pc[d] /\ call'[d] = call[d]
              /\ pc[d] # "idle" => Vol(d) \in Volumes /\ Vol(d) # Vol(c)
<1>1. HandlerMoves(c)
  BY HandlerStep
<1>2. pc[c] # "idle" /\ inFlight' = inFlight /\ snapped' = snapped
  BY <1>1 DEF HandlerMoves
<1>3. PICK l \in PCs \ {"idle"} : pc' = [pc EXCEPT ![c] = l]
  BY <1>1 DEF HandlerMoves
<1>4. PICK r \in CallRecord :
        r.vol = Vol(c) /\ r.now = call[c].now /\ call' = [call EXCEPT ![c] = r]
  BY <1>1 DEF HandlerMoves
<1>5. pc'[c] = l /\ call'[c] = r
  BY <1>3, <1>4 DEF TypeOK
<1>6. \A d \in Calls \ {c} : pc'[d] = pc[d] /\ call'[d] = call[d]
  BY <1>3, <1>4 DEF TypeOK
<1>7. \A d \in Calls \ {c} : pc[d] # "idle" => Vol(d) \in Volumes /\ Vol(d) # Vol(c)
  BY <1>2 DEF VolumeIsHeld
<1> QED
  BY <1>2, <1>4, <1>5, <1>6, <1>7, <1>3

\* A volume stays with one handler.
LEMMA HeldStep ==
  ASSUME IInv, [Next]_vars
  PROVE  VolumeIsHeld'
<1>0. TypeOK /\ VolumeIsHeld
  BY DEF IInv
<1>k. ASSUME inFlight' = inFlight,
             \A d \in Calls : /\ pc'[d] # "idle" <=> pc[d] # "idle"
                              /\ call'[d].vol = call[d].vol
      PROVE  VolumeIsHeld'
  BY <1>0, <1>k DEF VolumeIsHeld, Vol
<1>1. ASSUME NEW c \in Calls, NEW v \in Volumes, DeleteVolume(c, v)
      PROVE  VolumeIsHeld'
  <2>1. /\ pc[c] = "idle" /\ pc' = [pc EXCEPT ![c] = "evict"]
        /\ call' = [call EXCEPT ![c] = StartOf(v)]
        /\ v \notin inFlight /\ inFlight' = inFlight \cup {v}
    BY <1>1, Zenon DEF DeleteVolume, StartOf, Goto
  <2>2. pc'[c] = "evict" /\ call'[c] = StartOf(v)
    BY <1>0, <2>1 DEF TypeOK
  <2>3. call'[c].vol = v
    BY <1>0, <2>2, StartFacts
  <2>4. \A d \in Calls \ {c} : pc'[d] = pc[d] /\ call'[d] = call[d]
    BY <1>0, <2>1 DEF TypeOK
  <2>5. \A d \in Calls \ {c} : pc[d] # "idle" => Vol(d) # v
    BY <1>0, <2>1 DEF VolumeIsHeld
  <2> QED
    BY <1>0, <2>1, <2>2, <2>3, <2>4, <2>5 DEF VolumeIsHeld, Vol
<1>2. ASSUME NEW c \in Calls, Working(c)
      PROVE  VolumeIsHeld'
  <2>1. /\ pc[c] # "idle" /\ pc'[c] # "idle" /\ inFlight' = inFlight
        /\ call'[c].vol = call[c].vol
        /\ \A d \in Calls \ {c} : pc'[d] = pc[d] /\ call'[d] = call[d]
    BY <1>0, <1>2, Apart DEF Vol
  <2>2. \A d \in Calls : /\ pc'[d] # "idle" <=> pc[d] # "idle"
                         /\ call'[d].vol = call[d].vol
    BY <2>1
  <2> QED
    BY <1>k, <2>1, <2>2
<1>3. ASSUME NEW c \in Calls, Return(c)
      PROVE  VolumeIsHeld'
  <2>1. pc[c] # "idle" /\ pc'[c] = "idle" /\ inFlight' = inFlight \ {Vol(c)}
    BY <1>0, <1>3 DEF Return, Goto, TypeOK
  <2>2. \A d \in Calls \ {c} : pc'[d] = pc[d] /\ call'[d] = call[d]
    BY <1>0, <1>3 DEF Return, Goto, TypeOK
  <2>3. \A d \in Calls \ {c} : pc[d] # "idle" => Vol(d) # Vol(c)
    BY <1>0, <2>1 DEF VolumeIsHeld
  <2> QED
    BY <1>0, <2>1, <2>2, <2>3 DEF VolumeIsHeld, Vol
<1>4. CASE Environment
  <2>1. UNCHANGED <<pc, inFlight>> /\ Witness
    BY <1>0, <1>4, EnvironmentMoves DEF shared
  <2>2. \A d \in Calls : call'[d].vol = call[d].vol
    BY <1>0, <2>1, WitnessFacts
  <2> QED
    BY <1>k, <2>1, <2>2
<1>5. CASE Tick \/ ResolveProject \/ UNCHANGED vars
  BY <1>5, <1>k DEF Tick, ResolveProject, vars, shared
<1> QED
  BY <1>1, <1>2, <1>3, <1>4, <1>5, Kinds

\* A handler that is still deciding has changed nothing but its place: it has
\* seen what it had seen, and the volume is as it was.
LEMMA DecidingStep ==
  ASSUME TypeOK, VolumeIsHeld, NEW c \in Calls, Working(c), pc'[c] \in Deciding
  PROVE  /\ pc[c] \in Deciding /\ state' = state
         /\ call'[c].saw = call[c].saw /\ call'[c].bare = call[c].bare
<1> USE DEF Goto, Deciding, world, shared
<1>0. call \in [Calls -> CallRecord] /\ call[c] \in CallRecord /\ pc \in [Calls -> PCs]
  BY DEF TypeOK
<1>1. CASE evictStaleDeleteState(c) \/ SweepGauge(c)
  <2>1. pc[c] \in Deciding /\ state' = state
    BY <1>1 DEF evictStaleDeleteState, SweepGauge
  <2>2. \E S : call' = [call EXCEPT ![c].evicted = S]
    BY <1>0, <1>1 DEF evictStaleDeleteState, SweepGauge
  <2>3. call'[c].saw = call[c].saw /\ call'[c].bare = call[c].bare
    BY <1>0, <2>2 DEF CallRecord
  <2> QED
    BY <2>1, <2>3
<1>2. CASE AllowStep(c) \/ probeVolumeDeletable(c)
  <2>1. /\ pc[c] \in Deciding /\ state' = state
        /\ UNCHANGED call \/ \E b \in BOOLEAN : call' = [call EXCEPT ![c] = [call[c] EXCEPT !.astray = b]]
    BY <1>2, ProbeLocals DEF AllowStep, probeVolumeDeletable
  <2>2. \A b \in BOOLEAN : /\ [call[c] EXCEPT !.astray = b].saw = call[c].saw
                          /\ [call[c] EXCEPT !.astray = b].bare = call[c].bare
    BY <1>0 DEF CallRecord
  <2> QED
    BY <1>0, <2>1, <2>2
<1>3. CASE ListSnapshots(c)
  <2>1. ~Goto(c, "list", "tracked")
    BY <1>0
  <2> QED
    BY <1>3, <2>1 DEF ListSnapshots
<1>4. CASE CloudDelete(c)
  BY <1>0, <1>4 DEF CloudDelete
<1>5. CASE ReadTracked(c) \/ RecordFailure(c) \/ ReadSince(c) \/ SetGauge(c)
  BY <1>0, <1>5 DEF ReadTracked, RecordFailure, ReadSince, SetGauge
<1>6. CASE EmitFailure(c) \/ ReadWasTripped(c) \/ ClearEntry(c) \/ ClearGauge(c)
  BY <1>0, <1>6 DEF EmitFailure, ReadWasTripped, ClearEntry, ClearGauge
<1> QED
  BY <1>1, <1>2, <1>3, <1>4, <1>5, <1>6 DEF Working

\* Only a handler's own volume is deleted, and only by it.
LEMMA StateStep ==
  ASSUME TypeOK, NEW c \in Calls, Working(c), NEW v \in Volumes, v # Vol(c)
  PROVE  state'[v] = state[v]
BY DEF Working, evictStaleDeleteState, SweepGauge, AllowStep, probeVolumeDeletable, ListSnapshots,
   CloudDelete, ReadTracked, RecordFailure, ReadSince, SetGauge, EmitFailure, ReadWasTripped,
   ClearEntry, ClearGauge, Gone, world, TypeOK

\* A handler that is deciding keeps witnessing.
LEMMA WitnessStep ==
  ASSUME IInv, [Next]_vars
  PROVE  Witnessed'
<1>0. TypeOK /\ VolumeIsHeld /\ Witnessed
  BY DEF IInv
<1>d. \A l \in Deciding : l # "idle"
  BY DEF Deciding
<1>1. ASSUME NEW c \in Calls, NEW v \in Volumes, DeleteVolume(c, v)
      PROVE  Witnessed'
  <2>1. /\ pc[c] = "idle" /\ pc' = [pc EXCEPT ![c] = "evict"]
        /\ call' = [call EXCEPT ![c] = StartOf(v)] /\ UNCHANGED <<state, snapped>>
    BY <1>1, Zenon DEF DeleteVolume, StartOf, Goto, world
  <2>2. call'[c] = StartOf(v)
    BY <1>0, <2>1 DEF TypeOK
  <2>3. /\ call'[c].vol = v
        /\ state[v] # "attached" => call'[c].saw
        /\ v \notin snapped => call'[c].bare
    BY <1>0, <2>2, StartFacts
  <2>4. \A d \in Calls \ {c} : pc'[d] = pc[d] /\ call'[d] = call[d]
    BY <1>0, <2>1 DEF TypeOK
  <2> QED
    BY <1>0, <2>1, <2>3, <2>4 DEF Witnessed, Vol
<1>2. ASSUME NEW c \in Calls, Working(c)
      PROVE  Witnessed'
  <2>1. ASSUME NEW d \in Calls, pc'[d] \in Deciding
        PROVE  /\ state'[call'[d].vol] # "attached" => call'[d].saw
               /\ call'[d].vol \notin snapped' => call'[d].bare
    <3>1. CASE d = c
      <4>1. /\ pc[c] \in Deciding /\ state' = state /\ snapped' = snapped
            /\ call'[c].saw = call[c].saw /\ call'[c].bare = call[c].bare
            /\ call'[c].vol = Vol(c)
        BY <1>0, <1>2, <2>1, <3>1, DecidingStep, Apart
      <4> QED
        BY <1>0, <3>1, <4>1 DEF Witnessed
    <3>2. CASE d # c
      <4>1. /\ pc'[d] = pc[d] /\ call'[d] = call[d] /\ snapped' = snapped
            /\ Vol(d) \in Volumes /\ Vol(d) # Vol(c)
        BY <1>0, <1>2, <1>d, <2>1, <3>2, Apart
      <4>2. state'[Vol(d)] = state[Vol(d)]
        BY <1>0, <1>2, <4>1, StateStep
      <4> QED
        BY <1>0, <2>1, <4>1, <4>2 DEF Witnessed, Vol
    <3> QED
      BY <3>1, <3>2
  <2> QED
    BY <2>1 DEF Witnessed, Vol
<1>3. ASSUME NEW c \in Calls, Return(c)
      PROVE  Witnessed'
  <2>1. pc'[c] = "idle" /\ UNCHANGED <<state, snapped>>
    BY <1>0, <1>3 DEF Return, Goto, TypeOK, world
  <2>2. \A d \in Calls \ {c} : pc'[d] = pc[d] /\ call'[d] = call[d]
    BY <1>0, <1>3 DEF Return, Goto, TypeOK
  <2> QED
    BY <1>0, <1>d, <2>1, <2>2 DEF Witnessed, Vol
<1>4. CASE Environment
  <2>1. UNCHANGED pc /\ Witness
    BY <1>0, <1>4, EnvironmentMoves
  <2>2. \A d \in Calls :
          /\ call'[d].vol = call[d].vol
          /\ pc[d] \in Deciding /\ state'[Vol(d)] # "attached" => call'[d].saw
          /\ pc[d] \in Deciding /\ Vol(d) \notin snapped' => call'[d].bare
    BY <1>0, <2>1, WitnessFacts
  <2> QED
    BY <2>1, <2>2 DEF Witnessed, Vol
<1>5. CASE Tick \/ ResolveProject \/ UNCHANGED vars
  BY <1>0, <1>5 DEF Tick, ResolveProject, vars, shared, Witnessed, Vol
<1> QED
  BY <1>1, <1>2, <1>3, <1>4, <1>5, Kinds

\* A handler comes to the delete only from a listing that found no snapshot.
LEMMA SnapshotStep ==
  ASSUME IInv, [Next]_vars
  PROVE  SnapshotsProtect'
<1>0. TypeOK /\ VolumeIsHeld /\ Witnessed /\ SnapshotsProtect
  BY DEF IInv
<1>1. ASSUME NEW c \in Calls, NEW v \in Volumes, DeleteVolume(c, v)
      PROVE  SnapshotsProtect'
  <2>1. pc'[c] = "evict" /\ \A d \in Calls \ {c} : pc'[d] = pc[d] /\ call'[d] = call[d]
    BY <1>0, <1>1 DEF DeleteVolume, Goto, TypeOK
  <2> QED
    BY <1>0, <2>1 DEF SnapshotsProtect
<1>2. ASSUME NEW c \in Calls, Working(c)
      PROVE  SnapshotsProtect'
  <2>1. \A d \in Calls \ {c} : pc'[d] = pc[d] /\ call'[d] = call[d]
    BY <1>0, <1>2, Apart
  <2>2. ASSUME pc'[c] = "delete"
        PROVE  call'[c].bare
    <3>1. call'[c].bare = call[c].bare
      BY <1>0, <1>2, <2>2, DecidingStep DEF Deciding
    <3>2. pc[c] = "list" /\ Vol(c) \notin snapped
      BY <1>0, <1>2, <2>2 DEF Working, evictStaleDeleteState, SweepGauge, AllowStep,
         probeVolumeDeletable, Unreadable, ListSnapshots, CloudDelete, ReadTracked, RecordFailure,
         ReadSince, SetGauge, EmitFailure, ReadWasTripped, ClearEntry, ClearGauge, Goto, TypeOK
    <3> QED
      BY <1>0, <3>1, <3>2 DEF Witnessed, Deciding
  <2> QED
    BY <1>0, <2>1, <2>2 DEF SnapshotsProtect
<1>3. ASSUME NEW c \in Calls, Return(c)
      PROVE  SnapshotsProtect'
  <2>1. pc'[c] = "idle" /\ \A d \in Calls \ {c} : pc'[d] = pc[d] /\ call'[d] = call[d]
    BY <1>0, <1>3 DEF Return, Goto, TypeOK
  <2> QED
    BY <1>0, <2>1 DEF SnapshotsProtect
<1>4. CASE Environment
  <2>1. UNCHANGED pc /\ Witness
    BY <1>0, <1>4, EnvironmentMoves
  <2>2. \A d \in Calls : call[d].bare => call'[d].bare
    BY <1>0, <2>1, WitnessFacts
  <2> QED
    BY <1>0, <2>1, <2>2 DEF SnapshotsProtect
<1>5. CASE Tick \/ ResolveProject \/ UNCHANGED vars
  BY <1>0, <1>5 DEF Tick, ResolveProject, vars, SnapshotsProtect
<1> QED
  BY <1>1, <1>2, <1>3, <1>4, <1>5, Kinds

\* To the entries of the other volumes a handler does nothing but evict them.
LEMMA EntriesStep ==
  ASSUME TypeOK, VolumeIsHeld, NEW c \in Calls, Working(c), NEW v \in Volumes, v # Vol(c)
  PROVE  entries'[v] = entries[v] \/ entries'[v] = NoEntry
<1> USE DEF shared, world
<1>1. CASE evictStaleDeleteState(c)
  <2>1. entries' = EvictStale(entries, call[c].now)
    BY <1>1 DEF evictStaleDeleteState
  <2>2. entries \in [Volumes -> BreakerEntry] /\ call[c].now \in Nat
    BY DEF TypeOK, CallRecord
  <2> QED
    BY <2>1, <2>2, EvictFacts
<1>2. CASE RecordFailure(c) \/ ClearEntry(c)
  BY <1>2 DEF RecordFailure, ClearEntry, Success, TypeOK
<1>3. CASE ~(evictStaleDeleteState(c) \/ RecordFailure(c) \/ ClearEntry(c))
  <2>1. entries' = entries
    BY <1>3 DEF Working, SweepGauge, AllowStep, probeVolumeDeletable, ListSnapshots, CloudDelete,
       ReadTracked, ReadSince, SetGauge, EmitFailure, ReadWasTripped, ClearGauge
  <2> QED
    BY <2>1
<1> QED
  BY <1>1, <1>2, <1>3

\* A probe lets a handler through only when the volume is on no instance, or
\* when the portal answered that there is no such project.
LEMMA ProbeLetsThrough ==
  ASSUME TypeOK, NEW c \in Calls, Vol(c) \in Volumes, probeVolumeDeletable(c), pc'[c] = "list"
  PROVE  state[Vol(c)] # "attached" \/ call'[c].astray
<1>0. pc[c] = "probe" /\ pc \in [Calls -> PCs] /\ call \in [Calls -> CallRecord]
  BY DEF probeVolumeDeletable, TypeOK
<1>e. ASSUME NEW err, Unreadable(c, err)
      PROVE  IsMissing(err)
  BY <1>0, <1>e DEF Unreadable, Goto
<1>1. CASE state[Vol(c)] # "gone" /\ Goto(c, "probe", IF ProbeAccepts(Vol(c)) THEN "list" ELSE "return")
  BY <1>0, <1>1 DEF Goto, ProbeAccepts
<1>2. CASE state[Vol(c)] = "gone"
  BY <1>2
<1>3. CASE \E cause \in Causes \ {"missing"} : \E e \in SdkErrors(cause) : Unreadable(c, e)
  <2>1. PICK cause \in Causes \ {"missing"} : \E e \in SdkErrors(cause) : Unreadable(c, e)
    BY <1>3
  <2>2. PICK e \in SdkErrors(cause) : Unreadable(c, e)
    BY <2>1
  <2>3. e \in Wrappings(e) /\ IsMissing(e)
    BY <1>e, <2>2 DEF Wrappings
  <2> QED
    BY <2>3, ClassifySeesThrough
<1>4. CASE \E cause \in Causes : \E e \in SdkErrors(cause) :
             /\ Unreadable(c, errProjectUnresolved(e))
             /\ call' = [call EXCEPT ![c].astray = (cause = "missing")]
  <2>1. PICK cause \in Causes : \E e \in SdkErrors(cause) :
             /\ Unreadable(c, errProjectUnresolved(e))
             /\ call' = [call EXCEPT ![c].astray = (cause = "missing")]
    BY <1>4
  <2>2. PICK e \in SdkErrors(cause) :
             /\ Unreadable(c, errProjectUnresolved(e))
             /\ call' = [call EXCEPT ![c].astray = (cause = "missing")]
    BY <2>1
  <2>3. errProjectUnresolved(e) \in Wrappings(e) /\ IsMissing(errProjectUnresolved(e))
    BY <1>e, <2>2 DEF Wrappings
  <2>4. cause = "missing"
    BY <2>3, ClassifySeesThrough
  <2>5. call' = [call EXCEPT ![c] = [call[c] EXCEPT !.astray = TRUE]]
    BY <1>0, <2>2, <2>4
  <2> QED
    BY <1>0, <2>5, LocalUpdates
<1> QED
  BY <1>1, <1>2, <1>3, <1>4 DEF probeVolumeDeletable

\* The handlers that overrule a pause saw the volume released, or were led
\* astray by the portal.
LEMMA OverruleStep ==
  ASSUME IInv, [Next]_vars
  PROVE  PauseIsOverruledByProbeOnly'
<1>0. TypeOK /\ VolumeIsHeld /\ Witnessed /\ PauseIsOverruledByProbeOnly
  BY DEF IInv
<1>1. ASSUME NEW c \in Calls, NEW v \in Volumes, DeleteVolume(c, v)
      PROVE  PauseIsOverruledByProbeOnly'
  <2>1. /\ pc'[c] = "evict" /\ entries' = entries
        /\ \A d \in Calls \ {c} : pc'[d] = pc[d] /\ call'[d] = call[d]
    BY <1>0, <1>1 DEF DeleteVolume, Goto, TypeOK
  <2> QED
    BY <1>0, <2>1 DEF PauseIsOverruledByProbeOnly, Entry, Vol
<1>2. ASSUME NEW c \in Calls, Working(c)
      PROVE  PauseIsOverruledByProbeOnly'
  <2>0. /\ pc[c] # "idle" /\ Vol(c) \in Volumes
        /\ call'[c].vol = Vol(c) /\ call'[c].now = call[c].now
    BY <1>0, <1>2, Apart DEF VolumeIsHeld
  <2>1. ASSUME NEW d \in Calls \ {c}, pc'[d] \in {"list", "delete"}
        PROVE  \/ ~entries'[call'[d].vol].tripped
               \/ entries'[call'[d].vol].nextAttempt <= call'[d].now
               \/ call'[d].saw \/ call'[d].astray
    <3>1. /\ pc'[d] = pc[d] /\ call'[d] = call[d]
          /\ Vol(d) \in Volumes /\ Vol(d) # Vol(c)
      BY <1>0, <1>2, <2>1, Apart
    <3>2. entries'[Vol(d)] = entries[Vol(d)] \/ entries'[Vol(d)] = NoEntry
      BY <1>0, <1>2, <3>1, EntriesStep
    <3>3. CASE entries'[Vol(d)] = entries[Vol(d)]
      BY <1>0, <2>1, <3>1, <3>3 DEF PauseIsOverruledByProbeOnly, Entry, Vol
    <3>4. CASE entries'[Vol(d)] = NoEntry
      BY <3>1, <3>4, NoEntryFacts DEF Vol
    <3> QED
      BY <3>2, <3>3, <3>4
  <2>2. ASSUME pc'[c] \in {"list", "delete"}
        PROVE  \/ ~entries'[call'[c].vol].tripped
               \/ entries'[call'[c].vol].nextAttempt <= call'[c].now
               \/ call'[c].saw \/ call'[c].astray
    <3>0. /\ pc[c] \in Deciding /\ call'[c].saw = call[c].saw
      BY <1>0, <1>2, <2>2, DecidingStep DEF Deciding
    <3>1. CASE AllowStep(c)
      <4>1. Allow(Entry(c), call[c].now) = "Full" /\ entries' = entries
        BY <1>0, <2>2, <3>1 DEF AllowStep, Goto, TypeOK, shared
      <4>2. ~(Entry(c).tripped /\ call[c].now < Entry(c).nextAttempt)
        BY <4>1 DEF Allow
      <4>3. Entry(c).nextAttempt \in Int /\ call[c].now \in Nat
        BY <1>0, <2>0 DEF TypeOK, BreakerEntry, CallRecord, Entry
      <4> QED
        BY <2>0, <4>1, <4>2, <4>3 DEF Entry
    <3>2. CASE probeVolumeDeletable(c)
      <4>1. pc'[c] = "list"
        BY <1>0, <2>2, <3>2 DEF probeVolumeDeletable, Unreadable, Goto, TypeOK
      <4>2. state[Vol(c)] # "attached" \/ call'[c].astray
        BY <1>0, <2>0, <3>2, <4>1, ProbeLetsThrough
      <4> QED
        BY <1>0, <3>0, <4>2 DEF Witnessed
    <3>3. CASE ListSnapshots(c)
      <4>1. pc[c] = "list" /\ entries' = entries /\ call'[c].astray = call[c].astray
        BY <1>0, <2>2, <3>3 DEF ListSnapshots, Goto, TypeOK, shared
      <4> QED
        BY <1>0, <2>0, <3>0, <4>1 DEF PauseIsOverruledByProbeOnly, Entry
    <3>4. AllowStep(c) \/ probeVolumeDeletable(c) \/ ListSnapshots(c)
      BY <1>0, <1>2, <2>2 DEF Working, evictStaleDeleteState, SweepGauge, CloudDelete, ReadTracked,
         RecordFailure, ReadSince, SetGauge, EmitFailure, ReadWasTripped, ClearEntry, ClearGauge,
         Goto, TypeOK
    <3> QED
      BY <3>1, <3>2, <3>3, <3>4
  <2> QED
    BY <2>1, <2>2 DEF PauseIsOverruledByProbeOnly, Entry, Vol
<1>3. ASSUME NEW c \in Calls, Return(c)
      PROVE  PauseIsOverruledByProbeOnly'
  <2>1. /\ pc'[c] = "idle" /\ entries' = entries
        /\ \A d \in Calls \ {c} : pc'[d] = pc[d] /\ call'[d] = call[d]
    BY <1>0, <1>3 DEF Return, Goto, TypeOK
  <2> QED
    BY <1>0, <2>1 DEF PauseIsOverruledByProbeOnly, Entry, Vol
<1>4. CASE Environment
  <2>1. UNCHANGED <<pc, entries>> /\ Witness
    BY <1>0, <1>4, EnvironmentMoves DEF shared
  <2>2. \A d \in Calls : /\ call'[d].vol = call[d].vol /\ call'[d].now = call[d].now
                         /\ call[d].saw => call'[d].saw
                         /\ call'[d].astray = call[d].astray
    BY <1>0, <2>1, WitnessFacts
  <2> QED
    BY <1>0, <2>1, <2>2 DEF PauseIsOverruledByProbeOnly, Entry, Vol
<1>5. CASE Tick \/ ResolveProject \/ UNCHANGED vars
  BY <1>0, <1>5 DEF Tick, ResolveProject, vars, shared, PauseIsOverruledByProbeOnly, Entry, Vol
<1> QED
  BY <1>1, <1>2, <1>3, <1>4, <1>5, Kinds

\* A failed attempt agrees with its cause until it is recorded.
LEMMA CauseStep ==
  ASSUME IInv, [Next]_vars
  PROVE  CauseIsKnown'
<1>0. TypeOK /\ VolumeIsHeld /\ CauseIsKnown
  BY DEF IInv
<1>1. ASSUME NEW c \in Calls, NEW v \in Volumes, DeleteVolume(c, v)
      PROVE  CauseIsKnown'
  <2>1. pc'[c] = "evict" /\ \A d \in Calls \ {c} : pc'[d] = pc[d] /\ call'[d] = call[d]
    BY <1>0, <1>1 DEF DeleteVolume, Goto, TypeOK
  <2> QED
    BY <1>0, <2>1 DEF CauseIsKnown
<1>2. ASSUME NEW c \in Calls, Working(c)
      PROVE  CauseIsKnown'
  <2>1. \A d \in Calls \ {c} : pc'[d] = pc[d] /\ call'[d] = call[d]
    BY <1>0, <1>2, Apart
  <2>2. ASSUME pc'[c] \in {"tracked", "failed"}
        PROVE  call'[c].terminal <=> call'[c].grave
    <3>1. ASSUME FailedAttempt(c)
          PROVE  call'[c].terminal <=> call'[c].grave
      BY <1>0, <3>1 DEF FailedAttempt, TypeOK
    <3>2. CASE ListSnapshots(c)
      <4>1. \/ LookupFails(c)
            \/ \E cause \in Reasons(Vol(c)) : \E e \in SdkErrors(cause) : Fails(c, cause, e)
        BY <1>0, <2>2, <3>2 DEF ListSnapshots, Goto, TypeOK
      <4> QED
        BY <1>0, <3>1, <4>1, ListingFails, LookupFailsAgrees
    <3>3. CASE CloudDelete(c)
      <4>1. \/ LookupFails(c) \/ DeleteFails(c) \/ AnswerLost(c)
            \/ Fails(c, "busy", WaitFailedToDelete)
        BY <1>0, <2>2, <3>3 DEF CloudDelete, Goto, TypeOK
      <4> QED
        BY <1>0, <3>1, <4>1, DeletionFails, LookupFailsAgrees
    <3>4. CASE ReadTracked(c)
      <4>1. pc[c] = "tracked" /\ call' = [call EXCEPT ![c].first = ~Tracked(Entry(c))]
        BY <3>4 DEF ReadTracked
      <4>2. call[c] \in CallRecord /\ call \in [Calls -> CallRecord]
        BY <1>0 DEF TypeOK
      <4>3. call'[c].terminal = call[c].terminal /\ call'[c].grave = call[c].grave
        BY <4>1, <4>2 DEF CallRecord
      <4> QED
        BY <1>0, <4>1, <4>3 DEF CauseIsKnown
    <3>5. ListSnapshots(c) \/ CloudDelete(c) \/ ReadTracked(c)
      BY <1>0, <1>2, <2>2 DEF Working, evictStaleDeleteState, SweepGauge, AllowStep,
         probeVolumeDeletable, Unreadable, RecordFailure, ReadSince, SetGauge, EmitFailure,
         ReadWasTripped, ClearEntry, ClearGauge, Goto, TypeOK
    <3> QED
      BY <3>2, <3>3, <3>4, <3>5
  <2> QED
    BY <1>0, <2>1, <2>2 DEF CauseIsKnown
<1>3. ASSUME NEW c \in Calls, Return(c)
      PROVE  CauseIsKnown'
  <2>1. pc'[c] = "idle" /\ \A d \in Calls \ {c} : pc'[d] = pc[d] /\ call'[d] = call[d]
    BY <1>0, <1>3 DEF Return, Goto, TypeOK
  <2> QED
    BY <1>0, <2>1 DEF CauseIsKnown
<1>4. CASE Environment
  <2>1. UNCHANGED pc /\ Witness
    BY <1>0, <1>4, EnvironmentMoves
  <2>2. \A d \in Calls : call'[d].terminal = call[d].terminal /\ call'[d].grave = call[d].grave
    BY <1>0, <2>1, WitnessFacts
  <2> QED
    BY <1>0, <2>1, <2>2 DEF CauseIsKnown
<1>5. CASE Tick \/ ResolveProject \/ UNCHANGED vars
  BY <1>0, <1>5 DEF Tick, ResolveProject, vars, CauseIsKnown
<1> QED
  BY <1>1, <1>2, <1>3, <1>4, <1>5, Kinds

\* The breaker and the history of causes move together.
LEMMA PauseStep ==
  ASSUME IInv, [Next]_vars
  PROVE  PauseFollowsCause'
<1> USE DEF shared, world
<1>0. TypeOK /\ VolumeIsHeld /\ CauseIsKnown /\ PauseFollowsCause
  BY DEF IInv
<1>t. entries \in [Volumes -> BreakerEntry] /\ grave \in SUBSET Volumes /\ call \in [Calls -> CallRecord]
  BY <1>0 DEF TypeOK
<1>u. ASSUME UNCHANGED <<entries, grave>>
      PROVE  PauseFollowsCause'
  BY <1>0, <1>u DEF PauseFollowsCause
<1>n. NoEntry.tripped = FALSE
  BY NoEntryFacts
<1>1. ASSUME NEW c \in Calls, NEW v \in Volumes, DeleteVolume(c, v)
      PROVE  PauseFollowsCause'
  BY <1>1, <1>u DEF DeleteVolume
<1>2. ASSUME NEW c \in Calls, Working(c)
      PROVE  PauseFollowsCause'
  <2>1. CASE evictStaleDeleteState(c)
    <3>1. /\ entries' = EvictStale(entries, call[c].now)
          /\ grave' = grave \ StaleKeys(entries, call[c].now)
      BY <2>1 DEF evictStaleDeleteState
    <3>2. call[c].now \in Nat
      BY <1>t DEF CallRecord
    <3>3. \A v \in Volumes : entries'[v] =
            IF v \in StaleKeys(entries, call[c].now) THEN NoEntry ELSE entries[v]
      BY <1>t, <3>1, <3>2, EvictFacts
    <3> QED
      BY <1>0, <1>n, <3>1, <3>3 DEF PauseFollowsCause
  <2>2. CASE RecordFailure(c)
    <3> DEFINE v == Vol(c)
               f == Failure(entries[v], call[c].terminal, call[c].now)
    <3>1. /\ pc[c] = "failed" /\ entries' = [entries EXCEPT ![v] = f]
          /\ grave' = IF call[c].grave THEN grave \cup {v} ELSE grave
      BY <2>2 DEF RecordFailure, Entry
    <3>2. v \in Volumes /\ (call[c].terminal <=> call[c].grave)
      BY <1>0, <3>1 DEF VolumeIsHeld, CauseIsKnown
    <3>3. /\ entries[v] \in BreakerEntry /\ call[c].terminal \in BOOLEAN /\ call[c].now \in Nat
          /\ entries[v].failures \in Nat /\ entries[v].tripped \in BOOLEAN
      BY <1>t, <3>2 DEF CallRecord, BreakerEntry
    <3>4. /\ f \in BreakerEntry
          /\ call[c].terminal => f.tripped
          /\ entries[v].tripped => f.tripped
          /\ f.failures >= entries[v].failures
          /\ f.tripped /\ ~entries[v].tripped /\ ~call[c].terminal => f.failures >= BreakerTripAfter
      BY <3>3, FailureFacts
    <3>5. f.failures \in Nat /\ BreakerTripAfter \in Nat
      BY <3>4, BreakerAssumption DEF BreakerEntry
    <3>6. \A u \in Volumes : entries'[u] = IF u = v THEN f ELSE entries[u]
      BY <1>t, <3>1
    <3> HIDE DEF v, f
    <3>7. /\ v \in grave' => f.tripped
          /\ f.tripped /\ f.failures < BreakerTripAfter => v \in grave'
      <4>1. /\ v \in grave => entries[v].tripped
            /\ entries[v].tripped /\ entries[v].failures < BreakerTripAfter => v \in grave
        BY <1>0, <3>2 DEF PauseFollowsCause
      <4>2. v \in grave' <=> v \in grave \/ call[c].grave
        BY <3>1
      <4>3. f.failures < BreakerTripAfter =>
              entries[v].failures < BreakerTripAfter /\ ~(f.failures >= BreakerTripAfter)
        BY <3>3, <3>4, <3>5
      <4> QED
        BY <3>2, <3>4, <4>1, <4>2, <4>3, Zenon
    <3>8. \A u \in Volumes : u # v => (u \in grave' <=> u \in grave)
      BY <3>1
    <3> QED
      BY <1>0, <3>6, <3>7, <3>8 DEF PauseFollowsCause
  <2>3. CASE ClearEntry(c)
    <3>1. entries' = [entries EXCEPT ![Vol(c)] = NoEntry] /\ grave' = grave \ {Vol(c)}
      BY <2>3 DEF ClearEntry, Success
    <3> QED
      BY <1>0, <1>t, <1>n, <3>1 DEF PauseFollowsCause
  <2>4. CASE ~(evictStaleDeleteState(c) \/ RecordFailure(c) \/ ClearEntry(c))
    <3>1. UNCHANGED <<entries, grave>>
      BY <1>2, <2>4 DEF Working, SweepGauge, AllowStep, probeVolumeDeletable, ListSnapshots,
         CloudDelete, ReadTracked, ReadSince, SetGauge, EmitFailure, ReadWasTripped, ClearGauge
    <3> QED
      BY <1>u, <3>1
  <2> QED
    BY <2>1, <2>2, <2>3, <2>4
<1>3. ASSUME NEW c \in Calls, Return(c)
      PROVE  PauseFollowsCause'
  BY <1>3, <1>u DEF Return
<1>4. CASE Environment
  BY <1>0, <1>4, <1>u, EnvironmentMoves
<1>5. CASE Tick \/ ResolveProject \/ UNCHANGED vars
  BY <1>5, <1>u DEF Tick, ResolveProject, vars
<1> QED
  BY <1>1, <1>2, <1>3, <1>4, <1>5, Kinds

-----------------------------------------------------------------------------
(* The theorems. *)

\* No handler runs and no volume has an entry at the start.
LEMMA InitHolds ==
  ASSUME Init
  PROVE  IInv
<1>1. WorldTyped
  <2>1. clock \in 0..MaxClock /\ faults \in 0..MaxFaults
    BY DeleteAssumption DEF Init
  <2>2. state \in [Volumes -> VolumeStates] /\ snapped \in SUBSET Volumes
    BY DEF Init, VolumeStates
  <2>3. resolved \in BOOLEAN
    BY Zenon DEF Init
  <2> QED
    BY <2>1, <2>2, <2>3, Zenon DEF WorldTyped
<1>2. SharedTyped
  BY NoEntryFacts DEF Init, SharedTyped, NewBreaker
<1>3. NoCall \in CallRecord
  BY DEF NoCall, CallRecord
<1>4. CallsTyped
  BY <1>3 DEF Init, CallsTyped, PCs
<1>5. \A c \in Calls : pc[c] = "idle"
  BY DEF Init
<1>6. VolumeIsHeld /\ Witnessed /\ CauseIsKnown /\ PauseIsOverruledByProbeOnly /\ SnapshotsProtect
  BY <1>5 DEF VolumeIsHeld, Witnessed, CauseIsKnown, PauseIsOverruledByProbeOnly,
     SnapshotsProtect, Deciding
<1>7. PauseFollowsCause
  BY NoEntryFacts DEF Init, PauseFollowsCause, NewBreaker
<1> QED
  BY <1>1, <1>2, <1>4, <1>6, <1>7, TypeParts DEF IInv

\* The inductive invariant is an invariant of the delete handlers.
THEOREM Invariance == Spec => []IInv
<1>1. Init => IInv
  BY InitHolds
<1>2. IInv /\ [Next]_vars => IInv'
  <2> SUFFICES ASSUME IInv, [Next]_vars
               PROVE  IInv'
    OBVIOUS
  <2> QED
    BY TypeStep, HeldStep, WitnessStep, CauseStep, OverruleStep, SnapshotStep, PauseStep DEF IInv
<1> QED
  BY <1>1, <1>2, PTL DEF Spec

\* No delete is issued for a volume that had a snapshot during the whole
\* call (controller.go, DeleteVolume), and every variable keeps its type.
THEOREM SnapshotsAreKept == Spec => []DeleteInv
<1>1. IInv => DeleteInv
  BY DEF IInv, DeleteInv
<1> QED
  BY <1>1, Invariance, PTL

\* An open breaker is passed only in a call during which the volume was on no
\* instance, or whose probe the portal answered 404: of all the errors, in all
\* their wrappers, with which the probe can fail to read the volume no other
\* lets a delete through (controller.go, probeVolumeDeletable).
THEOREM OnlyTheProbeOverrules == Spec => []PauseIsOverruledByProbeOnly
<1>1. IInv => PauseIsOverruledByProbeOnly
  BY DEF IInv
<1> QED
  BY <1>1, Invariance, PTL

\* The deletes of a volume are paused early exactly when one of them failed
\* for a cause only a human can remove, whatever codes and wrappers the errors
\* came in (errclass.go, breaker.go).
THEOREM CausesDecidePauses == Spec => []PauseFollowsCause
<1>1. IInv => PauseFollowsCause
  BY DEF IInv
<1> QED
  BY <1>1, Invariance, PTL
=============================================================================
