----------------------------- MODULE ErrorClass -----------------------------
(***************************************************************************)
(* What the driver makes of an IaaS error: the wrappers that stamp a       *)
(* driver code over the SDK's (pkg/cloud/errors/cloud.go, project_scope.go)*)
(* and Classify (pkg/cloud/errclass.go), which has to see through them.    *)
(*                                                                         *)
(* An error is its code, the "sdkErrorCode" parameter ("" when there is    *)
(* none) and the "statusCode" parameter (0 when there is none).  Messages  *)
(* and the other parameters are left out.                                  *)
(***************************************************************************)
EXTENDS Naturals

Error(code, sdkErrorCode, statusCode) ==
  [code |-> code, sdkErrorCode |-> sdkErrorCode, statusCode |-> statusCode]

(***************************************************************************)
(* The SDK, by what really went wrong: 429 and 403 have one code, 401 has  *)
(* two, and the catch-all stands for a missing answer and for every        *)
(* response the SDK has no mapping for.                                    *)
(***************************************************************************)
Raw(code, statusCode) == Error(code, "", statusCode)

SdkErrors(cause) ==
  CASE cause = "quota"        -> {Raw("VolumeExceedQuota", 0), Raw("VolumeSizeExceedGlobalQuota", 0),
                                  Raw("ServerVolumeAttachQuotaExceeded", 0)}
    [] cause = "forbidden"    -> {Raw("PermissionDenied", 403), Raw("UnexpectedError", 403)}
    [] cause = "unauthorized" -> {Raw("PermissionDenied", 401), Raw("UnexpectedError", 401)}
    [] cause = "throttled"    -> {Raw("PermissionDenied", 429)}
    [] cause = "shed"         -> {Raw("CsiClientRateLimited", 0)}
    [] cause = "serverError"  -> {Raw("InternalServerError", 500), Raw("ServiceMaintenance", 503),
                                  Raw("UnexpectedError", 502)}
    [] cause = "busy"         -> {Raw("VolumeInProcess", 0), Raw("VolumeIsMigrating", 0)}
    [] cause = "missing"      -> {Raw("VolumeNotFound", 0), Raw("ServerNotFound", 0),
                                  Raw("UnexpectedError", 404)}
    [] cause = "unreachable"  -> {Raw("UnexpectedError", 0)}
    [] cause = "other"        -> {Raw("UnexpectedError", 409), Raw("UnknownError", 0)}

\* A human has to raise a quota, grant a permission or replace a credential.
NeedsHuman == {"quota", "forbidden", "unauthorized"}

Causes ==
  NeedsHuman \cup {"throttled", "shed", "serverError", "busy", "missing", "unreachable", "other"}

(***************************************************************************)
(* The driver's wrappers keep the SDK's code and parameters.               *)
(***************************************************************************)
Wrapped(code, sdkErr) == Error(code, sdkErr.code, sdkErr.statusCode)

ErrVolumeFailedToGet(sdkErr) == Wrapped("VServerVolumeFailedToGet", sdkErr)

ErrVolumeFailedToDelete(sdkErr) == Wrapped("VServerVolumeFailedToDelete", sdkErr)

\* What a wait that gave up returns: wrap(nil).
WaitFailedToDelete == Error("VServerVolumeFailedToDelete", "", 0)

errProjectUnresolved(sdkErr) == Wrapped("CsiProjectUnresolved", sdkErr)

(***************************************************************************)
(* Classify.                                                               *)
(***************************************************************************)
effectiveCode(err) == IF err.sdkErrorCode # "" THEN err.sdkErrorCode ELSE err.code

Class(terminal, reason) == [terminal |-> terminal, reason |-> reason]

\* The codes that are terminal whatever the status.
TerminalCodes ==
  [VolumeExceedQuota               |-> "VolumeQuotaExceeded",
   VolumeSizeExceedGlobalQuota     |-> "VolumeSizeQuotaExceeded",
   ServerVolumeAttachQuotaExceeded |-> "VolumeAttachQuotaExceeded",
   VServerVolumeIsInErrorState     |-> "VolumeInErrorState"]

\* The codes whose class needs no status.
ByCode(code) ==
  CASE code \in {"InternalServerError", "ServiceMaintenance"} -> "IaaSServerError"
    [] code \in {"VolumeInProcess", "VolumeIsMigrating"} -> "IaaSOperationStalled"
    [] code \in {"VolumeNotFound", "ServerNotFound", "VServerVolumeNotFound"} -> "IaaSResourceNotFound"
    [] code = "CsiClientRateLimited" -> "IaaSThrottled"
    [] code \in {"VServerVolumeFailedToDetach", "VServerVolumeFailedToDelete"} -> "IaaSOperationStalled"
    [] OTHER -> "IaaSUnknownError"

\* The catch-all, told apart by its status.
ByStatus(status) ==
  CASE status >= 500 -> "IaaSServerError"
    [] status = 0    -> "IaaSUnreachable"
    [] status = 404  -> "IaaSResourceNotFound"
    [] OTHER         -> "IaaSUnknownError"

\* The class of everything that clears up by itself, or that nobody knows.
Transient(code, status) ==
  Class(FALSE, IF code = "UnexpectedError" THEN ByStatus(status) ELSE ByCode(code))

\* Mutant: the code EcPermissionDenied is matched instead of the status.
ClassifyByCode(err) ==
  LET code == effectiveCode(err)
  IN  IF code \in DOMAIN TerminalCodes THEN Class(TRUE, TerminalCodes[code])
      ELSE IF code = "PermissionDenied" THEN Class(TRUE, "IaaSPermissionDenied")
      ELSE Transient(code, err.statusCode)

Classify(err) ==
  LET code == effectiveCode(err)
  IN  IF code \in DOMAIN TerminalCodes THEN Class(TRUE, TerminalCodes[code])
      ELSE CASE err.statusCode = 429 -> Class(FALSE, "IaaSThrottled")
             [] err.statusCode = 403 -> Class(TRUE, "IaaSPermissionDenied")
             [] err.statusCode = 401 -> Class(TRUE, "IaaSAuthFailed")
             [] OTHER -> Transient(code, err.statusCode)
=============================================================================
