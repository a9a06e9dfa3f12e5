------------------------------ MODULE MCCreate ------------------------------
(***************************************************************************)
(* CreateVolume and the caches a create asks (the project, the volume      *)
(* types) for TLC.  Where a create asks a cache, its step answers or       *)
(* fails, which is all a cache can do: the two share no state, and what    *)
(* one can do does not depend on where the other is.  So a behaviour       *)
(* follows one of them while the other stays where it began, and the run   *)
(* has the states of both instead of their product.                        *)
(***************************************************************************)
EXTENDS CreateVolume, MetaCache

VARIABLE part  \* the machine this behaviour follows

CreateInit ==
  /\ Init /\ CacheInit
  /\ part \in {"create", "cache"}
  /\ part = "create" => ~permanent

CreateNext ==
  \/ part = "create" /\ Next /\ UNCHANGED <<part, cacheVars>>
  \/ part = "cache" /\ CacheNext /\ UNCHANGED <<part, vars>>

CreateSpec ==
  /\ CreateInit /\ [][CreateNext]_<<part, vars, cacheVars>>
  /\ \A c \in Callers : WF_cacheVars(part = "cache" /\ Step(c))
=============================================================================
