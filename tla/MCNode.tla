------------------------------- MODULE MCNode -------------------------------
(***************************************************************************)
(* The node service for TLC.  NodeVolume and NodeLifecycle share no state, *)
(* so what one can do does not depend on where the other is: a behaviour   *)
(* follows one of them while the other stays where it began, and the run   *)
(* has the states of both instead of their product.  The fairness is that  *)
(* of NodeVolume and of NodeLifecycle, of the machine that is followed.    *)
(***************************************************************************)
EXTENDS NodeVolume, NodeLifecycle

VARIABLE part  \* the machine this behaviour follows

NodeInit ==
  /\ Init /\ LifeInit
  /\ part \in {"volume", "lifecycle"}
  /\ part = "volume" => taints = {} /\ attached = {}
  /\ part = "lifecycle" => ~block

NodeNext ==
  \/ part = "volume" /\ Next /\ UNCHANGED <<part, lifeVars>>
  \/ part = "lifecycle" /\ LifeNext /\ UNCHANGED <<part, vars>>

NodeSpec ==
  /\ NodeInit /\ [][NodeNext]_<<part, vars, lifeVars>>
  /\ \A c \in Calls : WF_vars(part = "volume" /\ Handler(c))
  /\ SF_vars(part = "volume" /\ \E c \in Calls : TearDown(c))
  /\ WF_lifeVars(part = "lifecycle" /\ Main)
  /\ WF_lifeVars(part = "lifecycle" /\ Informer)
=============================================================================
