-------------------------- MODULE MCDeleteHandlers --------------------------
(* Instances of DeleteHandlers for TLC. *)
EXTENDS DeleteHandlers, TLC

OneStep == <<1>>

GrowingSteps == <<1, 2>>

Symmetry == Permutations(Calls) \cup Permutations(Volumes)
=============================================================================
