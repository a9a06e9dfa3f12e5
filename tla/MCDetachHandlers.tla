-------------------------- MODULE MCDetachHandlers --------------------------
(* Instances of DetachHandlers for TLC. *)
EXTENDS DetachHandlers, TLC

OneStep == <<1>>

TwoSteps == <<1, 1>>

GrowingSteps == <<1, 2>>

Symmetry == Permutations(Calls) \cup Permutations(Pairs)
=============================================================================
