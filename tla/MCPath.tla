------------------------------- MODULE MCPath -------------------------------
(* Instances of CommandPath for TLC. *)
EXTENDS CommandPathDelivery, CommandPathRegistry, TLC

TermSymmetry == Permutations(Terms)
=============================================================================
