------------------------------- MODULE MCQueue -------------------------------
(* Instances of QueueOwnership for TLC. *)
EXTENDS QueueOwnership, TLC

InstanceSymmetry == Permutations(Instances) \cup Permutations(Senders)
=============================================================================
