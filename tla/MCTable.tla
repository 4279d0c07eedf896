------------------------------- MODULE MCTable -------------------------------
(* Instances of TerminalTable for TLC. *)
EXTENDS TerminalTableRegistry
=============================================================================
