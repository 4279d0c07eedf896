------------------------------- MODULE MCLink -------------------------------
(* Instances of GuiLink for TLC. *)
EXTENDS GuiLink
=============================================================================
