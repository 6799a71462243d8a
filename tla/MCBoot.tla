------------------------------- MODULE MCBoot -------------------------------
(* Instances of Boot for TLC, with the layouts of MCGptFix. *)
EXTENDS Boot, MCGptFix
=============================================================================
