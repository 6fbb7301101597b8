------------------------ MODULE MCToolchainController ------------------------
(* Instances of ToolchainController for TLC: every constant is a number. *)
EXTENDS ToolchainController
=============================================================================
