--------------------------- MODULE MCBuildDelivery ---------------------------
(* Instances of BuildDelivery for TLC. *)
EXTENDS BuildDelivery

ThreeRuns == 1..3
TwoRuns == 1..2
TwoFiles == {"bin", "elf"}
ThroughAPI == {"api"}
ThroughKubectl == {"kubectl"}
OneFile == {"bin"}
=============================================================================
