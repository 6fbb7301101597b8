------------------------ MODULE MCBuildJobController ------------------------
(* Instances of BuildJobController for TLC. *)
EXTENDS BuildJobController

Git == [source |-> "git", oci |-> "off", arch |-> "known", caches |-> FALSE]
GitOci == [Git EXCEPT !.oci = "on"]
FromPVC == [GitOci EXCEPT !.source = "pvc", !.caches = TRUE]
OciUnset == [Git EXCEPT !.oci = "nil"]
BadArch == [Git EXCEPT !.arch = "unknown"]

OneSpec == {Git}
CheckedSpecs == {GitOci, FromPVC, OciUnset, BadArch}

(* The bound on run numbers never decides anything. *)
NumbersSuffice == pc = "prepare" => NextRunNumber(copy, Cardinality(Existing)) <= MaxRun
=============================================================================
