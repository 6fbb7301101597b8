---------------------------- MODULE MCLocalSource ----------------------------
(* Instances of LocalSource for TLC. *)
EXTENDS LocalSource

CONSTANTS s1, s2

OneSession == {s1}
TwoSessions == {s1, s2}
TwoParts == {"main", "lib"}
(* The second directory does not have all the files of the first. *)
TreesOfTwo == [s \in Sessions |-> IF s = s1 THEN Parts ELSE {"main"}]
OneRevision == {"rev"}
TwoRevisions == {"rev", "rev2"}
OneClaim == {"pvc"}
NoClaim == {}
BothClients == {"oc", "kubectl"}
Kubectl == {"kubectl"}
Uploads == {"local", "sync"}
Alone == {}
ReadsWork == {FALSE}
=============================================================================
