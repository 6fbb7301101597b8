------------------------- MODULE MCPipelineExecution -------------------------
(* Instances of PipelineExecution for TLC. *)
EXTENDS PipelineExecution

(* Two stages of the user, and one named like a task of the builder. *)
Names == {"build", "test", "clone"}
PlainNames == {"build", "test"}
=============================================================================
