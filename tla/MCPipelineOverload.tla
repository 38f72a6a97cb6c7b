------------------------- MODULE MCPipelineOverload -------------------------
(* One slot of input is enough to see which frame an overloaded pipeline      *)
(* keeps, and one of output to see what stop() leaves behind.                 *)
EXTENDS ProcessingPipeline
=============================================================================
