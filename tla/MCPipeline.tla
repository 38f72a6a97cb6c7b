----------------------------- MODULE MCPipeline -----------------------------
(* Backends of either kind, a source that changes shape, an output queue that  *)
(* fills between the two publications of one process_one().  ONNX backends     *)
(* may fail at every call; the fake ones fail only when they were never        *)
(* initialized or were closed, and the frame they interpolate takes the number *)
(* of the later one.                                                           *)
EXTENDS ProcessingPipeline

VARIABLE provider

Fake == INSTANCE ProcessingPipeline WITH Provider <- "fake"

MCInit == Init /\ provider \in {"fake", "onnx"}

MCNext ==
    /\ UNCHANGED provider
    /\ \/ provider = "onnx" /\ Next
       \/ provider = "fake" /\ Fake!Next

MCSpec == MCInit /\ [][MCNext]_<<vars, provider>>
=============================================================================
