--------------------------- MODULE MCPassthrough ---------------------------
(* Queues small enough for both to be full at once, with frames to spare. *)
EXTENDS PassthroughPipeline
=============================================================================
