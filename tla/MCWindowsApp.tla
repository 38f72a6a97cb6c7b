---------------------------- MODULE MCWindowsApp ----------------------------
(* The window program with small queues: room for what a tick needs in the     *)
(* pipeline, for two frames in the capture, of which the user starts up to     *)
(* two; with fake backends, or with ONNX ones that may fail and a capture      *)
(* that changes size, over fewer frames.                                       *)
EXTENDS WindowsApp

VARIABLE provider

Onnx == INSTANCE WindowsApp WITH
    Provider <- "onnx", Shapes <- {"vga", "hd"}, MaxFrames <- 3, MaxPts <- 2

MCInit ==
    \/ provider = "fake" /\ AppInit
    \/ provider = "onnx" /\ Onnx!AppInit

MCNext ==
    /\ UNCHANGED provider
    /\ \/ provider = "fake" /\ AppNext
       \/ provider = "onnx" /\ Onnx!AppNext

MCUiStep ==
    /\ UNCHANGED provider
    /\ \/ provider = "fake" /\ UiStep
       \/ provider = "onnx" /\ Onnx!UiStep

MCSpec ==
    MCInit /\ [][MCNext]_<<appVars, provider>> /\ WF_<<appVars, provider>>(MCUiStep)
=============================================================================
