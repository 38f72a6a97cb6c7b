-------------------------- MODULE MCVideoBackends --------------------------
(* One manifest for each thing initialize() and load() look at: two upscalers *)
(* that suit, one of them with a scale that is not whole and no names, one    *)
(* that fails validate(), one in another layout; an interpolator that suits   *)
(* and one without input_names.  The backends are the ONNX ones, or the fake  *)
(* ones in a build that knows no other.                                       *)
EXTENDS VideoBackends

Manifest(id, kind, valid, nchw, inputs, scale) ==
    [id |-> id, kind |-> kind, valid |-> valid, nchw |-> nchw, inputs |-> inputs, scale |-> scale]

OfferedManifests ==
    {Manifest("srvgv2", "upscaler", TRUE, TRUE, 1, 20),
     Manifest("srvgv1.5", "upscaler", TRUE, TRUE, 0, 15),
     Manifest("invalid", "upscaler", FALSE, TRUE, 1, 20),
     Manifest("nhwc", "upscaler", TRUE, FALSE, 1, 20),
     Manifest("rife", "interpolator", TRUE, TRUE, 3, 10),
     Manifest("nameless", "interpolator", TRUE, TRUE, 0, 10)}

VARIABLE build

Fake == INSTANCE VideoBackends WITH Provider <- "fake", HasOnnxRuntime <- FALSE

MCInit == Init /\ build \in {"fake", "onnx"}

MCNext ==
    /\ UNCHANGED build
    /\ \/ build = "onnx" /\ Next
       \/ build = "fake" /\ Fake!Next

MCSpec == MCInit /\ [][MCNext]_<<vars, build>>
=============================================================================
