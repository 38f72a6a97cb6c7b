----------------------------- MODULE MCSmokeCli -----------------------------
(* The smoke program, with every number of frames up to MaxFrames: as it is    *)
(* configured, with fake backends and queues of 4 and 16; with interpolation   *)
(* off and a source that is asked for no frame rate; and with backends that    *)
(* may fail at any call, on queues that only just suffice.                     *)
EXTENDS SmokeCli

VARIABLE setup

Plain == INSTANCE SmokeCli WITH InterpolationEnabled <- FALSE, Fps <- 0

Onnx == INSTANCE SmokeCli WITH Provider <- "onnx", InputCapacity <- 1, OutputCapacity <- 2

MCInit ==
    \/ setup = "fake" /\ CliInit
    \/ setup = "plain" /\ Plain!CliInit
    \/ setup = "onnx" /\ Onnx!CliInit

MCNext ==
    /\ UNCHANGED setup
    /\ \/ setup = "fake" /\ CliNext
       \/ setup = "plain" /\ Plain!CliNext
       \/ setup = "onnx" /\ Onnx!CliNext

MCSpec == MCInit /\ [][MCNext]_<<cliVars, setup>> /\ WF_<<cliVars, setup>>(MCNext)

\* The program comes to an end whatever the backends do, and ends well with fake
\* ones.
AlwaysEnds ==
    /\ setup = "fake" => ProgramEnds
    /\ setup = "plain" => Plain!ProgramEnds
    /\ setup = "onnx" => Onnx!ProgramEnds
=============================================================================
