------------------------------ MODULE SmokeCli ------------------------------
(***************************************************************************)
(* swave_cli: the smoke program feeds N frames of a core::SyntheticSource  *)
(* to a ProcessingPipeline, one at a time, and after each one empties the  *)
(* output queue.  A call that returns false ends the program with code 1.  *)
(* The program starts here after parse_arguments() and the initialization  *)
(* of its backends succeeded.                                              *)
(***************************************************************************)
EXTENDS ProcessingPipeline

CONSTANT Fps             \* arguments.fps

ASSUME CliAssumption == Fps \in Nat /\ "frame" \in Shapes

VARIABLES frames,        \* arguments.frames
          interpolation, \* arguments.interpolation
          phase,         \* the statement main() is about to execute
          index,         \* the loop counter
          received,      \* frames taken from the output queue
          exit_code      \* the exit code, once phase is "exited"

cliVars == <<vars, frames, interpolation, phase, index, received, exit_code>>

CliInit ==
    /\ state = "disconnected"
    /\ input = EmptyQueue /\ output = EmptyQueue
    /\ previous = NoFrame
    /\ stats = ZeroStats
    /\ upscaler = "ready"
    /\ interpolator = IF InterpolationEnabled THEN "ready" ELSE "closed"
    /\ offered = NoFrame /\ shown = NoFrame
    /\ frames \in 1 .. MaxFrames /\ interpolation = InterpolationEnabled
    /\ phase = "start" /\ index = 0 /\ received = 0 /\ exit_code = 0

Proceed(next) == phase' = next /\ UNCHANGED <<frames, interpolation, index, received, exit_code>>

Fail == phase' = "exited" /\ exit_code' = 1 /\ UNCHANGED <<frames, interpolation, index, received>>

CliStart ==
    /\ phase = "start"
    /\ Start
    /\ IF state' = "error" THEN Fail ELSE Proceed("submit")

\* A source that is asked for no frame rate falls back to 30 per second.
frame_duration == 1000000 \div (IF Fps = 0 THEN 30 ELSE Fps)

\* source.next(): the source counts the frames it made, as the loop does.
SourceFrame ==
    [sequence |-> index, media_pts |-> frame_duration * index,
     shape |-> "frame", interpolated |-> FALSE]

CliSubmit ==
    /\ phase = "submit" /\ index < frames
    /\ Submit(SourceFrame)
    /\ IF stats'.submitted > stats.submitted THEN Proceed("process") ELSE Fail

\* process_one() returns true exactly when it leaves the pipeline running.
CliProcess ==
    /\ phase = "process"
    /\ ProcessOne
    /\ IF state' = "running" THEN Proceed("receive") ELSE Fail

\* Mutant: the loop takes one output frame where it should take all of them.
CliReceiveOne ==
    /\ phase = "receive"
    /\ Receive
    /\ phase' = "submit" /\ index' = index + 1
    /\ received' = received + 1
    /\ UNCHANGED <<frames, interpolation, exit_code>>

CliReceive ==
    /\ phase = "receive"
    /\ \/ /\ Receive
          /\ received' = received + 1
          /\ UNCHANGED <<frames, interpolation, phase, index, exit_code>>
       \/ /\ output.queue = <<>>
          /\ index' = index + 1 /\ phase' = "submit"
          /\ UNCHANGED <<vars, frames, interpolation, received, exit_code>>

\* Mutant: the exit codes are swapped.
CliStopSwapped ==
    /\ phase = "submit" /\ index = frames
    /\ Stop
    /\ phase' = "exited"
    /\ exit_code' = IF stats.backend_errors = 0 /\ received # 0 THEN 1 ELSE 0
    /\ UNCHANGED <<frames, interpolation, index, received>>

CliStop ==
    /\ phase = "submit" /\ index = frames
    /\ Stop
    /\ phase' = "exited"
    /\ exit_code' = IF stats.backend_errors = 0 /\ received # 0 THEN 0 ELSE 1
    /\ UNCHANGED <<frames, interpolation, index, received>>

CliNext == CliStart \/ CliSubmit \/ CliProcess \/ CliReceive \/ CliStop

\* main() is one thread that the system eventually runs.
CliSpec == CliInit /\ [][CliNext]_cliVars /\ WF_cliVars(CliNext)

-----------------------------------------------------------------------------
(***************************************************************************)
(* Properties.                                                             *)
(***************************************************************************)

\* docs/qa.md: a run that succeeds received 2N - 1 frames with interpolation and
\* N without, and dropped nothing on either side.
SmokeContract ==
    phase = "exited" /\ exit_code = 0 =>
        /\ received = IF interpolation THEN 2 * frames - 1 ELSE frames
        /\ stats.dropped_input = 0 /\ stats.dropped_output = 0
        /\ stats.backend_errors = 0

\* Only a backend can make the program fail: the loop never overruns a queue
\* of the pipeline, so no call returns false for want of room.
OnlyBackendsFail ==
    exit_code = 1 => stats.backend_errors = 1 /\ state = "error"

\* Whatever the backends do, the program comes to an end; with backends that
\* do not fail, it succeeds.
ProgramEnds == <>(phase = "exited" /\ (Provider = "fake" => exit_code = 0))
=============================================================================
