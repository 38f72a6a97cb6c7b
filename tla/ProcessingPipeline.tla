------------------------- MODULE ProcessingPipeline -------------------------
(***************************************************************************)
(* core::ProcessingPipeline: frames are submitted to a bounded input       *)
(* queue, process_one() upscales the oldest one, interpolates between it   *)
(* and the frame published before it, and publishes the results to a       *)
(* bounded output queue that receive() empties.  The class has no thread   *)
(* of its own and no lock: its owner calls the five operations in any      *)
(* order, each call being one step.                                        *)
(*                                                                         *)
(* Pixels are abstracted to the shape of the surface.  The state           *)
(* "stopping" is only visible inside stop(), so it never shows here.       *)
(***************************************************************************)
EXTENDS BoundedQueue, Integers

CONSTANTS InputCapacity, OutputCapacity,
          InterpolationEnabled,
          Provider,            \* "fake" or "onnx": which backends are plugged in
          Shapes,              \* surface sizes a source delivers
          MaxFrames, MaxPts    \* bounds of the model: frames offered, timestamps

ASSUME PipelineAssumption ==
    /\ InputCapacity \in Nat /\ OutputCapacity \in Nat
    /\ InterpolationEnabled \in BOOLEAN
    /\ Provider \in {"fake", "onnx"}
    /\ MaxFrames \in Nat /\ MaxPts \in Nat

VARIABLES state,
          input, output,
          previous,       \* the upscaled frame published last, or NoFrame
          stats,
          upscaler,       \* "absent" (null), "closed" (not initialized), "ready"
          interpolator,
          offered,        \* history: the last frame given to submit()
          shown           \* history: the last frame receive() returned

pipelineVars == <<state, input, output, previous, stats, upscaler, interpolator>>
vars == <<state, input, output, previous, stats, upscaler, interpolator, offered, shown>>

-----------------------------------------------------------------------------

Frame == [sequence : Nat, media_pts : Nat, shape : Shapes, interpolated : BOOLEAN]

NoFrame == [sequence |-> -1, media_pts |-> 0, shape |-> "none", interpolated |-> FALSE]

ZeroStats == [submitted |-> 0, dropped_input |-> 0, processed_input |-> 0,
              produced_output |-> 0, dropped_output |-> 0, backend_errors |-> 0]

Init ==
    /\ state = "disconnected"
    /\ input = EmptyQueue /\ output = EmptyQueue
    /\ previous = NoFrame
    /\ stats = ZeroStats
    /\ upscaler \in {"absent", "closed", "ready"}
    /\ interpolator \in {"absent", "closed", "ready"}
    /\ offered = NoFrame /\ shown = NoFrame

\* Mutant: start() checks the upscaler only.
StartUnchecked ==
    /\ state' = IF upscaler = "absent" THEN "error" ELSE "buffering"
    /\ UNCHANGED <<input, output, previous, stats, upscaler, interpolator, offered, shown>>

\* Mutant: start() reopens the queues a stop() closed.
StartReopening ==
    /\ state' = "buffering"
    /\ input' = Reset(input) /\ output' = Reset(output)
    /\ UNCHANGED <<previous, stats, upscaler, interpolator, offered, shown>>

\* start() refuses to run without its backends.  It touches nothing else: the
\* queues keep what they hold, and stay closed if stop() closed them.
Start ==
    /\ state' = IF upscaler = "absent" \/ (InterpolationEnabled /\ interpolator = "absent")
                THEN "error" ELSE "buffering"
    /\ UNCHANGED <<input, output, previous, stats, upscaler, interpolator, offered, shown>>

CloseBackend(backend) == IF backend = "ready" THEN "closed" ELSE backend

Stop ==
    /\ state' = "disconnected"
    /\ input' = Close(input) /\ output' = Close(output)
    /\ previous' = NoFrame
    /\ upscaler' = CloseBackend(upscaler)
    /\ interpolator' = CloseBackend(interpolator)
    /\ UNCHANGED <<stats, offered, shown>>

-----------------------------------------------------------------------------

SubmitRefused == state \in {"disconnected", "error"} \/ input.closed

\* Mutant: a frame that finds the input queue full is counted as submitted too.
SubmitMiscounting(frame) ==
    /\ offered' = frame
    /\ ~SubmitRefused
    /\ input' = TryPush(input, InputCapacity, frame)
    /\ stats' = [stats EXCEPT !.submitted = @ + 1]
    /\ UNCHANGED <<state, output, previous, upscaler, interpolator, shown>>

\* submit(frame): refused, queued, or dropped because the queue is full.
Submit(frame) ==
    /\ offered' = frame
    /\ \/ /\ SubmitRefused
          /\ UNCHANGED <<state, input, stats>>
       \/ /\ ~SubmitRefused /\ Accepts(input, InputCapacity)
          /\ input' = TryPush(input, InputCapacity, frame)
          /\ stats' = [stats EXCEPT !.submitted = @ + 1]
          /\ UNCHANGED state
       \/ /\ ~SubmitRefused /\ ~Accepts(input, InputCapacity)
          /\ stats' = [stats EXCEPT !.dropped_input = @ + 1]
          /\ state' = "degraded"
          /\ UNCHANGED input
    /\ UNCHANGED <<output, previous, upscaler, interpolator, shown>>

\* The frames a source offers next: numbered on, timestamps never going back.
NextFrames ==
    IF offered.sequence + 1 < MaxFrames
    THEN [sequence : {offered.sequence + 1}, media_pts : offered.media_pts .. MaxPts,
          shape : Shapes, interpolated : {FALSE}]
    ELSE {}

-----------------------------------------------------------------------------
(***************************************************************************)
(* The backends.  A backend that is not initialized always fails.  The     *)
(* fake ones never fail otherwise; an ONNX session may fail at any call,   *)
(* and the ONNX interpolator refuses two frames of different shapes.       *)
(***************************************************************************)

UpscaleMaySucceed == upscaler = "ready"
UpscaleMayFail == upscaler # "ready" \/ Provider = "onnx"

InterpolateMaySucceed(first, second) ==
    interpolator = "ready" /\ (Provider = "onnx" => first.shape = second.shape)
InterpolateMayFail == interpolator # "ready" \/ Provider = "onnx"

\* Half of the distance, truncated towards zero whichever way the clock goes.
Halfway(first, second) ==
    IF first <= second THEN first + (second - first) \div 2
                       ELSE first - (first - second) \div 2

\* Mutant: the halfway point is counted from the second frame.
InterpolatedAfter(first, second) ==
    [second EXCEPT !.media_pts = 2 * second.media_pts - Halfway(first.media_pts, second.media_pts),
                   !.interpolated = TRUE]

\* The frame at timestep 0.5: the timestamp is halfway, truncated to a
\* microsecond; the fake backend copies the rest from the second frame, the
\* ONNX backend from the first, at the size the model returns: that of its inputs.
Interpolated(first, second) ==
    [sequence     |-> IF Provider = "fake" THEN second.sequence ELSE first.sequence,
     media_pts    |-> Halfway(first.media_pts, second.media_pts),
     shape        |-> second.shape,
     interpolated |-> TRUE]

-----------------------------------------------------------------------------
(***************************************************************************)
(* process_one().  A call that returns early because the pipeline is down  *)
(* or its input is empty changes nothing.                                  *)
(***************************************************************************)

Count(published, dropped, failed) ==
    [stats EXCEPT !.processed_input = @ + 1, !.produced_output = @ + published,
                  !.dropped_output = @ + dropped, !.backend_errors = @ + failed]

\* Mutant: a refused frame is not counted as dropped.
OverflowUncounted(queue, published) ==
    /\ output' = queue
    /\ stats' = Count(published, 0, 0)
    /\ state' = "degraded"
    /\ UNCHANGED previous

\* The output queue refused a frame after `published` others of this call.
Overflow(queue, published) ==
    /\ output' = queue
    /\ stats' = Count(published, 1, 0)
    /\ state' = "degraded"
    /\ UNCHANGED previous

\* Mutant: previous_ keeps the frame before the one just published.
PublishForgetting(queue, current, published) ==
    \/ /\ Accepts(queue, OutputCapacity)
       /\ output' = TryPush(queue, OutputCapacity, current)
       /\ stats' = Count(published + 1, 0, 0)
       /\ previous' = IF previous = NoFrame THEN current ELSE previous
       /\ state' = "running"
    \/ /\ ~Accepts(queue, OutputCapacity)
       /\ Overflow(queue, published)

\* The upscaled frame is published after `published` others of this call.
PublishCurrent(queue, current, published) ==
    \/ /\ Accepts(queue, OutputCapacity)
       /\ output' = TryPush(queue, OutputCapacity, current)
       /\ stats' = Count(published + 1, 0, 0)
       /\ previous' = current
       /\ state' = "running"
    \/ /\ ~Accepts(queue, OutputCapacity)
       /\ Overflow(queue, published)

Interpolates == previous # NoFrame /\ InterpolationEnabled

PublishInterpolated(current) ==
    LET between == Interpolated(previous, current) IN
    \/ /\ Accepts(output, OutputCapacity)
       /\ PublishCurrent(TryPush(output, OutputCapacity, between), current, 1)
    \/ /\ ~Accepts(output, OutputCapacity)
       /\ Overflow(output, 0)

BackendFails ==
    /\ UpscaleMayFail \/ (Interpolates /\ InterpolateMayFail)
    /\ stats' = Count(0, 0, 1)
    /\ state' = "error"
    /\ UNCHANGED <<output, previous>>

ProcessOne ==
    /\ state \notin {"disconnected", "error"}
    /\ input.queue # <<>>
    /\ input' = AfterPop(input)
    /\ LET current == Popped(input) IN
       \/ BackendFails
       \/ /\ UpscaleMaySucceed /\ ~Interpolates
          /\ PublishCurrent(output, current, 0)
       \/ /\ UpscaleMaySucceed /\ Interpolates
          /\ InterpolateMaySucceed(previous, current)
          /\ PublishInterpolated(current)
    /\ UNCHANGED <<upscaler, interpolator, offered, shown>>

Receive ==
    /\ output.queue # <<>>
    /\ shown' = Popped(output)
    /\ output' = AfterPop(output)
    /\ UNCHANGED <<state, input, previous, stats, upscaler, interpolator, offered>>

Next ==
    \/ Start \/ Stop \/ ProcessOne \/ Receive
    \/ \E frame \in NextFrames : Submit(frame)

Spec == Init /\ [][Next]_vars

-----------------------------------------------------------------------------
(***************************************************************************)
(* Properties.                                                             *)
(***************************************************************************)

States == {"disconnected", "buffering", "running", "degraded", "error"}
Backends == {"absent", "closed", "ready"}

\* Types, and the bounds the two queues exist for.
TypeOK ==
    /\ state \in States
    /\ {input, output} \subseteq [queue : Seq(Frame), closed : BOOLEAN]
    /\ Len(input.queue) <= InputCapacity /\ Len(output.queue) <= OutputCapacity
    /\ {previous, offered, shown} \subseteq Frame \cup {NoFrame}
    /\ stats \in [submitted : Nat, dropped_input : Nat, processed_input : Nat,
                 produced_output : Nat, dropped_output : Nat, backend_errors : Nat]
    /\ {upscaler, interpolator} \subseteq Backends

\* Order of two frames that leave the pipeline one after the other: neither the
\* media clock nor the numbering goes back, and a source frame is never repeated.
Precedes(a, b) ==
    /\ a.media_pts <= b.media_pts
    /\ a.sequence <= b.sequence
    /\ ~a.interpolated /\ ~b.interpolated => a.sequence < b.sequence

\* What receive() returns is in media order and shows each source frame at most
\* once, whatever was dropped, refused or failed in between; in particular an
\* interpolated frame whose successor was dropped never overtakes the next one.
DeliveredInOrder ==
    /\ \A i \in 1 .. Len(output.queue) : Precedes(shown, output.queue[i])
    /\ \A i, j \in 1 .. Len(output.queue) : i < j => Precedes(output.queue[i], output.queue[j])

\* Every submitted frame is either still queued or was taken by process_one().
InputConserved ==
    stats.submitted = stats.processed_input + Len(input.queue)

\* Every frame process_one() took left a trace: at least one frame published,
\* one drop or one backend error; and no more than two frames (one for the
\* first) come out of it, the 2N - 1 of the smoke test.
WorkAccounted ==
    LET outcomes == stats.produced_output + stats.dropped_output + stats.backend_errors IN
    /\ stats.processed_input <= outcomes
    /\ stats.processed_input > 0 => outcomes <= 2 * stats.processed_input - 1
    /\ stats.dropped_output + stats.backend_errors <= stats.processed_input

\* While the pipeline is up, the backends process_one() dereferences exist.
BackendsPresent ==
    state \notin {"disconnected", "error"} =>
        upscaler # "absent" /\ (InterpolationEnabled => interpolator # "absent")

\* The state the owner reads is backed by what happened: a degraded pipeline
\* dropped something, a running one last published the very frame it will
\* interpolate from, and one that is in error lost a backend call or lacks one.
StateExplained ==
    /\ state = "degraded" => stats.dropped_input + stats.dropped_output > 0
    /\ state = "running" =>
          previous = IF output.queue = <<>> THEN shown ELSE output.queue[Len(output.queue)]
    /\ state = "error" => stats.backend_errors > 0 \/ "absent" \in {upscaler, interpolator}

\* A pipeline runs once: after stop() no frame is admitted or published again,
\* whatever is called, start() included.
StoppedForGood ==
    [][output.closed => /\ stats'.submitted = stats.submitted
                        /\ stats'.produced_output = stats.produced_output
                        /\ output'.closed]_vars

\* The pipeline is a frame stream: frames leave in media order, at most two for
\* each one taken in, and never more than the output queue holds.
Stream == INSTANCE FrameStream WITH
    Times <- 0 .. MaxPts, Capacity <- OutputCapacity,
    pending <- [i \in DOMAIN output.queue |-> output.queue[i].media_pts],
    last <- shown.media_pts, admitted <- stats.submitted,
    consumed <- stats.processed_input, open <- ~output.closed
ImplementsStream == Stream!Spec

-----------------------------------------------------------------------------
(***************************************************************************)
(* What the documentation says and the code does otherwise.                *)
(***************************************************************************)

\* docs/plan.md: under overload old work is discarded, so the frame just offered
\* is the one that is kept.
OverloadKeepsNewest ==
    [][stats'.dropped_input > stats.dropped_input =>
          offered' \in {input'.queue[i] : i \in DOMAIN input'.queue}]_vars

\* docs/flows.md: ending a session releases the queues and the surfaces in them.
StopReleasesFrames ==
    [][~output.closed /\ output'.closed => input'.queue = <<>> /\ output'.queue = <<>>]_vars
=============================================================================
