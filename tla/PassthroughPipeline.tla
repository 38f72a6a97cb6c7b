------------------------ MODULE PassthroughPipeline ------------------------
(***************************************************************************)
(* core::PassthroughPipeline, the pipeline without backends: each frame    *)
(* moves from the input queue to the output queue as it is.  Like          *)
(* ProcessingPipeline it has no thread and no lock, and its owner calls    *)
(* the five operations in any order.  Unlike it, process_one() does not    *)
(* look at the state.  The state "stopping" is only visible inside stop(). *)
(***************************************************************************)
EXTENDS BoundedQueue, Integers

CONSTANTS InputCapacity, OutputCapacity,
          MaxFrames, MaxPts    \* bounds of the model: frames offered, timestamps

ASSUME PassthroughAssumption ==
    /\ InputCapacity \in Nat /\ OutputCapacity \in Nat
    /\ MaxFrames \in Nat /\ MaxPts \in Nat

VARIABLES state,
          input, output,
          stats,
          offered,        \* history: the last frame given to submit()
          shown           \* history: the last frame receive() returned

vars == <<state, input, output, stats, offered, shown>>

Frame == [sequence : Nat, media_pts : Nat]

NoFrame == [sequence |-> -1, media_pts |-> 0]

Init ==
    /\ state = "disconnected"
    /\ input = EmptyQueue /\ output = EmptyQueue
    /\ stats = [submitted |-> 0, dropped_input |-> 0, processed |-> 0, dropped_output |-> 0]
    /\ offered = NoFrame /\ shown = NoFrame

Start ==
    /\ state' = "buffering"
    /\ UNCHANGED <<input, output, stats, offered, shown>>

Stop ==
    /\ state' = "disconnected"
    /\ input' = Close(input) /\ output' = Close(output)
    /\ UNCHANGED <<stats, offered, shown>>

SubmitRefused == state = "disconnected" \/ input.closed

\* submit(frame): refused, queued, or dropped because the queue is full.
Submit(frame) ==
    /\ offered' = frame
    /\ \/ /\ SubmitRefused
          /\ UNCHANGED <<state, input, stats>>
       \/ /\ ~SubmitRefused /\ Accepts(input, InputCapacity)
          /\ input' = TryPush(input, InputCapacity, frame)
          /\ stats' = [stats EXCEPT !.submitted = @ + 1]
          /\ UNCHANGED state
       \/ /\ ~SubmitRefused /\ ~Accepts(input, InputCapacity)
          /\ stats' = [stats EXCEPT !.dropped_input = @ + 1]
          /\ state' = "degraded"
          /\ UNCHANGED input
    /\ UNCHANGED <<output, shown>>

\* The frames a source offers next: numbered on, timestamps never going back.
NextFrames ==
    IF offered.sequence + 1 < MaxFrames
    THEN [sequence : {offered.sequence + 1}, media_pts : offered.media_pts .. MaxPts]
    ELSE {}

\* Mutant: a refused frame is not counted.
DropUncounted(frame) ==
    /\ input' = AfterPop(input)
    /\ state' = "degraded"
    /\ UNCHANGED <<output, stats>>

\* The output queue, full or closed, refuses the frame taken from the input.
Drop(frame) ==
    /\ input' = AfterPop(input)
    /\ stats' = [stats EXCEPT !.dropped_output = @ + 1]
    /\ state' = "degraded"
    /\ UNCHANGED output

Pass(frame) ==
    /\ input' = AfterPop(input)
    /\ output' = TryPush(output, OutputCapacity, frame)
    /\ stats' = [stats EXCEPT !.processed = @ + 1]
    /\ state' = "running"

ProcessOne ==
    /\ input.queue # <<>>
    /\ \/ Accepts(output, OutputCapacity) /\ Pass(Popped(input))
       \/ ~Accepts(output, OutputCapacity) /\ Drop(Popped(input))
    /\ UNCHANGED <<offered, shown>>

Receive ==
    /\ output.queue # <<>>
    /\ shown' = Popped(output)
    /\ output' = AfterPop(output)
    /\ UNCHANGED <<state, input, stats, offered>>

Next ==
    \/ Start \/ Stop \/ ProcessOne \/ Receive
    \/ \E frame \in NextFrames : Submit(frame)

Spec == Init /\ [][Next]_vars

-----------------------------------------------------------------------------
(***************************************************************************)
(* Properties.                                                             *)
(***************************************************************************)

\* Types, and the bounds the two queues exist for.
TypeOK ==
    /\ state \in {"disconnected", "buffering", "running", "degraded"}
    /\ {input, output} \subseteq [queue : Seq(Frame), closed : BOOLEAN]
    /\ Len(input.queue) <= InputCapacity /\ Len(output.queue) <= OutputCapacity
    /\ {offered, shown} \subseteq Frame \cup {NoFrame}
    /\ stats \in [submitted : Nat, dropped_input : Nat, processed : Nat, dropped_output : Nat]

\* Every submitted frame is still queued, was passed on, or was counted as
\* dropped: also the frames that were in the input queue when stop() was called.
FramesAccounted ==
    stats.submitted = stats.processed + stats.dropped_output + Len(input.queue)

\* It is the same frame stream as the pipeline with backends: at most one frame
\* for each one taken, in media order, none after the stop.
Stream == INSTANCE FrameStream WITH
    Times <- 0 .. MaxPts, Capacity <- OutputCapacity,
    pending <- [i \in DOMAIN output.queue |-> output.queue[i].media_pts],
    last <- shown.media_pts, admitted <- stats.submitted,
    consumed <- stats.processed + stats.dropped_output, open <- ~output.closed
ImplementsStream == Stream!Spec
=============================================================================
