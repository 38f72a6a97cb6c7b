--------------------------- MODULE ProgramProofs ---------------------------
(***************************************************************************)
(* The two programs need no more of their pipeline than room for one frame *)
(* and for what one frame comes to.  With that, the exit code of swave_cli *)
(* tells what the backends did and the counts of docs/qa.md hold, for any  *)
(* number of frames, any frame rate, any backends, with interpolation or   *)
(* without; and what swave_app paints is current and goes forward, for any *)
(* capacity of the capture, any number of frames and of captures started,  *)
(* any backends and any timestamps.                                        *)
(***************************************************************************)
EXTENDS SmokeCli, WindowsApp, ProcessingPipelineProofs

\* What the programs give the pipeline: main() makes queues of 4 and 16,
\* wWinMain() of 8 and 32.
RoomForOne ==
    /\ InputCapacity > 0 /\ OutputCapacity > 0
    /\ InterpolationEnabled => OutputCapacity > 1

\* The frames that n frames of the source come to.
Outputs(n) == IF InterpolationEnabled /\ n > 0 THEN 2 * n - 1 ELSE n

Idle == input.queue = <<>> /\ output.queue = <<>>

Up == state \in {"buffering", "running"}

\* At each statement of the loop: what is queued, what was received and whether
\* there is a frame to interpolate from.
AtStart ==
    /\ Idle /\ index = 0 /\ received = 0 /\ previous = NoFrame
    /\ upscaler = "ready" /\ (InterpolationEnabled => interpolator # "absent")

AtSubmit ==
    /\ Idle /\ Up
    /\ index <= frames /\ received = Outputs(index)
    /\ previous = NoFrame <=> index = 0

AtProcessOne ==
    /\ Len(input.queue) = 1 /\ output.queue = <<>> /\ Up
    /\ index < frames /\ received = Outputs(index)
    /\ previous = NoFrame <=> index = 0

AtReceive ==
    /\ input.queue = <<>> /\ state = "running"
    /\ index < frames /\ received + Len(output.queue) = Outputs(index + 1)
    /\ previous # NoFrame

\* Until the program exits, its pipeline is open and nothing was lost.
Unharmed ==
    /\ input.closed = FALSE /\ output.closed = FALSE /\ exit_code = 0
    /\ stats.dropped_input = 0 /\ stats.dropped_output = 0 /\ stats.backend_errors = 0

CliInv ==
    /\ TypeOK
    /\ frames \in Nat \ {0} /\ index \in Nat /\ received \in Nat
    /\ interpolation = InterpolationEnabled
    /\ phase \in {"start", "submit", "process", "receive", "exited"}
    /\ phase # "exited" => Unharmed
    /\ phase = "start" => AtStart
    /\ phase = "submit" => AtSubmit
    /\ phase = "process" => AtProcessOne
    /\ phase = "receive" => AtReceive
    /\ OnlyBackendsFail /\ SmokeContract

-----------------------------------------------------------------------------

\* The frames of the source are frames.
LEMMA SourceFrameType ==
  ASSUME index \in Nat
  PROVE  SourceFrame \in Frame
<1>1. frame_duration \in Nat
  <2> DEFINE rate == IF Fps = 0 THEN 30 ELSE Fps
             second == 1000000
  <2>1. rate \in Nat \ {0} /\ second \in Nat
    BY CliAssumption, SMT
  <2>2. \A m \in Nat, n \in Nat \ {0} : m \div n \in Nat
    OBVIOUS
  <2>3. frame_duration = second \div rate
    BY SMT DEF frame_duration
  <2> HIDE DEF rate, second
  <2>4. QED
    BY <2>1, <2>2, <2>3
<1>2. \A m, n \in Nat : m * n \in Nat
  OBVIOUS
<1>3. frame_duration * index \in Nat
  BY <1>1, <1>2
<1>4. QED
  BY <1>3, CliAssumption DEF SourceFrame, Frame

\* The program begins with an empty pipeline and every frame before it.
LEMMA CliInvInit == CliInit => CliInv
<1> SUFFICES ASSUME CliInit
             PROVE  CliInv
  OBVIOUS
<1>1. Init
  BY DEF CliInit, Init
<1>2. TypeOK
  BY <1>1, TypeInit
<1>3. frames \in Nat \ {0}
  BY PipelineAssumption DEF CliInit
<1>4. Unharmed /\ AtStart
  BY DEF CliInit, Unharmed, AtStart, Idle, EmptyQueue, ZeroStats
<1>5. QED
  BY <1>2, <1>3, <1>4 DEF CliInit, CliInv, OnlyBackendsFail, SmokeContract

\* start() finds its backends.
LEMMA StartInv ==
  ASSUME CliInv, CliStart
  PROVE  CliInv'
<1>1. /\ phase = "start" /\ AtStart /\ Unharmed /\ Start
      /\ frames \in Nat \ {0} /\ interpolation = InterpolationEnabled
  BY DEF CliStart, CliInv
<1>2. state' = "buffering"
  BY <1>1 DEF Start, AtStart
<1>3. /\ UNCHANGED <<input, output, previous, stats, upscaler, interpolator, offered, shown>>
      /\ phase' = "submit" /\ UNCHANGED <<frames, interpolation, index, received, exit_code>>
  BY <1>1, <1>2 DEF CliStart, Start, Proceed
<1>4. TypeOK'
  BY <1>1, TypeStep DEF Next, CliInv
<1>5. AtSubmit' /\ Unharmed'
  BY <1>1, <1>2, <1>3 DEF AtStart, AtSubmit, Idle, Up, Outputs, Unharmed
<1>6. QED
  BY <1>3, <1>4, <1>5 DEF CliInv, OnlyBackendsFail, SmokeContract, Unharmed

\* submit() finds an empty queue.
LEMMA SubmitInv ==
  ASSUME RoomForOne, CliInv, CliSubmit
  PROVE  CliInv'
<1>1. /\ phase = "submit" /\ index < frames /\ AtSubmit /\ Unharmed
      /\ Submit(SourceFrame) /\ SourceFrame \in Frame
      /\ TypeOK /\ stats.submitted \in Nat
      /\ frames \in Nat \ {0} /\ index \in Nat /\ received \in Nat
      /\ interpolation = InterpolationEnabled
  BY SourceFrameType DEF CliSubmit, CliInv, TypeOK
<1>2. /\ input' = [queue |-> <<SourceFrame>>, closed |-> FALSE]
      /\ stats'.submitted = stats.submitted + 1
      /\ stats'.dropped_input = stats.dropped_input
      /\ SameCounts
      /\ UNCHANGED <<state, output, previous, upscaler, interpolator, shown>>
  <2>1. ~SubmitRefused
    BY <1>1 DEF SubmitRefused, AtSubmit, Up, Unharmed
  <2>2. QED
    BY <1>1, <2>1, SubmitToIdle DEF RoomForOne, AtSubmit, Idle
<1>3. phase' = "process" /\ UNCHANGED <<frames, interpolation, index, received, exit_code>>
  BY <1>1, <1>2 DEF CliSubmit, Proceed
<1>4. TypeOK'
  BY <1>1, SubmitType
<1>5. AtProcessOne'
  <2>1. Len(input'.queue) = 1
    BY <1>2
  <2>2. QED
    BY <1>1, <1>2, <1>3, <2>1 DEF AtSubmit, AtProcessOne, Up, Idle, Outputs
<1>6. Unharmed'
  BY <1>1, <1>2, <1>3 DEF Unharmed, SameCounts
<1>7. QED
  BY <1>1, <1>3, <1>4, <1>5, <1>6 DEF CliInv, OnlyBackendsFail, SmokeContract, Unharmed

\* process_one() finds an empty output queue: it publishes the frame, and before
\* it the one in between, or a backend fails.
LEMMA CliProcessInv ==
  ASSUME RoomForOne, CliInv, CliProcess
  PROVE  CliInv'
<1>1. /\ phase = "process" /\ AtProcessOne /\ Unharmed /\ ProcessOne
      /\ TypeOK /\ input \in QueueType /\ input.queue # <<>>
      /\ frames \in Nat \ {0} /\ index \in Nat /\ received \in Nat
      /\ interpolation = InterpolationEnabled
  BY DEF CliProcess, CliInv, TypeOK, QueueType, ProcessOne
<1>2. /\ input' = AfterPop(input) /\ Popped(input) \in Frame
      /\ input'.queue = <<>> /\ input'.closed = FALSE
  <2>1. input' = AfterPop(input)
    BY <1>1 DEF ProcessOne
  <2>2. Popped(input) \in Frame /\ AfterPop(input) = [queue |-> Tail(input.queue), closed |-> input.closed]
    BY <1>1, PopType
  <2>3. Tail(input.queue) = <<>>
    <3>1. input.queue \in Seq(Frame) /\ Len(input.queue) = 1
      BY <1>1 DEF QueueType, AtProcessOne
    <3>2. Tail(input.queue) \in Seq(Frame) /\ Len(Tail(input.queue)) = 0
      BY <1>1, <3>1
    <3>3. QED
      BY <3>2, EmptySeq
  <2>4. QED
    BY <1>1, <2>1, <2>2, <2>3 DEF Unharmed
<1>3. TypeOK'
  BY <1>1, TypeStep DEF Next
<1>4. \/ /\ UNCHANGED <<output, previous>>
         /\ Counted(0, 0, 1) /\ state' = "error" /\ BackendFails
      \/ /\ output' = [queue |-> Publication, closed |-> FALSE]
         /\ previous' = Popped(input)
         /\ Counted(IF Interpolates THEN 2 ELSE 1, 0, 0) /\ state' = "running"
  BY <1>1, ProcessWithRoom DEF RoomForOne, AtProcessOne, Unharmed
<1>5. CASE Counted(0, 0, 1) /\ state' = "error"
  <2>1. phase' = "exited" /\ exit_code' = 1 /\ UNCHANGED <<frames, interpolation, index, received>>
    BY <1>5 DEF CliProcess, Fail
  <2>2. stats'.backend_errors = 1
    BY <1>1, <1>5 DEF Counted, Unharmed
  <2>3. QED
    BY <1>1, <1>3, <1>5, <2>1, <2>2 DEF CliInv, OnlyBackendsFail, SmokeContract
<1>6. CASE /\ output' = [queue |-> Publication, closed |-> FALSE]
           /\ previous' = Popped(input)
           /\ Counted(IF Interpolates THEN 2 ELSE 1, 0, 0) /\ state' = "running"
  <2>1. phase' = "receive" /\ UNCHANGED <<frames, interpolation, index, received, exit_code>>
    BY <1>6 DEF CliProcess, Proceed
  <2>2. Unharmed'
    BY <1>1, <1>2, <1>6, <2>1 DEF Unharmed, Counted
  <2>3. Len(output'.queue) = IF Interpolates THEN 2 ELSE 1
    BY <1>6 DEF Publication
  <2>4. Interpolates <=> InterpolationEnabled /\ index > 0
    BY <1>1 DEF Interpolates, AtProcessOne
  <2>5. received + (IF Interpolates THEN 2 ELSE 1) = Outputs(index + 1)
    BY <1>1, <2>4 DEF AtProcessOne, Outputs
  <2>6. previous' # NoFrame
    BY <1>2, <1>6 DEF Frame, NoFrame
  <2>7. AtReceive'
    BY <1>1, <1>2, <1>6, <2>1, <2>3, <2>5, <2>6 DEF AtReceive, AtProcessOne, Outputs
  <2>8. QED
    BY <1>1, <1>3, <2>1, <2>2, <2>7 DEF CliInv, OnlyBackendsFail, SmokeContract, Unharmed
<1>7. QED
  BY <1>4, <1>5, <1>6

\* Receiving empties the output queue.
LEMMA CliReceiveInv ==
  ASSUME CliInv, CliReceive
  PROVE  CliInv'
<1>1. /\ phase = "receive" /\ AtReceive /\ Unharmed
      /\ TypeOK /\ output \in QueueType
      /\ frames \in Nat \ {0} /\ index \in Nat /\ received \in Nat
      /\ interpolation = InterpolationEnabled
  BY DEF CliReceive, CliInv, TypeOK, QueueType
<1>2. CASE Receive /\ received' = received + 1 /\ UNCHANGED <<frames, interpolation, phase, index, exit_code>>
  <2>1. TypeOK'
    BY <1>1, <1>2, TypeStep DEF Next
  <2>2. /\ Len(output.queue) \in Nat \ {0}
        /\ Len(output'.queue) = Len(output.queue) - 1
        /\ output'.closed = output.closed
        /\ UNCHANGED <<state, input, previous, stats>>
    BY <1>1, <1>2, PopType DEF Receive
  <2>3. received' + Len(output'.queue) = Outputs(index + 1)
    <3>1. \A r \in Nat, n \in Nat \ {0} : (r + 1) + (n - 1) = r + n
      OBVIOUS
    <3>2. received' + Len(output'.queue) = received + Len(output.queue)
      BY <1>1, <1>2, <2>2, <3>1
    <3>3. QED
      BY <1>1, <3>2 DEF AtReceive
  <2>4. AtReceive'
    BY <1>1, <1>2, <2>2, <2>3 DEF AtReceive, Outputs
  <2>5. Unharmed'
    BY <1>1, <1>2, <2>2 DEF Unharmed
  <2>6. QED
    BY <1>1, <1>2, <2>1, <2>4, <2>5 DEF CliInv, OnlyBackendsFail, SmokeContract, Unharmed
<1>3. CASE /\ output.queue = <<>>
           /\ index' = index + 1 /\ phase' = "submit"
           /\ UNCHANGED <<vars, frames, interpolation, received, exit_code>>
  <2>1. TypeOK'
    BY <1>1, <1>3, TypeStep
  <2>2. UNCHANGED <<state, input, output, previous, stats, exit_code>>
    BY <1>3 DEF vars
  <2>3. Len(output.queue) = 0
    BY <1>3
  <2>4. received = Outputs(index + 1)
    BY <1>1, <2>3 DEF AtReceive, Outputs
  <2>5. AtSubmit' /\ Unharmed'
    BY <1>1, <1>3, <2>2, <2>4 DEF AtReceive, AtSubmit, Idle, Up, Unharmed, Outputs
  <2>6. QED
    BY <1>1, <1>3, <2>1, <2>2, <2>5 DEF CliInv, OnlyBackendsFail, SmokeContract, Unharmed
<1>4. QED
  BY <1>2, <1>3 DEF CliReceive

\* The program leaves its loop having received all there was.
LEMMA StopInv ==
  ASSUME CliInv, CliStop
  PROVE  CliInv'
<1>1. /\ phase = "submit" /\ index = frames /\ AtSubmit /\ Unharmed /\ Stop /\ TypeOK
      /\ frames \in Nat \ {0} /\ interpolation = InterpolationEnabled
  BY DEF CliStop, CliInv
<1>2. TypeOK'
  BY <1>1, TypeStep DEF Next
<1>3. received = IF InterpolationEnabled THEN 2 * frames - 1 ELSE frames
  BY <1>1 DEF AtSubmit, Outputs
<1>4. received \in Nat \ {0}
  BY <1>1, <1>3
<1>5. /\ phase' = "exited" /\ exit_code' = 0 /\ UNCHANGED <<frames, interpolation, index, received, stats>>
  BY <1>1, <1>4 DEF CliStop, Stop, Unharmed
<1>6. QED
  BY <1>1, <1>2, <1>3, <1>5 DEF CliInv, OnlyBackendsFail, SmokeContract, Unharmed

\* Every statement of main() leads from one place of the loop to the next.
LEMMA CliInvStep ==
  ASSUME RoomForOne, CliInv, [CliNext]_cliVars
  PROVE  CliInv'
<1>1. CASE UNCHANGED cliVars
  <2>1. UNCHANGED vars /\ UNCHANGED <<frames, interpolation, phase, index, received, exit_code>>
    BY <1>1 DEF cliVars
  <2>2. TypeOK'
    BY <2>1, TypeStep DEF CliInv
  <2>3. QED
    BY <2>1, <2>2 DEF CliInv, vars, Unharmed, AtStart, AtSubmit, AtProcessOne, AtReceive, Idle, Up,
                      Outputs, OnlyBackendsFail, SmokeContract
<1>2. QED
  BY <1>1, StartInv, SubmitInv, CliProcessInv, CliReceiveInv, StopInv DEF CliNext

\* Only a backend makes the program fail: with room for one frame and what it
\* comes to, no call of the loop returns false for want of room.
THEOREM SmokeOnlyBackendsFail ==
  ASSUME RoomForOne
  PROVE  CliSpec => []OnlyBackendsFail
<1>1. CliInv => OnlyBackendsFail
  BY DEF CliInv
<1>2. CliInv /\ [CliNext]_cliVars => CliInv'
  BY CliInvStep
<1>3. QED
  BY CliInvInit, <1>1, <1>2, PTL DEF CliSpec

\* A run that succeeds received 2N - 1 frames with interpolation and N without,
\* and lost none: the counts of docs/qa.md, for every N.
THEOREM SmokeContractKept ==
  ASSUME RoomForOne
  PROVE  CliSpec => []SmokeContract
<1>1. CliInv => SmokeContract
  BY DEF CliInv
<1>2. CliInv /\ [CliNext]_cliVars => CliInv'
  BY CliInvStep
<1>3. QED
  BY CliInvInit, <1>1, <1>2, PTL DEF CliSpec

-----------------------------------------------------------------------------
(***************************************************************************)
(* swave_app.                                                              *)
(***************************************************************************)

AppTypes ==
    /\ TypeOK
    /\ place \in {"launch", "loop", "process", "drain", "exited"}
    /\ using \in BOOLEAN /\ fresh \in BOOLEAN
    /\ made \in Nat /\ number \in Nat /\ clock \in Nat
    /\ waiting \in Seq(Nat)

-----------------------------------------------------------------------------
(***************************************************************************)
(* The invariant behind ScreenCurrent: where the frame offered last is at  *)
(* each step of a tick.                                                    *)
(***************************************************************************)

AtLaunch == input.queue = <<>> /\ output.queue = <<>> /\ state = "disconnected" /\ fresh

AtLoop ==
    /\ input.queue = <<>> /\ output.queue = <<>>
    /\ state \in {"buffering", "running", "error"}
    /\ state = "running" => shown = offered /\ previous = offered
    /\ state = "buffering" => fresh

AtProcess ==
    /\ input.queue = <<offered>> /\ output.queue = <<>>
    /\ state \in {"buffering", "running"}
    /\ state = "running" => shown = previous
    /\ state = "buffering" => fresh

\* What is left of what the call of process_one() published.
AtDrain ==
    /\ input.queue = <<>> /\ state = "running" /\ previous = offered
    /\ \/ output.queue = <<>> /\ shown = offered
       \/ output.queue = <<offered>>
       \/ \E between \in Frame :
             between.interpolated /\ output.queue = <<between, offered>>

TickInv ==
    /\ place # "exited" => input.closed = FALSE /\ output.closed = FALSE
    /\ place = "launch" => AtLaunch
    /\ place = "loop" => AtLoop
    /\ place = "process" => AtProcess
    /\ place = "drain" => AtDrain

-----------------------------------------------------------------------------
(***************************************************************************)
(* The invariant behind PaintedInOrder: a source goes forward, and so does *)
(* what is made of its frames.                                             *)
(***************************************************************************)

CaptureSorted ==
    /\ \A i, j \in 1 .. Len(waiting) : i < j => waiting[i] < waiting[j]
    /\ \A i \in 1 .. Len(waiting) : waiting[i] < number

\* What the source in use delivers next comes after this frame.
SourceAhead(frame) ==
    /\ ~frame.interpolated
    /\ using => /\ \A i \in 1 .. Len(waiting) : frame.sequence < waiting[i]
                /\ frame.sequence < number /\ frame.media_pts <= clock
    /\ ~using => frame.sequence < made /\ frame.media_pts <= FrameDuration * made

\* Until the first frame of a source is painted nothing is said of the frames
\* before it; from then on what was offered is of that source.
PaintInv ==
    /\ CaptureSorted
    /\ place = "loop" /\ ~fresh => SourceAhead(offered)
    /\ place \in {"process", "drain"} => SourceAhead(offered)
    /\ place = "process" /\ ~fresh => Ahead(previous, offered)
    /\ place = "drain" /\ ~fresh => DeliveredInOrder

AppInv == AppTypes /\ TickInv /\ PaintInv

-----------------------------------------------------------------------------
(***************************************************************************)
(* The capture.                                                            *)
(***************************************************************************)

\* A frame that arrives is numbered after every frame before it, whether there is
\* room for it or not.
LEMMA ArriveSorted ==
  ASSUME waiting \in Seq(Nat), number \in Nat, CaptureSorted, Capture!Arrive
  PROVE  /\ waiting' \in Seq(Nat) /\ number' \in Nat /\ CaptureSorted'
         /\ \A n \in Int : (\A i \in 1 .. Len(waiting) : n < waiting[i]) /\ n < number =>
               (\A i \in 1 .. Len(waiting') : n < waiting'[i]) /\ n < number'
<1>1. number' = number + 1 /\ waiting' \in {Append(waiting, number), waiting}
  BY DEF Capture!Arrive
<1>2. CASE waiting' = waiting
  BY <1>1, <1>2 DEF CaptureSorted
<1>3. CASE waiting' = Append(waiting, number)
  <2>1. /\ Len(waiting) \in Nat /\ Len(waiting') = Len(waiting) + 1
        /\ waiting' \in Seq(Nat)
        /\ \A i \in 1 .. Len(waiting) : waiting'[i] = waiting[i] /\ waiting[i] \in Nat
        /\ waiting'[Len(waiting) + 1] = number
    BY <1>3, AppendProperties, LenProperties, ElementOfSeq
  <2>2. \A i \in 1 .. Len(waiting') : i \in 1 .. Len(waiting) \/ i = Len(waiting) + 1
    BY <2>1
  <2>3. CaptureSorted'
    <3>1. \A i, j \in 1 .. Len(waiting') : i < j => i \in 1 .. Len(waiting)
      BY <2>1
    <3>2. \A i, j \in 1 .. Len(waiting') : i < j => waiting'[i] < waiting'[j]
      BY <2>1, <2>2, <3>1 DEF CaptureSorted
    <3>3. \A i \in 1 .. Len(waiting') : waiting'[i] < number'
      BY <1>1, <2>1, <2>2 DEF CaptureSorted
    <3>4. QED
      BY <3>2, <3>3 DEF CaptureSorted
  <2>4. QED
    BY <1>1, <2>1, <2>2, <2>3
<1>4. QED
  BY <1>1, <1>2, <1>3

\* The frame taken comes before all that is left.
LEMMA TakeSorted ==
  ASSUME waiting \in Seq(Nat), number \in Nat, CaptureSorted, Capture!Take
  PROVE  /\ waiting' \in Seq(Nat) /\ number' \in Nat /\ CaptureSorted'
         /\ Head(waiting) \in Nat /\ Head(waiting) < number'
         /\ \A i \in 1 .. Len(waiting') : Head(waiting) < waiting'[i]
         /\ Len(waiting) \in Nat \ {0} /\ Head(waiting) = waiting[1]
<1>1. waiting # <<>> /\ waiting' = Tail(waiting) /\ number' = number
  BY DEF Capture!Take
<1>2. /\ Len(waiting) \in Nat \ {0} /\ Head(waiting) = waiting[1] /\ Head(waiting) \in Nat
      /\ waiting' \in Seq(Nat) /\ Len(waiting') = Len(waiting) - 1
      /\ \A i \in 1 .. Len(waiting') : waiting'[i] = waiting[i + 1]
      /\ \A i \in 1 .. Len(waiting) : waiting[i] \in Nat
  BY <1>1, HeadTailProperties, LenProperties, ElementOfSeq, EmptySeq
<1>3. \A i \in 1 .. Len(waiting') : i + 1 \in 1 .. Len(waiting) /\ 1 < i + 1
  BY <1>2
<1>4. 1 \in 1 .. Len(waiting)
  BY <1>2
<1>5. CaptureSorted'
  BY <1>1, <1>2, <1>3 DEF CaptureSorted
<1>6. QED
  BY <1>1, <1>2, <1>3, <1>4, <1>5 DEF CaptureSorted

\* What a tick takes from the source is a frame; it comes after every frame that
\* the source had been ahead of, and the source is ahead of it.
Fed(frame) ==
    /\ frame \in Frame /\ Feed(frame)
    /\ SourceAhead(frame)'
    /\ \A f \in Frame \cup {NoFrame} : SourceAhead(f) => Ahead(f, frame)
    /\ made' \in Nat /\ number' \in Nat /\ clock' \in Nat /\ waiting' \in Seq(Nat)
    /\ CaptureSorted'

\* A tick offers the next frame of the synthetic source, which is ahead of the last.
LEMMA SyntheticFed ==
  ASSUME AppTypes, CaptureSorted, TickSynthetic, using' = using
  PROVE  \E frame : Fed(frame)
<1>0. PICK frame : frame = [sequence |-> made, media_pts |-> FrameDuration * made,
                            shape |-> SyntheticShape, interpolated |-> FALSE]
  OBVIOUS
<1>1. /\ made \in Nat /\ made' = made + 1 /\ ~using
      /\ UNCHANGED <<waiting, number, clock>> /\ Feed(frame)
  BY <1>0 DEF AppTypes, TickSynthetic, captureVars
<1>2. FrameDuration \in Nat /\ SyntheticShape \in Shapes
  BY AppAssumption
<1>3. \A m, n \in Nat : m * n \in Nat /\ m * n <= m * (n + 1)
  OBVIOUS
<1>4. FrameDuration * made \in Nat /\ FrameDuration * made <= FrameDuration * made'
  BY <1>1, <1>2, <1>3
<1>5. /\ frame \in Frame /\ frame.interpolated = FALSE
      /\ frame.sequence = made /\ frame.media_pts = FrameDuration * made
  BY <1>0, <1>1, <1>2, <1>4 DEF Frame
<1>6. SourceAhead(frame)'
  BY <1>1, <1>4, <1>5 DEF SourceAhead
<1>7. \A f \in Frame \cup {NoFrame} : SourceAhead(f) => Ahead(f, frame)
  BY <1>1, <1>5 DEF SourceAhead, Ahead
<1>8. /\ made' \in Nat /\ number' \in Nat /\ clock' \in Nat /\ waiting' \in Seq(Nat)
      /\ CaptureSorted'
  BY <1>1 DEF AppTypes, CaptureSorted
<1>9. QED
  BY <1>1, <1>5, <1>6, <1>7, <1>8 DEF Fed

\* A tick offers the oldest frame of the capture, which is ahead of the last.
LEMMA CaptureFed ==
  ASSUME AppTypes, CaptureSorted, TickCapture, using' = using
  PROVE  \E frame : Fed(frame)
<1>1. PICK now \in clock .. MaxPts, size \in Shapes :
         /\ Feed([sequence |-> Head(waiting), media_pts |-> now,
                  shape |-> size, interpolated |-> FALSE])
         /\ clock' = now
  BY DEF TickCapture
<1>0. PICK frame : frame = [sequence |-> Head(waiting), media_pts |-> now,
                            shape |-> size, interpolated |-> FALSE]
  OBVIOUS
<1>2. /\ using /\ Capture!Take /\ made' = made /\ clock \in Nat /\ made \in Nat
      /\ waiting \in Seq(Nat) /\ number \in Nat
  BY DEF AppTypes, TickCapture
<1>3. now \in Nat /\ clock <= now
  BY <1>2, PipelineAssumption
<1>4. /\ waiting' \in Seq(Nat) /\ number' \in Nat /\ CaptureSorted'
      /\ Head(waiting) \in Nat /\ Head(waiting) < number'
      /\ \A i \in 1 .. Len(waiting') : Head(waiting) < waiting'[i]
      /\ Len(waiting) \in Nat \ {0} /\ Head(waiting) = waiting[1]
  BY <1>2, TakeSorted
<1>5. /\ frame \in Frame /\ frame.interpolated = FALSE
      /\ frame.sequence = Head(waiting) /\ frame.media_pts = now
  BY <1>0, <1>3, <1>4 DEF Frame
<1>6. SourceAhead(frame)'
  BY <1>1, <1>2, <1>3, <1>4, <1>5 DEF SourceAhead
<1>7. \A f \in Frame \cup {NoFrame} : SourceAhead(f) => Ahead(f, frame)
  <2> SUFFICES ASSUME NEW f \in Frame \cup {NoFrame}, SourceAhead(f)
               PROVE  Ahead(f, frame)
    OBVIOUS
  <2>1. f.media_pts \in Nat
    BY DEF Frame, NoFrame
  <2>2. 1 \in 1 .. Len(waiting)
    BY <1>4
  <2>3. QED
    BY <1>2, <1>3, <1>4, <1>5, <2>1, <2>2 DEF SourceAhead, Ahead
<1>8. Feed(frame)
  BY <1>0, <1>1
<1>9. QED
  BY <1>1, <1>2, <1>3, <1>4, <1>5, <1>6, <1>7, <1>8 DEF Fed

-----------------------------------------------------------------------------
(***************************************************************************)
(* The steps.                                                              *)
(***************************************************************************)

\* The program begins with an empty pipeline and nothing painted.
LEMMA AppInvInit == AppInit => AppInv
<1> SUFFICES ASSUME AppInit
             PROVE  AppInv
  OBVIOUS
<1>1. TypeOK
  <2>1. Init
    BY DEF AppInit, Init
  <2>2. QED
    BY <2>1, TypeInit
<1>2. waiting = <<>> /\ number = 0 /\ Len(waiting) = 0
  BY DEF AppInit, Capture!Init
<1>3. clock \in Nat
  BY PipelineAssumption DEF AppInit
<1>4. AppTypes
  <2>1. waiting \in Seq(Nat)
    BY <1>2
  <2>2. QED
    BY <1>1, <1>2, <1>3, <2>1 DEF AppInit, AppTypes
<1>5. TickInv
  BY DEF AppInit, TickInv, AtLaunch, EmptyQueue
<1>6. PaintInv
  BY <1>2 DEF AppInit, PaintInv, CaptureSorted
<1>7. QED
  BY <1>4, <1>5, <1>6 DEF AppInv

\* wWinMain() sets the timer, or gives up, before anything was offered.
LEMMA LaunchInv ==
  ASSUME AppInv, Launch
  PROVE  AppInv'
<1>1. /\ place = "launch" /\ AppTypes /\ TickInv /\ PaintInv /\ AtLaunch
      /\ UNCHANGED <<using, made, clock, fresh, waiting, number>>
  BY DEF AppInv, TickInv, Launch, captureVars
<1>2. \/ place' = "exited" /\ UNCHANGED vars
      \/ place' \in {"exited", "loop"} /\ Start
  BY DEF Launch, Exit, Goto
<1>3. AppTypes'
  <2>1. TypeOK'
    BY <1>1, <1>2, TypeStep DEF AppTypes, Next
  <2>2. QED
    BY <1>1, <1>2, <2>1 DEF AppTypes
<1>4. TickInv'
  <2>1. CASE place' = "exited"
    BY <2>1 DEF TickInv
  <2>2. CASE place' = "loop"
    <3>1. /\ state' \in {"buffering", "error"}
          /\ UNCHANGED <<input, output>>
      BY <1>2, <2>2 DEF Start
    <3>2. QED
      BY <1>1, <2>2, <3>1 DEF TickInv, AtLaunch, AtLoop
  <2>3. QED
    BY <1>2, <2>1, <2>2
<1>5. PaintInv'
  BY <1>1, <1>2 DEF PaintInv, AtLaunch, CaptureSorted
<1>6. QED
  BY <1>3, <1>4, <1>5 DEF AppInv

\* A frame from the source is refused by a pipeline in error, and otherwise
\* queued: the queue is empty.
LEMMA FedInv ==
  ASSUME RoomForOne, AppInv, place = "loop", NEW frame, Fed(frame), UNCHANGED <<using, fresh>>
  PROVE  AppInv'
<1>1. /\ AppTypes /\ AtLoop /\ input.closed = FALSE /\ output.closed = FALSE
      /\ frame \in Frame /\ Submit(frame) /\ offered' = frame
      /\ ~fresh => SourceAhead(offered)
  BY DEF AppInv, TickInv, PaintInv, Fed, Feed, Submit
<1>2. place' \in {"loop", "process"}
  BY DEF Fed, Feed, Goto
<1>3. AppTypes'
  <2>1. TypeOK'
    BY <1>1, SubmitType DEF AppTypes
  <2>2. QED
    BY <1>1, <1>2, <2>1 DEF AppTypes, Fed
<1>4. CASE state = "error"
  <2>1. UNCHANGED pipelineVars /\ UNCHANGED shown
    BY <1>1, <1>4, SubmitToDown DEF SubmitRefused
  <2>2. stats.submitted \in Nat /\ stats' = stats
    BY <1>1, <2>1 DEF AppTypes, TypeOK, pipelineVars
  <2>3. place' = "loop"
    BY <2>2 DEF Fed, Feed, Goto
  <2>4. TickInv'
    BY <1>1, <1>4, <2>1, <2>3 DEF TickInv, AtLoop, pipelineVars
  <2>5. PaintInv'
    BY <1>1, <2>3 DEF PaintInv, Fed
  <2>6. QED
    BY <1>3, <2>4, <2>5 DEF AppInv
<1>5. CASE state \in {"buffering", "running"}
  <2>1. /\ input' = [queue |-> <<frame>>, closed |-> FALSE]
        /\ stats'.submitted = stats.submitted + 1
        /\ UNCHANGED <<state, output, previous, shown>>
    <3>1. ~SubmitRefused /\ input.queue = <<>>
      BY <1>1, <1>5 DEF SubmitRefused, AtLoop
    <3>2. QED
      BY <1>1, <3>1, SubmitToIdle DEF AppTypes, RoomForOne
  <2>2. stats.submitted \in Nat
    BY <1>1 DEF AppTypes, TypeOK
  <2>3. place' = "process"
    BY <2>1, <2>2 DEF Fed, Feed, Goto
  <2>4. TickInv'
    BY <1>1, <1>5, <2>1, <2>3 DEF TickInv, AtLoop, AtProcess
  <2>5. ~fresh => Ahead(previous, frame)
    <3>1. ~fresh => previous = offered
      BY <1>1, <1>5 DEF AtLoop
    <3>2. offered \in Frame \cup {NoFrame}
      BY <1>1 DEF AppTypes, TypeOK
    <3>3. QED
      BY <1>1, <3>1, <3>2 DEF Fed
  <2>6. PaintInv'
    BY <1>1, <2>1, <2>3, <2>5 DEF PaintInv, Fed
  <2>7. QED
    BY <1>3, <2>4, <2>6 DEF AppInv
<1>6. QED
  BY <1>1, <1>4, <1>5 DEF AtLoop

\* A tick takes a frame from the source in use and submits it, or is refused.
LEMMA TickStep ==
  ASSUME RoomForOne, AppInv, Tick
  PROVE  AppInv'
<1>1. /\ place = "loop" /\ AppTypes /\ CaptureSorted
      /\ TickSynthetic \/ TickCapture
      /\ UNCHANGED <<using, fresh>>
  BY DEF Tick, AppInv, PaintInv, uiVars
<1>2. \E frame : Fed(frame)
  BY <1>1, SyntheticFed, CaptureFed
<1>3. QED
  BY <1>1, <1>2, FedInv

\* What is published in one call keeps the order: the middle lies between the frame
\* painted before and the one just offered.
LEMMA MiddlePrecedes ==
  ASSUME NEW first \in Frame, NEW second \in Frame, Ahead(first, second)
  PROVE  /\ Precedes(first, Interpolated(first, second))
         /\ Precedes(Interpolated(first, second), second)
<1>1. /\ first.media_pts \in Nat /\ second.media_pts \in Nat
      /\ first.sequence \in Nat /\ second.sequence \in Nat
      /\ first.media_pts <= second.media_pts /\ first.sequence < second.sequence
  BY DEF Frame, Ahead
<1>2. /\ first.media_pts <= Halfway(first.media_pts, second.media_pts)
      /\ Halfway(first.media_pts, second.media_pts) <= second.media_pts
      /\ Halfway(first.media_pts, second.media_pts) \in Nat
  BY <1>1, HalfwayBetween, HalfwayType
<1>3. QED
  BY <1>1, <1>2 DEF Interpolated, Precedes

\* process_one() leaves one or two frames to paint, or fails.
LEMMA ProcessInv ==
  ASSUME RoomForOne, AppInv, TickProcess
  PROVE  AppInv'
<1>1. /\ place = "process" /\ AppTypes /\ AtProcess /\ PaintInv /\ ProcessOne
      /\ input.closed = FALSE /\ output.closed = FALSE
      /\ UNCHANGED <<using, fresh, waiting, number, made, clock, offered, shown>>
  BY DEF AppInv, TickInv, TickProcess, uiVars, captureVars, ProcessOne
<1>2. place' = IF state' = "running" THEN "drain" ELSE "loop"
  BY DEF TickProcess, Goto
<1>3. AppTypes'
  <2>1. TypeOK'
    BY <1>1, TypeStep DEF AppTypes, Next
  <2>2. QED
    BY <1>1, <1>2, <2>1 DEF AppTypes
<1>4. /\ Popped(input) = offered /\ offered \in Frame
      /\ input'.queue = <<>> /\ input'.closed = FALSE
  <2>1. input \in QueueType /\ input.queue # <<>> /\ input' = AfterPop(input)
    BY <1>1 DEF AppTypes, TypeOK, QueueType, ProcessOne
  <2>2. /\ Popped(input) = input.queue[1] /\ Popped(input) \in Frame
        /\ AfterPop(input) = [queue |-> Tail(input.queue), closed |-> input.closed]
    BY <2>1, PopType
  <2>3. Tail(<<offered>>) = <<>> /\ <<offered>>[1] = offered
    OBVIOUS
  <2>4. QED
    BY <1>1, <2>1, <2>2, <2>3 DEF AtProcess
<1>5. \/ UNCHANGED <<output, previous>> /\ state' = "error"
      \/ /\ output' = [queue |-> Publication, closed |-> FALSE]
         /\ previous' = Popped(input) /\ state' = "running"
  BY <1>1, ProcessWithRoom DEF AppTypes, AtProcess, RoomForOne
<1>6. CASE UNCHANGED <<output, previous>> /\ state' = "error"
  <2>1. TickInv'
    BY <1>1, <1>2, <1>4, <1>6 DEF TickInv, AtProcess, AtLoop
  <2>2. PaintInv'
    BY <1>1, <1>2, <1>6 DEF PaintInv, CaptureSorted, SourceAhead
  <2>3. QED
    BY <1>3, <2>1, <2>2 DEF AppInv
<1>7. CASE /\ output' = [queue |-> Publication, closed |-> FALSE]
           /\ previous' = Popped(input) /\ state' = "running"
  <2> DEFINE between == Interpolated(previous, offered)
  <2>1. \/ ~Interpolates /\ output'.queue = <<offered>>
        \/ Interpolates /\ output'.queue = <<between, offered>> /\ previous \in Frame
    BY <1>1, <1>4, <1>7 DEF Publication, Interpolates, AppTypes, TypeOK
  <2>2. Interpolates => between \in Frame /\ between.interpolated
    BY <1>4, <2>1, InterpolatedType, PipelineAssumption DEF Interpolated
  <2>3. AtDrain'
    BY <1>1, <1>4, <1>7, <2>1, <2>2 DEF AtDrain
  <2>4. TickInv'
    BY <1>2, <1>4, <1>7, <2>3 DEF TickInv
  <2>5. ~fresh => DeliveredInOrder'
    <3> SUFFICES ASSUME ~fresh
                 PROVE  DeliveredInOrder'
      OBVIOUS
    <3>1. shown = previous /\ Ahead(previous, offered)
      BY <1>1 DEF AtProcess, PaintInv
    <3>2. Precedes(shown, offered)
      BY <1>1, <1>4, <3>1 DEF Precedes, Ahead, AppTypes, TypeOK, Frame, NoFrame
    <3>3. CASE output'.queue = <<offered>>
      BY <1>1, <3>2, <3>3 DEF DeliveredInOrder
    <3>4. CASE output'.queue = <<between, offered>> /\ previous \in Frame
      <4>1. Precedes(previous, between) /\ Precedes(between, offered)
        BY <1>4, <3>1, <3>4, MiddlePrecedes
      <4> HIDE DEF between
      <4>2. /\ Len(output'.queue) = 2
            /\ output'.queue[1] = between /\ output'.queue[2] = offered
        BY <3>4
      <4>3. QED
        BY <1>1, <3>1, <3>2, <4>1, <4>2 DEF DeliveredInOrder
    <3>5. QED
      BY <2>1, <3>3, <3>4
  <2>6. PaintInv'
    BY <1>1, <1>2, <1>7, <2>5 DEF PaintInv, CaptureSorted, SourceAhead
  <2>7. QED
    BY <1>3, <2>4, <2>6 DEF AppInv
<1>8. QED
  BY <1>5, <1>6, <1>7

\* Receiving takes the frame in between or, last of all, the one just offered.
LEMMA ReceiveInv ==
  ASSUME AppInv, place = "drain", Receive, fresh' = (fresh /\ shown'.interpolated),
         UNCHANGED <<place, using, waiting, number, made, clock>>
  PROVE  /\ AppInv'
         /\ Precedes(shown, shown') \/ fresh
<1>1. /\ AppTypes /\ AtDrain /\ PaintInv
      /\ input.closed = FALSE /\ output.closed = FALSE
      /\ output \in QueueType /\ output.queue # <<>>
      /\ UNCHANGED <<state, input, previous, offered>>
      /\ shown' = Popped(output) /\ output' = AfterPop(output)
  BY DEF AppInv, TickInv, AppTypes, TypeOK, QueueType, Receive
<1>2. /\ shown' = output.queue[1] /\ shown' \in Frame
      /\ output'.queue = Tail(output.queue) /\ output'.closed = FALSE
  <2>1. /\ Popped(output) = output.queue[1] /\ Popped(output) \in Frame
        /\ AfterPop(output) = [queue |-> Tail(output.queue), closed |-> output.closed]
    BY <1>1, PopType
  <2>2. QED
    BY <1>1, <2>1
<1>3. shown'.interpolated \in BOOLEAN /\ ~offered.interpolated /\ SourceAhead(offered)
  BY <1>1, <1>2 DEF Frame, PaintInv, SourceAhead
<1>4. AppTypes'
  <2>1. TypeOK'
    BY <1>1, TypeStep DEF AppTypes, Next
  <2>2. fresh' \in BOOLEAN
    OBVIOUS
  <2>3. QED
    BY <1>1, <2>1, <2>2 DEF AppTypes
<1>5. SourceAhead(offered)' /\ CaptureSorted'
  BY <1>1, <1>3 DEF SourceAhead, PaintInv, CaptureSorted
<1>6. ~fresh => DeliveredInOrder
  BY <1>1 DEF PaintInv
<1>7. CASE output.queue = <<offered>>
  <2>1. shown' = offered /\ output'.queue = <<>> /\ Len(output'.queue) = 0
    <3>1. Tail(<<offered>>) = <<>> /\ <<offered>>[1] = offered /\ Len(<<>>) = 0
      OBVIOUS
    <3>2. QED
      BY <1>2, <1>7, <3>1
  <2>2. AtDrain'
    BY <1>1, <2>1 DEF AtDrain
  <2>3. DeliveredInOrder'
    BY <2>1 DEF DeliveredInOrder
  <2>4. ~fresh => Precedes(shown, shown')
    <3>1. Len(<<offered>>) = 1
      OBVIOUS
    <3>2. QED
      BY <1>2, <1>6, <1>7, <3>1 DEF DeliveredInOrder
  <2>5. TickInv' /\ PaintInv'
    BY <1>1, <1>2, <1>5, <2>2, <2>3 DEF TickInv, PaintInv
  <2>6. QED
    BY <1>4, <2>4, <2>5 DEF AppInv
<1>8. ASSUME NEW between \in Frame, between.interpolated, output.queue = <<between, offered>>
      PROVE  AppInv' /\ (Precedes(shown, shown') \/ fresh)
  <2>1. shown' = between /\ output'.queue = <<offered>>
    <3>1. Tail(<<between, offered>>) = <<offered>> /\ <<between, offered>>[1] = between
      OBVIOUS
    <3>2. QED
      BY <1>2, <1>8, <3>1
  <2>2. AtDrain'
    BY <1>1, <2>1 DEF AtDrain
  <2>3. fresh' = fresh
    BY <1>8, <2>1 DEF AppInv, AppTypes
  <2>4. ~fresh => Precedes(shown, between) /\ Precedes(between, offered)
    <3>1. /\ Len(<<between, offered>>) = 2
          /\ <<between, offered>>[1] = between /\ <<between, offered>>[2] = offered
      OBVIOUS
    <3>2. QED
      BY <1>6, <1>8, <3>1 DEF DeliveredInOrder
  <2>5. ~fresh => DeliveredInOrder'
    <3>1. Len(<<offered>>) = 1 /\ <<offered>>[1] = offered
      OBVIOUS
    <3>2. QED
      BY <1>1, <2>1, <2>4, <3>1 DEF DeliveredInOrder
  <2>6. TickInv' /\ PaintInv'
    BY <1>1, <1>2, <1>5, <2>2, <2>3, <2>5 DEF TickInv, PaintInv
  <2>7. QED
    BY <1>4, <2>1, <2>4, <2>6 DEF AppInv
<1>9. QED
  BY <1>1, <1>7, <1>8 DEF AtDrain

\* A tick paints what is there, in order, until nothing is left.
LEMMA DrainInv ==
  ASSUME AppInv, TickDrain
  PROVE  /\ AppInv'
         /\ shown' # shown => Precedes(shown, shown') \/ fresh
<1>1. /\ place = "drain" /\ AppTypes /\ AtDrain /\ PaintInv
      /\ input.closed = FALSE /\ output.closed = FALSE
      /\ UNCHANGED <<using, waiting, number, made, clock>>
  BY DEF AppInv, TickInv, TickDrain, uiVars, captureVars
<1>2. CASE Receive /\ fresh' = (fresh /\ shown'.interpolated) /\ UNCHANGED <<place, exit>>
  BY <1>1, <1>2, ReceiveInv
<1>3. CASE output.queue = <<>> /\ Goto("loop") /\ UNCHANGED <<vars, fresh>>
  <2>1. place' = "loop" /\ UNCHANGED vars
    BY <1>3 DEF Goto
  <2>2. AppTypes'
    <3>1. TypeOK'
      BY <1>1, <2>1, TypeStep DEF AppTypes
    <3>2. QED
      BY <1>1, <1>3, <2>1, <3>1 DEF AppTypes
  <2>3. output.queue = <<>> /\ shown = offered
    BY <1>1, <1>3 DEF AtDrain
  <2>4. TickInv'
    BY <1>1, <1>3, <2>1, <2>3 DEF TickInv, AtDrain, AtLoop, vars
  <2>5. PaintInv'
    BY <1>1, <1>3, <2>1 DEF PaintInv, CaptureSorted, SourceAhead, vars
  <2>6. QED
    BY <2>1, <2>2, <2>4, <2>5 DEF AppInv, vars
<1>4. QED
  BY <1>2, <1>3 DEF TickDrain

\* Everything else leaves the pipeline alone, between two messages.  A source that
\* is replaced starts over, and nothing of it was painted yet.
LEMMA QuietInv ==
  ASSUME AppInv, UserStep \/ CaptureStep \/ UNCHANGED appVars
  PROVE  AppInv' /\ UNCHANGED vars
<1>1. UNCHANGED vars /\ UNCHANGED <<place, made, clock>>
  BY DEF UserStep, CaptureStep, ButtonFails, ButtonSwitches, DismissBox, CloseSettings,
         CloseContent, appVars
<1>2. AppTypes /\ TickInv /\ PaintInv /\ TypeOK'
  BY <1>1, TypeStep DEF AppInv, AppTypes
<1>3. ASSUME UNCHANGED <<using, fresh, waiting, number>>
      PROVE  AppInv'
  <2>1. AppTypes'
    BY <1>1, <1>2, <1>3 DEF AppTypes
  <2>2. TickInv'
    BY <1>1, <1>2, <1>3 DEF TickInv, AtLaunch, AtLoop, AtProcess, AtDrain, vars
  <2>3. PaintInv'
    BY <1>1, <1>2, <1>3 DEF PaintInv, CaptureSorted, SourceAhead, DeliveredInOrder, vars
  <2>4. QED
    BY <2>1, <2>2, <2>3 DEF AppInv
<1>4. CASE ButtonSwitches
  <2>1. /\ place = "loop" /\ waiting' = <<>> /\ number' = 0 /\ using' = TRUE /\ fresh' = TRUE
    BY <1>4 DEF ButtonSwitches, SettingsResponds, Capture!Open
  <2>2. waiting' \in Seq(Nat) /\ Len(waiting') = 0
    BY <2>1
  <2>3. AppTypes'
    BY <1>1, <1>2, <2>1, <2>2 DEF AppTypes
  <2>4. TickInv'
    BY <1>1, <1>2, <2>1 DEF TickInv, AtLoop, vars
  <2>5. PaintInv'
    BY <1>1, <2>1, <2>2 DEF PaintInv, CaptureSorted
  <2>6. QED
    BY <1>1, <2>3, <2>4, <2>5 DEF AppInv
<1>5. CASE Capture!Arrive /\ UNCHANGED <<using, fresh>>
  <2>1. /\ waiting' \in Seq(Nat) /\ number' \in Nat /\ CaptureSorted'
        /\ \A n \in Int : (\A i \in 1 .. Len(waiting) : n < waiting[i]) /\ n < number =>
              (\A i \in 1 .. Len(waiting') : n < waiting'[i]) /\ n < number'
    BY <1>2, <1>5, ArriveSorted DEF AppTypes, PaintInv
  <2>2. AppTypes'
    BY <1>1, <1>2, <1>5, <2>1 DEF AppTypes
  <2>3. TickInv'
    BY <1>1, <1>2, <1>5 DEF TickInv, AtLaunch, AtLoop, AtProcess, AtDrain, vars
  <2>4. SourceAhead(offered) => SourceAhead(offered)'
    <3>1. offered \in Frame \cup {NoFrame}
      BY <1>2 DEF AppTypes, TypeOK
    <3>2. offered.sequence \in Int
      BY <3>1 DEF Frame, NoFrame
    <3>3. QED
      BY <1>1, <1>5, <2>1, <3>2 DEF SourceAhead, vars
  <2>5. PaintInv'
    BY <1>1, <1>2, <1>5, <2>1, <2>4 DEF PaintInv, DeliveredInOrder, vars
  <2>6. QED
    BY <1>1, <2>2, <2>3, <2>5 DEF AppInv
<1>6. CASE Capture!Fail /\ UNCHANGED <<using, fresh>>
  BY <1>1, <1>3, <1>6 DEF Capture!Fail
<1>7. CASE ButtonFails \/ DismissBox \/ CloseSettings \/ CloseContent \/ UNCHANGED appVars
  BY <1>1, <1>3, <1>7 DEF ButtonFails, DismissBox, CloseSettings, CloseContent, appVars, uiVars,
                    captureVars
<1>8. QED
  BY <1>1, <1>4, <1>5, <1>6, <1>7 DEF UserStep, CaptureStep, uiVars

\* Leaving stops the pipeline.
LEMMA QuitInv ==
  ASSUME AppInv, Quit
  PROVE  AppInv'
<1>1. /\ AppTypes /\ Stop /\ place' = "exited"
      /\ waiting' = <<>> /\ number' = 0 /\ UNCHANGED <<using, made, clock, fresh>>
  BY DEF AppInv, Quit, Exit, uiVars
<1>2. waiting' \in Seq(Nat) /\ Len(waiting') = 0
  BY <1>1
<1>3. AppTypes'
  <2>1. TypeOK'
    BY <1>1, TypeStep DEF AppTypes, Next
  <2>2. QED
    BY <1>1, <1>2, <2>1 DEF AppTypes
<1>4. TickInv' /\ PaintInv'
  BY <1>1, <1>2 DEF TickInv, PaintInv, CaptureSorted
<1>5. QED
  BY <1>3, <1>4 DEF AppInv

\* Only a tick that empties the output queue changes what is painted.
LEMMA AppInvStep ==
  ASSUME RoomForOne, AppInv, [AppNext]_appVars
  PROVE  /\ AppInv'
         /\ shown' # shown => Precedes(shown, shown') \/ fresh
<1>1. CASE Launch
  BY <1>1, LaunchInv DEF Launch, Start, vars
<1>2. CASE Tick
  BY <1>2, TickStep DEF Tick, TickSynthetic, TickCapture, Feed, Submit
<1>3. CASE TickProcess
  BY <1>3, ProcessInv DEF TickProcess, ProcessOne
<1>4. CASE TickDrain
  BY <1>4, DrainInv
<1>5. CASE Quit
  BY <1>5, QuitInv DEF Quit, Stop
<1>6. CASE UserStep \/ CaptureStep \/ UNCHANGED appVars
  BY <1>6, QuietInv DEF vars
<1>7. QED
  BY <1>1, <1>2, <1>3, <1>4, <1>5, <1>6 DEF AppNext, UiStep

\* Between two messages nothing is left in the pipeline and the frame painted is
\* the one taken from a source last: ticks never pile up work.
THEOREM AppScreenCurrent ==
  ASSUME RoomForOne
  PROVE  AppSpec => []ScreenCurrent
<1>1. AppInv => ScreenCurrent
  BY DEF AppInv, TickInv, AtLoop, ScreenCurrent
<1>2. AppInv /\ [AppNext]_appVars => AppInv'
  BY AppInvStep
<1>3. QED
  BY AppInvInit, <1>1, <1>2, PTL DEF AppSpec

\* What is painted goes forward within one source, however often the user switches,
\* and a frame of the source before never comes back.
THEOREM AppPaintedInOrder ==
  ASSUME RoomForOne
  PROVE  AppSpec => PaintedInOrder
<1>1. AppInv /\ [AppNext]_appVars => AppInv'
  BY AppInvStep
<1>2. AppInv /\ [AppNext]_appVars =>
         [shown' # shown => Precedes(shown, shown') \/ fresh]_appVars
  BY AppInvStep
<1>3. QED
  BY AppInvInit, <1>1, <1>2, PTL DEF AppSpec, PaintedInOrder
=============================================================================
