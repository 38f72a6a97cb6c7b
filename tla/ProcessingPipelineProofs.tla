---------------------- MODULE ProcessingPipelineProofs ----------------------
(***************************************************************************)
(* What holds of every pipeline, for every capacity of its queues, with or *)
(* without interpolation, whatever backends it is given, for any number of *)
(* frames and any timestamps.                                              *)
(***************************************************************************)
EXTENDS ProcessingPipeline, SequenceTheorems, TLAPS

QueueType == [queue : Seq(Frame), closed : BOOLEAN]

StatsType == [submitted : Nat, dropped_input : Nat, processed_input : Nat,
              produced_output : Nat, dropped_output : Nat, backend_errors : Nat]

-----------------------------------------------------------------------------
(***************************************************************************)
(* The operators the pipeline is built from.                               *)
(***************************************************************************)

\* The middle of an interval lies in it.
LEMMA HalfwayBetween ==
  ASSUME NEW a \in Nat, NEW b \in Nat, a <= b
  PROVE  /\ Halfway(a, b) \in Nat
         /\ a <= Halfway(a, b) /\ Halfway(a, b) <= b
  BY DEF Halfway

\* The middle of an interval moves on with its upper end.
LEMMA HalfwayMonotone ==
  ASSUME NEW a \in Nat, NEW b \in Nat, NEW c \in Nat, b <= c
  PROVE  Halfway(a, b) <= Halfway(a, c)
  BY DEF Halfway

\* The middle of two timestamps is a timestamp.
LEMMA HalfwayType ==
  ASSUME NEW a \in Nat, NEW b \in Nat
  PROVE  Halfway(a, b) \in Nat
  BY DEF Halfway

\* An accepted value is appended and nothing else changes.
LEMMA PushType ==
  ASSUME NEW capacity \in Nat, NEW q \in QueueType, NEW frame \in Frame, Accepts(q, capacity)
  PROVE  LET pushed == TryPush(q, capacity, frame) IN
         /\ pushed = [queue |-> Append(q.queue, frame), closed |-> q.closed]
         /\ pushed \in QueueType
         /\ Len(pushed.queue) = Len(q.queue) + 1
         /\ Len(pushed.queue) <= capacity
<1>1. /\ q.queue \in Seq(Frame)
      /\ Len(q.queue) < capacity
      /\ TryPush(q, capacity, frame) = [queue |-> Append(q.queue, frame), closed |-> q.closed]
  BY DEF QueueType, TryPush, Accepts
<1>2. /\ Append(q.queue, frame) \in Seq(Frame)
      /\ Len(Append(q.queue, frame)) = Len(q.queue) + 1
  BY <1>1
<1>3. QED
  BY <1>1, <1>2 DEF QueueType

\* What a pop takes and what it leaves.
LEMMA PopType ==
  ASSUME NEW q \in QueueType, q.queue # <<>>
  PROVE  /\ Popped(q) = q.queue[1] /\ Popped(q) \in Frame
         /\ AfterPop(q) = [queue |-> Tail(q.queue), closed |-> q.closed]
         /\ AfterPop(q) \in QueueType
         /\ Len(q.queue) \in Nat \ {0}
         /\ Len(AfterPop(q).queue) = Len(q.queue) - 1
         /\ \A i \in 1 .. Len(AfterPop(q).queue) :
               /\ i + 1 \in 1 .. Len(q.queue)
               /\ AfterPop(q).queue[i] = q.queue[i + 1]
<1>1. /\ q.queue \in Seq(Frame)
      /\ AfterPop(q) = [queue |-> Tail(q.queue), closed |-> q.closed]
  BY DEF QueueType, AfterPop
<1>2. /\ Tail(q.queue) \in Seq(Frame) /\ Head(q.queue) \in Frame
      /\ Head(q.queue) = q.queue[1]
      /\ Len(q.queue) \in Nat \ {0}
      /\ Len(Tail(q.queue)) = Len(q.queue) - 1
  BY <1>1
<1>3. \A i \in 1 .. Len(Tail(q.queue)) :
         i + 1 \in 1 .. Len(q.queue) /\ Tail(q.queue)[i] = q.queue[i + 1]
  BY <1>1, <1>2
<1>4. QED
  BY <1>1, <1>2, <1>3 DEF QueueType, Popped

\* Counting one more frame taken keeps the counters natural numbers.
LEMMA CountType ==
  ASSUME stats \in StatsType, NEW p \in Nat, NEW d \in Nat, NEW f \in Nat
  PROVE  /\ Count(p, d, f) = [submitted       |-> stats.submitted,
                              dropped_input   |-> stats.dropped_input,
                              processed_input |-> stats.processed_input + 1,
                              produced_output |-> stats.produced_output + p,
                              dropped_output  |-> stats.dropped_output + d,
                              backend_errors  |-> stats.backend_errors + f]
         /\ Count(p, d, f) \in StatsType
<1>1. Count(p, d, f) = [submitted       |-> stats.submitted,
                        dropped_input   |-> stats.dropped_input,
                        processed_input |-> stats.processed_input + 1,
                        produced_output |-> stats.produced_output + p,
                        dropped_output  |-> stats.dropped_output + d,
                        backend_errors  |-> stats.backend_errors + f]
  <2> DEFINE one == [stats EXCEPT !.processed_input = @ + 1]
             two == [one EXCEPT !.produced_output = @ + p]
             three == [two EXCEPT !.dropped_output = @ + d]
             four == [three EXCEPT !.backend_errors = @ + f]
  <2>1. one = [submitted       |-> stats.submitted,
               dropped_input   |-> stats.dropped_input,
               processed_input |-> stats.processed_input + 1,
               produced_output |-> stats.produced_output,
               dropped_output  |-> stats.dropped_output,
               backend_errors  |-> stats.backend_errors]
    BY DEF StatsType
  <2>2. two = [submitted       |-> stats.submitted,
               dropped_input   |-> stats.dropped_input,
               processed_input |-> stats.processed_input + 1,
               produced_output |-> stats.produced_output + p,
               dropped_output  |-> stats.dropped_output,
               backend_errors  |-> stats.backend_errors]
    <3> HIDE DEF one
    <3> QED
      BY <2>1
  <2>3. Count(p, d, f) = four
    BY Zenon DEF Count
  <2>4. QED
    <3> HIDE DEF two
    <3> QED
      BY <2>2, <2>3
<1>2. QED
  BY <1>1 DEF StatsType

\* A frame that can be interpolated from two others is a frame.
LEMMA InterpolatedType ==
  ASSUME PipelineAssumption, NEW first \in Frame, NEW second \in Frame
  PROVE  Interpolated(first, second) \in Frame
<1>1. Halfway(first.media_pts, second.media_pts) \in Nat
  BY HalfwayType DEF Frame
<1>2. QED
  BY <1>1 DEF Interpolated, Frame

-----------------------------------------------------------------------------
(***************************************************************************)
(* Types.                                                                  *)
(***************************************************************************)

\* The types hold of a new pipeline.
LEMMA TypeInit == Init => TypeOK
<1>1. EmptyQueue \in QueueType /\ Len(EmptyQueue.queue) = 0
  BY DEF EmptyQueue, QueueType
<1>2. QED
  BY <1>1, PipelineAssumption
     DEF Init, TypeOK, QueueType, States, Backends, ZeroStats

\* One publication: the output queue stays a bounded queue of frames, and the
\* frame kept for interpolation is the old one or the one just published.
LEMMA PublishType ==
  ASSUME TypeOK, NEW queue \in QueueType, Len(queue.queue) <= OutputCapacity,
         NEW current \in Frame, NEW published \in Nat,
         PublishCurrent(queue, current, published) \/ Overflow(queue, published)
  PROVE  /\ output' \in QueueType /\ Len(output'.queue) <= OutputCapacity
         /\ previous' \in {previous, current}
         /\ stats' \in StatsType
         /\ state' \in {"running", "degraded"}
<1>0. stats \in StatsType
  BY DEF TypeOK, StatsType
<1>1. CASE Overflow(queue, published)
  BY <1>0, <1>1, CountType DEF Overflow
<1>2. CASE /\ Accepts(queue, OutputCapacity)
           /\ output' = TryPush(queue, OutputCapacity, current)
           /\ stats' = Count(published + 1, 0, 0)
           /\ previous' = current
           /\ state' = "running"
  <2>1. /\ TryPush(queue, OutputCapacity, current) \in QueueType
        /\ Len(TryPush(queue, OutputCapacity, current).queue) <= OutputCapacity
    BY <1>2, PushType, PipelineAssumption
  <2>2. published + 1 \in Nat /\ 0 \in Nat
    OBVIOUS
  <2>3. Count(published + 1, 0, 0) \in StatsType
    BY <1>0, <2>2, CountType
  <2>4. QED
    BY <1>2, <2>1, <2>3
<1>3. QED
  BY <1>1, <1>2 DEF PublishCurrent

\* process_one() keeps the types, whatever its outcome.
LEMMA ProcessOneType ==
  ASSUME TypeOK, ProcessOne
  PROVE  TypeOK'
<1> DEFINE current == Popped(input)
<1>1. /\ input \in QueueType /\ output \in QueueType /\ stats \in StatsType
      /\ Len(input.queue) <= InputCapacity /\ Len(output.queue) <= OutputCapacity
      /\ input.queue # <<>>
      /\ input' = AfterPop(input)
      /\ UNCHANGED <<upscaler, interpolator, offered, shown>>
  BY DEF TypeOK, ProcessOne, QueueType, StatsType
<1>2. /\ current \in Frame
      /\ input' \in QueueType /\ Len(input'.queue) <= InputCapacity
  <2>1. input.queue \in Seq(Frame)
    BY <1>1 DEF QueueType
  <2>2. QED
    BY <1>1, <2>1, PopType, PipelineAssumption
<1>3. /\ output' \in QueueType /\ Len(output'.queue) <= OutputCapacity
      /\ previous' \in {previous, current}
      /\ stats' \in StatsType
      /\ state' \in States
  <2> HIDE DEF current
  <2>1. CASE BackendFails
    BY <1>1, <2>1, CountType DEF BackendFails, States
  <2>2. CASE PublishCurrent(output, current, 0)
    BY <1>1, <1>2, <2>2, PublishType DEF States
  <2>3. CASE Interpolates /\ PublishInterpolated(current)
    <3> DEFINE between == Interpolated(previous, current)
               pushed == TryPush(output, OutputCapacity, between)
    <3>1. between \in Frame
      BY <1>2, <2>3, InterpolatedType, PipelineAssumption DEF Interpolates, TypeOK
    <3>2. CASE Accepts(output, OutputCapacity) /\ PublishCurrent(pushed, current, 1)
      <4>1. pushed \in QueueType /\ Len(pushed.queue) <= OutputCapacity
        BY <1>1, <3>1, <3>2, PushType, PipelineAssumption
      <4> HIDE DEF pushed
      <4>2. QED
        BY <1>2, <3>2, <4>1, PublishType DEF States
    <3>3. CASE Overflow(output, 0)
      BY <1>1, <1>2, <3>3, PublishType DEF States
    <3>4. QED
      BY <2>3, <3>2, <3>3 DEF PublishInterpolated
  <2>4. QED
    BY <2>1, <2>2, <2>3 DEF ProcessOne, current
<1>4. QED
  BY <1>1, <1>2, <1>3 DEF TypeOK, QueueType, StatsType

\* submit() of any frame at all keeps the types.
LEMMA SubmitType ==
  ASSUME TypeOK, NEW frame \in Frame, Submit(frame)
  PROVE  TypeOK'
<1>0. /\ input \in QueueType /\ output \in QueueType /\ stats \in StatsType
      /\ Len(input.queue) <= InputCapacity /\ Len(output.queue) <= OutputCapacity
  BY DEF TypeOK, QueueType, StatsType
<1>1. /\ input' \in QueueType /\ Len(input'.queue) <= InputCapacity
      /\ stats' \in StatsType /\ state' \in States
  <2>1. CASE UNCHANGED <<state, input, stats>>
    BY <1>0, <2>1 DEF TypeOK
  <2>2. CASE /\ ~SubmitRefused /\ Accepts(input, InputCapacity)
             /\ input' = TryPush(input, InputCapacity, frame)
             /\ stats' = [stats EXCEPT !.submitted = @ + 1]
             /\ UNCHANGED state
    <3>1. input' \in QueueType /\ Len(input'.queue) <= InputCapacity
      BY <1>0, <2>2, PushType, PipelineAssumption
    <3>2. stats' \in StatsType
      BY <1>0, <2>2 DEF StatsType
    <3>3. QED
      BY <2>2, <3>1, <3>2 DEF TypeOK
  <2>3. CASE /\ ~SubmitRefused /\ ~Accepts(input, InputCapacity)
             /\ stats' = [stats EXCEPT !.dropped_input = @ + 1]
             /\ state' = "degraded"
             /\ UNCHANGED input
    <3>1. stats' \in StatsType
      BY <1>0, <2>3 DEF StatsType
    <3>2. QED
      BY <1>0, <2>3, <3>1 DEF States
  <2>4. QED
    BY <2>1, <2>2, <2>3 DEF Submit
<1>2. QED
  BY <1>1 DEF Submit, TypeOK, QueueType, StatsType

\* Every call keeps the types.
LEMMA TypeStep == TypeOK /\ [Next]_vars => TypeOK'
<1> SUFFICES ASSUME TypeOK, [Next]_vars
             PROVE  TypeOK'
  OBVIOUS
<1>0. /\ input \in QueueType /\ output \in QueueType /\ stats \in StatsType
      /\ Len(input.queue) <= InputCapacity /\ Len(output.queue) <= OutputCapacity
  BY DEF TypeOK, QueueType, StatsType
<1>1. CASE Start
  BY <1>1 DEF Start, TypeOK, States
<1>2. CASE Stop
  <2>1. /\ input' = [queue |-> input.queue, closed |-> TRUE]
        /\ output' = [queue |-> output.queue, closed |-> TRUE]
    BY <1>0, <1>2 DEF Stop, Close, QueueType
  <2>2. {upscaler', interpolator'} \subseteq Backends
    BY <1>2 DEF Stop, CloseBackend, Backends, TypeOK
  <2>3. QED
    BY <1>0, <1>2, <2>1, <2>2 DEF Stop, TypeOK, States, QueueType
<1>3. ASSUME NEW frame \in NextFrames, Submit(frame)
      PROVE  TypeOK'
  <2>1. frame \in Frame
    <3>1. frame \in [sequence : {offered.sequence + 1}, media_pts : offered.media_pts .. MaxPts,
                     shape : Shapes, interpolated : {FALSE}]
      BY DEF NextFrames
    <3>2. offered.sequence + 1 \in Nat /\ offered.media_pts \in Nat
      <4>1. offered \in Frame \/ offered = NoFrame
        BY DEF TypeOK
      <4>2. QED
        BY <4>1 DEF Frame, NoFrame
    <3>3. /\ frame = [sequence |-> frame.sequence, media_pts |-> frame.media_pts,
                      shape |-> frame.shape, interpolated |-> frame.interpolated]
          /\ frame.sequence = offered.sequence + 1
          /\ frame.media_pts \in offered.media_pts .. MaxPts
          /\ frame.shape \in Shapes /\ frame.interpolated = FALSE
      BY <3>1
    <3>4. frame.media_pts \in Nat
      BY <3>2, <3>3, PipelineAssumption
    <3>5. QED
      BY <3>2, <3>3, <3>4 DEF Frame
  <2>2. QED
    BY <1>3, <2>1, SubmitType
<1>4. CASE ProcessOne
  BY <1>4, ProcessOneType
<1>5. CASE Receive
  <2>1. shown' \in Frame /\ output' \in QueueType /\ Len(output'.queue) <= OutputCapacity
    <3>1. /\ output.queue # <<>>
          /\ shown' = Popped(output)
          /\ output' = AfterPop(output)
      BY <1>5 DEF Receive
    <3>2. QED
      BY <1>0, <3>1, PopType, PipelineAssumption
  <2>2. QED
    BY <1>5, <2>1 DEF Receive, TypeOK, QueueType
<1>6. CASE UNCHANGED vars
  BY <1>6 DEF vars, TypeOK
<1>7. QED
  BY <1>1, <1>2, <1>3, <1>4, <1>5, <1>6 DEF Next

\* Both queues stay within their capacities and everything keeps its type.
THEOREM PipelineTypeOK == Spec => []TypeOK
  BY TypeInit, TypeStep, PTL DEF Spec

-----------------------------------------------------------------------------
(***************************************************************************)
(* What one call of process_one() can come to.                             *)
(***************************************************************************)

\* One more frame taken; p more published, d more dropped, f more failed calls.
Counted(p, d, f) ==
    /\ stats'.submitted = stats.submitted
    /\ stats'.dropped_input = stats.dropped_input
    /\ stats'.processed_input = stats.processed_input + 1
    /\ stats'.produced_output = stats.produced_output + p
    /\ stats'.dropped_output = stats.dropped_output + d
    /\ stats'.backend_errors = stats.backend_errors + f

\* A backend failed, or the first publication was refused.
NothingPublished ==
    /\ UNCHANGED <<output, previous>>
    /\ \/ Counted(0, 0, 1) /\ state' = "error" /\ BackendFails
       \/ Counted(0, 1, 0) /\ state' = "degraded" /\ ~Accepts(output, OutputCapacity)

Pushed(frame) == TryPush(output, OutputCapacity, frame)

\* The upscaled frame was published alone.
CurrentPublished ==
    /\ ~Interpolates /\ Accepts(output, OutputCapacity)
    /\ output' = Pushed(Popped(input)) /\ previous' = Popped(input)
    /\ Counted(1, 0, 0) /\ state' = "running"

\* The interpolated frame was published; the upscaled one followed it or was
\* refused.
BetweenPublished ==
    LET between == Interpolated(previous, Popped(input)) IN
    /\ Interpolates /\ Accepts(output, OutputCapacity)
    /\ \/ /\ ~Accepts(Pushed(between), OutputCapacity)
          /\ output' = Pushed(between) /\ UNCHANGED previous
          /\ Counted(1, 1, 0) /\ state' = "degraded"
       \/ /\ Accepts(Pushed(between), OutputCapacity)
          /\ output' = TryPush(Pushed(between), OutputCapacity, Popped(input))
          /\ previous' = Popped(input)
          /\ Counted(2, 0, 0) /\ state' = "running"

\* The counters after a call that adds to some of them.
LEMMA CountedBy ==
  ASSUME stats \in StatsType, NEW p \in Nat, NEW d \in Nat, NEW f \in Nat,
         stats' = Count(p, d, f)
  PROVE  Counted(p, d, f)
  BY CountType DEF Counted

\* process_one() publishes nothing, the current frame, or a frame between first.
LEMMA ProcessOneOutcome ==
  ASSUME TypeOK, ProcessOne
  PROVE  NothingPublished \/ CurrentPublished \/ BetweenPublished
<1> DEFINE current == Popped(input)
           between == Interpolated(previous, current)
<1>0. stats \in StatsType
  BY DEF TypeOK, StatsType
<1> HIDE DEF current, between
<1>1. CASE BackendFails
  <2>1. stats' = Count(0, 0, 1)
    BY <1>1 DEF BackendFails
  <2>2. Counted(0, 0, 1)
    BY <1>0, <2>1, CountedBy
  <2>3. QED
    BY <1>1, <2>2 DEF BackendFails, NothingPublished
<1>2. ASSUME Overflow(output, 0), ~Accepts(output, OutputCapacity)
      PROVE  NothingPublished
  <2>1. Counted(0, 1, 0)
    BY <1>0, <1>2, CountedBy DEF Overflow
  <2>2. QED
    BY <1>2, <2>1 DEF Overflow, NothingPublished
<1>3. CASE ~Interpolates /\ PublishCurrent(output, current, 0)
  <2>1. CASE ~Accepts(output, OutputCapacity) /\ Overflow(output, 0)
    BY <1>2, <2>1
  <2>2. CASE /\ Accepts(output, OutputCapacity)
             /\ output' = Pushed(current) /\ previous' = current
             /\ stats' = Count(0 + 1, 0, 0) /\ state' = "running"
    <3>1. Counted(1, 0, 0)
      BY <1>0, <2>2, CountedBy
    <3>2. QED
      BY <1>3, <2>2, <3>1 DEF CurrentPublished, current
  <2>3. QED
    BY <1>3, <2>1, <2>2 DEF PublishCurrent, Pushed
<1>4. CASE Interpolates /\ PublishInterpolated(current)
  <2>1. CASE ~Accepts(output, OutputCapacity) /\ Overflow(output, 0)
    BY <1>2, <2>1
  <2>2. CASE /\ Accepts(output, OutputCapacity)
             /\ ~Accepts(Pushed(between), OutputCapacity)
             /\ Overflow(Pushed(between), 1)
    <3>1. Counted(1, 1, 0)
      BY <1>0, <2>2, CountedBy DEF Overflow
    <3>2. QED
      BY <1>4, <2>2, <3>1 DEF BetweenPublished, Overflow, between, current
  <2>3. CASE /\ Accepts(output, OutputCapacity)
             /\ Accepts(Pushed(between), OutputCapacity)
             /\ output' = TryPush(Pushed(between), OutputCapacity, current)
             /\ previous' = current
             /\ stats' = Count(1 + 1, 0, 0) /\ state' = "running"
    <3>1. Counted(2, 0, 0)
      BY <1>0, <2>3, CountedBy
    <3>2. QED
      BY <1>4, <2>3, <3>1 DEF BetweenPublished, between, current
  <2>4. QED
    BY <1>4, <2>1, <2>2, <2>3
       DEF PublishInterpolated, PublishCurrent, Pushed, between, current
<1>5. QED
  BY <1>1, <1>3, <1>4 DEF ProcessOne, current

-----------------------------------------------------------------------------
(***************************************************************************)
(* Accounting.  The bounds hold because the first frame taken finds no     *)
(* frame to interpolate from; that is what the last conjunct remembers.    *)
(***************************************************************************)

CountInv ==
    /\ InputConserved
    /\ WorkAccounted
    /\ stats.processed_input = 0 =>
          /\ previous = NoFrame
          /\ stats.produced_output = 0 /\ stats.dropped_output = 0
          /\ stats.backend_errors = 0

\* Nothing is counted yet in a new pipeline.
LEMMA CountInit == Init => CountInv
  BY DEF Init, CountInv, InputConserved, WorkAccounted, ZeroStats, EmptyQueue

\* Only Submit and ProcessOne touch the counters, each with the input queue.
LEMMA CountStep == TypeOK /\ CountInv /\ [Next]_vars => CountInv'
<1> SUFFICES ASSUME TypeOK, CountInv, [Next]_vars
             PROVE  CountInv'
  OBVIOUS
<1>0. /\ input \in QueueType /\ input.queue \in Seq(Frame) /\ stats \in StatsType
  BY DEF TypeOK, QueueType, StatsType
<1>1. ASSUME UNCHANGED stats, Len(input'.queue) = Len(input.queue),
             previous' = previous \/ previous' = NoFrame
      PROVE  CountInv'
  BY <1>1 DEF CountInv, InputConserved, WorkAccounted
<1>2. CASE Start \/ Receive \/ UNCHANGED vars
  BY <1>1, <1>2 DEF Start, Receive, vars
<1>3. CASE Stop
  <2>1. input'.queue = input.queue
    BY <1>0, <1>3 DEF Stop, Close, QueueType
  <2>2. QED
    BY <1>1, <1>3, <2>1 DEF Stop
<1>4. ASSUME NEW frame \in NextFrames, Submit(frame)
      PROVE  CountInv'
  <2>1. CASE UNCHANGED <<state, input, stats>>
    BY <1>1, <1>4, <2>1 DEF Submit
  <2>2. CASE /\ Accepts(input, InputCapacity)
             /\ input' = TryPush(input, InputCapacity, frame)
             /\ stats' = [stats EXCEPT !.submitted = @ + 1]
    <3>1. Len(input'.queue) = Len(input.queue) + 1
      <4>1. input'.queue = Append(input.queue, frame)
        BY <1>0, <2>2 DEF TryPush, QueueType
      <4>2. QED
        BY <1>0, <4>1
    <3>2. /\ stats'.submitted = stats.submitted + 1
          /\ stats'.processed_input = stats.processed_input
          /\ stats'.produced_output = stats.produced_output
          /\ stats'.dropped_output = stats.dropped_output
          /\ stats'.backend_errors = stats.backend_errors
      BY <1>0, <2>2 DEF StatsType
    <3>3. previous' = previous
      BY <1>4 DEF Submit
    <3>4. QED
      BY <1>0, <3>1, <3>2, <3>3 DEF CountInv, InputConserved, WorkAccounted, StatsType
  <2>3. CASE /\ stats' = [stats EXCEPT !.dropped_input = @ + 1]
             /\ UNCHANGED input
    <3>1. /\ stats'.submitted = stats.submitted
          /\ stats'.processed_input = stats.processed_input
          /\ stats'.produced_output = stats.produced_output
          /\ stats'.dropped_output = stats.dropped_output
          /\ stats'.backend_errors = stats.backend_errors
      BY <1>0, <2>3 DEF StatsType
    <3>2. previous' = previous
      BY <1>4 DEF Submit
    <3>3. QED
      BY <2>3, <3>1, <3>2 DEF CountInv, InputConserved, WorkAccounted
  <2>4. QED
    BY <1>4, <2>1, <2>2, <2>3 DEF Submit
<1>5. CASE ProcessOne
  <2>1. Len(input'.queue) = Len(input.queue) - 1 /\ Len(input.queue) \in Nat \ {0}
    BY <1>0, <1>5, PopType DEF ProcessOne
  <2>2. ASSUME NEW p \in 0 .. 2, NEW d \in 0 .. 1, NEW f \in 0 .. 1, Counted(p, d, f),
               p + d + f \in 1 .. 2, d + f <= 1,
               previous = NoFrame => p + d + f = 1
        PROVE  CountInv'
    <3>1. /\ stats.submitted \in Nat /\ stats.processed_input \in Nat
          /\ stats.produced_output \in Nat /\ stats.dropped_output \in Nat
          /\ stats.backend_errors \in Nat
      BY <1>0 DEF StatsType
    <3>2. InputConserved'
      <4>1. /\ stats'.submitted = stats.submitted
            /\ stats'.processed_input = stats.processed_input + 1
        BY <2>2 DEF Counted
      <4>2. stats.submitted = stats.processed_input + Len(input.queue)
        BY DEF CountInv, InputConserved
      <4>3. stats'.submitted = stats'.processed_input + Len(input'.queue)
        <5>1. Len(input'.queue) = Len(input.queue) - 1 /\ Len(input.queue) \in Nat
          BY <2>1
        <5>2. stats'.processed_input + Len(input'.queue)
                 = (stats.processed_input + 1) + (Len(input.queue) - 1)
          BY <4>1, <5>1
        <5>3. (stats.processed_input + 1) + (Len(input.queue) - 1)
                 = stats.processed_input + Len(input.queue)
          <6>1. \A a, b \in Nat : (a + 1) + (b - 1) = a + b
            OBVIOUS
          <6>2. QED
            BY <3>1, <5>1, <6>1
        <5>4. QED
          BY <4>1, <4>2, <5>2, <5>3
      <4>4. QED
        BY <4>3 DEF InputConserved
    <3>3. WorkAccounted'
      <4>1. CASE stats.processed_input = 0
        BY <2>2, <3>1, <4>1 DEF CountInv, WorkAccounted, Counted
      <4>2. CASE stats.processed_input > 0
        BY <2>2, <3>1, <4>2 DEF CountInv, WorkAccounted, Counted
      <4>3. QED
        BY <3>1, <4>1, <4>2
    <3>4. stats'.processed_input # 0
      BY <2>2, <3>1 DEF Counted
    <3>5. QED
      BY <3>2, <3>3, <3>4 DEF CountInv
  <2>3. CASE NothingPublished
    BY <2>2, <2>3 DEF NothingPublished
  <2>4. CASE CurrentPublished
    BY <2>2, <2>4 DEF CurrentPublished
  <2>5. CASE BetweenPublished
    BY <2>2, <2>5 DEF BetweenPublished, Interpolates
  <2>6. QED
    BY <1>5, <2>3, <2>4, <2>5, ProcessOneOutcome
<1>6. QED
  BY <1>2, <1>3, <1>4, <1>5 DEF Next

\* Every submitted frame is queued or was taken, always.
THEOREM PipelineInputConserved == Spec => []InputConserved
<1>1. CountInv => InputConserved
  BY DEF CountInv
<1>2. QED
  BY TypeInit, TypeStep, CountInit, CountStep, <1>1, PTL DEF Spec

\* Every frame taken left a trace, and N of them never make more than 2N - 1.
THEOREM PipelineWorkAccounted == Spec => []WorkAccounted
<1>1. CountInv => WorkAccounted
  BY DEF CountInv
<1>2. QED
  BY TypeInit, TypeStep, CountInit, CountStep, <1>1, PTL DEF Spec

-----------------------------------------------------------------------------
(***************************************************************************)
(* Lifecycle.                                                              *)
(***************************************************************************)

\* process_one() never dereferences a backend that is not there.
THEOREM PipelineBackendsPresent == Spec => []BackendsPresent
<1>1. Init => BackendsPresent
  BY DEF Init, BackendsPresent
<1>2. TypeOK /\ BackendsPresent /\ [Next]_vars => BackendsPresent'
  <2> SUFFICES ASSUME TypeOK, BackendsPresent, [Next]_vars
               PROVE  BackendsPresent'
    OBVIOUS
  <2>1. CASE Start
    BY <2>1 DEF Start, BackendsPresent
  <2>2. CASE Stop
    BY <2>2 DEF Stop, BackendsPresent
  <2>3. ASSUME NEW frame \in NextFrames, Submit(frame)
        PROVE  BackendsPresent'
    BY <2>3 DEF Submit, SubmitRefused, BackendsPresent
  <2>4. CASE ProcessOne
    BY <2>4 DEF ProcessOne, BackendsPresent
  <2>5. CASE Receive \/ UNCHANGED vars
    BY <2>5 DEF Receive, vars, BackendsPresent
  <2>6. QED
    BY <2>1, <2>2, <2>3, <2>4, <2>5 DEF Next
<1>3. QED
  BY TypeInit, TypeStep, <1>1, <1>2, PTL DEF Spec

\* stop() closes both queues, and nothing reopens one.
BothClosed == output.closed => input.closed

\* What a step of a pipeline that was stopped may still do.
LEMMA ClosedStep ==
  ASSUME TypeOK, BothClosed, [Next]_vars
  PROVE  /\ BothClosed'
         /\ output.closed => /\ stats'.submitted = stats.submitted
                             /\ stats'.produced_output = stats.produced_output
                             /\ output'.closed
<1>0. input \in QueueType /\ output \in QueueType /\ stats \in StatsType
  BY DEF TypeOK, QueueType, StatsType
<1>1. CASE Start \/ UNCHANGED vars
  BY <1>1 DEF Start, vars, BothClosed
<1>2. CASE Stop
  <2>1. input'.closed = TRUE /\ output'.closed = TRUE /\ stats' = stats
    BY <1>0, <1>2 DEF Stop, Close, QueueType
  <2>2. QED
    BY <2>1 DEF BothClosed
<1>3. ASSUME NEW frame \in NextFrames, Submit(frame)
      PROVE  /\ input'.closed = input.closed /\ output' = output
             /\ stats'.produced_output = stats.produced_output
             /\ input.closed => stats'.submitted = stats.submitted
  <2>0. stats'.produced_output = stats.produced_output
    BY <1>0, <1>3 DEF Submit, StatsType
  <2>1. CASE input.closed
    BY <1>3, <2>0, <2>1 DEF Submit, SubmitRefused
  <2>2. CASE ~input.closed
    <3>1. input' = input \/ input' = TryPush(input, InputCapacity, frame)
      BY <1>3 DEF Submit
    <3>2. TryPush(input, InputCapacity, frame).closed = input.closed
      BY <1>0 DEF TryPush, QueueType
    <3>3. QED
      BY <1>3, <2>0, <2>2, <3>1, <3>2 DEF Submit
  <2>3. QED
    BY <2>1, <2>2
<1>4. CASE Receive
  BY <1>0, <1>4, PopType DEF Receive, BothClosed
<1>5. CASE ProcessOne
  <2>1. input'.closed = input.closed
    BY <1>0, <1>5, PopType DEF ProcessOne
  <2>2. CASE output.closed
    <3>1. ~Accepts(output, OutputCapacity)
      BY <2>2 DEF Accepts
    <3>2. NothingPublished
      BY <1>5, <3>1, ProcessOneOutcome DEF CurrentPublished, BetweenPublished
    <3>3. /\ output' = output
          /\ stats'.submitted = stats.submitted
          /\ stats'.produced_output = stats.produced_output + 0
      BY <3>2 DEF NothingPublished, Counted
    <3>4. stats.produced_output \in Nat
      BY <1>0 DEF StatsType
    <3>5. QED
      BY <2>1, <3>3, <3>4 DEF BothClosed
  <2>3. CASE ~output.closed
    <3>1. \A frame : \A q \in QueueType : TryPush(q, OutputCapacity, frame).closed = q.closed
      BY DEF TryPush, QueueType
    <3>2. output'.closed = output.closed
      <4>1. CASE NothingPublished
        BY <4>1 DEF NothingPublished
      <4>2. CASE CurrentPublished
        BY <1>0, <3>1, <4>2 DEF CurrentPublished, Pushed
      <4>3. CASE BetweenPublished
        <5> DEFINE between == Interpolated(previous, Popped(input))
        <5>1. between \in Frame /\ Accepts(output, OutputCapacity)
          <6>1. Popped(input) \in Frame
            BY <1>0, <1>5, PopType DEF ProcessOne
          <6>2. previous \in Frame
            BY <4>3 DEF BetweenPublished, Interpolates, TypeOK
          <6>3. QED
            BY <4>3, <6>1, <6>2, InterpolatedType, PipelineAssumption DEF BetweenPublished
        <5>2. Pushed(between) \in QueueType /\ Pushed(between).closed = output.closed
          BY <1>0, <3>1, <5>1, PushType, PipelineAssumption DEF Pushed
        <5>3. \/ output' = Pushed(between)
              \/ output' = TryPush(Pushed(between), OutputCapacity, Popped(input))
          BY <4>3 DEF BetweenPublished
        <5> HIDE DEF between
        <5>4. QED
          BY <3>1, <5>2, <5>3
      <4>4. QED
        BY <1>5, <4>1, <4>2, <4>3, ProcessOneOutcome
    <3>3. QED
      BY <2>3, <3>2 DEF BothClosed
  <2>4. QED
    BY <2>2, <2>3
<1>6. ASSUME NEW frame \in NextFrames, Submit(frame)
      PROVE  /\ BothClosed'
             /\ output.closed => /\ stats'.submitted = stats.submitted
                                 /\ stats'.produced_output = stats.produced_output
                                 /\ output'.closed
  BY <1>3, <1>6 DEF BothClosed
<1>7. QED
  BY <1>1, <1>2, <1>4, <1>5, <1>6 DEF Next

\* A pipeline runs once: after stop() nothing is admitted or published again.
THEOREM PipelineStoppedForGood == Spec => StoppedForGood
<1>1. Init => BothClosed
  BY DEF Init, BothClosed, EmptyQueue
<1>2. TypeOK /\ BothClosed /\ [Next]_vars => BothClosed'
  BY ClosedStep
<1>3. TypeOK /\ BothClosed /\ [Next]_vars =>
         [output.closed => /\ stats'.submitted = stats.submitted
                           /\ stats'.produced_output = stats.produced_output
                           /\ output'.closed]_vars
  BY ClosedStep
<1>4. QED
  BY TypeInit, TypeStep, <1>1, <1>2, <1>3, PTL DEF Spec, StoppedForGood

-----------------------------------------------------------------------------
(***************************************************************************)
(* Order.                                                                  *)
(***************************************************************************)

\* Frames that left the pipeline or wait to be received.
Emitted(queue) == {shown} \cup {queue[i] : i \in DOMAIN queue}

Ahead(a, b) == a.media_pts <= b.media_pts /\ a.sequence < b.sequence

\* What is not after a frame is ahead of whatever that frame is ahead of.
LEMMA BehindAhead ==
  ASSUME NEW e, NEW a, NEW b,
         e.media_pts \in Nat, e.sequence \in Int, a.media_pts \in Nat, a.sequence \in Int,
         b.media_pts \in Nat, b.sequence \in Int,
         e.media_pts <= a.media_pts, e.sequence <= a.sequence, Ahead(a, b)
  PROVE  Ahead(e, b)
BY DEF Ahead

\* The input queue is in the order of the source, which has offered nothing
\* later than its last frame.
InputOrdered ==
    /\ \A i, j \in 1 .. Len(input.queue) : i < j => Ahead(input.queue[i], input.queue[j])
    /\ \A i \in 1 .. Len(input.queue) :
          /\ ~input.queue[i].interpolated
          /\ input.queue[i].media_pts <= offered.media_pts
          /\ input.queue[i].sequence <= offered.sequence

\* What was emitted comes before everything still to be processed.
EmittedBehind ==
    \A e \in Emitted(output.queue) :
        /\ e.media_pts <= offered.media_pts /\ e.sequence <= offered.sequence
        /\ \A i \in 1 .. Len(input.queue) : Ahead(e, input.queue[i])

\* The next interpolated frame will lie between previous and a frame still to
\* come, and nothing emitted lies beyond that point: not even a frame that was
\* interpolated towards a frame the output queue then refused.
PreviousBehind ==
    previous # NoFrame =>
        /\ ~previous.interpolated
        /\ previous.media_pts <= offered.media_pts /\ previous.sequence <= offered.sequence
        /\ \A i \in 1 .. Len(input.queue) : Ahead(previous, input.queue[i])
        /\ \A e \in Emitted(output.queue) :
              /\ Provider = "onnx" => e.sequence <= previous.sequence
              /\ e.media_pts <= Halfway(previous.media_pts, offered.media_pts)
              /\ \A i \in 1 .. Len(input.queue) :
                    e.media_pts <= Halfway(previous.media_pts, input.queue[i].media_pts)

OrderInv == InputOrdered /\ EmittedBehind /\ PreviousBehind /\ DeliveredInOrder

OrderedQueue(queue) ==
    /\ \A i \in 1 .. Len(queue) : Precedes(shown, queue[i])
    /\ \A i, j \in 1 .. Len(queue) : i < j => Precedes(queue[i], queue[j])

\* Every frame before, in and behind the pipeline has a timestamp and a number.
LEMMA EmittedType ==
  ASSUME TypeOK
  PROVE  /\ \A e \in Emitted(output.queue) : e.media_pts \in Nat /\ e.sequence \in Int
         /\ \A i \in 1 .. Len(input.queue) :
               /\ input.queue[i] \in Frame
               /\ input.queue[i].media_pts \in Nat /\ input.queue[i].sequence \in Nat
         /\ previous.media_pts \in Nat /\ previous.sequence \in Int
         /\ offered.media_pts \in Nat /\ offered.sequence \in Int
<1>1. \A f \in Frame \cup {NoFrame} : f.media_pts \in Nat /\ f.sequence \in Int
  BY DEF Frame, NoFrame
<1>2. input.queue \in Seq(Frame) /\ output.queue \in Seq(Frame)
  BY DEF TypeOK
<1>3. \A e \in Emitted(output.queue) : e \in Frame \cup {NoFrame}
  BY <1>2 DEF Emitted, TypeOK
<1>4. \A f \in Frame : f.media_pts \in Nat /\ f.sequence \in Nat
  BY DEF Frame
<1>5. {previous, offered} \subseteq Frame \cup {NoFrame}
  BY DEF TypeOK
<1>6. QED
  BY <1>1, <1>2, <1>3, <1>4, <1>5

\* A frame that may follow everything emitted can be appended.
LEMMA PushOrdered ==
  ASSUME NEW q \in QueueType, NEW frame \in Frame, Accepts(q, OutputCapacity),
         OrderedQueue(q.queue), \A e \in Emitted(q.queue) : Precedes(e, frame)
  PROVE  LET pushed == TryPush(q, OutputCapacity, frame).queue IN
         /\ OrderedQueue(pushed)
         /\ \A e \in Emitted(pushed) : e \in Emitted(q.queue) \/ e = frame
<1> DEFINE pushed == Append(q.queue, frame)
<1>1. q.queue \in Seq(Frame) /\ TryPush(q, OutputCapacity, frame).queue = pushed
  BY DEF QueueType, TryPush
<1>2. /\ Len(q.queue) \in Nat /\ Len(pushed) = Len(q.queue) + 1
      /\ DOMAIN pushed = 1 .. Len(q.queue) + 1
      /\ \A i \in 1 .. Len(q.queue) : pushed[i] = q.queue[i] /\ q.queue[i] \in Emitted(q.queue)
      /\ pushed[Len(q.queue) + 1] = frame
  BY <1>1 DEF Emitted
<1>3. shown \in Emitted(q.queue)
  BY DEF Emitted
<1> HIDE DEF pushed
<1>4. \A i \in 1 .. Len(pushed) : i \in 1 .. Len(q.queue) \/ i = Len(q.queue) + 1
  BY <1>2
<1>5. \A i \in 1 .. Len(pushed) : Precedes(shown, pushed[i])
  BY <1>2, <1>3, <1>4 DEF OrderedQueue
<1>6. ASSUME NEW i \in 1 .. Len(pushed), NEW j \in 1 .. Len(pushed), i < j
      PROVE  Precedes(pushed[i], pushed[j])
  <2>1. i \in 1 .. Len(q.queue)
    BY <1>2, <1>6
  <2>2. QED
    BY <1>2, <1>4, <1>6, <2>1 DEF OrderedQueue
<1>7. \A e \in Emitted(pushed) : e \in Emitted(q.queue) \/ e = frame
  BY <1>2, <1>4 DEF Emitted
<1>8. QED
  BY <1>1, <1>5, <1>6, <1>7 DEF OrderedQueue

\* process_one() takes the oldest queued frame and publishes frames no earlier
\* than any emitted before and no later than any still queued.
LEMMA OrderProcessOne ==
  ASSUME TypeOK, OrderInv, ProcessOne
  PROVE  OrderInv'
<1> DEFINE current == Popped(input)
           between == Interpolated(previous, current)
<1>1. /\ input \in QueueType /\ output \in QueueType
      /\ input.queue # <<>> /\ input' = AfterPop(input)
      /\ offered' = offered /\ shown' = shown
  BY DEF TypeOK, QueueType, ProcessOne
<1>2. /\ current = input.queue[1] /\ current \in Frame
      /\ 1 \in 1 .. Len(input.queue)
      /\ Len(input.queue) \in Nat
      /\ Len(input'.queue) = Len(input.queue) - 1
      /\ \A i \in 1 .. Len(input'.queue) :
            /\ i + 1 \in 1 .. Len(input.queue)
            /\ input'.queue[i] = input.queue[i + 1]
  BY <1>1, PopType
<1> HIDE DEF current
<1>3. /\ \A e \in Emitted(output.queue) : e.media_pts \in Nat /\ e.sequence \in Int
      /\ \A i \in 1 .. Len(input'.queue) :
            input'.queue[i].media_pts \in Nat /\ input'.queue[i].sequence \in Nat
      /\ current.media_pts \in Nat /\ current.sequence \in Nat
      /\ previous.media_pts \in Nat /\ previous.sequence \in Int
      /\ offered.media_pts \in Nat /\ offered.sequence \in Int
  BY <1>2, EmittedType
<1>4. /\ \A i \in 1 .. Len(input'.queue) : Ahead(current, input'.queue[i])
      /\ ~current.interpolated
      /\ current.media_pts <= offered.media_pts /\ current.sequence <= offered.sequence
      /\ \A e \in Emitted(output.queue) : Ahead(e, current)
      /\ previous # NoFrame => Ahead(previous, current)
  BY <1>2 DEF OrderInv, InputOrdered, EmittedBehind, PreviousBehind
<1>5. InputOrdered'
  <2>1. ASSUME NEW i \in 1 .. Len(input'.queue), NEW j \in 1 .. Len(input'.queue), i < j
        PROVE  Ahead(input'.queue[i], input'.queue[j])
    BY <1>2, <2>1 DEF OrderInv, InputOrdered
  <2>2. QED
    BY <1>1, <1>2, <2>1 DEF OrderInv, InputOrdered, Ahead
<1>6. Emitted(output.queue)' = Emitted(output'.queue)
  BY <1>1 DEF Emitted
<1>7. DeliveredInOrder' <=> OrderedQueue(output'.queue)
  BY <1>1 DEF DeliveredInOrder, OrderedQueue
<1>8. ASSUME previous' = current, OrderedQueue(output'.queue),
             \A e \in Emitted(output'.queue) :
                /\ e.media_pts \in Nat /\ e.sequence \in Int
                /\ e.media_pts <= current.media_pts /\ e.sequence <= current.sequence
      PROVE  OrderInv'
  <2>1. EmittedBehind'
    <3>1. ASSUME NEW e \in Emitted(output'.queue)
          PROVE  /\ e.media_pts <= offered.media_pts /\ e.sequence <= offered.sequence
                 /\ \A i \in 1 .. Len(input'.queue) : Ahead(e, input'.queue[i])
      <4>1. /\ e.media_pts \in Nat /\ e.sequence \in Int
            /\ e.media_pts <= current.media_pts /\ e.sequence <= current.sequence
        BY <1>8
      <4>2. e.media_pts <= offered.media_pts /\ e.sequence <= offered.sequence
        BY <1>3, <1>4, <4>1
      <4>3. ASSUME NEW i \in 1 .. Len(input'.queue)
            PROVE  Ahead(e, input'.queue[i])
        <5>1. /\ Ahead(current, input'.queue[i])
              /\ input'.queue[i].media_pts \in Nat /\ input'.queue[i].sequence \in Nat
              /\ current.media_pts \in Nat /\ current.sequence \in Nat
          BY <1>3, <1>4
        <5>2. QED
          BY <4>1, <5>1, BehindAhead
      <4>4. QED
        BY <4>2, <4>3
    <3>2. QED
      BY <1>1, <1>6, <3>1 DEF EmittedBehind
  <2>2. PreviousBehind'
    <3>1. ASSUME NEW e \in Emitted(output'.queue), NEW t \in Nat, current.media_pts <= t
          PROVE  e.media_pts <= Halfway(current.media_pts, t)
      <4>1. /\ Halfway(current.media_pts, t) \in Nat
            /\ current.media_pts <= Halfway(current.media_pts, t)
        BY <1>3, <3>1, HalfwayBetween
      <4>2. QED
        BY <1>3, <1>8, <4>1
    <3>2. QED
      BY <1>1, <1>3, <1>4, <1>6, <1>8, <3>1 DEF PreviousBehind, Ahead
  <2>3. QED
    BY <1>5, <1>7, <1>8, <2>1, <2>2 DEF OrderInv
<1>9. ASSUME Interpolates
      PROVE  /\ between \in Frame /\ between.interpolated
             /\ between.media_pts \in Nat /\ between.sequence \in Int
             /\ between.media_pts = Halfway(previous.media_pts, current.media_pts)
             /\ between.media_pts <= current.media_pts
             /\ between.sequence <= current.sequence
             /\ Provider = "onnx" => between.sequence <= previous.sequence
             /\ \A e \in Emitted(output.queue) : Precedes(e, between)
             /\ Precedes(between, current)
  <2>1. previous \in Frame /\ previous # NoFrame /\ Ahead(previous, current)
    BY <1>4, <1>9 DEF Interpolates, TypeOK
  <2>2. /\ between \in Frame
        /\ between.interpolated = TRUE
        /\ between.media_pts = Halfway(previous.media_pts, current.media_pts)
        /\ between.sequence = IF Provider = "fake" THEN current.sequence ELSE previous.sequence
    BY <1>2, <2>1, InterpolatedType, PipelineAssumption DEF Interpolated
  <2>3. between.media_pts \in Nat /\ between.media_pts <= current.media_pts
    BY <1>3, <2>1, <2>2, HalfwayBetween DEF Ahead
  <2>4. between.sequence \in Int /\ between.sequence <= current.sequence
    BY <1>3, <2>1, <2>2 DEF Ahead
  <2>5. Provider = "onnx" => between.sequence <= previous.sequence
    BY <1>3, <2>2
  <2> HIDE DEF between
  <2>6. ASSUME NEW e \in Emitted(output.queue)
        PROVE  e.media_pts <= between.media_pts /\ e.sequence <= between.sequence
    <3>1. e.media_pts <= between.media_pts
      BY <1>2, <2>1, <2>2 DEF OrderInv, PreviousBehind
    <3>2. CASE Provider = "fake"
      BY <1>3, <1>4, <2>2, <3>1, <3>2 DEF Ahead
    <3>3. CASE Provider = "onnx"
      BY <2>1, <2>2, <3>1, <3>3 DEF OrderInv, PreviousBehind
    <3>4. QED
      BY <3>2, <3>3, PipelineAssumption
  <2>7. QED
    BY <2>2, <2>3, <2>4, <2>5, <2>6 DEF Precedes
<1>10. ASSUME previous' = previous, OrderedQueue(output'.queue),
              \A e \in Emitted(output'.queue) :
                 e \in Emitted(output.queue) \/ (Interpolates /\ e = between)
       PROVE  OrderInv'
  <2>1. EmittedBehind'
    <3>1. ASSUME NEW e \in Emitted(output'.queue)
          PROVE  /\ e.media_pts \in Nat /\ e.sequence \in Int
                 /\ e.media_pts <= current.media_pts /\ e.sequence <= current.sequence
      <4>1. CASE e \in Emitted(output.queue)
        BY <1>3, <1>4, <4>1 DEF Ahead
      <4>2. CASE Interpolates /\ e = between
        BY <1>9, <4>2
      <4>3. QED
        BY <1>10, <4>1, <4>2
    <3>2. ASSUME NEW e \in Emitted(output'.queue)
          PROVE  /\ e.media_pts <= offered.media_pts /\ e.sequence <= offered.sequence
                 /\ \A i \in 1 .. Len(input'.queue) : Ahead(e, input'.queue[i])
      <4>1. /\ e.media_pts \in Nat /\ e.sequence \in Int
            /\ e.media_pts <= current.media_pts /\ e.sequence <= current.sequence
        BY <3>1, <3>2
      <4>2. e.media_pts <= offered.media_pts /\ e.sequence <= offered.sequence
        BY <1>3, <1>4, <4>1
      <4>3. ASSUME NEW i \in 1 .. Len(input'.queue)
            PROVE  Ahead(e, input'.queue[i])
        <5>1. /\ Ahead(current, input'.queue[i])
              /\ input'.queue[i].media_pts \in Nat /\ input'.queue[i].sequence \in Nat
              /\ current.media_pts \in Nat /\ current.sequence \in Nat
          BY <1>3, <1>4
        <5>2. QED
          BY <4>1, <5>1, BehindAhead
      <4>4. QED
        BY <4>2, <4>3
    <3>3. QED
      BY <1>1, <1>6, <3>2 DEF EmittedBehind
  <2>2. PreviousBehind'
    <3> SUFFICES ASSUME previous # NoFrame
                 PROVE  PreviousBehind'
      BY <1>10 DEF PreviousBehind
    <3>1. /\ ~previous.interpolated
          /\ previous.media_pts <= offered.media_pts /\ previous.sequence <= offered.sequence
          /\ \A i \in 1 .. Len(input'.queue) : Ahead(previous, input'.queue[i])
      BY <1>2 DEF OrderInv, PreviousBehind
    <3>2. ASSUME NEW e \in Emitted(output'.queue)
          PROVE  /\ Provider = "onnx" => e.sequence <= previous.sequence
                 /\ e.media_pts <= Halfway(previous.media_pts, offered.media_pts)
                 /\ \A i \in 1 .. Len(input'.queue) :
                       e.media_pts <= Halfway(previous.media_pts, input'.queue[i].media_pts)
      <4>1. CASE e \in Emitted(output.queue)
        BY <1>2, <4>1 DEF OrderInv, PreviousBehind
      <4>2. CASE Interpolates /\ e = between
        <5>1. ASSUME NEW t \in Nat, current.media_pts <= t
              PROVE  between.media_pts <= Halfway(previous.media_pts, t)
          BY <1>3, <1>9, <4>2, <5>1, HalfwayMonotone
        <5>2. QED
          BY <1>3, <1>4, <1>9, <4>2, <5>1 DEF Ahead
      <4>3. QED
        BY <1>10, <4>1, <4>2
    <3>3. QED
      BY <1>1, <1>6, <1>10, <3>1, <3>2 DEF PreviousBehind
  <2>3. QED
    BY <1>5, <1>7, <1>10, <2>1, <2>2 DEF OrderInv
<1>11. OrderedQueue(output.queue)
  BY DEF OrderInv, DeliveredInOrder, OrderedQueue
<1>12. \A e \in Emitted(output.queue) : Precedes(e, current)
  BY <1>3, <1>4 DEF Ahead, Precedes
<1>13. CASE NothingPublished
  BY <1>10, <1>11, <1>13 DEF NothingPublished
<1>14. CASE CurrentPublished
  <2>1. /\ OrderedQueue(output'.queue)
        /\ \A e \in Emitted(output'.queue) : e \in Emitted(output.queue) \/ e = current
    BY <1>1, <1>2, <1>11, <1>12, <1>14, PushOrdered DEF CurrentPublished, Pushed, current
  <2>2. previous' = current
    BY <1>14 DEF CurrentPublished, current
  <2>3. QED
    BY <1>3, <1>4, <1>8, <2>1, <2>2 DEF Ahead
<1>15. CASE BetweenPublished
  <2> DEFINE pushed == Pushed(between)
  <2>1. /\ Interpolates /\ Accepts(output, OutputCapacity)
        /\ \/ ~Accepts(pushed, OutputCapacity) /\ output' = pushed /\ previous' = previous
           \/ /\ Accepts(pushed, OutputCapacity)
              /\ output' = TryPush(pushed, OutputCapacity, current)
              /\ previous' = current
    BY <1>15 DEF BetweenPublished, current
  <2>2. /\ between \in Frame /\ \A e \in Emitted(output.queue) : Precedes(e, between)
        /\ between.media_pts \in Nat /\ between.sequence \in Int
        /\ between.media_pts <= current.media_pts /\ between.sequence <= current.sequence
        /\ Precedes(between, current)
    BY <1>9, <2>1
  <2> HIDE DEF between
  <2>3. /\ pushed \in QueueType
        /\ OrderedQueue(pushed.queue)
        /\ \A e \in Emitted(pushed.queue) : e \in Emitted(output.queue) \/ e = between
    BY <1>1, <1>11, <2>1, <2>2, PushType, PushOrdered, PipelineAssumption DEF Pushed
  <2> HIDE DEF pushed
  <2>4. CASE output' = pushed /\ previous' = previous
    BY <1>10, <2>1, <2>3, <2>4 DEF between
  <2>5. CASE /\ Accepts(pushed, OutputCapacity)
             /\ output' = TryPush(pushed, OutputCapacity, current)
             /\ previous' = current
    <3>1. \A e \in Emitted(pushed.queue) : Precedes(e, current)
      BY <1>12, <2>2, <2>3
    <3>2. /\ OrderedQueue(output'.queue)
          /\ \A e \in Emitted(output'.queue) : e \in Emitted(pushed.queue) \/ e = current
      BY <1>2, <2>3, <2>5, <3>1, PushOrdered
    <3>3. \A e \in Emitted(output'.queue) :
             /\ e.media_pts \in Nat /\ e.sequence \in Int
             /\ e.media_pts <= current.media_pts /\ e.sequence <= current.sequence
      BY <1>3, <1>4, <2>2, <2>3, <3>2 DEF Ahead
    <3>4. QED
      BY <1>8, <2>5, <3>2, <3>3
  <2>6. QED
    BY <2>1, <2>4, <2>5
<1>16. QED
  BY <1>13, <1>14, <1>15, ProcessOneOutcome

\* There is nothing to be in order in a new pipeline.
LEMMA OrderInit == Init => OrderInv
  BY DEF Init, OrderInv, InputOrdered, EmittedBehind, PreviousBehind, DeliveredInOrder,
         Emitted, EmptyQueue, NoFrame

\* A source frame is offered after every frame before it; whether it is queued,
\* refused or dropped, everything else stays behind it.
LEMMA OrderSubmit ==
  ASSUME TypeOK, OrderInv, NEW frame \in NextFrames, Submit(frame)
  PROVE  OrderInv'
<1>1. frame \in [sequence : {offered.sequence + 1}, media_pts : offered.media_pts .. MaxPts,
                 shape : Shapes, interpolated : {FALSE}]
  BY DEF NextFrames
<1>2. /\ offered.media_pts \in Nat /\ offered.sequence \in Int
      /\ previous.media_pts \in Nat /\ previous.sequence \in Int
      /\ \A e \in Emitted(output.queue) : e.media_pts \in Nat /\ e.sequence \in Int
      /\ \A i \in 1 .. Len(input.queue) :
            input.queue[i].media_pts \in Nat /\ input.queue[i].sequence \in Nat
      /\ input.queue \in Seq(Frame) /\ input \in QueueType
  BY EmittedType DEF TypeOK, QueueType
<1>3. /\ frame.media_pts \in Nat /\ frame.sequence \in Int
      /\ ~frame.interpolated
      /\ Ahead(offered, frame)
  <2>1. /\ frame.sequence = offered.sequence + 1
        /\ frame.media_pts \in offered.media_pts .. MaxPts
        /\ frame.interpolated = FALSE
    BY <1>1
  <2>2. QED
    BY <1>2, <2>1, PipelineAssumption DEF Ahead
<1>4. /\ offered' = frame /\ output' = output /\ previous' = previous /\ shown' = shown
      /\ \/ input' = input
         \/ input' = TryPush(input, InputCapacity, frame) /\ Accepts(input, InputCapacity)
  BY DEF Submit
<1>5. \A i \in 1 .. Len(input'.queue) :
         \/ i \in 1 .. Len(input.queue) /\ input'.queue[i] = input.queue[i]
         \/ i = Len(input.queue) + 1 /\ input'.queue[i] = frame
  <2>1. CASE input' = input
    BY <2>1
  <2>2. CASE input' = TryPush(input, InputCapacity, frame) /\ Accepts(input, InputCapacity)
    <3>1. input'.queue = Append(input.queue, frame)
      BY <1>2, <2>2 DEF TryPush, QueueType
    <3>2. QED
      BY <1>2, <3>1
  <2>3. QED
    BY <1>4, <2>1, <2>2
<1>6. Len(input.queue) \in Nat
  BY <1>2
<1>7. ASSUME NEW i \in 1 .. Len(input.queue)
      PROVE  Ahead(input.queue[i], frame)
  <2>1. /\ input.queue[i].media_pts \in Nat /\ input.queue[i].sequence \in Nat
        /\ input.queue[i].media_pts <= offered.media_pts
        /\ input.queue[i].sequence <= offered.sequence
    BY <1>2 DEF OrderInv, InputOrdered
  <2>2. QED
    BY <1>2, <1>3, <2>1, BehindAhead
<1>8. InputOrdered'
  <2>1. ASSUME NEW i \in 1 .. Len(input'.queue), NEW j \in 1 .. Len(input'.queue), i < j
        PROVE  Ahead(input'.queue[i], input'.queue[j])
    <3>1. i \in 1 .. Len(input.queue) /\ input'.queue[i] = input.queue[i]
      BY <1>5, <1>6, <2>1
    <3>2. QED
      BY <1>5, <1>7, <2>1, <3>1 DEF OrderInv, InputOrdered
  <2>2. ASSUME NEW i \in 1 .. Len(input'.queue)
        PROVE  /\ ~input'.queue[i].interpolated
               /\ input'.queue[i].media_pts <= frame.media_pts
               /\ input'.queue[i].sequence <= frame.sequence
    <3>1. CASE i \in 1 .. Len(input.queue) /\ input'.queue[i] = input.queue[i]
      <4>1. Ahead(input.queue[i], frame) /\ ~input.queue[i].interpolated
        BY <1>7, <3>1 DEF OrderInv, InputOrdered
      <4>2. QED
        BY <1>2, <1>3, <3>1, <4>1 DEF Ahead
    <3>2. CASE input'.queue[i] = frame
      BY <1>3, <3>2
    <3>3. QED
      BY <1>5, <2>2, <3>1, <3>2
  <2>3. QED
    BY <1>4, <2>1, <2>2 DEF InputOrdered
<1>9. Emitted(output.queue)' = Emitted(output.queue)
  BY <1>4 DEF Emitted
<1>10. EmittedBehind'
  <2>1. \A e \in Emitted(output.queue) : Ahead(e, frame)
    BY <1>2, <1>3 DEF OrderInv, EmittedBehind, Ahead
  <2>2. \A e \in Emitted(output.queue) :
           /\ e.media_pts <= frame.media_pts /\ e.sequence <= frame.sequence
           /\ \A i \in 1 .. Len(input'.queue) : Ahead(e, input'.queue[i])
    <3>1. \A e \in Emitted(output.queue) : \A i \in 1 .. Len(input.queue) : Ahead(e, input.queue[i])
      BY DEF OrderInv, EmittedBehind
    <3>2. \A e \in Emitted(output.queue) :
            \A i \in 1 .. Len(input'.queue) : Ahead(e, input'.queue[i])
      BY <1>5, <2>1, <3>1
    <3>3. QED
      BY <1>2, <1>3, <2>1, <3>2 DEF Ahead
  <2>3. QED
    BY <1>4, <1>9, <2>2 DEF EmittedBehind
<1>11. PreviousBehind'
  <2> SUFFICES ASSUME previous # NoFrame
               PROVE  PreviousBehind'
    BY <1>4 DEF PreviousBehind
  <2>1. Ahead(previous, frame)
    BY <1>2, <1>3 DEF OrderInv, PreviousBehind, Ahead
  <2>2. \A i \in 1 .. Len(input'.queue) : Ahead(previous, input'.queue[i])
    BY <1>5, <2>1 DEF OrderInv, PreviousBehind
  <2>3. ASSUME NEW e \in Emitted(output.queue)
        PROVE  /\ Provider = "onnx" => e.sequence <= previous.sequence
               /\ e.media_pts <= Halfway(previous.media_pts, frame.media_pts)
               /\ \A i \in 1 .. Len(input'.queue) :
                     e.media_pts <= Halfway(previous.media_pts, input'.queue[i].media_pts)
    <3>1. Halfway(previous.media_pts, offered.media_pts)
             <= Halfway(previous.media_pts, frame.media_pts)
      BY <1>2, <1>3, HalfwayMonotone DEF Ahead
    <3>2. /\ Halfway(previous.media_pts, offered.media_pts) \in Nat
          /\ Halfway(previous.media_pts, frame.media_pts) \in Nat
      BY <1>2, <1>3, HalfwayType
    <3>3. e.media_pts <= Halfway(previous.media_pts, frame.media_pts)
      BY <1>2, <3>1, <3>2 DEF OrderInv, PreviousBehind
    <3>4. QED
      BY <1>5, <3>3 DEF OrderInv, PreviousBehind
  <2>4. ~previous.interpolated
        /\ previous.media_pts <= frame.media_pts /\ previous.sequence <= frame.sequence
    BY <1>2, <1>3, <2>1 DEF PreviousBehind, OrderInv, Ahead
  <2>5. QED
    BY <1>4, <1>9, <2>2, <2>3, <2>4 DEF PreviousBehind
<1>12. QED
  BY <1>4, <1>8, <1>10, <1>11 DEF OrderInv, DeliveredInOrder

\* Every call keeps the order of the frames.
LEMMA OrderStep == TypeOK /\ OrderInv /\ [Next]_vars => OrderInv'
<1> SUFFICES ASSUME TypeOK, OrderInv, [Next]_vars
             PROVE  OrderInv'
  OBVIOUS
<1>0. input \in QueueType /\ output \in QueueType /\ output.queue \in Seq(Frame)
  BY DEF TypeOK, QueueType
<1>1. ASSUME input'.queue = input.queue, output'.queue = output.queue,
             previous' = previous \/ previous' = NoFrame,
             UNCHANGED <<offered, shown>>
      PROVE  OrderInv'
  <2>1. Emitted(output.queue)' = Emitted(output.queue)
    BY <1>1 DEF Emitted
  <2>2. InputOrdered' /\ EmittedBehind' /\ DeliveredInOrder'
    BY <1>1, <2>1 DEF OrderInv, InputOrdered, EmittedBehind, DeliveredInOrder
  <2>3. PreviousBehind'
    BY <1>1, <2>1 DEF OrderInv, PreviousBehind
  <2>4. QED
    BY <2>2, <2>3 DEF OrderInv
<1>2. CASE Start \/ UNCHANGED vars
  BY <1>1, <1>2 DEF Start, vars
<1>3. CASE Stop
  <2>1. input'.queue = input.queue /\ output'.queue = output.queue
    BY <1>0, <1>3 DEF Stop, Close, QueueType
  <2>2. QED
    BY <1>1, <1>3, <2>1 DEF Stop
<1>4. CASE Receive
  <2>1. /\ shown' = output.queue[1]
        /\ Len(output.queue) \in Nat \ {0}
        /\ Len(output'.queue) = Len(output.queue) - 1
        /\ \A i \in 1 .. Len(output'.queue) :
              i + 1 \in 1 .. Len(output.queue) /\ output'.queue[i] = output.queue[i + 1]
        /\ UNCHANGED <<input, previous, offered>>
    BY <1>0, <1>4, PopType DEF Receive
  <2>2. output'.queue \in Seq(Frame)
    BY <1>0, <1>4, PopType DEF Receive, QueueType
  <2>3. \A e \in Emitted(output.queue)' : e \in Emitted(output.queue)
    BY <1>0, <2>1, <2>2 DEF Emitted
  <2>4. DeliveredInOrder'
    <3>1. \A i \in 1 .. Len(output'.queue) : Precedes(shown', output'.queue[i])
      BY <2>1 DEF OrderInv, DeliveredInOrder
    <3>2. \A i, j \in 1 .. Len(output'.queue) :
             i < j => Precedes(output'.queue[i], output'.queue[j])
      BY <2>1 DEF OrderInv, DeliveredInOrder
    <3>3. QED
      BY <3>1, <3>2 DEF DeliveredInOrder
  <2>5. InputOrdered'
    BY <2>1 DEF OrderInv, InputOrdered
  <2>6. EmittedBehind'
    BY <2>1, <2>3 DEF OrderInv, EmittedBehind
  <2>7. PreviousBehind'
    BY <2>1, <2>3 DEF OrderInv, PreviousBehind
  <2>8. QED
    BY <2>4, <2>5, <2>6, <2>7 DEF OrderInv
<1>5. QED
  BY <1>2, <1>3, <1>4, OrderSubmit, OrderProcessOne DEF Next

\* Whatever is dropped, refused or failed in between, what receive() returns is
\* in media order and shows no source frame twice.
THEOREM PipelineDeliveredInOrder == Spec => []DeliveredInOrder
<1>1. OrderInv => DeliveredInOrder
  BY DEF OrderInv
<1>2. QED
  BY TypeInit, TypeStep, OrderInit, OrderStep, <1>1, PTL DEF Spec

-----------------------------------------------------------------------------
(***************************************************************************)
(* The state the owner reads.                                              *)
(***************************************************************************)

\* The frame a pipeline last published and its owner may still have to receive.
LastPublished == IF output.queue = <<>> THEN shown ELSE output.queue[Len(output.queue)]

\* The frame appended to a queue is its last one.
LEMMA PushLast ==
  ASSUME NEW capacity \in Nat, NEW q \in QueueType, NEW frame \in Frame, Accepts(q, capacity)
  PROVE  LET pushed == TryPush(q, capacity, frame).queue IN
         pushed # <<>> /\ pushed[Len(pushed)] = frame
<1>1. TryPush(q, capacity, frame).queue = Append(q.queue, frame) /\ q.queue \in Seq(Frame)
  BY PushType DEF QueueType
<1>2. QED
  BY <1>1

\* Receiving a frame leaves the last frame published what it was.
LEMMA ReceiveLast ==
  ASSUME TypeOK, Receive
  PROVE  LastPublished' = LastPublished
<1>1. /\ output \in QueueType /\ output.queue # <<>>
      /\ shown' = Popped(output) /\ output' = AfterPop(output)
  BY DEF TypeOK, QueueType, Receive
<1>2. /\ shown' = output.queue[1]
      /\ output'.queue \in Seq(Frame)
      /\ Len(output.queue) \in Nat \ {0}
      /\ Len(output'.queue) = Len(output.queue) - 1
      /\ \A i \in 1 .. Len(output'.queue) : output'.queue[i] = output.queue[i + 1]
  BY <1>1, PopType DEF QueueType
<1>3. CASE Len(output.queue) = 1
  <2>1. output'.queue = <<>>
    BY <1>2, <1>3
  <2>2. QED
    BY <1>1, <1>2, <1>3, <2>1 DEF LastPublished
<1>4. CASE Len(output.queue) > 1
  <2>1. /\ output'.queue # <<>>
        /\ Len(output'.queue) \in 1 .. Len(output'.queue)
        /\ Len(output'.queue) + 1 = Len(output.queue)
    BY <1>2, <1>4
  <2>2. output'.queue[Len(output'.queue)] = output.queue[Len(output.queue)]
    BY <1>2, <2>1
  <2>3. QED
    BY <1>1, <2>1, <2>2 DEF LastPublished
<1>5. Len(output.queue) = 1 \/ Len(output.queue) > 1
  <2>1. \A n \in Nat \ {0} : n = 1 \/ n > 1
    OBVIOUS
  <2>2. QED
    BY <1>2, <2>1
<1>6. QED
  BY <1>3, <1>4, <1>5

\* What process_one() leaves in the state: the drop or the failure behind it is
\* counted in the same call, and a running pipeline has just published.
LEMMA ExplainedProcessOne ==
  ASSUME TypeOK, ProcessOne
  PROVE  StateExplained'
<1> DEFINE current == Popped(input)
           between == Interpolated(previous, current)
<1>1. /\ output \in QueueType /\ stats \in StatsType /\ current \in Frame
      /\ stats.dropped_input \in Nat /\ stats.dropped_output \in Nat
      /\ stats.backend_errors \in Nat
  <2>1. input \in QueueType /\ output \in QueueType /\ stats \in StatsType /\ input.queue # <<>>
    BY DEF TypeOK, QueueType, StatsType, ProcessOne
  <2>2. QED
    BY <2>1, PopType DEF StatsType
<1> HIDE DEF current
<1>2. CASE NothingPublished
  BY <1>1, <1>2 DEF NothingPublished, Counted, StateExplained
<1>3. CASE CurrentPublished
  <2>1. /\ state' = "running" /\ previous' = current
        /\ Accepts(output, OutputCapacity)
        /\ output' = TryPush(output, OutputCapacity, current)
    BY <1>3 DEF CurrentPublished, Pushed, current
  <2>2. output'.queue # <<>> /\ output'.queue[Len(output'.queue)] = current
    BY <1>1, <2>1, PushLast, PipelineAssumption
  <2>3. QED
    BY <2>1, <2>2 DEF StateExplained
<1>4. CASE BetweenPublished
  <2> DEFINE pushed == Pushed(between)
  <2>1. /\ Accepts(output, OutputCapacity)
        /\ \/ Counted(1, 1, 0) /\ state' = "degraded"
           \/ /\ Accepts(pushed, OutputCapacity)
              /\ output' = TryPush(pushed, OutputCapacity, current)
              /\ previous' = current /\ state' = "running"
    BY <1>4 DEF BetweenPublished, current
  <2>2. between \in Frame
    <3>1. previous \in Frame
      BY <1>4 DEF BetweenPublished, Interpolates, TypeOK
    <3>2. QED
      BY <1>1, <3>1, InterpolatedType, PipelineAssumption
  <2>3. pushed \in QueueType
    BY <1>1, <2>1, <2>2, PushType, PipelineAssumption DEF Pushed
  <2> HIDE DEF pushed
  <2>4. CASE Counted(1, 1, 0) /\ state' = "degraded"
    BY <1>1, <2>4 DEF Counted, StateExplained
  <2>5. CASE /\ Accepts(pushed, OutputCapacity)
             /\ output' = TryPush(pushed, OutputCapacity, current)
             /\ previous' = current /\ state' = "running"
    <3>1. output'.queue # <<>> /\ output'.queue[Len(output'.queue)] = current
      BY <1>1, <2>3, <2>5, PushLast, PipelineAssumption
    <3>2. QED
      BY <2>5, <3>1 DEF StateExplained
  <2>6. QED
    BY <2>1, <2>4, <2>5
<1>5. QED
  BY <1>2, <1>3, <1>4, ProcessOneOutcome

\* Every call that changes the state also leaves what explains it.
LEMMA ExplainedStep == TypeOK /\ StateExplained /\ [Next]_vars => StateExplained'
<1> SUFFICES ASSUME TypeOK, StateExplained, [Next]_vars
             PROVE  StateExplained'
  OBVIOUS
<1>0. output \in QueueType /\ stats \in StatsType
  BY DEF TypeOK, QueueType, StatsType
<1>1. CASE Start
  BY <1>1 DEF Start, StateExplained
<1>2. CASE Stop
  BY <1>2 DEF Stop, StateExplained
<1>3. ASSUME NEW frame \in NextFrames, Submit(frame)
      PROVE  StateExplained'
  <2>1. UNCHANGED <<output, previous, upscaler, interpolator, shown>>
    BY <1>3 DEF Submit
  <2>2. CASE UNCHANGED <<state, stats>>
    BY <2>1, <2>2 DEF StateExplained
  <2>3. CASE stats' = [stats EXCEPT !.submitted = @ + 1] /\ UNCHANGED state
    <3>1. /\ stats'.dropped_input = stats.dropped_input
          /\ stats'.dropped_output = stats.dropped_output
          /\ stats'.backend_errors = stats.backend_errors
      BY <1>0, <2>3 DEF StatsType
    <3>2. QED
      BY <2>1, <2>3, <3>1 DEF StateExplained
  <2>4. CASE stats' = [stats EXCEPT !.dropped_input = @ + 1] /\ state' = "degraded"
    <3>1. /\ stats'.dropped_input = stats.dropped_input + 1
          /\ stats'.dropped_output = stats.dropped_output
          /\ stats.dropped_input \in Nat /\ stats.dropped_output \in Nat
      BY <1>0, <2>4 DEF StatsType
    <3>2. QED
      BY <2>4, <3>1 DEF StateExplained
  <2>5. QED
    BY <1>3, <2>2, <2>3, <2>4 DEF Submit
<1>4. CASE Receive
  <2>1. LastPublished' = LastPublished /\ UNCHANGED <<state, previous, stats, upscaler, interpolator>>
    BY <1>4, ReceiveLast DEF Receive
  <2>2. QED
    BY <2>1 DEF StateExplained, LastPublished
<1>5. CASE UNCHANGED vars
  BY <1>5 DEF vars, StateExplained
<1>6. QED
  BY <1>1, <1>2, <1>3, <1>4, <1>5, ExplainedProcessOne DEF Next

\* The state the owner reads is always backed by what happened: a degraded
\* pipeline dropped a frame, a running one keeps the frame it published last,
\* and one in error lost a backend call or lacks a backend.
THEOREM PipelineStateExplained == Spec => []StateExplained
<1>1. Init => StateExplained
  BY DEF Init, StateExplained
<1>2. QED
  BY TypeInit, TypeStep, ExplainedStep, <1>1, PTL DEF Spec

-----------------------------------------------------------------------------
(***************************************************************************)
(* The pipeline implements a frame stream.  What is published in one call  *)
(* carries timestamps between those published before and the last one the  *)
(* source offered, so OrderInv is what makes the map a simulation.         *)
(***************************************************************************)

\* The timestamps of a queue of frames, in the order they leave it.
Timestamps(queue) == [i \in DOMAIN queue |-> queue[i].media_pts]

\* The timestamps of a list of frames, as a list of the same length.
LEMMA TimestampsType ==
  ASSUME NEW queue \in Seq(Frame)
  PROVE  /\ Timestamps(queue) \in Seq(Nat)
         /\ Len(Timestamps(queue)) = Len(queue)
         /\ DOMAIN queue = 1 .. Len(queue)
         /\ \A i \in 1 .. Len(queue) : /\ Timestamps(queue)[i] = queue[i].media_pts
                                       /\ queue[i].media_pts \in Nat
<1>1. /\ DOMAIN queue = 1 .. Len(queue) /\ Len(queue) \in Nat
      /\ \A i \in 1 .. Len(queue) : queue[i] \in Frame
  OBVIOUS
<1>2. \A f \in Frame : f.media_pts \in Nat
  BY DEF Frame
<1>3. /\ \A i \in 1 .. Len(queue) : /\ Timestamps(queue)[i] = queue[i].media_pts
                                    /\ queue[i].media_pts \in Nat
      /\ DOMAIN Timestamps(queue) = 1 .. Len(queue)
      /\ Timestamps(queue) \in [1 .. Len(queue) -> Nat]
  BY <1>1, <1>2 DEF Timestamps
<1>4. QED
  BY <1>1, <1>3

\* A frame more is a timestamp more.
LEMMA TimestampsAppend ==
  ASSUME NEW queue \in Seq(Frame), NEW frame \in Frame
  PROVE  Timestamps(Append(queue, frame)) = Timestamps(queue) \o <<frame.media_pts>>
<1> DEFINE appended == Append(queue, frame)
           times == Timestamps(queue)
           longer == Append(times, frame.media_pts)
<1>1. /\ appended \in Seq(Frame) /\ Len(appended) = Len(queue) + 1
      /\ \A i \in 1 .. Len(queue) : appended[i] = queue[i]
      /\ appended[Len(queue) + 1] = frame
      /\ Len(queue) \in Nat
  BY AppendProperties, LenProperties
<1>2. /\ times \in Seq(Nat) /\ Len(times) = Len(queue)
      /\ \A i \in 1 .. Len(queue) : times[i] = queue[i].media_pts
  BY TimestampsType
<1>3. /\ Timestamps(appended) \in Seq(Nat) /\ Len(Timestamps(appended)) = Len(queue) + 1
      /\ \A i \in 1 .. Len(queue) + 1 : Timestamps(appended)[i] = appended[i].media_pts
  BY <1>1, TimestampsType
<1>4. frame.media_pts \in Nat
  BY DEF Frame
<1> HIDE DEF times, appended
<1>5. /\ longer \in Seq(Nat) /\ Len(longer) = Len(queue) + 1
      /\ \A i \in 1 .. Len(queue) : longer[i] = times[i]
      /\ longer[Len(queue) + 1] = frame.media_pts
  BY <1>1, <1>2, <1>4, AppendProperties
<1> HIDE DEF longer
<1>6. ASSUME NEW i \in 1 .. Len(queue) + 1
      PROVE  longer[i] = Timestamps(appended)[i]
  <2>1. i \in 1 .. Len(queue) \/ i = Len(queue) + 1
    BY <1>1
  <2>2. QED
    BY <1>1, <1>2, <1>3, <1>5, <2>1
<1>7. longer = Timestamps(appended)
  BY <1>3, <1>5, <1>6, SeqEqual
<1>8. longer = times \o <<frame.media_pts>>
  BY <1>2, <1>4, AppendIsConcat DEF longer
<1>9. QED
  BY <1>7, <1>8 DEF times, appended

\* A frame less is a timestamp less.
LEMMA TimestampsTail ==
  ASSUME NEW queue \in Seq(Frame), queue # <<>>
  PROVE  /\ Timestamps(queue) # <<>>
         /\ Head(Timestamps(queue)) = Head(queue).media_pts
         /\ Timestamps(Tail(queue)) = Tail(Timestamps(queue))
<1> DEFINE times == Timestamps(queue)
           rest == Tail(queue)
<1>1. /\ Len(queue) \in Nat \ {0} /\ Head(queue) = queue[1]
      /\ rest \in Seq(Frame) /\ Len(rest) = Len(queue) - 1
      /\ \A i \in 1 .. Len(rest) : rest[i] = queue[i + 1]
  BY HeadTailProperties, EmptySeq
<1>2. /\ times \in Seq(Nat) /\ Len(times) = Len(queue)
      /\ \A i \in 1 .. Len(queue) : times[i] = queue[i].media_pts
  BY TimestampsType
<1>3. /\ Timestamps(rest) \in Seq(Nat) /\ Len(Timestamps(rest)) = Len(rest)
      /\ \A i \in 1 .. Len(rest) : Timestamps(rest)[i] = rest[i].media_pts
  BY <1>1, TimestampsType
<1> HIDE DEF times, rest
<1>4. times # <<>>
  BY <1>1, <1>2, EmptySeq
<1>5. /\ Tail(times) \in Seq(Nat) /\ Len(Tail(times)) = Len(queue) - 1
      /\ \A i \in 1 .. Len(Tail(times)) : Tail(times)[i] = times[i + 1]
      /\ Head(times) = times[1]
  BY <1>2, <1>4, HeadTailProperties
<1>6. ASSUME NEW i \in 1 .. Len(Tail(times))
      PROVE  Tail(times)[i] = Timestamps(rest)[i]
  <2>1. i \in 1 .. Len(rest) /\ i + 1 \in 1 .. Len(queue)
    BY <1>1, <1>5
  <2>2. QED
    BY <1>1, <1>2, <1>3, <1>5, <2>1
<1>7. Tail(times) = Timestamps(rest)
  BY <1>1, <1>3, <1>5, <1>6, SeqEqual
<1>8. Head(times) = Head(queue).media_pts
  BY <1>1, <1>2, <1>5
<1>9. QED
  BY <1>4, <1>7, <1>8 DEF times, rest

\* Two lists, one behind the other, element by element.
LEMMA PairConcat ==
  ASSUME NEW a \in Nat, NEW b \in Nat
  PROVE  <<a>> \o <<b>> = <<a, b>>
<1> DEFINE one == Append(<<a>>, b)
           two == <<a, b>>
<1>1. /\ <<a>> \in Seq(Nat) /\ Len(<<a>>) = 1 /\ <<a>>[1] = a
      /\ two \in Seq(Nat) /\ Len(two) = 2 /\ two[1] = a /\ two[2] = b
  OBVIOUS
<1>2. one \in Seq(Nat) /\ Len(one) = 2 /\ one[1] = a /\ one[2] = b
  BY <1>1, AppendProperties
<1>3. one = <<a>> \o <<b>>
  BY <1>1, AppendIsConcat
<1> HIDE DEF one, two
<1>4. \A i \in 1 .. Len(one) : one[i] = two[i]
  BY <1>1, <1>2
<1>5. one = two
  BY <1>1, <1>2, <1>4, SeqEqual
<1>6. QED
  BY <1>3, <1>5 DEF two

\* Frames that leave in order carry timestamps that never go back.
LEMMA TimestampsOrdered ==
  ASSUME NEW queue \in Seq(Frame), OrderedQueue(queue), shown \in Frame \cup {NoFrame}
  PROVE  Stream!Ordered(<<shown.media_pts>> \o Timestamps(queue))
<1> DEFINE times == Timestamps(queue)
           all == <<shown.media_pts>> \o times
<1>1. /\ times \in Seq(Nat) /\ Len(times) = Len(queue) /\ Len(queue) \in Nat
      /\ \A i \in 1 .. Len(queue) :
            times[i] = queue[i].media_pts /\ queue[i].media_pts \in Nat
  BY TimestampsType, LenProperties
<1>2. shown.media_pts \in Nat
  BY DEF Frame, NoFrame
<1> HIDE DEF times
<1>3. /\ <<shown.media_pts>> \in Seq(Nat) /\ Len(<<shown.media_pts>>) = 1
      /\ <<shown.media_pts>>[1] = shown.media_pts
  BY <1>2
<1>4. /\ all \in Seq(Nat) /\ Len(all) = Len(queue) + 1
      /\ \A i \in 1 .. Len(queue) + 1 :
            all[i] = IF i <= 1 THEN <<shown.media_pts>>[i] ELSE times[i - 1]
  <2>1. 1 + Len(times) = Len(queue) + 1
    BY <1>1
  <2>2. QED
    BY <1>1, <1>3, <2>1, ConcatProperties
<1> HIDE DEF all
<1>5. DOMAIN all = 1 .. Len(queue) + 1
  BY <1>4, LenProperties
<1>6. ASSUME NEW i \in 1 .. Len(queue) + 1, NEW j \in 1 .. Len(queue) + 1, i <= j
      PROVE  all[i] <= all[j]
  <2>1. CASE i = j
    <3>1. all[i] \in Nat
      BY <1>4, <1>5, ElementOfSeq
    <3>2. QED
      BY <2>1, <3>1
  <2>2. CASE i = 1 /\ i < j
    <3>1. j - 1 \in 1 .. Len(queue) /\ ~(j <= 1)
      BY <1>1, <2>2
    <3>2. all[j] = queue[j - 1].media_pts
      <4>1. all[j] = times[j - 1]
        BY <1>4, <3>1, Zenon
      <4>2. times[j - 1] = queue[j - 1].media_pts
        BY <1>1, <3>1, Zenon
      <4>3. QED
        BY <4>1, <4>2
    <3>3. all[i] = shown.media_pts
      <4>1. i <= 1
        BY <2>2
      <4>2. all[i] = <<shown.media_pts>>[i]
        BY <1>4, <4>1, Zenon
      <4>3. QED
        BY <1>3, <2>2, <4>2, Zenon
    <3>4. shown.media_pts <= queue[j - 1].media_pts
      BY <3>1 DEF OrderedQueue, Precedes
    <3>5. QED
      BY <3>2, <3>3, <3>4
  <2>3. CASE i > 1 /\ i < j
    <3>1. /\ j - 1 \in 1 .. Len(queue) /\ ~(j <= 1)
          /\ i - 1 \in 1 .. Len(queue) /\ ~(i <= 1)
          /\ i - 1 < j - 1
      BY <1>1, <2>3
    <3>2. all[j] = queue[j - 1].media_pts /\ all[i] = queue[i - 1].media_pts
      BY <1>1, <1>4, <3>1
    <3>3. QED
      BY <3>1, <3>2 DEF OrderedQueue, Precedes
  <2>4. QED
    BY <1>1, <1>6, <2>1, <2>2, <2>3
<1>7. QED
  BY <1>5, <1>6 DEF Stream!Ordered, all, times

\* A call yields no frame, one or two.
LEMMA YieldType ==
  ASSUME NEW S
  PROVE  /\ <<>> \in Stream!BoundedSeq(S, 2)
         /\ \A a \in S : <<a>> \in Stream!BoundedSeq(S, 2)
         /\ \A a, b \in S : <<a, b>> \in Stream!BoundedSeq(S, 2)
<1>1. /\ <<>> \in [1 .. 0 -> S]
      /\ \A a \in S : <<a>> \in [1 .. 1 -> S]
      /\ \A a, b \in S : <<a, b>> \in [1 .. 2 -> S]
  OBVIOUS
<1>2. Stream!BoundedSeq(S, 2) = UNION {[1 .. m -> S] : m \in 0 .. 2}
  BY DEF Stream!BoundedSeq, Stream!SeqOf
<1>3. 0 \in 0 .. 2 /\ 1 \in 0 .. 2 /\ 2 \in 0 .. 2
  OBVIOUS
<1>4. QED
  BY <1>1, <1>2, <1>3

\* The clock of the source bounds every timestamp in the pipeline.
ClockInv == offered.media_pts <= MaxPts

\* The media clock of the source stays within its bound.
LEMMA ClockStep == TypeOK /\ ClockInv /\ [Next]_vars => ClockInv'
<1> SUFFICES ASSUME TypeOK, ClockInv, [Next]_vars
             PROVE  ClockInv'
  OBVIOUS
<1>1. CASE UNCHANGED offered
  BY <1>1 DEF ClockInv
<1>2. ASSUME NEW frame \in NextFrames, Submit(frame)
      PROVE  ClockInv'
  <2>1. frame \in [sequence : {offered.sequence + 1}, media_pts : offered.media_pts .. MaxPts,
                   shape : Shapes, interpolated : {FALSE}]
    BY DEF NextFrames
  <2>2. frame.media_pts \in offered.media_pts .. MaxPts
    BY <2>1
  <2>3. offered.media_pts \in Nat /\ offered' = frame
    BY <1>2, EmittedType DEF Submit
  <2>4. QED
    BY <2>2, <2>3, PipelineAssumption DEF ClockInv
<1>3. QED
  BY <1>1, <1>2 DEF Next, Start, Stop, ProcessOne, Receive, vars

StreamInv == TypeOK /\ CountInv /\ BothClosed /\ OrderInv /\ ClockInv

\* The invariant the refinement needs holds of a new pipeline.
LEMMA StreamInit == Init => StreamInv
<1>1. Init => BothClosed /\ ClockInv
  BY PipelineAssumption DEF Init, BothClosed, ClockInv, EmptyQueue, NoFrame
<1>2. QED
  BY TypeInit, CountInit, OrderInit, <1>1 DEF StreamInv

\* Every call keeps the invariant the refinement needs.
LEMMA StreamStep == StreamInv /\ [Next]_vars => StreamInv'
  BY TypeStep, CountStep, ClosedStep, OrderStep, ClockStep DEF StreamInv

\* process_one() neither opens nor closes the output.
LEMMA ProcessOneOpen ==
  ASSUME TypeOK, ProcessOne
  PROVE  output'.closed = output.closed
<1> DEFINE between == Interpolated(previous, Popped(input))
<1>1. output \in QueueType /\ Popped(input) \in Frame
  <2>1. input \in QueueType /\ output \in QueueType /\ input.queue # <<>>
    BY DEF TypeOK, QueueType, ProcessOne
  <2>2. QED
    BY <2>1, PopType
<1>2. ASSUME NEW q \in QueueType, NEW frame \in Frame, Accepts(q, OutputCapacity)
      PROVE  /\ TryPush(q, OutputCapacity, frame) \in QueueType
             /\ TryPush(q, OutputCapacity, frame).closed = q.closed
  BY <1>2, PushType, PipelineAssumption
<1>3. CASE NothingPublished
  BY <1>3 DEF NothingPublished
<1>4. CASE CurrentPublished
  BY <1>1, <1>2, <1>4 DEF CurrentPublished, Pushed
<1>5. CASE BetweenPublished
  <2>1. between \in Frame
    BY <1>1, <1>5, InterpolatedType, PipelineAssumption DEF BetweenPublished, Interpolates, TypeOK
  <2> HIDE DEF between
  <2>2. Accepts(output, OutputCapacity)
    BY <1>5 DEF BetweenPublished
  <2>3. Pushed(between) \in QueueType /\ Pushed(between).closed = output.closed
    BY <1>1, <1>2, <2>1, <2>2 DEF Pushed
  <2>4. \/ output' = Pushed(between)
        \/ /\ Accepts(Pushed(between), OutputCapacity)
           /\ output' = TryPush(Pushed(between), OutputCapacity, Popped(input))
    BY <1>5 DEF BetweenPublished, between
  <2>5. QED
    BY <1>1, <1>2, <2>3, <2>4
<1>6. QED
  BY <1>3, <1>4, <1>5, ProcessOneOutcome

\* What one call of process_one() appends to the output, as timestamps.
LEMMA ProcessOneYield ==
  ASSUME StreamInv, ProcessOne
  PROVE  \E yield \in Stream!BoundedSeq(0 .. MaxPts, 2) :
            /\ Timestamps(output'.queue) = Timestamps(output.queue) \o yield
            /\ output.closed => yield = <<>>
<1> DEFINE current == Popped(input)
           between == Interpolated(previous, current)
<1>1. /\ input \in QueueType /\ output \in QueueType /\ input.queue # <<>>
      /\ output.queue \in Seq(Frame)
      /\ previous \in Frame \cup {NoFrame}
  BY DEF StreamInv, TypeOK, QueueType, ProcessOne
<1>2. /\ current \in Frame
      /\ Len(input.queue) \in Nat \ {0} /\ current = input.queue[1]
  BY <1>1, PopType
<1>3. current.media_pts \in 0 .. MaxPts
  <2>1. 1 \in 1 .. Len(input.queue)
    BY <1>2
  <2>2. current.media_pts <= offered.media_pts /\ offered.media_pts <= MaxPts
    BY <1>2, <2>1 DEF StreamInv, OrderInv, InputOrdered, ClockInv
  <2>3. offered.media_pts \in Nat /\ current.media_pts \in Nat
    BY <1>2, EmittedType DEF StreamInv, Frame
  <2>4. QED
    BY <2>2, <2>3, PipelineAssumption
<1>4. CASE NothingPublished
  <2>1. Timestamps(output'.queue) = Timestamps(output.queue) \o <<>>
    BY <1>1, <1>4, TimestampsType, ConcatEmptySeq DEF NothingPublished
  <2>2. QED
    BY <2>1, YieldType
<1> HIDE DEF current
<1>5. CASE CurrentPublished
  <2>1. /\ Accepts(output, OutputCapacity)
        /\ output' = TryPush(output, OutputCapacity, current)
    BY <1>5 DEF CurrentPublished, Pushed, current
  <2>2. output'.queue = Append(output.queue, current) /\ ~output.closed
    BY <1>1, <1>2, <2>1, PushType, PipelineAssumption DEF Accepts
  <2>3. Timestamps(output'.queue) = Timestamps(output.queue) \o <<current.media_pts>>
    BY <1>1, <1>2, <2>2, TimestampsAppend
  <2>4. <<current.media_pts>> \in Stream!BoundedSeq(0 .. MaxPts, 2)
    BY <1>3, YieldType
  <2>5. QED
    BY <2>2, <2>3, <2>4
<1>6. CASE BetweenPublished
  <2> DEFINE pushed == Pushed(between)
             times == Timestamps(output.queue)
  <2>1. /\ previous # NoFrame /\ Accepts(output, OutputCapacity)
        /\ \/ output' = pushed
           \/ Accepts(pushed, OutputCapacity) /\ output' = TryPush(pushed, OutputCapacity, current)
    BY <1>6 DEF BetweenPublished, Interpolates, current
  <2>2. between \in Frame /\ previous \in Frame
    BY <1>1, <1>2, <2>1, InterpolatedType, PipelineAssumption
  <2>3. between.media_pts \in 0 .. MaxPts
    <3>1. between.media_pts = Halfway(previous.media_pts, current.media_pts)
      BY DEF Interpolated
    <3>2. previous.media_pts <= current.media_pts
      <4>1. 1 \in 1 .. Len(input.queue)
        BY <1>2
      <4>2. QED
        BY <1>2, <2>1, <4>1 DEF StreamInv, OrderInv, PreviousBehind, Ahead
    <3>3. previous.media_pts \in Nat /\ current.media_pts \in Nat
      BY <1>2, <2>2 DEF Frame
    <3>4. QED
      BY <1>3, <3>1, <3>2, <3>3, HalfwayBetween, PipelineAssumption
  <2> HIDE DEF between
  <2>4. /\ pushed.queue = Append(output.queue, between) /\ pushed \in QueueType
        /\ ~output.closed
    BY <1>1, <2>1, <2>2, PushType, PipelineAssumption DEF Pushed, Accepts
  <2>5. Timestamps(pushed.queue) = times \o <<between.media_pts>>
    BY <1>1, <2>2, <2>4, TimestampsAppend
  <2> HIDE DEF pushed, times
  <2>6. CASE output' = pushed
    <3>1. <<between.media_pts>> \in Stream!BoundedSeq(0 .. MaxPts, 2)
      BY <2>3, YieldType
    <3>2. QED
      BY <2>4, <2>5, <2>6, <3>1 DEF times
  <2>7. CASE Accepts(pushed, OutputCapacity) /\ output' = TryPush(pushed, OutputCapacity, current)
    <3>1. output'.queue = Append(pushed.queue, current) /\ pushed.queue \in Seq(Frame)
      <4>1. /\ pushed \in QueueType /\ current \in Frame /\ OutputCapacity \in Nat
            /\ Accepts(pushed, OutputCapacity)
        BY <1>2, <2>4, <2>7, PipelineAssumption
      <4>2. TryPush(pushed, OutputCapacity, current)
               = [queue |-> Append(pushed.queue, current), closed |-> pushed.closed]
        BY ONLY <4>1, PushType
      <4>3. QED
        BY <2>7, <4>1, <4>2 DEF QueueType
    <3>2. Timestamps(output'.queue) = (times \o <<between.media_pts>>) \o <<current.media_pts>>
      BY <1>2, <2>5, <3>1, TimestampsAppend
    <3>3. /\ times \in Seq(Nat) /\ <<between.media_pts>> \in Seq(Nat)
          /\ <<current.media_pts>> \in Seq(Nat)
      BY <1>1, <1>3, <2>3, TimestampsType DEF times
    <3>4. (times \o <<between.media_pts>>) \o <<current.media_pts>>
             = times \o (<<between.media_pts>> \o <<current.media_pts>>)
      BY <3>3, ConcatAssociative
    <3>5. <<between.media_pts>> \o <<current.media_pts>>
             = <<between.media_pts, current.media_pts>>
      BY <1>3, <2>3, PairConcat
    <3>6. <<between.media_pts, current.media_pts>> \in Stream!BoundedSeq(0 .. MaxPts, 2)
      BY <1>3, <2>3, YieldType
    <3>7. Timestamps(output'.queue) = times \o <<between.media_pts, current.media_pts>>
      BY <3>2, <3>4, <3>5
    <3>8. QED
      BY <2>4, <3>6, <3>7 DEF times
  <2>8. QED
    BY <2>1, <2>6, <2>7
<1>7. QED
  BY <1>4, <1>5, <1>6, ProcessOneOutcome DEF StreamInv

\* Every call is a step of the stream or leaves it as it was.
LEMMA StreamSimulation ==
  ASSUME StreamInv, StreamInv', [Next]_vars
  PROVE  [Stream!Next]_(Stream!streamVars)
<1>1. /\ input \in QueueType /\ output \in QueueType /\ stats \in StatsType
      /\ output.queue \in Seq(Frame) /\ output'.queue \in Seq(Frame)
      /\ Len(output'.queue) <= OutputCapacity
      /\ stats.submitted \in Nat /\ stats.processed_input \in Nat
  BY DEF StreamInv, TypeOK, QueueType, StatsType
<1>2. ASSUME output' = output, shown' = shown, stats'.submitted = stats.submitted,
             stats'.processed_input = stats.processed_input
      PROVE  UNCHANGED Stream!streamVars
  BY <1>2 DEF Stream!streamVars
<1>3. CASE Start \/ UNCHANGED vars
  BY <1>2, <1>3 DEF Start, vars
<1>4. CASE Stop
  <2>1. output'.queue = output.queue /\ output'.closed = TRUE /\ UNCHANGED <<stats, shown>>
    BY <1>1, <1>4 DEF Stop, Close, QueueType
  <2>2. Stream!Shut
    BY <2>1 DEF Stream!Shut
  <2>3. QED
    BY <2>2 DEF Stream!Next
<1>5. ASSUME NEW frame \in NextFrames, Submit(frame)
      PROVE  [Stream!Next]_(Stream!streamVars)
  <2>1. output' = output /\ shown' = shown
    BY <1>5 DEF Submit
  <2>2. CASE UNCHANGED stats
    BY <1>2, <2>1, <2>2
  <2>3. CASE stats' = [stats EXCEPT !.dropped_input = @ + 1]
    BY <1>1, <1>2, <2>1, <2>3 DEF StatsType
  <2>4. CASE stats' = [stats EXCEPT !.submitted = @ + 1] /\ ~SubmitRefused
    <3>1. /\ stats'.submitted = stats.submitted + 1
          /\ stats'.processed_input = stats.processed_input
      BY <1>1, <2>4 DEF StatsType
    <3>2. ~output.closed
      BY <2>4 DEF StreamInv, BothClosed, SubmitRefused
    <3>3. Stream!Admit
      BY <2>1, <3>1, <3>2 DEF Stream!Admit
    <3>4. QED
      BY <3>3 DEF Stream!Next
  <2>5. QED
    BY <1>5, <2>2, <2>3, <2>4 DEF Submit
<1>6. CASE ProcessOne
  <2>1. /\ stats'.submitted = stats.submitted
        /\ stats'.processed_input = stats.processed_input + 1
    BY <1>6, ProcessOneOutcome DEF StreamInv, NothingPublished, CurrentPublished,
                                   BetweenPublished, Counted
  <2>2. stats.processed_input < stats.submitted
    <3>1. Len(input.queue) \in Nat \ {0}
      BY <1>1, <1>6, PopType DEF ProcessOne
    <3>2. stats.submitted = stats.processed_input + Len(input.queue)
      BY DEF StreamInv, CountInv, InputConserved
    <3>3. QED
      BY <1>1, <3>1, <3>2
  <2>3. shown' = shown /\ output'.closed = output.closed
    BY <1>6, ProcessOneOpen DEF ProcessOne, StreamInv
  <2>4. PICK yield \in Stream!BoundedSeq(0 .. MaxPts, 2) :
           /\ Timestamps(output'.queue) = Timestamps(output.queue) \o yield
           /\ output.closed => yield = <<>>
    BY <1>6, ProcessOneYield
  <2>5. Stream!Ordered(<<shown.media_pts>> \o Timestamps(output'.queue))
    <3>1. OrderedQueue(output'.queue) /\ shown \in Frame \cup {NoFrame}
      BY <2>3 DEF StreamInv, OrderInv, DeliveredInOrder, OrderedQueue, TypeOK
    <3>2. QED
      BY <1>1, <3>1, TimestampsOrdered
  <2>6. Len(Timestamps(output'.queue)) <= OutputCapacity
    BY <1>1, TimestampsType
  <2>7. Stream!Consume
    BY <2>1, <2>2, <2>3, <2>4, <2>5, <2>6 DEF Stream!Consume, Timestamps
  <2>8. QED
    BY <2>7 DEF Stream!Next
<1>7. CASE Receive
  <2>1. /\ output.queue # <<>> /\ shown' = Head(output.queue)
        /\ output' = AfterPop(output) /\ UNCHANGED stats
    BY <1>7 DEF Receive, Popped
  <2>2. output'.queue = Tail(output.queue) /\ output'.closed = output.closed
    <3>1. AfterPop(output) = [queue |-> Tail(output.queue), closed |-> output.closed]
      BY <1>1, <2>1, PopType
    <3>2. QED
      BY <2>1, <3>1
  <2>3. /\ Timestamps(output.queue) # <<>>
        /\ shown'.media_pts = Head(Timestamps(output.queue))
        /\ Timestamps(output'.queue) = Tail(Timestamps(output.queue))
    BY <1>1, <2>1, <2>2, TimestampsTail
  <2>4. Stream!Take
    BY <2>1, <2>2, <2>3 DEF Stream!Take, Timestamps
  <2>5. QED
    BY <2>4 DEF Stream!Next
<1>8. QED
  BY <1>3, <1>4, <1>5, <1>6, <1>7 DEF Next

\* A pipeline is a frame stream: whatever is submitted, dropped, refused or
\* failed, its output carries timestamps that never go back, at most two frames
\* for each one taken in, and nothing new once it was stopped.
THEOREM PipelineImplementsStream == Spec => ImplementsStream
<1>1. Init => Stream!Init
  <2> SUFFICES ASSUME Init
               PROVE  Stream!Init
    OBVIOUS
  <2>1. /\ output.queue = <<>> /\ output.closed = FALSE /\ shown.media_pts = 0
        /\ stats.submitted = 0 /\ stats.processed_input = 0
    BY DEF Init, EmptyQueue, ZeroStats, NoFrame
  <2>2. [i \in DOMAIN output.queue |-> output.queue[i].media_pts] = <<>>
    BY <2>1
  <2>3. QED
    BY <2>1, <2>2 DEF Stream!Init
<1>2. StreamInv /\ StreamInv' /\ [Next]_vars => [Stream!Next]_(Stream!streamVars)
  BY StreamSimulation
<1>3. QED
  BY StreamInit, StreamStep, <1>1, <1>2, PTL DEF Spec, ImplementsStream, Stream!Spec

-----------------------------------------------------------------------------
(***************************************************************************)
(* What a program may rely on that calls the pipeline in a loop: it gives  *)
(* it one frame, has it processed and receives all that comes of it.       *)
(***************************************************************************)

\* Nothing but the pictures taken and published changes.
SameCounts ==
    /\ stats'.processed_input = stats.processed_input
    /\ stats'.produced_output = stats.produced_output
    /\ stats'.dropped_output = stats.dropped_output
    /\ stats'.backend_errors = stats.backend_errors

\* A pipeline that is up and has nothing to do takes the frame.
LEMMA SubmitToIdle ==
  ASSUME TypeOK, NEW frame \in Frame, Submit(frame),
         ~SubmitRefused, input.queue = <<>>, InputCapacity > 0
  PROVE  /\ input' = [queue |-> <<frame>>, closed |-> FALSE]
         /\ stats'.submitted = stats.submitted + 1
         /\ stats'.dropped_input = stats.dropped_input
         /\ SameCounts
         /\ offered' = frame
         /\ UNCHANGED <<state, output, previous, upscaler, interpolator, shown>>
<1>1. input \in QueueType /\ stats \in StatsType
  BY DEF TypeOK, QueueType, StatsType
<1>2. Accepts(input, InputCapacity)
  BY DEF Accepts, SubmitRefused
<1>3. input' = TryPush(input, InputCapacity, frame) /\ stats' = [stats EXCEPT !.submitted = @ + 1]
  BY <1>2 DEF Submit
<1>4. input' = [queue |-> Append(input.queue, frame), closed |-> input.closed]
  BY <1>1, <1>2, <1>3, PushType, PipelineAssumption
<1>5. Append(<<>>, frame) = <<frame>>
  OBVIOUS
<1>6. /\ stats'.submitted = stats.submitted + 1
      /\ stats'.dropped_input = stats.dropped_input
      /\ SameCounts
  BY <1>1, <1>3 DEF StatsType, SameCounts
<1>7. input.closed = FALSE
  BY <1>1 DEF SubmitRefused, QueueType
<1>8. QED
  BY <1>2, <1>4, <1>5, <1>6, <1>7 DEF Submit

\* A frame that is refused changes nothing.
LEMMA SubmitToDown ==
  ASSUME NEW frame, Submit(frame), SubmitRefused
  PROVE  /\ UNCHANGED pipelineVars /\ UNCHANGED shown /\ offered' = frame
  BY DEF Submit, pipelineVars

\* What one call publishes: the frame alone or after one that was interpolated.
Publication ==
    IF Interpolates THEN <<Interpolated(previous, Popped(input)), Popped(input)>>
                    ELSE <<Popped(input)>>

\* With room for what one frame may come to, processing it publishes all of it,
\* unless a backend fails.
LEMMA ProcessWithRoom ==
  ASSUME TypeOK, ProcessOne, output.queue = <<>>, ~output.closed,
         OutputCapacity > 0, InterpolationEnabled => OutputCapacity > 1
  PROVE  \/ /\ UNCHANGED <<output, previous>>
            /\ Counted(0, 0, 1) /\ state' = "error" /\ BackendFails
         \/ /\ output' = [queue |-> Publication, closed |-> FALSE]
            /\ previous' = Popped(input)
            /\ Counted(IF Interpolates THEN 2 ELSE 1, 0, 0) /\ state' = "running"
<1> DEFINE current == Popped(input)
           between == Interpolated(previous, current)
<1>1. /\ output \in QueueType /\ output.closed = FALSE
      /\ current \in Frame
  <2>1. input \in QueueType /\ output \in QueueType /\ input.queue # <<>>
    BY DEF TypeOK, QueueType, ProcessOne
  <2>2. QED
    BY <2>1, PopType DEF QueueType
<1>2. Accepts(output, OutputCapacity)
  BY DEF Accepts
<1> HIDE DEF current
<1>3. CASE NothingPublished
  BY <1>2, <1>3 DEF NothingPublished
<1>4. CASE CurrentPublished
  <2>1. Pushed(current) = [queue |-> Append(output.queue, current), closed |-> output.closed]
    BY <1>1, <1>2, PushType, PipelineAssumption DEF Pushed
  <2>2. Append(<<>>, current) = <<current>>
    OBVIOUS
  <2>3. QED
    BY <1>1, <1>4, <2>1, <2>2 DEF CurrentPublished, Publication, current
<1>5. CASE BetweenPublished
  <2>1. previous \in Frame /\ InterpolationEnabled
    BY <1>5 DEF BetweenPublished, Interpolates, TypeOK
  <2>2. between \in Frame
    BY <1>1, <2>1, InterpolatedType, PipelineAssumption
  <2> HIDE DEF between
  <2>3. /\ Pushed(between) = [queue |-> Append(output.queue, between), closed |-> output.closed]
        /\ Pushed(between) \in QueueType
    BY <1>1, <1>2, <2>2, PushType, PipelineAssumption DEF Pushed
  <2>4. Append(<<>>, between) = <<between>> /\ Len(<<between>>) = 1
    OBVIOUS
  <2>5. Append(<<between>>, current) = <<between, current>>
    <3> DEFINE both == <<between, current>>
               appended == Append(<<between>>, current)
    <3>1. both \in Seq(Frame) /\ Len(both) = 2 /\ both[1] = between /\ both[2] = current
      BY <1>1, <2>2
    <3>2. <<between>> \in Seq(Frame) /\ Len(<<between>>) = 1 /\ <<between>>[1] = between
      BY <2>2
    <3>3. /\ appended \in Seq(Frame) /\ Len(appended) = 2
          /\ appended[1] = between /\ appended[2] = current
      BY <1>1, <3>2, AppendProperties
    <3> HIDE DEF both, appended
    <3>4. appended = both
      BY <3>1, <3>3, SeqEqual
    <3>5. QED
      BY <3>4 DEF both, appended
  <2>6. Pushed(between) = [queue |-> <<between>>, closed |-> FALSE]
    BY <1>1, <2>3, <2>4
  <2>7. Accepts(Pushed(between), OutputCapacity)
    BY <2>1, <2>4, <2>6, PipelineAssumption DEF Accepts
  <2>8. TryPush(Pushed(between), OutputCapacity, current) =
           [queue |-> <<between, current>>, closed |-> FALSE]
    <3>1. TryPush(Pushed(between), OutputCapacity, current) =
             [queue |-> Append(Pushed(between).queue, current), closed |-> Pushed(between).closed]
      BY <1>1, <2>3, <2>7, PushType, PipelineAssumption
    <3>2. Pushed(between).queue = <<between>> /\ Pushed(between).closed = FALSE
      BY <2>6
    <3>3. QED
      BY <2>5, <3>1, <3>2
  <2>9. QED
    BY <1>5, <2>7, <2>8 DEF BetweenPublished, Publication, current, between
<1>6. QED
  BY <1>3, <1>4, <1>5, ProcessOneOutcome
=============================================================================
