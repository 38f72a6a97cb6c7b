--------------------- MODULE PassthroughPipelineProofs ---------------------
(***************************************************************************)
(* What holds of every passthrough pipeline, for every capacity of its     *)
(* queues, any number of frames and any timestamps.                        *)
(***************************************************************************)
EXTENDS PassthroughPipeline, SequenceTheorems, TLAPS

QueueType == [queue : Seq(Frame), closed : BOOLEAN]

StatsType == [submitted : Nat, dropped_input : Nat, processed : Nat, dropped_output : Nat]

-----------------------------------------------------------------------------
(***************************************************************************)
(* The queues.                                                             *)
(***************************************************************************)

\* What try_push() leaves when it accepts: one frame more, within the capacity.
LEMMA PushType ==
  ASSUME NEW capacity \in Nat, NEW q \in QueueType, NEW frame \in Frame, Accepts(q, capacity)
  PROVE  LET pushed == TryPush(q, capacity, frame) IN
         /\ pushed = [queue |-> Append(q.queue, frame), closed |-> q.closed]
         /\ pushed \in QueueType
         /\ Len(pushed.queue) = Len(q.queue) + 1
         /\ Len(pushed.queue) <= capacity
<1>1. /\ q.queue \in Seq(Frame)
      /\ Len(q.queue) < capacity
      /\ TryPush(q, capacity, frame) = [queue |-> Append(q.queue, frame), closed |-> q.closed]
  BY DEF QueueType, TryPush, Accepts
<1>2. /\ Append(q.queue, frame) \in Seq(Frame)
      /\ Len(Append(q.queue, frame)) = Len(q.queue) + 1
  BY <1>1
<1>3. QED
  BY <1>1, <1>2 DEF QueueType

\* Every frame of a queue after a push was in it, or is the one pushed.
LEMMA PushElements ==
  ASSUME NEW capacity \in Nat, NEW q \in QueueType, NEW frame \in Frame, Accepts(q, capacity),
         NEW i \in 1 .. Len(TryPush(q, capacity, frame).queue)
  PROVE  LET pushed == TryPush(q, capacity, frame) IN
         \/ i \in 1 .. Len(q.queue) /\ pushed.queue[i] = q.queue[i]
         \/ i = Len(q.queue) + 1 /\ pushed.queue[i] = frame
<1>1. TryPush(q, capacity, frame).queue = Append(q.queue, frame)
  BY PushType
<1>2. q.queue \in Seq(Frame)
  BY DEF QueueType
<1>3. QED
  BY <1>1, <1>2

\* What a queue with a frame gives and keeps when it is popped.
LEMMA PopType ==
  ASSUME NEW q \in QueueType, q.queue # <<>>
  PROVE  /\ Popped(q) = q.queue[1] /\ Popped(q) \in Frame
         /\ AfterPop(q) = [queue |-> Tail(q.queue), closed |-> q.closed]
         /\ AfterPop(q) \in QueueType
         /\ Len(q.queue) \in Nat \ {0}
         /\ Len(AfterPop(q).queue) = Len(q.queue) - 1
         /\ \A i \in 1 .. Len(AfterPop(q).queue) :
               /\ i + 1 \in 1 .. Len(q.queue)
               /\ AfterPop(q).queue[i] = q.queue[i + 1]
<1>1. /\ q.queue \in Seq(Frame)
      /\ AfterPop(q) = [queue |-> Tail(q.queue), closed |-> q.closed]
  BY DEF QueueType, AfterPop
<1>2. /\ Tail(q.queue) \in Seq(Frame) /\ Head(q.queue) \in Frame
      /\ Head(q.queue) = q.queue[1]
      /\ Len(q.queue) \in Nat \ {0}
      /\ Len(Tail(q.queue)) = Len(q.queue) - 1
  BY <1>1
<1>3. \A i \in 1 .. Len(Tail(q.queue)) :
         i + 1 \in 1 .. Len(q.queue) /\ Tail(q.queue)[i] = q.queue[i + 1]
  BY <1>1, <1>2
<1>4. QED
  BY <1>1, <1>2, <1>3 DEF QueueType, Popped

\* close() keeps what is queued.
LEMMA CloseType ==
  ASSUME NEW q \in QueueType
  PROVE  /\ Close(q) \in QueueType
         /\ Close(q).queue = q.queue /\ Close(q).closed = TRUE
  BY DEF Close, QueueType

\* The frames a source offers next carry on from the last one.
LEMMA NextFramesType ==
  ASSUME offered \in Frame \cup {NoFrame}, NEW frame \in NextFrames
  PROVE  /\ frame \in Frame
         /\ offered.media_pts \in Nat
         /\ offered.media_pts <= frame.media_pts /\ frame.media_pts <= MaxPts
<1>1. frame \in [sequence : {offered.sequence + 1}, media_pts : offered.media_pts .. MaxPts]
  BY DEF NextFrames
<1>2. offered.sequence + 1 \in Nat /\ offered.media_pts \in Nat
  BY DEF Frame, NoFrame
<1>3. /\ frame = [sequence |-> frame.sequence, media_pts |-> frame.media_pts]
      /\ frame.sequence = offered.sequence + 1
      /\ frame.media_pts \in offered.media_pts .. MaxPts
  BY <1>1
<1>4. QED
  BY <1>2, <1>3, PassthroughAssumption DEF Frame

-----------------------------------------------------------------------------
(***************************************************************************)
(* Types and accounting.                                                   *)
(***************************************************************************)

\* What one call of submit() can come to.
LEMMA SubmitOutcome ==
  ASSUME TypeOK, NEW frame \in NextFrames, Submit(frame)
  PROVE  /\ UNCHANGED <<output, shown>> /\ offered' = frame
         /\ \/ UNCHANGED <<state, input, stats>>
            \/ /\ ~input.closed
               /\ Accepts(input, InputCapacity) /\ input' = TryPush(input, InputCapacity, frame)
               /\ stats' \in StatsType /\ UNCHANGED state
               /\ stats'.submitted = stats.submitted + 1
               /\ stats'.processed = stats.processed
               /\ stats'.dropped_output = stats.dropped_output
            \/ /\ input' = input /\ stats' \in StatsType /\ state' = "degraded"
               /\ stats'.submitted = stats.submitted
               /\ stats'.processed = stats.processed
               /\ stats'.dropped_output = stats.dropped_output
<1>1. stats \in StatsType
  BY DEF TypeOK, StatsType
<1>2. ASSUME stats' = [stats EXCEPT !.submitted = @ + 1]
      PROVE  /\ stats' \in StatsType
             /\ stats'.submitted = stats.submitted + 1
             /\ stats'.processed = stats.processed
             /\ stats'.dropped_output = stats.dropped_output
  BY <1>1, <1>2 DEF StatsType
<1>3. ASSUME stats' = [stats EXCEPT !.dropped_input = @ + 1]
      PROVE  /\ stats' \in StatsType
             /\ stats'.submitted = stats.submitted
             /\ stats'.processed = stats.processed
             /\ stats'.dropped_output = stats.dropped_output
  BY <1>1, <1>3 DEF StatsType
<1>4. QED
  BY <1>2, <1>3 DEF Submit, SubmitRefused

\* What one call of process_one() can come to: one frame less in the input, one
\* more counted, passed on exactly when the output queue accepts it.
LEMMA ProcessOneOutcome ==
  ASSUME TypeOK, ProcessOne
  PROVE  /\ input.queue # <<>> /\ input' = AfterPop(input)
         /\ UNCHANGED <<offered, shown>>
         /\ stats' \in StatsType /\ state' \in {"running", "degraded"}
         /\ stats'.submitted = stats.submitted
         /\ stats'.processed + stats'.dropped_output
               = stats.processed + stats.dropped_output + 1
         /\ \/ output' = output
            \/ /\ Accepts(output, OutputCapacity)
               /\ output' = TryPush(output, OutputCapacity, Popped(input))
<1>1. stats \in StatsType
  BY DEF TypeOK, StatsType
<1>2. CASE stats' = [stats EXCEPT !.processed = @ + 1]
  <2>1. /\ stats' \in StatsType /\ stats'.submitted = stats.submitted
        /\ stats'.processed = stats.processed + 1
        /\ stats'.dropped_output = stats.dropped_output
        /\ stats.processed \in Nat /\ stats.dropped_output \in Nat
    BY <1>1, <1>2 DEF StatsType
  <2>2. stats'.processed + stats'.dropped_output = stats.processed + stats.dropped_output + 1
    BY <2>1
  <2>3. QED
    BY <2>1, <2>2 DEF ProcessOne, Pass, Drop
<1>3. CASE stats' = [stats EXCEPT !.dropped_output = @ + 1]
  <2>1. /\ stats' \in StatsType /\ stats'.submitted = stats.submitted
        /\ stats'.processed = stats.processed
        /\ stats'.dropped_output = stats.dropped_output + 1
        /\ stats.processed \in Nat /\ stats.dropped_output \in Nat
    BY <1>1, <1>3 DEF StatsType
  <2>2. stats'.processed + stats'.dropped_output = stats.processed + stats.dropped_output + 1
    BY <2>1
  <2>3. QED
    BY <2>1, <2>2 DEF ProcessOne, Pass, Drop
<1>4. QED
  BY <1>2, <1>3 DEF ProcessOne, Pass, Drop

\* The types hold of a new pipeline.
LEMMA TypeInit == Init => TypeOK
<1>1. EmptyQueue \in QueueType /\ Len(EmptyQueue.queue) = 0
  BY DEF EmptyQueue, QueueType
<1>2. QED
  BY <1>1, PassthroughAssumption DEF Init, TypeOK, QueueType

\* Every call keeps the types.
LEMMA TypeStep == TypeOK /\ [Next]_vars => TypeOK'
<1> SUFFICES ASSUME TypeOK, [Next]_vars
             PROVE  TypeOK'
  OBVIOUS
<1>0. /\ input \in QueueType /\ output \in QueueType /\ stats \in StatsType
      /\ Len(input.queue) <= InputCapacity /\ Len(output.queue) <= OutputCapacity
      /\ offered \in Frame \cup {NoFrame}
  BY DEF TypeOK, QueueType, StatsType
<1>1. CASE Start
  BY <1>1 DEF Start, TypeOK
<1>2. CASE Stop
  <2>1. /\ input' \in QueueType /\ output' \in QueueType
        /\ input'.queue = input.queue /\ output'.queue = output.queue
    BY <1>0, <1>2, CloseType DEF Stop
  <2>2. QED
    BY <1>0, <1>2, <2>1 DEF Stop, TypeOK, QueueType
<1>3. ASSUME NEW frame \in NextFrames, Submit(frame)
      PROVE  TypeOK'
  <2>1. frame \in Frame
    BY <1>0, NextFramesType
  <2>2. input' \in QueueType /\ Len(input'.queue) <= InputCapacity
    BY <1>0, <1>3, <2>1, SubmitOutcome, PushType, PassthroughAssumption
  <2>3. stats' \in StatsType /\ state' \in {"disconnected", "buffering", "running", "degraded"}
    BY <1>0, <1>3, SubmitOutcome DEF TypeOK
  <2>4. output' = output /\ shown' = shown /\ offered' = frame
    BY <1>3, SubmitOutcome
  <2>5. QED
    BY <1>0, <2>1, <2>2, <2>3, <2>4 DEF TypeOK, QueueType, StatsType
<1>4. CASE ProcessOne
  <2>1. /\ input' \in QueueType /\ Len(input'.queue) <= InputCapacity
        /\ Popped(input) \in Frame
    <3>1. input.queue # <<>> /\ input' = AfterPop(input)
      BY <1>4, ProcessOneOutcome
    <3>2. QED
      BY <1>0, <3>1, PopType, PassthroughAssumption
  <2>2. output' \in QueueType /\ Len(output'.queue) <= OutputCapacity
    BY <1>0, <1>4, <2>1, ProcessOneOutcome, PushType, PassthroughAssumption
  <2>3. QED
    BY <1>0, <1>4, <2>1, <2>2, ProcessOneOutcome DEF TypeOK, QueueType, StatsType
<1>5. CASE Receive
  <2>1. shown' \in Frame /\ output' \in QueueType /\ Len(output'.queue) <= OutputCapacity
    <3>1. output.queue # <<>> /\ shown' = Popped(output) /\ output' = AfterPop(output)
      BY <1>5 DEF Receive
    <3>2. QED
      BY <1>0, <3>1, PopType, PassthroughAssumption
  <2>2. QED
    BY <1>5, <2>1 DEF Receive, TypeOK, QueueType
<1>6. CASE UNCHANGED vars
  BY <1>6 DEF vars, TypeOK
<1>7. QED
  BY <1>1, <1>2, <1>3, <1>4, <1>5, <1>6 DEF Next

\* Both queues stay within their capacities and everything keeps its type.
THEOREM PassthroughTypeOK == Spec => []TypeOK
  BY TypeInit, TypeStep, PTL DEF Spec

\* No call loses a frame: what leaves one place arrives at another or is counted.
LEMMA AccountStep == TypeOK /\ FramesAccounted /\ [Next]_vars => FramesAccounted'
<1> SUFFICES ASSUME TypeOK, FramesAccounted, [Next]_vars
             PROVE  FramesAccounted'
  OBVIOUS
<1>0. /\ input \in QueueType /\ Len(input.queue) \in Nat
      /\ stats.submitted \in Nat /\ stats.processed \in Nat /\ stats.dropped_output \in Nat
  BY LenProperties DEF TypeOK, QueueType
<1>1. ASSUME UNCHANGED stats, input'.queue = input.queue
      PROVE  FramesAccounted'
  BY <1>1 DEF FramesAccounted
<1>2. CASE Start \/ Receive \/ UNCHANGED vars
  BY <1>1, <1>2 DEF Start, Receive, vars
<1>3. CASE Stop
  BY <1>0, <1>1, <1>3, CloseType DEF Stop
<1>4. ASSUME NEW frame \in NextFrames, Submit(frame)
      PROVE  FramesAccounted'
  <2>1. frame \in Frame
    BY NextFramesType DEF TypeOK
  <2>2. CASE /\ Accepts(input, InputCapacity) /\ input' = TryPush(input, InputCapacity, frame)
             /\ stats'.submitted = stats.submitted + 1
             /\ stats'.processed = stats.processed
             /\ stats'.dropped_output = stats.dropped_output
    <3>1. Len(input'.queue) = Len(input.queue) + 1
      BY <1>0, <2>1, <2>2, PushType, PassthroughAssumption
    <3>2. QED
      BY <1>0, <2>2, <3>1 DEF FramesAccounted
  <2>3. CASE /\ input' = input /\ stats'.submitted = stats.submitted
             /\ stats'.processed = stats.processed
             /\ stats'.dropped_output = stats.dropped_output
    BY <2>3 DEF FramesAccounted
  <2>4. QED
    BY <1>1, <1>4, <2>2, <2>3, SubmitOutcome
<1>5. CASE ProcessOne
  <2>1. Len(input'.queue) = Len(input.queue) - 1
    BY <1>0, <1>5, ProcessOneOutcome, PopType
  <2>2. /\ stats'.submitted = stats.submitted
        /\ stats'.processed + stats'.dropped_output = stats.processed + stats.dropped_output + 1
    BY <1>5, ProcessOneOutcome
  <2>3. stats.submitted = (stats.processed + stats.dropped_output + 1) + (Len(input.queue) - 1)
    BY <1>0 DEF FramesAccounted
  <2>4. QED
    BY <2>1, <2>2, <2>3 DEF FramesAccounted
<1>6. QED
  BY <1>2, <1>3, <1>4, <1>5 DEF Next

\* Every submitted frame is still queued, was passed on, or was counted as
\* dropped, the frames that stop() found in the input queue included.
THEOREM PassthroughFramesAccounted == Spec => []FramesAccounted
<1>1. Init => FramesAccounted
  BY DEF Init, FramesAccounted, EmptyQueue
<1>2. QED
  BY TypeInit, TypeStep, AccountStep, <1>1, PTL DEF Spec

-----------------------------------------------------------------------------
(***************************************************************************)
(* The pipeline implements a frame stream: everything in it is in the      *)
(* order of the source's clock, from the frame received last to the frame  *)
(* offered last.                                                           *)
(***************************************************************************)

Sorted(queue) == \A i, j \in 1 .. Len(queue) : i <= j => queue[i].media_pts <= queue[j].media_pts

Before(queue, time) == \A i \in 1 .. Len(queue) : queue[i].media_pts <= time

OrderInv ==
    /\ offered.media_pts <= MaxPts
    /\ Sorted(input.queue) /\ Before(input.queue, offered.media_pts)
    /\ Sorted(output.queue) /\ Before(output.queue, offered.media_pts)
    /\ \A i \in 1 .. Len(input.queue) : Before(output.queue, input.queue[i].media_pts)
    /\ shown.media_pts <= offered.media_pts
    /\ \A i \in 1 .. Len(input.queue) : shown.media_pts <= input.queue[i].media_pts
    /\ \A i \in 1 .. Len(output.queue) : shown.media_pts <= output.queue[i].media_pts

\* stop() closes both queues, and nothing reopens one.
BothClosed == output.closed => input.closed

StreamInv == TypeOK /\ FramesAccounted /\ BothClosed /\ OrderInv

\* Every timestamp before, in and behind the pipeline is a natural number.
LEMMA TimesType ==
  ASSUME TypeOK
  PROVE  /\ offered.media_pts \in Nat /\ shown.media_pts \in Nat
         /\ Len(input.queue) \in Nat /\ Len(output.queue) \in Nat
         /\ \A i \in 1 .. Len(input.queue) : input.queue[i].media_pts \in Nat
         /\ \A i \in 1 .. Len(output.queue) : output.queue[i].media_pts \in Nat
<1>1. \A f \in Frame \cup {NoFrame} : f.media_pts \in Nat
  BY DEF Frame, NoFrame
<1>2. input.queue \in Seq(Frame) /\ output.queue \in Seq(Frame)
  BY DEF TypeOK
<1>3. /\ \A i \in 1 .. Len(input.queue) : input.queue[i] \in Frame
      /\ \A i \in 1 .. Len(output.queue) : output.queue[i] \in Frame
      /\ Len(input.queue) \in Nat /\ Len(output.queue) \in Nat
  BY <1>2, ElementOfSeq, LenProperties
<1>4. QED
  BY <1>1, <1>3 DEF TypeOK

\* Appending what comes after everything keeps a queue in order, and so does
\* taking its first frame.
LEMMA SortedAppend ==
  ASSUME NEW q \in Seq(Frame), NEW longer, NEW frame \in Frame,
         Sorted(q), Before(q, frame.media_pts),
         \A i \in 1 .. Len(longer) : \/ i \in 1 .. Len(q) /\ longer[i] = q[i]
                                     \/ i = Len(q) + 1 /\ longer[i] = frame
  PROVE  Sorted(longer)
<1> SUFFICES ASSUME NEW i \in 1 .. Len(longer), NEW j \in 1 .. Len(longer), i <= j
             PROVE  longer[i].media_pts <= longer[j].media_pts
  BY DEF Sorted
<1>1. Len(q) \in Nat /\ frame.media_pts \in Nat
  BY LenProperties DEF Frame
<1>2. CASE i \in 1 .. Len(q) /\ longer[i] = q[i]
  <2>1. CASE j \in 1 .. Len(q) /\ longer[j] = q[j]
    BY <1>2, <2>1 DEF Sorted
  <2>2. CASE longer[j] = frame
    BY <1>2, <2>2 DEF Before
  <2>3. QED
    BY <2>1, <2>2
<1>3. CASE i = Len(q) + 1 /\ longer[i] = frame
  <2>1. ~(j \in 1 .. Len(q))
    BY <1>1, <1>3
  <2>2. longer[j] = frame
    BY <2>1
  <2>3. QED
    BY <1>1, <1>3, <2>2
<1>4. QED
  BY <1>2, <1>3

\* What is left of a sorted queue is sorted.
LEMMA SortedTail ==
  ASSUME NEW q \in Seq(Frame), NEW rest \in Seq(Frame), Sorted(q),
         \A i \in 1 .. Len(rest) : i + 1 \in 1 .. Len(q) /\ rest[i] = q[i + 1]
  PROVE  Sorted(rest) /\ \A i \in 1 .. Len(rest) : q[1].media_pts <= rest[i].media_pts
<1>1. Len(q) \in Nat /\ Len(rest) \in Nat
  BY LenProperties
<1>2. ASSUME NEW i \in 1 .. Len(rest), NEW j \in 1 .. Len(rest), i <= j
      PROVE  rest[i].media_pts <= rest[j].media_pts
  <2>1. i + 1 <= j + 1 /\ i + 1 \in 1 .. Len(q) /\ j + 1 \in 1 .. Len(q)
    BY <1>1, <1>2
  <2>2. QED
    BY <2>1 DEF Sorted
<1>3. ASSUME NEW i \in 1 .. Len(rest)
      PROVE  q[1].media_pts <= rest[i].media_pts
  <2>1. 1 <= i + 1 /\ 1 \in 1 .. Len(q) /\ i + 1 \in 1 .. Len(q)
    BY <1>1
  <2>2. QED
    BY <2>1 DEF Sorted
<1>4. QED
  BY <1>2, <1>3 DEF Sorted

\* Every call keeps the order of the frames.
LEMMA OrderStep == TypeOK /\ OrderInv /\ [Next]_vars => OrderInv'
<1> SUFFICES ASSUME TypeOK, OrderInv, [Next]_vars
             PROVE  OrderInv'
  OBVIOUS
<1>0. /\ input \in QueueType /\ output \in QueueType /\ offered \in Frame \cup {NoFrame}
      /\ input.queue \in Seq(Frame) /\ output.queue \in Seq(Frame)
  BY DEF TypeOK, QueueType
<1>1. ASSUME input'.queue = input.queue, output'.queue = output.queue, UNCHANGED <<offered, shown>>
      PROVE  OrderInv'
  BY <1>1 DEF OrderInv, Sorted, Before
<1>2. CASE Start \/ UNCHANGED vars
  BY <1>1, <1>2 DEF Start, vars
<1>3. CASE Stop
  BY <1>0, <1>1, <1>3, CloseType DEF Stop
<1>4. ASSUME NEW frame \in NextFrames, Submit(frame)
      PROVE  OrderInv'
  <2>1. /\ frame \in Frame /\ frame.media_pts \in Nat
        /\ offered.media_pts <= frame.media_pts /\ frame.media_pts <= MaxPts
    BY <1>0, NextFramesType DEF Frame
  <2>2. /\ UNCHANGED <<output, shown>> /\ offered' = frame
        /\ \/ input' = input
           \/ Accepts(input, InputCapacity) /\ input' = TryPush(input, InputCapacity, frame)
    BY <1>4, SubmitOutcome
  <2>3. \A i \in 1 .. Len(input'.queue) :
           \/ i \in 1 .. Len(input.queue) /\ input'.queue[i] = input.queue[i]
           \/ i = Len(input.queue) + 1 /\ input'.queue[i] = frame
    <3>1. CASE input' = input
      BY <3>1
    <3>2. CASE Accepts(input, InputCapacity) /\ input' = TryPush(input, InputCapacity, frame)
      BY <1>0, <2>1, <3>2, PushElements, PassthroughAssumption
    <3>3. QED
      BY <2>2, <3>1, <3>2
  <2>4. /\ \A i \in 1 .. Len(input.queue) : input.queue[i].media_pts <= frame.media_pts
        /\ \A i \in 1 .. Len(output.queue) : output.queue[i].media_pts <= frame.media_pts
        /\ shown.media_pts <= frame.media_pts
    BY <2>1, TimesType, PassthroughAssumption DEF OrderInv, Before
  <2>5. Sorted(input'.queue) /\ Before(input'.queue, frame.media_pts)
    <3>1. Sorted(input'.queue)
      BY <1>0, <2>1, <2>3, <2>4, SortedAppend DEF OrderInv, Before
    <3>2. ASSUME NEW i \in 1 .. Len(input'.queue)
          PROVE  input'.queue[i].media_pts <= frame.media_pts
      BY <2>1, <2>3, <2>4
    <3>3. QED
      BY <3>1, <3>2 DEF Before
  <2>6. ASSUME NEW i \in 1 .. Len(input'.queue)
        PROVE  /\ Before(output.queue, input'.queue[i].media_pts)
               /\ shown.media_pts <= input'.queue[i].media_pts
    BY <2>3, <2>4 DEF OrderInv, Before
  <2>7. QED
    BY <2>1, <2>2, <2>4, <2>5, <2>6 DEF OrderInv, Before
<1>5. CASE ProcessOne
  <2> DEFINE current == Popped(input)
  <2>1. /\ input.queue # <<>> /\ input' = AfterPop(input) /\ UNCHANGED <<offered, shown>>
        /\ \/ output' = output
           \/ Accepts(output, OutputCapacity) /\ output' = TryPush(output, OutputCapacity, current)
    BY <1>5, ProcessOneOutcome
  <2>2. /\ current \in Frame /\ current = input.queue[1] /\ 1 \in 1 .. Len(input.queue)
        /\ \A i \in 1 .. Len(input'.queue) :
              i + 1 \in 1 .. Len(input.queue) /\ input'.queue[i] = input.queue[i + 1]
        /\ input'.queue \in Seq(Frame)
    BY <1>0, <2>1, PopType DEF QueueType
  <2>3. /\ current.media_pts <= offered.media_pts /\ shown.media_pts <= current.media_pts
        /\ current.media_pts \in Nat
        /\ Before(output.queue, current.media_pts)
        /\ Sorted(input'.queue)
        /\ \A i \in 1 .. Len(input'.queue) : current.media_pts <= input'.queue[i].media_pts
    <3>1. /\ Sorted(input'.queue)
          /\ \A i \in 1 .. Len(input'.queue) : input.queue[1].media_pts <= input'.queue[i].media_pts
      BY <1>0, <2>2, SortedTail DEF OrderInv
    <3>2. QED
      BY <2>2, <3>1, TimesType DEF OrderInv, Before
  <2> HIDE DEF current
  <2>4. \A i \in 1 .. Len(output'.queue) :
           \/ i \in 1 .. Len(output.queue) /\ output'.queue[i] = output.queue[i]
           \/ i = Len(output.queue) + 1 /\ output'.queue[i] = current
    <3>1. CASE output' = output
      BY <3>1
    <3>2. CASE Accepts(output, OutputCapacity) /\ output' = TryPush(output, OutputCapacity, current)
      <4>1. current \in Frame
        BY <2>2
      <4>2. QED
        BY <1>0, <3>2, <4>1, PushElements, PassthroughAssumption
    <3>3. QED
      BY <2>1, <3>1, <3>2
  <2>5. Before(input'.queue, offered.media_pts)
    BY <2>2 DEF OrderInv, Before
  <2>6. Sorted(output'.queue)
    BY <1>0, <2>2, <2>3, <2>4, SortedAppend DEF OrderInv
  <2>7. ASSUME NEW i \in 1 .. Len(output'.queue)
        PROVE  /\ output'.queue[i].media_pts <= offered.media_pts
               /\ shown.media_pts <= output'.queue[i].media_pts
               /\ \A j \in 1 .. Len(input'.queue) :
                     output'.queue[i].media_pts <= input'.queue[j].media_pts
    BY <2>2, <2>3, <2>4 DEF OrderInv, Before
  <2>8. \A i \in 1 .. Len(input'.queue) : shown.media_pts <= input'.queue[i].media_pts
    BY <2>2 DEF OrderInv
  <2>9. QED
    BY <2>1, <2>3, <2>5, <2>6, <2>7, <2>8 DEF OrderInv, Before
<1>6. CASE Receive
  <2>1. /\ output.queue # <<>> /\ shown' = Popped(output) /\ output' = AfterPop(output)
        /\ UNCHANGED <<input, offered>>
    BY <1>6 DEF Receive
  <2>2. /\ shown' = output.queue[1] /\ 1 \in 1 .. Len(output.queue)
        /\ \A i \in 1 .. Len(output'.queue) :
              i + 1 \in 1 .. Len(output.queue) /\ output'.queue[i] = output.queue[i + 1]
        /\ output'.queue \in Seq(Frame)
    BY <1>0, <2>1, PopType DEF QueueType
  <2>3. /\ Sorted(output'.queue) /\ Before(output'.queue, offered.media_pts)
        /\ \A i \in 1 .. Len(output'.queue) : output.queue[1].media_pts <= output'.queue[i].media_pts
    BY <1>0, <2>2, SortedTail DEF OrderInv, Before
  <2>4. /\ \A i \in 1 .. Len(output'.queue) : shown'.media_pts <= output'.queue[i].media_pts
        /\ \A i \in 1 .. Len(input.queue) : shown'.media_pts <= input.queue[i].media_pts
        /\ \A i \in 1 .. Len(input.queue) : Before(output'.queue, input.queue[i].media_pts)
        /\ shown'.media_pts <= offered.media_pts
    BY <2>2, <2>3 DEF OrderInv, Before
  <2>5. QED
    BY <2>1, <2>3, <2>4 DEF OrderInv
<1>7. QED
  BY <1>2, <1>3, <1>4, <1>5, <1>6 DEF Next

\* The two queues are only ever closed together.
LEMMA ClosedStep == TypeOK /\ BothClosed /\ [Next]_vars => BothClosed'
<1> SUFFICES ASSUME TypeOK, BothClosed, [Next]_vars
             PROVE  BothClosed'
  OBVIOUS
<1>0. /\ input \in QueueType /\ output \in QueueType /\ offered \in Frame \cup {NoFrame}
  BY DEF TypeOK, QueueType
<1>1. CASE Start \/ UNCHANGED vars
  BY <1>1 DEF Start, vars, BothClosed
<1>2. CASE Stop
  BY <1>0, <1>2, CloseType DEF Stop, BothClosed
<1>3. ASSUME NEW frame \in NextFrames, Submit(frame)
      PROVE  BothClosed'
  <2>1. frame \in Frame
    BY <1>0, NextFramesType
  <2>2. input'.closed = input.closed /\ output' = output
    BY <1>0, <1>3, <2>1, SubmitOutcome, PushType, PassthroughAssumption
  <2>3. QED
    BY <2>2 DEF BothClosed
<1>4. CASE ProcessOne
  <2>1. Popped(input) \in Frame /\ input'.closed = input.closed
    BY <1>0, <1>4, ProcessOneOutcome, PopType
  <2>2. output'.closed = output.closed
    BY <1>0, <1>4, <2>1, ProcessOneOutcome, PushType, PassthroughAssumption
  <2>3. QED
    BY <2>1, <2>2 DEF BothClosed
<1>5. CASE Receive
  BY <1>0, <1>5, PopType DEF Receive, BothClosed
<1>6. QED
  BY <1>1, <1>2, <1>3, <1>4, <1>5 DEF Next

\* The invariant the refinement needs holds of a new pipeline.
LEMMA StreamInit == Init => StreamInv
<1>1. Init => BothClosed /\ OrderInv /\ FramesAccounted
  BY PassthroughAssumption
     DEF Init, BothClosed, OrderInv, FramesAccounted, EmptyQueue, NoFrame, Sorted, Before
<1>2. QED
  BY TypeInit, <1>1 DEF StreamInv

\* Every call keeps the invariant the refinement needs.
LEMMA StreamStep == StreamInv /\ [Next]_vars => StreamInv'
  BY TypeStep, AccountStep, ClosedStep, OrderStep DEF StreamInv

\* The timestamps of a queue of frames, in the order they leave it.
Timestamps(queue) == [i \in DOMAIN queue |-> queue[i].media_pts]

\* The timestamps of a list of frames, as a list of the same length.
LEMMA TimestampsType ==
  ASSUME NEW queue \in Seq(Frame)
  PROVE  /\ Timestamps(queue) \in Seq(Nat)
         /\ Len(Timestamps(queue)) = Len(queue)
         /\ DOMAIN queue = 1 .. Len(queue)
         /\ \A i \in 1 .. Len(queue) : /\ Timestamps(queue)[i] = queue[i].media_pts
                                       /\ queue[i].media_pts \in Nat
<1>1. /\ DOMAIN queue = 1 .. Len(queue) /\ Len(queue) \in Nat
      /\ \A i \in 1 .. Len(queue) : queue[i] \in Frame
  OBVIOUS
<1>2. \A f \in Frame : f.media_pts \in Nat
  BY DEF Frame
<1>3. /\ \A i \in 1 .. Len(queue) : /\ Timestamps(queue)[i] = queue[i].media_pts
                                    /\ queue[i].media_pts \in Nat
      /\ DOMAIN Timestamps(queue) = 1 .. Len(queue)
      /\ Timestamps(queue) \in [1 .. Len(queue) -> Nat]
  BY <1>1, <1>2 DEF Timestamps
<1>4. QED
  BY <1>1, <1>3

\* A frame more is a timestamp more.
LEMMA TimestampsAppend ==
  ASSUME NEW queue \in Seq(Frame), NEW frame \in Frame
  PROVE  Timestamps(Append(queue, frame)) = Timestamps(queue) \o <<frame.media_pts>>
<1> DEFINE appended == Append(queue, frame)
           times == Timestamps(queue)
           longer == Append(times, frame.media_pts)
<1>1. /\ appended \in Seq(Frame) /\ Len(appended) = Len(queue) + 1
      /\ \A i \in 1 .. Len(queue) : appended[i] = queue[i]
      /\ appended[Len(queue) + 1] = frame
      /\ Len(queue) \in Nat
  BY AppendProperties, LenProperties
<1>2. /\ times \in Seq(Nat) /\ Len(times) = Len(queue)
      /\ \A i \in 1 .. Len(queue) : times[i] = queue[i].media_pts
  BY TimestampsType
<1>3. /\ Timestamps(appended) \in Seq(Nat) /\ Len(Timestamps(appended)) = Len(queue) + 1
      /\ \A i \in 1 .. Len(queue) + 1 : Timestamps(appended)[i] = appended[i].media_pts
  BY <1>1, TimestampsType
<1>4. frame.media_pts \in Nat
  BY DEF Frame
<1> HIDE DEF times, appended
<1>5. /\ longer \in Seq(Nat) /\ Len(longer) = Len(queue) + 1
      /\ \A i \in 1 .. Len(queue) : longer[i] = times[i]
      /\ longer[Len(queue) + 1] = frame.media_pts
  BY <1>1, <1>2, <1>4, AppendProperties
<1> HIDE DEF longer
<1>6. ASSUME NEW i \in 1 .. Len(queue) + 1
      PROVE  longer[i] = Timestamps(appended)[i]
  <2>1. i \in 1 .. Len(queue) \/ i = Len(queue) + 1
    BY <1>1
  <2>2. QED
    BY <1>1, <1>2, <1>3, <1>5, <2>1
<1>7. longer = Timestamps(appended)
  BY <1>3, <1>5, <1>6, SeqEqual
<1>8. longer = times \o <<frame.media_pts>>
  BY <1>2, <1>4, AppendIsConcat DEF longer
<1>9. QED
  BY <1>7, <1>8 DEF times, appended

\* A frame less is a timestamp less.
LEMMA TimestampsTail ==
  ASSUME NEW queue \in Seq(Frame), queue # <<>>
  PROVE  /\ Timestamps(queue) # <<>>
         /\ Head(Timestamps(queue)) = Head(queue).media_pts
         /\ Timestamps(Tail(queue)) = Tail(Timestamps(queue))
<1> DEFINE times == Timestamps(queue)
           rest == Tail(queue)
<1>1. /\ Len(queue) \in Nat \ {0} /\ Head(queue) = queue[1]
      /\ rest \in Seq(Frame) /\ Len(rest) = Len(queue) - 1
      /\ \A i \in 1 .. Len(rest) : rest[i] = queue[i + 1]
  BY HeadTailProperties, EmptySeq
<1>2. /\ times \in Seq(Nat) /\ Len(times) = Len(queue)
      /\ \A i \in 1 .. Len(queue) : times[i] = queue[i].media_pts
  BY TimestampsType
<1>3. /\ Timestamps(rest) \in Seq(Nat) /\ Len(Timestamps(rest)) = Len(rest)
      /\ \A i \in 1 .. Len(rest) : Timestamps(rest)[i] = rest[i].media_pts
  BY <1>1, TimestampsType
<1> HIDE DEF times, rest
<1>4. times # <<>>
  BY <1>1, <1>2, EmptySeq
<1>5. /\ Tail(times) \in Seq(Nat) /\ Len(Tail(times)) = Len(queue) - 1
      /\ \A i \in 1 .. Len(Tail(times)) : Tail(times)[i] = times[i + 1]
      /\ Head(times) = times[1]
  BY <1>2, <1>4, HeadTailProperties
<1>6. ASSUME NEW i \in 1 .. Len(Tail(times))
      PROVE  Tail(times)[i] = Timestamps(rest)[i]
  <2>1. i \in 1 .. Len(rest) /\ i + 1 \in 1 .. Len(queue)
    BY <1>1, <1>5
  <2>2. QED
    BY <1>1, <1>2, <1>3, <1>5, <2>1
<1>7. Tail(times) = Timestamps(rest)
  BY <1>1, <1>3, <1>5, <1>6, SeqEqual
<1>8. Head(times) = Head(queue).media_pts
  BY <1>1, <1>2, <1>5
<1>9. QED
  BY <1>4, <1>7, <1>8 DEF times, rest


\* Frames that leave in order carry timestamps that never go back.
LEMMA TimestampsOrdered ==
  ASSUME NEW queue \in Seq(Frame), Sorted(queue), shown.media_pts \in Nat,
         \A i \in 1 .. Len(queue) : shown.media_pts <= queue[i].media_pts
  PROVE  Stream!Ordered(<<shown.media_pts>> \o Timestamps(queue))
<1> DEFINE times == Timestamps(queue)
           all == <<shown.media_pts>> \o times
<1>1. /\ times \in Seq(Nat) /\ Len(times) = Len(queue) /\ Len(queue) \in Nat
      /\ \A i \in 1 .. Len(queue) :
            times[i] = queue[i].media_pts /\ queue[i].media_pts \in Nat
  BY TimestampsType, LenProperties
<1> HIDE DEF times
<1>2. /\ <<shown.media_pts>> \in Seq(Nat) /\ Len(<<shown.media_pts>>) = 1
      /\ <<shown.media_pts>>[1] = shown.media_pts
  OBVIOUS
<1>3. /\ all \in Seq(Nat) /\ Len(all) = Len(queue) + 1
      /\ \A i \in 1 .. Len(queue) + 1 :
            all[i] = IF i <= 1 THEN <<shown.media_pts>>[i] ELSE times[i - 1]
  <2>1. 1 + Len(times) = Len(queue) + 1
    BY <1>1
  <2>2. QED
    BY <1>1, <1>2, <2>1, ConcatProperties
<1> HIDE DEF all
<1>4. DOMAIN all = 1 .. Len(queue) + 1
  BY <1>3, LenProperties
<1>5. ASSUME NEW i \in 1 .. Len(queue) + 1, NEW j \in 1 .. Len(queue) + 1, i <= j
      PROVE  all[i] <= all[j]
  <2>1. CASE i = j
    <3>1. all[i] \in Nat
      BY <1>3, <1>4, ElementOfSeq
    <3>2. QED
      BY <2>1, <3>1
  <2>2. CASE i = 1 /\ i < j
    <3>1. j - 1 \in 1 .. Len(queue) /\ ~(j <= 1) /\ i <= 1
      BY <1>1, <2>2
    <3>2. all[j] = queue[j - 1].media_pts
      <4>1. all[j] = times[j - 1]
        BY <1>3, <3>1, Zenon
      <4>2. times[j - 1] = queue[j - 1].media_pts
        BY <1>1, <3>1, Zenon
      <4>3. QED
        BY <4>1, <4>2
    <3>3. all[i] = <<shown.media_pts>>[i]
      BY <1>3, <3>1
    <3>4. all[i] = shown.media_pts
      BY <1>2, <2>2, <3>3, Zenon
    <3>5. QED
      BY <3>1, <3>2, <3>4
  <2>3. CASE i > 1 /\ i < j
    <3>1. /\ j - 1 \in 1 .. Len(queue) /\ ~(j <= 1)
          /\ i - 1 \in 1 .. Len(queue) /\ ~(i <= 1)
          /\ i - 1 <= j - 1
      BY <1>1, <2>3
    <3>2. all[j] = queue[j - 1].media_pts /\ all[i] = queue[i - 1].media_pts
      BY <1>1, <1>3, <3>1
    <3>3. QED
      BY <3>1, <3>2 DEF Sorted
  <2>4. QED
    BY <1>1, <1>5, <2>1, <2>2, <2>3
<1>6. QED
  BY <1>4, <1>5 DEF Stream!Ordered, all, times

\* A call yields no frame or the one it took.
LEMMA YieldType ==
  ASSUME NEW S
  PROVE  /\ <<>> \in Stream!BoundedSeq(S, 2)
         /\ \A a \in S : <<a>> \in Stream!BoundedSeq(S, 2)
<1>1. /\ <<>> \in [1 .. 0 -> S]
      /\ \A a \in S : <<a>> \in [1 .. 1 -> S]
  OBVIOUS
<1>2. Stream!BoundedSeq(S, 2) = UNION {[1 .. m -> S] : m \in 0 .. 2}
  BY DEF Stream!BoundedSeq, Stream!SeqOf
<1>3. 0 \in 0 .. 2 /\ 1 \in 0 .. 2
  OBVIOUS
<1>4. QED
  BY <1>1, <1>2, <1>3

\* process_one() is a step of the stream that consumes a frame.
LEMMA ProcessOneConsumes ==
  ASSUME StreamInv, StreamInv', ProcessOne
  PROVE  Stream!Consume
<1> DEFINE current == Popped(input)
<1>1. /\ input \in QueueType /\ output \in QueueType
      /\ output.queue \in Seq(Frame) /\ output'.queue \in Seq(Frame)
      /\ Len(output'.queue) <= OutputCapacity
      /\ stats.submitted \in Nat /\ stats.processed \in Nat /\ stats.dropped_output \in Nat
  BY DEF StreamInv, TypeOK, QueueType
<1>2. /\ input.queue # <<>> /\ shown' = shown
      /\ stats'.submitted = stats.submitted
      /\ stats'.processed + stats'.dropped_output = stats.processed + stats.dropped_output + 1
      /\ \/ output' = output
         \/ Accepts(output, OutputCapacity) /\ output' = TryPush(output, OutputCapacity, current)
  BY ProcessOneOutcome DEF StreamInv
<1>3. /\ current \in Frame /\ current = input.queue[1] /\ 1 \in 1 .. Len(input.queue)
      /\ Len(input.queue) \in Nat \ {0}
  BY <1>1, <1>2, PopType
<1>4. current.media_pts \in 0 .. MaxPts
  <2>1. current.media_pts <= offered.media_pts /\ offered.media_pts <= MaxPts
    BY <1>3 DEF StreamInv, OrderInv, Before
  <2>2. current.media_pts \in Nat /\ offered.media_pts \in Nat
    BY <1>3, TimesType DEF StreamInv, Frame
  <2>3. QED
    BY <2>1, <2>2, PassthroughAssumption
<1>5. stats.processed + stats.dropped_output < stats.submitted
  BY <1>1, <1>3 DEF StreamInv, FramesAccounted
<1> HIDE DEF current
<1>6. /\ output'.closed = output.closed
      /\ \E yield \in Stream!BoundedSeq(0 .. MaxPts, 2) :
            /\ Timestamps(output'.queue) = Timestamps(output.queue) \o yield
            /\ output.closed => yield = <<>>
  <2>1. CASE output' = output
    <3>1. Timestamps(output'.queue) = Timestamps(output.queue) \o <<>>
      BY <1>1, <2>1, TimestampsType, ConcatEmptySeq
    <3>2. QED
      BY <2>1, <3>1, YieldType
  <2>2. CASE Accepts(output, OutputCapacity) /\ output' = TryPush(output, OutputCapacity, current)
    <3>1. /\ output'.queue = Append(output.queue, current)
          /\ output'.closed = output.closed /\ ~output.closed
      <4> DEFINE pushed == TryPush(output, OutputCapacity, current)
      <4>0. /\ output \in QueueType /\ current \in Frame /\ OutputCapacity \in Nat
            /\ Accepts(output, OutputCapacity)
        BY <1>1, <1>3, <2>2, PassthroughAssumption
      <4>1. pushed = [queue |-> Append(output.queue, current), closed |-> output.closed]
        BY ONLY <4>0, PushType
      <4>2. output' = pushed /\ ~output.closed
        BY <2>2 DEF Accepts
      <4> HIDE DEF pushed
      <4>3. QED
        BY <4>1, <4>2
    <3>2. Timestamps(output'.queue) = Timestamps(output.queue) \o <<current.media_pts>>
      BY <1>1, <1>3, <3>1, TimestampsAppend
    <3>3. <<current.media_pts>> \in Stream!BoundedSeq(0 .. MaxPts, 2)
      BY <1>4, YieldType
    <3>4. QED
      BY <3>1, <3>2, <3>3
  <2>3. QED
    BY <1>2, <2>1, <2>2
<1>7. Stream!Ordered(<<shown.media_pts>> \o Timestamps(output'.queue))
  <2>1. /\ Sorted(output'.queue) /\ shown.media_pts \in Nat
        /\ \A i \in 1 .. Len(output'.queue) : shown.media_pts <= output'.queue[i].media_pts
    BY <1>2, TimesType DEF StreamInv, OrderInv
  <2>2. QED
    BY <1>1, <2>1, TimestampsOrdered
<1>8. Len(Timestamps(output'.queue)) <= OutputCapacity
  BY <1>1, TimestampsType
<1>9. QED
  BY <1>2, <1>5, <1>6, <1>7, <1>8 DEF Stream!Consume, Timestamps

\* Every call is a step of the stream or leaves it as it was.
LEMMA StreamSimulation ==
  ASSUME StreamInv, StreamInv', [Next]_vars
  PROVE  [Stream!Next]_(Stream!streamVars)
<1>1. input \in QueueType /\ output \in QueueType /\ output.queue \in Seq(Frame)
  BY DEF StreamInv, TypeOK, QueueType
<1>2. ASSUME output' = output, shown' = shown, stats'.submitted = stats.submitted,
             stats'.processed = stats.processed,
             stats'.dropped_output = stats.dropped_output
      PROVE  UNCHANGED Stream!streamVars
  BY <1>2 DEF Stream!streamVars
<1>3. CASE Start \/ UNCHANGED vars
  BY <1>2, <1>3 DEF Start, vars
<1>4. CASE Stop
  <2>1. output'.queue = output.queue /\ output'.closed = TRUE /\ UNCHANGED <<stats, shown>>
    BY <1>1, <1>4, CloseType DEF Stop
  <2>2. Stream!Shut
    BY <2>1 DEF Stream!Shut
  <2>3. QED
    BY <2>2 DEF Stream!Next
<1>5. ASSUME NEW frame \in NextFrames, Submit(frame)
      PROVE  [Stream!Next]_(Stream!streamVars)
  <2>1. TypeOK
    BY DEF StreamInv
  <2>2. output' = output /\ shown' = shown
    BY <1>5, <2>1, SubmitOutcome
  <2>3. CASE UNCHANGED stats
    BY <1>2, <2>2, <2>3
  <2>4. CASE /\ stats'.submitted = stats.submitted
             /\ stats'.processed = stats.processed
             /\ stats'.dropped_output = stats.dropped_output
    BY <1>2, <2>2, <2>4
  <2>5. CASE /\ ~input.closed
             /\ stats'.submitted = stats.submitted + 1
             /\ stats'.processed = stats.processed
             /\ stats'.dropped_output = stats.dropped_output
    <3>1. Stream!Admit
      BY <2>2, <2>5 DEF Stream!Admit, StreamInv, BothClosed
    <3>2. QED
      BY <3>1 DEF Stream!Next
  <2>6. QED
    BY <1>5, <2>1, <2>3, <2>4, <2>5, SubmitOutcome
<1>6. CASE ProcessOne
  BY <1>6, ProcessOneConsumes DEF Stream!Next
<1>7. CASE Receive
  <2>1. /\ output.queue # <<>> /\ shown' = Head(output.queue)
        /\ output' = AfterPop(output) /\ UNCHANGED stats
    BY <1>7 DEF Receive, Popped
  <2>2. output'.queue = Tail(output.queue) /\ output'.closed = output.closed
    <3>1. AfterPop(output) = [queue |-> Tail(output.queue), closed |-> output.closed]
      BY <1>1, <2>1, PopType
    <3>2. QED
      BY <2>1, <3>1
  <2>3. /\ Timestamps(output.queue) # <<>>
        /\ shown'.media_pts = Head(Timestamps(output.queue))
        /\ Timestamps(output'.queue) = Tail(Timestamps(output.queue))
    BY <1>1, <2>1, <2>2, TimestampsTail
  <2>4. Stream!Take
    BY <2>1, <2>2, <2>3 DEF Stream!Take, Timestamps
  <2>5. QED
    BY <2>4 DEF Stream!Next
<1>8. QED
  BY <1>3, <1>4, <1>5, <1>6, <1>7 DEF Next

\* A passthrough pipeline is the frame stream that the pipeline with backends
\* is: in media order, at most one frame for each one taken in, none after stop.
THEOREM PassthroughImplementsStream == Spec => ImplementsStream
<1>1. Init => Stream!Init
  <2> SUFFICES ASSUME Init
               PROVE  Stream!Init
    OBVIOUS
  <2>1. /\ output.queue = <<>> /\ output.closed = FALSE /\ shown.media_pts = 0
        /\ stats.submitted = 0 /\ stats.processed = 0 /\ stats.dropped_output = 0
    BY DEF Init, EmptyQueue, NoFrame
  <2>2. [i \in DOMAIN output.queue |-> output.queue[i].media_pts] = <<>>
    BY <2>1
  <2>3. QED
    BY <2>1, <2>2 DEF Stream!Init
<1>2. StreamInv /\ StreamInv' /\ [Next]_vars => [Stream!Next]_(Stream!streamVars)
  BY StreamSimulation
<1>3. QED
  BY StreamInit, StreamStep, <1>1, <1>2, PTL DEF Spec, ImplementsStream, Stream!Spec
=============================================================================
