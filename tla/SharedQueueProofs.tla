-------------------------- MODULE SharedQueueProofs --------------------------
(***************************************************************************)
(* The queue holds exactly what was admitted and has not left, and is a    *)
(* bounded first-in first-out channel, for every capacity, every set of    *)
(* values and any number of pushes.                                        *)
(***************************************************************************)
EXTENDS SharedQueue, TLAPS

QueueInv == TypeOK /\ HoldsTheRest

\* Init establishes the invariant: the queue and its history are empty.
LEMMA QueueInvInit == Init => QueueInv
  BY SharedQueueAssumption DEF Init, QueueInv, TypeOK, HoldsTheRest, EmptyQueue

\* Each call of the queue preserves the invariant.
LEMMA QueueInvStep == QueueInv /\ [Next]_vars => QueueInv'
<1> SUFFICES ASSUME QueueInv, [Next]_vars
             PROVE  QueueInv'
  OBVIOUS
<1> USE SharedQueueAssumption DEF QueueInv, TypeOK, HoldsTheRest
<1>1. ASSUME NEW value \in Values, Push(value)
      PROVE  QueueInv'
  <2>1. /\ q'.queue = Append(q.queue, value)
        /\ q' = [queue |-> Append(q.queue, value), closed |-> q.closed]
        /\ admitted' = Append(admitted, value)
        /\ Len(q.queue) < Capacity
        /\ UNCHANGED <<delivered, departed>>
    BY <1>1 DEF Push, TryPush, Accepts
  <2>2. TypeOK'
    <3>1. Len(q'.queue) = Len(q.queue) + 1
      BY <2>1
    <3>2. QED
      BY <2>1, <3>1
  <2>3. HoldsTheRest'
    <3>1. /\ Len(q'.queue) = Len(q.queue) + 1
          /\ Len(admitted') = Len(admitted) + 1
      BY <2>1
    <3>2. ASSUME NEW i \in 1 .. Len(q'.queue)
          PROVE  q'.queue[i] = admitted'[departed' + i]
      <4>1. CASE i <= Len(q.queue)
        BY <2>1, <3>1, <4>1
      <4>2. CASE i = Len(q.queue) + 1
        BY <2>1, <3>1, <4>2
      <4>3. QED
        BY <3>1, <4>1, <4>2
    <3>3. Len(q'.queue) = Len(admitted') - departed'
      BY <2>1, <3>1
    <3>4. QED
      BY <3>2, <3>3
  <2>4. QED
    BY <2>2, <2>3
<1>2. CASE Pop
  <2>1. /\ q.queue # <<>>
        /\ q' = [queue |-> Tail(q.queue), closed |-> q.closed]
        /\ delivered' = Head(q.queue)
        /\ departed' = departed + 1
        /\ admitted' = admitted
    BY <1>2 DEF Pop, AfterPop, Popped
  <2>2. TypeOK'
    BY <2>1
  <2>3. HoldsTheRest'
    <3>1. /\ q'.queue = Tail(q.queue)
          /\ Len(q'.queue) = Len(q.queue) - 1
      BY <2>1
    <3>2. ASSUME NEW i \in 1 .. Len(q'.queue)
          PROVE  q'.queue[i] = admitted'[departed' + i]
      <4>1. i + 1 \in 1 .. Len(q.queue) /\ q'.queue[i] = q.queue[i + 1]
        BY <2>1, <3>1
      <4>2. departed' + i = departed + (i + 1)
        BY <2>1
      <4>3. QED
        BY <2>1, <4>1, <4>2
    <3>3. Len(q'.queue) = Len(admitted') - departed'
      BY <2>1, <3>1
    <3>4. QED
      BY <3>2, <3>3
  <2>4. QED
    BY <2>2, <2>3
<1>3. CASE CloseQueue
  BY <1>3 DEF CloseQueue, Close
<1>4. CASE ResetQueue
  <2>1. /\ q' = [queue |-> <<>>, closed |-> FALSE]
        /\ q'.queue = <<>>
        /\ departed' = Len(admitted)
        /\ UNCHANGED <<delivered, admitted>>
    BY <1>4 DEF ResetQueue, Reset
  <2>2. <<>> \in Seq(Values) /\ Len(q'.queue) = 0
    BY <2>1
  <2>3. QED
    BY <2>1, <2>2
<1>5. CASE UNCHANGED vars
  BY <1>5 DEF vars
<1>6. QED
  BY <1>1, <1>2, <1>3, <1>4, <1>5 DEF Next

\* The queue never holds more than its capacity.
THEOREM QueueTypeOK == Spec => []TypeOK
<1>1. QueueInv => TypeOK
  BY DEF QueueInv
<1>2. QED
  BY QueueInvInit, QueueInvStep, <1>1, PTL DEF Spec

\* Every reachable queue holds exactly the admitted values that have not left,
\* in order.
THEOREM QueueHoldsTheRest == Spec => []HoldsTheRest
<1>1. QueueInv => HoldsTheRest
  BY DEF QueueInv
<1>2. QED
  BY QueueInvInit, QueueInvStep, <1>1, PTL DEF Spec

\* A closed queue admits nothing, and only a reset, which empties it, opens it again.
THEOREM QueueClosedAdmitsNothing == Spec => ClosedAdmitsNothing
<1> DEFINE A == q.closed => admitted' = admitted /\ (~q'.closed => q'.queue = <<>>)
<1>1. QueueInv /\ [Next]_vars => A \/ UNCHANGED vars
  <2> SUFFICES ASSUME QueueInv, Next, q.closed
               PROVE  admitted' = admitted /\ (~q'.closed => q'.queue = <<>>)
    OBVIOUS
  <2>1. q = [queue |-> q.queue, closed |-> TRUE]
    BY DEF QueueInv, TypeOK
  <2>2. ASSUME NEW value \in Values, Push(value)
        PROVE  FALSE
    BY <2>2 DEF Push, Accepts
  <2>3. CASE Pop
    <3>1. q' = [queue |-> Tail(q.queue), closed |-> TRUE] /\ admitted' = admitted
      BY <2>1, <2>3 DEF Pop, AfterPop
    <3>2. QED
      BY <3>1
  <2>4. CASE CloseQueue
    <3>1. q'.closed /\ admitted' = admitted
      BY <2>1, <2>4 DEF CloseQueue, Close
    <3>2. QED
      BY <3>1
  <2>5. CASE ResetQueue
    <3>1. q' = [queue |-> <<>>, closed |-> FALSE] /\ admitted' = admitted
      BY <2>1, <2>5 DEF ResetQueue, Reset
    <3>2. QED
      BY <3>1
  <2>6. QED
    BY <2>2, <2>3, <2>4, <2>5 DEF Next
<1>2. QED
  BY QueueInvInit, QueueInvStep, <1>1, PTL DEF Spec, ClosedAdmitsNothing

\* Every step of the queue is a step of the channel, or leaves it alone:
\* try_push admits, try_pop delivers the oldest value, reset discards, and
\* close is invisible.
THEOREM QueueImplementsChannel == Spec => ImplementsChannel
<1>1. Init => Channel!Init
  BY DEF Init, Channel!Init
<1>2. QueueInv /\ [Next]_vars => [Channel!Next]_(Channel!channelVars)
  <2> SUFFICES ASSUME QueueInv, [Next]_vars
               PROVE  [Channel!Next]_(Channel!channelVars)
    OBVIOUS
  <2> USE SharedQueueAssumption DEF QueueInv, TypeOK, HoldsTheRest
  <2>1. ASSUME NEW value \in Values, Push(value)
        PROVE  Channel!Admit(value)
    BY <2>1 DEF Push, Accepts, Channel!Admit
  <2>2. ASSUME Pop
        PROVE  Channel!Deliver
    BY <2>2 DEF Pop, Popped, Channel!Deliver
  <2>3. ASSUME CloseQueue
        PROVE  UNCHANGED Channel!channelVars
    BY <2>3 DEF CloseQueue, Channel!channelVars
  <2>4. ASSUME ResetQueue
        PROVE  Channel!Discard
    BY <2>4 DEF ResetQueue, Channel!Discard
  <2>5. ASSUME UNCHANGED vars
        PROVE  UNCHANGED Channel!channelVars
    BY <2>5 DEF vars, Channel!channelVars
  <2>6. QED
    BY <2>1, <2>2, <2>3, <2>4, <2>5 DEF Next, Channel!Next
<1>3. QED
  BY <1>1, <1>2, QueueInvInit, QueueInvStep, PTL DEF Spec, ImplementsChannel, Channel!Spec
=============================================================================
