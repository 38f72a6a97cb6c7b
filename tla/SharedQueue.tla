----------------------------- MODULE SharedQueue -----------------------------
(***************************************************************************)
(* A core::BoundedQueue shared by threads that push, pop, close and reset  *)
(* it in any order, each call atomic under the queue's mutex.  admitted    *)
(* and departed are history: they record the calls and decide nothing.     *)
(***************************************************************************)
EXTENDS BoundedQueue

CONSTANTS Values,      \* what the queue holds
          Capacity,    \* capacity_
          NoValue,     \* the caller's variable before any try_pop
          MaxAdmitted  \* bound of the model: how many pushes may succeed

ASSUME SharedQueueAssumption ==
    /\ Capacity \in Nat
    /\ MaxAdmitted \in Nat
    /\ NoValue \notin Values

VARIABLES q,          \* the queue
          delivered,  \* the value the last successful try_pop returned
          admitted,   \* history: every value a try_push admitted, in order
          departed    \* history: how many of those a pop or a reset removed

vars == <<q, delivered, admitted, departed>>

Init ==
    /\ q = EmptyQueue
    /\ delivered = NoValue
    /\ admitted = <<>>
    /\ departed = 0

\* A try_push that is refused returns false and changes nothing: a stutter.
Push(value) ==
    /\ Len(admitted) < MaxAdmitted
    /\ Accepts(q, Capacity)
    /\ q' = TryPush(q, Capacity, value)
    /\ admitted' = Append(admitted, value)
    /\ UNCHANGED <<delivered, departed>>

Pop ==
    /\ q.queue # <<>>
    /\ delivered' = Popped(q)
    /\ q' = AfterPop(q)
    /\ departed' = departed + 1
    /\ UNCHANGED admitted

CloseQueue ==
    /\ q' = Close(q)
    /\ UNCHANGED <<delivered, admitted, departed>>

ResetQueue ==
    /\ q' = Reset(q)
    /\ departed' = Len(admitted)
    /\ UNCHANGED <<delivered, admitted>>

Next == (\E value \in Values : Push(value)) \/ Pop \/ CloseQueue \/ ResetQueue

Spec == Init /\ [][Next]_vars

-----------------------------------------------------------------------------
(***************************************************************************)
(* Properties.                                                             *)
(***************************************************************************)

\* Types, and the bound the queue exists for.
TypeOK ==
    /\ q \in [queue : Seq(Values), closed : BOOLEAN]
    /\ Len(q.queue) <= Capacity
    /\ delivered \in Values \cup {NoValue}
    /\ admitted \in Seq(Values)
    /\ departed \in Nat

\* The queue holds exactly the admitted values that have not left, in the
\* order they were admitted: nothing is lost, duplicated or reordered by any
\* interleaving of try_push, try_pop, close and reset.
HoldsTheRest ==
    /\ Len(q.queue) = Len(admitted) - departed
    /\ \A i \in 1 .. Len(q.queue) : q.queue[i] = admitted[departed + i]

\* A closed queue admits nothing until a reset empties and reopens it.
ClosedAdmitsNothing ==
    [][q.closed => admitted' = admitted /\ (~q'.closed => q'.queue = <<>>)]_vars

\* The queue is a first-in first-out channel of bounded size in which every
\* admitted value is handed out once or discarded.
Channel == INSTANCE FrameChannel WITH log <- admitted
ImplementsChannel == Channel!Spec
=============================================================================
