---------------------------- MODULE BoundedQueue ----------------------------
(***************************************************************************)
(* The value of a core::BoundedQueue and what each of its member functions *)
(* does to it.  Every member function runs under the queue's own mutex, so *)
(* one application of an operator below is one atomic step of its caller.  *)
(* The condition variable is notified but nothing in the program waits on  *)
(* it, so it has no counterpart here.                                      *)
(***************************************************************************)
EXTENDS Naturals, Sequences

\* A queue that was just constructed: no element, open.
EmptyQueue == [queue |-> <<>>, closed |-> FALSE]

\* Mutants: a queue that ignores close(), and one that admits one too many.
AcceptsIgnoringClosed(q, capacity) == Len(q.queue) < capacity
AcceptsOneTooMany(q, capacity) == ~q.closed /\ Len(q.queue) <= capacity

\* try_push succeeds exactly on an open queue below its capacity; the value
\* offered to a full queue is the one that is lost.
Accepts(q, capacity) == ~q.closed /\ Len(q.queue) < capacity

TryPush(q, capacity, value) ==
    IF Accepts(q, capacity) THEN [q EXCEPT !.queue = Append(@, value)] ELSE q

\* The value try_pop returns, on a queue that is not empty, and what it leaves.
\* A closed queue still hands out what it holds.
Popped(q) == Head(q.queue)
AfterPop(q) == [q EXCEPT !.queue = Tail(@)]

Close(q) == [q EXCEPT !.closed = TRUE]

\* Mutant: a reset that reopens the queue but keeps its elements.
ResetKeeping(q) == [q EXCEPT !.closed = FALSE]

\* reset() drops every element and reopens the queue.
Reset(q) == [q EXCEPT !.queue = <<>>, !.closed = FALSE]
=============================================================================
