----------------------------- MODULE FrameSource -----------------------------
(***************************************************************************)
(* What a capture source promises the program that reads it: frames are    *)
(* numbered from 0 in the order they arrive, a frame that finds the queue  *)
(* full is lost but numbered, and the source delivers nothing between the  *)
(* moment it fails or is taken down and the moment it is opened again.     *)
(***************************************************************************)
EXTENDS Naturals, Sequences

CONSTANT Capacity     \* frames that may wait

VARIABLES waiting,    \* numbers of the frames that wait
          number,     \* of the next frame
          live        \* frames may still arrive

sourceVars == <<waiting, number, live>>

Init == waiting = <<>> /\ number = 0 /\ live = FALSE

\* The source starts over: an opened source has delivered nothing yet.
Open == waiting' = <<>> /\ number' = 0 /\ live' = TRUE

Arrive ==
    /\ live
    /\ waiting' = IF Len(waiting) < Capacity THEN Append(waiting, number) ELSE waiting
    /\ number' = number + 1
    /\ UNCHANGED live

Fail == live' = FALSE /\ UNCHANGED <<waiting, number>>

\* The last frame arrives while the source is being taken down.
ArriveLast ==
    /\ live /\ live' = FALSE
    /\ waiting' = IF Len(waiting) < Capacity THEN Append(waiting, number) ELSE waiting
    /\ number' = number + 1

Take ==
    /\ waiting # <<>>
    /\ waiting' = Tail(waiting)
    /\ UNCHANGED <<number, live>>

\* What is left is thrown away, once nothing arrives any more.
Discard == ~live /\ waiting' = <<>> /\ number' = 0 /\ UNCHANGED live

\* A source that is open is not opened a second time.
Next == (~live /\ waiting = <<>> /\ number = 0 /\ Open)
        \/ Arrive \/ ArriveLast \/ Fail \/ Take \/ Discard

Spec == Init /\ [][Next]_sourceVars
=============================================================================
