----------------------------- MODULE FrameStream -----------------------------
(***************************************************************************)
(* What a frame pipeline promises its owner, whatever it does to the       *)
(* pixels: frames that were admitted are consumed one at a time, each      *)
(* yields at most two frames, and the frames that come out carry           *)
(* timestamps that never go back.  Once shut it yields nothing more, but   *)
(* what it holds can still be taken.                                       *)
(***************************************************************************)
EXTENDS Naturals, Sequences, SequencesExt

CONSTANTS Times,      \* timestamps
          Capacity    \* frames that may wait to be taken

VARIABLES pending,    \* timestamps of the frames that wait
          last,       \* timestamp of the frame taken last
          admitted,   \* frames let in
          consumed,   \* frames used up
          open

streamVars == <<pending, last, admitted, consumed, open>>

Init ==
    /\ pending = <<>> /\ last = 0
    /\ admitted = 0 /\ consumed = 0
    /\ open = TRUE

Admit ==
    /\ open
    /\ admitted' = admitted + 1
    /\ UNCHANGED <<pending, last, consumed, open>>

Ordered(times) == \A i, j \in DOMAIN times : i <= j => times[i] <= times[j]

\* Consuming a frame makes at most two others wait, none earlier than those
\* that wait already or were taken.
Consume ==
    /\ consumed < admitted
    /\ consumed' = consumed + 1
    /\ \E yield \in BoundedSeq(Times, 2) :
          /\ pending' = pending \o yield
          /\ ~open => yield = <<>>
    /\ Ordered(<<last>> \o pending')
    /\ Len(pending') <= Capacity
    /\ UNCHANGED <<last, admitted, open>>

Take ==
    /\ pending # <<>>
    /\ last' = Head(pending)
    /\ pending' = Tail(pending)
    /\ UNCHANGED <<admitted, consumed, open>>

Shut ==
    /\ open' = FALSE
    /\ UNCHANGED <<pending, last, admitted, consumed>>

Next == Admit \/ Consume \/ Take \/ Shut

Spec == Init /\ [][Next]_streamVars
=============================================================================
