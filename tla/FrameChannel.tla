---------------------------- MODULE FrameChannel ----------------------------
(***************************************************************************)
(* What a bounded queue promises the threads that share it, without saying *)
(* how it stores anything: every value ever admitted is in a log, values   *)
(* leave from the front of the log, a value leaves either by being handed  *)
(* to one caller or in a wholesale discard, and no more than Capacity are  *)
(* inside at once.                                                         *)
(***************************************************************************)
EXTENDS Naturals, Sequences

CONSTANTS Values, Capacity, NoValue

VARIABLES log,        \* every value ever admitted, in order
          departed,   \* how many of them are no longer inside
          delivered   \* the value handed out last

channelVars == <<log, departed, delivered>>

Init == log = <<>> /\ departed = 0 /\ delivered = NoValue

Admit(value) ==
    /\ Len(log) - departed < Capacity
    /\ log' = Append(log, value)
    /\ UNCHANGED <<departed, delivered>>

Deliver ==
    /\ departed < Len(log)
    /\ departed' = departed + 1
    /\ delivered' = log[departed + 1]
    /\ UNCHANGED log

Discard ==
    /\ departed' = Len(log)
    /\ UNCHANGED <<log, delivered>>

Next == (\E value \in Values : Admit(value)) \/ Deliver \/ Discard

Spec == Init /\ [][Next]_channelVars
=============================================================================
