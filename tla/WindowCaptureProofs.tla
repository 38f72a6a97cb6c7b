------------------------- MODULE WindowCaptureProofs -------------------------
(***************************************************************************)
(* The capture source is free of races between callbacks and controllers,  *)
(* quiet after stop(), delivers its frames in order, is whole or gone      *)
(* between calls and implements a frame source, for any number of          *)
(* controllers and callbacks.                                              *)
(***************************************************************************)
EXTENDS WindowCapture, SequenceTheorems, TLAPS

\* Only the owner is ever inside start().
OnlyOwnerStarts ==
    \A c \in Controllers \ {Owner} :
        after[c] = "idle" /\ pc[c] \notin {"prepare", "build", "run", "capture"}

\* running is off from the moment a stop() clears it until the end of a start(),
\* also between the stop() inside start() and its second lock.
RunningOnlyWhenUp ==
    running =>
        /\ built
        /\ \A c \in Controllers :
              pc[c] \notin {"revoke", "barrier", "close", "clear", "build", "run"}
        /\ pc[Owner] # "prepare"
        /\ ~(pc[Owner] = "stop" /\ after[Owner] = "prepare")

\* A callback past its running check finds the capture built and nobody at work
\* on it; nobody gets to work on it either without passing the barrier.
UsingOnlyWhenUp ==
    \A t \in Callbacks : at[t] = "using" =>
        /\ built
        /\ \A c \in Controllers : pc[c] \notin Exclusive
        /\ pc[Owner] # "prepare"

\* A capture that is down holds no frame and receives none.
DownIsQuiet ==
    /\ \A c \in Controllers : pc[c] \in {"run", "capture"} => built
    /\ \A c \in Controllers : pc[c] \in {"barrier", "close", "clear"} => ~arriving
    /\ ~built => frames.queue = <<>> /\ sequence = 0 /\ ~arriving

RaceInv == TypeOK /\ OnlyOwnerStarts /\ RunningOnlyWhenUp /\ UsingOnlyWhenUp /\ DownIsQuiet

\* A controller moves and the others stay where they are.
LEMMA ControllerMoves ==
  ASSUME TypeOK, NEW c \in Controllers, NEW place \in Places, Goto(c, place)
  PROVE  /\ pc' \in [Controllers -> Places]
         /\ pc'[c] = place
         /\ \A d \in Controllers \ {c} : pc'[d] = pc[d]
  BY DEF TypeOK, Goto

\* Moving inside or outside the critical section leaves lifecycle_mutex alone.
LEMMA LifecycleStays ==
  ASSUME TypeOK, NEW c \in Controllers, NEW place \in Places, Goto(c, place),
         UNCHANGED lifecycle, pc[c] \in InLifecycle <=> place \in InLifecycle
  PROVE  \A d \in Controllers : lifecycle' = d <=> pc'[d] \in InLifecycle
<1>1. \A d \in Controllers : lifecycle = d <=> pc[d] \in InLifecycle
  BY DEF TypeOK, MutexesHeld
<1>2. pc'[c] = place /\ \A d \in Controllers \ {c} : pc'[d] = pc[d]
  BY ControllerMoves
<1>3. QED
  BY <1>1, <1>2

\* A controller that takes lifecycle_mutex is the only one in its critical section.
LEMMA LifecycleTaken ==
  ASSUME TypeOK, NEW c \in Controllers, NEW place \in InLifecycle, Goto(c, place), Acquire(c)
  PROVE  \A d \in Controllers : lifecycle' = d <=> pc'[d] \in InLifecycle
<1>1. place \in Places
  BY DEF InLifecycle, Places
<1>2. \A d \in Controllers : pc[d] \notin InLifecycle
  BY CaptureAssumption DEF TypeOK, MutexesHeld, Acquire
<1>3. pc'[c] = place /\ \A d \in Controllers \ {c} : pc'[d] = pc[d]
  BY <1>1, ControllerMoves
<1>4. QED
  BY <1>2, <1>3 DEF Acquire

\* A controller that gives it back leaves nobody in it.
LEMMA LifecycleReleased ==
  ASSUME TypeOK, NEW c \in Controllers, NEW place \in Places \ InLifecycle, Goto(c, place),
         lifecycle = c, Release
  PROVE  \A d \in Controllers : lifecycle' = d <=> pc'[d] \in InLifecycle
<1>1. \A d \in Controllers \ {c} : pc[d] \notin InLifecycle
  BY DEF TypeOK, MutexesHeld
<1>2. Nobody \notin Controllers
  BY CaptureAssumption
<1>3. QED
  BY <1>1, <1>2, ControllerMoves DEF Release

-----------------------------------------------------------------------------
(***************************************************************************)
(* The invariant holds initially, and every step preserves it.             *)
(***************************************************************************)

\* Nobody has called anything yet.
LEMMA RaceInit == Init => RaceInv
<1> SUFFICES ASSUME Init
             PROVE  RaceInv
  OBVIOUS
<1>1. frames \in [queue : Seq(CapturedFrames), closed : {FALSE}] /\ frames.queue = <<>>
  BY DEF Init, EmptyQueue
<1>2. /\ \A c \in Controllers : lifecycle # c /\ pc[c] = "idle" /\ after[c] = "idle"
      /\ \A t \in Callbacks : callback # t /\ at[t] = "idle"
  BY CaptureAssumption DEF Init
<1>3. MutexesHeld
  BY <1>2 DEF MutexesHeld, InLifecycle, InCallback
<1>4. TypeOK
  BY <1>1, <1>3 DEF Init, TypeOK, Places
<1>5. OnlyOwnerStarts /\ RunningOnlyWhenUp /\ UsingOnlyWhenUp
  BY <1>2 DEF Init, OnlyOwnerStarts, RunningOnlyWhenUp, UsingOnlyWhenUp
<1>6. DownIsQuiet
  BY <1>1, <1>2 DEF Init, DownIsQuiet
<1>7. QED
  BY <1>4, <1>5, <1>6 DEF RaceInv

\* One lemma for each step of a controller in stop() and start().
LEMMA StopCallInv ==
  ASSUME RaceInv, NEW c \in Controllers, Stop(c)
  PROVE  RaceInv'
<1>1. /\ Goto(c, "stop") /\ "stop" \in Places
      /\ pc[c] = "idle" /\ after' \in [Controllers -> {"idle", "prepare"}]
      /\ after'[c] = "idle" /\ \A d \in Controllers \ {c} : after'[d] = after[d]
      /\ calls' \in Nat
      /\ UNCHANGED <<running, frames, sequence, error, lifecycle, built, session, open, arriving,
                     callback, at, origin>>
  BY DEF Stop, CallStop, Places, RaceInv, TypeOK, resourceVars, callbackVars
<1>2. /\ pc' \in [Controllers -> Places] /\ pc'[c] = "stop"
      /\ \A d \in Controllers \ {c} : pc'[d] = pc[d]
  BY <1>1, ControllerMoves DEF RaceInv
<1>3. \A d \in Controllers : lifecycle' = d <=> pc'[d] \in InLifecycle
  BY <1>1, LifecycleStays DEF RaceInv, InLifecycle
<1>4. TypeOK'
  BY <1>1, <1>2, <1>3 DEF RaceInv, TypeOK, MutexesHeld, Acquire, Release
<1>5. OnlyOwnerStarts'
  BY <1>1, <1>2 DEF RaceInv, OnlyOwnerStarts, TypeOK
<1>6. RunningOnlyWhenUp'
  BY <1>1, <1>2, CaptureAssumption
     DEF RaceInv, RunningOnlyWhenUp, OnlyOwnerStarts, MutexesHeld, InLifecycle, TypeOK
<1>7. UsingOnlyWhenUp'
  BY <1>1, <1>2, CaptureAssumption DEF RaceInv, UsingOnlyWhenUp, OnlyOwnerStarts, Exclusive, TypeOK
<1>8. DownIsQuiet'
  BY <1>1, <1>2 DEF RaceInv, DownIsQuiet, TypeOK
<1>9. QED
  BY <1>4, <1>5, <1>6, <1>7, <1>8 DEF RaceInv

\* stop() takes lifecycle_mutex and clears running.
LEMMA StopRunningInv ==
  ASSUME RaceInv, NEW c \in Controllers, StopRunning(c)
  PROVE  RaceInv'
<1>1. /\ Goto(c, "revoke") /\ "revoke" \in Places
      /\ "revoke" \in InLifecycle
      /\ Acquire(c) /\ pc[c] = "stop" /\ running' = FALSE
      /\ UNCHANGED <<frames, sequence, error, after, calls, built, session, open, arriving,
                     callback, at, origin>>
  BY DEF StopRunning, From, InLifecycle, Places, resourceVars, callbackVars
<1>2. /\ pc' \in [Controllers -> Places] /\ pc'[c] = "revoke"
      /\ \A d \in Controllers \ {c} : pc'[d] = pc[d]
  BY <1>1, ControllerMoves DEF RaceInv
<1>3. \A d \in Controllers : lifecycle' = d <=> pc'[d] \in InLifecycle
  BY <1>1, LifecycleTaken DEF RaceInv
<1>4. TypeOK'
  BY <1>1, <1>2, <1>3 DEF RaceInv, TypeOK, MutexesHeld, Acquire, Release
<1>5. OnlyOwnerStarts'
  BY <1>1, <1>2 DEF RaceInv, OnlyOwnerStarts, TypeOK
<1>6. RunningOnlyWhenUp'
  BY <1>1, <1>2, CaptureAssumption
     DEF RaceInv, RunningOnlyWhenUp, OnlyOwnerStarts, MutexesHeld, InLifecycle, TypeOK
<1>7. UsingOnlyWhenUp'
  BY <1>1, <1>2, CaptureAssumption DEF RaceInv, UsingOnlyWhenUp, OnlyOwnerStarts, Exclusive, TypeOK
<1>8. DownIsQuiet'
  BY <1>1, <1>2 DEF RaceInv, DownIsQuiet, TypeOK
<1>9. QED
  BY <1>4, <1>5, <1>6, <1>7, <1>8 DEF RaceInv

\* stop() removes the handler.
LEMMA StopRevokeInv ==
  ASSUME RaceInv, NEW c \in Controllers, StopRevoke(c)
  PROVE  RaceInv'
<1>1. /\ Goto(c, "barrier") /\ "barrier" \in Places
      /\ pc[c] = "revoke" /\ arriving' = FALSE
      /\ UNCHANGED <<running, frames, sequence, error, lifecycle, after, calls, built, session,
                     open, callback, at, origin>>
  BY DEF StopRevoke, From, Places, resourceVars, callbackVars
<1>2. /\ pc' \in [Controllers -> Places] /\ pc'[c] = "barrier"
      /\ \A d \in Controllers \ {c} : pc'[d] = pc[d]
  BY <1>1, ControllerMoves DEF RaceInv
<1>3. \A d \in Controllers : lifecycle' = d <=> pc'[d] \in InLifecycle
  BY <1>1, LifecycleStays DEF RaceInv, InLifecycle
<1>4. TypeOK'
  BY <1>1, <1>2, <1>3 DEF RaceInv, TypeOK, MutexesHeld, Acquire, Release
<1>5. OnlyOwnerStarts'
  BY <1>1, <1>2 DEF RaceInv, OnlyOwnerStarts, TypeOK
<1>6. RunningOnlyWhenUp'
  BY <1>1, <1>2, CaptureAssumption
     DEF RaceInv, RunningOnlyWhenUp, OnlyOwnerStarts, MutexesHeld, InLifecycle, TypeOK
<1>7. UsingOnlyWhenUp'
  BY <1>1, <1>2, CaptureAssumption DEF RaceInv, UsingOnlyWhenUp, OnlyOwnerStarts, Exclusive, TypeOK
<1>8. DownIsQuiet'
  BY <1>1, <1>2 DEF RaceInv, DownIsQuiet, TypeOK
<1>9. QED
  BY <1>4, <1>5, <1>6, <1>7, <1>8 DEF RaceInv

\* stop() passes through callback_mutex: from here on no callback works on the capture.
LEMMA StopBarrierInv ==
  ASSUME RaceInv, NEW c \in Controllers, StopBarrier(c)
  PROVE  RaceInv'
<1>1. /\ Goto(c, "close") /\ "close" \in Places
      /\ pc[c] = "barrier"
      /\ \A t \in Callbacks : at[t] # "using"
      /\ UNCHANGED <<running, frames, sequence, error, lifecycle, after, calls, built, session,
                     open, arriving, callback, at, origin>>
  BY CaptureAssumption
     DEF StopBarrier, From, Places, RaceInv, TypeOK, MutexesHeld, InCallback, resourceVars,
         callbackVars
<1>2. /\ pc' \in [Controllers -> Places] /\ pc'[c] = "close"
      /\ \A d \in Controllers \ {c} : pc'[d] = pc[d]
  BY <1>1, ControllerMoves DEF RaceInv
<1>3. \A d \in Controllers : lifecycle' = d <=> pc'[d] \in InLifecycle
  BY <1>1, LifecycleStays DEF RaceInv, InLifecycle
<1>4. TypeOK'
  BY <1>1, <1>2, <1>3 DEF RaceInv, TypeOK, MutexesHeld, Acquire, Release
<1>5. OnlyOwnerStarts'
  BY <1>1, <1>2 DEF RaceInv, OnlyOwnerStarts, TypeOK
<1>6. RunningOnlyWhenUp'
  BY <1>1, <1>2, CaptureAssumption
     DEF RaceInv, RunningOnlyWhenUp, OnlyOwnerStarts, MutexesHeld, InLifecycle, TypeOK
<1>7. UsingOnlyWhenUp'
  BY <1>1, <1>2, CaptureAssumption DEF RaceInv, UsingOnlyWhenUp, OnlyOwnerStarts, Exclusive, TypeOK
<1>8. DownIsQuiet'
  BY <1>1, <1>2 DEF RaceInv, DownIsQuiet, TypeOK
<1>9. QED
  BY <1>4, <1>5, <1>6, <1>7, <1>8 DEF RaceInv

\* stop() closes the pool and the session.
LEMMA StopCloseInv ==
  ASSUME RaceInv, NEW c \in Controllers, StopClose(c)
  PROVE  RaceInv'
<1>1. /\ Goto(c, "clear") /\ "clear" \in Places
      /\ pc[c] = "close" /\ open' = 0
      /\ UNCHANGED <<running, frames, sequence, error, lifecycle, after, calls, built, session,
                     arriving, callback, at, origin>>
  BY DEF StopClose, From, Places, resourceVars, callbackVars
<1>2. /\ pc' \in [Controllers -> Places] /\ pc'[c] = "clear"
      /\ \A d \in Controllers \ {c} : pc'[d] = pc[d]
  BY <1>1, ControllerMoves DEF RaceInv
<1>3. \A d \in Controllers : lifecycle' = d <=> pc'[d] \in InLifecycle
  BY <1>1, LifecycleStays DEF RaceInv, InLifecycle
<1>4. TypeOK'
  BY <1>1, <1>2, <1>3 DEF RaceInv, TypeOK, MutexesHeld, Acquire, Release
<1>5. OnlyOwnerStarts'
  BY <1>1, <1>2 DEF RaceInv, OnlyOwnerStarts, TypeOK
<1>6. RunningOnlyWhenUp'
  BY <1>1, <1>2, CaptureAssumption
     DEF RaceInv, RunningOnlyWhenUp, OnlyOwnerStarts, MutexesHeld, InLifecycle, TypeOK
<1>7. UsingOnlyWhenUp'
  BY <1>1, <1>2, CaptureAssumption DEF RaceInv, UsingOnlyWhenUp, OnlyOwnerStarts, Exclusive, TypeOK
<1>8. DownIsQuiet'
  BY <1>1, <1>2 DEF RaceInv, DownIsQuiet, TypeOK
<1>9. QED
  BY <1>4, <1>5, <1>6, <1>7, <1>8 DEF RaceInv

\* stop() clears the rest and gives lifecycle_mutex back.
LEMMA StopClearInv ==
  ASSUME RaceInv, NEW c \in Controllers, StopClear(c)
  PROVE  RaceInv'
<1>0. /\ after[c] \in {"idle", "prepare"} /\ StopClear(c)
      /\ frames' \in [queue : Seq(CapturedFrames), closed : {FALSE}] /\ frames'.queue = <<>>
      /\ ~arriving
      /\ lifecycle = c /\ \A d \in Controllers \ {c} : pc[d] \notin {"run", "capture"}
  <2>1. frames' = [queue |-> <<>>, closed |-> FALSE]
    BY DEF StopClear, Reset, RaceInv, TypeOK
  <2>2. pc[c] = "clear"
    BY DEF StopClear, From
  <2>3. ~arriving
    BY <2>2 DEF RaceInv, DownIsQuiet
  <2>4. lifecycle = c /\ \A d \in Controllers \ {c} : pc[d] \notin {"run", "capture"}
    BY <2>2 DEF RaceInv, TypeOK, MutexesHeld, InLifecycle
  <2>5. QED
    BY <2>1, <2>3, <2>4 DEF RaceInv, TypeOK
<1>1. CASE after[c] = "idle"
  <2>1. /\ Goto(c, "idle") /\ "idle" \in Places
        /\ "idle" \notin InLifecycle /\ lifecycle = c
        /\ \A d \in Controllers \ {c} : pc[d] \notin {"run", "capture"}
        /\ pc[c] = "clear"
        /\ built' = FALSE /\ sequence' = 0 /\ ~arriving
        /\ frames' \in [queue : Seq(CapturedFrames), closed : {FALSE}] /\ frames'.queue = <<>>
        /\ Release
        /\ UNCHANGED <<running, error, after, calls, session, open, arriving,
                     callback, at, origin>>
    BY <1>0, <1>1
       DEF StopClear, From, Goto, Places, InLifecycle, RaceInv, TypeOK, resourceVars,
           callbackVars
  <2>2. /\ pc' \in [Controllers -> Places] /\ pc'[c] = "idle"
        /\ \A d \in Controllers \ {c} : pc'[d] = pc[d]
    BY <2>1, ControllerMoves DEF RaceInv
  <2>3. \A d \in Controllers : lifecycle' = d <=> pc'[d] \in InLifecycle
    BY <2>1, LifecycleReleased DEF RaceInv
  <2>4. TypeOK'
    BY <2>1, <2>2, <2>3 DEF RaceInv, TypeOK, MutexesHeld, Acquire, Release
  <2>5. OnlyOwnerStarts'
    BY <2>1, <2>2 DEF RaceInv, OnlyOwnerStarts, TypeOK
  <2>6. RunningOnlyWhenUp'
    BY <2>1, <2>2, CaptureAssumption
       DEF RaceInv, RunningOnlyWhenUp, OnlyOwnerStarts, MutexesHeld, InLifecycle, TypeOK
  <2>7. UsingOnlyWhenUp'
    BY <2>1, <2>2, CaptureAssumption
       DEF RaceInv, UsingOnlyWhenUp, OnlyOwnerStarts, Exclusive, TypeOK
  <2>8. DownIsQuiet'
    BY <2>1, <2>2 DEF RaceInv, DownIsQuiet, TypeOK
  <2>9. QED
    BY <2>4, <2>5, <2>6, <2>7, <2>8 DEF RaceInv
<1>2. CASE after[c] = "prepare"
  <2>1. /\ Goto(c, "prepare") /\ "prepare" \in Places
        /\ "prepare" \notin InLifecycle /\ lifecycle = c
        /\ \A d \in Controllers \ {c} : pc[d] \notin {"run", "capture"}
        /\ pc[c] = "clear"
        /\ built' = FALSE /\ sequence' = 0 /\ ~arriving
        /\ frames' \in [queue : Seq(CapturedFrames), closed : {FALSE}] /\ frames'.queue = <<>>
        /\ Release
        /\ UNCHANGED <<running, error, after, calls, session, open, arriving,
                     callback, at, origin>>
        /\ c = Owner
        /\ ~running /\ \A t \in Callbacks : at[t] # "using"
    BY <1>0, <1>2
       DEF StopClear, From, Goto, Places, InLifecycle, RaceInv, TypeOK, OnlyOwnerStarts,
           RunningOnlyWhenUp, UsingOnlyWhenUp, Exclusive,
         resourceVars, callbackVars
  <2>2. /\ pc' \in [Controllers -> Places] /\ pc'[c] = "prepare"
        /\ \A d \in Controllers \ {c} : pc'[d] = pc[d]
    BY <2>1, ControllerMoves DEF RaceInv
  <2>3. \A d \in Controllers : lifecycle' = d <=> pc'[d] \in InLifecycle
    BY <2>1, LifecycleReleased DEF RaceInv
  <2>4. TypeOK'
    BY <2>1, <2>2, <2>3 DEF RaceInv, TypeOK, MutexesHeld, Acquire, Release
  <2>5. OnlyOwnerStarts'
    BY <2>1, <2>2 DEF RaceInv, OnlyOwnerStarts, TypeOK
  <2>6. RunningOnlyWhenUp'
    BY <2>1, <2>2, CaptureAssumption
       DEF RaceInv, RunningOnlyWhenUp, OnlyOwnerStarts, MutexesHeld, InLifecycle, TypeOK
  <2>7. UsingOnlyWhenUp'
    BY <2>1, <2>2, CaptureAssumption
       DEF RaceInv, UsingOnlyWhenUp, OnlyOwnerStarts, Exclusive, TypeOK
  <2>8. DownIsQuiet'
    BY <2>1, <2>2 DEF RaceInv, DownIsQuiet, TypeOK
  <2>9. QED
    BY <2>4, <2>5, <2>6, <2>7, <2>8 DEF RaceInv
<1>3. QED
  BY <1>0, <1>1, <1>2

\* start() finds the capture not running and calls stop() first.
LEMMA StartCallInv ==
  ASSUME RaceInv, NEW c \in Controllers, Start(c)
  PROVE  RaceInv'
<1>1. /\ Goto(c, "stop") /\ "stop" \in Places
      /\ pc[c] = "idle" /\ after' \in [Controllers -> {"idle", "prepare"}] /\ c = Owner /\ ~running
      /\ after'[c] = "prepare" /\ \A d \in Controllers \ {c} : after'[d] = after[d]
      /\ calls' \in Nat
      /\ UNCHANGED <<running, frames, sequence, error, lifecycle, built, session, open, arriving,
                     callback, at, origin>>
  BY DEF Start, CallStop, Places, RaceInv, TypeOK, resourceVars, callbackVars
<1>2. /\ pc' \in [Controllers -> Places] /\ pc'[c] = "stop"
      /\ \A d \in Controllers \ {c} : pc'[d] = pc[d]
  BY <1>1, ControllerMoves DEF RaceInv
<1>3. \A d \in Controllers : lifecycle' = d <=> pc'[d] \in InLifecycle
  BY <1>1, LifecycleStays DEF RaceInv, InLifecycle
<1>4. TypeOK'
  BY <1>1, <1>2, <1>3 DEF RaceInv, TypeOK, MutexesHeld, Acquire, Release
<1>5. OnlyOwnerStarts'
  BY <1>1, <1>2 DEF RaceInv, OnlyOwnerStarts, TypeOK
<1>6. RunningOnlyWhenUp'
  BY <1>1, <1>2, CaptureAssumption
     DEF RaceInv, RunningOnlyWhenUp, OnlyOwnerStarts, MutexesHeld, InLifecycle, TypeOK
<1>7. UsingOnlyWhenUp'
  BY <1>1, <1>2, CaptureAssumption DEF RaceInv, UsingOnlyWhenUp, OnlyOwnerStarts, Exclusive, TypeOK
<1>8. DownIsQuiet'
  BY <1>1, <1>2 DEF RaceInv, DownIsQuiet, TypeOK
<1>9. QED
  BY <1>4, <1>5, <1>6, <1>7, <1>8 DEF RaceInv

\* start() takes lifecycle_mutex and empties the queue, unless the window is gone.
LEMMA StartPrepareInv ==
  ASSUME RaceInv, NEW c \in Controllers, StartPrepare(c)
  PROVE  RaceInv'
<1>1. CASE /\ StartPrepare(c) /\ From(c, "prepare", "idle")
           /\ UNCHANGED <<frames, sequence, lifecycle>>
  <2>1. /\ Goto(c, "idle") /\ "idle" \in Places
        /\ pc[c] = "prepare"
        /\ UNCHANGED <<running, frames, sequence, error, lifecycle, after, calls, built, session,
                     open, arriving, callback, at, origin>>
    BY <1>1
       DEF StartPrepare, From, Goto, Reset, Places, InLifecycle, Acquire, RaceInv, TypeOK,
           resourceVars, callbackVars
  <2>2. /\ pc' \in [Controllers -> Places] /\ pc'[c] = "idle"
        /\ \A d \in Controllers \ {c} : pc'[d] = pc[d]
    BY <2>1, ControllerMoves DEF RaceInv
  <2>3. \A d \in Controllers : lifecycle' = d <=> pc'[d] \in InLifecycle
    BY <2>1, LifecycleStays DEF RaceInv, InLifecycle
  <2>4. TypeOK'
    BY <2>1, <2>2, <2>3 DEF RaceInv, TypeOK, MutexesHeld, Acquire, Release
  <2>5. OnlyOwnerStarts'
    BY <2>1, <2>2 DEF RaceInv, OnlyOwnerStarts, TypeOK
  <2>6. RunningOnlyWhenUp'
    BY <2>1, <2>2, CaptureAssumption
       DEF RaceInv, RunningOnlyWhenUp, OnlyOwnerStarts, MutexesHeld, InLifecycle, TypeOK
  <2>7. UsingOnlyWhenUp'
    BY <2>1, <2>2, CaptureAssumption
       DEF RaceInv, UsingOnlyWhenUp, OnlyOwnerStarts, Exclusive, TypeOK
  <2>8. DownIsQuiet'
    BY <2>1, <2>2 DEF RaceInv, DownIsQuiet, TypeOK
  <2>9. QED
    BY <2>4, <2>5, <2>6, <2>7, <2>8 DEF RaceInv
<1>2. CASE /\ StartPrepare(c) /\ From(c, "prepare", "build") /\ Acquire(c)
           /\ frames' = Reset(frames) /\ sequence' = 0
  <2>1. /\ Goto(c, "build") /\ "build" \in Places
        /\ "build" \in InLifecycle
        /\ pc[c] = "prepare" /\ Acquire(c) /\ c = Owner
        /\ frames' = [queue |-> <<>>, closed |-> FALSE] /\ sequence' = 0
        /\ UNCHANGED <<running, error, after, calls, built, session, open, arriving,
                     callback, at, origin>>
    BY <1>2
       DEF StartPrepare, From, Goto, Reset, Places, InLifecycle, Acquire, RaceInv, TypeOK,
           OnlyOwnerStarts,
         resourceVars, callbackVars
  <2>2. /\ pc' \in [Controllers -> Places] /\ pc'[c] = "build"
        /\ \A d \in Controllers \ {c} : pc'[d] = pc[d]
    BY <2>1, ControllerMoves DEF RaceInv
  <2>3. \A d \in Controllers : lifecycle' = d <=> pc'[d] \in InLifecycle
    BY <2>1, LifecycleTaken DEF RaceInv
  <2>4. TypeOK'
    BY <2>1, <2>2, <2>3 DEF RaceInv, TypeOK, MutexesHeld, Acquire, Release
  <2>5. OnlyOwnerStarts'
    BY <2>1, <2>2 DEF RaceInv, OnlyOwnerStarts, TypeOK
  <2>6. RunningOnlyWhenUp'
    BY <2>1, <2>2, CaptureAssumption
       DEF RaceInv, RunningOnlyWhenUp, OnlyOwnerStarts, MutexesHeld, InLifecycle, TypeOK
  <2>7. UsingOnlyWhenUp'
    BY <2>1, <2>2, CaptureAssumption
       DEF RaceInv, UsingOnlyWhenUp, OnlyOwnerStarts, Exclusive, TypeOK
  <2>8. DownIsQuiet'
    BY <2>1, <2>2 DEF RaceInv, DownIsQuiet, TypeOK
  <2>9. QED
    BY <2>4, <2>5, <2>6, <2>7, <2>8 DEF RaceInv
<1>3. QED
  BY <1>1, <1>2 DEF StartPrepare

\* start() builds the capture, or fails and calls stop().
LEMMA StartBuildInv ==
  ASSUME RaceInv, NEW c \in Controllers, StartBuild(c)
  PROVE  RaceInv'
<1>1. CASE StartBuild(c) /\ Goto(c, "run") /\ BuildPool /\ UNCHANGED <<lifecycle, after>>
  <2>1. /\ Goto(c, "run") /\ "run" \in Places
        /\ pc[c] = "build" /\ c = Owner
        /\ session' \in Nat /\ open' \in Nat /\ built' = TRUE
        /\ UNCHANGED <<running, frames, sequence, error, lifecycle, after, calls, arriving,
                     callback, at, origin>>
    BY <1>1 DEF StartBuild, BuildPool, From, Goto, Places, InLifecycle, RaceInv, TypeOK,
         MutexesHeld, OnlyOwnerStarts, resourceVars, callbackVars
  <2>2. /\ pc' \in [Controllers -> Places] /\ pc'[c] = "run"
        /\ \A d \in Controllers \ {c} : pc'[d] = pc[d]
    BY <2>1, ControllerMoves DEF RaceInv
  <2>3. \A d \in Controllers : lifecycle' = d <=> pc'[d] \in InLifecycle
    BY <2>1, LifecycleStays DEF RaceInv, InLifecycle
  <2>4. TypeOK'
    BY <2>1, <2>2, <2>3 DEF RaceInv, TypeOK, MutexesHeld, Acquire, Release
  <2>5. OnlyOwnerStarts'
    BY <2>1, <2>2 DEF RaceInv, OnlyOwnerStarts, TypeOK
  <2>6. RunningOnlyWhenUp'
    BY <2>1, <2>2, CaptureAssumption
       DEF RaceInv, RunningOnlyWhenUp, OnlyOwnerStarts, MutexesHeld, InLifecycle, TypeOK
  <2>7. UsingOnlyWhenUp'
    BY <2>1, <2>2, CaptureAssumption
       DEF RaceInv, UsingOnlyWhenUp, OnlyOwnerStarts, Exclusive, TypeOK
  <2>8. DownIsQuiet'
    BY <2>1, <2>2 DEF RaceInv, DownIsQuiet, TypeOK
  <2>9. QED
    BY <2>4, <2>5, <2>6, <2>7, <2>8 DEF RaceInv
<1>2. CASE /\ StartBuild(c) /\ StartFails(c)
           /\ BuildPool \/ UNCHANGED <<session, open, built>>
  <2>1. /\ Goto(c, "stop") /\ "stop" \in Places
        /\ "stop" \notin InLifecycle /\ lifecycle = c
        /\ pc[c] = "build"
        /\ after' \in [Controllers -> {"idle", "prepare"}] /\ Release
        /\ after'[c] = "idle" /\ \A d \in Controllers \ {c} : after'[d] = after[d]
        /\ session' \in Nat /\ open' \in Nat /\ built' \in BOOLEAN /\ (built => built')
        /\ UNCHANGED <<running, frames, sequence, error, calls, arriving, callback, at, origin>>
    <3>1. session' \in Nat /\ open' \in Nat /\ built' \in BOOLEAN /\ (built => built')
      <4>1. session \in Nat /\ open \in Nat /\ built \in BOOLEAN
        BY DEF RaceInv, TypeOK
      <4>2. CASE BuildPool
        BY <4>1, <4>2 DEF BuildPool
      <4>3. CASE UNCHANGED <<session, open, built>>
        BY <4>1, <4>3
      <4>4. QED
        BY <1>2, <4>2, <4>3
    <3>2. QED
      BY <1>2, <3>1
         DEF StartBuild, StartFails, CallStop, Release, Goto, Places, InLifecycle, RaceInv,
             TypeOK, MutexesHeld, callbackVars
  <2>2. /\ pc' \in [Controllers -> Places] /\ pc'[c] = "stop"
        /\ \A d \in Controllers \ {c} : pc'[d] = pc[d]
    BY <2>1, ControllerMoves DEF RaceInv
  <2>3. \A d \in Controllers : lifecycle' = d <=> pc'[d] \in InLifecycle
    BY <2>1, LifecycleReleased DEF RaceInv
  <2>4. TypeOK'
    BY <2>1, <2>2, <2>3 DEF RaceInv, TypeOK, MutexesHeld, Acquire, Release
  <2>5. OnlyOwnerStarts'
    BY <2>1, <2>2 DEF RaceInv, OnlyOwnerStarts, TypeOK
  <2>6. RunningOnlyWhenUp'
    BY <2>1, <2>2, CaptureAssumption
       DEF RaceInv, RunningOnlyWhenUp, OnlyOwnerStarts, MutexesHeld, InLifecycle, TypeOK
  <2>7. UsingOnlyWhenUp'
    BY <2>1, <2>2, CaptureAssumption
       DEF RaceInv, UsingOnlyWhenUp, OnlyOwnerStarts, Exclusive, TypeOK
  <2>8. DownIsQuiet'
    BY <2>1, <2>2 DEF RaceInv, DownIsQuiet, TypeOK
  <2>9. QED
    BY <2>4, <2>5, <2>6, <2>7, <2>8 DEF RaceInv
<1>3. QED
  BY <1>1, <1>2 DEF StartBuild

\* start() sets running.
LEMMA StartRunningInv ==
  ASSUME RaceInv, NEW c \in Controllers, StartRunning(c)
  PROVE  RaceInv'
<1>1. /\ Goto(c, "capture") /\ "capture" \in Places
      /\ pc[c] = "run" /\ c = Owner /\ running' = TRUE /\ built /\ lifecycle = c
      /\ UNCHANGED <<frames, sequence, error, lifecycle, after, calls, built, session, open,
                     arriving, callback, at, origin>>
  BY DEF StartRunning, From, Places, InLifecycle, RaceInv, TypeOK, MutexesHeld, OnlyOwnerStarts,
         DownIsQuiet, resourceVars, callbackVars
<1>2. /\ pc' \in [Controllers -> Places] /\ pc'[c] = "capture"
      /\ \A d \in Controllers \ {c} : pc'[d] = pc[d]
  BY <1>1, ControllerMoves DEF RaceInv
<1>3. \A d \in Controllers : lifecycle' = d <=> pc'[d] \in InLifecycle
  BY <1>1, LifecycleStays DEF RaceInv, InLifecycle
<1>4. TypeOK'
  BY <1>1, <1>2, <1>3 DEF RaceInv, TypeOK, MutexesHeld, Acquire, Release
<1>5. OnlyOwnerStarts'
  BY <1>1, <1>2 DEF RaceInv, OnlyOwnerStarts, TypeOK
<1>6. RunningOnlyWhenUp'
  BY <1>1, <1>2, CaptureAssumption
     DEF RaceInv, RunningOnlyWhenUp, OnlyOwnerStarts, MutexesHeld, InLifecycle, TypeOK
<1>7. UsingOnlyWhenUp'
  BY <1>1, <1>2, CaptureAssumption DEF RaceInv, UsingOnlyWhenUp, OnlyOwnerStarts, Exclusive, TypeOK
<1>8. DownIsQuiet'
  BY <1>1, <1>2 DEF RaceInv, DownIsQuiet, TypeOK
<1>9. QED
  BY <1>4, <1>5, <1>6, <1>7, <1>8 DEF RaceInv

\* start() starts the capture, or fails and calls stop().
LEMMA StartCaptureInv ==
  ASSUME RaceInv, NEW c \in Controllers, StartCapture(c)
  PROVE  RaceInv'
<1>1. CASE StartCapture(c) /\ Goto(c, "idle") /\ Release /\ arriving' = TRUE /\ UNCHANGED after
  <2>1. /\ Goto(c, "idle") /\ "idle" \in Places
        /\ "idle" \notin InLifecycle /\ lifecycle = c
        /\ pc[c] = "capture" /\ Release /\ arriving' = TRUE /\ built
        /\ \A d \in Controllers : pc[d] \notin {"barrier", "close", "clear"}
        /\ UNCHANGED <<running, frames, sequence, error, after, calls, built, session, open,
                     callback, at, origin>>
    BY <1>1
       DEF StartCapture, StartFails, CallStop, Release, From, Goto, Places, InLifecycle,
           RaceInv, TypeOK,
         MutexesHeld, OnlyOwnerStarts, resourceVars, callbackVars, DownIsQuiet
  <2>2. /\ pc' \in [Controllers -> Places] /\ pc'[c] = "idle"
        /\ \A d \in Controllers \ {c} : pc'[d] = pc[d]
    BY <2>1, ControllerMoves DEF RaceInv
  <2>3. \A d \in Controllers : lifecycle' = d <=> pc'[d] \in InLifecycle
    BY <2>1, LifecycleReleased DEF RaceInv
  <2>4. TypeOK'
    BY <2>1, <2>2, <2>3 DEF RaceInv, TypeOK, MutexesHeld, Acquire, Release
  <2>5. OnlyOwnerStarts'
    BY <2>1, <2>2 DEF RaceInv, OnlyOwnerStarts, TypeOK
  <2>6. RunningOnlyWhenUp'
    BY <2>1, <2>2, CaptureAssumption
       DEF RaceInv, RunningOnlyWhenUp, OnlyOwnerStarts, MutexesHeld, InLifecycle, TypeOK
  <2>7. UsingOnlyWhenUp'
    BY <2>1, <2>2, CaptureAssumption
       DEF RaceInv, UsingOnlyWhenUp, OnlyOwnerStarts, Exclusive, TypeOK
  <2>8. DownIsQuiet'
    BY <2>1, <2>2 DEF RaceInv, DownIsQuiet, TypeOK
  <2>9. QED
    BY <2>4, <2>5, <2>6, <2>7, <2>8 DEF RaceInv
<1>2. CASE StartCapture(c) /\ StartFails(c) /\ UNCHANGED arriving
  <2>1. /\ Goto(c, "stop") /\ "stop" \in Places
        /\ "stop" \notin InLifecycle /\ lifecycle = c
        /\ pc[c] = "capture"
        /\ after' \in [Controllers -> {"idle", "prepare"}] /\ Release
        /\ after'[c] = "idle" /\ \A d \in Controllers \ {c} : after'[d] = after[d]
        /\ UNCHANGED <<running, frames, sequence, error, calls, built, session, open, arriving,
                     callback, at, origin>>
    BY <1>2
       DEF StartCapture, StartFails, CallStop, Release, From, Goto, Places, InLifecycle,
           RaceInv, TypeOK,
         MutexesHeld, OnlyOwnerStarts, resourceVars, callbackVars
  <2>2. /\ pc' \in [Controllers -> Places] /\ pc'[c] = "stop"
        /\ \A d \in Controllers \ {c} : pc'[d] = pc[d]
    BY <2>1, ControllerMoves DEF RaceInv
  <2>3. \A d \in Controllers : lifecycle' = d <=> pc'[d] \in InLifecycle
    BY <2>1, LifecycleReleased DEF RaceInv
  <2>4. TypeOK'
    BY <2>1, <2>2, <2>3 DEF RaceInv, TypeOK, MutexesHeld, Acquire, Release
  <2>5. OnlyOwnerStarts'
    BY <2>1, <2>2 DEF RaceInv, OnlyOwnerStarts, TypeOK
  <2>6. RunningOnlyWhenUp'
    BY <2>1, <2>2, CaptureAssumption
       DEF RaceInv, RunningOnlyWhenUp, OnlyOwnerStarts, MutexesHeld, InLifecycle, TypeOK
  <2>7. UsingOnlyWhenUp'
    BY <2>1, <2>2, CaptureAssumption
       DEF RaceInv, UsingOnlyWhenUp, OnlyOwnerStarts, Exclusive, TypeOK
  <2>8. DownIsQuiet'
    BY <2>1, <2>2 DEF RaceInv, DownIsQuiet, TypeOK
  <2>9. QED
    BY <2>4, <2>5, <2>6, <2>7, <2>8 DEF RaceInv
<1>3. QED
  BY <1>1, <1>2 DEF StartCapture

\* What every step of a callback leaves alone.
OnlyCallback ==
    UNCHANGED <<lifecycle, pc, after, calls, built, session, open, arriving>>

CallbackPlaces == {"idle", "waiting", "fetching", "checking", "using"}

\* A callback thread moves; callback_mutex follows it in and out.
LEMMA CallbackMoves ==
  ASSUME RaceInv, NEW t \in Callbacks, NEW place, NEW next \in CallbackPlaces,
         Move(t, place, next),
         \/ callback' = callback /\ (place \in InCallback <=> next \in InCallback)
         \/ callback = Nobody /\ callback' = t /\ next \in InCallback
         \/ callback' = Nobody /\ place \in InCallback /\ next \notin InCallback
  PROVE  /\ at' \in [Callbacks -> CallbackPlaces]
         /\ at'[t] = next
         /\ \A u \in Callbacks \ {t} : at'[u] = at[u]
         /\ callback' \in Callbacks \cup {Nobody}
         /\ \A u \in Callbacks : callback' = u <=> at'[u] \in InCallback
<1>1. /\ at' \in [Callbacks -> CallbackPlaces]
      /\ at[t] = place /\ at'[t] = next
      /\ \A u \in Callbacks \ {t} : at'[u] = at[u]
  BY DEF RaceInv, TypeOK, Move, CallbackPlaces
<1>2. /\ callback \in Callbacks \cup {Nobody} /\ Nobody \notin Callbacks
      /\ \A u \in Callbacks : callback = u <=> at[u] \in InCallback
  BY CaptureAssumption DEF RaceInv, TypeOK, MutexesHeld
<1>3. \A u \in Callbacks : callback' = u <=> at'[u] \in InCallback
  <2>1. CASE callback' = callback /\ (place \in InCallback <=> next \in InCallback)
    BY <1>1, <1>2, <2>1
  <2>2. CASE callback = Nobody /\ callback' = t /\ next \in InCallback
    BY <1>1, <1>2, <2>2
  <2>3. CASE callback' = Nobody /\ place \in InCallback /\ next \notin InCallback
    BY <1>1, <1>2, <2>3
  <2>4. QED
    BY <2>1, <2>2, <2>3
<1>4. QED
  BY <1>1, <1>2, <1>3

\* A callback that does not pass the running check, and does not set running,
\* keeps the invariant; so does one that passes it, for running tells it that
\* nobody is at work on the capture.
LEMMA CallbackKeepsInv ==
  ASSUME RaceInv, OnlyCallback, NEW t \in Callbacks,
         at' \in [Callbacks -> CallbackPlaces],
         \A u \in Callbacks \ {t} : at'[u] = at[u],
         callback' \in Callbacks \cup {Nobody},
         \A u \in Callbacks : callback' = u <=> at'[u] \in InCallback,
         at'[t] = "using" => running /\ running' = running,
         running' \in BOOLEAN, running' => running, error' \in BOOLEAN,
         origin' \in [Callbacks -> Nat],
         frames' \in [queue : Seq(CapturedFrames), closed : {FALSE}], sequence' \in Nat,
         built \/ UNCHANGED <<frames, sequence>>
  PROVE  RaceInv'
<1>1. TypeOK'
  BY DEF RaceInv, TypeOK, MutexesHeld, OnlyCallback, CallbackPlaces
<1>2. OnlyOwnerStarts' /\ RunningOnlyWhenUp'
  BY DEF RaceInv, OnlyOwnerStarts, RunningOnlyWhenUp, OnlyCallback
<1>3. UsingOnlyWhenUp'
  <2>1. running => /\ built
                   /\ \A c \in Controllers : pc[c] \notin Exclusive
                   /\ pc[Owner] # "prepare"
    BY DEF RaceInv, RunningOnlyWhenUp, Exclusive
  <2>2. QED
    BY <2>1 DEF RaceInv, UsingOnlyWhenUp, OnlyCallback
<1>4. DownIsQuiet'
  BY DEF RaceInv, DownIsQuiet, OnlyCallback
<1>5. QED
  BY <1>1, <1>2, <1>3, <1>4 DEF RaceInv

\* No step of a callback disturbs the invariant.
LEMMA CallbackInv ==
  ASSUME RaceInv, NEW t \in Callbacks, Arrive(t) \/ CallbackStep(t)
  PROVE  RaceInv'
<1>0. /\ OnlyCallback
      /\ running \in BOOLEAN /\ error \in BOOLEAN /\ sequence \in Nat /\ session \in Nat
      /\ frames \in [queue : Seq(CapturedFrames), closed : {FALSE}]
      /\ origin \in [Callbacks -> Nat]
  BY DEF RaceInv, TypeOK, OnlyCallback, CallbackStep, Arrive, Enter, Fetch, Check, Use,
         controlVars, resourceVars
<1>1. ASSUME SetError \/ UNCHANGED <<error, running>>
      PROVE  running' \in BOOLEAN /\ (running' => running) /\ error' \in BOOLEAN
  <2>1. CASE SetError
    BY <2>1 DEF SetError
  <2>2. CASE error' = error /\ running' = running
    BY <1>0, <2>2
  <2>3. QED
    BY <1>1, <2>1, <2>2
<1> USE DEF InCallback, CallbackPlaces
<1>2. CASE Arrive(t)
  <2>1. /\ Move(t, "idle", "waiting") /\ callback' = callback
        /\ UNCHANGED <<running, frames, sequence, error>>
        /\ origin' \in [Callbacks -> Nat]
    BY <1>0, <1>2 DEF Arrive
  <2>2. QED
    BY <1>0, <2>1, CallbackMoves, CallbackKeepsInv
<1>3. CASE Enter(t)
  <2>1. /\ Move(t, "waiting", "fetching") /\ callback = Nobody /\ callback' = t
        /\ UNCHANGED <<running, frames, sequence, error, origin>>
    BY <1>3 DEF Enter
  <2>2. QED
    BY <1>0, <2>1, CallbackMoves, CallbackKeepsInv
<1>4. ASSUME NEW place \in {"fetching", "checking", "using"}, Leave(t, place),
             running' \in BOOLEAN, running' => running, error' \in BOOLEAN, UNCHANGED origin,
             frames' \in [queue : Seq(CapturedFrames), closed : {FALSE}], sequence' \in Nat,
             built \/ UNCHANGED <<frames, sequence>>
      PROVE  RaceInv'
  <2>1. Move(t, place, "idle") /\ callback' = Nobody
    BY <1>4 DEF Leave
  <2>2. QED
    BY <1>0, <1>4, <2>1, CallbackMoves, CallbackKeepsInv
<1>5. CASE Fetch(t)
  <2>1. CASE Move(t, "fetching", "checking") /\ UNCHANGED <<callback, error, running>>
    <3>1. UNCHANGED <<frames, sequence, origin>>
      BY <1>5 DEF Fetch
    <3>2. QED
      BY <1>0, <2>1, <3>1, CallbackMoves, CallbackKeepsInv
  <2>2. CASE Leave(t, "fetching") /\ (SetError \/ UNCHANGED <<error, running>>)
    <3>1. running' \in BOOLEAN /\ (running' => running) /\ error' \in BOOLEAN
      BY <1>1, <2>2
    <3>2. UNCHANGED <<frames, sequence, origin>>
      BY <1>5 DEF Fetch
    <3>3. QED
      BY <1>0, <1>4, <2>2, <3>1, <3>2
  <2>3. QED
    BY <1>5, <2>1, <2>2 DEF Fetch
<1>6. CASE Check(t)
  <2>1. CASE running /\ Move(t, "checking", "using") /\ UNCHANGED callback
    <3>1. UNCHANGED <<running, frames, sequence, error, origin>>
      BY <1>6 DEF Check
    <3>2. QED
      BY <1>0, <2>1, <3>1, CallbackMoves, CallbackKeepsInv
  <2>2. CASE Leave(t, "checking")
    BY <1>0, <1>4, <1>6, <2>2 DEF Check
  <2>3. QED
    BY <1>6, <2>1, <2>2 DEF Check
<1>7. CASE Use(t)
  <2>1. at[t] = "using" /\ built /\ Leave(t, "using")
    BY <1>7 DEF Use, Leave, Move, RaceInv, UsingOnlyWhenUp
  <2>2. CASE /\ frames' = TryPush(frames, QueueCapacity, Captured(t))
             /\ sequence' = sequence + 1
             /\ UNCHANGED <<error, running>>
    <3>1. Captured(t) \in CapturedFrames
      BY <1>0 DEF Captured, CapturedFrames
    <3>2. frames' \in [queue : Seq(CapturedFrames), closed : {FALSE}]
      <4>1. \/ frames' = frames
            \/ frames' = [queue |-> Append(frames.queue, Captured(t)), closed |-> frames.closed]
        BY <1>0, <2>2 DEF TryPush
      <4>2. Append(frames.queue, Captured(t)) \in Seq(CapturedFrames)
        BY <1>0, <3>1
      <4>3. frames.closed = FALSE
        BY <1>0
      <4>4. CASE frames' = frames
        BY <1>0, <4>4
      <4>5. CASE frames' = [queue |-> Append(frames.queue, Captured(t)), closed |-> frames.closed]
        BY <4>2, <4>3, <4>5
      <4>6. QED
        BY <4>1, <4>4, <4>5
    <3>3. UNCHANGED origin /\ sequence' \in Nat
      BY <1>0, <1>7, <2>2 DEF Use
    <3>4. running' \in BOOLEAN /\ (running' => running) /\ error' \in BOOLEAN
      BY <1>0, <2>2
    <3>5. QED
      BY <1>4, <2>1, <3>2, <3>3, <3>4
  <2>3. CASE (SetError \/ UNCHANGED <<error, running>>) /\ UNCHANGED <<frames, sequence>>
    <3>1. running' \in BOOLEAN /\ (running' => running) /\ error' \in BOOLEAN
      BY <1>1, <2>3
    <3>2. UNCHANGED origin
      BY <1>7 DEF Use
    <3>3. QED
      BY <1>0, <1>4, <2>1, <2>3, <3>1, <3>2
  <2>4. QED
    BY <1>7, <2>2, <2>3 DEF Use
<1>8. QED
  BY <1>2, <1>3, <1>5, <1>6, <1>7 DEF CallbackStep

\* try_receive() only shortens the queue.
LEMMA ReceiveInv ==
  ASSUME RaceInv, Receive
  PROVE  RaceInv'
<1>1. /\ frames \in [queue : Seq(CapturedFrames), closed : {FALSE}] /\ frames.queue # <<>>
      /\ frames' = [queue |-> Tail(frames.queue), closed |-> frames.closed]
      /\ UNCHANGED <<running, sequence, error, lifecycle, pc, after, calls, built, session,
                     open, arriving, callback, at, origin>>
  BY DEF Receive, AfterPop, RaceInv, TypeOK, controlVars, resourceVars, callbackVars
<1>2. Tail(frames.queue) \in Seq(CapturedFrames)
  BY <1>1
<1>3. TypeOK'
  BY <1>1, <1>2 DEF RaceInv, TypeOK, MutexesHeld
<1>4. OnlyOwnerStarts' /\ RunningOnlyWhenUp' /\ UsingOnlyWhenUp' /\ DownIsQuiet'
  BY <1>1 DEF RaceInv, OnlyOwnerStarts, RunningOnlyWhenUp, UsingOnlyWhenUp, DownIsQuiet
<1>5. QED
  BY <1>3, <1>4 DEF RaceInv

\* Every step of a controller, a callback or the reader keeps the invariant.
LEMMA RaceStep == RaceInv /\ [Next]_vars => RaceInv'
<1> SUFFICES ASSUME RaceInv, [Next]_vars
             PROVE  RaceInv'
  OBVIOUS
<1>1. ASSUME NEW c \in Controllers, Stop(c) \/ Start(c) \/ StopStep(c) \/ StartStep(c)
      PROVE  RaceInv'
  BY <1>1, StopCallInv, StopRunningInv, StopRevokeInv, StopBarrierInv, StopCloseInv, StopClearInv,
     StartCallInv, StartPrepareInv, StartBuildInv, StartRunningInv, StartCaptureInv
     DEF StopStep, StartStep
<1>2. CASE UNCHANGED vars
  <2>1. UNCHANGED <<running, frames, sequence, error, lifecycle, pc, after, calls, built, session,
                    open, arriving, callback, at, origin>>
    BY <1>2 DEF vars, controlVars, resourceVars, callbackVars
  <2>2. QED
    BY <2>1 DEF RaceInv, TypeOK, MutexesHeld, OnlyOwnerStarts, RunningOnlyWhenUp,
                UsingOnlyWhenUp, DownIsQuiet
<1>3. QED
  BY <1>1, <1>2, CallbackInv, ReceiveInv DEF Next

\* Both mutexes are held exactly in their critical sections, always.
THEOREM CaptureTypeOK == Spec => []TypeOK
<1>1. RaceInv => TypeOK
  BY DEF RaceInv
<1>2. QED
  BY RaceInit, RaceStep, <1>1, PTL DEF Spec

\* No callback ever works on a capture that is being built or taken down.
THEOREM CaptureRaceFree == Spec => []RaceFree
<1>1. RaceInv => RaceFree
  <2> SUFFICES ASSUME RaceInv, NEW t \in Callbacks, at[t] = "using"
               PROVE  /\ built
                      /\ \A c \in Controllers : pc[c] \notin Exclusive
                      /\ \A u \in Callbacks \ {t} : at[u] # "using"
    BY DEF RaceFree
  <2>1. \A u \in Callbacks \ {t} : at[u] # "using"
    BY DEF RaceInv, TypeOK, MutexesHeld, InCallback
  <2>2. QED
    BY <2>1 DEF RaceInv, UsingOnlyWhenUp
<1>2. QED
  BY RaceInit, RaceStep, <1>1, PTL DEF Spec

\* A capture that was taken down holds nothing and receives nothing.
THEOREM CaptureQuietAfterStop == Spec => []QuietAfterStop
<1>1. RaceInv => QuietAfterStop
  BY DEF RaceInv, TypeOK, RunningOnlyWhenUp, DownIsQuiet, QuietAfterStop
<1>2. QED
  BY RaceInit, RaceStep, <1>1, PTL DEF Spec

-----------------------------------------------------------------------------
(***************************************************************************)
(* A capture without its pool or frames has a controller at work on it.    *)
(***************************************************************************)
\* Where a controller is that leaves behind a capture without its frames arriving:
\* it takes one down, or it has not finished building one.
AtWork == {"stop", "revoke", "barrier", "close", "clear", "run", "capture"}

\* A capture that lacks its pool is just being cleared, and one whose frames do not
\* arrive has a controller at work on it.
WholeInv ==
    /\ open # 0 => built
    /\ \A c \in Controllers : pc[c] = "clear" => open = 0
    /\ built /\ open = 0 => \E c \in Controllers : pc[c] = "clear"
    /\ built /\ ~arriving => \E c \in Controllers : pc[c] \in AtWork

\* A controller moves on, takes something away when it is at work, and never
\* leaves a capture half done.
LEMMA WholeMoves ==
  ASSUME RaceInv, WholeInv, NEW c \in Controllers, NEW place \in Places, Goto(c, place),
         UNCHANGED built, pc[c] # "clear",
         open' = IF place = "clear" THEN 0 ELSE open,
         arriving' = arriving \/ place \in AtWork,
         pc[c] \in AtWork => place \in AtWork
  PROVE  WholeInv'
<1>1. pc'[c] = place /\ \A d \in Controllers \ {c} : pc'[d] = pc[d]
  BY ControllerMoves DEF RaceInv
<1>2. open' # 0 => built'
  BY DEF WholeInv
<1>3. \A d \in Controllers : pc'[d] = "clear" => open' = 0
  BY <1>1 DEF WholeInv
<1>4. built' /\ open' = 0 => \E d \in Controllers : pc'[d] = "clear"
  BY <1>1 DEF WholeInv
<1>5. built' /\ ~arriving' => \E d \in Controllers : pc'[d] \in AtWork
  BY <1>1 DEF WholeInv
<1>6. QED
  BY <1>2, <1>3, <1>4, <1>5 DEF WholeInv

\* The steps of a controller keep a capture whole or gone.
LEMMA WholeController ==
  ASSUME RaceInv, WholeInv, NEW c \in Controllers,
         Stop(c) \/ Start(c) \/ StopStep(c) \/ StartStep(c)
  PROVE  WholeInv'
<1>1. CASE Stop(c) \/ Start(c)
  BY <1>1, WholeMoves DEF Stop, Start, CallStop, Places, AtWork, resourceVars
<1>2. CASE StopRunning(c)
  BY <1>2, WholeMoves DEF StopRunning, From, Places, AtWork, resourceVars
<1>3. CASE StopRevoke(c)
  BY <1>3, WholeMoves DEF StopRevoke, From, Places, AtWork
<1>4. CASE StopBarrier(c)
  BY <1>4, WholeMoves DEF StopBarrier, From, Places, AtWork, resourceVars
<1>5. CASE StopClose(c)
  BY <1>5, WholeMoves DEF StopClose, From, Places, AtWork
<1>6. CASE StopClear(c)
  <2>1. /\ pc[c] = "clear" /\ built' = FALSE /\ UNCHANGED open
        /\ after[c] \in {"idle", "prepare"} /\ Goto(c, after[c])
    BY <1>6 DEF StopClear, From, RaceInv, TypeOK
  <2>2. open' = 0
    BY <2>1 DEF WholeInv
  <2>3. QED
    BY <2>1, <2>2 DEF WholeInv
<1>7. CASE StartPrepare(c)
  <2>1. From(c, "prepare", "idle") \/ From(c, "prepare", "build")
    BY <1>7 DEF StartPrepare
  <2>2. UNCHANGED <<built, open, arriving>>
    BY <1>7 DEF StartPrepare, resourceVars
  <2>3. QED
    BY <2>1, <2>2, WholeMoves DEF From, Places, AtWork
<1>8. CASE StartBuild(c)
  <2>1. /\ pc[c] = "build" /\ UNCHANGED arriving
        /\ Goto(c, "run") \/ Goto(c, "stop")
    BY <1>8 DEF StartBuild, StartFails, CallStop
  <2>2. PICK place \in {"run", "stop"} : Goto(c, place)
    BY <2>1
  <2>3. place \in Places /\ place \in AtWork /\ place # "clear"
    BY DEF Places, AtWork
  <2>4. CASE UNCHANGED <<open, built>>
    BY <2>1, <2>2, <2>3, <2>4, WholeMoves
  <2>5. CASE BuildPool
    <3>1. pc'[c] = place /\ \A d \in Controllers \ {c} : pc'[d] = pc[d]
      BY <2>2, <2>3, ControllerMoves DEF RaceInv
    <3>2. built' /\ open' = session + 1 /\ session \in Nat
      BY <2>5 DEF BuildPool, RaceInv, TypeOK
    <3>3. \A d \in Controllers \ {c} : pc[d] # "clear"
      BY <2>1 DEF RaceInv, TypeOK, MutexesHeld, InLifecycle
    <3>4. \A d \in Controllers : pc'[d] # "clear"
      BY <2>3, <3>1, <3>3
    <3>5. open' # 0
      BY <3>2
    <3>6. \E d \in Controllers : pc'[d] \in AtWork
      BY <2>3, <3>1
    <3>7. QED
      BY <3>2, <3>4, <3>5, <3>6 DEF WholeInv
  <2>6. QED
    BY <1>8, <2>4, <2>5 DEF StartBuild
<1>9. CASE StartRunning(c)
  BY <1>9, WholeMoves DEF StartRunning, From, Places, AtWork, resourceVars
<1>10. CASE StartCapture(c)
  <2>1. pc[c] = "capture" /\ UNCHANGED <<built, open>>
    BY <1>10 DEF StartCapture
  <2>2. CASE Goto(c, "idle") /\ arriving' = TRUE
    <3>1. pc'[c] = "idle" /\ \A d \in Controllers \ {c} : pc'[d] = pc[d]
      BY <2>2, ControllerMoves DEF RaceInv, Places
    <3>2. QED
      BY <2>1, <2>2, <3>1 DEF WholeInv
  <2>3. CASE Goto(c, "stop") /\ UNCHANGED arriving
    BY <2>1, <2>3, WholeMoves DEF Places, AtWork
  <2>4. QED
    BY <1>10, <2>2, <2>3 DEF StartCapture, StartFails, CallStop
<1>11. QED
  BY <1>1, <1>2, <1>3, <1>4, <1>5, <1>6, <1>7, <1>8, <1>9, <1>10 DEF StopStep, StartStep

\* No step leaves a capture half done without somebody at work on it.
LEMMA WholeStep == RaceInv /\ WholeInv /\ [Next]_vars => WholeInv'
<1> SUFFICES ASSUME RaceInv, WholeInv, [Next]_vars
             PROVE  WholeInv'
  OBVIOUS
<1>1. ASSUME UNCHANGED <<pc, built, open, arriving>>
      PROVE  WholeInv'
  BY <1>1 DEF WholeInv
<1>2. CASE \E t \in Callbacks : Arrive(t) \/ CallbackStep(t)
  BY <1>1, <1>2 DEF Arrive, CallbackStep, Enter, Fetch, Check, Use, controlVars, resourceVars
<1>3. CASE Receive \/ UNCHANGED vars
  BY <1>1, <1>3 DEF Receive, vars, controlVars, resourceVars
<1>4. QED
  BY <1>2, <1>3, WholeController DEF Next

-----------------------------------------------------------------------------
(***************************************************************************)
(* The order of the frames.                                                *)
(***************************************************************************)
\* What keeps a callback of an old session from slipping more than the first
\* frame into a new one: it holds callback_mutex from before its pool was closed,
\* so nothing was numbered since; and a pool is built over an empty queue.
StaleComesFirst ==
    /\ open \in {0, session}
    /\ built => session > 0
    /\ \A c \in Controllers : pc[c] \in {"build", "run"} => frames.queue = <<>> /\ sequence = 0
    /\ \A t \in Callbacks : at[t] # "idle" => origin[t] > 0
    /\ \A t \in Callbacks :
          at[t] \in {"checking", "using"} /\ origin[t] # session => sequence = 0

OrderInv == StaleComesFirst /\ FramesInOrder

\* Nothing is captured yet.
LEMMA OrderInit == Init => OrderInv
<1> SUFFICES ASSUME Init
             PROVE  OrderInv
  OBVIOUS
<1>1. frames.queue = <<>> /\ sequence = 0 /\ open = 0 /\ built = FALSE
  BY DEF Init, EmptyQueue
<1>2. /\ \A c \in Controllers : pc[c] = "idle"
      /\ \A t \in Callbacks : at[t] = "idle"
  BY DEF Init
<1>3. StaleComesFirst
  BY <1>1, <1>2 DEF StaleComesFirst
<1>4. FramesInOrder
  BY <1>1 DEF FramesInOrder
<1>5. QED
  BY <1>3, <1>4 DEF OrderInv

\* Steps that neither number a frame nor build a pool.
LEMMA OrderKept ==
  ASSUME OrderInv, UNCHANGED <<session, frames, sequence, at, origin>>,
         open' \in {open, 0}, built' => built,
         \A c \in Controllers : pc'[c] \in {"build", "run"} => pc[c] \in {"build", "run"}
  PROVE  OrderInv'
<1>1. StaleComesFirst'
  BY DEF OrderInv, StaleComesFirst
<1>2. FramesInOrder'
  BY DEF OrderInv, FramesInOrder
<1>3. QED
  BY <1>1, <1>2 DEF OrderInv

\* Steps that empty the queue and start the numbers over.
LEMMA OrderReset ==
  ASSUME OrderInv, frames'.queue = <<>>, sequence' = 0, session' \in Nat,
         open' \in {0, session'}, built' => session' > 0, UNCHANGED <<at, origin>>
  PROVE  OrderInv'
  BY DEF OrderInv, StaleComesFirst, FramesInOrder

\* A controller empties the queue before it builds a pool, and closes a pool only
\* with callback_mutex passed.
LEMMA OrderController ==
  ASSUME RaceInv, OrderInv, NEW c \in Controllers,
         Stop(c) \/ Start(c) \/ StopStep(c) \/ StartStep(c)
  PROVE  OrderInv'
<1>1. ASSUME NEW place \in Places, Goto(c, place), pc[c] \in {"build", "run"} \/ place \notin {"build", "run"},
             UNCHANGED <<session, frames, sequence, at, origin>>, open' \in {open, 0}, built' => built
      PROVE  OrderInv'
  <2>1. pc'[c] = place /\ \A d \in Controllers \ {c} : pc'[d] = pc[d]
    BY <1>1, ControllerMoves DEF RaceInv
  <2>2. QED
    BY <1>1, <2>1, OrderKept
<1>2. /\ frames \in [queue : Seq(CapturedFrames), closed : {FALSE}]
      /\ session \in Nat /\ open \in {0, session} /\ (built => session > 0)
  BY DEF RaceInv, TypeOK, OrderInv, StaleComesFirst
<1>3. CASE Stop(c) \/ Start(c)
  BY <1>1, <1>3 DEF Stop, Start, CallStop, Places, resourceVars, callbackVars
<1>4. CASE StopRunning(c) \/ StopRevoke(c) \/ StopBarrier(c) \/ StopClose(c)
  BY <1>1, <1>4
     DEF StopRunning, StopRevoke, StopBarrier, StopClose, From, Places, resourceVars, callbackVars
<1>5. CASE StopClear(c)
  <2>1. frames'.queue = <<>> /\ sequence' = 0 /\ built' = FALSE
        /\ UNCHANGED <<session, open, at, origin>>
    BY <1>2, <1>5 DEF StopClear, Reset, callbackVars
  <2>2. QED
    BY <1>2, <2>1, OrderReset
<1>6. CASE StartPrepare(c)
  <2>1. CASE From(c, "prepare", "idle") /\ UNCHANGED <<frames, sequence, lifecycle>>
    BY <1>1, <1>6, <2>1 DEF StartPrepare, From, Places, resourceVars, callbackVars
  <2>2. CASE frames' = Reset(frames) /\ sequence' = 0
    <3>1. frames'.queue = <<>> /\ UNCHANGED <<session, open, built, at, origin>>
      BY <1>2, <1>6, <2>2 DEF StartPrepare, Reset, resourceVars, callbackVars
    <3>2. QED
      BY <1>2, <2>2, <3>1, OrderReset
  <2>3. QED
    BY <1>6, <2>1, <2>2 DEF StartPrepare
<1>7. CASE StartBuild(c)
  <2>1. /\ pc[c] = "build" /\ UNCHANGED <<frames, sequence, at, origin>>
        /\ frames.queue = <<>> /\ sequence = 0
    BY <1>7 DEF StartBuild, callbackVars, OrderInv, StaleComesFirst
  <2>2. CASE BuildPool
    <3>1. session' \in Nat /\ session' > 0 /\ open' = session'
      BY <1>2, <2>2 DEF BuildPool
    <3>2. QED
      BY <2>1, <3>1, OrderReset
  <2>3. CASE UNCHANGED <<session, open, built>>
    BY <1>2, <2>1, <2>3, OrderReset
  <2>4. QED
    BY <1>7, <2>2, <2>3 DEF StartBuild
<1>8. CASE StartRunning(c)
  BY <1>1, <1>8 DEF StartRunning, From, Places, resourceVars, callbackVars
<1>9. CASE StartCapture(c)
  <2>1. /\ UNCHANGED <<session, frames, sequence, at, origin, open, built>>
        /\ Goto(c, "idle") \/ Goto(c, "stop")
    BY <1>9 DEF StartCapture, StartFails, CallStop, callbackVars
  <2>2. QED
    BY <1>1, <2>1 DEF Places
<1>10. QED
  BY <1>3, <1>4, <1>5, <1>6, <1>7, <1>8, <1>9 DEF StopStep, StartStep

\* A callback moves and the others stay where they are.
LEMMA ThreadMoves ==
  ASSUME RaceInv, NEW t \in Callbacks, NEW place, NEW next, Move(t, place, next)
  PROVE  at[t] = place /\ at'[t] = next /\ \A u \in Callbacks \ {t} : at'[u] = at[u]
  BY DEF RaceInv, TypeOK, Move

\* While a callback holds callback_mutex no other does.
LEMMA OneCallback ==
  ASSUME RaceInv, NEW t \in Callbacks, at[t] \in InCallback
  PROVE  \A u \in Callbacks \ {t} : at[u] \in {"idle", "waiting"}
<1>1. callback = t /\ \A u \in Callbacks : callback = u <=> at[u] \in InCallback
  BY DEF RaceInv, TypeOK, MutexesHeld
<1>2. \A u \in Callbacks : at[u] \in {"idle", "waiting", "fetching", "checking", "using"}
  BY DEF RaceInv, TypeOK
<1>3. QED
  BY <1>1, <1>2 DEF InCallback

\* Numbering a frame and appending it, if there is room, keeps the queue in order.
LEMMA OrderCaptured ==
  ASSUME RaceInv, FramesInOrder, NEW frame \in CapturedFrames,
         frame.sequence = sequence, frame.session # session => sequence = 0,
         frames' = TryPush(frames, QueueCapacity, frame), sequence' = sequence + 1,
         session' = session
  PROVE  FramesInOrder'
<1> DEFINE held == frames.queue
<1>1. /\ frames \in [queue : Seq(CapturedFrames), closed : {FALSE}] /\ held \in Seq(CapturedFrames)
      /\ sequence \in Nat /\ Len(held) \in Nat
      /\ \A i \in 1 .. Len(held) : held[i].sequence \in Nat
  <2>1. /\ frames \in [queue : Seq(CapturedFrames), closed : {FALSE}]
        /\ sequence \in Nat
    BY DEF RaceInv, TypeOK
  <2>2. held \in Seq(CapturedFrames)
    BY <2>1
  <2>3. Len(held) \in Nat /\ \A i \in 1 .. Len(held) : held[i] \in CapturedFrames
    BY <2>2
  <2>4. QED
    BY <2>1, <2>2, <2>3 DEF CapturedFrames
<1>2. CASE frames' = frames
  <2>1. \A i \in 1 .. Len(held) : held[i].sequence < sequence + 1
    BY <1>1 DEF FramesInOrder
  <2>2. QED
    BY <1>2, <2>1 DEF FramesInOrder
<1>3. CASE frames'.queue = Append(held, frame)
  <2>1. /\ Len(frames'.queue) = Len(held) + 1
        /\ \A i \in 1 .. Len(held) : frames'.queue[i] = held[i]
        /\ frames'.queue[Len(held) + 1] = frame
    BY <1>1, <1>3
  <2>2. ASSUME NEW i \in 1 .. Len(frames'.queue)
        PROVE  \/ i \in 1 .. Len(held) /\ frames'.queue[i] = held[i]
               \/ i = Len(held) + 1 /\ frames'.queue[i] = frame
    BY <1>1, <2>1
  <2>3. ASSUME NEW i \in 1 .. Len(frames'.queue)
        PROVE  /\ frames'.queue[i].sequence < sequence'
               /\ frames'.queue[i].session # session' => frames'.queue[i].sequence = 0
    BY <1>1, <2>2 DEF FramesInOrder
  <2>4. ASSUME NEW i \in 1 .. Len(frames'.queue), NEW j \in 1 .. Len(frames'.queue), i < j
        PROVE  frames'.queue[i].sequence < frames'.queue[j].sequence
    <3>1. i \in 1 .. Len(held) /\ frames'.queue[i] = held[i]
      BY <1>1, <2>1, <2>2, <2>4
    <3>2. CASE j \in 1 .. Len(held) /\ frames'.queue[j] = held[j]
      BY <2>4, <3>1, <3>2 DEF FramesInOrder
    <3>3. CASE frames'.queue[j] = frame
      BY <3>1, <3>3 DEF FramesInOrder
    <3>4. QED
      BY <2>2, <3>2, <3>3
  <2>5. QED
    BY <2>3, <2>4 DEF FramesInOrder
<1>4. frames' = frames \/ frames'.queue = Append(held, frame)
  BY <1>1 DEF TryPush
<1>5. QED
  BY <1>2, <1>3, <1>4

\* A callback numbers a frame of its own pool, which is closed only if it is the
\* stale one.
LEMMA OrderCallback ==
  ASSUME RaceInv, OrderInv, NEW t \in Callbacks, Arrive(t) \/ CallbackStep(t)
  PROVE  OrderInv'
<1>0. /\ UNCHANGED <<pc, built, session, open>>
      /\ session \in Nat /\ origin \in [Callbacks -> Nat]
  BY DEF RaceInv, TypeOK, CallbackStep, Arrive, Enter, Fetch, Check, Use, controlVars, resourceVars
<1>1. ASSUME UNCHANGED <<frames, sequence>>, \A u \in Callbacks \ {t} : at'[u] = at[u] /\ origin'[u] = origin[u],
             at'[t] # "idle" => origin'[t] > 0,
             at'[t] \in {"checking", "using"} /\ origin'[t] # session => sequence = 0
      PROVE  OrderInv'
  <2>1. FramesInOrder'
    BY <1>0, <1>1 DEF OrderInv, FramesInOrder
  <2>2. StaleComesFirst'
    BY <1>0, <1>1 DEF OrderInv, StaleComesFirst
  <2>3. QED
    BY <2>1, <2>2 DEF OrderInv
<1>2. CASE Arrive(t)
  <2>1. /\ at'[t] = "waiting" /\ \A u \in Callbacks \ {t} : at'[u] = at[u]
        /\ origin'[t] = session /\ \A u \in Callbacks \ {t} : origin'[u] = origin[u]
        /\ UNCHANGED <<frames, sequence>>
    BY <1>0, <1>2, ThreadMoves DEF Arrive
  <2>2. session > 0
    BY <1>2 DEF Arrive, RaceInv, DownIsQuiet, OrderInv, StaleComesFirst
  <2>3. QED
    BY <1>1, <2>1, <2>2
<1>3. CASE Enter(t)
  <2>1. /\ at[t] = "waiting" /\ at'[t] = "fetching" /\ \A u \in Callbacks \ {t} : at'[u] = at[u]
        /\ UNCHANGED <<frames, sequence, origin>>
    BY <1>3, ThreadMoves DEF Enter
  <2>2. QED
    BY <1>1, <2>1 DEF OrderInv, StaleComesFirst
<1>4. ASSUME NEW place, Leave(t, place), UNCHANGED <<frames, sequence, origin>>
      PROVE  OrderInv'
  <2>1. at'[t] = "idle" /\ \A u \in Callbacks \ {t} : at'[u] = at[u]
    BY <1>4, ThreadMoves DEF Leave
  <2>2. QED
    BY <1>1, <1>4, <2>1
<1>5. CASE Fetch(t)
  <2>1. CASE Move(t, "fetching", "checking") /\ origin[t] = open
    <3>1. /\ at[t] = "fetching" /\ at'[t] = "checking" /\ \A u \in Callbacks \ {t} : at'[u] = at[u]
          /\ UNCHANGED <<frames, sequence, origin>>
      BY <1>5, <2>1, ThreadMoves DEF Fetch
    <3>2. origin[t] > 0 /\ origin[t] = session
      BY <2>1, <3>1 DEF OrderInv, StaleComesFirst
    <3>3. QED
      BY <1>1, <3>1, <3>2
  <2>2. CASE Leave(t, "fetching")
    BY <1>4, <1>5, <2>2 DEF Fetch
  <2>3. QED
    BY <1>5, <2>1, <2>2 DEF Fetch
<1>6. CASE Check(t)
  <2>1. CASE Move(t, "checking", "using")
    <3>1. /\ at[t] = "checking" /\ at'[t] = "using" /\ \A u \in Callbacks \ {t} : at'[u] = at[u]
          /\ UNCHANGED <<frames, sequence, origin>>
      BY <1>6, <2>1, ThreadMoves DEF Check
    <3>2. QED
      BY <1>1, <3>1 DEF OrderInv, StaleComesFirst
  <2>2. CASE Leave(t, "checking")
    BY <1>4, <1>6, <2>2 DEF Check
  <2>3. QED
    BY <1>6, <2>1, <2>2 DEF Check
<1>7. CASE Use(t)
  <2>1. Leave(t, "using") /\ UNCHANGED origin
    BY <1>7 DEF Use
  <2>2. CASE UNCHANGED <<frames, sequence>>
    BY <1>4, <2>1, <2>2
  <2>3. CASE frames' = TryPush(frames, QueueCapacity, Captured(t)) /\ sequence' = sequence + 1
    <3>1. /\ at[t] = "using" /\ at'[t] = "idle" /\ \A u \in Callbacks \ {t} : at'[u] = at[u]
      BY <2>1, ThreadMoves DEF Leave
    <3>2. \A u \in Callbacks : at'[u] \in {"idle", "waiting"}
      BY <3>1, OneCallback DEF InCallback
    <3>3. /\ Captured(t) \in CapturedFrames /\ Captured(t).sequence = sequence
          /\ Captured(t).session # session => sequence = 0
      BY <1>0, <3>1 DEF Captured, CapturedFrames, RaceInv, TypeOK, OrderInv, StaleComesFirst
    <3>4. FramesInOrder'
      BY <1>0, <2>3, <3>3, OrderCaptured DEF OrderInv
    <3>5. \A c \in Controllers : pc[c] \notin {"build", "run"}
      BY <3>1 DEF RaceInv, UsingOnlyWhenUp, Exclusive
    <3>6. StaleComesFirst'
      BY <1>0, <2>1, <3>1, <3>2, <3>5 DEF OrderInv, StaleComesFirst
    <3>7. QED
      BY <3>4, <3>6 DEF OrderInv
  <2>4. QED
    BY <1>7, <2>2, <2>3 DEF Use
<1>8. QED
  BY <1>2, <1>3, <1>5, <1>6, <1>7 DEF CallbackStep

\* Receiving takes away the oldest frame.
LEMMA OrderReceive ==
  ASSUME RaceInv, OrderInv, Receive
  PROVE  OrderInv'
<1>1. /\ frames.queue \in Seq(CapturedFrames) /\ frames.queue # <<>>
      /\ frames'.queue = Tail(frames.queue)
      /\ UNCHANGED <<sequence, pc, built, session, open, at, origin>>
  <2>1. frames \in [queue : Seq(CapturedFrames), closed : {FALSE}]
    BY DEF RaceInv, TypeOK
  <2>2. QED
    BY <2>1 DEF Receive, AfterPop, controlVars, resourceVars, callbackVars
<1>2. \A i \in 1 .. Len(frames'.queue) :
         i + 1 \in 1 .. Len(frames.queue) /\ frames'.queue[i] = frames.queue[i + 1]
  BY <1>1
<1>3. FramesInOrder'
  <2>1. ASSUME NEW i \in 1 .. Len(frames'.queue), NEW j \in 1 .. Len(frames'.queue), i < j
        PROVE  frames'.queue[i].sequence < frames'.queue[j].sequence
    <3>1. i + 1 < j + 1
      BY <2>1
    <3>2. QED
      BY <1>2, <3>1 DEF OrderInv, FramesInOrder
  <2>2. QED
    BY <1>1, <1>2, <2>1 DEF OrderInv, FramesInOrder
<1>4. \A c \in Controllers : pc[c] \notin {"build", "run"}
  BY <1>1 DEF OrderInv, StaleComesFirst
<1>5. QED
  BY <1>1, <1>3, <1>4 DEF OrderInv, StaleComesFirst

\* Every step keeps the frames in order.
LEMMA OrderStep == RaceInv /\ OrderInv /\ [Next]_vars => OrderInv'
<1> SUFFICES ASSUME RaceInv, OrderInv, [Next]_vars
             PROVE  OrderInv'
  OBVIOUS
<1>1. CASE UNCHANGED vars
  BY <1>1, OrderKept DEF vars, controlVars, resourceVars, callbackVars
<1>2. QED
  BY <1>1, OrderController, OrderCallback, OrderReceive DEF Next

\* Frames wait in the order of their numbers, and a late callback of the session
\* before can only have delivered the very first of them.
THEOREM CaptureFramesInOrder == Spec => []FramesInOrder
<1>1. OrderInv => FramesInOrder
  BY DEF OrderInv
<1>2. QED
  BY RaceInit, RaceStep, OrderInit, OrderStep, <1>1, PTL DEF Spec

-----------------------------------------------------------------------------
(***************************************************************************)
(* Why a capture that is built does not run, and is whole otherwise.       *)
(***************************************************************************)

\* A capture that no longer runs, though nobody stopped it, left an error.
DeathExplained ==
    built /\ ~running => error \/ \E c \in Controllers : pc[c] # "idle"

\* start() leaves with running on, unless a callback has failed already; a stop()
\* that ends leaves nothing built.
DeathInv ==
    /\ DeathExplained
    /\ \A c \in Controllers : pc[c] = "capture" => running \/ error
    /\ pc[Owner] = "prepare" => ~built

\* Only the owner, inside start() or stop(), leaves the capture built and not
\* running without a message.
LEMMA DeathStep == RaceInv /\ DeathInv /\ [Next]_vars => DeathInv'
<1> SUFFICES ASSUME RaceInv, DeathInv, [Next]_vars
             PROVE  DeathInv'
  OBVIOUS
<1>0. Owner \in Controllers
  BY CaptureAssumption
<1>1. ASSUME UNCHANGED <<pc, built>>, error => error', running' = running \/ error'
      PROVE  DeathInv'
  BY <1>1 DEF DeathInv, DeathExplained
<1>2. ASSUME NEW c \in Controllers, NEW place \in Places \ {"idle", "prepare", "capture"},
             Goto(c, place), built' = built \/ pc[Owner] # "prepare", UNCHANGED error,
             running' = running \/ \A d \in Controllers \ {c} : pc[d] # "capture"
      PROVE  DeathInv'
  <2>1. pc'[c] = place /\ \A d \in Controllers \ {c} : pc'[d] = pc[d]
    BY <1>2, ControllerMoves DEF RaceInv
  <2>2. DeathExplained'
    BY <1>2, <2>1 DEF DeathExplained
  <2>3. \A d \in Controllers : pc'[d] = "capture" => running' \/ error'
    BY <1>2, <2>1 DEF DeathInv
  <2>4. pc'[Owner] = "prepare" => ~built'
    BY <1>0, <1>2, <2>1 DEF DeathInv
  <2>5. QED
    BY <2>2, <2>3, <2>4 DEF DeathInv
<1>3. ASSUME NEW c \in Controllers, Stop(c) \/ Start(c) \/ StopStep(c) \/ StartStep(c)
      PROVE  DeathInv'
  <2>1. \A d \in Controllers \ {c} : pc[c] \in InLifecycle => pc[d] \notin InLifecycle
    BY DEF RaceInv, TypeOK, MutexesHeld
  <2>2. pc[Owner] = "prepare" => pc[c] # "build"
    <3>1. c # Owner => pc[c] # "build"
      BY DEF RaceInv, OnlyOwnerStarts
    <3>2. QED
      BY <3>1
  <2>3. CASE Stop(c) \/ Start(c)
    BY <1>2, <2>3 DEF Stop, Start, CallStop, Places, resourceVars
  <2>4. CASE StopRunning(c)
    <3>1. \A d \in Controllers : pc[d] # "capture"
      BY <2>4, CaptureAssumption DEF StopRunning, Acquire, RaceInv, TypeOK, MutexesHeld, InLifecycle
    <3>2. QED
      BY <1>2, <2>4, <3>1 DEF StopRunning, From, Places, resourceVars
  <2>5. CASE StopRevoke(c) \/ StopBarrier(c) \/ StopClose(c)
    BY <1>2, <2>5 DEF StopRevoke, StopBarrier, StopClose, From, Places, resourceVars
  <2>6. CASE StopClear(c)
    <3>1. /\ pc[c] = "clear" /\ built' = FALSE /\ UNCHANGED <<running, error>>
          /\ after[c] \in {"idle", "prepare"} /\ Goto(c, after[c])
      BY <2>6 DEF StopClear, From, RaceInv, TypeOK
    <3>2. \A d \in Controllers \ {c} : pc'[d] = pc[d]
      BY <3>1, ControllerMoves DEF RaceInv, Places
    <3>3. pc'[c] # "capture"
      BY <3>1, ControllerMoves DEF RaceInv, Places
    <3>4. QED
      BY <3>1, <3>2, <3>3 DEF DeathInv, DeathExplained
  <2>7. CASE StartPrepare(c)
    <3>1. CASE From(c, "prepare", "idle")
      <4>1. /\ pc[c] = "prepare" /\ pc'[c] = "idle" /\ UNCHANGED <<running, error, built>>
            /\ \A d \in Controllers \ {c} : pc'[d] = pc[d]
        BY <2>7, <3>1, ControllerMoves DEF StartPrepare, From, RaceInv, Places, resourceVars
      <4>2. ~built
        BY <4>1 DEF DeathInv, RaceInv, OnlyOwnerStarts
      <4>3. QED
        BY <4>1, <4>2 DEF DeathInv, DeathExplained
    <3>2. CASE From(c, "prepare", "build")
      <4>1. Goto(c, "build") /\ UNCHANGED <<running, error, built>>
        BY <2>7, <3>2 DEF StartPrepare, From, resourceVars
      <4>2. "build" \in Places \ {"idle", "prepare", "capture"}
        BY DEF Places
      <4>3. QED
        BY <1>2, <4>1, <4>2
    <3>3. QED
      BY <2>7, <3>1, <3>2 DEF StartPrepare
  <2>8. CASE StartBuild(c)
    <3>1. /\ Goto(c, "run") \/ Goto(c, "stop")
          /\ pc[c] = "build" /\ UNCHANGED <<running, error>>
      BY <2>8 DEF StartBuild, StartFails, CallStop
    <3>2. pc[Owner] # "prepare"
      BY <2>2, <3>1
    <3>3. {"run", "stop"} \subseteq Places \ {"idle", "prepare", "capture"}
      BY DEF Places
    <3>4. ASSUME NEW place \in {"run", "stop"}, Goto(c, place)
          PROVE  DeathInv'
      BY <1>2, <3>1, <3>2, <3>3, <3>4
    <3>5. QED
      BY <3>1, <3>4
  <2>9. CASE StartRunning(c)
    <3>1. /\ pc'[c] = "capture" /\ \A d \in Controllers \ {c} : pc'[d] = pc[d]
          /\ running' = TRUE /\ UNCHANGED <<error, built>>
      BY <2>9, ControllerMoves DEF StartRunning, From, RaceInv, Places, resourceVars
    <3>2. QED
      BY <1>0, <3>1 DEF DeathInv, DeathExplained
  <2>10. CASE StartCapture(c)
    <3>1. CASE Goto(c, "idle")
      <4>1. /\ pc[c] = "capture" /\ pc'[c] = "idle" /\ \A d \in Controllers \ {c} : pc'[d] = pc[d]
            /\ UNCHANGED <<running, error, built>>
        BY <2>10, <3>1, ControllerMoves DEF StartCapture, RaceInv, Places
      <4>2. QED
        BY <1>0, <4>1 DEF DeathInv, DeathExplained
    <3>2. CASE Goto(c, "stop")
      BY <1>2, <2>10, <3>2 DEF StartCapture, Places
    <3>3. QED
      BY <2>10, <3>1, <3>2 DEF StartCapture, StartFails, CallStop
  <2>11. QED
    BY <1>3, <2>3, <2>4, <2>5, <2>6, <2>7, <2>8, <2>9, <2>10 DEF StopStep, StartStep
<1>4. ASSUME NEW t \in Callbacks, Arrive(t) \/ CallbackStep(t)
      PROVE  DeathInv'
  <2>1. UNCHANGED <<pc, built>>
    BY <1>4 DEF Arrive, CallbackStep, Enter, Fetch, Check, Use, controlVars, resourceVars
  <2>2. UNCHANGED <<error, running>> \/ SetError
    BY <1>4 DEF Arrive, CallbackStep, Enter, Fetch, Check, Use
  <2>3. QED
    BY <1>1, <2>1, <2>2 DEF SetError
<1>5. CASE Receive \/ UNCHANGED vars
  BY <1>1, <1>5 DEF Receive, vars, controlVars, resourceVars
<1>6. QED
  BY <1>3, <1>4, <1>5 DEF Next

\* A capture is whole or gone while no call is in progress, however start() and
\* stop() interleave and wherever a start() fails.
THEOREM CaptureWholeOrGone == Spec => []WholeOrGone
<1>1. Init => WholeInv /\ DeathInv
  BY CaptureAssumption DEF Init, WholeInv, DeathInv, DeathExplained
<1>2. RaceInv /\ WholeInv /\ DeathInv => WholeOrGone
  <2> SUFFICES ASSUME RaceInv, WholeInv, DeathInv, \A c \in Controllers : pc[c] = "idle"
               PROVE  IF built THEN open # 0 /\ arriving /\ (running \/ error)
                      ELSE open = 0 /\ ~arriving /\ ~running
    BY DEF WholeOrGone
  <2>1. \A c \in Controllers : pc[c] # "clear" /\ pc[c] \notin AtWork
    BY DEF AtWork
  <2>2. CASE built
    BY <2>1, <2>2 DEF WholeInv, DeathInv, DeathExplained
  <2>3. CASE ~built
    BY <2>3 DEF WholeInv, RaceInv, RunningOnlyWhenUp, DownIsQuiet
  <2>4. QED
    BY <2>2, <2>3
<1>3. QED
  BY RaceInit, RaceStep, WholeStep, DeathStep, <1>1, <1>2, PTL DEF Spec

-----------------------------------------------------------------------------
(***************************************************************************)
(* The capture implements a frame source.                                  *)
(***************************************************************************)

Numbers(queue) == [i \in DOMAIN queue |-> queue[i].sequence]

Live == running \/ \E t \in Callbacks : at[t] = "using"

SourceInv == RaceInv /\ OrderInv

\* The numbers of a queue of frames.
LEMMA NumbersType ==
  ASSUME NEW queue \in Seq(CapturedFrames)
  PROVE  /\ Numbers(queue) \in Seq(Nat) /\ Len(Numbers(queue)) = Len(queue)
         /\ Len(queue) \in Nat
         /\ \A i \in 1 .. Len(queue) : Numbers(queue)[i] = queue[i].sequence
<1>1. /\ DOMAIN queue = 1 .. Len(queue) /\ Len(queue) \in Nat
      /\ \A i \in 1 .. Len(queue) : queue[i] \in CapturedFrames
  OBVIOUS
<1>2. \A f \in CapturedFrames : f.sequence \in Nat
  BY DEF CapturedFrames
<1>3. /\ \A i \in 1 .. Len(queue) : Numbers(queue)[i] = queue[i].sequence
      /\ DOMAIN Numbers(queue) = 1 .. Len(queue)
      /\ Numbers(queue) \in [1 .. Len(queue) -> Nat]
  BY <1>1, <1>2 DEF Numbers
<1>4. QED
  BY <1>1, <1>3

\* A queue is appended to by appending the number.
LEMMA NumbersAppend ==
  ASSUME NEW queue \in Seq(CapturedFrames), NEW frame \in CapturedFrames
  PROVE  Numbers(Append(queue, frame)) = Append(Numbers(queue), frame.sequence)
<1> DEFINE appended == Append(queue, frame)
           numbers == Numbers(queue)
           longer == Append(numbers, frame.sequence)
<1>1. /\ appended \in Seq(CapturedFrames) /\ Len(appended) = Len(queue) + 1
      /\ \A i \in 1 .. Len(queue) : appended[i] = queue[i]
      /\ appended[Len(queue) + 1] = frame
      /\ Len(queue) \in Nat
  BY AppendProperties, LenProperties
<1>2. /\ numbers \in Seq(Nat) /\ Len(numbers) = Len(queue)
      /\ \A i \in 1 .. Len(queue) : numbers[i] = queue[i].sequence
  BY NumbersType
<1>3. /\ Numbers(appended) \in Seq(Nat) /\ Len(Numbers(appended)) = Len(queue) + 1
      /\ \A i \in 1 .. Len(queue) + 1 : Numbers(appended)[i] = appended[i].sequence
  BY <1>1, NumbersType
<1>4. frame.sequence \in Nat
  BY DEF CapturedFrames
<1> HIDE DEF numbers, appended
<1>5. /\ longer \in Seq(Nat) /\ Len(longer) = Len(queue) + 1
      /\ \A i \in 1 .. Len(queue) : longer[i] = numbers[i]
      /\ longer[Len(queue) + 1] = frame.sequence
  BY <1>1, <1>2, <1>4, AppendProperties
<1> HIDE DEF longer
<1>6. ASSUME NEW i \in 1 .. Len(queue) + 1
      PROVE  longer[i] = Numbers(appended)[i]
  <2>1. i \in 1 .. Len(queue) \/ i = Len(queue) + 1
    BY <1>1
  <2>2. QED
    BY <1>1, <1>2, <1>3, <1>5, <2>1
<1>7. longer = Numbers(appended)
  BY <1>3, <1>5, <1>6, SeqEqual
<1>8. QED
  BY <1>7 DEF longer, numbers, appended

\* The tail of a queue has the tail of its numbers.
LEMMA NumbersTail ==
  ASSUME NEW queue \in Seq(CapturedFrames), queue # <<>>
  PROVE  /\ Numbers(queue) # <<>>
         /\ Numbers(Tail(queue)) = Tail(Numbers(queue))
<1> DEFINE numbers == Numbers(queue)
           rest == Tail(queue)
<1>1. /\ Len(queue) \in Nat \ {0}
      /\ rest \in Seq(CapturedFrames) /\ Len(rest) = Len(queue) - 1
      /\ \A i \in 1 .. Len(rest) : rest[i] = queue[i + 1]
  BY HeadTailProperties, EmptySeq
<1>2. /\ numbers \in Seq(Nat) /\ Len(numbers) = Len(queue)
      /\ \A i \in 1 .. Len(queue) : numbers[i] = queue[i].sequence
  BY NumbersType
<1>3. /\ Numbers(rest) \in Seq(Nat) /\ Len(Numbers(rest)) = Len(rest)
      /\ \A i \in 1 .. Len(rest) : Numbers(rest)[i] = rest[i].sequence
  BY <1>1, NumbersType
<1> HIDE DEF numbers, rest
<1>4. numbers # <<>>
  BY <1>1, <1>2, EmptySeq
<1>5. /\ Tail(numbers) \in Seq(Nat) /\ Len(Tail(numbers)) = Len(queue) - 1
      /\ \A i \in 1 .. Len(Tail(numbers)) : Tail(numbers)[i] = numbers[i + 1]
  BY <1>2, <1>4, HeadTailProperties
<1>6. ASSUME NEW i \in 1 .. Len(Tail(numbers))
      PROVE  Tail(numbers)[i] = Numbers(rest)[i]
  <2>1. i \in 1 .. Len(rest) /\ i + 1 \in 1 .. Len(queue)
    BY <1>1, <1>5
  <2>2. QED
    BY <1>1, <1>2, <1>3, <1>5, <2>1
<1>7. Tail(numbers) = Numbers(rest)
  BY <1>1, <1>3, <1>5, <1>6, SeqEqual
<1>8. QED
  BY <1>4, <1>7 DEF numbers, rest

\* The steps of a controller: the source fails, throws away what is left, or is
\* opened, always when nothing can arrive.
LEMMA SourceController ==
  ASSUME SourceInv, NEW c \in Controllers,
         Stop(c) \/ Start(c) \/ StopStep(c) \/ StartStep(c)
  PROVE  [Source!Next]_(Source!sourceVars)
<1>0. /\ frames \in [queue : Seq(CapturedFrames), closed : {FALSE}]
      /\ running \in BOOLEAN
  BY DEF SourceInv, RaceInv, TypeOK
<1>1. ASSUME UNCHANGED <<frames, sequence, running, at>>
      PROVE  UNCHANGED Source!sourceVars
  BY <1>1 DEF Source!sourceVars
<1>2. ASSUME ~running, \A t \in Callbacks : at[t] # "using",
             frames' = Reset(frames), sequence' = 0, UNCHANGED <<running, at>>
      PROVE  Source!Next
  <2>1. frames'.queue = <<>>
    BY <1>0, <1>2 DEF Reset
  <2>2. [i \in DOMAIN frames'.queue |-> frames'.queue[i].sequence] = <<>>
    BY <2>1
  <2>3. Source!Discard
    BY <1>2, <2>2 DEF Source!Discard
  <2>4. QED
    BY <2>3 DEF Source!Next
<1>3. CASE Stop(c) \/ Start(c) \/ StopRevoke(c) \/ StopBarrier(c) \/ StopClose(c)
           \/ StartBuild(c) \/ StartCapture(c)
  BY <1>1, <1>3 DEF Stop, Start, StopRevoke, StopBarrier, StopClose, StartBuild, StartCapture,
                    callbackVars
<1>4. CASE StopRunning(c)
  <2>1. running' = FALSE /\ UNCHANGED <<frames, sequence, at>>
    BY <1>4 DEF StopRunning, callbackVars
  <2>2. CASE \E t \in Callbacks : at[t] = "using"
    BY <2>1, <2>2 DEF Source!sourceVars
  <2>3. CASE \A t \in Callbacks : at[t] # "using"
    <3>1. Source!Fail
      BY <2>1, <2>3 DEF Source!Fail
    <3>2. QED
      BY <3>1 DEF Source!Next
  <2>4. QED
    BY <2>2, <2>3
<1>5. CASE StopClear(c)
  <2>1. pc[c] = "clear" /\ frames' = Reset(frames) /\ sequence' = 0 /\ UNCHANGED <<running, at>>
    BY <1>5 DEF StopClear, From, callbackVars
  <2>2. ~running /\ \A t \in Callbacks : at[t] # "using"
    BY <2>1 DEF SourceInv, RaceInv, RunningOnlyWhenUp, UsingOnlyWhenUp, Exclusive
  <2>3. QED
    BY <1>2, <2>1, <2>2
<1>6. CASE StartPrepare(c)
  <2>1. CASE UNCHANGED <<frames, sequence, lifecycle>>
    BY <1>1, <1>6, <2>1 DEF StartPrepare, callbackVars
  <2>2. CASE frames' = Reset(frames) /\ sequence' = 0
    <3>1. pc[c] = "prepare" /\ UNCHANGED <<running, at>>
      BY <1>6 DEF StartPrepare, From, callbackVars
    <3>2. pc[Owner] = "prepare"
      BY <3>1 DEF SourceInv, RaceInv, OnlyOwnerStarts
    <3>3. ~running /\ \A t \in Callbacks : at[t] # "using"
      BY <3>2 DEF SourceInv, RaceInv, RunningOnlyWhenUp, UsingOnlyWhenUp
    <3>4. QED
      BY <1>2, <2>2, <3>1, <3>3
  <2>3. QED
    BY <1>6, <2>1, <2>2 DEF StartPrepare
<1>7. CASE StartRunning(c)
  <2>1. pc[c] = "run" /\ running' = TRUE /\ UNCHANGED <<frames, sequence, at>>
    BY <1>7 DEF StartRunning, From, callbackVars
  <2>2. /\ ~running /\ \A t \in Callbacks : at[t] # "using"
        /\ frames.queue = <<>> /\ sequence = 0
    BY <2>1 DEF SourceInv, RaceInv, RunningOnlyWhenUp, UsingOnlyWhenUp, Exclusive,
                OrderInv, StaleComesFirst
  <2>3. [i \in DOMAIN frames.queue |-> frames.queue[i].sequence] = <<>>
    BY <2>2
  <2>4. Source!Open
    BY <2>1, <2>2, <2>3 DEF Source!Open
  <2>5. QED
    BY <2>2, <2>3, <2>4 DEF Source!Next
<1>8. QED
  BY <1>3, <1>4, <1>5, <1>6, <1>7 DEF StopStep, StartStep

\* The steps of a callback: a frame arrives, the last one if the capture was
\* stopped meanwhile, or the source fails.
LEMMA SourceCallback ==
  ASSUME SourceInv, NEW t \in Callbacks, Arrive(t) \/ CallbackStep(t)
  PROVE  [Source!Next]_(Source!sourceVars)
<1>0. /\ frames \in [queue : Seq(CapturedFrames), closed : {FALSE}]
      /\ running \in BOOLEAN /\ sequence \in Nat /\ origin[t] \in Nat
      /\ RaceInv
  BY DEF SourceInv, RaceInv, TypeOK
<1>1. ASSUME UNCHANGED <<frames, sequence>>, Live' = Live
      PROVE  UNCHANGED Source!sourceVars
  BY <1>1 DEF Source!sourceVars, Live
<1>2. ASSUME UNCHANGED <<frames, sequence>>, Live' = FALSE
      PROVE  Source!Next
  <2>1. Source!Fail
    BY <1>2 DEF Source!Fail, Live
  <2>2. QED
    BY <2>1 DEF Source!Next
<1>3. ASSUME NEW place \in InCallback, Leave(t, place)
      PROVE  Live' = running'
  <2>1. at[t] = place /\ at'[t] = "idle" /\ \A u \in Callbacks \ {t} : at'[u] = at[u]
    BY <1>0, <1>3, ThreadMoves DEF Leave
  <2>2. \A u \in Callbacks \ {t} : at[u] \in {"idle", "waiting"}
    BY <1>0, <1>3, <2>1, OneCallback
  <2>3. running' \in BOOLEAN
    BY <1>0, CallbackInv DEF RaceInv, TypeOK
  <2>4. QED
    BY <2>1, <2>2, <2>3 DEF Live
<1>4. ASSUME NEW place \in InCallback, Leave(t, place), UNCHANGED <<frames, sequence>>,
             SetError \/ UNCHANGED running
      PROVE  [Source!Next]_(Source!sourceVars)
  <2>1. CASE running' = FALSE
    BY <1>2, <1>3, <1>4, <2>1
  <2>2. CASE running' = TRUE
    <3>1. running = TRUE
      BY <1>4, <2>2 DEF SetError
    <3>2. Live' = Live
      BY <1>3, <1>4, <2>2, <3>1 DEF Live
    <3>3. QED
      BY <1>1, <1>4, <3>2
  <2>3. QED
    BY <1>0, <2>1, <2>2, CallbackInv DEF RaceInv, TypeOK
<1>5. ASSUME NEW place, NEW next, place # "using", next # "using", Move(t, place, next),
             UNCHANGED <<frames, sequence, running>>
      PROVE  UNCHANGED Source!sourceVars
  <2>1. at[t] = place /\ at'[t] = next /\ \A u \in Callbacks \ {t} : at'[u] = at[u]
    BY <1>0, <1>5, ThreadMoves
  <2>2. Live' = Live
    BY <1>5, <2>1 DEF Live
  <2>3. QED
    BY <1>1, <1>5, <2>2
<1>6. CASE Arrive(t)
  BY <1>5, <1>6 DEF Arrive
<1>7. CASE Enter(t)
  BY <1>5, <1>7 DEF Enter
<1>8. CASE Fetch(t)
  <2>1. CASE Move(t, "fetching", "checking") /\ UNCHANGED running
    BY <1>5, <1>8, <2>1 DEF Fetch
  <2>2. CASE Leave(t, "fetching") /\ (SetError \/ UNCHANGED running)
    BY <1>4, <1>8, <2>2 DEF Fetch, InCallback
  <2>3. QED
    BY <1>8, <2>1, <2>2 DEF Fetch
<1>9. CASE Check(t)
  <2>1. CASE running /\ Move(t, "checking", "using")
    <3>1. UNCHANGED <<frames, sequence, running>>
      BY <1>9 DEF Check
    <3>2. Live' = Live
      BY <2>1, <3>1 DEF Live
    <3>3. QED
      BY <1>1, <3>1, <3>2
  <2>2. CASE Leave(t, "checking")
    BY <1>4, <1>9, <2>2 DEF Check, InCallback
  <2>3. QED
    BY <1>9, <2>1, <2>2 DEF Check
<1>10. CASE Use(t)
  <2>1. Leave(t, "using") /\ at[t] = "using"
    BY <1>10 DEF Use, Leave, Move
  <2>2. CASE (SetError \/ UNCHANGED running) /\ UNCHANGED <<frames, sequence>>
    BY <1>4, <2>1, <2>2 DEF InCallback
  <2>3. CASE /\ frames' = TryPush(frames, QueueCapacity, Captured(t))
             /\ sequence' = sequence + 1 /\ UNCHANGED running
    <3>1. Live = TRUE /\ Live' = running
      BY <1>3, <2>1, <2>3 DEF Live, InCallback
    <3>2. Captured(t) \in CapturedFrames /\ Captured(t).sequence = sequence
      BY <1>0 DEF Captured, CapturedFrames, SourceInv, RaceInv, TypeOK
    <3>3. Numbers(frames'.queue) = IF Len(Numbers(frames.queue)) < QueueCapacity
                                   THEN Append(Numbers(frames.queue), sequence)
                                   ELSE Numbers(frames.queue)
      <4>1. frames.queue \in Seq(CapturedFrames) /\ frames.closed = FALSE
        BY <1>0
      <4>2. Len(Numbers(frames.queue)) = Len(frames.queue)
        BY <4>1, NumbersType
      <4>3. CASE Len(frames.queue) < QueueCapacity
        <5>1. frames'.queue = Append(frames.queue, Captured(t))
          BY <1>0, <2>3, <4>1, <4>3 DEF TryPush, Accepts
        <5>2. QED
          BY <3>2, <4>1, <4>2, <4>3, <5>1, NumbersAppend
      <4>4. CASE ~(Len(frames.queue) < QueueCapacity)
        <5>1. frames' = frames
          BY <2>3, <4>4 DEF TryPush, Accepts
        <5>2. QED
          BY <4>2, <4>4, <5>1
      <4>5. QED
        BY <4>3, <4>4
    <3>4. Source!Arrive \/ Source!ArriveLast
      <4>1. CASE running
        BY <2>3, <3>1, <3>3, <4>1 DEF Source!Arrive, Live, Numbers
      <4>2. CASE ~running
        BY <2>3, <3>1, <3>3, <4>2 DEF Source!ArriveLast, Live, Numbers
      <4>3. QED
        BY <4>1, <4>2
    <3>5. QED
      BY <3>4 DEF Source!Next
  <2>4. QED
    BY <1>10, <2>2, <2>3 DEF Use
<1>11. QED
  BY <1>6, <1>7, <1>8, <1>9, <1>10 DEF CallbackStep

\* A capture is a frame source: whatever its callbacks and controllers do, its
\* frames are numbered as they arrive, only while it is up, and never from the
\* middle of an earlier session.
THEOREM CaptureImplementsSource == Spec => ImplementsSource
<1>1. Init => Source!Init
  <2> SUFFICES ASSUME Init
               PROVE  Source!Init
    OBVIOUS
  <2>1. frames.queue = <<>> /\ sequence = 0 /\ ~running /\ \A t \in Callbacks : at[t] # "using"
    BY DEF Init, EmptyQueue
  <2>2. [i \in DOMAIN frames.queue |-> frames.queue[i].sequence] = <<>>
    BY <2>1
  <2>3. QED
    BY <2>1, <2>2 DEF Source!Init
<1>2. SourceInv /\ [Next]_vars => [Source!Next]_(Source!sourceVars)
  <2> SUFFICES ASSUME SourceInv, [Next]_vars
               PROVE  [Source!Next]_(Source!sourceVars)
    OBVIOUS
  <2>1. CASE Receive
    <3>1. frames \in [queue : Seq(CapturedFrames), closed : {FALSE}]
      BY DEF SourceInv, RaceInv, TypeOK
    <3>2. /\ frames.queue # <<>> /\ frames'.queue = Tail(frames.queue)
          /\ UNCHANGED <<sequence, running, at>>
      BY <2>1, <3>1 DEF Receive, AfterPop, callbackVars
    <3>3. Numbers(frames.queue) # <<>> /\ Numbers(frames'.queue) = Tail(Numbers(frames.queue))
      BY <3>1, <3>2, NumbersTail
    <3>4. Source!Take
      BY <3>2, <3>3 DEF Source!Take, Numbers
    <3>5. QED
      BY <3>4 DEF Source!Next
  <2>2. CASE UNCHANGED vars
    BY <2>2 DEF vars, callbackVars, Source!sourceVars
  <2>3. QED
    BY <2>1, <2>2, SourceController, SourceCallback DEF Next
<1>3. Init => SourceInv
  BY RaceInit, OrderInit DEF SourceInv
<1>4. SourceInv /\ [Next]_vars => SourceInv'
  BY RaceStep, OrderStep DEF SourceInv
<1>5. QED
  BY <1>1, <1>2, <1>3, <1>4, PTL DEF Spec, ImplementsSource, Source!Spec
=============================================================================
