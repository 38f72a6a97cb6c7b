---------------------------- MODULE WindowCapture ----------------------------
(***************************************************************************)
(* platform::WindowCaptureSource: start() builds a capture session and     *)
(* registers a callback, the system calls it on threads of its own, and    *)
(* stop() takes everything down.  The two sides share the resources of the *)
(* session without a common lock: start() and stop() exclude each other    *)
(* with lifecycle_mutex, callbacks exclude each other with callback_mutex, *)
(* and stop() passes through callback_mutex once, after clearing running.  *)
(*                                                                         *)
(* One thread, Owner, calls start(); any controller may call stop().  A    *)
(* callback the system dispatched before the handler was removed may run   *)
(* at any later time, even into the next session.  Removing the handler    *)
(* and closing the pool are taken to succeed.                              *)
(***************************************************************************)
EXTENDS BoundedQueue

CONSTANTS Controllers, Owner,
          Callbacks,              \* threads of the capture pool
          Nobody,                 \* a mutex that is free
          QueueCapacity,          \* config.queue_capacity
          MaxCalls, MaxSequence   \* bounds of the model: start() and stop()
                                  \* calls, frames captured in a session

ASSUME CaptureAssumption ==
    /\ Owner \in Controllers
    /\ Nobody \notin Controllers \cup Callbacks
    /\ QueueCapacity \in Nat /\ MaxCalls \in Nat /\ MaxSequence \in Nat

VARIABLES running, frames, sequence,
          error,        \* whether last_error() holds a message
          lifecycle,    \* holder of lifecycle_mutex
          callback,     \* holder of callback_mutex
          built,        \* device, context and frame_pool are set
          session,      \* how many frame pools were created
          open,         \* the frame pool that is not closed, 0 for none
          arriving,     \* the system delivers frames of the open pool
          pc,           \* where each controller is in start() or stop()
          after,        \* where its stop() returns to
          at,           \* where each callback thread is
          origin,       \* the pool that dispatched its callback
          calls

controlVars == <<lifecycle, pc, after, calls>>
resourceVars == <<built, session, open, arriving>>
callbackVars == <<callback, at, origin>>
vars == <<running, frames, sequence, error, controlVars, resourceVars, callbackVars>>

Init ==
    /\ running = FALSE /\ frames = EmptyQueue /\ sequence = 0 /\ error = FALSE
    /\ lifecycle = Nobody /\ callback = Nobody
    /\ built = FALSE /\ session = 0 /\ open = 0 /\ arriving = FALSE
    /\ pc = [c \in Controllers |-> "idle"]
    /\ after = [c \in Controllers |-> "idle"]
    /\ at = [t \in Callbacks |-> "idle"]
    /\ origin = [t \in Callbacks |-> 0]
    /\ calls = 0

Goto(c, place) == pc' = [pc EXCEPT ![c] = place]
From(c, place, next) == pc[c] = place /\ Goto(c, next)

Acquire(c) == lifecycle = Nobody /\ lifecycle' = c
Release == lifecycle' = Nobody

-----------------------------------------------------------------------------
(***************************************************************************)
(* stop().                                                                 *)
(***************************************************************************)

\* The call itself; also the stop() inside start(), which then goes on at next.
CallStop(c, next) ==
    /\ Goto(c, "stop")
    /\ after' = [after EXCEPT ![c] = next]

Stop(c) ==
    /\ calls < MaxCalls /\ calls' = calls + 1
    /\ pc[c] = "idle"
    /\ CallStop(c, "idle")
    /\ UNCHANGED <<running, frames, sequence, error, lifecycle, resourceVars, callbackVars>>

StopRunning(c) ==
    /\ From(c, "stop", "revoke")
    /\ Acquire(c)
    /\ running' = FALSE
    /\ UNCHANGED <<frames, sequence, error, after, calls, resourceVars, callbackVars>>

StopRevoke(c) ==
    /\ From(c, "revoke", "barrier")
    /\ arriving' = FALSE
    /\ UNCHANGED <<running, frames, sequence, error, lifecycle, after, calls,
                   built, session, open, callbackVars>>

\* Mutant: stop() does not wait for the callback that is executing.
StopWithoutBarrier(c) ==
    /\ From(c, "barrier", "close")
    /\ UNCHANGED <<running, frames, sequence, error, lifecycle, after, calls,
                   resourceVars, callbackVars>>

\* callback_mutex is taken and released at once.
StopBarrier(c) ==
    /\ From(c, "barrier", "close")
    /\ callback = Nobody
    /\ UNCHANGED <<running, frames, sequence, error, lifecycle, after, calls,
                   resourceVars, callbackVars>>

StopClose(c) ==
    /\ From(c, "close", "clear")
    /\ open' = 0
    /\ UNCHANGED <<running, frames, sequence, error, lifecycle, after, calls,
                   built, session, arriving, callbackVars>>

\* Mutant: the frames that were not received are kept for the next session.
StopKeepingFrames(c) ==
    /\ From(c, "clear", after[c])
    /\ Release
    /\ built' = FALSE /\ sequence' = 0
    /\ UNCHANGED <<running, frames, error, after, calls, session, open, arriving, callbackVars>>

StopClear(c) ==
    /\ From(c, "clear", after[c])
    /\ Release
    /\ built' = FALSE
    /\ frames' = Reset(frames) /\ sequence' = 0
    /\ UNCHANGED <<running, error, after, calls, session, open, arriving, callbackVars>>

-----------------------------------------------------------------------------
(***************************************************************************)
(* start().  A call that finds the capture running returns at once: it     *)
(* changes nothing.                                                        *)
(***************************************************************************)

Start(c) ==
    /\ calls < MaxCalls /\ calls' = calls + 1
    /\ c = Owner /\ pc[c] = "idle"
    /\ lifecycle = Nobody /\ ~running
    /\ CallStop(c, "prepare")
    /\ UNCHANGED <<running, frames, sequence, error, lifecycle, resourceVars, callbackVars>>

\* The second lock of start(): the window may be gone.
StartPrepare(c) ==
    /\ lifecycle = Nobody
    /\ \/ /\ From(c, "prepare", "idle")
          /\ UNCHANGED <<frames, sequence, lifecycle>>
       \/ /\ From(c, "prepare", "build")
          /\ Acquire(c)
          /\ frames' = Reset(frames) /\ sequence' = 0
    /\ UNCHANGED <<running, error, after, calls, resourceVars, callbackVars>>

\* Mutant: the exception path calls stop() with lifecycle_mutex still held.
StartFailsHolding(c) == CallStop(c, "idle") /\ UNCHANGED lifecycle

\* Mutant: the exception path returns without a stop().
StartFailsLeaving(c) == Goto(c, "idle") /\ Release /\ UNCHANGED after

\* An exception anywhere in start() ends in a stop().
StartFails(c) ==
    /\ CallStop(c, "idle")
    /\ Release

\* The device, a frame pool with its handler, and a session on it.
BuildPool == session' = session + 1 /\ open' = session' /\ built' = TRUE

\* An exception may come before the pool exists or after.
StartBuild(c) ==
    /\ pc[c] = "build"
    /\ \/ /\ Goto(c, "run")
          /\ BuildPool
          /\ UNCHANGED <<lifecycle, after>>
       \/ /\ StartFails(c)
          /\ BuildPool \/ UNCHANGED <<session, open, built>>
    /\ UNCHANGED <<running, frames, sequence, error, calls, arriving, callbackVars>>

StartRunning(c) ==
    /\ From(c, "run", "capture")
    /\ running' = TRUE
    /\ UNCHANGED <<frames, sequence, error, lifecycle, after, calls, resourceVars, callbackVars>>

StartCapture(c) ==
    /\ pc[c] = "capture"
    /\ \/ /\ Goto(c, "idle")
          /\ Release
          /\ arriving' = TRUE
          /\ UNCHANGED after
       \/ /\ StartFails(c)
          /\ UNCHANGED arriving
    /\ UNCHANGED <<running, frames, sequence, error, calls, built, session, open, callbackVars>>

-----------------------------------------------------------------------------
(***************************************************************************)
(* The callback.                                                           *)
(***************************************************************************)

Move(t, place, next) == at[t] = place /\ at' = [at EXCEPT ![t] = next]

\* Every way out of the callback releases callback_mutex.
Leave(t, place) == Move(t, place, "idle") /\ callback' = Nobody

\* Mutant: the capture ends without a message.
SetErrorSilently == running' = FALSE /\ UNCHANGED error

SetError == error' = TRUE /\ running' = FALSE

\* The system dispatches a frame of the open pool; the callback then waits for
\* its turn.
Arrive(t) ==
    /\ arriving
    /\ Move(t, "idle", "waiting")
    /\ origin' = [origin EXCEPT ![t] = session]
    /\ UNCHANGED <<running, frames, sequence, error, callback, controlVars, resourceVars>>

Enter(t) ==
    /\ Move(t, "waiting", "fetching")
    /\ callback = Nobody /\ callback' = t
    /\ UNCHANGED <<running, frames, sequence, error, origin, controlVars, resourceVars>>

\* TryGetNextFrame() of the pool that dispatched the callback: it has a frame
\* only while it is open, and it may have none or throw at any time.
Fetch(t) ==
    /\ \/ /\ Move(t, "fetching", "checking")
          /\ origin[t] = open
          /\ UNCHANGED <<callback, error, running>>
       \/ /\ Leave(t, "fetching")
          /\ SetError \/ UNCHANGED <<error, running>>
    /\ UNCHANGED <<frames, sequence, origin, controlVars, resourceVars>>

\* Mutant: the callback does not look at running.
CheckNothing(t) ==
    /\ Move(t, "checking", "using")
    /\ UNCHANGED <<callback, running, frames, sequence, error, origin, controlVars, resourceVars>>

Check(t) ==
    /\ \/ running /\ Move(t, "checking", "using") /\ UNCHANGED callback
       \/ ~running /\ Leave(t, "checking")
    /\ UNCHANGED <<running, frames, sequence, error, origin, controlVars, resourceVars>>

Captured(t) == [session |-> origin[t], sequence |-> sequence]

\* The frame is copied with the resources of the capture and queued; it is
\* numbered even when the queue has no room for it.  It may also turn out to
\* have no usable size, or an exception may end the capture.
Use(t) ==
    /\ Leave(t, "using")
    /\ \/ /\ sequence < MaxSequence
          /\ frames' = TryPush(frames, QueueCapacity, Captured(t))
          /\ sequence' = sequence + 1
          /\ UNCHANGED <<error, running>>
       \/ /\ SetError \/ UNCHANGED <<error, running>>
          /\ UNCHANGED <<frames, sequence>>
    /\ UNCHANGED <<origin, controlVars, resourceVars>>

\* try_receive(), on a queue that holds something.
Receive ==
    /\ frames.queue # <<>>
    /\ frames' = AfterPop(frames)
    /\ UNCHANGED <<running, sequence, error, controlVars, resourceVars, callbackVars>>

-----------------------------------------------------------------------------

StopStep(c) ==
    StopRunning(c) \/ StopRevoke(c) \/ StopBarrier(c) \/ StopClose(c) \/ StopClear(c)

StartStep(c) ==
    StartPrepare(c) \/ StartBuild(c) \/ StartRunning(c) \/ StartCapture(c)

CallbackStep(t) == Enter(t) \/ Fetch(t) \/ Check(t) \/ Use(t)

Next ==
    \/ \E c \in Controllers : Stop(c) \/ Start(c) \/ StopStep(c) \/ StartStep(c)
    \/ \E t \in Callbacks : Arrive(t) \/ CallbackStep(t)
    \/ Receive

\* A thread that is inside a call keeps executing; nobody has to call, no frame
\* has to arrive and none has to be received.
Fairness ==
    /\ \A c \in Controllers : WF_vars(StopStep(c) \/ StartStep(c))
    /\ \A t \in Callbacks : WF_vars(CallbackStep(t))

Spec == Init /\ [][Next]_vars /\ Fairness

-----------------------------------------------------------------------------
(***************************************************************************)
(* Properties.                                                             *)
(***************************************************************************)

CapturedFrames == [session : Nat, sequence : Nat]

\* Where lifecycle_mutex and callback_mutex are held.
InLifecycle == {"revoke", "barrier", "close", "clear", "build", "run", "capture"}
InCallback == {"fetching", "checking", "using"}

\* A mutex is held exactly in its critical section, on every way out of it.
MutexesHeld ==
    /\ \A c \in Controllers : lifecycle = c <=> pc[c] \in InLifecycle
    /\ \A t \in Callbacks : callback = t <=> at[t] \in InCallback

Places == {"idle", "stop", "revoke", "barrier", "close", "clear",
           "prepare", "build", "run", "capture"}

\* Types, and the agreement of the mutexes with the threads.
TypeOK ==
    /\ running \in BOOLEAN /\ error \in BOOLEAN /\ built \in BOOLEAN /\ arriving \in BOOLEAN
    /\ frames \in [queue : Seq(CapturedFrames), closed : {FALSE}]
    /\ sequence \in Nat /\ session \in Nat /\ open \in Nat /\ calls \in Nat
    /\ lifecycle \in Controllers \cup {Nobody}
    /\ callback \in Callbacks \cup {Nobody}
    /\ pc \in [Controllers -> Places]
    /\ after \in [Controllers -> {"idle", "prepare"}]
    /\ at \in [Callbacks -> {"idle", "waiting", "fetching", "checking", "using"}]
    /\ origin \in [Callbacks -> Nat]
    /\ MutexesHeld

\* Where a controller writes what a callback past its running check reads.
Exclusive == {"close", "clear", "build", "run"}

\* No callback works with the device, the pool, the staging texture or the frame
\* counter while a controller destroys or builds them; what it works with exists,
\* and no other callback works with it.  They have no mutex in common: it is
\* running and the passage through callback_mutex that keep them apart.
RaceFree ==
    \A t \in Callbacks : at[t] = "using" =>
        /\ built
        /\ \A c \in Controllers : pc[c] \notin Exclusive
        /\ \A u \in Callbacks \ {t} : at[u] # "using"

\* Once stop() has taken the capture down, nothing is left to receive and nothing
\* comes any more, however many callbacks were on their way, until start() has
\* built another one.
QuietAfterStop ==
    ~built => frames.queue = <<>> /\ sequence = 0 /\ ~arriving /\ ~running

\* While no call is in progress a capture is either whole, with an open pool whose
\* frames arrive, and runs unless it left an error, or it is gone, without any of
\* this: a start() that fails, before the pool exists, after, or when running is set
\* already, leaves nothing behind, whoever calls stop() meanwhile.
WholeOrGone ==
    (\A c \in Controllers : pc[c] = "idle") =>
        IF built THEN open # 0 /\ arriving /\ (running \/ error)
        ELSE open = 0 /\ ~arriving /\ ~running

\* The queue holds frames in the order of their numbers, all of them of the
\* current session, but for one: a callback that took a frame from the old pool
\* just before it was closed can slip it into the new session, as its very first.
FramesInOrder ==
    LET held == frames.queue IN
    /\ \A i, j \in 1 .. Len(held) : i < j => held[i].sequence < held[j].sequence
    /\ \A i \in 1 .. Len(held) :
          /\ held[i].sequence < sequence
          /\ held[i].session # session => held[i].sequence = 0

\* Every start() and stop() returns, whatever the callbacks do: nobody waits for
\* a mutex for ever.
CallsReturn == \A c \in Controllers : pc[c] = "stop" ~> pc[c] = "idle"

\* The capture is a frame source, whatever its callbacks and controllers do: while
\* a callback is past its running check the source still delivers, then it is silent
\* until it is built anew, with an empty queue and its numbers starting over.
Source == INSTANCE FrameSource WITH
    Capacity <- QueueCapacity,
    waiting <- [i \in DOMAIN frames.queue |-> frames.queue[i].sequence],
    number <- sequence,
    live <- running \/ \E t \in Callbacks : at[t] = "using"
ImplementsSource == Source!Spec
=============================================================================
