----------------------------- MODULE WindowsApp -----------------------------
(***************************************************************************)
(* swave_app: one user-interface thread serves a timer, a button and two   *)
(* windows.  Each tick takes a frame from the source in use, has the       *)
(* pipeline process it and empties the output queue into the frame that is *)
(* painted.  The button replaces the source, the synthetic one at first,   *)
(* by the capture of a window, while the pipeline goes on running.         *)
(*                                                                         *)
(* The thread handles one message at a time: between two messages it is in *)
(* its loop.  A message box has a loop of its own that serves the same     *)
(* timer, but not the settings window, which it disables.  The capture is  *)
(* a FrameSource, which WindowCapture implements.  The frame painted is    *)
(* the one receive() returned last, shown.                                 *)
(***************************************************************************)
EXTENDS ProcessingPipeline

CONSTANTS CaptureCapacity,   \* WindowCaptureConfig::queue_capacity
          FrameDuration,     \* of the synthetic source
          SyntheticShape,
          MaxSwitches        \* bound of the model: captures started

ASSUME AppAssumption ==
    /\ CaptureCapacity \in Nat /\ FrameDuration \in Nat /\ MaxSwitches \in Nat
    /\ SyntheticShape \in Shapes

VARIABLES place,       \* "launch", "loop", "process", "drain", "exited"
          windows,     \* the windows that exist
          box,         \* a message box is open
          using,       \* g_using_capture
          made,        \* frames the synthetic source made
          waiting, number, live,   \* the source behind g_capture
          clock,       \* the system's, which stamps the frames of a capture
          switches,    \* captures started so far
          exit,
          fresh        \* history: no frame of the source in use was shown yet

captureVars == <<waiting, number, live>>
uiVars == <<windows, box, using, switches>>
appVars == <<vars, place, uiVars, captureVars, made, clock, exit, fresh>>

Capture == INSTANCE FrameSource WITH Capacity <- CaptureCapacity

AppInit ==
    /\ state = "disconnected"
    /\ input = EmptyQueue /\ output = EmptyQueue
    /\ previous = NoFrame
    /\ stats = ZeroStats
    /\ upscaler = "ready" /\ interpolator = "ready"
    /\ offered = NoFrame /\ shown = NoFrame
    /\ place = "launch" /\ windows = {} /\ box = FALSE /\ exit = 0
    /\ using = FALSE /\ made = 0 /\ switches = 0 /\ fresh = TRUE
    /\ Capture!Init
    /\ clock \in 0 .. MaxPts

Goto(next) == place' = next /\ UNCHANGED exit
Exit(code) == place' = "exited" /\ exit' = code

\* wWinMain() up to its message loop: a manifest, a session or a backend may fail
\* before the pipeline is started, a window after it was; then the timer is set.
Launch ==
    /\ place = "launch"
    /\ \/ Exit(1) /\ UNCHANGED <<vars, windows>>
       \/ Start /\ Exit(1) /\ UNCHANGED windows
       \/ Start /\ Goto("loop") /\ windows' = {"content", "settings"}
    /\ UNCHANGED <<box, using, switches, captureVars, made, clock, fresh>>

-----------------------------------------------------------------------------
(***************************************************************************)
(* tick().  The timer belongs to the content window.                       *)
(***************************************************************************)

Feed(frame) ==
    /\ Submit(frame)
    /\ IF stats'.submitted > stats.submitted THEN Goto("process") ELSE Goto("loop")

\* source->next(): a frame that the pipeline refuses is gone, but was numbered.
TickSynthetic ==
    /\ ~using
    /\ made < MaxFrames
    /\ Feed([sequence |-> made, media_pts |-> FrameDuration * made,
             shape |-> SyntheticShape, interpolated |-> FALSE])
    /\ made' = made + 1
    /\ UNCHANGED <<captureVars, clock>>

\* Mutant: a capture that failed is not read any more.
TickCaptureWhileLive ==
    /\ using /\ live
    /\ Capture!Take
    /\ Feed([sequence |-> Head(waiting), media_pts |-> MaxPts,
             shape |-> SyntheticShape, interpolated |-> FALSE])
    /\ clock' = MaxPts
    /\ UNCHANGED made

\* The oldest frame of the capture, stamped by the clock at any time up to now.
TickCapture ==
    /\ using
    /\ Capture!Take
    /\ \E now \in clock .. MaxPts, size \in Shapes :
          /\ Feed([sequence |-> Head(waiting), media_pts |-> now,
                   shape |-> size, interpolated |-> FALSE])
          /\ clock' = now
    /\ UNCHANGED made

\* A tick that finds no frame waiting changes nothing.
Tick ==
    /\ place = "loop" /\ "content" \in windows
    /\ TickSynthetic \/ TickCapture
    /\ UNCHANGED <<uiVars, fresh>>

\* process_one() returns true exactly when it leaves the pipeline running;
\* otherwise the tick ends there.
TickProcess ==
    /\ place = "process"
    /\ ProcessOne
    /\ Goto(IF state' = "running" THEN "drain" ELSE "loop")
    /\ UNCHANGED <<uiVars, captureVars, made, clock, fresh>>

\* Mutant: a tick paints one frame and leaves the others for later.
TickDrainOne ==
    /\ place = "drain"
    /\ Receive /\ fresh' = (fresh /\ shown'.interpolated)
    /\ Goto("loop")
    /\ UNCHANGED <<uiVars, captureVars, made, clock>>

\* The queue is emptied; the frame taken last is the one that stays.
TickDrain ==
    /\ place = "drain"
    /\ \/ /\ Receive /\ fresh' = (fresh /\ shown'.interpolated)
          /\ UNCHANGED <<place, exit>>
       \/ /\ output.queue = <<>>
          /\ Goto("loop")
          /\ UNCHANGED <<vars, fresh>>
    /\ UNCHANGED <<uiVars, captureVars, made, clock>>

-----------------------------------------------------------------------------
(***************************************************************************)
(* start_window_capture() and the windows.                                 *)
(***************************************************************************)

SettingsResponds == place = "loop" /\ "settings" \in windows /\ ~box

\* Nothing is selected, or the capture does not start: the source in use stays,
\* and a message box opens.
ButtonFails ==
    /\ SettingsResponds
    /\ box' = TRUE
    /\ UNCHANGED <<vars, place, windows, using, switches, captureVars, made, clock, exit, fresh>>

\* Mutant: the new capture replaces a source whose frames are taken over.
ButtonKeepingFrames ==
    /\ SettingsResponds
    /\ switches < MaxSwitches /\ switches' = switches + 1
    /\ live' = TRUE /\ number' = 0 /\ UNCHANGED waiting
    /\ using' = TRUE /\ fresh' = TRUE
    /\ UNCHANGED <<vars, place, windows, box, made, clock, exit>>

\* The new capture is running before it replaces the old one, whose destructor
\* stops it and drops the frames it holds.
ButtonSwitches ==
    /\ SettingsResponds
    /\ switches < MaxSwitches /\ switches' = switches + 1
    /\ Capture!Open
    /\ using' = TRUE /\ fresh' = TRUE
    /\ UNCHANGED <<vars, place, windows, box, made, clock, exit>>

DismissBox ==
    /\ place = "loop" /\ box
    /\ box' = FALSE
    /\ UNCHANGED <<vars, place, windows, using, switches, captureVars, made, clock, exit, fresh>>

CloseSettings ==
    /\ SettingsResponds
    /\ windows' = windows \ {"settings"}
    /\ UNCHANGED <<vars, place, box, using, switches, captureVars, made, clock, exit, fresh>>

\* WM_DESTROY of the content window stops the timer and destroys the settings
\* window, and a message box with it.
CloseContent ==
    /\ place = "loop" /\ "content" \in windows
    /\ windows' = {} /\ box' = FALSE
    /\ UNCHANGED <<vars, place, using, switches, captureVars, made, clock, exit, fresh>>

\* Mutant: the capture is left running.
QuitCapturing ==
    /\ place = "loop" /\ windows = {}
    /\ UNCHANGED captureVars
    /\ Stop /\ Exit(0)
    /\ UNCHANGED <<uiVars, made, clock, fresh>>

\* PostQuitMessage() ends the message loop; then everything is stopped.
Quit ==
    /\ place = "loop" /\ windows = {}
    /\ waiting' = <<>> /\ number' = 0 /\ live' = FALSE
    /\ Stop /\ Exit(0)
    /\ UNCHANGED <<uiVars, made, clock, fresh>>

-----------------------------------------------------------------------------

\* Threads of the capture, at any time.
CaptureStep ==
    /\ Capture!Fail \/ (number < MaxFrames /\ Capture!Arrive)
    /\ UNCHANGED <<vars, place, uiVars, made, clock, exit, fresh>>

UiStep == Launch \/ Tick \/ TickProcess \/ TickDrain \/ Quit

UserStep == ButtonFails \/ ButtonSwitches \/ DismissBox \/ CloseSettings \/ CloseContent

AppNext == UiStep \/ UserStep \/ CaptureStep

\* The thread runs, the timer keeps firing, and a quit message is delivered; the
\* user need not do anything, and no frame has to arrive.
AppSpec == AppInit /\ [][AppNext]_appVars /\ WF_appVars(UiStep)

-----------------------------------------------------------------------------
(***************************************************************************)
(* Properties.                                                             *)
(***************************************************************************)

\* Between two messages nothing is left in the pipeline, and what is painted is
\* the frame taken from a source last, unless a backend failed on it: ticks never
\* pile up work, a queue of the pipeline is never full, and a full one would show
\* as degraded.
ScreenCurrent ==
    place = "loop" =>
        /\ input.queue = <<>> /\ output.queue = <<>>
        /\ state = "running" => shown = offered
        /\ state \in {"buffering", "running", "error"}

\* The painted frames go forward within one source.  Only at a switch may the
\* clock and the numbers start over, and only until the first frame of the new
\* source is painted; a frame of the old one never comes back.
PaintedInOrder ==
    [][shown' # shown => Precedes(shown, shown') \/ fresh]_appVars

\* A captured frame that waits is painted, or a later one of that capture, unless
\* a backend fails, the user starts another capture or the program ends.
CapturedGetsPainted ==
    \A n \in 0 .. MaxFrames - 1, s \in 1 .. MaxSwitches :
        (switches = s /\ n \in {waiting[i] : i \in DOMAIN waiting}) ~>
            \/ ~fresh /\ switches = s /\ shown.sequence >= n
            \/ state \in {"error", "disconnected"} \/ windows = {} \/ switches > s

\* Closing the content window ends the program regularly, whatever the state of the
\* pipeline and the source, a message box or not: no capture runs, no frame is left
\* in it, the pipeline is closed and its backends released their models.
ClosingEnds ==
    (place = "loop" /\ windows = {}) ~>
        /\ place = "exited" /\ exit = 0
        /\ ~live /\ waiting = <<>>
        /\ state = "disconnected" /\ input.closed /\ output.closed
        /\ upscaler = "closed" /\ interpolator = "closed"

-----------------------------------------------------------------------------
(***************************************************************************)
(* What the documentation says and the code does otherwise.                *)
(***************************************************************************)

\* docs/flows.md: an error of the source takes the program back to disconnected.
SourceErrorDisconnects == (using /\ ~live) ~> (state = "disconnected" \/ live)
=============================================================================
