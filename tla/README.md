# swave: a TLA+ model

sWAVe takes video frames from a source, upscales them, interpolates a frame
between every two, and shows the result. These modules model the parts of it
that keep state, check them with TLC on small instances, and prove about them
with TLAPS what holds for every size.

Paths are relative to `src/`.

## The system

| Component | Source | State | Operations |
|---|---|---|---|
| `BoundedQueue` | `core/queue/bounded_queue.hpp` | the elements, `closed_`; one mutex | `try_push`, `try_pop`, `close`, `reset` |
| `ProcessingPipeline` | `core/pipeline/processing_pipeline.cpp` | `state_`, two queues, `previous_`, `stats_`, two backends | `start`, `stop`, `submit`, `process_one`, `receive` |
| `PassthroughPipeline` | `core/pipeline/passthrough_pipeline.cpp` | `state_`, two queues, `stats_` | the same five |
| video backends | `core/backend/video_backends.cpp` | `session_`, `manifest_`, `initialized_` | `initialize`, `process`, `flush`, `close` |
| inference sessions | `core/inference/` | loaded or not, provider, manifest | `load`, `run`, `close` |
| `ModelManifest`, `ModelCatalog` | `core/model/model_manifest.cpp` | the catalog's list | `validate`, `from_text`, `load_file`; `add`, `load_directory`, `find` |
| `SyntheticSource` | `core/source/synthetic_source.cpp` | `sequence_` | `next` |
| resolution, presets | `core/frame/resolution.hpp`, `core/processing/presets.hpp` | none | pure functions |
| `WindowCaptureSource` | `platform/windows/window_capture.cpp` | device, pool, session, `frames`, `sequence`, `running`, `error`; three mutexes | `start`, `stop`, `try_receive`, the `FrameArrived` callback |
| `swave_cli` | `apps/swave_cli.cpp` | the loop of `main` | a smoke run |
| `swave_app` | `apps/swave_win32.cpp` | the globals `g_*` | timer tick, capture button, shutdown |

How they interact. A program owns one pipeline and calls it from one thread: it
submits a frame from its source, has it processed, and empties the output queue.
The pipeline calls its backends, which call their inference session. The capture
source is the one component with threads it does not own: the system calls back
on pool threads and pushes into a `BoundedQueue` that the program's thread reads,
while `stop()` and `start()` destroy and rebuild everything the callback uses.

What is hard here, and what makes each part correct:

- *Queue*: threads push, pop, close and reset in any order. No value is lost,
  repeated or reordered; a closed queue admits nothing.
- *Pipeline*: any sequence of calls, with failures and full queues in the middle
  of a `process_one()` that publishes two frames. Frames come out in media order;
  the counters add up; the state is backed by what happened; a stopped pipeline
  stays stopped.
- *Capture*: callbacks run late, even into the next session. No callback touches
  resources that are being destroyed or built; after `stop()`, or a `start()` that
  fails anywhere, nothing is left; no thread waits for ever.
- *Programs*: the loop of the smoke program never overruns a queue, and it ends.
- *Backends, sessions*: whatever fails half-way, a backend and its session agree
  on the model, no fallback is silent, and close() releases what was loaded.
- *Windows program*: one thread, but a source that is replaced under a running
  pipeline, a message box with a loop of its own, and a capture that fails on
  another thread. What is painted is current and in order, and closing ends it.
- *Manifests, catalog*: what is read is what is written; a load that fails half-way
  leaves a list that can be used, and succeeds exactly when it can.
- *Command lines, pictures*: numbers at the ends of their ranges, options that
  swallow the next word, rounding, also that of doubles and floats.

The repository has little that survives a crash and no network: there is
nothing to recover and no message to lose.

## The modules

| Module | What it is |
|---|---|
| `BoundedQueue` | the value of a queue and its member functions as operators; used by every other module |
| `SharedQueue` | a queue called by many threads; `FrameChannel` is what it promises |
| `ProcessingPipeline` | the pipeline and the visible effect of its backends; `FrameStream` is what it promises |
| `PassthroughPipeline` | the pipeline without backends; the same `FrameStream` is its promise |
| `VideoBackends` | the backends and their inference sessions; `BackendContract` is what the pipeline relies on |
| `SmokeCli` | `main` of `swave_cli`; each statement calls the actions of `ProcessingPipeline` |
| `WindowCapture` | the capture source, its controllers and its callbacks; `FrameSource` is what it promises |
| `WindowsApp` | `swave_app`: `ProcessingPipeline` and a `FrameSource` served by one thread |
| `ModelManifest`, `ModelCatalog` | reading a manifest, as operators; the catalog and the directory it is loaded from |
| `CommandLine` | how both programs read their arguments and come by their manifests |
| `Pictures` | resolutions, presets and the conversions of single pixels, as operators |
| `PureFunctions` | the inputs of the three modules above, grown step by step, and what must hold of each |
| `SharedQueueProofs`, `ProcessingPipelineProofs`, `PassthroughPipelineProofs`, `VideoBackendsProofs`, `WindowCaptureProofs` | the theorems about the module of that name |
| `ProgramProofs` | the theorems about `SmokeCli` and `WindowsApp` |
| `DataProofs`, `Folding` | the theorems about `PureFunctions` and `ModelCatalog`; what holds of any fold over any sequence |
| `MC*` | the instances TLC checks |

### BoundedQueue, SharedQueue, FrameChannel

A queue is the record `[queue, closed]`; the capacity is a constructor argument
and stays outside. `Accepts` is the guard of `try_push`. Each member function
locks the mutex for its whole body, so each call is one action of `SharedQueue`.
`admitted` and `departed` are history. A refused push and a pop of an empty
queue change nothing and are stutters. Nobody in the repository waits on the
condition variable, so notifications are left out.

`FrameChannel` says what the queue promises without saying how: a log of admitted
values from whose front they leave, one by one or in a wholesale discard, with at
most `Capacity` inside. `ImplementsChannel` is the refinement.

### ProcessingPipeline, FrameStream

The class has no thread and no lock: one call is one action, in any order. A call
that returns early without changing anything is a stutter. `process_one()` is
`ProcessOne`, whose disjuncts are the outcomes of the code: a backend fails
(`BackendFails`), the current frame is published or refused (`PublishCurrent`),
or an interpolated frame goes first (`PublishInterpolated`), with `Overflow` for
the refusal after zero or one frames of this call. `state_ = stopping` is only
visible inside `stop()` and never appears.

A backend is `absent` (a null pointer), `closed` (never initialized, or closed)
or `ready`; `Init` starts from every combination. `Provider` says which kind is
plugged in: the fake ones fail only when they are not ready, an ONNX session may
fail at any call, and the ONNX interpolator always fails on two frames of
different shapes. The interpolated frame's timestamp is computed as in the code
(`Halfway`); its number comes from the second frame for the fake backend, whose
`timestep < 0.5` test is false at 0.5, and from the first for the ONNX one. The
flag `interpolated` is not in the code's packet: it records where a frame comes
from, for the properties only. `offered` and `shown` are history too.

The environment is a source that numbers its frames one after the other and whose
media clock never goes back. Switching sources under a running pipeline breaks
that and belongs to `WindowsApp`.

`FrameStream` is the promise: each frame let in is consumed once and yields at
most two timestamps, none before those already waiting or taken, and nothing is
yielded once the stream is shut.

### PassthroughPipeline

The five operations again, one action each. `process_one()` has no test of the
state: on a stopped pipeline it still empties the input queue, each frame being
refused by the closed output, counted as dropped, and leaving the state
`degraded`. `Pass` and `Drop` are its two outcomes. The refinement of
`FrameStream` counts a dropped frame as consumed without a yield.

### VideoBackends, BackendContract

One upscaler and one interpolator of the same class (`Provider`), and sessions
that `make_inference_session()` makes (`MakeSession`; a build without ONNX Runtime
makes fake ones only). `Initialize` is the tests of `initialize_session()`
(`Suits`), then `load()` with all it may answer and leave behind (`FakeLoads`,
`OnnxLoads`, `Builds`), then the assignments (`Adopt`). A failed `load()` may leave
the old model, drop it, or drop it and record the other provider; an exception
that `load()` does not catch is the outcome `thrown`. `Process` is `process()` with
`run()` inside: an ONNX model returns any tensor, none at all, or fails. The frame
is reduced to its size in one dimension and whether its pixels are usable;
`native_scale` is in tenths, so that `lround` shows. The timestep is always the
0.5 the pipeline passes, so its range test never fails. `flush()` is empty.

The environment is that of the programs and tests: each backend has a session of
its own and is closed before it gets another one, but `initialize()` may be called
again on the same session, with another manifest or provider. The error string
is empty or left from an earlier failure. A session's `model` also records, as
history, the provider it was built for; for a fake session it records the manifest
that the code validates and forgets.

`BackendContract` is what `ProcessingPipeline` assumes with its three-valued
backends: closed ones fail, ready ones may work, reliable ones always do.
`ImplementsContract` discharges that assumption.

### SmokeCli

The program counter `phase` names the statement of `main` about to execute, and
every action conjoins an action of `ProcessingPipeline` with the program's own
reaction to the returned value: a `submit` that does not raise `submitted`, a
`process_one` that does not leave the pipeline `running`, end the program with
code 1. `interpolation` is the argument the pipeline is configured with; it never
changes, and `SmokeContract` counts by it. The model starts where the backends are
initialized: the part of `main` before that is `CommandLine` and `VideoBackends`.

### WindowCapture

`start()` and `stop()` are broken up at every point where another thread can see
a difference: taking `lifecycle_mutex` and clearing `running`, removing the
handler, passing through `callback_mutex`, closing the pool, clearing the rest.
`pc` is the place of each controller; `after` is where a `stop()` called inside
`start()` returns to. A callback goes through `waiting`, `fetching`, `checking`
and `using`; `using` covers the copy of the pixels, because everything in it
happens under `callback_mutex` and touches only what `RaceFree` protects.

| Code (`window_capture.cpp`) | Action |
|---|---|
| `stop()` 287-288, 289-292, 293-295, 296-300, 301-310 | `StopRunning`, `StopRevoke`, `StopBarrier`, `StopClose`, `StopClear` |
| `start()` 96-100, 101-107, 108-263, 264, 265-282 | `Start`, `StartPrepare`, `StartBuild`, `StartRunning`, `StartCapture` |
| callback: dispatched, 169, 171, 172, 173-255 | `Arrive`, `Enter`, `Fetch`, `Check`, `Use` |
| `set_error` 82-86 | `SetError` |

Assumed of the external API: a closed pool hands out no frame; removing the
handler stops new dispatches but not the callbacks already on their way; removing
the handler and closing the pool succeed. A failure of `StartBuild` may come
before or after the pool exists. Frames carry the session that produced them, as
history, to tell a late one apart.

`FrameSource` is a capture seen by the program that reads it: frames are numbered
from 0, a frame that finds the queue full is lost but numbered, and nothing arrives
between a failure or a stop and the next start. `ImplementsSource` maps it: the
queue is `waiting`, the sequence number is `number`, and the source is `live` while
frames may still come. Because a callback of an old session can deliver into the
queue that is being taken down, the promise has `ArriveLast`.

### WindowsApp

`place` is where the one thread is: before its loop, in the loop, or inside a
`tick()` after `submit` or between two `receive`. Ticks are not broken up by other
messages, since a message is handled to its end; capture threads (`CaptureStep`) act at any time.
A message box keeps serving the timer, but its owner, the settings window, is
disabled: no second button press, while the content window may still be closed.

| Code (`apps/swave_win32.cpp`) | Action |
|---|---|
| `wWinMain` 251-328 | `Launch` |
| `tick` 192-197, 197, 198-203 | `Tick` (`TickSynthetic`, `TickCapture`), `TickProcess`, `TickDrain` |
| `start_window_capture` 168-187 | `ButtonFails`, `ButtonSwitches` |
| `window_proc` 211-213, 227-233 | `CloseSettings`, `CloseContent` |
| `wWinMain` 335-340 | `Quit` |

Frames of the synthetic source are numbered by `made` and stamped from 0; those of
a capture are stamped by the system's clock. So at a switch both may go back, the
pipeline interpolates once between the two sources, and nothing marks the
discontinuity: no source ever sets the packet's `discontinuity`. `PaintedInOrder`
says how far that goes. Each press makes a new capture object and starts it once.
`g_using_capture` is never cleared. The settings window paints the word "running"
whatever the state is.

### ModelManifest, ModelCatalog

A text is a sequence of lines, and a line is what the parser can tell of it: blank,
without `=`, or an entry whose value can be read as what its key asks for or not.
`ReadLine` is one turn of the loop of `from_text()`, `FromText` folds it over the
text and validates at the end, `LoadFile` adds the file and its directory. A number
is in tenths or not finite, because `from_chars` reads `nan` and `inf`.
`ReadsWhatIsWritten` is the reference definition: it relates a text to a manifest by
the last place where each key is set, and never looks at the order in which different
keys come.

`ModelCatalog` has `load_directory()` as steps, because the user edits the
directory meanwhile: entries come in any order (`LoadEntry`), one may be gone or
changed since it was listed, and reading the directory may throw. The directory
itself may be missing, which the call refuses at once (`LoadBegin`), and it may be
removed or created at any time (`EditDirectory`). `LoadFaithful`
compares a load that nobody disturbed with what the directory holds. `find()`
changes nothing and is the operator `Find`, the first model of an id.

### CommandLine

A word is a text and what it is as a number. `ReadWord` is a turn of the loop of
`parse_arguments()`, `AppReadWord` one of `parse_options()`; numbers pass
`Strtoul` and the truncation to `unsigned`, with both ranges as constants.
`RunsAsAsked` is stated with the positions of options and values, not with the
loop. Both programs' built-in manifests are `BuiltIn` of `ModelManifest`; a manifest
named on the command line is the result of `LoadFile`. `CliManifests` and
`AppManifests` are what each program goes on with, or its exit code.

Seen here: a frame rate of 2^32 becomes 0 and then 30 where `long` is wider than
`unsigned`; an option that `swave_cli` does not know swallows the next word;
`swave_app` ignores `--provider fake`, so `--provider cuda --provider fake` means
cuda there and fake in `swave_cli`.

### Pictures

`output_resolution()` computes with doubles and rounds once at the end, with `lround`.
Between the fractions the model computes with and the doubles of the code there is one
difference that can be seen: where a side comes to exactly half a pixel, an error in
the last bit decides to which side it is rounded. `Sides` therefore holds every value a side
may come to: one, or two where it is a tie and the doubles are not exact, which they are for
multiples of one half that no monitor limits. Elsewhere the error of at most three
roundings is too small to matter, for sides below 2^24 and factors up to 5. So
`OutputResolutions` is a set that contains the result of the code, and a property must
hold of every member of it. An example with a tie: a source of 1960x1421 on a monitor
of 1100x1000 comes to 1100x797 at the factor 1.0 and to 1100x798 at 3.0.

`docs/flows.md:30-32` says that presets multiply the base, the source as it fits the
monitor; the code computes each from the source. `PresetsMultiplyBase` says how far the
two agree: what a preset of the base comes to is among what the preset of the source may
come to, and a tie costs at most one pixel of one side, between two ways of computing a
preset or between a preset and a stronger one. In the example above the preset 3.0 of the
base is 1100x797, one row less than the code makes of the source.

The three color channels go through floats. `Color` is `byte / 255.0F` and `ToByte` is
the clamp, the product with `255.0F` and `lround`; both round as IEEE arithmetic does
(`NearestEven`), a float being a number of digits times a power of two. The number of
digits is given by the constant `FloatUnit`, 2^24 for an IEEE float. TLC's integers have
32 bits, so its instance takes 2^20; the theorem holds for every unit from 2^9 on. Under
`Colors` and `Pixel` these are `frame_to_tensor()` and `tensor_to_frame()`. `SourceIndex`
is one axis of the lookup of alpha.

### PureFunctions

One behavior builds one input: a manifest gets another line (`AddLine`), a command
line another word (`AddWord`), a picture or a pixel is chosen at the start. Which
lines, words, files, factors and sizes there are, and how many, are constants; of a
line and a word only their form is assumed (`InputAssumption`).

## What the runs check

| Run | Checks | Instance |
|---|---|---|
| `shared_queue` | order and conservation of values, a closed queue admits nothing, refinement of `FrameChannel` | capacity 2, two values, four pushes |
| `pipeline` | media order, counters, state, shutdown, refinement of `FrameStream` | ONNX and fake backends, queues of 2 and 3, four frames of two sizes, timestamps 0 to 3 |
| `passthrough` | every frame counted, refinement of `FrameStream` | queues of 2, six frames, timestamps 0 to 3 |
| `backends` | agreement of backend and session, provider, leaks, messages, sizes, refinement of `BackendContract` | ONNX backends, and fake ones in a build without ONNX Runtime; two sessions, six manifests, sizes 1 and 2 |
| `smoke` | the counts `docs/qa.md` promises; only a backend makes the program fail; it ends, successfully with fake backends | 1 to 8 frames; the program's own queues of 4 and 16, the same without interpolation, queues of 1 and 2 with failing backends |
| `window_capture` | races, quiet after `stop()`, whole or gone between calls, order of frames, every call returns, refinement of `FrameSource` | two controllers, two callbacks, queue of 2, four calls, three frames a session |
| `app` | the screen is current and in order, captured frames get painted, closing ends the program cleanly | pipeline queues of 1 and 2, capture queue of 2, two captures; fake backends, four frames of each source, timestamps 0 to 3; failing ones, two sizes, three frames, timestamps 0 to 2 |
| `model_catalog` | ids unique and models valid, loads exact | three files out of six kinds, or no directory, edited at any time |
| `pure_functions` | what is read from a manifest is what is written, and usable; arguments mean what they say, in both programs, and manifests are valid; sizes, presets, colors through floats, alpha | every text of three lines out of 23, alone or after a valid header; four words out of 16, `unsigned` of 3 bits, `long` of 6; sources and monitors of 0 to 9 pixels a side; all bytes with all alphas; floats of 20 bits |
| `overload_keeps_newest`, `stop_releases_frames`, `source_error_disconnects` | sentences of the documents, which the code contradicts | small instances of the same models |

The MC modules of `pipeline`, `backends`, `smoke` and `app` hold several instances of
their specification, told apart by a variable that never changes. Types and queue
bounds are proved (`TypeOK` of the queue, the pipelines and the capture), so no run repeats them.
The refinement of `BackendContract` is run with the weaker promise of ONNX backends;
that fake ones never fail while initialized is part of what is proved.

Why these bounds suffice. The queue has room to be empty, partly full, full, and
to wrap through a reset twice. The output queue of the pipeline has an odd
capacity, so that it can fill between the two publications of one call, and the
frames outnumber both queues; equal, adjacent and distant timestamps exercise the
truncation of the halfway point. Eight frames pass the program's input queue of 4
and, at 2N - 1 outputs, come to 15 of 16 if the loop failed to drain. The six
manifests have one for each thing `initialize()` and `load()` look at, and two that
suit the upscaler; two sessions are one for each backend, and no session is
ever shared. Sizes 1 and 2 meet the scales 2 and 1.5 with and without rounding,
and a result of the wrong size. In the
capture model four calls give two complete sessions and a `stop()` racing with the
second; two callbacks give one that works and one that waits or arrives late; a
queue of 2 overflows with three frames. The window program empties its pipeline
in every tick, so an input queue of 1 and an output queue of 2 are what it ever
needs; two captures give a switch away from the synthetic source and one from
capture to capture. Three lines after a header set a key, set it again and set
another one that the validation compares it with. Three files are a good one and
two that collide or fail before or after it. Four words hold an option with its
value after another one, or after a flag or an unknown option. Sides of 0 to 9
contain every order of the two ratios, ties, and sides that vanish. The numbers are bounds of TLC's
instances only: the theorems hold for all of them. `MaxFrames`, `MaxPts`,
`MaxAdmitted`, `MaxCalls` and `MaxSequence` exist only in the guards of inputs.

Deadlock is checked where the system cannot stop (`shared_queue`, the two pipelines and
the backends, where a call is always possible). The smoke program ends, and the capture model
ends when its calls are used up, the window program ends when it is closed, and the
enumerations end with their inputs, so their configurations say
`CHECK_DEADLOCK FALSE`; that a controller cannot get stuck is `CallsReturn`.

### Fairness

`SmokeCli` assumes weak fairness of its next step: `main` is one thread, every
call in it returns, and the operating system runs it. `WindowCapture` assumes weak
fairness of the steps inside `start()`, `stop()` and a callback, that is, of a
thread that has begun a call. No fairness is assumed of the caller, of the system
that dispatches callbacks, or of `try_receive`. Weak fairness is enough for the
mutexes because calls are few: with an unbounded number of callers a mutex that is
not fair could starve one of them, which `std::mutex` does allow. `WindowsApp`
assumes weak fairness of what its thread does by itself (`UiStep`): launching, ticks,
which the timer repeats until the content window is destroyed, and leaving after the
quit message. Nothing is assumed of the user or of the capture, which need never
deliver a frame.

### What disagrees with the documents

- `docs/plan.md:49-50` says that under overload old work is discarded. The input
  queue refuses the newest frame and keeps the old ones (`OverloadKeepsNewest`).
- `docs/flows.md:104-110` says that ending releases queues and surfaces. `stop()`
  only closes the queues; frames stay in them until the pipeline is destroyed, and
  can still be received (`StopReleasesFrames`).
- `docs/flows.md:18-19` says that an error of the source leads back to
  `disconnected`. A failed capture stays in use and is never asked whether it
  runs (`SourceErrorDisconnects`).

Two more can be read off the models without a run. `docs/flows.md:17-18` says that a
recoverable error restarts the stage; no action of `WindowsApp` leaves the state
`error` but the end of the program, and each tick throws a frame away.
`docs/plan.md:157-158` says that the catalog validates inputs and license; `Validate`
looks at neither.

Seen in the capture model, where no document says otherwise: a callback of an old
session that finds its pool closed clears `running` of the new session, and a
frame of the old session can be the first one of the new. `FramesInOrder` says
exactly how far the second can go. In the window program, a pipeline in state `error`
takes a frame of its source at every tick and refuses it, while the window shows
"running": `ScreenCurrent` is about what is painted and does not exclude it. And
`Quit` is the whole shutdown in one step; that a capture can be stopped under its
callbacks is a property of `WindowCapture`.

## What is proved

All theorems are about the specifications TLC checks, for every value of their
constants under the assumptions named next to them (`SharedQueueAssumption`,
`PipelineAssumption`, `PassthroughAssumption`, `BackendsAssumption`,
`CaptureAssumption`, `CliAssumption`, `AppAssumption`, `CatalogAssumption`,
`InputAssumption`, `RangeAssumption`, `FloatAssumption`: capacities and bounds are natural numbers,
`NoValue` is no value, `Nobody` is no thread, the owner is a controller, a manifest has
the members of the struct, a text is a sequence of lines, and `long` holds a whole
number of times what `unsigned` does, and a float has at least nine bits). The theorems about the two
programs carry a hypothesis besides: the capacities of the pipeline are constants, and
it must have room for what one turn of the program's loop gives it.

| Component | Theorems | Inductive invariant |
|---|---|---|
| `SharedQueue` | types and capacity, `HoldsTheRest`, `ClosedAdmitsNothing`, refinement of `FrameChannel` | `HoldsTheRest` with the types |
| `ProcessingPipeline` | types, `InputConserved`, `WorkAccounted`, `BackendsPresent`, `StoppedForGood`, `DeliveredInOrder`, `StateExplained`, refinement of `FrameStream` | `CountInv`, `BothClosed`, `OrderInv`; `StreamInv` is all of them |
| `PassthroughPipeline` | types, `FramesAccounted`, refinement of `FrameStream` | `StreamInv` |
| `VideoBackends` | `ModelsAgree`, `ProviderHonest`, `NothingLeaks`, `FailureExplained`, `ScaleHonoured`, refinement of `BackendContract` | `BackendsInv` |
| `SmokeCli` | `OnlyBackendsFail`, `SmokeContract` | `CliInv`, one part per statement of the loop |
| `WindowCapture` | types and mutexes, `RaceFree`, `QuietAfterStop`, `WholeOrGone`, `FramesInOrder`, refinement of `FrameSource` | `RaceInv`, `WholeInv`, `OrderInv`, `DeathInv` |
| `WindowsApp` | `ScreenCurrent`, `PaintedInOrder` | `AppInv`: `TickInv` and `PaintInv` |
| `ModelCatalog` | `CatalogSound`, `LoadFaithful` | `CatalogInv` |
| `PureFunctions` | `FromTextExact`, `LoadedIsUsable`, `CliRunsAsAsked`, `AppReadsAsCli`, `ManifestsValid`, `ResolutionFits`, `PixelsKept` | `InputTypes`; the work is in what follows from it |

The arguments, where they are not obvious:

- *Queue.* The refinement needs that the head of the queue is the log entry that
  leaves next, which is `HoldsTheRest`.
- *Pipeline.* The counters (`CountInv`) need only the types, and that `previous` is
  empty until something was published. `StoppedForGood` needs that both queues close
  together (`BothClosed`). `DeliveredInOrder` alone is not inductive: what is
  published next depends on frames not yet published. `OrderInv` adds that the input
  queue is in order (`InputOrdered`), that every frame that left or waits to leave is
  behind every frame still to come (`EmittedBehind`), and that it may not pass the
  frame halfway from `previous` to the next one (`PreviousBehind`). The last part is
  why an interpolated frame whose successor was dropped does no harm: the next halfway
  point starts at the same `previous` and goes to a later frame. The arithmetic is in
  `Halfway` lemmas. In the refinement of `FrameStream` a call of `process_one()` is one
  step of the stream whatever it publishes; `TimestampsAppend` and `TimestampsTail` say
  how the queue's timestamps follow the queue.
- *Pass-through.* The same stream from the same kind of invariant, without `previous`;
  `process_one()` on a stopped pipeline is a step that yields nothing.
- *Backends*, for any number of sessions and any manifests. A backend is
  initialized exactly while it holds a session, no session is shared, only a held
  session is loaded, and a held fake session always is; the last part is why a fake
  backend cannot fail. `LoadAnswer` is the lemma about every outcome of `load()`.
- *Capture*, for any number of controllers and callbacks. `RaceInv` adds that only
  the owner is inside `start()`, that `running` is only set while the capture is up
  and no controller works on it, that a callback in `using` finds the same, and that
  a capture that is down is quiet. The key step is `StopBarrier`: `callback_mutex`
  is free, so no callback is in `using`, and none can get there any more because
  `running` is off. `OrderInv` adds `StaleComesFirst`: a late callback of an old
  session holds `callback_mutex` since before its pool was closed, so nothing was
  numbered in the meantime, and the one frame it delivers is number 0. `WholeInv` says
  who is to blame for a capture without its pool or its frames: a controller that is
  clearing it, or one that has not finished (`AtWork`); a `start()` that fails stays
  among these until its own `stop()`, or another one, has taken everything down.
  `DeathInv` is why a whole capture runs or left a message. There is one
  lemma per step of a controller, and one for all steps of a callback.
- *Programs.* Their proofs build on lemmas about the pipeline alone, at the end of
  `ProcessingPipelineProofs`: what one call of `submit()` or `process_one()` comes to
  when both queues were empty. `CliInv` counts: at each statement the frames received
  and queued are those that `index` frames come to. `TickInv` follows the last frame
  offered through a tick; `PaintInv` says that the source in use is ahead of it, and
  promises nothing of the first frame after a switch. Hypothesis: `RoomForOne`, an
  input queue of at least one and an output queue of at least two with interpolation
  (`main()` and `wWinMain()` make far larger ones).
- *Catalog*, for any names, files and orders of a listing. `LoadInv` follows a
  load: the catalog is what it was with one model behind it for each file the load
  has been through, under ids that differ; `StopsForGood` says why the file at which
  it stops could not have fitted in any order. `LoadedIsValid`: `load_file()` changes
  paths after the validation, and what it returns is valid still. That a text is
  read into a manifest is a lemma of the next part, and no assumption.
- *Texts and command lines*, of any length. The prover cannot instantiate the library's
  induction theorems, which take an operator, but it can state induction over a set:
  `InductiveSequences` of `Folding` says that a set of sequences that holds the empty
  one and every one longer than a member holds them all, and `FoldAppend` what one more
  element adds to a fold. Both hold for any operator, since `Folding` has it as a
  constant; `DataProofs` instantiates the module with `ReadLine`, `ReadWord` and
  `AppReadWord`. What the loop has done after a part of its input is the invariant
  (`ReadSoFar` for the lines of a text, `CliSoFar` and `AppSoFar` for words: for each
  option the value at its latest position, and whether the last word waits for its
  value), and each branch of the loop is one case of the induction. `AppIsAsCli`
  follows from both loops being characterized by the same positions.
- *Pictures*, of any size. Quotients are compared by multiplying out (`DivMod`,
  `TimesOrder`). Whether a tie goes up or down, a side is a number at most half a pixel
  from the fraction (`NearestIs`); that is all most lemmas use, and why they hold for
  the code's doubles. `SideOrder` is why the side that does not bind fits as well: to
  multiply a length by the smaller of two fractions comes to no more. `BaseEnough` is why
  a preset may come to what it comes to from the base: either the source fits as it is
  and is its own base, or the base already fills one side of the monitor, and then so
  does every preset, which shrinks the source by as much (`FullSide`, `FullShare`).
  `StrongerPreset` compares two presets of one source.
- *Colors*, for floats of any precision. The quotient is off by at most half a unit of
  its last digit, the product by another half; brought to one denominator the two
  errors stay below one half of 255ths (`ByteComesBack`), so that `lround` meets the byte again.
  For `AlphaSpread` the pixels that take their alpha from one of the source form an
  interval (`TakenFrom`), whose ends are two neighbouring quotients (`Begin`).

Model-checked only: the liveness properties (`AlwaysEnds`, `CallsReturn`,
`CapturedGetsPainted`, `ClosingEnds`), since fairness and `ENABLED` are out of the
prover's reach. Every invariant and every action property of the runs is proved.

## Not modelled

The promises of two parts are not composed in one theorem: a smoke program over the
contract of `VideoBackends`. `ImplementsContract` and the theorems about `SmokeCli` meet
in what `ProcessingPipeline` assumes of its backends.

Left out:

- Two threads in `start()` of one capture: `swave_app` starts each object once, from
  one thread, and nothing else in the repository starts one.
- `last_error()` of the capture, which nothing reads, and the pointer `find()` returns,
  which nobody keeps.
- The size of an interpolated frame: no document promises it.
- The generated picture, painting, window creation, the list of windows, texts of
  messages, the build and packaging scripts, and the insides of the Windows and ONNX
  Runtime libraries. The repository has no code for playback, recovery or the
  degradation that its documents plan.
