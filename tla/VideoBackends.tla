--------------------------- MODULE VideoBackends ---------------------------
(***************************************************************************)
(* The upscaler and the interpolator of a pipeline and the inference       *)
(* sessions they run on: initialize(), process() and close() of the        *)
(* backends, load(), run() and close() of the sessions, with every way a   *)
(* call can fail half-way.                                                 *)
(*                                                                         *)
(* A session may be tried again after a failure, with another manifest or  *)
(* another provider, but as in the programs each backend has a session of  *)
(* its own and is closed before it is given another.  Pixels are reduced   *)
(* to the size of a picture, strings to whether they are empty.            *)
(***************************************************************************)
EXTENDS Integers, Sequences, SequencesExt

CONSTANTS Provider,        \* "fake" or "onnx": the class of both backends
          HasOnnxRuntime,  \* whether the build contains OnnxRuntimeSession
          Sessions, NoSession,
          Manifests,       \* the manifests offered
          Sizes            \* sizes of frames offered and of tensors returned

ASSUME BackendsAssumption ==
    /\ Provider \in {"fake", "onnx"}
    /\ HasOnnxRuntime \in BOOLEAN
    /\ NoSession \notin Sessions
    /\ Sizes \subseteq Nat \ {0}
    /\ \A m \in Manifests :
          /\ m.kind \in {"upscaler", "interpolator"} /\ {m.valid, m.nchw} \subseteq BOOLEAN
          /\ {m.inputs, m.scale} \subseteq Nat

VARIABLES sessions, backends,
          outcome          \* history: the last call of a backend

vars == <<sessions, backends, outcome>>

-----------------------------------------------------------------------------

Roles == {"upscaler", "interpolator"}

\* What a program asks make_inference_session() and load() for.
Providers == {"fake", "tensorrt", "cuda"}

\* validate() and the tests of initialize() look at a manifest only through the
\* flags valid and nchw and the number of names in input_names; native_scale is
\* in tenths.
NoManifest == [id |-> "none"]

\* A session holds a manifest and, as history, the provider it was built for.
NoModel == [manifest |-> NoManifest, provider |-> "none"]

Unmade == [kind |-> "unmade", provider |-> "none", model |-> NoModel]

IdleBackend == [initialized |-> FALSE, session |-> NoSession, manifest |-> NoManifest]

Loaded(s) == sessions[s].model # NoModel

Init ==
    /\ sessions = [s \in Sessions |-> Unmade]
    /\ backends = [role \in Roles |-> IdleBackend]
    /\ outcome = [call |-> "none", role |-> "none", result |-> "ok", message |-> "empty",
                  taken |-> 0, produced |-> 0]

\* The caller passes an error string that is empty or that an earlier failure
\* filled; a call leaves it alone or writes it.
Report(call, role, result, message) ==
    outcome' = [call |-> call, role |-> role, result |-> result, message |-> message,
                taken |-> 0, produced |-> 0]

-----------------------------------------------------------------------------
(***************************************************************************)
(* Sessions.                                                               *)
(***************************************************************************)

\* make_inference_session(): no session at all when the build lacks the provider.
MakeSession(s, provider) ==
    /\ sessions[s] = Unmade
    /\ provider = "fake" \/ HasOnnxRuntime
    /\ sessions' = [sessions EXCEPT ![s] =
          IF provider = "fake" THEN [kind |-> "fake", provider |-> "fake", model |-> NoModel]
          ELSE [kind |-> "onnx", provider |-> "cuda", model |-> NoModel]]
    /\ UNCHANGED <<backends, outcome>>

\* Mutant: the exception handler keeps the session that was loaded before.
BuildsKeeping(session, manifest, provider) ==
    {[result |-> "failed", session |-> session],
     [result |-> "failed", session |-> [session EXCEPT !.provider = provider]],
     [result |-> "ok", session |-> [session EXCEPT
         !.provider = provider, !.model = [manifest |-> manifest, provider |-> provider]]]}

\* The provider is appended, recorded, and then the session is built: either of
\* the two calls may throw, and the handler drops the session loaded before.
Builds(session, manifest, provider) ==
    {[result |-> "failed", session |-> [session EXCEPT !.model = NoModel]],
     [result |-> "failed", session |-> [session EXCEPT !.provider = provider, !.model = NoModel]],
     [result |-> "ok", session |-> [session EXCEPT
         !.provider = provider, !.model = [manifest |-> manifest, provider |-> provider]]]}

\* What load() of a fake session may answer and leave behind.
FakeLoads(session, manifest) ==
    IF manifest.valid
    THEN {[result |-> "ok", session |->
              [session EXCEPT !.model = [manifest |-> manifest, provider |-> "fake"]]]}
    ELSE {[result |-> "failed", session |-> session]}

\* What load() of an ONNX session may answer.  A manifest that is not valid, a
\* file that is missing and a provider it does not know leave the session as it
\* was, and so does a cache directory that cannot be created, whose exception
\* load() does not catch.
OnnxLoads(session, manifest, provider) ==
    {[result |-> "failed", session |-> session]}
    \cup (IF manifest.valid THEN {[result |-> "thrown", session |-> session]} ELSE {})
    \cup (IF manifest.valid /\ provider # "fake" THEN Builds(session, manifest, provider) ELSE {})

Loads(session, manifest, provider) ==
    IF session.kind = "fake" THEN FakeLoads(session, manifest)
    ELSE OnnxLoads(session, manifest, provider)

\* The tensors run() may return for these inputs; it may also fail.  An ONNX
\* model returns what it likes, a fake session its inputs.
Tensors == [size : Sizes, sound : BOOLEAN]

RunReturns(s, inputs) ==
    CASE ~Loaded(s) -> {}
      [] Loaded(s) /\ sessions[s].kind = "fake" -> {inputs}
      [] Loaded(s) /\ sessions[s].kind = "onnx" ->
            IF inputs # <<>> /\ sessions[s].model.manifest.inputs \in {0, Len(inputs)}
            THEN {<<>>} \cup {<<tensor>> : tensor \in Tensors} ELSE {}

RunMayFail(s) == ~Loaded(s) \/ sessions[s].kind = "onnx"

-----------------------------------------------------------------------------
(***************************************************************************)
(* Backends.                                                               *)
(***************************************************************************)

\* The tests of initialize() before it calls load().
Suits(role, s, manifest) ==
    /\ manifest.kind = role
    /\ s # NoSession
    /\ manifest.nchw
    /\ manifest.inputs = 0 => role # "interpolator"

\* Mutant: manifest_ is assigned before load() has answered.
AdoptEarly(role, s, manifest, result) ==
    backends' = [backends EXCEPT ![role] =
        IF result = "ok" THEN [initialized |-> TRUE, session |-> s, manifest |-> manifest]
        ELSE [@ EXCEPT !.manifest = manifest]]

\* Only after load() succeeded does the backend take the session and the manifest.
Adopt(role, s, manifest, result) ==
    backends' = IF result = "ok"
                THEN [backends EXCEPT ![role] =
                         [initialized |-> TRUE, session |-> s, manifest |-> manifest]]
                ELSE backends

\* The program has no session for this backend, or one of its own.  Fake backends
\* only ever run on fake sessions; the tests put ONNX backends on fake ones too.
MayHave(role, s) ==
    /\ s # NoSession => sessions[s] # Unmade /\ (sessions[s].kind = "onnx" => Provider = "onnx")
    /\ backends[role].session \in {NoSession, s}
    /\ \A other \in Roles \ {role} : s # NoSession => backends[other].session # s

Initialize(role, s, manifest, provider, text) ==
    /\ MayHave(role, s)
    /\ \/ /\ ~Suits(role, s, manifest)
          /\ Report("initialize", role, "failed", "new")
          /\ UNCHANGED <<sessions, backends>>
       \/ /\ Suits(role, s, manifest)
          /\ \E answer \in Loads(sessions[s], manifest, provider) :
                /\ sessions' = [sessions EXCEPT ![s] = answer.session]
                /\ Adopt(role, s, manifest, answer.result)
                /\ Report("initialize", role, answer.result,
                          IF answer.result = "failed" THEN "new" ELSE text)

\* Mutant: close() drops the session without closing it.
SessionsKept(role) == sessions

\* The sessions once this backend has closed its own, if it has one.
SessionsClosing(role) ==
    LET s == backends[role].session IN
    IF s = NoSession THEN sessions ELSE [sessions EXCEPT ![s].model = NoModel]

\* Mutant: close() closes the session but forgets it is no longer initialized.
CloseStillInitialized(role, text) ==
    /\ sessions' = SessionsClosing(role)
    /\ UNCHANGED backends
    /\ Report("close", role, "ok", text)

Close(role, text) ==
    /\ sessions' = SessionsClosing(role)
    /\ backends' = [backends EXCEPT ![role].initialized = FALSE, ![role].session = NoSession]
    /\ Report("close", role, "ok", text)

\* lround(size * scale): a half is rounded away from zero.
Scaled(size, scale) == (size * scale + 5) \div 10

\* Mutant: the size of the result is not compared with the scale.
AcceptsAnySize(role, frames, outputs) == outputs # <<>> /\ outputs[1].sound

\* Whether the backend makes a frame of what the session returned: the ONNX
\* upscaler compares the size with the scale of its manifest, the interpolator
\* takes any size, and the fake ones do not look.
AcceptsOutput(role, frames, outputs) ==
    \/ Provider = "fake"
    \/ /\ outputs # <<>> /\ outputs[1].sound
       /\ role = "upscaler" =>
             outputs[1].size = Scaled(frames[1].size, backends[role].manifest.scale)

\* A frame without pixels, in another format or too short, or two frames of
\* different sizes, fail before the session is asked.
FramesFit(frames) ==
    Provider = "onnx" => /\ \A i \in DOMAIN frames : frames[i].usable
                         /\ \A i, j \in DOMAIN frames : frames[i].size = frames[j].size

\* The fake backends run the session without inputs; the ONNX interpolator adds
\* the timestep to its two frames.
Inputs(role, frames) ==
    LET tensors == [i \in DOMAIN frames |-> [size |-> frames[i].size, sound |-> TRUE]] IN
    CASE Provider = "fake" -> <<>>
      [] Provider = "onnx" /\ role = "upscaler" -> tensors
      [] Provider = "onnx" /\ role = "interpolator" -> Append(tensors, [size |-> 1, sound |-> TRUE])

\* The fake backends give back a frame they were given.
Produced(frames, outputs) ==
    IF Provider = "fake" THEN Last(frames).size ELSE outputs[1].size

\* Mutant: a session that returns nothing leaves no message.
SilentMessageAsIs(text) == text

\* The message for a session that returned no output, unless one is there.
SilentMessage(text) == IF text = "empty" THEN "new" ELSE text

Process(role, frames, text) ==
    LET s == backends[role].session
        ready == backends[role].initialized /\ FramesFit(frames) IN
    /\ \/ /\ ~ready
          /\ Report("process", role, "failed", "new")
       \/ /\ ready /\ RunMayFail(s)
          /\ Report("process", role, "failed", "new")
       \/ /\ ready
          /\ \E outputs \in RunReturns(s, Inputs(role, frames)) :
                \/ /\ AcceptsOutput(role, frames, outputs)
                   /\ outcome' = [call |-> "process", role |-> role, result |-> "ok",
                                  message |-> text, taken |-> frames[1].size,
                                  produced |-> Produced(frames, outputs)]
                \/ /\ ~AcceptsOutput(role, frames, outputs) /\ outputs # <<>>
                   /\ Report("process", role, "failed", "new")
                \/ /\ ~AcceptsOutput(role, frames, outputs) /\ outputs = <<>>
                   /\ Report("process", role, "silent", SilentMessage(text))
    /\ UNCHANGED <<sessions, backends>>

Frames == [size : Sizes, usable : BOOLEAN]

FramesFor(role) == IF role = "upscaler" THEN [1 .. 1 -> Frames] ELSE [1 .. 2 -> Frames]

Next ==
    \/ \E s \in Sessions, provider \in Providers : MakeSession(s, provider)
    \/ \E role \in Roles, text \in {"empty", "old"} :
          \/ \E s \in Sessions \cup {NoSession}, manifest \in Manifests, provider \in Providers :
                Initialize(role, s, manifest, provider, text)
          \/ \E frames \in FramesFor(role) : Process(role, frames, text)
          \/ Close(role, text)

Spec == Init /\ [][Next]_vars

-----------------------------------------------------------------------------
(***************************************************************************)
(* Properties.                                                             *)
(***************************************************************************)

SessionOf(role) == sessions[backends[role].session]

\* Types; a session and its provider are of one kind.
TypeOK ==
    /\ \A s \in Sessions :
          /\ sessions[s].kind \in {"unmade", "fake", "onnx"}
          /\ sessions[s].model = NoModel \/ sessions[s].model.manifest \in Manifests
          /\ sessions[s].provider \in CASE sessions[s].kind = "unmade" -> {"none"}
                                        [] sessions[s].kind = "fake" -> {"fake"}
                                        [] sessions[s].kind = "onnx" -> {"tensorrt", "cuda"}
    /\ \A role \in Roles :
          /\ backends[role].session \in Sessions \cup {NoSession}
          /\ backends[role].manifest \in Manifests \cup {NoManifest}
          /\ backends[role].initialized \in BOOLEAN

\* A backend that process() may use has a session, and the manifest it goes by
\* is that of the model in the session, one of its own kind, whatever
\* initialize() was tried with, and failed, in between.
ModelsAgree ==
    \A role \in Roles : backends[role].initialized =>
        /\ backends[role].session # NoSession
        /\ backends[role].manifest.kind = role
        /\ SessionOf(role).model \in {NoModel} \cup
              {[manifest |-> backends[role].manifest, provider |-> p] : p \in Providers}

\* No silent fallback: while a session is loaded, provider() is the provider it
\* was asked for and built with, also after a second load() that failed.
ProviderHonest ==
    \A s \in Sessions : Loaded(s) => sessions[s].provider = sessions[s].model.provider

\* A loaded session belongs to a backend that will close it, so that a model
\* does not stay in memory when the pipeline stops.
NothingLeaks ==
    \A s \in Sessions : Loaded(s) =>
        \E role \in Roles : backends[role].initialized /\ backends[role].session = s

\* A call that fails says why; an older message is passed off as its own in one
\* case only, that of a session that returned no output.
FailureExplained ==
    /\ outcome.result = "failed" => outcome.message = "new"
    /\ outcome.result = "silent" => outcome.message \in {"old", "new"}

\* A frame upscaled by an ONNX model has the size the model promises: that of the
\* manifest the session was loaded with.
ScaleHonoured ==
    outcome.call = "process" /\ outcome.role = "upscaler" /\ outcome.result = "ok"
    /\ backends["upscaler"].session # NoSession /\ SessionOf("upscaler").kind = "onnx" =>
        outcome.produced = Scaled(outcome.taken, SessionOf("upscaler").model.manifest.scale)

\* The backends are what the pipeline takes them for; the fake ones never fail
\* while they are initialized, whatever initialize() was tried with since.
Contract == INSTANCE BackendContract WITH
    Reliable <- Provider = "fake",
    status <- [role \in Roles |-> IF backends[role].initialized THEN "ready" ELSE "closed"],
    answer <- [call |-> outcome.call, role |-> outcome.role, ok |-> outcome.result = "ok"]
ImplementsContract == Contract!Spec
=============================================================================
