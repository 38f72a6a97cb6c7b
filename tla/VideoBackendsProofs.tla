------------------------ MODULE VideoBackendsProofs ------------------------
(***************************************************************************)
(* The backends are what the pipeline takes them for, agree with their     *)
(* sessions, explain their failures and keep to the scale of their model,  *)
(* for any number of sessions, any manifests and any sizes.                *)
(***************************************************************************)
EXTENDS VideoBackends, TLAPS

Models == [manifest : Manifests, provider : Providers]

\* A session: the provider it names is of its own kind, and while it is loaded
\* it is the provider it was built for.
SessionOK(session) ==
    /\ session \in [kind : {"unmade", "fake", "onnx"},
                    provider : Providers \cup {"none"},
                    model : Models \cup {NoModel}]
    /\ session.kind = "unmade" => session.provider = "none" /\ session.model = NoModel
    /\ session.kind = "fake" => session.provider = "fake"
    /\ session.kind = "onnx" => session.provider \in {"tensorrt", "cuda"}
    /\ session.model # NoModel => session.provider = session.model.provider

\* The invariant.  A backend is initialized exactly while it has a session, no
\* session is shared, and what a backend has agrees with it; only a session that
\* is held is loaded, and a fake one that is held is loaded always.
HoldsWell(role) ==
    LET b == backends[role] IN
    /\ b.session # NoSession <=> b.initialized
    /\ b.session # NoSession =>
          /\ sessions[b.session].kind # "unmade"
          /\ b.manifest \in Manifests /\ b.manifest.kind = role
          /\ Loaded(b.session) => sessions[b.session].model.manifest = b.manifest
          /\ Provider = "fake" => sessions[b.session].kind = "fake" /\ Loaded(b.session)

Held(s) == \E role \in Roles : backends[role].session = s

NotShared ==
    \A role, other \in Roles :
        role # other /\ backends[role].session # NoSession =>
            backends[role].session # backends[other].session

BackendsInv ==
    /\ sessions = [s \in Sessions |-> sessions[s]]
    /\ \A s \in Sessions : SessionOK(sessions[s])
    /\ backends \in [Roles -> [initialized : BOOLEAN, session : Sessions \cup {NoSession},
                               manifest : Manifests \cup {NoManifest}]]
    /\ NotShared
    /\ \A role \in Roles : HoldsWell(role)
    /\ \A s \in Sessions : Loaded(s) => Held(s)

-----------------------------------------------------------------------------
(***************************************************************************)
(* load() and close() of a session.                                        *)
(***************************************************************************)

\* A model with a provider that exists is not the empty one.
LEMMA ModelIsOne ==
  ASSUME NEW model \in Models
  PROVE  model # NoModel
  BY DEF Models, NoModel, Providers

\* Whatever load() answers, the session stays well formed; a success loads the
\* manifest that was given, and a failure keeps the old model or drops it, and
\* does nothing at all to a fake session.
LEMMA LoadAnswer ==
  ASSUME NEW session, SessionOK(session), session.kind # "unmade",
         NEW manifest \in Manifests, NEW provider \in Providers,
         NEW answer \in Loads(session, manifest, provider)
  PROVE  /\ SessionOK(answer.session)
         /\ answer.session.kind = session.kind
         /\ answer.result = "ok" =>
               answer.session.model \in Models /\ answer.session.model.manifest = manifest
         /\ answer.result # "ok" => answer.session.model \in {session.model, NoModel}
         /\ answer.result # "ok" /\ session.kind = "fake" => answer.session = session
<1>1. session = [kind |-> session.kind, provider |-> session.provider, model |-> session.model]
  BY DEF SessionOK
<1>2. CASE session.kind = "fake"
  <2>1. answer \in FakeLoads(session, manifest)
    BY <1>2 DEF Loads
  <2>2. CASE answer = [result |-> "failed", session |-> session]
    BY <2>2
  <2>3. CASE answer = [result |-> "ok", session |->
                 [session EXCEPT !.model = [manifest |-> manifest, provider |-> "fake"]]]
    <3>1. answer.session = [kind |-> "fake", provider |-> session.provider,
                            model |-> [manifest |-> manifest, provider |-> "fake"]]
      BY <1>1, <1>2, <2>3
    <3>2. [manifest |-> manifest, provider |-> "fake"] \in Models
      BY DEF Models, Providers
    <3>3. QED
      BY <1>2, <2>3, <3>1, <3>2 DEF SessionOK
  <2>4. QED
    BY <2>1, <2>2, <2>3 DEF FakeLoads
<1>3. CASE session.kind = "onnx"
  <2>1. answer \in OnnxLoads(session, manifest, provider)
    BY <1>3 DEF Loads
  <2>2. CASE answer \in {[result |-> "failed", session |-> session],
                         [result |-> "thrown", session |-> session]}
    BY <1>3, <2>2
  <2>3. CASE provider # "fake" /\ answer \in Builds(session, manifest, provider)
    <3>1. CASE answer = [result |-> "failed", session |-> [session EXCEPT !.model = NoModel]]
      <4>1. answer.session = [kind |-> "onnx", provider |-> session.provider, model |-> NoModel]
        BY <1>1, <1>3, <3>1
      <4>2. QED
        BY <1>3, <3>1, <4>1 DEF SessionOK
    <3>2. CASE answer = [result |-> "failed",
                         session |-> [session EXCEPT !.provider = provider, !.model = NoModel]]
      <4>1. answer.session = [kind |-> "onnx", provider |-> provider, model |-> NoModel]
        BY <1>1, <1>3, <3>2
      <4>2. QED
        BY <1>3, <2>3, <3>2, <4>1 DEF SessionOK, Providers
    <3>3. CASE answer = [result |-> "ok", session |-> [session EXCEPT
                  !.provider = provider, !.model = [manifest |-> manifest, provider |-> provider]]]
      <4>1. answer.session = [kind |-> "onnx", provider |-> provider,
                              model |-> [manifest |-> manifest, provider |-> provider]]
        BY <1>1, <1>3, <3>3
      <4>2. [manifest |-> manifest, provider |-> provider] \in Models
        BY DEF Models
      <4>3. QED
        BY <1>3, <2>3, <3>3, <4>1, <4>2 DEF SessionOK, Providers
    <3>4. QED
      BY <2>3, <3>1, <3>2, <3>3 DEF Builds
  <2>4. QED
    BY <2>1, <2>2, <2>3 DEF OnnxLoads
<1>4. QED
  BY <1>2, <1>3 DEF SessionOK

-----------------------------------------------------------------------------

\* New backends hold sessions of their own, or none.
LEMMA BackendsInvInit == Init => BackendsInv
<1> SUFFICES ASSUME Init
             PROVE  BackendsInv
  OBVIOUS
<1>1. /\ sessions = [s \in Sessions |-> Unmade]
      /\ backends = [role \in Roles |-> IdleBackend]
  BY DEF Init
<1>2. \A s \in Sessions : sessions[s] = Unmade /\ ~Loaded(s)
  BY <1>1 DEF Loaded, Unmade
<1>3. \A role \in Roles : backends[role] = IdleBackend
  BY <1>1
<1>4. SessionOK(Unmade)
  BY DEF SessionOK, Unmade
<1>5. QED
  BY <1>1, <1>2, <1>3, <1>4 DEF BackendsInv, NotShared, HoldsWell, IdleBackend

\* make_inference_session() makes a session that nobody holds.
LEMMA MakeSessionInv ==
  ASSUME BackendsInv, NEW s \in Sessions, NEW provider \in Providers, MakeSession(s, provider)
  PROVE  BackendsInv'
<1>1. /\ sessions[s] = Unmade /\ UNCHANGED backends
      /\ \A t \in Sessions \ {s} : sessions'[t] = sessions[t]
      /\ sessions' = [t \in Sessions |-> sessions'[t]]
      /\ sessions'[s] \in {[kind |-> "fake", provider |-> "fake", model |-> NoModel],
                           [kind |-> "onnx", provider |-> "cuda", model |-> NoModel]}
  BY DEF MakeSession, BackendsInv
<1>2. SessionOK(sessions'[s]) /\ sessions'[s].model = NoModel
  BY <1>1 DEF SessionOK, Providers
<1>3. \A role \in Roles : backends[role].session # s
  BY <1>1, BackendsAssumption DEF BackendsInv, HoldsWell, Unmade
<1>4. \A role \in Roles : HoldsWell(role)'
  BY <1>1, <1>3 DEF BackendsInv, HoldsWell, Loaded
<1>5. \A t \in Sessions : SessionOK(sessions[t])'
  BY <1>1, <1>2 DEF BackendsInv
<1>6. \A t \in Sessions : Loaded(t)' => Held(t)'
  BY <1>1, <1>2 DEF BackendsInv, Loaded, Held
<1>7. QED
  BY <1>1, <1>4, <1>5, <1>6 DEF BackendsInv, NotShared

\* A backend takes a session and a manifest only when load() succeeded; when it
\* failed, the session is the old one or empty.
LEMMA InitializeInv ==
  ASSUME BackendsInv, NEW role \in Roles, NEW s \in Sessions \cup {NoSession},
         NEW manifest \in Manifests, NEW provider \in Providers, NEW text,
         Initialize(role, s, manifest, provider, text)
  PROVE  BackendsInv'
<1>1. CASE UNCHANGED <<sessions, backends>>
  BY <1>1 DEF BackendsInv, NotShared, HoldsWell, Held, Loaded
<1>2. ASSUME Suits(role, s, manifest),
             NEW answer \in Loads(sessions[s], manifest, provider),
             sessions' = [sessions EXCEPT ![s] = answer.session],
             Adopt(role, s, manifest, answer.result)
      PROVE  BackendsInv'
  <2>1. /\ s \in Sessions /\ manifest.kind = role
        /\ sessions[s] # Unmade
        /\ sessions[s].kind = "onnx" => Provider = "onnx"
        /\ backends[role].session \in {NoSession, s}
        /\ \A other \in Roles \ {role} : backends[other].session # s
    BY <1>2 DEF Suits, Initialize, MayHave
  <2>2. /\ sessions' = [t \in Sessions |-> sessions'[t]]
        /\ sessions'[s] = answer.session
        /\ \A t \in Sessions \ {s} : sessions'[t] = sessions[t]
    BY <1>2, <2>1 DEF BackendsInv
  <2>3. SessionOK(sessions[s]) /\ sessions[s].kind # "unmade"
    <3>1. SessionOK(sessions[s])
      BY <2>1 DEF BackendsInv
    <3>2. sessions[s] = [kind |-> sessions[s].kind, provider |-> sessions[s].provider,
                         model |-> sessions[s].model]
      BY <3>1 DEF SessionOK
    <3>3. QED
      BY <2>1, <3>1, <3>2 DEF SessionOK, Unmade
  <2>4. /\ SessionOK(answer.session)
        /\ answer.session.kind = sessions[s].kind
        /\ answer.result = "ok" =>
              answer.session.model \in Models /\ answer.session.model.manifest = manifest
        /\ answer.result # "ok" => answer.session.model \in {sessions[s].model, NoModel}
        /\ answer.result # "ok" /\ sessions[s].kind = "fake" => answer.session = sessions[s]
    BY <1>2, <2>3, LoadAnswer
  <2>5. \A t \in Sessions : SessionOK(sessions[t])'
    BY <2>2, <2>4 DEF BackendsInv
  <2>6. Provider = "fake" => sessions[s].kind = "fake"
    BY <2>1, <2>3 DEF SessionOK
  <2>7. CASE answer.result = "ok"
    <3>1. /\ backends' = [backends EXCEPT ![role] =
                [initialized |-> TRUE, session |-> s, manifest |-> manifest]]
          /\ backends'[role] = [initialized |-> TRUE, session |-> s, manifest |-> manifest]
          /\ \A other \in Roles \ {role} : backends'[other] = backends[other]
      BY <1>2, <2>7 DEF Adopt, BackendsInv
    <3>2. backends' \in [Roles -> [initialized : BOOLEAN, session : Sessions \cup {NoSession},
                                   manifest : Manifests \cup {NoManifest}]]
      BY <2>1, <3>1 DEF BackendsInv
    <3>3. NotShared'
      BY <2>1, <3>1 DEF BackendsInv, NotShared
    <3>4. Loaded(s)' /\ sessions'[s].model.manifest = manifest
      BY <2>2, <2>4, <2>7, ModelIsOne DEF Loaded
    <3>5. HoldsWell(role)'
      BY <2>1, <2>2, <2>3, <2>4, <2>6, <3>1, <3>4, BackendsAssumption DEF HoldsWell
    <3>6. \A other \in Roles \ {role} : HoldsWell(other)'
      BY <2>1, <2>2, <3>1, BackendsAssumption DEF BackendsInv, HoldsWell, Loaded
    <3>7. \A t \in Sessions : Loaded(t)' => Held(t)'
      <4>1. Held(s)'
        BY <3>1 DEF Held
      <4>2. ASSUME NEW t \in Sessions \ {s}, Loaded(t)'
            PROVE  Held(t)'
        <5>1. PICK other \in Roles : backends[other].session = t
          BY <2>2, <4>2 DEF BackendsInv, Loaded, Held
        <5>2. other # role
          BY <2>1, <4>2, <5>1, BackendsAssumption
        <5>3. QED
          BY <3>1, <5>1, <5>2 DEF Held
      <4>3. QED
        BY <4>1, <4>2
    <3>8. QED
      BY <2>2, <2>5, <3>2, <3>3, <3>5, <3>6, <3>7 DEF BackendsInv
  <2>8. CASE answer.result # "ok"
    <3>1. backends' = backends
      BY <1>2, <2>8 DEF Adopt
    <3>2. \A t \in Sessions : Loaded(t)' => Loaded(t) /\ sessions'[t].model = sessions[t].model
      BY <2>2, <2>4, <2>8 DEF Loaded
    <3>3. \A t \in Sessions :
             /\ sessions'[t].kind = sessions[t].kind
             /\ Provider = "fake" /\ t = s => sessions'[t] = sessions[t]
      BY <2>2, <2>4, <2>6, <2>8
    <3>4. \A other \in Roles : HoldsWell(other)'
      <4> SUFFICES ASSUME NEW other \in Roles
                   PROVE  HoldsWell(other)'
        OBVIOUS
      <4>1. HoldsWell(other) /\ backends[other].session \in Sessions \cup {NoSession}
        BY DEF BackendsInv
      <4>2. CASE backends[other].session = NoSession
        BY <3>1, <4>1, <4>2 DEF HoldsWell
      <4>3. CASE backends[other].session \in Sessions
        <5>1. Provider = "fake" => sessions'[backends[other].session] = sessions[backends[other].session]
          BY <2>2, <3>3, <4>3
        <5>2. QED
          BY <3>1, <3>2, <3>3, <4>1, <4>3, <5>1 DEF HoldsWell, Loaded
      <4>4. QED
        BY <4>1, <4>2, <4>3
    <3>5. QED
      BY <2>2, <2>5, <3>1, <3>2, <3>4 DEF BackendsInv, NotShared, Held
  <2>9. QED
    BY <2>7, <2>8
<1>3. QED
  BY <1>1, <1>2 DEF Initialize

\* close() empties the session it lets go of.
LEMMA CloseInv ==
  ASSUME BackendsInv, NEW role \in Roles, NEW text, Close(role, text)
  PROVE  BackendsInv'
<1> DEFINE s == backends[role].session
<1>1. /\ backends'[role] = [initialized |-> FALSE, session |-> NoSession,
                            manifest |-> backends[role].manifest]
      /\ \A other \in Roles \ {role} : backends'[other] = backends[other]
      /\ backends' \in [Roles -> [initialized : BOOLEAN, session : Sessions \cup {NoSession},
                                  manifest : Manifests \cup {NoManifest}]]
  <2> DEFINE half == [backends EXCEPT ![role] = [@ EXCEPT !.initialized = FALSE]]
  <2>1. backends' = [half EXCEPT ![role] = [@ EXCEPT !.session = NoSession]]
    BY Zenon DEF Close
  <2>2. /\ half[role] = [initialized |-> FALSE, session |-> backends[role].session,
                        manifest |-> backends[role].manifest]
        /\ \A other \in Roles \ {role} : half[other] = backends[other]
        /\ half \in [Roles -> [initialized : BOOLEAN, session : Sessions \cup {NoSession},
                               manifest : Manifests \cup {NoManifest}]]
    BY DEF BackendsInv
  <2> HIDE DEF half
  <2>3. backends' = [half EXCEPT ![role] = [initialized |-> FALSE, session |-> NoSession,
                                           manifest |-> backends[role].manifest]]
    <3>1. [half[role] EXCEPT !.session = NoSession] =
             [initialized |-> FALSE, session |-> NoSession, manifest |-> backends[role].manifest]
      <4>1. half[role] \in [initialized : BOOLEAN, session : Sessions \cup {NoSession},
                             manifest : Manifests \cup {NoManifest}]
        BY <2>2
      <4>2. [half[role] EXCEPT !.session = NoSession] =
               [initialized |-> half[role].initialized, session |-> NoSession,
                manifest |-> half[role].manifest]
        BY <4>1
      <4>3. half[role].initialized = FALSE /\ half[role].manifest = backends[role].manifest
        BY <2>2
      <4>4. QED
        BY <4>2, <4>3
    <3>2. QED
      BY <2>1, <3>1, Zenon
  <2>4. backends[role].manifest \in Manifests \cup {NoManifest}
    BY DEF BackendsInv
  <2>5. QED
    BY <2>2, <2>3, <2>4
<1>2. /\ sessions' = [t \in Sessions |-> sessions'[t]]
      /\ \A t \in Sessions \ {s} : sessions'[t] = sessions[t]
      /\ s # NoSession => sessions'[s] = [sessions[s] EXCEPT !.model = NoModel] /\ s \in Sessions
  BY DEF Close, SessionsClosing, BackendsInv
<1>3. \A t \in Sessions : SessionOK(sessions[t])'
  <2>1. s \in Sessions => SessionOK([sessions[s] EXCEPT !.model = NoModel])
    BY DEF BackendsInv, SessionOK
  <2>2. QED
    BY <1>2, <2>1, BackendsAssumption DEF BackendsInv
<1>4. NotShared'
  BY <1>1 DEF BackendsInv, NotShared
<1>5. \A other \in Roles : HoldsWell(other)'
  <2>1. HoldsWell(role)'
    BY <1>1 DEF HoldsWell
  <2>2. ASSUME NEW other \in Roles \ {role}
        PROVE  HoldsWell(other)'
    <3>1. backends[other].session # NoSession =>
             backends[other].session \in Sessions \ {s}
      BY DEF BackendsInv, NotShared
    <3>2. QED
      BY <1>1, <1>2, <3>1 DEF BackendsInv, HoldsWell, Loaded
  <2>3. QED
    BY <2>1, <2>2
<1>6. \A t \in Sessions : Loaded(t)' => Held(t)'
  <2> SUFFICES ASSUME NEW t \in Sessions, Loaded(t)'
               PROVE  Held(t)'
    OBVIOUS
  <2>1. t # s
    <3>1. s \in Sessions => [sessions[s] EXCEPT !.model = NoModel].model = NoModel
      BY DEF BackendsInv, SessionOK
    <3>2. QED
      BY <1>2, <3>1, BackendsAssumption DEF Loaded
  <2>2. PICK other \in Roles : backends[other].session = t
    BY <1>2, <2>1 DEF BackendsInv, Loaded, Held
  <2>3. QED
    BY <1>1, <2>1, <2>2 DEF Held
<1>7. QED
  BY <1>1, <1>2, <1>3, <1>4, <1>5, <1>6 DEF BackendsInv

\* Every call keeps the invariant.
LEMMA BackendsInvStep == BackendsInv /\ [Next]_vars => BackendsInv'
<1> SUFFICES ASSUME BackendsInv, [Next]_vars
             PROVE  BackendsInv'
  OBVIOUS
<1>1. ASSUME NEW s \in Sessions, NEW provider \in Providers, MakeSession(s, provider)
      PROVE  BackendsInv'
  BY <1>1, MakeSessionInv
<1>2. ASSUME NEW role \in Roles, NEW text \in {"empty", "old"},
             NEW s \in Sessions \cup {NoSession}, NEW manifest \in Manifests,
             NEW provider \in Providers, Initialize(role, s, manifest, provider, text)
      PROVE  BackendsInv'
  BY <1>2, InitializeInv
<1>3. ASSUME NEW role \in Roles, NEW text \in {"empty", "old"}, NEW frames \in FramesFor(role),
             Process(role, frames, text)
      PROVE  BackendsInv'
  BY <1>3 DEF Process, BackendsInv, NotShared, HoldsWell, Held, Loaded
<1>4. ASSUME NEW role \in Roles, NEW text \in {"empty", "old"}, Close(role, text)
      PROVE  BackendsInv'
  BY <1>4, CloseInv
<1>5. CASE UNCHANGED vars
  BY <1>5 DEF vars, BackendsInv, NotShared, HoldsWell, Held, Loaded
<1>6. QED
  BY <1>1, <1>2, <1>3, <1>4, <1>5 DEF Next

-----------------------------------------------------------------------------
(***************************************************************************)
(* What follows for every reachable state.                                 *)
(***************************************************************************)

\* So the invariant always holds.
LEMMA BackendsAlways == Spec => []BackendsInv
  BY BackendsInvInit, BackendsInvStep, PTL DEF Spec

\* A backend in use and its session agree on one model of the right kind, however
\* often initialize() was tried and failed.
THEOREM BackendsModelsAgree == Spec => []ModelsAgree
<1>1. BackendsInv => ModelsAgree
  <2> SUFFICES ASSUME BackendsInv, NEW role \in Roles, backends[role].initialized
               PROVE  /\ backends[role].session # NoSession
                      /\ backends[role].manifest.kind = role
                      /\ SessionOf(role).model \in {NoModel} \cup
                            {[manifest |-> backends[role].manifest, provider |-> p] : p \in Providers}
    BY DEF ModelsAgree
  <2>1. HoldsWell(role) /\ backends[role].session \in Sessions
    BY DEF BackendsInv, HoldsWell
  <2>2. CASE Loaded(backends[role].session)
    <3>1. /\ SessionOf(role).model \in Models
          /\ SessionOf(role).model.manifest = backends[role].manifest
      BY <2>1, <2>2 DEF HoldsWell, Loaded, SessionOf, BackendsInv, SessionOK
    <3>2. SessionOf(role).model = [manifest |-> backends[role].manifest,
                                   provider |-> SessionOf(role).model.provider]
          /\ SessionOf(role).model.provider \in Providers
      BY <3>1 DEF Models
    <3>3. QED
      BY <2>1, <3>2 DEF HoldsWell
  <2>3. CASE ~Loaded(backends[role].session)
    BY <2>1, <2>3 DEF HoldsWell, Loaded, SessionOf
  <2>4. QED
    BY <2>2, <2>3
<1>2. QED
  BY <1>1, BackendsAlways, PTL

\* provider() names the provider the loaded session was built for: no fallback
\* is silent.
THEOREM BackendsProviderHonest == Spec => []ProviderHonest
<1>1. BackendsInv => ProviderHonest
  BY DEF BackendsInv, SessionOK, ProviderHonest, Loaded
<1>2. QED
  BY <1>1, BackendsAlways, PTL

\* Every loaded session belongs to a backend whose close() releases it.
THEOREM BackendsNothingLeaks == Spec => []NothingLeaks
<1>1. BackendsInv => NothingLeaks
  <2> SUFFICES ASSUME BackendsInv, NEW s \in Sessions, Loaded(s)
               PROVE  \E role \in Roles : backends[role].initialized /\ backends[role].session = s
    BY DEF NothingLeaks
  <2>1. PICK role \in Roles : backends[role].session = s
    BY DEF BackendsInv, Held
  <2>2. backends[role].initialized
    BY <2>1, BackendsAssumption DEF BackendsInv, HoldsWell
  <2>3. QED
    BY <2>1, <2>2
<1>2. QED
  BY <1>1, BackendsAlways, PTL

-----------------------------------------------------------------------------
(***************************************************************************)
(* The contract.                                                           *)
(***************************************************************************)

Status == [role \in Roles |-> IF backends[role].initialized THEN "ready" ELSE "closed"]

\* A fake backend that is initialized finds its session loaded, and runs it.
LEMMA FakeNeverFails ==
  ASSUME BackendsInv, NEW role \in Roles, NEW frames, NEW text, Process(role, frames, text),
         Provider = "fake", backends[role].initialized
  PROVE  outcome'.result = "ok"
<1> DEFINE s == backends[role].session
<1>1. s \in Sessions /\ sessions[s].kind = "fake" /\ Loaded(s)
  BY DEF BackendsInv, HoldsWell
<1>2. ~RunMayFail(s)
  BY <1>1 DEF RunMayFail
<1>3. FramesFit(frames) /\ \A outputs : AcceptsOutput(role, frames, outputs)
  BY DEF FramesFit, AcceptsOutput
<1>4. QED
  BY <1>2, <1>3 DEF Process

\* process() only succeeds on a backend that is initialized.
LEMMA ProcessNeedsReady ==
  ASSUME NEW role \in Roles, NEW frames, NEW text, Process(role, frames, text),
         outcome'.result = "ok"
  PROVE  backends[role].initialized
  BY DEF Process, Report

\* Every call of a backend is a call of the contract with the same answer.
THEOREM BackendsImplementContract == Spec => ImplementsContract
<1>1. Init => Contract!Init
  <2> SUFFICES ASSUME Init
               PROVE  Contract!Init
    OBVIOUS
  <2>1. \A role \in Roles : backends[role].initialized = FALSE
    BY DEF Init, IdleBackend
  <2>2. outcome.call = "none" /\ outcome.role = "none" /\ outcome.result = "ok"
    BY DEF Init
  <2>3. QED
    BY <2>1, <2>2 DEF Contract!Init
<1>2. BackendsInv /\ [Next]_vars => [Contract!Next]_(Contract!contractVars)
  <2> SUFFICES ASSUME BackendsInv, [Next]_vars
               PROVE  [Contract!Next]_(Contract!contractVars)
    OBVIOUS
  <2>1. ASSUME NEW s \in Sessions, NEW provider \in Providers, MakeSession(s, provider)
        PROVE  UNCHANGED Contract!contractVars
    BY <2>1 DEF MakeSession, Contract!contractVars
  <2>2. ASSUME NEW role \in Roles, NEW text \in {"empty", "old"},
               NEW s \in Sessions \cup {NoSession}, NEW manifest \in Manifests,
               NEW provider \in Providers, Initialize(role, s, manifest, provider, text)
        PROVE  Contract!Initialize(role)
    <3>1. /\ outcome'.call = "initialize" /\ outcome'.role = role
          /\ \/ outcome'.result = "ok"
                /\ backends' = [backends EXCEPT ![role] =
                      [initialized |-> TRUE, session |-> s, manifest |-> manifest]]
             \/ outcome'.result # "ok" /\ UNCHANGED backends
      BY <2>2 DEF Initialize, Report, Adopt
    <3>2. CASE outcome'.result = "ok"
      <4>1. /\ backends'[role].initialized = TRUE
            /\ \A other \in Roles \ {role} : backends'[other] = backends[other]
        BY <3>1, <3>2 DEF BackendsInv
      <4>2. Status' = [Status EXCEPT ![role] = "ready"]
        BY <4>1 DEF Status
      <4>3. QED
        BY <3>1, <3>2, <4>2 DEF Contract!Initialize, Status
    <3>3. CASE outcome'.result # "ok"
      BY <3>1, <3>3 DEF Contract!Initialize
    <3>4. QED
      BY <3>2, <3>3
  <2>3. ASSUME NEW role \in Roles, NEW text \in {"empty", "old"}, NEW frames \in FramesFor(role),
               Process(role, frames, text)
        PROVE  Contract!Process(role)
    <3>1. outcome'.call = "process" /\ outcome'.role = role /\ UNCHANGED backends
      BY <2>3 DEF Process, Report
    <3>2. outcome'.result = "ok" => backends[role].initialized
      BY <2>3, ProcessNeedsReady
    <3>3. Provider = "fake" /\ backends[role].initialized => outcome'.result = "ok"
      BY <2>3, FakeNeverFails
    <3>4. Status[role] = "ready" <=> backends[role].initialized
      BY DEF Status
    <3>5. QED
      BY <3>1, <3>2, <3>3, <3>4 DEF Contract!Process, Status
  <2>4. ASSUME NEW role \in Roles, NEW text \in {"empty", "old"}, Close(role, text)
        PROVE  Contract!Close(role)
    <3>1. outcome'.call = "close" /\ outcome'.role = role /\ outcome'.result = "ok"
      BY <2>4 DEF Close, Report
    <3>2. /\ backends'[role].initialized = FALSE
          /\ \A other \in Roles \ {role} : backends'[other] = backends[other]
      BY <2>4 DEF Close, BackendsInv
    <3>3. Status' = [Status EXCEPT ![role] = "closed"]
      BY <3>2 DEF Status
    <3>4. QED
      BY <3>1, <3>3 DEF Contract!Close, Status
  <2>5. ASSUME UNCHANGED vars
        PROVE  UNCHANGED Contract!contractVars
    BY <2>5 DEF vars, Contract!contractVars
  <2>6. QED
    BY <2>1, <2>2, <2>3, <2>4, <2>5 DEF Next, Contract!Next
<1>3. QED
  BY <1>1, <1>2, BackendsAlways, PTL DEF Spec, ImplementsContract, Contract!Spec

-----------------------------------------------------------------------------
(***************************************************************************)
(* What the last call said of itself.                                      *)
(***************************************************************************)

\* load() answers in one of three ways.
LEMMA LoadResults ==
  ASSUME NEW session, NEW manifest \in Manifests, NEW provider \in Providers,
         NEW answer \in Loads(session, manifest, provider)
  PROVE  answer.result \in {"ok", "failed", "thrown"}
<1>1. CASE answer \in FakeLoads(session, manifest)
  BY <1>1 DEF FakeLoads
<1>2. CASE answer \in OnnxLoads(session, manifest, provider)
  BY <1>2 DEF OnnxLoads, Builds
<1>3. QED
  BY <1>1, <1>2 DEF Loads

\* Every way out of a call of a backend writes a message of its own when it
\* fails, and some message when the session was silent.
THEOREM BackendsFailureExplained == Spec => []FailureExplained
<1>1. Init => FailureExplained
  BY DEF Init, FailureExplained
<1>2. FailureExplained /\ [Next]_vars => FailureExplained'
  <2> SUFFICES ASSUME FailureExplained, [Next]_vars
               PROVE  FailureExplained'
    OBVIOUS
  <2>1. ASSUME UNCHANGED outcome
        PROVE  FailureExplained'
    BY <2>1 DEF FailureExplained
  <2>2. ASSUME NEW role \in Roles, NEW text \in {"empty", "old"},
               NEW s \in Sessions \cup {NoSession}, NEW manifest \in Manifests,
               NEW provider \in Providers, Initialize(role, s, manifest, provider, text)
        PROVE  FailureExplained'
    <3>1. CASE Report("initialize", role, "failed", "new")
      BY <3>1 DEF Report, FailureExplained
    <3>2. ASSUME NEW answer \in Loads(sessions[s], manifest, provider),
                 Report("initialize", role, answer.result,
                        IF answer.result = "failed" THEN "new" ELSE text)
          PROVE  FailureExplained'
      BY <3>2, LoadResults DEF Report, FailureExplained
    <3>3. QED
      BY <2>2, <3>1, <3>2 DEF Initialize
  <2>3. ASSUME NEW role \in Roles, NEW text \in {"empty", "old"}, NEW frames \in FramesFor(role),
               Process(role, frames, text)
        PROVE  FailureExplained'
    <3>1. SilentMessage(text) \in {"old", "new"}
      BY DEF SilentMessage
    <3>2. ASSUME Report("process", role, "failed", "new")
          PROVE  FailureExplained'
      BY <3>2 DEF Report, FailureExplained
    <3>3. ASSUME Report("process", role, "silent", SilentMessage(text))
          PROVE  FailureExplained'
      BY <3>1, <3>3 DEF Report, FailureExplained
    <3>4. ASSUME outcome'.result = "ok"
          PROVE  FailureExplained'
      BY <3>4 DEF FailureExplained
    <3>5. QED
      BY <2>3, <3>2, <3>3, <3>4 DEF Process
  <2>4. ASSUME NEW role \in Roles, NEW text \in {"empty", "old"}, Close(role, text)
        PROVE  FailureExplained'
    BY <2>4 DEF Close, Report, FailureExplained
  <2>5. QED
    BY <2>1, <2>2, <2>3, <2>4 DEF Next, vars, MakeSession
<1>3. QED
  BY <1>1, <1>2, PTL DEF Spec

\* An ONNX upscaler that gives a frame back compared it with the scale of its own
\* manifest, which is that of the model in its session.
LEMMA UpscaledToScale ==
  ASSUME BackendsInv, NEW text, NEW frames \in FramesFor("upscaler"),
         Process("upscaler", frames, text), outcome'.result = "ok",
         backends["upscaler"].session # NoSession, SessionOf("upscaler").kind = "onnx"
  PROVE  outcome'.produced = Scaled(outcome'.taken, SessionOf("upscaler").model.manifest.scale)
<1> DEFINE s == backends["upscaler"].session
<1>1. "upscaler" \in Roles
  BY DEF Roles
<1>2. HoldsWell("upscaler") /\ s \in Sessions
  BY <1>1 DEF BackendsInv
<1>3. Provider # "fake"
  BY <1>2 DEF HoldsWell, SessionOf
<1>4. PICK outputs \in RunReturns(s, Inputs("upscaler", frames)) :
         /\ AcceptsOutput("upscaler", frames, outputs)
         /\ outcome' = [call |-> "process", role |-> "upscaler", result |-> "ok",
                        message |-> text, taken |-> frames[1].size,
                        produced |-> Produced(frames, outputs)]
  BY DEF Process, Report
<1>5. Loaded(s)
  BY <1>4 DEF RunReturns
<1>6. SessionOf("upscaler").model.manifest = backends["upscaler"].manifest
  BY <1>2, <1>5 DEF HoldsWell, SessionOf
<1>7. outputs[1].size = Scaled(frames[1].size, backends["upscaler"].manifest.scale)
  BY <1>3, <1>4 DEF AcceptsOutput
<1>8. QED
  BY <1>3, <1>4, <1>6, <1>7 DEF Produced

\* What an ONNX upscaler gives back has the size its model promises, and a later
\* make_inference_session() does not touch that model.
THEOREM BackendsScaleHonoured == Spec => []ScaleHonoured
<1>1. Init => ScaleHonoured
  BY DEF Init, ScaleHonoured
<1>2. BackendsInv /\ ScaleHonoured /\ [Next]_vars => ScaleHonoured'
  <2> SUFFICES ASSUME BackendsInv, ScaleHonoured, [Next]_vars
               PROVE  ScaleHonoured'
    OBVIOUS
  <2>1. ASSUME NEW s \in Sessions, NEW provider \in Providers, MakeSession(s, provider)
        PROVE  ScaleHonoured'
    <3>1. /\ UNCHANGED <<backends, outcome>> /\ sessions[s] = Unmade
          /\ \A t \in Sessions \ {s} : sessions'[t] = sessions[t]
      BY <2>1 DEF MakeSession, BackendsInv
    <3>2. HoldsWell("upscaler") /\ backends["upscaler"].session \in Sessions \cup {NoSession}
      BY DEF BackendsInv, Roles
    <3>3. backends["upscaler"].session # NoSession =>
             backends["upscaler"].session \in Sessions \ {s}
      BY <3>1, <3>2 DEF HoldsWell, Unmade
    <3>4. QED
      BY <3>1, <3>3 DEF ScaleHonoured, SessionOf
  <2>2. ASSUME outcome'.call # "process"
        PROVE  ScaleHonoured'
    BY <2>2 DEF ScaleHonoured
  <2>3. ASSUME NEW role \in Roles, NEW text \in {"empty", "old"},
               NEW s \in Sessions \cup {NoSession}, NEW manifest \in Manifests,
               NEW provider \in Providers, Initialize(role, s, manifest, provider, text)
        PROVE  ScaleHonoured'
    BY <2>2, <2>3 DEF Initialize, Report
  <2>4. ASSUME NEW role \in Roles, NEW text \in {"empty", "old"}, NEW frames \in FramesFor(role),
               Process(role, frames, text)
        PROVE  ScaleHonoured'
    <3>1. UNCHANGED <<sessions, backends>> /\ outcome'.role = role
      BY <2>4 DEF Process, Report
    <3>2. CASE role = "upscaler" /\ outcome'.result = "ok"
      BY <2>4, <3>1, <3>2, UpscaledToScale DEF ScaleHonoured, SessionOf
    <3>3. QED
      BY <3>1, <3>2 DEF ScaleHonoured
  <2>5. ASSUME NEW role \in Roles, NEW text \in {"empty", "old"}, Close(role, text)
        PROVE  ScaleHonoured'
    BY <2>2, <2>5 DEF Close, Report
  <2>6. CASE UNCHANGED vars
    BY <2>6 DEF vars, ScaleHonoured, SessionOf
  <2>7. QED
    BY <2>1, <2>3, <2>4, <2>5, <2>6 DEF Next
<1>3. QED
  BY <1>1, <1>2, BackendsAlways, PTL DEF Spec

=============================================================================
