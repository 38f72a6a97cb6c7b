-------------------------- MODULE BackendContract --------------------------
(***************************************************************************)
(* What the pipeline relies on when it calls its backends, and all that    *)
(* ProcessingPipeline assumes of them: a backend works only between an     *)
(* initialize() that succeeded and close(), and a reliable one then always *)
(* works.                                                                  *)
(***************************************************************************)
CONSTANTS Roles,
          Reliable     \* TRUE of backends that fail only when they are closed

VARIABLES status,      \* of each backend: "closed" or "ready"
          answer       \* of the last call: which, whose, and whether it succeeded

contractVars == <<status, answer>>

Init ==
    /\ status = [role \in Roles |-> "closed"]
    /\ answer = [call |-> "none", role |-> "none", ok |-> TRUE]

Initialize(role) ==
    \E ok \in BOOLEAN :
        /\ status' = IF ok THEN [status EXCEPT ![role] = "ready"] ELSE status
        /\ answer' = [call |-> "initialize", role |-> role, ok |-> ok]

Process(role) ==
    \E ok \in BOOLEAN :
        /\ ok => status[role] = "ready"
        /\ Reliable /\ status[role] = "ready" => ok
        /\ answer' = [call |-> "process", role |-> role, ok |-> ok]
        /\ UNCHANGED status

Close(role) ==
    /\ status' = [status EXCEPT ![role] = "closed"]
    /\ answer' = [call |-> "close", role |-> role, ok |-> TRUE]

Next == \E role \in Roles : Initialize(role) \/ Process(role) \/ Close(role)

Spec == Init /\ [][Next]_contractVars
=============================================================================
