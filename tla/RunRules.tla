------------------------------ MODULE RunRules ------------------------------
(***************************************************************************)
(* Which state of an AERI run may follow which, for what reason, on whose  *)
(* authority and with which action: src/levi/automatic/state_machine.py.   *)
(* Pure rules, no variables; Orchestrator asks CheckTransition before it   *)
(* prepares a transaction.                                                 *)
(*                                                                         *)
(* A rule names the sets it allows; the order of the rules of one edge     *)
(* only decides which refusal is reported, so a set of rules stands for    *)
(* the ordered lists of the code.  role "any" is the code's None.          *)
(***************************************************************************)
EXTENDS FiniteSets

AERI_STATES ==
    {"PREFLIGHT", "VERIFY_INITIAL", "FORWARD_ACTIVE", "FORWARD_JUDGING",
     "FORWARD_STOPPING", "FORWARD_FINALIZE", "ROBOT_HOME", "SCENE_ASSESS",
     "RESET_ACTIVE", "RESET_JUDGING", "RESET_VERIFY", "RESET_FINALIZE",
     "WAIT_HUMAN", "FAULT_LOCKED", "COMPLETED"}

\* Mutant: an episode is over once the robot is told to hold.
EPISODE_STATES_NoStopping ==
    {"FORWARD_ACTIVE", "FORWARD_JUDGING", "FORWARD_FINALIZE",
     "RESET_ACTIVE", "RESET_JUDGING", "RESET_VERIFY", "RESET_FINALIZE"}

EPISODE_STATES ==
    {"FORWARD_ACTIVE", "FORWARD_JUDGING", "FORWARD_STOPPING", "FORWARD_FINALIZE",
     "RESET_ACTIVE", "RESET_JUDGING", "RESET_VERIFY", "RESET_FINALIZE"}

TERMINAL == {"COMPLETED"}
HUMAN_STATES == {"WAIT_HUMAN", "FAULT_LOCKED"}
MOTION_STATES == {"FORWARD_ACTIVE", "RESET_ACTIVE"}
POLICY_MAY_INFER ==
    {"FORWARD_ACTIVE", "FORWARD_STOPPING", "RESET_ACTIVE", "FORWARD_JUDGING", "RESET_JUDGING"}
NON_IDEMPOTENT_KINDS == {"policy_steps", "home"}

FORWARD_STOPS ==
    {"goal_verified", "horizon_exhausted", "operator_stop", "operator_verdict",
     "policy_error", "watchdog_timeout", "subtask_early_check", "camera_stale"}
RESET_STOPS ==
    {"goal_verified", "reset_horizon_exhausted", "operator_stop", "policy_error",
     "watchdog_timeout", "camera_stale"}
RESET_OUTCOMES ==
    {"reset_verified", "scene_reset_required", "scene_unknown", "reset_horizon_exhausted",
     "operator_stop", "policy_error", "watchdog_timeout", "camera_stale"}
CAMERA_TO_HUMAN == {"camera_stale"}
TO_HUMAN ==
    {"scene_reset_required", "scene_unknown", "preflight_failed", "policy_error",
     "contract_violation_limit", "operator_stop", "reset_horizon_exhausted",
     "home_pose_not_reached", "startup_home_not_executed", "subtask_plan_refused",
     "subtask_inventory_rejected", "subtask_not_released", "vlm_unavailable"}
SUBTASK_TO_HUMAN == {"subtask_check_unavailable", "subtask_retry_limit", "vlm_unavailable"}

FAULT_REASONS ==
    [orchestrator |-> {"safety_stop", "recorder_failed", "home_failed", "policy_error",
                       "watchdog_timeout", "preflight_failed", "judgement_unproven"},
     safety_guard |-> {"safety_stop", "watchdog_timeout"},
     recovery     |-> {"recovery_ambiguous"}]

RESULT_TRANSITIONS ==
    {<<"FORWARD_FINALIZE", "ROBOT_HOME">>, <<"FORWARD_JUDGING", "WAIT_HUMAN">>,
     <<"RESET_JUDGING", "WAIT_HUMAN">>, <<"RESET_FINALIZE", "VERIFY_INITIAL">>,
     <<"RESET_FINALIZE", "WAIT_HUMAN">>, <<"RESET_FINALIZE", "SCENE_ASSESS">>}
-----------------------------------------------------------------------------
(* The table.                                                              *)

ORCH == {"orchestrator"}
ORCH_OR_OPERATOR == {"orchestrator", "operator"}
OPERATOR == {"operator"}
Quiet == {"none", "notify"}
Seal == {"recorder_seal", "recorder_abort"}
SceneStates == {"VERIFY_INITIAL", "SCENE_ASSESS"}

Rule(from, to, reasons, principals, actions, role) ==
    [from |-> from, to |-> to, reasons |-> reasons, principals |-> principals,
     actions |-> actions, role |-> role]

\* Pausing a policy for the judge (event_pause_judge), both roles.
JudgingRules ==
    {Rule("FORWARD_ACTIVE", "FORWARD_JUDGING", {"inference_paused"}, ORCH, {"policy_quiesce"}, "forward"),
     Rule("RESET_ACTIVE", "RESET_JUDGING", {"inference_paused"}, ORCH, {"policy_quiesce"}, "reset"),
     Rule("FORWARD_JUDGING", "FORWARD_ACTIVE", {"inference_resumed"}, ORCH, {"policy_steps"}, "forward"),
     Rule("RESET_JUDGING", "RESET_ACTIVE", {"inference_resumed"}, ORCH, {"policy_steps"}, "reset"),
     Rule("FORWARD_JUDGING", "FORWARD_FINALIZE",
          {"goal_verified", "horizon_exhausted", "operator_stop"},
          ORCH_OR_OPERATOR, {"policy_quiesce"}, "forward")}
    \cup {Rule(s, "WAIT_HUMAN",
               {"goal_verified", "horizon_exhausted", "reset_horizon_exhausted", "operator_stop"},
               ORCH_OR_OPERATOR, Seal, IF s = "FORWARD_JUDGING" THEN "forward" ELSE "reset")
          : s \in {"FORWARD_JUDGING", "RESET_JUDGING"}}

\* Preflight, the scene decision and the start of an episode.
StartRules ==
    {Rule("PREFLIGHT", "PREFLIGHT", {"startup_home_requested"}, OPERATOR, {"home"}, "any"),
     Rule("PREFLIGHT", "VERIFY_INITIAL", {"preflight_passed"}, ORCH, {"none"}, "any")}
    \cup {Rule(s, "FORWARD_ACTIVE", {"scene_ready", "subtask_dispatched"}, ORCH,
               {"policy_steps"}, "forward") : s \in SceneStates}
    \cup {Rule(s, "RESET_ACTIVE", {"scene_reset_required", "scene_unknown", "subtask_dispatched"},
               ORCH, {"policy_steps"}, "reset") : s \in SceneStates}
    \cup {Rule(s, "COMPLETED", {"run_completed"}, ORCH, {"none"}, "any") : s \in SceneStates}
    \cup {Rule(s, "WAIT_HUMAN", TO_HUMAN, ORCH_OR_OPERATOR, Quiet, "any")
          : s \in SceneStates \cup {"PREFLIGHT"}}

\* A forward episode: hold, quiesce, seal, home.
ForwardRules ==
    {Rule("FORWARD_ACTIVE", "FORWARD_STOPPING", FORWARD_STOPS, ORCH_OR_OPERATOR, {"hold"}, "forward"),
     Rule("FORWARD_STOPPING", "FORWARD_FINALIZE", FORWARD_STOPS, ORCH_OR_OPERATOR,
          {"policy_quiesce"}, "forward"),
     Rule("FORWARD_FINALIZE", "ROBOT_HOME", FORWARD_STOPS, ORCH_OR_OPERATOR, Seal, "forward"),
     Rule("ROBOT_HOME", "SCENE_ASSESS", {"robot_home_reached", "subtask_forward_done"},
          ORCH_OR_OPERATOR, {"home"}, "forward"),
     Rule("ROBOT_HOME", "SCENE_ASSESS", {"subtask_continue"}, ORCH, {"none"}, "forward"),
     Rule("ROBOT_HOME", "WAIT_HUMAN", {"operator_stop"}, OPERATOR, {"none"}, "any"),
     Rule("ROBOT_HOME", "WAIT_HUMAN", {"home_not_executed"} \cup CAMERA_TO_HUMAN \cup SUBTASK_TO_HUMAN,
          ORCH, Quiet, "any")}

\* A reset episode: quiesce, seal, home with the result.
ResetRules ==
    {Rule("RESET_ACTIVE", "RESET_VERIFY", RESET_STOPS \cup {"subtask_ended"}, ORCH_OR_OPERATOR,
          {"policy_quiesce"}, "reset"),
     Rule("RESET_VERIFY", "RESET_FINALIZE", RESET_OUTCOMES \cup {"subtask_ended"}, ORCH_OR_OPERATOR,
          Seal, "reset"),
     Rule("RESET_FINALIZE", "VERIFY_INITIAL",
          {"reset_verified", "scene_reset_required", "scene_unknown", "subtask_reverse_done"},
          ORCH, {"home"}, "reset"),
     Rule("RESET_FINALIZE", "SCENE_ASSESS", {"subtask_continue"}, ORCH, {"none"}, "reset"),
     Rule("RESET_FINALIZE", "WAIT_HUMAN", RESET_OUTCOMES \ ({"reset_verified"} \cup CAMERA_TO_HUMAN),
          ORCH_OR_OPERATOR, {"home"}, "reset"),
     Rule("RESET_FINALIZE", "WAIT_HUMAN", CAMERA_TO_HUMAN \cup SUBTASK_TO_HUMAN, ORCH, {"none"}, "reset"),
     Rule("RESET_FINALIZE", "WAIT_HUMAN", {"operator_stop"}, OPERATOR, {"none"}, "reset")}

\* A person takes the run on, or ends it; a fault locks it from anywhere.
HumanRules ==
    {Rule(s, "PREFLIGHT", {"human_resumed"}, OPERATOR, {"none"}, "any") : s \in HUMAN_STATES}
    \cup {Rule("WAIT_HUMAN", "COMPLETED", {"operator_stop"}, OPERATOR, {"none"}, "any")}

\* A fault on that authority: from every state a run can still be locked in.
FaultRulesOf(who) ==
    {Rule(s, "FAULT_LOCKED", FAULT_REASONS[who], {who},
          IF who = "recovery" THEN {"none"} ELSE {"none", "hold"}, "any")
     : s \in AERI_STATES \ (TERMINAL \cup {"FAULT_LOCKED"})}

FaultRules ==
    {Rule("FAULT_LOCKED", "FAULT_LOCKED", {"recovery_ambiguous", "journal_corrupt"},
          {"recovery"}, {"none"}, "any")}
    \cup UNION {FaultRulesOf(who) : who \in DOMAIN FAULT_REASONS}

TRANSITIONS ==
    JudgingRules \cup StartRules \cup ForwardRules \cup ResetRules \cup HumanRules \cup FaultRules
-----------------------------------------------------------------------------
\* Does a commit from one state to another carry the episode's result?  A
\* fault inside an episode may or may not.
ResultAllowed(from, to, result) ==
    \/ to = "FAULT_LOCKED" /\ from \in EPISODE_STATES
    \/ result = (<<from, to>> \in RESULT_TRANSITIONS)

\* check_transition: some rule of the edge allows the move.  An operator
\* always brings a command_id here, and a physical action always a step.
CheckTransition(from, to, reason, principal, action, role, result) ==
    \E r \in TRANSITIONS :
        /\ r.from = from /\ r.to = to
        /\ principal \in r.principals
        /\ reason \in r.reasons
        /\ action \in r.actions
        /\ r.role \in {"any", role}
        /\ ResultAllowed(from, to, result)
=============================================================================
